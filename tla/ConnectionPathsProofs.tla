----------------------- MODULE ConnectionPathsProofs ------------------------
(***************************************************************************)
(* Proofs about ConnectionEvents and ConnectionPaths, for any number of    *)
(* events, of addresses and of moves.                                      *)
(*                                                                         *)
(* A step of ConnectionPaths is one of ConnectionEvents, or leaves its     *)
(* variables alone, so what is proved of the events holds with the paths.  *)
(***************************************************************************)
EXTENDS ConnectionPaths, SequenceTheorems, TLAPS

\* The events a call of ngtcp2 raises.
New(n) == [i \in 1..n |-> produced + i]

EventTypes ==
    /\ role \in Roles /\ quic \in QuicStates /\ produced \in 0..MaxEvents
    /\ callbacks \in Seq(1..produced) /\ events \in Seq(Nat) /\ delivered \in Seq(Nat)
    /\ closed \in BOOLEAN /\ local \in BOOLEAN
    /\ pc \in {"connect", "connecting", "dead", "app", "loop", "send", "select", "close"}
    /\ ret \in {"none", "event", "ConnectionClosed", "error", "recv error"}

\* What the end of the connection goes with: nothing is raised after it, and when
\* the peer's CONNECTION_CLOSE is read all that was raised has been drained.
EndOK ==
    /\ EventsInOrder
    /\ Ended => closed
    /\ Ended /\ quic # "closing" => Everything = EndAt(produced, produced + 1) /\ ~Running
    /\ quic = "draining" => callbacks = <<>>
    /\ quic = "closing" => pc \in {"app", "close"}

EventsInv == EventTypes /\ EndOK

\* The addresses of this side and of the peer, and what an event may say of them.
Mine == IF role = "client" THEN ClientAddrs ELSE ServerAddrs
Peers == IF role = "client" THEN ServerAddrs ELSE ClientAddrs
Labels == [ok : BOOLEAN, peer : Peers \cup {"none"}]

\* A server that validates a path has one to return to; only a client is offered the
\* preferred address.
PathTypes ==
    /\ path \in [me : Mine, peer : Peers]
    /\ pv \in [me : Mine, peer : Peers] \cup {None}
    /\ role = "handle" /\ pv # None => back \in [me : Mine, peer : Peers]
    /\ local_addr \in Mine /\ remote_addr \in Peers
    /\ labels \in Seq(Labels) /\ Len(labels) = produced
    /\ moves \in 0..MaxMoves
    /\ offer \in BOOLEAN /\ (offer => role = "client")

\* The event of a validated path is drained in the call that raised it: none waits
\* in the sans-IO queue.
Drained == \A i \in 1..Len(callbacks) : ~labels[callbacks[i]].ok

PathsInv ==
    /\ EventsInv /\ PathTypes /\ Drained
    /\ ClientSendsFromPath /\ RemoteAddrIsCurrent
-----------------------------------------------------------------------------
(* Sequences of events                                                     *)

\* A function on 1..n is a sequence of length n.
LEMMA FunctionsAreSequences ==
    ASSUME NEW S, NEW n \in Nat, NEW f \in [1..n -> S]
    PROVE  f \in Seq(S) /\ Len(f) = n
BY DOMAIN f = 1..n

\* The numbered events are sequences of numbers, with or without the end.
LEMMA FirstEventsIsSeq ==
    ASSUME NEW n \in Nat
    PROVE  /\ FirstEvents(n) \in Seq(Nat) /\ Len(FirstEvents(n)) = n
           /\ \A i \in 1..n : FirstEvents(n)[i] = i
<1>1. FirstEvents(n) \in [1..n -> Nat]
  BY DEF FirstEvents
<1> QED
  BY <1>1, FunctionsAreSequences, Zenon DEF FirstEvents

\* EndAt is a sequence with the end of the connection at its place p.
LEMMA EndAtIsSeq ==
    ASSUME NEW n \in Nat, NEW p \in 1..(n + 1)
    PROVE  /\ EndAt(n, p) \in Seq(Nat) /\ Len(EndAt(n, p)) = n + 1
           /\ \A i \in 1..(n + 1) :
                EndAt(n, p)[i] = IF i < p THEN i ELSE IF i = p THEN Closed ELSE i - 1
<1>1. EndAt(n, p) \in [1..(n + 1) -> Nat]
  BY DEF EndAt, Closed
<1> QED
  BY <1>1, FunctionsAreSequences DEF EndAt

\* The numbers of m new events, as a sequence.
LEMMA NewIsSeq ==
    ASSUME NEW n \in Nat, NEW m \in Nat
    PROVE  LET f == [i \in 1..m |-> n + i]
           IN  /\ f \in Seq(Nat) /\ f \in Seq(1..(n + m)) /\ Len(f) = m
               /\ \A i \in 1..m : f[i] = n + i
<1> DEFINE f == [i \in 1..m |-> n + i]
<1>1. f \in [1..m -> Nat] /\ f \in [1..m -> 1..(n + m)]
  OBVIOUS
<1> QED
  BY <1>1, FunctionsAreSequences, Zenon

\* A concatenation, element by element.
LEMMA ConcatElementsOf ==
    ASSUME NEW S, NEW a \in Seq(S), NEW b \in Seq(S)
    PROVE  /\ a \o b \in Seq(S) /\ Len(a \o b) = Len(a) + Len(b)
           /\ Len(a) \in Nat /\ Len(b) \in Nat
           /\ \A i \in 1..Len(a) : (a \o b)[i] = a[i]
           /\ \A i \in 1..Len(b) : (a \o b)[Len(a) + i] = b[i]
<1>1. a \o b \in Seq(S) /\ Len(a \o b) = Len(a) + Len(b) /\ Len(a) \in Nat /\ Len(b) \in Nat
  BY ConcatProperties
<1>2. \A i \in 1..(Len(a) + Len(b)) : (a \o b)[i] = IF i <= Len(a) THEN a[i] ELSE b[i - Len(a)]
  BY ConcatProperties, Zenon
<1>3. ASSUME NEW i \in 1..Len(a)
      PROVE  (a \o b)[i] = a[i]
  BY <1>1, <1>2
<1>4. ASSUME NEW i \in 1..Len(b)
      PROVE  (a \o b)[Len(a) + i] = b[i]
  <2>1. Len(a) + i \in 1..(Len(a) + Len(b)) /\ ~(Len(a) + i <= Len(a)) /\ (Len(a) + i) - Len(a) = i
    BY <1>1
  <2> QED
    BY <1>2, <2>1, Zenon
<1> QED
  BY <1>1, <1>3, <1>4, Zenon

\* A concatenation, element by element.
LEMMA ConcatElements ==
    ASSUME NEW a \in Seq(Nat), NEW b \in Seq(Nat)
    PROVE  /\ a \o b \in Seq(Nat) /\ Len(a \o b) = Len(a) + Len(b)
           /\ Len(a) \in Nat /\ Len(b) \in Nat
           /\ \A i \in 1..Len(a) : (a \o b)[i] = a[i]
           /\ \A i \in 1..Len(b) : (a \o b)[Len(a) + i] = b[i]
BY ConcatElementsOf

\* A sequence with the elements of a concatenation is that concatenation.
LEMMA ConcatIs ==
    ASSUME NEW a \in Seq(Nat), NEW b \in Seq(Nat), NEW r \in Seq(Nat),
           Len(r) = Len(a) + Len(b),
           \A i \in 1..Len(a) : r[i] = a[i],
           \A i \in 1..Len(b) : r[Len(a) + i] = b[i]
    PROVE  a \o b = r
<1> DEFINE c == a \o b
<1>1. c \in Seq(Nat) /\ Len(c) = Len(a) + Len(b) /\ Len(a) \in Nat /\ Len(b) \in Nat
      /\ (\A i \in 1..Len(a) : c[i] = a[i])
      /\ (\A i \in 1..Len(b) : c[Len(a) + i] = b[i])
  BY ConcatElements, Zenon
<1> HIDE DEF c
<1>2. ASSUME NEW i \in 1..Len(c)
      PROVE  c[i] = r[i]
  <2>1. CASE i <= Len(a)
    BY <1>1, <2>1
  <2>2. CASE ~(i <= Len(a))
    <3>1. i - Len(a) \in 1..Len(b) /\ Len(a) + (i - Len(a)) = i
      BY <1>1, <2>2
    <3>2. c[Len(a) + (i - Len(a))] = b[i - Len(a)] /\ r[Len(a) + (i - Len(a))] = b[i - Len(a)]
      BY <1>1, <3>1, Zenon
    <3> QED
      BY <3>1, <3>2, Zenon
  <2> QED
    BY <2>1, <2>2, Zenon
<1>3. c = r
  BY <1>1, <1>2, SeqEqual, Zenon
<1> QED
  BY <1>3, Zenon DEF c

\* What is raised comes after what was raised before, the end included.
LEMMA RaisedInOrder ==
    ASSUME NEW n \in Nat, NEW m \in Nat,
           NEW f \in Seq(Nat), Len(f) = m, \A i \in 1..m : f[i] = n + i
    PROVE  /\ FirstEvents(n) \o f = FirstEvents(n + m)
           /\ \A p \in 1..(n + 1) : EndAt(n, p) \o f = EndAt(n + m, p)
<1>1. FirstEvents(n) \o f = FirstEvents(n + m)
  <2>1. PICK a : a = FirstEvents(n)
    BY Zenon
  <2>2. PICK r : r = FirstEvents(n + m)
    BY Zenon
  <2>3. a \in Seq(Nat) /\ Len(a) = n /\ \A i \in 1..n : a[i] = i
    BY <2>1, FirstEventsIsSeq, Zenon
  <2>4. r \in Seq(Nat) /\ Len(r) = n + m /\ \A i \in 1..(n + m) : r[i] = i
    BY <2>2, FirstEventsIsSeq, n + m \in Nat, Zenon
  <2>5. (\A i \in 1..Len(a) : r[i] = a[i]) /\ Len(r) = Len(a) + Len(f)
    BY <2>3, <2>4
  <2>6. \A i \in 1..Len(f) : r[Len(a) + i] = f[i]
    BY <2>3, <2>4
  <2>7. a \o f = r
    BY <2>3, <2>4, <2>5, <2>6, ConcatIs, Zenon
  <2> QED
    BY <2>1, <2>2, <2>7, Zenon
<1>2. ASSUME NEW p \in 1..(n + 1)
      PROVE  EndAt(n, p) \o f = EndAt(n + m, p)
  <2>1. PICK a : a = EndAt(n, p)
    BY Zenon
  <2>2. PICK r : r = EndAt(n + m, p)
    BY Zenon
  <2>3. a \in Seq(Nat) /\ Len(a) = n + 1
        /\ \A i \in 1..(n + 1) : a[i] = IF i < p THEN i ELSE IF i = p THEN Closed ELSE i - 1
    BY <2>1, EndAtIsSeq, Zenon
  <2>4. n + m \in Nat /\ p \in 1..((n + m) + 1)
    OBVIOUS
  <2>5. r \in Seq(Nat) /\ Len(r) = (n + m) + 1
        /\ \A i \in 1..((n + m) + 1) : r[i] = IF i < p THEN i ELSE IF i = p THEN Closed ELSE i - 1
    BY <2>2, <2>4, EndAtIsSeq, ZenonT(60)
  <2>6. ASSUME NEW i \in 1..Len(a)
        PROVE  r[i] = a[i]
    <3>1. i \in 1..(n + 1) /\ i \in 1..((n + m) + 1)
      BY <2>3
    <3> QED
      BY <2>3, <2>5, <3>1, Zenon
  <2>7. ASSUME NEW i \in 1..Len(f)
        PROVE  r[Len(a) + i] = f[i]
    <3>1. (n + 1) + i \in 1..((n + m) + 1) /\ ~((n + 1) + i < p) /\ (n + 1) + i # p
          /\ ((n + 1) + i) - 1 = n + i
      OBVIOUS
    <3>2. r[(n + 1) + i] = n + i
      BY <2>5, <3>1, Zenon
    <3> QED
      BY <2>3, <3>2, Zenon
  <2>8. Len(r) = Len(a) + Len(f)
    BY <2>3, <2>5
  <2>9. a \o f = r
    BY <2>3, <2>5, <2>6, <2>7, <2>8, ConcatIs, Zenon
  <2> QED
    BY <2>1, <2>2, <2>9, Zenon
<1> QED
  BY <1>1, <1>2, Zenon

\* The end put behind the first part of the numbered events is in its place.
LEMMA EndPutBehind ==
    ASSUME NEW n \in Nat, NEW d \in Seq(Nat), NEW c \in Seq(Nat), d \o c = FirstEvents(n)
    PROVE  /\ Len(d) + 1 \in 1..(n + 1) /\ Len(d) + Len(c) = n
           /\ Append(d, Closed) \o c = EndAt(n, Len(d) + 1)
<1>1. PICK b : b = FirstEvents(n)
  BY Zenon
<1>2. Len(d) \in Nat /\ Len(c) \in Nat /\ Len(b) = Len(d) + Len(c)
      /\ (\A i \in 1..Len(d) : b[i] = d[i]) /\ (\A i \in 1..Len(c) : b[Len(d) + i] = c[i])
  BY <1>1, ConcatElements
<1>3. Len(b) = n /\ \A i \in 1..n : b[i] = i
  BY <1>1, FirstEventsIsSeq, Zenon
<1>4. PICK e : e = Append(d, Closed)
  BY Zenon
<1>5. e \in Seq(Nat) /\ Len(e) = Len(d) + 1 /\ e[Len(d) + 1] = Closed
      /\ \A i \in 1..Len(d) : e[i] = d[i]
  BY <1>4, AppendProperties DEF Closed
<1>6. PICK p : p = Len(d) + 1
  BY Zenon
<1>7. p \in 1..(n + 1) /\ p \in Nat
  BY <1>2, <1>3, <1>6
<1>8. PICK r : r = EndAt(n, p)
  BY Zenon
<1>9. r \in Seq(Nat) /\ Len(r) = n + 1
      /\ \A i \in 1..(n + 1) : r[i] = IF i < p THEN i ELSE IF i = p THEN Closed ELSE i - 1
  BY <1>7, <1>8, EndAtIsSeq, Zenon
<1>10. Len(r) = Len(e) + Len(c)
  BY <1>2, <1>3, <1>5, <1>9
<1>11. ASSUME NEW i \in 1..Len(e)
       PROVE  r[i] = e[i]
  <2>1. CASE i = p
    BY <1>5, <1>6, <1>7, <1>9, <2>1
  <2>2. CASE i # p
    <3>1. i \in 1..Len(d) /\ i \in 1..n /\ i \in 1..(n + 1) /\ i < p
      BY <1>2, <1>3, <1>5, <1>6, <2>2
    <3>2. b[i] = d[i] /\ b[i] = i /\ e[i] = d[i] /\ r[i] = i
      BY <1>2, <1>3, <1>5, <1>9, <3>1, Zenon
    <3> QED
      BY <3>2, Zenon
  <2> QED
    BY <2>1, <2>2, Zenon
<1>12. ASSUME NEW i \in 1..Len(c)
       PROVE  r[Len(e) + i] = c[i]
  <2>1. Len(d) + i \in 1..n /\ Len(e) + i \in 1..(n + 1) /\ ~(Len(e) + i < p) /\ Len(e) + i # p
        /\ (Len(e) + i) - 1 = Len(d) + i
    BY <1>2, <1>3, <1>5, <1>6
  <2>2. b[Len(d) + i] = c[i] /\ b[Len(d) + i] = Len(d) + i
    BY <1>2, <1>3, <2>1, Zenon
  <2>3. r[Len(e) + i] = (Len(e) + i) - 1
    BY <1>9, <2>1, Zenon
  <2> QED
    BY <2>1, <2>2, <2>3, Zenon
<1>13. e \o c = r
  BY <1>5, <1>9, <1>10, <1>11, <1>12, ConcatIs, Zenon
<1> QED
  BY <1>2, <1>3, <1>4, <1>6, <1>7, <1>8, <1>13, Zenon

\* recv_event takes the head of the queue: nothing is lost between the queue and
\* the application.
LEMMA HeadTaken ==
    ASSUME NEW d \in Seq(Nat), NEW es \in Seq(Nat), es # <<>>
    PROVE  /\ Append(d, Head(es)) \in Seq(Nat) /\ Tail(es) \in Seq(Nat)
           /\ Append(d, Head(es)) \o Tail(es) = d \o es
<1>1. PICK a : a = Append(d, Head(es))
  BY Zenon
<1>2. PICK b : b = Tail(es)
  BY Zenon
<1>3. PICK r : r = d \o es
  BY Zenon
<1>4. Len(es) \in Nat /\ Len(es) # 0 /\ Head(es) = es[1] /\ Head(es) \in Nat
  BY HeadTailProperties
<1>5. b \in Seq(Nat) /\ Len(b) = Len(es) - 1 /\ \A i \in 1..Len(b) : b[i] = es[i + 1]
  BY <1>2, HeadTailProperties, Zenon
<1>6. a \in Seq(Nat) /\ Len(a) = Len(d) + 1 /\ a[Len(d) + 1] = es[1]
      /\ \A i \in 1..Len(d) : a[i] = d[i]
  BY <1>1, <1>4, AppendProperties
<1>7. r \in Seq(Nat) /\ Len(r) = Len(d) + Len(es) /\ Len(d) \in Nat
      /\ (\A i \in 1..Len(d) : r[i] = d[i]) /\ (\A i \in 1..Len(es) : r[Len(d) + i] = es[i])
  BY <1>3, ConcatElements, Zenon
<1>8. ASSUME NEW i \in 1..Len(a)
      PROVE  r[i] = a[i]
  <2>1. CASE i \in 1..Len(d)
    BY <1>6, <1>7, <2>1, Zenon
  <2>2. CASE i = Len(d) + 1
    BY <1>4, <1>6, <1>7, <2>2
  <2> QED
    BY <1>6, <1>7, <2>1, <2>2
<1>9. ASSUME NEW i \in 1..Len(b)
      PROVE  r[Len(a) + i] = b[i]
  <2>1. Len(a) + i = Len(d) + (i + 1) /\ i + 1 \in 1..Len(es)
    BY <1>4, <1>5, <1>6, <1>7
  <2> QED
    BY <1>5, <1>7, <2>1, Zenon
<1>10. Len(r) = Len(a) + Len(b)
  BY <1>4, <1>5, <1>6, <1>7
<1>11. a \o b = r
  BY <1>5, <1>6, <1>7, <1>8, <1>9, <1>10, ConcatIs, Zenon
<1> QED
  BY <1>1, <1>2, <1>3, <1>5, <1>6, <1>11, Zenon

\* Concatenation, with a name of its own for the provers.
Cat(x, y) == x \o y

\* Concatenation is associative.
LEMMA Associative ==
    ASSUME NEW d \in Seq(Nat), NEW e \in Seq(Nat), NEW c \in Seq(Nat)
    PROVE  Cat(Cat(d, e), c) = Cat(d, Cat(e, c))
<1>a. PICK de : de = d \o e
  BY Zenon
<1>b. PICK ec : ec = e \o c
  BY Zenon
<1>c. de \in Seq(Nat) /\ ec \in Seq(Nat)
  BY <1>a, <1>b, ConcatElements, Zenon
<1>1. PICK r : r = d \o ec
  BY Zenon
<1>2. Len(de) = Len(d) + Len(e) /\ Len(d) \in Nat /\ Len(e) \in Nat
      /\ (\A i \in 1..Len(d) : de[i] = d[i]) /\ (\A i \in 1..Len(e) : de[Len(d) + i] = e[i])
  BY <1>a, ConcatElements, Zenon
<1>3. Len(ec) = Len(e) + Len(c) /\ Len(c) \in Nat
      /\ (\A i \in 1..Len(e) : ec[i] = e[i]) /\ (\A i \in 1..Len(c) : ec[Len(e) + i] = c[i])
  BY <1>b, ConcatElements, Zenon
<1>4. r \in Seq(Nat) /\ Len(r) = Len(d) + Len(ec)
      /\ (\A i \in 1..Len(d) : r[i] = d[i]) /\ (\A i \in 1..Len(ec) : r[Len(d) + i] = ec[i])
  BY <1>1, <1>c, ConcatElements
<1>5. ASSUME NEW i \in 1..Len(de)
      PROVE  r[i] = de[i]
  <2>1. CASE i \in 1..Len(d)
    BY <1>2, <1>4, <2>1, Zenon
  <2>2. CASE i \notin 1..Len(d)
    <3>1. i - Len(d) \in 1..Len(e) /\ i - Len(d) \in 1..Len(ec) /\ Len(d) + (i - Len(d)) = i
      BY <1>2, <1>3, <2>2
    <3>2. r[Len(d) + (i - Len(d))] = ec[i - Len(d)] /\ de[Len(d) + (i - Len(d))] = e[i - Len(d)]
      BY <1>2, <1>4, <3>1, Zenon
    <3>3. ec[i - Len(d)] = e[i - Len(d)]
      BY <1>3, <3>1, Zenon
    <3> QED
      BY <3>1, <3>2, <3>3, Zenon
  <2> QED
    BY <2>1, <2>2, Zenon
<1>6. ASSUME NEW i \in 1..Len(c)
      PROVE  r[Len(de) + i] = c[i]
  <2>1. Len(e) + i \in 1..Len(ec) /\ Len(de) + i = Len(d) + (Len(e) + i)
    BY <1>2, <1>3
  <2>2. r[Len(d) + (Len(e) + i)] = ec[Len(e) + i]
    BY <1>4, <2>1, Zenon
  <2> QED
    BY <1>3, <2>1, <2>2, Zenon
<1>7. Len(r) = Len(de) + Len(c)
  BY <1>2, <1>3, <1>4
<1>8. de \o c = r
  BY <1>4, <1>5, <1>6, <1>7, <1>c, ConcatIs, Zenon
<1> QED
  BY <1>1, <1>8, <1>a, <1>b, Zenon DEF Cat

\* The queues one after the other, wherever the border between them is.
LEMMA QueuesJoin ==
    ASSUME NEW d \in Seq(Nat), NEW e \in Seq(Nat), NEW c \in Seq(Nat), NEW f \in Seq(Nat)
    PROVE  /\ Cat(Cat(d, e), Cat(c, f)) = Cat(Cat(Cat(d, e), c), f)
           /\ Cat(Cat(d, Cat(e, Cat(c, f))), <<>>) = Cat(Cat(Cat(d, e), c), f)
           /\ Cat(d, Cat(e, Cat(c, f))) = Cat(Cat(Cat(d, e), c), f)
           /\ Cat(d, Cat(e, c)) = Cat(Cat(d, e), c)
<1>1. \A x, y \in Seq(Nat) : Cat(x, y) \in Seq(Nat)
  BY ConcatElements, Zenon DEF Cat
<1>2. \A x, y, z \in Seq(Nat) : Cat(Cat(x, y), z) = Cat(x, Cat(y, z))
  BY Associative, Zenon
<1>3. \A x \in Seq(Nat) : Cat(x, <<>>) = x
  BY ConcatEmptySeq, Zenon DEF Cat
<1>4. Cat(d, e) \in Seq(Nat) /\ Cat(c, f) \in Seq(Nat) /\ Cat(e, Cat(c, f)) \in Seq(Nat)
      /\ Cat(d, Cat(e, Cat(c, f))) \in Seq(Nat)
  BY <1>1, Zenon
<1>5. Cat(Cat(d, e), Cat(c, f)) = Cat(Cat(Cat(d, e), c), f)
  BY <1>2, <1>4
<1>6. Cat(Cat(d, e), Cat(c, f)) = Cat(d, Cat(e, Cat(c, f)))
  BY <1>2, <1>4
<1>7. Cat(Cat(d, Cat(e, Cat(c, f))), <<>>) = Cat(d, Cat(e, Cat(c, f)))
  BY <1>3, <1>4, Zenon
<1>8. Cat(Cat(d, e), c) = Cat(d, Cat(e, c))
  BY <1>2
<1> QED
  BY <1>5, <1>6, <1>7, <1>8, Zenon

\* The end appended to all that was raised is the last event.
LEMMA EndPutLast ==
    ASSUME NEW n \in Nat
    PROVE  Append(FirstEvents(n), Closed) = EndAt(n, n + 1)
<1>1. PICK d : d = FirstEvents(n)
  BY Zenon
<1>2. d \in Seq(Nat) /\ Len(d) = n /\ d \o <<>> = d
  BY <1>1, FirstEventsIsSeq, ConcatEmptySeq, Zenon
<1>3. PICK c : c = <<>>
  BY Zenon
<1>a. c \in Seq(Nat) /\ d \o c = FirstEvents(n)
  BY <1>1, <1>2, <1>3
<1>b. Append(d, Closed) \o c = EndAt(n, Len(d) + 1)
  BY <1>2, <1>a, EndPutBehind, Zenon
<1>4. Append(d, Closed) \o <<>> = EndAt(n, n + 1)
  BY <1>2, <1>3, <1>b, Zenon
<1>5. Append(d, Closed) \in Seq(Nat)
  BY <1>2, AppendProperties, Zenon DEF Closed
<1>6. Append(d, Closed) \o <<>> = Append(d, Closed)
  BY <1>5, ConcatEmptySeq, Zenon
<1> QED
  BY <1>1, <1>4, <1>6, Zenon

\* What the callbacks raise has a number, which the end has not.
LEMMA CallbacksAreNumbers ==
    ASSUME NEW n \in Nat, NEW c \in Seq(1..n)
    PROVE  c \in Seq(Nat) /\ \A i \in 1..Len(c) : c[i] # 0 /\ c[i] \in 1..n
<1>1. Len(c) \in Nat /\ c \in [1..Len(c) -> 1..n]
  OBVIOUS
<1>2. c \in [1..Len(c) -> Nat]
  BY <1>1
<1> QED
  BY <1>1, <1>2, FunctionsAreSequences

\* The end is reported exactly when it is among the events, and it is not one that
\* ngtcp2 raises.
LEMMA EndedForm ==
    ASSUME NEW n \in Nat, NEW d \in Seq(Nat), NEW e \in Seq(Nat), NEW c \in Seq(1..n)
    PROVE  /\ (d \o e) \o c = FirstEvents(n) => ~HasEnd(d \o e)
           /\ \A p \in 1..(n + 1) : (d \o e) \o c = EndAt(n, p) => HasEnd(d \o e)
<1>1. PICK a : a = d \o e
  BY Zenon
<1>2. a \in Seq(Nat)
  BY <1>1, ConcatElements, Zenon
<1>3. c \in Seq(Nat) /\ \A i \in 1..Len(c) : c[i] # 0
  BY CallbacksAreNumbers, Zenon
<1>4. PICK b : b = a \o c
  BY Zenon
<1>5. Len(b) = Len(a) + Len(c) /\ Len(a) \in Nat /\ Len(c) \in Nat
      /\ (\A i \in 1..Len(a) : b[i] = a[i])
      /\ (\A i \in 1..Len(c) : b[Len(a) + i] = c[i])
  BY <1>2, <1>3, <1>4, ConcatElements, Zenon
<1>6. HasEnd(a) <=> \E i \in 1..Len(a) : a[i] = 0
  BY Zenon DEF HasEnd, Closed
<1>7. ASSUME b = FirstEvents(n)
      PROVE  ~HasEnd(a)
  <2>1. Len(b) = n /\ \A i \in 1..n : b[i] = i
    BY <1>7, FirstEventsIsSeq, Zenon
  <2> QED
    BY <1>5, <1>6, <2>1
<1>8. ASSUME NEW p \in 1..(n + 1), b = EndAt(n, p)
      PROVE  HasEnd(a)
  <2>1. Len(b) = n + 1 /\ \A i \in 1..(n + 1) :
          b[i] = IF i < p THEN i ELSE IF i = p THEN 0 ELSE i - 1
    BY <1>8, EndAtIsSeq, Zenon DEF Closed
  <2>2. b[p] = 0
    BY <2>1
  <2>3. CASE p <= Len(a)
    <3>1. p \in 1..Len(a)
      BY <1>5, <2>3
    <3> QED
      BY <1>5, <1>6, <2>2, <3>1, Zenon
  <2>4. CASE ~(p <= Len(a))
    <3>1. p - Len(a) \in 1..Len(c) /\ Len(a) + (p - Len(a)) = p
      BY <1>5, <2>1, <2>4
    <3> QED
      BY <1>3, <1>5, <2>2, <3>1, Zenon
  <2> QED
    BY <2>3, <2>4, Zenon
<1> QED
  BY <1>1, <1>4, <1>7, <1>8, Zenon
-----------------------------------------------------------------------------
(* Steps of ConnectionEvents                                               *)

\* The types, one by one.
LEMMA TypesOfEvents ==
    ASSUME EventTypes
    PROVE  /\ produced \in Nat /\ MaxEvents \in Nat /\ produced <= MaxEvents
           /\ callbacks \in Seq(1..produced) /\ callbacks \in Seq(Nat)
           /\ events \in Seq(Nat) /\ delivered \in Seq(Nat)
<1>1. MaxEvents \in Nat
  BY ConnectionEventsAssumption, Zenon
<1>2. produced \in 0..MaxEvents /\ callbacks \in Seq(1..produced)
      /\ events \in Seq(Nat) /\ delivered \in Seq(Nat)
  BY Zenon DEF EventTypes
<1>3. produced \in Nat /\ produced <= MaxEvents
  BY <1>1, <1>2
<1> QED
  BY <1>1, <1>2, <1>3, CallbacksAreNumbers, Zenon

\* What no step undoes: `closed`, the closing period, the end of the connection.
Onwards ==
    /\ closed => closed'
    /\ quic = "closing" => quic' = "closing"
    /\ ~Running => ~Running'
    /\ quic' = "draining" => callbacks' = <<>>
    /\ quic' = "closing" => pc' \in {"app", "close"}

\* A step that raises n events and reports no end.
LEMMA GrowsPreserves ==
    ASSUME EventsInv, EventTypes', Onwards,
           NEW n \in Nat, n # 0 => Running, produced' = produced + n,
           Everything' = Everything \o New(n)
    PROVE  EventsInv'
<1>1. produced \in Nat /\ callbacks \in Seq(1..produced) /\ callbacks \in Seq(Nat)
      /\ events \in Seq(Nat) /\ delivered \in Seq(Nat)
  BY TypesOfEvents, Zenon DEF EventsInv
<1>2. PICK N : N = produced'
  BY Zenon
<1>3. N = produced + n /\ N \in Nat
  BY <1>1, <1>2
<1>4. events' \in Seq(Nat) /\ delivered' \in Seq(Nat) /\ callbacks' \in Seq(1..N)
  BY <1>2, Zenon DEF EventTypes
<1>5. PICK f : f = New(n)
  BY Zenon
<1>6. f \in Seq(Nat) /\ Len(f) = n /\ \A i \in 1..n : f[i] = produced + i
  BY <1>1, <1>5, NewIsSeq, Zenon DEF New
<1>7. /\ FirstEvents(produced) \o f = FirstEvents(N)
      /\ \A p \in 1..(produced + 1) : EndAt(produced, p) \o f = EndAt(N, p)
  <2>1. PICK k : k = produced
    BY Zenon
  <2>2. k \in Nat /\ \A i \in 1..n : f[i] = k + i
    BY <1>1, <1>6, <2>1, Zenon
  <2>3. /\ FirstEvents(k) \o f = FirstEvents(k + n)
        /\ \A p \in 1..(k + 1) : EndAt(k, p) \o f = EndAt(k + n, p)
    BY <1>6, <2>2, RaisedInOrder, Zenon
  <2> QED
    BY <1>3, <2>1, <2>3, Zenon
<1>8. CASE Everything = FirstEvents(produced)
  <2>1. Everything' = FirstEvents(N)
    BY <1>5, <1>7, <1>8, Zenon
  <2>2. ~Ended'
    BY <1>3, <1>4, <2>1, EndedForm, Zenon DEF Everything, Ended
  <2> QED
    BY <1>2, <2>1, <2>2, Zenon DEF EventsInv, EndOK, EventsInOrder, Onwards
<1>9. ASSUME NEW p \in 1..(produced + 1), Everything = EndAt(produced, p)
      PROVE  EventsInv'
  <2>1. Ended
    BY <1>1, <1>9, EndedForm, Zenon DEF Everything, Ended
  <2>2. closed /\ (quic # "closing" => Everything = EndAt(produced, produced + 1) /\ ~Running)
    BY <2>1, Zenon DEF EventsInv, EndOK
  <2>3. ~Running
    BY <2>2, Zenon DEF Running
  <2>4. n = 0 /\ produced' = produced
    BY <1>1, <2>3
  <2>5. Everything' = EndAt(N, p) /\ p \in 1..(N + 1) /\ N = produced
    BY <1>1, <1>2, <1>5, <1>7, <1>9, <2>4, Zenon
  <2>6. quic' # "closing" => Everything' = EndAt(N, N + 1) /\ ~Running'
    <3>1. SUFFICES ASSUME quic' # "closing" PROVE Everything' = EndAt(N, N + 1) /\ ~Running'
      BY Zenon
    <3>2. quic # "closing" /\ ~Running'
      BY <2>3, <3>1, Zenon DEF Onwards
    <3>3. Everything = EndAt(produced, produced + 1)
      BY <2>2, <3>2, Zenon
    <3> QED
      BY <1>9, <2>5, <3>2, <3>3, Zenon
  <2> QED
    BY <1>2, <2>2, <2>5, <2>6, Zenon DEF EventsInv, EndOK, EventsInOrder, Onwards
<1> QED
  BY <1>8, <1>9, Zenon DEF EventsInv, EndOK, EventsInOrder

\* A step that raises n events and reports the end after them (Timer).
LEMMA EndsPreserves ==
    ASSUME EventsInv, EventTypes', Onwards,
           NEW n \in Nat, produced' = produced + n,
           ~closed, closed', ~Running',
           Everything' = Append(Everything \o New(n), Closed)
    PROVE  EventsInv'
<1>1. produced \in Nat /\ callbacks \in Seq(1..produced)
      /\ events \in Seq(Nat) /\ delivered \in Seq(Nat)
  BY TypesOfEvents, Zenon DEF EventsInv
<1>2. PICK N : N = produced'
  BY Zenon
<1>3. N = produced + n /\ N \in Nat
  BY <1>1, <1>2
<1>4. Everything = FirstEvents(produced)
  <2>1. ~Ended
    BY Zenon DEF EventsInv, EndOK
  <2>2. \A p \in 1..(produced + 1) : Everything # EndAt(produced, p)
    BY <1>1, <2>1, EndedForm, Zenon DEF Everything, Ended
  <2> QED
    BY <2>2, Zenon DEF EventsInv, EndOK, EventsInOrder
<1>5. PICK f : f = New(n)
  BY Zenon
<1>6. f \in Seq(Nat) /\ Len(f) = n /\ \A i \in 1..n : f[i] = produced + i
  BY <1>1, <1>5, NewIsSeq, Zenon DEF New
<1>7. FirstEvents(produced) \o f = FirstEvents(N)
  <2>1. PICK k : k = produced
    BY Zenon
  <2>2. k \in Nat /\ \A i \in 1..n : f[i] = k + i
    BY <1>1, <1>6, <2>1, Zenon
  <2>3. FirstEvents(k) \o f = FirstEvents(k + n)
    BY <1>6, <2>2, RaisedInOrder, Zenon
  <2> QED
    BY <1>3, <2>1, <2>3, Zenon
<1>8. Everything' = Append(FirstEvents(N), Closed)
  BY <1>4, <1>5, <1>7, Zenon
<1>9. Everything' = EndAt(N, N + 1) /\ N + 1 \in 1..(N + 1)
  <2>1. Append(FirstEvents(N), Closed) = EndAt(N, N + 1)
    BY <1>3, EndPutLast, Zenon
  <2> QED
    BY <1>3, <1>8, <2>1
<1> QED
  BY <1>2, <1>9, Zenon DEF EventsInv, EndOK, EventsInOrder, Onwards

\* recv_event puts the end into an empty queue.  What send_datagram raised in the
\* meantime is behind it, and nothing is when the peer ended the connection.
LEMMA PushPreserves ==
    ASSUME EventsInv, EventTypes', Onwards,
           ~closed, closed', Over, events = <<>>,
           UNCHANGED <<quic, callbacks, produced>>,
           Everything' = Append(delivered, Closed) \o callbacks
    PROVE  EventsInv'
<1>1. produced \in Nat /\ callbacks \in Seq(1..produced) /\ callbacks \in Seq(Nat)
      /\ events \in Seq(Nat) /\ delivered \in Seq(Nat)
  BY TypesOfEvents, Zenon DEF EventsInv
<1>2. Everything = FirstEvents(produced)
  <2>1. ~Ended
    BY Zenon DEF EventsInv, EndOK
  <2>2. \A p \in 1..(produced + 1) : Everything # EndAt(produced, p)
    BY <1>1, <2>1, EndedForm, Zenon DEF Everything, Ended
  <2> QED
    BY <2>2, Zenon DEF EventsInv, EndOK, EventsInOrder
<1>3. delivered \o callbacks = FirstEvents(produced)
  <2>1. delivered \o <<>> = delivered
    BY <1>1, ConcatEmptySeq, Zenon
  <2> QED
    BY <1>2, <2>1, Zenon DEF Everything
<1>4. Len(delivered) + 1 \in 1..(produced + 1) /\ Len(delivered) + Len(callbacks) = produced
      /\ Append(delivered, Closed) \o callbacks = EndAt(produced, Len(delivered) + 1)
  BY <1>1, <1>3, EndPutBehind, Zenon
<1>5. quic # "closing" => Len(delivered) = produced /\ ~Running
  <2>1. SUFFICES ASSUME quic # "closing" PROVE Len(delivered) = produced /\ ~Running
    BY Zenon
  <2>2. quic = "draining" /\ callbacks = <<>>
    BY <2>1, Zenon DEF Over, EventsInv, EndOK
  <2>3. Len(callbacks) = 0 /\ Len(delivered) \in Nat
    BY <1>1, <2>2
  <2> QED
    BY <1>4, <2>2, <2>3 DEF Running
<1>6. quic' # "closing" => Everything' = EndAt(produced, produced + 1) /\ ~Running'
  BY <1>4, <1>5, Zenon DEF Running
<1> QED
  BY <1>4, <1>6, Zenon DEF EventsInv, EndOK, EventsInOrder, Onwards
-----------------------------------------------------------------------------
(* The calls of ngtcp2, and the drives around them                         *)

\* Every call raises as many events as are left at most, and none when the
\* connection does not run; a connection that ended does not start again.
LEMMA WritesOK ==
    ASSUME EventTypes, NEW w \in Writes
    PROVE  /\ w.raised \in Nat /\ produced + w.raised \in 0..MaxEvents
           /\ w.raised # 0 => Running
           /\ w.quic \in QuicStates /\ w.ok \in BOOLEAN
           /\ w.quic = "closing" <=> quic = "closing"
           /\ w.quic = "draining" <=> quic = "draining"
           /\ ~Running => w.quic = quic
<1>1. produced \in Nat /\ MaxEvents \in Nat /\ produced <= MaxEvents /\ quic \in QuicStates
  BY TypesOfEvents, Zenon DEF EventTypes
<1>2. \A n \in Raise(1) : n \in Nat /\ produced + n \in 0..MaxEvents
  BY <1>1 DEF Raise
<1>3. produced + 0 \in 0..MaxEvents /\ 0 \in Nat
  BY <1>1
<1> HIDE DEF Raise
<1>4. CASE Running
  BY <1>1, <1>2, <1>3, <1>4, Zenon DEF Writes, Running, QuicStates
<1>5. CASE ~Running
  BY <1>1, <1>3, <1>5, Zenon DEF Writes, Running, QuicStates
<1> QED
  BY <1>4, <1>5, Zenon

\* What read_pkt may do to ngtcp2: its events stay within the bound, and it does not
\* start to close the connection.
LEMMA ReadsOK ==
    ASSUME EventTypes, NEW r \in Reads
    PROVE  /\ r.raised \in Nat /\ produced + r.raised \in 0..MaxEvents
           /\ r.raised # 0 => Running
           /\ r.quic \in QuicStates
           /\ r.quic = "closing" => quic = "closing"
           /\ ~Running => r.quic \in {quic, "draining"}
<1>1. produced \in Nat /\ MaxEvents \in Nat /\ produced <= MaxEvents /\ quic \in QuicStates
  BY TypesOfEvents, Zenon DEF EventTypes
<1>2. \A n \in Raise(2) : n \in Nat /\ produced + n \in 0..MaxEvents
  BY <1>1 DEF Raise
<1>3. produced + 0 \in 0..MaxEvents /\ 0 \in Nat
  BY <1>1
<1>4. CASE Running
  BY <1>1, <1>2, <1>3, <1>4, Zenon DEF Reads, Running, QuicStates
<1>5. CASE ~Running
  BY <1>1, <1>3, <1>5, Zenon DEF Reads, Running, QuicStates
<1> QED
  BY <1>4, <1>5, Zenon

\* What handle_expiry may do to ngtcp2: an error leaves the connection idle or broken.
LEMMA ExpiriesOK ==
    ASSUME EventTypes, NEW x \in Expiries
    PROVE  /\ x.raised \in Nat /\ produced + x.raised \in 0..MaxEvents
           /\ x.raised # 0 => Running
           /\ x.quic \in QuicStates /\ x.ok \in BOOLEAN
           /\ x.quic \in {quic, "idle", "broken"}
           /\ ~x.ok => x.quic \in {"idle", "broken"}
<1>1. produced \in Nat /\ MaxEvents \in Nat /\ produced <= MaxEvents /\ quic \in QuicStates
  BY TypesOfEvents, Zenon DEF EventTypes
<1>2. \A n \in Raise(1) : n \in Nat /\ produced + n \in 0..MaxEvents
  BY <1>1 DEF Raise
<1>3. produced + 0 \in 0..MaxEvents /\ 0 \in Nat
  BY <1>1
<1>4. CASE Running
  BY <1>1, <1>2, <1>3, <1>4, Zenon DEF Expiries, Running, QuicStates
<1>5. CASE ~Running
  BY <1>1, <1>3, <1>5, Zenon DEF Expiries, Running, QuicStates
<1> QED
  BY <1>4, <1>5, Zenon

\* The sans-IO queue after a call.
LEMMA RaisedOK ==
    ASSUME EventTypes, NEW n \in Nat
    PROVE  /\ Raised(n) = callbacks \o New(n) /\ New(n) \in Seq(Nat)
           /\ Raised(n) \in Seq(1..(produced + n)) /\ Raised(n) \in Seq(Nat)
           /\ n = 0 => New(n) = <<>> /\ Raised(n) = callbacks
<1>1. produced \in Nat /\ callbacks \in Seq(1..produced) /\ callbacks \in Seq(Nat)
  BY TypesOfEvents, Zenon
<1>2. New(n) \in Seq(Nat) /\ New(n) \in Seq(1..(produced + n)) /\ Len(New(n)) = n
  BY <1>1, NewIsSeq, Zenon DEF New
<1>3. callbacks \in Seq(1..(produced + n))
  <2>1. Len(callbacks) \in Nat /\ callbacks \in [1..Len(callbacks) -> 1..produced]
    BY <1>1
  <2>2. callbacks \in [1..Len(callbacks) -> 1..(produced + n)]
    BY <1>1, <2>1
  <2> QED
    BY <2>1, <2>2, FunctionsAreSequences, Zenon
<1>4. Raised(n) = callbacks \o New(n)
  BY Zenon DEF Raised, New
<1>5. Raised(n) \in Seq(1..(produced + n)) /\ Raised(n) \in Seq(Nat)
  BY <1>1, <1>2, <1>3, <1>4, ConcatProperties, Zenon
<1>6. n = 0 => New(n) = <<>> /\ Raised(n) = callbacks
  <2>1. SUFFICES ASSUME n = 0 PROVE New(n) = <<>> /\ Raised(n) = callbacks
    BY Zenon
  <2>2. New(n) = <<>>
    BY <1>2, <2>1
  <2>3. callbacks \o <<>> = callbacks
    BY <1>1, ConcatEmptySeq, Zenon
  <2> QED
    BY <1>4, <2>2, <2>3, Zenon
<1> QED
  BY <1>2, <1>4, <1>5, <1>6, Zenon

\* Draining moves what the callbacks raised behind what is queued.
LEMMA DrainGrows ==
    ASSUME EventTypes, NEW n \in Nat
    PROVE  /\ drain_events(events, Raised(n)) \in Seq(Nat)
           /\ (delivered \o drain_events(events, Raised(n))) \o <<>> = Everything \o New(n)
           /\ delivered \o drain_events(events, Raised(n)) = Everything \o New(n)
           /\ (delivered \o events) \o Raised(n) = Everything \o New(n)
           /\ drain_events(events, callbacks) \in Seq(Nat)
           /\ delivered \o drain_events(events, callbacks) = Everything
<1>1. callbacks \in Seq(Nat) /\ events \in Seq(Nat) /\ delivered \in Seq(Nat)
  BY TypesOfEvents, Zenon
<1>2. PICK f : f = New(n)
  BY Zenon
<1>3. f \in Seq(Nat) /\ Raised(n) = callbacks \o f /\ Raised(n) \in Seq(Nat)
  BY <1>2, RaisedOK, Zenon
<1>4. events \o Raised(n) \in Seq(Nat) /\ events \o callbacks \in Seq(Nat)
  BY <1>1, <1>3, ConcatProperties, Zenon
<1>5. /\ Cat(Cat(delivered, events), Cat(callbacks, f)) = Cat(Cat(Cat(delivered, events), callbacks), f)
      /\ Cat(Cat(delivered, Cat(events, Cat(callbacks, f))), <<>>)
           = Cat(Cat(Cat(delivered, events), callbacks), f)
      /\ Cat(delivered, Cat(events, Cat(callbacks, f))) = Cat(Cat(Cat(delivered, events), callbacks), f)
      /\ Cat(delivered, Cat(events, callbacks)) = Cat(Cat(delivered, events), callbacks)
  BY <1>1, <1>3, QueuesJoin
<1> QED
  BY <1>2, <1>3, <1>4, <1>5, Zenon DEF drain_events, Everything, Cat

\* A step that moves events between the queues at most.
LEMMA SamePreserves ==
    ASSUME EventsInv, EventTypes', Onwards, produced' = produced, Everything' = Everything
    PROVE  EventsInv'
<1>1. 0 \in Nat /\ EventTypes /\ produced \in Nat /\ callbacks \in Seq(Nat)
      /\ events \in Seq(Nat) /\ delivered \in Seq(Nat)
  BY TypesOfEvents, Zenon DEF EventsInv
<1>2. Everything \in Seq(Nat)
  <2>1. delivered \o events \in Seq(Nat)
    BY <1>1, ConcatProperties, Zenon
  <2> QED
    BY <1>1, <2>1, ConcatProperties, Zenon DEF Everything
<1>3. New(0) = <<>>
  BY <1>1, RaisedOK, Zenon
<1>4. Everything \o New(0) = Everything
  BY <1>2, <1>3, ConcatEmptySeq, Zenon
<1>5. produced' = produced + 0
  BY <1>1
<1> QED
  BY <1>1, <1>4, <1>5, GrowsPreserves, Zenon

\* write_packets within flush, wherever it is called.
LEMMA FlushedPreserves ==
    ASSUME EventsInv, NEW w \in Writes, Flushed(w),
           UNCHANGED <<closed, delivered, local, role>>,
           pc' \in {"connecting", "dead", "app", "send"} \cup {pc},
           ret' \in {ret, "error"},
           quic = "closing" => pc' \in {"app", "close"}
    PROVE  EventsInv'
<1>1. EventTypes
  BY Zenon DEF EventsInv
<1>2. PICK n : n = w.raised
  BY Zenon
<1>3. n \in Nat /\ produced + n \in 0..MaxEvents /\ (n # 0 => Running)
      /\ quic' \in QuicStates
      /\ (quic' = "closing" <=> quic = "closing") /\ (quic' = "draining" <=> quic = "draining")
      /\ (~Running => quic' = quic) /\ produced' = produced + n
  BY <1>1, <1>2, WritesOK, Zenon DEF Flushed
<1>4. Raised(n) \in Seq(1..produced') /\ Raised(n) \in Seq(Nat) /\ (n = 0 => Raised(n) = callbacks)
  BY <1>1, <1>3, RaisedOK, Zenon
<1>5. \/ events' = drain_events(events, Raised(n)) /\ callbacks' = <<>>
      \/ events' = events /\ callbacks' = Raised(n)
  BY <1>2, Zenon DEF Flushed
<1>6. Everything' = Everything \o New(n)
  BY <1>1, <1>3, <1>5, DrainGrows, Zenon DEF Everything
<1>7. callbacks' \in Seq(1..produced') /\ events' \in Seq(Nat)
  <2>1. <<>> \in Seq(1..produced')
    OBVIOUS
  <2> QED
    BY <1>1, <1>3, <1>4, <1>5, <2>1, DrainGrows, TypesOfEvents, Zenon
<1>8. EventTypes'
  BY <1>1, <1>3, <1>7, Zenon DEF EventTypes
<1>9. quic' = "draining" => callbacks' = <<>>
  <2>1. SUFFICES ASSUME quic = "draining" PROVE callbacks' = <<>>
    BY <1>3, Zenon
  <2>2. n = 0 /\ callbacks = <<>>
    BY <1>3, <2>1, Zenon DEF EventsInv, EndOK, Running
  <2> QED
    BY <1>4, <1>5, <2>2, Zenon
<1>10. Onwards
  BY <1>3, <1>9, Zenon DEF Onwards, Running
<1> QED
  BY <1>3, <1>6, <1>8, <1>10, GrowsPreserves, Zenon

\* The flush of connect keeps the invariant.
LEMMA ConnectFlushPreserves ==
    ASSUME EventsInv, ConnectFlush
    PROVE  EventsInv'
<1>1. PICK w \in Writes :
        /\ Flushed(w)
        /\ pc' = IF ~w.ok THEN "dead" ELSE IF w.quic = "open" THEN "app" ELSE "connecting"
  BY Zenon DEF ConnectFlush
<1>2. quic # "closing"
  BY Zenon DEF EventsInv, EndOK, ConnectFlush
<1> QED
  BY <1>1, <1>2, FlushedPreserves, Zenon DEF ConnectFlush

\* The flush at the top of the loop of recv_event keeps the invariant.
LEMMA LoopFlushPreserves ==
    ASSUME EventsInv, LoopFlush
    PROVE  EventsInv'
<1>1. PICK w \in Writes :
        /\ Flushed(w)
        /\ IF w.ok THEN pc' = "send" /\ ret' = ret ELSE Failed("error")
  BY Zenon DEF LoopFlush
<1>2. quic # "closing" /\ pc' \in {"app", "send"} /\ ret' \in {ret, "error"}
  BY <1>1, Zenon DEF EventsInv, EndOK, LoopFlush, Over, Failed
<1> QED
  BY <1>1, <1>2, FlushedPreserves, Zenon DEF LoopFlush

\* A flush the application calls keeps the invariant.
LEMMA FlushCallPreserves ==
    ASSUME EventsInv, NEW w \in Writes, FlushCall(w)
    PROVE  EventsInv'
BY FlushedPreserves, Zenon DEF FlushCall

\* send_datagram keeps the invariant: it leaves what it raised to the next drain.
LEMMA SendDatagramPreserves ==
    ASSUME EventsInv, SendDatagram
    PROVE  EventsInv'
<1>1. EventTypes
  BY Zenon DEF EventsInv
<1>2. PICK w \in Writes :
        quic' = w.quic /\ produced' = produced + w.raised /\ callbacks' = Raised(w.raised)
  BY Zenon DEF SendDatagram
<1>3. PICK n : n = w.raised
  BY Zenon
<1>4. n \in Nat /\ produced + n \in 0..MaxEvents /\ (n # 0 => Running)
      /\ quic' \in QuicStates
      /\ (quic' = "closing" <=> quic = "closing") /\ (quic' = "draining" <=> quic = "draining")
      /\ (~Running => quic' = quic) /\ produced' = produced + n /\ callbacks' = Raised(n)
  BY <1>1, <1>2, <1>3, WritesOK, Zenon
<1>5. Raised(n) \in Seq(1..produced') /\ (n = 0 => Raised(n) = callbacks)
  BY <1>1, <1>4, RaisedOK, Zenon
<1>6. UNCHANGED <<tokio, delivered, local, role>>
  BY Zenon DEF SendDatagram
<1>7. Everything' = Everything \o New(n)
  BY <1>1, <1>4, <1>6, DrainGrows, Zenon DEF Everything, tokio
<1>8. EventTypes'
  BY <1>1, <1>4, <1>5, <1>6, Zenon DEF EventTypes, tokio
<1>9. quic' = "draining" => callbacks' = <<>>
  <2>1. SUFFICES ASSUME quic = "draining" PROVE callbacks' = <<>>
    BY <1>4, Zenon
  <2>2. n = 0 /\ callbacks = <<>>
    BY <1>4, <2>1, Zenon DEF EventsInv, EndOK, Running
  <2> QED
    BY <1>4, <1>5, <2>2, Zenon
<1>10. Onwards
  BY <1>4, <1>6, <1>9, Zenon DEF Onwards, Running, tokio, EventsInv, EndOK
<1> QED
  BY <1>4, <1>7, <1>8, <1>10, GrowsPreserves, Zenon

\* What recv_event returns is no longer in the queue.
LEMMA ReturnedTakes ==
    ASSUME NEW es \in Seq(Nat), es # <<>>, delivered \in Seq(Nat), Returned(es)
    PROVE  /\ delivered' \in Seq(Nat) /\ events' \in Seq(Nat)
           /\ delivered' \o events' = delivered \o es
           /\ pc' = "app" /\ ret' = "event"
<1>1. delivered' = Append(delivered, Head(es)) /\ events' = Tail(es) /\ pc' = "app" /\ ret' = "event"
  BY Zenon DEF Returned
<1> QED
  BY <1>1, HeadTaken, Zenon

\* The end behind what is queued is the end behind everything.
LEMMA AppendLast ==
    ASSUME NEW d \in Seq(Nat), NEW es \in Seq(Nat)
    PROVE  /\ Append(es, Closed) \in Seq(Nat) /\ Append(es, Closed) # <<>>
           /\ d \o Append(es, Closed) = Append(d \o es, Closed)
<1>1. PICK b : b = Append(es, Closed)
  BY Zenon
<1>2. b \in Seq(Nat) /\ b # <<>> /\ Len(b) = Len(es) + 1 /\ Len(es) \in Nat
      /\ b[Len(es) + 1] = Closed /\ \A i \in 1..Len(es) : b[i] = es[i]
  <2>1. Closed \in Nat
    BY Zenon DEF Closed
  <2>2. b \in Seq(Nat) /\ b # <<>> /\ Len(b) = Len(es) + 1
    BY <1>1, <2>1, AppendProperties
  <2>3. b[Len(es) + 1] = Closed /\ \A i \in 1..Len(es) : b[i] = es[i]
    BY <1>1, <2>1, AppendProperties
  <2> QED
    BY <2>2, <2>3, LenProperties, Zenon
<1>3. PICK a : a = d \o es
  BY Zenon
<1>4. a \in Seq(Nat) /\ Len(a) = Len(d) + Len(es) /\ Len(d) \in Nat
      /\ (\A i \in 1..Len(d) : a[i] = d[i]) /\ (\A i \in 1..Len(es) : a[Len(d) + i] = es[i])
  BY <1>3, ConcatElements, Zenon
<1>5. PICK r : r = Append(a, Closed)
  BY Zenon
<1>6. r \in Seq(Nat) /\ Len(r) = Len(a) + 1 /\ r[Len(a) + 1] = Closed
      /\ \A i \in 1..Len(a) : r[i] = a[i]
  <2>1. a \in Seq(Nat) /\ 0 \in Nat
    BY <1>4, Zenon
  <2> QED
    BY <1>5, <2>1, AppendProperties DEF Closed
<1>7. ASSUME NEW i \in 1..Len(d)
      PROVE  r[i] = d[i]
  <2>1. i \in 1..Len(a)
    BY <1>2, <1>4
  <2> QED
    BY <1>4, <1>6, <2>1, Zenon
<1>8. ASSUME NEW i \in 1..Len(b)
      PROVE  r[Len(d) + i] = b[i]
  <2>1. CASE i \in 1..Len(es)
    <3>1. Len(d) + i \in 1..Len(a)
      BY <1>4, <2>1
    <3> QED
      BY <1>2, <1>4, <1>6, <2>1, <3>1, Zenon
  <2>2. CASE i = Len(es) + 1
    <3>1. Len(d) + i = Len(a) + 1
      BY <1>2, <1>4, <2>2
    <3> QED
      BY <1>2, <1>6, <2>2, <3>1, Zenon
  <2> QED
    BY <1>2, <2>1, <2>2
<1>9. Len(r) = Len(d) + Len(b)
  BY <1>2, <1>4, <1>6
<1>10. d \o b = r
  BY <1>2, <1>6, <1>7, <1>8, <1>9, ConcatIs, Zenon
<1> QED
  BY <1>1, <1>2, <1>3, <1>5, <1>10, Zenon

\* recv_event returns what is queued, with the sans-IO queue as it is.
LEMMA ReturnsQueued ==
    ASSUME EventsInv, events # <<>>, Returned(events),
           UNCHANGED <<conn, closed, local, role>>
    PROVE  EventsInv'
<1>1. EventTypes
  BY Zenon DEF EventsInv
<1>2. delivered' \in Seq(Nat) /\ events' \in Seq(Nat) /\ delivered' \o events' = delivered \o events
      /\ pc' = "app" /\ ret' = "event"
  BY <1>1, TypesOfEvents, ReturnedTakes, Zenon
<1>3. Everything' = Everything
  BY <1>2, Zenon DEF Everything, conn
<1>4. EventTypes'
  BY <1>1, <1>2, Zenon DEF EventTypes, conn
<1>5. Onwards
  BY <1>2, Zenon DEF Onwards, conn, Running, EventsInv, EndOK
<1> QED
  BY <1>3, <1>4, <1>5, SamePreserves, Zenon DEF conn

\* recv_event reports the end when the queue is empty.
LEMMA ReturnsEnd ==
    ASSUME EventsInv, events = <<>>, is_closed, Returned(push_connection_closed(events)),
           closed', UNCHANGED <<conn, local, role>>
    PROVE  EventsInv'
<1>1. EventTypes /\ delivered \in Seq(Nat) /\ events \in Seq(Nat)
  BY TypesOfEvents, Zenon DEF EventsInv
<1>2. CASE closed
  <2>1. events' = <<>> /\ delivered' = delivered /\ pc' = "app" /\ ret' = "ConnectionClosed"
    BY <1>2, Zenon DEF Returned, push_connection_closed
  <2>2. Everything' = Everything
    BY <2>1, Zenon DEF Everything, conn
  <2>3. EventTypes'
    BY <1>1, <2>1, Zenon DEF EventTypes, conn
  <2>4. Onwards
    BY <2>1, Zenon DEF Onwards, conn, Running, EventsInv, EndOK
  <2> QED
    BY <2>2, <2>3, <2>4, SamePreserves, Zenon DEF conn
<1>3. CASE ~closed
  <2>1. PICK es : es = Append(events, Closed)
    BY Zenon
  <2>2. es \in Seq(Nat) /\ es # <<>> /\ Len(es) = 1 /\ es[1] = Closed
    BY <1>1, <2>1, AppendProperties DEF Closed
  <2>3. Returned(es)
    BY <1>3, <2>1, Zenon DEF push_connection_closed
  <2>4. delivered' \in Seq(Nat) /\ events' \in Seq(Nat) /\ pc' = "app" /\ ret' = "event"
    BY <1>1, <2>2, <2>3, ReturnedTakes, Zenon
  <2>5. delivered' = Append(delivered, Closed) /\ events' = <<>>
    <3>1. Head(es) = Closed /\ Tail(es) = <<>>
      <4>1. Tail(es) \in Seq(Nat) /\ Len(Tail(es)) = Len(es) - 1
        BY <2>2, HeadTailProperties, Zenon
      <4>2. Len(Tail(es)) = 0
        BY <2>2, <4>1
      <4>3. \A t \in Seq(Nat) : Len(t) = 0 => t = <<>>
        BY EmptySeq, Zenon
      <4>4. Tail(es) = <<>>
        BY <4>1, <4>2, <4>3, Zenon
      <4>5. Head(es) = es[1]
        BY <2>2
      <4> QED
        BY <2>2, <4>4, <4>5, Zenon
    <3> QED
      BY <2>2, <2>3, <3>1, Zenon DEF Returned
  <2>6. Everything' = Append(delivered, Closed) \o callbacks
    <3>1. delivered' \o <<>> = delivered'
      BY <2>4, ConcatEmptySeq, Zenon
    <3> QED
      BY <2>5, <3>1, Zenon DEF Everything, conn
  <2>7. EventTypes'
    BY <1>1, <2>4, Zenon DEF EventTypes, conn
  <2>8. Onwards
    BY <2>4, Zenon DEF Onwards, conn, Running, EventsInv, EndOK
  <2>9. Over
    BY <1>3, Zenon DEF is_closed
  <2> QED
    BY <1>3, <2>6, <2>7, <2>8, <2>9, PushPreserves, Zenon DEF conn
<1> QED
  BY <1>2, <1>3, Zenon

\* The entry of recv_event keeps the invariant, with a queue, a closed connection or
\* neither.
LEMMA RecvEventPreserves ==
    ASSUME EventsInv, RecvEvent
    PROVE  EventsInv'
<1>1. pc = "app" /\ UNCHANGED <<conn, local, role>>
  BY Zenon DEF RecvEvent
<1>2. CASE events # <<>> /\ Returned(events) /\ UNCHANGED closed
  BY <1>1, <1>2, ReturnsQueued, Zenon
<1>3. CASE events = <<>> /\ is_closed /\ Returned(push_connection_closed(events)) /\ closed' = TRUE
  BY <1>1, <1>3, ReturnsEnd, Zenon
<1>4. CASE events = <<>> /\ ~is_closed /\ pc' = "loop" /\ ret' = "none"
           /\ UNCHANGED <<closed, events, delivered>>
  <2>1. Everything' = Everything
    BY <1>1, <1>4, Zenon DEF Everything, conn
  <2>2. EventTypes'
    BY <1>1, <1>4, Zenon DEF EventTypes, conn, EventsInv
  <2>3. Onwards
    BY <1>1, <1>4, Zenon DEF Onwards, conn, Running, EventsInv, EndOK, is_closed, Over
  <2> QED
    BY <1>1, <2>1, <2>2, <2>3, SamePreserves, Zenon DEF conn
<1> QED
  BY <1>2, <1>3, <1>4, Zenon DEF RecvEvent

\* The check after the flush keeps the invariant.
LEMMA LoopReturnPreserves ==
    ASSUME EventsInv, LoopReturn
    PROVE  EventsInv'
<1>1. UNCHANGED <<conn, local, role>>
  BY Zenon DEF LoopReturn
<1>2. CASE events # <<>> /\ Returned(events) /\ UNCHANGED closed
  BY <1>1, <1>2, ReturnsQueued, Zenon
<1>3. CASE events = <<>> /\ Over /\ Returned(push_connection_closed(events)) /\ closed' = TRUE
  BY <1>1, <1>3, ReturnsEnd, Zenon DEF is_closed
<1> QED
  BY <1>2, <1>3, Zenon DEF LoopReturn

\* The end of a send keeps the invariant: the callbacks are drained behind the queue.
LEMMA SentPreserves ==
    ASSUME EventsInv, Sent
    PROVE  EventsInv'
<1>1. EventTypes /\ delivered \in Seq(Nat)
  BY TypesOfEvents, Zenon DEF EventsInv
<1>2. PICK es : es = drain_events(events, callbacks)
  BY Zenon
<1>3. es \in Seq(Nat) /\ delivered \o es = Everything
  BY <1>1, <1>2, DrainGrows, 0 \in Nat, Zenon
<1>4. callbacks' = <<>> /\ UNCHANGED <<quic, produced, closed, local, role>> /\ pc = "send"
      /\ IF es # <<>> THEN Returned(es)
         ELSE pc' = "select" /\ UNCHANGED <<events, ret, delivered>>
  BY <1>2, Zenon DEF Sent
<1>5. delivered' \in Seq(Nat) /\ events' \in Seq(Nat) /\ delivered' \o events' = Everything
      /\ pc' \in {"app", "select"} /\ ret' \in {"event", ret}
  <2>1. CASE es # <<>>
    BY <1>1, <1>3, <1>4, <2>1, ReturnedTakes, Zenon
  <2>2. CASE es = <<>>
    <3>1. events = <<>>
      <4>1. events \o callbacks = <<>> /\ events \in Seq(Nat) /\ callbacks \in Seq(Nat)
        BY <1>1, <1>2, <2>2, TypesOfEvents, Zenon DEF drain_events
      <4>2. Len(events) + Len(callbacks) = 0 /\ Len(events) \in Nat /\ Len(callbacks) \in Nat
        BY <4>1, ConcatElements, Zenon
      <4>3. Len(events) = 0
        BY <4>2
      <4> QED
        BY <4>1, <4>3
    <3> QED
      BY <1>1, <1>3, <1>4, <2>2, <3>1, Zenon
  <2> QED
    BY <2>1, <2>2, Zenon
<1>6. Everything' = Everything
  <2>1. (delivered' \o events') \o <<>> = delivered' \o events'
    BY <1>5, ConcatProperties, ConcatEmptySeq
  <2> QED
    BY <1>4, <1>5, <2>1, Zenon DEF Everything
<1>7. EventTypes'
  <2>1. <<>> \in Seq(1..produced')
    OBVIOUS
  <2> QED
    BY <1>1, <1>4, <1>5, <2>1, Zenon DEF EventTypes
<1>8. Onwards
  BY <1>4, <1>5, Zenon DEF Onwards, Running, EventsInv, EndOK
<1> QED
  BY <1>4, <1>6, <1>7, <1>8, SamePreserves, Zenon

\* A packet read keeps the invariant, accepted or refused.
LEMMA ReadPacketPreserves ==
    ASSUME EventsInv, ReadPacket
    PROVE  EventsInv'
<1>1. EventTypes
  BY Zenon DEF EventsInv
<1>2. PICK r \in Reads :
        /\ quic' = r.quic
        /\ produced' = produced + r.raised
        /\ events' = drain_events(events, Raised(r.raised))
  BY Zenon DEF ReadPacket
<1>3. PICK n : n = r.raised
  BY Zenon
<1>4. n \in Nat /\ produced + n \in 0..MaxEvents /\ (n # 0 => Running)
      /\ quic' \in QuicStates /\ (quic' = "closing" => quic = "closing")
      /\ (~Running => quic' \in {quic, "draining"})
      /\ produced' = produced + n /\ events' = drain_events(events, Raised(n))
  BY <1>1, <1>2, <1>3, ReadsOK, Zenon
<1>5. callbacks' = <<>> /\ pc' \in {"loop", "connect"} /\ UNCHANGED <<closed, ret, delivered, local, role>>
      /\ quic # "closing"
  BY Zenon DEF ReadPacket, Again, EventsInv, EndOK
<1>6. Everything' = Everything \o New(n) /\ events' \in Seq(Nat)
  BY <1>1, <1>4, <1>5, DrainGrows, Zenon DEF Everything
<1>7. EventTypes'
  <2>1. <<>> \in Seq(1..produced')
    OBVIOUS
  <2> QED
    BY <1>1, <1>4, <1>5, <1>6, <2>1, Zenon DEF EventTypes
<1>8. Onwards
  BY <1>4, <1>5, Zenon DEF Onwards, Running
<1> QED
  BY <1>4, <1>6, <1>7, <1>8, GrowsPreserves, Zenon

\* The timer keeps the invariant: an expiry that fails still delivers what it raised.
LEMMA TimerPreserves ==
    ASSUME EventsInv, Timer
    PROVE  EventsInv'
<1>1. EventTypes /\ delivered \in Seq(Nat)
  BY TypesOfEvents, Zenon DEF EventsInv
<1>2. PICK x \in Expiries :
        LET es == drain_events(events, Raised(x.raised))
        IN  /\ quic' = x.quic
            /\ produced' = produced + x.raised
            /\ IF ExpiryErrorEnds(x)
               THEN Returned(push_connection_closed(es)) /\ closed' = TRUE
               ELSE events' = es /\ pc' = Again /\ UNCHANGED <<closed, ret, delivered>>
  BY Zenon DEF Timer
<1>3. PICK n : n = x.raised
  BY Zenon
<1>4. n \in Nat /\ produced + n \in 0..MaxEvents /\ (n # 0 => Running)
      /\ quic' \in QuicStates /\ quic' \in {quic, "idle", "broken"}
      /\ (ExpiryErrorEnds(x) => quic' \in {"idle", "broken"})
      /\ produced' = produced + n
  BY <1>1, <1>2, <1>3, ExpiriesOK, Zenon DEF ExpiryErrorEnds
<1>5. PICK es : es = drain_events(events, Raised(n))
  BY Zenon
<1>6. es \in Seq(Nat) /\ delivered \o es = Everything \o New(n)
  BY <1>1, <1>4, <1>5, DrainGrows, Zenon
<1>7. IF ExpiryErrorEnds(x)
      THEN Returned(push_connection_closed(es)) /\ closed' = TRUE
      ELSE events' = es /\ pc' = Again /\ UNCHANGED <<closed, ret, delivered>>
  BY <1>2, <1>3, <1>5, Zenon
<1>8. callbacks' = <<>> /\ UNCHANGED <<local, role>> /\ quic # "closing" /\ pc \in {"select", "connecting"}
  BY Zenon DEF Timer, EventsInv, EndOK
<1>9. <<>> \in Seq(1..produced')
  OBVIOUS
<1>10. ASSUME delivered' \in Seq(Nat), events' \in Seq(Nat), delivered' \o events' = delivered \o es,
              closed' \in BOOLEAN, closed => closed',
              pc' \in {"app", "loop", "connect"}, ret' \in {ret, "event", "ConnectionClosed"}
       PROVE  EventsInv'
  <2>1. (delivered' \o events') \o <<>> = delivered' \o events'
    BY <1>10, ConcatProperties, ConcatEmptySeq, Zenon
  <2>2. Everything' = Everything \o New(n)
    BY <1>6, <1>8, <1>10, <2>1, Zenon DEF Everything
  <2>3. EventTypes'
    BY <1>1, <1>4, <1>8, <1>9, <1>10, Zenon DEF EventTypes
  <2>4. Onwards
    BY <1>4, <1>8, <1>10, Zenon DEF Onwards, Running
  <2> QED
    BY <1>4, <2>2, <2>3, <2>4, GrowsPreserves, Zenon
<1>11. CASE ~ExpiryErrorEnds(x)
  <2>1. events' = es /\ pc' = Again /\ UNCHANGED <<closed, ret, delivered>>
    BY <1>7, <1>11, Zenon
  <2>2. closed \in BOOLEAN /\ pc' \in {"app", "loop", "connect"}
    BY <1>1, <2>1, Zenon DEF EventTypes, Again
  <2> QED
    BY <1>1, <1>6, <1>10, <2>1, <2>2, Zenon
<1>12. CASE ExpiryErrorEnds(x) /\ closed
  <2>1. Returned(es) /\ closed'
    BY <1>7, <1>12, Zenon DEF push_connection_closed
  <2>2. CASE es # <<>>
    BY <1>1, <1>6, <1>10, <2>1, <2>2, ReturnedTakes, Zenon
  <2>3. CASE es = <<>>
    <3>1. events' = es /\ delivered' = delivered /\ pc' = "app" /\ ret' = "ConnectionClosed"
      BY <2>1, <2>3, Zenon DEF Returned
    <3> QED
      BY <1>1, <1>6, <1>10, <2>1, <3>1, Zenon
  <2> QED
    BY <2>2, <2>3, Zenon
<1>13. CASE ExpiryErrorEnds(x) /\ ~closed
  <2>1. PICK el : el = Append(es, Closed)
    BY Zenon
  <2>2. Returned(el) /\ closed'
    BY <1>7, <1>13, <2>1, Zenon DEF push_connection_closed
  <2>3. el \in Seq(Nat) /\ el # <<>> /\ delivered \o el = Append(delivered \o es, Closed)
    BY <1>1, <1>6, <2>1, AppendLast, Zenon
  <2>4. delivered' \in Seq(Nat) /\ events' \in Seq(Nat) /\ delivered' \o events' = delivered \o el
        /\ pc' = "app" /\ ret' = "event"
    BY <1>1, <2>2, <2>3, ReturnedTakes, Zenon
  <2>5. (delivered' \o events') \o <<>> = delivered' \o events'
    BY <2>4, ConcatProperties, ConcatEmptySeq, Zenon
  <2>6. Everything' = Append(Everything \o New(n), Closed)
    BY <1>6, <1>8, <2>3, <2>4, <2>5, Zenon DEF Everything
  <2>7. closed' \in BOOLEAN
    BY <1>7, <1>13, Zenon
  <2>8. EventTypes'
    BY <1>1, <1>4, <1>8, <1>9, <2>4, <2>7, Zenon DEF EventTypes
  <2>9. Onwards /\ ~Running'
    BY <1>4, <1>8, <1>13, <2>2, Zenon DEF Onwards, Running
  <2> QED
    BY <1>4, <1>13, <2>2, <2>6, <2>8, <2>9, EndsPreserves, Zenon
<1> QED
  BY <1>11, <1>12, <1>13, Zenon

\* What touches no event keeps the invariant: failures, cancellation and close.
LEMMA OthersPreserve ==
    ASSUME EventsInv, ConnectFails \/ SocketError \/ Cancelled \/ Close \/ CloseSent \/ CloseCancelled
    PROVE  EventsInv'
<1>1. Everything' = Everything /\ produced' = produced
  BY Zenon DEF ConnectFails, SocketError, Cancelled, Close, CloseSent, CloseCancelled, Everything, conn
<1>2. EventTypes'
  BY Zenon DEF ConnectFails, SocketError, Cancelled, Close, CloseSent, CloseCancelled, conn, Failed,
         EventsInv, EventTypes, QuicStates
<1>3. CASE ~Close
  <2>1. Onwards
    BY <1>3, Zenon DEF ConnectFails, SocketError, Cancelled, CloseSent, CloseCancelled, conn, Failed,
           EventsInv, EndOK, Onwards, Running
  <2> QED
    BY <1>1, <1>2, <2>1, SamePreserves, Zenon
<1>4. CASE Close
  <2>1. Onwards
    BY <1>4, Zenon DEF Close, Onwards, Running
  <2> QED
    BY <1>1, <1>2, <2>1, SamePreserves, Zenon
<1> QED
  BY <1>3, <1>4, Zenon

\* No step of the connection loses an event, raises one twice or reports an end
\* before its time.
LEMMA NextPreserves ==
    ASSUME EventsInv, [Next]_vars
    PROVE  EventsInv'
<1>1. CASE UNCHANGED vars
  BY <1>1, Zenon DEF vars, conn, tokio, EventsInv, EventTypes, EndOK, EventsInOrder, Everything, Ended, Running
<1>2. CASE ConnectFlush
  BY <1>2, ConnectFlushPreserves, Zenon
<1>3. CASE RecvEvent
  BY <1>3, RecvEventPreserves, Zenon
<1>4. CASE LoopReturn
  BY <1>4, LoopReturnPreserves, Zenon
<1>5. CASE LoopFlush
  BY <1>5, LoopFlushPreserves, Zenon
<1>6. CASE Sent
  BY <1>6, SentPreserves, Zenon
<1>7. CASE ReadPacket
  BY <1>7, ReadPacketPreserves, Zenon
<1>8. CASE Timer
  BY <1>8, TimerPreserves, Zenon
<1>9. CASE Flush
  BY <1>9, FlushCallPreserves, Zenon DEF Flush
<1>10. CASE SendDatagram
  BY <1>10, SendDatagramPreserves, Zenon
<1>11. CASE ConnectFails \/ SocketError \/ Cancelled \/ Close \/ CloseSent \/ CloseCancelled
  BY <1>11, OthersPreserve, Zenon
<1> QED
  BY <1>1, <1>2, <1>3, <1>4, <1>5, <1>6, <1>7, <1>8, <1>9, <1>10, <1>11, Zenon DEF Next, Drive
-----------------------------------------------------------------------------
(* Results about the events                                                *)

\* A connection starts with no event.
LEMMA InitEvents ==
    ASSUME Init
    PROVE  EventsInv
<1>1. role \in Roles /\ quic \in {"handshake", "open"} /\ pc \in {"connect", "app"}
      /\ callbacks = <<>> /\ events = <<>> /\ delivered = <<>> /\ produced = 0
      /\ closed = FALSE /\ local = FALSE /\ ret = "none"
  BY Zenon DEF Init
<1>2. MaxEvents \in Nat
  BY ConnectionEventsAssumption, Zenon
<1>3. EventTypes
  <2>1. <<>> \in Seq(1..0) /\ <<>> \in Seq(Nat)
    OBVIOUS
  <2>2. 0 \in 0..MaxEvents
    BY <1>2
  <2> QED
    BY <1>1, <2>1, <2>2, Zenon DEF EventTypes, QuicStates
<1>4. <<>> \in Seq(Nat) /\ <<>> \o <<>> = <<>>
  BY ConcatEmptySeq
<1>5. Everything = <<>>
  BY <1>1, <1>4, Zenon DEF Everything
<1>6. FirstEvents(0) = <<>>
  <2>1. FirstEvents(0) \in Seq(Nat) /\ Len(FirstEvents(0)) = 0
    BY FirstEventsIsSeq, 0 \in Nat, Zenon
  <2> QED
    BY <2>1, EmptySeq, Zenon
<1>7. ~Ended
  BY <1>1, <1>4 DEF Ended, HasEnd
<1> QED
  BY <1>1, <1>3, <1>5, <1>6, <1>7, Zenon DEF EventsInv, EndOK, EventsInOrder

\* The inductive invariant holds of the drives of both sides.
THEOREM EventsInductive == Spec => []EventsInv
<1>1. Init => EventsInv
  BY InitEvents, Zenon
<1>2. EventsInv /\ [Next]_vars => EventsInv'
  BY NextPreserves, Zenon
<1> QED
  BY <1>1, <1>2, PTL DEF Spec

\* The paths change within the steps of the connection: a step of ConnectionPaths
\* is one of ConnectionEvents, or one (the migration that ngtcp2 refuses) that the
\* events do not see.
LEMMA PathsStep ==
    ASSUME [PathsNext]_pvars
    PROVE  [Next]_vars
<1>1. CASE UNCHANGED pvars
  BY <1>1, Zenon DEF pvars
<1>2. CASE PathsDrive
  BY <1>2, Zenon DEF PathsDrive, PathsConnectFlush, PathsLoopFlush, PathsSent, Next, Drive
<1>3. CASE PathsReadPacket \/ PathsTimer \/ ((ConnectFails \/ SocketError \/ Cancelled) /\ Silent /\ Kept)
  BY <1>3, Zenon DEF PathsReadPacket, PathsTimer, Next
<1>4. CASE PathsFlush \/ PathsSendDatagram
  BY <1>4, Zenon DEF PathsFlush, PathsSendDatagram, Next, Flush
<1>5. CASE PathsClose \/ PathsCloseSent
  BY <1>5, Zenon DEF PathsClose, PathsCloseSent, Next
<1>6. CASE Migrate
  <2>1. UNCHANGED <<delivered, local, role>> /\ pc = "app"
    BY <1>6, Zenon DEF Migrate
  <2>2. PICK new \in ClientAddrs \ {socket}, ok \in BOOLEAN :
          MigrationRefused \/ MigrationStarts(new)
    BY <1>6, Zenon DEF Migrate
  <2>3. CASE MigrationRefused
    BY <2>1, <2>3, Zenon DEF MigrationRefused, vars
  <2>4. CASE MigrationStarts(new)
    <3>1. PICK w \in Writes : Flushed(w)
      BY <2>4, Zenon DEF MigrationStarts
    <3>2. FlushCall(w)
      BY <2>1, <2>4, <3>1, Zenon DEF MigrationStarts, FlushCall
    <3> QED
      BY <3>2, Zenon DEF Next, Flush
  <2> QED
    BY <2>2, <2>3, <2>4, Zenon
<1> QED
  BY <1>1, <1>2, <1>3, <1>4, <1>5, <1>6, Zenon DEF PathsNext

\* The connection with its paths implements the connection without them.
THEOREM PathsRefineEvents == PathsSpec => Spec
<1>1. PathsInit => Init
  BY Zenon DEF PathsInit
<1>2. [PathsNext]_pvars => [Next]_vars
  BY PathsStep, Zenon
<1> QED
  BY <1>1, <1>2, PTL DEF PathsSpec, Spec

\* Events are delivered in the order in which the callbacks raised them, each once,
\* and ConnectionClosed at most once (recv_event, drain_events, flush, send_datagram
\* and close in any order, dropped at any await).
THEOREM EventsAlwaysInOrder == PathsSpec => []EventsInOrder
<1>1. EventsInv => EventsInOrder
  BY Zenon DEF EventsInv, EndOK
<1> QED
  BY <1>1, EventsInductive, PathsRefineEvents, PTL

\* Once the peer or a timer ended the connection, ConnectionClosed is the last event
\* and nothing is left behind it (push_connection_closed after drain_events).
THEOREM ClosedAlwaysLast == PathsSpec => []ClosedIsLast
<1>1. EventsInv => ClosedIsLast
  <2>1. SUFFICES ASSUME EventsInv, Ended, quic # "closing"
                 PROVE  Everything[Len(Everything)] = Closed
    BY Zenon DEF ClosedIsLast
  <2>2. Everything = EndAt(produced, produced + 1) /\ produced \in Nat
    BY <2>1, TypesOfEvents, Zenon DEF EventsInv, EndOK
  <2>3. PICK e : e = Everything
    BY Zenon
  <2>4. Len(e) = produced + 1 /\ \A i \in 1..(produced + 1) :
          e[i] = IF i < produced + 1 THEN i ELSE IF i = produced + 1 THEN Closed ELSE i - 1
    <3>1. PICK p : p = produced + 1
      BY Zenon
    <3>2. p \in 1..(produced + 1)
      BY <2>2, <3>1
    <3>3. Len(EndAt(produced, p)) = produced + 1 /\ \A i \in 1..(produced + 1) :
            EndAt(produced, p)[i] = IF i < p THEN i ELSE IF i = p THEN Closed ELSE i - 1
      BY <2>2, <3>2, EndAtIsSeq, Zenon
    <3> QED
      BY <2>2, <2>3, <3>1, <3>3, Zenon
  <2>5. e[produced + 1] = Closed
    BY <2>2, <2>4
  <2> QED
    BY <2>3, <2>4, <2>5, Zenon
<1> QED
  BY <1>1, EventsInductive, PathsRefineEvents, PTL

\* The end of a connection is never reported as a failed write: recv_event looks at
\* is_in_closing_period and is_in_draining_period before it flushes.
THEOREM EndNeverError == PathsSpec => EndIsNoError
<1>1. ASSUME [Next]_vars
      PROVE  [ret' = "error" /\ ret # "error" => ~Over]_vars
  <2>1. SUFFICES ASSUME Next, ret' = "error", ret # "error" PROVE ~Over
    BY <1>1, Zenon
  <2>2. ret' # ret
    BY <2>1, Zenon
  <2>3. CASE LoopFlush
    BY <2>3, Zenon DEF LoopFlush
  <2>4. CASE RecvEvent \/ LoopReturn
    BY <2>1, <2>4, Zenon DEF RecvEvent, LoopReturn, Returned
  <2>5. CASE Sent
    BY <2>1, <2>5, Zenon DEF Sent, Returned
  <2>6. CASE Timer
    BY <2>1, <2>6, Zenon DEF Timer, Returned
  <2>7. CASE ConnectFlush \/ ReadPacket \/ ConnectFails \/ SocketError \/ Cancelled
    BY <2>1, <2>7, Zenon DEF ConnectFlush, ReadPacket, ConnectFails, SocketError, Cancelled, Failed
  <2>8. CASE Flush \/ SendDatagram \/ Close \/ CloseSent \/ CloseCancelled
    BY <2>1, <2>8, Zenon DEF Flush, FlushCall, SendDatagram, tokio, Close, CloseSent, CloseCancelled
  <2> QED
    BY <2>1, <2>3, <2>4, <2>5, <2>6, <2>7, <2>8, Zenon DEF Next, Drive
<1> QED
  BY <1>1, PathsRefineEvents, PTL DEF Spec, EndIsNoError
-----------------------------------------------------------------------------
(* Steps of ConnectionPaths                                                *)

\* What a call of ngtcp2 did to the paths, and the label l of its last event.
NetBy(l) ==
    \/ l = Other /\ UNCHANGED net
    \/ l = Other /\ (PreferredOffered \/ PeerMoves)
    \/ l = [ok |-> TRUE, peer |-> pv.peer] /\ Validated
    \/ l = [ok |-> FALSE, peer |-> pv.peer] /\ ValidationFails

\* A read labels its callbacks by one choice of label.
LEMMA ReadLabels ==
    ASSUME PathsRead
    PROVE  \E l : NetBy(l) /\ Labelled(l)
<1>1. CASE PathsQuiet \/ PreferredOffered \/ PeerMoves
  <2>1. NetBy(Other) /\ Labelled(Other)
    BY <1>1, Zenon DEF NetBy, PathsQuiet, PreferredOffered, PeerMoves
  <2> QED
    BY <2>1, Zenon
<1>2. CASE Validated
  <2>1. PICK l : l = [ok |-> TRUE, peer |-> pv.peer]
    BY Zenon
  <2>2. NetBy(l) /\ Labelled(l)
    BY <1>2, <2>1, Zenon DEF NetBy, Validated
  <2> QED
    BY <2>2, Zenon
<1> QED
  BY <1>1, <1>2, Zenon DEF PathsRead

\* So does a write, which never completes a validation.
LEMMA WriteLabels ==
    ASSUME PathsWrite
    PROVE  \E l : NetBy(l) /\ Labelled(l) /\ ~l.ok
<1>1. CASE PathsQuiet
  <2>1. NetBy(Other) /\ Labelled(Other) /\ ~Other.ok
    BY <1>1, Zenon DEF NetBy, PathsQuiet, Other
  <2> QED
    BY <2>1, Zenon
<1>2. CASE ValidationFails
  <2>1. PICK l : l = [ok |-> FALSE, peer |-> pv.peer]
    BY Zenon
  <2>2. NetBy(l) /\ Labelled(l) /\ ~l.ok
    BY <1>2, <2>1, Zenon DEF NetBy, ValidationFails
  <2> QED
    BY <2>2, Zenon
<1> QED
  BY <1>1, <1>2, Zenon DEF PathsWrite

\* The labels after a call: those there were, and of the new ones the last is l.
LEMMA LabelsAfter ==
    ASSUME NEW L, labels \in Seq(L), Len(labels) = produced, produced \in Nat,
           NEW n \in Nat, produced' = produced + n, NEW l \in L, Other \in L, Labelled(l)
    PROVE  /\ labels' \in Seq(L) /\ Len(labels') = produced + n
           /\ \A i \in 1..produced : labels'[i] = labels[i]
           /\ \A i \in 1..n : labels'[produced + i] = IF i = n THEN l ELSE Other
<1>1. PICK f : f = [i \in 1..n |-> IF i = n THEN l ELSE Other]
  BY Zenon
<1>2. f \in [1..n -> L] /\ \A i \in 1..n : f[i] = IF i = n THEN l ELSE Other
  BY <1>1, Zenon
<1>3. f \in Seq(L) /\ Len(f) = n
  BY <1>2, FunctionsAreSequences, Zenon
<1>4. labels' = labels \o f
  <2>1. News = n
    BY DEF News
  <2> QED
    BY <1>1, <2>1, Zenon DEF Labelled
<1>5. PICK m : m = labels
  BY Zenon
<1>6. m \in Seq(L) /\ Len(m) = produced
  BY <1>5, Zenon
<1>7. PICK g : g = m \o f
  BY Zenon
<1>8. g \in Seq(L) /\ Len(g) = Len(m) + Len(f)
      /\ (\A i \in 1..Len(m) : g[i] = m[i])
      /\ (\A i \in 1..Len(f) : g[Len(m) + i] = f[i])
  <2>1. m \in Seq(L) /\ f \in Seq(L)
    BY <1>3, <1>6, Zenon
  <2> QED
    BY <1>7, <2>1, ConcatElementsOf
<1>9. g = labels'
  BY <1>4, <1>5, <1>7, Zenon
<1> QED
  BY <1>2, <1>3, <1>5, <1>6, <1>8, <1>9, ZenonT(40)

\* Of the events that wait after a call only the last can be that of a validated
\* path.
LEMMA PendingLabels ==
    ASSUME NEW L, labels \in Seq(L), Len(labels) = produced, produced \in Nat,
           NEW n \in Nat, produced' = produced + n, NEW l \in L, Other \in L, Labelled(l),
           callbacks \in Seq(1..produced), Drained
    PROVE  /\ Pending = Raised(n) /\ Len(Pending) \in Nat /\ DOMAIN Pending = 1..Len(Pending)
           /\ n > 0 => Len(Pending) > 0 /\ labels'[Pending[Len(Pending)]] = l
           /\ \A i \in 1..Len(Pending) :
                i # Len(Pending) \/ n = 0 => ~labels'[Pending[i]].ok
<1>1. PICK f : f = [i \in 1..n |-> produced + i]
  BY Zenon
<1>2. f \in Seq(Nat) /\ Len(f) = n /\ \A i \in 1..n : f[i] = produced + i
  BY <1>1, NewIsSeq, Zenon
<1>3. callbacks \in Seq(Nat) /\ \A i \in 1..Len(callbacks) : callbacks[i] \in 1..produced
  BY CallbacksAreNumbers, Zenon
<1>4. PICK b : b = callbacks \o f
  BY Zenon
<1>5. b = Pending /\ b = Raised(n)
  <2>1. News = n
    BY DEF News
  <2> QED
    BY <1>1, <1>4, <2>1, Zenon DEF Pending, Raised
<1>a. b \in Seq(Nat) /\ Len(b) = Len(callbacks) + Len(f) /\ Len(callbacks) \in Nat
      /\ (\A i \in 1..Len(callbacks) : b[i] = callbacks[i])
      /\ (\A i \in 1..Len(f) : b[Len(callbacks) + i] = f[i])
  BY <1>2, <1>3, <1>4, ConcatElements, Zenon
<1>6. b \in Seq(Nat) /\ Len(b) = Len(callbacks) + n /\ Len(callbacks) \in Nat
      /\ (\A i \in 1..Len(callbacks) : b[i] = callbacks[i])
      /\ (\A i \in 1..n : b[Len(callbacks) + i] = produced + i)
  BY <1>2, <1>a, Zenon
<1>7. Len(b) \in Nat /\ DOMAIN b = 1..Len(b)
  BY <1>6
<1>8. /\ \A i \in 1..produced : labels'[i] = labels[i]
      /\ \A i \in 1..n : labels'[produced + i] = IF i = n THEN l ELSE Other
  BY LabelsAfter, Zenon
<1>9. n > 0 => Len(b) > 0 /\ labels'[b[Len(b)]] = l
  <2>1. SUFFICES ASSUME n > 0 PROVE Len(b) > 0 /\ labels'[b[Len(b)]] = l
    BY Zenon
  <2>2. n \in 1..n /\ Len(b) = Len(callbacks) + n /\ Len(b) > 0
    BY <1>6, <2>1
  <2>3. b[Len(b)] = produced + n
    BY <1>6, <2>2, Zenon
  <2> QED
    BY <1>8, <2>2, <2>3, Zenon
<1>10. ASSUME NEW i \in 1..Len(b), i # Len(b) \/ n = 0
       PROVE  ~labels'[b[i]].ok
  <2>1. CASE i \in 1..Len(callbacks)
    <3>1. b[i] = callbacks[i] /\ callbacks[i] \in 1..produced /\ ~labels[callbacks[i]].ok
      BY <1>3, <1>6, <2>1, Zenon DEF Drained
    <3> QED
      BY <1>8, <3>1
  <2>2. CASE i \notin 1..Len(callbacks)
    <3>1. i - Len(callbacks) \in 1..n /\ i - Len(callbacks) # n
          /\ Len(callbacks) + (i - Len(callbacks)) = i
      BY <1>6, <1>10, <2>2
    <3>2. b[i] = produced + (i - Len(callbacks))
      BY <1>6, <3>1, Zenon
    <3>3. labels'[b[i]] = Other
      BY <1>8, <3>1, <3>2, Zenon
    <3> QED
      BY <3>3 DEF Other
  <2> QED
    BY <2>1, <2>2, Zenon
<1> QED
  BY <1>5, <1>7, <1>9, <1>10, Zenon

\* drain_events takes over the peer's address of the path validated in the call.
LEMMA DrainedAddr ==
    ASSUME NEW L, labels \in Seq(L), Len(labels) = produced, produced \in Nat,
           NEW n \in Nat, produced' = produced + n, NEW l \in L, Other \in L, Labelled(l), l.ok \in BOOLEAN,
           callbacks \in Seq(1..produced), Drained, NEW addr
    PROVE  drained_addr(addr, Pending) = IF n > 0 /\ l.ok THEN l.peer ELSE addr
<1>1. /\ Len(Pending) \in Nat /\ DOMAIN Pending = 1..Len(Pending)
      /\ n > 0 => Len(Pending) > 0 /\ labels'[Pending[Len(Pending)]] = l
      /\ \A i \in 1..Len(Pending) :
           i # Len(Pending) \/ n = 0 => ~labels'[Pending[i]].ok
  BY PendingLabels, Zenon
<1>2. PICK P : P = Pending
  BY Zenon
<1>3. /\ Len(P) \in Nat /\ DOMAIN P = 1..Len(P)
      /\ n > 0 => Len(P) > 0 /\ labels'[P[Len(P)]] = l
      /\ \A i \in 1..Len(P) : i # Len(P) \/ n = 0 => ~labels'[P[i]].ok
  BY <1>1, <1>2, Zenon
<1> DEFINE moved == {i \in DOMAIN P : labels'[P[i]].ok}
<1>4. drained_addr(addr, P) = IF moved = {} THEN addr ELSE labels'[P[LastOf(moved)]].peer
  BY Zenon DEF drained_addr
<1>5. CASE n > 0 /\ l.ok
  <2>a. Len(P) \in 1..Len(P) /\ labels'[P[Len(P)]].ok
    <3>1. Len(P) > 0 /\ Len(P) \in Nat /\ labels'[P[Len(P)]] = l
      BY <1>3, <1>5, Zenon
    <3>2. Len(P) \in 1..Len(P)
      BY <3>1
    <3> QED
      BY <1>5, <3>1, <3>2, Zenon
  <2>1. moved = {Len(P)}
    BY <1>3, <2>a, Zenon
  <2>2. \A k \in Nat : LastOf({k}) = k
    BY DEF LastOf
  <2>3. LastOf(moved) = Len(P) /\ moved # {}
    BY <1>3, <2>1, <2>2, Zenon
  <2> QED
    BY <1>2, <1>3, <1>4, <1>5, <2>3, Zenon
<1>6. CASE ~(n > 0 /\ l.ok)
  <2>1. ASSUME NEW i \in 1..Len(P)
        PROVE  ~labels'[P[i]].ok
    <3>1. CASE i # Len(P) \/ n = 0
      BY <1>3, <3>1, Zenon
    <3>2. CASE i = Len(P) /\ n # 0
      <4>1. n > 0
        BY <3>2
      <4>2. labels'[P[Len(P)]] = l /\ ~l.ok
        BY <1>3, <1>6, <4>1, Zenon
      <4> QED
        BY <3>2, <4>2, Zenon
    <3> QED
      BY <3>1, <3>2, Zenon
  <2>2. moved = {}
    BY <1>3, <2>1, Zenon
  <2> QED
    BY <1>2, <1>4, <1>6, <2>2, Zenon
<1> QED
  BY <1>5, <1>6, Zenon

\* The types of the paths, and what of them a step with news l leaves.
LEMMA LabelTyped ==
    ASSUME PathTypes, NEW l, NetBy(l)
    PROVE  l \in Labels /\ Other \in Labels /\ l.ok \in BOOLEAN
<1>1. Other \in Labels
  BY Zenon DEF Other, Labels
<1>2. CASE l = Other
  BY <1>1, <1>2, Zenon DEF Other
<1>3. CASE l # Other
  <2>1. pv # None /\ pv.peer \in Peers
    BY <1>3, Zenon DEF NetBy, Validated, ValidationFails, PathTypes
  <2>2. \E ok \in BOOLEAN : l = [ok |-> ok, peer |-> pv.peer]
    BY <1>3, Zenon DEF NetBy
  <2> QED
    BY <1>1, <2>1, <2>2 DEF Labels
<1> QED
  BY <1>2, <1>3, Zenon

\* ngtcp2 changes its paths and the tokio layer follows: with drain_events, which
\* takes over the address of a validated path, or with the client's flush.
LEMMA NetPreserves ==
    ASSUME PathsInv, role' = role, NEW n \in Nat, produced' = produced + n,
           NEW l, NetBy(l), Labelled(l), UNCHANGED <<socket, local_addr>>,
           \/ remote_addr' = IF n > 0 /\ l.ok THEN l.peer ELSE remote_addr
           \/ role = "client" /\ ~l.ok /\ remote_addr' = path'.peer
    PROVE  PathTypes' /\ ClientSendsFromPath' /\ RemoteAddrIsCurrent'
<1>1. PathTypes /\ ClientSendsFromPath /\ RemoteAddrIsCurrent /\ produced \in Nat
  BY TypesOfEvents, Zenon DEF PathsInv, EventsInv
<1>2. l \in Labels /\ Other \in Labels /\ l.ok \in BOOLEAN
  BY <1>1, LabelTyped, Zenon
<1>3. labels' \in Seq(Labels) /\ Len(labels') = produced'
  BY <1>1, <1>2, LabelsAfter, Zenon DEF PathTypes
<1>4. Mine' = Mine /\ Peers' = Peers /\ Labels' = Labels
  BY Zenon DEF Mine, Peers, Labels
<1>5. News = n
  BY <1>1 DEF News
<1>6. role \in {"client", "handle"} /\ MaxMoves \in Nat
  BY ConnectionEventsAssumption, ConnectionPathsAssumption, Zenon DEF PathsInv, EventsInv, EventTypes
<1>7. CASE l = Other /\ UNCHANGED net
  <2>1. remote_addr' = remote_addr
    BY <1>1, <1>7, Zenon DEF Other, RemoteAddrIsCurrent, net
  <2> QED
    BY <1>1, <1>3, <1>4, <1>7, <2>1, Zenon
       DEF PathTypes, ClientSendsFromPath, RemoteAddrIsCurrent, net
<1>8. CASE l = Other /\ PreferredOffered
  <2>1. role = "client" /\ pv = None
    BY <1>1, <1>8, Zenon DEF PreferredOffered, PathTypes
  <2>2. remote_addr' = remote_addr
    BY <1>1, <1>8, <2>1, Zenon DEF Other, RemoteAddrIsCurrent, PreferredOffered
  <2>3. pv' = None \/ (pv' = [path EXCEPT !.peer = "preferred"])
    BY <1>8, Zenon DEF PreferredOffered
  <2>4. pv' \in [me : Mine, peer : Peers] \cup {None} /\ (pv' # None => pv'.me = path.me)
    BY <1>1, <2>1, <2>3, Zenon DEF PathTypes, Peers, ServerAddrs
  <2>5. UNCHANGED <<path, back, moves>> /\ offer' = FALSE
    BY <1>8, Zenon DEF PreferredOffered
  <2> QED
    BY <1>1, <1>3, <1>4, <2>1, <2>2, <2>4, <2>5, Zenon
       DEF PathTypes, ClientSendsFromPath, RemoteAddrIsCurrent
<1>9. CASE l = Other /\ PeerMoves
  <2>1. role = "handle" /\ remote_addr' = remote_addr
    BY <1>1, <1>9, Zenon DEF Other, PeerMoves
  <2>2. PICK p \in [me : ServerAddrs, peer : ClientAddrs] :
          path' = p /\ pv' = p /\ back' = IF pv = None THEN path ELSE back
    BY <1>9, Zenon DEF PeerMoves
  <2>3. p \in [me : Mine, peer : Peers] /\ p # None
    BY <2>1 DEF Mine, Peers, None, ServerAddrs
  <2>4. moves' = moves + 1 /\ moves < MaxMoves /\ offer' = offer
    BY <1>9, Zenon DEF PeerMoves
  <2>5. moves' \in 0..MaxMoves
    BY <1>1, <1>6, <2>4 DEF PathTypes
  <2>6. back' \in [me : Mine, peer : Peers] /\ remote_addr = back'.peer
    BY <1>1, <2>1, <2>2, Zenon DEF PathTypes, RemoteAddrIsCurrent
  <2> QED
    BY <1>1, <1>3, <1>4, <2>1, <2>2, <2>3, <2>4, <2>5, <2>6, Zenon
       DEF PathTypes, ClientSendsFromPath, RemoteAddrIsCurrent
<1>10. CASE l = [ok |-> TRUE, peer |-> pv.peer] /\ Validated
  <2>1. pv # None /\ path' = pv /\ pv' = None /\ n > 0 /\ UNCHANGED <<back, offer, moves>>
    BY <1>5, <1>10, Zenon DEF Validated
  <2>2. remote_addr' = pv.peer
    BY <1>10, <2>1, Zenon
  <2>3. pv \in [me : Mine, peer : Peers]
    BY <1>1, <2>1, Zenon DEF PathTypes
  <2> QED
    BY <1>1, <1>3, <1>4, <2>1, <2>2, <2>3, Zenon
       DEF PathTypes, ClientSendsFromPath, RemoteAddrIsCurrent
<1>11. CASE l = [ok |-> FALSE, peer |-> pv.peer] /\ ValidationFails
  <2>1. pv # None /\ path' = (IF role = "handle" THEN back ELSE path) /\ pv' = None
        /\ UNCHANGED <<back, offer, moves>>
    BY <1>11, Zenon DEF ValidationFails
  <2>2. remote_addr' = remote_addr
    BY <1>1, <1>6, <1>11, <2>1, Zenon DEF RemoteAddrIsCurrent
  <2>3. path' \in [me : Mine, peer : Peers] /\ remote_addr = path'.peer
    BY <1>1, <1>6, <2>1, Zenon DEF PathTypes, RemoteAddrIsCurrent
  <2> QED
    BY <1>1, <1>3, <1>4, <1>6, <2>1, <2>2, <2>3, Zenon
       DEF PathTypes, ClientSendsFromPath, RemoteAddrIsCurrent
<1> QED
  BY <1>7, <1>8, <1>9, <1>10, <1>11, Zenon DEF NetBy

\* A call after which the events are drained.
LEMMA DrainStep ==
    ASSUME PathsInv, EventsInv', role' = role, NEW n \in Nat, produced' = produced + n,
           NEW l, NetBy(l), Labelled(l), Drains, callbacks' = <<>>
    PROVE  PathsInv'
<1>1. produced \in Nat /\ callbacks \in Seq(1..produced) /\ PathTypes /\ Drained
  BY TypesOfEvents, Zenon DEF PathsInv, EventsInv
<1>2. l \in Labels /\ Other \in Labels /\ l.ok \in BOOLEAN
  BY <1>1, LabelTyped, Zenon
<1>3. labels \in Seq(Labels) /\ Len(labels) = produced
  BY <1>1, Zenon DEF PathTypes
<1>4. \A addr : drained_addr(addr, Pending) = IF n > 0 /\ l.ok THEN l.peer ELSE addr
  BY <1>1, <1>2, <1>3, DrainedAddr, Zenon
<1>5. remote_addr' = IF n > 0 /\ l.ok THEN l.peer ELSE remote_addr
  BY <1>4, Zenon DEF Drains
<1>6. PathTypes' /\ ClientSendsFromPath' /\ RemoteAddrIsCurrent'
  BY <1>5, NetPreserves, Zenon DEF Drains
<1>7. Drained'
  BY DEF Drained
<1> QED
  BY <1>6, <1>7, Zenon DEF PathsInv

\* The events of a call wait in the sans-IO queue: none of them is of a validated
\* path.
LEMMA WaitingNotOk ==
    ASSUME PathsInv, NEW n \in Nat, produced' = produced + n,
           NEW l \in Labels, Other \in Labels, Labelled(l), ~l.ok, callbacks' = Raised(n)
    PROVE  Drained'
<1>1. produced \in Nat /\ callbacks \in Seq(1..produced) /\ PathTypes /\ Drained
  BY TypesOfEvents, Zenon DEF PathsInv, EventsInv
<1>2. labels \in Seq(Labels) /\ Len(labels) = produced
  BY <1>1, Zenon DEF PathTypes
<1>3. /\ Pending = Raised(n)
      /\ n > 0 => Len(Pending) > 0 /\ labels'[Pending[Len(Pending)]] = l
      /\ \A i \in 1..Len(Pending) : i # Len(Pending) \/ n = 0 => ~labels'[Pending[i]].ok
  BY <1>1, <1>2, PendingLabels, Zenon
<1>4. ASSUME NEW i \in 1..Len(callbacks')
      PROVE  ~labels'[callbacks'[i]].ok
  <2>1. CASE i # Len(Pending) \/ n = 0
    BY <1>3, <2>1, Zenon
  <2>2. CASE i = Len(Pending) /\ n # 0
    <3>1. n > 0
      BY <2>2
    <3> QED
      BY <1>3, <2>2, <3>1, Zenon
  <2> QED
    BY <2>1, <2>2, Zenon
<1> QED
  BY <1>4, Zenon DEF Drained

\* A step that writes keeps the invariant of the paths.
LEMMA WriteStep ==
    ASSUME PathsInv, EventsInv', role' = role, NEW n \in Nat, produced' = produced + n,
           PathsWrite, UNCHANGED <<socket, local_addr>>, callbacks' = Raised(n),
           remote_addr' = remote_addr \/ (role = "client" /\ remote_addr' = path'.peer)
    PROVE  PathsInv'
<1>1. PICK l : NetBy(l) /\ Labelled(l) /\ ~l.ok
  BY WriteLabels, Zenon
<1>2. l \in Labels /\ Other \in Labels
  BY <1>1, LabelTyped, Zenon DEF PathsInv
<1>3. Drained'
  BY <1>1, <1>2, WaitingNotOk, Zenon
<1>4. PathTypes' /\ ClientSendsFromPath' /\ RemoteAddrIsCurrent'
  BY <1>1, NetPreserves, Zenon
<1> QED
  BY <1>3, <1>4, Zenon DEF PathsInv

\* A flush, wherever it is called: the handle drains, the client takes over the path.
LEMMA FlushStep ==
    ASSUME PathsInv, EventsInv', role' = role, NEW w \in Writes, Flushed(w), PathsWrite,
           NEW ok, FlushedAddr(ok)
    PROVE  PathsInv'
<1>1. PICK n : n = w.raised
  BY Zenon
<1>2. n \in Nat /\ produced' = produced + n
  BY <1>1, WritesOK, Zenon DEF PathsInv, EventsInv, Flushed
<1>3. CASE role = "handle"
  <2>1. Drains /\ callbacks' = <<>>
    BY <1>3, Zenon DEF FlushedAddr, Flushed, Drains
  <2>2. PICK l : NetBy(l) /\ Labelled(l)
    BY WriteLabels, Zenon
  <2> QED
    BY <1>2, <2>1, <2>2, DrainStep, Zenon
<1>4. CASE role # "handle"
  <2>1. role = "client"
    BY <1>4, ConnectionEventsAssumption, Zenon DEF PathsInv, EventsInv, EventTypes
  <2>2. UNCHANGED <<socket, local_addr>> /\ callbacks' = Raised(n)
        /\ (remote_addr' = remote_addr \/ remote_addr' = path'.peer)
    BY <1>1, <1>4, Zenon DEF FlushedAddr, Flushed
  <2> QED
    BY <1>2, <2>1, <2>2, WriteStep, Zenon
<1> QED
  BY <1>3, <1>4, Zenon

\* A step that the paths do not see.
LEMMA SilentStep ==
    ASSUME PathsInv, EventsInv', UNCHANGED <<role, produced, callbacks>>, Silent
    PROVE  PathsInv'
BY Zenon DEF PathsInv, PathTypes, Drained, ClientSendsFromPath, RemoteAddrIsCurrent, Silent,
       net, addrs, Mine, Peers, Labels

\* migrate: the new socket and the new path go together.
LEMMA MigrateStep ==
    ASSUME PathsInv, EventsInv', Migrate
    PROVE  PathsInv'
<1>1. role = "client" /\ role' = role /\ moves < MaxMoves /\ moves' = moves + 1
      /\ UNCHANGED <<back, offer>>
  BY Zenon DEF Migrate
<1>2. PathTypes /\ ClientSendsFromPath /\ RemoteAddrIsCurrent /\ Drained
  BY Zenon DEF PathsInv
<1>3. moves' \in 0..MaxMoves /\ Mine' = Mine /\ Peers' = Peers /\ Labels' = Labels
  <2>1. MaxMoves \in Nat
    BY ConnectionPathsAssumption, Zenon
  <2> QED
    BY <1>1, <1>2, <2>1 DEF PathTypes, Mine, Peers, Labels
<1>4. PICK new \in ClientAddrs \ {socket}, ok \in BOOLEAN :
        /\ socket' = bound_socket(ok, new) /\ local_addr' = socket'
        /\ (MigrationRefused /\ ~ok) \/ (MigrationStarts(new) /\ ok)
  BY Zenon DEF Migrate
<1>5. CASE MigrationRefused /\ ~ok
  <2>1. socket' = socket /\ local_addr' = local_addr
    BY <1>1, <1>2, <1>4, <1>5, Zenon DEF bound_socket, ClientSendsFromPath
  <2>2. UNCHANGED <<callbacks, produced, labels, path, pv, remote_addr>>
    BY <1>5, Zenon DEF MigrationRefused, conn
  <2> QED
    BY <1>1, <1>2, <1>3, <2>1, <2>2, Zenon
       DEF PathsInv, PathTypes, ClientSendsFromPath, RemoteAddrIsCurrent, Drained
<1>6. CASE MigrationStarts(new) /\ ok
  <2>1. socket' = new /\ local_addr' = new
    BY <1>4, <1>6, Zenon DEF bound_socket
  <2>2. path' = [me |-> new, peer |-> remote_addr] /\ pv' = path' /\ Labelled(Other)
    BY <1>6, Zenon DEF MigrationStarts
  <2>3. PICK w \in Writes : Flushed(w) /\ remote_addr' = IF w.ok THEN path'.peer ELSE remote_addr
    BY <1>6, Zenon DEF MigrationStarts
  <2>4. remote_addr' = remote_addr
    BY <2>2, <2>3, Zenon
  <2>5. PICK n : n = w.raised
    BY Zenon
  <2>6. n \in Nat /\ produced' = produced + n /\ callbacks' = Raised(n)
    BY <1>1, <2>3, <2>5, WritesOK, Zenon DEF PathsInv, EventsInv, Flushed
  <2>7. Other \in Labels /\ ~Other.ok
    BY Zenon DEF Other, Labels
  <2>8. Drained'
    BY <2>2, <2>6, <2>7, WaitingNotOk, Zenon
  <2>9. produced \in Nat /\ labels \in Seq(Labels) /\ Len(labels) = produced
    BY <1>2, TypesOfEvents, Zenon DEF PathsInv, EventsInv, PathTypes
  <2>10. labels' \in Seq(Labels) /\ Len(labels') = produced'
    BY <2>2, <2>6, <2>7, <2>9, LabelsAfter, Zenon
  <2>11. new \in Mine /\ remote_addr \in Peers
    BY <1>1, <1>2, Zenon DEF Mine, PathTypes
  <2>12. path' \in [me : Mine, peer : Peers]
    BY <2>2, <2>11, Zenon
  <2>13. PathTypes'
    BY <1>1, <1>2, <1>3, <2>1, <2>2, <2>4, <2>10, <2>11, <2>12, Zenon DEF PathTypes
  <2>14. ClientSendsFromPath' /\ RemoteAddrIsCurrent'
    BY <1>1, <2>1, <2>2, <2>4, Zenon DEF ClientSendsFromPath, RemoteAddrIsCurrent
  <2> QED
    BY <2>8, <2>13, <2>14, Zenon DEF PathsInv
<1> QED
  BY <1>4, <1>5, <1>6, Zenon

\* No step of a connection makes its addresses stale.
LEMMA PathsNextPreserves ==
    ASSUME PathsInv, [PathsNext]_pvars
    PROVE  PathsInv'
<1>1. [Next]_vars /\ EventsInv
  BY PathsStep, Zenon DEF PathsInv
<1>2. EventsInv'
  BY <1>1, NextPreserves, Zenon
<1>3. produced \in Nat /\ EventTypes
  BY <1>1, TypesOfEvents, Zenon DEF EventsInv
<1>4. CASE UNCHANGED pvars
  BY <1>2, <1>4, SilentStep, Zenon DEF pvars, vars, conn, Silent
<1>5. CASE PathsConnectFlush
  <2>1. (\E w \in Writes : Flushed(w)) /\ role' = role
    BY <1>5, Zenon DEF PathsConnectFlush, ConnectFlush
  <2>2. PathsWrite /\ FlushedAddr(pc' # "dead")
    BY <1>5, Zenon DEF PathsConnectFlush
  <2> QED
    BY <1>2, <2>1, <2>2, FlushStep, Zenon
<1>6. CASE PathsLoopFlush
  <2>1. (\E w \in Writes : Flushed(w)) /\ role' = role
    BY <1>6, Zenon DEF PathsLoopFlush, LoopFlush
  <2>2. PathsWrite /\ FlushedAddr(pc' = "send")
    BY <1>6, Zenon DEF PathsLoopFlush
  <2> QED
    BY <1>2, <2>1, <2>2, FlushStep, Zenon
<1>7. CASE PathsFlush
  <2>1. PICK w \in Writes : FlushCall(w) /\ PathsWrite /\ FlushedAddr(w.ok)
    BY <1>7, Zenon DEF PathsFlush
  <2>2. Flushed(w) /\ role' = role
    BY <2>1, Zenon DEF FlushCall
  <2> QED
    BY <1>2, <2>1, <2>2, FlushStep, Zenon
<1>8. CASE PathsSendDatagram
  <2>1. PICK w \in Writes : produced' = produced + w.raised /\ callbacks' = Raised(w.raised)
    BY <1>8, Zenon DEF PathsSendDatagram, SendDatagram
  <2>2. PICK n : n = w.raised
    BY Zenon
  <2>3. n \in Nat /\ produced' = produced + n /\ callbacks' = Raised(n)
    BY <1>3, <2>1, <2>2, WritesOK, Zenon
  <2>4. PathsWrite /\ UNCHANGED <<socket, local_addr>> /\ remote_addr' = remote_addr /\ role' = role
    BY <1>8, Zenon DEF PathsSendDatagram, SendDatagram, addrs
  <2> QED
    BY <1>2, <2>3, <2>4, WriteStep, Zenon
<1>9. CASE PathsSent
  <2>1. produced' = produced + 0 /\ 0 \in Nat /\ callbacks' = <<>> /\ role' = role
    BY <1>3, <1>9 DEF PathsSent, Sent
  <2>2. PICK l : NetBy(l) /\ Labelled(l)
    BY <1>9, WriteLabels, Zenon DEF PathsSent, PathsWrite
  <2> QED
    BY <1>2, <1>9, <2>1, <2>2, DrainStep, Zenon DEF PathsSent
<1>10. CASE PathsReadPacket
  <2>1. PICK r \in Reads : produced' = produced + r.raised
    BY <1>10, Zenon DEF PathsReadPacket, ReadPacket
  <2>2. PICK n : n = r.raised
    BY Zenon
  <2>3. n \in Nat /\ produced' = produced + n
    BY <1>3, <2>1, <2>2, ReadsOK, Zenon
  <2>4. callbacks' = <<>> /\ role' = role /\ Drains /\ PathsRead
    BY <1>10, Zenon DEF PathsReadPacket, ReadPacket
  <2>5. PICK l : NetBy(l) /\ Labelled(l)
    BY <2>4, ReadLabels, Zenon
  <2> QED
    BY <1>2, <2>3, <2>4, <2>5, DrainStep, Zenon
<1>11. CASE PathsTimer
  <2>1. PICK x \in Expiries : produced' = produced + x.raised
    BY <1>11, Zenon DEF PathsTimer, Timer
  <2>2. PICK n : n = x.raised
    BY Zenon
  <2>3. n \in Nat /\ produced' = produced + n
    BY <1>3, <2>1, <2>2, ExpiriesOK, Zenon
  <2>4. callbacks' = <<>> /\ role' = role /\ Drains /\ PathsWrite
    BY <1>11, Zenon DEF PathsTimer, Timer, PathsWrite
  <2>5. PICK l : NetBy(l) /\ Labelled(l)
    BY <2>4, WriteLabels, Zenon
  <2> QED
    BY <1>2, <2>3, <2>4, <2>5, DrainStep, Zenon
<1>12. CASE (RecvEvent \/ LoopReturn \/ ConnectFails \/ SocketError \/ Cancelled) /\ Silent
  BY <1>2, <1>12, SilentStep, Zenon
     DEF RecvEvent, LoopReturn, ConnectFails, SocketError, Cancelled, conn
<1>13. CASE PathsClose \/ PathsCloseSent
  BY <1>2, <1>13, SilentStep, Zenon
     DEF PathsClose, PathsCloseSent, Close, CloseSent, CloseCancelled, conn, Silent
<1>14. CASE Migrate
  BY <1>2, <1>14, MigrateStep, Zenon
<1> QED
  BY <1>4, <1>5, <1>6, <1>7, <1>8, <1>9, <1>10, <1>11, <1>12, <1>13, <1>14, Zenon DEF PathsNext, PathsDrive

\* A connection starts on the path its first packet took.
LEMMA InitPaths ==
    ASSUME PathsInit
    PROVE  PathsInv
<1>1. EventsInv
  BY InitEvents, Zenon DEF PathsInit
<1>2. FirstAddr \in ClientAddrs /\ MaxMoves \in Nat /\ role \in {"client", "handle"}
  BY ConnectionEventsAssumption, ConnectionPathsAssumption, Zenon DEF PathsInit, Init
<1>3. callbacks = <<>> /\ produced = 0 /\ labels = <<>>
  BY Zenon DEF PathsInit, Init
<1>4. labels \in Seq(Labels) /\ Len(labels) = produced /\ Drained
  BY <1>3 DEF Drained
<1>5. CASE role = "client"
  BY <1>1, <1>2, <1>4, <1>5 DEF PathsInit, PathsInv, PathTypes, Mine, Peers, ServerAddrs,
     ClientSendsFromPath, RemoteAddrIsCurrent, None
<1>6. CASE role = "handle"
  BY <1>1, <1>2, <1>4, <1>6 DEF PathsInit, PathsInv, PathTypes, Mine, Peers, ServerAddrs,
     ClientSendsFromPath, RemoteAddrIsCurrent, None
<1> QED
  BY <1>2, <1>5, <1>6, Zenon

\* The inductive invariant holds of a connection with its paths.
THEOREM PathsInductive == PathsSpec => []PathsInv
<1>1. PathsInit => PathsInv
  BY InitPaths, Zenon
<1>2. PathsInv /\ [PathsNext]_pvars => PathsInv'
  BY PathsNextPreserves, Zenon
<1> QED
  BY <1>1, <1>2, PTL DEF PathsSpec

\* A client sends and receives at its one socket whatever migrate, the preferred
\* address and the validation of a path do.
THEOREM ClientAlwaysSendsFromPath == PathsSpec => []ClientSendsFromPath
<1>1. PathsInv => ClientSendsFromPath
  BY Zenon DEF PathsInv
<1> QED
  BY <1>1, PathsInductive, PTL

\* remote_addr is never stale: PathValidated events are drained in the call that
\* raised them, and the client's flush takes over the current path.
THEOREM RemoteAddrAlwaysCurrent == PathsSpec => []RemoteAddrIsCurrent
<1>1. PathsInv => RemoteAddrIsCurrent
  BY Zenon DEF PathsInv
<1> QED
  BY <1>1, PathsInductive, PTL

\* Every state is well formed: what is in the queues is an event that was raised, or
\* the end, and the addresses are those of their side.
THEOREM PathsTypeCorrect == PathsSpec => []PathsTypeOK
<1>1. ASSUME PathsInv
      PROVE  PathsTypeOK
  <2>1. EventTypes /\ EndOK /\ PathTypes
    BY <1>1, Zenon DEF PathsInv, EventsInv
  <2>2. produced \in Nat /\ MaxEvents \in Nat /\ produced <= MaxEvents
        /\ callbacks \in Seq(1..produced) /\ callbacks \in Seq(Nat)
        /\ events \in Seq(Nat) /\ delivered \in Seq(Nat)
    BY <2>1, TypesOfEvents, Zenon
  <2>3. PICK a : a = delivered \o events
    BY Zenon
  <2>4. a \in Seq(Nat) /\ Len(a) = Len(delivered) + Len(events)
        /\ Len(delivered) \in Nat /\ Len(events) \in Nat
        /\ (\A i \in 1..Len(delivered) : a[i] = delivered[i])
        /\ (\A i \in 1..Len(events) : a[Len(delivered) + i] = events[i])
    BY <2>2, <2>3, ConcatElements, Zenon
  <2>5. PICK e : e = a \o callbacks
    BY Zenon
  <2>6. Len(e) = Len(a) + Len(callbacks) /\ Len(callbacks) \in Nat
        /\ (\A i \in 1..Len(a) : e[i] = a[i])
    BY <2>2, <2>4, <2>5, ConcatElements, Zenon
  <2>7. e = FirstEvents(produced) \/ \E p \in 1..(produced + 1) : e = EndAt(produced, p)
    BY <2>1, <2>3, <2>5, Zenon DEF EndOK, EventsInOrder, Everything
  <2>8. Len(e) <= produced + 1 /\ \A i \in 1..Len(e) : e[i] \in 0..MaxEvents
    <3>1. CASE e = FirstEvents(produced)
      <4>1. Len(e) = produced /\ \A i \in 1..produced : e[i] = i
        BY <2>2, <3>1, FirstEventsIsSeq, Zenon
      <4> QED
        BY <2>2, <4>1
    <3>2. ASSUME NEW p \in 1..(produced + 1), e = EndAt(produced, p)
          PROVE  Len(e) <= produced + 1 /\ \A i \in 1..Len(e) : e[i] \in 0..MaxEvents
      <4>1. Len(e) = produced + 1 /\ \A i \in 1..(produced + 1) :
              e[i] = IF i < p THEN i ELSE IF i = p THEN 0 ELSE i - 1
        BY <2>2, <3>2, EndAtIsSeq, Zenon DEF Closed
      <4>2. ASSUME NEW i \in 1..Len(e)
            PROVE  e[i] \in 0..MaxEvents
        <5>1. i \in 1..(produced + 1) /\ (~(i < p) /\ i # p => i - 1 \in 0..produced)
              /\ (i < p => i \in 0..produced)
          BY <2>2, <4>1
        <5>2. e[i] \in 0..produced
          <6>1. CASE i < p
            BY <4>1, <5>1, <6>1, Zenon
          <6>2. CASE i = p
            BY <2>2, <4>1, <5>1, <6>2
          <6>3. CASE ~(i < p) /\ i # p
            BY <4>1, <5>1, <6>3, Zenon
          <6> QED
            BY <6>1, <6>2, <6>3, Zenon
        <5> QED
          BY <2>2, <5>2
      <4> QED
        BY <2>2, <4>1, <4>2
    <3> QED
      BY <2>7, <3>1, <3>2, Zenon
  <2>9. Len(a) <= produced + 1 /\ \A i \in 1..Len(a) : a[i] \in 0..MaxEvents
    <3>1. Len(a) \in Nat /\ Len(e) \in Nat /\ Len(a) <= Len(e)
      BY <2>4, <2>6
    <3>2. ASSUME NEW i \in 1..Len(a)
          PROVE  a[i] \in 0..MaxEvents
      <4>1. i \in 1..Len(e)
        BY <3>1
      <4> QED
        BY <2>6, <2>8, <4>1, Zenon
    <3> QED
      BY <2>2, <2>8, <3>1, <3>2
  <2>10. Len(delivered) <= produced + 1
    BY <2>2, <2>4, <2>9
  <2>11. delivered \in Seq(0..MaxEvents)
    <3>1. \A i \in 1..Len(delivered) : delivered[i] \in 0..MaxEvents
      BY <2>4, <2>9
    <3>2. delivered \in [1..Len(delivered) -> 0..MaxEvents]
      BY <2>2, <3>1
    <3> QED
      BY <2>4, <3>2, FunctionsAreSequences, Zenon
  <2>12. events \in Seq(0..MaxEvents)
    <3>1. \A i \in 1..Len(events) : Len(delivered) + i \in 1..Len(a)
      BY <2>4
    <3>2. \A i \in 1..Len(events) : events[i] \in 0..MaxEvents
      BY <2>4, <2>9, <3>1, Zenon
    <3>3. events \in [1..Len(events) -> 0..MaxEvents]
      BY <2>2, <3>2
    <3> QED
      BY <2>4, <3>3, FunctionsAreSequences, Zenon
  <2>13. callbacks \in Seq(1..MaxEvents)
    <3>1. callbacks \in [1..Len(callbacks) -> 1..produced]
      BY <2>2
    <3>2. callbacks \in [1..Len(callbacks) -> 1..MaxEvents]
      BY <2>2, <3>1
    <3> QED
      BY <2>6, <3>2, FunctionsAreSequences, Zenon
  <2>14. TypeOK
    BY <2>1, <2>10, <2>11, <2>12, <2>13, Zenon DEF TypeOK, EventTypes, EndOK
  <2> QED
    BY <2>1, <2>14, Zenon DEF PathsTypeOK, PathTypes, Mine, Peers, Labels
<1> QED
  BY <1>1, PathsInductive, PTL
=============================================================================
