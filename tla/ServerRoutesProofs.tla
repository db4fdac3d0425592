------------------------- MODULE ServerRoutesProofs -------------------------
(***************************************************************************)
(* The routing of datagrams for any number of clients, addresses, CIDs and *)
(* connections, and for every length of the CIDs and use of Retry.         *)
(*                                                                         *)
(* What is promised of the tables (NoDanglingRoutes,                       *)
(* RoutesFollowActiveCids) is not inductive: that a route belongs to the   *)
(* connection it leads to, that nothing is left to poll before the         *)
(* hand-over and that a flush belongs to a handle has to be known too.     *)
(***************************************************************************)
EXTENDS ServerRoutes, FiniteSetTheorems, TLAPS

-----------------------------------------------------------------------------
(* The inductive invariant.                                                *)

\* What the bounds say of a set of taken CIDs.
TakenOK(t) == t \subseteq AllCids /\ IsFiniteSet(t) /\ Cardinality(t) <= MaxTaken

\* The connections the server holds.
AtServer == {k \in Keys : owner[k] = "server"}

\* The types, and that the sets whose sizes are limited are finite.
Types ==
    /\ owner \in [Keys -> {"none", "server", "handle", "gone"}]
    /\ status \in [Keys -> Statuses]
    /\ count \in [Keys -> 0..MaxIssued]
    /\ active \in [Keys -> SUBSET (0..MaxIssued)]
    /\ issued \in [Keys -> SUBSET (0..MaxIssued)]
    /\ retired \in [Keys -> SUBSET (0..MaxIssued)]
    /\ cid_map \in [AllCids -> Keys \cup {NoKey}]
    /\ addr_map \in [Addrs -> Keys \cup {NoKey}]
    /\ shared_cid_map \in [AllCids -> Keys \cup {NoKey}]
    /\ shared_addr_map \in [Addrs -> Keys \cup {NoKey}]
    /\ TakenOK(taken_cids) /\ TakenOK(shared_taken_cids)
    /\ at \in {"top", "select", "timers"}
    /\ senders \subseteq Keys
    /\ queued \in [Keys -> 0..MaxQueued]
    /\ flushing \in [Keys -> {"no", "sending", "sent"}]
    /\ known \subseteq AllCids
    /\ IsFiniteSet(AtServer) /\ Cardinality(AtServer) <= MaxConnections

\* A route leads to the connection whose CID, or address, it is for.
RoutesBelong ==
    /\ \A k \in Keys, i \in 0..MaxIssued :
        cid_map[Cid(k, i)] \in {k, NoKey} /\ shared_cid_map[Cid(k, i)] \in {k, NoKey}
    /\ \A c \in Clients, k \in Keys : cid_map[OriginalDcid(c)] = k => k[1] = c
    /\ \A a \in Addrs, k \in Keys :
        addr_map[a] = k \/ shared_addr_map[a] = k => ZeroLength(k) /\ AddrOf[k[1]] = a

\* Only CIDs that were issued are in use; what is to be polled belongs to a handle.
Bookkeeping ==
    \A k \in Keys :
        /\ \A i \in active[k] \cup issued[k] \cup retired[k] : i <= count[k]
        /\ owner[k] \in {"none", "server"} => issued[k] = {} /\ retired[k] = {}
        /\ flushing[k] # "no" => owner[k] = "handle"

\* Of a connection that does not exist yet a client can only know the CID of a
\* Retry, and that one it knows if the connection exists.
FirstKnown ==
    \A k \in Keys :
        /\ owner[k] = "none" => \A i \in 0..MaxIssued : Cid(k, i) \in known => i = 0 /\ k[2] = "r"
        /\ owner[k] # "none" /\ k[2] = "r" => Cid(k, 0) \in known

\* A CID that is retired and not yet polled is still routed, or waits to be registered.
RetiredRouted ==
    \A k \in Keys, i \in 0..MaxIssued :
        owner[k] = "handle" /\ i \in retired[k] =>
            shared_cid_map[Cid(k, i)] = k \/ i \in issued[k]

\* A CID that was retired is remembered until MaxTaken others may have replaced it.
RetiredRemembered ==
    \A k \in Keys, i \in 0..MaxIssued :
        Cid(k, i) \in known /\ i \notin active[k] =>
            /\ owner[k] = "server" => Cid(k, i) \in taken_cids \/ Cardinality(taken_cids) = MaxTaken
            /\ owner[k] = "handle" =>
                \/ i \in retired[k]
                \/ Cid(k, i) \in taken_cids \cup shared_taken_cids
                \/ MaxTaken \in {Cardinality(taken_cids), Cardinality(shared_taken_cids)}

IndInv ==
    /\ Types /\ NoDanglingRoutes /\ RoutesBelong /\ RoutesFollowActiveCids
    /\ Bookkeeping /\ FirstKnown /\ RetiredRouted /\ RetiredRemembered

-----------------------------------------------------------------------------
(* Counts.                                                                 *)

\* An index above what was issued so far is none of those that were issued.
LEMMA NotBoth == \A i, c \in Nat : ~(i > c /\ i <= c)
BY SMT

\* What was issued before is within what is issued now.
LEMMA AtMost == \A i, c, e \in Nat : i <= c /\ c <= e => i <= e
BY SMT

\* The indices of CIDs are natural numbers.
LEMMA Indices == \A i \in 0..MaxIssued : i \in Nat
BY SMT

-----------------------------------------------------------------------------
(* Names of connections and connection IDs.                                *)

\* A key is a client and a kind, and none of the names of no connection.
LEMMA KeyFacts ==
    /\ Kinds \subseteq {"s", "r"}
    /\ \A k \in Keys : k = <<k[1], k[2]>> /\ k[1] \in Clients /\ k[2] \in Kinds
    /\ NoKey \notin Keys /\ Reset \notin Keys /\ ServerTask \notin Keys
    /\ \A c \in Clients, t \in Kinds : <<c, t>> \in Keys
<1>1. Kinds \subseteq {"s", "r"}
  BY Zenon DEF Kinds
<1>2. \A k \in Keys : k = <<k[1], k[2]>> /\ k[1] \in Clients /\ k[2] \in Kinds
  BY DEF Keys
<1>3. \A c \in Clients, t \in Kinds : <<c, t>> \in Keys
  BY Zenon DEF Keys
<1>4. \A t : <<t, t>> \in Keys => t \in {"s", "r"}
  BY <1>1, Zenon DEF Keys
<1> QED
  BY <1>1, <1>2, <1>3, <1>4, Zenon DEF NoKey, Reset, ServerTask

\* A CID says whose it is: different connections, and different indices, have
\* different CIDs, and none of them is a client's first one or empty.
LEMMA CidFacts ==
    /\ \A k, l \in Keys : \A i, j : Cid(k, i) = Cid(l, j) <=> k = l /\ i = j
    /\ \A k \in Keys : \A i : Cid(k, i)[1] = k[1] /\ Cid(k, i)[2] = k[2] /\ Cid(k, i)[3] = i
    /\ \A k \in Keys, c \in Clients : \A i : Cid(k, i) # OriginalDcid(c)
    /\ \A k \in Keys : \A i : Cid(k, i) # NoCid
    /\ \A c : OriginalDcid(c) # NoCid
    /\ \A c, e : OriginalDcid(c) = OriginalDcid(e) <=> c = e
    /\ \A k \in Keys : \A i \in 0..MaxIssued : Cid(k, i) \in AllCids
    /\ \A c \in Clients : OriginalDcid(c) \in AllCids
    /\ \A d \in AllCids : \/ \E c \in Clients : d = OriginalDcid(c)
                         \/ \E k \in Keys, i \in 0..MaxIssued : d = Cid(k, i)
    /\ NoCid \notin AllCids
<1> USE KeyFacts
<1>1. \A k, l \in Keys : \A i, j : Cid(k, i) = Cid(l, j) <=> k = l /\ i = j
  BY Zenon DEF Cid
<1>2. \A k \in Keys : \A i : Cid(k, i)[1] = k[1] /\ Cid(k, i)[2] = k[2] /\ Cid(k, i)[3] = i
  BY Zenon DEF Cid
<1>3. \A k \in Keys, c \in Clients : \A i : Cid(k, i) # OriginalDcid(c)
  BY Zenon DEF Cid, OriginalDcid
<1>4. \A k \in Keys : \A i : Cid(k, i) # NoCid
  BY Zenon DEF Cid, NoCid
<1>5. \A c : OriginalDcid(c) # NoCid
  BY Zenon DEF OriginalDcid, NoCid
<1>6. \A c, e : OriginalDcid(c) = OriginalDcid(e) <=> c = e
  BY Zenon DEF OriginalDcid
<1>7. \A k \in Keys : \A i \in 0..MaxIssued : Cid(k, i) \in AllCids
  BY DEF AllCids, Cids
<1>8. \A c \in Clients : OriginalDcid(c) \in AllCids
  BY Zenon DEF AllCids
<1>9. \A d \in AllCids : \/ \E c \in Clients : d = OriginalDcid(c)
                         \/ \E k \in Keys, i \in 0..MaxIssued : d = Cid(k, i)
  BY DEF AllCids, Cids
<1>10. NoCid \notin AllCids
  BY <1>4, <1>5, <1>9, Zenon
<1> QED
  BY <1>1, <1>2, <1>3, <1>4, <1>5, <1>6, <1>7, <1>8, <1>9, <1>10, Zenon

\* The CIDs of k with indices in I.
LEMMA CidsFacts ==
    ASSUME NEW k \in Keys, NEW I
    PROVE  /\ \A l \in Keys : \A i : Cid(l, i) \in Cids(k, I) <=> l = k /\ i \in I
           /\ \A c \in Clients : OriginalDcid(c) \notin Cids(k, I)
           /\ I \subseteq 0..MaxIssued => Cids(k, I) \subseteq AllCids
BY CidFacts DEF Cids

-----------------------------------------------------------------------------
(* Tables.                                                                 *)

\* What register_issued_cids and retire_cids do to the entry of one CID: only the
\* CIDs of k change, and only to k or to no entry.
LEMMA TableFacts ==
    ASSUME NEW map \in [AllCids -> Keys \cup {NoKey}], NEW k \in Keys,
           NEW I \in SUBSET (0..MaxIssued), NEW R \in SUBSET (0..MaxIssued),
           NEW new, new = Unregistered(Registered(map, k, I), k, R),
           \A i \in 0..MaxIssued : map[Cid(k, i)] \in {k, NoKey}
    PROVE  /\ new \in [AllCids -> Keys \cup {NoKey}]
           /\ \A l \in Keys, i \in 0..MaxIssued :
                new[Cid(l, i)] = IF l # k THEN map[Cid(l, i)]
                                 ELSE IF i \in R THEN NoKey
                                 ELSE IF i \in I THEN k ELSE map[Cid(k, i)]
           /\ \A c \in Clients : new[OriginalDcid(c)] = map[OriginalDcid(c)]
           /\ \A d \in AllCids : new[d] \in {map[d], k, NoKey}
<1> DEFINE reg == Registered(map, k, I)
<1>1. reg = [d \in AllCids |-> IF d \in Cids(k, I) THEN k ELSE map[d]]
  BY Zenon DEF Registered
<1> HIDE DEF reg
<1>2. new = [d \in AllCids |-> IF d \in Cids(k, R) /\ reg[d] = k THEN NoKey ELSE reg[d]]
  BY <1>1, Zenon DEF Unregistered, reg
<1>3. reg \in [AllCids -> Keys \cup {NoKey}]
  BY <1>1, Zenon
<1>4. new \in [AllCids -> Keys \cup {NoKey}]
  BY <1>2, <1>3, Zenon
<1>5. \A l \in Keys, i \in 0..MaxIssued :
        reg[Cid(l, i)] = IF l = k /\ i \in I THEN k ELSE map[Cid(l, i)]
  BY <1>1, CidFacts, CidsFacts, Zenon
<1>6. \A l \in Keys, i \in 0..MaxIssued :
        new[Cid(l, i)] = IF l = k /\ i \in R /\ reg[Cid(l, i)] = k THEN NoKey ELSE reg[Cid(l, i)]
  BY <1>2, CidFacts, CidsFacts
<1>7. \A l \in Keys, i \in 0..MaxIssued :
        new[Cid(l, i)] = IF l # k THEN map[Cid(l, i)]
                         ELSE IF i \in R THEN NoKey
                         ELSE IF i \in I THEN k ELSE map[Cid(k, i)]
  BY <1>5, <1>6
<1>8. \A c \in Clients : reg[OriginalDcid(c)] = map[OriginalDcid(c)]
  BY <1>1, CidFacts, CidsFacts, Zenon
<1>9. \A c \in Clients : new[OriginalDcid(c)] = map[OriginalDcid(c)]
  BY <1>2, <1>8, CidFacts, CidsFacts
<1>10. \A d \in AllCids : new[d] \in {map[d], k, NoKey}
  BY <1>1, <1>2, Zenon
<1> QED
  BY <1>4, <1>7, <1>9, <1>10, Zenon

\* What becomes of the routes of all connections when k registers I and removes R.
Synced(new, map, k, I, R) ==
    /\ new \in [AllCids -> Keys \cup {NoKey}]
    /\ \A l \in Keys, i \in 0..MaxIssued :
         new[Cid(l, i)] = IF l # k THEN map[Cid(l, i)]
                          ELSE IF i \in R THEN NoKey
                          ELSE IF i \in I THEN k ELSE map[Cid(k, i)]
    /\ \A d \in AllCids : new[d] \in {map[d], k, NoKey}

\* The table that sync_routes leaves.
LEMMA SyncedFacts ==
    ASSUME NEW map \in [AllCids -> Keys \cup {NoKey}], NEW k \in Keys,
           NEW I \in SUBSET (0..MaxIssued), NEW R \in SUBSET (0..MaxIssued),
           NEW new, new = Unregistered(Registered(map, k, I), k, R),
           \A i \in 0..MaxIssued : map[Cid(k, i)] \in {k, NoKey}
    PROVE  Synced(new, map, k, I, R)
BY TableFacts DEF Synced

\* A table without the entries of one connection, or of several.
LEMMA WithoutFacts ==
    ASSUME NEW S, NEW map \in [S -> Keys \cup {NoKey}], NEW k, NEW K
    PROVE  /\ Without(map, k) \in [S -> Keys \cup {NoKey}]
           /\ \A x \in S : Without(map, k)[x] = IF map[x] = k THEN NoKey ELSE map[x]
           /\ WithoutAll(map, K) \in [S -> Keys \cup {NoKey}]
           /\ \A x \in S : WithoutAll(map, K)[x] = IF map[x] \in K THEN NoKey ELSE map[x]
BY Zenon DEF Without, WithoutAll

\* The sizes of a set that is empty or has one element.
LEMMA SmallSets ==
    /\ IsFiniteSet({}) /\ Cardinality({}) = 0
    /\ \A x : IsFiniteSet({x}) /\ Cardinality({x}) = 1
BY FS_EmptySet, FS_Singleton, Zenon

\* remember_taken_cid keeps within MaxTaken, and what it is given is in the set
\* unless the set is full; a full set stays full.
LEMMA RememberedFacts ==
    ASSUME NEW t, TakenOK(t), NEW D, D \subseteq AllCids, IsFiniteSet(D),
           NEW new \in Remembered(t, D)
    PROVE  /\ TakenOK(new)
           /\ t \cup D \subseteq new \/ Cardinality(new) = MaxTaken
           /\ Cardinality(t) = MaxTaken => Cardinality(new) = MaxTaken
<1>1. IsFiniteSet(t \cup D) /\ Cardinality(t \cup D) \in Nat
  BY FS_Union, FS_CardinalityType, Zenon DEF TakenOK
<1>2. t \in SUBSET (t \cup D) /\ Cardinality(t) <= Cardinality(t \cup D) /\ Cardinality(t) \in Nat
  BY <1>1, FS_Subset, FS_CardinalityType, Zenon DEF TakenOK
<1>3. CASE Cardinality(t \cup D) <= MaxTaken
  <2>1. new = t \cup D
    BY <1>3, Zenon DEF Remembered
  <2> QED
    BY <1>1, <1>2, <1>3, <2>1, ServerRoutesAssumption DEF TakenOK
<1>4. CASE ~(Cardinality(t \cup D) <= MaxTaken)
  <2>1. new \in SUBSET (t \cup D) /\ Cardinality(new) = MaxTaken
    BY <1>4, Zenon DEF Remembered
  <2>2. IsFiniteSet(new)
    BY <1>1, <2>1, FS_Subset, Zenon
  <2> QED
    BY <2>1, <2>2, ServerRoutesAssumption DEF TakenOK
<1> QED
  BY <1>3, <1>4, Zenon

\* The CIDs of k are finitely many.
LEMMA CidsFinite ==
    ASSUME NEW k \in Keys, NEW I \in SUBSET (0..MaxIssued)
    PROVE  IsFiniteSet(Cids(k, I))
<1>1. IsFiniteSet(I)
  <2>1. IsFiniteSet(0..MaxIssued)
    BY FS_Interval, ServerRoutesAssumption
  <2> QED
    BY <2>1, FS_Subset, Zenon
<1> DEFINE f == [i \in I |-> Cid(k, i)]
<1>2. f \in Surjection(I, Cids(k, I))
  BY Zenon DEF Surjection, Cids
<1> QED
  BY <1>1, <1>2, FS_Surjection, Zenon

-----------------------------------------------------------------------------
(* A call of ngtcp2.                                                       *)

\* What a call of ngtcp2 on k may do to its CIDs: those issued are new, those
\* retired were active.
LEMMA ProgressFacts ==
    ASSUME Types, Bookkeeping, NEW k \in Keys, NEW s \in Statuses,
           NEW N \in New(k), NEW R \in Gone(k), Progress(k, s, N, R)
    PROVE  /\ N \in SUBSET (0..MaxIssued) /\ R \in SUBSET (0..MaxIssued) /\ R \subseteq active[k]
           /\ status' \in [Keys -> Statuses]
           /\ count' \in [Keys -> 0..MaxIssued] /\ active' \in [Keys -> SUBSET (0..MaxIssued)]
           /\ \A l \in Keys \ {k} : active'[l] = active[l] /\ count'[l] = count[l]
           /\ active'[k] = (active[k] \cup N) \ R
           /\ count[k] <= count'[k]
           /\ \A i \in N : i > count[k] /\ i <= count'[k]
<1>1. R \subseteq active[k] /\ R \in SUBSET (0..MaxIssued)
  BY DEF Gone, Types
<1>2. /\ status' = [status EXCEPT ![k] = s]
      /\ count' = [count EXCEPT ![k] = @ + Cardinality(N)]
      /\ active' = [active EXCEPT ![k] = (@ \cup N) \ R]
      /\ N = {} \/ (N = {count[k] + 1} /\ count[k] < MaxIssued)
  BY Zenon DEF Progress
<1>3. count \in [Keys -> 0..MaxIssued] /\ count[k] \in 0..MaxIssued
  BY Zenon DEF Types
<1>4. N \in SUBSET (0..MaxIssued) /\ count' \in [Keys -> 0..MaxIssued]
      /\ (\A l \in Keys \ {k} : count'[l] = count[l])
      /\ count[k] <= count'[k] /\ (\A i \in N : i > count[k] /\ i <= count'[k])
  <2>1. CASE N = {}
    <3>1. Cardinality(N) = 0
      BY <2>1, SmallSets, Zenon
    <3>2. count' = count
      BY <1>2, <1>3, <3>1
    <3> QED
      BY <1>3, <2>1, <3>2
  <2>2. CASE N = {count[k] + 1} /\ count[k] < MaxIssued
    <3>1. Cardinality(N) = 1
      BY <2>2, SmallSets, Zenon
    <3>2. count' = [count EXCEPT ![k] = count[k] + 1]
      BY <1>2, <1>3, <3>1, Zenon
    <3>3. count[k] + 1 \in 0..MaxIssued
      BY <1>3, <2>2, ServerRoutesAssumption
    <3> QED
      BY <1>3, <2>2, <3>2, <3>3
  <2> QED
    BY <1>2, <2>1, <2>2, Zenon
<1>5. /\ active' \in [Keys -> SUBSET (0..MaxIssued)]
      /\ \A l \in Keys \ {k} : active'[l] = active[l]
      /\ active'[k] = (active[k] \cup N) \ R
  BY <1>1, <1>2, <1>4, Zenon DEF Types
<1>6. status' \in [Keys -> Statuses]
  BY <1>2, Zenon DEF Types
<1> QED
  BY <1>1, <1>4, <1>5, <1>6, Zenon

-----------------------------------------------------------------------------
(* The steps keep the invariant.                                           *)

\* read_pkt, handle_expiry and what follows, on a connection the server holds.
LEMMA ServerStepInv ==
    ASSUME IndInv, NEW k \in Keys, owner[k] = "server", NEW remove \in BOOLEAN,
           ServerConnectionStep(k, remove), at' \in {"top", "select", "timers"},
           known' = known \/ known' = known \cup Cids(k, active'[k])
    PROVE  IndInv'
<1>0. /\ Types /\ NoDanglingRoutes /\ RoutesBelong /\ RoutesFollowActiveCids
      /\ Bookkeeping /\ FirstKnown /\ RetiredRouted /\ RetiredRemembered
  BY Zenon DEF IndInv
<1>1. PICK s \in Statuses, N \in New(k), R \in Gone(k) :
        /\ Progress(k, s, N, R)
        /\ owner' = [owner EXCEPT ![k] = IF remove THEN "gone" ELSE "server"]
        /\ LET routed == Unregistered(Registered(cid_map, k, N), k, R)
           IN  cid_map' = IF remove THEN Without(routed, k) ELSE routed
        /\ addr_map' = IF remove THEN Without(addr_map, k) ELSE addr_map
        /\ taken_cids' \in Remembered(taken_cids, Cids(k, R))
        /\ UNCHANGED <<issued, retired, shared, flushing>>
  BY Zenon DEF ServerConnectionStep
<1>2. UNCHANGED <<issued, retired, flushing, shared_cid_map, shared_addr_map, senders,
                  shared_taken_cids, queued>>
  BY <1>1, Zenon DEF shared
<1>3. /\ N \in SUBSET (0..MaxIssued) /\ R \in SUBSET (0..MaxIssued) /\ R \subseteq active[k]
      /\ status' \in [Keys -> Statuses]
      /\ count' \in [Keys -> 0..MaxIssued] /\ active' \in [Keys -> SUBSET (0..MaxIssued)]
      /\ \A l \in Keys \ {k} : active'[l] = active[l] /\ count'[l] = count[l]
      /\ active'[k] = (active[k] \cup N) \ R
      /\ count[k] <= count'[k]
      /\ \A i \in N : i > count[k] /\ i <= count'[k]
  BY <1>0, <1>1, ProgressFacts, Zenon
<1> DEFINE routed == Unregistered(Registered(cid_map, k, N), k, R)
<1>4. /\ routed \in [AllCids -> Keys \cup {NoKey}]
      /\ \A l \in Keys, i \in 0..MaxIssued :
           routed[Cid(l, i)] = IF l # k THEN cid_map[Cid(l, i)]
                               ELSE IF i \in R THEN NoKey
                               ELSE IF i \in N THEN k ELSE cid_map[Cid(k, i)]
      /\ \A c \in Clients : routed[OriginalDcid(c)] = cid_map[OriginalDcid(c)]
      /\ \A d \in AllCids : routed[d] \in {cid_map[d], k, NoKey}
  <2>1. cid_map \in [AllCids -> Keys \cup {NoKey}]
    BY <1>0, Zenon DEF Types
  <2>2. \A i \in 0..MaxIssued : cid_map[Cid(k, i)] \in {k, NoKey}
    BY <1>0, Zenon DEF RoutesBelong
  <2> QED
    BY <1>3, <2>1, <2>2, TableFacts
<1>5. cid_map' = IF remove THEN Without(routed, k) ELSE routed
  BY <1>1, Zenon
<1> HIDE DEF routed
<1>6. /\ cid_map' \in [AllCids -> Keys \cup {NoKey}]
      /\ \A d \in AllCids : cid_map'[d] = IF remove /\ routed[d] = k THEN NoKey ELSE routed[d]
  BY <1>4, <1>5, WithoutFacts
<1>7. /\ addr_map' \in [Addrs -> Keys \cup {NoKey}]
      /\ \A a \in Addrs : addr_map'[a] = IF remove /\ addr_map[a] = k THEN NoKey ELSE addr_map[a]
  <2>1. addr_map \in [Addrs -> Keys \cup {NoKey}]
    BY <1>0, Zenon DEF Types
  <2> QED
    BY <1>1, <2>1, WithoutFacts
<1>8. /\ TakenOK(taken_cids')
      /\ taken_cids \cup Cids(k, R) \subseteq taken_cids' \/ Cardinality(taken_cids') = MaxTaken
      /\ Cardinality(taken_cids) = MaxTaken => Cardinality(taken_cids') = MaxTaken
  <2>1. TakenOK(taken_cids) /\ Cids(k, R) \subseteq AllCids /\ IsFiniteSet(Cids(k, R))
    BY <1>0, <1>3, CidsFacts, CidsFinite, Zenon DEF Types
  <2> QED
    BY <1>1, <2>1, RememberedFacts, Zenon
<1>9. /\ owner' \in [Keys -> {"none", "server", "handle", "gone"}]
      /\ owner'[k] = IF remove THEN "gone" ELSE "server"
      /\ \A l \in Keys \ {k} : owner'[l] = owner[l]
  BY <1>0, <1>1, Zenon DEF Types
<1>10. /\ known' \subseteq AllCids /\ known \subseteq known'
       /\ \A l \in Keys, i \in 0..MaxIssued :
            Cid(l, i) \in known' => Cid(l, i) \in known \/ (l = k /\ i \in active'[k])
  <2>1. known \subseteq AllCids /\ active'[k] \subseteq 0..MaxIssued
    BY <1>0, <1>3, Zenon DEF Types
  <2> QED
    BY <2>1, CidsFacts
<1>11. AtServer' \subseteq AtServer
  BY <1>9, Zenon DEF AtServer
<1>12. Types'
  <2>1. IsFiniteSet(AtServer') /\ Cardinality(AtServer') <= MaxConnections
    <3>1. IsFiniteSet(AtServer) /\ Cardinality(AtServer) <= MaxConnections
      BY <1>0, Zenon DEF Types
    <3>2. /\ IsFiniteSet(AtServer') /\ Cardinality(AtServer') <= Cardinality(AtServer)
          /\ Cardinality(AtServer') \in Nat /\ Cardinality(AtServer) \in Nat
      BY <1>11, <3>1, FS_Subset, FS_CardinalityType, Zenon
    <3> QED
      BY <3>1, <3>2, ServerRoutesAssumption
  <2> QED
    BY <1>0, <1>2, <1>3, <1>6, <1>7, <1>8, <1>9, <1>10, <2>1, Zenon DEF Types, TakenOK
<1>13. NoDanglingRoutes'
  BY <1>0, <1>2, <1>4, <1>6, <1>7, <1>9 DEF NoDanglingRoutes, Types
<1>14. RoutesBelong'
  BY <1>0, <1>2, <1>4, <1>6, <1>7, CidFacts, KeyFacts DEF RoutesBelong, ZeroLength
<1>15. RoutesFollowActiveCids'
  <2> SUFFICES ASSUME NEW l \in Keys, NEW i \in 0..MaxIssued
               PROVE  /\ owner'[l] = "server" => (cid_map'[Cid(l, i)] = l <=> i \in active'[l])
                      /\ owner'[l] = "handle" =>
                           (i \in active'[l] <=>
                             (shared_cid_map'[Cid(l, i)] = l \/ i \in issued'[l]) /\ i \notin retired'[l])
    BY Zenon DEF RoutesFollowActiveCids
  <2>1. Cid(l, i) \in AllCids /\ l # NoKey
    BY CidFacts, KeyFacts
  <2>2. CASE l = k
    <3>1. owner[l] = "server" => (cid_map[Cid(l, i)] = l <=> i \in active[l])
      BY <1>0, Zenon DEF RoutesFollowActiveCids
    <3> QED
      BY <1>3, <1>4, <1>6, <1>9, <2>1, <2>2, <3>1
  <2>3. CASE l # k
    <3>1. /\ owner[l] = "server" => (cid_map[Cid(l, i)] = l <=> i \in active[l])
          /\ owner[l] = "handle" =>
               (i \in active[l] <=>
                 (shared_cid_map[Cid(l, i)] = l \/ i \in issued[l]) /\ i \notin retired[l])
      BY <1>0, Zenon DEF RoutesFollowActiveCids
    <3>2. cid_map'[Cid(l, i)] = cid_map[Cid(l, i)]
      BY <1>0, <1>4, <1>6, <2>1, <2>3 DEF RoutesBelong
    <3> QED
      BY <1>2, <1>3, <1>9, <2>3, <3>1, <3>2, Zenon
  <2> QED
    BY <2>2, <2>3, Zenon
<1>16. Bookkeeping'
  BY <1>0, <1>2, <1>3, <1>9 DEF Bookkeeping, Types
<1>17. FirstKnown'
  BY <1>0, <1>9, <1>10, Zenon DEF FirstKnown
<1>18. RetiredRouted'
  BY <1>0, <1>2, <1>9, Zenon DEF RetiredRouted
<1>19. RetiredRemembered'
  BY <1>0, <1>2, <1>3, <1>8, <1>9, <1>10, CidsFacts DEF RetiredRemembered
<1> QED
  BY <1>12, <1>13, <1>14, <1>15, <1>16, <1>17, <1>18, <1>19, Zenon DEF IndInv

\* remove_closed_connections and take_connection together: K is the connection that
\* is handed over, or empty.
LEMMA HandOverInv ==
    ASSUME IndInv, NEW K \in SUBSET Completed, at' \in {"top", "select", "timers"},
           owner' = [x \in Keys |-> IF x \in K THEN "handle"
                                    ELSE IF x \in Closed THEN "gone" ELSE owner[x]],
           shared_cid_map' = [d \in AllCids |-> IF cid_map[d] \in K THEN cid_map[d]
                                                ELSE shared_cid_map[d]],
           shared_addr_map' = [a \in Addrs |-> IF addr_map[a] \in K THEN addr_map[a]
                                               ELSE shared_addr_map[a]],
           senders' = senders \cup K,
           cid_map' = WithoutAll(cid_map, Closed \cup K),
           addr_map' = WithoutAll(addr_map, Closed \cup K),
           TakenOK(taken_cids'),
           taken_cids \subseteq taken_cids' \/ Cardinality(taken_cids') = MaxTaken,
           Cardinality(taken_cids) = MaxTaken => Cardinality(taken_cids') = MaxTaken,
           UNCHANGED <<status, count, active, issued, retired, shared_taken_cids, queued,
                       flushing, known>>
    PROVE  IndInv'
<1>0. /\ Types /\ NoDanglingRoutes /\ RoutesBelong /\ RoutesFollowActiveCids
      /\ Bookkeeping /\ FirstKnown /\ RetiredRouted /\ RetiredRemembered
  BY Zenon DEF IndInv
<1>1. /\ cid_map \in [AllCids -> Keys \cup {NoKey}] /\ addr_map \in [Addrs -> Keys \cup {NoKey}]
      /\ shared_cid_map \in [AllCids -> Keys \cup {NoKey}]
      /\ shared_addr_map \in [Addrs -> Keys \cup {NoKey}]
      /\ owner \in [Keys -> {"none", "server", "handle", "gone"}]
  BY <1>0, Zenon DEF Types
<1>2. /\ K \subseteq Keys /\ Closed \subseteq Keys /\ NoKey \notin K
      /\ \A x \in K \cup Closed : owner[x] = "server"
  BY KeyFacts, Zenon DEF Completed, Closed
<1>3. /\ owner' \in [Keys -> {"none", "server", "handle", "gone"}]
      /\ \A x \in Keys : /\ x \in K => owner'[x] = "handle"
                         /\ x \in Closed \ K => owner'[x] = "gone"
                         /\ x \notin Closed \cup K => owner'[x] = owner[x]
  BY <1>1, <1>2, Zenon
<1>4. /\ cid_map' \in [AllCids -> Keys \cup {NoKey}]
      /\ \A d \in AllCids : cid_map'[d] = IF cid_map[d] \in Closed \cup K THEN NoKey ELSE cid_map[d]
      /\ addr_map' \in [Addrs -> Keys \cup {NoKey}]
      /\ \A a \in Addrs : addr_map'[a] = IF addr_map[a] \in Closed \cup K THEN NoKey ELSE addr_map[a]
  BY <1>1, WithoutFacts
<1>5. /\ shared_cid_map' \in [AllCids -> Keys \cup {NoKey}]
      /\ \A d \in AllCids : shared_cid_map'[d] = IF cid_map[d] \in K THEN cid_map[d] ELSE shared_cid_map[d]
      /\ shared_addr_map' \in [Addrs -> Keys \cup {NoKey}]
      /\ \A a \in Addrs : shared_addr_map'[a] = IF addr_map[a] \in K THEN addr_map[a] ELSE shared_addr_map[a]
  BY <1>1, Zenon
<1>6. Types'
  <2>1. IsFiniteSet(AtServer') /\ Cardinality(AtServer') <= MaxConnections
    <3>1. IsFiniteSet(AtServer) /\ Cardinality(AtServer) <= MaxConnections
      BY <1>0, Zenon DEF Types
    <3>2. AtServer' \subseteq AtServer
      BY <1>3, Zenon DEF AtServer
    <3>3. /\ IsFiniteSet(AtServer') /\ Cardinality(AtServer') <= Cardinality(AtServer)
          /\ Cardinality(AtServer') \in Nat /\ Cardinality(AtServer) \in Nat
      BY <3>1, <3>2, FS_Subset, FS_CardinalityType, Zenon
    <3> QED
      BY <3>1, <3>3, ServerRoutesAssumption
  <2>2. senders' \subseteq Keys
    BY <1>0, <1>2, Zenon DEF Types
  <2> QED
    BY <1>0, <1>3, <1>4, <1>5, <2>1, <2>2, Zenon DEF Types, TakenOK
<1>7. NoDanglingRoutes'
  <2>1. \A x \in Keys : owner[x] = "server" /\ x \notin Closed \cup K => owner'[x] = "server"
    BY <1>3, Zenon
  <2>2. ASSUME NEW d \in AllCids
        PROVE  /\ cid_map'[d] # NoKey => owner'[cid_map'[d]] = "server"
               /\ shared_cid_map'[d] # NoKey => shared_cid_map'[d] \in senders'
    <3>1. /\ cid_map[d] # NoKey => owner[cid_map[d]] = "server"
          /\ shared_cid_map[d] # NoKey => shared_cid_map[d] \in senders
      BY <1>0, Zenon DEF NoDanglingRoutes
    <3>2. ASSUME cid_map'[d] # NoKey PROVE owner'[cid_map'[d]] = "server"
      <4>1. cid_map[d] \notin Closed \cup K /\ cid_map'[d] = cid_map[d] /\ cid_map[d] \in Keys
        BY <1>1, <1>4, <3>2, Zenon
      <4> QED
        BY <2>1, <3>1, <3>2, <4>1, Zenon
    <3>3. shared_cid_map'[d] # NoKey => shared_cid_map'[d] \in senders'
      BY <1>5, <3>1, Zenon
    <3> QED
      BY <3>2, <3>3, Zenon
  <2>3. ASSUME NEW a \in Addrs
        PROVE  /\ addr_map'[a] # NoKey => owner'[addr_map'[a]] = "server"
               /\ shared_addr_map'[a] # NoKey => shared_addr_map'[a] \in senders'
    <3>1. /\ addr_map[a] # NoKey => owner[addr_map[a]] = "server"
          /\ shared_addr_map[a] # NoKey => shared_addr_map[a] \in senders
      BY <1>0, Zenon DEF NoDanglingRoutes
    <3>2. ASSUME addr_map'[a] # NoKey PROVE owner'[addr_map'[a]] = "server"
      <4>1. addr_map[a] \notin Closed \cup K /\ addr_map'[a] = addr_map[a] /\ addr_map[a] \in Keys
        BY <1>1, <1>4, <3>2, Zenon
      <4> QED
        BY <2>1, <3>1, <3>2, <4>1, Zenon
    <3>3. shared_addr_map'[a] # NoKey => shared_addr_map'[a] \in senders'
      BY <1>5, <3>1, Zenon
    <3> QED
      BY <3>2, <3>3, Zenon
  <2>4. ASSUME NEW l \in Keys PROVE owner'[l] = "handle" <=> l \in senders'
    BY <1>0, <1>2, <1>3, Zenon DEF NoDanglingRoutes
  <2> QED
    BY <2>2, <2>3, <2>4, Zenon DEF NoDanglingRoutes
<1>8. RoutesBelong'
  <2>1. ASSUME NEW l \in Keys, NEW i \in 0..MaxIssued
        PROVE  cid_map'[Cid(l, i)] \in {l, NoKey} /\ shared_cid_map'[Cid(l, i)] \in {l, NoKey}
    <3>1. cid_map[Cid(l, i)] \in {l, NoKey} /\ shared_cid_map[Cid(l, i)] \in {l, NoKey}
      BY <1>0, Zenon DEF RoutesBelong
    <3> QED
      BY <1>4, <1>5, <3>1, CidFacts, Zenon
  <2>2. ASSUME NEW c \in Clients, NEW l \in Keys, cid_map'[OriginalDcid(c)] = l PROVE l[1] = c
    <3>1. cid_map[OriginalDcid(c)] = l
      BY <1>4, <2>2, CidFacts, KeyFacts, Zenon
    <3> QED
      BY <1>0, <3>1, Zenon DEF RoutesBelong
  <2>3. ASSUME NEW a \in Addrs, NEW l \in Keys, addr_map'[a] = l \/ shared_addr_map'[a] = l
        PROVE  ZeroLength(l) /\ AddrOf[l[1]] = a
    <3>1. addr_map[a] = l \/ shared_addr_map[a] = l
      BY <1>4, <1>5, <2>3, KeyFacts, Zenon
    <3> QED
      BY <1>0, <3>1, Zenon DEF RoutesBelong
  <2> QED
    BY <2>1, <2>2, <2>3, Zenon DEF RoutesBelong, ZeroLength
<1>9. RoutesFollowActiveCids'
  <2> SUFFICES ASSUME NEW l \in Keys, NEW i \in 0..MaxIssued
               PROVE  /\ owner'[l] = "server" => (cid_map'[Cid(l, i)] = l <=> i \in active'[l])
                      /\ owner'[l] = "handle" =>
                           (i \in active'[l] <=>
                             (shared_cid_map'[Cid(l, i)] = l \/ i \in issued'[l]) /\ i \notin retired'[l])
    BY Zenon DEF RoutesFollowActiveCids
  <2>1. Cid(l, i) \in AllCids /\ l # NoKey
    BY CidFacts, KeyFacts, Zenon
  <2>2. cid_map[Cid(l, i)] \in {l, NoKey} /\ shared_cid_map[Cid(l, i)] \in {l, NoKey}
    BY <1>0, Zenon DEF RoutesBelong
  <2>3. /\ owner[l] = "server" => (cid_map[Cid(l, i)] = l <=> i \in active[l])
        /\ owner[l] = "handle" =>
             (i \in active[l] <=>
               (shared_cid_map[Cid(l, i)] = l \/ i \in issued[l]) /\ i \notin retired[l])
    BY <1>0, Zenon DEF RoutesFollowActiveCids
  <2>4. CASE l \in K
    <3>1. shared_cid_map[Cid(l, i)] = NoKey
      BY <1>0, <1>2, <2>1, <2>2, <2>4 DEF NoDanglingRoutes
    <3>2. issued[l] = {} /\ retired[l] = {}
      BY <1>0, <1>2, <2>4, Zenon DEF Bookkeeping
    <3> QED
      BY <1>2, <1>3, <1>5, <2>1, <2>2, <2>3, <2>4, <3>1, <3>2
  <2>5. CASE l \notin K
    <3>1. shared_cid_map'[Cid(l, i)] = shared_cid_map[Cid(l, i)]
      BY <1>2, <1>5, <2>1, <2>2, <2>5, Zenon
    <3>2. CASE l \in Closed
      BY <1>3, <2>5, <3>2, Zenon
    <3>3. CASE l \notin Closed
      <4>1. cid_map'[Cid(l, i)] = cid_map[Cid(l, i)]
        BY <1>4, <2>1, <2>2, <2>5, <3>3, Zenon
      <4> QED
        BY <1>3, <2>3, <2>5, <3>1, <3>3, <4>1, Zenon
    <3> QED
      BY <3>2, <3>3, Zenon
  <2> QED
    BY <2>4, <2>5, Zenon
<1>10. Bookkeeping'
  BY <1>0, <1>2, <1>3, Zenon DEF Bookkeeping
<1>11. FirstKnown'
  BY <1>0, <1>2, <1>3, Zenon DEF FirstKnown
<1>12. RetiredRouted'
  <2> SUFFICES ASSUME NEW l \in Keys, NEW i \in 0..MaxIssued, owner'[l] = "handle", i \in retired'[l]
               PROVE  shared_cid_map'[Cid(l, i)] = l \/ i \in issued'[l]
    BY Zenon DEF RetiredRouted
  <2>1. Cid(l, i) \in AllCids /\ cid_map[Cid(l, i)] \in {l, NoKey}
    BY <1>0, CidFacts, Zenon DEF RoutesBelong
  <2>2. l \notin K /\ owner[l] = "handle"
    BY <1>0, <1>2, <1>3, Zenon DEF Bookkeeping
  <2> QED
    BY <1>0, <1>2, <1>5, <2>1, <2>2, Zenon DEF RetiredRouted
<1>13. RetiredRemembered'
  BY <1>0, <1>2, <1>3, Zenon DEF RetiredRemembered
<1> QED
  BY <1>6, <1>7, <1>8, <1>9, <1>10, <1>11, <1>12, <1>13, Zenon DEF IndInv

\* The top of accept's loop.
LEMMA AcceptTopInv == ASSUME IndInv, AcceptTop PROVE IndInv'
<1>0. /\ Types /\ RoutesBelong
  BY Zenon DEF IndInv
<1>1. UNCHANGED <<status, count, active, issued, retired, flushing, known>>
  BY Zenon DEF AcceptTop
<1>2. ASSUME NEW k \in Completed, take_connection(k), at = "top" PROVE IndInv'
  <2> DEFINE taken == {d \in AllCids : cid_map[d] = k}
  <2>1. k \in Keys /\ k # NoKey
    BY KeyFacts, Zenon DEF Completed
  <2>2. IsFiniteSet(taken) /\ taken \subseteq AllCids
    <3>1. IsFiniteSet(Cids(k, 0..MaxIssued) \cup {OriginalDcid(k[1])})
      BY <2>1, CidsFinite, FS_AddElement, Zenon
    <3>2. taken \subseteq Cids(k, 0..MaxIssued) \cup {OriginalDcid(k[1])}
      <4> SUFFICES ASSUME NEW d \in AllCids, cid_map[d] = k
                   PROVE  d \in Cids(k, 0..MaxIssued) \/ d = OriginalDcid(k[1])
        BY Zenon
      <4>1. CASE \E c \in Clients : d = OriginalDcid(c)
        BY <1>0, <2>1, <4>1, Zenon DEF RoutesBelong
      <4>2. CASE \E l \in Keys, i \in 0..MaxIssued : d = Cid(l, i)
        <5>1. PICK l \in Keys, i \in 0..MaxIssued : d = Cid(l, i)
          BY <4>2, Zenon
        <5>2. l = k
          BY <1>0, <2>1, <5>1, Zenon DEF RoutesBelong
        <5> QED
          BY <5>1, <5>2, CidsFacts, Zenon
      <4> QED
        BY <4>1, <4>2, CidFacts, Zenon
    <3> QED
      BY <3>1, <3>2, FS_Subset, Zenon
  <2>3. taken_cids' \in Remembered(taken_cids, taken) /\ TakenOK(taken_cids)
    BY <1>0, <1>2, Zenon DEF take_connection, Types
  <2>4. /\ TakenOK(taken_cids')
        /\ taken_cids \subseteq taken_cids' \/ Cardinality(taken_cids') = MaxTaken
        /\ Cardinality(taken_cids) = MaxTaken => Cardinality(taken_cids') = MaxTaken
    BY <2>2, <2>3, RememberedFacts, Zenon
  <2>5. /\ owner' = [x \in Keys |-> IF x \in {k} THEN "handle"
                                    ELSE IF x \in Closed THEN "gone" ELSE owner[x]]
        /\ shared_cid_map' = [d \in AllCids |-> IF cid_map[d] \in {k} THEN cid_map[d]
                                                ELSE shared_cid_map[d]]
        /\ shared_addr_map' = [a \in Addrs |-> IF addr_map[a] \in {k} THEN addr_map[a]
                                               ELSE shared_addr_map[a]]
        /\ senders' = senders \cup {k}
        /\ cid_map' = WithoutAll(cid_map, Closed \cup {k})
        /\ addr_map' = WithoutAll(addr_map, Closed \cup {k})
        /\ UNCHANGED <<at, shared_taken_cids, queued>>
    BY <1>2, Zenon DEF take_connection
  <2> QED
    BY <1>1, <1>2, <2>4, <2>5, HandOverInv, Zenon
<1>3. ASSUME Completed = {},
             owner' = [x \in Keys |-> IF x \in Closed THEN "gone" ELSE owner[x]],
             cid_map' = WithoutAll(cid_map, Closed), addr_map' = WithoutAll(addr_map, Closed),
             at' = "select", UNCHANGED <<taken_cids, shared>>
      PROVE  IndInv'
  <2>1. /\ owner' = [x \in Keys |-> IF x \in {} THEN "handle"
                                    ELSE IF x \in Closed THEN "gone" ELSE owner[x]]
        /\ shared_cid_map' = [d \in AllCids |-> IF cid_map[d] \in {} THEN cid_map[d]
                                                ELSE shared_cid_map[d]]
        /\ shared_addr_map' = [a \in Addrs |-> IF addr_map[a] \in {} THEN addr_map[a]
                                               ELSE shared_addr_map[a]]
        /\ senders' = senders \cup {}
        /\ Closed \cup {} = Closed
    BY <1>0, <1>3, Zenon DEF shared, Types
  <2>2. TakenOK(taken_cids')
    BY <1>0, <1>3, Zenon DEF Types, TakenOK
  <2> QED
    BY <1>1, <1>3, <2>1, <2>2, HandOverInv, Zenon DEF shared
<1> QED
  BY <1>2, <1>3, Zenon DEF AcceptTop

\* A step that leaves the connections and the tables alone: what arrives is queued,
\* dropped or answered with a Retry, packets go out, a handle is closed.
LEMMA QuietInv ==
    ASSUME IndInv,
           UNCHANGED <<owner, count, active, issued, retired, cid_map, addr_map, taken_cids,
                       shared_cid_map, shared_addr_map, senders, shared_taken_cids>>,
           status' \in [Keys -> Statuses], at' \in {"top", "select", "timers"},
           queued' \in [Keys -> 0..MaxQueued],
           flushing' \in [Keys -> {"no", "sending", "sent"}],
           \A k \in Keys : flushing'[k] # "no" => owner[k] = "handle",
           known \subseteq known', known' \subseteq AllCids,
           \A k \in Keys, i \in 0..MaxIssued : Cid(k, i) \in known' =>
               \/ Cid(k, i) \in known
               \/ owner[k] # "none" /\ i \in active[k]
               \/ owner[k] = "none" /\ i = 0 /\ k[2] = "r"
    PROVE  IndInv'
<1>0. /\ Types /\ NoDanglingRoutes /\ RoutesBelong /\ RoutesFollowActiveCids
      /\ Bookkeeping /\ FirstKnown /\ RetiredRouted /\ RetiredRemembered
  BY Zenon DEF IndInv
<1>1. Types'
  BY <1>0 DEF Types, TakenOK, AtServer
<1>2. NoDanglingRoutes' /\ RoutesBelong' /\ RoutesFollowActiveCids'
  BY <1>0 DEF NoDanglingRoutes, RoutesBelong, RoutesFollowActiveCids, ZeroLength
<1>3. Bookkeeping' /\ FirstKnown'
  BY <1>0, Zenon DEF Bookkeeping, FirstKnown
<1>4. RetiredRouted' /\ RetiredRemembered'
  BY <1>0, Zenon DEF RetiredRouted, RetiredRemembered
<1> QED
  BY <1>1, <1>2, <1>3, <1>4, Zenon DEF IndInv

\* handle_new_connection makes the connection k.
LEMMA CreateInv ==
    ASSUME IndInv, NEW k \in Keys, NEW d, d.from = AddrOf[k[1]], ~Full,
           CreateConnection(k, d), at' \in {"top", "select", "timers"},
           k[2] = "r" => Cid(k, 0) \in known
    PROVE  IndInv'
<1>0. /\ Types /\ NoDanglingRoutes /\ RoutesBelong /\ RoutesFollowActiveCids
      /\ Bookkeeping /\ FirstKnown /\ RetiredRouted /\ RetiredRemembered
  BY Zenon DEF IndInv
<1>1. PICK N \in New(k) :
        /\ owner[k] = "none"
        /\ N = {} \/ (count[k] < MaxIssued /\ ~ZeroLength(k))
        /\ LET scids == IF ZeroLength(k) THEN {} ELSE {0} \cup N
           IN  /\ active' = [active EXCEPT ![k] = scids]
               /\ count' = [count EXCEPT ![k] = @ + Cardinality(N)]
               /\ cid_map' = [Registered(cid_map, k, scids) EXCEPT ![OriginalDcid(k[1])] = k]
               /\ addr_map' = IF ZeroLength(k) THEN [addr_map EXCEPT ![d.from] = k] ELSE addr_map
        /\ owner' = [owner EXCEPT ![k] = "server"]
        /\ known' = known \cup Cids(k, active'[k])
        /\ UNCHANGED <<status, issued, retired, taken_cids, shared, flushing>>
  BY Zenon DEF CreateConnection, Sent
<1> DEFINE scids == IF ZeroLength(k) THEN {} ELSE {0} \cup N
<1>2. UNCHANGED <<status, issued, retired, taken_cids, flushing, shared_cid_map, shared_addr_map,
                  senders, shared_taken_cids, queued>>
  BY <1>1, Zenon DEF shared
<1>3. /\ count \in [Keys -> 0..MaxIssued] /\ count[k] \in 0..MaxIssued
      /\ active \in [Keys -> SUBSET (0..MaxIssued)]
      /\ cid_map \in [AllCids -> Keys \cup {NoKey}] /\ addr_map \in [Addrs -> Keys \cup {NoKey}]
      /\ owner \in [Keys -> {"none", "server", "handle", "gone"}]
      /\ known \subseteq AllCids /\ 0 \in 0..MaxIssued
  BY <1>0, ServerRoutesAssumption DEF Types
<1>4. /\ N \in SUBSET (0..MaxIssued) /\ count' \in [Keys -> 0..MaxIssued]
      /\ (\A l \in Keys \ {k} : count'[l] = count[l])
      /\ count[k] <= count'[k] /\ (\A i \in N : i <= count'[k])
  <2>1. CASE N = {}
    <3>1. Cardinality(N) = 0
      BY <2>1, SmallSets, Zenon
    <3>2. count' = count
      BY <1>1, <1>3, <3>1
    <3> QED
      BY <1>3, <2>1, <3>2
  <2>2. CASE N = {count[k] + 1} /\ count[k] < MaxIssued
    <3>1. Cardinality(N) = 1
      BY <2>2, SmallSets, Zenon
    <3>2. count' = [count EXCEPT ![k] = count[k] + 1]
      BY <1>1, <1>3, <3>1, Zenon
    <3>3. count[k] + 1 \in 0..MaxIssued
      BY <1>3, <2>2, ServerRoutesAssumption
    <3> QED
      BY <1>3, <2>2, <3>2, <3>3
  <2> QED
    BY <1>1, <2>1, <2>2, Zenon DEF New
<1>5. /\ scids \in SUBSET (0..MaxIssued) /\ \A i \in scids : i <= count'[k]
      /\ ~ZeroLength(k) => 0 \in scids
  <2>1. count'[k] \in 0..MaxIssued
    BY <1>4, Zenon
  <2>2. CASE ZeroLength(k)
    BY <2>2, Zenon
  <2>3. CASE ~ZeroLength(k)
    <3>1. scids = {0} \cup N
      BY <2>3, Zenon
    <3> HIDE DEF scids
    <3>2. \A i \in scids : i <= count'[k]
      BY <1>4, <2>1, <3>1
    <3>3. scids \in SUBSET (0..MaxIssued) /\ 0 \in scids
      BY <1>3, <1>4, <3>1, Zenon
    <3> QED
      BY <3>2, <3>3, Zenon
  <2> QED
    BY <2>2, <2>3, Zenon
<1>6. /\ active' = [active EXCEPT ![k] = scids]
      /\ cid_map' = [Registered(cid_map, k, scids) EXCEPT ![OriginalDcid(k[1])] = k]
  BY <1>1, Zenon
<1> HIDE DEF scids
<1>7. /\ active' \in [Keys -> SUBSET (0..MaxIssued)] /\ active'[k] = scids
      /\ \A l \in Keys \ {k} : active'[l] = active[l]
  BY <1>3, <1>5, <1>6, Zenon
<1>8. /\ owner' \in [Keys -> {"none", "server", "handle", "gone"}] /\ owner'[k] = "server"
      /\ \A l \in Keys \ {k} : owner'[l] = owner[l]
  BY <1>1, <1>3, Zenon
<1>9. /\ cid_map' \in [AllCids -> Keys \cup {NoKey}]
      /\ \A l \in Keys, i \in 0..MaxIssued :
           cid_map'[Cid(l, i)] = IF l = k /\ i \in scids THEN k ELSE cid_map[Cid(l, i)]
      /\ \A c \in Clients : cid_map'[OriginalDcid(c)] = IF c = k[1] THEN k ELSE cid_map[OriginalDcid(c)]
      /\ \A x \in AllCids : cid_map'[x] \in {cid_map[x], k}
  <2> DEFINE reg == Registered(cid_map, k, scids)
  <2>1. reg = [x \in AllCids |-> IF x \in Cids(k, scids) THEN k ELSE cid_map[x]]
    BY <1>3, Zenon DEF Registered
  <2> HIDE DEF reg
  <2>2. cid_map' = [reg EXCEPT ![OriginalDcid(k[1])] = k]
    BY <1>6, Zenon DEF reg
  <2>3. \A x \in AllCids : cid_map'[x] = IF x = OriginalDcid(k[1]) THEN k ELSE reg[x]
    BY <2>1, <2>2, Zenon
  <2>4. reg \in [AllCids -> Keys \cup {NoKey}]
    BY <1>3, <2>1, Zenon
  <2>5. cid_map' \in [AllCids -> Keys \cup {NoKey}]
    BY <2>2, <2>4, Zenon
  <2>6. k[1] \in Clients
    BY KeyFacts, Zenon
  <2>7. \A l \in Keys, i \in 0..MaxIssued :
           cid_map'[Cid(l, i)] = IF l = k /\ i \in scids THEN k ELSE cid_map[Cid(l, i)]
    BY <2>1, <2>3, <2>6, CidFacts, CidsFacts
  <2>8. \A c \in Clients : cid_map'[OriginalDcid(c)] = IF c = k[1] THEN k ELSE cid_map[OriginalDcid(c)]
    BY <2>1, <2>3, <2>6, CidFacts, CidsFacts
  <2>9. \A x \in AllCids : cid_map'[x] \in {cid_map[x], k}
    BY <2>1, <2>3, Zenon
  <2> QED
    BY <2>5, <2>7, <2>8, <2>9, Zenon
<1>10. /\ addr_map' \in [Addrs -> Keys \cup {NoKey}]
       /\ \A a \in Addrs : addr_map'[a] = IF ZeroLength(k) /\ a = AddrOf[k[1]] THEN k ELSE addr_map[a]
  BY <1>1, <1>3, Zenon
<1>11. /\ known' \subseteq AllCids /\ known \subseteq known'
       /\ \A l \in Keys, i \in 0..MaxIssued :
            Cid(l, i) \in known' => Cid(l, i) \in known \/ (l = k /\ i \in scids)
  <2>1. known' = known \cup Cids(k, scids)
    BY <1>1, <1>7, Zenon
  <2>2. /\ Cids(k, scids) \subseteq AllCids
        /\ \A l \in Keys : \A i : Cid(l, i) \in Cids(k, scids) <=> l = k /\ i \in scids
    BY <1>5, CidsFacts, Zenon
  <2> QED
    BY <1>3, <2>1, <2>2, Zenon
<1>12. Types'
  <2>1. IsFiniteSet(AtServer') /\ Cardinality(AtServer') <= MaxConnections
    <3>1. IsFiniteSet(AtServer) /\ Cardinality(AtServer) < MaxConnections
      <4>1. IsFiniteSet(AtServer) /\ ~(Cardinality(AtServer) >= MaxConnections)
        BY <1>0, Zenon DEF Types, Full, AtServer
      <4> QED
        BY <4>1, FS_CardinalityType, ServerRoutesAssumption
    <3>2. AtServer' = AtServer \cup {k} /\ k \notin AtServer
      BY <1>1, <1>8, Zenon DEF AtServer
    <3>3. IsFiniteSet(AtServer') /\ Cardinality(AtServer') = Cardinality(AtServer) + 1
      BY <3>1, <3>2, FS_AddElement, Zenon
    <3> QED
      BY <3>1, <3>3, FS_CardinalityType, ServerRoutesAssumption
  <2> QED
    BY <1>0, <1>2, <1>4, <1>7, <1>8, <1>9, <1>10, <1>11, <2>1, Zenon DEF Types, TakenOK
<1>13. \A i \in 0..MaxIssued : cid_map[Cid(k, i)] = NoKey
  <2> TAKE i \in 0..MaxIssued
  <2>1. cid_map[Cid(k, i)] \in {k, NoKey} /\ Cid(k, i) \in AllCids
    BY <1>0, CidFacts, Zenon DEF RoutesBelong
  <2> QED
    BY <1>0, <1>1, <2>1, Zenon DEF NoDanglingRoutes
<1>14. NoDanglingRoutes'
  <2>1. \A l \in Keys : owner[l] = "server" \/ l = k => owner'[l] = "server"
    BY <1>8, Zenon
  <2>2. ASSUME NEW x \in AllCids
        PROVE  /\ cid_map'[x] # NoKey => owner'[cid_map'[x]] = "server"
               /\ shared_cid_map'[x] # NoKey => shared_cid_map'[x] \in senders'
    <3>1. /\ cid_map[x] # NoKey => owner[cid_map[x]] = "server"
          /\ shared_cid_map[x] # NoKey => shared_cid_map[x] \in senders
          /\ cid_map[x] \in Keys \cup {NoKey} /\ cid_map'[x] \in {cid_map[x], k}
      BY <1>0, <1>3, <1>9, Zenon DEF NoDanglingRoutes
    <3> QED
      BY <1>2, <2>1, <3>1, Zenon
  <2>3. ASSUME NEW a \in Addrs
        PROVE  /\ addr_map'[a] # NoKey => owner'[addr_map'[a]] = "server"
               /\ shared_addr_map'[a] # NoKey => shared_addr_map'[a] \in senders'
    <3>1. /\ addr_map[a] # NoKey => owner[addr_map[a]] = "server"
          /\ shared_addr_map[a] # NoKey => shared_addr_map[a] \in senders
          /\ addr_map[a] \in Keys \cup {NoKey} /\ addr_map'[a] \in {addr_map[a], k}
      BY <1>0, <1>3, <1>10, Zenon DEF NoDanglingRoutes
    <3> QED
      BY <1>2, <2>1, <3>1, Zenon
  <2>4. ASSUME NEW l \in Keys PROVE owner'[l] = "handle" <=> l \in senders'
    BY <1>0, <1>1, <1>2, <1>8, Zenon DEF NoDanglingRoutes
  <2> QED
    BY <2>2, <2>3, <2>4, Zenon DEF NoDanglingRoutes
<1>15. RoutesBelong'
  BY <1>0, <1>2, <1>9, <1>10, KeyFacts DEF RoutesBelong, ZeroLength
<1>16. RoutesFollowActiveCids'
  <2> SUFFICES ASSUME NEW l \in Keys, NEW i \in 0..MaxIssued
               PROVE  /\ owner'[l] = "server" => (cid_map'[Cid(l, i)] = l <=> i \in active'[l])
                      /\ owner'[l] = "handle" =>
                           (i \in active'[l] <=>
                             (shared_cid_map'[Cid(l, i)] = l \/ i \in issued'[l]) /\ i \notin retired'[l])
    BY Zenon DEF RoutesFollowActiveCids
  <2>1. CASE l = k
    BY <1>7, <1>8, <1>9, <1>13, <2>1, KeyFacts
  <2>2. CASE l # k
    BY <1>0, <1>2, <1>7, <1>8, <1>9, <2>2 DEF RoutesFollowActiveCids
  <2> QED
    BY <2>1, <2>2, Zenon
<1>17. Bookkeeping'
  <2>1. issued[k] = {} /\ retired[k] = {}
    BY <1>0, <1>1, Zenon DEF Bookkeeping
  <2> QED
    <3> SUFFICES ASSUME NEW l \in Keys
                 PROVE  /\ \A i \in active'[l] \cup issued'[l] \cup retired'[l] : i <= count'[l]
                        /\ owner'[l] \in {"none", "server"} => issued'[l] = {} /\ retired'[l] = {}
                        /\ flushing'[l] # "no" => owner'[l] = "handle"
      BY Zenon DEF Bookkeeping
    <3>1. CASE l = k
      <4>1. flushing[k] = "no"
        BY <1>0, <1>1, Zenon DEF Bookkeeping
      <4> QED
        BY <1>2, <1>5, <1>7, <2>1, <3>1, <4>1, Zenon
    <3>2. CASE l # k
      BY <1>0, <1>2, <1>4, <1>7, <1>8, <3>2, Zenon DEF Bookkeeping
    <3> QED
      BY <3>1, <3>2, Zenon
<1>18. FirstKnown'
  BY <1>0, <1>8, <1>11, Zenon DEF FirstKnown
<1>19. RetiredRouted'
  BY <1>0, <1>2, <1>8, Zenon DEF RetiredRouted
<1>20. RetiredRemembered'
  <2>1. \A i \in 0..MaxIssued : Cid(k, i) \in known' => i \in active'[k]
    BY <1>0, <1>1, <1>5, <1>7, <1>11, Zenon DEF FirstKnown, ZeroLength
  <2> QED
    BY <1>0, <1>2, <1>7, <1>8, <1>11, <2>1, Zenon DEF RetiredRemembered
<1> QED
  BY <1>12, <1>14, <1>15, <1>16, <1>17, <1>18, <1>19, <1>20, Zenon DEF IndInv

\* A call of ngtcp2 by the handle k that does not end in sync_routes.
LEMMA HandleProgressInv ==
    ASSUME IndInv, NEW k \in Keys, owner[k] = "handle", HandleProgress(k),
           UNCHANGED <<server, at, shared>>,
           flushing' \in [Keys -> {"no", "sending", "sent"}],
           \A l \in Keys : flushing'[l] # "no" => owner[l] = "handle",
           known' = known \/ known' = known \cup Cids(k, active'[k])
    PROVE  IndInv'
<1>0. /\ Types /\ NoDanglingRoutes /\ RoutesBelong /\ RoutesFollowActiveCids
      /\ Bookkeeping /\ FirstKnown /\ RetiredRouted /\ RetiredRemembered
  BY Zenon DEF IndInv
<1>1. PICK s \in Statuses, N \in New(k), R \in Gone(k) :
        /\ Progress(k, s, N, R)
        /\ issued' = [issued EXCEPT ![k] = @ \cup N]
        /\ retired' = [retired EXCEPT ![k] = @ \cup R]
        /\ UNCHANGED owner
  BY Zenon DEF HandleProgress
<1>2. UNCHANGED <<owner, cid_map, addr_map, taken_cids, at, shared_cid_map, shared_addr_map,
                  senders, shared_taken_cids, queued>>
  BY <1>1, Zenon DEF server, shared
<1>3. /\ N \in SUBSET (0..MaxIssued) /\ R \in SUBSET (0..MaxIssued) /\ R \subseteq active[k]
      /\ status' \in [Keys -> Statuses]
      /\ count' \in [Keys -> 0..MaxIssued] /\ active' \in [Keys -> SUBSET (0..MaxIssued)]
      /\ \A l \in Keys \ {k} : active'[l] = active[l] /\ count'[l] = count[l]
      /\ active'[k] = (active[k] \cup N) \ R
      /\ count[k] <= count'[k]
      /\ \A i \in N : i > count[k] /\ i <= count'[k]
  BY <1>0, <1>1, ProgressFacts, Zenon
<1>4. /\ issued' \in [Keys -> SUBSET (0..MaxIssued)] /\ retired' \in [Keys -> SUBSET (0..MaxIssued)]
      /\ issued'[k] = issued[k] \cup N /\ retired'[k] = retired[k] \cup R
      /\ \A l \in Keys \ {k} : issued'[l] = issued[l] /\ retired'[l] = retired[l]
  BY <1>0, <1>1, <1>3, Zenon DEF Types
<1>5. /\ count[k] \in Nat /\ count'[k] \in Nat
      /\ \A i \in active[k] \cup issued[k] \cup retired[k] : i \in Nat /\ i <= count[k]
      /\ \A i \in N : i \in Nat
  <2>1. /\ count[k] \in 0..MaxIssued /\ count'[k] \in 0..MaxIssued
        /\ active[k] \subseteq 0..MaxIssued /\ issued[k] \subseteq 0..MaxIssued
        /\ retired[k] \subseteq 0..MaxIssued
    BY <1>0, <1>3, Zenon DEF Types
  <2> QED
    BY <1>0, <1>3, <2>1, Indices, Zenon DEF Bookkeeping
<1>6. /\ known' \subseteq AllCids /\ known \subseteq known'
      /\ \A l \in Keys, i \in 0..MaxIssued :
           Cid(l, i) \in known' => Cid(l, i) \in known \/ (l = k /\ i \in active'[k])
  <2>1. known \subseteq AllCids /\ active'[k] \subseteq 0..MaxIssued
    BY <1>0, <1>3, Zenon DEF Types
  <2> QED
    BY <2>1, CidsFacts
<1>7. Types'
  BY <1>0, <1>2, <1>3, <1>4, <1>6 DEF Types, TakenOK, AtServer
<1>8. NoDanglingRoutes' /\ RoutesBelong'
  BY <1>0, <1>2, Zenon DEF NoDanglingRoutes, RoutesBelong, ZeroLength
<1>9. RoutesFollowActiveCids'
  <2> SUFFICES ASSUME NEW l \in Keys, NEW i \in 0..MaxIssued
               PROVE  /\ owner'[l] = "server" => (cid_map'[Cid(l, i)] = l <=> i \in active'[l])
                      /\ owner'[l] = "handle" =>
                           (i \in active'[l] <=>
                             (shared_cid_map'[Cid(l, i)] = l \/ i \in issued'[l]) /\ i \notin retired'[l])
    BY Zenon DEF RoutesFollowActiveCids
  <2>1. CASE l = k
    <3>1. i \in active[k] <=> (shared_cid_map[Cid(k, i)] = k \/ i \in issued[k]) /\ i \notin retired[k]
      BY <1>0, Zenon DEF RoutesFollowActiveCids
    <3>2. i \in N => i \notin retired[k] /\ i \notin R
      BY <1>3, <1>5, NotBoth, Zenon
    <3> QED
      BY <1>2, <1>3, <1>4, <2>1, <3>1, <3>2, Zenon
  <2>2. CASE l # k
    BY <1>0, <1>2, <1>3, <1>4, <2>2, Zenon DEF RoutesFollowActiveCids
  <2> QED
    BY <2>1, <2>2, Zenon
<1>10. Bookkeeping'
  <2>1. \A i \in active'[k] \cup issued'[k] \cup retired'[k] : i <= count'[k]
    <3>1. \A i \in active[k] \cup issued[k] \cup retired[k] : i <= count'[k]
      BY <1>3, <1>5, AtMost, Zenon
    <3> QED
      BY <1>3, <1>4, <3>1, Zenon
  <2> QED
    BY <1>0, <1>2, <1>3, <1>4, <2>1, Zenon DEF Bookkeeping
<1>11. FirstKnown'
  BY <1>0, <1>2, <1>6, Zenon DEF FirstKnown
<1>12. RetiredRouted'
  BY <1>0, <1>2, <1>3, <1>4, Zenon DEF RetiredRouted, RoutesFollowActiveCids
<1>13. RetiredRemembered'
  BY <1>0, <1>2, <1>3, <1>4, <1>6, Zenon DEF RetiredRemembered
<1> QED
  BY <1>7, <1>8, <1>9, <1>10, <1>11, <1>12, <1>13, Zenon DEF IndInv

\* sync_routes of the handle k, after a call of ngtcp2 that issued N and retired R
\* (or after none).
LEMMA SyncInv ==
    ASSUME IndInv, NEW k \in Keys, owner[k] = "handle",
           NEW N \in SUBSET (0..MaxIssued), NEW R \in SUBSET (0..MaxIssued), R \subseteq active[k],
           status' \in [Keys -> Statuses],
           count' \in [Keys -> 0..MaxIssued], active' \in [Keys -> SUBSET (0..MaxIssued)],
           \A l \in Keys \ {k} : active'[l] = active[l] /\ count'[l] = count[l],
           active'[k] = (active[k] \cup N) \ R,
           count[k] <= count'[k],
           \A i \in N : i > count[k] /\ i <= count'[k],
           sync_routes(k, issued[k] \cup N, retired[k] \cup R),
           issued' = [issued EXCEPT ![k] = {}], retired' = [retired EXCEPT ![k] = {}],
           queued' \in [Keys -> 0..MaxQueued],
           flushing' \in [Keys -> {"no", "sending", "sent"}],
           \A l \in Keys : flushing'[l] # "no" => owner[l] = "handle",
           UNCHANGED <<owner, server, at, known>>
    PROVE  IndInv'
<1>0. /\ Types /\ NoDanglingRoutes /\ RoutesBelong /\ RoutesFollowActiveCids
      /\ Bookkeeping /\ FirstKnown /\ RetiredRouted /\ RetiredRemembered
  BY Zenon DEF IndInv
<1>1. UNCHANGED <<owner, cid_map, addr_map, taken_cids, at, known, shared_addr_map, senders>>
  BY Zenon DEF sync_routes, server
<1>2. /\ issued' \in [Keys -> SUBSET (0..MaxIssued)] /\ retired' \in [Keys -> SUBSET (0..MaxIssued)]
      /\ issued'[k] = {} /\ retired'[k] = {}
      /\ \A l \in Keys \ {k} : issued'[l] = issued[l] /\ retired'[l] = retired[l]
  BY <1>0, Zenon DEF Types
<1>3. /\ count[k] \in Nat /\ count'[k] \in Nat
      /\ \A i \in active[k] \cup issued[k] \cup retired[k] : i \in Nat /\ i <= count[k]
      /\ \A i \in N : i \in Nat
  <2>1. /\ count[k] \in 0..MaxIssued /\ count'[k] \in 0..MaxIssued
        /\ active[k] \subseteq 0..MaxIssued /\ issued[k] \subseteq 0..MaxIssued
        /\ retired[k] \subseteq 0..MaxIssued
    BY <1>0, Zenon DEF Types
  <2> QED
    BY <1>0, <2>1, Indices, Zenon DEF Bookkeeping
<1> DEFINE I == issued[k] \cup N
           Q == retired[k] \cup R
<1>4. I \in SUBSET (0..MaxIssued) /\ Q \in SUBSET (0..MaxIssued)
  BY <1>0, Zenon DEF Types
<1>5. /\ shared_cid_map' = Unregistered(Registered(shared_cid_map, k, I), k, Q)
      /\ shared_taken_cids' \in Remembered(shared_taken_cids, Cids(k, Q))
  BY Zenon DEF sync_routes
<1>6. /\ \A i : i \in I <=> i \in issued[k] \/ i \in N
      /\ \A i : i \in Q <=> i \in retired[k] \/ i \in R
  BY Zenon
<1> HIDE DEF I, Q
<1>7. /\ shared_cid_map' \in [AllCids -> Keys \cup {NoKey}]
      /\ \A l \in Keys, i \in 0..MaxIssued :
           shared_cid_map'[Cid(l, i)] = IF l # k THEN shared_cid_map[Cid(l, i)]
                                        ELSE IF i \in Q THEN NoKey
                                        ELSE IF i \in I THEN k ELSE shared_cid_map[Cid(k, i)]
      /\ \A d \in AllCids : shared_cid_map'[d] \in {shared_cid_map[d], k, NoKey}
  <2>1. shared_cid_map \in [AllCids -> Keys \cup {NoKey}]
    BY <1>0, Zenon DEF Types
  <2>2. \A i \in 0..MaxIssued : shared_cid_map[Cid(k, i)] \in {k, NoKey}
    BY <1>0, Zenon DEF RoutesBelong
  <2>3. Synced(shared_cid_map', shared_cid_map, k, I, Q)
    BY <1>4, <1>5, <2>1, <2>2, SyncedFacts, Zenon
  <2> QED
    BY <2>3, Zenon DEF Synced
<1>8. /\ TakenOK(shared_taken_cids')
      /\ shared_taken_cids \cup Cids(k, Q) \subseteq shared_taken_cids'
         \/ Cardinality(shared_taken_cids') = MaxTaken
      /\ Cardinality(shared_taken_cids) = MaxTaken => Cardinality(shared_taken_cids') = MaxTaken
  <2>1. TakenOK(shared_taken_cids) /\ Cids(k, Q) \subseteq AllCids /\ IsFiniteSet(Cids(k, Q))
    BY <1>0, <1>4, CidsFacts, CidsFinite, Zenon DEF Types
  <2> QED
    BY <1>5, <2>1, RememberedFacts, Zenon
<1>9. Types'
  <2>1. AtServer' = AtServer
    BY <1>1, Zenon DEF AtServer
  <2> QED
    BY <1>0, <1>1, <1>2, <1>7, <1>8, <2>1, Zenon DEF Types, TakenOK
<1>10. NoDanglingRoutes'
  <2>1. k \in senders
    BY <1>0, Zenon DEF NoDanglingRoutes
  <2>2. ASSUME NEW d \in AllCids
        PROVE  shared_cid_map'[d] # NoKey => shared_cid_map'[d] \in senders
    BY <1>0, <1>7, <2>1, Zenon DEF NoDanglingRoutes
  <2> QED
    BY <1>0, <1>1, <2>2, Zenon DEF NoDanglingRoutes
<1>a. /\ \A l \in Keys \ {k}, i \in 0..MaxIssued : shared_cid_map'[Cid(l, i)] = shared_cid_map[Cid(l, i)]
      /\ \A i \in 0..MaxIssued : shared_cid_map'[Cid(k, i)] \in {k, NoKey}
  <2>1. \A i \in 0..MaxIssued : shared_cid_map[Cid(k, i)] \in {k, NoKey}
    BY <1>0, Zenon DEF RoutesBelong
  <2> QED
    BY <1>7, <2>1, Zenon
<1>11. RoutesBelong'
  <2>1. ASSUME NEW l \in Keys, NEW i \in 0..MaxIssued
        PROVE  cid_map'[Cid(l, i)] \in {l, NoKey} /\ shared_cid_map'[Cid(l, i)] \in {l, NoKey}
    <3>1. cid_map[Cid(l, i)] \in {l, NoKey} /\ shared_cid_map[Cid(l, i)] \in {l, NoKey}
      BY <1>0, Zenon DEF RoutesBelong
    <3>2. l # k => shared_cid_map'[Cid(l, i)] = shared_cid_map[Cid(l, i)]
      BY <1>a, Zenon
    <3>3. l = k => shared_cid_map'[Cid(l, i)] \in {l, NoKey}
      BY <1>a, Zenon
    <3> QED
      BY <1>1, <3>1, <3>2, <3>3, Zenon
  <2> QED
    BY <1>0, <1>1, <2>1, Zenon DEF RoutesBelong, ZeroLength
<1>12. RoutesFollowActiveCids'
  <2> SUFFICES ASSUME NEW l \in Keys, NEW i \in 0..MaxIssued
               PROVE  /\ owner'[l] = "server" => (cid_map'[Cid(l, i)] = l <=> i \in active'[l])
                      /\ owner'[l] = "handle" =>
                           (i \in active'[l] <=>
                             (shared_cid_map'[Cid(l, i)] = l \/ i \in issued'[l]) /\ i \notin retired'[l])
    BY Zenon DEF RoutesFollowActiveCids
  <2>1. CASE l = k
    <3>1. i \in active[k] <=> (shared_cid_map[Cid(k, i)] = k \/ i \in issued[k]) /\ i \notin retired[k]
      BY <1>0, Zenon DEF RoutesFollowActiveCids
    <3>2. i \in N => i \notin retired[k] /\ i \notin R
      BY <1>3, NotBoth, Zenon
    <3>3. shared_cid_map'[Cid(k, i)] = k <=> i \notin Q /\ (i \in I \/ shared_cid_map[Cid(k, i)] = k)
      BY <1>7, KeyFacts
    <3>4. i \in active'[k] <=> (i \in active[k] \/ i \in N) /\ i \notin R
      BY Zenon
    <3> QED
      BY <1>1, <1>2, <1>6, <2>1, <3>1, <3>2, <3>3, <3>4, Zenon
  <2>2. CASE l # k
    <3>1. /\ owner[l] = "server" => (cid_map[Cid(l, i)] = l <=> i \in active[l])
          /\ owner[l] = "handle" =>
               (i \in active[l] <=>
                 (shared_cid_map[Cid(l, i)] = l \/ i \in issued[l]) /\ i \notin retired[l])
      BY <1>0, Zenon DEF RoutesFollowActiveCids
    <3>2. shared_cid_map'[Cid(l, i)] = shared_cid_map[Cid(l, i)]
      BY <1>a, <2>2, Zenon
    <3>3. issued'[l] = issued[l] /\ retired'[l] = retired[l]
      BY <1>2, <2>2, Zenon
    <3>4. active'[l] = active[l]
      BY <2>2, Zenon
    <3> QED
      BY <1>1, <3>1, <3>2, <3>3, <3>4, Zenon
  <2> QED
    BY <2>1, <2>2, Zenon
<1>13. Bookkeeping'
  <2>1. \A i \in active'[k] : i <= count'[k]
    BY <1>3, AtMost, Zenon
  <2> SUFFICES ASSUME NEW l \in Keys
               PROVE  /\ \A i \in active'[l] \cup issued'[l] \cup retired'[l] : i <= count'[l]
                      /\ owner'[l] \in {"none", "server"} => issued'[l] = {} /\ retired'[l] = {}
                      /\ flushing'[l] # "no" => owner'[l] = "handle"
    BY Zenon DEF Bookkeeping
  <2>2. flushing'[l] # "no" => owner'[l] = "handle"
    BY <1>1, Zenon
  <2>3. CASE l = k
    BY <1>2, <2>1, <2>2, <2>3, Zenon
  <2>4. CASE l # k
    <3>1. /\ \A i \in active[l] \cup issued[l] \cup retired[l] : i <= count[l]
          /\ owner[l] \in {"none", "server"} => issued[l] = {} /\ retired[l] = {}
      BY <1>0, Zenon DEF Bookkeeping
    <3>2. active'[l] = active[l] /\ count'[l] = count[l]
      BY <2>4, Zenon
    <3>3. issued'[l] = issued[l] /\ retired'[l] = retired[l]
      BY <1>2, <2>4, Zenon
    <3> QED
      BY <1>1, <2>2, <3>1, <3>2, <3>3, Zenon
  <2> QED
    BY <2>3, <2>4, Zenon
<1>14. FirstKnown'
  BY <1>0, <1>1, Zenon DEF FirstKnown
<1>15. RetiredRouted'
  <2> SUFFICES ASSUME NEW l \in Keys, NEW i \in 0..MaxIssued, owner'[l] = "handle", i \in retired'[l]
               PROVE  shared_cid_map'[Cid(l, i)] = l \/ i \in issued'[l]
    BY Zenon DEF RetiredRouted
  <2>1. l # k
    BY <1>2, Zenon
  <2>2. shared_cid_map[Cid(l, i)] = l \/ i \in issued[l]
    BY <1>0, <1>1, <1>2, <2>1, Zenon DEF RetiredRouted
  <2>3. shared_cid_map'[Cid(l, i)] = shared_cid_map[Cid(l, i)]
    BY <1>a, <2>1, Zenon
  <2>4. issued'[l] = issued[l]
    BY <1>2, <2>1, Zenon
  <2> QED
    BY <2>2, <2>3, <2>4, Zenon
<1>16. RetiredRemembered'
  <2> SUFFICES ASSUME NEW l \in Keys, NEW i \in 0..MaxIssued, Cid(l, i) \in known', i \notin active'[l]
               PROVE  /\ owner'[l] = "server" =>
                           Cid(l, i) \in taken_cids' \/ Cardinality(taken_cids') = MaxTaken
                      /\ owner'[l] = "handle" =>
                           \/ i \in retired'[l]
                           \/ Cid(l, i) \in taken_cids' \cup shared_taken_cids'
                           \/ MaxTaken \in {Cardinality(taken_cids'), Cardinality(shared_taken_cids')}
    BY Zenon DEF RetiredRemembered
  <2>1. CASE l = k /\ i \in Q
    BY <1>1, <1>8, <2>1, CidsFacts, ZenonT(40)
  <2>2. CASE l = k /\ i \notin Q
    <3>1. i \notin active[k] /\ i \notin retired[k]
      BY <1>6, <2>2, Zenon
    <3> QED
      BY <1>0, <1>1, <1>8, <2>2, <3>1, Zenon DEF RetiredRemembered
  <2>3. CASE l # k
    BY <1>0, <1>1, <1>2, <1>8, <2>3, Zenon DEF RetiredRemembered
  <2> QED
    BY <2>1, <2>2, <2>3, Zenon
<1> QED
  BY <1>9, <1>10, <1>11, <1>12, <1>13, <1>14, <1>15, <1>16, Zenon DEF IndInv

\* Drop of the handle k.
LEMMA DropInv == ASSUME IndInv, NEW k \in Keys, HandleDrop(k) PROVE IndInv'
<1>0. /\ Types /\ NoDanglingRoutes /\ RoutesBelong /\ RoutesFollowActiveCids
      /\ Bookkeeping /\ FirstKnown /\ RetiredRouted /\ RetiredRemembered
  BY Zenon DEF IndInv
<1>1. /\ owner[k] = "handle" /\ owner' = [owner EXCEPT ![k] = "gone"]
      /\ flushing' = [flushing EXCEPT ![k] = "no"]
      /\ shared_cid_map' = Without(shared_cid_map, k)
      /\ shared_addr_map' = Without(shared_addr_map, k)
      /\ senders' = senders \ {k}
      /\ queued' = [queued EXCEPT ![k] = 0]
      /\ UNCHANGED <<status, count, active, issued, retired, cid_map, addr_map, taken_cids, at,
                     shared_taken_cids, known>>
  BY Zenon DEF HandleDrop, server
<1>2. /\ shared_cid_map' \in [AllCids -> Keys \cup {NoKey}]
      /\ \A d \in AllCids : shared_cid_map'[d] = IF shared_cid_map[d] = k THEN NoKey ELSE shared_cid_map[d]
  <2>1. shared_cid_map \in [AllCids -> Keys \cup {NoKey}]
    BY <1>0, Zenon DEF Types
  <2> QED
    BY <1>1, <2>1, WithoutFacts
<1>3. /\ shared_addr_map' \in [Addrs -> Keys \cup {NoKey}]
      /\ \A a \in Addrs : shared_addr_map'[a] = IF shared_addr_map[a] = k THEN NoKey ELSE shared_addr_map[a]
  <2>1. shared_addr_map \in [Addrs -> Keys \cup {NoKey}]
    BY <1>0, Zenon DEF Types
  <2> QED
    BY <1>1, <2>1, WithoutFacts
<1>4. /\ owner' \in [Keys -> {"none", "server", "handle", "gone"}] /\ owner'[k] = "gone"
      /\ \A l \in Keys \ {k} : owner'[l] = owner[l]
      /\ flushing' \in [Keys -> {"no", "sending", "sent"}] /\ flushing'[k] = "no"
      /\ \A l \in Keys \ {k} : flushing'[l] = flushing[l]
      /\ queued' \in [Keys -> 0..MaxQueued]
  BY <1>0, <1>1, ServerRoutesAssumption DEF Types
<1>5. AtServer' = AtServer
  BY <1>1, <1>4, Zenon DEF AtServer
<1>6. Types'
  BY <1>0, <1>1, <1>2, <1>3, <1>4, <1>5, Zenon DEF Types, TakenOK
<1>7. NoDanglingRoutes'
  <2>1. \A l \in Keys : owner[l] = "server" => owner'[l] = "server"
    BY <1>1, <1>4, Zenon
  <2>2. \A d \in AllCids : cid_map[d] # NoKey => cid_map[d] \in Keys
    BY <1>0, Zenon DEF Types
  <2>3. \A a \in Addrs : addr_map[a] # NoKey => addr_map[a] \in Keys
    BY <1>0, Zenon DEF Types
  <2>4. \A d \in AllCids : /\ cid_map'[d] # NoKey => owner'[cid_map'[d]] = "server"
                           /\ shared_cid_map'[d] # NoKey => shared_cid_map'[d] \in senders'
    <3> SUFFICES ASSUME NEW d \in AllCids
                 PROVE  /\ cid_map'[d] # NoKey => owner'[cid_map'[d]] = "server"
                        /\ shared_cid_map'[d] # NoKey => shared_cid_map'[d] \in senders'
      BY Zenon
    <3>1. cid_map'[d] # NoKey => owner'[cid_map'[d]] = "server"
      BY <1>0, <1>1, <2>1, <2>2, Zenon DEF NoDanglingRoutes
    <3>2. shared_cid_map'[d] # NoKey => shared_cid_map'[d] # k /\ shared_cid_map'[d] = shared_cid_map[d]
      BY <1>2, Zenon
    <3>3. shared_cid_map'[d] # NoKey => shared_cid_map'[d] \in senders'
      BY <1>0, <1>1, <3>2, Zenon DEF NoDanglingRoutes
    <3> QED
      BY <3>1, <3>3, Zenon
  <2>5. \A a \in Addrs : /\ addr_map'[a] # NoKey => owner'[addr_map'[a]] = "server"
                         /\ shared_addr_map'[a] # NoKey => shared_addr_map'[a] \in senders'
    <3> SUFFICES ASSUME NEW a \in Addrs
                 PROVE  /\ addr_map'[a] # NoKey => owner'[addr_map'[a]] = "server"
                        /\ shared_addr_map'[a] # NoKey => shared_addr_map'[a] \in senders'
      BY Zenon
    <3>1. addr_map'[a] # NoKey => owner'[addr_map'[a]] = "server"
      BY <1>0, <1>1, <2>1, <2>3, Zenon DEF NoDanglingRoutes
    <3>2. shared_addr_map'[a] # NoKey =>
            shared_addr_map'[a] # k /\ shared_addr_map'[a] = shared_addr_map[a]
      BY <1>3, Zenon
    <3>3. shared_addr_map'[a] # NoKey => shared_addr_map'[a] \in senders'
      BY <1>0, <1>1, <3>2, Zenon DEF NoDanglingRoutes
    <3> QED
      BY <3>1, <3>3, Zenon
  <2>6. \A l \in Keys : owner'[l] = "handle" <=> l \in senders'
    BY <1>0, <1>1, <1>4, Zenon DEF NoDanglingRoutes
  <2> QED
    BY <2>4, <2>5, <2>6, Zenon DEF NoDanglingRoutes
<1>8. RoutesBelong'
  <2>1. \A l \in Keys, i \in 0..MaxIssued : Cid(l, i) \in AllCids
    BY CidFacts, Zenon
  <2> QED
    BY <1>0, <1>1, <1>2, <1>3, <2>1, KeyFacts DEF RoutesBelong, ZeroLength
<1>9. \A l \in Keys \ {k}, i \in 0..MaxIssued : shared_cid_map'[Cid(l, i)] = shared_cid_map[Cid(l, i)]
  BY <1>0, <1>2, CidFacts, KeyFacts DEF RoutesBelong
<1>10. RoutesFollowActiveCids' /\ RetiredRouted'
  BY <1>0, <1>1, <1>4, <1>9 DEF RoutesFollowActiveCids, RetiredRouted
<1>11. Bookkeeping' /\ FirstKnown'
  BY <1>0, <1>1, <1>4, Zenon DEF Bookkeeping, FirstKnown
<1>12. RetiredRemembered'
  BY <1>0, <1>1, <1>4, Zenon DEF RetiredRemembered
<1> QED
  BY <1>6, <1>7, <1>8, <1>10, <1>11, <1>12, Zenon DEF IndInv

\* What arrives: a packet to a CID the client has learnt, from its address, or one
\* without a CID from the address of a connection whose CID is empty.
LEMMA DatagramFacts ==
    ASSUME Types, NEW d \in Datagrams
    PROVE  /\ d.long \in BOOLEAN /\ d.from \in Addrs
           /\ \/ /\ d.dcid \in known /\ d.dcid \in AllCids /\ d.dcid # NoCid
                 /\ d.dcid[1] \in Clients /\ d.from = AddrOf[d.dcid[1]]
              \/ /\ d.dcid = NoCid
                 /\ \E k \in Keys : ZeroLength(k) /\ owner[k] # "none" /\ d.from = AddrOf[k[1]]
<1>1. ASSUME NEW l \in BOOLEAN, NEW c \in known, d = [long |-> l, dcid |-> c, from |-> AddrOf[c[1]]]
      PROVE  /\ d.long \in BOOLEAN /\ d.from \in Addrs
             /\ d.dcid \in known /\ d.dcid \in AllCids /\ d.dcid # NoCid
             /\ d.dcid[1] \in Clients /\ d.from = AddrOf[d.dcid[1]]
  <2>1. c \in AllCids /\ c # NoCid
    BY CidFacts DEF Types
  <2>2. c[1] \in Clients
    <3>1. CASE \E e \in Clients : c = OriginalDcid(e)
      BY <3>1 DEF OriginalDcid
    <3>2. CASE \E k \in Keys, i \in 0..MaxIssued : c = Cid(k, i)
      BY <3>2, CidFacts, KeyFacts
    <3> QED
      BY <2>1, <3>1, <3>2, CidFacts, Zenon
  <2>3. d.long = l /\ d.dcid = c /\ d.from = AddrOf[c[1]]
    BY <1>1, Zenon
  <2> QED
    BY <2>1, <2>2, <2>3, ServerRoutesAssumption, Zenon
<1>2. ASSUME NEW l \in BOOLEAN, NEW k \in Keys, ZeroLength(k), owner[k] # "none",
             d = [long |-> l, dcid |-> NoCid, from |-> AddrOf[k[1]]]
      PROVE  /\ d.long \in BOOLEAN /\ d.from \in Addrs /\ d.dcid = NoCid
             /\ \E x \in Keys : ZeroLength(x) /\ owner[x] # "none" /\ d.from = AddrOf[x[1]]
  <2>1. d.long = l /\ d.dcid = NoCid /\ d.from = AddrOf[k[1]] /\ k[1] \in Clients
    BY <1>2, KeyFacts, Zenon
  <2> QED
    BY <1>2, <2>1, ServerRoutesAssumption, Zenon
<1> QED
  BY <1>1, <1>2 DEF Datagrams

\* SharedRoutes::resolve finds a handle that has a queue, or nothing.
LEMMA ResolveFacts ==
    ASSUME Types, NoDanglingRoutes, NEW d, d.from \in Addrs
    PROVE  shared_resolve(d) = NoKey \/ (shared_resolve(d) \in senders /\ shared_resolve(d) \in Keys)
<1>1. CASE d.dcid \in AllCids /\ shared_cid_map[d.dcid] # NoKey
  BY <1>1, Zenon DEF shared_resolve, Looked, Types, NoDanglingRoutes
<1>2. CASE ~(d.dcid \in AllCids /\ shared_cid_map[d.dcid] # NoKey)
  <2>1. shared_resolve(d) = shared_addr_map[d.from]
    BY <1>2, Zenon DEF shared_resolve, Looked, Types
  <2> QED
    BY <2>1 DEF Types, NoDanglingRoutes
<1> QED
  BY <1>1, <1>2, Zenon

\* What is passed on to the handle h is queued.
LEMMA DeliverInv ==
    ASSUME IndInv, NEW h \in Keys, h \in senders, deliver(h), at' \in {"top", "select", "timers"},
           UNCHANGED <<conn, server, flushing, known>>
    PROVE  IndInv'
<1>0. Types /\ Bookkeeping
  BY Zenon DEF IndInv
<1>1. /\ queued' = [queued EXCEPT ![h] = Least(@ + 1, MaxQueued)]
      /\ UNCHANGED <<shared_cid_map, shared_addr_map, senders, shared_taken_cids>>
  BY Zenon DEF deliver
<1>2. UNCHANGED <<owner, status, count, active, issued, retired, cid_map, addr_map, taken_cids>>
  BY Zenon DEF conn, server
<1>3. queued' \in [Keys -> 0..MaxQueued]
  <2>1. queued \in [Keys -> 0..MaxQueued] /\ queued[h] \in 0..MaxQueued
    BY <1>0, Zenon DEF Types
  <2>2. Least(queued[h] + 1, MaxQueued) \in 0..MaxQueued
    BY <2>1, ServerRoutesAssumption DEF Least
  <2> QED
    BY <1>1, <2>1, <2>2, Zenon
<1>4. /\ status' \in [Keys -> Statuses] /\ flushing' \in [Keys -> {"no", "sending", "sent"}]
      /\ known' \subseteq AllCids
      /\ \A k \in Keys : flushing'[k] # "no" => owner[k] = "handle"
  BY <1>0, <1>2, Zenon DEF Types, Bookkeeping
<1> QED
  BY <1>1, <1>2, <1>3, <1>4, QuietInv, Zenon

\* What does not belong to a connection is dropped, or answered with a Retry or a
\* Stateless Reset: the connections and the tables stay.
LEMMA DroppedInv ==
    ASSUME IndInv, UNCHANGED <<conn, server, shared, flushing>>, at' \in {"top", "select", "timers"},
           known' = known \/ \E c \in Clients : "r" \in Kinds /\ known' = known \cup {Cid(<<c, "r">>, 0)}
    PROVE  IndInv'
<1>0. Types /\ Bookkeeping /\ FirstKnown
  BY Zenon DEF IndInv
<1>1. UNCHANGED <<owner, status, count, active, issued, retired, cid_map, addr_map, taken_cids,
                  shared_cid_map, shared_addr_map, senders, shared_taken_cids, queued, flushing>>
  BY Zenon DEF conn, server, shared
<1>2. /\ status' \in [Keys -> Statuses] /\ queued' \in [Keys -> 0..MaxQueued]
      /\ flushing' \in [Keys -> {"no", "sending", "sent"}]
      /\ \A k \in Keys : flushing'[k] # "no" => owner[k] = "handle"
      /\ known \subseteq AllCids
  BY <1>0, <1>1, Zenon DEF Types, Bookkeeping
<1>3. CASE known' = known
  BY <1>1, <1>2, <1>3, QuietInv, Zenon
<1>4. ASSUME NEW c \in Clients, "r" \in Kinds, known' = known \cup {Cid(<<c, "r">>, 0)}
      PROVE  IndInv'
  <2>1. <<c, "r">> \in Keys /\ 0 \in 0..MaxIssued
    BY <1>4, KeyFacts, ServerRoutesAssumption
  <2>2. Cid(<<c, "r">>, 0) \in AllCids
    BY <2>1, CidFacts, Zenon
  <2>3. \A k \in Keys, i \in 0..MaxIssued : Cid(k, i) \in known' =>
          \/ Cid(k, i) \in known
          \/ owner[k] = "none" /\ i = 0 /\ k[2] = "r"
    <3> SUFFICES ASSUME NEW k \in Keys, NEW i \in 0..MaxIssued, Cid(k, i) = Cid(<<c, "r">>, 0),
                        owner[k] # "none"
                 PROVE  Cid(k, i) \in known
      BY <1>4, <2>1, CidFacts
    <3>1. k = <<c, "r">> /\ i = 0
      BY <2>1, CidFacts
    <3> QED
      BY <1>0, <3>1, Zenon DEF FirstKnown
  <2>4. known \subseteq known' /\ known' \subseteq AllCids
    BY <1>2, <1>4, <2>2, Zenon
  <2> QED
    BY <1>1, <1>2, <2>3, <2>4, QuietInv, Zenon
<1> QED
  BY <1>3, <1>4, Zenon

\* The connection to which the server's own tables lead.
Direct(d) ==
    IF Looked(cid_map, d.dcid) = NoKey /\ (~d.long \/ d.dcid = NoCid)
    THEN addr_map[d.from] ELSE Looked(cid_map, d.dcid)

\* It leads to a connection the server holds, or nowhere.
LEMMA DirectFacts ==
    ASSUME Types, NoDanglingRoutes, NEW d, d.from \in Addrs
    PROVE  Direct(d) = NoKey \/ (Direct(d) \in Keys /\ owner[Direct(d)] = "server")
<1>1. CASE Looked(cid_map, d.dcid) = NoKey /\ (~d.long \/ d.dcid = NoCid)
  BY <1>1 DEF Direct, Types, NoDanglingRoutes
<1>2. CASE ~(Looked(cid_map, d.dcid) = NoKey /\ (~d.long \/ d.dcid = NoCid))
  <2>1. Direct(d) = Looked(cid_map, d.dcid)
    BY <1>2, Zenon DEF Direct
  <2>2. CASE d.dcid \in AllCids
    BY <2>1, <2>2 DEF Looked, Types, NoDanglingRoutes
  <2>3. CASE d.dcid \notin AllCids
    BY <2>1, <2>3, Zenon DEF Looked, Types
  <2> QED
    BY <2>2, <2>3, Zenon
<1> QED
  BY <1>1, <1>2, Zenon

\* The cases of ServerReads: handed to a connection of the server, passed on,
\* a new connection, a Retry, or dropped (perhaps with a Stateless Reset).
LEMMA ServerReadsCases ==
    ASSUME Types, NoDanglingRoutes, NEW d \in Datagrams, ServerReads(d)
    PROVE  /\ at' = "top" /\ Arrives(d)
           /\ \/ /\ Direct(d) \in Keys /\ owner[Direct(d)] = "server"
                 /\ \E remove \in BOOLEAN : ServerConnectionStep(Direct(d), remove)
                 /\ known' = known \cup Cids(Direct(d), active'[Direct(d)])
                 /\ Read(ServerTask, d, Direct(d))
              \/ /\ Direct(d) = NoKey
                 /\ shared_resolve(d) \in Keys /\ shared_resolve(d) \in senders
                 /\ deliver(shared_resolve(d))
                 /\ Read(ServerTask, d, shared_resolve(d))
                 /\ UNCHANGED <<conn, server, flushing, known>>
              \/ /\ Direct(d) = NoKey /\ shared_resolve(d) = NoKey /\ d.long
                 /\ \E k \in Keys :
                      /\ d.from = AddrOf[k[1]] /\ ~Full
                      /\ d.dcid = OriginalDcid(k[1]) \/ (d.dcid = Cid(k, 0) /\ k[2] = "r")
                      /\ k[2] = "r" => Cid(k, 0) \in known
                      /\ CreateConnection(k, d)
                      /\ Read(ServerTask, d, k)
              \/ /\ Direct(d) = NoKey /\ shared_resolve(d) = NoKey
                 /\ Read(ServerTask, d, NoKey) \/ (~is_taken_cid(d.dcid) /\ d.dcid # NoCid /\ ~d.long /\ Read(ServerTask, d, Reset))
                 /\ UNCHANGED <<conn, server, shared, flushing>>
                 /\ \/ known' = known
                    \/ \E c \in Clients : "r" \in Kinds /\ known' = known \cup {Cid(<<c, "r">>, 0)}
<1> DEFINE k == Direct(d)
           h == shared_resolve(d)
<1>1. /\ at' = "top" /\ Arrives(d)
      /\ \/ /\ k # NoKey
            /\ \E remove \in BOOLEAN : ServerConnectionStep(k, remove)
            /\ Sent(k)
            /\ Read(ServerTask, d, k)
         \/ /\ k = NoKey /\ h # NoKey
            /\ deliver(h)
            /\ Read(ServerTask, d, h)
            /\ UNCHANGED <<conn, server, flushing, known>>
         \/ /\ k = NoKey /\ h = NoKey /\ d.long
            /\ handle_new_connection(d)
         \/ /\ k = NoKey /\ h = NoKey /\ ~d.long
            /\ Read(ServerTask, d, NoKey) \/ (~is_taken_cid(d.dcid) /\ d.dcid # NoCid /\ Read(ServerTask, d, Reset))
            /\ Dropped
  BY Zenon DEF ServerReads, Direct
<1>2. /\ d.from \in Addrs
      /\ k = NoKey \/ (k \in Keys /\ owner[k] = "server")
      /\ h = NoKey \/ (h \in Keys /\ h \in senders)
  BY DatagramFacts, DirectFacts, ResolveFacts, Zenon
<1>3. CASE k # NoKey /\ (\E remove \in BOOLEAN : ServerConnectionStep(k, remove)) /\ Sent(k)
           /\ Read(ServerTask, d, k)
  BY <1>1, <1>2, <1>3, Zenon DEF Sent
<1>4. CASE k = NoKey /\ h # NoKey /\ deliver(h) /\ Read(ServerTask, d, h)
           /\ UNCHANGED <<conn, server, flushing, known>>
  BY <1>1, <1>2, <1>4, Zenon
<1>5. CASE k = NoKey /\ h = NoKey /\ ~d.long /\ Dropped
           /\ (Read(ServerTask, d, NoKey) \/ (~is_taken_cid(d.dcid) /\ d.dcid # NoCid /\ Read(ServerTask, d, Reset)))
  BY <1>1, <1>5, Zenon DEF Dropped
<1>6. ASSUME k = NoKey, h = NoKey, d.long, handle_new_connection(d)
      PROVE  \/ /\ \E x \in Keys :
                     /\ d.from = AddrOf[x[1]] /\ ~Full
                     /\ d.dcid = OriginalDcid(x[1]) \/ (d.dcid = Cid(x, 0) /\ x[2] = "r")
                     /\ x[2] = "r" => Cid(x, 0) \in known
                     /\ CreateConnection(x, d)
                     /\ Read(ServerTask, d, x)
             \/ /\ Read(ServerTask, d, NoKey)
                /\ UNCHANGED <<conn, server, shared, flushing>>
                /\ \/ known' = known
                   \/ \E c \in Clients : "r" \in Kinds /\ known' = known \cup {Cid(<<c, "r">>, 0)}
  <2> DEFINE c == d.dcid[1]
  <2>1. (d.dcid = OriginalDcid(c) \/ d.dcid = Cid(<<c, "r">>, 0)) =>
          d.dcid \in known /\ d.dcid \in AllCids /\ c \in Clients /\ d.from = AddrOf[c]
    <3>1. OriginalDcid(c) # NoCid /\ Cid(<<c, "r">>, 0) # NoCid
      BY Zenon DEF OriginalDcid, Cid, NoCid
    <3> QED
      BY <3>1, DatagramFacts, Zenon
  <2>2. CASE /\ d.dcid = OriginalDcid(c)
             /\ Retry = "always" \/ (Retry = "split" /\ ~Full)
             /\ SendRetry(c)
             /\ Read(ServerTask, d, NoKey)
    <3>1. "r" \in Kinds
      BY <2>2, Zenon DEF Kinds
    <3> QED
      BY <2>1, <2>2, <3>1, Zenon DEF SendRetry
  <2>3. CASE /\ d.dcid = OriginalDcid(c)
             /\ Retry # "always" /\ ~Full
             /\ CreateConnection(<<c, "s">>, d)
             /\ Read(ServerTask, d, <<c, "s">>)
    <3>1. "s" \in Kinds
      BY <2>3, Zenon DEF Kinds
    <3>2. <<c, "s">> \in Keys /\ <<c, "s">>[1] = c /\ <<c, "s">>[2] = "s"
      BY <2>1, <2>3, <3>1, KeyFacts, Zenon
    <3> QED
      BY <2>1, <2>3, <3>2, Zenon
  <2>4. CASE /\ d.dcid = Cid(<<c, "r">>, 0)
             /\ ~Full
             /\ CreateConnection(<<c, "r">>, d)
             /\ Read(ServerTask, d, <<c, "r">>)
    <3>1. <<c, "r">> \in Keys
      <4>1. d.dcid = <<c, "r", 0>>
        BY <2>4, Zenon DEF Cid
      <4>2. d.dcid # OriginalDcid(c) /\ \A e : d.dcid # OriginalDcid(e)
        BY <4>1 DEF OriginalDcid
      <4>3. PICK x \in Keys, i \in 0..MaxIssued : d.dcid = Cid(x, i)
        BY <2>1, <2>4, <4>2, CidFacts, Zenon
      <4> QED
        BY <4>1, <4>3, CidFacts, KeyFacts
    <3>2. <<c, "r">>[1] = c /\ <<c, "r">>[2] = "r"
      BY Zenon
    <3> HIDE DEF c
    <3> QED
      BY <2>1, <2>4, <3>1, <3>2, Zenon
  <2>5. CASE Dropped /\ Read(ServerTask, d, NoKey)
    BY <2>5, Zenon DEF Dropped
  <2> QED
    BY <1>6, <2>2, <2>3, <2>4, <2>5, Zenon DEF handle_new_connection
<1> HIDE DEF k, h
<1>7. CASE k = NoKey /\ h = NoKey /\ d.long /\ handle_new_connection(d)
  BY <1>1, <1>6, <1>7, Zenon DEF k, h
<1> QED
  BY <1>1, <1>3, <1>4, <1>5, <1>7, Zenon

\* Server::accept reads a datagram.
LEMMA ServerReadsInv == ASSUME IndInv, NEW d \in Datagrams, ServerReads(d) PROVE IndInv'
<1>0. Types /\ NoDanglingRoutes
  BY Zenon DEF IndInv
<1>1. at' \in {"top", "select", "timers"}
  BY <1>0, ServerReadsCases, Zenon
<1>2. CASE /\ Direct(d) \in Keys /\ owner[Direct(d)] = "server"
           /\ \E remove \in BOOLEAN : ServerConnectionStep(Direct(d), remove)
           /\ known' = known \cup Cids(Direct(d), active'[Direct(d)])
  BY <1>1, <1>2, ServerStepInv, Zenon
<1>3. CASE /\ shared_resolve(d) \in Keys /\ shared_resolve(d) \in senders
           /\ deliver(shared_resolve(d))
           /\ UNCHANGED <<conn, server, flushing, known>>
  BY <1>1, <1>3, DeliverInv, Zenon
<1>4. CASE \E k \in Keys : /\ d.from = AddrOf[k[1]] /\ ~Full
                           /\ k[2] = "r" => Cid(k, 0) \in known
                           /\ CreateConnection(k, d)
  BY <1>1, <1>4, CreateInv, Zenon
<1>5. CASE /\ UNCHANGED <<conn, server, shared, flushing>>
           /\ \/ known' = known
              \/ \E c \in Clients : "r" \in Kinds /\ known' = known \cup {Cid(<<c, "r">>, 0)}
  BY <1>1, <1>5, DroppedInv, Zenon
<1> QED
  BY <1>0, <1>2, <1>3, <1>4, <1>5, ServerReadsCases, Zenon

\* The handle k reads a datagram, from its queue or from the socket.
LEMMA HandleReadsInv ==
    ASSUME IndInv, NEW k \in Keys, owner[k] = "handle", HandleReads(k),
           queued' \in [Keys -> 0..MaxQueued], UNCHANGED <<server, at, flushing, known>>
    PROVE  IndInv'
<1>0. Types /\ Bookkeeping
  BY Zenon DEF IndInv
<1>1. PICK s \in Statuses, N \in New(k), R \in Gone(k) :
        /\ Progress(k, s, N, R)
        /\ sync_routes(k, issued[k] \cup N, retired[k] \cup R)
        /\ issued' = [issued EXCEPT ![k] = {}]
        /\ retired' = [retired EXCEPT ![k] = {}]
        /\ UNCHANGED owner
  BY Zenon DEF HandleReads
<1>2. /\ N \in SUBSET (0..MaxIssued) /\ R \in SUBSET (0..MaxIssued) /\ R \subseteq active[k]
      /\ status' \in [Keys -> Statuses]
      /\ count' \in [Keys -> 0..MaxIssued] /\ active' \in [Keys -> SUBSET (0..MaxIssued)]
      /\ \A l \in Keys \ {k} : active'[l] = active[l] /\ count'[l] = count[l]
      /\ active'[k] = (active[k] \cup N) \ R
      /\ count[k] <= count'[k]
      /\ \A i \in N : i > count[k] /\ i <= count'[k]
  BY <1>0, <1>1, ProgressFacts, Zenon
<1>3. /\ flushing' \in [Keys -> {"no", "sending", "sent"}]
      /\ \A l \in Keys : flushing'[l] # "no" => owner[l] = "handle"
  BY <1>0, Zenon DEF Types, Bookkeeping
<1> QED
  BY <1>1, <1>2, <1>3, SyncInv, Zenon

\* sync_routes at the end of a flush.
LEMMA HandleSyncsInv == ASSUME IndInv, NEW k \in Keys, HandleSyncs(k) PROVE IndInv'
<1>0. Types /\ Bookkeeping
  BY Zenon DEF IndInv
<1>a. PICK N \in SUBSET (0..MaxIssued), R \in SUBSET (0..MaxIssued) : N = {} /\ R = {}
  BY Zenon
<1>1. /\ flushing[k] = "sent" /\ flushing' = [flushing EXCEPT ![k] = "no"]
      /\ sync_routes(k, issued[k] \cup N, retired[k] \cup R)
      /\ issued' = [issued EXCEPT ![k] = {}] /\ retired' = [retired EXCEPT ![k] = {}]
      /\ UNCHANGED <<owner, server, at, known>>
      /\ UNCHANGED <<status, count, active, queued>>
  <2>1. issued[k] \cup N = issued[k] /\ retired[k] \cup R = retired[k]
    BY <1>a, Zenon
  <2> QED
    BY <2>1, Zenon DEF HandleSyncs
<1>2. owner[k] = "handle"
  BY <1>0, <1>1, Zenon DEF Bookkeeping
<1>3. /\ status' \in [Keys -> Statuses] /\ queued' \in [Keys -> 0..MaxQueued]
      /\ count' \in [Keys -> 0..MaxIssued] /\ active' \in [Keys -> SUBSET (0..MaxIssued)]
      /\ \A l \in Keys \ {k} : active'[l] = active[l] /\ count'[l] = count[l]
      /\ active'[k] = (active[k] \cup N) \ R
  BY <1>0, <1>a, <1>1, Zenon DEF Types
<1>4. count[k] <= count'[k]
  <2>1. count[k] \in 0..MaxIssued
    BY <1>0, Zenon DEF Types
  <2> QED
    BY <1>1, <2>1
<1>5. /\ flushing' \in [Keys -> {"no", "sending", "sent"}]
      /\ \A l \in Keys : flushing'[l] # "no" => owner[l] = "handle"
  BY <1>0, <1>1, Zenon DEF Types, Bookkeeping
<1>6. R \subseteq active[k] /\ \A i \in N : i > count[k] /\ i <= count'[k]
  BY <1>a, Zenon
<1> QED
  BY <1>1, <1>2, <1>3, <1>4, <1>5, <1>6, SyncInv, Zenon

\* Packets go out, the future is dropped, or the handle is closed.
LEMMA HandleQuietInv ==
    ASSUME IndInv, NEW k \in Keys, HandleSends(k) \/ HandleCancelled(k) \/ HandleClose(k)
    PROVE  IndInv'
<1>0. Types /\ Bookkeeping
  BY Zenon DEF IndInv
<1>1. /\ UNCHANGED <<owner, count, active, issued, retired, cid_map, addr_map, taken_cids,
                     shared_cid_map, shared_addr_map, senders, shared_taken_cids, queued, at>>
      /\ status' = status \/ status' = [status EXCEPT ![k] = "closed"]
      /\ \/ flushing' = flushing
         \/ flushing[k] = "sending" /\ flushing' = [flushing EXCEPT ![k] = "sent"]
         \/ flushing[k] = "sending" /\ flushing' = [flushing EXCEPT ![k] = "no"]
      /\ \/ known' = known
         \/ flushing[k] = "sending" /\ known' = known \cup Cids(k, active[k])
  BY Zenon DEF HandleSends, HandleCancelled, HandleClose, conn, server, shared
<1>2. /\ status' \in [Keys -> Statuses] /\ at' \in {"top", "select", "timers"}
      /\ queued' \in [Keys -> 0..MaxQueued]
  BY <1>0, <1>1, Zenon DEF Types, Statuses
<1>3. /\ flushing' \in [Keys -> {"no", "sending", "sent"}]
      /\ \A l \in Keys : flushing'[l] # "no" => owner[l] = "handle"
  <2>1. /\ flushing \in [Keys -> {"no", "sending", "sent"}]
        /\ \A l \in Keys : flushing[l] # "no" => owner[l] = "handle"
    BY <1>0, Zenon DEF Types, Bookkeeping
  <2>2. CASE flushing' = flushing
    BY <2>1, <2>2, Zenon
  <2>3. CASE flushing[k] = "sending" /\ flushing' = [flushing EXCEPT ![k] = "sent"]
    BY <2>1, <2>3, Zenon
  <2>4. CASE flushing[k] = "sending" /\ flushing' = [flushing EXCEPT ![k] = "no"]
    BY <2>1, <2>4, Zenon
  <2> QED
    BY <1>1, <2>2, <2>3, <2>4, Zenon
<1>4. /\ known \subseteq known' /\ known' \subseteq AllCids
      /\ \A l \in Keys, i \in 0..MaxIssued : Cid(l, i) \in known' =>
           Cid(l, i) \in known \/ (owner[l] # "none" /\ i \in active[l])
  <2>1. known \subseteq AllCids /\ active[k] \subseteq 0..MaxIssued
    BY <1>0, Zenon DEF Types
  <2>2. flushing[k] = "sending" => owner[k] # "none"
    BY <1>0, Zenon DEF Bookkeeping
  <2> QED
    BY <1>1, <2>1, <2>2, CidsFacts
<1> QED
  BY <1>1, <1>2, <1>3, <1>4, QuietInv, Zenon

\* Every step of a handle.
LEMMA HandleStepInv == ASSUME IndInv, NEW k \in Keys, HandleStep(k) PROVE IndInv'
<1>0. Types /\ NoDanglingRoutes /\ Bookkeeping
  BY Zenon DEF IndInv
<1>1. CASE HandleReadsQueue(k)
  <2>1. queued' \in [Keys -> 0..MaxQueued]
    <3>1. queued \in [Keys -> 0..MaxQueued] /\ queued[k] \in 0..MaxQueued
      BY <1>0, Zenon DEF Types
    <3>2. queued' = [queued EXCEPT ![k] = queued[k] - 1] /\ queued[k] > 0
      BY <1>1, Zenon DEF HandleReadsQueue
    <3>3. queued[k] - 1 \in 0..MaxQueued
      BY <3>1, <3>2, ServerRoutesAssumption
    <3> QED
      BY <3>1, <3>2, <3>3, Zenon
  <2> QED
    BY <1>1, <2>1, HandleReadsInv, Zenon DEF HandleReadsQueue, Idle
<1>2. ASSUME NEW d \in Datagrams, HandleReadsSocket(k, d) PROVE IndInv'
  <2>1. CASE ForAnother(k, shared_resolve(d))
    <3>1. /\ deliver(shared_resolve(d)) /\ UNCHANGED <<conn, server, flushing, known>> /\ UNCHANGED at
      BY <1>2, <2>1, Zenon DEF HandleReadsSocket
    <3>2. shared_resolve(d) \in Keys /\ shared_resolve(d) \in senders
      BY <1>0, <2>1, DatagramFacts, ResolveFacts, Zenon DEF ForAnother
    <3>3. at' \in {"top", "select", "timers"}
      BY <1>0, <3>1, Zenon DEF Types
    <3> QED
      BY <3>1, <3>2, <3>3, DeliverInv, Zenon
  <2>2. CASE ~ForAnother(k, shared_resolve(d))
    <3>1. /\ owner[k] = "handle" /\ HandleReads(k) /\ queued' = queued
          /\ UNCHANGED <<server, at, flushing, known>>
      BY <1>2, <2>2, Zenon DEF HandleReadsSocket, Idle
    <3>2. queued' \in [Keys -> 0..MaxQueued]
      BY <1>0, <3>1, Zenon DEF Types
    <3> QED
      BY <3>1, <3>2, HandleReadsInv, Zenon
  <2> QED
    BY <2>1, <2>2, Zenon
<1>3. ASSUME NEW fails \in BOOLEAN, HandleFlush(k, fails) PROVE IndInv'
  <2>1. /\ owner[k] = "handle" /\ HandleProgress(k) /\ UNCHANGED <<server, at, shared>> /\ known' = known
        /\ flushing' = [flushing EXCEPT ![k] = IF fails THEN "no" ELSE "sending"]
    BY <1>3, Zenon DEF HandleFlush, Idle
  <2>2. /\ flushing' \in [Keys -> {"no", "sending", "sent"}]
        /\ \A l \in Keys : flushing'[l] # "no" => owner[l] = "handle"
    BY <1>0, <2>1, Zenon DEF Types, Bookkeeping
  <2> QED
    BY <2>1, <2>2, HandleProgressInv, Zenon
<1>4. CASE HandleDatagram(k) \/ HandleTimer(k)
  <2>1. /\ owner[k] = "handle" /\ HandleProgress(k) /\ UNCHANGED <<server, at, shared>>
        /\ flushing' = flushing
        /\ known' = known \/ known' = known \cup Cids(k, active'[k])
    BY <1>4, Zenon DEF HandleDatagram, HandleTimer, Idle, Sent
  <2>2. /\ flushing' \in [Keys -> {"no", "sending", "sent"}]
        /\ \A l \in Keys : flushing'[l] # "no" => owner[l] = "handle"
    BY <1>0, <2>1, Zenon DEF Types, Bookkeeping
  <2> QED
    BY <2>1, <2>2, HandleProgressInv, Zenon
<1>5. CASE HandleSends(k) \/ HandleCancelled(k) \/ HandleClose(k)
  BY <1>5, HandleQuietInv, Zenon
<1>6. CASE HandleSyncs(k)
  BY <1>6, HandleSyncsInv, Zenon
<1>7. CASE HandleDrop(k)
  BY <1>7, DropInv, Zenon
<1> QED
  BY <1>1, <1>2, <1>3, <1>4, <1>5, <1>6, <1>7, Zenon DEF HandleStep

\* The timers of the server's connections.
LEMMA TimersInv ==
    ASSUME IndInv, (\E k \in Keys : ServerTimer(k)) \/ ServerTimersDone
    PROVE  IndInv'
<1>1. ASSUME NEW k \in Keys, ServerTimer(k) PROVE IndInv'
  BY <1>1, ServerStepInv, Zenon DEF ServerTimer
<1>2. CASE ServerTimersDone
  BY <1>2, DroppedInv, Zenon DEF ServerTimersDone
<1> QED
  BY <1>1, <1>2, Zenon

\* A new server satisfies the invariant.
LEMMA InitInv == Init => IndInv
<1> SUFFICES ASSUME Init PROVE IndInv
  BY Zenon
<1> USE DEF Init
<1>1. AtServer = {}
  BY Zenon DEF AtServer
<1>2. Types
  <2>1. TakenOK({})
    BY SmallSets, ServerRoutesAssumption DEF TakenOK
  <2>2. IsFiniteSet(AtServer) /\ Cardinality(AtServer) <= MaxConnections
    BY <1>1, SmallSets, ServerRoutesAssumption
  <2>3. known \subseteq AllCids
    BY Zenon DEF AllCids
  <2>4. 0 \in 0..MaxIssued /\ 0 \in 0..MaxQueued
    BY ServerRoutesAssumption
  <2> QED
    BY <2>1, <2>2, <2>3, <2>4, Zenon DEF Types, Statuses
<1>3. NoDanglingRoutes
  BY Zenon DEF NoDanglingRoutes
<1>4. RoutesBelong
  BY CidFacts, KeyFacts, Zenon DEF RoutesBelong
<1>5. RoutesFollowActiveCids /\ Bookkeeping /\ RetiredRouted
  BY Zenon DEF RoutesFollowActiveCids, Bookkeeping, RetiredRouted
<1>6. FirstKnown /\ RetiredRemembered
  BY CidFacts DEF FirstKnown, RetiredRemembered
<1> QED
  BY <1>2, <1>3, <1>4, <1>5, <1>6, Zenon DEF IndInv

\* Every step keeps the invariant.
LEMMA NextInv == ASSUME IndInv, [Next]_vars PROVE IndInv'
<1>1. CASE Next
  BY <1>1, AcceptTopInv, ServerReadsInv, TimersInv, HandleStepInv, Zenon DEF Next
<1>2. CASE UNCHANGED vars
  <2>1. UNCHANGED <<conn, server, shared, flushing>> /\ at' = at /\ known' = known
    BY <1>2, Zenon DEF vars
  <2>2. at' \in {"top", "select", "timers"}
    BY <2>1, Zenon DEF IndInv, Types
  <2> QED
    BY <2>1, <2>2, DroppedInv, Zenon
<1> QED
  BY <1>1, <1>2, Zenon

-----------------------------------------------------------------------------
(* The tables.                                                             *)

\* Whatever order the tasks of the server and of the handles run in, the invariant
\* of the routing tables holds.
THEOREM RoutesInductive == Spec => []IndInv
BY InitInv, NextInv, PTL DEF Spec

\* The variables keep their types, and taken_cids, the queues and the server's
\* connections keep within MAX_TAKEN_CIDS, MAX_QUEUED_DATAGRAMS and MAX_CONNECTIONS.
THEOREM TypeCorrect == Spec => []TypeOK
<1>1. IndInv => TypeOK
  BY Zenon DEF IndInv, Types, TakenOK, AtServer, TypeOK
<1> QED
  BY <1>1, RoutesInductive, PTL

\* No route outlives its connection: take_connection, remove_closed_connections, the
\* errors of handle_existing_connection and Drop for AcceptedConnection all remove
\* what they must, so that deliver always finds a queue.
THEOREM NeverDangling == Spec => []NoDanglingRoutes
<1>1. IndInv => NoDanglingRoutes
  BY Zenon DEF IndInv
<1> QED
  BY <1>1, RoutesInductive, PTL

\* The CIDs routed to a connection are those ngtcp2 has active, apart from what
\* sync_routes has still to poll, across the hand-over and cancelled flushes.
THEOREM RoutesFollow == Spec => []RoutesFollowActiveCids
<1>1. IndInv => RoutesFollowActiveCids
  BY Zenon DEF IndInv
<1> QED
  BY <1>1, RoutesInductive, PTL
=============================================================================
