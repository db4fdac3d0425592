--------------------------- MODULE MCServerRoutes ---------------------------
(* Small instances of ServerRoutes.                                        *)
EXTENDS ServerRoutes, TLC

CONSTANTS c1, c2, a1, a2

\* Each client has an address of its own, or both use the same.
OwnAddress == (c1 :> a1) @@ (c2 :> a2)
SameAddress == [c \in {c1, c2} |-> a1]
OneClient == (c1 :> a1)

\* The clients are alike; with addresses of their own, together with these.
Symmetry == Permutations({c1, c2})
SymmetryWithAddress ==
    {p \in Permutations({c1, c2, a1, a2}) :
        \A c \in {c1, c2} : p[c] \in {c1, c2} /\ OwnAddress[p[c]] = p[OwnAddress[c]]}
=============================================================================
