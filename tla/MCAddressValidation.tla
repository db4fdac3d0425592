------------------------ MODULE MCAddressValidation ------------------------
(* Attempts and addresses are alike.                                       *)
EXTENDS AddressValidation, TLC

CONSTANTS c1, c2, a1, a2

\* A permutation maps attempts to attempts and addresses to addresses.
Symmetry ==
    {f \in Permutations({c1, c2, a1, a2}) :
        {f[c1], f[c2]} = {c1, c2} /\ {f[a1], f[a2]} = {a1, a2}}
=============================================================================
