------------------------ MODULE MCRelationshipFacts ------------------------
(***************************************************************************)
(* Values of the constants of RelationshipFacts for TLC.                   *)
(***************************************************************************)
EXTENDS RelationshipFacts, TLC

CONSTANTS r1, r2, l1, l2, l3

\* Three links for two people: one of them is sent a link that replaces another.
MCEmailOf == l1 :> "buyer" @@ l2 :> "owner" @@ l3 :> "buyer"
Symmetry == Permutations({r1, r2})

=============================================================================
