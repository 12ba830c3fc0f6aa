---------------------------- MODULE MCRolesSync ----------------------------
(* Small instances of RolesSync for TLC.                                   *)
EXTENDS RolesSync, TLC

CONSTANTS m1, m2, r1, r2, r3

TwoInOneModule == r1 :> m1 @@ r2 :> m1
TwoInOneOneInOther == r1 :> m1 @@ r2 :> m1 @@ r3 :> m2

Symmetry == Permutations(Server) \cup Permutations(Copy) \cup Permutations(Group)
            \cup Permutations(User)
=============================================================================
