---------------------------- MODULE MCDeltaApply ----------------------------
(* Two artifacts for TLC.  The first stores a row of key k1 and changes it;  *)
(* the second moves that row to key k2, the two events of a primary-key      *)
(* UPDATE, which carry the same position.                                    *)
EXTENDS DeltaApply, TLC

CONSTANTS load, move, k1, k2, r1, r2, h1, h2

MCRowHash == (r1 :> h1) @@ (r2 :> h2)

MCArtifact ==
    (load :> {[key |-> k1, row |-> r1, pos |-> 1], [key |-> k1, row |-> r2, pos |-> 2]}) @@
    (move :> {[key |-> k1, row |-> Absent, pos |-> 3], [key |-> k2, row |-> r2, pos |-> 3]})
=============================================================================
