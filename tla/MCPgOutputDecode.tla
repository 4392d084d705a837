-------------------------- MODULE MCPgOutputDecode --------------------------
(* A table of two rows; bodies, replica identities and bounds from the .cfg. *)
EXTENDS PgOutputDecode, TLC

CONSTANTS k1, k2, b1, b2

MCSymmetry == Permutations(Keys)
=============================================================================
