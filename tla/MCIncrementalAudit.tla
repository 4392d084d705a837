------------------------- MODULE MCIncrementalAudit -------------------------
(* Transactions that insert, change, delete, break and move two rows. *)
EXTENDS IncrementalAudit, TLC

CONSTANTS k1, k2, r1, r2, h1, h2

MCRowHash == (r1 :> h1) @@ (r2 :> h2)

Write(k, r) == [old |-> k, key |-> k, row |-> r]
Move(j, k, r) == [old |-> j, key |-> k, row |-> r]

MCMenu ==
    { Write(k1, r1), Write(k1, r2), Write(k1, Absent), Write(k1, Invalid), Write(k2, r1),
      Move(k1, k2, r2), Move(k1, k2, Invalid) }
=============================================================================
