---------------------------- MODULE MCLogicalCdc ----------------------------
(* A source that inserts, changes, moves and deletes one of two rows, in    *)
(* transactions of one or two changes, one of them against the contract.    *)
EXTENDS LogicalCdc, TLC

CONSTANTS k1, k2, r1, r2, h1, h2

MCRowHash == (r1 :> h1) @@ (r2 :> h2)

Insert(k, r) == [op |-> "I", old |-> k, key |-> k, row |-> r]
Update(j, k, r) == [op |-> "U", old |-> j, key |-> k, row |-> r]
Remove(k) == [op |-> "D", old |-> k, key |-> k, row |-> Absent]

MCMenu ==
    { <<Insert(k1, r1)>>,
      <<Update(k1, k2, r1), Update(k2, k2, r2)>>,
      <<Update(k2, k1, r2)>>,
      <<Remove(k1), Insert(k1, r1)>>,
      <<Remove(k2)>>,
      <<Update(k1, k1, r2), Insert(k2, Invalid)>>,
      <<>> }
=============================================================================
