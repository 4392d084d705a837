--------------------------- MODULE MCCuratedTarget ---------------------------
(* A small target for TLC: the hash of a payload is told apart from it. *)
EXTENDS CuratedTarget, TLC

CONSTANTS s1, s2, r1, r2, h1, h2

MCRowHash == (r1 :> h1) @@ (r2 :> h2)
MCBatchSize == (s1 :> 1) @@ (s2 :> 2)
=============================================================================
