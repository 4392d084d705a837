----------------------------- MODULE MCHashDiff -----------------------------
EXTENDS HashDiff, TLC

CONSTANTS daily, replay, k1, k2, r1, r2, h1, h2

MCRowHash == (r1 :> h1) @@ (r2 :> h2)
=============================================================================
