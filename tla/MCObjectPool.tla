---------------------------- MODULE MCObjectPool ----------------------------
(* Model-checking instance of ObjectPool.  The number of addresses bounds  *)
(* how far the pool can grow: an enlargement that would need more is not   *)
(* taken.                                                                  *)
EXTENDS ObjectPool

SevenObjects == 1..7
=============================================================================
