----------------------------- MODULE MCTransport ------------------------------
(* Two threads post two messages, the first of them urgent.                  *)
EXTENDS DistributedTransport, TLC

MCUrgent == {1}
Symmetry == Permutations(Poster)
===============================================================================
