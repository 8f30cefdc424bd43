------------------------------- MODULE MCUFifo ------------------------------
(* A ufifo, with threads that either push or pop.                          *)
EXTENDS UFifo, TLC

ThreadsOfBoth == Producers \cup Consumers
Alike == Permutations(Producers) \cup Permutations(Objects)
EmptyList == {"lifo_empty"}
=============================================================================
