--------------------------- MODULE MCSnacExchange ---------------------------
(* SnacExchange on small instances: who sends what is chosen in each .cfg. *)
EXTENDS SnacExchange, TLC

\* The threads of the online instance are alike.
ThreadSymmetry == Permutations(Threads)
=============================================================================
