--------------------------- MODULE MCCardSessions ---------------------------
(* CardSessions for TLC: the constants are given by the configurations. *)
EXTENDS CardSessions, TLC

\* Threads and contexts are interchangeable: Init and Next treat them alike.
Symmetry == Permutations(Threads) \cup Permutations(Contexts)
=============================================================================
