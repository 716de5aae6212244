---------------------------- MODULE MCProfileStore ----------------------------
(* An ask and a question, and two threads that file, decide and answer.         *)
EXTENDS ProfileStore, TLC

CONSTANTS m1, m2, a1, a2, q1

Same == Permutations(Threads) \cup Permutations(Approvals)
===============================================================================
