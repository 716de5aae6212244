----------------------------- MODULE MCChangeSets -----------------------------
(* Two processes, two edits of one file.                                       *)
EXTENDS ChangeSets, TLC

CONSTANTS host, cli, e1, e2

Same == Permutations(Procs) \cup Permutations(Sets)
===============================================================================
