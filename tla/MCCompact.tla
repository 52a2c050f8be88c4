----------------------------- MODULE MCCompact -----------------------------
(* Two compact commands on a database that is written all the while. *)
EXTENDS Compact, TLC

CONSTANTS c1, c2

Symmetry == Permutations(Runs)
=============================================================================
