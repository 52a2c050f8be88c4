----------------------------- MODULE MCRouting -----------------------------
(* Routing over every pair of small configurations. *)
EXTENDS Routing

CONSTANTS a, b, q1
=============================================================================
