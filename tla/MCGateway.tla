----------------------------- MODULE MCGateway -----------------------------
(* Gateway with a few requests and an audit queue small enough to overflow. *)
EXTENDS Gateway, TLC

CONSTANTS q1, q2

Symmetry == Permutations(Requests)
=============================================================================
