--------------------------- MODULE MCAsyncWriter ---------------------------
(* AsyncWriter on a few records, with channel and batch small enough to fill. *)
EXTENDS AsyncWriter

CONSTANTS r1, r2, r3, r4
=============================================================================
