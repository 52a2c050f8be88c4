------------------------- MODULE MCStreamForwarder -------------------------
(* StreamForwarder over short bodies, cut into chunks in every way. *)
EXTENDS StreamForwarder

\* A text, one whose line is longer than the buffer, pieces of two tool calls
\* (the first of them named twice), two usages, and the end mark [DONE].
MCPayloads ==
    [t1 |-> [size |-> 2, what |-> "text"],
     long |-> [size |-> 3, what |-> "text"],
     n0 |-> [size |-> 2, what |-> "tool", index |-> 0, name |-> "f"],
     m0 |-> [size |-> 2, what |-> "tool", index |-> 0, name |-> "g"],
     a1 |-> [size |-> 2, what |-> "tool", index |-> 1, name |-> ""],
     u1 |-> [size |-> 2, what |-> "usage", tokens |-> 1],
     u2 |-> [size |-> 2, what |-> "usage", tokens |-> 2],
     done |-> [size |-> 1, what |-> "done"]]
=============================================================================
