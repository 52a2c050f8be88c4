----------------------- MODULE MCResponsesTranslator -----------------------
(* ResponsesTranslator over short bodies: texts, reasoning, usages and pieces *)
(* of tool calls, in the order the upstream chooses.                          *)
EXTENDS ResponsesTranslator

\* Two calls; a sloppy upstream may go below zero, or begin at one.
CallIndexes == {-1, 0, 1}

\* Enough for a text, two calls and arguments for both.
PieceBounds == [u \in Upstreams |-> 4]
=============================================================================
