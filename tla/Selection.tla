----------------------------- MODULE Selection -----------------------------
(* Elements of a sequence in their order; by recursion on functions, which   *)
(* the proofs can follow.                                                    *)
EXTENDS Integers, Sequences

\* The elements of s at the given places.
Pick(s, places) ==
    LET picked[i \in 0..Len(s)] ==
            IF i = 0 THEN <<>>
            ELSE IF i \in places THEN Append(picked[i - 1], s[i])
            ELSE picked[i - 1]
    IN  picked[Len(s)]

\* The elements of s that are in T.
Only(s, T) == Pick(s, {i \in DOMAIN s : s[i] \in T})
=============================================================================
