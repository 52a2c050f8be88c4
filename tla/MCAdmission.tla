----------------------------- MODULE MCAdmission -----------------------------
(* A request under hot reload, with a handful of edits. *)
EXTENDS Admission

CONSTANT q1

\* Key and model come with one edit and go with another.
Paired == {[key |-> first..last, model |-> first..last] : first, last \in Versions}

\* The model is dropped, or renamed and renamed back, under a key that stays.
Unpaired == {[key |-> Versions, model |-> {0}], [key |-> Versions, model |-> {0, 2}]}

SomeClients == Paired \cup Unpaired
=============================================================================
