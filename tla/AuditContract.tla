--------------------------- MODULE AuditContract ---------------------------
(***************************************************************************)
(* What internal/audit promises the request handlers about audit records,  *)
(* with the channel, the worker goroutine and its batches left out.        *)
(*                                                                         *)
(* A record that Submit accepts waits in one first-in first-out line and   *)
(* leaves it exactly once, stored or refused by the database.  A record is *)
(* turned away at the door only while at least QueueCap others wait, and   *)
(* the line never holds more than QueueCap + BatchSize records.  Closing   *)
(* ends admission; the line is declared drained only once it is empty.     *)
(***************************************************************************)
EXTENDS Naturals, Sequences

CONSTANTS Records,     \* the audit records of a run, one per audited request
          QueueCap,    \* capacity of the channel behind Submit
          BatchSize    \* records the worker gathers before it writes

VARIABLES fate,        \* what has become of each record
          pending,     \* accepted records without an outcome, oldest first
          phase        \* "open", then "closing", then "drained"

contractVars == <<fate, pending, phase>>

Init ==
    /\ fate = [r \in Records |-> "unsent"]
    /\ pending = <<>>
    /\ phase = "open"

\* Submit takes the record.
Accept(r) ==
    /\ phase = "open"
    /\ fate[r] = "unsent"
    /\ Len(pending) < QueueCap + BatchSize
    /\ fate' = [fate EXCEPT ![r] = "accepted"]
    /\ pending' = Append(pending, r)
    /\ UNCHANGED phase

\* Submit drops the record: allowed only behind a full backlog.
Drop(r) ==
    /\ phase = "open"
    /\ fate[r] = "unsent"
    /\ Len(pending) >= QueueCap
    /\ fate' = [fate EXCEPT ![r] = "dropped"]
    /\ UNCHANGED <<pending, phase>>

\* Submit is called after the line was closed; the record has no way in.
Refuse(r) ==
    /\ phase # "open"
    /\ fate[r] = "unsent"
    /\ fate' = [fate EXCEPT ![r] = "refused"]
    /\ UNCHANGED <<pending, phase>>

\* The oldest waiting record is written, or the database rejects it.
Settle(outcome) ==
    /\ pending # <<>>
    /\ fate[Head(pending)] = "accepted"
    /\ fate' = [fate EXCEPT ![Head(pending)] = outcome]
    /\ pending' = Tail(pending)
    /\ UNCHANGED phase

Close ==
    /\ phase = "open"
    /\ phase' = "closing"
    /\ UNCHANGED <<fate, pending>>

Drained ==
    /\ phase = "closing"
    /\ pending = <<>>
    /\ phase' = "drained"
    /\ UNCHANGED <<fate, pending>>

Next ==
    \/ \E r \in Records : Accept(r) \/ Drop(r) \/ Refuse(r)
    \/ \E outcome \in {"stored", "failed"} : Settle(outcome)
    \/ Close
    \/ Drained

Spec == Init /\ [][Next]_contractVars
=============================================================================
