---------------------------- MODULE AsyncWriter ----------------------------
(***************************************************************************)
(* internal/audit/store.go: AsyncWriter and the store behind it.           *)
(*                                                                         *)
(* Every request goroutine calls Submit once, with its own record.  Submit *)
(* is a non-blocking send on a buffered channel; when the channel is full  *)
(* it bumps an unsynchronised counter.  One worker goroutine moves records *)
(* from the channel to a batch and inserts the batch row by row, when it   *)
(* is full, when a ticker fires, or when the channel is closed.  Drain     *)
(* closes the channel and waits for the worker.                            *)
(*                                                                         *)
(* A crash of the process is a behaviour that stops: every invariant below *)
(* therefore also says what a crash at any point leaves in the database.   *)
(***************************************************************************)
EXTENDS Naturals, Sequences, FiniteSets

CONSTANTS Records,     \* the audit records of a run, one per audited request
          QueueCap,    \* NewAsyncWriter's bufferSize
          BatchSize    \* the worker's batchSize

ASSUME WriterAssumption ==
    /\ QueueCap \in Nat \ {0}
    /\ BatchSize \in Nat \ {0}

VARIABLES queue,       \* the buffered channel
          batch,       \* received by the worker and not inserted yet
          worker,      \* where the worker goroutine stands
          drain,       \* where the caller of Drain stands
          submit,      \* where each record's Submit call stands
          row,         \* what the database holds of each record
          dropped,     \* AsyncWriter.dropped
          loaded       \* the value of dropped a Submit call has read

channelVars == <<queue, batch, worker, drain>>
counterVars == <<dropped, loaded>>
writerVars  == <<queue, batch, worker, drain, submit, row, dropped, loaded>>

WorkerStates == {"select", "flush", "final", "stopped"}
DrainStates  == {"idle", "waiting", "returned"}
SubmitStates == {"idle", "sent", "full", "counting", "dropped", "panicked"}
RowStates    == {"none", "stored", "failed"}

\* A channel closed by Drain stays closed.
Closed == drain # "idle"

\* Everything accepted and not inserted yet, oldest first.
InMemory == batch \o queue

TypeOK ==
    /\ queue \in Seq(Records)
    /\ batch \in Seq(Records)
    /\ Len(queue) <= QueueCap
    /\ Len(batch) <= BatchSize
    /\ worker \in WorkerStates
    /\ drain \in DrainStates
    /\ submit \in [Records -> SubmitStates]
    /\ row \in [Records -> RowStates]
    /\ dropped \in Nat
    /\ loaded \in [Records -> Nat]

Init ==
    /\ queue = <<>>
    /\ batch = <<>>
    /\ worker = "select"
    /\ drain = "idle"
    /\ submit = [r \in Records |-> "idle"]
    /\ row = [r \in Records |-> "none"]
    /\ dropped = 0
    /\ loaded = [r \in Records |-> 0]

-----------------------------------------------------------------------------
(* Submit, run by the goroutine of r's request. *)

\* The send case of the select is ready: there is room.
Send(r) ==
    /\ submit[r] = "idle"
    /\ ~Closed
    /\ Len(queue) < QueueCap
    /\ queue' = Append(queue, r)
    /\ submit' = [submit EXCEPT ![r] = "sent"]
    /\ UNCHANGED <<batch, worker, drain, row, counterVars>>

\* The default case: no room.
FindFull(r) ==
    /\ submit[r] = "idle"
    /\ ~Closed
    /\ Len(queue) = QueueCap
    /\ submit' = [submit EXCEPT ![r] = "full"]
    /\ UNCHANGED <<channelVars, row, counterVars>>

\* w.dropped++ is a load and a store with no lock between two Submit calls.
LoadDropped(r) ==
    /\ submit[r] = "full"
    /\ loaded' = [loaded EXCEPT ![r] = dropped]
    /\ submit' = [submit EXCEPT ![r] = "counting"]
    /\ UNCHANGED <<channelVars, row, dropped>>

\* Mutant: the warning resets the counter it has reported.
StoreDroppedReset(r) ==
    /\ submit[r] = "counting"
    /\ dropped' = 0
    /\ submit' = [submit EXCEPT ![r] = "dropped"]
    /\ UNCHANGED <<channelVars, row, loaded>>

StoreDropped(r) ==
    /\ submit[r] = "counting"
    /\ dropped' = loaded[r] + 1
    /\ submit' = [submit EXCEPT ![r] = "dropped"]
    /\ UNCHANGED <<channelVars, row, loaded>>

\* A send on a closed channel panics, in a select with a default too.
SendOnClosed(r) ==
    /\ submit[r] = "idle"
    /\ Closed
    /\ submit' = [submit EXCEPT ![r] = "panicked"]
    /\ UNCHANGED <<channelVars, row, counterVars>>

Submit(r) ==
    \/ Send(r)
    \/ FindFull(r)
    \/ LoadDropped(r)
    \/ StoreDropped(r)
    \/ SendOnClosed(r)

-----------------------------------------------------------------------------
(* The worker goroutine. *)

\* Mutant: a full batch waits for the ticker.
ReceiveUnbounded ==
    /\ worker = "select"
    /\ queue # <<>>
    /\ batch' = Append(batch, Head(queue))
    /\ queue' = Tail(queue)
    /\ UNCHANGED <<worker, drain, submit, row, counterVars>>

\* Mutant: the batch is filled from its front.
ReceiveInFront ==
    /\ worker = "select"
    /\ queue # <<>>
    /\ batch' = <<Head(queue)>> \o batch
    /\ queue' = Tail(queue)
    /\ worker' = IF Len(batch) + 1 >= BatchSize THEN "flush" ELSE "select"
    /\ UNCHANGED <<drain, submit, row, counterVars>>

\* case r, ok := <-w.queue with a record: a full batch is flushed at once.
Receive ==
    /\ worker = "select"
    /\ queue # <<>>
    /\ batch' = Append(batch, Head(queue))
    /\ queue' = Tail(queue)
    /\ worker' = IF Len(batch) + 1 >= BatchSize THEN "flush" ELSE "select"
    /\ UNCHANGED <<drain, submit, row, counterVars>>

\* Mutant: the ticker looks for a full batch too.
TickFullBatch ==
    /\ worker = "select"
    /\ Len(batch) >= BatchSize
    /\ worker' = "flush"
    /\ UNCHANGED <<queue, batch, drain, submit, row, counterVars>>

\* case <-ticker.C; flushing an empty batch changes nothing.
Tick ==
    /\ worker = "select"
    /\ batch # <<>>
    /\ worker' = "flush"
    /\ UNCHANGED <<queue, batch, drain, submit, row, counterVars>>

\* Mutant: the worker returns without a last flush.
SeeClosedNoFlush ==
    /\ worker = "select"
    /\ Closed
    /\ queue = <<>>
    /\ worker' = "stopped"
    /\ UNCHANGED <<queue, batch, drain, submit, row, counterVars>>

\* Mutant: the worker goes on selecting when it has nothing to flush.
SeeClosedGoesOn ==
    /\ worker = "select"
    /\ Closed
    /\ queue = <<>>
    /\ worker' = IF batch = <<>> THEN "select" ELSE "final"
    /\ UNCHANGED <<queue, batch, drain, submit, row, counterVars>>

\* case r, ok := <-w.queue with ok false: the channel is closed and empty.
SeeClosed ==
    /\ worker = "select"
    /\ Closed
    /\ queue = <<>>
    /\ worker' = IF batch = <<>> THEN "stopped" ELSE "final"
    /\ UNCHANGED <<queue, batch, drain, submit, row, counterVars>>

\* Mutant: flush gives up at the first record that cannot be inserted.
InsertOrGiveUp(outcome) ==
    /\ worker \in {"flush", "final"}
    /\ batch # <<>>
    /\ row' = [row EXCEPT ![Head(batch)] = outcome]
    /\ batch' = IF outcome = "failed" THEN <<>> ELSE Tail(batch)
    /\ worker' = IF batch' # <<>> THEN worker
                 ELSE IF worker = "final" THEN "stopped" ELSE "select"
    /\ UNCHANGED <<queue, drain, submit, counterVars>>

\* One turn of flush's loop.  Insert fails when the database is locked for
\* longer than its busy timeout, or full; the error is logged and the record
\* is not tried again.
Insert(outcome) ==
    /\ worker \in {"flush", "final"}
    /\ batch # <<>>
    /\ row' = [row EXCEPT ![Head(batch)] = outcome]
    /\ batch' = Tail(batch)
    /\ worker' = IF Tail(batch) # <<>> THEN worker
                 ELSE IF worker = "final" THEN "stopped" ELSE "select"
    /\ UNCHANGED <<queue, drain, submit, counterVars>>

InsertSome == \E outcome \in {"stored", "failed"} : Insert(outcome)

Work == Receive \/ Tick \/ SeeClosed \/ InsertSome

-----------------------------------------------------------------------------
(* Drain, called once by main: close the channel, wait for the worker. *)

CloseQueue ==
    /\ drain = "idle"
    /\ drain' = "waiting"
    /\ UNCHANGED <<queue, batch, worker, submit, row, counterVars>>

SeeDone ==
    /\ drain = "waiting"
    /\ worker = "stopped"
    /\ drain' = "returned"
    /\ UNCHANGED <<queue, batch, worker, submit, row, counterVars>>

-----------------------------------------------------------------------------
Next ==
    \/ \E r \in Records : Submit(r)
    \/ Work
    \/ CloseQueue
    \/ SeeDone

Spec == Init /\ [][Next]_writerVars

\* The runtime schedules a runnable goroutine eventually: the worker keeps
\* taking what is ready (select picks among ready cases at random, so neither
\* the channel nor the ticker is ignored for ever), Insert returns because the
\* busy timeout bounds it, and Drain's receive completes.  Nobody has to call
\* Submit or Drain.
WriterFairness ==
    /\ WF_writerVars(Receive)
    /\ WF_writerVars(Tick)
    /\ WF_writerVars(SeeClosed)
    /\ WF_writerVars(InsertSome)
    /\ WF_writerVars(SeeDone)

FairSpec == Spec /\ WriterFairness

-----------------------------------------------------------------------------
(* Properties. *)

\* No accepted record is lost or duplicated between Submit and the database:
\* the records accepted and not inserted are those in the worker's batch or in
\* the channel, each of them once, across every hand-over of the worker.
AcceptedHeldOnce ==
    /\ \A r \in Records :
          (submit[r] = "sent" /\ row[r] = "none")
            <=> \E i \in 1..Len(InMemory) : InMemory[i] = r
    /\ \A i, j \in 1..Len(InMemory) : InMemory[i] = InMemory[j] => i = j

\* When Drain returns, every record Submit ever accepted has been given to the
\* database ("Drain processes all remaining records and stops the worker"),
\* those the worker had taken off the channel but not yet flushed included.
DrainLeavesNothing ==
    drain = "returned" =>
        \A r \in Records : submit[r] = "sent" => row[r] # "none"

\* Submit calls that have found the queue full and are done counting it.
Counted == {r \in Records : submit[r] = "dropped"}

\* The counter the drop warning reports as total_dropped never exceeds the
\* number of records dropped and is never zero after the first, although calls
\* that count at the same time may overwrite each other's increments.
DroppedCountBounded ==
    /\ dropped <= Cardinality(Counted)
    /\ Counted # {} => dropped > 0

\* A record Submit accepted reaches the database without waiting for later
\* traffic to fill the batch, whether or not the writer is being drained.
AcceptedEventuallyInserted ==
    \A r \in Records : submit[r] = "sent" ~> row[r] # "none"

\* Drain returns: the worker notices the closed channel and stops.
DrainReturns == drain = "waiting" ~> drain = "returned"

-----------------------------------------------------------------------------
(* The writer implements the audit contract. *)

Fate(r) ==
    CASE submit[r] = "idle" -> "unsent"
      [] submit[r] = "sent" -> IF row[r] = "none" THEN "accepted" ELSE row[r]
      [] submit[r] \in {"full", "counting", "dropped"} -> "dropped"
      [] submit[r] = "panicked" -> "refused"

Phase ==
    CASE drain = "idle" -> "open"
      [] drain = "waiting" -> "closing"
      [] drain = "returned" -> "drained"

Contract == INSTANCE AuditContract WITH
    fate    <- [r \in Records |-> Fate(r)],
    pending <- InMemory,
    phase   <- Phase

\* Channel, batch and worker together behave as the one first-in first-out
\* line of AuditContract: records are inserted in the order they were accepted,
\* once each, and one is dropped only while QueueCap others wait.
ImplementsContract == Contract!Spec
=============================================================================
