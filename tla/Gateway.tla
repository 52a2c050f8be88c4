------------------------------ MODULE Gateway ------------------------------
(***************************************************************************)
(* The life of a proxied request, and of the process that serves it:       *)
(* internal/proxy/handler.go and the outline of responses.go, composed     *)
(* with the audit writer, under cmd/wing-ai-proxy/main.go.                 *)
(*                                                                         *)
(* Each request runs in a goroutine of its own: it is routed, sent         *)
(* upstream, answered or failed, audited, and the client is answered.      *)
(* Meanwhile main waits for a signal, shuts the server down for at most    *)
(* 30 seconds, drains the audit writer, closes the database and returns,   *)
(* which ends every goroutine still running.                               *)
(***************************************************************************)
EXTENDS Naturals, Sequences

CONSTANTS Requests,    \* the requests of a run; each has one audit record
          Kinds,       \* the handlers they may call
          QueueCap,    \* as in AsyncWriter
          BatchSize

ASSUME GatewayAssumption ==
    /\ Kinds \subseteq {"chat", "stream", "responses"}
    /\ QueueCap \in Nat \ {0}
    /\ BatchSize \in Nat \ {0}

VARIABLES queue, batch, worker, drain, submit, row, dropped, loaded

Writer == INSTANCE AsyncWriter WITH Records <- Requests

VARIABLES pc,          \* where each request's goroutine stands
          kind,        \* the handler that serves it
          record,      \* StatusCode and ErrorMessage of its audit.Record
          fate,        \* what really happened to its exchange with upstream
          answer,      \* the status the client was given, 0 for none yet
          failures,    \* the requests counted by metrics.UpstreamFailures
          main,        \* where run() stands
          listening,   \* the goroutine that calls ListenAndServe
          forced       \* Shutdown gave up waiting for requests

requestVars == <<pc, kind, record, fate, answer, failures>>
processVars == <<main, listening, forced>>
writerVars  == <<queue, batch, worker, drain, submit, row, dropped, loaded>>
vars        == <<requestVars, processVars, writerVars>>

PCs        == {"idle", "upstream", "reading", "blocked", "audit", "reply", "panicked", "ended"}
Fates      == {"none", "rejected", "answered", "timeout", "refused", "aborted", "broken",
               "stalled", "panicked"}
MainStates == {"running", "shutdown", "draining", "drained", "closed", "exited"}
Upstream   == {200, 429}                 \* a success and an upstream's own error
Answers    == Upstream \cup {0, 400, 401, 500, 502, 504}

TypeOK ==
    /\ Writer!TypeOK
    /\ pc \in [Requests -> PCs]
    /\ kind \in [Requests -> Kinds]
    /\ record \in [Requests -> [status : Upstream \cup {0, 502, 504}, error : BOOLEAN]]
    /\ fate \in [Requests -> Fates]
    /\ answer \in [Requests -> Answers]
    /\ failures \subseteq Requests
    /\ main \in MainStates
    /\ listening \in {"starting", "up", "down"}
    /\ forced \in BOOLEAN

Init ==
    /\ Writer!Init
    /\ pc = [r \in Requests |-> "idle"]
    /\ kind \in [Requests -> Kinds]
    /\ record = [r \in Requests |-> [status |-> 0, error |-> FALSE]]
    /\ fate = [r \in Requests |-> "none"]
    /\ answer = [r \in Requests |-> 0]
    /\ failures = {}
    /\ main = "running"
    /\ listening = "starting"
    /\ forced = FALSE

Alive == main # "exited"

-----------------------------------------------------------------------------
(* A request before it has an audit record. *)

\* Shutdown lets a connection accepted before it still bring its request.
Accepting == listening = "up" /\ main \in {"running", "shutdown"}

\* The request passes Auth, parses and resolves to a provider.
Route(r) ==
    /\ Accepting
    /\ pc[r] = "idle"
    /\ pc' = [pc EXCEPT ![r] = "upstream"]
    /\ UNCHANGED <<kind, record, fate, answer, failures, processVars, writerVars>>

\* Auth rejects the key, or the body or the model is not acceptable: the
\* request is answered at once and never audited.
Reject(r, status) ==
    /\ Accepting
    /\ pc[r] = "idle"
    /\ pc' = [pc EXCEPT ![r] = "ended"]
    /\ fate' = [fate EXCEPT ![r] = "rejected"]
    /\ answer' = [answer EXCEPT ![r] = status]
    /\ UNCHANGED <<kind, record, failures, processVars, writerVars>>

-----------------------------------------------------------------------------
(* The exchange with the upstream. *)

\* recordMetrics, called with the finished record on the way to Submit.
RecordMetrics(r, status, error) ==
    failures' = IF status >= 400 \/ error THEN failures \cup {r} ELSE failures

\* The exchange is over: the record is complete and about to be submitted.
Conclude(r, how, status, error) ==
    /\ pc' = [pc EXCEPT ![r] = "audit"]
    /\ fate' = [fate EXCEPT ![r] = how]
    /\ record' = [record EXCEPT ![r] = [status |-> status, error |-> error]]
    /\ RecordMetrics(r, status, error)
    /\ UNCHANGED <<kind, processVars, writerVars>>

\* Mutant: a timeout has a status of its own.
UpstreamFails408(r, how) ==
    /\ Alive /\ pc[r] = "upstream"
    /\ how \in {"timeout", "refused", "aborted"}
    /\ Conclude(r, how, IF how = "timeout" THEN 408 ELSE 502, TRUE)
    /\ UNCHANGED answer

\* Mutant: the client is answered before the record is submitted.
UpstreamFailsAnswering(r, how) ==
    /\ Alive /\ pc[r] = "upstream"
    /\ how \in {"timeout", "refused", "aborted"}
    /\ Conclude(r, how, IF how = "timeout" THEN 504 ELSE 502, TRUE)
    /\ answer' = [answer EXCEPT ![r] = record'[r].status]

\* handleUpstreamError: ChatCompletion returned an error, because the
\* provider's timeout passed, the connection failed, or the client went away
\* and took the request's context with it.
UpstreamFails(r, how) ==
    /\ Alive /\ pc[r] = "upstream"
    /\ how \in {"timeout", "refused", "aborted"}
    /\ Conclude(r, how, IF how = "timeout" THEN 504 ELSE 502, TRUE)
    /\ UNCHANGED answer

\* The upstream's status line and headers are in.  The Responses handler
\* writes its own event stream from here on if the status is 200.
UpstreamAnswers(r, status) ==
    /\ Alive /\ pc[r] = "upstream"
    /\ pc' = [pc EXCEPT ![r] = "reading"]
    /\ record' = [record EXCEPT ![r].status = status]
    /\ answer' = IF kind[r] = "responses" /\ status = 200
                 THEN [answer EXCEPT ![r] = 200] ELSE answer
    /\ UNCHANGED <<kind, fate, failures, processVars, writerVars>>

\* StreamForwarder passes the first chunk on, and with it the status.
ForwardFirstChunk(r) ==
    /\ Alive /\ pc[r] = "reading" /\ kind[r] = "stream" /\ answer[r] = 0
    /\ answer' = [answer EXCEPT ![r] = record[r].status]
    /\ UNCHANGED <<pc, kind, record, fate, failures, processVars, writerVars>>

\* The streaming handlers write to the client between two reads of the body.  The
\* server has no WriteTimeout: a client that stops reading holds the handler in the
\* write, for ever if it neither reads on nor disconnects.
WriteBlocks(r) ==
    /\ Alive /\ pc[r] = "reading" /\ kind[r] # "chat" /\ answer[r] # 0
    /\ pc' = [pc EXCEPT ![r] = "blocked"]
    /\ UNCHANGED <<kind, record, fate, answer, failures, processVars, writerVars>>

\* The client reads on, or is gone and the write fails.
WriteReturns(r) ==
    /\ Alive /\ pc[r] = "blocked"
    /\ pc' = [pc EXCEPT ![r] = "reading"]
    /\ UNCHANGED <<kind, record, fate, answer, failures, processVars, writerVars>>

\* The body was read to its end.
BodyEnds(r) ==
    /\ Alive /\ pc[r] = "reading"
    /\ Conclude(r, "answered", record[r].status, FALSE)
    /\ UNCHANGED answer

\* Mutant: the error of a stream that broke is only logged.
BodyFailsSilently(r, how) ==
    /\ Alive /\ pc[r] = "reading"
    /\ how \in {"broken", "stalled", "aborted"}
    /\ Conclude(r, how, record[r].status, FALSE)
    /\ UNCHANGED answer

\* Mutant: the handler returns on a read error, before Submit.
BodyFailsUnaudited(r, how) ==
    /\ Alive /\ pc[r] = "reading"
    /\ how \in {"broken", "stalled", "aborted"}
    /\ pc' = [pc EXCEPT ![r] = "ended"]
    /\ fate' = [fate EXCEPT ![r] = how]
    /\ UNCHANGED <<kind, record, answer, failures, processVars, writerVars>>

\* Reading the body fails: the upstream broke off, the provider's timeout
\* passed in the middle of it, or the client went away.  The Responses handler
\* ignores the error when it only copies an upstream error message.
BodyFails(r, how) ==
    /\ Alive /\ pc[r] = "reading"
    /\ how \in {"broken", "stalled", "aborted"}
    /\ Conclude(r, how, record[r].status,
                ~(kind[r] = "responses" /\ record[r].status # 200))
    /\ UNCHANGED answer

\* The translator of the Responses stream panics on interleaved tool calls
\* (module ResponsesTranslator): the handler never reaches Submit.
TranslatorPanics(r) ==
    /\ Alive /\ pc[r] = "reading" /\ kind[r] = "responses" /\ record[r].status = 200
    /\ pc' = [pc EXCEPT ![r] = "panicked"]
    /\ fate' = [fate EXCEPT ![r] = "panicked"]
    /\ UNCHANGED <<kind, record, answer, failures, processVars, writerVars>>

-----------------------------------------------------------------------------
(* Auditing and answering. *)

\* A step of auditWriter.Submit; a send on the closed queue panics.
Submit(r) ==
    /\ Alive /\ pc[r] = "audit"
    /\ Writer!Submit(r)
    /\ pc' = [pc EXCEPT ![r] =
                 CASE submit'[r] \in {"sent", "dropped"} -> "reply"
                   [] submit'[r] = "panicked" -> "panicked"
                   [] OTHER -> "audit"]
    /\ UNCHANGED <<kind, record, fate, answer, failures, processVars>>

\* What is left to write after Submit: the whole answer, except where a stream
\* has already sent its status.  A body that could not be read is a 502.
Reply(r) ==
    /\ Alive /\ pc[r] = "reply"
    /\ pc' = [pc EXCEPT ![r] = "ended"]
    /\ answer' = [answer EXCEPT ![r] =
                     IF answer[r] # 0 THEN answer[r]
                     ELSE IF kind[r] = "chat" /\ record[r].error /\ record[r].status \in Upstream
                     THEN 502 ELSE record[r].status]
    /\ UNCHANGED <<kind, record, fate, failures, processVars, writerVars>>

\* gin.Recovery answers for a handler that panicked, if nothing was sent yet.
Recover(r) ==
    /\ Alive /\ pc[r] = "panicked"
    /\ pc' = [pc EXCEPT ![r] = "ended"]
    /\ answer' = [answer EXCEPT ![r] = IF answer[r] = 0 THEN 500 ELSE answer[r]]
    /\ UNCHANGED <<kind, record, fate, failures, processVars, writerVars>>

ReadAnswer(r) ==
    \/ \E status \in Upstream : UpstreamAnswers(r, status)
    \/ \E how \in {"timeout", "refused", "aborted"} : UpstreamFails(r, how)

ReadBody(r) ==
    \/ BodyEnds(r)
    \/ \E how \in {"broken", "stalled", "aborted"} : BodyFails(r, how)

Serve(r) ==
    \/ Route(r)
    \/ \E status \in {400, 401} : Reject(r, status)
    \/ ReadAnswer(r)
    \/ ForwardFirstChunk(r)
    \/ WriteBlocks(r)
    \/ WriteReturns(r)
    \/ ReadBody(r)
    \/ TranslatorPanics(r)
    \/ Submit(r)
    \/ Reply(r)
    \/ Recover(r)

-----------------------------------------------------------------------------
(* The process. *)

WriterWorks ==
    /\ Alive
    /\ Writer!Work
    /\ UNCHANGED <<requestVars, processVars>>

\* ListenAndServe binds the port, or fails: the error is logged, and main goes
\* on waiting for a signal.
Listen(outcome) ==
    /\ Alive /\ main = "running" /\ listening = "starting"
    /\ listening' = outcome
    /\ UNCHANGED <<main, forced, requestVars, writerVars>>

\* SIGINT or SIGTERM: the watcher is closed and Shutdown closes the listener,
\* or keeps it from coming up.
Signal ==
    /\ main = "running"
    /\ main' = "shutdown"
    /\ listening' = IF listening = "starting" THEN "down" ELSE listening
    /\ UNCHANGED <<forced, requestVars, writerVars>>

InFlight == {r \in Requests : pc[r] \notin {"idle", "ended"}}

\* Mutant: Close in the place of Shutdown, which waits for nobody.
ShutdownAtOnce(timedOut) ==
    /\ main = "shutdown"
    /\ ~timedOut
    /\ main' = "draining"
    /\ forced' = FALSE
    /\ UNCHANGED <<listening, requestVars, writerVars>>

\* Shutdown returns: every request has ended, or its 30 seconds are over.
ShutdownReturns(timedOut) ==
    /\ main = "shutdown"
    /\ ~timedOut => InFlight = {}
    /\ timedOut => InFlight # {}
    /\ main' = "draining"
    /\ forced' = timedOut
    /\ UNCHANGED <<listening, requestVars, writerVars>>

\* Mutant: Drain waits for the worker without closing the channel.
CloseQueueForgotten ==
    /\ main = "draining"
    /\ UNCHANGED vars

\* auditWriter.Drain: its two steps.
CloseQueue ==
    /\ main = "draining"
    /\ Writer!CloseQueue
    /\ UNCHANGED <<requestVars, processVars>>

\* Mutant: Drain closes the channel and does not wait.
SeeDoneAtOnce ==
    /\ main = "draining"
    /\ drain = "waiting"
    /\ drain' = "returned"
    /\ main' = "drained"
    /\ UNCHANGED <<listening, forced, requestVars, queue, batch, worker, submit, row,
                   dropped, loaded>>

SeeDone ==
    /\ main = "draining"
    /\ Writer!SeeDone
    /\ main' = "drained"
    /\ UNCHANGED <<listening, forced, requestVars>>

\* Mutant: the database is closed while the writer is still draining.
CloseStoreEarly ==
    /\ main \in {"draining", "drained"}
    /\ main' = "closed"
    /\ UNCHANGED <<listening, forced, requestVars, writerVars>>

CloseStore ==
    /\ main = "drained"
    /\ main' = "closed"
    /\ UNCHANGED <<listening, forced, requestVars, writerVars>>

\* run returns; the process ends with whatever handlers it still has.
Exit ==
    /\ main = "closed"
    /\ main' = "exited"
    /\ UNCHANGED <<listening, forced, requestVars, writerVars>>

Main ==
    \/ \E timedOut \in BOOLEAN : ShutdownReturns(timedOut)
    \/ CloseQueue
    \/ SeeDone
    \/ CloseStore
    \/ Exit

Next ==
    \/ \E r \in Requests : Serve(r)
    \/ WriterWorks
    \/ \E outcome \in {"up", "down"} : Listen(outcome)
    \/ Signal
    \/ Main

Spec == Init /\ [][Next]_vars

\* The provider's timeout bounds the exchange with the upstream: the wait for the
\* status line, and every read of the body.  It does not bound a write to the
\* client, so the handler is only sure to read when it comes back to the body again
\* and again (strong fairness), and WriteReturns, Reply and Recover are not fair.
\* The worker and main run whenever they can, and Shutdown's context expires.
\* Nothing makes a client call, and nobody has to send the signal.
Fairness ==
    /\ \A r \in Requests :
          /\ WF_vars(ReadAnswer(r))
          /\ SF_vars(ReadBody(r))
          /\ WF_vars(Submit(r))
    /\ WF_vars(WriterWorks)
    /\ WF_vars(Main)

FairSpec == Spec /\ Fairness

-----------------------------------------------------------------------------
(* Properties. *)

\* A client that holds a complete answer of the proxy, an upstream's or a 502
\* or 504 of the proxy's own, has its record already handed to the writer: the
\* handlers submit before they answer.  Only streams are answered first.
AuditedBeforeAnswered ==
    \A r \in Requests :
        /\ answer[r] \notin {0, 400, 401, 500}
        /\ kind[r] = "chat" \/ answer[r] \in {502, 504}
        => submit[r] \in {"sent", "dropped"}

\* A record that says 200 and carries no error message is that of an exchange
\* the proxy read to its end: no handler files a broken, stalled or abandoned
\* stream as a success.
CleanRecordsAreWhole ==
    \A r \in Requests :
        submit[r] # "idle" /\ record[r] = [status |-> 200, error |-> FALSE]
            => fate[r] = "answered"

\* Once the database is closed nothing is lost that Submit accepted, even when
\* Shutdown gave up on requests that were still running.
AcceptedBeforeClose ==
    main \in {"closed", "exited"} =>
        \A r \in Requests : submit[r] = "sent" => row[r] # "none"

\* After a shutdown that did not time out, every request that passed Auth and routing
\* is in the audit trail, or was dropped because the queue was full, or was refused by
\* the database; none met a closed queue.  The one exception is a Responses stream
\* whose translator panicked: its handler ends before Submit and files no record,
\* though the client has its 200.
GracefulExitAudits ==
    main \in {"draining", "drained", "closed", "exited"} /\ ~forced =>
        \A r \in Requests :
            pc[r] # "idle" /\ fate[r] # "rejected" =>
                \/ fate[r] = "panicked" /\ kind[r] = "responses"
                \/ /\ submit[r] \in {"sent", "dropped"}
                   /\ main # "draining" /\ submit[r] = "sent" => row[r] # "none"

\* The worker never inserts into the closed database.
NoInsertAfterClose ==
    [][row' # row => main \notin {"closed", "exited"}]_vars

\* The signal ends the process, however long requests keep running.
SignalEndsProcess == main = "shutdown" ~> main = "exited"

\* Every request sent upstream is settled: its record is offered to the database, or
\* dropped or refused by Submit, unless its translator panicked or the process ended
\* first.  All of it is promised only for a client that does not leave the handler in
\* a write for ever, neither reading nor disconnecting.
RoutedIsSettled ==
    \A r \in Requests :
        \/ <>[](pc[r] = "blocked")
        \/ pc[r] = "upstream" ~>
              \/ row[r] # "none"
              \/ submit[r] \in {"dropped", "panicked"}
              \/ fate[r] = "panicked"
              \/ ~Alive

\* store.go says Submit "Returns immediately; drops if queue is full".
SubmitReturns == \A r \in Requests : submit[r] # "panicked"
=============================================================================
