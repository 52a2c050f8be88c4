---------------------------- MODULE GatewayProofs ----------------------------
(***************************************************************************)
(* Proofs about Gateway, for any requests, any of the handlers and any     *)
(* sizes of the audit writer, whose own invariant (AsyncWriterProofs) is   *)
(* taken over.                                                             *)
(***************************************************************************)
EXTENDS Gateway, TLAPS

Audit == INSTANCE AsyncWriterProofs WITH Records <- Requests

Clean == [status |-> 200, error |-> FALSE]

Concluded == Fates \ {"none", "rejected", "panicked"}

\* A request's goroutine calls Submit once, after the exchange is over, and stops
\* only when the call is done, unless the request was rejected or the translator of
\* its Responses stream panicked.
Stage(r) ==
    \/ /\ pc[r] \in {"idle", "upstream", "reading", "blocked"}
       /\ submit[r] = "idle" /\ fate[r] = "none"
    \/ pc[r] = "audit" /\ submit[r] \in {"idle", "full", "counting"} /\ fate[r] \in Concluded
    \/ pc[r] \in {"reply", "ended"} /\ submit[r] \in {"sent", "dropped"} /\ fate[r] \in Concluded
    \/ pc[r] \in {"panicked", "ended"} /\ submit[r] = "panicked" /\ fate[r] \in Concluded
    \/ pc[r] = "ended" /\ submit[r] = "idle" /\ fate[r] = "rejected"
    \/ /\ pc[r] \in {"panicked", "ended"} /\ submit[r] = "idle" /\ fate[r] = "panicked"
       /\ kind[r] = "responses"

WholeIfClean(r) == record[r] = Clean /\ fate[r] \in Concluded => fate[r] = "answered"

Answered(r) ==
    /\ answer[r] \notin {0, 400, 401, 500}
    /\ kind[r] = "chat" \/ answer[r] \in {502, 504}
    => submit[r] \in {"sent", "dropped"}

RequestOK(r) ==
    /\ Stage(r)
    /\ pc[r] \in {"reading", "blocked"} => record[r].status \in Upstream
    /\ WholeIfClean(r)
    /\ Answered(r)

\* main goes on to Drain with every request ended, or forced; before that no Submit
\* can meet a closed channel.
Serving == main \in {"running", "shutdown"}
Orderly ==
    /\ Serving => drain = "idle" /\ ~forced /\ \A r \in Requests : submit[r] # "panicked"
    /\ main \in {"drained", "closed", "exited"} => drain = "returned"
    /\ ~Serving /\ ~forced =>
          \A r \in Requests : pc[r] \in {"idle", "ended"} /\ submit[r] # "panicked"

IInv ==
    /\ TypeOK
    /\ Audit!IInv
    /\ \A r \in Requests : RequestOK(r)
    /\ Orderly

-----------------------------------------------------------------------------
(* The audit writer inside the gateway. *)

\* The type invariant of the writer is the same seen from either module.
LEMMA WriterTyped == Writer!TypeOK <=> Audit!TypeOK
BY DEF Writer!TypeOK, Audit!TypeOK, Writer!WorkerStates, Audit!WorkerStates,
       Writer!DrainStates, Audit!DrainStates, Writer!SubmitStates, Audit!SubmitStates,
       Writer!RowStates, Audit!RowStates

\* The steps of Submit are those that AsyncWriterProofs is about.
LEMMA SubmitIsAudits ==
    ASSUME NEW r \in Requests, Writer!Submit(r)
    PROVE  Audit!Submit(r)
BY DEF Writer!Submit, Audit!Submit, Writer!Send, Audit!Send, Writer!FindFull, Audit!FindFull,
       Writer!LoadDropped, Audit!LoadDropped, Writer!StoreDropped, Audit!StoreDropped,
       Writer!SendOnClosed, Audit!SendOnClosed, Writer!Closed, Audit!Closed,
       Writer!channelVars, Audit!channelVars, Writer!counterVars, Audit!counterVars

\* So are those of the worker.
LEMMA WorkIsAudits == Writer!Work => Audit!Work
BY DEF Writer!Work, Audit!Work, Writer!Receive, Audit!Receive, Writer!Tick, Audit!Tick,
       Writer!SeeClosed, Audit!SeeClosed, Writer!InsertSome, Audit!InsertSome,
       Writer!Insert, Audit!Insert, Writer!Closed, Audit!Closed,
       Writer!counterVars, Audit!counterVars

\* And those of Drain.
LEMMA DrainIsAudits ==
    /\ Writer!CloseQueue => Audit!CloseQueue
    /\ Writer!SeeDone => Audit!SeeDone
BY DEF Writer!CloseQueue, Audit!CloseQueue, Writer!SeeDone, Audit!SeeDone,
       Writer!counterVars, Audit!counterVars

\* Every step that the gateway lets the writer take keeps the writer's invariant.
LEMMA WriterKeepsIInv ==
    ASSUME Audit!IInv,
           \/ \E r \in Requests : Writer!Submit(r)
           \/ Writer!Work \/ Writer!CloseQueue \/ Writer!SeeDone
           \/ UNCHANGED writerVars
    PROVE  Audit!IInv' /\ (Writer!TypeOK)'
<1>1. Audit!Next \/ UNCHANGED (Audit!writerVars)
  BY SubmitIsAudits, WorkIsAudits, DrainIsAudits DEF Audit!Next, writerVars, Audit!writerVars
<1>2. Audit!IInv'
  BY <1>1, Audit!NextKeepsIInv, GatewayAssumption
<1>3. (Audit!TypeOK)'
  BY <1>2 DEF Audit!IInv
<1>4. (Writer!TypeOK)'
  BY <1>3
  DEF Writer!TypeOK, Audit!TypeOK, Writer!WorkerStates, Audit!WorkerStates,
      Writer!DrainStates, Audit!DrainStates, Writer!SubmitStates, Audit!SubmitStates,
      Writer!RowStates, Audit!RowStates
<1>5. QED BY <1>2, <1>4

-----------------------------------------------------------------------------
(* The steps. *)

\* The process starts with nothing in the writer and no request.
LEMMA InitIInv == Init => IInv
<1> SUFFICES ASSUME Init PROVE IInv
  OBVIOUS
<1>1. Audit!IInv
  <2>1. Audit!Init
    BY DEF Init, Writer!Init, Audit!Init
  <2>2. QED BY <2>1, Audit!InitIInv, GatewayAssumption
<1>2. Writer!TypeOK
  BY <1>1, WriterTyped DEF Audit!IInv
<1>3. TypeOK
  BY ZenonT(30), <1>2 DEF Init, TypeOK, PCs, Fates, Answers, Upstream, MainStates
<1>4. ASSUME NEW r \in Requests PROVE RequestOK(r)
  BY DEF Init, Writer!Init, RequestOK, Stage, WholeIfClean, Answered, Concluded
<1>5. Orderly
  BY DEF Init, Writer!Init, Orderly, Serving
<1>6. QED BY <1>1, <1>3, <1>4, <1>5 DEF IInv

\* What a step of one request's goroutine has to keep.
LEMMA RequestStep ==
    ASSUME IInv, NEW r \in Requests, UNCHANGED <<processVars, drain>>,
           TypeOK', Audit!IInv', RequestOK(r)',
           \A q \in Requests : q # r =>
              /\ pc'[q] = pc[q] /\ kind'[q] = kind[q] /\ record'[q] = record[q]
              /\ fate'[q] = fate[q] /\ answer'[q] = answer[q] /\ submit'[q] = submit[q],
           pc[r] \in {"idle", "ended"} => Serving,
           submit'[r] = "panicked" => submit[r] = "panicked" \/ drain # "idle"
    PROVE  IInv'
<1> USE DEF IInv
<1>1. ASSUME NEW q \in Requests, q # r PROVE RequestOK(q)'
  <2>1. RequestOK(q)
    OBVIOUS
  <2>2. QED BY <1>1, <2>1 DEF RequestOK, Stage, WholeIfClean, Answered
<1>2. \A q \in Requests : RequestOK(q)'
  BY <1>1
<1>3. Serving' <=> Serving
  BY DEF Serving, processVars
<1>4. Orderly'
  <2>1. CASE Serving
    BY <1>3, <2>1 DEF Orderly, processVars, Serving
  <2>2. CASE ~Serving
    <3>1. ~forced => FALSE
      BY <2>2 DEF Orderly
    <3>2. QED BY <1>3, <2>2, <3>1 DEF Orderly, processVars
  <2>3. QED BY <2>1, <2>2
<1>5. QED BY <1>2, <1>4

\* A request that arrives is routed or rejected; neither touches the writer.
LEMMA ArrivalKeepsIInv ==
    ASSUME IInv, NEW r \in Requests,
           Route(r) \/ \E status \in {400, 401} : Reject(r, status)
    PROVE  IInv'
<1> USE DEF IInv
<1>1. /\ UNCHANGED writerVars /\ UNCHANGED <<processVars, drain>>
      /\ pc[r] = "idle" /\ Serving /\ submit'[r] = submit[r]
  BY DEF Route, Reject, Accepting, Serving, writerVars
<1>2. Audit!IInv' /\ (Writer!TypeOK)'
  BY <1>1, WriterKeepsIInv
<1>3. CASE Route(r)
  <2>1. TypeOK'
    BY <1>2, <1>3 DEF Route, TypeOK, processVars, PCs
  <2>2. RequestOK(r)'
    <3>1. pc'[r] = "upstream"
      BY <1>3 DEF Route, TypeOK
    <3>2. QED BY <1>1, <1>3, <3>1 DEF Route, RequestOK, Stage, WholeIfClean, Answered, writerVars
  <2>3. QED BY <1>1, <1>2, <1>3, <2>1, <2>2, RequestStep DEF Route, writerVars, Orderly, TypeOK
<1>4. ASSUME NEW status \in {400, 401}, Reject(r, status) PROVE IInv'
  <2>1. TypeOK'
    BY <1>2, <1>4 DEF Reject, TypeOK, processVars, PCs, Answers, Fates
  <2>2. RequestOK(r)'
    <3>1. pc'[r] = "ended" /\ answer'[r] = status /\ fate'[r] = "rejected" /\ fate[r] = "none"
      BY <1>1, <1>4 DEF Reject, TypeOK, RequestOK, Stage
    <3>2. QED BY <1>1, <1>4, <3>1 DEF Reject, RequestOK, Stage, WholeIfClean, Answered, writerVars, Concluded
  <2>3. QED BY <1>1, <1>2, <1>4, <2>1, <2>2, RequestStep DEF Reject, writerVars, Orderly, TypeOK
<1>5. QED BY <1>3, <1>4

\* The end of the exchange: the record is complete, and clean only if the answer was
\* read to its end.
LEMMA ConcludeKeepsIInv ==
    ASSUME IInv, NEW r \in Requests, pc[r] \in {"upstream", "reading"},
           pc' = [pc EXCEPT ![r] = "audit"],
           fate' = [fate EXCEPT ![r] = fate'[r]], fate'[r] \in Concluded,
           record' = [record EXCEPT ![r] = record'[r]],
           record'[r] \in [status : Upstream \cup {0, 502, 504}, error : BOOLEAN],
           WholeIfClean(r)',
           failures' \subseteq Requests,
           UNCHANGED <<kind, answer, processVars>>, UNCHANGED writerVars
    PROVE  IInv'
<1> USE DEF IInv
<1>1. Audit!IInv' /\ (Writer!TypeOK)' /\ UNCHANGED <<submit, drain>>
  BY WriterKeepsIInv DEF writerVars
<1>2. submit[r] = "idle" /\ Answered(r)
  BY DEF RequestOK, Stage
<1>3. TypeOK'
  <2>1. pc' \in [Requests -> PCs] /\ fate' \in [Requests -> Fates]
    BY DEF TypeOK, PCs, Concluded
  <2>2. record' \in [Requests -> [status : Upstream \cup {0, 502, 504}, error : BOOLEAN]]
    BY DEF TypeOK
  <2>3. QED BY <1>1, <2>1, <2>2 DEF TypeOK, processVars
<1>4. pc'[r] = "audit"
  BY DEF TypeOK
<1>5. RequestOK(r)'
  BY <1>1, <1>2, <1>4 DEF RequestOK, Stage, Answered
<1>6. \A q \in Requests : q # r =>
         pc'[q] = pc[q] /\ fate'[q] = fate[q] /\ record'[q] = record[q]
  BY DEF TypeOK
<1>7. QED BY <1>1, <1>2, <1>3, <1>5, <1>6, RequestStep

\* The exchange with the upstream: the record is filled in, the writer not touched.
LEMMA ExchangeKeepsIInv ==
    ASSUME IInv, NEW r \in Requests,
           \/ ReadAnswer(r) \/ ForwardFirstChunk(r) \/ ReadBody(r) \/ TranslatorPanics(r)
           \/ WriteBlocks(r) \/ WriteReturns(r)
    PROVE  IInv'
<1> USE DEF IInv
<1>1. /\ UNCHANGED writerVars /\ UNCHANGED <<processVars, drain>>
      /\ pc[r] \in {"upstream", "reading", "blocked"} /\ submit' = submit /\ kind' = kind
  BY DEF ReadAnswer, UpstreamAnswers, UpstreamFails, ForwardFirstChunk, ReadBody, BodyEnds,
         BodyFails, TranslatorPanics, WriteBlocks, WriteReturns, Conclude, writerVars
<1>2. Audit!IInv' /\ (Writer!TypeOK)'
  BY <1>1, WriterKeepsIInv
<1>3. /\ submit[r] = "idle" /\ fate[r] = "none" /\ record[r].status \in Upstream \cup {0, 502, 504}
      /\ record[r] \in [status : Upstream \cup {0, 502, 504}, error : BOOLEAN]
      /\ WholeIfClean(r) /\ Answered(r)
  BY <1>1 DEF RequestOK, Stage, TypeOK
<1>4. ASSUME NEW status \in Upstream, UpstreamAnswers(r, status) PROVE IInv'
  <2>1. /\ pc' = [pc EXCEPT ![r] = "reading"]
        /\ record' = [record EXCEPT ![r].status = status]
        /\ answer' = IF kind[r] = "responses" /\ status = 200
                     THEN [answer EXCEPT ![r] = 200] ELSE answer
        /\ UNCHANGED <<kind, fate, failures>>
    BY <1>4 DEF UpstreamAnswers
  <2>2. record' \in [Requests -> [status : Upstream \cup {0, 502, 504}, error : BOOLEAN]]
    BY <2>1 DEF TypeOK
  <2>3. pc' \in [Requests -> PCs] /\ answer' \in [Requests -> Answers]
    BY <2>1 DEF TypeOK, PCs, Answers, Upstream
  <2>4. TypeOK'
    BY <1>1, <1>2, <2>1, <2>2, <2>3 DEF TypeOK, processVars
  <2>5. /\ pc'[r] = "reading" /\ fate'[r] = "none"
        /\ answer'[r] = answer[r] \/ (answer'[r] = 200 /\ kind[r] = "responses")
        /\ record'[r].status = status
    BY <1>3, <2>1 DEF TypeOK
  <2>6. RequestOK(r)'
    BY <1>1, <1>3, <2>5 DEF RequestOK, Stage, WholeIfClean, Answered, Concluded
  <2>7. QED BY <1>1, <1>2, <1>3, <2>1, <2>4, <2>6, RequestStep DEF TypeOK
<1>5. ASSUME NEW how \in {"timeout", "refused", "aborted"}, UpstreamFails(r, how) PROVE IInv'
  <2> DEFINE status == IF how = "timeout" THEN 504 ELSE 502
  <2>1. /\ pc' = [pc EXCEPT ![r] = "audit"]
        /\ fate' = [fate EXCEPT ![r] = how]
        /\ record' = [record EXCEPT ![r] = [status |-> status, error |-> TRUE]]
        /\ failures' \subseteq Requests
        /\ UNCHANGED <<kind, answer, processVars>>
        /\ pc[r] \in {"upstream", "reading"}
    BY <1>5 DEF UpstreamFails, Conclude, RecordMetrics, TypeOK
  <2>2. fate'[r] = how /\ record'[r] = [status |-> status, error |-> TRUE]
        /\ status \in {502, 504}
    BY <2>1 DEF TypeOK
  <2> HIDE DEF status
  <2>3. WholeIfClean(r)' /\ fate'[r] \in Concluded
        /\ record'[r] \in [status : Upstream \cup {0, 502, 504}, error : BOOLEAN]
    BY <2>2 DEF WholeIfClean, Clean, Fates, Concluded
  <2>4. QED BY ZenonT(30), <1>1, <2>1, <2>2, <2>3, ConcludeKeepsIInv
<1>6. CASE ForwardFirstChunk(r)
  <2>1. /\ answer' = [answer EXCEPT ![r] = record[r].status]
        /\ UNCHANGED <<pc, kind, record, fate, failures>> /\ kind[r] = "stream"
    BY <1>6 DEF ForwardFirstChunk
  <2>2. record[r].status \in {200, 429} /\ record[r].status \in Answers
    BY <1>6 DEF ForwardFirstChunk, RequestOK, Upstream, Answers
  <2>3. TypeOK'
    BY <1>1, <1>2, <2>1, <2>2 DEF TypeOK, processVars
  <2>4. answer'[r] \in {200, 429}
    BY <2>1, <2>2 DEF TypeOK
  <2>5. RequestOK(r)
    OBVIOUS
  <2>6. RequestOK(r)'
    BY <1>1, <1>3, <2>1, <2>4, <2>5 DEF RequestOK, Stage, WholeIfClean, Answered
  <2>7. QED BY <1>1, <1>2, <1>3, <2>1, <2>3, <2>6, RequestStep DEF TypeOK
<1>7. CASE BodyEnds(r)
  <2>1. /\ pc' = [pc EXCEPT ![r] = "audit"]
        /\ fate' = [fate EXCEPT ![r] = "answered"]
        /\ record' = [record EXCEPT ![r] = [status |-> record[r].status, error |-> FALSE]]
        /\ failures' \subseteq Requests
        /\ UNCHANGED <<kind, answer, processVars>>
        /\ pc[r] \in {"upstream", "reading"}
    BY <1>7 DEF BodyEnds, Conclude, RecordMetrics, TypeOK
  <2>2. fate'[r] = "answered" /\ record'[r] = [status |-> record[r].status, error |-> FALSE]
    BY <2>1 DEF TypeOK
  <2>3. WholeIfClean(r)' /\ fate'[r] \in Concluded
        /\ record'[r] \in [status : Upstream \cup {0, 502, 504}, error : BOOLEAN]
    BY <1>3, <2>2 DEF WholeIfClean, Fates, Concluded
  <2>4. QED BY ZenonT(30), <1>1, <2>1, <2>2, <2>3, ConcludeKeepsIInv
<1>8. ASSUME NEW how \in {"broken", "stalled", "aborted"}, BodyFails(r, how) PROVE IInv'
  <2> DEFINE error == ~(kind[r] = "responses" /\ record[r].status # 200)
  <2>1. /\ pc' = [pc EXCEPT ![r] = "audit"]
        /\ fate' = [fate EXCEPT ![r] = how]
        /\ record' = [record EXCEPT ![r] = [status |-> record[r].status, error |-> error]]
        /\ failures' \subseteq Requests
        /\ UNCHANGED <<kind, answer, processVars>>
        /\ pc[r] \in {"upstream", "reading"}
    BY <1>8 DEF BodyFails, Conclude, RecordMetrics, TypeOK
  <2>2. fate'[r] = how /\ record'[r] = [status |-> record[r].status, error |-> error]
        /\ error \in BOOLEAN /\ (record[r].status = 200 => error = TRUE)
    BY <2>1 DEF TypeOK
  <2> HIDE DEF error
  <2>3. WholeIfClean(r)' /\ fate'[r] \in Concluded
        /\ record'[r] \in [status : Upstream \cup {0, 502, 504}, error : BOOLEAN]
    BY <1>3, <2>2 DEF WholeIfClean, Clean, Fates, Concluded
  <2>4. fate' = [fate EXCEPT ![r] = fate'[r]] /\ record' = [record EXCEPT ![r] = record'[r]]
    BY <2>1, <2>2
  <2>5. QED BY ZenonT(30), <1>1, <2>1, <2>3, <2>4, ConcludeKeepsIInv
<1>9. CASE TranslatorPanics(r)
  <2>1. /\ pc' = [pc EXCEPT ![r] = "panicked"] /\ fate' = [fate EXCEPT ![r] = "panicked"]
        /\ kind[r] = "responses" /\ UNCHANGED <<kind, record, answer, failures>>
    BY <1>9 DEF TranslatorPanics
  <2>2. TypeOK'
    BY <1>1, <1>2, <2>1 DEF TypeOK, processVars, PCs, Fates
  <2>3. pc'[r] = "panicked" /\ fate'[r] = "panicked"
    BY <2>1 DEF TypeOK
  <2>4. RequestOK(r)'
    BY <1>1, <1>3, <2>1, <2>3 DEF RequestOK, Stage, WholeIfClean, Answered, Concluded
  <2>5. QED BY <1>1, <1>2, <1>3, <2>1, <2>2, <2>4, RequestStep DEF TypeOK
<1>10. CASE WriteBlocks(r) \/ WriteReturns(r)
  <2>1. PICK next \in {"reading", "blocked"} :
           /\ pc' = [pc EXCEPT ![r] = next] /\ pc[r] \in {"reading", "blocked"}
           /\ UNCHANGED <<kind, record, fate, answer, failures>>
    BY <1>10 DEF WriteBlocks, WriteReturns
  <2>2. TypeOK'
    BY <1>1, <1>2, <2>1 DEF TypeOK, processVars, PCs
  <2>3. pc'[r] = next /\ RequestOK(r)
    BY <2>1 DEF TypeOK
  <2>4. RequestOK(r)'
    BY <1>1, <1>3, <2>1, <2>3 DEF RequestOK, Stage, WholeIfClean, Answered
  <2>5. QED BY <1>1, <1>2, <1>3, <2>1, <2>2, <2>4, RequestStep DEF TypeOK
<1>11. QED BY <1>4, <1>5, <1>6, <1>7, <1>8, <1>9, <1>10 DEF ReadAnswer, ReadBody

\* Submit, and the answer after it.
LEMMA SubmitKeepsIInv ==
    ASSUME IInv, NEW r \in Requests, Submit(r)
    PROVE  IInv'
<1> USE DEF IInv
<1> DEFINE next == CASE submit'[r] \in {"sent", "dropped"} -> "reply"
                     [] submit'[r] = "panicked" -> "panicked"
                     [] OTHER -> "audit"
<1>1. /\ pc[r] = "audit" /\ Writer!Submit(r)
      /\ pc' = [pc EXCEPT ![r] = next]
      /\ UNCHANGED <<kind, record, fate, answer, failures, processVars>>
  BY DEF Submit
<1>2. Audit!IInv' /\ (Writer!TypeOK)'
  BY <1>1, WriterKeepsIInv
<1>3. Audit!TypeOK /\ (Audit!TypeOK)'
  BY <1>2 DEF Audit!IInv
<1>4. /\ submit \in [Requests -> Audit!SubmitStates] /\ submit' \in [Requests -> Audit!SubmitStates]
      /\ drain' = drain
  BY <1>1, <1>3
  DEF Audit!TypeOK, Writer!Submit, Writer!Send, Writer!FindFull, Writer!LoadDropped,
      Writer!StoreDropped, Writer!SendOnClosed, Writer!channelVars
<1>5. /\ \A q \in Requests : q # r => submit'[q] = submit[q]
      /\ submit'[r] \in {"sent", "full", "counting", "dropped", "panicked"}
      /\ submit'[r] = "panicked" => drain # "idle"
      /\ submit[r] \notin {"sent", "dropped"}
  BY <1>1, <1>4
  DEF Writer!Submit, Writer!Send, Writer!FindFull, Writer!LoadDropped, Writer!StoreDropped,
      Writer!SendOnClosed, Writer!Closed
<1>6. next \in {"reply", "panicked", "audit"}
      /\ (next = "reply" <=> submit'[r] \in {"sent", "dropped"})
      /\ (next = "panicked" <=> submit'[r] = "panicked")
  OBVIOUS
<1> HIDE DEF next
<1>7. TypeOK'
  BY <1>1, <1>2, <1>6 DEF TypeOK, processVars, PCs
<1>8. pc'[r] = next /\ fate'[r] = fate[r] /\ fate[r] \in Concluded /\ RequestOK(r)
  BY <1>1 DEF TypeOK, RequestOK, Stage, Concluded
<1>9. RequestOK(r)'
  BY <1>1, <1>5, <1>6, <1>8 DEF RequestOK, Stage, WholeIfClean, Answered
<1>10. \A q \in Requests : q # r => pc'[q] = pc[q]
  BY <1>1 DEF TypeOK
<1>11. QED BY <1>1, <1>2, <1>4, <1>5, <1>7, <1>9, <1>10, RequestStep

\* The answer that is left to give after Submit, or after a panic.
LEMMA ReplyKeepsIInv ==
    ASSUME IInv, NEW r \in Requests, Reply(r) \/ Recover(r)
    PROVE  IInv'
<1> USE DEF IInv
<1>1. /\ UNCHANGED writerVars /\ UNCHANGED <<processVars, drain>> /\ submit' = submit
      /\ UNCHANGED <<kind, record, fate, failures>>
      /\ pc' = [pc EXCEPT ![r] = "ended"]
      /\ pc[r] \in {"reply", "panicked"}
  BY DEF Reply, Recover, writerVars
<1>2. Audit!IInv' /\ (Writer!TypeOK)'
  BY <1>1, WriterKeepsIInv
<1>3. PICK a \in Answers :
         /\ answer' = [answer EXCEPT ![r] = a]
         /\ pc[r] = "reply" \/ a = 500 \/ a = answer[r]
  <2>1. /\ answer[r] \in Answers /\ record[r].status \in Answers
        /\ 502 \in Answers /\ 500 \in Answers
    BY DEF TypeOK, Answers
  <2>2. CASE Reply(r)
    <3>1. PICK a : a = IF answer[r] # 0 THEN answer[r]
                       ELSE IF kind[r] = "chat" /\ record[r].error /\ record[r].status \in Upstream
                       THEN 502 ELSE record[r].status
      OBVIOUS
    <3>2. a \in Answers
      BY <2>1, <3>1
    <3>3. pc[r] = "reply" /\ answer' = [answer EXCEPT ![r] = a]
      BY <2>2, <3>1 DEF Reply
    <3>4. QED BY <3>2, <3>3
  <2>3. CASE Recover(r)
    BY <2>1, <2>3 DEF Recover
  <2>4. QED BY <2>2, <2>3
<1>4. TypeOK'
  BY <1>1, <1>2, <1>3 DEF TypeOK, processVars, PCs
<1>5. pc'[r] = "ended" /\ answer'[r] = a /\ RequestOK(r)
  BY <1>1, <1>3 DEF TypeOK
<1>6. RequestOK(r)'
  BY <1>1, <1>3, <1>5 DEF RequestOK, Stage, WholeIfClean, Answered
<1>7. \A q \in Requests : q # r => pc'[q] = pc[q] /\ answer'[q] = answer[q]
  BY <1>1, <1>3 DEF TypeOK
<1>8. QED BY <1>1, <1>2, <1>4, <1>6, <1>7, RequestStep

\* What a step of the process or of the worker has to keep.
LEMMA ProcessStep ==
    ASSUME IInv, TypeOK', Audit!IInv', Orderly', UNCHANGED <<requestVars, submit>>
    PROVE  IInv'
<1> USE DEF IInv
<1>1. ASSUME NEW r \in Requests PROVE RequestOK(r)'
  <2>1. RequestOK(r)
    OBVIOUS
  <2>2. QED BY <2>1 DEF RequestOK, Stage, WholeIfClean, Answered, requestVars
<1>2. QED BY <1>1

\* The worker moves and inserts records; no request notices.
LEMMA WorkKeepsIInv == ASSUME IInv, WriterWorks PROVE IInv'
<1> USE DEF IInv
<1>1. Writer!Work /\ UNCHANGED <<requestVars, processVars>>
  BY DEF WriterWorks
<1>2. Audit!IInv' /\ (Writer!TypeOK)'
  BY <1>1, WriterKeepsIInv
<1>3. UNCHANGED <<submit, drain>>
  BY <1>1 DEF Writer!Work, Writer!Receive, Writer!Tick, Writer!SeeClosed, Writer!InsertSome,
              Writer!Insert
<1>4. TypeOK'
  BY <1>1, <1>2 DEF TypeOK, requestVars, processVars
<1>5. Orderly'
  BY <1>1, <1>3 DEF Orderly, Serving, requestVars, processVars
<1>6. QED BY <1>1, <1>2, <1>3, <1>4, <1>5, ProcessStep

\* The listener, the signal and the end of Shutdown.
LEMMA ShutdownKeepsIInv ==
    ASSUME IInv,
           \/ \E outcome \in {"up", "down"} : Listen(outcome)
           \/ Signal
           \/ \E timedOut \in BOOLEAN : ShutdownReturns(timedOut)
    PROVE  IInv'
<1> USE DEF IInv
<1>1. UNCHANGED <<requestVars, writerVars>> /\ UNCHANGED <<submit, drain>> /\ UNCHANGED writerVars
  BY DEF Listen, Signal, ShutdownReturns, writerVars
<1>2. Audit!IInv' /\ (Writer!TypeOK)'
  BY <1>1, WriterKeepsIInv
<1>3. CASE \E outcome \in {"up", "down"} : Listen(outcome)
  <2>1. TypeOK'
    BY <1>1, <1>2, <1>3 DEF Listen, TypeOK, requestVars
  <2>2. Orderly'
    BY <1>1, <1>3 DEF Listen, Orderly, Serving, requestVars
  <2>3. QED BY <1>1, <1>2, <2>1, <2>2, ProcessStep
<1>4. CASE Signal
  <2>1. TypeOK'
    BY <1>1, <1>2, <1>4 DEF Signal, TypeOK, requestVars, MainStates
  <2>2. Orderly'
    BY <1>1, <1>4 DEF Signal, Orderly, Serving, requestVars
  <2>3. QED BY <1>1, <1>2, <2>1, <2>2, ProcessStep
<1>5. ASSUME NEW timedOut \in BOOLEAN, ShutdownReturns(timedOut) PROVE IInv'
  <2>1. TypeOK'
    BY <1>1, <1>2, <1>5 DEF ShutdownReturns, TypeOK, requestVars, MainStates
  <2>2. /\ Serving /\ main' = "draining" /\ forced' = timedOut
        /\ \A r \in Requests : submit[r] # "panicked"
        /\ ~timedOut => \A r \in Requests : pc[r] \in {"idle", "ended"}
    BY <1>5 DEF ShutdownReturns, Orderly, Serving, InFlight
  <2>3. Orderly'
    BY <1>1, <2>2 DEF Orderly, Serving, requestVars
  <2>4. QED BY <1>1, <1>2, <2>1, <2>3, ProcessStep
<1>6. QED BY <1>3, <1>4, <1>5

\* Drain, closing the database, and the end of run.
LEMMA EndKeepsIInv ==
    ASSUME IInv, CloseQueue \/ SeeDone \/ CloseStore \/ Exit
    PROVE  IInv'
<1> USE DEF IInv
<1>1. /\ Writer!CloseQueue \/ Writer!SeeDone \/ UNCHANGED writerVars
      /\ UNCHANGED requestVars /\ UNCHANGED <<listening, forced, submit>>
      /\ main' \in MainStates
  BY DEF CloseQueue, SeeDone, CloseStore, Exit, writerVars, processVars, MainStates, TypeOK,
         Writer!CloseQueue, Writer!SeeDone
<1>2. Audit!IInv' /\ (Writer!TypeOK)'
  BY <1>1, WriterKeepsIInv
<1>3. TypeOK'
  BY <1>1, <1>2 DEF TypeOK, requestVars
<1>4. CASE CloseQueue
  <2>1. main = "draining" /\ main' = main
    BY <1>4 DEF CloseQueue, processVars
  <2>2. QED BY <1>1, <1>2, <1>3, <2>1, ProcessStep DEF Orderly, Serving, requestVars
<1>5. CASE SeeDone
  <2>1. main = "draining" /\ main' = "drained" /\ drain' = "returned"
    BY <1>5 DEF SeeDone, Writer!SeeDone
  <2>2. QED BY <1>1, <1>2, <1>3, <2>1, ProcessStep DEF Orderly, Serving, requestVars
<1>6. CASE CloseStore \/ Exit
  <2>1. /\ main \in {"drained", "closed"} /\ main' \in {"closed", "exited"}
        /\ drain' = drain
    BY <1>6 DEF CloseStore, Exit, writerVars
  <2>2. QED BY <1>1, <1>2, <1>3, <2>1, ProcessStep DEF Orderly, Serving, requestVars
<1>7. QED BY <1>4, <1>5, <1>6

\* Every step of a request, the worker and main keeps the invariant.
LEMMA NextKeepsIInv == IInv /\ [Next]_vars => IInv'
<1> SUFFICES ASSUME IInv, [Next]_vars PROVE IInv'
  OBVIOUS
<1>1. ASSUME NEW r \in Requests, Serve(r) PROVE IInv'
  BY <1>1, ArrivalKeepsIInv, ExchangeKeepsIInv, SubmitKeepsIInv, ReplyKeepsIInv DEF Serve
<1>2. CASE WriterWorks
  BY <1>2, WorkKeepsIInv
<1>3. CASE (\E outcome \in {"up", "down"} : Listen(outcome)) \/ Signal
  BY <1>3, ShutdownKeepsIInv
<1>4. CASE Main
  BY <1>4, ShutdownKeepsIInv, EndKeepsIInv DEF Main
<1>5. CASE UNCHANGED vars
  <2>1. UNCHANGED <<requestVars, processVars, submit, drain>> /\ UNCHANGED writerVars
    BY <1>5 DEF vars, writerVars
  <2>2. Audit!IInv' /\ (Writer!TypeOK)'
    BY <2>1, WriterKeepsIInv DEF IInv
  <2>3. TypeOK' /\ Orderly'
    BY <2>1, <2>2 DEF IInv, TypeOK, Orderly, Serving, requestVars, processVars
  <2>4. QED BY <2>1, <2>2, <2>3, ProcessStep
<1>6. QED BY <1>1, <1>2, <1>3, <1>4, <1>5 DEF Next

\* The invariant holds in every reachable state.
LEMMA SpecKeepsIInv == Spec => []IInv
<1>1. Init => IInv
  BY InitIInv
<1>2. IInv /\ [Next]_vars => IInv'
  BY NextKeepsIInv
<1>3. QED BY <1>1, <1>2, PTL DEF Spec

-----------------------------------------------------------------------------
(* The theorems. *)

\* Statuses, fates and answers are those the handlers can give, and the writer
\* inside the gateway keeps its own types.
THEOREM GatewayTypeCorrect == Spec => []TypeOK
<1>1. IInv => TypeOK
  BY DEF IInv
<1>2. QED BY <1>1, SpecKeepsIInv, PTL

\* No handler gives a client its complete answer before its record has been offered
\* to the writer.
THEOREM AnswersFollowRecords == Spec => []AuditedBeforeAnswered
<1>1. IInv => AuditedBeforeAnswered
  BY DEF IInv, RequestOK, Answered, AuditedBeforeAnswered
<1>2. QED BY <1>1, SpecKeepsIInv, PTL

\* A submitted record that says 200 without an error is that of an answer read to
\* its end.
THEOREM SuccessesAreWhole == Spec => []CleanRecordsAreWhole
<1>1. IInv => CleanRecordsAreWhole
  BY DEF IInv, RequestOK, Stage, WholeIfClean, Clean, CleanRecordsAreWhole
<1>2. QED BY <1>1, SpecKeepsIInv, PTL

\* Drain has returned before run goes on to the database.
LEMMA DrainedHasRows ==
    ASSUME IInv, main \in {"drained", "closed", "exited"}, NEW r \in Requests,
           submit[r] = "sent"
    PROVE  row[r] # "none"
<1>1. drain = "returned"
  BY DEF IInv, Orderly
<1>2. Audit!IInv => Audit!DrainLeavesNothing
  BY Audit!DrainedIsEmpty, GatewayAssumption
<1>3. QED BY <1>1, <1>2 DEF IInv, Audit!DrainLeavesNothing

\* run closes the database only when everything Submit accepted has met it, whether
\* or not Shutdown gave up waiting for requests.
THEOREM AcceptedMeetsDatabase == Spec => []AcceptedBeforeClose
<1>1. IInv => AcceptedBeforeClose
  BY DrainedHasRows DEF AcceptedBeforeClose
<1>2. QED BY <1>1, SpecKeepsIInv, PTL

\* When Shutdown has waited for every request, each one that passed Auth and routing is
\* in the audit trail or was dropped or refused for a reason the code states, and none
\* met a closed queue; only a Responses stream whose translator panicked has no record.
THEOREM GracefulShutdownAudits == Spec => []GracefulExitAudits
<1>1. IInv => GracefulExitAudits
  <2> SUFFICES ASSUME IInv, main \in {"draining", "drained", "closed", "exited"}, ~forced,
                      NEW r \in Requests, pc[r] # "idle", fate[r] # "rejected",
                      ~(fate[r] = "panicked" /\ kind[r] = "responses")
               PROVE  /\ submit[r] \in {"sent", "dropped"}
                      /\ main # "draining" /\ submit[r] = "sent" => row[r] # "none"
    BY DEF GracefulExitAudits
  <2>1. pc[r] \in {"idle", "ended"} /\ submit[r] # "panicked" /\ Stage(r)
    BY DEF IInv, Orderly, Serving, RequestOK
  <2>2. submit[r] \in {"sent", "dropped"}
    BY <2>1 DEF Stage
  <2>3. QED BY <2>2, DrainedHasRows
<1>2. QED BY <1>1, SpecKeepsIInv, PTL

\* No insert meets the closed database: when Drain has returned the worker has stopped.
THEOREM ClosedDatabaseUntouched == Spec => NoInsertAfterClose
<1>1. ASSUME IInv, [Next]_vars, row' # row PROVE main \notin {"closed", "exited"}
  <2>1. WriterWorks
    <3>1. CASE UNCHANGED <<row>> \/ UNCHANGED vars \/ UNCHANGED writerVars
      BY <1>1, <3>1 DEF vars, writerVars
    <3>2. ASSUME NEW r \in Requests, Serve(r)
          PROVE  UNCHANGED writerVars \/ Writer!Submit(r)
      BY <3>2
      DEF Serve, Route, Reject, ReadAnswer, UpstreamAnswers, UpstreamFails, Conclude,
          ForwardFirstChunk, WriteBlocks, WriteReturns, ReadBody, BodyEnds, BodyFails,
          TranslatorPanics, Submit, Reply, Recover
    <3>3. ASSUME NEW r \in Requests, Writer!Submit(r) PROVE UNCHANGED <<row>>
      BY <3>3 DEF Writer!Submit, Writer!Send, Writer!FindFull, Writer!LoadDropped,
                  Writer!StoreDropped, Writer!SendOnClosed
    <3>4. (\E outcome \in {"up", "down"} : Listen(outcome)) \/ Signal \/ Main
             => UNCHANGED writerVars \/ Writer!CloseQueue \/ Writer!SeeDone
      BY DEF Listen, Signal, Main, ShutdownReturns, CloseQueue, SeeDone, CloseStore, Exit
    <3>5. Writer!CloseQueue \/ Writer!SeeDone => UNCHANGED <<row>>
      BY DEF Writer!CloseQueue, Writer!SeeDone
    <3>6. QED BY <1>1, <3>1, <3>2, <3>3, <3>4, <3>5 DEF Next
  <2>2. Writer!Work
    BY <1>1, <2>1 DEF WriterWorks
  <2>3. worker \in {"flush", "final"}
    BY <1>1, <2>2 DEF Writer!Work, Writer!Receive, Writer!Tick, Writer!SeeClosed,
                      Writer!InsertSome, Writer!Insert
  <2>4. drain # "returned"
    BY <1>1, <2>3 DEF IInv, Audit!IInv
  <2>5. QED BY <1>1, <2>4 DEF IInv, Orderly
<1>2. QED BY <1>1, SpecKeepsIInv, PTL DEF Spec, NoInsertAfterClose
=============================================================================
