------------------------ MODULE ResponsesTranslator ------------------------
(***************************************************************************)
(* internal/proxy/responses.go: a streamed chat completion translated into *)
(* the events of the Responses API, from the first event of Responses'     *)
(* scan loop to the audit record.                                          *)
(*                                                                         *)
(* A line of the upstream body carries a text, a reasoning text, a usage   *)
(* or pieces of tool calls; what a line carries is handled piece by piece, *)
(* so a line with several pieces is several steps here.  Lines that are no *)
(* event, or no JSON, are skipped by the loop and left out.  Texts and     *)
(* arguments are sequences of pieces, item ids are tagged tuples.          *)
(***************************************************************************)
EXTENDS Integers, Sequences, SequencesExt, Selection

CONSTANTS Pieces,      \* pieces of text and of arguments
          CallIds,     \* the ids of tool calls
          Indexes,     \* the index fields of tool-call pieces
          Upstreams,   \* how they order the pieces of tool calls
          MaxPieces    \* bound on the pieces of a body, for each of them

ASSUME TranslatorAssumption ==
    /\ "" \in CallIds
    /\ Indexes \subseteq Int
    /\ Upstreams \subseteq {"orderly", "interleaved", "sloppy"}
    /\ MaxPieces \in [Upstreams -> Nat]

VARIABLES upstream,    \* the one that answers this request
          received,    \* number of pieces read
          content,     \* aggregatedContent
          reasoning,   \* aggregatedReasoning is not empty
          usage,       \* usageInfo: 0 is nil
          toolCalls,   \* the slice of translatedToolCall
          out,         \* the events written to the client
          ended,       \* how the scan ended
          state,       \* the handler's progress
          audit        \* the submitted record

streamVars == <<upstream, received, content, reasoning, usage, toolCalls>>
vars == <<streamVars, out, ended, state, audit>>

Names  == {"", "f"}
Deltas == [index : Indexes, id : CallIds, name : Names, args : Pieces \cup {""}]

\* owner is strings.Builder's addr: 0 before the first write, then the array
\* the builder was in at that write, named by its capacity.
NoCall == [name |-> "", callID |-> "", args |-> <<>>, owner |-> 0]

Event(type, index, id, data) ==
    [type |-> type, index |-> index, id |-> id, call |-> "", data |-> data]
CallEvent(type, idx, id, call, data) ==
    [type |-> type, index |-> 1 + idx, id |-> id, call |-> call, data |-> data]

Message  == <<"msg", 0>>
Fc(idx)  == <<"fc", idx>>
NoRecord == [body |-> <<>>, usage |-> 0, error |-> FALSE]

\* append doubles a full array, from one: n calls are in an array of this size,
\* and a larger array is another one.
Capacity(n) ==
    LET array[k \in 0..n] ==
            IF k = 0 THEN 1
            ELSE IF k <= array[k - 1] THEN array[k - 1] ELSE 2 * array[k - 1]
    IN  array[n]

TypeOK ==
    /\ upstream \in Upstreams
    /\ received \in 0..MaxPieces[upstream]
    /\ content \in Seq(Pieces)
    /\ reasoning \in BOOLEAN
    /\ \A i \in DOMAIN toolCalls :
          /\ toolCalls[i].name \in Names
          /\ toolCalls[i].callID \in CallIds
          /\ toolCalls[i].args \in Seq(Pieces)
          /\ toolCalls[i].owner <= Capacity(Len(toolCalls))
    /\ ended \in {"no", "eof", "broken"}
    /\ state \in {"start", "scan", "blocked", "completing", "completed", "submitted",
                  "panicked"}

Init ==
    /\ upstream \in Upstreams
    /\ received = 0
    /\ content = <<>>
    /\ reasoning = FALSE
    /\ usage = 0
    /\ toolCalls = <<>>
    /\ out = <<>>
    /\ ended = "no"
    /\ state = "start"
    /\ audit = NoRecord

-----------------------------------------------------------------------------
(* What an upstream sends.  The first piece of a call has its id and name,   *)
(* the others arguments only; an orderly upstream ends a call before it      *)
(* begins the next one, an interleaved one does not; a sloppy one promises   *)
(* nothing.                                                                  *)

Begins(d) ==
    /\ d.index = Len(toolCalls)
    /\ d.name # ""
    /\ d.id # ""
    /\ \A i \in DOMAIN toolCalls : toolCalls[i].callID # d.id

Continues(d) ==
    /\ d.index \in 0..(Len(toolCalls) - 1)
    /\ d.name = ""
    /\ d.args # ""
    /\ upstream = "orderly" => d.index = Len(toolCalls) - 1

Sends(d) == upstream = "sloppy" \/ Begins(d) \/ Continues(d)

-----------------------------------------------------------------------------
(* The scan loop. *)

\* The message item and its content part are announced before anything is read.
Begin ==
    /\ state = "start"
    /\ state' = "scan"
    /\ out' = <<Event("created", 0, Message, <<>>),
                Event("added", 0, Message, <<>>),
                Event("part", 0, Message, <<>>)>>
    /\ UNCHANGED <<streamVars, ended, audit>>

Read ==
    /\ state = "scan"
    /\ received < MaxPieces[upstream]
    /\ received' = received + 1
    /\ UNCHANGED upstream

ReadText(text) ==
    /\ Read
    /\ content' = Append(content, text)
    /\ out' = Append(out, Event("delta", 0, Message, <<text>>))
    /\ UNCHANGED <<reasoning, usage, toolCalls, ended, state, audit>>

\* Mutant: one builder for the text and the reasoning.
ReadReasoningAsContent ==
    /\ Read
    /\ content' = Append(content, CHOOSE p \in Pieces : TRUE)
    /\ UNCHANGED <<reasoning, usage, toolCalls, out, ended, state, audit>>

\* Kept for the end of the stream, not sent.
ReadReasoning ==
    /\ Read
    /\ reasoning' = TRUE
    /\ UNCHANGED <<content, usage, toolCalls, out, ended, state, audit>>

ReadUsage(tokens) ==
    /\ Read
    /\ usage' = tokens
    /\ UNCHANGED <<content, reasoning, toolCalls, out, ended, state, audit>>

\* for len(toolCalls) <= idx: the slice grows by empty calls up to idx.
Grown(idx) ==
    [i \in 1..(IF idx < Len(toolCalls) THEN Len(toolCalls) ELSE idx + 1) |->
        IF i <= Len(toolCalls) THEN toolCalls[i] ELSE NoCall]

\* Mutant: name and id are swapped.
NamedSwapped(call, d) ==
    IF d.name = "" THEN call ELSE [call EXCEPT !.name = d.id, !.callID = d.name]

Named(call, d) ==
    IF d.name = "" THEN call ELSE [call EXCEPT !.name = d.name, !.callID = d.id]

\* Mutant: the item is announced with every piece.
AddedAlways(d) == <<CallEvent("added", d.index, <<"call", d.id>>, d.id, <<>>)>>

Added(d) ==
    IF d.name = "" THEN <<>>
    ELSE <<CallEvent("added", d.index, <<"call", d.id>>, d.id, <<>>)>>

\* Indexing panics below zero; an empty piece does not index.
NegativeIndex(d) ==
    /\ d.index < 0
    /\ state' = IF d.name = "" /\ d.args = "" THEN state ELSE "panicked"
    /\ UNCHANGED <<toolCalls, out>>

NoArguments(d) ==
    /\ d.index >= 0
    /\ d.args = ""
    /\ toolCalls' = [Grown(d.index) EXCEPT ![d.index + 1] = Named(@, d)]
    /\ out' = out \o Added(d)
    /\ UNCHANGED state

\* WriteString panics in a builder that append has copied to another array
\* since its first write.
Arguments(d) ==
    LET calls == Grown(d.index)
        array == Capacity(Len(calls))
        call  == Named(calls[d.index + 1], d)
        written == [call EXCEPT !.args = Append(@, d.args), !.owner = array]
    IN  /\ d.index >= 0
        /\ d.args # ""
        /\ \/ /\ call.owner \in {0, array}
              /\ toolCalls' = [calls EXCEPT ![d.index + 1] = written]
              /\ out' = out \o Added(d) \o <<CallEvent("delta", d.index, Fc(d.index),
                                                       call.callID, <<d.args>>)>>
              /\ UNCHANGED state
           \/ /\ call.owner \notin {0, array}
              /\ toolCalls' = [calls EXCEPT ![d.index + 1] = call]
              /\ out' = out \o Added(d)
              /\ state' = "panicked"

ReadToolCall(d) ==
    /\ Read
    /\ Sends(d)
    /\ NegativeIndex(d) \/ NoArguments(d) \/ Arguments(d)
    /\ UNCHANGED <<content, reasoning, usage, ended, audit>>

\* [DONE] or the end of the body; or a read error, a timeout or a line longer
\* than the scanner's buffer.
EndScan(how) ==
    /\ state = "scan"
    /\ ended' = how
    /\ state' = "completing"
    /\ UNCHANGED <<streamVars, out, audit>>

\* emit writes and flushes every event to the client.  The server has no
\* WriteTimeout: a client that stops reading holds the handler in the write.
WriteBlocks ==
    /\ state \in {"scan", "completing"}
    /\ state' = "blocked"
    /\ UNCHANGED <<streamVars, out, ended, audit>>

\* The client reads on, or is gone and the write fails, which nobody looks at.
WriteReturns ==
    /\ state = "blocked"
    /\ state' = IF ended = "no" THEN "scan" ELSE "completing"
    /\ UNCHANGED <<streamVars, out, ended, audit>>

-----------------------------------------------------------------------------
(* emitCompleted and the audit record. *)

\* Mutant: and in the place of or.
HasMessageAnd == content # <<>> /\ reasoning

HasMessage == content # <<>> \/ reasoning

MessageDone ==
    IF HasMessage THEN <<Event("textDone", 0, Message, content),
                         Event("itemDone", 0, Message, content)>>
    ELSE <<>>

CallDone(i) ==
    <<CallEvent("argsDone", i - 1, Fc(i - 1), toolCalls[i].callID, toolCalls[i].args),
      CallEvent("itemDone", i - 1, Fc(i - 1), toolCalls[i].callID, toolCalls[i].args)>>

CallsDone == FlattenSeq([i \in 1..Len(toolCalls) |-> CallDone(i)])

Output ==
    (IF HasMessage THEN <<Event("itemDone", 0, Message, content)>> ELSE <<>>)
    \o [i \in 1..Len(toolCalls) |-> CallDone(i)[2]]

\* Mutant: the handler returns on a scanner error.
EmitCompletedUnlessBroken ==
    /\ state = "completing"
    /\ ended # "broken"
    /\ out' = out \o MessageDone \o CallsDone
                  \o <<[type |-> "completed", output |-> Output, usage |-> usage]>>
    /\ state' = "completed"
    /\ UNCHANGED <<streamVars, ended, audit>>

\* The done events, then response.completed with every item, whatever the
\* scanner's error was.
EmitCompleted ==
    /\ state = "completing"
    /\ out' = out \o MessageDone \o CallsDone
                  \o <<[type |-> "completed", output |-> Output, usage |-> usage]>>
    /\ state' = "completed"
    /\ UNCHANGED <<streamVars, ended, audit>>

\* The record has the text, the usage and the scanner's error.
SubmitRecord ==
    /\ state = "completed"
    /\ audit' = [body |-> content, usage |-> usage, error |-> ended = "broken"]
    /\ state' = "submitted"
    /\ UNCHANGED <<streamVars, out, ended>>

-----------------------------------------------------------------------------
Scan ==
    \/ \E text \in Pieces : ReadText(text)
    \/ ReadReasoning
    \/ \E tokens \in 1..2 : ReadUsage(tokens)
    \/ \E d \in Deltas : ReadToolCall(d)
    \/ \E how \in {"eof", "broken"} : EndScan(how)

Next == Begin \/ Scan \/ WriteBlocks \/ WriteReturns \/ EmitCompleted \/ SubmitRecord

Spec == Init /\ [][Next]_vars

\* A body ends: the HTTP client's timeout covers reading it.  The handler is one
\* goroutine that waits for the body and for the client.  Nothing bounds the wait
\* for the client, so WriteReturns is not fair, and the steps that a blocked write
\* interrupts are strongly fair: the handler takes them when it comes back.
Fairness == WF_vars(Begin) /\ SF_vars(Scan) /\ SF_vars(EmitCompleted) /\ WF_vars(SubmitRecord)

FairSpec == Spec /\ Fairness

-----------------------------------------------------------------------------
(* Properties. *)

Events(index) ==
    Pick(out, {i \in DOMAIN out : out[i].type # "completed" /\ out[i].index = index})
Streamed(index, call) ==
    LET deltas == Pick(out, {i \in DOMAIN out : /\ out[i].type = "delta"
                                               /\ out[i].index = index
                                               /\ out[i].call = call})
    IN  FlattenSeq([i \in DOMAIN deltas |-> deltas[i].data])

Finished == state \in {"completed", "submitted"}

\* A client that adds up the deltas it gets has what the done events and
\* response.completed then tell it, for the message and for every tool call,
\* told apart by index and call id, however the pieces of the calls were mixed.
DeltasAddUp ==
    Finished /\ upstream # "sloppy" =>
        /\ \A i \in DOMAIN out :
              out[i].type \in {"textDone", "argsDone", "itemDone"} =>
                  out[i].data = Streamed(out[i].index, out[i].call)
        /\ \A index \in 0..Len(toolCalls) :
              Streamed(index, IF index = 0 THEN "" ELSE toolCalls[index].callID) # <<>> =>
                  \E i \in DOMAIN Last(out).output : Last(out).output[i].index = index

\* The events of a tool call come in the order of its life: it is added once,
\* before its deltas; at the end of the stream its arguments are done and the
\* item is, once each.
CallEventsInOrder ==
    upstream # "sloppy" =>
        \A index \in 1..Len(toolCalls) :
            LET types == [i \in 1..Len(Events(index)) |-> Events(index)[i].type]
                deltas == [i \in 1..(Len(types) - IF Finished THEN 3 ELSE 1) |-> "delta"]
            IN  types = <<"added">> \o deltas \o
                        IF Finished THEN <<"argsDone", "itemDone">> ELSE <<>>

\* The audited text and usage are those the client was given, in a broken
\* stream too, whatever the upstream sent.
AuditIsWhatWasSent ==
    state = "submitted" =>
        /\ audit.body = Streamed(0, "")
        /\ audit.usage = Last(out).usage
        /\ audit.error <=> ended = "broken"

\* An orderly upstream's stream ends with response.completed and an audit
\* record, the builders of the arguments never being written to after a move, unless
\* the client leaves the handler in a write for ever, neither reading nor disconnecting.
OrderlyCompletes ==
    \/ <>[](state = "blocked")
    \/ upstream = "orderly" ~> state = "submitted"

\* README.md promises the complete life cycle of Responses events: every
\* translated stream of a client that reads it ends with response.completed and is
\* audited.
StreamCompletes == <>[](state = "blocked") \/ <>(state = "submitted")
=============================================================================
