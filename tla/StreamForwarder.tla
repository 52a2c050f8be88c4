-------------------------- MODULE StreamForwarder --------------------------
(***************************************************************************)
(* A streamed chat completion on its way to the client and to the audit    *)
(* record: internal/audit/sse.go and handleStream in                       *)
(* internal/proxy/handler.go.                                              *)
(*                                                                         *)
(* The upstream body is a sequence of tokens, cut into chunks anywhere.  A *)
(* line is a series of tokens ended by Newline; an event line is the       *)
(* prefix Data and the pieces of a JSON payload, so that a chunk may end   *)
(* after the prefix, inside a payload or before the newline.               *)
(***************************************************************************)
EXTENDS Integers, FiniteSets, Sequences, SequencesExt, Selection

CONSTANTS Payloads,    \* the JSON payloads of events: [size, what, ...] by name
          LineKinds,   \* the lines an upstream sends: payloads and "junk"
          MaxLines,    \* bound on the lines of a body
          MaxPending,  \* maxPendingLineSize, in tokens
          MaxRaw       \* maxRawFallbackSize, in tokens

ASSUME ForwarderAssumption ==
    /\ MaxLines \in Nat
    /\ MaxPending \in Nat \ {0}
    /\ MaxRaw \in Nat
    /\ \A p \in DOMAIN Payloads : Payloads[p].size \in Nat \ {0}
    /\ LineKinds \subseteq DOMAIN Payloads \cup {"junk"}

VARIABLES body,        \* everything the upstream will send
          status,      \* its status code
          pos,         \* tokens read from it
          client,      \* what the client was sent
          pending,     \* SSEAggregator.pending
          agg,         \* content, tool calls, usage and sawData
          raw,         \* StreamForwarder.raw
          state,       \* Run's progress, then the steps of handleStream
          ended,       \* how Run returned: "eof" is no error
          stored       \* ResponseBody of the audit record

vars == <<body, status, pos, client, pending, agg, raw, state, ended, stored>>

Newline == <<"newline", 0>>
Data    == <<"data", 0>>
Pieces(p) == [i \in 1..Payloads[p].size |-> <<p, i>>]
Event(p)  == <<Data>> \o Pieces(p)

\* What an event adds: some text, a piece of a tool call, the usage, or, as [DONE],
\* nothing.
Text(p)  == Payloads[p].what = "text"
Usage(p) == Payloads[p].what = "usage"
Tool(p)  == Payloads[p].what = "tool"

\* One line: an event, or a comment or other noise.
LineOf(kind) ==
    (IF kind = "junk" THEN <<<<"junk", 0>>>> ELSE Event(kind)) \o <<Newline>>

\* Bodies of up to MaxLines lines, which may end or break off anywhere.
Whole == UNION {{FlattenSeq([i \in 1..n |-> LineOf(kinds[i])]) :
                    kinds \in [1..n -> LineKinds]} : n \in 1..MaxLines}
Bodies == UNION {{SubSeq(b, 1, n) : n \in 0..Len(b)} : b \in Whole}

EmptyAgg == [saw |-> FALSE, text |-> <<>>, usage |-> 0, tools |-> <<>>]

TypeOK ==
    /\ pos \in 0..Len(body)
    /\ Len(client) <= pos
    /\ Len(pending) <= MaxPending
    /\ Len(raw) <= MaxRaw
    /\ state \in {"running", "returned", "result", "stored"}
    /\ ended \in {"no", "eof", "broken", "clientGone"}

Init ==
    /\ body \in Bodies
    /\ status \in {200, 429}
    /\ pos = 0
    /\ client = <<>>
    /\ pending = <<>>
    /\ agg = EmptyAgg
    /\ raw = <<>>
    /\ state = "running"
    /\ ended = "no"
    /\ stored = <<>>

-----------------------------------------------------------------------------
(* SSEAggregator. *)

\* A tool call's first name stays, its arguments are appended.
MergeTool(tools, p) ==
    LET i == Payloads[p].index
        old == IF i \in DOMAIN tools THEN tools[i] ELSE [name |-> "", args |-> <<>>]
        new == [name |-> IF old.name = "" THEN Payloads[p].name ELSE old.name,
                args |-> Append(old.args, p)]
    IN  [j \in DOMAIN tools \cup {i} |-> IF j = i THEN new ELSE tools[j]]

\* The merge of a parsed payload; the last usage stands.
Absorb(a, p) ==
    [a EXCEPT !.text  = IF Text(p) THEN Append(@, p) ELSE @,
              !.usage = IF Usage(p) THEN Payloads[p].tokens ELSE @,
              !.tools = IF Tool(p) THEN MergeTool(@, p) ELSE @]

\* processLine: a line without the prefix counts for nothing; a payload that is
\* not whole JSON is skipped, but a data line has been seen.
ProcessLine(a, line) ==
    IF line = <<>> \/ line[1] # Data THEN a
    ELSE LET seen == [a EXCEPT !.saw = TRUE]
         IN  IF \E p \in DOMAIN Payloads : line = Event(p)
             THEN Absorb(seen, line[2][1])
             ELSE seen

\* drainLines, on the state [agg, rest]: fold over the tokens, a newline ends
\* the line gathered so far.
DrainLines(a, tokens) ==
    FoldLeft(LAMBDA s, t : IF t = Newline
                           THEN [agg |-> ProcessLine(s.agg, s.rest), rest |-> <<>>]
                           ELSE [s EXCEPT !.rest = Append(@, t)],
             [agg |-> a, rest |-> <<>>], tokens)

\* Mutant: a chunk is parsed without the partial line before it.
ProcessChunkAlone(chunk) ==
    LET drained == DrainLines(agg, chunk)
    IN  /\ agg' = drained.agg
        /\ pending' = IF Len(drained.rest) > MaxPending THEN <<>> ELSE drained.rest

\* Mutant: a partial line may grow for ever.
ProcessChunkUnbounded(chunk) ==
    LET drained == DrainLines(agg, pending \o chunk)
    IN  agg' = drained.agg /\ pending' = drained.rest

\* ProcessChunk: a partial line that outgrows the bound is forgotten.
ProcessChunk(chunk) ==
    LET drained == DrainLines(agg, pending \o chunk)
    IN  /\ agg' = drained.agg
        /\ pending' = IF Len(drained.rest) > MaxPending THEN <<>> ELSE drained.rest

-----------------------------------------------------------------------------
(* StreamForwarder.Run. *)

\* The leading bytes are kept before the client is written to.
Leading(tokens) == SubSeq(tokens, 1, IF Len(tokens) < MaxRaw THEN Len(tokens) ELSE MaxRaw)
KeepRaw(chunk) == raw' = Leading(raw \o chunk)

\* Run returns, or goes on reading.
Return(how) ==
    /\ ended' = how
    /\ state' = IF how = "no" THEN "running" ELSE "returned"

Chunk(n) == SubSeq(body, pos + 1, pos + n)

\* Read returns n > 0 bytes, alone or with the end of the body or an error.
Forward(n, how) ==
    /\ state = "running"
    /\ n \in 1..(Len(body) - pos)
    /\ how # "no" => pos + n = Len(body)
    /\ pos' = pos + n
    /\ KeepRaw(Chunk(n))
    /\ client' = client \o Chunk(n)
    /\ ProcessChunk(Chunk(n))
    /\ Return(how)
    /\ UNCHANGED <<body, status, stored>>

\* The client cannot be written to: Run returns before it aggregates the chunk.
WriteFails(n) ==
    /\ state = "running"
    /\ n \in 1..(Len(body) - pos)
    /\ pos' = pos + n
    /\ KeepRaw(Chunk(n))
    /\ Return("clientGone")
    /\ UNCHANGED <<body, status, client, pending, agg, stored>>

\* Read returns no bytes and io.EOF, or an error.
ReadEnds(how) ==
    /\ state = "running"
    /\ pos = Len(body)
    /\ Return(how)
    /\ UNCHANGED <<body, status, pos, client, pending, agg, raw, stored>>

-----------------------------------------------------------------------------
(* handleStream, when Run has returned. *)

\* Mutant: the unfinished last line is left out.
ResultUnfinished ==
    /\ state = "returned"
    /\ state' = "result"
    /\ UNCHANGED <<body, status, pos, client, pending, agg, raw, ended, stored>>

\* Result parses an unfinished last line first.
Result ==
    /\ state = "returned"
    /\ agg' = ProcessLine(agg, pending)
    /\ pending' = <<>>
    /\ state' = "result"
    /\ UNCHANGED <<body, status, pos, client, raw, ended, stored>>

\* The raw bytes take the place of an aggregate of no events.
StoreBody ==
    /\ state = "result"
    /\ stored' = IF status # 200 \/ ~agg.saw
                 THEN [form |-> "raw", raw |-> raw]
                 ELSE [form |-> "aggregate", agg |-> agg]
    /\ state' = "stored"
    /\ UNCHANGED <<body, status, pos, client, pending, agg, raw, ended>>

Next ==
    \/ \E n \in 1..Len(body) :
          \/ \E how \in {"no", "eof", "broken"} : Forward(n, how)
          \/ WriteFails(n)
    \/ \E how \in {"eof", "broken"} : ReadEnds(how)
    \/ Result
    \/ StoreBody

Spec == Init /\ [][Next]_vars

-----------------------------------------------------------------------------
(* What the audit record should hold, read off the tokens the client got. *)

\* Where lines begin, and the payload of the whole event that begins at i.
Begins(tokens, i) == i \in DOMAIN tokens /\ (i = 1 \/ tokens[i - 1] = Newline)

EventAt(tokens, i, p) ==
    /\ Begins(tokens, i)
    /\ \A j \in DOMAIN Event(p) :
          i + j - 1 \in DOMAIN tokens /\ tokens[i + j - 1] = Event(p)[j]
    /\ LET after == i + Len(Event(p))
       IN  after \in DOMAIN tokens => tokens[after] = Newline

\* The payloads of the events, each read off the first piece of it.
Events(tokens) ==
    LET firsts == Pick(tokens, {i \in DOMAIN tokens :
                                   \E p \in DOMAIN Payloads : EventAt(tokens, i - 1, p)})
    IN  [k \in DOMAIN firsts |-> firsts[k][1]]

SawData(tokens) == \E i \in DOMAIN tokens : Begins(tokens, i) /\ tokens[i] = Data

Texts    == {p \in DOMAIN Payloads : Text(p)}
Usages   == {p \in DOMAIN Payloads : Usage(p)}
Tools(i) == {p \in DOMAIN Payloads : Tool(p) /\ Payloads[p].index = i}
Named(i) == {p \in Tools(i) : Payloads[p].name # ""}

\* The audit specification: all deltas merged, each tool call under its index
\* with the first name given to it, the usage of the last event that has one.
Merged(saw, events) ==
    LET usages == Only(events, Usages)
        indexes == {Payloads[events[k]].index : k \in {j \in DOMAIN events : Tool(events[j])}}
    IN  [saw |-> saw,
         text |-> Only(events, Texts),
         usage |-> IF usages = <<>> THEN 0 ELSE Payloads[Last(usages)].tokens,
         tools |-> [i \in indexes |->
                      [name |-> LET named == Only(events, Named(i))
                                IN  IF named = <<>> THEN "" ELSE Payloads[named[1]].name,
                       args |-> Only(events, Tools(i))]]]

Expected(tokens) == Merged(SawData(tokens), Events(tokens))

\* No line of the body is longer than the buffer for partial lines.
LinesFit ==
    \A i \in DOMAIN body :
        body[i] = Newline \/ \E j \in i..(i + MaxPending) :
            j \notin DOMAIN body \/ body[j] = Newline

\* Chunk boundaries are invisible: the record stores what the tokens the client
\* received add up to, an unfinished last line included, or, if they hold no
\* event or the upstream reported an error, the first bytes of the body.
StoredAsReceived ==
    state = "stored" /\ LinesFit =>
        IF status = 200 /\ SawData(client)
        THEN stored.form = "aggregate" /\ stored.agg = Expected(client)
        ELSE stored.form = "raw" /\ stored.raw = Leading(SubSeq(body, 1, pos))

\* At every moment aggregator and buffer together account for all the client
\* has been sent: finishing now would give the expected aggregate.
AggregatorKeepsUp ==
    state = "running" /\ LinesFit => ProcessLine(agg, pending) = Expected(client)
=============================================================================
