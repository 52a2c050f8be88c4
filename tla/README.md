# wing-ai-proxy in TLA+

Wing AI Proxy is a small gateway in Go: clients call an OpenAI-compatible API with a virtual
key, the proxy maps the model name to a provider and a real name, forwards the request, streams
the answer back and writes an audit record to SQLite. The configuration is reloaded while the
proxy runs, and a `compact` command rewrites old audit rows.

This directory holds TLA+ models of the parts of it where order matters: goroutines that share a
queue, a shutdown that races with requests, reloads that race with each other, streams that are
cut anywhere, transactions that may fail anywhere. Each module names the code it models in its
header, and `PROJECT.json` maps every definition to its lines.

## Inventory

| Component | Source | State | Operations | Runs in | What makes it correct |
|---|---|---|---|---|---|
| Audit writer | `internal/audit/store.go` | channel, worker's batch, `dropped` | `Submit`, worker loop, `Drain` | every request goroutine, one worker, main | accepted records reach the database once and in order; `Drain` leaves none behind; `Submit` never waits |
| Request handlers | `internal/proxy/handler.go`, outline of `responses.go` | the request's audit record, what the client was sent | route, exchange with the upstream, submit, answer | a goroutine per request | every exchange is audited unless the translator panics, before its answer where the handlers promise it; a clean record is that of a whole exchange |
| Process life cycle | `cmd/wing-ai-proxy/main.go` | where `run` stands | serve, signal, `Shutdown`, `Drain`, `Close`, return | main | a graceful exit loses no record; the database is closed last; the signal ends the process |
| Configuration watcher | `internal/config/watcher.go`, callback in `main.go` | debounce timer, `currentCfg` | events, firing, `reload`, `Close` | the loop, one goroutine per firing | no edit is forgotten; what is installed is one whole version, the last valid one |
| Configuration loading | `internal/config/config.go` | none | `Load`, `validate` | the caller | an invalid file changes nothing |
| Registry and routing | `internal/provider/provider.go` | `modelMap` under a lock | `NewRegistry`, `Update`, `Resolve`, `ShowNames`, rewriting | requests and reloads | a name belongs to the first provider that offers it; a request is sent under the name that its record says |
| Provider HTTP client | `internal/provider/provider.go` | connection pool | `ChatCompletion` | the request | a timeout covers the whole exchange |
| Stream forwarder, SSE aggregator | `internal/audit/sse.go` | partial line, aggregate, first raw bytes | `Run`, `ProcessChunk`, `Result` | the request | the record holds what the client was sent, however the body is cut |
| Responses translator | `internal/proxy/responses.go` | texts, slice of tool calls with their builders | the scan loop, `emit…` | the request | the events add up; the record is what was sent; every stream is completed |
| Request conversion | `internal/proxy/responses.go` | none | `convertToChatCompletions`, `normalizeContent`, `convertTools` | the request | what a client was streamed comes back to the upstream as it was said; an output answers its call |
| Compact | `internal/audit/compact.go`, `cmd/…/compact.go` | cursor, open transaction, counters | select batch, rows, commit, checkpoint, `VACUUM` | other processes, several at a time | every old row compressed exactly once; the report is true; the space is returned |
| SQLite store | `internal/audit/store.go`, `migration.sql` | the table | `Insert`, migration, `Close` | worker, compact | an insert stores one row or fails |
| Authentication | `internal/middleware/middleware.go` | key set under a lock | `Handler`, `UpdateKeys` | requests and reloads | a key never comes before its model, also when an edit removes both |
| Request id, models, health, metrics, logging | `middleware.go`, `handler.go`, `metrics.go`, `main.go` | counters of libraries | | | nothing the others depend on |

How they interact. A request passes `Auth`, is resolved by the `Registry`, holds the provider it
was given, and calls `Submit` once. The worker is the only one that inserts. The watcher's
goroutines write the registry and the key set, each under its own lock, while requests read them.
main closes the watcher, the server, the writer and the database in that order; nothing forces the
handlers to be gone when the server's 30 seconds are over. Compact shares only the SQLite file
with the proxy.

What is hard. `Submit` is called by goroutines that may outlive `Shutdown`; the counter of dropped
records is not synchronised; reload goroutines overlap; a registry may be replaced between
`Resolve` and `ChatCompletion`; bodies break off anywhere and chunks end anywhere; a slice of
builders is moved by `append`; a request is authorised and resolved in two steps that a reload may
come between; a client that stops reading holds its handler in a write that no timeout bounds; what
was streamed comes back as history; a compact run may die between any two statements and
another one may work on the same rows. The list, each at its line, is `hazards` in `PROJECT.json`.

## Modules

```
AuditContract            what internal/audit promises
     ^ implemented by
AsyncWriter              channel, worker, Drain                 <- AsyncWriterProofs
     ^ instantiated by                                                ^ instantiated by
Gateway                  requests + writer + shutdown           <- GatewayProofs

HotReload                watcher, debounce, reload goroutines   <- HotReloadProofs
     ^ extended by                                                    for both
Admission                requests between the two updates

ResponsesTranslator      Responses streams: events, tool calls, audit body
     ^ extended by                                              <- ConversationProofs
Conversation             the next turn: its request, converted        for both

Routing                  the registry: merging, resolving, rewriting names   <- RoutingProofs
StreamForwarder          chat streams: client, aggregate, audit body         <- StreamForwarderProofs
Compact                  compact runs against the audit table                <- CompactProofs

Selection                elements of a sequence in their order: used by the three stream modules
FoldLemmas               what folds, sums, flattenings and selections give for every input
```

The modules on the right, and `FoldLemmas`, hold theorems that TLAPS checks.

Each `MC…` module extends one of them with the model values of its runs. `Gateway` contains the
writer as `Writer == INSTANCE AsyncWriter`, with its variables and every one of its actions; its
own `Submit`, `CloseQueue` and `SeeDone` are the writer's actions joined with a step of the
caller. `HotReload` treats a configuration as a version number and asks which versions are
installed; `Routing` opens the versions up and asks what is in the registry. `Gateway` takes the
panic of the translator, which `ResponsesTranslator` explains, as a choice. `Admission` adds
requests to `HotReload` and `Conversation` adds a second turn to `ResponsesTranslator`; both keep
every action of the module they extend, and their runs check its properties too.

Operators whose comment begins with "Mutant" stand next to the definition they distort. They
belong to no specification: each is a bug one could plausibly write, and `PROJECT.json` says which
property finds it when it takes the definition's place.

### How the models correspond to the code

* **AsyncWriter.** `queue` is the buffered channel, `batch` the worker's slice, `worker` its place
  in the `select` loop, `submit[r]` the place of the request's goroutine in `Submit`. `dropped++`
  is a load and a store. `Receive`, `Tick` and `SeeClosed` are the three outcomes of the
  `select`; `Insert` is one turn of the loop in `flush`, which may fail, since the code logs the
  error and goes on. A closed channel is `drain # "idle"`: a send to it panics, also in a `select`
  with a default. `Submit` is called once per record, as the handlers do.
* **Gateway.** `pc[r]` is the goroutine of a request: `upstream` (inside `ChatCompletion`),
  `reading` (the body), `blocked` (a streaming handler in a write to a client that does not read),
  `audit` (metrics and `Submit`), `reply`. `record[r]` has the two fields of the audit record that
  tell success from failure. `fate[r]` is not in the code: it says what the network really did, or
  that the request was rejected, or that its translator panicked, for the properties to compare
  the record with. The three kinds are
  non-stream chat, stream chat and Responses; they differ in when the client is first sent a
  status, and in what a read error does (a 502, an error message in the record, nothing at all for
  an upstream error copied by Responses). The process may end (`Exit`) with handlers still running.
* **HotReload.** `file` is the version on disk with its state; a half-written file is an invalid
  version. `events` is what fsnotify has not delivered. `HandleEvent` restarts the timer; a firing
  is a goroutine (`reload[i]`) with one step per effect: load, swap, registry, keys. `NewRegistry`
  inside `Update` needs no step here: it works on its own data. `blind` and `overlapped` are
  history variables, read by properties only.
* **Routing.** `AddModel(n)` is one turn of the inner loop of `NewRegistry`, for any name not
  visited yet, because Go gives maps no order. `Publish` is the assignment under the lock.
  A request keeps the entry it resolved. `exact` says that it spells its field `model`. The chat
  handler passes the body on and the provider rewrites the show name; the Responses handler writes
  the real name into a body of its own (`Given`), and the provider looks that up in its own map.
* **Admission.** `Authenticate` is the look at the key set, `Resolve` the later look at the
  registry. A client is the set of versions that have its key and the set of those that have its
  model, so an edit may add either and remove either.
* **StreamForwarder.** A body is a sequence of tokens, not of characters: an event line is the
  prefix `Data`, the pieces of its payload and `Newline`, so a chunk may end after the prefix,
  within the payload or before the newline. What a payload adds is text, a piece of a tool call or
  a usage. `Forward` is one turn of `Run` with a successful write, in the order of the code: raw
  bytes, client, aggregator. The comparison (`Expected`) reads the lines off the tokens without
  chunks, buffer or fold.
* **ResponsesTranslator.** A line's pieces are handled one by one. `owner` is `strings.Builder`'s
  `addr`: a call that has been written to belongs to the array it was in, and `Capacity` gives the
  array from the number of calls, since `append` doubles. Events keep their type, output index,
  item id, call id and text. Every event is a write to the client: `WriteBlocks` is one that does
  not return, as long as the client neither reads nor disconnects.
* **Conversation.** `NextTurn` is the client: it sends its prompt, the items of
  `response.completed` and an output for each call. It fills the `id` of a replayed call with the
  item's id, with the call id it was announced with, or not at all; the code accepts all three.
  `Continued` is that request. Prompts begin with messages of system, developer and user, as the
  first turn of a conversation does (`ConversationAssumption`): a prompt that already held calls
  would be a third turn, with a stream of its own that the model does not have.
  `Convert` is `convertToChatCompletions`; a string is a list of pieces, as in the stream.
* **Compact.** A body is empty, text, gzip, or gzip twice. `lock` is SQLite's write lock, taken by
  `BEGIN IMMEDIATE`; a batch is a set of ids, whose updates are collected in `work` and become
  visible at `Commit`. The counters and the progress report follow as a step of their own, `Count`:
  a run that is killed before it leaves a batch that no run reports (`lost`, a history variable).
  `slack` holds the rows whose space is still in the file: `VACUUM` returns it,
  under the lock, between two checkpoints that need the lock to be free. `BeginBusy` is any of
  these that waits in vain for the busy timeout. `Abort` is any other error or the death of the
  process; `Start` may begin again after it.

## Runs

| Run | Question | Bounds | Size |
|---|---|---|---|
| `async_writer` | does the writer keep its contract, and does it make progress | 4 records, channel of 1, batch of 2 | 24 000 states |
| `gateway` | what is the audit trail worth under failures and a shutdown | 2 requests of any kind, channel of 1, batch of 2 | 980 000 states |
| `gateway_live` | does the signal end the process, is a request sent upstream settled | 2 Responses requests | 170 000 states |
| `hot_reload` | is every edit seen, is the last one installed, does a key come with its model | 3 edits, 1 request, 13 clients | 277 000 states |
| `routing` | what is in the registry, what is a request sent as | all pairs of configurations over 2 names and 2 providers, 1 request of either API | 670 000 states |
| `compact` | are rows compressed exactly once, is the report true, is the space returned | 2 runs with or without `VACUUM`, 3 rows, batches of 2 rows and 3 bytes | 3 330 000 states |
| `stream_forwarder` | does the record hold what the client got | bodies of 3 lines of 9 kinds, every cut | 980 000 states |
| `responses` | do the events add up, is the record what was sent, does the next turn say it again | 5 pieces, or 3 of the sloppy upstream, 2 tool calls, 3 kinds of upstream, 3 of clients, 2 prompts | 192 000 states |
| `forced_shutdown` | *finding:* `Submit` panics after a forced shutdown | 1 request | |
| `mixed_reload` | *finding:* overlapping reloads mix two versions | 2 edits | |
| `tool_replay` | *finding:* the output of a replayed tool call answers no call | 2 turns | |
| `interleaved_calls` | *finding:* interleaved tool calls panic | 4 pieces | |

Why the bounds are enough to be interesting. With a channel of 1 and a batch of 2, four requests
make the queue full, make two `Submit` calls count at once, fill a batch and leave a partial one
at `Drain`. Two requests are enough for one of them to be in `Submit` while the other holds up
`Shutdown`. Three edits give up to three firings, which may all overlap, and a third reload after
two that did; one request may look before, between and after their updates, of a client whose key
and model come and go with any two of the versions, or whose model goes, for good or for one
version, under a key that stays. Two providers with two names
cover every conflict and every chain of show and real names; two configurations cover a reload
between `Resolve` and `ChatCompletion`. Three rows exceed both caps of a batch, and two runs with
`VACUUM` meet each other's lock at every statement. Three lines
contain a split line, a line longer than the buffer (3 tokens) and a merge of two pieces; six raw
tokens are fewer than a body has. Two calls are enough for the slice to move, and a fourth piece
writes to a builder that was moved; the sloppy upstream, of which less is promised, has three pieces
of any kind and index. The two prompts hold each kind of item, of part and of tool that
the conversion tells apart.

Every run but the violations is exhausted. `CHECK_DEADLOCK FALSE` stands in every configuration:
a writer without traffic, a process that has exited, a watcher without edits, a finished stream
and an idle table have nothing left to do.

### What the passing runs show

* *Audit writer.* An accepted record is in the channel or in the batch, once, until it meets the
  database; after `Drain` none is left; it reaches the database without more traffic; `Drain`
  returns; and the whole behaves as the one line of `AuditContract`. The counter may lose
  increments, but never exceeds the number of drops and is never zero after one.
* *Gateway.* A complete answer is given after its record was offered. A record with status 200 and
  no error is that of a whole exchange. What `Submit` accepted before the database was closed has
  been offered to it, also after a forced shutdown. After a graceful one every request that passed
  Auth and routing is accounted for: in the trail, dropped by a full queue, or refused by the
  database. The exception is a Responses request whose translator panicked: the client has had a
  200, and no record of it exists. No insert meets a closed database. The signal ends the process
  also when handlers are stuck in a write; a request sent upstream is settled, unless its client
  leaves it in a write for ever, its translator panicked, or the process ended first.
* *Hot reload.* The debounce forgets no edit, whatever is running. Unless reloads have overlapped,
  registry and keys are those of the last valid version and never go back, a valid edit takes
  effect, and a request that is let in with a key never meets a registry older than the keys that
  let it in, because the callback replaces the registry first: a model that came with the key is
  there, unless that configuration or a later one does not have it. The same order lets a client
  that an edit removes in for a moment longer, to find its model gone. An edit made before the watch
  began is the one exception, kept in `blind`.
* *Routing.* Requests meet only registries that are a whole configuration's, first provider first.
  A request of either API is sent under the name in its record, the name of one configuration;
  excepted are a Responses request whose real name is a show name of the same provider, which is
  mapped twice, and a chat request that spells the field otherwise than `model`.
* *Stream forwarder.* Cutting a body does not change its record, and what is finished at any moment
  is what the client has been sent. A line over the bound for partial lines is excepted
  (`LinesFit`): what remains of it depends on the cut.
* *Responses.* For upstreams that begin their calls properly, deltas, done events and the final
  output agree, and the events of a call come in order. The record agrees with what was sent for
  any upstream. A stream whose calls come one after the other is completed and audited, if its
  client reads it or goes away. In the next turn the upstream reads its own text and calls again, in their order, each followed by its
  output; the outputs answer the calls if the client gives back the id a call was announced with.
* *Compact.* No body is compressed twice; a run that reports success left nothing to do among the
  rows it began with, and with `VACUUM` no space they took; only text becomes gzip. The
  counters of all runs add up to the rows changed, but for a batch committed and not counted yet, and
  the batches of runs killed at that point: no row is reported twice, and none that was rolled back.

### What the violations show

Each checks what a document of the repository says, and ends in a state the code reaches.

1. `forced_shutdown`: when `Shutdown` times out, `Drain` closes the channel under requests that are
   still running; their `Submit` panics ("Returns immediately; drops if queue is full").
2. `mixed_reload`: `time.AfterFunc` runs reloads in goroutines that may overlap, so registry and
   keys of different versions can stay installed (the hot-reload specification asks for an atomic
   replacement).
3. `tool_replay`: the translator announces a tool call with the call id and completes it with the
   item id `fc_<index>`. A client that sends the completed item back has its call converted with the
   item id and the output with the call id, so that the tool message answers no tool call (README.md
   wants tools like Codex CLI to work through the bridge).
4. `interleaved_calls`: `toolCalls` holds `strings.Builder`s by value. When `append` moves a builder
   that has been written to, its next write panics; the stream is neither completed nor audited.

Differences from the documents met while modelling, for which a run would say no more than the line:
a stream the upstream breaks off ends without the SSE error event of `request-proxy/spec.md:53`;
a timeout while the body is read is audited with the upstream's status, not the 504 of
`audit-system/spec.md:16`; an upstream's 4xx leaves `error_message` empty; a request that spells
its field `Model` is routed but not rewritten; an answer "model not found" lists the names of a
second look at the registry, which a reload may have given that very name; a Responses request
whose real name is also a show name of its provider is mapped twice; consecutive calls become an
assistant message each; `tool_choice` and `reasoning` are not forwarded; a Responses request is
always streamed, while the record keeps what the client asked for; the gauge of the queue's length
is set before `Submit` and then not until the next request; two compact runs that VACUUM at the
same time may both report the same bytes as reclaimed.

## Fairness

* `AsyncWriter`: weak fairness of each step of the worker and of the end of `Drain`. The Go runtime
  runs runnable goroutines; `select` picks among ready cases at random, so neither the channel nor
  the ticker is ignored for ever; an insert returns because the busy timeout bounds it. No fairness
  for `Submit` or for the call of `Drain`.
* `Gateway`: the wait for the upstream's status line is weakly fair, and reading the body strongly:
  the provider's timeout bounds both, but the streaming handlers also write to the client between two
  reads, and `http.Server` has no `WriteTimeout` (`main.go:135-138`). A blocked write returns when the
  client reads on or disconnects, and nothing makes it do either, so `WriteReturns` is not fair, nor
  are `Reply` and `Recover`, which write to the client too. `RoutedIsSettled` therefore excepts a
  request that is blocked for ever, `<>[](pc[r] = "blocked")`; strong fairness says that one that
  comes back from its writes again and again gets to read. `Submit` is weakly fair, the worker as a
  whole, and main, whose `Shutdown` has a deadline. No client must call and no signal must come.
* `HotReload`: weak fairness of the loop, of an expired timer and of each reload goroutine. No edit
  must come, and nothing orders two goroutines. `Admission` adds that an admitted request is
  resolved: it waits for nothing but a short lock.
* `ResponsesTranslator`, `Conversation`: the same for the one handler they have. A body ends because
  the timeout covers it; `Scan` and `EmitCompleted`, which a blocked write interrupts, are strongly
  fair, `WriteReturns` is not fair, and `OrderlyCompletes` excepts a client that blocks the handler
  for ever. No client must go on.
* `Routing`, `StreamForwarder` and `Compact` are checked for safety only.

## Proofs

`AsyncWriterProofs` holds for every set of records, every capacity and every batch size from 1
(`WriterAssumption`), where TLC has four records. TLAPS checks

* `TypeCorrect`: `Spec => []TypeOK`, with the bounds on channel and batch;
* `AcceptedRecordsHeldOnce`: `Spec => []AcceptedHeldOnce`;
* `DrainLeavesNoRecord`: `Spec => []DrainLeavesNothing`;
* `DroppedCountIsBounded`: `Spec => []DroppedCountBounded`;
* `WriterImplementsContract`: `Spec => ImplementsContract`, the refinement.

The argument. None of the properties is inductive. `AcceptedHeldOnce` says that the accepted
records without an outcome are the elements of `batch \o queue`, and that these are distinct; to
preserve it, a step has to know that the record it inserts was accepted (a row implies an accepted
record), and that `Insert` has something to insert (the worker flushes only a non-empty batch).
`DrainLeavesNothing` follows if the stopped worker holds nothing, which needs that a worker in its
last flush has seen the channel closed and empty, and that a closed channel stays empty. `IInv`
joins these. Lemmas about sequences (`SendExtends`, `ReceiveKeeps`, `InsertShortens`, …) reduce
each step to "the line grows at its end", "stays" or "loses its head"; each action has a lemma that
it keeps `IInv`. The counter has an invariant of its own, `CountInv`: a call that has loaded the
counter loaded no more than the calls counted by then, and the set of these only grows, by the call
that stores. For the refinement, `Fates`, `InMemory` and `Phase` stand for the variables of the
contract; each action is shown to be an action of the contract or to leave them alone.

`HotReloadProofs` holds for any number of edits (`ReloadAssumption`), where TLC has three:

* `TypeCorrect`: `Spec => []TypeOK`; in particular no version out of the file's is ever installed,
  and the timer fires at most once for each edit;
* `NoEditForgotten`: `Spec => []LastEditLoaded`;
* `LastEditInstalled`: `Spec => []FileInstalled`;
* `NeverGoesBack`: `Spec => NeverBackwards`.

The argument. The last two speak of states with nothing under way, so the invariant has to say
where an edit is until then: a valid edit is announced (by an event or the timer), being loaded, or
loaded (`EditOnItsWay`), and without overlap it moves on from a goroutine that carries its version
past the registry and past the keys (`Arrived`, `InstallOnItsWay`). That a later step does not undo
this needs `OneAtATime`: while reloads have never overlapped, only the latest runs, and it carries
a version at least as new as each installed one; which needs `NothingNewer` when the goroutine
loads. `FiringsCounted` bounds the firings by the edits: every firing uses up an event. `NotStarted`
covers a watcher that begins to watch an unedited file. As in the model, nothing is claimed once
reloads have overlapped: the violation run `mixed_reload` shows what happens then.

Its second part takes in requests (`AdmissionTypeCorrect`, `KeysComeWithModels`), for any
number of them. `HotReload`'s `IInv` is taken over, since every step of `Admission` is one of
`HotReload` or leaves it alone; what is added is that without overlap the keys are never newer than
the registry and never about to be (`KeysFollow`), so that the registry is at least as new as the
keys that let a request in (`AdmittedBehind`): a model it does not have is one that a configuration
from there on lacks.

`GatewayProofs` holds for any number of requests, any kinds and any sizes of the writer
(`GatewayAssumption`), where TLC has two requests: `GatewayTypeCorrect`, `AnswersFollowRecords`,
`SuccessesAreWhole`, `AcceptedMeetsDatabase`, `GracefulShutdownAudits` and `ClosedDatabaseUntouched`.
It instantiates `AsyncWriterProofs` and takes the writer's `IInv` and its preservation over
(`WriterKeepsIInv`): each step of the gateway is a step of the writer or leaves it alone. What is
added is per request, `Stage` (the goroutine calls `Submit` once, after the exchange, and never
leaves in the middle of the call; who has ended without it was rejected, or panicked in the
translator), and for the process, `Orderly`: as long as it serves, the channel
is open; past `Shutdown` without force every request has ended; past `Drain` the worker has stopped.
A request at work then rules out the orderly end, which is the whole argument for the last three
theorems.

`RoutingProofs` holds for any names, providers and requests (`RoutingAssumption`), and two
configurations: `RoutingTypeCorrect`, `FirstProviderOwns` and `RequestsSentAsAudited`. The loop
invariant is `Visited`: the map built so far holds the names of the providers before the current one
and those of the current one that were visited, each with what its first provider offers. When the
last provider is through, it is `Merged` (`VisitedAll`); the first provider exists because the
numbers are well founded. `Resolved` keeps a request's entry to a configuration that was installed
when it looked.

`CompactProofs` holds for any number of runs and rows and any limits of a batch
(`CompactAssumption`), where TLC has two and three: `CompactTypeCorrect`, `NoBodyCompressedTwice`,
`DoneRunHasCompacted`, `VacuumHasReturnedSpace`, `ReportsAreExact` and `BodiesOnlyBecomeGzip`. The
invariant says that a run's limit is an id already given, so that no later insert comes under it
(`IdsGiven`); that who writes holds the lock (`Writer`), so that what a transaction has collected is
still what the table has (`Collected`); that a run leaves no legacy row behind its cursor but those
in its hands (`Behind`), which needs that a batch is the next legacy rows without a gap
(`BatchIsNext`); and that what was converted is legacy no more (`Converted`, `Returned`).
`ReportsAreExact` compares a sum over the runs, of what they have counted and what they have
committed and not counted yet, with the number of converted rows: a commit adds to one summand as many
rows as it adds to the set, because the rows of its batch were not converted before (`CommitIsReported`);
counting moves rows within a summand (`StepKeepsReport`); and a run that is killed takes no more than
its uncounted batch out of the sum (`KilledIsLost`). The runs of a
database are finitely many, which the sum needs.

`FoldLemmas` is the library of the last three. The induction theorems of the proof system take an
operator as a parameter, which its provers cannot instantiate; so here induction is stated for *sets*:
a set that has 0 and every successor is `Nat` (`Induction`), a set of sequences that has `<<>>`
and is closed under `Append` has every sequence (`SequenceInduction`); both follow from the well-foundedness of
`<`. A recursive function is first shown to exist and to satisfy its equations (`RecursionExists`),
and a fold of the community modules to be one (`FoldExists`), for any choice of the next element.
From these come what sums, `Pick`, `Only` and `FlattenSeq` do when a sequence grows at its end or
is put together from two.

`StreamForwarderProofs` holds for any payloads, bodies, cuts and bounds (`ForwarderAssumption`),
where TLC has bodies of three lines: `ForwarderTyped`, `KeepsUp` and `StoresAsReceived`. The
invariant (`Shape`, `Kept`, `StoredIs`) says that what the client got is a prefix of the body and,
the heart of it, that aggregate and buffered line are what `DrainLines` makes of that whole prefix
*at once*. It is kept because draining a prefix and then a chunk is draining the two in one
(`DrainMore`): chunk boundaries are invisible. The bound on partial lines enters only there: under
`LinesFit` the rest of a line never exceeds the buffer (`RestFits`). Then what draining gives is
compared with `Expected`, which reads the events off the tokens without a buffer or a fold
(`DrainedIsExpected`): a whole line adds at most one place to the events, and each field of the aggregate
is shown to follow.

`ConversationProofs` holds for any pieces, call ids, indexes, lengths of a stream
(`TranslatorAssumption`), and any clients and prompts (`ConversationAssumption`), where TLC has five
pieces, two calls and two prompts.

* `TranslatorTyped`, `AuditTruthful`, `DeltasComplete` and `CallsInOrder` are the translator's type
  invariant and its three promises; `OrderlyNeverPanics` is what `OrderlyCompletes` needs of safety;
* `ConversationImplementsTranslator`: `ConversationSpec => Spec`, so that the promises hold in
  conversations (`ConversationPromises`), too; `ConversationTyped`;
* `NothingLostBetweenTurns` (`UpstreamReadsItself`) and `AnnouncedCallsAnswered`
  (`OutputsAnswerAnnouncedCalls`) are the two promises of the second turn.

The argument. The properties speak of a finished stream, and say nothing inductive. `IInv` says of a
stream at any moment that the text's deltas add up to `content` (`TextSent`), that the deltas under
the index and id of each call add up to its arguments and its events are an announcement followed by
deltas (`CallsTold` with `Lifecycle`), that a done event is there only when the stream is finished
and tells what was read (`DoneTold`), and that the end and the record tell the rest (`Accounted`).
Deltas are told apart by `Only`, a selection of the events; what a step appends either belongs to a
call or does not (`Told`, `NothingReceived`), and the done events at the end are no deltas
(`OnlyConcat`). The sloppy upstream is left out of `CallsTold` exactly as in the properties, and
nowhere else. `OrderlyNeverPanics` needs one fact more, that the builder of the last call is where
it was written to (`Stands`): `append` moves the slice only when a call begins, and an orderly
upstream writes to earlier ones no more.

For the second turn, `TurnInv` says that the request is `Continued` of a stream that has ended and
what is forwarded is its conversion. The conversion maps each item to at most one message, so that
the messages of a concatenation are concatenated (`MessagesConcat`), and those of the replayed items
are one each (`SaidIs`, `AnswerIs`); those of a prompt are only system's and user's (`PromptRead`).
So the assistant's messages are the stream's text and calls, in place (`Located`, `Placed`).

What is assumed of constants is what the code or the API grants: sizes the writer and the batches
are configured with are positive, names are not the empty marker, prompts are sequences of items.

Only model-checked: liveness (`AcceptedEventuallyInserted`, `DrainReturns`, `SignalEndsProcess`,
`RoutedIsSettled`, `EditTakesEffect`, `OrderlyCompletes`), which is beyond the proof system, and the
four refutations. Every invariant and every action property of a passing run is also a theorem.

## Plan

Done: the survey; the writer with its contract; requests and shutdown; hot reload and the requests
under it; routing for both APIs; streams; Responses and the next turn; compact with `VACUUM`; and
the proofs of all of these.

Left, in this order:

1. *An abstract specification of hot reload* (one installed version, replaced as a whole) which
   `HotReload` implements while reloads do not overlap, and one of the stream forwarder (what was
   sent is what is stored), with their proofs.
2. *Routing for any number of configurations*: the proofs have two, like the model.
3. *Compact and the writer together*: `VACUUM` for longer than the proxy's busy timeout makes
   `Insert` fail; the two meet only in the outcomes of `Insert` now.

## Not modelled

HTTP header handling and connection pools, YAML parsing and defaults, the bytes of JSON and gzip,
file sizes and byte counters, the output of the command line, request ids, the model list and
health endpoints, logging, and the Prometheus collectors other than the failure counter: they are
pure functions or libraries, or nothing else depends on them. The startup of the process before it
serves is sequential and ends at its first error. Crashes of the proxy need no action of their own:
a crash is a behaviour that stops, and each invariant says what it leaves behind.
