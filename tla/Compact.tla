------------------------------ MODULE Compact ------------------------------
(***************************************************************************)
(* internal/audit/compact.go: the compact command rewrites the plain-text  *)
(* bodies of old audit rows as gzip, in batches of one transaction each,   *)
(* while proxies insert rows and operators delete them; then it may run    *)
(* VACUUM between two checkpoints of the WAL.                              *)
(*                                                                         *)
(* A body is "empty", "text" (legacy), "gzip", or "twice" if gzip were     *)
(* applied to what is gzip already.  SQLite lets one writer at a time hold *)
(* the write lock; a transaction's updates become visible at its commit.   *)
(* A run may fail or be killed anywhere, and be started again.             *)
(***************************************************************************)
EXTENDS Naturals, FiniteSets, FiniteSetsExt

CONSTANTS Runs,        \* compact commands, possibly at the same time
          MaxRows,     \* bound on the rows ever inserted
          BatchSize,   \* rows of a batch
          BatchBytes   \* bytes of a batch, unless its first row has more

ASSUME CompactAssumption ==
    /\ IsFiniteSet(Runs)
    /\ MaxRows \in Nat
    /\ BatchSize \in Nat \ {0}
    /\ BatchBytes \in Nat
    /\ "none" \notin Runs

VARIABLES table,       \* the committed rows, by id
          nextId,      \* AUTOINCREMENT: an id is never used again
          lock,        \* the run whose transaction is open, if any
          run,         \* where each run stands
          converted,   \* ids of the rows whose new bodies were committed
          slack,       \* those whose space no VACUUM has returned since
          lost         \* history: how many of them were committed by a run that was
                       \* killed before it had counted them

rows == <<table, nextId, converted, slack, lost>>
vars == <<rows, lock, run>>

None == "none"
Ids == 1..MaxRows
Bodies == {"empty", "text", "gzip", "twice"}
Row == [req : Bodies, resp : Bodies]
Updates == UNION {[ids -> Row] : ids \in SUBSET Ids}

Size(body) == CASE body = "empty" -> 0 [] body = "text" -> 2 [] OTHER -> 1

Idle == [pc |-> "idle", vacuum |-> FALSE, max |-> 0, last |-> 0, ids |-> {}, work |-> <<>>,
         uncounted |-> 0, processed |-> 0]

\* What a failed run has committed stays, and what it has counted was reported.
Failed(r) == [Idle EXCEPT !.pc = "failed", !.processed = r.processed]

RunStates ==
    [pc : {"idle", "select", "begin", "rows", "counting", "checkpoint", "vacuum",
           "vacuuming", "truncate", "done", "failed"},
     vacuum : BOOLEAN, max : 0..MaxRows, last : 0..MaxRows, ids : SUBSET Ids,
     work : Updates, uncounted : 0..MaxRows, processed : 0..MaxRows]

TypeOK ==
    /\ DOMAIN table \subseteq Ids /\ \A id \in DOMAIN table : table[id] \in Row
    /\ nextId \in 1..(MaxRows + 1)
    /\ lock \in Runs \cup {None}
    /\ run \in [Runs -> RunStates]
    /\ slack \subseteq converted /\ converted \subseteq Ids
    /\ lost \in Nat

Init ==
    /\ table = <<>>
    /\ nextId = 1
    /\ lock = None
    /\ run = [c \in Runs |-> Idle]
    /\ converted = {}
    /\ slack = {}
    /\ lost = 0

-----------------------------------------------------------------------------
(* The other writers. *)

\* SQLiteStore.Insert, by a proxy of this version (gzip) or of an old one (text);
\* a request always has a body, a response may have none.  While a batch holds
\* the lock an insert waits.
InsertRow(row) ==
    /\ lock = None
    /\ nextId <= MaxRows
    /\ table' = [id \in DOMAIN table \cup {nextId} |-> IF id = nextId THEN row ELSE table[id]]
    /\ nextId' = nextId + 1
    /\ UNCHANGED <<lock, run, converted, slack, lost>>

\* An operator deletes a row.
DeleteRow(id) ==
    /\ lock = None
    /\ id \in DOMAIN table
    /\ table' = [i \in DOMAIN table \ {id} |-> table[i]]
    /\ UNCHANGED <<nextId, lock, run, converted, slack, lost>>

-----------------------------------------------------------------------------
(* A run of Compact. *)

Legacy(row) == row.req = "text" \/ row.resp = "text"

\* Mutant: the run's limit is the next id to be given.
StartAtNextId(c, vacuum) ==
    /\ run[c].pc \in {"idle", "failed"}
    /\ run' = [run EXCEPT ![c] = [@ EXCEPT !.pc = "select", !.vacuum = vacuum,
                                          !.max = nextId, !.last = 0]]
    /\ UNCHANGED <<rows, lock>>

\* The rows up to the highest id of this moment are the run's business.
Start(c, vacuum) ==
    /\ run[c].pc \in {"idle", "failed"}
    /\ run' = [run EXCEPT ![c] = [@ EXCEPT !.pc = "select", !.vacuum = vacuum,
                                          !.max = Max(DOMAIN table \cup {0}), !.last = 0]]
    /\ UNCHANGED <<rows, lock>>

Bytes(ids) == MapThenSumSet(LAMBDA id : Size(table[id].req) + Size(table[id].resp), ids)

\* Mutant: the byte limit holds for the first row of a batch too.
BatchStrict(last, max) ==
    LET legacy == {id \in DOMAIN table : last < id /\ id <= max /\ Legacy(table[id])}
        upTo(id) == {i \in legacy : i <= id}
        Fits(id) == Cardinality(upTo(id)) <= BatchSize /\ Bytes(upTo(id)) <= BatchBytes
    IN  {id \in legacy : \A i \in upTo(id) : Fits(i)}

\* selectCompactBatch: the next legacy rows in the order of their ids, up to the
\* first that exceeds BatchSize or BatchBytes, but at least one.
Batch(last, max) ==
    LET legacy == {id \in DOMAIN table : last < id /\ id <= max /\ Legacy(table[id])}
        upTo(id) == {i \in legacy : i <= id}
        Fits(id) == \/ upTo(id) = {id}
                    \/ Cardinality(upTo(id)) <= BatchSize /\ Bytes(upTo(id)) <= BatchBytes
    IN  {id \in legacy : \A i \in upTo(id) : Fits(i)}

Select(c) ==
    /\ run[c].pc = "select"
    /\ LET ids == Batch(run[c].last, run[c].max)
       IN  run' = [run EXCEPT ![c] =
                     IF ids = {}
                     THEN [@ EXCEPT !.pc = IF run[c].vacuum THEN "checkpoint" ELSE "done", !.last = 0]
                     ELSE [@ EXCEPT !.pc = "begin", !.ids = ids, !.last = Max(ids)]]
    /\ UNCHANGED <<rows, lock>>

\* db.Begin is BEGIN IMMEDIATE: it takes the write lock.
Begin(c) ==
    /\ run[c].pc = "begin"
    /\ lock = None
    /\ lock' = c
    /\ run' = [run EXCEPT ![c].pc = "rows", ![c].work = <<>>]
    /\ UNCHANGED rows

\* Mutant: a VACUUM that finds the database busy is left out.
BeginBusySkipsVacuum(c) ==
    /\ run[c].pc \in {"begin", "checkpoint", "vacuum", "truncate"}
    /\ lock # None
    /\ run' = [run EXCEPT ![c] =
                  IF @.pc = "vacuum" THEN [@ EXCEPT !.pc = "done"] ELSE Failed(@)]
    /\ UNCHANGED <<rows, lock>>

\* Or it finds the lock taken for as long as the busy timeout of 5 s; so may
\* VACUUM and the checkpoints.
BeginBusy(c) ==
    /\ run[c].pc \in {"begin", "checkpoint", "vacuum", "truncate"}
    /\ lock # None
    /\ run' = [run EXCEPT ![c] = Failed(@)]
    /\ UNCHANGED <<rows, lock>>

\* Mutants: no test for what is compressed already, or for what is empty.
CompressedAgain(body) == CASE body = "text" -> "gzip" [] body = "gzip" -> "twice" [] OTHER -> body
CompressedEmpty(body) == IF body \in {"text", "empty"} THEN "gzip" ELSE body

\* compressLegacyBody.
Compressed(body) == IF body = "text" THEN "gzip" ELSE body

Rewritten(row) == [req |-> Compressed(row.req), resp |-> Compressed(row.resp)]

\* Mutant: a row is counted before its transaction is committed.
CompactRowCounting(c) ==
    /\ run[c].pc = "rows"
    /\ run[c].ids # {}
    /\ LET id == Min(run[c].ids)
           changes == id \in DOMAIN table /\ Rewritten(table[id]) # table[id]
       IN  run' = [run EXCEPT
             ![c].ids = @ \ {id},
             ![c].work = IF changes THEN [i \in DOMAIN @ \cup {id} |-> IF i = id THEN Rewritten(table[id]) ELSE @[i]] ELSE @,
             ![c].processed = IF changes THEN @ + 1 ELSE @]
    /\ UNCHANGED <<rows, lock>>

\* compactRow: the row is read again inside the transaction; it may be gone, or
\* another run may have converted it.
CompactRow(c) ==
    /\ run[c].pc = "rows"
    /\ run[c].ids # {}
    /\ LET id == Min(run[c].ids)
           changes == id \in DOMAIN table /\ Rewritten(table[id]) # table[id]
       IN  run' = [run EXCEPT
             ![c].ids = @ \ {id},
             ![c].work = IF changes
                         THEN [i \in DOMAIN @ \cup {id} |-> IF i = id THEN Rewritten(table[id]) ELSE @[i]]
                         ELSE @]
    /\ UNCHANGED <<rows, lock>>

\* tx.Commit.
Commit(c) ==
    /\ run[c].pc = "rows"
    /\ run[c].ids = {}
    /\ LET work == run[c].work
           changed == DOMAIN work
       IN  /\ table' = [id \in DOMAIN table |-> IF id \in changed THEN work[id] ELSE table[id]]
           /\ converted' = converted \cup changed
           /\ slack' = slack \cup changed
           /\ run' = [run EXCEPT ![c].pc = "counting", ![c].work = <<>>,
                                 ![c].uncounted = Cardinality(changed)]
    /\ lock' = None
    /\ UNCHANGED <<nextId, lost>>

\* The counters of the result, and the progress, follow the commit.
Count(c) ==
    /\ run[c].pc = "counting"
    /\ LET total == run[c].processed + run[c].uncounted
       IN  run' = [run EXCEPT ![c] = [@ EXCEPT !.pc = "select", !.uncounted = 0, !.processed = total]]
    /\ UNCHANGED <<rows, lock>>

\* vacuum: the WAL must be empty before and after, so that its size does not
\* count; VACUUM takes the write lock while it copies the database.
Checkpoint(c) ==
    /\ run[c].pc \in {"checkpoint", "truncate"}
    /\ lock = None
    /\ run' = [run EXCEPT ![c].pc = IF @ = "checkpoint" THEN "vacuum" ELSE "done"]
    /\ UNCHANGED <<rows, lock>>

BeginVacuum(c) ==
    /\ run[c].pc = "vacuum"
    /\ lock = None
    /\ lock' = c
    /\ run' = [run EXCEPT ![c].pc = "vacuuming"]
    /\ UNCHANGED rows

EndVacuum(c) ==
    /\ run[c].pc = "vacuuming"
    /\ slack' = {}
    /\ lock' = None
    /\ run' = [run EXCEPT ![c].pc = "truncate"]
    /\ UNCHANGED <<table, nextId, converted, lost>>

\* A statement fails, a reader keeps the WAL from being truncated, or the process
\* is killed: the open transaction is rolled back and the run is over.
Abort(c) ==
    /\ run[c].pc \notin {"idle", "done", "failed"}
    /\ run' = [run EXCEPT ![c] = Failed(@)]
    /\ lock' = IF lock = c THEN None ELSE lock
    /\ lost' = lost + run[c].uncounted
    /\ UNCHANGED <<table, nextId, converted, slack>>

Step(c) ==
    \/ Select(c) \/ Begin(c) \/ BeginBusy(c) \/ CompactRow(c) \/ Commit(c) \/ Count(c)
    \/ Checkpoint(c) \/ BeginVacuum(c) \/ EndVacuum(c)

Next ==
    \/ \E format \in {"gzip", "text"} : \E resp \in {"empty", format} :
          InsertRow([req |-> format, resp |-> resp])
    \/ \E id \in Ids : DeleteRow(id)
    \/ \E c \in Runs : (\E vacuum \in BOOLEAN : Start(c, vacuum)) \/ Step(c) \/ Abort(c)

Spec == Init /\ [][Next]_vars

-----------------------------------------------------------------------------
(* Properties. *)

\* No body is compressed twice, however many runs work on the same rows.
NeverCompressedTwice ==
    \A id \in DOMAIN table : "twice" \notin {table[id].req, table[id].resp}

\* A run that reports success has left no legacy body among the rows that were
\* there when it began: the batch caps skip none of them, whatever was
\* inserted, deleted or converted by others in between.
DoneMeansCompacted ==
    \A c \in Runs : run[c].pc = "done" =>
        \A id \in DOMAIN table : id <= run[c].max => ~Legacy(table[id])

\* A run with --vacuum that reports success has returned the space of every row
\* it began with that it or another run compressed.
VacuumReturnsSpace ==
    \A c \in Runs : run[c].pc = "done" /\ run[c].vacuum =>
        \A id \in slack : id > run[c].max

\* The rows the runs report are the rows they changed: none is counted by two runs,
\* or for a transaction that was rolled back, and none is missing but those of a batch
\* committed and not counted yet, or never counted because the run was killed then.
ProcessedExact ==
    SumFunction([c \in Runs |-> run[c].processed + run[c].uncounted]) + lost
        = Cardinality(converted)

\* A committed body changes only from text to gzip, and a row that was deleted
\* under a run does not come back, nor does its id.
OnlyTextIsRewritten ==
    [][\A id \in DOMAIN table' :
          IF id \in DOMAIN table
          THEN \A body \in {"req", "resp"} :
                  \/ table'[id][body] = table[id][body]
                  \/ table[id][body] = "text" /\ table'[id][body] = "gzip"
          ELSE id = nextId]_vars
=============================================================================
