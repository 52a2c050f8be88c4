---------------------------- MODULE CompactProofs ----------------------------
(***************************************************************************)
(* Proofs about Compact, for any number of runs and of rows, and for any   *)
(* limits of a batch.                                                      *)
(***************************************************************************)
EXTENDS Compact, FoldLemmas

\* An id that has been given is below the next one, and a run's limit is such an id.
IdsGiven ==
    /\ \A id \in DOMAIN table : id < nextId
    /\ \A c \in Runs : run[c].max < nextId /\ run[c].last <= run[c].max

\* Whoever writes holds the lock.
Writer ==
    \A c \in Runs : run[c].pc \in {"rows", "vacuuming"} <=> lock = c

\* What a transaction has collected is not in the table yet: its rows still are
\* as they were read.
Collected ==
    \A c \in Runs :
        /\ run[c].pc # "rows" => DOMAIN run[c].work = {}
        /\ run[c].pc \notin {"begin", "rows"} => run[c].ids = {}
        /\ \A id \in DOMAIN run[c].work :
              /\ id \in DOMAIN table
              /\ Legacy(table[id])
              /\ run[c].work[id] = Rewritten(table[id])

\* Behind its cursor a run leaves no legacy row but those it has in hand.
Behind ==
    \A c \in Runs :
        /\ run[c].pc \in {"select", "begin", "rows", "counting"} =>
              \A id \in DOMAIN table : id <= run[c].last /\ Legacy(table[id]) =>
                  id \in run[c].ids \cup DOMAIN run[c].work
        /\ run[c].pc \in {"checkpoint", "vacuum", "vacuuming", "truncate", "done"} =>
              \A id \in DOMAIN table : id <= run[c].max => ~Legacy(table[id])

\* What has been converted is legacy no more.
Converted ==
    \A id \in converted : id < nextId /\ (id \in DOMAIN table => ~Legacy(table[id]))

\* A run has a batch to count only between its commit and its counters, and no run has
\* more to report than has been converted.
Counted ==
    \A c \in Runs :
        /\ run[c].pc # "counting" => run[c].uncounted = 0
        /\ run[c].processed + run[c].uncounted <= Cardinality(converted)

\* After its VACUUM a run finds no space left behind by rows it began with.
Returned ==
    \A c \in Runs : run[c].pc = "truncate" \/ (run[c].pc = "done" /\ run[c].vacuum) =>
        \A id \in slack : id > run[c].max

IInv == TypeOK /\ IdsGiven /\ Writer /\ Collected /\ Behind /\ Converted /\ Counted
        /\ Returned /\ NeverCompressedTwice

-----------------------------------------------------------------------------
(* Bodies. *)

\* There are MaxRows ids.
LEMMA IdsCounted == IsFiniteSet(Ids) /\ Cardinality(Ids) = MaxRows
<1>1. MaxRows \in Int /\ MaxRows >= 0
  BY CompactAssumption
<1>2. IsFiniteSet(1..MaxRows) /\ Cardinality(1..MaxRows) = IF 1 > MaxRows THEN 0 ELSE MaxRows - 1 + 1
  BY <1>1, FS_Interval
<1>3. QED BY <1>1, <1>2 DEF Ids

\* A rewritten row is a row without legacy bodies, and a rewriting changes
\* exactly the legacy rows.
LEMMA RewrittenRow ==
    ASSUME NEW row \in Row
    PROVE  /\ Rewritten(row) \in Row
           /\ ~Legacy(Rewritten(row))
           /\ Rewritten(row) # row <=> Legacy(row)
           /\ "twice" \notin {row.req, row.resp} =>
                 "twice" \notin {Rewritten(row).req, Rewritten(row).resp}
BY DEF Row, Bodies, Rewritten, Compressed, Legacy

\* A batch has some of the legacy rows beyond the cursor, with every legacy row
\* below one that it has; and it is empty only if there are none.
LEMMA BatchIsNext ==
    ASSUME TypeOK, NEW last \in 0..MaxRows, NEW max \in 0..MaxRows
    PROVE  /\ Batch(last, max) \in SUBSET Ids
           /\ \A id \in Batch(last, max) : last < id /\ id <= max
           /\ \A id \in DOMAIN table : \A b \in Batch(last, max) :
                 last < id /\ id <= b /\ Legacy(table[id]) => id \in Batch(last, max)
           /\ Batch(last, max) = {} =>
                 \A id \in DOMAIN table : last < id /\ id <= max => ~Legacy(table[id])
<1> USE CompactAssumption
<1> DEFINE legacy == {id \in DOMAIN table : last < id /\ id <= max /\ Legacy(table[id])}
           upTo(id) == {i \in legacy : i <= id}
           Fits(id) == \/ upTo(id) = {id}
                       \/ Cardinality(upTo(id)) <= BatchSize /\ Bytes(upTo(id)) <= BatchBytes
           batch == {id \in legacy : \A i \in upTo(id) : Fits(i)}
<1>1. Batch(last, max) = batch
  BY DEF Batch
<1>2. legacy \subseteq 0..MaxRows /\ legacy \subseteq Ids
  BY DEF TypeOK, Ids
<1> HIDE DEF Fits
<1>3. \A id \in DOMAIN table : \A b \in batch :
         last < id /\ id <= b /\ Legacy(table[id]) => id \in batch
  <2> SUFFICES ASSUME NEW id \in DOMAIN table, NEW b \in batch,
                      last < id, id <= b, Legacy(table[id])
               PROVE  id \in batch
    OBVIOUS
  <2>1. id \in legacy /\ upTo(id) \subseteq upTo(b)
    BY <1>2 DEF TypeOK, Ids
  <2>2. QED BY <2>1
<1>4. ASSUME legacy # {} PROVE batch # {}
  <2>1. Min(legacy) \in legacy /\ \A x \in legacy : Min(legacy) <= x
    BY <1>2, <1>4, MinOfNumbers
  <2>2. upTo(Min(legacy)) = {Min(legacy)}
    BY <1>2, <2>1
  <2>3. Fits(Min(legacy))
    BY <2>2 DEF Fits
  <2>4. QED BY <2>1, <2>2, <2>3
<1>5. QED BY <1>1, <1>2, <1>3, <1>4

\* The state of a run, and the numbers in it.
LEMMA RunTyped ==
    ASSUME TypeOK, NEW c \in Runs
    PROVE  /\ run[c] \in RunStates
           /\ run[c].max \in 0..MaxRows /\ run[c].last \in 0..MaxRows
           /\ run[c].max \in Nat /\ run[c].last \in Nat
           /\ run[c].processed \in Nat /\ run[c].uncounted \in Nat
<1>1. run[c] \in RunStates
  BY DEF TypeOK
<1>2. /\ run[c].max \in 0..MaxRows /\ run[c].last \in 0..MaxRows
      /\ run[c].processed \in 0..MaxRows /\ run[c].uncounted \in 0..MaxRows
  BY <1>1 DEF RunStates
<1>3. QED BY <1>1, <1>2, CompactAssumption

\* The ids given to rows are numbers up to MaxRows.
LEMMA RowsTyped ==
    ASSUME TypeOK
    PROVE  nextId \in Nat /\ \A id \in DOMAIN table : id \in Nat /\ id \in 1..MaxRows
BY CompactAssumption DEF TypeOK, Ids

\* A step of one run.
LEMMA RunChanges ==
    ASSUME TypeOK, NEW c \in Runs, NEW r \in RunStates, run' = [run EXCEPT ![c] = r]
    PROVE  run' \in [Runs -> RunStates] /\ run'[c] = r /\ \A d \in Runs \ {c} : run'[d] = run[d]
BY DEF TypeOK

-----------------------------------------------------------------------------
(* The initial states, and the steps of others. *)

\* The sequence <<>> is the function, and the table, with nothing in it.
LEMMA NothingCollected == DOMAIN <<>> = {} /\ <<>> \in Updates
<1>1. DOMAIN <<>> = {}
  OBVIOUS
<1>2. <<>> \in [{} -> Row]
  OBVIOUS
<1>3. QED BY <1>1, <1>2 DEF Updates

\* No run has begun and no body is compressed yet.
LEMMA InitIInv == Init => IInv
<1> SUFFICES ASSUME Init PROVE IInv
  OBVIOUS
<1> USE CompactAssumption DEF Init, Idle
<1>1. TypeOK
  BY NothingCollected DEF TypeOK, RunStates, Ids, None
<1>2. IdsGiven /\ Writer /\ Collected /\ Behind /\ Returned /\ NeverCompressedTwice
  BY NothingCollected
     DEF IdsGiven, Writer, Collected, Behind, Returned, NeverCompressedTwice, None
<1>3. Converted /\ Counted
  BY FS_EmptySet DEF Converted, Counted
<1>4. QED BY <1>1, <1>2, <1>3 DEF IInv

\* The proxy inserts a row behind every batch under way.
LEMMA InsertKeepsIInv ==
    ASSUME IInv, NEW row \in Row, "twice" \notin {row.req, row.resp}, InsertRow(row)
    PROVE  IInv'
<1> USE CompactAssumption DEF IInv, InsertRow
<1>1. /\ DOMAIN table' = DOMAIN table \cup {nextId}
      /\ nextId \in Ids /\ nextId \notin DOMAIN table
      /\ table'[nextId] = row
      /\ \A id \in DOMAIN table : table'[id] = table[id]
  BY DEF TypeOK, IdsGiven, Ids
<1>2. TypeOK'
  BY <1>1 DEF TypeOK, Ids
<1>3. IdsGiven'
  BY <1>1, RunTyped, RowsTyped DEF IdsGiven
<1>4. Writer'
  BY DEF Writer
<1>5. Collected'
  BY <1>1 DEF Collected
<1>6. \A c \in Runs : run[c].max < nextId /\ run[c].last < nextId
                      /\ run[c].max \in Nat /\ run[c].last \in Nat /\ nextId \in Nat
  BY RunTyped, RowsTyped DEF IdsGiven
<1>7. Behind'
  BY <1>1, <1>6 DEF Behind
<1>8. Converted' /\ Returned'
  BY <1>1 DEF Converted, Returned, TypeOK, Ids
<1>9. NeverCompressedTwice' /\ Counted'
  BY <1>1 DEF NeverCompressedTwice, Counted
<1>10. QED BY <1>2, <1>3, <1>4, <1>5, <1>7, <1>8, <1>9

\* A row that an operator deletes is missed by no run.
LEMMA DeleteKeepsIInv ==
    ASSUME IInv, NEW d \in Ids, DeleteRow(d)
    PROVE  IInv'
<1> USE CompactAssumption DEF IInv, DeleteRow
<1>1. /\ DOMAIN table' = DOMAIN table \ {d}
      /\ \A id \in DOMAIN table' : id \in DOMAIN table /\ table'[id] = table[id]
  OBVIOUS
<1>2. TypeOK'
  BY <1>1 DEF TypeOK
<1>3. IdsGiven' /\ Writer'
  BY <1>1 DEF IdsGiven, Writer
<1>4. Collected'
  <2>1. \A c \in Runs : DOMAIN run[c].work = {}
    BY DEF Writer, Collected, None
  <2>2. QED BY <2>1 DEF Collected
<1>5. Behind' /\ Converted' /\ Counted' /\ Returned' /\ NeverCompressedTwice'
  BY <1>1 DEF Behind, Converted, Counted, Returned, NeverCompressedTwice
<1>6. QED BY <1>2, <1>3, <1>4, <1>5

-----------------------------------------------------------------------------
(* The steps of a run. *)

\* A run starts, or starts again, with nothing collected.
LEMMA StartKeepsIInv ==
    ASSUME IInv, NEW c \in Runs, NEW vacuum \in BOOLEAN, Start(c, vacuum)
    PROVE  IInv'
<1> USE DEF IInv
<1> DEFINE max == Max(DOMAIN table \cup {0})
           r == [run[c] EXCEPT !.pc = "select", !.vacuum = vacuum, !.max = max, !.last = 0]
<1>1. /\ run[c].pc \in {"idle", "failed"}
      /\ run' = [run EXCEPT ![c] = r]
      /\ UNCHANGED <<table, nextId, converted, slack, lock, lost>>
  BY DEF Start, rows
<1>2. max \in 0..MaxRows /\ max < nextId /\ 0 \in 0..MaxRows
  <2>1. DOMAIN table \cup {0} \subseteq 0..MaxRows
    BY RowsTyped, CompactAssumption
  <2>2. max \in DOMAIN table \cup {0}
    BY <2>1, MaxOfBounded, CompactAssumption
  <2>3. QED BY <2>1, <2>2 DEF TypeOK, IdsGiven
<1> HIDE DEF max
<1>3. r \in RunStates
  BY <1>2, RunTyped DEF RunStates
<1>4. /\ r.pc = "select" /\ r.max = max /\ r.last = 0 /\ r.ids = run[c].ids
      /\ r.work = run[c].work /\ r.processed = run[c].processed
      /\ r.uncounted = run[c].uncounted
  BY RunTyped DEF RunStates
<1>5. run' \in [Runs -> RunStates] /\ run'[c] = r /\ \A d \in Runs \ {c} : run'[d] = run[d]
  BY <1>1, <1>3, RunChanges
<1> HIDE DEF r
<1>6. TypeOK'
  BY <1>1, <1>5 DEF TypeOK
<1>7. IdsGiven'
  BY <1>1, <1>2, <1>4, <1>5 DEF IdsGiven
<1>8. Writer' /\ Collected'
  BY <1>1, <1>4, <1>5 DEF Writer, Collected
<1>9. Behind'
  BY <1>1, <1>4, <1>5, RowsTyped DEF Behind
<1>10. Converted' /\ Counted' /\ Returned' /\ NeverCompressedTwice'
  BY <1>1, <1>4, <1>5 DEF Converted, Counted, Returned, NeverCompressedTwice
<1>11. QED BY <1>6, <1>7, <1>8, <1>9, <1>10

\* A batch collects the legacy rows it finds, up to its size.
LEMMA SelectKeepsIInv ==
    ASSUME IInv, NEW c \in Runs, Select(c)
    PROVE  IInv'
<1> USE DEF IInv
<1> DEFINE batch == Batch(run[c].last, run[c].max)
           none == [run[c] EXCEPT !.pc = IF run[c].vacuum THEN "checkpoint" ELSE "done", !.last = 0]
           some == [run[c] EXCEPT !.pc = "begin", !.ids = batch, !.last = Max(batch)]
<1>1. /\ run[c].pc = "select"
      /\ run' = [run EXCEPT ![c] = IF batch = {} THEN none ELSE some]
      /\ UNCHANGED <<table, nextId, converted, slack, lock, lost>>
  BY DEF Select, rows
<1>2. run[c] \in RunStates /\ run[c].last \in 0..MaxRows /\ run[c].max \in 0..MaxRows
      /\ run[c].last \in Nat /\ run[c].max \in Nat
  BY RunTyped
<1>3. /\ batch \in SUBSET Ids
      /\ \A id \in batch : run[c].last < id /\ id <= run[c].max
      /\ \A id \in DOMAIN table : \A b \in batch :
            run[c].last < id /\ id <= b /\ Legacy(table[id]) => id \in batch
      /\ batch = {} =>
            \A id \in DOMAIN table : run[c].last < id /\ id <= run[c].max => ~Legacy(table[id])
  BY <1>2, BatchIsNext
<1>4. ASSUME batch # {}
      PROVE  Max(batch) \in batch /\ Max(batch) \in 0..MaxRows /\ \A b \in batch : b <= Max(batch)
  <2>1. batch \in SUBSET (0..MaxRows)
    BY <1>3, CompactAssumption DEF Ids
  <2>2. QED BY <1>4, <2>1, MaxOfBounded, CompactAssumption
<1> HIDE DEF batch
<1>5. DOMAIN run[c].work = {} /\ run[c].ids = {}
  BY <1>1 DEF Collected
<1>6. \A id \in DOMAIN table : id <= run[c].last => ~Legacy(table[id])
  BY <1>1, <1>5 DEF Behind
<1>7. CASE batch = {}
  <2>1. none \in RunStates
    <3>1. 0 \in 0..MaxRows
      BY CompactAssumption
    <3>2. QED BY <1>2, <3>1 DEF RunStates
  <2>2. /\ none.pc \in {"checkpoint", "done"}
        /\ none.pc = "done" => ~none.vacuum
        /\ none.max = run[c].max /\ none.last = 0
        /\ none.ids = {} /\ none.work = run[c].work /\ none.processed = run[c].processed
        /\ none.uncounted = run[c].uncounted
    BY <1>2, <1>5 DEF RunStates
  <2>3. run' \in [Runs -> RunStates] /\ run'[c] = none /\ \A d \in Runs \ {c} : run'[d] = run[d]
    BY <1>1, <1>7, <2>1, RunChanges
  <2> HIDE DEF none
  <2>4. TypeOK'
    BY <1>1, <2>3 DEF TypeOK
  <2>5. IdsGiven'
    <3>1. none.max < nextId /\ none.last <= none.max
      BY <1>2, <2>2 DEF IdsGiven
    <3>2. QED BY <1>1, <2>3, <3>1 DEF IdsGiven
  <2>6. Writer' /\ Collected'
    BY <1>1, <1>5, <2>2, <2>3 DEF Writer, Collected
  <2>7. Behind'
    <3>1. \A id \in DOMAIN table : id <= run[c].max => ~Legacy(table[id])
      BY <1>2, <1>3, <1>6, <1>7, RowsTyped
    <3>2. QED BY <1>1, <2>2, <2>3, <3>1 DEF Behind
  <2>8. Converted' /\ Counted' /\ Returned' /\ NeverCompressedTwice'
    BY <1>1, <2>2, <2>3 DEF Converted, Counted, Returned, NeverCompressedTwice
  <2>9. QED BY <2>4, <2>5, <2>6, <2>7, <2>8
<1>8. CASE batch # {}
  <2>1. some \in RunStates
    BY <1>2, <1>3, <1>4, <1>8 DEF RunStates
  <2>2. /\ some.pc = "begin" /\ some.max = run[c].max /\ some.last = Max(batch)
        /\ some.ids = batch /\ some.work = run[c].work /\ some.processed = run[c].processed
        /\ some.uncounted = run[c].uncounted
    BY <1>2 DEF RunStates
  <2>3. run' \in [Runs -> RunStates] /\ run'[c] = some /\ \A d \in Runs \ {c} : run'[d] = run[d]
    BY <1>1, <1>8, <2>1, RunChanges
  <2> HIDE DEF some
  <2>4. TypeOK'
    BY <1>1, <2>3 DEF TypeOK
  <2>5. IdsGiven'
    BY <1>1, <1>3, <1>4, <1>8, <2>2, <2>3 DEF IdsGiven
  <2>6. Writer' /\ Collected'
    BY <1>1, <1>5, <2>2, <2>3 DEF Writer, Collected
  <2>7. Behind'
    <3>1. \A id \in DOMAIN table : id <= Max(batch) /\ Legacy(table[id]) => id \in batch
      BY <1>2, <1>3, <1>4, <1>6, <1>8, RowsTyped
    <3>2. \A id \in DOMAIN table : id <= some.last /\ Legacy(table[id]) =>
              id \in some.ids \cup DOMAIN some.work
      BY <2>2, <3>1
    <3>3. QED BY <1>1, <2>2, <2>3, <3>2 DEF Behind
  <2>8. Converted' /\ Counted' /\ Returned' /\ NeverCompressedTwice'
    BY <1>1, <2>2, <2>3 DEF Converted, Counted, Returned, NeverCompressedTwice
  <2>9. QED BY <2>4, <2>5, <2>6, <2>7, <2>8
<1>9. QED BY <1>7, <1>8

\* A transaction begins with the write lock, or fails.
LEMMA BeginKeepsIInv ==
    ASSUME IInv, NEW c \in Runs, Begin(c)
    PROVE  IInv'
<1> USE DEF IInv
<1> DEFINE r == [run[c] EXCEPT !.pc = "rows", !.work = <<>>]
<1>1. /\ run[c].pc = "begin" /\ lock = None /\ lock' = c
      /\ UNCHANGED <<table, nextId, converted, slack, lost>>
  BY DEF Begin, rows
<1>2. r \in RunStates
  BY RunTyped, NothingCollected DEF RunStates
<1>3. /\ r.pc = "rows" /\ r.max = run[c].max /\ r.last = run[c].last /\ r.ids = run[c].ids
      /\ r.work = <<>> /\ r.processed = run[c].processed
      /\ r.uncounted = run[c].uncounted
  BY RunTyped DEF RunStates
<1>4. run' \in [Runs -> RunStates] /\ run'[c] = r /\ \A d \in Runs \ {c} : run'[d] = run[d]
  <2>1. run' = [run EXCEPT ![c] = r]
    BY DEF Begin, TypeOK
  <2>2. QED BY <1>2, <2>1, RunChanges
<1> HIDE DEF r
<1>5. TypeOK'
  BY <1>1, <1>4 DEF TypeOK
<1>6. IdsGiven' /\ Converted' /\ Counted' /\ Returned' /\ NeverCompressedTwice'
  BY <1>1, <1>3, <1>4 DEF IdsGiven, Converted, Counted, Returned, NeverCompressedTwice
<1>7. Writer'
  BY <1>1, <1>3, <1>4, CompactAssumption DEF Writer, None
<1>8. Collected' /\ Behind'
  BY <1>1, <1>3, <1>4, NothingCollected DEF Collected, Behind
<1>9. QED BY <1>5, <1>6, <1>7, <1>8

\* A run that fails holds no lock, and what it wrote is rolled back.
LEMMA FailedState ==
    ASSUME NEW r
    PROVE  /\ Failed(r).pc = "failed" /\ Failed(r).max = 0 /\ Failed(r).last = 0
           /\ Failed(r).ids = {} /\ Failed(r).work = <<>> /\ Failed(r).processed = r.processed
           /\ Failed(r).uncounted = 0
           /\ r \in RunStates => Failed(r) \in RunStates
<1>1. /\ Failed(r).pc = "failed" /\ Failed(r).max = 0 /\ Failed(r).last = 0
      /\ Failed(r).ids = {} /\ Failed(r).work = <<>> /\ Failed(r).processed = r.processed
      /\ Failed(r).uncounted = 0
  BY DEF Failed, Idle
<1>2. ASSUME r \in RunStates, 0 \in 0..MaxRows, <<>> \in Updates
      PROVE  Failed(r) \in RunStates
  BY <1>2 DEF Failed, Idle, RunStates
<1>3. 0 \in 0..MaxRows
  BY CompactAssumption
<1>4. QED BY <1>1, <1>2, <1>3, NothingCollected

\* A run that ends early, with or without the lock.
LEMMA FailureKeepsIInv ==
    ASSUME IInv, NEW c \in Runs, run' = [run EXCEPT ![c] = Failed(@)],
           UNCHANGED <<table, nextId, converted, slack>>, lost' = lost + run[c].uncounted,
           lock' = IF lock = c THEN None ELSE lock
    PROVE  IInv'
<1> USE DEF IInv
<1> DEFINE r == Failed(run[c])
<1>1. UNCHANGED <<table, nextId, converted, slack>> /\ lost' \in Nat
  BY RunTyped DEF TypeOK
<1>2. /\ r.pc = "failed" /\ r.max = 0 /\ r.last = 0 /\ r.ids = {} /\ r.work = <<>>
      /\ r.processed = run[c].processed
      /\ r.uncounted = 0
  BY FailedState
<1>3. r \in RunStates
  BY RunTyped, FailedState
<1>4. run' \in [Runs -> RunStates] /\ run'[c] = r /\ \A d \in Runs \ {c} : run'[d] = run[d]
  BY <1>3, RunChanges
<1> HIDE DEF r
<1>5. TypeOK'
  BY <1>1, <1>4 DEF TypeOK
<1>6. IdsGiven'
  <2>1. r.max < nextId /\ r.last <= r.max
    BY <1>2 DEF TypeOK
  <2>2. QED BY <1>1, <1>4, <2>1 DEF IdsGiven
<1>7. Writer'
  BY <1>2, <1>4, CompactAssumption DEF Writer, None
<1>8. Collected' /\ Behind' /\ Converted' /\ Returned' /\ NeverCompressedTwice'
  BY <1>1, <1>2, <1>4, NothingCollected
     DEF Collected, Behind, Converted, Returned, NeverCompressedTwice
<1>9. Counted'
  <2>1. /\ run[c].processed \in Nat /\ run[c].uncounted \in Nat
        /\ Cardinality(converted) \in Nat
        /\ run[c].processed + run[c].uncounted <= Cardinality(converted)
    <3>1. IsFiniteSet(converted)
      BY IdsCounted, FS_Subset DEF TypeOK
    <3>2. QED BY <3>1, RunTyped, FS_CardinalityType DEF Counted
  <2>2. r.processed + r.uncounted <= Cardinality(converted)
    BY <1>2, <2>1
  <2>3. QED BY <1>1, <1>2, <1>4, <2>2 DEF Counted
<1>10. QED BY <1>5, <1>6, <1>7, <1>8, <1>9

\* A row is read again in the transaction before it is rewritten.
LEMMA CompactRowKeepsIInv ==
    ASSUME IInv, NEW c \in Runs, CompactRow(c)
    PROVE  IInv'
<1> USE DEF IInv
<1> DEFINE row == Min(run[c].ids)
           changes == row \in DOMAIN table /\ Rewritten(table[row]) # table[row]
           work == IF changes
                   THEN [i \in DOMAIN run[c].work \cup {row} |->
                            IF i = row THEN Rewritten(table[row]) ELSE run[c].work[i]]
                   ELSE run[c].work
           r == [run[c] EXCEPT !.ids = run[c].ids \ {row}, !.work = work]
<1>1. /\ run[c].pc = "rows" /\ run[c].ids # {}
      /\ UNCHANGED <<table, nextId, converted, slack, lock, lost>>
  BY DEF CompactRow, rows
<1>2. run[c] \in RunStates /\ run[c].ids \in SUBSET Ids /\ run[c].work \in Updates
  BY RunTyped DEF RunStates
<1>3. row \in run[c].ids /\ row \in Ids
  <2>1. run[c].ids \in SUBSET Nat
    BY <1>2, CompactAssumption DEF Ids
  <2>2. QED BY <1>1, <1>2, <2>1, MinOfNumbers
<1>4. row \in DOMAIN table => (changes <=> Legacy(table[row])) /\ Rewritten(table[row]) \in Row
  BY RewrittenRow DEF TypeOK
<1> HIDE DEF row
<1>5. work \in Updates
  <2>1. PICK ids \in SUBSET Ids : run[c].work \in [ids -> Row]
    BY <1>2 DEF Updates
  <2>2. CASE changes
    <3>1. ids \cup {row} \in SUBSET Ids
      BY <1>3
    <3>2. work \in [ids \cup {row} -> Row]
      BY <1>4, <2>1, <2>2
    <3>3. QED BY <3>1, <3>2 DEF Updates
  <2>3. CASE ~changes
    BY <1>2, <2>3
  <2>4. QED BY <2>2, <2>3
<1>6. \A id \in DOMAIN work : /\ id \in DOMAIN table
                              /\ Legacy(table[id])
                              /\ work[id] = Rewritten(table[id])
  BY <1>4 DEF Collected
<1>7. DOMAIN run[c].work \subseteq DOMAIN work
      /\ (row \in DOMAIN table /\ Legacy(table[row]) => row \in DOMAIN work)
  BY <1>4
<1>8. run' = [run EXCEPT ![c] = r]
  BY DEF CompactRow, TypeOK, row
<1> HIDE DEF work
<1>9. r \in RunStates
  BY <1>2, <1>5 DEF RunStates
<1>10. /\ r.pc = "rows" /\ r.max = run[c].max /\ r.last = run[c].last
       /\ r.ids = run[c].ids \ {row} /\ r.work = work /\ r.processed = run[c].processed
      /\ r.uncounted = run[c].uncounted
  BY <1>1, <1>2 DEF RunStates
<1>11. run' \in [Runs -> RunStates] /\ run'[c] = r /\ \A d \in Runs \ {c} : run'[d] = run[d]
  BY <1>8, <1>9, RunChanges
<1> HIDE DEF r
<1>12. TypeOK'
  BY <1>1, <1>11 DEF TypeOK
<1>13. IdsGiven' /\ Converted' /\ Counted' /\ Returned' /\ NeverCompressedTwice'
  BY <1>1, <1>10, <1>11 DEF IdsGiven, Converted, Counted, Returned, NeverCompressedTwice
<1>14. Writer'
  BY <1>1, <1>10, <1>11 DEF Writer
<1>15. Collected'
  BY <1>1, <1>6, <1>10, <1>11 DEF Collected
<1>16. Behind'
  <2>1. \A id \in DOMAIN table : id <= r.last /\ Legacy(table[id]) => id \in r.ids \cup DOMAIN r.work
    BY <1>1, <1>7, <1>10 DEF Behind
  <2>2. QED BY <1>1, <1>10, <1>11, <2>1 DEF Behind
<1>17. QED BY <1>12, <1>13, <1>14, <1>15, <1>16

\* The lock goes to a run that copies the database, and comes back.
LEMMA VacuumKeepsIInv ==
    ASSUME IInv, NEW c \in Runs, Checkpoint(c) \/ BeginVacuum(c) \/ EndVacuum(c)
    PROVE  IInv'
<1> USE DEF IInv
<1>1. PICK pc \in {"vacuum", "vacuuming", "truncate", "done"} :
         run' = [run EXCEPT ![c] = [run[c] EXCEPT !.pc = pc]] /\ (lock' = c <=> pc = "vacuuming")
         /\ (pc = "vacuuming" => lock = None) /\ (pc # "vacuuming" => lock' = None)
         /\ (run[c].pc = "vacuuming" <=> lock = c)
         /\ (pc = "truncate" => slack' = {}) /\ (pc = "done" => run[c].pc = "truncate")
  BY CompactAssumption DEF Checkpoint, BeginVacuum, EndVacuum, TypeOK, Writer, None
<1>2. /\ run[c].pc \in {"checkpoint", "vacuum", "vacuuming", "truncate"}
      /\ UNCHANGED <<table, nextId, converted, lost>> /\ slack' \subseteq slack
      /\ lock \in {None, c}
  BY DEF Checkpoint, BeginVacuum, EndVacuum, rows, Writer
<1> DEFINE r == [run[c] EXCEPT !.pc = pc]
<1>3. r \in RunStates
  BY RunTyped DEF RunStates
<1>4. /\ r.pc = pc /\ r.vacuum = run[c].vacuum /\ r.max = run[c].max /\ r.last = run[c].last
      /\ r.ids = run[c].ids /\ r.work = run[c].work /\ r.processed = run[c].processed
      /\ r.uncounted = run[c].uncounted
  BY RunTyped DEF RunStates
<1>5. run' \in [Runs -> RunStates] /\ run'[c] = r /\ \A d \in Runs \ {c} : run'[d] = run[d]
  BY <1>1, <1>3, RunChanges
<1> HIDE DEF r
<1>6. TypeOK'
  BY <1>1, <1>2, <1>5 DEF TypeOK
<1>7. IdsGiven' /\ Converted' /\ Counted' /\ NeverCompressedTwice'
  BY <1>1, <1>2, <1>4, <1>5 DEF IdsGiven, Converted, Counted, NeverCompressedTwice
<1>8. Writer'
  BY <1>1, <1>2, <1>4, <1>5, CompactAssumption DEF Writer, None
<1>9. Collected' /\ Behind'
  BY <1>1, <1>2, <1>4, <1>5 DEF Collected, Behind
<1>10. Returned'
  BY <1>1, <1>2, <1>4, <1>5 DEF Returned
<1>11. QED BY <1>6, <1>7, <1>8, <1>9, <1>10

\* With the commit the rows collected, and no others, change in the table.
LEMMA CommitKeepsIInv ==
    ASSUME IInv, NEW c \in Runs, Commit(c)
    PROVE  IInv'
<1> USE DEF IInv
<1> DEFINE work == run[c].work
           changed == DOMAIN work
           r == [run[c] EXCEPT !.pc = "counting", !.work = <<>>,
                               !.uncounted = Cardinality(changed)]
<1>1. /\ run[c].pc = "rows" /\ run[c].ids = {}
      /\ table' = [id \in DOMAIN table |-> IF id \in changed THEN work[id] ELSE table[id]]
      /\ converted' = converted \cup changed /\ slack' = slack \cup changed
      /\ lock' = None /\ nextId' = nextId /\ lost' = lost
      /\ run' = [run EXCEPT ![c] = r]
  BY DEF Commit, TypeOK
<1>2. run[c] \in RunStates /\ run[c].processed \in Nat /\ changed \subseteq Ids
  BY RunTyped DEF RunStates, Updates
<1>3. /\ \A id \in changed : id \in DOMAIN table /\ Legacy(table[id]) /\ work[id] = Rewritten(table[id])
      /\ \A id \in changed : id < nextId
      /\ changed \cap converted = {}
  BY DEF Collected, Converted, IdsGiven
\* What the table has become.
<1>4. /\ DOMAIN table' = DOMAIN table
      /\ \A id \in DOMAIN table : table'[id] \in Row
      /\ \A id \in changed : ~Legacy(table'[id])
      /\ \A id \in DOMAIN table : Legacy(table'[id]) => Legacy(table[id]) /\ id \notin changed
      /\ \A id \in DOMAIN table : "twice" \notin {table'[id].req, table'[id].resp}
  <2>1. ASSUME NEW id \in DOMAIN table, id \in changed
        PROVE  /\ table'[id] \in Row /\ ~Legacy(table'[id])
               /\ "twice" \notin {table'[id].req, table'[id].resp}
    <3>1. table[id] \in Row /\ "twice" \notin {table[id].req, table[id].resp}
      BY DEF TypeOK, NeverCompressedTwice
    <3>2. table'[id] = Rewritten(table[id])
      BY <1>1, <1>3, <2>1
    <3>3. QED BY <3>1, <3>2, RewrittenRow
  <2>2. ASSUME NEW id \in DOMAIN table, id \notin changed
        PROVE  table'[id] = table[id]
    BY <1>1, <2>2
  <2>3. QED BY <1>1, <1>3, <2>1, <2>2 DEF TypeOK, NeverCompressedTwice
\* The rows converted are counted.
<1>5. /\ Cardinality(converted') \in Nat /\ Cardinality(converted') <= MaxRows
      /\ Cardinality(converted) \in Nat /\ Cardinality(converted) <= Cardinality(converted')
      /\ Cardinality(changed) \in Nat
      /\ Cardinality(converted') = Cardinality(converted) + Cardinality(changed)
  <2>1. IsFiniteSet(Ids) /\ Cardinality(Ids) = MaxRows
    BY IdsCounted
  <2>2. converted \in SUBSET Ids /\ changed \in SUBSET Ids /\ converted' \in SUBSET Ids
    BY <1>1, <1>2 DEF TypeOK
  <2>3. IsFiniteSet(converted) /\ IsFiniteSet(changed) /\ IsFiniteSet(converted')
        /\ Cardinality(converted') <= MaxRows
    BY <2>1, <2>2, FS_Subset
  <2>4. Cardinality(converted') = Cardinality(converted) + Cardinality(changed)
    <3>1. Cardinality(converted \cap changed) = 0
      BY <1>3, FS_EmptySet
    <3>2. Cardinality(converted \cup changed) =
              Cardinality(converted) + Cardinality(changed) - Cardinality(converted \cap changed)
      BY <2>3, FS_Union
    <3>3. Cardinality(converted) \in Nat /\ Cardinality(changed) \in Nat
      BY <2>3, FS_CardinalityType
    <3>4. QED BY <1>1, <3>1, <3>2, <3>3
  <2>5. QED BY <2>3, <2>4, FS_CardinalityType
<1>6. run[c].processed + Cardinality(changed) <= Cardinality(converted')
      /\ Cardinality(changed) \in 0..MaxRows
  <2>1. run[c].uncounted = 0 /\ run[c].processed + run[c].uncounted <= Cardinality(converted)
    BY <1>1 DEF Counted
  <2>2. QED BY <1>2, <1>5, <2>1, CompactAssumption
<1> HIDE DEF changed, work
<1>7. r \in RunStates
  BY <1>2, <1>6, NothingCollected DEF RunStates
<1>8. /\ r.pc = "counting" /\ r.max = run[c].max /\ r.last = run[c].last /\ r.ids = {}
      /\ r.work = <<>> /\ r.processed = run[c].processed
      /\ r.uncounted = Cardinality(changed)
  BY <1>1, <1>2 DEF RunStates
<1>9. run' \in [Runs -> RunStates] /\ run'[c] = r /\ \A d \in Runs \ {c} : run'[d] = run[d]
  BY <1>1, <1>7, RunChanges
<1> HIDE DEF r
<1>10. TypeOK'
  BY <1>1, <1>2, <1>4, <1>9 DEF TypeOK
<1>11. IdsGiven' /\ NeverCompressedTwice'
  BY <1>1, <1>4, <1>8, <1>9 DEF IdsGiven, NeverCompressedTwice
<1>12. \A d \in Runs \ {c} : run[d].pc \notin {"rows", "vacuuming"}
  BY <1>1 DEF Writer
<1>13. Writer'
  BY <1>1, <1>8, <1>9, <1>12, CompactAssumption DEF Writer, None
<1>14. Collected'
  BY <1>1, <1>8, <1>9, <1>12, NothingCollected DEF Collected
<1>15. Behind'
  <2>1. \A id \in DOMAIN table : id <= r.last => ~Legacy(table'[id])
    BY <1>1, <1>4, <1>8 DEF Behind, work, changed
  <2>2. QED BY <1>4, <1>8, <1>9, <1>12, <2>1 DEF Behind
<1>16. Converted' /\ Counted'
  <2>1. \A d \in Runs : run'[d].processed + run'[d].uncounted <= Cardinality(converted')
    <3>1. ASSUME NEW d \in Runs \ {c}
          PROVE  run[d].processed + run[d].uncounted <= Cardinality(converted')
      <4>1. /\ run[d].processed \in Nat /\ run[d].uncounted \in Nat
            /\ run[d].processed + run[d].uncounted <= Cardinality(converted)
        BY RunTyped DEF Counted
      <4>2. QED BY <1>5, <4>1
    <3>2. QED BY <1>6, <1>8, <1>9, <3>1
  <2>2. \A d \in Runs : run'[d].pc # "counting" => run'[d].uncounted = 0
    BY <1>8, <1>9 DEF Counted
  <2>3. Converted'
    BY <1>1, <1>3, <1>4 DEF Converted
  <2>4. QED BY <2>1, <2>2, <2>3 DEF Counted
<1>17. Returned'
  <2>1. ASSUME NEW d \in Runs, run[d].pc \in {"truncate", "done"}, NEW id \in changed
        PROVE  id > run[d].max
    <3>1. id \in DOMAIN table /\ ~(id <= run[d].max)
      BY <1>3, <2>1 DEF Behind
    <3>2. QED BY <3>1, RunTyped, RowsTyped
  <2>2. QED BY <1>1, <1>8, <1>9, <2>1 DEF Returned
<1>18. QED BY <1>10, <1>11, <1>13, <1>14, <1>15, <1>16, <1>17

\* The counters take over what the commit has left to count.
LEMMA CountKeepsIInv ==
    ASSUME IInv, NEW c \in Runs, Count(c)
    PROVE  IInv'
<1> USE DEF IInv
<1> DEFINE total == run[c].processed + run[c].uncounted
           r == [run[c] EXCEPT !.pc = "select", !.uncounted = 0, !.processed = total]
<1>1. /\ run[c].pc = "counting" /\ run' = [run EXCEPT ![c] = r]
      /\ UNCHANGED <<table, nextId, converted, slack, lock, lost>>
  BY DEF Count, rows
<1>2. total \in 0..MaxRows /\ 0 \in 0..MaxRows /\ total <= Cardinality(converted)
  <2>1. /\ run[c].processed \in Nat /\ run[c].uncounted \in Nat
        /\ total <= Cardinality(converted)
    BY RunTyped DEF Counted
  <2>2. Cardinality(converted) \in Nat /\ Cardinality(converted) <= MaxRows
    BY IdsCounted, FS_Subset, FS_CardinalityType DEF TypeOK
  <2>3. QED BY <2>1, <2>2, CompactAssumption
<1> HIDE DEF total
<1>3. r \in RunStates
  BY <1>2, RunTyped DEF RunStates
<1>4. /\ r.pc = "select" /\ r.max = run[c].max /\ r.last = run[c].last /\ r.ids = run[c].ids
      /\ r.work = run[c].work /\ r.uncounted = 0 /\ r.processed = total
  BY RunTyped DEF RunStates
<1>5. run' \in [Runs -> RunStates] /\ run'[c] = r /\ \A d \in Runs \ {c} : run'[d] = run[d]
  BY <1>1, <1>3, RunChanges
<1> HIDE DEF r
<1>6. TypeOK'
  BY <1>1, <1>5 DEF TypeOK
<1>7. IdsGiven' /\ Converted' /\ Returned' /\ NeverCompressedTwice'
  BY <1>1, <1>4, <1>5 DEF IdsGiven, Converted, Returned, NeverCompressedTwice
<1>8. Writer' /\ Collected' /\ Behind'
  BY <1>1, <1>4, <1>5 DEF Writer, Collected, Behind
<1>9. Counted'
  <2>1. total + 0 = total
    BY <1>2, CompactAssumption
  <2>2. QED BY <1>1, <1>2, <1>4, <1>5, <2>1 DEF Counted
<1>10. QED BY <1>6, <1>7, <1>8, <1>9

-----------------------------------------------------------------------------
(* The theorems. *)

\* Every step of the proxy, the operator and the runs keeps the invariant.
LEMMA NextKeepsIInv ==
    ASSUME IInv, [Next]_vars
    PROVE  IInv'
<1>1. ASSUME NEW format \in {"gzip", "text"}, NEW resp \in {"empty", format},
             InsertRow([req |-> format, resp |-> resp])
      PROVE  IInv'
  <2>1. [req |-> format, resp |-> resp] \in Row
    BY DEF Row, Bodies
  <2>2. QED BY <1>1, <2>1, InsertKeepsIInv
<1>2. ASSUME NEW id \in Ids, DeleteRow(id) PROVE IInv'
  BY <1>2, DeleteKeepsIInv
<1>3. ASSUME NEW c \in Runs, NEW vacuum \in BOOLEAN, Start(c, vacuum) PROVE IInv'
  BY <1>3, StartKeepsIInv
<1>4. ASSUME NEW c \in Runs, Step(c) PROVE IInv'
  <2>1. ASSUME BeginBusy(c) PROVE IInv'
    <3>1. lock # c
      BY <2>1 DEF BeginBusy, IInv, Writer
    <3>2. run[c].uncounted = 0 /\ lost + 0 = lost
      BY <2>1 DEF BeginBusy, IInv, Counted, TypeOK
    <3>3. QED BY <2>1, <3>1, <3>2, FailureKeepsIInv DEF BeginBusy, rows
  <2>2. QED
    BY <1>4, <2>1, SelectKeepsIInv, BeginKeepsIInv, CompactRowKeepsIInv, CommitKeepsIInv,
       CountKeepsIInv, VacuumKeepsIInv DEF Step
<1>5. ASSUME NEW c \in Runs, Abort(c) PROVE IInv'
  BY <1>5, FailureKeepsIInv DEF Abort
<1>6. CASE UNCHANGED vars
  BY <1>6 DEF vars, rows, IInv, TypeOK, IdsGiven, Writer, Collected, Behind, Converted, Counted,
              Returned, NeverCompressedTwice
<1>7. QED BY <1>1, <1>2, <1>3, <1>4, <1>5, <1>6 DEF Next

\* The invariant holds in every reachable state.
LEMMA SpecKeepsIInv == Spec => []IInv
BY InitIInv, NextKeepsIInv, PTL DEF Spec

\* Rows, lock and runs keep their types; no run counts more rows than there are.
THEOREM CompactTypeCorrect == Spec => []TypeOK
<1>1. IInv => TypeOK
  BY DEF IInv
<1>2. QED BY <1>1, SpecKeepsIInv, PTL

\* No body is ever compressed twice, however many runs work on the same rows.
THEOREM NoBodyCompressedTwice == Spec => []NeverCompressedTwice
<1>1. IInv => NeverCompressedTwice
  BY DEF IInv
<1>2. QED BY <1>1, SpecKeepsIInv, PTL

\* A run that reports success has left no legacy body among the rows it began
\* with, for any limits of a batch.
THEOREM DoneRunHasCompacted == Spec => []DoneMeansCompacted
<1>1. IInv => DoneMeansCompacted
  BY DEF IInv, Behind, DoneMeansCompacted
<1>2. QED BY <1>1, SpecKeepsIInv, PTL

\* A run with VACUUM that reports success has returned the space of the rows it
\* began with.
THEOREM VacuumHasReturnedSpace == Spec => []VacuumReturnsSpace
<1>1. IInv => VacuumReturnsSpace
  BY DEF IInv, Returned, VacuumReturnsSpace
<1>2. QED BY <1>1, SpecKeepsIInv, PTL

\* A committed body changes only from text to gzip, and no id is used again.
THEOREM BodiesOnlyBecomeGzip == Spec => OnlyTextIsRewritten
<1> DEFINE Changes ==
      \A id \in DOMAIN table' :
          IF id \in DOMAIN table
          THEN \A body \in {"req", "resp"} :
                  \/ table'[id][body] = table[id][body]
                  \/ table[id][body] = "text" /\ table'[id][body] = "gzip"
          ELSE id = nextId
<1>1. ASSUME IInv, [Next]_vars
      PROVE  Changes
  <2>1. ASSUME NEW row \in Row, InsertRow(row) PROVE Changes
    <3>1. nextId \notin DOMAIN table
      BY <1>1, RowsTyped DEF IInv, IdsGiven
    <3>2. \A id \in DOMAIN table' : id # nextId => id \in DOMAIN table /\ table'[id] = table[id]
      BY <2>1, <3>1 DEF InsertRow
    <3>3. QED BY <3>1, <3>2
  <2>2. ASSUME NEW id \in Ids, DeleteRow(id) PROVE Changes
    <3>1. \A i \in DOMAIN table' : i \in DOMAIN table /\ table'[i] = table[i]
      BY <2>2 DEF DeleteRow
    <3>2. QED BY <3>1
  <2>3. ASSUME NEW c \in Runs, Commit(c) PROVE Changes
    <3>1. ASSUME NEW id \in DOMAIN table, NEW body \in {"req", "resp"}
          PROVE  \/ table'[id][body] = table[id][body]
                 \/ table[id][body] = "text" /\ table'[id][body] = "gzip"
      <4>1. table'[id] = IF id \in DOMAIN run[c].work THEN Rewritten(table[id]) ELSE table[id]
        BY <1>1, <2>3 DEF Commit, IInv, Collected
      <4>2. Rewritten(table[id])[body] = Compressed(table[id][body])
        BY DEF Rewritten
      <4>3. QED BY <4>1, <4>2 DEF Compressed
    <3>2. DOMAIN table' = DOMAIN table
      BY <2>3 DEF Commit
    <3>3. QED BY <3>1, <3>2
  <2>4. CASE UNCHANGED table
    BY <2>4
  <2> HIDE DEF Changes
  <2>5. QED
    <3>1. ASSUME NEW format \in {"gzip", "text"}, NEW resp \in {"empty", format},
                 InsertRow([req |-> format, resp |-> resp])
          PROVE  Changes
      <4>1. [req |-> format, resp |-> resp] \in Row
        BY DEF Row, Bodies
      <4>2. QED BY <2>1, <3>1, <4>1
    <3>2. ASSUME NEW c \in Runs, NEW vacuum \in BOOLEAN, Start(c, vacuum) PROVE UNCHANGED table
      BY <3>2 DEF Start, rows
    <3>3. ASSUME NEW c \in Runs, Step(c), ~Commit(c) PROVE UNCHANGED table
      BY <3>3 DEF Step, Select, Begin, BeginBusy, CompactRow, Count, Checkpoint, BeginVacuum, EndVacuum, rows
    <3>4. ASSUME NEW c \in Runs, Abort(c) PROVE UNCHANGED table
      BY <3>4 DEF Abort, rows
    <3>5. UNCHANGED vars => UNCHANGED table
      BY DEF vars, rows
    <3>6. QED BY <1>1, <2>2, <2>3, <2>4, <3>1, <3>2, <3>3, <3>4, <3>5 DEF Next
<1>2. IInv /\ [Next]_vars => [Changes]_vars
  BY <1>1
<1>3. QED BY <1>2, SpecKeepsIInv, PTL DEF Spec, OnlyTextIsRewritten

-----------------------------------------------------------------------------
(* What the runs report. *)

Reported == [c \in Runs |-> run[c].processed + run[c].uncounted]

\* A step of a run that neither commits nor is the end of it leaves its two counters,
\* or moves what is uncounted to what is processed.
LEMMA StepKeepsReport ==
    ASSUME IInv, NEW c \in Runs, Step(c) \/ \E vacuum \in BOOLEAN : Start(c, vacuum),
           ~Commit(c)
    PROVE  /\ UNCHANGED <<converted, lost>>
           /\ run'[c].processed + run'[c].uncounted = run[c].processed + run[c].uncounted
           /\ \A d \in Runs \ {c} : run'[d] = run[d]
<1> DEFINE Same == /\ run'[c].processed + run'[c].uncounted = run[c].processed + run[c].uncounted
                   /\ \A d \in Runs \ {c} : run'[d] = run[d]
<1>1. UNCHANGED <<converted, lost>>
  BY DEF Step, Start, Select, Begin, BeginBusy, CompactRow, Count, Checkpoint, BeginVacuum,
         EndVacuum, rows
<1>2. run \in [Runs -> RunStates] /\ run[c] \in RunStates
  BY DEF IInv, TypeOK
<1>3. ASSUME NEW vacuum \in BOOLEAN, Start(c, vacuum) PROVE Same
  <2>1. \E pc, max, last : run' = [run EXCEPT ![c] = [run[c] EXCEPT !.pc = pc, !.vacuum = vacuum,
                                                                    !.max = max, !.last = last]]
    BY <1>3 DEF Start
  <2>2. QED BY <1>2, <2>1 DEF RunStates
<1>4. ASSUME Select(c) PROVE Same
  <2>1. PICK pc, ids, last :
           \/ run' = [run EXCEPT ![c] = [run[c] EXCEPT !.pc = pc, !.ids = ids, !.last = last]]
           \/ run' = [run EXCEPT ![c] = [run[c] EXCEPT !.pc = pc, !.last = last]]
    BY <1>2, <1>4 DEF Select
  <2>2. \/ run'[c] = [run[c] EXCEPT !.pc = pc, !.ids = ids, !.last = last]
        \/ run'[c] = [run[c] EXCEPT !.pc = pc, !.last = last]
    BY <1>2, <2>1
  <2>3. run'[c].processed = run[c].processed /\ run'[c].uncounted = run[c].uncounted
    BY <1>2, <2>2 DEF RunStates
  <2>4. \A d \in Runs \ {c} : run'[d] = run[d]
    BY <1>2, <2>1
  <2>5. QED BY <2>3, <2>4
<1>5. ASSUME Begin(c) PROVE Same
  <2>1. \E pc, work : run' = [run EXCEPT ![c].pc = pc, ![c].work = work]
    BY <1>5 DEF Begin
  <2>2. QED BY <1>2, <2>1 DEF RunStates
<1>6. ASSUME CompactRow(c) PROVE Same
  <2>1. \E ids, work : run' = [run EXCEPT ![c].ids = ids, ![c].work = work]
    BY <1>6 DEF CompactRow
  <2>2. QED BY <1>2, <2>1 DEF RunStates
<1>7. ASSUME Checkpoint(c) \/ BeginVacuum(c) \/ EndVacuum(c) PROVE Same
  BY <1>2, <1>7 DEF Checkpoint, BeginVacuum, EndVacuum, RunStates
<1>8. ASSUME BeginBusy(c) PROVE Same
  <2>1. run[c].uncounted = 0
    BY <1>8 DEF BeginBusy, IInv, Counted
  <2>2. run' = [run EXCEPT ![c] = Failed(run[c])]
    BY <1>8 DEF BeginBusy
  <2>3. run'[c].processed = run[c].processed /\ run'[c].uncounted = 0
    BY <1>2, <2>2, FailedState
  <2>4. \A d \in Runs \ {c} : run'[d] = run[d]
    BY <1>2, <2>2
  <2>5. QED BY <2>1, <2>3, <2>4
<1>9. ASSUME Count(c) PROVE Same
  <2> DEFINE total == run[c].processed + run[c].uncounted
  <2>1. PICK r : /\ r = [run[c] EXCEPT !.pc = "select", !.uncounted = 0, !.processed = total]
                 /\ run' = [run EXCEPT ![c] = r]
    BY <1>9 DEF Count
  <2>2. total + 0 = total
    BY RunTyped DEF IInv
  <2> HIDE DEF total
  <2>3. r.processed = total /\ r.uncounted = 0
    BY <1>2, <2>1 DEF RunStates
  <2>4. run'[c] = r /\ \A d \in Runs \ {c} : run'[d] = run[d]
    BY <1>2, <2>1
  <2>5. run'[c].processed + run'[c].uncounted = total
    BY <2>2, <2>3, <2>4
  <2>6. QED BY <2>4, <2>5 DEF total
<1> HIDE DEF Same
<1>10. Same
  BY <1>3, <1>4, <1>5, <1>6, <1>7, <1>8, <1>9 DEF Step
<1>11. QED BY <1>1, <1>10 DEF Same

\* A commit adds as many rows to those of its run as it converts, and they were not
\* converted before.
LEMMA CommitIsReported ==
    ASSUME IInv, IInv', NEW c \in Runs, Commit(c), ProcessedExact
    PROVE  ProcessedExact'
<1> DEFINE changed == DOMAIN run[c].work
           k == Cardinality(changed)
<1>1. TypeOK /\ TypeOK'
  BY DEF IInv
<1>2. /\ converted' = converted \cup changed /\ lost' = lost
      /\ run' = [run EXCEPT ![c].pc = "counting", ![c].work = <<>>, ![c].uncounted = k]
  BY DEF Commit
<1>3. k \in Nat /\ Cardinality(converted') = Cardinality(converted) + k
      /\ Cardinality(converted) \in Nat
  <2>1. converted \in SUBSET Ids /\ changed \in SUBSET Ids /\ IsFiniteSet(Ids)
    BY <1>1, RunTyped, IdsCounted DEF TypeOK, RunStates, Updates
  <2>2. IsFiniteSet(converted) /\ IsFiniteSet(changed)
    BY <2>1, FS_Subset
  <2>3. converted \cap changed = {}
    BY DEF IInv, Collected, Converted
  <2>4. Cardinality(converted \cap changed) = 0
    BY <2>3, FS_EmptySet
  <2>5. Cardinality(converted \cup changed) =
            Cardinality(converted) + Cardinality(changed) - Cardinality(converted \cap changed)
    BY <2>2, FS_Union
  <2>6. Cardinality(converted) \in Nat /\ Cardinality(changed) \in Nat
    BY <2>2, FS_CardinalityType
  <2>7. QED BY <1>2, <2>4, <2>5, <2>6
<1>4. run[c].uncounted = 0
  BY DEF Commit, IInv, Counted
<1> HIDE DEF k, changed
<1>5. /\ run'[c].processed = run[c].processed /\ run'[c].uncounted = k
      /\ \A d \in Runs \ {c} : run'[d] = run[d]
  BY <1>1, <1>2 DEF TypeOK, RunStates
<1>6. /\ Reported \in [Runs -> Nat] /\ Reported' \in [Runs -> Nat]
      /\ Reported'[c] = Reported[c] + k
      /\ \A d \in Runs \ {c} : Reported'[d] = Reported[d]
  <2>1. Reported \in [Runs -> Nat] /\ Reported' \in [Runs -> Nat]
    <3>1. \A d \in Runs : /\ run[d].processed + run[d].uncounted \in Nat
                          /\ run'[d].processed + run'[d].uncounted \in Nat
      BY <1>1, <1>3, <1>5, RunTyped
    <3>2. QED BY <3>1 DEF Reported
  <2>2. run[c].processed \in Nat
    BY <1>1, RunTyped
  <2>3. Reported[c] = run[c].processed + 0 /\ Reported'[c] = run[c].processed + k
    BY <1>4, <1>5 DEF Reported
  <2>4. \A d \in Runs \ {c} : Reported'[d] = Reported[d]
    BY <1>5 DEF Reported
  <2>5. QED BY <1>3, <2>1, <2>2, <2>3, <2>4
<1>7. SumFunction(Reported') = SumFunction(Reported) + k /\ SumFunction(Reported) \in Nat
  BY <1>3, <1>6, SumGrows, CompactAssumption
<1>8. lost \in Nat /\ SumFunction(Reported) + lost = Cardinality(converted)
  BY <1>1 DEF TypeOK, ProcessedExact, Reported
<1>9. SumFunction(Reported') + lost' = Cardinality(converted')
  BY <1>2, <1>3, <1>7, <1>8
<1>10. QED BY <1>9 DEF ProcessedExact, Reported

\* What a run that is killed had not counted will never be.
LEMMA KilledIsLost ==
    ASSUME IInv, IInv', NEW c \in Runs, Abort(c), ProcessedExact
    PROVE  ProcessedExact'
<1> DEFINE k == run[c].uncounted
<1>1. TypeOK /\ TypeOK'
  BY DEF IInv
<1>2. converted' = converted /\ lost' = lost + k /\ run' = [run EXCEPT ![c] = Failed(run[c])]
  BY DEF Abort
<1>3. k \in Nat /\ run[c].processed \in Nat
  BY <1>1, RunTyped
<1>4. /\ run'[c].processed = run[c].processed /\ run'[c].uncounted = 0
      /\ \A d \in Runs \ {c} : run'[d] = run[d]
  BY <1>1, <1>2, FailedState DEF TypeOK
<1>5. Reported \in [Runs -> Nat] /\ Reported' \in [Runs -> Nat]
  <2>1. \A d \in Runs : /\ run[d].processed + run[d].uncounted \in Nat
                        /\ run'[d].processed + run'[d].uncounted \in Nat
    BY <1>1, <1>3, <1>4, RunTyped
  <2>2. QED BY <2>1 DEF Reported
<1>6. Reported[c] = run[c].processed + k /\ Reported'[c] = run[c].processed + 0
  BY <1>4 DEF Reported
<1>7. \A d \in Runs \ {c} : Reported[d] = Reported'[d]
  BY <1>4 DEF Reported
<1> HIDE DEF k
<1>8. Reported[c] = Reported'[c] + k
  BY <1>3, <1>6
<1>9. SumFunction(Reported) = SumFunction(Reported') + k /\ SumFunction(Reported') \in Nat
  BY <1>3, <1>5, <1>7, <1>8, SumGrows, CompactAssumption
<1>10. lost \in Nat /\ SumFunction(Reported) + lost = Cardinality(converted)
  BY <1>1 DEF TypeOK, ProcessedExact, Reported
<1>11. SumFunction(Reported') + lost' = Cardinality(converted')
  BY <1>2, <1>3, <1>9, <1>10
<1>12. QED BY <1>11 DEF ProcessedExact, Reported

\* No other step changes what is reported, converted or lost.
LEMMA NextKeepsProcessed ==
    ASSUME IInv, IInv', ProcessedExact, [Next]_vars
    PROVE  ProcessedExact'
<1>1. ASSUME UNCHANGED <<converted, lost>>,
             \A d \in Runs : run'[d].processed + run'[d].uncounted
                                 = run[d].processed + run[d].uncounted
      PROVE  ProcessedExact'
  <2>1. Reported' = Reported
    BY <1>1 DEF Reported
  <2>2. QED BY <1>1, <2>1 DEF ProcessedExact, Reported
<1>2. ASSUME NEW c \in Runs, Step(c) \/ \E vacuum \in BOOLEAN : Start(c, vacuum), ~Commit(c)
      PROVE  ProcessedExact'
  BY <1>1, <1>2, StepKeepsReport
<1>3. ASSUME NEW c \in Runs, Commit(c) PROVE ProcessedExact'
  BY <1>3, CommitIsReported
<1>4. ASSUME NEW c \in Runs, Abort(c) PROVE ProcessedExact'
  BY <1>4, KilledIsLost
<1>5. UNCHANGED <<run, converted, lost>> => ProcessedExact'
  BY <1>1
<1>6. ASSUME NEW row, InsertRow(row) PROVE UNCHANGED <<run, converted, lost>>
  BY <1>6 DEF InsertRow
<1>7. ASSUME NEW id, DeleteRow(id) PROVE UNCHANGED <<run, converted, lost>>
  BY <1>7 DEF DeleteRow
<1>8. UNCHANGED vars => UNCHANGED <<run, converted, lost>>
  BY DEF vars, rows
<1>9. QED BY <1>2, <1>3, <1>4, <1>5, <1>6, <1>7, <1>8 DEF Next

\* The runs report exactly the rows they changed, however many runs there are and
\* wherever they fail, but for the batch a run has committed and not counted yet, and
\* the batches of runs that were killed at that point.
THEOREM ReportsAreExact == Spec => []ProcessedExact
<1>1. Init => ProcessedExact
  <2> SUFFICES ASSUME Init PROVE ProcessedExact
    OBVIOUS
  <2>1. \A c \in Runs : run[c].processed + run[c].uncounted = 0
    <3>1. Idle.processed = 0 /\ Idle.uncounted = 0
      BY DEF Idle
    <3>2. QED BY <3>1 DEF Init
  <2>2. Reported \in [Runs -> Nat] /\ \A c \in Runs : Reported[c] = 0
    BY <2>1 DEF Reported
  <2>3. SumFunction(Reported) = 0
    BY <2>2, SumOfZeros, CompactAssumption
  <2>4. Cardinality(converted) = 0 /\ lost = 0
    BY FS_EmptySet DEF Init
  <2>5. SumFunction(Reported) + lost = Cardinality(converted)
    BY <2>3, <2>4
  <2>6. QED BY <2>5 DEF ProcessedExact, Reported
<1>2. QED BY <1>1, SpecKeepsIInv, NextKeepsProcessed, PTL DEF Spec
=============================================================================
