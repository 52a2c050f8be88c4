------------------------- MODULE AsyncWriterProofs -------------------------
(***************************************************************************)
(* Proofs about AsyncWriter, for any set of records, any capacity of the   *)
(* channel and any batch size.                                             *)
(***************************************************************************)
EXTENDS AsyncWriter, FiniteSetTheorems, SequenceTheorems, TLAPS

Occurs(s, x) == \E i \in 1..Len(s) : s[i] = x
Distinct(s)  == \A i, j \in 1..Len(s) : s[i] = s[j] => i = j

\* The inductive invariant: besides the two properties it relates the state of
\* the worker and of Drain to what the batch and the channel still hold.
IInv ==
    /\ TypeOK
    /\ AcceptedHeldOnce
    /\ worker = "select" => Len(batch) < BatchSize
    /\ worker \in {"flush", "final"} => batch # <<>>
    /\ \A r \in Records : row[r] # "none" => submit[r] = "sent"
    /\ worker \in {"final", "stopped"} => Closed /\ queue = <<>>
    /\ worker = "stopped" => batch = <<>>
    /\ drain = "returned" => worker = "stopped"

-----------------------------------------------------------------------------
(* Sequences: what one step of a first-in first-out line does to it. *)

\* Adding a record to the channel adds it to the end of the whole line.
LEMMA SendExtends ==
    ASSUME NEW S, NEW b \in Seq(S), NEW q \in Seq(S), NEW x \in S
    PROVE  b \o Append(q, x) = Append(b \o q, x)
<1> DEFINE s == b \o Append(q, x)
           t == Append(b \o q, x)
<1>1. /\ s \in Seq(S) /\ t \in Seq(S) /\ Len(s) = Len(t)
      /\ Len(t) = Len(b) + Len(q) + 1
  OBVIOUS
<1>2. ASSUME NEW i \in 1..Len(t) PROVE s[i] = t[i]
  <2>1. CASE i <= Len(b)
    BY <2>1
  <2>2. CASE i > Len(b) /\ i <= Len(b) + Len(q)
    BY <2>2
  <2>3. CASE i = Len(b) + Len(q) + 1
    BY <2>3
  <2>4. QED BY <1>1, <2>1, <2>2, <2>3
<1>3. QED BY <1>1, <1>2, SeqEqual, Zenon

\* Moving the head of the channel to the end of the batch leaves the line alone.
LEMMA ReceiveKeeps ==
    ASSUME NEW S, NEW b \in Seq(S), NEW q \in Seq(S), q # <<>>
    PROVE  Append(b, Head(q)) \o Tail(q) = b \o q
<1> DEFINE s == Append(b, Head(q)) \o Tail(q)
           t == b \o q
<1>1. Head(q) \in S /\ Tail(q) \in Seq(S) /\ Len(Tail(q)) = Len(q) - 1 /\ Len(q) > 0
  BY EmptySeq, HeadTailProperties
<1>2. /\ s \in Seq(S) /\ t \in Seq(S) /\ Len(s) = Len(t)
      /\ Len(t) = Len(b) + Len(q)
  BY <1>1
<1>3. ASSUME NEW i \in 1..Len(t) PROVE s[i] = t[i]
  <2>1. CASE i <= Len(b)
    BY <1>1, <2>1
  <2>2. CASE i = Len(b) + 1
    BY <1>1, <2>2
  <2>3. CASE i > Len(b) + 1
    <3>1. s[i] = Tail(q)[i - (Len(b) + 1)] BY <1>1, <1>2, <2>3
    <3>2. i - (Len(b) + 1) \in 1..Len(Tail(q)) BY <1>1, <1>2, <2>3
    <3>3. Tail(q)[i - (Len(b) + 1)] = q[i - Len(b)] BY <1>1, <3>2
    <3>4. t[i] = q[i - Len(b)] BY <1>2, <2>3
    <3>5. QED BY <3>1, <3>3, <3>4
  <2>4. QED BY <1>2, <2>1, <2>2, <2>3
<1>4. QED BY <1>2, <1>3, SeqEqual, Zenon

\* Taking the head of the batch takes the head of the line.
LEMMA InsertShortens ==
    ASSUME NEW S, NEW b \in Seq(S), NEW q \in Seq(S), b # <<>>
    PROVE  /\ b \o q # <<>>
           /\ Head(b \o q) = Head(b)
           /\ Tail(b) \o q = Tail(b \o q)
<1> DEFINE s == Tail(b) \o q
           t == Tail(b \o q)
<1>1. /\ Head(b) \in S /\ Tail(b) \in Seq(S) /\ Len(Tail(b)) = Len(b) - 1
      /\ Len(b) > 0 /\ b \o q \in Seq(S) /\ Len(b \o q) = Len(b) + Len(q)
  BY EmptySeq, HeadTailProperties
<1>2. b \o q # <<>> /\ Head(b \o q) = Head(b)
  BY <1>1
<1>3. /\ s \in Seq(S) /\ t \in Seq(S) /\ Len(s) = Len(t)
      /\ Len(t) = Len(b) + Len(q) - 1
  BY <1>1, <1>2, HeadTailProperties
<1>4. ASSUME NEW i \in 1..Len(t) PROVE s[i] = t[i]
  <2>1. t[i] = (b \o q)[i + 1]
    BY <1>1, <1>3
  <2>2. CASE i <= Len(b) - 1
    BY <1>1, <1>3, <2>1, <2>2
  <2>3. CASE i > Len(b) - 1
    BY <1>1, <1>3, <2>1, <2>3
  <2>4. QED BY <1>1, <1>3, <2>2, <2>3
<1>5. QED BY <1>2, <1>3, <1>4, SeqEqual

\* A line of distinct records stays one when a new record joins it.
LEMMA JoinDistinct ==
    ASSUME NEW S, NEW s \in Seq(S), NEW x \in S, Distinct(s), ~Occurs(s, x)
    PROVE  /\ Distinct(Append(s, x))
           /\ \A y : Occurs(Append(s, x), y) <=> Occurs(s, y) \/ y = x
<1>1. Len(Append(s, x)) = Len(s) + 1 /\ Append(s, x)[Len(s) + 1] = x
  OBVIOUS
<1>2. \A i \in 1..Len(s) : Append(s, x)[i] = s[i]
  OBVIOUS
<1>3. Len(s) \in Nat
  OBVIOUS
<1>4. Distinct(Append(s, x))
  BY <1>1, <1>2, <1>3 DEF Distinct, Occurs
<1>5. ASSUME NEW y PROVE Occurs(Append(s, x), y) <=> Occurs(s, y) \/ y = x
  BY <1>1, <1>2, <1>3 DEF Occurs
<1>6. QED BY <1>4, <1>5

\* When its head leaves a line of distinct records, only that record is gone.
LEMMA LeaveDistinct ==
    ASSUME NEW S, NEW s \in Seq(S), s # <<>>, Distinct(s)
    PROVE  /\ Distinct(Tail(s))
           /\ Occurs(s, Head(s))
           /\ \A y : Occurs(Tail(s), y) <=> Occurs(s, y) /\ y # Head(s)
<1>1. /\ Tail(s) \in Seq(S) /\ Len(Tail(s)) = Len(s) - 1 /\ Len(s) \in Nat \ {0}
      /\ Head(s) = s[1]
  BY EmptySeq, HeadTailProperties
<1>2. \A i \in 1..Len(Tail(s)) : Tail(s)[i] = s[i + 1]
  BY <1>1
<1>3. Distinct(Tail(s))
  BY <1>1, <1>2 DEF Distinct
<1>4. Occurs(s, Head(s))
  BY <1>1 DEF Occurs
<1>5. ASSUME NEW y, Occurs(Tail(s), y) PROVE Occurs(s, y) /\ y # Head(s)
  BY <1>1, <1>2, <1>5 DEF Occurs, Distinct
<1>6. ASSUME NEW y, Occurs(s, y), y # Head(s) PROVE Occurs(Tail(s), y)
  <2>1. PICK i \in 1..Len(s) : s[i] = y BY <1>6 DEF Occurs
  <2>2. i # 1 BY <1>1, <1>6, <2>1
  <2>3. i - 1 \in 1..Len(Tail(s)) /\ Tail(s)[i - 1] = s[i]
    BY <1>1, <1>2, <2>1, <2>2
  <2>4. QED BY <2>1, <2>3 DEF Occurs
<1>7. QED BY <1>3, <1>4, <1>5, <1>6

-----------------------------------------------------------------------------
(* The invariant. *)

\* AcceptedHeldOnce in the vocabulary of the lemmas above.
LEMMA HeldOnce ==
    AcceptedHeldOnce <=>
        /\ Distinct(InMemory)
        /\ \A r \in Records :
              submit[r] = "sent" /\ row[r] = "none" <=> Occurs(InMemory, r)
BY DEF AcceptedHeldOnce, Distinct, Occurs

\* The writer NewAsyncWriter returns holds nothing and has been given nothing.
LEMMA InitIInv == Init => IInv
<1> SUFFICES ASSUME Init PROVE IInv
  OBVIOUS
<1>1. TypeOK
  BY WriterAssumption
  DEF Init, TypeOK, WorkerStates, DrainStates, SubmitStates, RowStates
<1>2. InMemory = <<>>
  BY DEF Init, InMemory
<1>3. AcceptedHeldOnce
  BY <1>2 DEF Init, AcceptedHeldOnce
<1>4. QED
  BY <1>1, <1>3, WriterAssumption DEF Init, IInv

\* A Submit call that finds no room, counts a drop, or hits a closed channel
\* holds no record: it changes neither the line nor who is in it.
LEMMA RefusalKeepsIInv ==
    ASSUME IInv, NEW r \in Records,
           FindFull(r) \/ LoadDropped(r) \/ StoreDropped(r) \/ SendOnClosed(r)
    PROVE  IInv'
<1> USE DEF IInv
<1>1. /\ UNCHANGED <<queue, batch, worker, drain, row>>
      /\ submit[r] # "sent" /\ submit'[r] # "sent"
      /\ \A x \in Records : x # r => submit'[x] = submit[x]
      /\ submit' \in [Records -> SubmitStates]
  BY DEF TypeOK, SubmitStates, FindFull, LoadDropped, StoreDropped,
         SendOnClosed, channelVars, counterVars
<1>2. dropped' \in Nat /\ loaded' \in [Records -> Nat]
  BY DEF TypeOK, FindFull, LoadDropped, StoreDropped, SendOnClosed,
         channelVars, counterVars
<1>3. TypeOK'
  BY <1>1, <1>2 DEF TypeOK
<1>4. \A x \in Records : submit'[x] = "sent" <=> submit[x] = "sent"
  BY <1>1
<1>5. AcceptedHeldOnce'
  BY <1>1, <1>4 DEF AcceptedHeldOnce, InMemory
<1>6. QED BY <1>1, <1>3, <1>4, <1>5 DEF Closed

\* A send to the channel adds a record that is neither in the line nor in the
\* database yet.
LEMMA SendKeepsIInv ==
    ASSUME IInv, NEW r \in Records, Send(r)
    PROVE  IInv'
<1> USE DEF IInv
<1>1. /\ queue \in Seq(Records) /\ batch \in Seq(Records)
      /\ UNCHANGED <<batch, worker, drain, row, dropped, loaded>>
      /\ queue' = Append(queue, r)
      /\ submit' = [submit EXCEPT ![r] = "sent"]
  BY DEF TypeOK, Send, counterVars
<1>2. TypeOK'
  BY <1>1, WriterAssumption DEF TypeOK, SubmitStates, Send
<1>3. InMemory' = Append(InMemory, r)
  BY <1>1, SendExtends DEF InMemory
<1>4. InMemory \in Seq(Records)
  BY <1>1, ConcatProperties DEF InMemory
<1>5. submit[r] = "idle" /\ row[r] = "none"
  BY DEF Send, TypeOK, RowStates
<1>6. ~Occurs(InMemory, r)
  BY <1>5, HeldOnce
<1>7. /\ Distinct(InMemory')
      /\ \A y \in Records : Occurs(InMemory', y) <=> Occurs(InMemory, y) \/ y = r
  BY <1>3, <1>4, <1>6, JoinDistinct, HeldOnce
<1>8. \A y \in Records :
         submit'[y] = "sent" /\ row'[y] = "none" <=> Occurs(InMemory', y)
  BY <1>1, <1>5, <1>7, HeldOnce DEF TypeOK
<1>9. AcceptedHeldOnce'
  BY <1>7, <1>8 DEF AcceptedHeldOnce, Distinct, Occurs
<1>10. \A y \in Records : row'[y] # "none" => submit'[y] = "sent"
  BY <1>1 DEF TypeOK
<1>11. ~Closed /\ ~Closed'
  BY <1>1 DEF Send, Closed
<1>12. QED BY <1>1, <1>2, <1>9, <1>10, <1>11 DEF Closed

\* What the worker receives stays in the line; a batch that is full is flushed.
LEMMA ReceiveKeepsIInv ==
    ASSUME IInv, Receive
    PROVE  IInv'
<1> USE DEF IInv
<1>1. /\ queue \in Seq(Records) /\ batch \in Seq(Records) /\ queue # <<>>
      /\ UNCHANGED <<drain, submit, row, dropped, loaded>>
      /\ queue' = Tail(queue)
      /\ batch' = Append(batch, Head(queue))
      /\ worker = "select" /\ Len(batch) < BatchSize
      /\ worker' = IF Len(batch) + 1 >= BatchSize THEN "flush" ELSE "select"
  BY DEF TypeOK, Receive, counterVars
<1>2. /\ Head(queue) \in Records /\ Tail(queue) \in Seq(Records)
      /\ Len(Tail(queue)) = Len(queue) - 1
  BY <1>1, HeadTailProperties
<1>3. Len(batch') = Len(batch) + 1 /\ batch' \in Seq(Records) /\ batch' # <<>>
  BY <1>1, <1>2
<1>4. TypeOK'
  BY <1>1, <1>2, <1>3, WriterAssumption DEF TypeOK, WorkerStates
<1>5. InMemory' = InMemory
  BY <1>1, ReceiveKeeps DEF InMemory
<1>6. AcceptedHeldOnce'
  BY <1>1, <1>5 DEF AcceptedHeldOnce
<1>7. worker' = "select" => Len(batch') < BatchSize
  BY <1>1, <1>3, WriterAssumption
<1>8. QED BY <1>1, <1>3, <1>4, <1>6, <1>7 DEF Closed

\* An insert takes the head of the line out of it and gives its record a row; the
\* last one of a flush lets the worker select again, or stop.
LEMMA InsertKeepsIInv ==
    ASSUME IInv, NEW outcome \in {"stored", "failed"}, Insert(outcome)
    PROVE  IInv'
<1> USE DEF IInv
<1> DEFINE h == Head(batch)
<1>1. /\ queue \in Seq(Records) /\ batch \in Seq(Records) /\ batch # <<>>
      /\ UNCHANGED <<queue, drain, submit, dropped, loaded>>
      /\ batch' = Tail(batch)
      /\ row' = [row EXCEPT ![h] = outcome]
      /\ worker \in {"flush", "final"}
      /\ worker' = IF Tail(batch) # <<>> THEN worker
                   ELSE IF worker = "final" THEN "stopped" ELSE "select"
  BY DEF TypeOK, Insert, counterVars
<1>2. /\ h \in Records /\ Tail(batch) \in Seq(Records)
      /\ Len(Tail(batch)) = Len(batch) - 1
  BY <1>1, HeadTailProperties
<1>3. TypeOK'
  <2>1. row' \in [Records -> RowStates]
    BY <1>1 DEF TypeOK, RowStates
  <2>2. worker' \in WorkerStates
    BY <1>1 DEF WorkerStates
  <2>3. Len(batch') <= BatchSize
    BY <1>1, <1>2, WriterAssumption DEF TypeOK
  <2>4. QED BY <1>1, <1>2, <2>1, <2>2, <2>3 DEF TypeOK
<1>4. InMemory # <<>> /\ Head(InMemory) = h /\ InMemory' = Tail(InMemory)
  BY <1>1, InsertShortens DEF InMemory
<1>5. InMemory \in Seq(Records)
  BY <1>1, ConcatProperties DEF InMemory
<1>6. /\ Distinct(InMemory')
      /\ Occurs(InMemory, h)
      /\ \A y \in Records : Occurs(InMemory', y) <=> Occurs(InMemory, y) /\ y # h
  BY <1>4, <1>5, LeaveDistinct, HeldOnce
<1>7. submit[h] = "sent"
  BY <1>2, <1>6, HeldOnce
<1>8. \A y \in Records :
         submit'[y] = "sent" /\ row'[y] = "none" <=> Occurs(InMemory', y)
  BY <1>1, <1>2, <1>6, HeldOnce DEF TypeOK
<1>9. AcceptedHeldOnce'
  BY <1>6, <1>8 DEF AcceptedHeldOnce, Distinct, Occurs
<1>10. \A y \in Records : row'[y] # "none" => submit'[y] = "sent"
  BY <1>1, <1>7 DEF TypeOK
<1>11. worker' = "select" => Len(batch') < BatchSize
  <2>1. worker' = "select" => batch' = <<>>
    BY <1>1
  <2>2. Len(<<>>) = 0 /\ BatchSize \in Nat \ {0}
    BY WriterAssumption
  <2>3. QED BY <2>1, <2>2
<1>12. worker' \in {"flush", "final"} => batch' # <<>>
  BY <1>1
<1>13. /\ worker' = "stopped" => batch' = <<>>
       /\ worker' \in {"final", "stopped"} => worker = "final"
  BY <1>1
<1>14. drain' # "returned"
  BY <1>1
<1>15. QED BY <1>1, <1>3, <1>9, <1>10, <1>11, <1>12, <1>13, <1>14 DEF Closed

\* Steps that move only the control of the worker or of Drain.
LEMMA ControlKeepsIInv ==
    ASSUME IInv, Tick \/ SeeClosed \/ CloseQueue \/ SeeDone
    PROVE  IInv'
<1> USE DEF IInv
<1>1. /\ UNCHANGED <<queue, batch, submit, row, dropped, loaded>>
      /\ worker' \in WorkerStates /\ drain' \in DrainStates
  BY DEF TypeOK, WorkerStates, DrainStates, Tick, SeeClosed, CloseQueue,
         SeeDone, counterVars
<1>2. TypeOK'
  BY <1>1 DEF TypeOK
<1>3. AcceptedHeldOnce'
  BY <1>1 DEF AcceptedHeldOnce, InMemory
<1>4. CASE Tick
  BY <1>1, <1>2, <1>3, <1>4 DEF Tick, Closed
<1>5. CASE SeeClosed
  BY <1>1, <1>2, <1>3, <1>5 DEF SeeClosed, Closed
<1>6. CASE CloseQueue
  BY <1>1, <1>2, <1>3, <1>6 DEF CloseQueue, Closed
<1>7. CASE SeeDone
  BY <1>1, <1>2, <1>3, <1>7 DEF SeeDone, Closed
<1>8. QED BY <1>4, <1>5, <1>6, <1>7

\* Every step of Submit, of the worker and of Drain keeps the invariant.
LEMMA NextKeepsIInv == IInv /\ [Next]_writerVars => IInv'
<1> SUFFICES ASSUME IInv, [Next]_writerVars PROVE IInv'
  OBVIOUS
<1>1. ASSUME NEW r \in Records, Submit(r) PROVE IInv'
  BY <1>1, SendKeepsIInv, RefusalKeepsIInv DEF Submit
<1>2. CASE Work
  BY <1>2, ReceiveKeepsIInv, InsertKeepsIInv, ControlKeepsIInv
  DEF Work, InsertSome
<1>3. CASE CloseQueue \/ SeeDone
  BY <1>3, ControlKeepsIInv
<1>4. CASE UNCHANGED writerVars
  BY <1>4
  DEF writerVars, IInv, TypeOK, AcceptedHeldOnce, InMemory, Closed
<1>5. QED BY <1>1, <1>2, <1>3, <1>4 DEF Next

\* The invariant holds in every reachable state.
LEMMA SpecKeepsIInv == Spec => []IInv
BY InitIInv, NextKeepsIInv, PTL DEF Spec

\* The channel never holds more than its capacity and the batch never more than
\* batchSize, whatever the interleaving of Submit, worker and Drain.
THEOREM TypeCorrect == Spec => []TypeOK
<1>1. IInv => TypeOK
  BY DEF IInv
<1>2. QED BY <1>1, SpecKeepsIInv, PTL

\* Between Submit and the database an accepted record is in the channel or in
\* the batch exactly once: store.go loses and repeats none of them.
THEOREM AcceptedRecordsHeldOnce == Spec => []AcceptedHeldOnce
<1>1. IInv => AcceptedHeldOnce
  BY DEF IInv
<1>2. QED BY <1>1, SpecKeepsIInv, PTL

\* The worker that Drain has waited for holds nothing any more.
LEMMA DrainedIsEmpty == IInv => DrainLeavesNothing
<1> SUFFICES ASSUME IInv, drain = "returned", NEW r \in Records,
                    submit[r] = "sent"
             PROVE  row[r] # "none"
  BY DEF DrainLeavesNothing
<1>1. InMemory = <<>>
  BY DEF IInv, InMemory
<1>2. ~Occurs(InMemory, r)
  BY <1>1 DEF Occurs
<1>3. QED BY <1>2, HeldOnce DEF IInv

\* When Drain has returned every accepted record has met the database.
THEOREM DrainLeavesNoRecord == Spec => []DrainLeavesNothing
BY DrainedIsEmpty, SpecKeepsIInv, PTL

-----------------------------------------------------------------------------
(* The racy counter. *)

\* A Submit call that has read the counter read no more than were counted by then.
CountInv ==
    /\ IsFiniteSet(Counted)
    /\ DroppedCountBounded
    /\ \A r \in Records : submit[r] = "counting" => loaded[r] <= Cardinality(Counted)

\* Only the store of Submit's increment adds to the records counted.
LEMMA StoreKeepsCountInv ==
    ASSUME IInv, CountInv, NEW r \in Records, StoreDropped(r)
    PROVE  CountInv'
<1>1. /\ submit[r] = "counting" /\ dropped' = loaded[r] + 1 /\ loaded' = loaded
      /\ submit' = [submit EXCEPT ![r] = "dropped"]
      /\ submit \in [Records -> SubmitStates] /\ loaded \in [Records -> Nat]
  BY DEF StoreDropped, IInv, TypeOK
<1>2. Counted' = Counted \cup {r} /\ r \notin Counted
  BY <1>1 DEF Counted
<1>3. /\ IsFiniteSet(Counted') /\ Cardinality(Counted') = Cardinality(Counted) + 1
      /\ Cardinality(Counted) \in Nat
  BY <1>2, FS_AddElement, FS_CardinalityType DEF CountInv
<1>4. dropped' <= Cardinality(Counted') /\ dropped' > 0
  BY <1>1, <1>3 DEF CountInv
<1>5. \A x \in Records : submit'[x] = "counting" => loaded'[x] <= Cardinality(Counted')
  <2> SUFFICES ASSUME NEW x \in Records, submit'[x] = "counting"
               PROVE  loaded'[x] <= Cardinality(Counted')
    OBVIOUS
  <2>1. submit[x] = "counting" /\ loaded'[x] = loaded[x] /\ loaded[x] \in Nat
    BY <1>1
  <2>2. loaded[x] <= Cardinality(Counted)
    BY <2>1 DEF CountInv
  <2>3. QED BY <1>3, <2>1, <2>2
<1>6. QED BY <1>3, <1>4, <1>5 DEF CountInv, DroppedCountBounded

\* And only its load gives a call a count to go by.
LEMMA LoadKeepsCountInv ==
    ASSUME IInv, CountInv, NEW r \in Records, LoadDropped(r)
    PROVE  CountInv'
<1>1. /\ dropped' = dropped /\ loaded' = [loaded EXCEPT ![r] = dropped]
      /\ submit[r] = "full" /\ submit' = [submit EXCEPT ![r] = "counting"]
      /\ submit \in [Records -> SubmitStates] /\ loaded \in [Records -> Nat]
  BY DEF LoadDropped, IInv, TypeOK
<1>2. Counted' = Counted
  BY <1>1 DEF Counted
<1>3. \A x \in Records : submit'[x] = "counting" => loaded'[x] <= Cardinality(Counted)
  <2>1. loaded'[r] <= Cardinality(Counted)
    BY <1>1 DEF CountInv, DroppedCountBounded
  <2>2. ASSUME NEW x \in Records, x # r
        PROVE  submit'[x] = "counting" => loaded'[x] <= Cardinality(Counted)
    BY <1>1, <2>2 DEF CountInv
  <2>3. QED BY <2>1, <2>2
<1>4. QED BY <1>1, <1>2, <1>3 DEF CountInv, DroppedCountBounded

\* The other steps count nothing.
LEMMA NextKeepsCountInv == IInv /\ CountInv /\ [Next]_writerVars => CountInv'
<1> SUFFICES ASSUME IInv, CountInv, [Next]_writerVars PROVE CountInv'
  OBVIOUS
<1>1. ASSUME NEW r \in Records, StoreDropped(r) \/ LoadDropped(r) PROVE CountInv'
  BY <1>1, StoreKeepsCountInv, LoadKeepsCountInv
<1>2. ASSUME UNCHANGED <<dropped, loaded>>, Counted' = Counted,
             \A x \in Records : submit'[x] = "counting" <=> submit[x] = "counting"
      PROVE  CountInv'
  BY <1>2 DEF CountInv, DroppedCountBounded
<1>3. ASSUME NEW r \in Records, Send(r) \/ FindFull(r) \/ SendOnClosed(r) PROVE CountInv'
  <2>1. /\ UNCHANGED <<dropped, loaded>> /\ submit[r] = "idle"
        /\ submit' = [submit EXCEPT ![r] = submit'[r]]
        /\ submit'[r] \in {"sent", "full", "panicked"}
        /\ submit \in [Records -> SubmitStates]
    BY <1>3 DEF Send, FindFull, SendOnClosed, counterVars, IInv, TypeOK
  <2>2. \A x \in Records : /\ submit'[x] = "counting" <=> submit[x] = "counting"
                           /\ submit'[x] = "dropped" <=> submit[x] = "dropped"
    BY <2>1
  <2>3. Counted' = Counted
    BY <2>2 DEF Counted
  <2>4. QED BY <1>2, <2>1, <2>2, <2>3
<1>4. CASE Work \/ CloseQueue \/ SeeDone \/ UNCHANGED writerVars
  <2>1. UNCHANGED <<dropped, loaded, submit>>
    BY <1>4 DEF Work, Receive, Tick, SeeClosed, InsertSome, Insert, CloseQueue, SeeDone,
                counterVars, writerVars
  <2>2. QED BY <1>2, <2>1 DEF Counted
<1>5. QED BY <1>1, <1>3, <1>4 DEF Next, Submit

\* total_dropped in the warning of Submit may miss drops that were counted at the
\* same time, but never exceeds them, and is not zero after the first.
THEOREM DroppedCountIsBounded == Spec => []DroppedCountBounded
<1>1. Init => CountInv
  <2> SUFFICES ASSUME Init PROVE CountInv
    OBVIOUS
  <2>1. Counted = {} /\ dropped = 0
    BY DEF Init, Counted
  <2>2. IsFiniteSet(Counted) /\ Cardinality(Counted) = 0
    BY <2>1, FS_EmptySet
  <2>3. QED BY <2>1, <2>2 DEF Init, CountInv, DroppedCountBounded
<1>2. CountInv => DroppedCountBounded
  BY DEF CountInv
<1>3. Spec => []IInv
  BY SpecKeepsIInv
<1>4. IInv /\ CountInv /\ [Next]_writerVars => CountInv'
  BY NextKeepsCountInv
<1>5. QED BY <1>1, <1>2, <1>3, <1>4, PTL DEF Spec

-----------------------------------------------------------------------------
(* The writer implements AuditContract: the substituted variables of the
   contract are the functions Fates, InMemory and Phase of the writer. *)

Fates == [r \in Records |-> Fate(r)]

\* A new writer is a contract with an empty line and records not sent yet.
LEMMA InitRefines == Init => Contract!Init
BY DEF Init, Contract!Init, InMemory, Phase, Fate

\* What a step of Submit does to the fate of the record it is about.
LEMMA FateOfOthers ==
    ASSUME NEW r \in Records, NEW f, UNCHANGED row,
           \A x \in Records : x # r => submit'[x] = submit[x],
           Fate(r)' = f
    PROVE  Fates' = [Fates EXCEPT ![r] = f]
<1>1. \A x \in Records : x # r => Fate(x)' = Fate(x)
  BY DEF Fate
<1>2. QED BY <1>1 DEF Fates

\* A step of Submit accepts, drops or refuses the record, or is invisible.
LEMMA SubmitRefines ==
    ASSUME IInv, NEW r \in Records, Submit(r)
    PROVE  \/ Contract!Accept(r) \/ Contract!Drop(r) \/ Contract!Refuse(r)
           \/ UNCHANGED <<Fates, InMemory, Phase>>
<1> USE DEF IInv
<1>1. /\ submit \in [Records -> SubmitStates] /\ row \in [Records -> RowStates]
      /\ queue \in Seq(Records) /\ batch \in Seq(Records)
      /\ Len(queue) <= QueueCap /\ Len(batch) <= BatchSize
      /\ Len(InMemory) = Len(batch) + Len(queue)
      /\ QueueCap \in Nat /\ BatchSize \in Nat
  BY ConcatProperties, WriterAssumption DEF TypeOK, InMemory
<1>2. UNCHANGED <<batch, worker, drain, row>> /\ UNCHANGED Phase
  BY DEF Submit, Send, FindFull, LoadDropped, StoreDropped, SendOnClosed,
         channelVars, Phase
<1>3. \A x \in Records : x # r => submit'[x] = submit[x]
  BY <1>1 DEF Submit, Send, FindFull, LoadDropped, StoreDropped, SendOnClosed
<1>4. CASE Send(r)
  <2>1. Fate(r) = "unsent" /\ Fate(r)' = "accepted"
    <3>1. row[r] = "none" /\ row'[r] = "none" /\ submit'[r] = "sent"
      BY <1>1, <1>2, <1>4 DEF Send, RowStates
    <3>2. QED BY <1>4, <3>1 DEF Fate, Send
  <2>2. Fates' = [Fates EXCEPT ![r] = "accepted"] /\ Fates[r] = "unsent"
    BY <1>2, <1>3, <2>1, FateOfOthers DEF Fates
  <2>3. InMemory' = Append(InMemory, r)
    BY <1>1, <1>2, <1>4, SendExtends DEF Send, InMemory
  <2>4. Phase = "open" /\ Len(InMemory) < QueueCap + BatchSize
    BY <1>1, <1>4 DEF Send, Closed, Phase
  <2>5. QED BY <1>2, <2>2, <2>3, <2>4 DEF Contract!Accept, Fates
<1>5. CASE FindFull(r)
  <2>1. Fate(r) = "unsent" /\ Fate(r)' = "dropped"
    BY <1>1, <1>5 DEF FindFull, Fate
  <2>2. Fates' = [Fates EXCEPT ![r] = "dropped"] /\ Fates[r] = "unsent"
    BY <1>2, <1>3, <2>1, FateOfOthers DEF Fates
  <2>3. UNCHANGED InMemory
    BY <1>5 DEF FindFull, InMemory, channelVars
  <2>4. Phase = "open" /\ Len(InMemory) >= QueueCap
    BY <1>1, <1>5 DEF FindFull, Closed, Phase
  <2>5. QED BY <1>2, <2>2, <2>3, <2>4 DEF Contract!Drop, Fates
<1>6. CASE LoadDropped(r) \/ StoreDropped(r)
  <2>1. Fate(r)' = Fate(r) /\ Fate(r) = "dropped"
    BY <1>1, <1>6 DEF LoadDropped, StoreDropped, Fate
  <2>2. Fates' = [Fates EXCEPT ![r] = "dropped"] /\ Fates[r] = "dropped"
    BY <1>2, <1>3, <2>1, FateOfOthers DEF Fates
  <2>3. UNCHANGED Fates
    BY <2>2 DEF Fates
  <2>4. UNCHANGED InMemory
    BY <1>6 DEF LoadDropped, StoreDropped, InMemory, channelVars
  <2>5. QED BY <1>2, <2>3, <2>4
<1>7. CASE SendOnClosed(r)
  <2>1. Fate(r) = "unsent" /\ Fate(r)' = "refused"
    BY <1>1, <1>7 DEF SendOnClosed, Fate
  <2>2. Fates' = [Fates EXCEPT ![r] = "refused"] /\ Fates[r] = "unsent"
    BY <1>2, <1>3, <2>1, FateOfOthers DEF Fates
  <2>3. UNCHANGED InMemory /\ Phase # "open"
    BY <1>1, <1>7 DEF SendOnClosed, InMemory, channelVars, Closed, Phase, TypeOK,
                 DrainStates
  <2>4. QED BY <1>2, <2>2, <2>3 DEF Contract!Refuse, Fates
<1>8. QED BY <1>4, <1>5, <1>6, <1>7 DEF Submit

\* An insert settles the oldest waiting record of the contract.
LEMMA InsertRefines ==
    ASSUME IInv, NEW outcome \in {"stored", "failed"}, Insert(outcome)
    PROVE  Contract!Settle(outcome)
<1> USE DEF IInv
<1>1. /\ submit \in [Records -> SubmitStates] /\ row \in [Records -> RowStates]
      /\ queue \in Seq(Records) /\ batch \in Seq(Records) /\ batch # <<>>
      /\ UNCHANGED <<queue, drain, submit>>
      /\ batch' = Tail(batch) /\ row' = [row EXCEPT ![Head(batch)] = outcome]
  BY DEF TypeOK, Insert
<1>2. PICK h \in Records : h = Head(batch)
  BY <1>1, HeadTailProperties
<1>3. InMemory # <<>> /\ Head(InMemory) = h
      /\ InMemory' = Tail(InMemory) /\ InMemory \in Seq(Records)
  BY <1>1, <1>2, InsertShortens, ConcatProperties DEF InMemory
<1>4. submit[h] = "sent" /\ row[h] = "none"
  BY <1>2, <1>3, LeaveDistinct, HeldOnce
<1>5. submit'[h] = "sent" /\ row'[h] = outcome
  BY <1>1, <1>2, <1>4
<1>6. Fate(h) = "accepted" /\ Fate(h)' = outcome
  BY <1>4, <1>5 DEF Fate
<1>7. \A x \in Records : x # h => Fate(x)' = Fate(x)
  BY <1>1, <1>2 DEF Fate
<1>8. Fates' = [Fates EXCEPT ![h] = outcome] /\ Fates[h] = "accepted"
  BY <1>2, <1>6, <1>7 DEF Fates
<1>9. UNCHANGED Phase
  BY <1>1 DEF Phase
<1>10. QED BY <1>3, <1>8, <1>9 DEF Contract!Settle, Fates

\* Every step of the writer is a step of the contract or leaves it alone.
LEMMA NextRefines ==
    IInv /\ [Next]_writerVars => [Contract!Next]_(Contract!contractVars)
<1> SUFFICES ASSUME IInv, [Next]_writerVars
             PROVE  Contract!Next \/ UNCHANGED <<Fates, InMemory, Phase>>
  BY DEF Contract!contractVars, Fates
<1>1. ASSUME NEW r \in Records, Submit(r)
      PROVE  Contract!Next \/ UNCHANGED <<Fates, InMemory, Phase>>
  BY <1>1, SubmitRefines DEF Contract!Next
<1>2. ASSUME NEW outcome \in {"stored", "failed"}, Insert(outcome)
      PROVE  Contract!Next
  BY <1>2, InsertRefines DEF Contract!Next
<1>3. CASE Receive
  <2>1. UNCHANGED InMemory
    BY <1>3, ReceiveKeeps DEF Receive, InMemory, IInv, TypeOK
  <2>2. UNCHANGED Fates /\ UNCHANGED Phase
    BY <1>3 DEF Receive, Fates, Fate, Phase
  <2>3. QED BY <2>1, <2>2
<1>4. CASE Tick \/ SeeClosed \/ UNCHANGED writerVars
  <2>1. UNCHANGED <<queue, batch, drain, submit, row>>
    BY <1>4 DEF Tick, SeeClosed, writerVars
  <2>2. QED BY <2>1 DEF Fates, Fate, Phase, InMemory
<1>5. CASE CloseQueue
  <2>1. Phase = "open" /\ Phase' = "closing"
    BY <1>5 DEF CloseQueue, Phase
  <2>2. UNCHANGED <<Fates, InMemory>>
    BY <1>5 DEF CloseQueue, Fates, Fate, InMemory
  <2>3. QED BY <2>1, <2>2 DEF Contract!Next, Contract!Close, Fates
<1>6. CASE SeeDone
  <2>1. Phase = "closing" /\ Phase' = "drained"
    BY <1>6 DEF SeeDone, Phase
  <2>2. UNCHANGED <<Fates, InMemory>> /\ InMemory = <<>>
    BY <1>6 DEF SeeDone, Fates, Fate, InMemory, IInv
  <2>3. QED BY <2>1, <2>2 DEF Contract!Next, Contract!Drained, Fates
<1>7. QED
  BY <1>1, <1>2, <1>3, <1>4, <1>5, <1>6 DEF Next, Work, InsertSome

\* Every behaviour of the writer is one of AuditContract: channel, batch and
\* worker are one first-in first-out line whose records are settled in order and
\* once, and Submit turns a record away only behind QueueCap others.
THEOREM WriterImplementsContract == Spec => ImplementsContract
<1>1. Spec => []IInv
  BY SpecKeepsIInv
<1>2. QED
  BY <1>1, InitRefines, NextRefines, PTL DEF Spec, ImplementsContract, Contract!Spec
=============================================================================
