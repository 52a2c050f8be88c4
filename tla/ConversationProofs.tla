------------------------- MODULE ConversationProofs -------------------------
(***************************************************************************)
(* Proofs about ResponsesTranslator and Conversation, for any pieces, call *)
(* ids, indexes and bounds.                                                *)
(***************************************************************************)
EXTENDS Conversation, FoldLemmas

-----------------------------------------------------------------------------
(* The arrays of append. *)

\* The sizes go up from one, and never down.
LEMMA CapacityIs ==
    ASSUME NEW n \in Nat
    PROVE  \E array : /\ array \in [0..n -> Nat \ {0}]
                      /\ array[0] = 1
                      /\ \A k \in 1..n :
                            array[k] = IF k <= array[k - 1] THEN array[k - 1] ELSE 2 * array[k - 1]
                      /\ Capacity(n) = array[n]
<1> DEFINE S == Nat \ {0}
           step == [k \in 1..n |-> [c \in S |-> IF k <= c THEN c ELSE 2 * c]]
<1>1. 1 \in S /\ \A k \in 1..n : \A c \in S : (IF k <= c THEN c ELSE 2 * c) \in S
  OBVIOUS
<1>2. step \in [1..n -> [S -> S]]
  <2> HIDE DEF S
  <2>1. QED BY <1>1
<1>3. PICK f : f \in [0..n -> S] /\ IsRecursion(f, n, 1, step)
  <2> HIDE DEF S, step
  <2>1. QED BY <1>1, <1>2, RecursionExists
<1>4. \A k \in 0..n : k # 0 => k \in 1..n /\ k - 1 \in 0..n
  OBVIOUS
<1>5. \A k \in 1..n : step[k][f[k - 1]] = IF k <= f[k - 1] THEN f[k - 1] ELSE 2 * f[k - 1]
  <2>1. \A k \in 1..n : k - 1 \in 0..n
    OBVIOUS
  <2> HIDE DEF S
  <2>2. QED BY <1>3, <2>1
<1> HIDE DEF step
<1>6. f = [k \in 0..n |-> IF k = 0 THEN 1
                          ELSE IF k <= f[k - 1] THEN f[k - 1] ELSE 2 * f[k - 1]]
  BY <1>3, <1>4, <1>5 DEF IsRecursion
<1>7. PICK z : /\ z = [k \in 0..n |-> IF k = 0 THEN 1
                                      ELSE IF k <= z[k - 1] THEN z[k - 1] ELSE 2 * z[k - 1]]
               /\ Capacity(n) = z[n]
  <2> HIDE DEF S
  <2>1. QED BY <1>6 DEF Capacity
<1>8. /\ z[0] = 1
      /\ \A k \in 1..n : z[k] = IF k <= z[k - 1] THEN z[k - 1] ELSE 2 * z[k - 1]
  <2>1. 0 \in 0..n /\ \A k \in 1..n : k \in 0..n /\ k # 0
    OBVIOUS
  <2>2. QED BY <1>7, <2>1
<1> DEFINE P == {k \in Nat : k <= n => z[k] \in S}
<1>9. 0 \in P
  BY <1>8
<1>10. ASSUME NEW k \in Nat, k \in P PROVE k + 1 \in P
  <2>1. SUFFICES ASSUME k + 1 <= n PROVE z[k + 1] \in S
    OBVIOUS
  <2>2. k + 1 \in 1..n /\ (k + 1) - 1 = k /\ z[k] \in S
    BY <1>10, <2>1
  <2>3. z[k + 1] = IF k + 1 <= z[k] THEN z[k] ELSE 2 * z[k]
    <3> HIDE DEF P, S
    <3>1. QED BY <1>8, <2>2
  <2>4. QED BY <1>1, <2>2, <2>3
<1>11. \A k \in 0..n : z[k] \in S
  <2>1. \A k \in 0..n : k \in Nat /\ k <= n
    OBVIOUS
  <2> HIDE DEF P
  <2>2. Nat \subseteq P
    BY <1>9, <1>10, Induction
  <2>3. QED BY <2>1, <2>2 DEF P
<1>12. z \in [0..n -> S]
  <2>1. z = [k \in 0..n |-> z[k]]
    BY <1>7
  <2> HIDE DEF S
  <2>2. QED BY <1>11, <2>1
<1>13. QED BY <1>7, <1>8, <1>12

\* Up to a size they are the same for a larger one.
LEMMA CapacityGrows ==
    ASSUME NEW m \in Nat, NEW n \in Nat, m <= n
    PROVE  Capacity(m) \in Nat /\ Capacity(m) >= 1 /\ Capacity(m) <= Capacity(n)
<1>1. PICK f : /\ f \in [0..m -> Nat \ {0}] /\ f[0] = 1
               /\ \A k \in 1..m : f[k] = IF k <= f[k - 1] THEN f[k - 1] ELSE 2 * f[k - 1]
               /\ Capacity(m) = f[m]
  BY CapacityIs
<1>2. PICK g : /\ g \in [0..n -> Nat \ {0}] /\ g[0] = 1
               /\ \A k \in 1..n : g[k] = IF k <= g[k - 1] THEN g[k - 1] ELSE 2 * g[k - 1]
               /\ Capacity(n) = g[n]
  BY CapacityIs
<1> DEFINE P == {k \in Nat : k <= n => (IF k <= m THEN g[k] = f[k] ELSE g[k] >= f[m])}
<1>3. f[m] \in Nat \ {0} /\ \A k \in 0..n : g[k] \in Nat \ {0}
  BY <1>1, <1>2
<1>4. 0 \in P
  BY <1>1, <1>2
<1>5. ASSUME NEW k \in Nat, k \in P PROVE k + 1 \in P
  <2>1. SUFFICES ASSUME k + 1 <= n
                 PROVE  IF k + 1 <= m THEN g[k + 1] = f[k + 1] ELSE g[k + 1] >= f[m]
    OBVIOUS
  <2>2. k + 1 \in 1..n /\ (k + 1) - 1 = k /\ k \in 0..n
    BY <2>1
  <2>3. g[k + 1] = (IF k + 1 <= g[k] THEN g[k] ELSE 2 * g[k]) /\ g[k] \in Nat \ {0}
    BY <1>2, <1>3, <2>2
  <2>4. IF k <= m THEN g[k] = f[k] ELSE g[k] >= f[m]
    BY <1>5, <2>2
  <2>5. CASE k + 1 <= m
    <3>1. k + 1 \in 1..m /\ k <= m
      BY <2>5
    <3>2. f[k + 1] = IF k + 1 <= f[k] THEN f[k] ELSE 2 * f[k]
      BY <1>1, <2>2, <3>1
    <3>3. QED BY <2>3, <2>4, <2>5, <3>1, <3>2
  <2>6. CASE ~(k + 1 <= m)
    <3>1. g[k] >= f[m]
      <4>1. CASE k = m
        BY <1>3, <2>4, <4>1
      <4>2. CASE k # m
        BY <2>4, <2>6, <4>2
      <4>3. QED BY <4>1, <4>2
    <3>2. QED BY <1>3, <2>3, <2>6, <3>1
  <2>7. QED BY <2>5, <2>6
<1>6. n \in P
  <2> HIDE DEF P
  <2>1. Nat \subseteq P
    BY <1>4, <1>5, Induction
  <2>2. QED BY <2>1
<1>7. g[n] >= f[m]
  BY <1>3, <1>6
<1>8. g[n] \in Nat
  BY <1>3
<1>9. QED BY <1>1, <1>2, <1>3, <1>7, <1>8

-----------------------------------------------------------------------------
(* Events. *)

ItemIds == {Message} \cup {<<"fc", i>> : i \in Nat} \cup {<<"call", c>> : c \in CallIds}
Done    == {"textDone", "argsDone", "itemDone"}
Kinds   == {"created", "added", "part", "delta"} \cup Done
Shown   == [type : Kinds, index : Nat, id : ItemIds, call : CallIds, data : Seq(Pieces)]
Completed == [type : {"completed"}, output : Seq(Shown), usage : 0..2]
Outs    == Shown \cup Completed

Of(index) == {e \in Shown : e.index = index}
DeltaOf(index, call) == {e \in Shown : e.type = "delta" /\ e.index = index /\ e.call = call}

DataOf(events) == FlattenSeq([i \in DOMAIN events |-> events[i].data])

\* What a client that adds up the deltas of an item has received of it.
Received(events, index, call) == DataOf(Only(events, DeltaOf(index, call)))

\* The events of the message.
LEMMA EventTyped ==
    ASSUME NEW kind \in Kinds, NEW data \in Seq(Pieces)
    PROVE  LET e == Event(kind, 0, Message, data)
           IN  e \in Shown /\ e.type = kind /\ e.index = 0 /\ e.call = "" /\ e.data = data
<1>1. "" \in CallIds /\ Message \in ItemIds
  BY TranslatorAssumption DEF ItemIds
<1>2. QED BY <1>1 DEF Event, Shown

\* The events of a call.
LEMMA CallEventTyped ==
    ASSUME NEW kind \in Kinds, NEW idx \in Nat, NEW call \in CallIds, NEW data \in Seq(Pieces),
           NEW id, id = Fc(idx) \/ id = <<"call", call>>
    PROVE  LET e == CallEvent(kind, idx, id, call, data)
           IN  e \in Shown /\ e.type = kind /\ e.index = idx + 1 /\ e.call = call /\ e.data = data
<1>1. id \in ItemIds
  BY DEF ItemIds, Fc
<1>2. 1 + idx \in Nat /\ 1 + idx = idx + 1
  OBVIOUS
<1>3. QED BY <1>1, <1>2 DEF CallEvent, Shown

\* An event that is not response.completed is one of an item.
LEMMA OutsAre ==
    \A e \in Outs : /\ e \in Shown <=> e.type # "completed"
                    /\ e.type \in Kinds \/ e.type = "completed"
BY DEF Outs, Shown, Completed, Kinds, Done

\* The data of one more event come after those of the others.
LEMMA DataAppend ==
    ASSUME NEW events \in Seq(Shown), NEW e \in Shown
    PROVE  /\ DataOf(Append(events, e)) = DataOf(events) \o e.data
           /\ DataOf(events) \in Seq(Pieces) /\ e.data \in Seq(Pieces)
<1>1. PICK datas : datas = [i \in DOMAIN events |-> events[i].data]
  OBVIOUS
<1>2. PICK more : more = Append(events, e)
  OBVIOUS
<1>3. /\ Len(events) \in Nat /\ DOMAIN events = 1..Len(events)
      /\ \A i \in 1..Len(events) : events[i] \in Shown
  BY LenProperties, ElementOfSeq
<1>4. /\ more \in Seq(Shown) /\ Len(more) = Len(events) + 1 /\ DOMAIN more = 1..(Len(events) + 1)
      /\ more[Len(events) + 1] = e /\ \A i \in 1..Len(events) : more[i] = events[i]
  BY <1>2, AppendProperties, LenProperties
<1>5. \A f \in Shown : f.data \in Seq(Pieces)
  BY DEF Shown
<1>6. datas \in Seq(Seq(Pieces)) /\ Len(datas) = Len(events)
  BY <1>1, <1>3, <1>5
<1>7. [i \in DOMAIN more |-> more[i].data] = Append(datas, e.data)
  <2>1. PICK all : all = [i \in DOMAIN more |-> more[i].data]
    OBVIOUS
  <2>2. \A i \in 1..(Len(events) + 1) : more[i] \in Shown
    BY <1>4, ElementOfSeq
  <2>3. all \in Seq(Seq(Pieces)) /\ Len(all) = Len(events) + 1
    BY <1>3, <1>4, <1>5, <2>1, <2>2
  <2>4. PICK grown : grown = Append(datas, e.data)
    OBVIOUS
  <2>5. /\ grown \in Seq(Seq(Pieces)) /\ Len(grown) = Len(events) + 1
        /\ grown[Len(events) + 1] = e.data
        /\ \A i \in 1..Len(events) : grown[i] = datas[i]
    BY <1>5, <1>6, <2>4, AppendProperties
  <2>6. ASSUME NEW i \in 1..Len(all) PROVE all[i] = grown[i]
    <3>1. CASE i = Len(events) + 1
      BY <1>3, <1>4, <2>1, <2>5, <3>1
    <3>2. CASE i # Len(events) + 1
      <4>1. i \in 1..Len(events)
        BY <1>3, <2>3, <3>2
      <4>2. QED BY <1>1, <1>3, <1>4, <2>1, <2>3, <2>5, <4>1
    <3>3. QED BY <3>1, <3>2
  <2>7. all = grown
    BY <2>3, <2>5, <2>6, SeqEqual
  <2>8. QED BY <2>1, <2>4, <2>7
<1>8. FlattenSeq(Append(datas, e.data)) = FlattenSeq(datas) \o e.data
  BY <1>5, <1>6, FlattenAppend
<1>9. FlattenSeq(datas) \in Seq(Pieces)
  BY <1>6, FlattenTyped
<1>10. QED BY <1>1, <1>2, <1>5, <1>7, <1>8, <1>9 DEF DataOf

\* No events have no data.
LEMMA NoData == DataOf(<<>>) = <<>>
<1>1. PICK none \in Seq(Seq(Pieces)) : none = <<>>
  <2>1. <<>> \in Seq(Seq(Pieces))
    BY EmptySeq
  <2>2. QED BY <2>1
<1>2. [i \in DOMAIN <<>> |-> <<>>[i].data] = <<>>
  OBVIOUS
<1>3. FlattenSeq(none) = <<>>
  BY <1>1, FlattenTyped
<1>4. QED BY <1>1, <1>2, <1>3 DEF DataOf

\* One more event is received with the others of its item, and nowhere else.
LEMMA Told ==
    ASSUME NEW events \in Seq(Outs), NEW e \in Shown
    PROVE  /\ Append(events, e) \in Seq(Outs)
           /\ \A index : Only(Append(events, e), Of(index)) =
                            IF e.index = index THEN Append(Only(events, Of(index)), e)
                            ELSE Only(events, Of(index))
           /\ \A index, call : Received(Append(events, e), index, call) =
                 IF e.type = "delta" /\ e.index = index /\ e.call = call
                 THEN Received(events, index, call) \o e.data
                 ELSE Received(events, index, call)
<1>1. e \in Outs
  BY DEF Outs
<1>2. Append(events, e) \in Seq(Outs)
  BY <1>1, AppendProperties
<1>3. ASSUME NEW U
      PROVE  Only(Append(events, e), U) = IF e \in U THEN Append(Only(events, U), e)
                                          ELSE Only(events, U)
  BY <1>1, OnlyAppend
<1>4. ASSUME NEW index
      PROVE  Only(Append(events, e), Of(index)) =
                IF e.index = index THEN Append(Only(events, Of(index)), e)
                ELSE Only(events, Of(index))
  <2>1. e \in Of(index) <=> e.index = index
    BY DEF Of
  <2>2. QED BY <1>3, <2>1
<1>5. ASSUME NEW index, NEW call
      PROVE  Received(Append(events, e), index, call) =
                 IF e.type = "delta" /\ e.index = index /\ e.call = call
                 THEN Received(events, index, call) \o e.data
                 ELSE Received(events, index, call)
  <2>1. PICK deltas : deltas = DeltaOf(index, call)
    OBVIOUS
  <2>2. e \in deltas <=> e.type = "delta" /\ e.index = index /\ e.call = call
    BY <2>1 DEF DeltaOf
  <2>3. Only(events, deltas) \in Seq(Shown)
    <3>1. Only(events, deltas) \in Seq(deltas) /\ deltas \subseteq Shown
      BY <2>1, OnlyTyped DEF DeltaOf
    <3>2. QED BY <3>1, SeqMonotonic
  <2>4. DataOf(Append(Only(events, deltas), e)) = DataOf(Only(events, deltas)) \o e.data
    BY <2>3, DataAppend
  <2>5. QED BY <1>3, <2>1, <2>2, <2>4 DEF Received
<1>6. QED BY <1>2, <1>4, <1>5

\* Events that are no deltas of an item add nothing to it.
LEMMA NothingReceived ==
    ASSUME NEW events \in Seq(Outs), NEW more \in Seq(Outs), NEW index, NEW call,
           \A i \in 1..Len(more) : more[i].type # "delta"
    PROVE  Received(events \o more, index, call) = Received(events, index, call)
<1>1. PICK deltas : deltas = DeltaOf(index, call)
  OBVIOUS
<1>2. Only(events \o more, deltas) = Only(events, deltas) \o Only(more, deltas)
  BY OnlyConcat
<1>3. Only(more, deltas) = <<>>
  <2>1. \A i \in 1..Len(more) : more[i] \notin deltas
    BY <1>1 DEF DeltaOf
  <2>2. QED BY <2>1, OnlyTyped
<1>4. Only(events, deltas) \o <<>> = Only(events, deltas)
  <2>1. Only(events, deltas) \in Seq(Outs)
    BY OnlyTyped
  <2>2. QED BY <2>1, ConcatEmptySeq
<1>5. QED BY <1>1, <1>2, <1>3, <1>4 DEF Received

\* What is received is a sequence of pieces, and nothing of no events.
LEMMA ReceivedTyped ==
    ASSUME NEW events \in Seq(Outs), NEW index, NEW call
    PROVE  /\ Received(events, index, call) \in Seq(Pieces)
           /\ (\A i \in 1..Len(events) : events[i].type # "delta" \/ events[i].index # index)
                 => Received(events, index, call) = <<>>
<1>1. PICK deltas : deltas = DeltaOf(index, call)
  OBVIOUS
<1>2. Only(events, deltas) \in Seq(Shown)
  <2>1. Only(events, deltas) \in Seq(deltas) /\ deltas \subseteq Shown
    BY <1>1, OnlyTyped DEF DeltaOf
  <2>2. QED BY <2>1, SeqMonotonic
<1>3. DataOf(Only(events, deltas)) \in Seq(Pieces)
  <2>1. PICK es \in Seq(Shown) : es = Only(events, deltas)
    BY <1>2
  <2>2. CASE es = <<>>
    BY <2>1, <2>2, NoData, EmptySeq
  <2>3. CASE es # <<>>
    <3>1. Len(es) \in Nat \ {0}
      BY <2>3, EmptySeq
    <3>2. es[1] \in Shown
      BY <3>1, ElementOfSeq
    <3>3. QED BY <2>1, <3>2, DataAppend
  <2>4. QED BY <2>2, <2>3
<1>4. ASSUME \A i \in 1..Len(events) : events[i].type # "delta" \/ events[i].index # index
      PROVE  Received(events, index, call) = <<>>
  <2>1. \A i \in 1..Len(events) : events[i] \notin deltas
    BY <1>1, <1>4 DEF DeltaOf
  <2>2. Only(events, deltas) = <<>>
    BY <2>1, OnlyTyped
  <2>3. QED BY <1>1, <2>2, NoData DEF Received
<1>5. QED BY <1>1, <1>3, <1>4 DEF Received

\* The properties speak of what is received of the events written so far.
LEMMA StreamedIs ==
    ASSUME out \in Seq(Outs)
    PROVE  /\ \A index : Events(index) = Only(out, Of(index))
           /\ \A index, call : Streamed(index, call) = Received(out, index, call)
<1>1. /\ DOMAIN out = 1..Len(out)
      /\ \A i \in DOMAIN out : out[i] \in Outs
  BY LenProperties, ElementOfSeq
<1>2. ASSUME NEW index PROVE Events(index) = Only(out, Of(index))
  <2>1. \A i \in DOMAIN out : out[i] \in Of(index) <=> out[i].type # "completed" /\ out[i].index = index
    BY <1>1, OutsAre DEF Of
  <2>2. {i \in DOMAIN out : out[i].type # "completed" /\ out[i].index = index}
           = {i \in DOMAIN out : out[i] \in Of(index)}
    BY <2>1
  <2>3. QED BY <2>2 DEF Events, Only
<1>3. ASSUME NEW index, NEW call PROVE Streamed(index, call) = Received(out, index, call)
  <2>1. \A i \in DOMAIN out : out[i] \in DeltaOf(index, call) <=>
           /\ out[i].type = "delta"
           /\ out[i].index = index
           /\ out[i].call = call
    BY <1>1, OutsAre DEF DeltaOf
  <2>2. {i \in DOMAIN out : /\ out[i].type = "delta"
                            /\ out[i].index = index
                            /\ out[i].call = call}
           = {i \in DOMAIN out : out[i] \in DeltaOf(index, call)}
    BY <2>1
  <2>3. QED BY <2>2 DEF Streamed, Received, DataOf, Only
<1>4. QED BY <1>2, <1>3

-----------------------------------------------------------------------------
(* The inductive invariant. *)

Calls == [name : Names, callID : CallIds, args : Seq(Pieces), owner : Nat]

Typed ==
    /\ upstream \in Upstreams
    /\ received \in 0..MaxPieces[upstream]
    /\ content \in Seq(Pieces)
    /\ reasoning \in BOOLEAN
    /\ usage \in 0..2
    /\ toolCalls \in Seq(Calls)
    /\ \A i \in 1..Len(toolCalls) : toolCalls[i].owner <= Capacity(Len(toolCalls))
    /\ out \in Seq(Outs)
    /\ ended \in {"no", "eof", "broken"}
    /\ state \in {"start", "scan", "blocked", "completing", "completed", "submitted", "panicked"}

\* Before the stream begins nothing has been read.
NothingYet == state = "start" => content = <<>> /\ toolCalls = <<>>

\* The text is sent as it is read.
TextSent == Received(out, 0, "") = content

\* The events of one call: added, then deltas, and at the end both done events.
Lifecycle(events, done) ==
    LET n == Len(events) - IF done THEN 2 ELSE 0
    IN  /\ n >= 1
        /\ events[1].type = "added"
        /\ \A k \in 2..n : events[k].type = "delta"
        /\ done => events[n + 1].type = "argsDone" /\ events[n + 2].type = "itemDone"

\* The deltas of each call, under its index, add up to its arguments, and no
\* event is of a call still to come.
CallsTold(events, calls, done) ==
    /\ \A i \in 1..Len(calls) :
          /\ Received(events, i, calls[i].callID) = calls[i].args
          /\ Lifecycle(Only(events, Of(i)), done)
    /\ \A j \in 1..Len(events) : events[j] \in Shown => events[j].index <= Len(calls)

\* A done event tells what was read of the message or of a call.
Tells(e) ==
    \/ e.index = 0 /\ e.call = "" /\ e.data = content
    \/ /\ e.index \in 1..Len(toolCalls)
       /\ e.call = toolCalls[e.index].callID
       /\ e.data = toolCalls[e.index].args

DoneTold == \A j \in 1..Len(out) : out[j].type \in Done => Finished /\ Tells(out[j])

\* The stream ends with response.completed, and then with the record.
Accounted ==
    /\ Finished => /\ Len(out) > 0
                   /\ Last(out) = [type |-> "completed", output |-> Output, usage |-> usage]
    /\ state = "submitted" => /\ audit.body = content
                              /\ audit.usage = usage
                              /\ audit.error <=> ended = "broken"

IInv ==
    /\ Typed
    /\ NothingYet
    /\ TextSent
    /\ upstream # "sloppy" => CallsTold(out, toolCalls, Finished)
    /\ DoneTold
    /\ Accounted

-----------------------------------------------------------------------------
(* The life of a call. *)

\* It begins with the announcement, goes on with deltas, and ends once.
LEMMA LifecycleSteps ==
    ASSUME NEW events \in Seq(Shown), NEW e \in Shown
    PROVE  /\ e.type = "added" => Lifecycle(Append(<<>>, e), FALSE)
           /\ e.type = "delta" /\ Lifecycle(events, FALSE) => Lifecycle(Append(events, e), FALSE)
           /\ \A last \in Shown :
                 e.type = "argsDone" /\ last.type = "itemDone" /\ Lifecycle(events, FALSE)
                    => Lifecycle(Append(Append(events, e), last), TRUE)
<1>1. Len(events) \in Nat
  OBVIOUS
<1>2. PICK n \in Nat : n = Len(events)
  BY <1>1
<1>3. PICK more : more = Append(events, e)
  OBVIOUS
<1>4. /\ more \in Seq(Shown) /\ Len(more) = n + 1 /\ more[n + 1] = e
      /\ \A i \in 1..n : more[i] = events[i]
  BY <1>2, <1>3, AppendProperties
<1>5. e.type = "added" => Lifecycle(Append(<<>>, e), FALSE)
  <2>1. PICK one : one = Append(<<>>, e)
    OBVIOUS
  <2>2. Len(one) = 1 /\ one[1] = e
    BY <2>1
  <2>3. QED BY <2>1, <2>2 DEF Lifecycle
<1>6. ASSUME e.type = "delta", Lifecycle(events, FALSE) PROVE Lifecycle(more, FALSE)
  <2>1. n >= 1 /\ events[1].type = "added" /\ \A k \in 2..n : events[k].type = "delta"
    BY <1>2, <1>6 DEF Lifecycle
  <2>2. more[1].type = "added"
    BY <1>4, <2>1
  <2>3. ASSUME NEW k \in 2..(n + 1) PROVE more[k].type = "delta"
    <3>1. CASE k = n + 1
      BY <1>4, <1>6, <3>1
    <3>2. CASE k # n + 1
      <4>1. k \in 2..n /\ k \in 1..n
        BY <1>2, <3>2
      <4>2. QED BY <1>4, <2>1, <4>1
    <3>3. QED BY <3>1, <3>2
  <2>4. QED BY <1>4, <2>1, <2>2, <2>3 DEF Lifecycle
<1>7. ASSUME NEW last \in Shown, e.type = "argsDone", last.type = "itemDone",
             Lifecycle(events, FALSE)
      PROVE  Lifecycle(Append(more, last), TRUE)
  <2>1. n >= 1 /\ events[1].type = "added" /\ \A k \in 2..n : events[k].type = "delta"
    BY <1>2, <1>7 DEF Lifecycle
  <2>2. PICK all : all = Append(more, last)
    OBVIOUS
  <2>3. /\ Len(all) = n + 2 /\ all[n + 2] = last
        /\ \A i \in 1..(n + 1) : all[i] = more[i]
    <3>1. /\ Len(all) = Len(more) + 1 /\ all[Len(more) + 1] = last
          /\ \A i \in 1..Len(more) : all[i] = more[i]
      BY <1>4, <2>2, AppendProperties
    <3>2. QED BY <1>4, <3>1
  <2>4. all[1].type = "added" /\ \A k \in 2..n : all[k].type = "delta"
    BY <1>4, <2>1, <2>3
  <2>5. all[n + 1].type = "argsDone" /\ all[n + 2].type = "itemDone"
    BY <1>4, <1>7, <2>3
  <2>6. (n + 2) - 2 = n
    OBVIOUS
  <2>7. QED BY <2>1, <2>2, <2>3, <2>4, <2>5, <2>6 DEF Lifecycle
<1>8. QED BY <1>3, <1>5, <1>6, <1>7

\* No events are of an index that no event has.
LEMMA NothingOf ==
    ASSUME NEW events \in Seq(Outs), NEW index,
           \A j \in 1..Len(events) : events[j] \in Shown => events[j].index # index
    PROVE  /\ Only(events, Of(index)) = <<>>
           /\ \A call : Received(events, index, call) = <<>>
<1>1. \A j \in 1..Len(events) : events[j] \in Outs
  BY ElementOfSeq
<1>2. \A j \in 1..Len(events) : events[j] \notin Of(index)
  BY DEF Of
<1>3. Only(events, Of(index)) = <<>>
  BY <1>2, OnlyTyped
<1>4. \A j \in 1..Len(events) : events[j].type # "delta" \/ events[j].index # index
  BY <1>1, OutsAre
<1>5. QED BY <1>3, <1>4, ReceivedTyped

\* A call that is announced has told what it has, nothing.
LEMMA CallBegins ==
    ASSUME NEW events \in Seq(Outs), NEW calls \in Seq(Calls), NEW after \in Seq(Calls),
           NEW e \in Shown, CallsTold(events, calls, FALSE),
           Len(after) = Len(calls) + 1, \A i \in 1..Len(calls) : after[i] = calls[i],
           after[Len(calls) + 1].args = <<>>,
           e.type = "added", e.index = Len(calls) + 1
    PROVE  CallsTold(Append(events, e), after, FALSE)
<1>1. PICK n \in Nat : n = Len(calls)
  OBVIOUS
<1>2. PICK more : more = Append(events, e)
  OBVIOUS
<1>3. /\ \A i \in 1..n : /\ Received(events, i, calls[i].callID) = calls[i].args
                         /\ Lifecycle(Only(events, Of(i)), FALSE)
      /\ \A j \in 1..Len(events) : events[j] \in Shown => events[j].index <= n
  BY <1>1 DEF CallsTold
<1>4. /\ \A index : Only(more, Of(index)) = IF e.index = index THEN Append(Only(events, Of(index)), e)
                                            ELSE Only(events, Of(index))
      /\ \A index, call : Received(more, index, call) = Received(events, index, call)
  BY <1>2, Told
<1>5. ASSUME NEW i \in 1..n
      PROVE  Received(more, i, after[i].callID) = after[i].args /\ Lifecycle(Only(more, Of(i)), FALSE)
  <2>1. e.index # i /\ after[i] = calls[i]
    BY <1>1
  <2>2. Only(more, Of(i)) = Only(events, Of(i))
    BY <1>4, <2>1
  <2>3. Received(more, i, calls[i].callID) = Received(events, i, calls[i].callID)
    BY <1>4
  <2>4. /\ Received(events, i, calls[i].callID) = calls[i].args
        /\ Lifecycle(Only(events, Of(i)), FALSE)
    BY <1>3
  <2>5. Received(more, i, calls[i].callID) = calls[i].args
    BY <2>3, <2>4
  <2>6. Lifecycle(Only(more, Of(i)), FALSE)
    BY <2>2, <2>4
  <2>7. QED BY <2>1, <2>5, <2>6
<1>6. Only(events, Of(n + 1)) = <<>> /\ \A call : Received(events, n + 1, call) = <<>>
  <2>1. ASSUME NEW j \in 1..Len(events), events[j] \in Shown PROVE events[j].index # n + 1
    <3>1. events[j].index <= n
      BY <1>3, <2>1
    <3>2. QED BY <3>1
  <2>2. QED BY <2>1, NothingOf
<1>7. Received(more, n + 1, after[n + 1].callID) = after[n + 1].args
  BY <1>1, <1>4, <1>6
<1>8. Lifecycle(Only(more, Of(n + 1)), FALSE)
  <2>1. PICK none \in Seq(Shown) : none = <<>>
    BY EmptySeq
  <2>2. Lifecycle(Append(<<>>, e), FALSE)
    BY <2>1, LifecycleSteps
  <2>3. QED BY <1>1, <1>4, <1>6, <2>2
<1>9. ASSUME NEW j \in 1..Len(more), more[j] \in Shown PROVE more[j].index <= n + 1
  <2>1. PICK m \in Nat : m = Len(events)
    OBVIOUS
  <2>2. e \in Outs
    BY DEF Outs
  <2>3. Len(more) = m + 1 /\ more[m + 1] = e /\ \A k \in 1..m : more[k] = events[k]
    BY <1>2, <2>1, <2>2, AppendProperties
  <2>4. CASE j = m + 1
    BY <1>1, <2>3, <2>4
  <2>5. CASE j # m + 1
    <3>1. j \in 1..m
      BY <2>3, <2>5
    <3>2. more[j] = events[j] /\ events[j].index <= n
      BY <1>3, <1>9, <2>1, <2>3, <3>1
    <3>3. events[j].index \in Nat
      BY <1>9, <3>2 DEF Shown
    <3>4. QED BY <3>2, <3>3
  <2>6. QED BY <2>4, <2>5
<1>10. \A i \in 1..Len(after) : i \in 1..n \/ i = n + 1
  BY <1>1
<1>11. QED BY <1>1, <1>2, <1>5, <1>7, <1>8, <1>9, <1>10 DEF CallsTold

\* A call that is told one piece more has it.
LEMMA CallContinues ==
    ASSUME NEW events \in Seq(Outs), NEW calls \in Seq(Calls), NEW after \in Seq(Calls),
           NEW e \in Shown, CallsTold(events, calls, FALSE),
           NEW k \in 1..Len(calls), Len(after) = Len(calls),
           \A i \in 1..Len(calls) : i # k => after[i] = calls[i],
           after[k].callID = calls[k].callID, after[k].args = calls[k].args \o e.data,
           e.type = "delta", e.index = k, e.call = calls[k].callID
    PROVE  CallsTold(Append(events, e), after, FALSE)
<1>1. PICK n \in Nat : n = Len(calls)
  OBVIOUS
<1>2. PICK more : more = Append(events, e)
  OBVIOUS
<1>3. /\ \A i \in 1..n : /\ Received(events, i, calls[i].callID) = calls[i].args
                         /\ Lifecycle(Only(events, Of(i)), FALSE)
      /\ \A j \in 1..Len(events) : events[j] \in Shown => events[j].index <= n
  BY <1>1 DEF CallsTold
<1>4. /\ \A index : Only(more, Of(index)) = IF e.index = index THEN Append(Only(events, Of(index)), e)
                                            ELSE Only(events, Of(index))
      /\ \A index, call : Received(more, index, call) =
            IF e.type = "delta" /\ e.index = index /\ e.call = call
            THEN Received(events, index, call) \o e.data
            ELSE Received(events, index, call)
  <2>1. /\ \A index : Only(Append(events, e), Of(index)) =
                         IF e.index = index THEN Append(Only(events, Of(index)), e)
                         ELSE Only(events, Of(index))
        /\ \A index, call : Received(Append(events, e), index, call) =
              IF e.type = "delta" /\ e.index = index /\ e.call = call
              THEN Received(events, index, call) \o e.data
              ELSE Received(events, index, call)
    BY Told
  <2>2. QED BY <1>2, <2>1
<1>5. ASSUME NEW i \in 1..n, i # k
      PROVE  Received(more, i, after[i].callID) = after[i].args /\ Lifecycle(Only(more, Of(i)), FALSE)
  <2>1. e.index # i /\ after[i] = calls[i]
    BY <1>1, <1>5
  <2>2. Received(more, i, calls[i].callID) = Received(events, i, calls[i].callID)
    BY <1>4, <2>1
  <2>3. Only(more, Of(i)) = Only(events, Of(i))
    BY <1>4, <2>1
  <2>4. QED BY <1>3, <2>1, <2>2, <2>3
<1>6. Received(more, k, after[k].callID) = after[k].args
  BY <1>1, <1>3, <1>4
<1>7. Lifecycle(Only(more, Of(k)), FALSE)
  <2>1. Only(events, Of(k)) \in Seq(Shown)
    <3>1. Only(events, Of(k)) \in Seq(Of(k)) /\ Of(k) \subseteq Shown
      BY OnlyTyped DEF Of
    <3>2. QED BY <3>1, SeqMonotonic
  <2>2. Lifecycle(Append(Only(events, Of(k)), e), FALSE)
    BY <1>1, <1>3, <2>1, LifecycleSteps
  <2>3. QED BY <1>4, <2>2
<1>8. ASSUME NEW j \in 1..Len(more), more[j] \in Shown PROVE more[j].index <= n
  <2>1. PICK m \in Nat : m = Len(events)
    OBVIOUS
  <2>2. e \in Outs
    BY DEF Outs
  <2>3. Len(more) = m + 1 /\ more[m + 1] = e /\ \A i \in 1..m : more[i] = events[i]
    BY <1>2, <2>1, <2>2, AppendProperties
  <2>4. CASE j = m + 1
    BY <1>1, <2>3, <2>4
  <2>5. CASE j # m + 1
    <3>1. j \in 1..m
      BY <2>3, <2>5
    <3>2. QED BY <1>3, <1>8, <2>1, <2>3, <3>1
  <2>6. QED BY <2>4, <2>5
<1>9. QED BY <1>1, <1>2, <1>5, <1>6, <1>7, <1>8 DEF CallsTold

-----------------------------------------------------------------------------
(* Pieces of calls. *)

\* The slice grows by empty calls, at its end.
LEMMA GrownIs ==
    ASSUME Typed, NEW idx \in Nat
    PROVE  /\ Grown(idx) \in Seq(Calls)
           /\ Len(Grown(idx)) = IF idx < Len(toolCalls) THEN Len(toolCalls) ELSE idx + 1
           /\ Len(toolCalls) \in Nat /\ idx + 1 \in 1..Len(Grown(idx))
           /\ \A i \in 1..Len(toolCalls) : Grown(idx)[i] = toolCalls[i]
           /\ idx < Len(toolCalls) => Grown(idx) = toolCalls
           /\ idx >= Len(toolCalls) => Grown(idx)[idx + 1] = NoCall
           /\ \A i \in 1..Len(Grown(idx)) : Grown(idx)[i].owner <= Capacity(Len(Grown(idx)))
           /\ Capacity(Len(Grown(idx))) \in Nat
<1>1. PICK n \in Nat : n = Len(toolCalls)
  BY DEF Typed
<1>2. PICK m \in Nat : m = IF idx < n THEN n ELSE idx + 1
  OBVIOUS
<1>3. PICK calls : calls = [i \in 1..m |-> IF i <= n THEN toolCalls[i] ELSE NoCall]
  OBVIOUS
<1>4. Grown(idx) = calls
  BY <1>1, <1>2, <1>3 DEF Grown
<1>5. NoCall \in Calls
  <2>1. "" \in Names /\ "" \in CallIds /\ <<>> \in Seq(Pieces)
    BY TranslatorAssumption, EmptySeq DEF Names
  <2>2. QED BY <2>1 DEF NoCall, Calls
<1>6. toolCalls \in Seq(Calls) /\ \A i \in 1..n : toolCalls[i] \in Calls
  BY <1>1, ElementOfSeq DEF Typed
<1>7. \A i \in 1..m : calls[i] \in Calls
  BY <1>1, <1>3, <1>5, <1>6
<1>8. calls \in Seq(Calls) /\ Len(calls) = m
  BY <1>3, <1>7
<1>9. m >= n /\ idx + 1 \in 1..m
  BY <1>1, <1>2
<1>10. \A i \in 1..n : calls[i] = toolCalls[i]
  BY <1>3, <1>9
<1>11. idx < n => calls = toolCalls
  <2>1. SUFFICES ASSUME idx < n PROVE calls = toolCalls
    OBVIOUS
  <2>2. m = n
    BY <1>2, <2>1
  <2>3. QED BY <1>1, <1>6, <1>8, <1>10, <2>2, SeqEqual
<1>12. idx >= n => calls[idx + 1] = NoCall
  BY <1>3, <1>9
<1>13. Capacity(n) \in Nat /\ Capacity(m) \in Nat /\ Capacity(n) <= Capacity(m)
  BY <1>1, <1>2, <1>9, CapacityGrows
<1>14. ASSUME NEW i \in 1..m PROVE calls[i].owner <= Capacity(m)
  <2>1. CASE i <= n
    <3>1. i \in 1..n /\ calls[i] = toolCalls[i]
      BY <1>10, <2>1
    <3>2. toolCalls[i].owner <= Capacity(n) /\ toolCalls[i].owner \in Nat
      BY <1>1, <1>6, <3>1 DEF Typed, Calls
    <3>3. QED BY <1>13, <3>1, <3>2
  <2>2. CASE ~(i <= n)
    <3>1. calls[i] = NoCall
      BY <1>3, <2>2
    <3>2. NoCall.owner = 0
      BY DEF NoCall
    <3>3. QED BY <1>13, <3>1, <3>2
  <2>3. QED BY <2>1, <2>2
<1>15. QED BY <1>1, <1>2, <1>4, <1>8, <1>9, <1>10, <1>11, <1>12, <1>13, <1>14

\* A call takes its name and id from the piece that has them.
LEMMA NamedIs ==
    ASSUME NEW call \in Calls, NEW d \in Deltas
    PROVE  /\ Named(call, d) \in Calls
           /\ Named(call, d).args = call.args /\ Named(call, d).owner = call.owner
           /\ d.name = "" => Named(call, d) = call
           /\ d.name # "" => Named(call, d).callID = d.id
<1>1. d.name \in Names /\ d.id \in CallIds
  BY DEF Deltas
<1>2. QED BY <1>1 DEF Named, Calls

\* Whatever is written to the call of a piece, the others are what they were.
LEMMA CallWritten ==
    ASSUME Typed, NEW idx \in Nat, NEW call \in Calls, call.owner <= Capacity(Len(Grown(idx))),
           toolCalls' = [Grown(idx) EXCEPT ![idx + 1] = call]
    PROVE  /\ toolCalls' \in Seq(Calls) /\ Len(toolCalls') = Len(Grown(idx))
           /\ toolCalls'[idx + 1] = call
           /\ \A i \in 1..Len(Grown(idx)) : i # idx + 1 => toolCalls'[i] = Grown(idx)[i]
           /\ \A i \in 1..Len(toolCalls') : toolCalls'[i].owner <= Capacity(Len(toolCalls'))
<1>1. PICK calls : calls = Grown(idx)
  OBVIOUS
<1>2. /\ calls \in Seq(Calls) /\ idx + 1 \in 1..Len(calls)
      /\ \A i \in 1..Len(calls) : calls[i].owner <= Capacity(Len(calls))
  BY <1>1, GrownIs
<1>3. /\ toolCalls' \in Seq(Calls) /\ Len(toolCalls') = Len(calls)
      /\ \A i \in 1..Len(calls) : toolCalls'[i] = IF i = idx + 1 THEN call ELSE calls[i]
  BY <1>1, <1>2, ExceptSeq
<1>4. \A i \in 1..Len(calls) : toolCalls'[i].owner <= Capacity(Len(calls))
  BY <1>1, <1>2, <1>3
<1>5. QED BY <1>1, <1>2, <1>3, <1>4

\* What the announcement and the delta of a piece are.
LEMMA NewsTyped ==
    ASSUME NEW d \in Deltas, NEW call \in Calls, d.index \in Nat
    PROVE  /\ d.name = "" => Added(d) = <<>>
           /\ d.name # "" => \E e \in Shown : /\ Added(d) = <<e>> /\ e.type = "added"
                                              /\ e.index = d.index + 1
           /\ d.args # "" => LET e == CallEvent("delta", d.index, Fc(d.index), call.callID, <<d.args>>)
                             IN  /\ e \in Shown /\ e.type = "delta" /\ e.index = d.index + 1
                                 /\ e.call = call.callID /\ e.data = <<d.args>>
                                 /\ d.args \in Pieces /\ <<d.args>> \in Seq(Pieces)
<1>1. d.id \in CallIds /\ call.callID \in CallIds /\ d.args \in Pieces \cup {""}
  BY DEF Deltas, Calls
<1>2. <<>> \in Seq(Pieces) /\ "added" \in Kinds /\ "delta" \in Kinds
  BY EmptySeq DEF Kinds
<1>3. ASSUME d.name # ""
      PROVE  \E e \in Shown : Added(d) = <<e>> /\ e.type = "added" /\ e.index = d.index + 1
  <2>1. PICK e : e = CallEvent("added", d.index, <<"call", d.id>>, d.id, <<>>)
    OBVIOUS
  <2>2. e \in Shown /\ e.type = "added" /\ e.index = d.index + 1
    <3>1. PICK c \in CallIds : c = d.id
      BY <1>1
    <3>2. PICK idx \in Nat, none \in Seq(Pieces) : idx = d.index /\ none = <<>>
      BY <1>2
    <3>3. LET f == CallEvent("added", idx, <<"call", c>>, c, none)
          IN  f \in Shown /\ f.type = "added" /\ f.index = idx + 1
      BY <1>2, CallEventTyped
    <3>4. QED BY <2>1, <3>1, <3>2, <3>3
  <2>3. QED BY <1>3, <2>1, <2>2 DEF Added
<1>4. ASSUME d.args # ""
      PROVE  LET e == CallEvent("delta", d.index, Fc(d.index), call.callID, <<d.args>>)
             IN  /\ e \in Shown /\ e.type = "delta" /\ e.index = d.index + 1
                 /\ e.call = call.callID /\ e.data = <<d.args>>
                 /\ d.args \in Pieces /\ <<d.args>> \in Seq(Pieces)
  <2>1. d.args \in Pieces
    BY <1>1, <1>4
  <2>2. PICK piece \in Seq(Pieces) : piece = <<d.args>>
    <3>1. PICK x \in Pieces : x = d.args
      BY <2>1
    <3>2. <<x>> \in Seq(Pieces)
      OBVIOUS
    <3>3. QED BY <3>1, <3>2
  <2>3. PICK idx \in Nat, id \in CallIds : idx = d.index /\ id = call.callID
    BY <1>1
  <2>4. LET e == CallEvent("delta", idx, Fc(idx), id, piece)
        IN  /\ e \in Shown /\ e.type = "delta" /\ e.index = idx + 1
            /\ e.call = id /\ e.data = piece
    BY <1>2, CallEventTyped
  <2>5. QED BY <2>1, <2>2, <2>3, <2>4
<1>5. QED BY <1>3, <1>4 DEF Added

\* What a piece with an index in range does, to its call and to the client.
Writes(d, call) ==
    LET idx   == d.index
        calls == Grown(idx)
    IN  /\ idx \in Nat
        /\ toolCalls' \in Seq(Calls) /\ Len(toolCalls') = Len(calls)
        /\ toolCalls'[idx + 1] = call
        /\ \A i \in 1..Len(calls) : i # idx + 1 => toolCalls'[i] = calls[i]
        /\ \A i \in 1..Len(toolCalls') : toolCalls'[i].owner <= Capacity(Len(toolCalls'))
        /\ call.callID = Named(calls[idx + 1], d).callID
        /\ \/ /\ call.args = calls[idx + 1].args
              /\ out' = out \o Added(d)
           \/ \E e \in Shown :
                 /\ e.type = "delta" /\ e.index = idx + 1 /\ e.call = call.callID
                 /\ call.args = calls[idx + 1].args \o e.data
                 /\ out' = out \o Added(d) \o <<e>>

\* A piece does that, or nothing: below zero it panics.
LEMMA PieceWrites ==
    ASSUME Typed, NEW d \in Deltas, ReadToolCall(d)
    PROVE  (toolCalls' = toolCalls /\ out' = out) \/ \E call \in Calls : Writes(d, call)
<1>1. d.index \in Int
  <2>1. d.index \in Indexes
    BY DEF Deltas
  <2>2. QED BY <2>1, TranslatorAssumption
<1>2. NegativeIndex(d) \/ NoArguments(d) \/ Arguments(d)
  BY DEF ReadToolCall
<1>3. CASE NegativeIndex(d)
  BY <1>3 DEF NegativeIndex
<1>4. ASSUME d.index >= 0, NEW call \in Calls,
             call.owner <= Capacity(Len(Grown(d.index))),
             toolCalls' = [Grown(d.index) EXCEPT ![d.index + 1] = call]
      PROVE  /\ d.index \in Nat
             /\ toolCalls' \in Seq(Calls) /\ Len(toolCalls') = Len(Grown(d.index))
             /\ toolCalls'[d.index + 1] = call
             /\ \A i \in 1..Len(Grown(d.index)) : i # d.index + 1 => toolCalls'[i] = Grown(d.index)[i]
             /\ \A i \in 1..Len(toolCalls') : toolCalls'[i].owner <= Capacity(Len(toolCalls'))
  <2>1. d.index \in Nat
    BY <1>4, <1>1
  <2>2. QED BY <1>4, <2>1, CallWritten
<1>5. ASSUME d.index >= 0
      PROVE  /\ d.index \in Nat
             /\ Grown(d.index)[d.index + 1] \in Calls
             /\ Grown(d.index)[d.index + 1].owner <= Capacity(Len(Grown(d.index)))
             /\ Capacity(Len(Grown(d.index))) \in Nat
  <2>1. d.index \in Nat
    BY <1>5, <1>1
  <2>2. /\ Grown(d.index) \in Seq(Calls) /\ d.index + 1 \in 1..Len(Grown(d.index))
        /\ \A i \in 1..Len(Grown(d.index)) : Grown(d.index)[i].owner <= Capacity(Len(Grown(d.index)))
        /\ Capacity(Len(Grown(d.index))) \in Nat
    BY <2>1, GrownIs
  <2>3. QED BY <2>1, <2>2, ElementOfSeq
<1>6. PICK old : old = Grown(d.index)[d.index + 1]
  OBVIOUS
<1>7. PICK new : new = Named(old, d)
  OBVIOUS
<1>8. CASE NoArguments(d)
  <2>1. /\ d.index >= 0 /\ out' = out \o Added(d)
        /\ toolCalls' = [Grown(d.index) EXCEPT ![d.index + 1] = new]
    BY <1>6, <1>7, <1>8 DEF NoArguments
  <2>2. new \in Calls /\ new.args = old.args /\ new.owner = old.owner
    BY <1>5, <1>6, <1>7, <2>1, NamedIs
  <2>3. Writes(d, new)
    BY <1>4, <1>5, <1>6, <1>7, <2>1, <2>2 DEF Writes
  <2>4. QED BY <2>2, <2>3
<1>9. CASE Arguments(d)
  <2>1. d.index >= 0 /\ d.args # ""
    BY <1>9 DEF Arguments
  <2>2. new \in Calls /\ new.args = old.args /\ new.owner = old.owner
    BY <1>5, <1>6, <1>7, <2>1, NamedIs
  <2>3. PICK array \in Nat : array = Capacity(Len(Grown(d.index)))
    BY <1>5, <2>1
  <2>4. PICK written : written = [new EXCEPT !.args = Append(@, d.args), !.owner = array]
    OBVIOUS
  <2>5. PICK delta : delta = CallEvent("delta", d.index, Fc(d.index), new.callID, <<d.args>>)
    OBVIOUS
  <2>6. /\ delta \in Shown /\ delta.type = "delta" /\ delta.index = d.index + 1
        /\ delta.call = new.callID /\ delta.data = <<d.args>> /\ d.args \in Pieces
    BY <1>5, <2>1, <2>2, <2>5, NewsTyped
  <2>7. /\ written \in Calls /\ written.callID = new.callID /\ written.owner = array
        /\ written.args = Append(new.args, d.args) /\ new.args \in Seq(Pieces)
    <3>1. new.args \in Seq(Pieces)
      BY <2>2 DEF Calls
    <3>2. PICK more \in Seq(Pieces) : more = Append(new.args, d.args)
      BY <2>6, <3>1, AppendProperties
    <3>3. written = [new EXCEPT !.args = more, !.owner = array]
      BY <2>4, <3>2
    <3>4. QED BY <2>2, <3>1, <3>2, <3>3 DEF Calls
  <2>8. written.args = old.args \o delta.data
    BY <2>2, <2>6, <2>7, AppendIsConcat
  <2>9. \/ /\ toolCalls' = [Grown(d.index) EXCEPT ![d.index + 1] = written]
           /\ out' = out \o Added(d) \o <<delta>>
        \/ /\ toolCalls' = [Grown(d.index) EXCEPT ![d.index + 1] = new]
           /\ out' = out \o Added(d)
    BY <1>6, <1>7, <1>9, <2>3, <2>4, <2>5 DEF Arguments
  <2>10. ASSUME toolCalls' = [Grown(d.index) EXCEPT ![d.index + 1] = written],
                out' = out \o Added(d) \o <<delta>>
         PROVE  Writes(d, written)
    <3>1. written.owner <= Capacity(Len(Grown(d.index)))
      BY <2>3, <2>7
    <3>2. QED BY <1>4, <1>6, <1>7, <2>1, <2>6, <2>7, <2>8, <2>10, <3>1 DEF Writes
  <2>11. ASSUME toolCalls' = [Grown(d.index) EXCEPT ![d.index + 1] = new],
                out' = out \o Added(d)
         PROVE  Writes(d, new)
    BY <1>4, <1>5, <1>6, <1>7, <2>1, <2>2, <2>11 DEF Writes
  <2>12. QED BY <2>2, <2>7, <2>9, <2>10, <2>11
<1>10. QED BY <1>2, <1>3, <1>8, <1>9

\* What is written for a piece are events of its call, none of them a done event.
LEMMA PieceTold ==
    ASSUME Typed, NEW d \in Deltas, NEW call \in Calls, Writes(d, call)
    PROVE  \E mid \in Seq(Outs) :
              /\ \/ d.name = "" /\ mid = out
                 \/ /\ d.name # ""
                    /\ \E e \in Shown : /\ e.type = "added" /\ e.index = d.index + 1
                                        /\ mid = Append(out, e)
              /\ \/ out' = mid /\ call.args = Grown(d.index)[d.index + 1].args
                 \/ \E e \in Shown :
                       /\ e.type = "delta" /\ e.index = d.index + 1 /\ e.call = call.callID
                       /\ call.args = Grown(d.index)[d.index + 1].args \o e.data
                       /\ out' = Append(mid, e)
<1>1. d.index \in Nat /\ out \in Seq(Outs)
  BY DEF Writes, Typed
<1>2. PICK mid : mid = out \o Added(d)
  OBVIOUS
<1>3. /\ mid \in Seq(Outs)
      /\ \/ d.name = "" /\ mid = out
         \/ /\ d.name # ""
            /\ \E e \in Shown : e.type = "added" /\ e.index = d.index + 1 /\ mid = Append(out, e)
  <2>1. CASE d.name = ""
    <3>1. Added(d) = <<>>
      BY <2>1 DEF Added
    <3>2. out \o <<>> = out
      BY <1>1, ConcatEmptySeq
    <3>3. QED BY <1>1, <1>2, <2>1, <3>1, <3>2
  <2>2. CASE d.name # ""
    <3>1. PICK e \in Shown : Added(d) = <<e>> /\ e.type = "added" /\ e.index = d.index + 1
      BY <1>1, <2>2, NewsTyped
    <3>2. e \in Outs
      BY DEF Outs
    <3>3. Append(out, e) = out \o <<e>> /\ Append(out, e) \in Seq(Outs)
      BY <1>1, <3>2, AppendIsConcat, AppendProperties
    <3>4. QED BY <1>2, <2>2, <3>1, <3>3
  <2>3. QED BY <2>1, <2>2
<1>4. CASE out' = out \o Added(d) /\ call.args = Grown(d.index)[d.index + 1].args
  BY <1>2, <1>3, <1>4
<1>5. ASSUME NEW e \in Shown, e.type = "delta", e.index = d.index + 1, e.call = call.callID,
             call.args = Grown(d.index)[d.index + 1].args \o e.data,
             out' = out \o Added(d) \o <<e>>
      PROVE  out' = Append(mid, e)
  <2>1. e \in Outs
    BY DEF Outs
  <2>2. Append(mid, e) = mid \o <<e>>
    BY <1>3, <2>1, AppendIsConcat
  <2>3. QED BY <1>2, <1>5, <2>2
<1>6. \/ call.args = Grown(d.index)[d.index + 1].args /\ out' = out \o Added(d)
      \/ \E e \in Shown :
            /\ e.type = "delta" /\ e.index = d.index + 1 /\ e.call = call.callID
            /\ call.args = Grown(d.index)[d.index + 1].args \o e.data
            /\ out' = out \o Added(d) \o <<e>>
  BY DEF Writes
<1>7. CASE \E e \in Shown :
              /\ e.type = "delta" /\ e.index = d.index + 1 /\ e.call = call.callID
              /\ call.args = Grown(d.index)[d.index + 1].args \o e.data
              /\ out' = out \o Added(d) \o <<e>>
  <2>1. PICK e \in Shown :
              /\ e.type = "delta" /\ e.index = d.index + 1 /\ e.call = call.callID
              /\ call.args = Grown(d.index)[d.index + 1].args \o e.data
              /\ out' = out \o Added(d) \o <<e>>
    BY <1>7
  <2>2. out' = Append(mid, e)
    BY <1>5, <2>1
  <2>3. QED BY <1>3, <2>1, <2>2
<1>8. QED BY <1>4, <1>6, <1>7

\* One event more that is not a done event tells nothing of what is done.
LEMMA NotDone ==
    ASSUME NEW events \in Seq(Outs), NEW e \in Outs, e.type \notin Done,
           \A j \in 1..Len(events) : events[j].type \notin Done
    PROVE  \A j \in 1..Len(Append(events, e)) : Append(events, e)[j].type \notin Done
<1>1. PICK n \in Nat : n = Len(events)
  OBVIOUS
<1>2. PICK more : more = Append(events, e)
  OBVIOUS
<1>3. Len(more) = n + 1 /\ more[n + 1] = e /\ \A j \in 1..n : more[j] = events[j]
  BY <1>1, <1>2, AppendProperties
<1>4. ASSUME NEW j \in 1..(n + 1) PROVE more[j].type \notin Done
  <2>1. j = n + 1 \/ j \in 1..n
    OBVIOUS
  <2>2. QED BY <1>1, <1>3, <2>1
<1>5. QED BY <1>2, <1>3, <1>4

\* A piece of a call is no text, and leaves nothing done.
LEMMA PieceIsNoText ==
    ASSUME Typed, NEW d \in Deltas, NEW call \in Calls, Writes(d, call),
           \A j \in 1..Len(out) : out[j].type \notin Done
    PROVE  /\ out' \in Seq(Outs)
           /\ Received(out', 0, "") = Received(out, 0, "")
           /\ \A j \in 1..Len(out') : out'[j].type \notin Done
<1>1. PICK mid \in Seq(Outs) :
              /\ \/ d.name = "" /\ mid = out
                 \/ \E e \in Shown : e.type = "added" /\ e.index = d.index + 1 /\ mid = Append(out, e)
              /\ \/ out' = mid
                 \/ \E e \in Shown : /\ e.type = "delta" /\ e.index = d.index + 1
                                     /\ out' = Append(mid, e)
  BY PieceTold
<1>2. d.index + 1 # 0 /\ out \in Seq(Outs)
  BY DEF Writes, Typed
<1>3. ASSUME NEW events \in Seq(Outs), NEW e \in Shown, e.type \in {"added", "delta"},
             e.index = d.index + 1, \A j \in 1..Len(events) : events[j].type \notin Done
      PROVE  /\ Append(events, e) \in Seq(Outs)
             /\ Received(Append(events, e), 0, "") = Received(events, 0, "")
             /\ \A j \in 1..Len(Append(events, e)) : Append(events, e)[j].type \notin Done
  <2>1. e \in Outs /\ e.type \notin Done
    BY <1>3 DEF Outs, Done
  <2>2. \A j \in 1..Len(Append(events, e)) : Append(events, e)[j].type \notin Done
    BY <1>3, <2>1, NotDone
  <2>3. Received(Append(events, e), 0, "") =
           IF e.type = "delta" /\ e.index = 0 /\ e.call = ""
           THEN Received(events, 0, "") \o e.data ELSE Received(events, 0, "")
    <3>1. \A i, c : Received(Append(events, e), i, c) =
             IF e.type = "delta" /\ e.index = i /\ e.call = c
             THEN Received(events, i, c) \o e.data ELSE Received(events, i, c)
      BY Told
    <3>2. QED BY <3>1
  <2>4. Append(events, e) \in Seq(Outs)
    BY Told
  <2>5. QED BY <1>2, <1>3, <2>2, <2>3, <2>4
<1>4. /\ mid \in Seq(Outs) /\ Received(mid, 0, "") = Received(out, 0, "")
      /\ \A j \in 1..Len(mid) : mid[j].type \notin Done
  <2>1. CASE mid = out
    BY <1>2, <2>1
  <2>2. CASE mid # out
    <3>1. PICK e \in Shown : e.type = "added" /\ e.index = d.index + 1 /\ mid = Append(out, e)
      BY <1>1, <2>2
    <3>2. QED BY <1>2, <1>3, <3>1
  <2>3. QED BY <2>1, <2>2
<1>5. CASE out' = mid
  BY <1>4, <1>5
<1>6. CASE out' # mid
  <2>1. PICK e \in Shown : e.type = "delta" /\ e.index = d.index + 1 /\ out' = Append(mid, e)
    BY <1>1, <1>6
  <2>2. QED BY <1>3, <1>4, <2>1
<1>7. QED BY <1>5, <1>6

\* The first piece of a call announces it.
LEMMA BeginsKeeps ==
    ASSUME Typed, NEW d \in Deltas, NEW call \in Calls, Writes(d, call), Begins(d),
           CallsTold(out, toolCalls, FALSE)
    PROVE  CallsTold(out', toolCalls', FALSE)
<1>1. PICK n \in Nat : n = Len(toolCalls)
  BY DEF Typed
<1>2. /\ out \in Seq(Outs) /\ toolCalls \in Seq(Calls) /\ toolCalls' \in Seq(Calls)
      /\ d.index = n /\ d.name # ""
  BY <1>1 DEF Typed, Writes, Begins
<1>3. /\ Len(Grown(n)) = n + 1 /\ \A i \in 1..n : Grown(n)[i] = toolCalls[i]
      /\ Grown(n)[n + 1].args = <<>>
  <2>1. /\ Len(Grown(n)) = (IF n < n THEN n ELSE n + 1)
        /\ \A i \in 1..n : Grown(n)[i] = toolCalls[i]
        /\ n >= n => Grown(n)[n + 1] = NoCall
    BY <1>1, GrownIs
  <2>2. NoCall.args = <<>>
    BY DEF NoCall
  <2>3. ~(n < n) /\ n >= n
    OBVIOUS
  <2>4. QED BY <2>1, <2>2, <2>3
<1>4. /\ Len(toolCalls') = n + 1 /\ toolCalls'[n + 1] = call
      /\ \A i \in 1..n : toolCalls'[i] = toolCalls[i]
  <2>1. /\ Len(toolCalls') = Len(Grown(n)) /\ toolCalls'[n + 1] = call
        /\ \A i \in 1..Len(Grown(n)) : i # n + 1 => toolCalls'[i] = Grown(n)[i]
    BY <1>2 DEF Writes
  <2>2. \A i \in 1..n : i \in 1..(n + 1) /\ i # n + 1
    OBVIOUS
  <2>3. QED BY <1>3, <2>1, <2>2
<1>5. PICK mid \in Seq(Outs) :
              /\ \E e \in Shown : e.type = "added" /\ e.index = n + 1 /\ mid = Append(out, e)
              /\ \/ out' = mid /\ call.args = <<>>
                 \/ \E e \in Shown :
                       /\ e.type = "delta" /\ e.index = n + 1 /\ e.call = call.callID
                       /\ call.args = <<>> \o e.data
                       /\ out' = Append(mid, e)
  <2>1. PICK mid \in Seq(Outs) :
              /\ \/ d.name = "" /\ mid = out
                 \/ /\ d.name # ""
                    /\ \E e \in Shown : /\ e.type = "added" /\ e.index = d.index + 1
                                        /\ mid = Append(out, e)
              /\ \/ out' = mid /\ call.args = Grown(d.index)[d.index + 1].args
                 \/ \E e \in Shown :
                       /\ e.type = "delta" /\ e.index = d.index + 1 /\ e.call = call.callID
                       /\ call.args = Grown(d.index)[d.index + 1].args \o e.data
                       /\ out' = Append(mid, e)
    BY PieceTold
  <2>2. QED BY <1>2, <1>3, <2>1
<1>6. PICK added \in Shown : added.type = "added" /\ added.index = n + 1 /\ mid = Append(out, added)
  BY <1>5
<1>7. PICK fresh \in Calls : fresh.args = <<>> /\ fresh.callID = call.callID
  <2>1. PICK none \in Seq(Pieces) : none = <<>>
    BY EmptySeq
  <2>2. [call EXCEPT !.args = none] \in Calls
    BY DEF Calls
  <2>3. [call EXCEPT !.args = none].args = none /\ [call EXCEPT !.args = none].callID = call.callID
    BY DEF Calls
  <2>4. QED BY <2>1, <2>2, <2>3
<1>8. PICK begun : begun = Append(toolCalls, fresh)
  OBVIOUS
<1>9. /\ begun \in Seq(Calls) /\ Len(begun) = n + 1 /\ begun[n + 1] = fresh
      /\ \A i \in 1..n : begun[i] = toolCalls[i]
  <2>1. /\ begun \in Seq(Calls) /\ Len(begun) = Len(toolCalls) + 1 /\ begun[Len(toolCalls) + 1] = fresh
        /\ \A i \in 1..Len(toolCalls) : begun[i] = toolCalls[i]
    <3>1. PICK calls \in Seq(Calls) : calls = toolCalls
      BY <1>2
    <3>2. /\ Append(calls, fresh) \in Seq(Calls) /\ Len(Append(calls, fresh)) = Len(calls) + 1
          /\ Append(calls, fresh)[Len(calls) + 1] = fresh
          /\ \A i \in 1..Len(calls) : Append(calls, fresh)[i] = calls[i]
      BY AppendProperties
    <3>3. QED BY <1>8, <3>1, <3>2
  <2>2. QED BY <1>1, <2>1
<1>10. CASE out' = mid /\ call.args = <<>>
  <2>1. CallsTold(Append(out, added), toolCalls', FALSE)
    BY <1>1, <1>2, <1>4, <1>6, <1>10, CallBegins
  <2>2. QED BY <1>6, <1>10, <2>1
<1>11. ASSUME NEW e \in Shown, e.type = "delta", e.index = n + 1, e.call = call.callID,
              call.args = <<>> \o e.data, out' = Append(mid, e)
       PROVE  CallsTold(out', toolCalls', FALSE)
  <2>1. CallsTold(Append(out, added), begun, FALSE)
    BY <1>1, <1>2, <1>6, <1>7, <1>9, CallBegins
  <2>2. CallsTold(mid, begun, FALSE)
    BY <1>6, <2>1
  <2>3. PICK k \in 1..Len(begun) : k = n + 1
    BY <1>9
  <2>4. /\ \A i \in 1..Len(begun) : i # k => toolCalls'[i] = begun[i]
        /\ Len(toolCalls') = Len(begun)
    <3>1. \A i \in 1..Len(begun) : i # k => i \in 1..n
      BY <1>9, <2>3
    <3>2. QED BY <1>4, <1>9, <3>1
  <2>5. /\ toolCalls'[k].callID = begun[k].callID /\ toolCalls'[k].args = begun[k].args \o e.data
        /\ e.index = k /\ e.call = begun[k].callID
    BY <1>4, <1>7, <1>9, <1>11, <2>3
  <2>6. CallsTold(Append(mid, e), toolCalls', FALSE)
    BY <1>2, <1>9, <1>11, <2>2, <2>4, <2>5, CallContinues
  <2>7. QED BY <1>11, <2>6
<1>12. QED BY <1>5, <1>10, <1>11

\* The others tell it their arguments.
LEMMA ContinuesKeeps ==
    ASSUME Typed, NEW d \in Deltas, NEW call \in Calls, Writes(d, call), Continues(d),
           CallsTold(out, toolCalls, FALSE)
    PROVE  CallsTold(out', toolCalls', FALSE)
<1>1. PICK n \in Nat : n = Len(toolCalls)
  BY DEF Typed
<1>2. PICK k : k = d.index + 1
  OBVIOUS
<1>3. /\ out \in Seq(Outs) /\ toolCalls \in Seq(Calls) /\ toolCalls' \in Seq(Calls)
      /\ d.index \in Nat /\ d.index < n /\ k \in 1..n /\ d.name = ""
  <2>1. d.index \in 0..(n - 1) /\ d.name = ""
    BY <1>1 DEF Continues
  <2>2. d.index \in Nat /\ d.index < n /\ k \in 1..n
    <3>1. PICK idx : idx = d.index
      OBVIOUS
    <3>2. idx \in 0..(n - 1) /\ k = idx + 1
      BY <1>2, <2>1, <3>1
    <3>3. idx \in Nat /\ idx < n /\ k \in 1..n
      BY <3>2
    <3>4. QED BY <3>1, <3>3
  <2>3. QED BY <2>1, <2>2 DEF Typed, Writes
<1>4. Grown(d.index) = toolCalls
  BY <1>1, <1>3, GrownIs
<1>5. /\ Len(toolCalls') = n /\ toolCalls'[k] = call
      /\ \A i \in 1..n : i # k => toolCalls'[i] = toolCalls[i]
      /\ call.callID = toolCalls[k].callID
  <2>1. Named(toolCalls[k], d) = toolCalls[k]
    BY <1>3 DEF Named
  <2>2. QED BY <1>1, <1>2, <1>4, <2>1 DEF Writes
<1>6. \/ out' = out /\ call.args = toolCalls[k].args
      \/ \E e \in Shown :
            /\ e.type = "delta" /\ e.index = k /\ e.call = call.callID
            /\ call.args = toolCalls[k].args \o e.data
            /\ out' = Append(out, e)
  <2>1. PICK mid \in Seq(Outs) :
              /\ \/ d.name = "" /\ mid = out
                 \/ /\ d.name # ""
                    /\ \E e \in Shown : /\ e.type = "added" /\ e.index = d.index + 1
                                        /\ mid = Append(out, e)
              /\ \/ out' = mid /\ call.args = Grown(d.index)[d.index + 1].args
                 \/ \E e \in Shown :
                       /\ e.type = "delta" /\ e.index = d.index + 1 /\ e.call = call.callID
                       /\ call.args = Grown(d.index)[d.index + 1].args \o e.data
                       /\ out' = Append(mid, e)
    BY PieceTold
  <2>2. QED BY <1>2, <1>3, <1>4, <2>1
<1>7. CASE out' = out /\ call.args = toolCalls[k].args
  <2>1. ASSUME NEW i \in 1..n
        PROVE  toolCalls'[i].callID = toolCalls[i].callID /\ toolCalls'[i].args = toolCalls[i].args
    BY <1>5, <1>7
  <2>2. QED BY <1>1, <1>5, <1>7, <2>1 DEF CallsTold
<1>8. ASSUME NEW e \in Shown, e.type = "delta", e.index = k, e.call = call.callID,
             call.args = toolCalls[k].args \o e.data, out' = Append(out, e)
      PROVE  CallsTold(out', toolCalls', FALSE)
  <2>1. CallsTold(Append(out, e), toolCalls', FALSE)
    BY <1>1, <1>3, <1>5, <1>8, CallContinues
  <2>2. QED BY <1>8, <2>1
<1>9. QED BY <1>6, <1>7, <1>8

-----------------------------------------------------------------------------
(* The end of the stream. *)

\* A sequence of elements of a set is one of that set.
LEMMA SeqInto ==
    ASSUME NEW T, NEW s \in Seq(T), NEW S, \A j \in 1..Len(s) : s[j] \in S
    PROVE  s \in Seq(S)
<1>1. Len(s) \in Nat /\ s \in [1..Len(s) -> T]
  BY LenProperties
<1>2. s \in [1..Len(s) -> S]
  BY <1>1
<1>3. QED BY <1>1, <1>2

\* Done events that tell what was read.
Tellers == {e \in Shown : e.type \in Done /\ Tells(e)}

\* Those of the message.
LEMMA MessageDoneIs ==
    ASSUME Typed
    PROVE  MessageDone \in Seq(Tellers) /\ \A j \in 1..Len(MessageDone) : MessageDone[j].index = 0
<1>1. ASSUME NEW kind \in {"textDone", "itemDone"}
      PROVE  /\ Event(kind, 0, Message, content) \in Tellers
             /\ Event(kind, 0, Message, content).index = 0
  <2>1. PICK data \in Seq(Pieces) : data = content
    BY DEF Typed
  <2>2. kind \in Kinds /\ kind \in Done
    BY DEF Kinds, Done
  <2>3. PICK e : e = Event(kind, 0, Message, data)
    OBVIOUS
  <2>4. e \in Shown /\ e.type = kind /\ e.index = 0 /\ e.call = "" /\ e.data = data
    BY <2>2, <2>3, EventTyped
  <2>5. e \in Tellers
    BY <2>1, <2>2, <2>4 DEF Tellers, Tells
  <2>6. QED BY <2>1, <2>3, <2>4, <2>5
<1>2. PICK text \in Tellers : text = Event("textDone", 0, Message, content) /\ text.index = 0
  BY <1>1
<1>3. PICK item \in Tellers : item = Event("itemDone", 0, Message, content) /\ item.index = 0
  BY <1>1
<1>4. CASE HasMessage
  <2>1. MessageDone = <<text, item>>
    BY <1>2, <1>3, <1>4 DEF MessageDone
  <2>2. <<text, item>> \in Seq(Tellers)
    OBVIOUS
  <2>3. \A j \in 1..Len(<<text, item>>) : <<text, item>>[j].index = 0
    BY <1>2, <1>3
  <2>4. QED BY <2>1, <2>2, <2>3
<1>5. CASE ~HasMessage
  <2>1. MessageDone = <<>>
    BY <1>5 DEF MessageDone
  <2>2. <<>> \in Seq(Tellers) /\ Len(<<>>) = 0
    BY EmptySeq
  <2>3. QED BY <2>1, <2>2
<1>6. QED BY <1>4, <1>5

\* Those of a call.
LEMMA CallDoneIs ==
    ASSUME Typed, NEW i \in 1..Len(toolCalls)
    PROVE  \E args \in Tellers, item \in Tellers :
              /\ CallDone(i) = <<args, item>>
              /\ args.type = "argsDone" /\ item.type = "itemDone" /\ args.index = i /\ item.index = i
<1>1. PICK idx \in Nat : idx = i - 1 /\ idx + 1 = i
  BY DEF Typed
<1>2. PICK call \in Calls : call = toolCalls[i]
  BY ElementOfSeq DEF Typed
<1>3. PICK id \in CallIds, data \in Seq(Pieces) : id = call.callID /\ data = call.args
  BY DEF Calls
<1>4. "argsDone" \in Kinds /\ "itemDone" \in Kinds
  BY DEF Kinds, Done
<1>5. PICK args, item : args = CallEvent("argsDone", idx, Fc(idx), id, data)
                        /\ item = CallEvent("itemDone", idx, Fc(idx), id, data)
  OBVIOUS
<1>6. args \in Shown /\ args.type = "argsDone" /\ args.index = idx + 1 /\ args.call = id /\ args.data = data
  BY <1>4, <1>5, CallEventTyped
<1>7. item \in Shown /\ item.type = "itemDone" /\ item.index = idx + 1 /\ item.call = id /\ item.data = data
  BY <1>4, <1>5, CallEventTyped
<1>8. args \in Tellers /\ item \in Tellers
  BY <1>1, <1>2, <1>3, <1>6, <1>7 DEF Tellers, Tells, Done
<1>9. CallDone(i) = <<args, item>>
  BY <1>1, <1>2, <1>3, <1>5 DEF CallDone
<1>10. QED BY <1>1, <1>6, <1>7, <1>8, <1>9

\* Two elements make a sequence.
LEMMA PairIs ==
    ASSUME NEW T, NEW a \in T, NEW b \in T
    PROVE  /\ <<a>> \in Seq(T) /\ <<a, b>> \in Seq(T)
           /\ Append(<<>>, a) = <<a>> /\ Append(<<a>>, b) = <<a, b>>
<1>1. PICK one, pair : one = <<a>> /\ pair = <<a, b>>
  OBVIOUS
<1>2. /\ one \in Seq(T) /\ Len(one) = 1 /\ one[1] = a
      /\ pair \in Seq(T) /\ Len(pair) = 2 /\ pair[1] = a /\ pair[2] = b
  BY <1>1
<1>3. PICK more : more = Append(one, b)
  OBVIOUS
<1>4. more \in Seq(T) /\ Len(more) = 2 /\ more[1] = a /\ more[2] = b
  <2>1. 1 \in 1..Len(one)
    BY <1>2
  <2>2. QED BY <1>2, <1>3, <2>1, AppendProperties
<1>5. \A i \in 1..2 : i = 1 \/ i = 2
  OBVIOUS
<1>6. more = pair
  <2>1. \A i \in 1..Len(more) : more[i] = pair[i]
    BY <1>2, <1>4, <1>5
  <2>2. QED BY <1>2, <1>4, <2>1, SeqEqual
<1>7. Append(<<>>, a) = <<a>>
  OBVIOUS
<1>8. QED BY <1>1, <1>2, <1>3, <1>6, <1>7

\* Of two events of a call those of another are none, and its own both.
LEMMA OnlyPair ==
    ASSUME NEW a \in Shown, NEW b \in Shown, NEW i, a.index = i, b.index = i, NEW k
    PROVE  /\ <<a, b>> \in Seq(Shown)
           /\ Only(<<a, b>>, Of(k)) = IF k = i THEN <<a, b>> ELSE <<>>
<1>1. PICK one \in Seq(Shown) : one = <<a>>
  <2>1. <<a>> \in Seq(Shown)
    OBVIOUS
  <2>2. QED BY <2>1
<1>2. PICK none \in Seq(Shown) : none = <<>>
  BY EmptySeq
<1>3. one = Append(none, a) /\ <<a, b>> = Append(one, b)
  BY <1>1, <1>2
<1>4. Only(none, Of(k)) = <<>>
  BY <1>2, OnlyTyped
<1>5. Only(Append(none, a), Of(k)) = IF a \in Of(k) THEN Append(Only(none, Of(k)), a) ELSE Only(none, Of(k))
  BY OnlyAppend
<1>6. Only(Append(one, b), Of(k)) = IF b \in Of(k) THEN Append(Only(one, Of(k)), b) ELSE Only(one, Of(k))
  BY OnlyAppend
<1>7. (a \in Of(k) <=> k = i) /\ (b \in Of(k) <=> k = i)
  BY DEF Of
<1>8. Only(one, Of(k)) = IF k = i THEN one ELSE <<>>
  BY <1>2, <1>3, <1>4, <1>5, <1>7
<1>9. Only(<<a, b>>, Of(k)) = IF k = i THEN <<a, b>> ELSE <<>>
  BY <1>3, <1>6, <1>7, <1>8
<1>10. QED BY <1>9

\* Those of all calls, each call's both.
LEMMA CallsDoneIs ==
    ASSUME Typed
    PROVE  /\ CallsDone \in Seq(Tellers)
           /\ \A i \in 1..Len(toolCalls) : Only(CallsDone, Of(i)) = CallDone(i)
<1>1. PICK n \in Nat : n = Len(toolCalls)
  BY DEF Typed
<1>2. PICK pairs : pairs = [i \in 1..n |-> CallDone(i)]
  OBVIOUS
<1> DEFINE S == Seq(Tellers)
           First(k) == [i \in 1..k |-> pairs[i]]
           Some(k) == FlattenSeq(First(k))
           P == {k \in Nat : k <= n =>
                    /\ Some(k) \in S
                    /\ \A i \in 1..n : Only(Some(k), Of(i)) = IF i <= k THEN pairs[i] ELSE <<>>}
<1>3. ASSUME NEW i \in 1..n
      PROVE  \E args \in Tellers, item \in Tellers :
                pairs[i] = <<args, item>> /\ args.index = i /\ item.index = i
  BY <1>1, <1>2, CallDoneIs
<1>4. \A i \in 1..n : pairs[i] \in S
  <2> TAKE i \in 1..n
  <2>1. PICK args \in Tellers, item \in Tellers : pairs[i] = <<args, item>>
    BY <1>3
  <2>2. <<args, item>> \in Seq(Tellers)
    OBVIOUS
  <2>3. QED BY <2>1, <2>2
<1>5. ASSUME NEW k \in Nat, k <= n PROVE First(k) \in Seq(S) /\ Len(First(k)) = k
  <2>1. \A i \in 1..k : i \in 1..n
    BY <1>5
  <2> HIDE DEF S
  <2>2. \A i \in 1..k : pairs[i] \in S
    BY <1>4, <2>1
  <2>3. QED BY <2>2
<1>6. 0 \in P
  <2>1. First(0) = <<>>
    OBVIOUS
  <2>2. Some(0) = <<>>
    <3>1. PICK none \in Seq(Seq(Tellers)) : none = <<>>
      <4>1. <<>> \in Seq(Seq(Tellers))
        BY EmptySeq
      <4>2. QED BY <4>1
    <3>2. FlattenSeq(none) = <<>>
      BY <3>1, FlattenTyped
    <3>3. QED BY <2>1, <3>1, <3>2
  <2>3. PICK none \in Seq(Tellers) : none = <<>>
    BY EmptySeq
  <2>4. ASSUME NEW i \in 1..n PROVE Only(none, Of(i)) = <<>> /\ ~(i <= 0)
    <3>1. Only(none, Of(i)) = <<>>
      BY <2>3, OnlyTyped
    <3>2. QED BY <3>1
  <2> HIDE DEF First, Some
  <2>5. QED BY <2>2, <2>3, <2>4
<1>7. ASSUME NEW k \in Nat, k \in P PROVE k + 1 \in P
  <2>1. SUFFICES ASSUME k + 1 <= n
                 PROVE  /\ Some(k + 1) \in S
                        /\ \A i \in 1..n : Only(Some(k + 1), Of(i)) =
                                              IF i <= k + 1 THEN pairs[i] ELSE <<>>
    OBVIOUS
  <2>2. k <= n /\ k + 1 \in 1..n
    BY <1>1, <2>1
  <2>3. Some(k) \in S /\ \A i \in 1..n : Only(Some(k), Of(i)) = IF i <= k THEN pairs[i] ELSE <<>>
    BY <1>7, <2>2
  <2>4. PICK pair \in S : pair = pairs[k + 1]
    BY <1>4, <2>2
  <2>5. First(k) \in Seq(S) /\ Len(First(k)) = k /\ First(k + 1) \in Seq(S) /\ Len(First(k + 1)) = k + 1
    BY <1>5, <2>1, <2>2
  <2>6. First(k + 1) = Append(First(k), pair)
    <3> HIDE DEF S
    <3>1. PICK more : more = Append(First(k), pair)
      OBVIOUS
    <3>2. /\ more \in Seq(S) /\ Len(more) = k + 1 /\ more[k + 1] = pair
          /\ \A i \in 1..k : more[i] = First(k)[i]
      <4> HIDE DEF First
      <4>1. QED BY <2>5, <3>1, AppendProperties
    <3>3. ASSUME NEW i \in 1..(k + 1) PROVE First(k + 1)[i] = more[i]
      <4>1. i = k + 1 \/ i \in 1..k
        OBVIOUS
      <4>2. QED BY <2>4, <3>2, <4>1
    <3> HIDE DEF First
    <3>4. QED BY <2>5, <3>1, <3>2, <3>3, SeqEqual
  <2>7. Some(k + 1) = Some(k) \o pair
    <3>1. FlattenSeq(Append(First(k), pair)) = FlattenSeq(First(k)) \o pair
      <4> HIDE DEF First
      <4>1. QED BY <2>4, <2>5, FlattenAppend
    <3>2. QED BY <2>6, <3>1
  <2>8. Some(k + 1) \in S
    <3> HIDE DEF Some
    <3>1. QED BY <2>3, <2>4, <2>7, ConcatProperties
  <2>9. ASSUME NEW i \in 1..n
        PROVE  Only(Some(k + 1), Of(i)) = IF i <= k + 1 THEN pairs[i] ELSE <<>>
    <3>1. PICK some \in Seq(Tellers) : some = Some(k)
      BY <2>3
    <3>2. Only(some \o pair, Of(i)) = Only(some, Of(i)) \o Only(pair, Of(i))
      BY OnlyConcat
    <3>3. Only(pair, Of(i)) = IF i = k + 1 THEN pairs[i] ELSE <<>>
      <4>1. PICK args \in Shown, item \in Shown :
                pair = <<args, item>> /\ args.index = k + 1 /\ item.index = k + 1
        BY <1>3, <2>2, <2>4 DEF Tellers
      <4>2. Only(<<args, item>>, Of(i)) = IF i = k + 1 THEN <<args, item>> ELSE <<>>
        BY <4>1, OnlyPair
      <4>3. QED BY <2>4, <4>1, <4>2
    <3>4. PICK own \in Seq(Tellers) : own = pairs[i]
      BY <1>4
    <3>5. own \o <<>> = own /\ <<>> \o own = own
      BY ConcatEmptySeq
    <3>6. PICK none \in Seq(Tellers) : none = <<>>
      BY EmptySeq
    <3>7. none \o none = none
      BY <3>6, ConcatEmptySeq
    <3> HIDE DEF Some, First
    <3>8. Only(some, Of(i)) = IF i <= k THEN own ELSE none
      BY <2>3, <3>1, <3>4, <3>6
    <3>9. Only(pair, Of(i)) = IF i = k + 1 THEN own ELSE none
      BY <3>3, <3>4, <3>6
    <3>10. CASE i <= k
      <4>1. i # k + 1 /\ i <= k + 1
        BY <3>10
      <4>2. QED BY <2>7, <3>1, <3>2, <3>4, <3>5, <3>6, <3>8, <3>9, <3>10, <4>1
    <3>11. CASE i = k + 1
      <4>1. ~(i <= k) /\ i <= k + 1
        BY <3>11
      <4>2. QED BY <2>7, <3>1, <3>2, <3>4, <3>5, <3>6, <3>8, <3>9, <3>11, <4>1
    <3>12. CASE ~(i <= k) /\ i # k + 1
      <4>1. ~(i <= k + 1)
        BY <3>12
      <4>2. QED BY <2>7, <3>1, <3>2, <3>6, <3>7, <3>8, <3>9, <3>12, <4>1
    <3>13. QED BY <3>10, <3>11, <3>12
  <2>10. QED BY <2>8, <2>9
<1>8. n \in P
  <2> HIDE DEF P
  <2>1. Nat \subseteq P
    BY <1>6, <1>7, Induction
  <2>2. QED BY <2>1
<1>9. First(n) = pairs
  BY <1>2
<1>10. CallsDone = Some(n)
  BY <1>1, <1>2, <1>9 DEF CallsDone
<1>11. ASSUME NEW i \in 1..n PROVE Only(CallsDone, Of(i)) = CallDone(i)
  <2> HIDE DEF Some, First
  <2>1. i <= n /\ pairs[i] = CallDone(i)
    BY <1>2
  <2>2. QED BY <1>8, <1>10, <2>1
<1>12. CallsDone \in Seq(Tellers)
  BY <1>8, <1>10
<1>13. QED BY <1>1, <1>11, <1>12

\* response.completed has the items as they are done.
LEMMA CompletedTyped ==
    ASSUME Typed
    PROVE  /\ Output \in Seq(Shown)
           /\ [type |-> "completed", output |-> Output, usage |-> usage] \in Completed
<1>1. PICK n \in Nat : n = Len(toolCalls)
  BY DEF Typed
<1>2. PICK calls : calls = [i \in 1..n |-> CallDone(i)[2]]
  OBVIOUS
<1>3. \A i \in 1..n : calls[i] \in Shown
  <2> TAKE i \in 1..n
  <2>1. PICK args \in Tellers, item \in Tellers : CallDone(i) = <<args, item>>
    BY <1>1, CallDoneIs
  <2>2. CallDone(i)[2] = item
    BY <2>1
  <2>3. QED BY <1>2, <2>2 DEF Tellers
<1>4. calls \in Seq(Shown)
  BY <1>2, <1>3
<1>5. PICK before : before = IF HasMessage THEN <<Event("itemDone", 0, Message, content)>> ELSE <<>>
  OBVIOUS
<1>6. before \in Seq(Shown)
  <2>1. PICK data \in Seq(Pieces) : data = content
    BY DEF Typed
  <2>2. "itemDone" \in Kinds
    BY DEF Kinds, Done
  <2>3. PICK item \in Shown : item = Event("itemDone", 0, Message, data)
    BY <2>2, EventTyped
  <2>4. <<item>> \in Seq(Shown) /\ <<>> \in Seq(Shown)
    OBVIOUS
  <2>5. QED BY <1>5, <2>1, <2>3, <2>4
<1>7. Output = before \o calls
  BY <1>1, <1>2, <1>5 DEF Output
<1>8. PICK output \in Seq(Shown) : output = Output
  BY <1>4, <1>6, <1>7, ConcatProperties
<1>9. [type |-> "completed", output |-> output, usage |-> usage] \in Completed
  BY DEF Typed, Completed
<1>10. QED BY <1>8, <1>9

\* What EmitCompleted writes: done events of the message and the calls, and then
\* response.completed.
LEMMA EmitWrites ==
    ASSUME Typed, EmitCompleted
    PROVE  \E more \in Seq(Tellers), last \in Completed :
              /\ more = MessageDone \o CallsDone
              /\ last = [type |-> "completed", output |-> Output, usage |-> usage]
              /\ out \o more \in Seq(Outs) /\ last \in Outs /\ more \in Seq(Outs)
              /\ out' = Append(out \o more, last)
<1>1. PICK message \in Seq(Tellers) : message = MessageDone
  BY MessageDoneIs
<1>2. PICK calls \in Seq(Tellers) : calls = CallsDone
  BY CallsDoneIs
<1>3. PICK more \in Seq(Tellers) : more = message \o calls
  BY ConcatProperties
<1>4. PICK last \in Completed : last = [type |-> "completed", output |-> Output, usage |-> usage]
  BY CompletedTyped
<1>5. Tellers \subseteq Outs
  BY DEF Tellers, Outs
<1>6. message \in Seq(Outs) /\ calls \in Seq(Outs) /\ more \in Seq(Outs)
  BY <1>5, SeqMonotonic
<1>7. last \in Outs /\ out \in Seq(Outs)
  BY DEF Outs, Typed
<1>8. (out \o message) \o calls = out \o more
  BY <1>3, <1>6, <1>7, ConcatAssociative
<1>9. PICK all \in Seq(Outs) : all = out \o more
  BY <1>6, <1>7, ConcatProperties
<1>10. Append(all, last) = all \o <<last>>
  BY <1>7, AppendIsConcat
<1>11. out' = out \o message \o calls \o <<last>>
  BY <1>1, <1>2, <1>4 DEF EmitCompleted
<1>12. out' = Append(all, last)
  BY <1>8, <1>9, <1>10, <1>11
<1>13. QED BY <1>1, <1>2, <1>3, <1>4, <1>6, <1>7, <1>9, <1>12

\* The end of the stream adds to no item, and ends the life of each call.
LEMMA EmitTold ==
    ASSUME Typed, EmitCompleted
    PROVE  /\ out' \in Seq(Outs)
           /\ \A index, call : Received(out', index, call) = Received(out, index, call)
           /\ \A i \in 1..Len(toolCalls) :
                 Lifecycle(Only(out, Of(i)), FALSE) => Lifecycle(Only(out', Of(i)), TRUE)
<1>1. PICK more \in Seq(Tellers), last \in Completed :
              /\ more = MessageDone \o CallsDone
              /\ out \o more \in Seq(Outs) /\ last \in Outs /\ more \in Seq(Outs)
              /\ out' = Append(out \o more, last)
  BY EmitWrites
<1>2. PICK all \in Seq(Outs) : all = out \o more
  BY <1>1
<1>3. out' = Append(all, last) /\ out \in Seq(Outs) /\ last \notin Shown
  <2>1. last.type = "completed"
    BY DEF Completed
  <2>2. last \notin Shown
    BY <1>1, <2>1, OutsAre
  <2>3. QED BY <1>1, <1>2, <2>2 DEF Typed
<1>4. out' \in Seq(Outs)
  BY <1>1, <1>2, <1>3, AppendProperties
<1>5. ASSUME NEW U, U \subseteq Shown PROVE Only(out', U) = Only(out, U) \o Only(more, U)
  <2>1. Only(Append(all, last), U) = IF last \in U THEN Append(Only(all, U), last) ELSE Only(all, U)
    BY <1>1, OnlyAppend
  <2>2. last \notin U
    BY <1>3, <1>5
  <2>3. Only(out \o more, U) = Only(out, U) \o Only(more, U)
    BY <1>1, <1>3, OnlyConcat
  <2>4. QED BY <1>2, <1>3, <2>1, <2>2, <2>3
<1>6. ASSUME NEW index, NEW call PROVE Received(out', index, call) = Received(out, index, call)
  <2>1. PICK deltas : deltas = DeltaOf(index, call)
    OBVIOUS
  <2>2. Only(more, deltas) = <<>>
    <3>1. \A j \in 1..Len(more) : more[j] \in Tellers
      BY ElementOfSeq
    <3>2. \A e \in Tellers : e \notin deltas
      BY <2>1 DEF Tellers, DeltaOf, Done
    <3>3. \A j \in 1..Len(more) : more[j] \notin deltas
      BY <3>1, <3>2
    <3>4. QED BY <3>3, OnlyTyped
  <2>3. Only(out, deltas) \in Seq(Outs)
    BY <1>3, OnlyTyped
  <2>4. Only(out, deltas) \o <<>> = Only(out, deltas)
    BY <2>3, ConcatEmptySeq
  <2>5. deltas \subseteq Shown
    BY <2>1 DEF DeltaOf
  <2>6. Only(out', deltas) = Only(out, deltas) \o Only(more, deltas)
    BY <1>5, <2>5
  <2>7. QED BY <2>1, <2>2, <2>4, <2>6 DEF Received
<1>7. ASSUME NEW i \in 1..Len(toolCalls), Lifecycle(Only(out, Of(i)), FALSE)
      PROVE  Lifecycle(Only(out', Of(i)), TRUE)
  <2>1. PICK message \in Seq(Tellers) : /\ message = MessageDone
                                        /\ \A j \in 1..Len(message) : message[j].index = 0
    BY MessageDoneIs
  <2>2. PICK calls \in Seq(Tellers) : calls = CallsDone /\ Only(calls, Of(i)) = CallDone(i)
    BY CallsDoneIs
  <2>3. PICK args \in Tellers, item \in Tellers :
            CallDone(i) = <<args, item>> /\ args.type = "argsDone" /\ item.type = "itemDone"
    BY CallDoneIs
  <2>4. Only(message, Of(i)) = <<>>
    <3>1. i # 0
      BY DEF Typed
    <3>2. \A j \in 1..Len(message) : message[j] \notin Of(i)
      BY <2>1, <3>1 DEF Of
    <3>3. QED BY <3>2, OnlyTyped
  <2>5. Only(message \o calls, Of(i)) = Only(message, Of(i)) \o Only(calls, Of(i))
    BY OnlyConcat
  <2>6. PICK pair \in Seq(Shown) : pair = <<args, item>>
    <3>1. PICK a \in Shown, b \in Shown : a = args /\ b = item
      BY DEF Tellers
    <3>2. <<a, b>> \in Seq(Shown)
      OBVIOUS
    <3>3. QED BY <3>1, <3>2
  <2>7. <<>> \o pair = pair
    BY ConcatEmptySeq
  <2>8. Only(more, Of(i)) = pair
    BY <1>1, <2>1, <2>2, <2>3, <2>4, <2>5, <2>6, <2>7
  <2>9. PICK own \in Seq(Shown) : own = Only(out, Of(i))
    <3>1. Only(out, Of(i)) \in Seq(Of(i)) /\ Of(i) \subseteq Shown
      BY <1>3, OnlyTyped DEF Of
    <3>2. Only(out, Of(i)) \in Seq(Shown)
      BY <3>1, SeqMonotonic
    <3>3. QED BY <3>2
  <2>10. Only(out', Of(i)) = own \o pair
    <3>1. Of(i) \subseteq Shown
      BY DEF Of
    <3>2. QED BY <1>5, <2>8, <2>9, <3>1
  <2>11. own \o <<args, item>> = Append(Append(own, args), item)
    <3>1. PICK a \in Shown, b \in Shown : a = args /\ b = item
      BY DEF Tellers
    <3>2. PICK one \in Seq(Shown) : one = <<a>>
      <4>1. <<a>> \in Seq(Shown)
        OBVIOUS
      <4>2. QED BY <4>1
    <3>3. Append(one, b) = <<a, b>>
      <4>1. Append(<<a>>, b) = <<a, b>>
        BY PairIs
      <4>2. QED BY <3>2, <4>1
    <3>4. own \o Append(one, b) = Append(own \o one, b)
      BY ConcatAppend
    <3>5. Append(own, a) = own \o <<a>>
      BY AppendIsConcat
    <3>6. QED BY <3>1, <3>2, <3>3, <3>4, <3>5
  <2>12. Lifecycle(Append(Append(own, args), item), TRUE)
    <3>1. args \in Shown /\ item \in Shown
      BY DEF Tellers
    <3>2. QED BY <1>7, <2>3, <2>9, <3>1, LifecycleSteps
  <2>13. QED BY <2>6, <2>10, <2>11, <2>12
<1>8. QED BY <1>4, <1>6, <1>7

\* Nothing else is done than what the stream told, and no event is out of range.
LEMMA EmitTells ==
    ASSUME Typed, EmitCompleted, DoneTold, NEW n \in Nat, n >= Len(toolCalls)
    PROVE  /\ \A j \in 1..Len(out') : out'[j].type \in Done => Tells(out'[j])
           /\ (\A j \in 1..Len(out) : out[j] \in Shown => out[j].index <= n)
                 => \A j \in 1..Len(out') : out'[j] \in Shown => out'[j].index <= n
<1>1. PICK more \in Seq(Tellers), last \in Completed :
              /\ out \o more \in Seq(Outs) /\ last \in Outs /\ more \in Seq(Outs)
              /\ out' = Append(out \o more, last)
  BY EmitWrites
<1>2. out \in Seq(Outs) /\ last.type = "completed" /\ last \notin Shown
  <2>1. last.type = "completed"
    BY DEF Completed
  <2>2. QED BY <1>1, <2>1, OutsAre DEF Typed
<1>3. ASSUME NEW S, out \in Seq(S), Tellers \subseteq S, last \in S PROVE out' \in Seq(S)
  <2>1. more \in Seq(S)
    BY <1>3, SeqMonotonic
  <2>2. out \o more \in Seq(S)
    BY <1>3, <2>1, ConcatProperties
  <2>3. QED BY <1>1, <1>3, <2>2, AppendProperties
<1>4. \A j \in 1..Len(out') : out'[j].type \in Done => Tells(out'[j])
  <2> DEFINE S == {e \in Outs : e.type \in Done => Tells(e)}
  <2>1. \A j \in 1..Len(out) : out[j] \in S
    <3>1. \A j \in 1..Len(out) : out[j] \in Outs
      BY <1>2, ElementOfSeq
    <3>2. QED BY <3>1 DEF DoneTold
  <2>2. Tellers \subseteq S
    BY DEF Tellers, Outs
  <2>3. last \in S
    BY <1>1, <1>2 DEF Done
  <2> HIDE DEF S
  <2>4. out \in Seq(S)
    BY <1>2, <2>1, SeqInto
  <2>5. out' \in Seq(S)
    BY <1>3, <2>2, <2>3, <2>4
  <2>6. \A j \in 1..Len(out') : out'[j] \in S
    BY <2>5, ElementOfSeq
  <2>7. QED BY <2>6 DEF S
<1>5. ASSUME \A j \in 1..Len(out) : out[j] \in Shown => out[j].index <= n
      PROVE  \A j \in 1..Len(out') : out'[j] \in Shown => out'[j].index <= n
  <2> DEFINE S == {e \in Outs : e \in Shown => e.index <= n}
  <2>1. \A j \in 1..Len(out) : out[j] \in S
    <3>1. \A j \in 1..Len(out) : out[j] \in Outs
      BY <1>2, ElementOfSeq
    <3>2. QED BY <1>5, <3>1
  <2>2. Tellers \subseteq S
    <3>1. Len(toolCalls) \in Nat
      BY DEF Typed
    <3>2. \A e \in Tellers : e.index = 0 \/ e.index \in 1..Len(toolCalls)
      BY DEF Tellers, Tells
    <3>3. \A e \in Tellers : e.index <= n
      BY <3>1, <3>2
    <3>4. QED BY <3>3 DEF Tellers, Outs
  <2>3. last \in S
    BY <1>1, <1>2
  <2> HIDE DEF S
  <2>4. out \in Seq(S)
    BY <1>2, <2>1, SeqInto
  <2>5. out' \in Seq(S)
    BY <1>3, <2>2, <2>3, <2>4
  <2>6. \A j \in 1..Len(out') : out'[j] \in S
    BY <2>5, ElementOfSeq
  <2>7. QED BY <2>6 DEF S
<1>6. QED BY <1>4, <1>5

-----------------------------------------------------------------------------
(* Every step keeps the invariant. *)

\* At first nothing has been read or written.
LEMMA InitInv == Init => IInv
<1> SUFFICES ASSUME Init PROVE IInv
  OBVIOUS
<1>1. /\ upstream \in Upstreams /\ received = 0 /\ content = <<>> /\ usage = 0
      /\ toolCalls = <<>> /\ out = <<>> /\ ended = "no" /\ state = "start"
  BY DEF Init
<1>2. PICK none \in Seq(Outs) : none = <<>>
  <2>1. <<>> \in Seq(Outs)
    BY EmptySeq
  <2>2. QED BY <2>1
<1>3. Received(none, 0, "") = <<>>
  <2>1. \A i \in 1..Len(none) : none[i].type # "delta" \/ none[i].index # 0
    BY <1>2
  <2>2. QED BY <2>1, ReceivedTyped
<1>4. Len(toolCalls) = 0 /\ Len(out) = 0
  BY <1>1
<1>5. Typed
  <2>1. content \in Seq(Pieces) /\ toolCalls \in Seq(Calls) /\ out \in Seq(Outs)
    <3>1. <<>> \in Seq(Pieces) /\ <<>> \in Seq(Calls) /\ <<>> \in Seq(Outs)
      BY EmptySeq
    <3>2. QED BY <1>1, <3>1
  <2>2. \A i \in 1..Len(toolCalls) : toolCalls[i].owner <= Capacity(Len(toolCalls))
    BY <1>4
  <2>3. received \in 0..MaxPieces[upstream]
    <3>1. upstream \in Upstreams /\ MaxPieces[upstream] \in Nat
      BY <1>1, TranslatorAssumption
    <3>2. QED BY <1>1, <3>1
  <2>4. reasoning \in BOOLEAN
    BY DEF Init
  <2>5. usage \in 0..2
    BY <1>1
  <2>6. QED BY <1>1, <2>1, <2>2, <2>3, <2>4, <2>5 DEF Typed
<1>6. NothingYet /\ TextSent
  BY <1>1, <1>2, <1>3 DEF NothingYet, TextSent
<1>7. ~Finished /\ state # "submitted"
  BY <1>1 DEF Finished
<1>8. DoneTold /\ Accounted
  BY <1>4, <1>7 DEF DoneTold, Accounted
<1>9. CallsTold(out, toolCalls, Finished)
  BY <1>4 DEF CallsTold
<1>10. QED BY <1>5, <1>6, <1>8, <1>9 DEF IInv

\* The message is announced.
LEMMA BeginKeeps == IInv /\ Begin => IInv'
<1> SUFFICES ASSUME IInv, Begin PROVE IInv'
  OBVIOUS
<1>1. PICK none \in Seq(Pieces) : none = <<>>
  <2>1. <<>> \in Seq(Pieces)
    BY EmptySeq
  <2>2. QED BY <2>1
<1>2. ASSUME NEW kind \in {"created", "added", "part"}
      PROVE  \E e \in Shown : /\ e = Event(kind, 0, Message, <<>>) /\ e.type = kind /\ e.index = 0
  <2>1. kind \in Kinds
    BY DEF Kinds
  <2>2. PICK e : e = Event(kind, 0, Message, none)
    OBVIOUS
  <2>3. e \in Shown /\ e.type = kind /\ e.index = 0
    BY <2>1, <2>2, EventTyped
  <2>4. QED BY <1>1, <2>2, <2>3
<1>3. PICK a \in Shown : a = Event("created", 0, Message, <<>>) /\ a.type = "created" /\ a.index = 0
  BY <1>2
<1>4. PICK b \in Shown : b = Event("added", 0, Message, <<>>) /\ b.type = "added" /\ b.index = 0
  BY <1>2
<1>5. PICK c \in Shown : c = Event("part", 0, Message, <<>>) /\ c.type = "part" /\ c.index = 0
  BY <1>2
<1>6. out' = <<a, b, c>> /\ state' = "scan" /\ state = "start"
  BY <1>3, <1>4, <1>5 DEF Begin
<1>7. <<a, b, c>> \in Seq(Outs) /\ Len(<<a, b, c>>) = 3
  <2>1. a \in Outs /\ b \in Outs /\ c \in Outs
    BY DEF Outs
  <2>2. QED BY <2>1
<1>8. \A j \in 1..3 : <<a, b, c>>[j].type \in {"created", "added", "part"} /\ <<a, b, c>>[j].index = 0
  <2>1. \A j \in 1..3 : j = 1 \/ j = 2 \/ j = 3
    OBVIOUS
  <2>2. QED BY <1>3, <1>4, <1>5, <2>1
<1>9. PICK es \in Seq(Outs) : es = <<a, b, c>>
  BY <1>7
<1>10. Received(es, 0, "") = <<>>
  <2>1. \A j \in 1..Len(es) : es[j].type # "delta" \/ es[j].index # 0
    BY <1>7, <1>8, <1>9
  <2>2. QED BY <2>1, ReceivedTyped
<1>11. content = <<>> /\ toolCalls = <<>>
  BY <1>6 DEF IInv, NothingYet
<1>12. UNCHANGED <<upstream, received, content, reasoning, usage, toolCalls, ended, audit>>
  BY DEF Begin, streamVars
<1>13. Typed'
  BY <1>6, <1>7, <1>12 DEF IInv, Typed
<1>14. NothingYet' /\ TextSent' /\ Accounted'
  BY <1>6, <1>9, <1>10, <1>11, <1>12 DEF NothingYet, TextSent, Accounted, Finished, Received
<1>15. DoneTold'
  BY <1>6, <1>7, <1>8 DEF DoneTold, Done
<1>16. CallsTold(out', toolCalls', Finished')
  <2>1. Len(toolCalls') = 0
    BY <1>11, <1>12
  <2>2. QED BY <1>6, <1>7, <1>8, <2>1 DEF CallsTold
<1>17. QED BY <1>13, <1>14, <1>15, <1>16 DEF IInv

\* While the stream goes on nothing is done.
LEMMA Running ==
    ASSUME IInv, ~Finished
    PROVE  /\ Typed /\ Len(toolCalls) \in Nat /\ Len(out) \in Nat
           /\ out \in Seq(Outs) /\ Received(out, 0, "") = content
           /\ upstream # "sloppy" => CallsTold(out, toolCalls, FALSE)
           /\ \A j \in 1..Len(out) : out[j].type \notin Done
<1>1. Finished = FALSE
  BY DEF Finished
<1>2. Typed /\ Received(out, 0, "") = content
  BY DEF IInv, TextSent
<1>3. Len(toolCalls) \in Nat /\ Len(out) \in Nat /\ out \in Seq(Outs)
  <2>1. toolCalls \in Seq(Calls) /\ out \in Seq(Outs)
    BY <1>2 DEF Typed
  <2>2. QED BY <2>1
<1>4. upstream # "sloppy" => CallsTold(out, toolCalls, FALSE)
  BY <1>1 DEF IInv
<1>5. \A j \in 1..Len(out) : out[j].type \notin Done
  BY <1>1 DEF IInv, DoneTold
<1>6. QED BY <1>2, <1>3, <1>4, <1>5

\* A text is read and sent.
LEMMA TextKeeps ==
    ASSUME IInv, NEW text \in Pieces, ReadText(text)
    PROVE  IInv'
<1>1. /\ state = "scan" /\ state' = state /\ received < MaxPieces[upstream] /\ received' = received + 1
      /\ content' = Append(content, text)
      /\ out' = Append(out, Event("delta", 0, Message, <<text>>))
      /\ UNCHANGED <<upstream, reasoning, usage, toolCalls, ended, audit>>
  BY DEF ReadText, Read
<1>2. ~Finished /\ ~Finished' /\ Finished' = FALSE
  BY <1>1 DEF Finished
<1>3. /\ Typed /\ out \in Seq(Outs) /\ Received(out, 0, "") = content
      /\ upstream # "sloppy" => CallsTold(out, toolCalls, FALSE)
      /\ \A j \in 1..Len(out) : out[j].type \notin Done
  BY <1>2, Running
<1>4. PICK n \in Nat, m \in Nat : n = Len(toolCalls) /\ m = Len(out)
  <2>1. Len(toolCalls) \in Nat /\ Len(out) \in Nat
    BY <1>2, Running
  <2>2. QED BY <2>1
<1>5. PICK piece \in Seq(Pieces) : piece = <<text>>
  <2>1. <<text>> \in Seq(Pieces)
    OBVIOUS
  <2>2. QED BY <2>1
<1>6. PICK e : e = Event("delta", 0, Message, piece)
  OBVIOUS
<1>7. /\ e \in Shown /\ e.type = "delta" /\ e.index = 0 /\ e.call = "" /\ e.data = piece
      /\ e \in Outs /\ e.type \notin Done
  <2>1. "delta" \in Kinds /\ "delta" \notin Done
    BY DEF Kinds, Done
  <2>2. e \in Shown /\ e.type = "delta" /\ e.index = 0 /\ e.call = "" /\ e.data = piece
    BY <1>6, <2>1, EventTyped
  <2>3. QED BY <2>1, <2>2 DEF Outs
<1>8. PICK more : more = Append(out, e)
  OBVIOUS
<1>9. out' = more
  BY <1>1, <1>5, <1>6, <1>8
<1>10. /\ more \in Seq(Outs)
       /\ \A index : Only(more, Of(index)) = IF e.index = index THEN Append(Only(out, Of(index)), e)
                                             ELSE Only(out, Of(index))
       /\ \A index, call : Received(more, index, call) =
             IF e.type = "delta" /\ e.index = index /\ e.call = call
             THEN Received(out, index, call) \o e.data
             ELSE Received(out, index, call)
  <2>1. /\ Append(out, e) \in Seq(Outs)
        /\ \A index : Only(Append(out, e), Of(index)) =
                         IF e.index = index THEN Append(Only(out, Of(index)), e)
                         ELSE Only(out, Of(index))
        /\ \A index, call : Received(Append(out, e), index, call) =
              IF e.type = "delta" /\ e.index = index /\ e.call = call
              THEN Received(out, index, call) \o e.data
              ELSE Received(out, index, call)
    BY <1>3, <1>7, Told
  <2>2. QED BY <1>8, <2>1
<1>11. Append(content, text) = content \o piece /\ Append(content, text) \in Seq(Pieces)
  <2>1. content \in Seq(Pieces)
    BY <1>3 DEF Typed
  <2>2. QED BY <1>5, <2>1, AppendIsConcat, AppendProperties
<1>12. TextSent'
  <2>1. Received(more, 0, "") = content \o piece
    BY <1>3, <1>7, <1>10
  <2>2. Received(out', 0, "") = content'
    BY <1>1, <1>9, <1>11, <2>1
  <2>3. QED BY <2>2 DEF TextSent, Received
<1>13. \A j \in 1..Len(out') : out'[j].type \notin Done
  <2>1. \A j \in 1..Len(Append(out, e)) : Append(out, e)[j].type \notin Done
    BY <1>3, <1>7, NotDone
  <2>2. QED BY <1>8, <1>9, <2>1
<1>14. DoneTold'
  BY <1>13 DEF DoneTold
<1>15. ASSUME upstream # "sloppy" PROVE CallsTold(out', toolCalls', Finished')
  <2>1. CallsTold(out, toolCalls, FALSE)
    BY <1>3, <1>15
  <2>2. ASSUME NEW i \in 1..Len(toolCalls)
        PROVE  /\ Received(more, i, toolCalls[i].callID) = toolCalls[i].args
               /\ Lifecycle(Only(more, Of(i)), FALSE)
    <3>1. i # 0
      BY <1>4
    <3>2. /\ Received(more, i, toolCalls[i].callID) = Received(out, i, toolCalls[i].callID)
          /\ Only(more, Of(i)) = Only(out, Of(i))
      BY <1>7, <1>10, <3>1
    <3>3. QED BY <2>1, <3>2 DEF CallsTold
  <2>3. ASSUME NEW j \in 1..Len(more), more[j] \in Shown PROVE more[j].index <= Len(toolCalls)
    <3>1. Len(more) = m + 1 /\ more[m + 1] = e /\ \A k \in 1..m : more[k] = out[k]
      <4>1. /\ Len(Append(out, e)) = Len(out) + 1 /\ Append(out, e)[Len(out) + 1] = e
            /\ \A k \in 1..Len(out) : Append(out, e)[k] = out[k]
        <5>1. out \in Seq(Outs) /\ e \in Outs
          BY <1>3, <1>7
        <5>2. QED BY <5>1, AppendProperties
      <4>2. QED BY <1>8, <1>4, <4>1
    <3>2. CASE j = m + 1
      <4>1. more[j] = e /\ e.index = 0
        BY <1>7, <3>1, <3>2
      <4>2. QED BY <1>4, <4>1
    <3>3. CASE j # m + 1
      <4>1. j \in 1..m
        BY <3>1, <3>3
      <4>2. QED BY <1>4, <2>1, <2>3, <3>1, <4>1 DEF CallsTold
    <3>4. QED BY <3>2, <3>3
  <2>4. CallsTold(more, toolCalls, FALSE)
    BY <2>2, <2>3 DEF CallsTold
  <2>5. QED BY <1>1, <1>2, <1>9, <2>4
<1>16. Typed'
  <2>1. received' \in 0..MaxPieces[upstream]
    <3>1. received \in 0..MaxPieces[upstream]
      BY <1>3 DEF Typed
    <3>2. MaxPieces[upstream] \in Nat
      BY <1>3, TranslatorAssumption DEF Typed
    <3>3. QED BY <1>1, <3>1, <3>2
  <2>2. content' \in Seq(Pieces) /\ out' \in Seq(Outs)
    BY <1>1, <1>9, <1>10, <1>11
  <2>3. QED BY <1>1, <1>3, <2>1, <2>2 DEF Typed
<1>17. NothingYet' /\ Accounted'
  BY <1>1, <1>2 DEF NothingYet, Accounted
<1>18. upstream' = upstream
  BY <1>1
<1>19. QED BY <1>12, <1>14, <1>15, <1>16, <1>17, <1>18 DEF IInv

\* A reasoning text, a usage, the end of the body or a wait for the client changes
\* nothing of that.
LEMMA QuietKeeps ==
    ASSUME IInv, ReadReasoning \/ (\E tokens \in 1..2 : ReadUsage(tokens))
                 \/ (\E how \in {"eof", "broken"} : EndScan(how))
                 \/ WriteBlocks \/ WriteReturns
    PROVE  IInv'
<1>1. /\ state \in {"scan", "blocked", "completing"} /\ state' \in {"scan", "blocked", "completing"}
      /\ received' \in 0..MaxPieces[upstream]
      /\ UNCHANGED <<upstream, content, toolCalls, out, audit>>
      /\ reasoning' \in BOOLEAN /\ usage' \in 0..2 /\ ended' \in {"no", "eof", "broken"}
  <2>1. received \in 0..MaxPieces[upstream] /\ reasoning \in BOOLEAN /\ usage \in 0..2
        /\ ended \in {"no", "eof", "broken"}
    BY DEF IInv, Typed
  <2>2. ASSUME received < MaxPieces[upstream], received' = received + 1 PROVE received' \in 0..MaxPieces[upstream]
    <3>1. MaxPieces[upstream] \in Nat
      BY TranslatorAssumption DEF IInv, Typed
    <3>2. QED BY <2>1, <2>2, <3>1
  <2>3. CASE ReadReasoning
    BY <2>1, <2>2, <2>3 DEF ReadReasoning, Read
  <2>4. CASE \E tokens \in 1..2 : ReadUsage(tokens)
    <3>1. PICK tokens \in 1..2 : ReadUsage(tokens)
      BY <2>4
    <3>2. tokens \in 0..2
      OBVIOUS
    <3>3. QED BY <2>1, <2>2, <3>1, <3>2 DEF ReadUsage, Read
  <2>5. CASE \E how \in {"eof", "broken"} : EndScan(how)
    BY <2>1, <2>5 DEF EndScan, streamVars
  <2>6. CASE WriteBlocks \/ WriteReturns
    BY <2>1, <2>6 DEF WriteBlocks, WriteReturns, streamVars
  <2>7. QED BY <2>3, <2>4, <2>5, <2>6
<1>2. ~Finished /\ ~Finished' /\ Finished' = FALSE /\ Finished = FALSE /\ state' # "start"
  BY <1>1 DEF Finished
<1>3. Typed'
  BY <1>1 DEF IInv, Typed
<1>4. TextSent' /\ NothingYet'
  BY <1>1, <1>2 DEF IInv, TextSent, NothingYet, Received
<1>5. DoneTold' /\ Accounted'
  BY <1>1, <1>2 DEF IInv, DoneTold, Accounted
<1>6. ASSUME upstream' # "sloppy" PROVE CallsTold(out', toolCalls', Finished')
  BY <1>1, <1>2, <1>6 DEF IInv
<1>7. QED BY <1>3, <1>4, <1>5, <1>6 DEF IInv

\* A piece of a call.
LEMMA PieceKeeps ==
    ASSUME IInv, NEW d \in Deltas, ReadToolCall(d)
    PROVE  IInv'
<1>1. /\ state = "scan" /\ received < MaxPieces[upstream] /\ received' = received + 1
      /\ Sends(d) /\ UNCHANGED <<upstream, content, reasoning, usage, ended, audit>>
  BY DEF ReadToolCall, Read
<1>2. state' = state \/ state' = "panicked"
  BY DEF ReadToolCall, NegativeIndex, NoArguments, Arguments
<1>3. ~Finished /\ ~Finished' /\ Finished' = FALSE /\ state' # "start" /\ state' # "submitted"
  BY <1>1, <1>2 DEF Finished
<1>4. /\ Typed /\ out \in Seq(Outs) /\ Received(out, 0, "") = content
      /\ upstream # "sloppy" => CallsTold(out, toolCalls, FALSE)
      /\ \A j \in 1..Len(out) : out[j].type \notin Done
  BY <1>3, Running
<1>5. /\ toolCalls' \in Seq(Calls)
      /\ \A i \in 1..Len(toolCalls') : toolCalls'[i].owner <= Capacity(Len(toolCalls'))
      /\ out' \in Seq(Outs) /\ Received(out', 0, "") = Received(out, 0, "")
      /\ \A j \in 1..Len(out') : out'[j].type \notin Done
      /\ upstream # "sloppy" => CallsTold(out', toolCalls', FALSE)
  <2>1. CASE toolCalls' = toolCalls /\ out' = out
    <3>1. /\ toolCalls \in Seq(Calls)
          /\ \A i \in 1..Len(toolCalls) : toolCalls[i].owner <= Capacity(Len(toolCalls))
      BY <1>4 DEF Typed
    <3>2. QED BY <1>4, <2>1, <3>1
  <2>2. ASSUME NEW call \in Calls, Writes(d, call)
        PROVE  /\ toolCalls' \in Seq(Calls)
               /\ \A i \in 1..Len(toolCalls') : toolCalls'[i].owner <= Capacity(Len(toolCalls'))
               /\ out' \in Seq(Outs) /\ Received(out', 0, "") = Received(out, 0, "")
               /\ \A j \in 1..Len(out') : out'[j].type \notin Done
               /\ upstream # "sloppy" => CallsTold(out', toolCalls', FALSE)
    <3>1. /\ toolCalls' \in Seq(Calls)
          /\ \A i \in 1..Len(toolCalls') : toolCalls'[i].owner <= Capacity(Len(toolCalls'))
      BY <2>2 DEF Writes
    <3>2. /\ out' \in Seq(Outs) /\ Received(out', 0, "") = Received(out, 0, "")
          /\ \A j \in 1..Len(out') : out'[j].type \notin Done
      BY <1>4, <2>2, PieceIsNoText
    <3>3. ASSUME upstream # "sloppy" PROVE CallsTold(out', toolCalls', FALSE)
      <4>1. Begins(d) \/ Continues(d)
        BY <1>1, <3>3 DEF Sends
      <4>2. CallsTold(out, toolCalls, FALSE)
        BY <1>4, <3>3
      <4>3. CASE Begins(d)
        BY <1>4, <2>2, <4>2, <4>3, BeginsKeeps
      <4>4. CASE Continues(d)
        BY <1>4, <2>2, <4>2, <4>4, ContinuesKeeps
      <4>5. QED BY <4>1, <4>3, <4>4
    <3>4. QED BY <3>1, <3>2, <3>3
  <2>3. (toolCalls' = toolCalls /\ out' = out) \/ \E call \in Calls : Writes(d, call)
    BY <1>4, PieceWrites
  <2>4. QED BY <2>1, <2>2, <2>3
<1>6. Typed'
  <2>1. received' \in 0..MaxPieces[upstream]
    <3>1. received \in 0..MaxPieces[upstream]
      BY <1>4 DEF Typed
    <3>2. MaxPieces[upstream] \in Nat
      BY <1>4, TranslatorAssumption DEF Typed
    <3>3. QED BY <1>1, <3>1, <3>2
  <2>2. /\ state' \in {"start", "scan", "blocked", "completing", "completed", "submitted", "panicked"}
        /\ upstream' \in Upstreams /\ content' \in Seq(Pieces) /\ reasoning' \in BOOLEAN
        /\ usage' \in 0..2 /\ ended' \in {"no", "eof", "broken"}
    BY <1>1, <1>2, <1>4 DEF Typed
  <2>3. /\ toolCalls' \in Seq(Calls) /\ out' \in Seq(Outs)
        /\ \A i \in 1..Len(toolCalls') : toolCalls'[i].owner <= Capacity(Len(toolCalls'))
    BY <1>5
  <2>4. received' \in 0..MaxPieces[upstream']
    <3>1. upstream' = upstream
      BY <1>1
    <3>2. QED BY <2>1, <3>1
  <2>5. QED BY <2>2, <2>3, <2>4 DEF Typed
<1>7. TextSent'
  <2>1. Received(out', 0, "") = content'
    BY <1>1, <1>4, <1>5
  <2>2. QED BY <2>1 DEF TextSent, Received
<1>8. DoneTold'
  <2>1. \A j \in 1..Len(out') : out'[j].type \notin Done
    BY <1>5
  <2>2. QED BY <2>1 DEF DoneTold
<1>9. NothingYet' /\ Accounted'
  BY <1>3 DEF NothingYet, Accounted
<1>10. ASSUME upstream' # "sloppy" PROVE CallsTold(out', toolCalls', Finished')
  <2>1. CallsTold(out', toolCalls', FALSE)
    BY <1>1, <1>5, <1>10
  <2>2. QED BY <1>3, <2>1
<1>11. QED BY <1>6, <1>7, <1>8, <1>9, <1>10 DEF IInv

\* The stream ends.
LEMMA EmitKeeps == IInv /\ EmitCompleted => IInv'
<1> SUFFICES ASSUME IInv, EmitCompleted PROVE IInv'
  OBVIOUS
<1>1. /\ state = "completing" /\ state' = "completed"
      /\ UNCHANGED <<upstream, received, content, reasoning, usage, toolCalls, ended, audit>>
  BY DEF EmitCompleted, streamVars
<1>2. ~Finished /\ Finished' = TRUE
  BY <1>1 DEF Finished
<1>3. /\ Typed /\ out \in Seq(Outs) /\ Received(out, 0, "") = content /\ DoneTold
      /\ upstream # "sloppy" => CallsTold(out, toolCalls, FALSE)
  BY <1>2, Running DEF IInv
<1>4. PICK n \in Nat : n = Len(toolCalls)
  BY <1>2, Running
<1>5. /\ out' \in Seq(Outs)
      /\ \A index, call : Received(out', index, call) = Received(out, index, call)
      /\ \A i \in 1..Len(toolCalls) :
            Lifecycle(Only(out, Of(i)), FALSE) => Lifecycle(Only(out', Of(i)), TRUE)
  BY <1>3, EmitTold
<1>6. /\ \A j \in 1..Len(out') : out'[j].type \in Done => Tells(out'[j])
      /\ (\A j \in 1..Len(out) : out[j] \in Shown => out[j].index <= n)
            => \A j \in 1..Len(out') : out'[j] \in Shown => out'[j].index <= n
  <2>1. n >= Len(toolCalls)
    BY <1>4
  <2>2. QED BY <1>3, <2>1, EmitTells
<1>7. Typed'
  <2>1. out' \in Seq(Outs)
    BY <1>5
  <2>2. QED BY <1>1, <1>3, <2>1 DEF Typed
<1>8. NothingYet' /\ TextSent'
  <2>1. Received(out', 0, "") = content'
    BY <1>1, <1>3, <1>5
  <2>2. QED BY <1>1, <2>1 DEF NothingYet, TextSent, Received
<1>9. DoneTold'
  <2>1. ASSUME NEW j \in 1..Len(out'), out'[j].type \in Done
        PROVE  \/ out'[j].index = 0 /\ out'[j].call = "" /\ out'[j].data = content'
               \/ /\ out'[j].index \in 1..Len(toolCalls')
                  /\ out'[j].call = toolCalls'[out'[j].index].callID
                  /\ out'[j].data = toolCalls'[out'[j].index].args
    <3>1. PICK e : e = out'[j]
      OBVIOUS
    <3>2. Tells(e)
      BY <1>6, <2>1, <3>1
    <3>3. content' = content /\ toolCalls' = toolCalls
      BY <1>1
    <3>4. QED BY <3>1, <3>2, <3>3 DEF Tells
  <2>2. QED BY <1>2, <2>1 DEF DoneTold, Tells
<1>10. ASSUME upstream' # "sloppy" PROVE CallsTold(out', toolCalls', Finished')
  <2>1. CallsTold(out, toolCalls, FALSE)
    BY <1>1, <1>3, <1>10
  <2>2. /\ \A i \in 1..n : /\ Received(out, i, toolCalls[i].callID) = toolCalls[i].args
                           /\ Lifecycle(Only(out, Of(i)), FALSE)
        /\ \A j \in 1..Len(out) : out[j] \in Shown => out[j].index <= n
    BY <1>4, <2>1 DEF CallsTold
  <2>3. /\ \A i \in 1..n : /\ Received(out', i, toolCalls[i].callID) = toolCalls[i].args
                           /\ Lifecycle(Only(out', Of(i)), TRUE)
        /\ \A j \in 1..Len(out') : out'[j] \in Shown => out'[j].index <= n
    BY <1>4, <1>5, <1>6, <2>2
  <2>4. CallsTold(out', toolCalls, TRUE)
    BY <1>4, <2>3 DEF CallsTold
  <2>5. QED BY <1>1, <1>2, <2>4
<1>11. Accounted'
  <2>1. PICK all \in Seq(Outs), last \in Outs :
            /\ last = [type |-> "completed", output |-> Output, usage |-> usage]
            /\ out' = Append(all, last)
    BY <1>3, EmitWrites
  <2>2. Len(out') = Len(all) + 1 /\ out'[Len(all) + 1] = last /\ Len(all) \in Nat
    <3>1. /\ Len(Append(all, last)) = Len(all) + 1 /\ Append(all, last)[Len(all) + 1] = last
          /\ Len(all) \in Nat
      BY AppendProperties
    <3>2. QED BY <2>1, <3>1
  <2>3. Len(out') > 0 /\ out'[Len(out')] = last
    BY <2>2
  <2>4. Output' = Output
    BY <1>1 DEF Output, HasMessage, CallDone
  <2>5. Last(out)' = [type |-> "completed", output |-> Output, usage |-> usage]'
    BY <1>1, <2>1, <2>3, <2>4 DEF Last
  <2>6. state' # "submitted"
    BY <1>1
  <2>7. QED BY <2>3, <2>5, <2>6 DEF Accounted
<1>12. QED BY <1>7, <1>8, <1>9, <1>10, <1>11 DEF IInv

\* The record is submitted.
LEMMA SubmitKeeps == IInv /\ SubmitRecord => IInv'
<1> SUFFICES ASSUME IInv, SubmitRecord PROVE IInv'
  OBVIOUS
<1>1. /\ state = "completed" /\ state' = "submitted"
      /\ audit' = [body |-> content, usage |-> usage, error |-> ended = "broken"]
      /\ UNCHANGED <<upstream, received, content, reasoning, usage, toolCalls, out, ended>>
  BY DEF SubmitRecord, streamVars
<1>2. Finished /\ Finished'
  BY <1>1 DEF Finished
<1>3. Typed'
  BY <1>1 DEF IInv, Typed
<1>4. NothingYet' /\ TextSent'
  BY <1>1 DEF IInv, NothingYet, TextSent, Received
<1>5. DoneTold'
  BY <1>1, <1>2 DEF IInv, DoneTold, Tells
<1>6. ASSUME upstream' # "sloppy" PROVE CallsTold(out', toolCalls', Finished')
  <2>1. CallsTold(out, toolCalls, Finished)
    BY <1>1, <1>6 DEF IInv
  <2>2. Finished' = Finished
    BY <1>1 DEF Finished
  <2>3. QED BY <1>1, <2>1, <2>2
<1>7. Accounted'
  <2>1. Len(out) > 0 /\ Last(out) = [type |-> "completed", output |-> Output, usage |-> usage]
    BY <1>2 DEF IInv, Accounted
  <2>2. Output' = Output /\ Last(out)' = Last(out)
    BY <1>1 DEF Output, HasMessage, CallDone, Last
  <2>3. (Len(out) > 0)' /\ (Last(out) = [type |-> "completed", output |-> Output, usage |-> usage])'
    BY <1>1, <2>1, <2>2
  <2>4. audit'.body = content' /\ audit'.usage = usage'
    BY <1>1
  <2>5. audit'.error <=> ended' = "broken"
    BY <1>1
  <2>6. QED BY <2>3, <2>4, <2>5 DEF Accounted
<1>8. QED BY <1>3, <1>4, <1>5, <1>6, <1>7 DEF IInv

\* A step that changes nothing.
LEMMA StutterKeeps == IInv /\ UNCHANGED vars => IInv'
<1> SUFFICES ASSUME IInv, UNCHANGED vars PROVE IInv'
  OBVIOUS
<1>1. UNCHANGED <<upstream, received, content, reasoning, usage, toolCalls, out, ended, state, audit>>
  BY DEF vars, streamVars
<1>2. Finished' = Finished /\ Output' = Output /\ Last(out)' = Last(out)
  BY <1>1 DEF Finished, Output, HasMessage, CallDone, Last
<1>3. Typed' /\ NothingYet' /\ TextSent' /\ DoneTold'
  <2>1. Typed'
    BY <1>1 DEF IInv, Typed
  <2>2. NothingYet' /\ TextSent'
    BY <1>1 DEF IInv, NothingYet, TextSent, Received
  <2>3. DoneTold'
    BY <1>1, <1>2 DEF IInv, DoneTold, Tells
  <2>4. QED BY <2>1, <2>2, <2>3
<1>4. Accounted'
  BY <1>1, <1>2 DEF IInv, Accounted
<1>5. ASSUME upstream' # "sloppy" PROVE CallsTold(out', toolCalls', Finished')
  BY <1>1, <1>2, <1>5 DEF IInv
<1>6. QED BY <1>3, <1>4, <1>5 DEF IInv

\* The invariant is inductive: one step per action.
LEMMA StepInv == IInv /\ [Next]_vars => IInv'
<1> SUFFICES ASSUME IInv, [Next]_vars PROVE IInv'
  OBVIOUS
<1>1. CASE Begin
  BY <1>1, BeginKeeps
<1>2. CASE Scan
  <2>1. CASE \E text \in Pieces : ReadText(text)
    BY <2>1, TextKeeps
  <2>2. CASE \/ ReadReasoning
             \/ \E tokens \in 1..2 : ReadUsage(tokens)
             \/ \E how \in {"eof", "broken"} : EndScan(how)
    BY <2>2, QuietKeeps
  <2>3. CASE \E d \in Deltas : ReadToolCall(d)
    BY <2>3, PieceKeeps
  <2>4. QED BY <1>2, <2>1, <2>2, <2>3 DEF Scan
<1>3. CASE EmitCompleted
  BY <1>3, EmitKeeps
<1>4. CASE SubmitRecord
  BY <1>4, SubmitKeeps
<1>5. CASE WriteBlocks \/ WriteReturns
  BY <1>5, QuietKeeps
<1>6. CASE UNCHANGED vars
  BY <1>6, StutterKeeps
<1>7. QED BY <1>1, <1>2, <1>3, <1>4, <1>5, <1>6 DEF Next

\* The translator keeps its invariant in every behaviour.
THEOREM TranslatorInv == Spec => []IInv
<1>1. Init => IInv
  BY InitInv
<1>2. IInv /\ [Next]_vars => IInv'
  BY StepInv
<1>3. QED BY <1>1, <1>2, PTL DEF Spec

-----------------------------------------------------------------------------
(* The properties of the translator. *)

\* Its variables keep their types, for any pieces, ids and indexes: no step
\* loses a call, and none is in an array larger than the slice's.
THEOREM TranslatorTyped == Spec => []TypeOK
<1>1. IInv => TypeOK
  <2> SUFFICES ASSUME IInv PROVE TypeOK
    OBVIOUS
  <2>1. Typed
    BY DEF IInv
  <2>2. DOMAIN toolCalls = 1..Len(toolCalls)
    BY <2>1 DEF Typed
  <2>3. ASSUME NEW i \in DOMAIN toolCalls
        PROVE  /\ toolCalls[i].name \in Names
               /\ toolCalls[i].callID \in CallIds
               /\ toolCalls[i].args \in Seq(Pieces)
               /\ toolCalls[i].owner <= Capacity(Len(toolCalls))
    <3>1. toolCalls[i] \in Calls
      BY <2>1, <2>2, ElementOfSeq DEF Typed
    <3>2. toolCalls[i].owner <= Capacity(Len(toolCalls))
      BY <2>1, <2>2 DEF Typed
    <3>3. QED BY <3>1, <3>2 DEF Calls
  <2>4. QED BY <2>1, <2>3 DEF Typed, TypeOK
<1>2. QED BY <1>1, TranslatorInv, PTL

\* What is audited is what was sent: the deltas of the text add up to the text
\* of the record, and the usage is that of response.completed.
LEMMA Audited == IInv => AuditIsWhatWasSent
<1> SUFFICES ASSUME IInv, state = "submitted"
             PROVE  /\ audit.body = Streamed(0, "")
                    /\ audit.usage = Last(out).usage
                    /\ audit.error <=> ended = "broken"
  BY DEF AuditIsWhatWasSent
<1>1. Received(out, 0, "") = content /\ out \in Seq(Outs)
  BY DEF IInv, TextSent, Typed
<1>2. Streamed(0, "") = content
  BY <1>1, StreamedIs
<1>3. Last(out).usage = usage
  <2>1. Last(out) = [type |-> "completed", output |-> Output, usage |-> usage]
    BY DEF IInv, Accounted, Finished
  <2>2. QED BY <2>1
<1>4. audit.body = content /\ audit.usage = usage /\ (audit.error <=> ended = "broken")
  BY DEF IInv, Accounted
<1>5. QED BY <1>2, <1>3, <1>4

\* The record tells the text and the usage the client was sent, and whether the
\* scan broke off, for an upstream that sends anything too.
THEOREM AuditTruthful == Spec => []AuditIsWhatWasSent
<1>1. IInv => AuditIsWhatWasSent
  BY Audited
<1>2. QED BY <1>1, TranslatorInv, PTL

\* The items of response.completed: the message's if there is one, and then
\* one for each call, as its done event has it.
LEMMA OutputParts ==
    ASSUME Typed
    PROVE  \E message \in Seq(Shown), calls \in Seq(Shown) :
              /\ Output \in Seq(Shown) /\ Output = message \o calls
              /\ Len(message) = (IF HasMessage THEN 1 ELSE 0)
              /\ \A i \in 1..Len(message) : /\ message[i].index = 0
                                            /\ message[i].data = content
              /\ Len(calls) = Len(toolCalls)
              /\ \A i \in 1..Len(toolCalls) : /\ calls[i].index = i
                                              /\ calls[i].call = toolCalls[i].callID
                                              /\ calls[i].data = toolCalls[i].args
<1>1. PICK n \in Nat : n = Len(toolCalls)
  BY DEF Typed
<1>2. PICK calls : calls = [i \in 1..n |-> CallDone(i)[2]]
  OBVIOUS
<1>3. \A i \in 1..n : /\ calls[i] \in Shown /\ calls[i].index = i
                      /\ calls[i].call = toolCalls[i].callID
                      /\ calls[i].data = toolCalls[i].args
  <2> TAKE i \in 1..n
  <2>1. PICK args \in Tellers, item \in Tellers : CallDone(i) = <<args, item>> /\ item.index = i
    BY <1>1, CallDoneIs
  <2>2. calls[i] = item
    BY <1>2, <2>1
  <2>3. i # 0
    OBVIOUS
  <2>4. item \in Shown /\ Tells(item)
    BY DEF Tellers
  <2>5. item.call = toolCalls[i].callID /\ item.data = toolCalls[i].args
    BY <2>1, <2>3, <2>4 DEF Tells
  <2>6. QED BY <2>1, <2>2, <2>4, <2>5
<1>4. calls \in Seq(Shown) /\ Len(calls) = n
  BY <1>2, <1>3
<1>5. PICK message : message = IF HasMessage THEN <<Event("itemDone", 0, Message, content)>> ELSE <<>>
  OBVIOUS
<1>6. /\ message \in Seq(Shown) /\ Len(message) = (IF HasMessage THEN 1 ELSE 0)
      /\ \A i \in 1..Len(message) : message[i].index = 0 /\ message[i].data = content
  <2>1. PICK data \in Seq(Pieces) : data = content
    BY DEF Typed
  <2>2. "itemDone" \in Kinds
    BY DEF Kinds, Done
  <2>3. PICK item : item = Event("itemDone", 0, Message, data)
    OBVIOUS
  <2>4. item \in Shown /\ item.index = 0 /\ item.data = data
    BY <2>2, <2>3, EventTyped
  <2>5. CASE HasMessage
    <3>1. message = <<item>>
      BY <1>5, <2>1, <2>3, <2>5
    <3>2. message \in Seq(Shown) /\ Len(message) = 1 /\ message[1] = item
      BY <2>4, <3>1
    <3>3. \A i \in 1..1 : i = 1
      OBVIOUS
    <3>4. QED BY <2>1, <2>5, <2>4, <3>2, <3>3
  <2>6. CASE ~HasMessage
    <3>1. message = <<>>
      BY <1>5, <2>6
    <3>2. <<>> \in Seq(Shown) /\ Len(<<>>) = 0
      BY EmptySeq
    <3>3. QED BY <2>6, <3>1, <3>2
  <2>7. QED BY <2>5, <2>6
<1>7. Output = message \o calls
  BY <1>1, <1>2, <1>5 DEF Output
<1>8. Output \in Seq(Shown)
  BY <1>4, <1>6, <1>7, ConcatProperties
<1>9. Len(calls) = Len(toolCalls)
  BY <1>1, <1>4
<1>10. \A i \in 1..Len(toolCalls) : /\ calls[i].index = i
                                    /\ calls[i].call = toolCalls[i].callID
                                    /\ calls[i].data = toolCalls[i].args
  BY <1>1, <1>3
<1>11. QED
  <2>1. message \in Seq(Shown) /\ calls \in Seq(Shown)
    BY <1>4, <1>6
  <2>2. WITNESS message \in Seq(Shown), calls \in Seq(Shown)
  <2>3. QED BY <1>6, <1>7, <1>8, <1>9, <1>10

\* Where they are.
LEMMA OutputIs ==
    ASSUME Typed
    PROVE  \E before \in 0..1 :
              /\ before = IF HasMessage THEN 1 ELSE 0
              /\ Output \in Seq(Shown) /\ Len(Output) = before + Len(toolCalls)
              /\ \A i \in 1..before : /\ Output[i].index = 0
                                      /\ Output[i].data = content
              /\ \A i \in 1..Len(toolCalls) :
                    /\ Output[before + i].index = i
                    /\ Output[before + i].call = toolCalls[i].callID
                    /\ Output[before + i].data = toolCalls[i].args
<1>1. PICK message \in Seq(Shown), calls \in Seq(Shown) :
              /\ Output \in Seq(Shown) /\ Output = message \o calls
              /\ Len(message) = (IF HasMessage THEN 1 ELSE 0)
              /\ \A i \in 1..Len(message) : /\ message[i].index = 0
                                            /\ message[i].data = content
              /\ Len(calls) = Len(toolCalls)
              /\ \A i \in 1..Len(toolCalls) : /\ calls[i].index = i
                                              /\ calls[i].call = toolCalls[i].callID
                                              /\ calls[i].data = toolCalls[i].args
  BY OutputParts
<1>2. PICK before : before = IF HasMessage THEN 1 ELSE 0
  OBVIOUS
<1>3. before \in 0..1 /\ Len(message) = before
  BY <1>1, <1>2
<1>4. PICK n \in Nat : n = Len(toolCalls) /\ n = Len(calls)
  BY <1>1 DEF Typed
<1>5. PICK all : all = message \o calls
  OBVIOUS
<1>6. /\ Len(all) = before + n
      /\ \A k \in 1..(before + n) : all[k] = IF k <= before THEN message[k] ELSE calls[k - before]
  BY <1>3, <1>4, <1>5, ConcatProperties
<1>7. /\ \A i \in 1..before : i \in 1..(before + n) /\ i <= before
      /\ \A i \in 1..n : /\ before + i \in 1..(before + n) /\ ~(before + i <= before)
                          /\ (before + i) - before = i
  BY <1>3
<1>8. /\ \A i \in 1..before : all[i] = message[i]
      /\ \A i \in 1..n : all[before + i] = calls[i]
  BY <1>6, <1>7
<1>9. QED BY <1>1, <1>2, <1>3, <1>4, <1>5, <1>6, <1>8

\* The deltas of an item add up to what the done events and response.completed
\* tell of it.
LEMMA AddUp == IInv => DeltasAddUp
<1> SUFFICES ASSUME IInv, Finished, upstream # "sloppy"
             PROVE  /\ \A i \in DOMAIN out :
                          out[i].type \in {"textDone", "argsDone", "itemDone"} =>
                              out[i].data = Streamed(out[i].index, out[i].call)
                    /\ \A index \in 0..Len(toolCalls) :
                          Streamed(index, IF index = 0 THEN "" ELSE toolCalls[index].callID) # <<>> =>
                              \E i \in DOMAIN Last(out).output : Last(out).output[i].index = index
  BY DEF DeltasAddUp
<1>1. /\ Typed /\ out \in Seq(Outs) /\ DOMAIN out = 1..Len(out) /\ Len(toolCalls) \in Nat
      /\ Received(out, 0, "") = content
  <2>1. Typed /\ Received(out, 0, "") = content
    BY DEF IInv, TextSent
  <2>2. out \in Seq(Outs) /\ toolCalls \in Seq(Calls)
    BY <2>1 DEF Typed
  <2>3. QED BY <2>1, <2>2, LenProperties
<1>2. \A i \in 1..Len(toolCalls) : Received(out, i, toolCalls[i].callID) = toolCalls[i].args
  BY DEF IInv, CallsTold
<1>3. \A index, call : Streamed(index, call) = Received(out, index, call)
  BY <1>1, StreamedIs
<1>4. ASSUME NEW i \in DOMAIN out, out[i].type \in {"textDone", "argsDone", "itemDone"}
      PROVE  out[i].data = Streamed(out[i].index, out[i].call)
  <2>1. PICK e : e = out[i]
    OBVIOUS
  <2>2. Tells(e)
    BY <1>1, <1>4, <2>1 DEF IInv, DoneTold, Done
  <2>3. e.data = Received(out, e.index, e.call)
    BY <1>1, <1>2, <2>2 DEF Tells
  <2>4. QED BY <1>3, <2>1, <2>3
<1>5. ASSUME NEW index \in 0..Len(toolCalls),
             Streamed(index, IF index = 0 THEN "" ELSE toolCalls[index].callID) # <<>>
      PROVE  \E i \in DOMAIN Last(out).output : Last(out).output[i].index = index
  <2>1. PICK before \in 0..1 :
            /\ before = IF HasMessage THEN 1 ELSE 0
            /\ Output \in Seq(Shown) /\ Len(Output) = before + Len(toolCalls)
            /\ \A i \in 1..before : Output[i].index = 0
            /\ \A i \in 1..Len(toolCalls) : Output[before + i].index = i
    BY <1>1, OutputIs
  <2>2. PICK n \in Nat : n = Len(toolCalls)
    BY <1>1
  <2>3. DOMAIN Output = 1..(before + n)
    BY <2>1, <2>2, LenProperties
  <2>4. Last(out).output = Output
    <3>1. Last(out) = [type |-> "completed", output |-> Output, usage |-> usage]
      BY DEF IInv, Accounted
    <3>2. QED BY <3>1
  <2>5. \E i \in DOMAIN Output : Output[i].index = index
    <3>1. CASE index = 0
      <4>1. Received(out, 0, "") # <<>>
        BY <1>3, <1>5, <3>1
      <4>2. HasMessage
        BY <1>1, <4>1 DEF HasMessage
      <4>3. before = 1 /\ 1 \in 1..(before + n)
        BY <2>1, <4>2
      <4>4. Output[1].index = 0
        BY <2>1, <4>3
      <4>5. QED BY <2>3, <3>1, <4>3, <4>4
    <3>2. CASE index # 0
      <4>1. index \in 1..n /\ before + index \in 1..(before + n)
        BY <2>2, <3>2
      <4>2. QED BY <2>1, <2>2, <2>3, <4>1
    <3>3. QED BY <3>1, <3>2
  <2>6. QED BY <2>4, <2>5
<1>6. QED BY <1>4, <1>5

\* What the client adds up is what it is told at the end, of the message and of
\* every call, in whatever order the pieces of the calls came.
THEOREM DeltasComplete == Spec => []DeltasAddUp
<1>1. IInv => DeltasAddUp
  BY AddUp
<1>2. QED BY <1>1, TranslatorInv, PTL

\* The life of a call, written out.
LEMMA LifeInOrder ==
    ASSUME NEW events \in Seq(Shown), NEW done \in BOOLEAN, Lifecycle(events, done)
    PROVE  LET types == [i \in 1..Len(events) |-> events[i].type]
               deltas == [i \in 1..(Len(types) - IF done THEN 3 ELSE 1) |-> "delta"]
           IN  types = <<"added">> \o deltas \o IF done THEN <<"argsDone", "itemDone">> ELSE <<>>
<1>1. PICK types : types = [i \in 1..Len(events) |-> events[i].type]
  OBVIOUS
<1>2. Len(events) \in Nat /\ \A i \in 1..Len(events) : events[i].type \in Kinds
  <2>1. Len(events) \in Nat /\ \A i \in 1..Len(events) : events[i] \in Shown
    BY LenProperties, ElementOfSeq
  <2>2. QED BY <2>1 DEF Shown
<1>3. types \in Seq(Kinds) /\ Len(types) = Len(events)
  BY <1>1, <1>2
<1>4. PICK ends : ends = IF done THEN 2 ELSE 0
  OBVIOUS
<1>5. PICK n : n = Len(events) - ends
  OBVIOUS
<1>6. /\ n \in Nat /\ n >= 1 /\ Len(events) = n + ends /\ ends \in {0, 2}
      /\ events[1].type = "added"
      /\ \A k \in 2..n : events[k].type = "delta"
      /\ done => events[n + 1].type = "argsDone" /\ events[n + 2].type = "itemDone"
  <2>1. ends \in {0, 2}
    BY <1>4
  <2>2. /\ n >= 1 /\ events[1].type = "added"
        /\ \A k \in 2..n : events[k].type = "delta"
        /\ done => events[n + 1].type = "argsDone" /\ events[n + 2].type = "itemDone"
    BY <1>4, <1>5 DEF Lifecycle
  <2>3. QED BY <1>2, <1>5, <2>1, <2>2
<1>7. PICK deltas : deltas = [i \in 1..(n - 1) |-> "delta"]
  OBVIOUS
<1>8. PICK last : last = IF done THEN <<"argsDone", "itemDone">> ELSE <<>>
  OBVIOUS
<1>9. [i \in 1..(Len(types) - IF done THEN 3 ELSE 1) |-> "delta"] = deltas
  <2>1. Len(types) - (IF done THEN 3 ELSE 1) = n - 1
    BY <1>3, <1>4, <1>6
  <2>2. QED BY <1>7, <2>1
<1>10. deltas \in Seq(Kinds) /\ Len(deltas) = n - 1 /\ \A k \in 1..(n - 1) : deltas[k] = "delta"
  <2>1. "delta" \in Kinds
    BY DEF Kinds
  <2>2. n - 1 \in Nat
    BY <1>6
  <2>3. QED BY <1>7, <2>1, <2>2
<1>11. /\ last \in Seq(Kinds) /\ Len(last) = ends
       /\ done => last[1] = "argsDone" /\ last[2] = "itemDone"
  <2>1. CASE done
    <3>1. last = <<"argsDone", "itemDone">> /\ ends = 2
      BY <1>4, <1>8, <2>1
    <3>2. "argsDone" \in Kinds /\ "itemDone" \in Kinds
      BY DEF Kinds, Done
    <3>3. QED BY <3>1, <3>2, PairIs
  <2>2. CASE ~done
    <3>1. last = <<>> /\ ends = 0
      BY <1>4, <1>8, <2>2
    <3>2. <<>> \in Seq(Kinds) /\ Len(<<>>) = 0
      BY EmptySeq
    <3>3. QED BY <2>2, <3>1, <3>2
  <2>3. QED BY <2>1, <2>2
<1>12. PICK first : first = <<"added">>
  OBVIOUS
<1>13. first \in Seq(Kinds) /\ Len(first) = 1 /\ first[1] = "added"
  <2>1. "added" \in Kinds
    BY DEF Kinds
  <2>2. QED BY <1>12, <2>1
<1>14. PICK start : start = first \o deltas
  OBVIOUS
<1>15. /\ start \in Seq(Kinds) /\ Len(start) = n
       /\ start[1] = "added" /\ \A k \in 2..n : start[k] = "delta"
  <2>1. PICK m \in Nat : m = n - 1
    BY <1>6
  <2>2. deltas \in Seq(Kinds) /\ Len(deltas) = m
    BY <1>10, <2>1
  <2>3. /\ first \o deltas \in Seq(Kinds) /\ Len(first \o deltas) = Len(first) + Len(deltas)
        /\ \A k \in 1..(Len(first) + Len(deltas)) : (first \o deltas)[k] =
              IF k <= Len(first) THEN first[k] ELSE deltas[k - Len(first)]
    BY <1>13, <2>2, ConcatProperties
  <2>4. /\ start \in Seq(Kinds) /\ Len(start) = 1 + m
        /\ \A k \in 1..(1 + m) : start[k] = IF k <= 1 THEN first[k] ELSE deltas[k - 1]
    BY <1>13, <1>14, <2>2, <2>3
  <2>5. /\ 1 + m = n /\ 1 \in 1..n
        /\ \A k \in 2..n : k \in 1..n /\ ~(k <= 1) /\ k - 1 \in 1..(n - 1)
    BY <1>6, <2>1
  <2>6. QED BY <1>10, <1>13, <2>4, <2>5
<1>16. PICK whole : whole = start \o last
  OBVIOUS
<1>17. /\ whole \in Seq(Kinds) /\ Len(whole) = n + ends
       /\ \A k \in 1..n : whole[k] = start[k]
       /\ done => whole[n + 1] = "argsDone" /\ whole[n + 2] = "itemDone"
  <2>1. whole \in Seq(Kinds) /\ Len(whole) = n + ends
    BY <1>11, <1>15, <1>16, ConcatProperties
  <2>2. \A k \in 1..(n + ends) : whole[k] = IF k <= n THEN start[k] ELSE last[k - n]
    BY <1>11, <1>15, <1>16, ConcatProperties
  <2>3. \A k \in 1..n : k \in 1..(n + ends) /\ k <= n
    BY <1>6
  <2>4. ASSUME done PROVE whole[n + 1] = "argsDone" /\ whole[n + 2] = "itemDone"
    <3>1. /\ n + 1 \in 1..(n + ends) /\ ~(n + 1 <= n) /\ (n + 1) - n = 1
          /\ n + 2 \in 1..(n + ends) /\ ~(n + 2 <= n) /\ (n + 2) - n = 2
      BY <1>4, <1>6, <2>4
    <3>2. whole[n + 1] = last[1] /\ whole[n + 2] = last[2]
      BY <2>2, <3>1
    <3>3. QED BY <1>11, <2>4, <3>2
  <2>5. QED BY <2>1, <2>2, <2>3, <2>4
<1>18. ASSUME NEW k \in 1..Len(types) PROVE types[k] = whole[k]
  <2>1. types[k] = events[k].type /\ k \in 1..(n + ends)
    BY <1>1, <1>3, <1>6
  <2>2. CASE k = 1
    <3>1. whole[1] = "added"
      BY <1>6, <1>15, <1>17
    <3>2. QED BY <1>6, <2>1, <2>2, <3>1
  <2>3. CASE k \in 2..n
    <3>1. k \in 1..n
      BY <2>3
    <3>2. whole[k] = "delta"
      BY <1>15, <1>17, <2>3, <3>1
    <3>3. QED BY <1>6, <2>1, <2>3, <3>2
  <2>4. CASE k > n
    <3>1. done /\ (k = n + 1 \/ k = n + 2)
      BY <1>4, <1>6, <2>1, <2>4
    <3>2. QED BY <1>6, <1>17, <2>1, <3>1
  <2>5. k = 1 \/ k \in 2..n \/ k > n
    BY <1>6, <2>1
  <2>6. QED BY <2>2, <2>3, <2>4, <2>5
<1>19. types = whole
  <2>1. Len(types) = Len(whole)
    BY <1>3, <1>6, <1>17
  <2>2. QED BY <1>3, <1>17, <1>18, <2>1, SeqEqual
<1>20. QED BY <1>1, <1>8, <1>9, <1>12, <1>14, <1>16, <1>19

\* Each call is added, then written to, and done once.
LEMMA InOrder == IInv => CallEventsInOrder
<1> SUFFICES ASSUME IInv, upstream # "sloppy", NEW index \in 1..Len(toolCalls)
             PROVE  LET types == [i \in 1..Len(Events(index)) |-> Events(index)[i].type]
                        deltas == [i \in 1..(Len(types) - IF Finished THEN 3 ELSE 1) |-> "delta"]
                    IN  types = <<"added">> \o deltas \o
                                IF Finished THEN <<"argsDone", "itemDone">> ELSE <<>>
  BY DEF CallEventsInOrder
<1>1. out \in Seq(Outs)
  BY DEF IInv, Typed
<1>2. PICK events \in Seq(Shown) : events = Only(out, Of(index))
  <2>1. Only(out, Of(index)) \in Seq(Of(index)) /\ Of(index) \subseteq Shown
    BY <1>1, OnlyTyped DEF Of
  <2>2. QED BY <2>1, SeqMonotonic
<1>3. Events(index) = events
  BY <1>1, <1>2, StreamedIs
<1>4. Lifecycle(events, Finished)
  BY <1>2 DEF IInv, CallsTold
<1>5. CASE Finished
  <2>1. Finished = TRUE
    BY <1>5
  <2>2. Lifecycle(events, TRUE)
    BY <1>4, <2>1
  <2>3. QED BY <1>3, <2>1, <2>2, LifeInOrder
<1>6. CASE ~Finished
  <2>1. Finished = FALSE
    BY <1>6
  <2>2. Lifecycle(events, FALSE)
    BY <1>4, <2>1
  <2>3. QED BY <1>3, <2>1, <2>2, LifeInOrder
<1>7. QED BY <1>5, <1>6

\* Each call is added once, then written to, then done once, whatever the events
\* of the other calls in between.
THEOREM CallsInOrder == Spec => []CallEventsInOrder
<1>1. IInv => CallEventsInOrder
  BY InOrder
<1>2. QED BY <1>1, TranslatorInv, PTL

-----------------------------------------------------------------------------
(* Orderly upstreams. *)

Orderly == upstream = "orderly"

\* The last call has not been moved since it was written to.
Stands(calls) ==
    Len(calls) > 0 => calls[Len(calls)].owner \in {0, Capacity(Len(calls))}

\* The builders that an orderly upstream's next piece may be written to stand
\* where they were, so nothing panics.
NothingMoved == Orderly => Stands(toolCalls) /\ state # "panicked"

\* The piece of an orderly upstream is of the last call, or begins one.
LEMMA LastCall ==
    ASSUME Typed, Stands(toolCalls), Orderly, NEW d \in Deltas, Sends(d)
    PROVE  /\ d.index \in Nat /\ Len(Grown(d.index)) = d.index + 1
           /\ Grown(d.index)[d.index + 1] \in Calls
           /\ Grown(d.index)[d.index + 1].owner \in {0, Capacity(d.index + 1)}
<1>1. PICK n \in Nat : n = Len(toolCalls)
  BY DEF Typed
<1>2. PICK idx : idx = d.index
  OBVIOUS
<1>3. idx = n \/ (idx \in 0..(n - 1) /\ idx = n - 1)
  <2>1. Begins(d) \/ Continues(d)
    BY DEF Sends, Orderly
  <2>2. CASE Begins(d)
    BY <1>1, <1>2, <2>2 DEF Begins
  <2>3. CASE Continues(d)
    BY <1>1, <1>2, <2>3 DEF Continues, Orderly
  <2>4. QED BY <2>1, <2>2, <2>3
<1>4. idx \in Nat /\ Len(Grown(idx)) = idx + 1
      /\ (idx = n => Grown(idx)[idx + 1] = NoCall)
      /\ (idx # n => n > 0 /\ idx + 1 = n /\ Grown(idx) = toolCalls)
  <2>1. idx \in Nat
    BY <1>1, <1>3
  <2>2. /\ Len(Grown(idx)) = (IF idx < n THEN n ELSE idx + 1)
        /\ idx < n => Grown(idx) = toolCalls
        /\ idx >= n => Grown(idx)[idx + 1] = NoCall
    BY <1>1, <2>1, GrownIs
  <2>3. \/ idx = n /\ ~(idx < n) /\ idx >= n
        \/ idx # n /\ idx < n /\ n > 0 /\ idx + 1 = n
    BY <1>1, <1>3, <2>1
  <2>4. QED BY <2>1, <2>2, <2>3
<1>5. Grown(idx)[idx + 1] \in Calls
  <2>1. Grown(idx) \in Seq(Calls) /\ idx + 1 \in 1..Len(Grown(idx))
    BY <1>4, GrownIs
  <2>2. QED BY <2>1, ElementOfSeq
<1>6. Grown(idx)[idx + 1].owner \in {0, Capacity(idx + 1)}
  <2>1. CASE idx = n
    <3>1. NoCall.owner = 0
      BY DEF NoCall
    <3>2. QED BY <1>4, <2>1, <3>1
  <2>2. CASE idx # n
    BY <1>1, <1>4, <2>2 DEF Stands
  <2>3. QED BY <2>1, <2>2
<1>7. QED BY <1>2, <1>4, <1>5, <1>6

\* Such a piece is written where the call is, and leaves it there.
LEMMA OrderlyPiece ==
    ASSUME Typed, Stands(toolCalls), Orderly, NEW d \in Deltas, ReadToolCall(d)
    PROVE  state' = state /\ Stands(toolCalls')
<1>1. PICK idx : idx = d.index
  OBVIOUS
<1>2. PICK calls : calls = Grown(idx)
  OBVIOUS
<1>3. /\ idx \in Nat /\ Len(calls) = idx + 1
      /\ calls[idx + 1] \in Calls /\ calls[idx + 1].owner \in {0, Capacity(idx + 1)}
  <2>1. Sends(d)
    BY DEF ReadToolCall
  <2>2. QED BY <1>1, <1>2, <2>1, LastCall
<1>4. Capacity(idx + 1) \in Nat
  BY <1>2, <1>3, GrownIs
<1>5. PICK call : call = Named(calls[idx + 1], d)
  OBVIOUS
<1>6. call \in Calls /\ call.owner \in {0, Capacity(idx + 1)}
  BY <1>3, <1>5, NamedIs
<1>7. ASSUME NEW w \in Calls, w.owner \in {0, Capacity(idx + 1)},
             toolCalls' = [calls EXCEPT ![idx + 1] = w]
      PROVE  Stands(toolCalls')
  <2>1. w.owner <= Capacity(Len(Grown(idx)))
    BY <1>2, <1>3, <1>4, <1>7
  <2>2. Len(toolCalls') = idx + 1 /\ toolCalls'[idx + 1] = w
    BY <1>2, <1>3, <1>7, <2>1, CallWritten
  <2>3. QED BY <1>7, <2>2 DEF Stands
<1>8. NegativeIndex(d) \/ NoArguments(d) \/ Arguments(d)
  BY DEF ReadToolCall
<1>9. ~NegativeIndex(d)
  <2>1. ~(d.index < 0)
    BY <1>1, <1>3
  <2>2. QED BY <2>1 DEF NegativeIndex
<1>10. CASE NoArguments(d)
  <2>1. toolCalls' = [calls EXCEPT ![idx + 1] = call] /\ state' = state
    BY <1>1, <1>2, <1>5, <1>10 DEF NoArguments
  <2>2. QED BY <1>6, <1>7, <2>1
<1>11. CASE Arguments(d)
  <2>1. PICK w : w = [call EXCEPT !.args = Append(@, d.args), !.owner = Capacity(idx + 1)]
    OBVIOUS
  <2>2. toolCalls' = [calls EXCEPT ![idx + 1] = w] /\ state' = state
    BY <1>1, <1>2, <1>3, <1>5, <1>6, <1>11, <2>1 DEF Arguments
  <2>3. w \in Calls /\ w.owner = Capacity(idx + 1)
    <3>1. d.args \in Pieces /\ call.args \in Seq(Pieces)
      <4>1. d.args # "" /\ d.args \in Pieces \cup {""}
        BY <1>11 DEF Arguments, Deltas
      <4>2. call.args \in Seq(Pieces)
        BY <1>6 DEF Calls
      <4>3. QED BY <4>1, <4>2
    <3>2. PICK more \in Seq(Pieces) : more = Append(call.args, d.args)
      BY <3>1, AppendProperties
    <3>3. w = [call EXCEPT !.args = more, !.owner = Capacity(idx + 1)]
      BY <2>1, <3>2
    <3>4. QED BY <1>4, <1>6, <3>2, <3>3 DEF Calls
  <2>4. QED BY <1>7, <2>2, <2>3
<1>12. QED BY <1>8, <1>9, <1>10, <1>11

\* A stream whose calls come one after the other never meets the panic of a
\* moved builder, however often append moves the slice: what OrderlyCompletes
\* needs of safety, for any pieces, ids and number of calls.
THEOREM OrderlyNeverPanics == Spec => []NothingMoved
<1>1. Init => NothingMoved
  BY DEF Init, NothingMoved, Stands
<1>2. IInv /\ NothingMoved /\ [Next]_vars => NothingMoved'
  <2> SUFFICES ASSUME IInv, NothingMoved, [Next]_vars PROVE NothingMoved'
    OBVIOUS
  <2>1. upstream' = upstream
    BY DEF Next, Begin, Scan, ReadText, ReadReasoning, ReadUsage, ReadToolCall, Read, EndScan,
           WriteBlocks, WriteReturns, EmitCompleted, SubmitRecord, vars, streamVars
  <2>2. SUFFICES ASSUME Orderly PROVE Stands(toolCalls') /\ state' # "panicked"
    BY <2>1 DEF NothingMoved, Orderly, Stands
  <2>3. Typed /\ Stands(toolCalls) /\ state # "panicked"
    BY <2>2 DEF IInv, NothingMoved
  <2>4. CASE \E d \in Deltas : ReadToolCall(d)
    BY <2>2, <2>3, <2>4, OrderlyPiece
  <2>5. CASE \/ Begin \/ EmitCompleted \/ SubmitRecord \/ WriteBlocks \/ WriteReturns
             \/ UNCHANGED vars
             \/ \E text \in Pieces : ReadText(text)
             \/ ReadReasoning
             \/ \E tokens \in 1..2 : ReadUsage(tokens)
             \/ \E how \in {"eof", "broken"} : EndScan(how)
    <3>1. toolCalls' = toolCalls
      BY <2>5 DEF Begin, ReadText, ReadReasoning, ReadUsage, EndScan, WriteBlocks, WriteReturns,
                  EmitCompleted, SubmitRecord, vars, streamVars
    <3>2. state' # "panicked"
      BY <2>3, <2>5 DEF Begin, Read, ReadText, ReadReasoning, ReadUsage, EndScan, WriteBlocks,
                        WriteReturns, EmitCompleted, SubmitRecord, vars
    <3>3. QED BY <2>3, <3>1, <3>2
  <2>6. QED BY <2>4, <2>5 DEF Next, Scan
<1>3. QED BY <1>1, <1>2, TranslatorInv, PTL DEF Spec

-----------------------------------------------------------------------------
(* Conversation. *)

\* A conversation is the translator's behaviour with turns in between: every
\* step of it is a step of the translator or leaves the stream alone, so what
\* is proved of the translator holds in a conversation.
THEOREM ConversationImplementsTranslator == ConversationSpec => Spec
<1>1. ConversationInit => Init
  BY DEF ConversationInit
<1>2. [ConversationNext]_conversationVars => [Next]_vars
  <2> SUFFICES ASSUME [ConversationNext]_conversationVars PROVE Next \/ UNCHANGED vars
    OBVIOUS
  <2>1. CASE Next /\ UNCHANGED turnVars
    BY <2>1
  <2>2. CASE \E c \in Clients, prompt \in Prompts : NextTurn(c, prompt)
    BY <2>2 DEF NextTurn
  <2>3. CASE ForwardTurn
    BY <2>3 DEF ForwardTurn
  <2>4. CASE UNCHANGED conversationVars
    BY <2>4 DEF conversationVars
  <2>5. QED BY <2>1, <2>2, <2>3, <2>4 DEF ConversationNext
<1>3. QED BY <1>1, <1>2, PTL DEF ConversationSpec, Spec

\* After the record there is nothing left to do for the stream's handler.
LEMMA SubmittedIsLast == state = "submitted" => ~Next
BY DEF Next, Begin, Scan, ReadText, ReadReasoning, ReadUsage, ReadToolCall, Read, EndScan,
       WriteBlocks, WriteReturns, EmitCompleted, SubmitRecord

\* The second turn goes on with the stream of the first, and is forwarded as
\* it is converted.
TurnInv ==
    /\ client \in Clients \cup {"none"}
    /\ request # NoTurn =>
          /\ state = "submitted" /\ upstream # "sloppy"
          /\ \E prompt \in Prompts : request = Continued(prompt, client)
    /\ forwarded # NoTurn => request # NoTurn /\ forwarded = Convert(request)

\* What a client goes on with depends on the stream alone.
LEMMA SameContinued ==
    ASSUME out' = out, NEW c, client' = c
    PROVE  \A prompt \in Prompts : Continued(prompt, client)' = Continued(prompt, c)
BY DEF Continued, Last

\* No step of stream or client parts the second turn from the first.
LEMMA TurnKept == TurnInv /\ [ConversationNext]_conversationVars => TurnInv'
<1> SUFFICES ASSUME TurnInv, [ConversationNext]_conversationVars PROVE TurnInv'
  OBVIOUS
<1>1. CASE Next /\ UNCHANGED turnVars
  <2>1. state # "submitted"
    BY <1>1, SubmittedIsLast
  <2>2. request = NoTurn /\ forwarded = NoTurn
    BY <2>1 DEF TurnInv
  <2>3. QED BY <1>1, <2>2 DEF TurnInv, turnVars
<1>2. ASSUME NEW c \in Clients, NEW prompt \in Prompts, NextTurn(c, prompt)
      PROVE  TurnInv'
  <2>1. /\ state = "submitted" /\ state' = state /\ upstream # "sloppy" /\ upstream' = upstream
        /\ out' = out /\ client' = c /\ forwarded' = forwarded
        /\ request = NoTurn /\ request' = Continued(prompt, c)
    BY <1>2 DEF NextTurn, vars, streamVars
  <2>2. request' = Continued(prompt, client)'
    BY <2>1, SameContinued
  <2>3. forwarded' = NoTurn
    BY <2>1 DEF TurnInv
  <2>4. QED BY <2>1, <2>2, <2>3 DEF TurnInv
<1>3. ASSUME UNCHANGED <<state, upstream, out, client, request>>,
             \/ forwarded' = forwarded
             \/ request # NoTurn /\ forwarded' = Convert(request)
      PROVE  TurnInv'
  <2>1. \A prompt \in Prompts : Continued(prompt, client)' = Continued(prompt, client)
    BY <1>3, SameContinued
  <2>2. Convert(request)' = Convert(request)
    BY <1>3
  <2>3. QED BY <1>3, <2>1, <2>2 DEF TurnInv
<1>4. CASE ForwardTurn
  BY <1>3, <1>4 DEF ForwardTurn, vars, streamVars
<1>5. CASE UNCHANGED conversationVars
  BY <1>3, <1>5 DEF conversationVars, vars, streamVars, turnVars
<1>6. QED BY <1>1, <1>2, <1>4, <1>5 DEF ConversationNext

\* Stream and second turn keep their invariants in every conversation.
THEOREM ConversationInv == ConversationSpec => [](IInv /\ TurnInv)
<1>1. ConversationInit => TurnInv
  BY DEF ConversationInit, TurnInv
<1>2. TurnInv /\ [ConversationNext]_conversationVars => TurnInv'
  BY TurnKept
<1>3. ConversationSpec => []TurnInv
  BY <1>1, <1>2, PTL DEF ConversationSpec
<1>4. ConversationSpec => []IInv
  BY ConversationImplementsTranslator, TranslatorInv, PTL
<1>5. QED BY <1>3, <1>4, PTL

\* The variables of a conversation keep their types, and a second turn comes
\* after the record of the first.
THEOREM ConversationTyped == ConversationSpec => []ConversationTypeOK
<1>1. TurnInv /\ TypeOK => ConversationTypeOK
  BY DEF TurnInv, ConversationTypeOK
<1>2. ConversationSpec => []TypeOK
  BY ConversationImplementsTranslator, TranslatorTyped, PTL
<1>3. QED BY <1>1, <1>2, ConversationInv, PTL

\* In a conversation the stream keeps the translator's promises.
THEOREM ConversationPromises ==
    ConversationSpec => [](DeltasAddUp /\ CallEventsInOrder /\ AuditIsWhatWasSent)
BY ConversationImplementsTranslator, DeltasComplete, CallsInOrder, AuditTruthful, PTL

-----------------------------------------------------------------------------
(* The messages of the second turn. *)

Messages(items) == FlattenSeq([i \in DOMAIN items |-> ConvertItem(items[i])])

\* Items are converted one after the other.
LEMMA MessagesConcat ==
    ASSUME NEW I, NEW M, \A x \in I : ConvertItem(x) \in Seq(M),
           NEW a \in Seq(I), NEW b \in Seq(I)
    PROVE  /\ Messages(a \o b) = Messages(a) \o Messages(b)
           /\ Messages(a) \in Seq(M) /\ Messages(b) \in Seq(M)
<1> DEFINE S == Seq(M)
           Each(s) == [i \in DOMAIN s |-> ConvertItem(s[i])]
<1>1. \A x \in I : ConvertItem(x) \in S
  OBVIOUS
<1> HIDE DEF S
<1>2. ASSUME NEW s \in Seq(I) PROVE Each(s) \in Seq(S) /\ Len(Each(s)) = Len(s)
  <2>1. DOMAIN s = 1..Len(s) /\ Len(s) \in Nat /\ \A i \in 1..Len(s) : s[i] \in I
    BY LenProperties, ElementOfSeq
  <2>2. \A i \in 1..Len(s) : ConvertItem(s[i]) \in S
    BY <1>1, <2>1
  <2>3. QED BY <2>1, <2>2
<1>3. PICK ab \in Seq(I) : ab = a \o b
  BY ConcatProperties
<1>4. PICK m \in Nat, n \in Nat : m = Len(a) /\ n = Len(b)
  BY LenProperties
<1>5. /\ Len(ab) = m + n /\ DOMAIN ab = 1..(m + n) /\ DOMAIN a = 1..m /\ DOMAIN b = 1..n
      /\ \A i \in 1..(m + n) : ab[i] = IF i <= m THEN a[i] ELSE b[i - m]
  <2>1. /\ Len(a \o b) = Len(a) + Len(b)
        /\ \A i \in 1..(Len(a) + Len(b)) : (a \o b)[i] = IF i <= Len(a) THEN a[i] ELSE b[i - Len(a)]
    BY ConcatProperties
  <2>2. DOMAIN ab = 1..Len(ab) /\ DOMAIN a = 1..Len(a) /\ DOMAIN b = 1..Len(b)
    BY LenProperties
  <2>3. QED BY <1>3, <1>4, <2>1, <2>2
<1>6. PICK ea \in Seq(S), eb \in Seq(S), eab \in Seq(S) :
          /\ ea = Each(a) /\ eb = Each(b) /\ eab = Each(ab)
          /\ Len(ea) = m /\ Len(eb) = n /\ Len(eab) = m + n
  BY <1>2, <1>4, <1>5
<1>7. PICK joined : joined = ea \o eb
  OBVIOUS
<1>8. /\ joined \in Seq(S) /\ Len(joined) = m + n
      /\ \A i \in 1..(m + n) : joined[i] = IF i <= m THEN ea[i] ELSE eb[i - m]
  BY <1>6, <1>7, ConcatProperties
<1>9. ASSUME NEW i \in 1..Len(eab) PROVE eab[i] = joined[i]
  <2>1. i \in 1..(m + n) /\ (~(i <= m) => i - m \in 1..n) /\ (i <= m => i \in 1..m)
    BY <1>6
  <2>2. eab[i] = ConvertItem(ab[i])
    BY <1>5, <1>6, <2>1
  <2>3. CASE i <= m
    <3>1. ea[i] = ConvertItem(a[i])
      BY <1>5, <1>6, <2>1, <2>3
    <3>2. QED BY <1>5, <1>8, <2>1, <2>2, <2>3, <3>1
  <2>4. CASE ~(i <= m)
    <3>1. eb[i - m] = ConvertItem(b[i - m])
      BY <1>5, <1>6, <2>1, <2>4
    <3>2. QED BY <1>5, <1>8, <2>1, <2>2, <2>4, <3>1
  <2>5. QED BY <2>3, <2>4
<1>10. eab = joined
  BY <1>6, <1>8, <1>9, SeqEqual
<1>11. FlattenSeq(ea \o eb) = FlattenSeq(ea) \o FlattenSeq(eb)
  BY FlattenTwo DEF S
<1>12. FlattenSeq(ea) \in Seq(M) /\ FlattenSeq(eb) \in Seq(M)
  BY FlattenTyped DEF S
<1>13. Messages(a \o b) = FlattenSeq(eab) /\ Messages(a) = FlattenSeq(ea) /\ Messages(b) = FlattenSeq(eb)
  BY <1>3, <1>6 DEF Messages
<1>14. QED BY <1>7, <1>10, <1>11, <1>12, <1>13

\* Items that become one message each.
LEMMA MessagesOnes ==
    ASSUME NEW M, NEW t \in Seq(M), NEW I, NEW s \in Seq(I), Len(s) = Len(t),
           \A i \in 1..Len(t) : ConvertItem(s[i]) = <<t[i]>>
    PROVE  Messages(s) = t
<1>1. DOMAIN s = 1..Len(t)
  BY LenProperties
<1>2. [i \in DOMAIN s |-> ConvertItem(s[i])] = [i \in 1..Len(t) |-> <<t[i]>>]
  BY <1>1
<1>3. QED BY <1>2, FlattenOnes DEF Messages

\* What the upstream is told it said for an item it streamed.
Said(e, c) ==
    IF e.index = 0
    THEN ChatMessage("assistant", NormalizeContent(<<[type |-> "output_text", text |-> e.data]>>))
    ELSE [ChatMessage("assistant", <<>>) EXCEPT
             !.toolCalls = <<[id |-> Replayed(e, c).id, args |-> e.data]>>]

Answer(e) == ToolMessage(OutputItem(e.call))

\* A text of one part is that text.
LEMMA OneText ==
    ASSUME NEW text \in Seq(Pieces)
    PROVE  NormalizeContent(<<[type |-> "output_text", text |-> text]>>) = text
<1>1. PICK part : part = [type |-> "output_text", text |-> text]
  OBVIOUS
<1>2. part.type = "output_text" /\ part.text = text
  BY <1>1
<1>3. PICK one \in Seq({text}) : one = <<text>> /\ Len(one) = 1 /\ one[1] = text
  <2>1. <<text>> \in Seq({text})
    OBVIOUS
  <2>2. QED BY <2>1
<1>4. [i \in DOMAIN <<part>> |-> IF <<part>>[i].type \in {"output_text", "input_text", "text"}
                                 THEN <<part>>[i].text ELSE <<>>] = <<text>>
  BY <1>2
<1>5. NormalizeContent(<<part>>) = FlattenSeq(<<text>>)
  BY <1>4 DEF NormalizeContent
<1>6. FlattenSeq(<<text>>) = text
  <2> DEFINE S == Seq(Pieces)
  <2>1. PICK none \in Seq(S) : none = <<>>
    BY EmptySeq
  <2>2. Append(none, text) = <<text>>
    BY <2>1
  <2>3. FlattenSeq(Append(none, text)) = FlattenSeq(none) \o text
    BY FlattenAppend
  <2>4. FlattenSeq(none) = <<>>
    BY <2>1, FlattenTyped
  <2>5. <<>> \o text = text
    BY ConcatEmptySeq
  <2>6. QED BY <2>2, <2>3, <2>4, <2>5
<1>7. QED BY <1>1, <1>5, <1>6

\* The items a client sends back become an assistant's messages.
LEMMA SaidIs ==
    ASSUME NEW e \in Shown, NEW c
    PROVE  /\ ConvertItem(Replayed(e, c)) = <<Said(e, c)>>
           /\ Said(e, c).role = "assistant"
           /\ e.index = 0 => Said(e, c).text = e.data /\ Said(e, c).toolCalls = <<>>
           /\ e.index # 0 => /\ 1 \in DOMAIN Said(e, c).toolCalls
                             /\ Said(e, c).toolCalls[1].args = e.data
                             /\ c = "call id" => Said(e, c).toolCalls[1].id = <<"call", e.call>>
<1>1. CASE e.index = 0
  <2>1. PICK part : part = [type |-> "output_text", text |-> e.data]
    OBVIOUS
  <2>2. NormalizeContent(<<part>>) = e.data
    BY <2>1, OneText DEF Shown
  <2>3. Said(e, c) = ChatMessage("assistant", e.data)
    BY <1>1, <2>1, <2>2 DEF Said
  <2>4. PICK item : item = Replayed(e, c)
    OBVIOUS
  <2>5. item.type = "message" /\ item.role = "assistant" /\ item.parts = <<part>>
    BY <1>1, <2>1, <2>4 DEF Replayed, MessageItem
  <2>6. ConvertItem(item) = <<ChatMessage("assistant", e.data)>>
    BY <2>2, <2>5 DEF ConvertItem
  <2>7. QED BY <1>1, <2>3, <2>4, <2>6 DEF ChatMessage
<1>2. CASE e.index # 0
  <2>1. PICK item : item = Replayed(e, c)
    OBVIOUS
  <2>2. /\ item.type = "function_call" /\ item.args = e.data
        /\ c = "call id" => item.id = <<"call", e.call>>
    BY <1>2, <2>1 DEF Replayed, CallItem
  <2>3. PICK calls : calls = <<[id |-> item.id, args |-> e.data]>>
    OBVIOUS
  <2>4. Said(e, c) = [ChatMessage("assistant", <<>>) EXCEPT !.toolCalls = calls]
    BY <1>2, <2>1, <2>3 DEF Said
  <2>5. ConvertItem(item) = <<[ChatMessage("assistant", <<>>) EXCEPT !.toolCalls = calls]>>
    BY <2>2, <2>3 DEF ConvertItem
  <2>6. Said(e, c).role = "assistant" /\ Said(e, c).toolCalls = calls
    BY <2>4 DEF ChatMessage
  <2>7. 1 \in DOMAIN calls /\ calls[1].args = e.data /\ calls[1].id = item.id
    BY <2>3
  <2>8. QED BY <1>2, <2>1, <2>2, <2>4, <2>5, <2>6, <2>7
<1>3. QED BY <1>1, <1>2

\* The outputs become tool messages.
LEMMA AnswerIs ==
    ASSUME NEW e
    PROVE  /\ ConvertItem(OutputItem(e.call)) = <<Answer(e)>>
           /\ Answer(e).role = "tool" /\ Answer(e).answers = <<"call", e.call>>
<1>1. PICK item : item = OutputItem(e.call)
  OBVIOUS
<1>2. item.type = "function_call_output" /\ item.call = e.call
  BY <1>1 DEF OutputItem
<1>3. ConvertItem(item) = <<ToolMessage(item)>>
  BY <1>2 DEF ConvertItem
<1>4. ToolMessage(item).role = "tool" /\ ToolMessage(item).answers = <<"call", e.call>>
  BY <1>2 DEF ToolMessage, ChatMessage
<1>5. QED BY <1>1, <1>3, <1>4 DEF Answer

\* A prompt becomes messages that the model reads, and none of its own.
LEMMA PromptRead ==
    ASSUME NEW prompt \in Prompts
    PROVE  \E M : /\ \A m \in M : m.role \in {"system", "user"}
                  /\ \A x \in Range(prompt.input) : ConvertItem(x) \in Seq(M)
                  /\ ChatMessage("system", prompt.instructions) \in M
                  /\ prompt.input \in Seq(Range(prompt.input))
<1>1. PICK I : I = Range(prompt.input)
  OBVIOUS
<1>2. /\ prompt.input \in Seq(I)
      /\ \A x \in I : /\ x.type \notin {"function_call", "function_call_output"}
                      /\ x.type = "message" => x.role \in {"system", "developer", "user"}
  BY <1>1, ConversationAssumption
<1>3. PICK M : M = {ChatMessage("system", NormalizeContent(x.parts)) : x \in I}
                      \cup {ChatMessage("user", NormalizeContent(x.parts)) : x \in I}
                      \cup {ChatMessage("system", prompt.instructions)}
  OBVIOUS
<1>4. \A m \in M : m.role \in {"system", "user"}
  BY <1>3 DEF ChatMessage
<1>5. ASSUME NEW x \in I PROVE ConvertItem(x) \in Seq(M)
  <2>1. CASE x.type = "message"
    <3>1. PICK role \in {"system", "user"} : role = IF x.role = "developer" THEN "system" ELSE x.role
      BY <1>2, <2>1
    <3>2. PICK m \in M : m = ChatMessage(role, NormalizeContent(x.parts))
      BY <1>3
    <3>3. ConvertItem(x) = <<m>>
      BY <2>1, <3>1, <3>2 DEF ConvertItem
    <3>4. QED BY <3>3
  <2>2. CASE x.type # "message"
    <3>1. ConvertItem(x) = <<>>
      BY <1>2, <2>2 DEF ConvertItem
    <3>2. QED BY <3>1, EmptySeq
  <2>3. QED BY <2>1, <2>2
<1>6. ChatMessage("system", prompt.instructions) \in M
  BY <1>3
<1>7. QED BY <1>1, <1>2, <1>4, <1>5, <1>6

\* What the client was given, and the calls among it.
LEMMA GivenIs ==
    ASSUME IInv, Finished, NEW given, given = Last(out).output
    PROVE  /\ given = Output /\ given \in Seq(Shown) /\ Typed
           /\ \E calls \in Seq(Shown) :
                 /\ Pick(given, {i \in DOMAIN given : given[i].index > 0}) = calls
                 /\ Len(calls) = Len(toolCalls)
                 /\ \A i \in 1..Len(toolCalls) : calls[i].call = toolCalls[i].callID
<1>1. Typed /\ Last(out) = [type |-> "completed", output |-> Output, usage |-> usage]
  BY DEF IInv, Accounted
<1>2. given = Output
  BY <1>1
<1>3. PICK message \in Seq(Shown), calls \in Seq(Shown) :
              /\ Output \in Seq(Shown) /\ Output = message \o calls
              /\ \A i \in 1..Len(message) : message[i].index = 0
              /\ Len(calls) = Len(toolCalls)
              /\ \A i \in 1..Len(toolCalls) : /\ calls[i].index = i
                                              /\ calls[i].call = toolCalls[i].callID
  BY <1>1, OutputParts
<1>4. PICK U : U = {e \in Shown : e.index > 0}
  OBVIOUS
<1>5. Pick(given, {i \in DOMAIN given : given[i].index > 0}) = Only(given, U)
  <2>1. \A i \in DOMAIN given : given[i] \in Shown
    BY <1>2, <1>3, LenProperties, ElementOfSeq
  <2>2. {i \in DOMAIN given : given[i].index > 0} = {i \in DOMAIN given : given[i] \in U}
    BY <1>4, <2>1
  <2>3. QED BY <2>2 DEF Only
<1>6. Only(message, U) = <<>>
  <2>1. \A i \in 1..Len(message) : message[i] \notin U
    BY <1>3, <1>4
  <2>2. QED BY <2>1, OnlyTyped
<1>7. Only(calls, U) = calls
  <2>1. \A i \in 1..Len(calls) : calls[i] \in Shown
    BY ElementOfSeq
  <2>2. \A i \in 1..Len(calls) : calls[i] \in U
    BY <1>3, <1>4, <2>1
  <2>3. Len(calls) \in Nat /\ calls = [i \in 1..Len(calls) |-> calls[i]]
    BY LenProperties
  <2>4. calls \in Seq(U)
    BY <2>2, <2>3
  <2>5. QED BY <2>4, OnlyAll
<1>8. Only(given, U) = calls
  <2>1. Only(message \o calls, U) = Only(message, U) \o Only(calls, U)
    BY OnlyConcat
  <2>2. <<>> \o calls = calls
    BY ConcatEmptySeq
  <2>3. QED BY <1>2, <1>3, <1>6, <1>7, <2>1, <2>2
<1>9. QED BY <1>1, <1>2, <1>3, <1>5, <1>8

MadeOf(messages, before, said, answers, c) ==
    /\ messages = (before \o said) \o answers
    /\ \A i \in 1..Len(before) : before[i].role \in {"system", "user"}
    /\ Len(said) = Len(Output)
    /\ \A i \in 1..Len(said) : said[i] = Said(Output[i], c)
    /\ Len(answers) = Len(toolCalls)
    /\ \A i \in 1..Len(answers) : /\ answers[i].role = "tool"
                                  /\ answers[i].answers = <<"call", toolCalls[i].callID>>

\* The messages of the second turn: those of the prompt, one for each item the
\* upstream streamed, and one for each output.
LEMMA TurnMessages ==
    ASSUME IInv, Finished, NEW prompt \in Prompts, NEW c
    PROVE  \E M : \E before \in Seq(M), said \in Seq(M), answers \in Seq(M) :
              MadeOf(Convert(Continued(prompt, c)).messages, before, said, answers, c)
<1>1. PICK given : given = Last(out).output
  OBVIOUS
<1>2. given = Output /\ given \in Seq(Shown) /\ Typed
  BY <1>1, GivenIs
<1>3. PICK calls \in Seq(Shown) :
          /\ Pick(given, {i \in DOMAIN given : given[i].index > 0}) = calls
          /\ Len(calls) = Len(toolCalls)
          /\ \A i \in 1..Len(toolCalls) : calls[i].call = toolCalls[i].callID
  BY <1>1, GivenIs
<1>4. PICK N : /\ \A m \in N : m.role \in {"system", "user"}
               /\ \A x \in Range(prompt.input) : ConvertItem(x) \in Seq(N)
               /\ ChatMessage("system", prompt.instructions) \in N
               /\ prompt.input \in Seq(Range(prompt.input))
  BY PromptRead
<1>5. PICK m \in Nat, n \in Nat : m = Len(given) /\ n = Len(calls)
  BY <1>2, LenProperties
<1>6. DOMAIN given = 1..m /\ DOMAIN calls = 1..n
  BY <1>2, <1>5, LenProperties
<1>7. PICK replayed, outputs : /\ replayed = [i \in 1..m |-> Replayed(given[i], c)]
                               /\ outputs = [i \in 1..n |-> OutputItem(calls[i].call)]
  OBVIOUS
<1>8. PICK said, answers : /\ said = [i \in 1..m |-> Said(given[i], c)]
                           /\ answers = [i \in 1..n |-> Answer(calls[i])]
  OBVIOUS
<1>9. PICK M : M = N \cup {said[i] : i \in 1..m} \cup {answers[i] : i \in 1..n}
  OBVIOUS
<1>10. PICK I : I = Range(prompt.input) \cup {replayed[i] : i \in 1..m} \cup {outputs[i] : i \in 1..n}
  OBVIOUS
<1>11. /\ \A i \in 1..m : ConvertItem(replayed[i]) = <<said[i]>>
       /\ \A i \in 1..n : ConvertItem(outputs[i]) = <<answers[i]>>
  <2>1. \A i \in 1..m : given[i] \in Shown
    BY <1>2, <1>5, ElementOfSeq
  <2>2. \A i \in 1..m : ConvertItem(Replayed(given[i], c)) = <<Said(given[i], c)>>
    BY <2>1, SaidIs
  <2>3. \A i \in 1..n : ConvertItem(OutputItem(calls[i].call)) = <<Answer(calls[i])>>
    BY AnswerIs
  <2>4. QED BY <1>7, <1>8, <2>2, <2>3
<1>12. \A x \in I : ConvertItem(x) \in Seq(M)
  <2>1. ASSUME NEW x \in Range(prompt.input) PROVE ConvertItem(x) \in Seq(M)
    <3>1. N \subseteq M
      BY <1>9
    <3>2. QED BY <1>4, <3>1, SeqMonotonic
  <2>2. ASSUME NEW i \in 1..m PROVE ConvertItem(replayed[i]) \in Seq(M)
    <3>1. said[i] \in M
      BY <1>9
    <3>2. <<said[i]>> \in Seq(M)
      BY <3>1, PairIs
    <3>3. QED BY <1>11, <3>2
  <2>3. ASSUME NEW i \in 1..n PROVE ConvertItem(outputs[i]) \in Seq(M)
    <3>1. answers[i] \in M
      BY <1>9
    <3>2. <<answers[i]>> \in Seq(M)
      BY <3>1, PairIs
    <3>3. QED BY <1>11, <3>2
  <2>4. QED BY <1>10, <2>1, <2>2, <2>3
<1>13. /\ replayed \in Seq(I) /\ Len(replayed) = m
       /\ outputs \in Seq(I) /\ Len(outputs) = n
  BY <1>7, <1>10
<1>14. PICK input \in Seq(I) : input = prompt.input
  <2>1. Range(prompt.input) \subseteq I
    BY <1>10
  <2>2. QED BY <1>4, <2>1, SeqMonotonic
<1>15. /\ said \in Seq(M) /\ Len(said) = m
       /\ answers \in Seq(M) /\ Len(answers) = n
  BY <1>8, <1>9
<1>16. Messages(replayed) = said
  BY <1>11, <1>13, <1>15, MessagesOnes
<1>17. Messages(outputs) = answers
  BY <1>11, <1>13, <1>15, MessagesOnes
<1>18. PICK read \in Seq(M) : read = Messages(input)
  BY <1>12, MessagesConcat
<1>19. PICK inputs \in Seq(I) : inputs = input \o replayed
  BY <1>13, ConcatProperties
<1>20. Messages(inputs \o outputs) = (read \o said) \o answers
  <2>1. Messages(inputs) = Messages(input) \o Messages(replayed)
    BY <1>12, <1>13, <1>19, MessagesConcat
  <2>2. Messages(inputs \o outputs) = Messages(inputs) \o Messages(outputs)
    BY <1>12, <1>13, MessagesConcat
  <2>3. QED BY <1>16, <1>17, <1>18, <2>1, <2>2
<1>21. PICK system : system = IF prompt.instructions = <<>> THEN <<>>
                              ELSE <<ChatMessage("system", prompt.instructions)>>
  OBVIOUS
<1>22. system \in Seq(M) /\ system \in Seq(N)
  <2>1. PICK message \in N : message = ChatMessage("system", prompt.instructions)
    BY <1>4
  <2>2. message \in M
    BY <1>9
  <2>3. /\ <<message>> \in Seq(M) /\ <<message>> \in Seq(N)
        /\ <<>> \in Seq(M) /\ <<>> \in Seq(N)
    BY <2>2, PairIs, EmptySeq
  <2>4. QED BY <1>21, <2>1, <2>3
<1>23. PICK before \in Seq(M) : before = system \o read
  BY <1>22, ConcatProperties
<1>24. \A i \in 1..Len(before) : before[i].role \in {"system", "user"}
  <2>1. read \in Seq(N)
    <3>1. prompt.input \in Seq(Range(prompt.input))
      BY <1>4
    <3>2. Messages(prompt.input) \in Seq(N)
      BY <1>4, <3>1, MessagesConcat
    <3>3. QED BY <1>14, <1>18, <3>2
  <2>2. before \in Seq(N)
    BY <1>22, <1>23, <2>1, ConcatProperties
  <2>3. \A i \in 1..Len(before) : before[i] \in N
    BY <2>2, ElementOfSeq
  <2>4. QED BY <1>4, <2>3
<1>25. Convert(Continued(prompt, c)).messages = (before \o said) \o answers
  <2>1. PICK req : req = Continued(prompt, c)
    OBVIOUS
  <2>2. req.instructions = prompt.instructions /\ req.input = inputs \o outputs
    BY <1>1, <1>3, <1>6, <1>7, <1>14, <1>19, <2>1 DEF Continued
  <2>3. Convert(req).messages = system \o Messages(req.input)
    BY <1>21, <2>2 DEF Convert, Messages
  <2>4. system \o ((read \o said) \o answers) = ((system \o read) \o said) \o answers
    <3>1. Joined(system, Joined(Joined(read, said), answers))
             = Joined(Joined(Joined(system, read), said), answers)
      BY <1>15, <1>22, Regrouped
    <3>2. QED BY <3>1 DEF Joined
  <2>5. QED BY <1>20, <1>23, <2>1, <2>2, <2>3, <2>4
<1>26. \A i \in 1..n : /\ answers[i].role = "tool"
                       /\ answers[i].answers = <<"call", toolCalls[i].callID>>
  <2> TAKE i \in 1..n
  <2>1. answers[i] = Answer(calls[i])
    BY <1>8
  <2>2. calls[i].call = toolCalls[i].callID
    BY <1>3, <1>5
  <2>3. QED BY <2>1, <2>2, AnswerIs
<1>27. QED
  <2>1. Len(said) = Len(Output) /\ \A i \in 1..Len(said) : said[i] = Said(Output[i], c)
    BY <1>2, <1>5, <1>8, <1>15
  <2>2. Len(answers) = Len(toolCalls)
    BY <1>3, <1>5, <1>15
  <2>3. MadeOf(Convert(Continued(prompt, c)).messages, before, said, answers, c)
    BY <1>15, <1>24, <1>25, <1>26, <2>1, <2>2 DEF MadeOf
  <2>4. QED BY <1>15, <2>3

\* Which of the messages are whose, and where.
Located(messages, M, before, said, answers) ==
    /\ messages \in Seq(M)
    /\ Len(messages) = (Len(before) + Len(said)) + Len(answers)
    /\ \A i \in 1..Len(before) : messages[i] = before[i]
    /\ \A i \in 1..Len(said) : messages[Len(before) + i] = said[i]
    /\ \A i \in 1..Len(answers) : messages[(Len(before) + Len(said)) + i] = answers[i]
    /\ Pick(messages, {i \in DOMAIN messages : messages[i].role = "assistant"}) = said

\* The assistant's messages are exactly the middle part of a conversation,
\* and each part is where the lengths before it say.
LEMMA WhoSaysWhat ==
    ASSUME NEW M, NEW before \in Seq(M), NEW said \in Seq(M), NEW answers \in Seq(M),
           \A i \in 1..Len(before) : before[i].role \in {"system", "user"},
           \A i \in 1..Len(said) : said[i].role = "assistant",
           \A i \in 1..Len(answers) : answers[i].role = "tool",
           NEW messages, messages = (before \o said) \o answers
    PROVE  Located(messages, M, before, said, answers)
<1>1. PICK b \in Nat, s \in Nat, a \in Nat : b = Len(before) /\ s = Len(said) /\ a = Len(answers)
  BY LenProperties
<1>2. PICK front \in Seq(M) : front = before \o said
  BY ConcatProperties
<1>3. /\ Len(front) = b + s
      /\ \A i \in 1..(b + s) : front[i] = IF i <= b THEN before[i] ELSE said[i - b]
  BY <1>1, <1>2, ConcatProperties
<1>4. /\ messages \in Seq(M) /\ Len(messages) = (b + s) + a
      /\ \A i \in 1..((b + s) + a) : messages[i] = IF i <= b + s THEN front[i] ELSE answers[i - (b + s)]
  <2>1. PICK f \in Nat : f = b + s
    OBVIOUS
  <2>2. messages = front \o answers /\ Len(front) = f
    BY <1>2, <1>3, <2>1
  <2>3. PICK all : all = front \o answers
    OBVIOUS
  <2>4. /\ all \in Seq(M) /\ Len(all) = Len(front) + Len(answers)
        /\ \A i \in 1..(Len(front) + Len(answers)) :
              all[i] = IF i <= Len(front) THEN front[i] ELSE answers[i - Len(front)]
    BY <2>3, ConcatProperties
  <2>5. QED BY <1>1, <2>1, <2>2, <2>3, <2>4
<1>5. ASSUME NEW i \in 1..b PROVE messages[i] = before[i]
  <2>1. i \in 1..(b + s) /\ i \in 1..((b + s) + a) /\ i <= b + s /\ i <= b
    OBVIOUS
  <2>2. QED BY <1>3, <1>4, <2>1
<1>6. ASSUME NEW i \in 1..s PROVE messages[b + i] = said[i]
  <2>1. /\ b + i \in 1..(b + s) /\ b + i \in 1..((b + s) + a) /\ b + i <= b + s
        /\ ~(b + i <= b) /\ (b + i) - b = i
    OBVIOUS
  <2>2. QED BY <1>3, <1>4, <2>1
<1>7. ASSUME NEW i \in 1..a PROVE messages[(b + s) + i] = answers[i]
  <2>1. /\ (b + s) + i \in 1..((b + s) + a) /\ ~((b + s) + i <= b + s)
        /\ ((b + s) + i) - (b + s) = i
    OBVIOUS
  <2>2. QED BY <1>4, <2>1
<1>8. PICK U : U = {m \in M : m.role = "assistant"}
  OBVIOUS
<1>9. Pick(messages, {i \in DOMAIN messages : messages[i].role = "assistant"}) = Only(messages, U)
  <2>1. \A i \in DOMAIN messages : messages[i] \in M
    BY <1>4, LenProperties, ElementOfSeq
  <2>2. {i \in DOMAIN messages : messages[i].role = "assistant"} = {i \in DOMAIN messages : messages[i] \in U}
    BY <1>8, <2>1
  <2>3. QED BY <2>2 DEF Only
<1>10. Only(before, U) = <<>> /\ Only(answers, U) = <<>>
  <2>1. \A i \in 1..Len(before) : before[i] \notin U
    BY <1>8
  <2>2. \A i \in 1..Len(answers) : answers[i] \notin U
    BY <1>8
  <2>3. QED BY <2>1, <2>2, OnlyTyped
<1>11. Only(said, U) = said
  <2>1. \A i \in 1..Len(said) : said[i] \in U
    BY <1>8, ElementOfSeq
  <2>2. said \in Seq(U)
    BY <2>1, SeqInto
  <2>3. QED BY <2>2, OnlyAll
<1>12. Only(front, U) = said
  <2>1. Only(before \o said, U) = Only(before, U) \o Only(said, U)
    BY OnlyConcat
  <2>2. <<>> \o said = said
    BY ConcatEmptySeq
  <2>3. QED BY <1>2, <1>10, <1>11, <2>1, <2>2
<1>13. Only(messages, U) = said
  <2>1. Only(front \o answers, U) = Only(front, U) \o Only(answers, U)
    BY OnlyConcat
  <2>2. said \o <<>> = said
    BY ConcatEmptySeq
  <2>3. QED BY <1>2, <1>10, <1>12, <2>1, <2>2
<1>14. QED BY <1>1, <1>4, <1>5, <1>6, <1>7, <1>9, <1>13 DEF Located

\* The parts of the second turn: what the prompt says, what the upstream said,
\* and the answers to its calls.
Apart(before, said, answers) ==
    /\ forwarded.messages = (before \o said) \o answers
    /\ \A i \in 1..Len(before) : before[i].role \in {"system", "user"}
    /\ \A i \in 1..Len(said) : said[i].role = "assistant"
    /\ \A i \in 1..Len(answers) : answers[i].role = "tool"
    /\ Len(said) = (IF HasMessage THEN 1 ELSE 0) + Len(toolCalls)
    /\ HasMessage => said[1].text = content /\ said[1].toolCalls = <<>>
    /\ Len(answers) = Len(toolCalls)
    /\ \A i \in 1..Len(toolCalls) :
          LET call == said[(IF HasMessage THEN 1 ELSE 0) + i].toolCalls
          IN  /\ 1 \in DOMAIN call
              /\ call[1].args = toolCalls[i].args
              /\ client = "call id" => call[1].id = answers[i].answers

\* A forwarded second turn, taken apart.
LEMMA Forwarded ==
    ASSUME IInv, TurnInv, forwarded # NoTurn
    PROVE  /\ Typed /\ Finished /\ upstream # "sloppy" /\ Len(toolCalls) \in Nat
           /\ \E M : \E before \in Seq(M), said \in Seq(M), answers \in Seq(M) :
                 Apart(before, said, answers)
<1>1. request # NoTurn /\ forwarded = Convert(request)
  BY DEF TurnInv
<1>2. state = "submitted" /\ upstream # "sloppy"
  BY <1>1 DEF TurnInv
<1>3. PICK prompt \in Prompts : request = Continued(prompt, client)
  BY <1>1 DEF TurnInv
<1>4. Finished
  BY <1>2 DEF Finished
<1>5. Typed
  BY DEF IInv
<1>6. PICK n \in Nat : n = Len(toolCalls)
  BY <1>5 DEF Typed
<1>7. PICK M : \E before \in Seq(M), said \in Seq(M), answers \in Seq(M) :
              MadeOf(Convert(Continued(prompt, client)).messages, before, said, answers, client)
  BY <1>4, TurnMessages
<1>8. PICK before \in Seq(M), said \in Seq(M), answers \in Seq(M) :
              MadeOf(forwarded.messages, before, said, answers, client)
  BY <1>1, <1>3, <1>7
<1>9. PICK h \in 0..1 :
              /\ h = IF HasMessage THEN 1 ELSE 0
              /\ Output \in Seq(Shown) /\ Len(Output) = h + n
              /\ \A i \in 1..h : /\ Output[i].index = 0
                                 /\ Output[i].data = content
              /\ \A i \in 1..n : /\ Output[h + i].index = i
                                 /\ Output[h + i].call = toolCalls[i].callID
                                 /\ Output[h + i].data = toolCalls[i].args
  BY <1>5, <1>6, OutputIs
<1>10. ASSUME NEW i \in 1..(h + n)
       PROVE  /\ Output[i] \in Shown /\ said[i] = Said(Output[i], client)
              /\ said[i].role = "assistant"
  <2>1. Output[i] \in Shown
    BY <1>9, ElementOfSeq
  <2>2. said[i] = Said(Output[i], client)
    BY <1>8, <1>9 DEF MadeOf
  <2>3. QED BY <2>1, <2>2, SaidIs
<1>11. ASSUME HasMessage PROVE said[1].text = content /\ said[1].toolCalls = <<>>
  <2>1. h = 1 /\ 1 \in 1..h /\ 1 \in 1..(h + n)
    BY <1>9, <1>11
  <2>2. PICK e \in Shown : e = Output[1] /\ said[1] = Said(e, client)
    BY <1>10, <2>1
  <2>3. e.index = 0 /\ e.data = content
    BY <1>9, <2>1, <2>2
  <2>4. Said(e, client).text = e.data /\ Said(e, client).toolCalls = <<>>
    BY <2>3, SaidIs
  <2>5. QED BY <2>2, <2>3, <2>4
<1>12. ASSUME NEW i \in 1..n
       PROVE  /\ 1 \in DOMAIN said[h + i].toolCalls
              /\ said[h + i].toolCalls[1].args = toolCalls[i].args
              /\ client = "call id" => said[h + i].toolCalls[1].id = answers[i].answers
  <2>1. h + i \in 1..(h + n) /\ i # 0
    OBVIOUS
  <2>2. PICK e \in Shown : e = Output[h + i] /\ said[h + i] = Said(e, client)
    BY <1>10, <2>1
  <2>3. e.index # 0 /\ e.call = toolCalls[i].callID /\ e.data = toolCalls[i].args
    BY <1>9, <2>1, <2>2
  <2>4. /\ 1 \in DOMAIN Said(e, client).toolCalls
        /\ Said(e, client).toolCalls[1].args = e.data
        /\ client = "call id" => Said(e, client).toolCalls[1].id = <<"call", e.call>>
    BY <2>3, SaidIs
  <2>5. answers[i].answers = <<"call", toolCalls[i].callID>>
    BY <1>6, <1>8 DEF MadeOf
  <2>6. QED BY <2>2, <2>3, <2>4, <2>5
<1>13. Len(said) = (IF HasMessage THEN 1 ELSE 0) + Len(toolCalls)
  BY <1>6, <1>8, <1>9 DEF MadeOf
<1>14. \A i \in 1..Len(said) : said[i].role = "assistant"
  BY <1>8, <1>9, <1>10 DEF MadeOf
<1>15. \A i \in 1..Len(toolCalls) :
          LET call == said[(IF HasMessage THEN 1 ELSE 0) + i].toolCalls
          IN  /\ 1 \in DOMAIN call
              /\ call[1].args = toolCalls[i].args
              /\ client = "call id" => call[1].id = answers[i].answers
  BY <1>6, <1>9, <1>12
<1>16. \A i \in 1..Len(answers) : answers[i].role = "tool"
  BY <1>8 DEF MadeOf
<1>17. Apart(before, said, answers)
  BY <1>8, <1>11, <1>13, <1>14, <1>15, <1>16 DEF Apart, MadeOf
<1>18. \E b \in Seq(M), s \in Seq(M), a \in Seq(M) : Apart(b, s, a)
  BY <1>17
<1>19. Len(toolCalls) \in Nat
  BY <1>6
<1>20. QED BY <1>2, <1>4, <1>5, <1>18, <1>19

\* What the messages are, where.
PlacedAt(b, h, n, messages, said) ==
    /\ h = (IF HasMessage THEN 1 ELSE 0) /\ n = Len(toolCalls)
    /\ Len(messages) = (b + (h + n)) + n /\ Len(said) = h + n
    /\ DOMAIN messages = 1..Len(messages)
    /\ \A i \in 1..b : messages[i].role \in {"system", "user"}
    /\ \A i \in 1..(h + n) : messages[b + i] = said[i] /\ said[i].role = "assistant"
    /\ \A i \in 1..n : messages[(b + (h + n)) + i].role = "tool"
    /\ HasMessage => said[1].text = content /\ said[1].toolCalls = <<>>
    /\ \A i \in 1..n :
          LET call == said[h + i].toolCalls
          IN  /\ 1 \in DOMAIN call
              /\ call[1].args = toolCalls[i].args
              /\ client = "call id" => call[1].id = messages[(b + (h + n)) + i].answers

\* Where in the forwarded request the messages of prompt, stream and tools are.
LEMMA Placed ==
    ASSUME IInv, TurnInv, forwarded # NoTurn
    PROVE  \E b \in Nat, h \in 0..1, n \in Nat :
              PlacedAt(b, h, n, forwarded.messages, Saying("assistant"))
<1>1. PICK M : \E before \in Seq(M), said \in Seq(M), answers \in Seq(M) : Apart(before, said, answers)
  BY Forwarded
<1>2. PICK before \in Seq(M), said \in Seq(M), answers \in Seq(M) : Apart(before, said, answers)
  BY <1>1
<1>3. PICK n \in Nat : n = Len(toolCalls)
  BY Forwarded
<1>4. PICK h \in 0..1 : h = IF HasMessage THEN 1 ELSE 0
  OBVIOUS
<1>5. PICK b \in Nat : b = Len(before)
  BY LenProperties
<1>6. PICK messages : messages = forwarded.messages
  OBVIOUS
<1>7. /\ messages = (before \o said) \o answers
      /\ \A i \in 1..Len(before) : before[i].role \in {"system", "user"}
      /\ \A i \in 1..Len(said) : said[i].role = "assistant"
      /\ \A i \in 1..Len(answers) : answers[i].role = "tool"
      /\ Len(said) = h + n /\ Len(answers) = n
      /\ HasMessage => said[1].text = content /\ said[1].toolCalls = <<>>
      /\ \A i \in 1..n : /\ 1 \in DOMAIN said[h + i].toolCalls
                         /\ said[h + i].toolCalls[1].args = toolCalls[i].args
                         /\ client = "call id" => said[h + i].toolCalls[1].id = answers[i].answers
  BY <1>2, <1>3, <1>4, <1>6 DEF Apart
<1>8. /\ messages \in Seq(M)
      /\ Len(messages) = (Len(before) + Len(said)) + Len(answers)
      /\ \A i \in 1..Len(before) : messages[i] = before[i]
      /\ \A i \in 1..Len(said) : messages[Len(before) + i] = said[i]
      /\ \A i \in 1..Len(answers) : messages[(Len(before) + Len(said)) + i] = answers[i]
      /\ Pick(messages, {i \in DOMAIN messages : messages[i].role = "assistant"}) = said
  <2>1. /\ messages = (before \o said) \o answers
        /\ \A i \in 1..Len(before) : before[i].role \in {"system", "user"}
        /\ \A i \in 1..Len(said) : said[i].role = "assistant"
        /\ \A i \in 1..Len(answers) : answers[i].role = "tool"
    BY <1>7
  <2>2. Located(messages, M, before, said, answers)
    BY <2>1, WhoSaysWhat
  <2>3. QED BY <2>2 DEF Located
<1>9. Saying("assistant") = said
  BY <1>6, <1>8 DEF Saying
<1>10. DOMAIN messages = 1..Len(messages)
  BY <1>8, LenProperties
<1>11. /\ Len(messages) = (b + (h + n)) + n
       /\ \A i \in 1..b : messages[i].role \in {"system", "user"}
       /\ \A i \in 1..(h + n) : messages[b + i] = said[i] /\ said[i].role = "assistant"
       /\ \A i \in 1..n : messages[(b + (h + n)) + i] = answers[i] /\ answers[i].role = "tool"
  BY <1>5, <1>7, <1>8
<1>12. PlacedAt(b, h, n, messages, said)
  <2>1. Len(said) = h + n /\ (HasMessage => said[1].text = content /\ said[1].toolCalls = <<>>)
    BY <1>7
  <2>2. \A i \in 1..n :
          LET call == said[h + i].toolCalls
          IN  /\ 1 \in DOMAIN call
              /\ call[1].args = toolCalls[i].args
              /\ client = "call id" => call[1].id = messages[(b + (h + n)) + i].answers
    <3> TAKE i \in 1..n
    <3>1. messages[(b + (h + n)) + i] = answers[i]
      BY <1>11
    <3>2. PICK call : call = said[h + i].toolCalls
      OBVIOUS
    <3>3. /\ 1 \in DOMAIN call /\ call[1].args = toolCalls[i].args
          /\ client = "call id" => call[1].id = answers[i].answers
      BY <1>7, <3>2
    <3>4. QED BY <3>1, <3>2, <3>3
  <2>3. \A i \in 1..n : messages[(b + (h + n)) + i].role = "tool"
    BY <1>11
  <2>4. QED BY <1>3, <1>4, <1>10, <1>11, <2>1, <2>2, <2>3 DEF PlacedAt
<1>13. QED BY <1>6, <1>9, <1>12

\* The tools of a forwarded turn.
LEMMA ToolsOffered ==
    ASSUME TurnInv, forwarded # NoTurn
    PROVE  Range(forwarded.tools) =
              {WrappedFunction(t.name) : t \in {u \in Range(request.tools) : u.type = "function"}}
<1>1. request # NoTurn /\ forwarded = Convert(request)
  BY DEF TurnInv
<1>2. PICK prompt \in Prompts : request = Continued(prompt, client)
  BY <1>1 DEF TurnInv
<1>3. PICK tools : tools = request.tools
  OBVIOUS
<1>4. PICK T : T = Range(tools)
  OBVIOUS
<1>5. tools \in Seq(T)
  BY <1>2, <1>3, <1>4, ConversationAssumption DEF Continued
<1>6. PICK U : U = {u \in T : u.type = "function"}
  OBVIOUS
<1>7. PICK functions : functions = Pick(tools, {i \in DOMAIN tools : tools[i].type = "function"})
  OBVIOUS
<1>8. functions = Only(tools, U)
  <2>1. \A i \in DOMAIN tools : tools[i] \in T
    BY <1>5, LenProperties, ElementOfSeq
  <2>2. {i \in DOMAIN tools : tools[i].type = "function"} = {i \in DOMAIN tools : tools[i] \in U}
    BY <1>6, <2>1
  <2>3. QED BY <1>7, <2>2 DEF Only
<1>9. Range(functions) = U
  <2>1. Range(Only(tools, U)) = Range(tools) \cap U
    BY <1>5, OnlyRange
  <2>2. QED BY <1>4, <1>6, <1>8, <2>1
<1>10. forwarded.tools = [i \in DOMAIN functions |-> WrappedFunction(functions[i].name)]
  BY <1>1, <1>3, <1>7 DEF Convert, ConvertTools
<1>11. Range(forwarded.tools) = {WrappedFunction(t.name) : t \in U}
  BY <1>9, <1>10 DEF Range
<1>12. QED BY <1>3, <1>4, <1>6, <1>11

\* In the second turn the upstream reads what it streamed in the first.
LEMMA ReadsItself == IInv /\ TurnInv => UpstreamReadsItself
<1> SUFFICES ASSUME IInv, TurnInv, forwarded # NoTurn PROVE UpstreamReadsItself
  BY DEF UpstreamReadsItself
<1>1. PICK b \in Nat, h \in 0..1, n \in Nat :
          PlacedAt(b, h, n, forwarded.messages, Saying("assistant"))
  BY Placed
<1>2. PICK messages, said : messages = forwarded.messages /\ said = Saying("assistant")
  OBVIOUS
<1>3. PICK text, before : text = Streamed(0, "")
                          /\ before = IF text # <<>> \/ reasoning THEN <<text>> ELSE <<>>
  OBVIOUS
<1>4. Typed /\ out \in Seq(Outs) /\ Received(out, 0, "") = content /\ Finished /\ upstream # "sloppy"
  BY Forwarded DEF IInv, TextSent, Typed
<1>5. \A index, call : Streamed(index, call) = Received(out, index, call)
  BY <1>4, StreamedIs
<1>6. text = content /\ before = IF HasMessage THEN <<content>> ELSE <<>>
  BY <1>3, <1>4, <1>5 DEF HasMessage
<1>7. /\ h = (IF HasMessage THEN 1 ELSE 0) /\ n = Len(toolCalls)
      /\ Len(messages) = (b + (h + n)) + n /\ Len(said) = h + n
      /\ \A i \in 1..b : messages[i].role \in {"system", "user"}
      /\ \A i \in 1..(h + n) : messages[b + i] = said[i] /\ said[i].role = "assistant"
      /\ \A i \in 1..n : messages[(b + (h + n)) + i].role = "tool"
      /\ HasMessage => said[1].text = content /\ said[1].toolCalls = <<>>
      /\ \A i \in 1..n : said[h + i].toolCalls[1].args = toolCalls[i].args
  BY <1>1, <1>2 DEF PlacedAt
<1>8. Len(before) = h /\ DOMAIN before = 1..h /\ (HasMessage => before[1] = content)
  <2>1. CASE HasMessage
    <3>1. before = <<content>> /\ h = 1
      BY <1>6, <1>7, <2>1
    <3>2. Len(<<content>>) = 1 /\ DOMAIN <<content>> = 1..1 /\ <<content>>[1] = content
      OBVIOUS
    <3>3. QED BY <3>1, <3>2
  <2>2. CASE ~HasMessage
    <3>1. before = <<>> /\ h = 0
      BY <1>6, <1>7, <2>2
    <3>2. Len(<<>>) = 0 /\ DOMAIN <<>> = 1..0
      OBVIOUS
    <3>3. QED BY <2>2, <3>1, <3>2
  <2>3. QED BY <2>1, <2>2
<1>nat. b \in Nat /\ h \in Nat /\ n \in Nat
  BY <1>1
<1>9. DOMAIN toolCalls = 1..n /\ Len(toolCalls) = n
  BY <1>4, <1>7, LenProperties DEF Typed
<1>10. Len(said) = Len(before) + Len(toolCalls)
  BY <1>7, <1>8, <1>9
<1>11. \A i \in DOMAIN before : said[i].text = before[i] /\ said[i].toolCalls = <<>>
  <2> TAKE i \in DOMAIN before
  <2>1. HasMessage /\ i = 1
    BY <1>7, <1>8
  <2>2. QED BY <1>7, <1>8, <2>1
<1>12. \A i \in DOMAIN toolCalls :
          said[Len(before) + i].toolCalls[1].args = Streamed(i, toolCalls[i].callID)
  <2> TAKE i \in DOMAIN toolCalls
  <2>1. i \in 1..Len(toolCalls)
    BY <1>9
  <2>2. Received(out, i, toolCalls[i].callID) = toolCalls[i].args
    BY <1>4, <2>1 DEF IInv, CallsTold
  <2>3. QED BY <1>5, <1>7, <1>8, <1>9, <2>1, <2>2
<1>13. ASSUME NEW i \in 1..Len(messages)
       PROVE  messages[i].role \in
                 IF i <= Len(messages) - (Len(said) + Len(toolCalls)) THEN {"system", "user"}
                 ELSE IF i <= Len(messages) - Len(toolCalls) THEN {"assistant"} ELSE {"tool"}
  <2>1. /\ Len(messages) - (Len(said) + Len(toolCalls)) = b
        /\ Len(messages) - Len(toolCalls) = b + (h + n)
        /\ i \in 1..((b + (h + n)) + n)
    <3>1. Len(messages) = (b + (h + n)) + n /\ Len(said) = h + n /\ Len(toolCalls) = n
      BY <1>7
    <3>2. /\ ((b + (h + n)) + n) - ((h + n) + n) = b
          /\ ((b + (h + n)) + n) - n = b + (h + n)
      BY <1>nat
    <3>3. QED BY <3>1, <3>2
  <2>2. CASE i <= b
    BY <1>7, <2>1, <2>2
  <2>3. CASE ~(i <= b) /\ i <= b + (h + n)
    <3>1. PICK k \in 1..(h + n) : i = b + k
      <4>1. i - b \in 1..(h + n) /\ i = b + (i - b)
        BY <1>nat, <2>1, <2>3
      <4>2. QED BY <4>1
    <3>2. messages[i].role = "assistant"
      <4>1. messages[b + k] = said[k] /\ said[k].role = "assistant"
        BY <1>7, <3>1
      <4>2. QED BY <3>1, <4>1
    <3>3. QED BY <2>1, <2>3, <3>2
  <2>4. CASE ~(i <= b) /\ ~(i <= b + (h + n))
    <3>1. PICK k \in 1..n : i = (b + (h + n)) + k
      <4>1. i - (b + (h + n)) \in 1..n /\ i = (b + (h + n)) + (i - (b + (h + n)))
        BY <1>nat, <2>1, <2>4
      <4>2. QED BY <4>1
    <3>2. messages[i].role = "tool"
      BY <1>7, <3>1
    <3>3. QED BY <2>1, <2>4, <3>2
  <2>5. QED BY <2>2, <2>3, <2>4
<1>14. Range(forwarded.tools) =
          {WrappedFunction(t.name) : t \in {u \in Range(request.tools) : u.type = "function"}}
  BY ToolsOffered
<1>15. QED BY <1>2, <1>3, <1>10, <1>11, <1>12, <1>13, <1>14 DEF UpstreamReadsItself

\* For any text, calls, prompt and client, whatever order the pieces came in,
\* the forwarded request has the upstream's own text and calls in full.
THEOREM NothingLostBetweenTurns == ConversationSpec => []UpstreamReadsItself
<1>1. IInv /\ TurnInv => UpstreamReadsItself
  BY ReadsItself
<1>2. QED BY <1>1, ConversationInv, PTL

\* The client names each call by the id it was told to use.
KeepsIds == client = "call id"

\* A client that keeps the announced ids has its outputs taken for answers.
LEMMA AnnouncedAnswered == IInv /\ TurnInv => OutputsAnswerAnnouncedCalls
<1> SUFFICES ASSUME IInv, TurnInv, forwarded # NoTurn, KeepsIds
             PROVE  AnswersACall(forwarded.messages)
  BY DEF OutputsAnswerAnnouncedCalls, KeepsIds
<1>1. PICK b \in Nat, h \in 0..1, n \in Nat :
          PlacedAt(b, h, n, forwarded.messages, Saying("assistant"))
  BY Placed
<1>2. PICK messages, said : messages = forwarded.messages /\ said = Saying("assistant")
  OBVIOUS
<1>3. /\ Len(messages) = (b + (h + n)) + n /\ DOMAIN messages = 1..Len(messages)
      /\ \A i \in 1..b : messages[i].role \in {"system", "user"}
      /\ \A i \in 1..(h + n) : messages[b + i] = said[i] /\ said[i].role = "assistant"
      /\ \A i \in 1..n : /\ 1 \in DOMAIN said[h + i].toolCalls
                         /\ said[h + i].toolCalls[1].id = messages[(b + (h + n)) + i].answers
  BY <1>1, <1>2 DEF PlacedAt, KeepsIds
<1>nat. b \in Nat /\ h \in Nat /\ n \in Nat
  BY <1>1
<1>4. ASSUME NEW j \in DOMAIN messages, messages[j].role = "tool"
      PROVE  \E i \in 1..(j - 1) : \E k \in DOMAIN messages[i].toolCalls :
                messages[i].toolCalls[k].id = messages[j].answers
  <2>1. j \in 1..((b + (h + n)) + n)
    BY <1>3
  <2>2. ~(j <= b)
    <3>1. SUFFICES ASSUME j <= b PROVE FALSE
      OBVIOUS
    <3>2. j \in 1..b
      BY <1>nat, <2>1, <3>1
    <3>3. messages[j].role \in {"system", "user"}
      BY <1>3, <3>2
    <3>4. QED BY <1>4, <3>3
  <2>3. ~(j <= b + (h + n))
    <3>1. SUFFICES ASSUME j <= b + (h + n) PROVE FALSE
      OBVIOUS
    <3>2. j - b \in 1..(h + n) /\ j = b + (j - b)
      BY <1>nat, <2>1, <2>2, <3>1
    <3>3. messages[j].role = "assistant"
      BY <1>3, <3>2
    <3>4. QED BY <1>4, <3>3
  <2>4. PICK i \in 1..n : j = (b + (h + n)) + i
    <3>1. j - (b + (h + n)) \in 1..n /\ j = (b + (h + n)) + (j - (b + (h + n)))
      BY <1>nat, <2>1, <2>3
    <3>2. QED BY <3>1
  <2>5. h + i \in 1..(h + n) /\ b + (h + i) \in 1..(j - 1)
    BY <1>nat, <2>4
  <2>6. messages[b + (h + i)] = said[h + i]
    BY <1>3, <2>5
  <2>7. /\ 1 \in DOMAIN messages[b + (h + i)].toolCalls
        /\ messages[b + (h + i)].toolCalls[1].id = messages[j].answers
    BY <1>3, <2>4, <2>6
  <2>8. QED BY <2>5, <2>7
<1>5. QED BY <1>2, <1>4 DEF AnswersACall

\* The output of every announced call follows that call under its id, for any
\* calls and any prompt.
THEOREM AnnouncedCallsAnswered == ConversationSpec => []OutputsAnswerAnnouncedCalls
<1>1. IInv /\ TurnInv => OutputsAnswerAnnouncedCalls
  BY AnnouncedAnswered
<1>2. QED BY <1>1, ConversationInv, PTL
=============================================================================
