------------------------ MODULE StreamForwarderProofs ------------------------
(***************************************************************************)
(* Proofs about StreamForwarder, for any payloads, any bodies, any cuts    *)
(* and any bounds.                                                         *)
(***************************************************************************)
EXTENDS StreamForwarder, FoldLemmas

-----------------------------------------------------------------------------
(* Tokens and events. *)

Names  == DOMAIN Payloads
Tokens == {Newline, Data, <<"junk", 0>>} \cup (Names \X (Nat \ {0}))

\* What is behind one token in a sequence.
LEMMA BehindToken ==
    ASSUME NEW T, NEW d \in T, NEW rest \in Seq(T), NEW n \in Nat, Len(rest) = n
    PROVE  /\ <<d>> \o rest \in Seq(T) /\ Len(<<d>> \o rest) = n + 1
           /\ DOMAIN (<<d>> \o rest) = 1..(n + 1)
           /\ (<<d>> \o rest)[1] = d
           /\ \A j \in 2..(n + 1) : j - 1 \in 1..n /\ (<<d>> \o rest)[j] = rest[j - 1]
<1>1. PICK first : first = <<d>>
  OBVIOUS
<1>2. first \in Seq(T) /\ Len(first) = 1 /\ first[1] = d
  BY <1>1
<1>3. /\ first \o rest \in Seq(T) /\ Len(first \o rest) = n + 1
      /\ \A j \in 1..(1 + n) : (first \o rest)[j] = IF j <= 1 THEN first[j] ELSE rest[j - 1]
  <2>1. Len(first \o rest) = Len(first) + Len(rest)
    BY <1>2, ConcatProperties
  <2>2. /\ first \o rest \in Seq(T)
        /\ \A j \in 1..(Len(first) + Len(rest)) :
              (first \o rest)[j] = IF j <= Len(first) THEN first[j] ELSE rest[j - Len(first)]
    BY <1>2, ConcatProperties
  <2>3. QED BY <1>2, <2>1, <2>2
<1>4. DOMAIN (first \o rest) = 1..(n + 1)
  BY <1>3, LenProperties
<1>5. 1 \in 1..(1 + n) /\ \A j \in 2..(n + 1) : j \in 1..(1 + n) /\ ~(j <= 1) /\ j - 1 \in 1..n
  OBVIOUS
<1>6. (first \o rest)[1] = d
  BY <1>2, <1>3, <1>5
<1>7. \A j \in 2..(n + 1) : (first \o rest)[j] = rest[j - 1]
  BY <1>3, <1>5
<1>8. QED BY <1>1, <1>3, <1>4, <1>5, <1>6, <1>7

\* An event is the prefix and at least one piece, none of them a newline.
LEMMA EventIs ==
    ASSUME NEW p \in Names
    PROVE  /\ Event(p) \in Seq(Tokens)
           /\ Len(Event(p)) \in Nat /\ Len(Event(p)) >= 2
           /\ DOMAIN Event(p) = 1..Len(Event(p))
           /\ Event(p)[1] = Data /\ Event(p)[2] = <<p, 1>>
           /\ \A j \in 1..Len(Event(p)) : Event(p)[j] # Newline
           /\ \A j \in 2..Len(Event(p)) : Event(p)[j] = <<p, j - 1>>
<1>1. PICK n \in Nat \ {0} : n = Payloads[p].size
  BY ForwarderAssumption DEF Names
<1>2. PICK pieces : pieces = [i \in 1..n |-> <<p, i>>]
  OBVIOUS
<1>3. Event(p) = <<Data>> \o pieces
  BY <1>1, <1>2 DEF Event, Pieces
<1>4. \A i \in 1..n : <<p, i>> \in Tokens
  BY DEF Tokens
<1>5. pieces \in Seq(Tokens) /\ Len(pieces) = n /\ \A i \in 1..n : pieces[i] = <<p, i>>
  BY <1>2, <1>4
<1>6. Data \in Tokens /\ Data # Newline
  BY DEF Tokens, Data, Newline
<1>7. /\ Event(p) \in Seq(Tokens) /\ Len(Event(p)) = n + 1
      /\ DOMAIN Event(p) = 1..(n + 1) /\ Event(p)[1] = Data
      /\ \A j \in 2..(n + 1) : j - 1 \in 1..n /\ Event(p)[j] = pieces[j - 1]
  BY <1>3, <1>5, <1>6, BehindToken
<1>8. \A j \in 2..(n + 1) : Event(p)[j] = <<p, j - 1>> /\ j - 1 \in 1..n
  BY <1>5, <1>7
<1>9. \A j \in 1..(n + 1) : j # 1 => j \in 2..(n + 1)
  OBVIOUS
<1>10. \A j \in 2..(n + 1) : Event(p)[j] # Newline
  BY <1>8 DEF Newline
<1>11. 2 \in 2..(n + 1) /\ 2 - 1 = 1 /\ n + 1 \in Nat /\ n + 1 >= 2
  OBVIOUS
<1>12. Event(p)[2] = <<p, 1>>
  BY <1>8, <1>11
<1>13. QED BY <1>6, <1>7, <1>8, <1>9, <1>10, <1>11, <1>12

-----------------------------------------------------------------------------
(* The aggregate. *)

Callers  == {p \in Names : Tool(p)}
CallNames == {""} \cup {Payloads[p].name : p \in Callers}
Call     == [name : CallNames, args : Seq(Names)]
Indexes  == {Payloads[p].index : p \in Callers}
Counts   == {0} \cup {Payloads[p].tokens : p \in Usages}
ToolSets == UNION {[I -> Call] : I \in SUBSET Indexes}
Aggregates == [saw : BOOLEAN, text : Seq(Names), usage : Counts, tools : ToolSets]

\* An aggregate is its four parts.
LEMMA AggregateIs ==
    ASSUME NEW a \in Aggregates
    PROVE  /\ a.saw \in BOOLEAN /\ a.text \in Seq(Names)
           /\ a.usage \in Counts /\ a.tools \in ToolSets
           /\ a = [saw |-> a.saw, text |-> a.text, usage |-> a.usage, tools |-> a.tools]
BY DEF Aggregates

\* Nothing is absorbed at first.
LEMMA EmptyAggTyped == EmptyAgg \in Aggregates
<1>1. <<>> \in Seq(Names) /\ <<>> \in [{} -> Call]
  OBVIOUS
<1>2. <<>> \in ToolSets
  BY <1>1 DEF ToolSets
<1>3. QED BY <1>1, <1>2 DEF EmptyAgg, Aggregates, Counts

\* A piece of a tool call is merged.
LEMMA MergeToolTyped ==
    ASSUME NEW tools \in ToolSets, NEW p \in Callers
    PROVE  MergeTool(tools, p) \in ToolSets
<1>1. PICK I \in SUBSET Indexes : tools \in [I -> Call]
  BY DEF ToolSets
<1>2. PICK i : i = Payloads[p].index
  OBVIOUS
<1>3. PICK old : old = IF i \in DOMAIN tools THEN tools[i] ELSE [name |-> "", args |-> <<>>]
  OBVIOUS
<1>4. PICK new : new = [name |-> IF old.name = "" THEN Payloads[p].name ELSE old.name,
                        args |-> Append(old.args, p)]
  OBVIOUS
<1>5. old \in Call
  <2>1. <<>> \in Seq(Names)
    OBVIOUS
  <2>2. "" \in CallNames
    BY DEF CallNames
  <2>3. QED BY <1>1, <1>3, <2>1, <2>2 DEF Call
<1>6. new \in Call
  <2>1. old.args \in Seq(Names) /\ old.name \in CallNames
    BY <1>5 DEF Call
  <2>2. Append(old.args, p) \in Seq(Names)
    BY <2>1, AppendProperties DEF Callers
  <2>3. Payloads[p].name \in CallNames
    BY DEF CallNames
  <2>4. QED BY <1>4, <2>1, <2>2, <2>3 DEF Call
<1>7. MergeTool(tools, p) = [j \in I \cup {i} |-> IF j = i THEN new ELSE tools[j]]
  BY <1>1, <1>2, <1>3, <1>4 DEF MergeTool
<1>8. MergeTool(tools, p) \in [I \cup {i} -> Call]
  BY <1>1, <1>6, <1>7
<1>9. I \cup {i} \in SUBSET Indexes
  BY <1>2 DEF Indexes
<1>10. QED BY <1>8, <1>9 DEF ToolSets

\* A payload is merged into an aggregate, part by part.
LEMMA AbsorbIs ==
    ASSUME NEW a \in Aggregates, NEW p
    PROVE  Absorb(a, p) = [saw |-> a.saw,
                           text |-> IF Text(p) THEN Append(a.text, p) ELSE a.text,
                           usage |-> IF Usage(p) THEN Payloads[p].tokens ELSE a.usage,
                           tools |-> IF Tool(p) THEN MergeTool(a.tools, p) ELSE a.tools]
<1>1. PICK w, x, y, z : a = [saw |-> w, text |-> x, usage |-> y, tools |-> z]
  BY AggregateIs
<1>2. PICK text, usage, tools :
        /\ text = IF Text(p) THEN Append(x, p) ELSE x
        /\ usage = IF Usage(p) THEN Payloads[p].tokens ELSE y
        /\ tools = IF Tool(p) THEN MergeTool(z, p) ELSE z
  OBVIOUS
<1>3. Absorb(a, p) = [a EXCEPT !.text = text, !.usage = usage, !.tools = tools]
  BY <1>1, <1>2 DEF Absorb
<1>4. QED BY <1>1, <1>2, <1>3

\* And it stays an aggregate.
LEMMA AbsorbTyped ==
    ASSUME NEW a \in Aggregates, NEW p \in Names
    PROVE  Absorb(a, p) \in Aggregates
<1>1. a.saw \in BOOLEAN /\ a.text \in Seq(Names) /\ a.usage \in Counts /\ a.tools \in ToolSets
  BY AggregateIs
<1>2. Tool(p) => MergeTool(a.tools, p) \in ToolSets
  BY <1>1, MergeToolTyped DEF Callers
<1>3. Append(a.text, p) \in Seq(Names)
  BY <1>1, AppendProperties
<1>4. Usage(p) => Payloads[p].tokens \in Counts
  BY DEF Counts, Usages, Names
<1>5. QED BY <1>1, <1>2, <1>3, <1>4, AbsorbIs DEF Aggregates

\* What the lines of a body leave is an aggregate.
LEMMA ProcessLineTyped ==
    ASSUME NEW a \in Aggregates, NEW line
    PROVE  ProcessLine(a, line) \in Aggregates
<1>1. [a EXCEPT !.saw = TRUE] \in Aggregates
  BY DEF Aggregates
<1>2. ASSUME NEW p \in Names, line = Event(p) PROVE line[2][1] = p
  BY <1>2, EventIs
<1>3. QED BY <1>1, <1>2, AbsorbTyped DEF ProcessLine, Names

-----------------------------------------------------------------------------
(* drainLines, one token after the other. *)

Drained == [agg : Aggregates, rest : Seq(Tokens)]
Step(s, t) == IF t = Newline THEN [agg |-> ProcessLine(s.agg, s.rest), rest |-> <<>>]
                             ELSE [agg |-> s.agg, rest |-> Append(s.rest, t)]

\* A token is drained.
LEMMA StepTyped ==
    ASSUME NEW s \in Drained, NEW t \in Tokens
    PROVE  /\ Step(s, t) \in Drained /\ s.agg \in Aggregates /\ s.rest \in Seq(Tokens)
           /\ [s EXCEPT !.rest = Append(@, t)] = [agg |-> s.agg, rest |-> Append(s.rest, t)]
<1>1. s.agg \in Aggregates /\ s.rest \in Seq(Tokens)
  BY DEF Drained
<1>2. <<>> \in Seq(Tokens) /\ Append(s.rest, t) \in Seq(Tokens)
  BY <1>1, AppendProperties
<1>3. ProcessLine(s.agg, s.rest) \in Aggregates
  BY <1>1, ProcessLineTyped
<1>4. Step(s, t) \in Drained
  BY <1>1, <1>2, <1>3 DEF Step, Drained
<1>5. [s EXCEPT !.rest = Append(@, t)] = [agg |-> s.agg, rest |-> Append(s.rest, t)]
  BY SMTT(30) DEF Drained
<1>6. QED BY <1>1, <1>4, <1>5

\* What the fold of drainLines goes through.
IsFolding(it, a, tokens) ==
    it = [T \in SUBSET DOMAIN tokens |->
            IF T = {} THEN [agg |-> a, rest |-> <<>>]
            ELSE LET x == Max(T)
                 IN  IF tokens[x] = Newline
                     THEN [agg |-> ProcessLine(it[T \ {x}].agg, it[T \ {x}].rest), rest |-> <<>>]
                     ELSE [it[T \ {x}] EXCEPT !.rest = Append(@, tokens[x])]]

IsDraining(f, a, tokens) ==
    /\ f[0] = [agg |-> a, rest |-> <<>>]
    /\ \A i \in 1..Len(tokens) : f[i] = Step(f[i - 1], tokens[i])

\* drainLines takes the tokens in their order.
LEMMA DrainIsDraining ==
    ASSUME NEW a \in Aggregates, NEW tokens \in Seq(Tokens)
    PROVE  \E f : /\ f \in [0..Len(tokens) -> Drained] /\ IsDraining(f, a, tokens)
                  /\ DrainLines(a, tokens) = f[Len(tokens)]
<1> DEFINE D == DOMAIN tokens
           n == Len(tokens)
           ch == [T \in SUBSET D |-> Max(T)]
           base == [agg |-> a, rest |-> <<>>]
           step == [x \in D |-> [s \in Drained |-> Step(s, tokens[x])]]
<1>1. n \in Nat /\ D = 1..n /\ \A x \in D : tokens[x] \in Tokens
  OBVIOUS
<1>2. ASSUME NEW T \in SUBSET D, T # {} PROVE ch[T] \in T /\ ch[T] = Max(T) /\ Max(T) \in D
  <2>1. T \in SUBSET (0..n)
    BY <1>1
  <2> HIDE DEF n, D
  <2>2. Max(T) \in T
    BY <1>1, <1>2, <2>1, MaxOfBounded
  <2>3. QED BY <2>2
<1>3. base \in Drained
  BY DEF Drained
<1>4. step \in [D -> [Drained -> Drained]] /\ \A x \in D : \A s \in Drained : step[x][s] = Step(s, tokens[x])
  <2>1. \A x \in D : \A s \in Drained : Step(s, tokens[x]) \in Drained
    BY <1>1, StepTyped
  <2> HIDE DEF D
  <2>2. QED BY <2>1
<1>5. IsFiniteSet(D)
  BY <1>1, FS_Interval
<1> HIDE DEF n, step, base
<1>6. PICK it : IsFold(it, D, base, ch, step) /\ it \in [SUBSET D -> Drained]
  <2>1. Chooses(ch, D)
    BY <1>2 DEF Chooses
  <2> HIDE DEF ch, D
  <2>2. QED BY <1>3, <1>4, <1>5, <2>1, FoldExists
<1>7. ASSUME NEW T \in SUBSET D, T # {}
      PROVE  /\ T \ {Max(T)} \in SUBSET D
             /\ it[T] = Step(it[T \ {Max(T)}], tokens[Max(T)])
             /\ it[T \ {Max(T)}] \in Drained /\ tokens[Max(T)] \in Tokens
  <2>1. ch[T] = Max(T) /\ Max(T) \in D /\ T \ {Max(T)} \in SUBSET D
    BY <1>2, <1>7
  <2> HIDE DEF ch, D
  <2>2. it[T \ {Max(T)}] \in Drained
    BY <1>6, <2>1
  <2>3. it[T] = step[ch[T]][it[T \ {ch[T]}]]
    BY <1>6, <1>7 DEF IsFold
  <2>4. QED BY <1>1, <1>4, <2>1, <2>2, <2>3
<1>8. it[{}] = base
  BY <1>6 DEF IsFold
<1>9. IsFolding(it, a, tokens)
  <2>1. ASSUME NEW T \in SUBSET D, T # {}
        PROVE  it[T] = LET x == Max(T)
                       IN  IF tokens[x] = Newline
                           THEN [agg |-> ProcessLine(it[T \ {x}].agg, it[T \ {x}].rest), rest |-> <<>>]
                           ELSE [it[T \ {x}] EXCEPT !.rest = Append(@, tokens[x])]
    <3> HIDE DEF ch, D
    <3>1. PICK x : x = Max(T)
      OBVIOUS
    <3>2. PICK r \in Drained, t \in Tokens : r = it[T \ {x}] /\ t = tokens[x] /\ it[T] = Step(r, t)
      BY <1>7, <2>1, <3>1
    <3>3. Step(r, t) = IF t = Newline THEN [agg |-> ProcessLine(r.agg, r.rest), rest |-> <<>>]
                       ELSE [r EXCEPT !.rest = Append(@, t)]
      BY StepTyped DEF Step
    <3>4. QED BY <3>1, <3>2, <3>3
  <2>2. it = [T \in SUBSET D |-> it[T]]
    BY <1>6 DEF IsFold
  <2> HIDE DEF ch
  <2>3. QED BY <1>8, <2>1, <2>2 DEF IsFolding, base
<1>10. PICK z : IsFolding(z, a, tokens) /\ DrainLines(a, tokens) = z[D]
  <2>1. \E z : IsFolding(z, a, tokens) /\ DrainLines(a, tokens) = z[DOMAIN tokens]
    <3> HIDE DEF ch, D
    <3>1. QED BY <1>9 DEF IsFolding, DrainLines, FoldLeft, MapThenFoldSet
  <2>2. QED BY <2>1
<1> DEFINE f == [i \in 0..n |-> z[1..i]]
<1>11. f[0] = base /\ f[0] \in Drained
  <2>1. 0 \in 0..n /\ 1..0 = {}
    BY <1>1
  <2> HIDE DEF D
  <2>2. QED BY <1>3, <1>10, <2>1 DEF IsFolding, base
<1>12. ASSUME NEW i \in 1..n, f[i - 1] \in Drained PROVE f[i] = Step(f[i - 1], tokens[i])
  <2>1. i \in Nat \ {0} /\ i \in 0..n /\ i - 1 \in 0..n /\ 1..i \in SUBSET D /\ 1..i # {} /\ tokens[i] \in Tokens
    BY <1>1
  <2>2. Max(1..i) = i /\ (1..i) \ {i} = 1..(i - 1)
    BY <2>1, MaxOfFirst
  <2>3. PICK r \in Drained, t \in Tokens : r = z[1..(i - 1)] /\ r = f[i - 1] /\ t = tokens[i]
    BY <1>12, <2>1
  <2>4. f[i] = z[1..i]
    BY <2>1
  <2> HIDE DEF f, D, ch
  <2>5. z[1..i] = IF t = Newline THEN [agg |-> ProcessLine(r.agg, r.rest), rest |-> <<>>]
                  ELSE [r EXCEPT !.rest = Append(@, t)]
    <3>1. PICK T : T = 1..i
      OBVIOUS
    <3>2. T \in SUBSET DOMAIN tokens /\ T # {} /\ Max(T) = i /\ T \ {i} = 1..(i - 1)
      BY <2>1, <2>2, <3>1 DEF D
    <3>3. z[T] = IF tokens[i] = Newline
                 THEN [agg |-> ProcessLine(z[T \ {i}].agg, z[T \ {i}].rest), rest |-> <<>>]
                 ELSE [z[T \ {i}] EXCEPT !.rest = Append(@, tokens[i])]
      BY <1>10, <3>2 DEF IsFolding
    <3>4. QED BY <2>3, <3>1, <3>2, <3>3
  <2>6. Step(r, t) = IF t = Newline THEN [agg |-> ProcessLine(r.agg, r.rest), rest |-> <<>>]
                     ELSE [r EXCEPT !.rest = Append(@, t)]
    BY StepTyped DEF Step
  <2>7. QED BY <2>3, <2>4, <2>5, <2>6
<1> DEFINE P == {k \in Nat : k <= n => f[k] \in Drained}
<1>13. 0 \in P
  BY <1>11
<1>14. ASSUME NEW k \in Nat, k \in P PROVE k + 1 \in P
  <2>1. SUFFICES ASSUME k + 1 <= n PROVE f[k + 1] \in Drained
    OBVIOUS
  <2>2. f[k] \in Drained /\ k + 1 \in 1..n /\ (k + 1) - 1 = k /\ tokens[k + 1] \in Tokens
    BY <1>1, <1>14, <2>1
  <2> HIDE DEF P, f, D, ch
  <2>3. f[k + 1] = Step(f[k], tokens[k + 1])
    BY <1>12, <2>2
  <2>4. QED BY <2>2, <2>3, StepTyped
<1>15. Nat \subseteq P
  <2> HIDE DEF P
  <2>1. QED BY <1>13, <1>14, Induction
<1>16. \A i \in 0..n : i \in Nat /\ f[i] \in Drained
  <2>1. \A i \in 0..n : i \in Nat /\ i <= n
    BY <1>1
  <2>2. \A i \in 0..n : i \in P
    <3> HIDE DEF P
    <3>1. QED BY <1>15, <2>1
  <2>3. QED BY <2>1, <2>2
<1> HIDE DEF P
<1>17. f \in [0..n -> Drained] /\ f[n] = z[D]
  <2>1. n \in 0..n /\ D = 1..n
    BY <1>1
  <2>2. f[n] = z[D]
    BY <2>1
  <2>3. f = [i \in 0..n |-> f[i]]
    OBVIOUS
  <2> HIDE DEF f
  <2>4. QED BY <1>16, <2>2, <2>3
<1> HIDE DEF f
<1>18. \A i \in 1..n : f[i] = Step(f[i - 1], tokens[i])
  <2>1. \A i \in 1..n : i - 1 \in 0..n
    BY <1>1
  <2>2. QED BY <1>12, <1>16, <2>1
<1>19. QED BY <1>10, <1>11, <1>17, <1>18 DEF IsDraining, n, base

\* Nothing to drain.
LEMMA DrainEmpty ==
    ASSUME NEW a \in Aggregates
    PROVE  DrainLines(a, <<>>) = [agg |-> a, rest |-> <<>>]
<1>1. <<>> \in Seq(Tokens) /\ Len(<<>>) = 0
  OBVIOUS
<1>2. PICK f : IsDraining(f, a, <<>>) /\ DrainLines(a, <<>>) = f[0]
  BY <1>1, DrainIsDraining
<1>3. QED BY <1>2 DEF IsDraining

\* What is drained first has no effect on what comes after but through its result.
LEMMA DrainAppend ==
    ASSUME NEW a \in Aggregates, NEW tokens \in Seq(Tokens), NEW t \in Tokens
    PROVE  /\ DrainLines(a, tokens) \in Drained
           /\ DrainLines(a, Append(tokens, t)) = Step(DrainLines(a, tokens), t)
<1>0. PICK n \in Nat : n = Len(tokens)
  BY LenProperties
<1>1. PICK more : n = Len(tokens) /\ more = Append(tokens, t)
  BY <1>0
<1>2. more \in Seq(Tokens) /\ Len(more) = n + 1 /\ more[n + 1] = t /\ \A i \in 1..n : more[i] = tokens[i]
  BY <1>1, AppendProperties
<1>3. PICK f : f \in [0..n -> Drained] /\ IsDraining(f, a, tokens) /\ DrainLines(a, tokens) = f[n]
  BY <1>1, DrainIsDraining
<1>4. PICK g : g \in [0..(n + 1) -> Drained] /\ IsDraining(g, a, more) /\ DrainLines(a, more) = g[n + 1]
  BY <1>2, DrainIsDraining
<1> DEFINE P == {k \in Nat : k <= n => g[k] = f[k]}
<1>5. 0 \in P
  BY <1>3, <1>4 DEF IsDraining
<1>6. ASSUME NEW k \in Nat, k \in P PROVE k + 1 \in P
  <2>1. SUFFICES ASSUME k + 1 <= n PROVE g[k + 1] = f[k + 1]
    OBVIOUS
  <2>2. g[k] = f[k] /\ k + 1 \in 1..n /\ k + 1 \in 1..(n + 1) /\ (k + 1) - 1 = k
    BY <1>6, <2>1
  <2> HIDE DEF P
  <2>3. g[k + 1] = Step(g[k], more[k + 1])
    BY <1>2, <1>4, <2>2 DEF IsDraining
  <2>4. f[k + 1] = Step(f[k], tokens[k + 1])
    BY <1>1, <1>3, <2>2 DEF IsDraining
  <2>5. QED BY <1>2, <2>2, <2>3, <2>4
<1>7. Nat \subseteq P
  <2> HIDE DEF P
  <2>1. QED BY <1>5, <1>6, Induction
<1>8. g[n] = f[n]
  <2>1. n \in P
    <3> HIDE DEF P
    <3>1. QED BY <1>7
  <2>2. QED BY <2>1
<1>9. g[n + 1] = Step(g[n], more[n + 1])
  <2>1. n + 1 \in 1..(n + 1) /\ (n + 1) - 1 = n
    OBVIOUS
  <2>2. QED BY <1>2, <1>4, <2>1 DEF IsDraining
<1>10. n \in 0..n
  OBVIOUS
<1> HIDE DEF P
<1>11. QED BY <1>1, <1>2, <1>3, <1>4, <1>8, <1>9, <1>10

\* Tokens without the end of a line.
Plain(tokens) == \A i \in 1..Len(tokens) : tokens[i] # Newline

\* The rest has no end of a line.
LEMMA DrainedRestIsPlain ==
    ASSUME NEW a \in Aggregates
    PROVE  \A tokens \in Seq(Tokens) : /\ DrainLines(a, tokens) \in Drained
                                       /\ Plain(DrainLines(a, tokens).rest)
<1> DEFINE P == {tokens \in Seq(Tokens) : /\ DrainLines(a, tokens) \in Drained
                                          /\ Plain(DrainLines(a, tokens).rest)}
<1>0. \A s \in Seq(Tokens) :
         s \in P <=> DrainLines(a, s) \in Drained /\ Plain(DrainLines(a, s).rest)
  OBVIOUS
<1> HIDE DEF P
<1>1. <<>> \in P
  <2>1. <<>> \in Seq(Tokens) /\ Plain(<<>>)
    BY DEF Plain
  <2>2. DrainLines(a, <<>>) = [agg |-> a, rest |-> <<>>]
    BY DrainEmpty
  <2>3. DrainLines(a, <<>>) \in Drained /\ Plain(DrainLines(a, <<>>).rest)
    <3>1. PICK none \in Seq(Tokens) : none = <<>>
      BY <2>1
    <3>2. DrainLines(a, <<>>) = [agg |-> a, rest |-> none] /\ Plain(none)
      BY <2>1, <2>2, <3>1
    <3>3. QED BY <3>2 DEF Drained
  <2>4. QED BY <1>0, <2>1, <2>3
<1>2. ASSUME NEW tokens \in Seq(Tokens), NEW t \in Tokens, tokens \in P PROVE Append(tokens, t) \in P
  <2>1. PICK s \in Drained : s = DrainLines(a, tokens) /\ Plain(s.rest) /\ s.rest \in Seq(Tokens)
    BY <1>0, <1>2, StepTyped
  <2>2. DrainLines(a, Append(tokens, t)) = Step(s, t) /\ Step(s, t) \in Drained
    BY <2>1, DrainAppend, StepTyped
  <2>3. Plain(<<>>)
    BY DEF Plain
  <2>4. CASE t = Newline
    <3>1. Step(s, t).rest = <<>>
      BY <2>4 DEF Step
    <3>2. QED BY <1>0, <2>2, <2>3, <3>1, AppendProperties
  <2>5. CASE t # Newline
    <3>1. Plain(Append(s.rest, t))
      BY <2>1, <2>5, AppendProperties DEF Plain
    <3>2. Step(s, t).rest = Append(s.rest, t)
      BY <2>5 DEF Step
    <3>3. Append(tokens, t) \in Seq(Tokens)
      BY AppendProperties
    <3>4. /\ DrainLines(a, Append(tokens, t)) \in Drained
          /\ Plain(DrainLines(a, Append(tokens, t)).rest)
      BY <2>2, <3>1, <3>2
    <3>5. QED BY <1>0, <3>3, <3>4
  <2>6. QED BY <2>4, <2>5
<1>3. Seq(Tokens) \subseteq P
  BY <1>1, <1>2, SequenceInduction
<1>4. QED BY <1>0, <1>3

\* Tokens without the end of a line are a rest.
LEMMA PlainIsRest ==
    ASSUME NEW a \in Aggregates
    PROVE  \A tokens \in Seq(Tokens) : Plain(tokens) => DrainLines(a, tokens) = [agg |-> a, rest |-> tokens]
<1> DEFINE P == {tokens \in Seq(Tokens) :
                   Plain(tokens) => DrainLines(a, tokens) = [agg |-> a, rest |-> tokens]}
<1>0. \A s \in Seq(Tokens) :
         s \in P <=> (Plain(s) => DrainLines(a, s) = [agg |-> a, rest |-> s])
  OBVIOUS
<1> HIDE DEF P
<1>1. <<>> \in P
  <2>1. <<>> \in Seq(Tokens) /\ DrainLines(a, <<>>) = [agg |-> a, rest |-> <<>>]
    BY DrainEmpty
  <2>2. QED BY <1>0, <2>1
<1>2. ASSUME NEW tokens \in Seq(Tokens), NEW t \in Tokens, tokens \in P PROVE Append(tokens, t) \in P
  <2>0. Append(tokens, t) \in Seq(Tokens)
    BY AppendProperties
  <2>1. SUFFICES ASSUME Plain(Append(tokens, t))
                 PROVE  DrainLines(a, Append(tokens, t)) = [agg |-> a, rest |-> Append(tokens, t)]
    BY <1>0, <2>0
  <2>2. /\ Len(tokens) \in Nat /\ Len(Append(tokens, t)) = Len(tokens) + 1
        /\ Append(tokens, t)[Len(tokens) + 1] = t
        /\ \A i \in 1..Len(tokens) : Append(tokens, t)[i] = tokens[i]
    BY AppendProperties
  <2>3. Plain(tokens) /\ t # Newline
    BY <2>1, <2>2 DEF Plain
  <2>4. DrainLines(a, tokens) = [agg |-> a, rest |-> tokens]
    BY <1>0, <1>2, <2>3
  <2>5. QED BY <2>3, <2>4, DrainAppend DEF Step
<1>3. Seq(Tokens) \subseteq P
  BY <1>1, <1>2, SequenceInduction
<1>4. QED BY <1>0, <1>3

\* To drain one chunk and then the rest with the next chunk is to drain both.
LEMMA DrainMore ==
    ASSUME NEW a \in Aggregates, NEW tokens \in Seq(Tokens)
    PROVE  \A chunk \in Seq(Tokens) :
              DrainLines(a, tokens \o chunk)
                 = DrainLines(DrainLines(a, tokens).agg, DrainLines(a, tokens).rest \o chunk)
<1>1. PICK s \in Drained : s = DrainLines(a, tokens) /\ Plain(s.rest)
  BY DrainedRestIsPlain
<1>2. s.agg \in Aggregates /\ s.rest \in Seq(Tokens) /\ s = [agg |-> s.agg, rest |-> s.rest]
  BY DEF Drained
<1> DEFINE P == {chunk \in Seq(Tokens) : DrainLines(a, tokens \o chunk) = DrainLines(s.agg, s.rest \o chunk)}
<1>3. <<>> \in P
  <2>1. tokens \o <<>> = tokens /\ s.rest \o <<>> = s.rest /\ <<>> \in Seq(Tokens)
    BY <1>2, ConcatEmptySeq
  <2>2. DrainLines(s.agg, s.rest) = s
    BY <1>1, <1>2, PlainIsRest
  <2>3. QED BY <1>1, <2>1, <2>2
<1>4. ASSUME NEW chunk \in Seq(Tokens), NEW t \in Tokens, chunk \in P PROVE Append(chunk, t) \in P
  <2>1. PICK q, r : q = tokens \o chunk /\ r = s.rest \o chunk
    OBVIOUS
  <2>2. DrainLines(a, q) = DrainLines(s.agg, r)
    BY <1>4, <2>1
  <2>3. q \in Seq(Tokens) /\ r \in Seq(Tokens)
    BY <1>2, <2>1, ConcatProperties
  <2>4. tokens \o Append(chunk, t) = Append(q, t) /\ s.rest \o Append(chunk, t) = Append(r, t)
    BY SMTT(30), <1>2, <2>1, ConcatAppend
  <2>5. Append(chunk, t) \in Seq(Tokens)
    BY AppendProperties
  <2>6. DrainLines(a, Append(q, t)) = Step(DrainLines(a, q), t)
    BY <2>3, DrainAppend
  <2>7. DrainLines(s.agg, Append(r, t)) = Step(DrainLines(s.agg, r), t)
    BY <1>2, <2>3, DrainAppend
  <2>8. QED BY <2>2, <2>4, <2>5, <2>6, <2>7
<1>5. Seq(Tokens) \subseteq P
  <2> HIDE DEF P
  <2>1. QED BY <1>3, <1>4, SequenceInduction
<1>6. QED BY <1>1, <1>5

-----------------------------------------------------------------------------
(* The audit specification, one event after the other. *)

Called(events) == {Payloads[events[k]].index : k \in {j \in DOMAIN events : Tool(events[j])}}
NameIn(events, i) ==
    LET named == Only(events, Named(i))
    IN  IF named = <<>> THEN "" ELSE Payloads[named[1]].name
CallIn(events, i) == [name |-> NameIn(events, i), args |-> Only(events, Tools(i))]
UsageIn(events) ==
    LET usages == Only(events, Usages)
    IN  IF usages = <<>> THEN 0 ELSE Payloads[Last(usages)].tokens

\* The parts of what is expected.
LEMMA MergedIs ==
    ASSUME NEW saw, NEW events
    PROVE  Merged(saw, events) = [saw |-> saw, text |-> Only(events, Texts), usage |-> UsageIn(events),
                                  tools |-> [i \in Called(events) |-> CallIn(events, i)]]
BY DEF Merged, UsageIn, Called, CallIn, NameIn

\* No event, nothing but the prefix.
LEMMA MergedNone ==
    ASSUME NEW saw
    PROVE  Merged(saw, <<>>) = [EmptyAgg EXCEPT !.saw = saw]
<1>1. <<>> \in Seq(Names)
  OBVIOUS
<1>2. Only(<<>>, Texts) = <<>> /\ Only(<<>>, Usages) = <<>>
  BY <1>1, OnlyTyped
<1>3. UsageIn(<<>>) = 0
  BY <1>2 DEF UsageIn
<1>4. Called(<<>>) = {}
  BY DEF Called
<1>5. PICK none : none = [i \in Called(<<>>) |-> CallIn(<<>>, i)]
  OBVIOUS
<1>6. none = <<>>
  BY <1>4, <1>5
<1>7. Merged(saw, <<>>) = [saw |-> saw, text |-> <<>>, usage |-> 0, tools |-> none]
  BY <1>2, <1>3, <1>5, MergedIs
<1>8. QED BY <1>6, <1>7 DEF EmptyAgg

\* The pieces of a call nobody made.
LEMMA NotCalled ==
    ASSUME NEW events \in Seq(Names), NEW i, i \notin Called(events)
    PROVE  Only(events, Tools(i)) = <<>> /\ Only(events, Named(i)) = <<>>
<1>1. ASSUME NEW k \in 1..Len(events) PROVE events[k] \notin Tools(i) /\ events[k] \notin Named(i)
  <2>1. k \in DOMAIN events
    OBVIOUS
  <2>2. Tool(events[k]) => Payloads[events[k]].index \in Called(events)
    BY <2>1 DEF Called
  <2>3. QED BY <2>2 DEF Tools, Named
<1>2. QED BY <1>1, OnlyTyped

\* The name of a call with one more piece.
LEMMA NameAdds ==
    ASSUME NEW events \in Seq(Names), NEW p \in Names, NEW i
    PROVE  /\ p \in Tools(i) => NameIn(Append(events, p), i)
                                   = IF NameIn(events, i) = "" THEN Payloads[p].name ELSE NameIn(events, i)
           /\ p \notin Tools(i) => NameIn(Append(events, p), i) = NameIn(events, i)
           /\ NameIn(events, i) \in CallNames
<1>1. PICK named : named = Only(events, Named(i))
  OBVIOUS
<1>2. named \in Seq(Named(i)) /\ Named(i) \subseteq Names
  BY <1>1, OnlyTyped DEF Named, Tools, Names
<1>3. named # <<>> => named[1] \in Named(i)
  BY <1>2, EmptySeq
<1>4. NameIn(events, i) = IF named = <<>> THEN "" ELSE Payloads[named[1]].name
  BY <1>1 DEF NameIn
<1>5. /\ named # <<>> => NameIn(events, i) # ""
      /\ NameIn(events, i) \in CallNames
  BY <1>3, <1>4 DEF Named, Tools, CallNames, Callers, Names
<1>6. Only(Append(events, p), Named(i)) = IF p \in Named(i) THEN Append(named, p) ELSE named
  BY <1>1, OnlyAppend
<1>7. CASE p \in Named(i)
  <2>1. p \in Tools(i) /\ Payloads[p].name # ""
    BY <1>7 DEF Named
  <2>2. PICK more : more = Append(named, p)
    OBVIOUS
  <2>3. /\ more # <<>>
        /\ named = <<>> => more[1] = p
        /\ named # <<>> => more[1] = named[1]
    BY <1>2, <1>7, <2>2, AppendProperties, EmptySeq
  <2>4. NameIn(Append(events, p), i) = Payloads[more[1]].name
    BY <1>6, <1>7, <2>2, <2>3 DEF NameIn
  <2>5. QED BY <1>4, <1>5, <2>1, <2>3, <2>4
<1>8. CASE p \notin Named(i)
  <2>1. NameIn(Append(events, p), i) = NameIn(events, i)
    BY <1>1, <1>6, <1>8 DEF NameIn
  <2>2. p \in Tools(i) => Payloads[p].name = ""
    BY <1>8 DEF Named
  <2>3. QED BY <1>4, <1>5, <2>1, <2>2
<1>9. QED BY <1>7, <1>8

\* The usage with one more event.
LEMMA UsageAdds ==
    ASSUME NEW events \in Seq(Names), NEW p \in Names
    PROVE  UsageIn(Append(events, p)) = IF Usage(p) THEN Payloads[p].tokens ELSE UsageIn(events)
<1>1. PICK usages : usages = Only(events, Usages)
  OBVIOUS
<1>2. usages \in Seq(Usages)
  BY <1>1, OnlyTyped
<1>3. p \in Usages <=> Usage(p)
  BY DEF Usages, Names
<1>4. Only(Append(events, p), Usages) = IF p \in Usages THEN Append(usages, p) ELSE usages
  BY <1>1, OnlyAppend
<1>5. CASE Usage(p)
  <2>1. PICK more : more = Append(usages, p)
    OBVIOUS
  <2>2. more # <<>> /\ Last(more) = p
    BY <1>2, <1>3, <1>5, <2>1, AppendProperties, EmptySeq DEF Last
  <2>3. QED BY <1>3, <1>4, <1>5, <2>1, <2>2 DEF UsageIn
<1>6. CASE ~Usage(p)
  BY <1>1, <1>3, <1>4, <1>6 DEF UsageIn
<1>7. QED BY <1>5, <1>6

\* The tool calls with one more event.
LEMMA CallsAdd ==
    ASSUME NEW events \in Seq(Names), NEW p \in Names, NEW tools,
           tools = [i \in Called(events) |-> CallIn(events, i)]
    PROVE  /\ tools \in ToolSets
           /\ [i \in Called(Append(events, p)) |-> CallIn(Append(events, p), i)]
                 = IF Tool(p) THEN MergeTool(tools, p) ELSE tools
<1>1. PICK more : more = Append(events, p)
  OBVIOUS
<1>2. PICK n \in Nat : n = Len(events)
  BY LenProperties
<1>3. /\ DOMAIN events = 1..n /\ DOMAIN more = 1..(n + 1)
      /\ more[n + 1] = p /\ \A k \in 1..n : more[k] = events[k]
  BY <1>1, <1>2, AppendProperties
<1>4. Called(more) = Called(events) \cup (IF Tool(p) THEN {Payloads[p].index} ELSE {})
  <2>1. n + 1 \in 1..(n + 1) /\ \A k \in 1..(n + 1) : k \in 1..n \/ k = n + 1
    OBVIOUS
  <2>2. \A k \in 1..n : k \in 1..(n + 1)
    OBVIOUS
  <2>3. Called(more) \subseteq Called(events) \cup (IF Tool(p) THEN {Payloads[p].index} ELSE {})
    BY <1>3, <2>1 DEF Called
  <2>4. Called(events) \subseteq Called(more)
    BY <1>3, <2>2 DEF Called
  <2>5. Tool(p) => Payloads[p].index \in Called(more)
    BY <1>3, <2>1 DEF Called
  <2>6. QED BY <2>3, <2>4, <2>5
<1>5. \A i : p \in Tools(i) <=> Tool(p) /\ Payloads[p].index = i
  BY DEF Tools, Names
<1>6. \A i : Only(more, Tools(i)) = IF p \in Tools(i) THEN Append(Only(events, Tools(i)), p)
                                    ELSE Only(events, Tools(i))
  BY <1>1, OnlyAppend
<1>7. \A i : ~(Tool(p) /\ Payloads[p].index = i) => CallIn(more, i) = CallIn(events, i)
  BY <1>1, <1>5, <1>6, NameAdds DEF CallIn
<1>8. \A i : CallIn(events, i) \in Call
  <2> TAKE i
  <2>1. NameIn(events, i) \in CallNames
    BY NameAdds
  <2>2. Only(events, Tools(i)) \in Seq(Names)
    BY OnlyTyped
  <2>3. QED BY <2>1, <2>2 DEF CallIn, Call
<1>9. tools \in ToolSets
  <2>1. Called(events) \in SUBSET Indexes
    <3>1. \A k \in DOMAIN events : events[k] \in Names
      OBVIOUS
    <3>2. QED BY <3>1 DEF Called, Indexes, Callers
  <2>2. tools \in [Called(events) -> Call]
    BY <1>8
  <2>3. QED BY <2>1, <2>2 DEF ToolSets
<1>10. CASE ~Tool(p)
  BY <1>1, <1>4, <1>7, <1>9, <1>10
<1>11. CASE Tool(p)
  <2>1. PICK i : i = Payloads[p].index
    OBVIOUS
  <2>2. PICK old : old = IF i \in DOMAIN tools THEN tools[i] ELSE [name |-> "", args |-> <<>>]
    OBVIOUS
  <2>3. PICK new : new = [name |-> IF old.name = "" THEN Payloads[p].name ELSE old.name,
                          args |-> Append(old.args, p)]
    OBVIOUS
  <2>4. MergeTool(tools, p) = [j \in Called(events) \cup {i} |-> IF j = i THEN new ELSE tools[j]]
    BY <2>1, <2>2, <2>3 DEF MergeTool
  <2>5. old = CallIn(events, i)
    <3>1. CASE i \in Called(events)
      BY <2>2, <3>1
    <3>2. CASE i \notin Called(events)
      <4>1. NameIn(events, i) = "" /\ Only(events, Tools(i)) = <<>>
        BY <3>2, NotCalled DEF NameIn
      <4>2. QED BY <2>2, <3>2, <4>1 DEF CallIn
    <3>3. QED BY <3>1, <3>2
  <2>6. new = CallIn(more, i)
    <3>1. p \in Tools(i)
      BY <1>5, <1>11, <2>1
    <3>2. old.name = NameIn(events, i) /\ old.args = Only(events, Tools(i))
      BY <2>5 DEF CallIn
    <3>3. NameIn(more, i) = IF old.name = "" THEN Payloads[p].name ELSE old.name
      BY <1>1, <3>1, <3>2, NameAdds
    <3>4. Only(more, Tools(i)) = Append(old.args, p)
      BY <1>6, <3>1, <3>2
    <3>5. QED BY <2>3, <3>3, <3>4 DEF CallIn
  <2>7. Called(more) = Called(events) \cup {i}
    BY <1>4, <1>11, <2>1
  <2>8. \A j \in Called(more) : CallIn(more, j) = IF j = i THEN new ELSE tools[j]
    BY <1>7, <2>1, <2>6, <2>7
  <2>9. [j \in Called(more) |-> CallIn(more, j)] = MergeTool(tools, p)
    BY <2>4, <2>7, <2>8
  <2>10. QED BY <1>1, <1>9, <1>11, <2>9
<1>12. QED BY <1>10, <1>11

\* The aggregator merges an event as the audit specification does.
LEMMA MergedAdds ==
    ASSUME NEW saw \in BOOLEAN, NEW events \in Seq(Names), NEW p \in Names
    PROVE  /\ Merged(saw, events) \in Aggregates
           /\ Merged(saw, Append(events, p)) = Absorb(Merged(saw, events), p)
<1>1. PICK text, usage, tools : /\ text = Only(events, Texts)
                                /\ usage = UsageIn(events)
                                /\ tools = [i \in Called(events) |-> CallIn(events, i)]
  OBVIOUS
<1>2. Merged(saw, events) = [saw |-> saw, text |-> text, usage |-> usage, tools |-> tools]
  BY <1>1, MergedIs
<1>3. text \in Seq(Names) /\ tools \in ToolSets
  BY <1>1, OnlyTyped, CallsAdd
<1>4. usage \in Counts
  <2>1. PICK usages : usages = Only(events, Usages)
    OBVIOUS
  <2>2. usages \in Seq(Usages)
    BY <2>1, OnlyTyped
  <2>3. usages # <<>> => Last(usages) \in Usages
    BY <2>2, EmptySeq, LenProperties DEF Last
  <2>4. usage = IF usages = <<>> THEN 0 ELSE Payloads[Last(usages)].tokens
    BY <1>1, <2>1 DEF UsageIn
  <2>5. QED BY <2>3, <2>4 DEF Counts
<1>5. Merged(saw, events) \in Aggregates
  BY <1>2, <1>3, <1>4 DEF Aggregates
<1>6. p \in Texts <=> Text(p)
  BY DEF Texts, Names
<1>7. Only(Append(events, p), Texts) = IF Text(p) THEN Append(text, p) ELSE text
  BY <1>1, <1>6, OnlyAppend
<1>8. UsageIn(Append(events, p)) = IF Usage(p) THEN Payloads[p].tokens ELSE usage
  BY <1>1, UsageAdds
<1>9. [i \in Called(Append(events, p)) |-> CallIn(Append(events, p), i)]
         = IF Tool(p) THEN MergeTool(tools, p) ELSE tools
  BY <1>1, CallsAdd
<1>10. PICK a \in Aggregates : a = Merged(saw, events)
  BY <1>5
<1>11. a.saw = saw /\ a.text = text /\ a.usage = usage /\ a.tools = tools
  BY <1>2, <1>10
<1>12. Absorb(a, p) = [saw |-> saw,
                       text |-> IF Text(p) THEN Append(text, p) ELSE text,
                       usage |-> IF Usage(p) THEN Payloads[p].tokens ELSE usage,
                       tools |-> IF Tool(p) THEN MergeTool(tools, p) ELSE tools]
  BY <1>11, AbsorbIs
<1>13. Merged(saw, Append(events, p)) = Absorb(a, p)
  BY <1>7, <1>8, <1>9, <1>12, MergedIs
<1>14. QED BY <1>5, <1>10, <1>13

\* A data line has been seen.
LEMMA MergedSaw ==
    ASSUME NEW saw, NEW events
    PROVE  [Merged(saw, events) EXCEPT !.saw = TRUE] = Merged(TRUE, events)
<1>1. PICK text, usage, tools : /\ text = Only(events, Texts)
                                /\ usage = UsageIn(events)
                                /\ tools = [i \in Called(events) |-> CallIn(events, i)]
  OBVIOUS
<1>2. /\ Merged(saw, events) = [saw |-> saw, text |-> text, usage |-> usage, tools |-> tools]
      /\ Merged(TRUE, events) = [saw |-> TRUE, text |-> text, usage |-> usage, tools |-> tools]
  BY <1>1, MergedIs
<1>3. PICK yes : yes = TRUE
  OBVIOUS
<1>4. [[saw |-> saw, text |-> text, usage |-> usage, tools |-> tools] EXCEPT !.saw = yes]
         = [saw |-> yes, text |-> text, usage |-> usage, tools |-> tools]
  OBVIOUS
<1>5. QED BY <1>2, <1>3, <1>4

-----------------------------------------------------------------------------
(* The events among tokens, one line after the other. *)

\* The second tokens of events, the payloads they are pieces of.
Firsts == {<<p, 1>> : p \in Names}
Places(tokens) == {i \in DOMAIN tokens : \E p \in Names : EventAt(tokens, i - 1, p)}
PayloadsOf(firsts) == [k \in DOMAIN firsts |-> firsts[k][1]]

\* One more.
LEMMA PayloadsAppend ==
    ASSUME NEW firsts \in Seq(Firsts), NEW p \in Names
    PROVE  /\ PayloadsOf(firsts) \in Seq(Names)
           /\ PayloadsOf(Append(firsts, <<p, 1>>)) = Append(PayloadsOf(firsts), p)
<1>1. PICK n \in Nat : n = Len(firsts)
  BY LenProperties
<1>2. PICK first \in Firsts : first = <<p, 1>>
  BY DEF Firsts
<1>3. PICK more : more = Append(firsts, first)
  OBVIOUS
<1>4. /\ DOMAIN firsts = 1..n /\ DOMAIN more = 1..(n + 1)
      /\ more[n + 1] = first /\ \A k \in 1..n : more[k] = firsts[k]
  BY <1>1, <1>3, AppendProperties
<1>5. \A k \in 1..n : firsts[k][1] \in Names
  BY <1>4 DEF Firsts
<1>6. PICK s : s = PayloadsOf(firsts)
  OBVIOUS
<1>7. s \in Seq(Names) /\ Len(s) = n /\ \A k \in 1..n : s[k] = firsts[k][1]
  BY <1>4, <1>5, <1>6 DEF PayloadsOf
<1>8. PICK t : t = PayloadsOf(more)
  OBVIOUS
<1>9. \A k \in 1..(n + 1) : k \in 1..n \/ k = n + 1
  OBVIOUS
<1>10. /\ t \in Seq(Names) /\ Len(t) = n + 1
       /\ \A k \in 1..(n + 1) : t[k] = IF k <= n THEN s[k] ELSE p
  <2>1. \A k \in 1..(n + 1) : more[k][1] = IF k <= n THEN s[k] ELSE p
    BY <1>2, <1>4, <1>7, <1>9
  <2>2. \A k \in 1..(n + 1) : more[k][1] \in Names
    BY <1>7, <1>9, <2>1
  <2>3. QED BY <1>4, <1>8, <2>1, <2>2 DEF PayloadsOf
<1>11. t = Append(s, p)
  <2>1. /\ Append(s, p) \in Seq(Names) /\ Len(Append(s, p)) = n + 1
        /\ \A k \in 1..(n + 1) : Append(s, p)[k] = IF k <= n THEN s[k] ELSE p
    BY <1>7, AppendProperties
  <2>2. QED BY <1>10, <2>1, SeqEqual
<1>12. QED BY <1>2, <1>3, <1>6, <1>7, <1>8, <1>11

\* The events are read at their places.
LEMMA EventsAre ==
    ASSUME NEW tokens \in Seq(Tokens)
    PROVE  /\ Pick(tokens, Places(tokens)) \in Seq(Firsts)
           /\ Events(tokens) = PayloadsOf(Pick(tokens, Places(tokens)))
           /\ Events(tokens) \in Seq(Names)
           /\ SawData(tokens) \in BOOLEAN
<1>1. ASSUME NEW i \in 1..Len(tokens), i \in Places(tokens) PROVE tokens[i] \in Firsts
  <2>1. PICK p \in Names : EventAt(tokens, i - 1, p)
    BY <1>1 DEF Places
  <2>2. 2 \in DOMAIN Event(p) /\ Event(p)[2] = <<p, 1>> /\ (i - 1) + 2 - 1 = i
    BY EventIs
  <2>3. tokens[i] = <<p, 1>>
    BY <2>1, <2>2 DEF EventAt
  <2>4. QED BY <2>3 DEF Firsts
<1>2. Pick(tokens, Places(tokens)) \in Seq(Firsts)
  BY <1>1, PickFrom
<1>3. Events(tokens) = PayloadsOf(Pick(tokens, Places(tokens)))
  BY DEF Events, PayloadsOf, Places, Names
<1>4. PayloadsOf(Pick(tokens, Places(tokens))) \in Seq(Names)
  <2>1. CASE Names = {}
    <3>1. Firsts = {}
      BY <2>1 DEF Firsts
    <3>2. Pick(tokens, Places(tokens)) = <<>>
      BY <1>2, <3>1
    <3>3. QED BY <3>2 DEF PayloadsOf
  <2>2. CASE Names # {}
    BY <1>2, <2>2, PayloadsAppend
  <2>3. QED BY <2>1, <2>2
<1>5. QED BY <1>2, <1>3, <1>4 DEF SawData

\* The end of a line adds nothing.
LEMMA NewlineAdds ==
    ASSUME NEW tokens \in Seq(Tokens)
    PROVE  Expected(Append(tokens, Newline)) = Expected(tokens)
<1>1. PICK n \in Nat : n = Len(tokens)
  BY LenProperties
<1>0. Newline \in Tokens
  BY DEF Tokens
<1>2. PICK more \in Seq(Tokens) : more = Append(tokens, Newline)
  BY <1>0, AppendProperties
<1>3. /\ DOMAIN tokens = 1..n /\ DOMAIN more = 1..(n + 1) /\ Len(more) = n + 1
      /\ more[n + 1] = Newline /\ \A i \in 1..n : more[i] = tokens[i]
  BY <1>0, <1>1, <1>2, AppendProperties
<1>5. ASSUME NEW i \in 1..n PROVE Begins(more, i) <=> Begins(tokens, i)
  <2>1. i \in 1..(n + 1) /\ (i # 1 => i - 1 \in 1..n)
    OBVIOUS
  <2>2. QED BY <1>3, <2>1 DEF Begins
<1>6. ASSUME NEW i, NEW p \in Names PROVE EventAt(more, i, p) <=> EventAt(tokens, i, p)
  <2>1. PICK len \in Nat : len = Len(Event(p)) /\ len >= 2 /\ DOMAIN Event(p) = 1..len
    BY EventIs
  <2>2. 1 \in 1..len /\ Event(p)[1] = Data /\ Data # Newline
    BY <2>1, EventIs DEF Data, Newline
  <2>3. \A j \in 1..len : Event(p)[j] # Newline
    BY <2>1, EventIs
  <2>4. ASSUME EventAt(more, i, p) PROVE EventAt(tokens, i, p)
    <3>1. i \in 1..(n + 1)
      BY <1>3, <2>4 DEF EventAt, Begins
    <3>2. \A j \in 1..len : i + j - 1 \in 1..(n + 1) /\ more[i + j - 1] = Event(p)[j]
      BY <1>3, <2>1, <2>4 DEF EventAt
    <3>3. \A j \in 1..len : i + j - 1 # n + 1
      BY <1>3, <2>3, <3>2
    <3>4. ASSUME NEW j \in 1..len PROVE i + j - 1 \in 1..n /\ tokens[i + j - 1] = Event(p)[j]
      BY <1>3, <3>1, <3>2, <3>3
    <3>5. i \in 1..n
      BY <2>2, <3>1, <3>4
    <3>6. Begins(tokens, i)
      BY <1>5, <2>4, <3>5 DEF EventAt
    <3>7. i + len \in 1..n => tokens[i + len] = Newline
      <4>1. i + len \in 1..n => i + len \in 1..(n + 1)
        OBVIOUS
      <4>2. i + len \in 1..(n + 1) => more[i + len] = Newline
        BY <1>3, <2>1, <2>4 DEF EventAt
      <4>3. QED BY <1>3, <4>1, <4>2
    <3>8. QED BY <1>3, <2>1, <3>4, <3>6, <3>7 DEF EventAt
  <2>5. ASSUME EventAt(tokens, i, p) PROVE EventAt(more, i, p)
    <3>1. i \in 1..n /\ i \in 1..(n + 1)
      BY <1>3, <2>5 DEF EventAt, Begins
    <3>2. \A j \in 1..len : i + j - 1 \in 1..n /\ tokens[i + j - 1] = Event(p)[j]
      BY <1>3, <2>1, <2>5 DEF EventAt
    <3>3. \A j \in 1..len : i + j - 1 \in 1..(n + 1) /\ more[i + j - 1] = Event(p)[j]
      BY <1>3, <3>1, <3>2
    <3>4. Begins(more, i)
      BY <1>5, <2>5, <3>1 DEF EventAt
    <3>5. i + len \in 1..(n + 1) => more[i + len] = Newline
      <4>1. i + len \in 1..n => tokens[i + len] = Newline
        BY <1>3, <2>1, <2>5 DEF EventAt
      <4>2. i + len \in 1..(n + 1) => i + len \in 1..n \/ i + len = n + 1
        BY <3>1
      <4>3. QED BY <1>3, <4>1, <4>2
    <3>6. QED BY <1>3, <2>1, <3>3, <3>4, <3>5 DEF EventAt
  <2>6. QED BY <2>4, <2>5
<1>7. ASSUME NEW i \in 1..(n + 1) PROVE i \in Places(more) <=> i <= n /\ i \in Places(tokens)
  <2>1. ASSUME NEW p \in Names, EventAt(more, i - 1, p) PROVE i <= n
    <3>1. 2 \in DOMAIN Event(p) /\ Event(p)[2] # Newline /\ (i - 1) + 2 - 1 = i
      BY EventIs
    <3>2. more[i] # Newline
      BY <2>1, <3>1 DEF EventAt
    <3>3. QED BY <1>3, <3>2
  <2>2. QED BY <1>3, <1>6, <2>1 DEF Places
<1>8. Pick(more, Places(more)) = Pick(tokens, Places(tokens))
  <2>1. Len(tokens) <= Len(more)
    BY <1>1, <1>3
  <2>2. \A i \in 1..Len(tokens) : tokens[i] = more[i] /\ (i \in Places(tokens) <=> i \in Places(more))
    BY <1>1, <1>3, <1>7
  <2>3. \A i \in (Len(tokens) + 1)..Len(more) : i \notin Places(more)
    BY <1>1, <1>3, <1>7
  <2>4. QED BY <2>1, <2>2, <2>3, PickPrefix
<1>9. Events(more) = Events(tokens)
  BY <1>8, EventsAre
<1>10. SawData(more) <=> SawData(tokens)
  <2>1. Data # Newline
    BY DEF Data, Newline
  <2>2. \A i \in 1..n : i \in 1..(n + 1)
    OBVIOUS
  <2>3. \A i \in 1..(n + 1) : i \in 1..n \/ i = n + 1
    OBVIOUS
  <2>4. QED BY <1>3, <1>5, <2>1, <2>2, <2>3 DEF SawData
<1>11. QED BY <1>2, <1>9, <1>10, EventsAre DEF Expected

\* Whole lines, and a line behind them.
WholeLines(tokens) == tokens = <<>> \/ tokens[Len(tokens)] = Newline

Splits(lines, line, tokens) ==
    /\ lines \in Seq(Tokens) /\ line \in Seq(Tokens) /\ tokens \in Seq(Tokens)
    /\ WholeLines(lines) /\ Plain(line) /\ tokens = lines \o line

\* Where they are.
LEMMA SplitIs ==
    ASSUME NEW lines, NEW line, NEW tokens, Splits(lines, line, tokens)
    PROVE  /\ Len(lines) \in Nat /\ Len(line) \in Nat /\ Len(tokens) = Len(lines) + Len(line)
           /\ DOMAIN lines = 1..Len(lines) /\ DOMAIN tokens = 1..(Len(lines) + Len(line))
           /\ \A i \in 1..Len(lines) : tokens[i] = lines[i]
           /\ \A j \in 1..Len(line) : tokens[Len(lines) + j] = line[j]
           /\ \A i \in 1..(Len(lines) + Len(line)) : tokens[i] = Newline => i <= Len(lines)
           /\ Len(lines) > 0 => tokens[Len(lines)] = Newline
<1>0. PICK m \in Nat, r \in Nat : m = Len(lines) /\ r = Len(line)
  BY LenProperties DEF Splits
<1>1. lines \in Seq(Tokens) /\ line \in Seq(Tokens) /\ tokens \in Seq(Tokens) /\ tokens = lines \o line
  BY DEF Splits
<1>2. /\ Len(tokens) = m + r
      /\ \A i \in 1..(m + r) : tokens[i] = IF i <= m THEN lines[i] ELSE line[i - m]
  BY <1>0, <1>1, ConcatProperties
<1>3. DOMAIN lines = 1..m /\ DOMAIN tokens = 1..(m + r)
  BY <1>0, <1>1, <1>2, LenProperties
<1>4. \A i \in 1..m : i \in 1..(m + r) /\ i <= m
  OBVIOUS
<1>5. \A j \in 1..r : m + j \in 1..(m + r) /\ ~(m + j <= m) /\ (m + j) - m = j
  OBVIOUS
<1>6. \A i \in 1..(m + r) : tokens[i] = Newline => i <= m
  <2>1. SUFFICES ASSUME NEW i \in 1..(m + r), tokens[i] = Newline, ~(i <= m) PROVE FALSE
    OBVIOUS
  <2>2. i - m \in 1..r /\ line[i - m] = Newline
    BY <1>2, <2>1
  <2>3. QED BY <1>0, <2>2 DEF Splits, Plain
<1>7. m > 0 => tokens[m] = Newline
  <2>1. SUFFICES ASSUME m > 0 PROVE tokens[m] = Newline
    OBVIOUS
  <2>2. lines # <<>>
    BY <1>0, <1>1, <2>1, EmptySeq
  <2>3. lines[m] = Newline
    BY <1>0, <2>2 DEF Splits, WholeLines
  <2>4. m \in 1..m
    BY <2>1
  <2>5. QED BY <1>2, <1>4, <2>3, <2>4
<1>8. \A i \in 1..m : tokens[i] = lines[i]
  BY <1>2, <1>4
<1>9. \A j \in 1..r : tokens[m + j] = line[j]
  BY <1>2, <1>5
<1>10. QED BY <1>0, <1>2, <1>3, <1>6, <1>7, <1>8, <1>9

\* An event of the lines is one of the tokens.
LEMMA EventInLines ==
    ASSUME NEW lines, NEW line, NEW tokens, Splits(lines, line, tokens),
           NEW m \in Nat, m = Len(lines),
           NEW p \in Names, NEW i \in Int, i <= m
    PROVE  EventAt(tokens, i, p) <=> EventAt(lines, i, p) /\ i < m
<1>1. PICK r \in Nat : r = Len(line)
  BY LenProperties DEF Splits
<1>2. /\ DOMAIN lines = 1..m /\ DOMAIN tokens = 1..(m + r)
      /\ \A k \in 1..m : tokens[k] = lines[k]
      /\ m > 0 => tokens[m] = Newline
  BY <1>1, SplitIs
<1>3. PICK len \in Nat : len = Len(Event(p)) /\ len >= 2 /\ DOMAIN Event(p) = 1..len
  BY EventIs
<1>4. \A j \in 1..len : Event(p)[j] # Newline
  BY <1>3, EventIs
<1>5. ASSUME i \in 1..m PROVE Begins(tokens, i) <=> Begins(lines, i)
  <2>1. i \in 1..(m + r) /\ (i # 1 => i - 1 \in 1..m)
    BY <1>5
  <2>2. QED BY <1>2, <1>5, <2>1 DEF Begins
<1>6. ASSUME EventAt(tokens, i, p) PROVE EventAt(lines, i, p) /\ i < m
  <2>1. i \in 1..m
    BY <1>2, <1>6 DEF EventAt, Begins
  <2>2. \A j \in 1..len : i + j - 1 \in 1..(m + r) /\ tokens[i + j - 1] = Event(p)[j]
    BY <1>2, <1>3, <1>6 DEF EventAt
  <2>3. \A j \in 1..len : i + j - 1 # m
    BY <1>2, <1>4, <2>1, <2>2
  <2>4. i + len - 1 < m
    <3>1. SUFFICES ASSUME i + len - 1 >= m PROVE FALSE
      BY <2>1
    <3>2. m - i + 1 \in 1..len /\ i + (m - i + 1) - 1 = m
      BY <2>1, <3>1
    <3>3. QED BY <2>3, <3>2
  <2>5. ASSUME NEW j \in 1..len PROVE i + j - 1 \in 1..m /\ lines[i + j - 1] = Event(p)[j]
    <3>1. i + j - 1 \in 1..m
      BY <2>1, <2>4
    <3>2. QED BY <1>2, <2>2, <3>1
  <2>6. i + len \in 1..m /\ lines[i + len] = Newline
    <3>1. i + len \in 1..m /\ i + len \in 1..(m + r)
      BY <2>1, <2>4
    <3>2. tokens[i + len] = Newline
      BY <1>2, <1>3, <1>6, <3>1 DEF EventAt
    <3>3. QED BY <1>2, <3>1, <3>2
  <2>7. Begins(lines, i)
    BY <1>5, <1>6, <2>1 DEF EventAt
  <2>8. QED BY <1>2, <1>3, <2>1, <2>4, <2>5, <2>6, <2>7 DEF EventAt
<1>7. ASSUME EventAt(lines, i, p) PROVE EventAt(tokens, i, p)
  <2>1. i \in 1..m
    BY <1>2, <1>7 DEF EventAt, Begins
  <2>2. \A j \in 1..len : i + j - 1 \in 1..m /\ lines[i + j - 1] = Event(p)[j]
    BY <1>2, <1>3, <1>7 DEF EventAt
  <2>3. ASSUME NEW j \in 1..len
        PROVE  i + j - 1 \in 1..(m + r) /\ tokens[i + j - 1] = Event(p)[j] /\ i + j - 1 # m
    <3>1. PICK k \in 1..m : k = i + j - 1 /\ lines[k] = Event(p)[j]
      BY <2>2
    <3>2. k \in 1..(m + r) /\ tokens[k] = Event(p)[j]
      BY <1>2, <3>1
    <3>3. k # m
      BY <1>2, <1>4, <3>2
    <3>4. QED BY <3>1, <3>2, <3>3
  <2>5. i + len \in 1..m
    <3>1. len \in 1..len
      BY <1>3
    <3>2. i + len - 1 \in 1..m /\ i + len - 1 # m
      BY <2>2, <2>3, <3>1
    <3>3. QED BY <2>1, <3>2
  <2>6. tokens[i + len] = Newline
    BY <1>2, <1>3, <1>7, <2>5 DEF EventAt
  <2>7. Begins(tokens, i)
    BY <1>5, <1>7, <2>1 DEF EventAt
  <2>8. QED BY <1>2, <1>3, <2>3, <2>6, <2>7 DEF EventAt
<1>8. QED BY <1>6, <1>7

\* An event behind the lines is the line.
LEMMA EventBehindLines ==
    ASSUME NEW lines, NEW line, NEW tokens, Splits(lines, line, tokens),
           NEW m \in Nat, m = Len(lines),
           NEW p \in Names, NEW i \in Int, i > m
    PROVE  EventAt(tokens, i, p) <=> i = m + 1 /\ line = Event(p)
<1>1. PICK r \in Nat : r = Len(line)
  BY LenProperties DEF Splits
<1>2. /\ DOMAIN tokens = 1..(m + r)
      /\ \A j \in 1..r : tokens[m + j] = line[j]
      /\ \A k \in 1..(m + r) : tokens[k] = Newline => k <= m
      /\ m > 0 => tokens[m] = Newline
  BY <1>1, SplitIs
<1>3. PICK len \in Nat : len = Len(Event(p)) /\ len >= 2 /\ DOMAIN Event(p) = 1..len
  BY EventIs
<1>4. ASSUME EventAt(tokens, i, p) PROVE i = m + 1 /\ line = Event(p)
  <2>1. i \in 1..(m + r) /\ (i = 1 \/ tokens[i - 1] = Newline)
    BY <1>2, <1>4 DEF EventAt, Begins
  <2>2. i = m + 1
    <3>1. CASE i = 1
      BY <3>1
    <3>2. CASE i # 1
      <4>1. i - 1 \in 1..(m + r)
        BY <2>1, <3>2
      <4>2. QED BY <1>2, <2>1, <3>2, <4>1
    <3>3. QED BY <3>1, <3>2
  <2>3. \A j \in 1..len : i + j - 1 \in 1..(m + r) /\ tokens[i + j - 1] = Event(p)[j]
    BY <1>2, <1>3, <1>4 DEF EventAt
  <2>4. \A j \in 1..len : j \in 1..r /\ line[j] = Event(p)[j]
    <3>1. ASSUME NEW j \in 1..len PROVE j \in 1..r /\ m + j = i + j - 1
      BY SMTT(30), <2>2, <2>3
    <3>2. QED BY <1>2, <2>3, <3>1
  <2>5. ~(len < r)
    <3>1. SUFFICES ASSUME len < r PROVE FALSE
      OBVIOUS
    <3>2. i + len \in 1..(m + r) /\ i + len > m
      BY <2>2, <3>1
    <3>3. tokens[i + len] = Newline
      BY <1>2, <1>3, <1>4, <3>2 DEF EventAt
    <3>4. QED BY <1>2, <3>2, <3>3
  <2>6. len = r
    <3>1. len \in 1..len
      BY <1>3
    <3>2. QED BY <2>4, <2>5, <3>1
  <2>7. line \in Seq(Tokens) /\ Event(p) \in Seq(Tokens)
    BY EventIs DEF Splits
  <2>8. line = Event(p)
    BY <1>1, <1>3, <2>4, <2>6, <2>7, SeqEqual
  <2>9. QED BY <2>2, <2>8
<1>5. ASSUME i = m + 1, line = Event(p) PROVE EventAt(tokens, i, p)
  <2>1. r = len
    BY <1>1, <1>3, <1>5
  <2>2. ASSUME NEW j \in 1..len PROVE i + j - 1 \in 1..(m + r) /\ tokens[i + j - 1] = Event(p)[j]
    <3>1. i + j - 1 \in 1..(m + r) /\ i + j - 1 = m + j /\ j \in 1..r
      BY <1>5, <2>1
    <3>2. QED BY <1>2, <1>5, <3>1
  <2>3. i + len \notin 1..(m + r)
    BY <1>5, <2>1
  <2>4. Begins(tokens, i)
    <3>1. i \in 1..(m + r) /\ (m = 0 => i = 1) /\ i - 1 = m
      BY <1>3, <1>5, <2>1
    <3>2. QED BY <1>2, <3>1 DEF Begins
  <2>5. QED BY <1>2, <1>3, <2>2, <2>3, <2>4 DEF EventAt
<1>6. QED BY <1>4, <1>5

\* A data line behind the lines has been seen.
LEMMA SawBehindLines ==
    ASSUME NEW lines, NEW line, NEW tokens, Splits(lines, line, tokens)
    PROVE  SawData(tokens) <=> SawData(lines) \/ (line # <<>> /\ line[1] = Data)
<1>1. PICK m \in Nat, r \in Nat : m = Len(lines) /\ r = Len(line)
  BY LenProperties DEF Splits
<1>2. /\ DOMAIN lines = 1..m /\ DOMAIN tokens = 1..(m + r)
      /\ \A i \in 1..m : tokens[i] = lines[i]
      /\ \A j \in 1..r : tokens[m + j] = line[j]
      /\ \A i \in 1..(m + r) : tokens[i] = Newline => i <= m
      /\ m > 0 => tokens[m] = Newline
  BY <1>1, SplitIs
<1>3. line # <<>> <=> r > 0
  BY <1>1, EmptySeq, LenProperties DEF Splits
<1>4. ASSUME NEW i \in 1..m PROVE i \in 1..(m + r) /\ (Begins(tokens, i) <=> Begins(lines, i))
  <2>1. i \in 1..(m + r) /\ (i # 1 => i - 1 \in 1..m)
    OBVIOUS
  <2>2. QED BY <1>2, <2>1 DEF Begins
<1>5. ASSUME NEW i \in 1..(m + r), i > m PROVE Begins(tokens, i) <=> i = m + 1
  <2>1. CASE i = 1
    BY <1>2, <1>5, <2>1 DEF Begins
  <2>2. CASE i # 1
    <3>1. i - 1 \in 1..(m + r)
      BY <2>2
    <3>2. i = m + 1 => m > 0 /\ i - 1 = m
      BY <2>2
    <3>3. i # m + 1 => ~(i - 1 <= m)
      BY <1>5
    <3>4. QED BY <1>2, <2>2, <3>1, <3>2, <3>3 DEF Begins
  <2>3. QED BY <2>1, <2>2
<1>6. ASSUME SawData(lines) PROVE SawData(tokens)
  BY <1>2, <1>4, <1>6 DEF SawData
<1>7. ASSUME line # <<>>, line[1] = Data PROVE SawData(tokens)
  <2>1. 1 \in 1..r /\ m + 1 \in 1..(m + r) /\ m + 1 > m
    BY <1>3, <1>7
  <2>2. QED BY <1>2, <1>5, <1>7, <2>1 DEF SawData
<1>8. ASSUME SawData(tokens) PROVE SawData(lines) \/ (line # <<>> /\ line[1] = Data)
  <2>1. PICK i \in 1..(m + r) : Begins(tokens, i) /\ tokens[i] = Data
    BY <1>2, <1>8 DEF SawData
  <2>2. CASE i <= m
    <3>1. i \in 1..m
      BY <2>2
    <3>2. QED BY <1>2, <1>4, <2>1, <3>1 DEF SawData
  <2>3. CASE i > m
    <3>1. i = m + 1
      BY <1>5, <2>1, <2>3
    <3>2. 1 \in 1..r /\ r > 0
      BY <3>1
    <3>3. QED BY <1>2, <1>3, <2>1, <3>1, <3>2
  <2>4. QED BY <2>2, <2>3
<1>9. QED BY <1>6, <1>7, <1>8

\* The events of the lines, and the line if it is one.
LEMMA EventsBehindLines ==
    ASSUME NEW lines, NEW line, NEW tokens, Splits(lines, line, tokens)
    PROVE  /\ \A p \in Names : line = Event(p) => Events(tokens) = Append(Events(lines), p)
           /\ (~\E p \in Names : line = Event(p)) => Events(tokens) = Events(lines)
<1>1. PICK m \in Nat, r \in Nat : m = Len(lines) /\ r = Len(line)
  BY LenProperties DEF Splits
<1>2. /\ DOMAIN lines = 1..m /\ DOMAIN tokens = 1..(m + r) /\ Len(tokens) = m + r
      /\ \A i \in 1..m : tokens[i] = lines[i]
      /\ \A j \in 1..r : tokens[m + j] = line[j]
  BY <1>1, SplitIs
<1>3. lines \in Seq(Tokens) /\ tokens \in Seq(Tokens)
  BY DEF Splits
<1>4. ASSUME NEW i \in 1..m PROVE i \in Places(lines) <=> i \in Places(tokens)
  <2>1. i \in 1..(m + r) /\ i - 1 \in Int /\ i - 1 <= m /\ i - 1 < m
    OBVIOUS
  <2>2. \A p \in Names : EventAt(tokens, i - 1, p) <=> EventAt(lines, i - 1, p)
    BY <1>1, <2>1, EventInLines
  <2>3. QED BY <1>2, <2>1, <2>2 DEF Places
<1>5. ASSUME NEW i \in (m + 1)..(m + r)
      PROVE  i \in Places(tokens) <=> i = m + 2 /\ \E p \in Names : line = Event(p)
  <2>1. i \in 1..(m + r) /\ i - 1 \in Int
    OBVIOUS
  <2>2. CASE i = m + 1
    <3>1. i - 1 = m
      BY <2>2
    <3>2. \A p \in Names : ~EventAt(tokens, i - 1, p)
      BY <1>1, <2>1, <3>1, EventInLines
    <3>3. QED BY <2>2, <3>2 DEF Places
  <2>3. CASE i > m + 1
    <3>1. i - 1 > m /\ (i - 1 = m + 1 <=> i = m + 2)
      BY <2>3
    <3>2. \A p \in Names : EventAt(tokens, i - 1, p) <=> i = m + 2 /\ line = Event(p)
      BY <1>1, <2>1, <3>1, EventBehindLines
    <3>3. QED BY <1>2, <2>1, <3>2 DEF Places
  <2>4. QED BY <2>2, <2>3
<1>6. Len(lines) <= Len(tokens)
  BY <1>1, <1>2
<1>7. \A i \in 1..Len(lines) : lines[i] = tokens[i] /\ (i \in Places(lines) <=> i \in Places(tokens))
  BY <1>1, <1>2, <1>4
<1>8. ASSUME NEW p \in Names, line = Event(p) PROVE Events(tokens) = Append(Events(lines), p)
  <2>1. r >= 2 /\ line[2] = <<p, 1>>
    BY <1>1, <1>8, EventIs
  <2>2. m + 2 \in (m + 1)..(m + r) /\ tokens[m + 2] = <<p, 1>>
    BY <1>2, <2>1
  <2>3. \A i \in (m + 1)..(m + r) : i \in Places(tokens) <=> i = m + 2
    BY <1>5, <1>8
  <2>4. Pick(tokens, Places(tokens)) = Append(Pick(lines, Places(lines)), tokens[m + 2])
    <3>1. \A i \in (Len(lines) + 1)..Len(tokens) : i \in Places(tokens) <=> i = m + 2
      BY <1>1, <1>2, <2>3
    <3>2. m + 2 \in (Len(lines) + 1)..Len(tokens)
      BY <1>1, <1>2, <2>2
    <3>3. QED BY SMTT(30), <1>3, <1>6, <1>7, <3>1, <3>2, PickOneMore
  <2>5. QED BY <1>3, <2>2, <2>4, EventsAre, PayloadsAppend
<1>9. ASSUME ~\E p \in Names : line = Event(p) PROVE Events(tokens) = Events(lines)
  <2>1. \A i \in (Len(lines) + 1)..Len(tokens) : i \notin Places(tokens)
    BY <1>1, <1>2, <1>5, <1>9
  <2>2. Pick(tokens, Places(tokens)) = Pick(lines, Places(lines))
    BY <1>3, <1>6, <1>7, <2>1, PickPrefix
  <2>3. QED BY <1>3, <2>2, EventsAre
<1>10. QED BY <1>8, <1>9

\* A line adds to what is expected of the lines before it what processLine adds.
LEMMA LineAdds ==
    ASSUME NEW lines, NEW line, NEW tokens, Splits(lines, line, tokens)
    PROVE  /\ ProcessLine(Expected(lines), line) = Expected(tokens)
           /\ Expected(lines) \in Aggregates
<1>1. PICK saw, events : saw = SawData(lines) /\ events = Events(lines)
  OBVIOUS
<1>2. lines \in Seq(Tokens) /\ saw \in BOOLEAN /\ events \in Seq(Names)
  BY <1>1, EventsAre DEF Splits
<1>3. Expected(lines) = Merged(saw, events) /\ Expected(tokens) = Merged(SawData(tokens), Events(tokens))
  BY <1>1 DEF Expected
<1>4. Merged(saw, events) \in Aggregates
  <2>1. CASE events = <<>>
    <3>1. PICK a \in Aggregates : a = EmptyAgg
      BY EmptyAggTyped
    <3>2. [a EXCEPT !.saw = saw] \in Aggregates
      BY <1>2 DEF Aggregates
    <3>3. QED BY <2>1, <3>1, <3>2, MergedNone
  <2>2. CASE events # <<>>
    <3>1. events[1] \in Names
      BY <1>2, <2>2, EmptySeq
    <3>2. QED BY <1>2, <3>1, MergedAdds
  <2>3. QED BY <2>1, <2>2
<1>5. CASE line = <<>> \/ line[1] # Data
  <2>1. ~\E p \in Names : line = Event(p)
    <3>1. \A p \in Names : Event(p) # <<>> /\ Event(p)[1] = Data
      BY EventIs, EmptySeq
    <3>2. QED BY <1>5, <3>1
  <2>2. Events(tokens) = events
    BY <1>1, <2>1, EventsBehindLines
  <2>3. SawData(tokens) = saw
    BY <1>1, <1>5, SawBehindLines DEF SawData
  <2>4. ProcessLine(Expected(lines), line) = Expected(lines)
    BY <1>5 DEF ProcessLine
  <2>5. QED BY <1>3, <1>4, <2>2, <2>3, <2>4
<1>6. CASE ~(line = <<>> \/ line[1] # Data)
  <2>1. SawData(tokens) = TRUE
    BY <1>6, SawBehindLines DEF SawData
  <2>2. [Merged(saw, events) EXCEPT !.saw = TRUE] = Merged(TRUE, events)
    BY MergedSaw
  <2>3. ProcessLine(Merged(saw, events), line)
           = IF \E p \in Names : line = Event(p) THEN Absorb(Merged(TRUE, events), line[2][1])
                                                 ELSE Merged(TRUE, events)
    BY <1>6, <2>2 DEF ProcessLine, Names
  <2>4. CASE \E p \in Names : line = Event(p)
    <3>1. PICK p \in Names : line = Event(p)
      BY <2>4
    <3>2. line[2][1] = p
      BY <3>1, EventIs
    <3>3. Events(tokens) = Append(events, p)
      BY <1>1, <3>1, EventsBehindLines
    <3>4. Merged(TRUE, Append(events, p)) = Absorb(Merged(TRUE, events), p)
      BY <1>2, MergedAdds
    <3>5. QED BY <1>3, <1>4, <2>1, <2>3, <2>4, <3>2, <3>3, <3>4
  <2>5. CASE ~\E p \in Names : line = Event(p)
    <3>1. Events(tokens) = events
      BY <1>1, <2>5, EventsBehindLines
    <3>2. QED BY <1>3, <1>4, <2>1, <2>3, <2>5, <3>1
  <2>6. QED BY <2>4, <2>5
<1>7. QED BY <1>5, <1>6

\* What drainLines has merged of some tokens is what is expected of their whole
\* lines, and its rest is what is behind those.
LEMMA DrainedIsExpected ==
    \A tokens \in Seq(Tokens) : \E lines, rest :
        /\ Splits(lines, rest, tokens)
        /\ DrainLines(EmptyAgg, tokens) = [agg |-> Expected(lines), rest |-> rest]
<1> DEFINE P == {tokens \in Seq(Tokens) : \E lines, rest :
                   /\ Splits(lines, rest, tokens)
                   /\ DrainLines(EmptyAgg, tokens) = [agg |-> Expected(lines), rest |-> rest]}
<1>1. <<>> \in P
  <2>1. <<>> \in Seq(Tokens) /\ <<>> \o <<>> = <<>> /\ Plain(<<>>) /\ WholeLines(<<>>)
    BY DEF Plain, WholeLines
  <2>2. Splits(<<>>, <<>>, <<>>)
    BY <2>1 DEF Splits
  <2>3. Places(<<>>) = {} /\ SawData(<<>>) = FALSE
    BY DEF Places, SawData
  <2>4. Pick(<<>>, Places(<<>>)) = <<>>
    BY <2>1, PickTyped
  <2>5. Events(<<>>) = <<>>
    <3>1. PICK none : none = PayloadsOf(<<>>)
      OBVIOUS
    <3>2. none = <<>>
      BY <3>1 DEF PayloadsOf
    <3>3. QED BY <2>1, <2>4, <3>1, <3>2, EventsAre
  <2>6. Expected(<<>>) = EmptyAgg
    <3>1. Expected(<<>>) = [EmptyAgg EXCEPT !.saw = FALSE]
      BY <2>3, <2>5, MergedNone DEF Expected
    <3>2. [EmptyAgg EXCEPT !.saw = FALSE] = EmptyAgg
      <4>1. PICK no \in BOOLEAN : no = FALSE
        OBVIOUS
      <4>2. PICK a : a = [saw |-> no, text |-> <<>>, usage |-> 0, tools |-> <<>>]
        OBVIOUS
      <4>3. [a EXCEPT !.saw = no] = a
        BY <4>2
      <4>4. QED BY <4>1, <4>2, <4>3 DEF EmptyAgg
    <3>3. QED BY <3>1, <3>2
  <2>7. DrainLines(EmptyAgg, <<>>) = [agg |-> Expected(<<>>), rest |-> <<>>]
    BY <2>6, EmptyAggTyped, DrainEmpty
  <2>8. QED BY <2>1, <2>2, <2>7
<1>2. ASSUME NEW tokens \in Seq(Tokens), NEW t \in Tokens, tokens \in P PROVE Append(tokens, t) \in P
  <2>1. PICK lines, rest : /\ Splits(lines, rest, tokens)
                           /\ DrainLines(EmptyAgg, tokens) = [agg |-> Expected(lines), rest |-> rest]
    BY <1>2
  <2>2. PICK more : more = Append(tokens, t)
    OBVIOUS
  <2>3. PICK n \in Nat : n = Len(tokens)
    BY LenProperties
  <2>4. more \in Seq(Tokens) /\ Len(more) = n + 1 /\ more[n + 1] = t
    BY <2>2, <2>3, AppendProperties
  <2>5. DrainLines(EmptyAgg, more) = Step([agg |-> Expected(lines), rest |-> rest], t)
    BY <2>1, <2>2, DrainAppend, EmptyAggTyped
  <2>6. SUFFICES \E whole, new : /\ Splits(whole, new, more)
                                 /\ DrainLines(EmptyAgg, more) = [agg |-> Expected(whole), rest |-> new]
    BY <2>2, <2>4
  <2> HIDE DEF P
  <2>7. CASE t = Newline
    <3>1. WholeLines(more) /\ <<>> \in Seq(Tokens) /\ Plain(<<>>) /\ more \o <<>> = more
      BY <2>4, <2>7, ConcatEmptySeq DEF WholeLines, Plain
    <3>2. Splits(more, <<>>, more)
      BY <2>4, <3>1 DEF Splits
    <3>3. Expected(more) = ProcessLine(Expected(lines), rest)
      BY <2>1, <2>2, <2>7, LineAdds, NewlineAdds
    <3>4. DrainLines(EmptyAgg, more) = [agg |-> Expected(more), rest |-> <<>>]
      BY <2>5, <2>7, <3>3 DEF Step
    <3>5. QED BY <3>2, <3>4
  <2>8. CASE t # Newline
    <3>1. PICK new : new = Append(rest, t)
      OBVIOUS
    <3>2. rest \in Seq(Tokens) /\ lines \in Seq(Tokens) /\ tokens = lines \o rest /\ Plain(rest) /\ WholeLines(lines)
      BY <2>1 DEF Splits
    <3>3. new \in Seq(Tokens) /\ more = lines \o new
      <4>1. new \in Seq(Tokens)
        BY <3>1, <3>2, AppendProperties
      <4>2. lines \o Append(rest, t) = Append(lines \o rest, t)
        BY <3>2, ConcatAppend
      <4>3. QED BY <2>2, <3>1, <3>2, <4>1, <4>2
    <3>4. Plain(new)
      BY <2>8, <3>1, <3>2, AppendProperties DEF Plain
    <3>5. Splits(lines, new, more)
      BY <2>4, <3>2, <3>3, <3>4 DEF Splits
    <3>6. DrainLines(EmptyAgg, more) = [agg |-> Expected(lines), rest |-> new]
      BY <2>5, <2>8, <3>1 DEF Step
    <3>7. QED BY <3>5, <3>6
  <2>9. QED BY <2>7, <2>8
<1>3. Seq(Tokens) \subseteq P
  <2> HIDE DEF P
  <2>1. QED BY <1>1, <1>2, SequenceInduction
<1>4. QED BY <1>3

\* With its rest as a last line, drainLines has merged all that is expected.
LEMMA FinishedIsExpected ==
    ASSUME NEW tokens \in Seq(Tokens)
    PROVE  /\ ProcessLine(DrainLines(EmptyAgg, tokens).agg, DrainLines(EmptyAgg, tokens).rest)
                 = Expected(tokens)
           /\ Expected(tokens).saw = SawData(tokens)
<1>1. PICK lines, rest : /\ Splits(lines, rest, tokens)
                         /\ DrainLines(EmptyAgg, tokens) = [agg |-> Expected(lines), rest |-> rest]
  BY DrainedIsExpected
<1>2. PICK events, saw : events = Events(tokens) /\ saw = SawData(tokens)
  OBVIOUS
<1>3. Expected(tokens).saw = saw
  BY <1>2, MergedIs DEF Expected
<1>4. QED BY <1>1, <1>2, <1>3, LineAdds

\* The rest of the first tokens of a body whose lines fit the buffer fits it.
LEMMA RestFits ==
    ASSUME LinesFit, body \in Seq(Tokens), NEW tokens \in Seq(Tokens),
           Len(tokens) <= Len(body), \A i \in 1..Len(tokens) : tokens[i] = body[i]
    PROVE  Len(DrainLines(EmptyAgg, tokens).rest) <= MaxPending
<1>1. PICK lines, rest : /\ Splits(lines, rest, tokens)
                         /\ DrainLines(EmptyAgg, tokens) = [agg |-> Expected(lines), rest |-> rest]
  BY DrainedIsExpected
<1>2. PICK m \in Nat, r \in Nat : m = Len(lines) /\ r = Len(rest)
  BY <1>1, LenProperties DEF Splits
<1>3. /\ Len(tokens) = m + r
      /\ \A i \in 1..(m + r) : tokens[i] = Newline => i <= m
  BY <1>1, <1>2, SplitIs
<1>4. PICK n \in Nat : n = Len(body) /\ DOMAIN body = 1..n
  BY LenProperties
<1>5. MaxPending \in Nat
  BY ForwarderAssumption
<1>6. SUFFICES ASSUME r > MaxPending PROVE FALSE
  BY <1>1, <1>2, <1>5
<1>7. ASSUME NEW j \in (m + 1)..(m + 1 + MaxPending) PROVE j \in 1..n /\ body[j] # Newline
  <2>1. j \in 1..(m + r) /\ ~(j <= m) /\ j \in 1..n
    BY <1>3, <1>4, <1>5, <1>6
  <2>2. body[j] = tokens[j]
    BY <1>3, <2>1
  <2>3. QED BY <1>3, <2>1, <2>2
<1>8. m + 1 \in (m + 1)..(m + 1 + MaxPending)
  BY <1>5
<1>9. m + 1 \in DOMAIN body /\ body[m + 1] # Newline
  BY <1>4, <1>7, <1>8
<1>10. PICK j \in (m + 1)..(m + 1 + MaxPending) : j \notin DOMAIN body \/ body[j] = Newline
  BY <1>9 DEF LinesFit
<1>11. QED BY <1>4, <1>7, <1>10

-----------------------------------------------------------------------------
(* The inductive invariant. *)

\* What the variables hold, and how far the client is behind.
Shape ==
    /\ body \in Seq(Tokens) /\ client \in Seq(Tokens) /\ pending \in Seq(Tokens)
    /\ agg \in Aggregates
    /\ client = SubSeq(body, 1, Len(client))
    /\ state = "running" => Len(client) = pos /\ ended = "no"
    /\ raw = Leading(SubSeq(body, 1, pos))

\* Until Run returns aggregator and buffer are what drainLines makes of all the
\* client got; then the aggregate is what is expected of it.
Kept ==
    LinesFit =>
        /\ state \in {"running", "returned"} =>
              DrainLines(EmptyAgg, client) = [agg |-> agg, rest |-> pending]
        /\ state \in {"result", "stored"} => agg = Expected(client)

\* What handleStream stores.
StoredIs ==
    state = "stored" => stored = IF status # 200 \/ ~agg.saw
                                 THEN [form |-> "raw", raw |-> raw]
                                 ELSE [form |-> "aggregate", agg |-> agg]

IInv == TypeOK /\ Shape /\ Kept /\ StoredIs

\* A body is made of tokens.
LEMMA BodyTyped == Bodies \subseteq Seq(Tokens)
<1>0. Newline \in Tokens /\ <<"junk", 0>> \in Tokens /\ \A x \in Tokens : <<x>> \in Seq(Tokens)
  <2>1. \A x \in Tokens : <<x>> \in Seq(Tokens)
    OBVIOUS
  <2>2. QED BY <2>1 DEF Tokens
<1>1. ASSUME NEW kind \in LineKinds PROVE LineOf(kind) \in Seq(Tokens)
  <2>1. PICK end \in Seq(Tokens) : end = <<Newline>>
    BY <1>0
  <2>2. CASE kind = "junk"
    <3>1. PICK junk \in Seq(Tokens) : junk = <<<<"junk", 0>>>>
      BY <1>0
    <3>2. LineOf(kind) = junk \o end
      BY <2>1, <2>2, <3>1 DEF LineOf
    <3>3. QED BY <3>2, ConcatProperties
  <2>3. CASE kind # "junk"
    <3>1. kind \in Names
      BY <2>3, ForwarderAssumption DEF Names
    <3>2. Event(kind) \in Seq(Tokens)
      BY <3>1, EventIs
    <3>3. LineOf(kind) = Event(kind) \o end
      BY <2>1, <2>3 DEF LineOf
    <3>4. QED BY <3>2, <3>3, ConcatProperties
  <2>4. QED BY <2>2, <2>3
<1>2. ASSUME NEW b \in Whole PROVE b \in Seq(Tokens)
  <2>1. PICK n \in 1..MaxLines : \E kinds \in [1..n -> LineKinds] :
                                    b = FlattenSeq([i \in 1..n |-> LineOf(kinds[i])])
    BY DEF Whole
  <2>2. PICK kinds \in [1..n -> LineKinds] : b = FlattenSeq([i \in 1..n |-> LineOf(kinds[i])])
    BY <2>1
  <2>3. PICK lines : lines = [i \in 1..n |-> LineOf(kinds[i])]
    OBVIOUS
  <2>4. n \in Nat /\ \A i \in 1..n : LineOf(kinds[i]) \in Seq(Tokens)
    BY <1>1, ForwarderAssumption
  <2>5. lines \in Seq(Seq(Tokens))
    BY <2>3, <2>4
  <2>6. QED BY <2>2, <2>3, <2>5, FlattenTyped
<1>3. ASSUME NEW b \in Seq(Tokens), NEW n \in 0..Len(b) PROVE SubSeq(b, 1, n) \in Seq(Tokens)
  <2>1. n \in Int /\ 1 \in Int /\ \A i \in 1..n : b[i] \in Tokens
    OBVIOUS
  <2>2. QED BY <2>1, SubSeqProperties
<1>4. QED BY <1>2, <1>3 DEF Bodies

\* The first elements of a sequence.
LEMMA FirstOnes ==
    ASSUME NEW T, NEW s \in Seq(T), NEW n \in 0..Len(s)
    PROVE  /\ SubSeq(s, 1, n) \in Seq(T) /\ Len(SubSeq(s, 1, n)) = n
           /\ \A i \in 1..n : SubSeq(s, 1, n)[i] = s[i]
<1>1. n \in Int /\ 1 \in Int /\ \A i \in 1..n : s[i] \in T
  OBVIOUS
<1>2. /\ SubSeq(s, 1, n) \in Seq(T)
      /\ Len(SubSeq(s, 1, n)) = IF 1 <= n THEN n - 1 + 1 ELSE 0
      /\ \A i \in 1..(n - 1 + 1) : SubSeq(s, 1, n)[i] = s[1 + i - 1]
  BY <1>1, SubSeqProperties
<1>3. n - 1 + 1 = n /\ n \in Nat /\ (~(1 <= n) => n = 0) /\ \A i \in 1..n : 1 + i - 1 = i
  OBVIOUS
<1>4. QED BY <1>2, <1>3

\* The first MaxRaw elements, or all.
Least(n) == IF n < MaxRaw THEN n ELSE MaxRaw

\* The leading bytes of a body are all of a short one, and the bound of a long one.
LEMMA LeadingIs ==
    ASSUME NEW T, NEW s \in Seq(T)
    PROVE  /\ Leading(s) \in Seq(T) /\ Len(Leading(s)) = Least(Len(s))
           /\ Least(Len(s)) \in 0..Len(s) /\ Least(Len(s)) <= MaxRaw
           /\ \A i \in 1..Least(Len(s)) : Leading(s)[i] = s[i]
<1>1. PICK n \in Nat : n = Len(s)
  BY LenProperties
<1>2. Least(n) \in 0..n /\ Least(n) <= MaxRaw
  BY ForwarderAssumption DEF Least
<1>3. Leading(s) = SubSeq(s, 1, Least(n))
  BY <1>1 DEF Leading, Least
<1>4. QED BY <1>1, <1>2, <1>3, FirstOnes

\* The leading elements are kept chunk by chunk.
LEMMA LeadingMore ==
    ASSUME NEW T, NEW s \in Seq(T), NEW chunk \in Seq(T)
    PROVE  Leading(Leading(s) \o chunk) = Leading(s \o chunk)
<1>1. PICK n \in Nat, c \in Nat : n = Len(s) /\ c = Len(chunk)
  BY LenProperties
<1>2. PICK k \in Nat : k = Least(n)
  BY ForwarderAssumption DEF Least
<1>3. PICK lead \in Seq(T) : lead = Leading(s) /\ Len(lead) = k /\ \A i \in 1..k : lead[i] = s[i]
  BY <1>1, <1>2, LeadingIs
<1>4. PICK short, long : short = lead \o chunk /\ long = s \o chunk
  OBVIOUS
<1>5. /\ short \in Seq(T) /\ Len(short) = k + c
      /\ \A i \in 1..(k + c) : short[i] = IF i <= k THEN lead[i] ELSE chunk[i - k]
  <2>1. /\ lead \o chunk \in Seq(T) /\ Len(lead \o chunk) = Len(lead) + Len(chunk)
        /\ \A i \in 1..(Len(lead) + Len(chunk)) :
              (lead \o chunk)[i] = IF i <= Len(lead) THEN lead[i] ELSE chunk[i - Len(lead)]
    BY <1>3, ConcatProperties
  <2>2. QED BY <1>1, <1>3, <1>4, <2>1
<1>6. /\ long \in Seq(T) /\ Len(long) = n + c
      /\ \A i \in 1..(n + c) : long[i] = IF i <= n THEN s[i] ELSE chunk[i - n]
  BY <1>1, <1>4, ConcatProperties
<1>7. PICK m \in Nat : m = Least(k + c) /\ m = Least(n + c) /\ m <= k + c /\ m <= n + c /\ (k = n \/ m <= k)
                       /\ k <= n
  BY <1>2, ForwarderAssumption DEF Least
<1>8. Least(Len(short)) = m /\ Least(Len(long)) = m
  BY <1>5, <1>6, <1>7
<1>9. /\ Leading(short) \in Seq(T) /\ Len(Leading(short)) = m
      /\ \A i \in 1..m : Leading(short)[i] = short[i]
  BY <1>5, <1>8, LeadingIs
<1>10. /\ Leading(long) \in Seq(T) /\ Len(Leading(long)) = m
      /\ \A i \in 1..m : Leading(long)[i] = long[i]
  BY <1>6, <1>8, LeadingIs
<1>11. ASSUME NEW i \in 1..m PROVE short[i] = long[i]
  <2>1. i \in 1..(k + c) /\ i \in 1..(n + c)
    BY <1>7
  <2>2. CASE i <= k
    <3>1. i \in 1..k /\ i <= n
      BY <1>7, <2>2
    <3>2. QED BY <1>3, <1>5, <1>6, <2>1, <2>2, <3>1
  <2>3. CASE ~(i <= k)
    <3>1. k = n
      BY <1>7, <2>3
    <3>2. QED BY <1>5, <1>6, <2>1, <2>3, <3>1
  <2>4. QED BY <2>2, <2>3
<1>12. Leading(short) = Leading(long)
  BY <1>9, <1>10, <1>11, SeqEqual
<1>13. QED BY <1>3, <1>4, <1>12

\* A chunk is what comes next.
LEMMA ChunkIs ==
    ASSUME body \in Seq(Tokens), pos \in 0..Len(body), NEW n \in 1..(Len(body) - pos)
    PROVE  /\ Chunk(n) \in Seq(Tokens)
           /\ pos + n \in 0..Len(body) /\ pos + n > pos
           /\ SubSeq(body, 1, pos) \in Seq(Tokens)
           /\ SubSeq(body, 1, pos) \o Chunk(n) = SubSeq(body, 1, pos + n)
<1>1. PICK len \in Nat : len = Len(body)
  BY LenProperties
<1>2. /\ pos + n \in 0..len /\ pos + n > pos /\ pos + n \in pos..len
      /\ 1 \in 1..(len + 1) /\ pos \in (1 - 1)..len
  BY <1>1
<1>3. SubSeq(body, 1, pos) \o Chunk(n) = SubSeq(body, 1, pos + n)
  BY <1>1, <1>2, ConcatAdjacentSubSeq DEF Chunk
<1>4. Chunk(n) \in Seq(Tokens)
  <2>1. pos + 1 \in Int /\ pos + n \in Int /\ \A i \in (pos + 1)..(pos + n) : body[i] \in Tokens
    BY <1>1, <1>2
  <2>2. QED BY <2>1, SubSeqProperties DEF Chunk
<1>5. QED BY <1>1, <1>2, <1>3, <1>4, FirstOnes

\* At first nothing has been read.
LEMMA InitInv == Init => IInv
<1> SUFFICES ASSUME Init PROVE IInv
  OBVIOUS
<1> USE DEF Init
<1>1. body \in Seq(Tokens) /\ Len(body) \in Nat
  BY BodyTyped
<1>2. <<>> \in Seq(Tokens) /\ Len(<<>>) = 0
  OBVIOUS
<1>3. SubSeq(body, 1, 0) = <<>>
  BY SubSeqEmpty
<1>4. Leading(<<>>) = <<>>
  <2>1. PICK none \in Seq(Tokens) : none = <<>> /\ Len(none) = 0
    BY <1>2
  <2>2. Leading(none) \in Seq(Tokens) /\ Len(Leading(none)) = Least(0) /\ Least(0) \in 0..0
    BY ZenonT(30), <2>1, LeadingIs
  <2>3. QED BY <2>1, <2>2, EmptySeq
<1>5. TypeOK
  BY <1>1, <1>2, ForwarderAssumption DEF TypeOK
<1>6. Shape
  BY <1>1, <1>2, <1>3, <1>4, EmptyAggTyped DEF Shape
<1>7. Kept
  BY EmptyAggTyped, DrainEmpty DEF Kept
<1>8. StoredIs
  BY DEF StoredIs
<1>9. QED BY <1>5, <1>6, <1>7, <1>8 DEF IInv

\* What is kept of the first bytes when a chunk has been read.
LEMMA RawKept ==
    ASSUME IInv, NEW n \in 1..(Len(body) - pos), KeepRaw(Chunk(n)),
           pos' = pos + n, body' = body
    PROVE  (raw = Leading(SubSeq(body, 1, pos)))' /\ Len(raw') <= MaxRaw
<1>1. /\ body \in Seq(Tokens) /\ pos \in 0..Len(body)
      /\ raw = Leading(SubSeq(body, 1, pos)) /\ raw' = Leading(raw \o Chunk(n))
  BY DEF IInv, TypeOK, Shape, KeepRaw
<1>2. /\ Chunk(n) \in Seq(Tokens) /\ pos + n \in 0..Len(body) /\ SubSeq(body, 1, pos) \in Seq(Tokens)
      /\ SubSeq(body, 1, pos) \o Chunk(n) = SubSeq(body, 1, pos + n)
  BY <1>1, ChunkIs
<1>3. raw' = Leading(SubSeq(body, 1, pos + n))
  BY <1>1, <1>2, LeadingMore
<1>4. SubSeq(body, 1, pos + n) \in Seq(Tokens)
  BY <1>1, <1>2, FirstOnes
<1>5. Len(raw') = Least(Len(SubSeq(body, 1, pos + n))) /\ Least(Len(SubSeq(body, 1, pos + n))) <= MaxRaw
  BY <1>3, <1>4, LeadingIs
<1>6. (raw = Leading(SubSeq(body, 1, pos)))' <=> raw' = Leading(SubSeq(body', 1, pos'))
  BY DEF Leading
<1>7. QED BY <1>3, <1>5, <1>6

\* A chunk is forwarded and aggregated.
LEMMA ForwardKeeps ==
    ASSUME IInv, NEW n \in 1..Len(body), NEW how \in {"no", "eof", "broken"}, Forward(n, how)
    PROVE  IInv'
<1>1. /\ body \in Seq(Tokens) /\ client \in Seq(Tokens) /\ pending \in Seq(Tokens) /\ agg \in Aggregates
      /\ pos \in 0..Len(body) /\ Len(client) = pos /\ client = SubSeq(body, 1, pos)
  BY DEF IInv, Shape, TypeOK, Forward
<1>2. /\ n \in 1..(Len(body) - pos) /\ pos' = pos + n /\ body' = body
      /\ KeepRaw(Chunk(n)) /\ client' = client \o Chunk(n) /\ ProcessChunk(Chunk(n)) /\ Return(how)
  BY DEF Forward
<1>3. /\ Chunk(n) \in Seq(Tokens) /\ pos + n \in 0..Len(body)
      /\ SubSeq(body, 1, pos) \o Chunk(n) = SubSeq(body, 1, pos + n)
  BY <1>1, <1>2, ChunkIs
<1>4. PICK both, drained : both = pending \o Chunk(n) /\ drained = DrainLines(agg, both)
  OBVIOUS
<1>5. both \in Seq(Tokens) /\ drained \in Drained
  BY <1>1, <1>3, <1>4, ConcatProperties, DrainedRestIsPlain
<1>6. /\ agg' = drained.agg
      /\ pending' = IF Len(drained.rest) > MaxPending THEN <<>> ELSE drained.rest
  BY <1>2, <1>4 DEF ProcessChunk
<1>7. client' = SubSeq(body, 1, pos + n) /\ client' \in Seq(Tokens) /\ Len(client') = pos + n
      /\ \A i \in 1..(pos + n) : client'[i] = body[i]
  BY SMTT(30), <1>1, <1>2, <1>3, FirstOnes
<1>8. agg' \in Aggregates /\ pending' \in Seq(Tokens) /\ Len(pending') <= MaxPending
  <2>1. drained.agg \in Aggregates /\ drained.rest \in Seq(Tokens)
    BY <1>5 DEF Drained
  <2>2. <<>> \in Seq(Tokens) /\ Len(<<>>) = 0
    OBVIOUS
  <2>3. QED BY <1>6, <2>1, <2>2, ForwarderAssumption
<1>9. (raw = Leading(SubSeq(body, 1, pos)))' /\ Len(raw') <= MaxRaw
  BY <1>2, RawKept
<1>10. /\ ended' = how /\ state' \in {"running", "returned"}
       /\ state' = "running" => ended' = "no"
  BY <1>2 DEF Return
<1>11. TypeOK'
  <2>1. pos' \in 0..Len(body')
    BY <1>2, <1>3
  <2>2. Len(client') <= pos'
    BY <1>2, <1>3, <1>7
  <2>3. Len(pending') <= MaxPending /\ Len(raw') <= MaxRaw
    BY <1>8, <1>9
  <2>4. /\ state' \in {"running", "returned", "result", "stored"}
        /\ ended' \in {"no", "eof", "broken", "clientGone"}
    BY <1>10
  <2>5. QED BY <2>1, <2>2, <2>3, <2>4 DEF TypeOK
<1>12. Shape'
  BY <1>1, <1>2, <1>7, <1>8, <1>9, <1>10 DEF Shape
<1>13. LinesFit' => DrainLines(EmptyAgg, client') = [agg |-> agg', rest |-> pending']
  <2>1. SUFFICES ASSUME LinesFit PROVE DrainLines(EmptyAgg, client') = [agg |-> agg', rest |-> pending']
    BY <1>2 DEF LinesFit
  <2>2. DrainLines(EmptyAgg, client) = [agg |-> agg, rest |-> pending]
    BY <2>1 DEF IInv, Kept, Forward
  <2>3. DrainLines(EmptyAgg, client') = drained
    <3>1. PICK first : first = DrainLines(EmptyAgg, client) /\ first.agg = agg /\ first.rest = pending
      BY <2>2
    <3>2. DrainLines(EmptyAgg, client \o Chunk(n)) = DrainLines(first.agg, first.rest \o Chunk(n))
      BY ZenonT(30), <1>1, <1>3, <3>1, EmptyAggTyped, DrainMore
    <3>3. QED BY <1>2, <1>4, <3>1, <3>2
  <2>4. Len(DrainLines(EmptyAgg, client').rest) <= MaxPending
    <3>1. Len(client') <= Len(body)
      BY <1>3, <1>7
    <3>2. \A i \in 1..Len(client') : client'[i] = body[i]
      BY <1>7
    <3>3. QED BY <1>1, <1>7, <2>1, <3>1, <3>2, RestFits
  <2>5. pending' = drained.rest
    <3>1. Len(drained.rest) \in Nat /\ MaxPending \in Nat
      BY <1>5, ForwarderAssumption, LenProperties DEF Drained
    <3>2. QED BY <1>6, <2>3, <2>4, <3>1
  <2>6. drained = [agg |-> drained.agg, rest |-> drained.rest]
    BY <1>5 DEF Drained
  <2>7. QED BY <1>6, <2>3, <2>5, <2>6
<1>14. Kept'
  BY <1>10, <1>13 DEF Kept
<1>15. StoredIs'
  BY <1>10 DEF StoredIs
<1>16. QED BY <1>11, <1>12, <1>14, <1>15 DEF IInv

\* The client is gone.
LEMMA WriteFailsKeeps ==
    ASSUME IInv, NEW n \in 1..Len(body), WriteFails(n)
    PROVE  IInv'
<1>1. /\ n \in 1..(Len(body) - pos) /\ pos' = pos + n /\ body' = body /\ KeepRaw(Chunk(n))
      /\ client' = client /\ pending' = pending /\ agg' = agg
      /\ ended' = "clientGone" /\ state' = "returned" /\ state = "running"
  BY DEF WriteFails, Return
<1>2. /\ body \in Seq(Tokens) /\ client \in Seq(Tokens) /\ pos \in 0..Len(body) /\ Len(client) <= pos
  BY DEF IInv, Shape, TypeOK
<1>3. pos + n \in 0..Len(body) /\ pos + n > pos
  BY <1>1, <1>2, ChunkIs
<1>4. (raw = Leading(SubSeq(body, 1, pos)))' /\ Len(raw') <= MaxRaw
  BY <1>1, RawKept
<1>5. Len(client') <= pos'
  <2>1. Len(client) \in Nat /\ pos \in Int /\ pos + n \in Int
    BY <1>1, <1>2, LenProperties
  <2>2. QED BY <1>1, <1>2, <1>3, <2>1
<1>6. TypeOK'
  BY <1>1, <1>3, <1>4, <1>5 DEF IInv, TypeOK
<1>7. Shape'
  BY <1>1, <1>4 DEF IInv, Shape
<1>8. Kept'
  BY <1>1 DEF IInv, Kept, LinesFit
<1>9. StoredIs'
  BY <1>1 DEF StoredIs
<1>10. QED BY <1>6, <1>7, <1>8, <1>9 DEF IInv

\* The body ends.
LEMMA ReadEndsKeeps ==
    ASSUME IInv, NEW how \in {"eof", "broken"}, ReadEnds(how)
    PROVE  IInv'
<1>1. /\ UNCHANGED <<body, status, pos, client, pending, agg, raw, stored>>
      /\ ended' = how /\ state' = "returned" /\ state = "running"
  BY DEF ReadEnds, Return
<1>2. TypeOK'
  BY <1>1 DEF IInv, TypeOK
<1>3. Shape'
  BY <1>1 DEF IInv, Shape, Leading
<1>4. Kept'
  BY <1>1 DEF IInv, Kept, LinesFit
<1>5. StoredIs'
  BY <1>1 DEF StoredIs
<1>6. QED BY <1>2, <1>3, <1>4, <1>5 DEF IInv

\* The unfinished line is parsed.
LEMMA ResultKeeps ==
    ASSUME IInv, Result
    PROVE  IInv'
<1>1. /\ UNCHANGED <<body, status, pos, client, raw, ended, stored>>
      /\ agg' = ProcessLine(agg, pending) /\ pending' = <<>>
      /\ state' = "result" /\ state = "returned"
  BY DEF Result
<1>2. agg \in Aggregates /\ client \in Seq(Tokens) /\ <<>> \in Seq(Tokens) /\ Len(<<>>) = 0
  BY DEF IInv, Shape
<1>3. TypeOK'
  BY <1>1, <1>2, ForwarderAssumption DEF IInv, TypeOK
<1>4. Shape'
  BY <1>1, <1>2, ProcessLineTyped DEF IInv, Shape, Leading
<1>5. LinesFit' => agg' = Expected(client')
  <2>1. SUFFICES ASSUME LinesFit PROVE agg' = Expected(client)
    BY <1>1 DEF LinesFit
  <2>2. DrainLines(EmptyAgg, client) = [agg |-> agg, rest |-> pending]
    BY <1>1, <2>1 DEF IInv, Kept
  <2>3. QED BY <1>1, <1>2, <2>2, FinishedIsExpected
<1>6. Kept'
  BY <1>1, <1>5 DEF Kept
<1>7. StoredIs'
  BY <1>1 DEF StoredIs
<1>8. QED BY <1>3, <1>4, <1>6, <1>7 DEF IInv

\* The record gets its body.
LEMMA StoreBodyKeeps ==
    ASSUME IInv, StoreBody
    PROVE  IInv'
<1>1. /\ UNCHANGED <<body, status, pos, client, pending, agg, raw, ended>>
      /\ stored' = IF status # 200 \/ ~agg.saw THEN [form |-> "raw", raw |-> raw]
                                               ELSE [form |-> "aggregate", agg |-> agg]
      /\ state' = "stored" /\ state = "result"
  BY DEF StoreBody
<1>2. TypeOK'
  BY <1>1 DEF IInv, TypeOK
<1>3. Shape'
  BY <1>1 DEF IInv, Shape, Leading
<1>4. Kept'
  BY <1>1 DEF IInv, Kept, LinesFit
<1>5. StoredIs'
  BY <1>1 DEF StoredIs
<1>6. QED BY <1>2, <1>3, <1>4, <1>5 DEF IInv

\* The invariant is inductive.
LEMMA StepInv == IInv /\ [Next]_vars => IInv'
<1> SUFFICES ASSUME IInv, [Next]_vars PROVE IInv'
  OBVIOUS
<1>1. CASE \E n \in 1..Len(body) : \E how \in {"no", "eof", "broken"} : Forward(n, how)
  BY <1>1, ForwardKeeps
<1>2. CASE \E n \in 1..Len(body) : WriteFails(n)
  BY <1>2, WriteFailsKeeps
<1>3. CASE \E how \in {"eof", "broken"} : ReadEnds(how)
  BY <1>3, ReadEndsKeeps
<1>4. CASE Result
  BY <1>4, ResultKeeps
<1>5. CASE StoreBody
  BY <1>5, StoreBodyKeeps
<1>6. CASE UNCHANGED vars
  <2>1. UNCHANGED <<body, status, pos, client, pending, agg, raw, state, ended, stored>>
    BY <1>6 DEF vars
  <2>2. TypeOK' /\ Shape'
    BY <2>1 DEF IInv, TypeOK, Shape, Leading
  <2>3. Kept' /\ StoredIs'
    BY <2>1 DEF IInv, Kept, StoredIs, LinesFit
  <2>4. QED BY <2>2, <2>3 DEF IInv
<1>7. QED BY <1>1, <1>2, <1>3, <1>4, <1>5, <1>6 DEF Next

\* The forwarder keeps its invariant in every behaviour.
LEMMA InvHolds == Spec => []IInv
<1>1. QED BY InitInv, StepInv, PTL DEF Spec

-----------------------------------------------------------------------------
(* The theorems. *)

\* Neither the buffer for a partial line nor the leading bytes outgrow their
\* bounds, and the client has never been sent more than was read.
THEOREM ForwarderTyped == Spec => []TypeOK
<1>1. IInv => TypeOK
  BY DEF IInv
<1>2. QED BY <1>1, InvHolds, PTL

\* At every moment finishing now would give what the client's tokens add up to,
\* wherever the upstream's chunks were cut.
THEOREM KeepsUp == Spec => []AggregatorKeepsUp
<1>1. IInv => AggregatorKeepsUp
  <2>1. SUFFICES ASSUME IInv, state = "running", LinesFit PROVE ProcessLine(agg, pending) = Expected(client)
    BY DEF AggregatorKeepsUp
  <2>2. DrainLines(EmptyAgg, client) = [agg |-> agg, rest |-> pending] /\ client \in Seq(Tokens)
    BY <2>1 DEF IInv, Kept, Shape
  <2>3. QED BY <2>2, FinishedIsExpected
<1>2. QED BY <1>1, InvHolds, PTL

\* The record stores what the client received, an unfinished last line included,
\* or the first bytes of a body without events.
THEOREM StoresAsReceived == Spec => []StoredAsReceived
<1>1. IInv => StoredAsReceived
  <2>1. SUFFICES ASSUME IInv, state = "stored", LinesFit
                 PROVE  IF status = 200 /\ SawData(client)
                        THEN stored.form = "aggregate" /\ stored.agg = Expected(client)
                        ELSE stored.form = "raw" /\ stored.raw = Leading(SubSeq(body, 1, pos))
    BY DEF StoredAsReceived
  <2>2. agg = Expected(client) /\ client \in Seq(Tokens) /\ raw = Leading(SubSeq(body, 1, pos))
    BY <2>1 DEF IInv, Kept, Shape
  <2>3. agg.saw <=> SawData(client)
    BY <2>2, FinishedIsExpected
  <2>4. stored = IF status # 200 \/ ~agg.saw THEN [form |-> "raw", raw |-> raw]
                                             ELSE [form |-> "aggregate", agg |-> agg]
    BY <2>1 DEF IInv, StoredIs
  <2>5. CASE status = 200 /\ SawData(client)
    <3>1. stored = [form |-> "aggregate", agg |-> agg]
      BY <2>3, <2>4, <2>5
    <3>2. QED BY <2>2, <2>5, <3>1
  <2>6. CASE ~(status = 200 /\ SawData(client))
    <3>1. stored = [form |-> "raw", raw |-> raw]
      BY <2>3, <2>4, <2>6
    <3>2. QED BY <2>2, <2>6, <3>1
  <2>7. QED BY <2>5, <2>6
<1>2. QED BY <1>1, InvHolds, PTL
=============================================================================
