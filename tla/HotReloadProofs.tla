-------------------------- MODULE HotReloadProofs --------------------------
(***************************************************************************)
(* Proofs about HotReload, for any number of edits, and about Admission,   *)
(* for any number of requests besides.                                     *)
(***************************************************************************)
EXTENDS Admission, SequenceTheorems, TLAPS

\* A write of the file that has not led to a reload yet.
Announced == timer \/ \E k \in 1..Len(events) : events[k] = "write"

\* Each firing of the timer has used up the event of an edit.
FiringsCounted ==
    /\ fired + Len(events) <= file.version
    /\ timer => fired + Len(events) < file.version
    /\ \A i \in Firings : i > fired => reload[i].pc = "idle"

\* No configuration is newer than the file.
NothingNewer ==
    /\ current <= file.version /\ registry <= file.version /\ keys <= file.version
    /\ \A i \in Firings : reload[i].cfg <= file.version

\* While reloads have never overlapped only the last one runs, and what it has
\* loaded is at least as new as anything installed.
OneAtATime ==
    ~overlapped =>
        /\ \A i \in Firings : Running(i) => i = fired
        /\ \A i \in Firings : reload[i].pc \in {"swap", "registry", "keys"} =>
              /\ current <= reload[i].cfg
              /\ registry <= reload[i].cfg
              /\ keys <= reload[i].cfg

\* Before the watch begins nothing has happened to what run() installed.
NotStarted ==
    watch = "starting" =>
        /\ blind = 0 /\ fired = 0 /\ ~timer /\ events = <<>>
        /\ registry = 0 /\ keys = 0
        /\ \A i \in Firings : reload[i] = [pc |-> "idle", cfg |-> 0]

\* The last valid edit is announced, being loaded, or loaded.
EditOnItsWay ==
    Watched /\ file.state = "valid" /\ file.version > blind =>
        \/ Announced
        \/ \E i \in Firings : reload[i].pc = "load" \/ reload[i].cfg = file.version

\* How far the last valid edit has come, while reloads have never overlapped.
Arrived(i) ==
    \/ reload[i].pc = "load"
    \/ /\ reload[i].pc \in {"swap", "registry"}
       /\ reload[i].cfg = file.version
    \/ /\ reload[i].pc = "keys"
       /\ reload[i].cfg = file.version
       /\ registry = file.version

InstallOnItsWay ==
    Watched /\ file.state = "valid" /\ Seen /\ ~overlapped =>
        \/ Announced
        \/ \E i \in Firings : Arrived(i)
        \/ registry = file.version /\ keys = file.version

IInv ==
    /\ TypeOK
    /\ FiringsCounted
    /\ NothingNewer
    /\ OneAtATime
    /\ NotStarted
    /\ EditOnItsWay
    /\ InstallOnItsWay

-----------------------------------------------------------------------------
(* Steps. *)

\* A new event joins the queue at its end.
LEMMA AppendEvent ==
    ASSUME NEW s \in Seq({"write", "remove"}), NEW e \in {"write", "remove"}
    PROVE  /\ Append(s, e) \in Seq({"write", "remove"})
           /\ Len(Append(s, e)) = Len(s) + 1
           /\ e = "write" => \E k \in 1..Len(Append(s, e)) : Append(s, e)[k] = "write"
<1>1. Append(s, e)[Len(s) + 1] = e /\ Len(Append(s, e)) = Len(s) + 1
  OBVIOUS
<1>2. QED BY <1>1

\* The loop takes the oldest event; an announced write stays in the queue unless
\* it is that one.
LEMMA TakeEvent ==
    ASSUME NEW s \in Seq({"write", "remove"}), s # <<>>
    PROVE  /\ Tail(s) \in Seq({"write", "remove"})
           /\ Len(Tail(s)) = Len(s) - 1
           /\ (\E k \in 1..Len(s) : s[k] = "write") =>
                 Head(s) = "write" \/ \E k \in 1..Len(Tail(s)) : Tail(s)[k] = "write"
<1>1. Tail(s) \in Seq({"write", "remove"}) /\ Len(Tail(s)) = Len(s) - 1 /\ Len(s) > 0
  BY HeadTailProperties, EmptySeq
<1>2. ASSUME NEW k \in 1..Len(s), s[k] = "write", Head(s) # "write"
      PROVE  \E j \in 1..Len(Tail(s)) : Tail(s)[j] = "write"
  <2>1. k # 1
    BY <1>1, <1>2
  <2>2. k - 1 \in 1..Len(Tail(s)) /\ Tail(s)[k - 1] = s[k]
    BY <1>1, <2>1
  <2>3. QED BY <1>2, <2>2
<1>3. QED BY <1>1, <1>2

\* A goroutine that has begun is that of a firing.
LEMMA BegunHasFired ==
    ASSUME TypeOK, FiringsCounted, NEW i \in Firings, reload[i].pc # "idle"
    PROVE  i <= fired
<1>1. i \in Nat /\ fired \in Nat
  BY ReloadAssumption DEF TypeOK, Firings
<1>2. ~(i > fired)
  BY DEF FiringsCounted
<1>3. QED BY <1>1, <1>2

\* run() installs version 0 before anything else happens.
LEMMA InitIInv == Init => IInv
<1> SUFFICES ASSUME Init PROVE IInv
  OBVIOUS
<1> USE ReloadAssumption DEF Init, Versions, Firings, Contents
<1>1. TypeOK
  <2>1. events \in Seq({"write", "remove"})
    OBVIOUS
  <2>2. reload \in [Firings ->
          [pc : {"idle", "load", "swap", "registry", "keys", "done"}, cfg : Versions]]
    OBVIOUS
  <2>3. file \in [version : Versions, state : Contents] /\ fired \in 0..MaxEdits
    OBVIOUS
  <2>4. QED BY <2>1, <2>2, <2>3 DEF TypeOK
<1>2. FiringsCounted
  BY DEF FiringsCounted
<1>3. NothingNewer /\ OneAtATime /\ NotStarted
  BY DEF NothingNewer, OneAtATime, NotStarted, Running
<1>4. EditOnItsWay /\ InstallOnItsWay
  BY DEF EditOnItsWay, InstallOnItsWay, Watched
<1>5. QED BY <1>1, <1>2, <1>3, <1>4 DEF IInv

\* An edit is announced to a watcher that watches.
LEMMA EditKeepsIInv ==
    ASSUME IInv, NEW state \in Contents, Edit(state)
    PROVE  IInv'
<1> USE ReloadAssumption DEF IInv, Edit, Versions, Firings, Contents, Watched, installed, history
<1> DEFINE e == IF state = "absent" THEN "remove" ELSE "write"
<1>1. /\ file.version \in Nat /\ file'.version = file.version + 1 /\ file'.state = state
      /\ events \in Seq({"write", "remove"}) /\ e \in {"write", "remove"}
      /\ file' \in [version : Versions, state : Contents]
  BY DEF TypeOK
<1>2. /\ events' \in Seq({"write", "remove"}) /\ Len(events') \in Nat /\ Len(events) \in Nat
      /\ Len(events') <= Len(events) + 1
      /\ Watched /\ state = "valid" => \E k \in 1..Len(events') : events'[k] = "write"
  BY <1>1, AppendEvent
<1>3. TypeOK'
  BY <1>1, <1>2 DEF TypeOK
<1>4. FiringsCounted'
  BY SMTT(30), <1>1, <1>2 DEF FiringsCounted, TypeOK
<1>5. NothingNewer'
  BY <1>1 DEF NothingNewer, TypeOK
<1>6. OneAtATime' /\ NotStarted'
  BY DEF OneAtATime, NotStarted, Running
<1>7. EditOnItsWay' /\ InstallOnItsWay'
  BY <1>1, <1>2 DEF EditOnItsWay, InstallOnItsWay, Announced
<1>8. QED BY <1>3, <1>4, <1>5, <1>6, <1>7

\* The watch begins with what run() has installed.
LEMMA StartKeepsIInv ==
    ASSUME IInv, NEW outcome \in {"watching", "failed"}, StartWatching(outcome)
    PROVE  IInv'
<1> USE ReloadAssumption DEF IInv, StartWatching, Versions, Firings, Contents, Watched, installed
<1>1. TypeOK'
  BY DEF TypeOK
<1>2. FiringsCounted'
  BY DEF FiringsCounted
<1>3. NothingNewer' /\ OneAtATime' /\ NotStarted'
  BY DEF NothingNewer, OneAtATime, NotStarted, Running
<1>4. EditOnItsWay' /\ InstallOnItsWay'
  BY DEF EditOnItsWay, InstallOnItsWay, NotStarted, Seen, Announced, TypeOK
<1>5. QED BY <1>1, <1>2, <1>3, <1>4

\* The loop turns an announced write into a running timer.
LEMMA EventKeepsIInv ==
    ASSUME IInv, HandleEvent
    PROVE  IInv'
<1> USE ReloadAssumption DEF IInv, HandleEvent, Versions, Firings, Contents, Watched,
        installed, history
<1>1. /\ events \in Seq({"write", "remove"}) /\ Len(events) \in Nat
      /\ events' \in Seq({"write", "remove"}) /\ Len(events') = Len(events) - 1
      /\ timer' \in BOOLEAN
      /\ Announced => Announced'
  <2>1. events \in Seq({"write", "remove"}) /\ events # <<>> /\ events' = Tail(events)
    BY DEF TypeOK
  <2>2. timer' = (timer \/ Head(events) = "write")
    BY Zenon
  <2>3. timer' \in BOOLEAN
    BY <2>2
  <2>4. Announced => Announced'
    BY <2>1, <2>2, TakeEvent, Zenon DEF Announced
  <2>5. QED BY <2>1, <2>3, <2>4, TakeEvent
<1>2. TypeOK'
  BY <1>1 DEF TypeOK
<1>3. FiringsCounted'
  BY <1>1 DEF FiringsCounted, TypeOK
<1>4. NothingNewer' /\ OneAtATime' /\ NotStarted'
  BY DEF NothingNewer, OneAtATime, NotStarted, Running
<1>5. EditOnItsWay' /\ InstallOnItsWay'
  BY <1>1 DEF EditOnItsWay, InstallOnItsWay, Arrived, Seen
<1>6. QED BY <1>2, <1>3, <1>4, <1>5

\* A firing begins a reload that will read the file.
LEMMA FireKeepsIInv ==
    ASSUME IInv, FireTimer
    PROVE  IInv'
<1> USE ReloadAssumption DEF IInv, FireTimer, Versions, Firings, Contents, Watched, installed
<1>1. /\ fired \in Nat /\ fired + 1 \in Firings /\ fired' = fired + 1
      /\ reload[fired + 1].pc = "idle"
  <2>1. fired \in Nat /\ Len(events) \in Nat /\ file.version \in 0..MaxEdits
    BY DEF TypeOK
  <2>2. fired + 1 <= MaxEdits
    BY <2>1 DEF FiringsCounted
  <2>3. QED BY <2>1, <2>2 DEF FiringsCounted
<1>2. \A i \in Firings : /\ reload'[i].cfg = reload[i].cfg
                         /\ reload'[i].pc = IF i = fired + 1 THEN "load" ELSE reload[i].pc
  BY <1>1 DEF TypeOK
<1>3. TypeOK'
  <2>1. reload' \in [Firings ->
          [pc : {"idle", "load", "swap", "registry", "keys", "done"}, cfg : Versions]]
    BY <1>1 DEF TypeOK
  <2>2. overlapped' \in BOOLEAN /\ timer' \in BOOLEAN
    <3>1. overlapped' = (overlapped \/ \E i \in Firings : Running(i)) /\ timer' = FALSE
      BY Zenon
    <3>2. QED BY <3>1, Zenon
  <2>3. fired' \in 0..MaxEdits
    BY <1>1
  <2>4. QED BY <2>1, <2>2, <2>3 DEF TypeOK
<1>4. FiringsCounted'
  BY SMTT(30), <1>1, <1>2 DEF FiringsCounted, TypeOK
<1>5. NothingNewer' /\ NotStarted'
  BY <1>1, <1>2 DEF NothingNewer, NotStarted
<1>6. ASSUME ~overlapped'
      PROVE  \A i \in Firings : reload[i].pc \in {"idle", "done"}
  BY <1>6, Zenon DEF Running
<1>7. OneAtATime'
  BY <1>2, <1>6 DEF OneAtATime, Running
<1>8. EditOnItsWay' /\ InstallOnItsWay'
  BY <1>1, <1>2 DEF EditOnItsWay, InstallOnItsWay, Arrived
<1>9. QED BY <1>3, <1>4, <1>5, <1>7, <1>8

\* The goroutine of a reload, of which no two run if none has ever overlapped.
LEMMA LoadKeepsIInv ==
    ASSUME IInv, NEW i \in Firings, LoadFile(i)
    PROVE  IInv'
<1> USE ReloadAssumption DEF IInv, LoadFile, Versions, Firings, Contents, Watched,
        installed, history
<1>1. /\ i <= fired
      /\ \A j \in Firings : j # i => reload'[j] = reload[j]
      /\ reload'[i].pc = IF file.state = "valid" THEN "swap" ELSE "done"
      /\ reload'[i].cfg = IF file.state = "valid" THEN file.version ELSE reload[i].cfg
  BY SMTT(30) DEF TypeOK, FiringsCounted
<1>2. TypeOK'
  BY DEF TypeOK
<1>3. FiringsCounted' /\ NotStarted'
  BY <1>1 DEF FiringsCounted, NotStarted, TypeOK
<1>4. NothingNewer'
  BY <1>1 DEF NothingNewer, TypeOK
<1>5. OneAtATime'
  BY <1>1 DEF OneAtATime, NothingNewer, Running
<1>6. EditOnItsWay'
  BY <1>1 DEF EditOnItsWay, Announced
<1>7. InstallOnItsWay'
  BY <1>1 DEF InstallOnItsWay, Announced, Arrived, Seen
<1>8. QED BY <1>2, <1>3, <1>4, <1>5, <1>6, <1>7

\* The watcher's record moves to what the reload has loaded.
LEMMA SwapKeepsIInv ==
    ASSUME IInv, NEW i \in Firings, SwapCurrent(i)
    PROVE  IInv'
<1> USE ReloadAssumption DEF IInv, SwapCurrent, Versions, Firings, Contents, Watched, history
<1>1. /\ i <= fired
      /\ \A j \in Firings : /\ reload'[j].cfg = reload[j].cfg
                            /\ reload'[j].pc = IF j = i THEN "registry" ELSE reload[j].pc
  <2>1. i <= fired
    BY BegunHasFired
  <2>2. QED BY <2>1 DEF TypeOK
<1>2. TypeOK'
  BY DEF TypeOK
<1>3. FiringsCounted' /\ NotStarted'
  BY <1>1 DEF FiringsCounted, NotStarted, TypeOK
<1>4. NothingNewer'
  BY <1>1 DEF NothingNewer, TypeOK
<1>5. OneAtATime'
  <2> SUFFICES ASSUME ~overlapped PROVE OneAtATime'
    BY DEF OneAtATime
  <2>1. \A j \in Firings : Running(j)' => j = i /\ j = fired'
    BY <1>1 DEF OneAtATime, Running
  <2>2. current' = reload[i].cfg /\ registry <= reload[i].cfg /\ keys <= reload[i].cfg
    BY DEF OneAtATime
  <2>3. current' <= reload[i].cfg
    BY <2>2 DEF TypeOK
  <2>4. QED BY <1>1, <2>1, <2>2, <2>3 DEF OneAtATime, Running
<1>6. EditOnItsWay'
  BY <1>1 DEF EditOnItsWay, Announced
<1>7. InstallOnItsWay'
  BY <1>1 DEF InstallOnItsWay, Announced, Arrived, Seen
<1>8. QED BY <1>2, <1>3, <1>4, <1>5, <1>6, <1>7

\* The registry moves to what the reload has loaded; the keys are still to come.
LEMMA RegistryKeepsIInv ==
    ASSUME IInv, NEW i \in Firings, UpdateRegistry(i)
    PROVE  IInv'
<1> USE ReloadAssumption DEF IInv, UpdateRegistry, Versions, Firings, Contents, Watched, history
<1>1. /\ i <= fired
      /\ \A j \in Firings : /\ reload'[j].cfg = reload[j].cfg
                            /\ reload'[j].pc = IF j = i THEN "keys" ELSE reload[j].pc
  <2>1. i <= fired
    BY BegunHasFired
  <2>2. QED BY <2>1 DEF TypeOK
<1>2. TypeOK'
  BY DEF TypeOK
<1>3. FiringsCounted' /\ NotStarted'
  BY <1>1 DEF FiringsCounted, NotStarted, TypeOK
<1>4. NothingNewer'
  BY <1>1 DEF NothingNewer, TypeOK
<1>5. OneAtATime'
  <2> SUFFICES ASSUME ~overlapped PROVE OneAtATime'
    BY DEF OneAtATime
  <2>1. \A j \in Firings : Running(j) => j = i
    BY DEF OneAtATime, Running
  <2>2. \A j \in Firings : Running(j)' => j = i /\ j = fired'
    BY <1>1, <2>1 DEF OneAtATime, Running
  <2>3. current <= reload[i].cfg /\ registry' = reload[i].cfg /\ keys <= reload[i].cfg
    BY DEF OneAtATime
  <2>4. registry' <= reload[i].cfg
    BY <2>3 DEF TypeOK
  <2>5. QED BY <1>1, <2>2, <2>3, <2>4 DEF OneAtATime, Running
<1>6. EditOnItsWay'
  BY <1>1 DEF EditOnItsWay, Announced
<1>7. InstallOnItsWay'
  BY <1>1 DEF InstallOnItsWay, Announced, Arrived, Seen, OneAtATime, NothingNewer, Running, TypeOK
<1>8. QED BY <1>2, <1>3, <1>4, <1>5, <1>6, <1>7

\* With the keys the reload is over, and what it loaded is installed.
LEMMA KeysKeepsIInv ==
    ASSUME IInv, NEW i \in Firings, UpdateKeys(i)
    PROVE  IInv'
<1> USE ReloadAssumption DEF IInv, UpdateKeys, Versions, Firings, Contents, Watched, history
<1>1. /\ i <= fired
      /\ \A j \in Firings : /\ reload'[j].cfg = reload[j].cfg
                            /\ reload'[j].pc = IF j = i THEN "done" ELSE reload[j].pc
  <2>1. i <= fired
    BY BegunHasFired
  <2>2. QED BY <2>1 DEF TypeOK
<1>2. TypeOK'
  BY DEF TypeOK
<1>3. FiringsCounted' /\ NotStarted'
  BY <1>1 DEF FiringsCounted, NotStarted, TypeOK
<1>4. NothingNewer'
  BY <1>1 DEF NothingNewer, TypeOK
<1>5. OneAtATime'
  <2>1. ~overlapped => \A j \in Firings : reload'[j].pc \in {"idle", "done"}
    BY <1>1 DEF OneAtATime, Running
  <2>2. QED BY <2>1 DEF OneAtATime, Running
<1>6. EditOnItsWay'
  BY <1>1 DEF EditOnItsWay, Announced
<1>7. InstallOnItsWay'
  BY <1>1 DEF InstallOnItsWay, Announced, Arrived, Seen, OneAtATime, NothingNewer, Running, TypeOK
<1>8. QED BY <1>2, <1>3, <1>4, <1>5, <1>6, <1>7

\* Once the watcher is closed nothing is promised any more.
LEMMA CloseKeepsIInv ==
    ASSUME IInv, Close \/ LoopEnds
    PROVE  IInv'
<1> USE ReloadAssumption DEF IInv, Close, LoopEnds, Versions, Firings, Contents, Watched,
        installed, history
<1> <<>> \in Seq({"write", "remove"}) /\ Len(<<>>) = 0 /\ Len(events) \in Nat
  BY DEF TypeOK
<1>1. TypeOK'
  BY DEF TypeOK
<1>2. FiringsCounted'
  BY SMTT(30) DEF FiringsCounted, TypeOK
<1>3. NothingNewer' /\ OneAtATime' /\ NotStarted'
  BY DEF NothingNewer, OneAtATime, NotStarted, Running
<1>4. EditOnItsWay' /\ InstallOnItsWay'
  BY DEF EditOnItsWay, InstallOnItsWay
<1>5. QED BY <1>1, <1>2, <1>3, <1>4

\* Every step, and every stutter, keeps the invariant.
LEMMA NextKeepsIInv == IInv /\ [Next]_vars => IInv'
<1> SUFFICES ASSUME IInv, [Next]_vars PROVE IInv'
  OBVIOUS
<1>1. ASSUME NEW state \in Contents, Edit(state) PROVE IInv'
  BY <1>1, EditKeepsIInv
<1>2. ASSUME NEW outcome \in {"watching", "failed"}, StartWatching(outcome) PROVE IInv'
  BY <1>2, StartKeepsIInv
<1>3. CASE HandleEvent
  BY <1>3, EventKeepsIInv
<1>4. CASE FireTimer
  BY <1>4, FireKeepsIInv
<1>5. ASSUME NEW i \in Firings, Reload(i) PROVE IInv'
  BY <1>5, LoadKeepsIInv, SwapKeepsIInv, RegistryKeepsIInv, KeysKeepsIInv DEF Reload
<1>6. CASE Close \/ LoopEnds
  BY <1>6, CloseKeepsIInv
<1>7. CASE UNCHANGED vars
  BY <1>7 DEF vars, installed, history, IInv, TypeOK, FiringsCounted, NothingNewer, OneAtATime,
              NotStarted, EditOnItsWay, InstallOnItsWay, Arrived, Announced, Seen, Running, Watched
<1>8. QED BY <1>1, <1>2, <1>3, <1>4, <1>5, <1>6, <1>7 DEF Next

\* The invariant holds throughout.
LEMMA SpecKeepsIInv == Spec => []IInv
BY InitIInv, NextKeepsIInv, PTL DEF Spec

\* Every version that is loaded or installed is one of the file's, and the timer
\* never fires more often than the file was edited.
THEOREM TypeCorrect == Spec => []TypeOK
<1>1. IInv => TypeOK
  BY DEF IInv
<1>2. QED BY <1>1, SpecKeepsIInv, PTL

\* The debounce forgets no edit of the file.
THEOREM NoEditForgotten == Spec => []LastEditLoaded
<1>1. IInv => LastEditLoaded
  <2> SUFFICES ASSUME IInv, Quiet, file.state = "valid", file.version > blind
               PROVE  \E i \in Firings : reload[i].cfg = file.version
    BY DEF LastEditLoaded
  <2>1. ~Announced
    BY DEF Quiet, Announced
  <2>2. \A i \in Firings : reload[i].pc # "load"
    BY DEF Quiet, Running
  <2>3. QED BY <2>1, <2>2 DEF IInv, EditOnItsWay, Quiet
<1>2. QED BY <1>1, SpecKeepsIInv, PTL

\* Unless reloads overlapped, registry and keys are those of the last valid edit
\* once nothing is under way.
THEOREM LastEditInstalled == Spec => []FileInstalled
<1>1. IInv => FileInstalled
  <2> SUFFICES ASSUME IInv, Quiet, file.state = "valid", Seen, ~overlapped
               PROVE  registry = file.version /\ keys = file.version
    BY DEF FileInstalled
  <2>1. ~Announced
    BY DEF Quiet, Announced
  <2>2. \A i \in Firings : ~Arrived(i)
    BY DEF Quiet, Running, Arrived
  <2>3. QED BY <2>1, <2>2 DEF IInv, InstallOnItsWay, Quiet
<1>2. QED BY <1>1, SpecKeepsIInv, PTL

\* Unless reloads overlapped, no step puts an older configuration in the place of
\* a newer one.
THEOREM NeverGoesBack == Spec => NeverBackwards
<1> DEFINE Forward == ~overlapped => current' >= current /\ registry' >= registry /\ keys' >= keys
<1>1. ASSUME IInv, [Next]_vars PROVE [Forward]_vars
  <2> USE <1>1 DEF IInv
  <2>1. current \in Nat /\ registry \in Nat /\ keys \in Nat
    BY ReloadAssumption DEF TypeOK, Versions
  <2>2. ASSUME NEW i \in Firings, Reload(i) PROVE Forward
    BY <2>1, <2>2 DEF Reload, LoadFile, SwapCurrent, UpdateRegistry, UpdateKeys, OneAtATime, installed
  <2>3. CASE UNCHANGED installed
    BY <2>1, <2>3 DEF installed
  <2>4. QED
    BY <2>2, <2>3 DEF Next, Edit, StartWatching, HandleEvent, FireTimer, Close, LoopEnds
<1>2. QED BY <1>1, SpecKeepsIInv, PTL DEF Spec, NeverBackwards

-----------------------------------------------------------------------------
(* Requests while the configuration is reloaded. *)

\* The keys follow the registry, and the last update of a reload has the other
\* one behind it.
KeysFollow ==
    ~overlapped =>
        /\ keys <= registry
        /\ \A i \in Firings : reload[i].pc = "keys" => reload[i].cfg <= registry

\* The registry has what the keys that let a request in came with, or is ahead.
AdmittedBehind ==
    ~overlapped =>
        \A r \in Requests : request[r].pc = "admitted" => request[r].by <= registry

AInv ==
    /\ AdmissionTypeOK
    /\ KeysFollow
    /\ AdmittedBehind
    /\ KeyBringsItsModel

-----------------------------------------------------------------------------
\* The process starts with the keys and models of one configuration.
LEMMA InitAInv == AdmissionInit => AInv
<1> SUFFICES ASSUME AdmissionInit PROVE AInv
  OBVIOUS
<1>1. IInv /\ TypeOK
  BY InitIInv DEF AdmissionInit, IInv
<1>2. AdmissionTypeOK
  BY <1>1, ReloadAssumption DEF AdmissionInit, AdmissionTypeOK, Versions
<1>3. KeysFollow /\ AdmittedBehind /\ KeyBringsItsModel
  BY DEF AdmissionInit, Init, KeysFollow, AdmittedBehind, KeyBringsItsModel
<1>4. QED BY <1>2, <1>3 DEF AInv

\* Steps of the hot reload: the registry never goes back, and the keys only catch
\* up with it.
LEMMA NextKeepsKeysFollow ==
    ASSUME IInv, KeysFollow, [Next]_vars
    PROVE  KeysFollow' /\ (~overlapped' => ~overlapped /\ registry <= registry')
<1> USE ReloadAssumption
<1>1. /\ registry \in Nat /\ keys \in Nat
      /\ \A i \in Firings : reload[i].cfg \in Nat
      /\ reload \in [Firings ->
            [pc : {"idle", "load", "swap", "registry", "keys", "done"}, cfg : Versions]]
  BY DEF IInv, TypeOK, Versions, Firings
<1>2. CASE UNCHANGED <<registry, keys, reload, overlapped>>
  BY <1>1, <1>2 DEF KeysFollow
<1>3. CASE FireTimer
  <2>1. registry' = registry /\ keys' = keys /\ (~overlapped' => ~overlapped)
    BY <1>3 DEF FireTimer, installed
  <2>2. \A i \in Firings : reload'[i].pc = "keys" =>
           reload[i].pc = "keys" /\ reload'[i].cfg = reload[i].cfg
    BY <1>1, <1>3 DEF FireTimer
  <2>3. QED BY <1>1, <2>1, <2>2 DEF KeysFollow
<1>4. ASSUME NEW i \in Firings, LoadFile(i) \/ SwapCurrent(i)
      PROVE  KeysFollow' /\ (~overlapped' => ~overlapped /\ registry <= registry')
  BY <1>1, <1>4 DEF LoadFile, SwapCurrent, KeysFollow, installed, history
<1>5. ASSUME NEW i \in Firings, UpdateRegistry(i)
      PROVE  KeysFollow' /\ (~overlapped' => ~overlapped /\ registry <= registry')
  <2>1. ~overlapped => registry <= reload[i].cfg /\ \A j \in Firings : Running(j) => j = i
    BY <1>5 DEF IInv, OneAtATime, UpdateRegistry, Running
  <2>2. QED BY <1>1, <1>5, <2>1 DEF UpdateRegistry, KeysFollow, Running, history
<1>6. ASSUME NEW i \in Firings, UpdateKeys(i)
      PROVE  KeysFollow' /\ (~overlapped' => ~overlapped /\ registry <= registry')
  BY <1>1, <1>6 DEF UpdateKeys, KeysFollow, history
<1>7. QED
  BY <1>2, <1>3, <1>4, <1>5, <1>6
     DEF Next, Reload, Edit, StartWatching, HandleEvent, Close, LoopEnds, vars, installed, history

\* Every step of the watcher, the reloads and the request keeps the invariant.
LEMMA StepKeepsAInv ==
    ASSUME IInv, AInv, [AdmissionNext]_admissionVars
    PROVE  AInv'
<1> USE DEF AInv
<1>1. CASE [Next]_vars /\ UNCHANGED request
  <2>1. TypeOK'
    BY <1>1, NextKeepsIInv DEF IInv
  <2>2. KeysFollow' /\ (~overlapped' => ~overlapped /\ registry <= registry')
    BY <1>1, NextKeepsKeysFollow
  <2>3. registry \in Nat /\ registry' \in Nat /\ \A r \in Requests : request[r].by \in Nat
    BY <2>1, ReloadAssumption DEF IInv, AdmissionTypeOK, TypeOK, Versions
  <2>4. AdmissionTypeOK'
    BY <1>1, <2>1 DEF AdmissionTypeOK, Versions
  <2>5. AdmittedBehind'
    BY <1>1, <2>2, <2>3 DEF AdmittedBehind
  <2>6. KeyBringsItsModel'
    <3>1. SUFFICES ASSUME ~overlapped', NEW r \in Requests, request[r].pc = "missing"
                   PROVE  \E v \in request[r].by..registry' : v \notin request[r].client.model
      BY <1>1 DEF KeyBringsItsModel
    <3>2. PICK v \in request[r].by..registry : v \notin request[r].client.model
      BY <2>2, <3>1 DEF KeyBringsItsModel
    <3>3. v \in request[r].by..registry'
      BY <2>2, <2>3, <3>1
    <3>4. QED BY <3>2, <3>3
  <2>7. QED BY <2>2, <2>4, <2>5, <2>6
<1>2. ASSUME NEW r \in Requests, NEW header \in {"none", "other", "bearer"},
             NEW client \in Clients, Authenticate(r, header, client)
      PROVE  AInv'
  <2>1. UNCHANGED <<vars, registry, keys, overlapped, reload>> /\ keys \in Versions
    BY <1>2 DEF Authenticate, IInv, TypeOK, vars, installed, history
  <2>2. PICK pc \in {"admitted", "rejected"}, c \in Clients \cup {NoClient}, by \in Versions :
           /\ request' = [request EXCEPT ![r] = [pc |-> pc, client |-> c, by |-> by]]
           /\ pc = "admitted" => by = keys
    <3>1. request[r] = [pc |-> request[r].pc, client |-> request[r].client, by |-> request[r].by]
          /\ request[r].client \in Clients \cup {NoClient} /\ request[r].by \in Versions
      BY DEF AdmissionTypeOK
    <3>2. CASE request' = [request EXCEPT ![r] =
                              [pc |-> "admitted", client |-> client, by |-> keys]]
      BY <2>1, <3>2
    <3>3. CASE request' = [request EXCEPT ![r].pc = "rejected"]
      <4>1. request' = [request EXCEPT ![r] = [pc |-> "rejected", client |-> request[r].client,
                                               by |-> request[r].by]]
        <5>1. PICK old : old = request[r]
          OBVIOUS
        <5>2. request' = [request EXCEPT ![r] = [old EXCEPT !.pc = "rejected"]]
          BY <3>3, <5>1 DEF AdmissionTypeOK
        <5>3. old = [pc |-> old.pc, client |-> old.client, by |-> old.by]
          BY <3>1, <5>1
        <5>4. [old EXCEPT !.pc = "rejected"] =
                 [pc |-> "rejected", client |-> old.client, by |-> old.by]
          BY <5>3
        <5>5. QED BY <5>1, <5>2, <5>4
      <4>2. QED BY <3>1, <4>1
    <3>4. QED BY <1>2, <3>2, <3>3 DEF Authenticate
  <2>3. AdmissionTypeOK'
    <3>1. TypeOK'
      BY <2>1 DEF AdmissionTypeOK, TypeOK, vars, installed, history, Versions
    <3>2. QED BY <2>2, <3>1 DEF AdmissionTypeOK, Versions
  <2>4. KeysFollow'
    BY <2>1 DEF KeysFollow
  <2>5. /\ request'[r].pc = pc /\ request'[r].by = by
        /\ \A q \in Requests : q # r => request'[q] = request[q]
    BY <2>2 DEF AdmissionTypeOK
  <2>6. AdmittedBehind'
    BY <2>1, <2>2, <2>5 DEF AdmittedBehind, KeysFollow
  <2>7. KeyBringsItsModel'
    BY <2>1, <2>2, <2>5 DEF KeyBringsItsModel
  <2>8. QED BY <2>3, <2>4, <2>6, <2>7
<1>3. ASSUME NEW r \in Requests, Resolve(r)
      PROVE  AInv'
  <2>1. UNCHANGED <<vars, registry, keys, overlapped, reload>> /\ registry \in Nat
    BY <1>3, ReloadAssumption DEF Resolve, IInv, TypeOK, Versions, vars, installed, history
  <2>2. PICK pc \in {"resolved", "missing"} :
           /\ request' = [request EXCEPT ![r].pc = pc]
           /\ request[r].pc = "admitted"
           /\ pc = "missing" => registry \notin request[r].client.model
    BY <1>3 DEF Resolve
  <2>3. AdmissionTypeOK'
    <3>1. TypeOK'
      BY <2>1 DEF AdmissionTypeOK, TypeOK, vars, installed, history, Versions
    <3>2. QED BY <2>2, <3>1 DEF AdmissionTypeOK, Versions
  <2>4. KeysFollow'
    BY <2>1 DEF KeysFollow
  <2>5. /\ request'[r].pc = pc /\ request'[r].by = request[r].by /\ request[r].by \in Nat
        /\ request'[r].client = request[r].client
        /\ \A q \in Requests : q # r => request'[q] = request[q]
    BY <2>2, ReloadAssumption DEF AdmissionTypeOK, Versions
  <2>6. AdmittedBehind'
    BY <2>1, <2>2, <2>5 DEF AdmittedBehind
  <2>7. KeyBringsItsModel'
    <3>1. SUFFICES ASSUME ~overlapped, NEW q \in Requests, request'[q].pc = "missing"
                   PROVE  \E v \in request'[q].by..registry : v \notin request'[q].client.model
      BY <2>1 DEF KeyBringsItsModel
    <3>2. CASE q # r
      BY <2>5, <3>1, <3>2 DEF KeyBringsItsModel
    <3>3. CASE q = r
      <4>1. request[r].by <= registry
        BY <2>2, <3>1 DEF AdmittedBehind
      <4>2. registry \in request[r].by..registry /\ registry \notin request[r].client.model
        BY <2>1, <2>2, <2>5, <3>1, <3>3, <4>1
      <4>3. QED BY <2>5, <3>3, <4>2
    <3>4. QED BY <3>2, <3>3
  <2>8. QED BY <2>3, <2>4, <2>6, <2>7
<1>4. CASE UNCHANGED admissionVars
  BY <1>1, <1>4 DEF admissionVars
<1>5. QED BY <1>1, <1>2, <1>3, <1>4 DEF AdmissionNext, Serve

\* Hot reload goes on under requests as it does alone.
LEMMA AdmissionIsHotReload == AdmissionSpec => Spec
<1>1. AdmissionInit => Init
  BY DEF AdmissionInit
<1>2. [AdmissionNext]_admissionVars => [Next]_vars
  BY DEF AdmissionNext, admissionVars, Serve, Authenticate, Resolve
<1>3. QED BY <1>1, <1>2, PTL DEF AdmissionSpec, Spec

\* The invariant holds in every reachable state.
LEMMA AdmissionKeepsAInv == AdmissionSpec => []AInv
<1>1. AInv /\ IInv /\ [AdmissionNext]_admissionVars => AInv'
  BY StepKeepsAInv
<1>2. QED BY InitAInv, <1>1, AdmissionIsHotReload, SpecKeepsIInv, PTL DEF AdmissionSpec

\* A request is at one place of its way, with one of the clients and the version of
\* the keys that let it in.
THEOREM AdmissionTypeCorrect == AdmissionSpec => []AdmissionTypeOK
<1>1. AInv => AdmissionTypeOK
  BY DEF AInv
<1>2. QED BY <1>1, AdmissionKeepsAInv, PTL

\* Unless reloads overlapped, and whatever edits add and remove, whoever is let in
\* misses his model only if the configuration that let him in or a later one has not it.
THEOREM KeysComeWithModels == AdmissionSpec => []KeyBringsItsModel
<1>1. AInv => KeyBringsItsModel
  BY DEF AInv
<1>2. QED BY <1>1, AdmissionKeepsAInv, PTL

\* What HotReload promises holds under requests too.
THEOREM LastEditInstalledUnderRequests == AdmissionSpec => []FileInstalled
BY AdmissionIsHotReload, LastEditInstalled, PTL
=============================================================================
