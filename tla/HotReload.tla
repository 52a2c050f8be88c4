----------------------------- MODULE HotReload -----------------------------
(***************************************************************************)
(* Hot reload of the configuration: internal/config/watcher.go, the reload *)
(* callback of cmd/wing-ai-proxy/main.go, Registry.Update and              *)
(* Auth.UpdateKeys.                                                        *)
(*                                                                         *)
(* The file is a series of versions; each is valid, invalid (it does not   *)
(* parse or validate; a half-written file is one) or absent.  The watcher's *)
(* loop turns file events into a debounce timer.  Each time the timer      *)
(* fires, a goroutine of its own loads the file, swaps the watcher's       *)
(* current configuration, and then updates the registry and the key set,   *)
(* one after the other, each under a lock of its own.                      *)
(***************************************************************************)
EXTENDS Naturals, Sequences

CONSTANT MaxEdits            \* bound on the edits of the file

ASSUME ReloadAssumption == MaxEdits \in Nat

VARIABLES file,        \* the version on disk and its state
          events,      \* file events the loop has not received, oldest first
          timer,       \* the debounce timer is running
          watch,       \* where the watcher stands, from start to Close
          reload,      \* the goroutine of each firing of the timer
          fired,       \* how often the timer has fired
          current,     \* version of Watcher.currentCfg
          registry,    \* version the registry was built from
          keys,        \* version the virtual API keys are from
          blind,       \* history: the version on disk when the watch began
          overlapped   \* history: the timer has fired during a reload

installed == <<current, registry, keys>>
history   == <<blind, overlapped>>
vars == <<file, events, timer, watch, reload, fired, installed, history>>

Versions == 0..MaxEdits
Contents == {"valid", "invalid", "absent"}

\* One goroutine for each firing, and every firing consumes an edit's event.
Firings == 1..MaxEdits

TypeOK ==
    /\ file \in [version : Versions, state : Contents]
    /\ events \in Seq({"write", "remove"})
    /\ timer \in BOOLEAN
    /\ watch \in {"starting", "failed", "watching", "closing", "closed"}
    /\ reload \in [Firings ->
          [pc : {"idle", "load", "swap", "registry", "keys", "done"}, cfg : Versions]]
    /\ fired \in 0..MaxEdits
    /\ current \in Versions /\ registry \in Versions /\ keys \in Versions
    /\ blind \in Versions /\ overlapped \in BOOLEAN

\* run() has loaded version 0 and built the registry and the keys from it.
Init ==
    /\ file = [version |-> 0, state |-> "valid"]
    /\ events = <<>>
    /\ timer = FALSE
    /\ watch = "starting"
    /\ reload = [i \in Firings |-> [pc |-> "idle", cfg |-> 0]]
    /\ fired = 0
    /\ current = 0 /\ registry = 0 /\ keys = 0
    /\ blind = 0 /\ overlapped = FALSE

Watched == watch = "watching"

-----------------------------------------------------------------------------
(* The operator and fsnotify. *)

\* The file is written or removed; fsnotify reports it while the watch lasts.
Edit(state) ==
    /\ file.version < MaxEdits
    /\ state = "absent" => file.state # "absent"
    /\ file' = [version |-> file.version + 1, state |-> state]
    /\ events' = IF Watched
                 THEN Append(events, IF state = "absent" THEN "remove" ELSE "write")
                 ELSE events
    /\ UNCHANGED <<timer, watch, reload, fired, installed, history>>

\* NewWatcher; if fsnotify fails, main goes on without hot reload.
StartWatching(outcome) ==
    /\ watch = "starting"
    /\ watch' = outcome
    /\ blind' = file.version
    /\ UNCHANGED <<file, events, timer, reload, fired, installed, overlapped>>

-----------------------------------------------------------------------------
(* The loop. *)

\* Mutant: events during a reload are taken for its own.
HandleEventUnlessBusy ==
    /\ Watched
    /\ events # <<>>
    /\ timer' = (timer \/ (/\ Head(events) = "write"
                           /\ \A i \in Firings : reload[i].pc \in {"idle", "done"}))
    /\ events' = Tail(events)
    /\ UNCHANGED <<file, watch, reload, fired, installed, history>>

\* A write or create restarts the timer, a removal does nothing.  Stop has no
\* effect on a firing that has already begun.
HandleEvent ==
    /\ Watched
    /\ events # <<>>
    /\ timer' = (timer \/ Head(events) = "write")
    /\ events' = Tail(events)
    /\ UNCHANGED <<file, watch, reload, fired, installed, history>>

Running(i) == reload[i].pc \notin {"idle", "done"}

\* Mutant: a ticker in the place of the one-shot timer.
FireTicker ==
    /\ timer
    /\ overlapped' = (overlapped \/ \E i \in Firings : Running(i))
    /\ fired' = fired + 1
    /\ reload' = [reload EXCEPT ![fired + 1].pc = "load"]
    /\ UNCHANGED <<file, events, timer, watch, installed, blind>>

\* Mutant: the timer is never set again once it has fired.
FireTimerOnce ==
    /\ timer
    /\ fired = 0
    /\ overlapped' = overlapped
    /\ timer' = FALSE
    /\ fired' = fired + 1
    /\ reload' = [reload EXCEPT ![fired + 1].pc = "load"]
    /\ UNCHANGED <<file, events, watch, installed, blind>>

\* time.AfterFunc runs reload in a new goroutine, whether or not the last one
\* is over.
FireTimer ==
    /\ timer
    /\ overlapped' = (overlapped \/ \E i \in Firings : Running(i))
    /\ timer' = FALSE
    /\ fired' = fired + 1
    /\ reload' = [reload EXCEPT ![fired + 1].pc = "load"]
    /\ UNCHANGED <<file, events, watch, installed, blind>>

-----------------------------------------------------------------------------
(* The i-th reload goroutine. *)

\* Mutant: a file that cannot be loaded gives the configuration of the start.
LoadFileOrDefault(i) ==
    /\ reload[i].pc = "load"
    /\ reload' = [reload EXCEPT ![i] =
          [pc |-> "swap", cfg |-> IF file.state = "valid" THEN file.version ELSE 0]]
    /\ UNCHANGED <<file, events, timer, watch, fired, installed, history>>

\* config.Load: a file that is absent or invalid ends the reload.
LoadFile(i) ==
    /\ reload[i].pc = "load"
    /\ reload' = IF file.state = "valid"
                 THEN [reload EXCEPT ![i] = [pc |-> "swap", cfg |-> file.version]]
                 ELSE [reload EXCEPT ![i].pc = "done"]
    /\ UNCHANGED <<file, events, timer, watch, fired, installed, history>>

SwapCurrent(i) ==
    /\ reload[i].pc = "swap"
    /\ current' = reload[i].cfg
    /\ reload' = [reload EXCEPT ![i].pc = "registry"]
    /\ UNCHANGED <<file, events, timer, watch, fired, registry, keys, history>>

UpdateRegistry(i) ==
    /\ reload[i].pc = "registry"
    /\ registry' = reload[i].cfg
    /\ reload' = [reload EXCEPT ![i].pc = "keys"]
    /\ UNCHANGED <<file, events, timer, watch, fired, current, keys, history>>

\* Mutant: the callback replaces the registry only.
UpdateKeysForgotten(i) ==
    /\ reload[i].pc = "keys"
    /\ reload' = [reload EXCEPT ![i].pc = "done"]
    /\ UNCHANGED <<file, events, timer, watch, fired, installed, history>>

UpdateKeys(i) ==
    /\ reload[i].pc = "keys"
    /\ keys' = reload[i].cfg
    /\ reload' = [reload EXCEPT ![i].pc = "done"]
    /\ UNCHANGED <<file, events, timer, watch, fired, current, registry, history>>

\* Mutant: the callback replaces the keys before the registry.
ReloadKeysFirst(i) ==
    \/ LoadFile(i) \/ SwapCurrent(i)
    \/ /\ reload[i].pc = "registry"
       /\ keys' = reload[i].cfg
       /\ reload' = [reload EXCEPT ![i].pc = "keys"]
       /\ UNCHANGED <<file, events, timer, watch, fired, current, registry, history>>
    \/ /\ reload[i].pc = "keys"
       /\ registry' = reload[i].cfg
       /\ reload' = [reload EXCEPT ![i].pc = "done"]
       /\ UNCHANGED <<file, events, timer, watch, fired, current, keys, history>>

Reload(i) == LoadFile(i) \/ SwapCurrent(i) \/ UpdateRegistry(i) \/ UpdateKeys(i)

-----------------------------------------------------------------------------
(* Close, called by main after the signal. *)

\* Close ends fsnotify, which drops what it has not delivered.
Close ==
    /\ Watched
    /\ watch' = "closing"
    /\ events' = <<>>
    /\ UNCHANGED <<file, timer, reload, fired, installed, history>>

\* The loop returns, and with it Close; nothing stops the timer.
LoopEnds ==
    /\ watch = "closing"
    /\ watch' = "closed"
    /\ UNCHANGED <<file, events, timer, reload, fired, installed, history>>

-----------------------------------------------------------------------------
Next ==
    \/ \E state \in Contents : Edit(state)
    \/ \E outcome \in {"watching", "failed"} : StartWatching(outcome)
    \/ HandleEvent
    \/ FireTimer
    \/ \E i \in Firings : Reload(i)
    \/ Close
    \/ LoopEnds

Spec == Init /\ [][Next]_vars

\* The loop receives what fsnotify has for it, an expired timer fires, and a
\* reload goroutine runs on: it waits for nothing but short critical sections.
Fairness ==
    /\ WF_vars(HandleEvent)
    /\ WF_vars(FireTimer)
    /\ \A i \in Firings : WF_vars(Reload(i))

FairSpec == Spec /\ Fairness

-----------------------------------------------------------------------------
(* Properties. *)

\* Nothing is under way that could still change the installed configuration.
Quiet ==
    /\ Watched
    /\ events = <<>>
    /\ ~timer
    /\ \A i \in Firings : ~Running(i)

\* The file has been changed since the watch began, or is as it was loaded.
Seen == file.version > blind \/ blind = 0

\* The debounce forgets no edit: when nothing is under way any more, the last
\* edit that left a valid file was loaded by some reload goroutine, whatever
\* events arrived while others were running.
LastEditLoaded ==
    Quiet /\ file.state = "valid" /\ file.version > blind =>
        \E i \in Firings : reload[i].cfg = file.version

\* What serves requests is what the file says, once nothing is under way: the
\* registry and the keys are both those of the last valid edit, unless that was
\* made before the watch began, or reloads have overlapped.
FileInstalled ==
    Quiet /\ file.state = "valid" /\ Seen /\ ~overlapped =>
        registry = file.version /\ keys = file.version

\* A reload never puts an older configuration in the place of a newer one,
\* unless reloads have overlapped.
NeverBackwards ==
    [][~overlapped => current' >= current /\ registry' >= registry /\ keys' >= keys]_vars

\* A valid edit takes effect, unless another follows or the watcher is closed,
\* or reloads overlap.
EditTakesEffect ==
    \A v \in 1..MaxEdits :
        (Watched /\ v > blind /\ file = [version |-> v, state |-> "valid"]) ~>
            (registry = v /\ keys = v) \/ file.version > v \/ ~Watched \/ overlapped

\* The hot-reload specification wants the configuration replaced atomically:
\* when nothing is under way, the registry, the keys and the watcher's own
\* record of them agree.
ReplacedAsWhole == Quiet => registry = keys /\ current = registry
=============================================================================
