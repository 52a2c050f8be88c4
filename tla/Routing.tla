------------------------------ MODULE Routing ------------------------------
(***************************************************************************)
(* Model names: internal/provider/provider.go (NewRegistry, Resolve,       *)
(* Update, the rewriting in ChatCompletion) and what the two handlers of   *)
(* internal/proxy do with the name they resolved.                          *)
(*                                                                         *)
(* A configuration is a list of providers, each with a map from show names *)
(* (what clients ask for) to real names (what the upstream knows).  The    *)
(* registry merges the maps; Go visits a map in any order.  A reload       *)
(* replaces the registry while requests hold a provider of the old one.    *)
(***************************************************************************)
EXTENDS Naturals, Sequences

CONSTANTS Names,       \* model names, show and real
          Requests,    \* requests in flight
          MaxProviders \* bound on the providers of a configuration

ASSUME RoutingAssumption == MaxProviders \in Nat \ {0}

VARIABLES configs,     \* the configurations installed one after the other
          installed,   \* how many of them the registry has seen
          building,    \* NewRegistry under way: provider, names left, map so far
          registry,    \* Registry.modelMap
          request      \* what each request asked, resolved and sent

vars == <<configs, installed, building, registry, request>>

\* providers[].models, with at least one entry: a validated configuration.
ModelMaps == UNION {[S -> Names] : S \in SUBSET Names \ {{}}}
Configs == UNION {[1..n -> ModelMaps] : n \in 1..MaxProviders}

\* providerEntry: the provider, known by its place in its configuration and its
\* own models, and the real name.
Entry == [owner : 1..MaxProviders, models : ModelMaps, real : Names]
Registries == UNION {[S -> Entry] : S \in SUBSET Names}

Unset == [pc |-> "idle"]

TypeOK ==
    /\ installed \in 0..Len(configs)
    /\ building \in [at : 1..MaxProviders, left : SUBSET Names, map : Registries]
    /\ registry \in Registries
    /\ DOMAIN request = Requests
    /\ \A r \in Requests :
          request[r].pc \in {"idle", "resolved", "missing", "sent", "rejected"}

Empty == [n \in {} |-> n]

\* NewRegistry starts with the first provider's names.
StartOn(config) == [at |-> 1, left |-> DOMAIN config[1], map |-> Empty]

Init ==
    /\ configs \in [1..2 -> Configs]
    /\ installed = 0
    /\ building = StartOn(configs[1])
    /\ registry = Empty
    /\ request = [r \in Requests |-> Unset]

Started == installed > 0
Building == installed < Len(configs)
Config == configs[installed + 1]       \* the one being built

-----------------------------------------------------------------------------
(* NewRegistry, at startup and in Registry.Update. *)

\* Mutant: a later provider takes the name over.
AddModelLastWins(n) ==
    /\ Building
    /\ n \in building.left
    /\ building' =
         [building EXCEPT
            !.left = @ \ {n},
            !.map = [m \in DOMAIN @ \cup {n} |->
                       IF m = n THEN [owner |-> building.at,
                                      models |-> Config[building.at],
                                      real |-> Config[building.at][n]]
                       ELSE @[m]]]
    /\ UNCHANGED <<configs, installed, registry, request>>

\* One turn of the inner loop, for any name not visited yet: a name that an
\* earlier provider has is left to it.
AddModel(n) ==
    /\ Building
    /\ n \in building.left
    /\ building' =
         [building EXCEPT
            !.left = @ \ {n},
            !.map = IF n \in DOMAIN @ THEN @
                    ELSE [m \in DOMAIN @ \cup {n} |->
                            IF m = n THEN [owner |-> building.at,
                                           models |-> Config[building.at],
                                           real |-> Config[building.at][n]]
                            ELSE @[m]]]
    /\ UNCHANGED <<configs, installed, registry, request>>

\* Mutant: the loop over the providers runs once too often.
NextProviderTooFar ==
    /\ Building
    /\ building.left = {}
    /\ building.at <= Len(Config)
    /\ building' = [building EXCEPT !.at = @ + 1,
                      !.left = IF building.at < Len(Config)
                               THEN DOMAIN Config[building.at + 1] ELSE {}]
    /\ UNCHANGED <<configs, installed, registry, request>>

NextProvider ==
    /\ Building
    /\ building.left = {}
    /\ building.at < Len(Config)
    /\ building' = [building EXCEPT !.at = @ + 1, !.left = DOMAIN Config[building.at + 1]]
    /\ UNCHANGED <<configs, installed, registry, request>>

\* The merged map becomes the registry's under its lock; the next reload will
\* begin afresh.
Publish ==
    /\ Building
    /\ building.left = {}
    /\ building.at = Len(Config)
    /\ registry' = building.map
    /\ installed' = installed + 1
    /\ building' = IF installed' < Len(configs)
                   THEN StartOn(configs[installed' + 1]) ELSE building
    /\ UNCHANGED <<configs, request>>

-----------------------------------------------------------------------------
(* A request. *)

\* Resolve.  handler.go reads the name with a struct tag, which matches the
\* field "model" in any letter case; exact says that it is spelled "model".
Resolve(r, api, name, exact) ==
    /\ Started
    /\ request[r].pc = "idle"
    /\ request' = [request EXCEPT ![r] =
          IF name \in DOMAIN registry
          THEN [pc |-> "resolved", api |-> api, show |-> name, exact |-> exact,
                entry |-> registry[name]]
          ELSE [pc |-> "missing", api |-> api, show |-> name, exact |-> exact]]
    /\ UNCHANGED <<configs, installed, building, registry>>

\* ShowNames, for the answer to a request whose model was not found.
ListModels(r) ==
    /\ request[r].pc = "missing"
    /\ request' = [request EXCEPT ![r] =
          [pc |-> "rejected", show |-> @.show, available |-> DOMAIN registry]]
    /\ UNCHANGED <<configs, installed, building, registry>>

\* The name ChatCompletion is given: the chat handler passes the body on, the
\* Responses handler writes the real name into a body of its own.
Given(q) == IF q.api = "chat" THEN q.show ELSE q.entry.real

\* ChatCompletion replaces the field "model" by the provider's own map.
Rewrite(q) ==
    IF (q.api = "responses" \/ q.exact) /\ Given(q) \in DOMAIN q.entry.models
    THEN q.entry.models[Given(q)] ELSE Given(q)

\* Mutant: the provider asks the registry again when it sends.
SendResolvingAgain(r) ==
    /\ request[r].pc = "resolved"
    /\ request' = [request EXCEPT ![r] =
          [pc |-> "sent", api |-> @.api, exact |-> @.exact, show |-> @.show,
           owner |-> @.entry.owner, audited |-> @.entry.real,
           model |-> IF @.show \in DOMAIN registry THEN registry[@.show].real ELSE @.show]]
    /\ UNCHANGED <<configs, installed, building, registry>>

Send(r) ==
    /\ request[r].pc = "resolved"
    /\ request' = [request EXCEPT ![r] =
          [pc |-> "sent", api |-> @.api, exact |-> @.exact, show |-> @.show,
           owner |-> @.entry.owner, audited |-> @.entry.real, model |-> Rewrite(@)]]
    /\ UNCHANGED <<configs, installed, building, registry>>

Request(r) ==
    \/ \E api \in {"chat", "responses"}, name \in Names, exact \in BOOLEAN :
          Resolve(r, api, name, exact)
    \/ ListModels(r)
    \/ Send(r)

Next ==
    \/ \E n \in Names : AddModel(n)
    \/ NextProvider
    \/ Publish
    \/ \E r \in Requests : Request(r)

Spec == Init /\ [][Next]_vars

-----------------------------------------------------------------------------
(* Properties. *)

\* The providers of a configuration that offer a show name.
Owners(config, n) == {i \in DOMAIN config : n \in DOMAIN config[i]}

\* What the registry should be: each show name of the configuration belongs to
\* the first provider in the file that offers it.
Merged(config) ==
    [n \in {m \in Names : Owners(config, m) # {}} |->
        LET first == CHOOSE i \in Owners(config, n) :
                        \A j \in Owners(config, n) : i <= j
        IN  [owner |-> first, models |-> config[first], real |-> config[first][n]]]

\* Requests only ever meet the registry of a whole configuration, merged in
\* favour of the provider that comes first, in whatever order Go visits the
\* maps and however many reloads there have been.
FirstProviderWins ==
    Started => registry = Merged(configs[installed])

\* A request is sent under the real name its record says, and that is the name
\* one configuration gives to the show name at the provider it is sent to, even
\* if the registry has been replaced in between.  A Responses request whose real
\* name is itself a show name of that provider is excepted: it is mapped twice.
SentAsAudited ==
    \A r \in Requests :
        request[r].pc = "sent" /\ (request[r].api = "chat" => request[r].exact) =>
            \E v \in 1..installed :
                LET m == Merged(configs[v])
                    entry == m[request[r].show]
                IN  /\ request[r].show \in DOMAIN m
                    /\ entry.owner = request[r].owner
                    /\ entry.real = request[r].audited
                    /\ request[r].api = "chat" \/ entry.real \notin DOMAIN entry.models =>
                          request[r].model = request[r].audited
=============================================================================
