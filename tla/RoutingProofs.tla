---------------------------- MODULE RoutingProofs ----------------------------
(***************************************************************************)
(* Proofs about Routing, for any names, any number of providers and of     *)
(* requests.                                                               *)
(***************************************************************************)
EXTENDS Routing, SequenceTheorems, WellFoundedInduction, TLAPS

\* What provider i of a configuration offers under a name, and whether it is the
\* first to do so.
Offer(config, i, n) == [owner |-> i, models |-> config[i], real |-> config[i][n]]
First(config, i, n) ==
    /\ i \in 1..Len(config)
    /\ n \in DOMAIN config[i]
    /\ \A j \in 1..(i - 1) : n \notin DOMAIN config[j]

\* The names that NewRegistry has visited are in the map, each with what its first
\* provider offers.
Visited ==
    Building =>
        /\ building.at <= Len(Config)
        /\ building.left \subseteq DOMAIN Config[building.at]
        /\ \A n \in Names :
              n \in DOMAIN building.map <=>
                  \/ \E i \in 1..(building.at - 1) : n \in DOMAIN Config[i]
                  \/ n \in DOMAIN Config[building.at] \ building.left
        /\ \A n \in DOMAIN building.map :
              \E i \in 1..building.at :
                  First(Config, i, n) /\ building.map[n] = Offer(Config, i, n)

\* What a request has resolved is what a configuration says.
Resolved ==
    \A r \in Requests : request[r].pc = "resolved" =>
        \E v \in 1..installed :
            /\ request[r].show \in DOMAIN Merged(configs[v])
            /\ request[r].entry = Merged(configs[v])[request[r].show]

IInv ==
    /\ TypeOK
    /\ configs \in [1..2 -> Configs]
    /\ Visited
    /\ FirstProviderWins
    /\ Resolved
    /\ SentAsAudited

-----------------------------------------------------------------------------
(* Configurations. *)

\* There are two configurations.
LEMMA ConfigsLength == configs \in [1..2 -> Configs] => Len(configs) = 2
  OBVIOUS

\* What a validated configuration is made of.
LEMMA ConfigTyped ==
    ASSUME NEW config \in Configs
    PROVE  /\ Len(config) \in 1..MaxProviders
           /\ DOMAIN config = 1..Len(config)
           /\ \A i \in 1..Len(config) :
                 /\ config[i] \in ModelMaps
                 /\ DOMAIN config[i] \subseteq Names
                 /\ \A n \in DOMAIN config[i] : config[i][n] \in Names
<1>1. PICK k \in 1..MaxProviders : config \in [1..k -> ModelMaps]
  BY DEF Configs
<1>2. k \in Nat
  BY RoutingAssumption
<1>3. Len(config) = k /\ DOMAIN config = 1..k
  BY <1>1, <1>2
<1>4. \A m \in ModelMaps : DOMAIN m \subseteq Names /\ \A n \in DOMAIN m : m[n] \in Names
  BY DEF ModelMaps
<1>5. QED BY <1>1, <1>3, <1>4

\* The provider that is first to offer a name is its owner in the merged map.
LEMMA FirstOwns ==
    ASSUME NEW config \in Configs, NEW n \in Names, NEW i, First(config, i, n)
    PROVE  n \in DOMAIN Merged(config) /\ Merged(config)[n] = Offer(config, i, n)
<1> DEFINE first == CHOOSE k \in Owners(config, n) : \A j \in Owners(config, n) : k <= j
<1>1. \A j \in Owners(config, n) : j \in Nat /\ n \in DOMAIN config[j] /\ i <= j
  BY ConfigTyped DEF Owners, First
<1>2. i \in Owners(config, n) /\ i \in Nat
  BY ConfigTyped DEF Owners, First
<1>3. first = i
  <2>1. first \in Owners(config, n) /\ \A j \in Owners(config, n) : first <= j
    BY <1>1, <1>2
  <2>2. first <= i /\ i <= first /\ first \in Nat
    BY <1>1, <1>2, <2>1
  <2>3. QED BY <1>2, <2>2
<1>4. QED BY <1>2, <1>3 DEF Merged, Offer

\* And a name in the merged map has one.
LEMMA OwnedByFirst ==
    ASSUME NEW config \in Configs, NEW n \in DOMAIN Merged(config)
    PROVE  n \in Names /\ \E i \in 1..Len(config) : First(config, i, n)
<1>1. n \in Names /\ Owners(config, n) # {} /\ Owners(config, n) \in SUBSET Nat
      /\ Owners(config, n) \subseteq 1..Len(config)
  BY ConfigTyped DEF Merged, Owners
<1>2. PICK i \in Owners(config, n) : \A j \in Owners(config, n) : ~(<<j, i>> \in OpToRel(<, Nat))
  BY <1>1, NatLessThanWellFounded, WFMin
<1>3. \A j \in Owners(config, n) : ~(j < i)
  BY <1>1, <1>2 DEF OpToRel
<1>4. First(config, i, n)
  BY <1>1, <1>3, ConfigTyped DEF First, Owners
<1>5. QED BY <1>1, <1>4

\* The configuration that NewRegistry is working on.
LEMMA ConfigBuilt ==
    ASSUME TypeOK, configs \in [1..2 -> Configs], Building
    PROVE  /\ Config \in Configs /\ installed \in Nat /\ installed + 1 \in 1..2
           /\ Len(Config) \in 1..MaxProviders /\ Len(Config) \in Nat /\ MaxProviders \in Nat
           /\ Config = configs[installed + 1]
<1>1. Len(configs) = 2 /\ installed \in 0..2 /\ installed < 2
  BY ConfigsLength DEF TypeOK, Building
<1>2. installed \in Nat /\ installed + 1 \in 1..2
  BY <1>1
<1>3. Config \in Configs
  BY <1>2 DEF Config
<1>4. Len(Config) \in 1..MaxProviders /\ MaxProviders \in Nat
  BY <1>3, ConfigTyped, RoutingAssumption
<1>5. Len(Config) \in Nat
  BY <1>4
<1>6. QED BY <1>2, <1>3, <1>4, <1>5 DEF Config

\* The empty map is a registry.
LEMMA NothingMapped == Empty \in Registries /\ DOMAIN Empty = {}
BY DEF Empty, Registries

\* NewRegistry begins with nothing visited.
LEMMA StartsUnvisited ==
    ASSUME NEW config \in Configs
    PROVE  /\ StartOn(config) \in [at : 1..MaxProviders, left : SUBSET Names, map : Registries]
           /\ StartOn(config).at = 1 /\ StartOn(config).left = DOMAIN config[1]
           /\ DOMAIN StartOn(config).map = {}
           /\ 1 <= Len(config)
<1>1. 1 \in 1..Len(config) /\ 1 \in 1..MaxProviders /\ 1 <= Len(config)
  BY ConfigTyped, RoutingAssumption
<1>2. DOMAIN config[1] \subseteq Names
  BY <1>1, ConfigTyped
<1>3. QED BY <1>1, <1>2, NothingMapped DEF StartOn

-----------------------------------------------------------------------------
(* The steps. *)

\* Nothing is visited and no request has come.
LEMMA InitIInv == Init => IInv
<1> SUFFICES ASSUME Init PROVE IInv
  OBVIOUS
<1>1. configs \in [1..2 -> Configs] /\ installed = 0 /\ building = StartOn(configs[1])
      /\ registry = Empty /\ request = [r \in Requests |-> Unset]
  BY DEF Init
<1>2. configs[1] \in Configs /\ Config = configs[1] /\ Len(configs) = 2
  BY <1>1, ConfigsLength DEF Config
<1>3. TypeOK
  BY <1>1, <1>2, StartsUnvisited, NothingMapped DEF TypeOK, Unset
<1>4. Visited
  BY <1>1, <1>2, StartsUnvisited DEF Visited
<1>5. FirstProviderWins /\ Resolved /\ SentAsAudited
  BY <1>1 DEF FirstProviderWins, Started, Resolved, SentAsAudited, Unset
<1>6. QED BY <1>1, <1>3, <1>4, <1>5 DEF IInv

\* A name is added for its first provider and left alone after that.
LEMMA AddModelKeepsIInv ==
    ASSUME IInv, NEW n \in Names, AddModel(n)
    PROVE  IInv'
<1> USE DEF IInv
<1> DEFINE offer == [owner |-> building.at, models |-> Config[building.at],
                     real |-> Config[building.at][n]]
           map == IF n \in DOMAIN building.map THEN building.map
                  ELSE [m \in DOMAIN building.map \cup {n} |->
                           IF m = n THEN offer ELSE building.map[m]]
<1>1. /\ Building /\ n \in building.left
      /\ building' = [building EXCEPT !.left = building.left \ {n}, !.map = map]
      /\ UNCHANGED <<configs, installed, registry, request>>
  BY DEF AddModel, TypeOK
<1>2. /\ building \in [at : 1..MaxProviders, left : SUBSET Names, map : Registries]
      /\ building.at \in 1..MaxProviders /\ building.left \in SUBSET Names
      /\ building.map \in Registries
      /\ building.at \in Nat /\ building.at <= Len(Config)
      /\ building.left \subseteq DOMAIN Config[building.at]
  BY <1>1, RoutingAssumption DEF TypeOK, Visited
<1>3. Config \in Configs /\ Len(Config) \in Nat
  BY <1>1, ConfigBuilt
<1>4. building.at \in 1..Len(Config) /\ n \in DOMAIN Config[building.at]
  BY <1>1, <1>2, <1>3
<1>5. offer = Offer(Config, building.at, n) /\ offer \in Entry
  BY <1>2, <1>3, <1>4, ConfigTyped DEF Offer, Entry
<1>6. \A m \in Names : m \in DOMAIN building.map <=>
         \/ \E i \in 1..(building.at - 1) : m \in DOMAIN Config[i]
         \/ m \in DOMAIN Config[building.at] \ building.left
  BY <1>1 DEF Visited
<1>7. \A m \in DOMAIN building.map :
         \E i \in 1..building.at : First(Config, i, m) /\ building.map[m] = Offer(Config, i, m)
  BY <1>1 DEF Visited
<1>8. ASSUME n \notin DOMAIN building.map PROVE First(Config, building.at, n)
  BY <1>4, <1>6, <1>8 DEF First
<1> HIDE DEF offer
<1>9. /\ map \in Registries
      /\ DOMAIN map = DOMAIN building.map \cup {n}
      /\ \A m \in DOMAIN map :
            \E i \in 1..building.at : First(Config, i, m) /\ map[m] = Offer(Config, i, m)
  <2>1. CASE n \in DOMAIN building.map
    BY <1>2, <1>7, <2>1
  <2>2. CASE n \notin DOMAIN building.map
    <3>1. PICK S \in SUBSET Names : building.map \in [S -> Entry]
      BY <1>2 DEF Registries
    <3>2. map \in [S \cup {n} -> Entry] /\ S \cup {n} \in SUBSET Names
      BY <1>5, <2>2, <3>1
    <3>3. map \in Registries
      BY <3>2 DEF Registries
    <3>4. DOMAIN map = DOMAIN building.map \cup {n}
      BY <2>2
    <3>5. \A m \in DOMAIN building.map : map[m] = building.map[m]
      BY <2>2
    <3>6. map[n] = Offer(Config, building.at, n) /\ building.at \in 1..building.at
      BY <1>2, <1>5, <2>2
    <3>7. QED BY <1>7, <1>8, <2>2, <3>3, <3>4, <3>5, <3>6
  <2>3. QED BY <2>1, <2>2
<1> HIDE DEF map
<1>10. /\ building' \in [at : 1..MaxProviders, left : SUBSET Names, map : Registries]
       /\ building'.at = building.at /\ building'.left = building.left \ {n} /\ building'.map = map
  BY <1>1, <1>2, <1>9
<1>11. TypeOK'
  BY <1>1, <1>10 DEF TypeOK
<1>12. Config' = Config /\ (Building' <=> Building)
  BY <1>1 DEF Config, Building
<1>13. Visited'
  BY <1>2, <1>4, <1>6, <1>9, <1>10, <1>12 DEF Visited
<1>14. FirstProviderWins' /\ Resolved' /\ SentAsAudited'
  BY <1>1 DEF FirstProviderWins, Started, Resolved, SentAsAudited
<1>15. QED BY <1>1, <1>11, <1>13, <1>14

\* A provider whose names are all visited is one of the earlier ones.
LEMMA NextProviderKeepsIInv ==
    ASSUME IInv, NextProvider
    PROVE  IInv'
<1> USE DEF IInv
<1>1. /\ Building /\ building.left = {} /\ building.at < Len(Config)
      /\ building' = [building EXCEPT !.at = building.at + 1, !.left = DOMAIN Config[building.at + 1]]
      /\ UNCHANGED <<configs, installed, registry, request>>
  BY DEF NextProvider, TypeOK
<1>2. /\ building \in [at : 1..MaxProviders, left : SUBSET Names, map : Registries]
      /\ building.at \in Nat /\ building.at >= 1
      /\ Config \in Configs /\ Len(Config) \in 1..MaxProviders /\ Len(Config) \in Nat
      /\ MaxProviders \in Nat
  BY <1>1, ConfigBuilt DEF TypeOK
<1>3. /\ building.at + 1 \in 1..Len(Config) /\ building.at + 1 \in 1..MaxProviders
      /\ DOMAIN Config[building.at + 1] \subseteq Names
  <2>1. building.at + 1 \in 1..Len(Config) /\ building.at + 1 \in 1..MaxProviders
    BY <1>1, <1>2
  <2>2. QED BY <1>2, <2>1, ConfigTyped
<1>4. /\ building' \in [at : 1..MaxProviders, left : SUBSET Names, map : Registries]
      /\ building'.at = building.at + 1 /\ building'.left = DOMAIN Config[building.at + 1]
      /\ building'.map = building.map
  BY <1>1, <1>2, <1>3
<1>5. TypeOK'
  BY <1>1, <1>4 DEF TypeOK
<1>6. Config' = Config /\ (Building' <=> Building)
  BY <1>1 DEF Config, Building
<1>7. Visited'
  <2>1. building'.at - 1 = building.at /\ building'.at <= Len(Config)
    BY <1>2, <1>3, <1>4
  <2>2. \A n \in Names :
           n \in DOMAIN building.map <=> \E i \in 1..building.at : n \in DOMAIN Config[i]
    <3>1. \A i \in 1..building.at : i = building.at \/ i \in 1..(building.at - 1)
      BY <1>2
    <3>2. building.at \in 1..building.at /\ 1..(building.at - 1) \subseteq 1..building.at
      BY <1>2
    <3>3. \A n \in Names : n \in DOMAIN building.map <=>
             \/ \E i \in 1..(building.at - 1) : n \in DOMAIN Config[i]
             \/ n \in DOMAIN Config[building.at]
      BY <1>1 DEF Visited
    <3>4. QED BY <3>1, <3>2, <3>3
  <2>3. \A n \in DOMAIN building.map :
           \E i \in 1..(building.at + 1) : First(Config, i, n) /\ building.map[n] = Offer(Config, i, n)
    <3>1. 1..building.at \subseteq 1..(building.at + 1)
      BY <1>2
    <3>2. QED BY <1>1, <3>1 DEF Visited
  <2>4. QED BY <1>4, <1>6, <2>1, <2>2, <2>3 DEF Visited
<1>8. FirstProviderWins' /\ Resolved' /\ SentAsAudited'
  BY <1>1 DEF FirstProviderWins, Started, Resolved, SentAsAudited
<1>9. QED BY <1>1, <1>5, <1>7, <1>8

\* What a request has resolved or sent does not depend on the registry.
LEMMA RequestsKeepPast ==
    ASSUME Resolved, SentAsAudited, UNCHANGED <<configs, request>>,
           installed \in Nat, installed' \in Nat, installed <= installed'
    PROVE  Resolved' /\ SentAsAudited'
<1>1. \A v \in 1..installed : v \in 1..installed'
  OBVIOUS
<1>2. Resolved'
  BY <1>1 DEF Resolved
<1>3. SentAsAudited'
  BY <1>1 DEF SentAsAudited
<1>4. QED BY <1>2, <1>3

\* A map that holds what each first provider offers is the merged one.
LEMMA VisitedAll ==
    ASSUME NEW config \in Configs, NEW map \in Registries,
           \A n \in Names :
              n \in DOMAIN map <=> \E i \in 1..Len(config) : n \in DOMAIN config[i],
           \A n \in DOMAIN map :
              \E i \in 1..Len(config) : First(config, i, n) /\ map[n] = Offer(config, i, n)
    PROVE  map = Merged(config)
<1>1. PICK S \in SUBSET Names : map \in [S -> Entry]
  BY DEF Registries
<1>2. ASSUME NEW n \in DOMAIN map
      PROVE  n \in DOMAIN Merged(config) /\ map[n] = Merged(config)[n]
  <2>1. PICK i \in 1..Len(config) : First(config, i, n) /\ map[n] = Offer(config, i, n)
    BY <1>2
  <2>2. n \in Names
    BY <1>1
  <2>3. QED BY <2>1, <2>2, FirstOwns
<1>3. ASSUME NEW n \in DOMAIN Merged(config) PROVE n \in DOMAIN map
  <2>1. n \in Names
    BY DEF Merged
  <2>2. PICK i \in 1..Len(config) : First(config, i, n)
    BY OwnedByFirst
  <2>3. QED BY <2>1, <2>2 DEF First
<1>4. DOMAIN map = DOMAIN Merged(config)
  BY <1>2, <1>3
<1>5. map = [n \in DOMAIN map |-> map[n]]
  BY <1>1
<1>6. Merged(config) = [n \in DOMAIN Merged(config) |-> Merged(config)[n]]
  BY DEF Merged
<1>7. QED BY <1>2, <1>4, <1>5, <1>6

\* What is published is the merged map, and the next reload begins afresh.
LEMMA PublishKeepsIInv ==
    ASSUME IInv, Publish
    PROVE  IInv'
<1> USE DEF IInv
<1>1. /\ Building /\ building.left = {} /\ building.at = Len(Config)
      /\ registry' = building.map /\ installed' = installed + 1
      /\ building' = IF installed' < Len(configs) THEN StartOn(configs[installed' + 1])
                     ELSE building
      /\ UNCHANGED <<configs, request>>
  BY DEF Publish
<1>2. /\ Config \in Configs /\ installed \in Nat /\ installed + 1 \in 1..2
      /\ Len(Config) \in Nat /\ Len(Config) >= 1
      /\ Config = configs[installed + 1] /\ Len(configs) = 2
  BY <1>1, ConfigBuilt, ConfigsLength
<1>3. /\ building \in [at : 1..MaxProviders, left : SUBSET Names, map : Registries]
      /\ building.map \in Registries
  BY DEF TypeOK
<1>4. building.map = Merged(Config)
  <2>1. \A n \in Names : n \in DOMAIN building.map <=>
           \/ \E i \in 1..(Len(Config) - 1) : n \in DOMAIN Config[i]
           \/ n \in DOMAIN Config[Len(Config)]
    BY <1>1 DEF Visited
  <2>2. \A i \in 1..Len(Config) : i = Len(Config) \/ i \in 1..(Len(Config) - 1)
    BY <1>2
  <2>3. Len(Config) \in 1..Len(Config) /\ 1..(Len(Config) - 1) \subseteq 1..Len(Config)
    BY <1>2
  <2>4. \A n \in Names :
           n \in DOMAIN building.map <=> \E i \in 1..Len(Config) : n \in DOMAIN Config[i]
    BY <2>1, <2>2, <2>3
  <2>5. \A n \in DOMAIN building.map :
           \E i \in 1..Len(Config) :
              First(Config, i, n) /\ building.map[n] = Offer(Config, i, n)
    BY <1>1 DEF Visited
  <2>6. QED BY <1>2, <1>3, <2>4, <2>5, VisitedAll
<1>5. FirstProviderWins'
  BY <1>1, <1>2, <1>4 DEF FirstProviderWins
<1>6. /\ building' \in [at : 1..MaxProviders, left : SUBSET Names, map : Registries]
      /\ Visited'
  <2>1. CASE installed' < Len(configs)
    <3>1. configs[installed' + 1] \in Configs /\ Config' = configs[installed' + 1]
      BY <1>1, <1>2, <2>1 DEF Config
    <3>2. building' = StartOn(configs[installed' + 1])
      BY <1>1, <2>1
    <3>3. /\ building' \in [at : 1..MaxProviders, left : SUBSET Names, map : Registries]
          /\ building'.at = 1 /\ building'.left = DOMAIN Config'[1]
          /\ DOMAIN building'.map = {} /\ 1 <= Len(Config')
      BY <3>1, <3>2, StartsUnvisited
    <3>4. \A i \in 1..(building'.at - 1) : FALSE
      BY <3>3
    <3>5. Visited'
      BY <3>3, <3>4 DEF Visited
    <3>6. QED BY <3>3, <3>5
  <2>2. CASE ~(installed' < Len(configs))
    <3>1. building' = building /\ ~Building'
      BY <1>1, <2>2 DEF Building
    <3>2. QED BY <1>3, <3>1 DEF Visited
  <2>3. QED BY <2>1, <2>2
<1>7. TypeOK'
  BY <1>1, <1>2, <1>3, <1>6 DEF TypeOK
<1>8. Resolved' /\ SentAsAudited'
  BY <1>1, <1>2, RequestsKeepPast
<1>9. QED BY <1>1, <1>5, <1>6, <1>7, <1>8

\* A step that only touches a request leaves the rest of the invariant alone.
LEMMA RequestStep ==
    ASSUME IInv, UNCHANGED <<configs, installed, building, registry>>,
           DOMAIN request' = Requests,
           \A r \in Requests :
              request'[r].pc \in {"idle", "resolved", "missing", "sent", "rejected"},
           Resolved', SentAsAudited'
    PROVE  IInv'
<1>1. TypeOK' /\ (configs \in [1..2 -> Configs])'
  BY DEF IInv, TypeOK
<1>2. Visited' /\ FirstProviderWins'
  BY DEF IInv, Visited, Building, Config, FirstProviderWins, Started
<1>3. QED BY <1>1, <1>2 DEF IInv

\* A request resolves what the installed configuration says.
LEMMA ResolveKeepsIInv ==
    ASSUME IInv, NEW r \in Requests, NEW api \in {"chat", "responses"},
           NEW name \in Names, NEW exact \in BOOLEAN, Resolve(r, api, name, exact)
    PROVE  IInv'
<1> USE DEF IInv
<1> DEFINE found == [pc |-> "resolved", api |-> api, show |-> name, exact |-> exact,
                     entry |-> registry[name]]
           missing == [pc |-> "missing", api |-> api, show |-> name, exact |-> exact]
<1>1. /\ Started
      /\ request' = [request EXCEPT ![r] = IF name \in DOMAIN registry THEN found ELSE missing]
      /\ UNCHANGED <<configs, installed, building, registry>>
  BY DEF Resolve
<1>2. /\ DOMAIN request = Requests /\ installed \in Nat /\ installed \in 1..installed
      /\ \A q \in Requests :
            request[q].pc \in {"idle", "resolved", "missing", "sent", "rejected"}
  BY <1>1, ConfigsLength DEF TypeOK, Started
<1>3. /\ DOMAIN request' = Requests
      /\ \A q \in Requests : q # r => request'[q] = request[q]
      /\ request'[r] = IF name \in DOMAIN registry THEN found ELSE missing
  BY <1>1, <1>2
<1>4. registry = Merged(configs[installed])
  BY <1>1 DEF FirstProviderWins
<1>5. Resolved'
  <2>1. ASSUME name \in DOMAIN registry
        PROVE  /\ request'[r].show \in DOMAIN Merged(configs[installed])
               /\ request'[r].entry = Merged(configs[installed])[request'[r].show]
    BY <1>3, <1>4, <2>1
  <2>2. ASSUME name \notin DOMAIN registry PROVE request'[r].pc = "missing"
    BY <1>3, <2>2
  <2>3. QED BY <1>1, <1>2, <1>3, <2>1, <2>2 DEF Resolved
<1>6. request'[r].pc \in {"resolved", "missing"}
  BY <1>3
<1>7. SentAsAudited'
  BY <1>1, <1>3, <1>6 DEF SentAsAudited
<1>8. QED BY <1>1, <1>2, <1>3, <1>5, <1>6, <1>7, RequestStep

\* The list of models in an error changes nothing.
LEMMA ListModelsKeepsIInv ==
    ASSUME IInv, NEW r \in Requests, ListModels(r)
    PROVE  IInv'
<1> USE DEF IInv
<1>1. /\ DOMAIN request = Requests
      /\ \A q \in Requests :
            request[q].pc \in {"idle", "resolved", "missing", "sent", "rejected"}
  BY DEF TypeOK
<1>2. /\ DOMAIN request' = Requests
      /\ \A q \in Requests : q # r => request'[q] = request[q]
      /\ request'[r].pc = "rejected"
      /\ UNCHANGED <<configs, installed, building, registry>>
  BY <1>1 DEF ListModels
<1>3. Resolved' /\ SentAsAudited'
  BY <1>2 DEF Resolved, SentAsAudited
<1>4. QED BY <1>1, <1>2, <1>3, RequestStep

\* The provider's own map takes an exactly spelled show name to the real name, and
\* leaves a real name that it does not offer alone.
LEMMA RewriteIsReal ==
    ASSUME NEW config \in Configs, NEW q, q.show \in DOMAIN Merged(config),
           q.entry = Merged(config)[q.show]
    PROVE  /\ q.api = "chat" /\ q.exact => Rewrite(q) = q.entry.real
           /\ q.api # "chat" /\ q.entry.real \notin DOMAIN q.entry.models =>
                 Rewrite(q) = q.entry.real
<1>1. q.show \in Names
  BY OwnedByFirst
<1>2. PICK i \in 1..Len(config) : First(config, i, q.show)
  BY OwnedByFirst
<1>3. q.entry = Offer(config, i, q.show)
  BY <1>1, <1>2, FirstOwns
<1>4. q.entry.models = config[i] /\ q.entry.real = config[i][q.show]
      /\ q.show \in DOMAIN config[i]
  BY <1>2, <1>3 DEF Offer, First
<1>5. QED BY <1>4 DEF Rewrite, Given

\* A request is sent with what it has resolved.
LEMMA SendKeepsIInv ==
    ASSUME IInv, NEW r \in Requests, Send(r)
    PROVE  IInv'
<1> USE DEF IInv
<1> DEFINE q == request[r]
           sent == [pc |-> "sent", api |-> q.api, exact |-> q.exact, show |-> q.show,
                    owner |-> q.entry.owner, audited |-> q.entry.real, model |-> Rewrite(q)]
<1>1. /\ DOMAIN request = Requests
      /\ \A p \in Requests :
            request[p].pc \in {"idle", "resolved", "missing", "sent", "rejected"}
  BY DEF TypeOK
<1>2. /\ q.pc = "resolved"
      /\ request' = [request EXCEPT ![r] = sent]
      /\ UNCHANGED <<configs, installed, building, registry>>
  BY <1>1 DEF Send
<1>3. /\ DOMAIN request' = Requests
      /\ \A p \in Requests : p # r => request'[p] = request[p]
      /\ request'[r] = sent /\ sent.pc = "sent"
  BY <1>1, <1>2
<1>4. PICK v \in 1..installed :
         q.show \in DOMAIN Merged(configs[v]) /\ q.entry = Merged(configs[v])[q.show]
  BY <1>2 DEF Resolved
<1>5. configs[v] \in Configs
  <2>1. Len(configs) = 2 /\ installed \in 0..Len(configs)
    BY ConfigsLength DEF TypeOK
  <2>2. v \in 1..2
    BY <2>1
  <2>3. QED BY <2>2
<1>6. /\ sent.show = q.show /\ sent.api = q.api /\ sent.exact = q.exact
      /\ sent.owner = q.entry.owner /\ sent.audited = q.entry.real /\ sent.model = Rewrite(q)
  OBVIOUS
<1>7. /\ q.api = "chat" /\ q.exact => Rewrite(q) = q.entry.real
      /\ q.api # "chat" /\ q.entry.real \notin DOMAIN q.entry.models =>
            Rewrite(q) = q.entry.real
  BY <1>4, <1>5, RewriteIsReal
<1> HIDE DEF sent, q
<1>8. SentAsAudited'
  BY <1>1, <1>2, <1>3, <1>4, <1>6, <1>7 DEF SentAsAudited
<1>9. Resolved'
  BY <1>1, <1>2, <1>3 DEF Resolved
<1>10. QED BY <1>1, <1>2, <1>3, <1>8, <1>9, RequestStep

\* Every step of NewRegistry and of the requests keeps the invariant.
LEMMA NextKeepsIInv == IInv /\ [Next]_vars => IInv'
<1> SUFFICES ASSUME IInv, [Next]_vars PROVE IInv'
  OBVIOUS
<1>1. CASE \E n \in Names : AddModel(n)
  BY <1>1, AddModelKeepsIInv
<1>2. CASE NextProvider
  BY <1>2, NextProviderKeepsIInv
<1>3. CASE Publish
  BY <1>3, PublishKeepsIInv
<1>4. CASE \E r \in Requests : Request(r)
  BY <1>4, ResolveKeepsIInv, ListModelsKeepsIInv, SendKeepsIInv DEF Request
<1>5. CASE UNCHANGED vars
  <2>1. Resolved' /\ SentAsAudited'
    BY <1>5 DEF vars, IInv, Resolved, SentAsAudited
  <2>2. QED BY <1>5, <2>1, RequestStep DEF vars, IInv, TypeOK
<1>6. QED BY <1>1, <1>2, <1>3, <1>4, <1>5 DEF Next

\* The invariant holds in every reachable state.
LEMMA SpecKeepsIInv == Spec => []IInv
<1>1. Init => IInv
  BY InitIInv
<1>2. IInv /\ [Next]_vars => IInv'
  BY NextKeepsIInv
<1>3. QED BY <1>1, <1>2, PTL DEF Spec

-----------------------------------------------------------------------------
(* The theorems. *)

\* The registry, the map under construction and the requests keep their types.
THEOREM RoutingTypeCorrect == Spec => []TypeOK
<1>1. IInv => TypeOK
  BY DEF IInv
<1>2. QED BY <1>1, SpecKeepsIInv, PTL

\* Requests only ever meet the registry of a whole configuration, in which each
\* show name belongs to the first provider of the file that offers it, in whatever
\* order Go visits the maps of NewRegistry.
THEOREM FirstProviderOwns == Spec => []FirstProviderWins
<1>1. IInv => FirstProviderWins
  BY DEF IInv
<1>2. QED BY <1>1, SpecKeepsIInv, PTL

\* A request goes out under the real name of its audit record, at the provider of
\* the configuration it was resolved in, whatever reload comes between Resolve and
\* ChatCompletion; the real names that are show names too are excepted.
THEOREM RequestsSentAsAudited == Spec => []SentAsAudited
<1>1. IInv => SentAsAudited
  BY DEF IInv
<1>2. QED BY <1>1, SpecKeepsIInv, PTL
=============================================================================
