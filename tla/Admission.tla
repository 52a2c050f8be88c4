------------------------------ MODULE Admission ------------------------------
(***************************************************************************)
(* Requests under hot reload.  Auth.Handler (internal/middleware) looks a  *)
(* request's key up in the key set of that moment, and some time later the *)
(* handler of internal/proxy resolves the request's model in the registry  *)
(* of that moment.  HotReload replaces the two one after the other.        *)
(*                                                                         *)
(* A client is known by the versions of the configuration that have its    *)
(* key, and those that have its model: an edit may add and remove either.  *)
(***************************************************************************)
EXTENDS HotReload

CONSTANTS Requests,          \* requests that pass through the proxy
          Clients            \* who sends them

ASSUME ClientsAssumption ==
    Clients \subseteq [key : SUBSET Versions, model : SUBSET Versions]

VARIABLE request             \* where each is, its client, and the version of the
                             \* keys that let it in

admissionVars == <<vars, request>>

NoClient == [key |-> {}, model |-> {}]

AdmissionTypeOK ==
    /\ TypeOK
    /\ request \in [Requests ->
          [pc     : {"idle", "admitted", "rejected", "resolved", "missing"},
           client : Clients \cup {NoClient},
           by     : Versions]]

AdmissionInit ==
    /\ Init
    /\ request = [r \in Requests |-> [pc |-> "idle", client |-> NoClient, by |-> 0]]

-----------------------------------------------------------------------------
\* Auth.Handler: 401 for a request without a Bearer token, or with a key that is
\* not in the set.
Authenticate(r, header, client) ==
    /\ request[r].pc = "idle"
    /\ \/ /\ header = "bearer" /\ keys \in client.key
          /\ request' = [request EXCEPT ![r] =
                            [pc |-> "admitted", client |-> client, by |-> keys]]
       \/ /\ header # "bearer" \/ keys \notin client.key
          /\ request' = [request EXCEPT ![r].pc = "rejected"]
    /\ UNCHANGED vars

\* Registry.Resolve: 400 for a model that is not in the registry.
Resolve(r) ==
    /\ request[r].pc = "admitted"
    /\ request' = [request EXCEPT ![r].pc =
          IF registry \in request[r].client.model THEN "resolved" ELSE "missing"]
    /\ UNCHANGED vars

Serve(r) ==
    \/ \E header \in {"none", "other", "bearer"}, client \in Clients :
          Authenticate(r, header, client)
    \/ Resolve(r)

AdmissionNext ==
    \/ Next /\ UNCHANGED request
    \/ \E r \in Requests : Serve(r)

AdmissionSpec == AdmissionInit /\ [][AdmissionNext]_admissionVars

\* The fairness of HotReload; a request waits for nothing but short locks.
FairAdmissionSpec ==
    /\ AdmissionSpec
    /\ Fairness
    /\ \A r \in Requests : WF_admissionVars(Resolve(r))

-----------------------------------------------------------------------------
(* Properties. *)

\* Whoever is let in with a key finds his model, unless the configuration that let
\* him in or a later one does not have it: the registry a request meets is never behind
\* the keys that let it in, although a reload may be between its two updates, or may
\* run between the two looks of the request, for the callback replaces the registry
\* first.  A key and a model that an edit removes together may still be met by that
\* order, the key accepted and the model gone.  Overlapping reloads are excepted.
KeyBringsItsModel ==
    ~overlapped =>
        \A r \in Requests : request[r].pc = "missing" =>
            \E v \in request[r].by..registry : v \notin request[r].client.model
=============================================================================
