----------------------------- MODULE ManagedLinks -----------------------------
(***************************************************************************)
(* The links an application creates and removes by a name of its own:      *)
(* create_managed_link() and remove_managed_link() of runtime/controls.py, *)
(* the handlers and the ledger of mutation_dispatch.c, and what the        *)
(* object manager, the capture and PipeWire do to them.                    *)
(*                                                                         *)
(* An identity is a pair of owner and desired_id; a topology stands for    *)
(* the four endpoint ids of a link.  The ledger maps an identity to the    *)
(* topology that it asked for on this connection; whose link a link is, is *)
(* looked up in it by topology alone, in the order of a hash table.        *)
(*                                                                         *)
(* The queue between a caller and the handler is MutationDispatch; here a  *)
(* dispatched call is executed, cancelled or refused in one step.          *)
(***************************************************************************)
EXTENDS Naturals, FiniteSets

CONSTANTS
    Identities, Topologies, LinkIds,
    Callers,          \* bound: the calls that are made, each in a thread of its own
    None,             \* no identity, no topology, the link id 0
    MaxGenerations    \* bound: object managers that get installed

ASSUME NoneAssumption == None \notin Identities \cup Topologies \cup LinkIds

VARIABLES
    om,          \* the object manager: "none", "new" (not installed), "installed"
    generation,
    links,       \* external: the links the object manager shows
    pending,     \* external: link-factory requests that PipeWire has not answered
    ledger,      \* managed_links
    doomed,      \* links whose destruction has been requested
    call,        \* the call of each caller
    requested    \* ghost: the creations sent to PipeWire on this connection

vars == <<om, generation, links, pending, ledger, doomed, call, requested>>
world == <<om, generation, links, pending>>

(* maker is the identity that asked for the link (None for other clients),   *)
(* claim the ownership properties that the link itself shows, whoever made   *)
(* it, and known the identities that had its topology in the ledger when it  *)
(* appeared (a ghost).                                                       *)
Link == [topology : Topologies, maker : Identities \cup {None},
         claim : Identities \cup {None}, known : SUBSET Identities]
NoLink == [topology |-> None, maker |-> None, claim |-> None, known |-> {}]

visible == {l \in LinkIds : links[l].topology # None}

(* MutationStatus; the failure code is a detail of it.                       *)
Statuses == {"confirmed", "rejected", "failed", "cancelled", "timed_out"}

Call == [at : {"idle", "dispatching", "polling", "returned"},
         op : {"create", "remove"}, identity : Identities \cup {None},
         topology : Topologies \cup {None}, link : LinkIds \cup {None},
         generation : Nat, outcome : Statuses \cup {"none"}]
NoCall == [at |-> "idle", op |-> "create", identity |-> None, topology |-> None,
           link |-> None, generation |-> 0, outcome |-> "none"]

(* Of a call that has returned there is the outcome and what it was about.   *)
Returned(k, outcome) ==
    [k EXCEPT !.at = "returned", !.link = None, !.generation = 0, !.outcome = outcome]

Init ==
    /\ om = "none" /\ generation = 0
    /\ links = [l \in LinkIds |-> NoLink]
    /\ pending = {} /\ doomed = {} /\ requested = {}
    /\ ledger = [i \in Identities |-> None]
    /\ call = [c \in Callers |-> NoCall]

-----------------------------------------------------------------------------
(* The ledger and what it makes of a link.                                   *)

Holders(t) == {i \in Identities : ledger[i] = t}

(* lookup_endpoints(): the first entry in the order of the hash table, so    *)
(* any of them.  One lookup per topology, for one pass over the links.       *)
Lookups ==
    {w \in [Topologies -> Identities \cup {None}] :
        \A t \in Topologies :
           IF Holders(t) = {} THEN w[t] = None ELSE w[t] \in Holders(t)}

(* What a snapshot shows: the ledger's answer, else the link's properties.   *)
owner(l, w) ==
    IF w[links[l].topology] # None THEN w[links[l].topology] ELSE links[l].claim

matches(i, w) == {l \in visible : owner(l, w) = i}
same_topology(t) == {l \in visible : links[l].topology = t}

(* _snapshot_observation(): the only match, or None if there are two.        *)
Observed(i, w) == IF Cardinality(matches(i, w)) = 1 THEN matches(i, w) ELSE {}

(* EQUALS for the four endpoint ids; ABSENT.                                 *)
Satisfied(op, i, t, w) ==
    IF op = "create" THEN \E l \in Observed(i, w) : links[l].topology = t
                     ELSE Observed(i, w) = {}

-----------------------------------------------------------------------------
(* A call up to its dispatch: what the preflight snapshot makes of it.  The  *)
(* outcome "none" stands for going on to the dispatch.  The deadline may be  *)
(* over by then.                                                             *)

Stale == {"rejected", "timed_out"}

(* Slip: a topology that is there already is as good as the link asked for.  *)
AdoptingPreflight(i, t, w) ==
    LET mine == matches(i, w)
    IN IF same_topology(t) # {} THEN {"confirmed", "timed_out"}
       ELSE IF mine # {} THEN {"rejected"}
       ELSE {"none", "timed_out"}

(* create_managed_link() once the endpoints are in order *)
CreatePreflight(i, t, w) ==
    LET mine == matches(i, w)
    IN IF Satisfied("create", i, t, w) THEN {"confirmed", "timed_out"}
       ELSE IF mine # {} \/ same_topology(t) # {} THEN {"rejected"}
       ELSE {"none", "timed_out"}

(* remove_managed_link() *)
RemovePreflight(i, w) ==
    IF Cardinality(matches(i, w)) > 1 THEN {"rejected"}
    ELSE IF matches(i, w) = {} THEN {"confirmed", "timed_out"}
    ELSE {"none", "timed_out"}

Answer(c, k, results) ==
    \E result \in results :
       call' = [call EXCEPT ![c] = IF result = "none"
                                   THEN [k EXCEPT !.at = "dispatching"]
                                   ELSE Returned(k, result)]

(* _validate_link_endpoints(): the nodes and ports of the snapshot may be    *)
(* missing (target_not_found) or changed (target_identity_changed).          *)
EndpointFailures == {"rejected"}

Create(c, i, t) ==
    /\ call[c].at = "idle"
    /\ \E g \in 1..generation, w \in Lookups :
          Answer(c, [NoCall EXCEPT !.op = "create", !.identity = i, !.topology = t,
                                   !.generation = g],
                 IF g # generation THEN Stale
                 ELSE EndpointFailures \cup CreatePreflight(i, t, w))
    /\ UNCHANGED <<world, ledger, doomed, requested>>

Remove(c, i) ==
    /\ call[c].at = "idle"
    /\ \E g \in 1..generation, w \in Lookups :
          \E l \in IF Observed(i, w) = {} THEN {None} ELSE Observed(i, w) :
             Answer(c, [NoCall EXCEPT !.op = "remove", !.identity = i, !.link = l,
                                      !.generation = g],
                    IF g # generation THEN Stale
                    ELSE RemovePreflight(i, w))
    /\ UNCHANGED <<world, ledger, doomed, requested>>

-----------------------------------------------------------------------------
(* The handler on the WirePlumber thread.                                    *)

Complete(c, result) ==
    call' = [call EXCEPT ![c] = IF result = "ready" THEN [@ EXCEPT !.at = "polling"]
                                                   ELSE Returned(@, result)]

(* The preconditions of dispatch_next_mutation_on_wp_thread(): a call for    *)
(* another generation is generation_lost or stale_generation, as it was      *)
(* queued before or after the change.                                        *)
Cancelled(c) ==
    \/ om = "none" /\ Complete(c, "cancelled")
    \/ /\ om # "none" /\ generation # call[c].generation
       /\ \E r \in {"cancelled", "rejected"} : Complete(c, r)

HandlerRefuses(c) ==
    /\ call[c].at = "dispatching"
    /\ Cancelled(c)
    /\ UNCHANGED <<world, ledger, doomed, requested>>

Runs(c, op) ==
    /\ call[c].at = "dispatching" /\ call[c].op = op
    /\ om # "none" /\ generation = call[c].generation

(* managed_link_preflight(): a link that has one of topology and identity    *)
(* without the other is in the way.                                          *)
InTheWay(i, t, w) ==
    {l \in visible : (links[l].topology = t) # (w[links[l].topology] = i)}

(* An endpoint is gone, a link is in the way, or no request can be made.     *)
CreateRefused(c) ==
    /\ Runs(c, "create")
    /\ \/ \E r \in {"rejected", "failed"} : Complete(c, r)
       \/ /\ \E w \in Lookups : InTheWay(call[c].identity, call[c].topology, w) # {}
          /\ Complete(c, "rejected")
    /\ UNCHANGED <<world, ledger, doomed, requested>>

CreateExists(c) ==
    /\ Runs(c, "create")
    /\ same_topology(call[c].topology) # {}
    /\ \E w \in Lookups : InTheWay(call[c].identity, call[c].topology, w) = {}
    /\ Complete(c, "ready")
    /\ UNCHANGED <<world, ledger, doomed, requested>>

(* managed_link_store() replaces what the identity had asked for before.     *)
Store(c) ==
    LET i == call[c].identity
        t == call[c].topology
    IN /\ ledger' = [ledger EXCEPT ![i] = t]
       /\ pending' = pending \cup {<<i, t>>}
       /\ requested' = requested \cup {<<i, t>>}
       /\ Complete(c, "ready")
       /\ UNCHANGED <<om, generation, links, doomed>>

(* Slip: nothing is looked up again before the link is made. *)
CreateUnchecked(c) == Runs(c, "create") /\ Store(c)

CreateRequests(c) ==
    /\ Runs(c, "create")
    /\ same_topology(call[c].topology) = {}
    /\ \E w \in Lookups : InTheWay(call[c].identity, call[c].topology, w) = {}
    /\ Store(c)

RemoveFindsNothing(c) ==
    /\ Runs(c, "remove")
    /\ call[c].link \notin visible
    /\ Complete(c, "ready")
    /\ UNCHANGED <<world, ledger, doomed, requested>>

(* The link with that id is, or is not, what the ledger has for the identity.*)
RemoveRefused(c) ==
    /\ Runs(c, "remove")
    /\ call[c].link \in visible
    /\ ledger[call[c].identity] # links[call[c].link].topology
    /\ Complete(c, "rejected")
    /\ UNCHANGED <<world, ledger, doomed, requested>>

(* Slip: the id that the caller's snapshot showed is trusted. *)
RemoveById(c) ==
    /\ Runs(c, "remove")
    /\ call[c].link \in visible
    /\ doomed' = doomed \cup {call[c].link}
    /\ Complete(c, "ready")
    /\ UNCHANGED <<world, ledger, requested>>

RemoveRequests(c) ==
    /\ Runs(c, "remove")
    /\ call[c].link \in visible
    /\ ledger[call[c].identity] = links[call[c].link].topology
    /\ doomed' = doomed \cup {call[c].link}
    /\ Complete(c, "ready")
    /\ UNCHANGED <<world, ledger, requested>>

-----------------------------------------------------------------------------
(* Polling.  A capture that was posted before the object manager went shows  *)
(* no links at all; one posted later fails, and so may any other             *)
(* (internal_error).                                                         *)

PollReturns(c, outcome) ==
    /\ call[c].at = "polling"
    /\ call' = [call EXCEPT ![c] = Returned(@, outcome)]
    /\ UNCHANGED <<world, ledger, doomed, requested>>

Poll(c) ==
    \/ generation # call[c].generation /\ PollReturns(c, "cancelled")
    \/ /\ generation = call[c].generation
       /\ \E w \in Lookups :
             Satisfied(call[c].op, call[c].identity, call[c].topology, w)
       /\ PollReturns(c, "confirmed")
    \/ om = "none" /\ PollReturns(c, "cancelled")
    \/ \E r \in {"timed_out", "failed"} : PollReturns(c, r)

-----------------------------------------------------------------------------
(* PipeWire and the object manager.                                          *)

(* PipeWire has one link between two ports, and gives it an id that is free. *)
Appears(l, t, who, claim) ==
    /\ om # "none"
    /\ l \notin visible
    /\ same_topology(t) = {}
    /\ links' = [links EXCEPT ![l] = [topology |-> t, maker |-> who, claim |-> claim,
                                      known |-> Holders(t)]]
    /\ UNCHANGED <<om, generation, ledger, doomed, call, requested>>

(* Whether a link shows its ownership properties depends on the version.     *)
LinkAccepted(l) ==
    \E p \in pending, exposed \in BOOLEAN :
       /\ Appears(l, p[2], p[1], IF exposed THEN p[1] ELSE None)
       /\ pending' = pending \ {p}

(* on_managed_link_activated() logs the error and leaves the ledger alone.   *)
LinkRefused ==
    /\ \E p \in pending : pending' = pending \ {p}
    /\ UNCHANGED <<om, generation, links, ledger, doomed, call, requested>>

(* The link of another client, which may show the ownership properties of    *)
(* any identity: nothing checks who set them.                                *)
OtherLinkAppears(l) ==
    /\ \E t \in Topologies, claim \in Identities \cup {None} :
          Appears(l, t, None, claim)
    /\ UNCHANGED pending

(* Slip: a destruction that was requested outlives its link, and meets the   *)
(* next link that is given the id.                                           *)
RemovedStillDoomed(l) ==
    /\ l \in visible
    /\ links' = [links EXCEPT ![l] = NoLink]
    /\ UNCHANGED <<om, generation, pending, ledger, doomed, call, requested>>

(* forget_endpoints() drops the first entry it finds for the topology.       *)
LinkRemoved(l) ==
    /\ l \in visible
    /\ links' = [links EXCEPT ![l] = NoLink]
    /\ doomed' = doomed \ {l}
    /\ IF Holders(links[l].topology) = {} THEN UNCHANGED ledger
       ELSE \E i \in Holders(links[l].topology) : ledger' = [ledger EXCEPT ![i] = None]
    /\ UNCHANGED <<om, generation, pending, call, requested>>

(* The links of a connection die with it.  Calls that are queued are         *)
(* cancelled; those that have not been submitted yet go on.                  *)
Disconnect(cancelled) ==
    /\ om # "none" /\ om' = "none"
    /\ links' = [l \in LinkIds |-> NoLink]
    /\ pending' = {} /\ doomed' = {} /\ requested' = {}
    /\ call' = [c \in Callers |->
                   IF c \in cancelled
                   THEN Returned(call[c], "cancelled")
                   ELSE call[c]]
    /\ UNCHANGED generation

(* Slip: on_core_disconnected() keeps the ledger. *)
DisconnectKeepingLedger ==
    /\ \E cancelled \in SUBSET {c \in Callers : call[c].at = "dispatching"} :
          Disconnect(cancelled)
    /\ UNCHANGED ledger

CoreLost ==
    /\ \E cancelled \in SUBSET {c \in Callers : call[c].at = "dispatching"} :
          Disconnect(cancelled)
    /\ ledger' = [i \in Identities |-> None]

InstallOm ==
    /\ om = "none" /\ om' = "new"
    /\ UNCHANGED <<generation, links, pending, ledger, doomed, call, requested>>

OmInstalled ==
    /\ om = "new" /\ om' = "installed"
    /\ generation < MaxGenerations
    /\ generation' = generation + 1
    /\ UNCHANGED <<links, pending, ledger, doomed, call, requested>>

-----------------------------------------------------------------------------
Handler(c) ==
    \/ HandlerRefuses(c)
    \/ CreateRefused(c) \/ CreateExists(c) \/ CreateRequests(c)
    \/ RemoveFindsNothing(c) \/ RemoveRefused(c) \/ RemoveRequests(c)

Next ==
    \/ \E c \in Callers :
          \/ \E i \in Identities : Remove(c, i) \/ \E t \in Topologies : Create(c, i, t)
          \/ Handler(c)
          \/ Poll(c)
    \/ \E l \in LinkIds : LinkAccepted(l) \/ OtherLinkAppears(l) \/ LinkRemoved(l)
    \/ LinkRefused \/ CoreLost \/ InstallOm \/ OmInstalled

Spec == Init /\ [][Next]_vars

-----------------------------------------------------------------------------
(* Types, and only links that are still there are to be destroyed.           *)
LinksTypeOK ==
    /\ om \in {"none", "new", "installed"}
    /\ generation \in Nat
    /\ links \in [LinkIds -> Link \cup {NoLink}]
    /\ pending \subseteq Identities \X Topologies
    /\ ledger \in [Identities -> Topologies \cup {None}]
    /\ doomed \subseteq visible
    /\ call \in [Callers -> Call]
    /\ requested \subseteq Identities \X Topologies

(* managed_links outlives nothing: what it holds was asked for on the        *)
(* connection that is there now, so that a link found after a reconnect is   *)
(* not taken for one of ours, whatever calls were under way.                 *)
LedgerOfThisConnection ==
    /\ \A i \in Identities : ledger[i] # None => <<i, ledger[i]>> \in requested
    /\ om = "none" => \A i \in Identities : ledger[i] = None

(* execute_create_link() never adopts: an identity that has the topology of  *)
(* a visible link in the ledger had it there before the link appeared, also  *)
(* when the link appeared between the caller's snapshot and the handler.     *)
NeverAdoptsVisible ==
    \A l \in visible : Holders(links[l].topology) \subseteq links[l].known

(* remove_managed_link() destroys a link only for an identity that had asked *)
(* for it before it appeared, also when the id has been reused meanwhile.    *)
Destroyed(l) == l \in doomed' \ doomed
RemovesOnlyClaimed ==
    [][\A l \in LinkIds : Destroyed(l) =>
          \E c \in Callers : /\ call[c].at = "dispatching" /\ call'[c].at = "polling"
                             /\ call[c].op = "remove" /\ call[c].link = l
                             /\ call[c].identity \in links[l].known]_vars

(* A creation is confirmed, at once or by polling, only for a link of the    *)
(* topology that shows the identity in its own properties (whoever made it:  *)
(* create_managed_link() is content with it) or that appeared after this     *)
(* very identity had asked for the topology on this connection.              *)
Confirms(c) ==
    /\ call'[c] # call[c]
    /\ call'[c].op = "create" /\ call'[c].outcome = "confirmed"
Answers(i, t) ==
    \E l \in same_topology(t) :
       links[l].claim = i \/ (i \in links[l].known /\ <<i, t>> \in requested)
ConfirmedIsOwned ==
    [][\A c \in Callers :
          Confirms(c) => Answers(call'[c].identity, call'[c].topology)]_vars

(* What the contract says of the ledger: ownership is never inferred from    *)
(* topology alone.  Once PipeWire has answered an identity's request, a link *)
(* that the ledger attributes to it is one that it made.                     *)
OwnershipNotFromTopology ==
    \A l \in visible : \A i \in Holders(links[l].topology) :
       <<i, links[l].topology>> \in pending \/ links[l].maker = i
=============================================================================
