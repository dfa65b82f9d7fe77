--------------------------- MODULE ConfirmedMutation ---------------------------
(***************************************************************************)
(* The confirmed controls of runtime/controls.py on top of the dispatcher. *)
(*                                                                         *)
(* A control captures a preflight snapshot, judges it, dispatches at most  *)
(* one mutation and polls snapshots until all its predicates match in one  *)
(* of them, the deadline passes, the generation changes or the runtime     *)
(* goes away.  All controls share _execute_confirmed_mutation(); they      *)
(* differ in who captures the preflight snapshot, in what is refused before *)
(* the dispatch and in their predicates:                                   *)
(*   set       set_runtime_parameter, set_node_*, set_runtime_metadata     *)
(*   clear     clear_runtime_metadata                                      *)
(*   assign    set_default_node, set_stream_target                         *)
(*   unassign  clear_default_node, clear_stream_target                     *)
(*   profile   select_device_profile                                       *)
(*   route     select_device_route                                         *)
(* The managed links have preflight rules of their own: see ManagedLinks.  *)
(*                                                                         *)
(* What a control is about is one target in the object manager, of which   *)
(* the code tells apart whether it is found, still has the same identity,  *)
(* is usable, fits the active profile, and has the requested value.        *)
(***************************************************************************)
EXTENDS MutationDispatch

CONSTANTS
    Targets   \* bound: the appearances of the target that are told apart

Target == [found : BOOLEAN, same : BOOLEAN, usable : BOOLEAN, fits : BOOLEAN,
           active : BOOLEAN]
Gone == [found |-> FALSE, same |-> FALSE, usable |-> FALSE, fits |-> FALSE,
         active |-> FALSE]

ASSUME ControlAssumption ==
    Targets \subseteq {t \in Target : t.found}

VARIABLES
    target,   \* external: the target as the object manager shows it
    at,       \* where each control is
    helper,   \* which helper was called
    request,  \* expected_generation and expected_sequence of its request
    snap,     \* the snapshot it has captured last
    confirmations,  \* what has been confirmed by the last poll
    outcome,  \* what it has returned or raised
    since,    \* ghost: what has happened since the caller's position
    met       \* ghost: what its mutation met when it was executed

controlVars == <<at, helper, request, snap, confirmations, outcome>>
ghosts == <<since, met>>
allVars == <<vars, target, controlVars, ghosts>>

Helpers == {"set", "clear", "assign", "unassign", "profile", "route"}

(* Those that leave the preflight snapshot to _execute_confirmed_mutation(), *)
(* where a RuntimeError becomes an outcome.                                  *)
CapturesInside == {"set", "clear"}

(* Since a position: nothing of the target has changed, something has, or    *)
(* the connection that was there has been lost.                              *)
Moves == {"unchanged", "changed", "lost"}

NoSnapshot == [generation |-> 0, sequence |-> 0, target |-> Gone]
NoRequest == [generation |-> 0, sequence |-> NoSequence]

CaptureSource(c) == <<"capture", c>>

(* _failure_outcome(), the confirmed MutationOutcome, and an exception.      *)
Failure(status, code, retryable) ==
    [status |-> status, code |-> code, retryable |-> retryable,
     confirmations |-> {}]
Partial(o, confirmed) == [o EXCEPT !.confirmations = confirmed]
Pending == Failure("none", "none", FALSE)
Expired == Failure("timed_out", "deadline_expired", FALSE)
Raised(error) == Failure("raised", error, FALSE)
Confirmed(confirmed) ==
    [status |-> "confirmed", code |-> "none", retryable |-> FALSE,
     confirmations |-> confirmed]

InitControl ==
    /\ InitDispatch
    /\ target = Gone
    /\ at = [c \in Callers |-> "idle"]
    /\ helper = [c \in Callers |-> "set"]
    /\ request = [c \in Callers |-> NoRequest]
    /\ snap = [c \in Callers |-> NoSnapshot]
    /\ confirmations = [c \in Callers |-> {}]
    /\ outcome = [c \in Callers |-> Pending]
    /\ since = [c \in Callers |-> "unchanged"]
    /\ met = [c \in Callers |-> "unchanged"]

-----------------------------------------------------------------------------
(* Predicates and confirmations.                                             *)

(* Volume and mute, value and type name, active and name: two facts that     *)
(* must hold together; or a metadata entry that must be gone.                *)
SetPredicates == {"active", "same"}
ClearPredicates == {"absent"}

Predicates(kind) ==
    IF kind \in {"clear", "unassign"} THEN ClearPredicates ELSE SetPredicates

(* ConfirmationPredicateValue.matches() on _snapshot_observation() *)
matches(predicate, t) ==
    CASE predicate = "absent" -> ~t.active
      [] predicate = "active" -> t.active
      [] predicate = "same" -> t.same

(* _confirmations_from_snapshot(): predicates with the sequence they were    *)
(* observed at.                                                              *)
confirmations_from_snapshot(kind, s) ==
    {p \in Predicates(kind) : matches(p, s.target)} \X {s.sequence}

Satisfied(kind, confirmed) ==
    {k[1] : k \in confirmed} = Predicates(kind)

-----------------------------------------------------------------------------
(* What a control makes of its preflight snapshot: a set of results, since   *)
(* the deadline may have passed at each look at the clock.  Pending stands   *)
(* for going on to the dispatch.                                             *)

(* Slip: a preflight of an earlier sequence is good enough. *)
ExecuteWithAnySequence(kind, q, s) ==
    LET confirmed == confirmations_from_snapshot(kind, s)
    IN IF s.generation # q.generation
       THEN {Failure("rejected", "stale_generation", FALSE)}
       ELSE IF Satisfied(kind, confirmed)
       THEN {Confirmed(confirmed)}
       ELSE {Partial(Expired, confirmed), Pending}

(* _execute_confirmed_mutation() from the snapshot to the dispatch *)
ExecuteWith(kind, q, s) ==
    LET confirmed == confirmations_from_snapshot(kind, s)
    IN IF s.generation # q.generation
       THEN {Failure("rejected", "stale_generation", FALSE)}
       ELSE IF q.sequence # NoSequence /\ s.sequence # q.sequence + 1
       THEN {Failure("rejected", "stale_sequence", FALSE)}
       ELSE IF Satisfied(kind, confirmed)
       THEN {Confirmed(confirmed)}
       ELSE {Partial(Expired, confirmed), Pending}

(* _preflight_is_stale() *)
preflight_is_stale(q, s) ==
    \/ s.generation # q.generation
    \/ q.sequence # NoSequence /\ s.sequence # q.sequence + 1

Refused(code) == {Failure("rejected", code, FALSE)}

(* The device profile or route the caller means, in the order of the checks. *)
Selected(kind, q, s, usable) ==
    LET satisfied == Satisfied(kind, confirmations_from_snapshot(kind, s))
        executed == ExecuteWith(kind, q, s) \cup {Expired}
    IN IF preflight_is_stale(q, s) THEN executed
       ELSE IF ~s.target.found THEN Refused("target_not_found")
       ELSE IF ~s.target.same THEN Refused("target_identity_changed")
       ELSE IF ~satisfied /\ ~usable THEN Refused("target_unavailable")
       ELSE executed

(* select_device_profile() after its capture *)
ProfileWith(q, s) == Selected("profile", q, s, s.target.usable)

(* select_device_route() after its capture: the route must also be one of    *)
(* the active profile.                                                       *)
RouteWith(q, s) == Selected("route", q, s, s.target.usable /\ s.target.fits)

(* set_default_node() and set_stream_target() after theirs *)
AssignWith(q, s) ==
    IF s.target.found /\ s.target.usable
    THEN ExecuteWith("assign", q, s) \cup {Expired}
    ELSE {Raised("ValueError")}

(* clear_default_node() and clear_stream_target() after theirs *)
UnassignWith(q, s) ==
    IF s.target.found
    THEN ExecuteWith("unassign", q, s) \cup {Expired}
    ELSE {Raised("ValueError")}

PreflightResults(kind, q, s) ==
    CASE kind \in CapturesInside -> ExecuteWith(kind, q, s)
      [] kind = "profile" -> ProfileWith(q, s)
      [] kind = "route" -> RouteWith(q, s)
      [] kind = "assign" -> AssignWith(q, s)
      [] kind = "unassign" -> UnassignWith(q, s)

-----------------------------------------------------------------------------
(* The control's own thread.                                                 *)

Goes(c, place) == at' = [at EXCEPT ![c] = place]

(* The control returns or raises. *)
Ends(c, o) ==
    /\ Goes(c, "done")
    /\ outcome' = [outcome EXCEPT ![c] = o]
    /\ snap' = [snap EXCEPT ![c] = NoSnapshot]
    /\ confirmations' = [confirmations EXCEPT ![c] = {}]
    /\ UNCHANGED <<helper, request>>

(* A call made from the position the caller has reached: with the current    *)
(* generation and either the current sequence or none.  MutationRequest      *)
(* .create() is where the deadline starts to run.                            *)
Begin(c) ==
    /\ init = "returned" /\ at[c] = "idle"
    /\ Goes(c, "preflight")
    /\ helper' \in {[helper EXCEPT ![c] = k] : k \in Helpers}
    /\ request' \in {[request EXCEPT ![c] = [generation |-> generation, sequence |-> s]] :
                        s \in {NoSequence, sequence}}
    /\ UNCHANGED <<vars, target, snap, confirmations, outcome, ghosts>>

(* A request that has expired before _execute_confirmed_mutation() captures. *)
ExpiredAtOnce(c) ==
    /\ at[c] = "preflight" /\ helper[c] \in CapturesInside
    /\ Ends(c, Expired)
    /\ UNCHANGED <<vars, target, ghosts>>

(* WPConnection_capture_runtime_payload() looks at ctx, om and core. *)
RuntimeReady == loop # "exited" /\ om # "none"

(* _runtime_unavailable_outcome(), or the RuntimeError of the helper itself *)
Unavailable(c, code) ==
    IF helper[c] \in CapturesInside \/ at[c] \in {"poll", "polling"}
    THEN Partial(Failure(IF code = "runtime_stopped" THEN "cancelled" ELSE "failed",
                         code, FALSE),
                 confirmations[c])
    ELSE Raised("RuntimeError")

PostCapture(c, place) ==
    /\ IF RuntimeReady
       THEN /\ sources' = Append(sources, CaptureSource(c))
            /\ Goes(c, place)
            /\ UNCHANGED <<helper, request, snap, confirmations, outcome>>
       ELSE Ends(c, Unavailable(c, "runtime_stopped")) /\ UNCHANGED sources
    /\ UNCHANGED <<lifeVars, generation, sequence, reconnectVars, stopVars,
                   mutationVars, target, ghosts>>

Preflight(c) == at[c] = "preflight" /\ PostCapture(c, "preflighting")

Decide(c) ==
    /\ at[c] = "preflighted"
    /\ \E o \in PreflightResults(helper[c], request[c], snap[c]) :
          IF o = Pending
          THEN /\ Goes(c, "dispatch")
               /\ UNCHANGED <<helper, request, snap, confirmations, outcome>>
          ELSE Ends(c, o)
    /\ UNCHANGED <<vars, target, ghosts>>

(* dispatch_runtime_mutation() with the preflight's sequence as boundary *)
Dispatch(c) ==
    /\ at[c] = "dispatch"
    /\ \/ DispatchStopped(c)
       \/ request[c].generation # generation /\ DispatchStale(c)
       \/ /\ request[c].generation = generation
          /\ DispatchEnqueue(c, IF request[c].sequence = NoSequence
                                THEN NoSequence ELSE snap[c].sequence)
    /\ Goes(c, "submitted")
    /\ snap' = [snap EXCEPT ![c] = NoSnapshot]
    /\ UNCHANGED <<target, helper, request, confirmations, outcome, ghosts>>

(* Slip: whatever was not stale may be retried. *)
RetryUnlessStale(code) ==
    Failure(IF code \in Cancelled THEN "cancelled"
            ELSE IF code = "native_rejected" THEN "failed" ELSE "rejected",
            code, code \notin Stale)

(* disposition() of the ticket and _ticket_failure_outcome() *)
ticket_failure_outcome(code) ==
    Failure(IF code \in Cancelled THEN "cancelled"
            ELSE IF code = "native_rejected" THEN "failed" ELSE "rejected",
            code, code = "generation_lost")

(* What execute_mutation() may answer besides READY. *)
NativeRefusals == {"target_not_found", "not_writable", "ownership_conflict",
                   "native_rejected"}

TicketReturns(c) ==
    /\ at[c] = "submitted" /\ call[c].state = "done"
    /\ IF call[c].result = Handled
       THEN \/ /\ Goes(c, "poll")
               /\ UNCHANGED <<helper, request, snap, confirmations, outcome>>
            \/ \E code \in NativeRefusals : Ends(c, ticket_failure_outcome(code))
       ELSE Ends(c, ticket_failure_outcome(call[c].result))
    /\ UNCHANGED <<vars, target, ghosts>>

(* Slip: the loop gives up only after a partial match. *)
PollExpiresOnceMatched(c) ==
    /\ at[c] = "poll"
    /\ confirmations[c] # {}
    /\ Ends(c, Partial(Failure("timed_out", "confirmation_timeout", FALSE),
                       confirmations[c]))
    /\ UNCHANGED <<vars, target, ghosts>>

(* Slip: the loop ends without an outcome. *)
PollFallsThrough(c) ==
    /\ at[c] = "poll"
    /\ Ends(c, Pending)
    /\ UNCHANGED <<vars, target, ghosts>>

(* The polling loop.  MaxSequence bounds how often it comes round before the *)
(* deadline.                                                                 *)
PollExpires(c) ==
    /\ at[c] = "poll"
    /\ Ends(c, Partial(Failure("timed_out", "confirmation_timeout", FALSE),
                       confirmations[c]))
    /\ UNCHANGED <<vars, target, ghosts>>

PollCaptures(c) ==
    /\ at[c] = "poll"
    /\ sequence < MaxSequence
    /\ PostCapture(c, "polling")

(* Slip: confirmations of earlier snapshots count. *)
PolledAccumulating(c) ==
    /\ at[c] = "polled"
    /\ LET confirmed == confirmations[c] \cup
                          confirmations_from_snapshot(helper[c], snap[c])
       IN IF snap[c].generation # request[c].generation
          THEN Ends(c, Partial(Failure("cancelled", "generation_lost", FALSE),
                               confirmations[c]))
          ELSE IF Satisfied(helper[c], confirmed)
          THEN Ends(c, Confirmed(confirmed))
          ELSE /\ Goes(c, "poll")
               /\ snap' = [snap EXCEPT ![c] = NoSnapshot]
               /\ confirmations' = [confirmations EXCEPT ![c] = confirmed]
               /\ UNCHANGED <<helper, request, outcome>>
    /\ UNCHANGED <<vars, target, ghosts>>

(* One turn of the loop with a snapshot at hand, before sleep(). *)
Polled(c) ==
    /\ at[c] = "polled"
    /\ LET confirmed == confirmations_from_snapshot(helper[c], snap[c])
       IN IF snap[c].generation # request[c].generation
          THEN Ends(c, Partial(Failure("cancelled", "generation_lost", FALSE),
                               confirmations[c]))
          ELSE IF Satisfied(helper[c], confirmed)
          THEN Ends(c, Confirmed(confirmed))
          ELSE /\ Goes(c, "poll")
               /\ snap' = [snap EXCEPT ![c] = NoSnapshot]
               /\ confirmations' = [confirmations EXCEPT ![c] = confirmed]
               /\ UNCHANGED <<helper, request, outcome>>
    /\ UNCHANGED <<vars, target, ghosts>>

-----------------------------------------------------------------------------
(* The WirePlumber thread.                                                   *)

(* do_capture_runtime_on_wp_thread(): without an object manager the snapshot *)
(* is empty.                                                                 *)
Capture(c) ==
    /\ handler = "idle"
    /\ NextSource(CaptureSource(c))
    /\ \/ /\ sequence' = sequence + 1
          /\ snap' = [snap EXCEPT ![c] =
                        [generation |-> generation, sequence |-> sequence + 1,
                         target |-> target]]
          /\ Goes(c, IF at[c] = "preflighting" THEN "preflighted" ELSE "polled")
          /\ UNCHANGED <<helper, request, confirmations, outcome>>
       \/ UNCHANGED sequence /\ Ends(c, Unavailable(c, "internal_error"))
    /\ UNCHANGED <<lifeVars, generation, reconnectVars, stopVars, mutationVars,
                   target, ghosts>>

(* The ghost that follows a control from its call on. *)
Moved(c, how) ==
    IF at[c] \in {"idle", "done"} \/ since[c] = "lost" THEN since[c] ELSE how

(* The target changes: by the mutation, by another client, by the daemon.    *)
(* The callback publishes an event unless the connection is stopping.        *)
TargetChanged ==
    /\ handler = "idle" /\ loop = "running" /\ om # "none"
    /\ sequence < MaxSequence
    /\ target' \in (Targets \cup {Gone}) \ {target}
    /\ sequence' = IF started /\ ~stop_requested THEN sequence + 1 ELSE sequence
    /\ since' = [c \in Callers |-> Moved(c, "changed")]
    /\ UNCHANGED <<lifeVars, generation, sources, reconnectVars, stopVars,
                   mutationVars, controlVars, met>>

(* The handler of the dispatcher, with what its mutation meets. *)
HandlerStep ==
    /\ Handler
    /\ met' = IF handler = "checked" /\ verdict = "execute"
              THEN [met EXCEPT ![current] = since[current]] ELSE met
    /\ UNCHANGED <<target, controlVars, since>>

(* Everything else the connection and the dispatcher do: objects go with the *)
(* object manager, and nothing is deallocated under a running control.       *)
ConnectionStep ==
    /\ \/ PlainCallback \/ DispatchOmInstalled \/ DispatchCoreLost \/ DispatchExitThread
       \/ DispatchStopCancel \/ PlainThread
       \/ DispatchDealloc /\ \A c \in Callers : at[c] \in {"idle", "done"}
       \/ \E r \in Reconnectors : DispatchRunReconnect(r) \/ DispatchReconnectCancel(r)
    /\ target' = IF om' = "none" THEN Gone ELSE target
    /\ since' = IF om # "none" /\ om' = "none"
                THEN [c \in Callers |-> Moved(c, "lost")] ELSE since
    /\ UNCHANGED <<controlVars, met>>

-----------------------------------------------------------------------------
ControlStep(c) ==
    \/ Preflight(c) \/ ExpiredAtOnce(c) \/ Decide(c) \/ Dispatch(c) \/ TicketReturns(c)
    \/ PollExpires(c) \/ PollCaptures(c) \/ Polled(c)

NextControl ==
    \/ ConnectionStep \/ HandlerStep \/ TargetChanged
    \/ \E c \in Callers : Begin(c) \/ ControlStep(c) \/ Capture(c)

ControlSpec == InitControl /\ [][NextControl]_allVars

(* A thread inside a control goes on, and its deadline passes; the           *)
(* WirePlumber thread runs its sources.                                      *)
ControlFairness ==
    /\ \A c \in Callers : WF_allVars(ControlStep(c))
    /\ WF_allVars(HandlerStep \/ (\E c \in Callers : Capture(c))
                    \/ (RunSource /\ ConnectionStep))

ControlFairSpec == ControlSpec /\ ControlFairness
-----------------------------------------------------------------------------
Codes == {"none", "deadline_expired", "confirmation_timeout", "internal_error",
          "target_identity_changed", "target_unavailable", "RuntimeError", "ValueError"}
            \cup Cancelled \cup Stale \cup NativeRefusals

ControlTypeOK ==
    /\ target \in Targets \cup {Gone}
    /\ om = "none" => target = Gone
    /\ at \in [Callers -> {"idle", "preflight", "preflighting", "preflighted", "dispatch",
                           "submitted", "poll", "polling", "polled", "done"}]
    /\ helper \in [Callers -> Helpers]
    /\ request \in [Callers -> [generation : Nat, sequence : Nat \cup {NoSequence}]]
    /\ snap \in [Callers -> [generation : Nat, sequence : Nat, target : Target]]
    /\ outcome \in [Callers ->
          [status : {"none", "confirmed", "rejected", "failed", "timed_out", "cancelled",
                     "raised"},
           code : Codes, retryable : BOOLEAN,
           confirmations : SUBSET ({"absent", "active", "same"} \X Nat)]]
    /\ \A c \in Callers : at[c] = "done" <=> outcome[c].status # "none"
    /\ since \in [Callers -> Moves] /\ met \in [Callers -> Moves]

(* An outcome tells whether the mutation has reached PipeWire: what may be   *)
(* retried, was stale or missed its deadline before the dispatch has not     *)
(* been executed, an accepted mutation that was not confirmed in time has.   *)
OutcomeTellsExecution ==
    \A c \in Callers :
       /\ outcome[c].retryable \/ outcome[c].code \in Stale \cup {"deadline_expired"}
             => call[c].executed = 0
       /\ outcome[c].code = "confirmation_timeout" => call[c].executed = 1

(* Success is one coherent snapshot in which every predicate matches, never  *)
(* matches collected from several of them.                                   *)
ConfirmedTogether ==
    \A c \in Callers :
       /\ \A k, l \in outcome[c].confirmations : k[2] = l[2]
       /\ outcome[c].status = "confirmed" => Satisfied(helper[c], outcome[c].confirmations)

(* A request with an expected sequence is executed only on what its caller   *)
(* had seen: from the caller's position to the preflight snapshot and from   *)
(* there to the handler neither the target has changed nor the connection    *)
(* has been lost.                                                            *)
GuardedWriteIsFresh ==
    \A c \in Callers : request[c].sequence # NoSequence => met[c] = "unchanged"

(* Every control comes back, by its deadline at the latest, unless the       *)
(* connection is being stopped.                                              *)
ControlsReturn ==
    \A c \in Callers : (at[c] = "preflight") ~> (at[c] = "done" \/ stop_requested)
=============================================================================
