---------------------------- MODULE MutationDispatch ---------------------------
(***************************************************************************)
(* The serialized dispatcher of native/wp_connection/mutation_dispatch.c,  *)
(* on top of the connection's life.                                        *)
(*                                                                         *)
(* A Python thread that submits a mutation puts a call on a FIFO under     *)
(* self->lock and self->mutation_lock and waits for it to complete.  One   *)
(* idle source at a time runs the head of the FIFO on the WirePlumber      *)
(* thread.  reconnect(), stop() and a disconnect complete whatever is      *)
(* still queued.  What a mutation does to PipeWire is its result only.     *)
(***************************************************************************)
EXTENDS WPConnection

CONSTANTS
    Callers   \* threads that submit a mutation each

ASSUME DispatchAssumption ==
    IsFiniteSet(Callers)

VARIABLES
    mutation_queue,  \* conn->mutation_queue, the callers whose calls are queued
    scheduled,       \* conn->mutation_source_scheduled
    order,           \* conn->mutation_dispatch_order
    call,            \* the MutationDispatchCall of each caller
    handler,         \* the WirePlumber thread inside dispatch_next_mutation...
    current,         \* ... and the call it has popped
    verdict,         \* ... and what it has read under conn->lock
    log,             \* ghost: executed mutations, oldest first
    assigned         \* ghost: <<generation, dispatch order>> given out

handlerVars == <<handler, current, verdict>>
queueVars == <<mutation_queue, scheduled, order, call>>
ghostVars == <<log, assigned>>
mutationVars == <<queueVars, handlerVars, ghostVars>>
vars == <<connVars, mutationVars>>

DispatchSource == <<"dispatch", "dispatch">>
NoSequence == -1
NoCaller == "none"

(* What execute_mutation() reports, accepted or refused: the mutation was   *)
(* handed to WirePlumber.                                                   *)
Handled == "handled"
Cancelled == {"generation_lost", "runtime_stopped"}
Stale == {"stale_generation", "stale_sequence"}

(* A completed call as its caller gets it: the result, and (a ghost) how    *)
(* often the mutation was executed.                                         *)
Ticket(code, times) ==
    [state |-> "done", expected |-> 0, expected_sequence |-> NoSequence,
     enqueued |-> 0, order |-> 0, result |-> code, executed |-> times]

InitDispatch ==
    /\ Init
    /\ mutation_queue = <<>> /\ scheduled = FALSE /\ order = 0
    /\ call = [c \in Callers |-> [Ticket("none", 0) EXCEPT !.state = "idle"]]
    /\ handler = "idle" /\ current = NoCaller /\ verdict = "none"
    /\ log = <<>> /\ assigned = {}

-----------------------------------------------------------------------------
(* Slip: a cancellation also completes the call the handler is working on.   *)
CancelPoppedToo(code) ==
    /\ call' = [c \in Callers |->
                  IF call[c].state \in {"queued", "popped"}
                  THEN Ticket(code, call[c].executed)
                  ELSE call[c]]
    /\ mutation_queue' = <<>>
    /\ UNCHANGED <<scheduled, order>>

(* schedule_dispatch_locked(), given the queue and the flag it finds *)
schedule_dispatch_locked(queue, flag) ==
    IF flag \/ queue = <<>>
    THEN scheduled' = flag /\ UNCHANGED sources
    ELSE scheduled' = TRUE /\ sources' = Append(sources, DispatchSource)

(* complete_call(): the first completion counts. *)
complete_call(k, code, times) ==
    IF k.state = "done" THEN [k EXCEPT !.executed = times] ELSE Ticket(code, times)

(* wp_connection_mutations_cancel_pending() *)
cancel_pending(code) ==
    /\ call' = [c \in Callers |->
                  IF \E i \in 1..Len(mutation_queue) : mutation_queue[i] = c
                  THEN complete_call(call[c], code, call[c].executed)
                  ELSE call[c]]
    /\ mutation_queue' = <<>>
    /\ UNCHANGED <<scheduled, order>>

(* on_core_disconnected() cancels unless not started or stopping. *)
CancelOnDisconnect ==
    IF started /\ ~stop_requested
    THEN cancel_pending("generation_lost")
    ELSE UNCHANGED queueVars

-----------------------------------------------------------------------------
(* WPConnection_dispatch_runtime_mutation_payload() by c.                    *)

CanSubmit(c) ==
    /\ init = "returned"
    /\ call[c].state = "idle"

Accepting == ~stop_requested /\ stopper # "joined" /\ loop # "exited"

DispatchStopped(c) ==
    /\ CanSubmit(c)
    /\ ~Accepting
    /\ call' = [call EXCEPT ![c] = Ticket("runtime_stopped", 0)]
    /\ UNCHANGED <<connVars, mutation_queue, scheduled, order, handlerVars, ghostVars>>

(* The request expects a generation other than the current one. *)
DispatchStale(c) ==
    /\ CanSubmit(c)
    /\ Accepting
    /\ call' = [call EXCEPT ![c] = Ticket("stale_generation", 0)]
    /\ UNCHANGED <<connVars, mutation_queue, scheduled, order, handlerVars, ghostVars>>

(* Slip: the newest call goes to the head of the queue. *)
EnqueueFirst(c, s) ==
    /\ CanSubmit(c)
    /\ Accepting
    /\ order' = order + 1
    /\ call' = [call EXCEPT ![c] =
                  [state |-> "queued", expected |-> generation, expected_sequence |-> s,
                   enqueued |-> generation, order |-> order + 1,
                   result |-> "none", executed |-> 0]]
    /\ mutation_queue' = <<c>> \o mutation_queue
    /\ schedule_dispatch_locked(mutation_queue', scheduled)
    /\ assigned' = assigned \cup {<<generation, order + 1>>}
    /\ UNCHANGED <<lifeVars, generation, sequence, reconnectVars, stopVars,
                   handlerVars, log>>

(* The request expects the current generation and, unless s is NoSequence,   *)
(* sequence s.                                                               *)
DispatchEnqueue(c, s) ==
    /\ CanSubmit(c)
    /\ Accepting
    /\ order' = order + 1
    /\ call' = [call EXCEPT ![c] =
                  [state |-> "queued", expected |-> generation, expected_sequence |-> s,
                   enqueued |-> generation, order |-> order + 1,
                   result |-> "none", executed |-> 0]]
    /\ mutation_queue' = Append(mutation_queue, c)
    /\ schedule_dispatch_locked(mutation_queue', scheduled)
    /\ assigned' = assigned \cup {<<generation, order + 1>>}
    /\ UNCHANGED <<lifeVars, generation, sequence, reconnectVars, stopVars,
                   handlerVars, log>>

-----------------------------------------------------------------------------
(* dispatch_next_mutation_on_wp_thread(): its four critical sections.        *)

DispatchPop ==
    /\ handler = "idle"
    /\ NextSource(DispatchSource)
    /\ IF mutation_queue = <<>>
       THEN /\ scheduled' = FALSE
            /\ UNCHANGED <<mutation_queue, call, handlerVars>>
       ELSE /\ current' = Head(mutation_queue)
            /\ mutation_queue' = Tail(mutation_queue)
            /\ call' = [call EXCEPT ![Head(mutation_queue)].state = "popped"]
            /\ handler' = "popped"
            /\ UNCHANGED <<scheduled, verdict>>
    /\ UNCHANGED <<lifeVars, generation, sequence, reconnectVars, stopVars, order,
                   ghostVars>>

(* Slip: the generation was compared at submission and is not looked at again. *)
VerdictTrustingSubmission(k) ==
    IF stop_requested \/ om = "none" THEN "runtime_stopped"
    ELSE IF k.expected_sequence # NoSequence /\ sequence # k.expected_sequence
         THEN "stale_sequence"
    ELSE "execute"

(* The preconditions, in the order of the code.  (conn->core is gone only    *)
(* when the thread has exited.)                                              *)
Verdict(k) ==
    IF stop_requested \/ om = "none" THEN "runtime_stopped"
    ELSE IF generation # k.enqueued THEN "generation_lost"
    ELSE IF generation # k.expected THEN "stale_generation"
    ELSE IF k.expected_sequence # NoSequence /\ sequence # k.expected_sequence
         THEN "stale_sequence"
    ELSE "execute"

DispatchCheck ==
    /\ handler = "popped"
    /\ verdict' = Verdict(call[current])
    /\ handler' = "checked"
    /\ UNCHANGED <<connVars, queueVars, current, ghostVars>>

(* execute_mutation() if the preconditions hold, then complete_call(). *)
DispatchComplete ==
    /\ handler = "checked"
    /\ \/ /\ verdict = "execute"
          /\ call' = [call EXCEPT ![current] = complete_call(@, Handled, @.executed + 1)]
          /\ log' = Append(log, [generation |-> call[current].expected,
                                 order |-> call[current].order,
                                 onConnection |-> connection,
                                 ownConnection |-> founded])
       \/ /\ verdict # "execute"
          /\ call' = [call EXCEPT ![current] = complete_call(@, verdict, @.executed)]
          /\ UNCHANGED log
    /\ handler' = "completed"
    /\ UNCHANGED <<connVars, mutation_queue, scheduled, order, current, verdict,
                   assigned>>

(* Slip: the handler leaves what is still queued to the next submission. *)
RescheduleForgotten ==
    /\ handler = "completed"
    /\ handler' = "idle" /\ current' = NoCaller /\ verdict' = "none"
    /\ scheduled' = FALSE
    /\ UNCHANGED <<connVars, mutation_queue, order, call, ghostVars>>

DispatchReschedule ==
    /\ handler = "completed"
    /\ handler' = "idle" /\ current' = NoCaller /\ verdict' = "none"
    /\ schedule_dispatch_locked(mutation_queue, FALSE)
    /\ UNCHANGED <<lifeVars, generation, sequence, reconnectVars, stopVars,
                   mutation_queue, order, call, ghostVars>>

-----------------------------------------------------------------------------
(* The connection's callbacks, with what they do to the dispatcher.  Those   *)
(* of the WirePlumber thread cannot run inside its dispatch handler.         *)

PlainCallback ==
    /\ handler = "idle"
    /\ StartThread \/ CoreConnected \/ MixerLoaded \/ MixerFailed \/ Observe \/ RunStop
    /\ UNCHANGED mutationVars

DispatchOmInstalled ==
    /\ handler = "idle"
    /\ OmInstalled
    /\ order' = 0
    /\ UNCHANGED <<mutation_queue, scheduled, call, handlerVars, ghostVars>>

DispatchCoreLost ==
    /\ handler = "idle"
    /\ CoreLost
    /\ CancelOnDisconnect
    /\ UNCHANGED <<handlerVars, ghostVars>>

DispatchRunReconnect(r) ==
    /\ handler = "idle"
    /\ RunReconnect(r)
    /\ IF core = "up" THEN CancelOnDisconnect ELSE UNCHANGED queueVars
    /\ UNCHANGED <<handlerVars, ghostVars>>

DispatchExitThread ==
    /\ handler = "idle"
    /\ ExitThread
    /\ IF core = "up" THEN CancelOnDisconnect ELSE UNCHANGED queueVars
    /\ UNCHANGED <<handlerVars, ghostVars>>

DispatchReconnectCancel(r) ==
    /\ ReconnectCancel(r)
    /\ cancel_pending("generation_lost")
    /\ UNCHANGED <<handlerVars, ghostVars>>

(* Slip: stop() releases nobody. *)
StopWithoutCancel == StopCancel /\ UNCHANGED mutationVars

DispatchStopCancel ==
    /\ StopCancel
    /\ cancel_pending("runtime_stopped")
    /\ UNCHANGED <<handlerVars, ghostVars>>

(* No submission is under way when the last reference goes. *)
DispatchDealloc ==
    /\ \A c \in Callers : call[c].state \notin {"queued", "popped"}
    /\ Dealloc
    /\ cancel_pending("runtime_stopped")
    /\ UNCHANGED <<handlerVars, ghostVars>>

PlainThread ==
    /\ \/ InitReturns \/ StopRequest \/ StopPost \/ StopJoin
       \/ \E r \in Reconnectors :
             \/ ReconnectCheck(r) \/ ReconnectRead(r) \/ ReconnectPost(r)
             \/ ReconnectSleeps(r) \/ ReconnectPosted(r) \/ ReconnectReturns(r)
    /\ UNCHANGED mutationVars

-----------------------------------------------------------------------------
Submit(c) ==
    \/ DispatchStopped(c)
    \/ DispatchStale(c)
    \/ \E s \in {NoSequence, sequence} : DispatchEnqueue(c, s)

Handler == DispatchPop \/ DispatchCheck \/ DispatchComplete \/ DispatchReschedule

NextDispatch ==
    \/ PlainCallback \/ DispatchOmInstalled \/ DispatchCoreLost \/ DispatchExitThread
    \/ DispatchStopCancel \/ DispatchDealloc \/ PlainThread
    \/ \E r \in Reconnectors : DispatchRunReconnect(r) \/ DispatchReconnectCancel(r)
    \/ \E c \in Callers : Submit(c)
    \/ Handler

DispatchSpec == InitDispatch /\ [][NextDispatch]_vars

(* The WirePlumber thread keeps running its sources and leaves the loop when *)
(* told to; a thread inside stop() goes on.                                  *)
DispatchFairness ==
    /\ WF_vars(Handler \/ (handler = "idle" /\ RunStop /\ UNCHANGED mutationVars)
                       \/ \E r \in Reconnectors : DispatchRunReconnect(r))
    /\ WF_vars(DispatchExitThread)
    /\ WF_vars(DispatchStopCancel)
    /\ WF_vars((StopPost \/ StopJoin) /\ UNCHANGED mutationVars)

DispatchFairSpec == DispatchSpec /\ DispatchFairness
-----------------------------------------------------------------------------
DispatchTypeOK ==
    /\ ConnTypeOK
    /\ sources \in Seq({StopSource, DispatchSource}
                          \cup {ReconnectSource(r) : r \in Reconnectors})
    /\ mutation_queue \in Seq(Callers)
    /\ scheduled \in BOOLEAN
    /\ order \in Nat
    /\ call \in [Callers ->
          [state : {"idle", "queued", "popped", "done"},
           expected : Nat, expected_sequence : Nat \cup {NoSequence},
           enqueued : Nat, order : Nat, executed : 0..1,
           result : {"none", Handled} \cup Cancelled \cup Stale]]
    /\ handler \in {"idle", "popped", "checked", "completed"}
    /\ current \in Callers \cup {NoCaller}
    /\ verdict \in {"none", "execute"} \cup Cancelled \cup Stale
    /\ log \in Seq([generation : Nat, order : Nat,
                    onConnection : Nat, ownConnection : Nat])
    /\ assigned \subseteq Nat \X Nat

(* The indexes of the attached sources that run the dispatcher. *)
DispatchSources == {i \in 1..Len(sources) : sources[i] = DispatchSource}

(* mutation_source_scheduled never loses a dispatch: as long as the thread   *)
(* lives, a queued call has a source attached or the handler at work, and    *)
(* there is never a second source, so that calls stay serialized.            *)
NoLostDispatch ==
    loop # "exited" =>
       /\ mutation_queue # <<>> => scheduled
       /\ scheduled <=> (DispatchSources # {} \/ handler # "idle")
       /\ \A i, j \in DispatchSources : i = j
       /\ ~(DispatchSources # {} /\ handler # "idle")

(* No caller is left behind on a thread that has ended: the check of         *)
(* stop_requested at submission and the cancellation in stop() together      *)
(* cover every interleaving.                                                 *)
NoOrphanedCaller ==
    loop = "exited" => \A c \in Callers : call[c].state \notin {"queued", "popped"}

(* A mutation reaches PipeWire at most once, and exactly when its ticket     *)
(* says so: a caller that was told of a cancellation or of a stale           *)
(* precondition knows that nothing was executed.                             *)
TicketTellsExecution ==
    \A c \in Callers : call[c].state = "done" =>
       call[c].executed = IF call[c].result = Handled THEN 1 ELSE 0

(* Within one generation mutations are executed in dispatch order, and an    *)
(* older generation's mutation never follows a newer one's.                  *)
ExecutedInOrder ==
    \A i, j \in 1..Len(log) : i < j =>
       \/ log[i].generation < log[j].generation
       \/ log[i].generation = log[j].generation /\ log[i].order < log[j].order

(* Dispatch order starts again at one for each synchronized generation and   *)
(* has no holes.                                                             *)
OrderIsDense ==
    \A a \in assigned : a[2] >= 1 /\ (a[2] > 1 => <<a[1], a[2] - 1>> \in assigned)

(* Every submitted mutation completes: by its handler, or by a cancellation. *)
CallersReturn ==
    \A c \in Callers : (call[c].state = "queued") ~> (call[c].state = "done")

(* A stale request is rejected before native execution: what is executed     *)
(* runs on the connection of the generation that the request expected.       *)
StaleNeverExecutes ==
    \A i \in 1..Len(log) : log[i].onConnection = log[i].ownConnection
-----------------------------------------------------------------------------
(* The dispatcher as the line its callers stand in (MutationLine): the call  *)
(* in the handler's hands is still at its head.                              *)

(* The handler has a call and has not completed it. *)
AtWork == handler \in {"popped", "checked"}

InLine == IF AtWork THEN <<current>> \o mutation_queue ELSE mutation_queue

Place(c) == [caller |-> c, generation |-> call[c].enqueued, order |-> call[c].order]

LogPlace(e) == [generation |-> e.generation, order |-> e.order]

LinePlaces == [i \in 1..Len(InLine) |-> Place(InLine[i])]
Tickets == [c \in Callers |-> IF call[c].state = "done" THEN call[c].result ELSE "none"]
Served == [i \in 1..Len(log) |-> LogPlace(log[i])]

Line == INSTANCE MutationLine WITH line <- LinePlaces, ticket <- Tickets, log <- Served

(* For its callers the dispatcher is one line: whatever the interleaving of  *)
(* submissions, the handler's critical sections, reconnects, losses and      *)
(* stop(), the head of the line alone is served, in the generation of its    *)
(* place, a cancellation reaches everybody behind it, and a ticket is final. *)
LineSpec == Line!Spec
=============================================================================
