------------------------- MODULE MutationDispatchProofs -------------------------
(***************************************************************************)
(* Proofs about MutationDispatch, for any number of callers and of         *)
(* reconnecting threads.  Everything but the order of execution rests on   *)
(* three facts that the code keeps up together: a call is queued, in the   *)
(* handler's hands or done, and never two of these (CallInv); there is one *)
(* dispatch source or a handler at work exactly when the flag says so      *)
(* (ScheduleInv); and a thread that ends leaves nothing queued, because    *)
(* stop() has cancelled after it closed the door (EndInv).                 *)
(***************************************************************************)
EXTENDS MutationDispatch, WPConnectionProofs

DispatchSourceSet == SourceSet \cup {DispatchSource}

CallRecord ==
    [state : {"idle", "queued", "popped", "done"},
     expected : Nat, expected_sequence : Nat \cup {NoSequence},
     enqueued : Nat, order : Nat, executed : 0..1,
     result : {"none", Handled} \cup Cancelled \cup Stale]

LogRecord == [generation : Nat, order : Nat, onConnection : Nat, ownConnection : Nat]

(* The types of the dispatcher's own variables. *)
CallShape ==
    /\ mutation_queue \in Seq(Callers)
    /\ scheduled \in BOOLEAN
    /\ order \in Nat
    /\ call \in [Callers -> CallRecord]
    /\ handler \in {"idle", "popped", "checked", "completed"}
    /\ current \in Callers \cup {NoCaller}
    /\ verdict \in {"none", "execute"} \cup Cancelled \cup Stale
    /\ log \in Seq(LogRecord)
    /\ assigned \subseteq Nat \X Nat

(* A call is on the queue once, or in the handler's hands, or neither. *)
CallInv ==
    /\ \A i, j \in 1..Len(mutation_queue) : mutation_queue[i] = mutation_queue[j] => i = j
    /\ \A i \in 1..Len(mutation_queue) : call[mutation_queue[i]].state = "queued"
    /\ \A c \in Callers :
          call[c].state = "queued" => \E i \in 1..Len(mutation_queue) : mutation_queue[i] = c
    /\ \A c \in Callers : call[c].state = "popped" => AtWork /\ current = c
    /\ AtWork => current \in Callers /\ call[current].state = "popped"
    /\ handler = "checked" => verdict # "none"
    /\ \A c \in Callers :
          call[c].executed = IF call[c].state = "done" /\ call[c].result = Handled THEN 1 ELSE 0

(* One source, or a handler at work, exactly while the flag is set. *)
ScheduleInv ==
    loop # "exited" =>
       /\ mutation_queue # <<>> => scheduled
       /\ scheduled <=> (DispatchSources # {} \/ handler # "idle")
       /\ \A i, j \in DispatchSources : i = j
       /\ ~(DispatchSources # {} /\ handler # "idle")

(* Once stop() has cancelled, nothing is queued any more; and before the     *)
(* constructor has returned nobody has called.                               *)
EndInv ==
    /\ stopper \in {"cancelled", "joining", "joined"} => mutation_queue = <<>>
    /\ init # "returned" => \A c \in Callers : call[c].state = "idle"
    /\ loop = "exited" => handler = "idle"

(* k was given its place before l, if both are of one generation. *)
Precedes(k, l) == k.enqueued = l.enqueued => k.order < l.order

Outstanding(c) == call[c].state \in {"queued", "popped"}

(* The order of the queue: first what the handler has, then the queue. *)
QueueOrderInv ==
    /\ \A c \in Callers : Outstanding(c) =>
          /\ call[c].expected = call[c].enqueued
          /\ call[c].enqueued <= generation
          /\ call[c].enqueued = generation => call[c].order <= order
    /\ \A i, j \in 1..Len(mutation_queue) :
          i < j => Precedes(call[mutation_queue[i]], call[mutation_queue[j]])
    /\ AtWork => \A i \in 1..Len(mutation_queue) :
                    Precedes(call[current], call[mutation_queue[i]])

(* What has been executed precedes what is pending, and what is about to be  *)
(* executed is of the present generation.                                    *)
LogInv ==
    /\ \A i \in 1..Len(log) :
          /\ log[i].generation <= generation
          /\ log[i].generation = generation =>
                /\ log[i].order <= order
                /\ \A c \in Callers :
                      (Outstanding(c) /\ call[c].enqueued = generation) =>
                         log[i].order < call[c].order
    /\ (handler = "checked" /\ verdict = "execute") => call[current].enqueued = generation
    /\ ExecutedInOrder

(* The places given out in the present generation are 1..order. *)
AssignedInv ==
    /\ \A n \in 1..order : <<generation, n>> \in assigned
    /\ OrderIsDense

(* What holds of the calls, however they were submitted. *)
CallsInv == CallShape /\ CallInv /\ QueueOrderInv /\ LogInv /\ AssignedInv

DispatchInv ==
    /\ ConnInv /\ LifeInv /\ StopPosted /\ sources \in Seq(DispatchSourceSet)
    /\ CallsInv /\ ScheduleInv /\ EndInv
-----------------------------------------------------------------------------
(* What a step does to the connection: one of its own steps, or nothing but  *)
(* a source attached or taken.                                               *)
ConnKept == UNCHANGED <<lifeVars, generation, sequence, reconnectVars, stopVars>>

LEMMA KeptConnInv == ConnInv /\ LifeInv /\ ConnKept => ConnInv' /\ LifeInv'
  BY DEF ConnInv, Shape, GenerationInv, StartInv, LifeInv, ConnKept, lifeVars,
         reconnectVars, stopVars

LEMMA DispatchConnStep ==
    ASSUME [NextDispatch]_vars PROVE ThreadStep \/ PythonStep \/ ConnKept
<1>1. CASE PlainCallback
  BY <1>1 DEF PlainCallback, ThreadStep
<1>2. CASE DispatchOmInstalled
  BY <1>2 DEF DispatchOmInstalled, ThreadStep
<1>3. CASE DispatchCoreLost \/ DispatchExitThread
  BY <1>3 DEF DispatchCoreLost, DispatchExitThread, ThreadStep
<1>4. CASE DispatchStopCancel \/ DispatchDealloc
  BY <1>4 DEF DispatchStopCancel, DispatchDealloc, PythonStep, Stop
<1>5. CASE PlainThread
  BY <1>5 DEF PlainThread, PythonStep, Stop, Reconnect
<1>6. CASE \E r \in Reconnectors : DispatchRunReconnect(r) \/ DispatchReconnectCancel(r)
  BY <1>6 DEF DispatchRunReconnect, DispatchReconnectCancel, ThreadStep, PythonStep,
     Reconnect
<1>7. CASE \E c \in Callers : Submit(c)
  BY <1>7 DEF Submit, DispatchStopped, DispatchStale, DispatchEnqueue, ConnKept, connVars
<1>8. CASE Handler
  BY <1>8 DEF Handler, DispatchPop, DispatchCheck, DispatchComplete,
     DispatchReschedule, ConnKept, connVars
<1>9. CASE UNCHANGED vars
  BY <1>9 DEF vars, connVars, ConnKept
<1> QED
  BY <1>1, <1>2, <1>3, <1>4, <1>5, <1>6, <1>7, <1>8, <1>9 DEF NextDispatch

LEMMA DispatchConnInv ==
    ASSUME DispatchInv, [NextDispatch]_vars PROVE ConnInv' /\ LifeInv'
<1>1. ConnInv /\ LifeInv /\ StopPosted /\ sources \in Seq(DispatchSourceSet)
  BY DEF DispatchInv
<1> QED
  BY <1>1, DispatchConnStep, KeptConnInv, ThreadConnInv, PythonConnInv,
     ThreadLifeInv, PythonLifeInv

-----------------------------------------------------------------------------
(* What a step does to the attached sources. *)
LEMMA SourcesMove ==
    ASSUME [NextDispatch]_vars
    PROVE  \/ UNCHANGED sources
           \/ ExitThread /\ sources' = <<>> /\ loop' = "exited"
           \/ RunStop /\ Runs(StopSource) /\ UNCHANGED stopVars
           \/ \E r \in Reconnectors : RunReconnect(r) /\ Runs(ReconnectSource(r)) /\ UNCHANGED stopVars
           \/ DispatchPop /\ Runs(DispatchSource) /\ UNCHANGED stopVars
           \/ \E r \in Reconnectors : ReconnectPost(r) /\ Attaches(ReconnectSource(r)) /\ UNCHANGED stopVars
           \/ StopPost /\ Attaches(StopSource) /\ stopper' = "joining"
           \/ /\ ((\E c \in Callers : Submit(c)) \/ DispatchReschedule)
              /\ Attaches(DispatchSource) /\ UNCHANGED stopVars
<1> USE DEF Runs, Attaches
<1>1. CASE PlainCallback
  BY <1>1 DEF PlainCallback, StartThread, CoreConnected, MixerLoaded, MixerFailed,
     Observe, RunStop, NextSource
<1>2. CASE DispatchOmInstalled \/ DispatchCoreLost
  BY <1>2 DEF DispatchOmInstalled, DispatchCoreLost, OmInstalled, CoreLost
<1>3. CASE DispatchExitThread
  BY <1>3 DEF DispatchExitThread, ExitThread
<1>4. CASE DispatchStopCancel \/ DispatchDealloc
  BY <1>4 DEF DispatchStopCancel, DispatchDealloc, StopCancel, Dealloc
<1>5. CASE PlainThread
  BY <1>5 DEF PlainThread, InitReturns, StopRequest, StopPost, StopJoin,
     ReconnectCheck, ReconnectRead, ReconnectPost, ReconnectSleeps, ReconnectPosted, ReconnectReturns
<1>6. ASSUME NEW r \in Reconnectors, DispatchRunReconnect(r)
      PROVE  RunReconnect(r) /\ Runs(ReconnectSource(r)) /\ UNCHANGED stopVars
  BY <1>6 DEF DispatchRunReconnect, RunReconnect, NextSource
<1>7. ASSUME NEW r \in Reconnectors, DispatchReconnectCancel(r) PROVE UNCHANGED sources
  BY <1>7 DEF DispatchReconnectCancel, ReconnectCancel
<1>8. ASSUME NEW c \in Callers, Submit(c)
      PROVE  UNCHANGED sources \/ (Attaches(DispatchSource) /\ UNCHANGED stopVars)
  BY <1>8 DEF Submit, DispatchStopped, DispatchStale, DispatchEnqueue,
     schedule_dispatch_locked, connVars
<1>9. CASE Handler
  BY <1>9 DEF Handler, DispatchPop, DispatchCheck, DispatchComplete,
     DispatchReschedule, schedule_dispatch_locked, NextSource, connVars
<1>10. CASE UNCHANGED vars
  BY <1>10 DEF vars, connVars
<1> QED
  BY <1>1, <1>2, <1>3, <1>4, <1>5, <1>6, <1>7, <1>8, <1>9, <1>10 DEF NextDispatch

LEMMA SourcesAreDistinct ==
    /\ StopSource \in DispatchSourceSet /\ DispatchSource \in DispatchSourceSet
    /\ StopSource # DispatchSource
    /\ \A r \in Reconnectors : /\ ReconnectSource(r) \in DispatchSourceSet
                               /\ ReconnectSource(r) # StopSource
                               /\ ReconnectSource(r) # DispatchSource
  BY DEF DispatchSourceSet, SourceSet, StopSource, DispatchSource, ReconnectSource

LEMMA DispatchSourcesStep ==
    ASSUME DispatchInv, [NextDispatch]_vars
    PROVE  sources' \in Seq(DispatchSourceSet) /\ StopPosted'
<1>1. sources \in Seq(DispatchSourceSet) /\ StopPosted
  BY DEF DispatchInv
<1>2. stopper \in {"joining", "joined"} => stopper' \in {"joining", "joined"}
  BY DispatchConnStep, StopperStep DEF ConnKept
<1>3. \/ UNCHANGED sources \/ sources' = <<>>
      \/ \E s : Runs(s)
      \/ \E s \in DispatchSourceSet : Attaches(s) /\ (s = StopSource => stopper' = "joining")
  BY SourcesMove, SourcesAreDistinct
<1> QED
  BY <1>1, <1>2, <1>3, StopPostedStep

-----------------------------------------------------------------------------
(* What a step does to the dispatcher.  The connection's callbacks and the   *)
(* Python threads outside a submission leave it alone (Quiet) or cancel what *)
(* is queued (Cancels).  A submission may expect any sequence.               *)
Quiet == UNCHANGED <<mutationVars, generation>>

Cancels ==
    /\ \E code \in Cancelled : cancel_pending(code)
    /\ UNCHANGED <<handlerVars, ghostVars, generation>>

Sequences == Nat \cup {NoSequence}

DispatchMove ==
    \/ Quiet \/ Cancels \/ DispatchOmInstalled
    \/ \E c \in Callers : DispatchStopped(c) \/ DispatchStale(c)
    \/ \E c \in Callers, s \in Sequences : DispatchEnqueue(c, s)
    \/ Handler

(* Everything but submissions and the handler. *)
ConnectionMove ==
    \/ PlainCallback \/ DispatchOmInstalled \/ DispatchCoreLost \/ DispatchExitThread
    \/ DispatchStopCancel \/ DispatchDealloc \/ PlainThread
    \/ \E r \in Reconnectors : DispatchRunReconnect(r) \/ DispatchReconnectCancel(r)

LEMMA ConnectionCases ==
    ASSUME ConnectionMove PROVE Quiet \/ Cancels \/ DispatchOmInstalled
<1> USE DEF Quiet, Cancels
<1>0. "generation_lost" \in Cancelled /\ "runtime_stopped" \in Cancelled
  BY DEF Cancelled
<1>1. CASE PlainCallback
  BY <1>1 DEF PlainCallback, StartThread, CoreConnected, MixerLoaded, MixerFailed,
     Observe, RunStop
<1>2. CASE PlainThread
  BY <1>2 DEF PlainThread, InitReturns, StopRequest, StopPost, StopJoin,
     ReconnectCheck, ReconnectRead, ReconnectPost, ReconnectSleeps, ReconnectPosted, ReconnectReturns
<1>3. CASE DispatchCoreLost \/ DispatchExitThread
  BY <1>0, <1>3 DEF DispatchCoreLost, DispatchExitThread, CoreLost, ExitThread,
     CancelOnDisconnect, mutationVars
<1>4. CASE DispatchStopCancel \/ DispatchDealloc
  BY <1>0, <1>4 DEF DispatchStopCancel, DispatchDealloc, StopCancel, Dealloc
<1>5. ASSUME NEW r \in Reconnectors, DispatchRunReconnect(r) \/ DispatchReconnectCancel(r)
      PROVE  Quiet \/ Cancels
  BY <1>0, <1>5 DEF DispatchRunReconnect, DispatchReconnectCancel, RunReconnect,
     ReconnectCancel, CancelOnDisconnect, mutationVars
<1> QED
  BY <1>1, <1>2, <1>3, <1>4, <1>5 DEF ConnectionMove

LEMMA DispatchCases ==
    ASSUME sequence \in Nat, [NextDispatch]_vars PROVE DispatchMove
<1>1. CASE ConnectionMove
  BY <1>1, ConnectionCases DEF DispatchMove
<1>2. ASSUME NEW c \in Callers, Submit(c) PROVE DispatchMove
  BY <1>2 DEF Submit, DispatchMove, Sequences
<1>3. CASE Handler
  BY <1>3 DEF DispatchMove
<1>4. CASE UNCHANGED vars
  BY <1>4 DEF DispatchMove, Quiet, vars, connVars
<1> QED
  BY <1>1, <1>2, <1>3, <1>4 DEF NextDispatch, ConnectionMove

LEMMA CallTypes ==
    /\ \A code \in {"none", Handled} \cup Cancelled \cup Stale :
          /\ Ticket(code, 0) \in CallRecord
          /\ Ticket(code, 0).state = "done" /\ Ticket(code, 0).result = code
          /\ Ticket(code, 0).executed = 0
    /\ Ticket(Handled, 1) \in CallRecord
    /\ Ticket(Handled, 1).state = "done" /\ Ticket(Handled, 1).result = Handled
    /\ Ticket(Handled, 1).executed = 1
    /\ Handled \notin Cancelled \cup Stale
  BY DEF Ticket, CallRecord, NoSequence, Handled, Cancelled, Stale

(* A cancellation completes the queued calls, which nobody has executed, and *)
(* no other.                                                                 *)
LEMMA CancelEffect ==
    ASSUME CallShape, CallInv, NEW code \in Cancelled, cancel_pending(code)
    PROVE  /\ mutation_queue' = <<>> /\ UNCHANGED <<scheduled, order>>
           /\ call' \in [Callers -> CallRecord]
           /\ \A c \in Callers :
                 call'[c] = IF call[c].state = "queued" THEN Ticket(code, 0) ELSE call[c]
<1>1. ASSUME NEW c \in Callers
      PROVE  (\E i \in 1..Len(mutation_queue) : mutation_queue[i] = c)
                <=> call[c].state = "queued"
  BY DEF CallInv
<1>2. ASSUME NEW c \in Callers, call[c].state = "queued"
      PROVE  complete_call(call[c], code, call[c].executed) = Ticket(code, 0)
  BY <1>2 DEF CallInv, complete_call
<1>3. call' = [c \in Callers |-> IF call[c].state = "queued" THEN Ticket(code, 0) ELSE call[c]]
  BY <1>1, <1>2 DEF cancel_pending
<1>4. Ticket(code, 0) \in CallRecord
  BY CallTypes
<1>5. \A c \in Callers : call[c] \in CallRecord
  BY DEF CallShape
<1> QED
  BY <1>3, <1>4, <1>5 DEF cancel_pending

-----------------------------------------------------------------------------
(* What the pop and the completion do to the calls. *)
LEMMA HeadIsCaller ==
    ASSUME CallShape, mutation_queue # <<>>
    PROVE  /\ Head(mutation_queue) \in Callers /\ Head(mutation_queue) = mutation_queue[1]
           /\ 1 \in 1..Len(mutation_queue)
           /\ Tail(mutation_queue) \in Seq(Callers)
           /\ Len(Tail(mutation_queue)) = Len(mutation_queue) - 1
           /\ \A i \in 1..Len(Tail(mutation_queue)) :
                 /\ i + 1 \in 1..Len(mutation_queue)
                 /\ Tail(mutation_queue)[i] = mutation_queue[i + 1]
  BY DEF CallShape

LEMMA PopEffect ==
    ASSUME CallShape, DispatchPop, mutation_queue # <<>>
    PROVE  LET h == Head(mutation_queue) IN
           /\ handler = "idle" /\ handler' = "popped" /\ current' = h
           /\ mutation_queue' = Tail(mutation_queue)
           /\ UNCHANGED <<scheduled, verdict, order, ghostVars, generation>>
           /\ call' \in [Callers -> CallRecord]
           /\ \A c \in Callers :
                 /\ c # h => call'[c] = call[c]
                 /\ call'[c].state = IF c = h THEN "popped" ELSE call[c].state
                 /\ call'[c].executed = call[c].executed
                 /\ call'[c].result = call[c].result
                 /\ call'[c].order = call[c].order
                 /\ call'[c].enqueued = call[c].enqueued
                 /\ call'[c].expected = call[c].expected
                 /\ call'[c].expected_sequence = call[c].expected_sequence
<1>1. Head(mutation_queue) \in Callers
  BY HeadIsCaller
<1>2. call' = [call EXCEPT ![Head(mutation_queue)].state = "popped"]
  BY DEF DispatchPop
<1>3. call' \in [Callers -> CallRecord]
  <2>1. call[Head(mutation_queue)] \in CallRecord
    BY <1>1 DEF CallShape
  <2>2. [call[Head(mutation_queue)] EXCEPT !.state = "popped"] \in CallRecord
    BY <2>1 DEF CallRecord
  <2> QED
    BY <1>1, <1>2, <2>2 DEF CallShape
<1>4. \A c \in Callers : call[c] \in CallRecord
  BY DEF CallShape
<1> QED
  BY <1>1, <1>2, <1>3, <1>4 DEF DispatchPop, CallRecord, CallShape

LEMMA CompleteEffect ==
    ASSUME CallShape, CallInv, DispatchComplete
    PROVE  /\ handler = "checked" /\ handler' = "completed"
           /\ UNCHANGED <<mutation_queue, scheduled, order, current, verdict, assigned,
                          generation>>
           /\ call' \in [Callers -> CallRecord]
           /\ \A c \in Callers : c # current => call'[c] = call[c]
           /\ call'[current].state = "done"
           /\ call'[current].executed = IF call'[current].result = Handled THEN 1 ELSE 0
           /\ IF verdict = "execute"
              THEN log' = Append(log, [generation |-> call[current].expected,
                                       order |-> call[current].order,
                                       onConnection |-> connection,
                                       ownConnection |-> founded])
              ELSE UNCHANGED log
<1>1. /\ handler = "checked" /\ current \in Callers /\ call[current].state = "popped"
      /\ call[current].executed = 0 /\ verdict # "none"
  BY DEF CallInv, AtWork, DispatchComplete
<1>2. \A c \in Callers : call[c] \in CallRecord
  BY DEF CallShape
<1> DEFINE T(code) == IF code = Handled THEN Ticket(code, 1) ELSE Ticket(code, 0)
<1>3. PICK code : /\ code \in {Handled} \cup Cancelled \cup Stale
                  /\ call' = [call EXCEPT ![current] = T(code)]
  <2>1. CASE verdict = "execute"
    <3>1. call' = [call EXCEPT ![current] = T(Handled)]
      BY <1>1, <2>1 DEF DispatchComplete, complete_call
    <3> HIDE DEF T
    <3> QED
      BY <3>1
  <2>2. CASE verdict # "execute"
    <3>1. verdict \in Cancelled \cup Stale /\ verdict # Handled
      BY <1>1, <2>2, CallTypes DEF CallShape
    <3>2. call' = [call EXCEPT ![current] = T(verdict)]
      BY <1>1, <2>2, <3>1 DEF DispatchComplete, complete_call
    <3> HIDE DEF T
    <3> QED
      BY <3>1, <3>2
  <2> QED
    BY <2>1, <2>2
<1>4. /\ T(code) \in CallRecord /\ T(code).state = "done" /\ T(code).result = code
      /\ T(code).executed = IF code = Handled THEN 1 ELSE 0
  BY <1>3, CallTypes
<1> HIDE DEF T
<1>5. call' \in [Callers -> CallRecord]
  BY <1>1, <1>3, <1>4 DEF CallShape
<1>6. call'[current] = T(code) /\ \A c \in Callers : c # current => call'[c] = call[c]
  BY <1>1, <1>3 DEF CallShape
<1> QED
  BY <1>1, <1>3, <1>4, <1>5, <1>6 DEF DispatchComplete, connVars

(* The call a submission leaves behind. *)
LEMMA SubmitEffect ==
    ASSUME CallShape, Shape, NEW c \in Callers, NEW s \in Sequences, DispatchEnqueue(c, s)
    PROVE  /\ call[c].state = "idle" /\ order' = order + 1
           /\ mutation_queue' = Append(mutation_queue, c)
           /\ mutation_queue' \in Seq(Callers)
           /\ Len(mutation_queue') = Len(mutation_queue) + 1
           /\ \A i \in 1..Len(mutation_queue) : mutation_queue'[i] = mutation_queue[i]
           /\ mutation_queue'[Len(mutation_queue) + 1] = c
           /\ assigned' = assigned \cup {<<generation, order + 1>>}
           /\ UNCHANGED <<handlerVars, log, generation>>
           /\ call' \in [Callers -> CallRecord]
           /\ \A d \in Callers : d # c => call'[d] = call[d]
           /\ call'[c].state = "queued" /\ call'[c].executed = 0
           /\ call'[c].expected = generation /\ call'[c].enqueued = generation
           /\ call'[c].order = order + 1 /\ call'[c].expected_sequence = s
<1> DEFINE k == [state |-> "queued", expected |-> generation, expected_sequence |-> s,
                 enqueued |-> generation, order |-> order + 1,
                 result |-> "none", executed |-> 0]
<1>1. call' = [call EXCEPT ![c] = k] /\ order' = order + 1
  BY DEF DispatchEnqueue
<1>2. k \in CallRecord
  BY DEF CallRecord, Shape, CallShape, NoSequence, Sequences
<1>3. call' \in [Callers -> CallRecord] /\ call'[c] = k /\ \A d \in Callers : d # c => call'[d] = call[d]
  BY <1>1, <1>2 DEF CallShape
<1>4. mutation_queue' = Append(mutation_queue, c) /\ mutation_queue \in Seq(Callers)
  BY DEF DispatchEnqueue, CallShape
<1>5. /\ mutation_queue' \in Seq(Callers)
      /\ Len(mutation_queue') = Len(mutation_queue) + 1
      /\ \A i \in 1..Len(mutation_queue) : mutation_queue'[i] = mutation_queue[i]
      /\ mutation_queue'[Len(mutation_queue) + 1] = c
  BY <1>4
<1> QED
  BY <1>1, <1>3, <1>4, <1>5 DEF DispatchEnqueue, CanSubmit

LEMMA RefuseEffect ==
    ASSUME CallShape, NEW c \in Callers, DispatchStopped(c) \/ DispatchStale(c)
    PROVE  /\ call[c].state = "idle" /\ init = "returned"
           /\ UNCHANGED <<connVars, mutation_queue, scheduled, order, handlerVars, ghostVars>>
           /\ call' \in [Callers -> CallRecord]
           /\ \A d \in Callers : d # c => call'[d] = call[d]
           /\ call'[c].state = "done" /\ call'[c].executed = 0
           /\ call'[c].result # Handled
<1>1. PICK code \in Cancelled \cup Stale : call' = [call EXCEPT ![c] = Ticket(code, 0)]
  BY DEF DispatchStopped, DispatchStale, Cancelled, Stale
<1>2. /\ Ticket(code, 0) \in CallRecord /\ Ticket(code, 0).state = "done"
      /\ Ticket(code, 0).result = code /\ Ticket(code, 0).executed = 0 /\ code # Handled
  BY <1>1, CallTypes
<1>3. /\ call' \in [Callers -> CallRecord] /\ call'[c] = Ticket(code, 0)
      /\ \A d \in Callers : d # c => call'[d] = call[d]
  BY <1>1, <1>2 DEF CallShape
<1> QED
  BY <1>2, <1>3 DEF DispatchStopped, DispatchStale, CanSubmit

-----------------------------------------------------------------------------
LEMMA CallShapeStep ==
    ASSUME Shape, CallsInv, DispatchMove PROVE CallShape'
<1>1. Shape /\ CallShape /\ CallInv
  BY DEF CallsInv
<1> USE <1>1
<1>2. CASE Quiet
  BY <1>2 DEF CallShape, Quiet, mutationVars, queueVars, handlerVars, ghostVars
<1>3. CASE Cancels
  <2>1. PICK code \in Cancelled : cancel_pending(code)
    BY <1>3 DEF Cancels
  <2> QED
    BY <1>3, <2>1, CancelEffect, EmptyIsSeq DEF Cancels, CallShape, handlerVars, ghostVars
<1>4. CASE DispatchOmInstalled
  BY <1>4 DEF DispatchOmInstalled, CallShape, handlerVars, ghostVars
<1>5. ASSUME NEW c \in Callers, DispatchStopped(c) \/ DispatchStale(c) PROVE CallShape'
  BY <1>5, RefuseEffect DEF CallShape, handlerVars, ghostVars
<1>6. ASSUME NEW c \in Callers, NEW s \in Sequences, DispatchEnqueue(c, s)
      PROVE  CallShape'
  <2>1. scheduled' \in BOOLEAN
    BY <1>6 DEF DispatchEnqueue, schedule_dispatch_locked, CallShape
  <2>2. order' \in Nat /\ assigned' \subseteq Nat \X Nat
    BY <1>6, SubmitEffect DEF CallShape, Shape
  <2> QED
    BY <1>6, <2>1, <2>2, SubmitEffect DEF CallShape, handlerVars
<1>7. CASE DispatchPop
  <2>1. CASE mutation_queue = <<>>
    BY <1>7, <2>1 DEF DispatchPop, CallShape, handlerVars, ghostVars
  <2>2. CASE mutation_queue # <<>>
    <3>1. /\ handler' = "popped" /\ current' = Head(mutation_queue)
          /\ mutation_queue' = Tail(mutation_queue)
          /\ UNCHANGED <<scheduled, verdict, order, log, assigned>>
          /\ call' \in [Callers -> CallRecord]
      BY <1>7, <2>2, PopEffect DEF ghostVars
    <3>2. Head(mutation_queue) \in Callers /\ Tail(mutation_queue) \in Seq(Callers)
      BY <2>2, HeadIsCaller
    <3> QED
      BY <3>1, <3>2 DEF CallShape
  <2> QED
    BY <2>1, <2>2
<1>8. CASE DispatchCheck
  <2>1. verdict' \in {"none", "execute"} \cup Cancelled \cup Stale
    BY <1>8 DEF DispatchCheck, Verdict, Cancelled, Stale
  <2> QED
    BY <1>8, <2>1 DEF DispatchCheck, CallShape, queueVars, ghostVars
<1>9. CASE DispatchComplete
  <2>1. call[current].expected \in Nat /\ call[current].order \in Nat
    BY <1>9 DEF DispatchComplete, CallShape, CallInv, AtWork, CallRecord
  <2>2. connection \in Nat /\ founded \in Nat
    BY DEF Shape
  <2>3. log' \in Seq(LogRecord)
    <3>1. [generation |-> call[current].expected, order |-> call[current].order,
           onConnection |-> connection, ownConnection |-> founded] \in LogRecord
      BY <2>1, <2>2 DEF LogRecord
    <3> QED
      BY <1>9, <3>1, CompleteEffect, AppendIsSeq DEF CallShape
  <2> QED
    BY <1>9, <2>3, CompleteEffect DEF CallShape
<1>10. CASE DispatchReschedule
  <2>1. scheduled' \in BOOLEAN
    BY <1>10 DEF DispatchReschedule, schedule_dispatch_locked
  <2> QED
    BY <1>10, <2>1 DEF DispatchReschedule, CallShape, ghostVars
<1> QED
  BY <1>2, <1>3, <1>4, <1>5, <1>6, <1>7, <1>8, <1>9, <1>10 DEF DispatchMove, Handler

LEMMA CallInvStep ==
    ASSUME Shape, CallsInv, DispatchMove PROVE CallInv'
<1>1. Shape /\ CallShape /\ CallInv
  BY DEF CallsInv
<1> USE <1>1
<1>2. mutation_queue \in Seq(Callers)
      /\ \A i \in 1..Len(mutation_queue) : mutation_queue[i] \in Callers
  BY DEF CallShape
<1>3. CASE Quiet
  BY <1>3 DEF CallInv, AtWork, Quiet, mutationVars, queueVars, handlerVars, ghostVars
<1>4. CASE Cancels
  <2>1. PICK code \in Cancelled : cancel_pending(code)
    BY <1>4 DEF Cancels
  <2>2. /\ mutation_queue' = <<>>
        /\ \A c \in Callers :
              call'[c] = IF call[c].state = "queued" THEN Ticket(code, 0) ELSE call[c]
    BY <2>1, CancelEffect
  <2>3. Ticket(code, 0).state = "done" /\ Ticket(code, 0).result # Handled /\ Ticket(code, 0).executed = 0
    BY CallTypes
  <2>4. \A c \in Callers : call'[c].state # "queued"
    BY <2>2, <2>3
  <2>5. UNCHANGED <<handler, current, verdict>>
    BY <1>4 DEF Cancels, handlerVars
  <2> QED
    BY <2>2, <2>3, <2>4, <2>5 DEF CallInv, AtWork
<1>5. CASE DispatchOmInstalled
  BY <1>5 DEF DispatchOmInstalled, CallInv, AtWork, handlerVars
<1>6. ASSUME NEW c \in Callers, DispatchStopped(c) \/ DispatchStale(c) PROVE CallInv'
  <2>1. /\ UNCHANGED <<mutation_queue, handler, current, verdict>>
        /\ call[c].state = "idle" /\ call'[c].state = "done"
        /\ call'[c].executed = 0 /\ call'[c].result # Handled
        /\ \A d \in Callers : d # c => call'[d] = call[d]
    BY <1>6, RefuseEffect DEF handlerVars
  <2>2. \A i \in 1..Len(mutation_queue) : call'[mutation_queue[i]] = call[mutation_queue[i]]
    BY <1>2, <2>1 DEF CallInv
  <2>3. AtWork => call'[current] = call[current]
    BY <2>1 DEF CallInv
  <2> QED
    BY <2>1, <2>2, <2>3 DEF CallInv, AtWork
<1>7. ASSUME NEW c \in Callers, NEW s \in Sequences, DispatchEnqueue(c, s)
      PROVE  CallInv'
  <2> DEFINE q == mutation_queue  n == Len(mutation_queue)
  <2>1. /\ call[c].state = "idle"
        /\ Len(q') = n + 1 /\ n \in Nat
        /\ \A i \in 1..n : q'[i] = q[i]
        /\ q'[n + 1] = c
        /\ \A d \in Callers : d # c => call'[d] = call[d]
        /\ call'[c].state = "queued" /\ call'[c].executed = 0
        /\ UNCHANGED <<handler, current, verdict>>
    BY <1>7, SubmitEffect DEF handlerVars, CallShape
  <2>2. \A i \in 1..n : q[i] # c
    BY <2>1 DEF CallInv
  <2>3. \A i, j \in 1..Len(q') : q'[i] = q'[j] => i = j
    <3>1. \A i \in 1..(n + 1) : i \in 1..n \/ i = n + 1
      BY <2>1
    <3>2. \A i, j \in 1..n : q[i] = q[j] => i = j
      BY DEF CallInv
    <3> QED
      BY <2>1, <2>2, <3>1, <3>2
  <2>4. \A i \in 1..Len(q') : call'[q'[i]].state = "queued"
    <3>1. \A i \in 1..(n + 1) : i \in 1..n \/ i = n + 1
      BY <2>1
    <3>2. \A i \in 1..n : call'[q[i]] = call[q[i]]
      BY <1>2, <2>1, <2>2
    <3> QED
      BY <2>1, <3>1, <3>2 DEF CallInv
  <2>5. ASSUME NEW d \in Callers, call'[d].state = "queued"
        PROVE  \E i \in 1..Len(q') : q'[i] = d
    <3>1. CASE d = c
      <4>1. n + 1 \in 1..Len(q')
        BY <2>1
      <4> QED
        BY <2>1, <3>1, <4>1
    <3>2. CASE d # c
      <4>1. PICK i \in 1..n : q[i] = d
        BY <2>1, <2>5, <3>2 DEF CallInv
      <4>2. i \in 1..Len(q')
        BY <2>1
      <4> QED
        BY <2>1, <4>1, <4>2
    <3> QED
      BY <3>1, <3>2
  <2>6. AtWork => current # c
    BY <2>1 DEF CallInv
  <2> QED
    BY <2>1, <2>3, <2>4, <2>5, <2>6 DEF CallInv, AtWork
<1>8. CASE DispatchPop
  <2>1. CASE mutation_queue = <<>>
    BY <1>8, <2>1 DEF DispatchPop, CallInv, AtWork, handlerVars
  <2>2. CASE mutation_queue # <<>>
    <3> DEFINE q == mutation_queue  h == Head(mutation_queue)
    <3>1. /\ handler = "idle" /\ handler' = "popped" /\ current' = h /\ q' = Tail(q)
          /\ \A c \in Callers :
                /\ c # h => call'[c] = call[c]
                /\ call'[c].state = IF c = h THEN "popped" ELSE call[c].state
                /\ call'[c].executed = call[c].executed
                /\ call'[c].result = call[c].result
      BY <1>8, <2>2, PopEffect
    <3>2. /\ h \in Callers /\ h = q[1] /\ 1 \in 1..Len(q)
          /\ Len(Tail(q)) = Len(q) - 1
          /\ \A i \in 1..Len(Tail(q)) : i + 1 \in 1..Len(q) /\ Tail(q)[i] = q[i + 1]
      BY <2>2, HeadIsCaller
    <3>3. \A i, j \in 1..Len(q') : q'[i] = q'[j] => i = j
      <4>1. \A i, j \in 1..Len(q) : q[i] = q[j] => i = j
        BY DEF CallInv
      <4>2. \A i, j \in 1..Len(Tail(q)) : q[i + 1] = q[j + 1] => i + 1 = j + 1
        BY <3>2, <4>1
      <4> QED
        BY <3>1, <3>2, <4>2
    <3>4. \A i \in 1..Len(q') : call'[q'[i]].state = "queued"
      <4>1. \A i \in 1..Len(Tail(q)) : q[i + 1] # q[1] /\ q[i + 1] \in Callers
                                       /\ call[q[i + 1]].state = "queued"
        <5>1. \A i \in 1..Len(Tail(q)) : i + 1 # 1
          OBVIOUS
        <5> QED
          BY <1>2, <3>2, <5>1 DEF CallInv
      <4>2. \A i \in 1..Len(Tail(q)) : call'[Tail(q)[i]].state = "queued"
        BY <3>1, <3>2, <4>1
      <4> QED
        BY <3>1, <4>2
    <3>5. ASSUME NEW c \in Callers, call'[c].state = "queued"
          PROVE  \E i \in 1..Len(q') : q'[i] = c
      <4>1. c # h /\ call[c].state = "queued"
        BY <3>1, <3>5
      <4>2. PICK j \in 1..Len(q) : q[j] = c
        BY <4>1 DEF CallInv
      <4>3. j # 1
        BY <3>2, <4>1, <4>2
      <4>4. j - 1 \in 1..Len(Tail(q)) /\ (j - 1) + 1 = j
        BY <3>2, <4>3
      <4>5. Tail(q)[j - 1] = c
        BY <3>2, <4>2, <4>4
      <4> QED
        BY <3>1, <4>4, <4>5
    <3>6. \A c \in Callers : call[c].state # "popped"
      BY <3>1 DEF CallInv, AtWork
    <3>7. call[h].state = "queued"
      BY <3>2 DEF CallInv
    <3> QED
      BY <3>1, <3>2, <3>3, <3>4, <3>5, <3>6, <3>7 DEF CallInv, AtWork
  <2> QED
    BY <2>1, <2>2
<1>9. CASE DispatchCheck
  <2>1. verdict' # "none"
    BY <1>9 DEF DispatchCheck, Verdict
  <2> QED
    BY <1>9, <2>1 DEF DispatchCheck, CallInv, AtWork, queueVars
<1>10. CASE DispatchComplete
  <2>1. /\ handler = "checked" /\ handler' = "completed"
        /\ UNCHANGED <<mutation_queue, current, verdict>>
        /\ \A c \in Callers : c # current => call'[c] = call[c]
        /\ call'[current].state = "done"
        /\ call'[current].executed = IF call'[current].result = Handled THEN 1 ELSE 0
    BY <1>10, CompleteEffect
  <2>2. current \in Callers /\ \A c \in Callers : call[c].state = "popped" => c = current
    BY <2>1 DEF CallInv, AtWork
  <2>3. \A i \in 1..Len(mutation_queue) : mutation_queue[i] # current
    BY <2>1 DEF CallInv, AtWork
  <2> QED
    BY <1>2, <2>1, <2>2, <2>3 DEF CallInv, AtWork
<1>11. CASE DispatchReschedule
  <2>1. \A c \in Callers : call[c].state # "popped"
    BY <1>11 DEF DispatchReschedule, CallInv, AtWork
  <2> QED
    BY <1>11, <2>1 DEF DispatchReschedule, CallInv, AtWork
<1> QED
  BY <1>3, <1>4, <1>5, <1>6, <1>7, <1>8, <1>9, <1>10, <1>11 DEF DispatchMove, Handler

-----------------------------------------------------------------------------
(* How far stop(), the constructor and the thread can get in a step. *)
Ended == {"cancelled", "joining", "joined"}

LEMMA LifeMoves ==
    ASSUME DispatchInv, [NextDispatch]_vars
    PROVE  /\ init = "returned" => init' = "returned"
           /\ loop = "exited" => loop' = "exited"
           /\ loop' = "exited" => loop = "exited" \/ (handler = "idle" /\ UNCHANGED handlerVars)
           /\ stopper' \in Ended => stopper \in Ended \/ mutation_queue' = <<>>
<1> USE DEF Ended, lifeVars, stopVars, connVars
<1>1. CASE PlainCallback
  BY <1>1 DEF PlainCallback, StartThread, CoreConnected, MixerLoaded, MixerFailed,
     Observe, RunStop, NextSource, mutationVars
<1>2. CASE DispatchOmInstalled
  BY <1>2 DEF DispatchOmInstalled, OmInstalled
<1>3. CASE DispatchCoreLost \/ DispatchExitThread
  BY <1>3 DEF DispatchCoreLost, DispatchExitThread, CoreLost, ExitThread
<1>4. CASE DispatchStopCancel \/ DispatchDealloc
  BY <1>4 DEF DispatchStopCancel, DispatchDealloc, StopCancel, Dealloc, cancel_pending
<1>5. CASE PlainThread
  BY <1>5 DEF PlainThread, InitReturns, StopRequest, StopPost, StopJoin,
     ReconnectCheck, ReconnectRead, ReconnectPost, ReconnectSleeps, ReconnectPosted, ReconnectReturns
<1>6. ASSUME NEW r \in Reconnectors, DispatchRunReconnect(r) \/ DispatchReconnectCancel(r)
      PROVE  UNCHANGED <<init, loop, stopper>>
  BY <1>6 DEF DispatchRunReconnect, DispatchReconnectCancel, RunReconnect, ReconnectCancel
<1>7. ASSUME NEW c \in Callers, Submit(c) PROVE UNCHANGED <<init, loop, stopper>>
  BY <1>7 DEF Submit, DispatchStopped, DispatchStale, DispatchEnqueue
<1>8. CASE Handler
  BY <1>8 DEF Handler, DispatchPop, DispatchCheck, DispatchComplete, DispatchReschedule
<1>9. CASE UNCHANGED vars
  BY <1>9 DEF vars
<1> QED
  BY <1>1, <1>2, <1>3, <1>4, <1>5, <1>6, <1>7, <1>8, <1>9 DEF NextDispatch

LEMMA EndInvStep ==
    ASSUME DispatchInv, [NextDispatch]_vars PROVE EndInv'
<1>1. /\ Shape /\ CallShape /\ CallInv /\ EndInv /\ LifeInv /\ DispatchMove
  BY DispatchCases DEF DispatchInv, ConnInv, Shape, CallsInv
<1> USE <1>1
<1>2. ASSUME stopper' \in Ended PROVE mutation_queue' = <<>>
  <2>1. stopper \in Ended => mutation_queue = <<>>
    BY DEF EndInv, Ended
  <2>2. SUFFICES ASSUME stopper \in Ended PROVE mutation_queue' = <<>>
    BY <1>2, LifeMoves
  <2>3. CASE Quiet \/ Cancels
    BY <2>1, <2>2, <2>3 DEF Quiet, mutationVars, queueVars, Cancels, cancel_pending
  <2>4. CASE DispatchOmInstalled \/ Handler
    BY <2>1, <2>2, <2>4 DEF DispatchOmInstalled, Handler, DispatchPop, DispatchCheck,
       DispatchComplete, DispatchReschedule, queueVars
  <2>5. ASSUME NEW c \in Callers, DispatchStopped(c) \/ DispatchStale(c)
        PROVE  mutation_queue' = <<>>
    BY <2>1, <2>2, <2>5, RefuseEffect
  <2>6. ASSUME NEW c \in Callers, NEW s, DispatchEnqueue(c, s) PROVE FALSE
    BY <2>2, <2>6 DEF DispatchEnqueue, Accepting, LifeInv, Ended
  <2> QED
    BY <1>1, <2>3, <2>4, <2>5, <2>6 DEF DispatchMove
<1>3. ASSUME init' # "returned", NEW c \in Callers PROVE call'[c].state = "idle"
  <2>1. init # "returned" /\ \A d \in Callers : call[d].state = "idle"
    BY <1>3, LifeMoves DEF EndInv
  <2>2. CASE Quiet \/ DispatchOmInstalled \/ DispatchCheck \/ DispatchReschedule
    BY <2>1, <2>2 DEF Quiet, mutationVars, queueVars, DispatchOmInstalled, DispatchCheck,
       DispatchReschedule
  <2>3. CASE Cancels
    <3>1. PICK code \in Cancelled : cancel_pending(code)
      BY <2>3 DEF Cancels
    <3>2. call'[c] = call[c]
      BY <2>1, <3>1, CancelEffect
    <3> QED
      BY <2>1, <3>2
  <2>4. \A d \in Callers : ~ CanSubmit(d)
    BY <2>1 DEF CanSubmit
  <2>5. CASE DispatchPop
    <3>1. mutation_queue = <<>>
      <4>1. SUFFICES ASSUME mutation_queue # <<>> PROVE FALSE
        OBVIOUS
      <4>2. call[Head(mutation_queue)].state = "queued" /\ Head(mutation_queue) \in Callers
        BY <4>1, HeadIsCaller DEF CallInv
      <4> QED
        BY <2>1, <4>2
    <3> QED
      BY <2>1, <2>5, <3>1 DEF DispatchPop
  <2>6. ~ DispatchComplete
    BY <2>1 DEF DispatchComplete, CallInv, AtWork
  <2> QED
    BY <1>1, <2>2, <2>3, <2>4, <2>5, <2>6 DEF DispatchMove, Handler, DispatchStopped,
       DispatchStale, DispatchEnqueue
<1>4. ASSUME loop' = "exited" PROVE handler' = "idle"
  <2>1. handler = "idle"
    BY <1>4, LifeMoves DEF EndInv
  <2>2. SUFFICES ASSUME loop = "exited" PROVE handler' = "idle"
    BY <1>4, <2>1, LifeMoves DEF handlerVars
  <2>3. ~ Handler
    BY <2>1, <2>2 DEF Handler, DispatchPop, NextSource, DispatchCheck, DispatchComplete,
       DispatchReschedule
  <2> QED
    BY <1>1, <2>1, <2>3 DEF DispatchMove, Quiet, Cancels, mutationVars, handlerVars,
       DispatchOmInstalled, DispatchStopped, DispatchStale, DispatchEnqueue
<1> QED
  BY <1>2, <1>3, <1>4 DEF EndInv, Ended

(* Only the handler, a submission and the thread's end touch the dispatcher's *)
(* sources.                                                                   *)
LEMMA OtherSourcesStep ==
    ASSUME DispatchInv, [NextDispatch]_vars, loop' # "exited",
           ~ DispatchPop, ~ DispatchReschedule, \A c \in Callers : ~ Submit(c),
           \A i, j \in At(sources, DispatchSource) : i = j
    PROVE  /\ \A i, j \in At(sources', DispatchSource) : i = j
           /\ At(sources', DispatchSource) = {} <=> At(sources, DispatchSource) = {}
<1> DEFINE D == DispatchSource
<1>1. sources \in Seq(DispatchSourceSet)
  BY DEF DispatchInv
<1>2. ASSUME NEW s, s # D, Runs(s)
      PROVE  /\ \A i, j \in At(sources', D) : i = j
             /\ At(sources', D) = {} <=> At(sources, D) = {}
  BY <1>1, <1>2, AtOnceTail DEF Runs
<1>3. ASSUME NEW s \in DispatchSourceSet, s # D, Attaches(s)
      PROVE  At(sources', D) = At(sources, D)
  BY <1>1, <1>3, AtAppend DEF Attaches
<1> HIDE DEF D
<1>4. CASE UNCHANGED sources
  BY <1>4 DEF D
<1> QED
  BY <1>2, <1>3, <1>4, SourcesMove, SourcesAreDistinct DEF D

LEMMA ScheduleInvStep ==
    ASSUME DispatchInv, [NextDispatch]_vars PROVE ScheduleInv'
<1>1. Shape /\ CallShape /\ sources \in Seq(DispatchSourceSet)
      /\ mutation_queue \in Seq(Callers) /\ CallInv
  BY DEF DispatchInv, ConnInv, CallsInv, CallShape
<1>2. DispatchSources = At(sources, DispatchSource)
  BY DEF DispatchSources, At
<1>3. DispatchSources' = At(sources', DispatchSource)
  BY DEF DispatchSources, At
<1>4. SUFFICES ASSUME loop' # "exited"
      PROVE  /\ mutation_queue' # <<>> => scheduled'
             /\ scheduled' <=> (DispatchSources' # {} \/ handler' # "idle")
             /\ \A i, j \in DispatchSources' : i = j
             /\ ~(DispatchSources' # {} /\ handler' # "idle")
  BY DEF ScheduleInv
<1>5. /\ mutation_queue # <<>> => scheduled
      /\ scheduled <=> (DispatchSources # {} \/ handler # "idle")
      /\ \A i, j \in DispatchSources : i = j
      /\ ~(DispatchSources # {} /\ handler # "idle")
  BY <1>4, LifeMoves DEF DispatchInv, ScheduleInv
<1>6. CASE ~ DispatchPop /\ ~ DispatchReschedule /\ \A c \in Callers : ~ Submit(c)
  <2>1. /\ \A i, j \in DispatchSources' : i = j
        /\ DispatchSources' = {} <=> DispatchSources = {}
    BY <1>2, <1>3, <1>4, <1>5, <1>6, OtherSourcesStep
  <2>2. /\ mutation_queue' = mutation_queue \/ mutation_queue' = <<>>
        /\ scheduled' = scheduled
        /\ handler' = "idle" <=> handler = "idle"
    <3>1. CASE Quiet
      BY <3>1 DEF Quiet, mutationVars, queueVars, handlerVars
    <3>2. CASE Cancels
      BY <3>2 DEF Cancels, cancel_pending, handlerVars
    <3>3. CASE DispatchOmInstalled \/ DispatchCheck \/ DispatchComplete
      BY <3>3 DEF DispatchOmInstalled, DispatchCheck, DispatchComplete, queueVars, handlerVars
    <3> QED
      <4>1. CASE ConnectionMove
        BY <3>1, <3>2, <3>3, <4>1, ConnectionCases
      <4>2. CASE UNCHANGED vars
        BY <3>1, <4>2 DEF Quiet, vars, connVars
      <4> QED
        BY <1>6, <3>3, <4>1, <4>2 DEF NextDispatch, ConnectionMove, Handler
  <2> QED
    BY <1>5, <2>1, <2>2
<1>7. CASE DispatchPop
  <2>1. sources # <<>> /\ Head(sources) = DispatchSource /\ sources' = Tail(sources)
        /\ handler = "idle"
    BY <1>7 DEF DispatchPop, NextSource
  <2>2. DispatchSources # {}
    BY <1>1, <1>2, <2>1, AtHead
  <2>3. DispatchSources' = {}
    BY <1>1, <1>2, <1>3, <1>5, <2>1, AtOnceTail
  <2>4. CASE mutation_queue = <<>>
    <3>1. scheduled' = FALSE /\ mutation_queue' = mutation_queue /\ handler' = handler
      BY <1>7, <2>4 DEF DispatchPop, handlerVars
    <3> QED
      BY <2>1, <2>3, <2>4, <3>1
  <2>5. CASE mutation_queue # <<>>
    <3>1. handler' = "popped" /\ scheduled' = scheduled
      BY <1>7, <2>5 DEF DispatchPop
    <3> QED
      BY <1>5, <2>2, <2>3, <3>1
  <2> QED
    BY <2>4, <2>5
<1>8. ASSUME At(sources, DispatchSource) = {}, sources' = Append(sources, DispatchSource)
      PROVE  DispatchSources' # {} /\ \A i, j \in DispatchSources' : i = j
  <2>1. At(sources', DispatchSource) = {Len(sources) + 1}
    BY <1>1, <1>8, AtAppend, SourcesAreDistinct
  <2> QED
    BY <1>3, <2>1
<1>9. CASE DispatchReschedule
  <2>1. DispatchSources = {} /\ handler' = "idle" /\ mutation_queue' = mutation_queue
    BY <1>5, <1>9 DEF DispatchReschedule
  <2>2. CASE mutation_queue = <<>>
    BY <1>2, <1>3, <1>9, <2>1, <2>2 DEF DispatchReschedule, schedule_dispatch_locked
  <2>3. CASE mutation_queue # <<>>
    BY <1>2, <1>8, <1>9, <2>1, <2>3 DEF DispatchReschedule, schedule_dispatch_locked
  <2> QED
    BY <2>2, <2>3
<1>10. ASSUME NEW c \in Callers, DispatchStopped(c) \/ DispatchStale(c)
       PROVE  UNCHANGED <<sources, mutation_queue, scheduled, handler>>
  BY <1>1, <1>10, RefuseEffect DEF connVars, handlerVars
<1>11. ASSUME NEW c \in Callers, NEW s \in {NoSequence, sequence}, DispatchEnqueue(c, s)
       PROVE  /\ mutation_queue' # <<>> => scheduled'
              /\ scheduled' <=> (DispatchSources' # {} \/ handler' # "idle")
              /\ \A i, j \in DispatchSources' : i = j
              /\ ~(DispatchSources' # {} /\ handler' # "idle")
  <2>1. mutation_queue' # <<>> /\ handler' = handler
    BY <1>1, <1>11 DEF DispatchEnqueue, handlerVars
  <2>2. CASE scheduled
    <3>1. scheduled' = scheduled /\ sources' = sources
      BY <1>11, <2>2 DEF DispatchEnqueue, schedule_dispatch_locked
    <3> QED
      BY <1>2, <1>3, <1>5, <2>1, <2>2, <3>1
  <2>3. CASE ~ scheduled
    <3>1. scheduled' = TRUE /\ sources' = Append(sources, DispatchSource)
      BY <1>11, <2>1, <2>3 DEF DispatchEnqueue, schedule_dispatch_locked
    <3> QED
      BY <1>2, <1>5, <1>8, <2>1, <2>3, <3>1
  <2> QED
    BY <2>2, <2>3
<1>12. ASSUME NEW c \in Callers, DispatchStopped(c) \/ DispatchStale(c)
       PROVE  DispatchSources' = DispatchSources
  BY <1>2, <1>3, <1>10, <1>12
<1> QED
  BY <1>5, <1>6, <1>7, <1>9, <1>10, <1>11, <1>12 DEF Submit

-----------------------------------------------------------------------------
(* What is still to be done after a step that submits nothing was to be done *)
(* before it, with the place it was given.                                   *)
SamePlace(c) ==
    /\ call'[c].expected = call[c].expected
    /\ call'[c].enqueued = call[c].enqueued
    /\ call'[c].order = call[c].order

(* What a step does to the call of one caller who submits nothing in it. *)
Progress(c) ==
    \/ call'[c] = call[c]
    \/ call[c].state = "queued" /\ call'[c].state = "done"
    \/ /\ call[c].state = "queued" /\ call'[c].state = "popped"
       /\ call'[c].expected = call[c].expected
       /\ call'[c].expected_sequence = call[c].expected_sequence
    \/ /\ call[c].state = "popped" /\ call'[c].state = "done"
       /\ handler = "checked" /\ current = c

LEMMA CallProgress ==
    ASSUME CallShape, CallInv, NEW c \in Callers,
           \/ Quiet \/ Cancels \/ DispatchOmInstalled \/ Handler
           \/ \E d \in Callers : d # c /\ (DispatchStopped(d) \/ DispatchStale(d))
           \/ \E d \in Callers, s \in Sequences : Shape /\ d # c /\ DispatchEnqueue(d, s)
    PROVE  Progress(c)
<1> USE DEF Progress
<1>1. CASE Quiet \/ DispatchOmInstalled \/ DispatchCheck \/ DispatchReschedule
  BY <1>1 DEF Quiet, mutationVars, queueVars, DispatchOmInstalled, DispatchCheck,
     DispatchReschedule
<1>2. CASE Cancels
  <2>1. PICK code \in Cancelled : cancel_pending(code)
    BY <1>2 DEF Cancels
  <2>2. call'[c] = IF call[c].state = "queued" THEN Ticket(code, 0) ELSE call[c]
    BY <2>1, CancelEffect
  <2>3. Ticket(code, 0).state = "done"
    BY CallTypes
  <2> QED
    BY <2>2, <2>3
<1>3. CASE DispatchPop
  <2>1. CASE mutation_queue = <<>>
    BY <1>3, <2>1 DEF DispatchPop
  <2>2. CASE mutation_queue # <<>>
    <3>1. call[Head(mutation_queue)].state = "queued"
      BY <2>2, HeadIsCaller DEF CallInv
    <3> QED
      BY <1>3, <2>2, <3>1, PopEffect
  <2> QED
    BY <2>1, <2>2
<1>4. CASE DispatchComplete
  <2>1. /\ handler = "checked" /\ call'[current].state = "done"
        /\ (\A d \in Callers : d # current => call'[d] = call[d])
    BY <1>4, CompleteEffect
  <2>2. call[current].state = "popped"
    BY <2>1 DEF CallInv, AtWork
  <2> QED
    BY <2>1, <2>2
<1>5. ASSUME NEW d \in Callers, d # c, DispatchStopped(d) \/ DispatchStale(d) PROVE Progress(c)
  BY <1>5, RefuseEffect
<1>6. ASSUME NEW d \in Callers, NEW s \in Sequences, Shape, d # c, DispatchEnqueue(d, s)
      PROVE  Progress(c)
  BY <1>6, SubmitEffect
<1> QED
  BY <1>1, <1>2, <1>3, <1>4, <1>5, <1>6 DEF Handler

LEMMA OutstandingShrinks ==
    ASSUME CallsInv,
           \/ Quiet \/ Cancels \/ DispatchOmInstalled \/ Handler
           \/ \E c \in Callers : DispatchStopped(c) \/ DispatchStale(c)
    PROVE  \A c \in Callers : Outstanding(c)' => Outstanding(c) /\ SamePlace(c)
<1>1. CallShape /\ CallInv
  BY DEF CallsInv
<1> USE <1>1 DEF Outstanding, SamePlace
<1>2. CASE Quiet \/ DispatchOmInstalled \/ DispatchCheck \/ DispatchReschedule
  BY <1>2 DEF Quiet, mutationVars, queueVars, DispatchOmInstalled, DispatchCheck,
     DispatchReschedule
<1>3. CASE Cancels
  <2>1. PICK code \in Cancelled : cancel_pending(code)
    BY <1>3 DEF Cancels
  <2>2. \A c \in Callers :
           call'[c] = IF call[c].state = "queued" THEN Ticket(code, 0) ELSE call[c]
    BY <2>1, CancelEffect
  <2>3. Ticket(code, 0).state = "done"
    BY CallTypes
  <2> QED
    BY <2>2, <2>3
<1>4. ASSUME NEW d \in Callers, DispatchStopped(d) \/ DispatchStale(d), NEW c \in Callers, Outstanding(c)'
      PROVE  Outstanding(c) /\ SamePlace(c)
  BY <1>4, RefuseEffect
<1>5. CASE DispatchPop
  <2>1. CASE mutation_queue = <<>>
    BY <1>5, <2>1 DEF DispatchPop
  <2>2. CASE mutation_queue # <<>>
    <3>1. call[Head(mutation_queue)].state = "queued"
      BY <2>2, HeadIsCaller DEF CallInv
    <3> QED
      BY <1>5, <2>2, <3>1, PopEffect
  <2> QED
    BY <2>1, <2>2
<1>6. CASE DispatchComplete
  BY <1>6, CompleteEffect
<1> QED
  BY <1>2, <1>3, <1>4, <1>5, <1>6 DEF Handler

LEMMA QueueOrderInvStep ==
    ASSUME Shape, CallsInv, DispatchMove PROVE QueueOrderInv'
<1>1. Shape /\ CallShape /\ CallInv /\ QueueOrderInv
  BY DEF CallsInv
<1> USE <1>1
<1> DEFINE q == mutation_queue  n == Len(mutation_queue)
<1>2. /\ n \in Nat /\ generation \in Nat /\ order \in Nat
      /\ \A i \in 1..n : q[i] \in Callers /\ Outstanding(q[i])
      /\ AtWork => current \in Callers /\ Outstanding(current)
  BY DEF CallShape, Shape, CallInv, Outstanding
<1>3. \A c \in Callers : call[c].enqueued \in Nat /\ call[c].order \in Nat /\ call[c].expected \in Nat
  BY DEF CallShape, CallRecord
<1>4. ASSUME \A c \in Callers : Outstanding(c)' => Outstanding(c) /\ SamePlace(c),
             UNCHANGED <<order, generation>>
      PROVE  \A c \in Callers : Outstanding(c)' =>
                /\ call'[c].expected = call'[c].enqueued
                /\ call'[c].enqueued <= generation'
                /\ call'[c].enqueued = generation' => call'[c].order <= order'
  BY <1>4 DEF SamePlace, QueueOrderInv
<1>5. CallInv'
  BY CallInvStep
<1>6. \A i \in 1..Len(q') : q'[i] \in Callers /\ Outstanding(q[i])'
  <2>1. mutation_queue' \in Seq(Callers)
    BY CallShapeStep DEF CallShape
  <2> QED
    BY <1>5, <2>1 DEF CallInv, Outstanding
<1>7. ASSUME \A c \in Callers : Outstanding(c)' => Outstanding(c) /\ SamePlace(c),
             UNCHANGED <<order, generation, mutation_queue>>,
             AtWork' => AtWork /\ current' = current
      PROVE  QueueOrderInv'
  <2>1. \A i \in 1..n : SamePlace(q[i])
    BY <1>6, <1>7
  <2>2. AtWork' => SamePlace(current)
    BY <1>5, <1>7 DEF CallInv, Outstanding
  <2> QED
    BY <1>4, <1>7, <2>1, <2>2 DEF QueueOrderInv, Precedes, SamePlace
<1>8. CASE Quiet
  BY <1>7, <1>8, OutstandingShrinks DEF Quiet, mutationVars, queueVars, handlerVars, AtWork,
     Outstanding, SamePlace
<1>9. CASE Cancels
  <2>1. PICK code \in Cancelled : cancel_pending(code)
    BY <1>9 DEF Cancels
  <2>2. mutation_queue' = <<>> /\ UNCHANGED <<order, generation>>
    BY <1>9, <2>1, CancelEffect DEF Cancels
  <2>3. \A c \in Callers : Outstanding(c)' => Outstanding(c) /\ SamePlace(c)
    BY <1>9, OutstandingShrinks
  <2> QED
    BY <1>4, <2>2, <2>3 DEF QueueOrderInv
<1>10. CASE DispatchOmInstalled
  <2>1. generation' = generation + 1 /\ order' = 0
        /\ UNCHANGED <<mutation_queue, call, handler, current>>
    BY <1>10 DEF DispatchOmInstalled, OmInstalled, handlerVars
  <2>2. \A c \in Callers : Outstanding(c)' => Outstanding(c)
    BY <2>1 DEF Outstanding
  <2> QED
    BY <1>2, <1>3, <2>1, <2>2 DEF QueueOrderInv, Precedes, AtWork
<1>11. ASSUME NEW c \in Callers, DispatchStopped(c) \/ DispatchStale(c) PROVE QueueOrderInv'
  <2>1. UNCHANGED <<order, generation, mutation_queue, handler, current>>
    BY <1>11, RefuseEffect DEF connVars, handlerVars
  <2>2. \A d \in Callers : Outstanding(d)' => Outstanding(d) /\ SamePlace(d)
    BY <1>11, OutstandingShrinks
  <2> QED
    BY <1>7, <2>1, <2>2 DEF AtWork
<1>12. ASSUME NEW c \in Callers, NEW s \in Sequences, DispatchEnqueue(c, s)
       PROVE  QueueOrderInv'
  <2>1. /\ ~ Outstanding(c) /\ order' = order + 1 /\ UNCHANGED <<handler, current, generation>>
        /\ Len(q') = n + 1 /\ (\A i \in 1..n : q'[i] = q[i]) /\ q'[n + 1] = c
        /\ \A d \in Callers : d # c => call'[d] = call[d]
        /\ call'[c].expected = generation /\ call'[c].enqueued = generation
        /\ call'[c].order = order + 1
    BY <1>12, SubmitEffect DEF Outstanding, handlerVars
  <2>2. \A d \in Callers : Outstanding(d)' => d = c \/ (Outstanding(d) /\ call'[d] = call[d])
    BY <2>1 DEF Outstanding
  <2>3. \A d \in Callers : Outstanding(d)' =>
           /\ call'[d].expected = call'[d].enqueued
           /\ call'[d].enqueued <= generation'
           /\ call'[d].enqueued = generation' => call'[d].order <= order'
    BY <1>2, <1>3, <2>1, <2>2 DEF QueueOrderInv
  <2>4. \A d \in Callers : Outstanding(d) => d # c /\ call'[d] = call[d] /\ Precedes(call[d], call'[c])
    BY <1>2, <1>3, <2>1 DEF QueueOrderInv, Precedes
  <2>5. \A i, j \in 1..Len(q') : i < j => Precedes(call'[q'[i]], call'[q'[j]])
    <3>1. SUFFICES ASSUME NEW i \in 1..(n + 1), NEW j \in 1..(n + 1), i < j
                   PROVE  Precedes(call'[q'[i]], call'[q'[j]])
      BY <2>1
    <3>2. i \in 1..n /\ q'[i] = q[i] /\ call'[q[i]] = call[q[i]] /\ Precedes(call[q[i]], call'[c])
      BY <1>2, <2>1, <2>4, <3>1
    <3>3. CASE j = n + 1
      BY <2>1, <3>2, <3>3
    <3>4. CASE j # n + 1
      <4>1. j \in 1..n /\ q'[j] = q[j] /\ call'[q[j]] = call[q[j]]
        BY <1>2, <2>1, <2>4, <3>4
      <4> QED
        BY <3>1, <3>2, <4>1 DEF QueueOrderInv
    <3> QED
      BY <3>3, <3>4
  <2>6. AtWork' => \A i \in 1..Len(q') : Precedes(call'[current'], call'[q'[i]])
    <3>1. SUFFICES ASSUME AtWork, NEW i \in 1..(n + 1)
                   PROVE  Precedes(call'[current], call'[q'[i]])
      BY <2>1 DEF AtWork
    <3>2. call'[current] = call[current] /\ Precedes(call[current], call'[c])
      BY <1>2, <2>4, <3>1
    <3>3. CASE i = n + 1
      BY <2>1, <3>2, <3>3
    <3>4. CASE i # n + 1
      <4>1. i \in 1..n /\ q'[i] = q[i] /\ call'[q[i]] = call[q[i]]
        BY <1>2, <2>1, <2>4, <3>4
      <4> QED
        BY <3>1, <3>2, <4>1 DEF QueueOrderInv
    <3> QED
      BY <3>3, <3>4
  <2> QED
    BY <2>3, <2>5, <2>6 DEF QueueOrderInv
<1>13. CASE DispatchPop
  <2>1. \A c \in Callers : Outstanding(c)' => Outstanding(c) /\ SamePlace(c)
    BY <1>13, OutstandingShrinks DEF Handler
  <2>2. CASE mutation_queue = <<>>
    <3>1. UNCHANGED <<order, generation, mutation_queue, handler, current>>
      BY <1>13, <2>2 DEF DispatchPop, handlerVars
    <3> QED
      BY <1>7, <2>1, <3>1 DEF AtWork
  <2>3. CASE mutation_queue # <<>>
    <3>1. /\ current' = q[1] /\ q' = Tail(q) /\ Len(Tail(q)) = n - 1 /\ 1 \in 1..n
          /\ \A i \in 1..Len(Tail(q)) : i + 1 \in 1..n /\ Tail(q)[i] = q[i + 1]
          /\ UNCHANGED <<order, generation>>
      BY <1>13, <2>3, PopEffect, HeadIsCaller
    <3>2. \A i \in 1..n : \A j \in 1..n : i < j =>
             /\ call'[q[i]].enqueued = call[q[i]].enqueued /\ call'[q[i]].order = call[q[i]].order
             /\ Precedes(call'[q[i]], call'[q[j]])
      BY <1>2, <1>13, <2>3, PopEffect DEF QueueOrderInv, Precedes
    <3>3. \A i, j \in 1..Len(Tail(q)) : i < j => Precedes(call'[q[i + 1]], call'[q[j + 1]])
      <4>1. \A i, j \in 1..Len(Tail(q)) : i < j => i + 1 < j + 1
        OBVIOUS
      <4> QED
        BY <3>1, <3>2, <4>1
    <3>4. \A i \in 1..Len(Tail(q)) : Precedes(call'[q[1]], call'[q[i + 1]])
      <4>1. \A i \in 1..Len(Tail(q)) : 1 < i + 1
        OBVIOUS
      <4> QED
        BY <3>1, <3>2, <4>1
    <3>5. \A i, j \in 1..Len(Tail(q)) : i < j => Precedes(call'[Tail(q)[i]], call'[Tail(q)[j]])
      BY <3>1, <3>3
    <3>6. \A i \in 1..Len(Tail(q)) : Precedes(call'[q[1]], call'[Tail(q)[i]])
      BY <3>1, <3>4
    <3> QED
      BY <1>4, <2>1, <3>1, <3>5, <3>6 DEF QueueOrderInv
  <2> QED
    BY <2>2, <2>3
<1>14. CASE DispatchCheck \/ DispatchReschedule
  <2>1. UNCHANGED <<order, generation, mutation_queue, call>> /\ (AtWork' => AtWork /\ current' = current)
    BY <1>14 DEF DispatchCheck, DispatchReschedule, connVars, queueVars, AtWork
  <2> QED
    BY <1>7, <2>1 DEF Outstanding, SamePlace
<1>15. CASE DispatchComplete
  <2>1. UNCHANGED <<order, generation, mutation_queue>> /\ ~ AtWork'
    BY <1>15, CompleteEffect DEF AtWork
  <2>2. \A c \in Callers : Outstanding(c)' => Outstanding(c) /\ SamePlace(c)
    BY <1>15, OutstandingShrinks DEF Handler
  <2> QED
    BY <1>7, <2>1, <2>2
<1> QED
  BY <1>8, <1>9, <1>10, <1>11, <1>12, <1>13, <1>14, <1>15 DEF DispatchMove, Handler

-----------------------------------------------------------------------------
(* The log and what is pending, when nothing new is submitted or executed. *)
LEMMA LogKept ==
    ASSUME CallsInv, UNCHANGED <<log, generation, order>>,
           \A c \in Callers : Outstanding(c)' => Outstanding(c) /\ SamePlace(c)
    PROVE  /\ \A i \in 1..Len(log') :
                 /\ log'[i].generation <= generation'
                 /\ log'[i].generation = generation' =>
                       /\ log'[i].order <= order'
                       /\ \A c \in Callers :
                             (Outstanding(c)' /\ call'[c].enqueued = generation') =>
                                log'[i].order < call'[c].order
           /\ ExecutedInOrder'
<1>1. LogInv
  BY DEF CallsInv
<1> QED
  BY <1>1 DEF LogInv, ExecutedInOrder, SamePlace

LEMMA LogInvStep ==
    ASSUME Shape, CallsInv, DispatchMove PROVE LogInv'
<1>1. Shape /\ CallShape /\ CallInv /\ QueueOrderInv /\ LogInv
  BY DEF CallsInv
<1> USE <1>1
<1>2. /\ generation \in Nat /\ order \in Nat /\ log \in Seq(LogRecord)
      /\ \A i \in 1..Len(log) : log[i].generation \in Nat /\ log[i].order \in Nat
  <2>1. generation \in Nat /\ order \in Nat /\ log \in Seq(LogRecord)
    BY DEF CallShape, Shape
  <2>2. \A i \in 1..Len(log) : log[i] \in LogRecord
    BY <2>1
  <2> QED
    BY <2>1, <2>2 DEF LogRecord
<1>3. \A c \in Callers : call[c].enqueued \in Nat /\ call[c].order \in Nat /\ call[c].expected \in Nat
  BY DEF CallShape, CallRecord
<1>4. AtWork => current \in Callers /\ Outstanding(current)
  BY DEF CallInv, Outstanding
<1>5. CallInv'
  BY CallInvStep
<1>6. ASSUME UNCHANGED <<log, generation, order>>,
             \A c \in Callers : Outstanding(c)' => Outstanding(c) /\ SamePlace(c),
             handler' = "checked" => handler = "checked" /\ current' = current /\ verdict' = verdict
      PROVE  LogInv'
  <2>1. handler' = "checked" => current \in Callers /\ SamePlace(current)
    BY <1>5, <1>6 DEF CallInv, AtWork, Outstanding
  <2>2. (handler' = "checked" /\ verdict' = "execute") => call'[current'].enqueued = generation'
    BY <1>6, <2>1 DEF LogInv, SamePlace
  <2> QED
    BY <1>6, <2>2, LogKept DEF LogInv
<1>7. CASE Quiet \/ Cancels
  <2>1. UNCHANGED <<log, generation, order, handler, current, verdict>>
    BY <1>7 DEF Quiet, Cancels, cancel_pending, mutationVars, queueVars, handlerVars, ghostVars
  <2> QED
    BY <1>6, <1>7, <2>1, OutstandingShrinks
<1>8. CASE DispatchOmInstalled
  <2>1. generation' = generation + 1 /\ handler' = "idle" /\ UNCHANGED log
    BY <1>8 DEF DispatchOmInstalled, OmInstalled, handlerVars, ghostVars
  <2>2. \A i \in 1..Len(log) : log[i].generation <= generation' /\ log[i].generation # generation'
    BY <1>2, <2>1 DEF LogInv
  <2> QED
    BY <2>1, <2>2 DEF LogInv, ExecutedInOrder
<1>9. ASSUME NEW c \in Callers, DispatchStopped(c) \/ DispatchStale(c) PROVE LogInv'
  <2>1. UNCHANGED <<log, generation, order, handler, current, verdict>>
    BY <1>9, RefuseEffect DEF connVars, handlerVars, ghostVars
  <2> QED
    BY <1>6, <1>9, <2>1, OutstandingShrinks
<1>10. ASSUME NEW c \in Callers, NEW s \in Sequences, DispatchEnqueue(c, s)
       PROVE  LogInv'
  <2>1. /\ ~ Outstanding(c) /\ order' = order + 1
        /\ UNCHANGED <<log, generation, handler, current, verdict>>
        /\ \A d \in Callers : d # c => call'[d] = call[d]
        /\ call'[c].order = order + 1
    BY <1>10, SubmitEffect DEF Outstanding, handlerVars
  <2>2. \A d \in Callers : Outstanding(d)' => d = c \/ (Outstanding(d) /\ call'[d] = call[d])
    BY <2>1 DEF Outstanding
  <2>3. \A i \in 1..Len(log') :
           /\ log'[i].generation <= generation'
           /\ log'[i].generation = generation' =>
                 /\ log'[i].order <= order'
                 /\ \A d \in Callers :
                       (Outstanding(d)' /\ call'[d].enqueued = generation') =>
                          log'[i].order < call'[d].order
    BY <1>2, <2>1, <2>2 DEF LogInv
  <2>4. (handler' = "checked" /\ verdict' = "execute") => call'[current'].enqueued = generation'
    BY <1>4, <2>1 DEF LogInv, AtWork
  <2> QED
    BY <2>1, <2>3, <2>4 DEF LogInv, ExecutedInOrder
<1>11. CASE DispatchPop
  <2>1. UNCHANGED <<log, generation, order>> /\ handler' # "checked"
    BY <1>11 DEF DispatchPop, handlerVars, ghostVars
  <2> QED
    BY <1>6, <1>11, <2>1, OutstandingShrinks DEF Handler
<1>12. CASE DispatchCheck
  <2>1. UNCHANGED <<log, generation, order, call, current>>
    BY <1>12 DEF DispatchCheck, connVars, queueVars, ghostVars
  <2>2. verdict' = "execute" => generation = call[current].enqueued
    BY <1>12 DEF DispatchCheck, Verdict
  <2>3. \A c \in Callers : Outstanding(c)' => Outstanding(c) /\ SamePlace(c)
    BY <1>12, OutstandingShrinks DEF Handler
  <2> QED
    BY <2>1, <2>2, <2>3, LogKept DEF LogInv
<1>13. CASE DispatchReschedule
  <2>1. UNCHANGED <<log, generation, order>> /\ handler' = "idle"
    BY <1>13 DEF DispatchReschedule, ghostVars
  <2> QED
    BY <1>6, <1>13, <2>1, OutstandingShrinks DEF Handler
<1>14. CASE DispatchComplete /\ verdict # "execute"
  <2>1. UNCHANGED <<log, generation, order>> /\ handler' = "completed"
    BY <1>14, CompleteEffect
  <2> QED
    BY <1>6, <1>14, <2>1, OutstandingShrinks DEF Handler
<1>15. CASE DispatchComplete /\ verdict = "execute"
  <2> DEFINE n == Len(log)
  <2>1. /\ handler = "checked" /\ handler' = "completed" /\ UNCHANGED <<generation, order>>
        /\ log' = Append(log, [generation |-> call[current].expected,
                               order |-> call[current].order,
                               onConnection |-> connection,
                               ownConnection |-> founded])
        /\ call'[current].state = "done"
    BY <1>15, CompleteEffect
  <2>2. /\ Len(log') = n + 1 /\ n \in Nat /\ (\A i \in 1..n : log'[i] = log[i])
        /\ log'[n + 1].generation = call[current].expected
        /\ log'[n + 1].order = call[current].order
    BY <1>2, <2>1
  <2>3. /\ AtWork /\ current \in Callers /\ Outstanding(current)
        /\ call[current].expected = generation /\ call[current].enqueued = generation
        /\ call[current].order <= order
    BY <1>4, <1>15, <2>1 DEF AtWork, LogInv, QueueOrderInv
  <2>4. \A c \in Callers : Outstanding(c)' => Outstanding(c) /\ SamePlace(c) /\ c # current
    BY <1>15, <2>1, OutstandingShrinks DEF Handler, Outstanding
  <2>5. ASSUME NEW c \in Callers, Outstanding(c)', call'[c].enqueued = generation
        PROVE  call[current].order < call'[c].order
    <3>1. Outstanding(c) /\ c # current /\ SamePlace(c)
      BY <2>4, <2>5
    <3>2. call[c].state = "queued"
      BY <3>1 DEF Outstanding, CallInv
    <3>3. PICK i \in 1..Len(mutation_queue) : mutation_queue[i] = c
      BY <3>2 DEF CallInv
    <3>4. Precedes(call[current], call[c])
      BY <2>3, <3>3 DEF QueueOrderInv
    <3> QED
      BY <2>3, <2>5, <3>1, <3>4 DEF Precedes, SamePlace
  <2>6. \A i \in 1..(n + 1) : i \in 1..n \/ i = n + 1
    BY <2>2
  <2>7. \A i \in 1..n :
           /\ log[i].generation <= generation
           /\ log[i].generation = generation =>
                 /\ log[i].order <= order /\ log[i].order < call[current].order
                 /\ \A c \in Callers :
                       (Outstanding(c)' /\ call'[c].enqueued = generation) =>
                          log[i].order < call'[c].order
    BY <2>3, <2>4 DEF LogInv, SamePlace
  <2>8. \A i \in 1..Len(log') :
           /\ log'[i].generation <= generation'
           /\ log'[i].generation = generation' =>
                 /\ log'[i].order <= order'
                 /\ \A c \in Callers :
                       (Outstanding(c)' /\ call'[c].enqueued = generation') =>
                          log'[i].order < call'[c].order
    BY <1>2, <2>1, <2>2, <2>3, <2>5, <2>6, <2>7
  <2>9. ExecutedInOrder'
    <3>1. SUFFICES ASSUME NEW i \in 1..(n + 1), NEW j \in 1..(n + 1), i < j
                   PROVE  \/ log'[i].generation < log'[j].generation
                          \/ log'[i].generation = log'[j].generation /\ log'[i].order < log'[j].order
      BY <2>2 DEF ExecutedInOrder
    <3>2. i \in 1..n
      BY <2>2, <3>1
    <3>3. CASE j = n + 1
      <4>1. log[i].generation < generation \/ log[i].generation = generation
        BY <1>2, <2>7, <3>2
      <4> QED
        BY <2>2, <2>3, <2>7, <3>2, <3>3, <4>1
    <3>4. CASE j # n + 1
      <4>1. j \in 1..n
        BY <2>6, <3>4
      <4> QED
        BY <2>2, <3>1, <3>2, <4>1 DEF LogInv, ExecutedInOrder
    <3> QED
      BY <3>3, <3>4
  <2> QED
    BY <2>1, <2>8, <2>9 DEF LogInv
<1> QED
  BY <1>7, <1>8, <1>9, <1>10, <1>11, <1>12, <1>13, <1>14, <1>15 DEF DispatchMove, Handler

LEMMA AssignedInvStep ==
    ASSUME Shape, CallsInv, DispatchMove PROVE AssignedInv'
<1>1. generation \in Nat /\ order \in Nat /\ CallShape /\ Shape /\ CallInv /\ AssignedInv
  BY DEF CallsInv, Shape, CallShape
<1> USE <1>1
<1>2. CASE Quiet \/ Cancels \/ Handler
  <2>1. UNCHANGED <<order, generation, assigned>>
    BY <1>2 DEF Quiet, Cancels, cancel_pending, mutationVars, queueVars, ghostVars,
       Handler, DispatchPop, DispatchCheck, DispatchComplete, DispatchReschedule, connVars
  <2> QED
    BY <2>1 DEF AssignedInv, OrderIsDense
<1>3. CASE DispatchOmInstalled
  <2>1. order' = 0 /\ UNCHANGED assigned
    BY <1>3 DEF DispatchOmInstalled, ghostVars
  <2> QED
    BY <2>1 DEF AssignedInv, OrderIsDense
<1>4. ASSUME NEW c \in Callers, DispatchStopped(c) \/ DispatchStale(c) PROVE AssignedInv'
  <2>1. UNCHANGED <<order, generation, assigned>>
    BY <1>4, RefuseEffect DEF connVars, ghostVars
  <2> QED
    BY <2>1 DEF AssignedInv, OrderIsDense
<1>5. ASSUME NEW c \in Callers, NEW s \in Sequences, DispatchEnqueue(c, s)
      PROVE  AssignedInv'
  <2> DEFINE new == <<generation, order + 1>>
  <2>1. order' = order + 1 /\ assigned' = assigned \cup {new} /\ UNCHANGED generation
    BY <1>5, SubmitEffect
  <2>2. \A m \in 1..order' : <<generation', m>> \in assigned'
    <3>1. \A m \in 1..order' : m \in 1..order \/ m = order + 1
      BY <2>1
    <3> QED
      BY <2>1, <3>1 DEF AssignedInv
  <2>3. new[1] = generation /\ new[2] = order + 1 /\ (order + 1) - 1 = order
    OBVIOUS
  <2>4. order + 1 > 1 => <<generation, order>> \in assigned
    <3>1. order + 1 > 1 => order \in 1..order
      OBVIOUS
    <3> QED
      BY <3>1 DEF AssignedInv
  <2>5. OrderIsDense'
    <3>1. SUFFICES ASSUME NEW a \in assigned \cup {new}
                   PROVE  a[2] >= 1 /\ (a[2] > 1 => <<a[1], a[2] - 1>> \in assigned)
      BY <2>1 DEF OrderIsDense
    <3>2. CASE a \in assigned
      BY <3>2 DEF AssignedInv, OrderIsDense
    <3>3. CASE a = new
      BY <2>3, <2>4, <3>3
    <3> QED
      BY <3>2, <3>3
  <2> QED
    BY <2>2, <2>5 DEF AssignedInv
<1> QED
  BY <1>2, <1>3, <1>4, <1>5 DEF DispatchMove

-----------------------------------------------------------------------------
LEMMA InitDispatchInv == InitDispatch => DispatchInv
<1> SUFFICES ASSUME InitDispatch PROVE DispatchInv
  OBVIOUS
<1>1. ConnInv /\ LifeInv /\ StopPosted
  BY InitConnInv, InitLifeInv DEF InitDispatch
<1> DEFINE none == [Ticket("none", 0) EXCEPT !.state = "idle"]
<1>2. none \in CallRecord /\ none.state = "idle" /\ none.executed = 0
  BY DEF Ticket, CallRecord, NoSequence
<1>3. /\ sources = <<>> /\ mutation_queue = <<>> /\ scheduled = FALSE /\ order = 0
      /\ handler = "idle" /\ current = NoCaller /\ verdict = "none"
      /\ log = <<>> /\ assigned = {} /\ stopper = "idle" /\ loop = "starting"
      /\ call \in [Callers -> CallRecord]
      /\ \A c \in Callers : call[c].state = "idle" /\ call[c].executed = 0
  BY <1>2 DEF InitDispatch, Init
<1>4. CallShape /\ sources \in Seq(DispatchSourceSet)
  BY <1>3, EmptyIsSeq DEF CallShape
<1>5. CallInv /\ EndInv
  BY <1>3 DEF CallInv, AtWork, EndInv
<1>6. ScheduleInv
  BY <1>3 DEF ScheduleInv, DispatchSources
<1>7. QueueOrderInv /\ LogInv
  BY <1>3 DEF QueueOrderInv, LogInv, ExecutedInOrder, AtWork, Outstanding
<1>8. AssignedInv
  BY <1>3 DEF AssignedInv, OrderIsDense
<1> QED
  BY <1>1, <1>4, <1>5, <1>6, <1>7, <1>8 DEF DispatchInv, CallsInv

LEMMA CallsInvStep ==
    ASSUME Shape, CallsInv, DispatchMove PROVE CallsInv'
<1> QED
  BY CallShapeStep, CallInvStep, QueueOrderInvStep, LogInvStep, AssignedInvStep DEF CallsInv

LEMMA DispatchInvHolds == DispatchSpec => []DispatchInv
<1>1. ASSUME DispatchInv, [NextDispatch]_vars PROVE DispatchInv'
  <2>1. Shape /\ CallsInv /\ sequence \in Nat
    BY <1>1 DEF DispatchInv, ConnInv, Shape
  <2>2. CallsInv'
    BY <1>1, <2>1, DispatchCases, CallsInvStep
  <2>3. ConnInv' /\ LifeInv'
    BY <1>1, DispatchConnInv
  <2>4. sources' \in Seq(DispatchSourceSet) /\ StopPosted'
    BY <1>1, DispatchSourcesStep
  <2>5. ScheduleInv' /\ EndInv'
    BY <1>1, ScheduleInvStep, EndInvStep
  <2> QED
    BY <2>2, <2>3, <2>4, <2>5 DEF DispatchInv
<1> QED
  BY InitDispatchInv, <1>1, PTL DEF DispatchSpec

-----------------------------------------------------------------------------
(* Every variable keeps its type, and a mutation is executed at most once    *)
(* (mutation_dispatch.c, with the connection's callbacks).                   *)
THEOREM DispatchTypeCorrect == DispatchSpec => []DispatchTypeOK
<1>1. DispatchInv => DispatchTypeOK
  <2> SUFFICES ASSUME DispatchInv PROVE DispatchTypeOK
    OBVIOUS
  <2>1. ConnInv /\ CallShape /\ sources \in Seq(DispatchSourceSet)
    BY DEF DispatchInv, CallsInv
  <2>2. founded \in 0..connection /\ generation \in 0..connection
    BY <2>1 DEF ConnInv, Shape, GenerationInv
  <2>3. ConnTypeOK
    BY <2>1, <2>2 DEF ConnInv, Shape, ConnTypeOK
  <2>4. DispatchSourceSet = {StopSource, DispatchSource}
                              \cup {ReconnectSource(r) : r \in Reconnectors}
    BY DEF DispatchSourceSet, SourceSet
  <2> QED
    BY <2>1, <2>3, <2>4 DEF CallShape, CallRecord, LogRecord, DispatchTypeOK
<1> QED
  BY <1>1, DispatchInvHolds, PTL

(* mutation_source_scheduled says truly whether a dispatch is on its way, and *)
(* there is one at most: no queued call is forgotten and no two calls run at  *)
(* once (schedule_dispatch_locked, dispatch_next_mutation_on_wp_thread).      *)
THEOREM NoDispatchIsLost == DispatchSpec => []NoLostDispatch
<1>1. DispatchInv => NoLostDispatch
  BY DEF DispatchInv, ScheduleInv, NoLostDispatch
<1> QED
  BY <1>1, DispatchInvHolds, PTL

(* When the thread has ended nobody waits for it: stop_requested is checked  *)
(* and the call queued in one critical section, stop() cancels after it has  *)
(* set the flag and before it lets the thread go (WPConnection_stop,         *)
(* WPConnection_dispatch_runtime_mutation_payload).                          *)
THEOREM NobodyIsOrphaned == DispatchSpec => []NoOrphanedCaller
<1>1. DispatchInv => NoOrphanedCaller
  <2> SUFFICES ASSUME DispatchInv, loop = "exited", NEW c \in Callers
               PROVE  call[c].state \notin {"queued", "popped"}
    BY DEF NoOrphanedCaller
  <2>1. handler = "idle"
    BY DEF DispatchInv, EndInv
  <2>2. call[c].state # "popped"
    BY <2>1 DEF DispatchInv, CallsInv, CallInv, AtWork
  <2>3. start_error \/ stopper \in {"joining", "joined"}
    BY DEF DispatchInv, LifeInv
  <2>4. CASE start_error
    <3>1. init # "returned"
      BY <2>4 DEF DispatchInv, LifeInv
    <3> QED
      BY <3>1 DEF DispatchInv, EndInv
  <2>5. CASE stopper \in {"joining", "joined"}
    <3>1. mutation_queue = <<>>
      BY <2>5 DEF DispatchInv, EndInv
    <3> QED
      BY <2>2, <3>1 DEF DispatchInv, CallsInv, CallInv
  <2> QED
    BY <2>3, <2>4, <2>5
<1> QED
  BY <1>1, DispatchInvHolds, PTL

(* A ticket tells whether the mutation was executed, whoever completed the   *)
(* call first, the handler or a cancellation (complete_call,                 *)
(* wp_connection_mutations_cancel_pending).                                  *)
THEOREM TicketsTellExecution == DispatchSpec => []TicketTellsExecution
<1>1. DispatchInv => TicketTellsExecution
  BY DEF DispatchInv, CallsInv, CallInv, TicketTellsExecution
<1> QED
  BY <1>1, DispatchInvHolds, PTL

(* Mutations reach PipeWire in the order of <<generation, dispatch order>>,  *)
(* with cancellations and reconnects in between                              *)
(* (mutation_dispatch_order, g_queue_push_tail, g_queue_pop_head).           *)
THEOREM ExecutionIsInOrder == DispatchSpec => []ExecutedInOrder
<1>1. DispatchInv => ExecutedInOrder
  BY DEF DispatchInv, CallsInv, LogInv
<1> QED
  BY <1>1, DispatchInvHolds, PTL

(* The places given out are 1, 2, 3, ... in each generation                  *)
(* (mutation_dispatch_order, reset by on_om_installed).                      *)
THEOREM OrdersAreDense == DispatchSpec => []OrderIsDense
<1>1. DispatchInv => OrderIsDense
  BY DEF DispatchInv, CallsInv, AssignedInv
<1> QED
  BY <1>1, DispatchInvHolds, PTL
=============================================================================
