------------------------- MODULE ConfirmedMutationProofs -------------------------
(***************************************************************************)
(* Proofs about ConfirmedMutation, for any number of controls, of          *)
(* reconnecting threads and of connections, and any appearances of the     *)
(* target.                                                                 *)
(*                                                                         *)
(* What is claimed of a control is claimed caller by caller (ControlOf): a *)
(* step is one of the control's own, or one that it only looks on at       *)
(* (Bystander).  The place of a control and the state of its call go       *)
(* together (PhaseOf), its answer comes with that (AnswerOf), and a        *)
(* position that the target has been seen at stays good as long as nothing *)
(* has moved (FreshOf).                                                    *)
(***************************************************************************)
EXTENDS ConfirmedMutation, MutationLineProofs

ControlSourceSet == DispatchSourceSet \cup {CaptureSource(c) : c \in Callers}

Places == {"idle", "preflight", "preflighting", "preflighted", "dispatch",
           "submitted", "poll", "polling", "polled", "done"}
Before == {"preflight", "preflighting", "preflighted", "dispatch"}
Looking == {"poll", "polling", "polled"}

SnapshotRecord == [generation : Nat, sequence : Nat, target : Target]
RequestRecord == [generation : Nat, sequence : Nat \cup {NoSequence}]
Confirmations == {"absent", "active", "same"} \X Nat
Statuses == {"none", "confirmed", "rejected", "failed", "timed_out", "cancelled", "raised"}
Outcome ==
    [status : Statuses, code : Codes, retryable : BOOLEAN,
     confirmations : SUBSET Confirmations]

(* The types of the variables that ConfirmedMutation adds. *)
ControlShape ==
    /\ target \in Targets \cup {Gone}
    /\ at \in [Callers -> Places]
    /\ helper \in [Callers -> Helpers]
    /\ request \in [Callers -> RequestRecord]
    /\ snap \in [Callers -> SnapshotRecord]
    /\ confirmations \in [Callers -> SUBSET Confirmations]
    /\ outcome \in [Callers -> Outcome]
    /\ since \in [Callers -> Moves] /\ met \in [Callers -> Moves]

Active(c) == at[c] \notin {"idle", "done"}

(* A control waits for the one capture it has posted. *)
CaptureOf(c) ==
    /\ \A i, j \in At(sources, CaptureSource(c)) : i = j
    /\ At(sources, CaptureSource(c)) # {} => at[c] \in {"preflighting", "polling"}

(* Where a control is tells how far its call has come. *)
PhaseOf(c) ==
    /\ at[c] # "idle" => init = "returned"
    /\ at[c] \in {"idle"} \cup Before => call[c].state = "idle"
    /\ at[c] = "submitted" => call[c].state # "idle"
    /\ at[c] \in Looking => call[c].state = "done" /\ call[c].result = Handled
    /\ at[c] = "done" => call[c].state \in {"idle", "done"}

OneSequence(confirmed) == \A k, l \in confirmed : k[2] = l[2]

(* What an answer says is so, of a mutation executed so many times. *)
Truthful(o, kind, times) ==
    /\ o.status # "none"
    /\ OneSequence(o.confirmations)
    /\ o.status = "confirmed" => Satisfied(kind, o.confirmations)
    /\ o.retryable \/ o.code \in Stale \cup {"deadline_expired"} => times = 0
    /\ o.code = "confirmation_timeout" => times = 1

AnswerOf(c) ==
    /\ OneSequence(confirmations[c])
    /\ at[c] # "done" => outcome[c] = Pending
    /\ at[c] = "done" => Truthful(outcome[c], helper[c], call[c].executed)

(* Positions. *)
Now == [generation |-> generation, sequence |-> sequence]
Expected(k) == [generation |-> k.expected, sequence |-> k.expected_sequence]
IsNext(s, q) == s.generation = q.generation /\ s.sequence = q.sequence + 1

Earlier(a, b) ==
    \/ a.generation < b.generation
    \/ a.generation = b.generation /\ a.sequence < b.sequence

(* At position p the target was as the caller of c has seen it: if anything  *)
(* has happened to it since, the connection is further on, or being stopped. *)
Follows(c, p) ==
    /\ ~ Earlier(Now, p)
    /\ since[c] # "unchanged" => Earlier(p, Now) \/ stop_requested

Executing(c) == handler = "checked" /\ verdict = "execute" /\ current = c

(* Before the dispatch: the position is that of the request, then that of    *)
(* the preflight snapshot, if that is the next one.                          *)
SeenOf(c) ==
    /\ at[c] \in {"preflight", "preflighting"} => Follows(c, request[c])
    /\ at[c] \in {"preflighted", "dispatch"} /\ IsNext(snap[c], request[c]) =>
          Follows(c, snap[c])
    /\ at[c] = "dispatch" => IsNext(snap[c], request[c])

(* From there on: the call carries the position to the handler.              *)
CarriedOf(c) ==
    /\ Outstanding(c) =>
          call[c].expected_sequence # NoSequence /\ Follows(c, Expected(call[c]))
    /\ Executing(c) => since[c] = "unchanged"
    /\ met[c] = "unchanged"

FreshOf(c) ==
    /\ at[c] = "idle" => since[c] = "unchanged" /\ met[c] = "unchanged"
    /\ request[c].sequence # NoSequence => SeenOf(c) /\ CarriedOf(c)

ControlOf(c) == CaptureOf(c) /\ PhaseOf(c) /\ AnswerOf(c) /\ FreshOf(c)

ControlInv ==
    /\ ConnInv /\ CallsInv
    /\ sources \in Seq(ControlSourceSet)
    /\ init = "returned" => started
    /\ om = "none" => target = Gone
    /\ ControlShape
    /\ \A c \in Callers : ControlOf(c)
-----------------------------------------------------------------------------
(* What a step does to the connection: one of its own steps, or nothing but  *)
(* sequence numbers taken.                                                   *)
LifeKept ==
    /\ UNCHANGED <<lifeVars, generation, reconnectVars, stopVars>>
    /\ sequence' \in Nat /\ sequence <= sequence'

(* The steps of the control d itself, and the captures the thread does for it. *)
OwnStep(d) == Begin(d) \/ ControlStep(d) \/ Capture(d)

(* Those of them in which nobody else takes part. *)
Alone(d) ==
    \/ Begin(d) \/ ExpiredAtOnce(d) \/ Decide(d) \/ TicketReturns(d)
    \/ PollExpires(d) \/ Polled(d)

LEMMA AloneVars == ASSUME NEW d, Alone(d) PROVE UNCHANGED <<vars, target, ghosts>>
  BY DEF Alone, Begin, ExpiredAtOnce, Decide, TicketReturns, PollExpires, Polled

Posts(d) == Preflight(d) \/ PollCaptures(d)

LEMMA OwnCases ==
    ASSUME NEW d, OwnStep(d) PROVE Alone(d) \/ Posts(d) \/ Dispatch(d) \/ Capture(d)
  BY DEF OwnStep, ControlStep, Alone, Posts

LEMMA ConnectionIsMove == ConnectionStep => ConnectionMove
  BY DEF ConnectionStep, ConnectionMove

LEMMA ConnectionIsConn ==
    ASSUME ConnectionMove PROVE ThreadStep \/ PythonStep
<1>1. CASE PlainCallback
  BY <1>1 DEF PlainCallback, ThreadStep
<1>2. CASE DispatchOmInstalled \/ DispatchCoreLost \/ DispatchExitThread
  BY <1>2 DEF DispatchOmInstalled, DispatchCoreLost, DispatchExitThread, ThreadStep
<1>3. CASE DispatchStopCancel \/ DispatchDealloc
  BY <1>3 DEF DispatchStopCancel, DispatchDealloc, PythonStep, Stop
<1>4. CASE PlainThread
  BY <1>4 DEF PlainThread, PythonStep, Stop, Reconnect
<1>5. CASE \E r \in Reconnectors : DispatchRunReconnect(r) \/ DispatchReconnectCancel(r)
  BY <1>5 DEF DispatchRunReconnect, DispatchReconnectCancel, ThreadStep, PythonStep, Reconnect
<1> QED
  BY <1>1, <1>2, <1>3, <1>4, <1>5 DEF ConnectionMove

LEMMA HandlerLife ==
    ASSUME Handler PROVE UNCHANGED <<lifeVars, generation, sequence, reconnectVars, stopVars>>
  BY DEF Handler, DispatchPop, DispatchCheck, DispatchComplete, DispatchReschedule, connVars

LEMMA OwnLife ==
    ASSUME NEW d, sequence \in Nat, OwnStep(d)
    PROVE  LifeKept /\ (sequence' = sequence \/ Capture(d))
<1>1. CASE Alone(d)
  BY <1>1, AloneVars DEF LifeKept, vars, connVars
<1>2. CASE Posts(d)
  BY <1>2 DEF Posts, Preflight, PollCaptures, PostCapture, LifeKept
<1>3. CASE Dispatch(d)
  BY <1>3 DEF Dispatch, DispatchStopped, DispatchStale, DispatchEnqueue, LifeKept, connVars
<1>4. CASE Capture(d)
  <2>1. UNCHANGED <<lifeVars, generation, reconnectVars, stopVars>>
        /\ (sequence' = sequence + 1 \/ UNCHANGED sequence)
    BY <1>4 DEF Capture
  <2> QED
    BY <1>4, <2>1 DEF LifeKept
<1> QED
  BY <1>1, <1>2, <1>3, <1>4, OwnCases

LEMMA ControlConn ==
    ASSUME sequence \in Nat, [NextControl]_allVars
    PROVE  ThreadStep \/ PythonStep \/ LifeKept
<1>1. CASE ConnectionStep
  BY <1>1, ConnectionIsMove, ConnectionIsConn
<1>2. CASE HandlerStep
  BY <1>2, HandlerLife DEF HandlerStep, LifeKept
<1>3. CASE TargetChanged
  <2>1. UNCHANGED <<lifeVars, generation, reconnectVars, stopVars>>
        /\ (sequence' = sequence + 1 \/ sequence' = sequence)
    BY <1>3 DEF TargetChanged
  <2> QED
    BY <2>1 DEF LifeKept
<1>4. ASSUME NEW d \in Callers, OwnStep(d) PROVE LifeKept
  BY <1>4, OwnLife
<1>5. CASE UNCHANGED allVars
  BY <1>5 DEF allVars, vars, connVars, LifeKept
<1> QED
  BY <1>1, <1>2, <1>3, <1>4, <1>5 DEF NextControl, OwnStep

LEMMA ControlConnInv ==
    ASSUME ConnInv, [NextControl]_allVars PROVE ConnInv'
<1>1. LifeKept => ConnInv'
  BY DEF ConnInv, Shape, GenerationInv, StartInv, LifeKept, lifeVars, reconnectVars, stopVars
<1>2. sequence \in Nat
  BY DEF ConnInv, Shape
<1> QED
  BY <1>1, <1>2, ControlConn, ThreadConnInv, PythonConnInv

-----------------------------------------------------------------------------
(* The position never goes back, and a connection that is lost is a step     *)
(* forward, unless it is being stopped.                                      *)
Clock ==
    /\ ~ Earlier(Now', Now)
    /\ stop_requested => stop_requested'
    /\ init = "returned" => init' = "returned"
    /\ init' = "returned" => started'

Forward == Earlier(Now, Now') \/ stop_requested'

LEMMA EarlierFacts ==
    ASSUME NEW g \in Nat, NEW s \in Nat, NEW h \in Nat, NEW t \in Nat
    PROVE  LET a == [generation |-> g, sequence |-> s]
               b == [generation |-> h, sequence |-> t]
           IN Earlier(a, b) <=> g < h \/ (g = h /\ s < t)
  BY DEF Earlier

LEMMA ClockStep ==
    ASSUME ConnInv, init = "returned" => started, [NextControl]_allVars PROVE Clock
<1>1. /\ generation \in Nat /\ sequence \in Nat /\ generation' \in Nat /\ sequence' \in Nat
  BY ControlConnInv DEF ConnInv, Shape
<1> DEFINE Later == generation' > generation \/ (generation' = generation /\ sequence' >= sequence)
<1>2. CASE ThreadStep
  <2>1. Later
    <3>1. OmInstalled => generation' = generation + 1
      BY DEF OmInstalled
    <3>2. ~ OmInstalled => /\ generation' = generation
                           /\ sequence' \in {sequence, sequence + 1, SequenceAfterDisconnect}
      BY <1>2 DEF ThreadStep, StartThread, CoreConnected, MixerLoaded, MixerFailed,
         CoreLost, Observe, ExitThread, RunStop, RunReconnect
    <3>3. SequenceAfterDisconnect \in {sequence, sequence + 1}
      BY DEF SequenceAfterDisconnect
    <3> QED
      BY <1>1, <3>1, <3>2, <3>3
  <2>2. UNCHANGED stop_requested /\ UNCHANGED init /\ (started => started')
    BY <1>2 DEF ThreadStep, StartThread, CoreConnected, MixerLoaded, MixerFailed,
       OmInstalled, CoreLost, Observe, ExitThread, RunStop, RunReconnect, stopVars, lifeVars
  <2> QED
    BY <1>1, <2>1, <2>2, EarlierFacts DEF Clock, Now
<1>3. CASE PythonStep
  <2>1. UNCHANGED <<generation, sequence, started>>
    BY <1>3 DEF PythonStep, InitReturns, Dealloc, Stop, StopRequest, StopCancel, StopPost,
       StopJoin, Reconnect, ReconnectCheck, ReconnectCancel, ReconnectRead, ReconnectPost,
       ReconnectSleeps, ReconnectPosted, ReconnectReturns, lifeVars
  <2>2. (stop_requested => stop_requested') /\ (UNCHANGED init \/ (init = "waiting" /\ started))
    BY <1>3 DEF PythonStep, InitReturns, Dealloc, Stop, StopRequest, StopCancel, StopPost,
       StopJoin, Reconnect, ReconnectCheck, ReconnectCancel, ReconnectRead, ReconnectPost,
       ReconnectSleeps, ReconnectPosted, ReconnectReturns, lifeVars, stopVars
  <2> QED
    BY <1>1, <2>1, <2>2, EarlierFacts DEF Clock, Now
<1>4. CASE LifeKept
  <2>1. Later /\ UNCHANGED <<stop_requested, init, started>>
    BY <1>1, <1>4 DEF LifeKept, lifeVars, stopVars
  <2> QED
    BY <1>1, <2>1, EarlierFacts DEF Clock, Now
<1> QED
  BY <1>1, <1>2, <1>3, <1>4, ControlConn

(* The steps that take the object manager away. *)
LEMMA LostForward ==
    ASSUME ConnInv, ConnectionMove, started, om # "none", om' = "none"
    PROVE  Forward /\ handler = "idle"
<1>1. /\ core = "up" /\ generation \in Nat /\ sequence \in Nat /\ stop_requested \in BOOLEAN
  BY DEF ConnInv, GenerationInv, Shape
<1>2. ASSUME generation' = generation,
             sequence' = sequence + 1 \/ (stop_requested /\ stop_requested' = stop_requested)
      PROVE  Forward
  BY <1>1, <1>2, EarlierFacts DEF Forward, Now
<1>3. CASE PlainCallback
  <2>1. RunStop
    BY <1>3 DEF PlainCallback, StartThread, CoreConnected, MixerLoaded, MixerFailed, Observe,
       install_object_manager, lifeVars
  <2>2. generation' = generation /\ sequence' = sequence + 1
    BY <2>1 DEF RunStop
  <2> QED
    BY <1>2, <1>3, <2>2 DEF PlainCallback
<1>4. CASE DispatchCoreLost \/ DispatchExitThread
  <2>1. generation' = generation /\ sequence' = SequenceAfterDisconnect
        /\ stop_requested' = stop_requested /\ handler = "idle"
    BY <1>1, <1>4 DEF DispatchCoreLost, DispatchExitThread, CoreLost, ExitThread, stopVars
  <2> QED
    BY <1>1, <1>2, <2>1 DEF SequenceAfterDisconnect
<1>5. ASSUME NEW r \in Reconnectors, DispatchRunReconnect(r) PROVE Forward /\ handler = "idle"
  <2>1. generation' = generation /\ sequence' = SequenceAfterDisconnect
        /\ stop_requested' = stop_requested /\ handler = "idle"
    BY <1>1, <1>5 DEF DispatchRunReconnect, RunReconnect, stopVars
  <2> QED
    BY <1>1, <1>2, <2>1 DEF SequenceAfterDisconnect
<1>6. ~ DispatchOmInstalled
  BY DEF DispatchOmInstalled, OmInstalled
<1>7. ~ DispatchStopCancel /\ ~ DispatchDealloc
  BY DEF DispatchStopCancel, DispatchDealloc, StopCancel, Dealloc, lifeVars
<1>8. ~ PlainThread
  BY DEF PlainThread, InitReturns, StopRequest, StopPost, StopJoin,
     ReconnectCheck, ReconnectRead, ReconnectPost, ReconnectSleeps, ReconnectPosted, ReconnectReturns, lifeVars
<1>9. ASSUME NEW r \in Reconnectors, DispatchReconnectCancel(r) PROVE FALSE
  BY <1>9 DEF DispatchReconnectCancel, ReconnectCancel, lifeVars
<1> QED
  BY <1>3, <1>4, <1>5, <1>6, <1>7, <1>8, <1>9 DEF ConnectionMove

(* What the ghost of c is told. *)
SinceStep(c) ==
    \/ since'[c] = since[c]
    \/ Active(c) /\ handler = "idle" /\ Forward

LEMMA SinceMoves ==
    ASSUME ConnInv, init = "returned" => started, ControlShape, NEW c \in Callers, PhaseOf(c),
           [NextControl]_allVars
    PROVE  SinceStep(c) /\ since'[c] \in Moves
<1>1. since[c] \in Moves /\ since \in [Callers -> Moves]
  BY DEF ControlShape
<1>2. Active(c) => started
  BY DEF Active, PhaseOf
<1>3. ASSUME NEW how \in Moves, since' = [d \in Callers |-> Moved(d, how)],
             Active(c) => (handler = "idle" /\ Forward)
      PROVE  SinceStep(c) /\ since'[c] \in Moves
  BY <1>1, <1>3 DEF SinceStep, Moved, Active
<1>4. CASE ConnectionStep
  <2>1. CASE om # "none" /\ om' = "none"
    <3>1. since' = [d \in Callers |-> Moved(d, "lost")] /\ "lost" \in Moves
      BY <1>4, <2>1 DEF ConnectionStep, Moves
    <3>2. Active(c) => (handler = "idle" /\ Forward)
      BY <1>2, <1>4, <2>1, ConnectionIsMove, LostForward
    <3> QED
      BY <1>3, <3>1, <3>2
  <2>2. CASE ~ (om # "none" /\ om' = "none")
    <3>1. UNCHANGED since
      BY <1>4, <2>2 DEF ConnectionStep
    <3> QED
      BY <1>1, <3>1 DEF SinceStep
  <2> QED
    BY <2>1, <2>2
<1>5. CASE TargetChanged
  <2>1. /\ since' = [d \in Callers |-> Moved(d, "changed")] /\ "changed" \in Moves
        /\ handler = "idle" /\ UNCHANGED <<generation, stop_requested>>
        /\ sequence' = IF started /\ ~ stop_requested THEN sequence + 1 ELSE sequence
    BY <1>5 DEF TargetChanged, Moves, stopVars
  <2>2. generation \in Nat /\ sequence \in Nat /\ stop_requested \in BOOLEAN
    BY DEF ConnInv, Shape
  <2>3. Active(c) => Forward
    BY <1>2, <2>1, <2>2, EarlierFacts DEF Forward, Now
  <2> QED
    BY <1>3, <2>1, <2>3
<1>6. CASE HandlerStep
  BY <1>1, <1>6 DEF HandlerStep, SinceStep
<1>7. ASSUME NEW d \in Callers, OwnStep(d) PROVE UNCHANGED since
  BY <1>7 DEF OwnStep, ControlStep, Begin, ExpiredAtOnce, Decide, TicketReturns, PollExpires,
     Polled, Preflight, PollCaptures, PostCapture, Dispatch, Capture, ghosts
<1>8. CASE UNCHANGED allVars
  BY <1>1, <1>8 DEF allVars, ghosts, SinceStep
<1> QED
  BY <1>1, <1>4, <1>5, <1>6, <1>7, <1>8 DEF NextControl, OwnStep, SinceStep

(* A position stays good. *)
LEMMA FollowsKept ==
    ASSUME ConnInv, ConnInv', Clock, NEW c, NEW p, p.generation \in Nat, p.sequence \in Nat,
           SinceStep(c), Follows(c, p)
    PROVE  /\ ~ Earlier(Now', p)
           /\ since'[c] # "unchanged" => Earlier(p, Now') \/ stop_requested'
<1>1. /\ generation \in Nat /\ sequence \in Nat /\ generation' \in Nat /\ sequence' \in Nat
  BY DEF ConnInv, Shape
<1>2. /\ ~ Earlier(Now, p) /\ ~ Earlier(Now', Now)
      /\ since[c] # "unchanged" => Earlier(p, Now) \/ stop_requested
      /\ stop_requested => stop_requested'
  BY DEF Follows, Clock
<1>3. ~ Earlier(Now', p)
  BY <1>1, <1>2 DEF Earlier, Now
<1>4. Earlier(p, Now) => Earlier(p, Now')
  BY <1>1, <1>2 DEF Earlier, Now
<1>5. Earlier(Now, Now') => Earlier(p, Now')
  BY <1>1, <1>2 DEF Earlier, Now
<1> QED
  BY <1>2, <1>3, <1>4, <1>5 DEF SinceStep, Forward

-----------------------------------------------------------------------------
(* The attached sources. *)
LEMMA CapturesAreDistinct ==
    ASSUME NEW c \in Callers
    PROVE  /\ CaptureSource(c) \in ControlSourceSet
           /\ DispatchSourceSet \subseteq ControlSourceSet
           /\ CaptureSource(c) \notin DispatchSourceSet
           /\ \A d \in Callers : CaptureSource(c) = CaptureSource(d) => c = d
  BY DEF ControlSourceSet, DispatchSourceSet, SourceSet, StopSource, DispatchSource,
         ReconnectSource, CaptureSource

(* A step that leaves the captures of c alone, or drops them with the context. *)
SourceMove(c) ==
    \/ UNCHANGED sources \/ sources' = <<>>
    \/ \E s \in ControlSourceSet : s # CaptureSource(c) /\ (Runs(s) \/ Attaches(s))

LEMMA SourceMoveEffect ==
    ASSUME sources \in Seq(ControlSourceSet), NEW c \in Callers, SourceMove(c),
           \A i, j \in At(sources, CaptureSource(c)) : i = j
    PROVE  /\ \A i, j \in At(sources', CaptureSource(c)) : i = j
           /\ At(sources', CaptureSource(c)) # {} => At(sources, CaptureSource(c)) # {}
<1>1. CASE UNCHANGED sources
  BY <1>1
<1>2. CASE sources' = <<>>
  BY <1>2, AtEmpty
<1>3. ASSUME NEW s, s # CaptureSource(c), Runs(s)
      PROVE  /\ \A i, j \in At(sources', CaptureSource(c)) : i = j
             /\ At(sources', CaptureSource(c)) # {} => At(sources, CaptureSource(c)) # {}
  BY <1>3, AtOnceTail DEF Runs
<1>4. ASSUME NEW s \in ControlSourceSet, s # CaptureSource(c), Attaches(s)
      PROVE  At(sources', CaptureSource(c)) = At(sources, CaptureSource(c))
  BY <1>4, AtAppend DEF Attaches
<1> QED
  BY <1>1, <1>2, <1>3, <1>4 DEF SourceMove

LEMMA DispatchSourceMove ==
    ASSUME [NextDispatch]_vars
    PROVE  \/ UNCHANGED sources \/ sources' = <<>>
           \/ \E s \in DispatchSourceSet : Runs(s) \/ Attaches(s)
  BY SourcesMove, SourcesAreDistinct

LEMMA OwnSources ==
    ASSUME NEW d \in Callers, OwnStep(d)
    PROVE  \/ UNCHANGED sources
           \/ Attaches(DispatchSource)
           \/ Posts(d) /\ Attaches(CaptureSource(d))
           \/ Capture(d) /\ Runs(CaptureSource(d))
<1>1. CASE Alone(d)
  BY <1>1, AloneVars DEF vars, connVars
<1>2. CASE Posts(d)
  BY <1>2 DEF Posts, Preflight, PollCaptures, PostCapture, Attaches
<1>3. CASE Dispatch(d)
  BY <1>3 DEF Dispatch, DispatchStopped, DispatchStale, DispatchEnqueue,
     schedule_dispatch_locked, connVars, Attaches
<1>4. CASE Capture(d)
  BY <1>4 DEF Capture, NextSource, Runs
<1> QED
  BY <1>1, <1>2, <1>3, <1>4, OwnCases

LEMMA BackgroundIsDispatch ==
    ASSUME ConnectionStep \/ HandlerStep PROVE NextDispatch
  BY DEF ConnectionStep, HandlerStep, NextDispatch

LEMMA ControlSources ==
    ASSUME sources \in Seq(ControlSourceSet), [NextControl]_allVars
    PROVE  /\ sources' \in Seq(ControlSourceSet)
           /\ \A c \in Callers : \/ SourceMove(c)
                                 \/ Posts(c) /\ Attaches(CaptureSource(c))
                                 \/ Capture(c) /\ Runs(CaptureSource(c))
<1>1. \/ UNCHANGED sources \/ sources' = <<>>
      \/ \E s \in DispatchSourceSet : Runs(s) \/ Attaches(s)
      \/ \E d \in Callers : \/ Posts(d) /\ Attaches(CaptureSource(d))
                            \/ Capture(d) /\ Runs(CaptureSource(d))
  <2>1. CASE ConnectionStep \/ HandlerStep
    BY <2>1, BackgroundIsDispatch, DispatchSourceMove
  <2>2. CASE TargetChanged
    BY <2>2 DEF TargetChanged
  <2>3. ASSUME NEW d \in Callers, OwnStep(d)
        PROVE  \/ UNCHANGED sources
               \/ \E s \in DispatchSourceSet : Runs(s) \/ Attaches(s)
               \/ Posts(d) /\ Attaches(CaptureSource(d))
               \/ Capture(d) /\ Runs(CaptureSource(d))
    BY <2>3, OwnSources, SourcesAreDistinct
  <2>4. CASE UNCHANGED allVars
    BY <2>4 DEF allVars, vars, connVars
  <2> QED
    BY <2>1, <2>2, <2>3, <2>4 DEF NextControl, OwnStep
<1>2. sources' \in Seq(ControlSourceSet)
  <2>1. ASSUME NEW s \in ControlSourceSet, Runs(s) \/ Attaches(s)
        PROVE  sources' \in Seq(ControlSourceSet)
    BY <2>1, TailIsSeq, AppendIsSeq DEF Runs, Attaches
  <2> QED
    BY <1>1, <2>1, EmptyIsSeq, CapturesAreDistinct, SourcesAreDistinct
       DEF ControlSourceSet
<1>3. ASSUME NEW c \in Callers
      PROVE  \/ SourceMove(c)
             \/ Posts(c) /\ Attaches(CaptureSource(c))
             \/ Capture(c) /\ Runs(CaptureSource(c))
  <2>1. ASSUME NEW s \in DispatchSourceSet, Runs(s) \/ Attaches(s) PROVE SourceMove(c)
    BY <2>1, CapturesAreDistinct DEF SourceMove
  <2>2. ASSUME NEW d \in Callers, d # c, Runs(CaptureSource(d)) \/ Attaches(CaptureSource(d))
        PROVE  SourceMove(c)
    BY <2>2, CapturesAreDistinct DEF SourceMove
  <2> QED
    BY <1>1, <2>1, <2>2 DEF SourceMove
<1> QED
  BY <1>2, <1>3

-----------------------------------------------------------------------------
(* What a step does to the calls. *)
LEMMA DispatchSubmits ==
    ASSUME ControlShape, NEW d \in Callers, Dispatch(d)
    PROVE  \/ DispatchStopped(d) \/ DispatchStale(d)
           \/ \E s \in Sequences :
                 /\ DispatchEnqueue(d, s)
                 /\ request[d].generation = generation
                 /\ request[d].sequence # NoSequence => s = snap[d].sequence
<1>1. snap[d].sequence \in Nat
  BY DEF ControlShape, SnapshotRecord
<1> QED
  BY <1>1 DEF Dispatch, Sequences

LEMMA OwnCalls ==
    ASSUME NEW d \in Callers, OwnStep(d)
    PROVE  Dispatch(d) \/ UNCHANGED <<mutationVars, generation>>
<1>1. CASE Alone(d)
  BY <1>1, AloneVars DEF vars, connVars
<1>2. CASE Posts(d)
  BY <1>2 DEF Posts, Preflight, PollCaptures, PostCapture
<1>3. CASE Capture(d)
  BY <1>3 DEF Capture
<1> QED
  BY <1>1, <1>2, <1>3, OwnCases

LEMMA ControlDispatch ==
    ASSUME ControlShape, [NextControl]_allVars PROVE DispatchMove
<1>1. CASE ConnectionStep
  BY <1>1, ConnectionIsMove, ConnectionCases DEF DispatchMove
<1>2. CASE HandlerStep
  BY <1>2 DEF HandlerStep, DispatchMove
<1>3. CASE TargetChanged
  BY <1>3 DEF TargetChanged, DispatchMove, Quiet
<1>4. ASSUME NEW d \in Callers, OwnStep(d) PROVE DispatchMove
  BY <1>4, OwnCalls, DispatchSubmits DEF DispatchMove, Quiet
<1>5. CASE UNCHANGED allVars
  BY <1>5 DEF allVars, vars, connVars, DispatchMove, Quiet
<1> QED
  BY <1>1, <1>2, <1>3, <1>4, <1>5 DEF NextControl, OwnStep

(* Nobody but c submits for c. *)
LEMMA OthersProgress ==
    ASSUME Shape, CallShape, CallInv, ControlShape, [NextControl]_allVars, NEW c \in Callers,
           ~ Dispatch(c)
    PROVE  Progress(c)
<1>1. CASE ConnectionStep
  BY <1>1, ConnectionIsMove, ConnectionCases, CallProgress
<1>2. CASE HandlerStep
  BY <1>2, CallProgress DEF HandlerStep
<1>3. CASE Quiet
  BY <1>3, CallProgress
<1>4. TargetChanged => Quiet
  BY DEF TargetChanged, Quiet
<1>5. UNCHANGED allVars => Quiet
  BY DEF allVars, vars, connVars, Quiet
<1>6. ASSUME NEW d \in Callers, OwnStep(d) PROVE Progress(c)
  <2>1. CASE Dispatch(d)
    <3>1. d # c
      BY <2>1
    <3> QED
      BY <2>1, <3>1, DispatchSubmits, CallProgress
  <2> QED
    BY <1>3, <1>6, <2>1, OwnCalls DEF Quiet
<1> QED
  BY <1>1, <1>2, <1>3, <1>4, <1>5, <1>6 DEF NextControl, OwnStep


-----------------------------------------------------------------------------
(* What a control answers. *)
LEMMA PartialFacts ==
    ASSUME NEW o \in Outcome, NEW confirmed \in SUBSET Confirmations, NEW p,
           p = Partial(o, confirmed)
    PROVE  /\ p \in Outcome
           /\ p.status = o.status /\ p.code = o.code /\ p.retryable = o.retryable
           /\ p.confirmations = confirmed
  BY DEF Partial, Outcome

(* What one of them without a retry, and without a claim about the call, is  *)
(* true of any call.                                                         *)
LEMMA Harmless ==
    ASSUME NEW o \in Outcome, NEW kind, NEW times, o.status \notin {"none", "confirmed"},
           ~ o.retryable, o.code \notin Stale \cup {"deadline_expired", "confirmation_timeout"},
           OneSequence(o.confirmations)
    PROVE  Truthful(o, kind, times)
  BY DEF Truthful

LEMMA CodesListed ==
    /\ Cancelled \subseteq Codes /\ Stale \subseteq Codes /\ NativeRefusals \subseteq Codes
    /\ {"none", "deadline_expired", "confirmation_timeout", "internal_error",
        "target_identity_changed", "target_unavailable", "RuntimeError", "ValueError",
        "target_not_found", "generation_lost", "runtime_stopped",
        "stale_generation", "stale_sequence"} \subseteq Codes
    /\ (NativeRefusals \cup Cancelled
          \cup {"none", "internal_error", "target_identity_changed", "target_unavailable",
                "RuntimeError", "ValueError"})
          \cap (Stale \cup {"deadline_expired", "confirmation_timeout"}) = {}
    /\ Stale \cap {"deadline_expired", "confirmation_timeout"} = {}
    /\ "generation_lost" \notin NativeRefusals \cup Stale
  BY DEF Codes, Cancelled, Stale, NativeRefusals

LEMMA NoneConfirmed == {} \in SUBSET Confirmations /\ OneSequence({})
  BY DEF OneSequence

LEMMA PendingFacts ==
    /\ Pending \in Outcome
    /\ Pending.status = "none" /\ Pending.code = "none" /\ Pending.retryable = FALSE
    /\ Pending.confirmations = {}
  BY CodesListed, NoneConfirmed DEF Pending, Failure, Outcome, Statuses

LEMMA ObservedFacts ==
    ASSUME NEW kind, NEW s \in SnapshotRecord
    PROVE  /\ confirmations_from_snapshot(kind, s) \in SUBSET Confirmations
           /\ OneSequence(confirmations_from_snapshot(kind, s))
<1>1. Predicates(kind) \subseteq {"absent", "active", "same"}
  BY DEF Predicates, SetPredicates, ClearPredicates
<1>2. s.sequence \in Nat
  BY DEF SnapshotRecord
<1> QED
  BY <1>1, <1>2 DEF confirmations_from_snapshot, Confirmations, OneSequence

LEMMA ConfirmedFacts ==
    ASSUME NEW kind, NEW confirmed \in SUBSET Confirmations, OneSequence(confirmed),
           Satisfied(kind, confirmed), NEW times
    PROVE  Confirmed(confirmed) \in Outcome /\ Truthful(Confirmed(confirmed), kind, times)
<1>1. "none" \in Codes /\ "none" \notin Stale \cup {"deadline_expired", "confirmation_timeout"}
  BY CodesListed
<1>2. /\ Confirmed(confirmed).status = "confirmed" /\ Confirmed(confirmed).code = "none"
      /\ Confirmed(confirmed).retryable = FALSE
      /\ Confirmed(confirmed).confirmations = confirmed
  BY DEF Confirmed
<1>3. Confirmed(confirmed) \in Outcome
  BY <1>1 DEF Confirmed, Outcome, Statuses
<1> QED
  BY <1>1, <1>2, <1>3 DEF Truthful

(* What may come of the judgement of a preflight snapshot. *)
Judged(o, kind, q, s) ==
    /\ o \in Outcome
    /\ o # Pending => Truthful(o, kind, 0)
    /\ o = Pending /\ q.sequence # NoSequence => IsNext(s, q)

LEMMA JudgedRefused ==
    ASSUME NEW code \in Codes, code \notin {"confirmation_timeout"}, NEW kind, NEW q, NEW s,
           NEW status \in {"rejected", "timed_out", "raised"},
           NEW confirmed \in SUBSET Confirmations, OneSequence(confirmed)
    PROVE  /\ Judged(Failure(status, code, FALSE), kind, q, s)
           /\ Judged(Partial(Failure(status, code, FALSE), confirmed), kind, q, s)
<1> DEFINE o == Failure(status, code, FALSE)
           p == Partial(o, confirmed)
<1>0. status \in Statuses
  BY DEF Statuses
<1>1. /\ o \in Outcome /\ p \in Outcome
      /\ o.status = status /\ o.code = code /\ o.retryable = FALSE /\ o.confirmations = {}
      /\ p.status = status /\ p.code = code /\ p.retryable = FALSE
      /\ p.confirmations = confirmed
  <2>1. /\ o \in Outcome /\ o.status = status /\ o.code = code /\ o.retryable = FALSE
        /\ o.confirmations = {}
    BY <1>0 DEF Failure, Outcome
  <2> HIDE DEF o
  <2> QED
    BY <2>1, PartialFacts
<1>2. Pending.status = "none"
  BY PendingFacts
<1> HIDE DEF o, p
<1>3. o # Pending /\ p # Pending
  BY <1>1, <1>2
<1>4. Truthful(o, kind, 0) /\ Truthful(p, kind, 0)
  BY <1>1, NoneConfirmed DEF Truthful
<1>5. Judged(o, kind, q, s) /\ Judged(p, kind, q, s)
  BY <1>1, <1>3, <1>4 DEF Judged
<1> QED
  BY <1>5 DEF o, p

LEMMA ExpiredIsJudged ==
    ASSUME NEW kind, NEW q, NEW s, NEW confirmed \in SUBSET Confirmations, OneSequence(confirmed)
    PROVE  Judged(Expired, kind, q, s) /\ Judged(Partial(Expired, confirmed), kind, q, s)
<1>1. "deadline_expired" \in Codes
  BY CodesListed
<1> QED
  BY <1>1, JudgedRefused DEF Expired

LEMMA ExecuteIsJudged ==
    ASSUME NEW kind, NEW q \in RequestRecord, NEW s \in SnapshotRecord,
           NEW o \in ExecuteWith(kind, q, s)
    PROVE  Judged(o, kind, q, s)
<1> DEFINE confirmed == confirmations_from_snapshot(kind, s)
<1>1. confirmed \in SUBSET Confirmations /\ OneSequence(confirmed)
  BY ObservedFacts
<1>2. "stale_generation" \in Codes /\ "stale_sequence" \in Codes
  BY CodesListed
<1>3. CASE s.generation # q.generation
  <2>1. o = Failure("rejected", "stale_generation", FALSE)
    BY <1>3 DEF ExecuteWith
  <2> QED
    BY <1>2, <2>1, JudgedRefused, NoneConfirmed
<1>4. CASE s.generation = q.generation /\ q.sequence # NoSequence /\ s.sequence # q.sequence + 1
  <2>1. o = Failure("rejected", "stale_sequence", FALSE)
    BY <1>4 DEF ExecuteWith
  <2> QED
    BY <1>2, <2>1, JudgedRefused, NoneConfirmed
<1>5. CASE /\ s.generation = q.generation
           /\ ~ (q.sequence # NoSequence /\ s.sequence # q.sequence + 1)
  <2>1. CASE Satisfied(kind, confirmed)
    <3>1. o = Confirmed(confirmed)
      BY <1>5, <2>1 DEF ExecuteWith
    <3>2. Confirmed(confirmed) # Pending
      BY DEF Confirmed, Pending, Failure
    <3> QED
      BY <1>1, <2>1, <3>1, <3>2, ConfirmedFacts DEF Judged
  <2>2. CASE ~ Satisfied(kind, confirmed)
    <3>1. o \in {Partial(Expired, confirmed), Pending}
      BY <1>5, <2>2 DEF ExecuteWith
    <3>2. Judged(Partial(Expired, confirmed), kind, q, s)
      BY <1>1, ExpiredIsJudged
    <3>3. Judged(Pending, kind, q, s)
      BY <1>5, PendingFacts DEF Judged, IsNext
    <3> QED
      BY <3>1, <3>2, <3>3
  <2> QED
    BY <2>1, <2>2
<1> QED
  BY <1>3, <1>4, <1>5

LEMMA PreflightIsJudged ==
    ASSUME NEW kind \in Helpers, NEW q \in RequestRecord, NEW s \in SnapshotRecord,
           NEW o \in PreflightResults(kind, q, s)
    PROVE  Judged(o, kind, q, s)
<1>1. ASSUME NEW p \in ExecuteWith(kind, q, s) \cup {Expired} PROVE Judged(p, kind, q, s)
  BY <1>1, ExecuteIsJudged, ExpiredIsJudged, NoneConfirmed
<1>2. ASSUME NEW code \in {"target_not_found", "target_identity_changed", "target_unavailable"},
             o \in Refused(code)
      PROVE  Judged(o, kind, q, s)
  <2>1. code \in Codes /\ o = Failure("rejected", code, FALSE)
    BY <1>2, CodesListed DEF Refused
  <2> QED
    BY <2>1, <1>2, JudgedRefused, NoneConfirmed
<1>3. ASSUME o = Raised("ValueError") PROVE Judged(o, kind, q, s)
  BY <1>3, CodesListed, JudgedRefused, NoneConfirmed DEF Raised
<1>4. ASSUME NEW usable, o \in Selected(kind, q, s, usable)
      PROVE  o \in ExecuteWith(kind, q, s) \cup {Expired}
               \/ \E code \in {"target_not_found", "target_identity_changed",
                               "target_unavailable"} : o \in Refused(code)
  BY <1>4 DEF Selected
<1>5. \/ o \in ExecuteWith(kind, q, s) \cup {Expired}
      \/ o = Raised("ValueError")
      \/ \E usable : o \in Selected(kind, q, s, usable)
  <2>1. CASE kind \in CapturesInside
    BY <2>1 DEF PreflightResults, CapturesInside
  <2>2. CASE kind = "profile"
    BY <2>2 DEF PreflightResults, ProfileWith, CapturesInside
  <2>3. CASE kind = "route"
    BY <2>3 DEF PreflightResults, RouteWith, CapturesInside
  <2>4. CASE kind = "assign"
    BY <2>4 DEF PreflightResults, AssignWith, CapturesInside
  <2>5. CASE kind = "unassign"
    BY <2>5 DEF PreflightResults, UnassignWith, CapturesInside
  <2> QED
    BY <2>1, <2>2, <2>3, <2>4, <2>5 DEF Helpers, CapturesInside
<1> QED
  BY <1>1, <1>2, <1>3, <1>4, <1>5

-----------------------------------------------------------------------------
(* What the handler does to the ghost of c, and with its call in hand. *)
OwnMet(c) == met'[c] = met[c] \/ (Executing(c) /\ met'[c] = since[c])

LEMMA VerdictStep ==
    ASSUME ControlShape, CallShape, CallInv, NEW c \in Callers, SinceStep(c),
           [NextControl]_allVars
    PROVE  /\ OwnMet(c)
           /\ Executing(c)' => \/ Executing(c) /\ since'[c] = since[c]
                               \/ /\ DispatchCheck /\ current = c /\ UNCHANGED since
                                  /\ Verdict(call[c]) = "execute"
<1>1. ASSUME UNCHANGED <<handler, current, verdict>>, UNCHANGED met
      PROVE  OwnMet(c) /\ (Executing(c)' => Executing(c) /\ since'[c] = since[c])
  BY <1>1 DEF OwnMet, Executing, SinceStep
<1>2. CASE ConnectionStep
  <2>1. UNCHANGED <<handler, current, verdict>>
    BY <1>2, ConnectionIsMove, ConnectionCases
       DEF Quiet, Cancels, DispatchOmInstalled, mutationVars, handlerVars
  <2> QED
    BY <1>1, <1>2, <2>1 DEF ConnectionStep
<1>3. CASE TargetChanged
  BY <1>1, <1>3 DEF TargetChanged, mutationVars, handlerVars
<1>4. ASSUME NEW d \in Callers, OwnStep(d)
      PROVE  UNCHANGED <<handler, current, verdict>> /\ UNCHANGED met
  <2>1. CASE Alone(d)
    BY <2>1, AloneVars DEF vars, mutationVars, handlerVars, ghosts
  <2>2. CASE Posts(d)
    BY <2>2 DEF Posts, Preflight, PollCaptures, PostCapture, mutationVars, handlerVars, ghosts
  <2>3. CASE Dispatch(d)
    BY <2>3 DEF Dispatch, DispatchStopped, DispatchStale, DispatchEnqueue, handlerVars, ghosts
  <2>4. CASE Capture(d)
    BY <2>4 DEF Capture, mutationVars, handlerVars, ghosts
  <2> QED
    BY <1>4, <2>1, <2>2, <2>3, <2>4, OwnCases
<1>5. CASE UNCHANGED allVars
  BY <1>1, <1>5 DEF allVars, vars, mutationVars, handlerVars, ghosts
<1>6. CASE HandlerStep
  <2>1. CASE DispatchPop
    BY <1>1, <1>6, <2>1 DEF HandlerStep, DispatchPop, handlerVars, OwnMet, Executing
  <2>2. CASE DispatchCheck
    <3>1. handler = "popped" /\ handler' = "checked" /\ UNCHANGED <<met, since, current>>
          /\ verdict' = Verdict(call[current])
      BY <1>6, <2>2 DEF HandlerStep, DispatchCheck
    <3> QED
      BY <2>2, <3>1 DEF OwnMet, Executing
  <2>3. CASE DispatchComplete
    <3>1. handler = "checked" /\ handler' = "completed"
          /\ met' = IF verdict = "execute" THEN [met EXCEPT ![current] = since[current]] ELSE met
      BY <1>6, <2>3 DEF HandlerStep, DispatchComplete
    <3>2. met \in [Callers -> Moves]
      BY DEF ControlShape
    <3> QED
      BY <3>1, <3>2 DEF OwnMet, Executing
  <2>4. CASE DispatchReschedule
    BY <1>6, <2>4 DEF HandlerStep, DispatchReschedule, OwnMet, Executing
  <2> QED
    BY <1>6, <2>1, <2>2, <2>3, <2>4 DEF HandlerStep, Handler
<1> QED
  BY <1>1, <1>2, <1>3, <1>4, <1>5, <1>6 DEF NextControl, OwnStep

(* The position that a call carries stays good until it is executed. *)
LEMMA CarriedKept ==
    ASSUME ConnInv, ConnInv', Clock, ControlShape, CallShape, CallInv, NEW c \in Callers,
           SinceStep(c), Progress(c), CarriedOf(c), [NextControl]_allVars
    PROVE  CarriedOf(c)'
<1>1. call[c].expected \in Nat /\ call[c].expected_sequence \in Nat \cup {NoSequence}
  BY DEF CallShape, CallRecord
<1>2. ASSUME Outstanding(c)'
      PROVE  call'[c].expected_sequence # NoSequence /\ Follows(c, Expected(call[c]))'
  <2>1. Outstanding(c) /\ Expected(call'[c]) = Expected(call[c])
        /\ call'[c].expected_sequence = call[c].expected_sequence
    BY <1>2 DEF Progress, Outstanding, Expected
  <2>2. Follows(c, Expected(call[c])) /\ call[c].expected_sequence \in Nat
    BY <1>1, <2>1 DEF CarriedOf
  <2>3. Expected(call[c]).generation \in Nat /\ Expected(call[c]).sequence \in Nat
    BY <1>1, <2>2 DEF Expected
  <2>4. /\ ~ Earlier(Now', Expected(call[c]))
        /\ since'[c] # "unchanged" => Earlier(Expected(call[c]), Now') \/ stop_requested'
    BY <2>2, <2>3, FollowsKept
  <2> QED
    BY <2>1, <2>2, <2>4 DEF Follows, CarriedOf
<1>3. Executing(c)' => since'[c] = "unchanged"
  <2>1. ASSUME DispatchCheck, current = c, UNCHANGED since, Verdict(call[c]) = "execute"
        PROVE  since'[c] = "unchanged"
    <3>1. call[c].state = "popped"
      BY <2>1 DEF CallInv, AtWork, DispatchCheck
    <3>2. Follows(c, Expected(call[c])) /\ call[c].expected_sequence # NoSequence
      BY <3>1 DEF CarriedOf, Outstanding
    <3>3. ~ stop_requested /\ generation = call[c].expected
          /\ sequence = call[c].expected_sequence
      BY <2>1, <3>2 DEF Verdict, Cancelled, Stale
    <3>4. generation \in Nat /\ sequence \in Nat
      BY DEF ConnInv, Shape
    <3> QED
      BY <2>1, <3>2, <3>3, <3>4 DEF Follows, Earlier, Expected, Now
  <2> QED
    BY <2>1, VerdictStep DEF CarriedOf
<1>4. met'[c] = "unchanged"
  BY VerdictStep DEF CarriedOf, OwnMet
<1> QED
  BY <1>2, <1>3, <1>4 DEF CarriedOf, Follows, Now, Expected

-----------------------------------------------------------------------------
(* What the step of a control comes to: an answer, or the next place. *)
Concludes(c, o) ==
    /\ Ends(c, o) /\ o \in Outcome /\ Truthful(o, helper[c], call[c].executed)
    /\ call[c].state \in {"idle", "done"} /\ at[c] # "idle"
    /\ \/ UNCHANGED sources /\ at[c] \notin {"preflighting", "polling"}
       \/ Runs(CaptureSource(c))

Waits(c) ==
    /\ at[c] \in {"preflight", "poll"}
    /\ Goes(c, IF at[c] = "preflight" THEN "preflighting" ELSE "polling")
    /\ Attaches(CaptureSource(c))
    /\ UNCHANGED <<helper, request, snap, confirmations, outcome>>

Decides(c) ==
    /\ at[c] = "preflighted" /\ Goes(c, "dispatch")
    /\ request[c].sequence # NoSequence => IsNext(snap[c], request[c])
    /\ UNCHANGED <<helper, request, snap, confirmations, outcome, sources>>

Executed(c) ==
    /\ at[c] = "submitted" /\ call[c].state = "done" /\ call[c].result = Handled
    /\ Goes(c, "poll")
    /\ UNCHANGED <<helper, request, snap, confirmations, outcome, sources>>

PollsOn(c) ==
    /\ at[c] = "polled" /\ Goes(c, "poll")
    /\ snap' = [snap EXCEPT ![c] = NoSnapshot]
    /\ confirmations' =
          [confirmations EXCEPT ![c] = confirmations_from_snapshot(helper[c], snap[c])]
    /\ UNCHANGED <<helper, request, outcome, sources>>

Captured(c) ==
    /\ at[c] \in {"preflighting", "polling"}
    /\ Goes(c, IF at[c] = "preflighting" THEN "preflighted" ELSE "polled")
    /\ sequence' = sequence + 1
    /\ snap' = [snap EXCEPT ![c] = [generation |-> generation, sequence |-> sequence + 1,
                                    target |-> target]]
    /\ Runs(CaptureSource(c))
    /\ UNCHANGED <<helper, request, confirmations, outcome, generation, stop_requested>>

Continues(c) ==
    \/ Begin(c) \/ Dispatch(c)
    \/ Waits(c) \/ Decides(c) \/ Executed(c) \/ PollsOn(c) \/ Captured(c)

LEMMA UnavailableFacts ==
    ASSUME ControlShape, NEW c \in Callers, OneSequence(confirmations[c]),
           NEW code \in {"runtime_stopped", "internal_error"}, NEW times
    PROVE  /\ Unavailable(c, code) \in Outcome
           /\ Truthful(Unavailable(c, code), helper[c], times)
<1>1. /\ code \in Codes /\ code \notin Stale \cup {"deadline_expired", "confirmation_timeout"}
      /\ "RuntimeError" \in Codes
      /\ "RuntimeError" \notin Stale \cup {"deadline_expired", "confirmation_timeout"}
  BY CodesListed DEF Cancelled
<1>2. confirmations[c] \in SUBSET Confirmations
  BY DEF ControlShape
<1> DEFINE status == IF code = "runtime_stopped" THEN "cancelled" ELSE "failed"
           o == Failure(status, code, FALSE)
           p == Partial(o, confirmations[c])
           r == Raised("RuntimeError")
<1>3. status \in Statuses /\ status \notin {"none", "confirmed"} /\ "raised" \in Statuses
  BY DEF Statuses
<1>4. /\ o \in Outcome /\ o.status = status /\ o.code = code /\ o.retryable = FALSE
  <2> HIDE DEF status
  <2> QED
    BY <1>1, <1>3 DEF Failure, Outcome
<1>5. /\ p \in Outcome /\ p.status = status /\ p.code = code /\ p.retryable = FALSE
      /\ p.confirmations = confirmations[c]
  <2> HIDE DEF o, status
  <2> QED
    BY <1>2, <1>4, PartialFacts
<1>6. /\ r \in Outcome /\ r.status = "raised" /\ r.code = "RuntimeError"
      /\ r.retryable = FALSE /\ r.confirmations = {}
  BY <1>1, <1>3 DEF Raised, Failure, Outcome
<1>7. Unavailable(c, code) \in {p, r}
  BY DEF Unavailable
<1> HIDE DEF status, o, p, r
<1>8. Truthful(p, helper[c], times)
  BY <1>1, <1>3, <1>5, Harmless
<1>9. Truthful(r, helper[c], times)
  BY <1>1, <1>6, NoneConfirmed, Harmless
<1> QED
  BY <1>5, <1>6, <1>7, <1>8, <1>9

LEMMA TicketFacts ==
    ASSUME NEW code \in NativeRefusals \cup {"none"} \cup Cancelled \cup Stale, NEW times,
           code \in NativeRefusals \/ times = 0, NEW kind
    PROVE  /\ ticket_failure_outcome(code) \in Outcome
           /\ Truthful(ticket_failure_outcome(code), kind, times)
<1> DEFINE status == IF code \in Cancelled THEN "cancelled"
                     ELSE IF code = "native_rejected" THEN "failed" ELSE "rejected"
           retryable == code = "generation_lost"
           o == ticket_failure_outcome(code)
<1>1. code \in Codes /\ code \notin {"deadline_expired", "confirmation_timeout"}
      /\ (code \in NativeRefusals => ~ retryable /\ code \notin Stale)
  BY CodesListed
<1>2. status \in Statuses /\ status \notin {"none", "confirmed"} /\ retryable \in BOOLEAN
  BY DEF Statuses
<1>3. o = Failure(status, code, retryable)
  BY DEF ticket_failure_outcome
<1> HIDE DEF status, o
<1>4. o \in Outcome /\ o.status = status /\ o.code = code /\ o.confirmations = {}
      /\ (o.retryable <=> retryable)
  BY <1>1, <1>2, <1>3 DEF Failure, Outcome
<1>5. Truthful(o, kind, times)
  BY <1>1, <1>2, <1>4, NoneConfirmed DEF Truthful
<1> QED
  BY <1>4, <1>5 DEF o

LEMMA OwnOutcomes ==
    ASSUME ControlInv, NEW c \in Callers, OwnStep(c)
    PROVE  (\E o : Concludes(c, o)) \/ Continues(c)
<1>1. /\ ControlShape /\ CallShape /\ CallInv /\ PhaseOf(c) /\ AnswerOf(c)
      /\ helper[c] \in Helpers /\ request[c] \in RequestRecord /\ snap[c] \in SnapshotRecord
      /\ OneSequence(confirmations[c])
  BY DEF ControlInv, ControlOf, CallsInv, ControlShape, AnswerOf
<1>2. /\ call[c].state = "idle" => call[c].executed = 0
      /\ call[c].state = "done" =>
            call[c].executed = IF call[c].result = Handled THEN 1 ELSE 0
      /\ call[c].result \in {"none", Handled} \cup Cancelled \cup Stale
  BY <1>1 DEF CallInv, CallShape, CallRecord
<1>3. at[c] \in Before => call[c].state = "idle"
  BY <1>1 DEF PhaseOf
<1>4. CASE ExpiredAtOnce(c)
  <2>1. at[c] = "preflight" /\ Ends(c, Expired) /\ UNCHANGED sources
    BY <1>4 DEF ExpiredAtOnce, vars, connVars
  <2>2. call[c].executed = 0 /\ call[c].state = "idle"
    BY <1>2, <1>3, <2>1 DEF Before
  <2>3. Judged(Expired, helper[c], request[c], snap[c]) /\ Expired # Pending
    <3>1. Expired # Pending
      BY DEF Expired, Pending, Failure
    <3> QED
      BY <3>1, ExpiredIsJudged, NoneConfirmed
  <2> QED
    BY <2>1, <2>2, <2>3 DEF Concludes, Judged
<1>5. CASE Preflight(c) \/ PollCaptures(c)
  <2>1. call[c].state \in {"idle", "done"} /\ at[c] \in {"preflight", "poll"}
    BY <1>1, <1>5 DEF Preflight, PollCaptures, PhaseOf, Before, Looking
  <2>2. CASE RuntimeReady
    BY <1>5, <2>1, <2>2 DEF Preflight, PollCaptures, PostCapture, Waits, Continues, Attaches
  <2>3. CASE ~ RuntimeReady
    <3>1. Ends(c, Unavailable(c, "runtime_stopped")) /\ UNCHANGED sources
      BY <1>5, <2>3 DEF Preflight, PollCaptures, PostCapture
    <3>2. /\ Unavailable(c, "runtime_stopped") \in Outcome
          /\ Truthful(Unavailable(c, "runtime_stopped"), helper[c], call[c].executed)
      BY <1>1, UnavailableFacts
    <3> QED
      BY <2>1, <3>1, <3>2 DEF Concludes
  <2> QED
    BY <2>2, <2>3
<1>6. CASE Decide(c)
  <2>1. PICK o \in PreflightResults(helper[c], request[c], snap[c]) :
            IF o = Pending
            THEN /\ Goes(c, "dispatch")
                 /\ UNCHANGED <<helper, request, snap, confirmations, outcome>>
            ELSE Ends(c, o)
    BY <1>6 DEF Decide
  <2>2. at[c] = "preflighted" /\ UNCHANGED sources
    BY <1>6 DEF Decide, vars, connVars
  <2>3. Judged(o, helper[c], request[c], snap[c])
    BY <1>1, PreflightIsJudged
  <2>4. CASE o = Pending
    BY <2>1, <2>2, <2>3, <2>4 DEF Judged, Decides, Continues
  <2>5. CASE o # Pending
    <3>1. call[c].executed = 0 /\ call[c].state = "idle"
      BY <1>2, <1>3, <2>2 DEF Before
    <3> QED
      BY <2>1, <2>2, <2>3, <2>5, <3>1 DEF Judged, Concludes
  <2> QED
    BY <2>4, <2>5
<1>7. CASE TicketReturns(c)
  <2>1. at[c] = "submitted" /\ call[c].state = "done" /\ UNCHANGED sources
    BY <1>7 DEF TicketReturns, vars, connVars
  <2>2. CASE call[c].result = Handled /\ Goes(c, "poll")
              /\ UNCHANGED <<helper, request, snap, confirmations, outcome>>
    BY <2>1, <2>2 DEF Executed, Continues
  <2>3. ASSUME NEW code, Ends(c, ticket_failure_outcome(code)),
               code \in NativeRefusals \/ (code = call[c].result /\ call[c].result # Handled)
        PROVE  \E o : Concludes(c, o)
    <3>1. /\ code \in NativeRefusals \cup {"none"} \cup Cancelled \cup Stale
          /\ code \in NativeRefusals \/ call[c].executed = 0
      BY <1>2, <2>1, <2>3
    <3>2. /\ ticket_failure_outcome(code) \in Outcome
          /\ Truthful(ticket_failure_outcome(code), helper[c], call[c].executed)
      BY <3>1, TicketFacts
    <3> QED
      BY <2>1, <2>3, <3>2 DEF Concludes
  <2> QED
    BY <1>7, <2>2, <2>3 DEF TicketReturns
<1>8. CASE PollExpires(c)
  <2> DEFINE o == Failure("timed_out", "confirmation_timeout", FALSE)
             p == Partial(o, confirmations[c])
  <2>1. at[c] = "poll" /\ Ends(c, p) /\ UNCHANGED sources
    BY <1>8 DEF PollExpires, vars, connVars
  <2>2. call[c].state = "done" /\ call[c].executed = 1
    BY <1>1, <1>2, <2>1 DEF PhaseOf, Looking
  <2>3. o \in Outcome /\ o.status = "timed_out" /\ o.code = "confirmation_timeout"
        /\ o.retryable = FALSE
    BY CodesListed DEF Failure, Outcome, Statuses
  <2>4. confirmations[c] \in SUBSET Confirmations
    BY <1>1 DEF ControlShape
  <2> HIDE DEF o
  <2>5. p \in Outcome /\ p.status = "timed_out" /\ p.code = "confirmation_timeout"
        /\ p.retryable = FALSE /\ p.confirmations = confirmations[c]
    BY <2>3, <2>4, PartialFacts
  <2> HIDE DEF p
  <2>6. Truthful(p, helper[c], call[c].executed)
    BY <1>1, <2>2, <2>5, CodesListed DEF Truthful
  <2> QED
    BY <2>1, <2>2, <2>5, <2>6 DEF Concludes
<1>9. CASE Polled(c)
  <2> DEFINE confirmed == confirmations_from_snapshot(helper[c], snap[c])
             o == Failure("cancelled", "generation_lost", FALSE)
             p == Partial(o, confirmations[c])
  <2>1. at[c] = "polled" /\ UNCHANGED sources
    BY <1>9 DEF Polled, vars, connVars
  <2>2. call[c].state = "done"
    BY <1>1, <2>1 DEF PhaseOf, Looking
  <2>3. \/ Ends(c, p)
        \/ Satisfied(helper[c], confirmed) /\ Ends(c, Confirmed(confirmed))
        \/ PollsOn(c)
    BY <1>9, <2>1 DEF Polled, PollsOn
  <2>4. confirmed \in SUBSET Confirmations /\ OneSequence(confirmed)
    BY <1>1, ObservedFacts
  <2> HIDE DEF confirmed
  <2>5. ASSUME Satisfied(helper[c], confirmed), Ends(c, Confirmed(confirmed))
        PROVE  Concludes(c, Confirmed(confirmed))
    BY <2>1, <2>2, <2>4, <2>5, ConfirmedFacts DEF Concludes
  <2>6. /\ o \in Outcome /\ o.status = "cancelled" /\ o.code = "generation_lost"
        /\ o.retryable = FALSE
    BY CodesListed DEF Failure, Outcome, Statuses
  <2>7. confirmations[c] \in SUBSET Confirmations
    BY <1>1 DEF ControlShape
  <2> HIDE DEF o
  <2>8. /\ p \in Outcome /\ p.status = "cancelled" /\ p.code = "generation_lost"
        /\ p.retryable = FALSE /\ p.confirmations = confirmations[c]
    BY <2>6, <2>7, PartialFacts
  <2>9. "generation_lost" \notin Stale \cup {"deadline_expired", "confirmation_timeout"}
    BY CodesListed DEF Cancelled
  <2> HIDE DEF p
  <2>10. Truthful(p, helper[c], call[c].executed)
    BY <1>1, <2>8, <2>9, Harmless
  <2> QED
    BY <2>1, <2>2, <2>3, <2>5, <2>8, <2>10 DEF Concludes, Continues
<1>10. CASE Capture(c)
  <2>1. Runs(CaptureSource(c))
    BY <1>10 DEF Capture, NextSource, Runs
  <2>2. At(sources, CaptureSource(c)) # {}
    <3>1. 1 \in At(sources, CaptureSource(c))
      BY <2>1, AtHead DEF Runs, ControlInv
    <3> QED
      BY <3>1
  <2>3. at[c] \in {"preflighting", "polling"}
    BY <2>2 DEF ControlInv, ControlOf, CaptureOf
  <2>4. call[c].state \in {"idle", "done"}
    BY <1>1, <2>3 DEF PhaseOf, Before, Looking
  <2>5. CASE Ends(c, Unavailable(c, "internal_error"))
    <3>1. /\ Unavailable(c, "internal_error") \in Outcome
          /\ Truthful(Unavailable(c, "internal_error"), helper[c], call[c].executed)
      BY <1>1, UnavailableFacts
    <3> QED
      BY <2>1, <2>3, <2>4, <2>5, <3>1 DEF Concludes
  <2>6. CASE ~ Ends(c, Unavailable(c, "internal_error"))
    BY <1>10, <2>1, <2>3, <2>6 DEF Capture, stopVars, Captured, Continues
  <2> QED
    BY <2>5, <2>6
<1> QED
  BY <1>4, <1>5, <1>6, <1>7, <1>8, <1>9, <1>10 DEF OwnStep, ControlStep, Continues

-----------------------------------------------------------------------------
(* The types. *)
ControlParts == /\ at \in [Callers -> Places] /\ helper \in [Callers -> Helpers]
                /\ request \in [Callers -> RequestRecord]
                /\ snap \in [Callers -> SnapshotRecord]
                /\ confirmations \in [Callers -> SUBSET Confirmations]
                /\ outcome \in [Callers -> Outcome]

LEMMA ValueTypes ==
    /\ NoSnapshot \in SnapshotRecord /\ NoRequest \in RequestRecord
    /\ Gone \in Target /\ Targets \subseteq Target
    /\ Before \subseteq Places /\ Looking \subseteq Places
    /\ {"idle", "submitted", "done"} \subseteq Places
  BY ControlAssumption DEF NoSnapshot, NoRequest, SnapshotRecord, RequestRecord, Gone, Target,
     NoSequence, Before, Looking, Places

LEMMA OwnParts ==
    ASSUME ControlInv, NEW c \in Callers, OwnStep(c) PROVE ControlParts'
<1>1. /\ ControlParts /\ generation \in Nat /\ sequence \in Nat /\ target \in Target
      /\ helper[c] \in Helpers /\ snap[c] \in SnapshotRecord
  BY ValueTypes DEF ControlInv, ControlShape, ControlParts, ConnInv, Shape
<1>2. ASSUME NEW place \in Places, Goes(c, place) PROVE at' \in [Callers -> Places]
  BY <1>1, <1>2 DEF Goes, ControlParts
<1>3. ASSUME NEW s \in SnapshotRecord, snap' = [snap EXCEPT ![c] = s]
      PROVE  snap' \in [Callers -> SnapshotRecord]
  BY <1>1, <1>3 DEF ControlParts
<1>4. ASSUME NEW f \in SUBSET Confirmations, confirmations' = [confirmations EXCEPT ![c] = f]
      PROVE  confirmations' \in [Callers -> SUBSET Confirmations]
  BY <1>1, <1>4 DEF ControlParts
<1>5. ASSUME NEW o, Concludes(c, o) PROVE ControlParts'
  <2>1. outcome' \in [Callers -> Outcome]
    BY <1>1, <1>5 DEF Concludes, Ends, ControlParts
  <2>2. at' \in [Callers -> Places] /\ snap' \in [Callers -> SnapshotRecord]
        /\ confirmations' \in [Callers -> SUBSET Confirmations]
        /\ UNCHANGED <<helper, request>>
    BY <1>2, <1>3, <1>4, <1>5, ValueTypes, NoneConfirmed DEF Concludes, Ends
  <2> QED
    BY <1>1, <2>1, <2>2 DEF ControlParts
<1>6. CASE Begin(c)
  <2>1. Goes(c, "preflight") /\ "preflight" \in Places
        /\ UNCHANGED <<snap, confirmations, outcome>>
    BY <1>6 DEF Begin, Places
  <2>2. helper' \in [Callers -> Helpers]
    BY <1>1, <1>6 DEF Begin, ControlParts
  <2>3. \A s \in {NoSequence, sequence} : [generation |-> generation, sequence |-> s]
                                            \in RequestRecord
    BY <1>1 DEF RequestRecord
  <2>4. request' \in [Callers -> RequestRecord]
    <3>1. PICK s \in {NoSequence, sequence} :
              request' = [request EXCEPT ![c] = [generation |-> generation, sequence |-> s]]
      BY <1>6 DEF Begin
    <3> QED
      BY <1>1, <2>3, <3>1 DEF ControlParts
  <2> QED
    BY <1>1, <1>2, <2>1, <2>2, <2>4 DEF ControlParts
<1>7. CASE Dispatch(c)
  <2>1. Goes(c, "submitted") /\ snap' = [snap EXCEPT ![c] = NoSnapshot]
        /\ UNCHANGED <<helper, request, confirmations, outcome>>
    BY <1>7 DEF Dispatch
  <2> QED
    BY <1>1, <1>2, <1>3, <2>1, ValueTypes DEF ControlParts
<1>8. CASE Waits(c) \/ Decides(c) \/ Executed(c)
  <2>1. PICK place \in {"preflighting", "polling", "dispatch", "poll"} : Goes(c, place)
    BY <1>8 DEF Waits, Decides, Executed
  <2>2. UNCHANGED <<helper, request, snap, confirmations, outcome>>
    BY <1>8 DEF Waits, Decides, Executed
  <2> QED
    BY <1>1, <1>2, <2>1, <2>2 DEF ControlParts, Places
<1>9. CASE PollsOn(c)
  <2>1. confirmations' \in [Callers -> SUBSET Confirmations]
    BY <1>1, <1>4, <1>9, ObservedFacts DEF PollsOn
  <2>2. at' \in [Callers -> Places] /\ snap' \in [Callers -> SnapshotRecord]
        /\ UNCHANGED <<helper, request, outcome>>
    BY <1>2, <1>3, <1>9, ValueTypes DEF PollsOn, Places
  <2> QED
    BY <1>1, <2>1, <2>2 DEF ControlParts
<1>10. CASE Captured(c)
  <2>1. [generation |-> generation, sequence |-> sequence + 1, target |-> target]
          \in SnapshotRecord
    BY <1>1 DEF SnapshotRecord
  <2>2. PICK place \in {"preflighted", "polled"} : Goes(c, place)
    BY <1>10 DEF Captured
  <2>3. at' \in [Callers -> Places] /\ snap' \in [Callers -> SnapshotRecord]
        /\ UNCHANGED <<helper, request, confirmations, outcome>>
    BY <1>2, <1>3, <1>10, <2>1, <2>2 DEF Captured, Places
  <2> QED
    BY <1>1, <2>3 DEF ControlParts
<1> QED
  BY <1>5, <1>6, <1>7, <1>8, <1>9, <1>10, OwnOutcomes DEF Continues

LEMMA OwnGhosts ==
    ASSUME NEW d, OwnStep(d) PROVE UNCHANGED <<target, ghosts>>
<1>1. CASE Alone(d)
  BY <1>1, AloneVars DEF vars
<1>2. CASE Posts(d)
  BY <1>2 DEF Posts, Preflight, PollCaptures, PostCapture
<1>3. CASE Dispatch(d) \/ Capture(d)
  BY <1>3 DEF Dispatch, Capture
<1> QED
  BY <1>1, <1>2, <1>3, OwnCases

LEMMA ControlShapeStep ==
    ASSUME ControlInv, [NextControl]_allVars PROVE ControlShape'
<1>1. /\ ControlShape /\ CallShape /\ CallInv /\ ControlParts
  BY DEF ControlInv, ControlShape, ControlParts, CallsInv
<1>2. ASSUME NEW c \in Callers, NEW how \in Moves PROVE Moved(c, how) \in Moves
  BY <1>1 DEF Moved, ControlShape
<1>3. CASE ConnectionStep
  <2>1. "lost" \in Moves
    BY DEF Moves
  <2>2. since' \in [Callers -> Moves]
    BY <1>1, <1>2, <1>3, <2>1 DEF ConnectionStep, ControlShape
  <2>3. target' \in Targets \cup {Gone} /\ UNCHANGED <<controlVars, met>>
    BY <1>1, <1>3 DEF ConnectionStep, ControlShape
  <2> QED
    BY <1>1, <2>2, <2>3 DEF ControlShape, controlVars
<1>4. CASE TargetChanged
  <2>1. "changed" \in Moves
    BY DEF Moves
  <2>2. since' \in [Callers -> Moves]
    BY <1>1, <1>2, <1>4, <2>1 DEF TargetChanged, ControlShape
  <2>3. target' \in Targets \cup {Gone} /\ UNCHANGED <<controlVars, met>>
    BY <1>1, <1>4 DEF TargetChanged, ControlShape
  <2> QED
    BY <1>1, <2>2, <2>3 DEF ControlShape, controlVars
<1>5. CASE HandlerStep
  <2>1. met' \in [Callers -> Moves]
    <3>1. CASE handler = "checked" /\ verdict = "execute"
      <4>1. current \in Callers
        BY <1>1, <3>1 DEF CallInv, AtWork
      <4>2. since[current] \in Moves /\ met \in [Callers -> Moves]
        BY <1>1, <4>1 DEF ControlShape
      <4> QED
        BY <1>5, <3>1, <4>2 DEF HandlerStep
    <3>2. CASE ~ (handler = "checked" /\ verdict = "execute")
      BY <1>1, <1>5, <3>2 DEF HandlerStep, ControlShape
    <3> QED
      BY <3>1, <3>2
  <2> QED
    BY <1>1, <1>5, <2>1 DEF ControlShape, HandlerStep, controlVars
<1>6. ASSUME NEW d \in Callers, OwnStep(d) PROVE ControlShape'
  BY <1>1, <1>6, OwnParts, OwnGhosts DEF ControlShape, ControlParts, ghosts
<1>7. CASE UNCHANGED allVars
  BY <1>1, <1>7 DEF allVars, controlVars, ghosts, ControlShape
<1> QED
  BY <1>3, <1>4, <1>5, <1>6, <1>7 DEF NextControl, OwnStep

-----------------------------------------------------------------------------
(* What every step does for every control. *)
LEMMA CommonStep ==
    ASSUME ControlInv, [NextControl]_allVars
    PROVE  /\ ConnInv' /\ CallsInv' /\ Clock /\ ControlShape'
           /\ \A c \in Callers :
                 /\ SinceStep(c)
                 /\ ~ Dispatch(c) => Progress(c)
                 /\ at[c] = "idle" => since'[c] = "unchanged" /\ met'[c] = "unchanged"
                 /\ ~ Dispatch(c) /\ request[c].sequence # NoSequence => CarriedOf(c)'
<1>1. /\ ConnInv /\ CallsInv /\ Shape /\ CallShape /\ CallInv /\ ControlShape
      /\ init = "returned" => started
  BY DEF ControlInv, CallsInv, ConnInv
<1>2. ConnInv' /\ Clock /\ DispatchMove
  BY <1>1, ControlConnInv, ClockStep, ControlDispatch
<1>3. CallsInv' /\ ControlShape'
  BY <1>1, <1>2, CallsInvStep, ControlShapeStep
<1>4. ASSUME NEW c \in Callers
      PROVE  /\ SinceStep(c)
             /\ ~ Dispatch(c) => Progress(c)
             /\ at[c] = "idle" => since'[c] = "unchanged" /\ met'[c] = "unchanged"
             /\ ~ Dispatch(c) /\ request[c].sequence # NoSequence => CarriedOf(c)'
  <2>1. PhaseOf(c) /\ FreshOf(c)
    BY DEF ControlInv, ControlOf
  <2>2. SinceStep(c)
    BY <1>1, <2>1, SinceMoves
  <2>3. ~ Dispatch(c) => Progress(c)
    BY <1>1, OthersProgress
  <2>4. ASSUME at[c] = "idle" PROVE since'[c] = "unchanged" /\ met'[c] = "unchanged"
    <3>1. ~ Executing(c)
      BY <1>1, <2>1, <2>4 DEF PhaseOf, CallInv, AtWork, Executing
    <3>2. OwnMet(c)
      BY <1>1, <2>2, VerdictStep
    <3> QED
      BY <2>1, <2>2, <2>4, <3>1, <3>2 DEF FreshOf, SinceStep, Active, OwnMet
  <2>5. ~ Dispatch(c) /\ request[c].sequence # NoSequence => CarriedOf(c)'
    BY <1>1, <1>2, <2>1, <2>2, <2>3, CarriedKept DEF FreshOf
  <2> QED
    BY <2>2, <2>3, <2>4, <2>5
<1> QED
  BY <1>2, <1>3, <1>4

(* A control that looks on. *)
StandsBy(c) ==
    /\ at'[c] = at[c] /\ helper'[c] = helper[c] /\ request'[c] = request[c]
    /\ snap'[c] = snap[c] /\ confirmations'[c] = confirmations[c] /\ outcome'[c] = outcome[c]

LEMMA OthersStandBy ==
    ASSUME ControlShape, NEW c \in Callers, [NextControl]_allVars, ~ OwnStep(c)
    PROVE  StandsBy(c)
<1>1. UNCHANGED controlVars => StandsBy(c)
  BY DEF controlVars, StandsBy
<1>2. ConnectionStep \/ HandlerStep \/ TargetChanged \/ UNCHANGED allVars => UNCHANGED controlVars
  BY DEF ConnectionStep, HandlerStep, TargetChanged, allVars, controlVars
<1>3. ASSUME NEW d \in Callers, OwnStep(d), d # c PROVE StandsBy(c)
  <2> USE DEF ControlShape, StandsBy
  <2>1. ASSUME NEW o, Ends(d, o) PROVE StandsBy(c)
    BY <1>3, <2>1 DEF Ends, Goes
  <2>2. CASE Begin(d)
    BY <1>3, <2>2 DEF Begin, Goes
  <2>3. CASE ExpiredAtOnce(d) \/ PollExpires(d)
    BY <2>1, <2>3 DEF ExpiredAtOnce, PollExpires
  <2>4. CASE Posts(d)
    <3>1. CASE RuntimeReady
      BY <1>3, <2>4, <3>1 DEF Posts, Preflight, PollCaptures, PostCapture, Goes
    <3>2. CASE ~ RuntimeReady
      BY <2>1, <2>4, <3>2 DEF Posts, Preflight, PollCaptures, PostCapture
    <3> QED
      BY <3>1, <3>2
  <2>5. CASE Decide(d)
    BY <1>3, <2>1, <2>5 DEF Decide, Goes
  <2>6. CASE Dispatch(d)
    BY <1>3, <2>6 DEF Dispatch, Goes
  <2>7. CASE TicketReturns(d)
    BY <1>3, <2>1, <2>7 DEF TicketReturns, Goes
  <2>8. CASE Polled(d)
    BY <1>3, <2>1, <2>8 DEF Polled, Goes
  <2>9. CASE Capture(d)
    BY <1>3, <2>1, <2>9 DEF Capture, Goes
  <2> QED
    BY <1>3, <2>2, <2>3, <2>4, <2>5, <2>6, <2>7, <2>8, <2>9 DEF OwnStep, ControlStep, Posts
<1> QED
  BY <1>1, <1>2, <1>3 DEF NextControl, OwnStep

LEMMA SeenKept ==
    ASSUME ConnInv, ConnInv', Clock, ControlShape, NEW c \in Callers, SinceStep(c), SeenOf(c),
           request[c].sequence # NoSequence, StandsBy(c)
    PROVE  SeenOf(c)'
<1>1. /\ request[c].generation \in Nat /\ request[c].sequence \in Nat
      /\ snap[c].generation \in Nat /\ snap[c].sequence \in Nat
  BY DEF ControlShape, RequestRecord, SnapshotRecord
<1>2. ASSUME NEW p, p \in {request[c], snap[c]}, Follows(c, p)
      PROVE  /\ ~ Earlier(Now', p)
             /\ since'[c] # "unchanged" => Earlier(p, Now') \/ stop_requested'
  BY <1>1, <1>2, FollowsKept
<1> QED
  BY <1>2 DEF SeenOf, StandsBy, Follows, Now

LEMMA Bystander ==
    ASSUME ControlInv, [NextControl]_allVars, NEW c \in Callers, ~ OwnStep(c)
    PROVE  ControlOf(c)'
<1>1. /\ CaptureOf(c) /\ PhaseOf(c) /\ AnswerOf(c) /\ FreshOf(c)
      /\ ConnInv /\ CallShape /\ CallInv /\ ControlShape /\ sources \in Seq(ControlSourceSet)
  BY DEF ControlInv, ControlOf, CallsInv
<1>2. ~ Dispatch(c) /\ ~ Posts(c) /\ ~ Capture(c)
  BY DEF OwnStep, ControlStep, Posts
<1>3. /\ StandsBy(c) /\ Progress(c) /\ SinceStep(c) /\ Clock /\ ConnInv' /\ CallsInv'
      /\ at[c] = "idle" => since'[c] = "unchanged" /\ met'[c] = "unchanged"
      /\ request[c].sequence # NoSequence => CarriedOf(c)'
  BY <1>1, <1>2, CommonStep, OthersStandBy
<1>4. CaptureOf(c)'
  <2>1. SourceMove(c)
    BY <1>1, <1>2, ControlSources
  <2>2. /\ \A i, j \in At(sources', CaptureSource(c)) : i = j
        /\ At(sources', CaptureSource(c)) # {} => At(sources, CaptureSource(c)) # {}
    BY <1>1, <2>1, SourceMoveEffect DEF CaptureOf
  <2> QED
    BY <1>1, <1>3, <2>2 DEF CaptureOf, StandsBy, CaptureSource
<1>5. PhaseOf(c)'
  BY <1>1, <1>3 DEF PhaseOf, StandsBy, Progress, Clock
<1>6. AnswerOf(c)'
  <2>1. at[c] = "done" => call'[c] = call[c]
    BY <1>1, <1>3 DEF PhaseOf, Progress
  <2> QED
    BY <1>1, <1>3, <2>1 DEF AnswerOf, StandsBy
<1>7. FreshOf(c)'
  <2>1. request[c].sequence # NoSequence => SeenOf(c)'
    BY <1>1, <1>3, SeenKept DEF FreshOf
  <2> QED
    BY <1>3, <2>1 DEF FreshOf, StandsBy
<1> QED
  BY <1>4, <1>5, <1>6, <1>7 DEF ControlOf

-----------------------------------------------------------------------------
(* A control's own steps. *)
LEMMA OwnCapture ==
    ASSUME sources \in Seq(ControlSourceSet), NEW c \in Callers, CaptureOf(c),
           \/ UNCHANGED sources /\ at[c] \notin {"preflighting", "polling"}
           \/ Attaches(DispatchSource) /\ at[c] \notin {"preflighting", "polling"}
           \/ Runs(CaptureSource(c))
    PROVE  At(sources', CaptureSource(c)) = {}
<1>1. CASE Runs(CaptureSource(c))
  BY <1>1, AtOnceTail DEF Runs, CaptureOf
<1>2. CASE UNCHANGED sources /\ at[c] \notin {"preflighting", "polling"}
  BY <1>2 DEF CaptureOf
<1>3. CASE Attaches(DispatchSource) /\ at[c] \notin {"preflighting", "polling"}
  <2>1. DispatchSource \in ControlSourceSet /\ DispatchSource # CaptureSource(c)
    BY CapturesAreDistinct, SourcesAreDistinct
  <2> QED
    BY <1>3, <2>1, AtAppend DEF Attaches, CaptureOf
<1> QED
  BY <1>1, <1>2, <1>3

LEMMA DispatchKeeps ==
    ASSUME ControlInv, [NextControl]_allVars, NEW c \in Callers, Dispatch(c)
    PROVE  ControlOf(c)'
<1>1. /\ CaptureOf(c) /\ PhaseOf(c) /\ AnswerOf(c) /\ FreshOf(c)
      /\ ConnInv /\ Shape /\ CallShape /\ CallInv /\ ControlShape
      /\ sources \in Seq(ControlSourceSet)
  BY DEF ControlInv, ControlOf, CallsInv, ConnInv
<1>2. /\ at[c] = "dispatch" /\ at'[c] = "submitted"
      /\ UNCHANGED <<helper, request, confirmations, outcome, since, met, init>>
      /\ UNCHANGED <<generation, sequence, stop_requested, handler, current, verdict>>
      /\ UNCHANGED sources \/ Attaches(DispatchSource)
  BY <1>1 DEF Dispatch, Goes, ghosts, ControlShape, DispatchStopped, DispatchStale,
     DispatchEnqueue, connVars, lifeVars, stopVars, handlerVars, schedule_dispatch_locked,
     Attaches
<1>3. call[c].state = "idle"
  BY <1>1, <1>2 DEF PhaseOf, Before
<1>4. CaptureOf(c)'
  <2>1. At(sources', CaptureSource(c)) = {}
    BY <1>1, <1>2, OwnCapture
  <2> QED
    BY <2>1 DEF CaptureOf, CaptureSource
<1>5. \/ call'[c].state = "done"
      \/ /\ call'[c].state = "queued" /\ call'[c].expected = request[c].generation
         /\ request[c].generation = generation
         /\ request[c].sequence # NoSequence => call'[c].expected_sequence = snap[c].sequence
  <2>1. CASE DispatchStopped(c) \/ DispatchStale(c)
    BY <1>1, <2>1, RefuseEffect
  <2>2. ASSUME NEW s \in Sequences, DispatchEnqueue(c, s), request[c].generation = generation,
               request[c].sequence # NoSequence => s = snap[c].sequence
        PROVE  /\ call'[c].state = "queued" /\ call'[c].expected = request[c].generation
               /\ request[c].sequence # NoSequence =>
                     call'[c].expected_sequence = snap[c].sequence
    BY <1>1, <2>2, SubmitEffect
  <2> QED
    BY <1>1, <2>1, <2>2, DispatchSubmits
<1>6. PhaseOf(c)'
  BY <1>1, <1>2, <1>5 DEF PhaseOf, Before, Looking
<1>7. AnswerOf(c)'
  BY <1>1, <1>2 DEF AnswerOf
<1>8. ASSUME request[c].sequence # NoSequence PROVE CarriedOf(c)'
  <2>1. /\ Follows(c, snap[c]) /\ IsNext(snap[c], request[c])
        /\ met[c] = "unchanged" /\ snap[c].sequence \in Nat
    BY <1>1, <1>2, <1>8 DEF FreshOf, SeenOf, CarriedOf, ControlShape, SnapshotRecord
  <2>2. ASSUME Outstanding(c)'
        PROVE  /\ call'[c].expected_sequence # NoSequence
               /\ Follows(c, Expected(call[c]))'
    <3>1. call'[c].expected_sequence = snap[c].sequence
          /\ call'[c].expected = snap[c].generation
      BY <1>5, <1>8, <2>1, <2>2 DEF Outstanding, IsNext
    <3>2. /\ Expected(call'[c]).generation = snap[c].generation
          /\ Expected(call'[c]).sequence = snap[c].sequence
      BY <3>1 DEF Expected
    <3>3. ~ Earlier(Now, snap[c]) /\ (since[c] # "unchanged" =>
                                         Earlier(snap[c], Now) \/ stop_requested)
      BY <2>1 DEF Follows
    <3>4. ~ Earlier(Now', Expected(call'[c]))
          /\ (since'[c] # "unchanged" => Earlier(Expected(call'[c]), Now') \/ stop_requested')
      BY <1>2, <3>2, <3>3 DEF Earlier, Now
    <3>5. call'[c].expected_sequence # NoSequence
      BY <2>1, <3>1 DEF NoSequence
    <3> QED
      BY <3>4, <3>5 DEF Follows
  <2>3. ~ Executing(c)'
    BY <1>1, <1>2, <1>3 DEF Executing, CallInv, AtWork
  <2> QED
    BY <1>2, <2>1, <2>2, <2>3 DEF CarriedOf
<1>9. FreshOf(c)'
  BY <1>2, <1>8 DEF FreshOf, SeenOf
<1> QED
  BY <1>4, <1>6, <1>7, <1>9 DEF ControlOf

LEMMA BeginKeeps ==
    ASSUME ControlInv, [NextControl]_allVars, NEW c \in Callers, Begin(c)
    PROVE  ControlOf(c)'
<1>1. /\ CaptureOf(c) /\ PhaseOf(c) /\ AnswerOf(c) /\ FreshOf(c)
      /\ ConnInv /\ Shape /\ CallInv /\ ControlShape /\ sources \in Seq(ControlSourceSet)
  BY DEF ControlInv, ControlOf, CallsInv, ConnInv
<1>2. /\ at[c] = "idle" /\ at'[c] = "preflight" /\ init = "returned"
      /\ UNCHANGED <<vars, snap, confirmations, outcome, since, met>>
  BY <1>1 DEF Begin, Goes, ghosts, ControlShape
<1>3. UNCHANGED <<call, handler, current, verdict, sources, init, generation, sequence,
                  stop_requested>>
  BY <1>2 DEF vars, connVars, mutationVars, queueVars, handlerVars, lifeVars, stopVars
<1>4. call[c].state = "idle" /\ since[c] = "unchanged" /\ met[c] = "unchanged"
  BY <1>1, <1>2 DEF PhaseOf, FreshOf
<1>5. PICK s \in {NoSequence, sequence} :
          request'[c] = [generation |-> generation, sequence |-> s]
  BY <1>1 DEF Begin, ControlShape
<1>6. CaptureOf(c)'
  <2>1. At(sources', CaptureSource(c)) = {}
    BY <1>1, <1>2, <1>3, OwnCapture
  <2> QED
    BY <2>1 DEF CaptureOf, CaptureSource
<1>7. PhaseOf(c)' /\ AnswerOf(c)'
  BY <1>1, <1>2, <1>3, <1>4 DEF PhaseOf, AnswerOf, Before, Looking
<1>8. ASSUME request'[c].sequence # NoSequence PROVE SeenOf(c)' /\ CarriedOf(c)'
  <2>1. request'[c].generation = generation' /\ request'[c].sequence = sequence'
    BY <1>3, <1>5, <1>8
  <2>2. generation' \in Nat /\ sequence' \in Nat
    BY <1>1, <1>3 DEF Shape
  <2>3. ~ Earlier(Now', request'[c])
    BY <2>1, <2>2 DEF Earlier, Now
  <2>4. SeenOf(c)'
    BY <1>2, <1>4, <2>3 DEF SeenOf, Follows
  <2>5. ~ Executing(c)' /\ ~ Outstanding(c)'
    BY <1>1, <1>3, <1>4 DEF Executing, Outstanding, CallInv, AtWork
  <2> QED
    BY <1>2, <1>4, <2>4, <2>5 DEF CarriedOf
<1>9. FreshOf(c)'
  BY <1>2, <1>4, <1>8 DEF FreshOf
<1> QED
  BY <1>6, <1>7, <1>9 DEF ControlOf

LEMMA CapturedSeen ==
    ASSUME ConnInv, ControlShape, NEW c \in Callers, SeenOf(c), since'[c] = since[c],
           request[c].sequence # NoSequence, Captured(c)
    PROVE  SeenOf(c)'
<1>1. /\ at'[c] = IF at[c] = "preflighting" THEN "preflighted" ELSE "polled"
      /\ at[c] \in {"preflighting", "polling"} /\ request'[c] = request[c]
      /\ snap'[c] = [generation |-> generation, sequence |-> sequence + 1, target |-> target]
      /\ generation' = generation /\ sequence' = sequence + 1
      /\ stop_requested' = stop_requested
  BY DEF Captured, Goes, ControlShape
<1>2. /\ generation \in Nat /\ sequence \in Nat /\ request[c].sequence \in Nat
      /\ request[c].generation \in Nat
  BY DEF ConnInv, Shape, ControlShape, RequestRecord
<1>3. ASSUME at[c] = "preflighting", IsNext(snap'[c], request[c])
      PROVE  Follows(c, snap[c])'
  <2>1. request[c].generation = generation /\ request[c].sequence = sequence
    BY <1>1, <1>2, <1>3 DEF IsNext
  <2>2. since[c] # "unchanged" => stop_requested
    BY <1>2, <1>3, <2>1 DEF SeenOf, Follows, Earlier, Now
  <2>3. ~ Earlier(Now', snap'[c])
    BY <1>1, <1>2 DEF Earlier, Now
  <2> QED
    BY <1>1, <2>2, <2>3 DEF Follows
<1> QED
  BY <1>1, <1>3 DEF SeenOf

LEMMA OwnKeeps ==
    ASSUME ControlInv, [NextControl]_allVars, NEW c \in Callers, OwnStep(c)
    PROVE  ControlOf(c)'
<1>1. /\ CaptureOf(c) /\ PhaseOf(c) /\ AnswerOf(c) /\ FreshOf(c)
      /\ ConnInv /\ Shape /\ CallShape /\ CallInv /\ ControlShape
      /\ sources \in Seq(ControlSourceSet)
      /\ at \in [Callers -> Places]
  BY DEF ControlInv, ControlOf, CallsInv, ConnInv, ControlShape
<1>2. /\ ConnInv' /\ Clock /\ SinceStep(c) /\ UNCHANGED <<target, since, met>>
      /\ ~ Dispatch(c) => UNCHANGED call
      /\ ~ Dispatch(c) /\ request[c].sequence # NoSequence => CarriedOf(c)'
  BY CommonStep, OwnGhosts, OwnCalls DEF ghosts, mutationVars, queueVars
<1>3. at[c] # "idle" => init' = "returned"
  BY <1>1, <1>2 DEF PhaseOf, Clock
<1>4. ASSUME NEW p, p.generation \in Nat, p.sequence \in Nat, Follows(c, p)
      PROVE  /\ ~ Earlier(Now', p)
             /\ since'[c] # "unchanged" => Earlier(p, Now') \/ stop_requested'
  BY <1>1, <1>2, <1>4, FollowsKept
<1>5. ASSUME at'[c] # "idle", request'[c] = request[c], ~ Dispatch(c),
             request[c].sequence # NoSequence => SeenOf(c)'
      PROVE  FreshOf(c)'
  BY <1>2, <1>5 DEF FreshOf
<1>6. ASSUME NEW o, Concludes(c, o) PROVE ControlOf(c)'
  <2>1. /\ at'[c] = "done" /\ outcome'[c] = o /\ confirmations'[c] = {}
        /\ helper'[c] = helper[c] /\ request'[c] = request[c] /\ at[c] # "idle"
        /\ call[c].state \in {"idle", "done"} /\ Truthful(o, helper[c], call[c].executed)
    BY <1>1, <1>6 DEF Concludes, Ends, Goes, ControlShape
  <2>2. ~ Dispatch(c)
    BY <1>1, <2>1 DEF Dispatch, Goes
  <2>3. CaptureOf(c)'
    <3>1. At(sources', CaptureSource(c)) = {}
      BY <1>1, <1>6, OwnCapture DEF Concludes
    <3> QED
      BY <3>1 DEF CaptureOf, CaptureSource
  <2>4. PhaseOf(c)' /\ AnswerOf(c)'
    BY <1>2, <1>3, <2>1, <2>2, NoneConfirmed DEF PhaseOf, AnswerOf, Before, Looking
  <2>5. FreshOf(c)'
    BY <1>5, <2>1, <2>2 DEF SeenOf
  <2> QED
    BY <2>3, <2>4, <2>5 DEF ControlOf
<1>7. CASE Waits(c)
  <2>1. /\ at[c] \in {"preflight", "poll"} /\ Attaches(CaptureSource(c))
        /\ at'[c] = IF at[c] = "preflight" THEN "preflighting" ELSE "polling"
        /\ UNCHANGED <<helper, request, snap, confirmations, outcome>>
    BY <1>1, <1>7 DEF Waits, Goes
  <2>2. ~ Dispatch(c)
    BY <2>1 DEF Dispatch
  <2>3. CaptureOf(c)'
    <3>1. At(sources, CaptureSource(c)) = {} /\ CaptureSource(c) \in ControlSourceSet
      BY <1>1, <2>1, CapturesAreDistinct DEF CaptureOf
    <3>2. At(sources', CaptureSource(c)) = {Len(sources) + 1}
      BY <1>1, <2>1, <3>1, AtAppend DEF Attaches
    <3> QED
      BY <2>1, <3>2 DEF CaptureOf, CaptureSource
  <2>4. PhaseOf(c)' /\ AnswerOf(c)'
    BY <1>1, <1>2, <1>3, <2>1, <2>2 DEF PhaseOf, AnswerOf, Before, Looking
  <2>5. ASSUME request[c].sequence # NoSequence PROVE SeenOf(c)'
    <3>1. request[c].generation \in Nat /\ request[c].sequence \in Nat
      BY <1>1, <2>5 DEF ControlShape, RequestRecord
    <3> QED
      BY <1>1, <1>4, <2>1, <2>5, <3>1 DEF FreshOf, SeenOf, Follows, Now
  <2>6. FreshOf(c)'
    BY <1>5, <2>1, <2>2, <2>5
  <2> QED
    BY <2>3, <2>4, <2>6 DEF ControlOf
<1>8. CASE Decides(c) \/ Executed(c) \/ PollsOn(c)
  <2>1. /\ at[c] \in {"preflighted", "submitted", "polled"} /\ UNCHANGED sources
        /\ at'[c] = IF at[c] = "preflighted" THEN "dispatch" ELSE "poll"
        /\ at[c] = "submitted" => call[c].state = "done" /\ call[c].result = Handled
        /\ helper'[c] = helper[c] /\ request'[c] = request[c] /\ outcome'[c] = outcome[c]
        /\ at[c] = "preflighted" => /\ snap'[c] = snap[c]
                                    /\ request[c].sequence # NoSequence =>
                                          IsNext(snap[c], request[c])
    BY <1>1, <1>8 DEF Decides, Executed, PollsOn, Goes
  <2>2. OneSequence(confirmations'[c])
    <3>1. CASE PollsOn(c)
      BY <1>1, <3>1, ObservedFacts DEF PollsOn, ControlShape
    <3>2. CASE Decides(c) \/ Executed(c)
      BY <1>1, <3>2 DEF Decides, Executed, AnswerOf
    <3> QED
      BY <1>8, <3>1, <3>2
  <2>3. ~ Dispatch(c)
    BY <2>1 DEF Dispatch
  <2>4. CaptureOf(c)'
    <3>1. At(sources', CaptureSource(c)) = {}
      BY <1>1, <2>1, OwnCapture
    <3> QED
      BY <3>1 DEF CaptureOf, CaptureSource
  <2>5. PhaseOf(c)' /\ AnswerOf(c)'
    BY <1>1, <1>2, <1>3, <2>1, <2>2, <2>3 DEF PhaseOf, AnswerOf, Before, Looking
  <2>6. ASSUME request[c].sequence # NoSequence PROVE SeenOf(c)'
    <3>1. snap[c].generation \in Nat /\ snap[c].sequence \in Nat
      BY <1>1 DEF ControlShape, SnapshotRecord
    <3>2. at[c] = "preflighted" => Follows(c, snap[c])
      BY <1>1, <2>1, <2>6 DEF FreshOf, SeenOf
    <3> QED
      BY <1>4, <2>1, <2>6, <3>1, <3>2 DEF SeenOf, Follows, Now
  <2>7. FreshOf(c)'
    BY <1>5, <2>1, <2>3, <2>6
  <2> QED
    BY <2>4, <2>5, <2>7 DEF ControlOf
<1>9. CASE Captured(c)
  <2>1. /\ at[c] \in {"preflighting", "polling"} /\ Runs(CaptureSource(c))
        /\ at'[c] = IF at[c] = "preflighting" THEN "preflighted" ELSE "polled"
        /\ UNCHANGED <<helper, request, confirmations, outcome>>
    BY <1>1, <1>9 DEF Captured, Goes
  <2>2. ~ Dispatch(c)
    BY <2>1 DEF Dispatch
  <2>3. CaptureOf(c)'
    <3>1. At(sources', CaptureSource(c)) = {}
      BY <1>1, <2>1, OwnCapture
    <3> QED
      BY <3>1 DEF CaptureOf, CaptureSource
  <2>4. PhaseOf(c)' /\ AnswerOf(c)'
    BY <1>1, <1>2, <1>3, <2>1, <2>2 DEF PhaseOf, AnswerOf, Before, Looking
  <2>5. FreshOf(c)'
    BY <1>1, <1>2, <1>5, <1>9, <2>1, <2>2, CapturedSeen DEF FreshOf
  <2> QED
    BY <2>3, <2>4, <2>5 DEF ControlOf
<1> QED
  BY <1>6, <1>7, <1>8, <1>9, OwnOutcomes, DispatchKeeps, BeginKeeps DEF Continues

-----------------------------------------------------------------------------
(* No target without an object manager. *)
LEMMA TargetStep ==
    ASSUME ControlInv, [NextControl]_allVars PROVE (om = "none" => target = Gone)'
<1>1. om = "none" => target = Gone
  BY DEF ControlInv
<1>2. CASE ConnectionStep
  BY <1>2 DEF ConnectionStep
<1>3. CASE TargetChanged
  BY <1>3 DEF TargetChanged, lifeVars
<1>4. CASE HandlerStep
  BY <1>1, <1>4, HandlerLife DEF HandlerStep, lifeVars
<1>5. ASSUME NEW d \in Callers, OwnStep(d) PROVE UNCHANGED <<om, target>>
  BY <1>5, OwnLife, OwnGhosts DEF LifeKept, lifeVars, ControlInv, ConnInv, Shape
<1>6. CASE UNCHANGED allVars
  BY <1>1, <1>6 DEF allVars, vars, connVars, lifeVars
<1> QED
  BY <1>1, <1>2, <1>3, <1>4, <1>5, <1>6 DEF NextControl, OwnStep

LEMMA ControlInvStep ==
    ASSUME ControlInv, [NextControl]_allVars PROVE ControlInv'
<1>1. ConnInv' /\ CallsInv' /\ ControlShape' /\ (init = "returned" => started)'
  BY CommonStep DEF Clock
<1>2. sources' \in Seq(ControlSourceSet)
  BY ControlSources DEF ControlInv
<1>3. \A c \in Callers : ControlOf(c)'
  BY Bystander, OwnKeeps
<1> QED
  BY <1>1, <1>2, <1>3, TargetStep DEF ControlInv

LEMMA InitControlInv == InitControl => ControlInv
<1> SUFFICES ASSUME InitControl PROVE ControlInv
  OBVIOUS
<1>1. ConnInv /\ CallsInv
  BY InitDispatchInv DEF InitControl, DispatchInv
<1>2. /\ sources = <<>> /\ init # "returned" /\ handler = "idle"
      /\ \A c \in Callers : call[c].state = "idle"
  BY DEF InitControl, InitDispatch, Init, Ticket
<1>3. sources \in Seq(ControlSourceSet)
  BY <1>2, EmptyIsSeq
<1>4. ControlShape
  BY PendingFacts, ValueTypes, NoneConfirmed DEF InitControl, ControlShape, Helpers, Moves
<1>5. ASSUME NEW c \in Callers PROVE ControlOf(c)
  <2>1. /\ at[c] = "idle" /\ request[c].sequence = NoSequence /\ outcome[c] = Pending
        /\ confirmations[c] = {} /\ since[c] = "unchanged" /\ met[c] = "unchanged"
    BY DEF InitControl, NoRequest
  <2>2. CaptureOf(c)
    BY <1>2, AtEmpty DEF CaptureOf
  <2> QED
    BY <1>2, <2>1, <2>2, NoneConfirmed DEF ControlOf, PhaseOf, AnswerOf, FreshOf, Before, Looking
<1>6. target = Gone
  BY DEF InitControl
<1> QED
  BY <1>1, <1>2, <1>3, <1>4, <1>5, <1>6 DEF ControlInv

LEMMA ControlInvHolds == ControlSpec => []ControlInv
<1>1. ASSUME ControlInv, [NextControl]_allVars PROVE ControlInv'
  BY <1>1, ControlInvStep
<1> QED
  BY InitControlInv, <1>1, PTL DEF ControlSpec

-----------------------------------------------------------------------------
(* Every variable of the controls keeps its type, there is no target without *)
(* an object manager, and a control has an outcome exactly when it is done   *)
(* (controls.py _execute_confirmed_mutation).                                *)
THEOREM ControlTypeCorrect == ControlSpec => []ControlTypeOK
<1>1. ControlInv => ControlTypeOK
  <2> SUFFICES ASSUME ControlInv PROVE ControlTypeOK
    OBVIOUS
  <2>1. ControlShape /\ (om = "none" => target = Gone)
    BY DEF ControlInv
  <2>2. ASSUME NEW c \in Callers PROVE at[c] = "done" <=> outcome[c].status # "none"
    <3>1. AnswerOf(c) /\ Pending.status = "none"
      BY PendingFacts DEF ControlInv, ControlOf
    <3> QED
      BY <3>1 DEF AnswerOf, Truthful
  <2> QED
    BY <2>1, <2>2 DEF ControlTypeOK, ControlShape, Places, RequestRecord, SnapshotRecord,
       Outcome, Statuses, Confirmations
<1> QED
  BY <1>1, ControlInvHolds, PTL

(* The answer of a control says truly whether its mutation has reached       *)
(* PipeWire: one that invites a retry, or names a stale precondition or the  *)
(* deadline, comes only when nothing was executed, a confirmation_timeout    *)
(* only after exactly one execution (controls.py _ticket_failure_outcome,    *)
(* mutation_dispatch.c complete_call).                                       *)
THEOREM OutcomesTellExecution == ControlSpec => []OutcomeTellsExecution
<1>1. ControlInv => OutcomeTellsExecution
  <2> SUFFICES ASSUME ControlInv, NEW c \in Callers
               PROVE  /\ outcome[c].retryable
                            \/ outcome[c].code \in Stale \cup {"deadline_expired"}
                         => call[c].executed = 0
                      /\ outcome[c].code = "confirmation_timeout" => call[c].executed = 1
    BY DEF OutcomeTellsExecution
  <2>1. AnswerOf(c)
    BY DEF ControlInv, ControlOf
  <2>2. /\ ~ Pending.retryable /\ Pending.code = "none"
        /\ "none" \notin Stale \cup {"deadline_expired", "confirmation_timeout"}
    BY CodesListed, PendingFacts
  <2> QED
    BY <2>1, <2>2 DEF AnswerOf, Truthful
<1> QED
  BY <1>1, ControlInvHolds, PTL

(* A confirmed outcome rests on one snapshot in which every predicate        *)
(* matched, however many have been polled (controls.py                       *)
(* _confirmations_from_snapshot and the polling loop).                       *)
THEOREM ConfirmationIsOneSnapshot == ControlSpec => []ConfirmedTogether
<1>1. ControlInv => ConfirmedTogether
  <2> SUFFICES ASSUME ControlInv, NEW c \in Callers
               PROVE  /\ \A k, l \in outcome[c].confirmations : k[2] = l[2]
                      /\ outcome[c].status = "confirmed" =>
                            Satisfied(helper[c], outcome[c].confirmations)
    BY DEF ConfirmedTogether
  <2>1. AnswerOf(c)
    BY DEF ControlInv, ControlOf
  <2>2. Pending.status = "none" /\ Pending.confirmations = {}
    BY PendingFacts
  <2> QED
    BY <2>1, <2>2 DEF AnswerOf, Truthful, OneSequence
<1> QED
  BY <1>1, ControlInvHolds, PTL

(* A guarded write meets what its caller has seen, whatever other clients,   *)
(* reconnects and other controls do between the caller's position, the       *)
(* preflight capture, the dispatch and the check of the expected sequence on *)
(* the WirePlumber thread (controls.py _preflight_is_stale,                  *)
(* mutation_dispatch.c dispatch_next_mutation_on_wp_thread).                 *)
THEOREM GuardedWritesAreFresh == ControlSpec => []GuardedWriteIsFresh
<1>1. ControlInv => GuardedWriteIsFresh
  BY DEF ControlInv, ControlOf, FreshOf, CarriedOf, GuardedWriteIsFresh
<1> QED
  BY <1>1, ControlInvHolds, PTL

(* Under the confirmed controls, too, a ticket tells whether its mutation    *)
(* was executed, and mutations are executed in dispatch order                *)
(* (mutation_dispatch.c, called by controls.py dispatch_runtime_mutation).   *)
THEOREM ControlsKeepTheDispatcher ==
    ControlSpec => [](TicketTellsExecution /\ ExecutedInOrder /\ OrderIsDense)
<1>1. ControlInv => TicketTellsExecution /\ ExecutedInOrder /\ OrderIsDense
  BY DEF ControlInv, CallsInv, CallInv, LogInv, AssignedInv, TicketTellsExecution
<1> QED
  BY <1>1, ControlInvHolds, PTL

(* Nor do the controls see anything but the line: their calls, too, are      *)
(* served at its head, in the generation of their place, or sent home        *)
(* together (mutation_dispatch.c, called by controls.py                      *)
(* dispatch_runtime_mutation).                                               *)
THEOREM ControlsStandInLine == ControlSpec => LineSpec
<1>1. InitControl => Line!Init
  BY InitLine DEF InitControl
<1>2. ASSUME ControlInv, [NextControl]_allVars PROVE [Line!Next]_(Line!lineVars)
  <2>1. Shape /\ CallsInv /\ ControlShape
    BY <1>2 DEF ControlInv, ConnInv
  <2> QED
    BY <1>2, <2>1, ControlDispatch, LineStep
<1> QED
  BY <1>1, <1>2, ControlInvHolds, PTL DEF ControlSpec, LineSpec, Line!Spec

=============================================================================
