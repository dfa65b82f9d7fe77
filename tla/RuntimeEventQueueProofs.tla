------------------------ MODULE RuntimeEventQueueProofs ------------------------
(***************************************************************************)
(* Proofs about RuntimeEventQueue, for any number of readers, any capacity *)
(* and any positions that producers and resets may present.                *)
(***************************************************************************)
EXTENDS RuntimeEventQueue, FiniteSetTheorems, TLAPS

USE DEF Waiting

(* A tail's elements are the elements of the sequence, shifted by one. *)
LEMMA TailFacts ==
    ASSUME NEW S, NEW s \in Seq(S), s # <<>>
    PROVE  /\ Head(s) \in S /\ Head(s) = s[1]
           /\ Tail(s) \in Seq(S)
           /\ Len(s) \in Nat \ {0}
           /\ Len(Tail(s)) = Len(s) - 1
           /\ \A i \in 1..Len(Tail(s)) : Tail(s)[i] = s[i + 1]
  OBVIOUS

(* What producers publish are events. *)
LEMMA PublishedAreEvents == Published \subseteq Event
  BY QueueAssumption DEF Published, Event

(* A queue that has been emptied. *)
LEMMA EmptyQueue == <<>> \in Seq(Event) /\ Len(<<>>) <= Capacity
<1> Capacity \in Nat
  BY QueueAssumption
<1> <<>> \in Seq(Event) /\ Len(<<>>) = 0
  OBVIOUS
<1> QED
  OBVIOUS

-----------------------------------------------------------------------------
(* Every state of the queue is well typed and within capacity: publish()     *)
(* never lets the buffer outgrow the capacity it was constructed with.       *)
THEOREM TypeCorrect == Spec => []TypeOK
<1>1. Init => TypeOK
  <2> SUFFICES ASSUME Init PROVE TypeOK
    OBVIOUS
  <2>1. generation \in Nat /\ sequence \in Nat
    BY QueueAssumption DEF Init
  <2>2. last \in Event
    BY <2>1 DEF Init, Event
  <2> QED
    BY <2>1, <2>2, EmptyQueue DEF Init, TypeOK
<1>2. TypeOK /\ [Next]_vars => TypeOK'
  <2> SUFFICES ASSUME TypeOK, [Next]_vars PROVE TypeOK'
    OBVIOUS
  <2>1. ASSUME NEW e \in Published, publish(e) PROVE TypeOK'
    <3> e \in Event
      BY PublishedAreEvents
    <3> [e EXCEPT !.kind = "discontinuity"] \in Event
      BY DEF Event
    <3>1. ASSUME NEW f \in Event, ReplaceBy(f) PROVE TypeOK'
      <4>1. /\ events' = <<f>> /\ generation' = f.generation /\ sequence' = f.sequence
            /\ resnapshot_required' = TRUE /\ waiters' = {}
            /\ UNCHANGED <<closed, pc, last>>
        BY <2>1, <3>1 DEF ReplaceBy, NotifyAll, publish
      <4>2. <<f>> \in Seq(Event) /\ Len(<<f>>) = 1 /\ f.generation \in Nat /\ f.sequence \in Nat
        BY DEF Event
      <4>3. resnapshot_required' \in BOOLEAN
        BY <4>1
      <4> QED
        BY <4>1, <4>2, <4>3, QueueAssumption DEF TypeOK
    <3>2. CASE _invalidate(e)
      BY <3>1, <3>2 DEF _invalidate
    <3>3. CASE ReplaceBy(e)
      BY <3>1, <3>3
    <3>4. CASE /\ HasRoom
               /\ events' = Append(events, e)
               /\ sequence' = e.sequence
               /\ Notify
               /\ UNCHANGED <<generation, resnapshot_required>>
      <4>1. events' \in Seq(Event) /\ Len(events') <= Capacity
        BY <3>4, QueueAssumption DEF TypeOK, HasRoom
      <4>2. waiters' \subseteq Consumers
        BY <3>4 DEF TypeOK, Notify
      <4> QED
        BY <2>1, <3>4, <4>1, <4>2 DEF TypeOK, publish, Event
    <3> QED
      BY <2>1, <3>2, <3>3, <3>4 DEF publish
  <2>2. ASSUME NEW g \in Generations, NEW s \in SequenceNumbers, reset(g, s)
        PROVE TypeOK'
    <3>1. g \in Nat /\ s \in Nat
      BY QueueAssumption
    <3> QED
      BY <2>2, <3>1, EmptyQueue DEF TypeOK, reset, NotifyAll
  <2>3. CASE close
    BY <2>3 DEF TypeOK, close, NotifyAll
  <2>4. ASSUME NEW c \in Consumers, PopLeft(c)
        PROVE  /\ events' \in Seq(Event) /\ Len(events') <= Capacity
               /\ last' \in Event
               /\ pc' \in [Consumers -> Waiting \cup {"idle"}]
    BY <2>4, TailFacts, QueueAssumption DEF TypeOK, PopLeft
  <2>5. ASSUME NEW c \in Consumers, Get(c) PROVE TypeOK'
    <3>1. CASE PopLeft(c) /\ UNCHANGED waiters
      BY <2>4, <2>5, <3>1 DEF TypeOK, Get
    <3>2. CASE RaiseWhenEmpty(c, TRUE) /\ UNCHANGED waiters
      BY <2>5, <3>2 DEF TypeOK, Get, RaiseWhenEmpty
    <3>3. CASE \E mode \in {"forever", "timed"} : Wait(c, mode)
      BY <2>5, <3>3 DEF TypeOK, Get, Wait
    <3> QED
      BY <2>5, <3>1, <3>2, <3>3 DEF Get
  <2>6. ASSUME NEW c \in Consumers, TimeOut(c) PROVE TypeOK'
    BY <2>6 DEF TypeOK, TimeOut
  <2>7. ASSUME NEW c \in Consumers, Resume(c) PROVE TypeOK'
    <3>1. CASE PopLeft(c) /\ waiters' = waiters \ {c}
      BY <2>4, <2>7, <3>1 DEF TypeOK, Resume
    <3>2. CASE RaiseWhenEmpty(c, pc[c] # "forever") /\ waiters' = waiters \ {c}
      BY <2>7, <3>2 DEF TypeOK, Resume, RaiseWhenEmpty
    <3>3. CASE pc[c] # "expired" /\ Wait(c, pc[c])
      BY <2>7, <3>3 DEF TypeOK, Resume, Wait
    <3> QED
      BY <2>7, <3>1, <3>2, <3>3 DEF Resume
  <2>8. CASE UNCHANGED vars
    BY <2>8 DEF TypeOK, vars
  <2> QED
    BY <2>1, <2>2, <2>3, <2>5, <2>6, <2>7, <2>8 DEF Next
<1> QED
  BY <1>1, <1>2, PTL DEF Spec

-----------------------------------------------------------------------------
(* The buffer always has the shape a reader relies on: a gapless run of      *)
(* deltas that ends at the queue's position, or a single notice of loss.     *)
THEOREM ShapeHolds == Spec => []QueueShape
<1>1. Init => QueueShape
  BY DEF Init, QueueShape
<1>2. TypeOK /\ QueueShape /\ [Next]_vars => QueueShape'
  <2> SUFFICES ASSUME TypeOK, QueueShape, [Next]_vars PROVE QueueShape'
    OBVIOUS
  <2> USE DEF TypeOK
  <2>1. ASSUME NEW f \in Event, f.kind # "delta", ReplaceBy(f) PROVE QueueShape'
    BY <2>1 DEF ReplaceBy, QueueShape, Event
  <2>2. ASSUME NEW e \in Published, publish(e) PROVE QueueShape'
    <3> e \in Event
      BY PublishedAreEvents
    <3>1. CASE _invalidate(e)
      <4> [e EXCEPT !.kind = "discontinuity"] \in Event
        BY DEF Event
      <4> QED
        BY <2>1, <3>1 DEF _invalidate, Event
    <3>2. CASE e.kind # "delta" /\ ReplaceBy(e)
      BY <2>1, <3>2
    <3>3. CASE /\ InSequence(e) /\ e.kind = "delta"
               /\ events' = Append(events, e)
               /\ sequence' = e.sequence
               /\ UNCHANGED <<generation, resnapshot_required>>
      <4>1. e = [kind |-> "delta", generation |-> generation,
                 sequence |-> sequence + 1]
        BY <3>3 DEF InSequence, Event
      <4>2. ~resnapshot_required /\ ~resnapshot_required'
        BY <2>2, <3>3 DEF publish
      <4>3. Len(events') = Len(events) + 1 /\ Len(events) \in Nat
        BY <3>3
      <4>4. ASSUME NEW i \in 1..Len(events')
            PROVE events'[i] = [kind |-> "delta", generation |-> generation',
                                sequence |-> sequence' - Len(events') + i]
        <5>1. CASE i = Len(events) + 1
          <6>1. events'[i] = e
            BY <3>3, <5>1
          <6>2. sequence' - Len(events') + i = sequence + 1
            BY <3>3, <4>1, <4>3, <5>1
          <6> QED
            BY <3>3, <4>1, <6>1, <6>2
        <5>2. CASE i # Len(events) + 1
          <6>1. i \in 1..Len(events) /\ events'[i] = events[i]
            BY <3>3, <4>3, <5>2
          <6>2. sequence' - Len(events') + i = sequence - Len(events) + i
            BY <3>3, <4>1, <4>3
          <6> QED
            BY <3>3, <4>2, <6>1, <6>2 DEF QueueShape
        <5> QED
          BY <5>1, <5>2
      <4> QED
        BY <4>2, <4>4 DEF QueueShape
    <3> QED
      BY <2>2, <3>1, <3>2, <3>3 DEF publish
  <2>3. ASSUME NEW g, NEW s, reset(g, s) PROVE QueueShape'
    BY <2>3 DEF reset, QueueShape
  <2>4. ASSUME NEW c \in Consumers, PopLeft(c),
               UNCHANGED <<generation, sequence, resnapshot_required>>
        PROVE QueueShape'
    <3>1. /\ Len(events) \in Nat \ {0}
          /\ events' \in Seq(Event)
          /\ Len(events') = Len(events) - 1
          /\ \A i \in 1..Len(events') : events'[i] = events[i + 1]
      BY <2>4, TailFacts DEF PopLeft
    <3>2. CASE resnapshot_required
      BY <2>4, <3>1, <3>2 DEF QueueShape
    <3>3. CASE ~resnapshot_required
      <4>1. ASSUME NEW i \in 1..Len(events')
            PROVE events'[i] = [kind |-> "delta", generation |-> generation',
                                sequence |-> sequence' - Len(events') + i]
        <5>1. i + 1 \in 1..Len(events) /\ events'[i] = events[i + 1]
          BY <3>1
        <5>2. sequence' - Len(events') + i = sequence - Len(events) + (i + 1)
          BY <2>4, <3>1
        <5> QED
          BY <2>4, <3>3, <5>1, <5>2 DEF QueueShape
      <4> QED
        BY <2>4, <3>3, <4>1 DEF QueueShape
    <3> QED
      BY <3>2, <3>3
  <2>5. CASE UNCHANGED <<events, generation, sequence, resnapshot_required>>
    BY <2>5 DEF QueueShape
  <2>6. ASSUME NEW c \in Consumers, Get(c) \/ TimeOut(c) \/ Resume(c)
        PROVE QueueShape'
    BY <2>4, <2>5, <2>6 DEF Get, TimeOut, Resume, RaiseWhenEmpty, Wait
  <2>7. CASE close \/ UNCHANGED vars
    BY <2>5, <2>7 DEF close, vars
  <2> QED
    BY <2>2, <2>3, <2>6, <2>7 DEF Next
<1> QED
  BY <1>1, <1>2, TypeCorrect, PTL DEF Spec

-----------------------------------------------------------------------------
(* NoLostWakeup is not inductive alone: whoever is on the waiters' list must *)
(* be inside get(), or notify() could be spent on a thread that never runs.  *)
WaitersSleep == \A c \in waiters : pc[c] # "idle"

LEMMA WaitersSleepHolds == Spec => []WaitersSleep
<1>1. Init => WaitersSleep
  BY DEF Init, WaitersSleep
<1>2. TypeOK /\ WaitersSleep /\ [Next]_vars => WaitersSleep'
  <2> SUFFICES ASSUME TypeOK, WaitersSleep, [Next]_vars PROVE WaitersSleep'
    OBVIOUS
  <2> USE DEF TypeOK, WaitersSleep
  <2>1. CASE waiters' \subseteq waiters /\ UNCHANGED pc
    BY <2>1
  <2>2. ASSUME NEW e \in Published, publish(e) PROVE WaitersSleep'
    BY <2>1, <2>2 DEF publish, _invalidate, ReplaceBy, NotifyAll, Notify
  <2>3. ASSUME NEW g, NEW s, reset(g, s) PROVE WaitersSleep'
    BY <2>1, <2>3 DEF reset, NotifyAll
  <2>4. CASE close \/ UNCHANGED vars
    BY <2>1, <2>4 DEF close, NotifyAll, vars
  <2>5. ASSUME NEW c \in Consumers, Get(c) PROVE WaitersSleep'
    BY <2>5 DEF Get, PopLeft, RaiseWhenEmpty, Wait
  <2>6. ASSUME NEW c \in Consumers, TimeOut(c) PROVE WaitersSleep'
    BY <2>6 DEF TimeOut
  <2>7. ASSUME NEW c \in Consumers, Resume(c) PROVE WaitersSleep'
    BY <2>7 DEF Resume, PopLeft, RaiseWhenEmpty, Wait
  <2> QED
    BY <2>2, <2>3, <2>4, <2>5, <2>6, <2>7 DEF Next
<1> QED
  BY <1>1, <1>2, TypeCorrect, PTL DEF Spec

(* The woken threads are finitely many, so they can be counted. *)
LEMMA NotifiedFinite == IsFiniteSet(Notified) /\ Cardinality(Notified) \in Nat
  BY QueueAssumption, FS_Subset, FS_CardinalityType DEF Notified

LEMMA NotifiedFiniteNext ==
    IsFiniteSet(Notified') /\ Cardinality(Notified') \in Nat
  BY QueueAssumption, FS_Subset, FS_CardinalityType DEF Notified

(* One notify() per event is enough: a thread is never left on the waiters'  *)
(* list while there are more events than woken threads to take them, and     *)
(* closing or invalidating the queue leaves nobody on the list.              *)
THEOREM WakeupsHold == Spec => []NoLostWakeup
<1>1. Init => NoLostWakeup
  BY DEF Init, NoLostWakeup
<1>2. TypeOK /\ WaitersSleep /\ NoLostWakeup /\ [Next]_vars => NoLostWakeup'
  <2> SUFFICES ASSUME TypeOK, WaitersSleep, NoLostWakeup, [Next]_vars
               PROVE  NoLostWakeup'
    OBVIOUS
  <2> USE DEF TypeOK
  <2>1. CASE waiters' = {}
    BY <2>1 DEF NoLostWakeup
  <2>2. ASSUME Len(events') = 0, ~closed', ~resnapshot_required'
        PROVE  NoLostWakeup'
    BY <2>2, NotifiedFiniteNext DEF NoLostWakeup
  <2>3. ASSUME NEW e \in Published, publish(e) PROVE NoLostWakeup'
    <3>1. CASE _invalidate(e) \/ ReplaceBy(e)
      BY <2>1, <3>1 DEF _invalidate, ReplaceBy, NotifyAll
    <3>2. CASE waiters = {} /\ UNCHANGED waiters
      BY <2>1, <3>2
    <3>3. ASSUME NEW w \in waiters, waiters' = waiters \ {w},
                 events' = Append(events, e), UNCHANGED <<resnapshot_required>>
          PROVE  NoLostWakeup'
      <4>1. w \notin Notified /\ Notified' = Notified \cup {w}
        BY <2>3, <3>3 DEF Notified, WaitersSleep, publish
      <4>2. Cardinality(Notified') = Cardinality(Notified) + 1
        BY <4>1, NotifiedFinite, FS_AddElement
      <4>3. Len(events') = Len(events) + 1 /\ Len(events) \in Nat
        BY <3>3
      <4>4. ~closed' /\ ~resnapshot_required'
        BY <2>3, <3>3 DEF publish
      <4>5. Len(events) <= Cardinality(Notified)
        BY <3>3 DEF NoLostWakeup
      <4> QED
        BY <4>2, <4>3, <4>4, <4>5, NotifiedFinite DEF NoLostWakeup
    <3> QED
      BY <2>3, <3>1, <3>2, <3>3 DEF publish, Notify
  <2>4. ASSUME NEW g, NEW s, reset(g, s) PROVE NoLostWakeup'
    BY <2>1, <2>4 DEF reset, NotifyAll
  <2>5. CASE close
    BY <2>1, <2>5 DEF close, NotifyAll
  <2>6. ASSUME NEW c \in Consumers, Get(c) PROVE NoLostWakeup'
    <3>1. CASE PopLeft(c) /\ UNCHANGED waiters
      <4>1. Notified' = Notified
        BY <2>6, <3>1 DEF Get, PopLeft, Notified
      <4>2. Len(events') <= Len(events) /\ Len(events') \in Nat /\ Len(events) \in Nat
        BY <3>1, TailFacts DEF PopLeft
      <4> QED
        BY <2>6, <3>1, <4>1, <4>2, NotifiedFinite DEF NoLostWakeup, Get
    <3>2. CASE RaiseWhenEmpty(c, TRUE) /\ UNCHANGED waiters
      <4>1. Notified' = Notified
        BY <2>6, <3>2 DEF Get, RaiseWhenEmpty, Notified
      <4> QED
        BY <2>6, <3>2, <4>1 DEF NoLostWakeup, Get, RaiseWhenEmpty
    <3>3. ASSUME NEW mode, Wait(c, mode) PROVE NoLostWakeup'
      BY <2>2, <2>6, <3>3 DEF Get, Wait
    <3> QED
      BY <2>6, <3>1, <3>2, <3>3 DEF Get
  <2>7. ASSUME NEW c \in Consumers, TimeOut(c) PROVE NoLostWakeup'
    <3>1. Notified' = Notified
      BY <2>7 DEF TimeOut, Notified
    <3> QED
      BY <2>7, <3>1 DEF TimeOut, NoLostWakeup
  <2>8. ASSUME NEW c \in Consumers, Resume(c) PROVE NoLostWakeup'
    <3>1. CASE PopLeft(c) /\ waiters' = waiters \ {c}
      <4>1. Notified' = Notified \ {c}
        BY <2>8, <3>1 DEF Resume, PopLeft, Notified
      <4>2. Cardinality(Notified') >= Cardinality(Notified) - 1
        BY <4>1, NotifiedFinite, FS_RemoveElement
      <4>3. Len(events') = Len(events) - 1 /\ Len(events) \in Nat
        BY <3>1, TailFacts DEF PopLeft
      <4>4. waiters' # {} => Len(events') <= Cardinality(Notified')
        BY <3>1, <4>2, <4>3, NotifiedFinite, NotifiedFiniteNext DEF NoLostWakeup
      <4> QED
        BY <2>8, <3>1, <4>4 DEF NoLostWakeup, Resume
    <3>2. CASE RaiseWhenEmpty(c, pc[c] # "forever") /\ waiters' = waiters \ {c}
      <4>1. Len(events') = 0
        BY <3>2 DEF RaiseWhenEmpty
      <4>2. CASE closed \/ resnapshot_required
        BY <2>1, <3>2, <4>2 DEF NoLostWakeup
      <4>3. CASE ~closed /\ ~resnapshot_required
        BY <2>2, <2>8, <4>1, <4>3 DEF Resume
      <4> QED
        BY <4>2, <4>3
    <3>3. CASE Wait(c, pc[c])
      BY <2>2, <2>8, <3>3 DEF Resume, Wait
    <3> QED
      BY <2>8, <3>1, <3>2, <3>3 DEF Resume
  <2>9. CASE UNCHANGED vars
    <3>1. Notified' = Notified
      BY <2>9 DEF vars, Notified
    <3> QED
      BY <2>9, <3>1 DEF vars, NoLostWakeup
  <2> QED
    BY <2>3, <2>4, <2>5, <2>6, <2>7, <2>8, <2>9 DEF Next
<1> QED
  BY <1>1, <1>2, TypeCorrect, WaitersSleepHolds, PTL DEF Spec

-----------------------------------------------------------------------------
(* The queue implements the stream a reader sees, for every capacity: each   *)
(* method is one step of EventStream under the mapping of `Stream', or       *)
(* changes nothing in it.                                                    *)
THEOREM QueueImplementsStream == Spec => StreamSpec
<1>1. Init => Stream!Init
  BY QueueAssumption DEF Init, Stream!Init
<1>2. TypeOK /\ QueueShape /\ [Next]_vars => [Stream!Next]_(Stream!streamVars)
  <2> SUFFICES ASSUME TypeOK, QueueShape, [Next]_vars
               PROVE  Stream!Next \/ UNCHANGED Stream!streamVars
    OBVIOUS
  <2> USE DEF TypeOK
  <2>1. ASSUME NEW e \in Published, publish(e) PROVE Stream!Next
    <3>1. e \in Event /\ e.generation \in Nat /\ e.sequence \in Nat
      BY PublishedAreEvents DEF Event
    <3>2. ~closed /\ ~resnapshot_required /\ UNCHANGED <<closed, last>>
      BY <2>1 DEF publish
    <3>3. ASSUME _invalidate(e),
                 \/ e.generation # generation
                 \/ e.sequence # sequence + 1
                 \/ Len(events) = Capacity
          PROVE Stream!Lose
      <4>1. /\ generation' = e.generation /\ sequence' = e.sequence
            /\ resnapshot_required'
            /\ events' # <<>> /\ events'[1].kind = "discontinuity"
        BY <3>1, <3>3 DEF _invalidate, ReplaceBy, Event
      <4>2. Len(events) = Capacity => sequence - (sequence - Len(events)) = Capacity
        BY QueueAssumption
      <4> QED
        BY <3>1, <3>2, <3>3, <4>1, <4>2 DEF Stream!Lose
    <3>4. CASE InSequence(e) /\ e.kind # "delta" /\ ReplaceBy(e)
      <4>1. e.kind = "resnapshot"
        BY <3>4 DEF Published
      <4>2. /\ generation' = generation /\ sequence' = sequence + 1
            /\ resnapshot_required'
            /\ events' # <<>> /\ events'[1].kind = "resnapshot"
        BY <3>4, <4>1 DEF InSequence, ReplaceBy
      <4>3. Stream!Invalidate
        BY <3>2, <4>2 DEF Stream!Invalidate
      <4> QED
        BY <4>3 DEF Stream!Next
    <3>5. CASE /\ InSequence(e) /\ HasRoom
               /\ events' = Append(events, e)
               /\ sequence' = e.sequence
               /\ UNCHANGED <<generation, resnapshot_required>>
      <4>1. sequence' = sequence + 1 /\ Len(events') = Len(events) + 1
        BY <3>5 DEF InSequence
      <4>2. /\ sequence - (sequence - Len(events)) < Capacity
            /\ sequence' - Len(events') = sequence - Len(events)
        BY <3>5, <4>1, QueueAssumption DEF HasRoom
      <4>3. Stream!Accept
        BY <3>2, <3>5, <4>1, <4>2 DEF Stream!Accept
      <4> QED
        BY <4>3 DEF Stream!Next
    <3>6. ~HasRoom => Len(events) = Capacity
      BY QueueAssumption DEF HasRoom
    <3> QED
      BY <2>1, <3>3, <3>4, <3>5, <3>6 DEF publish, InSequence, Stream!Next
  <2>2. ASSUME NEW g \in Generations, NEW s \in SequenceNumbers, reset(g, s)
        PROVE Stream!Next
    <3>1. g \in Nat /\ s \in Nat
      BY QueueAssumption
    <3>2. s - Len(<<>>) = s
      BY <3>1
    <3>3. Stream!Reset
      BY <2>2, <3>1, <3>2 DEF reset, Stream!Reset
    <3> QED
      BY <3>3 DEF Stream!Next
  <2>3. CASE close
    BY <2>3 DEF close, Stream!Close, Stream!Next
  <2>4. ASSUME NEW c \in Consumers, PopLeft(c),
               UNCHANGED <<generation, sequence, closed, resnapshot_required>>
        PROVE Stream!Next
    <3>1. /\ Head(events) = events[1] /\ Head(events) \in Event
          /\ Len(events) \in Nat \ {0}
          /\ Len(events') = Len(events) - 1
      BY <2>4, TailFacts DEF PopLeft
    <3>2. CASE ~resnapshot_required
      <4>1. events[1] = [kind |-> "delta", generation |-> generation,
                         sequence |-> sequence - Len(events) + 1]
        BY <3>1, <3>2 DEF QueueShape
      <4>2. sequence - Len(events) < sequence
        BY <3>1
      <4>3. sequence' - Len(events') = (sequence - Len(events)) + 1
        BY <2>4, <3>1
      <4>4. last' = [kind |-> "delta", generation |-> generation,
                     sequence |-> sequence' - Len(events')]
        BY <2>4, <3>1, <4>1, <4>3 DEF PopLeft
      <4>5. Stream!Deliver
        BY <2>4, <3>2, <4>2, <4>3, <4>4 DEF Stream!Deliver
      <4> QED
        BY <4>5 DEF Stream!Next
    <3>3. CASE resnapshot_required
      <4>1. /\ events # <<>> /\ Len(events) = 1 /\ events[1] \in Event
            /\ events[1].kind # "delta"
            /\ events[1].generation = generation
            /\ events[1].sequence = sequence
        BY <2>4, <3>1, <3>3 DEF QueueShape, PopLeft
      <4>2. /\ events[1].kind \in {"discontinuity", "resnapshot"}
            /\ events[1] = [kind |-> events[1].kind, generation |-> generation,
                            sequence |-> sequence]
        BY <4>1 DEF Event
      <4>3. events' = <<>> /\ last' = events[1]
        BY <2>4, <3>1, <4>1 DEF PopLeft
      <4>4. Stream!Tell
        BY <2>4, <3>3, <4>1, <4>2, <4>3 DEF Stream!Tell, Stream!LossKind
      <4> QED
        BY <4>4 DEF Stream!Next
    <3> QED
      BY <3>2, <3>3
  <2>5. CASE UNCHANGED <<events, generation, sequence, closed, resnapshot_required, last>>
    BY <2>5 DEF Stream!streamVars
  <2>6. ASSUME NEW c \in Consumers, Get(c) \/ TimeOut(c) \/ Resume(c)
        PROVE Stream!Next \/ UNCHANGED Stream!streamVars
    BY <2>4, <2>5, <2>6 DEF Get, TimeOut, Resume, RaiseWhenEmpty, Wait
  <2>7. CASE UNCHANGED vars
    BY <2>5, <2>7 DEF vars
  <2> QED
    BY <2>1, <2>2, <2>3, <2>6, <2>7 DEF Next
<1> QED
  BY <1>1, <1>2, TypeCorrect, ShapeHolds, PTL DEF Spec, StreamSpec, Stream!Spec
=============================================================================
