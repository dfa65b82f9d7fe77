--------------------------- MODULE RuntimeEventQueue ---------------------------
(***************************************************************************)
(* RuntimeEventQueue of wyreplumber/runtime/queue.py: the bounded queue    *)
(* between the thread that publishes runtime events and the application    *)
(* threads that read them.                                                 *)
(*                                                                         *)
(* Every method body runs under self._condition, so one method is one      *)
(* action, except that get() gives the lock up while it waits: it is a     *)
(* first pass (Get) and, after each wakeup, another pass of its loop       *)
(* (Resume).  An event keeps what the queue looks at: its position, and    *)
(* whether it requires a new snapshot (kind # "delta").  "discontinuity"   *)
(* is the event the queue makes up itself; producers publish the others.   *)
(***************************************************************************)
EXTENDS Integers, Sequences, FiniteSets

CONSTANTS
    Consumers,    \* threads calling get()
    Capacity,     \* capacity given to the constructor
    Generations,  \* generations that publications and resets may carry
    SequenceNumbers  \* sequence numbers that publications and resets may carry

ASSUME QueueAssumption ==
    /\ IsFiniteSet(Consumers)
    /\ Capacity \in Nat \ {0}
    /\ Generations \subseteq Nat
    /\ SequenceNumbers \subseteq Nat

VARIABLES
    events,               \* self._events
    generation,           \* self._generation
    sequence,             \* self._sequence
    closed,               \* self._closed
    resnapshot_required,  \* self._resnapshot_required
    waiters,              \* threads in the condition's list of waiters
    pc,                   \* where each consumer is in get()
    last                  \* the event returned last by any get(), for the properties

vars == <<events, generation, sequence, closed, resnapshot_required,
          waiters, pc, last>>

(* The events a producer may publish, and all events. *)
Published == [kind : {"delta", "resnapshot"},
              generation : Generations, sequence : SequenceNumbers]
Event == [kind : {"delta", "resnapshot", "discontinuity"},
          generation : Nat, sequence : Nat]

(* A consumer waiting in get(): without a timeout, with one, or with one    *)
(* that has run out and now only needs the lock back.                       *)
Waiting == {"forever", "timed", "expired"}

TypeOK ==
    /\ events \in Seq(Event)
    /\ Len(events) <= Capacity
    /\ generation \in Nat
    /\ sequence \in Nat
    /\ closed \in BOOLEAN
    /\ resnapshot_required \in BOOLEAN
    /\ waiters \subseteq Consumers
    /\ pc \in [Consumers -> Waiting \cup {"idle"}]
    /\ last \in Event

Init ==
    /\ events = <<>>
    /\ generation \in Generations
    /\ sequence \in SequenceNumbers
    /\ closed = FALSE
    /\ resnapshot_required = FALSE
    /\ waiters = {}
    /\ pc = [c \in Consumers |-> "idle"]
    /\ last = [kind |-> "delta", generation |-> generation, sequence |-> sequence]

-----------------------------------------------------------------------------
(* Plausible slips of this code, used to show that the properties notice    *)
(* them; the specification uses none of them.                               *)
NotifyForgotten == UNCHANGED waiters
RoomForOneTooMany == Len(events) <= Capacity
AnyLaterSequence(e) == e.generation = generation /\ e.sequence > sequence

(* threading.Condition: notify() takes one thread off the list, if any.    *)
Notify ==
    IF waiters = {} THEN UNCHANGED waiters
    ELSE \E w \in waiters : waiters' = waiters \ {w}

NotifyAll == waiters' = {}

(* Slip: notify() where every waiter has to be released. *)
ReplaceNotifyingOne(e) ==
    /\ events' = <<e>>
    /\ generation' = e.generation
    /\ sequence' = e.sequence
    /\ resnapshot_required' = TRUE
    /\ Notify

(* Drops everything queued and leaves one event that requires a snapshot.  *)
ReplaceBy(e) ==
    /\ events' = <<e>>
    /\ generation' = e.generation
    /\ sequence' = e.sequence
    /\ resnapshot_required' = TRUE
    /\ NotifyAll

_invalidate(e) == ReplaceBy([e EXCEPT !.kind = "discontinuity"])

InSequence(e) == e.generation = generation /\ e.sequence = sequence + 1

HasRoom == Len(events) < Capacity

(* publish(): a rejected event (closed, or already invalid) changes nothing. *)
publish(e) ==
    /\ ~closed /\ ~resnapshot_required
    /\ \/ ~InSequence(e) /\ _invalidate(e)
       \/ InSequence(e) /\ e.kind # "delta" /\ ReplaceBy(e)
       \/ InSequence(e) /\ e.kind = "delta" /\ ~HasRoom /\ _invalidate(e)
       \/ /\ InSequence(e) /\ e.kind = "delta" /\ HasRoom
          /\ events' = Append(events, e)
          /\ sequence' = e.sequence
          /\ Notify
          /\ UNCHANGED <<generation, resnapshot_required>>
    /\ UNCHANGED <<closed, pc, last>>

-----------------------------------------------------------------------------
(* self._events.popleft() and return. *)
PopLeft(c) ==
    /\ events # <<>>
    /\ last' = Head(events)
    /\ events' = Tail(events)
    /\ pc' = [pc EXCEPT ![c] = "idle"]

(* An empty queue that is closed or invalid raises, and so does a read that *)
(* may not wait (any more).                                                 *)
RaiseWhenEmpty(c, mayRaiseEmpty) ==
    /\ events = <<>>
    /\ closed \/ resnapshot_required \/ mayRaiseEmpty
    /\ pc' = [pc EXCEPT ![c] = "idle"]
    /\ UNCHANGED <<events, last>>

(* self._condition.wait(remaining) *)
Wait(c, mode) ==
    /\ events = <<>> /\ ~closed /\ ~resnapshot_required
    /\ waiters' = waiters \cup {c}
    /\ pc' = [pc EXCEPT ![c] = mode]
    /\ UNCHANGED <<events, last>>

(* get(): a non-blocking read, a read with a timeout and one without. *)
Get(c) ==
    /\ pc[c] = "idle"
    /\ \/ PopLeft(c) /\ UNCHANGED waiters
       \/ RaiseWhenEmpty(c, TRUE) /\ UNCHANGED waiters
       \/ \E mode \in {"forever", "timed"} : Wait(c, mode)
    /\ UNCHANGED <<generation, sequence, closed, resnapshot_required>>

(* The timeout of wait() runs out.  The thread stays on the list of waiters *)
(* until it has the lock again, so a notify() may still be spent on it.     *)
TimeOut(c) ==
    /\ pc[c] = "timed"
    /\ pc' = [pc EXCEPT ![c] = "expired"]
    /\ UNCHANGED <<events, generation, sequence, closed, resnapshot_required,
                   waiters, last>>

(* wait() returns with the lock held and the loop of get() runs again. *)
Resume(c) ==
    /\ pc[c] \in Waiting
    /\ c \notin waiters \/ pc[c] = "expired"
    /\ \/ PopLeft(c) /\ waiters' = waiters \ {c}
       \/ RaiseWhenEmpty(c, pc[c] # "forever") /\ waiters' = waiters \ {c}
       \/ pc[c] # "expired" /\ Wait(c, pc[c])
    /\ UNCHANGED <<generation, sequence, closed, resnapshot_required>>

-----------------------------------------------------------------------------
(* Slips: reset() keeps the queued deltas; close() wakes nobody. *)
ResetKeepingEvents(g, s) ==
    /\ ~closed
    /\ generation' = g
    /\ sequence' = s
    /\ resnapshot_required' = FALSE
    /\ NotifyAll
    /\ UNCHANGED <<events, closed, pc, last>>

CloseQuietly ==
    /\ closed' = TRUE
    /\ UNCHANGED <<events, generation, sequence, resnapshot_required,
                   waiters, pc, last>>

reset(g, s) ==
    /\ ~closed
    /\ events' = <<>>
    /\ generation' = g
    /\ sequence' = s
    /\ resnapshot_required' = FALSE
    /\ NotifyAll
    /\ UNCHANGED <<closed, pc, last>>

close ==
    /\ closed' = TRUE
    /\ NotifyAll
    /\ UNCHANGED <<events, generation, sequence, resnapshot_required, pc, last>>

Next ==
    \/ \E e \in Published : publish(e)
    \/ \E g \in Generations, s \in SequenceNumbers : reset(g, s)
    \/ close
    \/ \E c \in Consumers : Get(c) \/ TimeOut(c) \/ Resume(c)

Spec == Init /\ [][Next]_vars

(* A thread whose wait() has ended gets the lock back and goes on. *)
Fairness == \A c \in Consumers : WF_vars(Resume(c))

FairSpec == Spec /\ Fairness
-----------------------------------------------------------------------------
(* The buffer is either one event that requires a new snapshot, or a gapless *)
(* run of deltas of one generation that ends at the position kept in         *)
(* _sequence: what reset, overflow and invalidation must leave behind.       *)
QueueShape ==
    /\ resnapshot_required =>
          events = <<>> \/ ( /\ Len(events) = 1
                             /\ events[1].kind # "delta"
                             /\ events[1].generation = generation
                             /\ events[1].sequence = sequence )
    /\ ~resnapshot_required =>
          \A i \in 1..Len(events) :
             events[i] = [kind |-> "delta", generation |-> generation,
                          sequence |-> sequence - Len(events) + i]

(* Threads taken off the list of waiters that have not run yet. *)
Notified == {c \in Consumers : pc[c] # "idle" /\ c \notin waiters}

(* publish() wakes one thread per event with notify(): while a thread is     *)
(* still on the waiters' list there are at least as many woken threads as    *)
(* queued events, and a closed or invalid queue has nobody left on the list. *)
NoLostWakeup ==
    /\ waiters # {} => Len(events) <= Cardinality(Notified)
    /\ closed \/ resnapshot_required => waiters = {}

(* The queue implements the stream: gapless deltas, one notice of loss, no   *)
(* delta given up while there is room for it.                                *)
Stream == INSTANCE EventStream WITH
    gen       <- generation,
    published <- sequence,
    delivered <- IF resnapshot_required THEN sequence ELSE sequence - Len(events),
    status    <- IF ~resnapshot_required THEN "live"
                 ELSE IF events = <<>> THEN "told" ELSE events[1].kind
StreamSpec == Stream!Spec

(* close() releases every reader: a thread inside get() on a closed queue    *)
(* returns, with an event or with RuntimeEventQueueClosed.                   *)
CloseReleases == \A c \in Consumers : (closed /\ pc[c] # "idle") ~> (pc[c] = "idle")

(* Losing continuity releases every reader too, unless a reset comes first.  *)
LossReleases ==
    \A c \in Consumers :
       (resnapshot_required /\ pc[c] # "idle")
          ~> (pc[c] = "idle" \/ ~resnapshot_required)

(* A queued event does not sit next to a sleeping reader for ever.           *)
Drains ==
    \A c \in Consumers :
       (events # <<>> /\ pc[c] # "idle") ~> (events = <<>> \/ pc[c] = "idle")
=============================================================================
