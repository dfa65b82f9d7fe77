----------------------------- MODULE RuntimeEvents -----------------------------
(***************************************************************************)
(* The native event queue and the snapshot capture of one connection       *)
(* (runtime_events.c, capture_runtime.c) on top of the connection's life,  *)
(* with a client that keeps a projection the way RuntimeClient of          *)
(* examples/runtime_orchestration.py does, and other threads that capture  *)
(* snapshots of their own (every confirmed control does).                  *)
(*                                                                         *)
(* An object is anything with an identity in a snapshot that events are    *)
(* about: a device, node, port, link or metadata object, or the parameter  *)
(* owner_type:owner_id:id.  Its record in a snapshot has two parts:        *)
(*   told  what an event about it carries too, 0 when it is not there      *)
(*         (identity, properties and endpoints; a parameter's values, but  *)
(*         not the permissions and completeness that its events assume);   *)
(*   rest  what only the snapshot has.  States, errors, the mixer and port *)
(*         counts change without an event, events of devices and nodes     *)
(*         have no profiles, routes and parameters (events.py:248-250),    *)
(*         the entries of metadata are told under other identities.  For a *)
(*         parameter, how often its owner has come or gone: nothing is     *)
(*         published for the parameters of an owner that does.             *)
(***************************************************************************)
EXTENDS WPConnection

CONSTANTS
    Objects,     \* identities of runtime objects
    MetadataObjects,  \* those of them that are metadata objects
    Parameters,  \* those of them that are parameters
    MaxVersion,  \* bound: what an object's events can tell apart
    MaxRest,     \* bound: the rest of an object's record
    Capacity,    \* event_capacity of the connection
    Capturers    \* other threads calling capture_runtime_payload()

NoObject == "none"
Client == "client"

ASSUME EventsAssumption ==
    /\ IsFiniteSet(Objects) /\ IsFiniteSet(Capturers)
    /\ NoObject \notin Objects /\ Client \notin Capturers
    /\ MetadataObjects \subseteq Objects
    /\ Parameters \subseteq Objects \ MetadataObjects
    /\ MaxVersion \in Nat \ {0}
    /\ MaxRest \in Nat
    /\ Capacity \in Nat \ {0}

VARIABLES
    world,      \* external: the objects of the object manager
    buffer,     \* conn->runtime_events and conn->runtime_event_invalid
    closed,     \* conn->runtime_event_closed
    asleep,     \* the client is on event_cond and has not been woken
    client,     \* where the client is
    projection, \* client.projection: position and objects
    snapshot,   \* the snapshot resnapshot() is working on
    capturing   \* which other threads wait for a capture

clientVars == <<client, projection, snapshot>>
eventVars == <<world, buffer, closed, asleep, clientVars, capturing>>
vars == <<connVars, eventVars>>

Record == [told : 0..MaxVersion, rest : 0..MaxRest]
Nothing == [told |-> 0, rest |-> 0]
Absent == [o \in Objects |-> Nothing]
View == [Objects -> Record]

Event == [generation : Nat, sequence : Nat, object : Objects \cup {NoObject},
          record : Record, requires_resnapshot : BOOLEAN]

(* A position with the objects it stands for. *)
Snapshot == [generation : Nat, sequence : Nat, objects : View]
NoSnapshot == [generation |-> 0, sequence |-> 0, objects |-> Absent]

CaptureSource(k) == <<"capture", k>>

InitEvents ==
    /\ Init
    /\ world = Absent
    /\ buffer = [events |-> <<>>, invalid |-> FALSE]
    /\ closed = FALSE /\ asleep = FALSE
    /\ client = "new" /\ projection = NoSnapshot /\ snapshot = NoSnapshot
    /\ capturing = {}

-----------------------------------------------------------------------------
(* Publication (runtime_events.c).                                          *)

(* What an event carries of the record r of o: of a parameter, its values.  *)
Published(o, r) == IF o \in Parameters THEN r ELSE [r EXCEPT !.rest = 0]

(* new_event(): the event at the position that `sequence' moves to. *)
ObjectEvent(s, o, r) ==
    [generation |-> generation, sequence |-> s, object |-> o,
     record |-> Published(o, r), requires_resnapshot |-> FALSE]

StateEvent(g, s) ==
    [generation |-> g, sequence |-> s, object |-> NoObject, record |-> Nothing,
     requires_resnapshot |-> FALSE]

(* An event that tells nothing but that a new snapshot is needed. *)
Notice(g, s) ==
    [generation |-> g, sequence |-> s, object |-> NoObject, record |-> Nothing,
     requires_resnapshot |-> TRUE]

(* make_discontinuity() turns the event that found no room into the notice. *)
make_discontinuity(e) == Notice(e.generation, e.sequence)

(* Slips: the event that does not fit is dropped; one event too many fits.   *)
EnqueueDropping(b, e) ==
    IF closed \/ b.invalid \/ Len(b.events) >= Capacity THEN b
    ELSE [b EXCEPT !.events = Append(@, e)]

EnqueueOneTooMany(b, e) ==
    IF closed \/ b.invalid THEN b
    ELSE IF Len(b.events) > Capacity
         THEN [events |-> <<make_discontinuity(e)>>, invalid |-> TRUE]
    ELSE [b EXCEPT !.events = Append(@, e)]

(* enqueue() *)
enqueue(b, e) ==
    IF closed \/ b.invalid THEN b
    ELSE IF Len(b.events) >= Capacity
         THEN [events |-> <<make_discontinuity(e)>>, invalid |-> TRUE]
    ELSE [b EXCEPT !.events = Append(@, e)]

(* The wakeup of enqueue(): nothing is broadcast for a dropped event. *)
Publish(b) ==
    /\ buffer' = b
    /\ asleep' = IF closed \/ buffer.invalid THEN asleep ELSE FALSE

Publishing == started /\ ~stop_requested

(* What happens to an object while an object manager watches it.  Before the *)
(* first generation, and once stopping, the callbacks return at once.        *)
Unpublished ==
    /\ ~Publishing
    /\ UNCHANGED <<sequence, buffer, asleep>>

Watched ==
    /\ loop = "running" /\ om # "none"
    /\ sequence < MaxSequence
    /\ UNCHANGED <<lifeVars, generation, sources, reconnectVars, stopVars,
                   closed, clientVars, capturing>>

(* on_object_added(), on_object_properties_changed(), and on_params_changed() *)
(* with a parameter that could be copied: one event.  What events do not tell *)
(* may change with it, but a parameter keeps its owner.  Metadata has neither *)
(* properties nor parameters to change, it is only added.                    *)
RecordChanged(o) ==
    /\ Watched
    /\ o \in MetadataObjects => world[o].told = 0
    /\ \E r \in Record :
          /\ r.told \notin {0, world[o].told}
          /\ o \in Parameters => r.rest = world[o].rest
          /\ world' = [world EXCEPT ![o] = r]
          /\ \/ Unpublished
             \/ /\ Publishing
                /\ sequence' = sequence + 1
                /\ Publish(enqueue(buffer, ObjectEvent(sequence + 1, o, r)))

(* Nothing is connected to anything else of an object.  A parameter comes and *)
(* goes with its owner, of which the events tell, not with an event of its   *)
(* own; what is there next under the same identity may be another object's.  *)
SilentChange(o) ==
    /\ Watched
    /\ o \notin MetadataObjects
    /\ \E r \in Record :
          /\ IF o \in Parameters THEN r.rest = world[o].rest + 1
             ELSE r # world[o] /\ r.told = world[o].told /\ r.told # 0
          /\ world' = [world EXCEPT ![o] = r]
    /\ UNCHANGED <<sequence, buffer, asleep>>

(* on_object_removed() *)
ObjectRemoved(o) ==
    /\ Watched
    /\ o \notin Parameters /\ world[o].told # 0
    /\ world' = [world EXCEPT ![o] = Nothing]
    /\ \/ Unpublished
       \/ /\ Publishing
          /\ sequence' = sequence + 1
          /\ Publish(enqueue(buffer, ObjectEvent(sequence + 1, o, Nothing)))

(* on_metadata_changed(): the event names the entry, not the metadata        *)
(* object; for a key that starts with "default." a second event follows in   *)
(* the same callback.                                                        *)
MetadataChanged(o) ==
    /\ Watched
    /\ o \in MetadataObjects /\ world[o].told # 0
    /\ \E x \in 0..MaxRest \ {world[o].rest} :
          world' = [world EXCEPT ![o].rest = x]
    /\ \/ Unpublished
       \/ /\ Publishing
          /\ sequence' = sequence + 1
          /\ Publish(enqueue(buffer, StateEvent(generation, sequence + 1)))
       \/ /\ Publishing
          /\ sequence' = sequence + 2
          /\ Publish(enqueue(enqueue(buffer, StateEvent(generation, sequence + 1)),
                             StateEvent(generation, sequence + 2)))

(* on_params_changed() that fails to detach the new value: the queue is not  *)
(* marked invalid, only the event says so.                                   *)
ParameterNotCopied(o) ==
    /\ Watched
    /\ Publishing
    /\ o \in Parameters
    /\ \E v \in 1..MaxVersion \ {world[o].told} :
          world' = [world EXCEPT ![o].told = v]
    /\ sequence' = sequence + 1
    /\ Publish(enqueue(buffer, Notice(generation, sequence + 1)))

-----------------------------------------------------------------------------
(* Capture (capture_runtime.c), on the WirePlumber thread.                   *)

(* Without an object manager the iteration is empty. *)
CapturedSnapshot ==
    [generation |-> generation, sequence |-> sequence + 1,
     objects |-> IF om = "none" THEN Absent ELSE world]

(* Slip: the snapshot does not become the baseline of the queue. *)
CaptureWithoutReset(k) ==
    /\ NextSource(CaptureSource(k))
    /\ sequence' = sequence + 1
    /\ UNCHANGED <<lifeVars, generation, reconnectVars, stopVars, world, closed,
                   asleep, buffer>>

(* capture_runtime_payload() that succeeds: the snapshot takes a sequence    *)
(* number and becomes the baseline, whatever was queued is dropped.          *)
Capture(k) ==
    /\ NextSource(CaptureSource(k))
    /\ sequence' = CapturedSnapshot.sequence
    /\ buffer' = [events |-> <<>>, invalid |-> FALSE]
    /\ UNCHANGED <<lifeVars, generation, reconnectVars, stopVars, world, closed,
                   asleep>>

ClientCaptured ==
    /\ Capture(Client)
    /\ snapshot' = CapturedSnapshot
    /\ client' = "captured"
    /\ UNCHANGED <<projection, capturing>>

OtherCaptured(k) ==
    /\ Capture(k)
    /\ capturing' = capturing \ {k}
    /\ UNCHANGED clientVars

(* ... and one that fails changes nothing; its caller gets RuntimeError. *)
CaptureFailed(k) ==
    /\ NextSource(CaptureSource(k))
    /\ client' = IF k = Client THEN "failed" ELSE client
    /\ capturing' = capturing \ {k}
    /\ UNCHANGED <<lifeVars, generation, sequence, reconnectVars, stopVars, world,
                   buffer, closed, asleep, projection, snapshot>>

(* WPConnection_capture_runtime_payload() on the calling thread. *)
Ready == loop # "exited" /\ om # "none"

OtherPosts(k) ==
    /\ init = "returned" /\ client # "gone" /\ k \notin capturing /\ Ready
    /\ sequence < MaxSequence
    /\ sources' = Append(sources, CaptureSource(k))
    /\ capturing' = capturing \cup {k}
    /\ UNCHANGED <<lifeVars, generation, sequence, reconnectVars, stopVars, world,
                   buffer, closed, asleep, clientVars>>

-----------------------------------------------------------------------------
(* The client (examples/runtime_orchestration.py).                           *)

(* Slip: a notice in sequence is taken for a delta. *)
FollowsIgnoringNotice(e, p) ==
    /\ e.generation = p.generation
    /\ e.sequence = p.sequence + 1

(* require_event_continuity() *)
Follows(e, p) ==
    /\ e.generation = p.generation
    /\ e.sequence = p.sequence + 1
    /\ ~e.requires_resnapshot

(* Slip: the event of a removal is skipped, there is no record in it.        *)
ApplyWithoutRemoval(p, e) ==
    [generation |-> p.generation, sequence |-> e.sequence,
     objects |-> IF e.object = NoObject \/ e.record = Nothing THEN p.objects
                 ELSE [p.objects EXCEPT ![e.object] = e.record]]

(* RuntimeProjection.apply() for an event that follows: the record that the  *)
(* event carries takes the place of the one that was there.                  *)
apply(p, e) ==
    [generation |-> p.generation, sequence |-> e.sequence,
     objects |-> IF e.object = NoObject THEN p.objects
                 ELSE [p.objects EXCEPT ![e.object] = e.record]]

(* resnapshot() starts a capture: at first, after lost continuity, after an  *)
(* error, or whenever the application wants one.                             *)
Resnapshot ==
    /\ init = "returned"
    /\ client \in {"new", "ready", "resync", "failed"}
    /\ sequence < MaxSequence
    /\ IF Ready
       THEN client' = "capturing" /\ sources' = Append(sources, CaptureSource(Client))
       ELSE client' = "failed" /\ UNCHANGED sources
    /\ UNCHANGED <<lifeVars, generation, sequence, reconnectVars, stopVars, world,
                   buffer, closed, asleep, projection, snapshot, capturing>>

(* What resnapshot() makes of the drained events: the events at or before    *)
(* the snapshot are skipped, the others must follow one another.             *)
Later(e, p) == ~(e.generation = p.generation /\ e.sequence <= p.sequence)

RacingEvents(p, es) == {i \in 1..Len(es) : Later(es[i], p)}

Consecutive(p, es) ==
    LET racing == RacingEvents(p, es)
    IN \A i \in racing :
          Follows(es[i], [p EXCEPT !.sequence = @ + Cardinality({j \in racing : j < i})])

(* The projection after applying the racing events: the newest event about   *)
(* an object decides.                                                        *)
ApplyAll(p, es) ==
    LET racing == RacingEvents(p, es)
    IN [generation |-> p.generation, sequence |-> p.sequence + Cardinality(racing),
        objects |-> [o \in Objects |->
           LET about == {i \in racing : es[i].object = o}
           IN IF about = {} THEN p.objects[o]
              ELSE es[CHOOSE i \in about : \A j \in about : j <= i].record]]

(* drain_runtime_events() and the loop of resnapshot() *)
DrainAndApply ==
    /\ client = "captured"
    /\ buffer' = [buffer EXCEPT !.events = <<>>]
    /\ IF Consecutive(snapshot, buffer.events)
       THEN projection' = ApplyAll(snapshot, buffer.events) /\ client' = "ready"
       ELSE UNCHANGED projection /\ client' = "resync"
    /\ snapshot' = NoSnapshot
    /\ UNCHANGED <<connVars, world, closed, asleep, capturing>>

(* project_next_event() with an event at hand, then with none: it waits,     *)
(* returns without an event (no change), or finds the publication closed.    *)
CanRead == client = "ready" \/ (client = "waiting" /\ ~asleep)

ProjectNextEvent ==
    /\ CanRead
    /\ buffer.events # <<>>
    /\ buffer' = [buffer EXCEPT !.events = Tail(@)]
    /\ IF Follows(Head(buffer.events), projection)
       THEN projection' = apply(projection, Head(buffer.events)) /\ client' = "ready"
       ELSE UNCHANGED projection /\ client' = "resync"
    /\ UNCHANGED <<connVars, world, closed, asleep, snapshot, capturing>>

WaitForEvent ==
    /\ CanRead
    /\ buffer.events = <<>>
    /\ IF closed
       THEN client' = "closed" /\ asleep' = FALSE
       ELSE client' = "waiting" /\ asleep' = TRUE
    /\ UNCHANGED <<connVars, world, buffer, closed, projection, snapshot, capturing>>

-----------------------------------------------------------------------------
(* The connection's callbacks, with what they publish.                       *)

(* on_core_disconnected(), if it runs in this step *)
PublishDisconnected(runs) ==
    /\ world' = IF runs THEN Absent ELSE world
    /\ IF runs /\ Publishing
       THEN Publish(enqueue(buffer, StateEvent(generation, sequence + 1)))
       ELSE UNCHANGED <<buffer, asleep>>

EventsCoreLost ==
    /\ CoreLost
    /\ PublishDisconnected(TRUE)
    /\ UNCHANGED <<closed, clientVars, capturing>>

EventsRunReconnect(r) ==
    /\ RunReconnect(r)
    /\ PublishDisconnected(core = "up")
    /\ UNCHANGED <<closed, clientVars, capturing>>

EventsExitThread ==
    /\ ExitThread
    /\ PublishDisconnected(core = "up")
    /\ UNCHANGED <<closed, clientVars, capturing>>

EventsOmInstalled ==
    /\ OmInstalled
    /\ Publish(enqueue(buffer, StateEvent(generation + 1, 1)))
    /\ UNCHANGED <<world, closed, clientVars, capturing>>

(* Slip: the waiting reader is not woken when publication closes. *)
StopQuietly ==
    /\ RunStop
    /\ world' = IF core = "up" THEN Absent ELSE world
    /\ buffer' = enqueue(buffer, StateEvent(generation, sequence + 1))
    /\ closed' = TRUE
    /\ UNCHANGED <<asleep, clientVars, capturing>>

(* stop_on_wp_thread(): "stopped" is the last event, then the queue closes   *)
(* and wakes its reader.                                                     *)
EventsRunStop ==
    /\ RunStop
    /\ world' = IF core = "up" THEN Absent ELSE world
    /\ buffer' = enqueue(buffer, StateEvent(generation, sequence + 1))
    /\ closed' = TRUE
    /\ asleep' = FALSE
    /\ UNCHANGED <<clientVars, capturing>>

(* No method is running when the last reference goes, and none is called    *)
(* after that.                                                               *)
EventsDealloc ==
    /\ Dealloc
    /\ capturing = {}
    /\ client \in {"new", "ready", "resync", "failed", "closed"}
    /\ closed' = TRUE
    /\ client' = "gone"
    /\ UNCHANGED <<world, buffer, asleep, projection, snapshot, capturing>>

Plain ==
    /\ \/ StartThread \/ CoreConnected \/ MixerLoaded \/ MixerFailed
       \/ InitReturns \/ Stop \/ \E r \in Reconnectors : Reconnect(r)
    /\ UNCHANGED eventVars

-----------------------------------------------------------------------------
ObjectStep ==
    \E o \in Objects : \/ RecordChanged(o) \/ SilentChange(o) \/ ObjectRemoved(o)
                       \/ MetadataChanged(o) \/ ParameterNotCopied(o)

RunEventSource ==
    \/ EventsRunStop
    \/ \E r \in Reconnectors : EventsRunReconnect(r)
    \/ ClientCaptured
    \/ \E k \in Capturers : OtherCaptured(k)
    \/ \E k \in Capturers \cup {Client} : CaptureFailed(k)

ClientStep == Resnapshot \/ DrainAndApply \/ ProjectNextEvent \/ WaitForEvent

NextEvents ==
    \/ Plain \/ EventsCoreLost \/ EventsOmInstalled \/ EventsExitThread
    \/ EventsDealloc \/ ObjectStep \/ RunEventSource \/ ClientStep
    \/ \E k \in Capturers : OtherPosts(k)

EventsSpec == InitEvents /\ [][NextEvents]_vars

(* The WirePlumber thread runs its sources; stop() goes on; a client that is *)
(* inside a read or a resnapshot goes on.                                    *)
EventsFairness ==
    /\ WF_vars(RunEventSource)
    /\ WF_vars(EventsExitThread)
    /\ WF_vars((StopCancel \/ StopPost \/ StopJoin) /\ UNCHANGED eventVars)
    /\ \A r \in Reconnectors :
          WF_vars((ReconnectPosted(r) \/ ReconnectSleeps(r)) /\ UNCHANGED eventVars)
    /\ WF_vars(DrainAndApply)
    /\ WF_vars(client = "waiting" /\ (ProjectNextEvent \/ WaitForEvent))

EventsFairSpec == EventsSpec /\ EventsFairness
-----------------------------------------------------------------------------
EventsTypeOK ==
    /\ ConnTypeOK
    /\ sources \in Seq({StopSource}
                          \cup {ReconnectSource(r) : r \in Reconnectors}
                          \cup {CaptureSource(k) : k \in Capturers \cup {Client}})
    /\ world \in View
    /\ buffer \in [events : Seq(Event), invalid : BOOLEAN]
    /\ Len(buffer.events) <= Capacity
    /\ closed \in BOOLEAN /\ asleep \in BOOLEAN
    /\ client \in {"new", "ready", "resync", "failed", "capturing", "captured",
                   "waiting", "closed", "gone"}
    /\ projection \in Snapshot /\ snapshot \in Snapshot
    /\ capturing \subseteq Capturers

(* The queue is a gapless run of positions, across a generation change too,  *)
(* and unless events were dropped after an overflow its end is the current   *)
(* position: nothing is lost without a gap or a notice.                      *)
Succeeds(f, e) ==
    \/ f.generation = e.generation /\ f.sequence = e.sequence + 1
    \/ f.generation = e.generation + 1 /\ f.sequence = 1

BufferIsGapless ==
    LET es == buffer.events IN
    /\ \A i \in 1..Len(es) - 1 : Succeeds(es[i + 1], es[i])
    /\ (es # <<>> /\ ~buffer.invalid /\ ~closed) =>
          es[Len(es)].generation = generation /\ es[Len(es)].sequence = sequence
    /\ buffer.invalid => Len(es) <= 1

AtRest == client \in {"ready", "waiting"}

(* The projection has of every object what events tell of it: the same       *)
(* objects, with the same properties, and the values of a parameter as long  *)
(* as its owner has neither come nor gone.                                   *)
Agree(o, known, there) ==
    (o \in Parameters => known.rest = there.rest) => known.told = there.told

Mirrors == \A o \in Objects : Agree(o, projection.objects[o], world[o])

AtPosition ==
    /\ AtRest /\ om = "installed" /\ ~stop_requested
    /\ projection.generation = generation /\ projection.sequence = sequence

(* A projection at the current position has everything that events tell of   *)
(* the runtime: neither overflow, nor a racing capture, nor a reconnect, nor *)
(* a value that could not be copied lets the client apply a delta to the     *)
(* wrong base.  It is no copy of the runtime: states, mixer values, port     *)
(* counts and the profiles and routes of a changed device are not told.      *)
PositionDeterminesState == AtPosition => Mirrors

(* With no other thread capturing (Capturers = {}), a client that has read   *)
(* everything is up to date: nothing was lost silently.                      *)
CaughtUpIsCurrent ==
    (AtRest /\ buffer.events = <<>> /\ ~closed) =>
       projection.generation = generation /\ projection.sequence = sequence

(* A reader waiting for an event does not sleep next to one, nor on a closed *)
(* publication.                                                              *)
ReaderIsWoken == asleep => buffer.events = <<>> /\ ~closed

(* stop() releases a client that waits for an event.                         *)
StopReleasesReader ==
    (stop_requested /\ client = "waiting") ~> (client # "waiting")

(* Shutdown releases pending waiters: whoever waits for a source that it     *)
(* attached, a capture or a reconnect, comes back also when the connection   *)
(* is stopped meanwhile.                                                     *)
ShutdownReleasesWaiters ==
    /\ (client = "capturing") ~> (client # "capturing")
    /\ \A r \in Reconnectors :
          (rpc[r] \in {"posted", "asleep"}) ~> (rpc[r] \notin {"posted", "asleep"})
=============================================================================
