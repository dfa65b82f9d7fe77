-------------------------- MODULE RuntimeEventsProofs --------------------------
(***************************************************************************)
(* Proofs about RuntimeEvents, for any capacity, any objects, any number   *)
(* of reconnecting and of capturing threads.                               *)
(*                                                                         *)
(* Three facts carry everything else: the queue is an ordered, gapless run *)
(* of positions that ends where the connection is (BufferOK); the position *)
(* that the client stands on is before all of it, and an invalid queue     *)
(* starts with a notice (Placed); and as long as what is queued takes the  *)
(* client to the present position, the queued records together with those  *)
(* of the client are, in what events tell, those of the runtime            *)
(* (Faithful).                                                             *)
(***************************************************************************)
EXTENDS RuntimeEvents, WPConnectionProofs, FiniteSetTheorems

EventsSourceSet == SourceSet \cup {CaptureSource(k) : k \in Capturers \cup {Client}}

Buffer == [events : Seq(Event), invalid : BOOLEAN]

(* The types of the variables that RuntimeEvents adds. *)
EventsShape ==
    /\ sources \in Seq(EventsSourceSet)
    /\ world \in View
    /\ buffer \in Buffer
    /\ closed \in BOOLEAN /\ asleep \in BOOLEAN
    /\ client \in {"new", "ready", "resync", "failed", "capturing", "captured",
                   "waiting", "closed", "gone"}
    /\ projection \in Snapshot /\ snapshot \in Snapshot
    /\ capturing \subseteq Capturers

(* Positions: of an event, of a snapshot, of the connection. *)
Now == [generation |-> generation, sequence |-> sequence]

Position(a) == a.generation \in Nat /\ a.sequence \in Nat

SamePosition(a, b) == a.generation = b.generation /\ a.sequence = b.sequence

Earlier(a, b) ==
    \/ a.generation < b.generation
    \/ a.generation = b.generation /\ a.sequence < b.sequence

(* A queue of a connection that is at position n. *)
BufferOK(b, n) ==
    LET es == b.events IN
    /\ Len(es) <= Capacity
    /\ \A i \in 1..Len(es) : ~ Earlier(n, es[i])
    /\ \A i, j \in 1..Len(es) : i < j => Earlier(es[i], es[j])
    /\ \A i \in 1..Len(es) - 1 : Succeeds(es[i + 1], es[i])
    /\ (es # <<>> /\ ~b.invalid /\ ~closed) => SamePosition(es[Len(es)], n)
    /\ b.invalid => Len(es) <= 1

(* A reader sleeps only on an empty queue that is open. *)
ReaderInv == asleep => client = "waiting" /\ buffer.events = <<>> /\ ~closed

(* The client attaches one source, and waits while it is there. *)
ClientSources == {i \in 1..Len(sources) : sources[i] = CaptureSource(Client)}

CaptureInv ==
    /\ \A i, j \in ClientSources : i = j
    /\ ClientSources # {} => client = "capturing"

(* Publication closes on the way out, and starts with the object manager. *)
OpenInv ==
    /\ closed => stop_requested
    /\ om = "installed" => started

(* The queue b seen from position p, when the connection is at position n. *)
Placed(p, b, n) ==
    /\ ~ Earlier(n, p)
    /\ b.invalid => b.events # <<>> /\ b.events[1].requires_resnapshot
    /\ \A i \in 1..Len(b.events) : Earlier(p, b.events[i])

(* The events es can be applied to p one by one. *)
Run(p, es) ==
    \A i \in 1..Len(es) : Follows(es[i], [p EXCEPT !.sequence = @ + i - 1])

(* The record known of o is right about what events tell.  The owner of a    *)
(* parameter may have come or gone since, which they do not.                 *)
Tracks(o, known, there) ==
    IF o \in Parameters
    THEN known.rest <= there.rest /\ (known.rest = there.rest => known.told = there.told)
    ELSE known.told = there.told

(* A change of the record of o that needs no event about o. *)
Keeps(o, before, after) ==
    \/ before = after
    \/ IF o \in Parameters THEN before.rest < after.rest ELSE before.told = after.told

(* The newest record that p and es have of o is right about the one in w. *)
Told(p, es, o, w) ==
    \/ (\A i \in 1..Len(es) : es[i].object # o) /\ Tracks(o, p.objects[o], w[o])
    \/ \E i \in 1..Len(es) :
          /\ es[i].object = o /\ Tracks(o, es[i].record, w[o])
          /\ \A j \in 1..Len(es) : i < j => es[j].object # o

(* If the queue leads from p to n, it leads to the objects in w. *)
Faithful(p, b, n, w) ==
    (/\ Run(p, b.events)
     /\ p.generation = n.generation
     /\ p.sequence + Len(b.events) = n.sequence)
       => \A o \in Objects : Told(p, b.events, o, w)

(* Nothing is claimed of objects without an installed manager, and at the end. *)
Blind == om # "installed" \/ stop_requested

Base(p) ==
    /\ Placed(p, buffer, Now)
    /\ Blind \/ Faithful(p, buffer, Now, world)

BaseInv ==
    /\ AtRest => Base(projection)
    /\ client = "captured" => Base(snapshot)

EventsInv ==
    /\ ConnInv /\ LifeInv /\ StopPosted
    /\ EventsShape /\ BufferOK(buffer, Now)
    /\ ReaderInv /\ CaptureInv /\ OpenInv /\ BaseInv

(* Without other threads that capture, the queue goes on where the client    *)
(* stands, or starts with a notice.                                          *)
Continues(p, b, n) ==
    /\ (b.events = <<>> /\ ~closed) => SamePosition(p, n)
    /\ b.events # <<>> => \/ Succeeds(b.events[1], p)
                          \/ b.events[1].requires_resnapshot

SoleInv ==
    /\ AtRest => Continues(projection, buffer, Now)
    /\ client = "captured" => Continues(snapshot, buffer, Now)
-----------------------------------------------------------------------------
(* What a step does to the connection: one of its own steps, or nothing but  *)
(* a sequence number taken and a source attached or run.                     *)
LifeKept ==
    /\ UNCHANGED <<lifeVars, generation, reconnectVars, stopVars>>
    /\ sequence' \in Nat

LEMMA LifeKeptConnInv == ConnInv /\ LifeInv /\ LifeKept => ConnInv' /\ LifeInv'
  BY DEF ConnInv, Shape, GenerationInv, StartInv, LifeInv, LifeKept, lifeVars,
         reconnectVars, stopVars

LEMMA EventsConnStep ==
    ASSUME sequence \in Nat, [NextEvents]_vars
    PROVE  ThreadStep \/ PythonStep \/ LifeKept
<1>1. CASE Plain
  BY <1>1 DEF Plain, ThreadStep, PythonStep
<1>2. CASE EventsCoreLost \/ EventsOmInstalled \/ EventsExitThread \/ EventsDealloc
  BY <1>2 DEF EventsCoreLost, EventsOmInstalled, EventsExitThread, EventsDealloc,
     ThreadStep, PythonStep
<1>3. CASE ObjectStep
  BY <1>3 DEF ObjectStep, RecordChanged, SilentChange, ObjectRemoved, MetadataChanged,
     ParameterNotCopied, Watched, Unpublished, LifeKept
<1>4. CASE RunEventSource
  BY <1>4 DEF RunEventSource, EventsRunStop, EventsRunReconnect, ThreadStep,
     ClientCaptured, OtherCaptured, Capture, CapturedSnapshot, CaptureFailed, LifeKept
<1>5. CASE ClientStep
  BY <1>5 DEF ClientStep, Resnapshot, DrainAndApply, ProjectNextEvent, WaitForEvent,
     connVars, LifeKept
<1>6. ASSUME NEW k \in Capturers, OtherPosts(k) PROVE LifeKept
  BY <1>6 DEF OtherPosts, LifeKept
<1>7. CASE UNCHANGED vars
  BY <1>7 DEF vars, connVars, LifeKept
<1> QED
  BY <1>1, <1>2, <1>3, <1>4, <1>5, <1>6, <1>7 DEF NextEvents

LEMMA EventsConnInv ==
    ASSUME EventsInv, [NextEvents]_vars PROVE ConnInv' /\ LifeInv'
<1>1. ConnInv /\ LifeInv /\ StopPosted /\ sources \in Seq(EventsSourceSet)
  BY DEF EventsInv, EventsShape
<1>2. sequence \in Nat
  BY <1>1 DEF ConnInv, Shape
<1> QED
  BY <1>1, <1>2, EventsConnStep, LifeKeptConnInv, ThreadConnInv, PythonConnInv,
     ThreadLifeInv, PythonLifeInv

-----------------------------------------------------------------------------
(* What a step does to the attached sources, and to a client that waits.     *)
CSource == CaptureSource(Client)

LEMMA EventsSourcesAreDistinct ==
    /\ StopSource \in EventsSourceSet /\ CSource \in EventsSourceSet /\ StopSource # CSource
    /\ \A r \in Reconnectors : /\ ReconnectSource(r) \in EventsSourceSet
                               /\ ReconnectSource(r) # StopSource /\ ReconnectSource(r) # CSource
    /\ \A k \in Capturers : /\ CaptureSource(k) \in EventsSourceSet
                            /\ CaptureSource(k) # StopSource /\ CaptureSource(k) # CSource
<1>1. Client \notin Capturers
  BY EventsAssumption
<1> QED
  BY <1>1 DEF EventsSourceSet, SourceSet, StopSource, CSource, CaptureSource, ReconnectSource

LEMMA EventsSourcesMove ==
    ASSUME [NextEvents]_vars
    PROVE  \/ UNCHANGED sources /\ (client = "capturing" => client' = "capturing")
           \/ EventsExitThread /\ sources' = <<>>
           \/ \E s \in EventsSourceSet :
                 s # CSource /\ Runs(s) /\ (client = "capturing" => client' = "capturing")
           \/ Runs(CSource)
           \/ \E s \in EventsSourceSet :
                 s # CSource /\ Attaches(s) /\ (s = StopSource => stopper' = "joining")
                 /\ UNCHANGED client
           \/ client # "capturing" /\ client' = "capturing" /\ Attaches(CSource)
<1> USE EventsSourcesAreDistinct DEF Runs, Attaches
<1>1. CASE Plain
  <2>1. UNCHANGED client
    BY <1>1 DEF Plain, eventVars, clientVars
  <2>2. \/ UNCHANGED sources
        \/ Attaches(StopSource) /\ stopper' = "joining"
        \/ \E r \in Reconnectors : Attaches(ReconnectSource(r))
    BY <1>1 DEF Plain, StartThread, CoreConnected, MixerLoaded, MixerFailed, InitReturns,
       Stop, StopRequest, StopCancel, StopPost, StopJoin, Reconnect, ReconnectCheck,
       ReconnectCancel, ReconnectRead, ReconnectPost, ReconnectSleeps, ReconnectPosted, ReconnectReturns
  <2> QED
    BY <2>1, <2>2
<1>2. CASE EventsCoreLost \/ EventsOmInstalled
  BY <1>2 DEF EventsCoreLost, EventsOmInstalled, CoreLost, OmInstalled, clientVars
<1>3. CASE EventsDealloc
  BY <1>3 DEF EventsDealloc, Dealloc, clientVars
<1>4. CASE EventsExitThread
  BY <1>4 DEF EventsExitThread, ExitThread
<1>5. CASE ObjectStep
  BY <1>5 DEF ObjectStep, RecordChanged, SilentChange, ObjectRemoved, MetadataChanged,
     ParameterNotCopied, Watched, clientVars
<1>6. CASE RunEventSource
  <2>1. CASE EventsRunStop
    BY <2>1 DEF EventsRunStop, RunStop, NextSource, clientVars
  <2>2. ASSUME NEW r \in Reconnectors, EventsRunReconnect(r)
        PROVE  Runs(ReconnectSource(r)) /\ UNCHANGED client
    BY <2>2 DEF EventsRunReconnect, RunReconnect, NextSource, clientVars
  <2>3. CASE ClientCaptured
    BY <2>3 DEF ClientCaptured, Capture, NextSource, CSource
  <2>4. ASSUME NEW k \in Capturers, OtherCaptured(k)
        PROVE  Runs(CaptureSource(k)) /\ UNCHANGED client
    BY <2>4 DEF OtherCaptured, Capture, NextSource, clientVars
  <2>5. ASSUME NEW k \in Capturers \cup {Client}, CaptureFailed(k)
        PROVE  Runs(CaptureSource(k)) /\ (k # Client => UNCHANGED client)
    BY <2>5 DEF CaptureFailed, NextSource
  <2> QED
    BY <1>6, <2>1, <2>2, <2>3, <2>4, <2>5 DEF RunEventSource, CSource
<1>7. CASE ClientStep
  BY <1>7 DEF ClientStep, Resnapshot, DrainAndApply, ProjectNextEvent, WaitForEvent, CanRead,
     CSource, connVars
<1>8. ASSUME NEW k \in Capturers, OtherPosts(k) PROVE Attaches(CaptureSource(k)) /\ UNCHANGED client
  BY <1>8 DEF OtherPosts, clientVars
<1>9. CASE UNCHANGED vars
  BY <1>9 DEF vars, connVars, eventVars, clientVars
<1> QED
  BY <1>1, <1>2, <1>3, <1>4, <1>5, <1>6, <1>7, <1>8, <1>9 DEF NextEvents

LEMMA EventsSourcesStep ==
    ASSUME EventsInv, [NextEvents]_vars
    PROVE  sources' \in Seq(EventsSourceSet) /\ StopPosted' /\ CaptureInv'
<1>1. sources \in Seq(EventsSourceSet) /\ StopPosted /\ CaptureInv /\ sequence \in Nat
  BY DEF EventsInv, EventsShape, ConnInv, Shape
<1>2. stopper \in {"joining", "joined"} => stopper' \in {"joining", "joined"}
  BY <1>1, EventsConnStep, StopperStep DEF LifeKept
<1>3. \/ UNCHANGED sources \/ sources' = <<>>
      \/ \E s : Runs(s)
      \/ \E s \in EventsSourceSet : Attaches(s) /\ (s = StopSource => stopper' = "joining")
  BY EventsSourcesMove, EventsSourcesAreDistinct
<1>4. /\ ClientSources = At(sources, CSource)
      /\ ClientSources' = At(sources', CSource)
  BY DEF ClientSources, At, CSource
<1>5. /\ \A i, j \in At(sources, CSource) : i = j
      /\ At(sources, CSource) # {} => client = "capturing"
  BY <1>1, <1>4 DEF CaptureInv
<1>6. SUFFICES /\ \A i, j \in At(sources', CSource) : i = j
               /\ At(sources', CSource) # {} => client' = "capturing"
  BY <1>1, <1>2, <1>3, <1>4, StopPostedStep DEF CaptureInv
<1>7. CASE UNCHANGED sources /\ (client = "capturing" => client' = "capturing")
  BY <1>5, <1>7
<1>8. CASE sources' = <<>>
  BY <1>8, AtEmpty
<1>9. ASSUME NEW s, s # CSource, Runs(s), client = "capturing" => client' = "capturing"
      PROVE  /\ \A i, j \in At(sources', CSource) : i = j
             /\ At(sources', CSource) # {} => client' = "capturing"
  BY <1>1, <1>5, <1>9, AtOnceTail DEF Runs
<1>10. CASE Runs(CSource)
  BY <1>1, <1>5, <1>10, AtOnceTail DEF Runs
<1>11. ASSUME NEW s \in EventsSourceSet, s # CSource, Attaches(s), UNCHANGED client
       PROVE  /\ \A i, j \in At(sources', CSource) : i = j
              /\ At(sources', CSource) # {} => client' = "capturing"
  BY <1>1, <1>5, <1>11, AtAppend DEF Attaches
<1>12. CASE client # "capturing" /\ client' = "capturing" /\ Attaches(CSource)
  <2>1. At(sources', CSource) = {Len(sources) + 1}
    BY <1>1, <1>5, <1>12, AtAppend, EventsSourcesAreDistinct DEF Attaches
  <2> QED
    BY <1>12, <2>1
<1> QED
  BY <1>7, <1>8, <1>9, <1>10, <1>11, <1>12, EventsSourcesMove

-----------------------------------------------------------------------------
(* Positions. *)
LEMMA Order ==
    /\ \A a, b, c : (Position(a) /\ Position(b) /\ Position(c)) =>
          /\ Succeeds(b, a) => Earlier(a, b)
          /\ (~ Earlier(b, a) /\ Earlier(b, c)) => Earlier(a, c)
          /\ (Earlier(a, b) /\ ~ Earlier(c, b)) => Earlier(a, c)
          /\ Earlier(a, b) => ~ Earlier(b, a)
    /\ \A a : Position(a) => ~ Earlier(a, a)
  BY DEF Position, Succeeds, Earlier

LEMMA PositionTypes ==
    /\ \A e \in Event : Position(e) /\ e.requires_resnapshot \in BOOLEAN
    /\ \A p \in Snapshot : Position(p)
    /\ \A b \in Buffer :
          /\ b.events \in Seq(Event) /\ b.invalid \in BOOLEAN /\ Len(b.events) \in Nat
          /\ \A i \in 1..Len(b.events) : b.events[i] \in Event /\ Position(b.events[i])
    /\ (ConnInv => Position(Now))
<1>1. \A e \in Event : Position(e) /\ e.requires_resnapshot \in BOOLEAN
  BY DEF Event, Position
<1>2. \A p \in Snapshot : Position(p)
  BY DEF Snapshot, Position
<1>3. ASSUME NEW b \in Buffer
      PROVE  /\ b.events \in Seq(Event) /\ b.invalid \in BOOLEAN /\ Len(b.events) \in Nat
             /\ \A i \in 1..Len(b.events) : b.events[i] \in Event
  <2>1. b.events \in Seq(Event) /\ b.invalid \in BOOLEAN
    BY DEF Buffer
  <2> QED
    BY <2>1
<1>4. ConnInv => Position(Now)
  BY DEF ConnInv, Shape, Position, Now
<1> QED
  BY <1>1, <1>2, <1>3, <1>4

(* enqueue() does one of three things. *)
LEMMA NothingIsRecord == Nothing \in Record
  BY EventsAssumption DEF Nothing, Record

LEMMA EnqueueCases ==
    ASSUME NEW b \in Buffer, NEW e \in Event
    PROVE  \/ (closed \/ b.invalid) /\ enqueue(b, e) = b
           \/ /\ ~closed /\ ~b.invalid
              /\ Len(b.events) >= Capacity
              /\ enqueue(b, e).invalid = TRUE
              /\ enqueue(b, e) \in Buffer
              /\ \E d \in Event : /\ SamePosition(d, e) /\ d.requires_resnapshot
                                  /\ enqueue(b, e).events = <<d>>
           \/ /\ ~closed /\ ~b.invalid
              /\ Len(b.events) < Capacity
              /\ enqueue(b, e).invalid = FALSE
              /\ enqueue(b, e).events = Append(b.events, e)
              /\ enqueue(b, e) \in Buffer
<1>1. b.events \in Seq(Event) /\ b.invalid \in BOOLEAN /\ Len(b.events) \in Nat
  BY PositionTypes
<1>2. Capacity \in Nat \ {0}
  BY EventsAssumption
<1>3. CASE closed \/ b.invalid
  BY <1>3 DEF enqueue
<1>4. CASE ~closed /\ ~b.invalid /\ Len(b.events) >= Capacity
  <2> DEFINE d == make_discontinuity(e)
  <2>1. d \in Event /\ SamePosition(d, e) /\ d.requires_resnapshot
    <3>1. Nothing \in Record
      BY NothingIsRecord
    <3>3. e.generation \in Nat /\ e.sequence \in Nat
      BY DEF Event
    <3>4. d = [generation |-> e.generation, sequence |-> e.sequence, object |-> NoObject,
               record |-> Nothing, requires_resnapshot |-> TRUE]
      BY DEF make_discontinuity, Notice
    <3> HIDE DEF d
    <3>5. d.generation = e.generation /\ d.sequence = e.sequence /\ d.requires_resnapshot
      BY <3>4
    <3>6. d \in Event
      BY <3>1, <3>3, <3>4 DEF Event
    <3> QED
      BY <3>5, <3>6 DEF SamePosition
  <2>2. enqueue(b, e) = [events |-> <<d>>, invalid |-> TRUE]
    BY <1>4 DEF enqueue
  <2>3. <<d>> \in Seq(Event)
    BY <2>1
  <2> HIDE DEF d
  <2>4. enqueue(b, e) \in Buffer
    BY <2>2, <2>3 DEF Buffer
  <2> QED
    BY <1>4, <2>1, <2>2, <2>4
<1>5. CASE ~closed /\ ~b.invalid /\ Len(b.events) < Capacity
  <2>1. enqueue(b, e) = [b EXCEPT !.events = Append(@, e)]
    BY <1>1, <1>2, <1>5 DEF enqueue
  <2>2. Append(b.events, e) \in Seq(Event)
    BY <1>1
  <2> QED
    BY <1>1, <1>5, <2>1, <2>2 DEF Buffer
<1>6. Len(b.events) >= Capacity \/ Len(b.events) < Capacity
  BY <1>1, <1>2
<1> QED
  BY <1>3, <1>4, <1>5, <1>6

(* The elements of a sequence with one more at its end. *)
LEMMA AppendFacts ==
    ASSUME NEW S, NEW s \in Seq(S), NEW e \in S
    PROVE  LET t == Append(s, e) IN
           /\ t \in Seq(S) /\ Len(t) = Len(s) + 1 /\ Len(s) \in Nat /\ t # <<>>
           /\ \A i \in 1..Len(s) : t[i] = s[i]
           /\ t[Len(s) + 1] = e
           /\ \A i \in 1..Len(t) : i \in 1..Len(s) \/ i = Len(s) + 1
           /\ s # <<>> => t[1] = s[1] /\ Len(s) \in 1..Len(s)
           /\ s = <<>> => t[1] = e /\ Len(s) = 0
  OBVIOUS

(* The elements of a sequence without the first. *)
LEMMA TailFacts ==
    ASSUME NEW S, NEW s \in Seq(S), s # <<>>
    PROVE  LET t == Tail(s) IN
           /\ t \in Seq(S) /\ Len(t) = Len(s) - 1 /\ Len(s) \in Nat /\ Len(s) >= 1
           /\ \A i \in 1..Len(t) : i + 1 \in 1..Len(s) /\ t[i] = s[i + 1]
           /\ \A i \in 1..Len(s) : i # 1 => i - 1 \in 1..Len(t) /\ t[i - 1] = s[i]
           /\ Head(s) \in S /\ Head(s) = s[1] /\ 1 \in 1..Len(s)
           /\ t # <<>> => 2 \in 1..Len(s) /\ t[1] = s[2] /\ t[Len(t)] = s[Len(s)]
           /\ t = <<>> => Len(s) = 1
<1> DEFINE t == Tail(s)
<1>1. /\ t \in Seq(S) /\ Len(t) = Len(s) - 1 /\ Len(s) \in Nat /\ Len(s) >= 1
      /\ Head(s) \in S /\ Head(s) = s[1] /\ 1 \in 1..Len(s)
  OBVIOUS
<1>2. \A i \in 1..Len(t) : i + 1 \in 1..Len(s) /\ t[i] = s[i + 1]
  OBVIOUS
<1>3. \A i \in 1..Len(s) : i # 1 => i - 1 \in 1..Len(t) /\ t[i - 1] = s[i]
  OBVIOUS
<1>4. ASSUME t # <<>> PROVE 2 \in 1..Len(s) /\ t[1] = s[2] /\ t[Len(t)] = s[Len(s)]
  <2>1. Len(t) # 0
    BY <1>1, <1>4
  <2>2. 1 \in 1..Len(t) /\ Len(t) \in 1..Len(t)
    BY <1>1, <2>1
  <2> QED
    BY <1>1, <1>2, <2>2
<1>5. t = <<>> => Len(s) = 1
  BY <1>1
<1> QED
  BY <1>1, <1>2, <1>3, <1>4, <1>5

LEMMA EnqueueBufferOK ==
    ASSUME NEW b \in Buffer, NEW n, Position(n), BufferOK(b, n),
           NEW e \in Event, Succeeds(e, n)
    PROVE  enqueue(b, e) \in Buffer /\ BufferOK(enqueue(b, e), e)
<1> DEFINE es == b.events  c == enqueue(b, e)
<1>1. Position(e) /\ Earlier(n, e) /\ Capacity \in Nat \ {0}
  BY PositionTypes, Order, EventsAssumption
<1>2. /\ es \in Seq(Event) /\ Len(es) \in Nat
      /\ \A i \in 1..Len(es) : es[i] \in Event /\ Position(es[i])
  BY PositionTypes
<1>3. \A i \in 1..Len(es) : Earlier(es[i], e) /\ ~ Earlier(e, es[i])
  BY <1>1, <1>2, Order DEF BufferOK
<1>4. CASE (closed \/ b.invalid) /\ c = b
  BY <1>3, <1>4 DEF BufferOK
<1>5. ASSUME ~ b.invalid, c.invalid, c \in Buffer, NEW d \in Event, SamePosition(d, e), c.events = <<d>>
      PROVE  BufferOK(c, e)
  <2>1. ~ Earlier(e, d)
    BY <1>1, <1>5, PositionTypes, Order DEF SamePosition, Earlier, Position
  <2> QED
    BY <1>1, <1>5, <2>1 DEF BufferOK
<1>6. ASSUME ~ closed, ~ b.invalid, Len(es) < Capacity, c.invalid = FALSE,
             c.events = Append(es, e)
      PROVE  BufferOK(c, e)
  <2> DEFINE m == Len(es)
  <2>1. /\ Len(c.events) = m + 1 /\ m \in Nat
        /\ \A i \in 1..m : c.events[i] = es[i]
        /\ c.events[m + 1] = e
        /\ \A i \in 1..(m + 1) : i \in 1..m \/ i = m + 1
        /\ es # <<>> => m \in 1..m
        /\ es = <<>> => m = 0
    BY <1>2, <1>6, AppendFacts
  <2>2. ~ Earlier(e, e)
    BY <1>1, Order
  <2>3. \A i \in 1..Len(c.events) : ~ Earlier(e, c.events[i])
    BY <1>3, <2>1, <2>2
  <2>4. ASSUME NEW i \in 1..Len(c.events), NEW j \in 1..Len(c.events), i < j
        PROVE  Earlier(c.events[i], c.events[j])
    <3>1. i \in 1..m
      BY <2>1, <2>4
    <3>2. CASE j \in 1..m
      BY <2>1, <2>4, <3>1, <3>2 DEF BufferOK
    <3>3. CASE j = m + 1
      BY <1>3, <2>1, <3>1, <3>3
    <3> QED
      BY <2>1, <3>2, <3>3
  <2>5. ASSUME NEW i \in 1..Len(c.events) - 1 PROVE Succeeds(c.events[i + 1], c.events[i])
    <3>1. i \in 1..m
      BY <2>1
    <3>2. CASE i = m
      <4>1. SamePosition(es[m], n)
        BY <1>6, <2>1, <3>1, <3>2 DEF BufferOK
      <4> QED
        BY <2>1, <3>1, <3>2, <4>1 DEF SamePosition, Succeeds
    <3>3. CASE i # m
      <4>1. i + 1 \in 1..m /\ i \in 1..m - 1
        BY <2>1, <3>1, <3>3
      <4> QED
        BY <2>1, <4>1, <3>1 DEF BufferOK
    <3> QED
      BY <3>2, <3>3
  <2>6. Len(c.events) <= Capacity /\ SamePosition(c.events[Len(c.events)], e)
    BY <1>1, <1>6, <2>1 DEF SamePosition
  <2>7. ~ c.invalid
    BY <1>6
  <2> HIDE DEF c
  <2>8. \A i, j \in 1..Len(c.events) : i < j => Earlier(c.events[i], c.events[j])
    BY <2>4
  <2>9. \A i \in 1..Len(c.events) - 1 : Succeeds(c.events[i + 1], c.events[i])
    BY <2>5
  <2> QED
    BY <2>3, <2>6, <2>7, <2>8, <2>9 DEF BufferOK
<1> QED
  BY <1>4, <1>5, <1>6, EnqueueCases

LEMMA EnqueuePlaced ==
    ASSUME NEW p \in Snapshot, NEW b \in Buffer, NEW n, Position(n), Placed(p, b, n),
           NEW e \in Event, Succeeds(e, n)
    PROVE  Placed(p, enqueue(b, e), e)
<1> DEFINE es == b.events  c == enqueue(b, e)
<1>1. Position(e) /\ Position(p) /\ Earlier(n, e)
  BY PositionTypes, Order
<1>2. es \in Seq(Event)
  BY PositionTypes
<1>3. Earlier(p, e) /\ ~ Earlier(e, p)
  BY <1>1, Order DEF Placed
<1>4. CASE c = b
  BY <1>3, <1>4 DEF Placed
<1>5. ASSUME NEW d \in Event, SamePosition(d, e), d.requires_resnapshot, c.events = <<d>>
      PROVE  Placed(p, c, e)
  <2>1. Earlier(p, d)
    BY <1>3, <1>5 DEF SamePosition, Earlier
  <2> QED
    BY <1>3, <1>5, <2>1 DEF Placed
<1>6. CASE c.invalid = FALSE /\ c.events = Append(es, e)
  <2>1. \A i \in 1..Len(c.events) : Earlier(p, c.events[i])
    BY <1>2, <1>3, <1>6, AppendFacts DEF Placed
  <2> QED
    BY <1>3, <1>6, <2>1 DEF Placed
<1> QED
  BY <1>4, <1>5, <1>6, EnqueueCases


(* What it takes to be able to apply es one by one. *)
LEMMA RunAt ==
    ASSUME NEW p \in Snapshot, NEW es, Len(es) \in Nat
    PROVE  Run(p, es) <=>
             \A i \in 1..Len(es) : /\ es[i].generation = p.generation
                                   /\ es[i].sequence = p.sequence + i
                                   /\ ~ es[i].requires_resnapshot
<1>1. p.sequence \in Nat
  BY DEF Snapshot
<1>2. ASSUME NEW i \in 1..Len(es)
      PROVE  LET q == [p EXCEPT !.sequence = @ + i - 1] IN
             q.generation = p.generation /\ q.sequence + 1 = p.sequence + i
  BY <1>1 DEF Snapshot
<1> QED
  BY <1>1, <1>2 DEF Run, Follows

(* The event e tells how the records w became v. *)
Tells(e, w, v) ==
    \/ e.requires_resnapshot
    \/ \A o \in Objects :
          IF e.object = o THEN Tracks(o, e.record, v[o]) ELSE Keeps(o, w[o], v[o])

(* What nobody needs to be told leaves what was told right. *)
LEMMA KeepsTracks ==
    ASSUME NEW o, NEW known \in Record, NEW before \in Record, NEW after \in Record,
           Tracks(o, known, before), Keeps(o, before, after)
    PROVE  Tracks(o, known, after)
<1>1. /\ known.rest \in Int /\ before.rest \in Int /\ after.rest \in Int
  BY DEF Record
<1> QED
  BY <1>1 DEF Tracks, Keeps

LEMMA ToldKept ==
    ASSUME NEW p \in Snapshot, NEW es \in Seq(Event), NEW o \in Objects,
           NEW w \in View, NEW v \in View, Told(p, es, o, w), Keeps(o, w[o], v[o])
    PROVE  Told(p, es, o, v)
<1>1. p.objects[o] \in Record /\ w[o] \in Record /\ v[o] \in Record
  BY DEF Snapshot, View
<1>2. \A i \in 1..Len(es) : es[i].record \in Record
  <2>1. \A i \in 1..Len(es) : es[i] \in Event
    OBVIOUS
  <2>2. \A e \in Event : e.record \in Record
    BY DEF Event
  <2> QED
    BY <2>1, <2>2
<1> QED
  BY <1>1, <1>2, KeepsTracks DEF Told

LEMMA FaithfulKept ==
    ASSUME NEW p \in Snapshot, NEW b \in Buffer, NEW n, NEW w \in View, NEW v \in View,
           Faithful(p, b, n, w), \A o \in Objects : Keeps(o, w[o], v[o])
    PROVE  Faithful(p, b, n, v)
<1>1. b.events \in Seq(Event)
  BY PositionTypes
<1> QED
  BY <1>1, ToldKept DEF Faithful

LEMMA EnqueueFaithful ==
    ASSUME NEW p \in Snapshot, NEW b \in Buffer, NEW n, Position(n), Placed(p, b, n),
           ~ closed, NEW w \in View, NEW v \in View, Faithful(p, b, n, w),
           NEW e \in Event, Succeeds(e, n), e.generation = n.generation => Tells(e, w, v)
    PROVE  Faithful(p, enqueue(b, e), e, v)
<1> DEFINE es == b.events  c == enqueue(b, e)  m == Len(es)
<1>1. SUFFICES ASSUME Run(p, c.events), p.generation = e.generation,
                      p.sequence + Len(c.events) = e.sequence,
                      NEW o \in Objects
               PROVE  Told(p, c.events, o, v)
  BY DEF Faithful
<1>2. Position(e) /\ Position(p) /\ es \in Seq(Event) /\ m \in Nat /\ c \in Buffer
  BY PositionTypes, EnqueueCases
<1>3. e.generation = n.generation /\ e.sequence = n.sequence + 1
  BY <1>1, <1>2 DEF Placed, Succeeds, Earlier, Position
<1>4. c.events \in Seq(Event) /\ Len(c.events) \in Nat
  BY <1>2, PositionTypes
<1>5. \A i \in 1..Len(c.events) : /\ c.events[i].generation = p.generation
                                  /\ c.events[i].sequence = p.sequence + i
                                  /\ ~ c.events[i].requires_resnapshot
  BY <1>1, <1>4, RunAt
<1>6. ~ (c.events # <<>> /\ c.events[1].requires_resnapshot)
  BY <1>4, <1>5
<1>7. ~ b.invalid /\ c.invalid = FALSE /\ c.events = Append(es, e)
  <2>1. ~ (b.invalid /\ c = b)
    BY <1>6 DEF Placed
  <2>2. ASSUME NEW d \in Event, d.requires_resnapshot, c.events = <<d>> PROVE FALSE
    BY <1>6, <2>2
  <2> QED
    BY <2>1, <2>2, EnqueueCases
<1>8. /\ Len(c.events) = m + 1 /\ c.events[m + 1] = e
      /\ \A i \in 1..m : c.events[i] = es[i]
      /\ \A i \in 1..Len(c.events) : i \in 1..m \/ i = m + 1
  BY <1>2, <1>7, AppendFacts
<1>9. ~ e.requires_resnapshot /\ m + 1 \in 1..Len(c.events)
  BY <1>2, <1>5, <1>8
<1>10. IF e.object = o THEN Tracks(o, e.record, v[o]) ELSE Keeps(o, w[o], v[o])
  BY <1>3, <1>9 DEF Tells
<1>11. Told(p, es, o, w)
  <2>1. Run(p, es)
    BY <1>2, <1>5, <1>8, RunAt
  <2>2. p.sequence + m = n.sequence
    <3>1. p.sequence + Len(c.events) = n.sequence + 1 /\ Len(c.events) = m + 1
      BY <1>1, <1>3, <1>8
    <3>2. p.sequence \in Nat /\ n.sequence \in Nat /\ m \in Nat
      BY <1>2 DEF Position
    <3> QED
      BY <3>1, <3>2
  <2> QED
    BY <1>1, <1>3, <2>1, <2>2 DEF Faithful
<1> HIDE DEF c
<1>12. CASE e.object = o
  BY <1>2, <1>8, <1>9, <1>10, <1>12 DEF Told
<1>13. CASE e.object # o
  <2>1. Told(p, es, o, v)
    BY <1>2, <1>10, <1>11, <1>13, ToldKept
  <2>2. ASSUME \A i \in 1..m : es[i].object # o, Tracks(o, p.objects[o], v[o])
        PROVE  Told(p, c.events, o, v)
    BY <1>8, <1>13, <2>2 DEF Told
  <2>3. ASSUME NEW i \in 1..m, es[i].object = o, Tracks(o, es[i].record, v[o]),
               \A j \in 1..m : i < j => es[j].object # o
        PROVE  Told(p, c.events, o, v)
    <3>1. i \in 1..Len(c.events) /\ c.events[i].object = o /\ Tracks(o, c.events[i].record, v[o])
      BY <1>2, <1>8, <2>3
    <3>2. \A j \in 1..Len(c.events) : i < j => c.events[j].object # o
      BY <1>2, <1>8, <1>13, <2>3
    <3> QED
      BY <3>1, <3>2 DEF Told
  <2> QED
    BY <2>1, <2>2, <2>3 DEF Told
<1> QED
  BY <1>12, <1>13

LEMMA EnqueueContinues ==
    ASSUME NEW p \in Snapshot, NEW b \in Buffer, NEW n, Placed(p, b, n),
           Continues(p, b, n), NEW e \in Event, Succeeds(e, n)
    PROVE  Continues(p, enqueue(b, e), e)
<1> DEFINE es == b.events  c == enqueue(b, e)
<1>1. es \in Seq(Event)
  BY PositionTypes
<1>2. CASE (closed \/ b.invalid) /\ c = b
  BY <1>2 DEF Continues, Placed
<1>3. ASSUME NEW d \in Event, d.requires_resnapshot, c.events = <<d>>
      PROVE  Continues(p, c, e)
  BY <1>3 DEF Continues
<1>4. CASE ~ closed /\ c.events = Append(es, e)
  <2>1. /\ c.events # <<>>
        /\ es # <<>> => c.events[1] = es[1]
        /\ es = <<>> => c.events[1] = e
    BY <1>1, <1>4, AppendFacts
  <2>2. es = <<>> => Succeeds(e, p)
    BY <1>4 DEF Continues, SamePosition, Succeeds
  <2> QED
    BY <2>1, <2>2 DEF Continues
<1> QED
  BY <1>2, <1>3, <1>4, EnqueueCases

-----------------------------------------------------------------------------
(* What a step does to what the client can see: nothing, one or two events   *)
(* published, a snapshot captured, or a step of the client's own.            *)
Untold == \A o \in Objects : Keeps(o, world[o], world'[o])

Silent ==
    /\ UNCHANGED <<generation, sequence, buffer, asleep, projection, snapshot>>
    /\ closed' = closed \/ (closed' = TRUE /\ client # "waiting")
    /\ Blind' \/ (~ Blind /\ (UNCHANGED world \/ Untold))
    /\ UNCHANGED client \/ (client # "waiting" /\ client' \in {"capturing", "failed", "gone"})

Woken ==
    /\ UNCHANGED clientVars
    /\ \/ UNCHANGED closed /\ asleep' = IF closed \/ buffer.invalid THEN asleep ELSE FALSE
       \/ closed' = TRUE /\ asleep' = FALSE

PublishedOne(e) ==
    /\ Succeeds(e, Now) /\ SamePosition(e, Now')
    /\ buffer' = enqueue(buffer, e)
    /\ Woken
    /\ Blind' \/ (e.generation = generation => ~ Blind /\ Tells(e, world, world'))

PublishedTwo(d, e) ==
    /\ Succeeds(d, Now) /\ Succeeds(e, d) /\ SamePosition(e, Now')
    /\ buffer' = enqueue(enqueue(buffer, d), e)
    /\ Woken
    /\ Blind' \/ (~ Blind /\ Tells(d, world, world) /\ Tells(e, world, world'))

CapturedStep ==
    /\ generation' = generation /\ sequence' = sequence + 1
    /\ buffer' = [events |-> <<>>, invalid |-> FALSE]
    /\ UNCHANGED <<om, stop_requested, world, closed, asleep, projection>>
    /\ \/ UNCHANGED <<client, snapshot>> /\ Capturers # {}
       \/ client = "capturing" /\ client' = "captured" /\ snapshot' = CapturedSnapshot

VisibleStep ==
    \/ Silent
    \/ \E e \in Event : PublishedOne(e)
    \/ \E d, e \in Event : PublishedTwo(d, e)
    \/ CapturedStep
    \/ DrainAndApply \/ ProjectNextEvent \/ WaitForEvent

(* The rest of a step: what the other components of the state need.          *)
SideStep == world' \in View /\ capturing' \subseteq Capturers

LEMMA EventKinds ==
    ASSUME NEW g \in Nat, NEW s \in Nat
    PROVE  /\ StateEvent(g, s) \in Event
           /\ StateEvent(g, s).generation = g /\ StateEvent(g, s).sequence = s
           /\ StateEvent(g, s).object = NoObject
  BY NothingIsRecord DEF StateEvent, Event

LEMMA StateEventTells ==
    ASSUME NEW g \in Nat, NEW s \in Nat, NEW w, NEW v,
           \A o \in Objects : Keeps(o, w[o], v[o])
    PROVE  Tells(StateEvent(g, s), w, v)
  BY EventKinds, EventsAssumption DEF Tells

LEMMA NextPosition ==
    ASSUME NEW e, e.generation = generation, e.sequence = sequence + 1
    PROVE  Succeeds(e, Now)
  BY DEF Succeeds, Now

LEMMA CapturingAtHead ==
    ASSUME CaptureInv, NEW S, sources \in Seq(S), NextSource(CaptureSource(Client))
    PROVE  client = "capturing"
<1>1. 1 \in 1..Len(sources) /\ sources[1] = Head(sources)
  BY DEF NextSource
<1> QED
  BY <1>1 DEF NextSource, CaptureInv, ClientSources

(* A disconnection. *)
LEMMA DisconnectCase ==
    ASSUME EventsInv, NEW runs \in BOOLEAN, PublishDisconnected(runs),
           om' = "none", UNCHANGED <<generation, started, stop_requested, closed, clientVars>>,
           sequence' = IF runs THEN SequenceAfterDisconnect ELSE sequence
    PROVE  VisibleStep /\ world' \in View
<1>1. generation \in Nat /\ sequence \in Nat /\ world \in View /\ Blind'
  BY DEF EventsInv, EventsShape, ConnInv, Shape, Blind
<1>2. world' \in View
  <2>1. Absent \in View
    BY NothingIsRecord DEF Absent, View
  <2> QED
    BY <1>1, <2>1 DEF PublishDisconnected
<1>3. CASE runs /\ Publishing
  <2> DEFINE e == StateEvent(generation, sequence + 1)
  <2>1. e \in Event /\ e.generation = generation /\ e.sequence = sequence + 1
    BY <1>1, EventKinds
  <2>2. generation' = generation /\ sequence' = sequence + 1
    BY <1>3 DEF SequenceAfterDisconnect, Publishing
  <2>3. /\ buffer' = enqueue(buffer, e)
        /\ asleep' = IF closed \/ buffer.invalid THEN asleep ELSE FALSE
    BY <1>3 DEF PublishDisconnected, Publish
  <2> HIDE DEF e
  <2>4. Succeeds(e, Now) /\ SamePosition(e, Now')
    BY <2>1, <2>2, NextPosition DEF SamePosition, Now
  <2>5. PublishedOne(e)
    BY <1>1, <2>3, <2>4 DEF PublishedOne, Woken
  <2> QED
    BY <1>2, <2>1, <2>5 DEF VisibleStep
<1>4. CASE ~ (runs /\ Publishing)
  <2>1. Silent
    BY <1>1, <1>4 DEF Silent, PublishDisconnected, SequenceAfterDisconnect, Publishing, clientVars
  <2> QED
    BY <1>2, <2>1 DEF VisibleStep
<1> QED
  BY <1>3, <1>4

(* What a callback of an object manager publishes. *)
LEMMA WatchedUnpublished ==
    ASSUME EventsInv, Watched, Unpublished PROVE VisibleStep
<1>1. Blind'
  BY DEF EventsInv, OpenInv, Watched, Unpublished, Publishing, Blind, lifeVars, stopVars
<1>2. Silent
  BY <1>1 DEF Silent, Watched, Unpublished, clientVars
<1> QED
  BY <1>2 DEF VisibleStep

LEMMA WatchedPublished ==
    ASSUME EventsInv, Watched, NEW e \in Event, e.generation = generation,
           e.sequence = sequence + 1, sequence' = sequence + 1, Publish(enqueue(buffer, e)),
           Tells(e, world, world')
    PROVE  VisibleStep
<1>1. Succeeds(e, Now) /\ SamePosition(e, Now')
  BY NextPosition DEF Watched, SamePosition, Now
<1>2. Woken /\ buffer' = enqueue(buffer, e)
  BY DEF Watched, Woken, Publish
<1>3. PublishedOne(e)
  BY <1>1, <1>2 DEF PublishedOne, Watched, Blind, lifeVars, stopVars
<1> QED
  BY <1>3 DEF VisibleStep

LEMMA ObjectVisible ==
    ASSUME EventsInv, ObjectStep PROVE VisibleStep /\ SideStep
<1>1. /\ generation \in Nat /\ sequence \in Nat /\ world \in View /\ capturing \subseteq Capturers
      /\ DOMAIN world = Objects
  BY DEF EventsInv, EventsShape, ConnInv, Shape, View
<1>2. PICK o \in Objects : \/ RecordChanged(o) \/ SilentChange(o) \/ ObjectRemoved(o)
                           \/ MetadataChanged(o) \/ ParameterNotCopied(o)
  BY DEF ObjectStep
<1>3. /\ generation' = generation /\ capturing' = capturing /\ Watched
  BY <1>2 DEF RecordChanged, SilentChange, ObjectRemoved, MetadataChanged,
     ParameterNotCopied, Watched
<1>4. PICK v \in Record : world' = [world EXCEPT ![o] = v]
  <2>1. world[o] \in Record /\ 1..MaxVersion \subseteq 0..MaxVersion
    BY <1>1, EventsAssumption DEF View
  <2>2. ASSUME NEW x \in 0..MaxRest
        PROVE  /\ [world[o] EXCEPT !.rest = x] \in Record
               /\ [world EXCEPT ![o].rest = x] = [world EXCEPT ![o] = [world[o] EXCEPT !.rest = x]]
    BY <1>1, <2>1 DEF Record
  <2>3. ASSUME NEW x \in 1..MaxVersion
        PROVE  /\ [world[o] EXCEPT !.told = x] \in Record
               /\ [world EXCEPT ![o].told = x] = [world EXCEPT ![o] = [world[o] EXCEPT !.told = x]]
    BY <1>1, <2>1 DEF Record
  <2>4. CASE MetadataChanged(o)
    BY <2>2, <2>4 DEF MetadataChanged
  <2>5. CASE ParameterNotCopied(o)
    BY <2>3, <2>5 DEF ParameterNotCopied
  <2> QED
    BY <1>2, <2>4, <2>5, NothingIsRecord DEF RecordChanged, SilentChange, ObjectRemoved
<1>5. /\ world' \in View
      /\ \A x \in Objects : world'[x] = IF o = x THEN v ELSE world[x]
  BY <1>1, <1>4 DEF View
<1>6. SideStep
  BY <1>1, <1>3, <1>5 DEF SideStep
<1>7. /\ NoObject \notin Objects /\ MetadataObjects \subseteq Objects /\ Capacity \in Nat
      /\ Parameters \cap MetadataObjects = {}
      /\ world[o] \in Record /\ v.rest \in Int /\ world[o].rest \in Int
  BY <1>1, <1>4, EventsAssumption DEF View, Record
<1>8. SUFFICES ASSUME ~ Unpublished PROVE VisibleStep
  BY <1>3, <1>6, WatchedUnpublished
<1>9. CASE RecordChanged(o) \/ ObjectRemoved(o)
  <2> DEFINE e == ObjectEvent(sequence + 1, o, v)
  <2>1. world'[o] = v
    BY <1>5
  <2>2. sequence' = sequence + 1 /\ Publish(enqueue(buffer, e))
    <3>1. CASE RecordChanged(o)
      <4>1. PICK u \in Record :
                 /\ world' = [world EXCEPT ![o] = u]
                 /\ sequence' = sequence + 1
                 /\ Publish(enqueue(buffer, ObjectEvent(sequence + 1, o, u)))
        BY <1>8, <3>1 DEF RecordChanged
      <4>2. u = v
        BY <1>1, <2>1, <4>1
      <4> QED
        BY <4>1, <4>2
    <3>2. CASE ObjectRemoved(o)
      <4>1. /\ world' = [world EXCEPT ![o] = Nothing]
            /\ sequence' = sequence + 1
            /\ Publish(enqueue(buffer, ObjectEvent(sequence + 1, o, Nothing)))
        BY <1>8, <3>2 DEF ObjectRemoved
      <4>2. v = Nothing
        BY <1>1, <2>1, <4>1
      <4> QED
        BY <4>1, <4>2
    <3> QED
      BY <1>9, <3>1, <3>2
  <2>3. /\ Published(o, v) \in Record
        /\ Tracks(o, Published(o, v), v)
    BY <1>4, <1>7, EventsAssumption DEF Published, Record, Tracks
  <2>4. /\ e \in Event /\ e.generation = generation /\ e.sequence = sequence + 1
        /\ e.object = o /\ e.record = Published(o, v)
    BY <1>1, <2>3 DEF ObjectEvent, Event
  <2> HIDE DEF e
  <2>5. Tells(e, world, world')
    BY <1>5, <2>3, <2>4 DEF Tells, Keeps
  <2> QED
    BY <1>3, <2>2, <2>4, <2>5, WatchedPublished
<1>10. CASE ParameterNotCopied(o)
  <2> DEFINE e == Notice(generation, sequence + 1)
  <2>2. /\ e \in Event /\ e.generation = generation /\ e.sequence = sequence + 1
        /\ e.requires_resnapshot
    BY <1>1, NothingIsRecord DEF Notice, Event
  <2>3. sequence' = sequence + 1 /\ Publish(enqueue(buffer, e))
    BY <1>10 DEF ParameterNotCopied
  <2> HIDE DEF e
  <2>4. Tells(e, world, world')
    BY <2>2 DEF Tells
  <2> QED
    BY <1>3, <2>2, <2>3, <2>4, WatchedPublished
<1>11. CASE MetadataChanged(o)
  <2> DEFINE d == StateEvent(generation, sequence + 1)
             e == StateEvent(generation, sequence + 2)
  <2>1. /\ d \in Event /\ d.generation = generation /\ d.sequence = sequence + 1
        /\ e \in Event /\ e.generation = generation /\ e.sequence = sequence + 2
    BY <1>1, EventKinds
  <2>2. \A x \in Objects : Keeps(x, world[x], world'[x]) /\ Keeps(x, world[x], world[x])
    <3>1. o \notin Parameters
      BY <1>7, <1>11 DEF MetadataChanged
    <3>2. v.told = world[o].told
      <4>1. PICK x \in 0..MaxRest : world' = [world EXCEPT ![o].rest = x]
        BY <1>11 DEF MetadataChanged
      <4>2. world'[o] = [world[o] EXCEPT !.rest = x]
        BY <1>1, <4>1
      <4> QED
        BY <1>5, <1>7, <4>2 DEF Record
    <3> QED
      BY <1>5, <3>1, <3>2 DEF Keeps
  <2>3. Tells(d, world, world') /\ Tells(d, world, world) /\ Tells(e, world, world')
    BY <1>1, <2>2, StateEventTells
  <2>4. \/ sequence' = sequence + 1 /\ Publish(enqueue(buffer, d))
        \/ sequence' = sequence + 2 /\ Publish(enqueue(enqueue(buffer, d), e))
    BY <1>8, <1>11 DEF MetadataChanged
  <2> HIDE DEF d, e
  <2>5. CASE sequence' = sequence + 1 /\ Publish(enqueue(buffer, d))
    BY <1>3, <2>1, <2>3, <2>5, WatchedPublished
  <2>6. CASE sequence' = sequence + 2 /\ Publish(enqueue(enqueue(buffer, d), e))
    <3>1. Succeeds(d, Now) /\ Succeeds(e, d) /\ SamePosition(e, Now')
      BY <1>1, <1>3, <2>1, <2>6, NextPosition DEF Succeeds, SamePosition, Now
    <3>2. Woken /\ buffer' = enqueue(enqueue(buffer, d), e)
      BY <1>3, <2>6 DEF Woken, Publish, Watched
    <3>3. PublishedTwo(d, e)
      BY <1>3, <2>3, <3>1, <3>2 DEF PublishedTwo, Watched, Blind, lifeVars, stopVars
    <3> QED
      BY <2>1, <3>3 DEF VisibleStep
  <2> QED
    BY <2>4, <2>5, <2>6
<1>12. CASE SilentChange(o)
  <2>1. UNCHANGED <<sequence, buffer, asleep>>
    BY <1>12 DEF SilentChange
  <2>2. Keeps(o, world[o], v)
    <3>1. PICK r \in Record :
             /\ IF o \in Parameters THEN r.rest = world[o].rest + 1
                ELSE r # world[o] /\ r.told = world[o].told /\ r.told # 0
             /\ world' = [world EXCEPT ![o] = r]
      BY <1>12 DEF SilentChange
    <3>2. r = v
      BY <1>1, <1>5, <3>1
    <3> QED
      BY <1>7, <3>1, <3>2 DEF Keeps
  <2>3. \A x \in Objects : Keeps(x, world[x], world'[x])
    BY <1>5, <2>2 DEF Keeps
  <2>4. Silent
    BY <1>3, <2>1, <2>3 DEF Silent, Untold, Watched, Blind, lifeVars, stopVars, clientVars
  <2> QED
    BY <2>4 DEF VisibleStep
<1> QED
  BY <1>2, <1>9, <1>10, <1>11, <1>12

LEMMA CaptureVisible ==
    ASSUME EventsInv,
           ClientCaptured \/ \E k \in Capturers : OtherCaptured(k)
    PROVE  VisibleStep /\ SideStep /\ UNCHANGED <<closed, om, stop_requested, started>>
<1>1. CaptureInv /\ sources \in Seq(EventsSourceSet) /\ capturing \subseteq Capturers /\ world \in View
  BY DEF EventsInv, EventsShape
<1>2. PICK k : /\ Capture(k)
               /\ \/ UNCHANGED clientVars /\ Capturers # {}
                  \/ /\ k = Client /\ client' = "captured"
                     /\ snapshot' = CapturedSnapshot /\ UNCHANGED projection
               /\ capturing' \subseteq capturing
  BY DEF ClientCaptured, OtherCaptured
<1>3. k = Client => client = "capturing"
  BY <1>1, <1>2, CapturingAtHead DEF Capture
<1>4. /\ generation' = generation /\ sequence' = sequence + 1
      /\ buffer' = [events |-> <<>>, invalid |-> FALSE]
      /\ UNCHANGED <<om, stop_requested, world, closed, asleep, started>>
  BY <1>2 DEF Capture, CapturedSnapshot, lifeVars, stopVars
<1>5. CapturedStep
  BY <1>2, <1>3, <1>4 DEF CapturedStep, clientVars
<1> QED
  BY <1>1, <1>2, <1>4, <1>5 DEF VisibleStep, SideStep

LEMMA EventsVisible ==
    ASSUME EventsInv, [NextEvents]_vars
    PROVE  VisibleStep /\ SideStep /\ OpenInv'
<1>1. /\ generation \in Nat /\ sequence \in Nat /\ world \in View /\ capturing \subseteq Capturers
      /\ ConnInv /\ LifeInv /\ OpenInv /\ StopPosted /\ CaptureInv
      /\ sources \in Seq(EventsSourceSet)
  BY DEF EventsInv, EventsShape, ConnInv, Shape
<1>2. CASE Plain
  <2>1. UNCHANGED <<generation, sequence, eventVars>>
    BY <1>2 DEF Plain, StartThread, CoreConnected, MixerLoaded, MixerFailed, InitReturns,
       Stop, StopRequest, StopCancel, StopPost, StopJoin, Reconnect, ReconnectCheck,
       ReconnectCancel, ReconnectRead, ReconnectPost, ReconnectSleeps, ReconnectPosted, ReconnectReturns,
       lifeVars
  <2>2. /\ om' = om \/ om' # "installed"
        /\ stop_requested => stop_requested'
        /\ started => started'
    BY <1>2 DEF Plain, StartThread, CoreConnected, MixerLoaded, MixerFailed, InitReturns,
       Stop, StopRequest, StopCancel, StopPost, StopJoin, Reconnect, ReconnectCheck,
       ReconnectCancel, ReconnectRead, ReconnectPost, ReconnectSleeps, ReconnectPosted, ReconnectReturns,
       lifeVars, stopVars, install_object_manager
  <2>3. Silent
    BY <2>1, <2>2 DEF Silent, Blind, eventVars, clientVars
  <2>4. SideStep
    BY <1>1, <2>1 DEF SideStep, eventVars
  <2> QED
    BY <1>1, <2>1, <2>2, <2>3, <2>4 DEF VisibleStep, OpenInv, eventVars
<1>3. CASE EventsCoreLost
  <2>1. /\ PublishDisconnected(TRUE) /\ om' = "none"
        /\ UNCHANGED <<generation, started, stop_requested, closed, clientVars, capturing>>
        /\ sequence' = SequenceAfterDisconnect
    BY <1>3 DEF EventsCoreLost, CoreLost, stopVars
  <2>2. VisibleStep /\ world' \in View
    BY <2>1, DisconnectCase
  <2> QED
    BY <1>1, <2>1, <2>2 DEF OpenInv, SideStep
<1>4. ASSUME \/ EventsExitThread
             \/ \E r \in Reconnectors : EventsRunReconnect(r)
      PROVE  VisibleStep /\ SideStep /\ OpenInv'
  <2> DEFINE runs == core = "up"
  <2>1. /\ PublishDisconnected(runs) /\ om' = IF runs THEN "none" ELSE om'
        /\ UNCHANGED <<generation, started, stop_requested, closed, clientVars, capturing>>
        /\ sequence' = IF runs THEN SequenceAfterDisconnect ELSE sequence
        /\ om' = "none" \/ (~ runs /\ om' = om)
    BY <1>4 DEF EventsExitThread, ExitThread, EventsRunReconnect, RunReconnect, stopVars
  <2>2. om' = "none"
    BY <1>1, <2>1 DEF ConnInv, GenerationInv, Shape
  <2>3. runs \in BOOLEAN
    OBVIOUS
  <2> HIDE DEF runs
  <2>4. VisibleStep /\ world' \in View
    BY <2>1, <2>2, <2>3, DisconnectCase
  <2> QED
    BY <1>1, <2>1, <2>2, <2>4 DEF OpenInv, SideStep
<1>5. CASE EventsOmInstalled
  <2> DEFINE e == StateEvent(generation + 1, 1)
  <2>1. e \in Event /\ e.generation = generation + 1 /\ e.sequence = 1
    BY <1>1, EventKinds
  <2>2. /\ buffer' = enqueue(buffer, e) /\ Woken
        /\ generation' = generation + 1 /\ sequence' = 1 /\ started'
        /\ UNCHANGED <<world, closed, capturing, stop_requested>>
    BY <1>5 DEF EventsOmInstalled, OmInstalled, Publish, Woken, stopVars
  <2> HIDE DEF e
  <2>3. Succeeds(e, Now) /\ SamePosition(e, Now') /\ e.generation # generation
    BY <1>1, <2>1, <2>2 DEF Succeeds, SamePosition, Now
  <2>4. PublishedOne(e)
    BY <2>2, <2>3 DEF PublishedOne
  <2> QED
    BY <1>1, <2>1, <2>2, <2>4 DEF VisibleStep, SideStep, OpenInv
<1>6. CASE EventsDealloc
  <2>1. /\ closed' = TRUE /\ stop_requested' = TRUE /\ client # "waiting"
        /\ UNCHANGED <<generation, sequence, om, started, world, buffer, asleep, projection,
                       snapshot, capturing>>
        /\ client' = "gone"
    BY <1>6 DEF EventsDealloc, Dealloc
  <2>2. Silent
    BY <2>1 DEF Silent, Blind, clientVars
  <2> QED
    BY <1>1, <2>1, <2>2 DEF VisibleStep, SideStep, OpenInv
<1>7. CASE EventsRunStop
  <2> DEFINE e == StateEvent(generation, sequence + 1)
  <2>1. e \in Event /\ e.generation = generation /\ e.sequence = sequence + 1
    BY <1>1, EventKinds
  <2>2. /\ buffer' = enqueue(buffer, e) /\ Woken /\ closed' = TRUE
        /\ generation' = generation /\ sequence' = sequence + 1
        /\ om' = "none" \/ om' = om
        /\ UNCHANGED <<started, stop_requested, capturing>>
        /\ world' = Absent \/ world' = world
    BY <1>7 DEF EventsRunStop, RunStop, Woken, stopVars
  <2> HIDE DEF e
  <2>3. stop_requested
    <3>1. stopper \in {"joining", "joined"}
      BY <1>1, <1>7, StopPostedHead DEF EventsRunStop, RunStop, NextSource
    <3> QED
      BY <1>1, <3>1 DEF LifeInv
  <2>4. Absent \in View
    BY NothingIsRecord DEF Absent, View
  <2>5. Succeeds(e, Now) /\ SamePosition(e, Now')
    BY <2>1, <2>2, NextPosition DEF SamePosition, Now
  <2>6. PublishedOne(e)
    BY <2>2, <2>3, <2>5 DEF PublishedOne, Blind
  <2> QED
    BY <1>1, <2>1, <2>2, <2>3, <2>4, <2>6 DEF VisibleStep, SideStep, OpenInv
<1>8. CASE ObjectStep
  <2>1. UNCHANGED <<closed, om, stop_requested, started>>
    BY <1>8 DEF ObjectStep, RecordChanged, SilentChange, ObjectRemoved, MetadataChanged,
       ParameterNotCopied, Watched, lifeVars, stopVars
  <2> QED
    BY <1>1, <1>8, <2>1, ObjectVisible DEF OpenInv
<1>9. CASE ClientCaptured \/ \E k \in Capturers : OtherCaptured(k)
  BY <1>1, <1>9, CaptureVisible DEF OpenInv
<1>10. ASSUME NEW k \in Capturers \cup {Client}, CaptureFailed(k)
       PROVE  VisibleStep /\ SideStep /\ OpenInv'
  <2>1. k = Client => client = "capturing"
    BY <1>1, <1>10, CapturingAtHead DEF CaptureFailed
  <2>2. /\ UNCHANGED <<lifeVars, generation, sequence, stopVars, world, buffer, closed, asleep,
                       projection, snapshot>>
        /\ capturing' \subseteq Capturers
        /\ UNCHANGED client \/ (client = "capturing" /\ client' = "failed")
    BY <1>1, <1>10, <2>1 DEF CaptureFailed
  <2>3. Silent
    BY <2>2 DEF Silent, Blind, lifeVars, stopVars
  <2> QED
    BY <1>1, <2>2, <2>3 DEF VisibleStep, SideStep, OpenInv, lifeVars, stopVars
<1>11. CASE Resnapshot
  <2>1. Silent
    BY <1>11 DEF Silent, Blind, Resnapshot, lifeVars, stopVars
  <2> QED
    BY <1>1, <1>11, <2>1 DEF VisibleStep, SideStep, OpenInv, Resnapshot, lifeVars, stopVars
<1>12. CASE DrainAndApply \/ ProjectNextEvent \/ WaitForEvent
  BY <1>1, <1>12 DEF VisibleStep, SideStep, OpenInv, DrainAndApply, ProjectNextEvent,
     WaitForEvent, connVars, lifeVars, stopVars
<1>13. ASSUME NEW k \in Capturers, OtherPosts(k)
       PROVE  VisibleStep /\ SideStep /\ OpenInv'
  <2>1. Silent
    BY <1>13 DEF Silent, Blind, OtherPosts, lifeVars, stopVars, clientVars
  <2> QED
    BY <1>1, <1>13, <2>1 DEF VisibleStep, SideStep, OpenInv, OtherPosts, lifeVars, stopVars
<1>14. CASE UNCHANGED vars
  <2>1. Silent
    BY <1>14 DEF Silent, Blind, vars, connVars, eventVars, clientVars, lifeVars, stopVars
  <2> QED
    BY <1>1, <1>14, <2>1 DEF VisibleStep, SideStep, OpenInv, vars, connVars, eventVars,
       lifeVars, stopVars
<1>15. RunEventSource => \/ EventsRunStop \/ \E r \in Reconnectors : EventsRunReconnect(r)
                         \/ ClientCaptured \/ \E k \in Capturers : OtherCaptured(k)
                         \/ \E k \in Capturers \cup {Client} : CaptureFailed(k)
  BY DEF RunEventSource
<1>16. ClientStep => Resnapshot \/ DrainAndApply \/ ProjectNextEvent \/ WaitForEvent
  BY DEF ClientStep
<1> QED
  BY <1>2, <1>3, <1>4, <1>5, <1>6, <1>7, <1>8, <1>9, <1>10, <1>11, <1>12, <1>13, <1>14,
     <1>15, <1>16 DEF NextEvents

-----------------------------------------------------------------------------
(* Reading the first event. *)
LEMMA TailOK ==
    ASSUME NEW b \in Buffer, NEW n, BufferOK(b, n), b.events # <<>>,
           NEW c, c = [b EXCEPT !.events = Tail(@)]
    PROVE  /\ c \in Buffer /\ BufferOK(c, n)
           /\ c.events = Tail(b.events) /\ c.invalid = b.invalid
<1> DEFINE es == b.events
<1>1. es \in Seq(Event) /\ b.invalid \in BOOLEAN
  BY PositionTypes
<1>2. /\ c.events = Tail(es) /\ c.invalid = b.invalid
      /\ c = [events |-> Tail(es), invalid |-> b.invalid]
  BY DEF Buffer
<1>3. /\ Tail(es) \in Seq(Event) /\ Len(Tail(es)) = Len(es) - 1 /\ Len(es) \in Nat /\ Len(es) >= 1
      /\ \A i \in 1..Len(Tail(es)) : i + 1 \in 1..Len(es) /\ Tail(es)[i] = es[i + 1]
      /\ Tail(es) # <<>> => Tail(es)[Len(Tail(es))] = es[Len(es)]
  BY <1>1, TailFacts
<1>4. c \in Buffer
  BY <1>1, <1>2, <1>3 DEF Buffer
<1> DEFINE t == Tail(es)
<1>5. /\ t \in Seq(Event) /\ Len(t) = Len(es) - 1 /\ Len(es) \in Nat /\ Len(es) >= 1
      /\ \A i \in 1..Len(t) : i + 1 \in 1..Len(es) /\ t[i] = es[i + 1]
      /\ t # <<>> => t[Len(t)] = es[Len(es)]
  BY <1>3
<1>6. c.events = t
  BY <1>2
<1> HIDE DEF t
<1>7. Capacity \in Nat
  BY EventsAssumption
<1>8. \A i \in 1..Len(t) : ~ Earlier(n, t[i])
  BY <1>5 DEF BufferOK
<1>9. \A i, j \in 1..Len(t) : i < j => Earlier(t[i], t[j])
  <2>1. ASSUME NEW i \in 1..Len(t), NEW j \in 1..Len(t), i < j PROVE Earlier(t[i], t[j])
    <3>1. i + 1 \in 1..Len(es) /\ j + 1 \in 1..Len(es) /\ i + 1 < j + 1
      BY <1>5, <2>1
    <3>2. Earlier(es[i + 1], es[j + 1])
      BY <3>1 DEF BufferOK
    <3> QED
      BY <1>5, <3>2
  <2> QED
    BY <2>1
<1>10. \A i \in 1..Len(t) - 1 : Succeeds(t[i + 1], t[i])
  <2>1. ASSUME NEW i \in 1..Len(t) - 1 PROVE Succeeds(t[i + 1], t[i])
    <3>1. i \in 1..Len(t) /\ i + 1 \in 1..Len(t) /\ i + 1 \in 1..Len(es) - 1
      BY <1>5, <2>1
    <3>2. Succeeds(es[(i + 1) + 1], es[i + 1])
      BY <3>1 DEF BufferOK
    <3> QED
      BY <1>5, <3>1, <3>2
  <2> QED
    BY <2>1
<1>11. BufferOK(c, n)
  <2>1. Len(t) <= Capacity /\ (b.invalid => Len(t) <= 1)
    BY <1>5, <1>7 DEF BufferOK
  <2>2. (t # <<>> /\ ~ b.invalid /\ ~ closed) => SamePosition(t[Len(t)], n)
    BY <1>5 DEF BufferOK
  <2> QED
    BY <1>2, <1>6, <1>8, <1>9, <1>10, <2>1, <2>2 DEF BufferOK
<1> QED
  BY <1>2, <1>4, <1>11

LEMMA ApplyFacts ==
    ASSUME NEW p \in Snapshot, NEW e \in Event, Follows(e, p)
    PROVE  /\ apply(p, e) \in Snapshot
           /\ apply(p, e).generation = e.generation /\ apply(p, e).sequence = e.sequence
           /\ apply(p, e).generation = p.generation /\ apply(p, e).sequence = p.sequence + 1
           /\ \A o \in Objects : apply(p, e).objects[o] =
                                    IF e.object = o THEN e.record ELSE p.objects[o]
<1> DEFINE v == IF e.object = NoObject THEN p.objects
                ELSE [p.objects EXCEPT ![e.object] = e.record]
<1>1. /\ p.generation \in Nat /\ p.sequence \in Nat /\ p.objects \in View
      /\ e.generation \in Nat /\ e.sequence \in Nat /\ e.record \in Record
      /\ e.object \in Objects \cup {NoObject}
  BY DEF Snapshot, Event
<1>2. NoObject \notin Objects
  BY EventsAssumption
<1>3. v \in View /\ \A o \in Objects : v[o] = IF e.object = o THEN e.record ELSE p.objects[o]
  BY <1>1, <1>2 DEF View
<1>4. apply(p, e) = [generation |-> p.generation, sequence |-> e.sequence, objects |-> v]
  BY DEF apply
<1> HIDE DEF v
<1> QED
  BY <1>1, <1>3, <1>4 DEF Snapshot, Follows

LEMMA ReadPlaced ==
    ASSUME NEW p \in Snapshot, NEW b \in Buffer, NEW n, BufferOK(b, n), Placed(p, b, n),
           b.events # <<>>, Follows(Head(b.events), p),
           NEW c, c = [b EXCEPT !.events = Tail(@)]
    PROVE  Placed(apply(p, Head(b.events)), c, n) /\ ~ b.invalid
<1> DEFINE es == b.events  h == Head(es)  q == apply(p, h)  t == Tail(es)
<1>1. es \in Seq(Event)
  BY PositionTypes
<1>2. /\ h \in Event /\ h = es[1] /\ 1 \in 1..Len(es) /\ Len(es) \in Nat
      /\ \A i \in 1..Len(t) : i + 1 \in 1..Len(es) /\ t[i] = es[i + 1]
  BY <1>1, TailFacts
<1>3. c.events = t /\ c.invalid = b.invalid /\ b.invalid \in BOOLEAN
  BY TailOK, PositionTypes
<1>4. ~ b.invalid
  BY <1>2 DEF Placed, Follows
<1>5. SamePosition(q, h)
  BY <1>2, ApplyFacts DEF SamePosition
<1> HIDE DEF q, h, t
<1>6. ~ Earlier(n, q)
  BY <1>2, <1>5 DEF BufferOK, SamePosition, Earlier
<1>7. ASSUME NEW i \in 1..Len(t) PROVE Earlier(q, t[i])
  <2>1. i + 1 \in 1..Len(es) /\ 1 < i + 1 /\ t[i] = es[i + 1]
    BY <1>2, <1>7
  <2>2. Earlier(h, t[i])
    BY <1>2, <2>1 DEF BufferOK
  <2> QED
    BY <1>5, <2>2 DEF SamePosition, Earlier
<1>8. Placed(q, c, n)
  BY <1>3, <1>4, <1>6, <1>7 DEF Placed
<1> QED
  BY <1>4, <1>8 DEF q, h

LEMMA ReadFaithful ==
    ASSUME NEW p \in Snapshot, NEW b \in Buffer, NEW n, NEW w, Faithful(p, b, n, w),
           b.events # <<>>, Follows(Head(b.events), p),
           NEW c, c.events = Tail(b.events)
    PROVE  Faithful(apply(p, Head(b.events)), c, n, w)
<1> DEFINE es == b.events  h == Head(es)  q == apply(p, h)  t == Tail(es)
<1>1. es \in Seq(Event)
  BY PositionTypes
<1>2. /\ h \in Event /\ h = es[1] /\ 1 \in 1..Len(es) /\ Len(es) \in Nat /\ Len(es) >= 1
      /\ Len(t) = Len(es) - 1
      /\ \A i \in 1..Len(t) : i + 1 \in 1..Len(es) /\ t[i] = es[i + 1]
      /\ \A i \in 1..Len(es) : i # 1 => i - 1 \in 1..Len(t) /\ t[i - 1] = es[i]
  BY <1>1, TailFacts
<1>3. /\ q \in Snapshot
      /\ q.generation = p.generation /\ q.sequence = p.sequence + 1
      /\ \A o \in Objects : q.objects[o] = IF h.object = o THEN h.record ELSE p.objects[o]
  BY <1>2, ApplyFacts
<1>4. /\ h.generation = p.generation /\ h.sequence = p.sequence + 1
      /\ ~ h.requires_resnapshot /\ p.sequence \in Nat
  BY DEF Follows, Snapshot
<1>5. c.events = t
  OBVIOUS
<1> HIDE DEF q, h, t
<1>6. SUFFICES ASSUME Run(q, t), q.generation = n.generation,
                      q.sequence + Len(t) = n.sequence, NEW o \in Objects
               PROVE  Told(q, t, o, w)
  BY <1>5 DEF Faithful, q, h
<1>7. Run(p, es)
  <2>1. \A i \in 1..Len(t) : /\ t[i].generation = q.generation
                             /\ t[i].sequence = q.sequence + i
                             /\ ~ t[i].requires_resnapshot
    BY <1>2, <1>3, <1>6, RunAt
  <2>2. ASSUME NEW i \in 1..Len(es)
        PROVE  /\ es[i].generation = p.generation /\ es[i].sequence = p.sequence + i
               /\ ~ es[i].requires_resnapshot
    <3>1. CASE i = 1
      BY <1>2, <1>4, <3>1
    <3>2. CASE i # 1
      <4>1. i - 1 \in 1..Len(t) /\ t[i - 1] = es[i]
        BY <1>2, <3>2
      <4>2. q.sequence + (i - 1) = p.sequence + i
        BY <1>3, <1>4
      <4> QED
        BY <1>3, <2>1, <4>1, <4>2
    <3> QED
      BY <3>1, <3>2
  <2> QED
    BY <1>2, <2>2, RunAt
<1>8. Told(p, es, o, w)
  <2>1. p.generation = n.generation /\ p.sequence + Len(es) = n.sequence
    <3>1. q.sequence = p.sequence + 1 /\ q.generation = p.generation
      BY <1>3
    <3>2. Len(t) = Len(es) - 1 /\ Len(es) \in Nat /\ p.sequence \in Nat
      BY <1>2, <1>4
    <3>3. q.generation = n.generation /\ q.sequence + Len(t) = n.sequence
      BY <1>6
    <3> QED
      BY <3>1, <3>2, <3>3
  <2> QED
    BY <1>7, <2>1 DEF Faithful
<1>9. CASE (\A i \in 1..Len(es) : es[i].object # o) /\ Tracks(o, p.objects[o], w[o])
  <2>1. h.object # o
    BY <1>2, <1>9
  <2>2. \A i \in 1..Len(t) : t[i].object # o
    BY <1>2, <1>9
  <2>3. q.objects[o] = p.objects[o]
    BY <1>3, <2>1
  <2> QED
    BY <1>9, <2>2, <2>3 DEF Told
<1>10. ASSUME NEW i \in 1..Len(es), es[i].object = o, Tracks(o, es[i].record, w[o]),
              \A j \in 1..Len(es) : i < j => es[j].object # o
       PROVE  Told(q, t, o, w)
  <2>1. CASE i = 1
    <3>1. \A k \in 1..Len(t) : t[k].object # o
      BY <1>2, <1>10, <2>1
    <3>2. Tracks(o, q.objects[o], w[o])
      BY <1>2, <1>3, <1>10, <2>1
    <3> QED
      BY <3>1, <3>2 DEF Told
  <2>2. CASE i # 1
    <3>1. i - 1 \in 1..Len(t) /\ t[i - 1] = es[i]
      BY <1>2, <2>2
    <3>2. ASSUME NEW j \in 1..Len(t), i - 1 < j PROVE t[j].object # o
      <4>1. j + 1 \in 1..Len(es) /\ t[j] = es[j + 1] /\ i < j + 1
        BY <1>2, <3>2
      <4> QED
        BY <1>10, <4>1
    <3> QED
      BY <1>10, <3>1, <3>2 DEF Told
  <2> QED
    BY <2>1, <2>2
<1> QED
  BY <1>8, <1>9, <1>10 DEF Told

-----------------------------------------------------------------------------
(* Draining after a capture. *)

(* A nonempty set of positions in a queue has a newest one.  The finite      *)
(* intervals that end where the queue ends are well-founded under inclusion. *)
LEMMA Newest ==
    ASSUME NEW n \in Nat, NEW S \in SUBSET (1..n), S # {}
    PROVE  \E i \in S : \A j \in S : j <= i
<1> DEFINE T == {i..n : i \in S}
           R == StrictSubsetOrdering(Nat)
<1>1. IsWellFoundedOn(R, FiniteSubsetsOf(Nat))
  BY FS_StrictSubsetOrderingWellFounded
<1>2. T \subseteq FiniteSubsetsOf(Nat) /\ T # {}
  <2>1. \A i \in S : i..n \in SUBSET Nat /\ IsFiniteSet(i..n)
    BY FS_Interval
  <2> QED
    BY <2>1 DEF FiniteSubsetsOf
<1> HIDE DEF T, R
<1>3. PICK x \in T : \A y \in T : <<y, x>> \notin R
  BY <1>1, <1>2, WFMin
<1>4. PICK i \in S : x = i..n
  BY <1>3 DEF T
<1>5. ASSUME NEW j \in S, i < j PROVE FALSE
  <2>1. j..n \in T
    BY DEF T
  <2>2. j..n \subseteq i..n /\ i \in i..n /\ i \notin j..n
    BY <1>5
  <2>3. <<j..n, x>> \in R
    BY <1>4, <2>2 DEF R, StrictSubsetOrdering
  <2> QED
    BY <1>3, <2>1, <2>3
<1> QED
  BY <1>5

(* After a capture every queued event is a racing one. *)
LEMMA AllRace ==
    ASSUME NEW p \in Snapshot, NEW b \in Buffer, NEW n, Placed(p, b, n)
    PROVE  /\ RacingEvents(p, b.events) = 1..Len(b.events)
           /\ Consecutive(p, b.events) <=> Run(p, b.events)
<1> DEFINE es == b.events
<1>1. Len(es) \in Nat /\ Position(p) /\ \A i \in 1..Len(es) : Position(es[i])
  BY PositionTypes
<1>2. \A i \in 1..Len(es) : Later(es[i], p)
  BY <1>1 DEF Placed, Later, Earlier, Position
<1>3. RacingEvents(p, es) = 1..Len(es)
  BY <1>2 DEF RacingEvents
<1>4. ASSUME NEW i \in 1..Len(es)
      PROVE  Cardinality({j \in 1..Len(es) : j < i}) = i - 1
  <2>1. {j \in 1..Len(es) : j < i} = 1..(i - 1)
    BY <1>1
  <2>2. Cardinality(1..(i - 1)) = i - 1
    BY FS_Interval
  <2> QED
    BY <2>1, <2>2
<1>5. ASSUME NEW i \in 1..Len(es), NEW k \in Nat, k = i - 1
      PROVE  Follows(es[i], [p EXCEPT !.sequence = @ + k])
                <=> /\ es[i].generation = p.generation
                    /\ es[i].sequence = p.sequence + i
                    /\ ~ es[i].requires_resnapshot
  <2> DEFINE q == [p EXCEPT !.sequence = @ + k]
  <2>1. p.sequence \in Nat /\ i \in Nat
    BY DEF Snapshot
  <2>2. q.generation = p.generation /\ q.sequence = p.sequence + k
    BY DEF Snapshot
  <2>3. q.sequence + 1 = p.sequence + i
    BY <1>5, <2>1, <2>2
  <2> HIDE DEF q
  <2> QED
    BY <2>2, <2>3 DEF Follows
<1>6. Consecutive(p, es) <=>
        \A i \in 1..Len(es) : Follows(es[i], [p EXCEPT !.sequence = @ + (i - 1)])
  <2>1. Consecutive(p, es) <=>
          \A i \in 1..Len(es) :
             Follows(es[i], [p EXCEPT !.sequence = @ + Cardinality({j \in 1..Len(es) : j < i})])
    BY <1>3 DEF Consecutive
  <2> QED
    BY <1>4, <2>1
<1>7. \A i \in 1..Len(es) : i - 1 \in Nat
  BY <1>1
<1>8. Consecutive(p, es) <=>
        \A i \in 1..Len(es) : /\ es[i].generation = p.generation
                              /\ es[i].sequence = p.sequence + i
                              /\ ~ es[i].requires_resnapshot
  BY <1>5, <1>6, <1>7
<1> QED
  BY <1>1, <1>3, <1>8, RunAt

LEMMA ApplyAllFacts ==
    ASSUME NEW p \in Snapshot, NEW b \in Buffer, NEW n, Placed(p, b, n)
    PROVE  LET q == ApplyAll(p, b.events) IN
           /\ q \in Snapshot
           /\ q.generation = p.generation /\ q.sequence = p.sequence + Len(b.events)
           /\ \A o \in Objects : \A w : Told(p, b.events, o, w) => Tracks(o, q.objects[o], w[o])
<1> DEFINE es == b.events  L == Len(es)
           about(o) == {i \in 1..L : es[i].object = o}
           newest(o) == CHOOSE i \in about(o) : \A j \in about(o) : j <= i
           v == [o \in Objects |-> IF about(o) = {} THEN p.objects[o]
                                   ELSE es[newest(o)].record]
<1>1. /\ L \in Nat /\ \A i \in 1..L : es[i] \in Event
      /\ p.generation \in Nat /\ p.sequence \in Nat /\ p.objects \in View
  BY PositionTypes DEF Snapshot
<1>2. ApplyAll(p, es) = [generation |-> p.generation, sequence |-> p.sequence + L, objects |-> v]
  <2> DEFINE told(S) == [o \in Objects |->
                LET a == {i \in S : es[i].object = o}
                IN IF a = {} THEN p.objects[o]
                   ELSE es[CHOOSE i \in a : \A j \in a : j <= i].record]
             racing == RacingEvents(p, es)
  <2>1. racing = 1..L
    BY AllRace
  <2>2. \A k \in Nat : Cardinality(1..k) = k
    BY FS_Interval
  <2>3. Cardinality(racing) = L
    BY <1>1, <2>1, <2>2
  <2>4. ApplyAll(p, es) = [generation |-> p.generation,
                           sequence |-> p.sequence + Cardinality(racing),
                           objects |-> told(racing)]
    BY DEF ApplyAll
  <2>5. v = told(1..L)
    OBVIOUS
  <2> HIDE DEF told, racing, v
  <2> QED
    BY <2>1, <2>3, <2>4, <2>5
<1>3. ASSUME NEW o \in Objects, about(o) # {}
      PROVE  newest(o) \in about(o) /\ \A j \in about(o) : j <= newest(o)
  <2>1. about(o) \in SUBSET (1..L)
    OBVIOUS
  <2>2. \E i \in about(o) : \A j \in about(o) : j <= i
    BY <1>1, <1>3, <2>1, Newest
  <2> QED
    BY <2>2
<1>4. v \in View
  <2>1. ASSUME NEW o \in Objects PROVE v[o] \in Record
    <3>1. CASE about(o) = {}
      BY <1>1, <3>1 DEF View
    <3>2. CASE about(o) # {}
      <4>1. newest(o) \in 1..L
        BY <1>3, <3>2
      <4>2. es[newest(o)].record \in Record
        BY <1>1, <4>1 DEF Event
      <4> QED
        BY <3>2, <4>2
    <3> QED
      BY <3>1, <3>2
  <2> QED
    BY <2>1 DEF View
<1>5. ASSUME NEW o \in Objects, NEW w, Told(p, es, o, w) PROVE Tracks(o, v[o], w[o])
  <2>1. CASE (\A i \in 1..L : es[i].object # o) /\ Tracks(o, p.objects[o], w[o])
    BY <2>1
  <2>2. ASSUME NEW i \in 1..L, es[i].object = o, Tracks(o, es[i].record, w[o]),
               \A j \in 1..L : i < j => es[j].object # o
        PROVE  Tracks(o, v[o], w[o])
    <3>1. i \in about(o)
      BY <2>2
    <3>2. newest(o) \in 1..L /\ es[newest(o)].object = o /\ i <= newest(o)
      BY <1>3, <3>1
    <3>3. newest(o) = i
      BY <1>1, <2>2, <3>2
    <3> QED
      BY <2>2, <3>1, <3>3
  <2> QED
    BY <1>5, <2>1, <2>2 DEF Told
<1> HIDE DEF v
<1>6. p.sequence + L \in Nat
  BY <1>1
<1> QED
  BY <1>1, <1>2, <1>4, <1>5, <1>6 DEF Snapshot

(* What the client is left with. *)
LEMMA DrainOK ==
    ASSUME NEW b \in Buffer, NEW n, BufferOK(b, n),
           NEW c, c = [b EXCEPT !.events = <<>>]
    PROVE  /\ c \in Buffer /\ BufferOK(c, n)
           /\ c.events = <<>> /\ c.invalid = b.invalid
<1>1. b.events \in Seq(Event) /\ b.invalid \in BOOLEAN
  BY PositionTypes
<1>2. c = [events |-> <<>>, invalid |-> b.invalid] /\ c.events = <<>> /\ c.invalid = b.invalid
  BY DEF Buffer
<1>3. c \in Buffer
  <2>1. <<>> \in Seq(Event)
    OBVIOUS
  <2>2. \A x \in BOOLEAN : [events |-> <<>>, invalid |-> x] \in Buffer
    BY <2>1 DEF Buffer
  <2> QED
    BY <1>1, <1>2, <2>2
<1>4. Len(c.events) = 0 /\ Capacity \in Nat
  BY <1>2, EventsAssumption
<1>5. BufferOK(c, n)
  BY <1>2, <1>4 DEF BufferOK
<1> QED
  BY <1>2, <1>3, <1>5

LEMMA DrainBase ==
    ASSUME NEW p \in Snapshot, NEW b \in Buffer, NEW n, Position(n), BufferOK(b, n),
           Placed(p, b, n), Consecutive(p, b.events),
           NEW c, c = [b EXCEPT !.events = <<>>]
    PROVE  LET q == ApplyAll(p, b.events) IN
           /\ Placed(q, c, n) /\ ~ b.invalid
           /\ \A w : Faithful(p, b, n, w) => Faithful(q, c, n, w)
<1> DEFINE es == b.events  L == Len(es)  q == ApplyAll(p, es)
<1>1. /\ q \in Snapshot /\ q.generation = p.generation /\ q.sequence = p.sequence + L
      /\ \A o \in Objects : \A w : Told(p, es, o, w) => Tracks(o, q.objects[o], w[o])
  BY ApplyAllFacts
<1>2. c.events = <<>> /\ c.invalid = b.invalid /\ b.invalid \in BOOLEAN
  BY DrainOK, PositionTypes
<1>3. Run(p, es) /\ L \in Nat /\ Position(p)
  BY AllRace, PositionTypes
<1>4. \A i \in 1..L : /\ es[i].generation = p.generation /\ es[i].sequence = p.sequence + i
                      /\ ~ es[i].requires_resnapshot
  BY <1>3, RunAt
<1>5. ~ b.invalid
  <2>1. es # <<>> => 1 \in 1..L
    BY PositionTypes
  <2> QED
    BY <1>4, <2>1 DEF Placed
<1> HIDE DEF q
<1>6. ~ Earlier(n, q)
  <2>1. CASE L = 0
    BY <1>1, <1>3, <2>1 DEF Placed, Earlier, Position
  <2>2. CASE L # 0
    <3>1. L \in 1..L
      BY <1>3, <2>2
    <3>2. SamePosition(es[L], q) /\ ~ Earlier(n, es[L])
      BY <1>1, <1>4, <3>1 DEF SamePosition, BufferOK
    <3> QED
      BY <3>2 DEF SamePosition, Earlier
  <2> QED
    BY <2>1, <2>2
<1>7. Placed(q, c, n)
  BY <1>2, <1>5, <1>6 DEF Placed
<1>8. ASSUME NEW w, Faithful(p, b, n, w) PROVE Faithful(q, c, n, w)
  <2>1. Len(c.events) = 0
    BY <1>2
  <2>2. SUFFICES ASSUME q.generation = n.generation, q.sequence + 0 = n.sequence,
                        NEW o \in Objects
                 PROVE  Told(q, c.events, o, w)
    BY <2>1 DEF Faithful
  <2>3. p.generation = n.generation /\ p.sequence + L = n.sequence
    <3>1. q.sequence = p.sequence + L /\ q.generation = p.generation /\ p.sequence \in Nat
      BY <1>1, <1>3 DEF Position
    <3> QED
      BY <1>3, <2>2, <3>1
  <2>4. Told(p, es, o, w)
    BY <1>3, <1>8, <2>3 DEF Faithful
  <2>5. Tracks(o, q.objects[o], w[o])
    BY <1>1, <2>4
  <2> QED
    BY <2>1, <2>5 DEF Told
<1> QED
  BY <1>5, <1>7, <1>8 DEF q

LEMMA ReadContinues ==
    ASSUME NEW p \in Snapshot, NEW b \in Buffer, NEW n, BufferOK(b, n), Placed(p, b, n),
           b.events # <<>>, Follows(Head(b.events), p),
           NEW c, c = [b EXCEPT !.events = Tail(@)]
    PROVE  Continues(apply(p, Head(b.events)), c, n)
<1> DEFINE es == b.events  h == Head(es)  q == apply(p, h)  t == Tail(es)
<1>1. es \in Seq(Event)
  BY PositionTypes
<1>2. /\ h \in Event /\ h = es[1] /\ 1 \in 1..Len(es) /\ Len(es) \in Nat
      /\ t # <<>> => 2 \in 1..Len(es) /\ t[1] = es[2]
      /\ t = <<>> => Len(es) = 1
  BY <1>1, TailFacts
<1>3. c.events = t /\ ~ b.invalid
  BY TailOK, ReadPlaced
<1>4. SamePosition(q, h)
  BY <1>2, ApplyFacts DEF SamePosition
<1> HIDE DEF q, h, t
<1>5. ASSUME t = <<>>, ~ closed PROVE SamePosition(q, n)
  <2>1. SamePosition(es[1], n)
    BY <1>2, <1>3, <1>5 DEF BufferOK
  <2> QED
    BY <1>2, <1>4, <2>1 DEF SamePosition
<1>6. ASSUME t # <<>> PROVE Succeeds(t[1], q)
  <2>1. Succeeds(es[1 + 1], es[1])
    <3>1. 1 \in 1..Len(es) - 1
      BY <1>2, <1>6
    <3> QED
      BY <3>1 DEF BufferOK
  <2> QED
    BY <1>2, <1>4, <1>6, <2>1 DEF SamePosition, Succeeds
<1>7. Continues(q, c, n)
  BY <1>3, <1>5, <1>6 DEF Continues
<1> QED
  BY <1>7 DEF q, h

LEMMA DrainContinues ==
    ASSUME NEW p \in Snapshot, NEW b \in Buffer, NEW n, Position(n), BufferOK(b, n),
           Placed(p, b, n), Continues(p, b, n), Consecutive(p, b.events),
           NEW c, c = [b EXCEPT !.events = <<>>]
    PROVE  Continues(ApplyAll(p, b.events), c, n)
<1> DEFINE es == b.events  L == Len(es)  q == ApplyAll(p, es)
<1>1. q.generation = p.generation /\ q.sequence = p.sequence + L
  BY ApplyAllFacts
<1>2. c.events = <<>> /\ ~ b.invalid
  BY DrainOK, DrainBase
<1>3. Run(p, es) /\ L \in Nat /\ Position(p) /\ es \in Seq(Event)
  BY AllRace, PositionTypes
<1> HIDE DEF q
<1>4. ASSUME ~ closed PROVE SamePosition(q, n)
  <2>1. CASE es = <<>>
    <3>1. L = 0 /\ SamePosition(p, n)
      BY <1>4, <2>1 DEF Continues
    <3> QED
      BY <1>1, <1>3, <3>1 DEF SamePosition, Position
  <2>2. CASE es # <<>>
    <3>1. L \in 1..L
      BY <1>3, <2>2
    <3>2. es[L].generation = p.generation /\ es[L].sequence = p.sequence + L
      BY <1>3, <3>1, RunAt
    <3>3. SamePosition(es[L], n)
      BY <1>2, <1>4, <2>2 DEF BufferOK
    <3> QED
      BY <1>1, <3>2, <3>3 DEF SamePosition
  <2> QED
    BY <2>1, <2>2
<1>5. Continues(q, c, n)
  BY <1>2, <1>4 DEF Continues
<1> QED
  BY <1>5 DEF q

-----------------------------------------------------------------------------
(* What a step leaves of the queue, of its reader and of the client.         *)
After ==
    /\ closed' \in BOOLEAN /\ asleep' \in BOOLEAN /\ buffer' \in Buffer
    /\ client' \in {"new", "ready", "resync", "failed", "capturing", "captured",
                    "waiting", "closed", "gone"}
    /\ projection' \in Snapshot /\ snapshot' \in Snapshot
    /\ BufferOK(buffer, Now)' /\ ReaderInv' /\ BaseInv'

LEMMA EventsParts ==
    ASSUME EventsInv
    PROVE  /\ Position(Now) /\ generation \in Nat /\ sequence \in Nat
           /\ buffer \in Buffer /\ BufferOK(buffer, Now)
           /\ closed \in BOOLEAN /\ asleep \in BOOLEAN
           /\ client \in {"new", "ready", "resync", "failed", "capturing", "captured",
                          "waiting", "closed", "gone"}
           /\ projection \in Snapshot /\ snapshot \in Snapshot /\ world \in View
           /\ ReaderInv /\ OpenInv /\ BaseInv
  BY PositionTypes DEF EventsInv, EventsShape, ConnInv, Shape

(* Equal positions can be exchanged. *)
LEMMA EqualPositions ==
    ASSUME NEW m, NEW n, SamePosition(m, n), NEW b
    PROVE  /\ BufferOK(b, m) => BufferOK(b, n)
           /\ \A p : Placed(p, b, m) => Placed(p, b, n)
           /\ \A p, w : Faithful(p, b, m, w) => Faithful(p, b, n, w)
           /\ \A p : Continues(p, b, m) => Continues(p, b, n)
<1>1. BufferOK(b, m) => BufferOK(b, n)
  BY DEF SamePosition, BufferOK, Earlier
<1>2. \A p : Placed(p, b, m) => Placed(p, b, n)
  BY DEF SamePosition, Placed, Earlier
<1>3. \A p, w : Faithful(p, b, m, w) => Faithful(p, b, n, w)
  BY DEF SamePosition, Faithful
<1>4. \A p : Continues(p, b, m) => Continues(p, b, n)
  BY DEF SamePosition, Continues
<1> QED
  BY <1>1, <1>2, <1>3, <1>4

(* Publication can only close. *)
LEMMA QueueAfter ==
    ASSUME closed => closed', BufferOK(buffer', Now')
    PROVE  BufferOK(buffer, Now)'
  BY DEF BufferOK

LEMMA SilentAfter ==
    ASSUME EventsInv, Silent, world' \in View PROVE After
<1> USE EventsParts DEF Silent
<1>1. /\ closed' \in BOOLEAN /\ asleep' \in BOOLEAN /\ buffer' \in Buffer
      /\ client' \in {"new", "ready", "resync", "failed", "capturing", "captured",
                      "waiting", "closed", "gone"}
      /\ projection' \in Snapshot /\ snapshot' \in Snapshot
  OBVIOUS
<1>2. BufferOK(buffer, Now)'
  <2>1. Now' = Now
    BY DEF Now
  <2> QED
    BY <2>1, QueueAfter
<1>3. ReaderInv'
  BY DEF ReaderInv
<1>4. BaseInv'
  <2>1. Now' = Now
    BY DEF Now
  <2>2. ASSUME Base(projection), UNCHANGED client PROVE Base(projection)'
    BY <2>1, <2>2, FaithfulKept DEF Base, Untold
  <2>3. ASSUME Base(snapshot), UNCHANGED client PROVE Base(snapshot)'
    BY <2>1, <2>3, FaithfulKept DEF Base, Untold
  <2> QED
    BY <2>2, <2>3 DEF BaseInv, AtRest
<1> QED
  BY <1>1, <1>2, <1>3, <1>4 DEF After

(* A reader that publication left asleep: nothing was put into the queue. *)
LEMMA WokenAfter ==
    ASSUME EventsInv, Woken, (closed \/ buffer.invalid) => buffer' = buffer
    PROVE  /\ closed' \in BOOLEAN /\ asleep' \in BOOLEAN /\ (closed => closed')
           /\ ReaderInv'
           /\ UNCHANGED <<client, projection, snapshot>>
<1> USE EventsParts DEF Woken, clientVars
<1>1. closed' \in BOOLEAN /\ asleep' \in BOOLEAN /\ (closed => closed')
  <2>1. closed' = closed \/ closed' = TRUE
    OBVIOUS
  <2>2. asleep' = asleep \/ asleep' = FALSE
    OBVIOUS
  <2>3. closed' \in BOOLEAN /\ asleep' \in BOOLEAN
    BY <2>1, <2>2
  <2> QED
    BY <2>1, <2>3
<1>2. ReaderInv'
  BY DEF ReaderInv
<1> QED
  BY <1>1, <1>2

LEMMA OneBase ==
    ASSUME EventsInv, NEW e \in Event, PublishedOne(e), world' \in View
    PROVE  \A p \in Snapshot : Base(p) =>
              /\ Placed(p, buffer', Now')
              /\ Blind' \/ Faithful(p, buffer', Now', world')
<1>1. /\ Succeeds(e, Now) /\ SamePosition(e, Now') /\ buffer' = enqueue(buffer, e)
      /\ Blind' \/ (e.generation = generation => ~ Blind /\ Tells(e, world, world'))
  BY DEF PublishedOne
<1>2. /\ Now.generation = generation /\ Position(Now) /\ buffer \in Buffer /\ OpenInv
      /\ world \in View
  BY EventsParts DEF Now
<1>3. ASSUME NEW p \in Snapshot, Base(p)
      PROVE  /\ Placed(p, buffer', Now')
             /\ Blind' \/ Faithful(p, buffer', Now', world')
  <2>1. Placed(p, buffer, Now) /\ (Blind \/ Faithful(p, buffer, Now, world))
    BY <1>3 DEF Base
  <2>2. Placed(p, buffer', Now')
    BY <1>1, <1>2, <2>1, EnqueuePlaced, EqualPositions
  <2>3. ASSUME ~ Blind', e.generation = generation PROVE Faithful(p, buffer', Now', world')
    <3>1. ~ Blind /\ Tells(e, world, world')
      BY <1>1, <2>3
    <3>2. ~ closed /\ Faithful(p, buffer, Now, world)
      BY <1>2, <2>1, <3>1 DEF Blind, OpenInv
    <3>3. Faithful(p, enqueue(buffer, e), e, world')
      BY <1>1, <1>2, <2>1, <3>1, <3>2, EnqueueFaithful
    <3> QED
      BY <1>1, <3>3, EqualPositions
  <2>4. ASSUME e.generation # generation PROVE Faithful(p, buffer', Now', world')
    <3>1. p.generation # e.generation
      BY <1>1, <1>2, <2>1, <2>4, PositionTypes DEF Placed, Earlier, Succeeds, Position
    <3> QED
      BY <1>1, <3>1 DEF Faithful, SamePosition
  <2> QED
    BY <2>2, <2>3, <2>4
<1> QED
  BY <1>3

LEMMA TwoBase ==
    ASSUME EventsInv, NEW d \in Event, NEW e \in Event, PublishedTwo(d, e), world' \in View
    PROVE  \A p \in Snapshot : Base(p) =>
              /\ Placed(p, buffer', Now')
              /\ Blind' \/ Faithful(p, buffer', Now', world')
<1> DEFINE b == enqueue(buffer, d)
<1>1. /\ Succeeds(d, Now) /\ Succeeds(e, d) /\ SamePosition(e, Now') /\ buffer' = enqueue(b, e)
      /\ Blind' \/ (~ Blind /\ Tells(d, world, world) /\ Tells(e, world, world'))
  BY DEF PublishedTwo
<1>2. /\ Position(Now) /\ buffer \in Buffer /\ OpenInv /\ BufferOK(buffer, Now)
      /\ world \in View
  BY EventsParts
<1>3. b \in Buffer /\ Position(d)
  BY <1>1, <1>2, EnqueueBufferOK, PositionTypes
<1>4. ASSUME NEW p \in Snapshot, Base(p)
      PROVE  /\ Placed(p, buffer', Now')
             /\ Blind' \/ Faithful(p, buffer', Now', world')
  <2>1. Placed(p, buffer, Now) /\ (Blind \/ Faithful(p, buffer, Now, world))
    BY <1>4 DEF Base
  <2>2. Placed(p, b, d)
    BY <1>1, <1>2, <2>1, EnqueuePlaced
  <2> HIDE DEF b
  <2>3. Placed(p, enqueue(b, e), e)
    BY <1>1, <1>3, <2>2, EnqueuePlaced
  <2>4. Placed(p, buffer', Now')
    BY <1>1, <2>3, EqualPositions
  <2>5. ASSUME ~ Blind' PROVE Faithful(p, buffer', Now', world')
    <3>1. ~ Blind /\ Tells(d, world, world) /\ Tells(e, world, world')
      BY <1>1, <2>5
    <3>2. ~ closed /\ Faithful(p, buffer, Now, world)
      BY <1>2, <2>1, <3>1 DEF Blind, OpenInv
    <3>3. Faithful(p, b, d, world)
      BY <1>1, <1>2, <2>1, <3>1, <3>2, EnqueueFaithful DEF b
    <3>4. Faithful(p, enqueue(b, e), e, world')
      BY <1>1, <1>2, <1>3, <2>2, <3>1, <3>2, <3>3, EnqueueFaithful
    <3> QED
      BY <1>1, <3>4, EqualPositions
  <2> QED
    BY <2>4, <2>5
<1> QED
  BY <1>4

LEMMA PublishedAfter ==
    ASSUME EventsInv, world' \in View,
           \/ \E e \in Event : PublishedOne(e)
           \/ \E d, e \in Event : PublishedTwo(d, e)
    PROVE  After
<1>1. /\ Position(Now) /\ buffer \in Buffer /\ BufferOK(buffer, Now) /\ BaseInv
      /\ projection \in Snapshot /\ snapshot \in Snapshot
      /\ client \in {"new", "ready", "resync", "failed", "capturing", "captured",
                     "waiting", "closed", "gone"}
  BY EventsParts
<1> DEFINE Moved == /\ Woken /\ buffer' \in Buffer /\ BufferOK(buffer', Now')
                    /\ (closed \/ buffer.invalid) => buffer' = buffer
                    /\ \A p \in Snapshot : Base(p) =>
                          /\ Placed(p, buffer', Now')
                          /\ Blind' \/ Faithful(p, buffer', Now', world')
<1>2. Moved
  <2>1. ASSUME NEW e \in Event, PublishedOne(e) PROVE Moved
    <3>1. Succeeds(e, Now) /\ SamePosition(e, Now') /\ buffer' = enqueue(buffer, e) /\ Woken
      BY <2>1 DEF PublishedOne
    <3>2. buffer' \in Buffer /\ BufferOK(buffer', Now')
      BY <1>1, <3>1, EnqueueBufferOK, EqualPositions
    <3> QED
      BY <2>1, <3>1, <3>2, OneBase DEF enqueue
  <2>2. ASSUME NEW d \in Event, NEW e \in Event, PublishedTwo(d, e) PROVE Moved
    <3>1. /\ Succeeds(d, Now) /\ Succeeds(e, d) /\ SamePosition(e, Now')
          /\ buffer' = enqueue(enqueue(buffer, d), e) /\ Woken
      BY <2>2 DEF PublishedTwo
    <3>2. enqueue(buffer, d) \in Buffer /\ BufferOK(enqueue(buffer, d), d) /\ Position(d)
      BY <1>1, <3>1, EnqueueBufferOK, PositionTypes
    <3>3. buffer' \in Buffer /\ BufferOK(buffer', Now')
      BY <3>1, <3>2, EnqueueBufferOK, EqualPositions
    <3> QED
      BY <2>2, <3>1, <3>3, TwoBase DEF enqueue
  <2> QED
    BY <2>1, <2>2
<1>3. /\ closed' \in BOOLEAN /\ asleep' \in BOOLEAN /\ (closed => closed')
      /\ ReaderInv'
      /\ UNCHANGED <<client, projection, snapshot>>
  BY <1>2, WokenAfter
<1>4. BufferOK(buffer, Now)'
  BY <1>2, <1>3, QueueAfter
<1>5. BaseInv'
  <2>1. Base(projection) => Base(projection)'
    BY <1>1, <1>2, <1>3 DEF Base
  <2>2. Base(snapshot) => Base(snapshot)'
    BY <1>1, <1>2, <1>3 DEF Base
  <2> QED
    BY <1>1, <1>3, <2>1, <2>2 DEF BaseInv, AtRest
<1> QED
  BY <1>1, <1>2, <1>3, <1>4, <1>5 DEF After

LEMMA CapturedAfter ==
    ASSUME EventsInv, CapturedStep PROVE After
<1>1. /\ generation \in Nat /\ sequence \in Nat /\ Position(Now) /\ world \in View
      /\ closed \in BOOLEAN /\ asleep \in BOOLEAN
      /\ projection \in Snapshot /\ snapshot \in Snapshot /\ ReaderInv /\ BaseInv
      /\ client \in {"new", "ready", "resync", "failed", "capturing", "captured",
                     "waiting", "closed", "gone"}
  BY EventsParts
<1>2. /\ generation' = generation /\ sequence' = sequence + 1
      /\ buffer'.events = <<>> /\ buffer'.invalid = FALSE /\ buffer' \in Buffer
      /\ UNCHANGED <<om, stop_requested, world, closed, asleep, projection>>
      /\ \/ UNCHANGED <<client, snapshot>>
         \/ client = "capturing" /\ client' = "captured" /\ snapshot' = CapturedSnapshot
  <2>1. [events |-> <<>>, invalid |-> FALSE] \in Buffer
    BY DEF Buffer
  <2> QED
    BY <2>1 DEF CapturedStep
<1>3. Now'.generation = generation /\ Now'.sequence = sequence + 1 /\ Position(Now')
  BY <1>1, <1>2 DEF Now, Position
<1>4. Now.generation = generation /\ Now.sequence = sequence
  BY DEF Now
<1>5. Len(buffer'.events) = 0 /\ Capacity \in Nat
  BY <1>2, EventsAssumption
<1>6. BufferOK(buffer', Now')
  BY <1>2, <1>5 DEF BufferOK
<1>7. ReaderInv'
  BY <1>1, <1>2 DEF ReaderInv
(* Who captured for somebody else's projection has moved on without it. *)
<1>8. ASSUME NEW p \in Snapshot, Placed(p, buffer, Now)
      PROVE  Placed(p, buffer', Now') /\ Faithful(p, buffer', Now', world')
  <2>1. p.generation \in Nat /\ p.sequence \in Nat
    BY DEF Snapshot
  <2>2. Placed(p, buffer', Now')
    BY <1>1, <1>2, <1>3, <1>4, <1>5, <1>8, <2>1 DEF Placed, Earlier
  <2>3. ~ (p.generation = Now'.generation /\ p.sequence + 0 = Now'.sequence)
    BY <1>1, <1>3, <1>4, <1>8, <2>1 DEF Placed, Earlier
  <2> QED
    BY <1>5, <2>2, <2>3 DEF Faithful
<1>9. /\ CapturedSnapshot \in Snapshot
      /\ Placed(CapturedSnapshot, buffer', Now')
      /\ Blind' \/ Faithful(CapturedSnapshot, buffer', Now', world')
  <2> DEFINE v == IF om = "none" THEN Absent ELSE world
  <2>1. v \in View
    BY <1>1, NothingIsRecord DEF Absent, View
  <2>2. CapturedSnapshot = [generation |-> generation, sequence |-> sequence + 1, objects |-> v]
    BY DEF CapturedSnapshot
  <2>3. om = "installed" => v = world
    OBVIOUS
  <2> HIDE DEF v
  <2>4. CapturedSnapshot \in Snapshot
    BY <1>1, <2>1, <2>2 DEF Snapshot
  <2>5. Placed(CapturedSnapshot, buffer', Now')
    BY <1>1, <1>2, <1>3, <1>5, <2>2 DEF Placed, Earlier
  <2>6. ~ Blind' => CapturedSnapshot.objects = world'
    BY <1>2, <2>2, <2>3 DEF Blind
  <2>7. ~ Blind' => Faithful(CapturedSnapshot, buffer', Now', world')
    <3>1. \A o \in Objects : world'[o].rest \in Int
      BY <1>1, <1>2 DEF View, Record
    <3> QED
      BY <1>5, <2>6, <3>1 DEF Faithful, Told, Tracks
  <2> QED
    BY <2>4, <2>5, <2>7
<1>10. BaseInv'
  <2>1. Base(projection) => Base(projection)'
    BY <1>1, <1>2, <1>8 DEF Base
  <2>2. (Base(snapshot) /\ snapshot' = snapshot) => Base(snapshot)'
    BY <1>1, <1>8 DEF Base
  <2>3. snapshot' = CapturedSnapshot => Base(snapshot)'
    BY <1>9 DEF Base
  <2> QED
    BY <1>1, <1>2, <2>1, <2>2, <2>3 DEF BaseInv, AtRest
<1> QED
  BY <1>1, <1>2, <1>6, <1>7, <1>9, <1>10, QueueAfter DEF After

LEMMA WaitAfter ==
    ASSUME EventsInv, WaitForEvent PROVE After
<1> USE EventsParts
<1>1. /\ Now' = Now /\ Blind' = Blind /\ buffer.events = <<>>
      /\ UNCHANGED <<world, buffer, closed, projection, snapshot>>
  BY DEF WaitForEvent, connVars, lifeVars, stopVars, Now, Blind
<1>2. /\ CanRead
      /\ \/ closed /\ client' = "closed" /\ asleep' = FALSE
         \/ ~ closed /\ client' = "waiting" /\ asleep' = TRUE
  BY DEF WaitForEvent
<1>3. BufferOK(buffer, Now)'
  BY <1>1, QueueAfter
<1>4. ReaderInv'
  BY <1>1, <1>2 DEF ReaderInv
<1>5. BaseInv'
  <2>1. Base(projection) => Base(projection)'
    BY <1>1 DEF Base
  <2> QED
    BY <1>2, <2>1 DEF BaseInv, AtRest, CanRead
<1> QED
  BY <1>1, <1>2, <1>3, <1>4, <1>5 DEF After

LEMMA ReadAfter ==
    ASSUME EventsInv, ProjectNextEvent PROVE After
<1> DEFINE h == Head(buffer.events)
<1>1. /\ Position(Now) /\ buffer \in Buffer /\ BufferOK(buffer, Now)
      /\ closed \in BOOLEAN /\ asleep \in BOOLEAN
      /\ projection \in Snapshot /\ snapshot \in Snapshot /\ ReaderInv /\ BaseInv
  BY EventsParts
<1>2. /\ buffer.events # <<>> /\ buffer' = [buffer EXCEPT !.events = Tail(@)] /\ CanRead
      /\ \/ Follows(h, projection) /\ projection' = apply(projection, h) /\ client' = "ready"
         \/ projection' = projection /\ client' = "resync"
      /\ UNCHANGED <<world, closed, asleep, snapshot>>
  BY DEF ProjectNextEvent
<1>3. Now' = Now /\ Blind' = Blind
  BY DEF ProjectNextEvent, connVars, lifeVars, stopVars, Now, Blind
<1>4. buffer' \in Buffer /\ BufferOK(buffer', Now)
  BY <1>1, <1>2, TailOK
<1>5. BufferOK(buffer, Now)'
  BY <1>2, <1>3, <1>4, QueueAfter
<1>6. ReaderInv'
  BY <1>1, <1>2 DEF ReaderInv, CanRead
<1>7. h \in Event
  BY <1>1, <1>2, PositionTypes, TailFacts
<1>8. projection' \in Snapshot
  BY <1>1, <1>2, <1>7, ApplyFacts
<1>9. BaseInv'
  <2>1. SUFFICES ASSUME Follows(h, projection), projection' = apply(projection, h)
                 PROVE  Base(projection)'
    BY <1>2 DEF BaseInv, AtRest
  <2>2. Placed(projection, buffer, Now) /\ (Blind \/ Faithful(projection, buffer, Now, world))
    BY <1>1, <1>2 DEF BaseInv, AtRest, CanRead, Base
  <2>3. Placed(projection', buffer', Now)
    BY <1>1, <1>2, <2>1, <2>2, ReadPlaced
  <2>4. buffer'.events = Tail(buffer.events)
    BY <1>1, <1>2, TailOK
  <2>5. ~ Blind => Faithful(projection', buffer', Now, world)
    BY <1>1, <1>2, <2>1, <2>2, <2>4, ReadFaithful
  <2> QED
    BY <1>2, <1>3, <2>3, <2>5 DEF Base
<1> QED
  BY <1>1, <1>2, <1>4, <1>5, <1>6, <1>8, <1>9 DEF After

LEMMA DrainAfter ==
    ASSUME EventsInv, DrainAndApply PROVE After
<1>1. /\ Position(Now) /\ buffer \in Buffer /\ BufferOK(buffer, Now)
      /\ closed \in BOOLEAN /\ asleep \in BOOLEAN
      /\ projection \in Snapshot /\ snapshot \in Snapshot /\ ReaderInv /\ BaseInv
  BY EventsParts
<1>2. /\ client = "captured" /\ buffer' = [buffer EXCEPT !.events = <<>>]
      /\ \/ /\ Consecutive(snapshot, buffer.events) /\ client' = "ready"
            /\ projection' = ApplyAll(snapshot, buffer.events)
         \/ projection' = projection /\ client' = "resync"
      /\ snapshot' = NoSnapshot
      /\ UNCHANGED <<world, closed, asleep>>
  BY DEF DrainAndApply
<1>3. Now' = Now /\ Blind' = Blind
  BY DEF DrainAndApply, connVars, lifeVars, stopVars, Now, Blind
<1>4. buffer' \in Buffer /\ BufferOK(buffer', Now)
  BY <1>1, <1>2, DrainOK
<1>5. BufferOK(buffer, Now)'
  BY <1>2, <1>3, <1>4, QueueAfter
<1>6. ReaderInv'
  BY <1>1, <1>2 DEF ReaderInv
<1>7. Placed(snapshot, buffer, Now) /\ (Blind \/ Faithful(snapshot, buffer, Now, world))
  BY <1>1, <1>2 DEF BaseInv, Base
<1>8. projection' \in Snapshot /\ snapshot' \in Snapshot
  <2>1. NoSnapshot \in Snapshot
    BY NothingIsRecord DEF NoSnapshot, Snapshot, Absent, View
  <2>2. ApplyAll(snapshot, buffer.events) \in Snapshot
    BY <1>1, <1>7, ApplyAllFacts
  <2> QED
    BY <1>1, <1>2, <2>1, <2>2
<1>9. BaseInv'
  <2>1. SUFFICES ASSUME Consecutive(snapshot, buffer.events),
                        projection' = ApplyAll(snapshot, buffer.events)
                 PROVE  Base(projection)'
    BY <1>2 DEF BaseInv, AtRest
  <2>2. /\ Placed(projection', buffer', Now)
        /\ Faithful(snapshot, buffer, Now, world) => Faithful(projection', buffer', Now, world)
    BY <1>1, <1>2, <1>7, <2>1, DrainBase
  <2> QED
    BY <1>2, <1>3, <1>7, <2>2 DEF Base
<1> QED
  BY <1>1, <1>2, <1>4, <1>5, <1>6, <1>8, <1>9 DEF After

-----------------------------------------------------------------------------
LEMMA InitEventsInv == InitEvents => EventsInv
<1> SUFFICES ASSUME InitEvents PROVE EventsInv
  OBVIOUS
<1>1. Init /\ sources = <<>> /\ om = "none"
  BY DEF InitEvents, Init
<1>2. ConnInv /\ LifeInv /\ StopPosted
  BY <1>1, InitConnInv, InitLifeInv
<1>3. /\ world \in View /\ NoSnapshot \in Snapshot
  BY NothingIsRecord DEF InitEvents, NoSnapshot, Snapshot, Absent, View
<1>4. /\ buffer \in Buffer /\ buffer.events = <<>> /\ ~ buffer.invalid
  BY DEF InitEvents, Buffer
<1>5. EventsShape
  <2>1. sources \in Seq(EventsSourceSet)
    BY <1>1, EmptyIsSeq
  <2>2. closed \in BOOLEAN /\ asleep \in BOOLEAN
    BY DEF InitEvents
  <2>3. projection \in Snapshot /\ snapshot \in Snapshot /\ capturing \subseteq Capturers
    BY <1>3 DEF InitEvents
  <2>4. client = "new"
    BY DEF InitEvents
  <2> QED
    BY <1>3, <1>4, <2>1, <2>2, <2>3, <2>4 DEF EventsShape
<1>6. BufferOK(buffer, Now)
  <2>1. Len(buffer.events) = 0 /\ Capacity \in Nat
    BY <1>4, EventsAssumption
  <2> QED
    BY <1>4, <2>1 DEF BufferOK
<1>7. ReaderInv /\ OpenInv /\ BaseInv
  BY <1>1 DEF InitEvents, ReaderInv, OpenInv, BaseInv, AtRest
<1>8. CaptureInv
  BY <1>1 DEF CaptureInv, ClientSources
<1> QED
  BY <1>2, <1>5, <1>6, <1>7, <1>8 DEF EventsInv

LEMMA NextEventsInv == EventsInv /\ [NextEvents]_vars => EventsInv'
<1> SUFFICES ASSUME EventsInv, [NextEvents]_vars PROVE EventsInv'
  OBVIOUS
<1>1. ConnInv' /\ LifeInv'
  BY EventsConnInv
<1>2. sources' \in Seq(EventsSourceSet) /\ StopPosted' /\ CaptureInv'
  BY EventsSourcesStep
<1>3. VisibleStep /\ SideStep /\ OpenInv'
  BY EventsVisible
<1>4. After
  BY <1>3, SilentAfter, PublishedAfter, CapturedAfter, DrainAfter, ReadAfter, WaitAfter
     DEF VisibleStep, SideStep
<1>5. EventsShape'
  BY <1>2, <1>3, <1>4 DEF After, SideStep, EventsShape
<1> QED
  BY <1>1, <1>2, <1>3, <1>4, <1>5 DEF After, EventsInv

(* The connection's invariants hold with everything that publishes, captures *)
(* and reads on top of it.                                                   *)
LEMMA EventsInvHolds == EventsSpec => []EventsInv
  BY InitEventsInv, NextEventsInv, PTL DEF EventsSpec

(* Types: every queued event is well-formed, enqueue() never lets the queue  *)
(* grow beyond event_capacity, and what the client has projected is a record *)
(* for each object.                                                          *)
THEOREM EventsTypeCorrect == EventsSpec => []EventsTypeOK
<1>1. EventsInv => EventsTypeOK
  <2> SUFFICES ASSUME EventsInv PROVE EventsTypeOK
    OBVIOUS
  <2>1. ConnInv /\ EventsShape /\ BufferOK(buffer, Now)
    BY DEF EventsInv
  <2>2. ConnTypeOK
    <3>1. founded \in 0..connection /\ generation \in 0..connection
      BY <2>1 DEF ConnInv, Shape, GenerationInv
    <3> QED
      BY <2>1, <3>1 DEF ConnInv, Shape, ConnTypeOK
  <2>3. EventsSourceSet = {StopSource}
                          \cup {ReconnectSource(r) : r \in Reconnectors}
                          \cup {CaptureSource(k) : k \in Capturers \cup {Client}}
    BY DEF EventsSourceSet, SourceSet
  <2>4. Len(buffer.events) <= Capacity
    BY <2>1 DEF BufferOK
  <2> QED
    BY <2>1, <2>2, <2>3, <2>4 DEF EventsShape, EventsTypeOK, Buffer
<1> QED
  BY <1>1, EventsInvHolds, PTL

(* enqueue() and new_event() under the event mutex: whatever publishes, and  *)
(* however often the connection comes back, the queue is a run of successive *)
(* positions whose end is the present one, or a single notice.               *)
THEOREM NothingIsSkipped == EventsSpec => []BufferIsGapless
<1>1. EventsInv => BufferIsGapless
  BY DEF EventsInv, BufferOK, BufferIsGapless, SamePosition, Now
<1> QED
  BY <1>1, EventsInvHolds, PTL

(* next_runtime_event(): a reader on event_cond never sleeps through an      *)
(* event that was queued, nor through the close of publication.              *)
THEOREM NoWakeupIsLost == EventsSpec => []ReaderIsWoken
<1>1. EventsInv => ReaderIsWoken
  BY DEF EventsInv, ReaderInv, ReaderIsWoken
<1> QED
  BY <1>1, EventsInvHolds, PTL

(* resnapshot() and project_next_event(): a client that has reached the      *)
(* present position by deltas has the objects of the runtime and, of each,   *)
(* what events tell (not what changes silently), whatever overflow, racing   *)
(* captures of other threads, losses and reconnects came in between.         *)
THEOREM ProjectionIsExact == EventsSpec => []PositionDeterminesState
<1>1. EventsInv => PositionDeterminesState
  <2> SUFFICES ASSUME EventsInv, AtRest, om = "installed", ~ stop_requested,
                      projection.generation = generation, projection.sequence = sequence
               PROVE  Mirrors
    BY DEF PositionDeterminesState, AtPosition
  <2>1. Base(projection) /\ buffer \in Buffer /\ projection \in Snapshot
    BY DEF EventsInv, EventsShape, BaseInv
  <2>2. Placed(projection, buffer, Now) /\ Faithful(projection, buffer, Now, world)
    BY <2>1 DEF Base, Blind
  <2>3. Now.generation = generation /\ Now.sequence = sequence /\ sequence \in Nat /\ generation \in Nat
    BY DEF Now, EventsInv, ConnInv, Shape
(* Every queued event would be later than the client, and not later than now. *)
  <2>4. Len(buffer.events) = 0
    <3>1. Len(buffer.events) \in Nat
      BY <2>1, PositionTypes
    <3>2. ASSUME Len(buffer.events) # 0 PROVE FALSE
      <4>1. 1 \in 1..Len(buffer.events)
        BY <3>1, <3>2
      <4>2. Earlier(projection, buffer.events[1]) /\ ~ Earlier(Now, buffer.events[1])
        BY <2>2, <4>1 DEF Placed, EventsInv, BufferOK
      <4> QED
        BY <2>3, <4>2 DEF Earlier
    <3> QED
      BY <3>2
  <2>5. projection.sequence + 0 = sequence
    BY <2>3
  <2>6. \A o \in Objects : Told(projection, buffer.events, o, world)
    BY <2>2, <2>3, <2>4, <2>5 DEF Faithful, Run
  <2> QED
    BY <2>4, <2>6 DEF Told, Tracks, Mirrors, Agree
<1> QED
  BY <1>1, EventsInvHolds, PTL

-----------------------------------------------------------------------------
(* A client that is the only one to capture.                                 *)
LEMMA SolePublished ==
    ASSUME EventsInv, SoleInv,
           \/ \E e \in Event : PublishedOne(e)
           \/ \E d, e \in Event : PublishedTwo(d, e)
    PROVE  SoleInv'
<1>1. /\ Position(Now) /\ buffer \in Buffer /\ BufferOK(buffer, Now) /\ BaseInv
      /\ projection \in Snapshot /\ snapshot \in Snapshot
  BY EventsParts
<1>2. /\ closed => closed'
      /\ UNCHANGED <<client, projection, snapshot>>
  <2>1. Woken
    BY DEF PublishedOne, PublishedTwo
  <2>2. closed' = closed \/ closed' = TRUE
    BY <2>1 DEF Woken
  <2>3. closed => closed'
    BY <2>2
  <2> QED
    BY <2>1, <2>3 DEF Woken, clientVars
<1>3. ASSUME NEW p \in Snapshot, Placed(p, buffer, Now), Continues(p, buffer, Now)
      PROVE  Continues(p, buffer', Now')
  <2>1. ASSUME NEW e \in Event, PublishedOne(e) PROVE Continues(p, buffer', Now')
    BY <1>1, <1>3, <2>1, EnqueueContinues, EqualPositions DEF PublishedOne
  <2>2. ASSUME NEW d \in Event, NEW e \in Event, PublishedTwo(d, e)
        PROVE  Continues(p, buffer', Now')
    <3> DEFINE b == enqueue(buffer, d)
    <3>1. Succeeds(d, Now) /\ Succeeds(e, d) /\ SamePosition(e, Now') /\ buffer' = enqueue(b, e)
      BY <2>2 DEF PublishedTwo
    <3>2. /\ b \in Buffer /\ Placed(p, b, d) /\ Continues(p, b, d)
      BY <1>1, <1>3, <3>1, EnqueueBufferOK, EnqueuePlaced, EnqueueContinues
    <3> HIDE DEF b
    <3>3. Continues(p, enqueue(b, e), e)
      BY <3>1, <3>2, EnqueueContinues
    <3> QED
      BY <3>1, <3>3, EqualPositions
  <2> QED
    BY <2>1, <2>2
<1>4. \A p : Continues(p, buffer', Now') =>
         (/\ (buffer'.events = <<>> /\ ~ closed') => SamePosition(p, Now')
          /\ buffer'.events # <<>> => \/ Succeeds(buffer'.events[1], p)
                                      \/ buffer'.events[1].requires_resnapshot)
  BY <1>2 DEF Continues
<1>5. AtRest' => Continues(projection, buffer, Now)'
  <2> SUFFICES ASSUME AtRest' PROVE Continues(projection, buffer, Now)'
    OBVIOUS
  <2>1. Base(projection) /\ Continues(projection, buffer, Now)
    BY <1>1, <1>2 DEF AtRest, SoleInv, BaseInv
  <2>2. Continues(projection, buffer', Now')
    BY <1>1, <1>3, <2>1 DEF Base
  <2> QED
    BY <1>2, <1>4, <2>2 DEF Continues
<1>6. client' = "captured" => Continues(snapshot, buffer, Now)'
  <2> SUFFICES ASSUME client' = "captured" PROVE Continues(snapshot, buffer, Now)'
    OBVIOUS
  <2>1. Base(snapshot) /\ Continues(snapshot, buffer, Now)
    BY <1>1, <1>2 DEF SoleInv, BaseInv
  <2>2. Continues(snapshot, buffer', Now')
    BY <1>1, <1>3, <2>1 DEF Base
  <2> QED
    BY <1>2, <1>4, <2>2 DEF Continues
<1> QED
  BY <1>5, <1>6 DEF SoleInv

LEMMA SoleCaptured ==
    ASSUME Capturers = {}, CapturedStep
    PROVE  SoleInv'
<1>1. /\ buffer'.events = <<>> /\ client' = "captured"
      /\ snapshot' = CapturedSnapshot
      /\ generation' = generation /\ sequence' = sequence + 1
  BY DEF CapturedStep
<1>2. SamePosition(snapshot', Now')
  BY <1>1 DEF CapturedSnapshot, SamePosition, Now
<1> QED
  BY <1>1, <1>2 DEF SoleInv, AtRest, Continues

LEMMA SoleSilent ==
    ASSUME EventsInv, SoleInv, Silent PROVE SoleInv'
<1>1. /\ UNCHANGED <<buffer, projection, snapshot>> /\ Now' = Now
      /\ UNCHANGED client \/ client' \in {"capturing", "failed", "gone"}
      /\ closed => closed'
  BY EventsParts DEF Silent, Now
<1>2. \A p : Continues(p, buffer, Now) =>
         (/\ (buffer.events = <<>> /\ ~ closed') => SamePosition(p, Now)
          /\ buffer.events # <<>> => \/ Succeeds(buffer.events[1], p)
                                     \/ buffer.events[1].requires_resnapshot)
  BY <1>1 DEF Continues
<1> QED
  BY <1>1, <1>2 DEF SoleInv, AtRest, Continues

LEMMA SoleClient ==
    ASSUME EventsInv, SoleInv, DrainAndApply \/ ProjectNextEvent \/ WaitForEvent
    PROVE  SoleInv'
<1>1. /\ Position(Now) /\ buffer \in Buffer /\ BufferOK(buffer, Now)
      /\ projection \in Snapshot /\ snapshot \in Snapshot /\ BaseInv
  BY EventsParts
<1>2. Now' = Now /\ closed' = closed
  BY DEF DrainAndApply, ProjectNextEvent, WaitForEvent, connVars, Now
<1>3. SUFFICES ASSUME AtRest' PROVE Continues(projection', buffer', Now)
  BY <1>2 DEF SoleInv, Continues, DrainAndApply, ProjectNextEvent, WaitForEvent
<1>4. CASE WaitForEvent
  BY <1>3, <1>4 DEF SoleInv, WaitForEvent, AtRest, CanRead
<1>5. CASE ProjectNextEvent
  <2> DEFINE h == Head(buffer.events)
  <2>1. /\ buffer.events # <<>> /\ buffer' = [buffer EXCEPT !.events = Tail(@)]
        /\ Follows(h, projection) /\ projection' = apply(projection, h)
    BY <1>3, <1>5 DEF ProjectNextEvent, AtRest
  <2>2. Placed(projection, buffer, Now)
    BY <1>1, <1>5 DEF ProjectNextEvent, CanRead, BaseInv, AtRest, Base
  <2> QED
    BY <1>1, <2>1, <2>2, ReadContinues
<1>6. CASE DrainAndApply
  <2>1. /\ client = "captured" /\ buffer' = [buffer EXCEPT !.events = <<>>]
        /\ Consecutive(snapshot, buffer.events)
        /\ projection' = ApplyAll(snapshot, buffer.events)
    BY <1>3, <1>6 DEF DrainAndApply, AtRest
  <2>2. Placed(snapshot, buffer, Now) /\ Continues(snapshot, buffer, Now)
    BY <2>1 DEF SoleInv, BaseInv, Base, EventsInv
  <2> QED
    BY <1>1, <2>1, <2>2, DrainContinues
<1> QED
  BY <1>4, <1>5, <1>6

(* A client without competitors for the queue, one whose process captures    *)
(* nowhere else: when it has read everything it is up to date.  No event is  *)
(* lost between capture and drain, at an overflow or at a reconnect without  *)
(* the client being told.                                                    *)
THEOREM ReadEverythingIsCurrent ==
    ASSUME Capturers = {} PROVE EventsSpec => []CaughtUpIsCurrent
<1>1. InitEvents => SoleInv
  BY DEF InitEvents, SoleInv, AtRest
<1>2. EventsInv /\ SoleInv /\ [NextEvents]_vars => SoleInv'
  BY EventsVisible, SoleSilent, SolePublished, SoleCaptured, SoleClient DEF VisibleStep
<1>3. SoleInv => CaughtUpIsCurrent
  BY DEF SoleInv, Continues, SamePosition, Now, CaughtUpIsCurrent
<1> QED
  BY <1>1, <1>2, <1>3, EventsInvHolds, PTL DEF EventsSpec
=============================================================================
