# WyrePlumber: a TLA+ verification project

WyrePlumber binds Python to WirePlumber. A native connection object owns one
WirePlumber thread with a GLib main loop; Python threads read detached snapshots
and events from it and submit mutations to it. This directory holds TLA+ models
of the parts of that system that carry its concurrency and its continuity rules,
TLC configurations that check them on small instances, and TLAPS proofs for
instances of any size. Paths below are relative to the repository root
(`native/...`, `src/wyreplumber/...`, `examples/...`).

## Inventory

| Component | State | Operations | What makes it correct |
|---|---|---|---|
| Python event queue (`runtime/queue.py`) | deque, position, closed and invalid flags, condition variable | `publish`, `get`, `reset`, `close` | readers see gapless deltas or one notice of loss; no reader sleeps next to an event |
| Connection lifecycle (`wp_connection.c`, `lifecycle.c`) | core, object manager, generation, start/stop flags, idle sources | constructor, core signals, `reconnect`, `stop`, dealloc | one generation per connection; `stop` and `reconnect` return |
| Native event publication (`runtime_events.c`) | bounded queue, invalid and closed flags | signal handlers, blocking read, drain, close | overflow is told once; nothing is lost without a gap or a notice |
| Runtime capture (`capture_runtime.c`) | the connection's sequence | posted idle source | a snapshot is the baseline of the events after it |
| Example client (`examples/runtime_orchestration.py`) | projection | `resnapshot`, `project_next_event` | a projection at the current position has what events tell of the runtime |
| Mutation dispatcher (`mutation_dispatch.c`) | FIFO, scheduled flag, dispatch order, per-call completion | submission, handler, cancellation | every caller returns; a ticket says whether the mutation was executed; order is kept |
| Managed links (`mutation_dispatch.c`, `controls.py`) | ledger of owned links | create, remove, forget, reset | nothing visible is adopted; only claimed links are destroyed; the ledger dies with its connection |
| Confirmed controls (`runtime/controls.py`) | none of their own | preflight, dispatch, poll, outcome | confirmed means observed; at most one write; the outcome tells whether it was executed |
| Legacy calls (`sync.c`, `get_nodes.c`, ...) | one shared completion slot | run a function on the thread and wait | a caller gets its own result |
| Snapshot decoding and values (`snapshot.py`, `models.py`, `normalize.py`) | none | normalize, merge, index, serialize, restore | a snapshot that says it is coherent can be navigated; what is selected is reported so |
| SPA pod codec (`spa_pod.py`, `_spa_pod_types.py`) | the entries, flags and keys of a `SpaPodObject` | parse, build, set, delete | what is written reads back, and settles; a typed object keeps its specified types |

How they interact: the WirePlumber thread runs core and object-manager signals and
idle sources, one callback at a time. Python threads attach idle sources
(reconnect, stop, capture, dispatch) and wait on condition variables. The
connection's `generation` and `sequence` are written by the WirePlumber thread
only; events, snapshots and mutation preconditions all refer to them. A
disconnect cancels queued mutations and publishes an event; a capture, by whatever
thread, resets the one event queue.

Hard behaviours: a Python thread waits for a callback that a quitting loop never
runs; the window between creating the object manager and its `installed` signal,
in which the generation is still the old one; cancellation racing the handler;
overflow of a bounded queue; timeouts that race notifications.
`PROJECT.json` lists these hazards line by line with the properties about them.

## Modules

| Module | Models | Notes |
|---|---|---|
| `EventStream` | what an event queue promises | abstract: no buffer, no lock, no threads |
| `RuntimeEventQueue` | `runtime/queue.py` | refines `EventStream` |
| `WPConnection` | `wp_connection.c`, `lifecycle.c` | base of the next three |
| `MutationLine` | what the mutation dispatcher promises its callers | abstract: one line, a generation, tickets; no thread, no sources, no flag |
| `MutationDispatch` | `mutation_dispatch.c` | refines `MutationLine`; extends `WPConnection`: each callback is conjoined with what it does to the dispatcher |
| `RuntimeEvents` | `runtime_events.c`, `capture_runtime.c`, `events.py`, the example client | extends `WPConnection` in the same way |
| `ConfirmedMutation` | `controls.py` | extends `MutationDispatch` with the controls' own threads, captures and a target that changes |
| `ManagedLinks` | `create_managed_link`, `remove_managed_link` (`controls.py`), the ledger and its handlers (`mutation_dispatch.c`) | stands alone: dispatching is one step here, its queue is `MutationDispatch` |
| `SpaValues` | the values of `_spa_pod_types.py` and the conversions that the codec and the normalizer share | nothing recursive |
| `SpaPod` | `spa_pod.py`, `_spa_pod_types.py` | extends `SpaValues`: pure operators, and one pod on its way through parse, edits, build and parse |
| `Snapshot` | `normalize.py`, `snapshot.py`, `models.py` | extends `SpaValues`; the parser of pods is its constant `ParsePod`, so that it can be proved about |
| `MC*` | instances for TLC | `MCDecoding` has the pods and the payloads, and gives `Snapshot` the parser of `SpaPod` |
| `RuntimeEventQueueProofs`, `WPConnectionProofs`, `MutationDispatchProofs`, `MutationLineProofs`, `RuntimeEventsProofs`, `ConfirmedMutationProofs`, `ManagedLinksProofs`, `SnapshotProofs` | TLAPS proofs | each extends the proofs of the module that its own module extends; `MutationLineProofs` holds the refinement and stands between the dispatcher's proofs and the controls' |

Variables keep the names of the fields they model (`om`, `stop_requested`,
`call_completed`, `mutation_queue`, `_events` as `events`). Actions are named after
the function they model, or, where a function has several critical sections, after
the section (`ReconnectCheck`, `ReconnectCancel`, `ReconnectRead`, ...): what happens
under one lock is one action, what another thread can see in between is a boundary.
On the WirePlumber thread one callback is one action, except for the dispatch
handler, whose four critical sections are separate because submission and
cancellation run in other threads between them.

External code is modelled by what this code can see of it: GLib runs idle sources in
the order of attachment (`NextSource`), and sources of the batch in which the loop
is told to quit may still run; `threading.Condition` takes one waiter off its list
on `notify` (a waiter whose timeout has run out stays on the list until it has the
lock again); PipeWire connects, refuses or goes away at any time.

Abstractions: an event keeps its position, the object it is about and whether it
requires a snapshot; a mutation is its preconditions and the number of times it was
executed. In `ConfirmedMutation` the
object manager shows one target, of which the code tells apart whether it is found,
still has the identity the caller saw, is usable, fits the active profile and has
the requested value; the six kinds of control are the six ways `controls.py` has of
judging it. The clock of a control is a choice at each look at it: the deadline may
or may not have passed. Two ghosts are read by properties only: `since` follows what
has happened since the caller's position, `met` records it when the mutation is
executed.

In `RuntimeEvents` an object's record has two parts, because an event carries less than a
snapshot. `told` is what an event about the object carries too: identity, properties,
endpoints, a parameter's values. `rest` is what only a snapshot has: states, errors, mixer
values and port counts change without a signal that `runtime_events.c` connects, and
`events.py` decodes the devices and nodes of events without profiles, routes and parameters
(`SilentChange`, `Published`). A parameter is an object of its own whose events carry its
values, but it comes and goes with its owner, for which no event of its own is published;
its `rest` counts how often that has happened. A metadata object is told of when it is added
or removed; its entries are told under identities of their own, and so are its `rest`. The
permissions and the completeness of a parameter, which its events assume, are left out; so
is what the example client keeps under the keys of parameters, profiles, routes and entries
of metadata whose owner has gone.

In `ManagedLinks` an identity is a pair of owner and desired id, and a topology stands
for the four endpoint ids. `links` is what the object manager shows; whose link a link
is, is what `Lookups` makes of the ledger, in any order of the hash table, else what the
link's own properties say. PipeWire may or may not show those of our links, and the links
of other clients may show any identity: `append_link` (`capture_runtime.c:388`) takes them
from whatever link there is, and `tests/test_runtime_managed_links.py:144` relies on it. A
call is idle,
dispatching (judged by its preflight snapshot and on its way to the handler), polling or
returned; the handler looks at links and ledger of its own moment. PipeWire may accept or
refuse a request, other clients may link the same ports first, links may go at any time
and their ids be given out again. Three things are ghosts: `requested`, a link's `maker`
and `known`, the identities that had its topology in the ledger when it appeared.

In `SpaPod` data is a sequence of words; sizes count bytes, so headers, padding, the
ends of containers and the shared header of array items are computed as the code does.
A word holds `WordBase` values (256 for TLC), integers keep their signs and widths at
that base, a float is a number with as many digits as a word and a double has as many
again, and a string is its length. The tables of properties keep one row for each kind of
specification. In `Snapshot` a collection is a function from identities, a name or a
description is a model value, and a parameter's values are pods, read by `ParsePod`:
whatever that makes of a pod, the normalizer has to cope with. TLC gives it
`parse_spa_pod` of `SpaPod`.

Definitions that begin with
a comment `Slip:` are plausible mistakes of the code. No specification uses them;
`PROJECT.json` names, for each property, the slip that breaks it.

## Runs

Passing:

- `queue` — two readers (waiting for ever, with a timeout, or not at all), capacity
  2, two generations and four sequence numbers, so that a publication can be in
  sequence, a repeat, a gap or of another generation, and a reset can go anywhere.
  Checks the buffer's shape, the wakeups, the refinement of `EventStream`, and that
  close, loss and events release readers.
- `connection` — one reconnecting thread and one stopping thread, three connections,
  so that a connection can be lost before, during and after an object manager
  installs. Checks that each generation belongs to a connection of its own, that a
  constructed object has a generation, that a `reconnect` called while no object manager
  was installing reports a generation of a connection made after it read the old one,
  and that `stop` and (unless stopped) `reconnect` return. With an object manager
  installing the third does not hold, and with two threads in `reconnect` the last does
  not (see the divergences below).
- `dispatch` — two calls, one reconnect at a time, stop, two connections. Checks the
  scheduled flag (`NoLostDispatch`), that nobody waits on a dead thread, that a ticket
  tells whether the mutation was executed, that execution follows dispatch order, that every
  caller returns, and the refinement of `MutationLine`: a call in the handler's hands is
  still the head of the line, so the pop and the checks stutter, a completion serves or
  turns away, and a cancellation sends home everybody behind the head. The line numbers
  its places from one in each generation, so dispatch order does.
- `events_generations` — two connections with loss, reconnect and stop, one metadata object
  and a queue of one: every second event overflows, also the second of the two events that
  a change of a default publishes within one callback. A client that has read everything is
  at the connection's position, and a projection there has what events tell.
- `events_history` — one connection, a second capturing thread, an object that also changes
  silently, a parameter whose owner comes and goes, values that cannot be copied, captures
  that fail, a queue of two. A projection at the connection's position still has what events
  tell.
- `controls_loss` — one control of every kind, two connections, one reconnecting thread,
  stop. The outcome tells whether the mutation reached PipeWire (what may be retried has
  not), and a write with an expected sequence never meets a target that was changed or
  lost after its caller's position. With `MaxSequence` 2 the target changes inside the
  handler's window by loss or reconnect only; the theorem `GuardedWritesAreFresh` is about
  every bound.
- `controls_polls` — the same controls on one connection that may be lost or stopped, a
  longer sequence, and five appearances of the target besides its absence (`MCTargets`),
  so that matches appear and disappear between polls and each refusal is reached.
  Success is one snapshot in which every predicate matches, and a control comes back.

- `links` — two callers with one call each, two identities, topologies and link ids, two
  generations. Two calls are enough for two creations that race, or for a creation and
  a removal, with links that other clients make, claim and remove at any time; two ids are
  enough for an id to be reused while another link is visible. The ledger never outlives its
  connection, no identity comes to own a link that was visible before, and only claimed
  links are destroyed. A creation is confirmed for a link that shows the identity in its own
  properties, or that appeared after this identity had asked for its topology on this
  connection; the first is not evidence of a request, as any client may write such
  properties.
- `decoding` — about 2,150 pods (every type alone, nested in structs and in pods, every
  pair of properties of every kind, typed as specified or otherwise) with up to two
  edits, and some 900 payloads: a device whose profile and route parameters come in every
  order, nodes with parameters and mixers, graphs with any of their objects missing or out
  of place, defaults with up to two names each. A pod is parsed, perhaps edited, built
  and read back; a payload becomes a snapshot and the snapshot, after a loss of objects
  of one kind, is restored. Both end, so deadlock is not checked. What was written reads
  back as an equal value, provided that the values of properties are of the kinds that
  their specifications name (`OfTheirKinds`); `build_spa_pod` converts others with `bool()`,
  `int()` and `str()`, so that an Int for a String property comes back as a string and 0.75
  for an Int as 0. Numbers are equal if they are the same number, a double after rounding
  it to a float. An object that was not edited keeps the types that its specifications name.
  And whatever came back is written the same again, word for word. Embedded byte strings
  are left out of all of it (see the divergences below).

Violations (each is a finding in `PROJECT.json`, with the document it contradicts):

- `stale_execution` — between `install_object_manager` and `on_om_installed` of a new
  connection a request for the old generation passes every check and is executed.
- `waiters_at_shutdown` — a capture or reconnect posted before the loop quits is never
  answered.
- `ownership_from_topology` — a request is in the ledger before PipeWire answers. If
  another client links the same ports first, PipeWire refuses ours, nothing takes the
  entry back, and the other client's link is reported, and may be removed, as ours.

Further divergences that the models show, without a run of their own:

- `_core.pyi:410` says of `reconnect`: "Reconnect and return the newly synchronized
  generation." A call may read the generation while the object manager of the present
  connection is installing. That one installs and bumps the generation, the reconnect tears
  its connection down, and as soon as the next object manager has been created the call
  reports the generation of the connection that is gone (`ReconnectIsNew` without
  `~unsettled[r]` is violated).
- Two threads in `reconnect` share `call_completed` and a condition that is signalled, not
  broadcast (`lifecycle.c:20`): a caller that begins resets the flag before the other has
  seen it, or the one signal wakes the one whose source has not run. The other waits without
  a timeout (`ReconnectReturnsOrStop` is violated with `Reconnectors = {r1, r2}`).
- The observation specification asks of events for "enough state to update or invalidate an
  application projection" (`detached-runtime-observation/spec.md:41`). A client that has followed every event stands at
  the connection's position with a projection whose states, mixer values, port counts,
  profiles and routes are not those that a snapshot would show there (`projection.objects =
  world` instead of `Mirrors` is violated), and no event invalidates it.
- A capture by another thread discards events the client has not read; the client learns
  of it only from the next event (`RuntimeEvents`, `OtherCaptured`), while the
  observation specification asks that a missing sequence number be reported.
- The helpers that capture their own preflight (`set_default_node`, `set_stream_target`,
  their `clear_` forms, `select_device_*`, the managed links) raise `RuntimeError` when
  the connection is gone, where the others return a structured outcome
  (`ConfirmedMutation`, `Raised`).
- A capture posted before a disconnect and run after it returns an empty snapshot of the
  old generation; `clear_runtime_metadata` finds its entry absent in it and reports
  success (`ConfirmedMutation`, `Capture`).
- An identity that asks for a second topology while its first request is pending has its
  ledger entry replaced; the first link, when it appears, is nobody's (`Store`).
- `spa_pod.py:51` says that structured pods can be "round-tripped back into raw SPA data
  without losing structure". `_build_embedded_pod` takes a byte string for an encoded pod,
  so that an embedded Bytes pod raises or is written as something that cannot be read
  (`EmbedsBytes`). Where no specification names a type, an Id, Long or Fd is written as an
  Int and a Double as a Float, also in the items of a `params` Struct that is itself as
  specified; an empty array of Ids comes back with a `child_size` of 0; profile classes
  without a count get one; and a pod of an unknown type cannot be written at all. The values
  that Python sees are equal, the pods are not; `ReadsBackWhatWasWritten` claims no more
  than that.
- `runtime-contract-v1.md` says of a restored snapshot that a list of unresolved
  relationships "that does not match the restored contents is rejected"; an empty list
  is accepted whatever the contents (`RuntimeSnapshot`). What does not resolve is still
  computed anew, so `is_coherent` stays honest.
- One parameter that cannot be normalized (a profile with a negative index, say) makes
  the whole capture fail (`runtime_snapshot_from_payload`).

Two more observations are listed as hazards: a capture in the window of
`stale_execution` labels the new connection's objects with the old generation, and a
call handled while there is no object manager is reported as `runtime_stopped`.

Bounds: `MaxConnections`, `MaxSequence`, `MaxVersion` and `MaxRest` cap what the environment does;
the guards that use them belong to environment actions and to the start of client
calls, never to an answer somebody waits for. `PollCaptures` is guarded by `MaxSequence` for
the number of polls; the deadline ends the loop instead. `controls_loss` stops exploring
after the last control has returned (`CONSTRAINT SomeControlLeft`; the run has safety
properties only, all of them about running controls). Two connections are enough for
every pair (old generation, new generation); `Capacity` 1 and 2 reach overflow
within three events; `MaxGenerations` and the number of callers cap `ManagedLinks`,
`MaxEdits` the edits of a pod, and `MaxNesting` (2) the choices of choices whose default
the normalizer looks for; two readers or callers are enough for every race of two, and
the proofs cover the rest.

Fairness: weak fairness of the WirePlumber thread running the source at the head of
its context and leaving a loop that was told to quit (GLib's dispatching), and of a
Python thread that is inside a method and whose wait is over (the scheduler and the
GIL). A control inside
its polling loop looks at its clock again and again, so its deadline passes; that is
part of the same assumption (`ControlFairness`). Nothing is assumed of PipeWire, of
applications calling anything, or of the queue's timeouts running out. `ManagedLinks`,
`SpaPod` and `Snapshot` state no liveness and assume no fairness.

## Proofs

`RuntimeEventQueueProofs` proves for any finite set of readers, any capacity of at
least one and any positions (`QueueAssumption`):

- `TypeCorrect` — types, and that the buffer never exceeds the capacity;
- `ShapeHolds` — `QueueShape`; inductive together with the type invariant. The
  interesting cases are `publish` in sequence (the run grows at its end) and
  `popleft` (it shrinks at its start while its end stays at `_sequence`);
- `WakeupsHold` — `NoLostWakeup`. It needs one strengthening, `WaitersSleep`: whoever
  is on the waiters' list is inside `get`. Then every publication either finds
  nobody waiting or turns one waiter into a notified thread, and every taken event
  uses up at most one;
- `QueueImplementsStream` — the refinement, from the two invariants, action by action.

`WPConnectionProofs` proves for any set of reconnecting threads and any bounds:

- `ConnectionTypeCorrect` — types, and that there are never more generations than
  connections;
- `ReadyHolds` — a constructor that returned has a synchronized generation;
- `GenerationsAreOfConnections` — generations go up by one, and each is established on a
  connection made after the last one's;
- `ReconnectHolds` — a `reconnect` that reports success, and that did not read the
  generation while an object manager was installing, reports a generation founded on a
  connection made after that reading, for any number of threads in `reconnect`. The code
  compares generations, the theorem speaks of connections; `ReconnectInv` leads from one to
  the other (`ReconnectInvStep`). Two ghosts record the reading: `calledOn`, the connection
  of that moment, and `unsettled`, whether its object manager was installing. For a settled
  call, as long as it lasts, either the generation is still the one it read or the present
  one is of a later connection, and an object manager that is installing belongs to a later
  connection too (`NewToCall`), so that the next `on_om_installed` cannot found a generation
  on the old one. `LifeInv` (what each place of `reconnect`, `stop` and the thread says about
  the flags) and `StopPosted` (between posting and running it, the source that ends the loop
  is attached exactly once) complete the invariant.

They rest on one inductive invariant, `ConnInv`. Its heart is `GenerationInv`: an object
manager exists only while the core is up, and one that is not installed yet belongs to a
connection later than `founded`, the connection of the last generation. Without that,
nothing would stop `on_om_installed` from founding two generations on one connection.
`StartInv` adds what `started` stands for: an error or a generation. `ConnInv` says
nothing of the attached sources, so that the modules that attach sources of their own
can reuse its lemmas (`ThreadConnInv`, `PythonConnInv`); the type of `sources` is a
second induction (`SourcesStep`).

`ManagedLinksProofs` proves for any sets of identities, topologies, link ids and callers,
and any number of generations (`NoneAssumption` only keeps `None` apart):

- `LinksTypeCorrect`, `LedgerDiesWithConnection`, `VisibleIsNeverAdopted` — the three
  invariants of the run `links`;
- `RemovalIsClaimed` and `ConfirmationIsOwned` — its two action properties.

They rest on `LinksInv`, the three invariants with two more. `AnswersAreRequested` says
that what PipeWire may still answer was asked for on this connection. `CallsAreAbout` gives
a call that is under way the identity and topology it began with. `ObservedIsOwned` says
what a lookup is worth: a link that a snapshot gives to an identity either shows it, or the
ledger's entry for the link's topology is that identity's; then the link was not visible when
the entry was made (`NeverAdoptsVisible`) and the entry was requested on this connection
(`LedgerOfThisConnection`), from which `ConfirmationIsOwned` follows at each place that
confirms. `RemovalIsClaimed` follows because the handler compares the link
of that id with the ledger's entry for the identity, and `NeverAdoptsVisible` makes every
holder of a visible topology a known one.

`MutationDispatchProofs` proves for any finite set of callers and of reconnecting threads
(`DispatchAssumption`) the invariants of the run `dispatch`, each as
`DispatchSpec => []...`: `DispatchTypeCorrect`, `NoDispatchIsLost`, `NobodyIsOrphaned`,
`TicketsTellExecution` and `ExecutionIsInOrder`; and, of the places given out,
`OrdersAreDense`. They rest on
`DispatchInv`, which adds to the connection's invariants

- `CallInv` — who is queued, popped or done: the queue holds each queued call once and
  nobody else, `current` is the popped call, and what has been executed is what the ticket
  of a completed call says. This is what makes the race between the handler and
  `cancel_pending` harmless: a cancellation reaches queued calls only;
- `ScheduleInv` — the flag, the attached sources and the handler's place as
  `NoLostDispatch` states them. It is about positions in `sources`, so each step is first
  reduced to "one source less at the head", "one more at the end" or "none"
  (`DispatchSourcesStep`, from `SourcesMove`);
- `EndInv` — once `stop` has cancelled, nothing is queued any more, since
  `stop_requested` is set under the lock under which a submission looks at it;
- `QueueOrderInv`, `LogInv` — queued calls, the call in hand and executed mutations follow
  each other within a generation; `AssignedInv` — the orders given out are those up to
  `order`, none if the generation has none yet.

The dispatcher's part of it, `CallsInv`, does not depend on who submits what: it is proved
for every step that is a cancellation, a submission with any expected sequence, a step of
the handler or none of these (`DispatchMove`), and the controls use it as it is.

`ConfirmedMutationProofs` proves for any finite set of controls and any appearances of
the target (`ControlAssumption`, which only types them) the four invariants of the runs
`controls_loss` and `controls_polls`: `ControlTypeCorrect`, `OutcomesTellExecution`,
`ConfirmationIsOneSnapshot` and `GuardedWritesAreFresh`; and that the dispatcher keeps its
promises when the controls are its callers (`ControlsKeepTheDispatcher`). They rest on
`ControlInv`, the invariants of the connection and of the calls with, for each control,

- `CaptureOf` — one capture source of it at most, and only while it waits for one;
- `PhaseOf` — its place tells how far its call has come: none before the dispatch, an
  executed one while it polls, none under way when it is done;
- `AnswerOf` — what it has answered is true of its call, and what it has confirmed so far
  is of one snapshot. The answers of each helper are judged once, apart from the steps
  (`PreflightIsJudged`, `UnavailableFacts`, `TicketFacts`);
- `FreshOf` — the argument for a guarded write. A position *follows* what happens to the
  target: it is never ahead of the connection, and whatever has happened since has moved
  the connection on from it, unless the connection is being stopped (`Follows`). That
  is so of the caller's position until the preflight capture, then of the capture's, if it
  is the next one (`SeenOf`), then of the one the call carries (`CarriedOf`). `SinceMoves`
  shows that nothing happens to the target without a sequence number, a new generation or
  `stop_requested`, and that nothing happens at all while the handler is between its check and
  the execution.

A step is one of the control's own (`OwnKeeps`) or one that it looks on at (`Bystander`).

`RuntimeEventsProofs` proves for any finite sets of objects and capturers and any
capacity of at least one (`EventsAssumption`, which also keeps `NoObject` and `Client`
apart from them): `EventsTypeCorrect`, `NothingIsSkipped`, `NoWakeupIsLost` and
`ProjectionIsExact`. `ReadEverythingIsCurrent` proves `CaughtUpIsCurrent` for a
client that is the only one to capture (`Capturers = {}`); with others it does not
hold, see the divergences above, and the run that checks it has none either. Parts of
`EventsInv`:

- `BufferOK` — the queue is within its capacity, its events follow one another without a
  gap and are not ahead of the connection, the last one stands at the connection's
  position unless events were dropped, and an overflowed queue holds at most its notice;
- `Placed` and `Faithful`, about the queue as seen from the client's position: everything
  in it is newer than the client, an overflowed queue begins with the notice, and if its
  events lead one by one from the client's position to the connection's, then the newest
  record that client and queue have of each object *tracks* the runtime's (`Tracks`): they
  agree on what events tell, and for a parameter, as long as its owner has neither come nor
  gone since that record was taken (its count of that never goes down). A silent change
  keeps that (`KeepsTracks`). This is the strengthening of `PositionDeterminesState` (its
  case of an empty queue): without it nothing would be known of a client that is two events
  behind. Both hold of the
  projection, or, between a capture and its adoption, of the captured snapshot
  (`BaseInv`);
- `CaptureInv`, `OpenInv`, `ReaderInv` — the client's capture is attached at most once and
  only while it waits for it, publication closes only on the way out, and who sleeps
  waits on an empty, open queue.

The actions of the module do few different things to the queue, so each is first mapped to
one of `Silent`, `PublishedOne`, `PublishedTwo`, `CapturedStep` or a step of the client
(`VisibleStep`), and the invariants are proved for those. The newest event about an object
is found without induction: a nonempty set of positions has a largest element because
strict inclusion of finite sets is well-founded (`Newest`). `SoleInv` adds, for
`ReadEverythingIsCurrent`, that the queue goes on exactly where the client stands or
begins with an event that requires a snapshot.

`MutationLineProofs` proves that the dispatcher implements `MutationLine` for any number
of callers (`DispatcherIsALine`), from the same inductive invariant:

- `InLineFacts` — the call in the handler's hands and the queue after it are one line, in
  which each outstanding call stands once (from `CallInv`);
- each move of the dispatcher has its abstract step: `PopIsQuiet`, `RestIsQuiet` (the line
  stays), `EnqueueIsJoin`, `RefusalIsRefuse`, `InstallIsNewGeneration`, `CancelsIsCancel`
  (what the handler has is all that remains of the line) and `CompleteIsServeOrTurnAway`,
  which is where `LogInv` is needed: between check and execution no generation is founded.

As these lemmas are about `DispatchMove` and `CallsInv` only, they hold as well when the
callers are the confirmed controls: `ControlsStandInLine` in `ConfirmedMutationProofs`.

`SnapshotProofs` proves for any payloads whose collections are sequences and whose nodes
have identities (`PayloadAssumption`), and for any parser of pods, `CoherenceHolds` and
`SelectionHolds`: the two properties of snapshots that the run `decoding` checks. They rest
on `SnapInv` (`SnapInvariant`): a snapshot is what `runtime_snapshot_from_payload` makes of
the payload, and what was restored is `Honest`, that is, its objects are `Listed` where they
belong and, if nothing is listed as unresolved, every reference is `Resolved`. The property
itself is not inductive: that a coherent snapshot can be navigated says nothing of one
that is not, and a loss of objects can make one coherent. Along the way:

- `Summarises` is the invariant of the two loops that merge profiles and routes: a key of
  each value seen, one of the values under its own key, and an active one wherever there is
  one. The loops are recursive functions; that they satisfy their equations, and the
  invariant after every pass, is shown by induction. The library states induction with an
  operator parameter; here it is obtained from the least element of a nonempty set of numbers
  (`LeastNat`, `UpTo`), which exists because `<` is well-founded. From there `SelectionHolds`
  follows a value back to the parameter that brought it (`ReadOfKindIs`, `ProfileRead`,
  `RouteRead`);
- `NothingUnresolved` — the list of unresolved relationships is empty exactly if everything
  resolves: none is forgotten and none is reported in vain;
- `CoherentIsNavigable`, `LostKeepsListed` — what is listed and resolved leads back as well,
  and a loss of objects of one kind keeps the rest listed, so that a restored snapshot is as
  honest as a captured one (`RestoredHonest`);
- `CompleteIsResolved` — a payload that lacks nothing gives a coherent snapshot.

Only model-checked: liveness (`CallersReturn`, `StopReturns`, `ReconnectReturnsOrStop`,
`ControlsReturn`, `StopReleasesReader`, `CloseReleases`, `LossReleases`, `Drains`), as
fairness is beyond the proofs; the codec's `ReadsBackWhatWasWritten`, whose parser and
builder are RECURSIVE operators over the nesting of pods, which the proof system cannot
follow; and the three violations, which are counterexamples. A recursive *function* can be
proved about, as the merges are.

## Not modelled

Failing allocations, two threads in `stop` at once, the constructor's hold on the GIL,
and request parsing. Of the codec: plain dictionaries that a client gives for typed
objects, the length of what `str()` and `bytes()` make of values of other kinds, `str()` of
the keys and values of an info dictionary, and bodies shorter than their type. Of
the snapshots: audio formats, choices in normalized values, health, metadata entries,
free properties, and the checks of the payload's fields, version and types. Legacy calls and proxy
wrappers, the version check of the contract, the utilities and the release scripts are
not modelled at all (`PROJECT.json`). Metadata is in `RuntimeEvents` with the identities
the code gives it: a `metadata_changed` event names `<metadata>:<subject>:<key>`, a
snapshot names the metadata object, so the example client's projection of the entries
does not follow events, and `PositionDeterminesState` is about the presence of the metadata
object only.

## Plan

1. Core (done): queue, connection, dispatcher, native events with the client.
2. `ConfirmedMutation`, `ManagedLinks`, `SpaPod` and `Snapshot` (done), and the proofs
   about `RuntimeEventQueue`, `WPConnection` and `ManagedLinks` (done).
3. Proofs about `MutationDispatch` with its refinement of `MutationLine`, `RuntimeEvents`,
   `ConfirmedMutation` and `Snapshot` (done).
4. `LegacyCall`: the completion slot that `sync`, `get_nodes`, `get_metadata`,
   `get_modules`, `load_module` and `reconnect` share.
