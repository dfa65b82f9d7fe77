------------------------------ MODULE WPConnection -----------------------------
(***************************************************************************)
(* The life of one native connection: wp_connection.c and lifecycle.c.     *)
(*                                                                         *)
(* One WirePlumber thread runs a GLib main loop.  Signals of the WpCore    *)
(* and of the object manager (external: PipeWire decides when) and idle    *)
(* sources attached by Python threads are the steps of that thread, one    *)
(* callback at a time.  Python threads run the constructor, reconnect(),   *)
(* stop() and the deallocator.  Idle sources have one priority, so they    *)
(* run in the order in which they were attached.                           *)
(*                                                                         *)
(* RuntimeEvents and MutationDispatch extend this module: each conjoins to *)
(* these callbacks what they do to its own state.  `sequence' is kept here *)
(* because the lifecycle callbacks reset and advance it (new_event).       *)
(***************************************************************************)
EXTENDS Integers, Sequences, FiniteSets

CONSTANTS
    Reconnectors,    \* threads calling reconnect()
    MaxConnections,  \* bound: connections PipeWire grants
    MaxSequence      \* bound: sequence beyond which nothing more happens to objects
                     \* or to a connection by itself

ASSUME ConnectionAssumption ==
    /\ IsFiniteSet(Reconnectors)
    /\ MaxConnections \in Nat
    /\ MaxSequence \in Nat

VARIABLES
    core,            \* WpCore, external: "down", "connecting" or "up"
    mixer_api,       \* the mixer-api plugin has been loaded
    om,              \* c->om: "none", "installing" or "installed"
    generation,      \* c->generation
    sequence,        \* c->sequence
    started,         \* c->started
    start_error,     \* c->start_error was set
    stop_requested,  \* c->stop_requested
    loop,            \* the thread: "starting", "running", "quit", "exited"
    sources,         \* idle sources attached to c->ctx and not run yet
    call_completed,  \* c->call_completed, the slot reconnect() waits on
    init,            \* the constructor: "waiting", "returned", "failed"
    rpc,             \* where each thread is in reconnect()
    previous,        \* previous_generation of each reconnect()
    accepted,        \* data.accepted of each reconnect()
    result,          \* how the last reconnect() of each thread ended
    stopper,         \* where stop() or the deallocator is
    connection,      \* ghost: number of the connection the core is on
    founded,         \* ghost: connection on which `generation' was established
    calledOn,        \* ghost: the connection when each reconnect() read the generation
    unsettled        \* ghost: whether its object manager was still installing then

lifeVars == <<core, mixer_api, om, started, start_error, loop, init,
              connection, founded>>
reconnectVars == <<call_completed, rpc, previous, accepted, result, calledOn,
                   unsettled>>
stopVars == <<stop_requested, stopper>>
connVars == <<lifeVars, generation, sequence, sources, reconnectVars, stopVars>>

ReconnectSource(r) == <<"reconnect", r>>
StopSource == <<"stop", "stop">>

Init ==
    /\ core = "down" /\ mixer_api = FALSE /\ om = "none"
    /\ generation = 0 /\ sequence = 0
    /\ started = FALSE /\ start_error = FALSE /\ stop_requested = FALSE
    /\ loop = "starting" /\ sources = <<>> /\ call_completed = FALSE
    /\ init = "waiting" /\ stopper = "idle"
    /\ rpc = [r \in Reconnectors |-> "idle"]
    /\ previous = [r \in Reconnectors |-> 0]
    /\ accepted = [r \in Reconnectors |-> FALSE]
    /\ result = [r \in Reconnectors |-> "none"]
    /\ connection = 0 /\ founded = 0
    /\ calledOn = [r \in Reconnectors |-> 0]
    /\ unsettled = [r \in Reconnectors |-> FALSE]

-----------------------------------------------------------------------------
(* The WirePlumber thread: start and signals.                              *)

(* Slip: the object manager is created before the core is connected. *)
InstallWhileConnecting(coreNow, mixerNow, omNow) ==
    IF mixerNow /\ omNow = "none" THEN "installing" ELSE omNow

(* install_object_manager(): c->om is set here; "installed" fires later. *)
install_object_manager(coreNow, mixerNow, omNow) ==
    IF coreNow = "up" /\ mixerNow /\ omNow = "none" THEN "installing" ELSE omNow

(* wp_thread_main() up to g_main_loop_run(): wp_core_connect() refuses, or  *)
(* is under way, or has already connected.                                  *)
StartThread ==
    /\ loop = "starting"
    /\ \/ /\ start_error' = TRUE /\ started' = TRUE /\ loop' = "exited"
          /\ UNCHANGED <<core, connection>>
       \/ /\ core' = "connecting" /\ loop' = "running"
          /\ UNCHANGED <<connection, start_error, started>>
       \/ /\ connection < MaxConnections
          /\ core' = "up" /\ connection' = connection + 1 /\ loop' = "running"
          /\ UNCHANGED <<start_error, started>>
    /\ UNCHANGED <<mixer_api, om, init, founded, generation, sequence, sources,
                   reconnectVars, stopVars>>

(* on_core_connected() *)
CoreConnected ==
    /\ loop = "running" /\ core = "connecting"
    /\ connection < MaxConnections
    /\ core' = "up"
    /\ connection' = connection + 1
    /\ om' = install_object_manager("up", mixer_api, om)
    /\ UNCHANGED <<mixer_api, started, start_error, loop, init, founded,
                   generation, sequence, sources, reconnectVars, stopVars>>

(* on_mixer_api_loaded(), with the component and without it *)
MixerLoaded ==
    /\ loop = "running" /\ ~mixer_api /\ ~start_error
    /\ mixer_api' = TRUE
    /\ om' = install_object_manager(core, TRUE, om)
    /\ UNCHANGED <<core, started, start_error, loop, init, connection, founded,
                   generation, sequence, sources, reconnectVars, stopVars>>

MixerFailed ==
    /\ loop = "running" /\ ~mixer_api /\ ~start_error
    /\ start_error' = TRUE /\ started' = TRUE /\ loop' = "quit"
    /\ UNCHANGED <<core, mixer_api, om, init, connection, founded, generation,
                   sequence, sources, reconnectVars, stopVars>>

(* on_om_installed(), with the "connected" event it publishes: sequence 1. *)
OmInstalled ==
    /\ loop = "running" /\ om = "installing"
    /\ om' = "installed"
    /\ generation' = generation + 1
    /\ sequence' = 1
    /\ started' = TRUE
    /\ founded' = connection
    /\ UNCHANGED <<core, mixer_api, start_error, loop, init, connection,
                   sources, reconnectVars, stopVars>>

(* The sequence after on_core_disconnected(): it publishes "disconnected"  *)
(* unless the connection has not started or is stopping.                   *)
SequenceAfterDisconnect ==
    IF started /\ ~stop_requested THEN sequence + 1 ELSE sequence

(* on_core_disconnected() when the daemon goes away. *)
CoreLost ==
    /\ loop = "running" /\ core # "down"
    /\ sequence <= MaxSequence
    /\ core' = "down" /\ om' = "none"
    /\ sequence' = SequenceAfterDisconnect
    /\ UNCHANGED <<mixer_api, started, start_error, loop, init, connection,
                   founded, generation, sources, reconnectVars, stopVars>>

(* An object event or a capture: the object manager exists, the sequence    *)
(* moves on.  RuntimeEvents spells the cases out.                           *)
Observe ==
    /\ loop = "running" /\ om # "none" /\ started /\ ~stop_requested
    /\ sequence < MaxSequence
    /\ sequence' = sequence + 1
    /\ UNCHANGED <<lifeVars, generation, sources, reconnectVars, stopVars>>

-----------------------------------------------------------------------------
(* The WirePlumber thread: idle sources.  A source of the batch in which    *)
(* stop ran may still run after g_main_loop_quit().                         *)

NextSource(s) ==
    /\ loop \in {"running", "quit"}
    /\ sources # <<>>
    /\ Head(sources) = s
    /\ sources' = Tail(sources)

(* g_cond_signal(call_cond): one of the callers that sleep on it is woken,   *)
(* whichever it is.                                                          *)
SignalCall ==
    IF \E r \in Reconnectors : rpc[r] = "asleep"
    THEN \E r \in Reconnectors :
            rpc[r] = "asleep" /\ rpc' = [rpc EXCEPT ![r] = "posted"]
    ELSE UNCHANGED rpc

(* Slip: a core that refuses to connect leaves the caller without an answer. *)
RunReconnectUnanswered(r) ==
    /\ NextSource(ReconnectSource(r))
    /\ sequence' = IF core = "up" THEN SequenceAfterDisconnect ELSE sequence
    /\ om' = IF core = "up" THEN "none" ELSE om
    /\ \/ /\ core' = "connecting" /\ accepted' = [accepted EXCEPT ![r] = TRUE]
          /\ call_completed' = TRUE
          /\ SignalCall
       \/ core' = "down" /\ UNCHANGED <<accepted, call_completed, rpc>>
    /\ UNCHANGED <<mixer_api, started, start_error, loop, init, connection,
                   founded, generation, previous, result, calledOn, unsettled,
                   stopVars>>

(* reconnect_on_wp_thread(): wp_core_disconnect() calls                     *)
(* on_core_disconnected() before it returns; wp_core_connect() may refuse.  *)
(* A caller that another one's signal has sent home leaves its source       *)
(* behind, whose write to data.accepted then goes to a frame that is gone:  *)
(* it is taken to meet the frame of the same thread's next call.            *)
RunReconnect(r) ==
    /\ NextSource(ReconnectSource(r))
    /\ sequence' = IF core = "up" THEN SequenceAfterDisconnect ELSE sequence
    /\ om' = IF core = "up" THEN "none" ELSE om
    /\ \/ /\ core' = "connecting" /\ accepted' = [accepted EXCEPT ![r] = TRUE]
       \/ /\ core' = "down" /\ accepted' = [accepted EXCEPT ![r] = FALSE]
    /\ call_completed' = TRUE
    /\ SignalCall
    /\ UNCHANGED <<mixer_api, started, start_error, loop, init, connection,
                   founded, generation, previous, result, calledOn, unsettled,
                   stopVars>>

(* Slip: stop never leaves the main loop when the core is already down. *)
StopOnlyWhenConnected ==
    /\ NextSource(StopSource)
    /\ core' = IF core = "up" THEN "down" ELSE core
    /\ om' = IF core = "up" THEN "none" ELSE om
    /\ sequence' = sequence + 1
    /\ loop' = IF core = "up" THEN "quit" ELSE loop
    /\ UNCHANGED <<mixer_api, started, start_error, init, connection, founded,
                   generation, reconnectVars, stopVars>>

(* stop_on_wp_thread(): publishes "stopped" and leaves the main loop. *)
RunStop ==
    /\ NextSource(StopSource)
    /\ core' = IF core = "up" THEN "down" ELSE core
    /\ om' = IF core = "up" THEN "none" ELSE om
    /\ sequence' = sequence + 1
    /\ loop' = "quit"
    /\ UNCHANGED <<mixer_api, started, start_error, init, connection, founded,
                   generation, reconnectVars, stopVars>>

(* The end of wp_thread_main(): releasing the core disconnects it, and the  *)
(* sources that are still attached go away with the context.                *)
ExitThread ==
    /\ loop = "quit"
    /\ loop' = "exited"
    /\ sequence' = IF core = "up" THEN SequenceAfterDisconnect ELSE sequence
    /\ core' = "down" /\ om' = "none" /\ mixer_api' = FALSE
    /\ sources' = <<>>
    /\ UNCHANGED <<started, start_error, init, connection, founded, generation,
                   reconnectVars, stopVars>>

-----------------------------------------------------------------------------
(* Python threads.                                                         *)

(* Slip: the constructor forgets to look at start_error. *)
InitIgnoringError ==
    /\ init = "waiting" /\ started
    /\ init' = "returned"
    /\ UNCHANGED <<core, mixer_api, om, started, start_error, loop, connection,
                   founded, generation, sequence, sources, reconnectVars, stopVars>>

(* WPConnection_init() after its wait for `started'. *)
InitReturns ==
    /\ init = "waiting" /\ started
    /\ init' = IF start_error THEN "failed" ELSE "returned"
    /\ UNCHANGED <<core, mixer_api, om, started, start_error, loop, connection,
                   founded, generation, sequence, sources, reconnectVars, stopVars>>

(* WPConnection_reconnect(): the check, cancelling queued mutations, reading *)
(* the generation and attaching the source are separate critical sections.   *)
ReconnectCheck(r) ==
    /\ init = "returned" /\ rpc[r] = "idle"
    /\ stopper # "joined" /\ loop # "exited" /\ ~stop_requested
    /\ rpc' = [rpc EXCEPT ![r] = "checked"]
    /\ UNCHANGED <<lifeVars, generation, sequence, sources, call_completed,
                   previous, accepted, result, calledOn, unsettled, stopVars>>

ReconnectCancel(r) ==
    /\ rpc[r] = "checked"
    /\ rpc' = [rpc EXCEPT ![r] = "cancelled"]
    /\ UNCHANGED <<lifeVars, generation, sequence, sources, call_completed,
                   previous, accepted, result, calledOn, unsettled, stopVars>>

ReconnectRead(r) ==
    /\ rpc[r] = "cancelled"
    /\ previous' = [previous EXCEPT ![r] = generation]
    /\ calledOn' = [calledOn EXCEPT ![r] = connection]
    /\ unsettled' = [unsettled EXCEPT ![r] = (om = "installing")]
    /\ accepted' = [accepted EXCEPT ![r] = FALSE]
    /\ rpc' = [rpc EXCEPT ![r] = "read"]
    /\ UNCHANGED <<lifeVars, generation, sequence, sources, call_completed,
                   result, stopVars>>

(* A context that is already gone never runs the source. *)
ReconnectPost(r) ==
    /\ rpc[r] = "read"
    /\ call_completed' = FALSE
    /\ sources' = IF loop = "exited" THEN sources
                  ELSE Append(sources, ReconnectSource(r))
    /\ rpc' = [rpc EXCEPT ![r] = "posted"]
    /\ UNCHANGED <<lifeVars, generation, sequence, previous, accepted, result,
                   calledOn, unsettled, stopVars>>

(* The first wait: for call_completed only, with no look at stop_requested.  *)
(* The slot is that of every caller, and a source signals one sleeper.       *)
ReconnectSleeps(r) ==
    /\ rpc[r] = "posted" /\ ~call_completed
    /\ rpc' = [rpc EXCEPT ![r] = "asleep"]
    /\ UNCHANGED <<lifeVars, generation, sequence, sources, call_completed,
                   previous, accepted, result, calledOn, unsettled, stopVars>>

ReconnectPosted(r) ==
    /\ rpc[r] = "posted" /\ call_completed
    /\ rpc' = [rpc EXCEPT ![r] = IF accepted[r] THEN "waiting" ELSE "idle"]
    /\ result' = [result EXCEPT ![r] = IF accepted[r] THEN @ ELSE "rejected"]
    /\ UNCHANGED <<lifeVars, generation, sequence, sources, call_completed,
                   previous, accepted, calledOn, unsettled, stopVars>>

(* Slip: success is judged by the object manager alone. *)
ReconnectTrustingOm(r) ==
    /\ rpc[r] = "waiting"
    /\ rpc' = [rpc EXCEPT ![r] = "idle"]
    /\ result' = [result EXCEPT ![r] = IF om # "none" THEN "connected" ELSE "timeout"]
    /\ UNCHANGED <<lifeVars, generation, sequence, sources, call_completed,
                   previous, accepted, calledOn, unsettled, stopVars>>

(* The second wait ends: a newer generation, a stop, or the deadline. *)
ReconnectReturns(r) ==
    /\ rpc[r] = "waiting"
    /\ rpc' = [rpc EXCEPT ![r] = "idle"]
    /\ result' = [result EXCEPT ![r] =
                     IF generation > previous[r] /\ om # "none"
                     THEN "connected" ELSE "timeout"]
    /\ UNCHANGED <<lifeVars, generation, sequence, sources, call_completed,
                   previous, accepted, calledOn, unsettled, stopVars>>

(* WPConnection_stop(): flag, cancelling queued mutations, source, join. *)
StopRequest ==
    /\ init = "returned" /\ stopper = "idle"
    /\ stop_requested' = TRUE
    /\ stopper' = "requested"
    /\ UNCHANGED <<lifeVars, generation, sequence, sources, reconnectVars>>

StopCancel ==
    /\ stopper = "requested"
    /\ stopper' = "cancelled"
    /\ UNCHANGED <<lifeVars, generation, sequence, sources, reconnectVars,
                   stop_requested>>

StopPost ==
    /\ stopper = "cancelled"
    /\ sources' = Append(sources, StopSource)
    /\ stopper' = "joining"
    /\ UNCHANGED <<lifeVars, generation, sequence, reconnectVars, stop_requested>>

StopJoin ==
    /\ stopper = "joining" /\ loop = "exited"
    /\ stopper' = "joined"
    /\ UNCHANGED <<lifeVars, generation, sequence, sources, reconnectVars,
                   stop_requested>>

(* WPConnection_dealloc(): no method runs, so the last reference is gone;   *)
(* the loop is told to quit directly, without a source.                     *)
Dealloc ==
    /\ init # "waiting" /\ stopper = "idle"
    /\ \A r \in Reconnectors : rpc[r] = "idle"
    /\ stop_requested' = TRUE
    /\ loop' = IF loop = "running" THEN "quit" ELSE loop
    /\ stopper' = "joining"
    /\ UNCHANGED <<core, mixer_api, om, started, start_error, init, connection,
                   founded, generation, sequence, sources, reconnectVars>>

-----------------------------------------------------------------------------
RunSource == RunStop \/ \E r \in Reconnectors : RunReconnect(r)

Reconnect(r) ==
    \/ ReconnectCheck(r) \/ ReconnectCancel(r) \/ ReconnectRead(r)
    \/ ReconnectPost(r) \/ ReconnectSleeps(r) \/ ReconnectPosted(r)
    \/ ReconnectReturns(r)

Stop == StopRequest \/ StopCancel \/ StopPost \/ StopJoin

Next ==
    \/ StartThread \/ CoreConnected \/ MixerLoaded \/ MixerFailed \/ OmInstalled
    \/ CoreLost \/ Observe \/ RunSource \/ ExitThread
    \/ InitReturns \/ Stop \/ Dealloc
    \/ \E r \in Reconnectors : Reconnect(r)

Spec == Init /\ [][Next]_connVars

(* The WirePlumber thread runs its sources and leaves the loop when told    *)
(* to; a thread inside a method goes on when it can.  Nothing is assumed    *)
(* of PipeWire, nor that anybody calls stop() or reconnect().               *)
Fairness ==
    /\ WF_connVars(RunSource)
    /\ WF_connVars(ExitThread)
    /\ WF_connVars(StopCancel \/ StopPost \/ StopJoin)
    /\ \A r \in Reconnectors :
          /\ WF_connVars(ReconnectCancel(r) \/ ReconnectRead(r) \/ ReconnectPost(r))
          /\ WF_connVars(ReconnectSleeps(r) \/ ReconnectPosted(r)
                            \/ ReconnectReturns(r))

FairSpec == Spec /\ Fairness
-----------------------------------------------------------------------------
(* The part of the type invariant that extending modules share: they attach *)
(* sources of their own.                                                    *)
ConnTypeOK ==
    /\ core \in {"down", "connecting", "up"}
    /\ mixer_api \in BOOLEAN
    /\ om \in {"none", "installing", "installed"}
    /\ started \in BOOLEAN /\ start_error \in BOOLEAN /\ stop_requested \in BOOLEAN
    /\ loop \in {"starting", "running", "quit", "exited"}
    /\ call_completed \in BOOLEAN
    /\ init \in {"waiting", "returned", "failed"}
    /\ rpc \in [Reconnectors -> {"idle", "checked", "cancelled", "read",
                                 "posted", "asleep", "waiting"}]
    /\ previous \in [Reconnectors -> Nat]
    /\ accepted \in [Reconnectors -> BOOLEAN]
    /\ result \in [Reconnectors -> {"none", "rejected", "timeout", "connected"}]
    /\ calledOn \in [Reconnectors -> Nat]
    /\ unsettled \in [Reconnectors -> BOOLEAN]
    /\ stopper \in {"idle", "requested", "cancelled", "joining", "joined"}
    /\ sequence \in Nat
    /\ connection \in Nat
    /\ founded \in 0..connection
    /\ generation \in 0..connection

TypeOK ==
    /\ ConnTypeOK
    /\ sources \in Seq({StopSource} \cup {ReconnectSource(r) : r \in Reconnectors})

(* Each generation is established on a connection of its own: the next one   *)
(* is one higher and belongs to a connection made after the last one's, and  *)
(* no step takes a generation back (on_om_installed, install_object_manager).*)
OneGenerationPerConnection ==
    [][generation' # generation =>
          /\ generation' = generation + 1
          /\ founded < founded']_connVars

(* A constructor that returned has a synchronized generation behind it.      *)
ReadyHasGeneration == init = "returned" => generation >= 1

(* A reconnect() is about to report the generation it returns.               *)
ReportsSuccess(r) ==
    rpc[r] = "waiting" /\ rpc'[r] = "idle" /\ result'[r] = "connected"

(* A reconnect() called while no object manager was installing reports only  *)
(* a generation of a connection made after it read the generation: whatever  *)
(* is lost, refused or torn down meanwhile, and whoever else reconnects      *)
(* (WPConnection_reconnect, on_om_installed, install_object_manager).  It is *)
(* not so of a call that reads the generation while one is installing: that  *)
(* one may bump the generation before the call tears its connection down.    *)
ReconnectIsNew ==
    [][\A r \in Reconnectors :
          (ReportsSuccess(r) /\ ~unsettled[r]) => calledOn[r] < founded]_connVars

(* stop() returns: the thread it joins ends, whatever PipeWire does.         *)
StopReturns == stop_requested ~> (stopper = "joined")

(* A reconnect() under way returns, or the connection is being stopped: with *)
(* one reconnecting thread the signal of its source is never lost.  With two *)
(* of them it may be: they share call_completed and one g_cond_signal.       *)
ReconnectReturnsOrStop ==
    \A r \in Reconnectors :
       (rpc[r] # "idle") ~> (rpc[r] = "idle" \/ stop_requested)
=============================================================================
