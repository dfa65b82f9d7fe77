--------------------------- MODULE WPConnectionProofs --------------------------
(***************************************************************************)
(* Proofs about WPConnection, for any number of reconnecting threads, of   *)
(* connections and of events.  What is said of everything but the attached *)
(* sources (ConnInv) is proved action by action, so that the modules that  *)
(* extend WPConnection and attach sources of their own can use it.         *)
(***************************************************************************)
EXTENDS WPConnection, TLAPS

(* Types, without the bound on generations, which needs GenerationInv.     *)
Shape ==
    /\ core \in {"down", "connecting", "up"}
    /\ mixer_api \in BOOLEAN
    /\ om \in {"none", "installing", "installed"}
    /\ started \in BOOLEAN /\ start_error \in BOOLEAN /\ stop_requested \in BOOLEAN
    /\ loop \in {"starting", "running", "quit", "exited"}
    /\ call_completed \in BOOLEAN
    /\ init \in {"waiting", "returned", "failed"}
    /\ rpc \in [Reconnectors -> {"idle", "checked", "cancelled", "read",
                                 "posted", "asleep", "waiting"}]
    /\ previous \in [Reconnectors -> Nat]
    /\ accepted \in [Reconnectors -> BOOLEAN]
    /\ result \in [Reconnectors -> {"none", "rejected", "timeout", "connected"}]
    /\ calledOn \in [Reconnectors -> Nat] /\ unsettled \in [Reconnectors -> BOOLEAN]
    /\ stopper \in {"idle", "requested", "cancelled", "joining", "joined"}
    /\ sequence \in Nat /\ connection \in Nat /\ founded \in Nat /\ generation \in Nat

(* Why a generation belongs to one connection: an object manager exists only *)
(* while the core is connected, and one that has not been installed yet is   *)
(* of a connection later than the last generation's.                         *)
GenerationInv ==
    /\ loop = "starting" => om = "none"
    /\ om # "none" => core = "up"
    /\ (core = "up" /\ om # "installed") => founded < connection
    /\ generation <= founded
    /\ founded <= connection

(* What the constructor waits for: an error, or a generation.                *)
StartInv ==
    /\ started => start_error \/ generation >= 1
    /\ init = "returned" => generation >= 1

ConnInv == Shape /\ GenerationInv /\ StartInv

(* Why the thread ends: an error at start, which the constructor reports, or *)
(* a stop() that has posted its source, or the deallocator.  The mixer API,  *)
(* once there, stays: it cannot fail after the constructor has returned.     *)
LifeInv ==
    /\ loop = "starting" => generation = 0
    /\ om # "none" => mixer_api
    /\ (generation >= 1 /\ loop \in {"starting", "running"}) => mixer_api
    /\ start_error => init # "returned"
    /\ loop \in {"quit", "exited"} => start_error \/ stopper \in {"joining", "joined"}
    /\ stopper # "idle" => stop_requested

(* The source of stop() is attached by stop() alone. *)
StopPosted ==
    \A i \in 1..Len(sources) : sources[i] = StopSource => stopper \in {"joining", "joined"}

(* The steps of the WirePlumber thread, and those of Python threads. *)
ThreadStep ==
    \/ StartThread \/ CoreConnected \/ MixerLoaded \/ MixerFailed \/ OmInstalled
    \/ CoreLost \/ Observe \/ ExitThread
    \/ RunStop \/ \E r \in Reconnectors : RunReconnect(r)

PythonStep ==
    \/ InitReturns \/ Stop \/ Dealloc \/ \E r \in Reconnectors : Reconnect(r)

-----------------------------------------------------------------------------
LEMMA InitConnInv == Init => ConnInv
<1> SUFFICES ASSUME Init PROVE ConnInv
  OBVIOUS
<1>1. Shape
  BY DEF Init, Shape
<1>2. GenerationInv /\ StartInv
  BY DEF Init, GenerationInv, StartInv
<1> QED
  BY <1>1, <1>2 DEF ConnInv

(* A signal moves at most one caller, from its sleep to the test of the slot. *)
LEMMA SignalMoves ==
    ASSUME SignalCall
    PROVE  rpc' = rpc \/ \E w \in Reconnectors :
                            rpc[w] = "asleep" /\ rpc' = [rpc EXCEPT ![w] = "posted"]
  BY DEF SignalCall

LEMMA ThreadConnInv == ConnInv /\ ThreadStep => ConnInv'
<1> SUFFICES ASSUME ConnInv, ThreadStep PROVE ConnInv'
  OBVIOUS
<1> USE DEF ConnInv, Shape, GenerationInv, StartInv, lifeVars, reconnectVars, stopVars
<1>1. CASE StartThread
  <2>1. Shape'
    <3>1. started' \in BOOLEAN /\ start_error' \in BOOLEAN
      BY <1>1 DEF StartThread
    <3>2. core' \in {"down", "connecting", "up"} /\ loop' \in {"running", "exited"}
      BY <1>1 DEF StartThread
    <3>3. connection' \in Nat
      BY <1>1 DEF StartThread
    <3>4. UNCHANGED <<mixer_api, om, init, founded, generation, sequence,
                      reconnectVars, stopVars>>
      BY <1>1 DEF StartThread
    <3> QED
      BY <3>1, <3>2, <3>3, <3>4
  <2>2. GenerationInv'
    BY <1>1 DEF StartThread
  <2>3. StartInv'
    BY <1>1 DEF StartThread
  <2> QED
    BY <2>1, <2>2, <2>3
<1>2. CASE CoreConnected
  BY <1>2 DEF CoreConnected, install_object_manager
<1>3. CASE MixerLoaded
  BY <1>3 DEF MixerLoaded, install_object_manager
<1>4. CASE MixerFailed
  BY <1>4 DEF MixerFailed
<1>5. CASE OmInstalled
  BY <1>5 DEF OmInstalled
<1>6. CASE CoreLost
  BY <1>6 DEF CoreLost, SequenceAfterDisconnect
<1>7. CASE Observe
  BY <1>7 DEF Observe
<1>8. CASE ExitThread
  <2>1. sequence' \in Nat
    BY <1>8 DEF ExitThread, SequenceAfterDisconnect
  <2>2. /\ mixer_api' = FALSE /\ core' = "down" /\ om' = "none" /\ loop' = "exited"
        /\ UNCHANGED <<started, start_error, init, connection, founded, generation,
                       reconnectVars, stopVars>>
    BY <1>8 DEF ExitThread
  <2> QED
    BY <2>1, <2>2
<1>9. CASE RunStop
  BY <1>9 DEF RunStop, NextSource
<1>10. ASSUME NEW r \in Reconnectors, RunReconnect(r) PROVE ConnInv'
  <2>1. sequence' \in Nat
    BY <1>10 DEF RunReconnect, SequenceAfterDisconnect
  <2>2. accepted' \in [Reconnectors -> BOOLEAN] /\ call_completed' = TRUE
    BY <1>10 DEF RunReconnect
  <2>3. om' = "none" /\ core' \in {"connecting", "down"}
    BY <1>10 DEF RunReconnect
  <2>4. /\ loop # "starting"
        /\ UNCHANGED <<mixer_api, started, start_error, loop, init, connection,
                       founded, generation, previous, result, calledOn, unsettled,
                       stopVars>>
    BY <1>10 DEF RunReconnect, NextSource
  <2>5. rpc' \in [Reconnectors -> {"idle", "checked", "cancelled", "read", "posted",
                                   "asleep", "waiting"}]
    BY <1>10, SignalMoves DEF RunReconnect
  <2> QED
    BY <2>1, <2>2, <2>3, <2>4, <2>5
<1> QED
  BY <1>1, <1>2, <1>3, <1>4, <1>5, <1>6, <1>7, <1>8, <1>9, <1>10 DEF ThreadStep

LEMMA PythonConnInv == ConnInv /\ PythonStep => ConnInv'
<1> SUFFICES ASSUME ConnInv, PythonStep PROVE ConnInv'
  OBVIOUS
<1> USE DEF ConnInv, Shape, GenerationInv, StartInv, lifeVars, reconnectVars, stopVars
<1>1. CASE InitReturns
  BY <1>1 DEF InitReturns
<1>2. CASE Stop
  <2>1. stop_requested' = TRUE \/ UNCHANGED stop_requested
    BY <1>2 DEF Stop, StopRequest, StopCancel, StopPost, StopJoin
  <2>2. stop_requested' \in BOOLEAN
    BY <2>1
  <2>3. /\ stopper' \in {"idle", "requested", "cancelled", "joining", "joined"}
        /\ UNCHANGED <<lifeVars, generation, sequence, reconnectVars>>
    BY <1>2 DEF Stop, StopRequest, StopCancel, StopPost, StopJoin
  <2> QED
    BY <2>2, <2>3
<1>3. CASE Dealloc
  BY <1>3 DEF Dealloc
<1>4. ASSUME NEW r \in Reconnectors, Reconnect(r) PROVE ConnInv'
  <2>1. CASE ReconnectCheck(r) \/ ReconnectCancel(r)
    BY <2>1 DEF ReconnectCheck, ReconnectCancel
  <2>2. CASE ReconnectRead(r)
    <3>1. (om = "installing") \in BOOLEAN
      OBVIOUS
    <3>2. unsettled' \in [Reconnectors -> BOOLEAN]
      BY <2>2, <3>1 DEF ReconnectRead
    <3> QED
      BY <2>2, <3>2 DEF ReconnectRead
  <2>3. CASE ReconnectPost(r)
    <3>1. /\ call_completed' = FALSE
          /\ rpc' = [rpc EXCEPT ![r] = "posted"]
          /\ UNCHANGED <<lifeVars, generation, sequence, previous, accepted,
                         result, calledOn, unsettled, stopVars>>
      BY <2>3 DEF ReconnectPost
    <3>2. call_completed' \in BOOLEAN
      BY <3>1
    <3> QED
      BY <3>1, <3>2
  <2>4. CASE ReconnectSleeps(r) \/ ReconnectPosted(r)
    BY <2>4 DEF ReconnectSleeps, ReconnectPosted
  <2>5. CASE ReconnectReturns(r)
    BY <2>5 DEF ReconnectReturns
  <2> QED
    BY <1>4, <2>1, <2>2, <2>3, <2>4, <2>5 DEF Reconnect
<1> QED
  BY <1>1, <1>2, <1>3, <1>4 DEF PythonStep

LEMMA StutterConnInv == ConnInv /\ UNCHANGED connVars => ConnInv'
  BY DEF ConnInv, Shape, GenerationInv, StartInv, connVars, lifeVars,
         reconnectVars, stopVars

LEMMA InitLifeInv == Init => LifeInv /\ StopPosted
  BY DEF Init, LifeInv, StopPosted

LEMMA StopPostedHead ==
    ASSUME NEW S, sources \in Seq(S), StopPosted, sources # <<>>, Head(sources) = StopSource
    PROVE  stopper \in {"joining", "joined"}
<1>1. 1 \in 1..Len(sources) /\ sources[1] = Head(sources)
  OBVIOUS
<1> QED
  BY <1>1 DEF StopPosted

LEMMA ThreadLifeInv ==
    ASSUME NEW S, sources \in Seq(S), ConnInv, LifeInv, StopPosted, ThreadStep
    PROVE  LifeInv'
<1> USE DEF LifeInv, lifeVars, reconnectVars, stopVars
<1>1. CASE StartThread
  BY <1>1 DEF StartThread, ConnInv, StartInv, GenerationInv
<1>2. CASE CoreConnected
  BY <1>2 DEF CoreConnected, install_object_manager
<1>3. CASE MixerLoaded
  BY <1>3 DEF MixerLoaded, install_object_manager
<1>4. CASE MixerFailed
  <2>1. ~mixer_api /\ loop = "running" /\ loop' = "quit" /\ start_error' = TRUE
    BY <1>4 DEF MixerFailed
  <2>2. init # "returned"
    BY <2>1 DEF ConnInv, StartInv, Shape
  <2>3. UNCHANGED <<mixer_api, om, init, generation, stopVars>>
    BY <1>4 DEF MixerFailed
  <2> QED
    BY <2>1, <2>2, <2>3
<1>5. CASE OmInstalled
  BY <1>5 DEF OmInstalled
<1>6. CASE CoreLost
  BY <1>6 DEF CoreLost
<1>7. CASE Observe
  BY <1>7 DEF Observe
<1>8. CASE ExitThread
  BY <1>8 DEF ExitThread
<1>9. CASE RunStop
  <2>1. sources # <<>> /\ Head(sources) = StopSource
    BY <1>9 DEF RunStop, NextSource
  <2>2. loop' = "quit" /\ (om' = om \/ om' = "none")
        /\ UNCHANGED <<mixer_api, start_error, init, generation, stopVars>>
    BY <1>9 DEF RunStop
  <2> QED
    BY <2>1, <2>2, StopPostedHead
<1>10. ASSUME NEW r \in Reconnectors, RunReconnect(r) PROVE LifeInv'
  BY <1>10 DEF RunReconnect
<1> QED
  BY <1>1, <1>2, <1>3, <1>4, <1>5, <1>6, <1>7, <1>8, <1>9, <1>10 DEF ThreadStep

LEMMA PythonLifeInv == ConnInv /\ LifeInv /\ PythonStep => LifeInv'
<1> SUFFICES ASSUME ConnInv, LifeInv, PythonStep PROVE LifeInv'
  OBVIOUS
<1> USE DEF LifeInv, lifeVars, reconnectVars, stopVars
<1>1. CASE InitReturns
  BY <1>1 DEF InitReturns, ConnInv, Shape
<1>2. CASE Stop
  <2>1. UNCHANGED <<mixer_api, om, start_error, init, loop, generation>>
    BY <1>2 DEF Stop, StopRequest, StopCancel, StopPost, StopJoin
  <2>2. stop_requested' = TRUE \/ (stop_requested' = stop_requested /\ stopper # "idle")
    BY <1>2 DEF Stop, StopRequest, StopCancel, StopPost, StopJoin
  <2>3. stopper \in {"joining", "joined"} => stopper' \in {"joining", "joined"}
    BY <1>2 DEF Stop, StopRequest, StopCancel, StopPost, StopJoin
  <2> QED
    BY <2>1, <2>2, <2>3
<1>3. CASE Dealloc
  BY <1>3 DEF Dealloc
<1>4. ASSUME NEW r \in Reconnectors, Reconnect(r) PROVE LifeInv'
  BY <1>4 DEF Reconnect, ReconnectCheck, ReconnectCancel, ReconnectRead,
     ReconnectPost, ReconnectSleeps, ReconnectPosted,
     ReconnectReturns
<1> QED
  BY <1>1, <1>2, <1>3, <1>4 DEF PythonStep

LEMMA ConnInvHolds == Spec => []ConnInv
<1>1. ConnInv /\ [Next]_connVars => ConnInv'
  <2> SUFFICES ASSUME ConnInv, [Next]_connVars PROVE ConnInv'
    OBVIOUS
  <2>1. CASE Next
    <3>1. ThreadStep \/ PythonStep
      BY <2>1 DEF Next, RunSource, ThreadStep, PythonStep
    <3> QED
      BY <3>1, ThreadConnInv, PythonConnInv
  <2>2. CASE UNCHANGED connVars
    BY <2>2, StutterConnInv
  <2> QED
    BY <2>1, <2>2
<1> QED
  BY InitConnInv, <1>1, PTL DEF Spec

-----------------------------------------------------------------------------
(* The sources attached to the context are the two kinds this module attaches. *)
SourceSet == {StopSource} \cup {ReconnectSource(r) : r \in Reconnectors}

SourcesOK == sources \in Seq(SourceSet)

LEMMA EmptyIsSeq == ASSUME NEW S PROVE <<>> \in Seq(S)
  OBVIOUS

LEMMA TailIsSeq ==
    ASSUME NEW S, NEW s \in Seq(S), s # <<>> PROVE Tail(s) \in Seq(S)
  OBVIOUS

LEMMA AppendIsSeq ==
    ASSUME NEW S, NEW s \in Seq(S), NEW e \in S PROVE Append(s, e) \in Seq(S)
  OBVIOUS

(* Positions of an element in a sequence. *)
At(s, e) == {i \in 1..Len(s) : s[i] = e}

LEMMA AtTail ==
    ASSUME NEW S, NEW s \in Seq(S), s # <<>>, NEW e
    PROVE  \A i \in Nat : i \in At(Tail(s), e) <=> (i + 1 \in At(s, e) /\ i >= 1)
  BY DEF At

LEMMA AtAppend ==
    ASSUME NEW S, NEW s \in Seq(S), NEW d \in S, NEW e
    PROVE  At(Append(s, d), e) = IF d = e THEN At(s, e) \cup {Len(s) + 1} ELSE At(s, e)
  BY DEF At

LEMMA AtEmpty == ASSUME NEW e PROVE At(<<>>, e) = {}
  BY DEF At

LEMMA AtHead ==
    ASSUME NEW S, NEW s \in Seq(S), s # <<>>, NEW e
    PROVE  1 \in At(s, e) <=> Head(s) = e
  BY DEF At

(* An element that is there at most once is there no more when it leaves the *)
(* head, and as before when another one does.                                *)
LEMMA AtOnceTail ==
    ASSUME NEW S, NEW s \in Seq(S), s # <<>>, NEW e, \A i, j \in At(s, e) : i = j
    PROVE  /\ \A i, j \in At(Tail(s), e) : i = j
           /\ At(Tail(s), e) = {} <=> At(s, e) = {} \/ Head(s) = e
<1>1. At(s, e) \subseteq Nat \ {0} /\ At(Tail(s), e) \subseteq Nat
  BY DEF At
<1>2. \A i \in Nat : i \in At(Tail(s), e) <=> (i + 1 \in At(s, e) /\ i >= 1)
  BY AtTail
<1>3. 1 \in At(s, e) <=> Head(s) = e
  BY AtHead
<1>4. ASSUME NEW i \in At(Tail(s), e), NEW j \in At(Tail(s), e) PROVE i = j
  <2>1. i \in Nat /\ j \in Nat /\ i + 1 \in At(s, e) /\ j + 1 \in At(s, e)
    BY <1>1, <1>2
  <2>2. i + 1 = j + 1
    BY <2>1
  <2> QED
    BY <2>1, <2>2
<1>5. ASSUME NEW k \in At(s, e), k # 1 PROVE At(Tail(s), e) # {} /\ Head(s) # e
  <2>1. k - 1 \in Nat /\ k - 1 >= 1 /\ (k - 1) + 1 = k
    BY <1>1, <1>5
  <2>2. k - 1 \in At(Tail(s), e)
    BY <2>1, <1>2
  <2> QED
    BY <2>2, <1>3, <1>5
<1>6. ASSUME NEW k \in At(Tail(s), e) PROVE At(s, e) # {} /\ Head(s) # e
  <2>1. k \in Nat /\ k + 1 \in At(s, e) /\ k + 1 # 1
    BY <1>1, <1>2
  <2> QED
    BY <2>1, <1>3
<1> QED
  BY <1>3, <1>4, <1>5, <1>6

(* The thread runs the next source; a source is attached behind the others. *)
Runs(s) == sources # <<>> /\ Head(sources) = s /\ sources' = Tail(sources)
Attaches(s) == sources' = Append(sources, s)

LEMMA StopperStep ==
    ASSUME ThreadStep \/ PythonStep \/ UNCHANGED stopVars
    PROVE  stopper \in {"joining", "joined"} => stopper' \in {"joining", "joined"}
  BY DEF ThreadStep, PythonStep, StartThread, CoreConnected, MixerLoaded, MixerFailed,
     OmInstalled, CoreLost, Observe, RunStop, RunReconnect, ExitThread, InitReturns,
     Dealloc, Stop, StopRequest, StopCancel, StopPost, StopJoin, Reconnect,
     ReconnectCheck, ReconnectCancel, ReconnectRead, ReconnectPost, ReconnectSleeps, ReconnectPosted,
     ReconnectReturns, stopVars

(* The sources in a module that attaches those of S, StopSource by StopPost. *)
LEMMA StopPostedStep ==
    ASSUME NEW S, sources \in Seq(S), StopPosted,
           stopper \in {"joining", "joined"} => stopper' \in {"joining", "joined"},
           \/ UNCHANGED sources \/ sources' = <<>>
           \/ \E s : Runs(s)
           \/ \E s \in S : Attaches(s) /\ (s = StopSource => stopper' = "joining")
    PROVE  sources' \in Seq(S) /\ StopPosted'
<1>1. StopPosted <=> (At(sources, StopSource) # {} => stopper \in {"joining", "joined"})
  BY DEF StopPosted, At
<1>2. StopPosted' <=> (At(sources', StopSource) # {} => stopper' \in {"joining", "joined"})
  BY DEF StopPosted, At
<1>3. CASE UNCHANGED sources
  BY <1>1, <1>2, <1>3
<1>4. CASE sources' = <<>>
  BY <1>2, <1>4, AtEmpty, EmptyIsSeq
<1>5. CASE sources # <<>> /\ sources' = Tail(sources)
  <2>1. sources' \in Seq(S)
    BY <1>5, TailIsSeq
  <2>2. ASSUME NEW i \in At(Tail(sources), StopSource) PROVE At(sources, StopSource) # {}
    <3>1. i \in Nat
      BY DEF At
    <3> QED
      BY <1>5, <2>2, <3>1, AtTail
  <2> QED
    BY <1>1, <1>2, <1>5, <2>1, <2>2
<1>6. ASSUME NEW s \in S, Attaches(s), s = StopSource => stopper' = "joining"
      PROVE  sources' \in Seq(S) /\ StopPosted'
  <2>1. sources' \in Seq(S)
    BY <1>6, AppendIsSeq DEF Attaches
  <2>2. At(sources', StopSource) =
          IF s = StopSource THEN At(sources, StopSource) \cup {Len(sources) + 1}
          ELSE At(sources, StopSource)
    BY <1>6, AtAppend DEF Attaches
  <2> QED
    BY <1>1, <1>2, <1>6, <2>1, <2>2
<1> QED
  BY <1>3, <1>4, <1>5, <1>6 DEF Runs

(* What a step of this module does to the sources. *)
LEMMA ConnectionSourcesMove ==
    ASSUME [Next]_connVars
    PROVE  \/ UNCHANGED sources \/ sources' = <<>>
           \/ \E s : Runs(s)
           \/ \E s \in SourceSet : Attaches(s) /\ (s = StopSource => stopper' = "joining")
<1> USE DEF Runs, Attaches
<1>1. StopSource \in SourceSet
  BY DEF SourceSet
<1>2. ASSUME NEW r \in Reconnectors
      PROVE  ReconnectSource(r) \in SourceSet /\ ReconnectSource(r) # StopSource
  BY DEF SourceSet, ReconnectSource, StopSource
<1>3. CASE ThreadStep
  BY <1>3 DEF ThreadStep, StartThread, CoreConnected, MixerLoaded, MixerFailed, OmInstalled,
     CoreLost, Observe, ExitThread, RunStop, RunReconnect, NextSource
<1>4. CASE InitReturns \/ Dealloc \/ Stop
  BY <1>1, <1>4 DEF InitReturns, Dealloc, Stop, StopRequest, StopCancel, StopPost, StopJoin
<1>5. ASSUME NEW r \in Reconnectors, Reconnect(r)
      PROVE  UNCHANGED sources \/ Attaches(ReconnectSource(r))
  BY <1>5 DEF Reconnect, ReconnectCheck, ReconnectCancel, ReconnectRead, ReconnectPost,
     ReconnectSleeps, ReconnectPosted, ReconnectReturns
<1>6. CASE UNCHANGED connVars
  BY <1>6 DEF connVars
<1>7. Next => ThreadStep \/ PythonStep
  BY DEF Next, RunSource, ThreadStep, PythonStep
<1> QED
  BY <1>2, <1>3, <1>4, <1>5, <1>6, <1>7 DEF PythonStep

LEMMA SourcesStep ==
    ASSUME SourcesOK, StopPosted, [Next]_connVars PROVE SourcesOK' /\ StopPosted'
<1>1. stopper \in {"joining", "joined"} => stopper' \in {"joining", "joined"}
  <2>1. Next => ThreadStep \/ PythonStep
    BY DEF Next, RunSource, ThreadStep, PythonStep
  <2>2. UNCHANGED connVars => UNCHANGED stopVars
    BY DEF connVars
  <2> QED
    BY <2>1, <2>2, StopperStep
<1> QED
  BY <1>1, ConnectionSourcesMove, StopPostedStep DEF SourcesOK

-----------------------------------------------------------------------------
(* A reconnect() that has read the generation. *)
Calling == {"read", "posted", "asleep", "waiting"}

(* Unless an object manager was installing when a call read the generation,  *)
(* a generation that is new to the call is of a connection new to it, and so *)
(* is an object manager that is installing.                                  *)
NewToCall(r) ==
    /\ generation = previous[r] \/ calledOn[r] < founded
    /\ om = "installing" => calledOn[r] < connection

ReconnectInv ==
    \A r \in Reconnectors :
       /\ rpc[r] # "idle" => init = "returned"
       /\ rpc[r] \in Calling => calledOn[r] <= connection /\ (unsettled[r] \/ NewToCall(r))

ConnSafe == ConnInv /\ LifeInv /\ StopPosted /\ SourcesOK /\ ReconnectInv

(* What a step does to one call: nothing, or it reads the generation, or it  *)
(* is somewhere else.                                                        *)
CallStep(r) ==
    \/ /\ previous'[r] = previous[r] /\ calledOn'[r] = calledOn[r]
       /\ unsettled'[r] = unsettled[r]
       /\ rpc'[r] \in Calling => rpc[r] \in Calling
       /\ rpc'[r] # "idle" => rpc[r] # "idle" \/ init = "returned"
    \/ ReconnectRead(r)

LEMMA CallMoves ==
    ASSUME ConnInv, ThreadStep \/ PythonStep, NEW r \in Reconnectors PROVE CallStep(r)
<1> USE DEF CallStep, Calling, ConnInv, Shape, reconnectVars
<1>1. CASE ~ UNCHANGED reconnectVars
  <2>1. ASSUME NEW q \in Reconnectors, RunReconnect(q) PROVE CallStep(r)
    <3>1. UNCHANGED <<previous, calledOn, unsettled>> /\ SignalCall
      BY <2>1 DEF RunReconnect
    <3> QED
      BY <3>1, SignalMoves
  <2>2. ASSUME NEW q \in Reconnectors, Reconnect(q) PROVE CallStep(r)
    <3>1. CASE ReconnectRead(q)
      BY <3>1 DEF ReconnectRead
    <3>2. CASE ~ ReconnectRead(q)
      <4>1. UNCHANGED <<previous, calledOn, unsettled>>
        BY <2>2, <3>2 DEF Reconnect, ReconnectCheck, ReconnectCancel, ReconnectPost,
           ReconnectSleeps, ReconnectPosted, ReconnectReturns
      <4>2. \/ ReconnectCheck(q) /\ init = "returned" /\ rpc' = [rpc EXCEPT ![q] = "checked"]
            \/ rpc[q] = "checked" /\ rpc' = [rpc EXCEPT ![q] = "cancelled"]
            \/ /\ rpc[q] \in Calling
               /\ \E v \in {"idle", "posted", "asleep", "waiting"} : rpc' = [rpc EXCEPT ![q] = v]
        BY <2>2, <3>2 DEF Reconnect, ReconnectCheck, ReconnectCancel, ReconnectPost,
           ReconnectSleeps, ReconnectPosted, ReconnectReturns
      <4> QED
        BY <4>1, <4>2
    <3> QED
      BY <3>1, <3>2
  <2> QED
    BY <1>1, <2>1, <2>2 DEF ThreadStep, PythonStep, StartThread, CoreConnected,
       MixerLoaded, MixerFailed, OmInstalled, CoreLost, Observe, RunStop, ExitThread,
       InitReturns, Dealloc, Stop, StopRequest, StopCancel, StopPost, StopJoin
<1>2. CASE UNCHANGED reconnectVars
  BY <1>2
<1> QED
  BY <1>1, <1>2

(* What a step does to the generation once the constructor has returned: the *)
(* mixer API is there, so that only a new connection installs a manager.     *)
LEMMA GenerationMoves ==
    ASSUME ConnInv, LifeInv, init = "returned", ThreadStep \/ PythonStep
    PROVE  /\ init' = "returned" /\ connection <= connection'
           /\ \/ generation' = generation /\ founded' = founded
              \/ om = "installing" /\ founded' = connection
           /\ om' = "installing" =>
                 connection < connection' \/ (om = "installing" /\ connection' = connection)
<1> USE DEF ConnInv, Shape, lifeVars
<1>1. CASE StartThread
  BY <1>1 DEF StartThread, LifeInv, StartInv
<1>2. CASE CoreConnected
  BY <1>2 DEF CoreConnected, install_object_manager
<1>3. CASE MixerLoaded
  BY <1>3 DEF MixerLoaded, LifeInv, StartInv
<1>4. CASE MixerFailed \/ OmInstalled \/ CoreLost \/ Observe \/ ExitThread \/ RunStop
  BY <1>4 DEF MixerFailed, OmInstalled, CoreLost, Observe, ExitThread, RunStop
<1>5. ASSUME NEW r \in Reconnectors, RunReconnect(r)
      PROVE  /\ UNCHANGED <<init, connection, founded, generation>>
             /\ om' = om \/ om' = "none"
  BY <1>5 DEF RunReconnect
<1>6. CASE PythonStep
  <2>1. UNCHANGED <<om, connection, founded, generation>> /\ init' = "returned"
    BY <1>6 DEF PythonStep, InitReturns, Dealloc, Stop, StopRequest, StopCancel, StopPost,
       StopJoin, Reconnect, ReconnectCheck, ReconnectCancel, ReconnectRead, ReconnectPost,
       ReconnectSleeps, ReconnectPosted, ReconnectReturns
  <2> QED
    BY <2>1
<1> QED
  BY <1>1, <1>2, <1>3, <1>4, <1>5, <1>6 DEF ThreadStep

LEMMA ReconnectInvStep ==
    ASSUME ConnInv, ConnInv', LifeInv, ReconnectInv, ThreadStep \/ PythonStep PROVE ReconnectInv'
<1> SUFFICES ASSUME NEW r \in Reconnectors
             PROVE  /\ rpc'[r] # "idle" => init' = "returned"
                    /\ rpc'[r] \in Calling =>
                          calledOn'[r] <= connection' /\ (unsettled'[r] \/ NewToCall(r)')
  BY DEF ReconnectInv
<1> DEFINE a == calledOn[r]
           a2 == calledOn'[r]
<1>1. /\ connection \in Nat /\ connection' \in Nat /\ founded \in Nat /\ founded' \in Nat
      /\ a \in Nat /\ a2 \in Nat
  BY DEF ConnInv, Shape
<1>2. CASE ReconnectRead(r)
  <2>1. /\ UNCHANGED <<om, init, connection, generation, founded>>
        /\ previous' = [previous EXCEPT ![r] = generation]
        /\ calledOn' = [calledOn EXCEPT ![r] = connection]
        /\ unsettled' = [unsettled EXCEPT ![r] = (om = "installing")]
        /\ rpc[r] = "cancelled"
    BY <1>2 DEF ReconnectRead, lifeVars
  <2>2. previous'[r] = generation /\ calledOn'[r] = connection /\ unsettled'[r] = (om = "installing")
    BY <2>1 DEF ConnInv, Shape
  <2>3. init' = "returned"
    BY <2>1 DEF ReconnectInv
  <2>4. om # "installing" => NewToCall(r)'
    BY <2>1, <2>2 DEF NewToCall
  <2>5. unsettled'[r] \/ om # "installing"
    BY <2>2
  <2>6. calledOn'[r] <= connection'
    BY <1>1, <2>1, <2>2
  <2> QED
    BY <2>3, <2>4, <2>5, <2>6
<1>3. CASE ~ ReconnectRead(r)
  <2>1. /\ previous'[r] = previous[r] /\ a2 = a /\ unsettled'[r] = unsettled[r]
        /\ rpc'[r] \in Calling => rpc[r] \in Calling
        /\ rpc'[r] # "idle" => rpc[r] # "idle" \/ init = "returned"
    BY <1>3, CallMoves DEF CallStep
  <2>2. rpc'[r] # "idle" => init = "returned"
    BY <2>1 DEF ReconnectInv
  <2>3. SUFFICES ASSUME rpc'[r] # "idle"
                 PROVE  /\ init' = "returned"
                        /\ rpc'[r] \in Calling =>
                              calledOn'[r] <= connection' /\ (unsettled'[r] \/ NewToCall(r)')
    BY DEF Calling
  <2>4. /\ init' = "returned" /\ connection <= connection'
        /\ \/ generation' = generation /\ founded' = founded
           \/ om = "installing" /\ founded' = connection
        /\ om' = "installing" =>
              connection < connection' \/ (om = "installing" /\ connection' = connection)
    BY <2>2, <2>3, GenerationMoves
  <2>5. rpc[r] \in Calling => a <= connection /\ (unsettled[r] \/ NewToCall(r))
    BY DEF ReconnectInv
  <2>6. NewToCall(r) <=> /\ generation = previous[r] \/ a < founded
                         /\ om = "installing" => a < connection
    BY DEF NewToCall
  <2>7. NewToCall(r)' <=> /\ generation' = previous'[r] \/ a2 < founded'
                          /\ om' = "installing" => a2 < connection'
    BY DEF NewToCall
  <2>8. rpc'[r] \in Calling => a2 <= connection' /\ (unsettled'[r] \/ NewToCall(r)')
    <3> HIDE DEF a, a2
    <3> QED
      BY <1>1, <2>1, <2>4, <2>5, <2>6, <2>7
  <2> QED
    BY <2>4, <2>8
<1> QED
  BY <1>2, <1>3

LEMMA ConnSafeHolds == Spec => []ConnSafe
<1>1. Init => ConnSafe
  <2>1. Init => ReconnectInv
    BY DEF Init, ReconnectInv, Calling
  <2>2. Init => SourcesOK
    BY EmptyIsSeq DEF Init, SourcesOK
  <2> QED
    BY <2>1, <2>2, InitConnInv, InitLifeInv DEF ConnSafe
<1>2. ConnSafe /\ [Next]_connVars => ConnSafe'
  <2> SUFFICES ASSUME ConnSafe, [Next]_connVars PROVE ConnSafe'
    OBVIOUS
  <2>1. SourcesOK' /\ StopPosted'
    BY SourcesStep DEF ConnSafe
  <2>2. CASE ThreadStep \/ PythonStep
    <3>1. ConnInv'
      BY <2>2, ThreadConnInv, PythonConnInv DEF ConnSafe
    <3>2. LifeInv'
      BY <2>2, ThreadLifeInv, PythonLifeInv DEF ConnSafe, SourcesOK
    <3>3. ReconnectInv'
      BY <2>2, <3>1, ReconnectInvStep DEF ConnSafe
    <3> QED
      BY <2>1, <3>1, <3>2, <3>3 DEF ConnSafe
  <2>3. CASE UNCHANGED connVars
    <3>1. ConnInv'
      BY <2>3, StutterConnInv DEF ConnSafe
    <3>2. LifeInv' /\ ReconnectInv'
      BY <2>3 DEF ConnSafe, LifeInv, ReconnectInv, NewToCall, connVars, lifeVars, reconnectVars, stopVars
    <3> QED
      BY <2>1, <3>1, <3>2 DEF ConnSafe
  <2>4. Next => ThreadStep \/ PythonStep
    BY DEF Next, RunSource, ThreadStep, PythonStep
  <2> QED
    BY <2>2, <2>3, <2>4
<1> QED
  BY <1>1, <1>2, PTL DEF Spec

-----------------------------------------------------------------------------
(* Every variable keeps its type, and there are never more generations than  *)
(* connections (wp_connection.c, lifecycle.c).                               *)
THEOREM ConnectionTypeCorrect == Spec => []TypeOK
<1>1. ConnSafe => TypeOK
  <2> SUFFICES ASSUME ConnSafe PROVE TypeOK
    OBVIOUS
  <2>1. founded \in 0..connection /\ generation \in 0..connection
    BY DEF ConnSafe, ConnInv, Shape, GenerationInv
  <2>2. ConnTypeOK
    BY <2>1 DEF ConnSafe, ConnInv, Shape, ConnTypeOK
  <2> QED
    BY <2>2 DEF ConnSafe, SourcesOK, SourceSet, TypeOK
<1> QED
  BY <1>1, ConnSafeHolds, PTL

(* A constructor that returned has a synchronized generation behind it       *)
(* (WPConnection_init waits for `started' and then looks at start_error).    *)
THEOREM ReadyHolds == Spec => []ReadyHasGeneration
<1>1. ConnInv => ReadyHasGeneration
  BY DEF ConnInv, StartInv, ReadyHasGeneration
<1> QED
  BY <1>1, ConnInvHolds, PTL

(* reconnect() called while no object manager was installing: the generation *)
(* it reports is of a connection made after the call read the old one, for   *)
(* any number of callers, whoever's signal woke whom (WPConnection_reconnect,*)
(* on_om_installed, install_object_manager, on_mixer_api_loaded).            *)
THEOREM ReconnectHolds == Spec => ReconnectIsNew
<1>1. ASSUME ConnSafe, Next, NEW r \in Reconnectors, ReportsSuccess(r), ~ unsettled[r]
      PROVE  calledOn[r] < founded
  <2> USE DEF ReportsSuccess
  <2>1. PICK q \in Reconnectors : Reconnect(q) \/ RunReconnect(q)
    <3>1. rpc' # rpc
      BY <1>1
    <3> QED
      BY <1>1, <3>1 DEF Next, StartThread, CoreConnected, MixerLoaded, MixerFailed,
         OmInstalled, CoreLost, Observe, RunSource, RunStop, ExitThread, InitReturns,
         Dealloc, Stop, StopRequest, StopCancel, StopPost, StopJoin, reconnectVars
  <2>2. rpc \in [Reconnectors -> {"idle", "checked", "cancelled", "read", "posted",
                                  "asleep", "waiting"}]
    BY <1>1 DEF ConnSafe, ConnInv, Shape
  <2>3. ~ RunReconnect(q)
    BY <1>1, <2>2, SignalMoves DEF RunReconnect
  <2>4. q = r
    <3>1. \E w : rpc' = [rpc EXCEPT ![q] = w]
      BY <2>1, <2>3 DEF Reconnect, ReconnectCheck, ReconnectCancel, ReconnectRead,
         ReconnectPost, ReconnectSleeps, ReconnectPosted, ReconnectReturns
    <3> QED
      BY <1>1, <2>2, <3>1
  <2>5. ReconnectReturns(r)
    BY <1>1, <2>1, <2>3, <2>4 DEF Reconnect, ReconnectCheck, ReconnectCancel,
       ReconnectRead, ReconnectPost, ReconnectSleeps, ReconnectPosted
  <2>6. result'[r] = IF generation > previous[r] /\ om # "none"
                     THEN "connected" ELSE "timeout"
    BY <1>1, <2>5 DEF ReconnectReturns, ConnSafe, ConnInv, Shape
  <2>7. generation > previous[r] /\ generation \in Nat /\ previous[r] \in Nat
    BY <1>1, <2>6 DEF ConnSafe, ConnInv, Shape
  <2> QED
    BY <1>1, <2>7 DEF ConnSafe, ReconnectInv, NewToCall, Calling
<1>2. ConnSafe /\ [Next]_connVars =>
       [\A r \in Reconnectors :
           (ReportsSuccess(r) /\ ~ unsettled[r]) => calledOn[r] < founded]_connVars
  BY <1>1
<1> QED
  BY <1>2, ConnSafeHolds, PTL DEF Spec, ReconnectIsNew

(* Generations go up by one and each is of a connection of its own           *)
(* (on_om_installed, install_object_manager, on_core_disconnected).          *)
THEOREM GenerationsAreOfConnections == Spec => OneGenerationPerConnection
<1>1. ConnInv /\ [Next]_connVars =>
       [generation' # generation =>
          /\ generation' = generation + 1
          /\ founded < founded']_connVars
  <2> SUFFICES ASSUME ConnInv, Next, generation' # generation
               PROVE  generation' = generation + 1 /\ founded < founded'
    OBVIOUS
  <2>1. CASE OmInstalled
    BY <2>1 DEF OmInstalled, ConnInv, Shape, GenerationInv
  <2>2. CASE ~ OmInstalled
    <3>1. UNCHANGED generation
      BY <2>2 DEF Next, StartThread, CoreConnected, MixerLoaded, MixerFailed,
         CoreLost, Observe, RunSource, RunStop, RunReconnect, ExitThread,
         InitReturns, Dealloc, Stop, StopRequest, StopCancel, StopPost, StopJoin,
         Reconnect, ReconnectCheck, ReconnectCancel, ReconnectRead,
         ReconnectPost, ReconnectSleeps, ReconnectPosted,
     ReconnectReturns
    <3> QED
      BY <3>1
  <2> QED
    BY <2>1, <2>2
<1> QED
  BY <1>1, ConnInvHolds, PTL DEF Spec, OneGenerationPerConnection
=============================================================================
