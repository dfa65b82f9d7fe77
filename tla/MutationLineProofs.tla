--------------------------- MODULE MutationLineProofs ---------------------------
(***************************************************************************)
(* The dispatcher implements MutationLine, for any number of callers.      *)
(*                                                                         *)
(* Who stands in the line is who is queued or in the handler's hands       *)
(* (InLineFacts), so taking a call off the queue, judging it and going     *)
(* back for the next one leave the line as it is; it moves where a call is *)
(* completed, and a cancellation of the queue leaves of it what the        *)
(* handler has.  That whoever is served has a place of the present         *)
(* generation is LogInv.  Nothing else of the dispatcher's invariant is    *)
(* needed, so the result holds of every system whose steps are moves of    *)
(* the dispatcher (LineStep).                                              *)
(***************************************************************************)
EXTENDS MutationDispatchProofs

LEMMA SequencesEqual ==
    ASSUME NEW S, NEW s \in Seq(S), NEW t \in Seq(S), Len(s) = Len(t),
           \A i \in 1..Len(s) : s[i] = t[i]
    PROVE  s = t
  OBVIOUS

(* Mapping over a sequence follows Append and Tail. *)
LEMMA FunctionIsAppend ==
    ASSUME NEW S, NEW s \in Seq(S), NEW e \in S, NEW t,
           t = [i \in 1..(Len(s) + 1) |-> IF i = Len(s) + 1 THEN e ELSE s[i]]
    PROVE  t = Append(s, e)
<1>1. /\ Append(s, e) \in Seq(S) /\ Len(Append(s, e)) = Len(s) + 1
      /\ \A i \in 1..(Len(s) + 1) : Append(s, e)[i] = IF i = Len(s) + 1 THEN e ELSE s[i]
  OBVIOUS
<1>2. t \in [1..(Len(s) + 1) -> S] /\ Len(s) + 1 \in Nat
  OBVIOUS
<1>3. t \in Seq(S) /\ Len(t) = Len(s) + 1
  BY <1>2
<1> QED
  BY <1>1, <1>3, SequencesEqual

LEMMA FunctionIsTail ==
    ASSUME NEW S, NEW s \in Seq(S), s # <<>>, NEW t,
           t = [i \in 1..(Len(s) - 1) |-> s[i + 1]]
    PROVE  t = Tail(s)
<1>1. /\ Tail(s) \in Seq(S) /\ Len(Tail(s)) = Len(s) - 1 /\ Len(s) - 1 \in Nat
      /\ \A i \in 1..(Len(s) - 1) : Tail(s)[i] = s[i + 1]
  OBVIOUS
<1>2. \A i \in 1..(Len(s) - 1) : i + 1 \in 1..Len(s) /\ s[i + 1] \in S
  OBVIOUS
<1>3. t \in [1..(Len(s) - 1) -> S]
  BY <1>2
<1>4. t \in Seq(S) /\ Len(t) = Len(s) - 1
  BY <1>1, <1>3
<1> QED
  BY <1>1, <1>4, SequencesEqual

LEMMA FunctionIsPrefix ==
    ASSUME NEW S, NEW s \in Seq(S), NEW n \in 0..Len(s), NEW t,
           t = [i \in 1..n |-> s[i]]
    PROVE  t = SubSeq(s, 1, n)
<1>1. /\ SubSeq(s, 1, n) \in Seq(S) /\ Len(SubSeq(s, 1, n)) = n
      /\ \A i \in 1..n : SubSeq(s, 1, n)[i] = s[i]
  OBVIOUS
<1>2. t \in [1..n -> S]
  OBVIOUS
<1>3. t \in Seq(S) /\ Len(t) = n
  BY <1>2
<1> QED
  BY <1>1, <1>3, SequencesEqual

(* Who stands in the line. *)
LEMMA InLineFacts ==
    ASSUME CallShape, CallInv
    PROVE  /\ InLine \in Seq(Callers)
           /\ \A i, j \in 1..Len(InLine) : InLine[i] = InLine[j] => i = j
           /\ \A i \in 1..Len(InLine) : Outstanding(InLine[i])
           /\ \A c \in Callers :
                 Outstanding(c) => \E i \in 1..Len(InLine) : InLine[i] = c
<1>1. mutation_queue \in Seq(Callers)
  BY DEF CallShape
<1>2. CASE ~AtWork
  <2>1. InLine = mutation_queue
    BY <1>2 DEF InLine
  <2> QED
    BY <1>1, <1>2, <2>1 DEF CallInv, Outstanding
<1>3. CASE AtWork
  <2> DEFINE n == Len(mutation_queue)
  <2>1. current \in Callers /\ call[current].state = "popped"
    BY <1>3 DEF CallInv
  <2>2. /\ InLine \in Seq(Callers) /\ Len(InLine) = n + 1 /\ InLine[1] = current
        /\ n \in Nat /\ \A i \in 1..n : InLine[i + 1] = mutation_queue[i]
    BY <1>1, <1>3, <2>1 DEF InLine
  <2>3. \A i \in 1..(n + 1) : i = 1 \/ (i - 1 \in 1..n /\ InLine[i] = mutation_queue[i - 1])
    <3> SUFFICES ASSUME NEW i \in 1..(n + 1), i # 1
                 PROVE  i - 1 \in 1..n /\ InLine[i] = mutation_queue[i - 1]
      OBVIOUS
    <3>1. i - 1 \in 1..n /\ (i - 1) + 1 = i
      BY <2>2
    <3> QED
      BY <2>2, <3>1
  <2>4. \A i \in 1..n : call[mutation_queue[i]].state = "queued" /\ mutation_queue[i] # current
    BY <2>1 DEF CallInv
  <2>5. ASSUME NEW i \in 1..Len(InLine), NEW j \in 1..Len(InLine), InLine[i] = InLine[j]
        PROVE  i = j
    <3>1. CASE i = 1 \/ j = 1
      BY <2>2, <2>3, <2>4, <2>5, <3>1
    <3>2. CASE i # 1 /\ j # 1
      <4>1. /\ i - 1 \in 1..n /\ j - 1 \in 1..n
            /\ mutation_queue[i - 1] = mutation_queue[j - 1]
        BY <2>2, <2>3, <2>5, <3>2
      <4>2. i - 1 = j - 1
        BY <4>1 DEF CallInv
      <4> QED
        BY <2>2, <4>2
    <3> QED
      BY <3>1, <3>2
  <2>6. ASSUME NEW i \in 1..Len(InLine) PROVE Outstanding(InLine[i])
    <3>1. CASE i = 1
      BY <2>1, <2>2, <3>1 DEF Outstanding
    <3>2. CASE i # 1
      BY <2>2, <2>3, <2>4, <3>2 DEF Outstanding
    <3> QED
      BY <3>1, <3>2
  <2>7. ASSUME NEW c \in Callers, Outstanding(c) PROVE \E i \in 1..Len(InLine) : InLine[i] = c
    <3>1. CASE call[c].state = "popped"
      <4>1. c = current /\ 1 \in 1..Len(InLine)
        BY <2>2, <3>1 DEF CallInv
      <4> QED
        BY <2>2, <4>1
    <3>2. CASE call[c].state = "queued"
      <4>1. PICK i \in 1..n : mutation_queue[i] = c
        BY <3>2 DEF CallInv
      <4>2. i + 1 \in 1..Len(InLine) /\ InLine[i + 1] = c
        BY <2>2, <4>1
      <4> QED
        BY <4>2
    <3> QED
      BY <2>7, <3>1, <3>2 DEF Outstanding
  <2> QED
    BY <2>2, <2>5, <2>6, <2>7
<1> QED
  BY <1>2, <1>3

LEMMA LinePlacesFacts ==
    ASSUME CallShape, CallInv
    PROVE  /\ Len(InLine) \in Nat /\ Len(LinePlaces) = Len(InLine)
           /\ LinePlaces \in Seq({Place(c) : c \in Callers})
           /\ \A i \in 1..Len(InLine) : /\ InLine[i] \in Callers
                                        /\ LinePlaces[i] = Place(InLine[i])
                                        /\ LinePlaces[i].caller = InLine[i]
<1>1. InLine \in Seq(Callers) /\ Len(InLine) \in Nat
  BY InLineFacts
<1>2. \A i \in 1..Len(InLine) : InLine[i] \in Callers
  BY <1>1
<1>3. /\ LinePlaces \in [1..Len(InLine) -> {Place(c) : c \in Callers}]
      /\ \A i \in 1..Len(InLine) : LinePlaces[i] = Place(InLine[i])
  BY <1>2 DEF LinePlaces
<1>4. LinePlaces \in Seq({Place(c) : c \in Callers})
  BY <1>1, <1>3
<1>5. Len(LinePlaces) = Len(InLine)
  BY <1>1, <1>3, <1>4
<1> QED
  BY <1>1, <1>2, <1>3, <1>4, <1>5 DEF Place

(* The abstract line's waiting callers are the outstanding ones. *)
LEMMA WaitingIsOutstanding ==
    ASSUME CallShape, CallInv, NEW c \in Callers
    PROVE  Line!Waiting(c) <=> Outstanding(c)
<1>1. Line!Waiting(c) <=> \E i \in 1..Len(InLine) : InLine[i] = c
  BY LinePlacesFacts DEF Line!Waiting
<1> QED
  BY <1>1, InLineFacts

LEMMA IdleArrives ==
    ASSUME CallShape, CallInv, NEW c \in Callers, call[c].state = "idle"
    PROVE  Line!Arrives(c)
<1>1. ~Line!Waiting(c)
  BY WaitingIsOutstanding DEF Outstanding
<1>2. Tickets[c] = "none"
  BY DEF Tickets
<1> QED
  BY <1>1, <1>2 DEF Line!Arrives, Line!NoTicket

(* A step that keeps who is in the line keeps the line's places. *)
LEMMA PlacesKept ==
    ASSUME CallShape, CallInv, InLine' = InLine,
           \A c \in Callers : Outstanding(c) => SamePlace(c)
    PROVE  LinePlaces' = LinePlaces
<1>1. \A i \in 1..Len(InLine) : Place(InLine[i])' = Place(InLine[i])
  BY InLineFacts DEF Place, SamePlace
<1> QED
  BY <1>1 DEF LinePlaces
-----------------------------------------------------------------------------
(* The moves of the dispatcher, seen from the line. *)

LEMMA QuietLine ==
    ASSUME CallShape, CallInv, UNCHANGED <<generation, order, log>>,
           InLine' = InLine, Tickets' = Tickets,
           \A c \in Callers : Outstanding(c) => SamePlace(c)
    PROVE  UNCHANGED Line!lineVars
<1>1. LinePlaces' = LinePlaces
  BY PlacesKept
<1>2. Served' = Served
  BY DEF Served
<1> QED
  BY <1>1, <1>2 DEF Line!lineVars

LEMMA InstallIsNewGeneration ==
    ASSUME CallShape, CallInv, DispatchOmInstalled PROVE Line!NewGeneration
<1>1. UNCHANGED <<mutation_queue, call, handlerVars, log>> /\ generation' = generation + 1
      /\ order' = 0
  BY DEF DispatchOmInstalled, OmInstalled, ghostVars
<1>2. LinePlaces' = LinePlaces
  BY <1>1 DEF LinePlaces, InLine, AtWork, Place, handlerVars
<1>3. Tickets' = Tickets /\ Served' = Served
  BY <1>1 DEF Tickets, Served
<1> QED
  BY <1>1, <1>2, <1>3 DEF Line!NewGeneration

LEMMA RefusalIsRefuse ==
    ASSUME CallShape, CallInv, NEW c \in Callers, DispatchStopped(c) \/ DispatchStale(c)
    PROVE  \E code \in Cancelled \cup Stale : Line!Refuse(c, code)
<1>1. PICK code \in Cancelled \cup Stale : call' = [call EXCEPT ![c] = Ticket(code, 0)]
  BY DEF DispatchStopped, DispatchStale, Cancelled, Stale
<1>2. Ticket(code, 0).state = "done" /\ Ticket(code, 0).result = code
  BY CallTypes
<1>3. /\ call[c].state = "idle"
      /\ UNCHANGED <<generation, mutation_queue, order, handler, current, log>>
  BY RefuseEffect DEF connVars, handlerVars, ghostVars
<1>4. Tickets' = [Tickets EXCEPT ![c] = code]
  BY <1>1, <1>2 DEF Tickets, CallShape
<1>5. LinePlaces' = LinePlaces
  <2>1. InLine' = InLine
    BY <1>3 DEF InLine, AtWork
  <2>2. \A d \in Callers : Outstanding(d) => SamePlace(d)
    BY <1>1, <1>3 DEF CallShape, Outstanding, SamePlace
  <2> QED
    BY <2>1, <2>2, PlacesKept
<1>6. Served' = Served
  BY <1>3 DEF Served
<1> QED
  BY <1>3, <1>4, <1>5, <1>6, IdleArrives DEF Line!Refuse

LEMMA EnqueueIsJoin ==
    ASSUME Shape, CallShape, CallInv, NEW c \in Callers, NEW s \in Sequences,
           DispatchEnqueue(c, s)
    PROVE  Line!Join(c)
<1> DEFINE n == Len(InLine)
           p == [caller |-> c, generation |-> generation, order |-> order']
           NextPlace(d) == [caller |-> d, generation |-> call'[d].enqueued,
                            order |-> call'[d].order]
<1>1. /\ call[c].state = "idle" /\ order' = order + 1
      /\ mutation_queue' = Append(mutation_queue, c)
      /\ UNCHANGED <<handlerVars, log, generation>>
      /\ \A d \in Callers : d # c => call'[d] = call[d]
      /\ call' \in [Callers -> CallRecord]
      /\ call'[c].state = "queued" /\ call'[c].enqueued = generation
      /\ call'[c].order = order'
  BY SubmitEffect
<1>2. InLine' = Append(InLine, c)
  <2>1. AtWork' = AtWork /\ current' = current /\ mutation_queue \in Seq(Callers)
    BY <1>1 DEF AtWork, handlerVars, CallShape
  <2>2. CASE ~AtWork
    BY <1>1, <2>1, <2>2 DEF InLine
  <2>3. CASE AtWork
    <3>1. current \in Callers
      BY <2>3 DEF CallInv
    <3>2. <<current>> \o Append(mutation_queue, c) = Append(<<current>> \o mutation_queue, c)
      BY <2>1, <3>1
    <3> QED
      BY <1>1, <2>1, <2>3, <3>2 DEF InLine
  <2> QED
    BY <2>2, <2>3
<1>3. /\ InLine \in Seq(Callers) /\ n \in Nat
      /\ Len(InLine') = n + 1 /\ InLine'[n + 1] = c
      /\ \A i \in 1..n : InLine'[i] = InLine[i] /\ InLine[i] \in Callers /\ InLine[i] # c
  BY <1>1, <1>2, InLineFacts DEF Outstanding
<1>4. NextPlace(c) = p /\ \A i \in 1..n : NextPlace(InLine[i]) = Place(InLine[i])
  BY <1>1, <1>3 DEF Place
<1>5. LinePlaces' = Append(LinePlaces, p)
  <2>1. LinePlaces' = [i \in 1..(n + 1) |-> NextPlace(InLine'[i])]
    BY <1>3 DEF LinePlaces, Place
  <2>2. \A i \in 1..(n + 1) : i \in 1..n \/ i = n + 1
    BY <1>3
  <2>3. \A i \in 1..(n + 1) : NextPlace(InLine'[i]) = IF i = n + 1 THEN p ELSE LinePlaces[i]
    <3> HIDE DEF NextPlace, p
    <3> QED
      BY <1>3, <1>4, <2>2, LinePlacesFacts
  <2>4. LinePlaces' = [i \in 1..(n + 1) |-> IF i = n + 1 THEN p ELSE LinePlaces[i]]
    BY <2>1, <2>3
  <2> DEFINE S == {Place(d) : d \in Callers} \cup {p}
  <2>5. LinePlaces \in Seq({Place(d) : d \in Callers}) /\ Len(LinePlaces) = n
    BY LinePlacesFacts
  <2>6. LinePlaces \in Seq(S)
    BY <2>5
  <2> HIDE DEF p, NextPlace
  <2>7. p \in S
    OBVIOUS
  <2> HIDE DEF S
  <2> QED
    BY <2>4, <2>5, <2>6, <2>7, FunctionIsAppend
<1>6. Tickets' = Tickets
  BY <1>1 DEF Tickets
<1>7. Served' = Served
  BY <1>1 DEF Served
<1> QED
  BY <1>1, <1>5, <1>6, <1>7, IdleArrives DEF Line!Join


LEMMA CancelsIsCancel ==
    ASSUME CallShape, CallInv, Cancels
    PROVE  \E code \in Cancelled, n \in 0..1 : Line!Cancel(code, n)
<1>1. PICK code \in Cancelled : cancel_pending(code)
  BY DEF Cancels
<1>2. UNCHANGED <<generation, order, log, handler, current>>
  BY <1>1 DEF Cancels, cancel_pending, handlerVars, ghostVars
<1>3. /\ mutation_queue' = <<>> /\ call' \in [Callers -> CallRecord]
      /\ \A c \in Callers :
            call'[c] = IF call[c].state = "queued" THEN Ticket(code, 0) ELSE call[c]
  BY <1>1, CancelEffect
<1>4. Ticket(code, 0).state = "done" /\ Ticket(code, 0).result = code
  BY CallTypes
<1> DEFINE n == IF AtWork THEN 1 ELSE 0
           len == Len(InLine)
           behind(c) == \E i \in (n + 1)..len : LinePlaces[i].caller = c
<1>5. /\ len \in Nat /\ n \in 0..1 /\ n <= len /\ Len(LinePlaces) = len
      /\ AtWork => InLine[1] = current /\ current \in Callers
  <2>1. mutation_queue \in Seq(Callers)
    BY DEF CallShape
  <2>2. AtWork => current \in Callers
    BY DEF CallInv
  <2>3. AtWork => InLine[1] = current /\ 1 <= len
    BY <2>1, <2>2 DEF InLine
  <2> QED
    BY <2>2, <2>3, LinePlacesFacts
<1>6. \A c \in Callers : behind(c) <=> call[c].state = "queued"
  <2> SUFFICES ASSUME NEW c \in Callers PROVE behind(c) <=> call[c].state = "queued"
    OBVIOUS
  <2>1. behind(c) <=> \E i \in (n + 1)..len : InLine[i] = c
    <3>1. \A i \in (n + 1)..len : i \in 1..len
      BY <1>5
    <3> QED
      BY <3>1, LinePlacesFacts
  <2>2. ASSUME NEW i \in (n + 1)..len, InLine[i] = c PROVE call[c].state = "queued"
    <3>1. i \in 1..len /\ Outstanding(c)
      BY <1>5, <2>2, InLineFacts
    <3>2. call[c].state # "popped"
      <4>1. ASSUME AtWork, current = c PROVE FALSE
        <5>1. 1 \in 1..len /\ i # 1 /\ InLine[1] = InLine[i]
          BY <1>5, <2>2, <4>1
        <5> QED
          BY <3>1, <5>1, InLineFacts
      <4> QED
        BY <4>1 DEF CallInv
    <3> QED
      BY <3>1, <3>2 DEF Outstanding
  <2>3. ASSUME call[c].state = "queued" PROVE \E i \in (n + 1)..len : InLine[i] = c
    <3>1. PICK i \in 1..len : InLine[i] = c
      BY <2>3, InLineFacts DEF Outstanding
    <3>2. ~(AtWork /\ i = 1)
      BY <1>5, <2>3, <3>1 DEF CallInv
    <3>3. i \in (n + 1)..len
      BY <1>5, <3>2
    <3> QED
      BY <3>1, <3>3
  <2> HIDE DEF behind
  <2> QED
    BY <2>1, <2>2, <2>3
<1>7. Tickets' = [c \in Callers |-> IF behind(c) THEN code ELSE Tickets[c]]
  <2>1. \A c \in Callers :
           (IF call'[c].state = "done" THEN call'[c].result ELSE "none")
              = IF behind(c) THEN code ELSE Tickets[c]
    <3> HIDE DEF behind
    <3> QED
      BY <1>3, <1>4, <1>6 DEF Tickets
  <2> HIDE DEF behind
  <2> QED
    BY <2>1 DEF Tickets
<1>8. LinePlaces' = SubSeq(LinePlaces, 1, n)
  <2>1. LinePlaces \in Seq({Place(c) : c \in Callers})
    BY LinePlacesFacts
  <2>2. CASE AtWork
    <3>1. InLine' = <<current>>
      BY <1>2, <1>3, <2>2 DEF InLine, AtWork
    <3>2. Len(<<current>>) = 1 /\ <<current>>[1] = current
      OBVIOUS
    <3>3. LinePlaces' = [i \in 1..1 |-> [caller |-> current,
                                         generation |-> call'[current].enqueued,
                                         order |-> call'[current].order]]
      BY <3>1, <3>2 DEF LinePlaces, Place
    <3>4. call'[current] = call[current]
      BY <1>3, <1>5, <2>2 DEF CallInv
    <3>5. LinePlaces[1] = Place(current) /\ 1 \in 1..len
      BY <1>5, <2>2, LinePlacesFacts
    <3>6. LinePlaces' = [i \in 1..1 |-> LinePlaces[i]]
      <4>1. \A i \in 1..1 : i = 1
        OBVIOUS
      <4> QED
        BY <3>3, <3>4, <3>5, <4>1 DEF Place
    <3> QED
      BY <1>5, <2>1, <2>2, <3>5, <3>6, FunctionIsPrefix
  <2>3. CASE ~AtWork
    <3>1. InLine' = <<>>
      BY <1>2, <1>3, <2>3 DEF InLine, AtWork
    <3>2. LinePlaces' = [i \in 1..0 |-> LinePlaces[i]]
      BY <3>1 DEF LinePlaces
    <3> QED
      BY <1>5, <2>1, <2>3, <3>2, FunctionIsPrefix
  <2> QED
    BY <2>2, <2>3
<1>9. Served' = Served
  BY <1>2 DEF Served
<1>10. Line!Cancel(code, n)
  BY <1>2, <1>5, <1>7, <1>8, <1>9 DEF Line!Cancel
<1> QED
  BY <1>5, <1>10


(* Taking the head off the queue leaves it at the head of the line. *)
LEMMA PopIsQuiet ==
    ASSUME CallShape, CallInv, DispatchPop PROVE UNCHANGED Line!lineVars
<1>1. CASE mutation_queue = <<>>
  <2>1. UNCHANGED <<generation, order, log, mutation_queue, call, handler, current>>
    BY <1>1 DEF DispatchPop, handlerVars, ghostVars
  <2>2. InLine' = InLine /\ Tickets' = Tickets
    BY <2>1 DEF InLine, AtWork, Tickets
  <2> QED
    BY <2>1, <2>2, QuietLine DEF SamePlace
<1>2. CASE mutation_queue # <<>>
  <2> DEFINE h == Head(mutation_queue)
  <2>1. /\ handler = "idle" /\ handler' = "popped" /\ current' = h
        /\ mutation_queue' = Tail(mutation_queue)
        /\ UNCHANGED <<order, ghostVars, generation>>
        /\ \A c \in Callers : /\ call'[c].state = IF c = h THEN "popped" ELSE call[c].state
                              /\ call'[c].result = call[c].result
                              /\ SamePlace(c)
    BY <1>2, PopEffect DEF SamePlace
  <2>2. /\ mutation_queue \in Seq(Callers) /\ h \in Callers
        /\ call[h].state = "queued"
    BY <1>2, HeadIsCaller DEF CallInv, CallShape
  <2>3. <<h>> \o Tail(mutation_queue) = mutation_queue
    BY <1>2, <2>2
  <2>4. InLine' = InLine
    BY <2>1, <2>3 DEF InLine, AtWork
  <2>5. Tickets' = Tickets
    <3>1. \A c \in Callers : /\ call'[c].state = "done" <=> call[c].state = "done"
                             /\ call'[c].result = call[c].result
      BY <2>1, <2>2
    <3> QED
      BY <3>1 DEF Tickets
  <2> QED
    BY <2>1, <2>4, <2>5, QuietLine DEF ghostVars
<1> QED
  BY <1>1, <1>2

LEMMA RestIsQuiet ==
    ASSUME CallShape, CallInv, Quiet \/ DispatchCheck \/ DispatchReschedule
    PROVE  UNCHANGED Line!lineVars
<1>1. UNCHANGED <<generation, order, log, mutation_queue, call>>
  BY DEF Quiet, mutationVars, queueVars, ghostVars, DispatchCheck, DispatchReschedule, connVars
<1>2. (AtWork' <=> AtWork) /\ (AtWork => current' = current)
  <2>1. CASE Quiet
    BY <2>1 DEF Quiet, mutationVars, handlerVars, AtWork
  <2>2. CASE DispatchCheck \/ DispatchReschedule
    BY <2>2 DEF AtWork, DispatchCheck, DispatchReschedule
  <2> QED
    BY <2>1, <2>2
<1>3. InLine' = InLine /\ Tickets' = Tickets
  BY <1>1, <1>2 DEF InLine, Tickets
<1> QED
  BY <1>1, <1>3, QuietLine DEF SamePlace

(* The result of a completion is the verdict's. *)
LEMMA CompleteResult ==
    ASSUME CallShape, CallInv, DispatchComplete
    PROVE  LET code == IF verdict = "execute" THEN Handled ELSE verdict IN
           /\ call'[current].state = "done" /\ call'[current].result = code
           /\ verdict # "execute" => code \in Cancelled \cup Stale
<1> DEFINE code == IF verdict = "execute" THEN Handled ELSE verdict
<1>1. /\ handler = "checked" /\ current \in Callers /\ call[current].state = "popped"
      /\ verdict # "none"
  BY DEF CallInv, AtWork, DispatchComplete
<1>2. PICK times : call' = [call EXCEPT ![current] = Ticket(code, times)]
  <2>1. CASE verdict = "execute"
    <3>1. call' = [call EXCEPT ![current] = Ticket(code, call[current].executed + 1)]
      BY <1>1, <2>1 DEF DispatchComplete, complete_call
    <3> QED
      BY <3>1
  <2>2. CASE verdict # "execute"
    <3>1. call' = [call EXCEPT ![current] = Ticket(code, call[current].executed)]
      BY <1>1, <2>2 DEF DispatchComplete, complete_call
    <3> QED
      BY <3>1
  <2> QED
    BY <2>1, <2>2
<1>3. call'[current] = Ticket(code, times)
  BY <1>1, <1>2 DEF CallShape
<1>4. verdict # "execute" => code \in Cancelled \cup Stale
  BY <1>1 DEF CallShape
<1> QED
  BY <1>3, <1>4 DEF Ticket

(* Completing the call in hand moves the line by one. *)
LEMMA CompleteMovesLine ==
    ASSUME CallShape, CallInv, DispatchComplete
    PROVE  LET code == IF verdict = "execute" THEN Handled ELSE verdict IN
           /\ LinePlaces # <<>> /\ LinePlaces[1] = Place(current)
           /\ LinePlaces' = Tail(LinePlaces)
           /\ Tickets' = [Tickets EXCEPT ![current] = code]
<1> DEFINE code == IF verdict = "execute" THEN Handled ELSE verdict
           n == Len(mutation_queue)
<1>1. /\ handler = "checked" /\ handler' = "completed" /\ current \in Callers
      /\ call[current].state = "popped"
      /\ UNCHANGED mutation_queue /\ mutation_queue \in Seq(Callers) /\ n \in Nat
      /\ \A c \in Callers : c # current => call'[c] = call[c]
      /\ call'[current].state = "done" /\ call'[current].result = code
  BY CompleteEffect, CompleteResult DEF CallInv, AtWork, CallShape
<1>2. InLine = <<current>> \o mutation_queue /\ InLine' = mutation_queue
  BY <1>1 DEF InLine, AtWork
<1>3. /\ Len(InLine) = n + 1 /\ InLine[1] = current
      /\ \A i \in 1..n : i + 1 \in 1..(n + 1) /\ InLine[i + 1] = mutation_queue[i]
  BY <1>1, <1>2
<1>4. /\ LinePlaces \in Seq({Place(c) : c \in Callers}) /\ Len(LinePlaces) = n + 1
      /\ LinePlaces # <<>> /\ LinePlaces[1] = Place(current)
      /\ \A i \in 1..n : LinePlaces[i + 1] = Place(mutation_queue[i])
  <2>1. 1 \in 1..(n + 1)
    BY <1>1
  <2> QED
    BY <1>1, <1>3, <2>1, LinePlacesFacts
<1>5. \A i \in 1..n : /\ mutation_queue[i] \in Callers
                      /\ call'[mutation_queue[i]] = call[mutation_queue[i]]
  <2>1. \A i \in 1..n : mutation_queue[i] \in Callers /\ mutation_queue[i] # current
    BY <1>1 DEF CallInv
  <2> QED
    BY <1>1, <2>1
<1>6. LinePlaces' = [i \in 1..n |-> LinePlaces[i + 1]]
  <2>1. LinePlaces' = [i \in 1..n |-> [caller |-> mutation_queue[i],
                                       generation |-> call'[mutation_queue[i]].enqueued,
                                       order |-> call'[mutation_queue[i]].order]]
    BY <1>1, <1>2 DEF LinePlaces, Place
  <2> QED
    BY <1>4, <1>5, <2>1 DEF Place
<1>7. LinePlaces' = Tail(LinePlaces)
  <2>1. Len(LinePlaces) - 1 = n
    BY <1>1, <1>4
  <2> QED
    BY <1>4, <1>6, <2>1, FunctionIsTail
<1>8. Tickets' = [Tickets EXCEPT ![current] = code]
  BY <1>1 DEF Tickets
<1> QED
  BY <1>4, <1>7, <1>8

LEMMA CompleteIsServeOrTurnAway ==
    ASSUME CallsInv, DispatchComplete
    PROVE  Line!Serve \/ \E code \in Cancelled \cup Stale : Line!TurnAway(code)
<1>1. CallShape /\ CallInv /\ QueueOrderInv /\ LogInv
  BY DEF CallsInv
<1>2. /\ handler = "checked" /\ current \in Callers /\ Outstanding(current)
      /\ UNCHANGED <<order, generation>>
  BY <1>1, CompleteEffect DEF CallInv, AtWork, Outstanding
<1>3. /\ LinePlaces # <<>> /\ LinePlaces[1] = Place(current)
      /\ LinePlaces' = Tail(LinePlaces)
  BY <1>1, CompleteMovesLine
<1>4. LinePlaces[1].caller = current /\ LinePlaces[1].generation = call[current].enqueued
      /\ LinePlaces[1].order = call[current].order
  BY <1>3 DEF Place
<1>5. CASE verdict = "execute"
  <2>1. call[current].enqueued = generation /\ call[current].expected = call[current].enqueued
    BY <1>1, <1>2, <1>5 DEF LogInv, QueueOrderInv
  <2>2. Tickets' = [Tickets EXCEPT ![current] = Handled]
    BY <1>1, <1>5, CompleteMovesLine
  <2> DEFINE e == [generation |-> call[current].expected, order |-> call[current].order,
                   onConnection |-> connection, ownConnection |-> founded]
             p == [generation |-> LinePlaces[1].generation, order |-> LinePlaces[1].order]
             n == Len(log)
  <2>3. log' = Append(log, e) /\ log \in Seq(LogRecord) /\ n \in Nat
    BY <1>1, <1>5, CompleteEffect DEF CallShape
  <2>4. LogPlace(e) = p
    BY <1>4, <2>1 DEF LogPlace
  <2> HIDE DEF e, p
  <2>5. /\ Len(log') = n + 1 /\ log'[n + 1] = e
        /\ \A i \in 1..n : log'[i] = log[i]
    BY <2>3
  <2>6. Served' = [i \in 1..(n + 1) |-> IF i = n + 1 THEN p ELSE Served[i]]
    <3>1. Served' = [i \in 1..(n + 1) |-> LogPlace(log'[i])]
      BY <2>5 DEF Served, LogPlace
    <3>2. \A i \in 1..(n + 1) : i = n + 1 \/ i \in 1..n
      BY <2>3
    <3>3. \A i \in 1..n : Served[i] = LogPlace(log[i])
      BY DEF Served
    <3>4. \A i \in 1..(n + 1) : LogPlace(log'[i]) = IF i = n + 1 THEN p ELSE Served[i]
      BY <2>4, <2>5, <3>2, <3>3
    <3> QED
      BY <3>1, <3>4
  <2> DEFINE S == {LogPlace(log[i]) : i \in 1..n} \cup {p}
  <2>7. Served \in [1..n -> S] /\ p \in S
    BY DEF Served
  <2>8. Served \in Seq(S) /\ Len(Served) = n
    BY <2>3, <2>7
  <2>9. Served' = Append(Served, p)
    <3> HIDE DEF S
    <3> QED
      BY <2>6, <2>7, <2>8, FunctionIsAppend
  <2> QED
    BY <1>2, <1>3, <1>4, <2>1, <2>2, <2>9 DEF Line!Serve, p
<1>6. CASE verdict # "execute"
  <2>1. verdict \in Cancelled \cup Stale /\ UNCHANGED log
    BY <1>1, <1>6, CompleteResult, CompleteEffect
  <2>2. Tickets' = [Tickets EXCEPT ![current] = verdict]
    BY <1>1, <1>6, CompleteMovesLine
  <2>3. Served' = Served
    BY <2>1 DEF Served
  <2> QED
    BY <1>2, <1>3, <1>4, <2>1, <2>2, <2>3 DEF Line!TurnAway
<1> QED
  BY <1>5, <1>6


-----------------------------------------------------------------------------
(* Every move of the dispatcher, whoever submits, is a step of the line.     *)
LEMMA LineStep ==
    ASSUME Shape, CallsInv, DispatchMove PROVE [Line!Next]_(Line!lineVars)
<1>1. CallShape /\ CallInv
  BY DEF CallsInv
<1>2. CASE Quiet \/ DispatchPop \/ DispatchCheck \/ DispatchReschedule
  BY <1>1, <1>2, RestIsQuiet, PopIsQuiet
<1>3. CASE Cancels
  BY <1>1, <1>3, CancelsIsCancel DEF Line!Next
<1>4. CASE DispatchOmInstalled
  BY <1>1, <1>4, InstallIsNewGeneration DEF Line!Next
<1>5. ASSUME NEW c \in Callers, DispatchStopped(c) \/ DispatchStale(c) PROVE Line!Next
  BY <1>1, <1>5, RefusalIsRefuse DEF Line!Next
<1>6. ASSUME NEW c \in Callers, NEW s \in Sequences, DispatchEnqueue(c, s) PROVE Line!Next
  BY <1>1, <1>6, EnqueueIsJoin DEF Line!Next
<1>7. CASE DispatchComplete
  BY <1>7, CompleteIsServeOrTurnAway DEF Line!Next
<1> QED
  BY <1>2, <1>3, <1>4, <1>5, <1>6, <1>7 DEF DispatchMove, Handler

LEMMA InitLine == InitDispatch => Line!Init
<1> SUFFICES ASSUME InitDispatch PROVE Line!Init
  OBVIOUS
<1> DEFINE none == [Ticket("none", 0) EXCEPT !.state = "idle"]
<1>0. none.state = "idle"
  BY DEF Ticket
<1>1. /\ generation \in Nat /\ order = 0 /\ mutation_queue = <<>> /\ handler = "idle"
      /\ log = <<>> /\ \A c \in Callers : call[c].state = "idle"
  BY <1>0 DEF InitDispatch, Init
<1>2. LinePlaces = <<>>
  <2>1. InLine = <<>>
    BY <1>1 DEF InLine, AtWork
  <2> QED
    BY <2>1 DEF LinePlaces
<1>3. Served = <<>>
  BY <1>1 DEF Served
<1>4. Tickets = [c \in Callers |-> "none"]
  BY <1>1 DEF Tickets
<1> QED
  BY <1>1, <1>2, <1>3, <1>4 DEF Line!Init, Line!NoTicket

(* For its callers the dispatcher is one line (MutationLine): joined by      *)
(* g_queue_push_tail under both locks, served at its head by                 *)
(* dispatch_next_mutation_on_wp_thread, emptied behind the head by           *)
(* wp_connection_mutations_cancel_pending.                                   *)
THEOREM DispatcherIsALine == DispatchSpec => LineSpec
<1>1. InitDispatch => Line!Init
  BY InitLine
<1>2. ASSUME DispatchInv, [NextDispatch]_vars PROVE [Line!Next]_(Line!lineVars)
  <2>1. Shape /\ CallsInv /\ sequence \in Nat
    BY <1>2 DEF DispatchInv, ConnInv, Shape
  <2> QED
    BY <1>2, <2>1, DispatchCases, LineStep
<1> QED
  BY <1>1, <1>2, DispatchInvHolds, PTL DEF DispatchSpec, LineSpec, Line!Spec

=============================================================================
