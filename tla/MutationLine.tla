------------------------------ MODULE MutationLine ------------------------------
(***************************************************************************)
(* What the mutation dispatcher promises to its callers, without its       *)
(* thread, its sources, its flag, or anything of the connection but the    *)
(* generation.                                                             *)
(*                                                                         *)
(* Callers wait in one line.  Joining it gives a place: the generation and *)
(* the next number of that generation.  Only the head of the line is       *)
(* served, once, and only in the generation of its place; or it is turned  *)
(* away.  Whoever waits may be sent home by a cancellation, together with  *)
(* everybody behind the head, never one without the others.  A ticket is   *)
(* final, and says Handled exactly to those who were served.               *)
(***************************************************************************)
EXTENDS Integers, Sequences

CONSTANTS
    Callers,     \* who may join, once each
    Handled,     \* the ticket of those who were served
    Cancelled,   \* the tickets of those sent home
    Stale        \* the tickets of those whose place is no longer good

VARIABLES
    generation,  \* the connection's generation
    order,       \* places given in it
    line,        \* the places of those who wait, in order of arrival
    ticket,      \* what each caller was told, NoTicket before that
    log          \* the places of those who were served, in order of service

lineVars == <<generation, order, line, ticket, log>>

NoTicket == "none"

Waiting(c) == \E i \in 1..Len(line) : line[i].caller = c

(* A caller that comes for the first time. *)
Arrives(c) == ticket[c] = NoTicket /\ ~Waiting(c)

Init ==
    /\ generation \in Nat
    /\ order = 0
    /\ line = <<>>
    /\ ticket = [c \in Callers |-> NoTicket]
    /\ log = <<>>

NewGeneration ==
    /\ generation' = generation + 1
    /\ order' = 0
    /\ UNCHANGED <<line, ticket, log>>

Join(c) ==
    /\ Arrives(c)
    /\ order' = order + 1
    /\ line' = Append(line, [caller |-> c, generation |-> generation, order |-> order'])
    /\ UNCHANGED <<generation, ticket, log>>

Refuse(c, code) ==
    /\ Arrives(c)
    /\ ticket' = [ticket EXCEPT ![c] = code]
    /\ UNCHANGED <<generation, order, line, log>>

Serve ==
    /\ line # <<>>
    /\ line[1].generation = generation
    /\ line' = Tail(line)
    /\ ticket' = [ticket EXCEPT ![line[1].caller] = Handled]
    /\ log' = Append(log, [generation |-> line[1].generation, order |-> line[1].order])
    /\ UNCHANGED <<generation, order>>

TurnAway(code) ==
    /\ line # <<>>
    /\ line' = Tail(line)
    /\ ticket' = [ticket EXCEPT ![line[1].caller] = code]
    /\ UNCHANGED <<generation, order, log>>

(* Everybody goes home but, perhaps, the one whose turn it is. *)
Cancel(code, n) ==
    /\ n <= Len(line)
    /\ line' = SubSeq(line, 1, n)
    /\ ticket' = [c \in Callers |->
                    IF \E i \in (n + 1)..Len(line) : line[i].caller = c
                    THEN code ELSE ticket[c]]
    /\ UNCHANGED <<generation, order, log>>

Next ==
    \/ NewGeneration
    \/ \E c \in Callers : Join(c)
    \/ \E c \in Callers, code \in Cancelled \cup Stale : Refuse(c, code)
    \/ Serve
    \/ \E code \in Cancelled \cup Stale : TurnAway(code)
    \/ \E code \in Cancelled, n \in 0..1 : Cancel(code, n)

Spec == Init /\ [][Next]_lineVars
=============================================================================
