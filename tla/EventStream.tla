------------------------------ MODULE EventStream ------------------------------
(***************************************************************************)
(* What an event queue of the runtime promises to the application that     *)
(* reads it, without its buffer, its lock or its waiting threads.          *)
(*                                                                         *)
(* The stream starts from a snapshot position (a connection generation and *)
(* a sequence number).  Deltas are delivered one by one with no gap.  When *)
(* continuity is lost the reader is told exactly once, by an event that    *)
(* requires a new snapshot, and nothing is delivered after it until Reset  *)
(* establishes a new position.  A delta is given up only for a reason: the *)
(* producer left the sequence, or the reader is Capacity deltas behind.    *)
(***************************************************************************)
EXTENDS Integers

CONSTANT Capacity   \* the largest number of deltas accepted and not yet delivered

VARIABLES
    gen,        \* connection generation of the stream
    published,  \* sequence of the last publication the stream accounts for
    delivered,  \* sequence of the last delta the reader has taken
    status,     \* "live", or the kind of the loss to be told, or "told"
    closed,     \* no publication is accepted any more
    last        \* the event the reader took last (the baseline before the first)

streamVars == <<gen, published, delivered, status, closed, last>>

LossKind == {"discontinuity", "resnapshot"}

Init ==
    /\ gen \in Nat
    /\ published \in Nat
    /\ delivered = published
    /\ status = "live"
    /\ closed = FALSE
    /\ last = [kind |-> "delta", generation |-> gen, sequence |-> published]

(* The next delta of the sequence is accepted while there is room for it. *)
Accept ==
    /\ status = "live" /\ ~closed
    /\ published - delivered < Capacity
    /\ published' = published + 1
    /\ UNCHANGED <<gen, delivered, status, closed, last>>

(* The queue gives up: only for a foreign generation, a gap, or no room. *)
Lose ==
    /\ status = "live" /\ ~closed
    /\ gen' \in Nat
    /\ published' \in Nat
    /\ \/ gen' # gen
       \/ published' # published + 1
       \/ published - delivered = Capacity
    /\ delivered' = published'
    /\ status' = "discontinuity"
    /\ UNCHANGED <<closed, last>>

(* The producer itself asks for a new snapshot, in sequence. *)
Invalidate ==
    /\ status = "live" /\ ~closed
    /\ published' = published + 1
    /\ delivered' = published'
    /\ status' = "resnapshot"
    /\ UNCHANGED <<gen, closed, last>>

Deliver ==
    /\ status = "live"
    /\ delivered < published
    /\ delivered' = delivered + 1
    /\ last' = [kind |-> "delta", generation |-> gen, sequence |-> delivered']
    /\ UNCHANGED <<gen, published, status, closed>>

Tell ==
    /\ status \in LossKind
    /\ last' = [kind |-> status, generation |-> gen, sequence |-> published]
    /\ status' = "told"
    /\ UNCHANGED <<gen, published, delivered, closed>>

Reset ==
    /\ ~closed
    /\ gen' \in Nat
    /\ published' \in Nat
    /\ delivered' = published'
    /\ status' = "live"
    /\ UNCHANGED <<closed, last>>

Close ==
    /\ closed' = TRUE
    /\ UNCHANGED <<gen, published, delivered, status, last>>

Next == Accept \/ Lose \/ Invalidate \/ Deliver \/ Tell \/ Reset \/ Close

Spec == Init /\ [][Next]_streamVars
=============================================================================
