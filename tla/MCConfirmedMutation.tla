-------------------------- MODULE MCConfirmedMutation --------------------------
(* Small instances of ConfirmedMutation for TLC. *)
EXTENDS ConfirmedMutation

Wanted == [found |-> TRUE, same |-> TRUE, usable |-> TRUE, fits |-> TRUE, active |-> TRUE]

(* What may be wrong with the target, one thing at a time, and two matches   *)
(* that exclude each other.                                                  *)
MCTargets ==
    {[Wanted EXCEPT !.active = FALSE],
     [Wanted EXCEPT !.same = FALSE],
     [Wanted EXCEPT !.usable = FALSE],
     [Wanted EXCEPT !.usable = FALSE, !.active = FALSE],
     [Wanted EXCEPT !.fits = FALSE, !.active = FALSE]}

(* Before and after the change that a control asks for. *)
MCFewTargets == {[Wanted EXCEPT !.active = FALSE], Wanted}

(* Nothing is explored after the last control has returned.                  *)
SomeControlLeft == \E c \in Callers : at[c] # "done"
=============================================================================
