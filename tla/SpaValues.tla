-------------------------------- MODULE SpaValues -------------------------------
(***************************************************************************)
(* The Python values that the SPA pod codec makes of pods and that         *)
(* normalize.py takes apart: scalars, containers and typed objects, and    *)
(* the conversions of Python that both use.  A value is a record whose     *)
(* field py names its type or, for the mappings of the codec, their        *)
(* _pod_type.                                                              *)
(***************************************************************************)
EXTENDS Integers, Sequences

CONSTANTS
    WordBase   \* a word holds 0..WordBase-1 (2^32 in the code)

(* An exception. *)
Bad == [py |-> "raised"]

-----------------------------------------------------------------------------
(* The objects that a snapshot is made of, and their keys.                   *)

PropInfoId == 1
PropsId == 2
EnumProfileId == 8
ProfileId == 9
EnumRouteId == 12
RouteId == 13
KnownIds == {PropInfoId, PropsId, EnumProfileId, ProfileId, EnumRouteId, RouteId}

(* EnumProfile and EnumRoute share the tables of Profile and Route. *)
Table(o) == IF o = EnumProfileId THEN ProfileId ELSE IF o = EnumRouteId THEN RouteId ELSE o

(* Keys, numbered within their tables. *)
K == [volume |-> 1, channelVolumes |-> 2, channelMap |-> 3, mute |-> 9,
      index |-> 1, classes |-> 3, name |-> 4, available |-> 5,
      direction |-> 6, profiles |-> 7, props |-> 8]

-----------------------------------------------------------------------------
(* Values and conversions.                                                   *)

Scalar(py, n) == [py |-> py, n |-> n]
Many(py, items) == [py |-> py, items |-> items]
isInt(v) == v.py \in {"int", "enum", "bool"}
isStr(v) == v.py = "str"

(* int() and float(): a float is a fixed-point number, and what it has after *)
(* the point is what only a double can hold; int() cuts it off.  On a str or *)
(* a mapping both raise (digits in a str are not told apart from other text).*)
isNumber(v) == isInt(v) \/ v.py = "float"
as_int(v) ==
    IF v.py = "float"
    THEN Scalar("int", IF v.n < 0 THEN -((-v.n) \div WordBase) ELSE v.n \div WordBase)
    ELSE IF isInt(v) THEN Scalar("int", v.n) ELSE Bad
as_float(v) ==
    IF isInt(v) THEN Scalar("float", v.n * WordBase)
    ELSE IF v.py = "float" THEN v ELSE Bad

AnyBad(values) == \E i \in 1..Len(values) : values[i] = Bad
Guarded(values, v) == IF AnyBad(values) THEN Bad ELSE v
=============================================================================
