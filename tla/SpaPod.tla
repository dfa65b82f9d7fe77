-------------------------------- MODULE SpaPod --------------------------------
(***************************************************************************)
(* The SPA pod codec of spa_pod.py and the typed objects of                *)
(* _spa_pod_types.py: what becomes of a pod that PipeWire sends when it is *)
(* parsed, perhaps edited as a SpaPodObject, built again and read back.    *)
(*                                                                         *)
(* Data is a sequence of words of four bytes; sizes count bytes.  A string *)
(* or a byte string is known by its length, and the body of an array item  *)
(* is a number of whole words.                                             *)
(***************************************************************************)
EXTENDS SpaValues, SequencesExt

CONSTANTS
    RawPods,      \* the pods that PipeWire sends
    Assignments,  \* bound: what a client may assign to properties of an object
    MaxEdits      \* bound: edits of one object

VARIABLES
    stage,    \* how far the pod has come
    raw,      \* the data of the pod
    value,    \* what parse_spa_pod() made of it, with the client's edits
    edits,    \* how many edits there were
    written,  \* what build_spa_pod() made of the value
    back      \* what parse_spa_pod() makes of that

podVars == <<stage, raw, value, edits, written, back>>

T == [None |-> 1, Bool |-> 2, Id |-> 3, Int |-> 4, Long |-> 5, Float |-> 6,
      Double |-> 7, String |-> 8, Bytes |-> 9, Rectangle |-> 10, Fraction |-> 11,
      Bitmap |-> 12, Array |-> 13, Struct |-> 14, Object |-> 15, Sequence |-> 16,
      Pointer |-> 17, Fd |-> 18, Choice |-> 19, Pod |-> 20]
Unset == 0   \* no type given, no type in the specification of a property

Raised == <<-1>>   \* an exception of the builder

-----------------------------------------------------------------------------
(* Framing.                                                                  *)

align(n) == 8 * ((n + 7) \div 8)
words(n) == (n + 3) \div 4

(* _pack_pod(): header, body, padding to eight bytes *)
pack_pod(type, size, body) ==
    <<size, type>> \o body \o [p \in 1..(align(size) - 4 * words(size)) \div 4 |-> 0]

(* The value of a signed word or of a signed long. *)
Signed(w, base) == IF w >= base \div 2 THEN w - base ELSE w
Wide == WordBase * WordBase

size_at(d, o) == d[o + 1]
type_at(d, o) == d[o + 2]
total_words(d, o) == align(8 + size_at(d, o)) \div 4

-----------------------------------------------------------------------------
(* The specifications of properties: one row for each kind there is in the   *)
(* tables, and the properties that a snapshot is made of.                    *)

Row(type, shape, enum) == [type |-> type, shape |-> shape, enum |-> enum]
NoRow == Row(Unset, "none", FALSE)

Specs ==
    <<PropInfoId, 1>>              :> Row(T.Struct, "labels", FALSE) @@
    <<PropsId, K.volume>>          :> Row(T.Float, "none", FALSE) @@
    <<PropsId, K.channelVolumes>>  :> Row(T.Array, "array_float", FALSE) @@
    <<PropsId, K.channelMap>>      :> Row(T.Array, "array_id", TRUE) @@
    <<PropsId, 4>>                 :> Row(T.Struct, "params", FALSE) @@
    <<PropsId, 5>>                 :> Row(T.Long, "none", FALSE) @@
    <<PropsId, 6>>                 :> Row(T.Id, "none", TRUE) @@
    <<PropsId, 7>>                 :> Row(T.Fd, "none", FALSE) @@
    <<PropsId, 8>>                 :> Row(Unset, "none", FALSE) @@
    <<PropsId, K.mute>>            :> Row(T.Bool, "none", FALSE) @@
    <<ProfileId, K.index>>         :> Row(T.Int, "none", FALSE) @@
    <<ProfileId, 2>>               :> Row(T.Struct, "dict_info", FALSE) @@
    <<ProfileId, K.classes>>       :> Row(T.Struct, "profile_classes", FALSE) @@
    <<ProfileId, K.name>>          :> Row(T.String, "none", FALSE) @@
    <<ProfileId, K.available>>     :> Row(T.Id, "none", TRUE) @@
    <<RouteId, K.index>>           :> Row(T.Int, "none", FALSE) @@
    <<RouteId, K.name>>            :> Row(T.String, "none", FALSE) @@
    <<RouteId, K.available>>       :> Row(T.Id, "none", TRUE) @@
    <<RouteId, K.direction>>       :> Row(T.Id, "none", TRUE) @@
    <<RouteId, K.profiles>>        :> Row(T.Array, "array_int", FALSE) @@
    <<RouteId, K.props>>           :> Row(T.Object, "object_props", FALSE)

Arrays == "array_int" :> T.Int @@ "array_float" :> T.Float @@ "array_id" :> T.Id

specified(o, k) == <<Table(o), k>> \in DOMAIN Specs
spec(o, k) == IF specified(o, k) THEN Specs[<<Table(o), k>>] ELSE NoRow

(* The members of the IntEnum classes. *)
Members == 0..2

-----------------------------------------------------------------------------
(* Python values.                                                            *)

Pairs(items) == {i \in 1..Len(items) : i % 2 = 1}

(* An assignment to a dict keeps the place of a key that is there.           *)
Put(entries, e) ==
    IF \E i \in 1..Len(entries) : entries[i].key = e.key
    THEN [i \in 1..Len(entries) |-> IF entries[i].key = e.key THEN e ELSE entries[i]]
    ELSE Append(entries, e)

DictOf(items) ==
    FoldLeft(LAMBDA d, i : Put(d, [key |-> items[i], v |-> items[i + 1]]), <<>>,
             SetToSortSeq(Pairs(items), <))
FlatOf(entries) == FlattenSeq([i \in 1..Len(entries) |-> <<entries[i].key, entries[i].v>>])

coerce_enum(v) == IF v.py = "int" /\ v.n \in Members THEN Scalar("enum", v.n) ELSE v

(* _array_to_values(), by the conversion that the shape names. *)
element(x, shape) ==
    CASE shape = "array_float" -> as_float(x)
      [] shape = "array_int" -> as_int(x)
      [] OTHER -> IF as_int(x) = Bad THEN Bad ELSE coerce_enum(as_int(x))
array_to_values(v, shape) ==
    LET items == [i \in 1..Len(v.items) |-> element(v.items[i], shape)]
    IN IF v.py # "array" THEN v ELSE Guarded(items, Many("list", items))

(* _struct_to_dict_info(), _struct_to_params(), _struct_to_labels() and      *)
(* _struct_to_profile_classes(): a struct that does not fit is left alone.   *)
struct_to_dict_info(v) ==
    IF /\ v.py = "struct" /\ v.items # <<>> /\ isInt(v.items[1])
       /\ Len(v.items) = 1 + 2 * v.items[1].n
       /\ \A i \in 2..Len(v.items) : isStr(v.items[i])
    THEN Many("dict", DictOf(Tail(v.items))) ELSE v

struct_to_params(v) ==
    IF /\ v.py = "struct" /\ Len(v.items) % 2 = 0
       /\ \A i \in Pairs(v.items) : isStr(v.items[i])
    THEN Many("dict", DictOf(v.items)) ELSE v

struct_to_labels(v) ==
    IF /\ v.py = "struct" /\ Len(v.items) % 2 = 0
       /\ \A i \in Pairs(v.items) : isStr(v.items[i + 1])
    THEN Many("labels", v.items) ELSE v

struct_to_profile_classes(v) ==
    LET counted == v.items[1].py \in {"int", "enum"}
        nested == IF counted THEN Tail(v.items) ELSE v.items
        fits(x) == /\ x.py = "struct" /\ Len(x.items) = 4
                   /\ isStr(x.items[1]) /\ isInt(x.items[2]) /\ isStr(x.items[3])
                   /\ x.items[4].py = "array"
        class(x) == Many("class", [x.items EXCEPT ![4] = array_to_values(@, "array_int")])
    IN IF v.py # "struct" THEN v
       ELSE IF v.items = <<>> THEN v
       ELSE IF counted /\ Len(nested) # v.items[1].n THEN v
       ELSE IF \E i \in 1..Len(nested) : ~fits(nested[i]) THEN v
       ELSE IF \E i \in 1..Len(nested) : class(nested[i]).items[4] = Bad THEN Bad
       ELSE Many("classes", [i \in 1..Len(nested) |-> class(nested[i])])

(* On the value itself, or on each value of a choice. *)
OnChoice(v, Op(_)) ==
    LET items == [i \in 1..Len(v.items) |-> Op(v.items[i])]
    IN IF v.py = "choice" THEN Guarded(items, [v EXCEPT !.items = items]) ELSE Op(v)
specialize_array_property(v, shape) ==
    LET specialize(x) == array_to_values(x, shape) IN OnChoice(v, specialize)
coerce_enum_property_value(v) == OnChoice(v, coerce_enum)

specialize_property_value(o, k, v) ==
    LET row == spec(o, k)
    IN CASE row.shape = "dict_info" -> struct_to_dict_info(v)
         [] row.shape = "params" -> struct_to_params(v)
         [] row.shape = "labels" -> struct_to_labels(v)
         [] row.shape = "profile_classes" -> struct_to_profile_classes(v)
         [] row.shape \in DOMAIN Arrays -> specialize_array_property(v, row.shape)
         [] OTHER -> IF row.enum THEN coerce_enum_property_value(v) ELSE v

-----------------------------------------------------------------------------
(* parse_spa_pod()                                                           *)

RECURSIVE parse_spa_pod(_, _)

(* The pods that follow each other from c to e; one that does not fit ends   *)
(* them.  Those of an object or a sequence have two words in front.          *)
RECURSIVE Children(_, _, _, _)
Children(d, c, e, front) ==
    IF c + front + 2 > e THEN <<>>
    ELSE LET next == c + front + total_words(d, c + front)
         IN IF next > e THEN <<>>
            ELSE <<[a |-> d[c + 1], b |-> d[c + 2], v |-> parse_spa_pod(d, c + front)]>>
                    \o Children(d, next, e, front)

(* The items of an array or a choice, which share one header. *)
Items(d, c, e, cs, ct) ==
    LET w == words(cs)
    IN [i \in 1..((e - c) \div w) |->
           parse_spa_pod(<<cs, ct>> \o SubSeq(d, c + (i - 1) * w + 1, c + i * w), 0)]

Parsed(children) == [i \in 1..Len(children) |-> children[i].v]

parse_array(d, o, size) ==
    LET cs == d[o + 1]
        ct == d[o + 2]
        items == IF cs = 0 THEN <<>> ELSE Items(d, o + 2, o + size \div 4, cs, ct)
    IN IF size < 8 THEN [py |-> "array", ct |-> T.None, cs |-> 0, items |-> <<>>]
       ELSE Guarded(items, [py |-> "array", ct |-> ct, cs |-> cs, items |-> items])

parse_choice(d, o, size) ==
    LET cs == d[o + 3]
        ct == d[o + 4]
        items == IF cs = 0 THEN <<>> ELSE Items(d, o + 4, o + size \div 4, cs, ct)
    IN IF size < 16
       THEN [py |-> "choice", kind |-> 0, flags |-> 0, ct |-> T.None, cs |-> 0,
             items |-> <<>>]
       ELSE Guarded(items, [py |-> "choice", kind |-> d[o + 1], flags |-> d[o + 2],
                            ct |-> ct, cs |-> cs, items |-> items])

parse_struct(d, o, size) ==
    LET items == Parsed(Children(d, o, o + size \div 4, 0))
    IN Guarded(items, Many("struct", items))

(* A property of a known object is known by its name, if it has one.         *)
parse_object(d, o, size) ==
    LET id == d[o + 2]
        children == Children(d, o + 2, o + size \div 4, 2)
        entry(x) == [key |-> <<specified(id, x.a), x.a>>, flags |-> x.b,
                     v |-> IF x.v = Bad THEN Bad ELSE specialize_property_value(id, x.a, x.v)]
        properties == FoldLeft(LAMBDA es, x : Put(es, entry(x)), <<>>, children)
    IN IF size < 8 THEN [py |-> "object", typed |-> FALSE, n |-> 0, m |-> 0, items |-> <<>>]
       ELSE Guarded(Parsed(children) \o Parsed(properties),
                    [py |-> "object", typed |-> id \in KnownIds, n |-> d[o + 1],
                     m |-> id, items |-> properties])

parse_sequence(d, o, size) ==
    LET children == Children(d, o + 2, o + size \div 4, 2)
    IN IF size < 8 THEN [py |-> "sequence", n |-> 0, items |-> <<>>]
       ELSE Guarded(Parsed(children),
                    [py |-> "sequence", n |-> d[o + 1], items |-> children])

parse_pointer(d, o, size) ==
    [py |-> "pointer", n |-> IF size >= 8 THEN d[o + 1] ELSE 0,
     m |-> IF size >= 16 THEN d[o + 3] + WordBase * d[o + 4]
           ELSE IF size >= 12 THEN d[o + 3] ELSE 0]

parse_embedded_pod(d, o, size) ==
    IF size < 8 THEN Many("pod", <<[py |-> "none"]>>)
    ELSE IF 4 * total_words(d, o) > size THEN Bad
    ELSE LET v == parse_spa_pod(d, o) IN Guarded(<<v>>, Many("pod", <<v>>))

parse_spa_pod(d, o) ==
    IF Len(d) < o + 2 THEN Bad
    ELSE LET size == size_at(d, o)
             type == type_at(d, o)
             b == o + 2
             wide == d[b + 1] + WordBase * d[b + 2]
         IN IF 4 * Len(d) < 4 * b + size THEN Bad
            ELSE CASE type = T.None -> [py |-> "none"]
                   [] type = T.Bool -> Scalar("bool", IF d[b + 1] = 0 THEN 0 ELSE 1)
                   [] type = T.Id -> Scalar("int", d[b + 1])
                   [] type = T.Int -> Scalar("int", Signed(d[b + 1], WordBase))
                   [] type \in {T.Long, T.Fd} -> Scalar("int", Signed(wide, Wide))
                   [] type = T.Float -> Scalar("float", WordBase * Signed(d[b + 1], WordBase))
                   [] type = T.Double -> Scalar("float", Signed(wide, Wide))
                   [] type = T.String -> Scalar("str", IF size = 0 THEN 0 ELSE d[b + 1])
                   [] type = T.Bytes -> Scalar("bytes", size)
                   [] type = T.Bitmap -> Scalar("bitmap", size)
                   [] type = T.Rectangle -> [py |-> "rect", n |-> d[b + 1], m |-> d[b + 2]]
                   [] type = T.Fraction -> [py |-> "frac", n |-> d[b + 1], m |-> d[b + 2]]
                   [] type = T.Array -> parse_array(d, b, size)
                   [] type = T.Struct -> parse_struct(d, b, size)
                   [] type = T.Object -> parse_object(d, b, size)
                   [] type = T.Sequence -> parse_sequence(d, b, size)
                   [] type = T.Pointer -> parse_pointer(d, b, size)
                   [] type = T.Choice -> parse_choice(d, b, size)
                   [] type = T.Pod -> parse_embedded_pod(d, b, size)
                   [] OTHER -> [py |-> "raw", ct |-> type, n |-> size]

-----------------------------------------------------------------------------
(* build_spa_pod()                                                           *)

RECURSIVE build_spa_pod(_, _)

Concat(parts) ==
    IF \E i \in 1..Len(parts) : parts[i] = Raised THEN Raised ELSE FlattenSeq(parts)

(* A container whose body is the concatenation of the parts. *)
Container(type, parts) ==
    LET body == Concat(parts)
    IN IF body = Raised THEN Raised ELSE pack_pod(type, 4 * Len(body), body)

Filled(n, w) == [i \in 1..words(n) |-> w]
Within(n, low, high) == low <= n /\ n < high

(* struct.pack() raises when an int does not fit. *)
PackInt(type, v) ==
    LET n == as_int(v).n
        half == WordBase \div 2
    IN CASE ~isNumber(v) -> Raised
         [] isNumber(v) /\ type = T.Id ->
               IF Within(n, 0, WordBase) THEN pack_pod(type, 4, <<n>>) ELSE Raised
         [] isNumber(v) /\ type = T.Int ->
               IF Within(n, -half, half) THEN pack_pod(type, 4, <<n % WordBase>>) ELSE Raised
         [] OTHER ->
               IF ~Within(n, -(Wide \div 2), Wide \div 2) THEN Raised
               ELSE pack_pod(type, 8, <<n % WordBase, (n % Wide) \div WordBase>>)

PackFloat(type, v) ==
    LET n == as_float(v).n % Wide
    IN CASE ~isNumber(v) -> Raised
         [] isNumber(v) /\ type = T.Float -> pack_pod(type, 4, <<n \div WordBase>>)
         [] OTHER -> pack_pod(type, 8, <<n % WordBase, n \div WordBase>>)

(* str() accepts any value; of what it makes of one that is not a string     *)
(* only the length for a small int is followed, for all of them.             *)
as_str(v) == IF isStr(v) THEN v ELSE Scalar("str", 1)
PackString(type, v) ==
    LET n == as_str(v).n IN pack_pod(type, n + 1, Filled(n + 1, n))

Falsy(v) ==
    \/ v.py = "none"
    \/ (isNumber(v) \/ v.py \in {"str", "bytes"}) /\ v.n = 0
    \/ (v.py \in {"list", "dict", "labels", "classes"} \/ (v.py = "object" /\ v.typed))
         /\ v.items = <<>>

(* _explicit_pod_type() and _infer_spa_type(); a plain dict has no type.     *)
infer_spa_type(v) ==
    CASE v.py = "none" -> T.None
      [] v.py = "bool" -> T.Bool
      [] v.py = "enum" -> T.Id
      [] v.py = "int" -> IF Within(v.n, -(WordBase \div 2), WordBase \div 2) THEN T.Int ELSE T.Long
      [] v.py = "float" -> T.Float
      [] v.py = "str" -> T.String
      [] v.py = "bytes" -> T.Bytes
      [] v.py = "bitmap" -> T.Bitmap
      [] v.py = "rect" -> T.Rectangle
      [] v.py = "frac" -> T.Fraction
      [] v.py = "array" -> T.Array
      [] v.py = "choice" -> T.Choice
      [] v.py = "object" -> T.Object
      [] v.py = "sequence" -> T.Sequence
      [] v.py = "pointer" -> T.Pointer
      [] v.py = "pod" -> T.Pod
      [] v.py \in {"struct", "list", "labels", "classes"} -> T.Struct
      [] v.py = "raw" -> v.ct
      [] OTHER -> Unset

Absent == -1
StructOf(items) == Many("struct", items)
ArrayOf(ct, items) == [py |-> "array", ct |-> ct, cs |-> Absent, items |-> items]

(* _build_array_pod() and _build_choice_pod() after their own header: child  *)
(* size and type, and the bodies of the items, all of that size.             *)
ItemBodies(items, given, cs0) ==
    LET ct == IF given = Unset /\ items # <<>> THEN infer_spa_type(items[1]) ELSE given
        pods == [i \in 1..Len(items) |-> build_spa_pod(items[i], ct)]
        cs == IF cs0 # Absent THEN cs0 ELSE IF items = <<>> THEN 0 ELSE pods[1][1]
    IN IF ct = Unset \/ (\E i \in 1..Len(pods) : pods[i] = Raised \/ pods[i][1] # cs)
       THEN <<Raised>>
       ELSE <<<<cs, ct>>>> \o [i \in 1..Len(pods) |-> SubSeq(pods[i], 3, 2 + words(cs))]

build_array_pod(v) ==
    IF v.py = "array" THEN Container(T.Array, ItemBodies(v.items, v.ct, v.cs))
    ELSE IF v.py = "list" THEN Container(T.Array, ItemBodies(v.items, Unset, Absent))
    ELSE Raised

build_choice_pod(v) ==
    IF v.py # "choice" THEN Raised
    ELSE Container(T.Choice, <<<<v.kind, v.flags>>>> \o ItemBodies(v.items, v.ct, v.cs))

build_struct_pod(v) ==
    IF v.py \notin {"struct", "list"} THEN Raised
    ELSE Container(T.Struct, [i \in 1..Len(v.items) |-> build_spa_pod(v.items[i], Unset)])

(* _dict_info_to_struct(), _params_to_struct(), _labels_to_struct() and      *)
(* _profile_classes_to_struct(), which always writes the counted form        *)
dict_info_to_struct(v) ==
    IF v.py = "dict" THEN StructOf(<<Scalar("int", Len(v.items))>> \o FlatOf(v.items)) ELSE v
params_to_struct(v) == IF v.py = "dict" THEN StructOf(FlatOf(v.items)) ELSE v
labels_to_struct(v) == IF v.py = "labels" THEN StructOf(v.items) ELSE v
profile_classes_to_struct(v) ==
    LET class(x) == StructOf([x.items EXCEPT ![4] = ArrayOf(T.Int, @.items)])
    IN IF v.py # "classes" THEN v
       ELSE StructOf(<<Scalar("int", Len(v.items))>>
                        \o [i \in 1..Len(v.items) |-> class(v.items[i])])

prepare_property_value(o, k, v) ==
    LET row == spec(o, k)
        ct == IF row.type # Unset THEN row.type ELSE IF row.enum THEN T.Id ELSE Unset
    IN CASE v.py = "choice" -> IF v.ct = Unset THEN [v EXCEPT !.ct = ct] ELSE v
         [] v.py # "choice" /\ row.shape = "dict_info" -> dict_info_to_struct(v)
         [] v.py # "choice" /\ row.shape = "params" -> params_to_struct(v)
         [] v.py # "choice" /\ row.shape = "labels" -> labels_to_struct(v)
         [] v.py # "choice" /\ row.shape = "profile_classes" -> profile_classes_to_struct(v)
         [] v.py # "choice" /\ row.shape \in DOMAIN Arrays ->
               IF v.py = "list" THEN ArrayOf(Arrays[row.shape], v.items) ELSE Bad
         [] OTHER -> v

(* Slip: what the specification says of the type is not asked. *)
PropertyInferred(o, e) ==
    LET v == prepare_property_value(o, e.key[2], e.v)
    IN IF v = Bad THEN Raised ELSE build_spa_pod(v, Unset)

(* The type of the value, if it says one, else that of the specification.    *)
PropertyPod(o, e) ==
    LET v == prepare_property_value(o, e.key[2], e.v)
        explicit == \/ v.py \in {"array", "choice", "struct", "rect", "frac", "bitmap",
                                 "sequence", "pointer", "pod", "raw"}
                    \/ v.py = "object" /\ ~v.typed
    IN IF v = Bad THEN Raised
       ELSE build_spa_pod(v, IF explicit THEN Unset ELSE spec(o, e.key[2]).type)

(* A name that is in no table has the number 0, and no key to write. *)
NameOnly(e) == e.key = <<TRUE, 0>>

build_object_pod(v) ==
    IF v.py # "object" THEN Raised
    ELSE LET entry(e) == IF NameOnly(e) THEN Raised
                         ELSE Concat(<<<<e.key[2], e.flags>>, PropertyPod(v.m, e)>>)
         IN Container(T.Object, <<<<v.n, v.m>>>> \o [i \in 1..Len(v.items) |-> entry(v.items[i])])

build_sequence_pod(v) ==
    IF v.py # "sequence" THEN Raised
    ELSE LET control(x) == Concat(<<<<x.a, x.b>>, build_spa_pod(x.v, Unset)>>)
         IN Container(T.Sequence, <<<<v.n, 0>>>> \o [i \in 1..Len(v.items) |-> control(v.items[i])])

build_pointer_pod(v) ==
    IF v.py # "pointer" THEN Raised
    ELSE pack_pod(T.Pointer, 16, <<v.n, 0, v.m % WordBase, v.m \div WordBase>>)

(* A byte string is taken for a pod that is encoded already: what should be  *)
(* its header is read, and the string is written as it is.                   *)
build_embedded_pod(v) ==
    LET inner == IF v.py = "pod" THEN v.items[1] ELSE v
    IN IF inner.py # "bytes" THEN Container(T.Pod, <<build_spa_pod(inner, Unset)>>)
       ELSE IF inner.n < 8 THEN Raised
       ELSE pack_pod(T.Pod, inner.n, Filled(inner.n, inner.n))

build_spa_pod(v, pod_type) ==
    LET t == IF pod_type = Unset THEN infer_spa_type(v) ELSE pod_type
    IN CASE t = T.None -> pack_pod(t, 0, <<>>)
         [] t = T.Bool -> pack_pod(t, 4, <<IF Falsy(v) THEN 0 ELSE 1>>)
         [] t \in {T.Id, T.Int, T.Long, T.Fd} -> PackInt(t, v)
         [] t \in {T.Float, T.Double} -> PackFloat(t, v)
         [] t = T.String -> PackString(t, v)
         [] t \in {T.Bytes, T.Bitmap} -> pack_pod(t, v.n, Filled(v.n, v.n))
         [] t \in {T.Rectangle, T.Fraction} -> pack_pod(t, 8, <<v.n, v.m>>)
         [] t = T.Array -> build_array_pod(v)
         [] t = T.Struct -> build_struct_pod(v)
         [] t = T.Object -> build_object_pod(v)
         [] t = T.Sequence -> build_sequence_pod(v)
         [] t = T.Pointer -> build_pointer_pod(v)
         [] t = T.Choice -> build_choice_pod(v)
         [] t = T.Pod -> build_embedded_pod(v)
         [] OTHER -> Raised

-----------------------------------------------------------------------------
(* A pod on its way.                                                         *)

NotYet == [py |-> "none"]

PodInit ==
    /\ stage = "raw"
    /\ raw \in RawPods
    /\ value = NotYet /\ back = NotYet
    /\ edits = 0 /\ written = <<>>

Read ==
    /\ stage = "raw" /\ stage' = "parsed"
    /\ value' = parse_spa_pod(raw, 0)
    /\ UNCHANGED <<raw, edits, written, back>>

Typed(v) == v.py = "object" /\ v.typed
Editable == stage = "parsed" /\ edits < MaxEdits /\ Typed(value)

(* _key_to_storage(): a number that has a name is stored by its name.        *)
storage_key(o, key) == IF ~key[1] /\ specified(o, key[2]) THEN <<TRUE, key[2]>> ELSE key

FlagsOf(entries, key) ==
    LET there == {i \in 1..Len(entries) : entries[i].key = key}
    IN IF there = {} THEN 0 ELSE entries[CHOOSE i \in there : TRUE].flags

(* Slip: a number is stored as it is given. *)
SetByNumber(a) ==
    /\ Editable /\ value.m = a.object
    /\ value' = [value EXCEPT !.items = Put(@, [key |-> a.key, flags |-> 0, v |-> a.v])]
    /\ edits' = edits + 1
    /\ UNCHANGED <<stage, raw, written, back>>

(* SpaPodObject.__setitem__(), also by attribute: flags that are there stay. *)
SetItem(a) ==
    /\ Editable /\ value.m = a.object
    /\ LET key == storage_key(value.m, a.key)
       IN value' = [value EXCEPT !.items =
                       Put(@, [key |-> key, flags |-> FlagsOf(@, key), v |-> a.v])]
    /\ edits' = edits + 1
    /\ UNCHANGED <<stage, raw, written, back>>

(* SpaPodObject.__delitem__() *)
DelItem(e) ==
    /\ Editable
    /\ value' = [value EXCEPT !.items = SelectSeq(@, LAMBDA x : x.key # e.key)]
    /\ edits' = edits + 1
    /\ UNCHANGED <<stage, raw, written, back>>

Write ==
    /\ stage = "parsed" /\ stage' = "built"
    /\ value # Bad
    /\ written' = build_spa_pod(value, Unset)
    /\ UNCHANGED <<raw, value, edits, back>>

ReadBack ==
    /\ stage = "built" /\ stage' = "back"
    /\ written # Raised
    /\ back' = parse_spa_pod(written, 0)
    /\ UNCHANGED <<raw, value, edits, written>>

PodNext ==
    \/ Read \/ Write \/ ReadBack
    \/ \E a \in Assignments : SetItem(a)
    \/ \E i \in 1..IF Typed(value) THEN Len(value.items) ELSE 0 : DelItem(value.items[i])

-----------------------------------------------------------------------------
(* A value up to Python's == and the precision of a float, which is what     *)
(* only a double has after the point: an int and a float are equal only if   *)
(* the float is whole.                                                       *)
Rounded(v) == as_float(v).n \div WordBase
RECURSIVE Equals(_, _)
Equals(v, w) ==
    \/ /\ isNumber(v) /\ isNumber(w)
       /\ IF v.py = "float" /\ w.py = "float" THEN Rounded(v) = Rounded(w)
          ELSE as_float(v) = as_float(w)
    \/ v = w
    \/ /\ "items" \in DOMAIN v /\ "items" \in DOMAIN w
       /\ [v EXCEPT !.items = <<>>] = [w EXCEPT !.items = <<>>]
       /\ Len(v.items) = Len(w.items)
       /\ \A i \in 1..Len(v.items) :
             LET x == v.items[i]
                 y == w.items[i]
             IN IF "py" \in DOMAIN x THEN Equals(x, y)
                ELSE [x EXCEPT !.v = 0] = [y EXCEPT !.v = 0] /\ Equals(x.v, y.v)

(* The values in a value; those of a property, a control or a dict included. *)
Inside(v) ==
    IF "items" \in DOMAIN v
    THEN [i \in 1..Len(v.items) |-> IF "py" \in DOMAIN v.items[i] THEN v.items[i]
                                                               ELSE v.items[i].v]
    ELSE <<>>

(* The value of a property is of the kind that its specification names, so   *)
(* that bool(), int() and str() have nothing to convert; a value that names  *)
(* its own type is not converted.                                            *)
OfItsKind(o, k, v) ==
    LET row == spec(o, k)
    IN CASE row.type = T.Bool -> v.py \in {"bool", "choice"}
         [] row.type = T.String -> v.py \in {"str", "choice"}
         [] row.type \in {T.Id, T.Int, T.Long, T.Fd} -> isInt(v) \/ v.py = "choice"
         [] v.py = "list" /\ row.shape \in {"array_int", "array_id"} ->
               \A i \in 1..Len(v.items) : isInt(v.items[i])
         [] OTHER -> TRUE
RECURSIVE OfTheirKinds(_)
OfTheirKinds(v) ==
    /\ v.py = "object" =>
          \A i \in 1..Len(v.items) : OfItsKind(v.m, v.items[i].key[2], v.items[i].v)
    /\ \A i \in 1..Len(Inside(v)) : OfTheirKinds(Inside(v)[i])

(* A byte string that is embedded as a pod is taken for an encoded pod.      *)
RECURSIVE EmbedsBytes(_)
EmbedsBytes(v) ==
    \/ v.py = "pod" /\ v.items[1].py = "bytes"
    \/ \E i \in 1..Len(Inside(v)) : EmbedsBytes(Inside(v)[i])

(* The keys of an object pod with the types of their values, and the types   *)
(* of the items of arrays.                                                   *)
RECURSIVE KeyTypes(_, _, _)
KeyTypes(d, c, e) ==
    IF c + 4 > e THEN {}
    ELSE LET type == type_at(d, c + 2)
         IN {<<d[c + 1], type, IF type = T.Array THEN d[c + 6] ELSE Unset>>}
               \cup KeyTypes(d, c + 2 + total_words(d, c + 2), e)
TypesOf(d) == KeyTypes(d, 4, 2 + size_at(d, 0) \div 4)

AsSpecified(o, x) ==
    LET row == spec(o, x[1])
    IN row.type = x[2] /\ (row.shape \in DOMAIN Arrays => x[3] = Arrays[row.shape])

(* Python values have lost the types of their pods.  A property that had the *)
(* type its specification names has it again when it is written.             *)
KeepsTypes(o, d, e) ==
    \A x \in TypesOf(d) :
       (AsSpecified(o, x) /\ \A y \in TypesOf(d) : y[1] = x[1] => y = x) => x \in TypesOf(e)

(* What is written can be read, and one trip settles it.  Whatever           *)
(* build_spa_pod() accepts of what was parsed and edited, by name, number or *)
(* attribute, reads back as an equal value, flags and keys included, if the  *)
(* values of properties are of the kinds that their specifications name;     *)
(* values of other kinds are converted.  An object that was not edited keeps *)
(* the specified types of its properties.  Elsewhere types may change (an Id *)
(* becomes an Int, a double a float, which rounds it), but what was read     *)
(* back is written the same again, word for word.  A byte string that is     *)
(* embedded as a pod does not come back at all.                              *)
ReadsBackWhatWasWritten ==
    (stage = "back" /\ ~EmbedsBytes(value)) =>
       /\ OfTheirKinds(value) => Equals(value, back)
       /\ (edits = 0 /\ Typed(value)) => KeepsTypes(value.m, raw, written)
       /\ build_spa_pod(back, Unset) = written
=============================================================================
