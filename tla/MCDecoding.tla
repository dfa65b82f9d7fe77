------------------------------ MODULE MCDecoding ------------------------------
(* Pods as PipeWire's builder lays them out, and payloads with pods, for TLC. *)
EXTENDS SpaPod, Snapshot

(* A payload carries pods. *)
MCParsePod(pod) == parse_spa_pod(pod, 0)

Frame(type, size, body) == pack_pod(type, size, body)
Whole(type, parts) == LET body == FlattenSeq(parts) IN Frame(type, 4 * Len(body), body)
Shared(type, header, cs, ct, items) == Whole(type, <<header, <<cs, ct>>>> \o items)

PodInt(n) == Frame(T.Int, 4, <<n>>)
PodId(n) == Frame(T.Id, 4, <<n>>)
PodLong(lo, hi) == Frame(T.Long, 8, <<lo, hi>>)
PodFloat(n) == Frame(T.Float, 4, <<n>>)
PodDouble(lo, hi) == Frame(T.Double, 8, <<lo, hi>>)
PodStr(n) == Frame(T.String, n + 1, [i \in 1..words(n + 1) |-> n])
PodStruct(pods) == Whole(T.Struct, pods)
PodArray(ct, items) == Shared(T.Array, <<>>, 4, ct, items)
PodChoice(kind, ct, items) == Shared(T.Choice, <<kind, 0>>, 4 * Len(items[1]), ct, items)
PodObject(id, props) == Whole(T.Object, <<<<7, id>>>> \o props)
Prop(key, flags, pod) == <<key, flags>> \o pod

Scalars ==
    {Frame(T.None, 0, <<>>), Frame(T.Bool, 4, <<1>>), PodId(1), PodId(WordBase - 1),
     PodInt(3), PodInt(WordBase - 1), PodLong(3, 0), PodLong(0, WordBase \div 2),
     PodFloat(2), PodDouble(0, 2), PodDouble(1, 2), PodStr(0), PodStr(3), PodStr(8),
     Frame(T.Bytes, 5, <<5, 5>>), Frame(T.Bytes, 8, <<8, 8>>), Frame(T.Bitmap, 2, <<2>>),
     Frame(T.Rectangle, 8, <<4, 3>>), Frame(T.Fraction, 8, <<1, 2>>),
     Frame(T.Fd, 8, <<6, 0>>), Frame(T.Pointer, 16, <<1, 0, 5, 5>>), Frame(77, 4, <<1>>)}

Containers ==
    {PodArray(T.Int, <<<<1>>, <<WordBase - 1>>, <<2>>>>), PodArray(T.Id, <<>>),
     Shared(T.Array, <<>>, 0, T.Float, <<>>),
     PodChoice(3, T.Int, <<<<1>>, <<2>>>>), PodChoice(1, T.Long, <<<<1, 0>>, <<0, 1>>>>),
     Frame(T.Choice, 0, <<>>), Frame(T.Struct, 0, <<>>), Frame(T.Pod, 0, <<>>),
     Whole(T.Sequence, <<<<1, 0>>, Prop(4, 2, PodFloat(1)), Prop(5, 2, PodStr(4))>>)}

Small == {PodInt(3), PodId(WordBase - 1), PodStr(4), PodDouble(0, 2), Frame(T.Bool, 4, <<0>>)}

Nested ==
    {PodStruct(<<a, b>>) : a, b \in Scalars \cup Containers}
       \cup {Whole(T.Pod, <<a>>) : a \in Scalars \cup Containers}
       \cup {PodObject(99, <<Prop(1, 0, a), Prop(k, 1, b)>>) : a, b \in Small, k \in {1, 2}}

Info(count) == PodStruct(<<PodInt(count), PodStr(1), PodStr(2), PodStr(3), PodStr(2)>>)
Class(n) == PodStruct(<<PodStr(n), PodInt(1), PodStr(6), PodArray(T.Int, <<<<n>>>>)>>)
Volumes == PodArray(T.Float, <<<<1>>, <<2>>>>)
Channels(n) == PodArray(T.Id, <<<<0>>, <<n>>>>)

(* Values of the types that the specification of each property asks for. *)
ExactProp ==
    <<PropInfoId, 1>> :> {PodStruct(<<PodInt(1), PodStr(4)>>)} @@
    <<PropsId, 1>> :> {PodFloat(2)} @@
    <<PropsId, 2>> :> {Volumes, PodArray(T.Float, <<<<1>>>>)} @@
    <<PropsId, 3>> :> {Channels(1), Channels(9), PodArray(T.Id, <<>>)} @@
    <<PropsId, 4>> :> {PodStruct(<<PodStr(2), PodInt(7), PodStr(3), PodFloat(2)>>),
                       PodStruct(<<PodStr(2), PodDouble(1, 2), PodStr(2), PodLong(3, 0)>>)} @@
    <<PropsId, 5>> :> {PodLong(3, 0), PodLong(9, WordBase - 1)} @@
    <<PropsId, 6>> :> {PodId(1), PodId(9)} @@
    <<PropsId, 7>> :> {Frame(T.Fd, 8, <<4, 0>>)} @@
    <<ProfileId, 1>> :> {PodInt(3), PodInt(WordBase - 1)} @@
    <<ProfileId, 2>> :> {Info(2), Info(1)} @@
    <<ProfileId, 3>> :> {PodStruct(<<PodInt(2), Class(2), Class(5)>>),
                         PodStruct(<<Class(2), Class(5)>>), PodStruct(<<PodInt(3), Class(2)>>)} @@
    <<PropsId, K.mute>> :> {Frame(T.Bool, 4, <<0>>)} @@
    <<ProfileId, K.name>> :> {PodStr(5)} @@
    <<ProfileId, K.available>> :> {PodId(2), PodId(9)} @@
    <<RouteId, K.profiles>> :> {PodArray(T.Int, <<<<2>>>>)} @@
    <<RouteId, K.props>> :> {PodObject(PropsId, <<Prop(K.volume, 0, PodFloat(3)), Prop(K.channelVolumes, 1, Volumes)>>)}

(* And others that PipeWire may send in their place. *)
OtherProp ==
    <<PropsId, 2>> :> {PodChoice(1, T.Array, <<Tail(Tail(Volumes)), Tail(Tail(Volumes))>>)} @@
    <<PropsId, K.mute>> :> {PodInt(3), PodInt(0)} @@
    <<PropsId, K.volume>> :> {PodInt(3)} @@
    <<PropsId, 5>> :> {PodInt(3), PodDouble(WordBase - 1, 2), PodDouble(1, WordBase - 1)} @@
    <<ProfileId, K.name>> :> {PodInt(3), Frame(T.None, 0, <<>>)} @@
    <<RouteId, K.profiles>> :> {PodArray(T.Float, <<<<2>>>>), PodInt(1)} @@
    <<PropsId, 6>> :> {PodChoice(3, T.Id, <<<<0>>, <<1>>, <<9>>>>)} @@
    <<PropsId, 8>> :> {PodId(1), PodStr(3)} @@
    <<PropInfoId, 1>> :> {PodInt(1)}

One(table) == UNION {{PodObject(k[1], <<Prop(k[2], 0, a)>>) : a \in table[k]} : k \in DOMAIN table}
Two(table) ==
    UNION {UNION {{PodObject(k[1], <<Prop(k[2], 0, a), Prop(l[2], 1, b)>>)
                     : a \in table[k], b \in table[l]}
                   : l \in {x \in DOMAIN table : x[1] = k[1] /\ x # k}}
            : k \in DOMAIN table}
Objects(table) == One(table) \cup Two(table)

MCRawPods == Scalars \cup Containers \cup Nested \cup Objects(ExactProp) \cup Objects(OtherProp)

Assign(k, v) == [object |-> PropsId, key |-> k, v |-> v]
MCAssignments ==
    {Assign(k, Scalar("float", WordBase)) : k \in {<<TRUE, K.volume>>, <<FALSE, K.volume>>, <<TRUE, 0>>}}
       \cup {Assign(<<FALSE, 5>>, Scalar("int", 3)), Assign(<<FALSE, 12>>, Scalar("int", 200)),
             Assign(<<TRUE, K.channelMap>>, Many("list", <<>>)),
             Assign(<<FALSE, K.mute>>, Scalar("bool", 1)), Assign(<<TRUE, K.mute>>, Many("list", <<>>)),
             Assign(<<TRUE, 5>>, Scalar("float", 2 - WordBase))}

-----------------------------------------------------------------------------
(* Payloads: of a device with profiles and routes, of a graph with its       *)
(* defaults, each with records missing or out of place.                      *)

Profile(id, n, more) == PodObject(id, <<Prop(K.index, 0, PodInt(n)), Prop(K.name, 0, PodStr(n))>> \o more)
Route(id, n, for) ==
    PodObject(id, <<Prop(K.index, 0, PodInt(n)), Prop(K.name, 0, PodStr(4)),
                    Prop(K.direction, 0, PodId(1)),
                    Prop(K.profiles, 0, PodArray(T.Int, <<<<for>>>>)),
                    Prop(K.props, 0, PodObject(PropsId, <<Prop(K.volume, 0, PodFloat(3))>>))>>)

Param(owner, id, values) ==
    [owner_type |-> "device", owner |-> owner, id |-> id, values |-> values]
Of(owner_type, owner, pod) ==
    [owner_type |-> owner_type, owner |-> owner, id |-> "Props", values |-> <<pod>>]

Free(n) == <<Prop(K.available, 0, PodId(n))>>
With(pod) == <<Prop(K.classes, 0, pod)>>

EnumProfiles == Param(5, "EnumProfile", <<Profile(EnumProfileId, 1, Free(2)), Profile(EnumProfileId, 2, <<>>)>>)
EnumRoutes == Param(5, "EnumRoute", <<Route(EnumRouteId, 1, 1), Route(EnumRouteId, 2, 2)>>)
Selected ==
    {Param(5, "Profile", <<v>>) : v \in
        {Profile(ProfileId, 1, Free(2)), Profile(ProfileId, 2, With(PodStruct(<<Class(2)>>))),
         Profile(ProfileId, 3, With(PodStruct(<<PodInt(2), Class(2)>>))),
         Profile(ProfileId, WordBase - 1, <<>>), PodObject(ProfileId, <<>>), PodInt(1),
         <<96, T.Object, 7, ProfileId>>}}
      \cup {Param(5, "Route", <<v>>) : v \in
              {Route(RouteId, 1, 1), Route(RouteId, 2, 1), Route(RouteId, 4, 4)}}

Orders(set) == {q \in [1..Cardinality(set) -> set] : \A i, j \in DOMAIN q : q[i] = q[j] => i = j}
Device(names) == [id |-> 5, parameters |-> names]
Node(id, device, called, mixer) ==
    [id |-> id, device |-> device, name |-> called, mixer |-> mixer, parameters |-> {}]
Port(id, node, way) == [id |-> id, node |-> node, direction |-> way, parameters |-> {}]
Link(on, op, in, ip) ==
    [id |-> 40, output_node |-> on, output_port |-> op, input_node |-> in, input_port |-> ip]
Entry(prefix, v, from) == [key |-> <<prefix, "audio.sink">>, value |-> v, metadata |-> from]

Empty == [devices |-> <<>>, nodes |-> <<>>, ports |-> <<>>, links |-> <<>>, metadata |-> {},
          parameters |-> <<>>, defaults |-> <<>>]

DevicePayloads ==
    {[Empty EXCEPT !.devices = d, !.parameters = q] :
        d \in {<<>>, <<Device({})>>, <<Device({"EnumProfile", "Route"})>>},
        q \in UNION {Orders({EnumProfiles, x, y}) : x, y \in {EnumRoutes} \cup Selected}
              \cup UNION {Orders({EnumRoutes, x}) : x \in Selected}}

PropsPayloads ==
    {[Empty EXCEPT !.nodes = n, !.parameters = <<q>>] :
        n \in {<<Node(20, None, "a", x)>> :
               x \in {None} \cup {[volume |-> Scalar("float", v), mute |-> Scalar("bool", 0)]
                                 : v \in {WordBase, -WordBase}}},
        q \in {Of(o, i, p) : o \in {"node", "port"}, i \in {20, 30},
                p \in {PodObject(PropsId, <<Prop(K.volume, 0, PodFloat(3)), Prop(K.channelMap, 0, Channels(1)),
                                          Prop(K.mute, 0, x)>>)
                       : x \in {Frame(T.Bool, 4, <<1>>), PodInt(1)}}
                      \cup {PodInt(1), PodObject(PropsId, <<Prop(K.volume, 0, PodFloat(WordBase - 1))>>)}}}

Subsequences(q) == {[i \in 1..Cardinality(s) |-> q[SetToSortSeq(s, <)[i]]] : s \in SUBSET DOMAIN q}

GraphPayloads ==
    {[Empty EXCEPT !.devices = d, !.nodes = n, !.ports = p, !.links = l] :
        d \in {<<>>, <<Device({})>>},
        n \in Subsequences(<<Node(20, 5, "a", None), Node(21, None, "b", None)>>),
        p \in Subsequences(<<Port(30, 20, 0), Port(31, 21, 1), Port(32, 20, 7)>>)
              \cup {<<Port(30, 20, 0), Port(31, 20, 1)>>, <<Port(30, 20, 1), Port(31, 21, 1)>>},
        l \in {<<>>, <<Link(21, 31, 20, 30)>>, <<Link(20, 31, 20, 30)>>}}

DefaultPayloads ==
    {[Empty EXCEPT !.nodes = n, !.metadata = m, !.defaults = <<e, f, Entry("default.configured", c, None)>>] :
        n \in {<<Node(20, None, "a", None), Node(21, None, x, None)>> : x \in {"a", "b"}},
        m \in {{}, {50}}, c \in {"null", "b", ""},
        e \in {Entry("default", v, 50) : v \in {"a", "unusable", ""}},
        f \in {Entry("default", v, None) : v \in {"a", "b", "c", "null", "unusable", ""}}}

MCPayloads == DevicePayloads \cup PropsPayloads \cup GraphPayloads \cup DefaultPayloads

-----------------------------------------------------------------------------
(* Either a pod is on its way, or a payload. *)

NoPod == stage = "none" /\ raw = <<>> /\ value = NotYet /\ back = NotYet /\ edits = 0 /\ written = <<>>
NoPayload == payload = None /\ snapshot = NoSnapshot /\ restored = NoSnapshot

DecodingInit == (PodInit /\ NoPayload) \/ (NoPod /\ SnapInit)
DecodingNext ==
    \/ PodNext /\ UNCHANGED snapVars
    \/ payload # None /\ SnapNext /\ UNCHANGED podVars
=============================================================================
