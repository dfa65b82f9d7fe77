------------------------------- MODULE Snapshot -------------------------------
(***************************************************************************)
(* From the payload of a capture to a RuntimeSnapshot: the pods of the     *)
(* parameters are parsed and normalized (normalize.py), profiles, routes,  *)
(* ports and defaults are put together (snapshot.py), and what does not    *)
(* resolve is reported (models.py).  A snapshot may be serialized *)
(* and restored, from a dictionary that has lost objects since.            *)
(*                                                                         *)
(* A collection that the code keeps as a tuple and an index is a function  *)
(* from its keys.  Descriptions, media classes, free properties and the    *)
(* values of formats and of other parameters are left out, and a payload   *)
(* has the types that capture_runtime.c gives it.  What parse_spa_pod()    *)
(* makes of a pod is a parameter here: the codec is SpaPod, and nothing in *)
(* this module depends on how a pod is laid out.                           *)
(***************************************************************************)
EXTENDS SpaValues, FiniteSetsExt

CONSTANTS
    ParsePod(_),  \* parse_spa_pod(): the value of a pod, or Bad
    MaxNesting,   \* bound: choices of choices whose default is looked for
    Payloads,     \* the payloads that a capture may bring
    None          \* an identity, a name or a target that is not there

(* The collections of a payload and the values of a parameter are sequences, *)
(* and a node that is there has an identity.                                 *)
ASSUME PayloadAssumption ==
    /\ MaxNesting \in Nat
    /\ \A p \in Payloads :
          /\ \A records \in {p.devices, p.nodes, p.ports, p.links, p.parameters, p.defaults} :
                Len(records) \in Nat
          /\ \A i \in 1..Len(p.parameters) : Len(p.parameters[i].values) \in Nat
          /\ \A i \in 1..Len(p.nodes) : p.nodes[i].id # None

VARIABLES
    payload,    \* what the capture brought
    snapshot,   \* what runtime_snapshot_from_payload() made of it
    restored    \* what from_dict() made of the snapshot's dictionary

snapVars == <<payload, snapshot, restored>>

Missing == [py |-> "missing"]   \* the field of a pod that is not there
NoSnapshot == [ok |-> FALSE]    \* none yet, or an exception

-----------------------------------------------------------------------------
(* normalize.py                                                              *)

(* A pod that cannot be parsed is passed on as it came, as a mapping.        *)
parse_spa_pod_dict(pod) ==
    LET v == ParsePod(pod) IN IF v = Bad THEN [py |-> "unparsed"] ELSE v

is_mapping(v) == v.py \notin {"none", "bool", "int", "enum", "float", "str", "bytes"}

(* A field by its name; only an object of the table o has fields.            *)
take(v, o, k) ==
    LET there == IF v.py = "object" /\ Table(v.m) = o
                 THEN {i \in 1..Len(v.items) : v.items[i].key = <<TRUE, k>>} ELSE {}
    IN IF there = {} THEN Missing ELSE v.items[CHOOSE i \in there : TRUE].v

required(v, o, k) == LET field == take(v, o, k) IN IF field = Missing THEN Bad ELSE field

(* The conversions of normalize.py with the checks of the value classes.     *)
number(v) == IF isNumber(v) /\ v.py # "bool" /\ v.n >= 0 THEN as_float(v) ELSE Bad
identifier(v) == IF v.py \in {"int", "enum"} /\ v.n >= 0 THEN as_int(v) ELSE Bad
boolean(v) == IF v.py = "bool" THEN v ELSE Bad
filled(v) == IF isStr(v) /\ v.n > 0 THEN v ELSE Bad
availability(v) ==
    IF v.py \notin {"int", "enum"} THEN Bad
    ELSE [py |-> CASE v.n = 2 -> "yes" [] v.n = 1 -> "no" [] OTHER -> "unknown"]
DirectionName(n) == CASE n = 0 -> "input" [] n = 1 -> "output" [] OTHER -> "unknown"
direction(v) ==
    IF v.py \notin {"int", "enum"} THEN Bad ELSE [py |-> DirectionName(v.n)]
profile_class(v) ==
    IF v.py \in {"class", "struct"} /\ v.items # <<>> THEN filled(v.items[1]) ELSE filled(v)

(* _array_values(): of a choice, the values of its default, which may be a   *)
(* choice in turn.                                                           *)
array_values(v) ==
    LET default[n \in 0..MaxNesting] ==
            IF n = 0 THEN v
            ELSE IF default[n - 1].py = "choice" /\ default[n - 1].items # <<>>
                 THEN default[n - 1].items[1] ELSE default[n - 1]
        w == default[MaxNesting]
    IN IF w.py = "choice" THEN IF w.items = <<>> THEN <<>> ELSE <<Bad>>
       ELSE IF w.py \in {"array", "struct", "list", "classes", "labels"} THEN w.items
       ELSE <<Bad>>

optional(v, default, convert(_)) == IF v = Missing THEN default ELSE convert(v)
each(v, convert(_)) ==
    LET items == IF v = Missing THEN <<>> ELSE array_values(v)
    IN [i \in 1..Len(items) |-> IF items[i] = Bad THEN Bad ELSE convert(items[i])]

normalize_audio_properties(v) ==
    LET loud == optional(take(v, PropsId, K.volume), Missing, number)
        silent == optional(take(v, PropsId, K.mute), Missing, boolean)
        volumes == each(take(v, PropsId, K.channelVolumes), number)
        positions == each(take(v, PropsId, K.channelMap), identifier)
    IN IF ~is_mapping(v) THEN Bad
       ELSE Guarded(<<loud, silent>> \o volumes \o positions,
                    [kind |-> "audio", volume |-> loud, mute |-> silent, volumes |-> volumes,
                     positions |-> positions])

normalize_profile(v, device, active) ==
    LET i == identifier(required(v, ProfileId, K.index))
        called == filled(required(v, ProfileId, K.name))
        free == optional(take(v, ProfileId, K.available), [py |-> "unknown"], availability)
        parts == each(take(v, ProfileId, K.classes), profile_class)
    IN Guarded(<<i, called, free>>, Guarded(parts,
               [kind |-> "profile", device |-> device, index |-> i.n, name |-> called.n,
                available |-> free.py, active |-> active]))

normalize_route(v, device, active) ==
    LET i == identifier(required(v, RouteId, K.index))
        called == filled(required(v, RouteId, K.name))
        way == direction(required(v, RouteId, K.direction))
        free == optional(take(v, RouteId, K.available), [py |-> "unknown"], availability)
        of == each(take(v, RouteId, K.profiles), identifier)
        audio == optional(take(v, RouteId, K.props), Missing, normalize_audio_properties)
    IN Guarded(<<i, called, way, free, audio>>, Guarded(of,
               [kind |-> "route", device |-> device, index |-> i.n, name |-> called.n,
                direction |-> way.py, available |-> free.py, active |-> active,
                profiles |-> {of[j].n : j \in 1..Len(of)}, audio |-> audio]))

(* Which normalizer, by the name of the parameter. *)
normalize_value(p, v) ==
    CASE p.id = "Props" -> normalize_audio_properties(v)
      [] p.id \in {"Profile", "EnumProfile"} -> normalize_profile(v, p.owner, p.id = "Profile")
      [] p.id \in {"Route", "EnumRoute"} -> normalize_route(v, p.owner, p.id = "Route")
      [] OTHER -> [kind |-> "json"]

-----------------------------------------------------------------------------
(* snapshot.py                                                               *)

parameters(p) ==
    [i \in 1..Len(p.parameters) |->
        LET q == p.parameters[i]
        IN [owner_type |-> q.owner_type, owner |-> q.owner, id |-> q.id,
            values |-> [j \in 1..Len(q.values) |->
                           normalize_value(q, parse_spa_pod_dict(q.values[j]))]]]

(* One more parameter of each node that has a mixer. *)
mixer_parameters(p) ==
    LET audio(x) == Guarded(<<number(x.volume)>>,
                            [kind |-> "audio", volume |-> number(x.volume), mute |-> x.mute,
                             volumes |-> <<>>, positions |-> <<>>])
    IN {[owner_type |-> "node", owner |-> n.id, id |-> "Mixer", values |-> <<audio(n.mixer)>>]
        : n \in {p.nodes[i] : i \in {j \in 1..Len(p.nodes) : p.nodes[j].mixer # None}}}

(* dict.__setitem__() *)
Overwrite(entries, key, v) ==
    [k \in DOMAIN entries \cup {key} |-> IF k = key THEN v ELSE entries[k]]

(* Slip: the last value that is read stays. *)
LastWins(merged, v) == Overwrite(merged, <<v.device, v.index>>, v)

(* _merge_active(): the first value stays unless an active one follows.      *)
merge_active(merged, v) ==
    LET key == <<v.device, v.index>>
    IN IF key \notin DOMAIN merged \/ (v.active /\ ~merged[key].active)
       THEN Overwrite(merged, key, v) ELSE merged

(* The two loops over the values of the parameters, for one kind of value.   *)
MergedValues(merged, values, kind) ==
    LET upTo[n \in 0..Len(values)] ==
            IF n = 0 THEN merged
            ELSE IF values[n].kind = kind THEN merge_active(upTo[n - 1], values[n])
            ELSE upTo[n - 1]
    IN upTo[Len(values)]
Merged(read, kind) ==
    LET upTo[n \in 0..Len(read)] ==
            IF n = 0 THEN [k \in {} |-> None]
            ELSE MergedValues(upTo[n - 1], read[n].values, kind)
    IN upTo[Len(read)]

(* An exception, where an identity is there twice. *)
unique(records) == \A i, j \in 1..Len(records) : records[i].id = records[j].id => i = j
Ids(records) == {records[i].id : i \in 1..Len(records)}
Record(records, x) == records[CHOOSE i \in 1..Len(records) : records[i].id = x]

(* Only a port known for an input is one; all others are listed as outputs.  *)
PortsOf(p, node, ways) ==
    {p.ports[i].id : i \in {j \in 1..Len(p.ports) :
        p.ports[j].node = node /\ DirectionName(p.ports[j].direction) \in ways}}

(* _default_name(): the last entry that gives a name; "" is a name.          *)
Nameless == {"null", "unusable"}
default_name(p, key) ==
    LET names == {i \in 1..Len(p.defaults) :
                     p.defaults[i].key = key /\ p.defaults[i].value \notin Nameless}
    IN IF names = {} THEN None ELSE p.defaults[Max(names)].value

(* The last node of that name. *)
node_named(p, called) ==
    LET those == {i \in 1..Len(p.nodes) : p.nodes[i].name = called}
    IN IF called \in {None, ""} \/ those = {} THEN None ELSE p.nodes[Max(those)].id

target(p, t) ==
    LET actual == default_name(p, <<"default", t>>)
        asked == default_name(p, <<"default.configured", t>>)
        configured == IF asked \in {None, ""} THEN actual ELSE asked
    IN IF configured = None THEN None
       ELSE [configured |-> configured, resolved |-> node_named(p, actual)]

Targets == {"audio.sink", "audio.source", "video.source"}

defaults(p) ==
    LET from == {i \in 1..Len(p.defaults) : p.defaults[i].metadata # None}
    IN [metadata |-> IF from = {} THEN None ELSE p.defaults[Min(from)].metadata,
        target |-> [t \in Targets |-> target(p, t)]]

-----------------------------------------------------------------------------
(* models.py                                                                 *)

Unresolved(source, id, relation, target_id) == <<source, relation, id, target_id>>

(* Slip: a link's ports are only looked up. *)
EndpointsLookedUp(s, l) ==
    {Unresolved("link", l, r, s.links[l][r]) : r \in {x \in {"output_node", "input_node"} :
        s.links[l][x] \notin DOMAIN s.nodes}}
      \cup {Unresolved("link", l, r, s.links[l][r]) : r \in {x \in {"output_port", "input_port"} :
               s.links[l][x] \notin DOMAIN s.ports}}

(* The four ends of a link, and whether its ports are of its nodes.          *)
unresolved_ends(s, l) ==
    LET link == s.links[l]
        absent(r, of) == {Unresolved("link", l, r, x) : x \in {link[r]} \ DOMAIN of}
        foreign(r, port, node, way) ==
            {Unresolved("link", l, r, x) : x \in {y \in {link[port]} \cap DOMAIN s.ports :
                s.ports[y].node # link[node] \/ s.ports[y].direction # way}}
    IN absent("output_node", s.nodes) \cup absent("input_node", s.nodes)
         \cup absent("output_port", s.ports) \cup absent("input_port", s.ports)
         \cup foreign("output_endpoint", "output_port", "output_node", "output")
         \cup foreign("input_endpoint", "input_port", "input_node", "input")

unresolved_ports(s, n, relation, listed, way) ==
    {Unresolved("node", n, relation, x) : x \in {y \in listed :
        y \notin DOMAIN s.ports \/ s.ports[y].node # n \/ s.ports[y].direction # way}}

unresolved_parameters(s, owner_type, owned) ==
    UNION {{Unresolved(owner_type, x, "parameter", q) :
              q \in {y \in owned[x].parameters : <<owner_type, x, y>> \notin s.parameters}}
           : x \in DOMAIN owned}

OwnersOf(s, owner_type) ==
    CASE owner_type = "device" -> DOMAIN s.devices
      [] owner_type = "node" -> DOMAIN s.nodes
      [] owner_type = "port" -> DOMAIN s.ports
      [] owner_type = "link" -> DOMAIN s.links
      [] owner_type = "metadata" -> s.metadata
      [] OTHER -> {}

(* _find_unresolved_relationships() *)
find_unresolved_relationships(s) ==
    LET profilesOf(d, listed) == {i \in listed : <<d, i>> \notin DOMAIN s.profiles}
        ofDevice(d) ==
            {Unresolved("device", d, "profile", i) : i \in profilesOf(d, s.devices[d].profiles)}
              \cup {Unresolved("device", d, "route", i) :
                       i \in {j \in s.devices[d].routes : <<d, j>> \notin DOMAIN s.routes}}
        ofNode(n) ==
            {Unresolved("node", n, "device", d) :
                d \in {s.nodes[n].device} \ (DOMAIN s.devices \cup {None})}
              \cup unresolved_ports(s, n, "input_port", s.nodes[n].inputs, "input")
              \cup unresolved_ports(s, n, "output_port", s.nodes[n].outputs, "output")
    IN UNION {
         unresolved_parameters(s, "device", s.devices),
         unresolved_parameters(s, "node", s.nodes),
         unresolved_parameters(s, "port", s.ports),
         UNION {ofDevice(d) : d \in DOMAIN s.devices},
         UNION {ofNode(n) : n \in DOMAIN s.nodes},
         {Unresolved("port", x, "node", s.ports[x].node) :
            x \in {y \in DOMAIN s.ports : s.ports[y].node \notin DOMAIN s.nodes}},
         UNION {unresolved_ends(s, l) : l \in DOMAIN s.links},
         {Unresolved("profile", k[2], "device", k[1]) :
            k \in {x \in DOMAIN s.profiles : x[1] \notin DOMAIN s.devices}},
         {Unresolved("route", k[2], "device", k[1]) :
            k \in {x \in DOMAIN s.routes : x[1] \notin DOMAIN s.devices}},
         UNION {{Unresolved("route", k[2], "profile", i) : i \in profilesOf(k[1], s.routes[k].profiles)}
                : k \in DOMAIN s.routes},
         {Unresolved("parameter", q, "owner", q[2]) :
            q \in {x \in s.parameters : x[2] \notin OwnersOf(s, x[1])}},
         {Unresolved("defaults", t, "resolved_node", s.defaults.target[t].resolved) :
            t \in {x \in Targets : /\ s.defaults.target[x] # None
                                   /\ s.defaults.target[x].resolved \notin DOMAIN s.nodes \cup {None}}},
         {Unresolved("defaults", "defaults", "metadata", x) :
            x \in {s.defaults.metadata} \ (s.metadata \cup {None})}}

(* RuntimeSnapshot(...): what does not resolve is computed; a list that is   *)
(* supplied must be the same, but an empty one is taken for none.            *)
RuntimeSnapshot(s, supplied) ==
    LET computed == find_unresolved_relationships(s)
    IN IF supplied # {} /\ supplied # computed THEN NoSnapshot
       ELSE [s EXCEPT !.unresolved = computed]

(* The values of the objects, by identity. *)
devices(p, profiles, routes) ==
    LET of(keys, d) == {k[2] : k \in {x \in keys : x[1] = d}}
    IN [d \in Ids(p.devices) |->
           [parameters |-> Record(p.devices, d).parameters,
            profiles |-> of(DOMAIN profiles, d), routes |-> of(DOMAIN routes, d)]]
nodes(p) ==
    [n \in Ids(p.nodes) |->
        [device |-> Record(p.nodes, n).device, parameters |-> Record(p.nodes, n).parameters,
         inputs |-> PortsOf(p, n, {"input"}), outputs |-> PortsOf(p, n, {"output", "unknown"})]]
ports(p) ==
    [x \in Ids(p.ports) |->
        LET r == Record(p.ports, x)
        IN [node |-> r.node, direction |-> DirectionName(r.direction),
            parameters |-> r.parameters]]
links(p) == [x \in Ids(p.links) |-> Record(p.links, x)]

(* The snapshot of a payload whose parameters have been read, with those of  *)
(* the mixers.                                                               *)
Assembled(p, read, mixers) ==
    LET profiles == Merged(read, "profile")
        routes == Merged(read, "route")
        key(q) == <<q.owner_type, q.owner, q.id>>
    IN IF \/ \E i \in 1..Len(read) : AnyBad(read[i].values)
          \/ \E q \in mixers : AnyBad(q.values)
          \/ \E records \in {p.devices, p.nodes, p.ports, p.links} : ~unique(records)
          \/ \E i, j \in 1..Len(read) : i # j /\ key(read[i]) = key(read[j])
          \/ \E i \in 1..Len(read), q \in mixers : key(read[i]) = key(q)
       THEN NoSnapshot
       ELSE RuntimeSnapshot(
               [ok |-> TRUE, devices |-> devices(p, profiles, routes), nodes |-> nodes(p),
                ports |-> ports(p), links |-> links(p), metadata |-> p.metadata,
                parameters |-> {key(read[i]) : i \in 1..Len(read)} \cup {key(q) : q \in mixers},
                profiles |-> profiles, routes |-> routes,
                defaults |-> defaults(p), unresolved |-> {}], {})

runtime_snapshot_from_payload(p) == Assembled(p, parameters(p), mixer_parameters(p))

-----------------------------------------------------------------------------

SnapInit ==
    /\ payload \in Payloads
    /\ snapshot = NoSnapshot /\ restored = NoSnapshot

(* capture_runtime_snapshot() *)
Capture ==
    /\ snapshot = NoSnapshot
    /\ snapshot' = runtime_snapshot_from_payload(payload)
    /\ UNCHANGED <<payload, restored>>

(* to_dict(), a loss of objects of one kind, and from_dict() of the rest;    *)
(* the dictionary may come without its list of what does not resolve.        *)
Restore(kind, lost, listed) ==
    /\ snapshot.ok /\ ~restored.ok
    /\ LET kept == [snapshot EXCEPT ![kind] = Restrict(@, DOMAIN @ \ lost)]
       IN restored' = RuntimeSnapshot(kept, IF listed THEN snapshot.unresolved ELSE {})
    /\ UNCHANGED <<payload, snapshot>>

Collections == {"devices", "nodes", "ports", "links", "profiles", "routes"}

SnapNext ==
    \/ Capture
    \/ \E kind \in Collections, listed \in BOOLEAN :
          \E lost \in SUBSET (IF snapshot.ok THEN DOMAIN snapshot[kind] ELSE {}) :
             Restore(kind, lost, listed)

SnapSpec == SnapInit /\ [][SnapNext]_snapVars

-----------------------------------------------------------------------------

(* From every object of a coherent snapshot a client can follow what it      *)
(* names, to objects that name it in turn.                                   *)
Navigable(s) ==
    /\ \A l \in DOMAIN s.links :
          LET x == s.links[l]
          IN /\ x.output_node \in DOMAIN s.nodes /\ x.output_port \in s.nodes[x.output_node].outputs
             /\ x.input_node \in DOMAIN s.nodes /\ x.input_port \in s.nodes[x.input_node].inputs
    /\ \A n \in DOMAIN s.nodes :
          /\ s.nodes[n].device \in DOMAIN s.devices \cup {None}
          /\ \A x \in s.nodes[n].inputs \cup s.nodes[n].outputs :
                x \in DOMAIN s.ports /\ s.ports[x].node = n
    /\ \A k \in DOMAIN s.routes :
          /\ k[1] \in DOMAIN s.devices /\ k[2] \in s.devices[k[1]].routes
          /\ s.routes[k].profiles \subseteq s.devices[k[1]].profiles
    /\ \A d \in DOMAIN s.devices :
          \A i \in s.devices[d].profiles : <<d, i>> \in DOMAIN s.profiles
    /\ \A t \in Targets :
          s.defaults.target[t] # None =>
             s.defaults.target[t].resolved \in DOMAIN s.nodes \cup {None}

(* A payload in which every object that is named is there, as what it is     *)
(* named for; profiles and routes are parameters of devices.                 *)
Complete(p) ==
    LET port(x, n, d) == \E i \in 1..Len(p.ports) :
                            p.ports[i].id = x /\ p.ports[i].node = n /\ p.ports[i].direction = d
        owners(o) == CASE o = "device" -> Ids(p.devices)
                       [] o = "node" -> Ids(p.nodes)
                       [] o = "port" -> Ids(p.ports)
                       [] o = "link" -> Ids(p.links)
                       [] OTHER -> {}
        sent(o, x) == {p.parameters[i].id : i \in {j \in 1..Len(p.parameters) :
                          p.parameters[j].owner_type = o /\ p.parameters[j].owner = x}}
        listed(o, records) == \A i \in 1..Len(records) :
                                 records[i].parameters \subseteq sent(o, records[i].id)
    IN /\ \A i \in 1..Len(p.nodes) : p.nodes[i].device \in Ids(p.devices) \cup {None}
       /\ \A i \in 1..Len(p.ports) :
             p.ports[i].node \in Ids(p.nodes) /\ p.ports[i].direction \in {0, 1}
       /\ \A i \in 1..Len(p.links) :
             LET x == p.links[i]
             IN /\ {x.output_node, x.input_node} \subseteq Ids(p.nodes)
                /\ port(x.output_port, x.output_node, 1) /\ port(x.input_port, x.input_node, 0)
       /\ \A i \in 1..Len(p.parameters) :
             LET q == p.parameters[i]
             IN /\ q.owner \in owners(q.owner_type)
                /\ q.id \in {"Profile", "EnumProfile", "Route", "EnumRoute"} => q.owner_type = "device"
       /\ listed("device", p.devices) /\ listed("node", p.nodes) /\ listed("port", p.ports)
       /\ \A i \in 1..Len(p.defaults) : p.defaults[i].metadata \in p.metadata \cup {None}
       /\ \A k \in DOMAIN snapshot.routes : \A i \in snapshot.routes[k].profiles :
             <<k[1], i>> \in DOMAIN snapshot.profiles

(* is_coherent can be relied on: a snapshot that says it is coherent can be  *)
(* followed from every link to nodes, ports, devices, routes and profiles    *)
(* and back, restored from a dictionary that has lost objects too; and a     *)
(* payload that lacks nothing gives a coherent snapshot, whatever the order  *)
(* and the number of its records.                                            *)
CoherenceIsHonest ==
    /\ \A s \in {snapshot, restored} : s.ok /\ s.unresolved = {} => Navigable(s)
    /\ snapshot.ok /\ Complete(payload) => snapshot.unresolved = {}

(* Whether the capture brought the parameter id with this device and index.  *)
Reported(id, k) ==
    \E i \in 1..Len(payload.parameters) :
        LET q == payload.parameters[i]
        IN /\ q.id = id /\ q.owner = k[1]
           /\ \E j \in 1..Len(q.values) :
                 take(parse_spa_pod_dict(q.values[j]),
                      IF id = "Profile" THEN ProfileId ELSE RouteId, K.index).n = k[2]

(* What is selected is reported so, whatever the order of the parameters: a  *)
(* profile or a route is active if and only if the device's Profile or Route *)
(* parameter has it, although EnumProfile and EnumRoute list it as well, and *)
(* the sink that is reported for the default has the name that the metadata  *)
(* of the capture gives last.                                                *)
SelectionIsReported ==
    snapshot.ok =>
       /\ \A k \in DOMAIN snapshot.profiles :
             snapshot.profiles[k].active <=> Reported("Profile", k)
       /\ \A k \in DOMAIN snapshot.routes :
             snapshot.routes[k].active <=> Reported("Route", k)
       /\ \A t \in Targets, i \in 1..Len(payload.nodes) :
             (snapshot.defaults.target[t] # None
                /\ snapshot.defaults.target[t].resolved = payload.nodes[i].id) =>
                \E j \in 1..Len(payload.defaults) :
                   /\ payload.defaults[j].key = <<"default", t>>
                   /\ payload.defaults[j].value = payload.nodes[i].name
                   /\ \A h \in (j + 1)..Len(payload.defaults) :
                         payload.defaults[h].key = <<"default", t>> =>
                            payload.defaults[h].value \in Nameless \cup {payload.nodes[i].name}
=============================================================================
