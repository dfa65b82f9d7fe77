----------------------------- MODULE SnapshotProofs ----------------------------
(***************************************************************************)
(* Proofs about Snapshot, for any payloads whose collections are sequences *)
(* and any parser of their pods.                                           *)
(*                                                                         *)
(* Three facts carry the rest: what the two loops of snapshot.py make of   *)
(* the parameters (Summarises), that nothing is unresolved exactly if      *)
(* every reference finds its object (Resolved), and that every object is   *)
(* listed where it belongs (Listed), which no loss of objects undoes.      *)
(***************************************************************************)
EXTENDS Snapshot, WellFoundedInduction, TLAPS

-----------------------------------------------------------------------------
(* Induction over the naturals, from the well-foundedness of their order: a  *)
(* property is the set of the numbers that have it.                          *)

(* A nonempty set of naturals has a least element. *)
LEMMA LeastNat ==
    ASSUME NEW S \in SUBSET Nat, S # {}
    PROVE  \E m \in S : \A k \in S : m <= k
<1> DEFINE Less == {ss \in Nat \X Nat : ss[1] < ss[2]}
<1>1. IsWellFoundedOn(Less, Nat)
    BY NatLessThanWellFounded DEF OpToRel
<1> HIDE DEF Less
<1>2. PICK m \in S : \A k \in S : ~(<<k, m>> \in Less)
    BY <1>1, WFMin
<1>3. ASSUME NEW k \in S PROVE m <= k
    <2>1. <<k, m>> \notin Less BY <1>2
    <2>2. k < m => <<k, m>> \in Less BY DEF Less
    <2> QED BY <2>1, <2>2
<1> QED BY <1>3

(* What holds of 0 and passes from n to n + 1 below N holds up to N. *)
LEMMA UpTo ==
    ASSUME NEW N \in Nat, NEW S, 0 \in S,
           \A n \in Nat : n < N /\ n \in S => n + 1 \in S
    PROVE  \A n \in 0..N : n \in S
<1> SUFFICES ASSUME NEW n \in 0..N, n \notin S PROVE FALSE OBVIOUS
<1> DEFINE R == {k \in 0..N : k \notin S}
<1>1. R \in SUBSET Nat /\ R # {} OBVIOUS
<1>2. PICK m \in R : \A k \in R : m <= k
    <2> HIDE DEF R
    <2> QED BY <1>1, LeastNat
<1>3. m # 0 /\ m - 1 \in 0..N BY <1>2
<1>4. m - 1 \in S BY <1>2, <1>3
<1>5. (m - 1) + 1 \in S BY <1>3, <1>4
<1>6. (m - 1) + 1 = m BY <1>2
<1> QED BY <1>2, <1>5, <1>6

(* A nonempty set of indices has a first and a last one. *)
LEMMA FirstAndLast ==
    ASSUME NEW n \in Nat, NEW S \in SUBSET (1..n), S # {}
    PROVE  /\ Max(S) \in S /\ \A i \in S : i <= Max(S)
           /\ Min(S) \in S
<1>1. \E m \in S : \A k \in S : m <= k
    BY LeastNat
<1>2. \E m \in S : \A k \in S : m >= k
    <2> DEFINE R == {n - i : i \in S}
    <2>1. R \in SUBSET Nat /\ R # {}
        <3>1. \A i \in S : n - i \in Nat OBVIOUS
        <3> QED BY <3>1
    <2>2. PICK r \in R : \A k \in R : r <= k BY <2>1, LeastNat
    <2>3. PICK m \in S : r = n - m BY <2>2
    <2>4. \A k \in S : m >= k BY <2>2, <2>3
    <2> QED BY <2>4
<1>3. Min(S) \in S BY <1>1 DEF Min
<1>4. Max(S) \in S /\ \A k \in S : Max(S) >= k BY <1>2 DEF Max
<1> QED BY <1>3, <1>4

-----------------------------------------------------------------------------
(* The loops over the parameters and over the values of each.                *)

(* The states that the inner loop goes through: the recursive function that  *)
(* MergedValues chooses exists, so that it satisfies its equation.           *)
LEMMA ValuesLoop ==
    ASSUME NEW merged, NEW values, NEW kind, Len(values) \in Nat
    PROVE  \E f : /\ f[0] = merged
                  /\ \A n \in 1..Len(values) :
                        f[n] = IF values[n].kind = kind THEN merge_active(f[n - 1], values[n])
                               ELSE f[n - 1]
                  /\ MergedValues(merged, values, kind) = f[Len(values)]
<1> DEFINE N == Len(values)
           Pass(x, n) == IF values[n].kind = kind THEN merge_active(x, values[n]) ELSE x
           Loop(g, m) == g[0] = merged /\ \A n \in 1..m : g[n] = Pass(g[n - 1], n)
           S == {m \in Nat : \E g : Loop(g, m)}
<1> HIDE DEF Pass
<1>1. 0 \in S
    <2>1. Loop([k \in {0} |-> merged], 0) OBVIOUS
    <2> QED BY <2>1
<1>2. ASSUME NEW m \in Nat, m < N, m \in S PROVE m + 1 \in S
    <2>1. PICK g : Loop(g, m) BY <1>2
    <2> DEFINE h == [k \in 0..(m + 1) |-> IF k = m + 1 THEN Pass(g[m], m + 1) ELSE g[k]]
    <2>2. Loop(h, m + 1) BY <2>1
    <2> QED BY <2>2
<1>3. PICK g : Loop(g, N)
    <2>1. \A n \in 0..N : n \in S
        <3> HIDE DEF S, N
        <3>1. N \in Nat BY DEF N
        <3> QED BY <1>1, <1>2, <3>1, UpTo
    <2>2. N \in S
        <3> HIDE DEF S
        <3> QED BY <2>1
    <2> QED BY <2>2
<1> DEFINE f == [n \in 0..N |-> g[n]]
           Whole(h) == h = [n \in 0..N |-> IF n = 0 THEN merged ELSE Pass(h[n - 1], n)]
           c == CHOOSE h : Whole(h)
<1>4. Whole(f) BY <1>3
<1>5. Whole(c) BY <1>4
<1>6. MergedValues(merged, values, kind) = c[N]
    BY DEF MergedValues, Pass
<1> HIDE DEF c
<1>7. c[0] = merged /\ \A n \in 1..N : c[n] = Pass(c[n - 1], n)
    BY <1>5
<1> QED BY <1>6, <1>7 DEF Pass

(* The key that a profile or a route is merged under. *)
KeyOf(v) == <<v.device, v.index>>

(* The dictionary merged of the values V: a key of each, one of the values   *)
(* under its own key, and an active one wherever there is one.               *)
Summarises(merged, V) ==
    /\ DOMAIN merged = {KeyOf(v) : v \in V}
    /\ \A k \in DOMAIN merged : merged[k] \in V /\ KeyOf(merged[k]) = k
    /\ \A k \in DOMAIN merged : merged[k].active <=> \E v \in V : KeyOf(v) = k /\ v.active

(* The values of a kind among the first n. *)
OfKind(values, kind, n) == {values[j] : j \in {i \in 1..n : values[i].kind = kind}}

(* _merge_active(): the invariant of the loops. *)
LEMMA OneMerge ==
    ASSUME NEW merged, NEW V, NEW v, Summarises(merged, V)
    PROVE  Summarises(merge_active(merged, v), V \cup {v})
<1> DEFINE key == KeyOf(v)
           next == merge_active(merged, v)
           W == V \cup {v}
<1> SUFFICES Summarises(next, W) OBVIOUS
<1>1. CASE key \notin DOMAIN merged \/ (v.active /\ ~merged[key].active)
    <2>1. next = Overwrite(merged, key, v)
        BY <1>1 DEF merge_active, KeyOf
    <2>2. /\ DOMAIN next = DOMAIN merged \cup {key}
          /\ next[key] = v
          /\ \A k \in DOMAIN merged : k # key => next[k] = merged[k]
        BY <2>1 DEF Overwrite
    <2> HIDE DEF next
    <2>3. DOMAIN next = {KeyOf(w) : w \in W}
        BY <2>2 DEF Summarises
    <2>4. \A k \in DOMAIN next : next[k] \in W /\ KeyOf(next[k]) = k
        BY <2>2 DEF Summarises
    <2>5. ASSUME NEW k \in DOMAIN next
          PROVE  next[k].active <=> \E w \in W : KeyOf(w) = k /\ w.active
        <3>1. CASE k # key
            BY <3>1, <2>2 DEF Summarises
        <3>2. CASE k = key
            <4>1. next[k] = v BY <2>2, <3>2
            <4>2. key \notin DOMAIN merged => \A w \in V : KeyOf(w) # key
                BY DEF Summarises
            <4> QED BY <4>1, <4>2, <3>2, <1>1 DEF Summarises
        <3> QED BY <3>1, <3>2
    <2> QED BY <2>3, <2>4, <2>5 DEF Summarises
<1>2. CASE ~(key \notin DOMAIN merged \/ (v.active /\ ~merged[key].active))
    <2>1. next = merged
        BY <1>2 DEF merge_active, KeyOf
    <2>2. key \in DOMAIN merged /\ (v.active => merged[key].active)
        BY <1>2
    <2> HIDE DEF next
    <2>3. DOMAIN merged = {KeyOf(w) : w \in W}
        BY <2>2 DEF Summarises
    <2>4. \A k \in DOMAIN merged : merged[k].active <=> \E w \in W : KeyOf(w) = k /\ w.active
        BY <2>2 DEF Summarises
    <2> QED BY <2>1, <2>3, <2>4 DEF Summarises
<1> QED BY <1>1, <1>2

(* The inner loop adds the values of one parameter. *)
LEMMA MergedValuesSummarise ==
    ASSUME NEW merged, NEW V, NEW values, NEW kind, Len(values) \in Nat, Summarises(merged, V)
    PROVE  Summarises(MergedValues(merged, values, kind),
                      V \cup OfKind(values, kind, Len(values)))
<1> DEFINE N == Len(values)
<1>1. PICK f : /\ f[0] = merged
               /\ \A n \in 1..N :
                     f[n] = IF values[n].kind = kind THEN merge_active(f[n - 1], values[n])
                            ELSE f[n - 1]
               /\ MergedValues(merged, values, kind) = f[N]
    BY ValuesLoop
<1> DEFINE Seen(n) == V \cup OfKind(values, kind, n)
           S == {n \in Nat : Summarises(f[n], Seen(n))}
<1>2. 0 \in S
    <2>1. Seen(0) = V BY DEF OfKind
    <2> QED BY <1>1, <2>1
<1>3. ASSUME NEW n \in Nat, n < N, n \in S PROVE n + 1 \in S
    <2> HIDE DEF Seen
    <2>1. f[n + 1] = IF values[n + 1].kind = kind THEN merge_active(f[n], values[n + 1]) ELSE f[n]
        <3>1. n + 1 \in 1..N /\ (n + 1) - 1 = n BY <1>3
        <3> QED BY <1>1, <3>1
    <2>2. CASE values[n + 1].kind = kind
        <3>1. Seen(n + 1) = Seen(n) \cup {values[n + 1]}
            BY <2>2 DEF OfKind, Seen
        <3>2. Summarises(f[n + 1], Seen(n) \cup {values[n + 1]})
            BY <1>3, <2>1, <2>2, OneMerge
        <3>3. Summarises(f[n + 1], Seen(n + 1)) BY <3>1, <3>2
        <3> QED BY <3>3
    <2>3. CASE values[n + 1].kind # kind
        <3>1. Seen(n + 1) = Seen(n)
            BY <2>3 DEF OfKind, Seen
        <3>2. f[n + 1] = f[n] BY <2>1, <2>3
        <3> QED BY <1>3, <3>1, <3>2
    <2> QED BY <2>2, <2>3
<1>4. \A n \in 0..N : n \in S
    <2> HIDE DEF S, N
    <2>1. N \in Nat BY DEF N
    <2> QED BY <1>2, <1>3, <2>1, UpTo
<1>5. Summarises(f[N], Seen(N))
    <2> HIDE DEF Seen
    <2> QED BY <1>4
<1> QED BY <1>1, <1>5
(* The states that the outer loop goes through. *)
LEMMA ParametersLoop ==
    ASSUME NEW read, NEW kind, Len(read) \in Nat
    PROVE  \E f : /\ f[0] = [k \in {} |-> None]
                  /\ \A n \in 1..Len(read) : f[n] = MergedValues(f[n - 1], read[n].values, kind)
                  /\ Merged(read, kind) = f[Len(read)]
<1> DEFINE N == Len(read)
           Start == [k \in {} |-> None]
           Pass(x, n) == MergedValues(x, read[n].values, kind)
           Loop(g, m) == g[0] = Start /\ \A n \in 1..m : g[n] = Pass(g[n - 1], n)
           S == {m \in Nat : \E g : Loop(g, m)}
<1> HIDE DEF Pass, Start
<1>1. 0 \in S
    <2>1. Loop([k \in {0} |-> Start], 0) OBVIOUS
    <2> QED BY <2>1
<1>2. ASSUME NEW m \in Nat, m < N, m \in S PROVE m + 1 \in S
    <2>1. PICK g : Loop(g, m) BY <1>2
    <2> DEFINE h == [k \in 0..(m + 1) |-> IF k = m + 1 THEN Pass(g[m], m + 1) ELSE g[k]]
    <2>2. Loop(h, m + 1) BY <2>1
    <2> QED BY <2>2
<1>3. PICK g : Loop(g, N)
    <2>1. \A n \in 0..N : n \in S
        <3> HIDE DEF S, N
        <3>1. N \in Nat BY DEF N
        <3> QED BY <1>1, <1>2, <3>1, UpTo
    <2>2. N \in S
        <3> HIDE DEF S
        <3> QED BY <2>1
    <2> QED BY <2>2
<1> DEFINE f == [n \in 0..N |-> g[n]]
           Whole(h) == h = [n \in 0..N |-> IF n = 0 THEN Start ELSE Pass(h[n - 1], n)]
           c == CHOOSE h : Whole(h)
<1>4. Whole(f) BY <1>3
<1>5. Whole(c) BY <1>4
<1>6. Merged(read, kind) = c[N]
    BY DEF Merged, Pass, Start
<1> HIDE DEF c
<1>7. c[0] = Start /\ \A n \in 1..N : c[n] = Pass(c[n - 1], n)
    BY <1>5
<1> QED BY <1>6, <1>7 DEF Pass, Start

(* The values of a kind among those of the first n parameters. *)
ReadOfKind(read, kind, n) ==
    UNION {OfKind(read[i].values, kind, Len(read[i].values)) : i \in 1..n}

(* The dictionary of profiles or of routes is a summary of the values that   *)
(* were read, whatever their order.                                          *)
LEMMA MergedSummarise ==
    ASSUME NEW read, NEW kind, Len(read) \in Nat,
           \A i \in 1..Len(read) : Len(read[i].values) \in Nat
    PROVE  Summarises(Merged(read, kind), ReadOfKind(read, kind, Len(read)))
<1> DEFINE N == Len(read)
<1>1. PICK f : /\ f[0] = [k \in {} |-> None]
               /\ \A n \in 1..N : f[n] = MergedValues(f[n - 1], read[n].values, kind)
               /\ Merged(read, kind) = f[N]
    BY ParametersLoop
<1> DEFINE Seen(n) == ReadOfKind(read, kind, n)
           S == {n \in Nat : Summarises(f[n], Seen(n))}
<1>2. 0 \in S
    <2>1. Seen(0) = {} BY DEF ReadOfKind
    <2>2. Summarises(f[0], {}) BY <1>1 DEF Summarises
    <2> QED BY <2>1, <2>2
<1>3. ASSUME NEW n \in Nat, n < N, n \in S PROVE n + 1 \in S
    <2> DEFINE values == read[n + 1].values
               New == OfKind(values, kind, Len(values))
    <2> HIDE DEF Seen, values
    <2>1. f[n + 1] = MergedValues(f[n], values, kind)
        <3>1. n + 1 \in 1..N /\ (n + 1) - 1 = n BY <1>3
        <3> QED BY <1>1, <3>1 DEF values
    <2>2. Len(values) \in Nat BY <1>3 DEF values
    <2>3. Seen(n + 1) = Seen(n) \cup New
        <3>1. 1..(n + 1) = (1..n) \cup {n + 1} BY <1>3
        <3> QED BY <3>1 DEF Seen, ReadOfKind, values
    <2>4. Summarises(f[n + 1], Seen(n) \cup New)
        BY <1>3, <2>1, <2>2, MergedValuesSummarise
    <2>5. Summarises(f[n + 1], Seen(n + 1)) BY <2>3, <2>4
    <2> QED BY <2>5
<1>4. \A n \in 0..N : n \in S
    <2> HIDE DEF S, N
    <2>1. N \in Nat BY DEF N
    <2> QED BY <1>2, <1>3, <2>1, UpTo
<1>5. Summarises(f[N], Seen(N))
    <2> HIDE DEF Seen
    <2> QED BY <1>4
<1> QED BY <1>1, <1>5
-----------------------------------------------------------------------------
(* What it means for a snapshot that nothing is unresolved: each part says   *)
(* what references of one kind find.                                         *)
ParametersResolved(s) ==
    /\ \A d \in DOMAIN s.devices : \A q \in s.devices[d].parameters : <<"device", d, q>> \in s.parameters
    /\ \A n \in DOMAIN s.nodes : \A q \in s.nodes[n].parameters : <<"node", n, q>> \in s.parameters
    /\ \A x \in DOMAIN s.ports : \A q \in s.ports[x].parameters : <<"port", x, q>> \in s.parameters
    /\ \A q \in s.parameters : q[2] \in OwnersOf(s, q[1])
CardsResolved(s) ==
    /\ \A d \in DOMAIN s.devices :
          /\ \A i \in s.devices[d].profiles : <<d, i>> \in DOMAIN s.profiles
          /\ \A i \in s.devices[d].routes : <<d, i>> \in DOMAIN s.routes
    /\ \A k \in DOMAIN s.profiles : k[1] \in DOMAIN s.devices
    /\ \A k \in DOMAIN s.routes : k[1] \in DOMAIN s.devices
    /\ \A k \in DOMAIN s.routes : \A i \in s.routes[k].profiles : <<k[1], i>> \in DOMAIN s.profiles
IsPort(s, x, n, way) == x \in DOMAIN s.ports /\ s.ports[x].node = n /\ s.ports[x].direction = way
NodesResolved(s) ==
    /\ \A n \in DOMAIN s.nodes :
          /\ s.nodes[n].device \in DOMAIN s.devices \cup {None}
          /\ \A x \in s.nodes[n].inputs : IsPort(s, x, n, "input")
          /\ \A x \in s.nodes[n].outputs : IsPort(s, x, n, "output")
    /\ \A x \in DOMAIN s.ports : s.ports[x].node \in DOMAIN s.nodes
LinksResolved(s) ==
    \A l \in DOMAIN s.links :
       LET x == s.links[l]
       IN /\ x.output_node \in DOMAIN s.nodes /\ IsPort(s, x.output_port, x.output_node, "output")
          /\ x.input_node \in DOMAIN s.nodes /\ IsPort(s, x.input_port, x.input_node, "input")
DefaultsResolved(s) ==
    /\ \A t \in Targets : s.defaults.target[t] # None =>
          s.defaults.target[t].resolved \in DOMAIN s.nodes \cup {None}
    /\ s.defaults.metadata \in s.metadata \cup {None}
Resolved(s) ==
    ParametersResolved(s) /\ CardsResolved(s) /\ NodesResolved(s) /\ LinksResolved(s) /\ DefaultsResolved(s)

(* The parts of _find_unresolved_relationships(): each is empty exactly if     *)
(* the references it looks at are found.                                     *)
LEMMA OwnedResolved ==
    ASSUME NEW s, NEW owner_type, NEW owned
    PROVE  unresolved_parameters(s, owner_type, owned) = {} <=>
              \A x \in DOMAIN owned : \A q \in owned[x].parameters : <<owner_type, x, q>> \in s.parameters
<1> DEFINE of(x) == {Unresolved(owner_type, x, "parameter", q) :
                        q \in {y \in owned[x].parameters : <<owner_type, x, y>> \notin s.parameters}}
<1>1. ASSUME NEW x
      PROVE  of(x) = {} <=> \A q \in owned[x].parameters : <<owner_type, x, q>> \in s.parameters
    OBVIOUS
<1>2. unresolved_parameters(s, owner_type, owned) = UNION {of(x) : x \in DOMAIN owned}
    BY DEF unresolved_parameters
<1> HIDE DEF of
<1>3. UNION {of(x) : x \in DOMAIN owned} = {} <=> \A x \in DOMAIN owned : of(x) = {}
    OBVIOUS
<1> QED BY <1>1, <1>2, <1>3

LEMMA EndsResolved ==
    ASSUME NEW s, NEW l
    PROVE  unresolved_ends(s, l) = {} <=>
              /\ s.links[l].output_node \in DOMAIN s.nodes
              /\ IsPort(s, s.links[l].output_port, s.links[l].output_node, "output")
              /\ s.links[l].input_node \in DOMAIN s.nodes
              /\ IsPort(s, s.links[l].input_port, s.links[l].input_node, "input")
BY DEF unresolved_ends, IsPort

LEMMA PortsResolved ==
    ASSUME NEW s, NEW n, NEW relation, NEW listed, NEW way
    PROVE  unresolved_ports(s, n, relation, listed, way) = {} <=>
              \A x \in listed : IsPort(s, x, n, way)
BY DEF unresolved_ports, IsPort

(* The list of what does not resolve is empty exactly if everything does: no *)
(* relationship is forgotten, and none is reported in vain.                  *)
LEMMA NothingUnresolved ==
    ASSUME NEW s
    PROVE  find_unresolved_relationships(s) = {} <=> Resolved(s)
<1> DEFINE
      profilesOf(d, listed) == {i \in listed : <<d, i>> \notin DOMAIN s.profiles}
      ofDevice(d) ==
            {Unresolved("device", d, "profile", i) : i \in profilesOf(d, s.devices[d].profiles)}
              \cup {Unresolved("device", d, "route", i) :
                       i \in {j \in s.devices[d].routes : <<d, j>> \notin DOMAIN s.routes}}
      ofDevices == UNION {ofDevice(d) : d \in DOMAIN s.devices}
      ofNode(n) ==
            {Unresolved("node", n, "device", d) :
                d \in {s.nodes[n].device} \ (DOMAIN s.devices \cup {None})}
              \cup unresolved_ports(s, n, "input_port", s.nodes[n].inputs, "input")
              \cup unresolved_ports(s, n, "output_port", s.nodes[n].outputs, "output")
      ofNodes == UNION {ofNode(n) : n \in DOMAIN s.nodes}
      ofPorts == {Unresolved("port", x, "node", s.ports[x].node) :
                    x \in {y \in DOMAIN s.ports : s.ports[y].node \notin DOMAIN s.nodes}}
      ofLinks == UNION {unresolved_ends(s, l) : l \in DOMAIN s.links}
      ofProfiles == {Unresolved("profile", k[2], "device", k[1]) :
                       k \in {x \in DOMAIN s.profiles : x[1] \notin DOMAIN s.devices}}
      ofRoutes == {Unresolved("route", k[2], "device", k[1]) :
                     k \in {x \in DOMAIN s.routes : x[1] \notin DOMAIN s.devices}}
      usedBy(k) == {Unresolved("route", k[2], "profile", i) : i \in profilesOf(k[1], s.routes[k].profiles)}
      used == UNION {usedBy(k) : k \in DOMAIN s.routes}
      owners == {Unresolved("parameter", q, "owner", q[2]) :
                   q \in {x \in s.parameters : x[2] \notin OwnersOf(s, x[1])}}
      ofTargets == {Unresolved("defaults", t, "resolved_node", s.defaults.target[t].resolved) :
                      t \in {x \in Targets :
                          /\ s.defaults.target[x] # None
                          /\ s.defaults.target[x].resolved \notin DOMAIN s.nodes \cup {None}}}
      ofMetadata == {Unresolved("defaults", "defaults", "metadata", x) :
                       x \in {s.defaults.metadata} \ (s.metadata \cup {None})}
      device == unresolved_parameters(s, "device", s.devices)
      node == unresolved_parameters(s, "node", s.nodes)
      port == unresolved_parameters(s, "port", s.ports)
<1>1. device = {} /\ node = {} /\ port = {} /\ owners = {} <=> ParametersResolved(s)
    <2>1. owners = {} <=> \A q \in s.parameters : q[2] \in OwnersOf(s, q[1]) OBVIOUS
    <2> HIDE DEF owners
    <2> QED BY <2>1, OwnedResolved DEF ParametersResolved
<1>2. ofDevices = {} /\ ofProfiles = {} /\ ofRoutes = {} /\ used = {} <=> CardsResolved(s)
    <2>1. ASSUME NEW d
          PROVE  ofDevice(d) = {} <=>
              /\ \A i \in s.devices[d].profiles : <<d, i>> \in DOMAIN s.profiles
              /\ \A i \in s.devices[d].routes : <<d, i>> \in DOMAIN s.routes
        OBVIOUS
    <2>2. ofProfiles = {} <=> \A k \in DOMAIN s.profiles : k[1] \in DOMAIN s.devices OBVIOUS
    <2>3. ofRoutes = {} <=> \A k \in DOMAIN s.routes : k[1] \in DOMAIN s.devices OBVIOUS
    <2>4. ASSUME NEW k
          PROVE  usedBy(k) = {} <=> \A i \in s.routes[k].profiles : <<k[1], i>> \in DOMAIN s.profiles
        OBVIOUS
    <2> HIDE DEF ofDevice, usedBy
    <2>5. ofDevices = {} <=> \A d \in DOMAIN s.devices : ofDevice(d) = {} OBVIOUS
    <2>6. used = {} <=> \A k \in DOMAIN s.routes : usedBy(k) = {} OBVIOUS
    <2> HIDE DEF ofDevices, ofProfiles, ofRoutes, used
    <2> QED BY <2>1, <2>2, <2>3, <2>4, <2>5, <2>6 DEF CardsResolved
<1>3. ofNodes = {} /\ ofPorts = {} <=> NodesResolved(s)
    <2>1. ASSUME NEW n
          PROVE  ofNode(n) = {} <=>
                    /\ s.nodes[n].device \in DOMAIN s.devices \cup {None}
                    /\ \A x \in s.nodes[n].inputs : IsPort(s, x, n, "input")
                    /\ \A x \in s.nodes[n].outputs : IsPort(s, x, n, "output")
        <3>1. {Unresolved("node", n, "device", d) :
                  d \in {s.nodes[n].device} \ (DOMAIN s.devices \cup {None})} = {} <=>
                 s.nodes[n].device \in DOMAIN s.devices \cup {None}
            OBVIOUS
        <3>2. ofNode(n) = {} <=>
                 /\ s.nodes[n].device \in DOMAIN s.devices \cup {None}
                 /\ unresolved_ports(s, n, "input_port", s.nodes[n].inputs, "input") = {}
                 /\ unresolved_ports(s, n, "output_port", s.nodes[n].outputs, "output") = {}
            BY <3>1
        <3> HIDE DEF ofNode
        <3> QED BY <3>2, PortsResolved
    <2> HIDE DEF ofNode
    <2>2. ofNodes = {} <=> \A n \in DOMAIN s.nodes : ofNode(n) = {} OBVIOUS
    <2>3. ofPorts = {} <=> \A x \in DOMAIN s.ports : s.ports[x].node \in DOMAIN s.nodes OBVIOUS
    <2> HIDE DEF ofNodes, ofPorts
    <2> QED BY <2>1, <2>2, <2>3 DEF NodesResolved
<1>4. ofLinks = {} <=> LinksResolved(s)
    <2>1. ofLinks = {} <=> \A l \in DOMAIN s.links : unresolved_ends(s, l) = {} OBVIOUS
    <2> HIDE DEF ofLinks
    <2> QED BY <2>1, EndsResolved DEF LinksResolved
<1>5. ofTargets = {} /\ ofMetadata = {} <=> DefaultsResolved(s)
    <2>1. ofTargets = {} <=> \A t \in Targets : s.defaults.target[t] # None =>
              s.defaults.target[t].resolved \in DOMAIN s.nodes \cup {None}
        OBVIOUS
    <2>2. ofMetadata = {} <=> s.defaults.metadata \in s.metadata \cup {None} OBVIOUS
    <2> HIDE DEF ofTargets, ofMetadata
    <2> QED BY <2>1, <2>2 DEF DefaultsResolved
<1>6. find_unresolved_relationships(s) =
        UNION {device, node, port, ofDevices, ofNodes, ofPorts, ofLinks, ofProfiles, ofRoutes,
               used, owners, ofTargets, ofMetadata}
    BY DEF find_unresolved_relationships
<1> HIDE DEF device, node, port, ofDevices, ofNodes, ofPorts, ofLinks, ofProfiles, ofRoutes, used,
             owners, ofTargets, ofMetadata
<1>7. find_unresolved_relationships(s) = {} <=>
        /\ device = {} /\ node = {} /\ port = {} /\ ofDevices = {} /\ ofNodes = {}
        /\ ofPorts = {} /\ ofLinks = {} /\ ofProfiles = {} /\ ofRoutes = {} /\ used = {}
        /\ owners = {} /\ ofTargets = {} /\ ofMetadata = {}
    BY <1>6
<1> QED BY <1>1, <1>2, <1>3, <1>4, <1>5, <1>7 DEF Resolved
(* The list itself is not looked at. *)
LEMMA SameResolved ==
    ASSUME NEW s, NEW x,
           s.devices = x.devices, s.nodes = x.nodes, s.ports = x.ports, s.links = x.links,
           s.metadata = x.metadata, s.parameters = x.parameters, s.profiles = x.profiles,
           s.routes = x.routes, s.defaults = x.defaults
    PROVE  Resolved(s) <=> Resolved(x)
<1>1. ParametersResolved(s) <=> ParametersResolved(x) BY DEF ParametersResolved, OwnersOf
<1>2. CardsResolved(s) <=> CardsResolved(x) BY DEF CardsResolved
<1>3. NodesResolved(s) <=> NodesResolved(x) BY DEF NodesResolved, IsPort
<1>4. LinksResolved(s) <=> LinksResolved(x) BY DEF LinksResolved, IsPort
<1>5. DefaultsResolved(s) <=> DefaultsResolved(x) BY DEF DefaultsResolved
<1> QED BY <1>1, <1>2, <1>3, <1>4, <1>5 DEF Resolved

-----------------------------------------------------------------------------
(* The snapshot of a payload.                                                *)

(* Each parameter is read in its place. *)
LEMMA ReadParameters ==
    ASSUME NEW p \in Payloads
    PROVE  /\ Len(parameters(p)) = Len(p.parameters)
           /\ \A i \in 1..Len(p.parameters) :
                 /\ parameters(p)[i].owner_type = p.parameters[i].owner_type
                 /\ parameters(p)[i].owner = p.parameters[i].owner
                 /\ parameters(p)[i].id = p.parameters[i].id
                 /\ Len(parameters(p)[i].values) = Len(p.parameters[i].values)
                 /\ \A j \in 1..Len(p.parameters[i].values) :
                       parameters(p)[i].values[j] =
                          normalize_value(p.parameters[i], parse_spa_pod_dict(p.parameters[i].values[j]))
<1>1. Len(p.parameters) \in Nat /\ \A i \in 1..Len(p.parameters) : Len(p.parameters[i].values) \in Nat
    BY PayloadAssumption
<1> QED BY <1>1 DEF parameters

(* The identity of a parameter. *)
KeyOfParameter(q) == <<q.owner_type, q.owner, q.id>>

(* What is known of a capture that did not raise: no value did, identities   *)
(* are unique, and the list is that of the assembled snapshot.               *)
LEMMA Captured ==
    ASSUME NEW p, NEW s, s = runtime_snapshot_from_payload(p), s.ok
    PROVE  LET read == parameters(p)
               mixers == mixer_parameters(p)
               profiles == Merged(read, "profile")
               routes == Merged(read, "route")
           IN /\ \A i \in 1..Len(read) : ~AnyBad(read[i].values)
              /\ unique(p.devices) /\ unique(p.nodes) /\ unique(p.ports) /\ unique(p.links)
              /\ s = [ok |-> TRUE, devices |-> devices(p, profiles, routes), nodes |-> nodes(p),
                      ports |-> ports(p), links |-> links(p), metadata |-> p.metadata,
                      parameters |-> {KeyOfParameter(read[i]) : i \in 1..Len(read)}
                                       \cup {KeyOfParameter(q) : q \in mixers},
                      profiles |-> profiles, routes |-> routes,
                      defaults |-> defaults(p), unresolved |-> s.unresolved]
              /\ s.unresolved = {} <=> Resolved(s)
<1> DEFINE read == parameters(p)
           mixers == mixer_parameters(p)
           profiles == Merged(read, "profile")
           routes == Merged(read, "route")
           keys == {KeyOfParameter(read[i]) : i \in 1..Len(read)} \cup {KeyOfParameter(q) : q \in mixers}
           base == [ok |-> TRUE, devices |-> devices(p, profiles, routes), nodes |-> nodes(p),
                    ports |-> ports(p), links |-> links(p), metadata |-> p.metadata,
                    parameters |-> keys, profiles |-> profiles, routes |-> routes,
                    defaults |-> defaults(p), unresolved |-> {}]
           Refused == \/ \E i \in 1..Len(read) : AnyBad(read[i].values)
                      \/ \E q \in mixers : AnyBad(q.values)
                      \/ \E records \in {p.devices, p.nodes, p.ports, p.links} : ~unique(records)
                      \/ \E i, j \in 1..Len(read) :
                            i # j /\ KeyOfParameter(read[i]) = KeyOfParameter(read[j])
                      \/ \E i \in 1..Len(read), q \in mixers :
                            KeyOfParameter(read[i]) = KeyOfParameter(q)
<1>1. s = IF Refused THEN NoSnapshot ELSE RuntimeSnapshot(base, {})
    BY DEF runtime_snapshot_from_payload, Assembled, KeyOfParameter
<1>2. ~Refused
    <2> HIDE DEF Refused, base
    <2> QED BY <1>1 DEF NoSnapshot
<1>3. s = [base EXCEPT !.unresolved = find_unresolved_relationships(base)]
    <2> HIDE DEF Refused, base
    <2> QED BY <1>1, <1>2 DEF RuntimeSnapshot
<1>4. s.unresolved = {} <=> Resolved(base)
    <2>1. s.unresolved = find_unresolved_relationships(base) BY <1>3
    <2> HIDE DEF base
    <2> QED BY <2>1, NothingUnresolved
<1>5. s = [base EXCEPT !.unresolved = s.unresolved]
    <2>1. s.unresolved = find_unresolved_relationships(base) BY <1>3
    <2> HIDE DEF base
    <2> QED BY <1>3, <2>1
<1> HIDE DEF keys, profiles, routes, mixers, read
<1>6. s = [ok |-> TRUE, devices |-> devices(p, profiles, routes), nodes |-> nodes(p),
           ports |-> ports(p), links |-> links(p), metadata |-> p.metadata,
           parameters |-> keys, profiles |-> profiles, routes |-> routes,
           defaults |-> defaults(p), unresolved |-> s.unresolved]
    BY <1>5
<1>7. Resolved(s) <=> Resolved(base)
    <2>1. /\ s.devices = base.devices /\ s.nodes = base.nodes /\ s.ports = base.ports
          /\ s.links = base.links /\ s.metadata = base.metadata /\ s.parameters = base.parameters
          /\ s.profiles = base.profiles /\ s.routes = base.routes /\ s.defaults = base.defaults
        BY <1>6
    <2> HIDE DEF base
    <2> QED BY <2>1, SameResolved
<1> HIDE DEF base
<1> QED BY <1>2, <1>4, <1>6, <1>7 DEF keys, profiles, routes, mixers, read

(* A port is listed at its node, among the inputs or the outputs, and routes *)
(* and profiles are listed at their device, as far as these are there.       *)
Listed(s) ==
    /\ \A x \in DOMAIN s.ports :
          LET n == s.ports[x].node
          IN n \in DOMAIN s.nodes =>
                x \in (IF s.ports[x].direction = "input" THEN s.nodes[n].inputs ELSE s.nodes[n].outputs)
    /\ \A k \in DOMAIN s.routes : k[1] \in DOMAIN s.devices => k[2] \in s.devices[k[1]].routes
    /\ \A k \in DOMAIN s.profiles : k[1] \in DOMAIN s.devices => k[2] \in s.devices[k[1]].profiles

(* With every reference found, the way leads back as well. *)
LEMMA CoherentIsNavigable ==
    ASSUME NEW s, Listed(s), Resolved(s)
    PROVE  Navigable(s)
<1> USE DEF Resolved
<1>1. ASSUME NEW l \in DOMAIN s.links
      PROVE  LET x == s.links[l]
             IN /\ x.output_node \in DOMAIN s.nodes /\ x.output_port \in s.nodes[x.output_node].outputs
                /\ x.input_node \in DOMAIN s.nodes /\ x.input_port \in s.nodes[x.input_node].inputs
    <2> DEFINE x == s.links[l]
    <2>1. /\ x.output_node \in DOMAIN s.nodes /\ IsPort(s, x.output_port, x.output_node, "output")
          /\ x.input_node \in DOMAIN s.nodes /\ IsPort(s, x.input_port, x.input_node, "input")
        BY DEF LinksResolved
    <2> HIDE DEF x
    <2>2. x.output_port \in s.nodes[x.output_node].outputs BY <2>1 DEF IsPort, Listed
    <2>3. x.input_port \in s.nodes[x.input_node].inputs BY <2>1 DEF IsPort, Listed
    <2> QED BY <2>1, <2>2, <2>3 DEF x
<1>2. \A n \in DOMAIN s.nodes :
         /\ s.nodes[n].device \in DOMAIN s.devices \cup {None}
         /\ \A x \in s.nodes[n].inputs \cup s.nodes[n].outputs :
               x \in DOMAIN s.ports /\ s.ports[x].node = n
    BY DEF NodesResolved, IsPort
<1>3. ASSUME NEW k \in DOMAIN s.routes
      PROVE  /\ k[1] \in DOMAIN s.devices /\ k[2] \in s.devices[k[1]].routes
             /\ s.routes[k].profiles \subseteq s.devices[k[1]].profiles
    <2>1. k[1] \in DOMAIN s.devices BY DEF CardsResolved
    <2>2. k[2] \in s.devices[k[1]].routes BY <2>1 DEF Listed
    <2>3. ASSUME NEW i \in s.routes[k].profiles PROVE i \in s.devices[k[1]].profiles
        <3> DEFINE used == <<k[1], i>>
        <3>1. used \in DOMAIN s.profiles BY DEF CardsResolved
        <3>2. used[1] = k[1] /\ used[2] = i OBVIOUS
        <3> HIDE DEF used
        <3>3. used[1] \in DOMAIN s.devices => used[2] \in s.devices[used[1]].profiles
            BY <3>1 DEF Listed
        <3> QED BY <2>1, <3>2, <3>3
    <2> QED BY <2>1, <2>2, <2>3
<1>4. \A d \in DOMAIN s.devices : \A i \in s.devices[d].profiles : <<d, i>> \in DOMAIN s.profiles
    BY DEF CardsResolved
<1>5. \A t \in Targets :
         s.defaults.target[t] # None => s.defaults.target[t].resolved \in DOMAIN s.nodes \cup {None}
    BY DEF DefaultsResolved
<1> QED BY <1>1, <1>2, <1>3, <1>4, <1>5 DEF Navigable

(* The record of an identity. *)
LEMMA RecordOf ==
    ASSUME NEW records, NEW i \in 1..Len(records)
    PROVE  /\ records[i].id \in Ids(records)
           /\ unique(records) => Record(records, records[i].id) = records[i]
<1>1. records[i].id \in Ids(records) BY DEF Ids
<1> DEFINE c == CHOOSE j \in 1..Len(records) : records[j].id = records[i].id
<1>2. c \in 1..Len(records) /\ records[c].id = records[i].id OBVIOUS
<1>3. Record(records, records[i].id) = records[c] BY DEF Record
<1> HIDE DEF c
<1>4. unique(records) => c = i BY <1>2 DEF unique
<1> QED BY <1>1, <1>3, <1>4

LEMMA RecordFound ==
    ASSUME NEW records, NEW x \in Ids(records)
    PROVE  \E i \in 1..Len(records) : Record(records, x) = records[i] /\ records[i].id = x
<1>1. \E i \in 1..Len(records) : records[i].id = x BY DEF Ids
<1> DEFINE c == CHOOSE i \in 1..Len(records) : records[i].id = x
<1>2. c \in 1..Len(records) /\ records[c].id = x BY <1>1
<1>3. Record(records, x) = records[c] BY DEF Record
<1> QED BY <1>2, <1>3

(* A capture lists its ports, routes and profiles. *)
LEMMA CapturedListed ==
    ASSUME NEW p, NEW s, s = runtime_snapshot_from_payload(p), s.ok
    PROVE  Listed(s)
<1> DEFINE profiles == Merged(parameters(p), "profile")
           routes == Merged(parameters(p), "route")
<1> HIDE DEF profiles, routes
<1>1. /\ s.devices = devices(p, profiles, routes) /\ s.nodes = nodes(p) /\ s.ports = ports(p)
      /\ s.profiles = profiles /\ s.routes = routes
    <2>1. /\ s.devices = devices(p, Merged(parameters(p), "profile"), Merged(parameters(p), "route"))
          /\ s.nodes = nodes(p) /\ s.ports = ports(p)
          /\ s.profiles = Merged(parameters(p), "profile") /\ s.routes = Merged(parameters(p), "route")
        BY Captured
    <2> QED BY <2>1 DEF profiles, routes
<1>2. ASSUME NEW x \in DOMAIN s.ports, s.ports[x].node \in DOMAIN s.nodes
      PROVE  x \in IF s.ports[x].direction = "input" THEN s.nodes[s.ports[x].node].inputs
                   ELSE s.nodes[s.ports[x].node].outputs
    <2>1. x \in Ids(p.ports) BY <1>1 DEF ports
    <2>2. PICK i \in 1..Len(p.ports) : Record(p.ports, x) = p.ports[i] /\ p.ports[i].id = x
        BY <2>1, RecordFound
    <2>3. s.ports[x].node = p.ports[i].node /\ s.ports[x].direction = DirectionName(p.ports[i].direction)
        BY <1>1, <2>1, <2>2 DEF ports
    <2> DEFINE n == p.ports[i].node
    <2>4. /\ s.nodes[n].inputs = PortsOf(p, n, {"input"})
          /\ s.nodes[n].outputs = PortsOf(p, n, {"output", "unknown"})
        <3>1. n \in DOMAIN s.nodes BY <1>2, <2>3
        <3> HIDE DEF n
        <3> QED BY <1>1, <3>1 DEF nodes
    <2>5. ASSUME NEW ways, DirectionName(p.ports[i].direction) \in ways
          PROVE  x \in PortsOf(p, n, ways)
        BY <2>2, <2>5 DEF PortsOf
    <2>6. CASE DirectionName(p.ports[i].direction) = "input"
        <3>1. x \in PortsOf(p, n, {"input"}) BY <2>5, <2>6
        <3> QED BY <2>3, <2>4, <2>6, <3>1
    <2>7. CASE DirectionName(p.ports[i].direction) # "input"
        <3>1. DirectionName(p.ports[i].direction) \in {"output", "unknown"} BY <2>7 DEF DirectionName
        <3>2. x \in PortsOf(p, n, {"output", "unknown"}) BY <2>5, <3>1
        <3> QED BY <2>3, <2>4, <2>7, <3>2
    <2> QED BY <2>6, <2>7
<1>3. \A k \in DOMAIN s.routes : k[1] \in DOMAIN s.devices => k[2] \in s.devices[k[1]].routes
    BY <1>1 DEF devices
<1>4. \A k \in DOMAIN s.profiles : k[1] \in DOMAIN s.devices => k[2] \in s.devices[k[1]].profiles
    BY <1>1 DEF devices
<1>5. \A x \in DOMAIN s.ports :
         LET n == s.ports[x].node
         IN n \in DOMAIN s.nodes =>
               x \in (IF s.ports[x].direction = "input" THEN s.nodes[n].inputs ELSE s.nodes[n].outputs)
    BY <1>2
<1> QED BY <1>3, <1>4, <1>5 DEF Listed

(* What is_coherent promises. *)
Honest(s) == Listed(s) /\ (s.unresolved = {} => Resolved(s))

(* A capture keeps the promise. *)
LEMMA CapturedHonest ==
    ASSUME NEW p, NEW s, s = runtime_snapshot_from_payload(p), s.ok
    PROVE  Honest(s)
<1>1. s.unresolved = {} <=> Resolved(s) BY Captured
<1> QED BY <1>1, CapturedListed DEF Honest

(* A collection of kept is that of s without some of its objects. *)
OnlyLost(kept, s, kind) ==
    /\ DOMAIN kept[kind] \subseteq DOMAIN s[kind]
    /\ \A x \in DOMAIN kept[kind] : kept[kind][x] = s[kind][x]

(* What is left is still listed where it belongs. *)
LEMMA LostKeepsListed ==
    ASSUME NEW s, NEW kept, Listed(s), \A kind \in Collections : OnlyLost(kept, s, kind)
    PROVE  Listed(kept)
<1> USE DEF Collections
<1>1. /\ DOMAIN kept.nodes \subseteq DOMAIN s.nodes
      /\ \A x \in DOMAIN kept.nodes : kept.nodes[x] = s.nodes[x]
      /\ DOMAIN kept.ports \subseteq DOMAIN s.ports
      /\ \A x \in DOMAIN kept.ports : kept.ports[x] = s.ports[x]
      /\ DOMAIN kept.devices \subseteq DOMAIN s.devices
      /\ \A x \in DOMAIN kept.devices : kept.devices[x] = s.devices[x]
      /\ DOMAIN kept.routes \subseteq DOMAIN s.routes
      /\ DOMAIN kept.profiles \subseteq DOMAIN s.profiles
    BY DEF OnlyLost
<1>2. ASSUME NEW x \in DOMAIN kept.ports, kept.ports[x].node \in DOMAIN kept.nodes
      PROVE  x \in IF kept.ports[x].direction = "input" THEN kept.nodes[kept.ports[x].node].inputs
                   ELSE kept.nodes[kept.ports[x].node].outputs
    <2>1. kept.ports[x] = s.ports[x] /\ x \in DOMAIN s.ports BY <1>1, <1>2
    <2>2. kept.nodes[s.ports[x].node] = s.nodes[s.ports[x].node] /\ s.ports[x].node \in DOMAIN s.nodes
        BY <1>1, <1>2, <2>1
    <2> QED BY <2>1, <2>2 DEF Listed
<1>3. \A x \in DOMAIN kept.ports :
         LET n == kept.ports[x].node
         IN n \in DOMAIN kept.nodes =>
               x \in (IF kept.ports[x].direction = "input" THEN kept.nodes[n].inputs
                      ELSE kept.nodes[n].outputs)
    BY <1>2
<1>4. \A k \in DOMAIN kept.routes : k[1] \in DOMAIN kept.devices => k[2] \in kept.devices[k[1]].routes
    BY <1>1 DEF Listed
<1>5. \A k \in DOMAIN kept.profiles :
         k[1] \in DOMAIN kept.devices => k[2] \in kept.devices[k[1]].profiles
    BY <1>1 DEF Listed
<1> QED BY <1>3, <1>4, <1>5 DEF Listed

(* So does a snapshot that is restored from a dictionary that has lost       *)
(* objects, whatever list of unresolved relationships came with it.          *)
LEMMA RestoredHonest ==
    ASSUME NEW p, NEW s, s = runtime_snapshot_from_payload(p), s.ok,
           NEW kind \in Collections, NEW lost, NEW supplied, NEW r,
           r = RuntimeSnapshot([s EXCEPT ![kind] = Restrict(@, DOMAIN @ \ lost)], supplied),
           r.ok
    PROVE  Honest(r)
<1> DEFINE kept == [s EXCEPT ![kind] = Restrict(@, DOMAIN @ \ lost)]
           computed == find_unresolved_relationships(kept)
           Fields == {"ok", "devices", "nodes", "ports", "links", "metadata", "parameters",
                      "profiles", "routes", "defaults", "unresolved"}
<1>1. DOMAIN s = Fields
    <2> DEFINE profiles == Merged(parameters(p), "profile")
               routes == Merged(parameters(p), "route")
               keys == {KeyOfParameter(parameters(p)[i]) : i \in 1..Len(parameters(p))}
                         \cup {KeyOfParameter(q) : q \in mixer_parameters(p)}
    <2>1. s = [ok |-> TRUE, devices |-> devices(p, profiles, routes), nodes |-> nodes(p),
               ports |-> ports(p), links |-> links(p), metadata |-> p.metadata,
               parameters |-> keys, profiles |-> profiles, routes |-> routes,
               defaults |-> defaults(p), unresolved |-> s.unresolved]
        BY Captured
    <2> HIDE DEF profiles, routes, keys
    <2> QED BY <2>1
<1>2. /\ DOMAIN kept = Fields
      /\ \A f \in Fields : f # kind => kept[f] = s[f]
      /\ kept[kind] = Restrict(s[kind], DOMAIN s[kind] \ lost)
    BY <1>1 DEF Collections
<1> HIDE DEF kept
<1>3. r = [kept EXCEPT !.unresolved = computed]
    BY DEF RuntimeSnapshot, NoSnapshot, kept
<1>4. r.unresolved = computed /\ \A f \in Fields \ {"unresolved"} : r[f] = kept[f]
    BY <1>2, <1>3
<1>5. ASSUME NEW f \in Collections PROVE OnlyLost(r, s, f)
    <2>1. f \in Fields \ {"unresolved"} BY DEF Collections
    <2>2. r[f] = kept[f] BY <1>4, <2>1
    <2> QED BY <1>2, <2>1, <2>2 DEF Restrict, OnlyLost
<1>6. Listed(r)
    BY <1>5, CapturedListed, LostKeepsListed
<1>7. Resolved(r) <=> Resolved(kept)
    <2>1. /\ r.devices = kept.devices /\ r.nodes = kept.nodes /\ r.ports = kept.ports
          /\ r.links = kept.links /\ r.metadata = kept.metadata /\ r.parameters = kept.parameters
          /\ r.profiles = kept.profiles /\ r.routes = kept.routes /\ r.defaults = kept.defaults
        BY <1>4
    <2> QED BY <2>1, SameResolved
<1>8. r.unresolved = {} => Resolved(r) BY <1>4, <1>7, NothingUnresolved
<1> QED BY <1>6, <1>8 DEF Honest

-----------------------------------------------------------------------------
(* The invariant of the specification: a snapshot is what the code makes of  *)
(* the payload at hand, and what was restored keeps its promise.  The        *)
(* promise itself would not do: Listed does not follow from Navigable of a   *)
(* snapshot that is not coherent, and a loss can make one coherent.          *)
SnapInv ==
    /\ payload \in Payloads
    /\ snapshot.ok => snapshot = runtime_snapshot_from_payload(payload)
    /\ restored.ok => Honest(restored)

(* Every reachable state satisfies it, through runtime_snapshot_from_payload *)
(* and from_dict() after any loss.                                           *)
THEOREM SnapInvariant == SnapSpec => []SnapInv
<1>1. SnapInit => SnapInv BY DEF SnapInit, SnapInv, NoSnapshot
<1>2. ASSUME SnapInv, [SnapNext]_snapVars PROVE SnapInv'
    <2> USE <1>2
    <2>1. CASE Capture
        BY <2>1 DEF Capture, SnapInv
    <2>2. ASSUME NEW kind \in Collections, NEW listed \in BOOLEAN, NEW lost,
                 Restore(kind, lost, listed)
          PROVE  SnapInv'
        <3>1. snapshot.ok /\ UNCHANGED <<payload, snapshot>> BY <2>2 DEF Restore
        <3>2. restored' = RuntimeSnapshot([snapshot EXCEPT ![kind] = Restrict(@, DOMAIN @ \ lost)],
                                          IF listed THEN snapshot.unresolved ELSE {})
            BY <2>2 DEF Restore
        <3>3. restored'.ok => Honest(restored')
            <4>1. snapshot = runtime_snapshot_from_payload(payload) BY <3>1 DEF SnapInv
            <4> QED BY <3>1, <3>2, <4>1, RestoredHonest
        <3> QED BY <3>1, <3>3 DEF SnapInv
    <2>3. CASE UNCHANGED snapVars
        <3>1. payload' = payload /\ snapshot' = snapshot /\ restored' = restored BY <2>3 DEF snapVars
        <3>2. Honest(restored)' <=> Honest(restored)
            <4>1. Honest(restored)' <=> Honest(restored') OBVIOUS
            <4> QED BY <3>1, <4>1
        <3> QED BY <3>1, <3>2 DEF SnapInv
    <2> QED BY <2>1, <2>2, <2>3 DEF SnapNext
<1> QED BY <1>1, <1>2, PTL DEF SnapSpec
-----------------------------------------------------------------------------
(* What normalize.py makes of a value, as far as profiles and routes go.     *)

(* A guarded record is the record, and nothing that was checked raised. *)
LEMMA GuardedPasses ==
    ASSUME NEW values, NEW v, Guarded(values, v) # Bad
    PROVE  Guarded(values, v) = v /\ \A i \in 1..Len(values) : values[i] # Bad
BY DEF Guarded, AnyBad

(* An identifier that is required is the number in the field. *)
LEMMA IdentifierRead ==
    ASSUME NEW v, NEW o, NEW k, identifier(required(v, o, k)) # Bad
    PROVE  identifier(required(v, o, k)).n = take(v, o, k).n
<1> DEFINE field == required(v, o, k)
<1>1. field.py \in {"int", "enum"} /\ identifier(field) = as_int(field) BY DEF identifier
<1>2. as_int(field).n = field.n BY <1>1 DEF as_int, isInt, Scalar
<1>3. field = take(v, o, k) BY <1>1 DEF required, Bad
<1> QED BY <1>1, <1>2, <1>3

(* Audio properties are not taken for a profile or a route. *)
LEMMA AudioKind ==
    ASSUME NEW v, normalize_audio_properties(v) # Bad
    PROVE  normalize_audio_properties(v).kind = "audio"
<1> DEFINE loud == optional(take(v, PropsId, K.volume), Missing, number)
           silent == optional(take(v, PropsId, K.mute), Missing, boolean)
           volumes == each(take(v, PropsId, K.channelVolumes), number)
           positions == each(take(v, PropsId, K.channelMap), identifier)
           made == [kind |-> "audio", volume |-> loud, mute |-> silent, volumes |-> volumes,
                    positions |-> positions]
           checked == <<loud, silent>> \o volumes \o positions
<1>1. normalize_audio_properties(v) = IF ~is_mapping(v) THEN Bad ELSE Guarded(checked, made)
    BY DEF normalize_audio_properties
<1>2. made.kind = "audio" OBVIOUS
<1> HIDE DEF checked, made
<1>3. normalize_audio_properties(v) = made BY <1>1, GuardedPasses
<1> QED BY <1>2, <1>3

(* A profile carries the index of its pod, its device and whether it is active. *)
LEMMA ProfileRead ==
    ASSUME NEW v, NEW device, NEW active, NEW w, w = normalize_profile(v, device, active), w # Bad
    PROVE  /\ w.kind = "profile" /\ w.device = device /\ w.active = active
           /\ w.index = take(v, ProfileId, K.index).n
<1> DEFINE i == identifier(required(v, ProfileId, K.index))
           called == filled(required(v, ProfileId, K.name))
           free == optional(take(v, ProfileId, K.available), [py |-> "unknown"], availability)
           parts == each(take(v, ProfileId, K.classes), profile_class)
           made == [kind |-> "profile", device |-> device, index |-> i.n, name |-> called.n,
                    available |-> free.py, active |-> active]
           checked == <<i, called, free>>
<1>1. w = Guarded(checked, Guarded(parts, made)) BY DEF normalize_profile
<1>2. /\ made.kind = "profile" /\ made.device = device /\ made.active = active /\ made.index = i.n
      /\ Len(checked) = 3 /\ checked[1] = i
    <2> HIDE DEF i, called, free
    <2> QED OBVIOUS
<1> HIDE DEF checked, parts, made
<1>3. w = Guarded(parts, made) /\ i # Bad BY <1>1, <1>2, GuardedPasses
<1>4. w = made BY <1>3, GuardedPasses
<1>5. i.n = take(v, ProfileId, K.index).n BY <1>3, IdentifierRead
<1> HIDE DEF i
<1> QED BY <1>2, <1>4, <1>5

(* And so does a route. *)
LEMMA RouteRead ==
    ASSUME NEW v, NEW device, NEW active, NEW w, w = normalize_route(v, device, active), w # Bad
    PROVE  /\ w.kind = "route" /\ w.device = device /\ w.active = active
           /\ w.index = take(v, RouteId, K.index).n
<1> DEFINE i == identifier(required(v, RouteId, K.index))
           called == filled(required(v, RouteId, K.name))
           way == direction(required(v, RouteId, K.direction))
           free == optional(take(v, RouteId, K.available), [py |-> "unknown"], availability)
           of == each(take(v, RouteId, K.profiles), identifier)
           audio == optional(take(v, RouteId, K.props), Missing, normalize_audio_properties)
           made == [kind |-> "route", device |-> device, index |-> i.n, name |-> called.n,
                    direction |-> way.py, available |-> free.py, active |-> active,
                    profiles |-> {of[j].n : j \in 1..Len(of)}, audio |-> audio]
           checked == <<i, called, way, free, audio>>
<1>1. w = Guarded(checked, Guarded(of, made)) BY DEF normalize_route
<1>2. /\ made.kind = "route" /\ made.device = device /\ made.active = active /\ made.index = i.n
      /\ Len(checked) = 5 /\ checked[1] = i
    <2> HIDE DEF i, called, free, way, of, audio
    <2> QED OBVIOUS
<1> HIDE DEF checked, of, made
<1>3. w = Guarded(of, made) /\ i # Bad BY <1>1, <1>2, GuardedPasses
<1>4. w = made BY <1>3, GuardedPasses
<1>5. i.n = take(v, RouteId, K.index).n BY <1>3, IdentifierRead
<1> HIDE DEF i
<1> QED BY <1>2, <1>4, <1>5

(* The parameters that bring values of a kind, and the one that brings the   *)
(* selected ones.                                                            *)
CardNames(kind) == IF kind = "profile" THEN {"Profile", "EnumProfile"} ELSE {"Route", "EnumRoute"}
SelectedName(kind) == IF kind = "profile" THEN "Profile" ELSE "Route"

(* A value is of a kind exactly if its parameter has one of those names. *)
LEMMA CardRead ==
    ASSUME NEW q, NEW v, NEW w, w = normalize_value(q, v), w # Bad, NEW kind \in {"profile", "route"}
    PROVE  /\ w.kind = kind <=> q.id \in CardNames(kind)
           /\ w.kind = kind =>
                 /\ w.device = q.owner /\ w.active = (q.id = SelectedName(kind))
                 /\ w.index = take(v, IF SelectedName(kind) = "Profile" THEN ProfileId ELSE RouteId, K.index).n
<1> USE DEF CardNames, SelectedName
<1>1. CASE q.id = "Props"
    <2>1. w = normalize_audio_properties(v) BY <1>1 DEF normalize_value
    <2>2. w.kind = "audio" BY <2>1, AudioKind
    <2> QED BY <1>1, <2>2
<1>2. CASE q.id \in {"Profile", "EnumProfile"}
    <2> DEFINE active == q.id = "Profile"
    <2>1. w = normalize_profile(v, q.owner, active) BY <1>2 DEF normalize_value
    <2> HIDE DEF active
    <2>2. /\ w.kind = "profile" /\ w.device = q.owner /\ w.active = active
          /\ w.index = take(v, ProfileId, K.index).n
        BY <2>1, ProfileRead
    <2>3. w.active = (q.id = "Profile") BY <2>2 DEF active
    <2> QED BY <1>2, <2>2, <2>3
<1>3. CASE q.id \in {"Route", "EnumRoute"}
    <2> DEFINE active == q.id = "Route"
    <2>1. w = normalize_route(v, q.owner, active) BY <1>3 DEF normalize_value
    <2> HIDE DEF active
    <2>2. /\ w.kind = "route" /\ w.device = q.owner /\ w.active = active
          /\ w.index = take(v, RouteId, K.index).n
        BY <2>1, RouteRead
    <2>3. w.active = (q.id = "Route") BY <2>2 DEF active
    <2> QED BY <1>3, <2>2, <2>3
<1>4. CASE q.id \notin {"Props", "Profile", "EnumProfile", "Route", "EnumRoute"}
    <2>1. w = [kind |-> "json"] BY <1>4 DEF normalize_value
    <2> QED BY <1>4, <2>1
<1> QED BY <1>1, <1>2, <1>3, <1>4
(* The j-th value of the i-th parameter. *)
Normalized(p, i, j) == normalize_value(p.parameters[i], parse_spa_pod_dict(p.parameters[i].values[j]))
(* Whether the parameter of that name brought the value of key k. *)
Brought(p, name, k) ==
    \E i \in 1..Len(p.parameters) :
       /\ p.parameters[i].id = name /\ p.parameters[i].owner = k[1]
       /\ \E j \in 1..Len(p.parameters[i].values) :
             take(parse_spa_pod_dict(p.parameters[i].values[j]),
                  IF name = "Profile" THEN ProfileId ELSE RouteId, K.index).n = k[2]

(* A capture that did not raise normalized every value. *)
LEMMA NothingRaised ==
    ASSUME NEW p \in Payloads, NEW s, s = runtime_snapshot_from_payload(p), s.ok,
           NEW i \in 1..Len(p.parameters), NEW j \in 1..Len(p.parameters[i].values)
    PROVE  Normalized(p, i, j) # Bad
<1>1. Len(parameters(p)) = Len(p.parameters) /\ Len(parameters(p)[i].values) = Len(p.parameters[i].values)
    BY ReadParameters
<1>2. parameters(p)[i].values[j] = Normalized(p, i, j)
    BY ReadParameters DEF Normalized
<1>3. ~AnyBad(parameters(p)[i].values)
    BY <1>1, Captured
<1> QED BY <1>1, <1>2, <1>3 DEF AnyBad

(* The values of a kind are those that some parameter brought. *)
LEMMA ReadOfKindIs ==
    ASSUME NEW p \in Payloads, NEW kind, NEW v
    PROVE  v \in ReadOfKind(parameters(p), kind, Len(parameters(p))) <=>
              \E i \in 1..Len(p.parameters) : \E j \in 1..Len(p.parameters[i].values) :
                 v = Normalized(p, i, j) /\ v.kind = kind
<1> DEFINE read == parameters(p)
<1>1. Len(read) = Len(p.parameters)
    BY ReadParameters
<1>2. \A i \in 1..Len(p.parameters) :
         /\ Len(read[i].values) = Len(p.parameters[i].values)
         /\ \A j \in 1..Len(p.parameters[i].values) : read[i].values[j] = Normalized(p, i, j)
    BY ReadParameters DEF Normalized
<1> HIDE DEF read
<1>3. ASSUME NEW i \in 1..Len(p.parameters)
      PROVE  v \in OfKind(read[i].values, kind, Len(read[i].values)) <=>
                \E j \in 1..Len(p.parameters[i].values) : v = Normalized(p, i, j) /\ v.kind = kind
    BY <1>2 DEF OfKind
<1>4. v \in ReadOfKind(read, kind, Len(read)) <=>
         \E i \in 1..Len(p.parameters) : v \in OfKind(read[i].values, kind, Len(read[i].values))
    BY <1>1 DEF ReadOfKind
<1> QED BY <1>3, <1>4 DEF read

(* Every profile and every route of a capture comes from the device of its   *)
(* key, and it is active if and only if that is reported as selected.        *)
LEMMA CardsOfPayload ==
    ASSUME NEW p \in Payloads, NEW s, s = runtime_snapshot_from_payload(p), s.ok,
           NEW kind \in {"profile", "route"}, NEW k \in DOMAIN Merged(parameters(p), kind)
    PROVE  /\ k = <<k[1], k[2]>>
           /\ \E i \in 1..Len(p.parameters) :
                 p.parameters[i].id \in CardNames(kind) /\ p.parameters[i].owner = k[1]
           /\ Merged(parameters(p), kind)[k].active <=> Brought(p, SelectedName(kind), k)
<1> DEFINE merged == Merged(parameters(p), kind)
           V == ReadOfKind(parameters(p), kind, Len(parameters(p)))
           table == IF SelectedName(kind) = "Profile" THEN ProfileId ELSE RouteId
           index(i, j) == take(parse_spa_pod_dict(p.parameters[i].values[j]), table, K.index).n
<1>1. Summarises(merged, V)
    <2>1. Len(parameters(p)) \in Nat
        BY PayloadAssumption, ReadParameters
    <2>2. \A i \in 1..Len(parameters(p)) : Len(parameters(p)[i].values) \in Nat
        BY PayloadAssumption, ReadParameters
    <2> QED BY <2>1, <2>2, MergedSummarise
<1>2. \A v : v \in V <=>
         \E i \in 1..Len(p.parameters) : \E j \in 1..Len(p.parameters[i].values) :
            v = Normalized(p, i, j) /\ v.kind = kind
    BY ReadOfKindIs
<1>3. ASSUME NEW i \in 1..Len(p.parameters), NEW j \in 1..Len(p.parameters[i].values)
      PROVE  LET v == Normalized(p, i, j)
             IN /\ v.kind = kind <=> p.parameters[i].id \in CardNames(kind)
                /\ v.kind = kind => /\ v.device = p.parameters[i].owner
                                    /\ v.active = (p.parameters[i].id = SelectedName(kind))
                                    /\ v.index = index(i, j)
    <2>1. Normalized(p, i, j) # Bad BY NothingRaised
    <2> QED BY <2>1, CardRead DEF Normalized
<1> HIDE DEF merged, V, index
<1>4. k \in DOMAIN merged BY DEF merged
<1>5. PICK u \in V : k = KeyOf(u) BY <1>1, <1>4 DEF Summarises
<1>6. PICK i \in 1..Len(p.parameters) :
         \E j \in 1..Len(p.parameters[i].values) : u = Normalized(p, i, j) /\ u.kind = kind
    BY <1>2, <1>5
<1>7. p.parameters[i].id \in CardNames(kind) /\ p.parameters[i].owner = k[1]
    BY <1>3, <1>5, <1>6 DEF KeyOf
<1>8. k = <<k[1], k[2]>> BY <1>5 DEF KeyOf
<1>9. merged[k].active <=> \E v \in V : KeyOf(v) = k /\ v.active
    BY <1>1, <1>4 DEF Summarises
<1>10. ASSUME NEW v \in V, KeyOf(v) = k, v.active PROVE Brought(p, SelectedName(kind), k)
    <2>0. PICK g \in 1..Len(p.parameters) :
             \E h \in 1..Len(p.parameters[g].values) : v = Normalized(p, g, h) /\ v.kind = kind
        BY <1>2
    <2>1. PICK h \in 1..Len(p.parameters[g].values) : v = Normalized(p, g, h) /\ v.kind = kind
        BY <2>0
    <2>2. /\ v.device = p.parameters[g].owner /\ v.active = (p.parameters[g].id = SelectedName(kind))
          /\ v.index = index(g, h)
        BY <1>3, <2>1
    <2>3. v.device = k[1] /\ v.index = k[2] BY <1>10 DEF KeyOf
    <2>4. p.parameters[g].id = SelectedName(kind) BY <1>10, <2>2
    <2>5. index(g, h) = k[2] BY <2>2, <2>3
    <2> QED BY <2>2, <2>3, <2>4, <2>5 DEF Brought, index
<1>11. ASSUME Brought(p, SelectedName(kind), k) PROVE \E v \in V : KeyOf(v) = k /\ v.active
    <2>1. PICK g \in 1..Len(p.parameters) :
             /\ p.parameters[g].id = SelectedName(kind) /\ p.parameters[g].owner = k[1]
             /\ \E h \in 1..Len(p.parameters[g].values) : index(g, h) = k[2]
        BY <1>11 DEF Brought, index
    <2>2. PICK h \in 1..Len(p.parameters[g].values) : index(g, h) = k[2] BY <2>1
    <2> DEFINE v == Normalized(p, g, h)
    <2> HIDE DEF v
    <2>3. p.parameters[g].id \in CardNames(kind) BY <2>1 DEF CardNames, SelectedName
    <2>4. /\ v.kind = kind /\ v.device = k[1] /\ v.active = (p.parameters[g].id = SelectedName(kind))
          /\ v.index = k[2]
        BY <1>3, <2>1, <2>2, <2>3 DEF v
    <2>5. v \in V BY <1>2, <2>4 DEF v
    <2>6. v.active BY <2>1, <2>4
    <2>7. KeyOf(v) = k BY <1>8, <2>4 DEF KeyOf
    <2> QED BY <2>5, <2>6, <2>7
<1>12. merged[k].active <=> Brought(p, SelectedName(kind), k) BY <1>9, <1>10, <1>11
<1> QED BY <1>7, <1>8, <1>12 DEF merged
(* The node of a default name is a node of that name. *)
LEMMA TargetIsNode ==
    ASSUME NEW p \in Payloads, NEW t
    PROVE  LET called == default_name(p, <<"default", t>>)
               found == node_named(p, called)
           IN /\ found \in Ids(p.nodes) \cup {None}
              /\ found # None => \E i \in 1..Len(p.nodes) : found = p.nodes[i].id /\ p.nodes[i].name = called
              /\ found # None => called # None
<1> DEFINE called == default_name(p, <<"default", t>>)
           those == {i \in 1..Len(p.nodes) : p.nodes[i].name = called}
<1> HIDE DEF called
<1>1. Len(p.nodes) \in Nat BY PayloadAssumption
<1>2. CASE called \in {None, ""} \/ those = {}
    <2>1. node_named(p, called) = None BY <1>2 DEF node_named
    <2> QED BY <2>1 DEF called
<1>3. CASE ~(called \in {None, ""} \/ those = {})
    <2>1. node_named(p, called) = p.nodes[Max(those)].id BY <1>3 DEF node_named
    <2>2. Max(those) \in those
        <3>1. those \in SUBSET (1..Len(p.nodes)) OBVIOUS
        <3> HIDE DEF those
        <3> QED BY <1>1, <1>3, <3>1, FirstAndLast
    <2> DEFINE last == Max(those)
    <2> HIDE DEF last
    <2>3. last \in 1..Len(p.nodes) /\ p.nodes[last].name = called BY <2>2 DEF last
    <2>4. node_named(p, called) = p.nodes[last].id BY <2>1 DEF last
    <2>5. p.nodes[last].id \in Ids(p.nodes) BY <2>3 DEF Ids
    <2> QED BY <1>3, <2>3, <2>4, <2>5 DEF called
<1> QED BY <1>2, <1>3

(* Nothing is unresolved in the snapshot of a complete payload. *)
LEMMA CompleteIsResolved ==
    ASSUME payload \in Payloads, snapshot = runtime_snapshot_from_payload(payload), snapshot.ok,
           Complete(payload)
    PROVE  Resolved(snapshot)
<1> DEFINE p == payload
           s == snapshot
           read == parameters(p)
           mixers == mixer_parameters(p)
           profiles == Merged(read, "profile")
           routes == Merged(read, "route")
           sent(o, x) == {p.parameters[i].id : i \in {j \in 1..Len(p.parameters) :
                             p.parameters[j].owner_type = o /\ p.parameters[j].owner = x}}
           owners(o) == CASE o = "device" -> Ids(p.devices)
                          [] o = "node" -> Ids(p.nodes)
                          [] o = "port" -> Ids(p.ports)
                          [] o = "link" -> Ids(p.links)
                          [] OTHER -> {}
<1>1. /\ unique(p.devices) /\ unique(p.nodes) /\ unique(p.ports) /\ unique(p.links)
      /\ s.devices = devices(p, profiles, routes) /\ s.nodes = nodes(p)
      /\ s.ports = ports(p) /\ s.links = links(p) /\ s.metadata = p.metadata
      /\ s.parameters = {KeyOfParameter(read[i]) : i \in 1..Len(read)}
                           \cup {KeyOfParameter(q) : q \in mixers}
      /\ s.profiles = profiles /\ s.routes = routes /\ s.defaults = defaults(p)
    <2> HIDE DEF p, s
    <2>1. s = runtime_snapshot_from_payload(p) /\ s.ok BY DEF p, s
    <2> QED BY <2>1, Captured
<1>2. /\ DOMAIN s.devices = Ids(p.devices) /\ DOMAIN s.nodes = Ids(p.nodes)
      /\ DOMAIN s.ports = Ids(p.ports) /\ DOMAIN s.links = Ids(p.links)
    <2> HIDE DEF p, s, profiles, routes, read, mixers
    <2> QED BY <1>1 DEF devices, nodes, ports, links
<1>3. /\ \A i \in 1..Len(p.parameters) :
            /\ p.parameters[i].owner \in owners(p.parameters[i].owner_type)
            /\ p.parameters[i].id \in {"Profile", "EnumProfile", "Route", "EnumRoute"} =>
                  p.parameters[i].owner_type = "device"
      /\ \A i \in 1..Len(p.devices) : p.devices[i].parameters \subseteq sent("device", p.devices[i].id)
      /\ \A i \in 1..Len(p.nodes) : p.nodes[i].parameters \subseteq sent("node", p.nodes[i].id)
      /\ \A i \in 1..Len(p.ports) : p.ports[i].parameters \subseteq sent("port", p.ports[i].id)
    BY DEF Complete
<1>4. /\ \A i \in 1..Len(p.nodes) : p.nodes[i].device \in Ids(p.devices) \cup {None}
      /\ \A i \in 1..Len(p.ports) : p.ports[i].node \in Ids(p.nodes) /\ p.ports[i].direction \in {0, 1}
      /\ \A i \in 1..Len(p.defaults) : p.defaults[i].metadata \in p.metadata \cup {None}
      /\ \A k \in DOMAIN s.routes : \A i \in s.routes[k].profiles : <<k[1], i>> \in DOMAIN s.profiles
    BY DEF Complete
<1>5. \A i \in 1..Len(p.links) :
         LET x == p.links[i]
         IN /\ x.output_node \in Ids(p.nodes) /\ x.input_node \in Ids(p.nodes)
            /\ \E j \in 1..Len(p.ports) : /\ p.ports[j].id = x.output_port
                                          /\ p.ports[j].node = x.output_node /\ p.ports[j].direction = 1
            /\ \E j \in 1..Len(p.ports) : /\ p.ports[j].id = x.input_port
                                          /\ p.ports[j].node = x.input_node /\ p.ports[j].direction = 0
    BY DEF Complete
<1>6. p \in Payloads /\ s = runtime_snapshot_from_payload(p) /\ s.ok OBVIOUS
<1> HIDE DEF p, s
<1>7. ASSUME NEW j \in 1..Len(p.ports)
      PROVE  /\ p.ports[j].id \in DOMAIN s.ports /\ s.ports[p.ports[j].id].node = p.ports[j].node
             /\ p.ports[j].direction = 0 => s.ports[p.ports[j].id].direction = "input"
             /\ p.ports[j].direction = 1 => s.ports[p.ports[j].id].direction = "output"
    <2> DEFINE x == p.ports[j].id
    <2>1. x \in Ids(p.ports) /\ Record(p.ports, x) = p.ports[j] BY <1>1, RecordOf
    <2> HIDE DEF x, profiles, routes, read, mixers
    <2>2. s.ports[x].node = p.ports[j].node /\ s.ports[x].direction = DirectionName(p.ports[j].direction)
        BY <1>1, <2>1 DEF ports
    <2> QED BY <1>2, <2>1, <2>2 DEF DirectionName, x
<1>8. ParametersResolved(s)
    <2>1. ASSUME NEW o, NEW x, NEW q \in sent(o, x) PROVE <<o, x, q>> \in s.parameters
        <3>1. PICK i \in 1..Len(p.parameters) :
                 /\ p.parameters[i].owner_type = o /\ p.parameters[i].owner = x
                 /\ p.parameters[i].id = q
            BY <2>1
        <3>2. i \in 1..Len(read) /\ KeyOfParameter(read[i]) = <<o, x, q>>
            BY <1>6, <3>1, ReadParameters DEF KeyOfParameter
        <3> HIDE DEF read, mixers
        <3> QED BY <1>1, <3>2
    <2> HIDE DEF sent
    <2>2. ASSUME NEW d \in DOMAIN s.devices, NEW q \in s.devices[d].parameters
          PROVE  <<"device", d, q>> \in s.parameters
        <3>1. PICK i \in 1..Len(p.devices) : Record(p.devices, d) = p.devices[i] /\ p.devices[i].id = d
            BY <1>2, RecordFound
        <3>2. s.devices[d].parameters = p.devices[i].parameters
            <4> HIDE DEF profiles, routes, read
            <4> QED BY <1>1, <1>2, <3>1 DEF devices
        <3>3. q \in sent("device", d) BY <1>3, <3>1, <3>2
        <3> QED BY <2>1, <3>3
    <2>3. ASSUME NEW n \in DOMAIN s.nodes, NEW q \in s.nodes[n].parameters
          PROVE  <<"node", n, q>> \in s.parameters
        <3>1. PICK i \in 1..Len(p.nodes) : Record(p.nodes, n) = p.nodes[i] /\ p.nodes[i].id = n
            BY <1>2, RecordFound
        <3>2. s.nodes[n].parameters = p.nodes[i].parameters BY <1>1, <1>2, <3>1 DEF nodes
        <3>3. q \in sent("node", n) BY <1>3, <3>1, <3>2
        <3> QED BY <2>1, <3>3
    <2>4. ASSUME NEW x \in DOMAIN s.ports, NEW q \in s.ports[x].parameters
          PROVE  <<"port", x, q>> \in s.parameters
        <3>1. PICK i \in 1..Len(p.ports) : Record(p.ports, x) = p.ports[i] /\ p.ports[i].id = x
            BY <1>2, RecordFound
        <3>2. s.ports[x].parameters = p.ports[i].parameters BY <1>1, <1>2, <3>1 DEF ports
        <3>3. q \in sent("port", x) BY <1>3, <3>1, <3>2
        <3> QED BY <2>1, <3>3
    <2>5. ASSUME NEW q \in s.parameters PROVE q[2] \in OwnersOf(s, q[1])
        <3>1. CASE \E i \in 1..Len(read) : q = KeyOfParameter(read[i])
            <4>1. PICK i \in 1..Len(read) : q = KeyOfParameter(read[i]) BY <3>1
            <4>2. i \in 1..Len(p.parameters) /\ q[1] = p.parameters[i].owner_type
                    /\ q[2] = p.parameters[i].owner
                BY <1>6, <4>1, ReadParameters DEF KeyOfParameter
            <4>3. q[2] \in owners(q[1]) BY <1>3, <4>2
            <4>4. ASSUME NEW o, NEW x \in owners(o) PROVE x \in OwnersOf(s, o)
                <5>1. CASE o = "device" BY <4>4, <5>1, <1>2 DEF OwnersOf
                <5>2. CASE o = "node" BY <4>4, <5>2, <1>2 DEF OwnersOf
                <5>3. CASE o = "port" BY <4>4, <5>3, <1>2 DEF OwnersOf
                <5>4. CASE o = "link" BY <4>4, <5>4, <1>2 DEF OwnersOf
                <5>5. CASE o \notin {"device", "node", "port", "link"}
                    <6>1. owners(o) = {} BY <5>5
                    <6> QED BY <4>4, <6>1
                <5> QED BY <5>1, <5>2, <5>3, <5>4, <5>5
            <4> HIDE DEF owners
            <4> QED BY <4>3, <4>4
        <3>2. CASE \E m \in mixers : q = KeyOfParameter(m)
            <4>1. PICK m \in mixers : q = KeyOfParameter(m) BY <3>2
            <4>2. PICK i \in 1..Len(p.nodes) : m.owner_type = "node" /\ m.owner = p.nodes[i].id
                <5> DEFINE audio(x) == Guarded(<<number(x.volume)>>,
                            [kind |-> "audio", volume |-> number(x.volume), mute |-> x.mute,
                             volumes |-> <<>>, positions |-> <<>>])
                           made(n) == [owner_type |-> "node", owner |-> n.id, id |-> "Mixer",
                                       values |-> <<audio(n.mixer)>>]
                           with == {p.nodes[i] : i \in {j \in 1..Len(p.nodes) : p.nodes[j].mixer # None}}
                <5>1. mixers = {made(n) : n \in with} BY DEF mixer_parameters, mixers
                <5>2. \A n : made(n).owner_type = "node" /\ made(n).owner = n.id
                    <6> HIDE DEF audio
                    <6> QED OBVIOUS
                <5> HIDE DEF made
                <5>3. PICK n \in with : m = made(n) BY <4>1, <5>1
                <5>4. PICK i \in 1..Len(p.nodes) : n = p.nodes[i] BY <5>3
                <5> QED BY <5>2, <5>3, <5>4
            <4>3. q[1] = "node" /\ q[2] \in DOMAIN s.nodes
                BY <1>2, <4>1, <4>2, RecordOf DEF KeyOfParameter
            <4> QED BY <4>3 DEF OwnersOf
        <3> QED BY <1>1, <2>5, <3>1, <3>2
    <2> QED BY <2>2, <2>3, <2>4, <2>5 DEF ParametersResolved
<1>9. CardsResolved(s)
    <2>1. ASSUME NEW kind \in {"profile", "route"}, NEW k \in DOMAIN Merged(read, kind)
          PROVE  k = <<k[1], k[2]>> /\ k[1] \in DOMAIN s.devices
        <3>1. PICK i \in 1..Len(p.parameters) :
                 p.parameters[i].id \in CardNames(kind) /\ p.parameters[i].owner = k[1]
            BY <1>6, CardsOfPayload
        <3>2. p.parameters[i].owner_type = "device" BY <1>3, <3>1 DEF CardNames
        <3>3. k[1] \in owners("device") BY <1>3, <3>1, <3>2
        <3>4. k = <<k[1], k[2]>> BY <1>6, CardsOfPayload
        <3> QED BY <1>2, <3>3, <3>4
    <2>2. \A k \in DOMAIN profiles : k = <<k[1], k[2]>> /\ k[1] \in DOMAIN s.devices BY <2>1
    <2>3. \A k \in DOMAIN routes : k = <<k[1], k[2]>> /\ k[1] \in DOMAIN s.devices BY <2>1
    <2> HIDE DEF profiles, routes
    <2>4. ASSUME NEW d \in DOMAIN s.devices
          PROVE  /\ \A i \in s.devices[d].profiles : <<d, i>> \in DOMAIN s.profiles
                 /\ \A i \in s.devices[d].routes : <<d, i>> \in DOMAIN s.routes
        <3>1. /\ s.devices[d].profiles = {k[2] : k \in {x \in DOMAIN profiles : x[1] = d}}
              /\ s.devices[d].routes = {k[2] : k \in {x \in DOMAIN routes : x[1] = d}}
            BY <1>1, <2>4 DEF devices
        <3>2. ASSUME NEW i \in s.devices[d].profiles PROVE <<d, i>> \in DOMAIN profiles
            BY <2>2, <3>1
        <3>3. ASSUME NEW i \in s.devices[d].routes PROVE <<d, i>> \in DOMAIN routes
            BY <2>3, <3>1
        <3> QED BY <1>1, <3>2, <3>3
    <2> QED BY <1>1, <1>4, <2>2, <2>3, <2>4 DEF CardsResolved
<1> HIDE DEF profiles, routes, read, mixers
<1>10. NodesResolved(s)
    <2>1. ASSUME NEW n \in DOMAIN s.nodes
          PROVE  /\ s.nodes[n].device \in DOMAIN s.devices \cup {None}
                 /\ \A x \in s.nodes[n].inputs : IsPort(s, x, n, "input")
                 /\ \A x \in s.nodes[n].outputs : IsPort(s, x, n, "output")
        <3>1. PICK i \in 1..Len(p.nodes) : Record(p.nodes, n) = p.nodes[i] /\ p.nodes[i].id = n
            BY <1>2, RecordFound
        <3>2. /\ s.nodes[n].device = p.nodes[i].device
              /\ s.nodes[n].inputs = PortsOf(p, n, {"input"})
              /\ s.nodes[n].outputs = PortsOf(p, n, {"output", "unknown"})
            BY <1>1, <1>2, <3>1 DEF nodes
        <3>3. ASSUME NEW x \in s.nodes[n].inputs PROVE IsPort(s, x, n, "input")
            <4>1. PICK j \in 1..Len(p.ports) : /\ p.ports[j].id = x /\ p.ports[j].node = n
                                               /\ DirectionName(p.ports[j].direction) \in {"input"}
                BY <3>2 DEF PortsOf
            <4>2. p.ports[j].direction = 0 BY <1>4, <4>1 DEF DirectionName
            <4> QED BY <1>7, <4>1, <4>2 DEF IsPort
        <3>4. ASSUME NEW x \in s.nodes[n].outputs PROVE IsPort(s, x, n, "output")
            <4>1. PICK j \in 1..Len(p.ports) :
                     /\ p.ports[j].id = x /\ p.ports[j].node = n
                     /\ DirectionName(p.ports[j].direction) \in {"output", "unknown"}
                BY <3>2 DEF PortsOf
            <4>2. p.ports[j].direction = 1 BY <1>4, <4>1 DEF DirectionName
            <4> QED BY <1>7, <4>1, <4>2 DEF IsPort
        <3> QED BY <1>2, <1>4, <3>2, <3>3, <3>4
    <2>2. ASSUME NEW x \in DOMAIN s.ports PROVE s.ports[x].node \in DOMAIN s.nodes
        <3>1. PICK i \in 1..Len(p.ports) : Record(p.ports, x) = p.ports[i] /\ p.ports[i].id = x
            BY <1>2, RecordFound
        <3> QED BY <1>2, <1>4, <1>7, <3>1
    <2> QED BY <2>1, <2>2 DEF NodesResolved
<1>11. LinksResolved(s)
    <2>1. ASSUME NEW l \in DOMAIN s.links
          PROVE  LET x == s.links[l]
                 IN /\ x.output_node \in DOMAIN s.nodes /\ IsPort(s, x.output_port, x.output_node, "output")
                    /\ x.input_node \in DOMAIN s.nodes /\ IsPort(s, x.input_port, x.input_node, "input")
        <3>1. PICK i \in 1..Len(p.links) : Record(p.links, l) = p.links[i] /\ p.links[i].id = l
            BY <1>2, RecordFound
        <3>2. s.links[l] = p.links[i] BY <1>1, <1>2, <3>1 DEF links
        <3> DEFINE x == p.links[i]
        <3>3. x.output_node \in DOMAIN s.nodes /\ x.input_node \in DOMAIN s.nodes BY <1>2, <1>5
        <3>4. PICK j \in 1..Len(p.ports) : /\ p.ports[j].id = x.output_port
                                           /\ p.ports[j].node = x.output_node /\ p.ports[j].direction = 1
            BY <1>5
        <3>5. PICK h \in 1..Len(p.ports) : /\ p.ports[h].id = x.input_port
                                           /\ p.ports[h].node = x.input_node /\ p.ports[h].direction = 0
            BY <1>5
        <3> HIDE DEF x
        <3>6. IsPort(s, x.output_port, x.output_node, "output") BY <1>7, <3>4 DEF IsPort
        <3>7. IsPort(s, x.input_port, x.input_node, "input") BY <1>7, <3>5 DEF IsPort
        <3> QED BY <3>2, <3>3, <3>6, <3>7 DEF x
    <2> QED BY <2>1 DEF LinksResolved
<1>12. DefaultsResolved(s)
    <2>1. ASSUME NEW t \in Targets, s.defaults.target[t] # None
          PROVE  s.defaults.target[t].resolved \in DOMAIN s.nodes \cup {None}
        <3> DEFINE called == default_name(p, <<"default", t>>)
        <3>1. s.defaults.target[t] = target(p, t) BY <1>1 DEF defaults
        <3>2. target(p, t).resolved = node_named(p, called) BY <2>1, <3>1 DEF target
        <3>3. node_named(p, called) \in Ids(p.nodes) \cup {None} BY <1>6, TargetIsNode
        <3> QED BY <1>2, <3>1, <3>2, <3>3
    <2>2. s.defaults.metadata \in s.metadata \cup {None}
        <3> DEFINE from == {i \in 1..Len(p.defaults) : p.defaults[i].metadata # None}
        <3>1. s.defaults.metadata = IF from = {} THEN None ELSE p.defaults[Min(from)].metadata
            BY <1>1 DEF defaults
        <3>2. from # {} => Min(from) \in from
            <4>1. from \in SUBSET (1..Len(p.defaults)) /\ Len(p.defaults) \in Nat
                BY <1>6, PayloadAssumption
            <4> HIDE DEF from
            <4> QED BY <4>1, FirstAndLast
        <3> DEFINE first == Min(from)
        <3> HIDE DEF first
        <3>3. from # {} => first \in 1..Len(p.defaults) BY <3>2 DEF first
        <3>4. from # {} => p.defaults[first].metadata \in p.metadata \cup {None} BY <1>4, <3>3
        <3> HIDE DEF from
        <3> QED BY <1>1, <3>1, <3>4 DEF first
    <2> QED BY <2>1, <2>2 DEF DefaultsResolved
<1> QED BY <1>8, <1>9, <1>10, <1>11, <1>12 DEF Resolved, s
-----------------------------------------------------------------------------
(* is_coherent is honest: a snapshot, captured or restored after a loss,     *)
(* that says it is coherent can be followed from every object to those it    *)
(* names and back, and a payload that lacks nothing gives a coherent one.    *)
THEOREM CoherenceHolds == SnapSpec => []CoherenceIsHonest
<1>1. SnapInv => CoherenceIsHonest
    <2> SUFFICES ASSUME SnapInv PROVE CoherenceIsHonest OBVIOUS
    <2>1. snapshot.ok => Honest(snapshot) /\ (snapshot.unresolved = {} <=> Resolved(snapshot))
        BY CapturedHonest, Captured DEF SnapInv
    <2>2. ASSUME NEW s \in {snapshot, restored}, s.ok, s.unresolved = {} PROVE Navigable(s)
        <3>1. Honest(s) BY <2>1, <2>2 DEF SnapInv
        <3> QED BY <2>2, <3>1, CoherentIsNavigable DEF Honest
    <2>3. ASSUME snapshot.ok, Complete(payload) PROVE snapshot.unresolved = {}
        <3>1. Resolved(snapshot) BY <2>3, CompleteIsResolved DEF SnapInv
        <3> QED BY <2>1, <2>3, <3>1
    <2> QED BY <2>2, <2>3 DEF CoherenceIsHonest
<1> QED BY <1>1, SnapInvariant, PTL

(* A profile or a route of a snapshot is active if and only if the device's  *)
(* Profile or Route parameter has it, however often and in whatever order    *)
(* the parameters list it, and a resolved default is a node of the name that *)
(* the metadata gives last.                                                  *)
THEOREM SelectionHolds == SnapSpec => []SelectionIsReported
<1>1. SnapInv => SelectionIsReported
    <2> SUFFICES ASSUME SnapInv, snapshot.ok PROVE SelectionIsReported BY DEF SelectionIsReported
    <2> DEFINE profiles == Merged(parameters(payload), "profile")
               routes == Merged(parameters(payload), "route")
    <2>1. payload \in Payloads /\ snapshot = runtime_snapshot_from_payload(payload) BY DEF SnapInv
    <2>2. /\ snapshot.profiles = profiles /\ snapshot.routes = routes
          /\ snapshot.defaults = defaults(payload) /\ unique(payload.nodes)
        BY <2>1, Captured
    <2>3. ASSUME NEW k \in DOMAIN snapshot.profiles
          PROVE  snapshot.profiles[k].active <=> Reported("Profile", k)
        <3>1. k \in DOMAIN profiles BY <2>2
        <3>2. profiles[k].active <=> Brought(payload, SelectedName("profile"), k)
            BY <2>1, <3>1, CardsOfPayload
        <3>3. SelectedName("profile") = "Profile" BY DEF SelectedName
        <3>4. Brought(payload, "Profile", k) <=> Reported("Profile", k) BY DEF Brought, Reported
        <3> HIDE DEF profiles
        <3> QED BY <2>2, <3>2, <3>3, <3>4
    <2>4. ASSUME NEW k \in DOMAIN snapshot.routes
          PROVE  snapshot.routes[k].active <=> Reported("Route", k)
        <3>1. k \in DOMAIN routes BY <2>2
        <3>2. routes[k].active <=> Brought(payload, SelectedName("route"), k)
            BY <2>1, <3>1, CardsOfPayload
        <3>3. SelectedName("route") = "Route" BY DEF SelectedName
        <3>4. Brought(payload, "Route", k) <=> Reported("Route", k) BY DEF Brought, Reported
        <3> HIDE DEF routes
        <3> QED BY <2>2, <3>2, <3>3, <3>4
    <2> HIDE DEF profiles, routes
    <2>5. ASSUME NEW t \in Targets, NEW i \in 1..Len(payload.nodes),
                 snapshot.defaults.target[t] # None,
                 snapshot.defaults.target[t].resolved = payload.nodes[i].id
          PROVE  \E j \in 1..Len(payload.defaults) :
                   /\ payload.defaults[j].key = <<"default", t>>
                   /\ payload.defaults[j].value = payload.nodes[i].name
                   /\ \A h \in (j + 1)..Len(payload.defaults) :
                         payload.defaults[h].key = <<"default", t>> =>
                            payload.defaults[h].value \in Nameless \cup {payload.nodes[i].name}
        <3> DEFINE key == <<"default", t>>
                   called == default_name(payload, key)
                   names == {x \in 1..Len(payload.defaults) :
                                payload.defaults[x].key = key /\ payload.defaults[x].value \notin Nameless}
                   last == Max(names)
        <3>1. snapshot.defaults.target[t] = target(payload, t) BY <2>2 DEF defaults
        <3>2. target(payload, t).resolved = node_named(payload, called) BY <2>5, <3>1 DEF target
        <3>3. payload.nodes[i].id # None BY <2>1, PayloadAssumption
        <3>4. PICK n \in 1..Len(payload.nodes) :
                 payload.nodes[i].id = payload.nodes[n].id /\ payload.nodes[n].name = called
            BY <2>1, <2>5, <3>1, <3>2, <3>3, TargetIsNode
        <3>5. payload.nodes[i].name = called BY <2>2, <3>4 DEF unique
        <3>6. called # None BY <2>1, <2>5, <3>1, <3>2, <3>3, TargetIsNode
        <3>7. names # {} /\ called = payload.defaults[last].value BY <3>6 DEF default_name
        <3>8. last \in names /\ \A x \in names : x <= last
            <4>1. names \in SUBSET (1..Len(payload.defaults)) /\ Len(payload.defaults) \in Nat
                BY <2>1, PayloadAssumption
            <4> HIDE DEF names
            <4> QED BY <3>7, <4>1, FirstAndLast
        <3> HIDE DEF last
        <3>9. last \in 1..Len(payload.defaults) /\ payload.defaults[last].key = key BY <3>8
        <3>10. ASSUME NEW h \in (last + 1)..Len(payload.defaults), payload.defaults[h].key = key
               PROVE  payload.defaults[h].value \in Nameless
            <4>1. h \in 1..Len(payload.defaults) /\ h > last BY <3>9
            <4>2. ~(h <= last) BY <3>9, <4>1
            <4>3. h \notin names BY <3>8, <4>2
            <4> QED BY <3>10, <4>1, <4>3
        <3> HIDE DEF called
        <3> QED BY <3>5, <3>7, <3>9, <3>10
    <2> QED BY <2>3, <2>4, <2>5 DEF SelectionIsReported
<1> QED BY <1>1, SnapInvariant, PTL
=============================================================================
