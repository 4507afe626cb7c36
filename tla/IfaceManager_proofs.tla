------------------------- MODULE IfaceManager_proofs -------------------------
(* The walk of ProcessEvt over the registrations, and what the events lead    *)
(* to, for any interfaces and any number of events in the queues.             *)
EXTENDS IfaceManager, LoopInduction, FiniteSetTheorems, SequenceTheorems, TLAPS

-----------------------------------------------------------------------------
(* The list of registrations. *)

NodeSet == [obj : Ifaces \cup {Mgr}, ev : EvNames]

\* w is list without the nodes of obj, as far as the first n nodes go: its nodes
\* are nodes of the list in the list's order, and no other node is lost.
Filtered(w, list, n, obj) ==
    /\ w \in Seq(NodeSet)
    /\ \A k \in 1 .. Len(w) : \E a \in 1 .. n : w[k] = list[a] /\ list[a].obj # obj
    /\ \A k, m \in 1 .. Len(w) : k < m =>
         \E a, b \in 1 .. n : a < b /\ w[k] = list[a] /\ w[m] = list[b]
    /\ \A a \in 1 .. n : list[a].obj # obj => \E k \in 1 .. Len(w) : w[k] = list[a]

\* The loop of deregistr.
LEMMA WithoutFacts ==
    ASSUME NEW list \in Seq(NodeSet), NEW obj
    PROVE  Filtered(Without(list, obj), list, Len(list), obj)
<1> DEFINE N == Len(list)
           S == Seq(NodeSet)
           R(n, x) == IF list[n].obj = obj THEN x ELSE Append(x, list[n])
           F(f) == [n \in 0 .. N |-> IF n = 0 THEN <<>> ELSE R(n, f[n - 1])]
           upTo == CHOOSE f : f = F(f)
           Inv == [n \in 0 .. N |-> {w \in S : Filtered(w, list, n, obj)}]
<1>0. N \in Nat /\ \A n \in 1 .. N : list[n] \in NodeSet
  OBVIOUS
<1>1. \E f : f = F(f)
  <2> DEFINE round == [n \in 1 .. N |-> [x \in S |-> R(n, x)]]
  <2>1. ASSUME NEW n \in 1 .. N, NEW x \in S PROVE R(n, x) \in S
    BY <1>0
  <2>2. <<>> \in S
    OBVIOUS
  <2> HIDE DEF S, N, R
  <2>3. round \in [1 .. N -> [S -> S]]
    BY <2>1
  <2>4. PICK g : IsLoop(g, N, S, <<>>, round)
    <3> HIDE DEF round
    <3> QED
      BY <1>0, <2>2, <2>3, LoopExists
  <2>5. g \in [0 .. N -> S] /\ g[0] = <<>> /\ \A n \in 1 .. N : g[n] = round[n][g[n - 1]]
    BY <2>4 DEF IsLoop
  <2>6. ASSUME NEW n \in 1 .. N PROVE g[n] = R(n, g[n - 1])
    <3>1. g[n - 1] \in S
      BY <1>0, <2>5
    <3> QED
      BY <2>5, <3>1
  <2>7. g = F(g)
    BY <1>0, <2>5, <2>6
  <2> QED
    BY <2>7
<1>2. upTo = F(upTo)
  BY <1>1
<1> HIDE DEF upTo
<1>3. upTo[0] = <<>>
  <2> HIDE DEF R
  <2> QED
    BY <1>0, <1>2
<1>4. ASSUME NEW n \in 1 .. N
      PROVE  upTo[n] = IF list[n].obj = obj THEN upTo[n - 1] ELSE Append(upTo[n - 1], list[n])
  <2> HIDE DEF R
  <2>1. upTo[n] = R(n, upTo[n - 1])
    BY <1>0, <1>2
  <2> QED
    BY <2>1 DEF R
<1> HIDE DEF F, N
<1>5. upTo[0] \in Inv[0]
  BY <1>0, <1>3 DEF Filtered
<1>6. ASSUME NEW n \in 1 .. N, upTo[n - 1] \in Inv[n - 1]
      PROVE  upTo[n] \in Inv[n]
  <2> DEFINE x == upTo[n - 1]
  <2>1. x \in S /\ Filtered(x, list, n - 1, obj) /\ n - 1 \in Nat /\ n \in Nat /\ list[n] \in NodeSet
    BY <1>0, <1>6
  <2> HIDE DEF x, S
  <2>a. \A k \in 1 .. Len(x) : \E a \in 1 .. n - 1 : x[k] = list[a] /\ list[a].obj # obj
    BY <2>1 DEF Filtered
  <2>b. \A k, m \in 1 .. Len(x) : k < m =>
          \E a, b \in 1 .. n - 1 : a < b /\ x[k] = list[a] /\ x[m] = list[b]
    BY <2>1 DEF Filtered
  <2>c. \A a \in 1 .. n - 1 : list[a].obj # obj => \E k \in 1 .. Len(x) : x[k] = list[a]
    BY <2>1 DEF Filtered
  <2>d. 1 .. n - 1 \subseteq 1 .. n /\ 1 .. n = (1 .. n - 1) \cup {n} /\ x \in Seq(NodeSet)
    BY <2>1 DEF S
  <2>2. CASE list[n].obj = obj
    <3>1. Filtered(x, list, n, obj)
      <4>1. \A k \in 1 .. Len(x) : \E a \in 1 .. n : x[k] = list[a] /\ list[a].obj # obj
        BY <2>a, <2>d
      <4>2. \A k, m \in 1 .. Len(x) : k < m =>
              \E a, b \in 1 .. n : a < b /\ x[k] = list[a] /\ x[m] = list[b]
        BY <2>b, <2>d, ZenonT(60)
      <4>3. \A a \in 1 .. n : list[a].obj # obj => \E k \in 1 .. Len(x) : x[k] = list[a]
        BY <2>c, <2>d, <2>2
      <4> QED
        BY <2>d, <4>1, <4>2, <4>3 DEF Filtered
    <3>2. upTo[n] = x
      BY <1>4, <2>2 DEF x
    <3> QED
      BY <1>0, <2>1, <3>1, <3>2
  <2>3. CASE list[n].obj # obj
    <3> DEFINE w == Append(x, list[n])
    <3>1. w \in S /\ Len(w) = Len(x) + 1 /\ w[Len(x) + 1] = list[n]
          /\ Len(x) \in Nat /\ \A k \in 1 .. Len(x) : w[k] = x[k]
      BY <2>1 DEF S
    <3> HIDE DEF w
    <3>2. \A k \in 1 .. Len(w) : \E a \in 1 .. n : w[k] = list[a] /\ list[a].obj # obj
      <4> TAKE k \in 1 .. Len(w)
      <4>1. CASE k = Len(x) + 1
        BY <2>3, <3>1, <4>1
      <4>2. CASE k \in 1 .. Len(x)
        BY <2>a, <2>d, <3>1, <4>2
      <4> QED
        BY <3>1, <4>1, <4>2
    <3>3. ASSUME NEW k \in 1 .. Len(w), NEW m \in 1 .. Len(w), k < m
          PROVE  \E a, b \in 1 .. n : a < b /\ w[k] = list[a] /\ w[m] = list[b]
      <4>1. k \in 1 .. Len(x)
        BY <3>1, <3>3
      <4>2. CASE m = Len(x) + 1
        <5>1. PICK a \in 1 .. n - 1 : w[k] = list[a]
          BY <2>a, <3>1, <4>1
        <5> QED
          BY <2>1, <3>1, <4>2, <5>1, SMTT(60)
      <4>3. CASE m \in 1 .. Len(x)
        <5>1. PICK a \in 1 .. n - 1, b \in 1 .. n - 1 : a < b /\ x[k] = list[a] /\ x[m] = list[b]
          BY <2>b, <3>3, <4>1, <4>3
        <5>2. w[k] = x[k] /\ w[m] = x[m] /\ a \in 1 .. n /\ b \in 1 .. n
          BY <2>d, <3>1, <4>1, <4>3
        <5> QED
          BY <5>1, <5>2
      <4> QED
        BY <3>1, <4>2, <4>3
    <3>4. \A a \in 1 .. n : list[a].obj # obj => \E k \in 1 .. Len(w) : w[k] = list[a]
      <4> SUFFICES ASSUME NEW a \in 1 .. n, list[a].obj # obj
                   PROVE  \E k \in 1 .. Len(w) : w[k] = list[a]
        OBVIOUS
      <4>1. CASE a = n
        <5>1. Len(x) + 1 \in 1 .. Len(w)
          BY <3>1
        <5> QED
          BY <3>1, <4>1, <5>1
      <4>2. CASE a \in 1 .. n - 1
        <5>1. PICK k \in 1 .. Len(x) : x[k] = list[a]
          BY <2>c, <4>2
        <5> QED
          BY <3>1, <5>1
      <4> QED
        BY <2>1, <4>1, <4>2
    <3>5. Filtered(w, list, n, obj)
      BY <3>1, <3>2, <3>3, <3>4 DEF Filtered, S
    <3>6. upTo[n] = w
      BY <1>4, <2>3 DEF x, w
    <3> QED
      BY <1>0, <3>1, <3>5, <3>6
  <2> QED
    BY <2>2, <2>3
<1>7. upTo[N] \in Inv[N]
  <2> HIDE DEF Inv
  <2> QED
    BY <1>0, <1>5, <1>6, LoopInvariant
<1>8. Without(list, obj) = upTo[N]
  BY DEF Without, upTo, F, R, N
<1> QED
  BY <1>0, <1>7, <1>8 DEF N

-----------------------------------------------------------------------------
(* The inductive invariant. *)

Cats == {"LAN", "WLAN", "WAN", "UNKNOWN"}

\* The kernel's side and the internal queue.
LinksOK ==
    /\ link \in [Ifaces -> {"down", "no carrier", "running"}]
    /\ mode \in [Wlan -> {"off", "ap", "sta"}]

DelSelf == [ev : {"LAN_DELETE_SELF"}, if_index : Ifaces]

QueueOK == intq \in Seq(DelSelf)

\* The event whose node is the last that an object of the kind registers.
LastEvent(kind) ==
    IF kind \in {"LAN", "WLAN"} THEN "LAN_DELETE_SELF"
    ELSE IF kind = "WLAN_WAN" THEN "WLAN_LINK_DOWN" ELSE "LINK_DOWN"

\* An interface without an object has no node, and no node of an object comes
\* after the one for its last event.
NodesOrdered ==
    \A i \in Ifaces :
        /\ inst[i] = NULL => \A k \in 1 .. Len(regs) : regs[k].obj # i
        /\ \A k, m \in 1 .. Len(regs) :
             k < m /\ regs[k].obj = i /\ regs[m].obj = i => regs[k].ev # LastEvent(inst[i].kind)

\* The manager stays registered.
MgrListens == \E k \in 1 .. Len(regs) : regs[k].obj = Mgr

\* The class of an active object agrees with the category of its interface.
CatOK ==
    /\ cat \in [Ifaces -> Cats]
    /\ \A i \in Ifaces : inst[i] # NULL /\ inst[i].is_active =>
         cat[i] = IF inst[i].kind \in {"LAN", "WLAN"} THEN inst[i].kind ELSE "WAN"

AccessPoints == {i \in Ifaces : inst[i] # NULL /\ inst[i].kind = "WLAN"}

\* The objects and their nodes.
ObjectsOK ==
    /\ regs \in Seq(NodeSet) /\ inst \in [Ifaces -> Objects \cup {NULL}]
    /\ NodesOrdered /\ MgrListens
    /\ num_wlan_ap_iface = Cardinality(AccessPoints)

IInv == LinksOK /\ QueueOK /\ ObjectsOK /\ CatOK /\ NoStaleNode

-----------------------------------------------------------------------------
(* Lemmas. *)

\* last is the last of the events and comes once.
EndsWith(evs, last) ==
    /\ evs \in Seq(EvNames)
    /\ \A p \in 1 .. Len(evs) : p < Len(evs) => evs[p] # last

LEMMA ThreeEvents ==
    ASSUME NEW a \in EvNames, NEW b \in EvNames, NEW c \in EvNames, a # c, b # c
    PROVE  EndsWith(<<a, b, c>>, c)
<1> DEFINE s == <<a, b, c>>
<1>1. s \in Seq(EvNames) /\ Len(s) = 3 /\ s[1] = a /\ s[2] = b
  OBVIOUS
<1> HIDE DEF s
<1>2. \A p \in 1 .. 3 : p < 3 => p = 1 \/ p = 2
  OBVIOUS
<1>3. EndsWith(s, c)
  BY <1>1, <1>2 DEF EndsWith
<1> QED
  BY <1>3 DEF s

LEMMA FourEvents ==
    ASSUME NEW a \in EvNames, NEW b \in EvNames, NEW c \in EvNames, NEW d \in EvNames,
           a # d, b # d, c # d
    PROVE  EndsWith(<<a, b, c, d>>, d)
<1> DEFINE s == <<a, b, c, d>>
<1>1. s \in Seq(EvNames) /\ Len(s) = 4 /\ s[1] = a /\ s[2] = b /\ s[3] = c
  OBVIOUS
<1> HIDE DEF s
<1>2. \A p \in 1 .. 4 : p < 4 => p = 1 \/ p = 2 \/ p = 3
  OBVIOUS
<1>3. EndsWith(s, d)
  BY <1>1, <1>2 DEF EndsWith
<1> QED
  BY <1>3 DEF s

\* The event an object deletes itself at is the last it registers for.
LEMMA EventsFacts ==
    ASSUME NEW kind \in Kinds
    PROVE  EndsWith(Events(kind), LastEvent(kind))
<1>0. /\ "ADDR_ADD" \in EvNames /\ "XLAT_CONNECT" \in EvNames /\ "LINK_DOWN" \in EvNames
      /\ "WLAN_LINK_DOWN" \in EvNames /\ "STATS_UPDATE" \in EvNames
      /\ "LAN_DELETE_SELF" \in EvNames
  BY DEF EvNames
<1>1. CASE kind = "LAN"
  <2>1. LastEvent(kind) = "LAN_DELETE_SELF"
    BY <1>1 DEF LastEvent
  <2>2. Events(kind) = <<"ADDR_ADD", "LINK_DOWN", "LAN_DELETE_SELF">>
    BY <1>1, Zenon DEF Events
  <2> QED
    BY <1>0, <2>1, <2>2, ThreeEvents
<1>2. CASE kind = "WLAN"
  <2>1. LastEvent(kind) = "LAN_DELETE_SELF" /\ kind # "LAN"
    BY <1>2 DEF LastEvent
  <2>2. Events(kind) = <<"ADDR_ADD", "WLAN_LINK_DOWN", "STATS_UPDATE", "LAN_DELETE_SELF">>
    BY <1>2, <2>1, Zenon DEF Events
  <2> QED
    BY <1>0, <2>1, <2>2, FourEvents
<1>3. CASE kind = "WLAN_WAN"
  <2>1. LastEvent(kind) = "WLAN_LINK_DOWN" /\ kind # "LAN" /\ kind # "WLAN"
    BY <1>3 DEF LastEvent
  <2>2. Events(kind) = <<"ADDR_ADD", "XLAT_CONNECT", "WLAN_LINK_DOWN">>
    BY <1>3, <2>1, Zenon DEF Events
  <2> QED
    BY <1>0, <2>1, <2>2, ThreeEvents
<1>4. CASE kind \in {"Q6_WAN", "ECM_WAN"}
  <2>1. LastEvent(kind) = "LINK_DOWN" /\ kind # "LAN" /\ kind # "WLAN" /\ kind # "WLAN_WAN"
    BY <1>4 DEF LastEvent
  <2>2. Events(kind) = <<"ADDR_ADD", "XLAT_CONNECT", "LINK_DOWN">>
    BY <2>1, Zenon DEF Events
  <2> QED
    BY <1>0, <2>1, <2>2, ThreeEvents
<1> QED
  BY <1>1, <1>2, <1>3, <1>4 DEF Kinds

LEMMA NodesType ==
    ASSUME NEW obj \in Ifaces \cup {Mgr}, NEW evs \in Seq(EvNames)
    PROVE  Nodes(obj, evs) \in Seq(NodeSet)
BY DEF Nodes, NodeSet

\* What registr appends.
LEMMA NodesFacts ==
    ASSUME NEW list \in Seq(NodeSet), NEW obj \in Ifaces \cup {Mgr}, NEW evs \in Seq(EvNames)
    PROVE  LET y == list \o Nodes(obj, evs) IN
             /\ y \in Seq(NodeSet) /\ Len(y) = Len(list) + Len(evs)
             /\ \A k \in 1 .. Len(list) : y[k] = list[k]
             /\ \A k \in 1 .. Len(evs) : y[Len(list) + k] = [obj |-> obj, ev |-> evs[k]]
<1>1. Nodes(obj, evs) \in Seq(NodeSet)
  BY NodesType
<1>2. Len(Nodes(obj, evs)) = Len(evs)
  BY DEF Nodes
<1>3. \A k \in 1 .. Len(evs) : Nodes(obj, evs)[k] = [obj |-> obj, ev |-> evs[k]]
  BY DEF Nodes
<1> DEFINE b == Nodes(obj, evs)
<1> HIDE DEF b
<1>4. b \in Seq(NodeSet) /\ Len(b) = Len(evs) /\ Len(b) \in Nat /\ Len(list) \in Nat
  BY <1>1, <1>2 DEF b
<1>5. /\ list \o b \in Seq(NodeSet) /\ Len(list \o b) = Len(list) + Len(b)
      /\ \A k \in 1 .. Len(list) : (list \o b)[k] = list[k]
      /\ \A k \in 1 .. Len(b) : (list \o b)[Len(list) + k] = b[k]
  BY <1>4
<1> QED
  BY <1>3, <1>4, <1>5 DEF b

\* A node is in the list.
Has(list, n) == \E k \in 1 .. Len(list) : list[k] = n

LEMMA RangeHas ==
    ASSUME NEW list \in Seq(NodeSet), NEW n
    PROVE  n \in Range(list) <=> Has(list, n)
BY DEF Range, Has

\* Where the walk stands when an object is called.
LEMMA CallFacts ==
    ASSUME regs \in Seq(NodeSet), NEW obj, Call(obj)
    PROVE  \E k \in 1 .. Len(regs) :
             /\ regs[k].obj = obj /\ regs[k].ev = cur.ev
             /\ cursor' = NULL \/ (k + 1 \in 1 .. Len(regs) /\ cursor' = regs[k + 1])
<1>1. Matches \in SUBSET Nat /\ Matches # {}
  BY DEF Matches, Call
<1>2. \E k \in Matches : \A m \in Matches : k <= m
  BY <1>1, LeastNat
<1>3. Reached \in Matches
  BY <1>2 DEF Reached
<1>4. Reached \in 1 .. Len(regs) /\ regs[Reached].ev = cur.ev
  BY <1>3 DEF Matches
<1>5. regs[Reached].obj = obj /\ cursor' = Following(Reached)
  BY DEF Call
<1>6. cursor' = NULL \/ (Reached + 1 \in 1 .. Len(regs) /\ cursor' = regs[Reached + 1])
  BY <1>4, <1>5 DEF Following
<1> QED
  BY <1>4, <1>5, <1>6

\* The nodes that remain when an object is taken out.
TakenOut(w, list, i) ==
    /\ w \in Seq(NodeSet)
    /\ \A k \in 1 .. Len(w) : Has(list, w[k]) /\ w[k].obj # i
    /\ \A k, m \in 1 .. Len(w) : k < m =>
         \E a, b \in 1 .. Len(list) : a < b /\ w[k] = list[a] /\ w[m] = list[b]
    /\ \A a \in 1 .. Len(list) : list[a].obj # i => Has(w, list[a])

LEMMA WithoutHas ==
    ASSUME NEW list \in Seq(NodeSet), NEW i
    PROVE  TakenOut(Without(list, i), list, i)
<1> DEFINE w == Without(list, i)
<1>1. Filtered(w, list, Len(list), i)
  BY WithoutFacts
<1> HIDE DEF w
<1>2. w \in Seq(NodeSet)
  BY <1>1 DEF Filtered
<1>3. \A k \in 1 .. Len(w) : Has(list, w[k]) /\ w[k].obj # i
  BY <1>1 DEF Filtered, Has
<1>4. \A k, m \in 1 .. Len(w) : k < m =>
        \E a, b \in 1 .. Len(list) : a < b /\ w[k] = list[a] /\ w[m] = list[b]
  BY <1>1 DEF Filtered
<1>5. \A a \in 1 .. Len(list) : list[a].obj # i => Has(w, list[a])
  BY <1>1 DEF Filtered, Has
<1> QED
  BY <1>2, <1>3, <1>4, <1>5 DEF w, TakenOut

-----------------------------------------------------------------------------
(* The steps. *)

LEMMA ConstFacts ==
    /\ Mgr \notin Ifaces /\ NULL \notin Objects /\ IsFiniteSet(Ifaces) /\ Wlan \subseteq Ifaces
BY IfaceAssumption DEF Ifaces

\* The access points are finitely many.
LEMMA AccessPointsFinite == IsFiniteSet(AccessPoints) /\ Cardinality(AccessPoints) \in Nat
<1>1. AccessPoints \in SUBSET Ifaces
  BY DEF AccessPoints
<1> QED
  BY <1>1, ConstFacts, FS_Subset, FS_CardinalityType

\* The manager creates an object, or nothing happens.
LEMMA CreateOK ==
    ASSUME ObjectsOK, NEW i \in Ifaces, NEW c \in Cats,
           NEW wan_type \in {"Q6_WAN", "ECM_WAN", "WLAN_WAN"},
           create_iface_instance(i, c, wan_type)
    PROVE  /\ ObjectsOK'
           /\ \A n \in NodeSet : Has(regs, n) => Has(regs', n)
           /\ \/ inst' = inst
              \/ \E x \in Objects :
                   /\ inst' = [inst EXCEPT ![i] = x] /\ c # "UNKNOWN"
                   /\ c = IF x.kind \in {"LAN", "WLAN"} THEN x.kind ELSE "WAN"
<1>1. CASE inst[i] # NULL \/ c = "UNKNOWN"
  <2>1. inst' = inst /\ regs' = regs /\ num_wlan_ap_iface' = num_wlan_ap_iface
    BY <1>1 DEF create_iface_instance
  <2> QED
    BY <2>1 DEF ObjectsOK, NodesOrdered, MgrListens, AccessPoints
<1>2. CASE inst[i] = NULL /\ c # "UNKNOWN"
  <2> DEFINE kind == IF c = "WAN" THEN wan_type ELSE c
             x == [kind |-> kind, is_active |-> TRUE,
                   wlan_ap_index |-> IF kind = "WLAN" THEN num_wlan_ap_iface ELSE 0]
             evs == Events(kind)
  <2>1. /\ inst' = [inst EXCEPT ![i] = x] /\ regs' = regs \o Nodes(i, evs)
        /\ num_wlan_ap_iface' = num_wlan_ap_iface + (IF kind = "WLAN" THEN 1 ELSE 0)
    BY <1>2 DEF create_iface_instance, registr
  <2>2. kind \in Kinds /\ c = IF kind \in {"LAN", "WLAN"} THEN kind ELSE "WAN"
    BY <1>2 DEF Kinds, Cats
  <2>3. num_wlan_ap_iface \in Nat
    BY AccessPointsFinite DEF ObjectsOK
  <2> HIDE DEF kind
  <2>4. x \in Objects /\ x.kind = kind
    BY <2>2, <2>3 DEF Objects
  <2>5. EndsWith(evs, LastEvent(kind))
    BY <2>2, EventsFacts
  <2> HIDE DEF x, evs
  <2>6. regs \in Seq(NodeSet) /\ evs \in Seq(EvNames) /\ Len(regs) \in Nat /\ Len(evs) \in Nat
    BY <2>5 DEF ObjectsOK, EndsWith
  <2>7. /\ regs' \in Seq(NodeSet) /\ Len(regs') = Len(regs) + Len(evs)
        /\ \A k \in 1 .. Len(regs) : regs'[k] = regs[k]
        /\ \A k \in 1 .. Len(evs) : regs'[Len(regs) + k] = [obj |-> i, ev |-> evs[k]]
    BY <2>1, <2>6, NodesFacts
  <2>8. inst \in [Ifaces -> Objects \cup {NULL}] /\ NodesOrdered /\ MgrListens
    BY DEF ObjectsOK
  <2>9. inst' \in [Ifaces -> Objects \cup {NULL}] /\ inst'[i] = x /\ x # NULL
        /\ \A j \in Ifaces : j # i => inst'[j] = inst[j]
    BY <2>1, <2>4, <2>8, ConstFacts
  <2>10. \A k \in 1 .. Len(regs') :
           \/ k \in 1 .. Len(regs) /\ regs'[k] = regs[k]
           \/ \E p \in 1 .. Len(evs) : k = Len(regs) + p /\ regs'[k] = [obj |-> i, ev |-> evs[p]]
    <3> TAKE k \in 1 .. Len(regs')
    <3>1. CASE k \in 1 .. Len(regs)
      BY <3>1, <2>7
    <3>2. CASE k \notin 1 .. Len(regs)
      <4>1. k - Len(regs) \in 1 .. Len(evs) /\ k = Len(regs) + (k - Len(regs))
        BY <3>2, <2>6, <2>7
      <4> QED
        BY <4>1, <2>7
    <3> QED
      BY <3>1, <3>2
  <2>11. \A n \in NodeSet : Has(regs, n) => Has(regs', n)
    <3>1. \A k \in 1 .. Len(regs) : k \in 1 .. Len(regs')
      BY <2>6, <2>7
    <3> QED
      BY <3>1, <2>7 DEF Has
  <2>12. MgrListens'
    <3>1. PICK k \in 1 .. Len(regs) : regs[k].obj = Mgr
      BY <2>8 DEF MgrListens
    <3>2. k \in 1 .. Len(regs') /\ regs'[k].obj = Mgr
      BY <3>1, <2>6, <2>7
    <3> QED
      BY <3>2 DEF MgrListens
  <2>13. ASSUME NEW j \in Ifaces
         PROVE  /\ inst'[j] = NULL => \A k \in 1 .. Len(regs') : regs'[k].obj # j
                /\ \A k, m \in 1 .. Len(regs') :
                     k < m /\ regs'[k].obj = j /\ regs'[m].obj = j =>
                       regs'[k].ev # LastEvent(inst'[j].kind)
    <3>1. CASE j # i
      <4>1. ASSUME NEW k \in 1 .. Len(regs'), regs'[k].obj = j
            PROVE  k \in 1 .. Len(regs) /\ regs'[k] = regs[k]
        <5>1. ASSUME NEW p \in 1 .. Len(evs), regs'[k] = [obj |-> i, ev |-> evs[p]] PROVE FALSE
          <6>1. regs'[k].obj = i
            BY <5>1
          <6> QED
            BY <3>1, <4>1, <6>1
        <5> QED
          BY <2>10, <5>1
      <4>2. inst'[j] = inst[j]
        BY <2>9, <3>1
      <4> QED
        BY <2>8, <4>1, <4>2 DEF NodesOrdered
    <3>2. CASE j = i
      <4>1. \A k \in 1 .. Len(regs) : regs[k].obj # i
        BY <1>2, <2>8 DEF NodesOrdered
      <4>2. ASSUME NEW k \in 1 .. Len(regs'), NEW m \in 1 .. Len(regs'), k < m,
                   regs'[k].obj = i, regs'[m].obj = i
            PROVE  regs'[k].ev # LastEvent(kind)
        <5>1. PICK p \in 1 .. Len(evs) : k = Len(regs) + p /\ regs'[k] = [obj |-> i, ev |-> evs[p]]
          BY <2>10, <4>1, <4>2
        <5>2. p < Len(evs)
          BY <2>6, <2>7, <4>2, <5>1
        <5>3. regs'[k].ev = evs[p]
          BY <5>1
        <5> QED
          BY <2>5, <5>2, <5>3 DEF EndsWith
      <4>3. inst'[i] # NULL /\ inst'[i].kind = kind
        BY <2>4, <2>9
      <4> QED
        BY <3>2, <4>2, <4>3
    <3> QED
      BY <3>1, <3>2
  <2>14. NodesOrdered'
    BY <2>13 DEF NodesOrdered
  <2>15. num_wlan_ap_iface' = Cardinality(AccessPoints')
    <3>1. num_wlan_ap_iface = Cardinality(AccessPoints) /\ i \notin AccessPoints
      BY <1>2 DEF ObjectsOK, AccessPoints
    <3>2. CASE kind = "WLAN"
      <4>1. AccessPoints' = AccessPoints \cup {i}
        BY <2>4, <2>9, <3>2 DEF AccessPoints
      <4>2. Cardinality(AccessPoints \cup {i}) = Cardinality(AccessPoints) + 1
        BY <3>1, AccessPointsFinite, FS_AddElement
      <4> QED
        BY <2>1, <3>1, <3>2, <4>1, <4>2
    <3>3. CASE kind # "WLAN"
      <4>1. AccessPoints' = AccessPoints
        BY <1>2, <2>4, <2>9, <3>3 DEF AccessPoints
      <4> QED
        BY <2>1, <2>3, <3>1, <3>3, <4>1
    <3> QED
      BY <3>2, <3>3
  <2>16. ObjectsOK'
    BY <2>7, <2>9, <2>12, <2>14, <2>15 DEF ObjectsOK
  <2> QED
    BY <1>2, <2>1, <2>2, <2>4, <2>11, <2>16
<1> QED
  BY <1>1, <1>2

\* An object takes itself out of both lists, at its last event.
LEMMA DeleteOK ==
    ASSUME ObjectsOK, NEW i \in Ifaces, inst[i] # NULL, DeleteThis(i), Call(i),
           cur.ev = LastEvent(inst[i].kind),
           num_wlan_ap_iface' = num_wlan_ap_iface - (IF inst[i].kind = "WLAN" THEN 1 ELSE 0)
    PROVE  ObjectsOK' /\ (cursor' = NULL \/ Has(regs', cursor'))
           /\ inst'[i] = NULL /\ \A j \in Ifaces : j # i => inst'[j] = inst[j]
<1>1. regs \in Seq(NodeSet) /\ inst \in [Ifaces -> Objects \cup {NULL}] /\ NodesOrdered /\ MgrListens
  BY DEF ObjectsOK
<1>2. inst' = [inst EXCEPT ![i] = NULL] /\ regs' = Without(regs, i)
  BY DEF DeleteThis, deregistr
<1>3. /\ regs' \in Seq(NodeSet)
      /\ \A k \in 1 .. Len(regs') : Has(regs, regs'[k]) /\ regs'[k].obj # i
      /\ \A k, m \in 1 .. Len(regs') : k < m =>
           \E a, b \in 1 .. Len(regs) : a < b /\ regs'[k] = regs[a] /\ regs'[m] = regs[b]
      /\ \A a \in 1 .. Len(regs) : regs[a].obj # i => Has(regs', regs[a])
  <2>1. TakenOut(regs', regs, i)
    BY <1>1, <1>2, WithoutHas
  <2> QED
    BY <2>1 DEF TakenOut
<1>4. inst' \in [Ifaces -> Objects \cup {NULL}] /\ inst'[i] = NULL
      /\ \A j \in Ifaces : j # i => inst'[j] = inst[j]
  BY <1>1, <1>2
<1>5. MgrListens'
  <2>1. PICK a \in 1 .. Len(regs) : regs[a].obj = Mgr
    BY <1>1 DEF MgrListens
  <2>2. PICK k \in 1 .. Len(regs') : regs'[k] = regs[a]
    BY <1>3, <2>1, ConstFacts DEF Has
  <2> QED
    BY <2>1, <2>2 DEF MgrListens
<1>6. ASSUME NEW j \in Ifaces
      PROVE  /\ inst'[j] = NULL => \A k \in 1 .. Len(regs') : regs'[k].obj # j
             /\ \A k, m \in 1 .. Len(regs') :
                  k < m /\ regs'[k].obj = j /\ regs'[m].obj = j =>
                    regs'[k].ev # LastEvent(inst'[j].kind)
  <2>1. CASE j = i
    BY <1>3, <2>1
  <2>2. CASE j # i
    <3>1. inst'[j] = inst[j]
      BY <1>4, <2>2
    <3>2. ASSUME inst[j] = NULL, NEW k \in 1 .. Len(regs') PROVE regs'[k].obj # j
      <4>1. PICK a \in 1 .. Len(regs) : regs[a] = regs'[k]
        BY <1>3 DEF Has
      <4> QED
        BY <1>1, <3>2, <4>1 DEF NodesOrdered
    <3>3. ASSUME NEW k \in 1 .. Len(regs'), NEW m \in 1 .. Len(regs'), k < m,
                 regs'[k].obj = j, regs'[m].obj = j
          PROVE  regs'[k].ev # LastEvent(inst[j].kind)
      <4>1. PICK a \in 1 .. Len(regs), b \in 1 .. Len(regs) :
              a < b /\ regs'[k] = regs[a] /\ regs'[m] = regs[b]
        BY <1>3, <3>3
      <4> QED
        BY <1>1, <3>3, <4>1 DEF NodesOrdered
    <3> QED
      BY <3>1, <3>2, <3>3
  <2> QED
    BY <2>1, <2>2
<1>7. NodesOrdered'
  BY <1>6 DEF NodesOrdered
<1>8. num_wlan_ap_iface' = Cardinality(AccessPoints')
  <2>1. num_wlan_ap_iface = Cardinality(AccessPoints)
    BY DEF ObjectsOK
  <2>2. CASE inst[i].kind = "WLAN"
    <3>1. AccessPoints' = AccessPoints \ {i} /\ i \in AccessPoints
      BY <1>4, <2>2 DEF AccessPoints
    <3>2. Cardinality(AccessPoints \ {i}) = Cardinality(AccessPoints) - 1
      BY <3>1, AccessPointsFinite, FS_RemoveElement
    <3> QED
      BY <2>1, <2>2, <3>1, <3>2
  <2>3. CASE inst[i].kind # "WLAN"
    <3>1. AccessPoints' = AccessPoints
      BY <1>4, <2>3 DEF AccessPoints
    <3> QED
      BY <2>1, <2>3, <3>1, AccessPointsFinite
  <2> QED
    BY <2>2, <2>3
<1>9. cursor' = NULL \/ Has(regs', cursor')
  <2>1. PICK k \in 1 .. Len(regs) :
          /\ regs[k].obj = i /\ regs[k].ev = cur.ev
          /\ cursor' = NULL \/ (k + 1 \in 1 .. Len(regs) /\ cursor' = regs[k + 1])
    BY <1>1, CallFacts
  <2>2. CASE k + 1 \in 1 .. Len(regs) /\ cursor' = regs[k + 1]
    <3>1. k < k + 1
      OBVIOUS
    <3>2. regs[k + 1].obj # i
      BY <1>1, <2>1, <2>2, <3>1 DEF NodesOrdered
    <3> QED
      BY <1>3, <2>2, <3>2
  <2> QED
    BY <2>1, <2>2
<1> QED
  BY <1>3, <1>4, <1>5, <1>7, <1>8, <1>9 DEF ObjectsOK

\* The walk goes on when nothing is taken out.
LEMMA CallKeepsNodes ==
    ASSUME regs \in Seq(NodeSet), NEW obj, Call(obj), \A n \in NodeSet : Has(regs, n) => Has(regs', n)
    PROVE  cursor' = NULL \/ Has(regs', cursor')
<1>1. PICK k \in 1 .. Len(regs) :
        cursor' = NULL \/ (k + 1 \in 1 .. Len(regs) /\ cursor' = regs[k + 1])
  BY CallFacts
<1>2. ASSUME NEW m \in 1 .. Len(regs) PROVE regs[m] \in NodeSet /\ Has(regs, regs[m])
  BY DEF Has
<1> QED
  BY <1>1, <1>2
\* NoStaleNode, in terms of places.
LEMMA StaleFacts ==
    ASSUME regs \in Seq(NodeSet)
    PROVE  NoStaleNode <=> (cursor = NULL \/ Has(regs, cursor))
BY RangeHas DEF NoStaleNode

LEMMA StaleFactsNext ==
    ASSUME regs' \in Seq(NodeSet)
    PROVE  NoStaleNode' <=> (cursor' = NULL \/ Has(regs', cursor'))
BY RangeHas DEF NoStaleNode

\* The first state.
LEMMA InitInv == Init => IInv
<1> SUFFICES ASSUME Init PROVE IInv
  OBVIOUS
<1>1. LinksOK
  BY DEF Init, LinksOK
<1>2. QueueOK
  BY DEF Init, QueueOK
<1>3. regs \in Seq(NodeSet) /\ MgrListens /\ \A k \in 1 .. Len(regs) : regs[k].obj = Mgr
  <2>1. /\ MgrEvents \in Seq(EvNames) /\ Len(MgrEvents) = 4
    BY DEF MgrEvents, EvNames
  <2>2. regs = Nodes(Mgr, MgrEvents)
    BY DEF Init
  <2>3. Len(regs) = 4 /\ \A k \in 1 .. 4 : regs[k] = [obj |-> Mgr, ev |-> MgrEvents[k]]
    BY <2>1, <2>2 DEF Nodes
  <2>4. regs \in Seq(NodeSet)
    BY <2>1, <2>2, NodesType
  <2>5. \A k \in 1 .. 4 : regs[k].obj = Mgr
    BY <2>3
  <2>6. 1 \in 1 .. 4
    OBVIOUS
  <2> QED
    BY <2>3, <2>4, <2>5, <2>6 DEF MgrListens
<1>4. NodesOrdered
  BY <1>3, ConstFacts DEF NodesOrdered
<1>5. inst \in [Ifaces -> Objects \cup {NULL}] /\ \A i \in Ifaces : inst[i] = NULL
  BY DEF Init
<1>6. num_wlan_ap_iface = Cardinality(AccessPoints)
  <2>1. AccessPoints = {}
    BY <1>5 DEF AccessPoints
  <2> QED
    BY <2>1, FS_EmptySet DEF Init
<1>7. CatOK
  BY <1>5 DEF Init, CatOK, Cats
<1> QED
  BY <1>1, <1>2, <1>3, <1>4, <1>5, <1>6, <1>7 DEF IInv, ObjectsOK, NoStaleNode, Init

\* A callback of the manager.
LEMMA ManagerStep ==
    ASSUME IInv, NEW i \in Ifaces, Manager(i)
    PROVE  IInv'
<1>0. LinksOK /\ QueueOK /\ ObjectsOK /\ CatOK /\ regs \in Seq(NodeSet)
      /\ inst \in [Ifaces -> Objects \cup {NULL}] /\ cat \in [Ifaces -> Cats]
  BY DEF IInv, ObjectsOK, CatOK
<1>1. Call(Mgr) /\ intq' = intq
  BY DEF Manager, MgrLinkUp, MgrUsbLinkUp, MgrWlanLinkUp
<1>2. LinksOK' /\ QueueOK'
  BY <1>0, <1>1 DEF Call, kernelVars, LinksOK, QueueOK
<1>3. SUFFICES ASSUME TRUE
               PROVE  ObjectsOK' /\ CatOK' /\ \A n \in NodeSet : Has(regs, n) => Has(regs', n)
  <2>1. ASSUME ObjectsOK', \A n \in NodeSet : Has(regs, n) => Has(regs', n) PROVE NoStaleNode'
    <3>1. regs' \in Seq(NodeSet)
      BY <2>1 DEF ObjectsOK
    <3> QED
      BY <1>0, <1>1, <2>1, <3>1, CallKeepsNodes, StaleFactsNext
  <2> QED
    BY <1>2, <2>1 DEF IInv
<1>4. ASSUME inst' = inst, regs' = regs, num_wlan_ap_iface' = num_wlan_ap_iface, cat' = cat
      PROVE  ObjectsOK' /\ CatOK' /\ \A n \in NodeSet : Has(regs, n) => Has(regs', n)
  BY <1>0, <1>4 DEF ObjectsOK, NodesOrdered, MgrListens, AccessPoints, CatOK
<1>5. ASSUME NEW c \in Cats, NEW wan_type \in {"Q6_WAN", "ECM_WAN", "WLAN_WAN"},
             create_iface_instance(i, c, wan_type),
             cat' = [cat EXCEPT ![i] = c], cat[i] \in {c, "UNKNOWN"}
      PROVE  ObjectsOK' /\ CatOK' /\ \A n \in NodeSet : Has(regs, n) => Has(regs', n)
  <2>1. /\ ObjectsOK'
        /\ \A n \in NodeSet : Has(regs, n) => Has(regs', n)
        /\ \/ inst' = inst
           \/ \E x \in Objects :
                /\ inst' = [inst EXCEPT ![i] = x] /\ c # "UNKNOWN"
                /\ c = IF x.kind \in {"LAN", "WLAN"} THEN x.kind ELSE "WAN"
    BY <1>0, <1>5, CreateOK
  <2>2. cat' \in [Ifaces -> Cats] /\ cat'[i] = c /\ \A j \in Ifaces : j # i => cat'[j] = cat[j]
    BY <1>0, <1>5
  <2>3. ASSUME NEW j \in Ifaces, inst'[j] # NULL, inst'[j].is_active
        PROVE  cat'[j] = IF inst'[j].kind \in {"LAN", "WLAN"} THEN inst'[j].kind ELSE "WAN"
    <3>1. CASE inst' = inst
      <4>1. cat[j] = IF inst[j].kind \in {"LAN", "WLAN"} THEN inst[j].kind ELSE "WAN"
        BY <1>0, <2>3, <3>1 DEF CatOK
      <4>2. cat[j] # "UNKNOWN"
        BY <4>1
      <4>3. cat'[j] = cat[j]
        BY <1>5, <2>2, <4>2
      <4> QED
        BY <3>1, <4>1, <4>3
    <3>2. ASSUME NEW x \in Objects, inst' = [inst EXCEPT ![i] = x],
                 c = IF x.kind \in {"LAN", "WLAN"} THEN x.kind ELSE "WAN"
          PROVE  cat'[j] = IF inst'[j].kind \in {"LAN", "WLAN"} THEN inst'[j].kind ELSE "WAN"
      <4>1. CASE j = i
        <5>1. inst'[j] = x
          BY <1>0, <3>2, <4>1
        <5> QED
          BY <2>2, <3>2, <4>1, <5>1
      <4>2. CASE j # i
        <5>1. inst'[j] = inst[j] /\ cat'[j] = cat[j]
          BY <1>0, <2>2, <3>2, <4>2
        <5> QED
          BY <1>0, <2>3, <5>1 DEF CatOK
      <4> QED
        BY <4>1, <4>2
    <3> QED
      BY <2>1, <3>1, <3>2
  <2> QED
    BY <2>1, <2>2, <2>3 DEF CatOK
<1>6. CASE MgrLinkUp(i)
  <2>1. CASE cat[i] = "WAN"
    <3>1. create_iface_instance(i, "WAN", "Q6_WAN") /\ cat' = [cat EXCEPT ![i] = "WAN"]
          /\ "WAN" \in Cats
      BY <1>0, <1>6, <2>1 DEF MgrLinkUp, Cats
    <3> QED
      BY <1>5, <2>1, <3>1
  <2>2. CASE cat[i] # "WAN"
    BY <1>4, <1>6, <2>2 DEF MgrLinkUp
  <2> QED
    BY <2>1, <2>2
<1>7. CASE MgrUsbLinkUp(i)
  <2>1. PICK w \in {"Q6_WAN", "ECM_WAN"} : create_iface_instance(i, cat[i], w)
    BY <1>7 DEF MgrUsbLinkUp
  <2>2. cat' = [cat EXCEPT ![i] = cat[i]] /\ cat[i] \in Cats
    BY <1>0, <1>7 DEF MgrUsbLinkUp
  <2> QED
    BY <1>5, <2>1, <2>2
<1>8. ASSUME NEW ev, NEW c \in {"WLAN", "WAN"}, MgrWlanLinkUp(i, ev, c)
      PROVE  ObjectsOK' /\ CatOK' /\ \A n \in NodeSet : Has(regs, n) => Has(regs', n)
  <2>1. CASE cat[i] = "UNKNOWN"
    <3>1. create_iface_instance(i, c, "WLAN_WAN") /\ cat' = [cat EXCEPT ![i] = c] /\ c \in Cats
      BY <1>8, <2>1 DEF MgrWlanLinkUp, Cats
    <3> QED
      BY <1>5, <2>1, <3>1
  <2>2. CASE cat[i] # "UNKNOWN"
    BY <1>4, <1>8, <2>2 DEF MgrWlanLinkUp
  <2> QED
    BY <2>1, <2>2
<1> QED
  BY <1>6, <1>7, <1>8 DEF Manager
\* A callback of an object.
LEMMA ObjectStep ==
    ASSUME IInv, NEW i \in Ifaces, Object(i)
    PROVE  IInv'
<1>0. LinksOK /\ QueueOK /\ ObjectsOK /\ CatOK /\ regs \in Seq(NodeSet)
      /\ inst \in [Ifaces -> Objects \cup {NULL}] /\ cat \in [Ifaces -> Cats]
  BY DEF IInv, ObjectsOK, CatOK
<1>1. Call(i) /\ inst[i] # NULL /\ inst[i] \in Objects
  BY <1>0 DEF Object, Ignore, LanDown, WlanDown, LanDeleteSelf, WlanDeleteSelf, StaDown, WanDown,
              Handles
<1>2. LinksOK'
  BY <1>0, <1>1 DEF Call, kernelVars, LinksOK
<1>3. ASSUME regs' = regs PROVE regs' \in Seq(NodeSet) /\ NoStaleNode'
  <2>1. \A n \in NodeSet : Has(regs, n) => Has(regs', n)
    BY <1>3
  <2> QED
    BY <1>0, <1>1, <1>3, <2>1, CallKeepsNodes, StaleFactsNext
<1>4. CASE Ignore(i)
  <2>1. regs' = regs /\ inst' = inst /\ cat' = cat /\ num_wlan_ap_iface' = num_wlan_ap_iface
        /\ intq' = intq
    BY <1>4 DEF Ignore, objectVars
  <2>2. ObjectsOK' /\ CatOK' /\ QueueOK'
    BY <1>0, <2>1 DEF ObjectsOK, NodesOrdered, MgrListens, AccessPoints, CatOK, QueueOK
  <2> QED
    BY <1>2, <1>3, <2>1, <2>2 DEF IInv
<1>5. ASSUME handle_down_evt(i), cat' = cat \/ cat' = [cat EXCEPT ![i] = "UNKNOWN"] PROVE IInv'
  <2>1. /\ inst' = [inst EXCEPT ![i].is_active = FALSE] /\ regs' = regs
        /\ num_wlan_ap_iface' = num_wlan_ap_iface
        /\ intq' = Append(intq, [ev |-> "LAN_DELETE_SELF", if_index |-> i])
    BY <1>5 DEF handle_down_evt, post_del_self_evt, Evt
  <2>2. /\ inst' \in [Ifaces -> Objects \cup {NULL}]
        /\ inst'[i] # NULL /\ inst'[i].kind = inst[i].kind /\ ~inst'[i].is_active
        /\ \A j \in Ifaces : j # i => inst'[j] = inst[j]
    <3> DEFINE x == [inst[i] EXCEPT !.is_active = FALSE]
    <3>1. x \in Objects /\ x.kind = inst[i].kind /\ x.is_active = FALSE
      BY <1>1 DEF Objects
    <3>2. inst' = [inst EXCEPT ![i] = x]
      BY <2>1
    <3> HIDE DEF x
    <3> QED
      BY <1>0, <3>1, <3>2, ConstFacts
  <2>3. NodesOrdered' /\ MgrListens' /\ AccessPoints' = AccessPoints
    <3>1. \A j \in Ifaces : /\ inst'[j] = NULL <=> inst[j] = NULL
                             /\ inst'[j].kind = inst[j].kind
      BY <1>1, <2>2
    <3>2. NodesOrdered'
      BY <1>0, <2>1, <3>1 DEF ObjectsOK, NodesOrdered
    <3> QED
      BY <1>0, <2>1, <3>1, <3>2 DEF ObjectsOK, MgrListens, AccessPoints
  <2>4. ObjectsOK'
    BY <1>0, <1>3, <2>1, <2>2, <2>3 DEF ObjectsOK
  <2>5. CatOK'
    <3>1. cat' \in [Ifaces -> Cats] /\ \A j \in Ifaces : j # i => cat'[j] = cat[j]
      BY <1>0, <1>5 DEF Cats
    <3> QED
      BY <1>0, <2>2, <3>1 DEF CatOK
  <2>6. QueueOK'
    BY <1>0, <2>1 DEF QueueOK, DelSelf
  <2> QED
    BY <1>2, <1>3, <2>1, <2>4, <2>5, <2>6 DEF IInv
<1>6. ASSUME DeleteThis(i), cur.ev = LastEvent(inst[i].kind), intq' = intq,
             num_wlan_ap_iface' = num_wlan_ap_iface - (IF inst[i].kind = "WLAN" THEN 1 ELSE 0),
             cat' = cat \/ cat' = [cat EXCEPT ![i] = "UNKNOWN"]
      PROVE  IInv'
  <2>1. ObjectsOK' /\ (cursor' = NULL \/ Has(regs', cursor'))
        /\ inst'[i] = NULL /\ \A j \in Ifaces : j # i => inst'[j] = inst[j]
    BY <1>0, <1>1, <1>6, DeleteOK
  <2>2. NoStaleNode'
    <3>1. regs' \in Seq(NodeSet)
      BY <2>1 DEF ObjectsOK
    <3> QED
      BY <2>1, <3>1, StaleFactsNext
  <2>3. CatOK'
    <3>1. cat' \in [Ifaces -> Cats] /\ \A j \in Ifaces : j # i => cat'[j] = cat[j]
      BY <1>0, <1>6 DEF Cats
    <3> QED
      BY <1>0, <2>1, <3>1 DEF CatOK
  <2>4. QueueOK'
    BY <1>0, <1>6 DEF QueueOK
  <2> QED
    BY <1>2, <2>1, <2>2, <2>3, <2>4 DEF IInv
<1>7. num_wlan_ap_iface \in Nat
  BY <1>0, AccessPointsFinite DEF ObjectsOK
<1>8. CASE LanDown(i)
  BY <1>5, <1>8 DEF LanDown
<1>9. CASE WlanDown(i)
  BY <1>5, <1>9 DEF WlanDown
<1>10. CASE LanDeleteSelf(i)
  <2>1. inst[i].kind = "LAN" /\ cur.ev = "LAN_DELETE_SELF" /\ DeleteThis(i)
        /\ cat' = cat /\ intq' = intq /\ num_wlan_ap_iface' = num_wlan_ap_iface
    BY <1>10 DEF LanDeleteSelf, Handles
  <2>2. num_wlan_ap_iface' = num_wlan_ap_iface - (IF inst[i].kind = "WLAN" THEN 1 ELSE 0)
    BY <1>7, <2>1
  <2>3. LastEvent(inst[i].kind) = "LAN_DELETE_SELF"
    BY <2>1 DEF LastEvent
  <2> QED
    BY <1>6, <2>1, <2>2, <2>3
<1>11. CASE WlanDeleteSelf(i)
  <2>1. inst[i].kind = "WLAN" /\ cur.ev = "LAN_DELETE_SELF" /\ DeleteThis(i)
        /\ cat' = cat /\ intq' = intq /\ num_wlan_ap_iface' = num_wlan_ap_iface - 1
    BY <1>11 DEF WlanDeleteSelf, Handles
  <2>2. num_wlan_ap_iface' = num_wlan_ap_iface - (IF inst[i].kind = "WLAN" THEN 1 ELSE 0)
    BY <2>1
  <2>3. LastEvent(inst[i].kind) = "LAN_DELETE_SELF"
    BY <2>1 DEF LastEvent
  <2> QED
    BY <1>6, <2>1, <2>2, <2>3
<1>12. CASE StaDown(i)
  <2>1. inst[i].kind = "WLAN_WAN" /\ cur.ev = "WLAN_LINK_DOWN" /\ DeleteThis(i)
        /\ cat' = [cat EXCEPT ![i] = "UNKNOWN"]
        /\ intq' = intq /\ num_wlan_ap_iface' = num_wlan_ap_iface
    BY <1>12 DEF StaDown, Handles
  <2>2. num_wlan_ap_iface' = num_wlan_ap_iface - (IF inst[i].kind = "WLAN" THEN 1 ELSE 0)
    BY <1>7, <2>1
  <2>3. LastEvent(inst[i].kind) = "WLAN_LINK_DOWN"
    BY <2>1 DEF LastEvent
  <2> QED
    BY <1>6, <2>1, <2>2, <2>3
<1>13. CASE WanDown(i)
  <2>1. inst[i].kind \in {"Q6_WAN", "ECM_WAN"} /\ cur.ev = "LINK_DOWN" /\ DeleteThis(i)
        /\ cat' = cat /\ intq' = intq /\ num_wlan_ap_iface' = num_wlan_ap_iface
    BY <1>13 DEF WanDown, Handles
  <2>2. num_wlan_ap_iface' = num_wlan_ap_iface - (IF inst[i].kind = "WLAN" THEN 1 ELSE 0)
    BY <1>7, <2>1
  <2>3. LastEvent(inst[i].kind) = "LINK_DOWN"
    BY <2>1 DEF LastEvent
  <2> QED
    BY <1>6, <2>1, <2>2, <2>3
<1> QED
  BY <1>4, <1>8, <1>9, <1>10, <1>11, <1>12, <1>13 DEF Object

\* Every step.
LEMMA NextInv == IInv /\ [Next]_vars => IInv'
<1> SUFFICES ASSUME IInv, [Next]_vars PROVE IInv'
  OBVIOUS
<1>0. LinksOK /\ QueueOK /\ ObjectsOK /\ CatOK /\ NoStaleNode /\ regs \in Seq(NodeSet)
  BY DEF IInv, ObjectsOK
<1>1. ASSUME LinksOK', QueueOK', NoStaleNode', UNCHANGED objectVars PROVE IInv'
  <2>1. ObjectsOK' /\ CatOK'
    BY <1>0, <1>1 DEF ObjectsOK, NodesOrdered, MgrListens, AccessPoints, CatOK, objectVars
  <2> QED
    BY <1>1, <2>1 DEF IInv
<1>2. ASSUME NEW i \in Ifaces, NEW l \in Links(i), NewLink(i, l) PROVE IInv'
  <2>1. LinksOK'
    BY <1>0, <1>2 DEF NewLink, LinksOK, Links
  <2>2. QueueOK' /\ NoStaleNode' /\ UNCHANGED objectVars
    BY <1>0, <1>2 DEF NewLink, QueueOK, NoStaleNode, objectVars
  <2> QED
    BY <1>1, <2>1, <2>2
<1>3. ASSUME NEW i \in Wlan, NEW m \in {"off", "ap", "sta"}, WlanDriver(i, m) PROVE IInv'
  <2>1. mode' = [mode EXCEPT ![i] = m] /\ link' = link /\ UNCHANGED <<intq, cursor, objectVars>>
    BY <1>3 DEF WlanDriver
  <2>2. LinksOK'
    BY <1>0, <2>1 DEF LinksOK
  <2>3. QueueOK' /\ NoStaleNode' /\ UNCHANGED objectVars
    BY <1>0, <2>1 DEF QueueOK, NoStaleNode, objectVars
  <2> QED
    BY <1>1, <2>2, <2>3
<1>4. ASSUME Take PROVE IInv'
  <2>1. cursor' = Head(regs) /\ UNCHANGED objectVars /\ UNCHANGED kernelVars
    BY <1>4 DEF Take
  <2>2. LinksOK'
    BY <1>0, <2>1 DEF LinksOK, kernelVars
  <2>3. QueueOK'
    <3>1. intq' = intq \/ (intq # <<>> /\ intq' = Tail(intq))
      BY <1>4 DEF Take
    <3> QED
      BY <1>0, <3>1 DEF QueueOK
  <2>4. NoStaleNode'
    <3>1. Len(regs) \in Nat /\ 1 \in 1 .. Len(regs)
      BY <1>0 DEF ObjectsOK, MgrListens
    <3>2. Head(regs) = regs[1]
      BY <1>0
    <3>3. Has(regs, cursor')
      BY <2>1, <3>1, <3>2 DEF Has
    <3> QED
      BY <1>0, <2>1, <3>3, StaleFactsNext DEF objectVars
  <2> QED
    BY <1>1, <2>1, <2>2, <2>3, <2>4
<1>5. ASSUME Finish PROVE IInv'
  <2>1. LinksOK' /\ QueueOK' /\ NoStaleNode' /\ UNCHANGED objectVars
    BY <1>0, <1>5 DEF Finish, LinksOK, QueueOK, NoStaleNode, kernelVars
  <2> QED
    BY <1>1, <2>1
<1>6. ASSUME UNCHANGED vars PROVE IInv'
  <2>1. LinksOK' /\ QueueOK' /\ NoStaleNode' /\ UNCHANGED objectVars
    BY <1>0, <1>6 DEF vars, LinksOK, QueueOK, NoStaleNode, objectVars
  <2> QED
    BY <1>1, <2>1
<1> QED
  BY <1>2, <1>3, <1>4, <1>5, <1>6, ManagerStep, ObjectStep DEF Next, Process

-----------------------------------------------------------------------------
(* The theorems. *)

\* The inductive invariant.
THEOREM Invariance == Spec => []IInv
BY InitInv, NextInv, PTL DEF Spec

\* Types; the class of an active object agrees with its interface's category,
\* and num_wlan_ap_iface counts the access points.
THEOREM TypeCorrect == Spec => []TypeOK
<1>1. IInv => TypeOK
  <2> SUFFICES ASSUME IInv PROVE TypeOK
    OBVIOUS
  <2>1. \A e \in Range(intq) : e.ev = "LAN_DELETE_SELF" /\ e.if_index \in Ifaces
    <3>1. \A k \in 1 .. Len(intq) : intq[k] \in DelSelf
      BY DEF IInv, QueueOK
    <3>2. DOMAIN intq = 1 .. Len(intq)
      BY DEF IInv, QueueOK
    <3>3. \A e \in DelSelf : e.ev = "LAN_DELETE_SELF" /\ e.if_index \in Ifaces
      BY DEF DelSelf
    <3> QED
      BY <3>1, <3>2, <3>3 DEF Range
  <2>2. LinksOK /\ CatOK /\ ObjectsOK
    BY DEF IInv
  <2> QED
    BY <2>1, <2>2 DEF TypeOK, LinksOK, CatOK, ObjectsOK, AccessPoints
<1> QED
  BY <1>1, Invariance, PTL

\* ProcessEvt never goes on at a node that a callback has freed.
THEOREM WalkIsSafe == Spec => []NoStaleNode
<1>1. IInv => NoStaleNode
  BY DEF IInv
<1> QED
  BY <1>1, Invariance, PTL

-----------------------------------------------------------------------------
(* The walk of ProcessEvt: who has still to be called.                        *)

\* Every node is there once.
Once(list) == \A k, m \in 1 .. Len(list) : list[k] = list[m] => k = m

\* The listeners that the walk has not reached yet.
Pending == {regs[k].obj : k \in Matches}

Node(obj, ev) == [obj |-> obj, ev |-> ev]

LEMMA NullNode == NULL \notin NodeSet
BY IfaceAssumption DEF NodeSet

LEMMA NodeEq ==
    ASSUME NEW a \in NodeSet, NEW b \in NodeSet, a.obj = b.obj, a.ev = b.ev
    PROVE  a = b
BY DEF NodeSet

\* Where the walk stands, in terms of places: c is the place of the cursor.
LEMMA MatchesFrom ==
    ASSUME regs \in Seq(NodeSet), Once(regs), NEW c \in 1 .. Len(regs), regs[c] = cursor
    PROVE  Matches = {k \in 1 .. Len(regs) : regs[k].ev = cur.ev /\ c <= k}
<1>1. ASSUME NEW k \in 1 .. Len(regs) PROVE (\E d \in 1 .. k : regs[d] = cursor) <=> c <= k
  <2>1. ASSUME NEW d \in 1 .. k, regs[d] = cursor PROVE c <= k
    <3>1. d \in 1 .. Len(regs)
      OBVIOUS
    <3>2. d = c
      BY <3>1, <2>1 DEF Once
    <3> QED BY <3>2
  <2>2. ASSUME c <= k PROVE c \in 1 .. k
    BY <2>2
  <2> QED BY <2>1, <2>2
<1> QED BY <1>1 DEF Matches

LEMMA MatchesNone ==
    ASSUME regs \in Seq(NodeSet), cursor = NULL
    PROVE  Matches = {}
BY NullNode DEF Matches

\* The node that is called, and the ones behind it.
LEMMA CallPlace ==
    ASSUME regs \in Seq(NodeSet), Once(regs), NoStaleNode, NEW obj, Call(obj)
    PROVE  \E k \in 1 .. Len(regs) :
             /\ regs[k].obj = obj /\ regs[k].ev = cur.ev /\ k \in Matches
             /\ \A m \in 1 .. Len(regs) : m \in Matches \ {k} <=> regs[m].ev = cur.ev /\ k < m
             /\ IF k = Len(regs) THEN cursor' = NULL ELSE k + 1 \in 1 .. Len(regs) /\ cursor' = regs[k + 1]
<1>1. Matches \in SUBSET Nat /\ Matches # {}
  BY DEF Matches, Call
<1>2. Reached \in Matches /\ \A m \in Matches : Reached <= m
  BY <1>1, LeastNat DEF Reached
<1>3. PICK c \in 1 .. Len(regs) : regs[c] = cursor
  <2>1. cursor # NULL
    BY <1>1, MatchesNone
  <2> QED BY <2>1, StaleFacts DEF Has
<1>4. Matches = {k \in 1 .. Len(regs) : regs[k].ev = cur.ev /\ c <= k}
  BY <1>3, MatchesFrom
<1>5. Reached \in 1 .. Len(regs) /\ regs[Reached].ev = cur.ev /\ c <= Reached
  BY <1>2, <1>4
<1>6. \A m \in 1 .. Len(regs) : m \in Matches \ {Reached} <=> regs[m].ev = cur.ev /\ Reached < m
  <2> TAKE m \in 1 .. Len(regs)
  <2>1. ASSUME m \in Matches, m # Reached PROVE regs[m].ev = cur.ev /\ Reached < m
    BY <2>1, <1>2, <1>4, <1>5
  <2>2. ASSUME regs[m].ev = cur.ev, Reached < m PROVE m \in Matches /\ m # Reached
    BY <2>2, <1>4, <1>5
  <2> QED BY <2>1, <2>2
<1>7. regs[Reached].obj = obj /\ cursor' = Following(Reached)
  BY DEF Call
<1>8. IF Reached = Len(regs) THEN cursor' = NULL ELSE Reached + 1 \in 1 .. Len(regs) /\ cursor' = regs[Reached + 1]
  BY <1>5, <1>7 DEF Following
<1> QED BY <1>2, <1>5, <1>6, <1>7, <1>8

LEMMA CalledIsPending ==
    ASSUME regs \in Seq(NodeSet), Once(regs), NoStaleNode, NEW obj, Call(obj)
    PROVE  obj \in Pending /\ cur # NULL
BY CallPlace DEF Pending, Call

\* A callback that keeps the list, or appends nodes for other events.
LEMMA CallPending ==
    ASSUME regs \in Seq(NodeSet), Once(regs), NoStaleNode, NEW obj, Call(obj),
           regs' \in Seq(NodeSet), Once(regs'), Len(regs) <= Len(regs'),
           \A k \in 1 .. Len(regs) : regs'[k] = regs[k],
           \A k \in 1 .. Len(regs') : Len(regs) < k => regs'[k].ev # cur.ev
    PROVE  Pending' = Pending \ {obj}
<1>0. cur' = cur
  BY DEF Call
<1>1. PICK k \in 1 .. Len(regs) :
             /\ regs[k].obj = obj /\ regs[k].ev = cur.ev /\ k \in Matches
             /\ \A m \in 1 .. Len(regs) : m \in Matches \ {k} <=> regs[m].ev = cur.ev /\ k < m
             /\ IF k = Len(regs) THEN cursor' = NULL ELSE k + 1 \in 1 .. Len(regs) /\ cursor' = regs[k + 1]
  BY CallPlace
<1>2. Matches' = Matches \ {k}
  <2>0. Matches \subseteq 1 .. Len(regs) /\ Len(regs) \in Nat /\ Len(regs') \in Nat
    BY DEF Matches
  <2>1. CASE k = Len(regs)
    <3>1. Matches' = {}
      BY <1>1, <2>1, NullNode DEF Matches
    <3>2. \A m \in 1 .. Len(regs) : m \notin Matches \ {k}
      BY <1>1, <2>1
    <3> QED BY <3>1, <3>2, <2>0
  <2>2. CASE k # Len(regs)
    <3>1. k + 1 \in 1 .. Len(regs) /\ k + 1 \in 1 .. Len(regs') /\ regs'[k + 1] = cursor'
      BY <1>1, <2>0, <2>2
    <3>2. Matches' = {m \in 1 .. Len(regs') : regs'[m].ev = cur.ev /\ k + 1 <= m}
      <4>1. ASSUME NEW m \in 1 .. Len(regs') PROVE (\E d \in 1 .. m : regs'[d] = cursor') <=> k + 1 <= m
        <5>1. ASSUME NEW d \in 1 .. m, regs'[d] = cursor' PROVE k + 1 <= m
          <6>1. d \in 1 .. Len(regs')
            BY <2>0
          <6>2. d = k + 1
            BY <6>1, <5>1, <3>1 DEF Once
          <6> QED BY <6>2, <2>0
        <5>2. ASSUME k + 1 <= m PROVE k + 1 \in 1 .. m
          BY <5>2, <2>0
        <5> QED BY <5>1, <5>2, <3>1
      <4> QED BY <4>1, <1>0 DEF Matches
    <3>3. ASSUME NEW m \in Matches' PROVE m \in Matches \ {k}
      <4>1. m \in 1 .. Len(regs') /\ regs'[m].ev = cur.ev /\ k + 1 <= m
        BY <3>2
      <4>2. m \in 1 .. Len(regs)
        BY <4>1, <2>0
      <4>3. regs[m].ev = cur.ev /\ k < m
        BY <4>1, <4>2
      <4> QED BY <4>2, <4>3, <1>1
    <3>4. ASSUME NEW m \in Matches \ {k} PROVE m \in Matches'
      <4>1. m \in 1 .. Len(regs)
        BY <2>0
      <4>2. regs[m].ev = cur.ev /\ k < m
        BY <4>1, <1>1
      <4>3. m \in 1 .. Len(regs') /\ regs'[m].ev = cur.ev /\ k + 1 <= m
        BY <4>1, <4>2, <2>0
      <4> QED BY <4>3, <3>2
    <3> QED BY <3>3, <3>4
  <2> QED BY <2>1, <2>2
<1>3. \A m \in Matches : m \in 1 .. Len(regs) /\ regs'[m] = regs[m] /\ regs[m].ev = cur.ev
  BY DEF Matches
<1>4. \A m \in Matches : regs[m].obj = obj => m = k
  <2> SUFFICES ASSUME NEW m \in Matches, regs[m].obj = obj PROVE m = k
    OBVIOUS
  <2>1. regs[m] \in NodeSet /\ regs[k] \in NodeSet /\ regs[m].obj = regs[k].obj /\ regs[m].ev = regs[k].ev
    BY <1>1, <1>3
  <2>2. regs[m] = regs[k]
    BY <2>1, NodeEq
  <2> QED BY <2>2, <1>1, <1>3 DEF Once
<1> QED BY <1>1, <1>2, <1>3, <1>4, SMTT(60) DEF Pending

\* Taking the nodes of an object out leaves every other node once.
LEMMA OnceWithout ==
    ASSUME NEW list \in Seq(NodeSet), Once(list), NEW i, NEW w, TakenOut(w, list, i)
    PROVE  Once(w)
<1> SUFFICES ASSUME NEW k \in 1 .. Len(w), NEW m \in 1 .. Len(w), w[k] = w[m], k # m PROVE FALSE
  BY DEF Once
<1>0. Len(w) \in Nat /\ Len(list) \in Nat
  BY DEF TakenOut
<1>1. ASSUME NEW x \in 1 .. Len(w), NEW y \in 1 .. Len(w), x < y, w[x] = w[y] PROVE FALSE
  <2>1. PICK a \in 1 .. Len(list), b \in 1 .. Len(list) : a < b /\ w[x] = list[a] /\ w[y] = list[b]
    BY <1>1 DEF TakenOut
  <2>2. a = b
    BY <1>1, <2>1 DEF Once
  <2> QED BY <2>1, <2>2, <1>0
<1>2. k < m \/ m < k
  BY <1>0
<1> QED BY <1>1, <1>2

\* A callback in which an object takes its own nodes out, at its last event.
LEMMA DeletePending ==
    ASSUME regs \in Seq(NodeSet), Once(regs), NoStaleNode, NEW i \in Ifaces, Call(i), NodesOrdered,
           cur.ev = LastEvent(inst[i].kind), TakenOut(regs', regs, i)
    PROVE  Pending' = Pending \ {i}
<1>0. cur' = cur /\ Len(regs) \in Nat /\ Len(regs') \in Nat /\ Once(regs')
  <2>1. cur' = cur
    BY DEF Call
  <2>2. Once(regs')
    BY OnceWithout
  <2> QED BY <2>1, <2>2 DEF TakenOut
<1>1. PICK k \in 1 .. Len(regs) :
             /\ regs[k].obj = i /\ regs[k].ev = cur.ev /\ k \in Matches
             /\ \A m \in 1 .. Len(regs) : m \in Matches \ {k} <=> regs[m].ev = cur.ev /\ k < m
             /\ IF k = Len(regs) THEN cursor' = NULL ELSE k + 1 \in 1 .. Len(regs) /\ cursor' = regs[k + 1]
  BY CallPlace
<1>2. \A m \in 1 .. Len(regs) : k < m => regs[m].obj # i
  BY <1>1 DEF NodesOrdered
<1>3. ASSUME NEW o PROVE o \in Pending' <=> \E m \in 1 .. Len(regs) : regs[m].obj = o /\ regs[m].ev = cur.ev /\ k < m
  <2>1. ASSUME NEW m \in 1 .. Len(regs), regs[m].obj = o, regs[m].ev = cur.ev, k < m PROVE o \in Pending'
    <3>1. k # Len(regs) /\ k + 1 \in 1 .. Len(regs) /\ cursor' = regs[k + 1] /\ k < k + 1 /\ k + 1 <= m
      BY <1>0, <1>1, <2>1
    <3>2. regs[k + 1].obj # i /\ regs[m].obj # i
      BY <1>2, <2>1, <3>1
    <3>3. PICK c \in 1 .. Len(regs') : regs'[c] = regs[k + 1]
      BY <3>1, <3>2 DEF TakenOut, Has
    <3>4. PICK d \in 1 .. Len(regs') : regs'[d] = regs[m]
      BY <2>1, <3>2 DEF TakenOut, Has
    <3>5. c <= d
      <4> SUFFICES ASSUME d < c PROVE FALSE
        BY <1>0
      <4>1. PICK a \in 1 .. Len(regs), b \in 1 .. Len(regs) : a < b /\ regs'[d] = regs[a] /\ regs'[c] = regs[b]
        BY DEF TakenOut
      <4>2. a = m /\ b = k + 1
        BY <4>1, <3>1, <3>3, <3>4 DEF Once
      <4> QED BY <4>1, <4>2, <3>1, <1>0
    <3>6. d \in Matches'
      <4>1. c \in 1 .. d /\ regs'[c] = cursor' /\ regs'[d].ev = cur'.ev
        BY <1>0, <2>1, <3>1, <3>3, <3>4, <3>5
      <4> QED BY <4>1 DEF Matches
    <3> QED BY <3>6, <3>4, <2>1 DEF Pending
  <2>2. ASSUME o \in Pending' PROVE \E m \in 1 .. Len(regs) : regs[m].obj = o /\ regs[m].ev = cur.ev /\ k < m
    <3>1. PICK d \in 1 .. Len(regs') : regs'[d].obj = o /\ regs'[d].ev = cur.ev /\ \E c \in 1 .. d : regs'[c] = cursor'
      BY <2>2, <1>0 DEF Pending, Matches
    <3>2. PICK c \in 1 .. d : regs'[c] = cursor'
      BY <3>1
    <3>3. c \in 1 .. Len(regs') /\ cursor' \in NodeSet
      BY <3>2, <1>0 DEF TakenOut
    <3>4. k + 1 \in 1 .. Len(regs) /\ cursor' = regs[k + 1]
      BY <1>1, <3>3, NullNode
    <3>5. PICK m \in 1 .. Len(regs) : regs'[d] = regs[m] /\ k + 1 <= m
      <4>1. CASE c = d
        BY <4>1, <3>2, <3>4, <1>0
      <4>2. CASE c < d
        <5>1. PICK a \in 1 .. Len(regs), b \in 1 .. Len(regs) : a < b /\ regs'[c] = regs[a] /\ regs'[d] = regs[b]
          BY <4>2, <3>3 DEF TakenOut
        <5>2. a = k + 1
          BY <5>1, <3>2, <3>4 DEF Once
        <5> QED BY <5>1, <5>2, <1>0
      <4> QED BY <4>1, <4>2, <1>0
    <3> QED BY <3>1, <3>5, <1>0
  <2> QED BY <2>1, <2>2
<1>4. ASSUME NEW o PROVE o \in Pending \ {i} <=> \E m \in 1 .. Len(regs) : regs[m].obj = o /\ regs[m].ev = cur.ev /\ k < m
  <2>1. ASSUME NEW m \in 1 .. Len(regs), regs[m].obj = o, regs[m].ev = cur.ev, k < m PROVE o \in Pending \ {i}
    BY <2>1, <1>1, <1>2 DEF Pending
  <2>2. ASSUME o \in Pending, o # i PROVE \E m \in 1 .. Len(regs) : regs[m].obj = o /\ regs[m].ev = cur.ev /\ k < m
    <3>1. PICK m \in Matches : regs[m].obj = o
      BY <2>2 DEF Pending
    <3>2. m \in 1 .. Len(regs) /\ m # k
      BY <3>1, <2>2, <1>1 DEF Matches
    <3> QED BY <3>1, <3>2, <1>1
  <2> QED BY <2>1, <2>2
<1> QED BY <1>3, <1>4

\* When an event is taken, all who registered for it are called.
LEMMA TakePending ==
    ASSUME regs \in Seq(NodeSet), MgrListens, Take
    PROVE  \A o : o \in Pending' <=> \E k \in 1 .. Len(regs) : regs[k].obj = o /\ regs[k].ev = cur'.ev
<1>1. regs' = regs /\ cursor' = Head(regs) /\ Len(regs) \in Nat /\ 1 \in 1 .. Len(regs)
  BY DEF Take, objectVars, MgrListens
<1>2. cursor' = regs[1]
  BY <1>1
<1>3. ASSUME NEW k \in 1 .. Len(regs) PROVE \E c \in 1 .. k : regs[c] = cursor'
  <2>1. 1 \in 1 .. k
    OBVIOUS
  <2> QED BY <1>2, <2>1
<1>4. Matches' = {k \in 1 .. Len(regs) : regs[k].ev = cur'.ev}
  BY <1>1, <1>3 DEF Matches
<1> QED BY <1>1, <1>4 DEF Pending

\* New events do not disturb the walk.
LEMMA SamePending ==
    ASSUME regs' = regs, cur' = cur, cursor' = cursor
    PROVE  Pending' = Pending
BY DEF Pending, Matches

-----------------------------------------------------------------------------
(* Who listens to what. *)

Ups   == {"LINK_UP", "WLAN_AP_LINK_UP", "WLAN_STA_LINK_UP", "USB_LINK_UP"}
Downs == {"LINK_DOWN", "WLAN_LINK_DOWN"}

Hears(kind) ==
    IF kind = "LAN" THEN {"ADDR_ADD", "LINK_DOWN", "LAN_DELETE_SELF"}
    ELSE IF kind = "WLAN" THEN {"ADDR_ADD", "WLAN_LINK_DOWN", "STATS_UPDATE", "LAN_DELETE_SELF"}
    ELSE IF kind = "WLAN_WAN" THEN {"ADDR_ADD", "XLAT_CONNECT", "WLAN_LINK_DOWN"}
    ELSE {"ADDR_ADD", "XLAT_CONNECT", "LINK_DOWN"}

Heard(obj) == IF obj = Mgr THEN Ups ELSE IF inst[obj] = NULL THEN {} ELSE Hears(inst[obj].kind)

\* The list holds exactly the registrations of the manager and of the objects.
Registered ==
    /\ Once(regs)
    /\ \A obj \in Ifaces \cup {Mgr}, ev \in EvNames : Has(regs, Node(obj, ev)) <=> ev \in Heard(obj)

\* A sequence of events without repetition, and its elements.
Lists(evs, S) ==
    /\ \A p, r \in 1 .. Len(evs) : evs[p] = evs[r] => p = r
    /\ \A ev : (\E p \in 1 .. Len(evs) : evs[p] = ev) <=> ev \in S

LEMMA ThreeListed ==
    ASSUME NEW a, NEW b, NEW c, a # b, a # c, b # c
    PROVE  Lists(<<a, b, c>>, {a, b, c})
<1> DEFINE s == <<a, b, c>>
<1>1. Len(s) = 3 /\ s[1] = a /\ s[2] = b /\ s[3] = c
  OBVIOUS
<1> HIDE DEF s
<1>2. 1 .. 3 = {1, 2, 3}
  OBVIOUS
<1>3. Lists(s, {a, b, c})
  BY <1>1, <1>2 DEF Lists
<1> QED BY <1>3 DEF s

LEMMA FourListed ==
    ASSUME NEW a, NEW b, NEW c, NEW d, a # b, a # c, a # d, b # c, b # d, c # d
    PROVE  Lists(<<a, b, c, d>>, {a, b, c, d})
<1> DEFINE s == <<a, b, c, d>>
<1>1. Len(s) = 4 /\ s[1] = a /\ s[2] = b /\ s[3] = c /\ s[4] = d
  OBVIOUS
<1> HIDE DEF s
<1>2. 1 .. 4 = {1, 2, 3, 4}
  OBVIOUS
<1>3. Lists(s, {a, b, c, d})
  BY <1>1, <1>2 DEF Lists
<1> QED BY <1>3 DEF s

LEMMA EventsListed ==
    ASSUME NEW kind \in Kinds
    PROVE  Lists(Events(kind), Hears(kind))
<1>1. CASE kind = "LAN"
  <2>1. Hears(kind) = {"ADDR_ADD", "LINK_DOWN", "LAN_DELETE_SELF"}
    BY <1>1 DEF Hears
  <2>2. Events(kind) = <<"ADDR_ADD", "LINK_DOWN", "LAN_DELETE_SELF">>
    BY <1>1, Zenon DEF Events
  <2> QED BY <2>1, <2>2, ThreeListed
<1>2. CASE kind = "WLAN"
  <2>1. Hears(kind) = {"ADDR_ADD", "WLAN_LINK_DOWN", "STATS_UPDATE", "LAN_DELETE_SELF"} /\ kind # "LAN"
    BY <1>2 DEF Hears
  <2>2. Events(kind) = <<"ADDR_ADD", "WLAN_LINK_DOWN", "STATS_UPDATE", "LAN_DELETE_SELF">>
    BY <1>2, <2>1, Zenon DEF Events
  <2> QED BY <2>1, <2>2, FourListed
<1>3. CASE kind = "WLAN_WAN"
  <2>1. Hears(kind) = {"ADDR_ADD", "XLAT_CONNECT", "WLAN_LINK_DOWN"} /\ kind # "LAN" /\ kind # "WLAN"
    BY <1>3 DEF Hears
  <2>2. Events(kind) = <<"ADDR_ADD", "XLAT_CONNECT", "WLAN_LINK_DOWN">>
    BY <1>3, <2>1, Zenon DEF Events
  <2> QED BY <2>1, <2>2, ThreeListed
<1>4. CASE kind \in {"Q6_WAN", "ECM_WAN"}
  <2>1. /\ Hears(kind) = {"ADDR_ADD", "XLAT_CONNECT", "LINK_DOWN"}
        /\ kind # "LAN" /\ kind # "WLAN" /\ kind # "WLAN_WAN"
    BY <1>4 DEF Hears
  <2>2. Events(kind) = <<"ADDR_ADD", "XLAT_CONNECT", "LINK_DOWN">>
    BY <2>1, Zenon DEF Events
  <2> QED BY <2>1, <2>2, ThreeListed
<1> QED
  BY <1>1, <1>2, <1>3, <1>4 DEF Kinds

LEMMA HearsFacts ==
    ASSUME NEW kind \in Kinds
    PROVE  /\ Hears(kind) \subseteq EvNames /\ Hears(kind) \cap Ups = {}
           /\ kind = "LAN" => "LINK_DOWN" \in Hears(kind) /\ "WLAN_LINK_DOWN" \notin Hears(kind)
           /\ kind \in {"LAN", "WLAN"} <=> "LAN_DELETE_SELF" \in Hears(kind)
           /\ kind \in {"WLAN", "WLAN_WAN"} <=> "WLAN_LINK_DOWN" \in Hears(kind)
           /\ kind \in {"WLAN", "WLAN_WAN"} <=> "LINK_DOWN" \notin Hears(kind)
BY DEF Kinds, Hears, EvNames, Ups

\* Who is called when an event is taken.
LEMMA TakeCalls ==
    ASSUME ObjectsOK, Registered, Take, cur'.ev \in EvNames
    PROVE  \A o \in Ifaces \cup {Mgr} : o \in Pending' <=> cur'.ev \in Heard(o)
<1> SUFFICES ASSUME NEW o \in Ifaces \cup {Mgr} PROVE o \in Pending' <=> cur'.ev \in Heard(o)
  OBVIOUS
<1> DEFINE e == cur'.ev
<1>1. e \in EvNames
  OBVIOUS
<1>2. o \in Pending' <=> \E k \in 1 .. Len(regs) : regs[k].obj = o /\ regs[k].ev = e
  BY TakePending DEF ObjectsOK
<1> HIDE DEF e
<1>3. Node(o, e) \in NodeSet /\ Node(o, e).obj = o /\ Node(o, e).ev = e
  BY <1>1 DEF Node, NodeSet
<1>4. (\E k \in 1 .. Len(regs) : regs[k].obj = o /\ regs[k].ev = e) <=> Has(regs, Node(o, e))
  <2>1. \A k \in 1 .. Len(regs) : regs[k] \in NodeSet
    BY DEF ObjectsOK
  <2>2. \A k \in 1 .. Len(regs) : regs[k].obj = o /\ regs[k].ev = e => regs[k] = Node(o, e)
    BY <2>1, <1>3, NodeEq
  <2> QED BY <2>2, <1>3 DEF Has
<1> QED BY <1>1, <1>2, <1>4 DEF Registered, e

\* The manager's list at the start.
LEMMA InitRegistered == Init => Registered
<1> SUFFICES ASSUME Init PROVE Registered
  OBVIOUS
<1>1. Lists(MgrEvents, Ups) /\ Len(MgrEvents) = 4
  <2>1. Lists(<<"LINK_UP", "WLAN_AP_LINK_UP", "WLAN_STA_LINK_UP", "USB_LINK_UP">>, Ups)
    BY FourListed DEF Ups
  <2> QED BY <2>1 DEF MgrEvents
<1>2. regs = Nodes(Mgr, MgrEvents) /\ \A i \in Ifaces : inst[i] = NULL
  BY DEF Init
<1>3. Len(regs) = 4 /\ \A k \in 1 .. 4 : regs[k] = Node(Mgr, MgrEvents[k])
  BY <1>1, <1>2 DEF Nodes, Node
<1>4. \A a, b, x, y : Node(a, x) = Node(b, y) => a = b /\ x = y
  BY DEF Node
<1>5. Once(regs)
  BY <1>1, <1>3, <1>4 DEF Once, Lists
<1>6. ASSUME NEW obj \in Ifaces \cup {Mgr}, NEW ev \in EvNames
      PROVE  Has(regs, Node(obj, ev)) <=> ev \in Heard(obj)
  <2>1. Has(regs, Node(obj, ev)) <=> \E k \in 1 .. 4 : Node(Mgr, MgrEvents[k]) = Node(obj, ev)
    BY <1>3 DEF Has
  <2>2. CASE obj = Mgr
    <3>1. Has(regs, Node(obj, ev)) <=> \E k \in 1 .. 4 : MgrEvents[k] = ev
      BY <2>1, <2>2, <1>4
    <3> QED BY <3>1, <1>1, <2>2 DEF Lists, Heard
  <2>3. CASE obj # Mgr
    BY <2>1, <2>3, <1>2, <1>4 DEF Heard
  <2> QED BY <2>2, <2>3
<1> QED BY <1>5, <1>6 DEF Registered

\* An object registers.
LEMMA CreateRegistered ==
    ASSUME ObjectsOK, Registered, NEW i \in Ifaces, inst[i] = NULL, NEW x \in Objects, x # NULL,
           inst' = [inst EXCEPT ![i] = x], registr(i, Events(x.kind))
    PROVE  /\ Registered' /\ regs' \in Seq(NodeSet) /\ Len(regs) <= Len(regs')
           /\ \A k \in 1 .. Len(regs) : regs'[k] = regs[k]
           /\ \A k \in 1 .. Len(regs') : Len(regs) < k => regs'[k].ev \notin Ups
<1> DEFINE evs == Events(x.kind)
<1>0. x.kind \in Kinds
  BY DEF Objects
<1>1. Lists(evs, Hears(x.kind)) /\ evs \in Seq(EvNames)
  BY <1>0, EventsListed, EventsFacts DEF EndsWith
<1>2. regs' = regs \o Nodes(i, evs)
  BY DEF registr
<1> HIDE DEF evs
<1>3. regs \in Seq(NodeSet) /\ Len(regs) \in Nat /\ Len(evs) \in Nat /\ inst \in [Ifaces -> Objects \cup {NULL}]
  BY <1>1 DEF ObjectsOK
<1>4. /\ regs' \in Seq(NodeSet) /\ Len(regs') = Len(regs) + Len(evs)
      /\ \A k \in 1 .. Len(regs) : regs'[k] = regs[k]
      /\ \A k \in 1 .. Len(evs) : regs'[Len(regs) + k] = [obj |-> i, ev |-> evs[k]]
  BY <1>1, <1>2, <1>3, NodesFacts
<1>5. \A k \in 1 .. Len(regs) : regs[k].obj # i
  BY DEF ObjectsOK, NodesOrdered
<1>6. \A a, b, y, z : Node(a, y) = Node(b, z) => a = b /\ y = z
  BY DEF Node
<1>6a. \A k \in 1 .. Len(evs) : regs'[Len(regs) + k] = Node(i, evs[k]) /\ Node(i, evs[k]).obj = i /\ Node(i, evs[k]).ev = evs[k]
  BY <1>4 DEF Node
<1>7. \A k \in 1 .. Len(regs') : Len(regs) < k => k - Len(regs) \in 1 .. Len(evs) /\ regs'[k] = Node(i, evs[k - Len(regs)])
  <2> SUFFICES ASSUME NEW k \in 1 .. Len(regs'), Len(regs) < k
               PROVE  k - Len(regs) \in 1 .. Len(evs) /\ regs'[k] = Node(i, evs[k - Len(regs)])
    OBVIOUS
  <2>1. k - Len(regs) \in 1 .. Len(evs) /\ Len(regs) + (k - Len(regs)) = k
    BY <1>3, <1>4
  <2> QED BY <2>1, <1>6a
<1>8. Once(regs')
  <2> SUFFICES ASSUME NEW k \in 1 .. Len(regs'), NEW m \in 1 .. Len(regs'), regs'[k] = regs'[m] PROVE k = m
    BY DEF Once
  <2>1. \A p \in 1 .. Len(regs') : Len(regs) < p <=> regs'[p].obj = i
    <3> TAKE p \in 1 .. Len(regs')
    <3>1. CASE Len(regs) < p
      BY <3>1, <1>7, <1>6a
    <3>2. CASE ~(Len(regs) < p)
      <4>1. p \in 1 .. Len(regs)
        BY <3>2, <1>3, <1>4
      <4> QED BY <4>1, <3>2, <1>4, <1>5
    <3> QED BY <3>1, <3>2
  <2>2. CASE Len(regs) < k
    <3>1. Len(regs) < m
      BY <2>1, <2>2
    <3>2. evs[k - Len(regs)] = evs[m - Len(regs)] /\ k - Len(regs) \in 1 .. Len(evs) /\ m - Len(regs) \in 1 .. Len(evs)
      BY <2>2, <3>1, <1>6, <1>7
    <3>3. k - Len(regs) = m - Len(regs)
      BY <3>2, <1>1 DEF Lists
    <3> QED BY <3>3, <1>3, <1>4
  <2>3. CASE ~(Len(regs) < k)
    <3>1. ~(Len(regs) < m)
      BY <2>1, <2>3
    <3>2. k \in 1 .. Len(regs) /\ m \in 1 .. Len(regs)
      BY <2>3, <3>1, <1>3, <1>4
    <3> QED BY <3>2, <1>4 DEF Registered, Once
  <2> QED BY <2>2, <2>3
<1>9. ASSUME NEW obj \in Ifaces \cup {Mgr}, NEW ev \in EvNames
      PROVE  Has(regs', Node(obj, ev)) <=> ev \in Heard(obj)'
  <2>1. Has(regs', Node(obj, ev)) <=> Has(regs, Node(obj, ev)) \/ (obj = i /\ \E p \in 1 .. Len(evs) : evs[p] = ev)
    <3>1. ASSUME Has(regs, Node(obj, ev)) PROVE Has(regs', Node(obj, ev))
      <4>1. PICK k \in 1 .. Len(regs) : regs[k] = Node(obj, ev)
        BY <3>1 DEF Has
      <4>2. k \in 1 .. Len(regs') /\ regs'[k] = Node(obj, ev)
        BY <4>1, <1>3, <1>4
      <4> QED BY <4>2 DEF Has
    <3>2. ASSUME obj = i, NEW p \in 1 .. Len(evs), evs[p] = ev PROVE Has(regs', Node(obj, ev))
      <4>1. Len(regs) + p \in 1 .. Len(regs') /\ regs'[Len(regs) + p] = Node(obj, ev)
        BY <3>2, <1>3, <1>4, <1>6a
      <4> QED BY <4>1 DEF Has
    <3>3. ASSUME Has(regs', Node(obj, ev)) PROVE Has(regs, Node(obj, ev)) \/ (obj = i /\ \E p \in 1 .. Len(evs) : evs[p] = ev)
      <4>1. PICK k \in 1 .. Len(regs') : regs'[k] = Node(obj, ev)
        BY <3>3 DEF Has
      <4>2. CASE Len(regs) < k
        BY <4>1, <4>2, <1>6, <1>7
      <4>3. CASE ~(Len(regs) < k)
        <5>1. k \in 1 .. Len(regs) /\ regs[k] = Node(obj, ev)
          BY <4>1, <4>3, <1>3, <1>4
        <5> QED BY <5>1 DEF Has
      <4> QED BY <4>2, <4>3
    <3> QED BY <3>1, <3>2, <3>3
  <2>2. inst'[i] = x /\ \A j \in Ifaces : j # i => inst'[j] = inst[j]
    BY <1>3
  <2>3. i # Mgr
    BY ConstFacts
  <2>4. CASE obj = i
    <3>1. Heard(obj)' = Hears(x.kind) /\ Heard(obj) = {}
      BY <2>2, <2>3, <2>4 DEF Heard
    <3>2. Has(regs, Node(obj, ev)) <=> ev \in Heard(obj)
      BY DEF Registered
    <3> QED BY <2>1, <2>4, <3>1, <3>2, <1>1 DEF Lists
  <2>5. CASE obj # i
    <3>1. Heard(obj)' = Heard(obj)
      BY <2>2, <2>5 DEF Heard
    <3> QED BY <2>1, <2>5, <3>1 DEF Registered
  <2> QED BY <2>4, <2>5
<1>10. Registered'
  BY <1>8, <1>9 DEF Registered
<1>11. \A k \in 1 .. Len(regs') : Len(regs) < k => regs'[k].ev \notin Ups
  <2> SUFFICES ASSUME NEW k \in 1 .. Len(regs'), Len(regs) < k PROVE regs'[k].ev \notin Ups
    OBVIOUS
  <2>1. regs'[k].ev \in Hears(x.kind)
    BY <1>1, <1>6a, <1>7, SMTT(60) DEF Lists
  <2> QED BY <2>1, <1>0, HearsFacts
<1> QED BY <1>3, <1>4, <1>10, <1>11

\* An object is taken out.
LEMMA DeleteRegistered ==
    ASSUME ObjectsOK, Registered, NEW i \in Ifaces, TakenOut(regs', regs, i), inst' = [inst EXCEPT ![i] = NULL]
    PROVE  Registered'
<1>0. regs \in Seq(NodeSet) /\ inst \in [Ifaces -> Objects \cup {NULL}] /\ Once(regs)
  BY DEF ObjectsOK, Registered
<1>1. Once(regs')
  BY <1>0, OnceWithout
<1>2. ASSUME NEW obj \in Ifaces \cup {Mgr}, NEW ev \in EvNames
      PROVE  Has(regs', Node(obj, ev)) <=> ev \in Heard(obj)'
  <2>0. Node(obj, ev).obj = obj
    BY DEF Node
  <2>1. Has(regs', Node(obj, ev)) <=> Has(regs, Node(obj, ev)) /\ obj # i
    <3>1. ASSUME NEW k \in 1 .. Len(regs'), regs'[k] = Node(obj, ev) PROVE Has(regs, Node(obj, ev)) /\ obj # i
      BY <3>1, <2>0 DEF TakenOut
    <3>2. ASSUME NEW k \in 1 .. Len(regs), regs[k] = Node(obj, ev), obj # i PROVE Has(regs', Node(obj, ev))
      BY <3>2, <2>0 DEF TakenOut
    <3> QED BY <3>1, <3>2 DEF Has
  <2>2. inst'[i] = NULL /\ \A j \in Ifaces : j # i => inst'[j] = inst[j]
    BY <1>0
  <2>3. i # Mgr
    BY ConstFacts
  <2>4. CASE obj = i
    BY <2>1, <2>2, <2>3, <2>4 DEF Heard
  <2>5. CASE obj # i
    <3>1. Heard(obj)' = Heard(obj)
      BY <2>2, <2>5 DEF Heard
    <3> QED BY <2>1, <2>5, <3>1 DEF Registered
  <2> QED BY <2>4, <2>5
<1> QED BY <1>1, <1>2 DEF Registered

-----------------------------------------------------------------------------
(* Where the events that wait lead.                                           *)

ExtEvents == [ev : Ups \cup Downs, if_index : Ifaces]
States == Kinds \cup {"none"}

\* The class of object that an event makes on an interface without one.
Makes(i, ev) ==
    IF i \in Wlan THEN IF ev = "WLAN_AP_LINK_UP" THEN "WLAN"
                       ELSE IF ev = "WLAN_STA_LINK_UP" THEN "WLAN_WAN" ELSE "none"
    ELSE IF ev = "USB_LINK_UP" THEN IF i \in Usb THEN "LAN" ELSE "ECM_WAN"
    ELSE IF ev = "LINK_UP" /\ i \in Modem THEN "Q6_WAN" ELSE "none"

\* What an event makes of an interface.
After(i, a, e) ==
    IF e.if_index # i THEN a
    ELSE IF e.ev = (IF i \in Wlan THEN "WLAN_LINK_DOWN" ELSE "LINK_DOWN") THEN "none"
    ELSE IF a = "none" THEN Makes(i, e.ev) ELSE a

\* The events of q, one after the other, lead from a to z.
LeadsTo(i, a, q, z) ==
    \E r \in [0 .. Len(q) -> States] :
        /\ r[0] = a /\ r[Len(q)] = z
        /\ \A k \in 1 .. Len(q) : r[k] = After(i, r[k - 1], q[k])

LEMMA AfterType ==
    ASSUME NEW i, NEW a \in States, NEW e
    PROVE  After(i, a, e) \in States
BY DEF After, Makes, States, Kinds

LEMMA LeadsNowhere ==
    ASSUME NEW i, NEW a \in States
    PROVE  LeadsTo(i, a, <<>>, a)
<1> DEFINE r == [k \in 0 .. 0 |-> a]
<1>1. r \in [0 .. 0 -> States] /\ r[0] = a
  OBVIOUS
<1>2. Len(<<>>) = 0 /\ 1 .. 0 = {}
  OBVIOUS
<1> HIDE DEF r
<1> QED BY <1>1, <1>2 DEF LeadsTo

LEMMA LeadsEnd ==
    ASSUME NEW i, NEW a, NEW z, LeadsTo(i, a, <<>>, z)
    PROVE  z = a
BY DEF LeadsTo

\* An event is appended.
LEMMA LeadsAppend ==
    ASSUME NEW i, NEW a, NEW q \in Seq(ExtEvents), NEW e \in ExtEvents, NEW z, LeadsTo(i, a, q, z)
    PROVE  LeadsTo(i, a, Append(q, e), After(i, z, e)) /\ z \in States
<1> DEFINE n == Len(q)
           p == Append(q, e)
<1>1. n \in Nat /\ Len(p) = n + 1 /\ p[n + 1] = e /\ \A k \in 1 .. n : p[k] = q[k]
  OBVIOUS
<1>2. PICK r \in [0 .. n -> States] : r[0] = a /\ r[n] = z /\ \A k \in 1 .. n : r[k] = After(i, r[k - 1], q[k])
  BY DEF LeadsTo
<1> HIDE DEF n, p
<1>3. z \in States
  BY <1>1, <1>2
<1> DEFINE y == After(i, z, e)
           t == [k \in 0 .. n + 1 |-> IF k = n + 1 THEN y ELSE r[k]]
<1>4. y \in States
  BY <1>3, AfterType
<1> HIDE DEF y
<1>5. t \in [0 .. n + 1 -> States] /\ t[n + 1] = y /\ \A k \in 0 .. n : t[k] = r[k]
  BY <1>1, <1>2, <1>4
<1> HIDE DEF t
<1>6. t[0] = a
  BY <1>1, <1>2, <1>5
<1>7. ASSUME NEW k \in 1 .. n + 1 PROVE t[k] = After(i, t[k - 1], p[k])
  <2>1. CASE k = n + 1
    <3>1. t[k - 1] = z /\ p[k] = e /\ t[k] = y
      BY <2>1, <1>1, <1>2, <1>5
    <3> QED BY <3>1 DEF y
  <2>2. CASE k # n + 1
    <3>1. k \in 1 .. n /\ k - 1 \in 0 .. n /\ k \in 0 .. n
      BY <2>2, <1>1
    <3> QED BY <3>1, <1>1, <1>2, <1>5
  <2> QED BY <2>1, <2>2
<1>8. LeadsTo(i, a, p, y)
  BY <1>1, <1>5, <1>6, <1>7 DEF LeadsTo
<1> QED BY <1>3, <1>8 DEF p, y

\* The first event is taken.
LEMMA LeadsTail ==
    ASSUME NEW i, NEW a, NEW q \in Seq(ExtEvents), q # <<>>, NEW z, LeadsTo(i, a, q, z)
    PROVE  LeadsTo(i, After(i, a, Head(q)), Tail(q), z)
<1> DEFINE n == Len(q)
           p == Tail(q)
<1>1. n \in Nat \ {0} /\ Len(p) = n - 1 /\ q[1] = Head(q) /\ \A k \in 1 .. n - 1 : p[k] = q[k + 1]
  OBVIOUS
<1>2. PICK r \in [0 .. n -> States] : r[0] = a /\ r[n] = z /\ \A k \in 1 .. n : r[k] = After(i, r[k - 1], q[k])
  BY DEF LeadsTo
<1> HIDE DEF n, p
<1> DEFINE t == [k \in 0 .. n - 1 |-> r[k + 1]]
<1>3. t \in [0 .. n - 1 -> States] /\ \A k \in 0 .. n - 1 : t[k] = r[k + 1]
  BY <1>1, <1>2
<1> HIDE DEF t
<1>4. t[0] = After(i, a, Head(q)) /\ t[n - 1] = z
  <2>1. 1 \in 1 .. n /\ 0 \in 0 .. n - 1 /\ n - 1 \in 0 .. n - 1 /\ (n - 1) + 1 = n /\ 0 + 1 = 1 /\ 1 - 1 = 0
    BY <1>1
  <2>2. t[0] = r[1] /\ t[n - 1] = r[n]
    BY <2>1, <1>3
  <2>3. r[1] = After(i, r[0], q[1])
    BY <2>1, <1>2
  <2> QED BY <2>2, <2>3, <1>1, <1>2
<1>5. ASSUME NEW k \in 1 .. n - 1 PROVE t[k] = After(i, t[k - 1], p[k])
  <2>1. k + 1 \in 1 .. n /\ k - 1 \in 0 .. n - 1 /\ k \in 0 .. n - 1 /\ (k - 1) + 1 = k /\ (k + 1) - 1 = k
    BY <1>1
  <2>2. r[k + 1] = After(i, r[k], q[k + 1])
    BY <2>1, <1>2
  <2> QED BY <2>1, <2>2, <1>1, <1>3
<1>6. LeadsTo(i, After(i, a, Head(q)), p, z)
  BY <1>1, <1>3, <1>4, <1>5 DEF LeadsTo
<1> QED BY <1>6 DEF p

-----------------------------------------------------------------------------
(* The invariant of Settled.                                                  *)

Dying(i) == inst[i] # NULL /\ ~inst[i].is_active

DelEvt(i) == [ev |-> "LAN_DELETE_SELF", if_index |-> i]

EventsOK == extq \in Seq(ExtEvents) /\ (cur = NULL \/ cur \in ExtEvents \/ cur \in DelSelf)

\* One object at most has shut down and waits for its event, which is next.
Deletions ==
    /\ intq = <<>> \/ \E j \in Ifaces :
         /\ intq = <<DelEvt(j)>> /\ Dying(j)
         /\ cur # NULL => cur.ev \in Downs /\ cur.if_index = j /\ j \notin Pending
    /\ \A i \in Ifaces : Dying(i) => /\ inst[i].kind \in {"LAN", "WLAN"}
                                     /\ intq = <<DelEvt(i)>> \/ (cur = DelEvt(i) /\ i \in Pending)
    /\ \A i \in Pending : cur = DelEvt(i) => Dying(i)

\* The class of the object that is there and active.
NowIs(i) == IF inst[i] # NULL /\ inst[i].is_active THEN inst[i].kind ELSE "none"

KindsOf(i) ==
    IF i \in Usb THEN {"LAN"} ELSE IF i \in Modem THEN {"Q6_WAN", "ECM_WAN"} ELSE {"WLAN", "WLAN_WAN"}

CatOf(i, a) ==
    IF i \in Usb THEN "LAN" ELSE IF i \in Modem THEN "WAN"
    ELSE IF a = "WLAN" THEN "WLAN" ELSE IF a = "WLAN_WAN" THEN "WAN" ELSE "UNKNOWN"

\* The category is that of the interface, a WLAN interface has one with its object.
Classes == \A i \in Ifaces : (inst[i] # NULL => inst[i].kind \in KindsOf(i)) /\ cat[i] = CatOf(i, NowIs(i))

\* The event that is handled has still to reach the one who acts on it.
Due(i) == cur \in ExtEvents /\ cur.if_index = i /\ (IF cur.ev \in Ups THEN Mgr ELSE i) \in Pending

Soon(i) == IF Due(i) THEN After(i, NowIs(i), cur) ELSE NowIs(i)

Suits(i, a) == IF a = "none" THEN Wanted(i) = {} ELSE a \in Wanted(i)

\* The events that wait lead to what the links call for.
Leads(i) == \E z \in States : LeadsTo(i, Soon(i), extq, z) /\ Suits(i, z)

\* Only the carrier of these may go.
Carrier == \A i \in Ifaces : link[i] = "no carrier" => i \in Flapping

SInv == IInv /\ Carrier /\ Registered /\ EventsOK /\ Deletions /\ Classes /\ \A i \in Ifaces : Leads(i)

LEMMA EventNames ==
    /\ Ups \subseteq EvNames /\ Downs \subseteq EvNames /\ Ups \cap Downs = {}
    /\ "LAN_DELETE_SELF" \in EvNames /\ "LAN_DELETE_SELF" \notin Ups \cup Downs
BY DEF Ups, Downs, EvNames

LEMMA EventTypes ==
    /\ NULL \notin ExtEvents /\ NULL \notin DelSelf /\ ExtEvents \cap DelSelf = {}
    /\ \A e \in ExtEvents : e.ev \in Ups \cup Downs /\ e.if_index \in Ifaces
    /\ \A e \in DelSelf : e.ev = "LAN_DELETE_SELF" /\ e.if_index \in Ifaces /\ e = DelEvt(e.if_index)
    /\ \A i \in Ifaces : DelEvt(i) \in DelSelf /\ DelEvt(i).if_index = i /\ DelEvt(i).ev = "LAN_DELETE_SELF"
<1> DEFINE All == [ev : EvNames, if_index : Ifaces]
<1>1. ExtEvents \subseteq All /\ DelSelf \subseteq All
  BY EventNames DEF ExtEvents, DelSelf
<1>2. NULL \notin All
  BY IfaceAssumption
<1>3. \A e \in ExtEvents : e.ev \in Ups \cup Downs /\ e.if_index \in Ifaces
  BY DEF ExtEvents
<1>4. \A e \in DelSelf : e.ev = "LAN_DELETE_SELF" /\ e.if_index \in Ifaces /\ e = DelEvt(e.if_index)
  BY DEF DelSelf, DelEvt
<1>5. \A i \in Ifaces : DelEvt(i) \in DelSelf /\ DelEvt(i).if_index = i /\ DelEvt(i).ev = "LAN_DELETE_SELF"
  BY DEF DelSelf, DelEvt
<1>6. ExtEvents \cap DelSelf = {}
  BY <1>3, <1>4, EventNames
<1> HIDE DEF All
<1> QED BY <1>1, <1>2, <1>3, <1>4, <1>5, <1>6

LEMMA OneDeletion ==
    ASSUME NEW i \in Ifaces, NEW j \in Ifaces, <<DelEvt(i)>> = <<DelEvt(j)>>
    PROVE  i = j
<1>1. DelEvt(i) = DelEvt(j)
  OBVIOUS
<1> QED BY <1>1, EventTypes

LEMMA NowType ==
    ASSUME inst \in [Ifaces -> Objects \cup {NULL}], NEW i \in Ifaces
    PROVE  NowIs(i) \in States /\ (NowIs(i) = "none" <=> inst[i] = NULL \/ Dying(i))
<1>1. inst[i] # NULL => inst[i].kind \in Kinds /\ "none" \notin Kinds
  BY DEF Objects, Kinds
<1> QED BY <1>1 DEF NowIs, States, Dying

\* Leads is kept by a step in which neither links nor queue change, and what is to
\* come of every interface is the same.
LEMMA SameLeads ==
    ASSUME \A i \in Ifaces : Leads(i), link' = link, mode' = mode, extq' = extq,
           \A i \in Ifaces : Soon(i)' = Soon(i)
    PROVE  \A i \in Ifaces : Leads(i)'
<1> TAKE i \in Ifaces
<1>1. PICK z \in States : LeadsTo(i, Soon(i), extq, z) /\ Suits(i, z)
  BY DEF Leads
<1>2. Wanted(i)' = Wanted(i)
  BY DEF Wanted
<1>3. Suits(i, z)'
  BY <1>1, <1>2 DEF Suits
<1>4. Soon(i)' = Soon(i)
  OBVIOUS
<1> QED BY <1>1, <1>3, <1>4 DEF Leads

LEMMA InitSettled == Init => SInv
<1> SUFFICES ASSUME Init PROVE SInv
  OBVIOUS
<1>1. IInv /\ Registered
  BY InitInv, InitRegistered
<1>2. inst = [i \in Ifaces |-> NULL] /\ cur = NULL /\ cursor = NULL /\ intq = <<>> /\ extq = <<>> /\ regs \in Seq(NodeSet)
  BY <1>1 DEF Init, IInv, ObjectsOK
<1>3. EventsOK
  BY <1>2 DEF EventsOK
<1>4. \A i \in Ifaces : inst[i] = NULL /\ ~Dying(i) /\ NowIs(i) = "none"
  BY <1>2 DEF Dying, NowIs
<1>5. Pending = {}
  BY <1>2, MatchesNone DEF Pending
<1>6. Deletions
  BY <1>2, <1>4, <1>5 DEF Deletions
<1>7. Classes
  <2> SUFFICES ASSUME NEW i \in Ifaces PROVE cat[i] = CatOf(i, "none")
    BY <1>4 DEF Classes
  <2>1. cat[i] = IF i \in Usb THEN "LAN" ELSE IF i \in Modem THEN "WAN" ELSE "UNKNOWN"
    BY DEF Init
  <2> QED BY <2>1 DEF CatOf
<1>8. ASSUME NEW i \in Ifaces PROVE Leads(i)
  <2>1. Soon(i) = "none" /\ "none" \in States
    BY <1>2, <1>4, EventTypes DEF Soon, Due, States
  <2>2. Wanted(i) = {}
    <3>1. link[i] = "down" /\ (i \in Wlan => mode[i] = "off")
      BY DEF Init
    <3> QED BY <3>1 DEF Wanted
  <2>3. LeadsTo(i, "none", extq, "none")
    BY <1>2, <2>1, LeadsNowhere
  <2> QED BY <2>1, <2>2, <2>3 DEF Leads, Suits
<1>9. Carrier
  BY DEF Init, Carrier
<1> QED BY <1>1, <1>3, <1>6, <1>7, <1>8, <1>9 DEF SInv

LEMMA SettledFollows == SInv => Settled
<1> SUFFICES ASSUME SInv, cur = NULL, intq = <<>>, extq = <<>>, NEW i \in Ifaces
             PROVE  IF inst[i] = NULL THEN Wanted(i) = {} ELSE inst[i].is_active /\ inst[i].kind \in Wanted(i)
  BY DEF Settled
<1>1. inst \in [Ifaces -> Objects \cup {NULL}] /\ Deletions /\ Leads(i)
  BY DEF SInv, IInv, ObjectsOK
<1>2. ~Dying(i)
  <2>1. <<>> # <<DelEvt(i)>> /\ NULL # DelEvt(i)
    BY EventTypes
  <2> QED BY <2>1, <1>1 DEF Deletions
<1>3. Soon(i) = NowIs(i)
  BY EventTypes DEF Soon, Due
<1>4. PICK z \in States : LeadsTo(i, NowIs(i), <<>>, z) /\ Suits(i, z)
  BY <1>1, <1>3 DEF Leads
<1>5. Suits(i, NowIs(i))
  BY <1>4, LeadsEnd
<1>6. NowIs(i) = "none" <=> inst[i] = NULL
  BY <1>1, <1>2, NowType
<1> QED BY <1>2, <1>5, <1>6 DEF Suits, NowIs, Dying

-----------------------------------------------------------------------------
(* The steps. *)

\* What the links call for, by the kind of interface.
LEMMA WantedBy ==
    ASSUME NEW i \in Ifaces
    PROVE  /\ i \in Wlan => Wanted(i) = IF mode[i] = "ap" THEN {"WLAN"} ELSE IF mode[i] = "sta" THEN {"WLAN_WAN"} ELSE {}
           /\ i \in Usb => Wanted(i) = IF link[i] = "running" THEN {"LAN"} ELSE {}
           /\ i \in Modem => Wanted(i) = IF link[i] # "running" THEN {}
                                         ELSE IF i \in Flapping THEN {"Q6_WAN", "ECM_WAN"} ELSE {"Q6_WAN"}
<1>1. Usb \cap Wlan = {} /\ Wlan \cap Modem = {} /\ Usb \cap Modem = {}
  BY IfaceAssumption
<1> QED BY <1>1 DEF Wanted

LEMMA WantedByNext ==
    ASSUME NEW i \in Ifaces
    PROVE  /\ i \in Wlan => Wanted(i)' = IF mode'[i] = "ap" THEN {"WLAN"} ELSE IF mode'[i] = "sta" THEN {"WLAN_WAN"} ELSE {}
           /\ i \in Usb => Wanted(i)' = IF link'[i] = "running" THEN {"LAN"} ELSE {}
           /\ i \in Modem => Wanted(i)' = IF link'[i] # "running" THEN {}
                                         ELSE IF i \in Flapping THEN {"Q6_WAN", "ECM_WAN"} ELSE {"Q6_WAN"}
<1>1. Usb \cap Wlan = {} /\ Wlan \cap Modem = {} /\ Usb \cap Modem = {}
  BY IfaceAssumption
<1> QED BY <1>1 DEF Wanted

\* The threads that post: nothing changes but links and the external queue.
Posts ==
    /\ UNCHANGED <<intq, cur, cursor, regs, inst, cat, num_wlan_ap_iface>>
    /\ extq' \in Seq(ExtEvents)

LEMMA PostKeeps ==
    ASSUME SInv, IInv', Carrier', Posts, \A i \in Ifaces : Leads(i)'
    PROVE  SInv'
<1>1. Pending' = Pending
  BY SamePending DEF Posts
<1>2. Registered'
  BY DEF SInv, Posts, Registered, Heard
<1>3. EventsOK'
  BY DEF SInv, Posts, EventsOK
<1>4. Deletions'
  BY <1>1 DEF SInv, Posts, Deletions, Dying
<1>5. Classes'
  BY DEF SInv, Posts, Classes, NowIs
<1> QED BY <1>2, <1>3, <1>4, <1>5 DEF SInv

LEMMA PostSoon ==
    ASSUME Posts, NEW i
    PROVE  Soon(i)' = Soon(i)
<1>1. Pending' = Pending
  BY SamePending DEF Posts
<1> QED BY <1>1 DEF Posts, Soon, Due, NowIs

\* An event of another interface changes nothing.
LEMMA AfterOther ==
    ASSUME NEW i, NEW a, NEW e, e.if_index # i
    PROVE  After(i, a, e) = a
BY DEF After

LEMMA QueueAppend ==
    ASSUME NEW q \in Seq(ExtEvents), NEW e \in ExtEvents
    PROVE  Append(q, e) \in Seq(ExtEvents) /\ q \o <<e>> = Append(q, e) /\ q \o <<>> = q
<1>1. Append(q, e) \in Seq(ExtEvents)
  OBVIOUS
<1>2. q \o <<e>> = Append(q, e)
  BY AppendIsConcat
<1>3. q \o <<>> = q
  BY ConcatEmptySeq
<1> QED BY <1>1, <1>2, <1>3

LEMMA NewLinkSettled ==
    ASSUME SInv, IInv', NEW i \in Ifaces, NEW l \in Links(i), NewLink(i, l)
    PROVE  SInv'
<1> DEFINE changed == (link[i] = "down") # (l = "down")
           e1 == Evt(IF l = "down" THEN "LINK_DOWN" ELSE "LINK_UP", i)
           e2 == Evt(IF l = "running" THEN "USB_LINK_UP" ELSE "LINK_DOWN", i)
<1>1. e1 \in ExtEvents /\ e2 \in ExtEvents /\ e1.if_index = i /\ e2.if_index = i
  BY DEF Evt, ExtEvents, Ups, Downs
<1>2. e1.ev = (IF l = "down" THEN "LINK_DOWN" ELSE "LINK_UP") /\ e2.ev = IF l = "running" THEN "USB_LINK_UP" ELSE "LINK_DOWN"
  BY DEF Evt
<1>3. /\ link' = [link EXCEPT ![i] = l] /\ mode' = mode
      /\ UNCHANGED <<intq, cur, cursor, regs, inst, cat, num_wlan_ap_iface>>
      /\ extq' = (extq \o (IF changed THEN <<e1>> ELSE <<>>)) \o <<e2>>
  BY DEF NewLink, objectVars
<1>4. extq \in Seq(ExtEvents) /\ link \in [Ifaces -> {"down", "no carrier", "running"}]
  BY DEF SInv, EventsOK, IInv, LinksOK
<1>4a. /\ link[i] = "down" /\ l = "down" => ~changed
       /\ link[i] # "down" /\ l # "down" => ~changed
       /\ link[i] = "down" /\ l # "down" => changed
       /\ link[i] # "down" /\ l = "down" => changed
  BY Zenon
<1> HIDE DEF e1, e2, changed
<1>4b. changed => extq' = (extq \o <<e1>>) \o <<e2>>
  BY <1>3
<1>4c. ~changed => extq' = (extq \o <<>>) \o <<e2>>
  BY <1>3
<1>4d. /\ Append(extq, e1) \in Seq(ExtEvents) /\ Append(extq, e2) \in Seq(ExtEvents)
       /\ extq \o <<e1>> = Append(extq, e1) /\ extq \o <<>> = extq /\ extq \o <<e2>> = Append(extq, e2)
  BY <1>1, <1>4, QueueAppend
<1>4e. Append(extq, e1) \o <<e2>> = Append(Append(extq, e1), e2) /\ Append(Append(extq, e1), e2) \in Seq(ExtEvents)
  BY <1>1, <1>4d, QueueAppend
<1>5. /\ changed => extq' = Append(Append(extq, e1), e2) /\ extq' \in Seq(ExtEvents)
      /\ ~changed => extq' = Append(extq, e2) /\ extq' \in Seq(ExtEvents)
  BY <1>4b, <1>4c, <1>4d, <1>4e
<1>6. Posts
  BY <1>1, <1>3, <1>4, <1>5 DEF Posts
<1>7. l \in {"down", "running"} \/ (l = "no carrier" /\ i \in Flapping)
  BY DEF Links
<1>8. link'[i] = l /\ \A j \in Ifaces : j # i => link'[j] = link[j]
  BY <1>3, <1>4
<1>9. ASSUME NEW j \in Ifaces PROVE Leads(j)'
  <2>1. PICK z \in States : LeadsTo(j, Soon(j), extq, z) /\ Suits(j, z)
    BY DEF SInv, Leads
  <2>1a. PICK y \in States : y = IF changed THEN After(j, z, e1) ELSE z
    BY <2>1, AfterType
  <2>1b. PICK x \in States : x = After(j, y, e2)
    BY AfterType
  <2>2. LeadsTo(j, Soon(j), extq', x)
    <3>1. CASE changed
      <4>1. LeadsTo(j, Soon(j), Append(extq, e1), After(j, z, e1))
        BY <2>1, <1>1, <1>4, LeadsAppend
      <4>2. LeadsTo(j, Soon(j), Append(Append(extq, e1), e2), After(j, After(j, z, e1), e2))
        BY <4>1, <1>1, <1>4d, LeadsAppend
      <4> QED BY <3>1, <4>2, <1>5, <2>1a, <2>1b
    <3>2. CASE ~changed
      <4>1. LeadsTo(j, Soon(j), Append(extq, e2), After(j, z, e2))
        BY <2>1, <1>1, <1>4, LeadsAppend
      <4> QED BY <3>2, <4>1, <1>5, <2>1a, <2>1b
    <3> QED BY <3>1, <3>2
  <2>3. Suits(j, x)'
    <3>1. CASE j # i
      <4>1. x = z
        BY <3>1, <1>1, <2>1a, <2>1b, AfterOther
      <4>2. Wanted(j)' = Wanted(j)
        BY <3>1, <1>3, <1>8 DEF Wanted
      <4> QED BY <4>1, <4>2, <2>1 DEF Suits
    <3>2. CASE j = i /\ i \in Wlan
      <4>1. x = z
        BY <3>2, <1>1, <1>2, <2>1a, <2>1b DEF After, Makes
      <4>2. Wanted(j)' = Wanted(j)
        BY <3>2, <1>3, WantedBy, WantedByNext
      <4> QED BY <4>1, <4>2, <2>1 DEF Suits
    <3>3. CASE j = i /\ i \in Usb
      <4>0. i \notin Wlan /\ i \notin Modem
        BY <3>3, IfaceAssumption
      <4>1. z = IF link[i] = "running" THEN "LAN" ELSE "none"
        BY <2>1, <3>3, WantedBy DEF Suits
      <4>2. x = IF l = "running" THEN "LAN" ELSE "none"
        BY <3>3, <4>0, <4>1, <1>1, <1>2, <1>4a, <1>7, <2>1a, <2>1b DEF After, Makes
      <4> QED BY <3>3, <4>2, <1>8, WantedByNext DEF Suits
    <3>4. CASE j = i /\ i \in Modem
      <4>0. i \notin Wlan /\ i \notin Usb
        BY <3>4, IfaceAssumption
      <4>1. IF link[i] = "running" THEN z \in (IF i \in Flapping THEN {"Q6_WAN", "ECM_WAN"} ELSE {"Q6_WAN"}) ELSE z = "none"
        BY <2>1, <3>4, WantedBy DEF Suits
      <4>2. IF l = "running" THEN x \in (IF i \in Flapping THEN {"Q6_WAN", "ECM_WAN"} ELSE {"Q6_WAN"}) ELSE x = "none"
        <5>1. CASE l # "running"
          BY <5>1, <3>4, <4>0, <1>1, <1>2, <2>1b DEF After
        <5>2. CASE l = "running"
          <6>1. x = IF y = "none" THEN "ECM_WAN" ELSE y
            BY <5>2, <3>4, <4>0, <1>1, <1>2, <2>1b DEF After, Makes
          <6>2. CASE link[i] = "down"
            <7>0. changed /\ z = "none" /\ e1.ev = "LINK_UP"
              BY <6>2, <5>2, <4>1, <1>2, <1>4a
            <7>0a. y = After(i, "none", e1)
              BY <7>0, <3>4, <2>1a
            <7>0b. After(i, "none", e1) = "Q6_WAN"
              BY <7>0, <3>4, <4>0, <1>1 DEF After, Makes
            <7>1. y = "Q6_WAN"
              BY <7>0a, <7>0b
            <7> QED BY <7>1, <6>1, <5>2
          <6>3. CASE link[i] = "running"
            BY <6>3, <6>1, <5>2, <4>1, <1>4a, <2>1a
          <6>4. CASE link[i] = "no carrier"
            <7>1. i \in Flapping
              BY <6>4 DEF SInv, Carrier
            <7> QED BY <7>1, <6>4, <6>1, <5>2, <4>1, <1>4a, <2>1a
          <6> QED BY <6>2, <6>3, <6>4, <1>4
        <5> QED BY <5>1, <5>2
      <4> QED BY <3>4, <4>2, <1>8, WantedByNext DEF Suits
    <3> QED BY <3>1, <3>2, <3>3, <3>4 DEF Ifaces
  <2>4. Soon(j)' = Soon(j)
    BY <1>6, PostSoon
  <2> QED BY <2>2, <2>3, <2>4 DEF Leads
<1>10. Carrier'
  BY <1>7, <1>8 DEF SInv, Carrier
<1> QED BY <1>6, <1>9, <1>10, PostKeeps

LEMMA WlanDriverSettled ==
    ASSUME SInv, IInv', NEW i \in Wlan, NEW m \in {"off", "ap", "sta"}, WlanDriver(i, m)
    PROVE  SInv'
<1> DEFINE v == CASE m = "ap" -> "WLAN_AP_LINK_UP" [] m = "sta" -> "WLAN_STA_LINK_UP" [] m = "off" -> "WLAN_LINK_DOWN"
           e == Evt(v, i)
<1>0. i \in Ifaces /\ i \notin Usb /\ i \notin Modem
  BY IfaceAssumption DEF Ifaces
<1>1. v = IF m = "ap" THEN "WLAN_AP_LINK_UP" ELSE IF m = "sta" THEN "WLAN_STA_LINK_UP" ELSE "WLAN_LINK_DOWN"
  OBVIOUS
<1>2. /\ mode' = [mode EXCEPT ![i] = m] /\ link' = link /\ (mode[i] = "off") # (m = "off")
      /\ UNCHANGED <<intq, cur, cursor, regs, inst, cat, num_wlan_ap_iface>>
      /\ extq' = Append(extq, e)
  BY DEF WlanDriver, objectVars
<1>2a. ~((mode[i] = "off") <=> (m = "off"))
  BY <1>2, Zenon
<1> HIDE DEF v
<1>3. e \in ExtEvents /\ e.if_index = i /\ e.ev = v
  BY <1>0, <1>1 DEF Evt, ExtEvents, Ups, Downs
<1> HIDE DEF e
<1>4. extq \in Seq(ExtEvents) /\ mode \in [Wlan -> {"off", "ap", "sta"}]
  BY DEF SInv, EventsOK, IInv, LinksOK
<1>5. Posts
  BY <1>2, <1>3, <1>4 DEF Posts
<1>6. mode'[i] = m /\ \A j \in Wlan : j # i => mode'[j] = mode[j]
  BY <1>2, <1>4
<1>7. ASSUME NEW j \in Ifaces PROVE Leads(j)'
  <2>1. PICK z \in States : LeadsTo(j, Soon(j), extq, z) /\ Suits(j, z)
    BY DEF SInv, Leads
  <2>1a. PICK x \in States : x = After(j, z, e)
    BY <2>1, AfterType
  <2>2. LeadsTo(j, Soon(j), extq', x)
    BY <2>1, <2>1a, <1>2, <1>3, <1>4, LeadsAppend
  <2>3. Suits(j, x)'
    <3>1. CASE j # i
      <4>1. x = z
        BY <3>1, <1>3, <2>1a, AfterOther
      <4>2. Wanted(j)' = Wanted(j)
        BY <3>1, <1>2, <1>6 DEF Wanted
      <4> QED BY <4>1, <4>2, <2>1 DEF Suits
    <3>2. CASE j = i
      <4>1. z = IF mode[i] = "ap" THEN "WLAN" ELSE IF mode[i] = "sta" THEN "WLAN_WAN" ELSE "none"
        BY <2>1, <3>2, <1>0, WantedBy DEF Suits
      <4>2. x = IF m = "ap" THEN "WLAN" ELSE IF m = "sta" THEN "WLAN_WAN" ELSE "none"
        BY <3>2, <4>1, <1>1, <1>2a, <1>3, <1>4, <2>1a DEF After, Makes
      <4> QED BY <3>2, <4>2, <1>0, <1>6, WantedByNext DEF Suits
    <3> QED BY <3>1, <3>2
  <2>4. Soon(j)' = Soon(j)
    BY <1>5, PostSoon
  <2> QED BY <2>2, <2>3, <2>4 DEF Leads
<1>8. Carrier'
  BY <1>2 DEF SInv, Carrier
<1> QED BY <1>5, <1>7, <1>8, PostKeeps

\* A callback that changes neither what is to come of any interface nor the order
\* of deletions.
LEMMA CallbackKeeps ==
    ASSUME SInv, IInv', NEW obj, Call(obj), Registered', Deletions', Classes',
           \A k \in Ifaces : Soon(k)' = Soon(k)
    PROVE  SInv'
<1>1. link' = link /\ mode' = mode /\ extq' = extq /\ cur' = cur
  BY DEF Call, kernelVars
<1>2. Carrier' /\ EventsOK'
  BY <1>1 DEF SInv, Carrier, EventsOK
<1>3. \A k \in Ifaces : Leads(k)'
  BY <1>1, SameLeads DEF SInv
<1> QED BY <1>2, <1>3 DEF SInv

\* What holds when a callback starts.
LEMMA AtCall ==
    ASSUME SInv, NEW obj, Call(obj)
    PROVE  /\ ObjectsOK /\ regs \in Seq(NodeSet) /\ inst \in [Ifaces -> Objects \cup {NULL}] /\ cat \in [Ifaces -> Cats]
           /\ Once(regs) /\ NoStaleNode /\ NodesOrdered /\ Registered /\ EventsOK /\ Deletions /\ Classes
           /\ obj \in Pending /\ cur # NULL /\ cur' = cur /\ (cur \in ExtEvents \/ cur \in DelSelf)
<1>1. /\ ObjectsOK /\ regs \in Seq(NodeSet) /\ inst \in [Ifaces -> Objects \cup {NULL}] /\ cat \in [Ifaces -> Cats]
      /\ Once(regs) /\ NoStaleNode /\ NodesOrdered /\ Registered /\ EventsOK /\ Deletions /\ Classes
  BY DEF SInv, IInv, ObjectsOK, CatOK, Registered
<1>2. obj \in Pending /\ cur # NULL
  BY <1>1, CalledIsPending
<1>3. cur' = cur
  BY DEF Call
<1> QED BY <1>1, <1>2, <1>3 DEF EventsOK

\* While an event from outside has still to reach its listener, nothing waits inside.
LEMMA NothingDying ==
    ASSUME Deletions, cur \in ExtEvents, NEW i \in Ifaces, cur.if_index = i, cur.ev \in Ups \/ i \in Pending
    PROVE  intq = <<>> /\ \A k \in Ifaces : ~Dying(k)
<1>1. intq = <<>>
  BY EventNames, EventTypes DEF Deletions
<1>2. ASSUME NEW k \in Ifaces, Dying(k) PROVE FALSE
  <2>1. <<>> # <<DelEvt(k)>> /\ cur # DelEvt(k)
    BY EventTypes
  <2> QED BY <1>1, <1>2, <2>1 DEF Deletions
<1> QED BY <1>1, <1>2

\* The callback keeps the registrations.
LEMMA CallKeepsPending ==
    ASSUME SInv, NEW obj, Call(obj), regs' = regs
    PROVE  Pending' = Pending \ {obj}
<1>1. regs \in Seq(NodeSet) /\ Once(regs) /\ NoStaleNode /\ Len(regs) \in Nat
  BY AtCall
<1>2. \A k \in 1 .. Len(regs') : ~(Len(regs) < k)
  BY <1>1
<1> QED BY <1>1, <1>2, CallPending

LEMMA IgnoreSettled ==
    ASSUME SInv, IInv', NEW i \in Ifaces, Ignore(i)
    PROVE  SInv'
<1>1. Call(i) /\ Ignores(i) /\ inst[i] # NULL
      /\ regs' = regs /\ inst' = inst /\ cat' = cat /\ intq' = intq
  BY DEF Ignore, objectVars
<1>2. /\ inst \in [Ifaces -> Objects \cup {NULL}] /\ Registered /\ Deletions /\ Classes
      /\ i \in Pending /\ cur # NULL /\ cur' = cur /\ (cur \in ExtEvents \/ cur \in DelSelf)
  BY <1>1, AtCall
<1>3. Pending' = Pending \ {i}
  BY <1>1, CallKeepsPending
<1>4. Registered' /\ Classes'
  BY <1>1, <1>2 DEF Registered, Heard, Classes, NowIs
<1>5. \A k : (Dying(k)' <=> Dying(k)) /\ NowIs(k)' = NowIs(k)
  BY <1>1 DEF Dying, NowIs
<1>6. cur # DelEvt(i)
  BY <1>1, EventTypes DEF Ignores
<1>7. Deletions'
  <2>1. \A j \in Ifaces : intq' = <<DelEvt(j)>> <=> intq = <<DelEvt(j)>>
    BY <1>1
  <2>2. intq' = <<>> <=> intq = <<>>
    BY <1>1
  <2>3. intq' = <<>> \/ \E j \in Ifaces :
         /\ intq' = <<DelEvt(j)>> /\ Dying(j)'
         /\ cur' # NULL => cur'.ev \in Downs /\ cur'.if_index = j /\ j \notin Pending'
    BY <1>2, <1>3, <1>5, <2>1, <2>2 DEF Deletions
  <2>4. ASSUME NEW k \in Ifaces, Dying(k)'
        PROVE  inst'[k].kind \in {"LAN", "WLAN"} /\ (intq' = <<DelEvt(k)>> \/ (cur' = DelEvt(k) /\ k \in Pending'))
    BY <2>4, <1>1, <1>2, <1>3, <1>5, <1>6 DEF Deletions
  <2>5. ASSUME NEW k \in Pending', cur' = DelEvt(k) PROVE Dying(k)'
    BY <2>5, <1>2, <1>3, <1>5 DEF Deletions
  <2> QED BY <2>3, <2>4, <2>5 DEF Deletions
<1>8. ASSUME NEW k \in Ifaces PROVE Soon(k)' = Soon(k)
  <2>1. ASSUME Due(k) PROVE Due(k)'
    <3>1. cur \in ExtEvents /\ cur.if_index = k /\ (IF cur.ev \in Ups THEN Mgr ELSE k) \in Pending
      BY <2>1 DEF Due
    <3>2. ASSUME k = i, cur.ev \notin Ups PROVE FALSE
      <4>1. ~Dying(i)
        BY <3>1, <3>2, <1>2, NothingDying
      <4>2. cur.if_index = i
        BY <3>1, <3>2
      <4> QED BY <4>1, <4>2, <1>1 DEF Ignores, Dying
    <3>3. Mgr # i
      BY ConstFacts
    <3> QED BY <3>1, <3>2, <3>3, <1>2, <1>3 DEF Due
  <2>2. ASSUME Due(k)' PROVE Due(k)
    BY <2>2, <1>2, <1>3 DEF Due
  <2> QED BY <2>1, <2>2, <1>2, <1>5 DEF Soon
<1> QED BY <1>1, <1>4, <1>7, <1>8, CallbackKeeps

LEMMA TakeSettled ==
    ASSUME SInv, IInv', Take
    PROVE  SInv'
<1>1. /\ cur = NULL /\ link' = link /\ mode' = mode
      /\ regs' = regs /\ inst' = inst /\ cat' = cat
  BY DEF Take, kernelVars, objectVars
<1>2. /\ ObjectsOK /\ inst \in [Ifaces -> Objects \cup {NULL}] /\ Registered /\ Deletions /\ Classes
      /\ extq \in Seq(ExtEvents) /\ intq \in Seq(DelSelf) /\ \A k \in Ifaces : Leads(k)
  BY DEF SInv, IInv, ObjectsOK, EventsOK, QueueOK
<1>3. Carrier' /\ Registered' /\ Classes'
  BY <1>1 DEF SInv, Carrier, Registered, Heard, Classes, NowIs
<1>4. \A k : (Dying(k)' <=> Dying(k)) /\ NowIs(k)' = NowIs(k)
  BY <1>1 DEF Dying, NowIs
<1>5. \A k \in Ifaces : Soon(k) = NowIs(k)
  BY <1>1, EventTypes DEF Soon, Due
<1>6. ASSUME NEW k \in Ifaces, Dying(k) PROVE inst[k].kind \in {"LAN", "WLAN"} /\ intq = <<DelEvt(k)>>
  BY <1>1, <1>2, <1>6, EventTypes DEF Deletions
<1>7. CASE intq # <<>>
  <2>1. PICK j \in Ifaces : intq = <<DelEvt(j)>> /\ Dying(j)
    BY <1>2, <1>7 DEF Deletions
  <2>2. cur' = Head(intq) /\ intq' = Tail(intq) /\ extq' = extq
    BY <1>7 DEF Take, FirstQueue
  <2>3. cur' = DelEvt(j) /\ intq' = <<>>
    <3>1. \A e : Head(<<e>>) = e /\ Tail(<<e>>) = <<>>
      OBVIOUS
    <3> QED BY <2>1, <2>2, <3>1
  <2>4. cur' \in DelSelf /\ cur' \notin ExtEvents /\ cur'.ev = "LAN_DELETE_SELF" /\ cur'.ev \in EvNames /\ cur' # NULL
    BY <2>3, EventTypes, EventNames
  <2>5. EventsOK'
    BY <1>2, <2>2, <2>4 DEF EventsOK
  <2>6. j \in Pending'
    <3>1. inst[j] # NULL /\ inst[j].kind \in Kinds /\ inst[j].kind \in {"LAN", "WLAN"} /\ j # Mgr
      BY <1>2, <1>6, <2>1, ConstFacts DEF Dying, Objects
    <3>2. "LAN_DELETE_SELF" \in Heard(j)
      BY <3>1, HearsFacts DEF Heard
    <3> QED BY <1>2, <2>4, <3>2, TakeCalls
  <2>7. Deletions'
    <3>1. ASSUME NEW k \in Ifaces, Dying(k)'
          PROVE  inst'[k].kind \in {"LAN", "WLAN"} /\ (intq' = <<DelEvt(k)>> \/ (cur' = DelEvt(k) /\ k \in Pending'))
      <4>1. intq = <<DelEvt(k)>> /\ inst[k].kind \in {"LAN", "WLAN"}
        BY <3>1, <1>4, <1>6
      <4>2. <<DelEvt(k)>> = <<DelEvt(j)>>
        BY <4>1, <2>1
      <4>3. k = j
        BY <4>2, OneDeletion
      <4> QED BY <4>1, <4>3, <1>1, <2>3, <2>6
    <3>2. ASSUME NEW k \in Pending', cur' = DelEvt(k) PROVE Dying(k)'
      <4>1. k = j
        <5>1. DelEvt(k).if_index = k /\ DelEvt(j).if_index = j
          BY DEF DelEvt
        <5> QED BY <5>1, <3>2, <2>3
      <4> QED BY <4>1, <2>1, <1>4
    <3> QED BY <2>3, <3>1, <3>2 DEF Deletions
  <2>8. \A k \in Ifaces : Soon(k)' = Soon(k)
    BY <1>4, <1>5, <2>4 DEF Soon, Due
  <2>9. \A k \in Ifaces : Leads(k)'
    BY <1>1, <1>2, <2>2, <2>8, SameLeads
  <2> QED BY <1>3, <2>5, <2>7, <2>9 DEF SInv
<1>8. CASE intq = <<>>
  <2>1. extq # <<>> /\ cur' = Head(extq) /\ extq' = Tail(extq) /\ intq' = <<>>
    BY <1>8 DEF Take, FirstQueue
  <2>2. cur' \in ExtEvents /\ extq' \in Seq(ExtEvents)
    BY <1>2, <2>1
  <2>3. cur' # NULL /\ cur'.ev \in Ups \cup Downs /\ cur'.ev \in EvNames /\ cur' \notin DelSelf /\ cur'.if_index \in Ifaces
    BY <2>2, EventTypes, EventNames
  <2>4. EventsOK'
    BY <2>2 DEF EventsOK
  <2>5. \A k \in Ifaces : ~Dying(k)
    <3>1. \A k : <<>> # <<DelEvt(k)>>
      OBVIOUS
    <3> QED BY <1>6, <1>8, <3>1
  <2>6. Deletions'
    <3>1. \A k : cur' # DelEvt(k)
      <4>1. \A k : DelEvt(k).ev = "LAN_DELETE_SELF"
        BY DEF DelEvt
      <4> QED BY <4>1, <2>3, EventNames
    <3> QED BY <2>1, <2>5, <1>4, <3>1 DEF Deletions
  <2>7. ASSUME NEW k \in Ifaces PROVE Soon(k)' = After(k, NowIs(k), cur')
    <3>1. CASE Due(k)'
      BY <3>1, <1>4 DEF Soon
    <3>2. CASE ~Due(k)'
      <4>0. Soon(k)' = NowIs(k)
        BY <3>2, <1>4 DEF Soon
      <4>1. CASE cur'.if_index # k
        BY <4>0, <4>1, AfterOther
      <4>2. CASE cur'.if_index = k
        <5>1. cur'.ev \in Downs /\ k \notin Pending'
          <6>1. Mgr \in Pending' <=> cur'.ev \in Ups
            BY <1>2, <2>3, TakeCalls DEF Heard
          <6> QED BY <6>1, <4>2, <3>2, <2>2, <2>3 DEF Due
        <5>2. cur'.ev \notin Heard(k)
          BY <5>1, <1>2, <2>3, TakeCalls
        <5>3. k # Mgr
          BY ConstFacts
        <5>4. CASE inst[k] = NULL
          BY <5>4, <5>1, <4>0, <4>2 DEF NowIs, After, Makes, Downs
        <5>5. CASE inst[k] # NULL
          <6>1. NowIs(k) = inst[k].kind /\ inst[k].kind \in Kinds /\ inst[k].kind \in KindsOf(k)
            BY <5>5, <2>5, <1>2 DEF NowIs, Dying, Objects, Classes
          <6>2. cur'.ev \notin Hears(inst[k].kind)
            BY <5>2, <5>3, <5>5 DEF Heard
          <6>3. inst[k].kind # "none"
            BY <6>1 DEF Kinds
          <6>4. cur'.ev # IF k \in Wlan THEN "WLAN_LINK_DOWN" ELSE "LINK_DOWN"
            BY <6>1, <6>2, HearsFacts, IfaceAssumption DEF KindsOf, Ifaces
          <6> QED BY <6>1, <6>3, <6>4, <4>0, <4>2 DEF After
        <5> QED BY <5>4, <5>5
      <4> QED BY <4>1, <4>2
    <3> QED BY <3>1, <3>2
  <2>8. ASSUME NEW k \in Ifaces PROVE Leads(k)'
    <3>1. PICK z \in States : LeadsTo(k, Soon(k), extq, z) /\ Suits(k, z)
      BY <1>2 DEF Leads
    <3>2. LeadsTo(k, After(k, NowIs(k), Head(extq)), Tail(extq), z)
      BY <3>1, <1>2, <1>5, <2>1, LeadsTail
    <3>3. LeadsTo(k, Soon(k)', extq', z)
      BY <3>2, <2>1, <2>7
    <3>4. Wanted(k)' = Wanted(k)
      BY <1>1 DEF Wanted
    <3>5. Suits(k, z)'
      BY <3>1, <3>4 DEF Suits
    <3> QED BY <3>3, <3>5 DEF Leads
  <2> QED BY <1>3, <2>4, <2>6, <2>8 DEF SInv
<1> QED BY <1>7, <1>8

LEMMA FinishSettled ==
    ASSUME SInv, IInv', Finish
    PROVE  SInv'
<1>1. /\ cur' = NULL /\ cursor' = NULL /\ Matches = {} /\ link' = link /\ mode' = mode /\ extq' = extq
      /\ regs' = regs /\ inst' = inst /\ cat' = cat /\ intq' = intq
  BY DEF Finish, kernelVars, objectVars
<1>2. Deletions /\ regs \in Seq(NodeSet) /\ \A k \in Ifaces : Leads(k)
  BY DEF SInv, IInv, ObjectsOK
<1>3. Carrier' /\ Registered' /\ Classes' /\ EventsOK'
  BY <1>1 DEF SInv, Carrier, Registered, Heard, Classes, NowIs, EventsOK
<1>4. \A k : (Dying(k)' <=> Dying(k)) /\ NowIs(k)' = NowIs(k)
  BY <1>1 DEF Dying, NowIs
<1>5. Pending = {} /\ Pending' = {}
  <2>1. Matches' = {}
    BY <1>1, <1>2, NullNode DEF Matches
  <2> QED BY <1>1, <2>1 DEF Pending
<1>6. Deletions'
  BY <1>1, <1>2, <1>4, <1>5 DEF Deletions
<1>7. \A k \in Ifaces : Soon(k)' = Soon(k)
  BY <1>4, <1>5 DEF Soon, Due
<1>8. \A k \in Ifaces : Leads(k)'
  BY <1>1, <1>2, <1>7, SameLeads
<1> QED BY <1>3, <1>6, <1>8 DEF SInv

LEMMA StutterSettled ==
    ASSUME SInv, IInv', UNCHANGED vars
    PROVE  SInv'
<1>1. /\ UNCHANGED <<intq, cur, cursor, regs, inst, cat, num_wlan_ap_iface>> /\ link' = link /\ mode' = mode
      /\ extq' = extq /\ extq \in Seq(ExtEvents)
  BY DEF vars, SInv, EventsOK
<1>2. Posts
  BY <1>1 DEF Posts
<1>3. Carrier'
  BY <1>1 DEF SInv, Carrier
<1>4. \A k \in Ifaces : Soon(k)' = Soon(k)
  BY <1>2, PostSoon
<1>5. \A k \in Ifaces : Leads(k)'
  BY <1>1, <1>4, SameLeads DEF SInv
<1> QED BY <1>2, <1>3, <1>5, PostKeeps

\* The kind of an object tells the kind of its interface.
LEMMA KindTells ==
    ASSUME NEW i \in Ifaces, NEW kind \in KindsOf(i)
    PROVE  /\ kind = "LAN" => i \in Usb /\ i \notin Wlan /\ i \notin Modem
           /\ kind \in {"WLAN", "WLAN_WAN"} => i \in Wlan /\ i \notin Usb /\ i \notin Modem
           /\ kind \in {"Q6_WAN", "ECM_WAN"} => i \in Modem /\ i \notin Usb /\ i \notin Wlan
<1>1. Usb \cap Wlan = {} /\ Wlan \cap Modem = {} /\ Usb \cap Modem = {}
  BY IfaceAssumption
<1> QED BY <1>1 DEF KindsOf, Ifaces

\* The event that shuts the object of an interface down.
LEMMA DownEvent ==
    ASSUME SInv, NEW i \in Ifaces, NEW kinds, NEW ev \in Downs, Handles(i, kinds, ev),
           kinds \subseteq Kinds, ev = "WLAN_LINK_DOWN" <=> kinds \subseteq {"WLAN", "WLAN_WAN"},
           ev = "LINK_DOWN" => kinds \cap {"WLAN", "WLAN_WAN"} = {}
    PROVE  /\ Call(i) /\ cur' = cur /\ cur \in ExtEvents /\ cur.if_index = i /\ cur.ev \in Downs /\ cur.ev \notin Ups
           /\ i \in Pending /\ intq = <<>> /\ \A k \in Ifaces : ~Dying(k)
           /\ inst[i] # NULL /\ inst[i].kind \in kinds /\ inst[i].is_active
           /\ Due(i) /\ Soon(i) = "none"
<1>1. Call(i) /\ cur # NULL /\ cur.ev = ev /\ inst[i] # NULL /\ inst[i].kind \in kinds /\ ~Ignores(i)
  BY DEF Handles
<1>2. cur' = cur /\ i \in Pending /\ (cur \in ExtEvents \/ cur \in DelSelf) /\ Deletions /\ Classes
  BY <1>1, AtCall
<1>3. cur.if_index = i
  BY <1>1 DEF Ignores
<1>4. cur \in ExtEvents /\ ev \notin Ups
  BY <1>1, <1>2, EventTypes, EventNames
<1>5. intq = <<>> /\ \A k \in Ifaces : ~Dying(k)
  BY <1>2, <1>3, <1>4, NothingDying
<1>6. inst[i].is_active
  BY <1>1, <1>5 DEF Dying
<1>7. Due(i)
  BY <1>1, <1>2, <1>3, <1>4 DEF Due
<1>8. ev = IF i \in Wlan THEN "WLAN_LINK_DOWN" ELSE "LINK_DOWN"
  <2>1. inst[i].kind \in KindsOf(i)
    BY <1>1, <1>2 DEF Classes
  <2>2. ev \in {"LINK_DOWN", "WLAN_LINK_DOWN"}
    BY DEF Downs
  <2> QED BY <1>1, <2>1, <2>2, KindTells DEF Kinds
<1>9. Soon(i) = "none"
  BY <1>1, <1>3, <1>7, <1>8 DEF Soon, After
<1> QED BY <1>1, <1>2, <1>3, <1>4, <1>5, <1>6, <1>7, <1>9

\* What is to come of the other interfaces does not change.
LEMMA OthersSoon ==
    ASSUME NEW i \in Ifaces, cur' = cur, cur.if_index = i, NEW k \in Ifaces, k # i, NowIs(k)' = NowIs(k)
    PROVE  Soon(k)' = Soon(k)
BY DEF Soon, Due

LEMMA HandleDownSettled ==
    ASSUME SInv, IInv', NEW i \in Ifaces, LanDown(i) \/ WlanDown(i)
    PROVE  SInv'
<1>0. "LINK_DOWN" \in Downs /\ "WLAN_LINK_DOWN" \in Downs /\ {"LAN"} \subseteq Kinds /\ {"WLAN"} \subseteq Kinds
  BY DEF Downs, Kinds
<1>1. /\ Call(i) /\ cur' = cur /\ cur \in ExtEvents /\ cur.if_index = i /\ cur.ev \in Downs /\ cur.ev \notin Ups
      /\ i \in Pending /\ intq = <<>> /\ \A k \in Ifaces : ~Dying(k)
      /\ inst[i] # NULL /\ inst[i].kind \in {"LAN", "WLAN"} /\ inst[i].is_active /\ Soon(i) = "none"
  <2>1. CASE LanDown(i)
    <3>1. Handles(i, {"LAN"}, "LINK_DOWN")
      BY <2>1 DEF LanDown
    <3> QED BY <1>0, <3>1, DownEvent
  <2>2. CASE WlanDown(i)
    <3>1. Handles(i, {"WLAN"}, "WLAN_LINK_DOWN")
      BY <2>2 DEF WlanDown
    <3> QED BY <1>0, <3>1, DownEvent
  <2> QED BY <2>1, <2>2
<1>2. inst \in [Ifaces -> Objects \cup {NULL}] /\ cat \in [Ifaces -> Cats] /\ Registered /\ Classes
  BY <1>1, AtCall
<1>3. inst' = [inst EXCEPT ![i].is_active = FALSE] /\ regs' = regs /\ intq' = Append(intq, DelEvt(i))
  BY DEF LanDown, WlanDown, handle_down_evt, post_del_self_evt, Evt, DelEvt
<1>4. intq' = <<DelEvt(i)>>
  BY <1>1, <1>3
<1>5. /\ inst'[i] \in Objects /\ inst'[i] # NULL /\ ~inst'[i].is_active /\ inst'[i].kind = inst[i].kind
      /\ \A k \in Ifaces : k # i => inst'[k] = inst[k]
  <2>1. inst[i] \in Objects
    BY <1>1, <1>2
  <2>2. inst'[i] = [inst[i] EXCEPT !.is_active = FALSE] /\ \A k \in Ifaces : k # i => inst'[k] = inst[k]
    BY <1>2, <1>3
  <2>3. inst'[i] \in Objects /\ ~inst'[i].is_active /\ inst'[i].kind = inst[i].kind
    BY <2>1, <2>2 DEF Objects
  <2> QED BY <2>2, <2>3, ConstFacts
<1>6. Pending' = Pending \ {i}
  BY <1>1, <1>3, CallKeepsPending
<1>7. Registered'
  <2>1. \A obj \in Ifaces \cup {Mgr} : Heard(obj)' = Heard(obj)
    BY <1>1, <1>5 DEF Heard
  <2> QED BY <1>2, <1>3, <2>1 DEF Registered
<1>8. /\ Dying(i)' /\ NowIs(i)' = "none"
      /\ \A k \in Ifaces : k # i => ~Dying(k)' /\ NowIs(k)' = NowIs(k)
  BY <1>1, <1>5 DEF Dying, NowIs
<1>9. \A k : cur' # DelEvt(k)
  <2>1. \A k : DelEvt(k).ev = "LAN_DELETE_SELF"
    BY DEF DelEvt
  <2> QED BY <1>1, <2>1, EventNames
<1>10. Deletions'
  <2>1. /\ intq' = <<DelEvt(i)>> /\ Dying(i)'
        /\ cur' # NULL => cur'.ev \in Downs /\ cur'.if_index = i /\ i \notin Pending'
    BY <1>1, <1>4, <1>6, <1>8
  <2>2. ASSUME NEW k \in Ifaces, Dying(k)' PROVE k = i /\ inst'[k].kind \in {"LAN", "WLAN"}
    BY <2>2, <1>1, <1>5, <1>8
  <2> QED BY <1>9, <2>1, <2>2 DEF Deletions
<1>11. Classes'
  <2>1. inst[i].kind \in KindsOf(i) /\ cat[i] = CatOf(i, NowIs(i))
    BY <1>1, <1>2 DEF Classes
  <2>2. cat'[i] = CatOf(i, "none") /\ \A k \in Ifaces : k # i => cat'[k] = cat[k]
    <3>1. CASE LanDown(i)
      <4>1. cat' = cat /\ inst[i].kind = "LAN"
        BY <3>1 DEF LanDown, Handles
      <4>2. i \in Usb
        BY <4>1, <2>1, KindTells
      <4> QED BY <4>1, <4>2, <2>1 DEF CatOf
    <3>2. CASE WlanDown(i)
      <4>1. cat' = [cat EXCEPT ![i] = "UNKNOWN"] /\ inst[i].kind = "WLAN"
        BY <3>2 DEF WlanDown, Handles
      <4>2. i \notin Usb /\ i \notin Modem
        BY <4>1, <2>1, KindTells
      <4>3. cat'[i] = "UNKNOWN" /\ \A k \in Ifaces : k # i => cat'[k] = cat[k]
        BY <4>1, <1>2
      <4> QED BY <4>2, <4>3 DEF CatOf
    <3> QED BY <3>1, <3>2
  <2>3. ASSUME NEW k \in Ifaces
        PROVE  (inst'[k] # NULL => inst'[k].kind \in KindsOf(k)) /\ cat'[k] = CatOf(k, NowIs(k)')
    <3>1. CASE k = i
      BY <3>1, <2>1, <2>2, <1>5, <1>8
    <3>2. CASE k # i
      BY <3>2, <2>2, <1>2, <1>5, <1>8 DEF Classes
    <3> QED BY <3>1, <3>2
  <2> QED BY <2>3 DEF Classes, CatOf, KindsOf
<1>12. ASSUME NEW k \in Ifaces PROVE Soon(k)' = Soon(k)
  <2>1. CASE k = i
    <3>1. ~Due(i)'
      BY <1>1, <1>6 DEF Due
    <3> QED BY <2>1, <3>1, <1>1, <1>8 DEF Soon
  <2>2. CASE k # i
    BY <2>2, <1>1, <1>8, OthersSoon
  <2> QED BY <2>1, <2>2
<1> QED BY <1>1, <1>7, <1>10, <1>11, <1>12, CallbackKeeps

\* An object takes itself out of both lists.
LEMMA TakesItselfOut ==
    ASSUME SInv, NEW i \in Ifaces, Call(i), DeleteThis(i), cur.ev = LastEvent(inst[i].kind)
    PROVE  /\ Registered' /\ Pending' = Pending \ {i} /\ inst'[i] = NULL /\ NowIs(i)' = "none" /\ ~Dying(i)'
           /\ \A k \in Ifaces : k # i => inst'[k] = inst[k] /\ NowIs(k)' = NowIs(k) /\ (Dying(k)' <=> Dying(k))
<1>1. /\ ObjectsOK /\ regs \in Seq(NodeSet) /\ inst \in [Ifaces -> Objects \cup {NULL}]
      /\ Once(regs) /\ NoStaleNode /\ NodesOrdered /\ Registered
  BY AtCall
<1>2. inst' = [inst EXCEPT ![i] = NULL] /\ TakenOut(regs', regs, i)
  <2>1. inst' = [inst EXCEPT ![i] = NULL] /\ regs' = Without(regs, i)
    BY DEF DeleteThis, deregistr
  <2>2. TakenOut(Without(regs, i), regs, i)
    BY <1>1, WithoutHas
  <2> QED BY <2>1, <2>2
<1>3. Registered'
  BY <1>1, <1>2, DeleteRegistered
<1>4. Pending' = Pending \ {i}
  BY <1>1, <1>2, DeletePending
<1>5. inst'[i] = NULL /\ \A k \in Ifaces : k # i => inst'[k] = inst[k]
  BY <1>1, <1>2
<1> QED BY <1>3, <1>4, <1>5 DEF NowIs, Dying

\* The categories and classes when an object is gone.
LEMMA GoneClasses ==
    ASSUME Classes, NEW i \in Ifaces, inst'[i] = NULL, NowIs(i)' = "none", cat'[i] = CatOf(i, "none"),
           \A k \in Ifaces : k # i => inst'[k] = inst[k] /\ NowIs(k)' = NowIs(k) /\ cat'[k] = cat[k]
    PROVE  Classes'
<1>1. ASSUME NEW k \in Ifaces
      PROVE  (inst'[k] # NULL => inst'[k].kind \in KindsOf(k)) /\ cat'[k] = CatOf(k, NowIs(k)')
  BY DEF Classes
<1> QED BY <1>1 DEF Classes, CatOf, KindsOf

LEMMA DeleteSelfSettled ==
    ASSUME SInv, IInv', NEW i \in Ifaces, LanDeleteSelf(i) \/ WlanDeleteSelf(i)
    PROVE  SInv'
<1>1. /\ Call(i) /\ cur # NULL /\ cur.ev = "LAN_DELETE_SELF" /\ inst[i] # NULL /\ inst[i].kind \in {"LAN", "WLAN"}
      /\ ~Ignores(i) /\ DeleteThis(i) /\ cat' = cat /\ intq' = intq
  BY DEF LanDeleteSelf, WlanDeleteSelf, Handles
<1>2. /\ cur' = cur /\ i \in Pending /\ (cur \in ExtEvents \/ cur \in DelSelf) /\ Deletions /\ Classes
      /\ inst \in [Ifaces -> Objects \cup {NULL}]
  BY <1>1, AtCall
<1>3. cur.if_index = i
  BY <1>1 DEF Ignores
<1>4. cur \in DelSelf /\ cur \notin ExtEvents /\ cur = DelEvt(i) /\ cur.ev \notin Downs
  BY <1>1, <1>2, <1>3, EventTypes, EventNames
<1>5. Dying(i) /\ intq = <<>>
  BY <1>1, <1>2, <1>4 DEF Deletions
<1>6. cur.ev = LastEvent(inst[i].kind)
  BY <1>1 DEF LastEvent
<1>7. /\ Registered' /\ Pending' = Pending \ {i} /\ inst'[i] = NULL /\ NowIs(i)' = "none" /\ ~Dying(i)'
      /\ \A k \in Ifaces : k # i => inst'[k] = inst[k] /\ NowIs(k)' = NowIs(k) /\ (Dying(k)' <=> Dying(k))
  BY <1>1, <1>6, TakesItselfOut
<1>8. NowIs(i) = "none"
  BY <1>5 DEF Dying, NowIs
<1>9. \A k : cur = DelEvt(k) => k = i
  <2>1. \A k : DelEvt(k).if_index = k
    BY DEF DelEvt
  <2> QED BY <2>1, <1>3
<1>10. Deletions'
  <2>1. ASSUME NEW k \in Ifaces, Dying(k)' PROVE FALSE
    <3>1. k # i /\ Dying(k)
      BY <2>1, <1>7
    <3>2. intq = <<DelEvt(k)>> \/ cur = DelEvt(k)
      BY <3>1, <1>2 DEF Deletions
    <3>3. <<>> # <<DelEvt(k)>>
      OBVIOUS
    <3> QED BY <3>1, <3>2, <3>3, <1>5, <1>9
  <2>2. intq' = <<>>
    BY <1>1, <1>5
  <2>3. ASSUME NEW k \in Pending', cur' = DelEvt(k) PROVE FALSE
    BY <2>3, <1>2, <1>7, <1>9
  <2> QED BY <2>1, <2>2, <2>3 DEF Deletions
<1>11. Classes'
  <2>1. cat'[i] = CatOf(i, "none") /\ \A k \in Ifaces : cat'[k] = cat[k]
    BY <1>1, <1>2, <1>8 DEF Classes
  <2> QED BY <1>2, <1>7, <2>1, GoneClasses
<1>12. ASSUME NEW k \in Ifaces PROVE Soon(k)' = Soon(k)
  <2>1. NowIs(k)' = NowIs(k)
    BY <1>7, <1>8
  <2> QED BY <2>1, <1>2, <1>4 DEF Soon, Due
<1> QED BY <1>1, <1>7, <1>10, <1>11, <1>12, CallbackKeeps

LEMMA WanGoneSettled ==
    ASSUME SInv, IInv', NEW i \in Ifaces, StaDown(i) \/ WanDown(i)
    PROVE  SInv'
<1>0. /\ "LINK_DOWN" \in Downs /\ "WLAN_LINK_DOWN" \in Downs
      /\ {"WLAN_WAN"} \subseteq Kinds /\ {"Q6_WAN", "ECM_WAN"} \subseteq Kinds
  BY DEF Downs, Kinds
<1>1. /\ Call(i) /\ cur' = cur /\ cur \in ExtEvents /\ cur.if_index = i /\ cur.ev \in Downs /\ cur.ev \notin Ups
      /\ i \in Pending /\ intq = <<>> /\ \A k \in Ifaces : ~Dying(k)
      /\ inst[i] # NULL /\ Soon(i) = "none"
  <2>1. CASE StaDown(i)
    <3>1. Handles(i, {"WLAN_WAN"}, "WLAN_LINK_DOWN")
      BY <2>1 DEF StaDown
    <3> QED BY <1>0, <3>1, DownEvent
  <2>2. CASE WanDown(i)
    <3>1. Handles(i, {"Q6_WAN", "ECM_WAN"}, "LINK_DOWN")
      BY <2>2 DEF WanDown
    <3> QED BY <1>0, <3>1, DownEvent, SMTT(60)
  <2> QED BY <2>1, <2>2
<1>2. inst \in [Ifaces -> Objects \cup {NULL}] /\ cat \in [Ifaces -> Cats] /\ Classes
  BY <1>1, AtCall
<1>3. DeleteThis(i) /\ intq' = intq /\ cur.ev = LastEvent(inst[i].kind)
  BY DEF StaDown, WanDown, Handles, LastEvent
<1>4. /\ Registered' /\ Pending' = Pending \ {i} /\ inst'[i] = NULL /\ NowIs(i)' = "none" /\ ~Dying(i)'
      /\ \A k \in Ifaces : k # i => inst'[k] = inst[k] /\ NowIs(k)' = NowIs(k) /\ (Dying(k)' <=> Dying(k))
  BY <1>1, <1>3, TakesItselfOut
<1>5. \A k : cur' # DelEvt(k)
  <2>1. \A k : DelEvt(k).ev = "LAN_DELETE_SELF"
    BY DEF DelEvt
  <2> QED BY <1>1, <2>1, EventNames
<1>6. Deletions'
  <2>1. intq' = <<>> /\ \A k \in Ifaces : ~Dying(k)'
    BY <1>1, <1>3, <1>4
  <2> QED BY <1>5, <2>1 DEF Deletions
<1>7. Classes'
  <2>1. inst[i].kind \in KindsOf(i) /\ cat[i] = CatOf(i, NowIs(i))
    BY <1>1, <1>2 DEF Classes
  <2>2. cat'[i] = CatOf(i, "none") /\ \A k \in Ifaces : k # i => cat'[k] = cat[k]
    <3>1. CASE StaDown(i)
      <4>1. cat' = [cat EXCEPT ![i] = "UNKNOWN"] /\ inst[i].kind = "WLAN_WAN"
        BY <3>1 DEF StaDown, Handles
      <4>2. i \notin Usb /\ i \notin Modem
        BY <4>1, <2>1, KindTells
      <4>3. cat'[i] = "UNKNOWN" /\ \A k \in Ifaces : k # i => cat'[k] = cat[k]
        BY <4>1, <1>2
      <4> QED BY <4>2, <4>3 DEF CatOf
    <3>2. CASE WanDown(i)
      <4>1. cat' = cat /\ inst[i].kind \in {"Q6_WAN", "ECM_WAN"}
        BY <3>2 DEF WanDown, Handles
      <4>2. i \in Modem /\ i \notin Usb
        BY <4>1, <2>1, KindTells
      <4> QED BY <4>1, <4>2, <2>1 DEF CatOf
    <3> QED BY <3>1, <3>2
  <2> QED BY <1>2, <1>4, <2>2, GoneClasses
<1>8. ASSUME NEW k \in Ifaces PROVE Soon(k)' = Soon(k)
  <2>1. CASE k = i
    <3>1. ~Due(i)'
      BY <1>1, <1>4 DEF Due
    <3> QED BY <2>1, <3>1, <1>1, <1>4 DEF Soon
  <2>2. CASE k # i
    BY <2>2, <1>1, <1>4, OthersSoon
  <2> QED BY <2>1, <2>2
<1> QED BY <1>1, <1>4, <1>6, <1>7, <1>8, CallbackKeeps

\* create_iface_instance makes an object.
LEMMA CreateMakes ==
    ASSUME ObjectsOK, NEW i \in Ifaces, inst[i] = NULL, NEW c, c # "UNKNOWN", NEW wan_type,
           (IF c = "WAN" THEN wan_type ELSE c) \in Kinds, create_iface_instance(i, c, wan_type)
    PROVE  \E x \in Objects : /\ x.kind = (IF c = "WAN" THEN wan_type ELSE c) /\ x.is_active
                              /\ inst' = [inst EXCEPT ![i] = x] /\ registr(i, Events(x.kind))
<1> DEFINE kind == IF c = "WAN" THEN wan_type ELSE c
           x == [kind |-> kind, is_active |-> TRUE, wlan_ap_index |-> IF kind = "WLAN" THEN num_wlan_ap_iface ELSE 0]
<1>1. kind \in Kinds /\ num_wlan_ap_iface \in Nat
  BY AccessPointsFinite DEF ObjectsOK
<1>2. inst' = [inst EXCEPT ![i] = x] /\ registr(i, Events(kind))
  BY DEF create_iface_instance
<1> HIDE DEF kind
<1>3. x \in Objects /\ x.kind = kind /\ x.is_active
  BY <1>1 DEF Objects
<1> HIDE DEF x
<1> QED BY <1>2, <1>3 DEF kind

\* The manager creates the object that the event calls for, or nothing if there is
\* one or the event calls for none.
LEMMA ManagerDoes ==
    ASSUME SInv, NEW i \in Ifaces, Manager(i)
    PROVE  /\ Call(Mgr) /\ cur.if_index = i /\ cur.ev \in Ups /\ cur \in ExtEvents /\ intq' = intq
           /\ \/ /\ inst' = inst /\ regs' = regs /\ cat' = cat
                 /\ After(i, NowIs(i), cur) = NowIs(i)
              \/ \E x \in Objects :
                   /\ inst[i] = NULL /\ inst' = [inst EXCEPT ![i] = x] /\ registr(i, Events(x.kind)) /\ x.is_active
                   /\ x.kind = After(i, NowIs(i), cur) /\ x.kind \in KindsOf(i)
                   /\ cat'[i] = CatOf(i, x.kind) /\ \A k \in Ifaces : k # i => cat'[k] = cat[k]
<1>1. /\ Call(Mgr) /\ intq' = intq
      /\ cur \in {Evt("LINK_UP", i), Evt("USB_LINK_UP", i), Evt("WLAN_AP_LINK_UP", i), Evt("WLAN_STA_LINK_UP", i)}
  BY DEF Manager, MgrLinkUp, MgrUsbLinkUp, MgrWlanLinkUp
<1>2. cur.if_index = i /\ cur.ev \in Ups /\ cur \in ExtEvents
  BY <1>1 DEF Evt, Ups, ExtEvents
<1>3. /\ ObjectsOK /\ inst \in [Ifaces -> Objects \cup {NULL}] /\ cat \in [Ifaces -> Cats] /\ Classes /\ Deletions
  BY <1>1, AtCall
<1>4. ~Dying(i)
  BY <1>2, <1>3, NothingDying
<1>5. cat[i] = CatOf(i, NowIs(i)) /\ (inst[i] # NULL => inst[i].kind \in KindsOf(i))
  BY <1>3 DEF Classes
<1>6. NowIs(i) = "none" <=> inst[i] = NULL
  BY <1>3, <1>4, NowType
<1>7. cur.ev # "LINK_DOWN" /\ cur.ev # "WLAN_LINK_DOWN"
  BY <1>2 DEF Ups
<1>8. After(i, NowIs(i), cur) = IF inst[i] = NULL THEN Makes(i, cur.ev) ELSE NowIs(i)
  BY <1>2, <1>6, <1>7 DEF After
<1>9. Usb \cap Wlan = {} /\ Wlan \cap Modem = {} /\ Usb \cap Modem = {} /\ Ifaces = Usb \cup Wlan \cup Modem
  BY IfaceAssumption DEF Ifaces
<1>10. /\ i \in Usb => cat[i] = "LAN"
       /\ i \in Modem => cat[i] = "WAN"
       /\ i \in Wlan /\ inst[i] = NULL => cat[i] = "UNKNOWN"
  BY <1>5, <1>6, <1>9 DEF CatOf
<1>10a. i \in Wlan /\ inst[i] # NULL => cat[i] # "UNKNOWN"
  <2> SUFFICES ASSUME i \in Wlan, inst[i] # NULL PROVE cat[i] # "UNKNOWN"
    OBVIOUS
  <2>1. inst[i].kind \in {"WLAN", "WLAN_WAN"} /\ NowIs(i) = inst[i].kind
    BY <1>4, <1>5, <1>9 DEF KindsOf, NowIs, Dying
  <2> QED BY <2>1, <1>5, <1>9 DEF CatOf
<1>11. ASSUME inst[i] = NULL, NEW c \in Cats, c # "UNKNOWN", NEW wan_type, create_iface_instance(i, c, wan_type),
              NEW kind, kind = (IF c = "WAN" THEN wan_type ELSE c), kind \in KindsOf(i), kind = Makes(i, cur.ev),
              c = CatOf(i, kind), cat' = [cat EXCEPT ![i] = c]
       PROVE  \E x \in Objects :
                   /\ inst[i] = NULL /\ inst' = [inst EXCEPT ![i] = x] /\ registr(i, Events(x.kind)) /\ x.is_active
                   /\ x.kind = After(i, NowIs(i), cur) /\ x.kind \in KindsOf(i)
                   /\ cat'[i] = CatOf(i, x.kind) /\ \A k \in Ifaces : k # i => cat'[k] = cat[k]
  <2>1. kind \in Kinds
    BY <1>11 DEF KindsOf, Kinds
  <2>2. PICK x \in Objects : /\ x.kind = kind /\ x.is_active
                             /\ inst' = [inst EXCEPT ![i] = x] /\ registr(i, Events(x.kind))
    BY <1>3, <1>11, <2>1, CreateMakes
  <2>3. cat'[i] = c /\ \A k \in Ifaces : k # i => cat'[k] = cat[k]
    BY <1>3, <1>11
  <2>4. kind = After(i, NowIs(i), cur)
    BY <1>8, <1>11
  <2> QED BY <2>2, <2>3, <2>4, <1>11
<1>12. CASE MgrLinkUp(i)
  <2>1. cur.ev = "LINK_UP" /\ cat' = cat
    BY <1>12 DEF MgrLinkUp, Evt
  <2>2. CASE cat[i] = "WAN" /\ inst[i] = NULL
    <3>1. i \in Modem /\ i \notin Usb /\ i \notin Wlan
      BY <2>2, <1>9, <1>10
    <3>2. create_iface_instance(i, "WAN", "Q6_WAN")
      BY <1>12, <2>2 DEF MgrLinkUp
    <3>3. "Q6_WAN" \in KindsOf(i) /\ "Q6_WAN" = Makes(i, cur.ev) /\ "WAN" = CatOf(i, "Q6_WAN") /\ "WAN" \in Cats
      BY <3>1, <2>1 DEF KindsOf, Makes, CatOf, Cats
    <3>4. cat' = [cat EXCEPT ![i] = "WAN"]
      BY <2>1, <2>2, <1>3
    <3> QED BY <1>1, <1>2, <2>2, <3>2, <3>3, <3>4, <1>11
  <2>3. CASE ~(cat[i] = "WAN" /\ inst[i] = NULL)
    <3>1. inst' = inst /\ regs' = regs
      BY <1>12, <2>3 DEF MgrLinkUp, create_iface_instance
    <3>2. After(i, NowIs(i), cur) = NowIs(i)
      BY <2>1, <2>3, <1>6, <1>8, <1>10 DEF Makes
    <3> QED BY <1>1, <1>2, <2>1, <3>1, <3>2
  <2> QED BY <2>2, <2>3
<1>13. CASE MgrUsbLinkUp(i)
  <2>1. cur.ev = "USB_LINK_UP" /\ cat' = cat
    BY <1>13 DEF MgrUsbLinkUp, Evt
  <2>2. CASE cat[i] # "UNKNOWN" /\ inst[i] = NULL
    <3>1. PICK w : w = (IF cat[i] = "WAN" THEN "ECM_WAN" ELSE "Q6_WAN")
      OBVIOUS
    <3>2. create_iface_instance(i, cat[i], w) /\ cat[i] \in Cats
      BY <1>3, <1>13, <3>1 DEF MgrUsbLinkUp
    <3>3. PICK kind : kind = IF cat[i] = "WAN" THEN w ELSE cat[i]
      OBVIOUS
    <3>4. kind \in KindsOf(i) /\ kind = Makes(i, cur.ev) /\ cat[i] = CatOf(i, kind)
      BY <2>1, <2>2, <3>1, <3>3, <1>9, <1>10 DEF KindsOf, Makes, CatOf
    <3>5. cat' = [cat EXCEPT ![i] = cat[i]]
      BY <2>1, <1>3
    <3> QED BY <1>1, <1>2, <2>2, <3>2, <3>3, <3>4, <3>5, <1>11
  <2>3. CASE ~(cat[i] # "UNKNOWN" /\ inst[i] = NULL)
    <3>1. inst' = inst /\ regs' = regs
      BY <1>13, <2>3 DEF MgrUsbLinkUp, create_iface_instance
    <3>2. After(i, NowIs(i), cur) = NowIs(i)
      BY <2>1, <2>3, <1>6, <1>8, <1>9, <1>10 DEF Makes
    <3> QED BY <1>1, <1>2, <2>1, <3>1, <3>2
  <2> QED BY <2>2, <2>3
<1>14. ASSUME NEW ev, NEW c, MgrWlanLinkUp(i, ev, c),
              (ev = "WLAN_AP_LINK_UP" /\ c = "WLAN") \/ (ev = "WLAN_STA_LINK_UP" /\ c = "WAN")
       PROVE  \/ /\ inst' = inst /\ regs' = regs /\ cat' = cat
                 /\ After(i, NowIs(i), cur) = NowIs(i)
              \/ \E x \in Objects :
                   /\ inst[i] = NULL /\ inst' = [inst EXCEPT ![i] = x] /\ registr(i, Events(x.kind)) /\ x.is_active
                   /\ x.kind = After(i, NowIs(i), cur) /\ x.kind \in KindsOf(i)
                   /\ cat'[i] = CatOf(i, x.kind) /\ \A k \in Ifaces : k # i => cat'[k] = cat[k]
  <2>1. cur.ev = ev
    BY <1>14 DEF MgrWlanLinkUp, Evt
  <2>2. CASE cat[i] = "UNKNOWN"
    <3>1. i \in Wlan /\ i \notin Usb /\ i \notin Modem /\ inst[i] = NULL
      BY <2>2, <1>9, <1>10, <1>10a
    <3>2. create_iface_instance(i, c, "WLAN_WAN") /\ cat' = [cat EXCEPT ![i] = c] /\ c \in Cats /\ c # "UNKNOWN"
      BY <1>14, <2>2 DEF MgrWlanLinkUp, Cats
    <3>3. PICK kind : kind = IF c = "WAN" THEN "WLAN_WAN" ELSE c
      OBVIOUS
    <3>4. kind \in KindsOf(i) /\ kind = Makes(i, cur.ev) /\ c = CatOf(i, kind)
      BY <1>14, <2>1, <3>1, <3>3 DEF KindsOf, Makes, CatOf
    <3> QED BY <3>1, <3>2, <3>3, <3>4, <1>11
  <2>3. CASE cat[i] # "UNKNOWN"
    <3>1. inst' = inst /\ regs' = regs /\ cat' = cat
      BY <1>14, <2>3 DEF MgrWlanLinkUp
    <3>2. After(i, NowIs(i), cur) = NowIs(i)
      BY <1>14, <2>1, <2>3, <1>6, <1>8, <1>9, <1>10 DEF Makes
    <3> QED BY <3>1, <3>2
  <2> QED BY <2>2, <2>3
<1>15. CASE MgrWlanLinkUp(i, "WLAN_AP_LINK_UP", "WLAN") \/ MgrWlanLinkUp(i, "WLAN_STA_LINK_UP", "WAN")
  <2>1. PICK ev, c : /\ MgrWlanLinkUp(i, ev, c)
                     /\ (ev = "WLAN_AP_LINK_UP" /\ c = "WLAN") \/ (ev = "WLAN_STA_LINK_UP" /\ c = "WAN")
    <3>1. CASE MgrWlanLinkUp(i, "WLAN_AP_LINK_UP", "WLAN")
      BY <3>1
    <3>2. CASE MgrWlanLinkUp(i, "WLAN_STA_LINK_UP", "WAN")
      BY <3>2
    <3> QED BY <1>15, <3>1, <3>2
  <2> QED BY <1>1, <1>2, <1>14, <2>1, Zenon
<1> QED BY <1>12, <1>13, <1>15 DEF Manager

LEMMA ManagerSettled ==
    ASSUME SInv, IInv', NEW i \in Ifaces, Manager(i)
    PROVE  SInv'
<1>1. /\ Call(Mgr) /\ cur.if_index = i /\ cur.ev \in Ups /\ cur \in ExtEvents /\ intq' = intq
      /\ \/ /\ inst' = inst /\ regs' = regs /\ cat' = cat
            /\ After(i, NowIs(i), cur) = NowIs(i)
         \/ \E x \in Objects :
              /\ inst[i] = NULL /\ inst' = [inst EXCEPT ![i] = x] /\ registr(i, Events(x.kind)) /\ x.is_active
              /\ x.kind = After(i, NowIs(i), cur) /\ x.kind \in KindsOf(i)
              /\ cat'[i] = CatOf(i, x.kind) /\ \A k \in Ifaces : k # i => cat'[k] = cat[k]
  BY ManagerDoes
<1>2. /\ ObjectsOK /\ regs \in Seq(NodeSet) /\ inst \in [Ifaces -> Objects \cup {NULL}] /\ Once(regs) /\ NoStaleNode
      /\ Registered /\ Classes /\ Deletions /\ Mgr \in Pending /\ cur' = cur
  BY <1>1, AtCall
<1>3. intq = <<>> /\ \A k \in Ifaces : ~Dying(k)
  BY <1>1, <1>2, NothingDying
<1>4. Due(i) /\ Soon(i) = After(i, NowIs(i), cur)
  BY <1>1, <1>2 DEF Soon, Due
<1>5. \A k : cur' # DelEvt(k)
  <2>1. \A k : DelEvt(k).ev = "LAN_DELETE_SELF"
    BY DEF DelEvt
  <2> QED BY <1>1, <1>2, <2>1, EventNames
<1>6. SUFFICES /\ Registered' /\ Classes' /\ Pending' = Pending \ {Mgr} /\ NowIs(i)' = After(i, NowIs(i), cur)
               /\ \A k \in Ifaces : ~Dying(k)'
               /\ \A k \in Ifaces : k # i => NowIs(k)' = NowIs(k)
  <2>1. Deletions'
    BY <1>1, <1>3, <1>5, <1>6 DEF Deletions
  <2>2. ASSUME NEW k \in Ifaces PROVE Soon(k)' = Soon(k)
    <3>1. CASE k = i
      <4>1. ~Due(i)'
        BY <1>1, <1>2, <1>6 DEF Due
      <4> QED BY <3>1, <4>1, <1>4, <1>6 DEF Soon
    <3>2. CASE k # i
      BY <3>2, <1>1, <1>2, <1>6, OthersSoon
    <3> QED BY <3>1, <3>2
  <2> QED BY <1>1, <1>6, <2>1, <2>2, CallbackKeeps
<1>7. CASE inst' = inst /\ regs' = regs /\ cat' = cat /\ After(i, NowIs(i), cur) = NowIs(i)
  <2>1. Registered' /\ Classes'
    BY <1>2, <1>7 DEF Registered, Heard, Classes, NowIs
  <2>2. \A k : (Dying(k)' <=> Dying(k)) /\ NowIs(k)' = NowIs(k)
    BY <1>7 DEF Dying, NowIs
  <2>3. Pending' = Pending \ {Mgr}
    BY <1>1, <1>7, CallKeepsPending
  <2> QED BY <1>3, <1>7, <2>1, <2>2, <2>3
<1>8. ASSUME NEW x \in Objects, inst[i] = NULL, inst' = [inst EXCEPT ![i] = x], registr(i, Events(x.kind)), x.is_active,
             x.kind = After(i, NowIs(i), cur), x.kind \in KindsOf(i),
             cat'[i] = CatOf(i, x.kind), \A k \in Ifaces : k # i => cat'[k] = cat[k]
      PROVE  /\ Registered' /\ Classes' /\ Pending' = Pending \ {Mgr} /\ NowIs(i)' = After(i, NowIs(i), cur)
             /\ \A k \in Ifaces : ~Dying(k)'
             /\ \A k \in Ifaces : k # i => NowIs(k)' = NowIs(k)
  <2>0. x # NULL
    BY ConstFacts
  <2>1. /\ Registered' /\ regs' \in Seq(NodeSet) /\ Len(regs) <= Len(regs')
        /\ \A k \in 1 .. Len(regs) : regs'[k] = regs[k]
        /\ \A k \in 1 .. Len(regs') : Len(regs) < k => regs'[k].ev \notin Ups
    BY <1>2, <1>8, <2>0, CreateRegistered
  <2>2. Once(regs') /\ \A k \in 1 .. Len(regs') : Len(regs) < k => regs'[k].ev # cur.ev
    BY <1>1, <2>1 DEF Registered
  <2>3. Pending' = Pending \ {Mgr}
    BY <1>1, <1>2, <2>1, <2>2, CallPending
  <2>4. inst'[i] = x /\ \A k \in Ifaces : k # i => inst'[k] = inst[k]
    BY <1>2, <1>8
  <2>5. /\ NowIs(i)' = x.kind /\ ~Dying(i)'
        /\ \A k \in Ifaces : k # i => NowIs(k)' = NowIs(k) /\ (Dying(k)' <=> Dying(k))
    BY <1>8, <2>0, <2>4 DEF NowIs, Dying
  <2>6. Classes'
    <3>1. ASSUME NEW k \in Ifaces
          PROVE  (inst'[k] # NULL => inst'[k].kind \in KindsOf(k)) /\ cat'[k] = CatOf(k, NowIs(k)')
      <4>1. CASE k = i
        BY <4>1, <1>8, <2>4, <2>5
      <4>2. CASE k # i
        BY <4>2, <1>2, <1>8, <2>4, <2>5 DEF Classes
      <4> QED BY <4>1, <4>2
    <3> QED BY <3>1 DEF Classes, CatOf, KindsOf
  <2> QED BY <1>3, <1>8, <2>1, <2>3, <2>5, <2>6
<1> QED BY <1>1, <1>7, <1>8

LEMMA NextSettled == SInv /\ [Next]_vars => SInv'
<1> SUFFICES ASSUME SInv, [Next]_vars PROVE SInv'
  OBVIOUS
<1>1. IInv'
  BY NextInv DEF SInv
<1>2. ASSUME NEW i \in Ifaces, NEW l \in Links(i), NewLink(i, l) PROVE SInv'
  BY <1>1, <1>2, NewLinkSettled
<1>3. ASSUME NEW i \in Wlan, NEW m \in {"off", "ap", "sta"}, WlanDriver(i, m) PROVE SInv'
  BY <1>1, <1>3, WlanDriverSettled
<1>4. CASE Take
  BY <1>1, <1>4, TakeSettled
<1>5. CASE Finish
  BY <1>1, <1>5, FinishSettled
<1>6. ASSUME NEW i \in Ifaces, Manager(i) PROVE SInv'
  BY <1>1, <1>6, ManagerSettled
<1>7. ASSUME NEW i \in Ifaces, Object(i) PROVE SInv'
  <2>1. CASE Ignore(i)
    BY <1>1, <2>1, IgnoreSettled
  <2>2. CASE LanDown(i) \/ WlanDown(i)
    BY <1>1, <2>2, HandleDownSettled
  <2>3. CASE LanDeleteSelf(i) \/ WlanDeleteSelf(i)
    BY <1>1, <2>3, DeleteSelfSettled
  <2>4. CASE StaDown(i) \/ WanDown(i)
    BY <1>1, <2>4, WanGoneSettled
  <2> QED BY <1>7, <2>1, <2>2, <2>3, <2>4 DEF Object
<1>8. CASE UNCHANGED vars
  BY <1>1, <1>8, StutterSettled
<1> QED BY <1>2, <1>3, <1>4, <1>5, <1>6, <1>7, <1>8 DEF Next, Process

\* When no event waits and none is handled, the objects that are there are those of
\* the links that are up, in whatever order the messages of the kernel and of the
\* WLAN driver and the deletions that objects post themselves were handled.
THEOREM ObjectsFollowLinks == Spec => []Settled
<1>1. Spec => []SInv
  BY InitSettled, NextSettled, PTL DEF Spec
<1> QED
  BY <1>1, SettledFollows, PTL
=============================================================================
