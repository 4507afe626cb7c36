--------------------------- MODULE Backhaul_proofs ---------------------------
(***************************************************************************)
(* Proofs about Backhaul, for every set of WAN and tethering interfaces and *)
(* any number of objects, interfaces and waiting events.                   *)
(***************************************************************************)
EXTENDS Backhaul, FiniteSetTheorems, LoopInduction

-----------------------------------------------------------------------------
(* The inductive invariant. Its parts are about a value s of b, because the *)
(* operations go through values of b that no state has.                    *)

Routes == [Tethers -> [F -> Wans \cup {NULL}]]

\* What the theorems assume of the world around ipacm: the framework withdraws
\* the routes of one upstream before it adds those of the next and, for an STA,
\* adds them when the gateway is known; a modem interface may be lost while it is
\* the upstream of all its families or of none, an STA while it is no upstream.
Framework ==
    /\ ~Handover /\ Early \cap Sta = {}
    /\ \A w \in Modem : MayLose[w] \subseteq {{}, Fam[w]}
    /\ \A w \in Sta : MayLose[w] \subseteq {{}}

\* No element twice, and what a list holds.
Once(l) == \A i, j \in 1 .. Len(l) : l[i] = l[j] => i = j
Holds(l, x) == \E i \in 1 .. Len(l) : l[i] = x

\* The objects that are called are those that exist, each once.
ObjsOK(s) ==
    /\ Once(s.objs)
    /\ \A w \in Wans : s.wan[w] # NULL <=> Holds(s.objs, w)

\* One object: is_default_gateway tells enough for the loss of the link, and a
\* route never waits for the header of a gateway.
WanOK(w, o) ==
    /\ \A f \in o.active : Usable(o, f)
    /\ IpType(o) \subseteq Fam[w]
    /\ o.is_default_gateway => o.active # {}
    /\ o.active = Fam[w] /\ o.active # {} => o.is_default_gateway
    /\ o.header_partial = {}
    /\ w \in Sta => o.gw_set \subseteq o.neighbours

WansOK(s) == \A w \in Wans : s.wan[w] # NULL => WanOK(w, s.wan[w])

\* The upstream of a family.
UpOK(s) ==
    \A f \in F :
        /\ \A v, w \in Wans : Active(s, v, f) /\ Active(s, w, f) => v = w
        /\ f \in s.up <=> \E w \in Wans : Active(s, w, f)

\* The interfaces that use it.
ListOK(s, r) ==
    \A f \in F :
        /\ Once(s.tether[f])
        /\ \A t \in Tethers : Holds(s.tether[f], t) => r[t][f] \in Wans /\ Active(s, r[t][f], f)
        /\ f \in s.up => s.tether[f] # <<>>

\* backhaul_is_sta_mode tells the kind of every upstream.
KindOK(s) == \A w \in Wans, f \in F : Active(s, w, f) => (s.sta <=> w \in Sta)

\* The modem interfaces num_ipv4_modem_pdn and num_ipv6_modem_pdn count.
Pdns(s, f) == {w \in Modem : s.wan[w] # NULL /\ Usable(s.wan[w], f)}

PdnOK(s) == \A f \in F : IsFiniteSet(Pdns(s, f)) /\ s.pdn[f] = Cardinality(Pdns(s, f))

FiltersOK(s) ==
    /\ s.modem = s.flt
    /\ \A f \in F : s.flt[f] = IF \E w \in Modem : Active(s, w, f) THEN "firewall"
                               ELSE IF Pdns(s, f) # {} THEN "default" ELSE "none"
    /\ \A w \in Sta, f \in F : s.fw[w][f] = IF Active(s, w, f) THEN 1 ELSE 0

\* At most one event for the NAT listener waits, and it makes the listener follow.
IsNatEvt(e) == e.ev \in {"WAN_UP", "WAN_DOWN"} /\ e.fam = "v4"

NatOK(s, n) ==
    /\ \A j, k \in 1 .. Len(s.q) : IsNatEvt(s.q[j]) /\ IsNatEvt(s.q[k]) => j = k
    /\ \A k \in 1 .. Len(s.q) : IsNatEvt(s.q[k]) =>
         IF s.q[k].ev = "WAN_UP" THEN n = NULL /\ Active(s, s.q[k].wan, "v4")
         ELSE \A w \in Wans : ~Active(s, w, "v4")
    /\ (\A k \in 1 .. Len(s.q) : ~IsNatEvt(s.q[k])) =>
         \A w \in Wans : n = w <=> Active(s, w, "v4")

\* The rules of a family on the pipe of a tethering object: none, or those of an
\* upstream of the given kind.
Clean(x, f) ==
    /\ f \notin x.ul /\ x.pipe.ul[f] = 0
    /\ f \notin x.dft /\ x.pipe.dft[f] = 0
    /\ f = "v6" => ~x.prefix /\ x.pipe.prefix = 0

Served(x, f, sta) ==
    IF f \notin IpType(x) THEN Clean(x, f)
    ELSE /\ (f \in x.dft <=> sta) /\ x.pipe.dft[f] = (IF sta THEN 1 ELSE 0)
         /\ x.pipe.ul[f] = (IF f \in x.ul THEN 1 ELSE 0)
         /\ f \in x.ul => ~sta
         /\ f = "v4" => (f \in x.ul <=> ~sta)
         /\ f = "v6" => x.prefix /\ x.pipe.prefix = 1

IsTetherEvt(e, t, f) ==
    e.ev \in {"WAN_UP_TETHER", "WAN_DOWN_TETHER"} /\ e.tether = t /\ e.fam = f

\* At most one event waits for an interface and family, and it makes its rules
\* follow the list.
RulesOK(s, x, t, f) ==
    /\ \A j, k \in 1 .. Len(s.q) : IsTetherEvt(s.q[j], t, f) /\ IsTetherEvt(s.q[k], t, f) => j = k
    /\ \A k \in 1 .. Len(s.q) : IsTetherEvt(s.q[k], t, f) =>
         IF s.q[k].ev = "WAN_UP_TETHER" THEN Clean(x, f) /\ Holds(s.tether[f], t) /\ s.q[k].is_sta = s.sta
         ELSE Served(x, f, s.q[k].is_sta) /\ ~Holds(s.tether[f], t)
    /\ (\A k \in 1 .. Len(s.q) : ~IsTetherEvt(s.q[k], t, f)) =>
         IF Holds(s.tether[f], t) THEN Served(x, f, s.sta) ELSE Clean(x, f)

LansOK(s, l) ==
    /\ \A t \in Tethers : ~l[t].up => ~l[t].v4 /\ l[t].num_dft_rt_v6 = 0
    /\ \A t \in Tethers, f \in F : RulesOK(s, l[t], t, f)

BackhaulOK(s, r) ==
    s \in Backhauls /\ ObjsOK(s) /\ WansOK(s) /\ UpOK(s) /\ ListOK(s, r) /\ KindOK(s)
                    /\ PdnOK(s) /\ FiltersOK(s)

\* A handle is kept of rules that are there.
PipeOK(x) ==
    /\ \A f \in F : (f \in x.ul => x.pipe.ul[f] > 0) /\ (f \in x.dft => x.pipe.dft[f] > 0)
    /\ x.prefix => x.pipe.prefix > 0

PipesOK(l) == \A t \in Tethers : PipeOK(l[t])

\* The rules on the pipes follow only where every WAN_DOWN_TETHER is handled.
IInv ==
    /\ TypeOK /\ BackhaulOK(b, route) /\ NatOK(b, nat) /\ PipesOK(lan)
    /\ LaterAps = {} => LansOK(b, lan)

-----------------------------------------------------------------------------
(* Lists. *)

LEMMA RemoveFirstAt ==
    ASSUME NEW S, NEW l \in Seq(S), Once(l), NEW k \in 1 .. Len(l)
    PROVE  /\ RemoveFirst(l, l[k]) \in Seq(S)
           /\ Len(RemoveFirst(l, l[k])) = Len(l) - 1
           /\ \A i \in 1 .. Len(l) - 1 :
                RemoveFirst(l, l[k])[i] = IF i < k THEN l[i] ELSE l[i + 1]
<1> DEFINE I == {i \in 1 .. Len(l) : l[i] = l[k]}
<1>1. I = {k}
  BY DEF Once
<1>2. Min(I) = k
  BY <1>1 DEF Min
<1>3. RemoveFirst(l, l[k]) = RemoveAt(l, Min(I))
  BY DEF RemoveFirst, SelectInSeq
<1>4. RemoveFirst(l, l[k]) = SubSeq(l, 1, k - 1) \o SubSeq(l, k + 1, Len(l))
  BY <1>2, <1>3 DEF RemoveAt
<1>5. /\ SubSeq(l, 1, k - 1) \in Seq(S) /\ Len(SubSeq(l, 1, k - 1)) = k - 1
      /\ \A i \in 1 .. k - 1 : SubSeq(l, 1, k - 1)[i] = l[i]
  OBVIOUS
<1>6. /\ SubSeq(l, k + 1, Len(l)) \in Seq(S) /\ Len(SubSeq(l, k + 1, Len(l))) = Len(l) - k
      /\ \A i \in 1 .. Len(l) - k : SubSeq(l, k + 1, Len(l))[i] = l[k + i]
  OBVIOUS
<1> DEFINE p == SubSeq(l, 1, k - 1)
           r == SubSeq(l, k + 1, Len(l))
<1> HIDE DEF p, r
<1>7. p \in Seq(S) /\ Len(p) = k - 1 /\ \A i \in 1 .. k - 1 : p[i] = l[i]
  BY <1>5 DEF p
<1>8. r \in Seq(S) /\ Len(r) = Len(l) - k /\ \A i \in 1 .. Len(l) - k : r[i] = l[k + i]
  BY <1>6 DEF r
<1>9. p \o r \in Seq(S) /\ Len(p \o r) = Len(l) - 1
  BY <1>7, <1>8
<1>10. ASSUME NEW i \in 1 .. Len(l) - 1 PROVE (p \o r)[i] = IF i < k THEN l[i] ELSE l[i + 1]
  <2>1. CASE i < k
    BY <1>7, <1>8, <2>1
  <2>2. CASE ~(i < k)
    <3>1. (p \o r)[i] = r[i - (k - 1)]
      BY <1>7, <1>8, <2>2
    <3>2. i - (k - 1) \in 1 .. Len(l) - k /\ k + (i - (k - 1)) = i + 1
      BY <2>2
    <3> QED
      BY <1>8, <2>2, <3>1, <3>2
  <2> QED
    BY <2>1, <2>2
<1>11. RemoveFirst(l, l[k]) = p \o r
  BY <1>4 DEF p, r
<1> QED
  BY <1>9, <1>10, <1>11

\* RemoveFirst of a list that holds nothing twice.
LEMMA RemoveFirstHolds ==
    ASSUME NEW S, NEW l \in Seq(S), Once(l), NEW x, Holds(l, x)
    PROVE  /\ RemoveFirst(l, x) \in Seq(S)
           /\ Once(RemoveFirst(l, x))
           /\ \A y : Holds(RemoveFirst(l, x), y) <=> Holds(l, y) /\ y # x
<1>1. PICK k \in 1 .. Len(l) : l[k] = x
  BY DEF Holds
<1> DEFINE r == RemoveFirst(l, x)
<1>2. /\ r \in Seq(S) /\ Len(r) = Len(l) - 1
      /\ \A i \in 1 .. Len(l) - 1 : r[i] = IF i < k THEN l[i] ELSE l[i + 1]
  BY <1>1, RemoveFirstAt
<1> HIDE DEF r
<1>3. Once(r)
  BY <1>2 DEF Once
<1>4. ASSUME NEW y, Holds(r, y) PROVE Holds(l, y) /\ y # x
  <2>1. PICK i \in 1 .. Len(r) : r[i] = y
    BY <1>4 DEF Holds
  <2>2. CASE i < k
    BY <1>1, <1>2, <2>1, <2>2 DEF Holds, Once
  <2>3. CASE ~(i < k)
    BY <1>1, <1>2, <2>1, <2>3 DEF Holds, Once
  <2> QED
    BY <2>2, <2>3
<1>5. ASSUME NEW y, Holds(l, y), y # x PROVE Holds(r, y)
  <2>1. PICK i \in 1 .. Len(l) : l[i] = y
    BY <1>5 DEF Holds
  <2>2. CASE i < k
    BY <1>1, <1>2, <2>1, <2>2 DEF Holds
  <2>3. CASE i > k
    <3>1. i - 1 \in 1 .. Len(r) /\ ~(i - 1 < k) /\ r[i - 1] = l[i - 1 + 1]
      BY <1>2, <2>3
    <3> QED
      BY <2>1, <3>1 DEF Holds
  <2> QED
    BY <1>1, <1>5, <2>1, <2>2, <2>3
<1> QED
  BY <1>2, <1>3, <1>4, <1>5 DEF r

LEMMA AppendHolds ==
    ASSUME NEW S, NEW l \in Seq(S), NEW x \in S
    PROVE  /\ Append(l, x) \in Seq(S)
           /\ Once(l) /\ ~Holds(l, x) => Once(Append(l, x))
           /\ \A y : Holds(Append(l, x), y) <=> Holds(l, y) \/ y = x
           /\ Append(l, x) # <<>>
<1> DEFINE r == Append(l, x)
<1>1. /\ r \in Seq(S) /\ Len(r) = Len(l) + 1 /\ r[Len(l) + 1] = x
      /\ \A i \in 1 .. Len(l) : r[i] = l[i]
  OBVIOUS
<1> HIDE DEF r
<1>2. Len(l) \in Nat
  OBVIOUS
<1>3. Once(l) /\ ~Holds(l, x) => Once(r)
  BY <1>1, <1>2 DEF Once, Holds
<1>4. \A y : Holds(r, y) <=> Holds(l, y) \/ y = x
  BY <1>1, <1>2 DEF Holds
<1>5. r # <<>>
  BY <1>1, <1>2
<1> QED
  BY <1>1, <1>3, <1>4, <1>5 DEF r

-----------------------------------------------------------------------------
(* What the operations do to the fields of b. *)

\* The event of a WAN object, and of a tethering interface.
WanEvt(ev, f, w) == [ev |-> ev, fam |-> f, wan |-> w]
TetherEvt(ev, f, t, sta) == [ev |-> ev, fam |-> f, tether |-> t, is_sta |-> sta]

LEMMA FieldTypes ==
    ASSUME NEW s \in Backhauls
    PROVE  /\ s.wan \in [Wans -> {NULL} \cup WanObjects] /\ s.objs \in Seq(Wans)
           /\ s.up \in SUBSET F /\ s.sta \in BOOLEAN /\ s.tether \in [F -> Seq(Tethers)]
           /\ s.pdn \in [F -> Nat] /\ s.flt \in [F -> Filters] /\ s.modem \in [F -> Filters]
           /\ s.fw \in [Sta -> [F -> Nat]] /\ s.q \in Seq(WanEvents \cup TetherEvents)
  BY DEF Backhauls

LEMMA EventTypes ==
    ASSUME NEW f \in F
    PROVE  /\ \A w \in Wans : WanEvt("WAN_UP", f, w) \in WanEvents
           /\ \A w \in Wans : WanEvt("WAN_DOWN", f, w) \in WanEvents
           /\ \A t \in Tethers, sta \in BOOLEAN :
                /\ TetherEvt("WAN_UP_TETHER", f, t, sta) \in TetherEvents
                /\ TetherEvt("WAN_DOWN_TETHER", f, t, sta) \in TetherEvents
  BY DEF WanEvents, TetherEvents, WanEvt, TetherEvt

\* The value of b with these fields.
Is(r, wan, objs, up, sta, tether, pdn, flt, modem, fw, q) ==
    /\ r \in Backhauls
    /\ r.wan = wan /\ r.objs = objs /\ r.up = up /\ r.sta = sta /\ r.tether = tether
    /\ r.pdn = pdn /\ r.flt = flt /\ r.modem = modem /\ r.fw = fw /\ r.q = q

LEMMA PostFields ==
    ASSUME NEW s \in Backhauls, NEW e \in WanEvents \cup TetherEvents
    PROVE  Is(PostEvt(s, e), s.wan, s.objs, s.up, s.sta, s.tether, s.pdn, s.flt, s.modem, s.fw,
              Append(s.q, e))
<1>1. s.q \in Seq(WanEvents \cup TetherEvents)
  BY FieldTypes
<1> DEFINE l == Append(s.q, e)
           r == PostEvt(s, e)
<1>2. l \in Seq(WanEvents \cup TetherEvents)
  BY <1>1
<1>3. r = [s EXCEPT !.q = l]
  BY DEF PostEvt
<1> HIDE DEF l, r
<1>4. r \in Backhauls
  BY <1>2, <1>3 DEF Backhauls
<1>5. r.q = l
  BY <1>3 DEF Backhauls
<1>6. /\ r.wan = s.wan /\ r.objs = s.objs /\ r.up = s.up /\ r.sta = s.sta
      /\ r.tether = s.tether /\ r.pdn = s.pdn /\ r.flt = s.flt /\ r.modem = s.modem
      /\ r.fw = s.fw
  BY <1>3 DEF Backhauls
<1> QED
  BY <1>4, <1>5, <1>6 DEF l, r, Is

\* The filters of the modem change and are installed.
LEMMA FilterFields ==
    ASSUME NEW s \in Backhauls, NEW f \in F, NEW v \in Filters
    PROVE  LET flt == [s.flt EXCEPT ![f] = v] IN
           Is(install_wan_filtering_rule([s EXCEPT !.flt[f] = v]),
              s.wan, s.objs, s.up, s.sta, s.tether, s.pdn, flt, flt, s.fw, s.q)
<1> DEFINE flt == [s.flt EXCEPT ![f] = v]
           x == [s EXCEPT !.flt[f] = v]
           r == install_wan_filtering_rule(x)
<1>1. flt \in [F -> Filters]
  BY FieldTypes
<1>2. x = [s EXCEPT !.flt = flt]
  OBVIOUS
<1>3. r = [x EXCEPT !.modem = x.flt]
  BY DEF install_wan_filtering_rule
<1> HIDE DEF flt, x, r
<1>4. x \in Backhauls /\ x.flt = flt
  BY <1>1, <1>2 DEF Backhauls
<1>5. r \in Backhauls
  BY <1>1, <1>3, <1>4 DEF Backhauls
<1>6. r.flt = flt /\ r.modem = flt
  BY <1>3, <1>4 DEF Backhauls
<1>7. /\ r.wan = s.wan /\ r.objs = s.objs /\ r.up = s.up /\ r.sta = s.sta
      /\ r.tether = s.tether /\ r.pdn = s.pdn /\ r.q = s.q /\ r.fw = s.fw
  BY <1>2, <1>3 DEF Backhauls
<1> QED
  BY <1>5, <1>6, <1>7 DEF flt, x, r, Is

\* The filters of an STA change.
LEMMA StaFilterFields ==
    ASSUME NEW s \in Backhauls, NEW w \in Sta, NEW f \in F, NEW n \in Nat
    PROVE  Is([s EXCEPT !.fw[w][f] = n], s.wan, s.objs, s.up, s.sta, s.tether, s.pdn, s.flt,
              s.modem, [s.fw EXCEPT ![w] = [s.fw[w] EXCEPT ![f] = n]], s.q)
<1> DEFINE fw == [s.fw EXCEPT ![w] = [s.fw[w] EXCEPT ![f] = n]]
           r == [s EXCEPT !.fw[w][f] = n]
<1>1. fw \in [Sta -> [F -> Nat]]
  BY FieldTypes
<1>2. r = [s EXCEPT !.fw = fw]
  OBVIOUS
<1> HIDE DEF fw, r
<1>3. r \in Backhauls
  BY <1>1, <1>2 DEF Backhauls
<1>4. r.fw = fw
  BY <1>2 DEF Backhauls
<1>5. /\ r.wan = s.wan /\ r.objs = s.objs /\ r.up = s.up /\ r.sta = s.sta
      /\ r.tether = s.tether /\ r.pdn = s.pdn /\ r.q = s.q
      /\ r.flt = s.flt /\ r.modem = s.modem
  BY <1>2 DEF Backhauls
<1> QED
  BY <1>3, <1>4, <1>5 DEF fw, r, Is

\* The filters of an object that is an upstream, and of one that is no more.
LEMMA FirewallFields ==
    ASSUME NEW s \in Backhauls, NEW w \in Wans, NEW f \in F
    PROVE  LET flt == [s.flt EXCEPT ![f] = "firewall"]
               r == config_firewall(s, w, f) IN
           IF w \in Modem
           THEN Is(r, s.wan, s.objs, s.up, s.sta, s.tether, s.pdn, flt, flt, s.fw, s.q)
           ELSE Is(r, s.wan, s.objs, s.up, s.sta, s.tether, s.pdn, s.flt, s.modem,
                   [s.fw EXCEPT ![w] = [s.fw[w] EXCEPT ![f] = s.fw[w][f] + 1]], s.q)
<1>1. CASE w \in Modem
  <2>1. "firewall" \in Filters
    BY DEF Filters
  <2>2. config_firewall(s, w, f) = install_wan_filtering_rule([s EXCEPT !.flt[f] = "firewall"])
    BY <1>1 DEF config_firewall
  <2> QED
    BY <1>1, <2>1, <2>2, FilterFields
<1>2. CASE w \notin Modem
  <2>1. w \in Sta
    BY <1>2 DEF Wans
  <2> DEFINE n == s.fw[w][f] + 1
  <2>2. n \in Nat
    BY <2>1, FieldTypes
  <2>3. config_firewall(s, w, f) = [s EXCEPT !.fw[w][f] = n]
    BY <1>2 DEF config_firewall
  <2> HIDE DEF n
  <2>4. Is(config_firewall(s, w, f), s.wan, s.objs, s.up, s.sta, s.tether, s.pdn, s.flt,
           s.modem, [s.fw EXCEPT ![w] = [s.fw[w] EXCEPT ![f] = n]], s.q)
    BY <2>1, <2>2, <2>3, StaFilterFields
  <2> QED
    BY <1>2, <2>4 DEF n
<1> QED
  BY <1>1, <1>2

LEMMA DelFirewallFields ==
    ASSUME NEW s \in Backhauls, NEW w \in Wans, NEW f \in F, Active(s, w, f),
           w \in Sta => s.fw[w][f] = 1
    PROVE  LET flt == [s.flt EXCEPT ![f] = "default"]
               r == del_firewall(s, w, f) IN
           IF w \in Modem
           THEN Is(r, s.wan, s.objs, s.up, s.sta, s.tether, s.pdn, flt, flt, s.fw, s.q)
           ELSE Is(r, s.wan, s.objs, s.up, s.sta, s.tether, s.pdn, s.flt, s.modem,
                   [s.fw EXCEPT ![w] = [s.fw[w] EXCEPT ![f] = 0]], s.q)
<1>1. CASE w \in Modem
  <2>1. "default" \in Filters
    BY DEF Filters
  <2>2. del_firewall(s, w, f) = install_wan_filtering_rule([s EXCEPT !.flt[f] = "default"])
    BY <1>1 DEF del_firewall
  <2> QED
    BY <1>1, <2>1, <2>2, FilterFields
<1>2. CASE w \notin Modem
  <2>1. w \in Sta
    BY <1>2 DEF Wans
  <2>2. s.fw[w][f] - 1 = 0
    BY <2>1
  <2>3. del_firewall(s, w, f) = [s EXCEPT !.fw[w][f] = s.fw[w][f] - 1]
    BY <1>2 DEF del_firewall
  <2>4. del_firewall(s, w, f) = [s EXCEPT !.fw[w][f] = 0]
    BY <2>2, <2>3
  <2> QED
    BY <1>2, <2>1, <2>4, StaFilterFields
<1> QED
  BY <1>1, <1>2

\* Changes of the fields outside of the filters and the queue.
With(s, wan, objs, up, sta) ==
    [s EXCEPT !.wan = wan, !.objs = objs, !.up = up, !.sta = sta]

LEMMA WithFields ==
    ASSUME NEW s \in Backhauls, NEW wan \in [Wans -> {NULL} \cup WanObjects],
           NEW objs \in Seq(Wans), NEW up \in SUBSET F, NEW sta \in BOOLEAN
    PROVE  Is(With(s, wan, objs, up, sta), wan, objs, up, sta,
              s.tether, s.pdn, s.flt, s.modem, s.fw, s.q)
<1> DEFINE r == With(s, wan, objs, up, sta)
<1>1. r = [s EXCEPT !.wan = wan, !.objs = objs, !.up = up, !.sta = sta]
  BY DEF With
<1> HIDE DEF r
<1>2. r \in Backhauls
  BY <1>1 DEF Backhauls
<1>3. r.wan = wan /\ r.objs = objs /\ r.up = up /\ r.sta = sta
  BY <1>1 DEF Backhauls
<1>4. /\ r.tether = s.tether /\ r.pdn = s.pdn /\ r.flt = s.flt /\ r.modem = s.modem
      /\ r.fw = s.fw /\ r.q = s.q
  BY <1>1 DEF Backhauls
<1> QED
  BY <1>2, <1>3, <1>4 DEF r, Is

\* handle_route_add_evt of a modem, or of an STA with a header.
Upstream(o, f) == [o EXCEPT !.is_default_gateway = TRUE, !.active = @ \cup {f}]

LEMMA RouteAddFields ==
    ASSUME NEW s \in Backhauls, NEW w \in Wans, NEW f \in F, s.wan[w] # NULL,
           w \in Sta => s.wan[w].header_set
    PROVE  LET flt == [s.flt EXCEPT ![f] = "firewall"]
               wan == [s.wan EXCEPT ![w] = Upstream(s.wan[w], f)]
               q   == Append(s.q, WanEvt("WAN_UP", f, w))
               r   == handle_route_add_evt(s, w, f) IN
           IF w \in Modem
           THEN Is(r, wan, s.objs, s.up \cup {f}, FALSE, s.tether, s.pdn, flt, flt, s.fw, q)
           ELSE Is(r, wan, s.objs, s.up \cup {f}, TRUE, s.tether, s.pdn, s.flt, s.modem,
                   [s.fw EXCEPT ![w] = [s.fw[w] EXCEPT ![f] = @ + 1]], q)
<1> DEFINE o == Upstream(s.wan[w], f)
           wan == [s.wan EXCEPT ![w] = o]
           t == [s EXCEPT !.wan[w].is_default_gateway = TRUE, !.sta = w \in Sta]
           u == [t EXCEPT !.up = @ \cup {f}, !.wan[w].active = @ \cup {f}]
           e == WanEvt("WAN_UP", f, w)
<1>1. s.wan \in [Wans -> {NULL} \cup WanObjects] /\ s.wan[w] \in WanObjects
  BY FieldTypes
<1>2. o \in WanObjects
  BY <1>1 DEF WanObjects, Upstream
<1>3. wan \in [Wans -> {NULL} \cup WanObjects]
  BY <1>1, <1>2
<1>4. t = [s EXCEPT !.wan = [s.wan EXCEPT ![w] = [s.wan[w] EXCEPT !.is_default_gateway = TRUE]],
                    !.sta = w \in Sta]
  OBVIOUS
<1>5. t.wan = [s.wan EXCEPT ![w] = [s.wan[w] EXCEPT !.is_default_gateway = TRUE]] /\ t.up = s.up
  BY <1>4 DEF Backhauls
<1>6. t.wan[w] = [s.wan[w] EXCEPT !.is_default_gateway = TRUE]
  BY <1>1, <1>5
<1>7. [t.wan[w] EXCEPT !.active = t.wan[w].active \cup {f}] = o
  BY <1>1, <1>6 DEF WanObjects, Upstream
<1>8. [t.wan EXCEPT ![w] = o] = wan
  BY <1>1, <1>5
<1>9. u = [t EXCEPT !.up = s.up \cup {f}, !.wan = wan]
  BY <1>5, <1>7, <1>8
<1> HIDE DEF o, wan, u
<1>10. u = With(s, wan, s.objs, s.up \cup {f}, w \in Sta)
  BY <1>4, <1>9 DEF With, Backhauls
<1>11. Is(u, wan, s.objs, s.up \cup {f}, (w \in Sta), s.tether, s.pdn, s.flt, s.modem, s.fw, s.q)
  <2>1. s.objs \in Seq(Wans) /\ s.up \cup {f} \in SUBSET F /\ (w \in Sta) \in BOOLEAN
    BY FieldTypes
  <2> QED
    BY <1>3, <1>10, <2>1, WithFields
<1>12. handle_route_add_evt(s, w, f) = PostEvt(config_firewall(u, w, f), e)
  BY DEF handle_route_add_evt, u, WanEvt
<1> HIDE DEF e
<1>13. e \in WanEvents \cup TetherEvents
  BY EventTypes DEF e
<1>14. CASE w \in Modem
  <2> DEFINE flt == [s.flt EXCEPT ![f] = "firewall"]
             v == config_firewall(u, w, f)
  <2>1. w \notin Sta
    BY <1>14, BackhaulAssumption
  <2>2. (w \in Sta) = FALSE
    BY <2>1
  <2>3. Is(u, wan, s.objs, s.up \cup {f}, FALSE, s.tether, s.pdn, s.flt, s.modem, s.fw, s.q)
    BY <1>11, <2>2
  <2>4. u \in Backhauls /\ u.flt = s.flt /\ u.sta = FALSE
    BY <2>3 DEF Is
  <2> HIDE DEF v, flt
  <2>5. Is(v, u.wan, u.objs, u.up, u.sta, u.tether, u.pdn, flt, flt, u.fw, u.q)
    BY <1>14, <2>4, FirewallFields DEF v, flt
  <2>6. v \in Backhauls
    BY <2>5 DEF Is
  <2>7. Is(PostEvt(v, e), v.wan, v.objs, v.up, v.sta, v.tether, v.pdn, v.flt, v.modem, v.fw,
           Append(v.q, e))
    BY <1>13, <2>6, PostFields
  <2>8. Is(PostEvt(v, e), wan, s.objs, s.up \cup {f}, FALSE, s.tether, s.pdn, flt, flt, s.fw,
           Append(s.q, e))
    BY <1>11, <2>4, <2>5, <2>7 DEF Is
  <2> QED
    BY <1>12, <1>14, <2>8 DEF wan, o, v, flt, e
<1>15. CASE w \notin Modem
  <2> DEFINE fw == [s.fw EXCEPT ![w] = [s.fw[w] EXCEPT ![f] = @ + 1]]
             v == config_firewall(u, w, f)
  <2>1. w \in Sta
    BY <1>15 DEF Wans
  <2>2. u \in Backhauls /\ u.fw = s.fw
    BY <1>11 DEF Is
  <2> HIDE DEF v, fw
  <2>3. Is(v, u.wan, u.objs, u.up, u.sta, u.tether, u.pdn, u.flt, u.modem, fw, u.q)
    BY <1>15, <2>2, FirewallFields DEF v, fw
  <2>4. v \in Backhauls
    BY <2>3 DEF Is
  <2>5. Is(PostEvt(v, e), v.wan, v.objs, v.up, v.sta, v.tether, v.pdn, v.flt, v.modem, v.fw,
           Append(v.q, e))
    BY <1>13, <2>4, PostFields
  <2>6. Is(PostEvt(v, e), wan, s.objs, s.up \cup {f}, TRUE, s.tether, s.pdn, s.flt, s.modem, fw,
           Append(s.q, e))
    BY <1>11, <2>1, <2>3, <2>5 DEF Is
  <2> QED
    BY <1>12, <1>15, <2>6 DEF wan, o, v, fw, e
<1> QED
  BY <1>14, <1>15

\* handle_route_del_evt of an object that is the upstream.
Left(o, f) == [o EXCEPT !.is_default_gateway = FALSE, !.active = @ \ {f}]

LEMMA RouteDelFields ==
    ASSUME NEW s \in Backhauls, NEW w \in Wans, NEW f \in F, Active(s, w, f)
    PROVE  Is(handle_route_del_evt(s, w, f), [s.wan EXCEPT ![w] = Left(s.wan[w], f)], s.objs,
              s.up \ {f}, s.sta, s.tether, s.pdn, s.flt, s.modem, s.fw,
              Append(s.q, WanEvt("WAN_DOWN", f, w)))
<1> DEFINE o == Left(s.wan[w], f)
           wan == [s.wan EXCEPT ![w] = o]
           t == [s EXCEPT !.wan[w].is_default_gateway = FALSE]
           u == [t EXCEPT !.up = @ \ {f}, !.wan[w].active = @ \ {f}]
           e == WanEvt("WAN_DOWN", f, w)
<1>1. s.wan \in [Wans -> {NULL} \cup WanObjects] /\ s.wan[w] \in WanObjects
  BY FieldTypes DEF Active
<1>2. o \in WanObjects
  BY <1>1 DEF WanObjects, Left
<1>3. wan \in [Wans -> {NULL} \cup WanObjects]
  BY <1>1, <1>2
<1>4. t = [s EXCEPT !.wan = [s.wan EXCEPT ![w] = [s.wan[w] EXCEPT !.is_default_gateway = FALSE]]]
  OBVIOUS
<1>5. t.wan = [s.wan EXCEPT ![w] = [s.wan[w] EXCEPT !.is_default_gateway = FALSE]] /\ t.up = s.up
  BY <1>4 DEF Backhauls
<1>6. t.wan[w] = [s.wan[w] EXCEPT !.is_default_gateway = FALSE]
  BY <1>1, <1>5
<1>7. [t.wan[w] EXCEPT !.active = t.wan[w].active \ {f}] = o
  BY <1>1, <1>6 DEF WanObjects, Left
<1>8. [t.wan EXCEPT ![w] = o] = wan
  BY <1>1, <1>5
<1>9. u = [t EXCEPT !.up = s.up \ {f}, !.wan = wan]
  BY <1>5, <1>7, <1>8
<1> HIDE DEF o, wan, u
<1>10. u = With(s, wan, s.objs, s.up \ {f}, s.sta)
  BY <1>4, <1>9 DEF With, Backhauls
<1>11. Is(u, wan, s.objs, s.up \ {f}, s.sta, s.tether, s.pdn, s.flt, s.modem, s.fw, s.q)
  <2>1. s.objs \in Seq(Wans) /\ s.up \ {f} \in SUBSET F /\ s.sta \in BOOLEAN
    BY FieldTypes
  <2> QED
    BY <1>3, <1>10, <2>1, WithFields
<1>12. handle_route_del_evt(s, w, f) = PostEvt(u, e)
  BY DEF handle_route_del_evt, u, WanEvt
<1> HIDE DEF e
<1>13. e \in WanEvents \cup TetherEvents
  BY EventTypes DEF e
<1>14. u \in Backhauls
  BY <1>11 DEF Is
<1>15. Is(PostEvt(u, e), u.wan, u.objs, u.up, u.sta, u.tether, u.pdn, u.flt, u.modem, u.fw,
          Append(u.q, e))
  BY <1>13, <1>14, PostFields
<1>16. Is(PostEvt(u, e), wan, s.objs, s.up \ {f}, s.sta, s.tether, s.pdn, s.flt, s.modem, s.fw,
          Append(s.q, e))
  BY <1>11, <1>15 DEF Is
<1> QED
  BY <1>12, <1>16 DEF wan, o, e

\* The object stops being the upstream of a family.
LEMMA CleanFields ==
    ASSUME NEW s \in Backhauls, NEW w \in Wans, NEW f \in F, Active(s, w, f),
           w \in Sta => s.fw[w][f] = 1
    PROVE  LET flt == [s.flt EXCEPT ![f] = "default"]
               wan == [s.wan EXCEPT ![w] = Left(s.wan[w], f)]
               q   == Append(s.q, WanEvt("WAN_DOWN", f, w))
               r   == clean_default_route(s, w, f) IN
           IF w \in Modem
           THEN Is(r, wan, s.objs, s.up \ {f}, s.sta, s.tether, s.pdn, flt, flt, s.fw, q)
           ELSE Is(r, wan, s.objs, s.up \ {f}, s.sta, s.tether, s.pdn, s.flt, s.modem,
                   [s.fw EXCEPT ![w] = [s.fw[w] EXCEPT ![f] = 0]], q)
<1> DEFINE flt == [s.flt EXCEPT ![f] = "default"]
           fw  == [s.fw EXCEPT ![w] = [s.fw[w] EXCEPT ![f] = 0]]
           u == del_firewall(s, w, f)
           r == clean_default_route(s, w, f)
<1>1. IF w \in Modem
      THEN Is(u, s.wan, s.objs, s.up, s.sta, s.tether, s.pdn, flt, flt, s.fw, s.q)
      ELSE Is(u, s.wan, s.objs, s.up, s.sta, s.tether, s.pdn, s.flt, s.modem, fw, s.q)
  BY DelFirewallFields
<1>2. r = handle_route_del_evt(u, w, f)
  BY DEF clean_default_route
<1> HIDE DEF u, flt, fw, r
<1>3. u \in Backhauls /\ u.wan = s.wan
  BY <1>1 DEF Is
<1>4. Active(u, w, f)
  BY <1>3 DEF Active
<1>5. Is(r, [u.wan EXCEPT ![w] = Left(u.wan[w], f)], u.objs,
         u.up \ {f}, u.sta, u.tether, u.pdn, u.flt, u.modem, u.fw,
         Append(u.q, WanEvt("WAN_DOWN", f, w)))
  BY <1>2, <1>3, <1>4, RouteDelFields
<1> DEFINE wan == [s.wan EXCEPT ![w] = Left(s.wan[w], f)]
           q   == Append(s.q, WanEvt("WAN_DOWN", f, w))
<1>6. CASE w \in Modem
  <2>1. Is(r, wan, s.objs, s.up \ {f}, s.sta, s.tether, s.pdn, flt, flt, s.fw, q)
    BY <1>1, <1>5, <1>6 DEF Is
  <2> QED
    BY <1>6, <2>1 DEF flt, r
<1>7. CASE w \notin Modem
  <2>1. Is(r, wan, s.objs, s.up \ {f}, s.sta, s.tether, s.pdn, s.flt, s.modem, fw, q)
    BY <1>1, <1>5, <1>7 DEF Is
  <2> QED
    BY <1>7, <2>1 DEF fw, r
<1> QED
  BY <1>6, <1>7

\* The lists of tethering interfaces.
LEMMA UpTetherFields ==
    ASSUME NEW s \in Backhauls, NEW w \in Wans, NEW f \in F, NEW t \in Tethers
    PROVE  Is(post_wan_up_tether_evt(s, w, f, t), s.wan, s.objs, s.up, s.sta,
              [s.tether EXCEPT ![f] = Append(s.tether[f], t)], s.pdn, s.flt, s.modem, s.fw,
              Append(s.q, TetherEvt("WAN_UP_TETHER", f, t, w \in Sta)))
<1> DEFINE l == Append(s.tether[f], t)
           tether == [s.tether EXCEPT ![f] = l]
           u == [s EXCEPT !.tether[f] = Append(@, t)]
           e == TetherEvt("WAN_UP_TETHER", f, t, w \in Sta)
<1>1. s.tether \in [F -> Seq(Tethers)] /\ s.tether[f] \in Seq(Tethers)
  BY FieldTypes
<1>2. l \in Seq(Tethers)
  BY <1>1
<1>3. post_wan_up_tether_evt(s, w, f, t) = PostEvt(u, e)
  BY DEF post_wan_up_tether_evt, TetherEvt
<1>4. u = [s EXCEPT !.tether = tether]
  OBVIOUS
<1> HIDE DEF l, u, e
<1>5. tether \in [F -> Seq(Tethers)]
  BY <1>1, <1>2
<1> HIDE DEF tether
<1>6. u \in Backhauls
  BY <1>4, <1>5 DEF Backhauls
<1>7. /\ u.wan = s.wan /\ u.objs = s.objs /\ u.up = s.up /\ u.sta = s.sta /\ u.tether = tether
      /\ u.pdn = s.pdn /\ u.flt = s.flt /\ u.modem = s.modem /\ u.fw = s.fw /\ u.q = s.q
  BY <1>4 DEF Backhauls
<1>8. e \in WanEvents \cup TetherEvents
  BY DEF e, TetherEvt, TetherEvents
<1>9. Is(PostEvt(u, e), u.wan, u.objs, u.up, u.sta, u.tether, u.pdn, u.flt, u.modem, u.fw,
         Append(u.q, e))
  BY <1>6, <1>8, PostFields
<1> QED
  BY <1>3, <1>7, <1>9 DEF tether, l, e

LEMMA DownTetherFields ==
    ASSUME NEW s \in Backhauls, NEW w \in Wans, NEW f \in F, NEW t \in Tethers,
           Once(s.tether[f]), Holds(s.tether[f], t)
    PROVE  Is(post_wan_down_tether_evt(s, w, f, t), s.wan, s.objs, s.up, s.sta,
              [s.tether EXCEPT ![f] = RemoveFirst(s.tether[f], t)], s.pdn, s.flt, s.modem, s.fw,
              Append(s.q, TetherEvt("WAN_DOWN_TETHER", f, t, w \in Sta)))
<1> DEFINE l == RemoveFirst(s.tether[f], t)
           tether == [s.tether EXCEPT ![f] = l]
           u == [s EXCEPT !.tether[f] = RemoveFirst(@, t)]
           e == TetherEvt("WAN_DOWN_TETHER", f, t, w \in Sta)
<1>1. s.tether \in [F -> Seq(Tethers)] /\ s.tether[f] \in Seq(Tethers)
  BY FieldTypes
<1>2. l \in Seq(Tethers)
  BY <1>1, RemoveFirstHolds
<1>3. post_wan_down_tether_evt(s, w, f, t) = PostEvt(u, e)
  BY DEF post_wan_down_tether_evt, TetherEvt, Holds, Contains
<1>4. u = [s EXCEPT !.tether = tether]
  OBVIOUS
<1> HIDE DEF l, u, e
<1>5. tether \in [F -> Seq(Tethers)]
  BY <1>1, <1>2
<1> HIDE DEF tether
<1>6. u \in Backhauls
  BY <1>4, <1>5 DEF Backhauls
<1>7. /\ u.wan = s.wan /\ u.objs = s.objs /\ u.up = s.up /\ u.sta = s.sta /\ u.tether = tether
      /\ u.pdn = s.pdn /\ u.flt = s.flt /\ u.modem = s.modem /\ u.fw = s.fw /\ u.q = s.q
  BY <1>4 DEF Backhauls
<1>8. e \in WanEvents \cup TetherEvents
  BY DEF e, TetherEvt, TetherEvents
<1>9. Is(PostEvt(u, e), u.wan, u.objs, u.up, u.sta, u.tether, u.pdn, u.flt, u.modem, u.fw,
         Append(u.q, e))
  BY <1>6, <1>8, PostFields
<1> QED
  BY <1>3, <1>7, <1>9 DEF tether, l, e

-----------------------------------------------------------------------------
(* The upstreams when one object changes. *)

\* Nothing that is seen outside of the WAN objects changes.
Quiet(s, r) ==
    /\ r.q = s.q /\ r.tether = s.tether /\ r.sta = s.sta
    /\ \A v \in Wans, f \in F : Active(r, v, f) <=> Active(s, v, f)

Changed(s, w, o) == [s.wan EXCEPT ![w] = o]

LEMMA OneChanges ==
    ASSUME NEW s \in Backhauls, NEW r \in Backhauls, NEW w \in Wans, NEW o \in WanObjects,
           r.wan = Changed(s, w, o)
    PROVE  /\ r.wan[w] = o /\ o # NULL /\ \A v \in Wans : v # w => r.wan[v] = s.wan[v]
           /\ \A f \in F : Active(r, w, f) <=> f \in o.active
           /\ \A v \in Wans, f \in F : v # w => (Active(r, v, f) <=> Active(s, v, f))
<1>1. s.wan \in [Wans -> {NULL} \cup WanObjects] /\ o # NULL
  BY FieldTypes, BackhaulAssumption
<1>2. r.wan[w] = o /\ \A v \in Wans : v # w => r.wan[v] = s.wan[v]
  BY <1>1 DEF Changed
<1> QED
  BY <1>1, <1>2 DEF Active

\* Nothing changes for the upstreams when no object starts or stops being one.
LEMMA SameUpstreams ==
    ASSUME NEW s \in Backhauls, NEW r \in Backhauls, NEW rt,
           UpOK(s), ListOK(s, rt), KindOK(s), rt \in Routes,
           \A v \in Wans, f \in F : Active(r, v, f) <=> Active(s, v, f),
           r.up = s.up, r.tether = s.tether, r.sta = s.sta
    PROVE  UpOK(r) /\ ListOK(r, rt) /\ KindOK(r)
<1>1. UpOK(r)
  BY DEF UpOK
<1>2. ListOK(r, rt)
  BY DEF ListOK
<1>3. KindOK(r)
  BY DEF KindOK
<1> QED
  BY <1>1, <1>2, <1>3

LEMMA SameFilters ==
    ASSUME NEW s \in Backhauls, NEW r \in Backhauls,
           PdnOK(s), FiltersOK(s),
           \A v \in Wans, f \in F : Active(r, v, f) <=> Active(s, v, f),
           \A f \in F : Pdns(r, f) = Pdns(s, f),
           r.pdn = s.pdn, r.flt = s.flt, r.modem = s.modem, r.fw = s.fw
    PROVE  PdnOK(r) /\ FiltersOK(r)
<1>1. PdnOK(r)
  BY DEF PdnOK
<1>2. FiltersOK(r)
  BY DEF FiltersOK, Wans
<1> QED
  BY <1>1, <1>2

\* The objects that are called.
LEMMA SameObjects ==
    ASSUME NEW s \in Backhauls, NEW r \in Backhauls, NEW w \in Wans, NEW o \in WanObjects,
           s.wan[w] # NULL, r.wan = Changed(s, w, o), r.objs = s.objs,
           ObjsOK(s), WansOK(s), WanOK(w, o)
    PROVE  ObjsOK(r) /\ WansOK(r)
<1>1. /\ r.wan[w] = o /\ o # NULL /\ \A v \in Wans : v # w => r.wan[v] = s.wan[v]
  BY OneChanges
<1>2. ObjsOK(r)
  BY <1>1 DEF ObjsOK
<1>3. WansOK(r)
  BY <1>1 DEF WansOK
<1> QED
  BY <1>2, <1>3

LEMMA NewWanOK ==
    ASSUME NEW w \in Wans
    PROVE  NewWan \in WanObjects /\ NewWan.active = {} /\ ~Usable(NewWan, "v4")
           /\ ~Usable(NewWan, "v6") /\ WanOK(w, NewWan)
<1>1. NewWan \in WanObjects /\ NewWan.active = {} /\ ~Usable(NewWan, "v4") /\ ~Usable(NewWan, "v6")
  BY DEF NewWan, WanObjects, Usable, MAX_DEFAULT_v6_ROUTE_RULES
<1>2. IpType(NewWan) = {}
  BY DEF NewWan, IpType
<1>3. WanOK(w, NewWan)
  BY <1>2 DEF WanOK, NewWan
<1> QED
  BY <1>1, <1>3

\* The link of a WAN interface comes up.
Created(s, w) == [s EXCEPT !.wan[w] = NewWan, !.objs = Append(@, w)]

LEMMA WanLinkUpOK ==
    ASSUME NEW s, NEW rt \in Routes, BackhaulOK(s, rt),
           NEW w \in Wans, s.wan[w] = NULL,
           NEW r, r = Created(s, w)
    PROVE  BackhaulOK(r, rt) /\ Quiet(s, r)
<1> DEFINE o == NewWan
           wan == Changed(s, w, o)
           objs == Append(s.objs, w)
<1>1. s \in Backhauls /\ o \in WanObjects /\ o.active = {} /\ WanOK(w, o)
  BY NewWanOK DEF BackhaulOK
<1>2. s.wan \in [Wans -> {NULL} \cup WanObjects] /\ s.objs \in Seq(Wans) /\ s.up \in SUBSET F
      /\ s.sta \in BOOLEAN
  BY <1>1, FieldTypes
<1>3. wan \in [Wans -> {NULL} \cup WanObjects] /\ objs \in Seq(Wans)
  BY <1>1, <1>2 DEF Changed
<1>4. r = With(s, wan, objs, s.up, s.sta)
  BY <1>1 DEF With, Backhauls, Changed, Created
<1> HIDE DEF wan, objs, o
<1>5. Is(r, wan, objs, s.up, s.sta, s.tether, s.pdn, s.flt, s.modem, s.fw, s.q)
  BY <1>1, <1>2, <1>3, <1>4, WithFields
<1>6. /\ r \in Backhauls /\ r.wan = Changed(s, w, o) /\ r.objs = objs
      /\ r.up = s.up /\ r.sta = s.sta /\ r.tether = s.tether /\ r.pdn = s.pdn
      /\ r.flt = s.flt /\ r.modem = s.modem /\ r.fw = s.fw /\ r.q = s.q
  BY <1>5 DEF Is, wan, objs
<1>7. /\ r.wan[w] = o /\ o # NULL /\ \A v \in Wans : v # w => r.wan[v] = s.wan[v]
      /\ \A f \in F : Active(r, w, f) <=> f \in o.active
      /\ \A v \in Wans, f \in F : v # w => (Active(r, v, f) <=> Active(s, v, f))
  BY <1>1, <1>6, OneChanges
<1>8. \A v \in Wans, f \in F : Active(r, v, f) <=> Active(s, v, f)
  BY <1>1, <1>7 DEF Active
<1>9. \A f \in F : Pdns(r, f) = Pdns(s, f)
  <2> SUFFICES ASSUME NEW f \in F, NEW v \in Modem
               PROVE  (r.wan[v] # NULL /\ Usable(r.wan[v], f)) <=> (s.wan[v] # NULL /\ Usable(s.wan[v], f))
    BY DEF Pdns
  <2>1. v \in Wans
    BY DEF Wans
  <2>2. ~Usable(o, f)
    BY NewWanOK DEF o, F
  <2> QED
    BY <1>7, <2>1, <2>2
<1>10. UpOK(r) /\ ListOK(r, rt) /\ KindOK(r)
  BY <1>1, <1>6, <1>8, SameUpstreams DEF BackhaulOK
<1>11. PdnOK(r) /\ FiltersOK(r)
  BY <1>1, <1>6, <1>8, <1>9, SameFilters DEF BackhaulOK
<1>12. ObjsOK(r)
  <2>1. Once(s.objs) /\ ~Holds(s.objs, w) /\ \A v \in Wans : s.wan[v] # NULL <=> Holds(s.objs, v)
    BY DEF BackhaulOK, ObjsOK
  <2>2. Once(objs) /\ \A y : Holds(objs, y) <=> Holds(s.objs, y) \/ y = w
    BY <1>2, <2>1, AppendHolds DEF objs
  <2> QED
    BY <1>6, <1>7, <2>1, <2>2 DEF ObjsOK
<1>13. WansOK(r)
  BY <1>1, <1>7 DEF WansOK, BackhaulOK
<1> QED
  BY <1>6, <1>8, <1>10, <1>11, <1>12, <1>13 DEF BackhaulOK, Quiet

-----------------------------------------------------------------------------
(* Addresses of WAN objects. *)

Addressed(o, f) ==
    IF f = "v4" THEN [o EXCEPT !.v4 = TRUE] ELSE [o EXCEPT !.num_dft_rt_v6 = @ + 1]

\* An address that has no effect yet or any more, and one that does.
LEMMA AddressedOK ==
    ASSUME NEW w \in Wans, NEW o \in WanObjects, WanOK(w, o), NEW f \in Fam[w] \cap F,
           f = "v4" \/ o.num_dft_rt_v6 # MAX_DEFAULT_v6_ROUTE_RULES
    PROVE  /\ Addressed(o, f) \in WanObjects /\ WanOK(w, Addressed(o, f))
           /\ Addressed(o, f).active = o.active
           /\ \A g \in F : g # f => (Usable(Addressed(o, f), g) <=> Usable(o, g))
           /\ Usable(o, f) => Usable(Addressed(o, f), f)
           /\ f = "v4" => Usable(Addressed(o, f), f)
           /\ f = "v6" => (Usable(Addressed(o, f), f) <=> o.num_dft_rt_v6 = 1)
<1> DEFINE p == Addressed(o, f)
<1>1. /\ p \in WanObjects /\ p.active = o.active
      /\ p.is_default_gateway = o.is_default_gateway /\ p.gw_set = o.gw_set
      /\ p.header_partial = o.header_partial /\ p.neighbours = o.neighbours
      /\ f = "v4" => p.v4 /\ p.num_dft_rt_v6 = o.num_dft_rt_v6
      /\ f = "v6" => (p.v4 <=> o.v4) /\ p.num_dft_rt_v6 = o.num_dft_rt_v6 + 1
  <2>1. CASE f = "v4"
    BY <2>1 DEF Addressed, WanObjects
  <2>2. CASE f = "v6"
    BY <2>2 DEF Addressed, WanObjects, MAX_DEFAULT_v6_ROUTE_RULES
  <2> QED
    BY <2>1, <2>2 DEF F
<1> HIDE DEF p
<1>2. o.num_dft_rt_v6 \in 0 .. 2 /\ p.num_dft_rt_v6 \in 0 .. 2
  BY <1>1 DEF WanObjects, MAX_DEFAULT_v6_ROUTE_RULES
<1>3. /\ \A g \in F : g # f => (Usable(p, g) <=> Usable(o, g))
      /\ Usable(o, f) => Usable(p, f)
      /\ f = "v4" => Usable(p, f)
      /\ f = "v6" => (Usable(p, f) <=> o.num_dft_rt_v6 = 1)
  BY <1>1, <1>2 DEF Usable, F, MAX_DEFAULT_v6_ROUTE_RULES
<1>4. IpType(p) \subseteq IpType(o) \cup {f}
  BY <1>1, <1>2 DEF IpType, F
<1>5. WanOK(w, p)
  <2>1. \A g \in p.active : Usable(p, g)
    BY <1>1, <1>3 DEF WanOK, WanObjects
  <2> QED
    BY <1>1, <1>4, <2>1 DEF WanOK
<1> QED
  BY <1>1, <1>3, <1>5 DEF p

LEMMA InitFilterFields ==
    ASSUME NEW s \in Backhauls, NEW f \in F
    PROVE  LET flt == [s.flt EXCEPT ![f] = IF s.pdn[f] = 0 THEN "default" ELSE s.flt[f]] IN
           Is(init_fl_rule_ex(s, f), s.wan, s.objs, s.up, s.sta, s.tether,
              [s.pdn EXCEPT ![f] = s.pdn[f] + 1], flt, flt, s.fw, s.q)
<1> DEFINE v == IF s.pdn[f] = 0 THEN "default" ELSE s.flt[f]
           flt == [s.flt EXCEPT ![f] = v]
           pdn == [s.pdn EXCEPT ![f] = s.pdn[f] + 1]
           x == [s EXCEPT !.flt[f] = IF s.pdn[f] = 0 THEN "default" ELSE @, !.pdn[f] = @ + 1]
           r == init_fl_rule_ex(s, f)
<1>1. v \in Filters
  BY FieldTypes DEF Filters
<1>2. flt \in [F -> Filters]
  BY <1>1, FieldTypes
<1>3. pdn \in [F -> Nat]
  BY FieldTypes
<1>4. x = [s EXCEPT !.flt = flt, !.pdn = pdn]
  BY DEF Backhauls
<1>5. r = [x EXCEPT !.modem = x.flt]
  BY DEF init_fl_rule_ex, install_wan_filtering_rule
<1> HIDE DEF flt, pdn, x, r
<1>6. x \in Backhauls /\ x.flt = flt
  BY <1>2, <1>3, <1>4 DEF Backhauls
<1>7. r \in Backhauls
  BY <1>2, <1>5, <1>6 DEF Backhauls
<1>8. r.flt = flt /\ r.modem = flt
  BY <1>5, <1>6 DEF Backhauls
<1>9. /\ r.wan = s.wan /\ r.objs = s.objs /\ r.up = s.up /\ r.sta = s.sta
      /\ r.tether = s.tether /\ r.pdn = pdn /\ r.q = s.q /\ r.fw = s.fw
  BY <1>4, <1>5 DEF Backhauls
<1> QED
  BY <1>7, <1>8, <1>9 DEF flt, pdn, r, Is

\* The object changes first or last.
LEMMA ChangedFields ==
    ASSUME NEW s \in Backhauls, NEW w \in Wans, NEW o \in WanObjects
    PROVE  Is(With(s, Changed(s, w, o), s.objs, s.up, s.sta), Changed(s, w, o), s.objs, s.up,
              s.sta, s.tether, s.pdn, s.flt, s.modem, s.fw, s.q)
<1>1. Changed(s, w, o) \in [Wans -> {NULL} \cup WanObjects]
  BY FieldTypes DEF Changed
<1>2. s.objs \in Seq(Wans) /\ s.up \in SUBSET F /\ s.sta \in BOOLEAN
  BY FieldTypes
<1> QED
  BY <1>1, <1>2, WithFields

\* What an address with an effect does.
Counts(s, w, f) == w \in Modem /\ (f = "v6" => s.wan[w].num_dft_rt_v6 = 1)

LEMMA AddrFields ==
    ASSUME NEW s \in Backhauls, NEW w \in Wans, NEW f \in F, s.wan[w] # NULL,
           Addressed(s.wan[w], f) \in WanObjects, f = "v4" => ~s.wan[w].v4,
           f = "v6" => s.wan[w].num_dft_rt_v6 \in 0 .. 1
    PROVE  LET o == Addressed(s.wan[w], f)
               flt == [s.flt EXCEPT ![f] = IF s.pdn[f] = 0 THEN "default" ELSE s.flt[f]]
               r == handle_addr_evt(s, w, f) IN
           IF Counts(s, w, f)
           THEN Is(r, Changed(s, w, o), s.objs, s.up, s.sta, s.tether,
                   [s.pdn EXCEPT ![f] = s.pdn[f] + 1], flt, flt, s.fw, s.q)
           ELSE Is(r, Changed(s, w, o), s.objs, s.up, s.sta, s.tether,
                   s.pdn, s.flt, s.modem, s.fw, s.q)
<1> DEFINE o == Addressed(s.wan[w], f)
           flt == [s.flt EXCEPT ![f] = IF s.pdn[f] = 0 THEN "default" ELSE s.flt[f]]
           pdn == [s.pdn EXCEPT ![f] = s.pdn[f] + 1]
           r == handle_addr_evt(s, w, f)
           c == init_fl_rule_ex(s, f)
           t == [s EXCEPT !.wan[w].num_dft_rt_v6 = @ + 1]
           x == With(s, Changed(s, w, o), s.objs, s.up, s.sta)
<1>1. Is(c, s.wan, s.objs, s.up, s.sta, s.tether, pdn, flt, flt, s.fw, s.q)
  BY InitFilterFields
<1>2. Is(x, Changed(s, w, o), s.objs, s.up, s.sta, s.tether, s.pdn, s.flt, s.modem, s.fw, s.q)
  BY ChangedFields
<1>3. CASE f = "v4" /\ w \in Modem
  <2>1. r = [c EXCEPT !.wan[w].v4 = TRUE]
    BY <1>3 DEF handle_addr_evt
  <2>2. c \in Backhauls /\ c.wan = s.wan
    BY <1>1 DEF Is
  <2>3. o = [s.wan[w] EXCEPT !.v4 = TRUE]
    BY <1>3 DEF Addressed
  <2>4. r = [c EXCEPT !.wan = Changed(c, w, o)]
    BY <2>1, <2>2, <2>3 DEF Changed
  <2>5. r = With(c, Changed(c, w, o), c.objs, c.up, c.sta)
    BY <2>2, <2>4 DEF With, Backhauls
  <2> HIDE DEF c, o, r
  <2>6. o \in WanObjects
    BY DEF o
  <2>7. Is(r, Changed(c, w, o), c.objs, c.up, c.sta, c.tether, c.pdn, c.flt, c.modem, c.fw, c.q)
    BY <2>2, <2>5, <2>6, ChangedFields
  <2>8. Changed(c, w, o) = Changed(s, w, o)
    BY <2>2 DEF Changed
  <2>9. Is(r, Changed(s, w, o), s.objs, s.up, s.sta, s.tether, pdn, flt, flt, s.fw, s.q)
    BY <1>1, <2>7, <2>8 DEF Is
  <2>10. Counts(s, w, f)
    BY <1>3 DEF Counts
  <2> QED
    BY <2>9, <2>10 DEF r, o
<1>4. CASE f = "v4" /\ w \notin Modem
  <2>1. r = [s EXCEPT !.wan[w].v4 = TRUE]
    BY <1>4 DEF handle_addr_evt
  <2>2. o = [s.wan[w] EXCEPT !.v4 = TRUE]
    BY <1>4 DEF Addressed
  <2>3. r = [s EXCEPT !.wan = Changed(s, w, o)]
    BY <2>1, <2>2 DEF Changed
  <2>4. r = x
    BY <2>3 DEF With, Backhauls
  <2>5. ~Counts(s, w, f)
    BY <1>4 DEF Counts
  <2> QED
    BY <1>2, <2>4, <2>5
<1>5. CASE f = "v6"
  <2>1. o = [s.wan[w] EXCEPT !.num_dft_rt_v6 = @ + 1]
    BY <1>5 DEF Addressed
  <2>2. t = [s EXCEPT !.wan = Changed(s, w, o)]
    BY <2>1 DEF Changed
  <2>3. t = x
    BY <2>2 DEF With, Backhauls
  <2>4. CASE Counts(s, w, f)
    <3>1. r = init_fl_rule_ex(t, f)
      BY <1>5, <2>4 DEF handle_addr_evt, Counts
    <3> HIDE DEF t, x, r, o
    <3>2. t \in Backhauls
      BY <1>2, <2>3 DEF Is
    <3> DEFINE tflt == [t.flt EXCEPT ![f] = IF t.pdn[f] = 0 THEN "default" ELSE t.flt[f]]
    <3>3. Is(r, t.wan, t.objs, t.up, t.sta, t.tether,
             [t.pdn EXCEPT ![f] = t.pdn[f] + 1], tflt, tflt, t.fw, t.q)
      BY <3>1, <3>2, InitFilterFields
    <3>4. t.pdn = s.pdn /\ t.flt = s.flt
      BY <1>2, <2>3 DEF Is
    <3>5. tflt = flt /\ [t.pdn EXCEPT ![f] = t.pdn[f] + 1] = pdn
      BY <3>4
    <3> HIDE DEF tflt, flt, pdn
    <3>6. Is(r, t.wan, t.objs, t.up, t.sta, t.tether, pdn, flt, flt, t.fw, t.q)
      BY <3>3, <3>5
    <3>7. Is(r, Changed(s, w, o), s.objs, s.up, s.sta, s.tether, pdn, flt, flt, s.fw, s.q)
      BY <1>2, <2>3, <3>6 DEF Is
    <3> QED
      BY <2>4, <3>7 DEF r, o, flt, pdn
  <2>5. CASE ~Counts(s, w, f)
    <3>1. r = t
      BY <1>5, <2>5 DEF handle_addr_evt, Counts
    <3> QED
      BY <1>2, <2>3, <2>5, <3>1
  <2> QED
    BY <2>4, <2>5
<1> QED
  BY <1>3, <1>4, <1>5 DEF F

\* An object becomes usable for a family.
LEMMA PdnAdded ==
    ASSUME NEW s \in Backhauls, NEW r \in Backhauls, NEW w \in Modem, NEW f \in F,
           WansOK(s), PdnOK(s), FiltersOK(s), s.wan[w] # NULL, ~Usable(s.wan[w], f),
           r.wan[w] # NULL, Usable(r.wan[w], f),
           \A g \in F : g # f => (Usable(r.wan[w], g) <=> Usable(s.wan[w], g)),
           \A v \in Wans : v # w => r.wan[v] = s.wan[v],
           \A v \in Wans, g \in F : Active(r, v, g) <=> Active(s, v, g),
           r.pdn = [s.pdn EXCEPT ![f] = s.pdn[f] + 1],
           r.flt = [s.flt EXCEPT ![f] = IF s.pdn[f] = 0 THEN "default" ELSE s.flt[f]],
           r.modem = r.flt, r.fw = s.fw
    PROVE  PdnOK(r) /\ FiltersOK(r)
<1>1. Pdns(r, f) = Pdns(s, f) \cup {w} /\ w \notin Pdns(s, f)
  BY DEF Pdns, Wans
<1>2. \A g \in F : g # f => Pdns(r, g) = Pdns(s, g)
  BY DEF Pdns, Wans
<1>3. IsFiniteSet(Pdns(s, f)) /\ s.pdn[f] = Cardinality(Pdns(s, f))
  BY DEF PdnOK
<1>4. IsFiniteSet(Pdns(r, f)) /\ Cardinality(Pdns(r, f)) = s.pdn[f] + 1
  BY <1>1, <1>3, FS_AddElement
<1>5. s.pdn \in [F -> Nat] /\ s.flt \in [F -> Filters]
  BY FieldTypes
<1>6. PdnOK(r)
  BY <1>2, <1>4, <1>5 DEF PdnOK
<1>7. s.pdn[f] = 0 <=> Pdns(s, f) = {}
  BY <1>3, FS_EmptySet
<1>8. ASSUME NEW g \in F
      PROVE  r.flt[g] = IF \E v \in Modem : Active(r, v, g) THEN "firewall"
                        ELSE IF Pdns(r, g) # {} THEN "default" ELSE "none"
  <2>1. (\E v \in Modem : Active(r, v, g)) <=> (\E v \in Modem : Active(s, v, g))
    BY DEF Wans
  <2>2. s.flt[g] = IF \E v \in Modem : Active(s, v, g) THEN "firewall"
                   ELSE IF Pdns(s, g) # {} THEN "default" ELSE "none"
    BY DEF FiltersOK
  <2>3. CASE g # f
    BY <1>2, <1>5, <2>1, <2>2, <2>3
  <2>4. CASE g = f
    <3>1. Pdns(r, f) # {}
      BY <1>1
    <3>2. (\E v \in Modem : Active(s, v, f)) => Pdns(s, f) # {}
      BY DEF Active, WansOK, WanOK, Pdns, Wans
    <3>3. r.flt[f] = IF s.pdn[f] = 0 THEN "default" ELSE s.flt[f]
      BY <1>5
    <3> QED
      BY <1>7, <2>1, <2>2, <2>4, <3>1, <3>2, <3>3
  <2> QED
    BY <2>3, <2>4
<1>9. FiltersOK(r)
  BY <1>8 DEF FiltersOK, Wans
<1> QED
  BY <1>6, <1>9

\* An object changes in nothing that makes it an upstream or counts.
LEMMA ObjectChangesOK ==
    ASSUME NEW s, NEW rt \in Routes, BackhaulOK(s, rt),
           NEW w \in Wans, s.wan[w] # NULL, NEW o \in WanObjects, WanOK(w, o),
           o.active = s.wan[w].active,
           w \in Modem => \A f \in F : Usable(o, f) <=> Usable(s.wan[w], f),
           NEW r, Is(r, Changed(s, w, o), s.objs, s.up, s.sta, s.tether, s.pdn, s.flt, s.modem,
                     s.fw, s.q)
    PROVE  BackhaulOK(r, rt) /\ Quiet(s, r)
<1>1. s \in Backhauls
  BY DEF BackhaulOK
<1>2. /\ r \in Backhauls /\ r.wan = Changed(s, w, o) /\ r.objs = s.objs
      /\ r.up = s.up /\ r.sta = s.sta /\ r.tether = s.tether /\ r.pdn = s.pdn
      /\ r.flt = s.flt /\ r.modem = s.modem /\ r.fw = s.fw /\ r.q = s.q
  BY DEF Is
<1>3. /\ r.wan[w] = o /\ o # NULL /\ \A v \in Wans : v # w => r.wan[v] = s.wan[v]
      /\ \A f \in F : Active(r, w, f) <=> f \in o.active
      /\ \A v \in Wans, f \in F : v # w => (Active(r, v, f) <=> Active(s, v, f))
  BY <1>1, <1>2, OneChanges
<1>4. \A v \in Wans, f \in F : Active(r, v, f) <=> Active(s, v, f)
  BY <1>3 DEF Active
<1>5. \A f \in F : Pdns(r, f) = Pdns(s, f)
  BY <1>3 DEF Pdns, Wans
<1>6. UpOK(r) /\ ListOK(r, rt) /\ KindOK(r)
  BY <1>1, <1>2, <1>4, SameUpstreams DEF BackhaulOK
<1>7. PdnOK(r) /\ FiltersOK(r)
  BY <1>1, <1>2, <1>4, <1>5, SameFilters DEF BackhaulOK
<1>8. ObjsOK(r) /\ WansOK(r)
  BY <1>1, <1>2, SameObjects DEF BackhaulOK
<1> QED
  BY <1>2, <1>4, <1>6, <1>7, <1>8 DEF BackhaulOK, Quiet

\* An address of a WAN interface.
LEMMA WanAddrAddOK ==
    ASSUME NEW s, NEW rt \in Routes, BackhaulOK(s, rt),
           NEW w \in Wans, s.wan[w] # NULL, NEW f \in F, f \in Fam[w],
           f = "v4" \/ s.wan[w].num_dft_rt_v6 # MAX_DEFAULT_v6_ROUTE_RULES,
           NEW r, r = handle_addr_evt(s, w, f)
    PROVE  BackhaulOK(r, rt) /\ Quiet(s, r)
<1> DEFINE p == s.wan[w]
           o == Addressed(p, f)
<1>1. s \in Backhauls /\ p \in WanObjects /\ WanOK(w, p)
  BY FieldTypes DEF BackhaulOK, WansOK
<1>2. p.num_dft_rt_v6 \in 0 .. 2 /\ p.v4 \in BOOLEAN
  BY <1>1 DEF WanObjects, MAX_DEFAULT_v6_ROUTE_RULES
<1>3. /\ o \in WanObjects /\ WanOK(w, o)
      /\ o.active = p.active
      /\ \A g \in F : g # f => (Usable(o, g) <=> Usable(p, g))
      /\ Usable(p, f) => Usable(o, f)
      /\ f = "v4" => Usable(o, f)
      /\ f = "v6" => (Usable(o, f) <=> p.num_dft_rt_v6 = 1)
  BY <1>1, AddressedOK
<1>4. CASE f = "v4" /\ p.v4
  <2>1. r = s
    BY <1>4 DEF handle_addr_evt
  <2> QED
    BY <2>1 DEF Quiet
<1>5. CASE ~(f = "v4" /\ p.v4)
  <2>1. (f = "v4" => ~p.v4) /\ (f = "v6" => p.num_dft_rt_v6 \in 0 .. 1)
    BY <1>2, <1>5 DEF MAX_DEFAULT_v6_ROUTE_RULES
  <2> DEFINE flt == [s.flt EXCEPT ![f] = IF s.pdn[f] = 0 THEN "default" ELSE s.flt[f]]
             pdn == [s.pdn EXCEPT ![f] = s.pdn[f] + 1]
  <2>2. IF Counts(s, w, f)
        THEN Is(r, Changed(s, w, o), s.objs, s.up, s.sta, s.tether, pdn, flt, flt, s.fw, s.q)
        ELSE Is(r, Changed(s, w, o), s.objs, s.up, s.sta, s.tether,
                s.pdn, s.flt, s.modem, s.fw, s.q)
    BY <1>1, <1>3, <2>1, AddrFields
  <2> HIDE DEF o
  <2>3. ~Usable(p, f)
    BY <1>2, <2>1 DEF Usable, F, MAX_DEFAULT_v6_ROUTE_RULES
  <2>4. CASE ~Counts(s, w, f)
    <3>1. Is(r, Changed(s, w, o), s.objs, s.up, s.sta, s.tether,
             s.pdn, s.flt, s.modem, s.fw, s.q)
      BY <2>2, <2>4
    <3>2. w \in Modem => \A g \in F : Usable(o, g) <=> Usable(p, g)
      BY <1>3, <2>3, <2>4 DEF Counts, F
    <3> QED
      BY <1>3, <3>1, <3>2, ObjectChangesOK
  <2>5. CASE Counts(s, w, f)
    <3>1. Is(r, Changed(s, w, o), s.objs, s.up, s.sta, s.tether, pdn, flt, flt, s.fw, s.q)
      BY <2>2, <2>5
    <3>2. /\ r \in Backhauls /\ r.wan = Changed(s, w, o) /\ r.objs = s.objs
          /\ r.up = s.up /\ r.sta = s.sta /\ r.tether = s.tether /\ r.pdn = pdn
          /\ r.flt = flt /\ r.modem = r.flt /\ r.fw = s.fw /\ r.q = s.q
      BY <3>1 DEF Is
    <3>3. /\ r.wan[w] = o /\ o # NULL /\ \A v \in Wans : v # w => r.wan[v] = s.wan[v]
          /\ \A g \in F : Active(r, w, g) <=> g \in o.active
          /\ \A v \in Wans, g \in F : v # w => (Active(r, v, g) <=> Active(s, v, g))
      BY <1>1, <1>3, <3>2, OneChanges
    <3>4. \A v \in Wans, g \in F : Active(r, v, g) <=> Active(s, v, g)
      BY <1>3, <3>3 DEF Active
    <3>5. UpOK(r) /\ ListOK(r, rt) /\ KindOK(r)
      BY <1>1, <3>2, <3>4, SameUpstreams DEF BackhaulOK
    <3>6. w \in Modem /\ Usable(o, f)
      BY <1>3, <2>5 DEF Counts, F
    <3>7. PdnOK(r) /\ FiltersOK(r)
      BY <1>1, <1>3, <2>3, <3>2, <3>3, <3>4, <3>6, PdnAdded DEF BackhaulOK
    <3>8. ObjsOK(r) /\ WansOK(r)
      BY <1>1, <1>3, <3>2, SameObjects DEF BackhaulOK
    <3> QED
      BY <3>2, <3>4, <3>5, <3>7, <3>8 DEF BackhaulOK, Quiet
  <2> QED
    BY <2>4, <2>5
<1> QED
  BY <1>4, <1>5

-----------------------------------------------------------------------------
(* The gateway of an STA. *)

Headed(o, h) == [o EXCEPT !.header_set = h]
Known(o, f)  == [o EXCEPT !.neighbours = @ \cup {f}]
Gateway(o, f) == [o EXCEPT !.gw_set = @ \cup {f}]

LEMMA HeadedOK ==
    ASSUME NEW w \in Wans, NEW o \in WanObjects, WanOK(w, o), NEW h \in BOOLEAN
    PROVE  /\ Headed(o, h) \in WanObjects /\ WanOK(w, Headed(o, h))
           /\ Headed(o, h).active = o.active /\ Headed(o, h).header_set = h
           /\ \A f \in F : Usable(Headed(o, h), f) <=> Usable(o, f)
<1> DEFINE p == Headed(o, h)
<1>1. /\ p \in WanObjects /\ p.active = o.active /\ p.header_set = h
      /\ p.is_default_gateway = o.is_default_gateway /\ p.gw_set = o.gw_set
      /\ p.header_partial = o.header_partial /\ p.neighbours = o.neighbours
      /\ p.v4 = o.v4 /\ p.num_dft_rt_v6 = o.num_dft_rt_v6
  BY DEF Headed, WanObjects
<1> HIDE DEF p
<1>2. (\A f \in F : Usable(p, f) <=> Usable(o, f)) /\ IpType(p) = IpType(o)
  BY <1>1 DEF Usable, IpType
<1>3. p.active \subseteq F
  BY <1>1 DEF WanObjects
<1>4. WanOK(w, p)
  BY <1>1, <1>2, <1>3 DEF WanOK
<1> QED
  BY <1>1, <1>2, <1>4 DEF p

LEMMA KnownOK ==
    ASSUME NEW w \in Wans, NEW o \in WanObjects, WanOK(w, o), NEW g \in F
    PROVE  /\ Known(o, g) \in WanObjects /\ WanOK(w, Known(o, g))
           /\ Known(o, g).active = o.active
           /\ \A f \in F : Usable(Known(o, g), f) <=> Usable(o, f)
<1> DEFINE p == Known(o, g)
<1>1. /\ p \in WanObjects /\ p.active = o.active
      /\ p.is_default_gateway = o.is_default_gateway /\ p.gw_set = o.gw_set
      /\ p.header_partial = o.header_partial /\ p.neighbours = o.neighbours \cup {g}
      /\ p.v4 = o.v4 /\ p.num_dft_rt_v6 = o.num_dft_rt_v6
  BY DEF Known, WanObjects
<1> HIDE DEF p
<1>2. (\A f \in F : Usable(p, f) <=> Usable(o, f)) /\ IpType(p) = IpType(o)
  BY <1>1 DEF Usable, IpType
<1>3. p.active \subseteq F
  BY <1>1 DEF WanObjects
<1>4. WanOK(w, p)
  BY <1>1, <1>2, <1>3 DEF WanOK
<1> QED
  BY <1>1, <1>2, <1>4 DEF p

LEMMA GatewayOK ==
    ASSUME NEW w \in Wans, NEW o \in WanObjects, WanOK(w, o), NEW g \in F,
           w \in Sta => g \in o.neighbours
    PROVE  /\ Gateway(o, g) \in WanObjects /\ WanOK(w, Gateway(o, g))
           /\ Gateway(o, g).active = o.active /\ Gateway(o, g).gw_set # {}
           /\ \A f \in F : Usable(Gateway(o, g), f) <=> Usable(o, f)
<1> DEFINE p == Gateway(o, g)
<1>1. /\ p \in WanObjects /\ p.active = o.active
      /\ p.is_default_gateway = o.is_default_gateway /\ p.gw_set = o.gw_set \cup {g}
      /\ p.header_partial = o.header_partial /\ p.neighbours = o.neighbours
      /\ p.v4 = o.v4 /\ p.num_dft_rt_v6 = o.num_dft_rt_v6
  BY DEF Gateway, WanObjects
<1> HIDE DEF p
<1>2. (\A f \in F : Usable(p, f) <=> Usable(o, f)) /\ IpType(p) = IpType(o)
  BY <1>1 DEF Usable, IpType
<1>3. p.active \subseteq F
  BY <1>1 DEF WanObjects
<1>4. WanOK(w, p)
  BY <1>1, <1>2, <1>3 DEF WanOK
<1> QED
  BY <1>1, <1>2, <1>4 DEF p

\* No route waits for the header.
LEMMA HeaderFields ==
    ASSUME NEW s \in Backhauls, NEW w \in Wans, s.wan[w] # NULL, s.wan[w].header_partial = {}
    PROVE  \E h \in BOOLEAN :
              /\ Is(handle_sta_header_add_evt(s, w), Changed(s, w, Headed(s.wan[w], h)), s.objs,
                    s.up, s.sta, s.tether, s.pdn, s.flt, s.modem, s.fw, s.q)
              /\ s.wan[w].gw_set # {} /\ s.wan[w].gw_set \subseteq s.wan[w].neighbours => h
<1> DEFINE o == s.wan[w]
           r == handle_sta_header_add_evt(s, w)
           t == [s EXCEPT !.wan[w].header_set = TRUE]
           p == Headed(o, TRUE)
<1>1. s.wan \in [Wans -> {NULL} \cup WanObjects] /\ o \in WanObjects
  BY FieldTypes
<1>2. p \in WanObjects
  BY <1>1 DEF Headed, WanObjects
<1>3. t = With(s, Changed(s, w, p), s.objs, s.up, s.sta)
  BY DEF With, Backhauls, Changed, Headed
<1>4. Is(t, Changed(s, w, p), s.objs, s.up, s.sta, s.tether, s.pdn, s.flt, s.modem, s.fw, s.q)
  BY <1>2, <1>3, ChangedFields
<1>5. CASE o.header_set
  <2>1. r = s
    BY <1>5 DEF handle_sta_header_add_evt
  <2>2. p = o
    BY <1>1, <1>5 DEF Headed, WanObjects
  <2>3. Changed(s, w, o) = s.wan
    BY <1>1 DEF Changed
  <2>4. Is(s, s.wan, s.objs, s.up, s.sta, s.tether, s.pdn, s.flt, s.modem, s.fw, s.q)
    BY DEF Is
  <2>5. Is(r, Changed(s, w, p), s.objs, s.up, s.sta, s.tether, s.pdn, s.flt, s.modem, s.fw, s.q)
    BY <2>1, <2>2, <2>3, <2>4
  <2> QED
    BY <2>5
<1>6. CASE ~o.header_set /\ (r = t)
  BY <1>4, <1>6
<1>7. CASE ~o.header_set /\ ~(o.gw_set # {} /\ o.gw_set \subseteq o.neighbours) /\ r = s
  <2> DEFINE n == Headed(o, FALSE)
  <2>2. n = o
    BY <1>1, <1>7 DEF Headed, WanObjects
  <2>3. Changed(s, w, o) = s.wan
    BY <1>1 DEF Changed
  <2>4. Is(s, s.wan, s.objs, s.up, s.sta, s.tether, s.pdn, s.flt, s.modem, s.fw, s.q)
    BY DEF Is
  <2>5. Is(r, Changed(s, w, n), s.objs, s.up, s.sta, s.tether, s.pdn, s.flt, s.modem, s.fw, s.q)
    BY <1>7, <2>2, <2>3, <2>4
  <2> QED
    BY <1>7, <2>5
<1>8. ~o.header_set => r = t \/ (~(o.gw_set # {} /\ o.gw_set \subseteq o.neighbours) /\ r = s)
  BY DEF handle_sta_header_add_evt
<1> QED
  BY <1>5, <1>6, <1>7, <1>8

LEMMA QuietTrans ==
    ASSUME NEW s, NEW r, NEW u, Quiet(s, r), Quiet(r, u)
    PROVE  Quiet(s, u)
  BY DEF Quiet

\* The header of a gateway is only looked for.
LEMMA HeaderOK ==
    ASSUME NEW s, NEW rt \in Routes, BackhaulOK(s, rt),
           NEW w \in Wans, s.wan[w] # NULL, NEW r, r = handle_sta_header_add_evt(s, w)
    PROVE  /\ BackhaulOK(r, rt) /\ Quiet(s, r) /\ r.wan[w] # NULL
           /\ \A f \in F : Usable(r.wan[w], f) <=> Usable(s.wan[w], f)
           /\ (s.wan[w].gw_set # {} /\ w \in Sta => r.wan[w].header_set)
<1> DEFINE o == s.wan[w]
<1>1. s \in Backhauls /\ o \in WanObjects /\ WanOK(w, o)
  BY FieldTypes DEF BackhaulOK, WansOK
<1>2. o.header_partial = {} /\ (w \in Sta => o.gw_set \subseteq o.neighbours)
  BY <1>1 DEF WanOK
<1>3. PICK h \in BOOLEAN :
              /\ Is(r, Changed(s, w, Headed(o, h)), s.objs,
                    s.up, s.sta, s.tether, s.pdn, s.flt, s.modem, s.fw, s.q)
              /\ o.gw_set # {} /\ o.gw_set \subseteq o.neighbours => h
  BY <1>1, <1>2, HeaderFields
<1> DEFINE p == Headed(o, h)
<1>4. /\ p \in WanObjects /\ WanOK(w, p) /\ p.active = o.active /\ p.header_set = h
      /\ \A f \in F : Usable(p, f) <=> Usable(o, f)
  BY <1>1, HeadedOK
<1> HIDE DEF p
<1>5. Is(r, Changed(s, w, p), s.objs, s.up, s.sta, s.tether, s.pdn, s.flt, s.modem, s.fw, s.q)
  BY <1>3 DEF p
<1>6. BackhaulOK(r, rt) /\ Quiet(s, r)
  BY <1>4, <1>5, ObjectChangesOK
<1>7. r.wan[w] = p /\ p # NULL
  <2>1. r \in Backhauls /\ r.wan = Changed(s, w, p)
    BY <1>5 DEF Is
  <2> QED
    BY <1>1, <1>4, <2>1, OneChanges
<1> QED
  BY <1>2, <1>3, <1>4, <1>6, <1>7

\* The neighbour that is the gateway of an STA.
Neighboured(s, w, f) == [s EXCEPT !.wan[w].neighbours = @ \cup {f}]

LEMMA NeighbourOK ==
    ASSUME NEW s, NEW rt \in Routes, BackhaulOK(s, rt),
           NEW w \in Wans, s.wan[w] # NULL, NEW f \in F,
           NEW r, r = handle_sta_header_add_evt(Neighboured(s, w, f), w)
    PROVE  BackhaulOK(r, rt) /\ Quiet(s, r)
<1> DEFINE o == s.wan[w]
           p == Known(o, f)
           u == Neighboured(s, w, f)
<1>1. s \in Backhauls /\ o \in WanObjects /\ WanOK(w, o)
  BY FieldTypes DEF BackhaulOK, WansOK
<1>2. /\ p \in WanObjects /\ WanOK(w, p) /\ p.active = o.active
      /\ \A g \in F : Usable(p, g) <=> Usable(o, g)
  BY <1>1, KnownOK
<1>3. u = With(s, Changed(s, w, p), s.objs, s.up, s.sta)
  BY <1>1 DEF With, Backhauls, Changed, Known, Neighboured
<1>4. r = handle_sta_header_add_evt(u, w)
  OBVIOUS
<1> HIDE DEF u, p
<1>5. Is(u, Changed(s, w, p), s.objs, s.up, s.sta, s.tether, s.pdn, s.flt, s.modem, s.fw, s.q)
  BY <1>1, <1>2, <1>3, ChangedFields
<1>6. BackhaulOK(u, rt) /\ Quiet(s, u)
  BY <1>2, <1>5, ObjectChangesOK
<1>7. u.wan[w] # NULL
  <2>1. u \in Backhauls /\ u.wan = Changed(s, w, p)
    BY <1>5 DEF Is
  <2> QED
    BY <1>1, <1>2, <2>1, OneChanges
<1>8. BackhaulOK(r, rt) /\ Quiet(u, r)
  BY <1>4, <1>6, <1>7, HeaderOK
<1> QED
  BY <1>6, <1>8, QuietTrans

-----------------------------------------------------------------------------
(* A route is added. *)

\* rt after the framework changed one route.
Rerouted(rt, t, f, w) == [rt EXCEPT ![t][f] = w]

LEMMA ReroutedFacts ==
    ASSUME NEW rt \in Routes, NEW t \in Tethers, NEW f \in F, NEW w \in Wans \cup {NULL}
    PROVE  /\ Rerouted(rt, t, f, w) \in Routes /\ Rerouted(rt, t, f, w)[t][f] = w
           /\ \A u \in Tethers, g \in F :
                u # t \/ g # f => Rerouted(rt, t, f, w)[u][g] = rt[u][g]
  BY DEF Routes, Rerouted

\* What Orderly means for the objects: no other object is the upstream of the
\* family, upstreams are of the same kind, the interface is not on the list.
Clear(s, w, t, f) ==
    /\ \A v \in Wans : Active(s, v, f) => v = w
    /\ \A v \in Wans, g \in F : Active(s, v, g) => (v \in Sta <=> w \in Sta)
    /\ ~Holds(s.tether[f], t)

LEMMA OrderlyIsClear ==
    ASSUME NEW s, NEW rt \in Routes, BackhaulOK(s, rt), NEW w \in Wans, NEW t \in Tethers,
           NEW f \in F, rt[t][f] # w,
           \A u \in Tethers : rt[u][f] \in {NULL, w},
           \A u \in Tethers, g \in F : rt[u][g] # NULL => (rt[u][g] \in Sta <=> w \in Sta)
    PROVE  Clear(s, w, t, f)
<1>1. s \in Backhauls /\ UpOK(s) /\ ListOK(s, rt)
  BY DEF BackhaulOK
<1>2. s.tether \in [F -> Seq(Tethers)]
  BY <1>1, FieldTypes
<1>3. ASSUME NEW v \in Wans, NEW g \in F, Active(s, v, g)
      PROVE  \E u \in Tethers : rt[u][g] = v
  <2>1. s.tether[g] # <<>> /\ s.tether[g] \in Seq(Tethers)
    BY <1>1, <1>2, <1>3 DEF UpOK, ListOK
  <2>2. s.tether[g][1] \in Tethers /\ Holds(s.tether[g], s.tether[g][1])
    BY <2>1 DEF Holds
  <2> DEFINE u == s.tether[g][1]
  <2>3. rt[u][g] \in Wans /\ Active(s, rt[u][g], g)
    BY <1>1, <2>2 DEF ListOK
  <2> QED
    BY <1>1, <1>3, <2>2, <2>3 DEF UpOK
<1>4. NULL \notin Wans
  BY BackhaulAssumption
<1>5. \A v \in Wans : Active(s, v, f) => v = w
  BY <1>3, <1>4
<1>6. \A v \in Wans, g \in F : Active(s, v, g) => (v \in Sta <=> w \in Sta)
  BY <1>3, <1>4
<1>7. ~Holds(s.tether[f], t)
  BY <1>1, <1>4 DEF ListOK
<1> QED
  BY <1>5, <1>6, <1>7 DEF Clear

LEMMA UpstreamAdded ==
    ASSUME NEW s \in Backhauls, NEW r \in Backhauls, NEW rt \in Routes, NEW w \in Wans,
           NEW t \in Tethers, NEW f \in F, UpOK(s), ListOK(s, rt), KindOK(s), Clear(s, w, t, f),
           \A v \in Wans, g \in F : Active(r, v, g) <=> Active(s, v, g) \/ (v = w /\ g = f),
           r.up = s.up \cup {f}, r.sta <=> w \in Sta, r.tether[f] = Append(s.tether[f], t),
           \A g \in F : g # f => r.tether[g] = s.tether[g]
    PROVE  UpOK(r) /\ ListOK(r, Rerouted(rt, t, f, w)) /\ KindOK(r)
<1>1. UpOK(r)
  BY DEF UpOK, Clear
<1>2. KindOK(r)
  BY DEF KindOK, Clear
<1> DEFINE l == s.tether[f]
           m == r.tether[f]
           rt2 == Rerouted(rt, t, f, w)
<1>3. l \in Seq(Tethers) /\ m = Append(l, t)
  BY FieldTypes
<1>4. Once(l) /\ ~Holds(l, t)
  BY DEF ListOK, Clear
<1> HIDE DEF l, m
<1>5. Once(m) /\ m # <<>> /\ \A y : Holds(m, y) <=> Holds(l, y) \/ y = t
  BY <1>3, <1>4, AppendHolds
<1>6. /\ rt2[t][f] = w
      /\ \A u \in Tethers, g \in F : u # t \/ g # f => rt2[u][g] = rt[u][g]
  BY ReroutedFacts
<1> HIDE DEF rt2
<1>7. ASSUME NEW g \in F
      PROVE  /\ Once(r.tether[g])
             /\ \A u \in Tethers : Holds(r.tether[g], u) =>
                  rt2[u][g] \in Wans /\ Active(r, rt2[u][g], g)
             /\ g \in r.up => r.tether[g] # <<>>
  <2>1. CASE g = f
    <3>1. \A u \in Tethers : Holds(l, u) => rt[u][f] \in Wans /\ Active(s, rt[u][f], f)
      BY DEF ListOK, l
    <3>2. ASSUME NEW u \in Tethers, Holds(m, u)
          PROVE  rt2[u][f] \in Wans /\ Active(r, rt2[u][f], f)
      BY <1>5, <1>6, <3>1, <3>2
    <3> QED
      BY <1>5, <2>1, <3>2 DEF m
  <2>2. CASE g # f
    BY <1>6, <2>2 DEF ListOK
  <2> QED
    BY <2>1, <2>2
<1>8. ListOK(r, rt2)
  BY <1>7 DEF ListOK
<1> QED
  BY <1>1, <1>2, <1>8 DEF rt2

LEMMA UpstreamObjectOK ==
    ASSUME NEW w \in Wans, NEW o \in WanObjects, WanOK(w, o), NEW g \in F, Usable(o, g)
    PROVE  /\ Upstream(o, g) \in WanObjects /\ WanOK(w, Upstream(o, g))
           /\ Upstream(o, g).active = o.active \cup {g}
           /\ \A f \in F : Usable(Upstream(o, g), f) <=> Usable(o, f)
<1> DEFINE p == Upstream(o, g)
<1>1. /\ p \in WanObjects /\ p.active = o.active \cup {g}
      /\ p.is_default_gateway = TRUE /\ p.gw_set = o.gw_set
      /\ p.header_partial = o.header_partial /\ p.neighbours = o.neighbours
      /\ p.v4 = o.v4 /\ p.num_dft_rt_v6 = o.num_dft_rt_v6
  BY DEF Upstream, WanObjects
<1> HIDE DEF p
<1>2. (\A f \in F : Usable(p, f) <=> Usable(o, f)) /\ IpType(p) = IpType(o)
  BY <1>1 DEF Usable, IpType
<1>3. p.active \subseteq F
  BY <1>1 DEF WanObjects
<1>4. WanOK(w, p)
  BY <1>1, <1>2, <1>3 DEF WanOK
<1> QED
  BY <1>1, <1>2, <1>4 DEF p

\* The firewall comes with the upstream.
Armed(s, r, w, f) ==
    IF w \in Modem
    THEN r.flt = [s.flt EXCEPT ![f] = "firewall"] /\ r.modem = r.flt /\ r.fw = s.fw
    ELSE /\ r.flt = s.flt /\ r.modem = s.modem
         /\ r.fw = [s.fw EXCEPT ![w] = [s.fw[w] EXCEPT ![f] = s.fw[w][f] + 1]]

LEMMA FirewallAdded ==
    ASSUME NEW s \in Backhauls, NEW r \in Backhauls, NEW w \in Wans, NEW f \in F,
           PdnOK(s), FiltersOK(s), ~Active(s, w, f),
           \A v \in Wans, g \in F : Active(r, v, g) <=> Active(s, v, g) \/ (v = w /\ g = f),
           \A g \in F : Pdns(r, g) = Pdns(s, g), r.pdn = s.pdn, Armed(s, r, w, f)
    PROVE  PdnOK(r) /\ FiltersOK(r)
<1> USE DEF Armed
<1>1. PdnOK(r)
  BY DEF PdnOK
<1>2. s.flt \in [F -> Filters] /\ s.fw \in [Sta -> [F -> Nat]]
  BY FieldTypes
<1>3. CASE w \in Modem
  <2>1. w \notin Sta
    BY <1>3, BackhaulAssumption
  <2>2. ASSUME NEW g \in F
        PROVE  r.flt[g] = IF \E v \in Modem : Active(r, v, g) THEN "firewall"
                          ELSE IF Pdns(r, g) # {} THEN "default" ELSE "none"
    <3>1. CASE g = f
      BY <1>2, <1>3, <3>1 DEF Wans
    <3>2. CASE g # f
      BY <1>2, <1>3, <3>2 DEF FiltersOK, Wans
    <3> QED
      BY <3>1, <3>2
  <2>3. \A v \in Sta, g \in F : Active(r, v, g) <=> Active(s, v, g)
    BY <2>1 DEF Wans
  <2> QED
    BY <1>1, <1>3, <2>2, <2>3 DEF FiltersOK
<1>4. CASE w \notin Modem
  <2>1. w \in Sta
    BY <1>4 DEF Wans
  <2>2. \A v \in Modem, g \in F : Active(r, v, g) <=> Active(s, v, g)
    BY <1>4 DEF Wans
  <2>3. ASSUME NEW v \in Sta, NEW g \in F
        PROVE  r.fw[v][g] = IF Active(r, v, g) THEN 1 ELSE 0
    <3>1. s.fw[v][g] = IF Active(s, v, g) THEN 1 ELSE 0
      BY DEF FiltersOK
    <3>2. CASE v = w /\ g = f
      BY <1>2, <1>4, <2>1, <3>1, <3>2
    <3>3. CASE ~(v = w /\ g = f)
      <4>1. Active(r, v, g) <=> Active(s, v, g)
        BY <3>3 DEF Wans
      <4>2. r.fw[v][g] = s.fw[v][g]
        BY <1>2, <1>4, <2>1, <3>3
      <4> QED
        BY <3>1, <4>1, <4>2
    <3> QED
      BY <3>2, <3>3
  <2> QED
    BY <1>1, <1>4, <2>2, <2>3 DEF FiltersOK
<1> QED
  BY <1>3, <1>4

-----------------------------------------------------------------------------
(* ProcessEvt calls every object, and only the one of the event does something. *)

\* at goes over the objects of l and changes s to r at w.
Round(at, l, w, s, r) ==
    /\ at[0] = s
    /\ \A n \in 1 .. Len(l) : l[n] = w /\ at[n - 1] = s => at[n] = r
    /\ \A n \in 1 .. Len(l) : l[n] # w /\ at[n - 1] \in {s, r} => at[n] = at[n - 1]

LEMMA OneRound ==
    ASSUME NEW S, NEW l \in Seq(S), Once(l), NEW w, NEW s, NEW r, NEW at, Round(at, l, w, s, r)
    PROVE  at[Len(l)] = IF Holds(l, w) THEN r ELSE s
<1> DEFINE N == Len(l)
           Done(n) == \E i \in 1 .. n : l[i] = w
           Inv == [n \in 0 .. N |-> {IF Done(n) THEN r ELSE s}]
<1>1. N \in Nat
  OBVIOUS
<1>2. ~Done(0)
  OBVIOUS
<1>3. ASSUME NEW n \in 1 .. N
      PROVE  /\ l[n] = w => Done(n) /\ ~Done(n - 1)
             /\ l[n] # w => (Done(n) <=> Done(n - 1))
  BY DEF Once
<1>4. Done(N) <=> Holds(l, w)
  BY DEF Holds
<1> HIDE DEF Done, N
<1>5. at[0] \in Inv[0]
  BY <1>1, <1>2 DEF Round
<1>6. ASSUME NEW n \in 1 .. N, at[n - 1] \in Inv[n - 1]
      PROVE  at[n] \in Inv[n]
  <2>1. n \in 0 .. N /\ n - 1 \in 0 .. N
    BY <1>1
  <2>2. at[n - 1] = IF Done(n - 1) THEN r ELSE s
    BY <1>6, <2>1
  <2>3. at[n] = IF Done(n) THEN r ELSE s
    BY <1>3, <2>2 DEF N, Round
  <2> QED
    BY <2>1, <2>3
<1> HIDE DEF Inv
<1>7. at[N] \in Inv[N]
  BY <1>1, <1>5, <1>6, LoopInvariant
<1>8. at[N] = IF Done(N) THEN r ELSE s
  BY <1>1, <1>7 DEF Inv
<1> QED
  BY <1>4, <1>8 DEF N

Rounds(g, l, w, s, r) ==
    /\ g \in [0 .. Len(l) -> {s, r}] /\ g[0] = s
    /\ \A n \in 1 .. Len(l) : l[n] = w => g[n - 1] = s /\ g[n] = r
    /\ \A n \in 1 .. Len(l) : l[n] # w => g[n] = g[n - 1]

LEMMA RoundExists ==
    ASSUME NEW S, NEW l \in Seq(S), Once(l), NEW w, NEW s, NEW r
    PROVE  \E g : Rounds(g, l, w, s, r)
<1> DEFINE N == Len(l)
           Done(n) == \E i \in 1 .. n : l[i] = w
           g == [n \in 0 .. N |-> IF Done(n) THEN r ELSE s]
<1>1. N \in Nat /\ ~Done(0)
  OBVIOUS
<1>2. ASSUME NEW n \in 1 .. N
      PROVE  /\ l[n] = w => Done(n) /\ ~Done(n - 1)
             /\ l[n] # w => (Done(n) <=> Done(n - 1))
  BY DEF Once
<1> HIDE DEF Done, N
<1>3. g \in [0 .. N -> {s, r}] /\ g[0] = s
  BY <1>1
<1>4. ASSUME NEW n \in 1 .. N
      PROVE  (l[n] = w => g[n - 1] = s /\ g[n] = r) /\ (l[n] # w => g[n] = g[n - 1])
  <2>1. n \in 0 .. N /\ n - 1 \in 0 .. N
    BY <1>1
  <2> QED
    BY <1>2, <2>1
<1> HIDE DEF g
<1> QED
  BY <1>3, <1>4 DEF N, Rounds

LEMMA AddToAll ==
    ASSUME NEW s, s.objs \in Seq(Wans), Once(s.objs), NEW w \in Wans, NEW t, NEW f,
           NEW r, r = upstream_route_add(s, w, w, t, f),
           \A o \in Wans : o # w => ~Active(s, o, f) /\ ~Active(r, o, f)
    PROVE  upstream_route_add_all(s, w, t, f) = IF Holds(s.objs, w) THEN r ELSE s
<1> DEFINE l == s.objs
           N == Len(l)
           G(h) == [n \in 0 .. N |-> IF n = 0 THEN s ELSE upstream_route_add(h[n - 1], l[n], w, t, f)]
           at == CHOOSE h : h = G(h)
<1>1. upstream_route_add_all(s, w, t, f) = at[N]
  BY DEF upstream_route_add_all
<1>2. N \in Nat /\ l \in Seq(Wans) /\ Once(l) /\ \A n \in 1 .. N : l[n] \in Wans
  OBVIOUS
<1>3. ASSUME NEW o \in Wans, o # w
      PROVE  upstream_route_add(s, o, w, t, f) = s /\ upstream_route_add(r, o, w, t, f) = r
  BY <1>3 DEF upstream_route_add
<1> HIDE DEF l
<1>4. PICK g : Rounds(g, l, w, s, r)
  BY <1>2, RoundExists
<1>5. ASSUME NEW n \in 1 .. N PROVE g[n] = upstream_route_add(g[n - 1], l[n], w, t, f)
  <2>1. n - 1 \in 0 .. N
    BY <1>2
  <2>2. g[n - 1] \in {s, r} /\ l[n] \in Wans
    BY <1>2, <1>4, <2>1 DEF Rounds
  <2>3. CASE l[n] = w
    BY <1>4, <2>3 DEF Rounds
  <2>4. CASE l[n] # w
    BY <1>3, <1>4, <2>2, <2>4 DEF Rounds
  <2> QED
    BY <2>3, <2>4
<1>6. g = G(g)
  BY <1>2, <1>4, <1>5 DEF Rounds
<1>7. at = G(at)
  BY <1>6
<1> HIDE DEF at
<1>8. at[0] = s
  BY <1>2, <1>7
<1>9. \A n \in 1 .. N : at[n] = upstream_route_add(at[n - 1], l[n], w, t, f)
  BY <1>2, <1>7
<1> HIDE DEF G
<1>10. Round(at, l, w, s, r)
  BY <1>2, <1>3, <1>8, <1>9 DEF Round
<1>11. at[N] = IF Holds(l, w) THEN r ELSE s
  BY <1>2, <1>10, OneRound
<1> QED
  BY <1>1, <1>11 DEF l

LEMMA DelToAll ==
    ASSUME NEW s, s.objs \in Seq(Wans), Once(s.objs), NEW w \in Wans, NEW t, NEW f,
           NEW r, r = upstream_route_del(s, w, w, t, f)
    PROVE  upstream_route_del_all(s, w, t, f) = IF Holds(s.objs, w) THEN r ELSE s
<1> DEFINE l == s.objs
           N == Len(l)
           G(h) == [n \in 0 .. N |-> IF n = 0 THEN s ELSE upstream_route_del(h[n - 1], l[n], w, t, f)]
           at == CHOOSE h : h = G(h)
<1>1. upstream_route_del_all(s, w, t, f) = at[N]
  BY DEF upstream_route_del_all
<1>2. N \in Nat /\ l \in Seq(Wans) /\ Once(l) /\ \A n \in 1 .. N : l[n] \in Wans
  OBVIOUS
<1>3. ASSUME NEW o \in Wans, o # w
      PROVE  upstream_route_del(s, o, w, t, f) = s /\ upstream_route_del(r, o, w, t, f) = r
  BY <1>3 DEF upstream_route_del
<1> HIDE DEF l
<1>4. PICK g : Rounds(g, l, w, s, r)
  BY <1>2, RoundExists
<1>5. ASSUME NEW n \in 1 .. N PROVE g[n] = upstream_route_del(g[n - 1], l[n], w, t, f)
  <2>1. n - 1 \in 0 .. N
    BY <1>2
  <2>2. g[n - 1] \in {s, r} /\ l[n] \in Wans
    BY <1>2, <1>4, <2>1 DEF Rounds
  <2>3. CASE l[n] = w
    BY <1>4, <2>3 DEF Rounds
  <2>4. CASE l[n] # w
    BY <1>3, <1>4, <2>2, <2>4 DEF Rounds
  <2> QED
    BY <2>3, <2>4
<1>6. g = G(g)
  BY <1>2, <1>4, <1>5 DEF Rounds
<1>7. at = G(at)
  BY <1>6
<1> HIDE DEF at
<1>8. at[0] = s
  BY <1>2, <1>7
<1>9. \A n \in 1 .. N : at[n] = upstream_route_del(at[n - 1], l[n], w, t, f)
  BY <1>2, <1>7
<1> HIDE DEF G
<1>10. Round(at, l, w, s, r)
  BY <1>2, <1>3, <1>8, <1>9 DEF Round
<1>11. at[N] = IF Holds(l, w) THEN r ELSE s
  BY <1>2, <1>10, OneRound
<1> QED
  BY <1>1, <1>11 DEF l

-----------------------------------------------------------------------------
(* The waiting events: what the NAT listener and the tethering objects do     *)
(* when the events are handled still fits after a step.                       *)

Events == WanEvents \cup TetherEvents
Nats   == Wans \cup {NULL}
Lans   == [Tethers -> LanObjects]

\* No event announces that a list grew.
NoUp(s) == \A k \in 1 .. Len(s.q) : s.q[k].ev # "WAN_UP_TETHER"

\* No event waits for the NAT listener.
NoNat(s) == \A k \in 1 .. Len(s.q) : ~IsNatEvt(s.q[k])

Follows(s, r) ==
    /\ \A n \in Nats : NatOK(s, n) => NatOK(r, n)
    /\ \A l \in Lans : LansOK(s, l) => LansOK(r, l)

LEMMA FollowsTrans ==
    ASSUME NEW s, NEW r, NEW u, Follows(s, r), Follows(r, u)
    PROVE  Follows(s, u)
  BY DEF Follows

LEMMA EventKinds ==
    ASSUME NEW e \in Events
    PROVE  /\ e \in WanEvents => /\ e.ev \in {"WAN_UP", "WAN_DOWN"} /\ e.wan \in Wans
                                 /\ e.fam \in F /\ \A t, f : ~IsTetherEvt(e, t, f)
           /\ e \in TetherEvents => /\ e.ev \in {"WAN_UP_TETHER", "WAN_DOWN_TETHER"}
                                    /\ e.tether \in Tethers /\ e.fam \in F
                                    /\ e.is_sta \in BOOLEAN /\ ~IsNatEvt(e)
           /\ e.ev \in {"WAN_UP", "WAN_DOWN"} => e \in WanEvents
           /\ e.ev \in {"WAN_UP_TETHER", "WAN_DOWN_TETHER"} => e \in TetherEvents
<1>1. ASSUME e \in WanEvents
      PROVE  e.ev \in {"WAN_UP", "WAN_DOWN"} /\ e.wan \in Wans /\ e.fam \in F
  BY <1>1 DEF WanEvents
<1>2. ASSUME e \in TetherEvents
      PROVE  /\ e.ev \in {"WAN_UP_TETHER", "WAN_DOWN_TETHER"} /\ e.tether \in Tethers
             /\ e.fam \in F /\ e.is_sta \in BOOLEAN
  BY <1>2 DEF TetherEvents
<1> QED
  BY <1>1, <1>2 DEF Events, IsNatEvt, IsTetherEvt

LEMMA QueueAt ==
    ASSUME NEW s \in Backhauls
    PROVE  /\ s.q \in Seq(Events) /\ Len(s.q) \in Nat
           /\ \A k \in 1 .. Len(s.q) : s.q[k] \in Events
<1>1. s.q \in Seq(Events)
  BY FieldTypes DEF Events
<1> QED
  BY <1>1

LEMMA Appended ==
    ASSUME NEW s \in Backhauls, NEW r, NEW e \in Events, r.q = Append(s.q, e)
    PROVE  /\ Len(r.q) = Len(s.q) + 1 /\ Len(s.q) \in Nat /\ r.q[Len(s.q) + 1] = e
           /\ \A k \in 1 .. Len(s.q) : r.q[k] = s.q[k]
           /\ \A k \in 1 .. Len(r.q) : k \in 1 .. Len(s.q) \/ k = Len(s.q) + 1
  BY QueueAt

LEMMA QuietFollows ==
    ASSUME NEW s \in Backhauls, NEW r, Quiet(s, r)
    PROVE  Follows(s, r) /\ (NoUp(s) => NoUp(r)) /\ (NoNat(s) => NoNat(r))
<1>1. r.q = s.q /\ r.tether = s.tether /\ r.sta = s.sta
  BY DEF Quiet
<1>2. \A v \in Wans : Active(r, v, "v4") <=> Active(s, v, "v4")
  BY DEF Quiet, F
<1>3. ASSUME NEW n \in Nats, NatOK(s, n) PROVE NatOK(r, n)
  <2>1. \A k \in 1 .. Len(s.q) : IsNatEvt(s.q[k]) => s.q[k].wan \in Wans
    BY QueueAt, EventKinds DEF IsNatEvt
  <2> QED
    BY <1>1, <1>2, <1>3, <2>1 DEF NatOK
<1>4. ASSUME NEW l \in Lans, LansOK(s, l) PROVE LansOK(r, l)
  BY <1>1, <1>4 DEF LansOK, RulesOK
<1> QED
  BY <1>1, <1>3, <1>4 DEF Follows, NoUp, NoNat

\* An event that is not for the NAT listener, and upstreams that do not change
\* for IPv4.
LEMMA NatUntouched ==
    ASSUME NEW s \in Backhauls, NEW r, NEW e \in Events, r.q = Append(s.q, e), ~IsNatEvt(e),
           \A v \in Wans : Active(r, v, "v4") <=> Active(s, v, "v4")
    PROVE  (\A n \in Nats : NatOK(s, n) => NatOK(r, n)) /\ (NoNat(s) => NoNat(r))
<1> DEFINE m == Len(s.q)
<1>1. /\ Len(r.q) = m + 1 /\ m \in Nat /\ r.q[m + 1] = e
      /\ \A k \in 1 .. m : r.q[k] = s.q[k]
      /\ \A k \in 1 .. Len(r.q) : k \in 1 .. m \/ k = m + 1
  BY Appended
<1>2. \A k \in 1 .. m : IsNatEvt(s.q[k]) => s.q[k].wan \in Wans
  BY QueueAt, EventKinds DEF IsNatEvt
<1> HIDE DEF m
<1>3. ASSUME NEW n \in Nats, NatOK(s, n) PROVE NatOK(r, n)
  <2>1. \A k \in 1 .. Len(r.q) : IsNatEvt(r.q[k]) => k \in 1 .. m /\ r.q[k] = s.q[k]
    BY <1>1
  <2>2. \A j, k \in 1 .. Len(r.q) : IsNatEvt(r.q[j]) /\ IsNatEvt(r.q[k]) => j = k
    BY <1>3, <2>1 DEF NatOK, m
  <2>3. \A k \in 1 .. Len(r.q) : IsNatEvt(r.q[k]) =>
         IF r.q[k].ev = "WAN_UP" THEN n = NULL /\ Active(r, r.q[k].wan, "v4")
         ELSE \A w \in Wans : ~Active(r, w, "v4")
    BY <1>2, <1>3, <2>1 DEF NatOK, m
  <2>4. ASSUME \A k \in 1 .. Len(r.q) : ~IsNatEvt(r.q[k]), NEW w \in Wans
        PROVE  n = w <=> Active(r, w, "v4")
    <3>1. \A k \in 1 .. m : ~IsNatEvt(s.q[k])
      BY <1>1, <2>4
    <3> QED
      BY <1>3, <3>1 DEF NatOK, m
  <2> QED
    BY <2>2, <2>3, <2>4 DEF NatOK
<1>4. NoNat(s) => NoNat(r)
  BY <1>1 DEF NoNat, m
<1> QED
  BY <1>3, <1>4

\* An IPv4 event for a NAT listener that follows.
LEMMA NatTold ==
    ASSUME NEW s \in Backhauls, NEW r, NEW e \in Events, r.q = Append(s.q, e), IsNatEvt(e),
           NoNat(s),
           IF e.ev = "WAN_UP"
           THEN (\A v \in Wans : ~Active(s, v, "v4")) /\ Active(r, e.wan, "v4")
           ELSE \A v \in Wans : ~Active(r, v, "v4")
    PROVE  \A n \in Nats : NatOK(s, n) => NatOK(r, n)
<1> SUFFICES ASSUME NEW n \in Nats, NatOK(s, n) PROVE NatOK(r, n)
  OBVIOUS
<1> DEFINE m == Len(s.q)
<1>1. /\ Len(r.q) = m + 1 /\ m \in Nat /\ r.q[m + 1] = e
      /\ \A k \in 1 .. m : r.q[k] = s.q[k]
      /\ \A k \in 1 .. Len(r.q) : k \in 1 .. m \/ k = m + 1
  BY Appended
<1>2. \A k \in 1 .. m : ~IsNatEvt(s.q[k])
  BY DEF NoNat
<1>3. \A w \in Wans : n = w <=> Active(s, w, "v4")
  BY <1>2 DEF NatOK
<1>4. e.ev = "WAN_UP" => n = NULL
  BY <1>3 DEF Nats
<1> HIDE DEF m
<1>5. \A k \in 1 .. Len(r.q) : IsNatEvt(r.q[k]) => k = m + 1 /\ r.q[k] = e
  BY <1>1, <1>2
<1>6. m + 1 \in 1 .. Len(r.q) /\ IsNatEvt(r.q[m + 1])
  BY <1>1
<1>7. \A k \in 1 .. Len(r.q) : IsNatEvt(r.q[k]) =>
         IF r.q[k].ev = "WAN_UP" THEN n = NULL /\ Active(r, r.q[k].wan, "v4")
         ELSE \A w \in Wans : ~Active(r, w, "v4")
  BY <1>4, <1>5
<1> QED
  BY <1>5, <1>6, <1>7 DEF NatOK

\* An event that is not for this interface and family.
LEMMA RulesUntouched ==
    ASSUME NEW s \in Backhauls, NEW r, NEW e \in Events, r.q = Append(s.q, e), NEW x, NEW t, NEW f,
           ~IsTetherEvt(e, t, f), Holds(r.tether[f], t) <=> Holds(s.tether[f], t),
           Holds(s.tether[f], t) => r.sta = s.sta, RulesOK(s, x, t, f)
    PROVE  RulesOK(r, x, t, f)
<1> DEFINE m == Len(s.q)
<1>1. /\ Len(r.q) = m + 1 /\ m \in Nat /\ r.q[m + 1] = e
      /\ \A k \in 1 .. m : r.q[k] = s.q[k]
      /\ \A k \in 1 .. Len(r.q) : k \in 1 .. m \/ k = m + 1
  BY Appended
<1> HIDE DEF m
<1>2. \A k \in 1 .. Len(r.q) : IsTetherEvt(r.q[k], t, f) => k \in 1 .. m /\ r.q[k] = s.q[k]
  BY <1>1
<1>3. \A j, k \in 1 .. Len(r.q) : IsTetherEvt(r.q[j], t, f) /\ IsTetherEvt(r.q[k], t, f) => j = k
  BY <1>2 DEF RulesOK, m
<1>4. ASSUME NEW k \in 1 .. Len(r.q), IsTetherEvt(r.q[k], t, f)
      PROVE  IF r.q[k].ev = "WAN_UP_TETHER"
             THEN Clean(x, f) /\ Holds(r.tether[f], t) /\ r.q[k].is_sta = r.sta
             ELSE Served(x, f, r.q[k].is_sta) /\ ~Holds(r.tether[f], t)
  <2>1. k \in 1 .. Len(s.q) /\ r.q[k] = s.q[k] /\ IsTetherEvt(s.q[k], t, f)
    BY <1>2, <1>4 DEF m
  <2>2. IF s.q[k].ev = "WAN_UP_TETHER"
        THEN Clean(x, f) /\ Holds(s.tether[f], t) /\ s.q[k].is_sta = s.sta
        ELSE Served(x, f, s.q[k].is_sta) /\ ~Holds(s.tether[f], t)
    BY <2>1 DEF RulesOK
  <2> QED
    BY <2>1, <2>2
<1>5. ASSUME \A k \in 1 .. Len(r.q) : ~IsTetherEvt(r.q[k], t, f)
      PROVE  IF Holds(r.tether[f], t) THEN Served(x, f, r.sta) ELSE Clean(x, f)
  <2>1. \A k \in 1 .. Len(s.q) : ~IsTetherEvt(s.q[k], t, f)
    BY <1>1, <1>5 DEF m
  <2>2. IF Holds(s.tether[f], t) THEN Served(x, f, s.sta) ELSE Clean(x, f)
    BY <2>1 DEF RulesOK
  <2> QED
    BY <2>2
<1> QED
  BY <1>3, <1>4, <1>5 DEF RulesOK

\* The event of an interface that joins or leaves the list of a family.
LEMMA RulesTold ==
    ASSUME NEW s \in Backhauls, NEW r, NEW e \in Events, r.q = Append(s.q, e), NEW x, NEW t, NEW f,
           IsTetherEvt(e, t, f), RulesOK(s, x, t, f),
           \A k \in 1 .. Len(s.q) : ~IsTetherEvt(s.q[k], t, f),
           IF e.ev = "WAN_UP_TETHER"
           THEN ~Holds(s.tether[f], t) /\ Holds(r.tether[f], t) /\ e.is_sta = r.sta
           ELSE Holds(s.tether[f], t) /\ ~Holds(r.tether[f], t) /\ e.is_sta = s.sta
    PROVE  RulesOK(r, x, t, f)
<1> DEFINE m == Len(s.q)
<1>1. /\ Len(r.q) = m + 1 /\ m \in Nat /\ r.q[m + 1] = e
      /\ \A k \in 1 .. m : r.q[k] = s.q[k]
      /\ \A k \in 1 .. Len(r.q) : k \in 1 .. m \/ k = m + 1
  BY Appended
<1>2. IF Holds(s.tether[f], t) THEN Served(x, f, s.sta) ELSE Clean(x, f)
  BY DEF RulesOK
<1>3. \A k \in 1 .. Len(r.q) : IsTetherEvt(r.q[k], t, f) => k = m + 1 /\ r.q[k] = e
  BY <1>1
<1> HIDE DEF m
<1>4. m + 1 \in 1 .. Len(r.q) /\ IsTetherEvt(r.q[m + 1], t, f)
  BY <1>1
<1>5. \A k \in 1 .. Len(r.q) : IsTetherEvt(r.q[k], t, f) =>
         IF r.q[k].ev = "WAN_UP_TETHER"
         THEN Clean(x, f) /\ Holds(r.tether[f], t) /\ r.q[k].is_sta = r.sta
         ELSE Served(x, f, r.q[k].is_sta) /\ ~Holds(r.tether[f], t)
  BY <1>2, <1>3
<1> QED
  BY <1>3, <1>4, <1>5 DEF RulesOK

\* An event of a WAN object changes nothing for the interfaces.
LEMMA LansUntouched ==
    ASSUME NEW s \in Backhauls, NEW r, NEW e \in WanEvents, r.q = Append(s.q, e),
           r.tether = s.tether,
           \A t \in Tethers, f \in F : Holds(s.tether[f], t) => r.sta = s.sta
    PROVE  (\A l \in Lans : LansOK(s, l) => LansOK(r, l)) /\ (NoUp(s) => NoUp(r))
<1>1. e \in Events /\ (\A t, f : ~IsTetherEvt(e, t, f)) /\ e.ev # "WAN_UP_TETHER"
  BY EventKinds DEF Events
<1>2. ASSUME NEW l \in Lans, LansOK(s, l) PROVE LansOK(r, l)
  <2>1. ASSUME NEW t \in Tethers, NEW f \in F PROVE RulesOK(r, l[t], t, f)
    <3>1. RulesOK(s, l[t], t, f)
      BY <1>2 DEF LansOK
    <3>2. Holds(r.tether[f], t) <=> Holds(s.tether[f], t)
      OBVIOUS
    <3> QED
      BY <1>1, <3>1, <3>2, RulesUntouched
  <2> QED
    BY <1>2, <2>1 DEF LansOK
<1>3. NoUp(s) => NoUp(r)
  BY <1>1, Appended DEF NoUp
<1> QED
  BY <1>2, <1>3

\* An interface joins or leaves the list.
Joins(s, r, t, f) ==
    \A u \in Tethers, g \in F :
        Holds(r.tether[g], u) <=> Holds(s.tether[g], u) \/ (u = t /\ g = f)

Leaves(s, r, t, f) ==
    \A u \in Tethers, g \in F :
        Holds(r.tether[g], u) <=> Holds(s.tether[g], u) /\ ~(u = t /\ g = f)

LEMMA JoinFollows ==
    ASSUME NEW s \in Backhauls, NEW r, NEW t \in Tethers, NEW f \in F, NEW sta \in BOOLEAN,
           r.q = Append(s.q, TetherEvt("WAN_UP_TETHER", f, t, sta)),
           \A k \in 1 .. Len(s.q) : s.q[k] \in WanEvents,
           ~Holds(s.tether[f], t), r.sta = sta, s.sta = sta,
           Joins(s, r, t, f),
           \A v \in Wans : Active(r, v, "v4") <=> Active(s, v, "v4")
    PROVE  Follows(s, r)
<1> DEFINE e == TetherEvt("WAN_UP_TETHER", f, t, sta)
<1>1. e \in TetherEvents
  BY EventTypes
<1>2. /\ e.ev = "WAN_UP_TETHER" /\ e.is_sta = sta
      /\ \A u, g : IsTetherEvt(e, u, g) <=> u = t /\ g = f
  BY DEF TetherEvt, IsTetherEvt
<1> HIDE DEF e
<1>3. e \in Events /\ ~IsNatEvt(e) /\ r.q = Append(s.q, e)
  BY <1>1, EventKinds DEF Events, e
<1>4. \A n \in Nats : NatOK(s, n) => NatOK(r, n)
  BY <1>3, NatUntouched
<1>5. \A k \in 1 .. Len(s.q) : ~IsTetherEvt(s.q[k], t, f)
  BY QueueAt, EventKinds
<1>6. ASSUME NEW l \in Lans, LansOK(s, l) PROVE LansOK(r, l)
  <2>1. ASSUME NEW u \in Tethers, NEW g \in F PROVE RulesOK(r, l[u], u, g)
    <3>1. RulesOK(s, l[u], u, g)
      BY <1>6 DEF LansOK
    <3>2. CASE u = t /\ g = f
      <4>1. Holds(r.tether[f], t)
        BY DEF Joins
      <4>2. RulesOK(s, l[t], t, f) /\ IsTetherEvt(e, t, f)
        BY <1>2, <3>1, <3>2
      <4>3. RulesOK(r, l[t], t, f)
        BY <1>2, <1>3, <1>5, <4>1, <4>2, RulesTold
      <4> QED
        BY <3>2, <4>3
    <3>3. CASE ~(u = t /\ g = f)
      <4>1. (Holds(r.tether[g], u) <=> Holds(s.tether[g], u)) /\ ~IsTetherEvt(e, u, g)
        BY <1>2, <3>3 DEF Joins
      <4> QED
        BY <1>3, <3>1, <4>1, RulesUntouched
    <3> QED
      BY <3>2, <3>3
  <2> QED
    BY <1>6, <2>1 DEF LansOK
<1> QED
  BY <1>4, <1>6 DEF Follows

LEMMA LeaveFollows ==
    ASSUME NEW s \in Backhauls, NEW r, NEW t \in Tethers, NEW f \in F, NEW sta \in BOOLEAN,
           r.q = Append(s.q, TetherEvt("WAN_DOWN_TETHER", f, t, sta)), NoUp(s),
           Holds(s.tether[f], t), r.sta = sta, s.sta = sta,
           Leaves(s, r, t, f),
           \A v \in Wans : Active(r, v, "v4") <=> Active(s, v, "v4")
    PROVE  Follows(s, r) /\ NoUp(r) /\ (NoNat(s) => NoNat(r))
<1> DEFINE e == TetherEvt("WAN_DOWN_TETHER", f, t, sta)
<1>1. e \in TetherEvents
  BY EventTypes
<1>2. /\ e.ev = "WAN_DOWN_TETHER" /\ e.is_sta = sta
      /\ \A u, g : IsTetherEvt(e, u, g) <=> u = t /\ g = f
  BY DEF TetherEvt, IsTetherEvt
<1> HIDE DEF e
<1>3. e \in Events /\ ~IsNatEvt(e) /\ r.q = Append(s.q, e)
  BY <1>1, EventKinds DEF Events, e
<1>4. (\A n \in Nats : NatOK(s, n) => NatOK(r, n)) /\ (NoNat(s) => NoNat(r))
  BY <1>3, NatUntouched
<1>5. ASSUME NEW l \in Lans, LansOK(s, l) PROVE LansOK(r, l)
  <2>1. ASSUME NEW u \in Tethers, NEW g \in F PROVE RulesOK(r, l[u], u, g)
    <3>1. RulesOK(s, l[u], u, g)
      BY <1>5 DEF LansOK
    <3>2. CASE u = t /\ g = f
      <4>1. ~Holds(r.tether[f], t)
        BY DEF Leaves
      <4>2. RulesOK(s, l[t], t, f) /\ IsTetherEvt(e, t, f)
        BY <1>2, <3>1, <3>2
      <4>3. \A k \in 1 .. Len(s.q) : ~IsTetherEvt(s.q[k], t, f)
        BY <4>2 DEF RulesOK, NoUp
      <4>4. RulesOK(r, l[t], t, f)
        BY <1>2, <1>3, <4>1, <4>2, <4>3, RulesTold
      <4> QED
        BY <3>2, <4>4
    <3>3. CASE ~(u = t /\ g = f)
      <4>1. (Holds(r.tether[g], u) <=> Holds(s.tether[g], u)) /\ ~IsTetherEvt(e, u, g)
        BY <1>2, <3>3 DEF Leaves
      <4> QED
        BY <1>3, <3>1, <4>1, RulesUntouched
    <3> QED
      BY <3>2, <3>3
  <2> QED
    BY <1>5, <2>1 DEF LansOK
<1>6. NoUp(r)
  BY <1>2, <1>3, Appended DEF NoUp
<1> QED
  BY <1>4, <1>5, <1>6 DEF Follows

-----------------------------------------------------------------------------
(* A route is added: the rest. *)

LEMMA QuietClear ==
    ASSUME NEW s, NEW r, Quiet(s, r), NEW w, NEW t, NEW f \in F, Clear(s, w, t, f)
    PROVE  Clear(r, w, t, f)
  BY DEF Quiet, Clear

\* The first interface makes the object the upstream of the family.
LEMMA UpstreamStarts ==
    ASSUME NEW s, NEW rt \in Routes, BackhaulOK(s, rt), NEW w \in Wans, NEW t \in Tethers,
           NEW f \in F, Clear(s, w, t, f), s.q = <<>>, s.wan[w] # NULL, ~Active(s, w, f),
           Usable(s.wan[w], f), w \in Sta => s.wan[w].header_set,
           NEW r, r = post_wan_up_tether_evt(handle_route_add_evt(s, w, f), w, f, t)
    PROVE  /\ BackhaulOK(r, Rerouted(rt, t, f, w)) /\ Follows(s, r)
           /\ \A v \in Wans : v # w => ~Active(r, v, f)
<1> DEFINE p == s.wan[w]
           o == Upstream(p, f)
           u == handle_route_add_evt(s, w, f)
           flt == [s.flt EXCEPT ![f] = "firewall"]
           fw == [s.fw EXCEPT ![w] = [s.fw[w] EXCEPT ![f] = s.fw[w][f] + 1]]
           e == WanEvt("WAN_UP", f, w)
           tether == [s.tether EXCEPT ![f] = Append(s.tether[f], t)]
<1>1. s \in Backhauls /\ p \in WanObjects /\ WanOK(w, p)
  BY FieldTypes DEF BackhaulOK, WansOK
<1>2. /\ o \in WanObjects /\ WanOK(w, o) /\ o.active = p.active \cup {f}
      /\ \A g \in F : Usable(o, g) <=> Usable(p, g)
  BY <1>1, UpstreamObjectOK
<1>3. /\ u \in Backhauls /\ u.wan = Changed(s, w, o) /\ u.objs = s.objs /\ u.up = s.up \cup {f}
      /\ (u.sta = (w \in Sta)) /\ u.tether = s.tether /\ u.pdn = s.pdn /\ u.q = Append(s.q, e)
      /\ IF w \in Modem THEN u.flt = flt /\ u.modem = flt /\ u.fw = s.fw
                        ELSE u.flt = s.flt /\ u.modem = s.modem /\ u.fw = fw
  <2>1. CASE w \in Modem
    <3>1. w \notin Sta
      BY <2>1, BackhaulAssumption
    <3>2. Is(u, Changed(s, w, o), s.objs, s.up \cup {f}, FALSE, s.tether, s.pdn, flt, flt, s.fw,
             Append(s.q, e))
      BY <1>1, <2>1, <3>1, RouteAddFields DEF Changed
    <3>3. (w \in Sta) = FALSE
      BY <3>1
    <3> HIDE DEF u, flt, fw, e, o
    <3> QED
      BY <2>1, <3>2, <3>3 DEF Is
  <2>2. CASE w \notin Modem
    <3>1. w \in Sta
      BY <2>2 DEF Wans
    <3>2. Is(u, Changed(s, w, o), s.objs, s.up \cup {f}, TRUE, s.tether, s.pdn, s.flt, s.modem,
             fw, Append(s.q, e))
      BY <1>1, <2>2, <3>1, RouteAddFields DEF Changed
    <3> HIDE DEF u, flt, fw, e, o
    <3> QED
      BY <2>2, <3>1, <3>2 DEF Is
  <2> QED
    BY <2>1, <2>2
<1>4. r = post_wan_up_tether_evt(u, w, f, t)
  OBVIOUS
<1> DEFINE te == TetherEvt("WAN_UP_TETHER", f, t, w \in Sta)
<1> HIDE DEF u, o, p, flt, fw, e
<1>5. Is(r, u.wan, u.objs, u.up, u.sta, [u.tether EXCEPT ![f] = Append(u.tether[f], t)], u.pdn,
         u.flt, u.modem, u.fw, Append(u.q, te))
  BY <1>3, <1>4, UpTetherFields
<1>6. /\ r \in Backhauls /\ r.wan = Changed(s, w, o) /\ r.objs = s.objs /\ r.up = s.up \cup {f}
      /\ (r.sta = (w \in Sta)) /\ r.tether = tether /\ r.pdn = s.pdn /\ r.q = Append(u.q, te)
      /\ IF w \in Modem THEN r.flt = flt /\ r.modem = flt /\ r.fw = s.fw
                        ELSE r.flt = s.flt /\ r.modem = s.modem /\ r.fw = fw
  BY <1>3, <1>5 DEF Is
<1>7. /\ r.wan[w] = o /\ o # NULL /\ \A v \in Wans : v # w => r.wan[v] = s.wan[v]
      /\ \A g \in F : Active(r, w, g) <=> g \in o.active
      /\ \A v \in Wans, g \in F : v # w => (Active(r, v, g) <=> Active(s, v, g))
  BY <1>1, <1>2, <1>6, OneChanges
<1>8. \A v \in Wans, g \in F : Active(r, v, g) <=> Active(s, v, g) \/ (v = w /\ g = f)
  BY <1>2, <1>7 DEF Active, p
<1>9. \A g \in F : Pdns(r, g) = Pdns(s, g)
  BY <1>2, <1>7 DEF Pdns, Wans, p
<1>10. PdnOK(r) /\ FiltersOK(r)
  <2>1. Armed(s, r, w, f)
    BY <1>6 DEF Armed, flt, fw
  <2> QED
    BY <1>1, <1>6, <1>8, <1>9, <2>1, FirewallAdded DEF BackhaulOK
<1>11. ObjsOK(r) /\ WansOK(r)
  BY <1>1, <1>2, <1>6, SameObjects DEF BackhaulOK, p
<1>12. s.tether \in [F -> Seq(Tethers)]
  BY <1>1, FieldTypes
<1>13. r.tether[f] = Append(s.tether[f], t) /\ \A g \in F : g # f => r.tether[g] = s.tether[g]
  BY <1>6, <1>12
<1>14. UpOK(r) /\ ListOK(r, Rerouted(rt, t, f, w)) /\ KindOK(r)
  <2>1. r \in Backhauls /\ r.up = s.up \cup {f} /\ (r.sta <=> w \in Sta)
    BY <1>6
  <2>2. UpOK(s) /\ ListOK(s, rt) /\ KindOK(s)
    BY DEF BackhaulOK
  <2> QED
    BY <1>1, <1>8, <1>13, <2>1, <2>2, UpstreamAdded
<1>15. BackhaulOK(r, Rerouted(rt, t, f, w))
  BY <1>6, <1>10, <1>11, <1>14 DEF BackhaulOK
<1>16. \A v \in Wans : v # w => ~Active(r, v, f)
  BY <1>8 DEF Clear
<1>17. e \in WanEvents /\ e.ev = "WAN_UP" /\ e.fam = f /\ e.wan = w
  BY EventTypes DEF e, WanEvt
<1>18. Follows(s, u)
  <2>1. \A v \in Wans, g \in F : Active(u, v, g) <=> Active(r, v, g)
    BY <1>3, <1>6 DEF Active
  <2>2. \A n \in Nats : NatOK(s, n) => NatOK(u, n)
    <3>1. e \in Events /\ u.q = Append(s.q, e)
      BY <1>3, <1>17 DEF Events
    <3>2. CASE f = "v4"
      <4>1. IsNatEvt(e) /\ NoNat(s)
        BY <1>17, <3>2 DEF IsNatEvt, NoNat
      <4>2. (\A v \in Wans : ~Active(s, v, "v4")) /\ Active(u, e.wan, "v4")
        BY <1>8, <1>17, <2>1, <3>2 DEF Clear
      <4> QED
        BY <1>1, <1>17, <3>1, <4>1, <4>2, NatTold
    <3>3. CASE f # "v4"
      <4>1. ~IsNatEvt(e)
        BY <1>17, <3>3 DEF IsNatEvt
      <4>2. \A v \in Wans : Active(u, v, "v4") <=> Active(s, v, "v4")
        BY <1>8, <2>1, <3>3 DEF F
      <4> QED
        BY <1>1, <3>1, <4>1, <4>2, NatUntouched
    <3> QED
      BY <3>2, <3>3
  <2>3. ASSUME NEW y \in Tethers, NEW g \in F, Holds(s.tether[g], y) PROVE u.sta = s.sta
    <3>1. rt[y][g] \in Wans /\ Active(s, rt[y][g], g)
      BY <2>3 DEF BackhaulOK, ListOK
    <3>2. s.sta <=> rt[y][g] \in Sta
      BY <3>1 DEF BackhaulOK, KindOK
    <3>3. rt[y][g] \in Sta <=> w \in Sta
      BY <3>1 DEF Clear
    <3>4. s.sta \in BOOLEAN
      BY <1>1, FieldTypes
    <3> QED
      BY <1>3, <3>2, <3>3, <3>4
  <2>4. \A l \in Lans : LansOK(s, l) => LansOK(u, l)
    BY <1>1, <1>3, <1>17, <2>3, LansUntouched
  <2> QED
    BY <2>2, <2>4 DEF Follows
<1>19. Follows(u, r)
  <2>1. \A k \in 1 .. Len(u.q) : u.q[k] \in WanEvents
    BY <1>3, <1>17
  <2>2. ~Holds(u.tether[f], t)
    BY <1>3 DEF Clear
  <2>3. \A y : Holds(r.tether[f], y) <=> Holds(s.tether[f], y) \/ y = t
    BY <1>12, <1>13, AppendHolds
  <2>4. Joins(u, r, t, f)
    <3>1. ASSUME NEW y \in Tethers, NEW g \in F
          PROVE  Holds(r.tether[g], y) <=> Holds(u.tether[g], y) \/ (y = t /\ g = f)
      <4>1. u.tether[g] = s.tether[g]
        BY <1>3
      <4>2. CASE g = f
        BY <2>3, <4>1, <4>2
      <4>3. CASE g # f
        BY <1>13, <4>1, <4>3
      <4> QED
        BY <4>2, <4>3
    <3> QED
      BY <3>1 DEF Joins
  <2>5. \A v \in Wans : Active(r, v, "v4") <=> Active(u, v, "v4")
    BY <1>3, <1>6 DEF Active
  <2> DEFINE sta == w \in Sta
  <2>6. sta \in BOOLEAN /\ u.sta = sta /\ r.sta = sta
        /\ r.q = Append(u.q, TetherEvt("WAN_UP_TETHER", f, t, sta))
    BY <1>3, <1>6
  <2>7. u \in Backhauls
    BY <1>3
  <2> HIDE DEF sta, te
  <2> QED
    BY <2>7, <2>1, <2>2, <2>4, <2>5, <2>6, JoinFollows
<1> QED
  BY <1>15, <1>16, <1>18, <1>19, FollowsTrans

\* Another interface uses an object that is the upstream.
LEMMA InterfaceJoins ==
    ASSUME NEW s, NEW rt \in Routes, BackhaulOK(s, rt), NEW w \in Wans, NEW t \in Tethers,
           NEW f \in F, Clear(s, w, t, f), s.q = <<>>, Active(s, w, f),
           NEW r, r = post_wan_up_tether_evt(s, w, f, t)
    PROVE  BackhaulOK(r, Rerouted(rt, t, f, w)) /\ Follows(s, r)
<1> DEFINE tether == [s.tether EXCEPT ![f] = Append(s.tether[f], t)]
           sta == w \in Sta
           te == TetherEvt("WAN_UP_TETHER", f, t, sta)
<1>1. s \in Backhauls
  BY DEF BackhaulOK
<1>2. Is(r, s.wan, s.objs, s.up, s.sta, tether, s.pdn, s.flt, s.modem, s.fw, Append(s.q, te))
  BY <1>1, UpTetherFields
<1>3. /\ r \in Backhauls /\ r.wan = s.wan /\ r.objs = s.objs /\ r.up = s.up /\ r.sta = s.sta
      /\ r.tether = tether /\ r.pdn = s.pdn /\ r.flt = s.flt /\ r.modem = s.modem
      /\ r.fw = s.fw /\ r.q = Append(s.q, te)
  BY <1>2 DEF Is
<1>4. s.tether \in [F -> Seq(Tethers)] /\ s.sta \in BOOLEAN
  BY <1>1, FieldTypes
<1>5. r.tether[f] = Append(s.tether[f], t) /\ \A g \in F : g # f => r.tether[g] = s.tether[g]
  BY <1>3, <1>4
<1> HIDE DEF tether, te, sta
<1>6. /\ \A v \in Wans, g \in F : Active(r, v, g) <=> Active(s, v, g)
      /\ \A g \in F : Pdns(r, g) = Pdns(s, g)
  BY <1>3 DEF Active, Pdns
<1>7. s.up = s.up \cup {f} /\ (s.sta <=> w \in Sta)
  BY DEF BackhaulOK, UpOK, KindOK
<1>8. UpOK(r) /\ ListOK(r, Rerouted(rt, t, f, w)) /\ KindOK(r)
  <2>1. \A v \in Wans, g \in F : Active(r, v, g) <=> Active(s, v, g) \/ (v = w /\ g = f)
    BY <1>6
  <2>2. r \in Backhauls /\ r.up = s.up \cup {f} /\ (r.sta <=> w \in Sta)
    BY <1>3, <1>7
  <2>3. UpOK(s) /\ ListOK(s, rt) /\ KindOK(s)
    BY DEF BackhaulOK
  <2> QED
    BY <1>1, <1>5, <2>1, <2>2, <2>3, UpstreamAdded
<1>9. PdnOK(r) /\ FiltersOK(r)
  BY <1>1, <1>3, <1>6, SameFilters DEF BackhaulOK
<1>10. ObjsOK(r) /\ WansOK(r)
  BY <1>3 DEF BackhaulOK, ObjsOK, WansOK
<1>11. BackhaulOK(r, Rerouted(rt, t, f, w))
  BY <1>3, <1>8, <1>9, <1>10 DEF BackhaulOK
<1>12. Follows(s, r)
  <2>1. \A k \in 1 .. Len(s.q) : s.q[k] \in WanEvents
    OBVIOUS
  <2>2. ~Holds(s.tether[f], t)
    BY DEF Clear
  <2>3. \A y : Holds(r.tether[f], y) <=> Holds(s.tether[f], y) \/ y = t
    BY <1>4, <1>5, AppendHolds
  <2>4. Joins(s, r, t, f)
    BY <1>5, <2>3 DEF Joins
  <2>5. \A v \in Wans : Active(r, v, "v4") <=> Active(s, v, "v4")
    BY <1>6 DEF F
  <2>6. sta \in BOOLEAN /\ s.sta = sta /\ r.sta = sta
    BY <1>3, <1>4, <1>7 DEF sta
  <2>7. r.q = Append(s.q, TetherEvt("WAN_UP_TETHER", f, t, sta))
    BY <1>3 DEF te
  <2> QED
    BY <1>1, <2>1, <2>2, <2>4, <2>5, <2>6, <2>7, JoinFollows
<1> QED
  BY <1>11, <1>12

\* The route to an object that cannot be an upstream yet is forgotten.
LEMMA RouteForgotten ==
    ASSUME NEW s, NEW rt \in Routes, BackhaulOK(s, rt), NEW w \in Nats, NEW t \in Tethers,
           NEW f \in F, ~Holds(s.tether[f], t)
    PROVE  BackhaulOK(s, Rerouted(rt, t, f, w))
<1> DEFINE rt2 == Rerouted(rt, t, f, w)
<1>1. \A u \in Tethers, g \in F : u # t \/ g # f => rt2[u][g] = rt[u][g]
  BY ReroutedFacts DEF Nats
<1> HIDE DEF rt2
<1>2. ListOK(s, rt2)
  BY <1>1 DEF BackhaulOK, ListOK
<1> QED
  BY <1>2 DEF BackhaulOK, rt2

\* The first route to an object that can be an upstream.
LEMMA FirstRoute ==
    ASSUME NEW s, NEW rt \in Routes, BackhaulOK(s, rt), NEW w \in Wans, NEW t \in Tethers,
           NEW f \in F, Clear(s, w, t, f), s.q = <<>>, s.wan[w] # NULL, ~Active(s, w, f),
           Usable(s.wan[w], f), w \in Sta => f \in s.wan[w].neighbours,
           NEW r, r = upstream_route_add(s, w, w, t, f)
    PROVE  /\ BackhaulOK(r, Rerouted(rt, t, f, w)) /\ Follows(s, r)
           /\ \A v \in Wans : v # w => ~Active(r, v, f)
<1> DEFINE p == s.wan[w]
           o == Gateway(p, f)
           g == [s EXCEPT !.wan[w].gw_set = @ \cup {f}]
           h == handle_sta_header_add_evt(g, w)
<1>1. s \in Backhauls /\ p \in WanObjects /\ WanOK(w, p)
  BY FieldTypes DEF BackhaulOK, WansOK
<1>2. /\ o \in WanObjects /\ WanOK(w, o) /\ o.active = p.active /\ o.gw_set # {}
      /\ \A k \in F : Usable(o, k) <=> Usable(p, k)
  BY <1>1, GatewayOK
<1>3. g = With(s, Changed(s, w, o), s.objs, s.up, s.sta)
  BY <1>1 DEF With, Backhauls, Changed, Gateway
<1>4. r = post_wan_up_tether_evt(handle_route_add_evt(h, w, f), w, f, t)
  BY DEF upstream_route_add
<1> HIDE DEF g, h, o, p
<1>5. Is(g, Changed(s, w, o), s.objs, s.up, s.sta, s.tether, s.pdn, s.flt, s.modem, s.fw, s.q)
  BY <1>1, <1>2, <1>3, ChangedFields
<1>6. BackhaulOK(g, rt) /\ Quiet(s, g)
  BY <1>2, <1>5, ObjectChangesOK DEF p
<1>7. g \in Backhauls /\ g.wan = Changed(s, w, o) /\ g.q = <<>>
  BY <1>5 DEF Is
<1>8. g.wan[w] = o /\ o # NULL
  BY <1>1, <1>2, <1>7, OneChanges
<1>9. /\ BackhaulOK(h, rt) /\ Quiet(g, h) /\ h.wan[w] # NULL
      /\ \A k \in F : Usable(h.wan[w], k) <=> Usable(g.wan[w], k)
      /\ (g.wan[w].gw_set # {} /\ w \in Sta => h.wan[w].header_set)
  <2>1. g.wan[w] # NULL /\ h = handle_sta_header_add_evt(g, w)
    BY <1>8 DEF h
  <2> QED
    BY <1>6, <2>1, HeaderOK
<1>10. Quiet(s, h)
  BY <1>6, <1>9, QuietTrans
<1>11. Clear(h, w, t, f)
  BY <1>10, QuietClear
<1>12. /\ h.q = <<>> /\ ~Active(h, w, f) /\ Usable(h.wan[w], f)
       /\ (w \in Sta => h.wan[w].header_set)
  BY <1>2, <1>8, <1>9, <1>10 DEF Quiet, p
<1>13. /\ BackhaulOK(r, Rerouted(rt, t, f, w)) /\ Follows(h, r)
       /\ \A v \in Wans : v # w => ~Active(r, v, f)
  BY <1>4, <1>9, <1>11, <1>12, UpstreamStarts
<1>14. Follows(s, h)
  BY <1>1, <1>10, QuietFollows
<1> QED
  BY <1>13, <1>14, FollowsTrans

\* WAN_UPSTREAM_ROUTE_ADD.
LEMMA RouteAddOK ==
    ASSUME NEW s, NEW rt \in Routes, BackhaulOK(s, rt), NEW w \in Wans, NEW t \in Tethers,
           NEW f \in F, Clear(s, w, t, f), s.q = <<>>, s.wan[w] # NULL,
           w \in Sta => f \in s.wan[w].neighbours,
           NEW r, r = upstream_route_add_all(s, w, t, f)
    PROVE  BackhaulOK(r, Rerouted(rt, t, f, w)) /\ Follows(s, r)
<1> DEFINE u == upstream_route_add(s, w, w, t, f)
<1>1. s \in Backhauls /\ Once(s.objs) /\ Holds(s.objs, w)
  BY DEF BackhaulOK, ObjsOK
<1>2. s.objs \in Seq(Wans)
  BY <1>1, FieldTypes
<1>3. \A v \in Wans : v # w => ~Active(s, v, f)
  BY DEF Clear
<1>4. /\ BackhaulOK(u, Rerouted(rt, t, f, w)) /\ Follows(s, u)
      /\ \A v \in Wans : v # w => ~Active(u, v, f)
  <2>1. CASE ~Usable(s.wan[w], f)
    <3>1. u = s
      BY <2>1 DEF upstream_route_add
    <3>2. BackhaulOK(s, Rerouted(rt, t, f, w))
      BY RouteForgotten DEF Clear, Nats
    <3>3. Follows(s, s)
      BY DEF Follows
    <3> QED
      BY <1>3, <3>1, <3>2, <3>3
  <2>2. CASE Usable(s.wan[w], f) /\ Active(s, w, f)
    <3>1. u = post_wan_up_tether_evt(s, w, f, t)
      BY <2>2 DEF upstream_route_add
    <3> HIDE DEF u
    <3>2. BackhaulOK(u, Rerouted(rt, t, f, w)) /\ Follows(s, u)
      BY <2>2, <3>1, InterfaceJoins
    <3> DEFINE tether == [s.tether EXCEPT ![f] = Append(s.tether[f], t)]
               q == Append(s.q, TetherEvt("WAN_UP_TETHER", f, t, w \in Sta))
    <3>3. Is(u, s.wan, s.objs, s.up, s.sta, tether, s.pdn, s.flt, s.modem, s.fw, q)
      BY <1>1, <3>1, UpTetherFields
    <3> HIDE DEF tether, q
    <3>4. u.wan = s.wan
      BY <3>3 DEF Is
    <3> QED
      BY <1>3, <3>2, <3>4 DEF Active
  <2>3. CASE Usable(s.wan[w], f) /\ ~Active(s, w, f)
    BY <2>3, FirstRoute
  <2> QED
    BY <2>1, <2>2, <2>3
<1> HIDE DEF u
<1>5. r = u
  <2>1. u = upstream_route_add(s, w, w, t, f)
    BY DEF u
  <2> QED
    BY <1>1, <1>2, <1>3, <1>4, <2>1, AddToAll
<1> QED
  BY <1>4, <1>5

-----------------------------------------------------------------------------
(* An object stops being an upstream. *)

\* What holds also between the steps that empty a list.
Core(s) == s \in Backhauls /\ ObjsOK(s) /\ WansOK(s) /\ UpOK(s) /\ KindOK(s) /\ FiltersOK(s)

Stops(s, r, w, f) ==
    \A v \in Wans, g \in F : Active(r, v, g) <=> Active(s, v, g) /\ ~(v = w /\ g = f)

LEMMA LeftOK ==
    ASSUME NEW w \in Wans, NEW o \in WanObjects, WanOK(w, o), NEW f \in F, f \in o.active
    PROVE  /\ Left(o, f) \in WanObjects /\ WanOK(w, Left(o, f))
           /\ Left(o, f).active = o.active \ {f} /\ IpType(Left(o, f)) = IpType(o)
           /\ \A g \in F : Usable(Left(o, f), g) <=> Usable(o, g)
<1> DEFINE p == Left(o, f)
<1>1. /\ p \in WanObjects /\ p.active = o.active \ {f}
      /\ p.is_default_gateway = FALSE /\ p.gw_set = o.gw_set
      /\ p.header_partial = o.header_partial /\ p.neighbours = o.neighbours
      /\ p.v4 = o.v4 /\ p.num_dft_rt_v6 = o.num_dft_rt_v6
  BY DEF Left, WanObjects
<1> HIDE DEF p
<1>2. (\A g \in F : Usable(p, g) <=> Usable(o, g)) /\ IpType(p) = IpType(o)
  BY <1>1 DEF Usable, IpType
<1>3. p.active \subseteq F
  BY <1>1 DEF WanObjects
<1>4. f \in Fam[w]
  <2>1. Usable(o, f) /\ IpType(o) \subseteq Fam[w]
    BY DEF WanOK
  <2>2. o.num_dft_rt_v6 \in 0 .. 2
    BY DEF WanObjects, MAX_DEFAULT_v6_ROUTE_RULES
  <2>3. f \in IpType(o)
    BY <2>1, <2>2 DEF Usable, IpType, F, MAX_DEFAULT_v6_ROUTE_RULES
  <2> QED
    BY <2>1, <2>3
<1>5. p.active # Fam[w]
  BY <1>1, <1>4
<1>6. WanOK(w, p)
  BY <1>1, <1>2, <1>3, <1>5 DEF WanOK
<1> QED
  BY <1>1, <1>2, <1>6 DEF p

\* The firewall goes with the upstream.
Disarmed(s, r, w, f) ==
    IF w \in Modem
    THEN r.flt = [s.flt EXCEPT ![f] = "default"] /\ r.modem = r.flt /\ r.fw = s.fw
    ELSE /\ r.flt = s.flt /\ r.modem = s.modem
         /\ r.fw = [s.fw EXCEPT ![w] = [s.fw[w] EXCEPT ![f] = 0]]

LEMMA FirewallRemoved ==
    ASSUME NEW s \in Backhauls, NEW r \in Backhauls, NEW w \in Wans, NEW f \in F,
           WansOK(s), UpOK(s), FiltersOK(s), Active(s, w, f), Stops(s, r, w, f),
           \A g \in F : Pdns(r, g) = Pdns(s, g), Disarmed(s, r, w, f)
    PROVE  FiltersOK(r)
<1>1. s.flt \in [F -> Filters] /\ s.fw \in [Sta -> [F -> Nat]]
  BY FieldTypes
<1>2. \A v \in Wans : ~Active(r, v, f)
  BY DEF UpOK, Stops
<1>3. \A v \in Wans, g \in F : g # f \/ v # w => (Active(r, v, g) <=> Active(s, v, g))
  BY DEF Stops
<1>4. CASE w \in Modem
  <2>1. w \notin Sta
    BY <1>4, BackhaulAssumption
  <2>2. r.flt = [s.flt EXCEPT ![f] = "default"] /\ r.modem = r.flt /\ r.fw = s.fw
    BY <1>4 DEF Disarmed
  <2>3. Pdns(r, f) # {}
    <3>1. w \in Pdns(s, f)
      BY <1>4 DEF Active, WansOK, WanOK, Pdns
    <3> QED
      BY <3>1
  <2>4. ASSUME NEW g \in F
        PROVE  r.flt[g] = IF \E v \in Modem : Active(r, v, g) THEN "firewall"
                          ELSE IF Pdns(r, g) # {} THEN "default" ELSE "none"
    <3>1. CASE g = f
      BY <1>1, <1>2, <2>2, <2>3, <3>1 DEF Wans
    <3>2. CASE g # f
      <4>1. r.flt[g] = s.flt[g]
        BY <1>1, <2>2, <3>2
      <4>2. (\E v \in Modem : Active(r, v, g)) <=> (\E v \in Modem : Active(s, v, g))
        BY <1>3, <3>2 DEF Wans
      <4> QED
        BY <4>1, <4>2 DEF FiltersOK
    <3> QED
      BY <3>1, <3>2
  <2>5. \A v \in Sta, g \in F : Active(r, v, g) <=> Active(s, v, g)
    BY <1>3, <2>1 DEF Wans
  <2>6. \A v \in Sta, g \in F : r.fw[v][g] = IF Active(r, v, g) THEN 1 ELSE 0
    BY <2>2, <2>5 DEF FiltersOK
  <2> QED
    BY <2>2, <2>4, <2>6 DEF FiltersOK
<1>5. CASE w \notin Modem
  <2>1. w \in Sta
    BY <1>5 DEF Wans
  <2>2. /\ r.flt = s.flt /\ r.modem = s.modem
        /\ r.fw = [s.fw EXCEPT ![w] = [s.fw[w] EXCEPT ![f] = 0]]
    BY <1>5 DEF Disarmed
  <2>3. \A v \in Modem, g \in F : Active(r, v, g) <=> Active(s, v, g)
    BY <1>3, <1>5 DEF Wans
  <2>4. ASSUME NEW v \in Sta, NEW g \in F
        PROVE  r.fw[v][g] = IF Active(r, v, g) THEN 1 ELSE 0
    <3>1. s.fw[v][g] = IF Active(s, v, g) THEN 1 ELSE 0
      BY DEF FiltersOK
    <3>2. CASE v = w /\ g = f
      <4>1. ~Active(r, v, g)
        BY <1>2, <3>2
      <4>2. r.fw[v][g] = 0
        BY <1>1, <2>1, <2>2, <3>2
      <4> QED
        BY <4>1, <4>2
    <3>3. CASE ~(v = w /\ g = f)
      <4>1. Active(r, v, g) <=> Active(s, v, g)
        BY <1>3, <3>3 DEF Wans
      <4>2. r.fw[v][g] = s.fw[v][g]
        BY <1>1, <2>1, <2>2, <3>3
      <4> QED
        BY <3>1, <4>1, <4>2
    <3> QED
      BY <3>2, <3>3
  <2>5. ASSUME NEW g \in F
        PROVE  r.flt[g] = IF \E v \in Modem : Active(r, v, g) THEN "firewall"
                          ELSE IF Pdns(r, g) # {} THEN "default" ELSE "none"
    <3>1. (\E v \in Modem : Active(r, v, g)) <=> (\E v \in Modem : Active(s, v, g))
      BY <2>3
    <3> QED
      BY <2>2, <3>1 DEF FiltersOK
  <2>6. r.modem = r.flt
    BY <2>2 DEF FiltersOK
  <2> QED
    BY <2>4, <2>5, <2>6 DEF FiltersOK
<1> QED
  BY <1>4, <1>5

\* clean_default_route, but for the queue.
Cleaned(s, r, w, f) ==
    /\ r.tether = s.tether /\ r.sta = s.sta /\ r.pdn = s.pdn /\ r.objs = s.objs
    /\ r.up = s.up \ {f} /\ Stops(s, r, w, f)
    /\ \A g \in F : Pdns(r, g) = Pdns(s, g)
    /\ r.wan[w] # NULL /\ IpType(r.wan[w]) = IpType(s.wan[w])
    /\ \A v \in Wans : v # w => r.wan[v] = s.wan[v]

LEMMA CleanedOK ==
    ASSUME NEW s, Core(s), NEW w \in Wans, NEW f \in F, Active(s, w, f),
           NEW r, r = clean_default_route(s, w, f)
    PROVE  Core(r) /\ Cleaned(s, r, w, f) /\ r.q = Append(s.q, WanEvt("WAN_DOWN", f, w))
<1> DEFINE p == s.wan[w]
           o == Left(p, f)
           flt == [s.flt EXCEPT ![f] = "default"]
           fw  == [s.fw EXCEPT ![w] = [s.fw[w] EXCEPT ![f] = 0]]
           q   == Append(s.q, WanEvt("WAN_DOWN", f, w))
<1>1. s \in Backhauls /\ p \in WanObjects /\ WanOK(w, p) /\ f \in p.active /\ p # NULL
  BY FieldTypes DEF Core, WansOK, Active
<1>2. /\ o \in WanObjects /\ WanOK(w, o) /\ o.active = p.active \ {f} /\ IpType(o) = IpType(p)
      /\ \A g \in F : Usable(o, g) <=> Usable(p, g)
  BY <1>1, LeftOK
<1>3. IF w \in Modem
      THEN Is(r, Changed(s, w, o), s.objs, s.up \ {f}, s.sta, s.tether, s.pdn, flt, flt, s.fw, q)
      ELSE Is(r, Changed(s, w, o), s.objs, s.up \ {f}, s.sta, s.tether, s.pdn, s.flt, s.modem, fw, q)
  <2>1. w \in Sta => s.fw[w][f] = 1
    BY DEF Core, FiltersOK
  <2> QED
    BY <1>1, <2>1, CleanFields DEF Changed
<1> HIDE DEF o, p, flt, fw, q
<1>4. /\ r \in Backhauls /\ r.wan = Changed(s, w, o) /\ r.objs = s.objs /\ r.up = s.up \ {f}
      /\ r.sta = s.sta /\ r.tether = s.tether /\ r.pdn = s.pdn /\ r.q = q
      /\ IF w \in Modem THEN r.flt = flt /\ r.modem = flt /\ r.fw = s.fw
                        ELSE r.flt = s.flt /\ r.modem = s.modem /\ r.fw = fw
  BY <1>3 DEF Is
<1>5. /\ r.wan[w] = o /\ o # NULL /\ \A v \in Wans : v # w => r.wan[v] = s.wan[v]
      /\ \A g \in F : Active(r, w, g) <=> g \in o.active
      /\ \A v \in Wans, g \in F : v # w => (Active(r, v, g) <=> Active(s, v, g))
  BY <1>1, <1>2, <1>4, OneChanges
<1>6. Stops(s, r, w, f)
  BY <1>1, <1>2, <1>5 DEF Active, Stops, p
<1>7. \A g \in F : Pdns(r, g) = Pdns(s, g)
  BY <1>1, <1>2, <1>5 DEF Pdns, Wans, p
<1>8. Disarmed(s, r, w, f)
  BY <1>4 DEF Disarmed, flt, fw
<1>9. FiltersOK(r)
  BY <1>1, <1>4, <1>6, <1>7, <1>8, FirewallRemoved DEF Core
<1>10. ObjsOK(r) /\ WansOK(r)
  BY <1>1, <1>2, <1>4, SameObjects DEF Core, p
<1>11. UpOK(r) /\ KindOK(r)
  <2>1. ASSUME NEW v \in Wans, NEW g \in F, Active(r, v, g)
        PROVE  Active(s, v, g) /\ g # f
    BY <1>6, <2>1 DEF Stops, Core, UpOK
  <2>2. ASSUME NEW v \in Wans, NEW g \in F, g # f, Active(s, v, g)
        PROVE  Active(r, v, g)
    BY <1>6, <2>2 DEF Stops
  <2>3. UpOK(r)
    BY <1>4, <2>1, <2>2 DEF UpOK, Core
  <2>4. KindOK(r)
    BY <1>4, <2>1 DEF KindOK, Core
  <2> QED
    BY <2>3, <2>4
<1>12. Cleaned(s, r, w, f)
  BY <1>2, <1>4, <1>5, <1>6, <1>7 DEF Cleaned, p
<1> QED
  BY <1>4, <1>9, <1>10, <1>11, <1>12 DEF Core, q

LEMMA CleanedFollows ==
    ASSUME NEW s, Core(s), NEW r, NEW w \in Wans, NEW f \in F, Active(s, w, f),
           Cleaned(s, r, w, f), r.q = Append(s.q, WanEvt("WAN_DOWN", f, w)),
           f = "v4" => NoNat(s)
    PROVE  Follows(s, r) /\ (NoUp(s) => NoUp(r)) /\ (f # "v4" /\ NoNat(s) => NoNat(r))
<1> DEFINE e == WanEvt("WAN_DOWN", f, w)
<1>1. e \in WanEvents /\ e.ev = "WAN_DOWN" /\ e.fam = f
  BY EventTypes DEF WanEvt
<1> HIDE DEF e
<1>2. e \in Events /\ r.q = Append(s.q, e) /\ s \in Backhauls
  BY <1>1 DEF Events, e, Core
<1>3. (\A n \in Nats : NatOK(s, n) => NatOK(r, n)) /\ (f # "v4" /\ NoNat(s) => NoNat(r))
  <2>1. CASE f = "v4"
    <3>1. IsNatEvt(e) /\ NoNat(s)
      BY <1>1, <2>1 DEF IsNatEvt
    <3>2. \A v \in Wans : ~Active(r, v, "v4")
      BY <2>1 DEF Core, UpOK, Cleaned, Stops
    <3> QED
      BY <1>1, <1>2, <2>1, <3>1, <3>2, NatTold
  <2>2. CASE f # "v4"
    <3>1. ~IsNatEvt(e)
      BY <1>1, <2>2 DEF IsNatEvt
    <3>2. \A v \in Wans : Active(r, v, "v4") <=> Active(s, v, "v4")
      BY <2>2 DEF Cleaned, Stops, F
    <3> QED
      BY <1>2, <3>1, <3>2, NatUntouched
  <2> QED
    BY <2>1, <2>2
<1>4. (\A l \in Lans : LansOK(s, l) => LansOK(r, l)) /\ (NoUp(s) => NoUp(r))
  <2>1. r.tether = s.tether /\ r.sta = s.sta
    BY DEF Cleaned
  <2> QED
    BY <1>1, <1>2, <2>1, LansUntouched
<1> QED
  BY <1>3, <1>4 DEF Follows

\* post_wan_down_tether_evt of an interface on the list.
LEMMA InterfaceLeaves ==
    ASSUME NEW s, Core(s), NEW w \in Wans, NEW f \in F, NEW t \in Tethers,
           Once(s.tether[f]), Holds(s.tether[f], t), NoUp(s), s.sta <=> w \in Sta,
           NEW r, r = post_wan_down_tether_evt(s, w, f, t)
    PROVE  /\ Core(r) /\ Follows(s, r) /\ NoUp(r) /\ (NoNat(s) => NoNat(r))
           /\ r.wan = s.wan /\ r.up = s.up /\ r.pdn = s.pdn /\ r.sta = s.sta /\ r.objs = s.objs
           /\ Once(r.tether[f])
           /\ \A y : Holds(r.tether[f], y) <=> Holds(s.tether[f], y) /\ y # t
           /\ \A g \in F : g # f => r.tether[g] = s.tether[g]
<1> DEFINE m == RemoveFirst(s.tether[f], t)
           tether == [s.tether EXCEPT ![f] = m]
           sta == w \in Sta
           q == Append(s.q, TetherEvt("WAN_DOWN_TETHER", f, t, sta))
<1>1. s \in Backhauls
  BY DEF Core
<1>2. Is(r, s.wan, s.objs, s.up, s.sta, tether, s.pdn, s.flt, s.modem, s.fw, q)
  BY <1>1, DownTetherFields
<1>3. s.tether \in [F -> Seq(Tethers)] /\ s.sta \in BOOLEAN
  BY <1>1, FieldTypes
<1>4. Once(m) /\ \A y : Holds(m, y) <=> Holds(s.tether[f], y) /\ y # t
  BY <1>3, RemoveFirstHolds
<1> HIDE DEF m
<1>5. tether[f] = m /\ \A g \in F : g # f => tether[g] = s.tether[g]
  BY <1>3
<1> HIDE DEF tether, q, sta
<1>6. /\ r \in Backhauls /\ r.wan = s.wan /\ r.objs = s.objs /\ r.up = s.up /\ r.sta = s.sta
      /\ r.tether = tether /\ r.pdn = s.pdn /\ r.flt = s.flt /\ r.modem = s.modem
      /\ r.fw = s.fw /\ r.q = q
  BY <1>2 DEF Is
<1>7. /\ \A v \in Wans, g \in F : Active(r, v, g) <=> Active(s, v, g)
      /\ \A g \in F : Pdns(r, g) = Pdns(s, g)
  BY <1>6 DEF Active, Pdns
<1>8. Core(r)
  <2>1. ObjsOK(r) /\ WansOK(r)
    BY <1>6 DEF Core, ObjsOK, WansOK
  <2>2. UpOK(r) /\ KindOK(r)
    BY <1>6, <1>7 DEF Core, UpOK, KindOK
  <2>3. FiltersOK(r)
    <3>1. \A g \in F : (\E v \in Modem : Active(r, v, g)) <=> (\E v \in Modem : Active(s, v, g))
      BY <1>7 DEF Wans
    <3>2. \A v \in Sta, g \in F : Active(r, v, g) <=> Active(s, v, g)
      BY <1>7 DEF Wans
    <3> QED
      BY <1>6, <1>7, <3>1, <3>2 DEF Core, FiltersOK
  <2> QED
    BY <1>6, <2>1, <2>2, <2>3 DEF Core
<1>9. Follows(s, r) /\ NoUp(r) /\ (NoNat(s) => NoNat(r))
  <2>1. sta \in BOOLEAN /\ s.sta = sta /\ r.sta = sta
    BY <1>3, <1>6 DEF sta
  <2>2. r.q = Append(s.q, TetherEvt("WAN_DOWN_TETHER", f, t, sta))
    BY <1>6 DEF q
  <2>3. Leaves(s, r, t, f)
    BY <1>4, <1>5, <1>6 DEF Leaves
  <2>4. \A v \in Wans : Active(r, v, "v4") <=> Active(s, v, "v4")
    BY <1>7 DEF F
  <2> QED
    BY <1>1, <2>1, <2>2, <2>3, <2>4, LeaveFollows
<1> QED
  BY <1>4, <1>5, <1>6, <1>8, <1>9

-----------------------------------------------------------------------------
(* A route is withdrawn. *)

Ungated(o, f) == [o EXCEPT !.gw_set = @ \ {f}]

LEMMA UngatedOK ==
    ASSUME NEW w \in Wans, NEW o \in WanObjects, WanOK(w, o), NEW g
    PROVE  /\ Ungated(o, g) \in WanObjects /\ WanOK(w, Ungated(o, g))
           /\ Ungated(o, g).active = o.active
           /\ \A f \in F : Usable(Ungated(o, g), f) <=> Usable(o, f)
<1> DEFINE p == Ungated(o, g)
<1>1. /\ p \in WanObjects /\ p.active = o.active
      /\ p.is_default_gateway = o.is_default_gateway /\ p.gw_set = o.gw_set \ {g}
      /\ p.header_partial = o.header_partial /\ p.neighbours = o.neighbours
      /\ p.v4 = o.v4 /\ p.num_dft_rt_v6 = o.num_dft_rt_v6
  BY DEF Ungated, WanObjects
<1> HIDE DEF p
<1>2. (\A f \in F : Usable(p, f) <=> Usable(o, f)) /\ IpType(p) = IpType(o)
  BY <1>1 DEF Usable, IpType
<1>3. p.active \subseteq F
  BY <1>1 DEF WanObjects
<1>4. WanOK(w, p)
  BY <1>1, <1>2, <1>3 DEF WanOK
<1> QED
  BY <1>1, <1>2, <1>4 DEF p

LEMMA ClearGwOK ==
    ASSUME NEW s, NEW rt \in Routes, BackhaulOK(s, rt), NEW w \in Wans, s.wan[w] # NULL,
           NEW f \in F, NEW r, r = clear_gw_set(s, w, f)
    PROVE  BackhaulOK(r, rt) /\ Quiet(s, r)
<1>1. CASE f # "v4"
  BY <1>1 DEF clear_gw_set, Quiet
<1>2. CASE f = "v4"
  <2> DEFINE p == s.wan[w]
             o == Ungated(p, f)
  <2>1. s \in Backhauls /\ p \in WanObjects /\ WanOK(w, p)
    BY FieldTypes DEF BackhaulOK, WansOK
  <2>2. /\ o \in WanObjects /\ WanOK(w, o) /\ o.active = p.active
        /\ \A g \in F : Usable(o, g) <=> Usable(p, g)
    BY <2>1, UngatedOK
  <2>3. r = With(s, Changed(s, w, o), s.objs, s.up, s.sta)
    BY <1>2, <2>1 DEF With, Backhauls, Changed, Ungated, clear_gw_set
  <2> HIDE DEF o, p
  <2>4. Is(r, Changed(s, w, o), s.objs, s.up, s.sta, s.tether, s.pdn, s.flt, s.modem, s.fw, s.q)
    BY <2>1, <2>2, <2>3, ChangedFields
  <2> QED
    BY <2>2, <2>4, ObjectChangesOK DEF p
<1> QED
  BY <1>1, <1>2

LEMMA EmptyList ==
    ASSUME NEW S, NEW l \in Seq(S)
    PROVE  l = <<>> <=> \A y : ~Holds(l, y)
<1>1. l # <<>> => Holds(l, l[1])
  BY DEF Holds
<1>2. ASSUME l = <<>>, NEW y PROVE ~Holds(l, y)
  BY <1>2 DEF Holds
<1> QED
  BY <1>1, <1>2

\* Counting goes by the objects.
LEMMA SamePdns ==
    ASSUME NEW s, NEW r, PdnOK(s), r.pdn = s.pdn, \A g \in F : Pdns(r, g) = Pdns(s, g)
    PROVE  PdnOK(r)
  BY DEF PdnOK

\* The route of an interface that uses the upstream.
LEMMA InterfaceRouteDel ==
    ASSUME NEW s, NEW rt \in Routes, BackhaulOK(s, rt), NEW w \in Wans, NEW t \in Tethers,
           NEW f \in F, Active(s, w, f), s.q = <<>>, Holds(s.tether[f], t),
           NEW d, d = post_wan_down_tether_evt(s, w, f, t),
           NEW r, r = IF d.tether[f] # <<>> THEN d ELSE clean_default_route(d, w, f)
    PROVE  BackhaulOK(r, Rerouted(rt, t, f, NULL)) /\ Follows(s, r)
<1> DEFINE rt2 == Rerouted(rt, t, f, NULL)
<1>1. s \in Backhauls /\ Core(s) /\ ListOK(s, rt) /\ PdnOK(s)
  BY DEF BackhaulOK, Core
<1>2. Once(s.tether[f]) /\ (s.sta <=> w \in Sta) /\ NoUp(s) /\ NoNat(s)
  BY <1>1 DEF ListOK, Core, KindOK, NoUp, NoNat
<1>3. /\ Core(d) /\ Follows(s, d) /\ NoUp(d) /\ (NoNat(s) => NoNat(d))
      /\ d.wan = s.wan /\ d.up = s.up /\ d.pdn = s.pdn /\ d.sta = s.sta /\ d.objs = s.objs
      /\ Once(d.tether[f])
      /\ \A y : Holds(d.tether[f], y) <=> Holds(s.tether[f], y) /\ y # t
      /\ \A g \in F : g # f => d.tether[g] = s.tether[g]
  BY <1>1, <1>2, InterfaceLeaves
<1>4. \A v \in Wans, g \in F : Active(d, v, g) <=> Active(s, v, g)
  BY <1>3 DEF Active
<1>5. PdnOK(d)
  <2>1. \A g \in F : Pdns(d, g) = Pdns(s, g)
    BY <1>3 DEF Pdns
  <2> QED
    BY <1>1, <1>3, <2>1, SamePdns
<1>6. \A u \in Tethers, g \in F : u # t \/ g # f => rt2[u][g] = rt[u][g]
  BY ReroutedFacts
<1> HIDE DEF rt2
<1>7. ASSUME NEW u \in Tethers, NEW g \in F, Holds(d.tether[g], u)
      PROVE  rt2[u][g] = rt[u][g] /\ Holds(s.tether[g], u)
  BY <1>3, <1>6, <1>7
<1>8. CASE d.tether[f] # <<>>
  <2>1. r = d
    BY <1>8
  <2>2. ListOK(d, rt2)
    <3>1. \A g \in F : Once(d.tether[g]) /\ (g \in d.up => d.tether[g] # <<>>)
      BY <1>1, <1>3, <1>8 DEF ListOK
    <3>2. ASSUME NEW u \in Tethers, NEW g \in F, Holds(d.tether[g], u)
          PROVE  rt2[u][g] \in Wans /\ Active(d, rt2[u][g], g)
      BY <1>1, <1>4, <1>7, <3>2 DEF ListOK
    <3> QED
      BY <3>1, <3>2 DEF ListOK
  <2>3. BackhaulOK(d, rt2)
    BY <1>3, <1>5, <2>2 DEF BackhaulOK, Core
  <2> QED
    BY <1>3, <2>1, <2>3 DEF rt2
<1>9. CASE d.tether[f] = <<>>
  <2>1. r = clean_default_route(d, w, f) /\ Active(d, w, f)
    BY <1>4, <1>9
  <2>2. Core(r) /\ Cleaned(d, r, w, f) /\ r.q = Append(d.q, WanEvt("WAN_DOWN", f, w))
    BY <1>3, <2>1, CleanedOK
  <2>3. Follows(d, r)
    BY <1>2, <1>3, <2>1, <2>2, CleanedFollows
  <2>4. r.tether = d.tether /\ r.up = d.up \ {f} /\ Stops(d, r, w, f)
    BY <2>2 DEF Cleaned
  <2>5. PdnOK(r)
    BY <1>5, <2>2, SamePdns DEF Cleaned
  <2>6. ListOK(r, rt2)
    <3>1. \A g \in F : Once(r.tether[g]) /\ (g \in r.up => r.tether[g] # <<>>)
      BY <1>1, <1>3, <2>4 DEF ListOK
    <3>2. ASSUME NEW u \in Tethers, NEW g \in F, Holds(r.tether[g], u)
          PROVE  rt2[u][g] \in Wans /\ Active(r, rt2[u][g], g)
      <4>1. g # f
        BY <1>9, <2>4, <3>2 DEF Holds
      <4>2. rt2[u][g] \in Wans /\ Active(d, rt2[u][g], g)
        BY <1>1, <1>4, <1>7, <2>4, <3>2 DEF ListOK
      <4> QED
        BY <2>4, <4>1, <4>2 DEF Stops
    <3> QED
      BY <3>1, <3>2 DEF ListOK
  <2>7. BackhaulOK(r, rt2)
    BY <2>2, <2>5, <2>6 DEF BackhaulOK, Core
  <2> QED
    BY <1>3, <2>3, <2>7, FollowsTrans DEF rt2
<1> QED
  BY <1>8, <1>9

\* WAN_UPSTREAM_ROUTE_DEL.
LEMMA RouteDelOK ==
    ASSUME NEW s, NEW rt \in Routes, BackhaulOK(s, rt), NEW t \in Tethers, NEW f \in F,
           rt[t][f] \in Wans, s.q = <<>>,
           NEW r, r = upstream_route_del_all(s, rt[t][f], t, f)
    PROVE  BackhaulOK(r, Rerouted(rt, t, f, NULL)) /\ Follows(s, r)
<1> DEFINE w == rt[t][f]
           rt2 == Rerouted(rt, t, f, NULL)
           u == upstream_route_del(s, w, w, t, f)
<1>1. s \in Backhauls /\ Once(s.objs) /\ (s.wan[w] # NULL <=> Holds(s.objs, w))
  BY DEF BackhaulOK, ObjsOK
<1>2. s.objs \in Seq(Wans)
  BY <1>1, FieldTypes
<1>3. r = IF Holds(s.objs, w) THEN u ELSE s
  BY <1>1, <1>2, DelToAll
<1>4. Holds(s.tether[f], t) => Active(s, w, f)
  BY DEF BackhaulOK, ListOK
<1>5. Follows(s, s)
  BY DEF Follows
<1>6. CASE ~Active(s, w, f)
  <2>1. r = s
    BY <1>3, <1>6 DEF upstream_route_del
  <2> QED
    BY <1>4, <1>5, <1>6, <2>1, RouteForgotten DEF Nats
<1>7. CASE Active(s, w, f)
  <2> DEFINE c == clear_gw_set(s, w, f)
             d == post_wan_down_tether_evt(c, w, f, t)
  <2>1. Holds(s.objs, w) /\ s.wan[w] # NULL
    BY <1>1, <1>7 DEF Active
  <2>2. r = IF d.tether[f] # <<>> THEN d ELSE clean_default_route(d, w, f)
    BY <1>3, <1>7, <2>1 DEF upstream_route_del
  <2>3. BackhaulOK(c, rt) /\ Quiet(s, c)
    BY <2>1, ClearGwOK
  <2>4. d = post_wan_down_tether_evt(c, w, f, t)
    OBVIOUS
  <2> HIDE DEF c, d, w
  <2>5. Active(c, w, f) /\ c.q = <<>> /\ c.tether = s.tether
    BY <1>7, <2>3 DEF Quiet, w
  <2>6. Follows(s, c)
    BY <1>1, <2>3, QuietFollows
  <2>7. w \in Wans
    BY DEF w
  <2>8. CASE Holds(c.tether[f], t)
    <3>1. BackhaulOK(r, rt2) /\ Follows(c, r)
      BY <2>2, <2>3, <2>4, <2>5, <2>7, <2>8, InterfaceRouteDel
    <3> QED
      BY <2>6, <3>1, FollowsTrans
  <2>9. CASE ~Holds(c.tether[f], t)
    <3>1. d = c
      BY <2>4, <2>9 DEF post_wan_down_tether_evt, Contains, Holds
    <3>2. c.tether[f] # <<>>
      BY <2>3, <2>5, <2>7 DEF BackhaulOK, UpOK, ListOK
    <3>3. r = c
      BY <2>2, <3>1, <3>2
    <3>4. BackhaulOK(c, rt2)
      BY <2>3, <2>9, RouteForgotten DEF Nats
    <3> QED
      BY <2>6, <3>3, <3>4
  <2> QED
    BY <2>8, <2>9
<1> QED
  BY <1>6, <1>7

-----------------------------------------------------------------------------
(* The link of a modem interface is lost: its interfaces leave one by one. *)

LEMMA DownTetherStays ==
    ASSUME NEW s \in Backhauls, NEW w \in Wans, NEW f \in F, NEW t \in Tethers,
           Once(s.tether[f]), NEW r, r = post_wan_down_tether_evt(s, w, f, t)
    PROVE  r \in Backhauls /\ Once(r.tether[f])
<1>1. CASE ~Holds(s.tether[f], t)
  <2>1. r = s
    BY <1>1 DEF post_wan_down_tether_evt, Contains, Holds
  <2> QED
    BY <2>1
<1>2. CASE Holds(s.tether[f], t)
  <2> DEFINE m == RemoveFirst(s.tether[f], t)
             tether == [s.tether EXCEPT ![f] = m]
             q == Append(s.q, TetherEvt("WAN_DOWN_TETHER", f, t, w \in Sta))
  <2>1. Is(r, s.wan, s.objs, s.up, s.sta, tether, s.pdn, s.flt, s.modem, s.fw, q)
    BY <1>2, DownTetherFields
  <2>2. s.tether \in [F -> Seq(Tethers)]
    BY FieldTypes
  <2>3. Once(m)
    BY <1>2, <2>2, RemoveFirstHolds
  <2> HIDE DEF m, q
  <2>4. tether[f] = m
    BY <2>2
  <2> HIDE DEF tether
  <2> QED
    BY <2>1, <2>3, <2>4 DEF Is
<1> QED
  BY <1>1, <1>2

\* s after the first n of the interfaces left.
Drained(s, x, f, n) ==
    /\ Core(x) /\ Follows(s, x) /\ NoUp(x) /\ (NoNat(s) => NoNat(x))
    /\ x.wan = s.wan /\ x.up = s.up /\ x.pdn = s.pdn /\ x.sta = s.sta /\ x.objs = s.objs
    /\ Once(x.tether[f])
    /\ \A y : Holds(x.tether[f], y) <=> \E i \in n + 1 .. Len(s.tether[f]) : s.tether[f][i] = y
    /\ \A g \in F : g # f => x.tether[g] = s.tether[g]

LEMMA DrainedStep ==
    ASSUME NEW s, Core(s), NEW w \in Wans, NEW f \in F, Once(s.tether[f]), s.sta <=> w \in Sta,
           NEW n \in 1 .. Len(s.tether[f]), NEW x, Drained(s, x, f, n - 1),
           NEW z, z = post_wan_down_tether_evt(x, w, f, s.tether[f][n])
    PROVE  Drained(s, z, f, n)
<1> DEFINE l == s.tether[f]
           t == l[n]
<1>1. l \in Seq(Tethers) /\ Len(l) \in Nat /\ t \in Tethers
  <2>1. s \in Backhauls
    BY DEF Core
  <2>2. l \in Seq(Tethers)
    BY <2>1, FieldTypes
  <2> QED
    BY <2>2
<1>2. /\ Core(x) /\ Follows(s, x) /\ NoUp(x) /\ (NoNat(s) => NoNat(x))
      /\ x.wan = s.wan /\ x.up = s.up /\ x.pdn = s.pdn /\ x.sta = s.sta /\ x.objs = s.objs
      /\ Once(x.tether[f])
      /\ \A y : Holds(x.tether[f], y) <=> \E i \in n - 1 + 1 .. Len(l) : l[i] = y
      /\ \A g \in F : g # f => x.tether[g] = s.tether[g]
  BY DEF Drained
<1>3. Holds(x.tether[f], t)
  <2>1. n \in n - 1 + 1 .. Len(l)
    BY <1>1
  <2> QED
    BY <1>2, <2>1
<1> HIDE DEF t
<1>4. z = post_wan_down_tether_evt(x, w, f, t)
  BY DEF t
<1>5. /\ Core(z) /\ Follows(x, z) /\ NoUp(z) /\ (NoNat(x) => NoNat(z))
      /\ z.wan = x.wan /\ z.up = x.up /\ z.pdn = x.pdn /\ z.sta = x.sta /\ z.objs = x.objs
      /\ Once(z.tether[f])
      /\ \A y : Holds(z.tether[f], y) <=> Holds(x.tether[f], y) /\ y # t
      /\ \A g \in F : g # f => z.tether[g] = x.tether[g]
  <2>1. x.sta <=> w \in Sta
    BY <1>2
  <2> QED
    BY <1>1, <1>2, <1>3, <1>4, <2>1, InterfaceLeaves
<1>6. ASSUME NEW y PROVE Holds(z.tether[f], y) <=> \E i \in n + 1 .. Len(l) : l[i] = y
  <2>1. (\E i \in n - 1 + 1 .. Len(l) : l[i] = y) /\ y # t <=> \E i \in n + 1 .. Len(l) : l[i] = y
    <3>1. Once(l)
      OBVIOUS
    <3> HIDE DEF l
    <3> QED
      BY <1>1, <3>1 DEF Once, t
  <2> QED
    BY <1>2, <1>5, <2>1
<1>7. Follows(s, z)
  BY <1>2, <1>5, FollowsTrans
<1> QED
  BY <1>2, <1>5, <1>6, <1>7 DEF Drained

LEMMA AllLeave ==
    ASSUME NEW s, Core(s), NEW w \in Wans, NEW f \in F, Once(s.tether[f]), s.sta <=> w \in Sta,
           NoUp(s), NEW r, r = post_wan_down_tether_all(s, w, f)
    PROVE  Drained(s, r, f, Len(s.tether[f])) /\ r.tether[f] = <<>>
<1> DEFINE l == s.tether[f]
           N == Len(l)
           G(h) == [n \in 0 .. N |-> IF n = 0 THEN s ELSE post_wan_down_tether_evt(h[n - 1], w, f, l[n])]
           at == CHOOSE h : h = G(h)
           S == {x \in Backhauls : Once(x.tether[f])}
           Inv == [n \in 0 .. N |-> {x \in Backhauls : Drained(s, x, f, n)}]
<1>1. s \in Backhauls
  BY DEF Core
<1>2. l \in Seq(Tethers) /\ N \in Nat /\ \A n \in 1 .. N : l[n] \in Tethers
  <2>1. l \in Seq(Tethers)
    BY <1>1, FieldTypes
  <2> QED
    BY <2>1
<1>3. r = at[N]
  BY DEF post_wan_down_tether_all
<1>4. \E h : h = G(h)
  <2> DEFINE round == [n \in 1 .. N |-> [x \in S |-> post_wan_down_tether_evt(x, w, f, l[n])]]
  <2>1. ASSUME NEW n \in 1 .. N, NEW x \in S PROVE post_wan_down_tether_evt(x, w, f, l[n]) \in S
    BY <1>2, DownTetherStays
  <2>2. round \in [1 .. N -> [S -> S]]
    BY <2>1
  <2>3. s \in S
    BY <1>1
  <2>4. PICK g \in [0 .. N -> S] : g[0] = s /\ \A n \in 1 .. N : g[n] = round[n][g[n - 1]]
    <3> HIDE DEF round, N, S
    <3>1. PICK g : IsLoop(g, N, S, s, round)
      BY <1>2, <2>2, <2>3, LoopExists
    <3> QED
      BY <3>1 DEF IsLoop
  <2>5. ASSUME NEW n \in 1 .. N PROVE g[n] = post_wan_down_tether_evt(g[n - 1], w, f, l[n])
    <3>1. g[n - 1] \in S
      BY <1>2, <2>4
    <3> HIDE DEF S
    <3> QED
      BY <2>4, <3>1
  <2> HIDE DEF S
  <2>6. g = G(g)
    BY <1>2, <2>4, <2>5
  <2> QED
    BY <2>6
<1>5. at = G(at)
  BY <1>4
<1> HIDE DEF at
<1>6. at[0] = s /\ \A n \in 1 .. N : at[n] = post_wan_down_tether_evt(at[n - 1], w, f, l[n])
  <2> HIDE DEF l
  <2>1. at[0] = s
    BY <1>2, <1>5
  <2>2. ASSUME NEW n \in 1 .. N PROVE at[n] = post_wan_down_tether_evt(at[n - 1], w, f, l[n])
    BY <1>2, <1>5
  <2> QED
    BY <2>1, <2>2
<1> HIDE DEF G, N
<1>7. at[0] \in Inv[0]
  <2>1. Follows(s, s)
    BY DEF Follows
  <2>2. \A y : Holds(l, y) <=> \E i \in 0 + 1 .. Len(l) : l[i] = y
    BY DEF Holds
  <2>3. Drained(s, s, f, 0)
    BY <2>1, <2>2 DEF Drained
  <2>4. 0 \in 0 .. N
    BY <1>2
  <2> QED
    BY <1>1, <1>6, <2>3, <2>4
<1>8. ASSUME NEW n \in 1 .. N, at[n - 1] \in Inv[n - 1] PROVE at[n] \in Inv[n]
  <2>1. n \in 0 .. N /\ n - 1 \in 0 .. N /\ n \in 1 .. Len(s.tether[f])
    BY <1>2 DEF N
  <2>2. Drained(s, at[n - 1], f, n - 1)
    BY <1>8, <2>1
  <2>3. Drained(s, at[n], f, n)
    BY <1>6, <2>1, <2>2, DrainedStep
  <2>4. at[n] \in Backhauls
    BY <2>3 DEF Drained, Core
  <2> QED
    BY <2>1, <2>3, <2>4
<1>9. at[N] \in Inv[N]
  <2> HIDE DEF Inv
  <2> QED
    BY <1>2, <1>7, <1>8, LoopInvariant
<1>10. Drained(s, r, f, N)
  BY <1>2, <1>3, <1>9
<1>11. r.tether[f] = <<>>
  <2>1. \A y : ~Holds(r.tether[f], y)
    <3>1. \A y : Holds(r.tether[f], y) <=> \E i \in N + 1 .. Len(l) : l[i] = y
      BY <1>10 DEF Drained
    <3> QED
      BY <1>2, <3>1 DEF N
  <2>2. r.tether[f] \in Seq(Tethers)
    BY <1>10, FieldTypes DEF Drained, Core
  <2> QED
    BY <2>1, <2>2, EmptyList
<1> QED
  BY <1>10, <1>11 DEF N

\* The same fields are the same value.
LEMMA IsUnique ==
    ASSUME NEW r, NEW u, NEW wan, NEW objs, NEW up, NEW sta, NEW tether, NEW pdn, NEW flt,
           NEW modem, NEW fw, NEW q,
           Is(r, wan, objs, up, sta, tether, pdn, flt, modem, fw, q),
           Is(u, wan, objs, up, sta, tether, pdn, flt, modem, fw, q)
    PROVE  r = u
<1>1. ASSUME NEW x, Is(x, wan, objs, up, sta, tether, pdn, flt, modem, fw, q)
      PROVE  x = [wan |-> wan, objs |-> objs, up |-> up, sta |-> sta, tether |-> tether,
                  pdn |-> pdn, flt |-> flt, modem |-> modem, fw |-> fw, q |-> q]
  <2>1. /\ x \in Backhauls
        /\ x.wan = wan /\ x.objs = objs /\ x.up = up /\ x.sta = sta /\ x.tether = tether
        /\ x.pdn = pdn /\ x.flt = flt /\ x.modem = modem /\ x.fw = fw /\ x.q = q
    BY <1>1 DEF Is
  <2>2. x = [wan |-> x.wan, objs |-> x.objs, up |-> x.up, sta |-> x.sta, tether |-> x.tether,
             pdn |-> x.pdn, flt |-> x.flt, modem |-> x.modem, fw |-> x.fw, q |-> x.q]
    BY <2>1 DEF Backhauls
  <2> QED
    BY <2>1, <2>2
<1> QED
  BY <1>1

\* wan_up is cleared before and by clean_default_route.
LEMMA CleanTwice ==
    ASSUME NEW s, Core(s), NEW w \in Wans, NEW f \in F, Active(s, w, f)
    PROVE  clean_default_route([s EXCEPT !.up = @ \ {f}], w, f) = clean_default_route(s, w, f)
<1> DEFINE x == [s EXCEPT !.up = @ \ {f}]
           u == clean_default_route(x, w, f)
           r == clean_default_route(s, w, f)
           wan == [s.wan EXCEPT ![w] = Left(s.wan[w], f)]
           flt == [s.flt EXCEPT ![f] = "default"]
           fw  == [s.fw EXCEPT ![w] = [s.fw[w] EXCEPT ![f] = 0]]
           q   == Append(s.q, WanEvt("WAN_DOWN", f, w))
<1>1. s \in Backhauls /\ (w \in Sta => s.fw[w][f] = 1)
  BY DEF Core, FiltersOK
<1>2. x = With(s, s.wan, s.objs, s.up \ {f}, s.sta)
  BY <1>1 DEF With, Backhauls
<1> HIDE DEF x
<1>3. Is(x, s.wan, s.objs, s.up \ {f}, s.sta, s.tether, s.pdn, s.flt, s.modem, s.fw, s.q)
  <2>1. /\ s.wan \in [Wans -> {NULL} \cup WanObjects] /\ s.objs \in Seq(Wans)
        /\ s.up \ {f} \in SUBSET F /\ s.sta \in BOOLEAN
    BY <1>1, FieldTypes
  <2> QED
    BY <1>1, <1>2, <2>1, WithFields
<1>4. x \in Backhauls /\ x.wan = s.wan /\ x.flt = s.flt /\ x.fw = s.fw /\ x.q = s.q
  BY <1>3 DEF Is
<1>5. Active(x, w, f) /\ (w \in Sta => x.fw[w][f] = 1)
  BY <1>1, <1>4 DEF Active
<1>6. x.up \ {f} = s.up \ {f}
  BY <1>3 DEF Is
<1> DEFINE xwan == [x.wan EXCEPT ![w] = Left(x.wan[w], f)]
           xflt == [x.flt EXCEPT ![f] = "default"]
           xfw == [x.fw EXCEPT ![w] = [x.fw[w] EXCEPT ![f] = 0]]
           xq == Append(x.q, WanEvt("WAN_DOWN", f, w))
<1>7. xwan = wan /\ xflt = flt /\ xfw = fw /\ xq = q
  BY <1>4
<1>8. IF w \in Modem
      THEN Is(u, xwan, x.objs, x.up \ {f}, x.sta, x.tether, x.pdn, xflt, xflt, x.fw, xq)
      ELSE Is(u, xwan, x.objs, x.up \ {f}, x.sta, x.tether, x.pdn, x.flt, x.modem, xfw, xq)
  BY <1>4, <1>5, CleanFields
<1>9. IF w \in Modem
      THEN Is(r, wan, s.objs, s.up \ {f}, s.sta, s.tether, s.pdn, flt, flt, s.fw, q)
      ELSE Is(r, wan, s.objs, s.up \ {f}, s.sta, s.tether, s.pdn, s.flt, s.modem, fw, q)
  BY <1>1, CleanFields
<1> HIDE DEF u, r, wan, flt, fw, q, xwan, xflt, xfw, xq
<1>10. x.objs = s.objs /\ x.sta = s.sta /\ x.tether = s.tether /\ x.pdn = s.pdn /\ x.modem = s.modem
  BY <1>3 DEF Is
<1>11. IF w \in Modem
       THEN Is(u, wan, s.objs, s.up \ {f}, s.sta, s.tether, s.pdn, flt, flt, s.fw, q)
       ELSE Is(u, wan, s.objs, s.up \ {f}, s.sta, s.tether, s.pdn, s.flt, s.modem, fw, q)
  BY <1>4, <1>6, <1>7, <1>8, <1>10
<1>12. CASE w \in Modem
  <2>1. Is(u, wan, s.objs, s.up \ {f}, s.sta, s.tether, s.pdn, flt, flt, s.fw, q)
    BY <1>11, <1>12
  <2>2. Is(r, wan, s.objs, s.up \ {f}, s.sta, s.tether, s.pdn, flt, flt, s.fw, q)
    BY <1>9, <1>12
  <2>3. u = r
    BY <2>1, <2>2, IsUnique
  <2> QED
    BY <2>3 DEF u, r, x
<1>13. CASE w \notin Modem
  <2>1. Is(u, wan, s.objs, s.up \ {f}, s.sta, s.tether, s.pdn, s.flt, s.modem, fw, q)
    BY <1>11, <1>13
  <2>2. Is(r, wan, s.objs, s.up \ {f}, s.sta, s.tether, s.pdn, s.flt, s.modem, fw, q)
    BY <1>9, <1>13
  <2>3. u = r
    BY <2>1, <2>2, IsUnique
  <2> QED
    BY <2>3 DEF u, r, x
<1> QED
  BY <1>12, <1>13

\* One family of an object whose link is lost.
LeaveFam(s, w, f) == post_wan_down_tether_all(clean_default_route([s EXCEPT !.up = @ \ {f}], w, f), w, f)

Gone(s, r, w, f) ==
    /\ r.pdn = s.pdn /\ r.objs = s.objs /\ r.wan[w] # NULL
    /\ IpType(r.wan[w]) = IpType(s.wan[w]) /\ Stops(s, r, w, f)
    /\ \A g \in F : Pdns(r, g) = Pdns(s, g)
    /\ Follows(s, r) /\ NoUp(r) /\ (f # "v4" /\ NoNat(s) => NoNat(r))

LEMMA LeaveFamOK ==
    ASSUME NEW s, Core(s), NEW rt \in Routes, ListOK(s, rt), NEW w \in Wans, NEW f \in F,
           Active(s, w, f), NoUp(s), f = "v4" => NoNat(s), NEW r, r = LeaveFam(s, w, f)
    PROVE  Core(r) /\ ListOK(r, rt) /\ Gone(s, r, w, f)
<1> DEFINE c == clean_default_route(s, w, f)
<1>1. r = post_wan_down_tether_all(c, w, f)
  <2>1. r = post_wan_down_tether_all(clean_default_route([s EXCEPT !.up = @ \ {f}], w, f), w, f)
    BY DEF LeaveFam
  <2>2. clean_default_route([s EXCEPT !.up = @ \ {f}], w, f) = c
    BY CleanTwice
  <2> QED
    BY <2>1, <2>2
<1>2. Core(c) /\ Cleaned(s, c, w, f) /\ c.q = Append(s.q, WanEvt("WAN_DOWN", f, w))
  BY CleanedOK
<1> HIDE DEF c
<1>3. Follows(s, c) /\ NoUp(c) /\ (f # "v4" /\ NoNat(s) => NoNat(c))
  BY <1>2, CleanedFollows
<1>4. Once(c.tether[f]) /\ (c.sta <=> w \in Sta)
  BY <1>2 DEF Cleaned, ListOK, Core, KindOK
<1>5. Drained(c, r, f, Len(c.tether[f])) /\ r.tether[f] = <<>>
  BY <1>1, <1>2, <1>3, <1>4, AllLeave
<1>6. /\ Core(r) /\ Follows(c, r) /\ NoUp(r) /\ (NoNat(c) => NoNat(r))
      /\ r.wan = c.wan /\ r.up = c.up /\ r.pdn = c.pdn /\ r.objs = c.objs /\ r.sta = c.sta
      /\ \A g \in F : g # f => r.tether[g] = c.tether[g]
  BY <1>5 DEF Drained
<1>7. Follows(s, r)
  BY <1>3, <1>6, FollowsTrans
<1>8. /\ \A v \in Wans, g \in F : Active(r, v, g) <=> Active(c, v, g)
      /\ \A g \in F : Pdns(r, g) = Pdns(c, g)
  BY <1>6 DEF Active, Pdns
<1>9. Stops(s, r, w, f)
  BY <1>2, <1>8 DEF Cleaned, Stops
<1>10. Gone(s, r, w, f)
  BY <1>2, <1>3, <1>6, <1>7, <1>8, <1>9 DEF Gone, Cleaned
<1>11. ListOK(r, rt)
  <2>1. r.up = s.up \ {f} /\ \A g \in F : g # f => r.tether[g] = s.tether[g]
    BY <1>2, <1>6 DEF Cleaned
  <2>2. ASSUME NEW g \in F
        PROVE  /\ Once(r.tether[g])
               /\ \A t \in Tethers : Holds(r.tether[g], t) =>
                    rt[t][g] \in Wans /\ Active(r, rt[t][g], g)
               /\ g \in r.up => r.tether[g] # <<>>
    <3>1. CASE g = f
      BY <1>5, <2>1, <3>1 DEF Once, Holds
    <3>2. CASE g # f
      BY <1>9, <2>1, <3>2 DEF ListOK, Stops
    <3> QED
      BY <3>1, <3>2
  <2> QED
    BY <2>2 DEF ListOK
<1> QED
  BY <1>6, <1>10, <1>11

-----------------------------------------------------------------------------
(* The parts of handle_down_evt_ex. *)

Uncounted(s, w) ==
    [s EXCEPT !.pdn = [f \in F |-> IF f \in {g \in F : Usable(s.wan[w], g)} THEN @[f] - 1 ELSE @[f]]]

LeaveBoth(s, w, fams) ==
    LET t == IF "v4" \in fams THEN LeaveFam(s, w, "v4") ELSE s
    IN  IF "v6" \in fams THEN LeaveFam(t, w, "v6") ELSE t

Deleted(s, fams) ==
    LET t == IF "v4" \in fams THEN delete_default_rules(s, "v4") ELSE s
    IN  IF "v6" \in fams THEN delete_default_rules(t, "v6") ELSE t

LEMMA DownParts ==
    ASSUME NEW s, NEW w
    PROVE  LET fams == IpType(s.wan[w]) IN
           handle_down_evt_ex(s, w) =
             Deleted(IF s.wan[w].is_default_gateway THEN LeaveBoth(Uncounted(s, w), w, fams)
                     ELSE Uncounted(s, w), fams)
  BY DEF handle_down_evt_ex, ForFam, Deleted, LeaveBoth, LeaveFam, Uncounted

\* The counters no longer count the object.
PdnGone(s, w) ==
    \A f \in F : /\ IsFiniteSet(Pdns(s, f) \ {w})
                 /\ s.pdn[f] = Cardinality(Pdns(s, f) \ {w})

LEMMA UncountedOK ==
    ASSUME NEW s, NEW rt \in Routes, BackhaulOK(s, rt), NEW w \in Modem, s.wan[w] # NULL,
           NEW r, r = Uncounted(s, w)
    PROVE  Core(r) /\ ListOK(r, rt) /\ PdnGone(r, w) /\ Quiet(s, r) /\ r.wan = s.wan
<1> DEFINE c(f) == Cardinality(Pdns(s, f) \ {w})
           U == {g \in F : Usable(s.wan[w], g)}
           pdn == [f \in F |-> IF f \in U THEN s.pdn[f] - 1 ELSE s.pdn[f]]
<1>1. s \in Backhauls /\ s.pdn \in [F -> Nat]
  BY FieldTypes DEF BackhaulOK
<1>2. ASSUME NEW f \in F
      PROVE  IsFiniteSet(Pdns(s, f) \ {w}) /\ pdn[f] = c(f) /\ c(f) \in Nat
  <2>1. IsFiniteSet(Pdns(s, f)) /\ s.pdn[f] = Cardinality(Pdns(s, f))
    BY DEF BackhaulOK, PdnOK
  <2>2. /\ IsFiniteSet(Pdns(s, f) \ {w})
        /\ c(f) = IF w \in Pdns(s, f) THEN Cardinality(Pdns(s, f)) - 1 ELSE Cardinality(Pdns(s, f))
    BY <2>1, FS_RemoveElement
  <2>3. c(f) \in Nat
    BY <2>2, FS_CardinalityType
  <2>4. w \in Pdns(s, f) <=> f \in U
    BY DEF Pdns
  <2> HIDE DEF U, c
  <2>5. pdn[f] = IF f \in U THEN s.pdn[f] - 1 ELSE s.pdn[f]
    OBVIOUS
  <2> QED
    BY <2>1, <2>2, <2>3, <2>4, <2>5
<1>3. pdn \in [F -> Nat]
  <2>1. \A f \in F : pdn[f] \in Nat
    BY <1>2
  <2> HIDE DEF U
  <2> QED
    BY <2>1
<1>4. r = [s EXCEPT !.pdn = pdn]
  BY DEF Uncounted
<1> HIDE DEF U, pdn
<1>5. r \in Backhauls
  BY <1>1, <1>3, <1>4 DEF Backhauls
<1>6. /\ r.wan = s.wan /\ r.objs = s.objs /\ r.up = s.up /\ r.sta = s.sta /\ r.tether = s.tether
      /\ r.flt = s.flt /\ r.modem = s.modem /\ r.fw = s.fw /\ r.q = s.q /\ r.pdn = pdn
  BY <1>1, <1>4 DEF Backhauls
<1>7. /\ \A v \in Wans, g \in F : Active(r, v, g) <=> Active(s, v, g)
      /\ \A g \in F : Pdns(r, g) = Pdns(s, g)
  BY <1>6 DEF Active, Pdns
<1>8. UpOK(r) /\ ListOK(r, rt) /\ KindOK(r)
  BY <1>1, <1>5, <1>6, <1>7, SameUpstreams DEF BackhaulOK
<1>9. ObjsOK(r) /\ WansOK(r)
  BY <1>6 DEF BackhaulOK, ObjsOK, WansOK
<1>10. FiltersOK(r)
  <2>1. \A g \in F : (\E v \in Modem : Active(r, v, g)) <=> (\E v \in Modem : Active(s, v, g))
    BY <1>7 DEF Wans
  <2>2. \A v \in Sta, g \in F : Active(r, v, g) <=> Active(s, v, g)
    BY <1>7 DEF Wans
  <2> QED
    BY <1>6, <1>7, <2>1, <2>2 DEF BackhaulOK, FiltersOK
<1>11. PdnGone(r, w)
  BY <1>2, <1>6, <1>7 DEF PdnGone
<1>12. Quiet(s, r)
  BY <1>6, <1>7 DEF Quiet
<1> QED
  BY <1>5, <1>6, <1>8, <1>9, <1>10, <1>11, <1>12 DEF Core

LEMMA SamePdnGone ==
    ASSUME NEW s, NEW r, NEW w, PdnGone(s, w), r.pdn = s.pdn, \A g \in F : Pdns(r, g) = Pdns(s, g)
    PROVE  PdnGone(r, w)
  BY DEF PdnGone

LEMMA LeaveBothOK ==
    ASSUME NEW s, Core(s), NEW rt \in Routes, ListOK(s, rt), NEW w \in Wans, s.wan[w] # NULL,
           PdnGone(s, w), NoUp(s), NoNat(s),
           s.wan[w].active = IpType(s.wan[w]),
           NEW r, r = LeaveBoth(s, w, IpType(s.wan[w]))
    PROVE  /\ Core(r) /\ ListOK(r, rt) /\ PdnGone(r, w) /\ Follows(s, r)
           /\ \A f \in F : ~Active(r, w, f)
           /\ r.wan[w] # NULL /\ IpType(r.wan[w]) = IpType(s.wan[w])
<1> DEFINE fams == IpType(s.wan[w])
           t == IF "v4" \in fams THEN LeaveFam(s, w, "v4") ELSE s
<1>1. r = IF "v6" \in fams THEN LeaveFam(t, w, "v6") ELSE t
  BY DEF LeaveBoth
<1>2. \A f \in F : Active(s, w, f) <=> f \in fams
  BY DEF Active
<1>3. Follows(s, s)
  BY DEF Follows
<1>4. "v4" \in F /\ "v6" \in F
  BY DEF F
<1>5. /\ Core(t) /\ ListOK(t, rt) /\ PdnGone(t, w) /\ Follows(s, t) /\ NoUp(t)
      /\ ~Active(t, w, "v4") /\ (Active(t, w, "v6") <=> "v6" \in fams)
      /\ t.wan[w] # NULL /\ IpType(t.wan[w]) = fams
  <2>1. CASE "v4" \in fams
    <3>1. t = LeaveFam(s, w, "v4")
      BY <2>1
    <3> HIDE DEF t
    <3>2. Core(t) /\ ListOK(t, rt) /\ Gone(s, t, w, "v4")
      BY <1>2, <1>4, <2>1, <3>1, LeaveFamOK
    <3>3. PdnGone(t, w)
      BY <3>2, SamePdnGone DEF Gone
    <3>4. ~Active(t, w, "v4") /\ (Active(t, w, "v6") <=> "v6" \in fams)
      BY <1>2, <1>4, <3>2 DEF Gone, Stops
    <3> QED
      BY <3>2, <3>3, <3>4 DEF Gone
  <2>2. CASE "v4" \notin fams
    BY <1>2, <1>3, <1>4, <2>2
  <2> QED
    BY <2>1, <2>2
<1> HIDE DEF t
<1>6. CASE "v6" \in fams
  <2>1. r = LeaveFam(t, w, "v6")
    BY <1>1, <1>6
  <2>2. Core(r) /\ ListOK(r, rt) /\ Gone(t, r, w, "v6")
    BY <1>4, <1>5, <1>6, <2>1, LeaveFamOK
  <2>3. PdnGone(r, w)
    BY <1>5, <2>2, SamePdnGone DEF Gone
  <2>4. \A f \in F : ~Active(r, w, f)
    BY <1>5, <2>2 DEF Gone, Stops, F
  <2>5. Follows(s, r)
    <3>1. Follows(t, r)
      BY <2>2 DEF Gone
    <3> QED
      BY <1>5, <3>1, FollowsTrans
  <2> QED
    BY <1>5, <2>2, <2>3, <2>4, <2>5 DEF Gone
<1>7. CASE "v6" \notin fams
  BY <1>1, <1>5, <1>7 DEF F
<1> QED
  BY <1>6, <1>7

LEMMA DeleteFields ==
    ASSUME NEW s \in Backhauls, NEW f \in F, s.modem = s.flt
    PROVE  LET flt == [s.flt EXCEPT ![f] = IF s.pdn[f] = 0 THEN "none" ELSE s.flt[f]] IN
           Is(delete_default_rules(s, f), s.wan, s.objs, s.up, s.sta, s.tether, s.pdn,
              flt, flt, s.fw, s.q)
<1> DEFINE flt == [s.flt EXCEPT ![f] = IF s.pdn[f] = 0 THEN "none" ELSE s.flt[f]]
<1>1. s.flt \in [F -> Filters] /\ "none" \in Filters
  BY FieldTypes DEF Filters
<1>2. CASE s.pdn[f] = 0
  <2>1. delete_default_rules(s, f) = install_wan_filtering_rule([s EXCEPT !.flt[f] = "none"])
    BY <1>2 DEF delete_default_rules
  <2>2. flt = [s.flt EXCEPT ![f] = "none"]
    BY <1>2
  <2> QED
    BY <1>1, <2>1, <2>2, FilterFields
<1>3. CASE s.pdn[f] # 0
  <2>1. delete_default_rules(s, f) = s
    BY <1>3 DEF delete_default_rules
  <2>2. flt = s.flt
    BY <1>1, <1>3
  <2>3. Is(s, s.wan, s.objs, s.up, s.sta, s.tether, s.pdn, s.flt, s.flt, s.fw, s.q)
    BY DEF Is
  <2> QED
    BY <2>1, <2>2, <2>3
<1> QED
  BY <1>2, <1>3

\* Only filters change, where nothing is counted.
Thinned(s, r, fams) ==
    /\ r \in Backhauls /\ r.wan = s.wan /\ r.objs = s.objs /\ r.up = s.up /\ r.sta = s.sta
    /\ r.tether = s.tether /\ r.pdn = s.pdn /\ r.fw = s.fw /\ r.q = s.q /\ r.modem = r.flt
    /\ \A f \in F : r.flt[f] = IF f \in fams /\ s.pdn[f] = 0 THEN "none" ELSE s.flt[f]

LEMMA DeletedFields ==
    ASSUME NEW s \in Backhauls, s.modem = s.flt, NEW fams
    PROVE  Thinned(s, Deleted(s, fams), fams)
<1> DEFINE t == IF "v4" \in fams THEN delete_default_rules(s, "v4") ELSE s
           r == Deleted(s, fams)
<1>1. r = IF "v6" \in fams THEN delete_default_rules(t, "v6") ELSE t
  BY DEF Deleted
<1>2. ASSUME NEW x \in Backhauls, x.modem = x.flt, NEW f \in F
      PROVE  Thinned(x, delete_default_rules(x, f), {f})
  <2> DEFINE flt == [x.flt EXCEPT ![f] = IF x.pdn[f] = 0 THEN "none" ELSE x.flt[f]]
             z == delete_default_rules(x, f)
  <2>1. Is(z, x.wan, x.objs, x.up, x.sta, x.tether, x.pdn, flt, flt, x.fw, x.q)
    BY <1>2, DeleteFields
  <2>2. x.flt \in [F -> Filters]
    BY FieldTypes
  <2>3. \A g \in F : flt[g] = IF g \in {f} /\ x.pdn[g] = 0 THEN "none" ELSE x.flt[g]
    BY <2>2
  <2> HIDE DEF flt, z
  <2> QED
    BY <2>1, <2>3 DEF Is, Thinned, z
<1>3. Thinned(s, t, fams \cap {"v4"})
  <2>1. CASE "v4" \in fams
    BY <1>2, <2>1 DEF F, Thinned
  <2>2. CASE "v4" \notin fams
    BY <2>2 DEF Thinned
  <2> QED
    BY <2>1, <2>2
<1> HIDE DEF t
<1>4. CASE "v6" \in fams
  <2>1. t \in Backhauls /\ t.modem = t.flt /\ "v6" \in F
    BY <1>3 DEF Thinned, F
  <2>2. Thinned(t, r, {"v6"})
    BY <1>1, <1>2, <1>4, <2>1
  <2> QED
    BY <1>3, <1>4, <2>2 DEF Thinned, F
<1>5. CASE "v6" \notin fams
  BY <1>1, <1>3, <1>5 DEF Thinned, F
<1> QED
  BY <1>4, <1>5

FiltersGone(s, w) ==
    /\ s.modem = s.flt
    /\ \A f \in F : s.flt[f] = IF \E v \in Modem : Active(s, v, f) THEN "firewall"
                               ELSE IF Pdns(s, f) \ {w} # {} THEN "default" ELSE "none"
    /\ \A v \in Sta, f \in F : s.fw[v][f] = IF Active(s, v, f) THEN 1 ELSE 0

\* An object that nothing depends on any more.
Downed(s, rt, w) ==
    /\ s \in Backhauls /\ ObjsOK(s) /\ WansOK(s) /\ UpOK(s) /\ ListOK(s, rt) /\ KindOK(s)
    /\ PdnGone(s, w) /\ FiltersGone(s, w)
    /\ s.wan[w] # NULL /\ \A f \in F : ~Active(s, w, f)

LEMMA UsableIsTyped ==
    ASSUME NEW o \in WanObjects, NEW f \in F, Usable(o, f)
    PROVE  f \in IpType(o)
<1>1. o.num_dft_rt_v6 \in 0 .. 2
  BY DEF WanObjects, MAX_DEFAULT_v6_ROUTE_RULES
<1> QED
  BY <1>1 DEF Usable, IpType, F, MAX_DEFAULT_v6_ROUTE_RULES

LEMMA ActiveIsTyped ==
    ASSUME NEW w, NEW o \in WanObjects, WanOK(w, o)
    PROVE  o.active \subseteq IpType(o)
<1>1. SUFFICES ASSUME NEW f \in o.active PROVE f \in IpType(o)
  OBVIOUS
<1>2. f \in F
  BY <1>1 DEF WanObjects
<1>3. Usable(o, f)
  BY <1>1 DEF WanOK
<1> QED
  BY <1>2, <1>3, UsableIsTyped

LEMMA DeletedOK ==
    ASSUME NEW s, Core(s), NEW rt \in Routes, ListOK(s, rt), NEW w \in Modem, s.wan[w] # NULL,
           PdnGone(s, w), \A f \in F : ~Active(s, w, f),
           NEW r, r = Deleted(s, IpType(s.wan[w]))
    PROVE  Downed(r, rt, w) /\ Quiet(s, r)
<1> DEFINE fams == IpType(s.wan[w])
<1>1. s \in Backhauls /\ s.modem = s.flt /\ w \in Wans
  BY DEF Core, FiltersOK, Wans
<1>2. Thinned(s, r, fams)
  BY <1>1, DeletedFields
<1> HIDE DEF fams
<1>3. /\ r \in Backhauls /\ r.wan = s.wan /\ r.objs = s.objs /\ r.up = s.up /\ r.sta = s.sta
      /\ r.tether = s.tether /\ r.pdn = s.pdn /\ r.fw = s.fw /\ r.q = s.q /\ r.modem = r.flt
      /\ \A f \in F : r.flt[f] = IF f \in fams /\ s.pdn[f] = 0 THEN "none" ELSE s.flt[f]
  BY <1>2 DEF Thinned
<1>4. /\ \A v \in Wans, g \in F : Active(r, v, g) <=> Active(s, v, g)
      /\ \A g \in F : Pdns(r, g) = Pdns(s, g)
  BY <1>3 DEF Active, Pdns
<1>5. UpOK(r) /\ ListOK(r, rt) /\ KindOK(r)
  BY <1>1, <1>3, <1>4, SameUpstreams DEF Core
<1>6. ObjsOK(r) /\ WansOK(r)
  BY <1>3 DEF Core, ObjsOK, WansOK
<1>7. PdnGone(r, w)
  BY <1>3, <1>4, SamePdnGone
<1>8. ASSUME NEW f \in F
      PROVE  r.flt[f] = IF \E v \in Modem : Active(r, v, f) THEN "firewall"
                        ELSE IF Pdns(r, f) \ {w} # {} THEN "default" ELSE "none"
  <2>1. r.flt[f] = IF f \in fams /\ s.pdn[f] = 0 THEN "none" ELSE s.flt[f]
    BY <1>3
  <2>2. (\E v \in Modem : Active(r, v, f)) <=> (\E v \in Modem : Active(s, v, f))
    BY <1>4 DEF Wans
  <2>3. Pdns(r, f) = Pdns(s, f)
    BY <1>4
  <2>4. s.flt[f] = IF \E v \in Modem : Active(s, v, f) THEN "firewall"
                   ELSE IF Pdns(s, f) # {} THEN "default" ELSE "none"
    BY DEF Core, FiltersOK
  <2>5. s.pdn[f] = 0 <=> Pdns(s, f) \ {w} = {}
    <3>1. IsFiniteSet(Pdns(s, f) \ {w}) /\ s.pdn[f] = Cardinality(Pdns(s, f) \ {w})
      BY DEF PdnGone
    <3> QED
      BY <3>1, FS_EmptySet
  <2>6. (\E v \in Modem : Active(s, v, f)) => Pdns(s, f) \ {w} # {}
    BY DEF Active, Core, WansOK, WanOK, Pdns, Wans
  <2>7. f \notin fams => w \notin Pdns(s, f)
    <3>1. s.wan[w] \in WanObjects
      BY <1>1, FieldTypes
    <3> QED
      BY <3>1, UsableIsTyped DEF Pdns, fams
  <2>8. CASE f \in fams
    BY <2>1, <2>2, <2>3, <2>4, <2>5, <2>6, <2>8
  <2>9. CASE f \notin fams
    <3>1. Pdns(s, f) \ {w} = Pdns(s, f)
      BY <2>7, <2>9
    <3> QED
      BY <2>1, <2>2, <2>3, <2>4, <2>9, <3>1
  <2> QED
    BY <2>8, <2>9
<1>9. \A v \in Sta, f \in F : r.fw[v][f] = IF Active(r, v, f) THEN 1 ELSE 0
  <2>1. \A v \in Sta, g \in F : Active(r, v, g) <=> Active(s, v, g)
    BY <1>4 DEF Wans
  <2> QED
    BY <1>3, <2>1 DEF Core, FiltersOK
<1>10. FiltersGone(r, w)
  BY <1>3, <1>8, <1>9 DEF FiltersGone
<1>11. r.wan[w] # NULL /\ \A f \in F : ~Active(r, w, f)
  BY <1>1, <1>3, <1>4
<1> QED
  BY <1>3, <1>4, <1>5, <1>6, <1>7, <1>10, <1>11 DEF Downed, Quiet

\* The object is deleted.
Removed(s, w) == [s EXCEPT !.wan[w] = NULL, !.objs = RemoveFirst(@, w)]

LEMMA RemovedOK ==
    ASSUME NEW s, NEW rt \in Routes, NEW w \in Wans, Downed(s, rt, w), NEW r, r = Removed(s, w)
    PROVE  BackhaulOK(r, rt) /\ Quiet(s, r)
<1> DEFINE wan == [s.wan EXCEPT ![w] = NULL]
           objs == RemoveFirst(s.objs, w)
<1>1. s \in Backhauls /\ Once(s.objs) /\ Holds(s.objs, w)
  BY DEF Downed, ObjsOK
<1>2. /\ s.wan \in [Wans -> {NULL} \cup WanObjects] /\ s.objs \in Seq(Wans)
      /\ s.up \in SUBSET F /\ s.sta \in BOOLEAN
  BY <1>1, FieldTypes
<1>3. wan \in [Wans -> {NULL} \cup WanObjects]
  BY <1>2
<1>4. objs \in Seq(Wans) /\ Once(objs) /\ \A y : Holds(objs, y) <=> Holds(s.objs, y) /\ y # w
  BY <1>1, <1>2, RemoveFirstHolds
<1>5. r = With(s, wan, objs, s.up, s.sta)
  BY <1>1 DEF Removed, With, Backhauls
<1>6. wan[w] = NULL /\ \A v \in Wans : v # w => wan[v] = s.wan[v]
  BY <1>2
<1> HIDE DEF wan, objs
<1>7. Is(r, wan, objs, s.up, s.sta, s.tether, s.pdn, s.flt, s.modem, s.fw, s.q)
  BY <1>1, <1>2, <1>3, <1>4, <1>5, WithFields
<1>8. /\ r \in Backhauls /\ r.wan = wan /\ r.objs = objs /\ r.up = s.up /\ r.sta = s.sta
      /\ r.tether = s.tether /\ r.pdn = s.pdn /\ r.flt = s.flt /\ r.modem = s.modem
      /\ r.fw = s.fw /\ r.q = s.q
  BY <1>7 DEF Is
<1>9. \A v \in Wans, g \in F : Active(r, v, g) <=> Active(s, v, g)
  BY <1>6, <1>8 DEF Active, Downed
<1>10. \A g \in F : Pdns(r, g) = Pdns(s, g) \ {w}
  BY <1>6, <1>8 DEF Pdns, Wans
<1>11. UpOK(r) /\ ListOK(r, rt) /\ KindOK(r)
  BY <1>1, <1>8, <1>9, SameUpstreams DEF Downed
<1>12. ObjsOK(r)
  BY <1>4, <1>6, <1>8 DEF Downed, ObjsOK
<1>13. WansOK(r)
  BY <1>6, <1>8 DEF Downed, WansOK
<1>14. PdnOK(r)
  BY <1>8, <1>10 DEF Downed, PdnGone, PdnOK
<1>15. FiltersOK(r)
  <2>1. \A g \in F : (\E v \in Modem : Active(r, v, g)) <=> (\E v \in Modem : Active(s, v, g))
    BY <1>9 DEF Wans
  <2>2. \A v \in Sta, g \in F : Active(r, v, g) <=> Active(s, v, g)
    BY <1>9 DEF Wans
  <2> QED
    BY <1>8, <1>10, <2>1, <2>2 DEF Downed, FiltersGone, FiltersOK
<1> QED
  BY <1>8, <1>9, <1>11, <1>12, <1>13, <1>14, <1>15 DEF BackhaulOK, Quiet

\* handle_down_evt_ex of a modem that is the upstream of all its families or of none.
LEMMA ModemDownOK ==
    ASSUME NEW s, NEW rt \in Routes, BackhaulOK(s, rt), s.q = <<>>, NEW w \in Modem,
           s.wan[w] # NULL, s.wan[w].active \in {{}, Fam[w]},
           NEW r, r = handle_down_evt_ex(s, w)
    PROVE  Downed(r, rt, w) /\ Follows(s, r)
<1> DEFINE o == s.wan[w]
           fams == IpType(o)
           x == Uncounted(s, w)
           y == IF o.is_default_gateway THEN LeaveBoth(x, w, fams) ELSE x
<1>1. s \in Backhauls /\ w \in Wans /\ o \in WanObjects /\ WanOK(w, o)
  BY FieldTypes DEF BackhaulOK, WansOK, Wans
<1>2. r = Deleted(y, fams)
  BY DownParts
<1>3. Core(x) /\ ListOK(x, rt) /\ PdnGone(x, w) /\ Quiet(s, x) /\ x.wan = s.wan
  BY UncountedOK
<1> HIDE DEF x
<1>4. NoUp(x) /\ NoNat(x) /\ Follows(s, x)
  BY <1>1, <1>3, QuietFollows DEF Quiet, NoUp, NoNat
<1>5. /\ Core(y) /\ ListOK(y, rt) /\ PdnGone(y, w) /\ Follows(s, y)
      /\ \A f \in F : ~Active(y, w, f)
      /\ y.wan[w] # NULL /\ IpType(y.wan[w]) = fams
  <2>1. CASE o.is_default_gateway
    <3>1. o.active = Fam[w] /\ fams \subseteq Fam[w]
      BY <1>1, <2>1 DEF WanOK
    <3>2. o.active \subseteq fams
      BY <1>1, ActiveIsTyped
    <3>3. x.wan[w].active = IpType(x.wan[w]) /\ x.wan[w] # NULL /\ IpType(x.wan[w]) = fams
      <4>1. o.active = fams
        BY <3>1, <3>2
      <4>2. x.wan[w] = o
        BY <1>3
      <4> QED
        BY <4>1, <4>2
    <3>4. y = LeaveBoth(x, w, IpType(x.wan[w]))
      BY <2>1, <3>3
    <3> HIDE DEF y
    <3>5. /\ Core(y) /\ ListOK(y, rt) /\ PdnGone(y, w) /\ Follows(x, y)
          /\ \A f \in F : ~Active(y, w, f)
          /\ y.wan[w] # NULL /\ IpType(y.wan[w]) = IpType(x.wan[w])
      BY <1>1, <1>3, <1>4, <3>3, <3>4, LeaveBothOK
    <3>6. Follows(s, y)
      BY <1>4, <3>5, FollowsTrans
    <3> QED
      BY <3>3, <3>5, <3>6
  <2>2. CASE ~o.is_default_gateway
    <3>1. o.active = {}
      BY <1>1, <2>2 DEF WanOK
    <3>2. y = x /\ \A f \in F : ~Active(x, w, f)
      BY <1>3, <2>2, <3>1 DEF Active
    <3> QED
      BY <1>3, <1>4, <3>2
  <2> QED
    BY <2>1, <2>2
<1> HIDE DEF y
<1>6. r = Deleted(y, IpType(y.wan[w]))
  BY <1>2, <1>5
<1>7. Downed(r, rt, w) /\ Quiet(y, r)
  BY <1>5, <1>6, DeletedOK
<1>8. Follows(y, r)
  BY <1>5, <1>7, QuietFollows DEF Core
<1> QED
  BY <1>5, <1>7, <1>8, FollowsTrans

\* handle_down_evt of an STA that is no upstream.
LEMMA StaDownOK ==
    ASSUME NEW s, NEW rt \in Routes, BackhaulOK(s, rt), NEW w \in Sta,
           s.wan[w] # NULL, s.wan[w].active = {}, NEW r, r = handle_down_evt(s, w)
    PROVE  Downed(r, rt, w) /\ r = s
<1>1. r = s
  BY DEF handle_down_evt, ForFam
<1>2. w \in Wans /\ w \notin Modem
  BY BackhaulAssumption DEF Wans
<1>3. \A f \in F : Pdns(s, f) \ {w} = Pdns(s, f)
  BY <1>2 DEF Pdns
<1>4. PdnGone(s, w)
  BY <1>3 DEF PdnGone, PdnOK, BackhaulOK
<1>5. FiltersGone(s, w)
  BY <1>3 DEF FiltersGone, FiltersOK, BackhaulOK
<1>6. \A f \in F : ~Active(s, w, f)
  BY DEF Active
<1> QED
  BY <1>1, <1>4, <1>5, <1>6 DEF Downed, BackhaulOK

LEMMA WanLinkDownOK ==
    ASSUME Framework, NEW s, NEW rt \in Routes, BackhaulOK(s, rt), s.q = <<>>, NEW w \in Wans,
           s.wan[w] # NULL, s.wan[w].active \in MayLose[w],
           NEW u, u = IF w \in Modem THEN handle_down_evt_ex(s, w) ELSE handle_down_evt(s, w),
           NEW r, r = Removed(u, w)
    PROVE  BackhaulOK(r, rt) /\ Follows(s, r)
<1>1. Downed(u, rt, w) /\ Follows(s, u)
  <2>1. CASE w \in Modem
    <3>1. s.wan[w].active \in {{}, Fam[w]}
      BY <2>1 DEF Framework
    <3>2. u = handle_down_evt_ex(s, w)
      BY <2>1
    <3> QED
      BY <2>1, <3>1, <3>2, ModemDownOK
  <2>2. CASE w \notin Modem
    <3>1. w \in Sta
      BY <2>2 DEF Wans
    <3>2. s.wan[w].active = {} /\ u = handle_down_evt(s, w)
      BY <2>2, <3>1 DEF Framework
    <3>3. Downed(u, rt, w) /\ u = s
      BY <3>1, <3>2, StaDownOK
    <3> QED
      BY <3>3 DEF Follows
  <2> QED
    BY <2>1, <2>2
<1>2. BackhaulOK(r, rt) /\ Quiet(u, r)
  BY <1>1, RemovedOK
<1>3. Follows(u, r)
  BY <1>1, <1>2, QuietFollows DEF Downed
<1> QED
  BY <1>1, <1>2, <1>3, FollowsTrans

-----------------------------------------------------------------------------
(* The events are handled in their order. *)

\* The head of the queue is handled.
Shifted(s) == [s EXCEPT !.q = Tail(@)]

LEMMA ShiftedFields ==
    ASSUME NEW s \in Backhauls, s.q # <<>>, NEW r, r = Shifted(s)
    PROVE  /\ Is(r, s.wan, s.objs, s.up, s.sta, s.tether, s.pdn, s.flt, s.modem, s.fw, Tail(s.q))
           /\ Len(s.q) \in Nat /\ Len(s.q) >= 1 /\ Len(r.q) = Len(s.q) - 1
           /\ \A k \in 1 .. Len(s.q) - 1 : r.q[k] = s.q[k + 1]
           /\ Head(s.q) = s.q[1] /\ Head(s.q) \in Events
<1> DEFINE l == Tail(s.q)
<1>1. s.q \in Seq(Events) /\ Len(s.q) \in Nat
  BY QueueAt
<1>2. Len(s.q) >= 1 /\ Head(s.q) = s.q[1] /\ Head(s.q) \in Events
  BY <1>1
<1>3. /\ l \in Seq(Events) /\ Len(l) = Len(s.q) - 1
      /\ \A k \in 1 .. Len(s.q) - 1 : l[k] = s.q[k + 1]
  BY <1>1, <1>2
<1>4. r = [s EXCEPT !.q = l]
  BY DEF Shifted
<1> HIDE DEF l
<1>5. r \in Backhauls
  BY <1>3, <1>4 DEF Backhauls, Events
<1>6. r.q = l
  BY <1>4 DEF Backhauls
<1>7. /\ r.wan = s.wan /\ r.objs = s.objs /\ r.up = s.up /\ r.sta = s.sta
      /\ r.tether = s.tether /\ r.pdn = s.pdn /\ r.flt = s.flt /\ r.modem = s.modem
      /\ r.fw = s.fw
  BY <1>4 DEF Backhauls
<1> QED
  BY <1>1, <1>2, <1>3, <1>5, <1>6, <1>7 DEF l, Is

LEMMA ShiftedOK ==
    ASSUME NEW s, NEW rt, BackhaulOK(s, rt), s.q # <<>>, NEW r, r = Shifted(s)
    PROVE  BackhaulOK(r, rt)
<1>1. /\ r \in Backhauls /\ r.wan = s.wan /\ r.objs = s.objs /\ r.up = s.up /\ r.sta = s.sta
      /\ r.tether = s.tether /\ r.pdn = s.pdn /\ r.flt = s.flt /\ r.modem = s.modem
      /\ r.fw = s.fw
  BY ShiftedFields DEF Is, BackhaulOK
<1>2. (\A w, f : Active(r, w, f) <=> Active(s, w, f)) /\ \A f : Pdns(r, f) = Pdns(s, f)
  BY <1>1 DEF Active, Pdns
<1>3. ObjsOK(r) /\ WansOK(r)
  BY <1>1 DEF BackhaulOK, ObjsOK, WansOK
<1>4. UpOK(r) /\ KindOK(r)
  BY <1>1, <1>2 DEF BackhaulOK, UpOK, KindOK
<1>5. ListOK(r, rt)
  BY <1>1, <1>2 DEF BackhaulOK, ListOK
<1>6. PdnOK(r)
  BY <1>1, <1>2 DEF BackhaulOK, PdnOK
<1>7. FiltersOK(r)
  BY <1>1, <1>2 DEF BackhaulOK, FiltersOK
<1> QED
  BY <1>1, <1>3, <1>4, <1>5, <1>6, <1>7 DEF BackhaulOK

\* What waits after the head.
LEMMA ShiftedAt ==
    ASSUME NEW s \in Backhauls, s.q # <<>>, NEW r, r = Shifted(s)
    PROVE  /\ \A k \in 1 .. Len(r.q) : k + 1 \in 1 .. Len(s.q) /\ k + 1 # 1 /\ r.q[k] = s.q[k + 1]
           /\ \A k \in 1 .. Len(s.q) :
                k = 1 \/ (k - 1 \in 1 .. Len(r.q) /\ r.q[k - 1] = s.q[k])
           /\ 1 \in 1 .. Len(s.q)
  BY ShiftedFields

\* The NAT listener handles an event, or another one does.
LEMMA NatHandled ==
    ASSUME NEW s \in Backhauls, UpOK(s), s.q # <<>>, NEW r, r = Shifted(s),
           NEW n \in Nats, NatOK(s, n), NEW m,
           m = IF ~IsNatEvt(Head(s.q)) THEN n
               ELSE IF Head(s.q).ev = "WAN_UP" THEN Head(s.q).wan ELSE NULL
    PROVE  m \in Nats /\ NatOK(r, m)
<1> DEFINE e == Head(s.q)
<1>1. e = s.q[1] /\ e \in Events /\ 1 \in 1 .. Len(s.q)
  BY ShiftedFields, ShiftedAt
<1>2. /\ \A k \in 1 .. Len(r.q) : k + 1 \in 1 .. Len(s.q) /\ k + 1 # 1 /\ r.q[k] = s.q[k + 1]
      /\ \A k \in 1 .. Len(s.q) : k = 1 \/ (k - 1 \in 1 .. Len(r.q) /\ r.q[k - 1] = s.q[k])
  BY ShiftedAt
<1>3. \A w : Active(r, w, "v4") <=> Active(s, w, "v4")
  BY ShiftedFields DEF Is, Active
<1> HIDE DEF e
<1>4. \A j, k \in 1 .. Len(r.q) : IsNatEvt(r.q[j]) /\ IsNatEvt(r.q[k]) => j = k
  <2>1. SUFFICES ASSUME NEW j \in 1 .. Len(r.q), NEW k \in 1 .. Len(r.q),
                        IsNatEvt(r.q[j]), IsNatEvt(r.q[k])
                 PROVE  j = k
    OBVIOUS
  <2>2. j + 1 = k + 1
    BY <1>2, <2>1 DEF NatOK
  <2> QED
    BY <2>2
<1>5. CASE ~IsNatEvt(e)
  <2>1. m = n
    BY <1>5 DEF e
  <2>2. \A k \in 1 .. Len(r.q) : IsNatEvt(r.q[k]) =>
          IF r.q[k].ev = "WAN_UP" THEN n = NULL /\ Active(r, r.q[k].wan, "v4")
          ELSE \A w \in Wans : ~Active(r, w, "v4")
    BY <1>2, <1>3 DEF NatOK
  <2>3. (\A k \in 1 .. Len(r.q) : ~IsNatEvt(r.q[k])) => \A k \in 1 .. Len(s.q) : ~IsNatEvt(s.q[k])
    BY <1>1, <1>2, <1>5
  <2>4. (\A k \in 1 .. Len(r.q) : ~IsNatEvt(r.q[k])) => \A w \in Wans : n = w <=> Active(r, w, "v4")
    BY <1>3, <2>3 DEF NatOK
  <2> QED
    BY <1>4, <2>1, <2>2, <2>4 DEF NatOK
<1>6. CASE IsNatEvt(e)
  <2>1. \A k \in 1 .. Len(r.q) : ~IsNatEvt(r.q[k])
    BY <1>1, <1>2, <1>6 DEF NatOK
  <2>2. m \in Nats /\ \A w \in Wans : m = w <=> Active(s, w, "v4")
    <3>1. CASE e.ev = "WAN_UP"
      <4>1. m = e.wan /\ e.wan \in Wans
        BY <1>1, <1>6, <3>1, EventKinds DEF e
      <4>2. Active(s, e.wan, "v4")
        BY <1>1, <1>6, <3>1 DEF NatOK
      <4> QED
        BY <4>1, <4>2 DEF UpOK, F, Nats
    <3>2. CASE e.ev # "WAN_UP"
      <4>1. m = NULL /\ NULL \notin Wans
        BY <1>6, <3>2, BackhaulAssumption DEF e
      <4>2. \A w \in Wans : ~Active(s, w, "v4")
        BY <1>1, <1>6, <3>2 DEF NatOK
      <4> QED
        BY <4>1, <4>2 DEF Nats
    <3> QED
      BY <3>1, <3>2
  <2> QED
    BY <1>3, <1>4, <2>1, <2>2 DEF NatOK
<1> QED
  BY <1>5, <1>6

-----------------------------------------------------------------------------
(* The rules on the pipe of a tethering interface. *)

\* The object with these fields.
LanIs(y, up, v4, num, ul, dft, prefix, pul, pdft, pprefix) ==
    /\ y \in LanObjects
    /\ y.up = up /\ y.v4 = v4 /\ y.num_dft_rt_v6 = num
    /\ y.ul = ul /\ y.dft = dft /\ y.prefix = prefix
    /\ y.pipe.ul = pul /\ y.pipe.dft = pdft /\ y.pipe.prefix = pprefix

LEMMA LanTypes ==
    ASSUME NEW x \in LanObjects
    PROVE  /\ x.up \in BOOLEAN /\ x.v4 \in BOOLEAN /\ x.num_dft_rt_v6 \in 0 .. 2
           /\ x.ul \in SUBSET F /\ x.dft \in SUBSET F /\ x.prefix \in BOOLEAN
           /\ x.pipe \in Pipes /\ x.pipe.ul \in [F -> Nat] /\ x.pipe.dft \in [F -> Nat]
           /\ x.pipe.prefix \in Nat
  BY DEF LanObjects, Pipes, MAX_DEFAULT_v6_ROUTE_RULES

\* The object with other rules.
WithUl(x, S, f, n)  == [x EXCEPT !.ul = S, !.pipe.ul[f] = n]
WithDft(x, S, f, n) == [x EXCEPT !.dft = S, !.pipe.dft[f] = n]
WithPrefix(x, v, n) == [x EXCEPT !.prefix = v, !.pipe.prefix = n]

LEMMA UlFields ==
    ASSUME NEW x \in LanObjects, NEW f \in F, NEW n \in Nat, NEW S \in SUBSET F,
           NEW y, y = WithUl(x, S, f, n)
    PROVE  LanIs(y, x.up, x.v4, x.num_dft_rt_v6, S, x.dft, x.prefix,
                 [x.pipe.ul EXCEPT ![f] = n], x.pipe.dft, x.pipe.prefix)
<1> DEFINE ul == [x.pipe.ul EXCEPT ![f] = n]
           p == [x.pipe EXCEPT !.ul = ul]
<1>1. x.pipe \in Pipes /\ ul \in [F -> Nat]
  BY LanTypes
<1>2. y = [x EXCEPT !.ul = S, !.pipe = p]
  BY DEF WithUl
<1> HIDE DEF ul
<1>3. p \in Pipes /\ p.ul = ul /\ p.dft = x.pipe.dft /\ p.prefix = x.pipe.prefix
  BY <1>1 DEF Pipes
<1> HIDE DEF p
<1>4. y \in LanObjects
  BY <1>2, <1>3 DEF LanObjects
<1>5. /\ y.up = x.up /\ y.v4 = x.v4 /\ y.num_dft_rt_v6 = x.num_dft_rt_v6
      /\ y.ul = S /\ y.dft = x.dft /\ y.prefix = x.prefix /\ y.pipe = p
  BY <1>2 DEF LanObjects
<1> QED
  BY <1>3, <1>4, <1>5 DEF LanIs, ul

LEMMA DftFields ==
    ASSUME NEW x \in LanObjects, NEW f \in F, NEW n \in Nat, NEW S \in SUBSET F,
           NEW y, y = WithDft(x, S, f, n)
    PROVE  LanIs(y, x.up, x.v4, x.num_dft_rt_v6, x.ul, S, x.prefix,
                 x.pipe.ul, [x.pipe.dft EXCEPT ![f] = n], x.pipe.prefix)
<1> DEFINE dft == [x.pipe.dft EXCEPT ![f] = n]
           p == [x.pipe EXCEPT !.dft = dft]
<1>1. x.pipe \in Pipes /\ dft \in [F -> Nat]
  BY LanTypes
<1>2. y = [x EXCEPT !.dft = S, !.pipe = p]
  BY DEF WithDft
<1> HIDE DEF dft
<1>3. p \in Pipes /\ p.dft = dft /\ p.ul = x.pipe.ul /\ p.prefix = x.pipe.prefix
  BY <1>1 DEF Pipes
<1> HIDE DEF p
<1>4. y \in LanObjects
  BY <1>2, <1>3 DEF LanObjects
<1>5. /\ y.up = x.up /\ y.v4 = x.v4 /\ y.num_dft_rt_v6 = x.num_dft_rt_v6
      /\ y.ul = x.ul /\ y.dft = S /\ y.prefix = x.prefix /\ y.pipe = p
  BY <1>2 DEF LanObjects
<1> QED
  BY <1>3, <1>4, <1>5 DEF LanIs, dft

LEMMA PrefixFields ==
    ASSUME NEW x \in LanObjects, NEW n \in Nat, NEW v \in BOOLEAN,
           NEW y, y = WithPrefix(x, v, n)
    PROVE  LanIs(y, x.up, x.v4, x.num_dft_rt_v6, x.ul, x.dft, v, x.pipe.ul, x.pipe.dft, n)
<1> DEFINE p == [x.pipe EXCEPT !.prefix = n]
<1>1. x.pipe \in Pipes
  BY LanTypes
<1>2. y = [x EXCEPT !.prefix = v, !.pipe = p]
  BY DEF WithPrefix
<1>3. p \in Pipes /\ p.prefix = n /\ p.ul = x.pipe.ul /\ p.dft = x.pipe.dft
  BY <1>1 DEF Pipes
<1> HIDE DEF p
<1>4. y \in LanObjects
  BY <1>2, <1>3 DEF LanObjects
<1>5. /\ y.up = x.up /\ y.v4 = x.v4 /\ y.num_dft_rt_v6 = x.num_dft_rt_v6
      /\ y.ul = x.ul /\ y.dft = x.dft /\ y.prefix = v /\ y.pipe = p
  BY <1>2 DEF LanObjects
<1> QED
  BY <1>3, <1>4, <1>5 DEF LanIs

\* The rules of another family and what the object is stay.
Apart(x, y, f) ==
    /\ y.up = x.up /\ y.v4 = x.v4 /\ y.num_dft_rt_v6 = x.num_dft_rt_v6
    /\ \A g \in F \ {f} : /\ g \in y.ul <=> g \in x.ul
                          /\ g \in y.dft <=> g \in x.dft
                          /\ y.pipe.ul[g] = x.pipe.ul[g] /\ y.pipe.dft[g] = x.pipe.dft[g]
    /\ f # "v6" => y.prefix = x.prefix /\ y.pipe.prefix = x.pipe.prefix

\* The rules of family f that wan_up adds, and handle_wan_down removes.
UpRules(x, y, f, sta) ==
    /\ IF sta THEN /\ f \in y.dft /\ y.pipe.dft[f] = x.pipe.dft[f] + 1
                   /\ (f \in y.ul <=> f \in x.ul) /\ y.pipe.ul[f] = x.pipe.ul[f]
       ELSE /\ (f \in y.dft <=> f \in x.dft) /\ y.pipe.dft[f] = x.pipe.dft[f]
            /\ IF f \in x.ul \/ (f = "v6" /\ x.num_dft_rt_v6 # 1)
               THEN (f \in y.ul <=> f \in x.ul) /\ y.pipe.ul[f] = x.pipe.ul[f]
               ELSE f \in y.ul /\ y.pipe.ul[f] = x.pipe.ul[f] + 1
    /\ f = "v6" => y.prefix /\ y.pipe.prefix = x.pipe.prefix + 1

DownRules(x, y, f, sta) ==
    /\ IF sta /\ f \in x.dft THEN f \notin y.dft /\ y.pipe.dft[f] = x.pipe.dft[f] - 1
       ELSE (f \in y.dft <=> f \in x.dft) /\ y.pipe.dft[f] = x.pipe.dft[f]
    /\ IF ~sta /\ f \in x.ul THEN f \notin y.ul /\ y.pipe.ul[f] = x.pipe.ul[f] - 1
       ELSE (f \in y.ul <=> f \in x.ul) /\ y.pipe.ul[f] = x.pipe.ul[f]
    /\ f = "v6" => /\ ~y.prefix
                   /\ y.pipe.prefix = IF x.prefix THEN x.pipe.prefix - 1 ELSE x.pipe.prefix

LEMMA WanUpFields ==
    ASSUME NEW x \in LanObjects, NEW f \in F, NEW sta \in BOOLEAN, NEW y, y = wan_up(x, f, sta)
    PROVE  y \in LanObjects /\ Apart(x, y, f) /\ UpRules(x, y, f, sta)
<1> DEFINE z == install_ipv6_prefix_flt_rule(x, f)
<1>1. /\ z \in LanObjects /\ z.up = x.up /\ z.v4 = x.v4 /\ z.num_dft_rt_v6 = x.num_dft_rt_v6
      /\ z.ul = x.ul /\ z.dft = x.dft /\ z.pipe.ul = x.pipe.ul /\ z.pipe.dft = x.pipe.dft
      /\ f = "v6" => z.prefix /\ z.pipe.prefix = x.pipe.prefix + 1
      /\ f # "v6" => z.prefix = x.prefix /\ z.pipe.prefix = x.pipe.prefix
  <2>1. CASE f = "v6"
    <3>1. z = WithPrefix(x, TRUE, x.pipe.prefix + 1)
      BY <2>1 DEF install_ipv6_prefix_flt_rule, WithPrefix
    <3>2. x.pipe.prefix + 1 \in Nat
      BY LanTypes
    <3> HIDE DEF z
    <3>3. LanIs(z, x.up, x.v4, x.num_dft_rt_v6, x.ul, x.dft, TRUE, x.pipe.ul, x.pipe.dft,
                x.pipe.prefix + 1)
      BY <3>1, <3>2, PrefixFields
    <3> QED
      BY <2>1, <3>3 DEF LanIs
  <2>2. CASE f # "v6"
    BY <2>2 DEF install_ipv6_prefix_flt_rule
  <2> QED
    BY <2>1, <2>2
<1>2. y = IF sta THEN handle_wan_up(z, f) ELSE handle_wan_up_ex(z, f)
  BY DEF wan_up
<1> HIDE DEF z
<1>3. x.pipe.ul \in [F -> Nat] /\ x.pipe.dft \in [F -> Nat] /\ x.ul \in SUBSET F /\ x.dft \in SUBSET F
  BY LanTypes
<1>4. CASE sta
  <2> DEFINE S == x.dft \cup {f}
             n == x.pipe.dft[f] + 1
  <2>1. y = WithDft(z, S, f, n)
    BY <1>1, <1>2, <1>4 DEF handle_wan_up, WithDft
  <2>2. S \in SUBSET F /\ n \in Nat
    BY <1>3
  <2> HIDE DEF S, n
  <2>3. LanIs(y, z.up, z.v4, z.num_dft_rt_v6, z.ul, S, z.prefix, z.pipe.ul,
              [z.pipe.dft EXCEPT ![f] = n], z.pipe.prefix)
    BY <1>1, <2>1, <2>2, DftFields
  <2>4. y \in LanObjects /\ Apart(x, y, f)
    BY <1>1, <1>3, <2>3 DEF LanIs, Apart, S
  <2>5. UpRules(x, y, f, sta)
    BY <1>1, <1>3, <1>4, <2>3 DEF LanIs, UpRules, S, n
  <2> QED
    BY <2>4, <2>5
<1>5. CASE ~sta /\ ~(f \in x.ul \/ (f = "v6" /\ x.num_dft_rt_v6 # 1))
  <2> DEFINE S == x.ul \cup {f}
             n == x.pipe.ul[f] + 1
  <2>1. y = WithUl(z, S, f, n)
    BY <1>1, <1>2, <1>5 DEF handle_wan_up_ex, WithUl
  <2>2. S \in SUBSET F /\ n \in Nat
    BY <1>3
  <2> HIDE DEF S, n
  <2>3. LanIs(y, z.up, z.v4, z.num_dft_rt_v6, S, z.dft, z.prefix, [z.pipe.ul EXCEPT ![f] = n],
              z.pipe.dft, z.pipe.prefix)
    BY <1>1, <2>1, <2>2, UlFields
  <2>4. y \in LanObjects /\ Apart(x, y, f)
    BY <1>1, <1>3, <2>3 DEF LanIs, Apart, S
  <2>5. UpRules(x, y, f, sta)
    BY <1>1, <1>3, <1>5, <2>3 DEF LanIs, UpRules, S, n
  <2> QED
    BY <2>4, <2>5
<1>6. CASE ~sta /\ (f \in x.ul \/ (f = "v6" /\ x.num_dft_rt_v6 # 1))
  <2>1. y = z
    BY <1>1, <1>2, <1>6 DEF handle_wan_up_ex
  <2> QED
    BY <1>1, <1>6, <2>1 DEF Apart, UpRules
<1> QED
  BY <1>4, <1>5, <1>6

LEMMA WanDownFields ==
    ASSUME NEW x \in LanObjects, PipeOK(x), NEW f \in F, NEW sta \in BOOLEAN,
           NEW y, y = handle_wan_down(x, f, sta)
    PROVE  y \in LanObjects /\ Apart(x, y, f) /\ DownRules(x, y, f, sta)
<1> DEFINE z == delete_ipv6_prefix_flt_rule(x, f)
<1>0. /\ x.pipe.ul \in [F -> Nat] /\ x.pipe.dft \in [F -> Nat] /\ x.ul \in SUBSET F
      /\ x.dft \in SUBSET F /\ x.pipe.prefix \in Nat /\ x.prefix \in BOOLEAN
  BY LanTypes
<1>1. /\ z \in LanObjects /\ z.up = x.up /\ z.v4 = x.v4 /\ z.num_dft_rt_v6 = x.num_dft_rt_v6
      /\ z.ul = x.ul /\ z.dft = x.dft /\ z.pipe.ul = x.pipe.ul /\ z.pipe.dft = x.pipe.dft
      /\ f = "v6" => /\ ~z.prefix
                     /\ z.pipe.prefix = IF x.prefix THEN x.pipe.prefix - 1 ELSE x.pipe.prefix
      /\ f # "v6" => z.prefix = x.prefix /\ z.pipe.prefix = x.pipe.prefix
  <2>1. CASE f = "v6" /\ x.prefix
    <3>1. z = WithPrefix(x, FALSE, x.pipe.prefix - 1)
      BY <2>1 DEF delete_ipv6_prefix_flt_rule, WithPrefix
    <3>2. x.pipe.prefix - 1 \in Nat
      BY <1>0, <2>1 DEF PipeOK
    <3> HIDE DEF z
    <3>3. LanIs(z, x.up, x.v4, x.num_dft_rt_v6, x.ul, x.dft, FALSE, x.pipe.ul, x.pipe.dft,
                x.pipe.prefix - 1)
      BY <3>1, <3>2, PrefixFields
    <3> QED
      BY <2>1, <3>3 DEF LanIs
  <2>2. CASE ~(f = "v6" /\ x.prefix)
    BY <1>0, <2>2 DEF delete_ipv6_prefix_flt_rule
  <2> QED
    BY <2>1, <2>2
<1>2. y = IF sta /\ f \in z.dft THEN WithDft(z, z.dft \ {f}, f, z.pipe.dft[f] - 1)
          ELSE IF ~sta /\ f \in z.ul THEN WithUl(z, z.ul \ {f}, f, z.pipe.ul[f] - 1) ELSE z
  BY DEF handle_wan_down, WithDft, WithUl
<1> HIDE DEF z
<1>4. CASE sta /\ f \in x.dft
  <2> DEFINE S == x.dft \ {f}
             n == x.pipe.dft[f] - 1
  <2>1. y = WithDft(z, S, f, n)
    BY <1>1, <1>2, <1>4
  <2>2. S \in SUBSET F /\ n \in Nat
    BY <1>0, <1>4 DEF PipeOK
  <2> HIDE DEF S, n
  <2>3. LanIs(y, z.up, z.v4, z.num_dft_rt_v6, z.ul, S, z.prefix, z.pipe.ul,
              [z.pipe.dft EXCEPT ![f] = n], z.pipe.prefix)
    BY <1>1, <2>1, <2>2, DftFields
  <2>4. y \in LanObjects /\ Apart(x, y, f)
    BY <1>0, <1>1, <2>3 DEF LanIs, Apart, S
  <2>5. DownRules(x, y, f, sta)
    BY <1>0, <1>1, <1>4, <2>3 DEF LanIs, DownRules, S, n
  <2> QED
    BY <2>4, <2>5
<1>5. CASE ~sta /\ f \in x.ul
  <2> DEFINE S == x.ul \ {f}
             n == x.pipe.ul[f] - 1
  <2>1. y = WithUl(z, S, f, n)
    BY <1>1, <1>2, <1>5
  <2>2. S \in SUBSET F /\ n \in Nat
    BY <1>0, <1>5 DEF PipeOK
  <2> HIDE DEF S, n
  <2>3. LanIs(y, z.up, z.v4, z.num_dft_rt_v6, S, z.dft, z.prefix, [z.pipe.ul EXCEPT ![f] = n],
              z.pipe.dft, z.pipe.prefix)
    BY <1>1, <2>1, <2>2, UlFields
  <2>4. y \in LanObjects /\ Apart(x, y, f)
    BY <1>0, <1>1, <2>3 DEF LanIs, Apart, S
  <2>5. DownRules(x, y, f, sta)
    BY <1>0, <1>1, <1>5, <2>3 DEF LanIs, DownRules, S, n
  <2> QED
    BY <2>4, <2>5
<1>6. CASE ~(sta /\ f \in x.dft) /\ ~(~sta /\ f \in x.ul)
  <2>1. y = z
    BY <1>1, <1>2, <1>6
  <2> QED
    BY <1>1, <1>6, <2>1 DEF Apart, DownRules
<1> QED
  BY <1>4, <1>5, <1>6

\* What the object is stays.
Alike(x, y) == y.up = x.up /\ y.v4 = x.v4 /\ y.num_dft_rt_v6 = x.num_dft_rt_v6

\* The rules of a family stay as they should be.
Kept(x, y, g) ==
    (Clean(x, g) => Clean(y, g)) /\ \A sta \in BOOLEAN : Served(x, g, sta) => Served(y, g, sta)

KeptBut(x, y, f) == \A g \in F \ {f} : Kept(x, y, g)

LEMMA ApartKeeps ==
    ASSUME NEW x, NEW y, NEW f \in F, Apart(x, y, f)
    PROVE  Alike(x, y) /\ IpType(y) = IpType(x) /\ KeptBut(x, y, f)
<1>1. Alike(x, y)
  BY DEF Apart, Alike
<1>2. IpType(y) = IpType(x)
  BY <1>1 DEF Alike, IpType
<1>3. SUFFICES ASSUME NEW g \in F \ {f} PROVE Kept(x, y, g)
  BY <1>1, <1>2 DEF KeptBut
<1>4. /\ g \in y.ul <=> g \in x.ul
      /\ g \in y.dft <=> g \in x.dft
      /\ y.pipe.ul[g] = x.pipe.ul[g] /\ y.pipe.dft[g] = x.pipe.dft[g]
      /\ g = "v6" => y.prefix = x.prefix /\ y.pipe.prefix = x.pipe.prefix
  BY <1>3 DEF Apart, F
<1>5. Clean(x, g) <=> Clean(y, g)
  BY <1>4 DEF Clean
<1>6. ASSUME NEW sta \in BOOLEAN, Served(x, g, sta) PROVE Served(y, g, sta)
  <2>1. CASE g \notin IpType(x)
    BY <1>2, <1>5, <1>6, <2>1 DEF Served
  <2>2. CASE g \in IpType(x)
    BY <1>2, <1>4, <1>6, <2>2 DEF Served
  <2> QED
    BY <2>1, <2>2
<1> QED
  BY <1>5, <1>6 DEF Kept

LEMMA WanUpRules ==
    ASSUME NEW x \in LanObjects, PipeOK(x), NEW f \in F, f \in IpType(x), NEW sta \in BOOLEAN,
           NEW y, y = wan_up(x, f, sta)
    PROVE  /\ y \in LanObjects /\ PipeOK(y) /\ Alike(x, y) /\ KeptBut(x, y, f)
           /\ Clean(x, f) => Served(y, f, sta)
<1>1. y \in LanObjects /\ Apart(x, y, f) /\ UpRules(x, y, f, sta)
  BY WanUpFields
<1>2. Alike(x, y) /\ IpType(y) = IpType(x) /\ KeptBut(x, y, f)
  BY <1>1, ApartKeeps
<1>3. /\ x.pipe.ul \in [F -> Nat] /\ x.pipe.dft \in [F -> Nat] /\ x.pipe.prefix \in Nat
      /\ x.num_dft_rt_v6 \in 0 .. 2
  BY LanTypes
<1>4. x.pipe.ul[f] \in Nat /\ x.pipe.dft[f] \in Nat
  BY <1>3
<1>5. PipeOK(y)
  <2>1. (f \in y.ul => y.pipe.ul[f] > 0) /\ (f \in y.dft => y.pipe.dft[f] > 0)
    BY <1>1, <1>4 DEF UpRules, PipeOK
  <2>2. ASSUME NEW g \in F, g # f
        PROVE  (g \in y.ul => y.pipe.ul[g] > 0) /\ (g \in y.dft => y.pipe.dft[g] > 0)
    BY <1>1, <2>2 DEF Apart, PipeOK
  <2>3. y.prefix => y.pipe.prefix > 0
    <3>1. CASE f = "v6"
      BY <1>1, <1>3, <3>1 DEF UpRules
    <3>2. CASE f # "v6"
      BY <1>1, <3>2 DEF Apart, PipeOK
    <3> QED
      BY <3>1, <3>2
  <2> QED
    BY <2>1, <2>2, <2>3 DEF PipeOK
<1>6. ASSUME Clean(x, f) PROVE Served(y, f, sta)
  <2>1. f \notin x.ul /\ x.pipe.ul[f] = 0 /\ f \notin x.dft /\ x.pipe.dft[f] = 0
    BY <1>6 DEF Clean
  <2>2. f = "v6" => y.prefix /\ y.pipe.prefix = 1
    BY <1>1, <1>6 DEF Clean, UpRules
  <2>3. CASE sta
    <3>1. f \in y.dft /\ y.pipe.dft[f] = 1 /\ f \notin y.ul /\ y.pipe.ul[f] = 0
      <4>1. /\ f \in y.dft /\ y.pipe.dft[f] = x.pipe.dft[f] + 1
            /\ (f \in y.ul <=> f \in x.ul) /\ y.pipe.ul[f] = x.pipe.ul[f]
        BY <1>1, <2>3 DEF UpRules
      <4> QED
        BY <2>1, <4>1
    <3> QED
      BY <1>2, <2>2, <2>3, <3>1 DEF Served
  <2>4. CASE ~sta
    <3>1. /\ f \notin y.dft /\ y.pipe.dft[f] = 0
          /\ y.pipe.ul[f] = (IF f \in y.ul THEN 1 ELSE 0)
          /\ f = "v4" => f \in y.ul
      <4>1. /\ (f \in y.dft <=> f \in x.dft) /\ y.pipe.dft[f] = x.pipe.dft[f]
            /\ IF f = "v6" /\ x.num_dft_rt_v6 # 1
               THEN (f \in y.ul <=> f \in x.ul) /\ y.pipe.ul[f] = x.pipe.ul[f]
               ELSE f \in y.ul /\ y.pipe.ul[f] = x.pipe.ul[f] + 1
        BY <1>1, <2>1, <2>4 DEF UpRules
      <4>2. CASE f = "v6" /\ x.num_dft_rt_v6 # 1
        BY <2>1, <4>1, <4>2
      <4>3. CASE ~(f = "v6" /\ x.num_dft_rt_v6 # 1)
        BY <2>1, <4>1, <4>3
      <4> QED
        BY <4>2, <4>3
    <3> QED
      BY <1>2, <2>2, <2>4, <3>1 DEF Served
  <2> QED
    BY <2>3, <2>4
<1> QED
  BY <1>1, <1>2, <1>5, <1>6

LEMMA WanDownRules ==
    ASSUME NEW x \in LanObjects, PipeOK(x), NEW f \in F, NEW sta \in BOOLEAN,
           NEW y, y = handle_wan_down(x, f, sta)
    PROVE  /\ y \in LanObjects /\ PipeOK(y) /\ Alike(x, y) /\ KeptBut(x, y, f)
           /\ Clean(x, f) \/ Served(x, f, sta) => Clean(y, f)
<1>1. y \in LanObjects /\ Apart(x, y, f) /\ DownRules(x, y, f, sta)
  BY WanDownFields
<1>2. Alike(x, y) /\ IpType(y) = IpType(x) /\ KeptBut(x, y, f)
  BY <1>1, ApartKeeps
<1>3. x.pipe.ul \in [F -> Nat] /\ x.pipe.dft \in [F -> Nat] /\ x.pipe.prefix \in Nat
  BY LanTypes
<1>4. x.pipe.ul[f] \in Nat /\ x.pipe.dft[f] \in Nat
  BY <1>3
<1>5. PipeOK(y)
  <2>1. (f \in y.ul => y.pipe.ul[f] > 0) /\ (f \in y.dft => y.pipe.dft[f] > 0)
    BY <1>1, <1>4 DEF DownRules, PipeOK
  <2>2. ASSUME NEW g \in F, g # f
        PROVE  (g \in y.ul => y.pipe.ul[g] > 0) /\ (g \in y.dft => y.pipe.dft[g] > 0)
    BY <1>1, <2>2 DEF Apart, PipeOK
  <2>3. y.prefix => y.pipe.prefix > 0
    <3>1. CASE f = "v6"
      BY <1>1, <3>1 DEF DownRules
    <3>2. CASE f # "v6"
      BY <1>1, <3>2 DEF Apart, PipeOK
    <3> QED
      BY <3>1, <3>2
  <2> QED
    BY <2>1, <2>2, <2>3 DEF PipeOK
<1>6. ASSUME Clean(x, f) PROVE Clean(y, f)
  BY <1>1, <1>6 DEF Clean, DownRules
<1>7. ASSUME Served(x, f, sta), f \in IpType(x) PROVE Clean(y, f)
  <2>1. f = "v6" => ~y.prefix /\ y.pipe.prefix = 0
    BY <1>1, <1>7 DEF Served, DownRules
  <2>2. CASE sta
    <3>1. f \in x.dft /\ x.pipe.dft[f] = 1 /\ f \notin x.ul /\ x.pipe.ul[f] = 0
      BY <1>7, <2>2 DEF Served
    <3>2. f \notin y.dft /\ y.pipe.dft[f] = 0 /\ f \notin y.ul /\ y.pipe.ul[f] = 0
      <4>1. /\ f \notin y.dft /\ y.pipe.dft[f] = x.pipe.dft[f] - 1
            /\ (f \in y.ul <=> f \in x.ul) /\ y.pipe.ul[f] = x.pipe.ul[f]
        BY <1>1, <2>2, <3>1 DEF DownRules
      <4> QED
        BY <3>1, <4>1
    <3> QED
      BY <2>1, <3>2 DEF Clean
  <2>3. CASE ~sta
    <3>1. f \notin x.dft /\ x.pipe.dft[f] = 0 /\ x.pipe.ul[f] = (IF f \in x.ul THEN 1 ELSE 0)
      BY <1>7, <2>3 DEF Served
    <3>2. f \notin y.dft /\ y.pipe.dft[f] = 0 /\ f \notin y.ul /\ y.pipe.ul[f] = 0
      BY <1>1, <2>3, <3>1 DEF DownRules
    <3> QED
      BY <2>1, <3>2 DEF Clean
  <2> QED
    BY <2>2, <2>3
<1>8. ASSUME Served(x, f, sta), f \notin IpType(x) PROVE Clean(y, f)
  <2>1. Clean(x, f)
    BY <1>8 DEF Served
  <2> QED
    BY <1>6, <2>1
<1> QED
  BY <1>1, <1>2, <1>5, <1>6, <1>7, <1>8

-----------------------------------------------------------------------------
(* A tethering interface handles an event. *)

LEMMA KeptItself ==
    ASSUME NEW x, NEW g
    PROVE  Kept(x, x, g)
  BY DEF Kept

LEMMA RulesShift ==
    ASSUME NEW s \in Backhauls, s.q # <<>>, NEW r, r = Shifted(s), NEW x, NEW y, NEW t, NEW f,
           RulesOK(s, x, t, f), ~IsTetherEvt(Head(s.q), t, f), Kept(x, y, f)
    PROVE  RulesOK(r, y, t, f)
<1>1. r.tether = s.tether /\ r.sta = s.sta /\ Head(s.q) = s.q[1] /\ s.sta \in BOOLEAN
  BY ShiftedFields, FieldTypes DEF Is
<1>2. /\ \A k \in 1 .. Len(r.q) : k + 1 \in 1 .. Len(s.q) /\ k + 1 # 1 /\ r.q[k] = s.q[k + 1]
      /\ \A k \in 1 .. Len(s.q) : k = 1 \/ (k - 1 \in 1 .. Len(r.q) /\ r.q[k - 1] = s.q[k])
  BY ShiftedAt
<1>3. \A j, k \in 1 .. Len(r.q) : IsTetherEvt(r.q[j], t, f) /\ IsTetherEvt(r.q[k], t, f) => j = k
  <2>1. SUFFICES ASSUME NEW j \in 1 .. Len(r.q), NEW k \in 1 .. Len(r.q),
                        IsTetherEvt(r.q[j], t, f), IsTetherEvt(r.q[k], t, f)
                 PROVE  j = k
    OBVIOUS
  <2>2. j + 1 = k + 1
    BY <1>2, <2>1 DEF RulesOK
  <2> QED
    BY <2>2
<1>4. ASSUME NEW k \in 1 .. Len(r.q), IsTetherEvt(r.q[k], t, f)
      PROVE  IF r.q[k].ev = "WAN_UP_TETHER"
             THEN Clean(y, f) /\ Holds(r.tether[f], t) /\ r.q[k].is_sta = r.sta
             ELSE Served(y, f, r.q[k].is_sta) /\ ~Holds(r.tether[f], t)
  <2> DEFINE e == r.q[k]
  <2>1. k + 1 \in 1 .. Len(s.q) /\ e = s.q[k + 1]
    BY <1>2
  <2>2. e \in Events
    BY <2>1, QueueAt
  <2> HIDE DEF e
  <2>3. IsTetherEvt(e, t, f)
    BY <1>4 DEF e
  <2>4. e.is_sta \in BOOLEAN
    BY <2>2, <2>3, EventKinds DEF IsTetherEvt
  <2>5. IF e.ev = "WAN_UP_TETHER" THEN Clean(x, f) /\ Holds(s.tether[f], t) /\ e.is_sta = s.sta
        ELSE Served(x, f, e.is_sta) /\ ~Holds(s.tether[f], t)
    BY <2>1, <2>3 DEF RulesOK
  <2>6. IF e.ev = "WAN_UP_TETHER" THEN Clean(y, f) /\ Holds(r.tether[f], t) /\ e.is_sta = r.sta
        ELSE Served(y, f, e.is_sta) /\ ~Holds(r.tether[f], t)
    BY <1>1, <2>4, <2>5 DEF Kept
  <2> QED
    BY <2>6 DEF e
<1>5. ASSUME \A k \in 1 .. Len(r.q) : ~IsTetherEvt(r.q[k], t, f)
      PROVE  IF Holds(r.tether[f], t) THEN Served(y, f, r.sta) ELSE Clean(y, f)
  <2>1. \A k \in 1 .. Len(s.q) : ~IsTetherEvt(s.q[k], t, f)
    BY <1>1, <1>2, <1>5
  <2>2. IF Holds(s.tether[f], t) THEN Served(x, f, s.sta) ELSE Clean(x, f)
    BY <2>1 DEF RulesOK
  <2> QED
    BY <1>1, <2>2 DEF Kept
<1> QED
  BY <1>3, <1>4, <1>5 DEF RulesOK

LEMMA RulesHandled ==
    ASSUME NEW s \in Backhauls, s.q # <<>>, NEW r, r = Shifted(s), NEW x, NEW y, NEW t, NEW f,
           RulesOK(s, x, t, f), NEW e, e = Head(s.q), IsTetherEvt(e, t, f),
           e.ev = "WAN_UP_TETHER" /\ Clean(x, f) => Served(y, f, e.is_sta),
           e.ev = "WAN_DOWN_TETHER" /\ Served(x, f, e.is_sta) => Clean(y, f)
    PROVE  RulesOK(r, y, t, f)
<1>1. r.tether = s.tether /\ r.sta = s.sta /\ e = s.q[1]
  BY ShiftedFields DEF Is
<1>2. /\ \A k \in 1 .. Len(r.q) : k + 1 \in 1 .. Len(s.q) /\ k + 1 # 1 /\ r.q[k] = s.q[k + 1]
      /\ 1 \in 1 .. Len(s.q)
  BY ShiftedAt
<1>3. \A k \in 1 .. Len(r.q) : ~IsTetherEvt(r.q[k], t, f)
  BY <1>1, <1>2 DEF RulesOK
<1>4. IF e.ev = "WAN_UP_TETHER" THEN Clean(x, f) /\ Holds(s.tether[f], t) /\ e.is_sta = s.sta
      ELSE Served(x, f, e.is_sta) /\ ~Holds(s.tether[f], t)
  BY <1>1, <1>2 DEF RulesOK
<1>5. IF Holds(r.tether[f], t) THEN Served(y, f, r.sta) ELSE Clean(y, f)
  <2>1. CASE e.ev = "WAN_UP_TETHER"
    BY <1>1, <1>4, <2>1
  <2>2. CASE e.ev # "WAN_UP_TETHER"
    BY <1>1, <1>4, <2>2 DEF IsTetherEvt
  <2> QED
    BY <2>1, <2>2
<1> QED
  BY <1>3, <1>5 DEF RulesOK

\* What the objects owe to an event.
Handles(l, m, e) ==
    \A t \in Tethers :
        /\ Alike(l[t], m[t])
        /\ \A f \in F :
             IF IsTetherEvt(e, t, f)
             THEN /\ e.ev = "WAN_UP_TETHER" /\ Clean(l[t], f) => Served(m[t], f, e.is_sta)
                  /\ e.ev = "WAN_DOWN_TETHER" /\ Served(l[t], f, e.is_sta) => Clean(m[t], f)
             ELSE Kept(l[t], m[t], f)

LEMMA LansHandled ==
    ASSUME NEW s \in Backhauls, s.q # <<>>, NEW r, r = Shifted(s), NEW l, LansOK(s, l),
           NEW m, NEW e, e = Head(s.q), Handles(l, m, e)
    PROVE  LansOK(r, m)
<1>1. \A t \in Tethers : ~m[t].up => ~m[t].v4 /\ m[t].num_dft_rt_v6 = 0
  BY DEF LansOK, Handles, Alike
<1>2. ASSUME NEW t \in Tethers, NEW f \in F PROVE RulesOK(r, m[t], t, f)
  <2>1. RulesOK(s, l[t], t, f)
    BY DEF LansOK
  <2>2. CASE IsTetherEvt(e, t, f)
    <3>1. /\ e.ev = "WAN_UP_TETHER" /\ Clean(l[t], f) => Served(m[t], f, e.is_sta)
          /\ e.ev = "WAN_DOWN_TETHER" /\ Served(l[t], f, e.is_sta) => Clean(m[t], f)
      BY <2>2 DEF Handles
    <3> QED
      BY <2>1, <2>2, <3>1, RulesHandled
  <2>3. CASE ~IsTetherEvt(e, t, f)
    <3>1. Kept(l[t], m[t], f)
      BY <2>3 DEF Handles
    <3> QED
      BY <2>1, <2>3, <3>1, RulesShift
  <2> QED
    BY <2>2, <2>3
<1> QED
  BY <1>1, <1>2 DEF LansOK

\* No object has to do with an event of a WAN object.
LEMMA WanEventHandled ==
    ASSUME NEW l, NEW e \in WanEvents
    PROVE  Handles(l, l, e)
<1>1. \A t, f : ~IsTetherEvt(e, t, f)
  BY EventKinds DEF Events
<1> QED
  BY <1>1, KeptItself DEF Handles, Alike

\* One object changes.
Put(l, t, y) == [l EXCEPT ![t] = y]

LEMMA PutFacts ==
    ASSUME NEW l \in Lans, PipesOK(l), NEW t \in Tethers, NEW y \in LanObjects, PipeOK(y),
           NEW m, m = Put(l, t, y)
    PROVE  /\ m \in Lans /\ PipesOK(m) /\ m[t] = y
           /\ \A u \in Tethers : u # t => m[u] = l[u]
<1>1. m \in Lans /\ m[t] = y /\ \A u \in Tethers : u # t => m[u] = l[u]
  BY DEF Lans, Put
<1> QED
  BY <1>1 DEF PipesOK

LEMMA PutHandles ==
    ASSUME NEW l, NEW m, NEW t \in Tethers, NEW e, e.tether = t,
           \A u \in Tethers : u # t => m[u] = l[u],
           Alike(l[t], m[t]), KeptBut(l[t], m[t], e.fam),
           e.ev = "WAN_UP_TETHER" /\ Clean(l[t], e.fam) => Served(m[t], e.fam, e.is_sta),
           e.ev = "WAN_DOWN_TETHER" /\ Served(l[t], e.fam, e.is_sta) => Clean(m[t], e.fam),
           e.ev \in {"WAN_UP_TETHER", "WAN_DOWN_TETHER"}
    PROVE  Handles(l, m, e)
<1>1. ASSUME NEW u \in Tethers, u # t
      PROVE  Alike(l[u], m[u]) /\ \A f \in F : ~IsTetherEvt(e, u, f) /\ Kept(l[u], m[u], f)
  BY <1>1, KeptItself DEF Alike, IsTetherEvt
<1>2. ASSUME NEW f \in F, f # e.fam PROVE ~IsTetherEvt(e, t, f) /\ Kept(l[t], m[t], f)
  BY <1>2 DEF KeptBut, IsTetherEvt
<1> QED
  BY <1>1, <1>2 DEF Handles, IsTetherEvt

LEMMA TetherUpHandled ==
    ASSUME NEW l \in Lans, PipesOK(l), NEW e \in TetherEvents, e.ev = "WAN_UP_TETHER",
           NEW m, m = IF e.fam \in IpType(l[e.tether])
                      THEN Put(l, e.tether, wan_up(l[e.tether], e.fam, e.is_sta)) ELSE l
    PROVE  m \in Lans /\ PipesOK(m) /\ Handles(l, m, e)
<1> DEFINE t == e.tether
           f == e.fam
           y == IF f \in IpType(l[t]) THEN wan_up(l[t], f, e.is_sta) ELSE l[t]
<1>1. t \in Tethers /\ f \in F /\ e.is_sta \in BOOLEAN
  BY EventKinds DEF Events
<1>2. l[t] \in LanObjects /\ PipeOK(l[t])
  BY <1>1 DEF Lans, PipesOK
<1>3. m = IF f \in IpType(l[t]) THEN Put(l, t, y) ELSE l
  OBVIOUS
<1>4. /\ y \in LanObjects /\ PipeOK(y) /\ Alike(l[t], y) /\ KeptBut(l[t], y, f)
      /\ Clean(l[t], f) => Served(y, f, e.is_sta)
  <2>1. CASE f \in IpType(l[t])
    BY <1>1, <1>2, <2>1, WanUpRules
  <2>2. CASE f \notin IpType(l[t])
    BY <1>1, <1>2, <2>2, KeptItself DEF Alike, KeptBut, Served
  <2> QED
    BY <2>1, <2>2
<1>5. m \in Lans /\ PipesOK(m) /\ m[t] = y /\ \A u \in Tethers : u # t => m[u] = l[u]
  <2>1. CASE f \in IpType(l[t])
    <3>1. m = Put(l, t, y)
      BY <1>3, <2>1
    <3> HIDE DEF t, y
    <3> QED
      BY <1>1, <1>4, <3>1, PutFacts
  <2>2. CASE f \notin IpType(l[t])
    BY <2>2
  <2> QED
    BY <2>1, <2>2
<1> HIDE DEF y
<1>6. Handles(l, m, e)
  BY <1>1, <1>4, <1>5, PutHandles
<1> QED
  BY <1>5, <1>6

LEMMA TetherDownHandled ==
    ASSUME NEW l \in Lans, PipesOK(l), NEW e \in TetherEvents, e.ev = "WAN_DOWN_TETHER",
           NEW m, m = IF \/ e.fam \notin IpType(l[e.tether])
                         \/ e.fam = "v4" /\ ~e.is_sta /\ e.tether \in LaterAps
                      THEN l ELSE Put(l, e.tether, handle_wan_down(l[e.tether], e.fam, e.is_sta))
    PROVE  m \in Lans /\ PipesOK(m) /\ (LaterAps = {} => Handles(l, m, e))
<1> DEFINE t == e.tether
           f == e.fam
           y == handle_wan_down(l[t], f, e.is_sta)
<1>1. t \in Tethers /\ f \in F /\ e.is_sta \in BOOLEAN
  BY EventKinds DEF Events
<1>2. l[t] \in LanObjects /\ PipeOK(l[t])
  BY <1>1 DEF Lans, PipesOK
<1>3. m = l \/ m = Put(l, t, y)
  OBVIOUS
<1>4. /\ y \in LanObjects /\ PipeOK(y) /\ Alike(l[t], y) /\ KeptBut(l[t], y, f)
      /\ Served(l[t], f, e.is_sta) => Clean(y, f)
  BY <1>1, <1>2, WanDownRules
<1>5. LaterAps = {} /\ f \in IpType(l[t]) => m = Put(l, t, y)
  OBVIOUS
<1>6. LaterAps = {} /\ f \notin IpType(l[t]) => m = l
  OBVIOUS
<1> HIDE DEF y
<1>7. ASSUME m = Put(l, t, y)
      PROVE  m \in Lans /\ PipesOK(m) /\ m[t] = y /\ \A u \in Tethers : u # t => m[u] = l[u]
  BY <1>1, <1>4, <1>7, PutFacts
<1>8. ASSUME LaterAps = {} PROVE Handles(l, m, e)
  <2>1. CASE f \in IpType(l[t])
    <3>1. m[t] = y /\ \A u \in Tethers : u # t => m[u] = l[u]
      BY <1>5, <1>7, <1>8, <2>1
    <3> QED
      BY <1>1, <1>4, <3>1, PutHandles
  <2>2. CASE f \notin IpType(l[t])
    <3>1. m = l
      BY <1>6, <1>8, <2>2
    <3>2. Alike(l[t], m[t]) /\ KeptBut(l[t], m[t], f)
      BY <3>1, KeptItself DEF Alike, KeptBut
    <3>3. Served(l[t], f, e.is_sta) => Clean(m[t], f)
      BY <2>2, <3>1 DEF Served
    <3> QED
      BY <1>1, <3>1, <3>2, <3>3, PutHandles
  <2> QED
    BY <2>1, <2>2
<1> QED
  BY <1>3, <1>7, <1>8

-----------------------------------------------------------------------------
(* The tethering interfaces when no event waits. *)

\* No event waits, so the rules follow the list.
LEMMA IdleRules ==
    ASSUME NEW s, s.q = <<>>, NEW x, NEW t, NEW f
    PROVE  RulesOK(s, x, t, f) <=> IF Holds(s.tether[f], t) THEN Served(x, f, s.sta) ELSE Clean(x, f)
<1>1. Len(s.q) = 0
  OBVIOUS
<1> QED
  BY <1>1 DEF RulesOK

\* The list alone tells isWanUP.
LEMMA IsWanUpIsHolds ==
    ASSUME NEW s, NEW rt, BackhaulOK(s, rt), NEW t \in Tethers, NEW f \in F
    PROVE  isWanUP(s, t, f) <=> Holds(s.tether[f], t)
<1>1. s.tether[f] \in Seq(Tethers)
  BY FieldTypes DEF BackhaulOK
<1>2. Contains(s.tether[f], t) <=> Holds(s.tether[f], t)
  BY <1>1 DEF Contains, Holds
<1>3. Holds(s.tether[f], t) => f \in s.up
  BY DEF BackhaulOK, ListOK, UpOK
<1> QED
  BY <1>2, <1>3 DEF isWanUP

\* Only one object changes, and its rules follow.
LEMMA PutFollows ==
    ASSUME NEW s, s.q = <<>>, NEW l \in Lans, LansOK(s, l), PipesOK(l), NEW t \in Tethers,
           NEW y \in LanObjects, PipeOK(y), NEW m, m = Put(l, t, y),
           ~y.up => ~y.v4 /\ y.num_dft_rt_v6 = 0,
           \A f \in F : IF Holds(s.tether[f], t) THEN Served(y, f, s.sta) ELSE Clean(y, f)
    PROVE  LansOK(s, m)
<1>1. m[t] = y /\ \A u \in Tethers : u # t => m[u] = l[u]
  BY PutFacts
<1>2. \A f \in F : RulesOK(s, y, t, f)
  BY IdleRules
<1> QED
  BY <1>1, <1>2 DEF LansOK

\* Another value of up.
Raised(x) == [x EXCEPT !.up = TRUE]

LEMMA RaisedFields ==
    ASSUME NEW x \in LanObjects, NEW y, y = Raised(x)
    PROVE  LanIs(y, TRUE, x.v4, x.num_dft_rt_v6, x.ul, x.dft, x.prefix, x.pipe.ul, x.pipe.dft,
                 x.pipe.prefix)
<1>1. y \in LanObjects
  BY DEF Raised, LanObjects
<1>2. /\ y.up = TRUE /\ y.v4 = x.v4 /\ y.num_dft_rt_v6 = x.num_dft_rt_v6
      /\ y.ul = x.ul /\ y.dft = x.dft /\ y.prefix = x.prefix /\ y.pipe = x.pipe
  BY DEF Raised, LanObjects
<1> QED
  BY <1>1, <1>2 DEF LanIs

LEMMA TetherUpOK ==
    ASSUME NEW s, s.q = <<>>, NEW l \in Lans, PipesOK(l), NEW t \in Tethers,
           NEW m, m = Put(l, t, Raised(l[t]))
    PROVE  m \in Lans /\ PipesOK(m) /\ (LansOK(s, l) => LansOK(s, m))
<1> DEFINE x == l[t]
           y == Raised(x)
<1>1. x \in LanObjects /\ PipeOK(x)
  BY DEF Lans, PipesOK
<1>2. m = Put(l, t, y)
  OBVIOUS
<1> HIDE DEF y
<1>3. LanIs(y, TRUE, x.v4, x.num_dft_rt_v6, x.ul, x.dft, x.prefix, x.pipe.ul, x.pipe.dft,
            x.pipe.prefix)
  BY <1>1, RaisedFields DEF y
<1>4. y \in LanObjects /\ PipeOK(y) /\ y.up
  BY <1>1, <1>3 DEF LanIs, PipeOK
<1>5. IpType(y) = IpType(x)
  BY <1>3 DEF LanIs, IpType
<1>6. \A f : Clean(x, f) => Clean(y, f)
  BY <1>3 DEF LanIs, Clean
<1>7. \A f, sta : Served(x, f, sta) => Served(y, f, sta)
  <2>1. SUFFICES ASSUME NEW f, NEW sta, Served(x, f, sta) PROVE Served(y, f, sta)
    OBVIOUS
  <2>2. CASE f \notin IpType(x)
    BY <1>5, <1>6, <2>1, <2>2 DEF Served
  <2>3. CASE f \in IpType(x)
    BY <1>3, <1>5, <2>1, <2>3 DEF Served, LanIs
  <2> QED
    BY <2>2, <2>3
<1>8. m \in Lans /\ PipesOK(m)
  BY <1>2, <1>4, PutFacts
<1>9. ASSUME LansOK(s, l) PROVE LansOK(s, m)
  <2>1. \A f \in F : IF Holds(s.tether[f], t) THEN Served(x, f, s.sta) ELSE Clean(x, f)
    BY <1>9, IdleRules DEF LansOK
  <2>2. \A f \in F : IF Holds(s.tether[f], t) THEN Served(y, f, s.sta) ELSE Clean(y, f)
    BY <1>6, <1>7, <2>1
  <2> QED
    BY <1>2, <1>4, <1>9, <2>2, PutFollows
<1> QED
  BY <1>8, <1>9

\* One family of lan_handle_down_evt.
DownFam(s, t, ip, y, f) ==
    IF isWanUP(s, t, f) /\ ip # {} THEN handle_wan_down(y, f, s.sta) ELSE y

LEMMA DownFamOK ==
    ASSUME NEW s \in Backhauls, NEW t, NEW x \in LanObjects, PipeOK(x), NEW f \in F, NEW ip,
           NEW y, y = DownFam(s, t, ip, x, f)
    PROVE  /\ y \in LanObjects /\ PipeOK(y) /\ Alike(x, y) /\ KeptBut(x, y, f)
           /\ (isWanUP(s, t, f) /\ ip # {} /\ Served(x, f, s.sta)) \/ Clean(x, f) => Clean(y, f)
<1>1. s.sta \in BOOLEAN
  BY FieldTypes
<1>2. CASE isWanUP(s, t, f) /\ ip # {}
  <2>1. y = handle_wan_down(x, f, s.sta)
    BY <1>2 DEF DownFam
  <2> QED
    BY <1>1, <2>1, WanDownRules
<1>3. CASE ~(isWanUP(s, t, f) /\ ip # {})
  <2>1. y = x
    BY <1>3 DEF DownFam
  <2> QED
    BY <1>3, <2>1, KeptItself DEF Alike, KeptBut
<1> QED
  BY <1>2, <1>3

LEMMA NewLanOK ==
    ASSUME NEW p \in Pipes, NEW y, y = NewLan(p)
    PROVE  /\ y \in LanObjects /\ PipeOK(y) /\ IpType(y) = {}
           /\ ~y.up /\ ~y.v4 /\ y.num_dft_rt_v6 = 0 /\ y.ul = {} /\ y.dft = {} /\ ~y.prefix
           /\ y.pipe = p
<1>1. /\ y.up = FALSE /\ y.v4 = FALSE /\ y.num_dft_rt_v6 = 0 /\ y.ul = {} /\ y.dft = {}
      /\ y.prefix = FALSE /\ y.pipe = p
  BY DEF NewLan
<1>2. y \in LanObjects
  BY DEF NewLan, LanObjects, MAX_DEFAULT_v6_ROUTE_RULES
<1>3. IpType(y) = {}
  BY <1>1 DEF IpType
<1> QED
  BY <1>1, <1>2, <1>3 DEF PipeOK

LEMMA TetherDownOK ==
    ASSUME NEW s, NEW rt, BackhaulOK(s, rt), s.q = <<>>, NEW l \in Lans, PipesOK(l),
           NEW t \in Tethers, NEW m, m = Put(l, t, lan_handle_down_evt(s, t, l[t]))
    PROVE  m \in Lans /\ PipesOK(m) /\ (LansOK(s, l) => LansOK(s, m))
<1> DEFINE x == l[t]
           ip == IpType(x)
           u == DownFam(s, t, ip, x, "v4")
           v == DownFam(s, t, ip, u, "v6")
           y == NewLan(v.pipe)
<1>1. x \in LanObjects /\ PipeOK(x) /\ s \in Backhauls
  BY DEF Lans, PipesOK, BackhaulOK
<1>2. lan_handle_down_evt(s, t, x) = y
  BY DEF lan_handle_down_evt, ForFam, DownFam, F
<1>3. m = Put(l, t, y)
  BY <1>2
<1> HIDE DEF u, v, y, ip, x
<1>4. "v4" \in F /\ "v6" \in F
  BY DEF F
<1>5. /\ u \in LanObjects /\ PipeOK(u) /\ Alike(x, u) /\ KeptBut(x, u, "v4")
      /\ (isWanUP(s, t, "v4") /\ ip # {} /\ Served(x, "v4", s.sta)) \/ Clean(x, "v4")
           => Clean(u, "v4")
  BY <1>1, <1>4, DownFamOK DEF u
<1>6. /\ v \in LanObjects /\ PipeOK(v) /\ Alike(u, v) /\ KeptBut(u, v, "v6")
      /\ (isWanUP(s, t, "v6") /\ ip # {} /\ Served(u, "v6", s.sta)) \/ Clean(u, "v6")
           => Clean(v, "v6")
  BY <1>1, <1>4, <1>5, DownFamOK DEF v
<1>7. v.pipe \in Pipes
  BY <1>6, LanTypes
<1>8. /\ y \in LanObjects /\ PipeOK(y) /\ IpType(y) = {}
      /\ ~y.up /\ ~y.v4 /\ y.num_dft_rt_v6 = 0 /\ y.ul = {} /\ y.dft = {} /\ ~y.prefix
      /\ y.pipe = v.pipe
  BY <1>7, NewLanOK DEF y
<1>9. m \in Lans /\ PipesOK(m)
  BY <1>3, <1>8, PutFacts
<1>10. ASSUME LansOK(s, l) PROVE LansOK(s, m)
  <2>1. ASSUME NEW f \in F
        PROVE  (isWanUP(s, t, f) /\ ip # {} /\ Served(x, f, s.sta)) \/ Clean(x, f)
    <3>1. IF Holds(s.tether[f], t) THEN Served(x, f, s.sta) ELSE Clean(x, f)
      BY <1>10, IdleRules DEF LansOK, x
    <3>2. isWanUP(s, t, f) <=> Holds(s.tether[f], t)
      BY IsWanUpIsHolds
    <3>3. ip = {} /\ Served(x, f, s.sta) => Clean(x, f)
      BY DEF Served, ip
    <3> QED
      BY <3>1, <3>2, <3>3
  <2>2. Clean(u, "v4")
    BY <1>4, <1>5, <2>1
  <2>3. Clean(v, "v4")
    BY <1>4, <1>6, <2>2 DEF KeptBut, Kept
  <2>4. s.sta \in BOOLEAN
    BY <1>1, FieldTypes
  <2>5. Kept(x, u, "v6")
    BY <1>4, <1>5 DEF KeptBut
  <2>6. Clean(v, "v6")
    BY <1>4, <1>6, <2>1, <2>4, <2>5 DEF Kept
  <2>7. ASSUME NEW f \in F PROVE Clean(y, f)
    <3>1. Clean(v, f)
      BY <2>3, <2>6 DEF F
    <3> QED
      BY <1>8, <3>1 DEF Clean
  <2>8. \A f \in F : IF Holds(s.tether[f], t) THEN Served(y, f, s.sta) ELSE Clean(y, f)
    BY <1>8, <2>7 DEF Served
  <2> QED
    BY <1>3, <1>8, <1>10, <2>8, PutFollows
<1> QED
  BY <1>9, <1>10

\* The address is counted.
LanAddressed(x, f) ==
    IF f = "v4" THEN [x EXCEPT !.v4 = TRUE] ELSE [x EXCEPT !.num_dft_rt_v6 = @ + 1]

\* An address of the family is still to come.
Wanting(x, f) ==
    IF f = "v4" THEN ~x.v4 ELSE x.num_dft_rt_v6 # MAX_DEFAULT_v6_ROUTE_RULES

LEMMA LanAddressedFields ==
    ASSUME NEW x \in LanObjects, NEW f \in F, Wanting(x, f), NEW z, z = LanAddressed(x, f)
    PROVE  /\ z \in LanObjects /\ z.up = x.up
           /\ z.ul = x.ul /\ z.dft = x.dft /\ z.prefix = x.prefix /\ z.pipe = x.pipe
           /\ \A g \in F \ {f} : g \in IpType(z) <=> g \in IpType(x)
           /\ f \in IpType(z)
           /\ f \in IpType(x) => f = "v6" /\ z.num_dft_rt_v6 # 1
           /\ f = "v6" /\ f \notin IpType(x) => z.num_dft_rt_v6 = 1
<1>1. x.num_dft_rt_v6 \in 0 .. 2 /\ x.v4 \in BOOLEAN
  BY LanTypes
<1>2. CASE f = "v4"
  <2>1. z = [x EXCEPT !.v4 = TRUE] /\ ~x.v4
    BY <1>2 DEF LanAddressed, Wanting
  <2>2. z \in LanObjects
    BY <2>1 DEF LanObjects
  <2>3. /\ z.up = x.up /\ z.v4 = TRUE /\ z.num_dft_rt_v6 = x.num_dft_rt_v6
        /\ z.ul = x.ul /\ z.dft = x.dft /\ z.prefix = x.prefix /\ z.pipe = x.pipe
    BY <2>1 DEF LanObjects
  <2> HIDE DEF LanObjects
  <2>4. "v4" \in IpType(z) /\ "v4" \notin IpType(x)
    BY <2>1, <2>3 DEF IpType
  <2>5. "v6" \in IpType(z) <=> "v6" \in IpType(x)
    BY <2>3 DEF IpType
  <2> QED
    BY <1>2, <2>2, <2>3, <2>4, <2>5 DEF F
<1>3. CASE f = "v6"
  <2>1. z = [x EXCEPT !.num_dft_rt_v6 = x.num_dft_rt_v6 + 1] /\ x.num_dft_rt_v6 # 2
    BY <1>3 DEF LanAddressed, Wanting, MAX_DEFAULT_v6_ROUTE_RULES
  <2>2. x.num_dft_rt_v6 + 1 \in 0 .. MAX_DEFAULT_v6_ROUTE_RULES
    BY <1>1, <2>1 DEF MAX_DEFAULT_v6_ROUTE_RULES
  <2>3. z \in LanObjects
    BY <2>1, <2>2 DEF LanObjects
  <2>4. /\ z.up = x.up /\ z.v4 = x.v4 /\ z.num_dft_rt_v6 = x.num_dft_rt_v6 + 1
        /\ z.ul = x.ul /\ z.dft = x.dft /\ z.prefix = x.prefix /\ z.pipe = x.pipe
    BY <2>1 DEF LanObjects
  <2>5. "v6" \in IpType(z) /\ ("v6" \in IpType(x) <=> x.num_dft_rt_v6 > 0)
    BY <1>1, <2>4 DEF IpType
  <2>6. "v4" \in IpType(z) <=> "v4" \in IpType(x)
    BY <2>4 DEF IpType
  <2> QED
    BY <1>1, <1>3, <2>1, <2>3, <2>4, <2>5, <2>6 DEF F
<1> QED
  BY <1>2, <1>3 DEF F

\* The rules are the same and the family was there, or the rules are not there.
LEMMA SameRules ==
    ASSUME NEW x, NEW z, z.ul = x.ul, z.dft = x.dft, z.prefix = x.prefix, z.pipe = x.pipe, NEW g
    PROVE  /\ Clean(x, g) => Clean(z, g)
           /\ (g \in IpType(z) <=> g \in IpType(x)) => Kept(x, z, g)
<1>1. Clean(x, g) => Clean(z, g)
  BY DEF Clean
<1>2. ASSUME g \in IpType(z) <=> g \in IpType(x), NEW sta \in BOOLEAN, Served(x, g, sta)
      PROVE  Served(z, g, sta)
  <2>1. CASE g \notin IpType(x)
    BY <1>1, <1>2, <2>1 DEF Served
  <2>2. CASE g \in IpType(x)
    BY <1>2, <2>2 DEF Served
  <2> QED
    BY <2>1, <2>2
<1> QED
  BY <1>1, <1>2 DEF Kept

LEMMA TetherAddrAddOK ==
    ASSUME NEW s, NEW rt, BackhaulOK(s, rt), s.q = <<>>, NEW l \in Lans, PipesOK(l),
           NEW t \in Tethers, NEW f \in F, l[t].up, Wanting(l[t], f),
           NEW m, m = Put(l, t, lan_addr_add(s, t, l[t], f))
    PROVE  m \in Lans /\ PipesOK(m) /\ (LansOK(s, l) => LansOK(s, m))
<1> DEFINE x == l[t]
           z == LanAddressed(x, f)
           y == IF isWanUP(s, t, f) /\ (f = "v6" => z.num_dft_rt_v6 = 1)
                THEN wan_up(z, f, s.sta) ELSE z
<1>1. x \in LanObjects /\ PipeOK(x) /\ s \in Backhauls
  BY DEF Lans, PipesOK, BackhaulOK
<1>2. lan_addr_add(s, t, x, f) = y
  BY DEF lan_addr_add, LanAddressed
<1>3. m = Put(l, t, y)
  BY <1>2
<1>4. x.up /\ Wanting(x, f)
  OBVIOUS
<1> HIDE DEF z, x
<1>5. /\ z \in LanObjects /\ z.up = x.up
      /\ z.ul = x.ul /\ z.dft = x.dft /\ z.prefix = x.prefix /\ z.pipe = x.pipe
      /\ \A g \in F \ {f} : g \in IpType(z) <=> g \in IpType(x)
      /\ f \in IpType(z)
      /\ f \in IpType(x) => f = "v6" /\ z.num_dft_rt_v6 # 1
      /\ f = "v6" /\ f \notin IpType(x) => z.num_dft_rt_v6 = 1
  BY <1>1, <1>4, LanAddressedFields DEF z
<1>6. PipeOK(z)
  BY <1>1, <1>5 DEF PipeOK
<1>7. s.sta \in BOOLEAN
  BY <1>1, FieldTypes
<1>8. /\ y \in LanObjects /\ PipeOK(y) /\ Alike(z, y) /\ KeptBut(z, y, f)
      /\ y = z \/ (Clean(z, f) => Served(y, f, s.sta))
  <2>1. CASE isWanUP(s, t, f) /\ (f = "v6" => z.num_dft_rt_v6 = 1)
    <3>1. y = wan_up(z, f, s.sta)
      BY <2>1
    <3> HIDE DEF y
    <3> QED
      BY <1>5, <1>6, <1>7, <3>1, WanUpRules
  <2>2. CASE ~(isWanUP(s, t, f) /\ (f = "v6" => z.num_dft_rt_v6 = 1))
    <3>1. y = z
      BY <2>2
    <3> QED
      BY <1>5, <1>6, <3>1, KeptItself DEF Alike, KeptBut
  <2> QED
    BY <2>1, <2>2
<1>9. isWanUP(s, t, f) /\ f \notin IpType(x) => y = wan_up(z, f, s.sta)
  BY <1>5
<1>10. ~isWanUP(s, t, f) \/ f \in IpType(x) => y = z
  BY <1>5
<1> HIDE DEF y
<1>11. m \in Lans /\ PipesOK(m)
  BY <1>3, <1>8, PutFacts
<1>12. ASSUME LansOK(s, l) PROVE LansOK(s, m)
  <2>1. ASSUME NEW g \in F PROVE IF Holds(s.tether[g], t) THEN Served(x, g, s.sta) ELSE Clean(x, g)
    BY <1>12, IdleRules DEF LansOK, x
  <2>2. ASSUME NEW g \in F, g # f
        PROVE  IF Holds(s.tether[g], t) THEN Served(y, g, s.sta) ELSE Clean(y, g)
    <3>1. Kept(x, z, g)
      BY <1>5, <2>2, SameRules
    <3>2. Kept(z, y, g)
      BY <1>8, <2>2 DEF KeptBut
    <3> QED
      BY <1>7, <2>1, <3>1, <3>2 DEF Kept
  <2>3. IF Holds(s.tether[f], t) THEN Served(y, f, s.sta) ELSE Clean(y, f)
    <3>1. isWanUP(s, t, f) <=> Holds(s.tether[f], t)
      BY IsWanUpIsHolds
    <3>2. CASE ~Holds(s.tether[f], t)
      <4>1. Clean(z, f)
        BY <1>5, <2>1, <3>2, SameRules
      <4> QED
        BY <1>10, <3>1, <3>2, <4>1
    <3>3. CASE Holds(s.tether[f], t) /\ f \in IpType(x)
      <4>1. Served(z, f, s.sta)
        BY <1>5, <1>7, <2>1, <3>3, SameRules DEF Kept
      <4> QED
        BY <1>10, <3>3, <4>1
    <3>4. CASE Holds(s.tether[f], t) /\ f \notin IpType(x)
      <4>1. Clean(z, f)
        <5>1. Clean(x, f)
          BY <2>1, <3>4 DEF Served
        <5> QED
          BY <1>5, <5>1, SameRules
      <4>2. y = wan_up(z, f, s.sta)
        BY <1>9, <3>1, <3>4
      <4>3. Served(y, f, s.sta)
        BY <1>5, <1>6, <1>7, <4>1, <4>2, WanUpRules
      <4> QED
        BY <3>4, <4>3
    <3> QED
      BY <3>2, <3>3, <3>4
  <2>4. y.up
    BY <1>4, <1>5, <1>8 DEF Alike
  <2>5. \A g \in F : IF Holds(s.tether[g], t) THEN Served(y, g, s.sta) ELSE Clean(y, g)
    BY <2>2, <2>3
  <2> QED
    BY <1>3, <1>8, <1>12, <2>4, <2>5, PutFollows
<1> QED
  BY <1>11, <1>12

-----------------------------------------------------------------------------
(* The invariant is inductive. *)

LEMMA InitInv == Init => IInv
<1> SUFFICES ASSUME Init PROVE IInv
  OBVIOUS
<1>1. /\ b.wan = [w \in Wans |-> NULL] /\ b.objs = <<>> /\ b.up = {} /\ b.sta = FALSE
      /\ b.tether = [f \in F |-> <<>>] /\ b.pdn = [f \in F |-> 0]
      /\ b.flt = [f \in F |-> "none"] /\ b.modem = [f \in F |-> "none"]
      /\ b.fw = [w \in Sta |-> [f \in F |-> 0]] /\ b.q = <<>>
  BY DEF Init
<1>2. b \in Backhauls
  <2> DEFINE wan == [w \in Wans |-> NULL]
             tether == [f \in F |-> <<>>]
             pdn == [f \in F |-> 0]
             flt == [f \in F |-> "none"]
             fw == [w \in Sta |-> [f \in F |-> 0]]
  <2>1. b = [wan |-> wan, objs |-> <<>>, up |-> {}, sta |-> FALSE, tether |-> tether, pdn |-> pdn,
             flt |-> flt, modem |-> flt, fw |-> fw, q |-> <<>>]
    BY DEF Init
  <2>2. wan \in [Wans -> {NULL} \cup WanObjects] /\ tether \in [F -> Seq(Tethers)]
    OBVIOUS
  <2>3. pdn \in [F -> Nat] /\ flt \in [F -> Filters] /\ fw \in [Sta -> [F -> Nat]]
    BY DEF Filters
  <2>4. <<>> \in Seq(Wans) /\ <<>> \in Seq(WanEvents \cup TetherEvents) /\ {} \in SUBSET F
    OBVIOUS
  <2> HIDE DEF wan, tether, pdn, flt, fw
  <2> QED
    BY <2>1, <2>2, <2>3, <2>4 DEF Backhauls
<1>3. \A w \in Wans : b.wan[w] = NULL
  BY <1>1
<1>4. \A w \in Wans, f \in F : ~Active(b, w, f)
  BY <1>3 DEF Active
<1>5. \A f \in F : Pdns(b, f) = {}
  BY <1>3 DEF Pdns, Wans
<1>6. Len(b.objs) = 0 /\ Len(b.q) = 0 /\ \A f \in F : b.tether[f] = <<>> /\ Len(b.tether[f]) = 0
  BY <1>1
<1>7. BackhaulOK(b, route)
  <2>1. ObjsOK(b)
    BY <1>3, <1>6 DEF ObjsOK, Once, Holds
  <2>2. WansOK(b)
    BY <1>3 DEF WansOK
  <2>3. UpOK(b) /\ KindOK(b)
    BY <1>1, <1>4 DEF UpOK, KindOK
  <2>4. ListOK(b, route)
    BY <1>1, <1>6 DEF ListOK, Once, Holds
  <2>5. PdnOK(b)
    <3>1. IsFiniteSet({}) /\ Cardinality({}) = 0
      BY FS_EmptySet
    <3>2. \A f \in F : b.pdn[f] = 0
      BY <1>1
    <3> QED
      BY <1>5, <3>1, <3>2 DEF PdnOK
  <2>6. FiltersOK(b)
    <3>1. \A w \in Modem \cup Sta, f \in F : ~Active(b, w, f)
      BY <1>4 DEF Wans
    <3>2. \A f \in F : b.flt[f] = "none"
      BY <1>1
    <3>3. \A w \in Sta, f \in F : b.fw[w][f] = 0
      BY <1>1
    <3>4. b.modem = b.flt
      BY <1>1
    <3> QED
      BY <1>5, <3>1, <3>2, <3>3, <3>4 DEF FiltersOK
  <2> QED
    BY <1>2, <2>1, <2>2, <2>3, <2>4, <2>5, <2>6 DEF BackhaulOK
<1>8. NatOK(b, nat)
  <2>1. \A w \in Wans : nat # w
    BY BackhaulAssumption DEF Init
  <2> QED
    BY <1>4, <1>6, <2>1 DEF NatOK, F
<1>9. EmptyPipe \in Pipes /\ \A f \in F : EmptyPipe.ul[f] = 0 /\ EmptyPipe.dft[f] = 0
  BY DEF EmptyPipe, Pipes
<1>10. EmptyPipe.prefix = 0
  BY DEF EmptyPipe
<1> DEFINE y == NewLan(EmptyPipe)
<1>11. /\ y \in LanObjects /\ PipeOK(y) /\ IpType(y) = {}
       /\ ~y.up /\ ~y.v4 /\ y.num_dft_rt_v6 = 0 /\ y.ul = {} /\ y.dft = {} /\ ~y.prefix
       /\ y.pipe = EmptyPipe
  BY <1>9, NewLanOK
<1>12. lan = [t \in Tethers |-> y]
  BY DEF Init
<1> HIDE DEF y
<1>13. lan \in Lans /\ PipesOK(lan) /\ \A t \in Tethers : lan[t] = y
  BY <1>11, <1>12 DEF Lans, PipesOK
<1>14. \A f \in F : Clean(y, f)
  BY <1>9, <1>10, <1>11 DEF Clean
<1>15. LansOK(b, lan)
  <2>1. \A t \in Tethers, f \in F : ~Holds(b.tether[f], t)
    BY <1>6 DEF Holds
  <2>2. \A t \in Tethers, f \in F : RulesOK(b, y, t, f)
    BY <1>1, <1>14, <2>1, IdleRules
  <2> QED
    BY <1>11, <1>13, <2>2 DEF LansOK
<1>16. TypeOK
  BY <1>2, <1>13 DEF TypeOK, Init, Lans
<1> QED
  BY <1>7, <1>8, <1>13, <1>15, <1>16 DEF IInv

\* A step of the WAN objects that the others can follow.
LEMMA FollowingStep ==
    ASSUME IInv, BackhaulOK(b', route'), route' \in Routes, Follows(b, b'), UNCHANGED <<lan, nat>>
    PROVE  IInv'
<1>1. lan \in Lans /\ nat \in Nats
  BY DEF IInv, TypeOK, Lans, Nats
<1>2. b' \in Backhauls
  BY DEF BackhaulOK
<1>3. NatOK(b', nat)
  BY <1>1 DEF Follows, IInv
<1>4. LaterAps = {} => LansOK(b', lan)
  BY <1>1 DEF Follows, IInv
<1>5. TypeOK'
  BY <1>1, <1>2 DEF TypeOK, Lans, Nats, Routes
<1> QED
  BY <1>3, <1>4, <1>5 DEF IInv

\* A step of the tethering objects.
LEMMA LanStep ==
    ASSUME IInv, UNCHANGED <<b, nat, route>>, lan' \in Lans, PipesOK(lan'),
           LansOK(b, lan) => LansOK(b, lan')
    PROVE  IInv'
<1>1. TypeOK'
  BY DEF IInv, TypeOK, Lans
<1> QED
  BY <1>1 DEF IInv

\* The head of the queue is handled.
LEMMA DeliverStep ==
    ASSUME IInv, b.q # <<>>, b' = Shifted(b), UNCHANGED route, lan' \in Lans, PipesOK(lan'),
           LaterAps = {} => Handles(lan, lan', Head(b.q)),
           nat' = IF ~IsNatEvt(Head(b.q)) THEN nat
                  ELSE IF Head(b.q).ev = "WAN_UP" THEN Head(b.q).wan ELSE NULL
    PROVE  IInv'
<1>1. /\ BackhaulOK(b, route) /\ b \in Backhauls /\ UpOK(b) /\ nat \in Nats /\ NatOK(b, nat)
      /\ route \in Routes
  BY DEF IInv, TypeOK, BackhaulOK, Nats, Routes
<1>2. BackhaulOK(b', route)
  BY <1>1, ShiftedOK
<1>3. nat' \in Nats /\ NatOK(b', nat')
  BY <1>1, NatHandled
<1>4. ASSUME LaterAps = {} PROVE LansOK(b', lan')
  <2>1. LansOK(b, lan) /\ Handles(lan, lan', Head(b.q))
    BY <1>4 DEF IInv
  <2> QED
    BY <1>1, <2>1, LansHandled
<1>5. TypeOK'
  <2>1. b' \in Backhauls
    BY <1>2 DEF BackhaulOK
  <2> QED
    BY <1>1, <1>3, <2>1 DEF TypeOK, Lans, Nats, Routes
<1> QED
  BY <1>2, <1>3, <1>4, <1>5 DEF IInv

LEMMA NextInv ==
    ASSUME Framework, IInv, [Next]_vars
    PROVE  IInv'
<1>0. /\ BackhaulOK(b, route) /\ b \in Backhauls /\ route \in Routes /\ lan \in Lans
      /\ PipesOK(lan) /\ nat \in Nats /\ NatOK(b, nat)
  BY DEF IInv, TypeOK, Lans, Nats, Routes
<1>1. ASSUME NEW w \in Wans, WanLinkUp(w) PROVE IInv'
  <2>1. b' = Created(b, w) /\ b.wan[w] = NULL /\ route' = route /\ UNCHANGED <<lan, nat>>
    BY <1>1 DEF WanLinkUp, Created
  <2>2. BackhaulOK(b', route) /\ Quiet(b, b')
    BY <1>0, <2>1, WanLinkUpOK
  <2>3. Follows(b, b')
    BY <1>0, <2>2, QuietFollows
  <2> QED
    BY <1>0, <2>1, <2>2, <2>3, FollowingStep
<1>2. ASSUME NEW w \in Wans, WanLinkDown(w) PROVE IInv'
  <2> DEFINE u == IF w \in Modem THEN handle_down_evt_ex(b, w) ELSE handle_down_evt(b, w)
  <2>1. /\ b' = Removed(u, w) /\ b.q = <<>> /\ b.wan[w] # NULL /\ b.wan[w].active \in MayLose[w]
        /\ route' = route /\ UNCHANGED <<lan, nat>>
    BY <1>2 DEF WanLinkDown, Removed, Idle
  <2>2. BackhaulOK(b', route) /\ Follows(b, b')
    BY <1>0, <2>1, WanLinkDownOK
  <2> QED
    BY <1>0, <2>1, <2>2, FollowingStep
<1>3. ASSUME NEW w \in Wans, NEW f \in F, WanAddrAdd(w, f) PROVE IInv'
  <2>1. /\ b' = handle_addr_evt(b, w, f) /\ b.wan[w] # NULL /\ f \in Fam[w]
        /\ f = "v4" \/ b.wan[w].num_dft_rt_v6 # MAX_DEFAULT_v6_ROUTE_RULES
        /\ route' = route /\ UNCHANGED <<lan, nat>>
    BY <1>3 DEF WanAddrAdd
  <2>2. BackhaulOK(b', route) /\ Quiet(b, b')
    BY <1>0, <2>1, WanAddrAddOK
  <2>3. Follows(b, b')
    BY <1>0, <2>2, QuietFollows
  <2> QED
    BY <1>0, <2>1, <2>2, <2>3, FollowingStep
<1>4. ASSUME NEW w \in Wans, NEW f \in F, GatewayNeighbour(w, f) PROVE IInv'
  <2>1. /\ b' = handle_sta_header_add_evt(Neighboured(b, w, f), w) /\ b.wan[w] # NULL
        /\ route' = route /\ UNCHANGED <<lan, nat>>
    BY <1>4 DEF GatewayNeighbour, Neighboured
  <2>2. BackhaulOK(b', route) /\ Quiet(b, b')
    BY <1>0, <2>1, NeighbourOK
  <2>3. Follows(b, b')
    BY <1>0, <2>2, QuietFollows
  <2> QED
    BY <1>0, <2>1, <2>2, <2>3, FollowingStep
<1>5. ASSUME NEW w \in Wans, NEW t \in Tethers, NEW f \in F, RouteAdd(w, t, f) PROVE IInv'
  <2>1. /\ b' = upstream_route_add_all(b, w, t, f) /\ b.q = <<>> /\ b.wan[w] # NULL
        /\ route[t][f] # w /\ route' = Rerouted(route, t, f, w) /\ UNCHANGED <<lan, nat>>
    BY <1>5 DEF RouteAdd, Rerouted, Idle
  <2>2. Orderly(w, t, f)
    BY <1>5 DEF RouteAdd, Framework
  <2>3. w \in Sta => f \in b.wan[w].neighbours
    BY <1>5 DEF RouteAdd, Framework
  <2>4. Clear(b, w, t, f)
    BY <1>0, <2>1, <2>2, OrderlyIsClear DEF Orderly
  <2>5. BackhaulOK(b', route') /\ Follows(b, b')
    BY <1>0, <2>1, <2>3, <2>4, RouteAddOK
  <2>6. route' \in Routes
    BY <1>0, <2>1, ReroutedFacts
  <2> QED
    BY <2>1, <2>5, <2>6, FollowingStep
<1>6. ASSUME NEW t \in Tethers, NEW f \in F, RouteDel(t, f) PROVE IInv'
  <2>1. /\ b' = upstream_route_del_all(b, route[t][f], t, f) /\ b.q = <<>>
        /\ route[t][f] # NULL /\ route' = Rerouted(route, t, f, NULL) /\ UNCHANGED <<lan, nat>>
    BY <1>6 DEF RouteDel, Rerouted, Idle
  <2>2. route[t][f] \in Wans
    BY <1>0, <2>1 DEF Routes
  <2>3. BackhaulOK(b', route') /\ Follows(b, b')
    BY <1>0, <2>1, <2>2, RouteDelOK
  <2>4. route' \in Routes
    BY <1>0, <2>1, ReroutedFacts
  <2> QED
    BY <2>1, <2>3, <2>4, FollowingStep
<1>7. ASSUME NEW t \in Tethers, NEW f \in F, TetherAddrAdd(t, f) PROVE IInv'
  <2>1. /\ lan' = Put(lan, t, lan_addr_add(b, t, lan[t], f)) /\ b.q = <<>> /\ lan[t].up
        /\ Wanting(lan[t], f) /\ UNCHANGED <<b, nat, route>>
    BY <1>7 DEF TetherAddrAdd, Put, Wanting, Idle
  <2>2. lan' \in Lans /\ PipesOK(lan') /\ (LansOK(b, lan) => LansOK(b, lan'))
    BY <1>0, <2>1, TetherAddrAddOK
  <2> QED
    BY <2>1, <2>2, LanStep
<1>8. ASSUME NEW t \in Tethers, TetherUp(t) PROVE IInv'
  <2>1. lan' = Put(lan, t, Raised(lan[t])) /\ b.q = <<>> /\ UNCHANGED <<b, nat, route>>
    BY <1>8 DEF TetherUp, Put, Raised, Idle
  <2>2. lan' \in Lans /\ PipesOK(lan') /\ (LansOK(b, lan) => LansOK(b, lan'))
    BY <1>0, <2>1, TetherUpOK
  <2> QED
    BY <2>1, <2>2, LanStep
<1>9. ASSUME NEW t \in Tethers, TetherDown(t) PROVE IInv'
  <2>1. /\ lan' = Put(lan, t, lan_handle_down_evt(b, t, lan[t])) /\ b.q = <<>>
        /\ UNCHANGED <<b, nat, route>>
    BY <1>9 DEF TetherDown, Put, Idle
  <2>2. lan' \in Lans /\ PipesOK(lan') /\ (LansOK(b, lan) => LansOK(b, lan'))
    BY <1>0, <2>1, TetherDownOK
  <2> QED
    BY <2>1, <2>2, LanStep
<1>10. ASSUME b.q # <<>> PROVE Head(b.q) \in Events
  BY <1>0, <1>10, ShiftedFields
<1> DEFINE e == Head(b.q)
<1>11. ASSUME WanUpTether PROVE IInv'
  <2>1. /\ b.q # <<>> /\ e.ev = "WAN_UP_TETHER" /\ b' = Shifted(b) /\ UNCHANGED <<nat, route>>
        /\ lan' = IF e.fam \in IpType(lan[e.tether])
                  THEN Put(lan, e.tether, wan_up(lan[e.tether], e.fam, e.is_sta)) ELSE lan
    BY <1>11 DEF WanUpTether, Deliver, Shifted, Put
  <2>2. e \in TetherEvents /\ ~IsNatEvt(e)
    BY <1>10, <2>1, EventKinds
  <2> HIDE DEF e
  <2>3. lan' \in Lans /\ PipesOK(lan') /\ Handles(lan, lan', e)
    BY <1>0, <2>1, <2>2, TetherUpHandled
  <2> QED
    BY <2>1, <2>2, <2>3, DeliverStep DEF e
<1>12. ASSUME WanDownTether PROVE IInv'
  <2>1. /\ b.q # <<>> /\ e.ev = "WAN_DOWN_TETHER" /\ b' = Shifted(b) /\ UNCHANGED <<nat, route>>
        /\ lan' = IF \/ e.fam \notin IpType(lan[e.tether])
                     \/ e.fam = "v4" /\ ~e.is_sta /\ e.tether \in LaterAps
                  THEN lan
                  ELSE Put(lan, e.tether, handle_wan_down(lan[e.tether], e.fam, e.is_sta))
    BY <1>12 DEF WanDownTether, Deliver, Shifted, Put
  <2>2. e \in TetherEvents /\ ~IsNatEvt(e)
    BY <1>10, <2>1, EventKinds
  <2> HIDE DEF e
  <2>3. lan' \in Lans /\ PipesOK(lan') /\ (LaterAps = {} => Handles(lan, lan', e))
    BY <1>0, <2>1, <2>2, TetherDownHandled
  <2> QED
    BY <2>1, <2>2, <2>3, DeliverStep DEF e
<1>13. ASSUME NatWanUp PROVE IInv'
  <2>1. /\ b.q # <<>> /\ e.ev = "WAN_UP" /\ b' = Shifted(b) /\ UNCHANGED <<lan, route>>
        /\ nat' = IF e.fam = "v4" /\ nat = NULL THEN e.wan ELSE nat
    BY <1>13 DEF NatWanUp, Deliver, Shifted
  <2>2. e \in WanEvents
    BY <1>10, <2>1, EventKinds
  <2>3. Handles(lan, lan', e)
    BY <2>1, <2>2, WanEventHandled
  <2>4. IsNatEvt(e) <=> e.fam = "v4"
    BY <2>1 DEF IsNatEvt
  <2>5. IsNatEvt(e) => nat = NULL
    <3>1. e = b.q[1] /\ 1 \in 1 .. Len(b.q)
      BY <1>0, <2>1, ShiftedFields, ShiftedAt
    <3> QED
      BY <1>0, <2>1, <3>1 DEF NatOK
  <2>6. nat' = IF ~IsNatEvt(e) THEN nat ELSE IF e.ev = "WAN_UP" THEN e.wan ELSE NULL
    BY <2>1, <2>4, <2>5
  <2> QED
    BY <1>0, <2>1, <2>3, <2>6, DeliverStep
<1>14. ASSUME NatWanDown PROVE IInv'
  <2>1. /\ b.q # <<>> /\ e.ev = "WAN_DOWN" /\ b' = Shifted(b) /\ UNCHANGED <<lan, route>>
        /\ nat' = IF e.fam = "v4" THEN NULL ELSE nat
    BY <1>14 DEF NatWanDown, Deliver, Shifted
  <2>2. e \in WanEvents
    BY <1>10, <2>1, EventKinds
  <2>3. Handles(lan, lan', e)
    BY <2>1, <2>2, WanEventHandled
  <2>4. nat' = IF ~IsNatEvt(e) THEN nat ELSE IF e.ev = "WAN_UP" THEN e.wan ELSE NULL
    BY <2>1 DEF IsNatEvt
  <2> QED
    BY <1>0, <2>1, <2>3, <2>4, DeliverStep
<1>15. ASSUME UNCHANGED vars PROVE IInv'
  <2>1. Follows(b, b')
    BY <1>15 DEF Follows, vars
  <2> QED
    BY <1>0, <1>15, <2>1, FollowingStep DEF vars
<1> QED
  BY <1>1, <1>2, <1>3, <1>4, <1>5, <1>6, <1>7, <1>8, <1>9, <1>11, <1>12, <1>13, <1>14, <1>15 DEF Next

-----------------------------------------------------------------------------
(* The theorems. Framework is what they assume of the events from outside. *)

\* The inductive invariant.
THEOREM Invariance == Framework => (Spec => []IInv)
<1> SUFFICES ASSUME Framework PROVE Spec => []IInv
  OBVIOUS
<1>1. IInv /\ [Next]_vars => IInv'
  BY NextInv
<1> QED
  BY <1>1, InitInv, PTL DEF Spec

\* Types: the counters of the modem interfaces and of the rules on a pipe never
\* fall below zero, and the addresses of an object never exceed their table,
\* whatever access points handle WAN_DOWN_TETHER.
THEOREM TypeCorrect == Framework => (Spec => []TypeOK)
<1>1. IInv => TypeOK
  BY DEF IInv
<1> QED
  BY <1>1, Invariance, PTL

\* At most one WAN object is the upstream of a family, and wan_up and wan_up_v6
\* tell whether there is one.
THEOREM SingleUpstream == Framework => (Spec => []OneUpstream)
<1>1. IInv => OneUpstream
  <2> SUFFICES ASSUME IInv, NEW f \in F
               PROVE  Cardinality({w \in Wans : Active(b, w, f)}) = (IF f \in b.up THEN 1 ELSE 0)
    BY DEF OneUpstream
  <2> DEFINE up == {w \in Wans : Active(b, w, f)}
  <2>1. /\ \A v, w \in Wans : Active(b, v, f) /\ Active(b, w, f) => v = w
        /\ f \in b.up <=> \E w \in Wans : Active(b, w, f)
    BY DEF IInv, BackhaulOK, UpOK
  <2>2. CASE f \in b.up
    <3>1. PICK w \in Wans : Active(b, w, f)
      BY <2>1, <2>2
    <3>2. up = {w}
      BY <2>1, <3>1
    <3> QED
      BY <2>2, <3>2, FS_Singleton
  <2>3. CASE f \notin b.up
    <3>1. up = {}
      BY <2>1, <2>3
    <3> QED
      BY <2>3, <3>1, FS_EmptySet
  <2> QED
    BY <2>2, <2>3
<1> QED
  BY <1>1, Invariance, PTL

\* The list of a family (ipa_if_num_tether_v4, _v6), which outlives the WAN
\* objects, holds only interfaces whose route leads to the upstream, each once.
THEOREM ListsFollowRoutes == Framework => (Spec => []NoOrphans)
<1>1. IInv => NoOrphans
  <2> SUFFICES ASSUME IInv, NEW f \in F
               PROVE  /\ IsInjective(b.tether[f])
                      /\ \A t \in Range(b.tether[f]) : route[t][f] # NULL /\ Active(b, route[t][f], f)
    BY DEF NoOrphans
  <2> DEFINE l == b.tether[f]
  <2>1. l \in Seq(Tethers)
    BY FieldTypes DEF IInv, TypeOK
  <2>2. Once(l) /\ \A t \in Tethers : Holds(l, t) => route[t][f] \in Wans /\ Active(b, route[t][f], f)
    BY DEF IInv, BackhaulOK, ListOK
  <2> HIDE DEF l
  <2>3. DOMAIN l = 1 .. Len(l) /\ \A i \in 1 .. Len(l) : l[i] \in Tethers
    BY <2>1
  <2>4. IsInjective(l)
    BY <2>2, <2>3 DEF IsInjective, Once
  <2>5. ASSUME NEW t \in Range(l) PROVE t \in Tethers /\ Holds(l, t)
    BY <2>3, <2>5 DEF Range, Holds
  <2>6. NULL \notin Wans
    BY BackhaulAssumption
  <2> QED
    BY <2>2, <2>4, <2>5, <2>6 DEF l
<1> QED
  BY <1>1, Invariance, PTL

\* The last interface that leaves the list of a family takes the default route
\* with it, in upstream_route_del as well as when the link of a modem goes.
THEOREM NoUpstreamIdles == Framework => (Spec => []NoIdleUpstream)
<1>1. IInv => NoIdleUpstream
  <2> SUFFICES ASSUME IInv, NEW f \in b.up PROVE b.tether[f] # <<>>
    BY DEF NoIdleUpstream
  <2>1. f \in F
    BY FieldTypes DEF IInv, TypeOK
  <2> QED
    BY <2>1 DEF IInv, BackhaulOK, ListOK
<1> QED
  BY <1>1, Invariance, PTL

\* The downlink filters that the modem was last told, and those on the pipe of an
\* STA, are the firewall exactly while one of their interfaces is the upstream.
THEOREM FiltersFollow == Framework => (Spec => []Filtered)
<1>1. IInv => Filtered
  <2> SUFFICES ASSUME IInv PROVE Filtered
    OBVIOUS
  <2>1. FiltersOK(b)
    BY DEF IInv, BackhaulOK
  <2>2. \A f \in F : Pdns(b, f) # {} <=> \E w \in Modem : b.wan[w] # NULL /\ Usable(b.wan[w], f)
    BY DEF Pdns
  <2> QED
    BY <2>1, <2>2 DEF Filtered, FiltersOK
<1> QED
  BY <1>1, Invariance, PTL

\* The NAT listener has the upstream of IPv4 when every event is handled, though
\* it keeps the first one it was told and its events wait in the queue.
THEOREM NatFollowsUpstream == Framework => (Spec => []NatFollows)
<1>1. IInv => NatFollows
  <2> SUFFICES ASSUME IInv, Idle PROVE \A w \in Wans : nat = w <=> Active(b, w, "v4")
    BY DEF NatFollows
  <2>1. Len(b.q) = 0
    BY DEF Idle
  <2> QED
    BY <2>1 DEF IInv, NatOK
<1> QED
  BY <1>1, Invariance, PTL

\* No uplink rule is left on a pipe, added twice or of the wrong kind, however
\* links, addresses, routes and upstreams come and go, when every interface
\* handles WAN_DOWN_TETHER (there is no second access point).
THEOREM PipesHoldNoStray == Framework /\ LaterAps = {} => (Spec => []NoStrayRules)
<1> SUFFICES ASSUME Framework, LaterAps = {} PROVE Spec => []NoStrayRules
  OBVIOUS
<1>1. IInv => NoStrayRules
  <2> SUFFICES ASSUME IInv, NEW t \in Tethers, NEW f \in F
               PROVE  LET p == lan[t].pipe IN
                      /\ p.ul[f] + p.dft[f] <= 1 /\ p.prefix <= 1
                      /\ Idle /\ ~(lan[t].up /\ isWanUP(b, t, f)) =>
                           p.ul[f] = 0 /\ p.dft[f] = 0 /\ (f = "v6" => p.prefix = 0)
                      /\ Idle /\ p.ul[f] > 0 => route[t][f] \in Modem
                      /\ Idle /\ p.dft[f] > 0 => route[t][f] \in Sta
    BY DEF NoStrayRules
  <2> DEFINE x == lan[t]
  <2>1. x \in LanObjects /\ LansOK(b, lan) /\ BackhaulOK(b, route) /\ b \in Backhauls
    BY DEF IInv, TypeOK, BackhaulOK
  <2>2. ~x.up => IpType(x) = {}
    BY <2>1 DEF LansOK, IpType
  <2>3. \A g \in F : RulesOK(b, x, t, g)
    BY <2>1 DEF LansOK
  <2> HIDE DEF x
  <2>4. ASSUME NEW g \in F PROVE Clean(x, g) \/ \E sta \in BOOLEAN : Served(x, g, sta)
    <3>1. b.sta \in BOOLEAN
      BY <2>1, FieldTypes
    <3>2. CASE \A k \in 1 .. Len(b.q) : ~IsTetherEvt(b.q[k], t, g)
      BY <2>3, <3>1, <3>2 DEF RulesOK
    <3>3. CASE ~\A k \in 1 .. Len(b.q) : ~IsTetherEvt(b.q[k], t, g)
      <4>1. PICK k \in 1 .. Len(b.q) : IsTetherEvt(b.q[k], t, g)
        BY <3>3
      <4> DEFINE e == b.q[k]
      <4>2. e \in Events
        BY <2>1, QueueAt
      <4>3. e.is_sta \in BOOLEAN
        BY <4>1, <4>2, EventKinds DEF IsTetherEvt
      <4> QED
        BY <2>3, <4>1, <4>3 DEF RulesOK
    <3> QED
      BY <3>2, <3>3
  <2>5. ASSUME NEW g \in F
        PROVE  x.pipe.ul[g] + x.pipe.dft[g] <= 1 /\ (g = "v6" => x.pipe.prefix <= 1)
    <3>1. ASSUME Clean(x, g) PROVE x.pipe.ul[g] + x.pipe.dft[g] <= 1 /\ (g = "v6" => x.pipe.prefix <= 1)
      BY <3>1 DEF Clean
    <3>2. ASSUME NEW sta \in BOOLEAN, Served(x, g, sta), g \in IpType(x)
          PROVE  x.pipe.ul[g] + x.pipe.dft[g] <= 1 /\ (g = "v6" => x.pipe.prefix <= 1)
      BY <3>2 DEF Served
    <3>3. ASSUME NEW sta \in BOOLEAN, Served(x, g, sta), g \notin IpType(x) PROVE Clean(x, g)
      BY <3>3 DEF Served
    <3> QED
      BY <2>4, <3>1, <3>2, <3>3
  <2>6. x.pipe.ul[f] + x.pipe.dft[f] <= 1 /\ x.pipe.prefix <= 1
    BY <2>5 DEF F
  <2>7. ASSUME Idle PROVE IF isWanUP(b, t, f) THEN Served(x, f, b.sta) ELSE Clean(x, f)
    BY <2>1, <2>3, <2>7, IdleRules, IsWanUpIsHolds DEF Idle
  <2>8. ASSUME Idle, ~(x.up /\ isWanUP(b, t, f))
        PROVE  x.pipe.ul[f] = 0 /\ x.pipe.dft[f] = 0 /\ (f = "v6" => x.pipe.prefix = 0)
    <3>1. Clean(x, f)
      BY <2>2, <2>7, <2>8 DEF Served
    <3> QED
      BY <3>1 DEF Clean
  <2>9. ASSUME Idle, x.pipe.ul[f] > 0 \/ x.pipe.dft[f] > 0
        PROVE  /\ route[t][f] \in Wans
               /\ x.pipe.ul[f] > 0 => route[t][f] \notin Sta
               /\ x.pipe.dft[f] > 0 => route[t][f] \in Sta
    <3>1. ~Clean(x, f)
      BY <2>9 DEF Clean
    <3>2. isWanUP(b, t, f) /\ Served(x, f, b.sta) /\ f \in IpType(x)
      BY <2>7, <2>9, <3>1 DEF Served
    <3>3. route[t][f] \in Wans /\ Active(b, route[t][f], f)
      BY <2>1, <3>2, IsWanUpIsHolds DEF BackhaulOK, ListOK
    <3>4. b.sta <=> route[t][f] \in Sta
      BY <2>1, <3>3 DEF BackhaulOK, KindOK
    <3>5. (x.pipe.ul[f] > 0 => ~b.sta) /\ (x.pipe.dft[f] > 0 => b.sta)
      BY <3>2 DEF Served
    <3> QED
      BY <3>3, <3>4, <3>5
  <2> QED
    BY <2>6, <2>8, <2>9 DEF x, Wans
<1> QED
  BY <1>1, Invariance, PTL

\* An interface with an IPv4 address and a route has its uplink rules, in whatever
\* order link, address, route and upstream came.
THEOREM RoutedIsOffloaded == Framework /\ LaterAps = {} => (Spec => []Offloaded)
<1> SUFFICES ASSUME Framework, LaterAps = {} PROVE Spec => []Offloaded
  OBVIOUS
<1>1. IInv => Offloaded
  <2> SUFFICES ASSUME IInv, NEW t \in Tethers, Idle, lan[t].v4, isWanUP(b, t, "v4")
               PROVE  lan[t].pipe.ul["v4"] + lan[t].pipe.dft["v4"] = 1
    BY DEF Offloaded
  <2> DEFINE x == lan[t]
  <2>1. LansOK(b, lan) /\ BackhaulOK(b, route) /\ "v4" \in F
    BY DEF IInv, F
  <2>2. RulesOK(b, x, t, "v4") /\ "v4" \in IpType(x)
    BY <2>1 DEF LansOK, IpType
  <2> HIDE DEF x
  <2>3. Served(x, "v4", b.sta)
    BY <2>1, <2>2, IdleRules, IsWanUpIsHolds DEF Idle
  <2>4. x.pipe.ul["v4"] + x.pipe.dft["v4"] = 1
    BY <2>2, <2>3 DEF Served
  <2> QED
    BY <2>4 DEF x
<1> QED
  BY <1>1, Invariance, PTL
=============================================================================
