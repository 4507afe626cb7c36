------------------------------- MODULE LocalNet -------------------------------
(***************************************************************************)
(* The clients of the device: the interfaces with their client tables, the *)
(* neighbour cache, the LAN to LAN bridge and the thread that hands them   *)
(* the events of the kernel and of the WLAN driver.                        *)
(*                                                                         *)
(* An action is one event, with the internal events it leads to (those of  *)
(* the bridge), which the dispatcher handles before the next external one. *)
(* Events that a handler posts as external ones wait in q, behind whatever *)
(* the kernel and the driver have posted in between.                       *)
(*                                                                         *)
(* A scenario, chosen at the start, says which interfaces and MAC addresses *)
(* there are, which kinds of events happen and how many events may wait.   *)
(***************************************************************************)
EXTENDS LanClients, WlanClients, WanClients

CONSTANTS
    Scenarios,
    Class,                 \* "eth", "odu", "ap" or "sta", of every interface
    L2,                    \* and its L2 header type
    MAX_NUM_CLIENT, MAX_NUM_IFACE, MAX_NUM_CACHED_CLIENT_ADD_EVENT

VARIABLES
    sc,    \* the scenario
    obj,   \* the object of every interface that is up
    nbr,   \* IPACM_Neighbor
    q,     \* the external events posted by handlers
    hw,    \* headers, routing rules, NAT addresses
    br,    \* IPACM_LanToLan
    wlan,  \* isMCC_Mode and total_num_wifi_clients
    net    \* the network: see Net

vars == <<sc, obj, nbr, q, hw, br, wlan, net>>

Nb == INSTANCE Neighbor
Br == INSTANCE LanToLan WITH Wlan <- {i \in DOMAIN Class : Class[i] = "ap"}

Macs == DOMAIN sc.v4
Up   == {i \in sc.ifs : obj[i] # NULL}
Is(i, class) == i \in Up /\ Class[i] \in class
Lan  == {"eth", "odu"}

\* What happens in the scenario.
May(kind) == kind \in sc.kinds

\* at: the access point a station is associated with; told: the interface and
\* the IPv4 address the kernel last reported of a client, while its entry of the
\* neighbour cache lasts; mixed: the clients whose power_save_set is another's;
\* late: the interfaces that were not ready to follow a switch of the mode;
\* ghost: clients that left before the bridge had heard of their interface;
\* refused: clients for which the bridge had no room then.
Net == [at |-> [m \in Macs |-> NULL], told |-> [m \in Macs |-> NULL],
        mixed |-> {}, late |-> {}, ghost |-> {}, refused |-> {}]

NewObject(i) ==
    [if |-> i, class |-> Class[i], ips |-> {}, clients |-> <<>>, ps |-> <<>>, guest |-> FALSE,
     odu |-> NULL, router |-> sc.router, embms |-> sc.embms, gw |-> FALSE, dft |-> {}]

Init ==
    /\ sc \in Scenarios
    /\ obj = [i \in sc.ifs |-> NULL]
    /\ nbr = Nb!NoNeighbors(sc.lim)
    /\ q = <<>> /\ hw = NoHw /\ br = Br!NoBridge
    /\ wlan = [mcc |-> FALSE, total |-> 0]
    /\ net = Net

-----------------------------------------------------------------------------
(* One event, handled by the objects of the interfaces in S. *)

Handled(S, op(_)) ==
    LET step(r, i) ==
            LET c == op(Ctx(r.obj[i], r.hw, wlan.mcc, r.total)) IN
            [obj |-> [r.obj EXCEPT ![i] = c.o], hw |-> c.hw, total |-> c.total, evs |-> r.evs \o c.evs]
    IN FoldLeft(step, [obj |-> obj, hw |-> hw, total |-> wlan.total, evs |-> <<>>], SetToSeq(S))

\* Then the bridge handles what they posted.
Bridged(r) ==
    FoldLeft(LAMBDA b, e : Br!event_callback(b, e, r.obj[e.if].guest, wlan.mcc), br, r.evs)

Present(o, at, i, m) ==
    o[i] # NULL /\ (at[m] = i \/ \E k \in DOMAIN o[i].clients : o[i].clients[k].mac = m)

\* The clients that wait for their interface and are gone.
Gone(o, at, b) == {e \in Range(b.cached) : ~Present(o, at, e[1], e[2])}

Refused(r, b) ==
    {<<e.if, e.mac>> : e \in {x \in Range(r.evs) :
        /\ x.ev = "CLIENT_ADD" /\ x.if \notin DOMAIN b.ifs
        /\ ~Contains(b.cached, <<x.if, x.mac>>) /\ Len(b.cached) = MAX_NUM_CACHED_CLIENT_ADD_EVENT}}

\* The step: r is what the handlers did, o the objects after it, n the network.
Commit(r, o, n) ==
    /\ obj' = o
    /\ hw' = r.hw
    /\ br' = Bridged(r)
    /\ wlan' = [wlan EXCEPT !.total = r.total]
    /\ net' = [n EXCEPT !.ghost = @ \cup Gone(o, n.at, br'), !.refused = @ \cup Refused(r, br')]
    /\ UNCHANGED sc

Handle(S, op(_), n) == LET r == Handled(S, op) IN Commit(r, r.obj, n)

\* The neighbour cache posts what it has to say.
Neighbors(n) ==
    /\ Len(q) < sc.maxq
    /\ nbr' = [n EXCEPT !.out = <<>>]
    /\ q' = q \o n.out

-----------------------------------------------------------------------------
(* Interfaces. *)

LinkUp(i) ==
    /\ obj[i] = NULL
    /\ obj' = [obj EXCEPT ![i] = NewObject(i)]
    /\ UNCHANGED <<sc, nbr, q, hw, br, wlan, net>>

\* IPA_ADDR_ADD_EVENT; a second IPv4 address is ignored. An ODU in bridge mode
\* hands the address to its driver, and is told nothing else.
AddrAdd(i, f) ==
    /\ obj[i] # NULL /\ f \in sc.fams
    /\ f = "v4" => f \notin obj[i].ips
    /\ Handle({i}, LAMBDA c : IF Class[i] = "sta" THEN [c EXCEPT !.o.ips = @ \cup {f}]
                              ELSE IF OduBridge(c.o) THEN c
                              ELSE handle_addr_evt(c, f), net)
    /\ UNCHANGED <<nbr, q>>

link_down(c) ==
    CASE c.o.class \in Lan -> lan_handle_down_evt(c)
      [] c.o.class = "ap"  -> wlan_link_down(c)
      [] c.o.class = "sta" -> wan_clients_down(wan_default_route_del(wan_default_route_del(c, "v4"), "v6"))

\* An STA without an address leaves its clients' rules behind (handle_down_evt of
\* IPACM_Wan goes past them), and is not taken down here.
LinkDown(i) ==
    /\ May("down") /\ obj[i] # NULL
    /\ Class[i] = "sta" => obj[i].ips # {} \/ obj[i].clients = <<>>
    /\ LET r == Handled({i}, link_down) IN
       Commit(r, [r.obj EXCEPT ![i] = NULL],
              [net EXCEPT !.at = [m \in Macs |-> IF @[m] = i THEN NULL ELSE @[m]],
                          !.mixed = {x \in @ : x[1] # i}, !.late = @ \ {i}])
    /\ UNCHANGED <<nbr, q>>

-----------------------------------------------------------------------------
(* Stations of an access point, from the WLAN driver. *)

\* WLAN_CLIENT_CONNECT_EX. Main posts a neighbour event without an address after
\* it: see NeighNoAddr.
Associate(i, m) ==
    /\ Is(i, {"ap"}) /\ m \in sc.on[i] /\ net.at[m] = NULL
    /\ Neighbors(Nb!client_add_ex(nbr, i, m))
    /\ Handle({i}, LAMBDA c : wlan_client_add(c, m), [net EXCEPT !.at[m] = i])

Disassociate(i, m) ==
    /\ Is(i, {"ap"}) /\ net.at[m] = i
    /\ Handle({i}, LAMBDA c : wlan_client_del(c, m),
              [net EXCEPT !.at[m] = NULL,
                          !.mixed = (@ \ {<<i, m>>}) \cup ({i} \X Mixed(obj[i], m))])
    /\ UNCHANGED <<nbr, q>>

PowerSave(i, m) ==
    /\ May("sleep") /\ Is(i, {"ap"}) /\ net.at[m] = i
    /\ Handle({i}, LAMBDA c : handle_wlan_client_pwrsave(c, m), net)
    /\ UNCHANGED <<nbr, q>>

Recover(i, m) ==
    /\ May("sleep") /\ Is(i, {"ap"}) /\ net.at[m] = i
    /\ Handle({i}, LAMBDA c : wlan_client_recover(c, m), net)
    /\ UNCHANGED <<nbr, q>>

GuestSwitch(i) ==
    /\ May("guest") /\ Is(i, {"ap"})
    /\ Handle({i}, wlan_cfg_change, net)
    /\ UNCHANGED <<nbr, q>>

-----------------------------------------------------------------------------
(* Neighbours, from the kernel. *)

\* A station is reported on the access point it is with, until it is reported
\* gone from any.
Reported(op, i, m) ==
    /\ i \in Up /\ m \in sc.on[i]
    /\ (op = "ADD" /\ Class[i] = "ap") => net.at[m] = i

\* The clients whose entry a full cache reuses for m.
Reused(n, m) ==
    IF Nb!Known(n, m) \/ Len(n.tbl) < n.lim THEN {} ELSE {m, n.tbl[n.circ + 1].mac}

\* What the kernel has told of m, and the cache should remember.
Told(m, t, lost) == [net EXCEPT !.told = [x \in Macs |-> IF x \in lost THEN NULL
                                                         ELSE IF x = m THEN t ELSE @[x]]]

NeighV4(op, i, m, a) ==
    /\ Reported(op, i, m) /\ Nb!CanStore(nbr, m)
    /\ Neighbors(Nb!neigh_v4(nbr, op, i, m, a))
    /\ net' = Told(m, IF op = "ADD" THEN <<i, a>> ELSE NULL, IF op = "ADD" THEN Reused(nbr, m) ELSE {})
    /\ UNCHANGED <<sc, obj, hw, br, wlan>>

NeighV4Bridge(op, m, a) ==
    /\ May("bridge")
    /\ Neighbors(Nb!neigh_v4_bridge(nbr, op, m, a))
    /\ net' = Told(m, IF op = "ADD" /\ net.told[m] # NULL THEN <<net.told[m][1], a>> ELSE NULL, {})
    /\ UNCHANGED <<sc, obj, hw, br, wlan>>

\* A deletion on a LAN interface is of an address the client has there, and nothing
\* else of the client waits (see StrayDel).
Settled(i, m, a) ==
    Is(i, Lan) => /\ ~StrayDel(obj[i], [fam |-> "v6", mac |-> m, addr |-> a])
                  /\ \A k \in DOMAIN q : q[k].ev = "SWITCH" \/ q[k].mac # m

NeighV6(op, i, m, a) ==
    /\ Reported(op, i, m) /\ (op = "DEL" => Settled(i, m, a))
    /\ Neighbors(Nb!neigh_v6(nbr, op, i, m, a))
    /\ UNCHANGED <<sc, obj, hw, br, wlan, net>>

NeighV6Bridge(op, m, a) ==
    /\ May("bridge")
    /\ (op = "DEL" /\ Nb!Known(nbr, m)) => Settled(nbr.tbl[Nb!Find(nbr, m)].iface, m, a)
    /\ Neighbors(Nb!neigh_v6_bridge(nbr, op, m, a))
    /\ UNCHANGED <<sc, obj, hw, br, wlan, net>>

NeighNoAddr(op, i, m) ==
    /\ May("noaddr") /\ Reported(op, i, m) /\ Nb!CanStore(nbr, m)
    /\ Neighbors(Nb!neigh_noaddr(nbr, op, i, m))
    /\ net' = Told(m, IF op = "ADD" THEN net.told[m] ELSE NULL, IF op = "ADD" THEN Reused(nbr, m) ELSE {})
    /\ UNCHANGED <<sc, obj, hw, br, wlan>>

NeighNoAddrBridge(op, m) ==
    /\ May("noaddr") /\ May("bridge")
    /\ Neighbors(Nb!neigh_noaddr_bridge(nbr, op, m))
    /\ net' = Told(m, IF op = "ADD" THEN net.told[m] ELSE NULL, {})
    /\ UNCHANGED <<sc, obj, hw, br, wlan>>

neigh_client(c, d) ==
    CASE c.o.class \in Lan /\ d.ev = "ADD" -> lan_neigh_add(c, d)
      [] c.o.class \in Lan /\ d.ev = "DEL" -> lan_neigh_del(c, d)
      [] c.o.class = "ap"  /\ d.ev = "ADD" -> wlan_neigh_add(c, d)
      [] c.o.class = "sta" /\ d.ev = "ADD" -> wan_neigh_add(c, d)
      [] OTHER -> c

\* IPA_NEIGH_CLIENT_IP_ADDR_ADD_EVENT and _DEL_EVENT reach the interface.
HandleNeighClient ==
    /\ q # <<>> /\ Head(q).ev # "SWITCH"
    /\ q' = Tail(q)
    /\ Handle(Up \cap {Head(q).if}, LAMBDA c : neigh_client(c, Head(q)), net)
    /\ UNCHANGED nbr

-----------------------------------------------------------------------------
(* The channels of the radio, the upstream network. *)

\* The flag changes when the driver's message is read, the event follows.
SwitchMode ==
    /\ May("mode") /\ Len(q) < sc.maxq
    /\ wlan' = [wlan EXCEPT !.mcc = ~@]
    /\ q' = Append(q, [ev |-> "SWITCH", scc |-> wlan.mcc])
    /\ UNCHANGED <<sc, obj, nbr, hw, br, net>>

switch(c, is_scc) ==
    CASE c.o.class = "ap"  -> wlan_switch(c)
      [] c.o.class = "sta" -> wan_switch(c, is_scc)
      [] OTHER -> c

\* An interface follows the mode with its IPv4 address, an STA as gateway.
Ready(o) == "v4" \in o.ips /\ (o.class = "sta" => o.gw)

RulesV4(o) == ({o.clients[k].h4 : k \in DOMAIN o.clients} \ {NULL}) \cup {r \in o.dft : r.fam = "v4"}

HandleSwitch ==
    /\ q # <<>> /\ Head(q).ev = "SWITCH"
    /\ q' = Tail(q)
    /\ Handle(Up, LAMBDA c : switch(c, Head(q).scc),
              [net EXCEPT !.late = @ \cup {i \in Up : ~Ready(obj[i]) /\ RulesV4(obj[i]) # {}}])
    /\ UNCHANGED nbr

\* IPA_HANDLE_WAN_DOWN_V6, of an upstream interface that is not modelled here.
WanDownV6 ==
    /\ May("wan")
    /\ Handle({i \in Up : Class[i] # "sta"},
              LAMBDA c : IF c.o.class = "ap" THEN handle_wlan_client_reset_rt(c)
                         ELSE handle_lan_client_reset_rt(c), net)
    /\ UNCHANGED <<nbr, q>>

\* The default route of an STA comes and goes with its interface as gateway.
RouteAdd(i, f) ==
    /\ Is(i, {"sta"}) /\ f \in obj[i].ips /\ \A r \in obj[i].dft : r.fam # f
    /\ Handle({i}, LAMBDA c : wan_default_route_add(c, f), net)
    /\ UNCHANGED <<nbr, q>>

RouteDel(i, f) ==
    /\ Is(i, {"sta"}) /\ \E r \in obj[i].dft : r.fam = f
    /\ Handle({i}, LAMBDA c : wan_default_route_del(c, f), net)
    /\ UNCHANGED <<nbr, q>>

Ops == {"ADD", "DEL"}

Next ==
    \/ \E i \in sc.ifs : LinkUp(i)
    \/ \E i \in sc.ifs : LinkDown(i)
    \/ \E i \in sc.ifs, f \in F : AddrAdd(i, f)
    \/ \E i \in sc.ifs, m \in Macs : Associate(i, m)
    \/ \E i \in sc.ifs, m \in Macs : Disassociate(i, m)
    \/ \E i \in sc.ifs, m \in Macs : PowerSave(i, m)
    \/ \E i \in sc.ifs, m \in Macs : Recover(i, m)
    \/ \E i \in sc.ifs : GuestSwitch(i)
    \/ \E op \in Ops, i \in sc.ifs, m \in Macs : \E a \in sc.v4[m] : NeighV4(op, i, m, a)
    \/ \E op \in Ops, m \in Macs : \E a \in sc.v4[m] : NeighV4Bridge(op, m, a)
    \/ \E op \in Ops, i \in sc.ifs, m \in Macs : \E a \in sc.v6[m] : NeighV6(op, i, m, a)
    \/ \E op \in Ops, m \in Macs : \E a \in sc.v6[m] : NeighV6Bridge(op, m, a)
    \/ \E op \in Ops, i \in sc.ifs, m \in Macs : NeighNoAddr(op, i, m)
    \/ \E op \in Ops, m \in Macs : NeighNoAddrBridge(op, m)
    \/ HandleNeighClient
    \/ SwitchMode
    \/ HandleSwitch
    \/ WanDownV6
    \/ \E i \in sc.ifs, f \in F : RouteAdd(i, f)
    \/ \E i \in sc.ifs, f \in F : RouteDel(i, f)

Spec == Init /\ [][Next]_vars

-----------------------------------------------------------------------------
(* Properties. *)

Slots(i) == DOMAIN obj[i].clients
RulesOf(s) == ({s.h4} \ {NULL}) \cup UNION Range(s.h6)
HasOduRoutes(i) == Class[i] = "odu" /\ obj[i].odu # NULL /\ obj[i].embms

\* The objects, tables, events and hardware are of their types.
TypeOK ==
    /\ sc \in Scenarios
    /\ \A i \in Up : /\ obj[i].ips \subseteq F
                     /\ \A k \in Slots(i) : /\ obj[i].clients[k].mac \in sc.on[i]
                                            /\ Len(obj[i].clients[k].v6) <= IPV6_NUM_ADDR
                     /\ Class[i] = "ap" => Len(obj[i].ps) = Len(obj[i].clients)
    /\ Len(nbr.tbl) <= nbr.lim /\ nbr.circ <= nbr.lim
    /\ wlan.total <= IPA_MAX_NUM_WIFI_CLIENTS
    /\ br.cached \in Seq(sc.ifs \X Macs) /\ DOMAIN br.ifs \subseteq Up

\* The client rules of the hardware are the ones some object can still delete: of
\* a slot, the ODU's, an STA's default routes. No order of addresses, deletions,
\* sleep, switches and link changes leaves one behind, or a handle without a rule.
RoutesOwned ==
    hw.rt = UNION {UNION {RulesOf(obj[i].clients[k]) : k \in Slots(i)} \cup obj[i].dft
                   \cup (IF HasOduRoutes(i) THEN odu_routes(obj[i]) ELSE {}) : i \in Up}

\* So are the headers; a client has its headers for as long as it has its slot.
HeadersOwned ==
    hw.hdr = UNION {{Header(obj[i], obj[i].clients[k].mac, f) : k \in Slots(i), f \in F}
                    \cup {Header(obj[i], "odu", f) : f \in IF obj[i].odu = NULL THEN {} ELSE F} : i \in Up}

\* A client that is awake has the rules of all its addresses, one that sleeps has
\* none, whatever came in while it slept; but for the clients of an access point
\* that have taken over another's power_save_set.
Routed ==
    \A i \in Up : \A k \in Slots(i) :
        LET s == obj[i].clients[k]
            asleep == Class[i] = "ap" /\ obj[i].ps[k]
        IN \/ <<i, s.mac>> \in net.mixed
           \/ IF asleep THEN s.h4 = NULL /\ s.h6 = <<>>
              ELSE (s.h4 # NULL <=> s.v4 # NULL) /\ Len(s.h6) = Len(s.v6)

\* The NAT listener has the IPv4 addresses of the clients behind the device, of
\* them and of no other, and apart from them those in front of an STA.
NatOwned ==
    LET addrs(class) == {obj[i].clients[k].v4 : <<i, k>> \in
                           {<<j, n>> \in Up \X (1..Cardinality(Macs)) : Class[j] \in class /\ n \in Slots(j)}}
                        \ {NULL}
    IN hw.nat = addrs(Lan \cup {"ap"}) /\ hw.sta = addrs({"sta"})

\* Once the switches of the mode are handled, the IPv4 rules of the radio's
\* clients, the default route of an STA and the routes of the bridge lead to the
\* pipe of the mode, whatever was added between the flag and its event; but for an
\* interface that could not follow.
PipeFollows ==
    (\A k \in DOMAIN q : q[k].ev # "SWITCH") =>
        /\ \A i \in Up \ net.late : Class[i] \in {"ap", "sta"} =>
                \A r \in RulesV4(obj[i]) : r.dst = Pipe(wlan.mcc)
        /\ \A r \in br.rt : Class[r.on] = "ap" => r.dst = Pipe(wlan.mcc)

\* A station that is associated again with the access point its address was seen
\* on has this address again, once the cache's event is handled.
ReconnectKeepsAddress ==
    \A i \in Up : (q = <<>> /\ Class[i] = "ap") => \A k \in Slots(i) :
        LET t == net.told[obj[i].clients[k].mac] IN
        (t # NULL /\ t[1] = i) => obj[i].clients[k].v4 = t[2]

\* The bridge: peers are the interfaces that talk to each other, and there are the
\* contexts, routes and filters of exactly these peers and their clients, in
\* whatever order interfaces, addresses and clients came and went.
BridgeExact ==
    LET ifs == br.ifs
        K == DOMAIN ifs
        own(i) == IF Class[i] = "ap" THEN {"intra"} ELSE {}
        kinds(i) == {L2[p] : p \in ifs[i].peers} \cup own(i)
        seen(i) == ifs[i].peers \cup (IF Class[i] = "ap" THEN {i} ELSE {})
    IN /\ \A i \in K : /\ ifs[i].peers = IF ifs[i].inter THEN {p \in K \ {i} : ifs[p].inter} ELSE {}
                       /\ \A t \in DOMAIN ifs[i].ref :
                             ifs[i].ref[t] = Cardinality({p \in ifs[i].peers : L2[p] = t})
       /\ br.ctx = UNION {{i} \X kinds(i) : i \in K}
       /\ {<<r.on, r.kind, r.mac>> : r \in br.rt} = UNION {{i} \X kinds(i) \X ifs[i].clients : i \in K}
       /\ Cardinality(br.rt) = Cardinality({<<r.on, r.kind, r.mac>> : r \in br.rt})
       /\ br.flt = UNION {UNION {{Br!Filter(p, i, m, f) : m \in ifs[i].clients, f \in ifs[p].assigned}
                                 : p \in seen(i)} : i \in K}
       /\ br.leaked = {}

\* The bridge knows the clients of the tables, or keeps them until their interface
\* has an address, unless it has no room; and it has no others, but for those that
\* left before it knew their interface.
BridgeFollows ==
    /\ \A i \in Up : Class[i] # "sta" => \A k \in Slots(i) :
          LET m == obj[i].clients[k].mac IN
          \/ i \in DOMAIN br.ifs /\ m \in br.ifs[i].clients
          \/ i \notin DOMAIN br.ifs /\ Contains(br.cached, <<i, m>>)
          \/ <<i, m>> \in net.refused
          \/ obj[i].clients[k].v4 = NULL /\ obj[i].clients[k].v6 = <<>> /\ Class[i] \in Lan
    /\ \A i \in DOMAIN br.ifs : \A m \in br.ifs[i].clients :
          Present(obj, net.at, i, m) \/ <<i, m>> \in net.ghost
=============================================================================
