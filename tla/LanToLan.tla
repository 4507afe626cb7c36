------------------------------- MODULE LanToLan -------------------------------
(***************************************************************************)
(* IPACM_LanToLan.cpp: offload of traffic between clients of the device,   *)
(* of two interfaces or of one access point, by MAC address.               *)
(*                                                                         *)
(* For a client of interface i and a peer interface p there is a filter on *)
(* p, per family p has an address of, that sends what is for the client to *)
(* the routing table of the pair of L2 header types of p and i; and in     *)
(* that table a route to the pipe of i, with a header processing context   *)
(* from one header type to the other. Tables and contexts are shared by    *)
(* all peers of one header type, which are counted in ref.                 *)
(*                                                                         *)
(* b is the state of the singleton: ifs the interfaces it knows, cached the *)
(* clients of interfaces it does not know yet, ctx, rt and flt what it has *)
(* put into the hardware, leaked the filters it has lost the handle of.    *)
(* The lists are sets. A route stands for the rules of both families.      *)
(* IPACM_LanToLan_Iface::handle_down_event reads the transmit properties   *)
(* of an interface whose object has freed them; they are taken to be still *)
(* as they were.                                                           *)
(***************************************************************************)
EXTENDS Naturals, SequencesExt, FiniteSets

CONSTANTS
    NULL,
    L2,                   \* the L2 header type of every interface
    Wlan,                 \* interfaces of category WLAN_IF
    MAX_NUM_CLIENT,       \* clients of an interface (16)
    MAX_NUM_IFACE,        \* interfaces (10)
    MAX_NUM_CACHED_CLIENT_ADD_EVENT

NoBridge == [ifs |-> <<>>, cached |-> <<>>, ctx |-> {}, rt |-> {}, flt |-> {}, leaked |-> {}]

L2Types == {L2[i] : i \in DOMAIN L2}

\* The constructor of IPACM_LanToLan_Iface. A guest access point does not talk to
\* other interfaces.
NewIface(i, guest) ==
    [assigned |-> {}, inter |-> ~guest, intra |-> i \in Wlan,
     ref |-> [t \in L2Types |-> 0], peers |-> {}, clients |-> {}]

IsKnown(b, i) == i \in DOMAIN b.ifs

-----------------------------------------------------------------------------
(* The hardware. kind is the header type of the peer, or "intra". *)

Route(b, i, kind, mac, dst) == [on |-> i, kind |-> kind, mac |-> mac, dst |-> dst]

BridgePipe(i, mcc) == IF i \in Wlan /\ mcc THEN "alt" ELSE "main"

eth_bridge_add_rt_rule(b, i, kind, mac, mcc) ==
    [b EXCEPT !.rt = @ \cup {Route(b, i, kind, mac, BridgePipe(i, mcc))}]

eth_bridge_del_rt_rule(b, i, kind, mac) ==
    [b EXCEPT !.rt = {r \in @ : ~(r.on = i /\ r.kind = kind /\ r.mac = mac)}]

\* The routes move to the pipe of the mode, on an access point.
eth_bridge_modify_rt_rule(b, i, kind, mac, mcc) ==
    IF i \notin Wlan THEN b
    ELSE [b EXCEPT !.rt = {IF r.on = i /\ r.kind = kind /\ r.mac = mac
                           THEN [r EXCEPT !.dst = BridgePipe(i, mcc)] ELSE r : r \in @}]

eth_bridge_add_hdr_proc_ctx(b, i, kind) == [b EXCEPT !.ctx = @ \cup {<<i, kind>>}]
eth_bridge_del_hdr_proc_ctx(b, i, kind) == [b EXCEPT !.ctx = @ \ {<<i, kind>>}]

Filter(on, peer, mac, f) == [on |-> on, peer |-> peer, mac |-> mac, fam |-> f]

eth_bridge_add_flt_rule(b, x) ==
    [b EXCEPT !.flt = @ \cup {x}, !.leaked = IF x \in b.flt THEN @ \cup {x} ELSE @]

eth_bridge_del_flt_rule(b, X) == [b EXCEPT !.flt = @ \ X]

-----------------------------------------------------------------------------
(* IPACM_LanToLan_Iface. *)

\* Is there a route in the table that a filter on `on` for clients of peer uses.
GetRoutingTable(b, on, peer) ==
    \E r \in b.rt : IF on = peer THEN r.kind = "intra" ELSE r.kind = L2[on] /\ L2[r.on] = L2[peer]

add_client_flt_rule(b, on, peer, mac, f) ==
    IF ~GetRoutingTable(b, on, peer) THEN b
    ELSE eth_bridge_add_flt_rule(b, Filter(on, peer, mac, f))

\* op for every element of a set, in some order.
ForAll(op(_, _), b, S) == FoldLeft(op, b, SetToSeq(S))

add_client_rt_rule(b, i, kind, mac, mcc) == eth_bridge_add_rt_rule(b, i, kind, mac, mcc)
del_client_rt_rule(b, i, kind, mac)      == eth_bridge_del_rt_rule(b, i, kind, mac)

\* Filters on interface `on` for the clients of its peers, and for its own.
add_all_inter_interface_client_flt_rule(b, on, f) ==
    ForAll(LAMBDA x, p : ForAll(LAMBDA y, m : add_client_flt_rule(y, on, p, m, f), x, x.ifs[p].clients),
           b, b.ifs[on].peers)

add_all_intra_interface_client_flt_rule(b, on, f) ==
    ForAll(LAMBDA x, m : add_client_flt_rule(x, on, on, m, f), b, b.ifs[on].clients)

\* Filters for one client of a peer, of every family with an address.
add_one_client_flt_rule(b, on, peer, mac) ==
    ForAll(LAMBDA x, f : add_client_flt_rule(x, on, peer, mac, f), b, b.ifs[on].assigned)

del_client_flt_rule(b, on, peer, mac) ==
    eth_bridge_del_flt_rule(b, {Filter(on, peer, mac, f) : f \in b.ifs[on].assigned})

del_one_client_flt_rule(b, on, peer, mac) == del_client_flt_rule(b, on, peer, mac)

clear_all_flt_rule_for_one_peer_iface(b, on, peer) ==
    eth_bridge_del_flt_rule(b, {x \in b.flt : x.on = on /\ x.peer = peer /\ x.fam \in b.ifs[on].assigned})

\* The routes for a header type go with the last peer that has it; for "intra" the
\* interface is its own peer.
clear_all_rt_rule_for_one_peer_iface(b, i, kind) ==
    LET type == IF kind = "intra" THEN L2[i] ELSE kind IN
    IF b.ifs[i].ref[type] # 0 THEN b
    ELSE ForAll(LAMBDA x, m : del_client_rt_rule(x, i, kind, m), b, b.ifs[i].clients)

add_hdr_proc_ctx(b, i, kind) ==
    IF b.ifs[i].ref[kind] = 1 THEN eth_bridge_add_hdr_proc_ctx(b, i, kind) ELSE b

del_hdr_proc_ctx(b, i, kind) ==
    IF b.ifs[i].ref[kind] = 0 THEN eth_bridge_del_hdr_proc_ctx(b, i, kind) ELSE b

\* IPACM_LanToLan_Iface::handle_new_iface_up: i gets the peer p.
iface_new_peer(b, i, p) ==
    add_hdr_proc_ctx([b EXCEPT !.ifs[i].ref[L2[p]] = @ + 1, !.ifs[i].peers = @ \cup {p}], i, L2[p])

\* The clients of i get routes for the header type of its new peer.
add_client_rt_rule_for_new_iface(b, i, p, mcc) ==
    IF b.ifs[i].ref[L2[p]] # 1 THEN b
    ELSE ForAll(LAMBDA x, m : add_client_rt_rule(x, i, L2[p], m, mcc), b, b.ifs[i].clients)

handle_intra_interface_info(b, i) == eth_bridge_add_hdr_proc_ctx(b, i, "intra")

\* IPACM_LanToLan_Iface::handle_client_add: routes once per header type, filters
\* on every peer. A client that is known, and one too many, is ignored.
iface_client_add(b, i, mac, mcc) ==
    LET me == b.ifs[i]
        t == [b EXCEPT !.ifs[i].clients = @ \cup {mac}]
        rt(x) == ForAll(LAMBDA y, k : add_client_rt_rule(y, i, k, mac, mcc), x, {L2[p] : p \in me.peers})
        inter(x) == IF ~me.inter THEN x
                    ELSE ForAll(LAMBDA y, p : add_one_client_flt_rule(y, p, i, mac), rt(x), me.peers)
        intra(x) == IF ~me.intra THEN x
                    ELSE add_one_client_flt_rule(add_client_rt_rule(x, i, "intra", mac, mcc), i, i, mac)
    IN IF mac \in me.clients \/ Cardinality(me.clients) = MAX_NUM_CLIENT THEN b
       ELSE intra(inter(t))

\* IPACM_LanToLan_Iface::handle_client_del
iface_client_del(b, i, mac) ==
    LET me == b.ifs[i]
        flt(x) == ForAll(LAMBDA y, p : del_one_client_flt_rule(y, p, i, mac), x, me.peers)
        rt(x) == ForAll(LAMBDA y, k : del_client_rt_rule(y, i, k, mac), x, {L2[p] : p \in me.peers})
        inter(x) == IF me.inter THEN rt(flt(x)) ELSE x
        intra(x) == IF me.intra THEN del_client_rt_rule(del_client_flt_rule(x, i, i, mac), i, "intra", mac)
                    ELSE x
    IN IF mac \notin me.clients THEN b
       ELSE [intra(inter(b)) EXCEPT !.ifs[i].clients = @ \ {mac}]

\* Mutant: only the leaving interface counts its peer less.
iface_leave_peer_once(b, i, p) ==
    LET t == [b EXCEPT !.ifs[i].ref[L2[p]] = @ - 1]
        u == clear_all_flt_rule_for_one_peer_iface(t, i, p)
        v == clear_all_rt_rule_for_one_peer_iface(
                 clear_all_flt_rule_for_one_peer_iface(u, p, i), p, L2[i])
        w == del_hdr_proc_ctx([v EXCEPT !.ifs[p].peers = @ \ {i}], p, L2[i])
    IN del_hdr_proc_ctx(clear_all_rt_rule_for_one_peer_iface(w, i, L2[p]), i, L2[p])

\* One peer p of i, when i goes: the counts of both first, then what p has for i,
\* then what i has for p.
iface_leave_peer(b, i, p) ==
    LET t == [b EXCEPT !.ifs[i].ref[L2[p]] = @ - 1, !.ifs[p].ref[L2[i]] = @ - 1]
        u == clear_all_flt_rule_for_one_peer_iface(t, i, p)
        v == clear_all_rt_rule_for_one_peer_iface(
                 clear_all_flt_rule_for_one_peer_iface(u, p, i), p, L2[i])
        w == del_hdr_proc_ctx([v EXCEPT !.ifs[p].peers = @ \ {i}], p, L2[i])
    IN del_hdr_proc_ctx(clear_all_rt_rule_for_one_peer_iface(w, i, L2[p]), i, L2[p])

\* IPACM_LanToLan_Iface::handle_down_event
iface_handle_down_event(b, i) ==
    LET me == b.ifs[i]
        t == IF me.inter THEN ForAll(LAMBDA x, p : iface_leave_peer(x, i, p), b, me.peers) ELSE b
        u == clear_all_rt_rule_for_one_peer_iface(
                 clear_all_flt_rule_for_one_peer_iface(t, i, i), i, "intra")
    IN IF me.intra THEN eth_bridge_del_hdr_proc_ctx(u, i, "intra") ELSE t

\* IPACM_LanToLan_Iface::handle_wlan_scc_mcc_switch
iface_scc_mcc_switch(b, i, mcc) ==
    LET me == b.ifs[i]
        kinds == (IF me.inter THEN {L2[p] : p \in me.peers} ELSE {})
                     \cup (IF me.intra THEN {"intra"} ELSE {})
    IN ForAll(LAMBDA x, k : ForAll(LAMBDA y, m : eth_bridge_modify_rt_rule(y, i, k, m, mcc), x, me.clients),
              b, kinds)

-----------------------------------------------------------------------------
(* IPACM_LanToLan. *)

\* The new interface i and the interface p become peers.
handle_new_iface_up(b, i, p) == iface_new_peer(iface_new_peer(b, p, i), i, p)

handle_client_add(b, i, mac, mcc) ==
    CASE IsKnown(b, i) -> iface_client_add(b, i, mac, mcc)
      [] Len(b.cached) < MAX_NUM_CACHED_CLIENT_ADD_EVENT -> [b EXCEPT !.cached = <<<<i, mac>>>> \o @]
      [] OTHER -> b

handle_client_del(b, i, mac) == IF IsKnown(b, i) THEN iface_client_del(b, i, mac) ELSE b

Others(b, i) == SelectSeq(b.cached, LAMBDA e : e[1] # i)

\* The clients of i that waited, in the order of the list.
handle_cached_client_add_event(b, i, mcc) ==
    FoldLeft(LAMBDA x, e : iface_client_add(x, i, e[2], mcc),
             [b EXCEPT !.cached = Others(b, i)], SelectSeq(b.cached, LAMBDA e : e[1] = i))

clear_cached_client_add_event(b, i) == [b EXCEPT !.cached = Others(b, i)]

\* An interface that is known has got an address of its other family.
iface_up_again(b, i, f) ==
    LET t == [b EXCEPT !.ifs[i].assigned = @ \cup {f}]
        u == IF b.ifs[i].inter THEN add_all_inter_interface_client_flt_rule(t, i, f) ELSE t
    IN IF f \in b.ifs[i].assigned THEN b
       ELSE IF b.ifs[i].intra THEN add_all_intra_interface_client_flt_rule(u, i, f) ELSE u

\* A new interface, with all the others as peers.
iface_up_new(b, i, f, guest, mcc) ==
    LET t == [b EXCEPT !.ifs = [j \in DOMAIN @ \cup {i} |->
                                  IF j = i THEN [NewIface(i, guest) EXCEPT !.assigned = {f}] ELSE @[j]]]
        pair(x, p) == add_client_rt_rule_for_new_iface(handle_new_iface_up(x, i, p), p, i, mcc)
        inter(x) == IF guest THEN x
                    ELSE add_all_inter_interface_client_flt_rule(
                             ForAll(pair, x, {p \in DOMAIN b.ifs : b.ifs[p].inter}), i, f)
        intra(x) == IF i \in Wlan THEN handle_intra_interface_info(x, i) ELSE x
    IN IF Cardinality(DOMAIN b.ifs) = MAX_NUM_IFACE THEN b
       ELSE handle_cached_client_add_event(intra(inter(t)), i, mcc)

handle_iface_up(b, i, f, guest, mcc) ==
    IF IsKnown(b, i) THEN iface_up_again(b, i, f) ELSE iface_up_new(b, i, f, guest, mcc)

handle_iface_down(b, i) ==
    IF ~IsKnown(b, i) THEN clear_cached_client_add_event(b, i)
    ELSE LET t == iface_handle_down_event(b, i) IN
         [t EXCEPT !.ifs = [j \in DOMAIN @ \ {i} |-> @[j]]]

handle_wlan_scc_mcc_switch(b, i, mcc) == IF IsKnown(b, i) THEN iface_scc_mcc_switch(b, i, mcc) ELSE b

\* event_callback. guest and mcc are read when the event is handled.
event_callback(b, e, guest, mcc) ==
    CASE e.ev = "IFACE_UP"   -> handle_iface_up(b, e.if, e.fam, guest, mcc)
      [] e.ev = "IFACE_DOWN" -> handle_iface_down(b, e.if)
      [] e.ev = "CLIENT_ADD" -> handle_client_add(b, e.if, e.mac, mcc)
      [] e.ev = "CLIENT_DEL" -> handle_client_del(b, e.if, e.mac)
      [] e.ev = "SWITCH"     -> handle_wlan_scc_mcc_switch(b, e.if, mcc)
=============================================================================
