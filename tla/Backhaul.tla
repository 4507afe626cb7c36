------------------------------- MODULE Backhaul -------------------------------
(***************************************************************************)
(* The backhaul of tethering in ipacm: which WAN object (IPACM_Wan.cpp) is *)
(* the upstream of an IP family, which tethering interfaces use it, and    *)
(* what that installs in the hardware, on the modem's side and on the pipe *)
(* of every tethering interface (IPACM_Lan.cpp, IPACM_Wlan.cpp).           *)
(*                                                                         *)
(* The framework tells ipacm which upstream a tethering interface uses, the *)
(* kernel tells it links, addresses and neighbours. These events come      *)
(* through the external queue; internal events are handled first, so an    *)
(* external event is handled when no internal one waits (EventQueue).      *)
(* ProcessEvt calls the WAN objects in the order they were created.        *)
(*                                                                         *)
(* This is the Android build. Calls into the hardware succeed. Software    *)
(* routing, eMBMS, XLAT and the clients' own rules are not modelled.       *)
(***************************************************************************)
EXTENDS Integers, SequencesExt, FiniteSets

CONSTANTS
    Modem, Sta,  \* the WAN interfaces of type Q6_WAN and WLAN_WAN
    Tethers,     \* the tethering interfaces, of the classes IPACM_Lan and IPACM_Wlan
    LaterAps,    \* those of them with a wlan_ap_index > 0
    Fam,         \* the IP families of every interface
    MayLose,     \* what a WAN interface may be upstream of when its link goes
    Early,       \* WAN interfaces with routes added before address and gateway are known
    Handover,    \* the upstream may change while the old one is still in use
    NULL

Wans == Modem \cup Sta
F    == {"v4", "v6"}

MAX_DEFAULT_v6_ROUTE_RULES == 2

\* The members of IPACM_Wan, and of IPACM_Lan and IPACM_Wlan with the rules of
\* their pipe (see NewWan and NewLan), the internal events, and b.
WanObjects ==
    [v4 : BOOLEAN, num_dft_rt_v6 : 0 .. MAX_DEFAULT_v6_ROUTE_RULES, active : SUBSET F,
     is_default_gateway : BOOLEAN, gw_set : SUBSET F, header_set : BOOLEAN,
     header_partial : SUBSET F, neighbours : SUBSET F]
Pipes == [ul : [F -> Nat], dft : [F -> Nat], prefix : Nat]
LanObjects ==
    [up : BOOLEAN, v4 : BOOLEAN, num_dft_rt_v6 : 0 .. MAX_DEFAULT_v6_ROUTE_RULES,
     ul : SUBSET F, dft : SUBSET F, prefix : BOOLEAN, pipe : Pipes]
WanEvents    == [ev : {"WAN_UP", "WAN_DOWN"}, fam : F, wan : Wans]
TetherEvents == [ev : {"WAN_UP_TETHER", "WAN_DOWN_TETHER"}, fam : F, tether : Tethers,
                 is_sta : BOOLEAN]
Filters   == {"none", "default", "firewall"}
Backhauls ==
    [wan : [Wans -> {NULL} \cup WanObjects], objs : Seq(Wans), up : SUBSET F, sta : BOOLEAN,
     tether : [F -> Seq(Tethers)], pdn : [F -> Nat], flt : [F -> Filters],
     modem : [F -> Filters], fw : [Sta -> [F -> Nat]], q : Seq(WanEvents \cup TetherEvents)]

ASSUME BackhaulAssumption ==
    /\ Modem \cap Sta = {} /\ NULL \notin Wans /\ NULL \notin WanObjects
    /\ LaterAps \subseteq Tethers
    /\ Fam \in [Wans \cup Tethers -> SUBSET F]
    /\ MayLose \in [Wans -> SUBSET SUBSET F]
    /\ Early \subseteq Wans /\ Handover \in BOOLEAN

VARIABLES
    b,     \* the WAN objects and the static members of IPACM_Wan
    lan,   \* the LAN and WLAN objects and the rules on their pipes
    nat,   \* the upstream of the NAT listener, IPACM_ConntrackListener
    route  \* what the framework told: the upstream of an interface and family

vars == <<b, lan, nat, route>>

-----------------------------------------------------------------------------
(* The objects. *)

\* The constructor of IPACM_Wan. header_set stands for header_set_v4 and
\* header_set_v6, which are always set together.
NewWan ==
    [v4 |-> FALSE, num_dft_rt_v6 |-> 0, active |-> {}, is_default_gateway |-> FALSE,
     gw_set |-> {}, header_set |-> FALSE, header_partial |-> {}, neighbours |-> {}]

\* ip_type of any object.
IpType(o) == (IF o.v4 THEN {"v4"} ELSE {}) \cup (IF o.num_dft_rt_v6 > 0 THEN {"v6"} ELSE {})

\* Has the object an address it can serve as an upstream with: for IPv6, the
\* prefix of a second address.
Usable(o, f) == IF f = "v4" THEN o.v4 ELSE o.num_dft_rt_v6 = MAX_DEFAULT_v6_ROUTE_RULES

\* ul: modem_ul_v4_set and modem_ul_v6_set, with the handles of the uplink rules;
\* dft: the default rules of STA mode whose handle is known; prefix: likewise.
NewLan(pipe) ==
    [up |-> FALSE, v4 |-> FALSE, num_dft_rt_v6 |-> 0, ul |-> {}, dft |-> {},
     prefix |-> FALSE, pipe |-> pipe]

EmptyPipe == [ul |-> [f \in F |-> 0], dft |-> [f \in F |-> 0], prefix |-> 0]

\* objs: the objects in the order of their registration; up: wan_up and
\* wan_up_v6; sta: backhaul_is_sta_mode; tether: ipa_if_num_tether_v4 and _v6;
\* pdn: num_ipv4_modem_pdn and num_ipv6_modem_pdn; flt: flt_rule_v4 and _v6, the
\* downlink filters meant for the modem, and modem the ones it got; fw: the
\* downlink filters on the pipe of an STA; q: the internal events.
Init ==
    /\ b = [wan |-> [w \in Wans |-> NULL], objs |-> <<>>, up |-> {}, sta |-> FALSE,
            tether |-> [f \in F |-> <<>>], pdn |-> [f \in F |-> 0],
            flt |-> [f \in F |-> "none"], modem |-> [f \in F |-> "none"],
            fw |-> [w \in Sta |-> [f \in F |-> 0]], q |-> <<>>]
    /\ lan = [t \in Tethers |-> NewLan(EmptyPipe)]
    /\ nat = NULL
    /\ route = [t \in Tethers |-> [f \in F |-> NULL]]

PostEvt(s, e) == [s EXCEPT !.q = Append(@, e)]

Active(s, w, f) == s.wan[w] # NULL /\ f \in s.wan[w].active

-----------------------------------------------------------------------------
(* Downlink filters. *)

install_wan_filtering_rule(s) == [s EXCEPT !.modem = s.flt]

\* modem_ipv4_pdn_index and modem_ipv6_pdn_index are the counters before.
init_fl_rule_ex(s, f) ==
    install_wan_filtering_rule(
        [s EXCEPT !.flt[f] = IF s.pdn[f] = 0 THEN "default" ELSE @, !.pdn[f] = @ + 1])

\* config_wan_firewall_rule of a modem, config_dft_firewall_rules of an STA.
config_firewall(s, w, f) ==
    IF w \in Modem THEN install_wan_filtering_rule([s EXCEPT !.flt[f] = "firewall"])
                   ELSE [s EXCEPT !.fw[w][f] = @ + 1]

\* del_wan_firewall_rule and its installation; del_dft_firewall_rules.
del_firewall(s, w, f) ==
    IF w \in Modem THEN install_wan_filtering_rule([s EXCEPT !.flt[f] = "default"])
    ELSE IF Active(s, w, f) THEN [s EXCEPT !.fw[w][f] = @ - 1] ELSE s

-----------------------------------------------------------------------------
(* Addresses, routes and tethering interfaces of a WAN object. *)

\* handle_addr_evt: the first IPv4 address, and the second IPv6 address (the
\* global one, the first is local to the link) bring the default filters.
handle_addr_evt(s, w, f) ==
    LET o == s.wan[w]
        count(x) == IF w \in Modem THEN init_fl_rule_ex(x, f) ELSE x
        t == [s EXCEPT !.wan[w].num_dft_rt_v6 = @ + 1]
    IN CASE f = "v4" /\ ~o.v4 -> [count(s) EXCEPT !.wan[w].v4 = TRUE]
         [] f = "v6" /\ o.num_dft_rt_v6 = 0 -> t
         [] f = "v6" /\ o.num_dft_rt_v6 = 1 -> count(t)
         [] OTHER -> s

\* An STA waits for the header of its gateway.
handle_route_add_evt(s, w, f) ==
    LET t == [s EXCEPT !.wan[w].is_default_gateway = TRUE, !.sta = w \in Sta] IN
    IF w \in Sta /\ ~s.wan[w].header_set
    THEN [t EXCEPT !.wan[w].header_partial = @ \cup {f}]
    ELSE PostEvt(config_firewall([t EXCEPT !.up = @ \cup {f}, !.wan[w].active = @ \cup {f}], w, f),
                 [ev |-> "WAN_UP", fam |-> f, wan |-> w])

\* The header of the gateway, once its neighbour is known, and the routes that
\* wait for it. An IPv4 gateway that is not known yet hides the IPv6 one.
handle_sta_header_add_evt(s, w) ==
    LET o == s.wan[w]
        found == o.gw_set # {} /\ o.gw_set \subseteq o.neighbours
        t == [s EXCEPT !.wan[w].header_set = TRUE]
        add(x, f) == IF f \in o.header_partial THEN handle_route_add_evt(x, w, f) ELSE x
    IN IF o.header_set THEN s
       ELSE IF found THEN add(add(t, "v4"), "v6")
       ELSE IF "v4" \in o.gw_set /\ "v4" \in o.neighbours THEN t ELSE s

post_wan_up_tether_evt(s, w, f, t) ==
    PostEvt([s EXCEPT !.tether[f] = Append(@, t)],
            [ev |-> "WAN_UP_TETHER", fam |-> f, tether |-> t, is_sta |-> w \in Sta])

\* Mutant: the interface stays on the list.
post_wan_down_tether_evt_keeps(s, w, f, t) ==
    IF ~Contains(s.tether[f], t) THEN s
    ELSE PostEvt(s, [ev |-> "WAN_DOWN_TETHER", fam |-> f, tether |-> t, is_sta |-> w \in Sta])

post_wan_down_tether_evt(s, w, f, t) ==
    IF ~Contains(s.tether[f], t) THEN s
    ELSE PostEvt([s EXCEPT !.tether[f] = RemoveFirst(@, t)],
                 [ev |-> "WAN_DOWN_TETHER", fam |-> f, tether |-> t, is_sta |-> w \in Sta])

\* Mutant: the object stays active.
handle_route_del_evt_active(s, w, f) ==
    LET t == [s EXCEPT !.wan[w].is_default_gateway = FALSE] IN
    IF ~Active(s, w, f) THEN t
    ELSE PostEvt([t EXCEPT !.up = @ \ {f}], [ev |-> "WAN_DOWN", fam |-> f, wan |-> w])

\* handle_route_del_evt and handle_route_del_evt_ex.
handle_route_del_evt(s, w, f) ==
    LET t == [s EXCEPT !.wan[w].is_default_gateway = FALSE] IN
    IF ~Active(s, w, f) THEN t
    ELSE PostEvt([t EXCEPT !.up = @ \ {f}, !.wan[w].active = @ \ {f}],
                 [ev |-> "WAN_DOWN", fam |-> f, wan |-> w])

\* The object stops being the upstream of a family: firewall first.
clean_default_route(s, w, f) == handle_route_del_evt(del_firewall(s, w, f), w, f)

\* wan_v6_addr_gw_set is never cleared.
clear_gw_set(s, w, f) == IF f = "v4" THEN [s EXCEPT !.wan[w].gw_set = @ \ {f}] ELSE s

-----------------------------------------------------------------------------
(* IPACM_Wan::event_callback, for one object o. *)

\* IPA_WAN_UPSTREAM_ROUTE_ADD_EVENT
upstream_route_add(s, o, w, t, f) ==
    IF o = w
    THEN IF ~Usable(s.wan[w], f) THEN s
         ELSE post_wan_up_tether_evt(
                IF Active(s, w, f) THEN s
                ELSE handle_route_add_evt(
                       handle_sta_header_add_evt([s EXCEPT !.wan[w].gw_set = @ \cup {f}], w),
                       w, f),
                w, f, t)
    ELSE IF Active(s, o, f) THEN clean_default_route(clear_gw_set(s, o, f), o, f) ELSE s

\* Mutant: the list is looked at before the interface leaves it.
upstream_route_del_stale(s, o, w, t, f) ==
    LET u == post_wan_down_tether_evt(clear_gw_set(s, w, f), w, f, t) IN
    IF o # w \/ ~Active(s, w, f) THEN s
    ELSE IF s.tether[f] # <<>> THEN u ELSE clean_default_route(u, w, f)

\* IPA_WAN_UPSTREAM_ROUTE_DEL_EVENT
upstream_route_del(s, o, w, t, f) ==
    LET u == post_wan_down_tether_evt(clear_gw_set(s, w, f), w, f, t) IN
    IF o # w \/ ~Active(s, w, f) THEN s
    ELSE IF u.tether[f] # <<>> THEN u ELSE clean_default_route(u, w, f)

\* ProcessEvt calls every WAN object with the event.
upstream_route_add_all(s, w, t, f) ==
    LET at[n \in 0 .. Len(s.objs)] ==
            IF n = 0 THEN s ELSE upstream_route_add(at[n - 1], s.objs[n], w, t, f)
    IN at[Len(s.objs)]

upstream_route_del_all(s, w, t, f) ==
    LET at[n \in 0 .. Len(s.objs)] ==
            IF n = 0 THEN s ELSE upstream_route_del(at[n - 1], s.objs[n], w, t, f)
    IN at[Len(s.objs)]

\* Mutant: the default filters go with any modem interface.
default_rules_gone_early(s, f) ==
    install_wan_filtering_rule([s EXCEPT !.flt[f] = "none"])

\* Only when the last modem interface of a family goes down, its default
\* filters are deleted.
delete_default_rules(s, f) ==
    IF s.pdn[f] = 0 THEN install_wan_filtering_rule([s EXCEPT !.flt[f] = "none"]) ELSE s

ForFam(op(_, _), s, fams) ==
    LET t == IF "v4" \in fams THEN op(s, "v4") ELSE s
    IN  IF "v6" \in fams THEN op(t, "v6") ELSE t

\* Every interface of a list that is copied before the first one leaves it.
post_wan_down_tether_all(s, w, f) ==
    LET tmp == s.tether[f]
        at[n \in 0 .. Len(tmp)] ==
            IF n = 0 THEN s ELSE post_wan_down_tether_evt(at[n - 1], w, f, tmp[n])
    IN at[Len(tmp)]

\* handle_down_evt_ex, for a modem: the default gateway takes every tethering
\* interface of its families down with it.
handle_down_evt_ex(s, w) ==
    LET o == s.wan[w]
        counted == {f \in F : Usable(o, f)}
        leave(x, f) == post_wan_down_tether_all(
            clean_default_route([x EXCEPT !.up = @ \ {f}], w, f), w, f)
        t == [s EXCEPT !.pdn = [f \in F |-> IF f \in counted THEN @[f] - 1 ELSE @[f]]]
        u == IF o.is_default_gateway THEN ForFam(leave, t, IpType(o)) ELSE t
    IN ForFam(delete_default_rules, u, IpType(o))

\* handle_down_evt, for an STA.
handle_down_evt(s, w) ==
    ForFam(LAMBDA x, f : clean_default_route(x, w, f), s, s.wan[w].active)

-----------------------------------------------------------------------------
(* The pipe of a tethering interface: x is lan[t]. *)

\* isWanUP and isWanUP_V6.
isWanUP(s, t, f) == Contains(s.tether[f], t) /\ f \in s.up

\* The uplink rules of the modem, once; for IPv6 only with a single address.
handle_wan_up_ex(x, f) ==
    IF f \in x.ul \/ (f = "v6" /\ x.num_dft_rt_v6 # 1) THEN x
    ELSE [x EXCEPT !.ul = @ \cup {f}, !.pipe.ul[f] = @ + 1]

\* The default rule of STA mode; a handle it had is overwritten.
handle_wan_up(x, f) == [x EXCEPT !.dft = @ \cup {f}, !.pipe.dft[f] = @ + 1]

install_ipv6_prefix_flt_rule(x, f) ==
    IF f = "v6" THEN [x EXCEPT !.prefix = TRUE, !.pipe.prefix = @ + 1] ELSE x

delete_ipv6_prefix_flt_rule(x, f) ==
    IF f = "v6" /\ x.prefix THEN [x EXCEPT !.prefix = FALSE, !.pipe.prefix = @ - 1] ELSE x

wan_up(x, f, is_sta) ==
    LET y == install_ipv6_prefix_flt_rule(x, f) IN
    IF is_sta THEN handle_wan_up(y, f) ELSE handle_wan_up_ex(y, f)

\* handle_wan_down and handle_wan_down_v6. A handle that names no rule is refused.
handle_wan_down(x, f, is_sta) ==
    LET y == delete_ipv6_prefix_flt_rule(x, f) IN
    CASE is_sta /\ f \in y.dft -> [y EXCEPT !.dft = @ \ {f}, !.pipe.dft[f] = @ - 1]
      [] ~is_sta /\ f \in y.ul -> [y EXCEPT !.ul = @ \ {f}, !.pipe.ul[f] = @ - 1]
      [] OTHER -> y

\* Mutant: a backhaul that is already up is not looked at.
lan_addr_add_late(s, t, x, f) ==
    IF f = "v4" THEN [x EXCEPT !.v4 = TRUE] ELSE [x EXCEPT !.num_dft_rt_v6 = @ + 1]

\* IPA_ADDR_ADD_EVENT: one IPv4 address, two IPv6 addresses; rules for a
\* backhaul that is already up.
lan_addr_add(s, t, x, f) ==
    LET y == IF f = "v4" THEN [x EXCEPT !.v4 = TRUE] ELSE [x EXCEPT !.num_dft_rt_v6 = @ + 1] IN
    IF isWanUP(s, t, f) /\ (f = "v6" => y.num_dft_rt_v6 = 1) THEN wan_up(y, f, s.sta) ELSE y

\* Mutant: the rules of the backhaul stay.
lan_handle_down_evt_keeps(s, t, x) == NewLan(x.pipe)

\* handle_down_evt of IPACM_Lan and IPACM_Wlan; the object is then deleted.
lan_handle_down_evt(s, t, x) ==
    NewLan(ForFam(LAMBDA y, f : IF isWanUP(s, t, f) /\ IpType(x) # {}
                                THEN handle_wan_down(y, f, s.sta) ELSE y, x, F).pipe)

-----------------------------------------------------------------------------
(* External events, handled when no internal event waits. *)

Idle == b.q = <<>>

Routed(w) == {f \in F : \E t \in Tethers : route[t][f] = w}

\* The interface comes up and its object is created.
WanLinkUp(w) ==
    /\ Idle /\ b.wan[w] = NULL /\ Routed(w) = {}
    /\ b' = [b EXCEPT !.wan[w] = NewWan, !.objs = Append(@, w)]
    /\ UNCHANGED <<lan, nat, route>>

\* IPA_LINK_DOWN_EVENT of a modem, IPA_WLAN_LINK_DOWN_EVENT of an STA.
WanLinkDown(w) ==
    /\ Idle /\ b.wan[w] # NULL /\ b.wan[w].active \in MayLose[w]
    /\ LET s == IF w \in Modem THEN handle_down_evt_ex(b, w) ELSE handle_down_evt(b, w)
       IN b' = [s EXCEPT !.wan[w] = NULL, !.objs = RemoveFirst(@, w)]
    /\ UNCHANGED <<lan, nat, route>>

\* IPA_ADDR_ADD_EVENT of a WAN interface.
WanAddrAdd(w, f) ==
    /\ Idle /\ b.wan[w] # NULL /\ f \in Fam[w]
    /\ f = "v4" \/ b.wan[w].num_dft_rt_v6 # MAX_DEFAULT_v6_ROUTE_RULES
    /\ b' = handle_addr_evt(b, w, f)
    /\ UNCHANGED <<lan, nat, route>>

\* IPA_NEIGH_CLIENT_IP_ADDR_ADD_EVENT for the gateway of an STA.
GatewayNeighbour(w, f) ==
    /\ Idle /\ w \in Sta /\ b.wan[w] # NULL /\ f \in Fam[w] \ b.wan[w].neighbours
    /\ b' = handle_sta_header_add_evt([b EXCEPT !.wan[w].neighbours = @ \cup {f}], w)
    /\ UNCHANGED <<lan, nat, route>>

\* The framework withdraws the routes of one upstream before it adds the ones of
\* the next, which is of the same kind for both families.
Orderly(w, t, f) ==
    /\ \A u \in Tethers : route[u][f] \in {NULL, w}
    /\ \A u \in Tethers, g \in F : route[u][g] # NULL => (route[u][g] \in Sta <=> w \in Sta)

\* WAN_UPSTREAM_ROUTE_ADD: every WAN object looks at it.
RouteAdd(w, t, f) ==
    /\ Idle /\ b.wan[w] # NULL /\ f \in Fam[w] \cap Fam[t]
    /\ route[t][f] # w
    /\ Handover \/ Orderly(w, t, f)
    /\ w \in Early \/ (Usable(b.wan[w], f) /\ (w \in Sta => f \in b.wan[w].neighbours))
    /\ b' = upstream_route_add_all(b, w, t, f)
    /\ route' = [route EXCEPT ![t][f] = w]
    /\ UNCHANGED <<lan, nat>>

\* WAN_UPSTREAM_ROUTE_DEL, possibly of an interface that is gone.
RouteDel(t, f) ==
    /\ Idle /\ route[t][f] # NULL
    /\ b' = upstream_route_del_all(b, route[t][f], t, f)
    /\ route' = [route EXCEPT ![t][f] = NULL]
    /\ UNCHANGED <<lan, nat>>

TetherUp(t) ==
    /\ Idle /\ ~lan[t].up
    /\ lan' = [lan EXCEPT ![t].up = TRUE]
    /\ UNCHANGED <<b, nat, route>>

TetherDown(t) ==
    /\ Idle /\ lan[t].up
    /\ lan' = [lan EXCEPT ![t] = lan_handle_down_evt(b, t, @)]
    /\ UNCHANGED <<b, nat, route>>

\* Mutant: addresses are not counted.
TetherAddrAdd_unchecked(t, f) ==
    /\ Idle /\ lan[t].up /\ f \in Fam[t]
    /\ lan' = [lan EXCEPT ![t] = lan_addr_add(b, t, @, f)]
    /\ UNCHANGED <<b, nat, route>>

TetherAddrAdd(t, f) ==
    /\ Idle /\ lan[t].up /\ f \in Fam[t]
    /\ IF f = "v4" THEN ~lan[t].v4 ELSE lan[t].num_dft_rt_v6 # MAX_DEFAULT_v6_ROUTE_RULES
    /\ lan' = [lan EXCEPT ![t] = lan_addr_add(b, t, @, f)]
    /\ UNCHANGED <<b, nat, route>>

-----------------------------------------------------------------------------
(* Internal events: the head of the queue is handled. *)

Deliver(ev) ==
    /\ b.q # <<>> /\ Head(b.q).ev = ev
    /\ b' = [b EXCEPT !.q = Tail(@)]
    /\ UNCHANGED route

WanUpTether ==
    LET e == Head(b.q) IN
    /\ Deliver("WAN_UP_TETHER")
    /\ lan' = IF e.fam \in IpType(lan[e.tether])
              THEN [lan EXCEPT ![e.tether] = wan_up(@, e.fam, e.is_sta)] ELSE lan
    /\ UNCHANGED nat

\* An access point that is not the first keeps its IPv4 uplink rules.
WanDownTether ==
    LET e == Head(b.q) IN
    /\ Deliver("WAN_DOWN_TETHER")
    /\ lan' = IF \/ e.fam \notin IpType(lan[e.tether])
                 \/ e.fam = "v4" /\ ~e.is_sta /\ e.tether \in LaterAps
              THEN lan ELSE [lan EXCEPT ![e.tether] = handle_wan_down(@, e.fam, e.is_sta)]
    /\ UNCHANGED nat

\* The NAT listener takes IPv4 events; one that is up keeps its upstream.
NatWanUp ==
    /\ Deliver("WAN_UP")
    /\ nat' = IF Head(b.q).fam = "v4" /\ nat = NULL THEN Head(b.q).wan ELSE nat
    /\ UNCHANGED lan

\* Mutant: the listener takes the events of both families.
NatWanDown_any ==
    /\ Deliver("WAN_DOWN")
    /\ nat' = NULL
    /\ UNCHANGED lan

NatWanDown ==
    /\ Deliver("WAN_DOWN")
    /\ nat' = IF Head(b.q).fam = "v4" THEN NULL ELSE nat
    /\ UNCHANGED lan

Next ==
    \/ \E w \in Wans : WanLinkUp(w) \/ WanLinkDown(w)
    \/ \E w \in Wans, f \in F : WanAddrAdd(w, f) \/ GatewayNeighbour(w, f)
    \/ \E w \in Wans, t \in Tethers, f \in F : RouteAdd(w, t, f)
    \/ \E t \in Tethers, f \in F : RouteDel(t, f) \/ TetherAddrAdd(t, f)
    \/ \E t \in Tethers : TetherUp(t) \/ TetherDown(t)
    \/ WanUpTether \/ WanDownTether \/ NatWanUp \/ NatWanDown

Spec == Init /\ [][Next]_vars
-----------------------------------------------------------------------------
(* Properties. *)

TypeOK ==
    /\ b \in Backhauls
    /\ lan \in [Tethers -> LanObjects]
    /\ nat \in Wans \cup {NULL}
    /\ route \in [Tethers -> [F -> Wans \cup {NULL}]]

\* The upstream of a family is one object, and wan_up and wan_up_v6, which the
\* objects of all upstreams share, tell whether there is one.
OneUpstream ==
    \A f \in F : LET up == {w \in Wans : Active(b, w, f)} IN
        Cardinality(up) = (IF f \in b.up THEN 1 ELSE 0)

\* No tethering interface is left on a list whose upstream is gone: the list of
\* a family, which outlives the WAN objects, holds interfaces whose route leads
\* to the active object, each once.
NoOrphans ==
    \A f \in F :
        /\ IsInjective(b.tether[f])
        /\ \A t \in Range(b.tether[f]) : route[t][f] # NULL /\ Active(b, route[t][f], f)

\* An upstream nobody uses is not kept: the last interface to leave a list takes
\* the default route with it.
NoIdleUpstream == \A f \in b.up : b.tether[f] # <<>>

\* The filters the modem was last told are the firewall while one of its
\* interfaces is the upstream of the family, otherwise the default filters as
\* long as an interface has an address, whichever came and went; the pipe of an
\* STA has one set of them while it is the upstream.
Filtered ==
    /\ \A f \in F : b.modem[f] =
         IF \E w \in Modem : Active(b, w, f) THEN "firewall"
         ELSE IF \E w \in Modem : /\ b.wan[w] # NULL
                                  /\ Usable(b.wan[w], f)
              THEN "default" ELSE "none"
    /\ \A w \in Sta, f \in F : b.fw[w][f] = (IF Active(b, w, f) THEN 1 ELSE 0)

\* Uplink rules: none is left on a pipe or added twice. Once the events are
\* handled, only an interface that is up, on the list of the family and has an
\* upstream has rules, of the kind its upstream needs.
NoStrayRules ==
    \A t \in Tethers, f \in F :
        LET p == lan[t].pipe IN
        /\ p.ul[f] + p.dft[f] <= 1 /\ p.prefix <= 1
        /\ Idle /\ ~(lan[t].up /\ isWanUP(b, t, f)) =>
             p.ul[f] = 0 /\ p.dft[f] = 0 /\ (f = "v6" => p.prefix = 0)
        /\ Idle /\ p.ul[f] > 0 => route[t][f] \in Modem
        /\ Idle /\ p.dft[f] > 0 => route[t][f] \in Sta

\* The traffic of an interface with an address and a route is offloaded, in
\* whatever order link, address, route and upstream came and went.
Offloaded ==
    \A t \in Tethers : Idle /\ lan[t].v4 /\ isWanUP(b, t, "v4") =>
        lan[t].pipe.ul["v4"] + lan[t].pipe.dft["v4"] = 1

\* The NAT listener has the upstream of IPv4 once the events are handled.
NatFollows ==
    Idle => \A w \in Wans : nat = w <=> Active(b, w, "v4")
=============================================================================
