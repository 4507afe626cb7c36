----------------------------- MODULE WlanClients -----------------------------
(***************************************************************************)
(* The clients of an access point, IPACM_Wlan.cpp. A client is known from  *)
(* its association to its disassociation; its addresses come with the     *)
(* neighbour events in between, and while it sleeps it has no rules.       *)
(*                                                                         *)
(* ps[k] is power_save_set of slot k. The deletion of a client moves the   *)
(* slots behind it up, but not their power_save_set.                       *)
(***************************************************************************)
EXTENDS ClientTable

CONSTANTS IPA_MAX_NUM_WIFI_CLIENTS

get_wlan_client_index(o, mac) == IndexOf(o, mac)

Pipe(mcc) == IF mcc THEN "alt" ELSE "main"

wlan_hdr_v4(c, mac) == AddHeader(c, Header(c.o, mac, "v4"))
wlan_hdr_v6(c, mac) == AddHeader(c, Header(c.o, mac, "v6"))

\* Mutant: the limit is for one access point only.
handle_wlan_client_init_ex_one(c, mac) ==
    IF Len(c.o.clients) >= IPA_MAX_NUM_WIFI_CLIENTS THEN c
    ELSE [wlan_hdr_v6(wlan_hdr_v4(c, mac), mac)
            EXCEPT !.o.clients = Append(@, NewSlot(mac)), !.o.ps = Append(@, FALSE),
                   !.total = @ + 1]

\* The limit is for one access point and for all of them together.
handle_wlan_client_init_ex(c, mac) ==
    IF \/ Len(c.o.clients) >= IPA_MAX_NUM_WIFI_CLIENTS
       \/ c.total >= IPA_MAX_NUM_WIFI_CLIENTS THEN c
    ELSE [wlan_hdr_v6(wlan_hdr_v4(c, mac), mac)
            EXCEPT !.o.clients = Append(@, NewSlot(mac)), !.o.ps = Append(@, FALSE),
                   !.total = @ + 1]

\* IPA_WLAN_CLIENT_ADD_EVENT_EX: the bridge hears of the client first.
wlan_client_add(c, mac) ==
    handle_wlan_client_init_ex(
        eth_bridge_post_event(c, BridgeEvent("CLIENT_ADD", NULL, mac)), mac)

delete_default_qos_rtrules(c, k, f) == DeleteRules(c, k, f)

wlan_ipaddr_new(o, d) ==
    LET k == get_wlan_client_index(o, d.mac) IN
    /\ k # 0
    /\ IF d.fam = "v4" THEN o.clients[k].v4 # d.addr
       ELSE /\ d.addr \notin Foreign
            /\ Len(o.clients[k].v6) < IPV6_NUM_ADDR
            /\ ~Contains(o.clients[k].v6, d.addr)

\* Mutant: the old address stays with the NAT listener.
handle_wlan_client_ipaddr_nat(c, d) ==
    LET k == get_wlan_client_index(c.o, d.mac) IN
    IF d.fam = "v4"
    THEN [delete_default_qos_rtrules(c, k, "v4") EXCEPT !.o.clients[k].v4 = d.addr]
    ELSE [c EXCEPT !.o.clients[k].v6 = Append(@, d.addr)]

handle_wlan_client_ipaddr(c, d) ==
    LET k == get_wlan_client_index(c.o, d.mac)
        old == c.o.clients[k].v4
        t == IF old = NULL THEN c
             ELSE delete_default_qos_rtrules(HandleNeighIpAddrDelEvt(c, old), k, "v4")
    IN IF d.fam = "v4" THEN [t EXCEPT !.o.clients[k].v4 = d.addr]
       ELSE [c EXCEPT !.o.clients[k].v6 = Append(@, d.addr)]

wlan_rules_v6(c, mac, a) ==
    {Rule(c.o, mac, "v6", a, "lan", "apps"), Rule(c.o, mac, "v6", a, "wan", Pipe(c.mcc))}

\* A client that sleeps gets no rules.
handle_wlan_client_route_rule(c, mac, f) ==
    LET k == get_wlan_client_index(c.o, mac) IN
    IF k = 0 \/ c.o.ps[k] THEN c
    ELSE IF f = "v4"
         THEN AddRuleV4(c, k, Rule(c.o, mac, "v4", c.o.clients[k].v4, "lan", Pipe(c.mcc)))
         ELSE AddRulesV6(c, k, LAMBDA a : wlan_rules_v6(c, mac, a))

\* IPA_NEIGH_CLIENT_IP_ADDR_ADD_EVENT; there is no handler of the DEL event.
wlan_neigh_add(c, d) ==
    LET t == handle_wlan_client_route_rule(handle_wlan_client_ipaddr(c, d), d.mac, d.fam) IN
    IF ~wlan_ipaddr_new(c.o, d) THEN c
    ELSE IF d.fam = "v4" THEN HandleNeighIpAddrAddEvt(t, d.addr) ELSE t

\* The NAT application is told as well (UpdatePwrSaveIf, see NatApp).
handle_wlan_client_pwrsave(c, mac) ==
    LET k == get_wlan_client_index(c.o, mac)
        t == delete_default_qos_rtrules(delete_default_qos_rtrules(c, k, "v4"), k, "v6")
    IN IF k = 0 \/ c.o.ps[k] THEN c ELSE [t EXCEPT !.o.ps[k] = TRUE]

\* Mutant: the IPv6 rules do not come back.
wlan_client_recover_v4(c, mac) ==
    LET k == get_wlan_client_index(c.o, mac)
        t == [c EXCEPT !.o.ps[k] = FALSE]
    IN IF k = 0 \/ ~c.o.ps[k] THEN c ELSE handle_wlan_client_route_rule(t, mac, "v4")

\* IPA_WLAN_CLIENT_RECOVER_EVENT
wlan_client_recover(c, mac) ==
    LET k == get_wlan_client_index(c.o, mac)
        t == [c EXCEPT !.o.ps[k] = FALSE]
        u == handle_wlan_client_route_rule(t, mac, "v4")
    IN IF k = 0 \/ ~c.o.ps[k] THEN c ELSE handle_wlan_client_route_rule(u, mac, "v6")

\* Mutant: the headers stay.
handle_wlan_client_down_evt_hdr(c, mac) ==
    LET k == get_wlan_client_index(c.o, mac)
        t == IF c.o.clients[k].v4 = NULL THEN c ELSE HandleNeighIpAddrDelEvt(c, c.o.clients[k].v4)
        u == DeleteRules(DeleteRules(t, k, "v4"), k, "v6")
    IN IF k = 0 THEN c
       ELSE [u EXCEPT !.o.clients = RemoveAt(@, k), !.o.ps = Front(@), !.total = @ - 1]

handle_wlan_client_down_evt(c, mac) ==
    LET k == get_wlan_client_index(c.o, mac)
        t == IF c.o.clients[k].v4 = NULL THEN c ELSE HandleNeighIpAddrDelEvt(c, c.o.clients[k].v4)
    IN IF k = 0 THEN c
       ELSE [Release(t, k) EXCEPT !.o.clients = RemoveAt(@, k), !.o.ps = Front(@),
                                  !.total = @ - 1]

\* The clients whose power_save_set is another's once mac has left.
Mixed(o, mac) ==
    LET k == IndexOf(o, mac) IN
    IF k = 0 THEN {} ELSE {o.clients[j + 1].mac : j \in {n \in k..Len(o.ps) - 1 : o.ps[n] # o.ps[n + 1]}}

\* IPA_WLAN_CLIENT_DEL_EVENT
wlan_client_del(c, mac) ==
    handle_wlan_client_down_evt(
        eth_bridge_post_event(c, BridgeEvent("CLIENT_DEL", NULL, mac)), mac)

\* IPA_HANDLE_WAN_DOWN_V6
handle_wlan_client_reset_rt(c) ==
    ForClients(LAMBDA x, k :
        [delete_default_qos_rtrules(x, k, "v6") EXCEPT !.o.clients[k].v6 = <<>>], c)

\* The IPv4 rules of the clients awake move to the pipe of the mode. The loop
\* over the IPv6 rules runs from route_rule_set_v6 to ipv6_set, and finds none.
handle_SCC_MCC_switch(c, f) ==
    ForClients(LAMBDA x, k :
        LET r == x.o.clients[k].h4 IN
        IF f = "v6" \/ r = NULL \/ x.o.ps[k] THEN x
        ELSE LET n == [r EXCEPT !.dst = Pipe(x.mcc)] IN
             [ModifyRoutingRule(x, r, n) EXCEPT !.o.clients[k].h4 = n], c)

\* IPA_WLAN_SWITCH_TO_SCC and IPA_WLAN_SWITCH_TO_MCC
wlan_switch(c) ==
    LET t == IF "v4" \in c.o.ips THEN handle_SCC_MCC_switch(c, "v4") ELSE c
        u == IF "v6" \in c.o.ips THEN handle_SCC_MCC_switch(t, "v6") ELSE t
    IN eth_bridge_post_event(u, BridgeEvent("SWITCH", NULL, NULL))

\* Mutant: the clients are not announced again.
eth_bridge_handle_wlan_mode_switch_clients(c) ==
    FoldLeft(LAMBDA x, f : IF f \in c.o.ips THEN eth_bridge_post_event(x, BridgeEvent("IFACE_UP", f, NULL)) ELSE x,
             eth_bridge_post_event(c, BridgeEvent("IFACE_DOWN", NULL, NULL)), <<"v4", "v6">>)

\* A change between full access and internet only: the bridge sees the interface
\* go and come back.
eth_bridge_handle_wlan_mode_switch(c) ==
    LET post(x, e) == eth_bridge_post_event(x, e)
        d == post(c, BridgeEvent("IFACE_DOWN", NULL, NULL))
        u == FoldLeft(LAMBDA x, f : IF f \in c.o.ips THEN post(x, BridgeEvent("IFACE_UP", f, NULL)) ELSE x,
                      d, <<"v4", "v6">>)
    IN ForClients(LAMBDA x, k : post(x, BridgeEvent("CLIENT_ADD", NULL, x.o.clients[k].mac)), u)

\* IPA_CFG_CHANGE_EVENT, with the mode changed.
wlan_cfg_change(c) == eth_bridge_handle_wlan_mode_switch([c EXCEPT !.o.guest = ~@])

\* The clients' part of handle_down_evt.
wlan_clients_down(c) ==
    ForClients(LAMBDA x, k :
        Release(IF x.o.clients[k].v4 = NULL THEN x
                ELSE HandleNeighIpAddrDelEvt(x, x.o.clients[k].v4), k), c)

\* IPA_WLAN_LINK_DOWN_EVENT
wlan_link_down(c) ==
    [wlan_clients_down(IF c.o.ips = {} THEN c
                       ELSE eth_bridge_post_event(c, BridgeEvent("IFACE_DOWN", NULL, NULL)))
        EXCEPT !.total = @ - Len(c.o.clients)]
=============================================================================
