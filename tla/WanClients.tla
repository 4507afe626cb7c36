------------------------------ MODULE WanClients ------------------------------
(***************************************************************************)
(* The clients in front of an STA interface, IPACM_Wan.cpp: the neighbours *)
(* on the upstream network, the gateway among them, and the default route. *)
(* A client stays until the link goes.                                     *)
(***************************************************************************)
EXTENDS ClientTable

CONSTANTS IPA_MAX_NUM_WAN_CLIENTS

get_wan_client_index(o, mac) == IndexOf(o, mac)

wan_pipe(mcc) == IF mcc THEN "alt" ELSE "main"

wan_hdr_v4(c, mac) == AddHeader(c, Header(c.o, mac, "v4"))
wan_hdr_v6(c, mac) == AddHeader(c, Header(c.o, mac, "v6"))

handle_wan_hdr_init(c, mac) ==
    IF get_wan_client_index(c.o, mac) # 0 \/ Len(c.o.clients) >= IPA_MAX_NUM_WAN_CLIENTS THEN c
    ELSE [wan_hdr_v6(wan_hdr_v4(c, mac), mac) EXCEPT !.o.clients = Append(@, NewSlot(mac))]

delete_wan_rtrules(c, k, f) == DeleteRules(c, k, f)

wan_ipaddr_new(o, d) ==
    LET k == get_wan_client_index(o, d.mac) IN
    /\ k # 0
    /\ IF d.fam = "v4" THEN o.clients[k].v4 # d.addr
       ELSE Len(o.clients[k].v6) < IPV6_NUM_ADDR /\ ~Contains(o.clients[k].v6, d.addr)

handle_wan_client_ipaddr(c, d) ==
    LET k == get_wan_client_index(c.o, d.mac)
        old == c.o.clients[k].v4
        t == IF old = NULL THEN c ELSE delete_wan_rtrules(HandleSTAClientDelEvt(c, old), k, "v4")
    IN IF d.fam = "v4"
       THEN HandleSTAClientAddEvt([t EXCEPT !.o.clients[k].v4 = d.addr], d.addr)
       ELSE [c EXCEPT !.o.clients[k].v6 = Append(@, d.addr)]

\* Uplink traffic to a client goes to the pipe, downlink traffic to the CPU.
wan_rules_v6(c, mac, a) ==
    {Rule(c.o, mac, "v6", a, "lan", wan_pipe(c.mcc)), Rule(c.o, mac, "v6", a, "wan", "apps")}

handle_wan_client_route_rule(c, mac, f) ==
    LET k == get_wan_client_index(c.o, mac) IN
    IF k = 0 THEN c
    ELSE IF f = "v4"
         THEN AddRuleV4(c, k, Rule(c.o, mac, "v4", c.o.clients[k].v4, "wan", wan_pipe(c.mcc)))
         ELSE AddRulesV6(c, k, LAMBDA a : wan_rules_v6(c, mac, a))

\* IPA_NEIGH_CLIENT_IP_ADDR_ADD_EVENT, for a neighbour that is not the interface
\* itself. handle_sta_header_add_evt is in Backhaul.
wan_neigh_add(c, d) ==
    LET t == handle_wan_hdr_init(c, d.mac) IN
    IF ~wan_ipaddr_new(t.o, d) THEN t
    ELSE handle_wan_client_route_rule(handle_wan_client_ipaddr(t, d), d.mac, d.fam)

\* IPv4: a rule of the WAN table. IPv6: one of the LAN table, and one that sends
\* the rest of the downlink traffic to the CPU.
DefaultRoutes(o, f, dst) ==
    IF f = "v4" THEN {Rule(o, "gateway", f, "default", "wan", dst)}
    ELSE {Rule(o, "gateway", f, "default", "lan", dst), Rule(o, "gateway", f, "default", "wan", "apps")}

\* The default route of a family, in the hardware and in wan_route_rule_v4_hdl, or
\* _v6_hdl and _v6_hdl_a5: o.dft.
wan_default_route_add(c, f) ==
    LET R == DefaultRoutes(c.o, f, wan_pipe(c.mcc)) IN
    [AddRoutingRule(c, R) EXCEPT !.o.gw = TRUE, !.o.dft = @ \cup R]

\* is_default_gateway is reset with either family.
wan_default_route_del(c, f) ==
    LET R == {r \in c.o.dft : r.fam = f} IN
    [DeleteRoutingHdl(c, R) EXCEPT !.o.gw = FALSE, !.o.dft = @ \ R]

\* The default route, to the pipe of the event's mode.
handle_wlan_SCC_MCC_switch(c, is_scc, f) ==
    LET R == {r \in c.o.dft : r.fam = f /\ r.dst # "apps"}
        N == {[r EXCEPT !.dst = wan_pipe(~is_scc)] : r \in R}
    IN IF ~c.o.gw THEN c
       ELSE [AddRoutingRule(DeleteRoutingHdl(c, R), N) EXCEPT !.o.dft = (@ \ R) \cup N]

wan_client_switch_v4(x, k) ==
    LET r == x.o.clients[k].h4
        n == [r EXCEPT !.dst = wan_pipe(x.mcc)]
    IN IF r = NULL THEN x ELSE [ModifyRoutingRule(x, r, n) EXCEPT !.o.clients[k].h4 = n]

\* Of the IPv6 rules, the ones of the WAN table, which led to the CPU.
wan_client_switch_v6(x, k) ==
    LET H == x.o.clients[k].h6
        to(r) == IF r.tbl = "wan" THEN [r EXCEPT !.dst = wan_pipe(x.mcc)] ELSE r
        N == [n \in 1..Len(H) |-> {to(r) : r \in H[n]}]
    IN [AddRoutingRule(DeleteRoutingHdl(x, UNION Range(H)), UNION Range(N))
            EXCEPT !.o.clients[k].h6 = N]

\* The rules of the clients, to the pipe of the mode now.
handle_wan_client_SCC_MCC_switch(c, f) ==
    IF ~c.o.gw THEN c
    ELSE ForClients(LAMBDA x, k : IF f = "v4" THEN wan_client_switch_v4(x, k)
                                              ELSE wan_client_switch_v6(x, k), c)

\* Mutant: the default route stays where it is.
wan_switch_clients(c, is_scc) ==
    FoldLeft(LAMBDA x, f : IF f \in c.o.ips THEN handle_wan_client_SCC_MCC_switch(x, f) ELSE x,
             c, <<"v4", "v6">>)

\* IPA_WLAN_SWITCH_TO_SCC and IPA_WLAN_SWITCH_TO_MCC, with the STA as backhaul.
wan_switch(c, is_scc) ==
    LET ForIps(op(_, _), x) ==
            FoldLeft(LAMBDA y, f : IF f \in c.o.ips THEN op(y, f) ELSE y, x, <<"v4", "v6">>)
    IN ForIps(handle_wan_client_SCC_MCC_switch,
              ForIps(LAMBDA y, f : handle_wlan_SCC_MCC_switch(y, is_scc, f), c))

\* The clients' part of handle_down_evt.
wan_clients_down(c) ==
    ForClients(LAMBDA x, k :
        Release(IF x.o.clients[k].v4 = NULL THEN x
                ELSE HandleSTAClientDelEvt(x, x.o.clients[k].v4), k), c)
=============================================================================
