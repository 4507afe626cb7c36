------------------------------ MODULE LanClients ------------------------------
(***************************************************************************)
(* The clients of a LAN, USB or ODU interface, IPACM_Lan.cpp. A client is  *)
(* known from its first neighbour event: header, addresses and rules come  *)
(* together.                                                               *)
(***************************************************************************)
EXTENDS ClientTable

CONSTANTS IPA_MAX_NUM_ETH_CLIENTS

get_eth_client_index(o, mac) == IndexOf(o, mac)

eth_hdr_v4(c, mac) == AddHeader(c, Header(c.o, mac, "v4"))
eth_hdr_v6(c, mac) == AddHeader(c, Header(c.o, mac, "v6"))

\* Refused for a client that is known and for a full table; the caller goes on.
handle_eth_hdr_init(c, mac) ==
    IF get_eth_client_index(c.o, mac) # 0 \/ Len(c.o.clients) >= IPA_MAX_NUM_ETH_CLIENTS THEN c
    ELSE [eth_hdr_v6(eth_hdr_v4(c, mac), mac) EXCEPT !.o.clients = Append(@, NewSlot(mac))]

delete_eth_rtrules(c, k, f) == DeleteRules(c, k, f)

\* Is an address news to handle_eth_client_ipaddr, or does it fail.
eth_ipaddr_new(o, d) ==
    LET k == get_eth_client_index(o, d.mac) IN
    /\ k # 0
    /\ IF d.fam = "v4" THEN o.clients[k].v4 # d.addr
       ELSE /\ d.addr \notin Foreign
            /\ Len(o.clients[k].v6) < IPV6_NUM_ADDR
            /\ ~Contains(o.clients[k].v6, d.addr)

\* A second IPv4 address replaces the first.
handle_eth_client_ipaddr(c, d) ==
    LET k == get_eth_client_index(c.o, d.mac)
        old == c.o.clients[k].v4
        t == IF old = NULL THEN c
             ELSE delete_eth_rtrules(HandleNeighIpAddrDelEvt(c, old), k, "v4")
    IN IF d.fam = "v4" THEN [t EXCEPT !.o.clients[k].v4 = d.addr]
       ELSE [c EXCEPT !.o.clients[k].v6 = Append(@, d.addr)]

\* Traffic from the LAN to a client goes to the CPU, downlink traffic to the pipe.
eth_rules_v6(o, mac, a) ==
    {Rule(o, mac, "v6", a, "lan", "apps"), Rule(o, mac, "v6", a, "wan", "main")}

handle_eth_client_route_rule(c, mac, f) ==
    LET k == get_eth_client_index(c.o, mac) IN
    IF k = 0 THEN c
    ELSE IF f = "v4" THEN AddRuleV4(c, k, Rule(c.o, mac, "v4", c.o.clients[k].v4, "lan", "main"))
    ELSE AddRulesV6(c, k, LAMBDA a : eth_rules_v6(c.o, mac, a))

\* The ODU interface has a header and default routes of its own, for the first
\* neighbour it sees.
handle_odu_hdr_init(c, mac) ==
    AddHeader(AddHeader([c EXCEPT !.o.odu = mac], Header(c.o, "odu", "v4")), Header(c.o, "odu", "v6"))

odu_routes(o) == {Rule(o, "odu", f, "default", "odu", "main") : f \in F}

handle_odu_route_add(c) == AddRoutingRule(c, odu_routes(c.o))
handle_odu_route_del(c) == DeleteRoutingHdl(c, odu_routes(c.o))

odu_neigh_add(c, mac) ==
    IF c.o.odu # NULL THEN c
    ELSE LET t == handle_odu_hdr_init(c, mac) IN
         IF c.o.embms THEN handle_odu_route_add(t) ELSE t

\* In bridge mode an ODU interface has no clients of its own.
OduBridge(o) == o.class = "odu" /\ ~o.router

\* IPA_NEIGH_CLIENT_IP_ADDR_ADD_EVENT
lan_neigh_add(c, d) ==
    LET t == IF c.o.class = "odu" THEN odu_neigh_add(c, d.mac) ELSE c
        u == handle_eth_hdr_init(t, d.mac)
        v == handle_eth_client_route_rule(handle_eth_client_ipaddr(u, d), d.mac, d.fam)
        w == IF d.fam = "v4" THEN HandleNeighIpAddrAddEvt(v, d.addr) ELSE v
    IN IF OduBridge(c.o) THEN t
       ELSE IF ~eth_ipaddr_new(u.o, d) THEN u
       ELSE eth_bridge_post_event(w, BridgeEvent("CLIENT_ADD", NULL, d.mac))

\* One address and its pair of rules.
handle_del_ipv6_addr(c, d) ==
    LET k == get_eth_client_index(c.o, d.mac)
        s == c.o.clients[k]
    IN IF k = 0 \/ s.h6 = <<>> THEN c
       ELSE LET n == CHOOSE j \in DOMAIN s.v6 : s.v6[j] = d.addr IN
            [DeleteRoutingHdl(c, s.h6[n]) EXCEPT !.o.clients[k].v6 = RemoveAt(@, n),
                                                 !.o.clients[k].h6 = RemoveAt(@, n)]

\* A deletion handle_del_ipv6_addr cannot find the address of, while the client
\* has others: it deletes through a handle that is not one, and forgets the last
\* address. Not modelled: see lan_neigh_del.
StrayDel(o, d) ==
    LET k == IndexOf(o, d.mac) IN
    d.fam = "v6" /\ k # 0 /\ o.clients[k].h6 # <<>> /\ ~Contains(o.clients[k].v6, d.addr)

\* Mutant: the client keeps its IPv6 rules.
handle_eth_client_down_evt_v4(c, mac) ==
    LET k == get_eth_client_index(c.o, mac)
        t == IF c.o.clients[k].v4 = NULL THEN c ELSE HandleNeighIpAddrDelEvt(c, c.o.clients[k].v4)
        u == DeleteRules(t, k, "v4")
        v == DeleteHeaderHdl(DeleteHeaderHdl(u, Header(c.o, mac, "v4")), Header(c.o, mac, "v6"))
    IN IF k = 0 THEN c ELSE [v EXCEPT !.o.clients = RemoveAt(@, k)]

\* NAT rules first, then routes, then headers; the slots behind move up.
handle_eth_client_down_evt(c, mac) ==
    LET k == get_eth_client_index(c.o, mac)
        t == IF c.o.clients[k].v4 = NULL THEN c ELSE HandleNeighIpAddrDelEvt(c, c.o.clients[k].v4)
    IN IF k = 0 THEN c ELSE [Release(t, k) EXCEPT !.o.clients = RemoveAt(@, k)]

\* IPA_NEIGH_CLIENT_IP_ADDR_DEL_EVENT: an IPv4 deletion, whatever its address,
\* is the end of the client.
lan_neigh_del(c, d) ==
    IF OduBridge(c.o) THEN c
    ELSE IF d.fam = "v6" THEN handle_del_ipv6_addr(c, d)
    ELSE handle_eth_client_down_evt(
             eth_bridge_post_event(c, BridgeEvent("CLIENT_DEL", NULL, d.mac)), d.mac)

\* IPA_HANDLE_WAN_DOWN_V6: the IPv6 addresses are forgotten with their rules.
handle_lan_client_reset_rt(c) ==
    ForClients(LAMBDA x, k : [delete_eth_rtrules(x, k, "v6") EXCEPT !.o.clients[k].v6 = <<>>], c)

\* As far as the clients and the bridge see it: the IPv4 address is announced to
\* the bridge, and of the IPv6 addresses the first.
handle_addr_evt(c, f) ==
    LET t == [c EXCEPT !.o.ips = @ \cup {f}] IN
    IF f = "v6" /\ f \in c.o.ips THEN t
    ELSE eth_bridge_post_event(t, BridgeEvent("IFACE_UP", f, NULL))

\* The end of handle_down_evt: the clients go, in the order of their slots.
lan_clients_down(c) ==
    ForClients(LAMBDA x, k :
        Release(IF x.o.clients[k].v4 = NULL THEN x
                ELSE HandleNeighIpAddrDelEvt(x, x.o.clients[k].v4), k), c)

odu_down(c) ==
    LET t == IF c.o.embms THEN handle_odu_route_del(c) ELSE c IN
    IF c.o.odu = NULL THEN t
    ELSE DeleteHeaderHdl(DeleteHeaderHdl(t, Header(c.o, "odu", "v4")), Header(c.o, "odu", "v6"))

\* An interface without an address leaves without a word to the bridge.
lan_handle_down_evt(c) ==
    LET t == IF c.o.class = "odu" THEN odu_down(c) ELSE c IN
    lan_clients_down(IF c.o.ips = {} THEN t
                     ELSE eth_bridge_post_event(t, BridgeEvent("IFACE_DOWN", NULL, NULL)))
=============================================================================
