----------------------------- MODULE ClientTable -----------------------------
(***************************************************************************)
(* What the client tables of IPACM_Lan, IPACM_Wlan and IPACM_Wan have in   *)
(* common: a slot per client, the headers and routing rules it owns in the *)
(* hardware, and the calls of IPACM_Header and IPACM_Routing that change   *)
(* them.                                                                   *)
(*                                                                         *)
(* A handler takes and returns a context: the object o that runs it, the   *)
(* hardware hw, the events evs it posts to the LAN to LAN bridge, isMCC_   *)
(* Mode and total_num_wifi_clients. A handle is the rule it was given for. *)
(* Calls into the hardware succeed, and of the transmit properties of an   *)
(* interface there is one per family.                                      *)
(***************************************************************************)
EXTENDS Naturals, SequencesExt, FiniteSets

CONSTANTS
    NULL,
    IPV6_NUM_ADDR, \* the IPv6 addresses of a client (3)
    Foreign        \* IPv6 addresses that are neither local to the link nor of ipv6_prefix

F == {"v4", "v6"}

\* hdr: headers; rt: routing rules of the clients; nat: the IPv4 addresses the
\* NAT listener was told; sta: those of the clients in front of an STA.
NoHw == [hdr |-> {}, rt |-> {}, nat |-> {}, sta |-> {}]

\* v4 is NULL unless ipv4_set; Len(v6) is ipv6_set; h4 is NULL unless
\* route_rule_set_v4; Len(h6) is route_rule_set_v6, one pair of rules each.
NewSlot(mac) == [mac |-> mac, v4 |-> NULL, v6 |-> <<>>, h4 |-> NULL, h6 |-> <<>>]

Ctx(o, hw, mcc, total) == [o |-> o, hw |-> hw, evs |-> <<>>, mcc |-> mcc, total |-> total]

\* The first slot of a MAC address, 0 for IPACM_INVALID_INDEX.
IndexOf(o, mac) ==
    LET K == {k \in DOMAIN o.clients : o.clients[k].mac = mac} IN
    IF K = {} THEN 0 ELSE CHOOSE k \in K : \A j \in K : k <= j

\* tbl: rt_tbl_lan_v4 and rt_tbl_v6 are "lan", rt_tbl_wan_v4 and rt_tbl_wan_v6
\* "wan", rt_tbl_odu_v4 and _v6 "odu". dst: a pipe, or "apps" for the CPU.
Rule(o, mac, f, a, tbl, dst) ==
    [if |-> o.if, mac |-> mac, fam |-> f, addr |-> a, tbl |-> tbl, dst |-> dst]

Header(o, mac, f) == [if |-> o.if, mac |-> mac, fam |-> f]

AddHeader(c, h)            == [c EXCEPT !.hw.hdr = @ \cup {h}]
DeleteHeaderHdl(c, h)      == [c EXCEPT !.hw.hdr = @ \ {h}]
AddRoutingRule(c, R)       == [c EXCEPT !.hw.rt = @ \cup R]
DeleteRoutingHdl(c, R)     == [c EXCEPT !.hw.rt = @ \ R]
ModifyRoutingRule(c, r, s) == [c EXCEPT !.hw.rt = (@ \ {r}) \cup {s}]

\* Messages to the NAT listener.
HandleNeighIpAddrAddEvt(c, a) == [c EXCEPT !.hw.nat = @ \cup {a}]
HandleNeighIpAddrDelEvt(c, a) == [c EXCEPT !.hw.nat = @ \ {a}]
HandleSTAClientAddEvt(c, a)   == [c EXCEPT !.hw.sta = @ \cup {a}]
HandleSTAClientDelEvt(c, a)   == [c EXCEPT !.hw.sta = @ \ {a}]

eth_bridge_post_event(c, e) == [c EXCEPT !.evs = Append(@, [e EXCEPT !.if = c.o.if])]

BridgeEvent(ev, f, mac) == [ev |-> ev, if |-> NULL, fam |-> f, mac |-> mac]

\* The rules of one family of slot k go.
DeleteRules(c, k, f) ==
    LET s == c.o.clients[k] IN
    IF f = "v4"
    THEN [DeleteRoutingHdl(c, {s.h4} \ {NULL}) EXCEPT !.o.clients[k].h4 = NULL]
    ELSE [DeleteRoutingHdl(c, UNION Range(s.h6)) EXCEPT !.o.clients[k].h6 = <<>>]

\* The IPv4 rule r of slot k, unless it has one or has no address.
AddRuleV4(c, k, r) ==
    IF c.o.clients[k].v4 = NULL \/ c.o.clients[k].h4 # NULL THEN c
    ELSE [AddRoutingRule(c, {r}) EXCEPT !.o.clients[k].h4 = r]

\* The IPv6 rules R(a) of every address a of slot k that has none yet.
AddRulesV6(c, k, R(_)) ==
    LET s == c.o.clients[k]
        new == [n \in 1..Len(s.v6) |-> R(s.v6[n])]
    IN [AddRoutingRule(c, UNION {new[n] : n \in Len(s.h6) + 1..Len(s.v6)})
            EXCEPT !.o.clients[k].h6 = s.h6 \o SubSeq(new, Len(s.h6) + 1, Len(new))]

\* What slot k owns besides its place in the table.
Release(c, k) ==
    LET mac == c.o.clients[k].mac
        d == DeleteRules(DeleteRules(c, k, "v4"), k, "v6")
    IN DeleteHeaderHdl(DeleteHeaderHdl(d, Header(c.o, mac, "v4")), Header(c.o, mac, "v6"))

\* Take op to every slot.
ForClients(op(_, _), c) == FoldLeft(op, c, [k \in 1..Len(c.o.clients) |-> k])
=============================================================================
