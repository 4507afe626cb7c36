----------------------------- MODULE MC_Firewall -----------------------------
(* Firewall files with the kinds of entries that are treated differently. *)
EXTENDS Firewall

N(tag, val) == [tag |-> tag, val |-> val]
Top(enable, accept) == <<N("FirewallEnabled", enable), N("FirewallPktsAllowed", accept)>>

\* TCP and UDP to port 2 over IPv4; UDP over IPv6.
both == <<N("Firewall", NULL), N("IPFamily", 4), N("IPV4NextHeaderProtocol", "TCP_UDP"),
          N("TCP_UDPDestinationPort", 2), N("TCP_UDPDestinationRange", 0),
          N("Firewall", NULL), N("IPFamily", 6), N("IPV6NextHeaderProtocol", "UDP")>>
\* TCP and UDP from ports 1 and 2 over IPv6; a source network over IPv4; ICMP over IPv6.
deep == <<N("Firewall", NULL), N("IPFamily", 6), N("IPV6NextHeaderProtocol", "TCP_UDP"),
          N("TCP_UDPSourcePort", 1), N("TCP_UDPSourceRange", 1),
          N("Firewall", NULL), N("IPFamily", 4), N("IPV4SourceAddress", "net"),
          N("Firewall", NULL), N("IPFamily", 6), N("IPV6NextHeaderProtocol", "ICMP6"), N("ICMPType", "echo")>>

mc_Files == [none |-> NULL,
             off |-> Top(0, 1) \o both,
             allow |-> Top(1, 1) \o both,
             deny |-> Top(1, 0) \o deep,
             allow6 |-> Top(1, 1) \o deep]

P(f, is, src, dst) == [f |-> f, is |-> is, src |-> src, dst |-> dst]
mc_Packets ==
    {P("v4", {"TCP"}, 3, 2), P("v4", {"UDP"}, 3, 2), P("v4", {"UDP"}, 3, 3), P("v4", {"TCP", "net"}, 1, 4),
     P("v4", {"UDP"}, 5, 2), P("v4", {"ICMP"}, 0, 0), P("v4", {"TCP", "SYN"}, 3, 2),
     P("v4", {"UDP", "multicast", "net"}, 3, 2),
     P("v6", {"TCP"}, 2, 3), P("v6", {"TCP"}, 3, 3), P("v6", {"TCP", "SYN"}, 2, 3), P("v6", {"UDP"}, 2, 3),
     P("v6", {"ICMP6", "echo"}, 0, 0), P("v6", {"ICMP6"}, 0, 0), P("v6", {"UDP", "frag"}, 2, 3),
     P("v6", {"UDP", "own"}, 2, 3)}
Scope(mode, files, if_modes, sw) == [mode |-> mode, files |-> files, if_modes |-> if_modes, sw |-> sw]
mc_Scopes ==
    {Scope("WLAN_WAN", {"none", "allow", "deny"}, {"ROUTER"}, FALSE),
     Scope("WLAN_WAN", {"off", "allow6"}, {"ROUTER", "BRIDGE"}, FALSE),
     Scope("WLAN_WAN", {"deny"}, {"BRIDGE"}, TRUE),
     Scope("ECM_WAN", {"off", "deny"}, {"ROUTER", "BRIDGE"}, FALSE),
     Scope("Q6_WAN", {"none", "off", "allow", "deny", "allow6"}, {"ROUTER"}, FALSE),
     Scope("Q6_WAN", {"off", "allow6"}, {"ROUTER", "BRIDGE"}, TRUE)}
\* The parser understands these files.
ASSUME FilesRead == \A x \in DOMAIN mc_Files, p \in mc_Packets : ReadsAsWritten(mc_Files[x], p)

\* Three entries, and three rules of one family, are as many as fit.
ASSUME FilesFill == FilesFit <=> IPACM_MAX_FIREWALL_ENTRIES >= 3

mc_Alg == <<[protocol |-> "UDP", port |-> 5]>>
=============================================================================
