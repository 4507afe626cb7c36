---------------------------- MODULE FirewallConfig ----------------------------
(***************************************************************************)
(* The mobile-AP firewall file and the filter rules made from it.         *)
(*                                                                         *)
(* A file is NULL (missing, or not well-formed XML) or the sequence of the *)
(* element nodes IPACM_firewall_xml_parse_tree visits, in its order; a     *)
(* node is [tag, val].  Addresses, types of service, ICMP types and SPIs   *)
(* are features that a packet has or has not; ports are numbers.           *)
(***************************************************************************)
EXTENDS Naturals, SequencesExt, FiniteSets

CONSTANT NULL

\* Ports are numbers of 16 bits.
MaxPort == 65535
AnyPort == [lo |-> 0, hi |-> MaxPort]

(***************************************************************************)
(* IPACM_firewall_conf_t: memset gives a disabled firewall whose matches   *)
(* are dropped, without entries.                                           *)
(***************************************************************************)
NoConfig == [enable |-> FALSE, accept |-> FALSE, entries |-> <<>>]
Attrib == [port |-> 0, lo |-> 0, hi |-> 0]
NewEntry == [ip_vsn |-> 0, mask |-> {}, on |-> {}, protocol |-> NULL, src |-> Attrib, dst |-> Attrib]

\* Every other tag is about the entry that the last Firewall element opened.
InEntry(c, e) == [c EXCEPT !.entries[Len(c.entries)] = e]
LastEntry(c) == Last(c.entries)

GlobalTags == {"Firewall", "FirewallEnabled", "FirewallPktsAllowed"}
GlobalNode(c, n) ==
    CASE n.tag = "Firewall" -> [c EXCEPT !.entries = Append(@, NewEntry)]
      [] n.tag = "FirewallEnabled" -> [c EXCEPT !.enable = (n.val = 1)]
      [] n.tag = "FirewallPktsAllowed" -> [c EXCEPT !.accept = (n.val = 1)]

FamilyNode(c, n) == InEntry(c, [LastEntry(c) EXCEPT !.ip_vsn = n.val])

\* An address, type of service or protocol element sets its bit of the mask
\* and its value.
IPv4Fields ==
    [IPV4SourceAddress |-> "SRC_ADDR", IPV4DestinationAddress |-> "DST_ADDR",
     IPV4TypeOfService |-> "TOS", IPV4NextHeaderProtocol |-> "PROTOCOL"]
IPv6Fields ==
    [IPV6SourceAddress |-> "SRC_ADDR", IPV6DestinationAddress |-> "DST_ADDR",
     IPV6TrafficClass |-> "TC", IPV6NextHeaderProtocol |-> "NEXT_HDR"]
HeaderFields == [ICMPType |-> "TYPE", ICMPCode |-> "CODE", ESPSPI |-> "SPI"]

FieldNode(c, n, fields) ==
    LET e == [LastEntry(c) EXCEPT !.mask = @ \cup {fields[n.tag]}] IN
    InEntry(c, IF fields[n.tag] \in {"PROTOCOL", "NEXT_HDR"}
               THEN [e EXCEPT !.protocol = n.val]
               ELSE [e EXCEPT !.on = @ \cup {n.val}])

\* A port is kept until the range element after it tells how to match it: the
\* bit of the mask is set by the range alone.
TCPPorts ==
    [TCPSourcePort |-> <<"src", "port">>, TCPSourceRange |-> <<"src", "range">>,
     TCPDestinationPort |-> <<"dst", "port">>, TCPDestinationRange |-> <<"dst", "range">>]
UDPPorts ==
    [UDPSourcePort |-> <<"src", "port">>, UDPSourceRange |-> <<"src", "range">>,
     UDPDestinationPort |-> <<"dst", "port">>, UDPDestinationRange |-> <<"dst", "range">>]
TCP_UDPPorts ==
    [TCP_UDPSourcePort |-> <<"src", "port">>, TCP_UDPSourceRange |-> <<"src", "range">>,
     TCP_UDPDestinationPort |-> <<"dst", "port">>, TCP_UDPDestinationRange |-> <<"dst", "range">>]
PortBit == [src |-> "SRC_PORT", dst |-> "DST_PORT"]
RangeBit == [src |-> "SRC_PORT_RANGE", dst |-> "DST_PORT_RANGE"]

PortNode(c, n, ports) ==
    LET e == LastEntry(c)
        side == ports[n.tag][1] IN
    InEntry(c,
        IF ports[n.tag][2] = "port" THEN [e EXCEPT ![side].port = n.val]
        ELSE IF n.val # 0
        THEN [e EXCEPT !.mask = @ \cup {RangeBit[side]},
                       ![side] = [port |-> 0, lo |-> @.port, hi |-> (@.port + n.val) % (MaxPort + 1)]]
        ELSE [e EXCEPT !.mask = @ \cup {PortBit[side]}])

IPACM_firewall_xml_parse_tree(c, n) ==
    CASE n.tag \in GlobalTags -> GlobalNode(c, n)
      [] n.tag = "IPFamily" -> FamilyNode(c, n)
      [] n.tag \in DOMAIN IPv4Fields -> FieldNode(c, n, IPv4Fields)
      [] n.tag \in DOMAIN IPv6Fields -> FieldNode(c, n, IPv6Fields)
      [] n.tag \in DOMAIN HeaderFields -> FieldNode(c, n, HeaderFields)
      [] n.tag \in DOMAIN TCPPorts -> PortNode(c, n, TCPPorts)
      [] n.tag \in DOMAIN UDPPorts -> PortNode(c, n, UDPPorts)
      [] n.tag \in DOMAIN TCP_UDPPorts -> PortNode(c, n, TCP_UDPPorts)
      [] OTHER -> c

\* read[n] is the configuration once n nodes are visited.
IPACM_read_firewall_xml(file) ==
    LET read[n \in 0..Len(file)] ==
            IF n = 0 THEN NoConfig ELSE IPACM_firewall_xml_parse_tree(read[n - 1], file[n])
    IN IF file = NULL THEN NoConfig ELSE read[Len(file)]

\* Does a rule of an IPv6 entry look past the IPv6 header?
check_dft_firewall_rules_attr_mask(c) ==
    \E i \in DOMAIN c.entries :
        /\ c.entries[i].ip_vsn = 6
        /\ c.entries[i].mask \cap {"SRC_PORT", "DST_PORT", "SRC_PORT_RANGE", "DST_PORT_RANGE",
                                   "TYPE", "CODE", "SPI"} # {}

(***************************************************************************)
(* Filter rules: the features a packet must have, the ports it may have,   *)
(* and where a packet that matches goes.                                   *)
(***************************************************************************)
Rule(on, to) == [on |-> on, src |-> AnyPort, dst |-> AnyPort, to |-> to]
Each(features, to) == [i \in DOMAIN features |-> Rule({features[i]}, to)]

PortsOf(e, side) ==
    IF RangeBit[side] \in e.mask THEN [lo |-> e[side].lo, hi |-> e[side].hi]
    ELSE IF PortBit[side] \in e.mask THEN [lo |-> e[side].port, hi |-> e[side].port]
    ELSE AnyPort

EntryRule(e, protocol, to) ==
    [on |-> e.on \cup (IF e.mask \cap {"PROTOCOL", "NEXT_HDR"} # {} THEN {protocol} ELSE {}),
     src |-> PortsOf(e, "src"), dst |-> PortsOf(e, "dst"), to |-> to]

\* A TCP_UDP entry becomes a rule for TCP and one for UDP.
EntryRules(e, to) ==
    IF e.protocol = "TCP_UDP"
    THEN <<EntryRule(e, "TCP", to), EntryRule(e, "UDP", to)>>
    ELSE <<EntryRule(e, e.protocol, to)>>

\* The rules of the entries of family vsn, in the order of the file: rules[n] are
\* those of the first n entries.
RulesOf(c, vsn, to) ==
    LET rules[n \in 0..Len(c.entries)] ==
            IF n = 0 THEN <<>>
            ELSE IF c.entries[n].ip_vsn = vsn THEN rules[n - 1] \o EntryRules(c.entries[n], to)
            ELSE rules[n - 1]
    IN IF c.enable THEN rules[Len(c.entries)] ELSE <<>>

(***************************************************************************)
(* The hardware: the first rule that matches decides.  A packet is         *)
(* [f, is, src, dst]; one without ports has port 0.                        *)
(***************************************************************************)
Matches(r, p) == r.on \subseteq p.is /\ p.src \in r.src.lo..r.src.hi /\ p.dst \in r.dst.lo..r.dst.hi

Verdict(rules, p) ==
    LET i == SelectInSeq(rules, LAMBDA r : Matches(r, p)) IN
    IF i = 0 THEN NULL ELSE rules[i].to

(***************************************************************************)
(* What the file says, read without the parser: entry k is the nodes from  *)
(* one Firewall element to the next.                                       *)
(***************************************************************************)
Says(file, tag) == file # NULL /\ \E i \in DOMAIN file : file[i].tag = tag /\ file[i].val = 1

NodesOfEntry(file, k) ==
    {file[i] : i \in {j \in DOMAIN file : j > k /\ \A l \in k + 1 .. j : file[l].tag # "Firewall"}}

EntryAsks(nodes, p) ==
    /\ \E n \in nodes : n.tag = "IPFamily" /\ n.val = (IF p.f = "v4" THEN 4 ELSE 6)
    /\ \A n \in nodes :
          /\ n.tag \in {"IPV4NextHeaderProtocol", "IPV6NextHeaderProtocol"} =>
                p.is \cap (IF n.val = "TCP_UDP" THEN {"TCP", "UDP"} ELSE {n.val}) # {}
          /\ n.tag \in (DOMAIN IPv4Fields \cup DOMAIN IPv6Fields \cup DOMAIN HeaderFields)
                 \ {"IPV4NextHeaderProtocol", "IPV6NextHeaderProtocol"} => n.val \in p.is
    /\ \A t \in {TCPPorts, UDPPorts, TCP_UDPPorts}, s \in {"src", "dst"} :
          \A n, r \in nodes :
             n.tag \in DOMAIN t /\ r.tag \in DOMAIN t /\ t[n.tag] = <<s, "port">> /\ t[r.tag] = <<s, "range">>
                => p[s] \in n.val .. n.val + r.val

FileMatches(file, p) ==
    file # NULL /\ \E k \in DOMAIN file : file[k].tag = "Firewall" /\ EntryAsks(NodesOfEntry(file, k), p)

\* Does a packet match a rule of an entry of family vsn, wherever the rule leads?
EntryHits(c, vsn, p) ==
    \E n \in 1..Len(c.entries) :
        c.entries[n].ip_vsn = vsn /\ \E i \in DOMAIN EntryRules(c.entries[n], "") :
            Matches(EntryRules(c.entries[n], "")[i], p)

\* The parser has understood a file, as far as a packet can tell.
ReadsAsWritten(file, p) ==
    LET c == IPACM_read_firewall_xml(file) IN
    /\ c.enable = Says(file, "FirewallEnabled") /\ c.accept = Says(file, "FirewallPktsAllowed")
    /\ c.enable => (EntryHits(c, IF p.f = "v4" THEN 4 ELSE 6, p) <=> FileMatches(file, p))
=============================================================================
