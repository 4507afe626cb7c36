------------------------------- MODULE Firewall -------------------------------
(***************************************************************************)
(* The downlink filter rules of one WAN interface: the default filters of  *)
(* its addresses, the firewall rules of the families it is upstream of,    *)
(* and software routing.                                                   *)
(*                                                                         *)
(* On Wi-Fi (WLAN_WAN) and on a cradle (ECM_WAN) every rule is added to    *)
(* and deleted from the filter table of the pipe by a handle.  On the      *)
(* modem (Q6_WAN) the rules are built in flt_rule_v4 and flt_rule_v6 and   *)
(* sent whole.  hw is what the hardware applies: the filter table of the   *)
(* pipe, or the rules the modem has taken (without handles).               *)
(*                                                                         *)
(* The file is written, and the signals that switch software routing set   *)
(* their flag, at any time; the events that tell the interface come later. *)
(*                                                                         *)
(* The program is built in two ways.  With FEATURE_IPA_ANDROID it has more *)
(* default filters for IPv6 and no firewall_monitor: the file is read when *)
(* a route comes, and nothing tells of a change.  Without, firewall_monitor*)
(* posts an event for every write of the file and of the configuration.    *)
(***************************************************************************)
EXTENDS FirewallConfig

CONSTANTS
    FEATURE_IPA_ANDROID,        \* the build
    IPACM_MAX_FIREWALL_ENTRIES, \* room for the handles of one family's firewall rules
    Scopes,                     \* bound: what may happen together, [mode, files, if_modes, sw]
    Files,                      \* the contents the firewall file may have, by name; "none" is a missing file
    Packets,                    \* the classes of packets
    Alg,                        \* the ALG ports of the configuration: a sequence of [protocol, port]
    QMI_IPA_MAX_FILTERS,        \* what the modem takes in one request
    MaxPending,                 \* bound: events not yet handled
    MaxLost                     \* bound: rules left behind

ASSUME FirewallAssumption ==
    /\ \A c \in Scopes : /\ c.mode \in {"Q6_WAN", "WLAN_WAN", "ECM_WAN"} /\ c.sw \in BOOLEAN
                         /\ c.files \subseteq DOMAIN Files /\ c.if_modes \subseteq {"ROUTER", "BRIDGE"}
    /\ "none" \in DOMAIN Files /\ Files["none"] = NULL
    /\ MaxPending \in Nat /\ MaxLost \in Nat
    /\ FEATURE_IPA_ANDROID \in BOOLEAN /\ IPACM_MAX_FIREWALL_ENTRIES \in Nat
    /\ QMI_IPA_MAX_FILTERS \in Nat \ {0, 1}   \* room for software routing, of either family

\* The ports in files, in the configuration and in packets.
Port == 0..MaxPort
ASSUME DataAssumption ==
    /\ \A x \in DOMAIN Files : Files[x] # NULL =>
          /\ Len(Files[x]) \in Nat /\ DOMAIN Files[x] = 1..Len(Files[x])
          /\ \A n \in 1..Len(Files[x]) :
                Files[x][n].tag \in DOMAIN TCPPorts \cup DOMAIN UDPPorts \cup DOMAIN TCP_UDPPorts =>
                    Files[x][n].val \in Port
    /\ Len(Alg) \in Nat /\ DOMAIN Alg = 1..Len(Alg) /\ \A i \in DOMAIN Alg : Alg[i].port \in Port
    /\ \A p \in Packets : p.f \in {"v4", "v6"} /\ p.src \in Port /\ p.dst \in Port

VARIABLES
    env,        \* what the interface does not own: the backhaul, the file and the events not yet handled
    s,          \* the IPACM_Wan object, its static members, its entry of the configuration, the hardware
    missed      \* families whose rules were not rebuilt when what they are built from changed
vars == <<env, s, missed>>

F == {"v4", "v6"}
Vsn == [v4 |-> 4, v6 |-> 6]
None == [f \in F |-> <<>>]
Q6 == env.scope.mode = "Q6_WAN"

(***************************************************************************)
(* The constructor.  The configured mode of the interface, the static      *)
(* members (the bridge flag and the modem's rules) and the hardware        *)
(* outlive the object.  A handle that the code keeps after deleting its    *)
(* rule and never uses again is dropped.  lost and from belong to no       *)
(* variable of the code: the rules nobody has a handle of, and the file    *)
(* that each family's rules were made from.                                *)
(***************************************************************************)
NewWan(if_mode, bridge, flt, hw, lost) ==
    [up |-> FALSE, v4 |-> FALSE, n6 |-> 0, active |-> {}, gw |-> FALSE, mask |-> FALSE,
     hdl |-> None, dft |-> None, frag |-> <<>>, fl |-> None, own |-> <<>>,
     act |-> FALSE, swh |-> None, if_mode |-> if_mode, bridge |-> bridge, flt |-> flt,
     hw |-> hw, lost |-> lost, from |-> [f \in F |-> "none"]]

(***************************************************************************)
(* The filter table of the pipe.  The driver gives the smallest handles    *)
(* that are free.                                                          *)
(***************************************************************************)
Hdls(seq) == {seq[i].hdl : i \in DOMAIN seq}
NextHdl(tbl, h) ==
    CHOOSE k \in h + 1 .. h + 1 + Len(tbl) :
        k \notin Hdls(tbl) /\ \A j \in h + 1 .. k - 1 : j \in Hdls(tbl)
NewHdls(tbl, n) ==
    LET hdl[i \in 0..n] == IF i = 0 THEN 0 ELSE NextHdl(tbl, hdl[i - 1]) IN [i \in 1..n |-> hdl[i]]
Entered(hdls, rules) == [i \in DOMAIN rules |-> [hdl |-> hdls[i], rule |-> rules[i]]]

\* A filter table without the rules of some handles: left[n] is what is left of
\* the first n.
Without(tbl, hdls) ==
    LET left[n \in 0..Len(tbl)] ==
            IF n = 0 THEN <<>>
            ELSE IF tbl[n].hdl \in hdls THEN left[n - 1] ELSE Append(left[n - 1], tbl[n])
    IN left[Len(tbl)]

AddFilteringRule(w, f, rules) ==
    [w EXCEPT !.hw[f] = @ \o Entered(NewHdls(w.hw[f], Len(rules)), rules)]
AddFilteringRuleInFront(w, f, rules) ==
    [w EXCEPT !.hw[f] = Entered(NewHdls(w.hw[f], Len(rules)), rules) \o @]
DeleteFilteringHdls(w, f, hdls) ==
    [w EXCEPT !.hw[f] = Without(@, ToSet(hdls))]

(***************************************************************************)
(* Default filters: what the applications processor always gets.           *)
(***************************************************************************)
PipeClasses4 == <<"frag", "multicast", "broadcast">>
PipeClasses6 ==
    IF FEATURE_IPA_ANDROID THEN <<"multicast", "fe80", "fec0", "FIN", "SYN", "RST">>
    ELSE <<"multicast", "fe80", "fec0">>
ModemClasses4 == <<"multicast", "broadcast">>
ModemClasses6 ==
    IF FEATURE_IPA_ANDROID THEN <<"multicast", "fe80", "fec0", "FIN", "SYN", "RST">>
    ELSE <<"multicast", "fe80", "fec0">>

init_fl_rule(w, f) ==
    LET rules == Each(IF f = "v4" THEN PipeClasses4 ELSE PipeClasses6, "EXCEPTION") IN
    [AddFilteringRule(w, f, rules) EXCEPT !.fl[f] = NewHdls(w.hw[f], Len(rules))]

\* A rule for the global IPv6 address of an interface that is not the modem's.
OwnAddressRule(w) ==
    [AddFilteringRule(w, "v6", <<Rule({"own"}, "EXCEPTION")>>) EXCEPT !.own = NewHdls(w.hw.v6, 1)]

\* Software routing: everything to the applications processor, by a rule in
\* front of each family's.
handle_software_routing_enable(w) ==
    IF w.act THEN w
    ELSE LET r == <<Rule({}, "EXCEPTION")>>
             h == [f \in F |-> NewHdls(w.hw[f], 1)] IN
         [AddFilteringRuleInFront(AddFilteringRuleInFront(w, "v4", r), "v6", r)
             EXCEPT !.swh = h, !.act = TRUE]

handle_software_routing_disable(w) ==
    IF ~w.act THEN w
    ELSE [DeleteFilteringHdls(DeleteFilteringHdls(w, "v4", w.swh.v4), "v6", w.swh.v6)
             EXCEPT !.swh = None, !.act = FALSE]

(***************************************************************************)
(* The firewall rules of a pipe.                                           *)
(***************************************************************************)
PassOn(w, f) ==
    IF f = "v6" THEN "wan_v6" ELSE IF w.if_mode = "ROUTER" THEN "DST_NAT" ELSE "lan_v4"

FragRules(c, f, to) ==
    IF f = "v6" /\ c.enable /\ check_dft_firewall_rules_attr_mask(c) THEN <<Rule({"frag"}, to)>> ELSE <<>>
EntryRulesOf(w, c, f) == RulesOf(c, Vsn[f], IF c.accept THEN PassOn(w, f) ELSE "EXCEPTION")
ICMP6Rules(f) == IF f = "v6" THEN <<Rule({"ICMP6"}, "EXCEPTION")>> ELSE <<>>
PipeDefault4(w, c) == IF c.enable /\ c.accept THEN "EXCEPTION" ELSE PassOn(w, "v4")
PipeDefault6(w, c) == IF c.enable /\ c.accept THEN "EXCEPTION" ELSE PassOn(w, "v6")
DefaultRules(w, c, f) == <<Rule({}, IF f = "v4" THEN PipeDefault4(w, c) ELSE PipeDefault6(w, c))>>

\* The handles of the entries go behind those counted already; the handles of
\* the default rules replace the last ones.  A fragment rule whose handle is
\* still held is forgotten when another is added.
config_dft_firewall_rules(w, f) ==
    LET c == IPACM_read_firewall_xml(Files[env.file])
        frag == FragRules(c, f, "EXCEPTION")
        entries == EntryRulesOf(w, c, f)
        rest == ICMP6Rules(f) \o DefaultRules(w, c, f)
        h == NewHdls(w.hw[f], Len(frag) + Len(entries) + Len(rest)) IN
    [AddFilteringRule(w, f, frag \o entries \o rest) EXCEPT
        !.mask = check_dft_firewall_rules_attr_mask(c),
        !.frag = IF frag = <<>> THEN @ ELSE <<h[1]>>,
        !.hdl[f] = @ \o SubSeq(h, Len(frag) + 1, Len(frag) + Len(entries)),
        !.dft[f] = SubSeq(h, Len(frag) + Len(entries) + 1, Len(h)),
        !.lost[f] = IF frag = <<>> THEN @ ELSE @ \cup ToSet(w.frag),
        !.from[f] = env.file]

\* The fragment rule goes only if the configuration read last asks for one.
FragDeleted(w) == IF w.mask THEN w.frag ELSE <<>>
FirewallDeleted(w, f) ==
    [DeleteFilteringHdls(w, f, w.hdl[f] \o w.dft[f] \o (IF f = "v6" THEN FragDeleted(w) ELSE <<>>))
        EXCEPT !.hdl[f] = <<>>, !.dft[f] = <<>>, !.frag = IF f = "v6" /\ w.mask THEN <<>> ELSE @]

\* Mutant: as many rules as there is room for are taken for too many.
del_dft_OffByOne(w, f) ==
    IF f \notin w.active \/ Len(w.hdl[f]) >= IPACM_MAX_FIREWALL_ENTRIES THEN w ELSE FirewallDeleted(w, f)
\* With more rules than there is room for handles nothing is deleted, and the
\* callers go on.  (The handles past the end of firewall_hdl_v4 and
\* firewall_hdl_v6 are kept here; the code writes them over what follows.)
del_dft_firewall_rules(w, f) ==
    IF f \notin w.active \/ Len(w.hdl[f]) > IPACM_MAX_FIREWALL_ENTRIES THEN w ELSE FirewallDeleted(w, f)

\* Mutant: the old rules stay in front of the new ones.
ReloadDft_AddsOnly(w, f) == IF f \in w.active THEN config_dft_firewall_rules(w, f) ELSE w
\* The handler of a change, for the families in use.
ReloadDft(w, f) == IF f \in w.active THEN config_dft_firewall_rules(del_dft_firewall_rules(w, f), f) ELSE w

(***************************************************************************)
(* The rules of the modem.                                                 *)
(***************************************************************************)
Zero == Rule({}, "table 0")
NumDefault == [v4 |-> 2, v6 |-> IF FEATURE_IPA_ANDROID THEN 6 ELSE 3]
Slots(w, f) == [i \in 1..NumDefault[f] |-> IF i <= Len(w.flt[f]) THEN w.flt[f][i] ELSE Zero]

AlgRules(side) ==
    [i \in DOMAIN Alg |->
        [Rule({Alg[i].protocol}, "wan_dl") EXCEPT ![side] = [lo |-> Alg[i].port, hi |-> Alg[i].port]]]
ModemICMP6 == <<Rule({"ICMP6"}, "wan_dl")>>
add_icmp_alg_rules(f) ==
    IF f = "v6" THEN ModemICMP6
    ELSE <<Rule({"ICMP"}, "wan_dl")>> \o AlgRules("src") \o AlgRules("dst")

ModemEntryRules4(c) == RulesOf(c, 4, IF c.accept THEN "DST_NAT" ELSE "wan_dl")
ModemEntryRules6(c) == RulesOf(c, 6, IF c.accept THEN "wan_v6" ELSE "wan_dl")
ModemDefault4(w, c) ==
    IF (c.enable /\ c.accept) \/ (~c.enable /\ w.bridge) THEN "wan_dl" ELSE "DST_NAT"
ModemDefault6(c) == IF c.enable /\ c.accept THEN "wan_dl" ELSE "wan_v6"

config_dft_firewall_rules_ex(w, c, f) ==
    IF f = "v4" THEN ModemEntryRules4(c) \o <<Rule({}, ModemDefault4(w, c))>>
    ELSE FragRules(c, f, "wan_dl") \o ModemEntryRules6(c) \o <<Rule({}, ModemDefault6(c))>>

config_wan_firewall_rule(w, f) ==
    [w EXCEPT !.flt[f] = Slots(w, f) \o add_icmp_alg_rules(f)
                             \o config_dft_firewall_rules_ex(w, IPACM_read_firewall_xml(Files[env.file]), f),
              !.from[f] = env.file]
del_wan_firewall_rule(w, f) == [w EXCEPT !.flt[f] = Slots(w, f)]
add_dft_filtering_rule(w, f) ==
    [w EXCEPT !.flt[f] = Each(IF f = "v4" THEN ModemClasses4 ELSE ModemClasses6, "wan_dl")]

\* The modem takes all the rules or, past its limit, keeps what it has.
FitsModem(tables) == Len(tables.v4) + Len(tables.v6) <= QMI_IPA_MAX_FILTERS
AddWanDLFilteringRule(w, tables) ==
    IF FitsModem(tables)
    THEN [w EXCEPT !.hw = [f \in F |-> Entered([i \in DOMAIN tables[f] |-> 0], tables[f])]]
    ELSE w

CurrentTables(w) == w.flt

install_wan_filtering_rule(w, is_sw_routing) ==
    IF is_sw_routing \/ env.sw
    THEN IF w.act THEN w
         ELSE AddWanDLFilteringRule([w EXCEPT !.act = TRUE], [f \in F |-> <<Rule({}, "wan_dl")>>])
    ELSE AddWanDLFilteringRule(w, CurrentTables(w))

init_fl_rule_ex(w, f) == install_wan_filtering_rule(add_dft_filtering_rule(w, f), FALSE)

(***************************************************************************)
(* The life of the interface.                                              *)
(***************************************************************************)
Become(w) == Cardinality(w.lost.v4) + Cardinality(w.lost.v6) <= MaxLost /\ s' = w
HasAddress(w) == {f \in F : IF f = "v4" THEN w.v4 ELSE w.n6 > 0}

LinkUp ==
    /\ ~s.up
    /\ s' = [s EXCEPT !.up = TRUE]
    /\ UNCHANGED <<env, missed>>

\* IPA_ADDR_ADD_EVENT.  The first IPv6 address is the link-local one.
AddrAddLimit == 2
NewAddress(w, f) ==
    IF f = "v4"
    THEN IF w.v4 THEN w
         ELSE IF Q6 THEN init_fl_rule_ex([w EXCEPT !.v4 = TRUE], f)
         ELSE init_fl_rule([w EXCEPT !.v4 = TRUE], f)
    ELSE LET n == [w EXCEPT !.n6 = @ + 1] IN
         IF w.n6 # 1 THEN n
         ELSE IF Q6 THEN init_fl_rule_ex(n, f)
         ELSE OwnAddressRule(init_fl_rule(n, f))

AddrAdd_NoLimit(f) ==
    /\ s.up
    /\ LET w == NewAddress(s, f) IN
       s' = IF env.sw /\ ~Q6 THEN handle_software_routing_enable(w) ELSE w
    /\ UNCHANGED <<env, missed>>
AddrAdd(f) ==
    /\ s.up
    /\ f = "v6" => s.n6 # AddrAddLimit
    /\ LET w == NewAddress(s, f) IN
       s' = IF env.sw /\ ~Q6 THEN handle_software_routing_enable(w) ELSE w
    /\ UNCHANGED <<env, missed>>

\* IPA_WAN_UPSTREAM_ROUTE_ADD_EVENT; a route of IPv6 waits for the prefix.
RouteAdd(f) ==
    /\ s.up /\ f \notin s.active
    /\ IF f = "v4" THEN s.v4 ELSE s.n6 = AddrAddLimit
    /\ LET bridge == s.if_mode = "BRIDGE"
           w == [s EXCEPT !.active = @ \cup {f}, !.gw = TRUE, !.bridge = bridge] IN
       /\ Become(IF Q6 THEN install_wan_filtering_rule(config_wan_firewall_rule(w, f), FALSE)
                 ELSE config_dft_firewall_rules(w, f))
       /\ missed' = IF Q6 /\ bridge # s.bridge THEN s.active ELSE missed
    /\ UNCHANGED env

RouteGone(w, f) == [w EXCEPT !.active = @ \ {f}, !.gw = FALSE]
DelFirewall(w, f) ==
    IF Q6 THEN install_wan_filtering_rule(del_wan_firewall_rule(w, f), FALSE)
    ELSE del_dft_firewall_rules(w, f)

DelRoutes(w, f) == IF f \in w.active THEN RouteGone(del_dft_firewall_rules(w, f), f) ELSE w

\* The route of the last tethering interface is withdrawn.
RouteDel(f) ==
    /\ s.up /\ f \in s.active
    /\ s' = RouteGone(DelFirewall(s, f), f)
    /\ missed' = missed \ {f}
    /\ UNCHANGED env

\* The link goes down and the object is deleted.  Without an address
\* handle_down_evt returns before it deletes anything.
PipeDown(w) ==
    LET addressed == HasAddress(w)
        gone == DelRoutes(DelRoutes(w, "v4"), "v6")
        quiet == handle_software_routing_disable(gone)
        no4 == IF "v4" \in addressed THEN DeleteFilteringHdls(quiet, "v4", quiet.fl.v4) ELSE quiet
        no6 == IF "v6" \in addressed THEN DeleteFilteringHdls(no4, "v6", no4.fl.v6 \o no4.own) ELSE no4 IN
    IF addressed = {}
    THEN [w EXCEPT !.lost = [f \in F |-> @[f] \cup ToSet(w.swh[f])]]
    ELSE [no6 EXCEPT !.lost.v6 = @ \cup ToSet(no6.frag)]

\* With one connection every family that had an address loses its rules.
ModemDown(w) ==
    IF HasAddress(w) = {} THEN w
    ELSE install_wan_filtering_rule(
             [w EXCEPT !.flt = [f \in F |-> IF f \in HasAddress(w) THEN <<>> ELSE @[f]]], FALSE)

LinkDown ==
    /\ s.up
    /\ LET w == IF Q6 THEN ModemDown(s) ELSE PipeDown(s) IN
       Become(NewWan(w.if_mode, w.bridge, w.flt, w.hw, w.lost))
    /\ missed' = {}
    /\ UNCHANGED env

(***************************************************************************)
(* The file and its event; the signals and theirs; the configuration.      *)
(***************************************************************************)
Outdated(w, file) == {f \in w.active : w.from[f] # file}

\* A write or a move, which firewall_monitor, if there is one, turns into an event.
WriteFile(x) ==
    /\ x \in env.scope.files /\ x # env.file
    /\ IF FEATURE_IPA_ANDROID
       THEN env' = [env EXCEPT !.file = x] /\ missed' = missed \cup Outdated(s, x)
       ELSE /\ env.pending < MaxPending
            /\ env' = [env EXCEPT !.file = x, !.pending = @ + 1] /\ UNCHANGED missed
    /\ UNCHANGED s

\* firewall_monitor does not watch deletions.
RemoveFile ==
    /\ env.file # "none" /\ "none" \in env.scope.files
    /\ env' = [env EXCEPT !.file = "none"]
    /\ missed' = missed \cup Outdated(s, "none")
    /\ UNCHANGED s

\* IPA_FIREWALL_CHANGE_EVENT.  On the modem by the addresses, and not at all
\* without the default route; on a pipe by the routes.
ReloadModem(w) ==
    LET re(v, f) == IF f \in HasAddress(w) THEN config_wan_firewall_rule(del_wan_firewall_rule(v, f), f) ELSE v IN
    IF HasAddress(w) = {} THEN w ELSE install_wan_filtering_rule(re(re(w, "v4"), "v6"), FALSE)
ReloadPipe(w) == ReloadDft(ReloadDft(w, "v4"), "v6")

FirewallChange ==
    /\ env.pending > 0
    /\ env' = [env EXCEPT !.pending = @ - 1]
    /\ CASE ~s.up -> UNCHANGED <<s, missed>>
         [] s.up /\ Q6 /\ ~s.gw -> s' = s /\ missed' = missed \cup Outdated(s, env.file)
         [] s.up /\ Q6 /\ s.gw -> s' = ReloadModem(s) /\ missed' = {}
         [] s.up /\ ~Q6 -> Become(ReloadPipe(s)) /\ missed' = {}

\* SIGUSR1 and SIGUSR2 set the flag at once.
Signal(on) ==
    /\ env.scope.sw /\ Len(env.swq) < MaxPending
    /\ env' = [env EXCEPT !.sw = on, !.swq = Append(@, on)]
    /\ UNCHANGED <<s, missed>>

SwRouting ==
    /\ env.swq # <<>>
    /\ env' = [env EXCEPT !.swq = Tail(@)]
    /\ s' = IF ~s.up THEN s
            ELSE IF Q6 /\ Head(env.swq) THEN install_wan_filtering_rule(s, TRUE)
            ELSE IF Q6 THEN [install_wan_filtering_rule(s, FALSE) EXCEPT !.act = FALSE]
            ELSE IF Head(env.swq) THEN handle_software_routing_enable(s)
            ELSE handle_software_routing_disable(s)
    /\ UNCHANGED missed

\* IPA_CFG_CHANGE_EVENT, from firewall_monitor as well: only a cradle that is the
\* default gateway acts on it.
CfgChange(m) ==
    /\ ~FEATURE_IPA_ANDROID
    /\ m \in env.scope.if_modes /\ m # s.if_mode
    /\ LET w == [s EXCEPT !.if_mode = m]
           acts == env.scope.mode = "ECM_WAN" /\ s.gw /\ s.bridge # (m = "BRIDGE") IN
       IF acts
       THEN Become(ReloadPipe([w EXCEPT !.bridge = (m = "BRIDGE")])) /\ missed' = {}
       ELSE s' = w /\ missed' = missed \cup (IF Q6 THEN {} ELSE s.active \cap {"v4"})
    /\ UNCHANGED env

Init ==
    /\ \E c \in Scopes, file \in DOMAIN Files, m \in {"ROUTER", "BRIDGE"} :
          /\ file \in c.files /\ m \in c.if_modes
          /\ env = [scope |-> c, file |-> file, pending |-> 0, sw |-> FALSE, swq |-> <<>>]
          /\ s = NewWan(m, FALSE, None, None, [f \in F |-> {}])
    /\ missed = {}

Next ==
    \/ LinkUp \/ LinkDown
    \/ \E f \in F : AddrAdd(f) \/ RouteAdd(f) \/ RouteDel(f)
    \/ \E x \in DOMAIN Files : WriteFile(x)
    \/ RemoveFile \/ FirewallChange
    \/ \E on \in BOOLEAN : Signal(on)
    \/ SwRouting
    \/ \E m \in {"ROUTER", "BRIDGE"} : CfgChange(m)

Spec == Init /\ [][Next]_vars

(***************************************************************************)
(* Properties                                                              *)
(***************************************************************************)

\* Type invariant; two IPv6 addresses at most have room in dft_rt_rule_hdl.
TypeOK ==
    /\ env.scope \in Scopes /\ env.file \in DOMAIN Files /\ env.sw \in BOOLEAN
    /\ env.pending \in 0..MaxPending /\ Len(env.swq) <= MaxPending
    /\ s.active \subseteq HasAddress(s) /\ missed \subseteq s.active
    /\ s.n6 \in 0..2 /\ s.gw \in BOOLEAN /\ s.act \in BOOLEAN /\ s.mask \in BOOLEAN
    /\ \A f \in F : s.lost[f] \subseteq Hdls(s.hw[f]) /\ s.from[f] \in DOMAIN Files

\* The files whose entries, and the rules they become, have room in the arrays for
\* them: an entry for TCP_UDP becomes two rules.
FilesFit ==
    \A x \in DOMAIN Files :
        LET c == IPACM_read_firewall_xml(Files[x]) IN
        /\ Len(c.entries) <= IPACM_MAX_FIREWALL_ENTRIES
        /\ \A vsn \in {4, 6}, to \in {"wan_v6", "DST_NAT", "lan_v4", "EXCEPTION"} :
              Len(RulesOf(c, vsn, to)) <= IPACM_MAX_FIREWALL_ENTRIES

ToHost == IF Q6 THEN "wan_dl" ELSE "EXCEPTION"
Forward(f) == IF ~Q6 THEN PassOn(s, f) ELSE IF f = "v6" THEN "wan_v6" ELSE "DST_NAT"
HostClasses(f) ==
    IF f = "v4" THEN {"multicast", "broadcast", IF Q6 THEN "ICMP" ELSE "frag"}
    ELSE {"multicast", "fe80", "fec0", IF Q6 THEN "ICMP6" ELSE "own"}
             \cup (IF FEATURE_IPA_ANDROID THEN {"FIN", "SYN", "RST"} ELSE {})
ToICMP6(p) == p.f = "v6" /\ "ICMP6" \in p.is
IsAlg(p) ==
    Q6 /\ p.f = "v4" /\ \E i \in DOMAIN Alg : Alg[i].protocol \in p.is /\ Alg[i].port \in {p.src, p.dst}

\* What the file asks to happen with a packet of an upstream family.
Asked(p) ==
    LET file == Files[env.file]
        enabled == Says(file, "FirewallEnabled")
        accept == Says(file, "FirewallPktsAllowed") IN
    IF env.sw \/ p.is \cap HostClasses(p.f) # {} \/ IsAlg(p) THEN ToHost
    ELSE IF ~enabled THEN IF Q6 /\ p.f = "v4" /\ s.bridge THEN ToHost
                          ELSE IF ToICMP6(p) THEN ToHost ELSE Forward(p.f)
    ELSE IF FileMatches(file, p) THEN IF accept THEN Forward(p.f) ELSE ToHost
    ELSE IF ToICMP6(p) \/ accept THEN ToHost ELSE Forward(p.f)

FragmentsToHost(p) ==
    /\ p.f = "v6" /\ "frag" \in p.is
    /\ FragRules(IPACM_read_firewall_xml(Files[env.file]), "v6", ToHost) # <<>>

Applied(f) ==
    LET kept == IF Q6 THEN s.hw[f] ELSE Without(s.hw[f], s.lost[f]) IN
    [i \in DOMAIN kept |-> kept[i].rule]

\* Once the events have been handled, the first rule that matches a packet sends
\* it where the firewall file, the mode and software routing say, for every
\* family the interface is upstream of: whatever the order of writes, signals,
\* routes and links.  Excepted are families that missed a change, more rules than
\* the modem takes, and rules left behind; a fragment of IPv6 may also go to the
\* host after the file has stopped asking for it.  In the Android build a write of
\* the file is a change that an upstream family misses until its route comes again.
FirewallEnforced ==
    env.pending = 0 /\ env.swq = <<>> /\ (Q6 /\ ~env.sw => FitsModem(s.flt)) =>
        \A p \in Packets : p.f \in s.active \ missed =>
            LET v == Verdict(Applied(p.f), p) IN
            IF FragmentsToHost(p) THEN v = ToHost
            ELSE v = Asked(p) \/ (~Q6 /\ p.f = "v6" /\ "frag" \in p.is /\ v = ToHost)

\* The handles the interface keeps are those of the rules in a filter table, one
\* each, besides the rules that are lost.
RulesHeld(f) ==
    LET held == s.hdl[f] \o s.dft[f] \o s.fl[f] \o s.swh[f]
                  \o (IF f = "v6" THEN s.frag \o s.own ELSE <<>>) IN
    /\ Len(s.hw[f]) = Len(held) + Cardinality(s.lost[f])
    /\ Hdls(s.hw[f]) = ToSet(held) \cup s.lost[f]

\* What del_dft_firewall_rules is there for, "clean firewall filter rules".
FirewallCleaned(f) == ToSet(s.hdl[f] \o s.dft[f]) \cap Hdls(s.hw[f]) = {}

\* When the files fit, every rule in the filter table of a pipe is one the
\* interface has a handle of, and every handle is one of a rule: nothing is
\* deleted twice, and nothing is left behind but a fragment rule whose file has
\* stopped asking for it, and the rules of software routing of an interface that
\* goes down without an address.  A family that the pipe is no longer upstream of
\* has no rules of the firewall, also when they filled the arrays of handles.
RulesAccounted ==
    ~Q6 => \A f \in F : RulesHeld(f) /\ (f \notin s.active => FirewallCleaned(f))
=============================================================================
