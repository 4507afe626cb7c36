--------------------------- MODULE ConntrackListener ---------------------------
(***************************************************************************)
(* The conntrack listener of ipacm (IPACM_ConntrackListener.cpp) driving   *)
(* the NAT application: conntrack messages become cached, temporary or     *)
(* offloaded NAT entries, depending on whether the WAN is up and on which  *)
(* client addresses the interfaces have reported so far. All handlers run  *)
(* on the thread of the command queue.                                     *)
(*                                                                         *)
(* The kernel opens and closes connections and posts a message for each;   *)
(* a message takes effect when the command queue hands it to the listener, *)
(* so a connection is open here from its NEW to its DESTROY message.       *)
(***************************************************************************)
EXTENDS NatApp

CONSTANTS
    Flows,           \* the connections of the kernel's conntrack table
    FlowOf,          \* [Flows -> [priv, pport, tgt, pubport, flagged]]
    WanAddrs,        \* addresses the WAN interface can have
    NatClients,      \* clients of NAT interfaces
    NonNatClients,   \* clients of interfaces outside the NAT configuration
    StaClients,      \* clients met on the WAN side in STA mode
    Subnets,         \* the networks of the local interfaces
    SubnetOf,        \* the /24 network of an address (STA_CLNT_SUBNET_MASK too)
    CfgSubnets,      \* the private subnets of the configuration file
    MaxSubnets,      \* IPA_MAX_PRIVATE_SUBNET_ENTRIES
    MaxIfaceAddress, \* MAX_IFACE_ADDRESS
    MaxStaClnts,     \* MAX_STA_CLNT_IFACES
    Passthrough      \* ipacm_ip_passthrough_mode

ASSUME ListenerAssumption ==
    /\ \A f \in Flows : /\ {FlowOf[f].priv, FlowOf[f].tgt} \subseteq Addrs \ {NoAddr}
                       /\ {FlowOf[f].pport, FlowOf[f].pubport} \subseteq Ports
    /\ \A f, g \in Flows : FlowOf[f].pubport = FlowOf[g].pubport => f = g
    /\ WanAddrs \cup NatClients \cup NonNatClients \cup StaClients \subseteq Addrs \ {NoAddr}
    /\ MaxIfaceAddress \in Nat /\ MaxStaClnts \in Nat \ {0} /\ MaxSubnets \in Nat
    /\ Passthrough \in BOOLEAN

\* An address is one of one interface.
ASSUME ClientAssumption == NatClients \cap (WanAddrs \cup NonNatClients) = {}

VARIABLES
    nat,         \* the NatApp object and the driver behind it
    wanUp,       \* WanUp
    isStaMode,   \* isStaMode
    wanIpaddr,   \* wan_ipaddr
    natIfaces,   \* nat_iface_ipv4_addr
    nonNat,      \* nonnat_iface_ipv4_addr
    staClnt,     \* sta_clnt_ipv4_addr
    staClntCnt,  \* StaClntCnt
    ifaceAddr,   \* wan_v4_addr of the WAN interface that is up (NoAddr: none is)
    subnets,     \* private_subnet_table of IPACM_Config
    open,        \* the open connections
    unheard      \* those closed while the listener knew neither of their ends

listVars == <<natIfaces, nonNat, staClnt, staClntCnt>>
wanVars  == <<wanUp, isStaMode, wanIpaddr, ifaceAddr>>
connVars == <<open, unheard>>
vars     == <<nat, listVars, wanVars, subnets, connVars>>

\* What the driver may refuse while an event is handled: rules of the
\* connections the event is about. An event of a client is about those it is an
\* end of, and the private side of a dummy rule is the WAN's address.
RefusalsOf(flows) == SUBSET {FlowOf[f].pubport : f \in flows}
Refusals == RefusalsOf(Flows)
ClientRefusals(ip) ==
    RefusalsOf({f \in Flows : ip \in {FlowOf[f].priv, FlowOf[f].tgt} \cup WanAddrs})

\* isStaMode, wan_ipaddr, PwrSaveIfs and pub_ip_addr_pre are not initialised
\* by the constructors.
Init ==
    /\ \E asleep \in SUBSET NatClients, pre \in WanAddrs \cup {NoAddr} :
         Cardinality(asleep) <= MaxWifiClients /\ nat = NewNatApp(asleep, pre)
    /\ wanUp = FALSE
    /\ isStaMode \in BOOLEAN
    /\ wanIpaddr \in WanAddrs \cup {NoAddr}
    /\ natIfaces = [i \in 1 .. MaxIfaceAddress |-> NoAddr]
    /\ nonNat = [i \in 1 .. MaxIfaceAddress |-> NoAddr]
    /\ staClnt = [i \in 1 .. MaxStaClnts |-> NoAddr]
    /\ staClntCnt = 0
    /\ ifaceAddr = NoAddr
    /\ subnets = CfgSubnets
    /\ open = {}
    /\ unheard = {}

-----------------------------------------------------------------------------
(* The WAN interface. *)

\* IPA_HANDLE_WAN_UP: event_callback and TriggerWANUp.
TriggerWANUp(addr, sta, added, refused) ==
    /\ ~wanUp
    /\ wanUp' = TRUE
    /\ isStaMode' = sta
    /\ wanIpaddr' = addr
    /\ ifaceAddr' = addr
    /\ nat' = AddTable(nat, addr, added, refused)
    /\ UNCHANGED <<listVars, subnets, connVars>>

\* IPACM_Wan::handle_addr_evt with another IPv4 address: wan_v4_addr changes
\* and no event tells the listener.
WanAddrChange(addr) ==
    /\ wanUp
    /\ ifaceAddr' = addr
    /\ UNCHANGED <<nat, wanUp, isStaMode, wanIpaddr, listVars, subnets, connVars>>

\* IPA_HANDLE_WAN_DOWN, which carries wan_v4_addr: event_callback and
\* TriggerWANDown.
TriggerWANDown ==
    /\ wanUp
    /\ wanUp' = FALSE
    /\ ifaceAddr' = NoAddr
    /\ nat' = DeleteTable(nat, ifaceAddr)
    /\ UNCHANGED <<isStaMode, wanIpaddr, listVars, subnets, connVars>>

-----------------------------------------------------------------------------
(* Client addresses. *)

\* The places of a list that hold one of the values, and the first of them.
At(list, values) == {i \in DOMAIN list : list[i] \in values}

First(list, values) ==
    CHOOSE i \in At(list, values) : \A j \in At(list, values) : i <= j

\* A client of a NAT interface has got its address: the scan stops at the
\* address itself or at the first free place, and a full list changes nothing.
HandleNeighIpAddrAddEvt(ip, refused) ==
    /\ At(natIfaces, {ip, NoAddr}) # {}
    /\ natIfaces' = [natIfaces EXCEPT ![First(natIfaces, {ip, NoAddr})] = ip]
    /\ nat' = FlushTempEntries(ResetPwrSaveIf(nat, ip, refused), ip, TRUE, FALSE, refused)
    /\ UNCHANGED <<nonNat, staClnt, staClntCnt, wanVars, subnets, connVars>>

HandleNeighIpAddrDelEvt(ip, refused) ==
    /\ At(natIfaces, {ip}) # {}
    /\ natIfaces' = [i \in DOMAIN natIfaces |->
                       IF natIfaces[i] = ip THEN NoAddr ELSE natIfaces[i]]
    /\ nat' = DelEntriesOnClntDiscon(FlushTempEntries(nat, ip, FALSE, FALSE, {}), ip, refused)
    /\ UNCHANGED <<nonNat, staClnt, staClntCnt, wanVars, subnets, connVars>>

\* HandleNonNatIPAddr: the list takes an address as often as it is reported,
\* and nothing is done in STA mode.
NonNatIPAddrAdd(ip, refused) ==
    /\ ~isStaMode
    /\ At(nonNat, {NoAddr}) # {}
    /\ nonNat' = [nonNat EXCEPT ![First(nonNat, {NoAddr})] = ip]
    /\ nat' = FlushTempEntries(nat, ip, TRUE, TRUE, refused)
    /\ UNCHANGED <<natIfaces, staClnt, staClntCnt, wanVars, subnets, connVars>>

NonNatIPAddrDel(ip, refused) ==
    /\ ~isStaMode
    /\ At(nonNat, {ip}) # {}
    /\ nonNat' = [nonNat EXCEPT ![First(nonNat, {ip})] = NoAddr]
    /\ nat' = DelEntriesOnClntDiscon(FlushTempEntries(nat, ip, FALSE, FALSE, {}), ip, refused)
    /\ UNCHANGED <<natIfaces, staClnt, staClntCnt, wanVars, subnets, connVars>>

HandleSTAClientAddEvt(ip, refused) ==
    LET i == First(staClnt, {ip, NoAddr}) IN
    /\ staClntCnt < MaxStaClnts
    /\ staClnt' = [staClnt EXCEPT ![i] = ip]
    /\ staClntCnt' = IF staClnt[i] = NoAddr THEN staClntCnt + 1 ELSE staClntCnt
    /\ nat' = FlushTempEntries(nat, ip, TRUE, FALSE, refused)
    /\ UNCHANGED <<natIfaces, nonNat, wanVars, subnets, connVars>>

\* Mutant: the count of STA clients is not decremented.
STAClientDelKeepsCnt(ip, refused) ==
    /\ staClnt' = IF At(staClnt, {ip}) = {} THEN staClnt
                  ELSE [staClnt EXCEPT ![First(staClnt, {ip})] = NoAddr]
    /\ nat' = FlushTempEntries(nat, ip, FALSE, FALSE, {})
    /\ UNCHANGED <<staClntCnt, natIfaces, nonNat, wanVars, subnets, connVars>>

HandleSTAClientDelEvt(ip, refused) ==
    LET known == At(staClnt, {ip}) # {}
        s == IF known THEN DelEntriesOnSTAClntDiscon(nat, ip, refused) ELSE nat
    IN
    /\ staClnt' = IF known THEN [staClnt EXCEPT ![First(staClnt, {ip})] = NoAddr] ELSE staClnt
    /\ staClntCnt' = IF known THEN staClntCnt - 1 ELSE staClntCnt
    /\ nat' = FlushTempEntries(s, ip, FALSE, FALSE, {})
    /\ UNCHANGED <<natIfaces, nonNat, wanVars, subnets, connVars>>

\* IPACM_Wlan tells the NAT application about clients that sleep and wake.
PwrSave(ip, refused) ==
    /\ nat' = UpdatePwrSaveIf(nat, ip, refused)
    /\ UNCHANGED <<wanVars, listVars, subnets, connVars>>

PwrRecover(ip, refused) ==
    /\ nat' = ResetPwrSaveIf(nat, ip, refused)
    /\ UNCHANGED <<wanVars, listVars, subnets, connVars>>

-----------------------------------------------------------------------------
(* Private subnets. A local interface registers its network when it gets its *)
(* address and takes it away when it goes down, which reports the addresses  *)
(* of its clients as gone in the same handler; here the calls are steps of   *)
(* their own, in any order.                                                  *)

isPrivateSubnet(addr) == SubnetOf[addr] \in subnets

AddPrivateSubnet(n) ==
    /\ n \notin subnets
    /\ Cardinality(subnets) < MaxSubnets
    /\ subnets' = subnets \cup {n}
    /\ UNCHANGED <<nat, listVars, wanVars, connVars>>

DelPrivateSubnet(n) ==
    /\ n \in subnets
    /\ subnets' = subnets \ {n}
    /\ UNCHANGED <<nat, listVars, wanVars, connVars>>

-----------------------------------------------------------------------------
(* Conntrack messages. *)

\* PopulateTCPorUDPEntry, and the public address.
Populate(f) ==
    [NoEntry EXCEPT !.priv = FlowOf[f].priv, !.pport = FlowOf[f].pport,
                    !.tgt = FlowOf[f].tgt, !.pubport = FlowOf[f].pubport,
                    !.pub = wanIpaddr]

Touches(r, list) == At(list, {r.priv, r.tgt}) # {}

\* What AddIface makes of the rule: it is taken as it is, rewritten into a
\* dummy rule, made temporary, or ignored.
AddIface(r) ==
    IF (Passthrough /\ r.priv = ifaceAddr) \/ Touches(r, natIfaces) THEN "take"
    ELSE IF ~isStaMode /\ Touches(r, nonNat) THEN "dummy"
    ELSE IF isPrivateSubnet(r.priv) \/ isPrivateSubnet(r.tgt) THEN "temp"
    ELSE "ignore"

\* CheckSTAClient: the target is on the STA clients' subnet but is not one of
\* the first StaClntCnt clients of the list.
StaTemp(r) ==
    /\ isStaMode
    /\ staClntCnt > 0
    /\ staClnt[1] # NoAddr /\ SubnetOf[staClnt[1]] = SubnetOf[r.tgt]
    /\ \A i \in 1 .. staClntCnt : staClnt[i] # r.tgt

\* AddORDeleteNatEntry. The TCP state, which the code looks at before the type
\* of the message, is not part of a DESTROY message and reads as 0 there.
NatEntry(type, r, temp, refused) ==
    CASE type = "DESTROY" -> DeleteTempEntry(DeleteEntry(nat, r, refused), r)
      [] type = "NEW" /\ ~wanUp -> CacheEntry(nat, r)
      [] type = "NEW" /\ wanUp /\ temp -> AddTempEntry(nat, r)
      [] OTHER -> AddEntry(nat, r, refused)

\* ProcessTCPorUDPMsg: the private side of the connection is the WAN address.
Own(f) == FlowOf[f].priv = wanIpaddr

\* The rule, with the private side that it is entered under.
RuleOf(f) ==
    LET r == Populate(f) IN
    IF Own(f) THEN [r EXCEPT !.pport = r.pubport]
    ELSE IF AddIface(r) = "dummy" THEN Dummy(r) ELSE r

\* A connection without a NAT flag counts only when its private side is the WAN
\* address.
Ignored(f) ==
    IF Own(f) THEN isStaMode
    ELSE ~FlowOf[f].flagged \/ AddIface(Populate(f)) = "ignore"

ProcessCTMessage(f, type, refused) ==
    LET temp == (~Own(f) /\ AddIface(Populate(f)) = "temp") \/ StaTemp(RuleOf(f)) IN
    /\ nat' = IF Ignored(f) THEN nat ELSE NatEntry(type, RuleOf(f), temp, refused)
    /\ UNCHANGED <<wanVars, listVars, subnets>>

\* Neither end of the connection is on the list of NAT clients or on a private
\* subnet.
EndsUnknown(f) ==
    /\ ~Touches(FlowOf[f], natIfaces)
    /\ ~isPrivateSubnet(FlowOf[f].priv) /\ ~isPrivateSubnet(FlowOf[f].tgt)

\* NFCT_T_NEW of a UDP connection, or a TCP connection that is established;
\* the latter may be reported more than once.
CtNew(f, refused) ==
    /\ open' = open \cup {f}
    /\ unheard' = unheard \ {f}
    /\ ProcessCTMessage(f, "NEW", refused)

\* NFCT_T_DESTROY, or a TCP connection in FIN_WAIT.
CtDestroy(f, refused) ==
    /\ f \in open
    /\ open' = open \ {f}
    /\ unheard' = IF EndsUnknown(f) THEN unheard \cup {f} ELSE unheard
    /\ ProcessCTMessage(f, "DESTROY", refused)

Next ==
    \/ \E a \in WanAddrs, sta, added \in BOOLEAN, refused \in Refusals :
         TriggerWANUp(a, sta, added, refused)
    \/ TriggerWANDown
    \/ \E ip \in NatClients : \E refused \in ClientRefusals(ip) :
         \/ HandleNeighIpAddrAddEvt(ip, refused) \/ HandleNeighIpAddrDelEvt(ip, refused)
         \/ PwrSave(ip, refused) \/ PwrRecover(ip, refused)
    \/ \E ip \in NonNatClients : \E refused \in ClientRefusals(ip) :
         NonNatIPAddrAdd(ip, refused) \/ NonNatIPAddrDel(ip, refused)
    \/ \E ip \in StaClients : \E refused \in ClientRefusals(ip) :
         HandleSTAClientAddEvt(ip, refused) \/ HandleSTAClientDelEvt(ip, refused)
    \/ \E n \in Subnets : AddPrivateSubnet(n) \/ DelPrivateSubnet(n)
    \/ \E f \in Flows : \E refused \in RefusalsOf({f}) :
         CtNew(f, refused) \/ CtDestroy(f, refused)

Spec == Init /\ [][Next]_vars

\* The same with a WAN interface that may be given another address while it is up.
NextAddr == Next \/ \E a \in WanAddrs : WanAddrChange(a)

SpecAddr == Init /\ [][NextAddr]_vars

-----------------------------------------------------------------------------
(* Properties. *)

TypeOK ==
    /\ wanUp \in BOOLEAN /\ isStaMode \in BOOLEAN
    /\ wanIpaddr \in WanAddrs \cup {NoAddr} /\ ifaceAddr \in WanAddrs \cup {NoAddr}
    /\ natIfaces \in [1 .. MaxIfaceAddress -> NatClients \cup {NoAddr}]
    /\ nonNat \in [1 .. MaxIfaceAddress -> NonNatClients \cup {NoAddr}]
    /\ staClnt \in [1 .. MaxStaClnts -> StaClients \cup {NoAddr}]
    /\ staClntCnt = Cardinality({i \in DOMAIN staClnt : staClnt[i] # NoAddr})
    /\ subnets \subseteq Subnets \cup CfgSubnets
    /\ open \subseteq Flows /\ unheard \subseteq Flows \ open
    /\ nat \in NatStates

\* Whatever the clients, the WAN and the connections do, and whatever the driver
\* refuses to place or to delete, it holds the rules of the enabled entries and,
\* besides, only those whose deletion failed when their connection closed.
RulesMatchCache == RulesMatch(nat)

\* curCnt counts the connections of the cache, each of which is there once.
CacheCounted == Counted(nat)

Entered(f) ==
    LET IsOf(e) == e.tgt = FlowOf[f].tgt /\ e.pubport = FlowOf[f].pubport IN
    (\E c \in Slots : IsOf(nat.cache[c])) \/ (\E t \in TempSlots : IsOf(nat.temp[t]))

\* The comment in NatApp::AddTable: cached entries are left to the DESTROY
\* event, so no closed connection keeps an entry.
ClosedIsGone == \A f \in Flows : Entered(f) => f \in open

\* It holds of the connections between a NAT client and a target that is not
\* on an interface outside the NAT configuration, except those that close while
\* the client is unknown and its subnet is not registered: whatever addresses
\* come and go and wherever the entry is, any other DESTROY finds it.
NatClosedIsGone ==
    \A f \in Flows :
        FlowOf[f].priv \in NatClients /\ FlowOf[f].tgt \notin NonNatClients =>
            (Entered(f) => f \in open \cup unheard)

\* Only the restoration of the whole table gives a rule to a client that is
\* and stays in power save.
RuleGiven(ip) ==
    \E c \in Slots : /\ nat'.cache[c].priv = ip /\ nat'.cache[c].enabled
                     /\ ~(nat.cache[c].enabled /\ SameConn(nat.cache[c], nat'.cache[c]))

SleepersGetNoRule ==
    [][\A ip \in nat.asleep \cap nat'.asleep : RuleGiven(ip) => wanUp' # wanUp]_vars

\* ipa_nat_drvi.h has room for IPA_NAT_MAX_IP4_TBLS tables.
AtMostOneTable == nat.tables <= MaxTables
=============================================================================
