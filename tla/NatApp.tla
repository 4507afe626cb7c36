-------------------------------- MODULE NatApp --------------------------------
(***************************************************************************)
(* The NAT application of ipacm (IPACM_Conntrack_NATApp.cpp): a cache of   *)
(* the connections known to ipacm, the ones among them that the NAT driver *)
(* holds a rule for, and a small list of temporary entries that wait for   *)
(* their interface. Its methods are functions from a state of the object   *)
(* to the next, because the handlers of the listener call several of them  *)
(* in a row.                                                               *)
(*                                                                         *)
(* A connection is told apart by its addresses and its private port (the   *)
(* target port and the protocol always go with the private port). The      *)
(* driver is what NatRules promises: handles that stand for rules.         *)
(***************************************************************************)
EXTENDS Integers, FiniteSets

CONSTANTS
    MaxEntries,      \* max_entries of the cache
    MaxTempEntries,  \* MAX_TEMP_ENTRIES
    MaxWifiClients,  \* IPA_MAX_NUM_WIFI_CLIENTS
    MaxRules,        \* rules that fit into the driver's table
    Addrs, Ports,    \* addresses and ports
    AlgPorts,        \* ports of application level gateways
    NoAddr, NoPort   \* the zero address and port

ASSUME NatAppAssumption ==
    /\ MaxEntries \in Nat \ {0} /\ MaxTempEntries \in Nat \ {0}
    /\ MaxWifiClients \in Nat /\ MaxRules \in Nat
    /\ NoAddr \in Addrs /\ NoPort \in Ports
    /\ AlgPorts \subseteq Ports /\ NoPort \notin AlgPorts

Slots     == 1 .. MaxEntries
TempSlots == 1 .. MaxTempEntries
Hdls      == 1 .. MaxRules
MaxTables == 1                \* IPA_NAT_MAX_IP4_TBLS

\* nat_table_entry.
Entries == [priv : Addrs, pport : Ports, tgt : Addrs, pub : Addrs, pubport : Ports,
            enabled : BOOLEAN, hdl : 0 .. MaxRules]

\* A zeroed nat_table_entry.
NoEntry == [priv |-> NoAddr, pport |-> NoPort, tgt |-> NoAddr,
            pub |-> NoAddr, pubport |-> NoPort, enabled |-> FALSE, hdl |-> 0]

SameConn(a, b) == a.priv = b.priv /\ a.tgt = b.tgt /\ a.pport = b.pport

Used(s) == {c \in Slots : ~SameConn(s.cache[c], NoEntry)}

\* The object and, in tables and live, the driver behind it; left are the
\* handles of the rules whose deletion failed when DeleteEntry gave up their
\* entry (the program keeps no such record).
NatStates ==
    [cache : [Slots -> Entries], temp : [TempSlots -> Entries], asleep : SUBSET Addrs,
     tblHdl : Nat, pub : Addrs, pubPre : Addrs, curCnt : Int,
     tables : Nat, live : [Hdls -> Entries], left : SUBSET Hdls]

\* The object after its constructor and Init, which leave PwrSaveIfs and
\* pub_ip_addr_pre as they find them.
NewNatApp(asleep, pre) ==
    [cache |-> [c \in Slots |-> NoEntry], temp |-> [t \in TempSlots |-> NoEntry],
     asleep |-> asleep, tblHdl |-> 0, pub |-> NoAddr, pubPre |-> pre, curCnt |-> 0,
     tables |-> 0, live |-> [h \in Hdls |-> NoEntry], left |-> {}]

-----------------------------------------------------------------------------
(* The driver. refused holds the public ports of the connections whose rule *)
(* the driver can neither place nor delete now.                             *)

FreeHdls(s) == {h \in Hdls : s.live[h] = NoEntry}

\* The API functions of the driver refuse any other table handle.
TblHdlOk(s) == s.tblHdl \in 1 .. MaxTables

DrvAccepts(s, e, refused) ==
    TblHdlOk(s) /\ e.pubport \notin refused /\ FreeHdls(s) # {}

\* The first free slot of rule_id_array.
DrvHdl(s) == CHOOSE h \in FreeHdls(s) : \A g \in FreeHdls(s) : h <= g

\* The driver's rule for an entry; the software fields are not part of it.
DrvRule(e) == [e EXCEPT !.enabled = TRUE, !.hdl = 0, !.pub = NoAddr]

\* cache[c] = e with a rule of its own in the driver.
Insert(s, c, e) ==
    [s EXCEPT !.live[DrvHdl(s)] = DrvRule(e),
              !.cache[c] = [e EXCEPT !.enabled = TRUE, !.hdl = DrvHdl(s)]]

\* ipa_nat_del_ipv4_rule succeeds for the rule of an enabled entry.
DrvDeletes(s, c, refused) == TblHdlOk(s) /\ s.cache[c].pubport \notin refused

\* What its success does, for the handle of every enabled entry of the slots.
DrvDel(s, slots) ==
    LET hdls == {s.cache[c].hdl : c \in {d \in slots : s.cache[d].enabled}} IN
    IF ~TblHdlOk(s) THEN s
    ELSE [s EXCEPT !.live = [h \in Hdls |-> IF h \in hdls THEN NoEntry ELSE s.live[h]]]

-----------------------------------------------------------------------------
(* Tables. *)

\* memset of the slots, and the count of connections goes down.
Drop(s, slots) ==
    [s EXCEPT !.cache = [c \in Slots |-> IF c \in slots THEN NoEntry ELSE s.cache[c]],
              !.curCnt = @ - Cardinality(slots)]

\* One step of the loops that put cached entries (back) into the driver.
Restore(s, c, refused) ==
    IF DrvAccepts(s, s.cache[c], refused) THEN Insert(s, c, s.cache[c]) ELSE Drop(s, {c})

\* Those loops: an earlier slot may take the handle a later one needs.
RestoreSlots(s, slots, refused) ==
    LET upTo[n \in 0 .. MaxEntries] ==
            IF n = 0 THEN s
            ELSE IF n \in slots THEN Restore(upTo[n - 1], n, refused)
            ELSE upTo[n - 1]
    IN upTo[MaxEntries]

\* added is FALSE when the driver could not add a table: it then has set the
\* handle to 0. Otherwise the handle is the number of tables.
AddTable(s, pubIp, added, refused) ==
    LET t == [s EXCEPT !.tblHdl = s.tables + 1, !.tables = @ + 1,
                       !.live = IF s.tables = 0 THEN [h \in Hdls |-> NoEntry] ELSE @,
                       !.left = IF s.tables = 0 THEN {} ELSE @]
        u == IF pubIp = s.pubPre
             THEN RestoreSlots(t, {c \in Slots : s.cache[c].priv # NoAddr}, refused)
             ELSE t
    IN IF added THEN [u EXCEPT !.pub = pubIp] ELSE [s EXCEPT !.tblHdl = 0]

Reset(s) ==
    [s EXCEPT !.tblHdl = 0, !.pub = NoAddr,
              !.cache = [c \in Slots |-> [s.cache[c] EXCEPT !.enabled = FALSE]]]

\* CHK_TBL_HDL and the comparison with the public address. The driver's
\* ipa_nat_del_ipv4_tbl is taken to succeed.
DeleteTable(s, pubIp) ==
    IF s.tblHdl = 0 \/ s.pub # pubIp THEN s
    ELSE Reset([s EXCEPT !.tables = @ - 1, !.live = [h \in Hdls |-> NoEntry],
                         !.left = {}, !.pubPre = s.pub])

-----------------------------------------------------------------------------
(* Entries. *)

\* Mutant: every rule passes the check for duplicates.
ChkForDupNever(s, r) == FALSE

ChkForDup(s, r) == \E c \in Slots : SameConn(s.cache[c], r)

IsAlg(r) == r.pport \in AlgPorts

Invalid(r) == r.priv = NoAddr \/ r.tgt = NoAddr \/ r.pport = NoPort

FreeSlot(s) ==
    CHOOSE c \in Slots \ Used(s) : \A d \in Slots \ Used(s) : c <= d

Placeable(s, r) == ~ChkForDup(s, r) /\ Slots # Used(s)

\* Mutant: the driver's rule is not deleted.
DeleteEntryKeepsRule(s, r, refused) ==
    LET hit == {c \in Slots : SameConn(s.cache[c], r)} IN
    IF hit = {} THEN s ELSE Drop(s, {CHOOSE c \in hit : \A d \in hit : c <= d})

\* A failed deletion is logged; the entry goes all the same.
DeleteEntry(s, r, refused) ==
    LET hit == {c \in Slots : SameConn(s.cache[c], r)}
        c == CHOOSE x \in hit : \A y \in hit : x <= y
        stays == s.cache[c].enabled /\ ~DrvDeletes(s, c, refused)
    IN IF hit = {} THEN s
       ELSE IF stays THEN [Drop(s, {c}) EXCEPT !.left = @ \cup {s.cache[c].hdl}]
       ELSE Drop(DrvDel(s, {c}), {c})

\* Mutant: the client's sleep is not looked at.
AwakeAlways(s, r) == TRUE

\* Neither end of the connection is a client in power save.
Awake(s, r) == r.priv \notin s.asleep /\ r.tgt \notin s.asleep

\* The cache entry that AddEntry writes: public_ip is not copied.
Cached(r) == [r EXCEPT !.pub = NoAddr, !.enabled = FALSE, !.hdl = 0]

\* AddEntry puts the connection into the cache.
Added(s, r, refused) ==
    /\ s.tblHdl # 0 /\ ~IsAlg(r) /\ ~Invalid(r) /\ Placeable(s, r)
    /\ ~Awake(s, r) \/ DrvAccepts(s, r, refused)

AddEntry(s, r, refused) ==
    LET c == FreeSlot(s) IN
    IF ~Added(s, r, refused) THEN s
    ELSE [(IF Awake(s, r) THEN Insert(s, c, Cached(r))
                          ELSE [s EXCEPT !.cache[c] = Cached(r)])
          EXCEPT !.curCnt = @ + 1]

\* AddEntry returns an error. An invalid connection is ignored with success.
AddFails(s, r, refused) ==
    /\ ~Added(s, r, refused)
    /\ s.tblHdl = 0 \/ IsAlg(r) \/ ~Invalid(r)

CacheEntry(s, r) ==
    IF Invalid(r) \/ ~Placeable(s, r) THEN s
    ELSE [s EXCEPT !.cache[FreeSlot(s)] = [r EXCEPT !.enabled = FALSE, !.hdl = 0],
                   !.curCnt = @ + 1]

-----------------------------------------------------------------------------
(* Clients that sleep, wake and leave. *)

\* The entries of a client that have a rule which the driver deletes. The loops
\* over a client's entries leave the others as they are.
Offloaded(s, ip, refused) ==
    {c \in Slots : /\ s.cache[c].priv = ip /\ s.cache[c].enabled
                   /\ DrvDeletes(s, c, refused)}

UpdatePwrSaveIf(s, ip, refused) ==
    LET hit == Offloaded(s, ip, refused)
        asleep == IF Cardinality(s.asleep) < MaxWifiClients THEN s.asleep \cup {ip} ELSE s.asleep
    IN IF ip = NoAddr \/ ip \in s.asleep THEN s
       ELSE [DrvDel(s, hit) EXCEPT
               !.asleep = asleep,
               !.cache = [c \in Slots |->
                            IF c \in hit THEN [s.cache[c] EXCEPT !.enabled = FALSE, !.hdl = 0]
                            ELSE s.cache[c]]]

ResetPwrSaveIf(s, ip, refused) ==
    IF ip = NoAddr THEN s
    ELSE RestoreSlots([s EXCEPT !.asleep = @ \ {ip}],
                      {c \in Slots : s.cache[c].priv = ip /\ ~s.cache[c].enabled}, refused)

DelEntriesOnClntDiscon(s, ip, refused) ==
    LET hit == Offloaded(s, ip, refused) IN
    IF ip = NoAddr THEN s
    ELSE [DrvDel(s, hit) EXCEPT
            !.asleep = @ \ {ip},
            !.cache = [c \in Slots |->
                         IF c \in hit THEN [s.cache[c] EXCEPT !.enabled = FALSE]
                         ELSE s.cache[c]]]

DelEntriesOnSTAClntDiscon(s, ip, refused) ==
    LET hit == {c \in Slots : /\ s.cache[c].tgt = ip
                              /\ s.cache[c].enabled => DrvDeletes(s, c, refused)} IN
    IF ip = NoAddr THEN s ELSE Drop(DrvDel(s, hit), hit)

-----------------------------------------------------------------------------
(* Temporary entries. *)

AddTempEntry(s, r) ==
    LET free == {t \in TempSlots : s.temp[t].priv = NoAddr /\ s.temp[t].tgt = NoAddr} IN
    IF \/ IsAlg(r)
       \/ ChkForDup(s, r)
       \/ \E t \in TempSlots : SameConn(s.temp[t], r)
       \/ free = {}
    THEN s
    ELSE [s EXCEPT !.temp[CHOOSE t \in free : \A u \in free : t <= u] = r]

\* Mutant: temporary entries are forgotten.
DeleteTempEntryNever(s, r) == s

DeleteTempEntry(s, r) ==
    LET hit == {t \in TempSlots : SameConn(s.temp[t], r)} IN
    IF hit = {} THEN s
    ELSE [s EXCEPT !.temp[CHOOSE t \in hit : \A u \in hit : t <= u] = NoEntry]

\* For a dummy rule the public side stands in for the private one.
Dummy(r) == [r EXCEPT !.priv = r.pub, !.pport = r.pubport]

\* A temporary entry of another public address is dropped; one that AddEntry
\* refuses stays, with its rewritten private side.
FlushAdd(s, t, isDummy, refused) ==
    LET r == IF isDummy THEN Dummy(s.temp[t]) ELSE s.temp[t] IN
    IF s.temp[t].pub # s.pub THEN [s EXCEPT !.temp[t] = NoEntry]
    ELSE IF AddFails(s, r, refused) THEN [s EXCEPT !.temp[t] = r]
    ELSE [AddEntry(s, r, refused) EXCEPT !.temp[t] = NoEntry]

\* The temporary entries of a client; each step writes its own slot only.
TempOf(s, ip) == {t \in TempSlots : s.temp[t].priv = ip \/ s.temp[t].tgt = ip}

FlushTempEntries(s, ip, isAdd, isDummy, refused) ==
    LET upTo[n \in 0 .. MaxTempEntries] ==
            IF n = 0 THEN s
            ELSE IF n \in TempOf(s, ip) THEN FlushAdd(upTo[n - 1], n, isDummy, refused)
            ELSE upTo[n - 1]
    IN IF isAdd THEN upTo[MaxTempEntries]
       ELSE [s EXCEPT !.temp = [t \in TempSlots |->
                                  IF t \in TempOf(s, ip) THEN NoEntry ELSE s.temp[t]]]

-----------------------------------------------------------------------------
(* What the object should keep of itself and of the driver. *)

Enabled(s) == {c \in Slots : s.cache[c].enabled}

\* The driver holds the rules of the enabled entries and those whose deletion
\* failed as their entry went, and no other: the handle of an enabled entry
\* stands for its rule, no two entries share one, and none is left over.
RulesMatch(s) ==
    /\ \A c \in Enabled(s) : /\ s.cache[c].hdl \in Hdls \ s.left
                            /\ s.live[s.cache[c].hdl] = DrvRule(s.cache[c])
    /\ \A c, d \in Enabled(s) : s.cache[c].hdl = s.cache[d].hdl => c = d
    /\ \A h \in Hdls : s.live[h] # NoEntry =>
                         h \in s.left \/ \E c \in Enabled(s) : s.cache[c].hdl = h
    /\ \A h \in s.left : s.live[h] # NoEntry

\* curCnt counts the connections of the cache, each of which is there once.
Counted(s) ==
    /\ s.curCnt = Cardinality(Used(s))
    /\ \A c, d \in Used(s) : SameConn(s.cache[c], s.cache[d]) => c = d
=============================================================================
