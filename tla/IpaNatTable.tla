----------------------------- MODULE IpaNatTable -----------------------------
(***************************************************************************)
(* The IPv4 NAT table of ipanat/src/ipa_nat_drvi.c: a hash table of rules  *)
(* (base table chained into an expansion table) for packets that come from *)
(* the target, and an index table (base chained into expansion as well)    *)
(* through which packets that come from the private side find their rule.  *)
(* The hardware follows both chains; the driver edits them.                *)
(*                                                                         *)
(* An entry of a chain is named by one number, as in next_index: entries   *)
(* 0..TableEntries-1 are the base table, the rest the expansion table.     *)
(* Entry 0 and the first expansion entry are never used.                   *)
(***************************************************************************)
EXTENDS Integers, FiniteSets

CONSTANTS
    TableEntries,      \* table_entries of the cache
    ExpnTableEntries,  \* expn_table_entries of the cache
    Rules,             \* the client rules (ipa_nat_ipv4_rule)
    NoRule,            \* the contents of a zeroed entry
    DstHash,           \* dst_hash: the base entry of a rule
    SrcHash,           \* src_hash: the base index entry of a rule
    DmaMayFail         \* may a DMA ioctl of the add path fail?

ASSUME SizeAssumption ==
    /\ TableEntries \in Nat /\ TableEntries >= 2
    /\ ExpnTableEntries \in Nat /\ ExpnTableEntries >= 1

ASSUME RuleAssumption ==
    /\ NoRule \notin Rules
    /\ DstHash \in [Rules -> 1..TableEntries-1]
    /\ SrcHash \in [Rules -> 1..TableEntries-1]
    /\ DmaMayFail \in BOOLEAN

Entries == 0 .. TableEntries + ExpnTableEntries - 1
Base    == 1 .. TableEntries - 1
Expn    == TableEntries + 1 .. TableEntries + ExpnTableEntries - 1
\* rule_hdl is slot + 1 of rule_id_array
Handles == 1 .. TableEntries + ExpnTableEntries

VARIABLES
    valid,   \* the table has been added and its handle given out
    enbl,    \* "off": ENABLE_FIELD clear; "on"; "dead": enabled, proto 0xFF
    rule,    \* the rule copied into the entry
    nxt,     \* next_index of a table entry
    prv,     \* prev_index, a software field of a table entry
    indx,    \* indx_tbl_entry, a software field of a table entry
    idxEnt,  \* tbl_entry of an index entry (0: the index entry is free)
    idxNxt,  \* next_index of an index entry
    idxPrv,  \* index_expn_table_meta[].prev_index
    ruleId   \* rule_id_array: the entry a handle stands for (0: free slot)

tblVars == <<enbl, rule, nxt, prv, indx>>
idxVars == <<idxEnt, idxNxt, idxPrv>>
vars    == <<valid, enbl, rule, nxt, prv, indx, idxEnt, idxNxt, idxPrv, ruleId>>

-----------------------------------------------------------------------------
(* Chains. *)

Closed(S, f) == \A x \in S : f[x] # 0 => f[x] \in S

Met(f, b) == {b} \cup ({f[x] : x \in Entries} \ {0})

\* The entries a walk along f meets when it starts at b: the least set with b
\* that f does not leave.
Reach(f, b) ==
    {e \in Met(f, b) : \A S \in SUBSET Met(f, b) : b \in S /\ Closed(S, f) => e \in S}

Tails(f, b) == {e \in Reach(f, b) : f[e] = 0}

Least(S) == CHOOSE e \in S : \A x \in S : e <= x

\* Mutant: the scan for a free expansion entry ignores the enable flag.
FreeExpnAny == Expn

FreeExpn    == {e \in Expn : enbl[e] = "off"}
FreeIdxExpn == {e \in Expn : idxEnt[e] = 0}

-----------------------------------------------------------------------------
(* The table is created zeroed and deleted as a whole. *)

Zeroed ==
    /\ enbl' = [e \in Entries |-> "off"]
    /\ rule' = [e \in Entries |-> NoRule]
    /\ nxt' = [e \in Entries |-> 0]
    /\ prv' = [e \in Entries |-> 0]
    /\ indx' = [e \in Entries |-> 0]
    /\ idxEnt' = [e \in Entries |-> 0]
    /\ idxNxt' = [e \in Entries |-> 0]
    /\ idxPrv' = [e \in Entries |-> 0]
    /\ ruleId' = [h \in Handles |-> 0]

Init ==
    /\ valid = FALSE
    /\ enbl = [e \in Entries |-> "off"]
    /\ rule = [e \in Entries |-> NoRule]
    /\ nxt = [e \in Entries |-> 0]
    /\ prv = [e \in Entries |-> 0]
    /\ indx = [e \in Entries |-> 0]
    /\ idxEnt = [e \in Entries |-> 0]
    /\ idxNxt = [e \in Entries |-> 0]
    /\ idxPrv = [e \in Entries |-> 0]
    /\ ruleId = [h \in Handles |-> 0]

\* This module is one table.  IPA_NAT_MAX_IP4_TBLS is 1 and ipa_nati_add_ipv4_tbl
\* does not test it: a second table is out of this module's reach, and the guard is
\* what the callers do while the WAN address stays (ConntrackListener, OneTable).
AddTable ==
    /\ ~valid
    /\ valid' = TRUE
    /\ Zeroed

DelTable ==
    /\ valid
    /\ valid' = FALSE
    /\ Zeroed

-----------------------------------------------------------------------------
(* Adding a rule. *)

\* ipa_nati_generate_tbl_rule: the hashed base entry if it is free, else a
\* free expansion entry (0: there is none), to be appended to the chain.
NewEntry(r) ==
    IF enbl[DstHash[r]] = "off" THEN DstHash[r]
    ELSE IF FreeExpn = {} THEN 0 ELSE Least(FreeExpn)

PrevEntry(r) ==
    IF enbl[DstHash[r]] = "off" THEN 0 ELSE CHOOSE t \in Tails(nxt, DstHash[r]) : TRUE

\* ipa_nati_generate_index_rule: the same over the index table, where an
\* entry is free when it points at no rule.
NewIndex(r) ==
    IF idxEnt[SrcHash[r]] = 0 THEN SrcHash[r]
    ELSE IF FreeIdxExpn = {} THEN 0 ELSE Least(FreeIdxExpn)

PrevIndex(r) ==
    IF idxEnt[SrcHash[r]] = 0 THEN 0 ELSE CHOOSE t \in Tails(idxNxt, SrcHash[r]) : TRUE

\* ipa_nati_generate_rule succeeds: both walks come to an end, both entries
\* exist, and the index entry is not its own predecessor.
RuleGenerated(r) ==
    /\ enbl[DstHash[r]] # "off" => Tails(nxt, DstHash[r]) # {}
    /\ NewEntry(r) # 0
    /\ idxEnt[SrcHash[r]] # 0 => Tails(idxNxt, SrcHash[r]) # {}
    /\ NewIndex(r) # 0
    /\ NewIndex(r) # PrevIndex(r)

\* ipa_nati_copy_ipv4_rule_to_hw; the write of prev's next_index is a DMA
\* command of its own whose failure is ignored (linked = FALSE).
CopyRuleToHw(r, new, prev, idx, linked) ==
    /\ rule' = [rule EXCEPT ![new] = r]
    /\ prv' = [prv EXCEPT ![new] = prev]
    /\ indx' = [indx EXCEPT ![new] = idx]
    /\ nxt' = IF prev # 0 /\ linked THEN [nxt EXCEPT ![new] = 0, ![prev] = new]
                                    ELSE [nxt EXCEPT ![new] = 0]

CopyIndexRuleToHw(new, prev, entry, linked) ==
    /\ idxEnt' = [idxEnt EXCEPT ![new] = entry]
    /\ idxPrv' = IF new >= TableEntries THEN [idxPrv EXCEPT ![new] = prev] ELSE idxPrv
    /\ idxNxt' = IF prev # 0 /\ linked THEN [idxNxt EXCEPT ![new] = 0, ![prev] = new]
                                       ELSE [idxNxt EXCEPT ![new] = 0]

\* Mutants: the base of the expansion table is added twice; the first slot is
\* taken whether free or not.
MakeRuleHdlAddsBase(entry) ==
    LET free == {h \in Handles : ruleId[h] = 0} IN
    /\ free # {}
    /\ ruleId' = [ruleId EXCEPT ![Least(free)] =
                    IF entry >= TableEntries THEN entry + TableEntries ELSE entry]

MakeRuleHdlTakesFirst(entry) == ruleId' = [ruleId EXCEPT ![1] = entry]

\* ipa_nati_make_rule_hdl: the first free slot of rule_id_array.
MakeRuleHdl(entry) ==
    LET free == {h \in Handles : ruleId[h] = 0} IN
    /\ free # {}
    /\ ruleId' = [ruleId EXCEPT ![Least(free)] = entry]

DmaOutcome == IF DmaMayFail THEN BOOLEAN ELSE {TRUE}

\* ipa_nati_add_ipv4_rule. When the last DMA command (enable) fails, the
\* entries stay written and linked but no handle is made.
AddRule(r) ==
    /\ valid
    /\ RuleGenerated(r)
    /\ \E linked, idxLinked, enabled \in DmaOutcome :
         /\ CopyRuleToHw(r, NewEntry(r), PrevEntry(r), NewIndex(r), linked)
         /\ CopyIndexRuleToHw(NewIndex(r), PrevIndex(r), NewEntry(r), idxLinked)
         /\ enbl' = [enbl EXCEPT ![NewEntry(r)] = IF enabled THEN "on" ELSE "off"]
         /\ IF enabled THEN MakeRuleHdl(NewEntry(r)) ELSE UNCHANGED ruleId
    /\ UNCHANGED valid

-----------------------------------------------------------------------------
(* Deleting a rule. *)

\* ipa_nati_find_rule_pos and ipa_nati_find_index_rule_pos.
RulePos(f, e) ==
    IF e >= TableEntries THEN IF f[e] = 0 THEN "LAST" ELSE "MIDDLE"
                         ELSE IF f[e] = 0 THEN "ONLY_ONE" ELSE "HEAD"

\* Mutants: a deletion in the middle cuts off the rest of the chain; the
\* successor keeps pointing back at the deleted entry.
UnlinkCutsChain(f, e, prev) == [f EXCEPT ![prev] = 0, ![e] = 0]

RelinkForgotten(p, f, e) == p

\* f with e taken out of its chain.
Unlink(f, e, prev) == [f EXCEPT ![prev] = f[e], ![e] = 0]

\* The back pointers once e is taken out: its successor points at e's predecessor.
Relink(p, f, e) == IF f[e] = 0 THEN p ELSE [p EXCEPT ![f[e]] = p[e]]

\* nxt after the DMA commands for the table and the memset of the entry.
TblNext(e) ==
    IF RulePos(nxt, e) \in {"MIDDLE", "LAST"} THEN Unlink(nxt, e, prv[e]) ELSE nxt

\* Mutant: dead heads are never swept.
DeadHeadsKept(e, f) == {}

\* ipa_nati_del_dead_ipv4_head_nodes: dead heads whose chain is now empty. The
\* deleted rule itself counts when it has just become a dead head.
DeadHeads(e, f) ==
    {b \in 0 .. TableEntries - 1 :
        /\ enbl[b] = "dead" \/ (b = e /\ RulePos(nxt, e) = "HEAD")
        /\ f[b] = 0}

\* The entries zeroed by a deletion of e: e, unless it stays as a dead head.
Cleared(e) ==
    (IF RulePos(nxt, e) = "HEAD" THEN {} ELSE {e}) \cup DeadHeads(e, TblNext(e))

\* The table half of ipa_nati_post_del_dma_cmd, newIndx being the index
\* entries that the index half leaves to the remaining rules.
DelTblRule(e, newIndx) ==
    LET gone == Cleared(e) IN
    /\ enbl' = [x \in Entries |->
                  IF x \in gone THEN "off" ELSE IF x = e THEN "dead" ELSE enbl[x]]
    /\ rule' = [x \in Entries |-> IF x \in gone THEN NoRule ELSE rule[x]]
    /\ nxt' = [x \in Entries |-> IF x \in gone THEN 0 ELSE TblNext(e)[x]]
    /\ prv' = [x \in Entries |->
                 IF x \in gone THEN 0
                 ELSE IF RulePos(nxt, e) = "MIDDLE" THEN Relink(prv, nxt, e)[x]
                 ELSE prv[x]]
    /\ indx' = [x \in Entries |-> IF x \in gone THEN 0 ELSE newIndx[x]]

\* Mutant: the successor is copied into the base entry without its next_index.
DelIndexHeadTruncates(i) ==
    /\ idxEnt' = [idxEnt EXCEPT ![i] = idxEnt[idxNxt[i]], ![idxNxt[i]] = 0]
    /\ idxNxt' = [idxNxt EXCEPT ![i] = 0, ![idxNxt[i]] = 0]
    /\ UNCHANGED idxPrv

\* The index half when i is the head of its chain: the successor n moves into
\* the base entry and the rule it belongs to is told.
DelIndexHead(i) ==
    LET n == idxNxt[i] IN
    /\ idxEnt' = [idxEnt EXCEPT ![i] = idxEnt[n], ![n] = 0]
    /\ idxNxt' = [idxNxt EXCEPT ![i] = idxNxt[n], ![n] = 0]
    /\ idxPrv' = IF idxNxt[n] = 0 THEN idxPrv ELSE [idxPrv EXCEPT ![idxNxt[n]] = i]

DelIndexMiddleOrLast(i) ==
    /\ idxEnt' = [idxEnt EXCEPT ![i] = 0]
    /\ idxNxt' = Unlink(idxNxt, i, idxPrv[i])
    /\ idxPrv' = IF idxNxt[i] = 0 THEN idxPrv
                 ELSE [Relink(idxPrv, idxNxt, i) EXCEPT ![i] = 0]

DelIndexOnlyOne(i) ==
    /\ idxEnt' = [idxEnt EXCEPT ![i] = 0]
    /\ UNCHANGED <<idxNxt, idxPrv>>

\* ipa_nati_del_ipv4_rule. A failing ioctl changes nothing, which is a
\* stuttering step.
DelRule(h) ==
    LET e == ruleId[h]
        i == indx[e]
        pos == RulePos(idxNxt, i)
    IN
    /\ valid
    /\ h < TableEntries + ExpnTableEntries
    /\ e # 0
    /\ enbl[e] # "off"
    /\ CASE pos = "HEAD" -> DelIndexHead(i)
         [] pos = "ONLY_ONE" -> DelIndexOnlyOne(i)
         [] OTHER -> DelIndexMiddleOrLast(i)
    /\ DelTblRule(e, IF pos = "HEAD" THEN [indx EXCEPT ![idxEnt[idxNxt[i]]] = i] ELSE indx)
    /\ ruleId' = [ruleId EXCEPT ![h] = 0]
    /\ UNCHANGED valid

Next ==
    \/ AddTable
    \/ DelTable
    \/ \E r \in Rules : AddRule(r)
    \/ \E h \in Handles : DelRule(h)

Spec == Init /\ [][Next]_vars

-----------------------------------------------------------------------------
(* Properties. *)

TypeOK ==
    /\ valid \in BOOLEAN
    /\ enbl \in [Entries -> {"off", "on", "dead"}]
    /\ rule \in [Entries -> Rules \cup {NoRule}]
    /\ nxt \in [Entries -> Entries]
    /\ prv \in [Entries -> Entries]
    /\ indx \in [Entries -> Entries]
    /\ idxEnt \in [Entries -> Entries]
    /\ idxNxt \in [Entries -> Entries]
    /\ idxPrv \in [Entries -> Entries]
    /\ ruleId \in [Handles -> Entries]

Live == {h \in Handles : ruleId[h] # 0}

\* A packet from the target finds every rule whose handle was given out:
\* the rule's entry is enabled and on the chain of the rule's hash.
DstLookupComplete ==
    \A h \in Live : LET e == ruleId[h] IN
        /\ enbl[e] = "on"
        /\ rule[e] \in Rules
        /\ e \in Reach(nxt, DstHash[rule[e]])

\* A packet from the private side finds it too: the rule's index entry is on
\* the chain of the rule's source hash and points back at the rule.
SrcLookupComplete ==
    \A h \in Live : LET e == ruleId[h] IN
        /\ idxEnt[indx[e]] = e
        /\ indx[e] \in Reach(idxNxt, SrcHash[rule[e]])

\* Nothing that no handle stands for keeps an entry: an enabled entry belongs
\* to a handle or is a dead head that still carries a chain, and an index
\* entry belongs to the rule it points at.
NoLeak ==
    /\ \A e \in Entries : enbl[e] = "on" => \E h \in Live : ruleId[h] = e
    /\ \A e \in Entries : enbl[e] = "dead" => nxt[e] # 0
    /\ \A i \in Entries : idxEnt[i] # 0 =>
         \E h \in Live : ruleId[h] = idxEnt[i] /\ indx[idxEnt[i]] = i

\* Two handles never stand for the same entry: deleting one connection cannot
\* remove another one.
HandlesDistinct ==
    \A g, h \in Live : ruleId[g] = ruleId[h] => g = h

\* The walk to the end of a chain, which both halves of an insertion do,
\* comes to an end.
ChainsEnd ==
    \A b \in Base : Tails(nxt, b) # {} /\ Tails(idxNxt, b) # {}

\* The rules the client sees: what a handle stands for.
ClientView == [h \in Handles |-> IF ruleId[h] = 0 THEN NoRule ELSE rule[ruleId[h]]]

Client == INSTANCE NatRules WITH up <- valid, live <- ClientView

\* The chained tables implement the map from handles to rules that the API
\* promises: no insertion or deletion changes what another handle stands for.
ImplementsNatRules == Client!NatSpec

\* What the error message of ipa_nati_generate_tbl_rule says of every chain.
PrevIsNotNext ==
    \A e \in Entries : nxt[e] # 0 => nxt[e] # e

-----------------------------------------------------------------------------
(* The inductive invariant behind them, for a driver whose DMA commands      *)
(* succeed.                                                                  *)

\* A chain of the rule table: only an enabled entry has a successor, which is
\* an enabled expansion entry of the same hash that points back.
TblChains ==
    /\ enbl[0] = "off" /\ enbl[TableEntries] = "off"
    /\ \A e \in Entries : enbl[e] = "off" => nxt[e] = 0
    /\ \A e \in Entries : enbl[e] # "off" =>
         rule[e] \in Rules /\ (e < TableEntries => DstHash[rule[e]] = e)
    /\ \A e \in Entries : enbl[e] = "dead" => e \in Base /\ nxt[e] # 0
    /\ \A e \in Entries : nxt[e] # 0 =>
         /\ nxt[e] \in Expn /\ enbl[nxt[e]] = "on" /\ prv[nxt[e]] = e
         /\ DstHash[rule[nxt[e]]] = DstHash[rule[e]]
    /\ \A e \in Expn : enbl[e] = "on" => prv[e] # 0 /\ nxt[prv[e]] = e

\* The same for the index table, whose entries are owned one to one by the
\* enabled rules.
IdxChains ==
    /\ idxEnt[0] = 0 /\ idxEnt[TableEntries] = 0
    /\ \A i \in Entries : idxEnt[i] = 0 => idxNxt[i] = 0
    /\ \A i \in Entries : idxEnt[i] # 0 =>
         /\ enbl[idxEnt[i]] = "on" /\ indx[idxEnt[i]] = i
         /\ i < TableEntries => SrcHash[rule[idxEnt[i]]] = i
    /\ \A e \in Entries : enbl[e] = "on" => idxEnt[indx[e]] = e
    /\ \A i \in Entries : idxNxt[i] # 0 =>
         /\ idxNxt[i] \in Expn /\ idxEnt[idxNxt[i]] # 0 /\ idxPrv[idxNxt[i]] = i
         /\ SrcHash[rule[idxEnt[idxNxt[i]]]] = SrcHash[rule[idxEnt[i]]]
    /\ \A i \in Expn : idxEnt[i] # 0 => idxPrv[i] # 0 /\ idxNxt[idxPrv[i]] = i

\* Handles and enabled rules correspond one to one.
HandlesOwn ==
    /\ \A h \in Live : enbl[ruleId[h]] = "on"
    /\ \A e \in Entries : enbl[e] = "on" => \E h \in Live : ruleId[h] = e
    /\ HandlesDistinct

\* Every rule is on the chains the hardware searches for it.
Reachable ==
    /\ \A e \in Entries : enbl[e] = "on" => e \in Reach(nxt, DstHash[rule[e]])
    /\ \A i \in Entries : idxEnt[i] # 0 => i \in Reach(idxNxt, SrcHash[rule[idxEnt[i]]])

TableInv == TypeOK /\ TblChains /\ IdxChains /\ HandlesOwn /\ Reachable /\ ChainsEnd
=============================================================================
