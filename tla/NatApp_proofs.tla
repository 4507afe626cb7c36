---------------------------- MODULE NatApp_proofs ----------------------------
(* What the methods of NatApp preserve, for caches, tables and lists of any   *)
(* size.                                                                      *)
EXTENDS NatApp, LoopInduction, FiniteSetTheorems, TLAPS

-----------------------------------------------------------------------------
(* Entries and slots. *)

\* The rule and the cached copies of an entry are entries with its key.
LEMMA EntryFacts ==
    ASSUME NEW e \in Entries, NEW h \in 0 .. MaxRules, NEW b \in BOOLEAN
    PROVE  /\ NoEntry \in Entries /\ ~NoEntry.enabled
           /\ DrvRule(e) \in Entries /\ DrvRule(e) # NoEntry
           /\ [e EXCEPT !.enabled = b, !.hdl = h] \in Entries
           /\ SameConn([e EXCEPT !.enabled = b, !.hdl = h], e)
           /\ DrvRule([e EXCEPT !.enabled = b, !.hdl = h]) = DrvRule(e)
           /\ [e EXCEPT !.enabled = b] \in Entries
           /\ SameConn([e EXCEPT !.enabled = b], e)
<1> USE NatAppAssumption
<1>1. NoEntry \in Entries /\ ~NoEntry.enabled
  BY DEF NoEntry, Entries
<1>2. DrvRule(e) \in Entries
  <2>1. 0 \in 0 .. MaxRules /\ NoAddr \in Addrs
    OBVIOUS
  <2> QED
    BY <2>1, Zenon DEF DrvRule, Entries
<1>3. DrvRule(e) # NoEntry
  BY DEF DrvRule, NoEntry, Entries
<1>4. [e EXCEPT !.enabled = b, !.hdl = h] \in Entries
  BY DEF Entries
<1>5. SameConn([e EXCEPT !.enabled = b, !.hdl = h], e)
  BY DEF Entries, SameConn
<1>6. DrvRule([e EXCEPT !.enabled = b, !.hdl = h]) = DrvRule(e)
  BY DEF Entries, DrvRule
<1>7. [e EXCEPT !.enabled = b] \in Entries /\ SameConn([e EXCEPT !.enabled = b], e)
  BY DEF Entries, SameConn
<1> QED
  BY <1>1, <1>2, <1>3, <1>4, <1>5, <1>6, <1>7
\* A zeroed entry.
LEMMA NoEntryType == NoEntry \in Entries /\ ~NoEntry.enabled /\ NoEntry.hdl = 0
BY NatAppAssumption DEF NoEntry, Entries

\* The slots and handles are finitely many.
LEMMA SlotFacts ==
    /\ IsFiniteSet(Slots) /\ Slots \in SUBSET Nat /\ Hdls \in SUBSET Nat
    /\ TempSlots \in SUBSET Nat /\ Hdls \subseteq 0 .. MaxRules
    /\ \A S \in SUBSET Slots : IsFiniteSet(S) /\ Cardinality(S) \in Nat
<1>1. IsFiniteSet(Slots)
  BY NatAppAssumption, FS_Interval DEF Slots
<1>2. /\ Slots \in SUBSET Nat /\ Hdls \in SUBSET Nat
      /\ TempSlots \in SUBSET Nat /\ Hdls \subseteq 0 .. MaxRules
  BY NatAppAssumption DEF Slots, Hdls, TempSlots
<1>3. ASSUME NEW S \in SUBSET Slots PROVE IsFiniteSet(S) /\ Cardinality(S) \in Nat
  <2>1. IsFiniteSet(S)
    BY <1>1, FS_Subset
  <2> QED
    BY <2>1, FS_CardinalityType
<1> QED
  BY <1>1, <1>2, <1>3

\* The fields of a state.
LEMMA StateFacts ==
    ASSUME NEW s \in NatStates
    PROVE  /\ s.cache \in [Slots -> Entries] /\ s.temp \in [TempSlots -> Entries]
           /\ s.asleep \in SUBSET Addrs /\ s.tblHdl \in Nat /\ s.pub \in Addrs
           /\ s.pubPre \in Addrs /\ s.curCnt \in Int /\ s.tables \in Nat
           /\ s.live \in [Hdls -> Entries] /\ s.left \in SUBSET Hdls
BY DEF NatStates

\* The first free handle is a free handle.
LEMMA DrvHdlFree ==
    ASSUME NEW s \in NatStates, FreeHdls(s) # {}
    PROVE  DrvHdl(s) \in Hdls /\ s.live[DrvHdl(s)] = NoEntry
<1>1. FreeHdls(s) \in SUBSET Nat
  BY SlotFacts DEF FreeHdls
<1>2. \E h \in FreeHdls(s) : \A g \in FreeHdls(s) : h <= g
  BY <1>1, LeastNat
<1>3. DrvHdl(s) \in FreeHdls(s)
  BY <1>2 DEF DrvHdl
<1> QED
  BY <1>3 DEF FreeHdls

\* The first unused slot is an unused slot.
LEMMA FreeSlotFree ==
    ASSUME NEW s \in NatStates, Slots # Used(s)
    PROVE  FreeSlot(s) \in Slots \ Used(s)
<1>1. Slots \ Used(s) \in SUBSET Nat /\ Slots \ Used(s) # {}
  BY SlotFacts DEF Used
<1>2. \E c \in Slots \ Used(s) : \A d \in Slots \ Used(s) : c <= d
  BY <1>1, LeastNat
<1> QED
  BY <1>2 DEF FreeSlot

-----------------------------------------------------------------------------
(* Inserting, dropping and releasing. *)

\* What Insert writes.
LEMMA InsertFields ==
    ASSUME NEW s \in NatStates, NEW c \in Slots, NEW e \in Entries, FreeHdls(s) # {}
    PROVE  LET y == Insert(s, c, e)
               h == DrvHdl(s)
           IN /\ y \in NatStates
              /\ y.live = [s.live EXCEPT ![h] = DrvRule(e)]
              /\ y.cache = [s.cache EXCEPT ![c] = [e EXCEPT !.enabled = TRUE, !.hdl = h]]
              /\ y.temp = s.temp /\ y.asleep = s.asleep /\ y.tblHdl = s.tblHdl
              /\ y.pub = s.pub /\ y.pubPre = s.pubPre /\ y.curCnt = s.curCnt
              /\ y.tables = s.tables /\ y.left = s.left
<1> DEFINE h == DrvHdl(s)
<1>1. h \in Hdls /\ h \in 0 .. MaxRules
  BY DrvHdlFree, SlotFacts
<1>2. DrvRule(e) \in Entries /\ [e EXCEPT !.enabled = TRUE, !.hdl = h] \in Entries
  BY <1>1, EntryFacts
<1>3. /\ [s.live EXCEPT ![h] = DrvRule(e)] \in [Hdls -> Entries]
      /\ [s.cache EXCEPT ![c] = [e EXCEPT !.enabled = TRUE, !.hdl = h]] \in [Slots -> Entries]
  BY <1>1, <1>2, StateFacts
<1> HIDE DEF h
<1> QED
  BY <1>3, StateFacts DEF Insert, NatStates, h
\* What DrvDel and Drop write.
LEMMA DropFields ==
    ASSUME NEW s \in NatStates, NEW K \in SUBSET Slots
    PROVE  LET y == Drop(s, K) IN
              /\ y \in NatStates
              /\ y.cache = [c \in Slots |-> IF c \in K THEN NoEntry ELSE s.cache[c]]
              /\ y.curCnt = s.curCnt - Cardinality(K)
              /\ y.temp = s.temp /\ y.asleep = s.asleep /\ y.tblHdl = s.tblHdl
              /\ y.pub = s.pub /\ y.pubPre = s.pubPre /\ y.tables = s.tables /\ y.left = s.left
              /\ y.live = s.live
<1>1. [c \in Slots |-> IF c \in K THEN NoEntry ELSE s.cache[c]] \in [Slots -> Entries]
  BY EntryFacts, StateFacts, NoEntryType
<1>2. s.curCnt - Cardinality(K) \in Int
  BY SlotFacts, StateFacts
<1> QED
  BY <1>1, <1>2, StateFacts DEF Drop, NatStates

LEMMA DrvDelFields ==
    ASSUME NEW s \in NatStates, NEW K \in SUBSET Slots
    PROVE  LET y == DrvDel(s, K)
               hdls == {s.cache[c].hdl : c \in {d \in K : s.cache[d].enabled}}
           IN /\ y \in NatStates
              /\ y.live = IF TblHdlOk(s)
                          THEN [h \in Hdls |-> IF h \in hdls THEN NoEntry ELSE s.live[h]]
                          ELSE s.live
              /\ y.cache = s.cache /\ y.curCnt = s.curCnt
              /\ y.temp = s.temp /\ y.asleep = s.asleep /\ y.tblHdl = s.tblHdl
              /\ y.pub = s.pub /\ y.pubPre = s.pubPre /\ y.tables = s.tables /\ y.left = s.left
<1> DEFINE hdls == {s.cache[c].hdl : c \in {d \in K : s.cache[d].enabled}}
<1>1. [h \in Hdls |-> IF h \in hdls THEN NoEntry ELSE s.live[h]] \in [Hdls -> Entries]
  BY NoEntryType, StateFacts
<1> HIDE DEF hdls
<1> QED
  BY <1>1, StateFacts DEF DrvDel, NatStates, hdls

\* An entry with a rule is in use, and the driver has a table for it; the
\* handle of the table is the number of tables.
Sound(s) ==
    /\ Enabled(s) \subseteq Used(s)
    /\ s.tblHdl = s.tables /\ s.tables \in {0, 1}
    /\ Enabled(s) # {} => s.tables = 1

Good(s) == RulesMatch(s) /\ Counted(s) /\ Sound(s)

\* A rule for an entry that had none, of a connection that is not in another
\* slot, gets a handle of its own.
LEMMA InsertGood ==
    ASSUME NEW s \in NatStates, Good(s), NEW c \in Slots, ~s.cache[c].enabled,
           NEW e \in Entries, ~SameConn(e, NoEntry), TblHdlOk(s), FreeHdls(s) # {},
           \A d \in Used(s) : SameConn(s.cache[d], e) => d = c
    PROVE  LET y == Insert(s, c, e) IN
              /\ RulesMatch(y) /\ Sound(y)
              /\ Used(y) = Used(s) \cup {c}
              /\ \A i, j \in Used(y) : SameConn(y.cache[i], y.cache[j]) => i = j
<1> DEFINE y == Insert(s, c, e)
           h == DrvHdl(s)
           n == [e EXCEPT !.enabled = TRUE, !.hdl = h]
<1>1. /\ y \in NatStates
      /\ y.live = [s.live EXCEPT ![h] = DrvRule(e)]
      /\ y.cache = [s.cache EXCEPT ![c] = n]
      /\ y.tblHdl = s.tblHdl /\ y.tables = s.tables /\ y.left = s.left
  BY InsertFields
<1>2. h \in Hdls /\ s.live[h] = NoEntry /\ h \in 0 .. MaxRules
  BY DrvHdlFree, SlotFacts
<1>3. n \in Entries /\ n.enabled /\ n.hdl = h /\ DrvRule(n) = DrvRule(e) /\ SameConn(n, e)
  <2>1. n.enabled /\ n.hdl = h
    BY DEF Entries
  <2> QED
    BY <2>1, <1>2, EntryFacts
<1> HIDE DEF y, h, n
<1>4. y.cache[c] = n /\ \A d \in Slots : d # c => y.cache[d] = s.cache[d]
  BY <1>1, StateFacts
<1>5. y.live[h] = DrvRule(e) /\ \A g \in Hdls : g # h => y.live[g] = s.live[g]
  BY <1>1, <1>2, StateFacts
<1>6. Enabled(y) = Enabled(s) \cup {c}
  BY <1>3, <1>4 DEF Enabled
<1>7. \A d \in Enabled(s) : d # c /\ d \in Slots /\ s.cache[d].hdl \in Hdls \ s.left
                            /\ s.live[s.cache[d].hdl] = DrvRule(s.cache[d])
                            /\ DrvRule(s.cache[d]) # NoEntry
  <2> TAKE d \in Enabled(s)
  <2>1. d \in Slots /\ s.cache[d] \in Entries /\ d # c
    BY StateFacts DEF Enabled
  <2>2. DrvRule(s.cache[d]) # NoEntry
    BY <2>1, <1>2, EntryFacts
  <2> QED
    BY <2>1, <2>2 DEF Good, RulesMatch
<1>8. \A d \in Enabled(s) : s.cache[d].hdl # h
  BY <1>2, <1>7
<1>9. RulesMatch(y)
  <2>0. h \notin y.left /\ \A g \in y.left : y.live[g] # NoEntry
    BY <1>1, <1>2, <1>5, StateFacts DEF Good, RulesMatch
  <2>1. ASSUME NEW d \in Enabled(y)
        PROVE  y.cache[d].hdl \in Hdls \ y.left /\ y.live[y.cache[d].hdl] = DrvRule(y.cache[d])
    <3>1. CASE d = c
      BY <3>1, <2>0, <1>2, <1>3, <1>4, <1>5
    <3>2. CASE d # c
      BY <3>2, <1>1, <1>4, <1>5, <1>6, <1>7, <1>8
    <3> QED
      BY <3>1, <3>2
  <2>2. ASSUME NEW d \in Enabled(y), NEW k \in Enabled(y), y.cache[d].hdl = y.cache[k].hdl
        PROVE  d = k
    BY <2>2, <1>3, <1>4, <1>6, <1>7, <1>8 DEF Good, RulesMatch
  <2>3. ASSUME NEW g \in Hdls, y.live[g] # NoEntry
        PROVE  g \in y.left \/ \E d \in Enabled(y) : y.cache[d].hdl = g
    <3>1. CASE g = h
      BY <3>1, <1>3, <1>4, <1>6
    <3>2. CASE g # h
      BY <3>2, <2>3, <1>1, <1>4, <1>5, <1>6, <1>7 DEF Good, RulesMatch
    <3> QED
      BY <3>1, <3>2
  <2> QED
    BY <2>0, <2>1, <2>2, <2>3 DEF RulesMatch
<1>10. Used(y) = Used(s) \cup {c}
  <2>1. ~SameConn(y.cache[c], NoEntry)
    BY <1>3, <1>4 DEF SameConn
  <2> QED
    BY <2>1, <1>4 DEF Used
<1>11. \A i, j \in Used(y) : SameConn(y.cache[i], y.cache[j]) => i = j
  <2>1. ASSUME NEW i \in Used(s), i # c PROVE ~SameConn(y.cache[i], n) /\ ~SameConn(n, y.cache[i])
    <3>1. y.cache[i] = s.cache[i] /\ ~SameConn(s.cache[i], e)
      BY <2>1, <1>4 DEF Used
    <3> QED
      BY <3>1, <1>3 DEF SameConn
  <2> QED
    BY <2>1, <1>4, <1>10 DEF Good, Counted, Used
<1>12. Sound(y)
  <2>1. s.tables = 1
    BY DEF TblHdlOk, Good, Sound, MaxTables
  <2> QED
    BY <2>1, <1>1, <1>6, <1>10 DEF Good, Sound
<1> QED
  BY <1>9, <1>10, <1>11, <1>12 DEF y

\* Releasing the rules of some slots and the slots' hold on them keeps the
\* others.
LEMMA ReleaseMatch ==
    ASSUME NEW s \in NatStates, Good(s), NEW K \in SUBSET Slots, NEW y \in NatStates,
           y.live = DrvDel(s, K).live, y.left = s.left,
           \A c \in K : ~y.cache[c].enabled,
           \A c \in Slots \ K : y.cache[c] = s.cache[c]
    PROVE  RulesMatch(y) /\ Enabled(y) = Enabled(s) \ K
<1> DEFINE hdls == {s.cache[c].hdl : c \in {d \in K : s.cache[d].enabled}}
<1>1. Enabled(y) = Enabled(s) \ K
  BY DEF Enabled
<1>2. TblHdlOk(s) \/ Enabled(s) = {}
  BY DEF Good, Sound, TblHdlOk, MaxTables
<1>3. \A h \in Hdls : y.live[h] = IF h \in hdls THEN NoEntry ELSE s.live[h]
  <2>1. CASE TblHdlOk(s)
    <3>1. y.live = [h \in Hdls |-> IF h \in hdls THEN NoEntry ELSE s.live[h]]
      BY <2>1, DrvDelFields
    <3> HIDE DEF hdls
    <3> QED
      BY <3>1
  <2>2. CASE ~TblHdlOk(s)
    <3>1. hdls = {} /\ y.live = s.live
      BY <2>2, <1>2, DrvDelFields DEF Enabled
    <3> QED
      BY <3>1
  <2> QED
    BY <2>1, <2>2
<1>4. \A c \in Enabled(y) : c \in Slots \ K /\ c \in Enabled(s) /\ y.cache[c] = s.cache[c]
  BY <1>1 DEF Enabled
<1>5. \A c \in Enabled(y) : s.cache[c].hdl \in Hdls \ s.left /\ s.cache[c].hdl \notin hdls
  BY <1>4 DEF Good, RulesMatch, Enabled
<1>6. ASSUME NEW h \in Hdls, y.live[h] # NoEntry, h \notin s.left
      PROVE  \E c \in Enabled(y) : y.cache[c].hdl = h
  <2>1. h \notin hdls /\ s.live[h] # NoEntry
    BY <1>3, <1>6
  <2>2. PICK c \in Enabled(s) : s.cache[c].hdl = h
    BY <2>1, <1>6 DEF Good, RulesMatch
  <2>3. c \notin K
    BY <2>1, <2>2 DEF Enabled
  <2> QED
    BY <2>2, <2>3, <1>1, <1>4
<1>7. \A h \in s.left : h \in Hdls /\ y.live[h] # NoEntry
  <2>1. \A h \in s.left : h \in Hdls /\ s.live[h] # NoEntry /\ h \notin hdls
    BY StateFacts DEF Good, RulesMatch, Enabled
  <2> QED
    BY <2>1, <1>3
<1> HIDE DEF hdls
<1> QED
  BY <1>1, <1>3, <1>4, <1>5, <1>6, <1>7 DEF Good, RulesMatch

\* Slots that lose their rules and stay in use.
LEMMA DisableGood ==
    ASSUME NEW s \in NatStates, Good(s), NEW K \in SUBSET Slots, NEW y \in NatStates,
           y.live = DrvDel(s, K).live, y.left = s.left,
           \A c \in K : ~y.cache[c].enabled /\ SameConn(y.cache[c], s.cache[c]),
           \A c \in Slots \ K : y.cache[c] = s.cache[c],
           y.curCnt = s.curCnt, y.tblHdl = s.tblHdl, y.tables = s.tables /\ y.left = s.left
    PROVE  Good(y) /\ Used(y) = Used(s)
<1>1. RulesMatch(y) /\ Enabled(y) = Enabled(s) \ K
  BY ReleaseMatch
<1>2. \A c \in Slots : SameConn(y.cache[c], s.cache[c])
  BY DEF SameConn
<1>3. Used(y) = Used(s)
  BY <1>2 DEF Used, SameConn
<1>4. \A c, d \in Used(y) : SameConn(y.cache[c], y.cache[d]) => c = d
  <2> SUFFICES ASSUME NEW c \in Used(s), NEW d \in Used(s), SameConn(y.cache[c], y.cache[d])
               PROVE  c = d
    BY <1>3
  <2>1. SameConn(s.cache[c], s.cache[d])
    BY <1>2 DEF SameConn, Used
  <2> QED
    BY <2>1 DEF Good, Counted
<1> QED
  BY <1>1, <1>3, <1>4 DEF Good, Counted, Sound

\* Slots in use that are given up with their rules.
LEMMA DropGood ==
    ASSUME NEW s \in NatStates, Good(s), NEW K \in SUBSET Used(s)
    PROVE  LET y == Drop(DrvDel(s, K), K) IN
              y \in NatStates /\ Good(y) /\ Used(y) = Used(s) \ K
<1> DEFINE x == DrvDel(s, K)
           y == Drop(x, K)
<1>0. K \in SUBSET Slots
  BY DEF Used
<1>1. x \in NatStates /\ x.cache = s.cache /\ x.curCnt = s.curCnt /\ x.tblHdl = s.tblHdl
      /\ x.tables = s.tables /\ x.left = s.left
  BY <1>0, DrvDelFields
<1>2. /\ y \in NatStates
      /\ y.cache = [c \in Slots |-> IF c \in K THEN NoEntry ELSE x.cache[c]]
      /\ y.curCnt = x.curCnt - Cardinality(K) /\ y.live = x.live
      /\ y.tblHdl = x.tblHdl /\ y.tables = x.tables /\ y.left = x.left
  BY <1>0, <1>1, DropFields
<1>3. y.live = DrvDel(s, K).live /\ y.left = s.left
  BY <1>1, <1>2
<1> HIDE DEF x, y
<1>4. \A c \in Slots : y.cache[c] = IF c \in K THEN NoEntry ELSE s.cache[c]
  BY <1>1, <1>2
<1>5. \A c \in K : ~y.cache[c].enabled
  BY <1>0, <1>4, NoEntryType
<1>6. RulesMatch(y) /\ Enabled(y) = Enabled(s) \ K
  <2>1. y \in NatStates
    BY <1>2
  <2>2. \A c \in Slots \ K : y.cache[c] = s.cache[c]
    BY <1>4
  <2> QED
    BY <1>0, <1>3, <1>5, <2>1, <2>2, ReleaseMatch
<1>7. Used(y) = Used(s) \ K
  BY <1>0, <1>4 DEF Used, SameConn
<1>8. Counted(y)
  <2>1. Cardinality(Used(s) \ K) = Cardinality(Used(s)) - Cardinality(K)
    <3>1. IsFiniteSet(Used(s)) /\ IsFiniteSet(K)
      BY <1>0, SlotFacts DEF Used
    <3>2. Used(s) \cap K = K
      OBVIOUS
    <3> QED
      BY <3>1, <3>2, FS_Difference
  <2>2. \A c \in Used(y) : y.cache[c] = s.cache[c] /\ c \in Used(s)
    BY <1>4, <1>7 DEF Used
  <2> QED
    BY <2>1, <2>2, <1>1, <1>2, <1>7 DEF Good, Counted
<1> QED
  BY <1>1, <1>2, <1>6, <1>7, <1>8 DEF Good, Sound, y, x
-----------------------------------------------------------------------------
(* The loops that put cached entries into the driver. *)

\* What every such loop leaves alone.
SameBut(s, y) ==
    /\ y.temp = s.temp /\ y.asleep = s.asleep /\ y.tblHdl = s.tblHdl
    /\ y.pub = s.pub /\ y.pubPre = s.pubPre /\ y.tables = s.tables /\ y.left = s.left

\* A slot afterwards is as it was, has got a rule or was given up; slots that
\* were not chosen are as they were.
SlotOutcome(s, y, c) ==
    \/ y.cache[c] = s.cache[c]
    \/ y.cache[c] = NoEntry
    \/ \E h \in 0 .. MaxRules : y.cache[c] = [s.cache[c] EXCEPT !.enabled = TRUE, !.hdl = h]

\* One round keeps the object consistent.
LEMMA RestoreGood ==
    ASSUME NEW s \in NatStates, NEW c \in Slots, NEW refused
    PROVE  LET y == Restore(s, c, refused) IN
              /\ y \in NatStates /\ SameBut(s, y)
              /\ \A d \in Slots : d # c => y.cache[d] = s.cache[d]
              /\ SlotOutcome(s, y, c)
              /\ Good(s) /\ c \in Used(s) /\ ~s.cache[c].enabled => Good(y)
<1> DEFINE e == s.cache[c]
<1>0. e \in Entries
  BY StateFacts
<1>1. CASE DrvAccepts(s, e, refused)
  <2> DEFINE y == Insert(s, c, e)
  <2>1. FreeHdls(s) # {} /\ TblHdlOk(s)
    BY <1>1 DEF DrvAccepts
  <2>2. Restore(s, c, refused) = y
    BY <1>1 DEF Restore
  <2>3. /\ y \in NatStates /\ SameBut(s, y) /\ y.curCnt = s.curCnt
        /\ y.cache = [s.cache EXCEPT ![c] = [e EXCEPT !.enabled = TRUE, !.hdl = DrvHdl(s)]]
    BY <1>0, <2>1, InsertFields DEF SameBut
  <2>4. DrvHdl(s) \in 0 .. MaxRules
    BY <2>1, DrvHdlFree, SlotFacts
  <2>5. ASSUME Good(s), c \in Used(s), ~e.enabled PROVE Good(y)
    <3>1. ~SameConn(e, NoEntry) /\ \A d \in Used(s) : SameConn(s.cache[d], e) => d = c
      BY <2>5 DEF Good, Counted, Used
    <3>2. /\ RulesMatch(y) /\ Sound(y) /\ Used(y) = Used(s) \cup {c}
          /\ \A i, j \in Used(y) : SameConn(y.cache[i], y.cache[j]) => i = j
      BY <1>0, <2>1, <2>5, <3>1, InsertGood
    <3>3. Used(y) = Used(s)
      BY <3>2, <2>5
    <3> QED
      BY <3>2, <3>3, <2>3, <2>5 DEF Good, Counted
  <2> HIDE DEF y
  <2>6. SlotOutcome(s, y, c) /\ \A d \in Slots : d # c => y.cache[d] = s.cache[d]
    BY <2>3, <2>4, StateFacts DEF SlotOutcome
  <2> QED
    BY <2>2, <2>3, <2>5, <2>6
<1>2. CASE ~DrvAccepts(s, e, refused)
  <2> DEFINE y == Drop(s, {c})
  <2>1. Restore(s, c, refused) = y
    BY <1>2 DEF Restore
  <2>2. /\ y \in NatStates /\ SameBut(s, y) /\ y.live = s.live
        /\ y.curCnt = s.curCnt - Cardinality({c})
        /\ y.cache = [d \in Slots |-> IF d \in {c} THEN NoEntry ELSE s.cache[d]]
    BY DropFields DEF SameBut
  <2>3. ASSUME Good(s), c \in Used(s), ~e.enabled PROVE Good(y)
    <3> DEFINE x == DrvDel(s, {c})
    <3>1. x.live = s.live /\ x = s
      <4>1. {s.cache[d].hdl : d \in {k \in {c} : s.cache[k].enabled}} = {}
        BY <2>3
      <4>2. [s EXCEPT !.live = [h \in Hdls |-> s.live[h]]] = s
        BY StateFacts DEF NatStates
      <4>3. [h \in Hdls |-> IF h \in {} THEN NoEntry ELSE s.live[h]] = [h \in Hdls |-> s.live[h]]
        OBVIOUS
      <4> QED
        BY <4>1, <4>2, <4>3 DEF DrvDel
    <3>2. Good(Drop(x, {c}))
      BY <2>3, DropGood
    <3> QED
      BY <3>1, <3>2
  <2> HIDE DEF y
  <2>4. SlotOutcome(s, y, c) /\ \A d \in Slots : d # c => y.cache[d] = s.cache[d]
    BY <2>2 DEF SlotOutcome
  <2> QED
    BY <2>1, <2>2, <2>3, <2>4
<1> QED
  BY <1>1, <1>2

\* The whole loop.
LEMMA RestoreSlotsGood ==
    ASSUME NEW s \in NatStates, NEW K \in SUBSET Slots, NEW refused
    PROVE  LET y == RestoreSlots(s, K, refused) IN
              /\ y \in NatStates /\ SameBut(s, y)
              /\ \A c \in Slots \ K : y.cache[c] = s.cache[c]
              /\ \A c \in K : SlotOutcome(s, y, c)
              /\ Good(s) /\ (\A c \in K : c \in Used(s) /\ ~s.cache[c].enabled) => Good(y)
<1> DEFINE N == MaxEntries
           F(f) == [n \in 0 .. N |-> IF n = 0 THEN s
                                     ELSE IF n \in K THEN Restore(f[n - 1], n, refused)
                                     ELSE f[n - 1]]
           upTo == CHOOSE f : f = F(f)
           y == RestoreSlots(s, K, refused)
           Fit == Good(s) /\ (\A c \in K : c \in Used(s) /\ ~s.cache[c].enabled)
           Inv == [n \in 0 .. N |->
                     {x \in NatStates :
                        /\ SameBut(s, x)
                        /\ \A c \in Slots : c \notin K \/ c > n => x.cache[c] = s.cache[c]
                        /\ \A c \in K : SlotOutcome(s, x, c)
                        /\ Fit => Good(x)}]
<1>0. N \in Nat /\ Slots = 1 .. N
  BY NatAppAssumption DEF Slots
<1>1. y = upTo[N]
  BY DEF RestoreSlots
<1>2. \E f : f = F(f)
  <2> DEFINE round == [n \in 1 .. N |-> [x \in NatStates |->
                          IF n \in K THEN Restore(x, n, refused) ELSE x]]
  <2>1. ASSUME NEW n \in 1 .. N, NEW x \in NatStates
        PROVE  (IF n \in K THEN Restore(x, n, refused) ELSE x) \in NatStates
    BY <1>0, RestoreGood
  <2>2. round \in [1 .. N -> [NatStates -> NatStates]]
    BY <2>1
  <2>3. PICK g \in [0 .. N -> NatStates] :
          g[0] = s /\ \A n \in 1 .. N : g[n] = round[n][g[n - 1]]
    <3> HIDE DEF round, N
    <3>1. PICK g : IsLoop(g, N, NatStates, s, round)
      BY <1>0, <2>2, LoopExists
    <3> QED
      BY <3>1 DEF IsLoop
  <2>4. ASSUME NEW n \in 1 .. N
        PROVE  g[n] = IF n \in K THEN Restore(g[n - 1], n, refused) ELSE g[n - 1]
    <3>1. g[n - 1] \in NatStates
      BY <1>0, <2>3
    <3> QED
      BY <2>3, <3>1
  <2>5. g = F(g)
    BY <1>0, <2>3, <2>4
  <2> QED
    BY <2>5
<1>3. upTo = F(upTo)
  BY <1>2
<1> HIDE DEF upTo
<1>4. upTo[0] = s
  BY <1>0, <1>3
<1>5. ASSUME NEW n \in 1 .. N
      PROVE  upTo[n] = IF n \in K THEN Restore(upTo[n - 1], n, refused) ELSE upTo[n - 1]
  BY <1>0, <1>3
<1>6. upTo[0] \in Inv[0]
  BY <1>0, <1>4 DEF SameBut, SlotOutcome
<1> HIDE DEF F
<1>7. ASSUME NEW n \in 1 .. N, upTo[n - 1] \in Inv[n - 1]
      PROVE  upTo[n] \in Inv[n]
  <2> DEFINE x == upTo[n - 1]
             z == upTo[n]
  <2>1. n \in Slots /\ n - 1 \in 0 .. N /\ n \in 0 .. N
    BY <1>0
  <2>2. /\ x \in NatStates /\ SameBut(s, x)
        /\ \A c \in Slots : c \notin K \/ c > n - 1 => x.cache[c] = s.cache[c]
        /\ \A c \in K : SlotOutcome(s, x, c)
        /\ Fit => Good(x)
    BY <2>1, <1>7
  <2>3. CASE n \notin K
    <3>1. z = x
      BY <1>5, <2>3
    <3>2. \A c \in Slots : c > n => c > n - 1
      BY <1>0
    <3> QED
      BY <2>1, <2>2, <3>1, <3>2
  <2>4. CASE n \in K
    <3>1. z = Restore(x, n, refused)
      BY <1>5, <2>4
    <3> HIDE DEF x, z
    <3>2. /\ z \in NatStates /\ SameBut(x, z)
          /\ \A d \in Slots : d # n => z.cache[d] = x.cache[d]
          /\ SlotOutcome(x, z, n)
          /\ Good(x) /\ n \in Used(x) /\ ~x.cache[n].enabled => Good(z)
      BY <2>1, <2>2, <3>1, RestoreGood
    <3>3. x.cache[n] = s.cache[n]
      BY <1>0, <2>1, <2>2
    <3>4. Fit => Good(z)
      BY <2>1, <2>2, <2>4, <3>2, <3>3 DEF Used
    <3>5. SameBut(s, z)
      BY <2>2, <3>2 DEF SameBut
    <3>6. \A c \in Slots : c \notin K \/ c > n => z.cache[c] = s.cache[c]
      BY <1>0, <2>2, <2>4, <3>2
    <3>7. \A c \in K : SlotOutcome(s, z, c)
      <4> TAKE c \in K
      <4>1. CASE c = n
        BY <4>1, <3>2, <3>3 DEF SlotOutcome
      <4>2. CASE c # n
        <5>1. z.cache[c] = x.cache[c] /\ SlotOutcome(s, x, c)
          BY <4>2, <2>2, <3>2
        <5> QED
          BY <5>1 DEF SlotOutcome
      <4> QED
        BY <4>1, <4>2
    <3> HIDE DEF Fit
    <3> QED
      BY <2>1, <3>2, <3>4, <3>5, <3>6, <3>7 DEF z
  <2> QED
    BY <2>3, <2>4
<1>8. upTo[N] \in Inv[N]
  <2> HIDE DEF Inv
  <2> QED
    BY <1>0, <1>6, <1>7, LoopInvariant
<1> QED
  BY <1>0, <1>1, <1>8
-----------------------------------------------------------------------------
(* What a method does, as the listener needs it. *)

\* What tells an entry's connection: SameConn, and the public port.
KeyOf(e) == <<e.priv, e.pport, e.tgt, e.pubport>>

NoKey == KeyOf(NoEntry)

\* The connections that the object knows of.
Keys(s) == {KeyOf(s.cache[c]) : c \in Slots} \cup {KeyOf(s.temp[t]) : t \in TempSlots}

\* No entry of a client that sleeps before and after is given a rule.
NoneGiven(s, y) ==
    \A c \in Slots :
        y.cache[c].enabled /\ y.cache[c].priv \in s.asleep \cap y.asleep =>
            s.cache[c].enabled /\ SameConn(s.cache[c], y.cache[c])

\* The method keeps the object consistent and the driver's table, and knows of
\* no connection but the ones it knew of and the new ones.
Step(s, y, new) ==
    /\ y \in NatStates /\ Good(y)
    /\ y.tblHdl = s.tblHdl /\ y.pub = s.pub /\ y.tables = s.tables
    /\ Keys(y) \subseteq Keys(s) \cup new \cup {NoKey}
    /\ NoneGiven(s, y)

\* Keys tell what SameConn tells.
LEMMA KeyFacts ==
    /\ \A a, b : KeyOf(a) = KeyOf(b) <=> SameConn(a, b) /\ a.pubport = b.pubport
    /\ \A a, b : SameConn(a, b) => a.priv = b.priv /\ a.pport = b.pport /\ a.tgt = b.tgt
    /\ \A a, b, c : SameConn(a, b) /\ SameConn(b, c) => SameConn(a, c)
    /\ \A a, b : SameConn(a, b) => SameConn(b, a)
    /\ \A a : SameConn(a, a)
BY DEF KeyOf, SameConn

\* An entry that loses its rule is the same connection.
LEMMA DisabledEntry ==
    ASSUME NEW e \in Entries, NEW d,
           d \in {[e EXCEPT !.enabled = FALSE, !.hdl = 0], [e EXCEPT !.enabled = FALSE]}
    PROVE  d \in Entries /\ ~d.enabled /\ KeyOf(d) = KeyOf(e)
<1>1. 0 \in 0 .. MaxRules
  BY NatAppAssumption
<1>2. d \in Entries
  BY <1>1, EntryFacts
<1>3. ~d.enabled /\ KeyOf(d) = KeyOf(e)
  BY DEF Entries, KeyOf
<1> QED
  BY <1>2, <1>3

\* Keys are those of the slots.
LEMMA KeysFrom ==
    ASSUME NEW s, NEW y, NEW new,
           \A c \in Slots : KeyOf(y.cache[c]) \in Keys(s) \cup new \cup {NoKey},
           \A t \in TempSlots : KeyOf(y.temp[t]) \in Keys(s) \cup new \cup {NoKey}
    PROVE  Keys(y) \subseteq Keys(s) \cup new \cup {NoKey}
BY DEF Keys

\* Keys of slots are keys.
LEMMA KeysOfSlots ==
    ASSUME NEW s
    PROVE  /\ \A c \in Slots : KeyOf(s.cache[c]) \in Keys(s)
           /\ \A t \in TempSlots : KeyOf(s.temp[t]) \in Keys(s)
BY DEF Keys

\* Nothing happens.
LEMMA StepSame ==
    ASSUME NEW s \in NatStates, Good(s), NEW new
    PROVE  Step(s, s, new)
BY KeyFacts DEF Step, NoneGiven

\* Two methods in a row, when no client falls asleep between them.
LEMMA StepTrans ==
    ASSUME NEW s, NEW y, NEW z, NEW new, Step(s, y, new), Step(y, z, new),
           s.asleep \cap z.asleep \subseteq y.asleep
    PROVE  Step(s, z, new)
<1>1. NoneGiven(s, z)
  <2> SUFFICES ASSUME NEW c \in Slots, z.cache[c].enabled, z.cache[c].priv \in s.asleep \cap z.asleep
               PROVE  s.cache[c].enabled /\ SameConn(s.cache[c], z.cache[c])
    BY DEF NoneGiven
  <2>1. y.cache[c].enabled /\ SameConn(y.cache[c], z.cache[c])
    BY DEF Step, NoneGiven
  <2>2. y.cache[c].priv \in s.asleep \cap y.asleep
    BY <2>1 DEF SameConn
  <2>3. s.cache[c].enabled /\ SameConn(s.cache[c], y.cache[c])
    BY <2>1, <2>2 DEF Step, NoneGiven
  <2> QED
    BY <2>1, <2>3 DEF SameConn
<1> QED
  BY <1>1 DEF Step

\* A method by which some slots lose their rules.
LEMMA DisableStep ==
    ASSUME NEW s \in NatStates, Good(s), NEW K \in SUBSET Slots, NEW y \in NatStates,
           y.live = DrvDel(s, K).live, y.left = s.left,
           \A c \in K : ~y.cache[c].enabled /\ KeyOf(y.cache[c]) = KeyOf(s.cache[c]),
           \A c \in Slots \ K : y.cache[c] = s.cache[c],
           y.curCnt = s.curCnt, y.tblHdl = s.tblHdl, y.tables = s.tables,
           y.pub = s.pub, y.temp = s.temp
    PROVE  Step(s, y, {})
<1>1. \A c \in K : SameConn(y.cache[c], s.cache[c])
  BY KeyFacts
<1>2. Good(y)
  BY <1>1, DisableGood
<1>3. NoneGiven(s, y)
  BY KeyFacts DEF NoneGiven
<1>4. \A c \in Slots : KeyOf(y.cache[c]) = KeyOf(s.cache[c])
  OBVIOUS
<1>5. Keys(y) \subseteq Keys(s) \cup {} \cup {NoKey}
  BY <1>4, KeysOfSlots, KeysFrom
<1> QED
  BY <1>2, <1>3, <1>5 DEF Step

\* Clients that fall asleep lose their rules.
LEMMA UpdatePwrSaveIfStep ==
    ASSUME NEW s \in NatStates, Good(s), NEW ip \in Addrs, NEW refused
    PROVE  LET y == UpdatePwrSaveIf(s, ip, refused) IN Step(s, y, {}) /\ y.temp = s.temp
<1> DEFINE y == UpdatePwrSaveIf(s, ip, refused)
<1>1. CASE ip = NoAddr \/ ip \in s.asleep
  BY <1>1, StepSame DEF UpdatePwrSaveIf
<1>2. CASE ~(ip = NoAddr \/ ip \in s.asleep)
  <2> DEFINE K == Offloaded(s, ip, refused)
             x == DrvDel(s, K)
             sleep == IF Cardinality(s.asleep) < MaxWifiClients THEN s.asleep \cup {ip} ELSE s.asleep
             d(c) == [s.cache[c] EXCEPT !.enabled = FALSE, !.hdl = 0]
             cache == [c \in Slots |-> IF c \in K THEN d(c) ELSE s.cache[c]]
  <2>1. y = [x EXCEPT !.asleep = sleep, !.cache = cache]
    BY <1>2 DEF UpdatePwrSaveIf
  <2>2. K \in SUBSET Slots
    BY DEF Offloaded
  <2>3. x \in NatStates /\ x.curCnt = s.curCnt /\ x.temp = s.temp /\ x.tblHdl = s.tblHdl
        /\ x.pub = s.pub /\ x.tables = s.tables /\ x.left = s.left
    BY <2>2, DrvDelFields
  <2>4. \A c \in Slots : s.cache[c] \in Entries /\ d(c) \in Entries /\ ~d(c).enabled
                         /\ KeyOf(d(c)) = KeyOf(s.cache[c])
    BY StateFacts, DisabledEntry
  <2> HIDE DEF d
  <2>5. cache \in [Slots -> Entries] /\ sleep \in SUBSET Addrs
    BY <2>4, StateFacts
  <2>6. /\ y \in NatStates /\ y.cache = cache /\ y.live = x.live /\ y.asleep = sleep
        /\ y.curCnt = s.curCnt /\ y.temp = s.temp /\ y.tblHdl = s.tblHdl
        /\ y.pub = s.pub /\ y.tables = s.tables /\ y.left = s.left
    <3> HIDE DEF cache, sleep, x, y
    <3> QED
      BY <2>1, <2>3, <2>5 DEF NatStates
  <2> HIDE DEF y
  <2>7. \A c \in Slots : y.cache[c] = IF c \in K THEN d(c) ELSE s.cache[c]
    BY <2>6
  <2> HIDE DEF K, cache
  <2>8. \A c \in K : ~y.cache[c].enabled /\ KeyOf(y.cache[c]) = KeyOf(s.cache[c])
    BY <2>2, <2>4, <2>7
  <2> QED
    BY <2>2, <2>6, <2>7, <2>8, DisableStep DEF y
<1> QED
  BY <1>1, <1>2

\* Clients that leave lose their rules.
LEMMA DelEntriesOnClntDisconStep ==
    ASSUME NEW s \in NatStates, Good(s), NEW ip \in Addrs, NEW refused
    PROVE  LET y == DelEntriesOnClntDiscon(s, ip, refused) IN
             Step(s, y, {}) /\ y.temp = s.temp /\ y.asleep \subseteq s.asleep
<1> DEFINE y == DelEntriesOnClntDiscon(s, ip, refused)
<1>1. CASE ip = NoAddr
  BY <1>1, StepSame DEF DelEntriesOnClntDiscon
<1>2. CASE ip # NoAddr
  <2> DEFINE K == Offloaded(s, ip, refused)
             x == DrvDel(s, K)
             d(c) == [s.cache[c] EXCEPT !.enabled = FALSE]
             cache == [c \in Slots |-> IF c \in K THEN d(c) ELSE s.cache[c]]
  <2>1. y = [x EXCEPT !.asleep = x.asleep \ {ip}, !.cache = cache]
    BY <1>2 DEF DelEntriesOnClntDiscon
  <2>2. K \in SUBSET Slots
    BY DEF Offloaded
  <2>3. x \in NatStates /\ x.curCnt = s.curCnt /\ x.temp = s.temp /\ x.tblHdl = s.tblHdl
        /\ x.pub = s.pub /\ x.tables = s.tables /\ x.left = s.left /\ x.asleep = s.asleep
    BY <2>2, DrvDelFields
  <2>4. \A c \in Slots : s.cache[c] \in Entries /\ d(c) \in Entries /\ ~d(c).enabled
                         /\ KeyOf(d(c)) = KeyOf(s.cache[c])
    BY StateFacts, DisabledEntry
  <2> HIDE DEF d
  <2>5. cache \in [Slots -> Entries] /\ x.asleep \ {ip} \in SUBSET Addrs
    BY <2>3, <2>4, StateFacts
  <2>6. /\ y \in NatStates /\ y.cache = cache /\ y.live = x.live /\ y.asleep = x.asleep \ {ip}
        /\ y.curCnt = s.curCnt /\ y.temp = s.temp /\ y.tblHdl = s.tblHdl
        /\ y.pub = s.pub /\ y.tables = s.tables /\ y.left = s.left
    <3> HIDE DEF cache, x, y
    <3> QED
      BY <2>1, <2>3, <2>5 DEF NatStates
  <2> HIDE DEF y
  <2>7. \A c \in Slots : y.cache[c] = IF c \in K THEN d(c) ELSE s.cache[c]
    BY <2>6
  <2> HIDE DEF K, cache
  <2>8. \A c \in K : ~y.cache[c].enabled /\ KeyOf(y.cache[c]) = KeyOf(s.cache[c])
    BY <2>2, <2>4, <2>7
  <2>9. Step(s, y, {})
    BY <2>2, <2>6, <2>7, <2>8, DisableStep
  <2> QED
    BY <2>3, <2>6, <2>9 DEF y
<1> QED
  BY <1>1, <1>2

\* A method by which some slots in use are given up.
LEMMA DropStep ==
    ASSUME NEW s \in NatStates, Good(s), NEW K \in SUBSET Used(s)
    PROVE  LET y == Drop(DrvDel(s, K), K) IN
             /\ Step(s, y, {}) /\ y.temp = s.temp /\ y.asleep = s.asleep
             /\ \A c \in Slots : y.cache[c] = IF c \in K THEN NoEntry ELSE s.cache[c]
<1> DEFINE x == DrvDel(s, K)
           y == Drop(x, K)
<1>1. K \in SUBSET Slots
  BY DEF Used
<1>2. /\ x \in NatStates /\ x.cache = s.cache /\ x.temp = s.temp /\ x.asleep = s.asleep
      /\ x.tblHdl = s.tblHdl /\ x.pub = s.pub /\ x.tables = s.tables /\ x.left = s.left
  BY <1>1, DrvDelFields
<1> HIDE DEF x
<1>3. /\ y.cache = [c \in Slots |-> IF c \in K THEN NoEntry ELSE x.cache[c]]
      /\ y.temp = x.temp /\ y.asleep = x.asleep
      /\ y.tblHdl = x.tblHdl /\ y.pub = x.pub /\ y.tables = x.tables /\ y.left = x.left
  BY <1>1, <1>2, DropFields
<1>4. y \in NatStates /\ Good(y)
  BY DropGood DEF x
<1> HIDE DEF y
<1>5. \A c \in Slots : y.cache[c] = IF c \in K THEN NoEntry ELSE s.cache[c]
  BY <1>2, <1>3
<1>6. NoneGiven(s, y)
  BY <1>5, NoEntryType, KeyFacts DEF NoneGiven
<1>7. Keys(y) \subseteq Keys(s) \cup {} \cup {NoKey}
  BY <1>2, <1>3, <1>5, KeysOfSlots, KeysFrom DEF NoKey
<1> QED
  BY <1>2, <1>3, <1>4, <1>5, <1>6, <1>7 DEF Step, y, x

\* Clients of the STA that leave take their entries along.
LEMMA DelEntriesOnSTAClntDisconStep ==
    ASSUME NEW s \in NatStates, Good(s), NEW ip \in Addrs, NEW refused
    PROVE  LET y == DelEntriesOnSTAClntDiscon(s, ip, refused) IN
             Step(s, y, {}) /\ y.temp = s.temp /\ y.asleep = s.asleep
<1> DEFINE K == {c \in Slots : /\ s.cache[c].tgt = ip
                               /\ s.cache[c].enabled => DrvDeletes(s, c, refused)}
<1>1. CASE ip = NoAddr
  BY <1>1, StepSame DEF DelEntriesOnSTAClntDiscon
<1>2. CASE ip # NoAddr
  <2>1. K \in SUBSET Used(s)
    BY <1>2 DEF Used, SameConn, NoEntry
  <2>2. DelEntriesOnSTAClntDiscon(s, ip, refused) = Drop(DrvDel(s, K), K)
    BY <1>2 DEF DelEntriesOnSTAClntDiscon
  <2> HIDE DEF K
  <2> QED
    BY <2>1, <2>2, DropStep
<1> QED
  BY <1>1, <1>2

\* An entry that goes while its rule stays.
LEMMA LeaveStep ==
    ASSUME NEW s \in NatStates, Good(s), NEW c \in Used(s), s.cache[c].enabled
    PROVE  LET y == [Drop(s, {c}) EXCEPT !.left = Drop(s, {c}).left \cup {s.cache[c].hdl}] IN
             /\ Step(s, y, {}) /\ y.temp = s.temp /\ y.asleep = s.asleep
             /\ \A d \in Slots : y.cache[d] = IF d \in {c} THEN NoEntry ELSE s.cache[d]
<1> DEFINE h == s.cache[c].hdl
           x == Drop(s, {c})
           y == [x EXCEPT !.left = x.left \cup {h}]
<1>1. {c} \in SUBSET Slots /\ c \in Slots /\ c \in Enabled(s) /\ s.cache[c] \in Entries
  BY StateFacts DEF Used, Enabled
<1>2. h \in Hdls /\ h \notin s.left /\ s.live[h] # NoEntry
  <2>1. h \in Hdls \ s.left /\ s.live[h] = DrvRule(s.cache[c])
    BY <1>1 DEF Good, RulesMatch
  <2>2. DrvRule(s.cache[c]) # NoEntry
    BY <1>1, EntryFacts, SlotFacts, <2>1
  <2> QED
    BY <2>1, <2>2
<1> HIDE DEF h
<1>3. /\ x \in NatStates /\ x.cache = [d \in Slots |-> IF d \in {c} THEN NoEntry ELSE s.cache[d]]
      /\ x.curCnt = s.curCnt - Cardinality({c}) /\ x.temp = s.temp /\ x.asleep = s.asleep
      /\ x.tblHdl = s.tblHdl /\ x.pub = s.pub /\ x.tables = s.tables /\ x.left = s.left
      /\ x.live = s.live
  BY <1>1, DropFields
<1> HIDE DEF x
<1>4. x.left \cup {h} \in SUBSET Hdls
  BY <1>2, <1>3, StateFacts
<1>5. /\ y \in NatStates /\ y.cache = x.cache /\ y.curCnt = x.curCnt /\ y.temp = x.temp
      /\ y.asleep = x.asleep /\ y.tblHdl = x.tblHdl /\ y.pub = x.pub /\ y.tables = x.tables
      /\ y.live = x.live /\ y.left = x.left \cup {h}
  BY <1>3, <1>4 DEF NatStates
<1> HIDE DEF y
<1>6. \A d \in Slots : y.cache[d] = IF d \in {c} THEN NoEntry ELSE s.cache[d]
  BY <1>3, <1>5
<1>7. Enabled(y) = Enabled(s) \ {c} /\ Used(y) = Used(s) \ {c}
  BY <1>6, NoEntryType DEF Enabled, Used, SameConn
<1>8. \A d \in Enabled(y) : d \in Enabled(s) /\ d # c /\ y.cache[d] = s.cache[d]
  BY <1>6, <1>7 DEF Enabled
<1>9. RulesMatch(y)
  <2>1. \A d \in Enabled(y) : s.cache[d].hdl \in Hdls \ s.left /\ s.cache[d].hdl # h
    BY <1>1, <1>8 DEF Good, RulesMatch, h
  <2>2. \A d \in Enabled(y) : /\ y.cache[d].hdl \in Hdls \ y.left
                              /\ y.live[y.cache[d].hdl] = DrvRule(y.cache[d])
    BY <2>1, <1>3, <1>5, <1>8 DEF Good, RulesMatch
  <2>3. \A d, k \in Enabled(y) : y.cache[d].hdl = y.cache[k].hdl => d = k
    BY <1>8 DEF Good, RulesMatch
  <2>4. ASSUME NEW g \in Hdls, y.live[g] # NoEntry
        PROVE  g \in y.left \/ \E d \in Enabled(y) : y.cache[d].hdl = g
    <3>1. g \in s.left \/ \E d \in Enabled(s) : s.cache[d].hdl = g
      BY <2>4, <1>3, <1>5 DEF Good, RulesMatch
    <3> QED
      BY <3>1, <1>3, <1>5, <1>7, <1>8 DEF h
  <2>5. \A g \in y.left : y.live[g] # NoEntry
    BY <1>2, <1>3, <1>5 DEF Good, RulesMatch
  <2> QED
    BY <2>2, <2>3, <2>4, <2>5 DEF RulesMatch
<1>10. Counted(y)
  <2>1. Cardinality(Used(s) \ {c}) = Cardinality(Used(s)) - Cardinality({c})
    <3>1. IsFiniteSet(Used(s)) /\ IsFiniteSet({c})
      BY <1>1, SlotFacts DEF Used
    <3>2. Used(s) \cap {c} = {c}
      OBVIOUS
    <3> QED
      BY <3>1, <3>2, FS_Difference
  <2>2. \A d \in Used(y) : y.cache[d] = s.cache[d] /\ d \in Used(s)
    BY <1>6, <1>7 DEF Used
  <2> QED
    BY <2>1, <2>2, <1>3, <1>5, <1>7 DEF Good, Counted
<1>11. Sound(y)
  BY <1>3, <1>5, <1>7 DEF Good, Sound
<1>12. NoneGiven(s, y)
  BY <1>6, NoEntryType, KeyFacts DEF NoneGiven
<1>13. Keys(y) \subseteq Keys(s) \cup {} \cup {NoKey}
  BY <1>3, <1>5, <1>6, KeysOfSlots, KeysFrom DEF NoKey
<1>14. Step(s, y, {}) /\ y.temp = s.temp /\ y.asleep = s.asleep
  BY <1>3, <1>5, <1>9, <1>10, <1>11, <1>12, <1>13 DEF Step, Good
<1> QED
  BY <1>6, <1>14 DEF y, x, h

\* A connection that ends leaves the cache, whether or not its rule can be
\* deleted.
LEMMA DeleteEntryStep ==
    ASSUME NEW s \in NatStates, Good(s), NEW r, r.tgt # NoAddr, NEW refused
    PROVE  LET y == DeleteEntry(s, r, refused) IN
             /\ Step(s, y, {}) /\ y.temp = s.temp /\ y.asleep = s.asleep
             /\ \A c \in Slots : ~SameConn(y.cache[c], r)
<1> DEFINE hit == {c \in Slots : SameConn(s.cache[c], r)}
           c == CHOOSE x \in hit : \A y \in hit : x <= y
           y == DeleteEntry(s, r, refused)
<1>1. CASE hit = {}
  BY <1>1, StepSame DEF DeleteEntry
<1>2. CASE hit # {}
  <2>1. hit \in SUBSET Nat
    BY SlotFacts
  <2>2. c \in hit
    <3> HIDE DEF hit
    <3>1. \E x \in hit : \A z \in hit : x <= z
      BY <1>2, <2>1, LeastNat
    <3> QED
      BY <3>1
  <2>3. y = IF s.cache[c].enabled /\ ~DrvDeletes(s, c, refused)
            THEN [Drop(s, {c}) EXCEPT !.left = Drop(s, {c}).left \cup {s.cache[c].hdl}]
            ELSE Drop(DrvDel(s, {c}), {c})
    BY <1>2 DEF DeleteEntry
  <2> HIDE DEF c
  <2>4. {c} \in SUBSET Used(s)
    BY <2>2 DEF Used, SameConn, NoEntry
  <2>5. hit = {c}
    <3>1. ASSUME NEW d \in hit PROVE d = c
      <4>1. d \in Used(s) /\ SameConn(s.cache[d], s.cache[c])
        BY <2>2 DEF Used, SameConn, NoEntry
      <4> QED
        BY <4>1, <2>4 DEF Good, Counted
    <3> QED
      BY <3>1, <2>2
  <2> HIDE DEF y
  <2>6. /\ Step(s, y, {}) /\ y.temp = s.temp /\ y.asleep = s.asleep
        /\ \A d \in Slots : y.cache[d] = IF d \in {c} THEN NoEntry ELSE s.cache[d]
    <3>1. CASE s.cache[c].enabled /\ ~DrvDeletes(s, c, refused)
      BY <3>1, <2>3, <2>4, LeaveStep
    <3>2. CASE ~(s.cache[c].enabled /\ ~DrvDeletes(s, c, refused))
      BY <3>2, <2>3, <2>4, DropStep
    <3> QED
      BY <3>1, <3>2
  <2>7. \A d \in Slots : ~SameConn(y.cache[d], r)
    BY <2>5, <2>6 DEF SameConn, NoEntry
  <2> QED
    BY <2>6, <2>7 DEF y
<1> QED
  BY <1>1, <1>2

\* A slot that was not in use is counted.
LEMMA OneMore ==
    ASSUME NEW s \in NatStates, Good(s), NEW c \in Slots \ Used(s), NEW y,
           Used(y) = Used(s) \cup {c}, y.curCnt = s.curCnt + 1
    PROVE  y.curCnt = Cardinality(Used(y))
<1>1. IsFiniteSet(Used(s)) /\ Used(s) \in SUBSET Slots
  BY SlotFacts DEF Used
<1>2. Cardinality(Used(s) \cup {c}) = Cardinality(Used(s)) + 1
  BY <1>1, FS_AddElement
<1> QED
  BY <1>2 DEF Good, Counted

\* A connection that is cached without a rule.
LEMMA CacheSlotStep ==
    ASSUME NEW s \in NatStates, Good(s), NEW c \in Slots \ Used(s), NEW e \in Entries,
           ~e.enabled, ~SameConn(e, NoEntry), \A d \in Slots : ~SameConn(s.cache[d], e),
           NEW y \in NatStates, y.cache = [s.cache EXCEPT ![c] = e], y.live = s.live,
           y.curCnt = s.curCnt + 1, y.tblHdl = s.tblHdl, y.tables = s.tables /\ y.left = s.left,
           y.pub = s.pub, y.temp = s.temp
    PROVE  Step(s, y, {KeyOf(e)})
<1>1. y.cache[c] = e /\ \A d \in Slots : d # c => y.cache[d] = s.cache[d]
  BY StateFacts
<1>2. c \notin Enabled(s)
  BY DEF Good, Sound
<1>3. Enabled(y) = Enabled(s)
  BY <1>1, <1>2 DEF Enabled
<1>4. Used(y) = Used(s) \cup {c}
  BY <1>1 DEF Used
<1>5. \A i, j \in Used(y) : SameConn(y.cache[i], y.cache[j]) => i = j
  <2>1. ASSUME NEW i \in Used(s) PROVE ~SameConn(y.cache[i], e) /\ ~SameConn(e, y.cache[i])
    <3>1. y.cache[i] = s.cache[i] /\ ~SameConn(s.cache[i], e)
      BY <1>1 DEF Used
    <3> QED
      BY <3>1 DEF SameConn
  <2> QED
    BY <2>1, <1>1, <1>4 DEF Good, Counted, Used
<1>6. Counted(y)
  BY <1>4, <1>5, OneMore DEF Counted
<1>7. RulesMatch(y)
  <2>1. \A d \in Enabled(s) : y.cache[d] = s.cache[d]
    BY <1>1, <1>2 DEF Enabled
  <2> QED
    BY <2>1, <1>3 DEF Good, RulesMatch
<1>8. Sound(y)
  BY <1>3, <1>4 DEF Good, Sound
<1>9. NoneGiven(s, y)
  BY <1>1, KeyFacts DEF NoneGiven
<1>10. Keys(y) \subseteq Keys(s) \cup {KeyOf(e)} \cup {NoKey}
  <2>1. \A d \in Slots : KeyOf(y.cache[d]) \in Keys(s) \cup {KeyOf(e)} \cup {NoKey}
    BY <1>1, KeysOfSlots
  <2>2. \A t \in TempSlots : KeyOf(y.temp[t]) \in Keys(s) \cup {KeyOf(e)} \cup {NoKey}
    BY KeysOfSlots
  <2> QED
    BY <2>1, <2>2, KeysFrom
<1> QED
  BY <1>6, <1>7, <1>8, <1>9, <1>10 DEF Step, Good

\* What AddEntry copies of a rule.
LEMMA CachedFacts ==
    ASSUME NEW r \in Entries
    PROVE  /\ Cached(r) \in Entries /\ ~Cached(r).enabled /\ KeyOf(Cached(r)) = KeyOf(r)
           /\ [r EXCEPT !.enabled = FALSE, !.hdl = 0] \in Entries
           /\ ~[r EXCEPT !.enabled = FALSE, !.hdl = 0].enabled
           /\ KeyOf([r EXCEPT !.enabled = FALSE, !.hdl = 0]) = KeyOf(r)
<1>1. 0 \in 0 .. MaxRules /\ NoAddr \in Addrs
  BY NatAppAssumption
<1>2. Cached(r) \in Entries
  BY <1>1, Zenon DEF Cached, Entries
<1>3. ~Cached(r).enabled /\ KeyOf(Cached(r)) = KeyOf(r)
  BY DEF Cached, Entries, KeyOf
<1> QED
  BY <1>2, <1>3, DisabledEntry

\* A connection is entered without a duplicate, with a rule only if neither
\* end sleeps.
LEMMA AddEntryStep ==
    ASSUME NEW s \in NatStates, Good(s), NEW r \in Entries, NEW refused
    PROVE  LET y == AddEntry(s, r, refused) IN
             Step(s, y, {KeyOf(r)}) /\ y.temp = s.temp /\ y.asleep = s.asleep
<1> DEFINE c == FreeSlot(s)
           e == Cached(r)
           y == AddEntry(s, r, refused)
<1>1. CASE ~Added(s, r, refused)
  BY <1>1, StepSame DEF AddEntry
<1>2. CASE Added(s, r, refused)
  <2>1. c \in Slots \ Used(s)
    BY <1>2, FreeSlotFree DEF Added, Placeable
  <2>2. e \in Entries /\ ~e.enabled /\ KeyOf(e) = KeyOf(r) /\ SameConn(e, r) /\ e.priv = r.priv
    BY CachedFacts, KeyFacts
  <2>3. ~SameConn(r, NoEntry) /\ \A d \in Slots : ~SameConn(s.cache[d], r)
    BY <1>2 DEF Added, Placeable, ChkForDup, Invalid, SameConn, NoEntry
  <2>4. ~SameConn(e, NoEntry) /\ \A d \in Slots : ~SameConn(s.cache[d], e)
    BY <2>2, <2>3, KeyFacts
  <2>5. s.curCnt + 1 \in Int
    BY StateFacts
  <2>6. CASE Awake(s, r)
    <3> DEFINE x == Insert(s, c, e)
    <3>1. TblHdlOk(s) /\ FreeHdls(s) # {}
      BY <1>2, <2>6 DEF Added, DrvAccepts
    <3>2. /\ x \in NatStates
          /\ x.cache = [s.cache EXCEPT ![c] = [e EXCEPT !.enabled = TRUE, !.hdl = DrvHdl(s)]]
          /\ x.temp = s.temp /\ x.asleep = s.asleep /\ x.tblHdl = s.tblHdl
          /\ x.pub = s.pub /\ x.curCnt = s.curCnt /\ x.tables = s.tables /\ x.left = s.left
      BY <2>1, <2>2, <3>1, InsertFields
    <3>3. ~s.cache[c].enabled
      BY <2>1 DEF Good, Sound, Enabled
    <3>4. /\ RulesMatch(x) /\ Sound(x) /\ Used(x) = Used(s) \cup {c}
          /\ \A i, j \in Used(x) : SameConn(x.cache[i], x.cache[j]) => i = j
      <4>1. \A d \in Used(s) : SameConn(s.cache[d], e) => d = c
        BY <2>4 DEF Used
      <4> QED
        BY <2>1, <2>2, <2>4, <3>1, <3>3, <4>1, InsertGood
    <3>5. y = [x EXCEPT !.curCnt = x.curCnt + 1]
      BY <1>2, <2>6 DEF AddEntry
    <3> HIDE DEF x, y
    <3>6. /\ y \in NatStates /\ y.cache = x.cache /\ y.temp = s.temp /\ y.asleep = s.asleep
          /\ y.tblHdl = x.tblHdl /\ y.pub = x.pub /\ y.curCnt = s.curCnt + 1
          /\ y.tables = x.tables /\ y.left = x.left /\ y.live = x.live
      BY <2>5, <3>2, <3>5 DEF NatStates
    <3>7. Used(y) = Used(x) /\ Enabled(y) = Enabled(x)
      BY <3>6 DEF Used, Enabled
    <3>8. Good(y)
      <4>1. Counted(y)
        BY <2>1, <3>4, <3>6, <3>7, OneMore DEF Counted
      <4>2. RulesMatch(y) /\ Sound(y)
        BY <3>4, <3>6, <3>7 DEF RulesMatch, Sound
      <4> QED
        BY <4>1, <4>2 DEF Good
    <3>9. \A d \in Slots : d # c => y.cache[d] = s.cache[d]
      BY <3>2, <3>6, StateFacts
    <3>10. KeyOf(y.cache[c]) = KeyOf(e) /\ y.cache[c].priv = r.priv
      <4>1. y.cache[c] = [e EXCEPT !.enabled = TRUE, !.hdl = DrvHdl(s)]
        BY <2>1, <3>2, <3>6, StateFacts
      <4> HIDE DEF e
      <4> QED
        BY <4>1, <2>2 DEF KeyOf, Entries
    <3>11. NoneGiven(s, y)
      <4>1. r.priv \notin s.asleep
        BY <2>6 DEF Awake
      <4> QED
        BY <4>1, <3>9, <3>10, KeyFacts DEF NoneGiven
    <3>12. Keys(y) \subseteq Keys(s) \cup {KeyOf(r)} \cup {NoKey}
      <4>1. \A d \in Slots : KeyOf(y.cache[d]) \in Keys(s) \cup {KeyOf(r)} \cup {NoKey}
        BY <2>2, <3>9, <3>10, KeysOfSlots
      <4>2. \A t \in TempSlots : KeyOf(y.temp[t]) \in Keys(s) \cup {KeyOf(r)} \cup {NoKey}
        BY <3>6, KeysOfSlots
      <4> QED
        BY <4>1, <4>2, KeysFrom
    <3> QED
      BY <3>2, <3>6, <3>8, <3>11, <3>12 DEF Step, y
  <2>7. CASE ~Awake(s, r)
    <3>1. y = [[s EXCEPT !.cache[c] = e] EXCEPT !.curCnt = s.curCnt + 1]
      BY <1>2, <2>7, StateFacts DEF AddEntry, NatStates
    <3>2. [s.cache EXCEPT ![c] = e] \in [Slots -> Entries]
      BY <2>1, <2>2, StateFacts
    <3> HIDE DEF c, e, y
    <3>3. /\ y \in NatStates /\ y.cache = [s.cache EXCEPT ![c] = e] /\ y.live = s.live
          /\ y.curCnt = s.curCnt + 1 /\ y.tblHdl = s.tblHdl /\ y.tables = s.tables /\ y.left = s.left
          /\ y.pub = s.pub /\ y.temp = s.temp /\ y.asleep = s.asleep
      BY <2>5, <3>1, <3>2, StateFacts DEF NatStates
    <3>4. Step(s, y, {KeyOf(e)})
      BY <2>1, <2>2, <2>4, <3>3, CacheSlotStep
    <3> QED
      BY <2>2, <3>3, <3>4 DEF y
  <2> QED
    BY <2>6, <2>7
<1> QED
  BY <1>1, <1>2

\* The same while the WAN is down.
LEMMA CacheEntryStep ==
    ASSUME NEW s \in NatStates, Good(s), NEW r \in Entries
    PROVE  LET y == CacheEntry(s, r) IN
             Step(s, y, {KeyOf(r)}) /\ y.temp = s.temp /\ y.asleep = s.asleep
<1> DEFINE c == FreeSlot(s)
           e == [r EXCEPT !.enabled = FALSE, !.hdl = 0]
           y == CacheEntry(s, r)
<1>1. CASE Invalid(r) \/ ~Placeable(s, r)
  BY <1>1, StepSame DEF CacheEntry
<1>2. CASE ~(Invalid(r) \/ ~Placeable(s, r))
  <2>1. c \in Slots \ Used(s)
    BY <1>2, FreeSlotFree DEF Placeable
  <2>2. e \in Entries /\ ~e.enabled /\ KeyOf(e) = KeyOf(r) /\ SameConn(e, r)
    BY CachedFacts, KeyFacts
  <2>3. ~SameConn(r, NoEntry) /\ \A d \in Slots : ~SameConn(s.cache[d], r)
    BY <1>2 DEF Placeable, ChkForDup, Invalid, SameConn, NoEntry
  <2>4. ~SameConn(e, NoEntry) /\ \A d \in Slots : ~SameConn(s.cache[d], e)
    BY <2>2, <2>3, KeyFacts
  <2>5. s.curCnt + 1 \in Int
    BY StateFacts
  <2>6. y = [s EXCEPT !.cache[c] = e, !.curCnt = s.curCnt + 1]
    BY <1>2 DEF CacheEntry
  <2>7. [s.cache EXCEPT ![c] = e] \in [Slots -> Entries]
    BY <2>1, <2>2, StateFacts
  <2> HIDE DEF c, e, y
  <2>8. /\ y \in NatStates /\ y.cache = [s.cache EXCEPT ![c] = e] /\ y.live = s.live
        /\ y.curCnt = s.curCnt + 1 /\ y.tblHdl = s.tblHdl /\ y.tables = s.tables /\ y.left = s.left
        /\ y.pub = s.pub /\ y.temp = s.temp /\ y.asleep = s.asleep
    BY <2>5, <2>6, <2>7, StateFacts DEF NatStates
  <2>9. Step(s, y, {KeyOf(e)})
    BY <2>1, <2>2, <2>4, <2>8, CacheSlotStep
  <2> QED
    BY <2>2, <2>8, <2>9 DEF y
<1> QED
  BY <1>1, <1>2
\* A slot after a loop is the same connection or is free.
LEMMA OutcomeKey ==
    ASSUME NEW s \in NatStates, NEW y, NEW c \in Slots, SlotOutcome(s, y, c)
    PROVE  KeyOf(y.cache[c]) = KeyOf(s.cache[c]) \/ y.cache[c] = NoEntry
<1> DEFINE e == s.cache[c]
<1>1. e \in Entries
  BY StateFacts
<1> HIDE DEF e
<1>2. \A h : KeyOf([e EXCEPT !.enabled = TRUE, !.hdl = h]) = KeyOf(e)
  BY <1>1 DEF Entries, KeyOf
<1> QED
  BY <1>2 DEF SlotOutcome, e

\* A client that wakes gets its rules back, as far as the driver takes them.
LEMMA ResetPwrSaveIfStep ==
    ASSUME NEW s \in NatStates, Good(s), NEW ip \in Addrs, NEW refused
    PROVE  LET y == ResetPwrSaveIf(s, ip, refused) IN
             Step(s, y, {}) /\ y.temp = s.temp /\ y.asleep \subseteq s.asleep
<1> DEFINE x == [s EXCEPT !.asleep = s.asleep \ {ip}]
           K == {c \in Slots : s.cache[c].priv = ip /\ ~s.cache[c].enabled}
           y == RestoreSlots(x, K, refused)
<1>1. CASE ip = NoAddr
  BY <1>1, StepSame DEF ResetPwrSaveIf
<1>2. CASE ip # NoAddr
  <2>1. ResetPwrSaveIf(s, ip, refused) = y
    BY <1>2 DEF ResetPwrSaveIf
  <2>2. /\ x \in NatStates /\ x.cache = s.cache /\ x.live = s.live /\ x.temp = s.temp
        /\ x.curCnt = s.curCnt /\ x.tblHdl = s.tblHdl /\ x.tables = s.tables
        /\ x.left = s.left /\ x.pub = s.pub /\ x.asleep = s.asleep \ {ip}
    <3>1. s.asleep \ {ip} \in SUBSET Addrs
      BY StateFacts
    <3> QED
      BY <3>1 DEF NatStates
  <2> HIDE DEF x
  <2>3. Enabled(x) = Enabled(s) /\ Used(x) = Used(s)
    BY <2>2 DEF Enabled, Used
  <2>4. Good(x)
    BY <2>2, <2>3 DEF Good, RulesMatch, Counted, Sound
  <2>5. \A c \in K : c \in Used(x) /\ ~x.cache[c].enabled
    BY <1>2, <2>2 DEF Used, SameConn, NoEntry
  <2>6. K \in SUBSET Slots
    OBVIOUS
  <2>7. /\ y \in NatStates /\ SameBut(x, y) /\ Good(y)
        /\ \A c \in Slots \ K : y.cache[c] = x.cache[c]
        /\ \A c \in K : SlotOutcome(x, y, c)
    <3> HIDE DEF K
    <3> QED
      BY <2>2, <2>4, <2>5, <2>6, RestoreSlotsGood
  <2> HIDE DEF y
  <2>8. \A c \in Slots : KeyOf(y.cache[c]) = KeyOf(s.cache[c]) \/ y.cache[c] = NoEntry
    <3>1. \A c \in Slots : SlotOutcome(x, y, c)
      <4> HIDE DEF K
      <4> QED
        BY <2>7 DEF SlotOutcome
    <3> QED
      BY <2>2, <3>1, OutcomeKey
  <2>9. NoneGiven(s, y)
    <3> SUFFICES ASSUME NEW c \in Slots, y.cache[c].enabled, y.cache[c].priv \in s.asleep \cap y.asleep
                 PROVE  s.cache[c].enabled /\ SameConn(s.cache[c], y.cache[c])
      BY DEF NoneGiven
    <3>1. KeyOf(y.cache[c]) = KeyOf(s.cache[c])
      BY <2>8, NoEntryType
    <3>2. y.cache[c].priv = s.cache[c].priv /\ SameConn(s.cache[c], y.cache[c])
      BY <3>1, KeyFacts
    <3>3. y.cache[c].priv # ip
      BY <2>2, <2>7 DEF SameBut
    <3>4. y.cache[c] = s.cache[c]
      BY <3>2, <3>3, <2>2, <2>7
    <3> QED
      BY <3>2, <3>4
  <2>10. Keys(y) \subseteq Keys(s) \cup {} \cup {NoKey}
    <3>1. \A c \in Slots : KeyOf(y.cache[c]) \in Keys(s) \cup {} \cup {NoKey}
      BY <2>8, KeysOfSlots DEF NoKey
    <3>2. \A t \in TempSlots : KeyOf(y.temp[t]) \in Keys(s) \cup {} \cup {NoKey}
      BY <2>2, <2>7, KeysOfSlots DEF SameBut
    <3> QED
      BY <3>1, <3>2, KeysFrom
  <2>11. Step(s, y, {})
    BY <2>2, <2>7, <2>9, <2>10 DEF Step, SameBut
  <2> QED
    BY <2>1, <2>2, <2>7, <2>11 DEF SameBut
<1> QED
  BY <1>1, <1>2

\* The WAN comes up: cached connections get rules or are given up.
LEMMA AddTableGood ==
    ASSUME NEW s \in NatStates, Good(s), s.tables = 0, NEW pubIp \in Addrs,
           NEW added \in BOOLEAN, NEW refused
    PROVE  LET y == AddTable(s, pubIp, added, refused) IN
             /\ y \in NatStates /\ Good(y) /\ y.temp = s.temp /\ y.asleep = s.asleep
             /\ y.tables = 0 \/ y.pub = pubIp
             /\ Keys(y) \subseteq Keys(s) \cup {NoKey}
<1> DEFINE live == [h \in Hdls |-> NoEntry]
           t == [s EXCEPT !.tblHdl = s.tables + 1, !.tables = s.tables + 1,
                          !.live = IF s.tables = 0 THEN live ELSE s.live,
                          !.left = IF s.tables = 0 THEN {} ELSE s.left]
           K == {c \in Slots : s.cache[c].priv # NoAddr}
           u == IF pubIp = s.pubPre THEN RestoreSlots(t, K, refused) ELSE t
           y == AddTable(s, pubIp, added, refused)
<1>0. s.tblHdl = 0 /\ Enabled(s) = {}
  BY DEF Good, Sound
<1>1. CASE ~added
  <2>1. y = [s EXCEPT !.tblHdl = 0]
    BY <1>1 DEF AddTable
  <2>2. [s EXCEPT !.tblHdl = 0] = s
    BY <1>0 DEF NatStates
  <2> QED
    BY <2>1, <2>2
<1>2. CASE added
  <2>1. y = [u EXCEPT !.pub = pubIp]
    BY <1>2 DEF AddTable
  <2>2. live \in [Hdls -> Entries]
    BY NoEntryType
  <2>3. /\ t \in NatStates /\ t.cache = s.cache /\ t.live = live /\ t.temp = s.temp
        /\ t.curCnt = s.curCnt /\ t.tblHdl = 1 /\ t.tables = 1 /\ t.asleep = s.asleep
        /\ t.left = {}
    <3>1. s.tables + 1 = 1 /\ s.tables + 1 \in Nat
      BY StateFacts
    <3> HIDE DEF live
    <3>2. t = [s EXCEPT !.tblHdl = 1, !.tables = 1, !.live = live, !.left = {}]
      BY <3>1
    <3> HIDE DEF t
    <3> QED
      BY <2>2, <3>2 DEF NatStates
  <2> HIDE DEF t
  <2>4. Enabled(t) = {} /\ Used(t) = Used(s)
    BY <1>0, <2>3 DEF Enabled, Used
  <2>5. Good(t)
    BY <2>3, <2>4 DEF Good, RulesMatch, Counted, Sound
  <2>6. \A c \in K : c \in Used(t) /\ ~t.cache[c].enabled
    BY <2>3, <2>4 DEF Used, SameConn, NoEntry, Enabled
  <2>7. K \in SUBSET Slots
    OBVIOUS
  <2>8. /\ u \in NatStates /\ SameBut(t, u) /\ Good(u)
        /\ \A c \in Slots : SlotOutcome(t, u, c)
    <3>1. CASE pubIp = s.pubPre
      <4> DEFINE w == RestoreSlots(t, K, refused)
      <4>1. /\ w \in NatStates /\ SameBut(t, w) /\ Good(w)
            /\ \A c \in Slots \ K : w.cache[c] = t.cache[c]
            /\ \A c \in K : SlotOutcome(t, w, c)
        <5> HIDE DEF K
        <5> QED
          BY <2>3, <2>5, <2>6, <2>7, RestoreSlotsGood
      <4>2. u = w
        BY <3>1
      <4> HIDE DEF w, u, K
      <4>3. \A c \in Slots : SlotOutcome(t, w, c)
        BY <4>1 DEF SlotOutcome
      <4> QED
        BY <4>1, <4>2, <4>3
    <3>2. CASE pubIp # s.pubPre
      <4>1. u = t
        BY <3>2
      <4> HIDE DEF u
      <4> QED
        BY <4>1, <2>3, <2>5 DEF SameBut, SlotOutcome
    <3> QED
      BY <3>1, <3>2
  <2> HIDE DEF u, y
  <2>9. /\ y \in NatStates /\ y.cache = u.cache /\ y.live = u.live /\ y.temp = u.temp
        /\ y.curCnt = u.curCnt /\ y.tblHdl = u.tblHdl /\ y.tables = u.tables /\ y.left = u.left
        /\ y.asleep = u.asleep /\ y.pub = pubIp
    BY <2>1, <2>8 DEF NatStates
  <2>10. Enabled(y) = Enabled(u) /\ Used(y) = Used(u)
    BY <2>9 DEF Enabled, Used
  <2>11. Good(y)
    BY <2>8, <2>9, <2>10 DEF Good, RulesMatch, Counted, Sound
  <2>12. \A c \in Slots : KeyOf(y.cache[c]) = KeyOf(s.cache[c]) \/ y.cache[c] = NoEntry
    BY <2>3, <2>8, <2>9, OutcomeKey
  <2>13. Keys(y) \subseteq Keys(s) \cup {} \cup {NoKey}
    <3>1. \A c \in Slots : KeyOf(y.cache[c]) \in Keys(s) \cup {} \cup {NoKey}
      BY <2>12, KeysOfSlots DEF NoKey
    <3>2. \A k \in TempSlots : KeyOf(y.temp[k]) \in Keys(s) \cup {} \cup {NoKey}
      BY <2>3, <2>8, <2>9, KeysOfSlots DEF SameBut
    <3> QED
      BY <3>1, <3>2, KeysFrom
  <2> QED
    BY <2>3, <2>8, <2>9, <2>11, <2>13 DEF SameBut, y
<1> QED
  BY <1>1, <1>2

\* The WAN goes down: the table and all rules go, the connections stay.
LEMMA DeleteTableGood ==
    ASSUME NEW s \in NatStates, Good(s), NEW pubIp \in Addrs
    PROVE  LET y == DeleteTable(s, pubIp) IN
             /\ y \in NatStates /\ Good(y) /\ y.temp = s.temp /\ y.asleep = s.asleep
             /\ s.pub = pubIp \/ s.tables = 0 => y.tables = 0
             /\ Keys(y) \subseteq Keys(s) \cup {NoKey}
<1> DEFINE y == DeleteTable(s, pubIp)
<1>1. CASE s.tblHdl = 0 \/ s.pub # pubIp
  <2>1. y = s
    BY <1>1 DEF DeleteTable
  <2> HIDE DEF y
  <2>2. s.tables = s.tblHdl
    BY DEF Good, Sound
  <2> QED
    BY <1>1, <2>1, <2>2 DEF y
<1>2. CASE ~(s.tblHdl = 0 \/ s.pub # pubIp)
  <2> DEFINE live == [h \in Hdls |-> NoEntry]
             d(c) == [s.cache[c] EXCEPT !.enabled = FALSE]
             cache == [c \in Slots |-> d(c)]
             x == [s EXCEPT !.tables = s.tables - 1, !.live = live, !.left = {},
                            !.pubPre = s.pub]
  <2>1. s.tables = 1
    BY <1>2 DEF Good, Sound
  <2>2. live \in [Hdls -> Entries]
    BY NoEntryType
  <2>3. \A c \in Slots : d(c) \in Entries /\ ~d(c).enabled /\ KeyOf(d(c)) = KeyOf(s.cache[c])
    BY StateFacts, DisabledEntry
  <2> HIDE DEF live
  <2>4. /\ x \in NatStates /\ x.cache = s.cache /\ x.live = live /\ x.temp = s.temp
        /\ x.asleep = s.asleep /\ x.curCnt = s.curCnt /\ x.tables = 0 /\ x.left = {}
    <3>1. s.tables - 1 = 0
      BY <2>1
    <3>2. x = [s EXCEPT !.tables = 0, !.live = live, !.left = {}, !.pubPre = s.pub]
      BY <3>1
    <3>3. s.pub \in Addrs
      BY StateFacts
    <3> HIDE DEF x
    <3> QED
      BY <2>2, <3>2, <3>3 DEF NatStates
  <2>5. y = Reset(x)
    BY <1>2 DEF DeleteTable, live
  <2> HIDE DEF x, y
  <2>6. y = [x EXCEPT !.tblHdl = 0, !.pub = NoAddr, !.cache = cache]
    BY <2>4, <2>5 DEF Reset
  <2> HIDE DEF d
  <2>7. cache \in [Slots -> Entries] /\ NoAddr \in Addrs
    BY <2>3, NatAppAssumption
  <2>8. /\ y \in NatStates /\ y.cache = cache /\ y.live = live /\ y.temp = s.temp
        /\ y.asleep = s.asleep /\ y.curCnt = s.curCnt /\ y.tables = 0 /\ y.tblHdl = 0
        /\ y.left = {}
    <3> HIDE DEF cache
    <3> QED
      BY <2>4, <2>6, <2>7 DEF NatStates
  <2>9. \A c \in Slots : y.cache[c] = d(c)
    BY <2>8
  <2>10. Enabled(y) = {}
    BY <2>3, <2>9 DEF Enabled
  <2>11. \A c \in Slots : SameConn(y.cache[c], s.cache[c])
    BY <2>3, <2>9, KeyFacts
  <2>12. Used(y) = Used(s)
    BY <2>11 DEF Used, SameConn
  <2>13. Counted(y)
    <3> SUFFICES ASSUME NEW i \in Used(s), NEW j \in Used(s), SameConn(y.cache[i], y.cache[j])
                 PROVE  i = j
      BY <2>8, <2>12 DEF Good, Counted
    <3>1. SameConn(s.cache[i], s.cache[j])
      BY <2>11 DEF SameConn, Used
    <3> QED
      BY <3>1 DEF Good, Counted
  <2>14. Good(y)
    BY <2>8, <2>10, <2>13 DEF Good, RulesMatch, Sound, live
  <2>15. Keys(y) \subseteq Keys(s) \cup {} \cup {NoKey}
    <3>1. \A c \in Slots : KeyOf(y.cache[c]) \in Keys(s) \cup {} \cup {NoKey}
      BY <2>3, <2>9, KeysOfSlots
    <3>2. \A t \in TempSlots : KeyOf(y.temp[t]) \in Keys(s) \cup {} \cup {NoKey}
      BY <2>8, KeysOfSlots
    <3> QED
      BY <3>1, <3>2, KeysFrom
  <2> QED
    BY <2>8, <2>14, <2>15 DEF y
<1> QED
  BY <1>1, <1>2
-----------------------------------------------------------------------------
(* Temporary entries. *)

\* A method that writes temporary entries only.
LEMMA TempStep ==
    ASSUME NEW s \in NatStates, Good(s), NEW temp \in [TempSlots -> Entries], NEW new,
           \A t \in TempSlots : KeyOf(temp[t]) \in Keys(s) \cup new \cup {NoKey}
    PROVE  LET y == [s EXCEPT !.temp = temp] IN
             Step(s, y, new) /\ y.temp = temp /\ y.cache = s.cache /\ y.asleep = s.asleep
<1> DEFINE y == [s EXCEPT !.temp = temp]
<1>1. /\ y \in NatStates /\ y.temp = temp /\ y.cache = s.cache /\ y.asleep = s.asleep
      /\ y.live = s.live /\ y.curCnt = s.curCnt /\ y.tblHdl = s.tblHdl
      /\ y.tables = s.tables /\ y.left = s.left /\ y.pub = s.pub
  BY DEF NatStates
<1> HIDE DEF y
<1>2. Enabled(y) = Enabled(s) /\ Used(y) = Used(s)
  BY <1>1 DEF Enabled, Used
<1>3. Good(y)
  BY <1>1, <1>2 DEF Good, RulesMatch, Counted, Sound
<1>4. NoneGiven(s, y)
  BY <1>1, KeyFacts DEF NoneGiven
<1>5. \A c \in Slots : KeyOf(y.cache[c]) \in Keys(s) \cup new \cup {NoKey}
  BY <1>1, KeysOfSlots
<1>6. Keys(y) \subseteq Keys(s) \cup new \cup {NoKey}
  BY <1>1, <1>5, KeysFrom
<1> QED
  BY <1>1, <1>3, <1>4, <1>6 DEF Step, y

\* The connection that ends is forgotten.
LEMMA DeleteTempEntryStep ==
    ASSUME NEW s \in NatStates, Good(s), NEW r
    PROVE  LET y == DeleteTempEntry(s, r) IN
             /\ Step(s, y, {}) /\ y.asleep = s.asleep /\ y.cache = s.cache
             /\ \/ y.temp = s.temp /\ \A t \in TempSlots : ~SameConn(s.temp[t], r)
                \/ \E t \in TempSlots : /\ SameConn(s.temp[t], r)
                                        /\ y.temp = [s.temp EXCEPT ![t] = NoEntry]
<1> DEFINE hit == {t \in TempSlots : SameConn(s.temp[t], r)}
           y == DeleteTempEntry(s, r)
<1>1. CASE hit = {}
  BY <1>1, StepSame DEF DeleteTempEntry
<1>2. CASE hit # {}
  <2> DEFINE t == CHOOSE x \in hit : \A u \in hit : x <= u
             temp == [s.temp EXCEPT ![t] = NoEntry]
  <2>1. hit \in SUBSET Nat
    BY SlotFacts
  <2>2. t \in hit
    <3> HIDE DEF hit
    <3>1. \E x \in hit : \A u \in hit : x <= u
      BY <1>2, <2>1, LeastNat
    <3> QED
      BY <3>1
  <2>3. y = [s EXCEPT !.temp = temp]
    BY <1>2 DEF DeleteTempEntry
  <2> HIDE DEF t, y
  <2>4. temp \in [TempSlots -> Entries]
    BY StateFacts, NoEntryType
  <2>5. \A u \in TempSlots : KeyOf(temp[u]) \in Keys(s) \cup {} \cup {NoKey}
    BY <2>2, StateFacts, KeysOfSlots DEF NoKey
  <2> HIDE DEF temp
  <2>6. Step(s, y, {}) /\ y.temp = temp /\ y.cache = s.cache /\ y.asleep = s.asleep
    BY <2>3, <2>4, <2>5, TempStep
  <2> QED
    BY <2>2, <2>6 DEF temp, y
<1> QED
  BY <1>1, <1>2

\* A connection whose interface is not known yet waits, once.
LEMMA AddTempEntryStep ==
    ASSUME NEW s \in NatStates, Good(s), NEW r \in Entries
    PROVE  LET y == AddTempEntry(s, r) IN
             /\ Step(s, y, {KeyOf(r)}) /\ y.asleep = s.asleep
             /\ \/ y.temp = s.temp
                \/ /\ \A t \in TempSlots : ~SameConn(s.temp[t], r)
                   /\ \E t \in TempSlots : y.temp = [s.temp EXCEPT ![t] = r]
<1> DEFINE free == {t \in TempSlots : s.temp[t].priv = NoAddr /\ s.temp[t].tgt = NoAddr}
           no == \/ IsAlg(r) \/ ChkForDup(s, r)
                 \/ \E t \in TempSlots : SameConn(s.temp[t], r)
                 \/ free = {}
           y == AddTempEntry(s, r)
<1>1. CASE no
  <2>1. y = s
    BY <1>1 DEF AddTempEntry
  <2> HIDE DEF y, no
  <2> QED
    BY <2>1, StepSame DEF y
<1>2. CASE ~no
  <2> DEFINE t == CHOOSE x \in free : \A u \in free : x <= u
             temp == [s.temp EXCEPT ![t] = r]
  <2>1. free \in SUBSET Nat /\ free # {}
    BY <1>2, SlotFacts
  <2>2. t \in free
    <3> HIDE DEF free, no
    <3>1. \E x \in free : \A u \in free : x <= u
      BY <2>1, LeastNat
    <3> QED
      BY <3>1
  <2>3. y = [s EXCEPT !.temp = temp]
    BY <1>2 DEF AddTempEntry
  <2> HIDE DEF t, y
  <2>4. temp \in [TempSlots -> Entries]
    BY StateFacts
  <2>5. \A u \in TempSlots : KeyOf(temp[u]) \in Keys(s) \cup {KeyOf(r)} \cup {NoKey}
    BY <2>2, StateFacts, KeysOfSlots
  <2> HIDE DEF temp
  <2>6. Step(s, y, {KeyOf(r)}) /\ y.temp = temp /\ y.asleep = s.asleep
    BY <2>3, <2>4, <2>5, TempStep
  <2> QED
    BY <1>2, <2>2, <2>6 DEF temp, y
<1> QED
  BY <1>1, <1>2

\* The rule that flushing a temporary entry makes of it.
FlushRule(e, isDummy) == IF isDummy THEN Dummy(e) ELSE e

\* One round of FlushTempEntries for a client that has come.
LEMMA FlushAddStep ==
    ASSUME NEW s \in NatStates, Good(s), NEW t \in TempSlots, NEW isDummy \in BOOLEAN, NEW refused
    PROVE  LET y == FlushAdd(s, t, isDummy, refused)
               r == FlushRule(s.temp[t], isDummy)
           IN /\ Step(s, y, {KeyOf(r)}) /\ y.asleep = s.asleep
              /\ \A u \in TempSlots : u # t => y.temp[u] = s.temp[u]
              /\ y.temp[t] \in {NoEntry, r}
<1> DEFINE y == FlushAdd(s, t, isDummy, refused)
           e == s.temp[t]
           r == FlushRule(e, isDummy)
           Write(v) == [s.temp EXCEPT ![t] = v]
<1>1. e \in Entries /\ s.temp \in [TempSlots -> Entries]
  BY StateFacts
<1>2. Dummy(e) \in Entries
  <2> HIDE DEF e
  <2> QED
    BY <1>1, Zenon DEF Dummy, Entries
<1>3. r \in Entries
  BY <1>1, <1>2 DEF FlushRule
<1> HIDE DEF r
<1>4. ASSUME NEW v \in {NoEntry, r}
      PROVE  /\ Write(v) \in [TempSlots -> Entries]
             /\ \A u \in TempSlots : u # t => Write(v)[u] = s.temp[u]
             /\ Write(v)[t] = v
             /\ \A u \in TempSlots : KeyOf(Write(v)[u]) \in Keys(s) \cup {KeyOf(r)} \cup {NoKey}
  <2>1. /\ Write(v) \in [TempSlots -> Entries]
        /\ \A u \in TempSlots : u # t => Write(v)[u] = s.temp[u]
        /\ Write(v)[t] = v
    BY <1>1, <1>3, NoEntryType
  <2> QED
    BY <2>1, KeysOfSlots DEF NoKey
<1>5. ASSUME NEW v \in {NoEntry, r}, y = [s EXCEPT !.temp = Write(v)]
      PROVE  /\ Step(s, y, {KeyOf(r)}) /\ y.asleep = s.asleep /\ y.temp = Write(v)
    <2> HIDE DEF Write, y
    <2> QED
      BY <1>4, <1>5, TempStep
<1>6. CASE e.pub # s.pub
  <2>1. y = [s EXCEPT !.temp = Write(NoEntry)]
    BY <1>6 DEF FlushAdd
  <2> QED
    BY <2>1, <1>4, <1>5 DEF r
<1>7. CASE e.pub = s.pub /\ AddFails(s, r, refused)
  <2>1. y = [s EXCEPT !.temp = Write(r)]
    BY <1>7 DEF FlushAdd, FlushRule, r
  <2> QED
    BY <2>1, <1>4, <1>5 DEF r
<1>8. CASE e.pub = s.pub /\ ~AddFails(s, r, refused)
  <2> DEFINE x == AddEntry(s, r, refused)
  <2>1. y = [x EXCEPT !.temp[t] = NoEntry]
    BY <1>8 DEF FlushAdd, FlushRule, r
  <2>2. Step(s, x, {KeyOf(r)}) /\ x.temp = s.temp /\ x.asleep = s.asleep
    BY <1>3, AddEntryStep
  <2>3. x \in NatStates /\ Good(x)
    BY <2>2 DEF Step
  <2> HIDE DEF x
  <2>4. y = [x EXCEPT !.temp = Write(NoEntry)]
    BY <2>1, <2>2
  <2>5. \A u \in TempSlots : KeyOf(Write(NoEntry)[u]) \in Keys(x) \cup {KeyOf(r)} \cup {NoKey}
    <3>1. \A u \in TempSlots : Write(NoEntry)[u] \in {NoEntry, x.temp[u]}
      BY <1>4, <2>2
    <3> QED
      BY <3>1, KeysOfSlots DEF NoKey
  <2> HIDE DEF y
  <2>6. Step(x, y, {KeyOf(r)}) /\ y.temp = Write(NoEntry) /\ y.asleep = x.asleep
    <3>1. Write(NoEntry) \in [TempSlots -> Entries]
      BY <1>4
    <3> HIDE DEF Write
    <3> QED
      BY <2>3, <2>4, <2>5, <3>1, TempStep
  <2>7. Step(s, y, {KeyOf(r)})
    BY <2>2, <2>6, StepTrans
  <2> QED
    BY <2>2, <2>6, <2>7, <1>4 DEF r, y
<1> QED
  BY <1>6, <1>7, <1>8
\* What becomes of a temporary entry: it stays, goes, or stays rewritten.
TempOutcome(s, y, t, ip, isDummy) ==
    \/ y.temp[t] \in {s.temp[t], NoEntry}
    \/ t \in TempOf(s, ip) /\ isDummy /\ y.temp[t] = Dummy(s.temp[t])

\* The rewritten connections.
DummyKeys(s, ip, isDummy) == {KeyOf(Dummy(s.temp[t])) : t \in {u \in TempOf(s, ip) : isDummy}}

\* The temporary entries of a client that has come are entered or dropped.
LEMMA FlushTempEntriesStep ==
    ASSUME NEW s \in NatStates, Good(s), NEW ip, NEW isAdd \in BOOLEAN,
           NEW isDummy \in BOOLEAN, NEW refused
    PROVE  LET y == FlushTempEntries(s, ip, isAdd, isDummy, refused) IN
             /\ Step(s, y, DummyKeys(s, ip, isDummy)) /\ y.asleep = s.asleep
             /\ \A t \in TempSlots : TempOutcome(s, y, t, ip, isDummy)
<1> DEFINE N == MaxTempEntries
           K == TempOf(s, ip)
           new == DummyKeys(s, ip, isDummy)
           F(f) == [n \in 0 .. N |-> IF n = 0 THEN s
                                     ELSE IF n \in K THEN FlushAdd(f[n - 1], n, isDummy, refused)
                                     ELSE f[n - 1]]
           upTo == CHOOSE f : f = F(f)
           y == FlushTempEntries(s, ip, isAdd, isDummy, refused)
<1>0. N \in Nat /\ TempSlots = 1 .. N /\ K \in SUBSET TempSlots
  BY NatAppAssumption DEF TempSlots, TempOf
<1>1. CASE ~isAdd
  <2> DEFINE temp == [t \in TempSlots |-> IF t \in K THEN NoEntry ELSE s.temp[t]]
  <2>1. y = [s EXCEPT !.temp = temp]
    BY <1>1 DEF FlushTempEntries
  <2>2. temp \in [TempSlots -> Entries]
    BY StateFacts, NoEntryType
  <2>3. \A t \in TempSlots : KeyOf(temp[t]) \in Keys(s) \cup new \cup {NoKey}
    BY KeysOfSlots DEF NoKey
  <2>4. \A t \in TempSlots : temp[t] \in {s.temp[t], NoEntry}
    OBVIOUS
  <2> HIDE DEF y, temp, new
  <2>5. Step(s, y, new) /\ y.temp = temp /\ y.asleep = s.asleep
    BY <2>1, <2>2, <2>3, TempStep
  <2> QED
    BY <2>4, <2>5 DEF TempOutcome, y, new
<1>2. CASE isAdd
  <2> DEFINE G == {x \in NatStates : Good(x)}
             Inv == [n \in 0 .. N |->
                       {x \in G :
                          /\ Step(s, x, new) /\ x.asleep = s.asleep
                          /\ \A t \in TempSlots : t > n => x.temp[t] = s.temp[t]
                          /\ \A t \in TempSlots : TempOutcome(s, x, t, ip, isDummy)}]
  <2>1. y = upTo[N]
    BY <1>2 DEF FlushTempEntries
  <2>2. \E f : f = F(f)
    <3> DEFINE round == [n \in 1 .. N |-> [x \in G |->
                            IF n \in K THEN FlushAdd(x, n, isDummy, refused) ELSE x]]
    <3>1. ASSUME NEW n \in 1 .. N, NEW x \in G
          PROVE  (IF n \in K THEN FlushAdd(x, n, isDummy, refused) ELSE x) \in G
      BY <1>0, FlushAddStep DEF Step
    <3>2. round \in [1 .. N -> [G -> G]] /\ s \in G
      <4> HIDE DEF G
      <4>1. round \in [1 .. N -> [G -> G]]
        BY <3>1
      <4> QED
        BY <4>1 DEF G
    <3>3. PICK g \in [0 .. N -> G] :
            g[0] = s /\ \A n \in 1 .. N : g[n] = round[n][g[n - 1]]
      <4> HIDE DEF round, N, G
      <4>1. PICK g : IsLoop(g, N, G, s, round)
        BY <1>0, <3>2, LoopExists
      <4> QED
        BY <4>1 DEF IsLoop
    <3> HIDE DEF G
    <3>4. ASSUME NEW n \in 1 .. N
          PROVE  g[n] = IF n \in K THEN FlushAdd(g[n - 1], n, isDummy, refused) ELSE g[n - 1]
      <4>1. g[n - 1] \in G
        BY <1>0, <3>3
      <4> QED
        BY <3>3, <4>1
    <3>5. g = F(g)
      BY <1>0, <3>3, <3>4
    <3> QED
      BY <3>5
  <2>3. upTo = F(upTo)
    BY <2>2
  <2> HIDE DEF upTo
  <2>4. upTo[0] = s
    BY <1>0, <2>3
  <2>5. ASSUME NEW n \in 1 .. N
        PROVE  upTo[n] = IF n \in K THEN FlushAdd(upTo[n - 1], n, isDummy, refused) ELSE upTo[n - 1]
    BY <1>0, <2>3
  <2> HIDE DEF F, new
  <2>6. upTo[0] \in Inv[0]
    <3>1. Step(s, s, new)
      BY StepSame
    <3> QED
      BY <1>0, <2>4, <3>1 DEF TempOutcome
  <2>7. ASSUME NEW n \in 1 .. N, upTo[n - 1] \in Inv[n - 1]
        PROVE  upTo[n] \in Inv[n]
    <3> DEFINE x == upTo[n - 1]
               z == upTo[n]
    <3>1. n \in TempSlots /\ n - 1 \in 0 .. N /\ n \in 0 .. N
      BY <1>0
    <3>2. /\ x \in NatStates /\ Good(x) /\ Step(s, x, new) /\ x.asleep = s.asleep
          /\ \A t \in TempSlots : t > n - 1 => x.temp[t] = s.temp[t]
          /\ \A t \in TempSlots : TempOutcome(s, x, t, ip, isDummy)
      BY <2>7, <3>1
    <3>3. CASE n \notin K
      <4>1. z = x
        BY <2>5, <3>3
      <4>2. \A t \in TempSlots : t > n => t > n - 1
        BY <1>0
      <4> HIDE DEF x, z
      <4> QED
        BY <3>1, <3>2, <4>1, <4>2 DEF z
    <3>4. CASE n \in K
      <4> DEFINE r == FlushRule(x.temp[n], isDummy)
      <4>1. z = FlushAdd(x, n, isDummy, refused)
        BY <2>5, <3>4
      <4> HIDE DEF x, z
      <4>2. /\ Step(x, z, {KeyOf(r)}) /\ z.asleep = x.asleep
            /\ \A t \in TempSlots : t # n => z.temp[t] = x.temp[t]
            /\ z.temp[n] \in {NoEntry, r}
        BY <3>1, <3>2, <4>1, FlushAddStep
      <4>3. x.temp[n] = s.temp[n]
        BY <3>1, <3>2
      <4>4. KeyOf(r) \in Keys(s) \cup new
        BY <3>1, <3>4, <4>3, KeysOfSlots DEF FlushRule, new, DummyKeys
      <4>5. Step(s, z, new)
        <5>1. Step(s, x, new \cup {KeyOf(r)})
          BY <3>2 DEF Step
        <5>2. Step(x, z, new \cup {KeyOf(r)})
          BY <4>2 DEF Step
        <5>3. Step(s, z, new \cup {KeyOf(r)})
          BY <3>2, <4>2, <5>1, <5>2, StepTrans
        <5> QED
          BY <4>4, <5>3 DEF Step
      <4>6. TempOutcome(s, z, n, ip, isDummy)
        BY <3>4, <4>2, <4>3 DEF TempOutcome, FlushRule
      <4>7. \A t \in TempSlots : TempOutcome(s, z, t, ip, isDummy)
        <5> TAKE t \in TempSlots
        <5>1. CASE t = n
          BY <5>1, <4>6
        <5>2. CASE t # n
          <6>1. z.temp[t] = x.temp[t] /\ TempOutcome(s, x, t, ip, isDummy)
            BY <5>2, <3>2, <4>2
          <6> QED
            BY <6>1 DEF TempOutcome
        <5> QED
          BY <5>1, <5>2
      <4>8. \A t \in TempSlots : t > n => z.temp[t] = s.temp[t]
        BY <1>0, <3>2, <4>2
      <4>9. z \in G
        BY <4>5 DEF Step
      <4> HIDE DEF G
      <4> QED
        BY <3>1, <3>2, <4>2, <4>5, <4>7, <4>8, <4>9 DEF z
    <3> QED
      BY <3>3, <3>4
  <2>8. upTo[N] \in Inv[N]
    <3> HIDE DEF Inv
    <3> QED
      BY <1>0, <2>6, <2>7, LoopInvariant
  <2> HIDE DEF G
  <2> QED
    BY <1>0, <2>1, <2>8 DEF new
<1> QED
  BY <1>1, <1>2
=============================================================================
