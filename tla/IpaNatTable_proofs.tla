------------------------- MODULE IpaNatTable_proofs -------------------------
(* Proofs about the NAT table for every table size, every set of rules and  *)
(* every pair of hash functions.                                            *)
EXTENDS IpaNatTable, WellFoundedInduction, TLAPS

-----------------------------------------------------------------------------
(* Facts about chains. *)

\* The usable entries are entries, and hashes are usable base entries.
LEMMA EntryFacts ==
    /\ 0 \in Entries /\ TableEntries \in Entries
    /\ Base \subseteq Entries /\ Expn \subseteq Entries
    /\ 0 \notin Base /\ 0 \notin Expn /\ TableEntries \notin Expn
    /\ TableEntries \notin Base
    /\ \A e \in Expn : e >= TableEntries /\ ~(e < TableEntries)
    /\ \A e \in Base : e < TableEntries /\ ~(e >= TableEntries)
    /\ \A e \in Entries : e \in Int
    /\ \A e \in Entries : e = 0 \/ e = TableEntries \/ e \in Base \/ e \in Expn
    /\ \A r \in Rules : DstHash[r] \in Base /\ SrcHash[r] \in Base
    /\ DstHash \in [Rules -> Base] /\ SrcHash \in [Rules -> Base]
BY SizeAssumption, RuleAssumption DEF Entries, Base, Expn

\* Entry 0 is an entry.
LEMMA ZeroEntry == 0 \in Entries
BY EntryFacts

\* A set of entries or of handles that is not empty has a least member.
LEMMA LeastIn ==
    ASSUME NEW S \in SUBSET Nat, S # {}
    PROVE  Least(S) \in S /\ \A x \in S : Least(S) <= x
<1> DEFINE R == {ss \in Nat \X Nat : ss[1] < ss[2]}
<1>1. IsWellFoundedOn(R, Nat)
  BY NatLessThanWellFounded, Zenon DEF OpToRel
<1>2. PICK e \in S : \A x \in S : ~(<<x, e>> \in R)
  <2> HIDE DEF R
  <2> QED BY <1>1, WFMin
<1>3. ASSUME NEW x \in S PROVE e <= x
  <2>1. x \in Nat /\ e \in Nat
    OBVIOUS
  <2>2. x < e => <<x, e>> \in R
    BY <2>1
  <2>3. ~(x < e)
    BY <2>2, <1>2
  <2> QED
    BY <2>1, <2>3
<1> QED
  BY <1>3 DEF Least

\* A walk from an entry meets entries only.
LEMMA ReachType ==
    ASSUME NEW f \in [Entries -> Entries], NEW b \in Entries
    PROVE  Reach(f, b) \subseteq Entries /\ Met(f, b) \subseteq Entries
BY EntryFacts DEF Reach, Met

\* Membership in Reach may be shown, and used, with any closed set of entries.
LEMMA ReachClosed ==
    ASSUME NEW f \in [Entries -> Entries], NEW b \in Entries,
           NEW e \in Reach(f, b), NEW S \in SUBSET Entries,
           b \in S, Closed(S, f)
    PROVE  e \in S
<1> DEFINE R == S \cap Met(f, b)
<1>1. b \in R
  BY DEF Met
<1>2. Closed(R, f)
  BY DEF Closed, Met
<1>3. R \in SUBSET Met(f, b)
  OBVIOUS
<1> QED
  BY <1>1, <1>2, <1>3 DEF Reach

\* The walk starts at b.
LEMMA ReachStart ==
    ASSUME NEW f, NEW b
    PROVE  b \in Reach(f, b)
BY DEF Reach, Met

\* The walk goes on as long as there is a successor.
LEMMA ReachStep ==
    ASSUME NEW f \in [Entries -> Entries], NEW b \in Entries,
           NEW e \in Reach(f, b), f[e] # 0
    PROVE  f[e] \in Reach(f, b)
<1>1. e \in Entries
  BY ReachType
<1>2. f[e] \in Met(f, b)
  BY <1>1 DEF Met
<1>3. ASSUME NEW S \in SUBSET Met(f, b), b \in S, Closed(S, f)
      PROVE  f[e] \in S
  BY <1>3 DEF Reach, Closed
<1> QED
  BY <1>2, <1>3 DEF Reach

\* An entry of every closed set that holds b is met by the walk from b.
LEMMA ReachIntro ==
    ASSUME NEW f \in [Entries -> Entries], NEW b \in Entries, NEW e \in Entries,
           b # 0, e # 0,
           \A S \in SUBSET Entries : b \in S /\ Closed(S, f) => e \in S
    PROVE  e \in Reach(f, b)
<1>1. Reach(f, b) \in SUBSET Entries
  BY ReachType
<1>2. Closed(Reach(f, b), f)
  BY ReachStep DEF Closed
<1> QED
  BY <1>1, <1>2, ReachStart

\* Appending an entry to the end of a chain keeps everything reachable and
\* makes the new entry reachable.
LEMMA AppendReach ==
    ASSUME NEW f \in [Entries -> Entries], NEW b \in Base,
           NEW t \in Reach(f, b), f[t] = 0,
           NEW new \in Entries, new # 0, f[new] = 0, new # t,
           NEW g \in [Entries -> Entries], g[new] = 0, g[t] = new,
           \A x \in Entries : x # new /\ x # t => g[x] = f[x]
    PROVE  /\ new \in Reach(g, b)
           /\ \A c \in Base : Reach(f, c) \subseteq Reach(g, c)
<1>0. b \in Entries /\ b # 0 /\ t \in Entries
  BY EntryFacts, ReachType
<1>2. ASSUME NEW c \in Base, NEW e \in Reach(f, c)
      PROVE  e \in Reach(g, c)
  <2>1. c \in Entries /\ c # 0 /\ e \in Entries
    BY EntryFacts, ReachType
  <2>2. e # 0
    BY <2>1 DEF Reach, Met
  <2>3. ASSUME NEW S \in SUBSET Entries, c \in S, Closed(S, g)
        PROVE  e \in S
    <3>1. Closed(S, f)
      BY <2>3, <1>0 DEF Closed
    <3> QED
      BY <3>1, <2>1, <2>3, ReachClosed
  <2> QED
    BY <2>1, <2>2, <2>3, ReachIntro
<1>3. new \in Reach(g, b)
  BY <1>0, <1>2, ReachStep
<1> QED
  BY <1>2, <1>3

\* Taking e out behind its only predecessor p keeps every other entry reachable.
LEMMA UnlinkReach ==
    ASSUME NEW f \in [Entries -> Entries], NEW p \in Entries, NEW e \in Entries,
           p # e, e # 0, f[p] = e, f[e] # e,
           \A x \in Entries : f[x] = e => x = p,
           NEW c \in Entries, c # 0, c # e,
           NEW x \in Reach(f, c), x # e
    PROVE  x \in Reach(Unlink(f, e, p), c)
<1> DEFINE g == Unlink(f, e, p)
<1>1. g \in [Entries -> Entries] /\ g[p] = f[e] /\ g[e] = 0
      /\ \A y \in Entries : y # p /\ y # e => g[y] = f[y]
  BY EntryFacts DEF Unlink
<1>2. x \in Entries /\ x # 0
  BY ReachType DEF Reach, Met
<1>3. ASSUME NEW S \in SUBSET Entries, c \in S, Closed(S, g)
      PROVE  x \in S
  <2>1. CASE p \in S
    <3>1. Closed(S \cup {e}, f)
      BY <1>1, <1>3, <2>1 DEF Closed
    <3> QED
      BY <3>1, <1>3, ReachClosed
  <2>2. CASE p \notin S
    <3>1. Closed(S \ {e}, f)
      BY <1>1, <1>3, <2>2 DEF Closed
    <3> QED
      BY <3>1, <1>3, ReachClosed
  <2> QED
    BY <2>1, <2>2
<1> HIDE DEF g
<1>4. x \in Reach(g, c)
  BY <1>1, <1>2, <1>3, ReachIntro
<1> QED
  BY <1>4 DEF g

\* An entry of a chain, other than its first, is not its own predecessor.
LEMMA NoSelfLoop ==
    ASSUME NEW f \in [Entries -> Entries], NEW p \in Entries, NEW c \in Entries,
           NEW e \in Reach(f, c), e # c, \A y \in Entries : f[y] = e => y = p
    PROVE  p # e /\ f[e] # e
<1> SUFFICES ASSUME p = e \/ f[e] = e PROVE FALSE
  OBVIOUS
<1>1. e \in Entries
  BY ReachType
<1>2. Closed(Entries \ {e}, f)
  BY <1>1 DEF Closed
<1> QED
  BY <1>1, <1>2, ReachClosed

\* A chain that ends still ends when an entry is taken out of it.
LEMMA UnlinkTails ==
    ASSUME NEW f \in [Entries -> Entries], NEW p \in Entries, NEW e \in Entries,
           p # e, e # 0, f[p] = e, f[e] # e,
           \A y \in Entries : f[y] = e => y = p,
           NEW c \in Entries, c # 0, c # e, Tails(f, c) # {}
    PROVE  Tails(Unlink(f, e, p), c) # {}
<1> DEFINE g == Unlink(f, e, p)
<1>1. g \in [Entries -> Entries] /\ g[p] = f[e] /\ g[e] = 0
      /\ \A y \in Entries : y # p /\ y # e => g[y] = f[y]
  BY EntryFacts DEF Unlink
<1>2. \A y \in Reach(f, c) : y # e => y \in Reach(g, c)
  BY UnlinkReach
<1> SUFFICES Tails(g, c) # {}
  OBVIOUS
<1> HIDE DEF g
<1>3. PICK t \in Reach(f, c) : f[t] = 0
  BY DEF Tails
<1>4. t \in Entries
  BY ReachType
<1>5. CASE t # e
  BY <1>1, <1>2, <1>3, <1>4, <1>5 DEF Tails
<1>6. CASE t = e
  <2>1. p \in Reach(f, c)
    <3> SUFFICES ASSUME p \notin Reach(f, c) PROVE FALSE
      OBVIOUS
    <3>1. Closed(Reach(f, c) \ {e}, f)
      BY ReachStep, ReachType DEF Closed
    <3>2. Reach(f, c) \ {e} \in SUBSET Entries /\ c \in Reach(f, c) \ {e}
      BY ReachType, ReachStart
    <3> QED
      BY <3>1, <3>2, <1>3, <1>6, ReachClosed
  <2> QED
    BY <2>1, <1>1, <1>2, <1>3, <1>6 DEF Tails
<1> QED
  BY <1>5, <1>6

-----------------------------------------------------------------------------
(* Type correctness, whatever the DMA commands do. *)

\* An entry that an insertion picks is an entry, and a free one.
LEMMA NewFacts ==
    ASSUME TypeOK, NEW r \in Rules, RuleGenerated(r)
    PROVE  /\ NewEntry(r) \in Entries \ {0} /\ enbl[NewEntry(r)] = "off"
           /\ NewIndex(r) \in Entries \ {0} /\ idxEnt[NewIndex(r)] = 0
           /\ enbl[DstHash[r]] = "off" => NewEntry(r) = DstHash[r] /\ PrevEntry(r) = 0
           /\ enbl[DstHash[r]] # "off" =>
                NewEntry(r) \in Expn /\ PrevEntry(r) \in Tails(nxt, DstHash[r])
           /\ idxEnt[SrcHash[r]] = 0 => NewIndex(r) = SrcHash[r] /\ PrevIndex(r) = 0
           /\ idxEnt[SrcHash[r]] # 0 =>
                NewIndex(r) \in Expn /\ PrevIndex(r) \in Tails(idxNxt, SrcHash[r])
           /\ PrevEntry(r) \in Entries /\ PrevIndex(r) \in Entries
<1>1. DstHash[r] \in Base /\ SrcHash[r] \in Base /\ DstHash[r] \in Entries \ {0}
      /\ SrcHash[r] \in Entries \ {0}
  BY EntryFacts
<1>2. FreeExpn # {} => Least(FreeExpn) \in FreeExpn
  <2>1. FreeExpn \in SUBSET Nat
    BY SizeAssumption DEF FreeExpn, Expn
  <2> QED BY <2>1, LeastIn
<1>3. FreeIdxExpn # {} => Least(FreeIdxExpn) \in FreeIdxExpn
  <2>1. FreeIdxExpn \in SUBSET Nat
    BY SizeAssumption DEF FreeIdxExpn, Expn
  <2> QED BY <2>1, LeastIn
<1>4. enbl[DstHash[r]] = "off" => NewEntry(r) = DstHash[r] /\ PrevEntry(r) = 0
  BY DEF NewEntry, PrevEntry
<1>5. enbl[DstHash[r]] # "off" => NewEntry(r) \in FreeExpn /\ PrevEntry(r) \in Tails(nxt, DstHash[r])
  BY <1>2 DEF NewEntry, PrevEntry, RuleGenerated
<1>6. idxEnt[SrcHash[r]] = 0 => NewIndex(r) = SrcHash[r] /\ PrevIndex(r) = 0
  BY DEF NewIndex, PrevIndex
<1>7. idxEnt[SrcHash[r]] # 0 => NewIndex(r) \in FreeIdxExpn /\ PrevIndex(r) \in Tails(idxNxt, SrcHash[r])
  BY <1>3 DEF NewIndex, PrevIndex, RuleGenerated
<1>8. Tails(nxt, DstHash[r]) \subseteq Entries /\ Tails(idxNxt, SrcHash[r]) \subseteq Entries
  BY <1>1, ReachType DEF Tails, TypeOK
<1> QED
  BY <1>1, <1>4, <1>5, <1>6, <1>7, <1>8, EntryFacts DEF FreeExpn, FreeIdxExpn

\* A slot of rule_id_array that MakeRuleHdl picks is a free one.
LEMMA SlotFacts ==
    ASSUME NEW e, TypeOK, MakeRuleHdl(e)
    PROVE  \E h \in Handles : ruleId[h] = 0 /\ ruleId' = [ruleId EXCEPT ![h] = e]
<1> DEFINE free == {h \in Handles : ruleId[h] = 0}
<1>1. free \in SUBSET Nat /\ free # {}
  BY SizeAssumption DEF Handles, MakeRuleHdl
<1>2. Least(free) \in free
  <2> HIDE DEF free
  <2> QED BY <1>1, LeastIn
<1> QED
  BY <1>2 DEF MakeRuleHdl

\* A step of the driver keeps every field of every entry within its type.
LEMMA TypeStep == TypeOK /\ [Next]_vars => TypeOK'
<1> SUFFICES ASSUME TypeOK, [Next]_vars PROVE TypeOK'
  OBVIOUS
<1>1. CASE AddTable \/ DelTable
  <2>1. Zeroed /\ valid' \in BOOLEAN
    BY <1>1 DEF AddTable, DelTable
  <2> QED
    BY <2>1, ZeroEntry DEF Zeroed, TypeOK
<1>2. ASSUME NEW r \in Rules, AddRule(r) PROVE TypeOK'
  <2>1. RuleGenerated(r) /\ valid' = valid
    BY <1>2 DEF AddRule
  <2>2. PICK l, il, en \in BOOLEAN :
           /\ CopyRuleToHw(r, NewEntry(r), PrevEntry(r), NewIndex(r), l)
           /\ CopyIndexRuleToHw(NewIndex(r), PrevIndex(r), NewEntry(r), il)
           /\ enbl' = [enbl EXCEPT ![NewEntry(r)] = IF en THEN "on" ELSE "off"]
           /\ IF en THEN MakeRuleHdl(NewEntry(r)) ELSE UNCHANGED ruleId
    BY <1>2, RuleAssumption DEF AddRule, DmaOutcome
  <2>3. ruleId' \in [Handles -> Entries]
    BY <2>1, <2>2, NewFacts, SlotFacts DEF TypeOK
  <2>4. /\ rule' \in [Entries -> Rules \cup {NoRule}] /\ nxt' \in [Entries -> Entries]
        /\ prv' \in [Entries -> Entries] /\ indx' \in [Entries -> Entries]
    BY <2>1, <2>2, NewFacts, EntryFacts DEF TypeOK, CopyRuleToHw
  <2>5. /\ idxEnt' \in [Entries -> Entries] /\ idxNxt' \in [Entries -> Entries]
        /\ idxPrv' \in [Entries -> Entries]
    BY <2>1, <2>2, NewFacts, EntryFacts DEF TypeOK, CopyIndexRuleToHw
  <2>6. enbl' \in [Entries -> {"off", "on", "dead"}]
    BY <2>2 DEF TypeOK
  <2> QED
    BY <2>1, <2>3, <2>4, <2>5, <2>6 DEF TypeOK
<1>3. ASSUME NEW h \in Handles, DelRule(h) PROVE TypeOK'
  <2> DEFINE e == ruleId[h]
             i == indx[e]
             newIndx == IF RulePos(idxNxt, i) = "HEAD"
                        THEN [indx EXCEPT ![idxEnt[idxNxt[i]]] = i] ELSE indx
  <2>1. e \in Entries /\ i \in Entries /\ newIndx \in [Entries -> Entries]
    BY DEF TypeOK
  <2>2. DelTblRule(e, newIndx) /\ valid' = valid /\ ruleId' = [ruleId EXCEPT ![h] = 0]
    BY <1>3 DEF DelRule
  <2>3. DelIndexHead(i) \/ DelIndexOnlyOne(i) \/ DelIndexMiddleOrLast(i)
    BY <1>3 DEF DelRule
  <2> HIDE DEF newIndx, e, i
  <2>4. TblNext(e) \in [Entries -> Entries] /\ Relink(prv, nxt, e) \in [Entries -> Entries]
    BY <2>1, EntryFacts DEF TypeOK, TblNext, Unlink, Relink
  <2>5. /\ rule' \in [Entries -> Rules \cup {NoRule}] /\ nxt' \in [Entries -> Entries]
        /\ prv' \in [Entries -> Entries] /\ indx' \in [Entries -> Entries]
        /\ enbl' \in [Entries -> {"off", "on", "dead"}]
    BY <2>1, <2>2, <2>4, EntryFacts DEF TypeOK, DelTblRule
  <2>6. /\ idxEnt' \in [Entries -> Entries] /\ idxNxt' \in [Entries -> Entries]
        /\ idxPrv' \in [Entries -> Entries]
    BY <2>1, <2>3, EntryFacts
       DEF TypeOK, DelIndexHead, DelIndexOnlyOne, DelIndexMiddleOrLast, Unlink, Relink
  <2>7. ruleId' \in [Handles -> Entries]
    BY <2>2, EntryFacts DEF TypeOK
  <2> QED
    BY <2>2, <2>5, <2>6, <2>7 DEF TypeOK
<1>4. CASE UNCHANGED vars
  BY <1>4 DEF vars, TypeOK
<1> QED
  BY <1>1, <1>2, <1>3, <1>4 DEF Next

\* Every field of the table and of the index table stays within its type: the
\* indices the driver writes into entries are entries of the table.
THEOREM TypeCorrect == Spec => []TypeOK
<1>1. Init => TypeOK
  <2>1. ASSUME NEW S, NEW T, NEW z \in T PROVE [e \in S |-> z] \in [S -> T]
    OBVIOUS
  <2> SUFFICES ASSUME Init PROVE TypeOK
    OBVIOUS
  <2>2. nxt \in [Entries -> Entries] /\ prv \in [Entries -> Entries] /\ indx \in [Entries -> Entries]
    BY <2>1, ZeroEntry DEF Init
  <2>3. idxEnt \in [Entries -> Entries] /\ idxNxt \in [Entries -> Entries] /\ idxPrv \in [Entries -> Entries]
    BY <2>1, ZeroEntry DEF Init
  <2>4. ruleId \in [Handles -> Entries]
    BY <2>1, ZeroEntry DEF Init
  <2>5. rule \in [Entries -> Rules \cup {NoRule}]
    BY <2>1 DEF Init
  <2>6. valid \in BOOLEAN /\ enbl \in [Entries -> {"off", "on", "dead"}]
    BY DEF Init
  <2> QED BY <2>2, <2>3, <2>4, <2>5, <2>6 DEF TypeOK
<1> QED
  BY <1>1, TypeStep, PTL DEF Spec
-----------------------------------------------------------------------------
(* The structure of the table, for DMA commands that succeed. *)

\* The end of a chain that the walk of an insertion finds is an enabled entry
\* of the chain's hash.
LEMMA TailFacts ==
    ASSUME TableInv, NEW b \in Base, enbl[b] # "off", NEW t \in Tails(nxt, b)
    PROVE  t \in Reach(nxt, b) /\ t \in Entries /\ t # 0 /\ nxt[t] = 0
           /\ enbl[t] # "off" /\ DstHash[rule[t]] = b
<1> DEFINE S == {x \in Entries : enbl[x] # "off" /\ DstHash[rule[x]] = b}
<1>1. b \in S
  BY EntryFacts DEF TableInv, TblChains
<1>2. Closed(S, nxt)
  BY DEF Closed, TableInv, TypeOK, TblChains
<1>3. S \in SUBSET Entries /\ b \in Entries /\ nxt \in [Entries -> Entries]
  BY EntryFacts DEF TableInv, TypeOK
<1>4. t \in Reach(nxt, b) /\ nxt[t] = 0
  BY DEF Tails
<1>5. t \in S
  <2> HIDE DEF S
  <2> QED BY <1>1, <1>2, <1>3, <1>4, ReachClosed
<1> QED
  BY <1>4, <1>5 DEF TableInv, TblChains

\* The same of the index chains (ipa_nati_generate_index_rule).
LEMMA IdxTailFacts ==
    ASSUME TableInv, NEW b \in Base, idxEnt[b] # 0, NEW t \in Tails(idxNxt, b)
    PROVE  t \in Reach(idxNxt, b) /\ t \in Entries /\ t # 0 /\ idxNxt[t] = 0
           /\ idxEnt[t] # 0 /\ SrcHash[rule[idxEnt[t]]] = b
<1> DEFINE S == {x \in Entries : idxEnt[x] # 0 /\ SrcHash[rule[idxEnt[x]]] = b}
<1>1. b \in S
  BY EntryFacts DEF TableInv, IdxChains
<1>2. Closed(S, idxNxt)
  BY DEF Closed, TableInv, TypeOK, IdxChains
<1>3. S \in SUBSET Entries /\ b \in Entries /\ idxNxt \in [Entries -> Entries]
  BY EntryFacts DEF TableInv, TypeOK
<1>4. t \in Reach(idxNxt, b) /\ idxNxt[t] = 0
  BY DEF Tails
<1>5. t \in S
  <2> HIDE DEF S
  <2> QED BY <1>1, <1>2, <1>3, <1>4, ReachClosed
<1> QED
  BY <1>4, <1>5 DEF TableInv, IdxChains

\* An insertion whose DMA commands succeed keeps the structure.
LEMMA AddRuleInv ==
    ASSUME DmaMayFail = FALSE, TableInv, NEW r \in Rules, AddRule(r)
    PROVE  TableInv'
<1> DEFINE b == DstHash[r]
           c == SrcHash[r]
           N == NewEntry(r)
           P == PrevEntry(r)
           I == NewIndex(r)
           Q == PrevIndex(r)
<1>1. /\ RuleGenerated(r) /\ valid' = valid
      /\ CopyRuleToHw(r, N, P, I, TRUE) /\ CopyIndexRuleToHw(I, Q, N, TRUE)
      /\ enbl' = [enbl EXCEPT ![N] = "on"] /\ MakeRuleHdl(N)
  BY DEF AddRule, DmaOutcome
<1>2. TypeOK /\ TypeOK'
  <2>1. TypeOK BY DEF TableInv
  <2>2. Next BY DEF Next
  <2> QED BY <2>1, <2>2, TypeStep
<1>3. /\ N \in Entries /\ N # 0 /\ enbl[N] = "off" /\ I \in Entries /\ I # 0 /\ idxEnt[I] = 0
      /\ enbl[b] = "off" => N = b /\ P = 0
      /\ enbl[b] # "off" => N \in Expn /\ P \in Tails(nxt, b)
      /\ idxEnt[c] = 0 => I = c /\ Q = 0
      /\ idxEnt[c] # 0 => I \in Expn /\ Q \in Tails(idxNxt, c)
      /\ P \in Entries /\ Q \in Entries /\ b \in Base /\ c \in Base
  BY <1>1, <1>2, NewFacts, EntryFacts
<1>4. enbl[b] # "off" => /\ P \in Reach(nxt, b) /\ P # 0 /\ nxt[P] = 0 /\ P # N
                         /\ enbl[P] # "off" /\ DstHash[rule[P]] = b
  BY <1>3, TailFacts
<1>5. idxEnt[c] # 0 => /\ Q \in Reach(idxNxt, c) /\ Q # 0 /\ idxNxt[Q] = 0 /\ Q # I
                       /\ idxEnt[Q] # 0 /\ SrcHash[rule[idxEnt[Q]]] = c
  BY <1>3, IdxTailFacts
<1>6. /\ N # TableEntries /\ I # TableEntries /\ nxt[N] = 0 /\ idxNxt[I] = 0
      /\ N < TableEntries => N = b /\ P = 0
      /\ N \in Expn => P # 0
      /\ I < TableEntries => I = c /\ Q = 0
      /\ I \in Expn => Q # 0
  BY <1>3, <1>4, <1>5, EntryFacts DEF TableInv, TblChains, IdxChains
<1> HIDE DEF N, P, I, Q, b, c
<1>7. /\ rule' = [rule EXCEPT ![N] = r] /\ prv' = [prv EXCEPT ![N] = P]
      /\ indx' = [indx EXCEPT ![N] = I]
      /\ nxt' = IF P # 0 THEN [nxt EXCEPT ![N] = 0, ![P] = N] ELSE nxt
  <2>1. nxt = [nxt EXCEPT ![N] = 0]
    BY <1>2, <1>3, <1>6 DEF TypeOK
  <2> QED BY <1>1, <2>1 DEF CopyRuleToHw
<1>8. /\ idxEnt' = [idxEnt EXCEPT ![I] = N]
      /\ idxNxt' = IF Q # 0 THEN [idxNxt EXCEPT ![I] = 0, ![Q] = I] ELSE idxNxt
      /\ I \in Expn => idxPrv'[I] = Q
      /\ \A x \in Entries : x # I => idxPrv'[x] = idxPrv[x]
  <2>1. idxNxt = [idxNxt EXCEPT ![I] = 0]
    BY <1>2, <1>3, <1>6 DEF TypeOK
  <2>2. /\ I \in Expn => idxPrv'[I] = Q
        /\ \A x \in Entries : x # I => idxPrv'[x] = idxPrv[x]
    <3>1. idxPrv' = IF I >= TableEntries THEN [idxPrv EXCEPT ![I] = Q] ELSE idxPrv
      BY <1>1 DEF CopyIndexRuleToHw
    <3>2. I \in Expn => I >= TableEntries
      BY EntryFacts
    <3> QED BY <3>1, <3>2, <1>2, <1>3 DEF TypeOK
  <2> QED BY <1>1, <2>1, <2>2 DEF CopyIndexRuleToHw
<1>9. TblChains'
  BY <1>1, <1>2, <1>3, <1>4, <1>6, <1>7, EntryFacts DEF TableInv, TypeOK, TblChains, b
<1>10. IdxChains'
  <2>1. /\ \A x \in Entries : idxEnt'[x] = IF x = I THEN N ELSE idxEnt[x]
        /\ \A x \in Entries : rule'[x] = IF x = N THEN r ELSE rule[x]
        /\ \A x \in Entries : enbl'[x] = IF x = N THEN "on" ELSE enbl[x]
        /\ \A x \in Entries : indx'[x] = IF x = N THEN I ELSE indx[x]
        /\ \A x \in Entries : idxNxt'[x] = IF Q # 0 /\ x = Q THEN I ELSE idxNxt[x]
    BY <1>1, <1>2, <1>3, <1>5, <1>6, <1>7, <1>8 DEF TypeOK
  <2>2. /\ idxEnt[0] = 0 /\ idxEnt[TableEntries] = 0
        /\ \A x \in Entries : idxEnt[x] # 0 => idxEnt[x] # N /\ idxEnt[x] \in Entries
        /\ \A x \in Entries : enbl[x] = "on" => indx[x] # I /\ indx[x] \in Entries
        /\ Q # 0 => idxEnt[c] # 0
    BY <1>2, <1>3, EntryFacts DEF TypeOK, TableInv, TblChains, IdxChains
  <2>3. idxEnt'[0] = 0 /\ idxEnt'[TableEntries] = 0
    BY <2>1, <2>2, <1>3, <1>6, EntryFacts
  <2>4. \A i \in Entries : idxEnt'[i] = 0 => idxNxt'[i] = 0
    BY <2>1, <2>2, <1>3, <1>5 DEF TableInv, IdxChains
  <2>5. ASSUME NEW i \in Entries, idxEnt'[i] # 0
        PROVE  /\ enbl'[idxEnt'[i]] = "on" /\ indx'[idxEnt'[i]] = i
               /\ i < TableEntries => SrcHash[rule'[idxEnt'[i]]] = i
    BY <2>5, <2>1, <2>2, <1>3, <1>6 DEF TableInv, IdxChains, c
  <2>6. ASSUME NEW e \in Entries, enbl'[e] = "on" PROVE idxEnt'[indx'[e]] = e
    BY <2>6, <2>1, <2>2, <1>3 DEF TableInv, IdxChains
  <2>7. ASSUME NEW i \in Entries, idxNxt'[i] # 0
        PROVE  /\ idxNxt'[i] \in Expn /\ idxEnt'[idxNxt'[i]] # 0 /\ idxPrv'[idxNxt'[i]] = i
               /\ SrcHash[rule'[idxEnt'[idxNxt'[i]]]] = SrcHash[rule'[idxEnt'[i]]]
    <3>1. CASE Q # 0 /\ i = Q
      <4>1. idxNxt'[i] = I /\ I \in Expn /\ idxEnt'[I] = N /\ rule'[N] = r
        BY <3>1, <2>1, <2>2, <1>3
      <4>2. idxEnt'[i] = idxEnt[Q] /\ rule'[idxEnt'[i]] = rule[idxEnt[Q]]
        BY <3>1, <2>1, <2>2, <1>3, <1>5
      <4>3. SrcHash[rule[idxEnt[Q]]] = SrcHash[r]
        BY <3>1, <2>2, <1>5 DEF c
      <4>4. idxPrv'[I] = Q
        BY <4>1, <1>8
      <4> QED BY <3>1, <4>1, <4>2, <4>3, <4>4, <1>3
    <3>2. CASE ~(Q # 0 /\ i = Q)
      <4>1. idxNxt'[i] = idxNxt[i] /\ idxNxt[i] # 0
        BY <3>2, <2>7, <2>1
      <4>2. /\ idxNxt[i] \in Expn /\ idxEnt[idxNxt[i]] # 0 /\ idxPrv[idxNxt[i]] = i
            /\ SrcHash[rule[idxEnt[idxNxt[i]]]] = SrcHash[rule[idxEnt[i]]]
            /\ idxEnt[i] # 0
        BY <4>1 DEF TableInv, IdxChains
      <4>3. idxNxt[i] \in Entries /\ idxNxt[i] # I /\ i # I
        BY <4>1, <4>2, <1>2, <1>3, <1>6 DEF TypeOK
      <4>4. idxEnt'[idxNxt[i]] = idxEnt[idxNxt[i]] /\ idxEnt'[i] = idxEnt[i]
        BY <4>3, <2>1
      <4>5. rule'[idxEnt[idxNxt[i]]] = rule[idxEnt[idxNxt[i]]] /\ rule'[idxEnt[i]] = rule[idxEnt[i]]
        BY <4>2, <4>3, <2>1, <2>2
      <4> QED BY <4>1, <4>2, <4>3, <4>4, <4>5, <1>8
    <3> QED BY <3>1, <3>2
  <2>8. ASSUME NEW i \in Expn, idxEnt'[i] # 0 PROVE idxPrv'[i] # 0 /\ idxNxt'[idxPrv'[i]] = i
    <3>1. i \in Entries
      BY EntryFacts
    <3>2. CASE i = I
      BY <3>2, <2>1, <2>2, <1>3, <1>6, <1>8
    <3>3. CASE i # I
      <4>1. idxEnt[i] # 0 /\ idxPrv'[i] = idxPrv[i] /\ idxPrv[i] \in Entries
        BY <3>1, <3>3, <2>8, <2>1, <1>2, <1>8 DEF TypeOK
      <4>2. idxPrv[i] # 0 /\ idxNxt[idxPrv[i]] = i
        BY <4>1 DEF TableInv, IdxChains
      <4>3. Q # 0 => idxPrv[i] # Q
        BY <4>2, <2>2, <1>5, EntryFacts
      <4> QED BY <4>1, <4>2, <4>3, <2>1
    <3> QED BY <3>2, <3>3
  <2> QED BY <2>3, <2>4, <2>5, <2>6, <2>7, <2>8 DEF IdxChains
<1>11. HandlesOwn'
  <2>1. PICK h \in Handles : ruleId[h] = 0 /\ ruleId' = [ruleId EXCEPT ![h] = N]
    BY <1>1, <1>2, SlotFacts
  <2>2. \A g \in Live : ruleId[g] # N
    BY <1>3 DEF TableInv, HandlesOwn
  <2>3. Live' = Live \cup {h}
    BY <1>2, <1>3, <2>1 DEF Live, TypeOK
  <2>4. \A g \in Live : g # h /\ g \in Handles
    BY <2>1 DEF Live
  <2> QED
    BY <1>1, <1>2, <1>3, <2>1, <2>2, <2>3, <2>4
       DEF TableInv, TypeOK, HandlesOwn, HandlesDistinct
<1>12. /\ nxt' \in [Entries -> Entries] /\ nxt'[N] = 0 /\ N \in Reach(nxt', b)
       /\ \A d \in Base : Reach(nxt, d) \subseteq Reach(nxt', d)
       /\ \A x \in Entries : nxt'[x] = nxt[x] \/ (x = P /\ P # 0 /\ nxt'[x] = N)
  <2>1. CASE P = 0
    <3>1. N = b
      BY <1>3, <1>4, <2>1
    <3>2. nxt' = nxt /\ nxt \in [Entries -> Entries]
      BY <2>1, <1>2, <1>7 DEF TypeOK
    <3>3. N \in Reach(nxt, b)
      BY <3>1, ReachStart
    <3> QED
      BY <3>2, <3>3, <1>6
  <2>2. CASE P # 0
    <3>1. nxt' = [nxt EXCEPT ![N] = 0, ![P] = N] /\ enbl[b] # "off"
      BY <1>3, <1>7, <2>2
    <3>2. \A x \in Entries : nxt'[x] = nxt[x] \/ (x = P /\ P # 0 /\ nxt'[x] = N)
      BY <3>1, <2>2, <1>2, <1>3, <1>6 DEF TypeOK
    <3>3. nxt \in [Entries -> Entries] /\ P \in Reach(nxt, b) /\ nxt[P] = 0 /\ P # N
      BY <3>1, <1>2, <1>4 DEF TypeOK
    <3>4. /\ nxt' \in [Entries -> Entries] /\ nxt'[N] = 0 /\ N \in Reach(nxt', b)
          /\ \A d \in Base : Reach(nxt, d) \subseteq Reach(nxt', d)
      <4>1. N \in Entries /\ N # 0 /\ nxt[N] = 0 /\ b \in Base /\ P \in Entries
        BY <1>3, <1>6
      <4>2. /\ nxt' \in [Entries -> Entries] /\ nxt'[N] = 0 /\ nxt'[P] = N
            /\ \A x \in Entries : x # N /\ x # P => nxt'[x] = nxt[x]
        BY <3>1, <3>3, <4>1, ZeroEntry
      <4> QED
        BY <4>1, <4>2, <3>3, AppendReach
    <3> QED
      BY <3>2, <3>4
  <2> QED BY <2>1, <2>2
<1>13. /\ idxNxt' \in [Entries -> Entries] /\ idxNxt'[I] = 0 /\ I \in Reach(idxNxt', c)
       /\ \A d \in Base : Reach(idxNxt, d) \subseteq Reach(idxNxt', d)
       /\ \A x \in Entries : idxNxt'[x] = idxNxt[x] \/ (x = Q /\ Q # 0 /\ idxNxt'[x] = I)
  <2>1. CASE Q = 0
    <3>1. I = c
      BY <1>3, <1>5, <2>1
    <3>2. idxNxt' = idxNxt /\ idxNxt \in [Entries -> Entries]
      BY <2>1, <1>2, <1>8 DEF TypeOK
    <3>3. I \in Reach(idxNxt, c)
      BY <3>1, ReachStart
    <3> QED
      BY <3>2, <3>3, <1>6
  <2>2. CASE Q # 0
    <3>1. idxNxt' = [idxNxt EXCEPT ![I] = 0, ![Q] = I] /\ idxEnt[c] # 0
      BY <1>3, <1>8, <2>2
    <3>2. \A x \in Entries : idxNxt'[x] = idxNxt[x] \/ (x = Q /\ Q # 0 /\ idxNxt'[x] = I)
      BY <3>1, <2>2, <1>2, <1>3, <1>6 DEF TypeOK
    <3>3. idxNxt \in [Entries -> Entries] /\ Q \in Reach(idxNxt, c) /\ idxNxt[Q] = 0 /\ Q # I
      BY <3>1, <1>2, <1>5 DEF TypeOK
    <3>4. /\ idxNxt' \in [Entries -> Entries] /\ idxNxt'[I] = 0 /\ I \in Reach(idxNxt', c)
          /\ \A d \in Base : Reach(idxNxt, d) \subseteq Reach(idxNxt', d)
      <4>1. I \in Entries /\ I # 0 /\ idxNxt[I] = 0 /\ c \in Base /\ Q \in Entries
        BY <1>3, <1>6
      <4>2. /\ idxNxt' \in [Entries -> Entries] /\ idxNxt'[I] = 0 /\ idxNxt'[Q] = I
            /\ \A x \in Entries : x # I /\ x # Q => idxNxt'[x] = idxNxt[x]
        BY <3>1, <3>3, <4>1, ZeroEntry
      <4> QED
        BY <4>1, <4>2, <3>3, AppendReach
    <3> QED
      BY <3>2, <3>4
  <2> QED BY <2>1, <2>2
<1>14. Reachable'
  <2>1. ASSUME NEW e \in Entries, enbl'[e] = "on" PROVE e \in Reach(nxt', DstHash[rule'[e]])
    <3>1. CASE e = N
      BY <3>1, <1>2, <1>3, <1>7, <1>12 DEF TypeOK, b
    <3>2. CASE e # N
      <4>1. enbl[e] = "on" /\ rule'[e] = rule[e]
        BY <2>1, <3>2, <1>1, <1>2, <1>7 DEF TypeOK
      <4>2. e \in Reach(nxt, DstHash[rule[e]]) /\ DstHash[rule[e]] \in Base
        BY <4>1, EntryFacts DEF TableInv, Reachable, TblChains
      <4> QED BY <4>1, <4>2, <1>12
    <3> QED BY <3>1, <3>2
  <2>2. ASSUME NEW i \in Entries, idxEnt'[i] # 0
        PROVE  i \in Reach(idxNxt', SrcHash[rule'[idxEnt'[i]]])
    <3>1. CASE i = I
      BY <3>1, <1>2, <1>3, <1>7, <1>8, <1>13 DEF TypeOK, c
    <3>2. CASE i # I
      <4>1. idxEnt'[i] = idxEnt[i] /\ idxEnt[i] # 0 /\ idxEnt[i] # N /\ idxEnt[i] \in Entries
        BY <2>2, <3>2, <1>2, <1>3, <1>8 DEF TypeOK, TableInv, IdxChains
      <4>2. rule'[idxEnt[i]] = rule[idxEnt[i]] /\ enbl[idxEnt[i]] = "on"
        BY <4>1, <1>2, <1>7 DEF TypeOK, TableInv, IdxChains
      <4>3. SrcHash[rule[idxEnt[i]]] \in Base
        BY <4>1, <4>2, EntryFacts DEF TableInv, TblChains
      <4>4. i \in Reach(idxNxt, SrcHash[rule[idxEnt[i]]])
        BY <4>1 DEF TableInv, Reachable
      <4> QED BY <4>1, <4>2, <4>3, <4>4, <1>13
    <3> QED BY <3>1, <3>2
  <2> QED BY <2>1, <2>2 DEF Reachable
<1>15. ChainsEnd'
  <2> SUFFICES ASSUME NEW d \in Base
               PROVE  Tails(nxt', d) # {} /\ Tails(idxNxt', d) # {}
    BY DEF ChainsEnd
  <2>1. PICK t \in Reach(nxt, d) : nxt[t] = 0
    BY DEF TableInv, ChainsEnd, Tails
  <2>2. PICK u \in Reach(idxNxt, d) : idxNxt[u] = 0
    BY DEF TableInv, ChainsEnd, Tails
  <2>3. t \in Entries /\ u \in Entries /\ d \in Entries
    BY <1>2, ReachType, EntryFacts DEF TypeOK
  <2>4. t \in Reach(nxt', d) /\ u \in Reach(idxNxt', d)
    BY <1>12, <1>13
  <2>5. nxt'[t] = 0 \/ (nxt'[t] = N /\ N \in Reach(nxt', d))
    BY <2>1, <2>3, <2>4, <1>3, <1>12, ReachStep
  <2>6. idxNxt'[u] = 0 \/ (idxNxt'[u] = I /\ I \in Reach(idxNxt', d))
    BY <2>2, <2>3, <2>4, <1>3, <1>13, ReachStep
  <2> QED
    BY <2>4, <2>5, <2>6, <1>12, <1>13 DEF Tails
<1> QED
  BY <1>2, <1>9, <1>10, <1>11, <1>14, <1>15 DEF TableInv

\* What a deletion leaves of the rule table: exactly e stops being enabled, the
\* rules that stay are untouched, and dead heads without a chain are gone.
LEMMA DelTblFacts ==
    ASSUME TableInv, NEW e \in Entries, enbl[e] = "on", NEW newIndx, DelTblRule(e, newIndx)
    PROVE  /\ \A x \in Entries : nxt'[x] = TblNext(e)[x]
           /\ \A x \in Entries : enbl[x] = "off" => enbl'[x] = "off"
           /\ \A x \in Entries : enbl'[x] = "on" <=> x # e /\ enbl[x] = "on"
           /\ \A x \in Entries : enbl'[x] # "off" => rule'[x] = rule[x]
           /\ \A x \in Entries : enbl'[x] = "dead" => x \in Base /\ nxt'[x] # 0
           /\ \A x \in Entries : enbl'[x] = "off" => nxt'[x] = 0
           /\ \A x \in Entries : enbl'[x] = "on" =>
                /\ indx'[x] = newIndx[x]
                /\ prv'[x] = IF e \in Expn /\ x = nxt[e] THEN prv[e] ELSE prv[x]
<1>1. e \in Base \/ e \in Expn
  BY EntryFacts DEF TableInv, TblChains
<1>2. TypeOK /\ TblChains
  BY DEF TableInv
<1>3. CASE e \in Base
  <2>1. TblNext(e) = nxt /\ RulePos(nxt, e) = IF nxt[e] = 0 THEN "ONLY_ONE" ELSE "HEAD"
    BY <1>3, EntryFacts DEF TblNext, RulePos
  <2>2. DeadHeads(e, nxt) = {}
    BY <2>1, <1>2, EntryFacts DEF DeadHeads, TblChains, Base, Entries
  <2>3. Cleared(e) = IF nxt[e] = 0 THEN {e} ELSE {}
    BY <2>1, <2>2 DEF Cleared
  <2>4. e \notin Expn
    BY <1>3, EntryFacts
  <2> QED
    BY <1>2, <1>3, <2>1, <2>3, <2>4 DEF DelTblRule, TypeOK, TblChains
<1>4. CASE e \in Expn
  <2> DEFINE p == prv[e]
  <2>1. /\ RulePos(nxt, e) = IF nxt[e] = 0 THEN "LAST" ELSE "MIDDLE"
        /\ TblNext(e) = Unlink(nxt, e, p)
    BY <1>4, EntryFacts DEF TblNext, RulePos
  <2>2. p \in Entries /\ p # 0 /\ nxt[p] = e
    BY <1>2, <1>4 DEF TblChains, TypeOK
  <2>3. \A x \in Entries : TblNext(e)[x] =
          IF x = e THEN 0 ELSE IF x = p THEN nxt[e] ELSE nxt[x]
    BY <2>1, <2>2, <1>2 DEF Unlink, TypeOK
  <2>4. \A x \in DeadHeads(e, TblNext(e)) : x \in Entries /\ x # e /\ enbl[x] = "dead"
                                             /\ TblNext(e)[x] = 0
    BY <2>1, <1>2, EntryFacts, SizeAssumption DEF DeadHeads, Entries, TblChains
  <2>5. \A x \in Entries : enbl[x] = "dead" /\ TblNext(e)[x] = 0 => x \in DeadHeads(e, TblNext(e))
    BY <1>2, EntryFacts, SizeAssumption DEF DeadHeads, TblChains, Base
  <2>6. Cleared(e) = {e} \cup DeadHeads(e, TblNext(e))
    BY <2>1 DEF Cleared
  <2>7. \A x \in Entries : enbl[x] = "dead" => x \in Base
    BY <1>2 DEF TblChains
  <2>8. \A x \in Entries : enbl[x] = "off" => x # p /\ nxt[x] = 0
    BY <1>2, <2>2, EntryFacts DEF TblChains
  <2>9. \A x \in Entries : x # 0 /\ x \notin Cleared(e) =>
           (IF RulePos(nxt, e) = "MIDDLE" THEN Relink(prv, nxt, e)[x] ELSE prv[x])
             = IF x = nxt[e] THEN prv[e] ELSE prv[x]
    BY <2>1, <1>2 DEF Relink, TypeOK, TblChains
  <2> HIDE DEF p
  <2>10. /\ \A x \in Entries : nxt'[x] = TblNext(e)[x]
         /\ \A x \in Entries : enbl[x] = "off" => enbl'[x] = "off"
         /\ \A x \in Entries : enbl'[x] = "on" <=> x # e /\ enbl[x] = "on"
         /\ \A x \in Entries : enbl'[x] # "off" => rule'[x] = rule[x]
    BY <1>2, <2>3, <2>4, <2>6 DEF DelTblRule, TypeOK
  <2>11. \A x \in Entries : enbl'[x] = "dead" => x \in Base /\ nxt'[x] # 0
    BY <1>2, <2>3, <2>4, <2>5, <2>6, <2>7 DEF DelTblRule, TypeOK
  <2>12. \A x \in Entries : enbl'[x] = "off" => nxt'[x] = 0
    BY <1>2, <2>3, <2>4, <2>6, <2>8 DEF DelTblRule, TypeOK
  <2>13. \A x \in Entries : enbl'[x] = "on" =>
                /\ indx'[x] = newIndx[x]
                /\ prv'[x] = IF x = nxt[e] THEN prv[e] ELSE prv[x]
    BY <1>2, <2>4, <2>6, <2>9, <2>10 DEF DelTblRule, TblChains
  <2> QED
    BY <1>4, <2>10, <2>11, <2>12, <2>13
<1> QED
  BY <1>1, <1>3, <1>4

\* A rule that is taken out of an expansion chain has one predecessor, not itself.
LEMMA TblPred ==
    ASSUME TableInv, NEW e \in Expn, enbl[e] = "on"
    PROVE  /\ prv[e] \in Entries /\ prv[e] # 0 /\ prv[e] # e /\ nxt[prv[e]] = e /\ nxt[e] # e
           /\ \A y \in Entries : nxt[y] = e => y = prv[e]
           /\ nxt \in [Entries -> Entries] /\ e \in Entries /\ e # 0 /\ e \notin Base
<1>1. /\ prv[e] \in Entries /\ prv[e] # 0 /\ nxt[prv[e]] = e
      /\ \A y \in Entries : nxt[y] = e => y = prv[e]
      /\ nxt \in [Entries -> Entries] /\ e \in Entries /\ e # 0 /\ e \notin Base
  BY EntryFacts DEF TableInv, TypeOK, TblChains
<1>2. DstHash[rule[e]] \in Base /\ DstHash[rule[e]] \in Entries /\ e \in Reach(nxt, DstHash[rule[e]])
  BY <1>1, EntryFacts DEF TableInv, TblChains, Reachable
<1> QED
  BY <1>1, <1>2, NoSelfLoop

\* A deletion keeps the chains of the rule table.
LEMMA DelTblInv ==
    ASSUME TableInv, TypeOK', NEW e \in Entries, enbl[e] = "on", NEW newIndx, DelTblRule(e, newIndx)
    PROVE  /\ TblChains'
           /\ \A x \in Entries : enbl'[x] = "on" => x \in Reach(nxt', DstHash[rule'[x]])
           /\ \A d \in Base : Tails(nxt', d) # {}
<1>1. /\ \A x \in Entries : nxt'[x] = TblNext(e)[x]
      /\ \A x \in Entries : enbl[x] = "off" => enbl'[x] = "off"
      /\ \A x \in Entries : enbl'[x] = "on" <=> x # e /\ enbl[x] = "on"
      /\ \A x \in Entries : enbl'[x] # "off" => rule'[x] = rule[x]
      /\ \A x \in Entries : enbl'[x] = "dead" => x \in Base /\ nxt'[x] # 0
      /\ \A x \in Entries : enbl'[x] = "off" => nxt'[x] = 0
      /\ \A x \in Entries : enbl'[x] = "on" =>
           prv'[x] = IF e \in Expn /\ x = nxt[e] THEN prv[e] ELSE prv[x]
  BY DelTblFacts
<1>2. TypeOK /\ TblChains /\ Reachable /\ ChainsEnd
  BY DEF TableInv
<1>3. e \in Base \/ e \in Expn
  BY <1>2, EntryFacts DEF TblChains
<1>4. \A x \in Entries : enbl'[x] \in {"off", "on", "dead"} /\ enbl[x] \in {"off", "on", "dead"}
  BY <1>2 DEF TypeOK
<1>5. CASE e \in Base
  <2>1. TblNext(e) = nxt /\ e \notin Expn
    BY <1>5, EntryFacts DEF TblNext, RulePos
  <2>2. nxt' = nxt
    <3>1. \A x \in Entries : nxt'[x] = nxt[x]
      BY <1>1, <2>1
    <3> QED BY <3>1, <1>2 DEF TypeOK
  <2>3. TblChains'
    BY <1>1, <1>2, <1>4, <2>1, <2>2, EntryFacts DEF TblChains, TypeOK
  <2>4. \A x \in Entries : enbl'[x] = "on" => x \in Reach(nxt', DstHash[rule'[x]])
    BY <1>1, <1>2, <2>2 DEF Reachable
  <2> QED
    BY <1>2, <2>2, <2>3, <2>4 DEF ChainsEnd
<1>6. CASE e \in Expn
  <2> DEFINE p == prv[e]
  <2>1. /\ p \in Entries /\ p # 0 /\ p # e /\ nxt[p] = e /\ nxt[e] # e
        /\ \A y \in Entries : nxt[y] = e => y = p
        /\ nxt \in [Entries -> Entries] /\ e # 0 /\ e \notin Base
    BY <1>6, TblPred
  <2> HIDE DEF p
  <2>2. TblNext(e) = Unlink(nxt, e, p)
    BY <1>6, EntryFacts DEF TblNext, RulePos, p
  <2>3. nxt' = Unlink(nxt, e, p)
    <3>1. Unlink(nxt, e, p) \in [Entries -> Entries]
      BY <2>1, EntryFacts DEF Unlink
    <3> QED BY <3>1, <1>1, <2>2 DEF TypeOK
  <2>4. nxt'[e] = 0 /\ nxt'[p] = nxt[e] /\ \A x \in Entries : x # e /\ x # p => nxt'[x] = nxt[x]
    BY <2>1, <2>3, ZeroEntry DEF Unlink
  <2>5. /\ \A x \in Entries : enbl[x] # "off" => rule[x] \in Rules
        /\ \A x \in Entries : nxt[x] # 0 =>
             /\ nxt[x] \in Expn /\ enbl[nxt[x]] = "on" /\ prv[nxt[x]] = x /\ enbl[x] # "off"
             /\ DstHash[rule[nxt[x]]] = DstHash[rule[x]]
        /\ enbl[p] # "off" /\ DstHash[rule[e]] = DstHash[rule[p]]
    BY <1>2, <2>1 DEF TblChains
  <2>6. ASSUME NEW x \in Entries, nxt'[x] # 0
        PROVE  /\ nxt'[x] \in Expn /\ enbl'[nxt'[x]] = "on" /\ prv'[nxt'[x]] = x
               /\ DstHash[rule'[nxt'[x]]] = DstHash[rule'[x]]
    <3>1. enbl'[x] # "off" /\ rule'[x] = rule[x] /\ x # e
      BY <2>6, <1>1, <2>4
    <3>2. CASE x = p
      <4>1. nxt'[x] = nxt[e] /\ nxt[e] # 0 /\ nxt[e] # e
        BY <3>2, <2>1, <2>4, <2>6
      <4>2. /\ nxt[e] \in Expn /\ enbl[nxt[e]] = "on" /\ nxt[e] \in Entries
            /\ DstHash[rule[nxt[e]]] = DstHash[rule[e]]
        BY <4>1, <2>5, EntryFacts
      <4>3. enbl'[nxt[e]] = "on" /\ rule'[nxt[e]] = rule[nxt[e]] /\ prv'[nxt[e]] = p
        BY <4>1, <4>2, <1>1, <1>6 DEF p
      <4> QED BY <3>1, <3>2, <4>1, <4>2, <4>3, <2>5
    <3>3. CASE x # p
      <4>1. nxt'[x] = nxt[x] /\ nxt[x] # 0 /\ nxt[x] # e
        BY <3>1, <3>3, <2>1, <2>4, <2>6
      <4>2. /\ nxt[x] \in Expn /\ enbl[nxt[x]] = "on" /\ nxt[x] \in Entries /\ prv[nxt[x]] = x
            /\ DstHash[rule[nxt[x]]] = DstHash[rule[x]]
        BY <4>1, <2>5, EntryFacts
      <4>3. nxt[x] # nxt[e]
        BY <3>1, <4>1, <2>5
      <4>4. enbl'[nxt[x]] = "on" /\ rule'[nxt[x]] = rule[nxt[x]] /\ prv'[nxt[x]] = x
        BY <4>1, <4>2, <4>3, <1>1
      <4> QED BY <3>1, <4>1, <4>2, <4>4
    <3> QED BY <3>2, <3>3
  <2>7. ASSUME NEW x \in Expn, enbl'[x] = "on" PROVE prv'[x] # 0 /\ nxt'[prv'[x]] = x
    <3>1. x \in Entries /\ x # e /\ enbl[x] = "on" /\ x # 0
      BY <2>7, <1>1, EntryFacts
    <3>2. prv[x] \in Entries /\ prv[x] # 0 /\ nxt[prv[x]] = x /\ prv[x] # p
      BY <3>1, <1>2, <2>1 DEF TblChains, TypeOK
    <3>3. CASE x = nxt[e]
      BY <3>1, <3>3, <2>1, <2>4, <2>7, <1>1, <1>6 DEF p
    <3>4. CASE x # nxt[e]
      <4>1. prv'[x] = prv[x] /\ prv[x] # e
        BY <3>1, <3>2, <3>4, <2>7, <1>1
      <4> QED BY <4>1, <3>2, <2>4
    <3> QED BY <3>3, <3>4
  <2>8. TblChains'
    <3>1. enbl'[0] = "off" /\ enbl'[TableEntries] = "off"
      BY <1>1, <1>2, EntryFacts DEF TblChains
    <3>2. \A x \in Entries : enbl'[x] # "off" =>
            rule'[x] \in Rules /\ (x < TableEntries => DstHash[rule'[x]] = x)
      BY <1>1, <1>2, <1>4 DEF TblChains
    <3> QED BY <1>1, <3>1, <3>2, <2>6, <2>7 DEF TblChains
  <2>9. ASSUME NEW x \in Entries, enbl'[x] = "on" PROVE x \in Reach(nxt', DstHash[rule'[x]])
    <3>1. x # e /\ enbl[x] = "on" /\ rule'[x] = rule[x]
      BY <2>9, <1>1
    <3>2. x \in Reach(nxt, DstHash[rule[x]]) /\ DstHash[rule[x]] \in Base
      BY <3>1, <1>2, <2>5, EntryFacts DEF Reachable
    <3>3. DstHash[rule[x]] \in Entries /\ DstHash[rule[x]] # 0 /\ DstHash[rule[x]] # e
      BY <3>2, <2>1, EntryFacts
    <3> QED BY <3>1, <3>2, <3>3, <2>1, <2>3, UnlinkReach
  <2>10. ASSUME NEW d \in Base PROVE Tails(nxt', d) # {}
    <3>1. d \in Entries /\ d # 0 /\ d # e /\ Tails(nxt, d) # {}
      BY <1>2, <2>1, EntryFacts DEF ChainsEnd
    <3> QED BY <3>1, <2>1, <2>3, UnlinkTails
  <2> QED BY <2>8, <2>9, <2>10
<1> QED
  BY <1>3, <1>5, <1>6

\* The same for an entry of an expansion chain of the index table.
LEMMA IdxPred ==
    ASSUME TableInv, NEW m \in Expn, idxEnt[m] # 0
    PROVE  /\ idxPrv[m] \in Entries /\ idxPrv[m] # 0 /\ idxPrv[m] # m
           /\ idxNxt[idxPrv[m]] = m /\ idxNxt[m] # m
           /\ \A y \in Entries : idxNxt[y] = m => y = idxPrv[m]
           /\ idxNxt \in [Entries -> Entries] /\ m \in Entries /\ m # 0 /\ m \notin Base
<1>1. /\ idxPrv[m] \in Entries /\ idxPrv[m] # 0 /\ idxNxt[idxPrv[m]] = m
      /\ \A y \in Entries : idxNxt[y] = m => y = idxPrv[m]
      /\ idxNxt \in [Entries -> Entries] /\ m \in Entries /\ m # 0 /\ m \notin Base
  BY EntryFacts DEF TableInv, TypeOK, IdxChains
<1>2. enbl[idxEnt[m]] = "on" /\ idxEnt[m] \in Entries /\ m \in Reach(idxNxt, SrcHash[rule[idxEnt[m]]])
  BY <1>1 DEF TableInv, IdxChains, Reachable, TypeOK
<1>3. SrcHash[rule[idxEnt[m]]] \in Base /\ SrcHash[rule[idxEnt[m]]] \in Entries
  BY <1>2, EntryFacts DEF TableInv, TblChains
<1> QED
  BY <1>1, <1>2, <1>3, NoSelfLoop

\* Taking the index entry m out keeps the rest of the index table in order, own
\* giving the rule of every index entry that remains.
LEMMA IdxUnlinkInv ==
    ASSUME TableInv, TypeOK', NEW e \in Entries, enbl[e] = "on",
           \A x \in Entries : enbl'[x] = "on" <=> x # e /\ enbl[x] = "on",
           \A x \in Entries : enbl'[x] # "off" => rule'[x] = rule[x],
           NEW m \in Expn, idxEnt[m] # 0,
           idxNxt' = Unlink(idxNxt, m, idxPrv[m]),
           idxEnt'[m] = 0,
           \A x \in Entries : x # m =>
             /\ idxEnt[x] # 0 => idxEnt'[x] # 0
             /\ idxEnt[x] = 0 => idxEnt'[x] = 0
             /\ idxEnt'[x] # 0 =>
                  /\ enbl'[idxEnt'[x]] = "on" /\ indx'[idxEnt'[x]] = x
                  /\ SrcHash[rule[idxEnt'[x]]] = SrcHash[rule[idxEnt[x]]],
           \A x \in Entries : enbl'[x] = "on" => idxEnt'[indx'[x]] = x,
           \A x \in Entries : x # m => idxPrv'[x] = IF x = idxNxt[m] /\ x # 0 THEN idxPrv[m] ELSE idxPrv[x]
    PROVE  /\ IdxChains'
           /\ \A x \in Entries : idxEnt'[x] # 0 => x \in Reach(idxNxt', SrcHash[rule'[idxEnt'[x]]])
           /\ \A d \in Base : Tails(idxNxt', d) # {}
<1> DEFINE q == idxPrv[m]
<1>1. /\ q \in Entries /\ q # 0 /\ q # m /\ idxNxt[q] = m /\ idxNxt[m] # m
      /\ \A y \in Entries : idxNxt[y] = m => y = q
      /\ idxNxt \in [Entries -> Entries] /\ m \in Entries /\ m # 0 /\ m \notin Base
  BY IdxPred
<1>2. IdxChains /\ TypeOK /\ TblChains /\ Reachable /\ ChainsEnd
  BY DEF TableInv
<1>3. idxNxt' = Unlink(idxNxt, m, q) /\ idxNxt'[m] = 0 /\ idxNxt'[q] = idxNxt[m]
      /\ \A x \in Entries : x # m /\ x # q => idxNxt'[x] = idxNxt[x]
  BY <1>1, ZeroEntry DEF Unlink
<1>4. /\ \A x \in Entries : idxEnt[x] = 0 => idxNxt[x] = 0
      /\ \A x \in Entries : idxNxt[x] # 0 =>
         /\ idxNxt[x] \in Expn /\ idxEnt[idxNxt[x]] # 0 /\ idxPrv[idxNxt[x]] = x
         /\ SrcHash[rule[idxEnt[idxNxt[x]]]] = SrcHash[rule[idxEnt[x]]] /\ idxEnt[x] # 0
  BY <1>2 DEF IdxChains
<1>5. \A x \in Entries : idxEnt'[x] # 0 =>
         x # m /\ idxEnt[x] # 0 /\ idxEnt'[x] \in Entries /\ rule'[idxEnt'[x]] = rule[idxEnt'[x]]
         /\ SrcHash[rule[idxEnt'[x]]] = SrcHash[rule[idxEnt[x]]] /\ SrcHash[rule[idxEnt[x]]] \in Base
  <2> SUFFICES ASSUME NEW x \in Entries, idxEnt'[x] # 0
               PROVE  x # m /\ idxEnt[x] # 0 /\ idxEnt'[x] \in Entries
                      /\ rule'[idxEnt'[x]] = rule[idxEnt'[x]]
                      /\ SrcHash[rule[idxEnt'[x]]] = SrcHash[rule[idxEnt[x]]]
                      /\ SrcHash[rule[idxEnt[x]]] \in Base
    OBVIOUS
  <2>1. x # m /\ idxEnt[x] # 0 /\ idxEnt'[x] \in Entries /\ idxEnt[x] \in Entries
    BY <1>2 DEF TypeOK
  <2>2. enbl[idxEnt[x]] = "on"
    BY <2>1, <1>2 DEF IdxChains
  <2>3. SrcHash[rule[idxEnt[x]]] \in Base
    BY <2>1, <2>2, <1>2, EntryFacts DEF TblChains
  <2> QED BY <2>1, <2>3
<1> HIDE DEF q
<1>6. ASSUME NEW x \in Entries, idxNxt'[x] # 0
      PROVE  /\ idxNxt'[x] \in Expn /\ idxEnt'[idxNxt'[x]] # 0 /\ idxPrv'[idxNxt'[x]] = x
             /\ SrcHash[rule'[idxEnt'[idxNxt'[x]]]] = SrcHash[rule'[idxEnt'[x]]]
             /\ idxEnt'[x] # 0
  <2>1. x # m
    BY <1>3, <1>6
  <2>2. CASE x = q
    <3>1. idxNxt'[x] = idxNxt[m] /\ idxNxt[m] # 0 /\ idxNxt[m] # m /\ idxNxt[m] \in Entries
      BY <2>2, <1>1, <1>3, <1>6
    <3>2. /\ idxNxt[m] \in Expn /\ idxEnt[idxNxt[m]] # 0 /\ idxEnt[q] # 0
          /\ SrcHash[rule[idxEnt[idxNxt[m]]]] = SrcHash[rule[idxEnt[q]]]
      BY <3>1, <1>1, <1>4
    <3>3. idxEnt'[idxNxt[m]] # 0 /\ idxPrv'[idxNxt[m]] = q /\ idxEnt'[q] # 0
      BY <3>1, <3>2, <1>1 DEF q
    <3> QED BY <2>2, <3>1, <3>2, <3>3, <1>1, <1>5
  <2>3. CASE x # q
    <3>1. idxNxt'[x] = idxNxt[x] /\ idxNxt[x] # 0 /\ idxNxt[x] # m /\ idxNxt[x] \in Entries
      BY <2>1, <2>3, <1>1, <1>3, <1>6
    <3>2. /\ idxNxt[x] \in Expn /\ idxEnt[idxNxt[x]] # 0 /\ idxEnt[x] # 0 /\ idxPrv[idxNxt[x]] = x
          /\ SrcHash[rule[idxEnt[idxNxt[x]]]] = SrcHash[rule[idxEnt[x]]]
      BY <3>1, <1>4
    <3>3. idxNxt[x] # idxNxt[m]
      BY <2>1, <3>1, <3>2, <1>1, <1>4
    <3>4. idxEnt'[idxNxt[x]] # 0 /\ idxPrv'[idxNxt[x]] = x /\ idxEnt'[x] # 0
      BY <2>1, <3>1, <3>2, <3>3
    <3> QED BY <3>1, <3>2, <3>4, <1>5
  <2> QED BY <2>2, <2>3
<1>7. ASSUME NEW x \in Expn, idxEnt'[x] # 0 PROVE idxPrv'[x] # 0 /\ idxNxt'[idxPrv'[x]] = x
  <2>1. x \in Entries /\ x # m /\ idxEnt[x] # 0 /\ x # 0
    BY <1>5, <1>7, EntryFacts
  <2>2. idxPrv[x] \in Entries /\ idxPrv[x] # 0 /\ idxNxt[idxPrv[x]] = x /\ idxPrv[x] # q
    BY <2>1, <1>1, <1>2 DEF IdxChains, TypeOK
  <2>3. CASE x = idxNxt[m]
    <3>1. idxPrv'[x] = q
      BY <2>1, <2>3 DEF q
    <3> QED BY <3>1, <2>3, <1>1, <1>3
  <2>4. CASE x # idxNxt[m]
    <3>1. idxPrv'[x] = idxPrv[x] /\ idxPrv[x] # m
      BY <2>1, <2>2, <2>4
    <3> QED BY <3>1, <2>2, <1>3
  <2> QED BY <2>3, <2>4
<1>8. IdxChains'
  <2>1. idxEnt'[0] = 0 /\ idxEnt'[TableEntries] = 0
    BY <1>2, <1>1, EntryFacts DEF IdxChains
  <2>2. \A x \in Entries : idxEnt'[x] = 0 => idxNxt'[x] = 0
    BY <1>6
  <2>3. ASSUME NEW x \in Entries, idxEnt'[x] # 0
        PROVE  /\ enbl'[idxEnt'[x]] = "on" /\ indx'[idxEnt'[x]] = x
               /\ x < TableEntries => SrcHash[rule'[idxEnt'[x]]] = x
    <3>1. x # m /\ idxEnt[x] # 0 /\ SrcHash[rule'[idxEnt'[x]]] = SrcHash[rule[idxEnt[x]]]
      BY <2>3, <1>5
    <3> QED BY <2>3, <3>1, <1>2 DEF IdxChains
  <2> QED BY <2>1, <2>2, <2>3, <1>6, <1>7 DEF IdxChains
<1>9. ASSUME NEW x \in Entries, idxEnt'[x] # 0
      PROVE  x \in Reach(idxNxt', SrcHash[rule'[idxEnt'[x]]])
  <2> DEFINE d == SrcHash[rule[idxEnt[x]]]
  <2>1. x # m /\ x \in Reach(idxNxt, d) /\ d \in Base /\ SrcHash[rule'[idxEnt'[x]]] = d
    BY <1>2, <1>5, <1>9 DEF Reachable
  <2>2. d \in Entries /\ d # 0 /\ d # m
    BY <2>1, <1>1, EntryFacts
  <2> HIDE DEF d
  <2> QED BY <2>1, <2>2, <1>1, <1>3, UnlinkReach
<1>10. ASSUME NEW d \in Base PROVE Tails(idxNxt', d) # {}
  <2>1. d \in Entries /\ d # 0 /\ d # m /\ Tails(idxNxt, d) # {}
    BY <1>1, <1>2, EntryFacts DEF ChainsEnd
  <2> QED BY <2>1, <1>1, <1>3, UnlinkTails
<1> QED
  BY <1>8, <1>9, <1>10

\* A deletion keeps the structure of the table and of the index table.
LEMMA DelRuleInv ==
    ASSUME TableInv, NEW h \in Handles, DelRule(h)
    PROVE  TableInv'
<1> DEFINE e == ruleId[h]
           i == indx[e]
           n == idxNxt[i]
           newIndx == IF RulePos(idxNxt, i) = "HEAD" THEN [indx EXCEPT ![idxEnt[n]] = i] ELSE indx
<1>1. TypeOK /\ TypeOK' /\ TblChains /\ IdxChains /\ HandlesOwn
  <2>1. TypeOK BY DEF TableInv
  <2>2. Next BY DEF Next
  <2> QED BY <2>1, <2>2, TypeStep DEF TableInv
<1>2. /\ e # 0 /\ DelTblRule(e, newIndx) /\ ruleId' = [ruleId EXCEPT ![h] = 0]
      /\ CASE RulePos(idxNxt, i) = "HEAD" -> DelIndexHead(i)
           [] RulePos(idxNxt, i) = "ONLY_ONE" -> DelIndexOnlyOne(i)
           [] OTHER -> DelIndexMiddleOrLast(i)
  BY DEF DelRule
<1>3. e \in Entries /\ enbl[e] = "on" /\ i \in Entries /\ idxEnt[i] = e
  BY <1>1, <1>2 DEF TypeOK, HandlesOwn, Live, IdxChains
<1>4. i # 0 /\ i # TableEntries /\ (i \in Base \/ i \in Expn)
  BY <1>1, <1>2, <1>3, EntryFacts DEF IdxChains
<1> HIDE DEF e, i, newIndx
<1>5. /\ \A x \in Entries : enbl'[x] = "on" <=> x # e /\ enbl[x] = "on"
      /\ \A x \in Entries : enbl'[x] # "off" => rule'[x] = rule[x]
      /\ \A x \in Entries : enbl'[x] = "on" => indx'[x] = newIndx[x]
  BY <1>2, <1>3, DelTblFacts
<1>6. /\ TblChains'
      /\ \A x \in Entries : enbl'[x] = "on" => x \in Reach(nxt', DstHash[rule'[x]])
      /\ \A d \in Base : Tails(nxt', d) # {}
  BY <1>1, <1>2, <1>3, DelTblInv
<1>7. HandlesOwn'
  <2>1. \A g \in Handles : ruleId'[g] = IF g = h THEN 0 ELSE ruleId[g]
    BY <1>1, <1>2 DEF TypeOK
  <2>2. Live' = Live \ {h}
    BY <2>1 DEF Live
  <2>3. h \in Live /\ Live \subseteq Handles
    BY <1>2 DEF Live, e
  <2>4. \A g \in Live : ruleId[g] = e => g = h
    BY <1>1, <2>3 DEF HandlesOwn, HandlesDistinct, e
  <2>5. \A g \in Live' : enbl'[ruleId'[g]] = "on"
    BY <1>1, <1>5, <2>1, <2>2, <2>3, <2>4 DEF HandlesOwn, TypeOK
  <2>6. ASSUME NEW x \in Entries, enbl'[x] = "on" PROVE \E g \in Live' : ruleId'[g] = x
    <3>1. x # e /\ enbl[x] = "on"
      BY <2>6, <1>5
    <3>2. PICK g \in Live : ruleId[g] = x
      BY <3>1, <1>1 DEF HandlesOwn
    <3> QED BY <3>1, <3>2, <2>1, <2>2, <2>3 DEF e
  <2>7. HandlesDistinct'
    BY <1>1, <2>1, <2>2, <2>3 DEF HandlesOwn, HandlesDistinct
  <2> QED BY <2>5, <2>6, <2>7 DEF HandlesOwn
<1>8. \A x \in Entries : idxEnt[x] # 0 => /\ idxEnt[x] \in Entries /\ enbl[idxEnt[x]] = "on"
                                          /\ indx[idxEnt[x]] = x
  BY <1>1 DEF IdxChains, TypeOK
<1>9. \A x \in Entries : enbl[x] = "on" => /\ indx[x] \in Entries /\ idxEnt[indx[x]] = x /\ x # 0
                                           /\ (indx[x] = i => x = e)
  BY <1>1, <1>3 DEF IdxChains, TypeOK, TblChains
<1>10. /\ IdxChains'
       /\ \A x \in Entries : idxEnt'[x] # 0 => x \in Reach(idxNxt', SrcHash[rule'[idxEnt'[x]]])
       /\ \A d \in Base : Tails(idxNxt', d) # {}
  <2>1. CASE i \in Base /\ idxNxt[i] # 0
    <3>1. RulePos(idxNxt, i) = "HEAD"
      BY <2>1, EntryFacts DEF RulePos
    <3>2. DelIndexHead(i) /\ newIndx = [indx EXCEPT ![idxEnt[n]] = i]
      BY <3>1, <1>2 DEF newIndx
    <3>3. /\ n \in Expn /\ n \in Entries /\ idxEnt[n] # 0 /\ idxPrv[n] = i /\ n # i
          /\ SrcHash[rule[idxEnt[n]]] = SrcHash[rule[e]]
      BY <2>1, <1>1, <1>3, EntryFacts DEF IdxChains
    <3>4. idxEnt[n] \in Entries /\ idxEnt[n] # e /\ enbl[idxEnt[n]] = "on" /\ indx[idxEnt[n]] = n
      BY <3>3, <1>8, <1>3 DEF i
    <3>5. /\ \A x \in Entries : idxEnt'[x] = IF x = i THEN idxEnt[n] ELSE IF x = n THEN 0 ELSE idxEnt[x]
          /\ idxNxt' = Unlink(idxNxt, n, idxPrv[n])
      BY <3>2, <3>3, <1>1, <1>3 DEF DelIndexHead, Unlink, TypeOK
    <3>6. idxNxt[n] # n /\ idxNxt[n] \in Entries
      BY <3>3, <1>1, IdxPred DEF TypeOK
    <3>7. \A x \in Entries : x # n =>
            idxPrv'[x] = IF x = idxNxt[n] /\ x # 0 THEN idxPrv[n] ELSE idxPrv[x]
      BY <3>2, <3>3, <3>6, <1>1 DEF DelIndexHead, TypeOK
    <3>8. \A x \in Entries : enbl'[x] = "on" => indx'[x] = IF x = idxEnt[n] THEN i ELSE indx[x]
      BY <3>2, <3>4, <1>1, <1>5 DEF TypeOK
    <3>9. \A x \in Entries : enbl'[x] = "on" => idxEnt'[indx'[x]] = x
      BY <3>3, <3>4, <3>5, <3>8, <1>3, <1>5, <1>9
    <3>10. ASSUME NEW x \in Entries, x # n
           PROVE  /\ idxEnt[x] # 0 => idxEnt'[x] # 0
                  /\ idxEnt[x] = 0 => idxEnt'[x] = 0
                  /\ idxEnt'[x] # 0 =>
                       /\ enbl'[idxEnt'[x]] = "on" /\ indx'[idxEnt'[x]] = x
                       /\ SrcHash[rule[idxEnt'[x]]] = SrcHash[rule[idxEnt[x]]]
      <4>1. CASE x = i
        BY <4>1, <3>3, <3>4, <3>5, <3>8, <1>2, <1>3, <1>5
      <4>2. CASE x # i
        <5>1. idxEnt'[x] = idxEnt[x]
          BY <4>2, <3>5, <3>10
        <5>2. ASSUME idxEnt[x] # 0 PROVE enbl'[idxEnt[x]] = "on" /\ indx'[idxEnt[x]] = x
          <6>1. idxEnt[x] # e /\ idxEnt[x] # idxEnt[n]
            BY <4>2, <5>2, <3>4, <3>10, <1>8 DEF i
          <6> QED BY <6>1, <5>2, <3>8, <1>5, <1>8
        <5> QED BY <5>1, <5>2
      <4> QED BY <4>1, <4>2
    <3>11. idxEnt'[n] = 0
      BY <3>3, <3>5
    <3> HIDE DEF n
    <3> QED
      BY <3>3, <3>5, <3>7, <3>9, <3>10, <3>11, <1>1, <1>3, <1>5, IdxUnlinkInv
  <2>2. CASE i \in Expn
    <3>1. RulePos(idxNxt, i) \in {"MIDDLE", "LAST"}
      BY <2>2, EntryFacts DEF RulePos
    <3>2. DelIndexMiddleOrLast(i) /\ newIndx = indx
      BY <3>1, <1>2 DEF newIndx
    <3>3. /\ \A x \in Entries : idxEnt'[x] = IF x = i THEN 0 ELSE idxEnt[x]
          /\ idxNxt' = Unlink(idxNxt, i, idxPrv[i])
      BY <3>2, <1>1 DEF DelIndexMiddleOrLast, TypeOK
    <3>4. \A x \in Entries : x # i =>
            idxPrv'[x] = IF x = idxNxt[i] /\ x # 0 THEN idxPrv[i] ELSE idxPrv[x]
      BY <3>2, <1>1, <1>3 DEF DelIndexMiddleOrLast, Relink, TypeOK
    <3>5. \A x \in Entries : enbl'[x] = "on" => idxEnt'[indx'[x]] = x
      BY <3>2, <3>3, <1>5, <1>9
    <3>6. ASSUME NEW x \in Entries, x # i
          PROVE  /\ idxEnt[x] # 0 => idxEnt'[x] # 0
                 /\ idxEnt[x] = 0 => idxEnt'[x] = 0
                 /\ idxEnt'[x] # 0 =>
                      /\ enbl'[idxEnt'[x]] = "on" /\ indx'[idxEnt'[x]] = x
                      /\ SrcHash[rule[idxEnt'[x]]] = SrcHash[rule[idxEnt[x]]]
      <4>1. idxEnt'[x] = idxEnt[x]
        BY <3>3, <3>6
      <4>2. idxEnt[x] # 0 => idxEnt[x] # e
        BY <3>6, <1>8 DEF i
      <4> QED BY <4>1, <4>2, <3>2, <1>5, <1>8
    <3>7. idxEnt'[i] = 0 /\ idxEnt[i] # 0
      BY <3>3, <1>2, <1>3
    <3> QED
      BY <2>2, <3>3, <3>4, <3>5, <3>6, <3>7, <1>1, <1>3, <1>5, IdxUnlinkInv
  <2>3. CASE i \in Base /\ idxNxt[i] = 0
    <3>1. RulePos(idxNxt, i) = "ONLY_ONE"
      BY <2>3, EntryFacts DEF RulePos
    <3>2. DelIndexOnlyOne(i) /\ newIndx = indx
      BY <3>1, <1>2 DEF newIndx
    <3>3. /\ \A x \in Entries : idxEnt'[x] = IF x = i THEN 0 ELSE idxEnt[x]
          /\ idxNxt' = idxNxt /\ idxPrv' = idxPrv
      BY <3>2, <1>1 DEF DelIndexOnlyOne, TypeOK
    <3>4. \A x \in Entries : enbl'[x] = "on" => idxEnt'[indx'[x]] = x
      BY <3>2, <3>3, <1>5, <1>9
    <3>5. ASSUME NEW x \in Entries, idxEnt'[x] # 0
          PROVE  /\ idxEnt'[x] = idxEnt[x] /\ x # i /\ idxEnt[x] # e
                 /\ enbl'[idxEnt[x]] = "on" /\ indx'[idxEnt[x]] = x
                 /\ rule'[idxEnt[x]] = rule[idxEnt[x]]
      BY <3>2, <3>3, <3>5, <1>5, <1>8 DEF i
    <3>6. \A x \in Entries : idxNxt[x] # 0 =>
            /\ x # i /\ idxNxt[x] # i /\ idxNxt[x] \in Expn /\ idxNxt[x] \in Entries
            /\ idxEnt[x] # 0 /\ idxEnt[idxNxt[x]] # 0 /\ idxPrv[idxNxt[x]] = x
            /\ SrcHash[rule[idxEnt[idxNxt[x]]]] = SrcHash[rule[idxEnt[x]]]
      BY <2>3, <1>1, EntryFacts DEF IdxChains
    <3>7. IdxChains'
      <4>1. idxEnt'[0] = 0 /\ idxEnt'[TableEntries] = 0
        BY <3>3, <1>1, EntryFacts DEF IdxChains
      <4>2. \A x \in Entries : idxEnt'[x] = 0 => idxNxt'[x] = 0
        BY <2>3, <3>3, <1>1 DEF IdxChains
      <4>3. \A x \in Entries : idxEnt'[x] # 0 =>
              /\ enbl'[idxEnt'[x]] = "on" /\ indx'[idxEnt'[x]] = x
              /\ x < TableEntries => SrcHash[rule'[idxEnt'[x]]] = x
        BY <3>5, <1>1 DEF IdxChains
      <4>4. \A x \in Entries : idxNxt'[x] # 0 =>
              /\ idxNxt'[x] \in Expn /\ idxEnt'[idxNxt'[x]] # 0 /\ idxPrv'[idxNxt'[x]] = x
              /\ SrcHash[rule'[idxEnt'[idxNxt'[x]]]] = SrcHash[rule'[idxEnt'[x]]]
        BY <3>3, <3>5, <3>6
      <4>5. \A x \in Expn : idxEnt'[x] # 0 => idxPrv'[x] # 0 /\ idxNxt'[idxPrv'[x]] = x
        BY <3>3, <3>5, <1>1, EntryFacts DEF IdxChains
      <4> QED BY <3>4, <4>1, <4>2, <4>3, <4>4, <4>5 DEF IdxChains
    <3>8. \A x \in Entries : idxEnt'[x] # 0 => x \in Reach(idxNxt', SrcHash[rule'[idxEnt'[x]]])
      BY <3>3, <3>5 DEF TableInv, Reachable
    <3>9. \A d \in Base : Tails(idxNxt', d) # {}
      BY <3>3 DEF TableInv, ChainsEnd
    <3> QED BY <3>7, <3>8, <3>9
  <2> QED BY <1>4, <2>1, <2>2, <2>3
<1> QED
  BY <1>1, <1>6, <1>7, <1>10 DEF TableInv, Reachable, ChainsEnd

AllZero ==
    /\ enbl = [x \in Entries |-> "off"] /\ nxt = [x \in Entries |-> 0]
    /\ idxEnt = [x \in Entries |-> 0] /\ idxNxt = [x \in Entries |-> 0]
    /\ ruleId = [g \in Handles |-> 0]

\* A table whose memory is all zero is in order.
LEMMA ZeroedInv == TypeOK /\ AllZero => TableInv
<1> SUFFICES ASSUME TypeOK, AllZero PROVE TableInv
  OBVIOUS
<1> USE DEF AllZero
<1>1. TblChains /\ IdxChains
  BY EntryFacts DEF TblChains, IdxChains
<1>2. HandlesOwn
  BY DEF HandlesOwn, HandlesDistinct, Live
<1>3. Reachable
  BY DEF Reachable
<1>4. ChainsEnd
  BY EntryFacts, ReachStart DEF ChainsEnd, Tails
<1> QED
  BY <1>1, <1>2, <1>3, <1>4 DEF TableInv

\* The structure of both tables is an invariant of the driver when its DMA
\* commands succeed: chains, back pointers, ownership and reachability.
THEOREM TableInvariant == ASSUME DmaMayFail = FALSE PROVE Spec => []TableInv
<1>1. Init => TableInv
  <2> SUFFICES ASSUME Init PROVE TableInv
    OBVIOUS
  <2>1. TypeOK
    BY ZeroEntry DEF Init, TypeOK
  <2> QED BY <2>1, ZeroedInv DEF Init, AllZero
<1>0. TypeOK' /\ AllZero' => TableInv'
  BY ZeroedInv, PTL
<1>2. TableInv /\ [Next]_vars => TableInv'
  <2> SUFFICES ASSUME TableInv, [Next]_vars PROVE TableInv'
    OBVIOUS
  <2>1. TypeOK'
    BY TypeStep DEF TableInv
  <2>2. CASE AddTable \/ DelTable
    BY <2>1, <2>2, <1>0 DEF AddTable, DelTable, Zeroed, AllZero
  <2>3. ASSUME NEW r \in Rules, AddRule(r) PROVE TableInv'
    BY <2>3, AddRuleInv
  <2>4. ASSUME NEW h \in Handles, DelRule(h) PROVE TableInv'
    BY <2>4, DelRuleInv
  <2>5. CASE UNCHANGED vars
    BY <2>5 DEF vars, TableInv, TypeOK, TblChains, IdxChains, HandlesOwn, HandlesDistinct,
       Live, Reachable, ChainsEnd
  <2> QED BY <2>2, <2>3, <2>4, <2>5 DEF Next
<1> QED
  BY <1>1, <1>2, PTL DEF Spec

\* For every table size, rule set and hash: every rule whose handle was given
\* out is found on the chain of its target hash and, through the index table,
\* on the chain of its source hash.
THEOREM LookupsComplete ==
    ASSUME DmaMayFail = FALSE PROVE Spec => [](DstLookupComplete /\ SrcLookupComplete)
<1>1. TableInv => DstLookupComplete /\ SrcLookupComplete
  <2> SUFFICES ASSUME TableInv, NEW h \in Live
               PROVE  LET e == ruleId[h] IN
                      /\ enbl[e] = "on" /\ rule[e] \in Rules
                      /\ e \in Reach(nxt, DstHash[rule[e]])
                      /\ idxEnt[indx[e]] = e
                      /\ indx[e] \in Reach(idxNxt, SrcHash[rule[e]])
    BY DEF DstLookupComplete, SrcLookupComplete
  <2> DEFINE e == ruleId[h]
  <2>1. e \in Entries /\ e # 0 /\ enbl[e] = "on" /\ indx[e] \in Entries
    BY DEF Live, TableInv, TypeOK, HandlesOwn
  <2>2. idxEnt[indx[e]] = e /\ rule[e] \in Rules
    BY <2>1 DEF TableInv, IdxChains, TblChains
  <2> QED BY <2>1, <2>2 DEF TableInv, Reachable
<1> QED
  BY <1>1, TableInvariant, PTL

\* Deleting rules gives every entry back: no entry of either table is kept by
\* anything but a handle that is still in use.
THEOREM NothingLeaks ==
    ASSUME DmaMayFail = FALSE PROVE Spec => [](NoLeak /\ HandlesDistinct)
<1>1. TableInv => NoLeak /\ HandlesDistinct
  BY DEF TableInv, TypeOK, TblChains, IdxChains, HandlesOwn, NoLeak
<1> QED
  BY <1>1, TableInvariant, PTL

\* Every step of the driver is a step of the client's map, or changes nothing
\* of it: what one handle stands for is never changed by work on another.
THEOREM Refinement == ASSUME DmaMayFail = FALSE PROVE Spec => ImplementsNatRules
<1>1. Init => Client!NatInit
  BY DEF Init, Client!NatInit, ClientView
<1>2. TableInv /\ [Next]_vars => [Client!NatNext]_(Client!natVars)
  <2> SUFFICES ASSUME TableInv, [Next]_vars PROVE [Client!NatNext]_(Client!natVars)
    OBVIOUS
  <2>1. CASE AddTable
    BY <2>1 DEF AddTable, Zeroed, Client!NatNext, Client!NatAddTable, ClientView
  <2>2. CASE DelTable
    BY <2>2 DEF DelTable, Zeroed, Client!NatNext, Client!NatDelTable, ClientView
  <2>3. ASSUME NEW r \in Rules, AddRule(r) PROVE Client!NatAddRule(r)
    <3> DEFINE N == NewEntry(r)
    <3>1. /\ RuleGenerated(r) /\ valid /\ valid' = valid /\ MakeRuleHdl(N)
          /\ CopyRuleToHw(r, N, PrevEntry(r), NewIndex(r), TRUE)
      BY <2>3 DEF AddRule, DmaOutcome
    <3>2. TypeOK /\ N \in Entries /\ N # 0 /\ enbl[N] = "off" /\ rule' = [rule EXCEPT ![N] = r]
      BY <2>3, <3>1, NewFacts DEF TableInv, CopyRuleToHw
    <3> HIDE DEF N
    <3>3. PICK h \in Handles : ruleId[h] = 0 /\ ruleId' = [ruleId EXCEPT ![h] = N]
      BY <3>1, <3>2, SlotFacts
    <3>4. \A g \in Handles : ruleId[g] # N
      BY <3>2 DEF TableInv, HandlesOwn, Live
    <3>5. ClientView[h] = NoRule
      BY <3>3 DEF ClientView
    <3>6. \A g \in Handles : ClientView'[g] = IF g = h THEN r ELSE ClientView[g]
      BY <3>2, <3>3, <3>4 DEF ClientView, TypeOK
    <3>7. ClientView' = [ClientView EXCEPT ![h] = r]
      BY <3>6 DEF ClientView
    <3> QED BY <3>1, <3>3, <3>5, <3>7 DEF Client!NatAddRule
  <2>4. ASSUME NEW h \in Handles, DelRule(h) PROVE Client!NatDelRule(h)
    <3> DEFINE e == ruleId[h]
    <3>1. PICK newIndx : DelTblRule(e, newIndx)
      BY <2>4 DEF DelRule
    <3>2. e # 0 /\ valid /\ valid' = valid /\ ruleId' = [ruleId EXCEPT ![h] = 0]
      BY <2>4 DEF DelRule
    <3>3. e \in Entries /\ enbl[e] = "on" /\ TypeOK
      BY <3>2 DEF TableInv, TypeOK, HandlesOwn, Live
    <3>4. \A x \in Entries : enbl[x] = "on" /\ x # e => rule'[x] = rule[x]
      BY <3>1, <3>3, DelTblFacts
    <3>5. \A g \in Handles : g # h /\ ruleId[g] # 0 => enbl[ruleId[g]] = "on" /\ ruleId[g] # e
      BY <3>2 DEF TableInv, HandlesOwn, HandlesDistinct, Live
    <3>6. \A g \in Handles : ClientView'[g] = IF g = h THEN NoRule ELSE ClientView[g]
      BY <3>2, <3>3, <3>4, <3>5 DEF ClientView, TypeOK
    <3>7. ClientView' = [ClientView EXCEPT ![h] = NoRule]
      BY <3>6 DEF ClientView
    <3>8. ClientView[h] # NoRule
      <4>1. rule[e] \in Rules
        BY <3>3 DEF TableInv, TblChains
      <4> QED BY <4>1, <3>2, RuleAssumption DEF ClientView
    <3> QED BY <3>2, <3>7, <3>8 DEF Client!NatDelRule
  <2>5. CASE UNCHANGED vars
    BY <2>5 DEF vars, ClientView, Client!natVars
  <2> QED BY <2>1, <2>2, <2>3, <2>4, <2>5 DEF Next, Client!NatNext
<1> QED
  BY <1>1, <1>2, TableInvariant, PTL DEF Spec, ImplementsNatRules, Client!NatSpec
=============================================================================
