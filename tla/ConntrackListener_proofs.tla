----------------------- MODULE ConntrackListener_proofs -----------------------
(* The invariants of the conntrack listener, for any number of connections,   *)
(* clients, addresses and cache entries.                                      *)
EXTENDS ConntrackListener, NatApp_proofs

-----------------------------------------------------------------------------
(* The inductive invariant. *)

\* The driver has a table only while the WAN is up, for the address that the
\* WAN-down event will carry.
TableUp == nat.tables # 0 => wanUp /\ nat.pub = ifaceAddr

\* The connections that NatClosedIsGone speaks of, and how they are entered.
NatFlow(f) == FlowOf[f].priv \in NatClients /\ FlowOf[f].tgt \notin NonNatClients

FlowKey(f) == <<FlowOf[f].priv, FlowOf[f].pport, FlowOf[f].tgt, FlowOf[f].pubport>>

IsKeyOf(k, f) == k[3] = FlowOf[f].tgt /\ k[4] = FlowOf[f].pubport

\* What DESTROY looks for.
IsConnOf(e, f) ==
    e.priv = FlowOf[f].priv /\ e.pport = FlowOf[f].pport /\ e.tgt = FlowOf[f].tgt

\* Every entry of such a connection is under its own addresses and ports, which
\* DESTROY will look for, and the connection is in o and not ignored.
Tracked(s, o, f) ==
    \A k \in Keys(s) : IsKeyOf(k, f) => k = FlowKey(f) /\ f \in o /\ FlowOf[f].flagged

\* DESTROY finds one temporary entry at most; a temporary entry has the public
\* address of its time, which a dummy rule takes for its private one.
TempOnce(s) ==
    /\ \A f \in Flows : NatFlow(f) =>
         \A t, u \in TempSlots : IsConnOf(s.temp[t], f) /\ IsConnOf(s.temp[u], f) => t = u
    /\ \A t \in TempSlots : s.temp[t].pub \in WanAddrs \cup {NoAddr}

Tracks(s, o) == TempOnce(s) /\ \A f \in Flows : NatFlow(f) => Tracked(s, o, f)

\* The connections that may have an entry: the open ones, and those whose
\* DESTROY message came when the listener knew neither of their ends.
Owed == open \cup unheard

IInv == TypeOK /\ Good(nat) /\ TableUp /\ Tracks(nat, Owed)

-----------------------------------------------------------------------------
(* Lists of addresses. *)

\* The first place that holds one of the values is such a place.
LEMMA FirstFacts ==
    ASSUME NEW N \in Nat, NEW S, NEW list \in [1 .. N -> S], NEW values,
           At(list, values) # {}
    PROVE  First(list, values) \in 1 .. N /\ list[First(list, values)] \in values
<1>1. At(list, values) \in SUBSET Nat
  BY DEF At
<1>2. \E i \in At(list, values) : \A j \in At(list, values) : i <= j
  BY <1>1, LeastNat
<1>3. First(list, values) \in At(list, values)
  BY <1>2 DEF First
<1> QED
  BY <1>3 DEF At

\* The places in use of the list of STA clients.
Held(list) == {i \in DOMAIN list : list[i] # NoAddr}

StaLists == [1 .. MaxStaClnts -> StaClients \cup {NoAddr}]

\* There are finitely many of them, and a list that is not full has a free one.
LEMMA HeldFacts ==
    ASSUME NEW list \in StaLists
    PROVE  /\ IsFiniteSet(Held(list)) /\ Cardinality(Held(list)) \in Nat
           /\ Cardinality(Held(list)) < MaxStaClnts => At(list, {NoAddr}) # {}
<1>1. IsFiniteSet(1 .. MaxStaClnts) /\ Cardinality(1 .. MaxStaClnts) = MaxStaClnts
  BY ListenerAssumption, FS_Interval
<1>2. Held(list) \in SUBSET (1 .. MaxStaClnts)
  BY DEF Held, StaLists
<1>3. IsFiniteSet(Held(list)) /\ Cardinality(Held(list)) \in Nat
  BY <1>1, <1>2, FS_Subset, FS_CardinalityType
<1>4. ASSUME At(list, {NoAddr}) = {} PROVE Held(list) = 1 .. MaxStaClnts
  BY <1>4 DEF At, Held, StaLists
<1>5. ASSUME At(list, {NoAddr}) = {} PROVE Cardinality(Held(list)) = MaxStaClnts
  BY <1>1, <1>4, <1>5
<1> QED
  BY <1>3, <1>5, ListenerAssumption

\* A client more and a client less.
LEMMA HeldChange ==
    ASSUME NEW list \in StaLists, NEW i \in 1 .. MaxStaClnts, NEW a \in StaClients \cup {NoAddr}
    PROVE  LET new == [list EXCEPT ![i] = a]
               before == Cardinality(Held(list))
               after == Cardinality(Held(new))
           IN /\ new \in StaLists
              /\ list[i] = NoAddr /\ a # NoAddr => after = before + 1
              /\ list[i] # NoAddr /\ a = NoAddr => after = before - 1
              /\ list[i] # NoAddr /\ a # NoAddr => after = before
<1> DEFINE new == [list EXCEPT ![i] = a]
<1>1. new \in StaLists
  BY DEF StaLists
<1>2. IsFiniteSet(Held(list)) /\ Cardinality(Held(list)) \in Nat
  BY HeldFacts
<1>3. CASE list[i] = NoAddr /\ a # NoAddr
  <2>1. Held(new) = Held(list) \cup {i} /\ i \notin Held(list)
    BY <1>3 DEF Held, StaLists
  <2> QED
    BY <1>1, <1>2, <1>3, <2>1, FS_AddElement
<1>4. CASE list[i] # NoAddr /\ a = NoAddr
  <2>1. Held(new) = Held(list) \ {i} /\ i \in Held(list)
    BY <1>4 DEF Held, StaLists
  <2> QED
    BY <1>1, <1>2, <1>4, <2>1, FS_RemoveElement
<1>5. CASE list[i] # NoAddr /\ a # NoAddr
  <2>1. Held(new) = Held(list)
    BY <1>5 DEF Held, StaLists
  <2> QED
    BY <1>1, <1>5, <2>1
<1>6. CASE list[i] = NoAddr /\ a = NoAddr
  BY <1>1, <1>6
<1> QED
  BY <1>3, <1>4, <1>5, <1>6

-----------------------------------------------------------------------------
(* Connections and their entries. *)

\* The constants.
LEMMA ClientFacts ==
    /\ \A ip \in NatClients : ip \in Addrs /\ ip # NoAddr
                              /\ ip \notin WanAddrs /\ ip \notin NonNatClients
    /\ \A ip \in NonNatClients \cup StaClients \cup WanAddrs : ip \in Addrs /\ ip # NoAddr
    /\ \A f \in Flows : /\ FlowOf[f].priv \in Addrs /\ FlowOf[f].priv # NoAddr
                       /\ FlowOf[f].tgt \in Addrs /\ FlowOf[f].tgt # NoAddr
                       /\ FlowOf[f].pport \in Ports /\ FlowOf[f].pubport \in Ports
    /\ NoAddr \in Addrs
BY ListenerAssumption, ClientAssumption, NatAppAssumption

\* The key of an entry, field by field.
LEMMA KeyParts ==
    ASSUME NEW e
    PROVE  KeyOf(e) = <<e.priv, e.pport, e.tgt, e.pubport>> /\ KeyOf(e)[1] = e.priv
           /\ KeyOf(e)[2] = e.pport /\ KeyOf(e)[3] = e.tgt /\ KeyOf(e)[4] = e.pubport
BY DEF KeyOf

\* A zeroed entry is of no connection.
LEMMA NoKeyOf ==
    ASSUME NEW f \in Flows
    PROVE  ~IsKeyOf(NoKey, f) /\ NoKey # FlowKey(f) /\ IsKeyOf(FlowKey(f), f)
BY ClientFacts DEF NoKey, KeyOf, NoEntry, IsKeyOf, FlowKey

LEMMA NoConnOf ==
    /\ NoEntry.pub = NoAddr
    /\ \A f \in Flows : ~IsConnOf(NoEntry, f)
BY ClientFacts DEF NoEntry, IsConnOf

\* New entries that are of no such connection, or are as Tracked says.
Fitting(new, p) ==
    \A k \in new : \A f \in Flows : NatFlow(f) /\ IsKeyOf(k, f) =>
        k = FlowKey(f) /\ f \in p /\ FlowOf[f].flagged

\* A step that adds such entries.
LEMMA TracksKept ==
    ASSUME NEW s, NEW y, NEW o, NEW p, NEW new, Tracks(s, o), o \subseteq p,
           Keys(y) \subseteq Keys(s) \cup new \cup {NoKey}, Fitting(new, p), TempOnce(y)
    PROVE  Tracks(y, p)
<1> SUFFICES ASSUME NEW f \in Flows, NatFlow(f) PROVE Tracked(y, p, f)
  BY DEF Tracks
<1>1. Tracked(s, o, f)
  BY DEF Tracks
<1>2. ASSUME NEW k \in Keys(y), IsKeyOf(k, f)
      PROVE  k = FlowKey(f) /\ f \in p /\ FlowOf[f].flagged
  <2>1. k # NoKey
    BY <1>2, NoKeyOf
  <2>2. CASE k \in Keys(s)
    BY <2>2, <1>1, <1>2 DEF Tracked
  <2>3. CASE k \in new
    BY <2>3, <1>2 DEF Fitting
  <2> QED
    BY <1>2, <2>1, <2>2, <2>3
<1> QED
  BY <1>2 DEF Tracked

\* The same, for a step that only removes temporary entries.
LEMMA TracksFewer ==
    ASSUME NEW s, NEW y, NEW o, NEW p, NEW new, Tracks(s, o), o \subseteq p,
           Keys(y) \subseteq Keys(s) \cup new \cup {NoKey}, Fitting(new, p),
           \A t \in TempSlots : y.temp[t] \in {s.temp[t], NoEntry}
    PROVE  Tracks(y, p)
<1>1. ASSUME NEW f \in Flows, NatFlow(f), NEW t \in TempSlots, NEW u \in TempSlots,
             IsConnOf(y.temp[t], f), IsConnOf(y.temp[u], f)
      PROVE  t = u
  <2>1. y.temp[t] = s.temp[t] /\ y.temp[u] = s.temp[u]
    BY <1>1, NoConnOf
  <2> QED
    BY <1>1, <2>1 DEF Tracks, TempOnce
<1>2. \A t \in TempSlots : y.temp[t].pub \in WanAddrs \cup {NoAddr}
  BY NoConnOf DEF Tracks, TempOnce
<1>3. TempOnce(y)
  BY <1>1, <1>2 DEF TempOnce
<1> QED
  BY <1>3, TracksKept

\* A dummy rule made for a client outside the NAT configuration is of no such
\* connection.
LEMMA DummyKeysForeign ==
    ASSUME NEW s \in NatStates, NEW o, Tracks(s, o), NEW ip \in NonNatClients,
           NEW t \in TempOf(s, ip), NEW f \in Flows, NatFlow(f)
    PROVE  ~IsKeyOf(KeyOf(Dummy(s.temp[t])), f)
<1> DEFINE e == s.temp[t]
<1>1. t \in TempSlots /\ e \in Entries /\ (e.priv = ip \/ e.tgt = ip)
  BY StateFacts DEF TempOf
<1> HIDE DEF e
<1>2. Dummy(e).tgt = e.tgt /\ Dummy(e).pubport = e.pubport
  BY <1>1 DEF Dummy, Entries
<1>3. SUFFICES ASSUME IsKeyOf(KeyOf(e), f) PROVE FALSE
  BY <1>2, KeyParts DEF IsKeyOf, e
<1>4. KeyOf(e) \in Keys(s)
  BY <1>1, KeysOfSlots DEF e
<1>5. KeyOf(e) = FlowKey(f)
  BY <1>3, <1>4 DEF Tracks, Tracked
<1>6. e.priv = FlowOf[f].priv /\ e.tgt = FlowOf[f].tgt
  BY <1>5, KeyParts DEF FlowKey
<1> QED
  BY <1>1, <1>6, ClientFacts DEF NatFlow

\* The object stays consistent, for the connections in p.
Handled(s, y, p) == Tracks(y, p) /\ \E new : Step(s, y, new)

\* Dummy rules are for clients outside the NAT configuration.
DummyAllowed(ip) == {b \in BOOLEAN : b => ip \in NonNatClients}

\* FlushTempEntries, as the handlers of client addresses call it.
LEMMA FlushTracks ==
    ASSUME NEW s \in NatStates, Good(s), NEW o, Tracks(s, o), NEW ip, NEW isAdd \in BOOLEAN,
           NEW isDummy \in DummyAllowed(ip), NEW refused
    PROVE  LET y == FlushTempEntries(s, ip, isAdd, isDummy, refused)
           IN Handled(s, y, o) /\ y.asleep = s.asleep
<1> DEFINE y == FlushTempEntries(s, ip, isAdd, isDummy, refused)
           new == DummyKeys(s, ip, isDummy)
<1>0. isDummy \in BOOLEAN /\ (isDummy => ip \in NonNatClients)
  BY DEF DummyAllowed
<1>1. /\ Step(s, y, new) /\ y.asleep = s.asleep
      /\ \A t \in TempSlots : TempOutcome(s, y, t, ip, isDummy)
  BY <1>0, FlushTempEntriesStep
<1> HIDE DEF y
<1>2. Fitting(new, o)
  BY <1>0, DummyKeysForeign DEF Fitting, DummyKeys
<1> HIDE DEF new
<1>3. ASSUME NEW f \in Flows, NatFlow(f), NEW t \in TempSlots, IsConnOf(y.temp[t], f)
      PROVE  y.temp[t] = s.temp[t]
  <2>1. y.temp[t] # NoEntry
    BY <1>3, NoConnOf
  <2>2. ASSUME y.temp[t] = Dummy(s.temp[t]) PROVE FALSE
    <3>1. y.temp[t].priv = s.temp[t].pub
      BY <2>2, StateFacts DEF Dummy, Entries
    <3>2. s.temp[t].pub \in WanAddrs \cup {NoAddr}
      BY DEF Tracks, TempOnce
    <3> QED
      BY <1>3, <3>1, <3>2, ClientFacts DEF IsConnOf, NatFlow
  <2> QED
    BY <1>1, <2>1, <2>2 DEF TempOutcome
<1>4. TempOnce(y)
  <2>1. ASSUME NEW f \in Flows, NatFlow(f), NEW t \in TempSlots, NEW u \in TempSlots,
               IsConnOf(y.temp[t], f), IsConnOf(y.temp[u], f)
        PROVE  t = u
    <3>1. y.temp[t] = s.temp[t] /\ y.temp[u] = s.temp[u]
      BY <1>3, <2>1
    <3> QED
      BY <2>1, <3>1 DEF Tracks, TempOnce
  <2>2. ASSUME NEW t \in TempSlots PROVE y.temp[t].pub \in WanAddrs \cup {NoAddr}
    <3>1. s.temp[t].pub \in WanAddrs \cup {NoAddr} /\ s.temp[t] \in Entries
      BY StateFacts DEF Tracks, TempOnce
    <3>2. Dummy(s.temp[t]).pub = s.temp[t].pub
      BY <3>1 DEF Dummy, Entries
    <3> QED
      BY <1>1, <3>1, <3>2, NoConnOf DEF TempOutcome
  <2> QED
    BY <2>1, <2>2 DEF TempOnce
<1>5. Tracks(y, o)
  <2>1. Keys(y) \subseteq Keys(s) \cup new \cup {NoKey}
    BY <1>1 DEF Step
  <2> QED
    BY <1>2, <1>4, <2>1, TracksKept
<1> QED
  BY <1>1, <1>5 DEF y, Handled

\* A method that adds no connection and leaves the temporary entries.
LEMMA SameTempTracks ==
    ASSUME NEW s, NEW y, NEW o, Tracks(s, o), Step(s, y, {}), y.temp = s.temp
    PROVE  Tracks(y, o)
<1>1. Fitting({}, o)
  BY DEF Fitting
<1>2. Keys(y) \subseteq Keys(s) \cup {} \cup {NoKey}
  BY DEF Step
<1> QED
  BY <1>1, <1>2, TracksFewer

-----------------------------------------------------------------------------
(* What the handlers make of the NAT application. *)

\* Two methods in a row.
LEMMA HandledTrans ==
    ASSUME NEW s, NEW y, NEW z, NEW o, NEW p, Handled(s, y, o), Handled(y, z, p),
           s.asleep \cap z.asleep \subseteq y.asleep
    PROVE  Handled(s, z, p)
<1>1. PICK a : Step(s, y, a)
  BY DEF Handled
<1>2. PICK b : Step(y, z, b)
  BY DEF Handled
<1>3. Step(s, y, a \cup b) /\ Step(y, z, a \cup b)
  BY <1>1, <1>2 DEF Step
<1>4. Step(s, z, a \cup b)
  BY <1>3, StepTrans
<1> QED
  BY <1>4 DEF Handled

\* The methods that add no connection.
LEMMA MethodsHandled ==
    ASSUME NEW s \in NatStates, Good(s), NEW o, Tracks(s, o), NEW ip \in Addrs, NEW refused
    PROVE  /\ LET y == ResetPwrSaveIf(s, ip, refused) IN
                Handled(s, y, o) /\ y.asleep \subseteq s.asleep
           /\ LET y == DelEntriesOnClntDiscon(s, ip, refused) IN
                Handled(s, y, o) /\ y.asleep \subseteq s.asleep
           /\ LET y == DelEntriesOnSTAClntDiscon(s, ip, refused) IN
                Handled(s, y, o) /\ y.asleep = s.asleep
           /\ Handled(s, UpdatePwrSaveIf(s, ip, refused), o)
           /\ Handled(s, s, o)
<1>1. LET y == ResetPwrSaveIf(s, ip, refused) IN
        Handled(s, y, o) /\ y.asleep \subseteq s.asleep
  <2> DEFINE y == ResetPwrSaveIf(s, ip, refused)
  <2>1. Step(s, y, {}) /\ y.temp = s.temp /\ y.asleep \subseteq s.asleep
    BY ResetPwrSaveIfStep
  <2> HIDE DEF y
  <2> QED
    BY <2>1, SameTempTracks DEF Handled, y
<1>2. LET y == DelEntriesOnClntDiscon(s, ip, refused) IN
        Handled(s, y, o) /\ y.asleep \subseteq s.asleep
  <2> DEFINE y == DelEntriesOnClntDiscon(s, ip, refused)
  <2>1. Step(s, y, {}) /\ y.temp = s.temp /\ y.asleep \subseteq s.asleep
    BY DelEntriesOnClntDisconStep
  <2> HIDE DEF y
  <2> QED
    BY <2>1, SameTempTracks DEF Handled, y
<1>3. LET y == DelEntriesOnSTAClntDiscon(s, ip, refused) IN
        Handled(s, y, o) /\ y.asleep = s.asleep
  <2> DEFINE y == DelEntriesOnSTAClntDiscon(s, ip, refused)
  <2>1. Step(s, y, {}) /\ y.temp = s.temp /\ y.asleep = s.asleep
    BY DelEntriesOnSTAClntDisconStep
  <2> HIDE DEF y
  <2> QED
    BY <2>1, SameTempTracks DEF Handled, y
<1>4. Handled(s, UpdatePwrSaveIf(s, ip, refused), o)
  <2> DEFINE y == UpdatePwrSaveIf(s, ip, refused)
  <2>1. Step(s, y, {}) /\ y.temp = s.temp
    BY UpdatePwrSaveIfStep
  <2> HIDE DEF y
  <2> QED
    BY <2>1, SameTempTracks DEF Handled, y
<1>5. Handled(s, s, o)
  BY StepSame DEF Handled
<1> QED
  BY <1>1, <1>2, <1>3, <1>4, <1>5

\* FlushTempEntries without dummy rules.
LEMMA FlushHandled ==
    ASSUME NEW s \in NatStates, Good(s), NEW o, Tracks(s, o), NEW ip, NEW refused
    PROVE  /\ LET y == FlushTempEntries(s, ip, TRUE, FALSE, refused) IN
                Handled(s, y, o) /\ y.asleep = s.asleep
           /\ LET y == FlushTempEntries(s, ip, FALSE, FALSE, refused) IN
                Handled(s, y, o) /\ y.asleep = s.asleep
<1>1. TRUE \in BOOLEAN /\ FALSE \in BOOLEAN /\ FALSE \in DummyAllowed(ip)
  BY DEF DummyAllowed
<1> QED
  BY <1>1, FlushTracks

\* The object after a method that was handled.
LEMMA HandledFacts ==
    ASSUME NEW s, NEW y, NEW p, Handled(s, y, p)
    PROVE  /\ y \in NatStates /\ Good(y) /\ Tracks(y, p) /\ NoneGiven(s, y)
           /\ y.tables = s.tables /\ y.pub = s.pub
BY DEF Handled, Step

\* A client's address that comes.
LEMMA ComesHandled ==
    ASSUME NEW s \in NatStates, Good(s), NEW o, Tracks(s, o), NEW ip \in Addrs, NEW refused
    PROVE  LET y == FlushTempEntries(ResetPwrSaveIf(s, ip, refused), ip, TRUE, FALSE, refused)
           IN Handled(s, y, o)
<1> DEFINE x == ResetPwrSaveIf(s, ip, refused)
           y == FlushTempEntries(x, ip, TRUE, FALSE, refused)
<1>1. Handled(s, x, o)
  BY MethodsHandled
<1> HIDE DEF x
<1>2. x \in NatStates /\ Good(x) /\ Tracks(x, o)
  BY <1>1, HandledFacts
<1>3. Handled(x, y, o) /\ y.asleep = x.asleep
  BY <1>2, FlushHandled
<1> HIDE DEF y
<1>4. Handled(s, y, o)
  BY <1>1, <1>3, HandledTrans
<1> QED
  BY <1>4 DEF x, y

\* A client's address that goes.
LEMMA GoesHandled ==
    ASSUME NEW s \in NatStates, Good(s), NEW o, Tracks(s, o), NEW ip \in Addrs, NEW refused
    PROVE  LET y == DelEntriesOnClntDiscon(FlushTempEntries(s, ip, FALSE, FALSE, {}), ip, refused)
           IN Handled(s, y, o)
<1> DEFINE x == FlushTempEntries(s, ip, FALSE, FALSE, {})
           y == DelEntriesOnClntDiscon(x, ip, refused)
<1>1. Handled(s, x, o)
  BY FlushHandled
<1> HIDE DEF x
<1>2. x \in NatStates /\ Good(x) /\ Tracks(x, o)
  BY <1>1, HandledFacts
<1>3. Handled(x, y, o) /\ y.asleep \subseteq x.asleep
  BY <1>2, MethodsHandled
<1> HIDE DEF y
<1>4. Handled(s, y, o)
  BY <1>1, <1>3, HandledTrans
<1> QED
  BY <1>4 DEF x, y

\* A client of the STA interface's network that goes.
LEMMA StaGoesHandled ==
    ASSUME NEW s \in NatStates, Good(s), NEW o, Tracks(s, o), NEW ip \in Addrs,
           NEW refused, NEW x \in {s, DelEntriesOnSTAClntDiscon(s, ip, refused)}
    PROVE  Handled(s, FlushTempEntries(x, ip, FALSE, FALSE, {}), o)
<1> DEFINE y == FlushTempEntries(x, ip, FALSE, FALSE, {})
<1>1. Handled(s, x, o)
  BY MethodsHandled
<1>2. x \in NatStates /\ Good(x) /\ Tracks(x, o)
  BY <1>1, HandledFacts
<1>3. Handled(x, y, o) /\ y.asleep = x.asleep
  BY <1>2, FlushHandled
<1> HIDE DEF y
<1>4. Handled(s, y, o)
  BY <1>1, <1>3, HandledTrans
<1> QED
  BY <1>4 DEF y

-----------------------------------------------------------------------------
(* Conntrack messages. *)

\* What ProcessTCPorUDPMsg knows of the rule that it enters or deletes.
RuleFor(f, r) ==
    /\ r \in Entries /\ r.tgt = FlowOf[f].tgt /\ r.pubport = FlowOf[f].pubport
    /\ r.pub \in WanAddrs \cup {NoAddr}
    /\ NatFlow(f) => KeyOf(r) = FlowKey(f) /\ FlowOf[f].flagged

\* Such a rule fits.
LEMMA RuleFits ==
    ASSUME NEW f \in Flows, NEW r, RuleFor(f, r), NEW o
    PROVE  Fitting({KeyOf(r)}, o \cup {f})
<1> SUFFICES ASSUME NEW g \in Flows, NatFlow(g), IsKeyOf(KeyOf(r), g)
             PROVE  KeyOf(r) = FlowKey(g) /\ g \in o \cup {f} /\ FlowOf[g].flagged
  BY DEF Fitting
<1>1. FlowOf[g].pubport = FlowOf[f].pubport
  BY KeyParts DEF IsKeyOf, RuleFor
<1>2. g = f
  BY <1>1, ListenerAssumption
<1> QED
  BY <1>2 DEF RuleFor

\* NEW: the connection is cached, offloaded, or made temporary.
LEMMA NewHandled ==
    ASSUME NEW s \in NatStates, Good(s), NEW o, Tracks(s, o), NEW f \in Flows,
           NEW r, RuleFor(f, r), NEW refused,
           NEW y \in {CacheEntry(s, r), AddTempEntry(s, r), AddEntry(s, r, refused)}
    PROVE  Handled(s, y, o \cup {f})
<1>1. r \in Entries /\ Fitting({KeyOf(r)}, o \cup {f}) /\ o \subseteq o \cup {f}
  BY RuleFits DEF RuleFor
<1>2. CASE y \in {CacheEntry(s, r), AddEntry(s, r, refused)}
  <2>1. Step(s, y, {KeyOf(r)}) /\ y.temp = s.temp
    BY <1>1, <1>2, CacheEntryStep, AddEntryStep
  <2>2. Keys(y) \subseteq Keys(s) \cup {KeyOf(r)} \cup {NoKey}
    BY <2>1 DEF Step
  <2>3. Tracks(y, o \cup {f})
    BY <1>1, <2>1, <2>2, TracksFewer
  <2> QED
    BY <2>1, <2>3 DEF Handled
<1>3. CASE y = AddTempEntry(s, r)
  <2>1. /\ Step(s, y, {KeyOf(r)})
        /\ \/ y.temp = s.temp
           \/ /\ \A t \in TempSlots : ~SameConn(s.temp[t], r)
              /\ \E t \in TempSlots : y.temp = [s.temp EXCEPT ![t] = r]
    BY <1>1, <1>3, AddTempEntryStep
  <2>2. Keys(y) \subseteq Keys(s) \cup {KeyOf(r)} \cup {NoKey}
    BY <2>1 DEF Step
  <2>3. CASE y.temp = s.temp
    <3>1. Tracks(y, o \cup {f})
      BY <1>1, <2>2, <2>3, TracksFewer
    <3> QED
      BY <2>1, <3>1 DEF Handled
  <2>4. CASE y.temp # s.temp
    <3>1. PICK v \in TempSlots : y.temp = [s.temp EXCEPT ![v] = r]
      BY <2>1, <2>4
    <3>2. s.temp \in [TempSlots -> Entries] /\ TempOnce(s)
      BY StateFacts DEF Tracks
    <3>3. y.temp[v] = r /\ \A t \in TempSlots : t # v => y.temp[t] = s.temp[t]
      BY <3>1, <3>2
    <3>4. ASSUME NEW g \in Flows, NatFlow(g), NEW t \in TempSlots, NEW u \in TempSlots,
                 IsConnOf(y.temp[t], g), IsConnOf(y.temp[u], g)
          PROVE  t = u
      <4>1. ASSUME NEW a \in TempSlots, NEW b \in TempSlots, a = v, b # v,
                   IsConnOf(y.temp[a], g), IsConnOf(y.temp[b], g)
            PROVE  FALSE
        <5>1. SameConn(s.temp[b], r)
          BY <3>3, <4>1 DEF IsConnOf, SameConn
        <5> QED
          BY <2>1, <2>4, <5>1
      <4>2. CASE t # v /\ u # v
        <5>1. y.temp[t] = s.temp[t] /\ y.temp[u] = s.temp[u]
          BY <3>3, <4>2
        <5> QED
          BY <3>2, <3>4, <5>1 DEF TempOnce
      <4> QED
        BY <3>4, <4>1, <4>2
    <3>5. \A t \in TempSlots : y.temp[t].pub \in WanAddrs \cup {NoAddr}
      BY <3>2, <3>3 DEF TempOnce, RuleFor
    <3>6. TempOnce(y)
      BY <3>4, <3>5 DEF TempOnce
    <3>7. Tracks(y, o \cup {f})
      BY <1>1, <2>2, <3>6, TracksKept
    <3> QED
      BY <2>1, <3>7 DEF Handled
  <2> QED
    BY <2>3, <2>4
<1> QED
  BY <1>2, <1>3

\* The connection may be closed when it has no entry.
LEMMA TracksClosed ==
    ASSUME NEW y, NEW o, Tracks(y, o), NEW f \in Flows,
           NatFlow(f) => \A k \in Keys(y) : ~IsKeyOf(k, f)
    PROVE  Tracks(y, o \ {f})
BY DEF Tracks, Tracked

\* DESTROY: no entry of the connection is left.
LEMMA DestroyHandled ==
    ASSUME NEW s \in NatStates, Good(s), NEW o, Tracks(s, o), NEW f \in Flows,
           NEW r, RuleFor(f, r), NEW refused
    PROVE  Handled(s, DeleteTempEntry(DeleteEntry(s, r, refused), r), o \ {f})
<1> DEFINE x == DeleteEntry(s, r, refused)
           y == DeleteTempEntry(x, r)
<1>1. r \in Entries /\ r.tgt # NoAddr
  BY ClientFacts DEF RuleFor
<1>2. /\ Step(s, x, {}) /\ x.temp = s.temp /\ x.asleep = s.asleep
      /\ \A c \in Slots : ~SameConn(x.cache[c], r)
  BY <1>1, DeleteEntryStep
<1> HIDE DEF x
<1>3. x \in NatStates /\ Good(x)
  BY <1>2 DEF Step
<1>4. /\ Step(x, y, {}) /\ y.asleep = x.asleep /\ y.cache = x.cache
      /\ \/ y.temp = x.temp /\ \A t \in TempSlots : ~SameConn(x.temp[t], r)
         \/ \E t \in TempSlots : /\ SameConn(x.temp[t], r)
                                 /\ y.temp = [x.temp EXCEPT ![t] = NoEntry]
  BY <1>3, DeleteTempEntryStep
<1> HIDE DEF y
<1>5. Step(s, y, {})
  BY <1>2, <1>4, StepTrans
<1>6. x.temp \in [TempSlots -> Entries]
  BY <1>3, StateFacts
<1>7. \A t \in TempSlots : y.temp[t] \in {s.temp[t], NoEntry}
  BY <1>2, <1>4, <1>6
<1>8. Tracks(y, o)
  <2>1. Fitting({}, o)
    BY DEF Fitting
  <2>2. Keys(y) \subseteq Keys(s) \cup {} \cup {NoKey}
    BY <1>5 DEF Step
  <2> QED
    BY <1>7, <2>1, <2>2, TracksFewer
<1>9. ASSUME NatFlow(f), NEW k \in Keys(y), IsKeyOf(k, f) PROVE FALSE
  <2>1. k = FlowKey(f) /\ KeyOf(r) = FlowKey(f)
    BY <1>8, <1>9 DEF Tracks, Tracked, RuleFor
  <2>2. ASSUME NEW c \in Slots, k = KeyOf(y.cache[c]) PROVE FALSE
    <3>1. SameConn(x.cache[c], r)
      BY <1>4, <2>1, <2>2, KeyFacts
    <3> QED
      BY <1>2, <3>1
  <2>3. ASSUME NEW u \in TempSlots, k = KeyOf(y.temp[u]) PROVE FALSE
    <3>1. KeyOf(y.temp[u]) = KeyOf(r) /\ y.temp[u] # NoEntry
      BY <2>1, <2>3, NoKeyOf DEF NoKey
    <3>2. y.temp[u] = x.temp[u] /\ SameConn(x.temp[u], r)
      BY <1>2, <1>7, <3>1, KeyFacts
    <3>3. PICK t \in TempSlots : SameConn(x.temp[t], r) /\ y.temp = [x.temp EXCEPT ![t] = NoEntry]
      BY <1>4, <3>2
    <3>4. IsConnOf(s.temp[t], f) /\ IsConnOf(s.temp[u], f)
      <4>1. r.priv = FlowOf[f].priv /\ r.pport = FlowOf[f].pport /\ r.tgt = FlowOf[f].tgt
        BY <2>1, KeyParts DEF FlowKey
      <4> QED
        BY <1>2, <3>2, <3>3, <4>1 DEF SameConn, IsConnOf
    <3>5. t = u
      BY <1>9, <3>4 DEF Tracks, TempOnce
    <3> QED
      BY <1>6, <3>1, <3>3, <3>5
  <2> QED
    BY <1>9, <2>2, <2>3 DEF Keys
<1>10. Tracks(y, o \ {f})
  BY <1>8, <1>9, TracksClosed
<1> QED
  BY <1>5, <1>10 DEF Handled, x, y

\* A message that is ignored.
LEMMA IgnoredHandled ==
    ASSUME NEW s \in NatStates, Good(s), NEW o, Tracks(s, o), NEW f \in Flows,
           NatFlow(f) => ~FlowOf[f].flagged
    PROVE  Handled(s, s, o \cup {f}) /\ Handled(s, s, o \ {f})
<1>1. Step(s, s, {})
  BY StepSame
<1>2. Tracks(s, o \cup {f})
  BY DEF Tracks, Tracked
<1>3. Tracks(s, o \ {f})
  BY DEF Tracks, Tracked
<1> QED
  BY <1>1, <1>2, <1>3 DEF Handled

\* More connections may have an entry.
LEMMA HandledMore ==
    ASSUME NEW s, NEW y, NEW o, NEW p, o \subseteq p, Handled(s, y, o)
    PROVE  Handled(s, y, p)
<1>1. Tracks(y, p)
  BY DEF Handled, Tracks, Tracked
<1> QED
  BY <1>1 DEF Handled

\* A message of a NAT client's connection is handled under its own key, unless
\* the connection has no NAT flag or the listener knows neither of its ends.
LEMMA MessageRule ==
    ASSUME TypeOK, NEW f \in Flows
    PROVE  /\ Ignored(f) => (NatFlow(f) => ~FlowOf[f].flagged \/ EndsUnknown(f))
           /\ ~Ignored(f) => RuleFor(f, RuleOf(f))
<1> DEFINE r == Populate(f)
<1>1. /\ r \in Entries /\ r.priv = FlowOf[f].priv /\ r.pport = FlowOf[f].pport
      /\ r.tgt = FlowOf[f].tgt /\ r.pubport = FlowOf[f].pubport /\ r.pub = wanIpaddr
  <2>1. wanIpaddr \in Addrs
    BY ClientFacts DEF TypeOK
  <2> QED
    BY <2>1, ClientFacts, NoEntryType, NatAppAssumption DEF Populate, Entries, NoEntry
<1> HIDE DEF r
<1>2. /\ RuleOf(f) \in Entries /\ RuleOf(f).tgt = r.tgt /\ RuleOf(f).pubport = r.pubport
      /\ RuleOf(f).pub = r.pub
  <2>1. /\ [r EXCEPT !.pport = r.pubport] \in Entries /\ Dummy(r) \in Entries
        /\ [r EXCEPT !.pport = r.pubport].tgt = r.tgt /\ Dummy(r).tgt = r.tgt
        /\ [r EXCEPT !.pport = r.pubport].pubport = r.pubport /\ Dummy(r).pubport = r.pubport
        /\ [r EXCEPT !.pport = r.pubport].pub = r.pub /\ Dummy(r).pub = r.pub
    BY <1>1 DEF Dummy, Entries
  <2> QED
    BY <1>1, <2>1 DEF RuleOf, r
<1>3. wanIpaddr \in WanAddrs \cup {NoAddr} /\ ifaceAddr \in WanAddrs \cup {NoAddr}
  BY DEF TypeOK
<1>4. ASSUME NatFlow(f)
      PROVE  /\ ~Own(f) /\ AddIface(r) \in {"take", "temp", "ignore"}
             /\ AddIface(r) = "ignore" => EndsUnknown(f)
  <2>1. ~Own(f)
    BY <1>1, <1>3, <1>4, ClientFacts DEF Own, NatFlow
  <2>2. ~Touches(r, nonNat)
    <3>1. \A i \in DOMAIN nonNat : nonNat[i] \in NonNatClients \cup {NoAddr}
      BY DEF TypeOK
    <3>2. r.priv \notin NonNatClients \cup {NoAddr} /\ r.tgt \notin NonNatClients \cup {NoAddr}
      BY <1>1, <1>4, ClientFacts DEF NatFlow
    <3> QED
      BY <3>1, <3>2 DEF Touches, At
  <2>3. Touches(r, natIfaces) <=> Touches(FlowOf[f], natIfaces)
    BY <1>1 DEF Touches
  <2> QED
    BY <1>1, <2>1, <2>2, <2>3 DEF AddIface, EndsUnknown
<1>5. ASSUME NatFlow(f)
      PROVE  RuleOf(f) = r /\ (Ignored(f) => ~FlowOf[f].flagged \/ EndsUnknown(f))
             /\ (~Ignored(f) => FlowOf[f].flagged)
  BY <1>4, <1>5 DEF RuleOf, Ignored, r
<1>6. ASSUME NatFlow(f) PROVE KeyOf(r) = FlowKey(f)
  BY <1>1, KeyParts DEF FlowKey
<1> QED
  BY <1>1, <1>2, <1>3, <1>5, <1>6 DEF RuleFor

\* The whole message.
LEMMA MessageHandled ==
    ASSUME IInv, NEW f \in Flows, NEW refused
    PROVE  /\ ProcessCTMessage(f, "NEW", refused) => Handled(nat, nat', Owed \cup {f})
           /\ ProcessCTMessage(f, "DESTROY", refused) =>
                \/ Handled(nat, nat', Owed \ {f})
                \/ EndsUnknown(f) /\ Handled(nat, nat', Owed)
<1>1. TypeOK /\ nat \in NatStates /\ Good(nat) /\ Tracks(nat, Owed)
  BY DEF IInv, TypeOK
<1> HIDE DEF Owed
<1>2. CASE Ignored(f)
  <2>1. nat' = nat \/ ~(\E t : ProcessCTMessage(f, t, refused))
    BY <1>2 DEF ProcessCTMessage
  <2>2. CASE NatFlow(f) => ~FlowOf[f].flagged
    <3>1. Handled(nat, nat, Owed \cup {f}) /\ Handled(nat, nat, Owed \ {f})
      BY <1>1, <2>2, IgnoredHandled
    <3> QED
      BY <2>1, <3>1
  <2>3. CASE ~(NatFlow(f) => ~FlowOf[f].flagged)
    <3>1. EndsUnknown(f)
      BY <1>1, <1>2, <2>3, MessageRule
    <3>2. Handled(nat, nat, Owed)
      BY <1>1, StepSame DEF Handled
    <3>3. Handled(nat, nat, Owed \cup {f})
      BY <3>2, HandledMore
    <3> QED
      BY <2>1, <3>1, <3>2, <3>3
  <2> QED
    BY <2>2, <2>3
<1>3. CASE ~Ignored(f)
  <2> DEFINE r == RuleOf(f)
             temp == (~Own(f) /\ AddIface(Populate(f)) = "temp") \/ StaTemp(RuleOf(f))
  <2>1. RuleFor(f, r)
    BY <1>1, <1>3, MessageRule
  <2>2. /\ NatEntry("NEW", r, temp, refused)
            \in {CacheEntry(nat, r), AddTempEntry(nat, r), AddEntry(nat, r, refused)}
        /\ NatEntry("DESTROY", r, temp, refused) = DeleteTempEntry(DeleteEntry(nat, r, refused), r)
    BY <1>1 DEF NatEntry, TypeOK
  <2>3. ASSUME ProcessCTMessage(f, "NEW", refused)
        PROVE  nat' = NatEntry("NEW", r, temp, refused)
    BY <1>3, <2>3 DEF ProcessCTMessage
  <2>4. ASSUME ProcessCTMessage(f, "DESTROY", refused)
        PROVE  nat' = NatEntry("DESTROY", r, temp, refused)
    BY <1>3, <2>4 DEF ProcessCTMessage
  <2> HIDE DEF r, temp
  <2>5. ASSUME ProcessCTMessage(f, "NEW", refused)
        PROVE  Handled(nat, nat', Owed \cup {f})
    BY <1>1, <2>1, <2>2, <2>3, <2>5, NewHandled
  <2>6. ASSUME ProcessCTMessage(f, "DESTROY", refused)
        PROVE  Handled(nat, nat', Owed \ {f})
    BY <1>1, <2>1, <2>2, <2>4, <2>6, DestroyHandled
  <2> QED
    BY <2>5, <2>6
<1> QED
  BY <1>2, <1>3

-----------------------------------------------------------------------------
(* The steps of the listener. *)

\* The lists of addresses.
ListsOK ==
    /\ natIfaces \in [1 .. MaxIfaceAddress -> NatClients \cup {NoAddr}]
    /\ nonNat \in [1 .. MaxIfaceAddress -> NonNatClients \cup {NoAddr}]
    /\ staClnt \in StaLists /\ staClntCnt = Cardinality(Held(staClnt))

\* The connections and the private subnets.
ConnsOK ==
    /\ subnets \subseteq Subnets \cup CfgSubnets
    /\ open \subseteq Flows /\ unheard \subseteq Flows \ open

\* What SleepersGetNoRule says of a step.
SleepersStep == \A ip \in nat.asleep \cap nat'.asleep : RuleGiven(ip) => wanUp' # wanUp

LEMMA TypeParts ==
    TypeOK <=> /\ wanUp \in BOOLEAN /\ isStaMode \in BOOLEAN
               /\ wanIpaddr \in WanAddrs \cup {NoAddr} /\ ifaceAddr \in WanAddrs \cup {NoAddr}
               /\ ListsOK /\ ConnsOK /\ nat \in NatStates
BY DEF TypeOK, ListsOK, ConnsOK, StaLists, Held

LEMMA TypePartsNext ==
    TypeOK' <=> /\ wanUp' \in BOOLEAN /\ isStaMode' \in BOOLEAN
                /\ wanIpaddr' \in WanAddrs \cup {NoAddr} /\ ifaceAddr' \in WanAddrs \cup {NoAddr}
                /\ ListsOK' /\ ConnsOK' /\ nat' \in NatStates
BY DEF TypeOK, ListsOK, ConnsOK, StaLists, Held

\* A step that leaves the WAN alone.
LEMMA HandledStep ==
    ASSUME IInv, Handled(nat, nat', Owed'), ConnsOK', UNCHANGED wanVars, ListsOK'
    PROVE  IInv' /\ SleepersStep
<1>1. /\ nat' \in NatStates /\ Good(nat') /\ Tracks(nat', Owed') /\ NoneGiven(nat, nat')
      /\ nat'.tables = nat.tables /\ nat'.pub = nat.pub
  BY HandledFacts
<1>2. TypeOK'
  BY <1>1, TypeParts, TypePartsNext DEF IInv, wanVars
<1>3. TableUp'
  BY <1>1 DEF IInv, TableUp, wanVars
<1>4. SleepersStep
  BY <1>1 DEF SleepersStep, RuleGiven, NoneGiven
<1> QED
  BY <1>1, <1>2, <1>3, <1>4 DEF IInv

\* The methods for tables.
LEMMA SameTempKeys ==
    ASSUME NEW s, NEW y, NEW o, Tracks(s, o), y.temp = s.temp,
           Keys(y) \subseteq Keys(s) \cup {NoKey}
    PROVE  Tracks(y, o)
<1>1. Fitting({}, o)
  BY DEF Fitting
<1>2. Keys(y) \subseteq Keys(s) \cup {} \cup {NoKey}
  OBVIOUS
<1> QED
  BY <1>1, <1>2, TracksFewer

\* The first states.
LEMMA InitInv == Init => IInv
<1> SUFFICES ASSUME Init PROVE IInv
  OBVIOUS
<1>1. PICK asleep \in SUBSET NatClients, pre \in WanAddrs \cup {NoAddr} :
        nat = NewNatApp(asleep, pre)
  BY DEF Init
<1>2. /\ nat \in NatStates /\ nat.tables = 0 /\ nat.tblHdl = 0 /\ nat.curCnt = 0
      /\ nat.cache = [c \in Slots |-> NoEntry] /\ nat.temp = [t \in TempSlots |-> NoEntry]
      /\ nat.live = [h \in Hdls |-> NoEntry] /\ nat.left = {}
  <2>1. asleep \in SUBSET Addrs /\ pre \in Addrs /\ NoAddr \in Addrs
    BY ClientFacts
  <2> QED
    BY <1>1, <2>1, NoEntryType DEF NewNatApp, NatStates
<1>3. Used(nat) = {} /\ Enabled(nat) = {}
  BY <1>2, NoEntryType, KeyFacts DEF Used, Enabled
<1>4. Good(nat)
  <2>1. Cardinality(Used(nat)) = 0
    BY <1>3, FS_EmptySet
  <2> QED
    BY <1>2, <1>3, <2>1 DEF Good, RulesMatch, Counted, Sound
<1>5. Keys(nat) \subseteq {NoKey}
  BY <1>2 DEF Keys, NoKey
<1>6. Tracks(nat, Owed)
  <2>1. TempOnce(nat)
    BY <1>2, NoConnOf DEF TempOnce
  <2>2. \A f \in Flows : Tracked(nat, Owed, f)
    BY <1>5, NoKeyOf DEF Tracked
  <2> QED
    BY <2>1, <2>2 DEF Tracks
<1>7. ListsOK
  <2>1. staClnt \in StaLists /\ Held(staClnt) = {} /\ staClntCnt = 0
    BY DEF Init, StaLists, Held
  <2>2. staClntCnt = Cardinality(Held(staClnt))
    BY <2>1, FS_EmptySet
  <2> QED
    BY <2>1, <2>2 DEF Init, ListsOK
<1>8. TypeOK
  BY <1>2, <1>7, TypeParts DEF Init, ConnsOK
<1> QED
  BY <1>2, <1>4, <1>6, <1>8 DEF IInv, TableUp

\* Every step.
LEMMA NextInv == IInv /\ [Next]_vars => IInv' /\ (SleepersStep \/ UNCHANGED vars)
<1> SUFFICES ASSUME IInv, [Next]_vars PROVE IInv' /\ (SleepersStep \/ UNCHANGED vars)
  OBVIOUS
<1>0. TypeOK /\ nat \in NatStates /\ Good(nat) /\ TableUp /\ Tracks(nat, Owed) /\ ListsOK
      /\ ConnsOK
  BY TypeParts DEF IInv
<1>1. ASSUME NEW a \in WanAddrs, NEW sta \in BOOLEAN, NEW added \in BOOLEAN,
             NEW refused \in Refusals, TriggerWANUp(a, sta, added, refused)
      PROVE  IInv' /\ SleepersStep
  <2>1. nat.tables = 0 /\ a \in Addrs
    BY <1>0, <1>1, ClientFacts DEF TriggerWANUp, TableUp
  <2>2. nat' = AddTable(nat, a, added, refused)
    BY <1>1 DEF TriggerWANUp
  <2>3. /\ nat' \in NatStates /\ Good(nat') /\ nat'.temp = nat.temp
        /\ nat'.tables = 0 \/ nat'.pub = a
        /\ Keys(nat') \subseteq Keys(nat) \cup {NoKey}
    BY <1>0, <2>1, <2>2, AddTableGood
  <2>4. Tracks(nat', Owed)
    BY <1>0, <2>3, SameTempKeys
  <2>5. IInv'
    BY <1>0, <1>1, <2>3, <2>4, TypeParts, TypePartsNext
    DEF IInv, TriggerWANUp, TableUp, ListsOK, ConnsOK, Owed, listVars, connVars
  <2> QED
    BY <1>1, <2>5 DEF SleepersStep, TriggerWANUp
<1>2. ASSUME TriggerWANDown PROVE IInv' /\ SleepersStep
  <2>1. ifaceAddr \in Addrs /\ (nat.pub = ifaceAddr \/ nat.tables = 0)
    BY <1>0, ClientFacts DEF TypeOK, TableUp
  <2>2. nat' = DeleteTable(nat, ifaceAddr)
    BY <1>2 DEF TriggerWANDown
  <2>3. /\ nat' \in NatStates /\ Good(nat') /\ nat'.temp = nat.temp /\ nat'.tables = 0
        /\ Keys(nat') \subseteq Keys(nat) \cup {NoKey}
    BY <1>0, <2>1, <2>2, DeleteTableGood
  <2>4. Tracks(nat', Owed)
    BY <1>0, <2>3, SameTempKeys
  <2>5. IInv'
    BY <1>0, <1>2, <2>3, <2>4, TypeParts, TypePartsNext
    DEF IInv, TriggerWANDown, TableUp, ListsOK, ConnsOK, Owed, listVars, connVars
  <2> QED
    BY <1>2, <2>5 DEF SleepersStep, TriggerWANDown
<1>3. ASSUME NEW ip \in NatClients, NEW refused, HandleNeighIpAddrAddEvt(ip, refused)
      PROVE  IInv' /\ SleepersStep
  <2>1. Handled(nat, nat', Owed')
    BY <1>0, <1>3, ClientFacts, ComesHandled DEF HandleNeighIpAddrAddEvt, Owed, connVars
  <2>2. natIfaces' \in [1 .. MaxIfaceAddress -> NatClients \cup {NoAddr}]
    BY <1>0, <1>3 DEF HandleNeighIpAddrAddEvt, ListsOK, ConnsOK, connVars
  <2>3. ListsOK' /\ UNCHANGED wanVars /\ ConnsOK'
    BY <1>0, <1>3, <2>2 DEF HandleNeighIpAddrAddEvt, ListsOK, ConnsOK, connVars
  <2> QED
    BY <2>1, <2>3, HandledStep
<1>4. ASSUME NEW ip \in NatClients, NEW refused, HandleNeighIpAddrDelEvt(ip, refused)
      PROVE  IInv' /\ SleepersStep
  <2>1. Handled(nat, nat', Owed')
    BY <1>0, <1>4, ClientFacts, GoesHandled DEF HandleNeighIpAddrDelEvt, Owed, connVars
  <2>2. natIfaces' \in [1 .. MaxIfaceAddress -> NatClients \cup {NoAddr}]
    BY <1>0, <1>4 DEF HandleNeighIpAddrDelEvt, ListsOK, ConnsOK, connVars
  <2>3. ListsOK' /\ UNCHANGED wanVars /\ ConnsOK'
    BY <1>0, <1>4, <2>2 DEF HandleNeighIpAddrDelEvt, ListsOK, ConnsOK, connVars
  <2> QED
    BY <2>1, <2>3, HandledStep
<1>5. ASSUME NEW ip \in NatClients, NEW refused, PwrSave(ip, refused)
      PROVE  IInv' /\ SleepersStep
  <2>1. Handled(nat, nat', Owed')
    BY <1>0, <1>5, ClientFacts, MethodsHandled DEF PwrSave, Owed, connVars
  <2>2. ListsOK' /\ UNCHANGED wanVars /\ ConnsOK'
    BY <1>0, <1>5 DEF PwrSave, ListsOK, ConnsOK, Owed, listVars, connVars
  <2> QED
    BY <2>1, <2>2, HandledStep
<1>6. ASSUME NEW ip \in NatClients, NEW refused, PwrRecover(ip, refused)
      PROVE  IInv' /\ SleepersStep
  <2>1. Handled(nat, nat', Owed')
    BY <1>0, <1>6, ClientFacts, MethodsHandled DEF PwrRecover, Owed, connVars
  <2>2. ListsOK' /\ UNCHANGED wanVars /\ ConnsOK'
    BY <1>0, <1>6 DEF PwrRecover, ListsOK, ConnsOK, Owed, listVars, connVars
  <2> QED
    BY <2>1, <2>2, HandledStep
<1>7. ASSUME NEW ip \in NonNatClients, NEW refused, NonNatIPAddrAdd(ip, refused)
      PROVE  IInv' /\ SleepersStep
  <2>1. Handled(nat, nat', Owed')
    <3>1. TRUE \in BOOLEAN /\ TRUE \in DummyAllowed(ip)
      BY DEF DummyAllowed
    <3> QED
      BY <1>0, <1>7, <3>1, FlushTracks DEF NonNatIPAddrAdd, Owed, connVars
  <2>2. nonNat' \in [1 .. MaxIfaceAddress -> NonNatClients \cup {NoAddr}]
    BY <1>0, <1>7 DEF NonNatIPAddrAdd, ListsOK, ConnsOK, connVars
  <2>3. ListsOK' /\ UNCHANGED wanVars /\ ConnsOK'
    BY <1>0, <1>7, <2>2 DEF NonNatIPAddrAdd, ListsOK, ConnsOK, connVars
  <2> QED
    BY <2>1, <2>3, HandledStep
<1>8. ASSUME NEW ip \in NonNatClients, NEW refused, NonNatIPAddrDel(ip, refused)
      PROVE  IInv' /\ SleepersStep
  <2>1. Handled(nat, nat', Owed')
    BY <1>0, <1>8, ClientFacts, GoesHandled DEF NonNatIPAddrDel, Owed, connVars
  <2>2. nonNat' \in [1 .. MaxIfaceAddress -> NonNatClients \cup {NoAddr}]
    BY <1>0, <1>8 DEF NonNatIPAddrDel, ListsOK, ConnsOK, connVars
  <2>3. ListsOK' /\ UNCHANGED wanVars /\ ConnsOK'
    BY <1>0, <1>8, <2>2 DEF NonNatIPAddrDel, ListsOK, ConnsOK, connVars
  <2> QED
    BY <2>1, <2>3, HandledStep
<1>9. ASSUME NEW ip \in StaClients, NEW refused, HandleSTAClientAddEvt(ip, refused)
      PROVE  IInv' /\ SleepersStep
  <2>1. Handled(nat, nat', Owed')
    BY <1>0, <1>9, FlushHandled DEF HandleSTAClientAddEvt, Owed, connVars
  <2>2. ListsOK'
    <3> DEFINE i == First(staClnt, {ip, NoAddr})
    <3>1. i \in 1 .. MaxStaClnts /\ staClnt[i] \in {ip, NoAddr}
      <4>1. At(staClnt, {NoAddr}) # {}
        BY <1>0, <1>9, HeldFacts DEF HandleSTAClientAddEvt, ListsOK, ConnsOK, connVars
      <4>2. At(staClnt, {ip, NoAddr}) # {}
        BY <4>1 DEF At
      <4> QED
        BY <1>0, <4>2, FirstFacts, ListenerAssumption DEF ListsOK, StaLists
    <3>2. ip # NoAddr /\ ip \in StaClients \cup {NoAddr}
      BY ClientFacts
    <3>3. staClnt' = [staClnt EXCEPT ![i] = ip]
      BY <1>9 DEF HandleSTAClientAddEvt
    <3>4. staClntCnt' = IF staClnt[i] = NoAddr THEN staClntCnt + 1 ELSE staClntCnt
      BY <1>9 DEF HandleSTAClientAddEvt
    <3> HIDE DEF i
    <3>5. staClnt' \in StaLists /\ staClntCnt' = Cardinality(Held(staClnt'))
      BY <1>0, <3>1, <3>2, <3>3, <3>4, HeldChange DEF ListsOK
    <3> QED
      BY <1>0, <1>9, <3>5 DEF HandleSTAClientAddEvt, ListsOK, ConnsOK, connVars
  <2>3. UNCHANGED wanVars /\ ConnsOK'
    BY <1>0, <1>9 DEF HandleSTAClientAddEvt, ConnsOK, connVars
  <2> QED
    BY <2>1, <2>2, <2>3, HandledStep
<1>10. ASSUME NEW ip \in StaClients, NEW refused, HandleSTAClientDelEvt(ip, refused)
      PROVE  IInv' /\ SleepersStep
  <2> DEFINE known == At(staClnt, {ip}) # {}
  <2>1. Handled(nat, nat', Owed')
    <3>1. PICK x \in {nat, DelEntriesOnSTAClntDiscon(nat, ip, refused)} :
            nat' = FlushTempEntries(x, ip, FALSE, FALSE, {}) /\ Owed' = Owed
      BY <1>10 DEF HandleSTAClientDelEvt, Owed, connVars
    <3> QED
      BY <1>0, <3>1, ClientFacts, StaGoesHandled
  <2>2. staClnt' \in StaLists /\ staClntCnt' = Cardinality(Held(staClnt'))
    <3>1. CASE ~known
      <4>1. staClnt' = staClnt /\ staClntCnt' = staClntCnt
        BY <1>10, <3>1 DEF HandleSTAClientDelEvt
      <4> QED
        BY <1>0, <4>1 DEF ListsOK
    <3>2. CASE known
      <4> DEFINE i == First(staClnt, {ip})
      <4>1. i \in 1 .. MaxStaClnts /\ staClnt[i] = ip /\ ip # NoAddr
        <5>1. MaxStaClnts \in Nat /\ staClnt \in [1 .. MaxStaClnts -> StaClients \cup {NoAddr}]
          BY <1>0, ListenerAssumption DEF ListsOK, StaLists
        <5>2. i \in 1 .. MaxStaClnts /\ staClnt[i] \in {ip}
          BY <3>2, <5>1, FirstFacts
        <5> QED
          BY <5>2, ClientFacts
      <4>2. staClnt' = [staClnt EXCEPT ![i] = NoAddr] /\ staClntCnt' = staClntCnt - 1
        BY <1>10, <3>2 DEF HandleSTAClientDelEvt
      <4> HIDE DEF i
      <4>3. NoAddr \in StaClients \cup {NoAddr}
        OBVIOUS
      <4> QED
        BY <1>0, <4>1, <4>2, <4>3, HeldChange DEF ListsOK
    <3> QED
      BY <3>1, <3>2
  <2>3. ListsOK' /\ UNCHANGED wanVars /\ ConnsOK'
    BY <1>0, <1>10, <2>2 DEF HandleSTAClientDelEvt, ListsOK, ConnsOK, connVars
  <2> QED
    BY <2>1, <2>3, HandledStep
<1>11. ASSUME NEW f \in Flows, NEW refused, CtNew(f, refused) PROVE IInv' /\ SleepersStep
  <2>1. Owed' = Owed \cup {f}
    BY <1>11 DEF CtNew, Owed
  <2>2. Handled(nat, nat', Owed')
    BY <1>11, <2>1, MessageHandled DEF CtNew
  <2>3. ListsOK' /\ UNCHANGED wanVars /\ ConnsOK'
    BY <1>0, <1>11 DEF CtNew, ProcessCTMessage, ListsOK, ConnsOK, listVars
  <2> QED
    BY <2>2, <2>3, HandledStep
<1>12. ASSUME NEW f \in Flows, NEW refused, CtDestroy(f, refused) PROVE IInv' /\ SleepersStep
  <2>1. Owed' = IF EndsUnknown(f) THEN Owed ELSE Owed \ {f}
    BY <1>0, <1>12 DEF CtDestroy, Owed, ConnsOK
  <2>2. \/ Handled(nat, nat', Owed \ {f})
        \/ EndsUnknown(f) /\ Handled(nat, nat', Owed)
    BY <1>12, MessageHandled DEF CtDestroy
  <2>3. Handled(nat, nat', Owed')
    BY <2>1, <2>2, HandledMore
  <2>4. ListsOK' /\ UNCHANGED wanVars /\ ConnsOK'
    BY <1>0, <1>12 DEF CtDestroy, ProcessCTMessage, ListsOK, ConnsOK, listVars
  <2> QED
    BY <2>3, <2>4, HandledStep
<1>13. ASSUME NEW n \in Subnets, AddPrivateSubnet(n) \/ DelPrivateSubnet(n)
       PROVE  IInv' /\ SleepersStep
  <2>1. nat' = nat /\ Owed' = Owed
    BY <1>13 DEF AddPrivateSubnet, DelPrivateSubnet, Owed, connVars
  <2>2. Handled(nat, nat', Owed')
    BY <1>0, <2>1, StepSame DEF Handled
  <2>3. ListsOK' /\ UNCHANGED wanVars /\ ConnsOK'
    BY <1>0, <1>13
    DEF AddPrivateSubnet, DelPrivateSubnet, ListsOK, ConnsOK, listVars, connVars
  <2> QED
    BY <2>2, <2>3, HandledStep
<1>14. ASSUME UNCHANGED vars PROVE IInv'
  BY <1>0, <1>14, TypeParts, TypePartsNext
  DEF IInv, TableUp, ListsOK, ConnsOK, Owed, vars, listVars, wanVars, connVars
<1> QED
  BY <1>1, <1>2, <1>3, <1>4, <1>5, <1>6, <1>7, <1>8, <1>9, <1>10, <1>11, <1>12, <1>13, <1>14
  DEF Next

-----------------------------------------------------------------------------
(* The theorems. *)

\* The inductive invariant.
THEOREM Invariance == Spec => []IInv
BY InitInv, NextInv, PTL DEF Spec

\* The listener's state has its type: above all StaClntCnt counts the clients
\* of its list.
THEOREM TypeCorrect == Spec => []TypeOK
<1>1. IInv => TypeOK
  BY DEF IInv
<1> QED
  BY <1>1, Invariance, PTL

\* The driver holds the rules of the enabled cache entries and, besides, only
\* those whose deletion failed when their connection closed.
THEOREM RulesFollowCache == Spec => []RulesMatchCache
<1>1. IInv => RulesMatchCache
  BY DEF IInv, Good, RulesMatchCache
<1> QED
  BY <1>1, Invariance, PTL

\* curCnt counts the connections of the cache, each of which is there once.
THEOREM CountIsExact == Spec => []CacheCounted
<1>1. IInv => CacheCounted
  BY DEF IInv, Good, CacheCounted
<1> QED
  BY <1>1, Invariance, PTL

\* A closed connection of a NAT client has no entry, cached or temporary, unless
\* it closed while its client was unknown and its subnet was not registered.
THEOREM ClosedConnectionsGo == Spec => []NatClosedIsGone
<1>1. IInv => NatClosedIsGone
  <2> SUFFICES ASSUME IInv, NEW f \in Flows, NatFlow(f), Entered(f) PROVE f \in Owed
    BY DEF NatClosedIsGone, NatFlow, Owed
  <2>1. Tracked(nat, Owed, f)
    BY DEF IInv, Tracks
  <2>2. ASSUME NEW e, KeyOf(e) \in Keys(nat), e.tgt = FlowOf[f].tgt, e.pubport = FlowOf[f].pubport
        PROVE  f \in Owed
    <3>1. IsKeyOf(KeyOf(e), f)
      BY <2>2, KeyParts DEF IsKeyOf
    <3> QED
      BY <2>1, <2>2, <3>1 DEF Tracked
  <2> QED
    BY <2>2, KeysOfSlots DEF Entered
<1> QED
  BY <1>1, Invariance, PTL

\* Without changes of the WAN's address the driver has one table at most.
THEOREM OneTable == Spec => []AtMostOneTable
<1>1. IInv => AtMostOneTable
  BY DEF IInv, Good, Sound, AtMostOneTable, MaxTables
<1> QED
  BY <1>1, Invariance, PTL

\* A client that is and stays in power save is given no rule by any step but the
\* WAN's coming up, which restores the rules of sleeping clients too.
THEOREM SleepersKeepNoRule == Spec => SleepersGetNoRule
<1>1. IInv /\ [Next]_vars => [SleepersStep]_vars
  BY NextInv
<1> QED
  BY <1>1, Invariance, PTL DEF Spec, SleepersGetNoRule, SleepersStep
=============================================================================
