---------------------------- MODULE Firewall_proofs ----------------------------
(* Theorems about Firewall, for every set of files, packets, ALG ports and    *)
(* modes, and any number of events that wait.                                 *)
EXTENDS Firewall, LoopInduction, SequenceTheorems, FiniteSetTheorems

(***************************************************************************)
(* Types.                                                                  *)
(***************************************************************************)
FileVals == {Files[x][n].val : x \in DOMAIN Files, n \in Nat}
Features == {"frag", "multicast", "broadcast", "fe80", "fec0", "FIN", "SYN", "RST", "own", "ICMP", "ICMP6", "TCP", "UDP"}
Dests == {"EXCEPTION", "wan_v6", "DST_NAT", "lan_v4", "wan_dl", "table 0"}
Vals == Nat \cup Features \cup {NULL} \cup FileVals \cup {Alg[i].protocol : i \in DOMAIN Alg}
Ranges == [lo : Nat, hi : Nat]
Rules == [on : SUBSET Vals, src : Ranges, dst : Ranges, to : Dests]
Entries == [hdl : Nat, rule : Rules]
Tables == Seq(Entries)

Distinct(t) == \A i, j \in 1..Len(t) : i # j => t[i].hdl # t[j].hdl
RulesIn(t) == [i \in 1..Len(t) |-> t[i].rule]

(***************************************************************************)
(* Filter tables: what is left without some handles.                       *)
(***************************************************************************)

\* The loop of Without is a function, and takes one entry after the other.
LEMMA WithoutSteps ==
    ASSUME NEW t \in Tables, NEW D
    PROVE  \E g : /\ g \in [0..Len(t) -> Tables] /\ g[0] = <<>>
                  /\ \A n \in 1..Len(t) : g[n] = IF t[n].hdl \in D THEN g[n - 1] ELSE Append(g[n - 1], t[n])
                  /\ Without(t, D) = g[Len(t)]
<1> DEFINE N == Len(t)
           round == [n \in 1..N |-> [x \in Tables |-> IF t[n].hdl \in D THEN x ELSE Append(x, t[n])]]
           F1(g, n) == IF n = 0 THEN <<>> ELSE IF t[n].hdl \in D THEN g[n - 1] ELSE Append(g[n - 1], t[n])
           Left == CHOOSE g : g = [n \in 0..N |-> F1(g, n)]
<1>1. N \in Nat /\ \A n \in 1..N : t[n] \in Entries
  BY DEF Tables
<1>2. round \in [1..N -> [Tables -> Tables]] /\ <<>> \in Tables
  BY <1>1 DEF Tables
<1>3. PICK h : IsLoop(h, N, Tables, <<>>, round)
  <2> HIDE DEF round, N
  <2> QED BY <1>1, <1>2, LoopExists
<1>4. h = [n \in 0..N |-> F1(h, n)]
  <2>1. h \in [0..N -> Tables] /\ h[0] = <<>> /\ \A n \in 1..N : h[n] = round[n][h[n - 1]]
    BY <1>3 DEF IsLoop
  <2>2. \A n \in 1..N : n - 1 \in 0..N /\ h[n - 1] \in Tables
    BY <2>1, <1>1
  <2>2b. \A n \in 1..N : \A x \in Tables : round[n][x] = IF t[n].hdl \in D THEN x ELSE Append(x, t[n])
    OBVIOUS
  <2> HIDE DEF round
  <2>3. ASSUME NEW n \in 0..N PROVE h[n] = F1(h, n)
    <3>1. CASE n = 0
      BY <3>1, <2>1
    <3>2. CASE n # 0
      <4>1. n \in 1..N
        BY <3>2, <1>1
      <4>2. h[n] = round[n][h[n - 1]] /\ h[n - 1] \in Tables
        BY <4>1, <2>1, <2>2
      <4> QED BY <4>1, <4>2, <2>2b, <3>2
    <3> QED BY <3>1, <3>2
  <2> QED BY <2>1, <2>3
<1>5. Left = [n \in 0..N |-> F1(Left, n)]
  BY <1>4
<1>6. Without(t, D) = Left[N]
  BY DEF Without
<1> HIDE DEF Left
<1>7. \A n \in 0..N : Left[n] = F1(Left, n)
  BY <1>5
<1>8. Left[0] = <<>> /\ \A n \in 1..N : Left[n] = IF t[n].hdl \in D THEN Left[n - 1] ELSE Append(Left[n - 1], t[n])
  BY <1>1, <1>7
<1>9. \A n \in 0..N : Left[n] \in Tables
  <2> DEFINE T == {n \in 0..N : Left[n] \in Tables}
  <2>1. 0 \in T
    BY <1>1, <1>2, <1>8
  <2>2. ASSUME NEW n \in 1..N, n - 1 \in T PROVE n \in T
    <3>1. n \in 0..N /\ Left[n - 1] \in Tables /\ t[n] \in Entries
      BY <1>1, <2>2
    <3>2. Append(Left[n - 1], t[n]) \in Tables
      BY <3>1 DEF Tables
    <3> QED BY <3>1, <3>2, <1>8
  <2> HIDE DEF T
  <2>3. 0..N \subseteq T
    BY <1>1, <2>1, <2>2, BoundedInduction
  <2> QED BY <2>3 DEF T
<1>10. Left \in [0..N -> Tables]
  BY <1>5, <1>9
<1> QED
  BY <1>6, <1>8, <1>10

LEMMA WithoutNone ==
    ASSUME NEW D
    PROVE  Without(<<>>, D) = <<>>
<1>1. <<>> \in Tables /\ Len(<<>>) = 0
  BY DEF Tables
<1> QED BY <1>1, WithoutSteps

LEMMA WithoutAppend ==
    ASSUME NEW t \in Tables, NEW e \in Entries, NEW D
    PROVE  Without(Append(t, e), D) = IF e.hdl \in D THEN Without(t, D) ELSE Append(Without(t, D), e)
<1> DEFINE u == Append(t, e)
           N == Len(t)
<1>1. u \in Tables /\ Len(u) = N + 1 /\ u[N + 1] = e /\ \A n \in 1..N : u[n] = t[n]
  BY DEF Tables
<1>1a. N \in Nat
  BY DEF Tables
<1> HIDE DEF u
<1>2. PICK g : /\ g \in [0..N -> Tables] /\ g[0] = <<>>
               /\ \A n \in 1..N : g[n] = IF t[n].hdl \in D THEN g[n - 1] ELSE Append(g[n - 1], t[n])
               /\ Without(t, D) = g[N]
  BY WithoutSteps
<1>2a. \E h : /\ h \in [0..Len(u) -> Tables] /\ h[0] = <<>>
              /\ \A n \in 1..Len(u) : h[n] = IF u[n].hdl \in D THEN h[n - 1] ELSE Append(h[n - 1], u[n])
              /\ Without(u, D) = h[Len(u)]
  BY <1>1, WithoutSteps
<1>3. PICK h : /\ h \in [0..(N + 1) -> Tables] /\ h[0] = <<>>
               /\ \A n \in 1..(N + 1) : h[n] = IF u[n].hdl \in D THEN h[n - 1] ELSE Append(h[n - 1], u[n])
               /\ Without(u, D) = h[N + 1]
  BY <1>1, <1>2a
<1>4. h[N] = g[N]
  <2> DEFINE T == {n \in 0..N : h[n] = g[n]}
  <2>1. 0 \in T
    BY <1>1a, <1>2, <1>3
  <2>2. \A n \in 1..N : n - 1 \in T => n \in T
    <3> SUFFICES ASSUME NEW n \in 1..N, n - 1 \in T PROVE n \in T
      OBVIOUS
    <3>1. n \in 1..(N + 1) /\ n \in 0..N /\ h[n - 1] = g[n - 1] /\ u[n] = t[n]
      BY <1>1a, <1>1
    <3> QED BY <3>1, <1>2, <1>3
  <2> HIDE DEF T
  <2>3. 0..N \subseteq T
    BY <1>1a, <2>1, <2>2, BoundedInduction
  <2> QED BY <2>3, <1>1a DEF T
<1>5. h[N + 1] = IF e.hdl \in D THEN h[N] ELSE Append(h[N], e)
  <2>1. N + 1 \in 1..(N + 1) /\ N + 1 - 1 = N
    BY <1>1a
  <2> QED BY <2>1, <1>1, <1>3
<1> QED
  BY <1>2, <1>3, <1>4, <1>5 DEF u

\* Induction over the prefixes of a table.
LEMMA TablePrefixes ==
    ASSUME NEW t \in Tables
    PROVE  /\ SubSeq(t, 1, 0) = <<>> /\ SubSeq(t, 1, Len(t)) = t /\ Len(t) \in Nat
           /\ \A n \in 0..Len(t) : SubSeq(t, 1, n) \in Tables
           /\ \A n \in 1..Len(t) : /\ t[n] \in Entries /\ SubSeq(t, 1, n - 1) \in Tables
                                   /\ SubSeq(t, 1, n) = Append(SubSeq(t, 1, n - 1), t[n])
<1>1. Len(t) \in Nat /\ SubSeq(t, 1, 0) = <<>> /\ SubSeq(t, 1, Len(t)) = t
  BY SubSeqFull DEF Tables
<1>2. \A n \in 0..Len(t) : SubSeq(t, 1, n) \in Tables
  BY <1>1 DEF Tables
<1>3. ASSUME NEW n \in 1..Len(t)
      PROVE  /\ t[n] \in Entries /\ SubSeq(t, 1, n - 1) \in Tables
             /\ SubSeq(t, 1, n) = Append(SubSeq(t, 1, n - 1), t[n])
  <2>1. t[n] \in Entries /\ n - 1 \in 0..Len(t)
    BY <1>1 DEF Tables
  <2>2. SubSeq(t, 1, n) = Append(SubSeq(t, 1, n - 1), t[n])
    BY <1>1 DEF Tables
  <2> QED BY <2>1, <2>2, <1>2
<1> QED BY <1>1, <1>2, <1>3

LEMMA TablesClosed ==
    /\ <<>> \in Tables /\ Hdls(<<>>) = {} /\ Len(<<>>) = 0
    /\ \A t, u \in Tables : t \o u \in Tables /\ Len(t \o u) = Len(t) + Len(u) /\ t \o <<>> = t /\ <<>> \o t = t
    /\ \A t \in Tables, e \in Entries : /\ Append(t, e) \in Tables /\ Hdls(Append(t, e)) = Hdls(t) \cup {e.hdl}
                                        /\ Len(Append(t, e)) = Len(t) + 1
    /\ \A t \in Tables : Len(t) \in Nat /\ DOMAIN t = 1..Len(t)
<1>1. \A t \in Tables, e \in Entries : Hdls(Append(t, e)) = Hdls(t) \cup {e.hdl}
  <2> SUFFICES ASSUME NEW t \in Tables, NEW e \in Entries PROVE Hdls(Append(t, e)) = Hdls(t) \cup {e.hdl}
    OBVIOUS
  <2>1. /\ DOMAIN Append(t, e) = 1..(Len(t) + 1) /\ DOMAIN t = 1..Len(t) /\ Len(t) \in Nat
        /\ Append(t, e)[Len(t) + 1] = e /\ \A n \in 1..Len(t) : Append(t, e)[n] = t[n]
    BY DEF Tables
  <2> QED BY <2>1 DEF Hdls
<1>2. <<>> \in Tables /\ Hdls(<<>>) = {} /\ Len(<<>>) = 0
  BY DEF Tables, Hdls
<1>3. ASSUME NEW t \in Tables, NEW u \in Tables
      PROVE  t \o u \in Tables /\ Len(t \o u) = Len(t) + Len(u) /\ t \o <<>> = t /\ <<>> \o t = t
  BY ConcatProperties, ConcatEmptySeq DEF Tables
<1>4. \A t \in Tables, e \in Entries : Append(t, e) \in Tables /\ Len(Append(t, e)) = Len(t) + 1
  BY DEF Tables
<1>5. \A t \in Tables : Len(t) \in Nat /\ DOMAIN t = 1..Len(t)
  BY DEF Tables
<1> QED
  BY <1>1, <1>2, <1>3, <1>4, <1>5

\* What holds of the empty table and of a table with one more entry holds of all.
LEMMA TableInduction ==
    ASSUME NEW t \in Tables, NEW P, <<>> \in P,
           \A u \in Tables, e \in Entries : u \in P => Append(u, e) \in P
    PROVE  t \in P
<1> DEFINE T == {n \in 0..Len(t) : SubSeq(t, 1, n) \in P}
<1>1. Len(t) \in Nat /\ SubSeq(t, 1, 0) = <<>> /\ SubSeq(t, 1, Len(t)) = t
  BY TablePrefixes
<1>2. 0 \in T
  <2>1. 0 \in 0..Len(t)
    BY <1>1
  <2>2. SubSeq(t, 1, 0) \in P
    BY <1>1, Zenon
  <2> QED BY <2>1, <2>2
<1>3. ASSUME NEW n \in 1..Len(t), n - 1 \in T PROVE n \in T
  <2>1. /\ t[n] \in Entries /\ SubSeq(t, 1, n - 1) \in Tables
        /\ SubSeq(t, 1, n) = Append(SubSeq(t, 1, n - 1), t[n])
    BY TablePrefixes
  <2>2. SubSeq(t, 1, n) \in P
    BY <2>1, <1>3
  <2> QED BY <2>2, <1>1
<1> HIDE DEF T
<1>4. 0..Len(t) \subseteq T
  BY <1>1, <1>2, <1>3, BoundedInduction
<1>5. Len(t) \in T
  BY <1>1, <1>4
<1> QED BY <1>1, <1>5 DEF T

LEMMA WithoutIsTable ==
    ASSUME NEW t \in Tables, NEW D
    PROVE  Without(t, D) \in Tables
<1>1. PICK g : g \in [0..Len(t) -> Tables] /\ Without(t, D) = g[Len(t)]
  BY WithoutSteps
<1>2. Len(t) \in 0..Len(t)
  BY TablesClosed
<1> QED BY <1>1, <1>2

LEMMA WithoutHdls ==
    ASSUME NEW t \in Tables, NEW D
    PROVE  Hdls(Without(t, D)) = Hdls(t) \ D
<1> DEFINE P == {u \in Tables : Hdls(Without(u, D)) = Hdls(u) \ D}
<1>1. <<>> \in P
  BY WithoutNone, TablesClosed
<1>2. ASSUME NEW u \in Tables, NEW e \in Entries, u \in P PROVE Append(u, e) \in P
  <2>1. Without(u, D) \in Tables /\ Append(u, e) \in Tables /\ Hdls(Append(u, e)) = Hdls(u) \cup {e.hdl}
    BY WithoutIsTable, TablesClosed
  <2>2. Hdls(Append(Without(u, D), e)) = Hdls(Without(u, D)) \cup {e.hdl}
    BY <2>1, TablesClosed
  <2>3. Without(Append(u, e), D) = IF e.hdl \in D THEN Without(u, D) ELSE Append(Without(u, D), e)
    BY WithoutAppend
  <2>4. Hdls(Without(u, D)) = Hdls(u) \ D
    BY <1>2
  <2>5. Hdls(Without(Append(u, e), D)) = Hdls(Append(u, e)) \ D
    BY <2>1, <2>2, <2>3, <2>4
  <2> QED BY <2>1, <2>5
<1> HIDE DEF P
<1>3. t \in P
  BY <1>1, <1>2, TableInduction
<1> QED BY <1>3 DEF P

LEMMA ConcatAppend ==
    ASSUME NEW t \in Tables, NEW u \in Tables, NEW e \in Entries
    PROVE  t \o Append(u, e) = Append(t \o u, e)
BY DEF Tables

LEMMA WithoutConcat ==
    ASSUME NEW t \in Tables, NEW u \in Tables, NEW D
    PROVE  Without(t \o u, D) = Without(t, D) \o Without(u, D)
<1> DEFINE P == {v \in Tables : Without(t \o v, D) = Without(t, D) \o Without(v, D)}
<1>0. Without(t, D) \in Tables /\ <<>> \in Tables
  BY WithoutIsTable, TablesClosed
<1>1. <<>> \in P
  BY <1>0, WithoutNone, TablesClosed
<1>2. ASSUME NEW v \in Tables, NEW e \in Entries, v \in P PROVE Append(v, e) \in P
  <2>1. Without(v, D) \in Tables /\ Append(v, e) \in Tables /\ t \o v \in Tables
    BY WithoutIsTable, TablesClosed
  <2>2. t \o Append(v, e) = Append(t \o v, e)
    BY ConcatAppend
  <2>3. Without(t, D) \o Append(Without(v, D), e) = Append(Without(t, D) \o Without(v, D), e)
    BY <1>0, <2>1, ConcatAppend
  <2>4. /\ Without(Append(v, e), D) = IF e.hdl \in D THEN Without(v, D) ELSE Append(Without(v, D), e)
        /\ Without(Append(t \o v, e), D) = IF e.hdl \in D THEN Without(t \o v, D) ELSE Append(Without(t \o v, D), e)
    BY <2>1, WithoutAppend
  <2>5. Without(t \o v, D) = Without(t, D) \o Without(v, D)
    BY <1>2
  <2>6. Without(t \o Append(v, e), D) = Without(t, D) \o Without(Append(v, e), D)
    BY <2>2, <2>3, <2>4, <2>5
  <2> QED BY <2>1, <2>6
<1> HIDE DEF P
<1>3. u \in P
  BY <1>1, <1>2, TableInduction
<1> QED BY <1>3 DEF P

LEMMA WithoutTwice ==
    ASSUME NEW t \in Tables, NEW D, NEW E
    PROVE  Without(Without(t, D), E) = Without(t, D \cup E)
<1> DEFINE P == {v \in Tables : Without(Without(v, D), E) = Without(v, D \cup E)}
<1>1. <<>> \in P
  BY WithoutNone, TablesClosed
<1>2. ASSUME NEW v \in Tables, NEW e \in Entries, v \in P PROVE Append(v, e) \in P
  <2>1. Without(v, D) \in Tables /\ Append(v, e) \in Tables
    BY WithoutIsTable, TablesClosed
  <2>2. /\ Without(Append(v, e), D) = IF e.hdl \in D THEN Without(v, D) ELSE Append(Without(v, D), e)
        /\ Without(Append(Without(v, D), e), E) =
               IF e.hdl \in E THEN Without(Without(v, D), E) ELSE Append(Without(Without(v, D), E), e)
        /\ Without(Append(v, e), D \cup E) =
               IF e.hdl \in D \cup E THEN Without(v, D \cup E) ELSE Append(Without(v, D \cup E), e)
    BY <2>1, WithoutAppend
  <2>3. Without(Without(v, D), E) = Without(v, D \cup E)
    BY <1>2
  <2>4. Without(Without(Append(v, e), D), E) = Without(Append(v, e), D \cup E)
    BY <2>2, <2>3
  <2> QED BY <2>1, <2>4
<1> HIDE DEF P
<1>3. t \in P
  BY <1>1, <1>2, TableInduction
<1> QED BY <1>3 DEF P

LEMMA WithoutOthers ==
    ASSUME NEW t \in Tables, NEW D, Hdls(t) \cap D = {}
    PROVE  Without(t, D) = t
<1> DEFINE P == {v \in Tables : Hdls(v) \cap D = {} => Without(v, D) = v}
<1>1. <<>> \in P
  BY WithoutNone, TablesClosed
<1>2. ASSUME NEW v \in Tables, NEW e \in Entries, v \in P PROVE Append(v, e) \in P
  <2>1. Append(v, e) \in Tables /\ Hdls(Append(v, e)) = Hdls(v) \cup {e.hdl}
    BY TablesClosed
  <2>2. Without(Append(v, e), D) = IF e.hdl \in D THEN Without(v, D) ELSE Append(Without(v, D), e)
    BY WithoutAppend
  <2>3. Hdls(v) \cap D = {} => Without(v, D) = v
    BY <1>2
  <2>4. Hdls(Append(v, e)) \cap D = {} => Without(Append(v, e), D) = Append(v, e)
    BY <2>1, <2>2, <2>3
  <2> QED BY <2>1, <2>4
<1> HIDE DEF P
<1>3. t \in P
  BY <1>1, <1>2, TableInduction
<1> QED BY <1>3 DEF P

LEMMA WithoutAll ==
    ASSUME NEW t \in Tables, NEW D, Hdls(t) \subseteq D
    PROVE  Without(t, D) = <<>>
<1>1. Hdls(Without(t, D)) = {} /\ Without(t, D) \in Tables
  BY WithoutHdls, WithoutIsTable
<1> DEFINE u == Without(t, D)
<1> HIDE DEF u
<1>2. u \in Tables /\ Hdls(u) = {}
  BY <1>1 DEF u
<1>3. Len(u) \in Nat /\ DOMAIN u = 1..Len(u)
  BY <1>2, TablesClosed
<1>4. Len(u) = 0
  <2> SUFFICES ASSUME Len(u) # 0 PROVE FALSE
    OBVIOUS
  <2>1. 1 \in DOMAIN u
    BY <1>3
  <2>2. u[1].hdl \in Hdls(u)
    BY <2>1 DEF Hdls
  <2> QED BY <2>2, <1>2
<1>5. u = <<>>
  BY <1>2, <1>4 DEF Tables
<1> QED BY <1>5 DEF u

\* Distinct handles.
LEMMA DistinctAppend ==
    ASSUME NEW t \in Tables, NEW e \in Entries
    PROVE  Distinct(Append(t, e)) <=> Distinct(t) /\ e.hdl \notin Hdls(t)
<1>1. /\ Len(t) \in Nat /\ DOMAIN t = 1..Len(t) /\ Len(Append(t, e)) = Len(t) + 1
      /\ Append(t, e)[Len(t) + 1] = e /\ \A n \in 1..Len(t) : Append(t, e)[n] = t[n]
  BY DEF Tables
<1>2. ASSUME Distinct(Append(t, e)) PROVE Distinct(t) /\ e.hdl \notin Hdls(t)
  <2>1. \A n \in 1..Len(t) : n \in 1..(Len(t) + 1) /\ Len(t) + 1 \in 1..(Len(t) + 1) /\ n # Len(t) + 1
    BY <1>1
  <2>2. Distinct(t)
    BY <1>1, <1>2, <2>1 DEF Distinct
  <2>3. \A n \in 1..Len(t) : t[n].hdl # e.hdl
    BY <1>1, <1>2, <2>1 DEF Distinct
  <2> QED BY <2>2, <2>3, <1>1 DEF Hdls
<1>3. ASSUME Distinct(t), e.hdl \notin Hdls(t) PROVE Distinct(Append(t, e))
  <2>1. \A n \in 1..Len(t) : t[n].hdl # e.hdl
    BY <1>1, <1>3 DEF Hdls
  <2>2. \A n \in 1..(Len(t) + 1) : n = Len(t) + 1 \/ n \in 1..Len(t)
    BY <1>1
  <2> QED BY <1>1, <1>3, <2>1, <2>2 DEF Distinct
<1> QED BY <1>2, <1>3

LEMMA HdlsConcat ==
    ASSUME NEW t \in Tables, NEW u \in Tables
    PROVE  Hdls(t \o u) = Hdls(t) \cup Hdls(u)
<1> DEFINE P == {v \in Tables : Hdls(t \o v) = Hdls(t) \cup Hdls(v)}
<1>1. <<>> \in P
  BY TablesClosed
<1>2. ASSUME NEW v \in Tables, NEW e \in Entries, v \in P PROVE Append(v, e) \in P
  <2>1. Append(v, e) \in Tables /\ t \o v \in Tables /\ t \o Append(v, e) = Append(t \o v, e)
    BY TablesClosed, ConcatAppend, ZenonT(60)
  <2>2. Hdls(Append(t \o v, e)) = Hdls(t \o v) \cup {e.hdl} /\ Hdls(Append(v, e)) = Hdls(v) \cup {e.hdl}
    BY <2>1, TablesClosed
  <2>3. Hdls(t \o v) = Hdls(t) \cup Hdls(v)
    BY <1>2
  <2> QED BY <2>1, <2>2, <2>3
<1> HIDE DEF P
<1>3. u \in P
  BY <1>1, <1>2, TableInduction
<1> QED BY <1>3 DEF P

LEMMA DistinctConcat ==
    ASSUME NEW t \in Tables, NEW u \in Tables
    PROVE  Distinct(t \o u) <=> Distinct(t) /\ Distinct(u) /\ Hdls(t) \cap Hdls(u) = {}
<1> DEFINE P == {v \in Tables : Distinct(t \o v) <=> Distinct(t) /\ Distinct(v) /\ Hdls(t) \cap Hdls(v) = {}}
<1>0. Distinct(<<>>)
  BY DEF Distinct
<1>1. <<>> \in P
  BY <1>0, TablesClosed
<1>2. ASSUME NEW v \in Tables, NEW e \in Entries, v \in P PROVE Append(v, e) \in P
  <2>1. Append(v, e) \in Tables /\ t \o v \in Tables /\ t \o Append(v, e) = Append(t \o v, e)
    BY TablesClosed, ConcatAppend, ZenonT(60)
  <2>2. Hdls(t \o v) = Hdls(t) \cup Hdls(v) /\ Hdls(Append(v, e)) = Hdls(v) \cup {e.hdl}
    BY TablesClosed, HdlsConcat
  <2>3. /\ Distinct(Append(t \o v, e)) <=> Distinct(t \o v) /\ e.hdl \notin Hdls(t \o v)
        /\ Distinct(Append(v, e)) <=> Distinct(v) /\ e.hdl \notin Hdls(v)
    BY <2>1, DistinctAppend
  <2>4. Distinct(t \o v) <=> Distinct(t) /\ Distinct(v) /\ Hdls(t) \cap Hdls(v) = {}
    BY <1>2
  <2>5. Distinct(t \o Append(v, e)) <=> Distinct(t) /\ Distinct(Append(v, e)) /\ Hdls(t) \cap Hdls(Append(v, e)) = {}
    BY <2>1, <2>2, <2>3, <2>4
  <2> QED BY <2>1, <2>5
<1> HIDE DEF P
<1>3. u \in P
  BY <1>1, <1>2, TableInduction
<1> QED BY <1>3 DEF P

LEMMA WithoutDistinct ==
    ASSUME NEW t \in Tables, NEW D, Distinct(t)
    PROVE  Distinct(Without(t, D))
<1> DEFINE P == {v \in Tables : Distinct(v) => Distinct(Without(v, D))}
<1>1. <<>> \in P
  BY WithoutNone, TablesClosed
<1>2. ASSUME NEW v \in Tables, NEW e \in Entries, v \in P PROVE Append(v, e) \in P
  <2>1. Append(v, e) \in Tables /\ Without(v, D) \in Tables /\ Hdls(Without(v, D)) = Hdls(v) \ D
    BY TablesClosed, WithoutIsTable, WithoutHdls
  <2>2. Without(Append(v, e), D) = IF e.hdl \in D THEN Without(v, D) ELSE Append(Without(v, D), e)
    BY WithoutAppend
  <2>3. /\ Distinct(Append(Without(v, D), e)) <=> Distinct(Without(v, D)) /\ e.hdl \notin Hdls(Without(v, D))
        /\ Distinct(Append(v, e)) <=> Distinct(v) /\ e.hdl \notin Hdls(v)
    BY <2>1, DistinctAppend
  <2>4. Distinct(v) => Distinct(Without(v, D))
    BY <1>2
  <2>5. Distinct(Append(v, e)) => Distinct(Without(Append(v, e), D))
    BY <2>1, <2>2, <2>3, <2>4
  <2> QED BY <2>1, <2>5
<1> HIDE DEF P
<1>3. t \in P
  BY <1>1, <1>2, TableInduction
<1> QED BY <1>3 DEF P

\* A table of distinct handles has as many entries as handles.
LEMMA DistinctCount ==
    ASSUME NEW t \in Tables, Distinct(t)
    PROVE  IsFiniteSet(Hdls(t)) /\ Cardinality(Hdls(t)) = Len(t)
<1> DEFINE P == {v \in Tables : Distinct(v) => IsFiniteSet(Hdls(v)) /\ Cardinality(Hdls(v)) = Len(v)}
<1>1. <<>> \in P
  BY TablesClosed, FS_EmptySet
<1>2. ASSUME NEW v \in Tables, NEW e \in Entries, v \in P PROVE Append(v, e) \in P
  <2>1. /\ Append(v, e) \in Tables /\ Hdls(Append(v, e)) = Hdls(v) \cup {e.hdl}
        /\ Len(Append(v, e)) = Len(v) + 1
    BY TablesClosed
  <2>2. Distinct(Append(v, e)) => Distinct(v) /\ e.hdl \notin Hdls(v)
    BY DistinctAppend
  <2>3. Distinct(v) => IsFiniteSet(Hdls(v)) /\ Cardinality(Hdls(v)) = Len(v)
    BY <1>2
  <2>4. IsFiniteSet(Hdls(v)) /\ e.hdl \notin Hdls(v) =>
            IsFiniteSet(Hdls(v) \cup {e.hdl}) /\ Cardinality(Hdls(v) \cup {e.hdl}) = Cardinality(Hdls(v)) + 1
    BY FS_AddElement
  <2> QED BY <2>1, <2>2, <2>3, <2>4
<1> HIDE DEF P
<1>3. t \in P
  BY <1>1, <1>2, TableInduction
<1> QED BY <1>3 DEF P

\* Any table has no more handles than entries.
LEMMA HdlsCount ==
    ASSUME NEW t \in Tables
    PROVE  IsFiniteSet(Hdls(t)) /\ Cardinality(Hdls(t)) <= Len(t) /\ Hdls(t) \subseteq Nat
<1> DEFINE P == {v \in Tables : IsFiniteSet(Hdls(v)) /\ Cardinality(Hdls(v)) <= Len(v)}
<1>1. <<>> \in P
  BY TablesClosed, FS_EmptySet
<1>2. ASSUME NEW v \in Tables, NEW e \in Entries, v \in P PROVE Append(v, e) \in P
  <2>1. /\ Append(v, e) \in Tables /\ Hdls(Append(v, e)) = Hdls(v) \cup {e.hdl}
        /\ Len(Append(v, e)) = Len(v) + 1 /\ Len(v) \in Nat
    BY TablesClosed
  <2>2. IsFiniteSet(Hdls(v)) /\ Cardinality(Hdls(v)) <= Len(v)
    BY <1>2
  <2>3. /\ IsFiniteSet(Hdls(v) \cup {e.hdl})
        /\ Cardinality(Hdls(v) \cup {e.hdl}) = IF e.hdl \in Hdls(v) THEN Cardinality(Hdls(v)) ELSE Cardinality(Hdls(v)) + 1
    BY <2>2, FS_AddElement
  <2>4. Cardinality(Hdls(v)) \in Nat
    BY <2>2, FS_CardinalityType
  <2>5. Cardinality(Hdls(v) \cup {e.hdl}) <= Len(v) + 1
    BY <2>1, <2>2, <2>3, <2>4
  <2> QED BY <2>1, <2>3, <2>5
<1> HIDE DEF P
<1>3. t \in P
  BY <1>1, <1>2, TableInduction
<1>4. \A n \in 1..Len(t) : t[n].hdl \in Nat
  <2>1. \A n \in 1..Len(t) : t[n] \in Entries
    BY TablePrefixes
  <2> QED BY <2>1 DEF Entries
<1>5. Hdls(t) \subseteq Nat
  BY <1>4, TablesClosed DEF Hdls
<1> QED BY <1>3, <1>5 DEF P

(***************************************************************************)
(* A filter table and the parts of it that an interface has handles of:    *)
(* software routing, the default filters, its own address, the fragments   *)
(* and the firewall, in this order, once the rules left behind are taken   *)
(* out.                                                                    *)
(***************************************************************************)
Parts == [sw : Tables, fl : Tables, own : Tables, frag : Tables, fw : Tables]
Whole(q) == q.sw \o (q.fl \o (q.own \o (q.frag \o q.fw)))

Pipe(t, lost, q) ==
    /\ t \in Tables /\ q \in Parts /\ Distinct(t)
    /\ lost \subseteq Hdls(t) /\ Without(t, lost) = Whole(q)

HdlSeq(t) == [i \in 1..Len(t) |-> t[i].hdl]
PartHdls(q) == Hdls(q.sw) \cup Hdls(q.fl) \cup Hdls(q.own) \cup Hdls(q.frag) \cup Hdls(q.fw)

LEMMA PartTypes ==
    ASSUME NEW q \in Parts
    PROVE  /\ q.sw \in Tables /\ q.fl \in Tables /\ q.own \in Tables /\ q.frag \in Tables /\ q.fw \in Tables
           /\ q.frag \o q.fw \in Tables /\ q.own \o (q.frag \o q.fw) \in Tables
           /\ q.fl \o (q.own \o (q.frag \o q.fw)) \in Tables /\ Whole(q) \in Tables
<1>1. q.sw \in Tables /\ q.fl \in Tables /\ q.own \in Tables /\ q.frag \in Tables /\ q.fw \in Tables
  BY DEF Parts
<1>2. q.frag \o q.fw \in Tables
  BY <1>1, TablesClosed
<1>3. q.own \o (q.frag \o q.fw) \in Tables
  BY <1>1, <1>2, TablesClosed
<1>4. q.fl \o (q.own \o (q.frag \o q.fw)) \in Tables
  BY <1>1, <1>3, TablesClosed
<1>5. Whole(q) \in Tables
  BY <1>1, <1>4, TablesClosed DEF Whole
<1> QED BY <1>1, <1>2, <1>3, <1>4, <1>5

LEMMA WholeHdls ==
    ASSUME NEW q \in Parts
    PROVE  Hdls(Whole(q)) = PartHdls(q)
<1>1. Hdls(q.frag \o q.fw) = Hdls(q.frag) \cup Hdls(q.fw)
  BY PartTypes, HdlsConcat
<1>2. Hdls(q.own \o (q.frag \o q.fw)) = Hdls(q.own) \cup Hdls(q.frag \o q.fw)
  BY PartTypes, HdlsConcat
<1>3. Hdls(q.fl \o (q.own \o (q.frag \o q.fw))) = Hdls(q.fl) \cup Hdls(q.own \o (q.frag \o q.fw))
  BY PartTypes, HdlsConcat
<1>4. Hdls(Whole(q)) = Hdls(q.sw) \cup Hdls(q.fl \o (q.own \o (q.frag \o q.fw)))
  BY PartTypes, HdlsConcat DEF Whole
<1> QED BY <1>1, <1>2, <1>3, <1>4 DEF PartHdls

\* The parts have handles of their own, which are not among those left behind.
LEMMA PartsApart ==
    ASSUME NEW t, NEW lost, NEW q, Pipe(t, lost, q)
    PROVE  /\ Hdls(t) = lost \cup PartHdls(q) /\ lost \cap PartHdls(q) = {}
           /\ Hdls(q.sw) \cap (Hdls(q.fl) \cup Hdls(q.own) \cup Hdls(q.frag) \cup Hdls(q.fw)) = {}
           /\ Hdls(q.fl) \cap (Hdls(q.own) \cup Hdls(q.frag) \cup Hdls(q.fw)) = {}
           /\ Hdls(q.own) \cap (Hdls(q.frag) \cup Hdls(q.fw)) = {}
           /\ Hdls(q.frag) \cap Hdls(q.fw) = {}
<1>1. t \in Tables /\ q \in Parts /\ Distinct(t) /\ lost \subseteq Hdls(t) /\ Without(t, lost) = Whole(q)
  BY DEF Pipe
<1>2. Hdls(Whole(q)) = Hdls(t) \ lost
  BY <1>1, WithoutHdls
<1>3. Distinct(Whole(q))
  BY <1>1, WithoutDistinct
<1>4. Distinct(q.fl \o (q.own \o (q.frag \o q.fw))) /\ Hdls(q.sw) \cap Hdls(q.fl \o (q.own \o (q.frag \o q.fw))) = {}
  BY <1>1, <1>3, PartTypes, DistinctConcat DEF Whole
<1>5. Distinct(q.own \o (q.frag \o q.fw)) /\ Hdls(q.fl) \cap Hdls(q.own \o (q.frag \o q.fw)) = {}
  BY <1>1, <1>4, PartTypes, DistinctConcat
<1>6. Distinct(q.frag \o q.fw) /\ Hdls(q.own) \cap Hdls(q.frag \o q.fw) = {}
  BY <1>1, <1>5, PartTypes, DistinctConcat
<1>7. Hdls(q.frag) \cap Hdls(q.fw) = {}
  BY <1>1, <1>6, PartTypes, DistinctConcat
<1>8. /\ Hdls(q.frag \o q.fw) = Hdls(q.frag) \cup Hdls(q.fw)
      /\ Hdls(q.own \o (q.frag \o q.fw)) = Hdls(q.own) \cup Hdls(q.frag \o q.fw)
      /\ Hdls(q.fl \o (q.own \o (q.frag \o q.fw))) = Hdls(q.fl) \cup Hdls(q.own \o (q.frag \o q.fw))
  BY <1>1, PartTypes, HdlsConcat
<1>9. Hdls(Whole(q)) = PartHdls(q)
  BY <1>1, WholeHdls
<1> QED BY <1>1, <1>2, <1>4, <1>5, <1>6, <1>7, <1>8, <1>9

\* Deleting the rules of handles that are held.
PartsWithout(q, D) ==
    [sw |-> Without(q.sw, D), fl |-> Without(q.fl, D), own |-> Without(q.own, D),
     frag |-> Without(q.frag, D), fw |-> Without(q.fw, D)]

LEMMA WholeWithout ==
    ASSUME NEW q \in Parts, NEW D
    PROVE  PartsWithout(q, D) \in Parts /\ Without(Whole(q), D) = Whole(PartsWithout(q, D))
<1>00. \A x, y \in Tables : Without(x \o y, D) = Without(x, D) \o Without(y, D)
  BY WithoutConcat, Zenon
<1>0. /\ q.sw \in Tables /\ q.fl \in Tables /\ q.own \in Tables /\ q.frag \in Tables /\ q.fw \in Tables
      /\ q.frag \o q.fw \in Tables /\ q.own \o (q.frag \o q.fw) \in Tables
      /\ q.fl \o (q.own \o (q.frag \o q.fw)) \in Tables
  BY PartTypes
<1>1. PartsWithout(q, D) \in Parts
  BY PartTypes, WithoutIsTable DEF PartsWithout, Parts
<1>2. Without(q.frag \o q.fw, D) = Without(q.frag, D) \o Without(q.fw, D)
  BY <1>0, <1>00
<1>3. Without(q.own \o (q.frag \o q.fw), D) = Without(q.own, D) \o Without(q.frag \o q.fw, D)
  BY <1>0, <1>00
<1>4. Without(q.fl \o (q.own \o (q.frag \o q.fw)), D) = Without(q.fl, D) \o Without(q.own \o (q.frag \o q.fw), D)
  BY <1>0, <1>00
<1>5. Without(Whole(q), D) = Without(q.sw, D) \o Without(q.fl \o (q.own \o (q.frag \o q.fw)), D)
  BY <1>0, <1>00 DEF Whole
<1> QED BY <1>1, <1>2, <1>3, <1>4, <1>5 DEF Whole, PartsWithout

LEMMA PipeDelete ==
    ASSUME NEW t, NEW lost, NEW q, Pipe(t, lost, q), NEW D, D \cap lost = {}
    PROVE  Pipe(Without(t, D), lost, PartsWithout(q, D))
<1>1. t \in Tables /\ q \in Parts /\ Distinct(t) /\ lost \subseteq Hdls(t) /\ Without(t, lost) = Whole(q)
  BY DEF Pipe
<1>2. Without(t, D) \in Tables /\ Distinct(Without(t, D)) /\ Hdls(Without(t, D)) = Hdls(t) \ D
  BY <1>1, WithoutIsTable, WithoutDistinct, WithoutHdls
<1>3. Without(Without(t, D), lost) = Without(t, D \cup lost) /\ Without(Without(t, lost), D) = Without(t, lost \cup D)
  BY <1>1, WithoutTwice
<1>4. D \cup lost = lost \cup D
  OBVIOUS
<1>5. Without(Without(t, D), lost) = Without(Whole(q), D)
  BY <1>1, <1>3, <1>4
<1>6. PartsWithout(q, D) \in Parts /\ Without(Whole(q), D) = Whole(PartsWithout(q, D))
  BY <1>1, WholeWithout
<1>7. lost \subseteq Hdls(Without(t, D))
  BY <1>1, <1>2
<1> QED BY <1>2, <1>5, <1>6, <1>7 DEF Pipe

\* Forgetting the handles of rules that stay.
LEMMA PipeLose ==
    ASSUME NEW t, NEW lost, NEW q, Pipe(t, lost, q), NEW D, D \subseteq Hdls(t)
    PROVE  Pipe(t, lost \cup D, PartsWithout(q, D))
<1>1. t \in Tables /\ q \in Parts /\ Distinct(t) /\ lost \subseteq Hdls(t) /\ Without(t, lost) = Whole(q)
  BY DEF Pipe
<1>2. Without(Without(t, lost), D) = Without(t, lost \cup D)
  BY <1>1, WithoutTwice
<1>3. PartsWithout(q, D) \in Parts /\ Without(Whole(q), D) = Whole(PartsWithout(q, D))
  BY <1>1, WholeWithout
<1> QED BY <1>1, <1>2, <1>3 DEF Pipe

\* New rules behind the others, or in front of them.
LEMMA TableAdd ==
    ASSUME NEW t \in Tables, NEW u \in Tables, NEW lost, Distinct(t), Distinct(u),
           Hdls(t) \cap Hdls(u) = {}, lost \subseteq Hdls(t)
    PROVE  /\ t \o u \in Tables /\ Distinct(t \o u) /\ lost \subseteq Hdls(t \o u)
           /\ Without(t \o u, lost) = Without(t, lost) \o u
           /\ u \o t \in Tables /\ Distinct(u \o t) /\ lost \subseteq Hdls(u \o t)
           /\ Without(u \o t, lost) = u \o Without(t, lost)
<1>1. t \o u \in Tables /\ u \o t \in Tables
  BY TablesClosed
<1>2. Hdls(t \o u) = Hdls(t) \cup Hdls(u) /\ Hdls(u \o t) = Hdls(u) \cup Hdls(t)
  BY HdlsConcat
<1>3. Distinct(t \o u)
  BY DistinctConcat
<1>4. Distinct(u \o t)
  <2>1. Hdls(u) \cap Hdls(t) = {}
    OBVIOUS
  <2> QED BY <2>1, DistinctConcat
<1>5. Without(u, lost) = u
  <2>1. Hdls(u) \cap lost = {}
    OBVIOUS
  <2> QED BY <2>1, WithoutOthers
<1>6. Without(t \o u, lost) = Without(t, lost) \o u /\ Without(u \o t, lost) = u \o Without(t, lost)
  <2>1. Without(t \o u, lost) = Without(t, lost) \o Without(u, lost)
    BY WithoutConcat, ZenonT(60)
  <2>2. Without(u \o t, lost) = Without(u, lost) \o Without(t, lost)
    BY WithoutConcat, ZenonT(60)
  <2> QED BY <1>5, <2>1, <2>2
<1> QED BY <1>1, <1>2, <1>3, <1>4, <1>6

(***************************************************************************)
(* The handles the driver gives are free, and each is given once.          *)
(***************************************************************************)
LEMMA NextHdlFree ==
    ASSUME NEW t \in Tables, NEW h \in Nat
    PROVE  NextHdl(t, h) \in Nat /\ NextHdl(t, h) > h /\ NextHdl(t, h) \notin Hdls(t)
<1> DEFINE N == Len(t)
           I == h + 1 .. h + 1 + N
           Free == {k \in I : k \notin Hdls(t)}
<1>1. N \in Nat
  BY TablesClosed
<1>2. IsFiniteSet(Hdls(t)) /\ Cardinality(Hdls(t)) <= N /\ Cardinality(Hdls(t)) \in Nat
  BY HdlsCount, FS_CardinalityType
<1>3. IsFiniteSet(I) /\ Cardinality(I) = N + 1
  <2>1. h + 1 \in Int /\ h + 1 + N \in Int /\ ~(h + 1 > h + 1 + N)
    BY <1>1
  <2>2. Cardinality(I) = (h + 1 + N) - (h + 1) + 1
    BY <2>1, FS_Interval
  <2> QED BY <1>1, <2>1, <2>2, FS_Interval
<1>4. Free # {}
  <2> SUFFICES ASSUME Free = {} PROVE FALSE
    OBVIOUS
  <2>1. I \subseteq Hdls(t)
    OBVIOUS
  <2>2. Cardinality(I) <= Cardinality(Hdls(t))
    <3> HIDE DEF I
    <3> QED BY <2>1, <1>2, FS_Subset
  <2> HIDE DEF I
  <2> QED BY <2>2, <1>1, <1>2, <1>3
<1>5. Free \in SUBSET Nat
  BY <1>1
<1>6. PICK k \in Free : \A m \in Free : k <= m
  <2> HIDE DEF Free
  <2> QED BY <1>4, <1>5, LeastNat
<1>7. k \in I /\ k \notin Hdls(t) /\ \A j \in h + 1 .. k - 1 : j \in Hdls(t)
  <2>1. k \in I /\ k \notin Hdls(t)
    OBVIOUS
  <2>2. ASSUME NEW j \in h + 1 .. k - 1 PROVE j \in Hdls(t)
    <3>1. j \in I /\ j < k /\ j \in Nat /\ k \in Nat
      BY <2>1, <1>1
    <3> QED BY <3>1, <1>6
  <2> QED BY <2>1, <2>2
<1>8. NextHdl(t, h) \in I /\ NextHdl(t, h) \notin Hdls(t)
  BY <1>7 DEF NextHdl
<1> QED BY <1>8, <1>1

LEMMA NewHdlsFree ==
    ASSUME NEW t \in Tables, NEW n \in Nat
    PROVE  LET h == NewHdls(t, n) IN
           /\ h \in [1..n -> Nat] /\ \A i \in 1..n : h[i] \notin Hdls(t)
           /\ \A i, j \in 1..n : i # j => h[i] # h[j]
<1> DEFINE round == [i \in 1..n |-> [x \in Nat |-> NextHdl(t, x)]]
           G(g, i) == IF i = 0 THEN 0 ELSE NextHdl(t, g[i - 1])
           H == CHOOSE g : g = [i \in 0..n |-> G(g, i)]
<1>1. \A x \in Nat : NextHdl(t, x) \in Nat /\ NextHdl(t, x) > x /\ NextHdl(t, x) \notin Hdls(t)
  BY NextHdlFree
<1>2. round \in [1..n -> [Nat -> Nat]]
  BY <1>1
<1>3. PICK l : IsLoop(l, n, Nat, 0, round)
  <2> HIDE DEF round
  <2> QED BY <1>2, LoopExists
<1>4. l = [i \in 0..n |-> G(l, i)]
  <2>1. l \in [0..n -> Nat] /\ l[0] = 0 /\ \A i \in 1..n : l[i] = round[i][l[i - 1]]
    BY <1>3 DEF IsLoop
  <2>2. ASSUME NEW i \in 0..n PROVE l[i] = G(l, i)
    <3>1. CASE i = 0
      BY <3>1, <2>1
    <3>2. CASE i # 0
      <4>1. i \in 1..n /\ i - 1 \in 0..n
        BY <3>2
      <4>2. l[i - 1] \in Nat /\ l[i] = round[i][l[i - 1]]
        BY <4>1, <2>1
      <4> QED BY <4>1, <4>2, <3>2
    <3> QED BY <3>1, <3>2
  <2> QED BY <2>1, <2>2
<1>5. H = [i \in 0..n |-> G(H, i)]
  BY <1>4
<1>6. NewHdls(t, n) = [i \in 1..n |-> H[i]]
  BY DEF NewHdls
<1> HIDE DEF H
<1>7. \A i \in 0..n : H[i] = G(H, i)
  BY <1>5
<1>8. H[0] = 0 /\ \A i \in 1..n : H[i] = NextHdl(t, H[i - 1])
  BY <1>7
<1>9. \A i \in 0..n : H[i] \in Nat /\ \A j \in 0..n : j < i => H[j] < H[i]
  <2> DEFINE T == {i \in 0..n : H[i] \in Nat /\ \A j \in 0..n : j < i => H[j] \in Nat /\ H[j] < H[i]}
  <2>1. 0 \in T
    BY <1>8
  <2>2. ASSUME NEW i \in 1..n, i - 1 \in T PROVE i \in T
    <3>1. i - 1 \in 0..n /\ H[i - 1] \in Nat /\ \A j \in 0..n : j < i - 1 => H[j] \in Nat /\ H[j] < H[i - 1]
      BY <2>2
    <3>2. H[i] \in Nat /\ H[i] > H[i - 1]
      BY <3>1, <1>1, <1>8
    <3>3. ASSUME NEW j \in 0..n, j < i PROVE H[j] \in Nat /\ H[j] < H[i]
      <4>1. j = i - 1 \/ j < i - 1
        BY <3>3
      <4>2. CASE j = i - 1
        BY <4>2, <3>1, <3>2
      <4>3. CASE j < i - 1
        BY <4>3, <3>1, <3>2
      <4> QED BY <4>1, <4>2, <4>3
    <3> QED BY <3>2, <3>3
  <2> HIDE DEF T
  <2>3. 0..n \subseteq T
    BY <2>1, <2>2, BoundedInduction
  <2> QED BY <2>3 DEF T
<1>10. \A i \in 1..n : H[i] \in Nat /\ H[i] \notin Hdls(t)
  <2>1. \A i \in 1..n : i \in 0..n /\ i - 1 \in 0..n
    OBVIOUS
  <2> QED BY <2>1, <1>1, <1>8, <1>9
<1>11. ASSUME NEW i \in 1..n, NEW j \in 1..n, i # j PROVE H[i] # H[j]
  <2>1. i \in 0..n /\ j \in 0..n /\ (i < j \/ j < i)
    BY <1>11
  <2> QED BY <2>1, <1>9
<1> QED BY <1>6, <1>10, <1>11

\* Rules entered with new handles.
Fresh(u, t) == u \in Tables /\ Distinct(u) /\ Hdls(t) \cap Hdls(u) = {}

LEMMA EnteredFresh ==
    ASSUME NEW t \in Tables, NEW R \in Seq(Rules)
    PROVE  LET h == NewHdls(t, Len(R))
               u == Entered(h, R) IN
           /\ Fresh(u, t) /\ HdlSeq(u) = h /\ RulesIn(u) = R /\ Len(u) = Len(R) /\ h \in Seq(Nat) /\ Len(h) = Len(R)
<1> DEFINE n == Len(R)
           h == NewHdls(t, n)
           u == Entered(h, R)
<1>1. n \in Nat /\ DOMAIN R = 1..n /\ \A i \in 1..n : R[i] \in Rules
  OBVIOUS
<1>2. /\ h \in [1..n -> Nat] /\ \A i \in 1..n : h[i] \notin Hdls(t)
      /\ \A i, j \in 1..n : i # j => h[i] # h[j]
  BY <1>1, NewHdlsFree
<1> HIDE DEF h, n
<1>3. u = [i \in 1..n |-> [hdl |-> h[i], rule |-> R[i]]]
  BY <1>1 DEF Entered
<1>4. u \in [1..n -> Entries]
  BY <1>1, <1>2, <1>3 DEF Entries
<1> HIDE DEF u
<1>5. u \in Seq(Entries) /\ Len(u) = n
  BY <1>1, <1>4
<1>6. u \in Tables
  BY <1>5 DEF Tables
<1>7. \A i \in 1..n : u[i].hdl = h[i] /\ u[i].rule = R[i]
  BY <1>3
<1>8. Distinct(u)
  BY <1>2, <1>5, <1>7 DEF Distinct
<1>9. Hdls(t) \cap Hdls(u) = {}
  <2>1. Hdls(u) = {h[i] : i \in 1..n}
    BY <1>4, <1>7 DEF Hdls
  <2> QED BY <2>1, <1>2
<1>10. HdlSeq(u) = h
  BY <1>2, <1>5, <1>7 DEF HdlSeq
<1>11. RulesIn(u) = R
  BY <1>1, <1>5, <1>7 DEF RulesIn
<1>12. h \in Seq(Nat) /\ Len(h) = n
  BY <1>1, <1>2
<1> QED BY <1>5, <1>6, <1>8, <1>9, <1>10, <1>11, <1>12 DEF Fresh, u, h, n

(***************************************************************************)
(* The parser gives a configuration, and a configuration gives rules.      *)
(***************************************************************************)
Attribs == [port : Port, lo : Port, hi : Port]
Bits == {"SRC_ADDR", "DST_ADDR", "TOS", "PROTOCOL", "TC", "NEXT_HDR", "TYPE", "CODE", "SPI",
          "SRC_PORT", "DST_PORT", "SRC_PORT_RANGE", "DST_PORT_RANGE"}
FileEntries ==
    [ip_vsn : Vals, mask : SUBSET Bits, on : SUBSET Vals, protocol : Vals, src : Attribs, dst : Attribs]
Configs == [enable : BOOLEAN, accept : BOOLEAN, entries : Seq(FileEntries)]
PortTags == DOMAIN TCPPorts \cup DOMAIN UDPPorts \cup DOMAIN TCP_UDPPorts
IsNode(n) == n.val \in Vals /\ (n.tag \in PortTags => n.val \in Port)

LEMMA PortNumbers == MaxPort \in Nat /\ 0 \in Port
<1>1. MaxPort \in Nat
  BY DEF MaxPort
<1> QED BY <1>1 DEF Port

LEMMA NoConfigType == NoConfig \in Configs /\ NewEntry \in FileEntries
<1>1. Attrib \in Attribs
  BY PortNumbers DEF Attrib, Attribs
<1>2. NewEntry \in FileEntries
  BY <1>1 DEF NewEntry, FileEntries, Vals
<1>3. <<>> \in Seq(FileEntries)
  OBVIOUS
<1> QED BY <1>2, <1>3 DEF NoConfig, Configs

\* Writing the last entry; without an entry nothing is written.
LEMMA InEntryType ==
    ASSUME NEW c \in Configs, NEW e, Len(c.entries) # 0 => e \in FileEntries
    PROVE  InEntry(c, e) \in Configs
<1> DEFINE L == c.entries
           M == [L EXCEPT ![Len(L)] = e]
<1>1. L \in Seq(FileEntries) /\ Len(L) \in Nat /\ DOMAIN L = 1..Len(L) /\ \A i \in 1..Len(L) : L[i] \in FileEntries
  BY DEF Configs
<1>2. M \in [1..Len(L) -> FileEntries]
  <2>1. DOMAIN M = 1..Len(L) /\ M = [i \in 1..Len(L) |-> IF i = Len(L) THEN e ELSE L[i]]
    BY <1>1
  <2>2. ASSUME NEW i \in 1..Len(L) PROVE M[i] \in FileEntries
    <3>1. Len(L) # 0
      BY <1>1
    <3> QED BY <3>1, <2>1, <1>1
  <2> QED BY <2>1, <2>2
<1>3. M \in Seq(FileEntries)
  BY <1>1, <1>2
<1>4. InEntry(c, e) = [c EXCEPT !.entries = M]
  BY DEF InEntry, Configs
<1> QED BY <1>3, <1>4 DEF Configs

LEMMA LastEntryType ==
    ASSUME NEW c \in Configs, Len(c.entries) # 0
    PROVE  LastEntry(c) \in FileEntries
<1>1. c.entries \in Seq(FileEntries)
  BY DEF Configs
<1> QED BY <1>1 DEF LastEntry, Last

LEMMA GlobalNodeType ==
    ASSUME NEW c \in Configs, NEW n, n.tag \in GlobalTags
    PROVE  GlobalNode(c, n) \in Configs
<1>1. CASE n.tag = "Firewall"
  <2>1. Append(c.entries, NewEntry) \in Seq(FileEntries)
    BY NoConfigType DEF Configs
  <2>2. GlobalNode(c, n) = [c EXCEPT !.entries = Append(c.entries, NewEntry)]
    BY <1>1 DEF GlobalNode, Configs
  <2> QED BY <2>1, <2>2 DEF Configs
<1>2. CASE n.tag = "FirewallEnabled"
  BY <1>2 DEF GlobalNode, Configs
<1>3. CASE n.tag = "FirewallPktsAllowed"
  BY <1>3 DEF GlobalNode, Configs
<1> QED BY <1>1, <1>2, <1>3 DEF GlobalTags

LEMMA FamilyNodeType ==
    ASSUME NEW c \in Configs, NEW n, n.val \in Vals
    PROVE  FamilyNode(c, n) \in Configs
<1> DEFINE e == [LastEntry(c) EXCEPT !.ip_vsn = n.val]
<1>1. Len(c.entries) # 0 => e \in FileEntries
  BY LastEntryType DEF FileEntries
<1> HIDE DEF e
<1>2. InEntry(c, e) \in Configs
  BY <1>1, InEntryType
<1> QED BY <1>2 DEF FamilyNode, e

LEMMA FieldNodeType ==
    ASSUME NEW c \in Configs, NEW n, n.val \in Vals, NEW fields, fields[n.tag] \in Bits
    PROVE  FieldNode(c, n, fields) \in Configs
<1> DEFINE e == [LastEntry(c) EXCEPT !.mask = @ \cup {fields[n.tag]}]
           e2 == IF fields[n.tag] \in {"PROTOCOL", "NEXT_HDR"} THEN [e EXCEPT !.protocol = n.val]
                 ELSE [e EXCEPT !.on = @ \cup {n.val}]
<1>1. Len(c.entries) # 0 => e2 \in FileEntries
  <2> SUFFICES ASSUME Len(c.entries) # 0 PROVE e2 \in FileEntries
    OBVIOUS
  <2>1. LastEntry(c) \in FileEntries
    BY LastEntryType
  <2>2. e \in FileEntries
    BY <2>1 DEF FileEntries
  <2> HIDE DEF e
  <2> QED BY <2>2 DEF FileEntries
<1> HIDE DEF e2
<1>2. InEntry(c, e2) \in Configs
  BY <1>1, InEntryType
<1> QED BY <1>2 DEF FieldNode, e2

LEMMA SideTypes ==
    ASSUME NEW e \in FileEntries, NEW side \in {"src", "dst"}
    PROVE  /\ e[side] \in Attribs /\ RangeBit[side] \in Bits /\ PortBit[side] \in Bits
           /\ \A a \in Attribs : [e EXCEPT ![side] = a] \in FileEntries
           /\ \A b \in Bits : [e EXCEPT !.mask = @ \cup {b}] \in FileEntries
           /\ \A a \in Attribs, b \in Bits : [e EXCEPT !.mask = @ \cup {b}, ![side] = a] \in FileEntries
<1>1. RangeBit[side] \in Bits /\ PortBit[side] \in Bits
  BY DEF RangeBit, PortBit, Bits
<1>2. CASE side = "src"
  BY <1>1, <1>2 DEF FileEntries
<1>3. CASE side = "dst"
  BY <1>1, <1>3 DEF FileEntries
<1> QED BY <1>2, <1>3

LEMMA PortSums ==
    ASSUME NEW a \in Attribs, NEW v \in Port
    PROVE  /\ [port |-> 0, lo |-> a.port, hi |-> (a.port + v) % (MaxPort + 1)] \in Attribs
           /\ [a EXCEPT !.port = v] \in Attribs
<1>1. a.port \in Port /\ 0 \in Port /\ MaxPort \in Nat
  BY PortNumbers DEF Attribs
<1>2. ASSUME NEW x \in Nat, NEW K \in Nat PROVE x % (K + 1) \in 0..K
  OBVIOUS
<1>3. a.port + v \in Nat
  BY <1>1 DEF Port
<1>4. (a.port + v) % (MaxPort + 1) \in Port
  BY <1>1, <1>2, <1>3 DEF Port
<1>5. [port |-> 0, lo |-> a.port, hi |-> (a.port + v) % (MaxPort + 1)] \in Attribs
  BY <1>1, <1>4 DEF Attribs
<1>6. [a EXCEPT !.port = v] \in Attribs
  BY DEF Attribs
<1> QED BY <1>5, <1>6

LEMMA PortNodeType ==
    ASSUME NEW c \in Configs, NEW n, n.val \in Port, NEW ports, ports[n.tag][1] \in {"src", "dst"}
    PROVE  PortNode(c, n, ports) \in Configs
<1> DEFINE E2(e, side, v) ==
               IF ports[n.tag][2] = "port" THEN [e EXCEPT ![side].port = v]
               ELSE IF v # 0
               THEN [e EXCEPT !.mask = @ \cup {RangeBit[side]},
                              ![side] = [port |-> 0, lo |-> @.port, hi |-> (@.port + v) % (MaxPort + 1)]]
               ELSE [e EXCEPT !.mask = @ \cup {PortBit[side]}]
<1>1. ASSUME NEW e \in FileEntries, NEW side \in {"src", "dst"}, NEW v \in Port PROVE E2(e, side, v) \in FileEntries
  <2> DEFINE rng == [port |-> 0, lo |-> e[side].port, hi |-> (e[side].port + v) % (MaxPort + 1)]
             chg == [e[side] EXCEPT !.port = v]
  <2>1. e[side] \in Attribs /\ RangeBit[side] \in Bits /\ PortBit[side] \in Bits
    BY SideTypes
  <2>2. rng \in Attribs /\ chg \in Attribs
    BY <2>1, PortSums
  <2>3. CASE ports[n.tag][2] = "port"
    <3>1. E2(e, side, v) = [e EXCEPT ![side] = chg]
      BY <2>3
    <3>2. \A a \in Attribs : [e EXCEPT ![side] = a] \in FileEntries
      BY SideTypes
    <3> HIDE DEF chg, E2
    <3>3. [e EXCEPT ![side] = chg] \in FileEntries
      BY <3>2, <2>2
    <3> QED BY <3>1, <3>3, Zenon
  <2>4. CASE ports[n.tag][2] # "port" /\ v # 0
    <3>0. side # "mask"
      OBVIOUS
    <3>1. E2(e, side, v) = [e EXCEPT !.mask = @ \cup {RangeBit[side]}, ![side] = rng]
      <4>1. [e EXCEPT !.mask = @ \cup {RangeBit[side]}][side] = e[side]
        BY <3>0 DEF FileEntries
      <4> QED BY <2>4, <4>1
    <3>2. \A a \in Attribs, b \in Bits : [e EXCEPT !.mask = @ \cup {b}, ![side] = a] \in FileEntries
      BY SideTypes
    <3> HIDE DEF rng, E2
    <3>3. [e EXCEPT !.mask = @ \cup {RangeBit[side]}, ![side] = rng] \in FileEntries
      BY <3>2, <2>1, <2>2
    <3> QED BY <3>1, <3>3, Zenon
  <2>5. CASE ports[n.tag][2] # "port" /\ v = 0
    <3>1. E2(e, side, v) = [e EXCEPT !.mask = @ \cup {PortBit[side]}]
      BY <2>5
    <3>2. \A b \in Bits : [e EXCEPT !.mask = @ \cup {b}] \in FileEntries
      BY SideTypes
    <3> HIDE DEF E2
    <3>3. [e EXCEPT !.mask = @ \cup {PortBit[side]}] \in FileEntries
      BY <3>2, <2>1
    <3> QED BY <3>1, <3>3, Zenon
  <2> QED BY <2>3, <2>4, <2>5
<1>2. Len(c.entries) # 0 => E2(LastEntry(c), ports[n.tag][1], n.val) \in FileEntries
  <2> HIDE DEF E2
  <2> QED BY <1>1, LastEntryType
<1>3. InEntry(c, E2(LastEntry(c), ports[n.tag][1], n.val)) \in Configs
  <2> HIDE DEF E2
  <2> QED BY <1>2, InEntryType
<1> QED BY <1>3 DEF PortNode

LEMMA TagTypes ==
    /\ \A t \in DOMAIN IPv4Fields : IPv4Fields[t] \in Bits
    /\ \A t \in DOMAIN IPv6Fields : IPv6Fields[t] \in Bits
    /\ \A t \in DOMAIN HeaderFields : HeaderFields[t] \in Bits
    /\ \A t \in DOMAIN TCPPorts : TCPPorts[t][1] \in {"src", "dst"}
    /\ \A t \in DOMAIN UDPPorts : UDPPorts[t][1] \in {"src", "dst"}
    /\ \A t \in DOMAIN TCP_UDPPorts : TCP_UDPPorts[t][1] \in {"src", "dst"}
<1>1. \A t \in DOMAIN IPv4Fields : IPv4Fields[t] \in Bits
  <2>1. DOMAIN IPv4Fields = {"IPV4SourceAddress", "IPV4DestinationAddress", "IPV4TypeOfService", "IPV4NextHeaderProtocol"}
    BY DEF IPv4Fields
  <2>2. /\ IPv4Fields["IPV4SourceAddress"] = "SRC_ADDR" /\ IPv4Fields["IPV4DestinationAddress"] = "DST_ADDR"
        /\ IPv4Fields["IPV4TypeOfService"] = "TOS" /\ IPv4Fields["IPV4NextHeaderProtocol"] = "PROTOCOL"
    BY DEF IPv4Fields
  <2> QED BY <2>1, <2>2 DEF Bits
<1>2. \A t \in DOMAIN IPv6Fields : IPv6Fields[t] \in Bits
  <2>1. DOMAIN IPv6Fields = {"IPV6SourceAddress", "IPV6DestinationAddress", "IPV6TrafficClass", "IPV6NextHeaderProtocol"}
    BY DEF IPv6Fields
  <2>2. /\ IPv6Fields["IPV6SourceAddress"] = "SRC_ADDR" /\ IPv6Fields["IPV6DestinationAddress"] = "DST_ADDR"
        /\ IPv6Fields["IPV6TrafficClass"] = "TC" /\ IPv6Fields["IPV6NextHeaderProtocol"] = "NEXT_HDR"
    BY DEF IPv6Fields
  <2> QED BY <2>1, <2>2 DEF Bits
<1>3. \A t \in DOMAIN HeaderFields : HeaderFields[t] \in Bits
  <2>1. DOMAIN HeaderFields = {"ICMPType", "ICMPCode", "ESPSPI"}
    BY DEF HeaderFields
  <2>2. HeaderFields["ICMPType"] = "TYPE" /\ HeaderFields["ICMPCode"] = "CODE" /\ HeaderFields["ESPSPI"] = "SPI"
    BY DEF HeaderFields
  <2> QED BY <2>1, <2>2 DEF Bits
<1>4. \A t \in DOMAIN TCPPorts : TCPPorts[t][1] \in {"src", "dst"}
  BY DEF TCPPorts
<1>5. \A t \in DOMAIN UDPPorts : UDPPorts[t][1] \in {"src", "dst"}
  BY DEF UDPPorts
<1>6. \A t \in DOMAIN TCP_UDPPorts : TCP_UDPPorts[t][1] \in {"src", "dst"}
  BY DEF TCP_UDPPorts
<1> QED BY <1>1, <1>2, <1>3, <1>4, <1>5, <1>6

LEMMA ParseType ==
    ASSUME NEW c \in Configs, NEW n, IsNode(n)
    PROVE  IPACM_firewall_xml_parse_tree(c, n) \in Configs
<1>1. n.val \in Vals /\ (n.tag \in PortTags => n.val \in Port)
  BY DEF IsNode
<1>2. n.tag \in GlobalTags => GlobalNode(c, n) \in Configs
  BY GlobalNodeType
<1>3. FamilyNode(c, n) \in Configs
  BY <1>1, FamilyNodeType
<1>4. n.tag \in DOMAIN IPv4Fields => FieldNode(c, n, IPv4Fields) \in Configs
  <2>1. n.tag \in DOMAIN IPv4Fields => IPv4Fields[n.tag] \in Bits
    BY TagTypes
  <2> QED BY <1>1, <2>1, FieldNodeType
<1>5. n.tag \in DOMAIN IPv6Fields => FieldNode(c, n, IPv6Fields) \in Configs
  <2>1. n.tag \in DOMAIN IPv6Fields => IPv6Fields[n.tag] \in Bits
    BY TagTypes
  <2> QED BY <1>1, <2>1, FieldNodeType
<1>6. n.tag \in DOMAIN HeaderFields => FieldNode(c, n, HeaderFields) \in Configs
  <2>1. n.tag \in DOMAIN HeaderFields => HeaderFields[n.tag] \in Bits
    BY TagTypes
  <2> QED BY <1>1, <2>1, FieldNodeType
<1>7. n.tag \in DOMAIN TCPPorts => PortNode(c, n, TCPPorts) \in Configs
  <2>1. n.tag \in DOMAIN TCPPorts => TCPPorts[n.tag][1] \in {"src", "dst"}
    BY TagTypes
  <2> QED BY <1>1, <2>1, PortNodeType DEF PortTags
<1>8. n.tag \in DOMAIN UDPPorts => PortNode(c, n, UDPPorts) \in Configs
  <2>1. n.tag \in DOMAIN UDPPorts => UDPPorts[n.tag][1] \in {"src", "dst"}
    BY TagTypes
  <2> QED BY <1>1, <2>1, PortNodeType DEF PortTags
<1>9. n.tag \in DOMAIN TCP_UDPPorts => PortNode(c, n, TCP_UDPPorts) \in Configs
  <2>1. n.tag \in DOMAIN TCP_UDPPorts => TCP_UDPPorts[n.tag][1] \in {"src", "dst"}
    BY TagTypes
  <2> QED BY <1>1, <2>1, PortNodeType DEF PortTags
<1> QED BY <1>2, <1>3, <1>4, <1>5, <1>6, <1>7, <1>8, <1>9 DEF IPACM_firewall_xml_parse_tree

LEMMA ReadType ==
    ASSUME NEW x \in DOMAIN Files
    PROVE  IPACM_read_firewall_xml(Files[x]) \in Configs
<1> DEFINE file == Files[x]
           N == Len(file)
           round == [n \in 1..N |-> [c \in Configs |-> IPACM_firewall_xml_parse_tree(c, file[n])]]
           G(g, n) == IF n = 0 THEN NoConfig ELSE IPACM_firewall_xml_parse_tree(g[n - 1], file[n])
           R == CHOOSE g : g = [n \in 0..N |-> G(g, n)]
<1>1. CASE file = NULL
  BY <1>1, NoConfigType DEF IPACM_read_firewall_xml
<1>2. CASE file # NULL
  <2>1. N \in Nat /\ \A n \in 1..N : file[n].tag \in PortTags => file[n].val \in Port
    BY <1>2, DataAssumption DEF PortTags
  <2>2. \A n \in 1..N : IsNode(file[n])
    <3> SUFFICES ASSUME NEW n \in 1..N PROVE IsNode(file[n])
      OBVIOUS
    <3>1. file[n].val \in Vals
      BY <2>1 DEF Vals, FileVals
    <3> QED BY <3>1, <2>1 DEF IsNode
  <2>3. \A n \in 1..N : \A c \in Configs : IPACM_firewall_xml_parse_tree(c, file[n]) \in Configs
    BY <2>2, ParseType
  <2>4. round \in [1..N -> [Configs -> Configs]]
    BY <2>3
  <2>5. PICK l : IsLoop(l, N, Configs, NoConfig, round)
    <3> HIDE DEF round, N
    <3> QED BY <2>1, <2>4, LoopExists, NoConfigType
  <2>6. l \in [0..N -> Configs] /\ l[0] = NoConfig /\ \A n \in 1..N : l[n] = round[n][l[n - 1]]
    BY <2>5 DEF IsLoop
  <2>7. \A n \in 1..N : \A c \in Configs : round[n][c] = IPACM_firewall_xml_parse_tree(c, file[n])
    OBVIOUS
  <2> HIDE DEF round, N
  <2>8. l = [n \in 0..N |-> G(l, n)]
    <3>1. ASSUME NEW n \in 0..N PROVE l[n] = G(l, n)
      <4>1. CASE n = 0
        BY <4>1, <2>6
      <4>2. CASE n # 0
        <5>1. n \in 1..N /\ n - 1 \in 0..N
          BY <4>2, <2>1
        <5>2. l[n - 1] \in Configs /\ l[n] = round[n][l[n - 1]]
          BY <5>1, <2>6
        <5> QED BY <5>1, <5>2, <2>7, <4>2
      <4> QED BY <4>1, <4>2
    <3> QED BY <3>1, <2>6
  <2>9. R = [n \in 0..N |-> G(R, n)]
    BY <2>8
  <2>10. IPACM_read_firewall_xml(file) = R[N]
    BY <1>2 DEF IPACM_read_firewall_xml, N
  <2> HIDE DEF R
  <2>11. R[0] = NoConfig /\ \A n \in 1..N : R[n] = IPACM_firewall_xml_parse_tree(R[n - 1], file[n])
    <3>1. \A n \in 0..N : R[n] = G(R, n)
      BY <2>9
    <3> QED BY <3>1, <2>1
  <2> DEFINE Inv == [n \in 0..N |-> Configs]
  <2>12. R[0] \in Inv[0]
    BY <2>1, <2>11, NoConfigType
  <2>13. \A n \in 1..N : R[n - 1] \in Inv[n - 1] => R[n] \in Inv[n]
    <3> SUFFICES ASSUME NEW n \in 1..N, R[n - 1] \in Inv[n - 1] PROVE R[n] \in Inv[n]
      OBVIOUS
    <3>1. n \in 0..N /\ n - 1 \in 0..N /\ R[n - 1] \in Configs
      BY <2>1
    <3> QED BY <3>1, <2>3, <2>11
  <2> HIDE DEF Inv
  <2>14. R[N] \in Inv[N]
    BY <2>1, <2>12, <2>13, LoopInvariant
  <2> QED BY <2>1, <2>10, <2>14 DEF Inv
<1> QED BY <1>1, <1>2

\* A rule, whatever it is for.
LEMMA RuleType ==
    ASSUME NEW on \in SUBSET Vals, NEW to \in Dests
    PROVE  Rule(on, to) \in Rules /\ <<Rule(on, to)>> \in Seq(Rules)
<1>1. AnyPort \in Ranges
  BY PortNumbers DEF AnyPort, Ranges
<1>2. Rule(on, to) \in Rules
  BY <1>1 DEF Rule, Rules
<1> QED BY <1>2

LEMMA PortsOfType ==
    ASSUME NEW e \in FileEntries, NEW side \in {"src", "dst"}
    PROVE  PortsOf(e, side) \in Ranges
<1>1. e[side] \in Attribs
  BY SideTypes
<1>2. e[side].port \in Nat /\ e[side].lo \in Nat /\ e[side].hi \in Nat
  BY <1>1, PortNumbers DEF Attribs, Port
<1>3. AnyPort \in Ranges
  BY PortNumbers DEF AnyPort, Ranges
<1>4. [lo |-> e[side].lo, hi |-> e[side].hi] \in Ranges /\ [lo |-> e[side].port, hi |-> e[side].port] \in Ranges
  BY <1>2 DEF Ranges
<1> QED BY <1>3, <1>4 DEF PortsOf

LEMMA EntryRuleType ==
    ASSUME NEW e \in FileEntries, NEW q \in Vals, NEW to \in Dests
    PROVE  EntryRule(e, q, to) \in Rules /\ EntryRule(e, q, to).to = to
<1>1. PortsOf(e, "src") \in Ranges /\ PortsOf(e, "dst") \in Ranges
  BY PortsOfType
<1>2. e.on \cup (IF e.mask \cap {"PROTOCOL", "NEXT_HDR"} # {} THEN {q} ELSE {}) \in SUBSET Vals
  BY DEF FileEntries
<1> QED BY <1>1, <1>2 DEF EntryRule, Rules

\* Where a rule leads does not matter for what it matches.
LEMMA EntryRuleMatches ==
    ASSUME NEW e, NEW q, NEW to, NEW p
    PROVE  Matches(EntryRule(e, q, to), p) <=> Matches(EntryRule(e, q, ""), p)
BY DEF EntryRule, Matches

HitBy(R, p) == \E i \in 1..Len(R) : Matches(R[i], p)
AllTo(R, to) == \A i \in 1..Len(R) : R[i].to = to

LEMMA EntryRulesType ==
    ASSUME NEW e \in FileEntries, NEW to \in Dests, NEW p
    PROVE  /\ EntryRules(e, to) \in Seq(Rules) /\ AllTo(EntryRules(e, to), to)
           /\ HitBy(EntryRules(e, to), p) <=>
                  \E i \in DOMAIN EntryRules(e, "") : Matches(EntryRules(e, "")[i], p)
<1>1. "TCP" \in Vals /\ "UDP" \in Vals /\ e.protocol \in Vals
  BY DEF Vals, Features, FileEntries
<1>2. \A q \in Vals : EntryRule(e, q, to) \in Rules /\ EntryRule(e, q, to).to = to
  BY EntryRuleType
<1>3. \A q \in Vals : Matches(EntryRule(e, q, to), p) <=> Matches(EntryRule(e, q, ""), p)
  BY EntryRuleMatches
<1>4. CASE e.protocol = "TCP_UDP"
  <2> DEFINE a == EntryRule(e, "TCP", to)
             b == EntryRule(e, "UDP", to)
             a0 == EntryRule(e, "TCP", "")
             b0 == EntryRule(e, "UDP", "")
  <2>1. EntryRules(e, to) = <<a, b>> /\ EntryRules(e, "") = <<a0, b0>>
    BY <1>4 DEF EntryRules
  <2>2. a \in Rules /\ b \in Rules /\ a.to = to /\ b.to = to
    BY <1>1, <1>2
  <2>3. (Matches(a, p) <=> Matches(a0, p)) /\ (Matches(b, p) <=> Matches(b0, p))
    BY <1>1, <1>3
  <2> HIDE DEF a, b, a0, b0
  <2>4. HitBy(<<a, b>>, p) <=> Matches(a, p) \/ Matches(b, p)
    BY DEF HitBy
  <2>5. (\E i \in DOMAIN <<a0, b0>> : Matches(<<a0, b0>>[i], p)) <=> Matches(a0, p) \/ Matches(b0, p)
    OBVIOUS
  <2>6. <<a, b>> \in Seq(Rules) /\ AllTo(<<a, b>>, to)
    BY <2>2 DEF AllTo
  <2> QED BY <2>1, <2>3, <2>4, <2>5, <2>6
<1>5. CASE e.protocol # "TCP_UDP"
  <2> DEFINE a == EntryRule(e, e.protocol, to)
             a0 == EntryRule(e, e.protocol, "")
  <2>1. EntryRules(e, to) = <<a>> /\ EntryRules(e, "") = <<a0>>
    BY <1>5 DEF EntryRules
  <2>2. a \in Rules /\ a.to = to
    BY <1>1, <1>2
  <2>3. Matches(a, p) <=> Matches(a0, p)
    BY <1>1, <1>3
  <2> HIDE DEF a, a0
  <2>4. HitBy(<<a>>, p) <=> Matches(a, p)
    BY DEF HitBy
  <2>5. (\E i \in DOMAIN <<a0>> : Matches(<<a0>>[i], p)) <=> Matches(a0, p)
    OBVIOUS
  <2>6. <<a>> \in Seq(Rules) /\ AllTo(<<a>>, to)
    BY <2>2 DEF AllTo
  <2> QED BY <2>1, <2>3, <2>4, <2>5, <2>6
<1> QED BY <1>4, <1>5

LEMMA RulesConcat ==
    ASSUME NEW x \in Seq(Rules), NEW y \in Seq(Rules)
    PROVE  /\ x \o y \in Seq(Rules) /\ Len(x \o y) = Len(x) + Len(y)
           /\ Len(x) \in Nat /\ Len(y) \in Nat
           /\ \A i \in 1..Len(x) : (x \o y)[i] = x[i]
           /\ \A i \in 1..Len(y) : (x \o y)[Len(x) + i] = y[i]
           /\ \A i \in 1..(Len(x) + Len(y)) : i \in 1..Len(x) \/ i - Len(x) \in 1..Len(y)
           /\ \A p : HitBy(x \o y, p) <=> HitBy(x, p) \/ HitBy(y, p)
           /\ \A to : AllTo(x \o y, to) <=> AllTo(x, to) /\ AllTo(y, to)
<1>1. /\ x \o y \in Seq(Rules) /\ Len(x \o y) = Len(x) + Len(y)
      /\ Len(x) \in Nat /\ Len(y) \in Nat
  OBVIOUS
<1>2. \A i \in 1..Len(x) : (x \o y)[i] = x[i] /\ i \in 1..(Len(x) + Len(y))
  OBVIOUS
<1>3. \A i \in 1..Len(y) : (x \o y)[Len(x) + i] = y[i] /\ Len(x) + i \in 1..(Len(x) + Len(y))
  OBVIOUS
<1>4. \A i \in 1..(Len(x) + Len(y)) : i \in 1..Len(x) \/ (i - Len(x) \in 1..Len(y) /\ Len(x) + (i - Len(x)) = i)
  BY <1>1
<1> DEFINE z == x \o y
<1> HIDE DEF z
<1>5. /\ Len(z) = Len(x) + Len(y)
      /\ \A i \in 1..Len(x) : z[i] = x[i] /\ i \in 1..(Len(x) + Len(y))
      /\ \A i \in 1..Len(y) : z[Len(x) + i] = y[i] /\ Len(x) + i \in 1..(Len(x) + Len(y))
  BY <1>1, <1>2, <1>3 DEF z
<1>6. ASSUME NEW p PROVE HitBy(z, p) <=> HitBy(x, p) \/ HitBy(y, p)
  <2>1. ASSUME HitBy(z, p) PROVE HitBy(x, p) \/ HitBy(y, p)
    <3>1. PICK i \in 1..(Len(x) + Len(y)) : Matches(z[i], p)
      BY <2>1, <1>5 DEF HitBy
    <3>2. CASE i \in 1..Len(x)
      BY <3>1, <3>2, <1>5 DEF HitBy
    <3>3. CASE i - Len(x) \in 1..Len(y) /\ Len(x) + (i - Len(x)) = i
      <4>1. z[i] = y[i - Len(x)]
        BY <3>3, <1>5
      <4> QED BY <4>1, <3>1, <3>3 DEF HitBy
    <3> QED BY <3>2, <3>3, <1>4
  <2>2. HitBy(x, p) => HitBy(z, p)
    BY <1>5 DEF HitBy
  <2>3. HitBy(y, p) => HitBy(z, p)
    BY <1>5 DEF HitBy
  <2> QED BY <2>1, <2>2, <2>3
<1>7. ASSUME NEW to PROVE AllTo(z, to) <=> AllTo(x, to) /\ AllTo(y, to)
  <2>1. ASSUME AllTo(x, to), AllTo(y, to), NEW i \in 1..(Len(x) + Len(y)) PROVE z[i].to = to
    <3>2. CASE i \in 1..Len(x)
      BY <2>1, <3>2, <1>5 DEF AllTo
    <3>3. CASE i - Len(x) \in 1..Len(y) /\ Len(x) + (i - Len(x)) = i
      <4>1. z[i] = y[i - Len(x)]
        BY <3>3, <1>5
      <4> QED BY <4>1, <2>1, <3>3 DEF AllTo
    <3> QED BY <3>2, <3>3, <1>4
  <2>2. AllTo(z, to) => AllTo(x, to)
    BY <1>5 DEF AllTo
  <2>3. AllTo(z, to) => AllTo(y, to)
    BY <1>5 DEF AllTo
  <2>4. AllTo(x, to) /\ AllTo(y, to) => AllTo(z, to)
    BY <1>5, <2>1 DEF AllTo
  <2> QED BY <2>2, <2>3, <2>4
<1> QED BY <1>1, <1>2, <1>3, <1>4, <1>6, <1>7 DEF z

\* The rules of the entries: they all lead to the same place, and hit what the
\* entries of an enabled firewall hit.
LEMMA RulesOfHits ==
    ASSUME NEW c \in Configs, NEW vsn, NEW to \in Dests, NEW p
    PROVE  LET R == RulesOf(c, vsn, to) IN
           R \in Seq(Rules) /\ AllTo(R, to) /\ (HitBy(R, p) <=> c.enable /\ EntryHits(c, vsn, p))
<1> DEFINE L == c.entries
           N == Len(L)
           ER(n) == EntryRules(L[n], to)
           S == Seq(Rules)
           round == [n \in 1..N |-> [x \in S |-> IF L[n].ip_vsn = vsn THEN x \o ER(n) ELSE x]]
           G(g, n) == IF n = 0 THEN <<>> ELSE IF L[n].ip_vsn = vsn THEN g[n - 1] \o ER(n) ELSE g[n - 1]
           R == CHOOSE g : g = [n \in 0..N |-> G(g, n)]
           Hit(n) == \E i \in DOMAIN EntryRules(L[n], "") : Matches(EntryRules(L[n], "")[i], p)
<1>1. N \in Nat /\ \A n \in 1..N : L[n] \in FileEntries
  BY DEF Configs
<1>2. \A n \in 1..N : ER(n) \in S /\ AllTo(ER(n), to) /\ (HitBy(ER(n), p) <=> Hit(n))
  BY <1>1, EntryRulesType
<1>3. \A n \in 1..N : \A x \in S : x \o ER(n) \in S
  BY <1>2, RulesConcat
<1>4. <<>> \in S
  OBVIOUS
<1> HIDE DEF S, ER, Hit
<1>5. round \in [1..N -> [S -> S]]
  BY <1>3
<1>6. PICK l : IsLoop(l, N, S, <<>>, round)
  <2> HIDE DEF round, N
  <2> QED BY <1>1, <1>4, <1>5, LoopExists
<1>7. l \in [0..N -> S] /\ l[0] = <<>> /\ \A n \in 1..N : l[n] = round[n][l[n - 1]]
  BY <1>6 DEF IsLoop
<1>8. \A n \in 1..N : \A x \in S : round[n][x] = IF L[n].ip_vsn = vsn THEN x \o ER(n) ELSE x
  OBVIOUS
<1>9. c.enable => RulesOf(c, vsn, to) = R[N]
  BY DEF RulesOf, ER
<1> HIDE DEF round, N
<1>10. l = [n \in 0..N |-> G(l, n)]
  <2>1. ASSUME NEW n \in 0..N PROVE l[n] = G(l, n)
    <3>1. CASE n = 0
      BY <3>1, <1>7
    <3>2. CASE n # 0
      <4>1. n \in 1..N /\ n - 1 \in 0..N
        BY <3>2, <1>1
      <4>2. l[n - 1] \in S /\ l[n] = round[n][l[n - 1]]
        BY <4>1, <1>7
      <4> QED BY <4>1, <4>2, <1>8, <3>2
    <3> QED BY <3>1, <3>2
  <2> QED BY <2>1, <1>7
<1>11. R = [n \in 0..N |-> G(R, n)]
  BY <1>10
<1> HIDE DEF R
<1>12. R[0] = <<>> /\ \A n \in 1..N : R[n] = IF L[n].ip_vsn = vsn THEN R[n - 1] \o ER(n) ELSE R[n - 1]
  <2>1. \A n \in 0..N : R[n] = G(R, n)
    BY <1>11
  <2> QED BY <2>1, <1>1
<1> DEFINE Found(n) == \E m \in 1..n : L[m].ip_vsn = vsn /\ Hit(m)
           Inv == [n \in 0..N |-> {x \in S : AllTo(x, to) /\ (HitBy(x, p) <=> Found(n))}]
<1>13. R[0] \in Inv[0]
  <2>1. AllTo(<<>>, to) /\ ~HitBy(<<>>, p) /\ ~Found(0) /\ 0 \in 0..N
    BY <1>1 DEF AllTo, HitBy
  <2> HIDE DEF Found
  <2> QED BY <2>1, <1>4, <1>12
<1>14. ASSUME NEW n \in 1..N, R[n - 1] \in Inv[n - 1] PROVE R[n] \in Inv[n]
  <2>1. n \in 0..N /\ n - 1 \in 0..N
    BY <1>1
  <2>2. R[n - 1] \in S /\ AllTo(R[n - 1], to) /\ (HitBy(R[n - 1], p) <=> Found(n - 1))
    <3> HIDE DEF Found
    <3> QED BY <2>1, <1>14
  <2>3. Found(n) <=> Found(n - 1) \/ (L[n].ip_vsn = vsn /\ Hit(n))
    <3>1. 1..n = 1..(n - 1) \cup {n}
      BY <1>1
    <3> QED BY <3>1
  <2>4. R[n] \in S /\ AllTo(R[n], to) /\ (HitBy(R[n], p) <=> Found(n))
    <3> HIDE DEF Found
    <3>1. CASE L[n].ip_vsn = vsn
      <4>1. R[n] = R[n - 1] \o ER(n)
        BY <3>1, <1>12
      <4>2. /\ R[n - 1] \o ER(n) \in S
            /\ HitBy(R[n - 1] \o ER(n), p) <=> HitBy(R[n - 1], p) \/ HitBy(ER(n), p)
            /\ AllTo(R[n - 1] \o ER(n), to) <=> AllTo(R[n - 1], to) /\ AllTo(ER(n), to)
        BY <2>2, <1>2, RulesConcat DEF S
      <4> QED BY <3>1, <4>1, <4>2, <2>2, <2>3, <1>2
    <3>2. CASE L[n].ip_vsn # vsn
      <4>1. R[n] = R[n - 1]
        BY <3>2, <1>12
      <4> QED BY <3>2, <4>1, <2>2, <2>3
    <3> QED BY <3>1, <3>2
  <2> HIDE DEF Found
  <2> QED BY <2>1, <2>4
<1> HIDE DEF Inv
<1>15. R[N] \in Inv[N]
  BY <1>1, <1>13, <1>14, LoopInvariant
<1>16. R[N] \in S /\ AllTo(R[N], to) /\ (HitBy(R[N], p) <=> Found(N))
  BY <1>15, <1>1 DEF Inv
<1>17. Found(N) <=> EntryHits(c, vsn, p)
  BY DEF EntryHits, Hit, N
<1>18. CASE c.enable
  BY <1>18, <1>9, <1>16, <1>17 DEF S
<1>19. CASE ~c.enable
  <2>1. RulesOf(c, vsn, to) = <<>>
    BY <1>19 DEF RulesOf
  <2>2. AllTo(<<>>, to) /\ ~HitBy(<<>>, p)
    BY DEF AllTo, HitBy
  <2> QED BY <2>1, <2>2, <1>19
<1> QED BY <1>18, <1>19

(***************************************************************************)
(* The first rule that matches decides.                                    *)
(***************************************************************************)
First(R, p, i) == i \in 1..Len(R) /\ Matches(R[i], p) /\ \A j \in 1..Len(R) : j < i => ~Matches(R[j], p)

LEMMA VerdictFirst ==
    ASSUME NEW R \in Seq(Rules), NEW p
    PROVE  /\ HitBy(R, p) => \E i \in 1..Len(R) : First(R, p, i)
           /\ \A i : First(R, p, i) => Verdict(R, p) = R[i].to
<1> DEFINE I == {i \in 1..Len(R) : Matches(R[i], p)}
<1>1. Len(R) \in Nat /\ I \in SUBSET Nat
  OBVIOUS
<1>2. ASSUME HitBy(R, p) PROVE \E i \in 1..Len(R) : First(R, p, i)
  <2>1. I # {}
    BY <1>2 DEF HitBy
  <2>2. PICK i \in I : \A m \in I : i <= m
    <3> HIDE DEF I
    <3> QED BY <2>1, <1>1, LeastNat
  <2>3. \A j \in 1..Len(R) : j < i => ~Matches(R[j], p)
    BY <2>2, <1>1
  <2> QED BY <2>2, <2>3 DEF First
<1>3. ASSUME NEW i, First(R, p, i) PROVE Verdict(R, p) = R[i].to
  <2>1. i \in I /\ \A m \in I : i <= m
    BY <1>1, <1>3 DEF First
  <2>2. Min(I) = i
    <3>1. \A k \in I : (\A m \in I : k <= m) => k = i
      BY <2>1, <1>1
    <3> HIDE DEF I
    <3> QED BY <2>1, <3>1 DEF Min
  <2>3. i # 0
    BY <2>1, <1>1
  <2>4. SelectInSeq(R, LAMBDA r : Matches(r, p)) = i
    BY <2>1, <2>2 DEF SelectInSeq
  <2> QED BY <2>3, <2>4 DEF Verdict
<1> QED BY <1>2, <1>3

Sends(R, p, to) == R \in Seq(Rules) /\ HitBy(R, p) /\ Verdict(R, p) = to

LEMMA SendsAll ==
    ASSUME NEW x \in Seq(Rules), NEW p, NEW to, HitBy(x, p), AllTo(x, to)
    PROVE  Sends(x, p, to)
<1>1. PICK i \in 1..Len(x) : First(x, p, i)
  BY VerdictFirst
<1>2. Verdict(x, p) = x[i].to
  BY <1>1, VerdictFirst
<1> QED BY <1>1, <1>2 DEF Sends, AllTo

\* Rules in front that match decide; rules in front that do not change nothing.
LEMMA SendsFront ==
    ASSUME NEW x \in Seq(Rules), NEW y \in Seq(Rules), NEW p, NEW to, HitBy(x, p), AllTo(x, to)
    PROVE  Sends(x \o y, p, to)
<1> DEFINE z == x \o y
<1>1. /\ z \in Seq(Rules) /\ Len(z) = Len(x) + Len(y) /\ Len(x) \in Nat /\ Len(y) \in Nat
      /\ \A i \in 1..Len(x) : z[i] = x[i]
  BY RulesConcat
<1> HIDE DEF z
<1>2. PICK i \in 1..Len(x) : First(x, p, i)
  BY VerdictFirst
<1>3. First(z, p, i)
  <2>1. i \in 1..Len(z) /\ z[i] = x[i]
    BY <1>1
  <2>2. \A j \in 1..Len(z) : j < i => j \in 1..Len(x) /\ z[j] = x[j]
    BY <1>1
  <2> QED BY <1>2, <2>1, <2>2 DEF First
<1>4. Verdict(z, p) = z[i].to
  BY <1>1, <1>3, VerdictFirst
<1>5. HitBy(z, p)
  BY <1>3 DEF First, HitBy
<1> QED BY <1>1, <1>4, <1>5 DEF Sends, AllTo, z

LEMMA SendsBehind ==
    ASSUME NEW x \in Seq(Rules), NEW y \in Seq(Rules), NEW p, NEW to, ~HitBy(x, p), Sends(y, p, to)
    PROVE  Sends(x \o y, p, to)
<1> DEFINE z == x \o y
<1>1. /\ z \in Seq(Rules) /\ Len(z) = Len(x) + Len(y) /\ Len(x) \in Nat /\ Len(y) \in Nat
      /\ \A i \in 1..Len(x) : z[i] = x[i]
      /\ \A i \in 1..Len(y) : z[Len(x) + i] = y[i]
      /\ \A i \in 1..(Len(x) + Len(y)) : i \in 1..Len(x) \/ i - Len(x) \in 1..Len(y)
  BY RulesConcat
<1> HIDE DEF z
<1>2. PICK i \in 1..Len(y) : First(y, p, i)
  BY VerdictFirst DEF Sends
<1>3. First(z, p, Len(x) + i)
  <2>1. Len(x) + i \in 1..Len(z) /\ z[Len(x) + i] = y[i]
    BY <1>1
  <2>2. ASSUME NEW j \in 1..Len(z), j < Len(x) + i PROVE ~Matches(z[j], p)
    <3>1. CASE j \in 1..Len(x)
      BY <3>1, <1>1 DEF HitBy
    <3>2. CASE j - Len(x) \in 1..Len(y)
      <4>1. j = Len(x) + (j - Len(x)) /\ j - Len(x) < i
        BY <2>2, <1>1
      <4>2. z[j] = y[j - Len(x)]
        BY <4>1, <3>2, <1>1
      <4> QED BY <4>1, <4>2, <3>2, <1>2 DEF First
    <3> QED BY <3>1, <3>2, <1>1
  <2> QED BY <1>2, <2>1, <2>2 DEF First
<1>4. Verdict(z, p) = z[Len(x) + i].to
  BY <1>1, <1>3, VerdictFirst
<1>5. HitBy(z, p)
  BY <1>3 DEF First, HitBy
<1>6. Verdict(y, p) = y[i].to
  BY <1>2, VerdictFirst
<1> QED BY <1>1, <1>4, <1>5, <1>6 DEF Sends, z

\* What single rules, and rules for a list of classes, match.
LEMMA AnyPortMatches ==
    ASSUME NEW p \in Packets, NEW on, NEW to
    PROVE  Matches(Rule(on, to), p) <=> on \subseteq p.is
<1>1. p.src \in 0..MaxPort /\ p.dst \in 0..MaxPort
  BY DataAssumption DEF Port
<1> QED BY <1>1 DEF Matches, Rule, AnyPort

LEMMA OneRuleHits ==
    ASSUME NEW p \in Packets, NEW on \in SUBSET Vals, NEW to \in Dests
    PROVE  /\ <<Rule(on, to)>> \in Seq(Rules) /\ AllTo(<<Rule(on, to)>>, to)
           /\ HitBy(<<Rule(on, to)>>, p) <=> on \subseteq p.is
<1>1. <<Rule(on, to)>> \in Seq(Rules)
  BY RuleType
<1>2. Matches(Rule(on, to), p) <=> on \subseteq p.is
  BY AnyPortMatches
<1>3. Rule(on, to).to = to
  BY DEF Rule
<1> DEFINE r == Rule(on, to)
<1> HIDE DEF r
<1>4. AllTo(<<r>>, to) <=> r.to = to
  BY DEF AllTo
<1>5. HitBy(<<r>>, p) <=> Matches(r, p)
  BY DEF HitBy
<1> QED BY <1>1, <1>2, <1>3, <1>4, <1>5 DEF r

LEMMA NoRuleHits == \A p, to : <<>> \in Seq(Rules) /\ AllTo(<<>>, to) /\ ~HitBy(<<>>, p)
BY DEF AllTo, HitBy

LEMMA EachHits ==
    ASSUME NEW p \in Packets, NEW q \in Seq(Features), NEW to \in Dests
    PROVE  /\ Each(q, to) \in Seq(Rules) /\ AllTo(Each(q, to), to) /\ Len(Each(q, to)) = Len(q)
           /\ HitBy(Each(q, to), p) <=> \E i \in 1..Len(q) : q[i] \in p.is
<1> DEFINE R == Each(q, to)
<1>1. Len(q) \in Nat /\ DOMAIN q = 1..Len(q) /\ \A i \in 1..Len(q) : q[i] \in Features
  OBVIOUS
<1>2. R = [i \in 1..Len(q) |-> Rule({q[i]}, to)]
  BY <1>1 DEF Each
<1>3. ASSUME NEW i \in 1..Len(q)
      PROVE R[i] \in Rules /\ R[i].to = to /\ (Matches(R[i], p) <=> q[i] \in p.is)
  <2>1. R[i] = Rule({q[i]}, to)
    BY <1>2
  <2>2. {q[i]} \in SUBSET Vals
    BY <1>1 DEF Vals
  <2>3. Rule({q[i]}, to) \in Rules
    BY <2>2, RuleType
  <2>4. Rule({q[i]}, to).to = to
    BY DEF Rule
  <2>5. Matches(Rule({q[i]}, to), p) <=> {q[i]} \subseteq p.is
    BY AnyPortMatches
  <2> QED BY <2>1, <2>3, <2>4, <2>5
<1>4. R \in [1..Len(q) -> Rules]
  BY <1>2, <1>3
<1> HIDE DEF R
<1>5. R \in Seq(Rules) /\ Len(R) = Len(q)
  BY <1>1, <1>4
<1>6. AllTo(R, to)
  BY <1>3, <1>5 DEF AllTo
<1>7. HitBy(R, p) <=> \E i \in 1..Len(q) : q[i] \in p.is
  BY <1>3, <1>5 DEF HitBy
<1> QED BY <1>5, <1>6, <1>7 DEF R

LEMMA AlgHits ==
    ASSUME NEW p \in Packets, NEW side \in {"src", "dst"}
    PROVE  /\ AlgRules(side) \in Seq(Rules) /\ AllTo(AlgRules(side), "wan_dl")
           /\ HitBy(AlgRules(side), p) <=>
                  \E i \in DOMAIN Alg : Alg[i].protocol \in p.is /\ Alg[i].port = p[side]
<1> DEFINE R == AlgRules(side)
           N == Len(Alg)
           A(i) == [Rule({Alg[i].protocol}, "wan_dl") EXCEPT ![side] = [lo |-> Alg[i].port, hi |-> Alg[i].port]]
<1>1. N \in Nat /\ DOMAIN Alg = 1..N /\ \A i \in 1..N : Alg[i].port \in Nat
  BY DataAssumption, PortNumbers DEF Port
<1>2. R = [i \in 1..N |-> A(i)]
  BY <1>1 DEF AlgRules
<1>3. p.src \in 0..MaxPort /\ p.dst \in 0..MaxPort
  BY DataAssumption DEF Port
<1>4. ASSUME NEW i \in 1..N
      PROVE A(i) \in Rules /\ A(i).to = "wan_dl" /\ (Matches(A(i), p) <=> Alg[i].protocol \in p.is /\ Alg[i].port = p[side])
  <2> DEFINE one == [lo |-> Alg[i].port, hi |-> Alg[i].port]
  <2>1. {Alg[i].protocol} \in SUBSET Vals /\ "wan_dl" \in Dests
    BY <1>1 DEF Vals, Dests
  <2>3. one \in Ranges
    BY <1>1 DEF Ranges
  <2>3a. AnyPort \in Ranges
    BY PortNumbers DEF AnyPort, Ranges
  <2>5. \A x \in Nat, y \in Nat : x \in y..y <=> y = x
    OBVIOUS
  <2>6. p.src \in AnyPort.lo..AnyPort.hi /\ p.dst \in AnyPort.lo..AnyPort.hi /\ p.src \in Nat /\ p.dst \in Nat
    BY <1>3, PortNumbers DEF AnyPort
  <2>6a. Alg[i].port \in Nat
    BY <1>1
  <2>7. CASE side = "src"
    <3>1. A(i) = [on |-> {Alg[i].protocol}, src |-> one, dst |-> AnyPort, to |-> "wan_dl"]
      BY <2>7, SMTT(60) DEF Rule
    <3> HIDE DEF A
    <3>2. A(i) \in Rules /\ A(i).to = "wan_dl"
      BY <3>1, <2>1, <2>3, <2>3a DEF Rules
    <3>3. Matches(A(i), p) <=> Alg[i].protocol \in p.is /\ p.src \in one.lo..one.hi /\ p.dst \in AnyPort.lo..AnyPort.hi
      <4> HIDE DEF one
      <4> QED BY <3>1 DEF Matches
    <3> QED BY <3>2, <3>3, <2>5, <2>6, <2>6a, <2>7
  <2>8. CASE side = "dst"
    <3>1. A(i) = [on |-> {Alg[i].protocol}, src |-> AnyPort, dst |-> one, to |-> "wan_dl"]
      <4>1. A(i) = [Rule({Alg[i].protocol}, "wan_dl") EXCEPT !.dst = one]
        BY <2>8
      <4> HIDE DEF A, one
      <4> QED BY <4>1 DEF Rule
    <3> HIDE DEF A
    <3>2. A(i) \in Rules /\ A(i).to = "wan_dl"
      BY <3>1, <2>1, <2>3, <2>3a DEF Rules
    <3>3. Matches(A(i), p) <=> Alg[i].protocol \in p.is /\ p.src \in AnyPort.lo..AnyPort.hi /\ p.dst \in one.lo..one.hi
      <4> HIDE DEF one
      <4> QED BY <3>1 DEF Matches
    <3> QED BY <3>2, <3>3, <2>5, <2>6, <2>6a, <2>8
  <2> QED BY <2>7, <2>8
<1> HIDE DEF A
<1>5. R \in [1..N -> Rules]
  BY <1>2, <1>4
<1>6. \A i \in 1..N : R[i] = A(i)
  BY <1>2
<1> HIDE DEF R, N
<1>7. R \in Seq(Rules) /\ Len(R) = N
  BY <1>1, <1>5
<1>8. AllTo(R, "wan_dl")
  BY <1>4, <1>6, <1>7 DEF AllTo
<1>9. HitBy(R, p) <=> \E i \in 1..N : Alg[i].protocol \in p.is /\ Alg[i].port = p[side]
  BY <1>4, <1>6, <1>7 DEF HitBy
<1> QED BY <1>1, <1>7, <1>8, <1>9 DEF R

\* The rules made from a configuration, and what they do with a packet.
FwRules(w, c, f) == EntryRulesOf(w, c, f) \o (ICMP6Rules(f) \o DefaultRules(w, c, f))

LEMMA PassOnType == \A w, f : PassOn(w, f) \in Dests
BY DEF PassOn, Dests

LEMMA PipeRulesType ==
    ASSUME NEW w, NEW c \in Configs, NEW f \in F
    PROVE  /\ EntryRulesOf(w, c, f) \in Seq(Rules) /\ ICMP6Rules(f) \in Seq(Rules)
           /\ DefaultRules(w, c, f) \in Seq(Rules) /\ ICMP6Rules(f) \o DefaultRules(w, c, f) \in Seq(Rules)
           /\ FwRules(w, c, f) \in Seq(Rules) /\ FragRules(c, f, "EXCEPTION") \in Seq(Rules)
<1>0. /\ "EXCEPTION" \in Dests /\ PassOn(w, f) \in Dests /\ PassOn(w, "v4") \in Dests /\ PassOn(w, "v6") \in Dests
      /\ {"ICMP6"} \in SUBSET Vals /\ {} \in SUBSET Vals /\ {"frag"} \in SUBSET Vals
  BY PassOnType DEF Dests, Vals, Features
<1>1. EntryRulesOf(w, c, f) \in Seq(Rules)
  <2> DEFINE to == IF c.accept THEN PassOn(w, f) ELSE "EXCEPTION"
  <2>1. to \in Dests
    BY <1>0
  <2> HIDE DEF to
  <2>2. RulesOf(c, Vsn[f], to) \in Seq(Rules)
    BY <2>1, RulesOfHits
  <2> QED BY <2>2 DEF EntryRulesOf, to
<1>2. ICMP6Rules(f) \in Seq(Rules)
  <2>1. <<Rule({"ICMP6"}, "EXCEPTION")>> \in Seq(Rules) /\ <<>> \in Seq(Rules)
    BY <1>0, RuleType
  <2> QED BY <2>1 DEF ICMP6Rules
<1>3. DefaultRules(w, c, f) \in Seq(Rules)
  <2> DEFINE to == IF f = "v4" THEN PipeDefault4(w, c) ELSE PipeDefault6(w, c)
  <2>1. to \in Dests
    BY <1>0 DEF PipeDefault4, PipeDefault6
  <2> HIDE DEF to
  <2>2. <<Rule({}, to)>> \in Seq(Rules)
    BY <1>0, <2>1, RuleType
  <2> QED BY <2>2 DEF DefaultRules, to
<1>4. ICMP6Rules(f) \o DefaultRules(w, c, f) \in Seq(Rules)
  BY <1>2, <1>3, RulesConcat
<1>5. FwRules(w, c, f) \in Seq(Rules)
  BY <1>1, <1>4, RulesConcat DEF FwRules
<1>6. FragRules(c, f, "EXCEPTION") \in Seq(Rules)
  <2>1. <<Rule({"frag"}, "EXCEPTION")>> \in Seq(Rules) /\ <<>> \in Seq(Rules)
    BY <1>0, RuleType
  <2> QED BY <2>1 DEF FragRules
<1> QED BY <1>1, <1>2, <1>3, <1>4, <1>5, <1>6

LEMMA FwSends ==
    ASSUME NEW w, NEW c \in Configs, NEW p \in Packets
    PROVE  Sends(FwRules(w, c, p.f), p,
                 IF c.enable /\ EntryHits(c, Vsn[p.f], p) THEN IF c.accept THEN PassOn(w, p.f) ELSE "EXCEPTION"
                 ELSE IF ToICMP6(p) \/ (c.enable /\ c.accept) THEN "EXCEPTION" ELSE PassOn(w, p.f))
<1> DEFINE f == p.f
           to == IF c.accept THEN PassOn(w, f) ELSE "EXCEPTION"
           hit == c.enable /\ EntryHits(c, Vsn[f], p)
           E == EntryRulesOf(w, c, f)
           I == ICMP6Rules(f)
           D == DefaultRules(w, c, f)
           dft == IF c.enable /\ c.accept THEN "EXCEPTION" ELSE PassOn(w, f)
<1>0. f \in F /\ f \in {"v4", "v6"}
  BY DataAssumption DEF F
<1>1. E \in Seq(Rules) /\ I \in Seq(Rules) /\ D \in Seq(Rules) /\ I \o D \in Seq(Rules)
  BY <1>0, PipeRulesType
<1>2. to \in Dests /\ dft \in Dests /\ "EXCEPTION" \in Dests
  BY PassOnType DEF Dests
<1>3. AllTo(E, to) /\ (HitBy(E, p) <=> hit)
  <2> HIDE DEF to
  <2>1. LET R == RulesOf(c, Vsn[f], to) IN AllTo(R, to) /\ (HitBy(R, p) <=> hit)
    BY <1>2, RulesOfHits
  <2> QED BY <2>1 DEF EntryRulesOf, to
<1>4. AllTo(I, "EXCEPTION") /\ (HitBy(I, p) <=> ToICMP6(p))
  <2>1. {"ICMP6"} \in SUBSET Vals
    BY DEF Vals, Features
  <2>2. /\ AllTo(<<Rule({"ICMP6"}, "EXCEPTION")>>, "EXCEPTION")
        /\ HitBy(<<Rule({"ICMP6"}, "EXCEPTION")>>, p) <=> {"ICMP6"} \subseteq p.is
    BY <2>1, <1>2, OneRuleHits
  <2>3. {"ICMP6"} \subseteq p.is <=> "ICMP6" \in p.is
    OBVIOUS
  <2> QED BY <2>2, <2>3, NoRuleHits DEF ICMP6Rules, ToICMP6
<1>5. Sends(D, p, dft)
  <2>1. D = <<Rule({}, dft)>>
    BY <1>0 DEF DefaultRules, PipeDefault4, PipeDefault6
  <2> HIDE DEF dft
  <2>2. AllTo(<<Rule({}, dft)>>, dft) /\ HitBy(<<Rule({}, dft)>>, p)
    BY <1>2, OneRuleHits
  <2> QED BY <1>1, <2>1, <2>2, SendsAll
<1> HIDE DEF to, dft, hit, E, I, D
<1>6. CASE hit
  <2>1. Sends(E \o (I \o D), p, to)
    BY <1>1, <1>3, <1>6, SendsFront
  <2> QED BY <2>1, <1>6 DEF FwRules, hit, to, E, I, D
<1>7. CASE ~hit /\ ToICMP6(p)
  <2>1. Sends(I \o D, p, "EXCEPTION")
    BY <1>1, <1>4, <1>7, SendsFront
  <2>2. Sends(E \o (I \o D), p, "EXCEPTION")
    BY <1>1, <1>3, <1>7, <2>1, SendsBehind
  <2> QED BY <2>2, <1>7 DEF FwRules, hit, E, I, D
<1>8. CASE ~hit /\ ~ToICMP6(p)
  <2>1. Sends(I \o D, p, dft)
    BY <1>1, <1>4, <1>5, <1>8, SendsBehind
  <2>2. Sends(E \o (I \o D), p, dft)
    BY <1>1, <1>3, <1>8, <2>1, SendsBehind
  <2> QED BY <2>2, <1>8 DEF FwRules, hit, E, I, D, dft
<1> QED BY <1>6, <1>7, <1>8

\* The same on the modem.
LEMMA ModemRulesType ==
    ASSUME NEW w, NEW c \in Configs, NEW f \in F
    PROVE  config_dft_firewall_rules_ex(w, c, f) \in Seq(Rules)
<1>0. /\ "wan_dl" \in Dests /\ "DST_NAT" \in Dests /\ "wan_v6" \in Dests
      /\ {} \in SUBSET Vals /\ {"frag"} \in SUBSET Vals
  BY DEF Dests, Vals, Features
<1>1. ModemEntryRules4(c) \in Seq(Rules) /\ ModemEntryRules6(c) \in Seq(Rules)
  BY <1>0, RulesOfHits DEF ModemEntryRules4, ModemEntryRules6
<1>2. ModemDefault4(w, c) \in Dests /\ ModemDefault6(c) \in Dests
  BY <1>0 DEF ModemDefault4, ModemDefault6
<1>3. <<Rule({}, ModemDefault4(w, c))>> \in Seq(Rules) /\ <<Rule({}, ModemDefault6(c))>> \in Seq(Rules)
  BY <1>0, <1>2, RuleType
<1>4. FragRules(c, f, "wan_dl") \in Seq(Rules)
  <2>1. <<Rule({"frag"}, "wan_dl")>> \in Seq(Rules) /\ <<>> \in Seq(Rules)
    BY <1>0, RuleType
  <2> QED BY <2>1 DEF FragRules
<1>5. FragRules(c, f, "wan_dl") \o ModemEntryRules6(c) \in Seq(Rules)
  BY <1>1, <1>4, RulesConcat
<1>6. /\ ModemEntryRules4(c) \o <<Rule({}, ModemDefault4(w, c))>> \in Seq(Rules)
      /\ (FragRules(c, f, "wan_dl") \o ModemEntryRules6(c)) \o <<Rule({}, ModemDefault6(c))>> \in Seq(Rules)
  BY <1>1, <1>3, <1>5, RulesConcat
<1> QED BY <1>6 DEF config_dft_firewall_rules_ex

LEMMA ModemSends ==
    ASSUME NEW w, NEW c \in Configs, NEW p \in Packets
    PROVE  Sends(config_dft_firewall_rules_ex(w, c, p.f), p,
                 IF FragRules(c, p.f, "wan_dl") # <<>> /\ "frag" \in p.is THEN "wan_dl"
                 ELSE IF c.enable /\ EntryHits(c, Vsn[p.f], p)
                 THEN IF ~c.accept THEN "wan_dl" ELSE IF p.f = "v6" THEN "wan_v6" ELSE "DST_NAT"
                 ELSE IF (c.enable /\ c.accept) \/ (p.f = "v4" /\ ~c.enable /\ w.bridge) THEN "wan_dl"
                 ELSE IF p.f = "v6" THEN "wan_v6" ELSE "DST_NAT")
<1> DEFINE f == p.f
           hit == c.enable /\ EntryHits(c, Vsn[f], p)
<1>0. /\ "wan_dl" \in Dests /\ "DST_NAT" \in Dests /\ "wan_v6" \in Dests
      /\ {} \in SUBSET Vals /\ {"frag"} \in SUBSET Vals /\ f \in {"v4", "v6"}
  BY DataAssumption DEF Dests, Vals, Features
<1>1. CASE f = "v4"
  <2> DEFINE to == IF c.accept THEN "DST_NAT" ELSE "wan_dl"
             dft == ModemDefault4(w, c)
             E == ModemEntryRules4(c)
             D == <<Rule({}, dft)>>
  <2>1. to \in Dests /\ dft \in Dests
    BY <1>0 DEF ModemDefault4
  <2>2. E \in Seq(Rules) /\ AllTo(E, to) /\ (HitBy(E, p) <=> hit)
    <3> HIDE DEF to
    <3>1. LET R == RulesOf(c, Vsn[f], to) IN R \in Seq(Rules) /\ AllTo(R, to) /\ (HitBy(R, p) <=> hit)
      BY <2>1, RulesOfHits
    <3>2. Vsn[f] = 4
      BY <1>1 DEF Vsn
    <3>3. RulesOf(c, Vsn[f], to) = E
      BY <3>2 DEF ModemEntryRules4, to
    <3> QED BY <3>1, <3>3
  <2>3. D \in Seq(Rules) /\ AllTo(D, dft) /\ HitBy(D, p)
    <3> HIDE DEF dft
    <3> QED BY <1>0, <2>1, OneRuleHits
  <2>4. Sends(D, p, dft)
    <3> HIDE DEF D
    <3> QED BY <2>3, SendsAll
  <2>5. config_dft_firewall_rules_ex(w, c, f) = E \o D
    BY <1>1 DEF config_dft_firewall_rules_ex
  <2>6. FragRules(c, f, "wan_dl") = <<>>
    BY <1>1 DEF FragRules
  <2> HIDE DEF E, D, to, dft, hit
  <2>7. CASE hit
    <3>1. Sends(E \o D, p, to)
      BY <2>2, <2>3, <2>7, SendsFront
    <3> QED BY <3>1, <2>5, <2>6, <2>7, <1>1 DEF hit, to
  <2>8. CASE ~hit
    <3>1. Sends(E \o D, p, dft)
      BY <2>2, <2>3, <2>4, <2>8, SendsBehind
    <3> QED BY <3>1, <2>5, <2>6, <2>8, <1>1 DEF hit, dft, ModemDefault4
  <2> QED BY <2>7, <2>8
<1>2. CASE f = "v6"
  <2> DEFINE to == IF c.accept THEN "wan_v6" ELSE "wan_dl"
             dft == ModemDefault6(c)
             E == ModemEntryRules6(c)
             D == <<Rule({}, dft)>>
             G == FragRules(c, f, "wan_dl")
  <2>1. to \in Dests /\ dft \in Dests
    BY <1>0 DEF ModemDefault6
  <2>2. E \in Seq(Rules) /\ AllTo(E, to) /\ (HitBy(E, p) <=> hit)
    <3> HIDE DEF to
    <3>1. LET R == RulesOf(c, Vsn[f], to) IN R \in Seq(Rules) /\ AllTo(R, to) /\ (HitBy(R, p) <=> hit)
      BY <2>1, RulesOfHits
    <3>2. Vsn[f] = 6
      BY <1>2 DEF Vsn
    <3>3. RulesOf(c, Vsn[f], to) = E
      BY <3>2 DEF ModemEntryRules6, to
    <3> QED BY <3>1, <3>3
  <2>3. D \in Seq(Rules) /\ AllTo(D, dft) /\ HitBy(D, p)
    <3> HIDE DEF dft
    <3> QED BY <1>0, <2>1, OneRuleHits
  <2>4. Sends(D, p, dft)
    <3> HIDE DEF D
    <3> QED BY <2>3, SendsAll
  <2>5. config_dft_firewall_rules_ex(w, c, f) = (G \o E) \o D
    BY <1>2 DEF config_dft_firewall_rules_ex
  <2>6. G \in Seq(Rules) /\ AllTo(G, "wan_dl") /\ (HitBy(G, p) <=> G # <<>> /\ "frag" \in p.is)
    <3>1. G = <<>> \/ G = <<Rule({"frag"}, "wan_dl")>>
      BY DEF FragRules
    <3>2. LET g == <<Rule({"frag"}, "wan_dl")>> IN
            /\ g \in Seq(Rules) /\ AllTo(g, "wan_dl") /\ (HitBy(g, p) <=> {"frag"} \subseteq p.is) /\ g # <<>>
      BY <1>0, OneRuleHits
    <3>3. {"frag"} \subseteq p.is <=> "frag" \in p.is
      OBVIOUS
    <3> HIDE DEF G
    <3> QED BY <3>1, <3>2, <3>3, NoRuleHits
  <2> HIDE DEF E, D, to, dft, hit, G
  <2>7. G \o (E \o D) = (G \o E) \o D /\ E \o D \in Seq(Rules)
    BY <2>2, <2>3, <2>6, RulesConcat, ConcatAssociative
  <2>8. CASE HitBy(G, p)
    <3>1. Sends(G \o (E \o D), p, "wan_dl")
      BY <2>6, <2>7, <2>8, SendsFront
    <3> QED BY <3>1, <2>5, <2>6, <2>7, <2>8 DEF G
  <2>9. CASE ~HitBy(G, p) /\ hit
    <3>1. Sends(E \o D, p, to)
      BY <2>2, <2>3, <2>9, SendsFront
    <3>2. Sends(G \o (E \o D), p, to)
      BY <2>6, <2>7, <2>9, <3>1, SendsBehind
    <3> QED BY <3>2, <2>5, <2>6, <2>7, <2>9, <1>2 DEF hit, to, G
  <2>10. CASE ~HitBy(G, p) /\ ~hit
    <3>1. Sends(E \o D, p, dft)
      BY <2>2, <2>3, <2>4, <2>10, SendsBehind
    <3>2. Sends(G \o (E \o D), p, dft)
      BY <2>6, <2>7, <2>10, <3>1, SendsBehind
    <3> QED BY <3>2, <2>5, <2>6, <2>7, <2>10, <1>2 DEF hit, dft, ModemDefault6, G
  <2> QED BY <2>8, <2>9, <2>10
<1> QED BY <1>0, <1>1, <1>2

(***************************************************************************)
(* The invariant.                                                          *)
(***************************************************************************)
WanSet ==
    [up : BOOLEAN, v4 : BOOLEAN, n6 : 0..2, active : SUBSET F, gw : BOOLEAN, mask : BOOLEAN,
     hdl : [F -> Seq(Nat)], dft : [F -> Seq(Nat)], frag : Seq(Nat), fl : [F -> Seq(Nat)], own : Seq(Nat),
     act : BOOLEAN, swh : [F -> Seq(Nat)], if_mode : {"ROUTER", "BRIDGE"}, bridge : BOOLEAN,
     flt : [F -> Seq(Rules)], hw : [F -> Tables], lost : [F -> SUBSET Nat], from : [F -> DOMAIN Files]]
EnvSet == [scope : Scopes, file : DOMAIN Files, pending : 0..MaxPending, sw : BOOLEAN, swq : Seq(BOOLEAN)]

\* The default filters of a family are in place.
Ready(w, f) == IF f = "v4" THEN w.v4 ELSE w.n6 = 2
ReadBy(w, f) == IPACM_read_firewall_xml(Files[w.from[f]])

\* The handles an interface keeps are those of the parts of the filter table, and
\* there is room for those of the firewall's entries.
Held(w, f, q) ==
    /\ Pipe(w.hw[f], w.lost[f], q) /\ Len(w.hdl[f]) <= IPACM_MAX_FIREWALL_ENTRIES
    /\ w.swh[f] = HdlSeq(q.sw) /\ w.fl[f] = HdlSeq(q.fl) /\ w.hdl[f] \o w.dft[f] = HdlSeq(q.fw)
    /\ IF f = "v6" THEN w.own = HdlSeq(q.own) /\ w.frag = HdlSeq(q.frag) ELSE q.own = <<>> /\ q.frag = <<>>

\* What the parts are for.
Filled(w, f, q) ==
    /\ RulesIn(q.sw) = IF w.act THEN <<Rule({}, "EXCEPTION")>> ELSE <<>>
    /\ RulesIn(q.fl) = IF Ready(w, f) THEN Each(IF f = "v4" THEN PipeClasses4 ELSE PipeClasses6, "EXCEPTION") ELSE <<>>
    /\ RulesIn(q.own) = IF f = "v6" /\ Ready(w, f) THEN <<Rule({"own"}, "EXCEPTION")>> ELSE <<>>
    /\ q.frag = <<>> \/ (Ready(w, f) /\ RulesIn(q.frag) = <<Rule({"frag"}, "EXCEPTION")>>)
    /\ f \notin w.active => q.fw = <<>>

\* The firewall of a family is the one of the file it was made from.
Built(w, f, q) ==
    /\ RulesIn(q.fw) = FwRules(w, ReadBy(w, f), f)
    /\ FragRules(ReadBy(w, f), f, "EXCEPTION") # <<>> => q.frag # <<>>

PipeInv(w, ok) == \A f \in F : \E q \in Parts : Held(w, f, q) /\ Filled(w, f, q) /\ (f \in ok => Built(w, f, q))

\* The modem: its rules have no handles, and are built the same way.
ModemClasses(f) == IF f = "v4" THEN ModemClasses4 ELSE ModemClasses6
ModemFw(w, f) ==
    Each(ModemClasses(f), "wan_dl") \o add_icmp_alg_rules(f) \o config_dft_firewall_rules_ex(w, ReadBy(w, f), f)
ModemInv(w, ok) ==
    /\ \A f \in F : w.lost[f] = {}
    /\ \A f \in F : Ready(w, f) => Slots(w, f) = Each(ModemClasses(f), "wan_dl")
    /\ \A f \in ok : w.flt[f] = ModemFw(w, f)

\* What the modem has, according to the signals and their events.
On(w) == w.v4 \/ w.n6 = 2
InModem(rules) == Entered([i \in DOMAIN rules |-> 0], rules)
ModemHas(w, sw, swq) ==
    /\ On(w) /\ ~sw /\ swq = <<>> /\ FitsModem(w.flt) => \A f \in F : w.hw[f] = InModem(w.flt[f])
    /\ w.act /\ sw /\ FALSE \notin ToSet(swq) => \A f \in F : w.hw[f] = InModem(<<Rule({}, "wan_dl")>>)

\* The last event that waits is that of the flag, and an interface whose software
\* routing is not what the flag says has an event to come.
Signals(w, q6, sw, swq) ==
    /\ swq # <<>> => Last(swq) = sw
    /\ w.act /\ ~sw => FALSE \in ToSet(swq)
    /\ (IF q6 THEN On(w) ELSE HasAddress(w) # {}) /\ sw /\ ~w.act => swq # <<>>

\* Routes need addresses, and a family that missed nothing follows the file.
Life(w, out, pending, file) ==
    /\ w.active \subseteq {f \in F : Ready(w, f)} /\ out \subseteq w.active
    /\ ~w.up => ~w.v4 /\ w.n6 = 0 /\ w.active = {} /\ ~w.act
    /\ pending = 0 => \A f \in w.active \ out : w.from[f] = file

IInv ==
    /\ env \in EnvSet /\ Len(env.swq) <= MaxPending /\ s \in WanSet
    /\ Life(s, missed, env.pending, env.file) /\ Signals(s, Q6, env.sw, env.swq)
    /\ IF Q6 THEN ModemInv(s, s.active \ missed) /\ ModemHas(s, env.sw, env.swq) ELSE PipeInv(s, s.active \ missed)

EmptyParts == [sw |-> <<>>, fl |-> <<>>, own |-> <<>>, frag |-> <<>>, fw |-> <<>>]
Good(w, f, built) == \E q \in Parts : Held(w, f, q) /\ Filled(w, f, q) /\ (built => Built(w, f, q))

LEMMA PipeInvGood ==
    ASSUME NEW w, NEW ok
    PROVE  PipeInv(w, ok) <=> Good(w, "v4", "v4" \in ok) /\ Good(w, "v6", "v6" \in ok)
BY DEF PipeInv, Good, F

LEMMA EmptyTable ==
    /\ HdlSeq(<<>>) = <<>> /\ RulesIn(<<>>) = <<>> /\ EmptyParts \in Parts /\ Whole(EmptyParts) = <<>>
    /\ \A t \in Tables : (RulesIn(t) = <<>> => t = <<>>) /\ (HdlSeq(t) = <<>> => t = <<>>)
<1>1. HdlSeq(<<>>) = <<>> /\ RulesIn(<<>>) = <<>>
  BY DEF HdlSeq, RulesIn
<1>2. <<>> \in Tables
  BY TablesClosed
<1>3. EmptyParts \in Parts
  BY <1>2 DEF EmptyParts, Parts
<1>4. Whole(EmptyParts) = <<>>
  BY DEF Whole, EmptyParts
<1>5. ASSUME NEW t \in Tables, Len(t) # 0 PROVE RulesIn(t) # <<>> /\ HdlSeq(t) # <<>>
  <2>1. Len(t) \in Nat /\ 1 \in 1..Len(t)
    BY <1>5, TablesClosed
  <2>2. 1 \in DOMAIN RulesIn(t) /\ 1 \in DOMAIN HdlSeq(t) /\ DOMAIN <<>> = {}
    BY <2>1 DEF RulesIn, HdlSeq
  <2> QED BY <2>2
<1>6. \A t \in Tables : Len(t) = 0 => t = <<>>
  BY DEF Tables
<1> QED BY <1>1, <1>3, <1>4, <1>5, <1>6

\* What is left behind when an interface goes is nobody's.
LEMMA PipeEmpty ==
    ASSUME NEW t \in Tables, Distinct(t), NEW lost, lost = Hdls(t)
    PROVE  Pipe(t, lost, EmptyParts)
<1>1. Without(t, lost) = <<>>
  BY WithoutAll
<1> QED BY <1>1, EmptyTable DEF Pipe

\* A step that leaves all that is about a family alone.
SameFor(w, v, f) ==
    /\ v.hw[f] = w.hw[f] /\ v.lost[f] = w.lost[f] /\ v.swh[f] = w.swh[f] /\ v.fl[f] = w.fl[f]
    /\ v.hdl[f] = w.hdl[f] /\ v.dft[f] = w.dft[f] /\ v.from[f] = w.from[f]
    /\ f = "v6" => v.own = w.own /\ v.frag = w.frag
    /\ v.act = w.act /\ (Ready(v, f) <=> Ready(w, f)) /\ (f \in v.active <=> f \in w.active)
    /\ PassOn(v, f) = PassOn(w, f)

LEMMA FwRulesSame ==
    ASSUME NEW w, NEW v, NEW c, NEW f \in F, PassOn(v, f) = PassOn(w, f)
    PROVE  FwRules(v, c, f) = FwRules(w, c, f)
<1>1. EntryRulesOf(v, c, f) = EntryRulesOf(w, c, f)
  BY DEF EntryRulesOf
<1>2. DefaultRules(v, c, f) = DefaultRules(w, c, f)
  BY DEF DefaultRules, PipeDefault4, PipeDefault6, F
<1> QED BY <1>1, <1>2 DEF FwRules

LEMMA FrameGood ==
    ASSUME NEW w, NEW v, NEW f \in F, NEW built, SameFor(w, v, f), Good(w, f, built)
    PROVE  Good(v, f, built)
<1>1. PICK q \in Parts : Held(w, f, q) /\ Filled(w, f, q) /\ (built => Built(w, f, q))
  BY DEF Good
<1>2. Held(v, f, q)
  BY <1>1 DEF Held, SameFor
<1>3. Filled(v, f, q)
  BY <1>1 DEF Filled, SameFor
<1>4. FwRules(v, ReadBy(w, f), f) = FwRules(w, ReadBy(w, f), f)
  BY FwRulesSame DEF SameFor
<1>5. ReadBy(v, f) = ReadBy(w, f)
  BY DEF ReadBy, SameFor
<1>6. built => Built(v, f, q)
  BY <1>1, <1>4, <1>5 DEF Built
<1> QED BY <1>2, <1>3, <1>6 DEF Good

LEMMA Families == \A f \in F : f \in {"v4", "v6"}
BY DEF F

\* Deleting by handles changes the table of one family.
LEMMA DeleteFields ==
    ASSUME NEW w \in WanSet, NEW f \in F, NEW hdls
    PROVE  LET t == Without(w.hw[f], ToSet(hdls)) IN
           /\ DeleteFilteringHdls(w, f, hdls) = [w EXCEPT !.hw = [w.hw EXCEPT ![f] = t]]
           /\ [w EXCEPT !.hw = [w.hw EXCEPT ![f] = t]] \in WanSet
           /\ t \in Tables
<1> DEFINE t == Without(w.hw[f], ToSet(hdls))
<1>1. w.hw \in [F -> Tables] /\ w.hw[f] \in Tables
  BY DEF WanSet
<1>2. t \in Tables
  BY <1>1, WithoutIsTable
<1> HIDE DEF t
<1>3. [w.hw EXCEPT ![f] = t] \in [F -> Tables]
  BY <1>1, <1>2
<1>4. DeleteFilteringHdls(w, f, hdls) = [w EXCEPT !.hw = [w.hw EXCEPT ![f] = t]]
  BY DEF DeleteFilteringHdls, WanSet, t
<1>5. [w EXCEPT !.hw = [w.hw EXCEPT ![f] = t]] \in WanSet
  BY <1>3 DEF WanSet
<1> QED BY <1>2, <1>4, <1>5 DEF t

LEMMA AddFields ==
    ASSUME NEW w \in WanSet, NEW f \in F, NEW R \in Seq(Rules)
    PROVE  LET u == Entered(NewHdls(w.hw[f], Len(R)), R) IN
           /\ AddFilteringRule(w, f, R) = [w EXCEPT !.hw = [w.hw EXCEPT ![f] = w.hw[f] \o u]]
           /\ AddFilteringRuleInFront(w, f, R) = [w EXCEPT !.hw = [w.hw EXCEPT ![f] = u \o w.hw[f]]]
           /\ [w EXCEPT !.hw = [w.hw EXCEPT ![f] = w.hw[f] \o u]] \in WanSet
           /\ [w EXCEPT !.hw = [w.hw EXCEPT ![f] = u \o w.hw[f]]] \in WanSet
<1> DEFINE u == Entered(NewHdls(w.hw[f], Len(R)), R)
<1>1. w.hw \in [F -> Tables] /\ w.hw[f] \in Tables
  BY DEF WanSet
<1>2. u \in Tables
  BY <1>1, EnteredFresh DEF Fresh
<1> HIDE DEF u
<1>3. w.hw[f] \o u \in Tables /\ u \o w.hw[f] \in Tables
  BY <1>1, <1>2, TablesClosed
<1>4. [w.hw EXCEPT ![f] = w.hw[f] \o u] \in [F -> Tables] /\ [w.hw EXCEPT ![f] = u \o w.hw[f]] \in [F -> Tables]
  BY <1>1, <1>3
<1>5. AddFilteringRule(w, f, R) = [w EXCEPT !.hw = [w.hw EXCEPT ![f] = w.hw[f] \o u]]
  BY DEF AddFilteringRule, WanSet, u
<1>6. AddFilteringRuleInFront(w, f, R) = [w EXCEPT !.hw = [w.hw EXCEPT ![f] = u \o w.hw[f]]]
  BY DEF AddFilteringRuleInFront, WanSet, u
<1>7. \A H \in [F -> Tables] : [w EXCEPT !.hw = H] \in WanSet
  BY DEF WanSet
<1> QED BY <1>4, <1>5, <1>6, <1>7 DEF u

Behind(w, f, u, v) == v = [w EXCEPT !.hw = [w.hw EXCEPT ![f] = w.hw[f] \o u]] /\ v \in WanSet

LEMMA AddsBehind ==
    ASSUME NEW w \in WanSet, NEW f \in F, NEW R \in Seq(Rules)
    PROVE  Behind(w, f, Entered(NewHdls(w.hw[f], Len(R)), R), AddFilteringRule(w, f, R))
<1> DEFINE u == Entered(NewHdls(w.hw[f], Len(R)), R)
<1>1. w.hw \in [F -> Tables] /\ w.hw[f] \in Tables
  BY DEF WanSet
<1>2. u \in Tables
  BY <1>1, EnteredFresh DEF Fresh
<1> HIDE DEF u
<1>3. w.hw[f] \o u \in Tables
  BY <1>1, <1>2, TablesClosed
<1>4. [w.hw EXCEPT ![f] = w.hw[f] \o u] \in [F -> Tables]
  BY <1>1, <1>3
<1>5. AddFilteringRule(w, f, R) = [w EXCEPT !.hw = [w.hw EXCEPT ![f] = w.hw[f] \o u]]
  BY DEF AddFilteringRule, WanSet, u
<1>6. \A H \in [F -> Tables] : [w EXCEPT !.hw = H] \in WanSet
  BY DEF WanSet
<1>7. Behind(w, f, u, AddFilteringRule(w, f, R))
  BY <1>4, <1>5, <1>6 DEF Behind
<1> QED BY <1>7 DEF u

(***************************************************************************)
(* Parts that go.                                                          *)
(***************************************************************************)
Drop(q, K) ==
    [sw |-> IF "sw" \in K THEN <<>> ELSE q.sw, fl |-> IF "fl" \in K THEN <<>> ELSE q.fl,
     own |-> IF "own" \in K THEN <<>> ELSE q.own, frag |-> IF "frag" \in K THEN <<>> ELSE q.frag,
     fw |-> IF "fw" \in K THEN <<>> ELSE q.fw]
DropHdls(q, K) ==
    (IF "sw" \in K THEN Hdls(q.sw) ELSE {}) \cup (IF "fl" \in K THEN Hdls(q.fl) ELSE {})
        \cup (IF "own" \in K THEN Hdls(q.own) ELSE {}) \cup (IF "frag" \in K THEN Hdls(q.frag) ELSE {})
        \cup (IF "fw" \in K THEN Hdls(q.fw) ELSE {})

LEMMA PartsDropped ==
    ASSUME NEW t, NEW lost, NEW q, Pipe(t, lost, q), NEW K
    PROVE  /\ PartsWithout(q, DropHdls(q, K)) = Drop(q, K) /\ Drop(q, K) \in Parts
           /\ DropHdls(q, K) \cap lost = {} /\ DropHdls(q, K) \subseteq Hdls(t)
<1> DEFINE D == DropHdls(q, K)
<1>1. q \in Parts
  BY DEF Pipe
<1>2. q.sw \in Tables /\ q.fl \in Tables /\ q.own \in Tables /\ q.frag \in Tables /\ q.fw \in Tables
  BY <1>1, PartTypes
<1>3. Without(q.sw, D) = IF "sw" \in K THEN <<>> ELSE q.sw
  <2>1. "sw" \in K => Hdls(q.sw) \subseteq D
    BY DEF DropHdls
  <2>2. "sw" \notin K => Hdls(q.sw) \cap D = {}
    BY PartsApart DEF DropHdls
  <2> HIDE DEF D
  <2> QED BY <1>2, <2>1, <2>2, WithoutAll, WithoutOthers
<1>4. Without(q.fl, D) = IF "fl" \in K THEN <<>> ELSE q.fl
  <2>1. "fl" \in K => Hdls(q.fl) \subseteq D
    BY DEF DropHdls
  <2>2. "fl" \notin K => Hdls(q.fl) \cap D = {}
    BY PartsApart DEF DropHdls
  <2> HIDE DEF D
  <2> QED BY <1>2, <2>1, <2>2, WithoutAll, WithoutOthers
<1>5. Without(q.own, D) = IF "own" \in K THEN <<>> ELSE q.own
  <2>1. "own" \in K => Hdls(q.own) \subseteq D
    BY DEF DropHdls
  <2>2. "own" \notin K => Hdls(q.own) \cap D = {}
    BY PartsApart DEF DropHdls
  <2> HIDE DEF D
  <2> QED BY <1>2, <2>1, <2>2, WithoutAll, WithoutOthers
<1>6. Without(q.frag, D) = IF "frag" \in K THEN <<>> ELSE q.frag
  <2>1. "frag" \in K => Hdls(q.frag) \subseteq D
    BY DEF DropHdls
  <2>2. "frag" \notin K => Hdls(q.frag) \cap D = {}
    BY PartsApart DEF DropHdls
  <2> HIDE DEF D
  <2> QED BY <1>2, <2>1, <2>2, WithoutAll, WithoutOthers
<1>7. Without(q.fw, D) = IF "fw" \in K THEN <<>> ELSE q.fw
  <2>1. "fw" \in K => Hdls(q.fw) \subseteq D
    BY DEF DropHdls
  <2>2. "fw" \notin K => Hdls(q.fw) \cap D = {}
    BY PartsApart DEF DropHdls
  <2> HIDE DEF D
  <2> QED BY <1>2, <2>1, <2>2, WithoutAll, WithoutOthers
<1>8. PartsWithout(q, D) = Drop(q, K)
  <2> HIDE DEF D
  <2> QED BY <1>3, <1>4, <1>5, <1>6, <1>7 DEF PartsWithout, Drop
<1>9. D \cap lost = {} /\ D \subseteq Hdls(t)
  BY PartsApart DEF DropHdls, PartHdls
<1>10. Drop(q, K) \in Parts
  BY <1>2, TablesClosed DEF Drop, Parts
<1> QED BY <1>8, <1>9, <1>10

\* Rules deleted by their handles; handles forgotten.
LEMMA PipeDropped ==
    ASSUME NEW t, NEW lost, NEW q, Pipe(t, lost, q), NEW K
    PROVE  /\ Pipe(Without(t, DropHdls(q, K)), lost, Drop(q, K))
           /\ Pipe(t, lost \cup DropHdls(q, K), Drop(q, K))
<1>1. /\ PartsWithout(q, DropHdls(q, K)) = Drop(q, K)
      /\ DropHdls(q, K) \cap lost = {} /\ DropHdls(q, K) \subseteq Hdls(t)
  BY PartsDropped
<1>2. Pipe(Without(t, DropHdls(q, K)), lost, PartsWithout(q, DropHdls(q, K)))
  BY <1>1, PipeDelete
<1>3. Pipe(t, lost \cup DropHdls(q, K), PartsWithout(q, DropHdls(q, K)))
  BY <1>1, PipeLose
<1> QED BY <1>1, <1>2, <1>3

LEMMA HdlSets ==
    /\ \A t \in Tables : ToSet(HdlSeq(t)) = Hdls(t) /\ HdlSeq(t) \in Seq(Nat) /\ Len(HdlSeq(t)) = Len(t)
    /\ \A x, y \in Seq(Nat) : ToSet(x \o y) = ToSet(x) \cup ToSet(y) /\ x \o y \in Seq(Nat)
    /\ ToSet(<<>>) = {}
<1>1. ASSUME NEW t \in Tables PROVE ToSet(HdlSeq(t)) = Hdls(t) /\ HdlSeq(t) \in Seq(Nat) /\ Len(HdlSeq(t)) = Len(t)
  <2>1. Len(t) \in Nat /\ DOMAIN t = 1..Len(t)
    BY TablesClosed
  <2>2. \A i \in 1..Len(t) : t[i].hdl \in Nat
    <3>1. \A i \in 1..Len(t) : t[i] \in Entries
      BY TablePrefixes
    <3> QED BY <3>1 DEF Entries
  <2>3. HdlSeq(t) \in [1..Len(t) -> Nat] /\ DOMAIN HdlSeq(t) = 1..Len(t)
    BY <2>2 DEF HdlSeq
  <2>4. ToSet(HdlSeq(t)) = Hdls(t)
    BY <2>1, <2>3 DEF ToSet, Hdls, HdlSeq
  <2> QED BY <2>1, <2>3, <2>4
<1>2. ASSUME NEW x \in Seq(Nat), NEW y \in Seq(Nat)
      PROVE  ToSet(x \o y) = ToSet(x) \cup ToSet(y) /\ x \o y \in Seq(Nat)
  <2> DEFINE z == x \o y
  <2>1. /\ z \in Seq(Nat) /\ DOMAIN z = 1..(Len(x) + Len(y)) /\ DOMAIN x = 1..Len(x) /\ DOMAIN y = 1..Len(y)
        /\ Len(x) \in Nat /\ Len(y) \in Nat
        /\ \A i \in 1..Len(x) : z[i] = x[i]
        /\ \A i \in 1..Len(y) : z[Len(x) + i] = y[i]
    OBVIOUS
  <2> HIDE DEF z
  <2>2. \A i \in DOMAIN z : z[i] \in ToSet(x) \cup ToSet(y)
    <3> SUFFICES ASSUME NEW i \in DOMAIN z PROVE z[i] \in ToSet(x) \cup ToSet(y)
      OBVIOUS
    <3>1. i \in 1..Len(x) \/ (i - Len(x) \in 1..Len(y) /\ Len(x) + (i - Len(x)) = i)
      BY <2>1
    <3>2. CASE i \in 1..Len(x)
      BY <3>2, <2>1 DEF ToSet
    <3>3. CASE i - Len(x) \in 1..Len(y) /\ Len(x) + (i - Len(x)) = i
      <4>1. z[i] = y[i - Len(x)]
        BY <3>3, <2>1
      <4> QED BY <4>1, <3>3, <2>1 DEF ToSet
    <3> QED BY <3>1, <3>2, <3>3
  <2>3. \A i \in 1..Len(x) : i \in DOMAIN z /\ x[i] = z[i]
    BY <2>1
  <2>4. \A i \in 1..Len(y) : Len(x) + i \in DOMAIN z /\ y[i] = z[Len(x) + i]
    BY <2>1
  <2>5. ToSet(x) \subseteq ToSet(z) /\ ToSet(y) \subseteq ToSet(z)
    BY <2>1, <2>3, <2>4, ZenonT(60) DEF ToSet
  <2>6. ToSet(z) \subseteq ToSet(x) \cup ToSet(y)
    BY <2>2 DEF ToSet
  <2> QED BY <2>1, <2>5, <2>6 DEF z
<1>3. ToSet(<<>>) = {}
  BY DEF ToSet
<1> QED BY <1>1, <1>2, <1>3

(***************************************************************************)
(* The operations on a pipe.                                               *)
(***************************************************************************)
LEMMA HeldHdls ==
    ASSUME NEW w, NEW f \in F, NEW q, Held(w, f, q)
    PROVE  /\ q \in Parts /\ ToSet(w.swh[f]) = Hdls(q.sw) /\ ToSet(w.fl[f]) = Hdls(q.fl)
           /\ ToSet(w.hdl[f] \o w.dft[f]) = Hdls(q.fw)
           /\ f = "v6" => ToSet(w.own) = Hdls(q.own) /\ ToSet(w.frag) = Hdls(q.frag)
<1>1. q \in Parts
  BY DEF Held, Pipe
<1>2. q.sw \in Tables /\ q.fl \in Tables /\ q.own \in Tables /\ q.frag \in Tables /\ q.fw \in Tables
  BY <1>1, PartTypes
<1> QED BY <1>1, <1>2, HdlSets DEF Held

\* Only software routing has changed.
SwOnly(w, v) == \E H, S, a : v = [w EXCEPT !.hw = H, !.swh = S, !.act = a]

LEMMA SwOnlyFields ==
    ASSUME NEW w \in WanSet, NEW v, SwOnly(w, v)
    PROVE  /\ v.up = w.up /\ v.v4 = w.v4 /\ v.n6 = w.n6 /\ v.active = w.active /\ v.gw = w.gw /\ v.mask = w.mask
           /\ v.hdl = w.hdl /\ v.dft = w.dft /\ v.frag = w.frag /\ v.fl = w.fl /\ v.own = w.own
           /\ v.if_mode = w.if_mode /\ v.bridge = w.bridge /\ v.flt = w.flt /\ v.lost = w.lost /\ v.from = w.from
BY DEF SwOnly, WanSet

LEMMA SwPart ==
    ASSUME NEW w \in WanSet, NEW v, NEW f \in F, NEW b, SwOnly(w, v), Good(w, f, b), NEW x \in Tables,
           \A q \in Parts : Pipe(w.hw[f], w.lost[f], q) /\ Hdls(q.sw) = ToSet(w.swh[f])
                             /\ RulesIn(q.sw) = (IF w.act THEN <<Rule({}, "EXCEPTION")>> ELSE <<>>)
                                 => Pipe(v.hw[f], w.lost[f], [q EXCEPT !.sw = x]),
           v.swh[f] = HdlSeq(x), RulesIn(x) = IF v.act THEN <<Rule({}, "EXCEPTION")>> ELSE <<>>
    PROVE  Good(v, f, b)
<1>1. PICK q \in Parts : Held(w, f, q) /\ Filled(w, f, q) /\ (b => Built(w, f, q))
  BY DEF Good
<1> DEFINE r == [q EXCEPT !.sw = x]
<1>2. r \in Parts /\ r.sw = x /\ r.fl = q.fl /\ r.own = q.own /\ r.frag = q.frag /\ r.fw = q.fw
  BY DEF Parts
<1>3. Pipe(v.hw[f], w.lost[f], r)
  <2>1. Pipe(w.hw[f], w.lost[f], q) /\ Hdls(q.sw) = ToSet(w.swh[f])
    BY <1>1, HeldHdls DEF Held
  <2> QED BY <1>1, <2>1 DEF Filled
<1> HIDE DEF r
<1>4. Held(v, f, r)
  BY <1>1, <1>2, <1>3, SwOnlyFields, ZenonT(60) DEF Held
<1>5. Filled(v, f, r)
  BY <1>1, <1>2, SwOnlyFields DEF Filled, Ready
<1>6. FwRules(v, ReadBy(v, f), f) = FwRules(w, ReadBy(w, f), f) /\ ReadBy(v, f) = ReadBy(w, f)
  <2>1. PassOn(v, f) = PassOn(w, f) /\ ReadBy(v, f) = ReadBy(w, f)
    BY SwOnlyFields DEF PassOn, ReadBy
  <2> QED BY <2>1, FwRulesSame
<1>7. b => Built(v, f, r)
  BY <1>1, <1>2, <1>6 DEF Built
<1> QED BY <1>2, <1>4, <1>5, <1>7 DEF Good

LEMMA DropSw ==
    ASSUME NEW t, NEW lost, NEW q, Pipe(t, lost, q)
    PROVE  /\ Pipe(Without(t, Hdls(q.sw)), lost, [q EXCEPT !.sw = <<>>])
           /\ Pipe(t, lost \cup Hdls(q.sw), [q EXCEPT !.sw = <<>>])
<1>1. DropHdls(q, {"sw"}) = Hdls(q.sw)
  BY DEF DropHdls
<1>2. q \in Parts
  BY DEF Pipe
<1>3. Drop(q, {"sw"}) = [q EXCEPT !.sw = <<>>]
  BY <1>2 DEF Drop, Parts
<1> QED BY <1>1, <1>3, PipeDropped

LEMMA SwDisable ==
    ASSUME NEW w \in WanSet, NEW b4, NEW b6, Good(w, "v4", b4), Good(w, "v6", b6)
    PROVE  LET v == handle_software_routing_disable(w) IN
           v \in WanSet /\ v.act = FALSE /\ SwOnly(w, v) /\ Good(v, "v4", b4) /\ Good(v, "v6", b6)
<1> DEFINE v == handle_software_routing_disable(w)
<1>1. CASE ~w.act
  <2>1. v = w
    BY <1>1 DEF handle_software_routing_disable
  <2>2. w = [w EXCEPT !.hw = w.hw, !.swh = w.swh, !.act = w.act] /\ w.act = FALSE
    BY <1>1 DEF WanSet
  <2>3. SwOnly(w, w)
    BY <2>2, Zenon DEF SwOnly
  <2> QED BY <2>1, <2>2, <2>3
<1>2. CASE w.act
  <2> DEFINE t4 == Without(w.hw["v4"], ToSet(w.swh["v4"]))
             t6 == Without(w.hw["v6"], ToSet(w.swh["v6"]))
             x == DeleteFilteringHdls(w, "v4", w.swh["v4"])
             y == DeleteFilteringHdls(x, "v6", w.swh["v6"])
             H == [[w.hw EXCEPT !["v4"] = t4] EXCEPT !["v6"] = t6]
  <2>0. "v4" \in F /\ "v6" \in F /\ F = {"v4", "v6"}
    BY DEF F
  <2>1. x = [w EXCEPT !.hw = [w.hw EXCEPT !["v4"] = t4]] /\ x \in WanSet /\ t4 \in Tables
    <3>1. LET t == Without(w.hw["v4"], ToSet(w.swh["v4"])) IN
            /\ x = [w EXCEPT !.hw = [w.hw EXCEPT !["v4"] = t]] /\ [w EXCEPT !.hw = [w.hw EXCEPT !["v4"] = t]] \in WanSet
            /\ t \in Tables
      BY <2>0, DeleteFields
    <3> HIDE DEF x
    <3> QED BY <3>1
  <2> HIDE DEF x, t4
  <2>2. x.hw = [w.hw EXCEPT !["v4"] = t4] /\ x.hw["v6"] = w.hw["v6"]
    BY <2>0, <2>1 DEF WanSet
  <2>3. y = [x EXCEPT !.hw = [x.hw EXCEPT !["v6"] = t6]] /\ y \in WanSet /\ t6 \in Tables
    <3>1. LET t == Without(x.hw["v6"], ToSet(w.swh["v6"])) IN
            /\ y = [x EXCEPT !.hw = [x.hw EXCEPT !["v6"] = t]] /\ [x EXCEPT !.hw = [x.hw EXCEPT !["v6"] = t]] \in WanSet
            /\ t \in Tables
      BY <2>0, <2>1, DeleteFields, ZenonT(60)
    <3> QED BY <3>1, <2>2
  <2>4. v = [y EXCEPT !.swh = None, !.act = FALSE]
    BY <1>2 DEF handle_software_routing_disable, x
  <2> HIDE DEF y, t6, v
  <2>5. y.hw = H
    BY <2>1, <2>2, <2>3 DEF WanSet
  <2>6. None \in [F -> Seq(Nat)] /\ None["v4"] = <<>> /\ None["v6"] = <<>>
    BY <2>0 DEF None
  <2>7. H \in [F -> Tables] /\ H["v4"] = t4 /\ H["v6"] = t6
    BY <2>0, <2>1, <2>3 DEF WanSet
  <2> HIDE DEF H
  <2>8. v = [w EXCEPT !.hw = H, !.swh = None, !.act = FALSE]
    BY <2>1, <2>3, <2>4, <2>5 DEF WanSet
  <2>9. v \in WanSet /\ v.hw = H /\ v.swh = None /\ v.act = FALSE
    BY <2>6, <2>7, <2>8 DEF WanSet
  <2>10. SwOnly(w, v)
    BY <2>8, Zenon DEF SwOnly
  <2>11. <<>> \in Tables /\ HdlSeq(<<>>) = <<>> /\ RulesIn(<<>>) = <<>>
    BY TablesClosed, EmptyTable
  <2>12. \A q : Pipe(w.hw["v4"], w.lost["v4"], q) /\ Hdls(q.sw) = ToSet(w.swh["v4"]) =>
             Pipe(v.hw["v4"], w.lost["v4"], [q EXCEPT !.sw = <<>>])
    <3> SUFFICES ASSUME NEW q, Pipe(w.hw["v4"], w.lost["v4"], q), Hdls(q.sw) = ToSet(w.swh["v4"])
                 PROVE  Pipe(v.hw["v4"], w.lost["v4"], [q EXCEPT !.sw = <<>>])
      OBVIOUS
    <3>1. Pipe(Without(w.hw["v4"], Hdls(q.sw)), w.lost["v4"], [q EXCEPT !.sw = <<>>])
      BY DropSw
    <3>2. v.hw["v4"] = Without(w.hw["v4"], Hdls(q.sw))
      BY <2>7, <2>9 DEF t4
    <3> QED BY <3>1, <3>2
  <2>13. \A q : Pipe(w.hw["v6"], w.lost["v6"], q) /\ Hdls(q.sw) = ToSet(w.swh["v6"]) =>
             Pipe(v.hw["v6"], w.lost["v6"], [q EXCEPT !.sw = <<>>])
    <3> SUFFICES ASSUME NEW q, Pipe(w.hw["v6"], w.lost["v6"], q), Hdls(q.sw) = ToSet(w.swh["v6"])
                 PROVE  Pipe(v.hw["v6"], w.lost["v6"], [q EXCEPT !.sw = <<>>])
      OBVIOUS
    <3>1. Pipe(Without(w.hw["v6"], Hdls(q.sw)), w.lost["v6"], [q EXCEPT !.sw = <<>>])
      BY DropSw
    <3>2. v.hw["v6"] = Without(w.hw["v6"], Hdls(q.sw))
      BY <2>7, <2>9 DEF t6
    <3> QED BY <3>1, <3>2
  <2>14. Good(v, "v4", b4)
    BY <2>0, <2>6, <2>9, <2>10, <2>11, <2>12, SwPart
  <2>15. Good(v, "v6", b6)
    BY <2>0, <2>6, <2>9, <2>10, <2>11, <2>13, SwPart
  <2> QED BY <2>9, <2>10, <2>14, <2>15 DEF v
<1>3. w.act \in BOOLEAN
  BY DEF WanSet
<1> QED BY <1>1, <1>2, <1>3

LEMMA TableAssoc ==
    ASSUME NEW x \in Tables, NEW y \in Tables, NEW z \in Tables
    PROVE  (x \o y) \o z = x \o (y \o z)
BY ConcatAssociative DEF Tables

LEMMA TableConcat ==
    /\ \A x, y, z \in Tables : (x \o y) \o z = x \o (y \o z)
    /\ \A x \in Tables : x \o <<>> = x /\ <<>> \o x = x
<1>1. ASSUME NEW x \in Tables, NEW y \in Tables, NEW z \in Tables PROVE (x \o y) \o z = x \o (y \o z)
  BY ConcatAssociative DEF Tables
<1> QED BY <1>1, TablesClosed

\* New rules in front are software routing's.
LEMMA FrontSw ==
    ASSUME NEW t, NEW lost, NEW q, Pipe(t, lost, q), q.sw = <<>>, NEW u, Fresh(u, t)
    PROVE  Pipe(u \o t, lost, [q EXCEPT !.sw = u])
<1>1. t \in Tables /\ q \in Parts /\ Distinct(t) /\ lost \subseteq Hdls(t) /\ Without(t, lost) = Whole(q)
  BY DEF Pipe
<1>2. u \in Tables /\ Distinct(u) /\ Hdls(t) \cap Hdls(u) = {}
  BY DEF Fresh
<1>3. /\ u \o t \in Tables /\ Distinct(u \o t) /\ lost \subseteq Hdls(u \o t)
      /\ Without(u \o t, lost) = u \o Without(t, lost)
  BY <1>1, <1>2, TableAdd
<1> DEFINE r == [q EXCEPT !.sw = u]
           rest == q.fl \o (q.own \o (q.frag \o q.fw))
<1>4. r \in Parts /\ r.sw = u /\ r.fl = q.fl /\ r.own = q.own /\ r.frag = q.frag /\ r.fw = q.fw
  BY <1>1, <1>2 DEF Parts
<1>5. rest \in Tables
  BY <1>1, PartTypes
<1>6. Whole(q) = rest
  <2>1. Whole(q) = <<>> \o rest
    BY DEF Whole
  <2> HIDE DEF rest
  <2> QED BY <2>1, <1>5, TableConcat
<1>7. Whole(r) = u \o rest
  BY <1>4 DEF Whole
<1> HIDE DEF r, rest
<1> QED BY <1>1, <1>3, <1>4, <1>6, <1>7 DEF Pipe, r

\* New rules behind the others.
LEMMA AddBehind ==
    ASSUME NEW t \in Tables, NEW u, Fresh(u, t), NEW lost, Distinct(t), lost \subseteq Hdls(t)
    PROVE  /\ t \o u \in Tables /\ Distinct(t \o u) /\ lost \subseteq Hdls(t \o u)
           /\ Without(t \o u, lost) = Without(t, lost) \o u
<1>1. u \in Tables /\ Distinct(u) /\ Hdls(t) \cap Hdls(u) = {}
  BY DEF Fresh
<1> QED BY <1>1, TableAdd

LEMMA PipeAdd ==
    ASSUME NEW t, NEW lost, NEW q, Pipe(t, lost, q), NEW u, Fresh(u, t), NEW r \in Parts, Whole(r) = Whole(q) \o u
    PROVE  Pipe(t \o u, lost, r)
<1>1. t \in Tables /\ q \in Parts /\ Distinct(t) /\ lost \subseteq Hdls(t) /\ Without(t, lost) = Whole(q)
  BY DEF Pipe
<1>3. /\ t \o u \in Tables /\ Distinct(t \o u) /\ lost \subseteq Hdls(t \o u)
      /\ Without(t \o u, lost) = Without(t, lost) \o u
  BY <1>1, AddBehind
<1> QED BY <1>1, <1>3 DEF Pipe

LEMMA WholeAdd ==
    ASSUME NEW q \in Parts, NEW u \in Tables, NEW v \in Tables, q.fw = <<>>
    PROVE  /\ Whole([q EXCEPT !.fw = u]) = Whole(q) \o u
           /\ q.frag = <<>> => Whole([q EXCEPT !.frag = u, !.fw = v]) = Whole(q) \o (u \o v)
           /\ q.frag = <<>> /\ q.own = <<>> => Whole([q EXCEPT !.own = u]) = Whole(q) \o u
           /\ q.frag = <<>> /\ q.own = <<>> /\ q.fl = <<>> => Whole([q EXCEPT !.fl = u]) = Whole(q) \o u
<1> DEFINE A == q.sw
           B == q.fl
           C == q.own
           D == q.frag
<1>1. A \in Tables /\ B \in Tables /\ C \in Tables /\ D \in Tables /\ <<>> \in Tables
  BY PartTypes, TablesClosed
<1>2. \A x, y \in Tables : x \o y \in Tables
  BY TablesClosed
<1>3. /\ Whole(q) = A \o (B \o (C \o (D \o <<>>)))
      /\ Whole([q EXCEPT !.fw = u]) = A \o (B \o (C \o (D \o u)))
      /\ Whole([q EXCEPT !.frag = u, !.fw = v]) = A \o (B \o (C \o (u \o v)))
      /\ Whole([q EXCEPT !.own = u]) = A \o (B \o (u \o (D \o <<>>)))
      /\ Whole([q EXCEPT !.fl = u]) = A \o (u \o (C \o (D \o <<>>)))
  BY DEF Whole, Parts
<1> HIDE DEF A, B, C, D
<1>4. Whole(q) = A \o (B \o (C \o D))
  BY <1>1, <1>3, TableConcat
<1>5. \A x \in Tables : (A \o (B \o (C \o D))) \o x = A \o (B \o (C \o (D \o x)))
  <2> SUFFICES ASSUME NEW x \in Tables PROVE (A \o (B \o (C \o D))) \o x = A \o (B \o (C \o (D \o x)))
    OBVIOUS
  <2> DEFINE CD == C \o D
             BCD == B \o CD
  <2>0. CD \in Tables /\ BCD \in Tables
    <3>1. CD \in Tables
      BY <1>1, <1>2
    <3> HIDE DEF CD
    <3> QED BY <3>1, <1>1, <1>2
  <2>1. CD \o x = C \o (D \o x)
    BY <1>1, TableConcat, ZenonT(60)
  <2> HIDE DEF CD
  <2>2. BCD \o x = B \o (CD \o x)
    <3>1. CD \in Tables /\ B \in Tables
      BY <1>1, <2>0
    <3>2. (B \o CD) \o x = B \o (CD \o x)
      BY <3>1, TableAssoc, ZenonT(60)
    <3> QED BY <3>2
  <2> HIDE DEF BCD
  <2>3. (A \o BCD) \o x = A \o (BCD \o x)
    BY <1>1, <2>0, TableConcat, ZenonT(60)
  <2> QED BY <2>1, <2>2, <2>3 DEF CD, BCD
<1>6. Whole([q EXCEPT !.fw = u]) = Whole(q) \o u
  BY <1>3, <1>4, <1>5
<1>7. ASSUME D = <<>> PROVE Whole([q EXCEPT !.frag = u, !.fw = v]) = Whole(q) \o (u \o v)
  <2>1. D \o (u \o v) = u \o v /\ u \o v \in Tables
    BY <1>2, <1>7, TableConcat
  <2> QED BY <1>3, <1>4, <1>5, <2>1
<1>8. ASSUME D = <<>>, C = <<>> PROVE Whole([q EXCEPT !.own = u]) = Whole(q) \o u
  <2>1. C \o (D \o u) = u /\ D \o <<>> = <<>> /\ u \o <<>> = u
    BY <1>1, <1>8, TableConcat
  <2> QED BY <1>3, <1>4, <1>5, <2>1
<1>9. ASSUME D = <<>>, C = <<>>, B = <<>> PROVE Whole([q EXCEPT !.fl = u]) = Whole(q) \o u
  <2>1. C \o (D \o u) = u /\ B \o u = u /\ D \o <<>> = <<>> /\ C \o <<>> = <<>> /\ u \o <<>> = u
    BY <1>1, <1>9, TableConcat
  <2> QED BY <1>3, <1>4, <1>5, <2>1, ZenonT(60)
<1> QED BY <1>6, <1>7, <1>8, <1>9 DEF B, C, D

LEMMA SwRule == <<Rule({}, "EXCEPTION")>> \in Seq(Rules) /\ Len(<<Rule({}, "EXCEPTION")>>) = 1
<1>1. {} \in SUBSET Vals /\ "EXCEPTION" \in Dests
  BY DEF Dests
<1> QED BY <1>1, RuleType

LEMMA SwEnable ==
    ASSUME NEW w \in WanSet, NEW b4, NEW b6, Good(w, "v4", b4), Good(w, "v6", b6)
    PROVE  LET v == handle_software_routing_enable(w) IN
           v \in WanSet /\ v.act = TRUE /\ SwOnly(w, v) /\ Good(v, "v4", b4) /\ Good(v, "v6", b6)
<1> DEFINE v == handle_software_routing_enable(w)
<1>0. w.act \in BOOLEAN
  BY DEF WanSet
<1>1. CASE w.act
  <2>1. v = w
    BY <1>1 DEF handle_software_routing_enable
  <2>2. w = [w EXCEPT !.hw = w.hw, !.swh = w.swh, !.act = w.act] /\ w.act = TRUE
    BY <1>0, <1>1 DEF WanSet
  <2>3. SwOnly(w, w)
    BY <2>2, Zenon DEF SwOnly
  <2> QED BY <2>1, <2>2, <2>3
<1>2. CASE ~w.act
  <2> DEFINE R == <<Rule({}, "EXCEPTION")>>
             h4 == NewHdls(w.hw["v4"], 1)
             h6 == NewHdls(w.hw["v6"], 1)
             u4 == Entered(h4, R)
             u6 == Entered(h6, R)
             x == AddFilteringRuleInFront(w, "v4", R)
             y == AddFilteringRuleInFront(x, "v6", R)
             H == [[w.hw EXCEPT !["v4"] = u4 \o w.hw["v4"]] EXCEPT !["v6"] = u6 \o w.hw["v6"]]
             h == [f \in F |-> NewHdls(w.hw[f], 1)]
  <2>0. "v4" \in F /\ "v6" \in F /\ F = {"v4", "v6"} /\ w.hw["v4"] \in Tables /\ w.hw["v6"] \in Tables
    BY DEF F, WanSet
  <2>1. R \in Seq(Rules) /\ Len(R) = 1
    BY SwRule
  <2> HIDE DEF R
  <2>2. /\ Fresh(u4, w.hw["v4"]) /\ HdlSeq(u4) = h4 /\ RulesIn(u4) = R /\ h4 \in Seq(Nat)
        /\ Fresh(u6, w.hw["v6"]) /\ HdlSeq(u6) = h6 /\ RulesIn(u6) = R /\ h6 \in Seq(Nat)
    <3>1. \A t \in Tables : LET g == NewHdls(t, Len(R))
                                u == Entered(g, R) IN
                            Fresh(u, t) /\ HdlSeq(u) = g /\ RulesIn(u) = R /\ g \in Seq(Nat)
      BY <2>1, EnteredFresh
    <3> QED BY <2>0, <2>1, <3>1
  <2>3. x = [w EXCEPT !.hw = [w.hw EXCEPT !["v4"] = u4 \o w.hw["v4"]]] /\ x \in WanSet
    <3>1. LET u == Entered(NewHdls(w.hw["v4"], Len(R)), R) IN
            /\ x = [w EXCEPT !.hw = [w.hw EXCEPT !["v4"] = u \o w.hw["v4"]]]
            /\ [w EXCEPT !.hw = [w.hw EXCEPT !["v4"] = u \o w.hw["v4"]]] \in WanSet
      BY <2>0, <2>1, AddFields
    <3> HIDE DEF x
    <3> QED BY <3>1, <2>1
  <2>4. v = [y EXCEPT !.swh = h, !.act = TRUE]
    BY <1>2 DEF handle_software_routing_enable, R
  <2> HIDE DEF x, u4, v
  <2>5. x.hw = [w.hw EXCEPT !["v4"] = u4 \o w.hw["v4"]] /\ x.hw["v6"] = w.hw["v6"]
    BY <2>0, <2>3 DEF WanSet
  <2>6. y = [x EXCEPT !.hw = [x.hw EXCEPT !["v6"] = u6 \o w.hw["v6"]]] /\ y \in WanSet
    <3>1. LET u == Entered(NewHdls(x.hw["v6"], Len(R)), R) IN
            /\ y = [x EXCEPT !.hw = [x.hw EXCEPT !["v6"] = u \o x.hw["v6"]]]
            /\ [x EXCEPT !.hw = [x.hw EXCEPT !["v6"] = u \o x.hw["v6"]]] \in WanSet
      BY <2>0, <2>1, <2>3, AddFields
    <3> HIDE DEF y
    <3> QED BY <3>1, <2>1, <2>5
  <2> HIDE DEF y, u6, h4, h6
  <2>7. y.hw = H
    BY <2>5, <2>6, <2>3 DEF WanSet
  <2>8. h \in [F -> Seq(Nat)] /\ h["v4"] = h4 /\ h["v6"] = h6
    BY <2>0, <2>2 DEF h4, h6
  <2>9. H \in [F -> Tables] /\ H["v4"] = u4 \o w.hw["v4"] /\ H["v6"] = u6 \o w.hw["v6"]
    <3>1. y.hw \in [F -> Tables]
      BY <2>6 DEF WanSet
    <3> QED BY <2>0, <2>7, <3>1 DEF WanSet
  <2> HIDE DEF H, h
  <2>10. v = [w EXCEPT !.hw = H, !.swh = h, !.act = TRUE]
    BY <2>3, <2>6, <2>4, <2>7, <2>5, ZenonT(60) DEF WanSet
  <2>11. v \in WanSet /\ v.hw = H /\ v.swh = h /\ v.act = TRUE
    BY <2>8, <2>9, <2>10 DEF WanSet
  <2>12. SwOnly(w, v)
    BY <2>10, Zenon DEF SwOnly
  <2>13. \A q \in Parts : RulesIn(q.sw) = <<>> => q.sw = <<>>
    BY EmptyTable, PartTypes
  <2>14. \A q \in Parts : Pipe(w.hw["v4"], w.lost["v4"], q) /\ RulesIn(q.sw) = <<>> =>
             Pipe(v.hw["v4"], w.lost["v4"], [q EXCEPT !.sw = u4])
    <3> SUFFICES ASSUME NEW q \in Parts, Pipe(w.hw["v4"], w.lost["v4"], q), q.sw = <<>>
                 PROVE  Pipe(v.hw["v4"], w.lost["v4"], [q EXCEPT !.sw = u4])
      BY <2>13
    <3>1. Pipe(u4 \o w.hw["v4"], w.lost["v4"], [q EXCEPT !.sw = u4])
      BY <2>2, FrontSw
    <3> QED BY <3>1, <2>9, <2>11
  <2>15. \A q \in Parts : Pipe(w.hw["v6"], w.lost["v6"], q) /\ RulesIn(q.sw) = <<>> =>
             Pipe(v.hw["v6"], w.lost["v6"], [q EXCEPT !.sw = u6])
    <3> SUFFICES ASSUME NEW q \in Parts, Pipe(w.hw["v6"], w.lost["v6"], q), q.sw = <<>>
                 PROVE  Pipe(v.hw["v6"], w.lost["v6"], [q EXCEPT !.sw = u6])
      BY <2>13
    <3>1. Pipe(u6 \o w.hw["v6"], w.lost["v6"], [q EXCEPT !.sw = u6])
      BY <2>2, FrontSw
    <3> QED BY <3>1, <2>9, <2>11
  <2>16. u4 \in Tables /\ u6 \in Tables
    BY <2>2 DEF Fresh
  <2>17. Good(v, "v4", b4)
    BY <1>2, <2>0, <2>2, <2>8, <2>11, <2>12, <2>14, <2>16, SwPart DEF R
  <2>18. Good(v, "v6", b6)
    BY <1>2, <2>0, <2>2, <2>8, <2>11, <2>12, <2>15, <2>16, SwPart DEF R
  <2> QED BY <2>11, <2>12, <2>17, <2>18 DEF v
<1> QED BY <1>0, <1>1, <1>2

PipeClasses(f) == IF f = "v4" THEN PipeClasses4 ELSE PipeClasses6

LEMMA ClassTypes ==
    \A f \in F : /\ Each(PipeClasses(f), "EXCEPTION") \in Seq(Rules) /\ PipeClasses(f) \in Seq(Features)
                 /\ ModemClasses(f) \in Seq(Features) /\ Each(ModemClasses(f), "wan_dl") \in Seq(Rules)
                 /\ Len(Each(ModemClasses(f), "wan_dl")) = NumDefault[f]
<1>1. ASSUME NEW q \in Seq(Features), NEW to \in Dests PROVE Each(q, to) \in Seq(Rules) /\ Len(Each(q, to)) = Len(q)
  <2>1. Len(q) \in Nat /\ DOMAIN q = 1..Len(q) /\ \A i \in 1..Len(q) : q[i] \in Features
    OBVIOUS
  <2>2. \A i \in 1..Len(q) : Rule({q[i]}, to) \in Rules
    <3> SUFFICES ASSUME NEW i \in 1..Len(q) PROVE Rule({q[i]}, to) \in Rules
      OBVIOUS
    <3>1. {q[i]} \in SUBSET Vals
      BY <2>1 DEF Vals
    <3> QED BY <3>1, RuleType
  <2>3. Each(q, to) \in [1..Len(q) -> Rules]
    BY <2>1, <2>2 DEF Each
  <2> QED BY <2>1, <2>3
<1>2. /\ PipeClasses4 \in Seq(Features) /\ PipeClasses6 \in Seq(Features)
      /\ ModemClasses4 \in Seq(Features) /\ ModemClasses6 \in Seq(Features)
      /\ Len(ModemClasses4) = 2 /\ Len(ModemClasses6) = IF FEATURE_IPA_ANDROID THEN 6 ELSE 3
  <2>1. PipeClasses4 \in Seq(Features) /\ ModemClasses4 \in Seq(Features) /\ Len(ModemClasses4) = 2
    BY DEF PipeClasses4, ModemClasses4, Features
  <2>2. CASE FEATURE_IPA_ANDROID
    <3>1. PipeClasses6 = <<"multicast", "fe80", "fec0", "FIN", "SYN", "RST">> /\ ModemClasses6 = PipeClasses6
      BY <2>2 DEF PipeClasses6, ModemClasses6
    <3>2. PipeClasses6 \in Seq(Features) /\ Len(PipeClasses6) = 6
      BY <3>1 DEF Features
    <3> QED BY <2>1, <2>2, <3>1, <3>2
  <2>3. CASE ~FEATURE_IPA_ANDROID
    <3>1. PipeClasses6 = <<"multicast", "fe80", "fec0">> /\ ModemClasses6 = PipeClasses6
      BY <2>3 DEF PipeClasses6, ModemClasses6
    <3>2. PipeClasses6 \in Seq(Features) /\ Len(PipeClasses6) = 3
      BY <3>1 DEF Features
    <3> QED BY <2>1, <2>3, <3>1, <3>2
  <2> QED BY <2>2, <2>3
<1>3. "EXCEPTION" \in Dests /\ "wan_dl" \in Dests
  BY DEF Dests
<1>4. NumDefault["v4"] = 2 /\ NumDefault["v6"] = IF FEATURE_IPA_ANDROID THEN 6 ELSE 3
  BY DEF NumDefault
<1>5. \A f \in F : PipeClasses(f) \in Seq(Features) /\ ModemClasses(f) \in Seq(Features) /\ Len(ModemClasses(f)) = NumDefault[f]
  BY <1>2, <1>4, Families DEF PipeClasses, ModemClasses
<1> QED BY <1>1, <1>3, <1>5

\* Default filters: new rules behind the others.
LEMMA InitFl ==
    ASSUME NEW w \in WanSet, NEW f \in F
    PROVE  \E u : /\ Fresh(u, w.hw[f]) /\ RulesIn(u) = Each(PipeClasses(f), "EXCEPTION")
                  /\ init_fl_rule(w, f) = [w EXCEPT !.hw = [w.hw EXCEPT ![f] = w.hw[f] \o u],
                                                    !.fl = [w.fl EXCEPT ![f] = HdlSeq(u)]]
                  /\ init_fl_rule(w, f) \in WanSet
<1> DEFINE R == Each(PipeClasses(f), "EXCEPTION")
           h == NewHdls(w.hw[f], Len(R))
           u == Entered(h, R)
           x == AddFilteringRule(w, f, R)
<1>0. f \in F
  OBVIOUS
<1>1. R \in Seq(Rules)
  BY ClassTypes
<1>2. init_fl_rule(w, f) = [x EXCEPT !.fl[f] = h]
  BY DEF init_fl_rule, PipeClasses
<1> HIDE DEF R
<1>3. w.hw[f] \in Tables /\ w.fl \in [F -> Seq(Nat)]
  BY DEF WanSet
<1>4. Fresh(u, w.hw[f]) /\ HdlSeq(u) = h /\ RulesIn(u) = R /\ h \in Seq(Nat)
  BY <1>1, <1>3, EnteredFresh
<1>5. x = [w EXCEPT !.hw = [w.hw EXCEPT ![f] = w.hw[f] \o u]] /\ x \in WanSet
  BY <1>0, <1>1, AddsBehind DEF Behind
<1> HIDE DEF x, u, h
<1>6. x.fl = w.fl
  BY <1>5 DEF WanSet
<1>7. [x EXCEPT !.fl[f] = h] = [x EXCEPT !.fl = [w.fl EXCEPT ![f] = h]]
  BY <1>5, <1>6 DEF WanSet
<1>8. [w.fl EXCEPT ![f] = h] \in [F -> Seq(Nat)]
  BY <1>3, <1>4
<1>9. [x EXCEPT !.fl = [w.fl EXCEPT ![f] = h]] \in WanSet
  BY <1>5, <1>8 DEF WanSet
<1>10. [x EXCEPT !.fl = [w.fl EXCEPT ![f] = h]] =
          [w EXCEPT !.hw = [w.hw EXCEPT ![f] = w.hw[f] \o u], !.fl = [w.fl EXCEPT ![f] = h]]
  BY <1>5 DEF WanSet
<1> QED BY <1>2, <1>4, <1>7, <1>9, <1>10 DEF R

LEMMA OwnRule ==
    ASSUME NEW w \in WanSet
    PROVE  \E u : /\ Fresh(u, w.hw["v6"]) /\ RulesIn(u) = <<Rule({"own"}, "EXCEPTION")>>
                  /\ OwnAddressRule(w) = [w EXCEPT !.hw = [w.hw EXCEPT !["v6"] = w.hw["v6"] \o u], !.own = HdlSeq(u)]
                  /\ OwnAddressRule(w) \in WanSet
<1> DEFINE R == <<Rule({"own"}, "EXCEPTION")>>
           h == NewHdls(w.hw["v6"], Len(R))
           u == Entered(h, R)
           x == AddFilteringRule(w, "v6", R)
<1>0. "v6" \in F
  BY DEF F
<1>1. R \in Seq(Rules) /\ Len(R) = 1
  <2>1. {"own"} \in SUBSET Vals /\ "EXCEPTION" \in Dests
    BY DEF Vals, Features, Dests
  <2> QED BY <2>1, RuleType
<1>2. OwnAddressRule(w) = [x EXCEPT !.own = NewHdls(w.hw["v6"], 1)]
  BY DEF OwnAddressRule
<1> HIDE DEF R
<1>3. w.hw["v6"] \in Tables
  BY <1>0 DEF WanSet
<1>4. Fresh(u, w.hw["v6"]) /\ HdlSeq(u) = h /\ RulesIn(u) = R /\ h \in Seq(Nat)
  BY <1>1, <1>3, EnteredFresh
<1>5. x = [w EXCEPT !.hw = [w.hw EXCEPT !["v6"] = w.hw["v6"] \o u]] /\ x \in WanSet
  BY <1>0, <1>1, AddsBehind DEF Behind
<1>6. OwnAddressRule(w) = [x EXCEPT !.own = h]
  BY <1>1, <1>2
<1> HIDE DEF x, u, h
<1>9. [x EXCEPT !.own = h] \in WanSet
  BY <1>4, <1>5, ZenonT(60) DEF WanSet
<1>10. [x EXCEPT !.own = h] = [w EXCEPT !.hw = [w.hw EXCEPT !["v6"] = w.hw["v6"] \o u], !.own = h]
  BY <1>5 DEF WanSet
<1> QED BY <1>4, <1>6, <1>9, <1>10 DEF R

(***************************************************************************)
(* A new address.                                                          *)
(***************************************************************************)
\* What an address leaves alone.
AddrOnly(w, v) ==
    /\ v.up = w.up /\ v.active = w.active /\ v.gw = w.gw /\ v.mask = w.mask /\ v.hdl = w.hdl /\ v.dft = w.dft
    /\ v.frag = w.frag /\ v.act = w.act /\ v.swh = w.swh /\ v.if_mode = w.if_mode /\ v.bridge = w.bridge
    /\ v.flt = w.flt /\ v.lost = w.lost /\ v.from = w.from

\* A family without default filters has at most rules of software routing.
LEMMA Unready ==
    ASSUME NEW w, NEW f \in F, NEW b, Good(w, f, b), ~Ready(w, f), f \notin w.active
    PROVE  \E q \in Parts : /\ Held(w, f, q) /\ Filled(w, f, q)
                            /\ q.fl = <<>> /\ q.own = <<>> /\ q.frag = <<>> /\ q.fw = <<>>
<1>1. PICK q \in Parts : Held(w, f, q) /\ Filled(w, f, q)
  BY DEF Good
<1>2. RulesIn(q.fl) = <<>> /\ RulesIn(q.own) = <<>> /\ q.frag = <<>> /\ q.fw = <<>>
  BY <1>1 DEF Filled
<1>3. q.fl = <<>> /\ q.own = <<>>
  BY <1>2, PartTypes, EmptyTable
<1> QED BY <1>1, <1>2, <1>3

WithFilters(v, f) ==
    \E r \in Parts :
        /\ Held(v, f, r) /\ r.own = <<>> /\ r.frag = <<>> /\ r.fw = <<>>
        /\ RulesIn(r.sw) = (IF v.act THEN <<Rule({}, "EXCEPTION")>> ELSE <<>>)
        /\ RulesIn(r.fl) = Each(PipeClasses(f), "EXCEPTION")
Appended(w, v, f, u) == Fresh(u, w.hw[f]) /\ v.hw[f] = w.hw[f] \o u

LEMMA FillFl ==
    ASSUME NEW w, NEW f \in F, NEW b, Good(w, f, b), ~Ready(w, f), f \notin w.active,
           NEW u, RulesIn(u) = Each(PipeClasses(f), "EXCEPTION"),
           NEW v, Ready(v, f), AddrOnly(w, v), v.own = w.own, Appended(w, v, f, u), v.fl[f] = HdlSeq(u)
    PROVE  WithFilters(v, f)
<1>1. PICK q \in Parts : /\ Held(w, f, q) /\ Filled(w, f, q)
                         /\ q.fl = <<>> /\ q.own = <<>> /\ q.frag = <<>> /\ q.fw = <<>>
  BY Unready
<1> DEFINE r == [q EXCEPT !.fl = u]
<1>2. u \in Tables
  BY DEF Fresh, Appended
<1>3. r \in Parts /\ r.fl = u /\ r.sw = q.sw /\ r.own = q.own /\ r.frag = q.frag /\ r.fw = q.fw
  BY <1>2 DEF Parts
<1>4. Whole(r) = Whole(q) \o u
  BY <1>1, <1>2, WholeAdd
<1> HIDE DEF r
<1>5. Pipe(v.hw[f], w.lost[f], r)
  BY <1>1, <1>3, <1>4, PipeAdd DEF Held, Appended
<1>6. Held(v, f, r)
  BY <1>1, <1>3, <1>5 DEF Held, AddrOnly
<1>7. RulesIn(r.sw) = IF v.act THEN <<Rule({}, "EXCEPTION")>> ELSE <<>>
  BY <1>1, <1>3 DEF Filled, AddrOnly
<1> QED BY <1>1, <1>3, <1>6, <1>7 DEF WithFilters

LEMMA NewAddress4 ==
    ASSUME NEW w \in WanSet, ~w.v4, "v4" \notin w.active, NEW b4, NEW b6, ~b4,
           Good(w, "v4", b4), Good(w, "v6", b6), ~Q6
    PROVE  LET v == NewAddress(w, "v4") IN
           v \in WanSet /\ v.v4 /\ v.n6 = w.n6 /\ AddrOnly(w, v) /\ Good(v, "v4", b4) /\ Good(v, "v6", b6)
<1> DEFINE v == NewAddress(w, "v4")
           x == [w EXCEPT !.v4 = TRUE]
<1>0. "v4" \in F /\ "v6" \in F /\ F = {"v4", "v6"}
  BY DEF F
<1>1. v = init_fl_rule(x, "v4")
  BY DEF NewAddress
<1>2. x \in WanSet /\ x.hw = w.hw /\ x.fl = w.fl
  BY DEF WanSet
<1> HIDE DEF v
<1>3. PICK u : /\ Fresh(u, x.hw["v4"]) /\ RulesIn(u) = Each(PipeClasses("v4"), "EXCEPTION")
               /\ v = [x EXCEPT !.hw = [x.hw EXCEPT !["v4"] = x.hw["v4"] \o u], !.fl = [x.fl EXCEPT !["v4"] = HdlSeq(u)]]
               /\ v \in WanSet
  <2> HIDE DEF x
  <2> QED BY <1>0, <1>1, <1>2, InitFl
<1>4. v.v4 = TRUE /\ v.n6 = w.n6 /\ v.own = w.own /\ AddrOnly(w, v)
  BY <1>3 DEF WanSet, AddrOnly
<1>5. v.hw = [w.hw EXCEPT !["v4"] = w.hw["v4"] \o u] /\ v.fl = [w.fl EXCEPT !["v4"] = HdlSeq(u)]
  BY <1>2, <1>3 DEF WanSet
<1>6. w.hw \in [F -> Tables] /\ w.fl \in [F -> Seq(Nat)]
  BY DEF WanSet
<1>7. v.hw["v4"] = w.hw["v4"] \o u /\ v.hw["v6"] = w.hw["v6"] /\ v.fl["v4"] = HdlSeq(u) /\ v.fl["v6"] = w.fl["v6"]
  BY <1>0, <1>5, <1>6
<1> HIDE DEF x
<1>8. Ready(v, "v4") /\ ~Ready(w, "v4") /\ (Ready(v, "v6") <=> Ready(w, "v6"))
  BY <1>4 DEF Ready
<1>9. SameFor(w, v, "v6")
  BY <1>4, <1>7, <1>8 DEF SameFor, AddrOnly, PassOn
<1>10. Good(v, "v6", b6)
  BY <1>0, <1>9, FrameGood
<1>10a. Appended(w, v, "v4", u) /\ WithFilters(v, "v4")
  <2>1. Appended(w, v, "v4", u)
    BY <1>2, <1>3, <1>7 DEF Appended
  <2>2. v.own = w.own /\ v.fl["v4"] = HdlSeq(u) /\ RulesIn(u) = Each(PipeClasses("v4"), "EXCEPTION")
    BY <1>3, <1>4, <1>7
  <2> QED BY <1>0, <1>4, <1>8, <2>1, <2>2, FillFl
<1>11. PICK r \in Parts :
              /\ Held(v, "v4", r) /\ r.own = <<>> /\ r.frag = <<>> /\ r.fw = <<>>
              /\ RulesIn(r.sw) = (IF v.act THEN <<Rule({}, "EXCEPTION")>> ELSE <<>>)
              /\ RulesIn(r.fl) = Each(PipeClasses("v4"), "EXCEPTION")
  BY <1>10a DEF WithFilters
<1>12. Filled(v, "v4", r)
  BY <1>8, <1>11, EmptyTable DEF Filled, PipeClasses
<1>13. Good(v, "v4", b4)
  BY <1>11, <1>12 DEF Good
<1> QED BY <1>3, <1>4, <1>10, <1>13 DEF v

LEMMA NewAddress6 ==
    ASSUME NEW w \in WanSet, w.n6 # 2, "v6" \notin w.active, NEW b4, NEW b6, ~b6,
           Good(w, "v4", b4), Good(w, "v6", b6), ~Q6
    PROVE  LET v == NewAddress(w, "v6") IN
           v \in WanSet /\ v.v4 = w.v4 /\ v.n6 = w.n6 + 1 /\ AddrOnly(w, v) /\ Good(v, "v4", b4) /\ Good(v, "v6", b6)
<1> DEFINE v == NewAddress(w, "v6")
           n == [w EXCEPT !.n6 = w.n6 + 1]
<1>0. "v4" \in F /\ "v6" \in F /\ F = {"v4", "v6"} /\ w.n6 \in {0, 1, 2}
  BY DEF F, WanSet
<1>1. v = IF w.n6 # 1 THEN n ELSE OwnAddressRule(init_fl_rule(n, "v6"))
  BY DEF NewAddress
<1>2. n \in WanSet /\ n.hw = w.hw /\ n.fl = w.fl /\ n.n6 = w.n6 + 1
  <2>1. w.n6 + 1 \in 0..2
    BY <1>0
  <2>2. \A k \in 0..2 : [w EXCEPT !.n6 = k] \in WanSet
    BY DEF WanSet
  <2>3. n.hw = w.hw /\ n.fl = w.fl /\ n.n6 = w.n6 + 1
    BY DEF WanSet
  <2> QED BY <2>1, <2>2, <2>3
<1> HIDE DEF v
<1>3. CASE w.n6 = 0
  <2>1. v = n
    BY <1>1, <1>3
  <2>2. AddrOnly(w, n) /\ n.own = w.own /\ n.v4 = w.v4
    BY DEF AddrOnly, WanSet
  <2>3. \A f \in F : Ready(n, f) <=> Ready(w, f)
    BY <1>0, <1>2, <1>3, <2>2 DEF Ready
  <2> HIDE DEF n
  <2>4. SameFor(w, n, "v4") /\ SameFor(w, n, "v6")
    BY <1>0, <1>2, <2>2, <2>3 DEF SameFor, AddrOnly, PassOn
  <2>5. Good(n, "v4", b4) /\ Good(n, "v6", b6)
    BY <1>0, <2>4, FrameGood
  <2> QED BY <2>1, <2>2, <2>5, <1>2 DEF v
<1>4. CASE w.n6 = 1
  <2> DEFINE x == init_fl_rule(n, "v6")
  <2>1. v = OwnAddressRule(x)
    BY <1>1, <1>4
  <2>2. PICK u : /\ Fresh(u, n.hw["v6"]) /\ RulesIn(u) = Each(PipeClasses("v6"), "EXCEPTION")
                 /\ x = [n EXCEPT !.hw = [n.hw EXCEPT !["v6"] = n.hw["v6"] \o u], !.fl = [n.fl EXCEPT !["v6"] = HdlSeq(u)]]
                 /\ x \in WanSet
    <3> HIDE DEF n
    <3> QED BY <1>0, <1>2, InitFl
  <2> HIDE DEF x
  <2>3. PICK y : /\ Fresh(y, x.hw["v6"]) /\ RulesIn(y) = <<Rule({"own"}, "EXCEPTION")>>
                 /\ v = [x EXCEPT !.hw = [x.hw EXCEPT !["v6"] = x.hw["v6"] \o y], !.own = HdlSeq(y)]
                 /\ v \in WanSet
    BY <2>1, <2>2, OwnRule
  <2>4. x.v4 = w.v4 /\ x.n6 = 2 /\ x.own = w.own /\ AddrOnly(w, x)
    BY <1>4, <2>2 DEF WanSet, AddrOnly
  <2>5. x.hw = [w.hw EXCEPT !["v6"] = w.hw["v6"] \o u] /\ x.fl = [w.fl EXCEPT !["v6"] = HdlSeq(u)]
    BY <1>2, <2>2 DEF WanSet
  <2>6. w.hw \in [F -> Tables] /\ w.fl \in [F -> Seq(Nat)]
    BY DEF WanSet
  <2>7. x.hw["v6"] = w.hw["v6"] \o u /\ x.hw["v4"] = w.hw["v4"] /\ x.fl["v6"] = HdlSeq(u) /\ x.fl["v4"] = w.fl["v4"]
    BY <1>0, <2>5, <2>6
  <2> HIDE DEF n
  <2>8a. x \in WanSet /\ v = [x EXCEPT !.hw = [x.hw EXCEPT !["v6"] = x.hw["v6"] \o y], !.own = HdlSeq(y)]
    BY <2>2, <2>3
  <2>8b. v.v4 = x.v4 /\ v.n6 = x.n6 /\ v.own = HdlSeq(y) /\ v.fl = x.fl
    BY <2>8a DEF WanSet
  <2>8c. AddrOnly(x, v)
    BY <2>8a DEF WanSet, AddrOnly
  <2>8d. AddrOnly(w, v)
    BY <2>4, <2>8c DEF AddrOnly
  <2>8. v.v4 = w.v4 /\ v.n6 = 2 /\ v.own = HdlSeq(y) /\ AddrOnly(w, v) /\ v.fl = x.fl
    BY <2>4, <2>8b, <2>8d
  <2>9. v.hw["v6"] = x.hw["v6"] \o y /\ v.hw["v4"] = w.hw["v4"]
    <3>0. x \in WanSet /\ v = [x EXCEPT !.hw = [x.hw EXCEPT !["v6"] = x.hw["v6"] \o y], !.own = HdlSeq(y)]
      BY <2>2, <2>3
    <3>1. v.hw = [x.hw EXCEPT !["v6"] = x.hw["v6"] \o y] /\ x.hw \in [F -> Tables]
      BY <3>0 DEF WanSet
    <3> QED BY <1>0, <2>7, <3>1
  <2>10. Ready(x, "v6") /\ Ready(v, "v6") /\ ~Ready(w, "v6") /\ (Ready(v, "v4") <=> Ready(w, "v4"))
    BY <1>4, <2>4, <2>8 DEF Ready
  <2>11. SameFor(w, v, "v4")
    BY <2>7, <2>8, <2>9, <2>10 DEF SameFor, AddrOnly, PassOn
  <2>12. Good(v, "v4", b4)
    BY <1>0, <2>11, FrameGood
  <2>12a. Appended(w, x, "v6", u) /\ WithFilters(x, "v6")
    <3>1. Appended(w, x, "v6", u)
      BY <1>2, <2>2, <2>7 DEF Appended
    <3>2. x.own = w.own /\ x.fl["v6"] = HdlSeq(u) /\ RulesIn(u) = Each(PipeClasses("v6"), "EXCEPTION")
      BY <2>2, <2>4, <2>7
    <3> QED BY <1>0, <2>4, <2>10, <3>1, <3>2, FillFl
  <2>13. PICK r \in Parts :
                /\ Held(x, "v6", r) /\ r.own = <<>> /\ r.frag = <<>> /\ r.fw = <<>>
                /\ RulesIn(r.sw) = (IF x.act THEN <<Rule({}, "EXCEPTION")>> ELSE <<>>)
                /\ RulesIn(r.fl) = Each(PipeClasses("v6"), "EXCEPTION")
    BY <2>12a DEF WithFilters
  <2> DEFINE z == [r EXCEPT !.own = y]
  <2>14. y \in Tables
    BY <2>3 DEF Fresh
  <2>15. z \in Parts /\ z.own = y /\ z.sw = r.sw /\ z.fl = r.fl /\ z.frag = r.frag /\ z.fw = r.fw
    BY <2>14 DEF Parts
  <2>16. Whole(z) = Whole(r) \o y
    BY <2>13, <2>14, WholeAdd
  <2> HIDE DEF z
  <2>17. Pipe(v.hw["v6"], x.lost["v6"], z)
    BY <2>3, <2>9, <2>13, <2>15, <2>16, PipeAdd DEF Held
  <2>18. Held(v, "v6", z)
    BY <2>4, <2>8, <2>13, <2>15, <2>17 DEF Held, AddrOnly
  <2>19. Filled(v, "v6", z)
    BY <2>3, <2>4, <2>8, <2>10, <2>13, <2>15 DEF Filled, PipeClasses, AddrOnly
  <2>20. Good(v, "v6", b6)
    BY <2>15, <2>18, <2>19 DEF Good
  <2> QED BY <1>4, <2>3, <2>8, <2>12, <2>20 DEF v
<1> QED BY <1>0, <1>3, <1>4

(***************************************************************************)
(* The firewall rules of a pipe: made and deleted.                         *)
(***************************************************************************)

Joined(x, y, z) ==
    /\ Len(z) = Len(x) + Len(y) /\ \A i \in 1..Len(x) : z[i] = x[i]
    /\ \A i \in 1..Len(y) : z[Len(x) + i] = y[i]

LEMMA ConcatIs ==
    ASSUME NEW S, NEW x \in Seq(S), NEW y \in Seq(S), NEW z \in Seq(S), Joined(x, y, z)
    PROVE  z = x \o y
<1> DEFINE c == x \o y
           m == Len(x)
           n == Len(y)
<1>z. /\ Len(z) = m + n /\ m \in Nat /\ n \in Nat /\ \A i \in 1..m : z[i] = x[i]
      /\ \A i \in 1..n : z[m + i] = y[i]
  BY DEF Joined
<1>0. /\ c \in Seq(S) /\ Len(c) = Len(x) + Len(y) /\ \A i \in 1..Len(x) : c[i] = x[i]
      /\ \A i \in 1..Len(y) : c[Len(x) + i] = y[i]
  <2>1. Len(x) \in Nat /\ Len(y) \in Nat
    OBVIOUS
  <2>2. c \in Seq(S) /\ Len(c) = Len(x) + Len(y)
    BY ConcatProperties
  <2>3. \A i \in 1..(Len(x) + Len(y)) : c[i] = IF i <= Len(x) THEN x[i] ELSE y[i - Len(x)]
    BY ConcatProperties
  <2>4. \A i \in 1..m : i \in 1..(m + n) /\ i <= m
    BY <2>1
  <2>5. \A i \in 1..n : m + i \in 1..(m + n) /\ ~(m + i <= m) /\ (m + i) - m = i
    BY <2>1
  <2> HIDE DEF c
  <2>6. \A i \in 1..m : c[i] = x[i]
    BY <2>3, <2>4
  <2>7. \A i \in 1..n : c[m + i] = y[i]
    BY <2>3, <2>5
  <2> QED BY <2>2, <2>6, <2>7
<1>1. /\ c \in Seq(S) /\ Len(c) = m + n /\ \A i \in 1..m : c[i] = x[i]
      /\ \A i \in 1..n : c[m + i] = y[i]
  BY <1>0
<1> HIDE DEF c, m, n
<1>2. ASSUME NEW i \in 1..(m + n) PROVE z[i] = c[i]
  <2>1. CASE i <= m
    <3>1. i \in 1..m
      BY <2>1, <1>z
    <3> QED BY <3>1, <1>1, <1>z
  <2>2. CASE ~(i <= m)
    <3>1. i - m \in 1..n /\ m + (i - m) = i
      BY <2>2, <1>z
    <3>2. c[i] = y[i - m] /\ z[i] = y[i - m]
      BY <3>1, <1>1, <1>z
    <3> QED BY <3>2
  <2> QED BY <2>1, <2>2
<1>3. z = c
  BY <1>1, <1>2, <1>z
<1> QED BY <1>3 DEF c

\* Rules entered together are the fragment rule and the others, in this order.
RulesAre(u, X, Y, Z) == Len(u) = Len(X) + Len(Y) + Len(Z) /\ RulesIn(u) = (X \o Y) \o Z
Split(u, X, Y, Z) ==
    LET h == HdlSeq(u)
        k == Len(X)
        e == Len(Y) IN
    \E a, b \in Tables :
        /\ u = a \o b /\ RulesIn(a) = X /\ RulesIn(b) = Y \o Z /\ Len(a) = k
        /\ HdlSeq(b) = SubSeq(h, k + 1, k + e) \o SubSeq(h, k + e + 1, Len(h))
        /\ k = 1 => HdlSeq(a) = <<h[1]>>

LEMMA SplitTable ==
    ASSUME NEW u \in Tables, NEW X \in Seq(Rules), NEW Y \in Seq(Rules), NEW Z \in Seq(Rules), RulesAre(u, X, Y, Z)
    PROVE  Split(u, X, Y, Z)
<1> DEFINE h == HdlSeq(u)
           k == Len(X)
           e == Len(Y)
           n == Len(Z)
           a == [i \in 1..k |-> u[i]]
           b == [i \in 1..(e + n) |-> u[k + i]]
           R == (X \o Y) \o Z
<1>1. k \in Nat /\ e \in Nat /\ n \in Nat /\ X \o Y \in Seq(Rules) /\ Len(X \o Y) = k + e
  BY RulesConcat
<1>2. Len(u) = k + e + n /\ DOMAIN u = 1..(k + e + n) /\ \A i \in 1..(k + e + n) : u[i] \in Entries
  BY DEF Tables, RulesAre
<1>3. \A i \in 1..(k + e + n) : u[i].rule = R[i]
  <2>1. \A i \in 1..(k + e + n) : RulesIn(u)[i] = u[i].rule
    BY <1>2 DEF RulesIn
  <2> QED BY <2>1 DEF RulesAre
<1>4. /\ \A i \in 1..k : R[i] = X[i]
      /\ \A i \in 1..e : R[k + i] = Y[i]
      /\ \A i \in 1..n : R[k + e + i] = Z[i]
  <2>1. \A i \in 1..k : (X \o Y)[i] = X[i]
    BY RulesConcat
  <2>2. \A i \in 1..e : (X \o Y)[k + i] = Y[i]
    BY RulesConcat
  <2> DEFINE W == X \o Y
  <2> HIDE DEF W
  <2>3. (\A i \in 1..(k + e) : (W \o Z)[i] = W[i]) /\ (\A i \in 1..n : (W \o Z)[k + e + i] = Z[i])
    <3>1. W \in Seq(Rules) /\ Len(W) = k + e
      BY <1>1 DEF W
    <3> QED BY <3>1, RulesConcat
  <2> QED BY <1>1, <2>1, <2>2, <2>3 DEF W
<1>5. Y \o Z \in Seq(Rules) /\ Len(Y \o Z) = e + n
  BY RulesConcat
<1>6. (\A i \in 1..e : (Y \o Z)[i] = Y[i]) /\ (\A i \in 1..n : (Y \o Z)[e + i] = Z[i])
  BY RulesConcat
<1> HIDE DEF R, k, e, n
<1>7. a \in Tables /\ Len(a) = k
  BY <1>1, <1>2 DEF Tables
<1>8. b \in Tables /\ Len(b) = e + n
  BY <1>1, <1>2 DEF Tables
<1>9. u = a \o b
  <2>1. (\A i \in 1..k : u[i] = a[i]) /\ (\A i \in 1..(e + n) : u[k + i] = b[i])
    OBVIOUS
  <2>2. a \in Seq(Entries) /\ b \in Seq(Entries) /\ u \in Seq(Entries) /\ e + n \in Nat /\ Len(u) = k + (e + n)
    <3> HIDE DEF a, b
    <3>1. a \in Seq(Entries) /\ b \in Seq(Entries) /\ u \in Seq(Entries)
      BY <1>7, <1>8 DEF Tables
    <3>2. e + n \in Nat /\ Len(u) = k + (e + n)
      BY <1>1, <1>2
    <3> QED BY <3>1, <3>2
  <2> HIDE DEF a, b
  <2>3. k \in Nat /\ Len(a) = k /\ Len(b) = e + n
    BY <1>1, <1>7, <1>8
  <2>4. Joined(a, b, u)
    BY <2>1, <2>2, <2>3 DEF Joined
  <2> QED BY <2>2, <2>4, ConcatIs
<1>10. RulesIn(a) = X
  <2>1. DOMAIN X = 1..k /\ X = [i \in 1..k |-> X[i]]
    BY <1>1 DEF k
  <2>2. \A i \in 1..k : a[i].rule = X[i]
    BY <1>1, <1>3, <1>4
  <2> HIDE DEF a
  <2> QED BY <1>7, <2>1, <2>2 DEF RulesIn
<1>11. RulesIn(b) = Y \o Z
  <2> DEFINE YZ == Y \o Z
  <2>1. DOMAIN YZ = 1..(e + n) /\ YZ = [i \in 1..(e + n) |-> YZ[i]]
    <3>1. YZ \in Seq(Rules) /\ Len(YZ) = e + n
      BY <1>5
    <3> HIDE DEF YZ
    <3> QED BY <3>1
  <2>2. ASSUME NEW i \in 1..(e + n) PROVE b[i].rule = YZ[i]
    <3>1. b[i].rule = R[k + i]
      BY <1>1, <1>3, SMTT(60)
    <3>2. CASE i <= e
      <4>1. i \in 1..e
        BY <1>1, <3>2
      <4> QED BY <4>1, <3>1, <1>4, <1>6
    <3>3. CASE ~(i <= e)
      <4>1. i - e \in 1..n /\ e + (i - e) = i /\ k + e + (i - e) = k + i
        BY <1>1, <3>3
      <4>2. R[k + i] = Z[i - e] /\ YZ[i] = Z[i - e]
        BY <4>1, <1>4, <1>6
      <4> QED BY <4>2, <3>1
    <3> QED BY <3>2, <3>3
  <2> HIDE DEF YZ, b
  <2>3. RulesIn(b) = YZ
    BY <1>8, <2>1, <2>2 DEF RulesIn
  <2> QED BY <2>3 DEF YZ
<1>12. h \in Seq(Nat) /\ Len(h) = k + e + n /\ \A i \in 1..(k + e + n) : h[i] = u[i].hdl
  <2>1. h \in Seq(Nat) /\ Len(h) = k + e + n
    BY <1>2, HdlSets
  <2> QED BY <2>1, <1>2 DEF HdlSeq
<1>13. HdlSeq(b) = SubSeq(h, k + 1, k + e) \o SubSeq(h, k + e + 1, Len(h))
  <2> DEFINE S == SubSeq(h, k + 1, k + e)
             T == SubSeq(h, k + e + 1, k + e + n)
             g == HdlSeq(b)
  <2>0. g \in Seq(Nat) /\ Len(g) = e + n /\ \A i \in 1..(e + n) : g[i] = b[i].hdl
    <3>1. g \in Seq(Nat) /\ Len(g) = e + n
      BY <1>8, HdlSets
    <3> QED BY <3>1, <1>8 DEF HdlSeq
  <2>0a. \A i \in 1..(e + n) : g[i] = h[k + i]
    <3> SUFFICES ASSUME NEW i \in 1..(e + n) PROVE g[i] = h[k + i]
      OBVIOUS
    <3>0. k + i \in 1..(k + e + n)
      BY <1>1
    <3>0a. b[i] = u[k + i]
      OBVIOUS
    <3> HIDE DEF b, g
    <3>1. k + i \in 1..(k + e + n) /\ g[i] = b[i].hdl /\ b[i] = u[k + i]
      BY <3>0, <3>0a, <2>0
    <3>2. h[k + i] = u[k + i].hdl
      BY <3>1, <1>12
    <3> QED BY <3>1, <3>2
  <2> HIDE DEF h, g
  <2>1. S \in Seq(Nat) /\ Len(S) = e /\ \A i \in 1..e : S[i] = h[k + i]
    BY <1>1, <1>12
  <2>2. T \in Seq(Nat) /\ Len(T) = n /\ \A i \in 1..n : T[i] = h[k + e + i]
    BY <1>1, <1>12
  <2> HIDE DEF S, T
  <2>3. ASSUME NEW i \in 1..n PROVE g[e + i] = T[i]
    <3>1. e + i \in 1..(e + n) /\ k + (e + i) = k + e + i
      BY <1>1
    <3>2. g[e + i] = h[k + (e + i)] /\ T[i] = h[k + e + i]
      BY <2>0a, <2>2, <3>1
    <3> QED BY <3>1, <3>2
  <2>4. \A i \in 1..e : g[i] = S[i]
    <3>1. \A i \in 1..e : i \in 1..(e + n)
      BY <1>1
    <3> QED BY <3>1, <2>0a, <2>1
  <2>5. g = S \o T
    <3>1. /\ g \in Seq(Nat) /\ S \in Seq(Nat) /\ T \in Seq(Nat) /\ Len(S) = e /\ Len(T) = n /\ Len(g) = e + n
          /\ e \in Nat /\ n \in Nat
      BY <1>1, <2>0, <2>1, <2>2
    <3>2. \A i \in 1..n : g[e + i] = T[i]
      BY <2>3
    <3>3. Joined(S, T, g)
      BY <3>1, <3>2, <2>4 DEF Joined
    <3> QED BY <3>1, <3>3, ConcatIs
  <2> QED BY <2>5, <1>12 DEF S, T, g
<1>14. ASSUME k = 1 PROVE HdlSeq(a) = <<h[1]>>
  <2>1. Len(a) = 1 /\ a[1].hdl = h[1]
    <3>1. 1 \in 1..(k + e + n) /\ 1 \in 1..k
      BY <1>1, <1>14
    <3>2. a[1] = u[1] /\ h[1] = u[1].hdl /\ Len(a) = k
      BY <3>1, <1>7, <1>12
    <3> QED BY <3>2, <1>14
  <2> HIDE DEF a, h
  <2> QED BY <2>1 DEF HdlSeq
<1> HIDE DEF a, b
<1> QED BY <1>7, <1>8, <1>9, <1>10, <1>11, <1>13, <1>14 DEF k, e, h, Split

LEMMA NoHandles == Len(<<>>) <= IPACM_MAX_FIREWALL_ENTRIES
<1>1. Len(<<>>) = 0
  OBVIOUS
<1> QED BY <1>1, FirewallAssumption

LEMMA EmptyConcat ==
    ASSUME NEW a \in Seq(Nat), NEW b \in Seq(Nat), a \o b = <<>>
    PROVE  a = <<>> /\ b = <<>>
<1>1. Len(a) + Len(b) = 0 /\ Len(a) \in Nat /\ Len(b) \in Nat
  OBVIOUS
<1>2. Len(a) = 0 /\ Len(b) = 0
  BY <1>1
<1> QED BY <1>2

\* A family without firewall rules.
Clear(w, f) == \E q \in Parts : Held(w, f, q) /\ Filled(w, f, q) /\ q.fw = <<>>

\* What the firewall rules leave alone.
FwOnly(w, v) ==
    /\ v.up = w.up /\ v.v4 = w.v4 /\ v.n6 = w.n6 /\ v.active = w.active /\ v.gw = w.gw /\ v.fl = w.fl /\ v.own = w.own
    /\ v.act = w.act /\ v.swh = w.swh /\ v.if_mode = w.if_mode /\ v.bridge = w.bridge /\ v.flt = w.flt

LEMMA FwOnlySame ==
    ASSUME NEW w, NEW v, FwOnly(w, v)
    PROVE  \A f \in F : /\ Ready(v, f) <=> Ready(w, f)
                        /\ PassOn(v, f) = PassOn(w, f)
BY DEF FwOnly, Ready, PassOn

\* The rules of a file that fits have room.
LEMMA EntriesFit ==
    ASSUME FilesFit, NEW w \in WanSet, NEW f \in F, NEW x \in DOMAIN Files
    PROVE  Len(EntryRulesOf(w, IPACM_read_firewall_xml(Files[x]), f)) <= IPACM_MAX_FIREWALL_ENTRIES
<1> DEFINE c == IPACM_read_firewall_xml(Files[x])
           to == IF c.accept THEN PassOn(w, f) ELSE "EXCEPTION"
<1>1. \A vsn \in {4, 6}, d \in {"wan_v6", "DST_NAT", "lan_v4", "EXCEPTION"} : Len(RulesOf(c, vsn, d)) <= IPACM_MAX_FIREWALL_ENTRIES
  BY DEF FilesFit
<1>2. Vsn[f] \in {4, 6}
  BY Families DEF Vsn
<1>3. to \in {"wan_v6", "DST_NAT", "lan_v4", "EXCEPTION"}
  BY DEF PassOn
<1>4. EntryRulesOf(w, c, f) = RulesOf(c, Vsn[f], to)
  BY DEF EntryRulesOf
<1> HIDE DEF c, to
<1>5. Len(EntryRulesOf(w, c, f)) <= IPACM_MAX_FIREWALL_ENTRIES
  BY <1>1, <1>2, <1>3, <1>4
<1> QED BY <1>5 DEF c

\* The rules a pipe without firewall rules gets are those of the file it reads.
LEMMA ConfigFields ==
    ASSUME FilesFit, NEW w \in WanSet, NEW f \in F, env.file \in DOMAIN Files, w.hdl[f] = <<>>
    PROVE  LET c == IPACM_read_firewall_xml(Files[env.file])
               G == FragRules(c, f, "EXCEPTION")
               v == config_dft_firewall_rules(w, f) IN
           \E a, b \in Tables :
               /\ Fresh(a \o b, w.hw[f]) /\ RulesIn(a) = G /\ RulesIn(b) = FwRules(w, c, f)
               /\ v \in WanSet /\ FwOnly(w, v)
               /\ v.hw = [w.hw EXCEPT ![f] = w.hw[f] \o (a \o b)]
               /\ v.hdl[f] \o v.dft[f] = HdlSeq(b) /\ Len(v.hdl[f]) <= IPACM_MAX_FIREWALL_ENTRIES
               /\ v.from = [w.from EXCEPT ![f] = env.file]
               /\ \A g \in F : g # f => v.hdl[g] = w.hdl[g] /\ v.dft[g] = w.dft[g]
               /\ v.frag = IF G = <<>> THEN w.frag ELSE HdlSeq(a)
               /\ v.lost = IF G = <<>> THEN w.lost ELSE [w.lost EXCEPT ![f] = w.lost[f] \cup ToSet(w.frag)]
<1> DEFINE c == IPACM_read_firewall_xml(Files[env.file])
           G == FragRules(c, f, "EXCEPTION")
           Y == EntryRulesOf(w, c, f)
           Z == ICMP6Rules(f) \o DefaultRules(w, c, f)
           R == (G \o Y) \o Z
           n == Len(G) + Len(Y) + Len(Z)
           h == NewHdls(w.hw[f], n)
           u == Entered(h, R)
           x == AddFilteringRule(w, f, R)
           v == config_dft_firewall_rules(w, f)
           h1 == SubSeq(h, Len(G) + 1, Len(G) + Len(Y))
           h2 == SubSeq(h, Len(G) + Len(Y) + 1, Len(h))
           m == check_dft_firewall_rules_attr_mask(c)
           fr == IF G = <<>> THEN w.frag ELSE <<h[1]>>
           lo == IF G = <<>> THEN w.lost[f] ELSE w.lost[f] \cup ToSet(w.frag)
<1>0. f \in F /\ w.hw[f] \in Tables
  BY DEF WanSet
<1>1. c \in Configs
  BY ReadType
<1>2. v = [x EXCEPT !.mask = m, !.frag = IF G = <<>> THEN @ ELSE <<h[1]>>, !.hdl[f] = @ \o h1, !.dft[f] = h2,
                    !.lost[f] = IF G = <<>> THEN @ ELSE @ \cup ToSet(w.frag), !.from[f] = env.file]
  BY DEF config_dft_firewall_rules
<1>2b. Len(Y) <= IPACM_MAX_FIREWALL_ENTRIES
  BY EntriesFit
<1>2a. m \in BOOLEAN
  BY DEF check_dft_firewall_rules_attr_mask
<1> HIDE DEF c, v, m
<1>3. G \in Seq(Rules) /\ Y \in Seq(Rules) /\ Z \in Seq(Rules)
  BY <1>1, PipeRulesType
<1>4. G = <<>> \/ Len(G) = 1
  BY DEF FragRules
<1>4a. FwRules(w, c, f) = Y \o Z
  BY DEF FwRules
<1> HIDE DEF G, Y, Z
<1>5. R \in Seq(Rules) /\ Len(R) = n /\ n \in Nat
  <2>1. G \o Y \in Seq(Rules) /\ Len(G \o Y) = Len(G) + Len(Y) /\ Len(G) \in Nat /\ Len(Y) \in Nat
    BY <1>3, RulesConcat
  <2> DEFINE GY == G \o Y
  <2> HIDE DEF GY
  <2>2. GY \o Z \in Seq(Rules) /\ Len(GY \o Z) = Len(GY) + Len(Z) /\ Len(Z) \in Nat
    BY <1>3, <2>1, RulesConcat DEF GY
  <2> QED BY <2>1, <2>2 DEF GY
<1>6. Fresh(u, w.hw[f]) /\ HdlSeq(u) = h /\ RulesIn(u) = R /\ Len(u) = n /\ h \in Seq(Nat) /\ Len(h) = n
  <2> HIDE DEF R, n
  <2>1. LET hh == NewHdls(w.hw[f], Len(R))
            uu == Entered(hh, R) IN
        Fresh(uu, w.hw[f]) /\ HdlSeq(uu) = hh /\ RulesIn(uu) = R /\ Len(uu) = Len(R) /\ hh \in Seq(Nat) /\ Len(hh) = Len(R)
    BY <1>0, <1>5, EnteredFresh
  <2> QED BY <2>1, <1>5
<1>7. x = [w EXCEPT !.hw = [w.hw EXCEPT ![f] = w.hw[f] \o u]] /\ x \in WanSet
  <2> HIDE DEF R, n
  <2>1. R \in Seq(Rules) /\ u = Entered(NewHdls(w.hw[f], Len(R)), R)
    BY <1>5
  <2> HIDE DEF u
  <2>2. Behind(w, f, Entered(NewHdls(w.hw[f], Len(R)), R), x)
    BY <1>0, <2>1, AddsBehind
  <2> QED BY <2>1, <2>2 DEF Behind
<1>8. u \in Tables
  BY <1>6 DEF Fresh
<1>9. \E a, b \in Tables : /\ u = a \o b /\ RulesIn(a) = G /\ RulesIn(b) = Y \o Z /\ Len(a) = Len(G)
                           /\ HdlSeq(b) = h1 \o h2
                           /\ Len(G) = 1 => HdlSeq(a) = <<h[1]>>
  <2> HIDE DEF u, h, x
  <2>1. RulesAre(u, G, Y, Z)
    BY <1>6 DEF RulesAre
  <2>2. Split(u, G, Y, Z)
    BY <1>3, <1>8, <2>1, SplitTable
  <2> QED BY <2>2, <1>6 DEF Split
<1> HIDE DEF u, x
<1>10. h1 \in Seq(Nat) /\ h2 \in Seq(Nat) /\ (G # <<>> => h[1] \in Nat) /\ Len(h1) = Len(Y)
  <2>1. Len(G) \in Nat /\ Len(Y) \in Nat /\ Len(Z) \in Nat /\ (G # <<>> => Len(G) = 1)
    BY <1>3, <1>4
  <2> HIDE DEF h, x, u
  <2>2. \A i \in 1..n : h[i] \in Nat
    BY <1>6
  <2>3. G # <<>> => 1 \in 1..n
    BY <2>1
  <2>4. h1 \in Seq(Nat)
    BY <1>6, <2>1, SMTT(60)
  <2>5. h2 \in Seq(Nat)
    BY <1>6, <2>1
  <2>6. Len(h1) = Len(Y)
    BY <1>6, <2>1
  <2> QED BY <2>2, <2>3, <2>4, <2>5, <2>6
<1> HIDE DEF h1, h2, h
<1>11. x.frag = w.frag /\ x.lost = w.lost /\ x.hdl = w.hdl /\ x.dft = w.dft /\ x.from = w.from /\ x.hw = [w.hw EXCEPT ![f] = w.hw[f] \o u]
  BY <1>7 DEF WanSet
<1>12. v = [x EXCEPT !.mask = m, !.frag = fr, !.hdl = [w.hdl EXCEPT ![f] = h1], !.dft = [w.dft EXCEPT ![f] = h2],
                     !.lost = [w.lost EXCEPT ![f] = lo], !.from = [w.from EXCEPT ![f] = env.file]]
  <2> DEFINE frag(z) == IF G = <<>> THEN z ELSE <<h[1]>>
             lost(z) == IF G = <<>> THEN z ELSE z \cup ToSet(w.frag)
  <2>1. v = [x EXCEPT !.mask = m, !.frag = frag(x.frag), !.hdl = [x.hdl EXCEPT ![f] = x.hdl[f] \o h1], !.dft = [x.dft EXCEPT ![f] = h2],
                      !.lost = [x.lost EXCEPT ![f] = lost(x.lost[f])], !.from = [x.from EXCEPT ![f] = env.file]]
    BY <1>2, <1>7 DEF WanSet
  <2>2. x.hdl[f] \o h1 = h1
    BY <1>10, <1>11
  <2> QED BY <1>11, <2>1, <2>2
<1>13. fr \in Seq(Nat) /\ lo \in SUBSET Nat
  <2>1. w.frag \in Seq(Nat) /\ w.lost[f] \in SUBSET Nat
    BY DEF WanSet
  <2>2. ToSet(w.frag) \subseteq Nat
    BY <2>1 DEF ToSet
  <2>3. G # <<>> => <<h[1]>> \in Seq(Nat)
    BY <1>10
  <2> QED BY <2>1, <2>2, <2>3
<1> DEFINE H1 == [w.hdl EXCEPT ![f] = h1]
           H2 == [w.dft EXCEPT ![f] = h2]
           LO == [w.lost EXCEPT ![f] = lo]
           FR == [w.from EXCEPT ![f] = env.file]
<1>14. /\ H1 \in [F -> Seq(Nat)] /\ H2 \in [F -> Seq(Nat)] /\ LO \in [F -> SUBSET Nat] /\ FR \in [F -> DOMAIN Files]
       /\ H1[f] = h1 /\ H2[f] = h2 /\ \A g \in F : g # f => H1[g] = w.hdl[g] /\ H2[g] = w.dft[g]
  <2>1. w.hdl \in [F -> Seq(Nat)] /\ w.dft \in [F -> Seq(Nat)] /\ w.lost \in [F -> SUBSET Nat] /\ w.from \in [F -> DOMAIN Files]
    BY DEF WanSet
  <2> HIDE DEF lo
  <2> QED BY <2>1, <1>10, <1>13
<1>15. LO = IF G = <<>> THEN w.lost ELSE [w.lost EXCEPT ![f] = w.lost[f] \cup ToSet(w.frag)]
  <2>1. w.lost \in [F -> SUBSET Nat]
    BY DEF WanSet
  <2> QED BY <2>1
<1> HIDE DEF H1, H2, LO, FR, fr
<1>16. v = [x EXCEPT !.mask = m, !.frag = fr, !.hdl = H1, !.dft = H2, !.lost = LO, !.from = FR]
  BY <1>12 DEF H1, H2, LO, FR
<1>17. v \in WanSet
  BY <1>2a, <1>7, <1>13, <1>14, <1>16, ZenonT(60) DEF WanSet
<1>18. v.frag = fr /\ v.hdl = H1 /\ v.dft = H2 /\ v.lost = LO /\ v.from = FR /\ v.hw = x.hw
  BY <1>7, <1>16 DEF WanSet
<1>19. FwOnly(w, v)
  <2>1. FwOnly(w, x)
    BY <1>7 DEF FwOnly, WanSet
  <2>2. FwOnly(x, v)
    BY <1>7, <1>16 DEF FwOnly, WanSet
  <2> QED BY <2>1, <2>2 DEF FwOnly
<1>20. PICK a \in Tables, b \in Tables :
          /\ u = a \o b /\ RulesIn(a) = G /\ RulesIn(b) = Y \o Z /\ Len(a) = Len(G)
          /\ HdlSeq(b) = h1 \o h2
          /\ Len(G) = 1 => HdlSeq(a) = <<h[1]>>
  BY <1>9
<1>21. v.frag = IF G = <<>> THEN w.frag ELSE HdlSeq(a)
  BY <1>4, <1>18, <1>20 DEF fr
<1>22. Fresh(a \o b, w.hw[f]) /\ RulesIn(b) = FwRules(w, c, f) /\ v.hw = [w.hw EXCEPT ![f] = w.hw[f] \o (a \o b)]
  BY <1>4a, <1>6, <1>11, <1>18, <1>20
<1>23. /\ v.hdl[f] \o v.dft[f] = HdlSeq(b) /\ Len(v.hdl[f]) <= IPACM_MAX_FIREWALL_ENTRIES
       /\ \A g \in F : g # f => v.hdl[g] = w.hdl[g] /\ v.dft[g] = w.dft[g]
  BY <1>2b, <1>10, <1>14, <1>18, <1>20
<1> QED BY <1>15, <1>17, <1>18, <1>19, <1>20, <1>21, <1>22, <1>23 DEF c, G, v, FR

\* What is left of a family when another's firewall changes.
OthersSame(w, v, f) == \A g \in F : g # f => SameFor(w, v, g)

LEMMA ClearEmpty ==
    ASSUME NEW w \in WanSet, NEW f \in F, Clear(w, f)
    PROVE  w.hdl[f] = <<>> /\ w.dft[f] = <<>>
<1>1. w.hdl[f] \o w.dft[f] = <<>>
  BY EmptyTable DEF Clear, Held
<1>2. w.hdl[f] \in Seq(Nat) /\ w.dft[f] \in Seq(Nat)
  BY DEF WanSet
<1> QED BY <1>1, <1>2, EmptyConcat

LEMMA Config ==
    ASSUME FilesFit, NEW w \in WanSet, NEW f \in F, env.file \in DOMAIN Files, Clear(w, f), Ready(w, f), f \in w.active
    PROVE  LET v == config_dft_firewall_rules(w, f) IN
           /\ v \in WanSet /\ FwOnly(w, v) /\ OthersSame(w, v, f) /\ Good(v, f, TRUE)
           /\ v.from = [w.from EXCEPT ![f] = env.file]
<1> DEFINE v == config_dft_firewall_rules(w, f)
           c == IPACM_read_firewall_xml(Files[env.file])
           G == FragRules(c, f, "EXCEPTION")
<1> HIDE DEF v, c, G
<1>1. PICK a \in Tables, b \in Tables :
         /\ Fresh(a \o b, w.hw[f]) /\ RulesIn(a) = G /\ RulesIn(b) = FwRules(w, c, f)
         /\ v \in WanSet /\ FwOnly(w, v)
         /\ v.hw = [w.hw EXCEPT ![f] = w.hw[f] \o (a \o b)]
         /\ v.hdl[f] \o v.dft[f] = HdlSeq(b) /\ Len(v.hdl[f]) <= IPACM_MAX_FIREWALL_ENTRIES
         /\ v.from = [w.from EXCEPT ![f] = env.file]
         /\ \A g \in F : g # f => v.hdl[g] = w.hdl[g] /\ v.dft[g] = w.dft[g]
         /\ v.frag = IF G = <<>> THEN w.frag ELSE HdlSeq(a)
         /\ v.lost = IF G = <<>> THEN w.lost ELSE [w.lost EXCEPT ![f] = w.lost[f] \cup ToSet(w.frag)]
  BY ConfigFields, ClearEmpty DEF v, c, G
<1>2. f \in {"v4", "v6"} /\ (f = "v4" => G = <<>>) /\ (G # <<>> => G = <<Rule({"frag"}, "EXCEPTION")>>)
  BY Families DEF G, FragRules
<1>3. w.hw \in [F -> Tables] /\ w.lost \in [F -> SUBSET Nat] /\ w.from \in [F -> DOMAIN Files]
  BY DEF WanSet
<1> DEFINE u == a \o b
<1>4. Fresh(u, w.hw[f]) /\ v.hw[f] = w.hw[f] \o u /\ u \in Tables
  BY <1>1, <1>3 DEF Fresh
<1>5. OthersSame(w, v, f)
  <2> SUFFICES ASSUME NEW g \in F, g # f PROVE SameFor(w, v, g)
    BY DEF OthersSame
  <2>1. v.hw[g] = w.hw[g] /\ v.lost[g] = w.lost[g] /\ v.from[g] = w.from[g] /\ v.hdl[g] = w.hdl[g] /\ v.dft[g] = w.dft[g]
    BY <1>1, <1>3
  <2>2. g = "v6" => v.frag = w.frag
    BY <1>1, <1>2
  <2> QED BY <1>1, <2>1, <2>2, FwOnlySame DEF SameFor, FwOnly
<1>6. PICK q \in Parts : Held(w, f, q) /\ Filled(w, f, q) /\ q.fw = <<>>
  BY DEF Clear
<1> HIDE DEF u
<1>7. \E r \in Parts : /\ Pipe(v.hw[f], v.lost[f], r) /\ r.sw = q.sw /\ r.fl = q.fl /\ r.own = q.own /\ r.fw = b
                       /\ r.frag = IF G = <<>> THEN q.frag ELSE a
  <2>1. CASE G = <<>>
    <3> DEFINE r == [q EXCEPT !.fw = b]
    <3>1. a = <<>>
      BY <1>1, <2>1, EmptyTable
    <3>2. u = b
      BY <3>1, TablesClosed DEF u
    <3>3. r \in Parts /\ r.sw = q.sw /\ r.fl = q.fl /\ r.own = q.own /\ r.fw = b /\ r.frag = q.frag
      BY DEF Parts
    <3>4. Whole(r) = Whole(q) \o b
      BY <1>6, WholeAdd
    <3> HIDE DEF r
    <3>5. Pipe(w.hw[f], w.lost[f], q) /\ v.lost[f] = w.lost[f]
      BY <1>1, <1>6, <2>1 DEF Held
    <3>6. Pipe(w.hw[f] \o u, w.lost[f], r)
      BY <1>4, <3>2, <3>3, <3>4, <3>5, PipeAdd
    <3> QED BY <1>4, <2>1, <3>3, <3>5, <3>6
  <2>2. CASE G # <<>>
    <3> DEFINE d == Drop(q, {"frag"})
               r == [d EXCEPT !.frag = a, !.fw = b]
    <3>1. Pipe(w.hw[f], w.lost[f], q) /\ f = "v6" /\ ToSet(w.frag) = Hdls(q.frag)
      BY <1>2, <1>6, <2>2, HeldHdls, ZenonT(60) DEF Held
    <3>2. DropHdls(q, {"frag"}) = Hdls(q.frag)
      BY DEF DropHdls
    <3>3. Pipe(w.hw[f], w.lost[f] \cup Hdls(q.frag), d)
      BY <3>1, <3>2, PipeDropped
    <3>4. v.lost[f] = w.lost[f] \cup Hdls(q.frag)
      BY <1>1, <1>3, <2>2, <3>1
    <3>5. d \in Parts /\ d.sw = q.sw /\ d.fl = q.fl /\ d.own = q.own /\ d.frag = <<>> /\ d.fw = <<>>
      BY <1>6, <3>3 DEF Drop, Pipe
    <3> HIDE DEF d
    <3>6. r \in Parts /\ r.sw = q.sw /\ r.fl = q.fl /\ r.own = q.own /\ r.fw = b /\ r.frag = a
      BY <3>5 DEF Parts
    <3>7. Whole(r) = Whole(d) \o u
      BY <3>5, WholeAdd DEF u
    <3> HIDE DEF r
    <3>8. Pipe(w.hw[f] \o u, w.lost[f] \cup Hdls(q.frag), r)
      BY <1>4, <3>3, <3>6, <3>7, PipeAdd
    <3> QED BY <1>4, <2>2, <3>4, <3>6, <3>8
  <2> QED BY <2>1, <2>2
<1>8. PICK r \in Parts : /\ Pipe(v.hw[f], v.lost[f], r) /\ r.sw = q.sw /\ r.fl = q.fl /\ r.own = q.own /\ r.fw = b
                         /\ r.frag = IF G = <<>> THEN q.frag ELSE a
  BY <1>7
<1>9. Held(v, f, r)
  <2>1. v.swh[f] = HdlSeq(r.sw) /\ v.fl[f] = HdlSeq(r.fl) /\ v.hdl[f] \o v.dft[f] = HdlSeq(r.fw)
    BY <1>1, <1>6, <1>8 DEF Held, FwOnly
  <2>2. IF f = "v6" THEN v.own = HdlSeq(r.own) /\ v.frag = HdlSeq(r.frag) ELSE r.own = <<>> /\ r.frag = <<>>
    BY <1>1, <1>2, <1>6, <1>8 DEF Held, FwOnly
  <2> QED BY <1>1, <1>8, <2>1, <2>2 DEF Held
<1>10. (Ready(v, f) <=> Ready(w, f)) /\ PassOn(v, f) = PassOn(w, f)
  BY <1>1, FwOnlySame
<1>11. Filled(v, f, r)
  BY <1>1, <1>2, <1>6, <1>8, <1>10 DEF Filled, FwOnly
<1>12. Built(v, f, r)
  <2>1. ReadBy(v, f) = c
    BY <1>1, <1>3 DEF ReadBy, c
  <2>2. FwRules(v, c, f) = FwRules(w, c, f)
    BY <1>10, FwRulesSame
  <2>3. FragRules(c, f, "EXCEPTION") # <<>> => r.frag # <<>>
    BY <1>1, <1>8, EmptyTable DEF G
  <2> QED BY <1>1, <1>8, <2>1, <2>2, <2>3 DEF Built
<1>13. Good(v, f, TRUE)
  BY <1>8, <1>9, <1>11, <1>12 DEF Good
<1> QED BY <1>1, <1>5, <1>13 DEF v

\* The rules of a family are deleted by their handles.
LEMMA Deleted ==
    ASSUME NEW w \in WanSet, NEW f \in F, f \in w.active, NEW b, Good(w, f, b)
    PROVE  LET v == del_dft_firewall_rules(w, f) IN
           v \in WanSet /\ FwOnly(w, v) /\ OthersSame(w, v, f) /\ Clear(v, f) /\ v.from = w.from
<1> DEFINE v == del_dft_firewall_rules(w, f)
           fd == IF f = "v6" THEN FragDeleted(w) ELSE <<>>
           D == w.hdl[f] \o w.dft[f] \o fd
           x == DeleteFilteringHdls(w, f, D)
           t == Without(w.hw[f], ToSet(D))
           fr == IF f = "v6" /\ w.mask THEN <<>> ELSE w.frag
           H1 == [w.hdl EXCEPT ![f] = <<>>]
           H2 == [w.dft EXCEPT ![f] = <<>>]
           K == IF f = "v6" /\ w.mask THEN {"fw", "frag"} ELSE {"fw"}
<1>0. ~(f \notin w.active \/ Len(w.hdl[f]) > IPACM_MAX_FIREWALL_ENTRIES)
  <2>1. Len(w.hdl[f]) <= IPACM_MAX_FIREWALL_ENTRIES
    BY DEF Good, Held
  <2>2. Len(w.hdl[f]) \in Nat /\ IPACM_MAX_FIREWALL_ENTRIES \in Nat
    BY FirewallAssumption DEF WanSet
  <2> QED BY <2>1, <2>2
<1>1. v = [x EXCEPT !.hdl[f] = <<>>, !.dft[f] = <<>>, !.frag = IF f = "v6" /\ w.mask THEN <<>> ELSE @]
  <2>1. v = FirewallDeleted(w, f)
    BY <1>0 DEF del_dft_firewall_rules
  <2> QED BY <2>1 DEF FirewallDeleted
<1> HIDE DEF v
<1>2. x = [w EXCEPT !.hw = [w.hw EXCEPT ![f] = t]] /\ x \in WanSet /\ t \in Tables
  <2> HIDE DEF D
  <2>1. LET tt == Without(w.hw[f], ToSet(D)) IN
           /\ DeleteFilteringHdls(w, f, D) = [w EXCEPT !.hw = [w.hw EXCEPT ![f] = tt]]
           /\ [w EXCEPT !.hw = [w.hw EXCEPT ![f] = tt]] \in WanSet
           /\ tt \in Tables
    BY DeleteFields
  <2> QED BY <2>1
<1> HIDE DEF x, t
<1>3. /\ w.hw \in [F -> Tables] /\ w.hdl \in [F -> Seq(Nat)] /\ w.dft \in [F -> Seq(Nat)] /\ w.frag \in Seq(Nat)
      /\ w.mask \in BOOLEAN
  BY DEF WanSet
<1>4. x.hdl = w.hdl /\ x.dft = w.dft /\ x.frag = w.frag /\ x.hw = [w.hw EXCEPT ![f] = t] /\ x.from = w.from /\ x.lost = w.lost
  BY <1>2 DEF WanSet
<1>5. v = [x EXCEPT !.hdl = H1, !.dft = H2, !.frag = fr]
  BY <1>1, <1>2, <1>4 DEF WanSet
<1>6. /\ H1 \in [F -> Seq(Nat)] /\ H2 \in [F -> Seq(Nat)] /\ fr \in Seq(Nat) /\ H1[f] = <<>> /\ H2[f] = <<>>
      /\ \A g \in F : g # f => H1[g] = w.hdl[g] /\ H2[g] = w.dft[g]
  BY <1>3
<1> HIDE DEF H1, H2, fr
<1>7. v \in WanSet
  BY <1>2, <1>5, <1>6 DEF WanSet
<1>8. v.hdl = H1 /\ v.dft = H2 /\ v.frag = fr /\ v.hw = [w.hw EXCEPT ![f] = t] /\ v.from = w.from /\ v.lost = w.lost
  BY <1>2, <1>4, <1>5 DEF WanSet
<1>9. FwOnly(w, v)
  <2>1. FwOnly(w, x)
    BY <1>2 DEF FwOnly, WanSet
  <2>2. FwOnly(x, v)
    BY <1>2, <1>5 DEF FwOnly, WanSet
  <2> QED BY <2>1, <2>2 DEF FwOnly
<1>10. OthersSame(w, v, f)
  <2> SUFFICES ASSUME NEW g \in F, g # f PROVE SameFor(w, v, g)
    BY DEF OthersSame
  <2>1. v.hw[g] = w.hw[g] /\ v.lost[g] = w.lost[g] /\ v.from[g] = w.from[g] /\ v.hdl[g] = w.hdl[g] /\ v.dft[g] = w.dft[g]
    BY <1>3, <1>6, <1>8
  <2>2. g = "v6" => v.frag = w.frag
    BY <1>8 DEF fr
  <2> QED BY <1>9, <2>1, <2>2, FwOnlySame DEF SameFor, FwOnly
<1>11. PICK q \in Parts : Held(w, f, q) /\ Filled(w, f, q)
  BY DEF Good
<1>12. ToSet(D) = DropHdls(q, K)
  <2>1. ToSet(w.hdl[f] \o w.dft[f]) = Hdls(q.fw) /\ (f = "v6" => ToSet(w.frag) = Hdls(q.frag))
    BY <1>11, HeldHdls
  <2>2. w.hdl[f] \o w.dft[f] \in Seq(Nat) /\ fd \in Seq(Nat)
    BY <1>3, HdlSets DEF FragDeleted
  <2>3. ToSet(fd) = IF f = "v6" /\ w.mask THEN Hdls(q.frag) ELSE {}
    BY <2>1, HdlSets DEF FragDeleted
  <2> DEFINE y == w.hdl[f] \o w.dft[f]
  <2> HIDE DEF y, fd
  <2>4. ToSet(y \o fd) = ToSet(y) \cup ToSet(fd)
    BY <2>2, HdlSets DEF y
  <2>5. DropHdls(q, K) = Hdls(q.fw) \cup (IF f = "v6" /\ w.mask THEN Hdls(q.frag) ELSE {})
    BY DEF DropHdls
  <2> QED BY <2>1, <2>3, <2>4, <2>5 DEF y
<1> DEFINE r == Drop(q, K)
<1> HIDE DEF D
<1>13. Pipe(t, w.lost[f], r)
  <2>1. Pipe(w.hw[f], w.lost[f], q)
    BY <1>11 DEF Held
  <2> HIDE DEF K
  <2>2. Pipe(Without(w.hw[f], DropHdls(q, K)), w.lost[f], Drop(q, K))
    BY <2>1, PipeDropped
  <2> QED BY <2>2, <1>12 DEF t
<1>14. /\ r \in Parts /\ r.sw = q.sw /\ r.fl = q.fl /\ r.own = q.own /\ r.fw = <<>>
       /\ r.frag = IF f = "v6" /\ w.mask THEN <<>> ELSE q.frag
  BY <1>13 DEF Drop, Pipe
<1> HIDE DEF r
<1>15. v.hw[f] = t /\ v.lost[f] = w.lost[f] /\ v.hdl[f] = <<>> /\ v.dft[f] = <<>>
  BY <1>3, <1>6, <1>8
<1>16. Held(v, f, r)
  <2>1. v.swh[f] = HdlSeq(r.sw) /\ v.fl[f] = HdlSeq(r.fl) /\ v.hdl[f] \o v.dft[f] = HdlSeq(r.fw)
    BY <1>9, <1>11, <1>14, <1>15, EmptyTable DEF Held, FwOnly
  <2>2. IF f = "v6" THEN v.own = HdlSeq(r.own) /\ v.frag = HdlSeq(r.frag) ELSE r.own = <<>> /\ r.frag = <<>>
    BY <1>8, <1>9, <1>11, <1>14, EmptyTable DEF Held, FwOnly, fr
  <2>3. Len(v.hdl[f]) <= IPACM_MAX_FIREWALL_ENTRIES
    BY <1>15, NoHandles
  <2> QED BY <1>13, <1>15, <2>1, <2>2, <2>3 DEF Held
<1>17. Ready(v, f) <=> Ready(w, f)
  BY <1>9, FwOnlySame
<1>18. Filled(v, f, r)
  BY <1>9, <1>11, <1>14, <1>17 DEF Filled, FwOnly
<1>19. Clear(v, f)
  BY <1>14, <1>16, <1>18 DEF Clear
<1> QED BY <1>7, <1>8, <1>9, <1>10, <1>19 DEF v

(***************************************************************************)
(* Routes, changes of the file and of the mode, on a pipe.                 *)
(***************************************************************************)
LEMMA Looser ==
    ASSUME NEW w, NEW f, NEW b, Good(w, f, b)
    PROVE  Good(w, f, FALSE)
BY DEF Good

LEMMA ClearGood ==
    ASSUME NEW w, NEW f \in F, Good(w, f, FALSE), f \notin w.active
    PROVE  Clear(w, f)
BY DEF Good, Clear, Filled

\* The mode and the routes do not change what a family has, only what it should have.
LooseFor(w, v, f) ==
    /\ v.hw[f] = w.hw[f] /\ v.lost[f] = w.lost[f] /\ v.swh[f] = w.swh[f] /\ v.fl[f] = w.fl[f]
    /\ v.hdl[f] = w.hdl[f] /\ v.dft[f] = w.dft[f] /\ v.own = w.own /\ v.frag = w.frag
    /\ v.act = w.act /\ (Ready(v, f) <=> Ready(w, f))

LEMMA LooseHeld ==
    ASSUME NEW w, NEW v, NEW f \in F, LooseFor(w, v, f), NEW q, Held(w, f, q)
    PROVE  Held(v, f, q)
BY DEF LooseFor, Held

LEMMA LooseGood ==
    ASSUME NEW w, NEW v, NEW f \in F, LooseFor(w, v, f), Good(w, f, FALSE), f \in w.active => f \in v.active
    PROVE  Good(v, f, FALSE)
<1>1. PICK q \in Parts : Held(w, f, q) /\ Filled(w, f, q)
  BY DEF Good
<1>2. Held(v, f, q)
  BY <1>1, LooseHeld
<1>3. Filled(v, f, q)
  BY <1>1 DEF Filled, LooseFor
<1> QED BY <1>1, <1>2, <1>3 DEF Good

LEMMA LooseClear ==
    ASSUME NEW w, NEW v, NEW f \in F, LooseFor(w, v, f), Clear(w, f)
    PROVE  Clear(v, f) /\ Good(v, f, FALSE)
<1>1. PICK q \in Parts : Held(w, f, q) /\ Filled(w, f, q) /\ q.fw = <<>>
  BY DEF Clear
<1>2. Held(v, f, q)
  BY <1>1, LooseHeld
<1>3. Filled(v, f, q)
  BY <1>1 DEF Filled, LooseFor
<1> QED BY <1>1, <1>2, <1>3 DEF Good, Clear

\* The firewall of one family is made again.
LEMMA Reload ==
    ASSUME FilesFit, NEW w \in WanSet, NEW f \in F, env.file \in DOMAIN Files, f \in w.active => Ready(w, f), Good(w, f, FALSE)
    PROVE  LET v == ReloadDft(w, f) IN
           /\ v \in WanSet /\ FwOnly(w, v) /\ (\A g \in F : g # f => SameFor(w, v, g))
           /\ (IF f \in w.active THEN Good(v, f, TRUE) /\ v.from[f] = env.file ELSE Good(v, f, FALSE))
<1>1. CASE f \in w.active
  <2> DEFINE x == del_dft_firewall_rules(w, f)
             v == config_dft_firewall_rules(x, f)
  <2>1. x \in WanSet /\ FwOnly(w, x) /\ OthersSame(w, x, f) /\ Clear(x, f)
    BY <1>1, Deleted
  <2> HIDE DEF x
  <2>2. Ready(x, f) /\ f \in x.active
    BY <1>1, <2>1, FwOnlySame DEF FwOnly
  <2>3. v \in WanSet /\ FwOnly(x, v) /\ OthersSame(x, v, f) /\ Good(v, f, TRUE) /\ v.from = [x.from EXCEPT ![f] = env.file]
    BY <2>1, <2>2, Config
  <2>4. ReloadDft(w, f) = v
    BY <1>1 DEF ReloadDft, x
  <2> HIDE DEF v
  <2>5. FwOnly(w, v)
    BY <2>1, <2>3 DEF FwOnly
  <2>6. \A g \in F : g # f => SameFor(w, v, g)
    BY <2>1, <2>3 DEF OthersSame, SameFor
  <2>7. v.from[f] = env.file
    <3>1. x.from \in [F -> DOMAIN Files]
      BY <2>1 DEF WanSet
    <3> QED BY <2>3, <3>1
  <2> QED BY <1>1, <2>3, <2>4, <2>5, <2>6, <2>7
<1>2. CASE f \notin w.active
  <2>1. ReloadDft(w, f) = w
    BY <1>2 DEF ReloadDft
  <2>2. FwOnly(w, w) /\ \A g \in F : SameFor(w, w, g)
    BY DEF FwOnly, SameFor
  <2> QED BY <1>2, <2>1, <2>2
<1> QED BY <1>1, <1>2

LEMMA ReloadBoth ==
    ASSUME FilesFit, NEW w \in WanSet, env.file \in DOMAIN Files, \A f \in w.active : Ready(w, f),
           Good(w, "v4", FALSE), Good(w, "v6", FALSE)
    PROVE  LET v == ReloadPipe(w) IN
           /\ v \in WanSet /\ FwOnly(w, v) /\ Good(v, "v4", "v4" \in v.active) /\ Good(v, "v6", "v6" \in v.active)
           /\ \A f \in v.active : v.from[f] = env.file
<1> DEFINE x == ReloadDft(w, "v4")
           v == ReloadDft(x, "v6")
<1>0. "v4" \in F /\ "v6" \in F /\ F = {"v4", "v6"} /\ w.active \subseteq F
  BY DEF F, WanSet
<1>1. /\ x \in WanSet /\ FwOnly(w, x) /\ SameFor(w, x, "v6")
      /\ (IF "v4" \in w.active THEN Good(x, "v4", TRUE) /\ x.from["v4"] = env.file ELSE Good(x, "v4", FALSE))
  BY <1>0, Reload
<1>2. ReloadPipe(w) = v
  BY DEF ReloadPipe
<1> HIDE DEF x
<1>3. Good(x, "v6", FALSE) /\ ("v6" \in x.active => Ready(x, "v6")) /\ x.active = w.active
  <2>1. Good(x, "v6", FALSE)
    BY <1>0, <1>1, FrameGood
  <2> QED BY <1>0, <1>1, <2>1, FwOnlySame DEF FwOnly
<1>4. /\ v \in WanSet /\ FwOnly(x, v) /\ SameFor(x, v, "v4")
      /\ (IF "v6" \in x.active THEN Good(v, "v6", TRUE) /\ v.from["v6"] = env.file ELSE Good(v, "v6", FALSE))
  BY <1>0, <1>1, <1>3, Reload
<1> HIDE DEF v
<1>5. Good(v, "v4", "v4" \in v.active) /\ ("v4" \in v.active => v.from["v4"] = env.file)
  <2>1. v.active = w.active /\ v.from["v4"] = x.from["v4"]
    BY <1>1, <1>4 DEF FwOnly, SameFor
  <2>2. CASE "v4" \in w.active
    <3>1. Good(v, "v4", TRUE)
      BY <1>0, <1>1, <1>4, <2>2, FrameGood
    <3>2. Good(v, "v4", "v4" \in v.active)
      BY <2>1, <2>2, <3>1 DEF Good
    <3> QED BY <1>1, <2>1, <2>2, <3>2
  <2>3. CASE "v4" \notin w.active
    <3>1. Good(v, "v4", FALSE)
      BY <1>0, <1>1, <1>4, <2>3, FrameGood
    <3> QED BY <2>1, <2>3, <3>1 DEF Good
  <2> QED BY <2>2, <2>3
<1>6. Good(v, "v6", "v6" \in v.active) /\ ("v6" \in v.active => v.from["v6"] = env.file)
  <2>1. v.active = x.active
    BY <1>4 DEF FwOnly
  <2> QED BY <1>4, <2>1 DEF Good
<1>7. FwOnly(w, v) /\ v.active \subseteq F
  BY <1>0, <1>1, <1>4 DEF FwOnly
<1>8. \A f \in v.active : v.from[f] = env.file
  BY <1>0, <1>5, <1>6, <1>7
<1> QED BY <1>2, <1>4, <1>5, <1>6, <1>7, <1>8 DEF v

\* A route that goes takes the firewall of its family with it.
RouteOnly(w, v) ==
    /\ v.up = w.up /\ v.v4 = w.v4 /\ v.n6 = w.n6 /\ v.fl = w.fl /\ v.own = w.own
    /\ v.act = w.act /\ v.swh = w.swh /\ v.if_mode = w.if_mode /\ v.bridge = w.bridge /\ v.flt = w.flt

LEMMA RouteGoes ==
    ASSUME NEW w \in WanSet, NEW f \in F, Good(w, f, FALSE)
    PROVE  LET v == DelRoutes(w, f) IN
           /\ v \in WanSet /\ RouteOnly(w, v) /\ (\A g \in F : g # f => SameFor(w, v, g))
           /\ v.active = w.active \ {f} /\ Good(v, f, FALSE) /\ v.from = w.from
<1>1. CASE f \in w.active
  <2> DEFINE x == del_dft_firewall_rules(w, f)
             v == RouteGone(x, f)
  <2>1. x \in WanSet /\ FwOnly(w, x) /\ OthersSame(w, x, f) /\ Clear(x, f) /\ x.from = w.from
    BY <1>1, Deleted
  <2>2. DelRoutes(w, f) = v
    BY <1>1 DEF DelRoutes
  <2> HIDE DEF x
  <2>3. x.active \ {f} \in SUBSET F
    BY <2>1 DEF WanSet
  <2>4. v \in WanSet /\ v.active = x.active \ {f} /\ v.from = x.from
    BY <2>1, <2>3 DEF RouteGone, WanSet
  <2>5. RouteOnly(x, v) /\ \A g \in F : LooseFor(x, v, g)
    BY <2>1 DEF RouteGone, WanSet, RouteOnly, LooseFor, Ready
  <2>6. \A g \in F : g # f => SameFor(x, v, g)
    BY <2>1, <2>4, <2>5 DEF RouteOnly, LooseFor, SameFor, PassOn
  <2> HIDE DEF v
  <2>7. \A g \in F : g # f => SameFor(w, v, g)
    BY <2>1, <2>6 DEF OthersSame, SameFor
  <2>8. Good(v, f, FALSE)
    BY <2>1, <2>5, LooseClear
  <2>9. RouteOnly(w, v) /\ v.active = w.active \ {f}
    BY <2>1, <2>4, <2>5 DEF RouteOnly, FwOnly
  <2> QED BY <2>1, <2>2, <2>4, <2>7, <2>8, <2>9
<1>2. CASE f \notin w.active
  <2>1. DelRoutes(w, f) = w /\ w.active = w.active \ {f}
    BY <1>2 DEF DelRoutes
  <2>2. RouteOnly(w, w) /\ \A g \in F : SameFor(w, w, g)
    BY DEF RouteOnly, SameFor
  <2> QED BY <1>2, <2>1, <2>2
<1> QED BY <1>1, <1>2

(***************************************************************************)
(* The interface goes down.                                                *)
(***************************************************************************)
\* Everything in the table of a family was left behind.
AllLost(hw, lost) ==
    /\ hw \in [F -> Tables] /\ lost \in [F -> SUBSET Nat]
    /\ \A f \in F : Distinct(hw[f]) /\ lost[f] = Hdls(hw[f])

LEMMA NewWanGood ==
    ASSUME NEW m \in {"ROUTER", "BRIDGE"}, NEW bridge \in BOOLEAN, NEW flt \in [F -> Seq(Rules)], NEW hw, NEW lost,
           AllLost(hw, lost)
    PROVE  LET v == NewWan(m, bridge, flt, hw, lost) IN
           Good(v, "v4", FALSE) /\ Good(v, "v6", FALSE)
<1> DEFINE v == NewWan(m, bridge, flt, hw, lost)
<1>0. "v4" \in F /\ "v6" \in F /\ None["v4"] = <<>> /\ None["v6"] = <<>>
  BY DEF F, None
<1>2. /\ v.hw = hw /\ v.lost = lost /\ v.swh = None /\ v.fl = None /\ v.hdl = None /\ v.dft = None /\ v.own = <<>>
      /\ v.frag = <<>> /\ v.act = FALSE /\ v.v4 = FALSE /\ v.n6 = 0 /\ v.active = {}
  BY DEF NewWan
<1> HIDE DEF v
<1>3. ASSUME NEW f \in F PROVE Good(v, f, FALSE)
  <2>1. Pipe(hw[f], lost[f], EmptyParts)
    BY PipeEmpty DEF AllLost
  <2>2. /\ EmptyParts \in Parts /\ EmptyParts.sw = <<>> /\ EmptyParts.fl = <<>> /\ EmptyParts.own = <<>>
        /\ EmptyParts.frag = <<>> /\ EmptyParts.fw = <<>>
    BY EmptyTable DEF EmptyParts
  <2>3. None[f] = <<>> /\ None[f] \o None[f] = <<>>
    BY DEF None
  <2>4. Held(v, f, EmptyParts)
    BY <1>2, <2>1, <2>2, <2>3, EmptyTable, NoHandles DEF Held
  <2>5. ~Ready(v, f)
    BY <1>2 DEF Ready
  <2>6. Filled(v, f, EmptyParts)
    BY <1>2, <2>2, <2>5, EmptyTable DEF Filled
  <2> QED BY <2>2, <2>4, <2>6 DEF Good
<1> QED BY <1>0, <1>3 DEF v

LEMMA NewWanType ==
    ASSUME NEW m \in {"ROUTER", "BRIDGE"}, NEW bridge \in BOOLEAN, NEW flt \in [F -> Seq(Rules)],
           NEW hw \in [F -> Tables], NEW lost \in [F -> SUBSET Nat]
    PROVE  NewWan(m, bridge, flt, hw, lost) \in WanSet
<1>1. None \in [F -> Seq(Nat)]
  BY DEF None
<1>2. [f \in F |-> "none"] \in [F -> DOMAIN Files]
  BY FirewallAssumption
<1> QED BY <1>1, <1>2 DEF NewWan, WanSet

\* What a family without routes and software routing leaves behind.
LEMMA FamilyDown ==
    ASSUME NEW w \in WanSet, NEW f \in F, Good(w, f, FALSE), ~w.act, f \notin w.active
    PROVE  LET D == ToSet(w.fl[f]) \cup (IF f = "v6" THEN ToSet(w.own) ELSE {})
               L == w.lost[f] \cup (IF f = "v6" THEN ToSet(w.frag) ELSE {}) IN
           /\ Without(w.hw[f], D) \in Tables /\ Distinct(Without(w.hw[f], D)) /\ Hdls(Without(w.hw[f], D)) = L
           /\ ~Ready(w, f) => D = {}
<1> DEFINE D == ToSet(w.fl[f]) \cup (IF f = "v6" THEN ToSet(w.own) ELSE {})
           L == w.lost[f] \cup (IF f = "v6" THEN ToSet(w.frag) ELSE {})
<1>1. PICK q \in Parts : Held(w, f, q) /\ Filled(w, f, q)
  BY DEF Good
<1>2. /\ ToSet(w.fl[f]) = Hdls(q.fl) /\ (f = "v6" => ToSet(w.own) = Hdls(q.own) /\ ToSet(w.frag) = Hdls(q.frag))
      /\ (f # "v6" => q.own = <<>> /\ q.frag = <<>>)
  BY <1>1, HeldHdls, ZenonT(60) DEF Held
<1>3. q.fw = <<>> /\ q.sw = <<>>
  <2>1. RulesIn(q.sw) = <<>> /\ q.fw = <<>>
    BY <1>1 DEF Filled
  <2> QED BY <2>1, PartTypes, EmptyTable
<1>4. Hdls(<<>>) = {}
  BY TablesClosed
<1>5. D = Hdls(q.fl) \cup Hdls(q.own) /\ L = w.lost[f] \cup Hdls(q.frag)
  BY <1>2, <1>4
<1> HIDE DEF D, L
<1>6. Pipe(w.hw[f], w.lost[f], q)
  BY <1>1 DEF Held
<1>7. /\ Hdls(w.hw[f]) = w.lost[f] \cup PartHdls(q) /\ w.lost[f] \cap PartHdls(q) = {}
      /\ Hdls(q.fl) \cap (Hdls(q.own) \cup Hdls(q.frag) \cup Hdls(q.fw)) = {}
      /\ Hdls(q.own) \cap (Hdls(q.frag) \cup Hdls(q.fw)) = {}
  BY <1>6, PartsApart
<1>8. Hdls(w.hw[f]) \ D = L
  BY <1>3, <1>4, <1>5, <1>7 DEF PartHdls
<1>9. w.hw[f] \in Tables /\ Distinct(w.hw[f])
  BY <1>6 DEF Pipe
<1>10. Without(w.hw[f], D) \in Tables /\ Distinct(Without(w.hw[f], D)) /\ Hdls(Without(w.hw[f], D)) = Hdls(w.hw[f]) \ D
  BY <1>9, WithoutIsTable, WithoutDistinct, WithoutHdls
<1>11. ASSUME ~Ready(w, f) PROVE D = {}
  <2>1. RulesIn(q.fl) = <<>> /\ RulesIn(q.own) = <<>>
    BY <1>1, <1>11 DEF Filled
  <2>2. q.fl = <<>> /\ q.own = <<>>
    BY <2>1, PartTypes, EmptyTable
  <2> QED BY <1>4, <1>5, <2>2
<1> QED BY <1>8, <1>10, <1>11 DEF D, L

\* An interface without an address has at most rules of software routing.
LEMMA FamilyUnused ==
    ASSUME NEW w \in WanSet, NEW f \in F, Good(w, f, FALSE), ~Ready(w, f), f \notin w.active
    PROVE  Distinct(w.hw[f]) /\ Hdls(w.hw[f]) = w.lost[f] \cup ToSet(w.swh[f])
<1>1. PICK q \in Parts : /\ Held(w, f, q) /\ Filled(w, f, q)
                         /\ q.fl = <<>> /\ q.own = <<>> /\ q.frag = <<>> /\ q.fw = <<>>
  BY Unready
<1>2. Hdls(<<>>) = {} /\ ToSet(w.swh[f]) = Hdls(q.sw)
  BY <1>1, TablesClosed, HeldHdls
<1>3. Pipe(w.hw[f], w.lost[f], q)
  BY <1>1 DEF Held
<1>4. Hdls(w.hw[f]) = w.lost[f] \cup PartHdls(q)
  BY <1>3, PartsApart
<1>5. Distinct(w.hw[f])
  BY <1>3 DEF Pipe
<1> QED BY <1>1, <1>2, <1>4, <1>5 DEF PartHdls

LEMMA DownUnused ==
    ASSUME NEW w \in WanSet, Good(w, "v4", FALSE), Good(w, "v6", FALSE), HasAddress(w) = {}, \A f \in w.active : Ready(w, f)
    PROVE  LET v == PipeDown(w) IN
           AllLost(v.hw, v.lost) /\ v.if_mode = w.if_mode /\ v.bridge = w.bridge /\ v.flt = w.flt
<1> DEFINE v == PipeDown(w)
           L == [f \in F |-> w.lost[f] \cup ToSet(w.swh[f])]
<1>0. "v4" \in F /\ "v6" \in F /\ F = {"v4", "v6"}
  BY DEF F
<1>1. v = [w EXCEPT !.lost = [f \in F |-> @[f] \cup ToSet(w.swh[f])]]
  BY DEF PipeDown
<1>1a. v = [w EXCEPT !.lost = L]
  BY <1>1 DEF WanSet
<1> HIDE DEF v, L
<1>2. v.hw = w.hw /\ v.lost = L /\ v.if_mode = w.if_mode /\ v.bridge = w.bridge /\ v.flt = w.flt
  BY <1>1a DEF WanSet
<1>3. ~w.v4 /\ ~(w.n6 > 0)
  BY <1>0 DEF HasAddress
<1>4. \A f \in F : ~Ready(w, f) /\ f \notin w.active
  BY <1>0, <1>3 DEF Ready
<1>5. w.hw \in [F -> Tables] /\ w.lost \in [F -> SUBSET Nat] /\ w.swh \in [F -> Seq(Nat)]
  BY DEF WanSet
<1>6. L \in [F -> SUBSET Nat]
  BY <1>5 DEF L, ToSet
<1>7. \A f \in F : Distinct(w.hw[f]) /\ L[f] = Hdls(w.hw[f])
  <2>1. \A f \in F : Good(w, f, FALSE)
    BY <1>0
  <2>2. \A f \in F : Distinct(w.hw[f]) /\ Hdls(w.hw[f]) = w.lost[f] \cup ToSet(w.swh[f])
    BY <1>4, <2>1, FamilyUnused
  <2> QED BY <2>2 DEF L
<1> QED BY <1>2, <1>5, <1>6, <1>7 DEF v, AllLost

LEMMA DownAddressed ==
    ASSUME NEW w \in WanSet, Good(w, "v4", FALSE), Good(w, "v6", FALSE), HasAddress(w) # {}
    PROVE  LET v == PipeDown(w) IN
           AllLost(v.hw, v.lost) /\ v.if_mode = w.if_mode /\ v.bridge = w.bridge /\ v.flt = w.flt
<1> DEFINE v == PipeDown(w)
           g4 == DelRoutes(w, "v4")
           gone == DelRoutes(g4, "v6")
           quiet == handle_software_routing_disable(gone)
           no4 == IF "v4" \in HasAddress(w) THEN DeleteFilteringHdls(quiet, "v4", quiet.fl.v4) ELSE quiet
           no6 == IF "v6" \in HasAddress(w) THEN DeleteFilteringHdls(no4, "v6", no4.fl.v6 \o no4.own) ELSE no4
<1>0. "v4" \in F /\ "v6" \in F /\ F = {"v4", "v6"}
  BY DEF F
<1>1. v = [no6 EXCEPT !.lost.v6 = @ \cup ToSet(no6.frag)]
  BY DEF PipeDown
<1>2. g4 \in WanSet /\ RouteOnly(w, g4) /\ SameFor(w, g4, "v6") /\ g4.active = w.active \ {"v4"} /\ Good(g4, "v4", FALSE)
  BY <1>0, RouteGoes
<1> HIDE DEF v, g4
<1>3. Good(g4, "v6", FALSE)
  BY <1>0, <1>2, FrameGood
<1>4. gone \in WanSet /\ RouteOnly(g4, gone) /\ SameFor(g4, gone, "v4") /\ gone.active = g4.active \ {"v6"} /\ Good(gone, "v6", FALSE)
  BY <1>0, <1>2, <1>3, RouteGoes
<1> HIDE DEF gone
<1>5. Good(gone, "v4", FALSE)
  BY <1>0, <1>2, <1>4, FrameGood
<1>6. quiet \in WanSet /\ quiet.act = FALSE /\ SwOnly(gone, quiet) /\ Good(quiet, "v4", FALSE) /\ Good(quiet, "v6", FALSE)
  BY <1>4, <1>5, SwDisable
<1> HIDE DEF quiet
<1>7. /\ quiet.v4 = w.v4 /\ quiet.n6 = w.n6 /\ quiet.if_mode = w.if_mode /\ quiet.bridge = w.bridge /\ quiet.flt = w.flt
      /\ "v4" \notin quiet.active /\ "v6" \notin quiet.active
  <2>1. /\ quiet.v4 = gone.v4 /\ quiet.n6 = gone.n6 /\ quiet.if_mode = gone.if_mode /\ quiet.bridge = gone.bridge
        /\ quiet.flt = gone.flt /\ quiet.active = gone.active
    BY <1>4, <1>6, SwOnlyFields
  <2> QED BY <1>2, <1>4, <2>1 DEF RouteOnly
<1> DEFINE D4 == ToSet(quiet.fl["v4"])
           D6 == ToSet(quiet.fl["v6"]) \cup ToSet(quiet.own)
           t4 == Without(quiet.hw["v4"], D4)
           t6 == Without(quiet.hw["v6"], D6)
           L6 == quiet.lost["v6"] \cup ToSet(quiet.frag)
<1>8. t4 \in Tables /\ Distinct(t4) /\ Hdls(t4) = quiet.lost["v4"] /\ (~Ready(quiet, "v4") => D4 = {})
  <2>1. LET D == ToSet(quiet.fl["v4"]) \cup {}
            L == quiet.lost["v4"] \cup {} IN
        /\ Without(quiet.hw["v4"], D) \in Tables /\ Distinct(Without(quiet.hw["v4"], D)) /\ Hdls(Without(quiet.hw["v4"], D)) = L
        /\ ~Ready(quiet, "v4") => D = {}
    BY <1>0, <1>6, <1>7, FamilyDown
  <2>2. ToSet(quiet.fl["v4"]) \cup {} = D4 /\ quiet.lost["v4"] \cup {} = quiet.lost["v4"]
    OBVIOUS
  <2> HIDE DEF D4
  <2> QED BY <2>1, <2>2
<1>9. t6 \in Tables /\ Distinct(t6) /\ Hdls(t6) = L6 /\ (~Ready(quiet, "v6") => D6 = {})
  BY <1>0, <1>6, <1>7, FamilyDown
<1>10. quiet.hw \in [F -> Tables] /\ quiet.hw["v4"] \in Tables /\ quiet.hw["v6"] \in Tables /\ quiet.fl \in [F -> Seq(Nat)] /\ quiet.own \in Seq(Nat)
  BY <1>0, <1>6 DEF WanSet
<1>11. no4 = [quiet EXCEPT !.hw = [quiet.hw EXCEPT !["v4"] = t4]] /\ no4 \in WanSet
  <2>1. CASE "v4" \in HasAddress(w)
    <3>1. LET t == Without(quiet.hw["v4"], ToSet(quiet.fl["v4"])) IN
           /\ DeleteFilteringHdls(quiet, "v4", quiet.fl["v4"]) = [quiet EXCEPT !.hw = [quiet.hw EXCEPT !["v4"] = t]]
           /\ [quiet EXCEPT !.hw = [quiet.hw EXCEPT !["v4"] = t]] \in WanSet
      BY <1>0, <1>6, DeleteFields
    <3> QED BY <2>1, <3>1
  <2>2. CASE "v4" \notin HasAddress(w)
    <3>1. ~Ready(quiet, "v4")
      BY <1>0, <1>7, <2>2 DEF Ready, HasAddress
    <3>2. t4 = quiet.hw["v4"]
      <4>1. D4 = {}
        BY <1>8, <3>1
      <4> HIDE DEF D4
      <4> QED BY <1>10, <4>1, WithoutOthers
    <3> HIDE DEF t4
    <3>3. quiet = [quiet EXCEPT !.hw = [quiet.hw EXCEPT !["v4"] = t4]]
      BY <1>6, <1>10, <3>2 DEF WanSet
    <3> QED BY <2>2, <3>3, <1>6
  <2> QED BY <2>1, <2>2
<1> HIDE DEF no4, t4
<1>12. /\ no4.fl = quiet.fl /\ no4.own = quiet.own /\ no4.hw["v6"] = quiet.hw["v6"] /\ no4.hw["v4"] = t4 /\ no4.lost = quiet.lost
       /\ no4.frag = quiet.frag /\ no4.if_mode = quiet.if_mode /\ no4.bridge = quiet.bridge /\ no4.flt = quiet.flt
       /\ no4.hw \in [F -> Tables]
  <2>1. no4.hw = [quiet.hw EXCEPT !["v4"] = t4]
    BY <1>6, <1>11 DEF WanSet
  <2>2. /\ no4.fl = quiet.fl /\ no4.own = quiet.own /\ no4.lost = quiet.lost
        /\ no4.frag = quiet.frag /\ no4.if_mode = quiet.if_mode /\ no4.bridge = quiet.bridge /\ no4.flt = quiet.flt
    BY <1>6, <1>11 DEF WanSet
  <2> QED BY <1>0, <1>8, <1>10, <2>1, <2>2
<1>13. no6 = [no4 EXCEPT !.hw = [no4.hw EXCEPT !["v6"] = t6]] /\ no6 \in WanSet
  <2>1. CASE "v6" \in HasAddress(w)
    <3> DEFINE h == no4.fl["v6"] \o no4.own
    <3>1. LET t == Without(no4.hw["v6"], ToSet(h)) IN
           /\ DeleteFilteringHdls(no4, "v6", h) = [no4 EXCEPT !.hw = [no4.hw EXCEPT !["v6"] = t]]
           /\ [no4 EXCEPT !.hw = [no4.hw EXCEPT !["v6"] = t]] \in WanSet
      <4> HIDE DEF h
      <4> QED BY <1>0, <1>11, DeleteFields
    <3>2. ToSet(h) = D6
      <4>1. quiet.fl["v6"] \in Seq(Nat) /\ quiet.own \in Seq(Nat) /\ h = quiet.fl["v6"] \o quiet.own
        BY <1>0, <1>10, <1>12
      <4> QED BY <4>1, HdlSets
    <3> HIDE DEF D6
    <3> QED BY <1>12, <2>1, <3>1, <3>2
  <2>2. CASE "v6" \notin HasAddress(w)
    <3>1. ~Ready(quiet, "v6")
      BY <1>0, <1>7, <2>2 DEF Ready, HasAddress
    <3>2. t6 = no4.hw["v6"]
      <4>1. D6 = {}
        BY <1>9, <3>1
      <4> HIDE DEF D6
      <4> QED BY <1>10, <1>12, <4>1, WithoutOthers
    <3> HIDE DEF t6
    <3>3. no4 = [no4 EXCEPT !.hw = [no4.hw EXCEPT !["v6"] = t6]]
      <4>1. [no4.hw EXCEPT !["v6"] = t6] = no4.hw /\ no4 \in WanSet
        BY <1>11, <1>12, <3>2
      <4> QED BY <4>1 DEF WanSet
    <3> QED BY <2>2, <3>3, <1>11
  <2> QED BY <2>1, <2>2
<1> HIDE DEF no6, t6
<1>14. /\ no6.frag = quiet.frag /\ no6.lost = quiet.lost /\ no6.hw["v4"] = t4 /\ no6.hw["v6"] = t6
       /\ no6.if_mode = w.if_mode /\ no6.bridge = w.bridge /\ no6.flt = w.flt /\ no6.hw \in [F -> Tables]
  <2>1. no6.hw = [no4.hw EXCEPT !["v6"] = t6]
    BY <1>11, <1>13 DEF WanSet
  <2>2. no6.lost = no4.lost /\ no6.frag = no4.frag /\ no6.if_mode = no4.if_mode /\ no6.bridge = no4.bridge /\ no6.flt = no4.flt
    BY <1>11, <1>13 DEF WanSet
  <2> QED BY <1>0, <1>7, <1>9, <1>12, <2>1, <2>2
<1> DEFINE L == [no6.lost EXCEPT !["v6"] = no6.lost["v6"] \cup ToSet(no6.frag)]
<1>15. v = [no6 EXCEPT !.lost = L]
  BY <1>1, <1>13 DEF WanSet
<1>16. no6.lost \in [F -> SUBSET Nat] /\ no6.frag \in Seq(Nat)
  BY <1>13 DEF WanSet
<1>17. L \in [F -> SUBSET Nat] /\ L["v4"] = quiet.lost["v4"] /\ L["v6"] = L6
  <2>1. ToSet(no6.frag) \subseteq Nat
    BY <1>16 DEF ToSet
  <2> QED BY <1>0, <1>14, <1>16, <2>1
<1> HIDE DEF L, L6
<1>18. v.hw = no6.hw /\ v.lost = L /\ v.if_mode = no6.if_mode /\ v.bridge = no6.bridge /\ v.flt = no6.flt
  BY <1>13, <1>15 DEF WanSet
<1>19. AllLost(v.hw, v.lost)
  BY <1>0, <1>8, <1>9, <1>14, <1>17, <1>18 DEF AllLost
<1> QED BY <1>14, <1>18, <1>19 DEF v

\* Whatever a pipe had, the next interface starts with a table of rules left behind.
LEMMA PipeGoes ==
    ASSUME NEW w \in WanSet, Good(w, "v4", FALSE), Good(w, "v6", FALSE), \A f \in w.active : Ready(w, f)
    PROVE  LET v == PipeDown(w)
               n == NewWan(v.if_mode, v.bridge, v.flt, v.hw, v.lost) IN
           n \in WanSet /\ Good(n, "v4", FALSE) /\ Good(n, "v6", FALSE)
<1> DEFINE v == PipeDown(w)
<1>1. AllLost(v.hw, v.lost) /\ v.if_mode = w.if_mode /\ v.bridge = w.bridge /\ v.flt = w.flt
  <2>1. CASE HasAddress(w) = {}
    BY <2>1, DownUnused
  <2>2. CASE HasAddress(w) # {}
    BY <2>2, DownAddressed
  <2> QED BY <2>1, <2>2
<1> HIDE DEF v
<1>2. v.if_mode \in {"ROUTER", "BRIDGE"} /\ v.bridge \in BOOLEAN /\ v.flt \in [F -> Seq(Rules)]
  BY <1>1 DEF WanSet
<1>3. v.hw \in [F -> Tables] /\ v.lost \in [F -> SUBSET Nat]
  BY <1>1 DEF AllLost
<1>4. NewWan(v.if_mode, v.bridge, v.flt, v.hw, v.lost) \in WanSet
  BY <1>2, <1>3, NewWanType
<1> QED BY <1>1, <1>2, <1>4, NewWanGood DEF v

(***************************************************************************)
(* The modem.                                                              *)
(***************************************************************************)
LEMMA InModemTable ==
    ASSUME NEW R \in Seq(Rules)
    PROVE  InModem(R) \in Tables /\ RulesIn(InModem(R)) = R
<1>1. Len(R) \in Nat /\ DOMAIN R = 1..Len(R) /\ \A i \in 1..Len(R) : R[i] \in Rules
  OBVIOUS
<1> DEFINE u == InModem(R)
<1>2. u = [i \in 1..Len(R) |-> [hdl |-> 0, rule |-> R[i]]]
  BY <1>1 DEF InModem, Entered
<1>3. u \in [1..Len(R) -> Entries] /\ \A i \in 1..Len(R) : u[i].rule = R[i]
  BY <1>1, <1>2 DEF Entries
<1> HIDE DEF u
<1>4. u \in Seq(Entries) /\ Len(u) = Len(R)
  BY <1>1, <1>3
<1>5. RulesIn(u) = R
  BY <1>1, <1>3, <1>4 DEF RulesIn
<1> QED BY <1>4, <1>5 DEF u, Tables

\* What sending rules to the modem leaves alone.
HwOnly(w, v) ==
    /\ v.up = w.up /\ v.v4 = w.v4 /\ v.n6 = w.n6 /\ v.active = w.active /\ v.gw = w.gw /\ v.bridge = w.bridge
    /\ v.if_mode = w.if_mode /\ v.flt = w.flt /\ v.lost = w.lost /\ v.from = w.from

LEMMA HwOnlyInv ==
    ASSUME NEW w, NEW v, NEW ok \in SUBSET F, HwOnly(w, v), ModemInv(w, ok)
    PROVE  ModemInv(v, ok) /\ \A f \in F : Ready(v, f) <=> Ready(w, f)
<1>1. \A f \in F : (Ready(v, f) <=> Ready(w, f)) /\ Slots(v, f) = Slots(w, f)
  BY DEF HwOnly, Ready, Slots
<1>2. \A f \in F : ModemFw(v, f) = ModemFw(w, f)
  BY DEF HwOnly, ModemFw, ReadBy, config_dft_firewall_rules_ex, ModemDefault4
<1> QED BY <1>1, <1>2 DEF ModemInv, HwOnly

LEMMA Sent ==
    ASSUME NEW w \in WanSet, NEW tables \in [F -> Seq(Rules)]
    PROVE  LET v == AddWanDLFilteringRule(w, tables) IN
           /\ v \in WanSet /\ HwOnly(w, v) /\ v.act = w.act
           /\ FitsModem(tables) => \A f \in F : v.hw[f] = InModem(tables[f])
<1> DEFINE H == [f \in F |-> InModem(tables[f])]
           v == AddWanDLFilteringRule(w, tables)
<1>1. H \in [F -> Tables] /\ \A f \in F : H[f] = InModem(tables[f])
  BY InModemTable
<1>2. v = IF FitsModem(tables) THEN [w EXCEPT !.hw = H] ELSE w
  BY DEF AddWanDLFilteringRule, InModem
<1> HIDE DEF H, v
<1>3. CASE FitsModem(tables)
  <2>1. v = [w EXCEPT !.hw = H]
    BY <1>2, <1>3
  <2>2. v \in WanSet /\ HwOnly(w, v) /\ v.act = w.act /\ v.hw = H
    BY <1>1, <2>1 DEF WanSet, HwOnly
  <2> QED BY <1>1, <2>2 DEF v
<1>4. CASE ~FitsModem(tables)
  BY <1>2, <1>4 DEF HwOnly, v
<1> QED BY <1>3, <1>4

LEMMA Install ==
    ASSUME NEW w \in WanSet, NEW is \in BOOLEAN, env.sw \in BOOLEAN
    PROVE  LET v == install_wan_filtering_rule(w, is)
               sw == is \/ env.sw IN
           /\ v \in WanSet /\ HwOnly(w, v) /\ v.act = (w.act \/ sw)
           /\ sw /\ ~w.act => \A f \in F : v.hw[f] = InModem(<<Rule({}, "wan_dl")>>)
           /\ sw /\ w.act => v = w
           /\ ~sw /\ FitsModem(w.flt) => \A f \in F : v.hw[f] = InModem(w.flt[f])
<1> DEFINE v == install_wan_filtering_rule(w, is)
           sw == is \/ env.sw
           x == [w EXCEPT !.act = TRUE]
           tables == [f \in F |-> <<Rule({}, "wan_dl")>>]
<1>0. w.act \in BOOLEAN /\ w.flt \in [F -> Seq(Rules)]
  BY DEF WanSet
<1>1. CASE sw /\ w.act
  <2>1. v = w
    BY <1>1 DEF install_wan_filtering_rule
  <2> QED BY <1>0, <1>1, <2>1 DEF HwOnly
<1>2. CASE sw /\ ~w.act
  <2>1. v = AddWanDLFilteringRule(x, tables)
    BY <1>2 DEF install_wan_filtering_rule
  <2>2. <<Rule({}, "wan_dl")>> \in Seq(Rules) /\ Len(<<Rule({}, "wan_dl")>>) = 1
    <3>1. {} \in SUBSET Vals /\ "wan_dl" \in Dests
      BY DEF Dests
    <3> QED BY <3>1, RuleType
  <2>3. tables \in [F -> Seq(Rules)] /\ \A f \in F : tables[f] = <<Rule({}, "wan_dl")>>
    BY <2>2
  <2>4. FitsModem(tables)
    <3>1. Len(tables["v4"]) = 1 /\ Len(tables["v6"]) = 1
      BY <2>2 DEF F
    <3>2. 1 + 1 <= QMI_IPA_MAX_FILTERS
      BY FirewallAssumption
    <3> HIDE DEF tables
    <3> QED BY <3>1, <3>2 DEF FitsModem
  <2>5. x \in WanSet /\ HwOnly(w, x) /\ x.act = TRUE
    BY DEF WanSet, HwOnly
  <2> HIDE DEF x, tables, v
  <2>6. v \in WanSet /\ HwOnly(x, v) /\ v.act = x.act /\ \A f \in F : v.hw[f] = InModem(tables[f])
    BY <2>1, <2>3, <2>4, <2>5, Sent
  <2>7. HwOnly(w, v)
    BY <2>5, <2>6 DEF HwOnly
  <2> QED BY <1>2, <2>3, <2>5, <2>6, <2>7 DEF v
<1>3. CASE ~sw
  <2>1. v = AddWanDLFilteringRule(w, w.flt)
    BY <1>3 DEF install_wan_filtering_rule, CurrentTables
  <2> QED BY <1>0, <1>3, <2>1, Sent
<1> QED BY <1>0, <1>1, <1>2, <1>3

\* An installation that is not asked for by a signal keeps the modem in step.
LEMMA InstallKeeps ==
    ASSUME NEW w \in WanSet, env \in EnvSet, NEW ok \in SUBSET F, ModemInv(w, ok),
           w.act /\ ~env.sw => FALSE \in ToSet(env.swq),
           w.act /\ env.sw /\ FALSE \notin ToSet(env.swq) => \A f \in F : w.hw[f] = InModem(<<Rule({}, "wan_dl")>>)
    PROVE  LET v == install_wan_filtering_rule(w, FALSE) IN
           /\ v \in WanSet /\ HwOnly(w, v) /\ ModemInv(v, ok) /\ ModemHas(v, env.sw, env.swq)
           /\ v.act /\ ~env.sw => FALSE \in ToSet(env.swq)
           /\ env.sw => v.act
<1> DEFINE v == install_wan_filtering_rule(w, FALSE)
<1>1. env.sw \in BOOLEAN
  BY DEF EnvSet
<1>2. /\ v \in WanSet /\ HwOnly(w, v) /\ v.act = (w.act \/ env.sw)
      /\ env.sw /\ ~w.act => \A f \in F : v.hw[f] = InModem(<<Rule({}, "wan_dl")>>)
      /\ env.sw /\ w.act => v = w
      /\ ~env.sw /\ FitsModem(w.flt) => \A f \in F : v.hw[f] = InModem(w.flt[f])
  BY <1>1, Install
<1> HIDE DEF v
<1>3. ModemInv(v, ok)
  BY <1>2, HwOnlyInv
<1>4. v.flt = w.flt
  BY <1>2 DEF HwOnly
<1>5. ModemHas(v, env.sw, env.swq)
  BY <1>2, <1>4 DEF ModemHas
<1> QED BY <1>2, <1>3, <1>5 DEF v

\* The rules of one family that are to be sent.
FltOnly(w, v) ==
    /\ v.up = w.up /\ v.v4 = w.v4 /\ v.n6 = w.n6 /\ v.active = w.active /\ v.gw = w.gw /\ v.bridge = w.bridge
    /\ v.if_mode = w.if_mode /\ v.lost = w.lost /\ v.act = w.act /\ v.hw = w.hw

LEMMA SlotsType ==
    ASSUME NEW w \in WanSet, NEW f \in F
    PROVE  Slots(w, f) \in Seq(Rules) /\ Len(Slots(w, f)) = NumDefault[f] /\ NumDefault[f] \in Nat
<1>1. NumDefault[f] \in Nat
  BY Families DEF NumDefault
<1>2. Zero \in Rules
  <2>1. {} \in SUBSET Vals /\ "table 0" \in Dests
    BY DEF Dests
  <2> QED BY <2>1, RuleType DEF Zero
<1>3. w.flt[f] \in Seq(Rules)
  BY DEF WanSet
<1>4. \A i \in 1..NumDefault[f] : i <= Len(w.flt[f]) => w.flt[f][i] \in Rules
  BY <1>1, <1>3
<1>5. Slots(w, f) \in [1..NumDefault[f] -> Rules]
  BY <1>1, <1>2, <1>4 DEF Slots
<1> QED BY <1>1, <1>5

\* The slots of the default filters stay what they are whatever follows them.
LEMMA SlotsOf ==
    ASSUME NEW v, NEW f \in F, NEW S \in Seq(Rules), NEW X \in Seq(Rules), Len(S) = NumDefault[f], v.flt[f] = S \o X
    PROVE  Slots(v, f) = S
<1> DEFINE N == Len(S)
           Y == S \o X
<1>1. /\ Y \in Seq(Rules) /\ Len(Y) = N + Len(X) /\ N \in Nat /\ Len(X) \in Nat
      /\ \A i \in 1..N : Y[i] = S[i]
  BY RulesConcat
<1>2. Slots(v, f) = [i \in 1..N |-> IF i <= Len(Y) THEN Y[i] ELSE Zero]
  BY DEF Slots
<1>3. S = [i \in 1..N |-> S[i]]
  OBVIOUS
<1> HIDE DEF Y, N
<1>4. \A i \in 1..N : i <= Len(Y) /\ Y[i] = S[i]
  BY <1>1
<1> QED BY <1>2, <1>3, <1>4

FltSet(w, f, X, v) == v = [w EXCEPT !.flt[f] = X]
FltMade(w, f, X, file, v) == v = [w EXCEPT !.flt[f] = X, !.from[f] = file]

LEMMA SetFlt ==
    ASSUME NEW w \in WanSet, NEW f \in F, NEW X \in Seq(Rules), NEW v, FltSet(w, f, X, v)
    PROVE  /\ v \in WanSet /\ FltOnly(w, v) /\ v.from = w.from
           /\ v.flt[f] = X /\ \A g \in F : g # f => v.flt[g] = w.flt[g]
<1> DEFINE T == [w.flt EXCEPT ![f] = X]
<1>1. v = [w EXCEPT !.flt = T]
  BY DEF WanSet, FltSet
<1>2. w.flt \in [F -> Seq(Rules)]
  BY DEF WanSet
<1>3. T \in [F -> Seq(Rules)] /\ T[f] = X /\ \A g \in F : g # f => T[g] = w.flt[g]
  BY <1>2
<1> HIDE DEF T
<1>4. v \in WanSet
  BY <1>1, <1>3 DEF WanSet
<1>5. v.flt = T /\ v.from = w.from
  BY <1>1 DEF WanSet
<1>6. FltOnly(w, v)
  BY <1>1 DEF WanSet, FltOnly
<1> QED BY <1>3, <1>4, <1>5, <1>6

LEMMA MakeFlt ==
    ASSUME NEW w \in WanSet, NEW f \in F, NEW X \in Seq(Rules), NEW file \in DOMAIN Files, NEW v,
           FltMade(w, f, X, file, v)
    PROVE  /\ v \in WanSet /\ FltOnly(w, v) /\ v.from = [w.from EXCEPT ![f] = file]
           /\ v.flt[f] = X /\ v.from[f] = file
           /\ \A g \in F : g # f => v.flt[g] = w.flt[g] /\ v.from[g] = w.from[g]
<1> DEFINE T == [w.flt EXCEPT ![f] = X]
           R == [w.from EXCEPT ![f] = file]
<1>1. v = [w EXCEPT !.flt = T, !.from = R]
  BY DEF WanSet, FltMade
<1>2. w.flt \in [F -> Seq(Rules)] /\ w.from \in [F -> DOMAIN Files]
  BY DEF WanSet
<1>3. /\ T \in [F -> Seq(Rules)] /\ R \in [F -> DOMAIN Files] /\ T[f] = X /\ R[f] = file
      /\ \A g \in F : g # f => T[g] = w.flt[g] /\ R[g] = w.from[g]
  BY <1>2
<1> HIDE DEF T, R
<1>4. v \in WanSet
  BY <1>1, <1>3 DEF WanSet
<1>5. v.flt = T /\ v.from = R
  BY <1>1 DEF WanSet
<1>6. FltOnly(w, v)
  BY <1>1 DEF WanSet, FltOnly
<1> QED BY <1>3, <1>4, <1>5, <1>6 DEF R

LEMMA AlgType ==
    ASSUME NEW side \in {"src", "dst"}
    PROVE  AlgRules(side) \in Seq(Rules)
<1> DEFINE R == AlgRules(side)
           N == Len(Alg)
           A(i) == [Rule({Alg[i].protocol}, "wan_dl") EXCEPT ![side] = [lo |-> Alg[i].port, hi |-> Alg[i].port]]
<1>1. N \in Nat /\ DOMAIN Alg = 1..N /\ \A i \in 1..N : Alg[i].port \in Nat
  BY DataAssumption, PortNumbers DEF Port
<1>2. R = [i \in 1..N |-> A(i)]
  BY <1>1 DEF AlgRules
<1>3. ASSUME NEW i \in 1..N PROVE A(i) \in Rules
  <2> DEFINE one == [lo |-> Alg[i].port, hi |-> Alg[i].port]
  <2>1. {Alg[i].protocol} \in SUBSET Vals /\ "wan_dl" \in Dests
    BY <1>1 DEF Vals, Dests
  <2>2. one \in Ranges
    BY <1>1 DEF Ranges
  <2>3. AnyPort \in Ranges
    BY PortNumbers DEF AnyPort, Ranges
  <2>4. CASE side = "src"
    <3>1. A(i) = [Rule({Alg[i].protocol}, "wan_dl") EXCEPT !.src = one]
      BY <2>4
    <3> HIDE DEF A, one
    <3>2. A(i) = [on |-> {Alg[i].protocol}, src |-> one, dst |-> AnyPort, to |-> "wan_dl"]
      BY <3>1 DEF Rule
    <3> QED BY <3>2, <2>1, <2>2, <2>3 DEF Rules
  <2>5. CASE side = "dst"
    <3>1. A(i) = [Rule({Alg[i].protocol}, "wan_dl") EXCEPT !.dst = one]
      BY <2>5
    <3> HIDE DEF A, one
    <3>2. A(i) = [on |-> {Alg[i].protocol}, src |-> AnyPort, dst |-> one, to |-> "wan_dl"]
      BY <3>1 DEF Rule
    <3> QED BY <3>2, <2>1, <2>2, <2>3 DEF Rules
  <2> QED BY <2>4, <2>5
<1> HIDE DEF A
<1>4. R \in [1..N -> Rules]
  BY <1>2, <1>3
<1> HIDE DEF R, N
<1> QED BY <1>1, <1>4 DEF R

LEMMA ModemFwSame ==
    ASSUME NEW w, NEW v, NEW f, v.bridge = w.bridge, v.from[f] = w.from[f]
    PROVE  ModemFw(v, f) = ModemFw(w, f)
<1>1. ReadBy(v, f) = ReadBy(w, f)
  BY DEF ReadBy
<1>2. config_dft_firewall_rules_ex(v, ReadBy(w, f), f) = config_dft_firewall_rules_ex(w, ReadBy(w, f), f)
  BY DEF config_dft_firewall_rules_ex, ModemDefault4
<1> QED BY <1>1, <1>2 DEF ModemFw

LEMMA SlotsSame ==
    ASSUME NEW w, NEW v, NEW f, v.flt[f] = w.flt[f]
    PROVE  Slots(v, f) = Slots(w, f)
BY DEF Slots

LEMMA FltOnlyReady ==
    ASSUME NEW w, NEW v, FltOnly(w, v)
    PROVE  \A f \in F : Ready(v, f) <=> Ready(w, f)
BY DEF FltOnly, Ready

LEMMA IcmpAlgType ==
    ASSUME NEW f \in F
    PROVE  add_icmp_alg_rules(f) \in Seq(Rules)
<1>1. {"ICMP"} \in SUBSET Vals /\ {"ICMP6"} \in SUBSET Vals /\ "wan_dl" \in Dests
  BY DEF Vals, Features, Dests
<1>2. <<Rule({"ICMP"}, "wan_dl")>> \in Seq(Rules) /\ ModemICMP6 \in Seq(Rules)
  BY <1>1, RuleType DEF ModemICMP6
<1>3. AlgRules("src") \in Seq(Rules) /\ AlgRules("dst") \in Seq(Rules)
  BY AlgType
<1> DEFINE a == <<Rule({"ICMP"}, "wan_dl")>>
           b == AlgRules("src")
           c == AlgRules("dst")
<1> HIDE DEF a, b, c
<1>4. a \o b \in Seq(Rules)
  BY <1>2, <1>3, RulesConcat DEF a, b
<1> DEFINE ab == a \o b
<1> HIDE DEF ab
<1>5. ab \o c \in Seq(Rules)
  BY <1>3, <1>4, RulesConcat DEF ab, c
<1> QED BY <1>2, <1>5 DEF add_icmp_alg_rules, ab, a, b, c

\* The firewall of a family on the modem is made.
LEMMA ModemConfig ==
    ASSUME NEW w \in WanSet, NEW f \in F, env.file \in DOMAIN Files, NEW ok \in SUBSET F, ModemInv(w, ok)
    PROVE  LET v == config_wan_firewall_rule(w, f) IN
           /\ v \in WanSet /\ FltOnly(w, v) /\ v.from = [w.from EXCEPT ![f] = env.file]
           /\ ModemInv(v, IF Ready(w, f) THEN ok \cup {f} ELSE ok \ {f})
<1> DEFINE v == config_wan_firewall_rule(w, f)
           c == IPACM_read_firewall_xml(Files[env.file])
           A == Slots(w, f)
           B == add_icmp_alg_rules(f)
           C == config_dft_firewall_rules_ex(w, c, f)
           X == A \o B \o C
<1>1. c \in Configs
  BY ReadType
<1>2. FltMade(w, f, X, env.file, v)
  BY DEF config_wan_firewall_rule, FltMade
<1>3. A \in Seq(Rules) /\ B \in Seq(Rules) /\ C \in Seq(Rules) /\ Len(A) = NumDefault[f]
  <2> HIDE DEF c
  <2> QED BY <1>1, SlotsType, IcmpAlgType, ModemRulesType
<1>3a. ModemFw(v, f) = Each(ModemClasses(f), "wan_dl") \o B \o config_dft_firewall_rules_ex(v, ReadBy(v, f), f)
  BY DEF ModemFw
<1> HIDE DEF v, A, B, C, c
<1>4. X \in Seq(Rules) /\ X = A \o (B \o C) /\ B \o C \in Seq(Rules)
  <2>1. A \o B \in Seq(Rules) /\ B \o C \in Seq(Rules)
    BY <1>3, RulesConcat
  <2> DEFINE AB == A \o B
  <2> HIDE DEF AB
  <2>2. AB \o C \in Seq(Rules)
    BY <1>3, <2>1, RulesConcat DEF AB
  <2>3. (A \o B) \o C = A \o (B \o C)
    BY <1>3, ConcatAssociative
  <2> QED BY <2>1, <2>2, <2>3 DEF AB
<1> HIDE DEF X
<1>5. /\ v \in WanSet /\ FltOnly(w, v) /\ v.from = [w.from EXCEPT ![f] = env.file] /\ v.flt[f] = X /\ v.from[f] = env.file
      /\ \A g \in F : g # f => v.flt[g] = w.flt[g] /\ v.from[g] = w.from[g]
  <2> DEFINE file == env.file
  <2>1. X \in Seq(Rules) /\ file \in DOMAIN Files
    BY <1>4
  <2>2. FltMade(w, f, X, file, v)
    BY <1>2
  <2> HIDE DEF file
  <2>3. /\ v \in WanSet /\ FltOnly(w, v) /\ v.from = [w.from EXCEPT ![f] = file] /\ v.flt[f] = X /\ v.from[f] = file
        /\ \A g \in F : g # f => v.flt[g] = w.flt[g] /\ v.from[g] = w.from[g]
    BY <2>1, <2>2, MakeFlt
  <2> QED BY <2>3 DEF file
<1>6. Slots(v, f) = A
  <2> DEFINE D == B \o C
  <2> HIDE DEF D
  <2>1. v.flt[f] = A \o D /\ D \in Seq(Rules)
    BY <1>4, <1>5 DEF D
  <2> QED BY <1>3, <2>1, SlotsOf
<1>7. \A g \in F : g # f => Slots(v, g) = Slots(w, g)
  BY <1>5, SlotsSame
<1>8. \A g \in F : (Ready(v, g) <=> Ready(w, g))
  BY <1>5, FltOnlyReady
<1>9. \A g \in F : Ready(v, g) => Slots(v, g) = Each(ModemClasses(g), "wan_dl")
  BY <1>6, <1>7, <1>8 DEF ModemInv, A
<1>10. ASSUME Ready(w, f) PROVE v.flt[f] = ModemFw(v, f)
  <2>1. A = Each(ModemClasses(f), "wan_dl")
    BY <1>10 DEF ModemInv, A
  <2>2. ReadBy(v, f) = c
    BY <1>5 DEF ReadBy, c
  <2>3. config_dft_firewall_rules_ex(v, c, f) = C
    BY <1>5 DEF config_dft_firewall_rules_ex, ModemDefault4, FltOnly, C
  <2> QED BY <1>3a, <1>5, <2>1, <2>2, <2>3 DEF X
<1>11. ASSUME NEW g \in ok, g # f PROVE v.flt[g] = ModemFw(v, g)
  <2>1. g \in F /\ v.flt[g] = w.flt[g] /\ v.from[g] = w.from[g] /\ v.bridge = w.bridge
    BY <1>5, <1>11 DEF FltOnly
  <2>2. w.flt[g] = ModemFw(w, g)
    BY DEF ModemInv
  <2>3. ModemFw(v, g) = ModemFw(w, g)
    BY <2>1, ModemFwSame
  <2> QED BY <2>1, <2>2, <2>3
<1>12. \A g \in F : v.lost[g] = {}
  BY <1>5 DEF FltOnly, ModemInv
<1>13. ModemInv(v, IF Ready(w, f) THEN ok \cup {f} ELSE ok \ {f})
  BY <1>9, <1>10, <1>11, <1>12 DEF ModemInv
<1> QED BY <1>5, <1>13 DEF v

\* The firewall of a family on the modem is taken away; its default filters stay.
LEMMA ModemDel ==
    ASSUME NEW w \in WanSet, NEW f \in F, NEW ok \in SUBSET F, ModemInv(w, ok)
    PROVE  LET v == del_wan_firewall_rule(w, f) IN
           v \in WanSet /\ FltOnly(w, v) /\ v.from = w.from /\ ModemInv(v, ok \ {f})
<1> DEFINE v == del_wan_firewall_rule(w, f)
           A == Slots(w, f)
<1>1. FltSet(w, f, A, v)
  BY DEF del_wan_firewall_rule, FltSet
<1>2. A \in Seq(Rules) /\ Len(A) = NumDefault[f]
  BY SlotsType
<1> HIDE DEF v, A
<1>4. /\ v \in WanSet /\ FltOnly(w, v) /\ v.from = w.from /\ v.flt[f] = A
      /\ \A g \in F : g # f => v.flt[g] = w.flt[g]
  BY <1>1, <1>2, SetFlt
<1>5. Slots(v, f) = A
  <2>1. v.flt[f] = A \o <<>> /\ <<>> \in Seq(Rules)
    BY <1>2, <1>4, ConcatEmptySeq
  <2> QED BY <1>2, <2>1, SlotsOf
<1>6. \A g \in F : g # f => Slots(v, g) = Slots(w, g)
  BY <1>4, SlotsSame
<1>7. \A g \in F : (Ready(v, g) <=> Ready(w, g))
  BY <1>4, FltOnlyReady
<1>8. \A g \in F : Ready(v, g) => Slots(v, g) = Each(ModemClasses(g), "wan_dl")
  BY <1>5, <1>6, <1>7 DEF ModemInv, A
<1>9. ASSUME NEW g \in ok \ {f} PROVE v.flt[g] = ModemFw(v, g)
  <2>1. g \in F /\ v.flt[g] = w.flt[g] /\ v.from[g] = w.from[g] /\ v.bridge = w.bridge
    BY <1>4 DEF FltOnly
  <2>2. w.flt[g] = ModemFw(w, g)
    BY DEF ModemInv
  <2>3. ModemFw(v, g) = ModemFw(w, g)
    BY <2>1, ModemFwSame
  <2> QED BY <2>1, <2>2, <2>3
<1>10. \A g \in F : v.lost[g] = {}
  BY <1>4 DEF FltOnly, ModemInv
<1>11. ModemInv(v, ok \ {f})
  BY <1>8, <1>9, <1>10 DEF ModemInv
<1> QED BY <1>4, <1>11 DEF v

\* The default filters of a new address.
LEMMA ModemFilters ==
    ASSUME NEW w \in WanSet, NEW f \in F, NEW ok \in SUBSET (F \ {f}), \A g \in F : w.lost[g] = {},
           \A g \in F : g # f /\ Ready(w, g) => Slots(w, g) = Each(ModemClasses(g), "wan_dl"),
           \A g \in ok : w.flt[g] = ModemFw(w, g)
    PROVE  LET v == add_dft_filtering_rule(w, f) IN
           v \in WanSet /\ FltOnly(w, v) /\ v.from = w.from /\ ModemInv(v, ok)
<1> DEFINE v == add_dft_filtering_rule(w, f)
           A == Each(ModemClasses(f), "wan_dl")
<1>1. FltSet(w, f, A, v)
  BY DEF add_dft_filtering_rule, ModemClasses, FltSet
<1>2. A \in Seq(Rules) /\ Len(A) = NumDefault[f]
  BY ClassTypes
<1> HIDE DEF v, A
<1>4. /\ v \in WanSet /\ FltOnly(w, v) /\ v.from = w.from /\ v.flt[f] = A
      /\ \A g \in F : g # f => v.flt[g] = w.flt[g]
  BY <1>1, <1>2, SetFlt
<1>5. Slots(v, f) = A
  <2>1. v.flt[f] = A \o <<>> /\ <<>> \in Seq(Rules)
    BY <1>2, <1>4, ConcatEmptySeq
  <2> QED BY <1>2, <2>1, SlotsOf
<1>6. \A g \in F : g # f => Slots(v, g) = Slots(w, g)
  BY <1>4, SlotsSame
<1>7. \A g \in F : (Ready(v, g) <=> Ready(w, g))
  BY <1>4, FltOnlyReady
<1>8. \A g \in F : Ready(v, g) => Slots(v, g) = Each(ModemClasses(g), "wan_dl")
  BY <1>5, <1>6, <1>7 DEF A
<1>9. ASSUME NEW g \in ok PROVE v.flt[g] = ModemFw(v, g)
  <2>1. g \in F /\ v.flt[g] = w.flt[g] /\ v.from[g] = w.from[g] /\ v.bridge = w.bridge
    BY <1>4 DEF FltOnly
  <2>3. ModemFw(v, g) = ModemFw(w, g)
    BY <2>1, ModemFwSame
  <2> QED BY <2>1, <2>3
<1>10. \A g \in F : v.lost[g] = {}
  BY <1>4 DEF FltOnly
<1>11. ModemInv(v, ok)
  BY <1>8, <1>9, <1>10 DEF ModemInv
<1> QED BY <1>4, <1>11 DEF v

(***************************************************************************)
(* The steps of the interface on the modem.                                *)
(***************************************************************************)
\* All that the modem's part of the invariant is about.
ModemSame(w, v) ==
    /\ \A f \in F : Ready(v, f) <=> Ready(w, f)
    /\ v.bridge = w.bridge /\ v.flt = w.flt /\ v.lost = w.lost /\ v.from = w.from /\ v.act = w.act /\ v.hw = w.hw

LEMMA OnReady == \A w : On(w) <=> \E f \in F : Ready(w, f)
BY DEF On, Ready, F

LEMMA ModemFrame ==
    ASSUME NEW w, NEW v, NEW ok \in SUBSET F, ModemSame(w, v), ModemInv(w, ok)
    PROVE  ModemInv(v, ok)
<1>1. \A f \in F : Slots(v, f) = Slots(w, f)
  BY DEF ModemSame, Slots
<1>2. \A f \in F : ModemFw(v, f) = ModemFw(w, f)
  BY ModemFwSame DEF ModemSame
<1>3. \A f \in F : v.lost[f] = {} /\ v.flt[f] = w.flt[f]
  BY DEF ModemInv, ModemSame
<1> QED BY <1>1, <1>2, <1>3 DEF ModemInv, ModemSame

LEMMA ModemFrameHas ==
    ASSUME NEW w, NEW v, NEW sw, NEW swq, ModemSame(w, v), ModemHas(w, sw, swq), Signals(w, TRUE, sw, swq)
    PROVE  ModemHas(v, sw, swq) /\ Signals(v, TRUE, sw, swq)
<1>1. On(v) <=> On(w)
  BY OnReady DEF ModemSame
<1>2. v.act = w.act /\ v.hw = w.hw /\ v.flt = w.flt
  BY DEF ModemSame
<1> QED BY <1>1, <1>2 DEF ModemHas, Signals

LEMMA ModemLess ==
    ASSUME NEW w, NEW ok \in SUBSET F, NEW less \in SUBSET ok, ModemInv(w, ok)
    PROVE  ModemInv(w, less)
BY DEF ModemInv

\* What a step of the modem has to show.
LEMMA ModemStep ==
    ASSUME IInv, Q6, UNCHANGED env, s' \in WanSet, Life(s', missed', env.pending, env.file),
           Signals(s', TRUE, env.sw, env.swq), ModemInv(s', s'.active \ missed'), ModemHas(s', env.sw, env.swq)
    PROVE  IInv'
BY DEF IInv, Q6

LEMMA ModemHave ==
    ASSUME IInv, Q6
    PROVE  /\ env \in EnvSet /\ s \in WanSet /\ Life(s, missed, env.pending, env.file) /\ Signals(s, TRUE, env.sw, env.swq)
           /\ ModemInv(s, s.active \ missed) /\ ModemHas(s, env.sw, env.swq)
           /\ s.active \ missed \in SUBSET F /\ s.active \in SUBSET F /\ missed \in SUBSET F
<1>1. env \in EnvSet /\ s \in WanSet /\ Life(s, missed, env.pending, env.file)
  BY DEF IInv
<1>2. Signals(s, TRUE, env.sw, env.swq) /\ ModemInv(s, s.active \ missed) /\ ModemHas(s, env.sw, env.swq)
  BY DEF IInv
<1>3. s.active \in SUBSET F
  BY <1>1 DEF WanSet
<1>4. missed \subseteq s.active
  BY <1>1 DEF Life
<1> QED BY <1>1, <1>2, <1>3, <1>4

\* What an installation needs of the interface that it installs.
Steady(w) ==
    /\ w.act /\ ~env.sw => FALSE \in ToSet(env.swq)
    /\ w.act /\ env.sw /\ FALSE \notin ToSet(env.swq) => \A f \in F : w.hw[f] = InModem(<<Rule({}, "wan_dl")>>)

LEMMA IsSteady ==
    ASSUME IInv, Q6
    PROVE  Steady(s)
BY ModemHave DEF Steady, Signals, ModemHas

LEMMA SteadySame ==
    ASSUME NEW w, NEW v, Steady(w), v.act = w.act, v.hw = w.hw
    PROVE  Steady(v)
BY DEF Steady

LEMMA Installed ==
    ASSUME NEW w \in WanSet, env \in EnvSet, NEW ok \in SUBSET F, ModemInv(w, ok), Steady(w),
           env.swq # <<>> => Last(env.swq) = env.sw
    PROVE  LET v == install_wan_filtering_rule(w, FALSE) IN
           /\ v \in WanSet /\ HwOnly(w, v) /\ ModemInv(v, ok) /\ ModemHas(v, env.sw, env.swq)
           /\ Signals(v, TRUE, env.sw, env.swq)
<1> DEFINE v == install_wan_filtering_rule(w, FALSE)
<1>1. /\ v \in WanSet /\ HwOnly(w, v) /\ ModemInv(v, ok) /\ ModemHas(v, env.sw, env.swq)
      /\ v.act /\ ~env.sw => FALSE \in ToSet(env.swq)
      /\ env.sw => v.act
  BY InstallKeeps DEF Steady
<1> HIDE DEF v
<1>2. Signals(v, TRUE, env.sw, env.swq)
  BY <1>1 DEF Signals
<1> QED BY <1>1, <1>2 DEF v

\* A new address, or none, of one family.
NewAddr(w, x, f) ==
    /\ x.up = w.up /\ x.active = w.active /\ x.bridge = w.bridge /\ x.flt = w.flt /\ x.lost = w.lost
    /\ x.from = w.from /\ x.act = w.act /\ x.hw = w.hw
    /\ \A g \in F : g # f => (Ready(x, g) <=> Ready(w, g))

LEMMA NewAddrFilters ==
    ASSUME NEW w, NEW x \in WanSet, NEW f \in F, NEW ok \in SUBSET (F \ {f}), NewAddr(w, x, f), ModemInv(w, ok)
    PROVE  LET v == add_dft_filtering_rule(x, f) IN
           v \in WanSet /\ FltOnly(x, v) /\ v.from = x.from /\ ModemInv(v, ok)
<1>1. \A g \in F : x.lost[g] = {}
  BY DEF ModemInv, NewAddr
<1>2. \A g \in F : Slots(x, g) = Slots(w, g)
  BY DEF NewAddr, Slots
<1>3. \A g \in F : g # f /\ Ready(x, g) => Slots(x, g) = Each(ModemClasses(g), "wan_dl")
  BY <1>2 DEF NewAddr, ModemInv
<1>4. \A g \in F : ModemFw(x, g) = ModemFw(w, g)
  BY ModemFwSame DEF NewAddr
<1>5. \A g \in ok : x.flt[g] = ModemFw(x, g)
  BY <1>4 DEF NewAddr, ModemInv
<1> QED BY <1>1, <1>3, <1>5, ModemFilters

LEMMA ModemAddress ==
    ASSUME IInv, Q6, s.up, NEW f \in F, ~Ready(s, f), NEW x \in WanSet, NewAddr(s, x, f), Ready(x, f),
           UNCHANGED <<env, missed>>, s' = init_fl_rule_ex(x, f)
    PROVE  IInv'
<1> DEFINE ok == s.active \ missed
           y == add_dft_filtering_rule(x, f)
           v == install_wan_filtering_rule(y, FALSE)
<1>1. /\ env \in EnvSet /\ s \in WanSet /\ Life(s, missed, env.pending, env.file) /\ Signals(s, TRUE, env.sw, env.swq)
      /\ ModemInv(s, ok) /\ Steady(s)
  BY ModemHave, IsSteady
<1>2. ok \in SUBSET (F \ {f})
  BY <1>1, ModemHave DEF Life
<1>3. y \in WanSet /\ FltOnly(x, y) /\ y.from = x.from /\ ModemInv(y, ok)
  <2> HIDE DEF ok
  <2> QED BY <1>1, <1>2, NewAddrFilters
<1>4. Steady(y)
  BY <1>1, <1>3, SteadySame DEF FltOnly, NewAddr
<1>5. env.swq # <<>> => Last(env.swq) = env.sw
  BY <1>1 DEF Signals
<1>6. s' = v
  BY DEF init_fl_rule_ex
<1> HIDE DEF ok, y, v
<1>7. v \in WanSet /\ HwOnly(y, v) /\ ModemInv(v, ok) /\ ModemHas(v, env.sw, env.swq) /\ Signals(v, TRUE, env.sw, env.swq)
  BY <1>1, <1>2, <1>3, <1>4, <1>5, Installed DEF v
<1>8. v.up = s.up /\ v.active = s.active /\ v.from = s.from /\ \A g \in F : Ready(v, g) <=> Ready(x, g)
  BY <1>3, <1>7 DEF HwOnly, FltOnly, NewAddr, Ready
<1>9. Life(v, missed, env.pending, env.file)
  <2>1. \A g \in F : Ready(s, g) => Ready(v, g)
    BY <1>8 DEF NewAddr
  <2> QED BY <1>1, <1>8, <2>1 DEF Life
<1>10. ModemInv(s', s'.active \ missed')
  BY <1>6, <1>7, <1>8 DEF ok
<1> QED BY <1>6, <1>7, <1>9, <1>10, ModemStep

LEMMA ModemAddrAdd ==
    ASSUME IInv, Q6, NEW f \in F, AddrAdd(f)
    PROVE  IInv'
<1>1. s \in WanSet /\ Life(s, missed, env.pending, env.file)
  BY ModemHave
<1>2. s.up /\ s' = NewAddress(s, f) /\ UNCHANGED <<env, missed>> /\ (f = "v6" => s.n6 # 2)
  BY DEF AddrAdd, AddrAddLimit
<1>3. s.n6 \in 0..2 /\ s.v4 \in BOOLEAN
  BY <1>1 DEF WanSet
<1>4. CASE f = "v4" /\ s.v4
  <2>1. s' = s
    BY <1>2, <1>4 DEF NewAddress
  <2> QED BY <1>2, <2>1, ModemHave, ModemStep
<1>5. CASE f = "v4" /\ ~s.v4
  <2> DEFINE x == [s EXCEPT !.v4 = TRUE]
  <2>1. s' = init_fl_rule_ex(x, f)
    BY <1>2, <1>5 DEF NewAddress
  <2>2. x \in WanSet
    BY <1>1 DEF WanSet
  <2>3. NewAddr(s, x, f) /\ Ready(x, f)
    BY <1>1, <1>5 DEF NewAddr, Ready, F, WanSet
  <2>4. ~Ready(s, f)
    BY <1>5 DEF Ready
  <2> HIDE DEF x
  <2> QED BY <1>2, <2>1, <2>2, <2>3, <2>4, ModemAddress
<1>6. CASE f = "v6" /\ s.n6 = 0
  <2> DEFINE x == [s EXCEPT !.n6 = @ + 1]
  <2>1. s' = x
    BY <1>2, <1>6 DEF NewAddress
  <2>2. x \in WanSet
    <3>1. x = [s EXCEPT !.n6 = s.n6 + 1] /\ s.n6 + 1 \in 0..2
      BY <1>1, <1>6 DEF WanSet
    <3> HIDE DEF x
    <3> QED BY <1>1, <3>1 DEF WanSet
  <2>3. ModemSame(s, x) /\ x.up = s.up /\ x.active = s.active
    BY <1>1, <1>6 DEF ModemSame, Ready, F, WanSet
  <2> HIDE DEF x
  <2>4. ModemInv(x, s.active \ missed)
    BY <2>3, ModemHave, ModemFrame
  <2>5. ModemHas(x, env.sw, env.swq) /\ Signals(x, TRUE, env.sw, env.swq)
    BY <2>3, ModemHave, ModemFrameHas
  <2>6. Life(x, missed, env.pending, env.file)
    BY <1>1, <1>2, <2>3 DEF Life, ModemSame
  <2> QED BY <1>2, <2>1, <2>2, <2>3, <2>4, <2>5, <2>6, ModemStep
<1>7. CASE f = "v6" /\ s.n6 = 1
  <2> DEFINE x == [s EXCEPT !.n6 = @ + 1]
  <2>1. s' = init_fl_rule_ex(x, f)
    BY <1>2, <1>7 DEF NewAddress
  <2>2. x \in WanSet
    <3>1. x = [s EXCEPT !.n6 = s.n6 + 1] /\ s.n6 + 1 \in 0..2
      BY <1>1, <1>7 DEF WanSet
    <3> HIDE DEF x
    <3> QED BY <1>1, <3>1 DEF WanSet
  <2>3. NewAddr(s, x, f) /\ Ready(x, f)
    BY <1>1, <1>7 DEF NewAddr, Ready, F, WanSet
  <2>4. ~Ready(s, f)
    BY <1>7 DEF Ready
  <2> HIDE DEF x
  <2> QED BY <1>2, <2>1, <2>2, <2>3, <2>4, ModemAddress
<1> QED BY <1>2, <1>3, <1>4, <1>5, <1>6, <1>7 DEF F

LEMMA ModemRouteAdd ==
    ASSUME IInv, Q6, NEW f \in F, RouteAdd(f)
    PROVE  IInv'
<1> DEFINE b == (s.if_mode = "BRIDGE")
           w == [s EXCEPT !.active = @ \cup {f}, !.gw = TRUE, !.bridge = b]
           y == config_wan_firewall_rule(w, f)
           v == install_wan_filtering_rule(y, FALSE)
           ok == IF b # s.bridge THEN {} ELSE s.active \ missed
<1>1. /\ env \in EnvSet /\ s \in WanSet /\ Life(s, missed, env.pending, env.file) /\ Signals(s, TRUE, env.sw, env.swq)
      /\ ModemInv(s, s.active \ missed) /\ Steady(s) /\ s.active \in SUBSET F /\ missed \in SUBSET F
  BY ModemHave, IsSteady
<1>2. s.up /\ f \notin s.active /\ Ready(s, f)
  BY DEF RouteAdd, AddrAddLimit, Ready
<1>3. s' = v /\ missed' = (IF b # s.bridge THEN s.active ELSE missed) /\ UNCHANGED env
  BY DEF RouteAdd, Become
<1>4. /\ w \in WanSet /\ w.up = s.up /\ w.active = s.active \cup {f} /\ w.bridge = b /\ w.flt = s.flt
      /\ w.lost = s.lost /\ w.from = s.from /\ w.act = s.act /\ w.hw = s.hw /\ w.v4 = s.v4 /\ w.n6 = s.n6
  BY <1>1 DEF WanSet
<1> HIDE DEF w, b
<1>5. \A g \in F : Ready(w, g) <=> Ready(s, g)
  BY <1>4 DEF Ready
<1>6. ModemInv(w, ok)
  <2>1. CASE b # s.bridge
    <3>1. \A g \in F : Slots(w, g) = Slots(s, g) /\ w.lost[g] = s.lost[g]
      BY <1>4 DEF Slots
    <3>2. ok = {}
      BY <2>1
    <3> QED BY <1>1, <1>5, <3>1, <3>2 DEF ModemInv
  <2>2. CASE b = s.bridge
    <3>1. ModemSame(s, w)
      BY <1>4, <1>5, <2>2 DEF ModemSame
    <3> QED BY <1>1, <2>2, <3>1, ModemFrame
  <2> QED BY <2>1, <2>2
<1>7. ok \in SUBSET F /\ env.file \in DOMAIN Files /\ Ready(w, f)
  BY <1>1, <1>2, <1>5 DEF EnvSet
<1> HIDE DEF ok
<1>8. y \in WanSet /\ FltOnly(w, y) /\ y.from = [w.from EXCEPT ![f] = env.file] /\ ModemInv(y, ok \cup {f})
  BY <1>4, <1>6, <1>7, ModemConfig
<1>9. Steady(y)
  BY <1>1, <1>4, <1>8, SteadySame DEF FltOnly
<1>10. env.swq # <<>> => Last(env.swq) = env.sw
  BY <1>1 DEF Signals
<1>11. ok \cup {f} \in SUBSET F
  BY <1>7
<1> HIDE DEF y, v
<1>12. v \in WanSet /\ HwOnly(y, v) /\ ModemInv(v, ok \cup {f}) /\ ModemHas(v, env.sw, env.swq) /\ Signals(v, TRUE, env.sw, env.swq)
  BY <1>1, <1>8, <1>9, <1>10, <1>11, Installed DEF v
<1>13. /\ v.up = s.up /\ v.active = s.active \cup {f} /\ v.from = [s.from EXCEPT ![f] = env.file]
       /\ \A g \in F : Ready(v, g) <=> Ready(s, g)
  BY <1>4, <1>8, <1>12 DEF HwOnly, FltOnly, Ready
<1>14. missed \subseteq s.active
  BY <1>1 DEF Life
<1>15. v.active \ missed' = ok \cup {f}
  BY <1>2, <1>3, <1>13, <1>14 DEF ok
<1>16. Life(v, missed', env.pending, env.file)
  <2>1. s.from \in [F -> DOMAIN Files]
    BY <1>1 DEF WanSet
  <2>2. \A g \in F : g # f => v.from[g] = s.from[g]
    BY <1>13, <2>1
  <2>3. v.from[f] = env.file
    BY <1>13, <2>1
  <2>4. v.active \subseteq {g \in F : Ready(v, g)}
    BY <1>1, <1>2, <1>13 DEF Life
  <2>5. missed' \subseteq v.active
    BY <1>3, <1>13, <1>14
  <2>6. ASSUME env.pending = 0, NEW g \in v.active \ missed' PROVE v.from[g] = env.file
    <3>1. g = f \/ g \in s.active \ missed
      BY <1>3, <1>13
    <3> QED BY <1>1, <2>2, <2>3, <2>6, <3>1 DEF Life
  <2> QED BY <1>2, <1>13, <2>4, <2>5, <2>6 DEF Life
<1> QED BY <1>3, <1>12, <1>15, <1>16, ModemStep

LEMMA ModemRouteDel ==
    ASSUME IInv, Q6, NEW f \in F, RouteDel(f)
    PROVE  IInv'
<1> DEFINE y == del_wan_firewall_rule(s, f)
           v == install_wan_filtering_rule(y, FALSE)
           x == [v EXCEPT !.active = @ \ {f}, !.gw = FALSE]
           ok == s.active \ missed
<1>1. /\ env \in EnvSet /\ s \in WanSet /\ Life(s, missed, env.pending, env.file) /\ Signals(s, TRUE, env.sw, env.swq)
      /\ ModemInv(s, ok) /\ Steady(s) /\ ok \in SUBSET F
  BY ModemHave, IsSteady
<1>2. s.up /\ f \in s.active /\ s' = x /\ missed' = missed \ {f} /\ UNCHANGED env
  BY DEF RouteDel, DelFirewall, RouteGone
<1> HIDE DEF ok
<1>3. y \in WanSet /\ FltOnly(s, y) /\ y.from = s.from /\ ModemInv(y, ok \ {f})
  BY <1>1, ModemDel
<1>4. Steady(y)
  BY <1>1, <1>3, SteadySame DEF FltOnly
<1>5. env.swq # <<>> => Last(env.swq) = env.sw
  BY <1>1 DEF Signals
<1>6. ok \ {f} \in SUBSET F
  BY <1>1
<1> HIDE DEF y, v
<1>7. v \in WanSet /\ HwOnly(y, v) /\ ModemInv(v, ok \ {f}) /\ ModemHas(v, env.sw, env.swq) /\ Signals(v, TRUE, env.sw, env.swq)
  BY <1>1, <1>3, <1>4, <1>5, <1>6, Installed DEF v
<1>8. x \in WanSet
  BY <1>7 DEF WanSet
<1>9. ModemSame(v, x) /\ x.up = v.up /\ x.active = v.active \ {f} /\ x.from = v.from /\ x.act = v.act
  BY <1>7 DEF WanSet, ModemSame, Ready
<1> HIDE DEF x
<1>10. ModemInv(x, ok \ {f}) /\ ModemHas(x, env.sw, env.swq) /\ Signals(x, TRUE, env.sw, env.swq)
  BY <1>6, <1>7, <1>9, ModemFrame, ModemFrameHas
<1>11. x.up = s.up /\ x.active = s.active \ {f} /\ x.from = s.from /\ \A g \in F : Ready(x, g) <=> Ready(s, g)
  BY <1>3, <1>7, <1>9 DEF HwOnly, FltOnly, ModemSame, Ready
<1>12. x.active \ missed' = ok \ {f}
  BY <1>2, <1>11 DEF ok
<1>13. Life(x, missed', env.pending, env.file)
  BY <1>1, <1>2, <1>11 DEF Life
<1> QED BY <1>2, <1>8, <1>10, <1>12, <1>13, ModemStep

Blank(w) ==
    ~w.up /\ ~w.v4 /\ w.n6 = 0 /\ w.active = {} /\ ~w.act /\ HasAddress(w) = {} /\ \A f \in F : ~Ready(w, f)

LEMMA NewWanBlank ==
    ASSUME NEW m, NEW b, NEW flt, NEW hw, NEW lost, NEW x, x = NewWan(m, b, flt, hw, lost)
    PROVE  Blank(x) /\ x.lost = lost
<1>1. ~x.up /\ ~x.v4 /\ x.n6 = 0 /\ x.active = {} /\ ~x.act /\ x.lost = lost
  BY DEF NewWan
<1>2. \A f \in F : ~Ready(x, f)
  BY <1>1 DEF Ready
<1>3. HasAddress(x) = {}
  BY <1>1 DEF HasAddress
<1> QED BY <1>1, <1>2, <1>3 DEF Blank

LEMMA ModemLinkDown ==
    ASSUME IInv, Q6, LinkDown
    PROVE  IInv'
<1> DEFINE w == ModemDown(s)
           x == NewWan(w.if_mode, w.bridge, w.flt, w.hw, w.lost)
           y == [s EXCEPT !.flt = [f \in F |-> IF f \in HasAddress(s) THEN <<>> ELSE @[f]]]
<1>1. /\ env \in EnvSet /\ s \in WanSet /\ Signals(s, TRUE, env.sw, env.swq) /\ ModemInv(s, s.active \ missed)
  BY ModemHave
<1>2. s' = x /\ missed' = {} /\ UNCHANGED env
  BY DEF LinkDown, Become
<1>3. y \in WanSet /\ y.lost = s.lost
  <2> DEFINE T == [f \in F |-> IF f \in HasAddress(s) THEN <<>> ELSE s.flt[f]]
  <2>1. s.flt \in [F -> Seq(Rules)] /\ <<>> \in Seq(Rules)
    BY <1>1 DEF WanSet
  <2>2. T \in [F -> Seq(Rules)]
    BY <2>1
  <2>3. y = [s EXCEPT !.flt = T]
    BY <1>1 DEF WanSet
  <2> HIDE DEF T, y
  <2> QED BY <1>1, <2>2, <2>3 DEF WanSet
<1>4. w = IF HasAddress(s) = {} THEN s ELSE install_wan_filtering_rule(y, FALSE)
  BY DEF ModemDown
<1> HIDE DEF y
<1>5. w \in WanSet /\ w.lost = s.lost
  <2>1. env.sw \in BOOLEAN
    BY <1>1 DEF EnvSet
  <2>2. install_wan_filtering_rule(y, FALSE) \in WanSet /\ HwOnly(y, install_wan_filtering_rule(y, FALSE))
    BY <1>3, <2>1, Install
  <2> QED BY <1>1, <1>3, <1>4, <2>2 DEF HwOnly
<1> HIDE DEF w
<1>6. /\ w.if_mode \in {"ROUTER", "BRIDGE"} /\ w.bridge \in BOOLEAN /\ w.flt \in [F -> Seq(Rules)]
      /\ w.hw \in [F -> Tables] /\ w.lost \in [F -> SUBSET Nat]
  BY <1>5 DEF WanSet
<1>7. Blank(x) /\ x.lost = w.lost
  BY NewWanBlank
<1>7a. x \in WanSet
  BY <1>6, NewWanType
<1> HIDE DEF x
<1>8. ModemInv(x, x.active \ {})
  BY <1>1, <1>5, <1>7 DEF ModemInv, Blank
<1>9. ~On(x)
  BY <1>7 DEF On, Blank
<1>10. ModemHas(x, env.sw, env.swq) /\ Signals(x, TRUE, env.sw, env.swq)
  BY <1>1, <1>7, <1>9 DEF ModemHas, Signals, Blank
<1>11. Life(x, {}, env.pending, env.file)
  BY <1>7 DEF Life, Blank
<1> QED BY <1>2, <1>7a, <1>8, <1>10, <1>11, ModemStep

\* The firewall of one family is made anew from the file.
Again(w, f) == config_wan_firewall_rule(del_wan_firewall_rule(w, f), f)

LEMMA MadeAgain ==
    ASSUME NEW w \in WanSet, NEW f \in F, env.file \in DOMAIN Files, NEW ok \in SUBSET F, ModemInv(w, ok),
           \A g \in ok : Ready(w, g)
    PROVE  LET v == Again(w, f) IN
           /\ v \in WanSet /\ FltOnly(w, v) /\ v.from = [w.from EXCEPT ![f] = env.file]
           /\ ModemInv(v, IF Ready(w, f) THEN ok \cup {f} ELSE ok)
<1> DEFINE x == del_wan_firewall_rule(w, f)
           v == config_wan_firewall_rule(x, f)
           less == ok \ {f}
<1>1. x \in WanSet /\ FltOnly(w, x) /\ x.from = w.from /\ ModemInv(x, less)
  BY ModemDel
<1>2. less \in SUBSET F
  OBVIOUS
<1> HIDE DEF x, less
<1>3. /\ v \in WanSet /\ FltOnly(x, v) /\ v.from = [x.from EXCEPT ![f] = env.file]
      /\ ModemInv(v, IF Ready(x, f) THEN less \cup {f} ELSE less \ {f})
  BY <1>1, <1>2, ModemConfig
<1> HIDE DEF v
<1>4. FltOnly(w, v) /\ v.from = [w.from EXCEPT ![f] = env.file] /\ (Ready(x, f) <=> Ready(w, f))
  BY <1>1, <1>3 DEF FltOnly, Ready
<1>5. Ready(w, f) => less \cup {f} = ok \cup {f}
  BY DEF less
<1>6. ~Ready(w, f) => less \ {f} = ok
  BY DEF less
<1> QED BY <1>1, <1>3, <1>4, <1>5, <1>6 DEF Again, v, x

LEMMA Reloaded ==
    ASSUME NEW w \in WanSet, env.file \in DOMAIN Files, NEW ok \in SUBSET F, ModemInv(w, ok),
           \A g \in ok : Ready(w, g), NEW f \in F, NEW addr,
           \A g \in F : Ready(w, g) => g \in addr
    PROVE  LET v == IF f \in addr THEN Again(w, f) ELSE w IN
           /\ v \in WanSet /\ FltOnly(w, v) /\ (f \in addr => v.from[f] = env.file)
           /\ \A g \in F : g # f => v.from[g] = w.from[g]
           /\ ModemInv(v, IF Ready(w, f) THEN ok \cup {f} ELSE ok)
<1> DEFINE v == IF f \in addr THEN Again(w, f) ELSE w
<1>1. CASE f \notin addr
  <2>1. v = w /\ ~Ready(w, f)
    BY <1>1
  <2>2. FltOnly(w, w)
    BY DEF FltOnly
  <2> QED BY <1>1, <2>1, <2>2
<1>2. CASE f \in addr
  <2>1. v = Again(w, f)
    BY <1>2
  <2>2. /\ v \in WanSet /\ FltOnly(w, v) /\ v.from = [w.from EXCEPT ![f] = env.file]
        /\ ModemInv(v, IF Ready(w, f) THEN ok \cup {f} ELSE ok)
    BY <2>1, MadeAgain
  <2>3. w.from \in [F -> DOMAIN Files]
    BY DEF WanSet
  <2>4. v.from[f] = env.file /\ \A g \in F : g # f => v.from[g] = w.from[g]
    BY <2>2, <2>3
  <2> QED BY <2>2, <2>4
<1> QED BY <1>1, <1>2

(***************************************************************************)
(* Events.                                                                 *)
(***************************************************************************)
LEMMA Popped ==
    ASSUME NEW q \in Seq(BOOLEAN), q # <<>>
    PROVE  /\ Tail(q) \in Seq(BOOLEAN) /\ Len(Tail(q)) = Len(q) - 1 /\ Head(q) \in BOOLEAN
           /\ Tail(q) = <<>> => Last(q) = Head(q)
           /\ Tail(q) # <<>> => Last(Tail(q)) = Last(q) /\ Last(q) \in ToSet(Tail(q))
           /\ ToSet(q) = {Head(q)} \cup ToSet(Tail(q))
<1> DEFINE t == Tail(q)
           N == Len(q)
<1>1. N \in Nat /\ N # 0 /\ Head(q) = q[1] /\ DOMAIN q = 1..N /\ Head(q) \in BOOLEAN
  OBVIOUS
<1>2. t \in Seq(BOOLEAN) /\ Len(t) = N - 1 /\ DOMAIN t = 1..(N - 1) /\ \A i \in 1..(N - 1) : t[i] = q[i + 1]
  OBVIOUS
<1> HIDE DEF t, N
<1>3. Last(q) = q[N]
  BY DEF Last, N
<1>4. t = <<>> => Last(q) = Head(q)
  <2>1. t = <<>> => Len(t) = 0
    OBVIOUS
  <2> QED BY <1>1, <1>2, <1>3, <2>1
<1>5. ASSUME t # <<>> PROVE Last(t) = Last(q) /\ Last(q) \in ToSet(t)
  <2>1. Len(t) # 0
    BY <1>2, <1>5
  <2>2. N - 1 \in 1..(N - 1) /\ (N - 1) + 1 = N
    BY <1>1, <1>2, <2>1
  <2>3. t[N - 1] = q[N]
    BY <1>2, <2>2
  <2>4. Last(t) = t[N - 1]
    BY <1>2 DEF Last
  <2> QED BY <1>2, <1>3, <2>2, <2>3, <2>4 DEF ToSet
<1>6. ToSet(q) = {Head(q)} \cup ToSet(t)
  <2>1. \A i \in 1..N : i = 1 \/ (i - 1 \in 1..(N - 1) /\ t[i - 1] = q[i])
    BY <1>1, <1>2
  <2>2. \A i \in 1..(N - 1) : i + 1 \in 1..N
    BY <1>1
  <2>3. 1 \in 1..N
    BY <1>1
  <2>4. ASSUME NEW x \in ToSet(q) PROVE x \in {Head(q)} \cup ToSet(t)
    <3>1. PICK i \in 1..N : q[i] = x
      BY <1>1 DEF ToSet
    <3> QED BY <1>1, <1>2, <2>1, <3>1 DEF ToSet
  <2>5. ASSUME NEW x \in ToSet(t) PROVE x \in ToSet(q)
    <3>1. PICK i \in 1..(N - 1) : t[i] = x
      BY <1>2 DEF ToSet
    <3> QED BY <1>1, <1>2, <2>2, <3>1 DEF ToSet
  <2>6. Head(q) \in ToSet(q)
    BY <1>1, <2>3 DEF ToSet
  <2> QED BY <2>4, <2>5, <2>6
<1> QED BY <1>1, <1>2, <1>4, <1>5, <1>6 DEF t, N

LEMMA Pushed ==
    ASSUME NEW q \in Seq(BOOLEAN), NEW b \in BOOLEAN
    PROVE  /\ Append(q, b) \in Seq(BOOLEAN) /\ Len(Append(q, b)) = Len(q) + 1 /\ Append(q, b) # <<>>
           /\ Last(Append(q, b)) = b /\ ToSet(Append(q, b)) = ToSet(q) \cup {b}
<1> DEFINE a == Append(q, b)
           N == Len(q)
<1>1. /\ N \in Nat /\ DOMAIN q = 1..N /\ a \in Seq(BOOLEAN) /\ Len(a) = N + 1 /\ DOMAIN a = 1..(N + 1)
      /\ a[N + 1] = b /\ \A i \in 1..N : a[i] = q[i]
  OBVIOUS
<1> HIDE DEF a, N
<1>2. a # <<>>
  <2>1. Len(a) # 0
    BY <1>1
  <2> QED BY <2>1
<1>3. Last(a) = b
  BY <1>1 DEF Last
<1>4. ToSet(a) = ToSet(q) \cup {b}
  <2>1. \A i \in 1..(N + 1) : i \in 1..N \/ i = N + 1
    BY <1>1
  <2>2. \A i \in 1..N : i \in 1..(N + 1)
    BY <1>1
  <2>3. N + 1 \in 1..(N + 1)
    BY <1>1
  <2>4. ASSUME NEW x \in ToSet(a) PROVE x \in ToSet(q) \cup {b}
    <3>1. PICK i \in 1..(N + 1) : a[i] = x
      BY <1>1 DEF ToSet
    <3> QED BY <1>1, <2>1, <3>1 DEF ToSet
  <2>5. ASSUME NEW x \in ToSet(q) PROVE x \in ToSet(a)
    <3>1. PICK i \in 1..N : q[i] = x
      BY <1>1 DEF ToSet
    <3> QED BY <1>1, <2>2, <3>1 DEF ToSet
  <2>6. b \in ToSet(a)
    BY <1>1, <2>3 DEF ToSet
  <2> QED BY <2>4, <2>5, <2>6
<1> QED BY <1>1, <1>2, <1>3, <1>4 DEF a, N

\* What a step that changes the environment has to show.
LEMMA ModemEvent ==
    ASSUME IInv, Q6, env' \in EnvSet, Len(env'.swq) <= MaxPending, env'.scope = env.scope, s' \in WanSet,
           Life(s', missed', env'.pending, env'.file), Signals(s', TRUE, env'.sw, env'.swq),
           ModemInv(s', s'.active \ missed'), ModemHas(s', env'.sw, env'.swq)
    PROVE  IInv'
BY DEF IInv, Q6

LEMMA ModemReloaded ==
    ASSUME IInv, Q6
    PROVE  LET v == ReloadModem(s) IN
           /\ v \in WanSet /\ v.up = s.up /\ v.active = s.active /\ \A f \in F : Ready(v, f) <=> Ready(s, f)
           /\ \A f \in s.active : v.from[f] = env.file
           /\ ModemInv(v, s.active) /\ ModemHas(v, env.sw, env.swq) /\ Signals(v, TRUE, env.sw, env.swq)
<1> DEFINE addr == HasAddress(s)
           v4 == IF "v4" \in addr THEN Again(s, "v4") ELSE s
           v6 == IF "v6" \in addr THEN Again(v4, "v6") ELSE v4
           v == install_wan_filtering_rule(v6, FALSE)
           ok == s.active \ missed
           ok4 == IF Ready(s, "v4") THEN ok \cup {"v4"} ELSE ok
           ok6 == IF Ready(v4, "v6") THEN ok4 \cup {"v6"} ELSE ok4
<1>0. "v4" \in F /\ "v6" \in F /\ \A f \in F : f = "v4" \/ f = "v6"
  BY DEF F
<1>1. /\ env \in EnvSet /\ s \in WanSet /\ Life(s, missed, env.pending, env.file) /\ Signals(s, TRUE, env.sw, env.swq)
      /\ ModemInv(s, ok) /\ Steady(s) /\ ok \in SUBSET F /\ s.active \in SUBSET F /\ ModemHas(s, env.sw, env.swq)
  BY ModemHave, IsSteady
<1>2. \A f \in s.active : Ready(s, f)
  BY <1>1 DEF Life
<1>3. \A f \in F : Ready(s, f) => f \in addr
  <2>1. s.n6 = 2 => s.n6 > 0
    OBVIOUS
  <2> QED BY <2>1 DEF Ready, HasAddress
<1>4. CASE addr = {}
  <2>1. ReloadModem(s) = s
    BY <1>4 DEF ReloadModem
  <2>2. s.active = {} /\ ok = {}
    BY <1>1, <1>2, <1>3, <1>4
  <2> QED BY <1>1, <2>1, <2>2
<1>5. CASE addr # {}
  <2>1. ReloadModem(s) = v
    BY <1>5 DEF ReloadModem, Again
  <2>2. env.file \in DOMAIN Files /\ \A g \in ok : Ready(s, g)
    BY <1>1, <1>2 DEF EnvSet
  <2> HIDE DEF addr, ok
  <2>3. /\ v4 \in WanSet /\ FltOnly(s, v4) /\ ("v4" \in addr => v4.from["v4"] = env.file)
        /\ \A g \in F : g # "v4" => v4.from[g] = s.from[g]
        /\ ModemInv(v4, ok4)
    BY <1>0, <1>1, <1>3, <2>2, Reloaded
  <2> HIDE DEF v4
  <2>4. \A g \in F : Ready(v4, g) <=> Ready(s, g)
    BY <2>3, FltOnlyReady
  <2>5. ok4 \in SUBSET F /\ \A g \in ok4 : Ready(v4, g)
    BY <1>0, <1>1, <2>2, <2>4
  <2>6. \A g \in F : Ready(v4, g) => g \in addr
    BY <1>3, <2>4
  <2> HIDE DEF ok4
  <2>7. /\ v6 \in WanSet /\ FltOnly(v4, v6) /\ ("v6" \in addr => v6.from["v6"] = env.file)
        /\ \A g \in F : g # "v6" => v6.from[g] = v4.from[g]
        /\ ModemInv(v6, ok6)
    BY <1>0, <2>2, <2>3, <2>5, <2>6, Reloaded
  <2> HIDE DEF v6
  <2>8. ok6 \in SUBSET F
    BY <1>0, <2>5
  <2>9. s.active \subseteq ok6
    BY <1>0, <1>1, <1>2, <2>4 DEF ok4
  <2> HIDE DEF ok6
  <2>10. ModemInv(v6, s.active)
    BY <2>7, <2>8, <2>9, ModemLess
  <2>11. Steady(v6)
    BY <1>1, <2>3, <2>7, SteadySame DEF FltOnly
  <2>12. env.swq # <<>> => Last(env.swq) = env.sw
    BY <1>1 DEF Signals
  <2> DEFINE act == s.active
  <2>13. act \in SUBSET F /\ ModemInv(v6, act)
    BY <1>1, <2>10
  <2> HIDE DEF act, v
  <2>14. v \in WanSet /\ HwOnly(v6, v) /\ ModemInv(v, act) /\ ModemHas(v, env.sw, env.swq) /\ Signals(v, TRUE, env.sw, env.swq)
    BY <1>1, <2>7, <2>11, <2>12, <2>13, Installed DEF v
  <2>15. v.up = s.up /\ v.active = s.active /\ v.from = v6.from /\ v.v4 = s.v4 /\ v.n6 = s.n6
    BY <2>3, <2>7, <2>14 DEF FltOnly, HwOnly
  <2>16. \A f \in F : Ready(v, f) <=> Ready(s, f)
    BY <2>15 DEF Ready
  <2>17. v6.from["v4"] = v4.from["v4"]
    BY <1>0, <2>7
  <2>18. \A f \in s.active : v6.from[f] = env.file
    BY <1>0, <1>1, <1>2, <1>3, <2>3, <2>7, <2>17
  <2> QED BY <2>1, <2>14, <2>15, <2>16, <2>18 DEF act
<1> QED BY <1>4, <1>5

\* The environment after an event of the firewall file has been taken.
LEMMA EventTaken ==
    ASSUME env \in EnvSet, env.pending > 0, env' = [env EXCEPT !.pending = @ - 1]
    PROVE  /\ env' \in EnvSet /\ env'.scope = env.scope /\ env'.file = env.file /\ env'.sw = env.sw
           /\ env'.swq = env.swq
<1> DEFINE n == env.pending - 1
<1>1. env.pending \in 0..MaxPending /\ MaxPending \in Nat
  BY FirewallAssumption DEF EnvSet
<1>2. n \in 0..MaxPending
  BY <1>1
<1>3. env' = [env EXCEPT !.pending = n]
  BY DEF EnvSet
<1> HIDE DEF n
<1> QED BY <1>2, <1>3 DEF EnvSet

LEMMA ModemFirewallChange ==
    ASSUME IInv, Q6, FirewallChange
    PROVE  IInv'
<1>1. /\ env \in EnvSet /\ s \in WanSet /\ Life(s, missed, env.pending, env.file) /\ Signals(s, TRUE, env.sw, env.swq)
      /\ ModemInv(s, s.active \ missed) /\ ModemHas(s, env.sw, env.swq) /\ s.active \ missed \in SUBSET F
      /\ s.up \in BOOLEAN /\ s.gw \in BOOLEAN /\ Len(env.swq) <= MaxPending
  <2>1. s \in WanSet /\ Len(env.swq) <= MaxPending
    BY DEF IInv
  <2>2. s.up \in BOOLEAN /\ s.gw \in BOOLEAN
    BY <2>1 DEF WanSet
  <2> QED BY <2>1, <2>2, ModemHave
<1>2. /\ env' \in EnvSet /\ env'.scope = env.scope /\ env'.file = env.file /\ env'.sw = env.sw
      /\ env'.swq = env.swq
  BY <1>1, EventTaken DEF FirewallChange
<1>3. CASE ~s.up
  <2>1. s' = s /\ missed' = missed
    BY <1>3 DEF FirewallChange
  <2>2. s.active = {}
    BY <1>1, <1>3 DEF Life
  <2>3. Life(s', missed', env'.pending, env'.file)
    BY <1>1, <2>1, <2>2 DEF Life
  <2> QED BY <1>1, <1>2, <2>1, <2>3, ModemEvent
<1>4. CASE s.up /\ ~s.gw
  <2>1. s' = s /\ missed' = missed \cup Outdated(s, env.file)
    BY <1>4 DEF FirewallChange
  <2>2. \A f \in s.active : s.from[f] # env.file => f \in missed'
    BY <2>1 DEF Outdated
  <2>3. missed' \subseteq s.active
    BY <1>1, <2>1 DEF Life, Outdated
  <2>4. Life(s', missed', env'.pending, env'.file)
    BY <1>1, <1>2, <2>1, <2>2, <2>3 DEF Life
  <2>5. s.active \ missed' \in SUBSET (s.active \ missed)
    BY <2>1
  <2>6. ModemInv(s, s.active \ missed')
    BY <1>1, <2>5, ModemLess
  <2> QED BY <1>1, <1>2, <2>1, <2>4, <2>6, ModemEvent
<1>5. CASE s.up /\ s.gw
  <2> DEFINE v == ReloadModem(s)
  <2>1. s' = v /\ missed' = {}
    BY <1>5 DEF FirewallChange
  <2>2. /\ v \in WanSet /\ v.up = s.up /\ v.active = s.active /\ \A f \in F : Ready(v, f) <=> Ready(s, f)
        /\ \A f \in s.active : v.from[f] = env.file
        /\ ModemInv(v, s.active) /\ ModemHas(v, env.sw, env.swq) /\ Signals(v, TRUE, env.sw, env.swq)
    BY ModemReloaded
  <2> HIDE DEF v
  <2>3. Life(s', missed', env'.pending, env'.file)
    BY <1>1, <1>2, <1>5, <2>1, <2>2 DEF Life
  <2>4. s'.active \ missed' = s.active
    BY <2>1, <2>2
  <2> QED BY <1>1, <1>2, <2>1, <2>2, <2>3, <2>4, ModemEvent
<1> QED BY <1>1, <1>3, <1>4, <1>5

LEMMA Signalled ==
    ASSUME env \in EnvSet, Len(env.swq) <= MaxPending, NEW on \in BOOLEAN, Signal(on)
    PROVE  /\ env' \in EnvSet /\ env'.scope = env.scope /\ env'.file = env.file /\ env'.pending = env.pending
           /\ env'.sw = on /\ env'.swq = Append(env.swq, on) /\ Len(env'.swq) <= MaxPending
           /\ env'.swq # <<>> /\ Last(env'.swq) = on /\ ToSet(env'.swq) = ToSet(env.swq) \cup {on}
           /\ UNCHANGED <<s, missed>>
<1> DEFINE q == Append(env.swq, on)
<1>1. env.swq \in Seq(BOOLEAN) /\ MaxPending \in Nat
  BY FirewallAssumption DEF EnvSet
<1>2. /\ q \in Seq(BOOLEAN) /\ Len(q) = Len(env.swq) + 1 /\ q # <<>> /\ Last(q) = on
      /\ ToSet(q) = ToSet(env.swq) \cup {on}
  BY <1>1, Pushed
<1>3. env' = [env EXCEPT !.sw = on, !.swq = q] /\ Len(env.swq) < MaxPending /\ UNCHANGED <<s, missed>>
  BY DEF Signal, EnvSet
<1> HIDE DEF q
<1>4. /\ env' \in EnvSet /\ env'.scope = env.scope /\ env'.file = env.file /\ env'.pending = env.pending
      /\ env'.sw = on /\ env'.swq = q
  BY <1>2, <1>3 DEF EnvSet
<1>5. Len(q) <= MaxPending
  BY <1>1, <1>2, <1>3
<1> QED BY <1>2, <1>3, <1>4, <1>5 DEF q

LEMMA SignalSignals ==
    ASSUME NEW w, NEW q6, NEW sw, NEW swq, Signals(w, q6, sw, swq), NEW on \in BOOLEAN, NEW q, q # <<>>, Last(q) = on,
           ToSet(q) = ToSet(swq) \cup {on}
    PROVE  Signals(w, q6, on, q)
BY DEF Signals

LEMMA ModemSignal ==
    ASSUME IInv, Q6, NEW on \in BOOLEAN, Signal(on)
    PROVE  IInv'
<1>1. /\ env \in EnvSet /\ s \in WanSet /\ Life(s, missed, env.pending, env.file) /\ Signals(s, TRUE, env.sw, env.swq)
      /\ ModemInv(s, s.active \ missed) /\ ModemHas(s, env.sw, env.swq) /\ Len(env.swq) <= MaxPending
  BY ModemHave DEF IInv
<1>2. /\ env' \in EnvSet /\ env'.scope = env.scope /\ env'.file = env.file /\ env'.pending = env.pending
      /\ env'.sw = on /\ Len(env'.swq) <= MaxPending
      /\ env'.swq # <<>> /\ Last(env'.swq) = on /\ ToSet(env'.swq) = ToSet(env.swq) \cup {on}
      /\ UNCHANGED <<s, missed>>
  BY <1>1, Signalled
<1>3. Signals(s, TRUE, on, env'.swq)
  BY <1>1, <1>2, SignalSignals
<1>4. ModemHas(s, on, env'.swq)
  <2>1. ASSUME s.act, on, FALSE \notin ToSet(env'.swq) PROVE \A f \in F : s.hw[f] = InModem(<<Rule({}, "wan_dl")>>)
    <3>1. FALSE \notin ToSet(env.swq)
      BY <1>2, <2>1
    <3>2. env.sw \in BOOLEAN
      BY <1>1 DEF EnvSet
    <3>3. env.sw
      BY <1>1, <2>1, <3>1, <3>2 DEF Signals
    <3> QED BY <1>1, <2>1, <3>1, <3>3 DEF ModemHas
  <2> QED BY <1>2, <2>1 DEF ModemHas
<1> QED BY <1>1, <1>2, <1>3, <1>4, ModemEvent

LEMMA SwTaken ==
    ASSUME env \in EnvSet, Len(env.swq) <= MaxPending, SwRouting
    PROVE  /\ env' \in EnvSet /\ env'.scope = env.scope /\ env'.file = env.file /\ env'.pending = env.pending
           /\ env'.sw = env.sw /\ env'.swq = Tail(env.swq) /\ Len(env'.swq) <= MaxPending
           /\ env.swq \in Seq(BOOLEAN) /\ env.swq # <<>>
<1> DEFINE q == Tail(env.swq)
<1>1. env.swq \in Seq(BOOLEAN) /\ env.swq # <<>> /\ MaxPending \in Nat
  BY FirewallAssumption DEF EnvSet, SwRouting
<1>2. q \in Seq(BOOLEAN) /\ Len(q) = Len(env.swq) - 1
  BY <1>1, Popped
<1>3. env' = [env EXCEPT !.swq = q]
  BY DEF SwRouting, EnvSet
<1> HIDE DEF q
<1>4. /\ env' \in EnvSet /\ env'.scope = env.scope /\ env'.file = env.file /\ env'.pending = env.pending
      /\ env'.sw = env.sw /\ env'.swq = q
  BY <1>2, <1>3 DEF EnvSet
<1>5. Len(q) <= MaxPending
  BY <1>1, <1>2
<1> QED BY <1>1, <1>4, <1>5 DEF q

\* The signals that are left when one has been acted on.
LEMMA SignalsLeft ==
    ASSUME NEW w, NEW v, NEW q6, NEW sw \in BOOLEAN, NEW swq \in Seq(BOOLEAN), swq # <<>>, Signals(w, q6, sw, swq),
           v.act = Head(swq)
    PROVE  Signals(v, q6, sw, Tail(swq))
<1> DEFINE t == Tail(swq)
           h == Head(swq)
<1>1. /\ h \in BOOLEAN
      /\ t = <<>> => Last(swq) = h
      /\ t # <<>> => Last(t) = Last(swq) /\ Last(swq) \in ToSet(t)
  BY Popped
<1>2. v.act = h /\ Last(swq) = sw
  BY DEF Signals
<1> HIDE DEF t, h
<1>3. Signals(v, q6, sw, t)
  BY <1>1, <1>2 DEF Signals
<1> QED BY <1>3 DEF t

LEMMA ModemSwRouting ==
    ASSUME IInv, Q6, SwRouting
    PROVE  IInv'
<1> DEFINE t == Tail(env.swq)
           h == Head(env.swq)
           ok == s.active \ missed
<1>1. /\ env \in EnvSet /\ s \in WanSet /\ Life(s, missed, env.pending, env.file) /\ Signals(s, TRUE, env.sw, env.swq)
      /\ ModemInv(s, ok) /\ ModemHas(s, env.sw, env.swq) /\ Len(env.swq) <= MaxPending /\ ok \in SUBSET F
      /\ env.sw \in BOOLEAN
  <2>1. env \in EnvSet /\ Len(env.swq) <= MaxPending
    BY DEF IInv
  <2>2. env.sw \in BOOLEAN
    BY <2>1 DEF EnvSet
  <2> QED BY <2>1, <2>2, ModemHave
<1>2. /\ env' \in EnvSet /\ env'.scope = env.scope /\ env'.file = env.file /\ env'.pending = env.pending
      /\ env'.sw = env.sw /\ env'.swq = t /\ Len(env'.swq) <= MaxPending
      /\ env.swq \in Seq(BOOLEAN) /\ env.swq # <<>>
  BY <1>1, SwTaken
<1>3. /\ h \in BOOLEAN
      /\ t = <<>> => Last(env.swq) = h
      /\ t # <<>> => Last(t) = Last(env.swq) /\ Last(env.swq) \in ToSet(t)
      /\ ToSet(env.swq) = {h} \cup ToSet(t)
  BY <1>2, Popped
<1>4. Last(env.swq) = env.sw
  BY <1>1, <1>2 DEF Signals
<1>5. missed' = missed
  BY DEF SwRouting
<1> HIDE DEF ok
<1>6. CASE ~s.up
  <2>1. s' = s /\ ~s.act /\ ~On(s)
    <3>1. s' = s
      BY <1>6 DEF SwRouting
    <3>2. ~s.v4 /\ s.n6 = 0 /\ ~s.act
      BY <1>1, <1>6 DEF Life
    <3> QED BY <3>1, <3>2 DEF On
  <2> HIDE DEF t, h
  <2>2. Signals(s, TRUE, env.sw, t)
    BY <1>3, <1>4, <2>1 DEF Signals
  <2>3. ModemHas(s, env.sw, t)
    BY <2>1 DEF ModemHas
  <2> QED BY <1>1, <1>2, <1>5, <2>1, <2>2, <2>3, ModemEvent DEF ok
<1>7. CASE s.up /\ h
  <2> DEFINE v == install_wan_filtering_rule(s, TRUE)
  <2>1. s' = v
    BY <1>7 DEF SwRouting
  <2>2. /\ v \in WanSet /\ HwOnly(s, v) /\ v.act = TRUE
        /\ ~s.act => \A f \in F : v.hw[f] = InModem(<<Rule({}, "wan_dl")>>)
        /\ s.act => v = s
    BY <1>1, Install
  <2> HIDE DEF v
  <2>3. ModemInv(v, ok) /\ \A f \in F : Ready(v, f) <=> Ready(s, f)
    BY <1>1, <2>2, HwOnlyInv
  <2>4. v.up = s.up /\ v.active = s.active /\ v.from = s.from
    BY <2>2 DEF HwOnly
  <2>5. Life(v, missed, env.pending, env.file)
    BY <1>1, <1>7, <2>3, <2>4 DEF Life
  <2>6. v.act = h
    BY <1>3, <1>7, <2>2
  <2>7. Signals(v, TRUE, env.sw, t)
    BY <1>1, <1>2, <2>6, SignalsLeft
  <2> HIDE DEF t, h
  <2>8. ModemHas(v, env.sw, t)
    <3>1. ~env.sw => t # <<>>
      BY <1>3, <1>4, <1>7
    <3>2. ASSUME env.sw, FALSE \notin ToSet(t) PROVE \A f \in F : v.hw[f] = InModem(<<Rule({}, "wan_dl")>>)
      <4>1. FALSE \notin ToSet(env.swq)
        BY <1>3, <1>7, <3>2
      <4> QED BY <1>1, <2>2, <3>2, <4>1 DEF ModemHas
    <3> QED BY <3>1, <3>2 DEF ModemHas
  <2> QED BY <1>1, <1>2, <1>5, <2>1, <2>2, <2>3, <2>4, <2>5, <2>7, <2>8, ModemEvent DEF ok
<1>8. CASE s.up /\ ~h
  <2> DEFINE x == install_wan_filtering_rule(s, FALSE)
             v == [x EXCEPT !.act = FALSE]
  <2>1. s' = v
    BY <1>8 DEF SwRouting
  <2>2. /\ x \in WanSet /\ HwOnly(s, x)
        /\ ~env.sw /\ FitsModem(s.flt) => \A f \in F : x.hw[f] = InModem(s.flt[f])
    BY <1>1, Install
  <2> HIDE DEF x
  <2>3. v \in WanSet /\ v.act = FALSE /\ v.hw = x.hw
    BY <2>2 DEF WanSet
  <2>4. HwOnly(s, v)
    BY <2>2 DEF HwOnly, WanSet
  <2> HIDE DEF v
  <2>5. ModemInv(v, ok) /\ \A f \in F : Ready(v, f) <=> Ready(s, f)
    BY <1>1, <2>4, HwOnlyInv
  <2>6. v.up = s.up /\ v.active = s.active /\ v.from = s.from /\ v.flt = s.flt
    BY <2>4 DEF HwOnly
  <2>7. Life(v, missed, env.pending, env.file)
    BY <1>1, <1>8, <2>5, <2>6 DEF Life
  <2>8. v.act = h
    BY <1>3, <1>8, <2>3
  <2>9. Signals(v, TRUE, env.sw, t)
    BY <1>1, <1>2, <2>8, SignalsLeft
  <2> HIDE DEF t, h
  <2>10. ModemHas(v, env.sw, t)
    BY <2>2, <2>3, <2>6 DEF ModemHas
  <2> QED BY <1>1, <1>2, <1>5, <2>1, <2>3, <2>5, <2>6, <2>7, <2>9, <2>10, ModemEvent DEF ok
<1>9. s.up \in BOOLEAN
  BY <1>1 DEF WanSet
<1> QED BY <1>3, <1>6, <1>7, <1>8, <1>9

(***************************************************************************)
(* Steps that the pipe and the modem share.                                *)
(***************************************************************************)
LEMMA PipeLess ==
    ASSUME NEW w, NEW ok, NEW less \in SUBSET ok, PipeInv(w, ok)
    PROVE  PipeInv(w, less)
BY DEF PipeInv


LEMMA WriteFilePosted ==
    ASSUME IInv, NEW x \in DOMAIN Files, WriteFile(x), ~FEATURE_IPA_ANDROID
    PROVE  IInv'
<1>1. env \in EnvSet /\ s \in WanSet /\ Life(s, missed, env.pending, env.file) /\ Len(env.swq) <= MaxPending
  BY DEF IInv
<1> DEFINE n == env.pending + 1
<1>2. env' = [env EXCEPT !.file = x, !.pending = n] /\ env.pending < MaxPending /\ UNCHANGED <<s, missed>>
  BY <1>1 DEF WriteFile, EnvSet
<1>3. env.pending \in 0..MaxPending /\ MaxPending \in Nat
  BY <1>1, FirewallAssumption DEF EnvSet
<1>4. n \in 0..MaxPending /\ n # 0
  BY <1>2, <1>3
<1> HIDE DEF n
<1>5. env' \in EnvSet /\ env'.scope = env.scope /\ env'.sw = env.sw /\ env'.swq = env.swq /\ env'.pending = n
  BY <1>1, <1>2, <1>4 DEF EnvSet
<1>6. Life(s, missed, n, env'.file)
  BY <1>1, <1>4 DEF Life
<1> QED BY <1>1, <1>2, <1>5, <1>6 DEF IInv, Q6

\* The file changes and nothing tells of it.
LEMMA FileChanged ==
    ASSUME IInv, NEW x \in DOMAIN Files, env' = [env EXCEPT !.file = x], s' = s, missed' = missed \cup Outdated(s, x)
    PROVE  IInv'
<1>1. env \in EnvSet /\ s \in WanSet /\ Life(s, missed, env.pending, env.file) /\ Len(env.swq) <= MaxPending
  BY DEF IInv
<1>2. env' = [env EXCEPT !.file = x] /\ s' = s /\ missed' = missed \cup Outdated(s, x)
  OBVIOUS
<1>4. /\ env' \in EnvSet /\ env'.scope = env.scope /\ env'.sw = env.sw /\ env'.swq = env.swq /\ env'.pending = env.pending
      /\ env'.file = x
  BY <1>1, <1>2 DEF EnvSet
<1>5. \A f \in s.active : s.from[f] # x => f \in missed'
  BY <1>2 DEF Outdated
<1>6. missed' \subseteq s.active
  BY <1>1, <1>2 DEF Life, Outdated
<1>7. Life(s, missed', env.pending, x)
  BY <1>1, <1>5, <1>6 DEF Life
<1>8. s.active \ missed' \in SUBSET (s.active \ missed) /\ s.active \in SUBSET F
  BY <1>1, <1>2 DEF WanSet
<1>9. CASE Q6
  <2>1. ModemInv(s, s.active \ missed')
    BY <1>8, <1>9, ModemLess DEF IInv
  <2> QED BY <1>1, <1>2, <1>4, <1>7, <1>9, <2>1 DEF IInv, Q6
<1>10. CASE ~Q6
  <2>1. PipeInv(s, s.active \ missed')
    BY <1>8, <1>10, PipeLess DEF IInv
  <2> QED BY <1>1, <1>2, <1>4, <1>7, <1>10, <2>1 DEF IInv, Q6
<1> QED BY <1>9, <1>10

LEMMA WriteFileStep ==
    ASSUME IInv, NEW x \in DOMAIN Files, WriteFile(x)
    PROVE  IInv'
<1>1. CASE FEATURE_IPA_ANDROID
  <2>1. env' = [env EXCEPT !.file = x] /\ s' = s /\ missed' = missed \cup Outdated(s, x)
    BY <1>1 DEF WriteFile
  <2> QED BY <2>1, FileChanged
<1>2. CASE ~FEATURE_IPA_ANDROID
  BY <1>2, WriteFilePosted
<1> QED BY <1>1, <1>2

LEMMA RemoveFileStep ==
    ASSUME IInv, RemoveFile
    PROVE  IInv'
<1>1. env' = [env EXCEPT !.file = "none"] /\ s' = s /\ missed' = missed \cup Outdated(s, "none")
  BY DEF RemoveFile
<1>2. "none" \in DOMAIN Files
  BY FirewallAssumption
<1> QED BY <1>1, <1>2, FileChanged

LEMMA ModemLinkUp ==
    ASSUME IInv, Q6, LinkUp
    PROVE  IInv'
<1>1. s \in WanSet /\ Life(s, missed, env.pending, env.file)
  BY ModemHave
<1>2. s' = [s EXCEPT !.up = TRUE] /\ UNCHANGED <<env, missed>>
  BY DEF LinkUp
<1> DEFINE x == [s EXCEPT !.up = TRUE]
<1>3. x \in WanSet
  BY <1>1 DEF WanSet
<1>4. ModemSame(s, x) /\ x.active = s.active /\ x.up
  BY <1>1 DEF ModemSame, Ready, WanSet
<1>5. s' = x
  BY <1>2
<1> HIDE DEF x
<1>6. ModemInv(x, s.active \ missed)
  BY <1>4, ModemHave, ModemFrame
<1>7. ModemHas(x, env.sw, env.swq) /\ Signals(x, TRUE, env.sw, env.swq)
  BY <1>4, ModemHave, ModemFrameHas
<1>8. Life(x, missed, env.pending, env.file)
  BY <1>1, <1>4 DEF Life, ModemSame
<1> QED BY <1>2, <1>3, <1>4, <1>5, <1>6, <1>7, <1>8, ModemStep

LEMMA ModemCfgChange ==
    ASSUME IInv, Q6, NEW m \in {"ROUTER", "BRIDGE"}, CfgChange(m)
    PROVE  IInv'
<1>1. s \in WanSet /\ Life(s, missed, env.pending, env.file)
  BY ModemHave
<1> DEFINE x == [s EXCEPT !.if_mode = m]
<1>2. s' = x /\ UNCHANGED <<env, missed>>
  BY DEF CfgChange, Q6
<1>3. x \in WanSet
  BY <1>1 DEF WanSet
<1>4. ModemSame(s, x) /\ x.active = s.active /\ x.up = s.up /\ x.v4 = s.v4 /\ x.n6 = s.n6
  BY <1>1 DEF ModemSame, Ready, WanSet
<1> HIDE DEF x
<1>6. ModemInv(x, s.active \ missed)
  BY <1>4, ModemHave, ModemFrame
<1>7. ModemHas(x, env.sw, env.swq) /\ Signals(x, TRUE, env.sw, env.swq)
  BY <1>4, ModemHave, ModemFrameHas
<1>8. Life(x, missed, env.pending, env.file)
  BY <1>1, <1>4 DEF Life, ModemSame
<1> QED BY <1>2, <1>3, <1>4, <1>6, <1>7, <1>8, ModemStep

(***************************************************************************)
(* The steps of the interface on a pipe.                                   *)
(***************************************************************************)
LEMMA PipeEvent ==
    ASSUME IInv, ~Q6, env' \in EnvSet, Len(env'.swq) <= MaxPending, env'.scope = env.scope, s' \in WanSet,
           Life(s', missed', env'.pending, env'.file), Signals(s', FALSE, env'.sw, env'.swq),
           Good(s', "v4", "v4" \in s'.active \ missed'), Good(s', "v6", "v6" \in s'.active \ missed')
    PROVE  IInv'
<1>1. PipeInv(s', s'.active \ missed')
  BY PipeInvGood
<1>2. Q6' = FALSE
  BY DEF Q6
<1> QED BY <1>1, <1>2 DEF IInv

LEMMA PipeStep ==
    ASSUME IInv, ~Q6, UNCHANGED env, s' \in WanSet,
           Life(s', missed', env.pending, env.file), Signals(s', FALSE, env.sw, env.swq),
           Good(s', "v4", "v4" \in s'.active \ missed'), Good(s', "v6", "v6" \in s'.active \ missed')
    PROVE  IInv'
<1>1. env' \in EnvSet /\ Len(env'.swq) <= MaxPending /\ env'.scope = env.scope
  BY DEF IInv
<1> QED BY <1>1, PipeEvent

LEMMA PipeHave ==
    ASSUME IInv, ~Q6
    PROVE  /\ env \in EnvSet /\ s \in WanSet /\ Life(s, missed, env.pending, env.file) /\ Signals(s, FALSE, env.sw, env.swq)
           /\ Good(s, "v4", "v4" \in s.active \ missed) /\ Good(s, "v6", "v6" \in s.active \ missed)
           /\ Good(s, "v4", FALSE) /\ Good(s, "v6", FALSE)
           /\ s.active \in SUBSET F /\ missed \subseteq s.active /\ \A f \in s.active : Ready(s, f)
           /\ env.file \in DOMAIN Files /\ env.sw \in BOOLEAN /\ Len(env.swq) <= MaxPending
<1>0. Q6 = FALSE
  BY DEF Q6
<1>1. env \in EnvSet /\ s \in WanSet /\ Life(s, missed, env.pending, env.file) /\ Signals(s, FALSE, env.sw, env.swq)
  BY <1>0 DEF IInv
<1>2. PipeInv(s, s.active \ missed) /\ Len(env.swq) <= MaxPending
  BY DEF IInv
<1>3. Good(s, "v4", "v4" \in s.active \ missed) /\ Good(s, "v6", "v6" \in s.active \ missed)
  BY <1>2, PipeInvGood
<1>4. Good(s, "v4", FALSE) /\ Good(s, "v6", FALSE)
  BY <1>3, Looser
<1>5. s.active \in SUBSET F
  BY <1>1 DEF WanSet
<1>6. missed \subseteq s.active /\ \A f \in s.active : Ready(s, f)
  BY <1>1 DEF Life
<1>7. env.file \in DOMAIN Files /\ env.sw \in BOOLEAN
  BY <1>1 DEF EnvSet
<1> QED BY <1>1, <1>2, <1>3, <1>4, <1>5, <1>6, <1>7

LEMMA TwoFamilies == "v4" \in F /\ "v6" \in F /\ \A f \in F : f = "v4" \/ f = "v6"
BY DEF F

LEMMA PipeLinkUp ==
    ASSUME IInv, ~Q6, LinkUp
    PROVE  IInv'
<1> DEFINE x == [s EXCEPT !.up = TRUE]
<1>1. s \in WanSet /\ Life(s, missed, env.pending, env.file) /\ Signals(s, FALSE, env.sw, env.swq)
  BY PipeHave
<1>2. s' = x /\ UNCHANGED <<env, missed>>
  BY DEF LinkUp
<1>3. x \in WanSet
  BY <1>1 DEF WanSet
<1>4. /\ x.up /\ x.active = s.active /\ x.from = s.from /\ x.v4 = s.v4 /\ x.n6 = s.n6 /\ x.act = s.act
      /\ x.if_mode = s.if_mode
  BY <1>1 DEF WanSet
<1>5. \A f \in F : SameFor(s, x, f)
  BY <1>1 DEF WanSet, SameFor, Ready, PassOn
<1> HIDE DEF x
<1>6. Good(x, "v4", "v4" \in x.active \ missed) /\ Good(x, "v6", "v6" \in x.active \ missed)
  BY <1>4, <1>5, PipeHave, FrameGood, TwoFamilies
<1>7. Life(x, missed, env.pending, env.file)
  BY <1>1, <1>4 DEF Life, Ready
<1>8. HasAddress(x) = HasAddress(s)
  BY <1>4 DEF HasAddress
<1>9. Signals(x, FALSE, env.sw, env.swq)
  BY <1>1, <1>4, <1>8 DEF Signals
<1> QED BY <1>2, <1>3, <1>6, <1>7, <1>9, PipeStep

\* An address that has been taken, before software routing is looked at.
LEMMA PipeNewAddress ==
    ASSUME IInv, ~Q6, NEW f \in F, s.up, f = "v6" => s.n6 # 2
    PROVE  LET v == NewAddress(s, f) IN
           /\ v \in WanSet /\ v.up = s.up /\ v.active = s.active /\ v.from = s.from /\ v.act = s.act
           /\ \A g \in F : Ready(s, g) => Ready(v, g)
           /\ Good(v, "v4", "v4" \in s.active \ missed) /\ Good(v, "v6", "v6" \in s.active \ missed)
<1> DEFINE v == NewAddress(s, f)
           b4 == "v4" \in s.active \ missed
           b6 == "v6" \in s.active \ missed
<1>1. s \in WanSet /\ Good(s, "v4", b4) /\ Good(s, "v6", b6) /\ \A g \in s.active : Ready(s, g)
  BY PipeHave
<1>2. CASE f = "v4" /\ s.v4
  <2>1. v = s
    BY <1>2 DEF NewAddress
  <2> QED BY <1>1, <2>1
<1>3. CASE f = "v4" /\ ~s.v4
  <2>1. "v4" \notin s.active /\ ~b4
    BY <1>1, <1>3 DEF Ready
  <2> HIDE DEF b4, b6
  <2>2. v \in WanSet /\ v.v4 /\ v.n6 = s.n6 /\ AddrOnly(s, v) /\ Good(v, "v4", b4) /\ Good(v, "v6", b6)
    <3> DEFINE z == NewAddress(s, "v4")
    <3>1. z \in WanSet /\ z.v4 /\ z.n6 = s.n6 /\ AddrOnly(s, z) /\ Good(z, "v4", b4) /\ Good(z, "v6", b6)
      <4>1. ~s.v4 /\ "v4" \notin s.active /\ ~b4
        BY <1>3, <2>1
      <4> QED BY <1>1, <4>1, NewAddress4
    <3>2. v = z
      BY <1>3
    <3> HIDE DEF z, v
    <3> QED BY <3>1, <3>2
  <2> HIDE DEF v
  <2>3. \A g \in F : Ready(s, g) => Ready(v, g)
    BY <2>2 DEF Ready
  <2> QED BY <2>2, <2>3 DEF AddrOnly, b4, b6, v
<1>4. CASE f = "v6"
  <2>1. "v6" \notin s.active /\ ~b6
    BY <1>1, <1>4 DEF Ready
  <2> HIDE DEF b4, b6
  <2>2. v \in WanSet /\ v.v4 = s.v4 /\ v.n6 = s.n6 + 1 /\ AddrOnly(s, v) /\ Good(v, "v4", b4) /\ Good(v, "v6", b6)
    BY <1>1, <1>4, <2>1, NewAddress6
  <2> HIDE DEF v
  <2>3. \A g \in F : Ready(s, g) => Ready(v, g)
    BY <1>4, <2>2 DEF Ready
  <2> QED BY <2>2, <2>3 DEF AddrOnly, b4, b6, v
<1>5. s.v4 \in BOOLEAN
  BY <1>1 DEF WanSet
<1> QED BY <1>2, <1>3, <1>4, <1>5, TwoFamilies

LEMMA PipeAddrAdd ==
    ASSUME IInv, ~Q6, NEW f \in F, AddrAdd(f)
    PROVE  IInv'
<1> DEFINE w == NewAddress(s, f)
           v == IF env.sw THEN handle_software_routing_enable(w) ELSE w
           b4 == "v4" \in s.active \ missed
           b6 == "v6" \in s.active \ missed
<1>1. s.up /\ (f = "v6" => s.n6 # 2) /\ s' = v /\ UNCHANGED <<env, missed>>
  BY DEF AddrAdd, AddrAddLimit
<1>2. /\ w \in WanSet /\ w.up = s.up /\ w.active = s.active /\ w.from = s.from /\ w.act = s.act
      /\ \A g \in F : Ready(s, g) => Ready(w, g)
      /\ Good(w, "v4", b4) /\ Good(w, "v6", b6)
  BY <1>1, PipeNewAddress
<1>3. Life(s, missed, env.pending, env.file) /\ Signals(s, FALSE, env.sw, env.swq) /\ env.sw \in BOOLEAN
  BY PipeHave
<1> HIDE DEF w, b4, b6
<1>4. /\ v \in WanSet /\ v.up = s.up /\ v.active = s.active /\ v.from = s.from
      /\ v.act = (IF env.sw THEN TRUE ELSE s.act) /\ v.v4 = w.v4 /\ v.n6 = w.n6
      /\ Good(v, "v4", b4) /\ Good(v, "v6", b6)
  <2>1. CASE env.sw
    <3> DEFINE x == handle_software_routing_enable(w)
    <3>1. x \in WanSet /\ x.act = TRUE /\ SwOnly(w, x) /\ Good(x, "v4", b4) /\ Good(x, "v6", b6)
      BY <1>2, SwEnable
    <3>2. v = x
      BY <2>1
    <3> HIDE DEF x, v
    <3>3. x.up = w.up /\ x.v4 = w.v4 /\ x.n6 = w.n6 /\ x.active = w.active /\ x.from = w.from
      BY <1>2, <3>1, SwOnlyFields
    <3> QED BY <1>2, <2>1, <3>1, <3>2, <3>3
  <2>2. CASE ~env.sw
    BY <1>2, <2>2
  <2> QED BY <2>1, <2>2
<1> HIDE DEF v
<1>5. \A g \in F : Ready(s, g) => Ready(v, g)
  BY <1>2, <1>4 DEF Ready
<1>6. Life(v, missed, env.pending, env.file)
  BY <1>1, <1>3, <1>4, <1>5 DEF Life
<1>7. Signals(v, FALSE, env.sw, env.swq)
  BY <1>3, <1>4 DEF Signals
<1> QED BY <1>1, <1>4, <1>6, <1>7, PipeStep DEF b4, b6

LEMMA PipeRouteAdd ==
    ASSUME FilesFit, IInv, ~Q6, NEW f \in F, RouteAdd(f)
    PROVE  IInv'
<1> DEFINE b == (s.if_mode = "BRIDGE")
           w == [s EXCEPT !.active = @ \cup {f}, !.gw = TRUE, !.bridge = b]
           v == config_dft_firewall_rules(w, f)
<1>1. s \in WanSet /\ Life(s, missed, env.pending, env.file) /\ Signals(s, FALSE, env.sw, env.swq) /\ env.file \in DOMAIN Files
  BY PipeHave
<1>2. s.up /\ f \notin s.active /\ Ready(s, f)
  BY DEF RouteAdd, AddrAddLimit, Ready
<1>3. s' = v /\ missed' = missed /\ UNCHANGED env
  BY DEF RouteAdd, Become
<1>4. w \in WanSet
  BY <1>1 DEF WanSet
<1>5. w.up = s.up /\ w.active = s.active \cup {f} /\ w.from = s.from /\ w.act = s.act /\ w.v4 = s.v4 /\ w.n6 = s.n6
  BY <1>1 DEF WanSet
<1>6. \A g \in F : g # f => SameFor(s, w, g)
  BY <1>1 DEF WanSet, SameFor, Ready, PassOn
<1>7. LooseFor(s, w, f)
  BY <1>1 DEF WanSet, LooseFor, Ready
<1> HIDE DEF w
<1>8. Clear(s, f)
  <2>1. Good(s, f, FALSE)
    BY PipeHave, TwoFamilies
  <2> QED BY <1>2, <2>1, ClearGood
<1>9. Clear(w, f)
  BY <1>7, <1>8, LooseClear
<1>10. Ready(w, f) /\ f \in w.active
  BY <1>2, <1>5 DEF Ready
<1>11. v \in WanSet /\ FwOnly(w, v) /\ OthersSame(w, v, f) /\ Good(v, f, TRUE) /\ v.from = [w.from EXCEPT ![f] = env.file]
  BY <1>1, <1>4, <1>9, <1>10, Config
<1> HIDE DEF v
<1>12. /\ v.up = s.up /\ v.active = s.active \cup {f} /\ v.act = s.act /\ v.v4 = s.v4 /\ v.n6 = s.n6
       /\ v.from = [s.from EXCEPT ![f] = env.file]
  BY <1>5, <1>11 DEF FwOnly
<1>13. ASSUME NEW g \in F, g # f, NEW ok, Good(s, g, ok) PROVE Good(v, g, ok)
  <2>1. Good(w, g, ok)
    BY <1>6, <1>13, FrameGood
  <2>2. SameFor(w, v, g)
    BY <1>11, <1>13 DEF OthersSame
  <2> QED BY <2>1, <2>2, FrameGood
<1>14. \A g \in F : g # f => (g \in v.active \ missed <=> g \in s.active \ missed)
  BY <1>12
<1>15. ASSUME NEW g \in F, Good(s, g, g \in s.active \ missed) PROVE Good(v, g, g \in v.active \ missed)
  <2>1. CASE g # f
    <3> DEFINE old == g \in s.active \ missed
               new == g \in v.active \ missed
    <3>1. (new <=> old) /\ Good(s, g, old)
      BY <1>14, <1>15, <2>1
    <3> HIDE DEF old
    <3>2. Good(v, g, old)
      BY <1>13, <2>1, <3>1
    <3> HIDE DEF new
    <3>3. Good(v, g, new)
      BY <3>1, <3>2 DEF Good
    <3> QED BY <3>3 DEF new
  <2>2. CASE g = f
    BY <1>11, <2>2 DEF Good
  <2> QED BY <2>1, <2>2
<1>16. Good(v, "v4", "v4" \in v.active \ missed) /\ Good(v, "v6", "v6" \in v.active \ missed)
  BY <1>15, PipeHave, TwoFamilies
<1>17. Life(v, missed, env.pending, env.file)
  <2>1. s.from \in [F -> DOMAIN Files]
    BY <1>1 DEF WanSet
  <2>2. v.from[f] = env.file /\ \A g \in F : g # f => v.from[g] = s.from[g]
    BY <1>12, <2>1
  <2>3. \A g \in F : Ready(v, g) <=> Ready(s, g)
    BY <1>12 DEF Ready
  <2>4. s.active \in SUBSET F
    BY PipeHave
  <2> QED BY <1>1, <1>2, <1>12, <2>2, <2>3, <2>4 DEF Life
<1>18. Signals(v, FALSE, env.sw, env.swq)
  <2>1. HasAddress(v) = HasAddress(s)
    BY <1>12 DEF HasAddress
  <2> QED BY <1>1, <1>12, <2>1 DEF Signals
<1> QED BY <1>3, <1>11, <1>16, <1>17, <1>18, PipeStep

LEMMA PipeRouteDel ==
    ASSUME IInv, ~Q6, NEW f \in F, RouteDel(f)
    PROVE  IInv'
<1> DEFINE v == DelRoutes(s, f)
<1>1. s \in WanSet /\ Life(s, missed, env.pending, env.file) /\ Signals(s, FALSE, env.sw, env.swq) /\ Good(s, f, FALSE)
  BY PipeHave, TwoFamilies
<1>2. s.up /\ f \in s.active /\ s' = v /\ missed' = missed \ {f} /\ UNCHANGED env
  BY DEF RouteDel, DelFirewall, DelRoutes
<1>3. /\ v \in WanSet /\ RouteOnly(s, v) /\ (\A g \in F : g # f => SameFor(s, v, g))
      /\ v.active = s.active \ {f} /\ Good(v, f, FALSE) /\ v.from = s.from
  BY <1>1, RouteGoes
<1> HIDE DEF v
<1>4. ASSUME NEW g \in F, Good(s, g, g \in s.active \ missed) PROVE Good(v, g, g \in v.active \ missed')
  <2>1. CASE g # f
    <3> DEFINE old == g \in s.active \ missed
               new == g \in v.active \ missed'
    <3>1. (new <=> old) /\ Good(s, g, old) /\ SameFor(s, v, g)
      BY <1>2, <1>3, <1>4, <2>1
    <3> HIDE DEF old
    <3>2. Good(v, g, old)
      BY <3>1, FrameGood
    <3> HIDE DEF new
    <3>3. Good(v, g, new)
      BY <3>1, <3>2 DEF Good
    <3> QED BY <3>3 DEF new
  <2>2. CASE g = f
    <3>1. g \notin v.active
      BY <1>3, <2>2
    <3> QED BY <1>3, <2>2, <3>1 DEF Good
  <2> QED BY <2>1, <2>2
<1>5. Good(v, "v4", "v4" \in v.active \ missed') /\ Good(v, "v6", "v6" \in v.active \ missed')
  BY <1>4, PipeHave, TwoFamilies
<1>6. v.up = s.up /\ v.act = s.act /\ v.v4 = s.v4 /\ v.n6 = s.n6
  BY <1>3 DEF RouteOnly
<1>7. Life(v, missed', env.pending, env.file)
  <2>1. \A g \in F : Ready(v, g) <=> Ready(s, g)
    BY <1>6 DEF Ready
  <2> QED BY <1>1, <1>2, <1>3, <1>6, <2>1 DEF Life
<1>8. Signals(v, FALSE, env.sw, env.swq)
  <2>1. HasAddress(v) = HasAddress(s)
    BY <1>6 DEF HasAddress
  <2> QED BY <1>1, <1>6, <2>1 DEF Signals
<1> QED BY <1>2, <1>3, <1>5, <1>7, <1>8, PipeStep

LEMMA PipeLinkDown ==
    ASSUME IInv, ~Q6, LinkDown
    PROVE  IInv'
<1> DEFINE w == PipeDown(s)
           x == NewWan(w.if_mode, w.bridge, w.flt, w.hw, w.lost)
<1>1. s' = x /\ missed' = {} /\ UNCHANGED env
  BY DEF LinkDown, Become
<1>2. x \in WanSet /\ Good(x, "v4", FALSE) /\ Good(x, "v6", FALSE)
  BY PipeHave, PipeGoes
<1>3. Blank(x)
  BY NewWanBlank
<1> HIDE DEF x
<1>4. Signals(s, FALSE, env.sw, env.swq)
  BY PipeHave
<1>5. Signals(x, FALSE, env.sw, env.swq)
  BY <1>3, <1>4 DEF Signals, Blank
<1>6. Life(x, {}, env.pending, env.file)
  BY <1>3 DEF Life, Blank
<1>7. "v4" \notin x.active \ {} /\ "v6" \notin x.active \ {}
  BY <1>3 DEF Blank
<1>8. Good(x, "v4", "v4" \in x.active \ {}) /\ Good(x, "v6", "v6" \in x.active \ {})
  BY <1>2, <1>7 DEF Good
<1> QED BY <1>1, <1>2, <1>5, <1>6, <1>8, PipeStep

LEMMA PipeSignal ==
    ASSUME IInv, ~Q6, NEW on \in BOOLEAN, Signal(on)
    PROVE  IInv'
<1>1. /\ env' \in EnvSet /\ env'.scope = env.scope /\ env'.file = env.file /\ env'.pending = env.pending
      /\ env'.sw = on /\ Len(env'.swq) <= MaxPending
      /\ env'.swq # <<>> /\ Last(env'.swq) = on /\ ToSet(env'.swq) = ToSet(env.swq) \cup {on}
      /\ UNCHANGED <<s, missed>>
  BY PipeHave, Signalled
<1>2. Signals(s, FALSE, on, env'.swq)
  <2>1. Signals(s, FALSE, env.sw, env.swq)
    BY PipeHave
  <2> QED BY <1>1, <2>1, SignalSignals
<1> QED BY <1>1, <1>2, PipeHave, PipeEvent

LEMMA PipeFirewallChange ==
    ASSUME FilesFit, IInv, ~Q6, FirewallChange
    PROVE  IInv'
<1>1. /\ env \in EnvSet /\ s \in WanSet /\ Life(s, missed, env.pending, env.file) /\ Signals(s, FALSE, env.sw, env.swq)
      /\ Len(env.swq) <= MaxPending
  BY PipeHave
<1>2. /\ env' \in EnvSet /\ env'.scope = env.scope /\ env'.file = env.file /\ env'.sw = env.sw
      /\ env'.swq = env.swq
  BY <1>1, EventTaken DEF FirewallChange
<1>3. CASE ~s.up
  <2>1. s' = s /\ missed' = missed
    BY <1>3 DEF FirewallChange
  <2>2. s.active = {}
    BY <1>1, <1>3 DEF Life
  <2>3. Life(s', missed', env'.pending, env'.file)
    BY <1>1, <2>1, <2>2 DEF Life
  <2> QED BY <1>1, <1>2, <2>1, <2>3, PipeHave, PipeEvent
<1>4. CASE s.up
  <2> DEFINE v == ReloadPipe(s)
  <2>1. s' = v /\ missed' = {}
    BY <1>4 DEF FirewallChange, Become
  <2>2. /\ v \in WanSet /\ FwOnly(s, v) /\ Good(v, "v4", "v4" \in v.active) /\ Good(v, "v6", "v6" \in v.active)
        /\ \A f \in v.active : v.from[f] = env.file
    BY PipeHave, ReloadBoth
  <2> HIDE DEF v
  <2>3. v.up = s.up /\ v.active = s.active /\ v.act = s.act /\ v.v4 = s.v4 /\ v.n6 = s.n6
    BY <2>2 DEF FwOnly
  <2>4. Life(v, {}, env'.pending, env.file)
    <3>1. \A g \in F : Ready(v, g) <=> Ready(s, g)
      BY <2>3 DEF Ready
    <3> QED BY <1>1, <1>4, <2>2, <2>3, <3>1 DEF Life
  <2>5. Signals(v, FALSE, env.sw, env.swq)
    <3>1. HasAddress(v) = HasAddress(s)
      BY <2>3 DEF HasAddress
    <3> QED BY <1>1, <2>3, <3>1 DEF Signals
  <2>6. v.active \ {} = v.active
    OBVIOUS
  <2> QED BY <1>1, <1>2, <2>1, <2>2, <2>4, <2>5, <2>6, PipeEvent
<1> QED BY <1>3, <1>4

LEMMA PipeSwRouting ==
    ASSUME IInv, ~Q6, SwRouting
    PROVE  IInv'
<1> DEFINE t == Tail(env.swq)
           h == Head(env.swq)
           b4 == "v4" \in s.active \ missed
           b6 == "v6" \in s.active \ missed
           v == IF h THEN handle_software_routing_enable(s) ELSE handle_software_routing_disable(s)
<1>1. /\ env \in EnvSet /\ s \in WanSet /\ Life(s, missed, env.pending, env.file) /\ Signals(s, FALSE, env.sw, env.swq)
      /\ Len(env.swq) <= MaxPending /\ Good(s, "v4", b4) /\ Good(s, "v6", b6) /\ env.sw \in BOOLEAN
  BY PipeHave
<1>2. /\ env' \in EnvSet /\ env'.scope = env.scope /\ env'.file = env.file /\ env'.pending = env.pending
      /\ env'.sw = env.sw /\ env'.swq = t /\ Len(env'.swq) <= MaxPending
      /\ env.swq \in Seq(BOOLEAN) /\ env.swq # <<>>
  BY <1>1, SwTaken
<1>3. /\ h \in BOOLEAN
      /\ t # <<>> => Last(t) = Last(env.swq) /\ Last(env.swq) \in ToSet(t)
  BY <1>2, Popped
<1>4. Last(env.swq) = env.sw
  BY <1>1, <1>2 DEF Signals
<1>5. missed' = missed
  BY DEF SwRouting
<1>6. CASE ~s.up
  <2>1. s' = s
    BY <1>6 DEF SwRouting
  <2>2. ~s.act /\ ~s.v4 /\ s.n6 = 0
    BY <1>1, <1>6 DEF Life
  <2>3. HasAddress(s) = {}
    BY <2>2 DEF HasAddress
  <2> HIDE DEF t, h
  <2>4. Signals(s, FALSE, env.sw, t)
    BY <1>3, <1>4, <2>2, <2>3 DEF Signals
  <2> QED BY <1>1, <1>2, <1>5, <2>1, <2>4, PipeEvent
<1>7. CASE s.up
  <2>1. s' = v
    BY <1>7 DEF SwRouting
  <2> HIDE DEF b4, b6
  <2>2. v \in WanSet /\ SwOnly(s, v) /\ Good(v, "v4", b4) /\ Good(v, "v6", b6) /\ v.act = h
    <3>1. CASE h
      <4> DEFINE x == handle_software_routing_enable(s)
      <4>1. x \in WanSet /\ x.act = TRUE /\ SwOnly(s, x) /\ Good(x, "v4", b4) /\ Good(x, "v6", b6)
        BY <1>1, SwEnable
      <4>2. v = x /\ h = TRUE
        BY <1>3, <3>1
      <4> HIDE DEF x, v, h
      <4> QED BY <4>1, <4>2
    <3>2. CASE ~h
      <4> DEFINE x == handle_software_routing_disable(s)
      <4>1. x \in WanSet /\ x.act = FALSE /\ SwOnly(s, x) /\ Good(x, "v4", b4) /\ Good(x, "v6", b6)
        BY <1>1, SwDisable
      <4>2. v = x /\ h = FALSE
        BY <1>3, <3>2
      <4> HIDE DEF x, v, h
      <4> QED BY <4>1, <4>2
    <3> QED BY <3>1, <3>2
  <2> HIDE DEF v
  <2>3. v.up = s.up /\ v.active = s.active /\ v.from = s.from /\ v.v4 = s.v4 /\ v.n6 = s.n6
    BY <1>1, <2>2, SwOnlyFields
  <2>4. Life(v, missed, env.pending, env.file)
    <3>1. \A g \in F : Ready(v, g) <=> Ready(s, g)
      BY <2>3 DEF Ready
    <3> QED BY <1>1, <1>7, <2>3, <3>1 DEF Life
  <2>5. HasAddress(v) = HasAddress(s)
    BY <2>3 DEF HasAddress
  <2>6. Signals(v, FALSE, env.sw, t)
    BY <1>1, <1>2, <2>2, SignalsLeft
  <2> HIDE DEF t, h
  <2> QED BY <1>2, <1>5, <2>1, <2>2, <2>3, <2>4, <2>6, PipeEvent DEF b4, b6
<1> QED BY <1>6, <1>7

LEMMA PipeCfgChange ==
    ASSUME FilesFit, IInv, ~Q6, NEW m \in {"ROUTER", "BRIDGE"}, CfgChange(m)
    PROVE  IInv'
<1> DEFINE w == [s EXCEPT !.if_mode = m]
           x == [w EXCEPT !.bridge = (m = "BRIDGE")]
           v == ReloadPipe(x)
           acts == env.scope.mode = "ECM_WAN" /\ s.gw /\ s.bridge # (m = "BRIDGE")
<1>1. /\ env \in EnvSet /\ s \in WanSet /\ Life(s, missed, env.pending, env.file) /\ Signals(s, FALSE, env.sw, env.swq)
      /\ s.active \in SUBSET F /\ missed \subseteq s.active /\ env.file \in DOMAIN Files
  BY PipeHave
<1>2. IF acts THEN s' = v /\ missed' = {} ELSE s' = w /\ missed' = missed \cup (s.active \cap {"v4"})
  BY DEF CfgChange, Become
<1>2a. UNCHANGED env
  BY DEF CfgChange
<1>3. w \in WanSet
  BY <1>1 DEF WanSet
<1>4. /\ w.up = s.up /\ w.active = s.active /\ w.from = s.from /\ w.act = s.act /\ w.v4 = s.v4 /\ w.n6 = s.n6
      /\ LooseFor(s, w, "v4") /\ LooseFor(s, w, "v6") /\ SameFor(s, w, "v6")
  BY <1>1 DEF WanSet, LooseFor, SameFor, Ready, PassOn
<1> HIDE DEF w
<1>5. Good(w, "v4", FALSE) /\ Good(w, "v6", FALSE) /\ Good(w, "v6", "v6" \in s.active \ missed)
  BY <1>4, PipeHave, LooseGood, FrameGood, TwoFamilies
<1>6. \A g \in F : Ready(w, g) <=> Ready(s, g)
  BY <1>4 DEF Ready
<1>7. HasAddress(w) = HasAddress(s)
  BY <1>4 DEF HasAddress
<1>8. CASE ~acts
  <2>1. s' = w /\ missed' = missed \cup (s.active \cap {"v4"})
    BY <1>2, <1>8
  <2> DEFINE old == "v6" \in s.active \ missed
             new == "v6" \in w.active \ missed'
  <2>2. "v4" \notin w.active \ missed' /\ (new <=> old)
    BY <1>4, <2>1
  <2>3. Good(w, "v4", "v4" \in w.active \ missed')
    BY <1>5, <2>2 DEF Good
  <2>4. Good(w, "v6", old)
    BY <1>5
  <2>5. Good(w, "v6", new)
    <3> HIDE DEF old, new
    <3> QED BY <2>2, <2>4 DEF Good
  <2>6. Life(w, missed', env.pending, env.file)
    BY <1>1, <1>4, <1>6, <2>1 DEF Life
  <2>7. Signals(w, FALSE, env.sw, env.swq)
    BY <1>1, <1>4, <1>7 DEF Signals
  <2> QED BY <1>2a, <1>3, <2>1, <2>3, <2>5, <2>6, <2>7, PipeStep
<1>9. CASE acts
  <2>1. s' = v /\ missed' = {}
    BY <1>2, <1>9
  <2>2. x \in WanSet
    BY <1>3 DEF WanSet
  <2>3. /\ x.up = w.up /\ x.active = w.active /\ x.act = w.act /\ x.v4 = w.v4 /\ x.n6 = w.n6
        /\ LooseFor(w, x, "v4") /\ LooseFor(w, x, "v6")
    BY <1>3 DEF WanSet, LooseFor, Ready
  <2> HIDE DEF x
  <2>4. Good(x, "v4", FALSE) /\ Good(x, "v6", FALSE)
    BY <1>5, <2>3, LooseGood, TwoFamilies
  <2>5. \A f \in x.active : Ready(x, f)
    BY <1>1, <1>4, <2>3, PipeHave DEF Ready
  <2>6. /\ v \in WanSet /\ FwOnly(x, v) /\ Good(v, "v4", "v4" \in v.active) /\ Good(v, "v6", "v6" \in v.active)
        /\ \A f \in v.active : v.from[f] = env.file
    BY <1>1, <2>2, <2>4, <2>5, ReloadBoth
  <2> HIDE DEF v
  <2>7. v.up = s.up /\ v.active = s.active /\ v.act = s.act /\ v.v4 = s.v4 /\ v.n6 = s.n6
    BY <1>4, <2>3, <2>6 DEF FwOnly
  <2>8. Life(v, {}, env.pending, env.file)
    <3>1. \A g \in F : Ready(v, g) <=> Ready(s, g)
      BY <2>7 DEF Ready
    <3> QED BY <1>1, <2>6, <2>7, <3>1 DEF Life
  <2>9. Signals(v, FALSE, env.sw, env.swq)
    <3>1. HasAddress(v) = HasAddress(s)
      BY <2>7 DEF HasAddress
    <3> QED BY <1>1, <2>7, <3>1 DEF Signals
  <2>10. v.active \ {} = v.active
    OBVIOUS
  <2> QED BY <1>2a, <2>1, <2>6, <2>8, <2>9, <2>10, PipeStep
<1> QED BY <1>8, <1>9

(***************************************************************************)
(* The invariant holds in every state.                                     *)
(***************************************************************************)
LEMMA InitInv == Init => IInv
<1> SUFFICES ASSUME Init PROVE IInv
  OBVIOUS
<1>1. PICK c \in Scopes, file \in DOMAIN Files, m \in {"ROUTER", "BRIDGE"} :
          /\ env = [scope |-> c, file |-> file, pending |-> 0, sw |-> FALSE, swq |-> <<>>]
          /\ s = NewWan(m, FALSE, None, None, [f \in F |-> {}])
  BY DEF Init
<1>2. missed = {}
  BY DEF Init
<1>3. MaxPending \in Nat
  BY FirewallAssumption
<1>4. env \in EnvSet /\ env.swq = <<>> /\ Len(env.swq) <= MaxPending /\ env.sw = FALSE
  <2>1. <<>> \in Seq(BOOLEAN) /\ Len(<<>>) = 0 /\ 0 \in 0..MaxPending
    BY <1>3
  <2> QED BY <1>1, <1>3, <2>1 DEF EnvSet
<1> DEFINE none == [f \in F |-> {}]
<1>5. None \in [F -> Seq(Rules)] /\ None \in [F -> Tables] /\ none \in [F -> SUBSET Nat]
  BY TablesClosed DEF None
<1>6. s \in WanSet
  BY <1>1, <1>5, NewWanType
<1>7. Blank(s) /\ s.lost = none
  <2>1. ~s.up /\ ~s.v4 /\ s.n6 = 0 /\ s.active = {} /\ ~s.act /\ s.lost = none
    BY <1>1 DEF NewWan
  <2>2. \A f \in F : ~Ready(s, f)
    BY <2>1 DEF Ready
  <2>3. HasAddress(s) = {}
    BY <2>1 DEF HasAddress
  <2> QED BY <2>1, <2>2, <2>3 DEF Blank
<1>8. Life(s, missed, env.pending, env.file)
  BY <1>2, <1>7 DEF Life, Blank
<1>9. Signals(s, Q6, env.sw, env.swq)
  BY <1>4, <1>7 DEF Signals, Blank
<1>10. s.active \ missed = {}
  BY <1>7 DEF Blank
<1>11. ASSUME Q6 PROVE ModemInv(s, s.active \ missed) /\ ModemHas(s, env.sw, env.swq)
  <2>1. ~On(s)
    BY <1>7 DEF Blank, On
  <2>2. ModemHas(s, env.sw, env.swq)
    BY <1>4, <2>1 DEF ModemHas
  <2>3. \A f \in F : s.lost[f] = {}
    BY <1>7
  <2> QED BY <1>7, <1>10, <2>2, <2>3 DEF ModemInv, Blank
<1>12. PipeInv(s, s.active \ missed)
  <2>1. AllLost(None, none)
    <3>1. \A f \in F : None[f] = <<>> /\ none[f] = {}
      BY DEF None
    <3>2. Distinct(<<>>) /\ Hdls(<<>>) = {}
      BY TablesClosed DEF Distinct
    <3> QED BY <1>5, <3>1, <3>2 DEF AllLost
  <2> HIDE DEF none
  <2>2. Good(s, "v4", FALSE) /\ Good(s, "v6", FALSE)
    BY <1>1, <1>5, <2>1, NewWanGood DEF none
  <2> QED BY <1>10, <2>2, PipeInvGood DEF Good
<1> QED BY <1>4, <1>6, <1>8, <1>9, <1>11, <1>12 DEF IInv

LEMMA NextInv == FilesFit /\ IInv /\ [Next]_vars => IInv'
<1> SUFFICES ASSUME FilesFit, IInv, [Next]_vars PROVE IInv'
  OBVIOUS
<1>1. CASE UNCHANGED vars
  BY <1>1 DEF vars, IInv, Q6
<1>2. CASE LinkUp
  BY <1>2, ModemLinkUp, PipeLinkUp
<1>3. CASE LinkDown
  BY <1>3, ModemLinkDown, PipeLinkDown
<1>4. ASSUME NEW f \in F, AddrAdd(f) PROVE IInv'
  BY <1>4, ModemAddrAdd, PipeAddrAdd
<1>5. ASSUME NEW f \in F, RouteAdd(f) PROVE IInv'
  BY <1>5, ModemRouteAdd, PipeRouteAdd
<1>6. ASSUME NEW f \in F, RouteDel(f) PROVE IInv'
  BY <1>6, ModemRouteDel, PipeRouteDel
<1>7. ASSUME NEW x \in DOMAIN Files, WriteFile(x) PROVE IInv'
  BY <1>7, WriteFileStep
<1>8. CASE RemoveFile
  BY <1>8, RemoveFileStep
<1>9. CASE FirewallChange
  BY <1>9, ModemFirewallChange, PipeFirewallChange
<1>10. ASSUME NEW on \in BOOLEAN, Signal(on) PROVE IInv'
  BY <1>10, ModemSignal, PipeSignal
<1>11. CASE SwRouting
  BY <1>11, ModemSwRouting, PipeSwRouting
<1>12. ASSUME NEW m \in {"ROUTER", "BRIDGE"}, CfgChange(m) PROVE IInv'
  BY <1>12, ModemCfgChange, PipeCfgChange
<1> QED BY <1>1, <1>2, <1>3, <1>4, <1>5, <1>6, <1>7, <1>8, <1>9, <1>10, <1>11, <1>12 DEF Next

\* In every state of the interface its rules are those the invariant describes:
\* what is in the filter table, in front of what, from which file, and which
\* signals have still to be acted on.  The files must fit: with more rules than
\* there is room for handles, del_dft_firewall_rules deletes none.
THEOREM Invariance == FilesFit => (Spec => []IInv)
<1> SUFFICES ASSUME FilesFit PROVE Spec => []IInv
  OBVIOUS
<1>1. IInv /\ [Next]_vars => IInv'
  BY NextInv
<1> QED BY <1>1, InitInv, PTL DEF Spec

LEMMA InvType == IInv => TypeOK
<1> SUFFICES ASSUME IInv PROVE TypeOK
  OBVIOUS
<1>1. env \in EnvSet /\ Len(env.swq) <= MaxPending /\ s \in WanSet /\ Life(s, missed, env.pending, env.file)
  BY DEF IInv
<1>2. /\ env.scope \in Scopes /\ env.file \in DOMAIN Files /\ env.sw \in BOOLEAN /\ env.pending \in 0..MaxPending
  BY <1>1 DEF EnvSet
<1>3. /\ s.n6 \in 0..2 /\ s.gw \in BOOLEAN /\ s.act \in BOOLEAN /\ s.mask \in BOOLEAN
      /\ \A f \in F : s.from[f] \in DOMAIN Files
  BY <1>1 DEF WanSet
<1>4. missed \subseteq s.active /\ s.active \subseteq {f \in F : Ready(s, f)}
  BY <1>1 DEF Life
<1>5. s.active \subseteq HasAddress(s)
  BY <1>4 DEF HasAddress, Ready
<1>6. \A f \in F : s.lost[f] \subseteq Hdls(s.hw[f])
  <2>1. CASE Q6
    BY <2>1 DEF IInv, ModemInv
  <2>2. CASE ~Q6
    BY <2>2 DEF IInv, PipeInv, Held, Pipe
  <2> QED BY <2>1, <2>2
<1> QED BY <1>1, <1>2, <1>3, <1>4, <1>5, <1>6 DEF TypeOK

\* Type correctness: no third IPv6 address is ever taken in, routes are only of
\* families with an address, and a rule that was left behind is in the table.
THEOREM TypeCorrect == FilesFit => (Spec => []TypeOK)
BY Invariance, InvType, PTL

\* A table whose rules are those of its parts and those left behind.
LEMMA PipeCount ==
    ASSUME NEW t, NEW lost, NEW q, Pipe(t, lost, q)
    PROVE  /\ Len(t) = Len(q.sw) + Len(q.fl) + Len(q.own) + Len(q.frag) + Len(q.fw) + Cardinality(lost)
           /\ Hdls(t) = lost \cup PartHdls(q)
<1>1. t \in Tables /\ q \in Parts /\ Distinct(t) /\ lost \subseteq Hdls(t) /\ Without(t, lost) = Whole(q)
  BY DEF Pipe
<1>2. Hdls(t) = lost \cup PartHdls(q) /\ lost \cap PartHdls(q) = {}
  BY PartsApart
<1>3. PartHdls(q) = Hdls(Whole(q)) /\ Whole(q) \in Tables /\ Distinct(Whole(q))
  <2>1. Distinct(Without(t, lost))
    BY <1>1, WithoutDistinct
  <2> QED BY <1>1, <2>1, WholeHdls, PartTypes
<1>4. /\ IsFiniteSet(Hdls(t)) /\ Cardinality(Hdls(t)) = Len(t)
      /\ IsFiniteSet(PartHdls(q)) /\ Cardinality(PartHdls(q)) = Len(Whole(q))
  BY <1>1, <1>3, DistinctCount
<1>5. IsFiniteSet(lost)
  BY <1>1, <1>4, FS_Subset
<1>6. Cardinality(Hdls(t)) = Cardinality(lost) + Cardinality(PartHdls(q)) - Cardinality(lost \cap PartHdls(q))
  BY <1>2, <1>4, <1>5, FS_Union
<1>7. Cardinality(lost \cap PartHdls(q)) = 0
  BY <1>2, FS_EmptySet
<1>8. Cardinality(lost) \in Nat
  BY <1>5, FS_CardinalityType
<1>9. /\ q.sw \in Tables /\ q.fl \in Tables /\ q.own \in Tables /\ q.frag \in Tables /\ q.fw \in Tables
      /\ q.frag \o q.fw \in Tables /\ q.own \o (q.frag \o q.fw) \in Tables
      /\ q.fl \o (q.own \o (q.frag \o q.fw)) \in Tables
  BY <1>1, PartTypes
<1> DEFINE a == q.frag \o q.fw
           b == q.own \o a
           c == q.fl \o b
<1>10. Len(a) = Len(q.frag) + Len(q.fw) /\ a \in Tables
  BY <1>9, TablesClosed
<1>10a. b \in Tables /\ c \in Tables /\ Whole(q) = q.sw \o c
  BY <1>9 DEF Whole
<1> HIDE DEF a
<1>11. Len(b) = Len(q.own) + Len(a)
  BY <1>9, <1>10, TablesClosed
<1> HIDE DEF b
<1>12. Len(c) = Len(q.fl) + Len(b)
  BY <1>9, <1>10a, TablesClosed
<1> HIDE DEF c
<1>13. Len(Whole(q)) = Len(q.sw) + Len(c)
  BY <1>9, <1>10a, TablesClosed
<1>14. Len(q.sw) \in Nat /\ Len(q.fl) \in Nat /\ Len(q.own) \in Nat /\ Len(q.frag) \in Nat /\ Len(q.fw) \in Nat
  BY <1>9, TablesClosed
<1>15. Len(t) = Len(q.sw) + Len(q.fl) + Len(q.own) + Len(q.frag) + Len(q.fw) + Cardinality(lost)
  <2> DEFINE l == Cardinality(lost)
             n == Len(t)
             m == Len(Whole(q))
             n1 == Len(q.sw)
             n2 == Len(q.fl)
             n3 == Len(q.own)
             n4 == Len(q.frag)
             n5 == Len(q.fw)
  <2>1. l \in Nat /\ n = l + m - 0
    BY <1>4, <1>6, <1>7, <1>8
  <2>2. m = n1 + (n2 + (n3 + (n4 + n5)))
    BY <1>10, <1>11, <1>12, <1>13
  <2>3. n1 \in Nat /\ n2 \in Nat /\ n3 \in Nat /\ n4 \in Nat /\ n5 \in Nat
    BY <1>14
  <2> HIDE DEF l, n, m, n1, n2, n3, n4, n5
  <2>4. n = n1 + n2 + n3 + n4 + n5 + l
    BY <2>1, <2>2, <2>3
  <2> QED BY <2>4 DEF l, n, n1, n2, n3, n4, n5
<1> QED BY <1>2, <1>15

LEMMA NatConcat ==
    ASSUME NEW x \in Seq(Nat), NEW y \in Seq(Nat)
    PROVE  x \o y \in Seq(Nat) /\ Len(x \o y) = Len(x) + Len(y) /\ ToSet(x \o y) = ToSet(x) \cup ToSet(y)
<1>1. Len(x \o y) = Len(x) + Len(y)
  OBVIOUS
<1> QED BY <1>1, HdlSets

LEMMA HeldCount ==
    ASSUME NEW w \in WanSet, NEW f \in F, NEW q, Held(w, f, q)
    PROVE  LET held == w.hdl[f] \o w.dft[f] \o w.fl[f] \o w.swh[f]
                         \o (IF f = "v6" THEN w.frag \o w.own ELSE <<>>) IN
           /\ Len(held) = Len(q.sw) + Len(q.fl) + Len(q.own) + Len(q.frag) + Len(q.fw)
           /\ ToSet(held) = PartHdls(q)
<1> DEFINE A == w.hdl[f] \o w.dft[f]
           B == A \o w.fl[f]
           C == B \o w.swh[f]
           X == IF f = "v6" THEN w.frag \o w.own ELSE <<>>
           D == C \o X
<1>1. q \in Parts
  BY DEF Held, Pipe
<1>2. q.sw \in Tables /\ q.fl \in Tables /\ q.own \in Tables /\ q.frag \in Tables /\ q.fw \in Tables
  BY <1>1, PartTypes
<1>3. \A t \in Tables : ToSet(HdlSeq(t)) = Hdls(t) /\ HdlSeq(t) \in Seq(Nat) /\ Len(HdlSeq(t)) = Len(t)
  BY HdlSets
<1>4. A \in Seq(Nat) /\ Len(A) = Len(q.fw) /\ ToSet(A) = Hdls(q.fw)
  BY <1>2, <1>3 DEF Held
<1>5. w.fl[f] \in Seq(Nat) /\ Len(w.fl[f]) = Len(q.fl) /\ ToSet(w.fl[f]) = Hdls(q.fl)
  BY <1>2, <1>3 DEF Held
<1>6. w.swh[f] \in Seq(Nat) /\ Len(w.swh[f]) = Len(q.sw) /\ ToSet(w.swh[f]) = Hdls(q.sw)
  BY <1>2, <1>3 DEF Held
<1>7. X \in Seq(Nat) /\ Len(X) = Len(q.frag) + Len(q.own) /\ ToSet(X) = Hdls(q.frag) \cup Hdls(q.own)
  <2>1. CASE f = "v6"
    <3>1. /\ w.frag \in Seq(Nat) /\ Len(w.frag) = Len(q.frag) /\ ToSet(w.frag) = Hdls(q.frag)
          /\ w.own \in Seq(Nat) /\ Len(w.own) = Len(q.own) /\ ToSet(w.own) = Hdls(q.own)
      BY <1>2, <1>3, <2>1 DEF Held
    <3>2. X = w.frag \o w.own
      BY <2>1
    <3> HIDE DEF X
    <3> QED BY <3>1, <3>2, NatConcat
  <2>2. CASE f # "v6"
    <3>1. q.own = <<>> /\ q.frag = <<>> /\ X = <<>>
      BY <2>2 DEF Held
    <3>2. <<>> \in Seq(Nat) /\ Len(<<>>) = 0 /\ ToSet(<<>>) = {} /\ Hdls(<<>>) = {}
      BY HdlSets, TablesClosed
    <3> HIDE DEF X
    <3> QED BY <3>1, <3>2
  <2> QED BY <2>1, <2>2
<1> HIDE DEF A, X
<1>8. B \in Seq(Nat) /\ Len(B) = Len(q.fw) + Len(q.fl) /\ ToSet(B) = Hdls(q.fw) \cup Hdls(q.fl)
  BY <1>4, <1>5, NatConcat
<1> HIDE DEF B
<1>9. C \in Seq(Nat) /\ Len(C) = Len(q.fw) + Len(q.fl) + Len(q.sw) /\ ToSet(C) = Hdls(q.fw) \cup Hdls(q.fl) \cup Hdls(q.sw)
  BY <1>6, <1>8, NatConcat
<1> HIDE DEF C
<1>10. /\ Len(D) = (Len(q.fw) + Len(q.fl) + Len(q.sw)) + (Len(q.frag) + Len(q.own))
       /\ ToSet(D) = (Hdls(q.fw) \cup Hdls(q.fl) \cup Hdls(q.sw)) \cup (Hdls(q.frag) \cup Hdls(q.own))
  BY <1>7, <1>9, NatConcat
<1> HIDE DEF D
<1>11. ToSet(D) = PartHdls(q)
  BY <1>10 DEF PartHdls
<1>12. Len(q.sw) \in Nat /\ Len(q.fl) \in Nat /\ Len(q.own) \in Nat /\ Len(q.frag) \in Nat /\ Len(q.fw) \in Nat
  BY <1>2, TablesClosed
<1>13. Len(D) = Len(q.sw) + Len(q.fl) + Len(q.own) + Len(q.frag) + Len(q.fw)
  <2> DEFINE n1 == Len(q.sw)
             n2 == Len(q.fl)
             n3 == Len(q.own)
             n4 == Len(q.frag)
             n5 == Len(q.fw)
  <2>1. Len(D) = (n5 + n2 + n1) + (n4 + n3)
    BY <1>10
  <2>2. n1 \in Nat /\ n2 \in Nat /\ n3 \in Nat /\ n4 \in Nat /\ n5 \in Nat
    BY <1>12
  <2> HIDE DEF n1, n2, n3, n4, n5
  <2>3. Len(D) = n1 + n2 + n3 + n4 + n5
    BY <2>1, <2>2
  <2> QED BY <2>3 DEF n1, n2, n3, n4, n5
<1> QED BY <1>11, <1>13 DEF D, C, B, A, X

LEMMA InvHeld == IInv /\ ~Q6 => \A f \in F : RulesHeld(f)
<1> SUFFICES ASSUME IInv, ~Q6, NEW f \in F
             PROVE  LET held == s.hdl[f] \o s.dft[f] \o s.fl[f] \o s.swh[f]
                                  \o (IF f = "v6" THEN s.frag \o s.own ELSE <<>>) IN
                    Len(s.hw[f]) = Len(held) + Cardinality(s.lost[f]) /\ Hdls(s.hw[f]) = ToSet(held) \cup s.lost[f]
  BY DEF RulesHeld
<1> DEFINE held == s.hdl[f] \o s.dft[f] \o s.fl[f] \o s.swh[f] \o (IF f = "v6" THEN s.frag \o s.own ELSE <<>>)
<1>1. PICK q \in Parts : Held(s, f, q)
  BY DEF IInv, PipeInv
<1>2. s \in WanSet /\ Pipe(s.hw[f], s.lost[f], q)
  BY <1>1 DEF Held, IInv
<1>3. /\ Len(s.hw[f]) = Len(q.sw) + Len(q.fl) + Len(q.own) + Len(q.frag) + Len(q.fw) + Cardinality(s.lost[f])
      /\ Hdls(s.hw[f]) = s.lost[f] \cup PartHdls(q)
  BY <1>2, PipeCount
<1>4. Len(held) = Len(q.sw) + Len(q.fl) + Len(q.own) + Len(q.frag) + Len(q.fw) /\ ToSet(held) = PartHdls(q)
  BY <1>1, <1>2, HeldCount
<1> HIDE DEF held
<1> QED BY <1>3, <1>4 DEF held

LEMMA InvCleaned == IInv /\ ~Q6 => \A f \in F \ s.active : FirewallCleaned(f)
<1> SUFFICES ASSUME IInv, ~Q6, NEW f \in F \ s.active
             PROVE  ToSet(s.hdl[f] \o s.dft[f]) \cap Hdls(s.hw[f]) = {}
  BY DEF FirewallCleaned
<1>1. s \in WanSet /\ Good(s, f, FALSE)
  BY DEF IInv, PipeInv, Good
<1>2. s.hdl[f] = <<>> /\ s.dft[f] = <<>>
  BY <1>1, ClearGood, ClearEmpty
<1>3. s.hdl[f] \o s.dft[f] = <<>>
  BY <1>2
<1> QED BY <1>3, HdlSets

LEMMA InvAccounted == IInv => RulesAccounted
BY InvHeld, InvCleaned DEF RulesAccounted

\* Every rule in the filter table of a pipe is one the interface has a handle of
\* or one that was left behind, none is counted twice, and a family that the pipe
\* is not upstream of has no rule of the firewall: whatever the order of addresses,
\* routes, files, signals and links, if the files fit.
THEOREM Accounted == FilesFit => (Spec => []RulesAccounted)
BY Invariance, InvAccounted, PTL

(***************************************************************************)
(* What the filter table of a pipe does with a packet.                     *)
(***************************************************************************)
LEMMA RulesInConcat ==
    ASSUME NEW t \in Tables, NEW u \in Tables
    PROVE  RulesIn(t) \in Seq(Rules) /\ RulesIn(t \o u) = RulesIn(t) \o RulesIn(u)
<1>1. ASSUME NEW x \in Tables PROVE /\ Len(x) \in Nat /\ RulesIn(x) \in Seq(Rules) /\ Len(RulesIn(x)) = Len(x)
                                    /\ \A i \in 1..Len(x) : RulesIn(x)[i] = x[i].rule
  <2>1. Len(x) \in Nat /\ \A i \in 1..Len(x) : x[i].rule \in Rules
    <3>1. Len(x) \in Nat /\ \A i \in 1..Len(x) : x[i] \in Entries
      BY DEF Tables
    <3> QED BY <3>1 DEF Entries
  <2>2. RulesIn(x) \in [1..Len(x) -> Rules]
    BY <2>1 DEF RulesIn
  <2> QED BY <2>1, <2>2 DEF RulesIn
<1> DEFINE z == RulesIn(t \o u)
           x == RulesIn(t)
           y == RulesIn(u)
<1>2. t \o u \in Tables /\ Len(t \o u) = Len(t) + Len(u)
  BY TablesClosed
<1>3. /\ \A i \in 1..Len(t) : (t \o u)[i] = t[i]
      /\ \A i \in 1..Len(u) : (t \o u)[Len(t) + i] = u[i]
  BY DEF Tables
<1>4. /\ x \in Seq(Rules) /\ y \in Seq(Rules) /\ z \in Seq(Rules) /\ Len(x) = Len(t) /\ Len(y) = Len(u)
      /\ Len(z) = Len(t) + Len(u) /\ Len(t) \in Nat /\ Len(u) \in Nat
      /\ \A i \in 1..Len(t) : x[i] = t[i].rule
      /\ \A i \in 1..Len(u) : y[i] = u[i].rule
      /\ \A i \in 1..(Len(t) + Len(u)) : z[i] = (t \o u)[i].rule
  <2> HIDE DEF x, y, z
  <2>1. x \in Seq(Rules) /\ Len(x) = Len(t) /\ Len(t) \in Nat /\ \A i \in 1..Len(t) : x[i] = t[i].rule
    BY <1>1 DEF x
  <2>2. y \in Seq(Rules) /\ Len(y) = Len(u) /\ Len(u) \in Nat /\ \A i \in 1..Len(u) : y[i] = u[i].rule
    BY <1>1 DEF y
  <2> DEFINE tu == t \o u
  <2>3. tu \in Tables /\ Len(tu) = Len(t) + Len(u)
    BY <1>2
  <2> HIDE DEF tu
  <2>4. RulesIn(tu) \in Seq(Rules) /\ Len(RulesIn(tu)) = Len(tu) /\ \A i \in 1..Len(tu) : RulesIn(tu)[i] = tu[i].rule
    BY <1>1, <2>3
  <2> QED BY <2>1, <2>2, <2>3, <2>4 DEF tu, z
<1> HIDE DEF x, y, z
<1>5. Joined(x, y, z)
  <2>1. \A i \in 1..Len(t) : z[i] = x[i]
    BY <1>3, <1>4, SMTT(60)
  <2>2. \A i \in 1..Len(u) : z[Len(t) + i] = y[i]
    <3> SUFFICES ASSUME NEW i \in 1..Len(u) PROVE z[Len(t) + i] = y[i]
      OBVIOUS
    <3>1. Len(t) + i \in 1..(Len(t) + Len(u))
      BY <1>4
    <3> QED BY <1>3, <1>4, <3>1
  <2> QED BY <1>4, <2>1, <2>2 DEF Joined
<1>6. z = x \o y
  BY <1>4, <1>5, ConcatIs
<1> QED BY <1>4, <1>6 DEF x, y, z

LEMMA WholeRules ==
    ASSUME NEW q \in Parts
    PROVE  /\ RulesIn(Whole(q)) = RulesIn(q.sw) \o (RulesIn(q.fl) \o (RulesIn(q.own) \o (RulesIn(q.frag) \o RulesIn(q.fw))))
           /\ RulesIn(q.sw) \in Seq(Rules) /\ RulesIn(q.fl) \in Seq(Rules) /\ RulesIn(q.own) \in Seq(Rules)
           /\ RulesIn(q.frag) \in Seq(Rules) /\ RulesIn(q.fw) \in Seq(Rules)
<1>1. /\ q.sw \in Tables /\ q.fl \in Tables /\ q.own \in Tables /\ q.frag \in Tables /\ q.fw \in Tables
      /\ q.frag \o q.fw \in Tables /\ q.own \o (q.frag \o q.fw) \in Tables
      /\ q.fl \o (q.own \o (q.frag \o q.fw)) \in Tables
  BY PartTypes
<1> DEFINE a == q.frag \o q.fw
           b == q.own \o a
           c == q.fl \o b
<1>2. RulesIn(a) = RulesIn(q.frag) \o RulesIn(q.fw)
  BY <1>1, RulesInConcat
<1>3. a \in Tables /\ b \in Tables /\ c \in Tables /\ Whole(q) = q.sw \o c
  BY <1>1 DEF Whole
<1> HIDE DEF a
<1>4. RulesIn(b) = RulesIn(q.own) \o RulesIn(a)
  BY <1>1, <1>3, RulesInConcat
<1> HIDE DEF b
<1>5. RulesIn(c) = RulesIn(q.fl) \o RulesIn(b)
  BY <1>1, <1>3, RulesInConcat
<1> HIDE DEF c
<1>6. RulesIn(q.sw \o c) = RulesIn(q.sw) \o RulesIn(c)
  BY <1>1, <1>3, RulesInConcat
<1>7. /\ RulesIn(q.sw) \in Seq(Rules) /\ RulesIn(q.fl) \in Seq(Rules) /\ RulesIn(q.own) \in Seq(Rules)
      /\ RulesIn(q.frag) \in Seq(Rules) /\ RulesIn(q.fw) \in Seq(Rules)
  BY <1>1, RulesInConcat
<1> QED BY <1>2, <1>3, <1>4, <1>5, <1>6, <1>7

LEMMA FrontSends ==
    ASSUME NEW x \in Seq(Rules), NEW y \in Seq(Rules), NEW p, NEW to, NEW else, AllTo(x, to), Sends(y, p, else)
    PROVE  Sends(x \o y, p, IF HitBy(x, p) THEN to ELSE else)
<1>1. CASE HitBy(x, p)
  BY <1>1, SendsFront
<1>2. CASE ~HitBy(x, p)
  BY <1>2, SendsBehind
<1> QED BY <1>1, <1>2

TCPControl == IF FEATURE_IPA_ANDROID THEN {"FIN", "SYN", "RST"} ELSE {}
PipeHost(f) ==
    IF f = "v4" THEN {"multicast", "broadcast", "frag"} ELSE {"multicast", "fe80", "fec0", "own"} \cup TCPControl

\* Where the rules of a file send a packet on a pipe.
PipeTo(w, c, p) ==
    IF c.enable /\ EntryHits(c, Vsn[p.f], p) THEN IF c.accept THEN PassOn(w, p.f) ELSE "EXCEPTION"
    ELSE IF ToICMP6(p) \/ (c.enable /\ c.accept) THEN "EXCEPTION" ELSE PassOn(w, p.f)

LEMMA PipeClassHits ==
    ASSUME NEW p \in Packets, NEW f \in F
    PROVE  LET L == Each(PipeClasses(f), "EXCEPTION")
               O == IF f = "v6" THEN <<Rule({"own"}, "EXCEPTION")>> ELSE <<>> IN
           /\ L \in Seq(Rules) /\ AllTo(L, "EXCEPTION") /\ O \in Seq(Rules) /\ AllTo(O, "EXCEPTION")
           /\ HitBy(L, p) \/ HitBy(O, p) <=> p.is \cap PipeHost(f) # {}
<1> DEFINE L == Each(PipeClasses(f), "EXCEPTION")
           O == IF f = "v6" THEN <<Rule({"own"}, "EXCEPTION")>> ELSE <<>>
           C == PipeClasses(f)
<1>1. "EXCEPTION" \in Dests /\ {"own"} \in SUBSET Vals /\ C \in Seq(Features)
  BY ClassTypes DEF Dests, Vals, Features
<1>2. L \in Seq(Rules) /\ AllTo(L, "EXCEPTION") /\ (HitBy(L, p) <=> \E i \in 1..Len(C) : C[i] \in p.is)
  BY <1>1, EachHits
<1>3. CASE f = "v4"
  <2>1. C = <<"frag", "multicast", "broadcast">> /\ Len(C) = 3
    BY <1>3 DEF PipeClasses, PipeClasses4
  <2>2. C[1] = "frag" /\ C[2] = "multicast" /\ C[3] = "broadcast"
    BY <2>1
  <2>3. O = <<>> /\ PipeHost(f) = {"multicast", "broadcast", "frag"}
    BY <1>3 DEF PipeHost
  <2>4. \A i \in 1..3 : i = 1 \/ i = 2 \/ i = 3
    OBVIOUS
  <2> HIDE DEF C, L, O
  <2>5. HitBy(L, p) <=> p.is \cap PipeHost(f) # {}
    BY <1>2, <2>1, <2>2, <2>3, <2>4
  <2> QED BY <1>2, <2>3, <2>5, NoRuleHits DEF L, O
<1>4. CASE f = "v6"
  <2>1. HitBy(L, p) <=> \E x \in {"multicast", "fe80", "fec0"} \cup TCPControl : x \in p.is
    <3>1. CASE FEATURE_IPA_ANDROID
      <4>1. C = <<"multicast", "fe80", "fec0", "FIN", "SYN", "RST">> /\ Len(C) = 6
        BY <1>4, <3>1 DEF PipeClasses, PipeClasses6
      <4>2. C[1] = "multicast" /\ C[2] = "fe80" /\ C[3] = "fec0" /\ C[4] = "FIN" /\ C[5] = "SYN" /\ C[6] = "RST"
        BY <4>1
      <4>3. \A i \in 1..6 : i = 1 \/ i = 2 \/ i = 3 \/ i = 4 \/ i = 5 \/ i = 6
        OBVIOUS
      <4>4. TCPControl = {"FIN", "SYN", "RST"}
        BY <3>1 DEF TCPControl
      <4> HIDE DEF C, L, O
      <4> QED BY <1>2, <4>1, <4>2, <4>3, <4>4
    <3>2. CASE ~FEATURE_IPA_ANDROID
      <4>1. C = <<"multicast", "fe80", "fec0">> /\ Len(C) = 3
        BY <1>4, <3>2 DEF PipeClasses, PipeClasses6
      <4>2. C[1] = "multicast" /\ C[2] = "fe80" /\ C[3] = "fec0"
        BY <4>1
      <4>3. \A i \in 1..3 : i = 1 \/ i = 2 \/ i = 3
        OBVIOUS
      <4>4. TCPControl = {}
        BY <3>2 DEF TCPControl
      <4> HIDE DEF C, L, O
      <4> QED BY <1>2, <4>1, <4>2, <4>3, <4>4
    <3> QED BY <3>1, <3>2
  <2>3. O = <<Rule({"own"}, "EXCEPTION")>> /\ PipeHost(f) = {"multicast", "fe80", "fec0", "own"} \cup TCPControl
    BY <1>4 DEF PipeHost
  <2>5. O \in Seq(Rules) /\ AllTo(O, "EXCEPTION") /\ (HitBy(O, p) <=> {"own"} \subseteq p.is)
    BY <1>1, <2>3, OneRuleHits
  <2> HIDE DEF C, L, O
  <2>7. HitBy(L, p) \/ HitBy(O, p) <=> p.is \cap PipeHost(f) # {}
    BY <2>1, <2>3, <2>5
  <2> QED BY <1>2, <2>5, <2>7 DEF L, O
<1> QED BY <1>3, <1>4, TwoFamilies

LEMMA PipeSends ==
    ASSUME NEW w, NEW c \in Configs, NEW p \in Packets, NEW q \in Parts, Filled(w, p.f, q), Ready(w, p.f),
           RulesIn(q.fw) = FwRules(w, c, p.f)
    PROVE  Sends(RulesIn(Whole(q)), p,
                 IF w.act \/ p.is \cap PipeHost(p.f) # {} \/ (q.frag # <<>> /\ "frag" \in p.is)
                 THEN "EXCEPTION" ELSE PipeTo(w, c, p))
<1> DEFINE f == p.f
           S == RulesIn(q.sw)
           L == RulesIn(q.fl)
           O == RulesIn(q.own)
           G == RulesIn(q.frag)
           W == RulesIn(q.fw)
           GW == G \o W
           OGW == O \o GW
           LOGW == L \o OGW
           t1 == PipeTo(w, c, p)
           t2 == IF HitBy(G, p) THEN "EXCEPTION" ELSE t1
           t3 == IF HitBy(O, p) THEN "EXCEPTION" ELSE t2
           t4 == IF HitBy(L, p) THEN "EXCEPTION" ELSE t3
           t5 == IF HitBy(S, p) THEN "EXCEPTION" ELSE t4
<1>1. f \in F /\ "EXCEPTION" \in Dests /\ {} \in SUBSET Vals /\ {"frag"} \in SUBSET Vals
  BY DataAssumption DEF F, Dests, Vals, Features
<1>2. /\ RulesIn(Whole(q)) = S \o LOGW
      /\ S \in Seq(Rules) /\ L \in Seq(Rules) /\ O \in Seq(Rules) /\ G \in Seq(Rules) /\ W \in Seq(Rules)
  BY WholeRules
<1>3. AllTo(S, "EXCEPTION") /\ (HitBy(S, p) <=> w.act)
  <2>1. CASE w.act
    <3>1. S = <<Rule({}, "EXCEPTION")>>
      BY <2>1 DEF Filled
    <3>2. /\ AllTo(<<Rule({}, "EXCEPTION")>>, "EXCEPTION")
          /\ HitBy(<<Rule({}, "EXCEPTION")>>, p) <=> {} \subseteq p.is
      BY <1>1, OneRuleHits
    <3> HIDE DEF S
    <3> QED BY <2>1, <3>1, <3>2
  <2>2. CASE ~w.act
    <3>1. S = <<>>
      BY <2>2 DEF Filled
    <3> HIDE DEF S
    <3> QED BY <2>2, <3>1, NoRuleHits
  <2> QED BY <2>1, <2>2
<1>4. AllTo(L, "EXCEPTION") /\ AllTo(O, "EXCEPTION") /\ (HitBy(L, p) \/ HitBy(O, p) <=> p.is \cap PipeHost(f) # {})
  <2>1. L = Each(PipeClasses(f), "EXCEPTION") /\ O = IF f = "v6" THEN <<Rule({"own"}, "EXCEPTION")>> ELSE <<>>
    BY DEF Filled, PipeClasses
  <2> HIDE DEF L, O
  <2> QED BY <1>1, <2>1, PipeClassHits
<1>5. AllTo(G, "EXCEPTION") /\ (HitBy(G, p) <=> q.frag # <<>> /\ "frag" \in p.is)
  <2>1. CASE q.frag = <<>>
    <3>1. G = <<>>
      BY <2>1, EmptyTable
    <3> HIDE DEF G
    <3> QED BY <2>1, <3>1, NoRuleHits
  <2>2. CASE q.frag # <<>>
    <3>1. G = <<Rule({"frag"}, "EXCEPTION")>>
      BY <2>2 DEF Filled
    <3>2. /\ AllTo(<<Rule({"frag"}, "EXCEPTION")>>, "EXCEPTION")
          /\ HitBy(<<Rule({"frag"}, "EXCEPTION")>>, p) <=> {"frag"} \subseteq p.is
      BY <1>1, OneRuleHits
    <3> HIDE DEF G
    <3> QED BY <2>2, <3>1, <3>2
  <2> QED BY <2>1, <2>2
<1>6. Sends(W, p, t1)
  BY FwSends DEF PipeTo
<1> HIDE DEF S, L, O, G, W, t1
<1>7. Sends(GW, p, t2) /\ GW \in Seq(Rules)
  BY <1>2, <1>5, <1>6, FrontSends, RulesConcat
<1> HIDE DEF GW, t2
<1>8. Sends(OGW, p, t3) /\ OGW \in Seq(Rules)
  BY <1>2, <1>4, <1>7, FrontSends, RulesConcat
<1> HIDE DEF OGW, t3
<1>9. Sends(LOGW, p, t4) /\ LOGW \in Seq(Rules)
  BY <1>2, <1>4, <1>8, FrontSends, RulesConcat
<1> HIDE DEF LOGW, t4
<1>10. Sends(S \o LOGW, p, t5)
  BY <1>2, <1>3, <1>9, FrontSends
<1>11. t5 = IF w.act \/ p.is \cap PipeHost(f) # {} \/ (q.frag # <<>> /\ "frag" \in p.is) THEN "EXCEPTION" ELSE t1
  BY <1>3, <1>4, <1>5 DEF t4, t3, t2
<1> HIDE DEF t5
<1> QED BY <1>2, <1>10, <1>11 DEF t1

(***************************************************************************)
(* What the rules of the modem do with a packet.                           *)
(***************************************************************************)
ModemHost(f) ==
    IF f = "v4" THEN {"multicast", "broadcast", "ICMP"} ELSE {"multicast", "fe80", "fec0", "ICMP6"} \cup TCPControl
AlgTo(p) == p.f = "v4" /\ \E i \in DOMAIN Alg : Alg[i].protocol \in p.is /\ Alg[i].port \in {p.src, p.dst}

ModemTo(w, c, p) ==
    IF FragRules(c, p.f, "wan_dl") # <<>> /\ "frag" \in p.is THEN "wan_dl"
    ELSE IF c.enable /\ EntryHits(c, Vsn[p.f], p)
    THEN IF ~c.accept THEN "wan_dl" ELSE IF p.f = "v6" THEN "wan_v6" ELSE "DST_NAT"
    ELSE IF (c.enable /\ c.accept) \/ (p.f = "v4" /\ ~c.enable /\ w.bridge) THEN "wan_dl"
    ELSE IF p.f = "v6" THEN "wan_v6" ELSE "DST_NAT"

LEMMA IcmpAlgHits ==
    ASSUME NEW p \in Packets
    PROVE  LET B == add_icmp_alg_rules(p.f) IN
           /\ B \in Seq(Rules) /\ AllTo(B, "wan_dl")
           /\ HitBy(B, p) <=> (IF p.f = "v4" THEN "ICMP" \in p.is ELSE "ICMP6" \in p.is) \/ AlgTo(p)
<1> DEFINE B == add_icmp_alg_rules(p.f)
<1>1. p.f \in F /\ "wan_dl" \in Dests /\ {"ICMP"} \in SUBSET Vals /\ {"ICMP6"} \in SUBSET Vals
  BY DataAssumption DEF F, Dests, Vals, Features
<1>2. CASE p.f = "v6"
  <2>1. B = <<Rule({"ICMP6"}, "wan_dl")>>
    BY <1>2 DEF add_icmp_alg_rules, ModemICMP6
  <2>2. B \in Seq(Rules) /\ AllTo(B, "wan_dl") /\ (HitBy(B, p) <=> {"ICMP6"} \subseteq p.is)
    BY <1>1, <2>1, OneRuleHits
  <2> HIDE DEF B
  <2> QED BY <1>2, <2>2 DEF AlgTo, B
<1>3. CASE p.f = "v4"
  <2> DEFINE x == <<Rule({"ICMP"}, "wan_dl")>>
             y == AlgRules("src")
             z == AlgRules("dst")
             xy == x \o y
  <2>1. B = xy \o z
    BY <1>3 DEF add_icmp_alg_rules
  <2>2. x \in Seq(Rules) /\ AllTo(x, "wan_dl") /\ (HitBy(x, p) <=> {"ICMP"} \subseteq p.is)
    BY <1>1, OneRuleHits
  <2>3. /\ y \in Seq(Rules) /\ AllTo(y, "wan_dl")
        /\ HitBy(y, p) <=> \E i \in DOMAIN Alg : Alg[i].protocol \in p.is /\ Alg[i].port = p.src
    BY AlgHits
  <2>4. /\ z \in Seq(Rules) /\ AllTo(z, "wan_dl")
        /\ HitBy(z, p) <=> \E i \in DOMAIN Alg : Alg[i].protocol \in p.is /\ Alg[i].port = p.dst
    BY AlgHits
  <2> HIDE DEF x, y, z, B
  <2>5. xy \in Seq(Rules) /\ AllTo(xy, "wan_dl") /\ (HitBy(xy, p) <=> HitBy(x, p) \/ HitBy(y, p))
    BY <2>2, <2>3, RulesConcat
  <2> HIDE DEF xy
  <2>6. B \in Seq(Rules) /\ AllTo(B, "wan_dl") /\ (HitBy(B, p) <=> HitBy(xy, p) \/ HitBy(z, p))
    BY <2>1, <2>4, <2>5, RulesConcat
  <2>7. AlgTo(p) <=> HitBy(y, p) \/ HitBy(z, p)
    BY <1>3, <2>3, <2>4 DEF AlgTo
  <2>8. HitBy(B, p) <=> "ICMP" \in p.is \/ AlgTo(p)
    BY <2>2, <2>5, <2>6, <2>7
  <2> QED BY <1>3, <2>6, <2>8 DEF B
<1> QED BY <1>1, <1>2, <1>3, TwoFamilies

LEMMA ModemClassHits ==
    ASSUME NEW p \in Packets
    PROVE  LET A == Each(ModemClasses(p.f), "wan_dl") IN
           /\ A \in Seq(Rules) /\ AllTo(A, "wan_dl")
           /\ HitBy(A, p) \/ (IF p.f = "v4" THEN "ICMP" \in p.is ELSE "ICMP6" \in p.is) <=> p.is \cap ModemHost(p.f) # {}
<1> DEFINE f == p.f
           A == Each(ModemClasses(f), "wan_dl")
           C == ModemClasses(f)
<1>1. f \in F /\ "wan_dl" \in Dests
  BY DataAssumption DEF F, Dests
<1>1a. C \in Seq(Features)
  BY <1>1, ClassTypes
<1>2. A \in Seq(Rules) /\ AllTo(A, "wan_dl") /\ (HitBy(A, p) <=> \E i \in 1..Len(C) : C[i] \in p.is)
  BY <1>1, <1>1a, EachHits
<1>3. CASE f = "v4"
  <2>1. C = <<"multicast", "broadcast">> /\ Len(C) = 2
    BY <1>3 DEF ModemClasses, ModemClasses4
  <2>2. C[1] = "multicast" /\ C[2] = "broadcast"
    BY <2>1
  <2>3. ModemHost(f) = {"multicast", "broadcast", "ICMP"}
    BY <1>3 DEF ModemHost
  <2>4. \A i \in 1..2 : i = 1 \/ i = 2
    OBVIOUS
  <2> HIDE DEF C, A
  <2>5. HitBy(A, p) \/ "ICMP" \in p.is <=> p.is \cap ModemHost(f) # {}
    BY <1>2, <2>1, <2>2, <2>3, <2>4
  <2> QED BY <1>2, <1>3, <2>5 DEF A
<1>4. CASE f = "v6"
  <2>1. HitBy(A, p) <=> \E x \in {"multicast", "fe80", "fec0"} \cup TCPControl : x \in p.is
    <3>1. CASE FEATURE_IPA_ANDROID
      <4>1. C = <<"multicast", "fe80", "fec0", "FIN", "SYN", "RST">> /\ Len(C) = 6
        BY <1>4, <3>1 DEF ModemClasses, ModemClasses6
      <4>2. C[1] = "multicast" /\ C[2] = "fe80" /\ C[3] = "fec0" /\ C[4] = "FIN" /\ C[5] = "SYN" /\ C[6] = "RST"
        BY <4>1
      <4>3. \A i \in 1..6 : i = 1 \/ i = 2 \/ i = 3 \/ i = 4 \/ i = 5 \/ i = 6
        OBVIOUS
      <4>4. TCPControl = {"FIN", "SYN", "RST"}
        BY <3>1 DEF TCPControl
      <4> HIDE DEF C, A
      <4> QED BY <1>2, <4>1, <4>2, <4>3, <4>4
    <3>2. CASE ~FEATURE_IPA_ANDROID
      <4>1. C = <<"multicast", "fe80", "fec0">> /\ Len(C) = 3
        BY <1>4, <3>2 DEF ModemClasses, ModemClasses6
      <4>2. C[1] = "multicast" /\ C[2] = "fe80" /\ C[3] = "fec0"
        BY <4>1
      <4>3. \A i \in 1..3 : i = 1 \/ i = 2 \/ i = 3
        OBVIOUS
      <4>4. TCPControl = {}
        BY <3>2 DEF TCPControl
      <4> HIDE DEF C, A
      <4> QED BY <1>2, <4>1, <4>2, <4>3, <4>4
    <3> QED BY <3>1, <3>2
  <2>3. ModemHost(f) = {"multicast", "fe80", "fec0", "ICMP6"} \cup TCPControl
    BY <1>4 DEF ModemHost
  <2> HIDE DEF C, A
  <2>6. HitBy(A, p) \/ "ICMP6" \in p.is <=> p.is \cap ModemHost(f) # {}
    BY <2>1, <2>3
  <2> QED BY <1>2, <1>4, <2>6 DEF A
<1> QED BY <1>1, <1>3, <1>4, TwoFamilies

LEMMA ModemFwSends ==
    ASSUME NEW w, NEW c \in Configs, NEW p \in Packets, ReadBy(w, p.f) = c
    PROVE  Sends(ModemFw(w, p.f), p, IF p.is \cap ModemHost(p.f) # {} \/ AlgTo(p) THEN "wan_dl" ELSE ModemTo(w, c, p))
<1> DEFINE A == Each(ModemClasses(p.f), "wan_dl")
           B == add_icmp_alg_rules(p.f)
           AB == A \o B
           C == config_dft_firewall_rules_ex(w, c, p.f)
           to == ModemTo(w, c, p)
           icmp == IF p.f = "v4" THEN "ICMP" \in p.is ELSE "ICMP6" \in p.is
           host == p.is \cap ModemHost(p.f) # {}
           alg == AlgTo(p)
<1>1. ModemFw(w, p.f) = AB \o C
  BY DEF ModemFw
<1>2. A \in Seq(Rules) /\ AllTo(A, "wan_dl") /\ (HitBy(A, p) \/ icmp <=> host)
  BY ModemClassHits
<1>3. B \in Seq(Rules) /\ AllTo(B, "wan_dl") /\ (HitBy(B, p) <=> icmp \/ alg)
  BY IcmpAlgHits
<1>4. Sends(C, p, to)
  BY ModemSends DEF ModemTo
<1>5. C \in Seq(Rules)
  BY <1>4 DEF Sends
<1> HIDE DEF A, B, C, to, icmp, host, alg
<1>6. AB \in Seq(Rules) /\ AllTo(AB, "wan_dl") /\ (HitBy(AB, p) <=> HitBy(A, p) \/ HitBy(B, p))
  BY <1>2, <1>3, RulesConcat
<1> HIDE DEF AB
<1>7. Sends(AB \o C, p, IF HitBy(AB, p) THEN "wan_dl" ELSE to)
  BY <1>4, <1>5, <1>6, FrontSends
<1>8. HitBy(AB, p) <=> host \/ alg
  BY <1>2, <1>3, <1>6
<1> QED BY <1>1, <1>7, <1>8 DEF host, alg, to

(***************************************************************************)
(* The firewall is the one of the file.                                    *)
(***************************************************************************)
\* What the parser made of the file that is there.
Current == IPACM_read_firewall_xml(Files[env.file])

LEMMA FragNeeded ==
    \A c, f, x, y : FragRules(c, f, x) # <<>> <=> FragRules(c, f, y) # <<>>
BY DEF FragRules

LEMMA AskedPipe ==
    ASSUME ~Q6, NEW p \in Packets, ReadsAsWritten(Files[env.file], p)
    PROVE  Asked(p) = IF env.sw \/ p.is \cap PipeHost(p.f) # {} THEN "EXCEPTION" ELSE PipeTo(s, Current, p)
<1>1. HostClasses(p.f) = PipeHost(p.f) /\ ~IsAlg(p) /\ ToHost = "EXCEPTION" /\ Forward(p.f) = PassOn(s, p.f)
  BY DEF HostClasses, PipeHost, TCPControl, IsAlg, ToHost, Forward
<1>2. p.f = "v4" \/ p.f = "v6"
  BY DataAssumption
<1>3. Vsn[p.f] = IF p.f = "v4" THEN 4 ELSE 6
  BY <1>2 DEF Vsn
<1> DEFINE enabled == Says(Files[env.file], "FirewallEnabled")
           accept == Says(Files[env.file], "FirewallPktsAllowed")
           match == FileMatches(Files[env.file], p)
           c == Current
           hit == EntryHits(c, Vsn[p.f], p)
           host == p.is \cap PipeHost(p.f) # {}
<1>4. c.enable = enabled /\ c.accept = accept /\ (c.enable => (hit <=> match))
  BY <1>3 DEF ReadsAsWritten, Current
<1>5. Asked(p) = IF env.sw \/ host THEN "EXCEPTION"
                 ELSE IF ~enabled THEN IF ToICMP6(p) THEN "EXCEPTION" ELSE PassOn(s, p.f)
                 ELSE IF match THEN IF accept THEN PassOn(s, p.f) ELSE "EXCEPTION"
                 ELSE IF ToICMP6(p) \/ accept THEN "EXCEPTION" ELSE PassOn(s, p.f)
  BY <1>1 DEF Asked
<1>6. PipeTo(s, c, p) = IF c.enable /\ hit THEN IF c.accept THEN PassOn(s, p.f) ELSE "EXCEPTION"
                        ELSE IF ToICMP6(p) \/ (c.enable /\ c.accept) THEN "EXCEPTION" ELSE PassOn(s, p.f)
  BY DEF PipeTo
<1>7. enabled \in BOOLEAN /\ accept \in BOOLEAN
  BY DEF Says
<1> HIDE DEF enabled, accept, match, c, hit, host
<1>8. CASE env.sw \/ host
  BY <1>5, <1>8 DEF host
<1>9. CASE ~(env.sw \/ host)
  <2>1. Asked(p) = PipeTo(s, c, p)
    BY <1>4, <1>5, <1>6, <1>7, <1>9
  <2> QED BY <1>9, <2>1 DEF host, c
<1> QED BY <1>8, <1>9

LEMMA AskedModem ==
    ASSUME Q6, NEW p \in Packets, ReadsAsWritten(Files[env.file], p), ~FragmentsToHost(p)
    PROVE  Asked(p) = IF env.sw \/ p.is \cap ModemHost(p.f) # {} \/ AlgTo(p) THEN "wan_dl" ELSE ModemTo(s, Current, p)
<1>1. /\ HostClasses(p.f) = ModemHost(p.f) /\ (IsAlg(p) <=> AlgTo(p)) /\ ToHost = "wan_dl"
      /\ Forward(p.f) = IF p.f = "v6" THEN "wan_v6" ELSE "DST_NAT"
  BY DEF HostClasses, ModemHost, TCPControl, IsAlg, AlgTo, ToHost, Forward
<1>2. p.f = "v4" \/ p.f = "v6"
  BY DataAssumption
<1>3. Vsn[p.f] = IF p.f = "v4" THEN 4 ELSE 6
  BY <1>2 DEF Vsn
<1> DEFINE enabled == Says(Files[env.file], "FirewallEnabled")
           accept == Says(Files[env.file], "FirewallPktsAllowed")
           match == FileMatches(Files[env.file], p)
           c == Current
           hit == EntryHits(c, Vsn[p.f], p)
           host == p.is \cap ModemHost(p.f) # {}
           alg == AlgTo(p)
           on == IF p.f = "v6" THEN "wan_v6" ELSE "DST_NAT"
<1>4. c.enable = enabled /\ c.accept = accept /\ (c.enable => (hit <=> match))
  BY <1>3 DEF ReadsAsWritten, Current
<1>5. Asked(p) = IF env.sw \/ host \/ alg THEN "wan_dl"
                 ELSE IF ~enabled THEN IF p.f = "v4" /\ s.bridge THEN "wan_dl" ELSE IF ToICMP6(p) THEN "wan_dl" ELSE on
                 ELSE IF match THEN IF accept THEN on ELSE "wan_dl"
                 ELSE IF ToICMP6(p) \/ accept THEN "wan_dl" ELSE on
  BY <1>1 DEF Asked
<1>6. ~(FragRules(c, p.f, "wan_dl") # <<>> /\ "frag" \in p.is)
  <2>1. CASE p.f = "v6"
    BY <2>1, FragNeeded DEF FragmentsToHost, Current
  <2>2. CASE p.f = "v4"
    BY <2>2 DEF FragRules
  <2> QED BY <1>2, <2>1, <2>2
<1>7. ModemTo(s, c, p) = IF c.enable /\ hit THEN IF ~c.accept THEN "wan_dl" ELSE on
                         ELSE IF (c.enable /\ c.accept) \/ (p.f = "v4" /\ ~c.enable /\ s.bridge) THEN "wan_dl" ELSE on
  <2> HIDE DEF c
  <2> QED BY <1>6 DEF ModemTo
<1>8. ~host => ~ToICMP6(p)
  BY DEF ToICMP6, ModemHost
<1>9. enabled \in BOOLEAN /\ accept \in BOOLEAN
  BY DEF Says
<1> HIDE DEF enabled, accept, match, c, hit, host, alg, on
<1>10. CASE env.sw \/ host \/ alg
  BY <1>5, <1>10 DEF host, alg
<1>11. CASE ~(env.sw \/ host \/ alg)
  <2>1. Asked(p) = ModemTo(s, c, p)
    BY <1>4, <1>5, <1>7, <1>8, <1>9, <1>11
  <2> QED BY <1>11, <2>1 DEF host, alg, c
<1> QED BY <1>10, <1>11

\* Nothing is on its way: software routing is what the flag says, and the rules
\* of a family that missed nothing are made from the file that is there.
LEMMA Settled ==
    ASSUME IInv, env.pending = 0, env.swq = <<>>, NEW f \in s.active \ missed
    PROVE  f \in F /\ Ready(s, f) /\ (s.act <=> env.sw) /\ ReadBy(s, f) = Current /\ Current \in Configs
<1>1. env \in EnvSet /\ s \in WanSet /\ Life(s, missed, env.pending, env.file) /\ Signals(s, Q6, env.sw, env.swq)
  BY DEF IInv
<1>2. f \in F /\ Ready(s, f) /\ s.from[f] = env.file
  BY <1>1 DEF Life
<1>3. env.file \in DOMAIN Files /\ env.sw \in BOOLEAN
  BY <1>1 DEF EnvSet
<1>4. ReadBy(s, f) = Current /\ Current \in Configs
  BY <1>2, <1>3, ReadType DEF ReadBy, Current
<1>5. On(s) /\ HasAddress(s) # {}
  BY <1>2, OnReady DEF HasAddress, Ready
<1>6. FALSE \notin ToSet(env.swq)
  BY HdlSets
<1>7. s.act <=> env.sw
  BY <1>1, <1>5, <1>6 DEF Signals
<1> QED BY <1>2, <1>4, <1>7

LEMMA AppliedRules ==
    ASSUME NEW f
    PROVE  /\ Q6 /\ s.hw[f] \in Tables => Applied(f) = RulesIn(s.hw[f])
           /\ ~Q6 /\ Without(s.hw[f], s.lost[f]) \in Tables => Applied(f) = RulesIn(Without(s.hw[f], s.lost[f]))
<1>1. \A t \in Tables : DOMAIN t = 1..Len(t)
  BY TablesClosed
<1>2. \A t \in Tables : RulesIn(t) = [i \in DOMAIN t |-> t[i].rule]
  BY <1>1 DEF RulesIn
<1> QED BY <1>2 DEF Applied

LEMMA PipeEnforced ==
    ASSUME IInv, ~Q6, env.pending = 0, env.swq = <<>>, NEW p \in Packets, p.f \in s.active \ missed,
           ReadsAsWritten(Files[env.file], p)
    PROVE  LET v == Verdict(Applied(p.f), p) IN
           IF FragmentsToHost(p) THEN v = ToHost
           ELSE v = Asked(p) \/ (~Q6 /\ p.f = "v6" /\ "frag" \in p.is /\ v = ToHost)
<1> DEFINE f == p.f
           v == Verdict(Applied(p.f), p)
           frag == FragmentsToHost(p)
           asked == Asked(p)
<1>1. f \in F /\ Ready(s, f) /\ (s.act <=> env.sw) /\ ReadBy(s, f) = Current /\ Current \in Configs
  BY Settled
<1>2. PICK q \in Parts : Held(s, f, q) /\ Filled(s, f, q) /\ Built(s, f, q)
  BY <1>1 DEF IInv, PipeInv
<1>3. RulesIn(q.fw) = FwRules(s, Current, f) /\ (FragRules(Current, f, "EXCEPTION") # <<>> => q.frag # <<>>)
  BY <1>1, <1>2 DEF Built
<1>4. Without(s.hw[f], s.lost[f]) = Whole(q) /\ Whole(q) \in Tables
  BY <1>2, PartTypes DEF Held, Pipe
<1>5. Applied(f) = RulesIn(Whole(q))
  BY <1>4, AppliedRules
<1>6. v = IF s.act \/ p.is \cap PipeHost(f) # {} \/ (q.frag # <<>> /\ "frag" \in p.is)
          THEN "EXCEPTION" ELSE PipeTo(s, Current, p)
  BY <1>1, <1>2, <1>3, <1>5, PipeSends DEF Sends
<1>7. asked = IF env.sw \/ p.is \cap PipeHost(f) # {} THEN "EXCEPTION" ELSE PipeTo(s, Current, p)
  BY AskedPipe
<1>8. ToHost = "EXCEPTION"
  BY DEF ToHost
<1>9. frag => f = "v6" /\ "frag" \in p.is /\ q.frag # <<>>
  BY <1>3, FragNeeded DEF FragmentsToHost, Current
<1>10. q.frag # <<>> => f = "v6"
  BY <1>2 DEF Held
<1> HIDE DEF v, frag, asked, f
<1>11. IF frag THEN v = ToHost ELSE v = asked \/ (f = "v6" /\ "frag" \in p.is /\ v = ToHost)
  BY <1>1, <1>6, <1>7, <1>8, <1>9, <1>10
<1> QED BY <1>11 DEF v, frag, asked, f

LEMMA ModemEnforced ==
    ASSUME IInv, Q6, env.pending = 0, env.swq = <<>>, ~env.sw => FitsModem(s.flt), NEW p \in Packets,
           p.f \in s.active \ missed, ReadsAsWritten(Files[env.file], p)
    PROVE  LET v == Verdict(Applied(p.f), p) IN
           IF FragmentsToHost(p) THEN v = ToHost ELSE v = Asked(p)
<1> DEFINE f == p.f
           v == Verdict(Applied(p.f), p)
           frag == FragmentsToHost(p)
           asked == Asked(p)
<1>1. f \in F /\ Ready(s, f) /\ (s.act <=> env.sw) /\ ReadBy(s, f) = Current /\ Current \in Configs
  BY Settled
<1>2. s \in WanSet /\ ModemInv(s, s.active \ missed) /\ ModemHas(s, env.sw, env.swq) /\ On(s)
  BY <1>1, OnReady DEF IInv
<1>3. s.hw[f] \in Tables /\ s.flt[f] \in Seq(Rules)
  BY <1>1, <1>2 DEF WanSet
<1>4. Applied(f) = RulesIn(s.hw[f]) /\ ToHost = "wan_dl"
  BY <1>3, AppliedRules DEF ToHost
<1>5. CASE env.sw
  <2>1. FALSE \notin ToSet(env.swq)
    BY HdlSets
  <2>2. s.hw[f] = InModem(<<Rule({}, "wan_dl")>>)
    BY <1>1, <1>2, <1>5, <2>1 DEF ModemHas
  <2> DEFINE R == <<Rule({}, "wan_dl")>>
  <2>3. R \in Seq(Rules) /\ AllTo(R, "wan_dl") /\ HitBy(R, p)
    <3>1. {} \in SUBSET Vals /\ "wan_dl" \in Dests
      BY DEF Dests
    <3> QED BY <3>1, OneRuleHits
  <2>4. s.hw[f] = InModem(R)
    BY <2>2
  <2> HIDE DEF R
  <2>5. Applied(f) = R
    BY <1>4, <2>3, <2>4, InModemTable
  <2>6. v = "wan_dl"
    BY <2>3, <2>5, SendsAll DEF Sends
  <2>7. asked = "wan_dl"
    BY <1>4, <1>5 DEF Asked
  <2> QED BY <1>4, <2>6, <2>7
<1>6. CASE ~env.sw
  <2>1. s.hw[f] = InModem(s.flt[f]) /\ s.flt[f] = ModemFw(s, f)
    BY <1>1, <1>2, <1>6 DEF ModemHas, ModemInv
  <2>2. Applied(f) = ModemFw(s, f)
    BY <1>3, <1>4, <2>1, InModemTable
  <2>3. v = IF p.is \cap ModemHost(f) # {} \/ AlgTo(p) THEN "wan_dl" ELSE ModemTo(s, Current, p)
    BY <1>1, <2>2, ModemFwSends DEF Sends
  <2>4. CASE frag
    <3>1. FragRules(Current, p.f, "wan_dl") # <<>> /\ "frag" \in p.is
      BY <2>4, FragNeeded DEF FragmentsToHost, Current
    <3>2. ModemTo(s, Current, p) = "wan_dl"
      BY <3>1 DEF ModemTo
    <3> QED BY <1>4, <2>3, <2>4, <3>2
  <2>5. CASE ~frag
    <3>1. asked = IF env.sw \/ p.is \cap ModemHost(p.f) # {} \/ AlgTo(p) THEN "wan_dl" ELSE ModemTo(s, Current, p)
      BY <2>5, AskedModem
    <3>2. v = asked
      BY <1>6, <2>3, <3>1
    <3> QED BY <2>5, <3>2
  <2> QED BY <2>4, <2>5
<1> QED BY <1>5, <1>6

\* The parser understands the files there are, as every packet sees them.
FilesUnderstood == \A x \in DOMAIN Files, p \in Packets : ReadsAsWritten(Files[x], p)

LEMMA InvEnforced == FilesUnderstood /\ IInv => FirewallEnforced
<1> SUFFICES ASSUME FilesUnderstood, IInv, env.pending = 0, env.swq = <<>>, Q6 /\ ~env.sw => FitsModem(s.flt),
                    NEW p \in Packets, p.f \in s.active \ missed
             PROVE  LET v == Verdict(Applied(p.f), p) IN
                    IF FragmentsToHost(p) THEN v = ToHost
                    ELSE v = Asked(p) \/ (~Q6 /\ p.f = "v6" /\ "frag" \in p.is /\ v = ToHost)
  BY DEF FirewallEnforced
<1>1. env.file \in DOMAIN Files
  BY DEF IInv, EnvSet
<1>2. ReadsAsWritten(Files[env.file], p)
  BY <1>1 DEF FilesUnderstood
<1>3. CASE Q6
  BY <1>2, <1>3, ModemEnforced
<1>4. CASE ~Q6
  BY <1>2, <1>4, PipeEnforced
<1> QED BY <1>3, <1>4

\* For files that fit and that the parser understands, in either build, whatever the order of writes, signals,
\* routes, addresses and links: once the events have been handled, the first rule
\* that matches a packet sends it where the file, the mode and software routing
\* say, for every family that missed no change, on the modem and on a pipe.
THEOREM Enforced == FilesFit /\ FilesUnderstood => (Spec => []FirewallEnforced)
<1> SUFFICES ASSUME FilesFit, FilesUnderstood PROVE Spec => []FirewallEnforced
  OBVIOUS
<1>1. IInv => FirewallEnforced
  BY InvEnforced
<1> QED BY <1>1, Invariance, PTL
=============================================================================
