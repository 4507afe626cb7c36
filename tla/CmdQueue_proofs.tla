-------------------------- MODULE CmdQueue_proofs --------------------------
(***************************************************************************)
(* The command queue for any number of threads and messages: the linked    *)
(* lists always represent the queues, and the threads that edit them under *)
(* the mutex implement EventQueue.                                         *)
(***************************************************************************)
EXTENDS CmdQueue, SequenceTheorems, TLAPS

-----------------------------------------------------------------------------
(* Facts about sequences and frames. *)

\* Appending a message adds it, and repeats nothing if it was not there.
LEMMA AppendFacts ==
    ASSUME NEW s \in Seq(Msgs), NEW m \in Msgs
    PROVE  /\ Append(s, m) \in Seq(Msgs) /\ Append(s, m) # <<>>
           /\ Len(Append(s, m)) = Len(s) + 1
           /\ \A i \in 1 .. Len(s) : Append(s, m)[i] = s[i]
           /\ Append(s, m)[Len(s) + 1] = m
           /\ Elems(Append(s, m)) = Elems(s) \cup {m}
           /\ Injective(s) /\ m \notin Elems(s) => Injective(Append(s, m))
<1>1. /\ Append(s, m) \in Seq(Msgs) /\ Append(s, m) # <<>>
      /\ Len(Append(s, m)) = Len(s) + 1
      /\ \A i \in 1 .. Len(s) : Append(s, m)[i] = s[i]
      /\ Append(s, m)[Len(s) + 1] = m
  OBVIOUS
<1>2. DOMAIN s = 1 .. Len(s) /\ DOMAIN Append(s, m) = 1 .. Len(s) + 1 /\ Len(s) \in Nat
  BY <1>1
<1> DEFINE a == Append(s, m)
<1> HIDE DEF a
<1>3. Elems(a) = Elems(s) \cup {m}
  <2>1. ASSUME NEW x \in Elems(a) PROVE x \in Elems(s) \cup {m}
    BY <1>1, <1>2 DEF Elems, a
  <2>2. ASSUME NEW x \in Elems(s) PROVE x \in Elems(a)
    BY <1>1, <1>2 DEF Elems, a
  <2>3. m \in Elems(a)
    BY <1>1, <1>2 DEF Elems, a
  <2> QED
    BY <2>1, <2>2, <2>3
<1>4. Injective(s) /\ m \notin Elems(s) => Injective(a)
  BY <1>1, <1>2 DEF Elems, Injective, a
<1> QED
  BY <1>1, <1>3, <1>4 DEF a

\* Taking the first message off leaves the others, and not it if it was
\* there once.
LEMMA TailFacts ==
    ASSUME NEW s \in Seq(Msgs), s # <<>>
    PROVE  /\ Len(s) \in Nat \ {0} /\ Head(s) = s[1] /\ Head(s) \in Msgs
           /\ Tail(s) \in Seq(Msgs) /\ Len(Tail(s)) = Len(s) - 1
           /\ \A i \in 1 .. Len(s) - 1 : Tail(s)[i] = s[i + 1]
           /\ Tail(s) = <<>> <=> Len(s) = 1
           /\ Elems(Tail(s)) \subseteq Elems(s)
           /\ Elems(s) = Elems(Tail(s)) \cup {Head(s)}
           /\ Injective(s) => Injective(Tail(s)) /\ Head(s) \notin Elems(Tail(s))
<1>1. /\ Len(s) \in Nat \ {0} /\ Head(s) = s[1] /\ Head(s) \in Msgs
      /\ Tail(s) \in Seq(Msgs) /\ Len(Tail(s)) = Len(s) - 1
      /\ \A i \in 1 .. Len(s) - 1 : Tail(s)[i] = s[i + 1]
  OBVIOUS
<1>2. Tail(s) = <<>> <=> Len(s) = 1
  <2> DEFINE r == Tail(s)
  <2>1. r \in Seq(Msgs) /\ Len(r) = Len(s) - 1
    BY <1>1
  <2> HIDE DEF r
  <2>2. r = <<>> <=> Len(r) = 0
    BY <2>1, EmptySeq
  <2> QED
    BY <2>1, <2>2, <1>1 DEF r
<1> DEFINE a == Tail(s)
<1>3. DOMAIN s = 1 .. Len(s) /\ DOMAIN a = 1 .. Len(s) - 1
  BY <1>1
<1> HIDE DEF a
<1>4. Elems(a) \subseteq Elems(s)
  BY <1>1, <1>3 DEF Elems, a
<1>5. Elems(s) \subseteq Elems(a) \cup {Head(s)}
  <2> SUFFICES ASSUME NEW i \in 1 .. Len(s), i # 1 PROVE s[i] \in Elems(a)
    BY <1>1, <1>3 DEF Elems
  <2>1. i - 1 \in 1 .. Len(s) - 1 /\ s[i] = a[i - 1]
    BY <1>1 DEF a
  <2> QED
    BY <2>1, <1>3 DEF Elems
<1>6. Head(s) \in Elems(s)
  BY <1>1, <1>3 DEF Elems
<1>7. ASSUME Injective(s) PROVE Injective(a) /\ Head(s) \notin Elems(a)
  <2>1. ASSUME NEW i \in 1 .. Len(s) - 1, NEW j \in 1 .. Len(s) - 1, a[i] = a[j]
        PROVE  i = j
    <3>1. s[i + 1] = s[j + 1] /\ i + 1 \in 1 .. Len(s) /\ j + 1 \in 1 .. Len(s)
      BY <1>1, <2>1 DEF a
    <3>2. i + 1 = j + 1
      BY <3>1, <1>3, <1>7 DEF Injective
    <3> QED
      BY <3>2
  <2>2. ASSUME NEW i \in 1 .. Len(s) - 1, a[i] = Head(s) PROVE FALSE
    <3>1. s[i + 1] = s[1] /\ i + 1 \in 1 .. Len(s) /\ 1 \in 1 .. Len(s)
      BY <1>1, <2>2 DEF a
    <3>2. i + 1 = 1
      BY <3>1, <1>3, <1>7 DEF Injective
    <3> QED
      BY <3>2
  <2> QED
    BY <2>1, <2>2, <1>3 DEF Injective, Elems
<1> QED
  BY <1>1, <1>2, <1>4, <1>5, <1>6, <1>7 DEF a

\* The empty sequence has no element.
LEMMA EmptyFacts ==
    /\ <<>> \in Seq(Msgs) /\ Len(<<>>) = 0
    /\ Elems(<<>>) = {} /\ Injective(<<>>)
BY DEF Elems, Injective

\* The elements of a sequence are its values, and are messages.
LEMMA ElemsFacts ==
    ASSUME NEW s \in Seq(Msgs)
    PROVE  /\ Elems(s) \subseteq Msgs /\ Len(s) \in Nat
           /\ \A i \in 1 .. Len(s) : s[i] \in Elems(s)
           /\ \A m \in Elems(s) : \E i \in 1 .. Len(s) : s[i] = m
           /\ s # <<>> => Len(s) \in 1 .. Len(s) /\ 1 \in 1 .. Len(s)
BY DEF Elems

\* The frame of a thread's own code, and the one of its signal handler.
LEMMA FrameFacts ==
    /\ procRun \in Frames /\ Proc \in Threads /\ Main \in Threads
    /\ Producers \subseteq Threads
    /\ \A t \in Threads : <<t, "run">> \in Frames /\ <<t, "sig">> \in Frames
    /\ \A t \in Threads : <<t, "sig">> # procRun
    /\ \A t \in Threads : <<t, "run">> = procRun <=> t = Proc
    /\ \A t \in Threads : t = Proc \/ t = Main \/ t \in Producers
BY DEF Frames, Threads, procRun

-----------------------------------------------------------------------------
(* The inductive invariant. *)

\* A frame between pthread_mutex_lock and pthread_mutex_unlock owns the mutex.
Mutex == \A f \in Frames : pc[f] \in {"enqueue", "unlock", "dequeue"} => lock = f

\* Only the thread of MessageQueue::Process runs its loop.
PcShape == \A f \in Frames :
    IF f = procRun THEN pc[f] # "idle" ELSE pc[f] \in {"idle", "lock", "enqueue", "unlock"}

Posting(f) == pc[f] \in {"lock", "enqueue"}

\* What a frame is posting is a new message of its own, linked to nothing.
Args ==
    /\ \A f \in Frames : Posting(f) =>
         arg[f] \in Msgs /\ life[arg[f]] = "new" /\ mnext[arg[f]] = NULL
    /\ \A f, g \in Frames : Posting(f) /\ Posting(g) /\ arg[f] = arg[g] => f = g

\* Process holds an item exactly while its handlers run.
ItemShape == item = NULL <=> pc[procRun] \in {"loop", "dequeue", "wait"}

\* What is still to be posted was never posted: the rest of a producer's own
\* messages, the rest of those of the handlers that run, and all those of the
\* handlers that have not run yet.
Unposted ==
    /\ \A t \in Threads : Injective(todo[t]) /\ \A m \in Elems(todo[t]) : life[m] = "none"
    /\ \A p \in Producers : Elems(todo[p]) \subseteq Elems(Source[p])
    /\ todo[Main] = <<>>
    /\ IF item = NULL THEN todo[Proc] = <<>> ELSE Elems(todo[Proc]) \subseteq Elems(Spawn[item])
    /\ \A m \in Msgs : life[m] \in {"none", "new", "queued"} =>
         \A n \in Elems(Spawn[m]) : life[n] = "none"

IInv == TypeOK /\ QueueShape /\ Mutex /\ PcShape /\ Args /\ ItemShape /\ Unposted
-----------------------------------------------------------------------------
(* Every step preserves it. *)

\* Initially nothing is queued and nothing posted.
LEMMA InitInv == Init => IInv
<1> SUFFICES ASSUME Init PROVE IInv
  OBVIOUS
<1> USE QueueAssumption, FrameFacts, EmptyFacts
<1>1. TypeOK
  <2>1. todo \in [Threads -> Seq(Msgs)]
    BY DEF Init
  <2>2. pc \in [Frames -> {"idle", "lock", "enqueue", "unlock", "loop", "dequeue", "wait", "run"}]
    BY DEF Init
  <2>3. order \in [Queues -> Seq(Msgs)]
    BY DEF Init
  <2>4. spurious \in 0 .. MaxSpurious
    BY DEF Init
  <2>5. woken \in BOOLEAN
    BY Zenon DEF Init
  <2>6. /\ head \in [Queues -> Msgs \cup {NULL}] /\ tail \in [Queues -> Msgs \cup {NULL}]
        /\ mnext \in [Msgs -> Msgs \cup {NULL}] /\ arg \in [Frames -> Msgs \cup {NULL}]
    BY DEF Init
  <2>7. /\ life \in [Msgs -> {"none", "new", "queued", "taken", "deleted"}]
        /\ lock \in Frames \cup {NULL}
        /\ item \in {m \in Msgs : life[m] = "taken"} \cup {NULL}
    BY DEF Init
  <2> QED
    BY <2>1, <2>2, <2>3, <2>4, <2>5, <2>6, <2>7 DEF TypeOK
<1>2. QueueShape
  BY DEF Init, QueueShape, Queues
<1>3. Mutex /\ PcShape /\ Args /\ ItemShape
  BY DEF Init, Mutex, PcShape, Args, Posting, ItemShape
<1>4. Unposted
  <2>1. \A p \in Producers : todo[p] = Source[p] /\ Source[p] \in Seq(Msgs)
    BY DEF Init
  <2>2. todo[Proc] = <<>> /\ todo[Main] = <<>>
    BY DEF Init
  <2>3. \A t \in Threads : Injective(todo[t]) /\ Elems(todo[t]) \subseteq Msgs
    BY <2>1, <2>2, FreshAssumption, ElemsFacts
  <2>4. \A m \in Msgs : Elems(Spawn[m]) \subseteq Msgs
    BY ElemsFacts
  <2> QED
    BY <2>1, <2>2, <2>3, <2>4 DEF Init, Unposted
<1> QED
  BY <1>1, <1>2, <1>3, <1>4 DEF IInv

\* new Message() in a frame that is not posting: the message is in no queue,
\* no other frame posts it and none will.
LEMMA NewMessageKeeps ==
    ASSUME IInv, NEW f \in Frames, NEW m \in Msgs, NewMessage(f, m),
           pc[f] = IF f = procRun THEN "run" ELSE "idle",
           life[m] = "none",
           todo' \in [Threads -> Seq(Msgs)],
           \A t \in Threads : /\ Elems(todo'[t]) \subseteq Elems(todo[t]) \ {m}
                              /\ Injective(todo'[t])
                              /\ todo[t] = <<>> => todo'[t] = <<>>,
           \A n \in Msgs : life[n] \in {"none", "new", "queued"} => m \notin Elems(Spawn[n])
    PROVE  IInv'
<1> USE QueueAssumption, FrameFacts DEF NewMessage, Goto
<1>1. TypeOK'
  <2>1. item = NULL \/ item # m
    BY DEF IInv, TypeOK
  <2> QED
    BY <2>1 DEF IInv, TypeOK
<1>2. QueueShape'
  <2>1. \A q \in Queues : m \notin Elems(order[q])
    BY DEF IInv, QueueShape, Queues
  <2>2. ASSUME NEW q \in Queues PROVE \A i \in 1 .. Len(order[q]) : order[q][i] # m
    BY <2>1, ElemsFacts DEF IInv, TypeOK
  <2>3. ASSUME NEW q \in Queues, order[q] # <<>> PROVE tail[q] # m /\ tail[q] \in Msgs
    <3>1. order[q] \in Seq(Msgs)
      BY DEF IInv, TypeOK
    <3>2. Len(order[q]) \in 1 .. Len(order[q])
      BY <2>3, <3>1, ElemsFacts
    <3>3. tail[q] = order[q][Len(order[q])]
      BY <2>3 DEF IInv, QueueShape
    <3> QED
      BY <3>1, <3>2, <3>3, <2>2
  <2>4. \A n \in Msgs : (life[n] = "queued")' <=> life[n] = "queued"
    BY DEF IInv, TypeOK
  <2>5. \A q \in Queues : \A i \in 1 .. Len(order[q]) : mnext'[order[q][i]] = mnext[order[q][i]]
    BY <2>2, ElemsFacts DEF IInv, TypeOK
  <2>6. \A q \in Queues : order[q] # <<>> => mnext'[tail[q]] = mnext[tail[q]]
    BY <2>3 DEF IInv, TypeOK
  <2>7. \A q \in Queues : 1 .. Len(order[q]) - 1 \subseteq 1 .. Len(order[q])
    BY ElemsFacts DEF IInv, TypeOK
  <2> QED
    BY <2>4, <2>5, <2>6, <2>7 DEF IInv, QueueShape
<1>3. Mutex' /\ PcShape'
  BY DEF IInv, TypeOK, Mutex, PcShape
<1>4. Args'
  <2>1. \A g \in Frames : g # f => (Posting(g)' <=> Posting(g)) /\ arg'[g] = arg[g]
    BY DEF IInv, TypeOK, Posting
  <2>2. arg'[f] = m /\ life'[m] = "new" /\ mnext'[m] = NULL
    BY DEF IInv, TypeOK
  <2>3. \A g \in Frames : Posting(g) => arg[g] # m /\ arg[g] \in Msgs
    BY DEF IInv, Args
  <2> QED
    BY <2>1, <2>2, <2>3 DEF IInv, TypeOK, Args
<1>5. ItemShape'
  BY DEF IInv, TypeOK, ItemShape
<1>6. Unposted'
  <2>1. \A t \in Threads : \A n \in Elems(todo'[t]) : n # m /\ n \in Elems(todo[t]) /\ life[n] = "none"
    BY DEF IInv, Unposted
  <2>2. \A t \in Threads : \A n \in Elems(todo'[t]) : life'[n] = "none"
    BY <2>1, ElemsFacts DEF IInv, TypeOK
  <2>3. \A n \in Msgs : life'[n] \in {"none", "new", "queued"} => life[n] \in {"none", "new", "queued"}
    BY DEF IInv, TypeOK
  <2>4. ASSUME NEW n \in Msgs, life'[n] \in {"none", "new", "queued"}, NEW k \in Elems(Spawn[n])
        PROVE  life'[k] = "none"
    <3>1. k # m /\ life[k] = "none"
      BY <2>3, <2>4 DEF IInv, Unposted
    <3>2. k \in Msgs
      BY ElemsFacts
    <3> QED
      BY <3>1, <3>2 DEF IInv, TypeOK
  <2> QED
    BY <2>1, <2>2, <2>4 DEF IInv, Unposted
<1> QED
  BY <1>1, <1>2, <1>3, <1>4, <1>5, <1>6 DEF IInv
\* A thread's own code begins to post the next of its messages.
LEMMA PostStartKeeps ==
    ASSUME IInv, NEW t \in Threads, PostStart(t)
    PROVE  IInv'
<1> DEFINE s == todo[t]
           f == <<t, "run">>
           m == Head(s)
<1>1. s \in Seq(Msgs) /\ s # <<>> /\ f \in Frames
  BY FrameFacts DEF PostStart, IInv, TypeOK
<1>2. m \in Msgs /\ m \in Elems(s) /\ Tail(s) \in Seq(Msgs)
  BY <1>1, TailFacts
<1>3. NewMessage(f, m) /\ pc[f] = IF f = procRun THEN "run" ELSE "idle"
  BY FrameFacts DEF PostStart, At
<1>4. life[m] = "none" /\ Injective(s)
  BY <1>2 DEF IInv, Unposted
<1>5. t \in Producers \/ (t = Proc /\ item # NULL)
  BY <1>1, FrameFacts DEF IInv, Unposted
<1>6. ASSUME NEW r \in Threads, r # t PROVE m \notin Elems(todo[r])
  <2>1. r = Main => Elems(todo[r]) = {}
    BY EmptyFacts DEF IInv, Unposted
  <2>2. r \in Producers => Elems(todo[r]) \subseteq Elems(Source[r])
    BY DEF IInv, Unposted
  <2>3. r = Proc => \/ Elems(todo[r]) = {}
                    \/ item \in Msgs /\ Elems(todo[r]) \subseteq Elems(Spawn[item])
    BY EmptyFacts DEF IInv, Unposted, TypeOK
  <2>4. t \in Producers => m \in Elems(Source[t])
    BY <1>2 DEF IInv, Unposted
  <2>5. t = Proc => item \in Msgs /\ m \in Elems(Spawn[item])
    BY <1>2, <1>5, QueueAssumption, EmptyFacts, <1>1 DEF IInv, Unposted, TypeOK
  <2> QED
    BY <1>5, <1>6, <2>1, <2>2, <2>3, <2>4, <2>5, FreshAssumption, FrameFacts
<1>7. ASSUME NEW n \in Msgs, life[n] \in {"none", "new", "queued"} PROVE m \notin Elems(Spawn[n])
  <2>1. CASE t \in Producers
    BY <2>1, <1>2, FreshAssumption DEF IInv, Unposted
  <2>2. CASE t = Proc /\ item # NULL
    <3>1. item \in Msgs /\ life[item] = "taken" /\ m \in Elems(Spawn[item])
      BY <2>2, <1>2 DEF IInv, Unposted, TypeOK
    <3> QED
      BY <3>1, <1>7, FreshAssumption
  <2> QED
    BY <1>5, <2>1, <2>2
<1>8. todo' = [todo EXCEPT ![t] = Tail(s)]
  BY DEF PostStart
<1>9. todo' \in [Threads -> Seq(Msgs)] /\ todo'[t] = Tail(s)
      /\ \A r \in Threads : r # t => todo'[r] = todo[r]
  BY <1>2, <1>8 DEF IInv, TypeOK
<1>10. \A r \in Threads : /\ Elems(todo'[r]) \subseteq Elems(todo[r]) \ {m}
                          /\ Injective(todo'[r])
                          /\ todo[r] = <<>> => todo'[r] = <<>>
  <2> SUFFICES ASSUME NEW r \in Threads
               PROVE  /\ Elems(todo'[r]) \subseteq Elems(todo[r]) \ {m}
                      /\ Injective(todo'[r])
                      /\ todo[r] = <<>> => todo'[r] = <<>>
    OBVIOUS
  <2>1. CASE r = t
    BY <2>1, <1>1, <1>4, <1>9, TailFacts
  <2>2. CASE r # t
    BY <2>2, <1>6, <1>9 DEF IInv, Unposted
  <2> QED
    BY <2>1, <2>2
<1> HIDE DEF m, f, s
<1> QED
  BY <1>1, <1>2, <1>3, <1>4, <1>7, <1>9, <1>10, NewMessageKeeps

\* IPACM_Sig_Handler posts a message that nothing else posts.
LEMMA SignalKeeps ==
    ASSUME IInv, NEW t \in Threads, NEW m \in SigMsgs, Signal(t, m)
    PROVE  IInv'
<1> DEFINE f == <<t, "sig">>
<1>1. f \in Frames /\ m \in Msgs /\ f # procRun
  BY FrameFacts, QueueAssumption
<1>2. NewMessage(f, m) /\ pc[f] = "idle" /\ life[m] = "none" /\ todo' = todo
  BY DEF Signal
<1>3. \A n \in Msgs : m \notin Elems(Spawn[n])
  BY FreshAssumption
<1>4. ASSUME NEW r \in Threads PROVE m \notin Elems(todo[r])
  <2>1. r = Main => Elems(todo[r]) = {}
    BY EmptyFacts DEF IInv, Unposted
  <2>2. r \in Producers => Elems(todo[r]) \subseteq Elems(Source[r])
    BY DEF IInv, Unposted
  <2>3. r = Proc => \/ Elems(todo[r]) = {}
                    \/ item \in Msgs /\ Elems(todo[r]) \subseteq Elems(Spawn[item])
    BY EmptyFacts DEF IInv, Unposted, TypeOK
  <2> QED
    BY <1>3, <2>1, <2>2, <2>3, FreshAssumption, FrameFacts
<1>5. todo \in [Threads -> Seq(Msgs)] /\ \A r \in Threads : Injective(todo[r])
  BY DEF IInv, TypeOK, Unposted
<1> HIDE DEF f
<1> QED
  BY <1>1, <1>2, <1>3, <1>4, <1>5, NewMessageKeeps

\* Taking the mutex, and giving it back, leaves the queues alone.
LEMMA LockKeeps ==
    ASSUME IInv, NEW f \in Frames, Lock(f) \/ Unlock(f)
    PROVE  IInv'
<1> USE QueueAssumption, FrameFacts DEF Lock, Unlock, At, Goto
<1>1. TypeOK'
  BY DEF IInv, TypeOK
<1>2. QueueShape'
  BY DEF IInv, QueueShape
<1>3. Mutex'
  BY DEF IInv, TypeOK, Mutex, PcShape
<1>4. PcShape' /\ ItemShape'
  BY DEF IInv, TypeOK, PcShape, ItemShape
<1>5. Args'
  <2>1. \A g \in Frames : Posting(g)' => Posting(g) /\ arg'[g] = arg[g]
    BY DEF IInv, TypeOK, Posting
  <2> QED
    BY <2>1 DEF IInv, Args
<1>6. Unposted'
  BY DEF IInv, Unposted
<1> QED
  BY <1>1, <1>2, <1>3, <1>4, <1>5, <1>6 DEF IInv

\* The loop of Process around its queue: taking the mutex, waiting, waking.
LEMMA LoopKeeps ==
    ASSUME IInv, ProcLock \/ Wait \/ Wake \/ SpuriousWakeup
    PROVE  IInv'
<1> USE QueueAssumption, FrameFacts DEF ProcLock, Wait, Wake, SpuriousWakeup, At, Goto
<1>1. TypeOK'
  <2>1. woken' \in BOOLEAN
    BY Zenon DEF IInv, TypeOK
  <2>2. spurious' \in 0 .. MaxSpurious
    BY DEF IInv, TypeOK
  <2> QED
    BY <2>1, <2>2 DEF IInv, TypeOK
<1>2. QueueShape'
  BY DEF IInv, QueueShape
<1>3. Mutex'
  BY DEF IInv, TypeOK, Mutex, PcShape
<1>4. PcShape' /\ ItemShape'
  BY DEF IInv, TypeOK, PcShape, ItemShape
<1>5. Args'
  <2>1. \A g \in Frames : Posting(g)' => Posting(g) /\ arg'[g] = arg[g]
    BY DEF IInv, TypeOK, Posting
  <2> QED
    BY <2>1 DEF IInv, Args
<1>6. Unposted'
  BY DEF IInv, Unposted
<1> QED
  BY <1>1, <1>2, <1>3, <1>4, <1>5, <1>6 DEF IInv
\* A step that posts nothing new and starts no handler.
LEMMA UnpostedKept ==
    ASSUME IInv, todo' = todo, item' = item \/ (item' = NULL /\ todo[Proc] = <<>>),
           \A n \in Msgs : /\ life[n] = "none" => life'[n] = "none"
                           /\ life'[n] \in {"none", "new", "queued"} =>
                                life[n] \in {"none", "new", "queued"}
    PROVE  Unposted'
<1>1. \A t \in Threads : Elems(todo[t]) \subseteq Msgs
  BY ElemsFacts DEF IInv, TypeOK
<1>2. \A n \in Msgs : Elems(Spawn[n]) \subseteq Msgs
  BY QueueAssumption, ElemsFacts
<1>3. \A t \in Threads : \A n \in Elems(todo[t]) : life'[n] = "none"
  BY <1>1 DEF IInv, Unposted
<1>4. \A n \in Msgs : life'[n] \in {"none", "new", "queued"} =>
        \A k \in Elems(Spawn[n]) : life'[k] = "none"
  BY <1>2 DEF IInv, Unposted
<1> QED
  BY <1>3, <1>4 DEF IInv, Unposted

\* Deleting the message whose handlers have all returned.
LEMMA DeleteKeeps ==
    ASSUME IInv, Delete
    PROVE  IInv'
<1> USE QueueAssumption, FrameFacts DEF Delete, At, Goto
<1>0. item \in Msgs /\ life[item] = "taken" /\ todo[Proc] = <<>>
  BY DEF IInv, ItemShape, TypeOK
<1>1. TypeOK'
  BY <1>0 DEF IInv, TypeOK
<1>2. QueueShape'
  <2>1. \A n \in Msgs : (life[n] = "queued")' <=> life[n] = "queued"
    BY <1>0 DEF IInv, TypeOK
  <2> QED
    BY <2>1 DEF IInv, QueueShape
<1>3. Mutex'
  BY DEF IInv, TypeOK, Mutex
<1>4. PcShape' /\ ItemShape'
  BY DEF IInv, TypeOK, PcShape, ItemShape
<1>5. Args'
  <2>1. \A g \in Frames : Posting(g)' => Posting(g) /\ arg'[g] = arg[g]
    BY DEF IInv, TypeOK, Posting
  <2>2. \A g \in Frames : Posting(g) => arg[g] # item /\ life'[arg[g]] = life[arg[g]]
    BY <1>0 DEF IInv, TypeOK, Args
  <2> QED
    BY <2>1, <2>2 DEF IInv, Args
<1>6. Unposted'
  <2>1. \A n \in Msgs : /\ life[n] = "none" => life'[n] = "none"
                        /\ life'[n] \in {"none", "new", "queued"} =>
                             life[n] \in {"none", "new", "queued"}
    BY <1>0 DEF IInv, TypeOK
  <2> QED
    BY <1>0, <2>1, UnpostedKept
<1> QED
  BY <1>1, <1>2, <1>3, <1>4, <1>5, <1>6 DEF IInv

\* enqueue links a new message behind the last one of its queue.
LEMMA EnqueueKeeps ==
    ASSUME IInv, NEW f \in Frames, EnqueueAndSignal(f)
    PROVE  IInv'
<1> USE QueueAssumption, FrameFacts
<1> DEFINE m == arg[f]
           c == QueueOf(m)
           s == order[c]
           a == Append(s, m)
<1>0. m \in Msgs /\ life[m] = "new" /\ mnext[m] = NULL /\ lock = f
  BY DEF IInv, Args, Mutex, Posting, EnqueueAndSignal, At
<1>1. c \in Queues /\ s \in Seq(Msgs) /\ \A q \in Queues : order[q] \in Seq(Msgs)
  BY DEF IInv, TypeOK, QueueOf, Queues
<1>2. /\ a \in Seq(Msgs) /\ a # <<>> /\ Len(a) = Len(s) + 1 /\ Len(s) \in Nat
      /\ \A i \in 1 .. Len(s) : a[i] = s[i]
      /\ a[Len(s) + 1] = m /\ Elems(a) = Elems(s) \cup {m}
      /\ Injective(s) /\ m \notin Elems(s) => Injective(a)
  BY <1>0, <1>1, AppendFacts, ElemsFacts
<1>3. \A q \in Queues : m \notin Elems(order[q])
  BY <1>0 DEF IInv, QueueShape, Queues
<1>4. /\ life' = [life EXCEPT ![m] = "queued"] /\ order' = [order EXCEPT ![c] = a]
      /\ Enqueue(c, m) /\ CondSignal /\ pc' = [pc EXCEPT ![f] = "unlock"]
      /\ UNCHANGED <<spurious, lock, arg, todo, item>> /\ pc[f] = "enqueue"
  BY DEF EnqueueAndSignal, Goto, At
<1>5. order'[c] = a /\ \A q \in Queues : q # c => order'[q] = order[q]
  BY <1>1, <1>4 DEF IInv, TypeOK
<1>6. s # <<>> => /\ tail[c] \in Msgs /\ tail[c] # NULL /\ tail[c] = s[Len(s)] /\ head[c] = s[1]
                  /\ head[c] # NULL
  <2> SUFFICES ASSUME s # <<>> PROVE tail[c] = s[Len(s)] /\ head[c] = s[1]
                                     /\ s[Len(s)] \in Msgs /\ s[1] \in Msgs
    BY <1>1
  <2>1. Len(s) \in 1 .. Len(s) /\ 1 \in 1 .. Len(s)
    BY <1>1, ElemsFacts
  <2> QED
    BY <2>1, <1>1, ElemsFacts DEF IInv, QueueShape
<1>7. s = <<>> => head[c] = NULL
  BY <1>1 DEF IInv, QueueShape
<1>8. /\ tail' = [tail EXCEPT ![c] = m]
      /\ s = <<>> => head' = [head EXCEPT ![c] = m] /\ mnext' = mnext
      /\ s # <<>> => head' = head /\ mnext' = [mnext EXCEPT ![s[Len(s)]] = m]
  BY <1>4, <1>6, <1>7 DEF Enqueue
<1> HIDE DEF m, a, s, c
<1>9. TypeOK'
  <2>1. woken' \in BOOLEAN
    BY <1>4, Zenon DEF IInv, TypeOK, CondSignal
  <2>2. head' \in [Queues -> Msgs \cup {NULL}] /\ tail' \in [Queues -> Msgs \cup {NULL}]
    BY <1>0, <1>8 DEF IInv, TypeOK
  <2>3. mnext' \in [Msgs -> Msgs \cup {NULL}]
    <3>1. mnext \in [Msgs -> Msgs \cup {NULL}]
      BY DEF IInv, TypeOK
    <3>2. CASE s = <<>>
      BY <3>1, <3>2, <1>8
    <3>3. CASE s # <<>>
      BY <3>1, <3>3, <1>0, <1>8
    <3> QED
      BY <3>2, <3>3
  <2>4. order' \in [Queues -> Seq(Msgs)]
    BY <1>2, <1>4 DEF IInv, TypeOK
  <2>5. item' \in {n \in Msgs : life'[n] = "taken"} \cup {NULL}
    BY <1>0, <1>4 DEF IInv, TypeOK
  <2>6. life' \in [Msgs -> {"none", "new", "queued", "taken", "deleted"}]
    BY <1>0, <1>4 DEF IInv, TypeOK
  <2>7. pc' \in [Frames -> {"idle", "lock", "enqueue", "unlock", "loop", "dequeue", "wait", "run"}]
    BY <1>4 DEF IInv, TypeOK
  <2> QED
    BY <2>1, <2>2, <2>3, <2>4, <2>5, <2>6, <2>7, <1>4 DEF IInv, TypeOK
<1>10. QueueShape'
  <2>1. ASSUME NEW q \in Queues, q # c
        PROVE  /\ head'[q] = head[q] /\ tail'[q] = tail[q] /\ order'[q] = order[q]
               /\ \A i \in 1 .. Len(order[q]) : mnext'[order[q][i]] = mnext[order[q][i]]
               /\ order[q] # <<>> => mnext'[tail[q]] = mnext[tail[q]]
    <3>1. head'[q] = head[q] /\ tail'[q] = tail[q] /\ order'[q] = order[q]
      BY <2>1, <1>5, <1>8 DEF IInv, TypeOK
    <3>2. s # <<>> => QueueOf(s[Len(s)]) = c
      BY <1>1, ElemsFacts DEF IInv, QueueShape, s
    <3>3. \A i \in 1 .. Len(order[q]) : order[q][i] \in Msgs /\ QueueOf(order[q][i]) = q
      BY <1>1, ElemsFacts DEF IInv, QueueShape
    <3>4. \A i \in 1 .. Len(order[q]) : mnext'[order[q][i]] = mnext[order[q][i]]
      BY <2>1, <3>2, <3>3, <1>8 DEF IInv, TypeOK
    <3>5. order[q] # <<>> => tail[q] = order[q][Len(order[q])] /\ Len(order[q]) \in 1 .. Len(order[q])
      BY <1>1, ElemsFacts DEF IInv, QueueShape
    <3> QED
      BY <3>1, <3>4, <3>5
  <2>2. ASSUME NEW q \in Queues, q # c
        PROVE  /\ head'[q] = IF order'[q] = <<>> THEN NULL ELSE order'[q][1]
               /\ \A i \in 1 .. Len(order'[q]) - 1 : mnext'[order'[q][i]] = order'[q][i + 1]
               /\ order'[q] # <<>> => tail'[q] = order'[q][Len(order'[q])] /\ mnext'[tail'[q]] = NULL
               /\ \A i \in 1 .. Len(order'[q]) : QueueOf(order'[q][i]) = q
               /\ Injective(order'[q])
    <3>1. 1 .. Len(order[q]) - 1 \subseteq 1 .. Len(order[q])
      BY <1>1, ElemsFacts
    <3>2. /\ head[q] = IF order[q] = <<>> THEN NULL ELSE order[q][1]
          /\ \A i \in 1 .. Len(order[q]) - 1 : mnext[order[q][i]] = order[q][i + 1]
          /\ order[q] # <<>> => tail[q] = order[q][Len(order[q])] /\ mnext[tail[q]] = NULL
          /\ \A i \in 1 .. Len(order[q]) : QueueOf(order[q][i]) = q
          /\ Injective(order[q])
      BY DEF IInv, QueueShape
    <3>3. \A i \in 1 .. Len(order[q]) - 1 : mnext'[order[q][i]] = order[q][i + 1]
      BY <2>1, <2>2, <3>1, <3>2
    <3> QED
      BY <2>1, <2>2, <3>2, <3>3
  <2>3. /\ head'[c] = a[1]
        /\ \A i \in 1 .. Len(a) - 1 : mnext'[a[i]] = a[i + 1]
        /\ tail'[c] = a[Len(a)] /\ mnext'[m] = NULL
        /\ \A i \in 1 .. Len(a) : QueueOf(a[i]) = c
        /\ Injective(a)
    <3>1. tail'[c] = m
      BY <1>1, <1>8 DEF IInv, TypeOK
    <3>2. Injective(a)
      BY <1>1, <1>2, <1>3 DEF IInv, QueueShape, s
    <3>3. \A i \in 1 .. Len(a) : QueueOf(a[i]) = c
      <4>1. \A i \in 1 .. Len(s) : QueueOf(s[i]) = c
        BY <1>1 DEF IInv, QueueShape, s
      <4>2. QueueOf(m) = c
        BY DEF c
      <4>3. \A i \in 1 .. Len(a) : i \in 1 .. Len(s) \/ i = Len(s) + 1
        BY <1>2
      <4> QED
        BY <4>1, <4>2, <4>3, <1>2
    <3>4. CASE s = <<>>
      <4>1. Len(s) = 0
        BY <3>4, EmptyFacts
      <4>2. head'[c] = m /\ mnext' = mnext
        BY <3>4, <1>1, <1>8 DEF IInv, TypeOK
      <4> QED
        BY <4>1, <4>2, <3>1, <3>2, <3>3, <1>0, <1>2
    <3>5. CASE s # <<>>
      <4>1. Len(s) \in 1 .. Len(s) /\ 1 \in 1 .. Len(s) /\ \A i \in 1 .. Len(s) : s[i] \in Msgs /\ s[i] # m
        BY <3>5, <1>1, <1>3, ElemsFacts DEF s
      <4>2. head'[c] = a[1]
        BY <3>5, <4>1, <1>2, <1>6, <1>8
      <4>3. mnext'[m] = NULL
        BY <3>5, <4>1, <1>0, <1>8 DEF IInv, TypeOK
      <4>4. mnext'[s[Len(s)]] = m
        BY <3>5, <4>1, <1>8 DEF IInv, TypeOK
      <4>5. ASSUME NEW i \in 1 .. Len(s) - 1 PROVE mnext'[s[i]] = s[i + 1]
        <5>1. i \in 1 .. Len(s) /\ i # Len(s) /\ DOMAIN s = 1 .. Len(s)
          BY <1>1, <1>2
        <5>2. s[i] # s[Len(s)]
          BY <5>1, <4>1, <1>1 DEF IInv, QueueShape, Injective, s
        <5>3. mnext[s[i]] = s[i + 1]
          BY <1>1 DEF IInv, QueueShape, s
        <5> QED
          BY <5>1, <5>2, <5>3, <4>1, <3>5, <1>8 DEF IInv, TypeOK
      <4>6. \A i \in 1 .. Len(a) - 1 : mnext'[a[i]] = a[i + 1]
        <5>1. ASSUME NEW i \in 1 .. Len(a) - 1, i # Len(s) PROVE mnext'[a[i]] = a[i + 1]
          <6>1. i \in 1 .. Len(s) - 1 /\ i \in 1 .. Len(s) /\ i + 1 \in 1 .. Len(s)
            BY <1>2, <5>1
          <6> QED
            BY <6>1, <4>5, <1>2
        <5>2. mnext'[a[Len(s)]] = a[Len(s) + 1]
          BY <4>1, <4>4, <1>2
        <5> QED
          BY <5>1, <5>2
      <4> QED
        BY <4>2, <4>3, <4>6, <3>1, <3>2, <3>3, <1>2
    <3> QED
      BY <3>4, <3>5
  <2>4. \A q \in Queues :
          /\ head'[q] = IF order'[q] = <<>> THEN NULL ELSE order'[q][1]
          /\ \A i \in 1 .. Len(order'[q]) - 1 : mnext'[order'[q][i]] = order'[q][i + 1]
          /\ order'[q] # <<>> => tail'[q] = order'[q][Len(order'[q])] /\ mnext'[tail'[q]] = NULL
          /\ \A i \in 1 .. Len(order'[q]) : QueueOf(order'[q][i]) = q
          /\ Injective(order'[q])
    BY <2>2, <2>3, <1>2, <1>5
  <2>5. \A n \in Msgs : life'[n] = "queued" <=>
                          n \in Elems(order'["int"]) \cup Elems(order'["ext"])
    BY <1>0, <1>1, <1>2, <1>4, <1>5 DEF IInv, TypeOK, QueueShape, Queues, s
  <2> QED
    BY <2>4, <2>5 DEF QueueShape
<1>11. Mutex' /\ PcShape'
  BY <1>4, <1>0 DEF IInv, TypeOK, Mutex, PcShape
<1>12. Args'
  <2>1. \A g \in Frames : Posting(g)' => Posting(g) /\ arg'[g] = arg[g] /\ g # f
    BY <1>4 DEF IInv, TypeOK, Posting
  <2>2. ASSUME NEW g \in Frames, Posting(g), g # f
        PROVE  life'[arg[g]] = life[arg[g]] /\ mnext'[arg[g]] = mnext[arg[g]]
    <3>1. arg[g] # m /\ arg[g] \in Msgs /\ life[arg[g]] = "new"
      BY <2>2, <1>4 DEF IInv, Args, Posting, m
    <3>2. s # <<>> => life[s[Len(s)]] = "queued"
      BY <1>1, <1>6, ElemsFacts DEF IInv, QueueShape, Queues, s
    <3> QED
      BY <3>1, <3>2, <1>4, <1>8, <1>6 DEF IInv, TypeOK
  <2> QED
    BY <2>1, <2>2 DEF IInv, Args
<1>13. ItemShape'
  BY <1>4 DEF IInv, TypeOK, ItemShape
<1>14. Unposted'
  <2>1. \A n \in Msgs : /\ life[n] = "none" => life'[n] = "none"
                        /\ life'[n] \in {"none", "new", "queued"} =>
                             life[n] \in {"none", "new", "queued"}
    BY <1>0, <1>4 DEF IInv, TypeOK
  <2> QED
    BY <1>4, <2>1, UnpostedKept
<1> QED
  BY <1>9, <1>10, <1>11, <1>12, <1>13, <1>14 DEF IInv
\* dequeue unlinks the first message of a queue and leaves Tail alone.
LEMMA DequeueKeeps ==
    ASSUME IInv, Dequeue
    PROVE  IInv'
<1> USE QueueAssumption, FrameFacts
<1> DEFINE c == FirstQueue
           s == order[c]
           a == Tail(s)
           m == head[c]
<1>1. c \in Queues /\ s \in Seq(Msgs) /\ \A q \in Queues : order[q] \in Seq(Msgs)
  BY DEF IInv, TypeOK, FirstQueue, Queues
<1>2. s # <<>> /\ m = s[1] /\ m = Head(s) /\ m # NULL
  BY <1>1, EmptyFacts DEF Dequeue, IInv, QueueShape
<1>3. m \in Msgs /\ m \in Elems(s) /\ life[m] = "queued"
  BY <1>1, <1>2, TailFacts DEF IInv, QueueShape, Queues
<1>4. /\ Len(s) \in Nat \ {0} /\ a \in Seq(Msgs) /\ Len(a) = Len(s) - 1
      /\ \A i \in 1 .. Len(s) - 1 : a[i] = s[i + 1]
      /\ a = <<>> <=> Len(s) = 1
      /\ Elems(a) \subseteq Elems(s) /\ Elems(s) = Elems(a) \cup {m}
      /\ Injective(s) => Injective(a) /\ m \notin Elems(a)
  BY <1>1, <1>2, TailFacts
<1>5. /\ head' = [head EXCEPT ![c] = mnext[m]] /\ life' = [life EXCEPT ![m] = "taken"]
      /\ order' = [order EXCEPT ![c] = a] /\ todo' = [todo EXCEPT ![Proc] = Spawn[m]]
      /\ pc' = [pc EXCEPT ![procRun] = "run"] /\ lock' = NULL /\ item' = m
      /\ UNCHANGED <<spurious, tail, mnext, woken, arg>> /\ pc[procRun] = "dequeue"
  BY DEF Dequeue, Goto, At
<1>6. order'[c] = a /\ \A q \in Queues : q # c => order'[q] = order[q]
  BY <1>1, <1>5 DEF IInv, TypeOK
<1>7. /\ \A i \in 1 .. Len(s) - 1 : mnext[s[i]] = s[i + 1]
      /\ tail[c] = s[Len(s)] /\ mnext[tail[c]] = NULL
      /\ \A i \in 1 .. Len(s) : QueueOf(s[i]) = c
      /\ Injective(s)
  BY <1>1, <1>2 DEF IInv, QueueShape
<1> HIDE DEF c, s, a, m
<1>8. TypeOK'
  <2>1. life' \in [Msgs -> {"none", "new", "queued", "taken", "deleted"}] /\ life'[m] = "taken"
    BY <1>3, <1>5 DEF IInv, TypeOK
  <2>2. head' \in [Queues -> Msgs \cup {NULL}] /\ order' \in [Queues -> Seq(Msgs)]
    BY <1>3, <1>4, <1>5 DEF IInv, TypeOK
  <2>3. todo' \in [Threads -> Seq(Msgs)]
    BY <1>3, <1>5 DEF IInv, TypeOK
  <2>4. pc' \in [Frames -> {"idle", "lock", "enqueue", "unlock", "loop", "dequeue", "wait", "run"}]
    BY <1>5 DEF IInv, TypeOK
  <2> QED
    BY <2>1, <2>2, <2>3, <2>4, <1>3, <1>5 DEF IInv, TypeOK
<1>9. QueueShape'
  <2>1. ASSUME NEW q \in Queues, q # c
        PROVE  /\ head'[q] = IF order'[q] = <<>> THEN NULL ELSE order'[q][1]
               /\ \A i \in 1 .. Len(order'[q]) - 1 : mnext'[order'[q][i]] = order'[q][i + 1]
               /\ order'[q] # <<>> => tail'[q] = order'[q][Len(order'[q])] /\ mnext'[tail'[q]] = NULL
               /\ \A i \in 1 .. Len(order'[q]) : QueueOf(order'[q][i]) = q
               /\ Injective(order'[q])
    <3>1. head'[q] = head[q] /\ tail' = tail /\ mnext' = mnext /\ order'[q] = order[q]
      BY <2>1, <1>5, <1>6 DEF IInv, TypeOK
    <3> QED
      BY <3>1 DEF IInv, QueueShape
  <2>2. head'[c] = mnext[m]
    BY <1>1, <1>5 DEF IInv, TypeOK
  <2>3. /\ head'[c] = IF a = <<>> THEN NULL ELSE a[1]
        /\ a # <<>> => tail[c] = a[Len(a)]
    <3>1. CASE Len(s) = 1
      BY <3>1, <2>2, <1>2, <1>4, <1>7
    <3>2. CASE Len(s) # 1
      <4>1. Len(s) - 1 \in 1 .. Len(s) - 1 /\ 1 \in 1 .. Len(s) - 1 /\ (Len(s) - 1) + 1 = Len(s)
        BY <3>2, <1>4
      <4>2. mnext[m] = s[1 + 1] /\ a[1] = s[1 + 1]
        BY <4>1, <1>2, <1>4, <1>7
      <4>3. a[Len(a)] = s[Len(s)]
        BY <4>1, <1>4
      <4> QED
        BY <4>2, <4>3, <2>2, <3>2, <1>4, <1>7
    <3> QED
      BY <3>1, <3>2
  <2>4. ASSUME NEW i \in 1 .. Len(a) - 1 PROVE mnext[a[i]] = a[i + 1]
    <3>1. i \in 1 .. Len(s) - 1 /\ i + 1 \in 1 .. Len(s) - 1
      BY <1>4
    <3> QED
      BY <3>1, <1>4, <1>7
  <2>5. ASSUME NEW i \in 1 .. Len(a) PROVE QueueOf(a[i]) = c
    <3>1. i \in 1 .. Len(s) - 1 /\ i + 1 \in 1 .. Len(s)
      BY <1>4
    <3> QED
      BY <3>1, <1>4, <1>7
  <2>6. \A q \in Queues :
          /\ head'[q] = IF order'[q] = <<>> THEN NULL ELSE order'[q][1]
          /\ \A i \in 1 .. Len(order'[q]) - 1 : mnext'[order'[q][i]] = order'[q][i + 1]
          /\ order'[q] # <<>> => tail'[q] = order'[q][Len(order'[q])] /\ mnext'[tail'[q]] = NULL
          /\ \A i \in 1 .. Len(order'[q]) : QueueOf(order'[q][i]) = q
          /\ Injective(order'[q])
    <3>1. /\ head'[c] = IF order'[c] = <<>> THEN NULL ELSE order'[c][1]
          /\ \A i \in 1 .. Len(order'[c]) - 1 : mnext'[order'[c][i]] = order'[c][i + 1]
          /\ order'[c] # <<>> => tail'[c] = order'[c][Len(order'[c])] /\ mnext'[tail'[c]] = NULL
          /\ \A i \in 1 .. Len(order'[c]) : QueueOf(order'[c][i]) = c
          /\ Injective(order'[c])
      <4>1. mnext' = mnext /\ tail' = tail /\ order'[c] = a /\ Injective(a)
        BY <1>4, <1>5, <1>6, <1>7
      <4> QED
        BY <4>1, <2>3, <2>4, <2>5, <1>7
    <3> QED
      BY <3>1, <2>1
  <2>7. ASSUME NEW q \in Queues, q # c PROVE m \notin Elems(order[q])
    <3>1. QueueOf(m) = c
      BY <1>2, <1>4, <1>7
    <3>2. \A n \in Elems(order[q]) : QueueOf(n) = q
      <4>1. \A i \in 1 .. Len(order[q]) : QueueOf(order[q][i]) = q
        BY DEF IInv, QueueShape
      <4>2. \A n \in Elems(order[q]) : \E i \in 1 .. Len(order[q]) : order[q][i] = n
        BY <1>1, ElemsFacts
      <4> QED
        BY <4>1, <4>2
    <3> QED
      BY <3>1, <3>2, <2>7
  <2>8. \A n \in Msgs : life'[n] = "queued" <=>
                          n \in Elems(order'["int"]) \cup Elems(order'["ext"])
    <3>1. \A n \in Msgs : life'[n] = "queued" <=> life[n] = "queued" /\ n # m
      BY <1>3, <1>5 DEF IInv, TypeOK
    <3>2. \A n \in Msgs : n \in Elems(a) <=> n \in Elems(s) /\ n # m
      BY <1>4, <1>7
    <3>3. \A n \in Msgs : life[n] = "queued" <=> n \in Elems(order["int"]) \cup Elems(order["ext"])
      BY DEF IInv, QueueShape
    <3> QED
      BY <3>1, <3>2, <3>3, <2>7, <1>1, <1>6 DEF Queues, s
  <2> QED
    BY <2>6, <2>8 DEF QueueShape
<1>10. Mutex'
  BY <1>5 DEF IInv, TypeOK, Mutex, PcShape
<1>11. PcShape' /\ ItemShape'
  BY <1>3, <1>5 DEF IInv, TypeOK, PcShape, ItemShape
<1>12. Args'
  <2>1. \A g \in Frames : Posting(g)' => Posting(g) /\ arg'[g] = arg[g]
    BY <1>5 DEF IInv, TypeOK, Posting
  <2>2. \A g \in Frames : Posting(g) => arg[g] # m /\ life'[arg[g]] = life[arg[g]]
    BY <1>3, <1>5 DEF IInv, TypeOK, Args
  <2> QED
    BY <2>1, <2>2, <1>5 DEF IInv, Args
<1>13. Unposted'
  <2>1. /\ \A n \in Msgs : life[n] = "none" => life'[n] = "none"
        /\ \A n \in Msgs : life'[n] \in {"none", "new", "queued"} =>
                             life[n] \in {"none", "new", "queued"}
    BY <1>3, <1>5 DEF IInv, TypeOK
  <2>2. \A n \in Msgs : Elems(Spawn[n]) \subseteq Msgs
    BY ElemsFacts
  <2>3. todo'[Proc] = Spawn[m] /\ \A t \in Threads : t # Proc => todo'[t] = todo[t]
    BY <1>5 DEF IInv, TypeOK
  <2>4. Injective(Spawn[m]) /\ \A n \in Elems(Spawn[m]) : life'[n] = "none"
    BY <1>3, <2>1, <2>2, FreshAssumption DEF IInv, Unposted
  <2>5. \A t \in Threads : \A n \in Elems(todo[t]) : life'[n] = "none"
    BY <2>1, ElemsFacts DEF IInv, TypeOK, Unposted
  <2>6. \A n \in Msgs : life'[n] \in {"none", "new", "queued"} =>
          \A k \in Elems(Spawn[n]) : life'[k] = "none"
    BY <2>1, <2>2 DEF IInv, Unposted
  <2>7. \A t \in Threads : Injective(todo'[t]) /\ \A n \in Elems(todo'[t]) : life'[n] = "none"
    BY <2>3, <2>4, <2>5 DEF IInv, Unposted
  <2>8. \A p \in Producers : Elems(todo'[p]) \subseteq Elems(Source[p])
    BY <2>3 DEF IInv, Unposted
  <2>9. todo'[Main] = <<>>
    BY <2>3 DEF IInv, Unposted
  <2> QED
    BY <2>3, <2>6, <2>7, <2>8, <2>9, <1>3, <1>5 DEF Unposted
<1> QED
  BY <1>8, <1>9, <1>10, <1>11, <1>12, <1>13 DEF IInv

\* Every step of every thread preserves the invariant.
LEMMA NextInv == IInv /\ [Next]_vars => IInv'
<1> SUFFICES ASSUME IInv, [Next]_vars PROVE IInv'
  OBVIOUS
<1>1. CASE UNCHANGED vars
  <2> USE <1>1 DEF vars
  <2>1. TypeOK'
    BY DEF IInv, TypeOK
  <2>2. QueueShape'
    BY DEF IInv, QueueShape
  <2>3. Mutex' /\ PcShape' /\ ItemShape'
    BY DEF IInv, Mutex, PcShape, ItemShape
  <2>4. Args'
    BY DEF IInv, Args, Posting
  <2>5. Unposted'
    BY DEF IInv, Unposted
  <2> QED
    BY <2>1, <2>2, <2>3, <2>4, <2>5 DEF IInv
<1>2. CASE \E t \in Threads : PostStart(t) \/ \E m \in SigMsgs : Signal(t, m)
  BY <1>2, PostStartKeeps, SignalKeeps
<1>3. CASE \E f \in Frames : PostStep(f)
  BY <1>3, LockKeeps, EnqueueKeeps DEF PostStep
<1>4. CASE ProcStep
  BY <1>4, LoopKeeps, DequeueKeeps, DeleteKeeps DEF ProcStep
<1>5. CASE SpuriousWakeup
  BY <1>5, LoopKeeps
<1> QED
  BY <1>1, <1>2, <1>3, <1>4, <1>5 DEF Next

-----------------------------------------------------------------------------
(* The theorems. *)

\* The inductive invariant holds in every reachable state.
THEOREM Invariance == Spec => []IInv
BY InitInv, NextInv, PTL DEF Spec

\* Types; the item Process works on was taken out and is not deleted.
THEOREM TypeCorrect == Spec => []TypeOK
<1>1. IInv => TypeOK
  BY DEF IInv
<1> QED
  BY <1>1, Invariance, PTL

\* However the threads interleave, each linked list is the queue of the
\* messages put in and not yet taken out, and enqueue never writes into a
\* message that was deleted.
THEOREM QueuesWellLinked == Spec => []QueueShape
<1>1. IInv => QueueShape
  BY DEF IInv
<1> QED
  BY <1>1, Invariance, PTL

\* Two frames are never inside the mutex together, whatever signals do.
THEOREM MutualExclusion == Spec => []Mutex
<1>1. IInv => Mutex
  BY DEF IInv
<1> QED
  BY <1>1, Invariance, PTL

-----------------------------------------------------------------------------
(* The refinement: every step is a post, a take or the end of a handling of *)
(* the abstract queue, or leaves it alone.                                  *)

\* What the abstract queue has seen posted.
Posted == {m \in Msgs : life[m] \in {"queued", "taken", "deleted"}}

\* The empty queue is initial.
LEMMA RefinesInit == Init => Abstract!QInit
BY DEF Init, Abstract!QInit, Queues

\* A step that posts, takes and finishes nothing.
LEMMA StutterStep ==
    ASSUME IInv, order' = order, item' = item,
           \A m \in Msgs : life'[m] \in {"queued", "taken", "deleted"} <=>
                             life[m] \in {"queued", "taken", "deleted"}
    PROVE  UNCHANGED Abstract!queueVars
BY DEF Abstract!queueVars

\* Every step of the threads is a step of the abstract queue.
LEMMA RefinesNext == IInv /\ [Next]_vars => [Abstract!QNext]_(Abstract!queueVars)
<1> SUFFICES ASSUME IInv, [Next]_vars PROVE [Abstract!QNext]_(Abstract!queueVars)
  OBVIOUS
<1> USE QueueAssumption, FrameFacts
<1>1. CASE UNCHANGED vars
  BY <1>1, StutterStep DEF vars
<1>2. CASE \E t \in Threads : PostStart(t) \/ \E m \in SigMsgs : Signal(t, m)
  <2>1. PICK f \in Frames, m \in Msgs : NewMessage(f, m) /\ life[m] = "none"
    <3>1. ASSUME NEW t \in Threads, PostStart(t)
          PROVE  /\ <<t, "run">> \in Frames /\ Head(todo[t]) \in Msgs
                 /\ NewMessage(<<t, "run">>, Head(todo[t])) /\ life[Head(todo[t])] = "none"
      <4>1. todo[t] \in Seq(Msgs) /\ todo[t] # <<>> /\ NewMessage(<<t, "run">>, Head(todo[t]))
        BY <3>1 DEF PostStart, IInv, TypeOK
      <4>2. Head(todo[t]) \in Msgs /\ Head(todo[t]) \in Elems(todo[t])
        BY <4>1, TailFacts
      <4> QED
        BY <4>1, <4>2 DEF IInv, Unposted
    <3>2. ASSUME NEW t \in Threads, NEW m \in SigMsgs, Signal(t, m)
          PROVE  <<t, "sig">> \in Frames /\ m \in Msgs /\ NewMessage(<<t, "sig">>, m) /\ life[m] = "none"
      BY <3>2 DEF Signal
    <3> QED
      BY <1>2, <3>1, <3>2
  <2> QED
    BY <2>1, StutterStep DEF NewMessage, IInv, TypeOK
<1>3. CASE \E f \in Frames : Lock(f) \/ Unlock(f)
  BY <1>3, StutterStep DEF Lock, Unlock
<1>4. ASSUME NEW f \in Frames, NEW m \in Msgs, m = arg[f], EnqueueAndSignal(f)
      PROVE  Abstract!QPost(m)
  <2>1. life[m] = "new"
    BY <1>4 DEF IInv, Args, Posting, EnqueueAndSignal, At
  <2>2. /\ life' = [life EXCEPT ![m] = "queued"] /\ item' = item
        /\ order' = [order EXCEPT ![QueueOf(m)] = Append(order[QueueOf(m)], m)]
    BY <1>4 DEF EnqueueAndSignal
  <2>3. m \notin Posted /\ Posted' = Posted \cup {m}
    BY <2>1, <2>2 DEF IInv, TypeOK, Posted
  <2>4. IF m \in Internal
        THEN order'["int"] = Append(order["int"], m) /\ order'["ext"] = order["ext"]
        ELSE order'["ext"] = Append(order["ext"], m) /\ order'["int"] = order["int"]
    BY <2>2 DEF IInv, TypeOK, QueueOf, Queues
  <2> QED
    BY <2>2, <2>3, <2>4 DEF Abstract!QPost, Posted
<1>5. CASE ProcLock \/ Wait \/ Wake \/ SpuriousWakeup
  BY <1>5, StutterStep DEF ProcLock, Wait, Wake, SpuriousWakeup
<1>6. CASE Dequeue
  <2> DEFINE c == FirstQueue
             s == order[c]
             m == head[c]
  <2>1. c \in Queues /\ s \in Seq(Msgs) /\ m # NULL /\ item = NULL
    BY <1>6 DEF IInv, TypeOK, FirstQueue, Queues, Dequeue, ItemShape, At
  <2>2. s # <<>> /\ m = s[1] /\ m = Head(s)
    BY <2>1, TailFacts DEF IInv, QueueShape
  <2>3. m \in Msgs /\ life[m] = "queued"
    BY <2>1, <2>2, TailFacts DEF IInv, QueueShape, Queues
  <2>4. /\ life' = [life EXCEPT ![m] = "taken"] /\ item' = m
        /\ order' = [order EXCEPT ![c] = Tail(s)]
    BY <1>6 DEF Dequeue
  <2>5. c = "int" \/ (c = "ext" /\ order["int"] = <<>>)
    <3>1. order["int"] \in Seq(Msgs)
      BY DEF IInv, TypeOK, Queues
    <3>2. order["int"] # <<>> => order["int"][1] \in Msgs /\ head["int"] = order["int"][1]
      BY <3>1, TailFacts DEF IInv, QueueShape, Queues
    <3> QED
      BY <3>2 DEF FirstQueue
  <2> HIDE DEF m
  <2>6. Posted' = Posted
    BY <2>3, <2>4 DEF IInv, TypeOK, Posted
  <2>7. /\ c = "int" => order'["int"] = Tail(order["int"]) /\ order'["ext"] = order["ext"]
        /\ c = "ext" => order'["ext"] = Tail(order["ext"]) /\ order'["int"] = order["int"]
    BY <2>4 DEF IInv, TypeOK, Queues
  <2>8. Abstract!QTake
    BY <2>1, <2>2, <2>4, <2>5, <2>6, <2>7 DEF Abstract!QTake, Posted
  <2> QED
    BY <2>8 DEF Abstract!QNext
<1>7. CASE Delete
  <2>1. item \in Msgs /\ life[item] = "taken" /\ item # NULL
    BY <1>7 DEF IInv, ItemShape, TypeOK, Delete, At
  <2>2. Posted' = Posted
    BY <2>1, <1>7 DEF IInv, TypeOK, Posted, Delete
  <2>3. Abstract!QDone
    BY <2>1, <2>2, <1>7 DEF Abstract!QDone, Posted, Delete
  <2> QED
    BY <2>3 DEF Abstract!QNext
<1> QED
  <2>1. CASE \E f \in Frames : EnqueueAndSignal(f)
    <3>1. \E m \in Msgs : Abstract!QPost(m)
      <4>1. PICK f \in Frames : EnqueueAndSignal(f)
        BY <2>1
      <4>2. PICK m \in Msgs : m = arg[f]
        BY <4>1 DEF IInv, Args, Posting, EnqueueAndSignal, At
      <4> QED
        BY <4>1, <4>2, <1>4
    <3> QED
      BY <3>1 DEF Abstract!QNext
  <2> QED
    BY <1>1, <1>2, <1>3, <1>5, <1>6, <1>7, <2>1 DEF Next, PostStep, ProcStep

\* The linked lists, edited under the mutex by every thread and signal
\* handler, implement the queue that loses nothing, repeats nothing and takes
\* internal events first.
THEOREM Refinement == Spec => ImplementsEventQueue
BY RefinesInit, RefinesNext, Invariance, PTL DEF Spec, ImplementsEventQueue, Abstract!QSpec
=============================================================================
