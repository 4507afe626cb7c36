------------------------------ MODULE CmdQueue ------------------------------
(***************************************************************************)
(* The command queue of ipacm: MessageQueue (IPACM_CmdQueue.cpp), PostEvt  *)
(* of IPACM_EvtDispatcher.cpp, and the threads of IPACM_Main.cpp that use  *)
(* them under one mutex and one condition variable.                        *)
(*                                                                         *)
(* A thread runs its own code and, on top of it, the handler of a signal   *)
(* that interrupts it: the two frames of a thread. Handlers of events post *)
(* events as well.                                                         *)
(***************************************************************************)
EXTENDS Naturals, Sequences, FiniteSets

CONSTANTS
    Producers,   \* the threads that listen to the kernel
    Proc, Main,  \* the thread of MessageQueue::Process and the main thread
    Msgs,        \* the messages, each posted at most once
    Internal,    \* the messages whose event is above IPA_EXTERNAL_EVENT_MAX
    Source,      \* Source[p]: the messages that producer p posts, in order
    Spawn,       \* Spawn[m]: the messages that the handlers of m post, in order
    SigMsgs,     \* the messages that IPACM_Sig_Handler posts
    SigTargets,  \* the threads a signal may interrupt
    MaxSpurious, \* a bound on wakeups without a signal
    NULL

Threads == Producers \cup {Proc, Main}
Frames  == Threads \X {"run", "sig"}
Queues  == {"int", "ext"}
Elems(s) == {s[i] : i \in DOMAIN s}
Injective(s) == \A i, j \in DOMAIN s : s[i] = s[j] => i = j

ASSUME QueueAssumption ==
    /\ NULL \notin Msgs /\ Internal \subseteq Msgs /\ SigMsgs \subseteq Msgs
    /\ {Proc, Main} \cap Producers = {} /\ Proc # Main
    /\ SigTargets \subseteq Threads /\ MaxSpurious \in Nat
    /\ Source \in [Producers -> Seq(Msgs)] /\ Spawn \in [Msgs -> Seq(Msgs)]
    /\ NULL \notin Frames

\* Every post is of a new Message(): no message is posted at two places.
ASSUME FreshAssumption ==
    /\ \A p \in Producers : Injective(Source[p]) /\ Elems(Source[p]) \cap SigMsgs = {}
    /\ \A m \in Msgs : Injective(Spawn[m]) /\ Elems(Spawn[m]) \cap SigMsgs = {}
    /\ \A p, r \in Producers : p # r => Elems(Source[p]) \cap Elems(Source[r]) = {}
    /\ \A m, n \in Msgs : m # n => Elems(Spawn[m]) \cap Elems(Spawn[n]) = {}
    /\ \A p \in Producers, m \in Msgs : Elems(Source[p]) \cap Elems(Spawn[m]) = {}

VARIABLES
    head, tail,  \* Head and Tail of the two queues
    mnext,       \* m_next of a message
    life,        \* "none" before new Message(), then "new", "queued", "taken", "deleted"
    lock,        \* the frame that holds the mutex, or NULL
    spurious,    \* how many wakeups came without a signal
    woken,       \* the waiting thread has been signalled
    pc,          \* where a frame is
    arg,         \* the message a frame is posting
    todo,        \* the messages a thread's own code still has to post
    item,        \* the item of MessageQueue::Process
    order        \* history, no variable of the code: what a queue holds, in order

vars == <<head, tail, mnext, life, lock, spurious, woken, pc, arg, todo, item, order>>

procRun == <<Proc, "run">>

Init ==
    /\ head = [q \in Queues |-> NULL] /\ tail = [q \in Queues |-> NULL]
    /\ mnext = [m \in Msgs |-> NULL]
    /\ life = [m \in Msgs |-> "none"]
    /\ lock = NULL
    /\ spurious = 0
    /\ woken = FALSE
    /\ pc = [f \in Frames |-> IF f = procRun THEN "loop" ELSE "idle"]
    /\ arg = [f \in Frames |-> NULL]
    /\ todo = [t \in Threads |-> IF t \in Producers THEN Source[t] ELSE <<>>]
    /\ item = NULL
    /\ order = [q \in Queues |-> <<>>]

\* A frame runs unless a signal handler runs on top of it.
Running(f) == f[2] = "run" => pc[<<f[1], "sig">>] = "idle"

At(f, where) == Running(f) /\ pc[f] = where

Goto(f, where) == pc' = [pc EXCEPT ![f] = where]

-----------------------------------------------------------------------------
(* PostEvt. *)

QueueOf(m) == IF m \in Internal THEN "int" ELSE "ext"

\* The frame creates the message and goes for the mutex.
NewMessage(f, m) ==
    /\ arg' = [arg EXCEPT ![f] = m]
    /\ mnext' = [mnext EXCEPT ![m] = NULL]
    /\ life' = [life EXCEPT ![m] = "new"]
    /\ Goto(f, "lock")
    /\ UNCHANGED <<spurious, head, tail, lock, woken, item, order>>

PostStart(t) ==
    /\ At(<<t, "run">>, IF t = Proc THEN "run" ELSE "idle")
    /\ todo[t] # <<>>
    /\ NewMessage(<<t, "run">>, Head(todo[t]))
    /\ todo' = [todo EXCEPT ![t] = Tail(@)]

\* IPACM_Sig_Handler interrupts t.
Signal(t, m) ==
    /\ t \in SigTargets
    /\ pc[<<t, "sig">>] = "idle"
    /\ life[m] = "none"
    /\ NewMessage(<<t, "sig">>, m)
    /\ UNCHANGED todo

Lock(f) ==
    /\ At(f, "lock")
    /\ lock = NULL
    /\ lock' = f
    /\ Goto(f, "enqueue")
    /\ UNCHANGED <<spurious, head, tail, mnext, life, woken, arg, todo, item, order>>

\* Mutants: the queue is taken for empty by its Tail, which still points at
\* the last message that was taken out; the waiting thread is not signalled.
EnqueueTestsTail(q, m) ==
    /\ tail' = [tail EXCEPT ![q] = m]
    /\ IF tail[q] = NULL
       THEN head' = [head EXCEPT ![q] = m] /\ UNCHANGED mnext
       ELSE mnext' = [mnext EXCEPT ![tail[q]] = m] /\ UNCHANGED head

WakesNobody == UNCHANGED woken

\* MessageQueue::enqueue.
Enqueue(q, m) ==
    /\ tail' = [tail EXCEPT ![q] = m]
    /\ IF head[q] = NULL
       THEN head' = [head EXCEPT ![q] = m] /\ UNCHANGED mnext
       ELSE /\ mnext' = [mnext EXCEPT ![IF tail[q] = NULL THEN head[q] ELSE tail[q]] = m]
            /\ UNCHANGED head

\* pthread_cond_signal.
CondSignal == woken' = (pc[procRun] = "wait" \/ woken)

EnqueueAndSignal(f) ==
    /\ At(f, "enqueue")
    /\ Enqueue(QueueOf(arg[f]), arg[f])
    /\ life' = [life EXCEPT ![arg[f]] = "queued"]
    /\ order' = [order EXCEPT ![QueueOf(arg[f])] = Append(@, arg[f])]
    /\ CondSignal
    /\ Goto(f, "unlock")
    /\ UNCHANGED <<spurious, lock, arg, todo, item>>

Unlock(f) ==
    /\ At(f, "unlock")
    /\ lock' = NULL
    /\ arg' = [arg EXCEPT ![f] = NULL]
    /\ Goto(f, IF f = procRun THEN "run" ELSE "idle")
    /\ UNCHANGED <<spurious, head, tail, mnext, life, woken, todo, item, order>>

-----------------------------------------------------------------------------
(* MessageQueue::Process. *)

ProcLock ==
    /\ At(procRun, "loop")
    /\ lock = NULL
    /\ lock' = procRun
    /\ Goto(procRun, "dequeue")
    /\ UNCHANGED <<spurious, head, tail, mnext, life, woken, arg, todo, item, order>>

\* Mutant: the external queue is looked at first.
ExternalFirst == IF head["ext"] # NULL THEN "ext" ELSE "int"

FirstQueue == IF head["int"] # NULL THEN "int" ELSE "ext"

\* MessageQueue::dequeue; Tail is left alone.
Dequeue ==
    LET q == FirstQueue IN
    /\ At(procRun, "dequeue")
    /\ head[q] # NULL
    /\ item' = head[q]
    /\ head' = [head EXCEPT ![q] = mnext[head[q]]]
    /\ life' = [life EXCEPT ![head[q]] = "taken"]
    /\ order' = [order EXCEPT ![q] = Tail(@)]
    /\ lock' = NULL
    /\ Goto(procRun, "run")
    /\ todo' = [todo EXCEPT ![Proc] = Spawn[head[q]]]
    /\ UNCHANGED <<spurious, tail, mnext, woken, arg>>

\* pthread_cond_wait releases the mutex and waits in one step.
Wait ==
    /\ At(procRun, "dequeue")
    /\ head[FirstQueue] = NULL
    /\ lock' = NULL
    /\ woken' = FALSE
    /\ Goto(procRun, "wait")
    /\ UNCHANGED <<spurious, head, tail, mnext, life, arg, todo, item, order>>

\* It returns with the mutex, which is released for another round.
Wake ==
    /\ At(procRun, "wait")
    /\ woken
    /\ lock = NULL
    /\ woken' = FALSE
    /\ Goto(procRun, "loop")
    /\ UNCHANGED <<spurious, head, tail, mnext, life, lock, arg, todo, item, order>>

\* It may return without a signal.
SpuriousWakeup ==
    /\ At(procRun, "wait")
    /\ lock = NULL
    /\ spurious < MaxSpurious
    /\ spurious' = spurious + 1
    /\ woken' = FALSE
    /\ Goto(procRun, "loop")
    /\ UNCHANGED <<head, tail, mnext, life, lock, arg, todo, item, order>>

\* Mutant: item still points at the message that was deleted.
KeepsItem ==
    /\ At(procRun, "run")
    /\ todo[Proc] = <<>>
    /\ life' = [life EXCEPT ![item] = "deleted"]
    /\ Goto(procRun, "loop")
    /\ UNCHANGED <<spurious, head, tail, mnext, lock, woken, arg, todo, item, order>>

\* The callback has returned: delete item.
Delete ==
    /\ At(procRun, "run")
    /\ todo[Proc] = <<>>
    /\ life' = [life EXCEPT ![item] = "deleted"]
    /\ item' = NULL
    /\ Goto(procRun, "loop")
    /\ UNCHANGED <<spurious, head, tail, mnext, lock, woken, arg, todo, order>>

PostStep(f) == Lock(f) \/ EnqueueAndSignal(f) \/ Unlock(f)

ProcStep == ProcLock \/ Dequeue \/ Wait \/ Wake \/ Delete

Next ==
    \/ \E t \in Threads : PostStart(t) \/ \E m \in SigMsgs : Signal(t, m)
    \/ \E f \in Frames : PostStep(f)
    \/ ProcStep
    \/ SpuriousWakeup

\* The scheduler runs every thread that can run; signals may never come.
Fairness ==
    /\ \A t \in Threads : WF_vars(PostStart(t))
    /\ \A f \in Frames : WF_vars(PostStep(f))
    /\ WF_vars(ProcStep)

Spec == Init /\ [][Next]_vars /\ Fairness

-----------------------------------------------------------------------------
(* Properties. *)

\* Types; the item that Process holds is a message taken out and not deleted.
TypeOK ==
    /\ head \in [Queues -> Msgs \cup {NULL}] /\ tail \in [Queues -> Msgs \cup {NULL}]
    /\ mnext \in [Msgs -> Msgs \cup {NULL}]
    /\ life \in [Msgs -> {"none", "new", "queued", "taken", "deleted"}]
    /\ lock \in Frames \cup {NULL} /\ woken \in BOOLEAN /\ spurious \in 0 .. MaxSpurious
    /\ pc \in [Frames -> {"idle", "lock", "enqueue", "unlock", "loop", "dequeue",
                          "wait", "run"}]
    /\ arg \in [Frames -> Msgs \cup {NULL}]
    /\ todo \in [Threads -> Seq(Msgs)] /\ order \in [Queues -> Seq(Msgs)]
    /\ item \in {m \in Msgs : life[m] = "taken"} \cup {NULL}

\* The linked lists hold what was put in and not yet taken out, in this order.
\* Tail outlives the message it points at, so what keeps enqueue from writing
\* into a deleted message is that a queue with a head ends at its Tail; exactly
\* the queued messages are linked, each once and in the queue of its kind.
QueueShape ==
    /\ \A q \in Queues : LET s == order[q] IN
         /\ head[q] = IF s = <<>> THEN NULL ELSE s[1]
         /\ \A i \in 1 .. Len(s) - 1 : mnext[s[i]] = s[i + 1]
         /\ s # <<>> => tail[q] = s[Len(s)] /\ mnext[tail[q]] = NULL
         /\ \A i \in 1 .. Len(s) : QueueOf(s[i]) = q
         /\ Injective(s)
    /\ \A m \in Msgs : life[m] = "queued" <=> m \in Elems(order["int"]) \cup Elems(order["ext"])

Abstract ==
    INSTANCE EventQueue WITH
        intq <- order["int"], extq <- order["ext"], cur <- item,
        posted <- {m \in Msgs : life[m] \in {"queued", "taken", "deleted"}}

\* The linked lists, edited under the mutex by every thread, implement the
\* queue that loses nothing, repeats nothing and takes internal events first.
ImplementsEventQueue == Abstract!QSpec

\* Every message whose posting has begun is handled: no wakeup is lost and no
\* thread stays behind the mutex. The comment in MessageQueue::Process says of
\* its loop that it goes on forever.
Delivered == \A m \in Msgs : (life[m] = "new") ~> (life[m] = "deleted")
=============================================================================
