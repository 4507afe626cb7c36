----------------------------- MODULE EventQueue -----------------------------
(***************************************************************************)
(* What the command queue promises to the threads that post events and to  *)
(* the handlers: no event is lost or handled twice, events of one kind are *)
(* handled in the order they were posted, and an external event is taken   *)
(* only when no internal one waits.                                        *)
(***************************************************************************)
EXTENDS Sequences

CONSTANTS Msgs, Internal, NULL

VARIABLES
    intq, extq,  \* the events that wait
    posted,      \* the events that were ever posted
    cur          \* the event that is handled now

queueVars == <<intq, extq, posted, cur>>

QInit == intq = <<>> /\ extq = <<>> /\ posted = {} /\ cur = NULL

QPost(m) ==
    /\ m \notin posted
    /\ posted' = posted \cup {m}
    /\ IF m \in Internal THEN intq' = Append(intq, m) /\ UNCHANGED extq
                         ELSE extq' = Append(extq, m) /\ UNCHANGED intq
    /\ UNCHANGED cur

QTake ==
    /\ cur = NULL
    /\ \/ /\ intq # <<>>
          /\ cur' = Head(intq) /\ intq' = Tail(intq)
          /\ UNCHANGED extq
       \/ /\ intq = <<>> /\ extq # <<>>
          /\ cur' = Head(extq) /\ extq' = Tail(extq)
          /\ UNCHANGED intq
    /\ UNCHANGED posted

QDone ==
    /\ cur # NULL
    /\ cur' = NULL
    /\ UNCHANGED <<intq, extq, posted>>

QNext == (\E m \in Msgs : QPost(m)) \/ QTake \/ QDone

QSpec == QInit /\ [][QNext]_queueVars
=============================================================================
