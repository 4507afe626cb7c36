------------------------- MODULE MC_ConntrackListener -------------------------
(* One client behind the NAT, one on an interface outside the NAT            *)
(* configuration and the device itself, each with a connection. The target   *)
(* of the first connection is a client of the STA interface's network. The   *)
(* configuration file names the networks of both clients as private; the     *)
(* interface of the first comes and goes.                                    *)
EXTENDS ConntrackListener, TLC

CONSTANTS a1, a2, c1, n1, s1, s2, t1, f1, f2, f3

MC_FlowOf ==
    (f1 :> [priv |-> c1, pport |-> 1, tgt |-> s2, pubport |-> 11, flagged |-> TRUE]) @@
    (f2 :> [priv |-> n1, pport |-> 1, tgt |-> t1, pubport |-> 12, flagged |-> TRUE]) @@
    (f3 :> [priv |-> a1, pport |-> 3, tgt |-> t1, pubport |-> 3, flagged |-> FALSE])

MC_SubnetOf == [x \in {s1, s2, t1, c1, n1, a1, a2} |->
                  CASE x = c1 -> "lan" [] x = n1 -> "dev" [] x \in {s1, s2} -> "sta"
                    [] OTHER -> "far"]
=============================================================================
