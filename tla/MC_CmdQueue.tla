----------------------------- MODULE MC_CmdQueue -----------------------------
(* Two listening threads; the handlers of x1 post an internal event and an   *)
(* external one, as the deletion of an interface does.                       *)
EXTENDS CmdQueue

CONSTANTS netlink, driver, x1, x2, x3, i1, y1, s1

MC_Source == [p \in {netlink, driver} |-> IF p = netlink THEN <<x1, x3>> ELSE <<x2>>]

MC_Spawn == [m \in {x1, x2, x3, i1, y1, s1} |-> IF m = x1 THEN <<i1, y1>> ELSE <<>>]
=============================================================================
