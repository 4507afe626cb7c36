----------------------------- MODULE MC_Backhaul -----------------------------
EXTENDS Backhaul

CONSTANTS m1, m2, s1, t1, t2

Dual == {"v4", "v6"}

\* Two modem interfaces and two tethering interfaces, one of each for both
\* families, and an STA.
MCFam == [i \in Wans \cup Tethers |-> IF i \in {m2, s1, t2} THEN {"v4"} ELSE Dual]

\* A modem interface may be lost while it is the upstream of all its families.
MCMayLose == [w \in Wans |-> {{}} \cup (IF w \in Modem THEN {MCFam[w]} ELSE {})]

\* It may be lost as well when it is the upstream of IPv6 only.
MCMayLosePart == [MCMayLose EXCEPT ![m1] = @ \cup {{"v6"}}]
=============================================================================
