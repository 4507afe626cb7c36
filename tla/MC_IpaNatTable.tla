--------------------------- MODULE MC_IpaNatTable ---------------------------
(* A table with three usable base entries and three usable expansion        *)
(* entries. The rules collide on both hashes, on one of them and on none.   *)
EXTENDS IpaNatTable

CONSTANTS r1, r2, r3, r4

MC_Rules == {r1, r2, r3, r4}
MC_DstHash == [r \in MC_Rules |-> IF r = r4 THEN 2 ELSE 1]
MC_SrcHash == [r \in MC_Rules |-> IF r \in {r1, r4} THEN 3 ELSE 2]
=============================================================================
