------------------------------- MODULE Neighbor -------------------------------
(***************************************************************************)
(* IPACM_Neighbor.cpp: the cache of the clients' interface and last IPv4   *)
(* address. It turns the neighbour events of the kernel into IPA_NEIGH_    *)
(* CLIENT_IP_ADDR_ADD and _DEL events for the interface of the client, and *)
(* gives a client that comes back its address again.                       *)
(*                                                                         *)
(* n is the cache: tbl the entries in use, of at most lim (IPA_MAX_NUM_    *)
(* NEIGHBOR_CLIENTS), circ circular_index, out the events it posts.        *)
(* "bridge" is the virtual interface, which stands for the interface the   *)
(* client was seen on last. Addresses are not 0, and not local to the link.*)
(***************************************************************************)
EXTENDS Naturals, SequencesExt

CONSTANTS NULL

NoNeighbors(lim) == [tbl |-> <<>>, circ |-> 0, lim |-> lim, out |-> <<>>]

\* The position of a MAC address in the cache, or one past the end.
Find(n, mac) ==
    LET K == {k \in DOMAIN n.tbl : n.tbl[k].mac = mac} IN
    IF K = {} THEN Len(n.tbl) + 1 ELSE CHOOSE k \in K : \A j \in K : k <= j

Known(n, mac) == Find(n, mac) <= Len(n.tbl)

Entry(i, mac, a) == [mac |-> mac, iface |-> i, ipa |-> i, v4 |-> a]

Post(n, op, i, f, mac, a) ==
    [n EXCEPT !.out = Append(@, [ev |-> op, if |-> i, fam |-> f, mac |-> mac, addr |-> a])]

\* A full cache reuses its entries from the first on; circular_index is never
\* reset, and the cache has no entry circ + 1 once all of them were reused.
CanStore(n, mac) == Known(n, mac) \/ Len(n.tbl) < n.lim \/ n.circ < n.lim

\* A reused entry starts without an address.
Store(n, i, mac, a) ==
    IF Len(n.tbl) < n.lim THEN [n EXCEPT !.tbl = Append(@, Entry(i, mac, a))]
    ELSE [n EXCEPT !.tbl[n.circ + 1] = Entry(i, mac, NULL), !.circ = @ + 1]

Drop(n, mac) == [n EXCEPT !.tbl = RemoveAt(@, Find(n, mac))]

\* IPv4 neighbour of an interface: the client is cached with its address, and
\* any deletion removes it.
neigh_v4(n, op, i, mac, a) ==
    LET k == Find(n, mac)
        new == IF Known(n, mac) THEN [n EXCEPT !.tbl[k] = Entry(i, mac, a)] ELSE Store(n, i, mac, a)
        del == IF Known(n, mac) THEN Drop(n, mac) ELSE n
    IN Post(IF op = "ADD" THEN new ELSE del, op, i, "v4", mac, a)

\* IPv4 neighbour of the bridge: only for a client that is known, which keeps the
\* address, of a deletion too.
neigh_v4_bridge(n, op, mac, a) ==
    LET k == Find(n, mac) IN
    IF ~Known(n, mac) THEN n
    ELSE Post([n EXCEPT !.tbl[k].v4 = a], op, n.tbl[k].iface, "v4", mac, a)

\* IPv6 neighbour; the address is not cached.
neigh_v6(n, op, i, mac, a) == Post(n, op, i, "v6", mac, a)

neigh_v6_bridge(n, op, mac, a) ==
    IF ~Known(n, mac) THEN n
    ELSE Post(n, op, n.tbl[Find(n, mac)].iface, "v6", mac, a)

\* A neighbour without an address (AF_BRIDGE): a client that is known gets its
\* cached address announced on its interface now, or withdrawn.
neigh_noaddr_known(n, op, i, mac) ==
    LET k == Find(n, mac)
        a == n.tbl[k].v4
        m == [n EXCEPT !.tbl[k].iface = i]
        p == IF a = NULL THEN m ELSE Post(m, op, i, "v4", mac, a)
    IN IF op = "DEL" THEN Drop(p, mac) ELSE p

neigh_noaddr_new(n, op, i, mac) == IF op = "ADD" THEN Store(n, i, mac, NULL) ELSE n

neigh_noaddr(n, op, i, mac) ==
    IF Known(n, mac) THEN neigh_noaddr_known(n, op, i, mac) ELSE neigh_noaddr_new(n, op, i, mac)

\* The same of the bridge: a deletion still removes the entry.
neigh_noaddr_bridge(n, op, mac) == IF Known(n, mac) /\ op = "DEL" THEN Drop(n, mac) ELSE n

\* Mutant: only a client whose interface has changed gets its address again.
client_add_ex_moved(n, i, mac) ==
    LET k == Find(n, mac)
        m == [n EXCEPT !.tbl[k].iface = i]
    IN IF ~Known(n, mac) THEN n
       ELSE IF n.tbl[k].ipa = i \/ n.tbl[k].v4 = NULL THEN m
       ELSE Post(m, "ADD", i, "v4", mac, n.tbl[k].v4)

\* IPA_WLAN_CLIENT_ADD_EVENT_EX: a client that comes back to the interface its
\* address was seen on gets it again.
client_add_ex(n, i, mac) ==
    LET k == Find(n, mac)
        m == [n EXCEPT !.tbl[k].iface = i]
    IN IF ~Known(n, mac) THEN n
       ELSE IF n.tbl[k].ipa # i \/ n.tbl[k].v4 = NULL THEN m
       ELSE Post(m, "ADD", i, "v4", mac, n.tbl[k].v4)
=============================================================================
