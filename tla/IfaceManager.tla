---------------------------- MODULE IfaceManager ----------------------------
(***************************************************************************)
(* The life of the interface objects of ipacm: which object listens to     *)
(* which events (IPACM_EvtDispatcher.cpp), when IPACM_IfaceManager creates *)
(* one, and how IPACM_Lan, IPACM_Wlan and IPACM_Wan delete themselves. The *)
(* events come from the kernel's link messages (IPACM_Netlink.cpp) and the *)
(* WLAN driver (IPACM_Main.cpp), through the two queues that module        *)
(* EventQueue describes.                                                   *)
(*                                                                         *)
(* This is the Android build: nothing posts IPA_CFG_CHANGE_EVENT. What an  *)
(* object installs in the hardware is not part of this module.             *)
(***************************************************************************)
EXTENDS Integers, Sequences, FiniteSets, Functions

CONSTANTS
    Usb, Wlan, Modem, \* interfaces of the category LAN, UNKNOWN and WAN in IPACM_cfg.xml
    Flapping,         \* the interfaces whose carrier may go while they are up
    MaxQueue,         \* a bound on the events that wait in the external queue
    Mgr,              \* the IPACM_IfaceManager as a listener
    NULL

Ifaces == Usb \cup Wlan \cup Modem

\* The class and state of an interface object.
Kinds   == {"LAN", "WLAN", "WLAN_WAN", "Q6_WAN", "ECM_WAN"}
Objects == [kind : Kinds, is_active : BOOLEAN, wlan_ap_index : Nat]

\* The events of ipa_cm_event_id that this module speaks of.
EvNames == {"ADDR_ADD", "XLAT_CONNECT", "LINK_DOWN", "WLAN_LINK_DOWN", "STATS_UPDATE",
            "LAN_DELETE_SELF", "LINK_UP", "WLAN_AP_LINK_UP", "WLAN_STA_LINK_UP", "USB_LINK_UP"}

ASSUME IfaceAssumption ==
    /\ Usb \cap Wlan = {} /\ Wlan \cap Modem = {} /\ Usb \cap Modem = {}
    /\ Flapping \subseteq Ifaces /\ MaxQueue \in Nat
    /\ Mgr \notin Ifaces /\ NULL \notin Ifaces \cup Objects
    /\ NULL \notin [obj : Ifaces \cup {Mgr}, ev : EvNames] /\ NULL \notin [ev : EvNames, if_index : Ifaces]
    /\ IsFiniteSet(Ifaces)
    /\ Cardinality(Wlan) <= 2   \* a third AP object deletes itself when it is built

VARIABLES
    link,       \* the flags of an interface in the kernel
    mode,       \* what the WLAN driver runs on an interface
    intq, extq, \* the events that wait in the two queues
    cur,        \* the event that ProcessEvt hands to the listeners
    cursor,     \* the node where its walk goes on, tmp1.next
    regs,       \* the registrations, in the order of the list
    inst,       \* the object of an interface in the manager's list, or NULL
    cat,        \* if_cat of iface_table
    num_wlan_ap_iface

vars == <<link, mode, intq, extq, cur, cursor, regs, inst, cat, num_wlan_ap_iface>>

kernelVars == <<link, mode>>
objectVars == <<regs, inst, cat, num_wlan_ap_iface>>

-----------------------------------------------------------------------------
(* The registration list. *)

\* Mutant: LAN and WLAN objects do not register for their deletion last.
DeleteSelfEarly(kind) ==
    CASE kind = "LAN"      -> <<"ADDR_ADD", "LAN_DELETE_SELF", "LINK_DOWN">>
      [] kind = "WLAN"     -> <<"ADDR_ADD", "WLAN_LINK_DOWN", "LAN_DELETE_SELF", "STATS_UPDATE">>
      [] kind = "WLAN_WAN" -> <<"ADDR_ADD", "XLAT_CONNECT", "WLAN_LINK_DOWN">>
      [] OTHER             -> <<"ADDR_ADD", "XLAT_CONNECT", "LINK_DOWN">>

\* The events an object registers for, in order; the ones that bear on its
\* life and one before and after them.
Events(kind) ==
    CASE kind = "LAN"      -> <<"ADDR_ADD", "LINK_DOWN", "LAN_DELETE_SELF">>
      [] kind = "WLAN"     -> <<"ADDR_ADD", "WLAN_LINK_DOWN", "STATS_UPDATE", "LAN_DELETE_SELF">>
      [] kind = "WLAN_WAN" -> <<"ADDR_ADD", "XLAT_CONNECT", "WLAN_LINK_DOWN">>
      [] OTHER             -> <<"ADDR_ADD", "XLAT_CONNECT", "LINK_DOWN">>

MgrEvents == <<"LINK_UP", "WLAN_AP_LINK_UP", "WLAN_STA_LINK_UP", "USB_LINK_UP">>

Nodes(obj, evs) == [k \in 1 .. Len(evs) |-> [obj |-> obj, ev |-> evs[k]]]

registr(obj, evs) == regs' = regs \o Nodes(obj, evs)

\* The loop of deregistr: it takes the nodes of an object out of the list.
Without(list, obj) ==
    LET upTo[n \in 0 .. Len(list)] ==
            IF n = 0 THEN <<>>
            ELSE IF list[n].obj = obj THEN upTo[n - 1]
            ELSE Append(upTo[n - 1], list[n])
    IN upTo[Len(list)]

deregistr(obj) == regs' = Without(regs, obj)

Init ==
    /\ link = [i \in Ifaces |-> "down"]
    /\ mode = [i \in Wlan |-> "off"]
    /\ intq = <<>> /\ extq = <<>>
    /\ cur = NULL /\ cursor = NULL
    /\ regs = Nodes(Mgr, MgrEvents)
    /\ inst = [i \in Ifaces |-> NULL]
    /\ cat = [i \in Ifaces |-> IF i \in Usb THEN "LAN" ELSE IF i \in Modem THEN "WAN"
                               ELSE "UNKNOWN"]
    /\ num_wlan_ap_iface = 0

-----------------------------------------------------------------------------
(* The threads that post events. *)

Evt(ev, i) == [ev |-> ev, if_index |-> i]

Links(i) == {"down", "running"} \cup (IF i \in Flapping THEN {"no carrier"} ELSE {})

\* RTM_NEWLINK: a change of IFF_UP posts one event, the flags post another.
\* The kernel repeats the message when other attributes change.
NewLink(i, l) ==
    LET changed == (link[i] = "down") # (l = "down")
    IN
    /\ Len(extq) < MaxQueue
    /\ link' = [link EXCEPT ![i] = l]
    /\ extq' = extq
         \o (IF changed THEN <<Evt(IF l = "down" THEN "LINK_DOWN" ELSE "LINK_UP", i)>> ELSE <<>>)
         \o <<Evt(IF l = "running" THEN "USB_LINK_UP" ELSE "LINK_DOWN", i)>>
    /\ UNCHANGED <<mode, intq, cur, cursor, objectVars>>

\* The messages WLAN_AP_CONNECT, WLAN_STA_CONNECT and the two DISCONNECTs.
WlanDriver(i, m) ==
    /\ Len(extq) < MaxQueue
    /\ (mode[i] = "off") # (m = "off")
    /\ mode' = [mode EXCEPT ![i] = m]
    /\ extq' = Append(extq, Evt(CASE m = "ap"  -> "WLAN_AP_LINK_UP"
                                  [] m = "sta" -> "WLAN_STA_LINK_UP"
                                  [] m = "off" -> "WLAN_LINK_DOWN", i))
    /\ UNCHANGED <<link, intq, cur, cursor, objectVars>>

-----------------------------------------------------------------------------
(* ProcessEvt: the walk over the registrations. *)

\* Mutant: the external queue is looked at first.
ExternalFirst == IF extq # <<>> THEN "ext" ELSE "int"

FirstQueue == IF intq # <<>> THEN "int" ELSE "ext"

Take ==
    /\ cur = NULL
    /\ \/ FirstQueue = "int" /\ intq # <<>>
          /\ cur' = Head(intq) /\ intq' = Tail(intq) /\ UNCHANGED extq
       \/ FirstQueue = "ext" /\ extq # <<>>
          /\ cur' = Head(extq) /\ extq' = Tail(extq) /\ UNCHANGED intq
    /\ cursor' = Head(regs)
    /\ UNCHANGED <<kernelVars, objectVars>>

\* The nodes, from the cursor on, that registered for the event.
Matches == {k \in 1 .. Len(regs) :
              regs[k].ev = cur.ev /\ \E c \in 1 .. k : regs[c] = cursor}

Reached == CHOOSE k \in Matches : \A m \in Matches : k <= m

Following(k) == IF k = Len(regs) THEN NULL ELSE regs[k + 1]

\* The walk reaches the next node that registered for the event; its next
\* pointer is copied before the object is called.
Call(obj) ==
    /\ cur # NULL /\ Matches # {}
    /\ regs[Reached].obj = obj
    /\ cursor' = Following(Reached)
    /\ UNCHANGED <<kernelVars, extq, cur>>

\* It ends, and the event's data is freed.
Finish ==
    /\ cur # NULL /\ Matches = {}
    /\ cursor = NULL \/ cursor \in Range(regs)
    /\ cur' = NULL /\ cursor' = NULL
    /\ UNCHANGED <<kernelVars, intq, extq, objectVars>>

-----------------------------------------------------------------------------
(* IPACM_IfaceManager::event_callback. *)

\* create_iface_instance: at most one object for an interface; its class is
\* chosen by the category c.
create_iface_instance(i, c, wan_type) ==
    IF inst[i] # NULL \/ c = "UNKNOWN"
    THEN UNCHANGED <<inst, regs, num_wlan_ap_iface>>
    ELSE LET kind == IF c = "WAN" THEN wan_type ELSE c IN
         /\ inst' = [inst EXCEPT ![i] =
                       [kind |-> kind, is_active |-> TRUE,
                        wlan_ap_index |-> IF kind = "WLAN" THEN num_wlan_ap_iface ELSE 0]]
         /\ registr(i, Events(kind))
         /\ num_wlan_ap_iface' = num_wlan_ap_iface + (IF kind = "WLAN" THEN 1 ELSE 0)

MgrLinkUp(i) ==
    /\ cur = Evt("LINK_UP", i) /\ Call(Mgr)
    /\ IF cat[i] = "WAN" THEN create_iface_instance(i, "WAN", "Q6_WAN")
                         ELSE UNCHANGED <<inst, regs, num_wlan_ap_iface>>
    /\ UNCHANGED <<cat, intq>>

MgrUsbLinkUp(i) ==
    /\ cur = Evt("USB_LINK_UP", i) /\ Call(Mgr)
    /\ create_iface_instance(i, cat[i], IF cat[i] = "WAN" THEN "ECM_WAN" ELSE "Q6_WAN")
    /\ UNCHANGED <<cat, intq>>

MgrWlanLinkUp(i, ev, c) ==
    /\ cur = Evt(ev, i) /\ Call(Mgr)
    /\ IF cat[i] = "UNKNOWN"
       THEN /\ cat' = [cat EXCEPT ![i] = c]
            /\ create_iface_instance(i, c, "WLAN_WAN")
       ELSE UNCHANGED <<cat, inst, regs, num_wlan_ap_iface>>
    /\ UNCHANGED intq

-----------------------------------------------------------------------------
(* The objects' callbacks. *)

\* An object that is not active, or not the one the event is about, ignores it.
Ignores(i) ==
    \/ cur.if_index # i
    \/ inst[i].kind \in {"LAN", "WLAN"} /\ ~inst[i].is_active /\ cur.ev # "LAN_DELETE_SELF"

Ignore(i) == inst[i] # NULL /\ Call(i) /\ Ignores(i) /\ UNCHANGED <<objectVars, intq>>

Handles(i, kinds, ev) ==
    /\ cur # NULL /\ cur.ev = ev
    /\ inst[i] # NULL /\ inst[i].kind \in kinds
    /\ Call(i) /\ ~Ignores(i)

\* The destructors take the object out of both lists.
DeleteThis(i) ==
    /\ inst' = [inst EXCEPT ![i] = NULL]
    /\ deregistr(i)

\* Mutant: the event that deletes the object is not posted.
PostsNothing(i) == UNCHANGED intq

post_del_self_evt(i) == intq' = Append(intq, Evt("LAN_DELETE_SELF", i))

\* handle_down_evt of LAN and WLAN: the object waits for its own event.
handle_down_evt(i) ==
    /\ inst' = [inst EXCEPT ![i].is_active = FALSE]
    /\ post_del_self_evt(i)
    /\ UNCHANGED <<regs, num_wlan_ap_iface>>

LanDown(i) ==
    /\ Handles(i, {"LAN"}, "LINK_DOWN")
    /\ handle_down_evt(i)
    /\ UNCHANGED cat

WlanDown(i) ==
    /\ Handles(i, {"WLAN"}, "WLAN_LINK_DOWN")
    /\ handle_down_evt(i)
    /\ cat' = [cat EXCEPT ![i] = "UNKNOWN"]

LanDeleteSelf(i) ==
    /\ Handles(i, {"LAN"}, "LAN_DELETE_SELF")
    /\ DeleteThis(i)
    /\ UNCHANGED <<cat, intq, num_wlan_ap_iface>>

\* Mutant: the number of access points is not counted down.
KeepsApCount(i) ==
    /\ Handles(i, {"WLAN"}, "LAN_DELETE_SELF")
    /\ DeleteThis(i)
    /\ UNCHANGED <<cat, intq, num_wlan_ap_iface>>

WlanDeleteSelf(i) ==
    /\ Handles(i, {"WLAN"}, "LAN_DELETE_SELF")
    /\ num_wlan_ap_iface' = num_wlan_ap_iface - 1
    /\ DeleteThis(i)
    /\ UNCHANGED <<cat, intq>>

\* A WAN object is deleted in the callback itself.
StaDown(i) ==
    /\ Handles(i, {"WLAN_WAN"}, "WLAN_LINK_DOWN")
    /\ cat' = [cat EXCEPT ![i] = "UNKNOWN"]
    /\ DeleteThis(i)
    /\ UNCHANGED <<intq, num_wlan_ap_iface>>

WanDown(i) ==
    /\ Handles(i, {"Q6_WAN", "ECM_WAN"}, "LINK_DOWN")
    /\ DeleteThis(i)
    /\ UNCHANGED <<cat, intq, num_wlan_ap_iface>>

Manager(i) ==
    \/ MgrLinkUp(i) \/ MgrUsbLinkUp(i)
    \/ MgrWlanLinkUp(i, "WLAN_AP_LINK_UP", "WLAN")
    \/ MgrWlanLinkUp(i, "WLAN_STA_LINK_UP", "WAN")

Object(i) ==
    \/ Ignore(i)
    \/ LanDown(i) \/ WlanDown(i) \/ LanDeleteSelf(i) \/ WlanDeleteSelf(i)
    \/ StaDown(i) \/ WanDown(i)

Process == Take \/ Finish \/ \E i \in Ifaces : Manager(i) \/ Object(i)

Next ==
    \/ \E i \in Ifaces : \E l \in Links(i) : NewLink(i, l)
    \/ \E i \in Wlan : \E m \in {"off", "ap", "sta"} : WlanDriver(i, m)
    \/ Process

\* The thread of MessageQueue::Process never stops while there is an event.
Spec == Init /\ [][Next]_vars /\ WF_vars(Process)

-----------------------------------------------------------------------------
(* Properties. *)

\* Types; the class of an object agrees with the category of its interface as
\* long as the object is active.
TypeOK ==
    /\ link \in [Ifaces -> {"down", "no carrier", "running"}]
    /\ mode \in [Wlan -> {"off", "ap", "sta"}]
    /\ \A e \in Range(intq) : e.ev = "LAN_DELETE_SELF" /\ e.if_index \in Ifaces
    /\ \A i \in Ifaces : inst[i] # NULL /\ inst[i].is_active =>
         cat[i] = IF inst[i].kind \in {"LAN", "WLAN"} THEN inst[i].kind ELSE "WAN"
    /\ num_wlan_ap_iface = Cardinality({i \in Ifaces : inst[i] # NULL /\ inst[i].kind = "WLAN"})

\* ProcessEvt never goes on at a node that a callback has freed: a callback
\* deletes its object only from the last node the object registered, which is
\* what the comments in create_iface_instance ask for.
NoStaleNode == cursor # NULL => cursor \in Range(regs)

\* The class that an interface should have when nothing is left to handle.
Wanted(i) ==
    CASE i \in Wlan /\ mode[i] = "ap"  -> {"WLAN"}
      [] i \in Wlan /\ mode[i] = "sta" -> {"WLAN_WAN"}
      [] i \in Usb /\ link[i] = "running" -> {"LAN"}
      [] i \in Modem /\ link[i] = "running" ->
           IF i \in Flapping THEN {"Q6_WAN", "ECM_WAN"} ELSE {"Q6_WAN"}
      [] OTHER -> {}

\* However the link messages, the driver's messages and the deletions were
\* interleaved, the objects that remain are those of the links that are up.
Settled ==
    (cur = NULL /\ intq = <<>> /\ extq = <<>>) =>
        \A i \in Ifaces : IF inst[i] = NULL THEN Wanted(i) = {}
                          ELSE inst[i].is_active /\ inst[i].kind \in Wanted(i)

\* An object that has shut down is deleted: its own event reaches it.
Reclaimed ==
    \A i \in Ifaces :
        (inst[i] # NULL /\ ~inst[i].is_active) ~> (inst[i] = NULL)
=============================================================================
