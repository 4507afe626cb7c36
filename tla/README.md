# Verification of the hiae-common device tree

The repository is the device tree of the HTC One A9 (hiae). Most of it is
configuration; its own programs are the IPA connection manager `ipacm`, the NAT
driver library `ipanat`, a camera HAL wrapper, the audio amplifier, a few small
HALs and a gesture service. This directory holds TLA+ modules of the parts whose
correctness depends on the order of events, the TLC configurations that check
them, and proofs checked by TLAPS.

Run a check with `tlc -config <run>.cfg <module>`, the proofs of a component with
`tlapm <module>_proofs.tla`.

## Inventory

### IPA connection manager (`data-ipa-cfg-mgr/ipacm`)

`ipacm` listens to the kernel and programs the IPA hardware so that tethered
traffic bypasses the CPU. Its threads (netlink, IPA driver messages, conntrack
TCP and UDP, UDP timeout) post events to a command queue; one thread takes
them out and calls the objects that registered for them.

| component | state | operations | what makes it correct |
|---|---|---|---|
| command queue (`IPACM_CmdQueue`, `PostEvt`) | two linked lists, mutex, condition variable | enqueue, dequeue, Process, PostEvt, signal handler | nothing lost or repeated, internal events first, every posted event handled, no access to a deleted message |
| dispatcher and interface manager (`IPACM_EvtDispatcher`, `IPACM_IfaceManager`) | list of registrations, list of interface objects, category of each interface | registr, deregistr, ProcessEvt, create_iface_instance, deletion of objects by themselves | the walk never meets a freed node; the objects are those of the links that are up |
| conntrack listener (`IPACM_ConntrackListener`) | WAN state, addresses of NAT, other and STA clients | conntrack NEW and DESTROY, WAN up and down, client events | entries follow connections whatever the order of messages |
| NAT application (`IPACM_Conntrack_NATApp`) | NAT cache, temporary entries, power-save list, table handle | add, delete, restore, power save, disconnect, flush | the driver's rules are those of the enabled cache entries; counters agree |
| conntrack client (`IPACM_ConntrackClient`) | netfilter handles | filters, catch loops | filters pass the connections to be offloaded |
| LAN, WLAN interfaces (`IPACM_Lan`, `IPACM_Wlan`, `IPACM_Iface`) | clients, routing and filter rule handles, WAN state | address, client, WAN events, power save, link down | rules exist exactly for the clients and backhaul present; all are removed |
| WAN interface (`IPACM_Wan`) | addresses, default route, firewall and filter handles, backhaul flags | address and route events, firewall change, link down | rules and events follow the active backhaul of each IP family |
| neighbour cache (`IPACM_Neighbor`) | client cache with a circular index | association, neighbour, address events | a client is announced once its interface and address are known |
| LAN to LAN bridge (`IPACM_LanToLan`) | interfaces, peers, reference counts, cached events | interface up and down, client add and delete | rules and reference counts follow peers |
| firewall (`IPACM_Xml`, `IPACM_Wan`, `firewall_monitor`) | the file, rule arrays of the modem, rule handles of a pipe | file change, address, route, link and software-routing events | packets of an upstream go where the file says; no rule is left behind |
| netlink listener, configuration, ioctl wrappers | sockets, constants | parsing, ioctls | messages become the right events |

### NAT driver library (`data-ipa-cfg-mgr/ipanat`)

`ipa_nat_drvi.c` keeps, in memory shared with the hardware, a base table and an
expansion table of NAT rules hashed by target, an index table of the same shape
hashed by source, and an array from rule handles to rules. Collisions are
chained through the expansion tables. Adding and deleting rules edits
these chains with DMA commands.

### The rest

Camera HAL wrapper (open devices, callbacks, a provider), audio amplifier
(power-up and calibration protocol of the TFA chip), light, vibrator and USB
HALs, gesture service, RIL and property helpers, shims, and configuration data.
`PROJECT.json` lists each with its sources and its status.

### Hard behaviours

* threads post while the handler thread walks, deletes and waits; a signal
  handler posts as well;
* events about one connection, client or link arrive in any order, repeated, or
  while an earlier one is half handled (an object waits for its own deletion);
* driver calls fail in the middle of a multi-step update;
* fixed-size arrays are searched for free places, at their limit too;
* long histories of insertions and deletions shape the collision chains.

`PROJECT.json` lists the hazards one by one at the line where each bites, with the
properties that would show it.

## Modules

| module | models | notes |
|---|---|---|
| `NatRules` | the promise of `ipa_nat_drv.c` | an abstract map from handles to rules |
| `IpaNatTable` | `ipa_nat_drvi.c` | base, expansion and index tables as functions on entry numbers (0 ends a chain); an action is a whole driver call; the outcome of the DMA command is a choice |
| `IpaNatTable_proofs` | | theorems about `IpaNatTable` |
| `NatApp` | `IPACM_Conntrack_NATApp.cpp` | one record with the cache, the temporary entries and what the driver holds; operators from record to record; the driver may refuse to add or to delete a rule, and `left` names the rules whose deletion failed (the program keeps no such record); a loop over the slots of a table is a function of the number of slots done |
| `ConntrackListener` | `IPACM_ConntrackListener.cpp` | extends `NatApp`; one action per event, with the listener's lists and the private subnets of `IPACM_Config`, which interfaces add and take away; `unheard` records the connections whose end was reported while client and subnet were unknown |
| `EventQueue` | the promise of the command queue | two sequences, internal first |
| `CmdQueue` | `IPACM_CmdQueue.cpp`, `PostEvt`, signal handler | linked lists with Head, Tail and next, mutex, condition variable, one frame per thread and one more per signal handler; `order` is a history variable, the content of each queue, and guards nothing |
| `IfaceManager` | `IPACM_EvtDispatcher.cpp`, `IPACM_IfaceManager.cpp`, object deletion in `IPACM_Lan`, `IPACM_Wlan`, `IPACM_Wan`, link messages of `IPACM_Netlink.cpp`, WLAN messages of `IPACM_Main.cpp` | built on what `EventQueue` promises; the walk of ProcessEvt is one step per callback; registrations are a sequence of nodes, `cursor` the next pointer it keeps |
| `Backhaul` | `IPACM_Wan.cpp`; the upstream's rules in `IPACM_Lan.cpp` and `IPACM_Wlan.cpp`; route messages of `IPACM_Main.cpp` | record `b`: the WAN objects and the static members of `IPACM_Wan`, with the filters of the modem and of the STA's pipe; `lan`: the tethering objects and the rules on their pipes, counted so that a rule left behind or added twice shows; operators named after the code's functions; an external event is handled when the internal queue is empty, which is what `EventQueue` promises; the `..._all` operators are the loops of ProcessEvt over the WAN objects and of `handle_down_evt_ex` over a tethering list |
| `ClientTable` | client arrays of `IPACM_Lan`, `IPACM_Wlan` and `IPACM_Wan`; `IPACM_Header.cpp`, `IPACM_Routing.cpp` | a context `c`: the object, the hardware and the events it posts; the operations on one client that the three kinds of tables share |
| `LanClients`, `WlanClients`, `WanClients` | the client handlers of `IPACM_Lan.cpp` (with the ODU), `IPACM_Wlan.cpp` and `IPACM_Wan.cpp` | operators from context to context, named after the code's functions |
| `Neighbor` | `IPACM_Neighbor.cpp` | the cache as a sequence, with the events it posts |
| `LanToLan` | `IPACM_LanToLan.cpp` | interfaces with peers, reference counts and clients; contexts, routes and filters as sets; `leaked` holds the filters whose handle is lost |
| `LocalNet` | the composition of the six above, with neighbour messages of `IPACM_Netlink.cpp` and WLAN messages of `IPACM_Main.cpp` | one action per external event; the internal events it leads to are part of it, as the queue handles them first; events posted as external ones wait in `q` |
| `FirewallConfig` | the firewall file: `IPACM_Xml.cpp`, and rules from entries in `IPACM_Wan.cpp` | a file is a sequence of nodes, parsed node by node, as the code walks it; the parser and the loop over the entries are functions of the number of nodes and entries done; `FileMatches` and `Says` state what a file means without the parser |
| `Firewall` | firewall, default filters and software routing in `IPACM_Wan.cpp`, `IPACM_Iface.cpp`, `IPACM_Filtering.cpp`; monitor and signals in `IPACM_Main.cpp` | extends `FirewallConfig`; the filter table of a pipe with handles, or the rules the modem has taken; a packet class is judged by the first rule that matches |
| `LoopInduction` | | lemmas about loops over the slots of a table: the function that a loop defines exists, and what every round preserves holds at the end |
| `CmdQueue_proofs`, `NatApp_proofs`, `ConntrackListener_proofs`, `IfaceManager_proofs`, `Backhaul_proofs`, `Firewall_proofs` | | theorems about the module each is named after |
| `MC_*` | | constants for TLC |

Operators named `...Any`, `ExternalFirst`, `KeepsItem` and the like, marked
"Mutant" in their comment, are plausible bugs of the operator that follows; with
one put in place of the real one TLC finds the property violated that
`PROJECT.json` names.

`Backhaul`, `IfaceManager` and the NAT modules are the Android build of `ipacm`
(`FEATURE_IPA_ANDROID` in `Android.mk`). In `Firewall` the build is a constant, since
it decides two things that must not be mixed: the Android build has the default rules
for TCP control segments over IPv6 and starts no `firewall_monitor`, the other build
has the monitor and not these rules. The queues of `IfaceManager` take both events of a link message at once.

## Runs

| run | question | bounds |
|---|---|---|
| `NatTable` | do lookups from both sides find every live rule, is no entry lost, are handles right, after any history of additions, deletions and table changes? Does the table implement `NatRules`? | four base and three expansion entries, four rules of which several collide in one or both hashes: chains of the maximal length, deletion at head, middle and end, full tables |
| `NatTableDmaFailure` | same with failing DMA: the chain becomes a loop (finding) | same |
| `NatOffload` | connections, WAN, power save, client and driver failures in any order: do the driver's rules match the cache, is the cache counted, does a closed connection leave nothing, does a sleeping client get no rule? | two connections, a cache of two, one temporary entry, one power-save place, room for one rule in the driver: every array is full in some state, and entries with and without a rule are in the cache together; any addition and deletion in the driver may fail; the client's subnet comes and goes |
| `NatOffloadClosed` | the entry of a connection can outlive it, when its subnet is taken away or its client becomes known as non-NAT before it closes (finding) | three connections |
| `NatOffloadAddr` | a new WAN address leads to a second table (finding) | two addresses |
| `CmdQueue` | every interleaving of two posting threads, the handler thread, handlers that post, a signal on the main thread and a spurious wakeup: list shape, refinement of `EventQueue`, delivery | six messages, each posted once; deadlock is not checked as the threads stop when all are posted |
| `CmdQueueSignal` | the signal interrupts the handler thread instead: deadlock (finding) | same |
| `Ifaces` | links and WLAN modes change in any order while events wait: no freed node is read, objects follow links, shut-down objects are deleted | a USB, a WLAN and a modem interface, at most three waiting external events; all pairs of object classes coexist and an interface goes down and up again before its object is gone |
| `Backhaul` | links, addresses, neighbours and routes come and go: is there one upstream per IP family, does no tethering interface stay on the list of an upstream that is gone, do the modem's filters, the STA's filters, the uplink rules of every tethering interface and the NAT listener follow? | two modem interfaces (the shared default filters need two) and an STA, two tethering interfaces (the last one to leave matters), one modem and one tethering interface for both families |
| `Clients` | clients come, go, roam, sleep and get addresses while interfaces, radio mode and bridge change: does the hardware hold the headers and rules of exactly the clients that are there, has an awake client all its rules and a sleeping one none, do the NAT listener, the pipe of the radio mode and the bridge follow, does a station that comes back have its address? | a set of scenarios (see below), one to three interfaces and clients each; two places in every table, a cache of neighbours of one or two, a bridge that caches two clients |
| `Firewall` | the build with a firewall monitor; the file, the links, addresses, routes, software routing and the configured mode change in any order: once the events are handled, does every packet class go where the file says, and is every rule in a filter table one the object can delete, and are they deleted with their route? | one WAN interface of each kind; five files that between them have every kind of entry the code treats differently; 16 packet classes; two events of a kind may wait; handle arrays of three places, which a file fills (`FilesFill`); a modem that takes 15 rules, so that some files fit and some do not |
| `BackhaulLoss` | the same when a dual-stack interface is lost after the route of one family was withdrawn (finding) | same |

`Backhaul` assumes of its environment: hardware calls succeed; the framework
withdraws the routes of an upstream before it adds those of another (`Handover`)
and uses one kind of upstream at a time; routes to an interface outside `Early`
are added once its address and, for an STA, its gateway are known; a WAN interface comes back
only after its routes are withdrawn; the link-local IPv6 address comes before
the global one; an STA is lost only when it is no upstream, a modem interface when it is the
upstream of all of its families or of none (`MayLose`). Where the code relies on
one of these, `PROJECT.json` lists a hazard with a note; the ones named here are
CONSTANTS, so that later runs can drop them. `Offloaded` is about IPv4: the code
installs IPv6 uplink rules only while the interface has exactly one address.

`NatOffload` takes the calls an interface makes when it goes down (its clients'
addresses gone, its subnet removed) as separate steps in any order, which includes the
order of the code. It assumes that the driver deletes its table when asked; the
deletion of a rule may fail, as its addition may. DeleteEntry then drops the cache
entry, which held the only handle, all the same; such a rule is named in `left`, is
the only exception of `RulesMatchCache`, and is gone with its table. An exception of
`NatClosedIsGone` is a connection that closes while neither its client nor a private
subnet of it is known (`unheard`): its DESTROY message is ignored, which
`NatOffloadClosed` shows.

`Clients` chooses one of its scenarios at the start; a scenario names the
interfaces, the clients of each, their addresses and the kinds of events that
happen. Each is there for one kind of interaction: an address that changes or is
one too many (`lan4`, `lan6`), tables that are full (`crowd`, `crowd_ap`), sleep
(`sleep`), roaming with a cache that is too small (`roam`), coming back
(`reconnect`), the radio mode with an access point and with an STA (`mode`,
`gateway`, `front`), the bridge with interfaces of equal and of different link
types on either side (`bridge1` to `bridge4`) and the ODU (`odu`, in its four
configurations). One interface with everything would not be smaller and would
hide which of them a state belongs to. Deadlock is not checked: with all
waiting places full an environment may have nothing left to do.

It assumes: ioctls succeed; MAC addresses have addresses of their own, and roam
between access points only; the driver does not report an association twice; no
more than one deletion of a LAN client's IPv6 address waits at a time, of an
address it has (`StrayDel`: for any other the code deletes through a handle that is
not one and forgets the client's last address); an STA
goes down with an address or without clients; the neighbour cache is not reused
more often than it has entries (`CanStore`). Where a defect of the code makes a
property false it is left out by name, and counted in the state so that the rest is
still checked: stations that take over another's `power_save_set` (`mixed`),
interfaces that were not ready for a change of the mode (`late`), clients the
bridge was told of and that left before their interface was known (`ghost`), or
for which its cache had no room (`refused`).

`Firewall` assumes: one connection; files that are well-formed XML, or missing; the
first IPv6 address of an interface is the link-local one; the header of an STA is
known before its routes; rule ioctls succeed, except for the modem's limit; the
configuration changes the mode of the interface and not its category. The run is of
the build with a firewall monitor, in which every action can happen; with
`FEATURE_IPA_ANDROID = TRUE` and `QMI_IPA_MAX_FILTERS = 18` (there are three default
rules more) it passes as well, and the theorems are about either build. Its files fit
(`FilesFit`): their entries, and the rules of one family that these become, are at
most `IPACM_MAX_FIREWALL_ENTRIES`. An entry for TCP and UDP becomes two rules, so a
file of 26 entries need not fit in the code's 50; del_dft_firewall_rules then deletes
nothing, and handle_route_del_evt and handle_down_evt go on as if it had. This is
modelled: with `IPACM_MAX_FIREWALL_ENTRIES = 1` TLC shows the rules of a withdrawn
route left in the pipe's table (`FirewallCleaned` of `RulesAccounted`). (The handles
past the end of `firewall_hdl_v4`, which the code writes over what follows, are kept
in the model.) What the properties leave out by name: families that missed a change
(`missed`: the event came while the gateway flag was cleared, the file was removed,
which is not watched, the file was written in the Android build, or the mode changed
without an event that is handled), more rules than the modem takes (`FitsModem`), and
rules without an owner (`lost`: a fragment rule that is replaced or not deleted,
software-routing rules of an interface without an address). `MaxPending` and `MaxLost`
bound waiting events and lost rules.

### Fairness

`CmdQueue` assumes weak fairness of every thread's steps: the scheduler runs a
thread that can run, and a mutex that is free is obtained since no thread holds it
for ever. Signals and spurious wakeups are not fair. `IfaceManager` assumes weak
fairness of the handler thread only; links need never change. The other runs check
safety only and assume none.

## Proofs

The invariants named below are proved for every value of the constants; the
inductive invariant of each component was checked with TLC on its run first.
Loops of the code are functions of the number of rounds done; what a round
preserves is carried to the end by `LoopInduction`, whose induction is over sets
of counters instead of predicates (a least counter at which the claim fails).

### NAT table: `IpaNatTable_proofs`

`IpaNatTable_proofs` proves for every table size, rule set and pair of hash
functions:

* `TypeCorrect`: types, also when DMA commands fail;
* `TableInvariant`: `Spec => []TableInv` when DMA commands succeed;
* `LookupsComplete`: every live rule is reachable from its hash in the base
  table and in the index table;
* `NothingLeaks`: only live rules and dead heads of non-empty chains hold
  entries, and no two handles share one;
* `Refinement`: the table implements `NatRules`.

Assumptions: the two table sizes are natural numbers (the base has at least two
entries), hashes map rules to non-zero base entries, and entry 0 is never used,
as in the code.

The lookups alone are not inductive: deleting a rule changes the chain of others.
`TableInv` adds that the chains are doubly linked with consistent hashes, that
index entries and rules point at each other, that every live handle owns its
entry, that every used entry is reachable from its base, and that chains end.
Reachability is the least closed set rather than a recursion, so that the proof
needs no induction over data: a closed set that contains the base contains the
chain.

### Command queue: `CmdQueue_proofs`

For every set of threads and messages, every interleaving, spurious wakeups and
signals on any thread:

* `TypeCorrect`: types; an item that is handled was taken out and not deleted;
* `QueuesWellLinked` (`QueueShape`): Head, Tail and the next pointers of either
  queue form the list of the messages put in and not yet taken out, in order;
* `MutualExclusion`: two frames are never inside the mutex together;
* `Refinement`: the linked lists implement `EventQueue`.

Assumptions: `QueueAssumption` (the sets are what they are named) and
`FreshAssumption`: a message is posted by one call only, as each call of the code
allocates its own. The list shape is not inductive without the mutex, nor the
mutex without knowing where each frame is, its signal handler included, so the
invariant says for every program counter which message the frame owns, whether it
holds the lock and what state of life its message is in. The refinement maps the
history variable `order` to the queues; `QueueShape` is what makes it a true
history of the linked lists.

### NAT application and conntrack listener: `NatApp_proofs`, `ConntrackListener_proofs`

For caches, temporary lists, power-save lists, rule tables and sets of clients and
connections of any size, with a driver that may refuse to add or to delete any rule and
private subnets that come and go:

* `TypeCorrect`: types; `StaClntCnt` counts its list;
* `RulesFollowCache` (`RulesMatchCache`): the driver's rules are those of the
  enabled cache entries, each under its handle, and besides exactly those whose
  deletion failed;
* `CountIsExact` (`CacheCounted`): `curCnt` counts the used slots, no connection is
  cached twice;
* `ClosedConnectionsGo` (`NatClosedIsGone`): a closed connection of a NAT client has
  no cached and no temporary entry, unless it closed while neither its client nor a
  private subnet of it was known;
* `OneTable`: one NAT table at most while the WAN's address does not change
  (`NatOffloadAddr` shows what the change does);
* `SleepersKeepNoRule` (`SleepersGetNoRule`): an action property, no step but the
  WAN's coming up gives a rule to a client that is and stays in power save.

`NatApp_proofs` says of each method what it preserves of the record (`Good`: types,
count, distinct connections and handles, rules) and how it changes the set of entries;
the listener's invariant adds that a table exists only while the WAN is up, and that
every entry of a NAT client's connection is under the very addresses and ports DESTROY
will look for, without which an entry could not be found again. Of a rule whose
deletion failed `Good` says that no entry has its handle, so that its handle is not
given to another. Assumptions: the arrays have the sizes their indices need
(`NatAppAssumption`), connections have distinct public ports (`ListenerAssumption`;
conntrack hands them out so), and NAT clients have addresses that are neither the
WAN's nor those of other clients (`ClientAssumption`).

### Interface manager: `IfaceManager_proofs`

For any set of interfaces (`IfaceAssumption`: finite, at most two of them WLAN, as
a third access point deletes itself when it is built) and queues of any length:

* `TypeCorrect`: types, the class of an active object agrees with its interface, and
  `num_wlan_ap_iface` counts the access points;
* `WalkIsSafe` (`NoStaleNode`): the next pointer that ProcessEvt keeps across a
  callback is the node of a registered object, whatever the callback creates or deletes;
* `ObjectsFollowLinks` (`Settled`): when no event waits and none is handled, the
  objects that remain are those of the links that are up, each of the class that its
  link calls for, in whatever order the messages came and were handled.

`NoStaleNode` holds because an object deletes itself only in the callback of its
own node and the nodes of an object are in the order of its registrations, its
deletion event last; the invariant states this order, and what may be under way
when an object deletes itself.

`Settled` speaks of the moment when everything is quiet; its invariant `SInv` has to
say at every moment where the waiting events will lead. `After` is what one event
makes of the class of an interface's object; `LeadsTo` chains it along the external
queue, as a function from places in the queue to classes that exists, so no recursion
is needed; `Soon` starts the chain with the event that ProcessEvt has in hand, as long
as the listener who acts on it has not been called. `Leads` says that the chain of
every interface ends in the class its link calls for now. What makes this inductive
is `Deletions`: at most one object has shut down and not been deleted, its own event
is alone in the internal queue or being handled, and no link event is taken before
it (internal events first), so a link-up never meets an object that is about to go.
`Registered` (the list holds each registration of the manager and the objects once,
and no other) tells who is called; `Classes` ties a category to the object.

### Backhaul: `Backhaul_proofs`

For every set of WAN and tethering interfaces, any number of objects, interfaces on
a list and waiting events:

* `TypeCorrect`: types; no counter falls below zero, whichever access points
  handle WAN_DOWN_TETHER;
* `SingleUpstream` (`OneUpstream`), `ListsFollowRoutes` (`NoOrphans`),
  `NoUpstreamIdles` (`NoIdleUpstream`), `FiltersFollow` (`Filtered`) and
  `NatFollowsUpstream` (`NatFollows`);
* `PipesHoldNoStray` (`NoStrayRules`) and `RoutedIsOffloaded` (`Offloaded`), where no
  interface is a second access point (`LaterAps = {}`): such a one ignores
  WAN_DOWN_TETHER for IPv4.

All assume `Framework`, a hypothesis of the theorems and not of the module:
upstreams are changed in order (no `Handover`), the gateway of an STA is known
before its routes, and links are lost as `MayLose` says for the run `Backhaul`. The run
`BackhaulLoss` shows that the last is needed; the hazards name what happens without
the others. A modem's routes may be added before its address is known (`Early`).

None of the properties is inductive. The invariant `IInv` adds: the objects called
are those that exist; an active object has the address that its family needs, lies
within its families and never waits for a header; `is_default_gateway` tells enough
at the loss of the link; `backhaul_is_sta_mode` tells the kind of every upstream;
`num_ipv4_modem_pdn` and `num_ipv6_modem_pdn` are the cardinality of the set of
modem interfaces with an address; and for what waits in the queue, that at most one
event waits for the NAT listener, and one for each interface and family, which makes
its receiver follow when it is handled. Its parts are about a value of `b`, because
the handlers pass through values that no state has; each handler has a lemma for
its parts, and `Follows` carries the claims about listener and pipes across them.

### Firewall: `Firewall_proofs`

For either build, every set of packets, ALG ports and scopes, any number of waiting
events and lost rules, and every set of files that fit (`FilesFit`, a hypothesis of
the theorems, without which a withdrawn route leaves its rules behind):

* `TypeCorrect` (`TypeOK`);
* `Accounted` (`RulesAccounted`): every rule in the filter table of a pipe is one
  the object holds a handle of or one that is named as lost, and none is counted
  twice, and a family that the pipe is not upstream of has no firewall rule left;
* `Enforced` (`FirewallEnforced`), for files that are read as they are written
  (`FilesUnderstood`: the two switches of the configuration are those of the file,
  and the rules of a parsed entry match a packet exactly if an entry of the
  file says so). This is a condition on files and on no state. Not every file meets
  it (one that names a range before its port does not); TLC evaluates it on
  the files of the run (`FilesRead`). The types of what the parser makes of a file are proved for
  every file. Proved without a condition is all that follows: which rules are made
  for a family, mode and switch, where they are put among default filters, ALG,
  fragments and software routing, the handles they get and give back, and the
  verdict of the first rule that matches.

The invariant `IInv` says what a filter table consists of. On a pipe it is, for each
family, a concatenation of five parts with distinct handles: software routing in front,
the default filters, the rule for the own address, the fragment rule and the
firewall (`Parts`, `Whole`), interspersed with lost rules; the handle lists of the
object are those of the parts (`Held`), and each part has the rules that the state of
the object calls for (`Filled`, `Built`). On the modem there are no handles: the rule
arrays are those of default filters, ALG and file (`ModemInv`), and the modem has
them unless a signal is under way, software routing is on or they do not fit
(`ModemHas`). `Signals` relates flag, active software routing and waiting events: the
last event is that of the flag. `Life` says which families can have routes, and that a family that
missed nothing was built from the current file once no event waits. None of this can
be left out: the properties speak of the table as a whole, and every deletion finds
its rules by handles kept since an earlier event.

A deletion by handles is shown to leave the other parts as they are (`Without`), a new
rule to get handles that are free (`NewHdls`); `Sends` says that a list of rules
decides a packet, and is what the order of the parts is for.

### What stays with TLC

Liveness (`Delivered` of `CmdQueue`, `Reclaimed` of `IfaceManager`): the prover has
no fairness. The clients with neighbour cache and bridge (`LocalNet`): their
operators fold over sequences, and what a fold computes needs induction over data; their
properties hold on the bounded scenarios that the run describes. `FilesRead` of
`MC_Firewall`, that the parser reads a file as it is written.

## What the checks found

The findings in `PROJECT.json` quote the code, the comments and the documentation: a
failed DMA command makes a chain point at itself; the cached entry of a connection can
outlive it when its subnet is removed or its client turns out not to be a NAT client;
an address change of the WAN interface leaves a table that is never deleted; a signal
can deadlock the command queue; a dual-stack modem interface that loses its link after
one route was withdrawn leaves the other family's tethering interfaces and rules
behind.

Beside the findings, the hazards of `PROJECT.json` name weaknesses that the passing
runs exclude by an assumption or by a named exception, each with a note that says
which. Two of them are defects of the same kind: a NAT rule whose deletion fails loses
its cache entry all the same (`left`), and the rules of a firewall file with too many
entries for TCP and UDP are never removed from a pipe (`FilesFit`).

## Not modelled, and the plan

In this order:

1. Proofs: types and ownership of routes and headers in `LocalNet`, as far as folds over
   sequences can be replaced by loops.
2. Handover between upstreams (`Handover`), loss of an STA that is in use
   (`MayLose`), later access points (`LaterAps`): parameters of `Backhaul` that its
   runs keep at the values for which the code is right.
3. The locks of the NAT driver, its sizing arithmetic and the failure of its table
   deletion; the UDP timeout thread of the NAT application; removal of interfaces in
   the netlink listener.
4. eMBMS, XLAT, the firewall of several connections at once, the filter rules for
   private subnets and the dependencies of the resource manager.
5. Camera device and provider, amplifier protocol, lights, gesture service.

Out of scope: decoding of netlink attributes, the interface section of the
configuration, property helpers, shims and configuration data, which have no state
of their own or only perform I/O. `include/telephony/ril.h` is an interface of
constants and callbacks without an implementation in this repository.
