------------------------------ MODULE NatRules ------------------------------
(***************************************************************************)
(* What the NAT driver promises to its client (ipanat/src/ipa_nat_drv.c):  *)
(* while a table is up, a handle stands for exactly the rule it was given  *)
(* out for until that handle, or the table, is deleted.                    *)
(***************************************************************************)
CONSTANTS Handles, Rules, NoRule

VARIABLES up, live

natVars == <<up, live>>

NatInit == up = FALSE /\ live = [h \in Handles |-> NoRule]

NatAddTable == ~up /\ up' = TRUE /\ live' = [h \in Handles |-> NoRule]

NatDelTable == up /\ up' = FALSE /\ live' = [h \in Handles |-> NoRule]

NatAddRule(r) ==
    /\ up
    /\ \E h \in Handles : live[h] = NoRule /\ live' = [live EXCEPT ![h] = r]
    /\ UNCHANGED up

NatDelRule(h) ==
    /\ up
    /\ live[h] # NoRule
    /\ live' = [live EXCEPT ![h] = NoRule]
    /\ UNCHANGED up

NatNext ==
    \/ NatAddTable
    \/ NatDelTable
    \/ \E r \in Rules : NatAddRule(r)
    \/ \E h \in Handles : NatDelRule(h)

NatSpec == NatInit /\ [][NatNext]_natVars
=============================================================================
