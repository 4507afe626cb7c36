--------------------------- MODULE MC_IfaceManager ---------------------------
(* One interface of each category; the carrier of the USB one comes and goes. *)
EXTENDS IfaceManager

CONSTANTS rndis0, wlan0, rmnet0
=============================================================================
