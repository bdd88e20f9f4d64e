--------------------------- MODULE MCXrayManager ---------------------------
(* XrayManager for TLC: the bot loop and the expiration checker, in the one
   process the code runs them in. *)
EXTENDS XrayManager

OneProcess == [g \in Goroutine |-> "vpn-bot"]
=============================================================================
