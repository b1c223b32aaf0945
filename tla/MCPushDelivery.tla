--------------------------- MODULE MCPushDelivery ---------------------------
(***************************************************************************)
(* An instance of PushDelivery for TLC: a device of each platform.  Clients*)
(* forge one UCAN: of those that are not signed by the service nothing     *)
(* else is looked at.                                                      *)
(***************************************************************************)
EXTENDS PushDelivery, TLC

CONSTANTS x1, x2, ios, android, t1

Devices == (x1 :> ios) @@ (x2 :> android)

ForgedUcan == {[key |-> Foreign, token |-> x1, platform |-> ios, team |-> t1]}
=============================================================================
