-------------------------- MODULE NatAdapterSerial --------------------------
(***************************************************************************)
(* NatAdapter with a history variable, to show that calls which do not     *)
(* overlap are atomic: the adapter implements the NatPort trait.           *)
(***************************************************************************)
EXTENDS NatAdapter

VARIABLE before     \* the host when the call in progress began

HInit == Init /\ before = host

HNext == Next /\ before' = IF Quiet THEN host ELSE before

HSpec == HInit /\ [][HNext]_<<vars, before>>

Port == INSTANCE NatPort WITH host <- IF Quiet THEN host ELSE before

(***************************************************************************)
(* Every call that has ended, with success, with an error halfway or by a  *)
(* crash, changed sysctls, rules and forward_state as one atomic call of   *)
(* the port may: the partial effects of a failed apply are exactly a       *)
(* prefix of its steps, and remove never reports one.                      *)
(***************************************************************************)
PortSpec == Port!Spec
=============================================================================
