---------------------------- MODULE MCProvisioning ----------------------------
(***************************************************************************)
(* Small instances of Provisioning for TLC: the network n1, typed in with  *)
(* its password or with a wrong one, and a network n2 that is not there.   *)
(***************************************************************************)
EXTENDS Provisioning, TLC

CONSTANTS n1, n2, right, wrong

Right == [ssid |-> n1, pass |-> right]
WrongPass == [ssid |-> n1, pass |-> wrong]
WrongSsid == [ssid |-> n2, pass |-> right]

OnlyRight == {Right}
RightOrWrongPass == {Right, WrongPass}
RightOrWrongSsid == {Right, WrongSsid}
AnyEntry == {Right, WrongPass, WrongSsid}
=============================================================================
