-------------------------- MODULE MCBvlcBroadcast --------------------------
(* Two BBMDs. The second has the other devices of the model on its subnet  *)
(* or in its foreign device table.                                         *)
EXTENDS BvlcBroadcast

CONSTANT bbmdA
bbmdB == CHOOSE b \in Bbmds : b # bbmdA
HomeOf == [d \in Devices |-> IF d = bbmdA THEN bbmdA ELSE bbmdB]
=============================================================================
