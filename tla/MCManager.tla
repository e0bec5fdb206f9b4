---------------------------- MODULE MCManager -----------------------------
(* Three settings: the level of the log, a secret that starts the          *)
(* collection (the password of the modem) and a switch imposed by the      *)
(* environment (the probe).                                                *)
EXTENDS Manager, TLC

MCVals == {"blank", "on", "off"}
MCValid == <<{"on", "off"}, {"on"}, {"on"}>>
MCDefault == <<"off", "blank", "on">>
MCForced == 3 :> "on"
MCGroups == {{1, 2}, {3}}
MCSwitch == [collection |-> 2, probe |-> 3]
==========================================================================
