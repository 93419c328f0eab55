----------------------------- MODULE MCOSUpdate -----------------------------
(* OSUpdate with three or four releases.                                           *)
EXTENDS OSUpdate, TLC

\* The second release changes the format of the state file.
SameFormat == [v \in Versions |-> 1]
NewerFormat == [v \in Versions |-> IF v = 1 THEN 1 ELSE 2]

Env(publish, cert, powerloss, restart, reboot, select) ==
    ("publish" :> publish) @@ ("certs" :> cert) @@ ("powerloss" :> powerloss)
    @@ ("restart" :> restart) @@ ("reboot" :> reboot) @@ ("select" :> select)

SafetyBudget == Env(3, 1, 1, 1, 1, 1)
FairBudget == Env(3, 1, 1, 0, 0, 0)
RetryBudget == Env(2, 0, 0, 0, 2, 1)
=============================================================================
