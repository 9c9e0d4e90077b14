---------------------------- MODULE MCAlertSpool ---------------------------
(* AlertSpool on two to four alerts and small spools. *)
EXTENDS AlertSpool

TwoAlerts == <<"info", "info">>
Distinct2 == <<1, 2>>
FourAlerts == <<"info", "info", "info", "info">>
Distinct4 == <<1, 2, 3, 4>>
=============================================================================
