--------------------------- MODULE MCAlertDelivery ---------------------------
(***************************************************************************)
(* Instances of AlertDelivery for TLC.                                     *)
(***************************************************************************)
EXTENDS AlertDelivery, TLC

CONSTANTS e1, e2, w1, w2

OneEvent == {e1}
TwoEvents == {e1, e2}
OneWorker == {w1}
TwoWorkers == {w1, w2}
SecondMaybe == {e2}


=============================================================================
