--------------------------- MODULE MCTrailingStop ---------------------------
(***************************************************************************)
(* A share at 10.00 rupees with a stop-loss 1% below, where one tick is    *)
(* half a percent: rounding matters at every step.  The entry is filled    *)
(* one third at 10.00 and two thirds at 10.05.                             *)
(***************************************************************************)
EXTENDS TrailingStop

Third == 3
AverageFill == 1000 + 2 * 1005
Limit == Third * 1005
PricesValue == {Third * p : p \in {995, 1000, 1005, 1010, 1015, 1050}}
AllScenarios == SUBSET {"redis", "resize", "restart", "lost subscription", "lost resubscription"}
=============================================================================
