----------------------------- MODULE MCOcoGroup -----------------------------
(***************************************************************************)
(* Small instances of OcoGroup; an environment names what users, market    *)
(* and network may do in an instance.                                      *)
(***************************************************************************)
EXTENDS OcoGroup

BothLegs == {"SL", "TP"}
OnlySL == {"SL"}
OnlyTP == {"TP"}

Races == {"fill while placing", "leg while placing", "cancel while placing", "timeout",
          "entry ends partly filled", "cancel failure", "modify failure",
          "no fill price", "adopted"}
Orderly == {"partial fill", "entry ends", "leg partial fill", "leg reject", "leg cancel",
            "bad leg price", "place failure", "unanswered", "trailing", "user cancel"}

AllRaces == Races \union {"partial fill", "entry ends", "user cancel", "trailing", "unanswered"}
LostAnswers == {"partial fill", "leg cancel", "place failure", "unanswered"}
OrderlyPlaced == Orderly \ {"place failure"}
CancelWhilePlacing == {"user cancel", "cancel while placing"}
LegWhilePlacing == {"leg while placing"}
RejectWhilePlacing == {"leg while placing", "leg reject"}
Timeout == {"partial fill", "timeout"}
QuickFill == {"partial fill", "fill while placing"}
PartialFill == {"partial fill"}
PlaceFailure == {"place failure"}
ModifyFailure == {"partial fill", "modify failure"}
Unheard == {"unanswered"}
UnheardWhilePlacing == {"unanswered", "leg while placing"}
CancelFailure == {"cancel failure"}
LegPartialFill == {"leg partial fill"}
Adopted == {"adopted"}
=============================================================================
