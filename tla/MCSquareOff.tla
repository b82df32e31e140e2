---------------------------- MODULE MCSquareOff ----------------------------
(***************************************************************************)
(* Small instances of SquareOff: an intraday entry, with a pair of exit    *)
(* orders at the broker or without, whose strategy is paused.              *)
(***************************************************************************)
EXTENDS SquareOff

StrategyOfValue == [e \in Entries |-> "a"]
EventsValue == <<"a">>
ManagedValue == [e \in Entries |-> "OCO"]
NoExits == [e \in Entries |-> "NONE"]
MaxValue == [k \in Kinds |-> 1]
=============================================================================
