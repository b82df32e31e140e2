-------------------------- MODULE MCConfigDelivery --------------------------
(***************************************************************************)
(* ConfigDelivery on a small instance: every order, repetition and loss of *)
(* the events of a strategy that is changed, deleted and deleted again.    *)
(***************************************************************************)
EXTENDS ConfigDelivery, TLC

Symmetry == Permutations(Strategies)
=============================================================================
