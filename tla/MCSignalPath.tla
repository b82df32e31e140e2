---------------------------- MODULE MCSignalPath ----------------------------
(***************************************************************************)
(* Small instances of SignalPath: two orders of one strategy, one of them  *)
(* published twice, two workers, and one or two things going wrong.        *)
(***************************************************************************)
EXTENDS SignalPath, TLC

CONSTANTS o1, o2

K(belowMin, paper, exits, auth, priced, max) ==
    [belowMin |-> belowMin, paper |-> paper, exits |-> exits, auth |-> auth, priced |-> priced, max |-> max]
Plain == K(FALSE, FALSE, "fixed", TRUE, TRUE, FALSE)
Bounded == K(TRUE, FALSE, "fixed", TRUE, TRUE, TRUE)
Paper == K(FALSE, TRUE, "none", FALSE, TRUE, FALSE)

\* Below-minimum orders: with every kind of exit, one without a target, one on paper.
Waiting ==
    {Bounded} \union {K(TRUE, FALSE, x, TRUE, TRUE, FALSE) : x \in {"none", "trailing", "multi"}}
    \union {K(TRUE, FALSE, "fixed", FALSE, FALSE, FALSE), K(TRUE, TRUE, "multi", FALSE, TRUE, TRUE)}
Direct ==
    {Plain, K(FALSE, FALSE, "trailing", TRUE, FALSE, FALSE), K(FALSE, TRUE, "fixed", FALSE, TRUE, FALSE)}
    \union {K(FALSE, FALSE, x, FALSE, TRUE, FALSE) : x \in {"fixed", "trailing", "multi"}}

Case(k, bad, msgs) ==
    [kinds |-> (o1 :> k @@ o2 :> Paper), hazards |-> bad, topic |-> msgs]
Once == <<o1>>
Repeated == <<o1, Malformed, o2, o1>>

\* What a kind of order changes, and what only the hazards do.
MonitorKinds == {{"no credentials", "deactivate"}, {"restart"}}
MonitorHazards ==
    {{"order fails", "write fails"}, {"answer lost", "write fails"}, {"blind check", "cancel"}, {"restart", "cancel"}}
WorkerKinds == {{"no credentials"}, {"order fails"}}
WorkerHazards ==
    {{"answer lost", "restart"}, {"insert fails", "restart"}, {"commit fails", "restart"}, {"deactivate"}}

Monitored == {Case(k, h, Once) : k \in Waiting, h \in MonitorKinds} \union {Case(Bounded, h, Once) : h \in MonitorHazards}
Worked == {Case(k, h, Once) : k \in Direct, h \in WorkerKinds} \union {Case(Plain, h, Once) : h \in WorkerHazards}
Redelivered == {Case(Plain, {"restart"}, Repeated), Case(Bounded, {"restart"}, <<o1, o1>>)}
Mixed == Monitored \union Worked \union Redelivered
Deactivation == {Case(Plain, {"deactivate"}, Once)}
=============================================================================
