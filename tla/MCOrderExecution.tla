-------------------------- MODULE MCOrderExecution --------------------------
(***************************************************************************)
(* Small instances of OrderExecution: an order for two shares, two         *)
(* prices, one retry, and one or two things going wrong.                   *)
(***************************************************************************)
EXTENDS OrderExecution

OneHazard == {{}} \union {{h} : h \in Hazards}
Mixed == OneHazard \union
    {{"timeout", "book misses"}, {"timeout", "restart"}, {"cancel", "write fails"},
     {"cancel", "restart"}, {"slow write", "lost event"}, {"timeout", "other order"}}
=============================================================================
