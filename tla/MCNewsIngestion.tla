--------------------------- MODULE MCNewsIngestion ---------------------------
(***************************************************************************)
(* Two documents of one company, with the oldest and the newest clock      *)
(* reading that pass; the first may also have no company or not decode.    *)
(***************************************************************************)
EXTENDS NewsIngestion

Good == [decodes |-> TRUE, dated |-> TRUE, age |-> -ISTOffset, duplicate |-> FALSE, source |-> "NSE",
         score |-> TRUE, summary |-> TRUE, company |-> "INE1"]

MCNews == <<{[Good EXCEPT !.age = MaxAge - ISTOffset], [Good EXCEPT !.company = None],
             [Good EXCEPT !.decodes = FALSE]},
            {[Good EXCEPT !.age = -ISTOffset - ClockSkew]}>>

MCListing == [INE1 |-> {"NSE"}]
MCCompanies == {"INE1"}
==============================================================================
