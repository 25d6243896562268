----------------------------- MODULE MCAlertFeed -----------------------------
(***************************************************************************)
(* An instance of AlertFeed for TLC.                                       *)
(***************************************************************************)
EXTENDS AlertFeed

CONSTANTS c1, p1, rates, budget

\* The exchange rate alert of an earlier failure is closed or opens again; a
\* budget crosses its limit.
AlertJobs == {[op |-> "resolve", key |-> rates], [op |-> "open", key |-> rates],
              [op |-> "insert", key |-> budget]}
=============================================================================
