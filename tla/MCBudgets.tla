------------------------------ MODULE MCBudgets -------------------------------
(* Instances of Budgets for TLC.                                               *)
EXTENDS Budgets, TLC

CONSTANTS c1, c2

TwoCategories == {c1, c2}

Planned(scope, mode, rollover) ==
    [scope |-> scope, allowance |-> 1, mode |-> mode, rollover |-> rollover]

SomeSettings ==
    {Planned({}, "spending", "previous"),
     Planned({c1}, "spending", "cumulative"), Planned({c2}, "spending", "cumulative")}

Entered(kind, valued, linked) == [kind |-> kind, valued |-> valued, linked |-> linked]

SomeEntries ==
    {Entered("expense", TRUE, FALSE), Entered("income", TRUE, TRUE)}

\* Once its only budget is deleted, an instance has nothing left to show.
BudgetRemains == \A b \in BudgetIds : budget[b] # None => ~budget[b].deleted

BudgetsSymmetry == Permutations(TwoCategories)
===============================================================================
