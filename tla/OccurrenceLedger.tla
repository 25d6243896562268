--------------------------- MODULE OccurrenceLedger ---------------------------
(***************************************************************************)
(* What recurring transactions promise a user, without schedules, heads,   *)
(* revisions, workers or failures: for each recurring transaction a ledger *)
(* of the dates fulfilled, to which later dates are appended one by one    *)
(* while it is active, up to its total, and which is final once it ended.  *)
(***************************************************************************)
EXTENDS Naturals, Sequences

CONSTANTS Sources,  \* ids of recurring transactions
          Dates,    \* the dates an occurrence may have
          Totals    \* the totals that may be asked for; 0 is no total

VARIABLES state,    \* "none", "active", "paused" or "ended"
          total,    \* the total asked for
          ledger    \* the fulfilled dates, in the order of fulfillment

ledgerVars == <<state, total, ledger>>

Init ==
    /\ state = [s \in Sources |-> "none"]
    /\ total = [s \in Sources |-> 0]
    /\ ledger = [s \in Sources |-> <<>>]

Reached(limit, entries) == limit # 0 /\ Len(entries) = limit

\* A new recurring transaction; an adopted transaction is its first entry.
Open(s, limit, entries) ==
    /\ state[s] = "none"
    /\ ledger' = [ledger EXCEPT ![s] = entries]
    /\ total' = [total EXCEPT ![s] = limit]
    /\ state' = [state EXCEPT ![s] = IF Reached(limit, entries) THEN "ended" ELSE "active"]

Record(s, date) ==
    /\ state[s] = "active"
    /\ \A i \in DOMAIN ledger[s] : ledger[s][i] < date
    /\ ledger' = [ledger EXCEPT ![s] = Append(@, date)]
    /\ state' = [state EXCEPT ![s] = IF Reached(total[s], ledger'[s]) THEN "ended" ELSE @]
    /\ UNCHANGED total

ChangeTotal(s, limit) ==
    /\ state[s] \in {"active", "paused"}
    /\ limit # 0 => Len(ledger[s]) <= limit
    /\ total' = [total EXCEPT ![s] = limit]
    /\ state' = [state EXCEPT ![s] = IF Reached(limit, ledger[s]) THEN "ended" ELSE @]
    /\ UNCHANGED ledger

Switch(s, from, to) ==
    /\ state[s] \in from
    /\ state' = [state EXCEPT ![s] = to]
    /\ UNCHANGED <<total, ledger>>

Next ==
    \E s \in Sources :
        \/ \E limit \in Totals :
             \/ Open(s, limit, <<>>)
             \/ \E date \in Dates : Open(s, limit, <<date>>)
             \/ ChangeTotal(s, limit)
        \/ \E date \in Dates : Record(s, date)
        \/ Switch(s, {"active"}, "paused")
        \/ Switch(s, {"paused"}, "active")
        \/ Switch(s, {"active", "paused"}, "ended")

Spec == Init /\ [][Next]_ledgerVars
=============================================================================
