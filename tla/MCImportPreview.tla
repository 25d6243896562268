--------------------------- MODULE MCImportPreview ---------------------------
(* An instance of ImportPreview for TLC, with the payloads of CategoryImport.   *)
EXTENDS ImportPreview

CONSTANTS food, fun, i1, old, new, a, x, label, m11, m12, m13, c1, c2, c3, c4, eur, usd

Entry(id, parent, n, role) == [id |-> id, parent |-> parent, name |-> n, role |-> role]

\* A tree with identities of its own; one without, in which a root comes twice;
\* a child for a root there is.
ImportedPayloads ==
    {<<Entry(a, None, fun, "spending"), Entry(x, a, food, None)>>,
     <<Entry(label, None, fun, "income"), Entry(None, None, fun, "spending"),
       Entry(None, label, fun, None)>>,
     <<Entry(None, old, fun, None)>>}

MintedIds == (i1 :> <<m11, m12, m13>>)

Row(currency, parent, category, mapped) ==
    [empty |-> FALSE, day |-> 1, amount |-> "positive", currency |-> currency,
     type |-> "income", text |-> None, parent |-> parent, category |-> category,
     mapped |-> mapped, native |-> None]

Empty == [Row(None, None, None, None) EXCEPT !.empty = TRUE, !.day = None, !.amount = None, !.type = None]

\* With a currency column: a child of a new root before the root itself, an empty
\* row and a duplicate.  Without: one row in the currency confirmed.  An invalid row.
ReadFiles ==
    {[column |-> TRUE, confirmed |-> None,
      rows |-> <<Row(usd, fun, food, "good"), Empty, Row(eur, None, fun, None), Row(usd, None, None, None)>>],
     [column |-> FALSE, confirmed |-> usd, rows |-> <<Row(None, None, food, None)>>],
     [column |-> TRUE, confirmed |-> None, rows |-> <<Row("unknown", None, None, None)>>]}

PlaceholderIds == <<c1, c2, c3, c4>>
==============================================================================
