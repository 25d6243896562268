---------------------------- MODULE ImportPreview ----------------------------
(* The rows of an import: classified at the preview, inserted with their       *)
(* categories at the commit, and exported again.                               *)
(*   crates/core/src/features/transactions/{import_preview,import_models}.rs   *)
(*   crates/core/src/features/transactions/{import_service,export_csv,dedup}.rs*)
(*   crates/db/src/transactions/{import,import_dedup,bulk_ops}.rs              *)
(*                                                                             *)
(* TransactionImport has the job, the binding and the currencies of a preview; *)
(* here they hold.  A name, a currency or a description stands for its trimmed *)
(* form in one case; an amount only for whether it may be imported.            *)
EXTENDS CategoryImport

CONSTANTS
    Readers,        \* requests that preview and commit a file, each once
    Files,          \* the files they have
    Codes,          \* currencies of the manifest
    Default,        \* the default currency
    Placeholders,   \* the identities cat-1, cat-2, ...
    MaxTransactions \* bound on what is recorded and exported

-----------------------------------------------------------------------------
(* What is sent and kept.                                                      *)

Types == {"expense", "income"}
RateKinds == {"lookup", "manual", "identity", "pending", "automatic"}

\* NativeRateFields: the rate of a row Zai exported.  decimal and formula: whether
\* the row has a rate, of a formula this version knows.
NativeRates ==
    [newer : BOOLEAN, variant : RateKinds \ {"lookup"}, origin : {"supplied", "manual"},
     decimal : BOOLEAN, formula : BOOLEAN]

\* MappedImportRow.  amount, mapped: "bad" when present and refused.
MappedRows ==
    [empty : BOOLEAN, day : Nat \cup {None}, amount : {"positive", "bad", None},
     currency : Codes \cup {"unknown", None}, type : Types \cup {"unknown", None},
     text : Names \cup {None}, parent : Names \cup {None}, category : Names \cup {None},
     mapped : {"good", "bad", None}, native : NativeRates \cup {None}]

\* PreviewTransactionImportRequest.
IsFile(f) ==
    /\ f.column \in BOOLEAN
    /\ f.confirmed \in Codes \cup {None}
    /\ f.rows \in Seq(MappedRows)

ASSUME ImportPreviewAssumption ==
    /\ \A f \in Files : IsFile(f)
    /\ Placeholders \in Seq(Categories)
    /\ Default \in Codes
    /\ MaxTransactions \in Nat

\* ImportPreviewRowStatus.
Statuses == {"import", "duplicate", "invalid", "empty"}

VARIABLES
    ledger,     \* live transactions: [key, type, category, rate]
    preview,    \* of each reader: the classified file
    exported    \* the last file exported

fileVars == <<ledger, preview, exported>>
allVars == <<vars, fileVars>>

NoFile == [column |-> TRUE, confirmed |-> None, rows |-> <<>>]
NotPreviewed == [pc |-> "idle", rows |-> <<>>, results |-> <<>>, categories |-> <<>>,
                 promised |-> {}, blocked |-> FALSE]

FileInit ==
    /\ Init
    /\ ledger = {}
    /\ preview = [r \in Readers |-> NotPreviewed]
    /\ exported = NoFile

-----------------------------------------------------------------------------
(* Classification of a file.                                                   *)

\* resolve_currency.
CurrencyOf(f, row) == IF f.column THEN row.currency ELSE f.confirmed

\* duplicate_key: the day, the amount, the currency and the description.
Key(f, row) == <<row.day, row.amount, CurrencyOf(f, row), row.text>>

LedgerKeys == {t.key : t \in ledger}

\* duplicate_candidates_from_request: what of the file may be a duplicate.
CandidateKeys(f) ==
    {Key(f, row) : row \in {x \in ToSet(f.rows) :
        ~x.empty /\ x.day # None /\ x.amount = "positive" /\ CurrencyOf(f, x) # None}}

\* find_existing_duplicate_keys.
ExistingKeys(f) == CandidateKeys(f) \cap LedgerKeys

\* native_rate_plan.
NativeRatePlan(n) ==
    CASE n.variant \in {"identity", "pending"} -> n.variant
      [] n.variant = "manual" /\ n.decimal -> "manual"
      [] n.variant = "automatic" /\ n.origin = "supplied" /\ n.formula /\ n.decimal -> "automatic"
      [] OTHER -> "none"

\* resolve_rate_plan.
RatePlan(row) ==
    IF row.native # None THEN NativeRatePlan(row.native)
    ELSE IF row.mapped = None THEN "lookup"
    ELSE IF row.mapped = "good" THEN "manual" ELSE "none"

\* What classify_row asks of a row before it looks for duplicates.
Valid(f, row) ==
    /\ row.day # None /\ row.amount = "positive"
    /\ CurrencyOf(f, row) \in Codes
    /\ row.type \in Types
    /\ RatePlan(row) \in RateKinds

\* The categories of a row, as a path of names.
PathOf(row) ==
    IF row.category = None THEN <<>>
    ELSE IF row.parent = None THEN <<row.category>> ELSE <<row.parent, row.category>>

\* A category for a path not met before, under a placeholder.
WithCategory(s, path, parent) ==
    LET id == Placeholders[Len(s.categories) + 1] IN
    IF path \in DOMAIN s.ids THEN s
    ELSE [s EXCEPT
            !.ids = (path :> id) @@ @,
            !.categories = Append(@, [id |-> id, parent |-> parent, name |-> Last(path),
                                      role |-> IF parent = None THEN "spending" ELSE None])]

\* resolve_category_id; a root has the default role (normalize_import_categories).
WithPath(s, path) ==
    IF path = <<>> THEN s
    ELSE IF Len(path) = 1 THEN WithCategory(s, path, None)
    ELSE LET rooted == WithCategory(s, Front(path), None)
         IN  WithCategory(rooted, path, rooted.ids[Front(path)])

\* classify_row: a key in the ledger or met before is an explicit skip.
Status(f, s, row) ==
    IF row.empty THEN "empty"
    ELSE IF ~Valid(f, row) THEN "invalid"
    ELSE IF Key(f, row) \in s.keys THEN "duplicate" ELSE "import"

WithRow(f, s, row) ==
    LET status == Status(f, s, row)
        t == WithPath(s, PathOf(row))
        counted == [s EXCEPT !.results = Append(@, status)]
    IN  IF status # "import" THEN counted
        ELSE [t EXCEPT
                !.results = Append(@, status),
                !.keys = @ \cup {Key(f, row)},
                !.rows = Append(@, [key |-> Key(f, row), type |-> row.type, rate |-> RatePlan(row),
                                    category |-> IF PathOf(row) = <<>> THEN None
                                                 ELSE t.ids[PathOf(row)]])]

\* classify_import.
Classified(f) ==
    FoldLeft(LAMBDA s, row : WithRow(f, s, row),
             [results |-> <<>>, keys |-> ExistingKeys(f), rows |-> <<>>,
              ids |-> <<>>, categories |-> <<>>],
             f.rows)

\* require_currencyless_confirmation, and no row of a newer version of Zai.
Readable(f) ==
    /\ f.column \/ f.confirmed # None
    /\ \A row \in ToSet(f.rows) : row.native # None => ~row.native.newer

\* ImportPreviewSummary.blocked.
Blocked(results) == "invalid" \in ToSet(results)

\* What a reader of the file expects of it: for the first valid row of each key the
\* ledger has not, a transaction with its type, its rate and its category by name.
Promised(f) ==
    LET firsts == {k \in DOMAIN f.rows :
                      /\ ~f.rows[k].empty /\ Valid(f, f.rows[k])
                      /\ Key(f, f.rows[k]) \notin LedgerKeys
                      /\ \A j \in 1..(k - 1) :
                            ~f.rows[j].empty => Key(f, f.rows[j]) # Key(f, f.rows[k])}
    IN  {[key |-> Key(f, f.rows[k]), type |-> f.rows[k].type,
          path |-> PathOf(f.rows[k]), rate |-> RatePlan(f.rows[k])] : k \in firsts}

-----------------------------------------------------------------------------
(* Export.                                                                     *)

\* category_columns: nothing for a category that is gone.
Columns(category) ==
    IF category \notin Live THEN <<>>
    ELSE IF tree[category].parent = None THEN <<name[category]>>
    ELSE <<name[tree[category].parent], name[category]>>

\* to_csv_row, as the rows of the file are read again.
ExportedRow(t) ==
    LET path == Columns(t.category) IN
    [empty |-> FALSE, day |-> t.key[1], amount |-> t.key[2], currency |-> t.key[3],
     type |-> t.type, text |-> t.key[4],
     parent |-> IF Len(path) = 2 THEN path[1] ELSE None,
     category |-> IF path = <<>> THEN None ELSE Last(path),
     mapped |-> None,
     native |-> [newer |-> FALSE, variant |-> t.rate, formula |-> TRUE,
                 origin |-> IF t.rate = "manual" THEN "manual" ELSE "supplied",
                 decimal |-> t.rate # "pending"]]

\* export_transactions_csv.
Export ==
    /\ ledger # {} /\ Cardinality(ledger) <= MaxTransactions
    /\ exported' = [NoFile EXCEPT !.rows = SetToSeq({ExportedRow(t) : t \in ledger})]
    /\ exported' # exported
    /\ UNCHANGED <<vars, ledger, preview>>

-----------------------------------------------------------------------------
(* Preview and commit.                                                         *)

Preview(r, f) ==
    LET c == Classified(f) IN
    /\ preview[r].pc = "idle" /\ Readable(f) /\ f.rows # <<>>
    /\ preview' = [preview EXCEPT ![r] =
          [pc |-> "previewed", rows |-> c.rows, results |-> c.results,
           categories |-> c.categories, promised |-> Promised(f), blocked |-> Blocked(c.results)]]
    /\ UNCHANGED <<vars, ledger, exported>>

\* The roots of what is inserted come first (insert_import_categories).
RootsFirst(categories) ==
    LET IsRootEntry(e) == e.parent = None
        IsChildEntry(e) == e.parent # None
    IN  SelectSeq(categories, IsRootEntry) \o SelectSeq(categories, IsChildEntry)

\* Mutant: a row keeps the identity the preview gave its category.
PlannedCategory(w, row) == row.category

\* id_remap: the category that stands for the placeholder of a row.
MappedCategory(w, row) ==
    IF row.category \in DOMAIN w.remap THEN w.remap[row.category] ELSE row.category

\* filter_import_duplicates, against the ledger of now.
NewRows(rows) == {row \in ToSet(rows) : row.key \notin LedgerKeys}

\* apply_import_rate; published: whether the provider has a quote for the row.
RateOf(row, published) ==
    IF row.rate # "lookup" THEN row.rate
    ELSE IF row.key[3] = Default THEN "identity"
    ELSE IF published THEN "automatic" ELSE "pending"

\* restore_automatic_rate: the evidence is gone, and the import with it.
Unproven(rows, published) == ~published /\ \E row \in rows : row.rate = "automatic"

\* commit_bound_import: everything or nothing.  A preview that fails is kept.
CommitBound(r) ==
    LET p == preview[r]
        w == Inserted(RootsFirst(p.categories))
        rows == NewRows(p.rows)
    IN
    /\ p.pc \in {"previewed", "failed"} /\ ~p.blocked
    /\ \E published \in BOOLEAN :
          IF w.failed \/ Unproven(rows, published)
          THEN /\ preview' = [preview EXCEPT ![r].pc = IF w.failed THEN "failed" ELSE @]
               /\ UNCHANGED <<tree, name, ledger>>
          ELSE /\ tree' = w.tree /\ name' = w.name
               /\ ledger' = ledger \cup
                    {[key |-> row.key, type |-> row.type, category |-> MappedCategory(w, row),
                      rate |-> RateOf(row, published)] : row \in rows}
               /\ preview' = [preview EXCEPT ![r] = [NotPreviewed EXCEPT !.pc = "done"]]
    /\ UNCHANGED <<import, edits, exported>>

\* A transaction recorded or deleted by hand meanwhile.
RecordTransaction(k, category) ==
    /\ Cardinality(ledger) < MaxTransactions
    /\ category \in Live \cup {None}
    /\ ledger' = ledger \cup
          {[key |-> k, type |-> "expense", category |-> category,
            rate |-> IF k[3] = Default THEN "identity" ELSE "manual"]}
    /\ Edit
    /\ UNCHANGED <<tree, name, preview, exported>>

DeleteTransaction(t) ==
    /\ t \in ledger
    /\ ledger' = ledger \ {t}
    /\ Edit
    /\ UNCHANGED <<tree, name, preview, exported>>

\* delete_categories takes the category off its transactions.
Uncategorised ==
    {[t EXCEPT !.category = IF @ # None /\ @ \in Live /\ ~tree'[@].live THEN None ELSE @] :
        t \in ledger}

EditCategories ==
    /\ CategoryNext
    /\ ledger' = Uncategorised
    /\ UNCHANGED <<preview, exported>>

FileNext ==
    \/ EditCategories
    \/ \E r \in Readers, f \in Files \cup {exported} : Preview(r, f)
    \/ \E r \in Readers : CommitBound(r)
    \/ \E f \in Files, category \in Categories \cup {None} :
          \E k \in CandidateKeys(f) : RecordTransaction(k, category)
    \/ \E t \in ledger : DeleteTransaction(t)
    \/ Export

FileSpec == FileInit /\ [][FileNext]_allVars

-----------------------------------------------------------------------------
(* Properties.                                                                 *)

\* Transaction t is what the file promised.
Keeps(t, promise) ==
    /\ t.key = promise.key /\ t.type = promise.type
    /\ Columns(t.category) = promise.path
    /\ promise.rate # "lookup" => t.rate = promise.rate

\* An import inserts a transaction for every row that has none, and for nothing
\* else, and each with the type, the rate and the categories its row names: whatever
\* happened to the categories and to the ledger since the preview, and although the
\* identities of the preview stand for other categories by then.  For a file Zai
\* exported it is the round trip (full-fidelity transaction export).
RowsArriveAsRead ==
    [][\A r \in Readers :
        (preview[r].pc # "done" /\ preview'[r].pc = "done") =>
            /\ \A promise \in preview[r].promised :
                  \/ promise.key \in LedgerKeys
                  \/ \E t \in ledger' : t \notin ledger /\ Keeps(t, promise)'
            /\ \A t \in ledger' \ ledger :
                  t.key \notin LedgerKeys /\ \E promise \in preview[r].promised : Keeps(t, promise)']_allVars

\* The commit of a preview without invalid rows is not refused for its categories:
\* the identities of the preview are placeholders, replaced at the commit.
UnblockedImportCommits == \A r \in Readers : preview[r].pc # "failed"
==============================================================================
