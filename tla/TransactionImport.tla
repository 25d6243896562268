-------------------------- MODULE TransactionImport --------------------------
(* A bound import: a preview is classified against the ledger, prepared by a  *)
(* currency job, kept in memory under a token, and committed in one           *)
(* transaction while its binding still holds.                                 *)
(*   crates/core/src/features/transactions/{import_service,import_preview}.rs *)
(*   crates/db/src/transactions/{import,import_dedup}.rs                      *)
(*                                                                            *)
(* A preview is a currency job, so this module extends CurrencyJobs: the two  *)
(* share the jobs table, the drives and the ledger.                           *)
EXTENDS CurrencyJobs

CONSTANTS
    Files,       \* digests of the files a user may import
    RowsOf,      \* [Files -> SUBSET Keys]: the importable rows, by duplicate key
    Invalid      \* files that also hold an invalid row

ASSUME ImportAssumption == RowsOf \in [Files -> SUBSET Keys] /\ Invalid \subseteq Files

VARIABLES
    store,       \* TransactionImportService.store: previews by token, in memory
    draft,       \* what each request of the import service has read so far
    imported     \* rows inserted by imports, per duplicate key

importVars == <<store, draft, imported>>
vars == <<jobVars, importVars>>

NoDraft == [file |-> Nil, rows |-> {}, prepare |-> {}, revision |-> 0, proof |-> 0, token |-> 0]

-----------------------------------------------------------------------------
(* Classification.                                                            *)

\* find_existing_duplicate_keys.
ExistingKeys == {k \in Keys : ledger[k] > 0}

\* classify_row: a key already in the ledger, or seen before in the file, is an
\* explicit skip; what is left is to be imported.
ImportableRows(f) == RowsOf[f] \ ExistingKeys

\* currency_preparations: absent codes are added and disabled ones enabled again.
\* (needs_backfill never holds: list_persisted reports no missing period.)
PrepAction(c) ==
    CASE currency[c] = "absent" -> "add"
      [] currency[c] = "disabled" -> "reEnable"
      [] OTHER -> "alreadyEnabled"

\* currencies_to_enable.
CurrenciesToEnable(rows) ==
    {c \in {CurrencyOf[k] : k \in rows} : PrepAction(c) # "alreadyEnabled"}

\* currencies_needing_provider.
ProviderCodes(prepare) == {c \in prepare : NeedsProvider(c)}

\* binding_for: the revision of the default and the accepted set; the digest is
\* the file itself.
BindingMatches(b) == b.revision = settings.revision /\ b.proof = accepted

\* prune_terminal_previews: previews whose job failed or was cancelled.
Pruned == [t \in {s \in DOMAIN store : jobs[s].status \notin {"failed", "cancelled"}} |-> store[t]]

-----------------------------------------------------------------------------
ImportInit == Init /\ store = <<>> /\ draft = [u \in Clients |-> NoDraft] /\ imported = [k \in Keys |-> 0]

\* Tokens are job identities; the store is a function on the tokens it holds.
Without(token) == [t \in DOMAIN store \ {token} |-> store[t]]

\* preview: one reading pass, up to the disclosure.
Preview(u, f, confirm) ==
    LET rows == ImportableRows(f)
        prepare == CurrenciesToEnable(rows)
    IN
    /\ At(u, "idle")
    /\ settings.setup
    /\ RoomForJob
    /\ ProviderCodes(prepare) # {} => settings.disclosure \/ confirm
    /\ store' = Pruned
    /\ draft' = [draft EXCEPT ![u] =
          [file |-> f, rows |-> rows, prepare |-> prepare,
           revision |-> settings.revision, proof |-> accepted, token |-> 0]]
    /\ Become(u, [Idle EXCEPT !.type = "preview",
          !.pc = IF confirm /\ ProviderCodes(prepare) # {} THEN "disclose" ELSE "insert"])
    /\ UNCHANGED <<coreVars, crashes, imported>>

\* The preview is stored under its job's identity; without a provider currency
\* the request drives it itself, otherwise a drive is spawned.
StorePreview(u) ==
    LET token == proc[u].job IN
    /\ At(u, "store")
    /\ store' = [t \in DOMAIN store \cup {token} |->
                    IF t = token THEN [draft[u] EXCEPT !.token = token] ELSE store[t]]
    /\ draft' = [draft EXCEPT ![u].token = token]
    /\ Goto(u, IF ProviderCodes(draft[u].prepare) = {} THEN "previewDrive" ELSE "spawn")
    /\ UNCHANGED <<coreVars, crashes, imported>>

\* The request gives up on its own preview when driving it fails.
Abandon(p) ==
    store' = IF p \in Clients THEN Without(draft[p].token) ELSE store

\* drive_running_preview reads the running job, which may be another's by now.
DriveRunningPreview(p) ==
    LET j == RunningJob IN
    /\ At(p, "previewDrive")
    /\ IF j = 0 \/ (j # 0 /\ jobs[j].type # "preview")
       THEN Finish(p) /\ Abandon(p)
       ELSE /\ Become(p, [Idle EXCEPT !.pc = "previewStage", !.type = "preview", !.job = j])
            /\ UNCHANGED store
    /\ UNCHANGED <<coreVars, crashes, draft, imported>>

\* stage_current = 1, again over whatever the row had become.
WritePreviewStage(p) ==
    LET j == proc[p].job IN
    /\ At(p, "previewStage")
    /\ \/ /\ ~UpdateRefused(j, "running")
          /\ UpdateRow(j, "running")
          /\ Goto(p, "previewProve")
          /\ UNCHANGED store
       \/ /\ UpdateRefused(j, "running")
          /\ UNCHANGED jobs
          /\ Finish(p)
          /\ Abandon(p)
    /\ UNCHANGED <<settings, currency, generations, head, accepted, ledger, crashes, draft, imported>>

\* A preview that is not in memory (the process ended since) is not found and
\* its job stays as it is; otherwise the coverage of its currencies decides.
ProvePreview(p) ==
    LET j == proc[p].job IN
    /\ At(p, "previewProve")
    /\ IF j \notin DOMAIN store
       THEN Finish(p) /\ Abandon(p)
       ELSE /\ Goto(p, IF \A c \in ProviderCodes(store[j].prepare) : Covered(c)
                       THEN "mark" ELSE "previewFail")
            /\ UNCHANGED store
    /\ UNCHANGED <<coreVars, crashes, draft, imported>>

\* fail_job, then the preview is dropped.
FailPreview(p) ==
    /\ At(p, "previewFail")
    /\ UpdateRow(proc[p].job, "failed")
    /\ store' = Without(proc[p].job)
    /\ Finish(p)
    /\ UNCHANGED <<settings, currency, generations, head, accepted, ledger, crashes, draft, imported>>

\* commit, up to its transaction: the preview is complete, bound to the present
\* default and rate set, and has no invalid row.
Commit(u, token) ==
    /\ At(u, "idle")
    /\ settings.setup
    /\ token \in DOMAIN Pruned
    /\ jobs[token].status = "succeeded"
    /\ BindingMatches(store[token])
    /\ store[token].file \notin Invalid
    /\ store' = Pruned
    /\ draft' = [draft EXCEPT ![u] = store[token]]
    /\ Become(u, [Idle EXCEPT !.pc = "commit", !.job = token])
    /\ UNCHANGED <<coreVars, crashes, imported>>

\* Mutant: the rows chosen at the preview are inserted as they are.
NewRowsUnchecked(rows) == rows

\* filter_import_duplicates, inside the transaction, against the live rows.
NewRows(rows) == rows \ ExistingKeys

\* commit_bound_import: coverage, currencies, rows and their valuations in one
\* transaction, after which the token is spent.
CommitBoundImport(u) ==
    LET rows == NewRows(draft[u].rows)
        add(f) == [k \in Keys |-> IF k \in rows THEN f[k] + 1 ELSE f[k]]
    IN
    /\ At(u, "commit")
    /\ IF \A c \in draft[u].prepare : Covered(c)
       THEN /\ currency' = [c \in Currencies |->
                              IF c \in draft[u].prepare THEN "enabled" ELSE currency[c]]
            /\ ledger' = add(ledger)
            /\ imported' = add(imported)
            /\ generations' = [generations EXCEPT ![head].valued = add(@)]
            /\ store' = Without(proc[u].job)
       ELSE UNCHANGED <<currency, ledger, imported, generations, store>>
    /\ Finish(u)
    /\ draft' = [draft EXCEPT ![u] = NoDraft]
    /\ UNCHANGED <<settings, jobs, head, accepted, crashes>>

-----------------------------------------------------------------------------
ImportRequest(u) ==
    \/ \E f \in Files, confirm \in BOOLEAN : Preview(u, f, confirm)
    \/ \E t \in DOMAIN store : Commit(u, t)

PreviewStep(p) ==
    \/ DriveRunningPreview(p)
    \/ WritePreviewStage(p)
    \/ ProvePreview(p)
    \/ FailPreview(p)

ImportRespond(u) ==
    \/ StorePreview(u)
    \/ PreviewStep(u)
    \/ CommitBoundImport(u)

\* A restart forgets every preview.
RestartForgets(d) ==
    /\ Restart(d)
    /\ store' = <<>>
    /\ draft' = [u \in Clients |-> NoDraft]
    /\ UNCHANGED imported

Next ==
    \/ \E u \in Clients : Request(u) /\ UNCHANGED importVars
    \/ \E u \in Clients : Respond(u) /\ UNCHANGED importVars
    \/ \E u \in Clients : ImportRequest(u) \/ ImportRespond(u)
    \/ \E d \in Drives : Drive(d) /\ UNCHANGED importVars
    \/ \E d \in Drives : PreviewStep(d) \/ RestartForgets(d)
    \/ \E k \in Keys : RecordTransaction(k) /\ UNCHANGED importVars
    \/ SupervisorRefresh /\ UNCHANGED importVars

ImportFairness ==
    /\ \A u \in Clients : WF_vars(Respond(u) /\ UNCHANGED importVars) /\ WF_vars(ImportRespond(u))
    /\ \A d \in Drives : WF_vars(Drive(d) /\ UNCHANGED importVars) /\ WF_vars(PreviewStep(d))

Spec == ImportInit /\ [][Next]_vars /\ ImportFairness

-----------------------------------------------------------------------------
(* Properties.                                                                *)

\* A running job is never abandoned while the one-job index keeps every other
\* currency job out: some process will still write its end, across cancelled
\* and repeated drives, lost races for the index and restarts.  The exception
\* is a preview the process forgot when it ended: nobody finds it in the store,
\* and its job stays running until the user cancels it.
RunningJobIsDriven ==
    \A j \in RunningJobs :
        \/ \E p \in Procs : Driver(j, p)
        \/ jobs[j].type = "preview" /\ j \notin DOMAIN store

\* An import never inserts a row the ledger already holds, whatever was recorded
\* or imported between its preview and its commit, and even when one token is
\* committed twice at the same time: the duplicates are looked for again inside
\* the transaction that inserts.
ImportsOnlyNewRows ==
    [][\A k \in Keys : imported'[k] > imported[k] => ledger[k] = 0 /\ imported'[k] = imported[k] + 1]_vars

=============================================================================
