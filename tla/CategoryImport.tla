---------------------------- MODULE CategoryImport ----------------------------
(* Imports of categories, planned against a reading of the categories and      *)
(* inserted later, while others edit and import.                               *)
(*   crates/core/src/features/transaction_categories/service.rs                *)
(*   crates/db/src/transaction_categories/{import,validation}.rs               *)
(*                                                                             *)
(* A name stands for its trimmed, lower-case form.  The checks the service     *)
(* makes before it hands a single edit to the writer are made again inside the *)
(* transaction, so an edit is one step here; an import's plan is not made      *)
(* again, and is a step of its own.                                            *)
EXTENDS CategoryTree, Sequences, SequencesExt

CONSTANTS
    Names,
    Importers,      \* requests that import, each once
    Payloads,       \* what they import: sequences of [id, parent, name, role]
    Uuids,          \* identities of a payload the service keeps
    Minted,         \* [Importers -> sequence of the identities made for its entries]
    Created,        \* identities of the categories created one by one
    Existing,       \* a root at the beginning
    MaxEdits        \* bound on the edits

ASSUME CategoryImportAssumption ==
    /\ Created \cup {Existing} \subseteq Categories
    /\ MaxEdits \in Nat

VARIABLES
    name,           \* of each category
    import,         \* of each importer: what it has planned, and whether it may fail:
                    \* for an edit since, or an identity of another category
    edits

vars == <<tree, name, import, edits>>

Waiting == [pc |-> "idle", payload |-> <<>>, rows |-> <<>>, excused |-> FALSE]

Init ==
    /\ tree = [c \in Categories |->
                  IF c = Existing THEN [parent |-> None, role |-> "income", live |-> TRUE] ELSE None]
    /\ name \in [Categories -> {CHOOSE n \in Names : TRUE}]
    /\ import = [i \in Importers |-> Waiting]
    /\ edits = 0

-----------------------------------------------------------------------------
(* The plan of the service.                                                    *)

RootNamed(n) == {r \in Roots : name[r] = n}

\* is_root_category.
RootEntries(p) == {k \in DOMAIN p : p[k].parent = None}

\* The first root of the payload with the name of the k-th (imported_root_keys).
Namesake(p, k) == Min({j \in RootEntries(p) : p[j].name = p[k].name})

\* is_valid_uuid, or an identity of the service's own.
IdOf(i, p, k) == IF p[k].id \in Uuids THEN p[k].id ELSE Minted[i][k]

RootId(i, p, k) ==
    LET existing == RootNamed(p[k].name)
    IN  IF existing # {} THEN CHOOSE r \in existing : TRUE ELSE IdOf(i, p, Namesake(p, k))

\* root_id_by_original_id, where the last entry of an identity counts.
ParentEntries(p, k) == {j \in RootEntries(p) : p[j].id # None /\ p[j].id = p[k].parent}

ParentId(i, p, k) ==
    IF ParentEntries(p, k) # {} THEN RootId(i, p, Max(ParentEntries(p, k))) ELSE p[k].parent

\* A child comes with its root, or belongs to a root there is.
Plannable(p) ==
    \A k \in DOMAIN p \ RootEntries(p) : ParentEntries(p, k) # {} \/ p[k].parent \in Roots

\* root_role_by_resolved_id, as the service has read it.
RoleOf(i, p, k) ==
    IF k \in RootEntries(p) THEN p[k].role
    ELSE IF ParentId(i, p, k) \in Roots THEN tree[ParentId(i, p, k)].role
    ELSE p[Namesake(p, Max(ParentEntries(p, k)))].role

NewRoot(p, k) == k \in RootEntries(p) /\ RootNamed(p[k].name) = {} /\ Namesake(p, k) = k

\* existing_child_paths and imported_child_paths.
NewChild(i, p, k) ==
    /\ k \notin RootEntries(p)
    /\ \A c \in Children({ParentId(i, p, k)}) : name[c] # p[k].name
    /\ \A j \in 1..(k - 1) \ RootEntries(p) :
          <<ParentId(i, p, j), p[j].name>> # <<ParentId(i, p, k), p[k].name>>

\* import_categories: roots first; what exists is not imported again.
Plan(i, p) ==
    LET row(k) == [id     |-> IdOf(i, p, k),
                   parent |-> IF k \in RootEntries(p) THEN None ELSE ParentId(i, p, k),
                   name   |-> p[k].name,
                   role   |-> RoleOf(i, p, k)]
        entries == [k \in DOMAIN p |-> k]
        kept == SelectSeq(entries, LAMBDA k : NewRoot(p, k))
                  \o SelectSeq(entries, LAMBDA k : NewChild(i, p, k))
    IN  [j \in DOMAIN kept |-> row(kept[j])]

-----------------------------------------------------------------------------
(* The insertion, one row after the other (insert_import_categories).          *)

Start == [tree |-> tree, name |-> name, remap |-> <<>>, failed |-> FALSE]

Siblings(w, parent, n) ==
    {c \in Categories : /\ w.tree[c] # None /\ w.tree[c].live
                        /\ w.tree[c].parent = parent /\ w.name[c] = n}

\* ImportValidationState.resolve_parent.
IsParentIn(w, parent) ==
    parent # None =>
        w.tree[parent] # None /\ w.tree[parent].live /\ w.tree[parent].parent = None

\* Mutant: children go under the identity the payload gave their root.
PlannedParent(w, row) == row.parent

\* id_remap: the identity that stands for the parent the row was planned under.
MappedParent(w, row) == IF row.parent \in DOMAIN w.remap THEN w.remap[row.parent] ELSE row.parent

\* Mutant: the role the row was planned with.
PlannedRole(w, parent, row) == row.role

\* apply_resolved_parent: the role of the parent as it is by now.
ResolvedRole(w, parent, row) == IF parent = None THEN row.role ELSE w.tree[parent].role

\* A sibling of the name takes the place of the row and of its identity; the
\* identity of a deleted category is refused by the primary key.
Inserting(w, row) ==
    LET parent == MappedParent(w, row)
        siblings == Siblings(w, parent, row.name)
    IN  IF w.failed THEN w
        ELSE IF siblings # {}
        THEN [w EXCEPT !.remap = (row.id :> CHOOSE c \in siblings : TRUE) @@ @]
        ELSE IF ~IsParentIn(w, parent) \/ w.tree[row.id] # None
        THEN [w EXCEPT !.failed = TRUE]
        ELSE [w EXCEPT
                !.tree[row.id] = [parent |-> parent, role |-> ResolvedRole(w, parent, row), live |-> TRUE],
                !.name[row.id] = row.name,
                !.remap = (row.id :> row.id) @@ @]

Inserted(rows) == FoldLeft(Inserting, Start, rows)

Insert(rows) ==
    LET w == Inserted(rows)
    IN  IF w.failed THEN UNCHANGED <<tree, name>> ELSE tree' = w.tree /\ name' = w.name

-----------------------------------------------------------------------------
PlanImport(i, p) ==
    /\ import[i].pc = "idle"
    /\ Plannable(p)
    /\ import' = [import EXCEPT ![i] =
          [pc |-> "planned", payload |-> p, rows |-> Plan(i, p),
           excused |-> \E j \in DOMAIN Plan(i, p) : tree[Plan(i, p)[j].id] # None]]
    /\ UNCHANGED <<tree, name, edits>>

\* All imports under way are excused.
Excused == [i \in Importers |-> [import[i] EXCEPT !.excused = @ \/ import[i].pc = "planned"]]

\* What an excused import inserts may be in the way of the others.
CommitImport(i) ==
    /\ import[i].pc = "planned"
    /\ Insert(import[i].rows)
    /\ import' = [(IF import[i].excused THEN Excused ELSE import) EXCEPT
                      ![i] = [Waiting EXCEPT !.pc = "done"]]
    /\ UNCHANGED edits

\* An edit, of which the imports under way know nothing.
Edit ==
    /\ edits < MaxEdits /\ edits' = edits + 1
    /\ import' = Excused

\* ensure_unique_sibling_name.
NameIsFree(p, n, c) == \A s \in Live \ {c} : tree[s].parent = p => name[s] # n

CreateCategory(c, p, n, role) ==
    /\ c \in Created
    /\ MayCreate(c, p) /\ NameIsFree(p, n, c)
    /\ tree' = [tree EXCEPT ![c] = Placed(p, role, TRUE)]
    /\ name' = [name EXCEPT ![c] = n]
    /\ Edit

UpdateCategory(c, p, n, role) ==
    /\ MayPlace(c, p) /\ NameIsFree(p, n, c)
    /\ tree' = Updated(c, p, role)
    /\ name' = [name EXCEPT ![c] = n]
    /\ Edit

\* A promoted child that finds its name among the roots fails the deletion
\* (transaction_categories_root_name_unique).
NamesDiffer(w) ==
    \A c, d \in Categories :
        (c # d /\ w[c] # None /\ w[d] # None /\ w[c].live /\ w[d].live
            /\ w[c].parent = w[d].parent) => name[c] # name[d]

DeleteCategory(c, strategy) ==
    /\ c \in Live
    /\ MayDelete({c}, strategy)
    /\ NamesDiffer([Removed({c}, strategy) EXCEPT ![c] = None])
    /\ tree' = Removed({c}, strategy)
    /\ Edit /\ UNCHANGED name

CategoryNext ==
    \/ \E i \in Importers, p \in Payloads : PlanImport(i, p)
    \/ \E i \in Importers : CommitImport(i)
    \/ \E c \in Categories, p \in Categories \cup {None}, n \in Names, role \in Roles :
          CreateCategory(c, p, n, role) \/ UpdateCategory(c, p, n, role)
    \/ \E c \in Categories, strategy \in Strategies : DeleteCategory(c, strategy)

Spec == Init /\ [][CategoryNext]_vars

-----------------------------------------------------------------------------
(* Properties.                                                                 *)

\* The path an entry of payload p names.
HasPath(p, k) ==
    LET roots == ParentEntries(p, k) IN
    \E c \in Live : /\ name[c] = p[k].name
                    /\ IF k \in RootEntries(p) THEN c \in Roots
                       ELSE IF roots # {}
                       THEN tree[c].parent \in RootNamed(p[Max(roots)].name)
                       ELSE tree[c].parent = p[k].parent

\* An import planned before other imports inserted roots and children of the same
\* names still brings every path of its payload: it neither fails nor hangs a child
\* under a root it did not insert.  Only an edit in between, or an identity taken
\* before, may fail it.
ImportsMeet ==
    [][\A i \in Importers :
        (/\ import[i].pc = "planned" /\ import'[i].pc = "done"
         /\ ~import[i].excused)
            => \A p \in {import[i].payload} : \A k \in DOMAIN p : HasPath(p, k)']_vars
=============================================================================
