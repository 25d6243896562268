----------------------------- MODULE CategoryTree -----------------------------
(* Transaction categories: two levels, and a role children inherit.            *)
(*   crates/core/src/features/transaction_categories/service.rs                *)
(*   crates/db/src/transaction_categories/{validation,mutations,delete}.rs     *)
(*   crates/core/src/features/budgets/scope.rs                                 *)
(*                                                                             *)
(* The tree and what a write makes of it.  The writes themselves are actions   *)
(* of Budgets: each recalculates the budgets it touches in its transaction.    *)
(* Names, which only have to differ between siblings, and colours are left out.*)
EXTENDS Naturals, FiniteSets

CONSTANTS Categories, None

Roles == {"spending", "income"}

\* transaction_categories.
CategoryRow == [parent : Categories \cup {None}, role : Roles, live : BOOLEAN]

VARIABLE tree   \* the row of each category, None before the insert

Live == {c \in Categories : tree[c] # None /\ tree[c].live}
Roots == {c \in Live : tree[c].parent = None}
Children(ids) == {c \in Live : tree[c].parent \in ids}

\* resolve_parent: a parent is a live root.
IsParent(p) == p = None \/ p \in Roots

\* apply_resolved_parent: the parent's role, whatever was asked for.
Placed(p, role, live) ==
    [parent |-> p, role |-> IF p = None THEN role ELSE tree[p].role, live |-> live]

\* validate_new_category.
MayCreate(c, p) == tree[c] = None /\ IsParent(p)

\* validate_category_update: no parent for a category with children.  A deleted category
\* is found as well.
MayPlace(c, p) ==
    /\ tree[c] # None
    /\ p # c /\ IsParent(p)
    /\ p # None => Children({c}) = {}

\* update_category: the children of a root take its role.
Updated(c, p, role) ==
    [x \in Categories |->
        IF x = c THEN Placed(p, role, tree[c].live)
        ELSE IF p = None /\ x \in Children({c}) THEN [tree[x] EXCEPT !.role = role]
        ELSE tree[x]]

Strategies == {"block", "delete", "promote"}

\* ids_to_delete; "block" is an error when there are children.
Doomed(ids, strategy) == IF strategy = "delete" THEN ids \cup Children(ids) ELSE ids
MayDelete(ids, strategy) == strategy = "block" => Children(ids) = {}

\* delete_categories: the children of what was asked for become roots, then the deletion.
Removed(ids, strategy) ==
    LET promoted == IF strategy = "promote" THEN Children(ids) ELSE {}
        doomed == Doomed(ids, strategy)
    IN [x \in Categories |->
            IF x \notin promoted \cup doomed THEN tree[x]
            ELSE [tree[x] EXCEPT !.parent = IF x \in promoted THEN None ELSE @,
                                 !.live = x \notin doomed]]

-----------------------------------------------------------------------------
(* Scopes.                                                                     *)

\* The parent a live category of tree w has.
Parent(w, c) == IF w[c] # None /\ w[c].live THEN w[c].parent ELSE None

\* canonicalize_category_ids: nothing whose parent is selected too.
Canonical(w, selected) == {c \in selected : Parent(w, c) \notin selected}

\* expand_category_scope: the selected, gone or not, and the live children of theirs.
Expanded(w, selected) == selected \cup {c \in Categories : Parent(w, c) \in selected}

\* selected_or_covers.
Covers(w, selected, c) == c \in selected \/ Parent(w, c) \in selected

-----------------------------------------------------------------------------
(* Properties.                                                                 *)

\* Every live category is a root or a child of a live root, and a child has its root's
\* role: what decides whether an income is a refund is the same along a path, whatever
\* the sequence of moves, role changes, promotions and deletions.
TwoLevelsOneRole ==
    \A c \in Live : tree[c].parent # None =>
        tree[c].parent \in Roots /\ tree[c].role = tree[tree[c].parent].role
===============================================================================
