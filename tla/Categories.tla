------------------------------ MODULE Categories ------------------------------
(***************************************************************************)
(* The category tree (core/category over category_repository.go): parent   *)
(* links plus the nested-set bounds the listings are ordered by.  Create,  *)
(* Delete, Move and RebuildAll list every row in a transaction, rebuild    *)
(* the bounds and write every listed row back, parent included; the        *)
(* transactions are READ COMMITTED and lock no row before they write it,   *)
(* so what is written may come from an older list.  Update writes one row, *)
(* parent included, from an earlier read.                                  *)
(*                                                                         *)
(* Names are equal and ids ordered, so siblings are told apart by          *)
(* sort_order and then by id; slugs, texts and images are left out.        *)
(***************************************************************************)
EXTENDS Naturals, FiniteSets, SequencesExt

CONSTANTS MaxCats,     \* bound: categories; ids are 1..MaxCats, 0 is no category
          CatCalls,    \* overlapping requests
          MaxCatOps    \* bound: requests made

ASSUME CategoriesAssumption == {MaxCats, MaxCatOps} \subseteq Nat

VARIABLES cat,     \* categories
          filed,   \* categories some post is filed under
          ccall,   \* the requests in progress
          catOps

catVars == <<cat, filed, ccall, catOps>>

Cats == 1..MaxCats
NoCat == 0
CatRow == [in : BOOLEAN, parent : 0..MaxCats, lft : Nat, rgt : Nat, depth : Nat, sort : Nat]
NoCatRow == [in |-> FALSE, parent |-> 0, lft |-> 0, rgt |-> 0, depth |-> 0, sort |-> 0]
CatCall == [pc : {"idle", "checked", "listed", "read"}, op : {"none", "create", "delete", "move", "rebuild", "update"},
            id : 0..MaxCats, parent : 0..MaxCats, before : 0..MaxCats, list : [Cats -> CatRow]]
NoCatCall == [pc |-> "idle", op |-> "none", id |-> 0, parent |-> 0, before |-> 0, list |-> [i \in Cats |-> NoCatRow]]

CatTypeOK ==
  /\ cat \in [Cats -> CatRow] /\ filed \subseteq Cats
  /\ ccall \in [CatCalls -> CatCall] /\ catOps \in 0..MaxCatOps

-----------------------------------------------------------------------------
(* siblingOrder: by sort_order, then (names being equal) by id.            *)
Before(rows, i, j) == rows[i].sort < rows[j].sort \/ (rows[i].sort = rows[j].sort /\ i < j)

Siblings(rows, p) == {i \in Cats : rows[i].in /\ rows[i].parent = p}

(* applyBefore: the siblings under p are numbered again, i before b.       *)
BeforeFits(rows, i, p, b) == b # NoCat => b # i /\ b \in Siblings(rows, p)

ApplyBefore(rows, i, p, b) ==
  LET others   == Siblings(rows, p) \ {i}
      after(j) == b # NoCat /\ (j = b \/ Before(rows, b, j))
      place(j) == IF j = i THEN Cardinality({x \in others : ~after(x)})
                  ELSE Cardinality({x \in others : Before(rows, x, j)}) + (IF after(j) THEN 1 ELSE 0)
  IN [j \in Cats |-> IF j = i \/ j \in others THEN [rows[j] EXCEPT !.sort = place(j)] ELSE rows[j]]

(* rebuildBounds, with the recursion of walk unrolled: w.at is the         *)
(* category whose children are walked, w.next the counter, w.out the rows  *)
(* walked so far; rgt is 0 until the walk leaves the category.             *)
Walked(w) == {i \in Cats : w.out[i].in}

Enter(w, rows, i) ==
  [next |-> w.next + 1,
   at   |-> i,
   out  |-> [w.out EXCEPT ![i] =
              [in |-> TRUE, parent |-> w.at, lft |-> w.next, rgt |-> 0,
               depth |-> IF w.at = NoCat THEN 0 ELSE w.out[w.at].depth + 1,
               sort |-> Cardinality(Siblings(w.out, w.at))]]]

Leave(w) == [next |-> w.next + 1, at |-> w.out[w.at].parent, out |-> [w.out EXCEPT ![w.at].rgt = w.next]]

WalkStep(w, rows) ==
  LET left == Siblings(rows, w.at) \ Walked(w)
  IN  IF left # {} THEN Enter(w, rows, CHOOSE i \in left : \A j \in left \ {i} : Before(rows, i, j))
      ELSE IF w.at # NoCat THEN Leave(w) ELSE w

WalkStart == [next |-> 1, at |-> NoCat, out |-> [i \in Cats |-> NoCatRow]]

(* The walk from the roots enters and leaves each row it meets: those on a *)
(* cycle of parents are not met and not written.                           *)
RebuildBounds(rows) == FoldLeft(WalkStep, WalkStart, [k \in 1..2 * MaxCats |-> rows]).out

(* The parents above i, as isDescendant follows them: the smallest set     *)
(* with the parent of i and of each of its own.  On a cycle that does not  *)
(* hold the moved category its loop never ends.                            *)
Ancestors(rows, i) ==
  {j \in Cats : \A S \in SUBSET Cats : (\A x \in S \cup {i} : rows[x].parent \in S \cup {NoCat}) => j \in S}
IsChild(rows, i, p) == p # NoCat /\ rows[p].parent = i
IsDescendant(rows, i, p) == p # NoCat /\ i \in Ancestors(rows, p)
NeverReturns(rows, i, p) == p # NoCat /\ i \notin Ancestors(rows, p) /\ \E j \in Ancestors(rows, p) : j \in Ancestors(rows, j)

(* No categories are each below another of them.                           *)
Acyclic(rows) == \A S \in (SUBSET Cats) \ {{}} : \E i \in S : rows[i].parent \notin S

(* Init: any tree these operations built, no request in progress.          *)
RowUnder(b, p) == [NoCatRow EXCEPT !.in = b, !.parent = p]
RowsUnder(present, parent) == [i \in Cats |-> RowUnder(i \in present, parent[i])]

CatInit ==
  /\ \E present \in SUBSET Cats, parent \in [Cats -> 0..MaxCats] :
       /\ \A i \in Cats : parent[i] # NoCat => {i, parent[i]} \subseteq present
       /\ Acyclic(RowsUnder(present, parent)) /\ cat = RebuildBounds(RowsUnder(present, parent))
  /\ filed = {} /\ ccall = [c \in CatCalls |-> NoCatCall] /\ catOps = 0

-----------------------------------------------------------------------------
(* Requests: validated outside the transaction.                            *)
StartCat(c, op, i, p, b) ==
  /\ ccall[c].pc = "idle" /\ catOps < MaxCatOps /\ catOps' = catOps + 1
  /\ ccall' = [ccall EXCEPT ![c] = [NoCatCall EXCEPT !.pc = "checked", !.op = op, !.id = i, !.parent = p, !.before = b]]

(* validateParentAndBefore                                                 *)
PlaceIsValid(p, b) == (p # NoCat => cat[p].in) /\ (b # NoCat => cat[b].in /\ cat[b].parent = p)

CreateCategory(c) ==
  /\ \E i \in Cats, p, b \in 0..MaxCats :
       /\ ~cat[i].in /\ (\A d \in CatCalls : ccall[d].id # i) /\ PlaceIsValid(p, b)
       /\ StartCat(c, "create", i, p, b)
  /\ UNCHANGED <<cat, filed>>

MoveCategory(c) ==
  /\ \E i \in Cats, p, b \in 0..MaxCats : p # i /\ PlaceIsValid(p, b) /\ StartCat(c, "move", i, p, b)
  /\ UNCHANGED <<cat, filed>>

DeleteCategory(c) ==
  /\ \E i \in Cats \ filed : (\A j \in Cats : cat[j].in => cat[j].parent # i) /\ StartCat(c, "delete", i, 0, 0)
  /\ UNCHANGED <<cat, filed>>

RebuildAll(c) == StartCat(c, "rebuild", 0, 0, 0) /\ UNCHANGED <<cat, filed>>

(* The transaction lists the rows; Delete removes its row first, and its   *)
(* children and posts keep no reference to it (ON DELETE SET NULL).        *)
Removed(rows, i) ==
  [j \in Cats |-> IF j = i THEN NoCatRow ELSE IF rows[j].parent = i THEN [rows[j] EXCEPT !.parent = NoCat] ELSE rows[j]]

ListCategories(c) ==
  /\ ccall[c].pc = "checked"
  /\ ccall' = [ccall EXCEPT ![c].pc = "listed",
                 ![c].list = IF ccall[c].op = "delete" THEN Removed(cat, ccall[c].id) ELSE cat]
  /\ UNCHANGED <<cat, filed, catOps>>

NewCategory(p) == [NoCatRow EXCEPT !.in = TRUE, !.parent = p]

(* What the transaction computes from its list; no result is an error that *)
(* rolls it back.                                                          *)
Planned(c) ==
  LET q == ccall[c]
      placed(rows) == IF BeforeFits(rows, q.id, q.parent, q.before)
                      THEN {RebuildBounds(ApplyBefore(rows, q.id, q.parent, q.before))} ELSE {}
  IN CASE q.op = "create" -> IF q.parent # NoCat => cat[q.parent].in
                             THEN placed([q.list EXCEPT ![q.id] = NewCategory(q.parent)]) ELSE {}
       [] q.op = "move" -> IF /\ q.list[q.id].in /\ cat[q.id].in /\ (q.parent # NoCat => cat[q.parent].in)
                              /\ ~IsDescendant(q.list, q.id, q.parent) /\ ~NeverReturns(q.list, q.id, q.parent)
                           THEN placed([q.list EXCEPT ![q.id].parent = q.parent]) ELSE {}
       [] q.op = "delete" -> IF cat[q.id].in THEN {RebuildBounds(q.list)} ELSE {}
       [] OTHER -> {RebuildBounds(q.list)}

(* The rows with the row the transaction itself has inserted, deleted or   *)
(* given another parent (Create, Delete, Update).                          *)
Changed(c) ==
  LET q == ccall[c]
  IN CASE q.op = "create" -> [cat EXCEPT ![q.id] = NewCategory(q.parent)]
       [] q.op = "delete" -> Removed(cat, q.id)
       [] q.op = "move" -> [cat EXCEPT ![q.id].parent = q.parent]
       [] OTHER -> cat

(* ReplaceTreeBounds writes the rows of the plan that still exist; a       *)
(* parent that is gone becomes NULL in the statement.                      *)
Replaced(rows, plan) ==
  [i \in Cats |-> IF rows[i].in /\ plan[i].in
                  THEN [plan[i] EXCEPT !.parent = IF @ # NoCat /\ ~rows[@].in THEN NoCat ELSE @] ELSE rows[i]]

CommitTree(c) ==
  /\ ccall[c].pc = "listed"
  /\ \E plan \in Planned(c) : cat' = Replaced(Changed(c), plan)
  /\ filed' = IF ccall[c].op = "delete" THEN filed \ {ccall[c].id} ELSE filed
  /\ ccall' = [ccall EXCEPT ![c] = NoCatCall]
  /\ UNCHANGED catOps

(* Update: read the row, then write it back with new texts.                *)
ReadForUpdate(c) ==
  /\ ccall[c].pc = "idle" /\ catOps < MaxCatOps /\ catOps' = catOps + 1
  /\ \E i \in Cats : /\ cat[i].in
                     /\ ccall' = [ccall EXCEPT ![c] = [NoCatCall EXCEPT !.pc = "read", !.op = "update", !.id = i, !.parent = cat[i].parent]]
  /\ UNCHANGED <<cat, filed>>

UpdateCategory(c) ==
  /\ ccall[c].pc = "read"
  /\ LET i == ccall[c].id p == ccall[c].parent
     IN cat' = IF cat[i].in /\ (p # NoCat => cat[p].in) THEN [cat EXCEPT ![i].parent = p] ELSE cat
  /\ ccall' = [ccall EXCEPT ![c] = NoCatCall]
  /\ UNCHANGED <<filed, catOps>>

(* A refusal, a deadlock victim, an error or a dead process: rolled back.  *)
CatCallFails(c) ==
  /\ ccall[c].pc # "idle" /\ ccall' = [ccall EXCEPT ![c] = NoCatCall]
  /\ UNCHANGED <<cat, filed, catOps>>

(* A post is filed under a category (Posts).                               *)
FilePost(i) ==
  /\ cat[i].in /\ i \notin filed /\ filed' = filed \cup {i}
  /\ catOps < MaxCatOps /\ catOps' = catOps + 1 /\ UNCHANGED <<cat, ccall>>

CatNext ==
  \/ \E c \in CatCalls :
       \/ CreateCategory(c) \/ MoveCategory(c) \/ DeleteCategory(c) \/ RebuildAll(c)
       \/ ListCategories(c) \/ CommitTree(c) \/ ReadForUpdate(c) \/ UpdateCategory(c) \/ CatCallFails(c)
  \/ \E i \in Cats : FilePost(i)

CatSpec == CatInit /\ [][CatNext]_catVars

-----------------------------------------------------------------------------
(* Nested sets: a child's bounds lie strictly inside its parent's, one     *)
(* level deeper, siblings do not overlap and are numbered from 0.          *)
NestedSet(rows) ==
  /\ \A i \in Cats : rows[i].in => rows[i].lft < rows[i].rgt
  /\ \A i, j \in Cats : rows[i].in /\ rows[j].in /\ i # j =>
       /\ rows[i].parent = j <=> rows[j].lft < rows[i].lft /\ rows[i].rgt < rows[j].rgt /\ rows[i].depth = rows[j].depth + 1
       /\ rows[i].parent = rows[j].parent =>
            /\ rows[i].sort # rows[j].sort
            /\ rows[i].rgt < rows[j].lft \/ rows[j].rgt < rows[i].lft
            /\ rows[i].sort < rows[j].sort <=> rows[i].lft < rows[j].lft
  /\ \A i \in Cats : rows[i].in => (rows[i].parent = NoCat <=> rows[i].depth = 0)

Current(c) == ccall[c].list = IF ccall[c].op = "delete" THEN Removed(cat, ccall[c].id) ELSE cat

(* Every tree change whose list was still current leaves a proper nested   *)
(* set, whatever bounds overlapping changes or stale updates left behind:  *)
(* rebuildBounds heals the tree, and no move puts a category below itself. *)
RebuildHeals == [][\A c \in CatCalls : CommitTree(c) /\ Current(c) /\ Acyclic(cat) => NestedSet(cat')]_catVars

(* The rows keep their types and every rebuild heals the tree (Create,     *)
(* Move, Delete, RebuildAll, rebuildBounds).                               *)
CategoriesCorrect == []CatTypeOK /\ RebuildHeals
=============================================================================
