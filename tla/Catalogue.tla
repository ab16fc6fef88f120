------------------------------ MODULE Catalogue ------------------------------
(***************************************************************************)
(* The common catalogue: what administrators add to it, change and remove, *)
(* the approvals that publish a parent's puzzle in it, the categories      *)
(* puzzles are filed under, and the game a child reads from it.            *)
(*                                                                         *)
(*   internal/handler/admin.go, catalog.go, categories.go   the handlers   *)
(*   internal/store/store.go, moderation.go, parent.go      the statements *)
(*                                                                         *)
(* A handler of several statements takes a step for each.  A transaction   *)
(* takes its row locks one by one and its changes show at its COMMIT; the  *)
(* database ends one of several that wait for each other.  A statement on  *)
(* its own is one step that a lock of another transaction may hold up.     *)
(***************************************************************************)
EXTENDS Naturals, Sequences

CONSTANTS
    Puzzle,    \* bound: identifiers of puzzles, each used once
    Category,  \* bound: identifiers of categories, each used once
    Slug,      \* the slugs administrators give to categories
    Request,   \* requests that may be served at the same time
    None       \* no puzzle, no category, no request

ASSUME CatalogueAssumption ==
    /\ None \notin Puzzle \cup Category \cup Request
    /\ {"none", "deleted"} \cap Slug = {}

VARIABLES
    status,      \* puzzles.status, "none" before the INSERT, "deleted" after
    rated,       \* the puzzles whose difficulty is not NULL
    pieces,      \* the puzzles whose pieces, if any, are in puzzle_pieces
    bare,        \* the puzzles whose configuration cuts no piece at all
    public,      \* the puzzles with visibility 'public'
    category,    \* puzzles.category_id, None for NULL
    entry,       \* the puzzles with a row in catalog_puzzles
    featured,    \* the entries an administrator has featured
    submission,  \* the status in catalog_submissions, "none" without a row
    slug,        \* categories.slug, "none" before the INSERT, "deleted" after
    held,        \* the request whose transaction holds the lock of a row
    pc,          \* what each request does next
    op,          \* which handler it is in
    on,          \* its puzzle
    locked,      \* how many rows of its plan its transaction has passed
    answer       \* the pieces its response will have

puzzleVars == <<status, rated, pieces, bare, public, category>>
listVars == <<entry, featured, submission>>
requestVars == <<pc, op, on, locked, answer>>
vars == <<puzzleVars, listVars, slug, held, requestVars>>

Table == {"puzzles", "catalog_puzzles", "catalog_submissions"}
Row == Table \X Puzzle

\* An approval whose INSERT would change an entry that is already there.
PlanUpsert(o) ==
    CASE o = "update" -> <<"catalog_puzzles", "puzzles">>
      [] o = "approve" -> <<"catalog_submissions", "puzzles", "catalog_puzzles">>
      [] o \in {"remove", "delete"} ->
            <<"puzzles", "catalog_submissions", "catalog_puzzles">>
      [] OTHER -> <<>>

\* The rows of a puzzle that a transaction locks, in the order of its
\* statements; a deletion goes on with the tables that refer to the puzzle.
Plan(o) ==
    CASE o = "update" -> <<"catalog_puzzles", "puzzles">>
      [] o = "approve" -> <<"catalog_submissions", "puzzles">>
      [] o \in {"remove", "delete"} ->
            <<"puzzles", "catalog_submissions", "catalog_puzzles">>
      [] OTHER -> <<>>

TypeOK ==
    /\ status \in [Puzzle -> {"none", "processing", "ready", "failed", "deleted"}]
    /\ rated \subseteq Puzzle
    /\ pieces \subseteq Puzzle /\ bare \subseteq Puzzle
    /\ public \subseteq Puzzle
    /\ category \in [Puzzle -> Category \cup {None}]
    /\ entry \subseteq Puzzle
    /\ featured \subseteq entry
    /\ submission \in [Puzzle -> {"none", "pending", "approved"}]
    /\ slug \in [Category -> Slug \cup {"none", "deleted"}]
    /\ held \in [Row -> Request \cup {None}]
    /\ pc \in [Request -> {"idle", "lock", "read", "pieces", "layers"}]
    /\ op \in [Request -> {"get", "update", "approve", "remove", "delete"}]
    /\ on \in [Request -> Puzzle \cup {None}]
    /\ locked \in [Request -> 0..3]
    /\ answer \in [Request -> {"none", "whole", "empty"}]

Init ==
    /\ status = [p \in Puzzle |-> "none"]
    /\ rated = {}
    /\ pieces = {} /\ bare \in SUBSET Puzzle
    /\ public = {}
    /\ category = [p \in Puzzle |-> None]
    /\ entry = {}
    /\ featured = {}
    /\ submission = [p \in Puzzle |-> "none"]
    /\ slug = [c \in Category |-> "none"]
    /\ held = [w \in Row |-> None]
    /\ pc = [r \in Request |-> "idle"]
    /\ op = [r \in Request |-> "get"]
    /\ on = [r \in Request |-> None]
    /\ locked = [r \in Request |-> 0]
    /\ answer = [r \in Request |-> "none"]

Exists(p) == status[p] \in {"processing", "ready", "failed"}

\* The rows of categories.
Categories == {c \in Category : slug[c] \in Slug}

\* FOR UPDATE of the row of puzzles: a deletion has begun.
Deleting(p) ==
    LET r == held[<<"puzzles", p>>] IN r # None /\ op[r] \in {"remove", "delete"}

\* A plain UPDATE of the row of puzzles waits for any transaction that holds it.
Free(p) == Exists(p) /\ held[<<"puzzles", p>>] = None

-----------------------------------------------------------------------------
(* Puzzles: their creation, the worker, the parent's edits and submission. *)

CreateCatalogPuzzle(p) ==
    /\ status[p] = "none"
    /\ status' = [status EXCEPT ![p] = "processing"]
    /\ entry' = entry \cup {p}
    /\ UNCHANGED <<rated, pieces, bare, public, category, featured, submission,
                   slug, held, requestVars>>

\* A category that is gone fails the foreign key: the answer is an error.
CreateParentPuzzle(p, c) ==
    /\ status[p] = "none"
    /\ c \in Categories \cup {None}
    /\ status' = [status EXCEPT ![p] = "processing"]
    /\ category' = [category EXCEPT ![p] = c]
    /\ UNCHANGED <<rated, pieces, bare, public, listVars, slug, held, requestVars>>

UpdateParentPuzzle(p, c) ==
    /\ Free(p)
    /\ c \in Categories \cup {None}
    /\ category' = [category EXCEPT ![p] = c]
    /\ UNCHANGED <<status, rated, pieces, bare, public, listVars, slug, held, requestVars>>

\* As many rows as pieces were cut. With the puzzle gone, or about to go, the
\* foreign key refuses or waits.
InsertPuzzlePieces(p) ==
    /\ Exists(p)
    /\ ~Deleting(p)
    /\ pieces' = pieces \cup {p}
    /\ UNCHANGED <<status, rated, bare, public, category, listVars, slug, held,
                   requestVars>>

\* The worker calls this when the pieces have been inserted, however many.
SetPuzzleReady(p) ==
    /\ Free(p)
    /\ p \in pieces
    /\ status' = [status EXCEPT ![p] = "ready"]
    /\ rated' = rated \cup {p}
    /\ UNCHANGED <<pieces, bare, public, category, listVars, slug, held, requestVars>>

SetPuzzleFailed(p) ==
    /\ Free(p)
    /\ status' = [status EXCEPT ![p] = "failed"]
    /\ UNCHANGED <<rated, pieces, bare, public, category, listVars, slug, held,
                   requestVars>>

\* The first submission of a puzzle; module Moderation has the later ones.
SubmitPuzzle(p) ==
    /\ Exists(p)
    /\ ~Deleting(p)
    /\ submission[p] = "none"
    /\ submission' = [submission EXCEPT ![p] = "pending"]
    /\ UNCHANGED <<puzzleVars, entry, featured, slug, held, requestVars>>

-----------------------------------------------------------------------------
(* Categories.                                                             *)

\* The unique slug: a second one is ErrConflict.
SlugIsFree(c, s) == \A d \in Category \ {c} : slug[d] # s

CreateCategory(c, s) ==
    /\ slug[c] = "none"
    /\ SlugIsFree(c, s)
    /\ slug' = [slug EXCEPT ![c] = s]
    /\ UNCHANGED <<puzzleVars, listVars, held, requestVars>>

UpdateCategory(c, s) ==
    /\ c \in Categories
    /\ SlugIsFree(c, s)
    /\ slug' = [slug EXCEPT ![c] = s]
    /\ UNCHANGED <<puzzleVars, listVars, held, requestVars>>

\* A deletion that looks at the public list for the puzzles in the category.
DeleteCategoryUnlisted(c) ==
    /\ c \in Categories
    /\ \A p \in public : category[p] # c
    /\ slug' = [slug EXCEPT ![c] = "deleted"]
    /\ UNCHANGED <<puzzleVars, listVars, held, requestVars>>

\* With a puzzle in it the foreign key refuses: ErrConflict.
DeleteCategory(c) ==
    /\ c \in Categories
    /\ \A p \in Puzzle : category[p] # c
    /\ slug' = [slug EXCEPT ![c] = "deleted"]
    /\ UNCHANGED <<puzzleVars, listVars, held, requestVars>>

-----------------------------------------------------------------------------
(* Requests.                                                               *)

Goto(r, step) == pc' = [pc EXCEPT ![r] = step]

\* The response is written and the handler returns.
Finish(r) ==
    /\ Goto(r, "idle")
    /\ op' = [op EXCEPT ![r] = "get"]
    /\ on' = [on EXCEPT ![r] = None]
    /\ locked' = [locked EXCEPT ![r] = 0]
    /\ answer' = [answer EXCEPT ![r] = "none"]

\* The locks a transaction holds end with it.
Release(r) == held' = [w \in Row |-> IF held[w] = r THEN None ELSE held[w]]

\* The row a request names by its id: an entry, a submission or the puzzle.
Named(o, p) ==
    CASE o = "approve" -> submission[p] # "none"
      [] o = "delete" -> Exists(p)
      [] OTHER -> p \in entry

\* A client names a row it has seen, which may be gone by now.  Entries and
\* submissions go with their puzzle only.
Arrive(r, o, p) ==
    /\ pc[r] = "idle"
    /\ Named(o, p) \/ status[p] = "deleted"
    /\ op' = [op EXCEPT ![r] = o]
    /\ on' = [on EXCEPT ![r] = p]
    /\ Goto(r, IF o = "get" THEN "read" ELSE "lock")
    /\ UNCHANGED <<puzzleVars, listVars, slug, held, locked, answer>>

RowExists(w) ==
    CASE w[1] = "puzzles" -> Exists(w[2])
      [] w[1] = "catalog_puzzles" -> w[2] \in entry
      [] w[1] = "catalog_submissions" -> submission[w[2]] # "none"

Planning(r) == pc[r] = "lock" /\ locked[r] < Len(Plan(op[r]))

\* The row the transaction locks next, if the statement finds one: the second
\* one of an update looks for the puzzle through its entry.
NextRow(r) == <<Plan(op[r])[locked[r] + 1], on[r]>>
Finds(r) == RowExists(NextRow(r)) /\ (op[r] = "update" => on[r] \in entry)

\* An approval that does not look at how many rows its first UPDATE changed.
FruitlessUncounted(r) ==
    \/ op[r] = "remove" /\ locked[r] = 0 /\ on[r] \notin entry
    \/ op[r] \in {"remove", "delete"} /\ locked[r] = 1 /\ ~Exists(on[r])

\* Nothing is left to do: an approval of a submission that is not pending, the
\* removal of an entry that is not there, the deletion of a puzzle that is gone.
Fruitless(r) ==
    \/ op[r] = "approve" /\ locked[r] = 1 /\ submission[on[r]] # "pending"
    \/ op[r] = "remove" /\ locked[r] = 0 /\ on[r] \notin entry
    \/ op[r] \in {"remove", "delete"} /\ locked[r] = 1 /\ ~Exists(on[r])

Lock(r) ==
    /\ Planning(r)
    /\ ~Fruitless(r)
    /\ Finds(r) => held[NextRow(r)] = None
    /\ held' = IF Finds(r) THEN [held EXCEPT ![NextRow(r)] = r] ELSE held
    /\ locked' = [locked EXCEPT ![r] = @ + 1]
    /\ UNCHANGED <<puzzleVars, listVars, slug, pc, op, on, answer>>

Rollback(r) ==
    /\ Planning(r)
    /\ Fruitless(r)
    /\ Release(r)
    /\ Finish(r)
    /\ UNCHANGED <<puzzleVars, listVars, slug>>

Ready(r, o) ==
    /\ pc[r] = "lock"
    /\ op[r] = o
    /\ locked[r] = Len(Plan(o))
    /\ Release(r)

\* HandleAdminApprove; the entry may be there already.
CommitApprove(r) ==
    /\ Ready(r, "approve")
    /\ submission' = [submission EXCEPT ![on[r]] = "approved"]
    /\ public' = public \cup {on[r]}
    /\ entry' = entry \cup {on[r]}
    /\ Finish(r)
    /\ UNCHANGED <<status, rated, pieces, bare, category, featured, slug>>

\* An update that changes the row it was asked for, whether it is there or not.
CommitUpdateAnyway(r, f) ==
    /\ Ready(r, "update")
    /\ featured' = IF f THEN featured \cup {on[r]} ELSE featured \ {on[r]}
    /\ Goto(r, "read")
    /\ UNCHANGED <<puzzleVars, entry, submission, slug, op, on, locked, answer>>

\* HandleAdminUpdateCatalogPuzzle; without the entry no row is changed.
CommitUpdate(r, f) ==
    /\ Ready(r, "update")
    /\ \/ held[<<"catalog_puzzles", on[r]>>] # r /\ UNCHANGED featured
       \/ /\ held[<<"catalog_puzzles", on[r]>>] = r
          /\ featured' = IF f THEN featured \cup {on[r]} ELSE featured \ {on[r]}
    /\ Goto(r, "read")
    /\ UNCHANGED <<puzzleVars, entry, submission, slug, op, on, locked, answer>>

\* HandleAdminDeleteCatalogPuzzle and HandleParentDeletePuzzle.
CommitDelete(r) ==
    /\ Ready(r, "remove") \/ Ready(r, "delete")
    /\ status' = [status EXCEPT ![on[r]] = "deleted"]
    /\ rated' = rated \ {on[r]}
    /\ pieces' = pieces \ {on[r]}
    /\ public' = public \ {on[r]}
    /\ category' = [category EXCEPT ![on[r]] = None]
    /\ entry' = entry \ {on[r]}
    /\ featured' = featured \ {on[r]}
    /\ submission' = [submission EXCEPT ![on[r]] = "none"]
    /\ Finish(r)
    /\ UNCHANGED <<bare, slug>>

\* The request whose lock r waits for, None when it waits for none.
Blocker(r) ==
    IF Planning(r) /\ Finds(r) THEN held[NextRow(r)] ELSE None

\* The requests that wait for each other in a ring.
Rings == {C \in SUBSET Request : C # {} /\ C = {Blocker(r) : r \in C}}

\* The database ends one of them: the handler answers 500.
Deadlock(r) ==
    /\ \E C \in Rings : r \in C
    /\ Release(r)
    /\ Finish(r)
    /\ UNCHANGED <<puzzleVars, listVars, slug>>

\* A game that reads the pieces of a puzzle whatever its status.
GetCatalogPuzzleEarly(r) ==
    /\ pc[r] = "read"
    /\ IF op[r] = "get" /\ on[r] \in entry
       THEN Goto(r, "pieces") /\ UNCHANGED <<op, on, locked, answer>>
       ELSE Finish(r)
    /\ UNCHANGED <<puzzleVars, listVars, slug, held>>

\* The row and the puzzle's columns, difficulty NULL being an error to scan.
\* An update answers with it, a game goes on with the pieces of a ready puzzle.
GetCatalogPuzzle(r) ==
    /\ pc[r] = "read"
    /\ IF op[r] = "get" /\ on[r] \in entry \cap rated /\ status[on[r]] = "ready"
       THEN Goto(r, "pieces") /\ UNCHANGED <<op, on, locked, answer>>
       ELSE Finish(r)
    /\ UNCHANGED <<puzzleVars, listVars, slug, held>>

GetPuzzlePieces(r) ==
    /\ pc[r] = "pieces"
    /\ answer' = [answer EXCEPT ![r] = IF on[r] \in pieces \ bare THEN "whole" ELSE "empty"]
    /\ Goto(r, "layers")
    /\ UNCHANGED <<puzzleVars, listVars, slug, held, op, on, locked>>

\* The layers, whose rows module Authoring has, and the response.
ListPuzzleLayers(r) ==
    /\ pc[r] = "layers"
    /\ Finish(r)
    /\ UNCHANGED <<puzzleVars, listVars, slug, held>>

\* HandleListCatalog without and with a category; every puzzle here has the
\* locale of the list, which is always the default one.
Listed == {p \in entry \cap public : status[p] = "ready"}
ListedUnder(s) ==
    {p \in Listed : category[p] \in Categories /\ slug[category[p]] = s}

-----------------------------------------------------------------------------

Next ==
    \/ \E p \in Puzzle :
         \/ CreateCatalogPuzzle(p) \/ InsertPuzzlePieces(p)
         \/ SetPuzzleReady(p) \/ SetPuzzleFailed(p) \/ SubmitPuzzle(p)
         \/ \E c \in Category \cup {None} :
              CreateParentPuzzle(p, c) \/ UpdateParentPuzzle(p, c)
         \/ \E r \in Request, o \in {"get", "update", "approve", "remove", "delete"} :
              Arrive(r, o, p)
    \/ \E c \in Category :
         \/ \E s \in Slug : CreateCategory(c, s) \/ UpdateCategory(c, s)
         \/ DeleteCategory(c)
    \/ \E r \in Request :
         \/ Lock(r) \/ Rollback(r) \/ CommitApprove(r) \/ CommitDelete(r)
         \/ \E f \in BOOLEAN : CommitUpdate(r, f)
         \/ Deadlock(r)
         \/ GetCatalogPuzzle(r) \/ GetPuzzlePieces(r) \/ ListPuzzleLayers(r)

Spec == Init /\ [][Next]_vars

-----------------------------------------------------------------------------
(* Properties.                                                             *)

\* The status is read in one statement and the pieces in another, with the
\* worker, an approval or a deletion in between: a game without pieces is only
\* ever sent for a puzzle that has been deleted meanwhile or was cut into none,
\* which the worker makes ready like any other.
GameIsWhole ==
    \A r \in Request : answer[r] = "empty" => status[on[r]] = "deleted" \/ on[r] \in bare

\* Approvals, updates and deletions take the rows of a puzzle in different
\* orders, yet they wait for each other in a ring only when one of them is a
\* deletion and one is not: approvals and updates never end each other, nor do
\* deletions.
DeadlockNeedsDeletion ==
    \A C \in Rings :
        /\ \E r \in C : op[r] \in {"remove", "delete"}
        /\ \E r \in C : op[r] \notin {"remove", "delete"}

Life == INSTANCE PuzzleLife WITH whole <- pieces

\* Row locks, late statements of a worker and deletions leave of a puzzle what
\* the workers themselves promise: it becomes ready with its pieces only, and
\* is removed with all of them.
ImplementsPuzzleLife == Life!LifeSpec

Shelf == INSTANCE Publication
    WITH row <- [p \in Puzzle |-> IF Exists(p) THEN "live" ELSE status[p]],
         waiting <- {p \in Puzzle : submission[p] = "pending"}

\* Approvals and deletions that lock the rows of a puzzle one by one, in
\* different orders, have the effect of single steps: no submission is approved
\* that is not waiting, and nothing is published of a puzzle that is gone.
ImplementsPublication == Shelf!PublicationSpec

\* A child sees the whole catalogue: every row of the list can be read, and a
\* puzzle that is filed is found by the slug of its category, whatever becomes of
\* categories while parents file puzzles and administrators approve them.
CatalogueIsComplete ==
    /\ Listed \subseteq rated
    /\ \A p \in Listed : category[p] # None => \E s \in Slug : p \in ListedUnder(s)

=============================================================================
