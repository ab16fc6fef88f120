----------------------------- MODULE Authoring ------------------------------
(***************************************************************************)
(* The reward layers a parent adds to a puzzle, changes, orders and        *)
(* removes, against the deletion of the puzzle and the worker that makes   *)
(* it ready.                                                               *)
(*                                                                         *)
(*   internal/handler/parent_puzzles.go  the layer handlers                *)
(*   internal/store/parent.go            their statements                  *)
(*                                                                         *)
(* A handler takes one step per statement and S3 call.  The transaction of *)
(* a reorder, and the cascade of a deletion, lock the rows of the layers   *)
(* one by one; PostgreSQL ends one of several that wait for each other.    *)
(***************************************************************************)
EXTENDS Naturals

CONSTANTS
    Puzzle,    \* the puzzles, of one parent or of several
    Layer,     \* bound: identifiers of puzzle_layers, each used once
    Key,       \* bound: keys of media objects, each used once
    Request,   \* requests that may be served at the same time
    MaxOrder,  \* bound: the largest sort_order a client sends
    None       \* no puzzle, no layer, no key, no request

ASSUME AuthoringAssumption ==
    /\ None \notin Puzzle \cup Layer \cup Key \cup Request
    /\ MaxOrder \in Nat

VARIABLES
    puzzle,    \* puzzles.status, "none" before the INSERT, "deleted" after
    rated,     \* the puzzles whose difficulty is not NULL
    owner,     \* puzzle_layers.puzzle_id, None without a row
    order,     \* puzzle_layers.sort_order
    media,     \* audio_key or video_key, None for NULL
    used,      \* the layer identifiers used so far
    stored,    \* the media objects in S3
    held,      \* the request whose transaction holds the lock of a row
    pc,        \* what each request does next
    op,        \* which handler it is in
    on,        \* its puzzle
    lid,       \* its layer, for a reorder or deletion the one it locks next
    todo,      \* the layers it locks after that one
    file,      \* it carries a file
    upload,    \* the key of the object it has stored
    wanted     \* the sort_order it asks for, for each layer

puzzleVars == <<puzzle, rated>>
layerVars == <<owner, order, media, used>>
requestVars == <<pc, op, on, lid, todo, file, upload, wanted>>
vars == <<puzzleVars, layerVars, stored, held, requestVars>>

Handlers == {"create", "update", "delete", "reorder", "deletePuzzle"}
Locking == {"reorder", "deletePuzzle"}

TypeOK ==
    /\ puzzle \in [Puzzle -> {"none", "processing", "ready", "failed", "deleted"}]
    /\ rated \subseteq Puzzle
    /\ owner \in [Layer -> Puzzle \cup {None}]
    /\ order \in [Layer -> 0..MaxOrder]
    /\ media \in [Layer -> Key \cup {None}]
    /\ used \subseteq Layer
    /\ stored \subseteq Key
    /\ held \in [Layer -> Request \cup {None}]
    /\ pc \in [Request -> {"idle", "check", "put", "write", "lock", "commit"}]
    /\ op \in [Request -> Handlers]
    /\ on \in [Request -> Puzzle \cup {None}]
    /\ lid \in [Request -> Layer \cup {None}]
    /\ todo \in [Request -> SUBSET Layer]
    /\ file \in [Request -> BOOLEAN]
    /\ upload \in [Request -> Key \cup {None}]
    /\ wanted \in [Request -> [Layer -> 0..MaxOrder]]

Unordered == [l \in Layer |-> 0]

Init ==
    /\ puzzle = [p \in Puzzle |-> "none"]
    /\ rated = {}
    /\ owner = [l \in Layer |-> None]
    /\ order = Unordered
    /\ media = [l \in Layer |-> None]
    /\ used = {}
    /\ stored = {}
    /\ held = [l \in Layer |-> None]
    /\ pc = [r \in Request |-> "idle"]
    /\ op = [r \in Request |-> "create"]
    /\ on = [r \in Request |-> None]
    /\ lid = [r \in Request |-> None]
    /\ todo = [r \in Request |-> {}]
    /\ file = [r \in Request |-> FALSE]
    /\ upload = [r \in Request |-> None]
    /\ wanted = [r \in Request |-> Unordered]

Exists(p) == puzzle[p] \in {"processing", "ready", "failed"}
LayersOf(p) == {l \in Layer : owner[l] = p}

\* A deletion whose cascade has begun holds its row of puzzles.
Deleting(p) ==
    \E r \in Request : op[r] = "deletePuzzle" /\ on[r] = p /\ pc[r] \in {"lock", "commit"}

-----------------------------------------------------------------------------
(* What module Pipeline does to a puzzle.                                  *)

CreatePuzzle(p) ==
    /\ puzzle[p] = "none"
    /\ puzzle' = [puzzle EXCEPT ![p] = "processing"]
    /\ UNCHANGED <<rated, layerVars, stored, held, requestVars>>

SetPuzzleReady(p) ==
    /\ puzzle[p] \in {"processing", "failed"}
    /\ ~Deleting(p)
    /\ puzzle' = [puzzle EXCEPT ![p] = "ready"]
    /\ rated' = rated \cup {p}
    /\ UNCHANGED <<layerVars, stored, held, requestVars>>

SetPuzzleFailed(p) ==
    /\ puzzle[p] \in {"processing", "ready"}
    /\ ~Deleting(p)
    /\ puzzle' = [puzzle EXCEPT ![p] = "failed"]
    /\ UNCHANGED <<rated, layerVars, stored, held, requestVars>>

-----------------------------------------------------------------------------
(* Requests.                                                               *)

Goto(r, step) == pc' = [pc EXCEPT ![r] = step]

\* The response is written and the handler returns.
Finish(r) ==
    /\ Goto(r, "idle")
    /\ op' = [op EXCEPT ![r] = "create"]
    /\ on' = [on EXCEPT ![r] = None]
    /\ lid' = [lid EXCEPT ![r] = None]
    /\ todo' = [todo EXCEPT ![r] = {}]
    /\ file' = [file EXCEPT ![r] = FALSE]
    /\ upload' = [upload EXCEPT ![r] = None]
    /\ wanted' = [wanted EXCEPT ![r] = Unordered]

Arrive(r, o, p, l, f, rows, w) ==
    /\ pc[r] = "idle"
    /\ puzzle[p] # "none"
    /\ Goto(r, "check")
    /\ op' = [op EXCEPT ![r] = o]
    /\ on' = [on EXCEPT ![r] = p]
    /\ lid' = [lid EXCEPT ![r] = l]
    /\ file' = [file EXCEPT ![r] = f]
    /\ todo' = [todo EXCEPT ![r] = rows]
    /\ wanted' = [wanted EXCEPT ![r] = w]
    /\ UNCHANGED <<puzzleVars, layerVars, stored, held, upload>>

\* The page sends no sort_order with a new layer.
ArriveToCreate(r, p) ==
    \E f \in BOOLEAN : Arrive(r, "create", p, None, f, {}, Unordered)

\* The handlers look up the puzzle of the path and no more: a layer they are
\* given may be another puzzle's, or gone.
ArriveToUpdate(r, p, l) ==
    /\ l \in used
    /\ \E f \in BOOLEAN : \E n \in 0..MaxOrder :
        Arrive(r, "update", p, l, f, {}, [k \in Layer |-> n])

ArriveToDelete(r, p, l) ==
    l \in used /\ Arrive(r, "delete", p, l, FALSE, {}, Unordered)

\* A client sends each layer with another sort_order.
ArriveToReorder(r, p) ==
    \E rows \in SUBSET used, w \in [Layer -> 0..MaxOrder] :
        /\ \A k, l \in rows : w[k] = w[l] => k = l
        /\ \A l \in Layer \ rows : w[l] = 0
        /\ Arrive(r, "reorder", p, None, FALSE, rows, w)

ArriveToDeletePuzzle(r, p) ==
    Arrive(r, "deletePuzzle", p, None, FALSE, {}, Unordered)

\* GetParentPuzzle scans difficulty into a string: a row with NULL is an error.
Readable(p) == Exists(p) /\ p \in rated

\* The answer is 404 or 500 and nothing changes unless the puzzle can be read;
\* the DELETE of a puzzle just finds no row.
Owned(r) == IF op[r] = "deletePuzzle" THEN Exists(on[r]) ELSE Readable(on[r])

Refuse(r) ==
    /\ pc[r] = "check"
    /\ ~Owned(r)
    /\ Finish(r)
    /\ UNCHANGED <<puzzleVars, layerVars, stored, held>>

\* GetParentPuzzle.
CheckPuzzle(r) ==
    /\ pc[r] = "check" /\ op[r] \notin Locking
    /\ Owned(r)
    /\ Goto(r, IF file[r] THEN "put" ELSE "write")
    /\ UNCHANGED <<puzzleVars, layerVars, stored, held, op, on, lid, todo, file, upload, wanted>>

\* GetParentPuzzle and Begin of a reorder, or the row of the puzzle in its
\* deletion, which waits for another one.  The layers will be locked in the
\* order of the client's list, or any order.
BeginLocking(r) ==
    LET rows == IF op[r] = "reorder" THEN todo[r] ELSE LayersOf(on[r])
    IN  /\ pc[r] = "check" /\ op[r] \in Locking
        /\ Owned(r)
        /\ op[r] = "deletePuzzle" => ~Deleting(on[r])
        /\ \/ \E l \in rows :
                /\ lid' = [lid EXCEPT ![r] = l]
                /\ todo' = [todo EXCEPT ![r] = rows \ {l}]
                /\ Goto(r, "lock")
           \/ rows = {} /\ Goto(r, "commit") /\ UNCHANGED <<lid, todo>>
        /\ UNCHANGED <<puzzleVars, layerVars, stored, held, op, on, file, upload, wanted>>

\* Mutant of PutMedia: the error is not looked at.
PutMediaUnchecked(r) ==
    /\ pc[r] = "put"
    /\ \E k \in Key \ stored :
        /\ stored' \in {stored, stored \cup {k}}
        /\ upload' = [upload EXCEPT ![r] = k]
    /\ Goto(r, "write")
    /\ UNCHANGED <<op, on, lid, todo, file, wanted>>
    /\ UNCHANGED <<puzzleVars, layerVars, held>>

\* PutObject under a fresh key; when it fails the object may be there.
PutMedia(r) ==
    /\ pc[r] = "put"
    /\ \/ \E k \in Key \ stored :
            /\ stored' = stored \cup {k}
            /\ upload' = [upload EXCEPT ![r] = k]
            /\ Goto(r, "write")
            /\ UNCHANGED <<op, on, lid, todo, file, wanted>>
       \/ /\ stored' \in {stored} \cup {stored \cup {k} : k \in Key}
          /\ Finish(r)
    /\ UNCHANGED <<puzzleVars, layerVars, held>>

\* Mutant of CreateLayer: no REFERENCES puzzles(id).
CreateLayerAnyway(r) ==
    /\ pc[r] = "write" /\ op[r] = "create"
    /\ \E l \in Layer \ used :
        /\ owner' = [owner EXCEPT ![l] = on[r]]
        /\ order' = [order EXCEPT ![l] = wanted[r][l]]
        /\ media' = [media EXCEPT ![l] = upload[r]]
        /\ used' = used \cup {l}
    /\ Finish(r)
    /\ UNCHANGED <<puzzleVars, stored, held>>

\* CreatePuzzleLayer: the foreign key waits for a deletion, and refuses a puzzle
\* that is gone.
CreateLayer(r) ==
    /\ pc[r] = "write" /\ op[r] = "create"
    /\ ~Deleting(on[r])
    /\ \/ \E l \in Layer \ used :
            /\ Exists(on[r])
            /\ owner' = [owner EXCEPT ![l] = on[r]]
            /\ order' = [order EXCEPT ![l] = wanted[r][l]]
            /\ media' = [media EXCEPT ![l] = upload[r]]
            /\ used' = used \cup {l}
       \/ UNCHANGED layerVars
    /\ Finish(r)
    /\ UNCHANGED <<puzzleVars, stored, held>>

\* UpdatePuzzleLayer: every column, the key too when no file was sent; when the
\* row is gone, RETURNING finds nothing to scan.
UpdateLayer(r) ==
    LET l == lid[r]
    IN  /\ pc[r] = "write" /\ op[r] = "update"
        /\ held[l] = None
        /\ IF owner[l] # None
           THEN /\ order' = [order EXCEPT ![l] = wanted[r][l]]
                /\ media' = [media EXCEPT ![l] = upload[r]]
                /\ UNCHANGED <<owner, used>>
           ELSE UNCHANGED layerVars
        /\ Finish(r)
        /\ UNCHANGED <<puzzleVars, stored, held>>

RemoveRows(rows) ==
    /\ owner' = [l \in Layer |-> IF l \in rows THEN None ELSE owner[l]]
    /\ order' = [l \in Layer |-> IF l \in rows THEN 0 ELSE order[l]]
    /\ media' = [l \in Layer |-> IF l \in rows THEN None ELSE media[l]]
    /\ UNCHANGED used

\* DeletePuzzleLayer; the media object stays.
DeleteLayer(r) ==
    /\ pc[r] = "write" /\ op[r] = "delete"
    /\ held[lid[r]] = None
    /\ RemoveRows({lid[r]})
    /\ Finish(r)
    /\ UNCHANGED <<puzzleVars, stored, held>>

-----------------------------------------------------------------------------
(* Transactions over several layers.                                       *)

Release(r) == held' = [l \in Layer |-> IF held[l] = r THEN None ELSE held[l]]

\* One UPDATE of a reorder, or one row of a cascade: its lock is kept to the
\* end.  A row that is gone is no error.
LockLayer(r) ==
    /\ pc[r] = "lock"
    /\ held[lid[r]] = None
    /\ held' = IF owner[lid[r]] # None THEN [held EXCEPT ![lid[r]] = r] ELSE held
    /\ \/ \E l \in todo[r] :
            /\ lid' = [lid EXCEPT ![r] = l]
            /\ todo' = [todo EXCEPT ![r] = @ \ {l}]
            /\ UNCHANGED pc
       \/ todo[r] = {} /\ Goto(r, "commit") /\ UNCHANGED <<lid, todo>>
    /\ UNCHANGED <<puzzleVars, layerVars, stored, op, on, file, upload, wanted>>

WaitsFor(r, s) == pc[r] = "lock" /\ held[lid[r]] = s

\* Mutant of Deadlocked: a lock is waited for as long as it takes.
DeadlockedNever(r) == FALSE

\* r is on a cycle of requests that wait for each other.
Deadlocked(r) ==
    \E S \in SUBSET Request :
        /\ r \in S
        /\ \A s \in S : (\E t \in S : WaitsFor(s, t)) /\ (\E t \in S : WaitsFor(t, s))

\* The deferred Rollback after an UPDATE that PostgreSQL has ended.
Abort(r) ==
    /\ Deadlocked(r)
    /\ Release(r)
    /\ Finish(r)
    /\ UNCHANGED <<puzzleVars, layerVars, stored>>

\* A statement or the client fails: the handler answers an error, if anyone is
\* there to read it, and its deferred Rollback gives up the locks.
Fail(r) ==
    /\ pc[r] # "idle"
    /\ Release(r)
    /\ Finish(r)
    /\ UNCHANGED <<puzzleVars, layerVars, stored>>

\* Mutant of SortOrder: a position counted from one.
SortOrderFromOne(n) == n + 1

\* json.Decode into LayerOrderItem, whose SortOrder has no tag: "sort_order" is
\* not its name, the field keeps its zero.
SortOrder(n) == 0

CommitReorder(r) ==
    /\ pc[r] = "commit" /\ op[r] = "reorder"
    /\ order' = [l \in Layer |-> IF held[l] = r THEN SortOrder(wanted[r][l]) ELSE order[l]]
    /\ Release(r)
    /\ Finish(r)
    /\ UNCHANGED <<puzzleVars, owner, media, used, stored>>

\* DeleteParentPuzzle with its cascade: the layers there are by now.
CommitDeletion(r) ==
    LET p == on[r]
    IN  /\ pc[r] = "commit" /\ op[r] = "deletePuzzle"
        /\ puzzle' = [puzzle EXCEPT ![p] = IF Exists(p) THEN "deleted" ELSE @]
        /\ rated' = rated \ {p}
        /\ RemoveRows(LayersOf(p))
        /\ Release(r)
        /\ Finish(r)
        /\ UNCHANGED stored

-----------------------------------------------------------------------------
Serve(r) ==
    \/ Refuse(r)
    \/ CheckPuzzle(r)
    \/ BeginLocking(r)
    \/ PutMedia(r)
    \/ CreateLayer(r)
    \/ UpdateLayer(r)
    \/ DeleteLayer(r)
    \/ LockLayer(r)
    \/ Abort(r)
    \/ CommitReorder(r)
    \/ CommitDeletion(r)

Next ==
    \/ \E p \in Puzzle : CreatePuzzle(p) \/ SetPuzzleReady(p) \/ SetPuzzleFailed(p)
    \/ \E r \in Request :
        \/ \E p \in Puzzle :
            \/ ArriveToCreate(r, p)
            \/ ArriveToReorder(r, p)
            \/ ArriveToDeletePuzzle(r, p)
            \/ \E l \in Layer : ArriveToUpdate(r, p, l) \/ ArriveToDelete(r, p, l)
        \/ Serve(r) \/ Fail(r)

Spec == Init /\ [][Next]_vars

\* Every statement and S3 call returns, and PostgreSQL serves those that wait
\* for a lock in the order in which they came.
FairSpec == Spec /\ \A r \in Request : SF_vars(Serve(r))

-----------------------------------------------------------------------------
(* Properties.                                                             *)

\* A layer request that found its puzzle may come to its INSERT after the puzzle
\* was deleted: no layer is left without its puzzle.
LayersHaveAPuzzle == \A l \in Layer : owner[l] # None => Exists(owner[l])

\* Since every layer handler reads the puzzle first, and fails as long as its
\* difficulty is NULL, only a puzzle that has been ready once has layers.
LayersNeedRating == \A l \in Layer : owner[l] # None => owner[l] \in rated

\* A layer's key names an object that is there, and no other layer's.
MediaIsStored ==
    \A l \in Layer : media[l] # None =>
        /\ media[l] \in stored
        /\ \A k \in Layer : media[k] = media[l] => k = l

\* A row that a reorder or a deletion holds is there, whatever puzzle it is of,
\* and so is that puzzle.
LockedRowsStay ==
    \A l \in Layer : held[l] # None =>
        /\ pc[held[l]] \in {"lock", "commit"}
        /\ owner[l] # None
        /\ Exists(owner[l])

\* While one transaction holds a row nobody else changes it: its puzzle, order
\* and media are what they were when it was locked.
LockedRowsUnchanged ==
    [][\A l \in Layer : held[l] # None /\ held'[l] = held[l] =>
         owner'[l] = owner[l] /\ order'[l] = order[l] /\ media'[l] = media[l]]_vars

\* Reorders and deletions lock the same rows in different orders; every request
\* ends all the same.
EveryRequestEnds == \A r \in Request : pc[r] # "idle" ~> pc[r] = "idle"

\* What the design document says a reorder is: the client sends the sort_order
\* of each layer, and after the COMMIT the layers have it.
ReorderIsApplied ==
    [][\A r \in Request : CommitReorder(r) =>
         \A l \in Layer : held[l] = r => order'[l] = wanted[r][l]]_vars

=============================================================================
