-------------------------- MODULE Catalogue_proofs --------------------------
(***************************************************************************)
(* What holds of games, the list, row locks and deadlocks, for any number  *)
(* of puzzles, categories and requests, and that row by row the catalogue  *)
(* implements Publication and PuzzleLife.                                  *)
(***************************************************************************)
EXTENDS Catalogue, TLAPS

(***************************************************************************)
(* The inductive invariant.  Layer 1: types, and what a request in each    *)
(* step is about.                                                          *)
(***************************************************************************)
Deletions == {"remove", "delete"}
Operations == {"get", "update", "approve"} \cup Deletions

Shaped ==
    \A r \in Request :
        /\ pc[r] = "idle" => locked[r] = 0
        /\ pc[r] # "idle" => on[r] \in Puzzle
        /\ pc[r] = "lock" => op[r] # "get" /\ locked[r] <= Len(Plan(op[r]))
        /\ pc[r] \in {"pieces", "layers"} => op[r] = "get"
        /\ answer[r] # "none" => pc[r] = "layers"

\* Layer 2: the rows of a puzzle go with it, and so does what a request names.
RowsHavePuzzle ==
    \A p \in Puzzle : ~Exists(p) =>
        /\ p \notin entry \cup rated \cup pieces \cup public
        /\ submission[p] = "none" /\ category[p] = None

StillNamed ==
    \A r \in Request : pc[r] # "idle" =>
        Named(op[r], on[r]) \/ status[on[r]] = "deleted"

\* Layer 3: locks.  A transaction holds the rows of its plan it has passed,
\* those that were there, and no others.
Passed(r, t, p) ==
    /\ pc[r] = "lock"
    /\ on[r] = p
    /\ \E i \in 1 .. locked[r] : Plan(op[r])[i] = t

LocksArePlanned ==
    \A t \in Table, p \in Puzzle, r \in Request :
        held[<<t, p>>] = r => Passed(r, t, p)

LockedRowsExist ==
    \A t \in Table, p \in Puzzle : held[<<t, p>>] # None => RowExists(<<t, p>>)

LocksAreHeld ==
    \A t \in Table, p \in Puzzle, r \in Request :
        Passed(r, t, p) /\ RowExists(<<t, p>>) => held[<<t, p>>] = r

LockInv == LocksArePlanned /\ LockedRowsExist /\ LocksAreHeld

ApprovalIsDue ==
    \A r \in Request :
        pc[r] = "lock" /\ op[r] = "approve" /\ locked[r] = 2 =>
            submission[on[r]] = "pending"

\* Layer 4: what is shown of a puzzle.
ReadyIsWhole == \A p \in Puzzle : status[p] = "ready" => p \in pieces \cap rated

ReadyIsRead ==
    \A r \in Request : pc[r] = "pieces" => on[r] \in pieces \/ status[on[r]] = "deleted"

FilesAreKept ==
    \A p \in Puzzle : category[p] # None => category[p] \in Categories

ShownInv == ReadyIsWhole /\ ReadyIsRead /\ GameIsWhole /\ FilesAreKept

IInv ==
    /\ TypeOK /\ Shaped
    /\ RowsHavePuzzle /\ StillNamed
    /\ LockInv /\ ApprovalIsDue
    /\ ShownInv

-----------------------------------------------------------------------------
(***************************************************************************)
(* The plans, the rows they name and the rows a transaction has passed.    *)
(***************************************************************************)
LEMMA PlanIs ==
    /\ Plan("get") = <<>>
    /\ Plan("update") = <<"catalog_puzzles", "puzzles">>
    /\ Plan("approve") = <<"catalog_submissions", "puzzles">>
    /\ \A o \in Deletions :
         Plan(o) = <<"puzzles", "catalog_submissions", "catalog_puzzles">>
BY DEF Plan, Deletions

LEMMA PlanLength ==
    /\ Len(Plan("get")) = 0
    /\ Len(Plan("update")) = 2
    /\ Len(Plan("approve")) = 2
    /\ \A o \in Deletions : Len(Plan(o)) = 3
BY PlanIs

LEMMA PlanBound ==
    ASSUME NEW o \in Operations PROVE Len(Plan(o)) \in 0..3
<1>1. o \in Deletions => Len(Plan(o)) = 3
  BY PlanLength
<1>2. o = "get" \/ o = "update" \/ o = "approve" \/ o \in Deletions
  BY DEF Operations
<1> QED
  BY <1>1, <1>2, PlanLength

LEMMA PlanRows ==
    /\ Plan("update")[1] = "catalog_puzzles" /\ Plan("update")[2] = "puzzles"
    /\ Plan("approve")[1] = "catalog_submissions" /\ Plan("approve")[2] = "puzzles"
    /\ \A o \in Deletions :
         /\ Plan(o)[1] = "puzzles"
         /\ Plan(o)[2] = "catalog_submissions"
         /\ Plan(o)[3] = "catalog_puzzles"
BY PlanIs

LEMMA RowExistsIs ==
    ASSUME NEW p \in Puzzle
    PROVE  /\ RowExists(<<"puzzles", p>>) <=> Exists(p)
           /\ RowExists(<<"catalog_puzzles", p>>) <=> p \in entry
           /\ RowExists(<<"catalog_submissions", p>>) <=> submission[p] # "none"
BY DEF RowExists

LEMMA PassedIs ==
    ASSUME TypeOK, Shaped, NEW r \in Request, NEW p \in Puzzle, pc[r] = "lock", on[r] = p
    PROVE  /\ Passed(r, "puzzles", p) <=>
                \/ op[r] \in {"update", "approve"} /\ locked[r] = 2
                \/ op[r] \in Deletions /\ locked[r] >= 1
           /\ Passed(r, "catalog_puzzles", p) <=>
                \/ op[r] = "update" /\ locked[r] >= 1
                \/ op[r] \in Deletions /\ locked[r] = 3
           /\ Passed(r, "catalog_submissions", p) <=>
                \/ op[r] = "approve" /\ locked[r] >= 1
                \/ op[r] \in Deletions /\ locked[r] >= 2
<1>1. op[r] \in {"update", "approve"} \cup Deletions /\ locked[r] \in 0..3
  BY DEF TypeOK, Shaped, Deletions
<1>2. CASE op[r] = "update"
  <2>1. locked[r] <= Len(Plan(op[r])) /\ Len(Plan(op[r])) = 2
    BY <1>2, PlanLength DEF Shaped
  <2>2. locked[r] \in 0..2
    BY <1>1, <2>1
  <2> QED
    BY <1>2, <2>2, PlanRows DEF Passed, Deletions
<1>3. CASE op[r] = "approve"
  <2>1. locked[r] <= Len(Plan(op[r])) /\ Len(Plan(op[r])) = 2
    BY <1>3, PlanLength DEF Shaped
  <2>2. locked[r] \in 0..2
    BY <1>1, <2>1
  <2> QED
    BY <1>3, <2>2, PlanRows DEF Passed, Deletions
<1>4. CASE op[r] \in Deletions
  <2>1. op[r] \notin {"update", "approve"}
    BY <1>4 DEF Deletions
  <2> QED
    BY <1>1, <1>4, <2>1, PlanRows DEF Passed
<1> QED
  BY <1>1, <1>2, <1>3, <1>4

-----------------------------------------------------------------------------
(***************************************************************************)
(* Types.                                                                  *)
(***************************************************************************)
TypeOfRequests ==
    /\ pc \in [Request -> {"idle", "lock", "read", "pieces", "layers"}]
    /\ op \in [Request -> {"get", "update", "approve", "remove", "delete"}]
    /\ on \in [Request -> Puzzle \cup {None}]
    /\ locked \in [Request -> 0..3]
    /\ answer \in [Request -> {"none", "whole", "empty"}]

TypeOfTables ==
    /\ status \in [Puzzle -> {"none", "processing", "ready", "failed", "deleted"}]
    /\ rated \subseteq Puzzle
    /\ pieces \subseteq Puzzle /\ bare \subseteq Puzzle
    /\ public \subseteq Puzzle
    /\ category \in [Puzzle -> Category \cup {None}]
    /\ entry \subseteq Puzzle
    /\ featured \subseteq entry
    /\ submission \in [Puzzle -> {"none", "pending", "approved"}]
    /\ slug \in [Category -> Slug \cup {"none", "deleted"}]

TypeOfLocks == held \in [Row -> Request \cup {None}]

LEMMA Types == TypeOK <=> TypeOfTables /\ TypeOfLocks /\ TypeOfRequests
BY DEF TypeOK, TypeOfTables, TypeOfLocks, TypeOfRequests

LEMMA TypesPrimed == TypeOK' <=> TypeOfTables' /\ TypeOfLocks' /\ TypeOfRequests'
BY DEF TypeOK, TypeOfTables, TypeOfLocks, TypeOfRequests

LEMMA FinishTypes ==
    ASSUME TypeOfRequests, NEW r \in Request, Finish(r) PROVE TypeOfRequests'
BY DEF TypeOfRequests, Finish, Goto

LEMMA GotoTypes ==
    ASSUME TypeOfRequests, NEW r \in Request, NEW s \in {"lock", "read", "pieces", "layers"},
           Goto(r, s), UNCHANGED <<op, on, locked, answer>>
    PROVE  TypeOfRequests'
BY DEF TypeOfRequests, Goto

LEMMA ReleaseTypes ==
    ASSUME TypeOfLocks, NEW r \in Request, Release(r) PROVE TypeOfLocks'
BY DEF TypeOfLocks, Release

\* A step of a request in the middle of its handler has a puzzle.
LEMMA Subject ==
    ASSUME Shaped, NEW r \in Request, pc[r] # "idle" PROVE on[r] \in Puzzle
BY DEF Shaped

LEMMA TypeStep == IInv /\ [Next]_vars => TypeOK'
<1> SUFFICES ASSUME IInv, [Next]_vars
             PROVE  TypeOfTables' /\ TypeOfLocks' /\ TypeOfRequests'
  BY TypesPrimed
<1> USE DEF puzzleVars, listVars, requestVars
<1>a. TypeOfTables /\ TypeOfLocks /\ TypeOfRequests /\ Shaped /\ LockedRowsExist
  BY Types DEF IInv, LockInv
<1>b. UNCHANGED requestVars => TypeOfRequests'
  BY <1>a DEF TypeOfRequests
<1>c. UNCHANGED held => TypeOfLocks'
  BY <1>a DEF TypeOfLocks
<1>d. UNCHANGED <<puzzleVars, listVars, slug>> => TypeOfTables'
  BY <1>a DEF TypeOfTables
<1>1. ASSUME NEW p \in Puzzle,
             \/ CreateCatalogPuzzle(p) \/ InsertPuzzlePieces(p)
             \/ SetPuzzleReady(p) \/ SetPuzzleFailed(p) \/ SubmitPuzzle(p)
      PROVE  TypeOfTables' /\ UNCHANGED <<held, requestVars>>
  BY <1>1, <1>a DEF CreateCatalogPuzzle, InsertPuzzlePieces, SetPuzzleReady, SetPuzzleFailed,
     SubmitPuzzle, TypeOfTables
<1>2. ASSUME NEW p \in Puzzle, NEW c \in Category \cup {None},
             CreateParentPuzzle(p, c) \/ UpdateParentPuzzle(p, c)
      PROVE  TypeOfTables' /\ UNCHANGED <<held, requestVars>>
  BY <1>2, <1>a DEF CreateParentPuzzle, UpdateParentPuzzle, TypeOfTables
<1>3. ASSUME NEW c \in Category, NEW s \in Slug,
             CreateCategory(c, s) \/ UpdateCategory(c, s) \/ DeleteCategory(c)
      PROVE  TypeOfTables' /\ UNCHANGED <<held, requestVars>>
  BY <1>3, <1>a DEF CreateCategory, UpdateCategory, DeleteCategory, TypeOfTables
<1>4. ASSUME NEW c \in Category, DeleteCategory(c)
      PROVE  TypeOfTables' /\ UNCHANGED <<held, requestVars>>
  BY <1>4, <1>a DEF DeleteCategory, TypeOfTables
<1>5. ASSUME NEW r \in Request, NEW p \in Puzzle,
             NEW o \in {"get", "update", "approve", "remove", "delete"}, Arrive(r, o, p)
      PROVE  TypeOfRequests' /\ UNCHANGED <<puzzleVars, listVars, slug, held>>
  BY <1>5, <1>a DEF Arrive, Goto, TypeOfRequests
<1>6. ASSUME NEW r \in Request, Lock(r)
      PROVE  /\ TypeOfRequests' /\ TypeOfLocks'
             /\ UNCHANGED <<puzzleVars, listVars, slug>>
  <2>1. locked[r] < 3 /\ locked' = [locked EXCEPT ![r] = @ + 1]
    <3>1. PICK n \in 0..3 : n = Len(Plan(op[r]))
      BY <1>a, PlanBound DEF TypeOfRequests, Operations, Deletions
    <3>2. locked[r] < n /\ locked[r] \in 0..3 /\ locked' = [locked EXCEPT ![r] = @ + 1]
      BY <1>6, <1>a, <3>1 DEF Lock, Planning, TypeOfRequests
    <3> QED
      BY <3>2
  <2>2. TypeOfRequests'
    BY <1>6, <1>a, <2>1 DEF Lock, TypeOfRequests
  <2>3. TypeOfLocks'
    BY <1>6, <1>a DEF Lock, TypeOfLocks
  <2> QED
    BY <1>6, <2>2, <2>3 DEF Lock
<1>7. ASSUME NEW r \in Request, Rollback(r) \/ Deadlock(r)
      PROVE  /\ TypeOfRequests' /\ TypeOfLocks'
             /\ UNCHANGED <<puzzleVars, listVars, slug>>
  BY <1>7, <1>a, FinishTypes, ReleaseTypes DEF Rollback, Deadlock
<1>8. ASSUME NEW r \in Request, CommitApprove(r) \/ CommitDelete(r)
      PROVE  TypeOfTables' /\ TypeOfRequests' /\ TypeOfLocks'
  <2>1. on[r] \in Puzzle
    BY <1>8, <1>a, Subject DEF CommitApprove, CommitDelete, Ready
  <2>2. TypeOfTables'
    BY <1>8, <1>a, <2>1 DEF CommitApprove, CommitDelete, TypeOfTables
  <2>3. Finish(r) /\ Release(r)
    BY <1>8 DEF CommitApprove, CommitDelete, Ready
  <2> QED
    BY <1>a, <2>2, <2>3, FinishTypes, ReleaseTypes
<1>9. ASSUME NEW r \in Request, NEW f \in BOOLEAN, CommitUpdate(r, f)
      PROVE  TypeOfTables' /\ TypeOfRequests' /\ TypeOfLocks'
  <2>1. on[r] \in Puzzle
    BY <1>9, <1>a, Subject DEF CommitUpdate, Ready
  <2>2. held[<<"catalog_puzzles", on[r]>>] = r => on[r] \in entry
    BY <1>a, <2>1, CatalogueAssumption, RowExistsIs DEF LockedRowsExist, Table
  <2>3. featured' \subseteq entry /\ UNCHANGED <<puzzleVars, entry, submission, slug>>
    BY <1>9, <1>a, <2>2 DEF CommitUpdate, TypeOfTables
  <2>4. TypeOfTables'
    BY <1>a, <2>3 DEF TypeOfTables
  <2> QED
    BY <1>9, <1>a, <2>4, GotoTypes, ReleaseTypes DEF CommitUpdate, Ready
<1>10. ASSUME NEW r \in Request, GetCatalogPuzzle(r) \/ ListPuzzleLayers(r)
       PROVE  TypeOfRequests' /\ UNCHANGED <<puzzleVars, listVars, slug, held>>
  BY <1>10, <1>a, FinishTypes, GotoTypes DEF GetCatalogPuzzle, ListPuzzleLayers
<1>11. ASSUME NEW r \in Request, GetPuzzlePieces(r)
       PROVE  TypeOfRequests' /\ UNCHANGED <<puzzleVars, listVars, slug, held>>
  BY <1>11, <1>a DEF GetPuzzlePieces, Goto, TypeOfRequests
<1>12. CASE UNCHANGED vars
  BY <1>12, <1>b, <1>c, <1>d DEF vars
<1> HIDE DEF puzzleVars, listVars, requestVars
<1> QED
  BY <1>b, <1>c, <1>d, <1>1, <1>2, <1>3, <1>4, <1>5, <1>6, <1>7, <1>8, <1>9, <1>10, <1>11,
     <1>12 DEF Next

-----------------------------------------------------------------------------
(***************************************************************************)
(* Rows.  Only the commit of a deletion takes rows away, all of a puzzle;  *)
(* and no row appears that a transaction has passed without finding it.    *)
(***************************************************************************)
Kept(p) ==
    /\ Exists(p) => Exists(p)'
    /\ status[p] = "deleted" => status'[p] = "deleted"
    /\ p \in entry => p \in entry'
    /\ submission[p] # "none" => submission'[p] # "none"
    /\ p \in pieces => p \in pieces'
    /\ p \in rated => p \in rated'

\* The step by which a row of p may appear.
Grown(p) ==
    \/ status[p] = "none"
    \/ SubmitPuzzle(p) /\ UNCHANGED <<status, entry>>
    \/ \E r \in Request : CommitApprove(r) /\ on[r] = p

DeletedBy(p) == \E r \in Request : CommitDelete(r) /\ on[r] = p

Same(p) ==
    /\ Exists(p)' <=> Exists(p)
    /\ p \in entry' <=> p \in entry
    /\ submission'[p] = submission[p]

LEMMA RowsStep ==
    ASSUME IInv, [Next]_vars, NEW p \in Puzzle
    PROVE  DeletedBy(p) \/ (Kept(p) /\ (Grown(p) \/ Same(p)))
<1> USE DEF puzzleVars, listVars, requestVars
<1>a. TypeOfTables /\ Shaped
  BY Types DEF IInv
<1>b. UNCHANGED <<puzzleVars, listVars>> => Kept(p) /\ Same(p)
  BY DEF Kept, Same, Exists
<1>1. ASSUME NEW q \in Puzzle, NEW c \in Category \cup {None},
             CreateCatalogPuzzle(q) \/ CreateParentPuzzle(q, c)
      PROVE  Kept(p) /\ (Grown(p) \/ Same(p))
  <2>1. status[q] = "none" /\ status' = [status EXCEPT ![q] = "processing"]
    BY <1>1 DEF CreateCatalogPuzzle, CreateParentPuzzle
  <2>2. entry' \in {entry, entry \cup {q}} /\ UNCHANGED <<submission, pieces, rated>>
    BY <1>1 DEF CreateCatalogPuzzle, CreateParentPuzzle
  <2>3. status \in [Puzzle -> {"none", "processing", "ready", "failed", "deleted"}]
    BY <1>a DEF TypeOfTables
  <2> QED
    BY <2>1, <2>2, <2>3 DEF Kept, Same, Grown, Exists
<1>2. ASSUME NEW q \in Puzzle, NEW c \in Category \cup {None}, UpdateParentPuzzle(q, c)
      PROVE  Kept(p) /\ Same(p)
  BY <1>2 DEF UpdateParentPuzzle, Kept, Same, Exists
<1>3. ASSUME NEW q \in Puzzle, InsertPuzzlePieces(q)
      PROVE  Kept(p) /\ Same(p)
  BY <1>3 DEF InsertPuzzlePieces, Kept, Same, Exists
<1>4. ASSUME NEW q \in Puzzle, SetPuzzleReady(q) \/ SetPuzzleFailed(q)
      PROVE  Kept(p) /\ Same(p)
  <2>1. Exists(q) /\ status' \in {[status EXCEPT ![q] = "ready"], [status EXCEPT ![q] = "failed"]}
    BY <1>4 DEF SetPuzzleReady, SetPuzzleFailed, Free
  <2>2. UNCHANGED <<entry, submission, pieces>> /\ rated \subseteq rated'
    BY <1>4 DEF SetPuzzleReady, SetPuzzleFailed
  <2>3. status \in [Puzzle -> {"none", "processing", "ready", "failed", "deleted"}]
    BY <1>a DEF TypeOfTables
  <2> QED
    BY <2>1, <2>2, <2>3 DEF Kept, Same, Exists
<1>5. ASSUME NEW q \in Puzzle, SubmitPuzzle(q)
      PROVE  Kept(p) /\ (Grown(p) \/ Same(p))
  <2>1. UNCHANGED <<status, entry, pieces, rated>>
    BY <1>5 DEF SubmitPuzzle
  <2>2. submission' = [submission EXCEPT ![q] = "pending"]
    BY <1>5 DEF SubmitPuzzle
  <2>3. submission \in [Puzzle -> {"none", "pending", "approved"}]
    BY <1>a DEF TypeOfTables
  <2> QED
    BY <1>5, <2>1, <2>2, <2>3 DEF Kept, Same, Grown, Exists
<1>6. ASSUME NEW r \in Request, CommitApprove(r)
      PROVE  Kept(p) /\ (Grown(p) \/ Same(p))
  <2>1. UNCHANGED <<status, pieces, rated>> /\ entry' = entry \cup {on[r]}
    BY <1>6 DEF CommitApprove
  <2>2. submission' = [submission EXCEPT ![on[r]] = "approved"]
    BY <1>6 DEF CommitApprove
  <2>3. submission \in [Puzzle -> {"none", "pending", "approved"}]
    BY <1>a DEF TypeOfTables
  <2> QED
    BY <1>6, <2>1, <2>2, <2>3 DEF Kept, Same, Grown, Exists
<1>7. ASSUME NEW r \in Request, CommitDelete(r)
      PROVE  DeletedBy(p) \/ (Kept(p) /\ Same(p))
  <2>1. on[r] \in Puzzle
    BY <1>7, <1>a, Subject DEF CommitDelete, Ready
  <2>2. ASSUME on[r] # p PROVE Kept(p) /\ Same(p)
    <3>1. status'[p] = status[p] /\ submission'[p] = submission[p]
      BY <1>7, <1>a, <2>2 DEF CommitDelete, TypeOfTables
    <3>2. /\ p \in entry' <=> p \in entry
          /\ p \in pieces' <=> p \in pieces
          /\ p \in rated' <=> p \in rated
      BY <1>7, <2>2 DEF CommitDelete
    <3> QED
      BY <3>1, <3>2 DEF Kept, Same, Exists
  <2> QED
    BY <1>7, <2>2 DEF DeletedBy
<1>8. ASSUME NEW r \in Request, NEW f \in BOOLEAN, CommitUpdate(r, f)
      PROVE  Kept(p) /\ Same(p)
  BY <1>8 DEF CommitUpdate, Kept, Same, Exists
<1>9. ASSUME NEW r \in Request,
             \/ Lock(r) \/ Rollback(r) \/ Deadlock(r)
             \/ GetCatalogPuzzle(r) \/ GetPuzzlePieces(r) \/ ListPuzzleLayers(r)
      PROVE  UNCHANGED <<puzzleVars, listVars>>
  BY <1>9 DEF Lock, Rollback, Deadlock, GetCatalogPuzzle, GetPuzzlePieces, ListPuzzleLayers
<1>10. ASSUME NEW c \in Category, NEW s \in Slug, CreateCategory(c, s) \/ UpdateCategory(c, s)
       PROVE  UNCHANGED <<puzzleVars, listVars>>
  BY <1>10 DEF CreateCategory, UpdateCategory
<1>11. ASSUME NEW c \in Category, DeleteCategory(c)
       PROVE  UNCHANGED <<puzzleVars, listVars>>
  BY <1>11 DEF DeleteCategory
<1>12. ASSUME NEW r \in Request, NEW o \in Operations, NEW q \in Puzzle, Arrive(r, o, q)
       PROVE  UNCHANGED <<puzzleVars, listVars>>
  BY <1>12 DEF Arrive
<1>13. CASE UNCHANGED vars
  BY <1>b, <1>13 DEF vars
<1> HIDE DEF puzzleVars, listVars, requestVars
<1>14. Operations = {"get", "update", "approve", "remove", "delete"}
  BY DEF Operations, Deletions
<1> QED
  BY <1>b, <1>1, <1>2, <1>3, <1>4, <1>5, <1>6, <1>7, <1>8, <1>9, <1>10, <1>11, <1>12, <1>13,
     <1>14 DEF Next

LEMMA RowExistsPrimed ==
    ASSUME NEW p \in Puzzle
    PROVE  /\ RowExists(<<"puzzles", p>>)' <=> Exists(p)'
           /\ RowExists(<<"catalog_puzzles", p>>)' <=> p \in entry'
           /\ RowExists(<<"catalog_submissions", p>>)' <=> submission'[p] # "none"
BY DEF RowExists

\* A row does not appear behind the back of a transaction that has passed it.
LEMMA NewRowsUnpassed ==
    ASSUME IInv, [Next]_vars, NEW t \in Table, NEW p \in Puzzle, NEW r \in Request,
           ~RowExists(<<t, p>>), RowExists(<<t, p>>)', Passed(r, t, p)
    PROVE  CommitApprove(r)
<1>a. TypeOK /\ Shaped /\ RowsHavePuzzle /\ StillNamed /\ LocksAreHeld /\ ApprovalIsDue
  BY DEF IInv, LockInv
<1>b. pc[r] = "lock" /\ on[r] = p
  BY DEF Passed
<1>c. ASSUME DeletedBy(p) PROVE FALSE
  <2>1. PICK d \in Request : CommitDelete(d) /\ on[d] = p
    BY <1>c DEF DeletedBy
  <2>2. /\ status'[p] = "deleted" /\ p \notin entry' /\ submission'[p] = "none"
    BY <1>a, <2>1 DEF CommitDelete, TypeOK
  <2>3. ~RowExists(<<t, p>>)'
    BY <2>2, RowExistsPrimed DEF Exists, Table
  <2> QED
    BY <2>3
<1>d. Grown(p)
  <2>1. Same(p) => (RowExists(<<t, p>>)' <=> RowExists(<<t, p>>))
    BY RowExistsIs, RowExistsPrimed DEF Same, Table
  <2> QED
    BY <1>c, <2>1, RowsStep
\* A request that has passed anything names a row that was there before.
<1>1. CASE status[p] = "none"
  BY <1>1, <1>a, <1>b DEF StillNamed, Named, RowsHavePuzzle, Exists
<1>2. CASE SubmitPuzzle(p) /\ UNCHANGED <<status, entry>>
  <2>1. Exists(p) /\ ~Deleting(p) /\ submission[p] = "none"
    BY <1>2 DEF SubmitPuzzle
  <2>2. t = "catalog_submissions"
    BY <1>2, RowExistsIs, RowExistsPrimed DEF Table, Exists
  <2>3. op[r] # "approve"
    BY <1>a, <1>b, <2>1 DEF StillNamed, Named, Exists
  <2>4. op[r] \in Deletions /\ locked[r] >= 2
    BY <1>a, <1>b, <2>2, <2>3, PassedIs
  <2>5. Passed(r, "puzzles", p)
    BY <1>a, <1>b, <2>4, PassedIs DEF TypeOK
  <2>6. held[<<"puzzles", p>>] = r
    BY <1>a, <2>1, <2>5, RowExistsIs DEF LocksAreHeld, Table
  <2> QED
    BY <2>1, <2>4, <2>6, CatalogueAssumption DEF Deleting, Deletions
<1>3. ASSUME NEW a \in Request, CommitApprove(a), on[a] = p PROVE a = r
  <2>1. pc[a] = "lock" /\ op[a] = "approve" /\ locked[a] = 2
    BY <1>3, PlanLength DEF CommitApprove, Ready
  <2>2. submission[p] = "pending"
    BY <1>3, <1>a, <2>1 DEF ApprovalIsDue
  <2>3. Exists(p)
    BY <1>a, <2>2 DEF RowsHavePuzzle
  <2>4. held[<<"puzzles", p>>] = a
    <3>1. Passed(a, "puzzles", p)
      BY <1>3, <1>a, <2>1, PassedIs
    <3> QED
      BY <1>a, <2>3, <3>1, RowExistsIs DEF LocksAreHeld, Table
  <2>5. p \notin entry /\ t = "catalog_puzzles"
    BY <1>3, <2>2, <2>3, RowExistsIs, RowExistsPrimed DEF Table
  <2>6. op[r] # "update"
    BY <1>a, <1>b, <2>3, <2>5 DEF StillNamed, Named, Exists
  <2>7. op[r] \in Deletions /\ locked[r] = 3
    BY <1>a, <1>b, <2>5, <2>6, PassedIs
  <2>8. Passed(r, "puzzles", p)
    BY <1>a, <1>b, <2>7, PassedIs
  <2>9. held[<<"puzzles", p>>] = r
    BY <1>a, <2>3, <2>8, RowExistsIs DEF LocksAreHeld, Table
  <2> QED
    BY <2>4, <2>9
<1> QED
  BY <1>d, <1>1, <1>2, <1>3 DEF Grown

-----------------------------------------------------------------------------
(***************************************************************************)
(* Locks.                                                                  *)
(***************************************************************************)
Unmoved(q) == pc'[q] = pc[q] /\ op'[q] = op[q] /\ on'[q] = on[q] /\ locked'[q] = locked[q]

PassedKept(q) == \A t \in Table, p \in Puzzle : Passed(q, t, p)' <=> Passed(q, t, p)

LEMMA UnmovedPassed ==
    ASSUME NEW q \in Request, Unmoved(q) PROVE PassedKept(q)
BY DEF Unmoved, PassedKept, Passed

\* A step that ends the transaction of r.
Ends(r) == Release(r) /\ pc'[r] # "lock" /\ \A q \in Request \ {r} : Unmoved(q)

LEMMA FinishEnds ==
    ASSUME TypeOfRequests, NEW r \in Request, Finish(r)
    PROVE  pc'[r] = "idle" /\ \A q \in Request \ {r} : Unmoved(q)
BY DEF TypeOfRequests, Finish, Goto, Unmoved

LEMMA GotoMoves ==
    ASSUME TypeOfRequests, NEW r \in Request, NEW s, Goto(r, s), UNCHANGED <<op, on, locked>>
    PROVE  pc'[r] = s /\ \A q \in Request \ {r} : Unmoved(q)
BY DEF TypeOfRequests, Goto, Unmoved

LEMMA LockCases ==
    ASSUME IInv, [Next]_vars
    PROVE  \/ UNCHANGED held /\ \A q \in Request : PassedKept(q)
           \/ \E r \in Request : Lock(r) \/ Ends(r)
<1>a. TypeOfRequests /\ Shaped
  BY Types DEF IInv
<1>b. UNCHANGED requestVars => \A q \in Request : PassedKept(q)
  BY UnmovedPassed DEF Unmoved, requestVars
<1>1. ASSUME NEW p \in Puzzle,
             \/ CreateCatalogPuzzle(p) \/ InsertPuzzlePieces(p)
             \/ SetPuzzleReady(p) \/ SetPuzzleFailed(p) \/ SubmitPuzzle(p)
      PROVE  UNCHANGED <<held, requestVars>>
  BY <1>1 DEF CreateCatalogPuzzle, InsertPuzzlePieces, SetPuzzleReady, SetPuzzleFailed, SubmitPuzzle
<1>2. ASSUME NEW p \in Puzzle, NEW c \in Category \cup {None},
             CreateParentPuzzle(p, c) \/ UpdateParentPuzzle(p, c)
      PROVE  UNCHANGED <<held, requestVars>>
  BY <1>2 DEF CreateParentPuzzle, UpdateParentPuzzle
<1>3. ASSUME NEW c \in Category, NEW s \in Slug, CreateCategory(c, s) \/ UpdateCategory(c, s)
      PROVE  UNCHANGED <<held, requestVars>>
  BY <1>3 DEF CreateCategory, UpdateCategory
<1>4. ASSUME NEW c \in Category, DeleteCategory(c) PROVE UNCHANGED <<held, requestVars>>
  BY <1>4 DEF DeleteCategory
<1>5. ASSUME NEW r \in Request, NEW o \in Operations, NEW p \in Puzzle, Arrive(r, o, p)
      PROVE  UNCHANGED held /\ \A q \in Request : PassedKept(q)
  <2>1. \A q \in Request \ {r} : PassedKept(q)
    BY <1>5, <1>a, UnmovedPassed DEF Arrive, Goto, Unmoved, TypeOfRequests
  <2>2. locked'[r] = 0 /\ pc[r] # "lock"
    BY <1>5, <1>a DEF Arrive, Shaped
  <2>3. PassedKept(r)
    BY <2>2 DEF PassedKept, Passed
  <2> QED
    BY <1>5, <2>1, <2>3 DEF Arrive
<1>6. ASSUME NEW r \in Request, Rollback(r) \/ Deadlock(r) \/ CommitApprove(r) \/ CommitDelete(r)
      PROVE  Ends(r)
  <2>1. Release(r) /\ Finish(r)
    BY <1>6 DEF Rollback, Deadlock, CommitApprove, CommitDelete, Ready
  <2> QED
    BY <1>a, <2>1, FinishEnds DEF Ends
<1>7. ASSUME NEW r \in Request, NEW f \in BOOLEAN, CommitUpdate(r, f) PROVE Ends(r)
  <2>1. Release(r) /\ Goto(r, "read") /\ UNCHANGED <<op, on, locked>>
    BY <1>7 DEF CommitUpdate, Ready
  <2> QED
    BY <1>a, <2>1, GotoMoves DEF Ends
<1>8. ASSUME NEW r \in Request, GetCatalogPuzzle(r) \/ GetPuzzlePieces(r) \/ ListPuzzleLayers(r)
      PROVE  UNCHANGED held /\ \A q \in Request : PassedKept(q)
  <2>1. \/ Finish(r)
        \/ \E s \in {"pieces", "layers"} : Goto(r, s) /\ UNCHANGED <<op, on, locked>>
    BY <1>8 DEF GetCatalogPuzzle, GetPuzzlePieces, ListPuzzleLayers
  <2>2. pc'[r] # "lock" /\ \A q \in Request \ {r} : Unmoved(q)
    BY <1>a, <2>1, FinishEnds, GotoMoves
  <2>3. pc[r] # "lock" /\ UNCHANGED held
    BY <1>8 DEF GetCatalogPuzzle, GetPuzzlePieces, ListPuzzleLayers
  <2>4. PassedKept(r)
    BY <2>2, <2>3 DEF PassedKept, Passed
  <2> QED
    BY <2>2, <2>3, <2>4, UnmovedPassed
<1>9. CASE UNCHANGED vars
  BY <1>b, <1>9 DEF vars
<1>10. Operations = {"get", "update", "approve", "remove", "delete"}
  BY DEF Operations, Deletions
<1>11. CASE \E p \in Puzzle : \/ CreateCatalogPuzzle(p) \/ InsertPuzzlePieces(p)
                              \/ SetPuzzleReady(p) \/ SetPuzzleFailed(p) \/ SubmitPuzzle(p)
                              \/ \E c \in Category \cup {None} :
                                   CreateParentPuzzle(p, c) \/ UpdateParentPuzzle(p, c)
  BY <1>11, <1>b, <1>1, <1>2
<1>12. CASE \E c \in Category : \/ \E s \in Slug : CreateCategory(c, s) \/ UpdateCategory(c, s)
                                \/ DeleteCategory(c)
  BY <1>12, <1>b, <1>3, <1>4
<1> QED
  BY <1>5, <1>6, <1>7, <1>8, <1>9, <1>10, <1>11, <1>12 DEF Next

\* A lock taken: the row r was to lock next, if it is there, is now held by r,
\* and r has passed that row and the ones before.
NextTable(r) == Plan(op[r])[locked[r] + 1]

LEMMA NextIsTable ==
    ASSUME TypeOK, Shaped, NEW r \in Request, Planning(r)
    PROVE  NextTable(r) \in Table /\ on[r] \in Puzzle
<1>1. on[r] \in Puzzle /\ pc[r] = "lock"
  BY Subject DEF Planning
<1>2. op[r] \in {"update", "approve"} \cup Deletions /\ locked[r] \in 0..3
  BY <1>1 DEF TypeOK, Shaped, Deletions
<1>3. ASSUME NEW n \in 0..3, n = Len(Plan(op[r])) PROVE locked[r] + 1 \in 1..n
  <2>1. locked[r] < n
    BY <1>3 DEF Planning
  <2> QED
    BY <1>2, <2>1
<1>4. CASE op[r] \in Deletions
  <2>1. locked[r] + 1 \in 1..3
    BY <1>3, <1>4, PlanLength
  <2>2. \A i \in 1..3 : Plan(op[r])[i] \in Table
    BY <1>4, PlanRows DEF Table
  <2> QED
    BY <1>1, <2>1, <2>2 DEF NextTable
<1>5. CASE op[r] = "update" \/ op[r] = "approve"
  <2>1. locked[r] + 1 \in 1..2
    BY <1>3, <1>5, PlanLength
  <2>2. \A i \in 1..2 : Plan(op[r])[i] \in Table
    BY <1>5, PlanRows DEF Table
  <2> QED
    BY <1>1, <2>1, <2>2 DEF NextTable
<1> QED
  BY <1>2, <1>4, <1>5

LEMMA FindsIs ==
    ASSUME IInv, NEW r \in Request, Planning(r)
    PROVE  Finds(r) <=> RowExists(<<NextTable(r), on[r]>>)
<1>1. NextTable(r) \in Table /\ on[r] \in Puzzle /\ pc[r] = "lock"
  BY NextIsTable DEF IInv, Planning
<1>2. ASSUME op[r] = "update", on[r] \notin entry
      PROVE  ~RowExists(<<NextTable(r), on[r]>>)
  <2>1. ~Exists(on[r])
    BY <1>1, <1>2 DEF IInv, StillNamed, Named, Exists
  <2>2. submission[on[r]] = "none"
    BY <1>1, <2>1 DEF IInv, RowsHavePuzzle
  <2> QED
    BY <1>1, <1>2, <2>1, <2>2, RowExistsIs DEF Table
<1> QED
  BY <1>2 DEF Finds, NextRow, NextTable

LEMMA LockPasses ==
    ASSUME IInv, NEW r \in Request, Lock(r), NEW t \in Table, NEW p \in Puzzle
    PROVE  /\ Passed(r, t, p)' <=> Passed(r, t, p) \/ (t = NextTable(r) /\ p = on[r])
           /\ \A q \in Request \ {r} : PassedKept(q)
<1>a. TypeOfRequests
  BY Types DEF IInv
<1>1. /\ UNCHANGED <<pc, op, on>> /\ pc[r] = "lock"
      /\ locked' = [locked EXCEPT ![r] = @ + 1]
  BY DEF Lock, Planning
<1>2. locked[r] \in Nat /\ locked'[r] = locked[r] + 1
  BY <1>a, <1>1 DEF TypeOfRequests
<1>3. \A q \in Request \ {r} : Unmoved(q)
  BY <1>a, <1>1 DEF TypeOfRequests, Unmoved
<1>4. 1 .. locked'[r] = 1 .. locked[r] \cup {locked[r] + 1}
  BY <1>2
<1>5. Passed(r, t, p)' <=> on[r] = p /\ \E i \in 1 .. locked'[r] : Plan(op[r])[i] = t
  BY <1>1 DEF Passed
<1>6. Passed(r, t, p) <=> on[r] = p /\ \E i \in 1 .. locked[r] : Plan(op[r])[i] = t
  BY <1>1 DEF Passed
<1>7. Passed(r, t, p)' <=> Passed(r, t, p) \/ (t = NextTable(r) /\ p = on[r])
  <2> HIDE DEF Plan
  <2> QED
    BY <1>4, <1>5, <1>6 DEF NextTable
<1> QED
  BY <1>3, <1>7, UnmovedPassed

LEMMA LockHolds ==
    ASSUME IInv, NEW r \in Request, Lock(r)
    PROVE  \/ UNCHANGED held /\ ~RowExists(<<NextTable(r), on[r]>>)
           \/ /\ RowExists(<<NextTable(r), on[r]>>)
              /\ held[<<NextTable(r), on[r]>>] = None
              /\ held' = [held EXCEPT ![<<NextTable(r), on[r]>>] = r]
<1>1. Planning(r)
  BY DEF Lock
<1> QED
  BY <1>1, FindsIs DEF Lock, NextRow, NextTable

\* The rows a deletion takes away are locked by nobody else.
LEMMA GoneRowsAreFree ==
    ASSUME IInv, [Next]_vars, NEW t \in Table, NEW p \in Puzzle,
           held[<<t, p>>] # None, ~RowExists(<<t, p>>)'
    PROVE  held'[<<t, p>>] = None
<1>1. RowExists(<<t, p>>)
  BY DEF IInv, LockInv, LockedRowsExist
<1>2. PICK d \in Request : CommitDelete(d) /\ on[d] = p
  BY <1>1, RowsStep, RowExistsIs, RowExistsPrimed DEF Kept, Table, DeletedBy
<1>3. pc[d] = "lock" /\ op[d] \in Deletions /\ locked[d] = 3
  BY <1>2, PlanLength DEF CommitDelete, Ready, Deletions
<1>4. Passed(d, t, p)
  BY <1>2, <1>3, PassedIs DEF IInv, Table
<1>5. held[<<t, p>>] = d
  BY <1>1, <1>4 DEF IInv, LockInv, LocksAreHeld
<1>6. Release(d)
  BY <1>2 DEF CommitDelete, Ready
<1> QED
  BY <1>5, <1>6 DEF Release, Row

LEMMA LockedRowsStep ==
    ASSUME IInv, [Next]_vars, NEW t \in Table, NEW p \in Puzzle, held'[<<t, p>>] # None
    PROVE  RowExists(<<t, p>>)'
<1>a. TypeOfLocks /\ <<t, p>> \in Row
  BY Types DEF IInv, Row
<1>b. held[<<t, p>>] # None => RowExists(<<t, p>>)'
  BY GoneRowsAreFree
<1>1. CASE UNCHANGED held
  BY <1>b, <1>1
<1>2. ASSUME NEW r \in Request, Ends(r) PROVE held[<<t, p>>] # None
  BY <1>2, <1>a DEF Ends, Release
<1>3. ASSUME NEW r \in Request, Lock(r) PROVE RowExists(<<t, p>>)'
  <2>1. NextTable(r) \in Table /\ on[r] \in Puzzle
    BY <1>3, NextIsTable DEF IInv, Lock
  <2>2. CASE held[<<t, p>>] = None
    <3>1. t = NextTable(r) /\ p = on[r] /\ RowExists(<<t, p>>)
      BY <1>3, <1>a, <2>2, LockHolds DEF TypeOfLocks
    <3>2. UNCHANGED <<status, entry, submission>>
      BY <1>3 DEF Lock, puzzleVars, listVars
    <3> QED
      BY <3>1, <3>2, RowExistsIs, RowExistsPrimed DEF Table, Exists
  <2> QED
    BY <1>b, <2>2
<1> QED
  BY <1>b, <1>1, <1>2, <1>3, LockCases

LEMMA LocksStep ==
    ASSUME IInv, [Next]_vars, NEW t \in Table, NEW p \in Puzzle, NEW q \in Request
    PROVE  /\ held'[<<t, p>>] = q => Passed(q, t, p)'
           /\ Passed(q, t, p)' /\ RowExists(<<t, p>>)' => held'[<<t, p>>] = q
<1>a. TypeOfLocks /\ TypeOfRequests /\ <<t, p>> \in Row /\ q # None
  BY Types, CatalogueAssumption DEF IInv, Row
<1>b. /\ held[<<t, p>>] = q => Passed(q, t, p)
      /\ Passed(q, t, p) /\ RowExists(<<t, p>>) => held[<<t, p>>] = q
  BY DEF IInv, LockInv, LocksArePlanned, LocksAreHeld
\* A row that q has passed and that appears would be one q itself adds, at its
\* COMMIT.
<1>c. ASSUME Passed(q, t, p), Passed(q, t, p)', RowExists(<<t, p>>)'
      PROVE  RowExists(<<t, p>>)
  <2>1. CommitApprove(q) => pc'[q] = "idle"
    BY <1>a, FinishEnds DEF CommitApprove
  <2>2. ~CommitApprove(q)
    BY <1>c, <2>1 DEF Passed
  <2> QED
    BY <1>c, <2>2, NewRowsUnpassed
<1>1. CASE UNCHANGED held /\ \A x \in Request : PassedKept(x)
  <2>1. Passed(q, t, p)' <=> Passed(q, t, p)
    BY <1>1 DEF PassedKept
  <2> QED
    BY <1>1, <1>b, <1>c, <2>1
<1>2. ASSUME NEW r \in Request, Ends(r)
      PROVE  /\ held'[<<t, p>>] = q => Passed(q, t, p)'
             /\ Passed(q, t, p)' /\ RowExists(<<t, p>>)' => held'[<<t, p>>] = q
  <2>1. held'[<<t, p>>] = IF held[<<t, p>>] = r THEN None ELSE held[<<t, p>>]
    BY <1>2, <1>a DEF Ends, Release
  <2>2. CASE q = r
    <3>1. ~Passed(q, t, p)'
      BY <1>2, <2>2 DEF Ends, Passed
    <3>2. held'[<<t, p>>] # q
      BY <1>a, <2>1, <2>2
    <3> QED
      BY <3>1, <3>2
  <2>3. CASE q # r
    <3>1. Passed(q, t, p)' <=> Passed(q, t, p)
      BY <1>2, <2>3, UnmovedPassed DEF Ends, PassedKept
    <3> QED
      BY <1>a, <1>b, <1>c, <2>1, <2>3, <3>1
  <2> QED
    BY <2>2, <2>3
<1>3. ASSUME NEW r \in Request, Lock(r)
      PROVE  /\ held'[<<t, p>>] = q => Passed(q, t, p)'
             /\ Passed(q, t, p)' /\ RowExists(<<t, p>>)' => held'[<<t, p>>] = q
  <2> DEFINE u == NextTable(r)
  <2>1. /\ u \in Table /\ on[r] \in Puzzle
        /\ UNCHANGED <<status, entry, submission>>
    BY <1>3, NextIsTable DEF IInv, Lock, puzzleVars, listVars
  <2>2. \/ UNCHANGED held /\ ~RowExists(<<u, on[r]>>)
        \/ /\ held[<<u, on[r]>>] = None
           /\ held' = [held EXCEPT ![<<u, on[r]>>] = r]
    BY <1>3, LockHolds
  <2>3. RowExists(<<t, p>>)' <=> RowExists(<<t, p>>)
    BY <2>1, RowExistsIs, RowExistsPrimed DEF Table, Exists
  <2>4. Passed(r, t, p)' <=> Passed(r, t, p) \/ (t = u /\ p = on[r])
    BY <1>3, LockPasses
  <2>5. q # r => (Passed(q, t, p)' <=> Passed(q, t, p))
    BY <1>3, LockPasses DEF PassedKept
  <2> HIDE DEF u
  <2>6. CASE t = u /\ p = on[r]
    <3>1. CASE UNCHANGED held /\ ~RowExists(<<t, p>>)
      <4>1. held[<<t, p>>] # q
        BY <1>a, <3>1 DEF IInv, LockInv, LockedRowsExist
      <4> QED
        BY <2>3, <3>1, <4>1
    <3>2. CASE held[<<t, p>>] = None /\ held' = [held EXCEPT ![<<t, p>>] = r]
      <4>1. held'[<<t, p>>] = r
        BY <1>a, <3>2 DEF TypeOfLocks
      <4>2. CASE q = r
        BY <2>4, <2>6, <4>1, <4>2
      <4>3. CASE q # r
        BY <1>a, <1>b, <2>3, <2>5, <3>2, <4>1, <4>3
      <4> QED
        BY <4>2, <4>3
    <3> QED
      BY <2>2, <2>6, <3>1, <3>2
  <2>7. CASE ~(t = u /\ p = on[r])
    <3>1. held'[<<t, p>>] = held[<<t, p>>]
      BY <1>a, <2>1, <2>2, <2>7 DEF TypeOfLocks, Row
    <3>2. Passed(q, t, p)' <=> Passed(q, t, p)
      BY <2>4, <2>5, <2>7
    <3> QED
      BY <1>b, <2>3, <3>1, <3>2
  <2> QED
    BY <2>6, <2>7
<1> QED
  BY <1>1, <1>2, <1>3, LockCases

LEMMA LockInvStep == IInv /\ [Next]_vars => LockInv'
<1> SUFFICES ASSUME IInv, [Next]_vars PROVE LockInv'
  OBVIOUS
<1>1. LockedRowsExist'
  BY LockedRowsStep DEF LockedRowsExist
<1>2. LocksArePlanned' /\ LocksAreHeld'
  BY LocksStep DEF LocksArePlanned, LocksAreHeld
<1> QED
  BY <1>1, <1>2 DEF LockInv

-----------------------------------------------------------------------------
(***************************************************************************)
(* What a request in each step is about.                                   *)
(***************************************************************************)

\* The steps that only change what one request does next.
LEMMA RequestCases ==
    ASSUME IInv, [Next]_vars
    PROVE  \/ UNCHANGED requestVars
           \/ \E r \in Request :
                \/ Finish(r)
                \/ \E o \in Operations, p \in Puzzle : Arrive(r, o, p)
                \/ Lock(r)
                \/ \E f \in BOOLEAN : CommitUpdate(r, f)
                \/ GetCatalogPuzzle(r) \/ GetPuzzlePieces(r)
<1>1. ASSUME NEW p \in Puzzle,
             \/ CreateCatalogPuzzle(p) \/ InsertPuzzlePieces(p)
             \/ SetPuzzleReady(p) \/ SetPuzzleFailed(p) \/ SubmitPuzzle(p)
             \/ \E c \in Category \cup {None} :
                  CreateParentPuzzle(p, c) \/ UpdateParentPuzzle(p, c)
      PROVE  UNCHANGED requestVars
  BY <1>1 DEF CreateCatalogPuzzle, InsertPuzzlePieces, SetPuzzleReady, SetPuzzleFailed,
     SubmitPuzzle, CreateParentPuzzle, UpdateParentPuzzle
<1>2. ASSUME NEW c \in Category,
             \/ \E s \in Slug : CreateCategory(c, s) \/ UpdateCategory(c, s)
             \/ DeleteCategory(c)
      PROVE  UNCHANGED requestVars
  BY <1>2 DEF CreateCategory, UpdateCategory, DeleteCategory
<1>3. ASSUME NEW r \in Request,
             \/ Rollback(r) \/ Deadlock(r) \/ CommitApprove(r) \/ CommitDelete(r)
             \/ ListPuzzleLayers(r)
      PROVE  Finish(r)
  BY <1>3 DEF Rollback, Deadlock, CommitApprove, CommitDelete, ListPuzzleLayers
<1>4. CASE UNCHANGED vars
  BY <1>4 DEF vars
<1>5. Operations = {"get", "update", "approve", "remove", "delete"}
  BY DEF Operations, Deletions
<1> QED
  BY <1>1, <1>2, <1>3, <1>4, <1>5 DEF Next

\* What a step means for request q: nothing, the end of its handler, or a step
\* of its own.
Still(q) ==
    /\ pc'[q] = pc[q] /\ op'[q] = op[q] /\ on'[q] = on[q]
    /\ locked'[q] = locked[q] /\ answer'[q] = answer[q]

Ended(q) == pc'[q] = "idle" /\ locked'[q] = 0 /\ answer'[q] = "none"

Arrived(q) ==
    \E o \in Operations, p \in Puzzle :
        /\ Arrive(q, o, p)
        /\ pc'[q] \in {"read", "lock"} /\ (pc'[q] = "lock" => o # "get")
        /\ op'[q] = o /\ on'[q] = p

Locking(q) ==
    Lock(q) /\ locked'[q] = locked[q] + 1 /\ UNCHANGED <<pc, op, on, answer>>

Updated(q) ==
    /\ pc[q] = "lock"
    /\ pc'[q] = "read"
    /\ UNCHANGED <<op, on, locked, answer>>

Opened(q) ==
    /\ GetCatalogPuzzle(q)
    /\ op[q] = "get"
    /\ on[q] \in entry \cap rated /\ status[on[q]] = "ready"
    /\ pc'[q] = "pieces"
    /\ UNCHANGED <<op, on, locked, answer>>

Answered(q) ==
    /\ GetPuzzlePieces(q)
    /\ pc'[q] = "layers"
    /\ answer'[q] = IF on[q] \in pieces \ bare THEN "whole" ELSE "empty"
    /\ UNCHANGED <<op, on, locked>>

LEMMA RequestStep ==
    ASSUME IInv, [Next]_vars, NEW q \in Request
    PROVE  \/ Still(q) \/ Ended(q) \/ Arrived(q) \/ Locking(q) \/ Updated(q)
           \/ Opened(q) \/ Answered(q)
<1>a. TypeOfRequests
  BY Types DEF IInv
<1>1. CASE UNCHANGED requestVars
  BY <1>1 DEF requestVars, Still
<1>2. ASSUME NEW r \in Request, Finish(r) PROVE Still(q) \/ Ended(q)
  BY <1>a, <1>2 DEF Finish, Goto, TypeOfRequests, Still, Ended
<1>3. ASSUME NEW r \in Request, NEW o \in Operations, NEW p \in Puzzle, Arrive(r, o, p)
      PROVE  Still(q) \/ Arrived(q)
  <2>1. CASE r = q
    BY <1>a, <1>3, <2>1 DEF Arrive, Goto, TypeOfRequests, Arrived
  <2>2. CASE r # q
    BY <1>a, <1>3, <2>2 DEF Arrive, Goto, TypeOfRequests, Still
  <2> QED
    BY <2>1, <2>2
<1>4. ASSUME NEW r \in Request, Lock(r) PROVE Still(q) \/ Locking(q)
  <2>1. locked' = [locked EXCEPT ![r] = @ + 1] /\ UNCHANGED <<pc, op, on, answer>>
    BY <1>4 DEF Lock
  <2>2. CASE r = q
    BY <1>a, <1>4, <2>1, <2>2 DEF TypeOfRequests, Locking
  <2>3. CASE r # q
    BY <1>a, <2>1, <2>3 DEF TypeOfRequests, Still
  <2> QED
    BY <2>2, <2>3
<1>5. ASSUME NEW r \in Request, NEW f \in BOOLEAN, CommitUpdate(r, f)
      PROVE  Still(q) \/ Updated(q)
  <2>1. pc[r] = "lock" /\ Goto(r, "read") /\ UNCHANGED <<op, on, locked, answer>>
    BY <1>5 DEF CommitUpdate, Ready
  <2> QED
    BY <1>a, <2>1 DEF Goto, TypeOfRequests, Still, Updated
<1>6. ASSUME NEW r \in Request, GetCatalogPuzzle(r)
      PROVE  Still(q) \/ Ended(q) \/ Opened(q)
  <2>1. CASE Finish(r)
    BY <1>2, <2>1
  <2>2. CASE ~Finish(r)
    <3>1. /\ op[r] = "get" /\ on[r] \in entry \cap rated /\ status[on[r]] = "ready"
          /\ Goto(r, "pieces") /\ UNCHANGED <<op, on, locked, answer>>
      BY <1>6, <2>2 DEF GetCatalogPuzzle
    <3> QED
      BY <1>a, <1>6, <3>1 DEF Goto, TypeOfRequests, Still, Opened
  <2> QED
    BY <2>1, <2>2
<1>7. ASSUME NEW r \in Request, GetPuzzlePieces(r) PROVE Still(q) \/ Answered(q)
  <2>1. CASE r = q
    BY <1>a, <1>7, <2>1 DEF GetPuzzlePieces, Goto, TypeOfRequests, Answered
  <2>2. CASE r # q
    BY <1>a, <1>7, <2>2 DEF GetPuzzlePieces, Goto, TypeOfRequests, Still
  <2> QED
    BY <2>1, <2>2
<1> QED
  BY <1>1, <1>2, <1>3, <1>4, <1>5, <1>6, <1>7, RequestCases

ShapeOf(r) ==
    /\ pc[r] = "idle" => locked[r] = 0
    /\ pc[r] # "idle" => on[r] \in Puzzle
    /\ pc[r] = "lock" => op[r] # "get" /\ locked[r] <= Len(Plan(op[r]))
    /\ pc[r] \in {"pieces", "layers"} => op[r] = "get"
    /\ answer[r] # "none" => pc[r] = "layers"

LEMMA ShapedStep == IInv /\ [Next]_vars => Shaped'
<1> SUFFICES ASSUME IInv, [Next]_vars, NEW q \in Request PROVE ShapeOf(q)'
  BY DEF Shaped, ShapeOf
<1>a. TypeOfRequests /\ ShapeOf(q)
  BY Types DEF IInv, Shaped, ShapeOf
<1>1. CASE Still(q)
  BY <1>a, <1>1 DEF Still, ShapeOf
<1>2. CASE Ended(q)
  BY <1>2 DEF Ended, ShapeOf
<1>3. ASSUME Arrived(q) PROVE ShapeOf(q)'
  <2>1. PICK o \in Operations, p \in Puzzle :
            /\ Arrive(q, o, p)
            /\ pc'[q] \in {"read", "lock"} /\ (pc'[q] = "lock" => o # "get")
            /\ op'[q] = o /\ on'[q] = p
    BY <1>3 DEF Arrived
  <2>2. locked'[q] = 0 /\ answer'[q] = "none"
    BY <1>a, <2>1 DEF Arrive, ShapeOf
  <2>3. locked'[q] <= Len(Plan(op'[q]))
    BY <2>1, <2>2, PlanBound
  <2> QED
    BY <2>1, <2>2, <2>3 DEF ShapeOf
<1>4. ASSUME Locking(q) PROVE ShapeOf(q)'
  <2>1. PICK n \in 0..3 : n = Len(Plan(op[q]))
    BY <1>a, PlanBound DEF TypeOfRequests, Operations, Deletions
  <2>2. /\ locked[q] < n /\ locked[q] \in Nat /\ pc[q] = "lock"
        /\ locked'[q] = locked[q] + 1 /\ UNCHANGED <<pc, op, on, answer>>
    BY <1>4, <1>a, <2>1 DEF Locking, Lock, Planning, TypeOfRequests
  <2>3. locked'[q] <= n
    BY <2>1, <2>2
  <2> QED
    BY <1>a, <2>1, <2>2, <2>3 DEF ShapeOf
<1>5. CASE Updated(q)
  BY <1>a, <1>5 DEF Updated, ShapeOf
<1>6. CASE Opened(q)
  BY <1>a, <1>6 DEF Opened, GetCatalogPuzzle, ShapeOf
<1>7. CASE Answered(q)
  BY <1>a, <1>7 DEF Answered, GetPuzzlePieces, ShapeOf
<1> QED
  BY <1>1, <1>2, <1>3, <1>4, <1>5, <1>6, <1>7, RequestStep

\* Rows of a puzzle that is not there.
LEMMA CommitApproveIsDue ==
    ASSUME IInv, NEW r \in Request, CommitApprove(r)
    PROVE  on[r] \in Puzzle /\ submission[on[r]] = "pending" /\ Exists(on[r])
<1>1. pc[r] = "lock" /\ op[r] = "approve" /\ locked[r] = 2
  BY PlanLength DEF CommitApprove, Ready
<1>2. on[r] \in Puzzle
  BY <1>1, Subject DEF IInv
<1> QED
  BY <1>1, <1>2 DEF IInv, ApprovalIsDue, RowsHavePuzzle

LEMMA RowsHavePuzzleStep == IInv /\ [Next]_vars => RowsHavePuzzle'
<1> SUFFICES ASSUME IInv, [Next]_vars, NEW p \in Puzzle, ~Exists(p)'
             PROVE  /\ p \notin entry' \cup rated' \cup pieces' \cup public'
                    /\ submission'[p] = "none" /\ category'[p] = None
  BY DEF RowsHavePuzzle
<1> USE DEF puzzleVars, listVars, requestVars
<1>a. TypeOfTables /\ Shaped /\ None \notin Category
  BY Types, CatalogueAssumption DEF IInv
<1>b. ~Exists(p) => /\ p \notin entry \cup rated \cup pieces \cup public
                    /\ submission[p] = "none" /\ category[p] = None
  BY DEF IInv, RowsHavePuzzle
<1>c. UNCHANGED <<puzzleVars, listVars>> => ~Exists(p)
  BY DEF Exists
<1>1. ASSUME NEW q \in Puzzle, NEW c \in Category \cup {None},
             CreateCatalogPuzzle(q) \/ CreateParentPuzzle(q, c)
      PROVE  q # p /\ ~Exists(p)
  BY <1>1, <1>a DEF CreateCatalogPuzzle, CreateParentPuzzle, Exists, TypeOfTables
<1>2. ASSUME NEW q \in Puzzle, NEW c \in Category \cup {None},
             \/ UpdateParentPuzzle(q, c) \/ InsertPuzzlePieces(q)
             \/ SetPuzzleReady(q) \/ SetPuzzleFailed(q) \/ SubmitPuzzle(q)
      PROVE  q # p /\ ~Exists(p)
  <2>1. Exists(q)
    BY <1>2 DEF UpdateParentPuzzle, InsertPuzzlePieces, SetPuzzleReady, SetPuzzleFailed,
       SubmitPuzzle, Free
  <2>2. \/ UNCHANGED status
        \/ \E s \in {"ready", "failed"} : status' = [status EXCEPT ![q] = s]
    BY <1>2 DEF UpdateParentPuzzle, InsertPuzzlePieces, SetPuzzleReady, SetPuzzleFailed,
       SubmitPuzzle
  <2> QED
    BY <1>a, <2>1, <2>2 DEF Exists, TypeOfTables
<1>3. ASSUME NEW r \in Request, CommitApprove(r) PROVE on[r] # p /\ ~Exists(p)
  BY <1>3, CommitApproveIsDue DEF CommitApprove, Exists
<1>4. ASSUME NEW q \in Puzzle, NEW c \in Category \cup {None},
             CreateCatalogPuzzle(q) \/ CreateParentPuzzle(q, c) \/ UpdateParentPuzzle(q, c)
      PROVE  /\ p \notin entry' \cup rated' \cup pieces' \cup public'
             /\ submission'[p] = "none" /\ category'[p] = None
  BY <1>4, <1>a, <1>b, <1>1, <1>2
     DEF CreateCatalogPuzzle, CreateParentPuzzle, UpdateParentPuzzle, TypeOfTables
<1>5. ASSUME NEW q \in Puzzle,
             \/ InsertPuzzlePieces(q) \/ SetPuzzleReady(q) \/ SetPuzzleFailed(q)
             \/ SubmitPuzzle(q)
      PROVE  /\ p \notin entry' \cup rated' \cup pieces' \cup public'
             /\ submission'[p] = "none" /\ category'[p] = None
  <2>1. q # p /\ ~Exists(p)
    BY <1>2, <1>5
  <2> QED
    BY <1>5, <1>a, <1>b, <2>1
       DEF InsertPuzzlePieces, SetPuzzleReady, SetPuzzleFailed, SubmitPuzzle, TypeOfTables
<1>6. ASSUME NEW r \in Request, CommitApprove(r)
      PROVE  /\ p \notin entry' \cup rated' \cup pieces' \cup public'
             /\ submission'[p] = "none" /\ category'[p] = None
  BY <1>6, <1>a, <1>b, <1>3 DEF CommitApprove, TypeOfTables
<1>7. ASSUME NEW r \in Request, CommitDelete(r)
      PROVE  /\ p \notin entry' \cup rated' \cup pieces' \cup public'
             /\ submission'[p] = "none" /\ category'[p] = None
  <2>1. CASE on[r] = p
    BY <1>7, <1>a, <2>1 DEF CommitDelete, TypeOfTables
  <2>2. CASE on[r] # p
    <3>1. ~Exists(p)
      BY <1>7, <1>a, <2>2 DEF CommitDelete, TypeOfTables, Exists
    <3> QED
      BY <1>7, <1>a, <1>b, <2>2, <3>1 DEF CommitDelete, TypeOfTables
  <2> QED
    BY <2>1, <2>2
<1>8. ASSUME NEW r \in Request, NEW f \in BOOLEAN, CommitUpdate(r, f)
      PROVE  UNCHANGED <<puzzleVars, entry, submission>>
  BY <1>8 DEF CommitUpdate
<1>9. ASSUME NEW r \in Request,
             \/ Lock(r) \/ Rollback(r) \/ Deadlock(r)
             \/ GetCatalogPuzzle(r) \/ GetPuzzlePieces(r) \/ ListPuzzleLayers(r)
             \/ \E o \in Operations, q \in Puzzle : Arrive(r, o, q)
      PROVE  UNCHANGED <<puzzleVars, entry, submission>>
  BY <1>9 DEF Lock, Rollback, Deadlock, GetCatalogPuzzle, GetPuzzlePieces, ListPuzzleLayers, Arrive
<1>10. ASSUME NEW c \in Category,
              \/ \E s \in Slug : CreateCategory(c, s) \/ UpdateCategory(c, s)
              \/ DeleteCategory(c)
       PROVE  UNCHANGED <<puzzleVars, entry, submission>>
  BY <1>10 DEF CreateCategory, UpdateCategory, DeleteCategory
<1>11. CASE UNCHANGED <<puzzleVars, entry, submission>>
  BY <1>11, <1>b DEF Exists
<1>12. CASE UNCHANGED vars
  BY <1>11, <1>12 DEF vars
<1> HIDE DEF puzzleVars, listVars, requestVars
<1>13. Operations = {"get", "update", "approve", "remove", "delete"}
  BY DEF Operations, Deletions
<1> QED
  BY <1>4, <1>5, <1>6, <1>7, <1>8, <1>9, <1>10, <1>11, <1>12, <1>13 DEF Next

\* What a request names stays, or goes with the puzzle.
LEMMA NamedStays ==
    ASSUME IInv, [Next]_vars, NEW p \in Puzzle, NEW o \in Operations,
           Named(o, p) \/ status[p] = "deleted"
    PROVE  Named(o, p)' \/ status'[p] = "deleted"
<1>1. CASE DeletedBy(p)
  BY <1>1, Types DEF IInv, TypeOfTables, DeletedBy, CommitDelete
<1>2. CASE Kept(p)
  BY <1>2 DEF Kept, Named
<1> QED
  BY <1>1, <1>2, RowsStep

LEMMA StillNamedStep == IInv /\ [Next]_vars => StillNamed'
<1> SUFFICES ASSUME IInv, [Next]_vars, NEW q \in Request, pc'[q] # "idle"
             PROVE  (Named(op[q], on[q]) \/ status[on[q]] = "deleted")'
  BY DEF StillNamed
<1>a. op[q] \in Operations
  BY Types DEF IInv, TypeOfRequests, Operations, Deletions
<1>1. ASSUME pc[q] # "idle", op'[q] = op[q], on'[q] = on[q]
      PROVE  (Named(op[q], on[q]) \/ status[on[q]] = "deleted")'
  <2>1. on[q] \in Puzzle /\ (Named(op[q], on[q]) \/ status[on[q]] = "deleted")
    BY <1>1, Subject DEF IInv, StillNamed
  <2>2. PICK o \in Operations, p \in Puzzle : o = op[q] /\ p = on[q]
    BY <1>a, <2>1
  <2>3. Named(o, p)' \/ status'[p] = "deleted"
    BY <2>1, <2>2, NamedStays
  <2> QED
    BY <1>1, <2>2, <2>3 DEF Named, Exists
<1>2. ASSUME Arrived(q) PROVE (Named(op[q], on[q]) \/ status[on[q]] = "deleted")'
  <2>1. PICK o \in Operations, p \in Puzzle : Arrive(q, o, p) /\ op'[q] = o /\ on'[q] = p
    BY <1>2 DEF Arrived
  <2>2. Named(o, p) \/ status[p] = "deleted"
    BY <2>1 DEF Arrive
  <2>3. UNCHANGED <<status, entry, submission>>
    BY <2>1 DEF Arrive, puzzleVars, listVars
  <2> QED
    BY <2>1, <2>2, <2>3 DEF Named, Exists
<1> QED
  BY <1>1, <1>2, RequestStep DEF Still, Ended, Locking, Lock, Planning, Updated, Opened, Answered,
     GetCatalogPuzzle, GetPuzzlePieces

\* The submission of a puzzle changes by its own decision or goes with it.
LEMMA SubmissionStep ==
    ASSUME IInv, [Next]_vars, NEW p \in Puzzle, submission[p] # "none",
           submission'[p] # submission[p]
    PROVE  \E r \in Request : on[r] = p /\ (CommitApprove(r) \/ CommitDelete(r))
<1> USE DEF puzzleVars, listVars, requestVars
<1>a. submission \in [Puzzle -> {"none", "pending", "approved"}]
  BY Types DEF IInv, TypeOfTables
<1>1. ASSUME NEW q \in Puzzle,
             \/ CreateCatalogPuzzle(q) \/ InsertPuzzlePieces(q)
             \/ SetPuzzleReady(q) \/ SetPuzzleFailed(q)
             \/ \E c \in Category \cup {None} :
                  CreateParentPuzzle(q, c) \/ UpdateParentPuzzle(q, c)
      PROVE  FALSE
  BY <1>1 DEF CreateCatalogPuzzle, InsertPuzzlePieces, SetPuzzleReady, SetPuzzleFailed,
     CreateParentPuzzle, UpdateParentPuzzle
<1>2. ASSUME NEW q \in Puzzle, SubmitPuzzle(q) PROVE FALSE
  BY <1>a, <1>2 DEF SubmitPuzzle
<1>3. ASSUME NEW c \in Category,
             \/ \E s \in Slug : CreateCategory(c, s) \/ UpdateCategory(c, s)
             \/ DeleteCategory(c)
      PROVE  FALSE
  BY <1>3 DEF CreateCategory, UpdateCategory, DeleteCategory
<1>4. ASSUME NEW r \in Request, CommitApprove(r) \/ CommitDelete(r) PROVE on[r] = p
  BY <1>a, <1>4 DEF CommitApprove, CommitDelete
<1>5. ASSUME NEW r \in Request,
             \/ Lock(r) \/ Rollback(r) \/ Deadlock(r)
             \/ \E f \in BOOLEAN : CommitUpdate(r, f)
             \/ GetCatalogPuzzle(r) \/ GetPuzzlePieces(r) \/ ListPuzzleLayers(r)
             \/ \E o \in Operations, q \in Puzzle : Arrive(r, o, q)
      PROVE  FALSE
  BY <1>5 DEF Lock, Rollback, Deadlock, CommitUpdate, GetCatalogPuzzle, GetPuzzlePieces,
     ListPuzzleLayers, Arrive
<1>6. CASE UNCHANGED vars
  BY <1>6 DEF vars
<1> HIDE DEF puzzleVars, listVars, requestVars
<1>7. Operations = {"get", "update", "approve", "remove", "delete"}
  BY DEF Operations, Deletions
<1> QED
  BY <1>1, <1>2, <1>3, <1>4, <1>5, <1>6, <1>7 DEF Next

LEMMA ApprovalIsDueStep == IInv /\ [Next]_vars => ApprovalIsDue'
<1> SUFFICES ASSUME IInv, [Next]_vars, NEW q \in Request,
                    pc'[q] = "lock", op'[q] = "approve", locked'[q] = 2
             PROVE  submission'[on'[q]] = "pending"
  BY DEF ApprovalIsDue
<1>1. ASSUME Still(q) PROVE submission'[on'[q]] = "pending"
  <2> DEFINE p == on[q]
  <2>1. /\ pc[q] = "lock" /\ op[q] = "approve" /\ locked[q] = 2 /\ on'[q] = p
        /\ p \in Puzzle /\ submission[p] = "pending"
    BY <1>1, Subject DEF Still, IInv, ApprovalIsDue
  <2> HIDE DEF p
  <2>2. Passed(q, "catalog_submissions", p) /\ RowExists(<<"catalog_submissions", p>>)
    <3>1. RowExists(<<"catalog_submissions", p>>)
      BY <2>1, RowExistsIs
    <3>2. on[q] = p
      BY DEF p
    <3> QED
      BY <2>1, <3>1, <3>2, PassedIs DEF IInv
  <2>3. ASSUME NEW r \in Request, on[r] = p, CommitApprove(r) \/ CommitDelete(r)
        PROVE  FALSE
    <3>1. /\ pc[r] = "lock"
          /\ \/ op[r] = "approve" /\ locked[r] = 2
             \/ op[r] \in Deletions /\ locked[r] = 3
      BY <2>3, PlanLength DEF CommitApprove, CommitDelete, Ready, Deletions
    <3>2. Passed(r, "catalog_submissions", p)
      BY <2>1, <2>3, <3>1, PassedIs DEF IInv
    <3>3. r = q
      BY <2>1, <2>2, <3>2 DEF IInv, LockInv, LocksAreHeld, Table
    <3>4. Finish(r) /\ TypeOfRequests
      BY <2>3, Types DEF IInv, CommitApprove, CommitDelete
    <3> QED
      BY <3>3, <3>4, FinishEnds
  <2> QED
    BY <2>1, <2>3, SubmissionStep
<1>2. ASSUME Locking(q) PROVE submission'[on'[q]] = "pending"
  <2>1. locked[q] = 1
    BY <1>2, Types DEF Locking, IInv, TypeOfRequests
  <2>2. op[q] = "approve" /\ ~Fruitless(q) /\ UNCHANGED <<submission, on>>
    BY <1>2 DEF Locking, Lock, listVars
  <2> QED
    BY <2>1, <2>2 DEF Fruitless
<1>3. ~Arrived(q)
  BY DEF Arrived, Arrive, IInv, Shaped
<1> QED
  BY <1>1, <1>2, <1>3, RequestStep DEF Ended, Updated, Opened, Answered

\* The status of a puzzle becomes "ready" in one statement only.
LEMMA ReadyStep ==
    ASSUME IInv, [Next]_vars, NEW p \in Puzzle, status'[p] = "ready"
    PROVE  SetPuzzleReady(p) \/ status[p] = "ready"
<1> USE DEF puzzleVars, listVars, requestVars
<1>a. status \in [Puzzle -> {"none", "processing", "ready", "failed", "deleted"}]
  BY Types DEF IInv, TypeOfTables
<1>1. ASSUME NEW q \in Puzzle, NEW c \in Category \cup {None},
             \/ CreateCatalogPuzzle(q) \/ CreateParentPuzzle(q, c) \/ UpdateParentPuzzle(q, c)
             \/ InsertPuzzlePieces(q) \/ SetPuzzleReady(q) \/ SetPuzzleFailed(q)
             \/ SubmitPuzzle(q)
      PROVE  SetPuzzleReady(p) \/ status[p] = "ready"
  <2>1. CASE SetPuzzleReady(q) /\ q = p
    BY <2>1
  <2>2. CASE SetPuzzleReady(q) /\ q # p
    BY <1>a, <2>2 DEF SetPuzzleReady
  <2>3. CASE ~SetPuzzleReady(q)
    BY <1>a, <1>1, <2>3 DEF CreateCatalogPuzzle, CreateParentPuzzle, UpdateParentPuzzle,
       InsertPuzzlePieces, SetPuzzleFailed, SubmitPuzzle
  <2> QED
    BY <2>1, <2>2, <2>3
<1>2. ASSUME NEW r \in Request, CommitDelete(r) PROVE status[p] = "ready"
  BY <1>a, <1>2 DEF CommitDelete
<1>3. ASSUME NEW r \in Request,
             \/ Lock(r) \/ Rollback(r) \/ Deadlock(r) \/ CommitApprove(r)
             \/ \E f \in BOOLEAN : CommitUpdate(r, f)
             \/ GetCatalogPuzzle(r) \/ GetPuzzlePieces(r) \/ ListPuzzleLayers(r)
             \/ \E o \in Operations, q \in Puzzle : Arrive(r, o, q)
      PROVE  status[p] = "ready"
  BY <1>3 DEF Lock, Rollback, Deadlock, CommitApprove, CommitUpdate, GetCatalogPuzzle,
     GetPuzzlePieces, ListPuzzleLayers, Arrive
<1>4. ASSUME NEW c \in Category,
             \/ \E s \in Slug : CreateCategory(c, s) \/ UpdateCategory(c, s)
             \/ DeleteCategory(c)
      PROVE  status[p] = "ready"
  BY <1>4 DEF CreateCategory, UpdateCategory, DeleteCategory
<1>5. CASE UNCHANGED vars
  BY <1>5 DEF vars
<1> HIDE DEF puzzleVars, listVars, requestVars
<1>6. Operations = {"get", "update", "approve", "remove", "delete"}
  BY DEF Operations, Deletions
<1> QED
  BY <1>1, <1>2, <1>3, <1>4, <1>5, <1>6 DEF Next

\* How many pieces a puzzle is cut into is settled by its configuration.
LEMMA BareKept == [Next]_vars => UNCHANGED bare
<1> SUFFICES ASSUME [Next]_vars PROVE bare' = bare
  OBVIOUS
<1> USE DEF puzzleVars
<1>1. ASSUME NEW p \in Puzzle, NEW c \in Category \cup {None},
             \/ CreateCatalogPuzzle(p) \/ CreateParentPuzzle(p, c) \/ UpdateParentPuzzle(p, c)
             \/ InsertPuzzlePieces(p) \/ SetPuzzleReady(p) \/ SetPuzzleFailed(p)
             \/ SubmitPuzzle(p)
      PROVE  bare' = bare
  BY <1>1 DEF CreateCatalogPuzzle, CreateParentPuzzle, UpdateParentPuzzle, InsertPuzzlePieces,
     SetPuzzleReady, SetPuzzleFailed, SubmitPuzzle
<1>2. ASSUME NEW r \in Request,
             \/ Lock(r) \/ Rollback(r) \/ Deadlock(r) \/ CommitApprove(r) \/ CommitDelete(r)
             \/ \E f \in BOOLEAN : CommitUpdate(r, f)
             \/ GetCatalogPuzzle(r) \/ GetPuzzlePieces(r) \/ ListPuzzleLayers(r)
             \/ \E o \in Operations, p \in Puzzle : Arrive(r, o, p)
      PROVE  bare' = bare
  BY <1>2 DEF Lock, Rollback, Deadlock, CommitApprove, CommitDelete, CommitUpdate,
     GetCatalogPuzzle, GetPuzzlePieces, ListPuzzleLayers, Arrive
<1>3. ASSUME NEW c \in Category, NEW s \in Slug,
             CreateCategory(c, s) \/ UpdateCategory(c, s)
      PROVE  bare' = bare
  BY <1>3 DEF CreateCategory, UpdateCategory
<1>4. ASSUME NEW c \in Category, DeleteCategory(c) PROVE bare' = bare
  BY <1>4 DEF DeleteCategory
<1>5. CASE UNCHANGED vars
  BY <1>5 DEF vars
<1> HIDE DEF puzzleVars
<1>6. Operations = {"get", "update", "approve", "remove", "delete"}
  BY DEF Operations, Deletions
<1> QED
  BY <1>1, <1>2, <1>3, <1>4, <1>5, <1>6 DEF Next

\* The columns a game is read from.
LEMMA ShownStep == IInv /\ [Next]_vars => (ReadyIsWhole /\ ReadyIsRead /\ GameIsWhole)'
<1> SUFFICES ASSUME IInv, [Next]_vars PROVE ReadyIsWhole' /\ ReadyIsRead' /\ GameIsWhole'
  OBVIOUS
<1>a. TypeOfTables /\ TypeOfRequests /\ Shaped /\ ReadyIsWhole /\ ReadyIsRead /\ GameIsWhole
  BY Types DEF IInv, ShownInv
<1>b. ASSUME NEW p \in Puzzle PROVE Kept(p) \/ status'[p] = "deleted"
  <2>1. DeletedBy(p) => status'[p] = "deleted"
    BY <1>a DEF DeletedBy, CommitDelete, TypeOfTables
  <2> QED
    BY <2>1, RowsStep
<1>1. ReadyIsWhole'
  <2> SUFFICES ASSUME NEW p \in Puzzle, status'[p] = "ready" PROVE p \in pieces' \cap rated'
    BY DEF ReadyIsWhole
  <2>1. CASE SetPuzzleReady(p)
    BY <2>1 DEF SetPuzzleReady
  <2>2. CASE status[p] = "ready"
    BY <1>a, <1>b, <2>2 DEF ReadyIsWhole, Kept
  <2> QED
    BY <2>1, <2>2, ReadyStep
<1>2. ReadyIsRead'
  <2> SUFFICES ASSUME NEW q \in Request, pc'[q] = "pieces"
               PROVE  on'[q] \in pieces' \/ status'[on'[q]] = "deleted"
    BY DEF ReadyIsRead
  <2>1. on'[q] = on[q] /\ on[q] \in Puzzle /\ (on[q] \in pieces \/ status[on[q]] = "deleted")
    <3>1. CASE Still(q)
      BY <1>a, <3>1 DEF Still, ReadyIsRead, Shaped
    <3>2. CASE Opened(q)
      <4>1. pc[q] = "read"
        BY <3>2 DEF Opened, GetCatalogPuzzle
      <4>2. on[q] \in Puzzle /\ on'[q] = on[q] /\ status[on[q]] = "ready"
        BY <1>a, <3>2, <4>1 DEF Opened, Shaped
      <4> QED
        BY <1>a, <4>2 DEF ReadyIsWhole
    <3>3. ~Locking(q)
      BY DEF Locking, Lock, Planning
    <3> QED
      BY <3>1, <3>2, <3>3, RequestStep DEF Ended, Arrived, Updated, Answered
  <2> QED
    BY <1>b, <2>1 DEF Kept
<1>3. GameIsWhole'
  <2> SUFFICES ASSUME NEW q \in Request, answer'[q] = "empty"
               PROVE  status'[on'[q]] = "deleted" \/ on'[q] \in bare'
    BY DEF GameIsWhole
  <2>1. /\ on'[q] = on[q] /\ on[q] \in Puzzle
        /\ status[on[q]] = "deleted" \/ on[q] \in bare
    <3>1. CASE answer'[q] = answer[q] /\ on'[q] = on[q]
      BY <1>a, <3>1 DEF GameIsWhole, Shaped
    <3>2. CASE Answered(q)
      <4>1. pc[q] = "pieces" /\ on'[q] = on[q] /\ on[q] \notin pieces \ bare
        BY <3>2 DEF Answered, GetPuzzlePieces
      <4> QED
        BY <1>a, <4>1 DEF ReadyIsRead, Shaped
    <3>3. ~Arrived(q)
      BY <1>a DEF Arrived, Arrive, Shaped
    <3> QED
      BY <3>1, <3>2, <3>3, RequestStep DEF Still, Ended, Locking, Updated, Opened
  <2> QED
    BY <1>b, <2>1, BareKept DEF Kept
<1> QED
  BY <1>1, <1>2, <1>3

\* The foreign key of puzzles.category_id: a puzzle is filed under a category
\* that is there, and no category goes that has a puzzle.
LEMMA FilesAreKeptStep == IInv /\ [Next]_vars => FilesAreKept'
<1> SUFFICES ASSUME IInv, [Next]_vars, NEW p \in Puzzle, category'[p] # None
             PROVE  category'[p] \in Categories'
  BY DEF FilesAreKept
<1> USE DEF puzzleVars, listVars, requestVars
<1>a. TypeOfTables /\ (category[p] # None => category[p] \in Categories)
  BY Types DEF IInv, ShownInv, FilesAreKept
<1>b. slug' = slug => Categories' = Categories
  BY DEF Categories
<1>1. ASSUME NEW q \in Puzzle, NEW c \in Category \cup {None},
             CreateParentPuzzle(q, c) \/ UpdateParentPuzzle(q, c)
      PROVE  category'[p] \in Categories'
  <2>1. c \in Categories \cup {None} /\ category' = [category EXCEPT ![q] = c] /\ slug' = slug
    BY <1>1 DEF CreateParentPuzzle, UpdateParentPuzzle
  <2> QED
    BY <1>a, <1>b, <2>1 DEF TypeOfTables
<1>2. ASSUME NEW r \in Request, CommitDelete(r) PROVE category'[p] \in Categories'
  <2>1. category'[p] = category[p] /\ slug' = slug
    BY <1>a, <1>2 DEF CommitDelete, TypeOfTables
  <2> QED
    BY <1>a, <1>b, <2>1
<1>3. ASSUME NEW c \in Category, NEW s \in Slug, CreateCategory(c, s) \/ UpdateCategory(c, s)
      PROVE  category'[p] \in Categories'
  <2>1. slug' = [slug EXCEPT ![c] = s] /\ category' = category
    BY <1>3 DEF CreateCategory, UpdateCategory
  <2>2. Categories \subseteq Categories'
    BY <1>a, <2>1 DEF Categories, TypeOfTables
  <2> QED
    BY <1>a, <2>1, <2>2
<1>4. ASSUME NEW c \in Category, DeleteCategory(c) PROVE category'[p] \in Categories'
  <2>1. slug' = [slug EXCEPT ![c] = "deleted"] /\ category' = category /\ category[p] # c
    BY <1>4 DEF DeleteCategory
  <2>2. Categories \ {c} \subseteq Categories'
    BY <1>a, <2>1 DEF Categories, TypeOfTables
  <2> QED
    BY <1>a, <2>1, <2>2
<1>5. CASE category' = category /\ slug' = slug
  BY <1>5, <1>a, <1>b
<1>6. ASSUME NEW q \in Puzzle,
             \/ CreateCatalogPuzzle(q) \/ InsertPuzzlePieces(q)
             \/ SetPuzzleReady(q) \/ SetPuzzleFailed(q) \/ SubmitPuzzle(q)
      PROVE  category' = category /\ slug' = slug
  BY <1>6 DEF CreateCatalogPuzzle, InsertPuzzlePieces, SetPuzzleReady, SetPuzzleFailed, SubmitPuzzle
<1>7. ASSUME NEW r \in Request,
             \/ Lock(r) \/ Rollback(r) \/ Deadlock(r) \/ CommitApprove(r)
             \/ \E f \in BOOLEAN : CommitUpdate(r, f)
             \/ GetCatalogPuzzle(r) \/ GetPuzzlePieces(r) \/ ListPuzzleLayers(r)
             \/ \E o \in Operations, q \in Puzzle : Arrive(r, o, q)
      PROVE  category' = category /\ slug' = slug
  BY <1>7 DEF Lock, Rollback, Deadlock, CommitApprove, CommitUpdate, GetCatalogPuzzle,
     GetPuzzlePieces, ListPuzzleLayers, Arrive
<1>8. CASE UNCHANGED vars
  BY <1>5, <1>8 DEF vars
<1> HIDE DEF puzzleVars, listVars, requestVars
<1>9. Operations = {"get", "update", "approve", "remove", "delete"}
  BY DEF Operations, Deletions
<1> QED
  BY <1>1, <1>2, <1>3, <1>4, <1>5, <1>6, <1>7, <1>8, <1>9 DEF Next

-----------------------------------------------------------------------------
(***************************************************************************)
(* Invariance.                                                             *)
(***************************************************************************)
LEMMA Initially == Init => IInv
<1> SUFFICES ASSUME Init PROVE IInv
  OBVIOUS
<1>1. TypeOK /\ Shaped
  BY DEF Init, TypeOK, Shaped
<1>2. RowsHavePuzzle /\ StillNamed /\ ApprovalIsDue /\ ShownInv
  BY DEF Init, RowsHavePuzzle, StillNamed, ApprovalIsDue, ShownInv, ReadyIsWhole, ReadyIsRead,
     GameIsWhole, FilesAreKept
<1>3. \A t \in Table, p \in Puzzle : held[<<t, p>>] = None
  BY DEF Init, Row
<1>4. LockInv
  BY <1>3, CatalogueAssumption DEF LockInv, LocksArePlanned, LockedRowsExist, LocksAreHeld,
     Passed, Init
<1> QED
  BY <1>1, <1>2, <1>4 DEF IInv

\* The layers together are an inductive invariant of the catalogue.
LEMMA Invariance == Spec => []IInv
<1>1. IInv /\ [Next]_vars => IInv'
  <2> SUFFICES ASSUME IInv, [Next]_vars PROVE IInv'
    OBVIOUS
  <2>1. ShownInv'
    BY ShownStep, FilesAreKeptStep DEF ShownInv
  <2> QED
    BY <2>1, TypeStep, ShapedStep, RowsHavePuzzleStep, StillNamedStep, LockInvStep,
       ApprovalIsDueStep DEF IInv
<1> QED
  BY <1>1, Initially, PTL DEF Spec

-----------------------------------------------------------------------------
(***************************************************************************)
(* Deadlocks.                                                              *)
(***************************************************************************)

\* A request that waits for b, and b, in terms of what both have passed.
LEMMA WaitsFor ==
    ASSUME IInv, NEW r \in Request, NEW b \in Request, Blocker(r) = b
    PROVE  /\ Planning(r) /\ on[r] \in Puzzle /\ NextTable(r) \in Table
           /\ held[<<NextTable(r), on[r]>>] = b
           /\ Passed(b, NextTable(r), on[r])
           /\ Exists(on[r])
<1>1. Planning(r) /\ Finds(r) /\ held[NextRow(r)] = b
  BY CatalogueAssumption DEF Blocker
<1>2. NextTable(r) \in Table /\ on[r] \in Puzzle
  BY <1>1, NextIsTable DEF IInv
<1>3. held[<<NextTable(r), on[r]>>] = b
  BY <1>1 DEF NextRow, NextTable
<1>4. Passed(b, NextTable(r), on[r])
  BY <1>2, <1>3 DEF IInv, LockInv, LocksArePlanned
<1>5. RowExists(<<NextTable(r), on[r]>>)
  BY <1>1, FindsIs
<1>6. Exists(on[r])
  BY <1>2, <1>5, RowExistsIs DEF IInv, RowsHavePuzzle, Table
<1> QED
  BY <1>1, <1>2, <1>3, <1>4, <1>6

\* In a ring each request waits, is waited for and so has passed a row.
LEMMA InRing ==
    ASSUME IInv, NEW C \in Rings, NEW r \in C
    PROVE  /\ r \in Request /\ pc[r] = "lock" /\ locked[r] \in 1..2
           /\ locked[r] < Len(Plan(op[r]))
           /\ op[r] \in {"update", "approve"} \cup Deletions
           /\ Blocker(r) \in C
<1>1. r \in Request /\ C \subseteq Request /\ Blocker(r) \in C
  BY DEF Rings
<1>2. PICK q \in C : Blocker(q) = r
  BY DEF Rings
<1>3. Planning(r)
  BY <1>1, WaitsFor
<1>4. pc[r] = "lock" /\ locked[r] \in 0..3 /\ op[r] \in {"update", "approve"} \cup Deletions
  BY <1>1, <1>3 DEF Planning, IInv, TypeOK, Shaped, Deletions
<1>5. locked[r] >= 1
  <2>1. Passed(r, NextTable(q), on[q])
    BY <1>1, <1>2, WaitsFor
  <2>2. PICK i \in 1 .. locked[r] : TRUE
    BY <2>1 DEF Passed
  <2> QED
    BY <1>4, <2>2
<1>6. ASSUME NEW n \in 0..3, n = Len(Plan(op[r])) PROVE locked[r] \in 1..2 /\ locked[r] < n
  <2>1. locked[r] < n
    BY <1>3, <1>6 DEF Planning
  <2> QED
    BY <1>4, <1>5, <2>1
<1>7. Len(Plan(op[r])) \in 0..3
  BY <1>4, PlanBound DEF Operations
<1> QED
  BY <1>1, <1>4, <1>6, <1>7

\* Approvals and updates wait last for the puzzle, so one that holds the puzzle
\* waits for nothing.
LEMMA RingHasDeletion ==
    ASSUME IInv, NEW C \in Rings
    PROVE  \E r \in C : op[r] \in Deletions
<1> SUFFICES ASSUME \A r \in C : op[r] \notin Deletions PROVE FALSE
  OBVIOUS
<1>1. PICK r \in C : TRUE
  BY DEF Rings
<1>2. ASSUME NEW q \in C PROVE op[q] \in {"update", "approve"} /\ locked[q] = 1 /\ pc[q] = "lock"
  <2>1. op[q] = "update" \/ op[q] = "approve"
    BY InRing
  <2>2. Len(Plan(op[q])) = 2
    BY <2>1, PlanLength
  <2>3. locked[q] \in 1..2 /\ locked[q] < Len(Plan(op[q])) /\ pc[q] = "lock"
    BY InRing
  <2>4. locked[q] = 1
    BY <2>2, <2>3
  <2> QED
    BY <2>1, <2>3, <2>4
<1>3. NextTable(r) = "puzzles"
  BY <1>2, PlanRows DEF NextTable
<1>4. PICK b \in C : b = Blocker(r)
  BY InRing
<1>5. r \in Request /\ b \in Request
  BY InRing
<1>6. Passed(b, "puzzles", on[r]) /\ on[r] \in Puzzle
  BY <1>3, <1>4, <1>5, WaitsFor
<1>7. on[b] = on[r]
  BY <1>6 DEF Passed
<1> QED
  BY <1>2, <1>5, <1>6, <1>7, PassedIs DEF IInv, Deletions

\* Deletions lock the puzzle first, so only one of them goes on to its rows.
LEMMA RingHasOther ==
    ASSUME IInv, NEW C \in Rings
    PROVE  \E r \in C : op[r] \notin Deletions
<1> SUFFICES ASSUME \A r \in C : op[r] \in Deletions PROVE FALSE
  OBVIOUS
<1>1. PICK r \in C : TRUE
  BY DEF Rings
<1>2. ASSUME NEW q \in C PROVE op[q] \in Deletions /\ locked[q] \in 1..2 /\ pc[q] = "lock"
  BY InRing
<1>3. PICK b \in C : b = Blocker(r)
  BY InRing
<1>4. r \in Request /\ b \in Request
  BY InRing
<1>5. /\ Passed(b, NextTable(r), on[r]) /\ on[r] \in Puzzle /\ Exists(on[r])
      /\ NextTable(r) \in Table
  BY <1>3, <1>4, WaitsFor
<1>6. on[b] = on[r]
  BY <1>5 DEF Passed
<1>7. Passed(r, "puzzles", on[r]) /\ Passed(b, "puzzles", on[r])
  BY <1>2, <1>4, <1>5, <1>6, PassedIs DEF IInv
<1>8. held[<<"puzzles", on[r]>>] = r /\ held[<<"puzzles", on[r]>>] = b
  BY <1>4, <1>5, <1>7, RowExistsIs DEF IInv, LockInv, LocksAreHeld, Table
<1>9. Passed(r, NextTable(r), on[r])
  BY <1>5, <1>8
<1>10. CASE locked[r] = 1
  <2>1. NextTable(r) = "catalog_submissions"
    BY <1>2, <1>10, PlanRows DEF NextTable
  <2> QED
    BY <1>2, <1>4, <1>5, <1>9, <1>10, <2>1, PassedIs DEF IInv, Deletions
<1>11. CASE locked[r] = 2
  <2>1. NextTable(r) = "catalog_puzzles"
    BY <1>2, <1>11, PlanRows DEF NextTable
  <2> QED
    BY <1>2, <1>4, <1>5, <1>9, <1>11, <2>1, PassedIs DEF IInv, Deletions
<1> QED
  BY <1>2, <1>10, <1>11

-----------------------------------------------------------------------------
(***************************************************************************)
(* The life of a puzzle and its publication: the steps of the catalogue    *)
(* are steps of PuzzleLife and Publication, or change nothing there.       *)
(***************************************************************************)

\* The commit of a deletion either removes a puzzle that is there with all its
\* rows, or, were the puzzle gone, would change nothing.
LEMMA DeletionRemoves ==
    ASSUME IInv, NEW r \in Request, CommitDelete(r)
    PROVE  /\ on[r] \in Puzzle
           /\ ~Exists(on[r]) =>
                UNCHANGED <<status, rated, pieces, public, entry, submission>>
<1>1. pc[r] = "lock" /\ on[r] \in Puzzle
  BY Subject DEF CommitDelete, Ready, IInv
<1>2. ASSUME ~Exists(on[r])
      PROVE  UNCHANGED <<status, rated, pieces, public, entry, submission>>
  <2>1. /\ on[r] \notin entry \cup rated \cup pieces \cup public
        /\ submission[on[r]] = "none"
    BY <1>1, <1>2 DEF IInv, RowsHavePuzzle
  <2>2. status[on[r]] = "deleted"
    BY <1>1, <1>2, <2>1 DEF IInv, StillNamed, Named
  <2>3. TypeOfTables
    BY Types DEF IInv
  <2>4. status' = status /\ submission' = submission
    BY <2>1, <2>2, <2>3 DEF CommitDelete, TypeOfTables
  <2> QED
    BY <2>1, <2>4 DEF CommitDelete
<1> QED
  BY <1>1, <1>2

\* The steps that neither refinement sees.
LEMMA Unseen ==
    ASSUME \/ \E c \in Category : \/ \E s \in Slug : CreateCategory(c, s) \/ UpdateCategory(c, s)
                                  \/ DeleteCategory(c)
           \/ \E p \in Puzzle, c \in Category \cup {None} : UpdateParentPuzzle(p, c)
           \/ \E r \in Request :
                \/ Lock(r) \/ Rollback(r) \/ Deadlock(r)
                \/ \E f \in BOOLEAN : CommitUpdate(r, f)
                \/ GetCatalogPuzzle(r) \/ GetPuzzlePieces(r) \/ ListPuzzleLayers(r)
                \/ \E o \in {"get", "update", "approve", "remove", "delete"}, p \in Puzzle :
                     Arrive(r, o, p)
           \/ UNCHANGED vars
    PROVE  UNCHANGED <<status, rated, pieces, public, entry, submission>>
BY DEF CreateCategory, UpdateCategory, DeleteCategory, UpdateParentPuzzle, Lock, Rollback,
   Deadlock, CommitUpdate, GetCatalogPuzzle, GetPuzzlePieces, ListPuzzleLayers, Arrive, vars,
   puzzleVars, listVars

LEMMA LifeInitially == Init => Life!LifeInit
BY DEF Init, Life!LifeInit

LEMMA LifeStep == IInv /\ [Next]_vars => [Life!LifeNext]_(Life!lifeVars)
<1> SUFFICES ASSUME IInv, [Next]_vars PROVE Life!LifeNext \/ UNCHANGED Life!lifeVars
  OBVIOUS
<1>a. UNCHANGED <<status, rated, pieces>> => UNCHANGED Life!lifeVars
  BY DEF Life!lifeVars
<1>1. ASSUME NEW p \in Puzzle, NEW c \in Category \cup {None},
             CreateCatalogPuzzle(p) \/ CreateParentPuzzle(p, c)
      PROVE  Life!Create(p)
  BY <1>1 DEF CreateCatalogPuzzle, CreateParentPuzzle, Life!Create
<1>2. ASSUME NEW p \in Puzzle, InsertPuzzlePieces(p) PROVE Life!Fill(p)
  BY <1>2 DEF InsertPuzzlePieces, Exists, Life!Fill, Life!Lives
<1>3. ASSUME NEW p \in Puzzle, SetPuzzleReady(p) PROVE Life!Release(p)
  BY <1>3 DEF SetPuzzleReady, Free, Exists, Life!Release, Life!Lives
<1>4. ASSUME NEW p \in Puzzle, SetPuzzleFailed(p) PROVE Life!Withhold(p)
  BY <1>4 DEF SetPuzzleFailed, Free, Exists, Life!Withhold, Life!Lives
<1>5. ASSUME NEW r \in Request, CommitDelete(r)
      PROVE  Life!LifeNext \/ UNCHANGED Life!lifeVars
  <2>1. CASE Exists(on[r])
    <3>1. Life!Remove(on[r])
      BY <1>5, <2>1 DEF CommitDelete, Exists, Life!Remove, Life!Lives
    <3> QED
      BY <1>5, <3>1, DeletionRemoves DEF Life!LifeNext
  <2>2. CASE ~Exists(on[r])
    BY <1>a, <1>5, <2>2, DeletionRemoves
  <2> QED
    BY <2>1, <2>2
<1>6. ASSUME NEW p \in Puzzle, SubmitPuzzle(p) PROVE UNCHANGED Life!lifeVars
  BY <1>a, <1>6 DEF SubmitPuzzle, puzzleVars
<1>7. ASSUME NEW r \in Request, CommitApprove(r) PROVE UNCHANGED Life!lifeVars
  BY <1>a, <1>7 DEF CommitApprove
<1>8. (\E p \in Puzzle : Life!Create(p) \/ Life!Fill(p) \/ Life!Release(p) \/ Life!Withhold(p))
         => Life!LifeNext
  BY DEF Life!LifeNext
<1> QED
  BY <1>a, <1>1, <1>2, <1>3, <1>4, <1>5, <1>6, <1>7, <1>8, Unseen DEF Next

ShelfRow == [p \in Puzzle |-> IF Exists(p) THEN "live" ELSE status[p]]
Waiting == {p \in Puzzle : submission[p] = "pending"}

LEMMA ShelfInitially == Init => Shelf!PublicationInit
<1> SUFFICES ASSUME Init PROVE Shelf!PublicationInit
  OBVIOUS
<1>1. ShelfRow = [p \in Puzzle |-> "none"] /\ Waiting = {}
  BY DEF Init, ShelfRow, Waiting, Exists
<1> QED
  BY <1>1 DEF Init, Shelf!PublicationInit, ShelfRow, Waiting

LEMMA ShelfKept ==
    ASSUME ShelfRow' = ShelfRow, UNCHANGED <<public, entry>>, Waiting' = Waiting
    PROVE  UNCHANGED Shelf!publicationVars
BY DEF Shelf!publicationVars, ShelfRow, Waiting

LEMMA ShelfStep == IInv /\ [Next]_vars => [Shelf!PublicationNext]_(Shelf!publicationVars)
<1> SUFFICES ASSUME IInv, [Next]_vars
             PROVE  Shelf!PublicationNext \/ UNCHANGED Shelf!publicationVars
  OBVIOUS
<1>a. TypeOfTables
  BY Types DEF IInv
<1>b. UNCHANGED status => ShelfRow' = ShelfRow
  BY DEF ShelfRow, Exists
<1>c. UNCHANGED submission => Waiting' = Waiting
  BY DEF Waiting
<1>d. UNCHANGED <<status, public, entry, submission>> => UNCHANGED Shelf!publicationVars
  BY <1>b, <1>c, ShelfKept
<1>1. ASSUME NEW p \in Puzzle, NEW c \in Category \cup {None},
             CreateCatalogPuzzle(p) \/ CreateParentPuzzle(p, c)
      PROVE  Shelf!PublicationNext
  <2>1. /\ status[p] = "none" /\ status' = [status EXCEPT ![p] = "processing"]
        /\ entry' \in {entry, entry \cup {p}} /\ UNCHANGED <<public, submission>>
    BY <1>1 DEF CreateCatalogPuzzle, CreateParentPuzzle, listVars
  <2>2. ShelfRow[p] = "none" /\ ShelfRow' = [ShelfRow EXCEPT ![p] = "live"]
    BY <1>a, <2>1 DEF ShelfRow, Exists, TypeOfTables
  <2>3. Shelf!Add(p)
    BY <1>c, <2>1, <2>2 DEF Shelf!Add, ShelfRow, Waiting
  <2> QED
    BY <2>3 DEF Shelf!PublicationNext
<1>2. ASSUME NEW p \in Puzzle, InsertPuzzlePieces(p)
      PROVE  UNCHANGED <<status, public, entry, submission>>
  BY <1>2 DEF InsertPuzzlePieces, listVars
<1>3. ASSUME NEW p \in Puzzle, SetPuzzleReady(p) \/ SetPuzzleFailed(p)
      PROVE  UNCHANGED Shelf!publicationVars
  <2>1. /\ Exists(p) /\ UNCHANGED <<public, entry, submission>>
        /\ \E s \in {"ready", "failed"} : status' = [status EXCEPT ![p] = s]
    BY <1>3 DEF SetPuzzleReady, SetPuzzleFailed, Free, listVars
  <2>2. ShelfRow' = ShelfRow
    BY <1>a, <2>1 DEF ShelfRow, Exists, TypeOfTables
  <2> QED
    BY <1>c, <2>1, <2>2, ShelfKept
<1>4. ASSUME NEW p \in Puzzle, SubmitPuzzle(p) PROVE Shelf!PublicationNext
  <2>1. /\ Exists(p) /\ submission' = [submission EXCEPT ![p] = "pending"]
        /\ UNCHANGED <<status, public, entry>>
    BY <1>4 DEF SubmitPuzzle, puzzleVars
  <2>2. Waiting' = Waiting \cup {p}
    BY <1>a, <2>1 DEF Waiting, TypeOfTables
  <2>3. ShelfRow[p] = "live"
    BY <2>1 DEF ShelfRow
  <2>4. Shelf!Submit(p)
    BY <1>b, <2>1, <2>2, <2>3 DEF Shelf!Submit, ShelfRow, Waiting
  <2> QED
    BY <2>4 DEF Shelf!PublicationNext
<1>5. ASSUME NEW r \in Request, CommitApprove(r) PROVE Shelf!PublicationNext
  <2>1. PICK p \in Puzzle : p = on[r] /\ submission[p] = "pending" /\ Exists(p)
    BY <1>5, CommitApproveIsDue
  <2>2. /\ submission' = [submission EXCEPT ![p] = "approved"]
        /\ public' = public \cup {p} /\ entry' = entry \cup {p} /\ UNCHANGED status
    BY <1>5, <2>1 DEF CommitApprove
  <2>3. p \in Waiting /\ Waiting' = Waiting \ {p}
    BY <1>a, <2>1, <2>2 DEF Waiting, TypeOfTables
  <2>4. ShelfRow[p] = "live"
    BY <2>1 DEF ShelfRow
  <2>5. Shelf!Publish(p)
    BY <1>b, <2>2, <2>3, <2>4 DEF Shelf!Publish, ShelfRow, Waiting
  <2> QED
    BY <2>5 DEF Shelf!PublicationNext
<1>6. ASSUME NEW r \in Request, CommitDelete(r)
      PROVE  Shelf!PublicationNext \/ UNCHANGED Shelf!publicationVars
  <2>1. PICK p \in Puzzle : p = on[r]
    BY <1>6, DeletionRemoves
  <2>2. /\ status' = [status EXCEPT ![p] = "deleted"]
        /\ submission' = [submission EXCEPT ![p] = "none"]
        /\ public' = public \ {p} /\ entry' = entry \ {p}
    BY <1>6, <2>1 DEF CommitDelete
  <2>3. CASE ~Exists(p)
    BY <1>d, <1>6, <2>1, <2>3, DeletionRemoves
  <2>4. CASE Exists(p)
    <3>1. ShelfRow[p] = "live" /\ ShelfRow' = [ShelfRow EXCEPT ![p] = "deleted"]
      BY <1>a, <2>1, <2>2, <2>4 DEF ShelfRow, Exists, TypeOfTables
    <3>2. Waiting' = Waiting \ {p}
      BY <1>a, <2>1, <2>2 DEF Waiting, TypeOfTables
    <3>3. Shelf!Withdraw(p)
      BY <2>2, <3>1, <3>2 DEF Shelf!Withdraw, ShelfRow, Waiting
    <3> QED
      BY <3>3 DEF Shelf!PublicationNext
  <2> QED
    BY <2>3, <2>4
<1> QED
  BY <1>d, <1>1, <1>2, <1>3, <1>4, <1>5, <1>6, Unseen DEF Next

-----------------------------------------------------------------------------
(***************************************************************************)
(* The theorems.                                                           *)
(***************************************************************************)

\* Every variable keeps its type, and only entries that are there are featured.
THEOREM TypeCorrect == Spec => []TypeOK
<1>1. IInv => TypeOK
  BY DEF IInv
<1> QED
  BY <1>1, Invariance, PTL

\* Whatever happens between the statements that read a game, a child gets one
\* without pieces only of a puzzle that has been deleted meanwhile or was cut
\* into none.
THEOREM GamesAreWhole == Spec => []GameIsWhole
<1>1. IInv => GameIsWhole
  BY DEF IInv, ShownInv
<1> QED
  BY <1>1, Invariance, PTL

\* However many requests lock rows of however many puzzles, those that wait for
\* each other in a ring are some deletions and some approvals or updates.
THEOREM DeadlocksNeedDeletion == Spec => []DeadlockNeedsDeletion
<1>1. IInv => DeadlockNeedsDeletion
  BY RingHasDeletion, RingHasOther DEF DeadlockNeedsDeletion, Deletions
<1> QED
  BY <1>1, Invariance, PTL

\* Everything in the list can be opened, and is found under the category it is
\* filed in.
THEOREM CatalogueStaysComplete == Spec => []CatalogueIsComplete
<1>1. IInv => CatalogueIsComplete
  <2> SUFFICES ASSUME IInv, NEW p \in Listed
               PROVE  /\ p \in rated
                      /\ category[p] # None => \E s \in Slug : p \in ListedUnder(s)
    BY DEF CatalogueIsComplete
  <2>1. p \in Puzzle /\ p \in rated
    BY DEF Listed, IInv, TypeOK, ShownInv, ReadyIsWhole
  <2>2. ASSUME category[p] # None PROVE \E s \in Slug : p \in ListedUnder(s)
    <3>1. category[p] \in Categories /\ slug[category[p]] \in Slug
      BY <2>1, <2>2 DEF IInv, ShownInv, FilesAreKept, Categories
    <3> QED
      BY <3>1 DEF ListedUnder
  <2> QED
    BY <2>1, <2>2
<1> QED
  BY <1>1, Invariance, PTL

\* With row locks, overlapping requests and deletions, a puzzle of the catalogue
\* still lives as PuzzleLife says.
THEOREM CatalogueImplementsPuzzleLife == Spec => ImplementsPuzzleLife
BY Invariance, LifeInitially, LifeStep,
   PTL DEF Spec, ImplementsPuzzleLife, Life!LifeSpec

\* Transactions that lock row by row, in different orders, publish and take back
\* as if each were one step.
THEOREM CatalogueImplementsPublication == Spec => ImplementsPublication
BY Invariance, ShelfInitially, ShelfStep,
   PTL DEF Spec, ImplementsPublication, Shelf!PublicationSpec

=============================================================================
