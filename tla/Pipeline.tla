------------------------------ MODULE Pipeline ------------------------------
(***************************************************************************)
(* From an uploaded image to a playable puzzle: the handlers that create   *)
(* and delete puzzles, the tasks table, the workers that poll it, the      *)
(* puzzle_pieces table and the piece images in S3.                         *)
(*                                                                         *)
(*   internal/store/task.go            the statements a worker issues      *)
(*   internal/worker/worker.go         poll                                *)
(*   internal/worker/process_image.go  processImage                        *)
(*   internal/handler, internal/store  creation and deletion of puzzles    *)
(*                                                                         *)
(* Each database statement or transaction, and each S3 call, is one step;  *)
(* between two of them anything else may happen.  A call may fail before   *)
(* it takes effect (Faulty) or after (LostAck), and a worker may stop      *)
(* between any two calls.  A task belongs to exactly one puzzle, so tasks  *)
(* are named by their puzzle.                                              *)
(***************************************************************************)
EXTENDS Integers

CONSTANTS
    Puzzle,       \* the puzzles that may ever be created
    Worker,       \* worker goroutines, one per running server process
    NoTask,       \* a worker's job while it holds none
    MaxAttempts,  \* maxAttempts of worker.go
    Cuts,         \* how many pieces an image may be cut into, or Undecodable
    Faulty,       \* the calls that may fail with no effect
    LostAck,      \* the calls that may take effect and yet return an error
    MaxFaults     \* bound: failures and stops of one behaviour

Undecodable == -1

Calls == {"ClaimTask", "GetPuzzleByID", "GetObject", "PutObject",
          "CreatePuzzlePieces", "SetPuzzleReady", "SetPuzzleStatus",
          "RetryOrFailTask", "CompleteTask", "Stop"}

ASSUME PipelineAssumption ==
    /\ NoTask \notin Puzzle
    /\ MaxAttempts \in Nat \ {0}
    /\ Cuts \subseteq Nat \cup {Undecodable}
    /\ Faulty \subseteq Calls
    /\ LostAck \subseteq Calls
    /\ MaxFaults \in Nat

VARIABLES
    image,      \* the puzzles whose original image is in S3
    puzzle,     \* puzzles.status, "none" before the INSERT, "deleted" after
    rated,      \* puzzles.difficulty is not NULL
    cut,        \* pieces the image and config of the puzzle give
    rows,       \* copies of each of its pieces in puzzle_pieces
    stored,     \* its first stored[p] piece images are in S3
    task,       \* tasks.status, "none" before the INSERT
    attempts,   \* tasks.attempts
    earlier,    \* the tasks with a smaller tasks.created_at
    pc,         \* what each worker does next
    job,        \* the task it holds
    put,        \* pieces it has uploaded in this attempt
    faults      \* failures and stops so far

dbVars == <<puzzle, rated, cut, rows, task, attempts, earlier>>
workerVars == <<pc, job, put>>
vars == <<image, puzzle, rated, cut, rows, stored, task, attempts, earlier,
          pc, job, put, faults>>

Steps == {"poll", "commit", "load", "download", "upload", "rate",
          "markFailed", "retry", "complete"}

TypeOK ==
    /\ image \subseteq Puzzle
    /\ puzzle \in [Puzzle -> {"none", "processing", "ready", "failed", "deleted"}]
    /\ rated \in [Puzzle -> BOOLEAN]
    /\ cut \in [Puzzle -> Nat \cup {Undecodable}]
    /\ rows \in [Puzzle -> Nat]
    /\ stored \in [Puzzle -> Nat]
    /\ task \in [Puzzle -> {"none", "pending", "processing", "completed", "failed"}]
    /\ attempts \in [Puzzle -> Nat]
    /\ earlier \in [Puzzle -> SUBSET Puzzle]
    /\ pc \in [Worker -> Steps]
    /\ job \in [Worker -> Puzzle \cup {NoTask}]
    /\ put \in [Worker -> Nat]
    /\ faults \in 0..MaxFaults

Init ==
    /\ image = {}
    /\ puzzle = [p \in Puzzle |-> "none"]
    /\ rated = [p \in Puzzle |-> FALSE]
    /\ cut = [p \in Puzzle |-> Undecodable]
    /\ rows = [p \in Puzzle |-> 0]
    /\ stored = [p \in Puzzle |-> 0]
    /\ task = [p \in Puzzle |-> "none"]
    /\ attempts = [p \in Puzzle |-> 0]
    /\ earlier = [p \in Puzzle |-> {}]
    /\ pc = [w \in Worker |-> "poll"]
    /\ job = [w \in Worker |-> NoTask]
    /\ put = [w \in Worker |-> 0]
    /\ faults = 0

-----------------------------------------------------------------------------
(* Failures.                                                               *)

Fails(call) ==
    /\ call \in Faulty
    /\ faults < MaxFaults
    /\ faults' = faults + 1

FailsLate(call) ==
    /\ call \in LostAck
    /\ faults < MaxFaults
    /\ faults' = faults + 1

Exists(p) == puzzle[p] \in {"processing", "ready", "failed"}

\* Mutant of SetStatus: a status the CHECK constraint does not know.
SetStatusMisnamed(p, s) ==
    puzzle' = [puzzle EXCEPT ![p] = IF s = "ready" THEN "done" ELSE s]

\* Mutant of SetStatus: an INSERT ... ON CONFLICT instead of the UPDATE.
SetStatusUpsert(p, s) == puzzle' = [puzzle EXCEPT ![p] = s]

\* UPDATE puzzles ... WHERE id: no row, no error.
SetStatus(p, s) ==
    puzzle' = IF Exists(p) THEN [puzzle EXCEPT ![p] = s] ELSE puzzle

-----------------------------------------------------------------------------
(* The HTTP handlers.                                                      *)

\* First half of HandleParentCreatePuzzle and HandleAdminCreateCatalogPuzzle:
\* the image goes to S3 under a fresh key.  When the request ends here, the
\* object stays.
StoreImage(p) ==
    /\ p \notin image
    /\ image' = image \cup {p}
    /\ UNCHANGED <<dbVars, stored, workerVars, faults>>

\* Mutant of CreatePuzzle: the row is inserted before the image is stored.
CreatePuzzleFirst(p) ==
    /\ puzzle[p] = "none"
    /\ puzzle' = [puzzle EXCEPT ![p] = "processing"]
    /\ task' = [task EXCEPT ![p] = "pending"]
    /\ earlier' = [earlier EXCEPT ![p] = {q \in Puzzle : task[q] # "none"}]
    /\ \E n \in Cuts : cut' = [cut EXCEPT ![p] = n]
    /\ UNCHANGED <<image, rated, rows, stored, attempts, workerVars, faults>>

\* Second half: one transaction inserts the puzzle and its task.
CreatePuzzle(p) ==
    /\ p \in image
    /\ puzzle[p] = "none"
    /\ puzzle' = [puzzle EXCEPT ![p] = "processing"]
    /\ task' = [task EXCEPT ![p] = "pending"]
    /\ earlier' = [earlier EXCEPT ![p] = {q \in Puzzle : task[q] # "none"}]
    /\ \E n \in Cuts : cut' = [cut EXCEPT ![p] = n]
    /\ UNCHANGED <<image, rated, rows, stored, attempts, workerVars, faults>>

\* DeleteParentPuzzle, DeleteCatalogPuzzle: pieces go with the puzzle (ON
\* DELETE CASCADE), its task and its S3 objects stay.
DeletePuzzle(p) ==
    /\ Exists(p)
    /\ puzzle' = [puzzle EXCEPT ![p] = "deleted"]
    /\ rated' = [rated EXCEPT ![p] = FALSE]
    /\ rows' = [rows EXCEPT ![p] = 0]
    /\ UNCHANGED <<image, cut, stored, task, attempts, earlier, workerVars, faults>>

-----------------------------------------------------------------------------
(* A worker.                                                               *)

At(w, step) == pc[w] = step
Goto(w, step) == pc' = [pc EXCEPT ![w] = step]

\* The worker drops its job and polls again.
Drop(w) ==
    /\ Goto(w, "poll")
    /\ job' = [job EXCEPT ![w] = NoTask]
    /\ UNCHANGED put

Locked(p) == \E w \in Worker : At(w, "commit") /\ job[w] = p

\* Mutant of Claimable: tasks in processing are taken to be stuck and offered again.
ClaimableStuck(p) == task[p] \in {"pending", "processing"} /\ ~Locked(p)

Claimable(p) == task[p] = "pending" /\ ~Locked(p)

\* ClaimTask, SELECT ... ORDER BY created_at LIMIT 1 FOR UPDATE SKIP LOCKED:
\* the oldest pending row no other transaction has locked.
LockTask(w) ==
    /\ At(w, "poll")
    /\ \E p \in Puzzle :
        /\ Claimable(p)
        /\ \A q \in earlier[p] : ~Claimable(q)
        /\ job' = [job EXCEPT ![w] = p]
    /\ Goto(w, "commit")
    /\ UNCHANGED <<image, dbVars, stored, put, faults>>

Claim(p) ==
    /\ task' = [task EXCEPT ![p] = "processing"]
    /\ attempts' = [attempts EXCEPT ![p] = @ + 1]

\* ClaimTask, UPDATE and COMMIT.  An error after the commit leaves the task
\* to nobody: poll returns without processing it.
CommitClaim(w) ==
    /\ At(w, "commit")
    /\ \/ Claim(job[w]) /\ Goto(w, "load") /\ UNCHANGED <<job, put, faults>>
       \/ Fails("ClaimTask") /\ Drop(w) /\ UNCHANGED <<task, attempts>>
       \/ FailsLate("ClaimTask") /\ Claim(job[w]) /\ Drop(w)
    /\ UNCHANGED <<image, puzzle, rated, cut, rows, stored, earlier>>

\* processImage before its deferred SetPuzzleStatus is installed: an error
\* goes straight back to poll.
GetPuzzleByID(w) ==
    /\ At(w, "load")
    /\ \/ Exists(job[w]) /\ Goto(w, "download") /\ UNCHANGED faults
       \/ ~Exists(job[w]) /\ Goto(w, "retry") /\ UNCHANGED faults
       \/ Fails("GetPuzzleByID") /\ Goto(w, "retry")
    /\ UNCHANGED <<image, dbVars, stored, job, put>>

\* Download, decode, resize and slice: they change nothing and their outcome
\* depends on the image and the config alone.
FetchAndSlice(w) ==
    LET sliced == job[w] \in image /\ cut[job[w]] # Undecodable
    IN  /\ At(w, "download")
        /\ \/ sliced /\ Goto(w, "upload") /\ UNCHANGED faults
           \/ ~sliced /\ Goto(w, "markFailed") /\ UNCHANGED faults
           \/ Fails("GetObject") /\ Goto(w, "markFailed")
        /\ put' = [put EXCEPT ![w] = 0]
        /\ UNCHANGED <<image, dbVars, stored, job>>

\* One iteration of the upload loop.  The key is made of the puzzle and the
\* piece number, so a retry overwrites what an earlier attempt stored.
UploadPiece(w) ==
    LET p == job[w]
        store == stored' = [stored EXCEPT ![p] = IF @ > put[w] THEN @ ELSE put[w] + 1]
    IN  /\ At(w, "upload")
        /\ put[w] < cut[p]
        /\ \/ /\ store
              /\ put' = [put EXCEPT ![w] = @ + 1]
              /\ UNCHANGED <<pc, faults>>
           \/ Fails("PutObject") /\ Goto(w, "markFailed") /\ UNCHANGED <<stored, put>>
           \/ FailsLate("PutObject") /\ store /\ Goto(w, "markFailed") /\ UNCHANGED put
        /\ UNCHANGED <<image, dbVars, job>>

\* Mutant of InsertPieces: return nil instead of tx.Commit, the deferred
\* Rollback undoes the INSERTs.
InsertPiecesUncommitted(p) == UNCHANGED rows

InsertPieces(p) ==
    rows' = IF Exists(p) THEN [rows EXCEPT ![p] = @ + 1] ELSE rows

\* All rows in one transaction of plain INSERTs: rows an earlier attempt
\* left are still there.  With the puzzle gone the foreign key refuses them,
\* unless there is nothing to insert.
CreatePuzzlePieces(w) ==
    LET p == job[w]
        accepted == Exists(p) \/ cut[p] = 0
    IN  /\ At(w, "upload")
        /\ put[w] = cut[p]
        /\ \/ accepted /\ InsertPieces(p) /\ Goto(w, "rate") /\ UNCHANGED faults
           \/ ~accepted /\ Goto(w, "markFailed") /\ UNCHANGED <<rows, faults>>
           \/ /\ Fails("CreatePuzzlePieces")
              /\ Goto(w, "markFailed")
              /\ UNCHANGED rows
           \/ /\ FailsLate("CreatePuzzlePieces")
              /\ accepted /\ InsertPieces(p) /\ Goto(w, "markFailed")
        /\ UNCHANGED <<image, puzzle, rated, cut, stored, task, attempts, earlier, job, put>>

\* Difficulty and status change in one UPDATE.
SetPuzzleReady(w) ==
    LET p == job[w]
        update == /\ SetStatus(p, "ready")
                  /\ rated' = IF Exists(p) THEN [rated EXCEPT ![p] = TRUE] ELSE rated
    IN  /\ At(w, "rate")
        /\ \/ update /\ Goto(w, "complete") /\ UNCHANGED faults
           \/ /\ Fails("SetPuzzleReady")
              /\ Goto(w, "markFailed")
              /\ UNCHANGED <<puzzle, rated>>
           \/ FailsLate("SetPuzzleReady") /\ update /\ Goto(w, "markFailed")
        /\ UNCHANGED <<image, cut, rows, stored, task, attempts, earlier, job, put>>

\* Mutant of MarkFailed: the error does not reach poll.
MarkFailedSwallowed(w) ==
    /\ At(w, "markFailed")
    /\ SetStatus(job[w], "failed")
    /\ Goto(w, "complete")
    /\ UNCHANGED <<image, rated, cut, rows, stored, task, attempts, earlier, job, put, faults>>

\* The deferred SetPuzzleStatus(failed); its own error is only logged.
MarkFailed(w) ==
    /\ At(w, "markFailed")
    /\ \/ SetStatus(job[w], "failed") /\ UNCHANGED faults
       \/ Fails("SetPuzzleStatus") /\ UNCHANGED puzzle
    /\ Goto(w, "retry")
    /\ UNCHANGED <<image, rated, cut, rows, stored, task, attempts, earlier, job, put>>

\* Mutants of AfterFailure: one attempt too few; a task with attempts left is
\* not offered again.
AfterFailureEarly(p) == IF attempts[p] + 1 >= MaxAttempts THEN "failed" ELSE "pending"
AfterFailureKept(p) == IF attempts[p] >= MaxAttempts THEN "failed" ELSE "processing"

AfterFailure(p) == IF attempts[p] >= MaxAttempts THEN "failed" ELSE "pending"

\* RetryOrFailTask compares the attempts of the row; its own error is only
\* logged and poll goes on to the next task.
RetryOrFailTask(w) ==
    /\ At(w, "retry")
    /\ \/ task' = [task EXCEPT ![job[w]] = AfterFailure(job[w])] /\ UNCHANGED faults
       \/ Fails("RetryOrFailTask") /\ UNCHANGED task
    /\ Drop(w)
    /\ UNCHANGED <<image, puzzle, rated, cut, rows, stored, attempts, earlier>>

CompleteTask(w) ==
    /\ At(w, "complete")
    /\ \/ task' = [task EXCEPT ![job[w]] = "completed"] /\ UNCHANGED faults
       \/ Fails("CompleteTask") /\ UNCHANGED task
    /\ Drop(w)
    /\ UNCHANGED <<image, puzzle, rated, cut, rows, stored, attempts, earlier>>

\* The process is killed, or main cancels the context on SIGTERM and every
\* later call of the attempt, the deferred one included, fails with it: what
\* was done stays, an open transaction is rolled back, and the worker of the
\* restarted process holds nothing.
Stop(w) ==
    /\ ~At(w, "poll")
    /\ Fails("Stop")
    /\ Drop(w)
    /\ UNCHANGED <<image, dbVars, stored>>

-----------------------------------------------------------------------------
Work(w) ==
    \/ LockTask(w)
    \/ CommitClaim(w)
    \/ GetPuzzleByID(w)
    \/ FetchAndSlice(w)
    \/ UploadPiece(w)
    \/ CreatePuzzlePieces(w)
    \/ SetPuzzleReady(w)
    \/ MarkFailed(w)
    \/ RetryOrFailTask(w)
    \/ CompleteTask(w)

Next ==
    \/ \E p \in Puzzle : StoreImage(p) \/ CreatePuzzle(p) \/ DeletePuzzle(p)
    \/ \E w \in Worker : Work(w) \/ Stop(w)

Spec == Init /\ [][Next]_vars

\* A running worker keeps running: the ticker fires every pollInterval and
\* every call of an attempt returns.
FairSpec == Spec /\ \A w \in Worker : WF_vars(Work(w))

-----------------------------------------------------------------------------
(* Properties.                                                             *)

\* FOR UPDATE SKIP LOCKED, the commit of the claim and the fact that only
\* RetryOrFailTask makes a task pending again: no task is held by two workers,
\* and a held task is pending only while its claim is uncommitted.
OneWorkerPerTask ==
    \A w \in Worker : job[w] # NoTask =>
        /\ task[job[w]] = IF At(w, "commit") THEN "pending" ELSE "processing"
        /\ \A v \in Worker : job[v] = job[w] => v = w

\* A task is started at most MaxAttempts times, is offered again only while an
\* attempt is left, and fails for good only when none is.
AttemptsBounded ==
    \A p \in Puzzle :
        /\ attempts[p] <= MaxAttempts
        /\ task[p] = "pending" => attempts[p] < MaxAttempts
        /\ task[p] = "failed" => attempts[p] = MaxAttempts

\* Every S3 key in the database names an object that is there: an image is put
\* before its puzzle is inserted, the pieces of a cut before their rows.
NoDanglingKeys ==
    \A p \in Puzzle : Exists(p) =>
        /\ p \in image
        /\ rows[p] > 0 => stored[p] >= cut[p]

\* A puzzle shown as ready came from an image that could be cut, has all of its
\* pieces, each with its image, and a difficulty.
ReadyIsPlayable ==
    \A p \in Puzzle : puzzle[p] = "ready" =>
        /\ rated[p]
        /\ cut[p] \in 0..stored[p]
        /\ rows[p] > 0

\* A completed task has done its work: no other attempt, marking of a failure or
\* lost answer leaves its puzzle anything but ready, unless it was deleted.
CompletedIsReady ==
    \A p \in Puzzle : task[p] = "completed" => puzzle[p] \in {"ready", "deleted"}

Life == INSTANCE PuzzleLife
    WITH status <- puzzle, whole <- {p \in Puzzle : rows[p] > 0},
         rated <- {p \in Puzzle : rated[p]}

\* Workers, retries, stops and deletions keep the promise the catalogue is built
\* on: the pieces are there before the status "ready", they stay as long as the
\* puzzle, and no late call of a worker brings a removed puzzle back.
ImplementsPuzzleLife == Life!LifeSpec

\* CreatePuzzlePieces does not remove the rows of an earlier attempt: there is
\* at most one copy of each piece per attempt, and none before the first.
CopiesBounded ==
    \A p \in Puzzle : rows[p] <= attempts[p]

\* Once a task is completed or failed no worker touches it, its puzzle or the
\* pieces again; only deleting the puzzle does.
FinishedIsFinal ==
    [][\A p \in Puzzle : task[p] \in {"completed", "failed"} =>
         /\ task'[p] = task[p]
         /\ \/ puzzle'[p] = "deleted"
            \/ puzzle'[p] = puzzle[p] /\ rows'[p] = rows[p] /\ rated'[p] = rated[p]]_vars

\* Every task ends, whichever calls of its attempts fail, as long as no worker
\* stops and the statements that record the outcome succeed.
EveryTaskEnds ==
    \A p \in Puzzle :
        task[p] = "pending" ~> task[p] \in {"completed", "failed"}

\* With fewer failures than attempts, an image that can be cut becomes a ready
\* puzzle and one that cannot is shown as failed, unless the puzzle is deleted.
OutcomeShown ==
    \A p \in Puzzle :
        puzzle[p] = "processing" ~>
            puzzle[p] \in {"deleted", IF cut[p] = Undecodable THEN "failed" ELSE "ready"}

=============================================================================
