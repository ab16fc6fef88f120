-------------------------- MODULE Pipeline_proofs --------------------------
(***************************************************************************)
(* Proofs about the pipeline, for any number of puzzles, workers, attempts,*)
(* pieces and failures.  Each layer of the invariant is inductive relative *)
(* to the ones before it.                                                  *)
(***************************************************************************)
EXTENDS PipelineQueue, TLAPS

(***************************************************************************)
(* Layer 1: types, and a worker holds a task exactly when it is not        *)
(* polling, so job[w] names a puzzle in every step of an attempt.          *)
(***************************************************************************)
JobHeld == \A w \in Worker : At(w, "poll") <=> job[w] = NoTask

TypeInv == TypeOK /\ JobHeld

LEMMA TypeInit == Init => TypeInv
BY PipelineAssumption DEF Init, TypeInv, TypeOK, JobHeld, At, Steps, Undecodable

USE DEF At, Goto, Drop, Fails, FailsLate, dbVars, workerVars

LEMMA TypeStep == TypeInv /\ [Next]_vars => TypeInv'
<1> SUFFICES ASSUME TypeInv, [Next]_vars PROVE TypeInv'
  OBVIOUS
<1> USE PipelineAssumption DEF TypeInv, TypeOK, JobHeld, Steps
<1>1. ASSUME NEW p \in Puzzle, StoreImage(p) PROVE TypeInv'
  BY <1>1 DEF StoreImage
<1>2. ASSUME NEW p \in Puzzle, CreatePuzzle(p) PROVE TypeInv'
  BY <1>2 DEF CreatePuzzle, Undecodable
<1>3. ASSUME NEW p \in Puzzle, DeletePuzzle(p) PROVE TypeInv'
  BY <1>3 DEF DeletePuzzle
<1>4. ASSUME NEW w \in Worker, LockTask(w) PROVE TypeInv'
  BY <1>4 DEF LockTask
<1>5. ASSUME NEW w \in Worker, CommitClaim(w) PROVE TypeInv'
  BY <1>5 DEF CommitClaim, Claim
<1>6. ASSUME NEW w \in Worker, GetPuzzleByID(w) PROVE TypeInv'
  BY <1>6 DEF GetPuzzleByID
<1>7. ASSUME NEW w \in Worker, FetchAndSlice(w) PROVE TypeInv'
  BY <1>7 DEF FetchAndSlice
<1>8. ASSUME NEW w \in Worker, UploadPiece(w) PROVE TypeInv'
  BY <1>8 DEF UploadPiece, Undecodable
<1>9. ASSUME NEW w \in Worker, CreatePuzzlePieces(w) PROVE TypeInv'
  BY <1>9 DEF CreatePuzzlePieces, InsertPieces
<1>10. ASSUME NEW w \in Worker, SetPuzzleReady(w) PROVE TypeInv'
  <2>1. rated' \in [Puzzle -> BOOLEAN]
    <3>1. job[w] \in Puzzle
      BY <1>10 DEF SetPuzzleReady
    <3>2. rated' \in {rated, [rated EXCEPT ![job[w]] = TRUE]}
      BY <1>10 DEF SetPuzzleReady
    <3> QED
      BY <3>1, <3>2, Zenon
  <2>2. /\ puzzle' \in [Puzzle -> {"none", "processing", "ready", "failed", "deleted"}]
        /\ pc' \in [Worker -> Steps]
        /\ faults' \in 0..MaxFaults
        /\ JobHeld'
    BY <1>10 DEF SetPuzzleReady, SetStatus
  <2>3. UNCHANGED <<image, cut, rows, stored, task, attempts, earlier, job, put>>
    BY <1>10 DEF SetPuzzleReady
  <2> QED
    BY <2>1, <2>2, <2>3
<1>11. ASSUME NEW w \in Worker, MarkFailed(w) PROVE TypeInv'
  BY <1>11 DEF MarkFailed, SetStatus
<1>12. ASSUME NEW w \in Worker, RetryOrFailTask(w) PROVE TypeInv'
  BY <1>12 DEF RetryOrFailTask, AfterFailure
<1>13. ASSUME NEW w \in Worker, CompleteTask(w) PROVE TypeInv'
  BY <1>13 DEF CompleteTask
<1>14. ASSUME NEW w \in Worker, Stop(w) PROVE TypeInv'
  BY <1>14 DEF Stop
<1>15. CASE UNCHANGED vars
  BY <1>15 DEF vars
<1> QED
  BY <1>1, <1>2, <1>3, <1>4, <1>5, <1>6, <1>7, <1>8, <1>9, <1>10, <1>11,
     <1>12, <1>13, <1>14, <1>15 DEF Next, Work

(***************************************************************************)
(* Layer 2: the tasks table.  A task has a row exactly when its puzzle has *)
(* been created, so a puzzle with a pending or processing task is never    *)
(* inserted a second time.                                                 *)
(***************************************************************************)
TaskRows ==
    \A p \in Puzzle :
        /\ task[p] = "none" <=> puzzle[p] = "none"
        /\ task[p] = "none" => attempts[p] = 0

TaskInv == TaskRows /\ OneWorkerPerTask /\ AttemptsBounded

LEMMA TaskInit == Init => TaskInv
BY PipelineAssumption DEF Init, TaskInv, TaskRows, OneWorkerPerTask, AttemptsBounded

LEMMA TaskStep == TypeInv /\ TaskInv /\ [Next]_vars => TaskInv'
<1> SUFFICES ASSUME TypeInv, TaskInv, [Next]_vars PROVE TaskInv'
  OBVIOUS
<1> USE PipelineAssumption DEF TypeInv, TypeOK, JobHeld, Steps,
           TaskInv, TaskRows, OneWorkerPerTask, AttemptsBounded
<1>1. ASSUME NEW p \in Puzzle, StoreImage(p) PROVE TaskInv'
  BY <1>1 DEF StoreImage
<1>2. ASSUME NEW p \in Puzzle, CreatePuzzle(p) PROVE TaskInv'
  BY <1>2 DEF CreatePuzzle
<1>3. ASSUME NEW p \in Puzzle, DeletePuzzle(p) PROVE TaskInv'
  BY <1>3 DEF DeletePuzzle, Exists
<1>4. ASSUME NEW w \in Worker, LockTask(w) PROVE TaskInv'
  BY <1>4 DEF LockTask, Claimable, Locked
<1>5. ASSUME NEW w \in Worker, CommitClaim(w) PROVE TaskInv'
  BY <1>5 DEF CommitClaim, Claim
<1>6. ASSUME NEW w \in Worker, GetPuzzleByID(w) PROVE TaskInv'
  BY <1>6 DEF GetPuzzleByID, Exists
<1>7. ASSUME NEW w \in Worker, FetchAndSlice(w) PROVE TaskInv'
  BY <1>7 DEF FetchAndSlice, Undecodable
<1>8. ASSUME NEW w \in Worker, UploadPiece(w) PROVE TaskInv'
  BY <1>8 DEF UploadPiece
<1>9. ASSUME NEW w \in Worker, CreatePuzzlePieces(w) PROVE TaskInv'
  BY <1>9 DEF CreatePuzzlePieces, InsertPieces, Exists
<1>10. ASSUME NEW w \in Worker, SetPuzzleReady(w) PROVE TaskInv'
  BY <1>10 DEF SetPuzzleReady, SetStatus, Exists
<1>11. ASSUME NEW w \in Worker, MarkFailed(w) PROVE TaskInv'
  BY <1>11 DEF MarkFailed, SetStatus, Exists
<1>12. ASSUME NEW w \in Worker, RetryOrFailTask(w) PROVE TaskInv'
  <2> DEFINE p == job[w]
  <2>1. /\ p \in Puzzle
        /\ task[p] = "processing"
        /\ attempts[p] <= MaxAttempts
    BY <1>12 DEF RetryOrFailTask
  <2>2. /\ UNCHANGED <<puzzle, attempts>>
        /\ pc' = [pc EXCEPT ![w] = "poll"]
        /\ job' = [job EXCEPT ![w] = NoTask]
    BY <1>12 DEF RetryOrFailTask
  <2>3. \/ UNCHANGED task
        \/ task' = [task EXCEPT ![p] = "failed"] /\ attempts[p] = MaxAttempts
        \/ task' = [task EXCEPT ![p] = "pending"] /\ attempts[p] < MaxAttempts
    <3>1. AfterFailure(p) = IF attempts[p] >= MaxAttempts THEN "failed" ELSE "pending"
      BY DEF AfterFailure
    <3>2. UNCHANGED task \/ task' = [task EXCEPT ![p] = AfterFailure(p)]
      BY <1>12 DEF RetryOrFailTask
    <3>3. attempts[p] \in Nat
      BY <2>1
    <3> QED
      BY <2>1, <3>1, <3>2, <3>3
  <2> HIDE DEF p
  <2>4. \A v \in Worker : v # w /\ job[v] # NoTask => job[v] # p
    BY <1>12 DEF RetryOrFailTask, p
  <2>5. TaskRows'
    BY <2>1, <2>2, <2>3
  <2>6. AttemptsBounded'
    BY <2>1, <2>2, <2>3
  <2>7. OneWorkerPerTask'
    BY <2>1, <2>2, <2>3, <2>4
  <2> QED
    BY <2>5, <2>6, <2>7
<1>13. ASSUME NEW w \in Worker, CompleteTask(w) PROVE TaskInv'
  BY <1>13 DEF CompleteTask
<1>14. ASSUME NEW w \in Worker, Stop(w) PROVE TaskInv'
  BY <1>14 DEF Stop
<1>15. CASE UNCHANGED vars
  BY <1>15 DEF vars
<1> QED
  BY <1>1, <1>2, <1>3, <1>4, <1>5, <1>6, <1>7, <1>8, <1>9, <1>10, <1>11,
     <1>12, <1>13, <1>14, <1>15 DEF Next, Work

(***************************************************************************)
(* Layer 3: what each attempt has done so far, and what is in S3.          *)
(***************************************************************************)
PuzzleData ==
    \A p \in Puzzle :
        /\ puzzle[p] # "none" => p \in image
        /\ puzzle[p] = "none" => rows[p] = 0
        /\ rows[p] > 0 => cut[p] \in 0..stored[p]

AttemptData ==
    \A w \in Worker :
        /\ pc[w] \in {"load", "download", "upload"} => rows[job[w]] < attempts[job[w]]
        /\ pc[w] = "upload" =>
             /\ cut[job[w]] \in Nat
             /\ put[w] <= cut[job[w]]
             /\ put[w] <= stored[job[w]]
        /\ pc[w] = "rate" =>
             /\ cut[job[w]] \in 0..stored[job[w]]
             /\ Exists(job[w]) => rows[job[w]] > 0
        /\ pc[w] = "complete" => puzzle[job[w]] \in {"ready", "deleted"}

DataInv ==
    PuzzleData /\ AttemptData /\ ReadyIsPlayable /\ CompletedIsReady /\ CopiesBounded

LEMMA DataInit == Init => DataInv
BY PipelineAssumption DEF Init, DataInv, PuzzleData, AttemptData, ReadyIsPlayable,
   CompletedIsReady, CopiesBounded

LEMMA DataStep == TypeInv /\ TaskInv /\ DataInv /\ [Next]_vars => DataInv'
<1> SUFFICES ASSUME TypeInv, TaskInv, DataInv, [Next]_vars PROVE DataInv'
  OBVIOUS
<1> USE PipelineAssumption DEF TypeInv, TypeOK, JobHeld, Steps, TaskInv, TaskRows,
           OneWorkerPerTask, DataInv, PuzzleData, AttemptData, ReadyIsPlayable,
           CompletedIsReady, CopiesBounded, Undecodable, Exists
<1>1. ASSUME NEW p \in Puzzle, StoreImage(p) PROVE DataInv'
  BY <1>1 DEF StoreImage
<1>2. ASSUME NEW p \in Puzzle, CreatePuzzle(p) PROVE DataInv'
  BY <1>2 DEF CreatePuzzle
<1>3. ASSUME NEW p \in Puzzle, DeletePuzzle(p) PROVE DataInv'
  BY <1>3 DEF DeletePuzzle, Exists
<1>4. ASSUME NEW w \in Worker, LockTask(w) PROVE DataInv'
  BY <1>4 DEF LockTask, Claimable, Locked
<1>5. ASSUME NEW w \in Worker, CommitClaim(w) PROVE DataInv'
  BY <1>5 DEF CommitClaim, Claim
<1>6. ASSUME NEW w \in Worker, GetPuzzleByID(w) PROVE DataInv'
  BY <1>6 DEF GetPuzzleByID, Exists
<1>7. ASSUME NEW w \in Worker, FetchAndSlice(w) PROVE DataInv'
  BY <1>7 DEF FetchAndSlice, Undecodable
<1>8. ASSUME NEW w \in Worker, UploadPiece(w) PROVE DataInv'
  BY <1>8 DEF UploadPiece
<1>9. ASSUME NEW w \in Worker, CreatePuzzlePieces(w) PROVE DataInv'
  BY <1>9 DEF CreatePuzzlePieces, InsertPieces, Exists
<1>10. ASSUME NEW w \in Worker, SetPuzzleReady(w) PROVE DataInv'
  BY <1>10 DEF SetPuzzleReady, SetStatus, Exists
<1>11. ASSUME NEW w \in Worker, MarkFailed(w) PROVE DataInv'
  BY <1>11 DEF MarkFailed, SetStatus, Exists
<1>12. ASSUME NEW w \in Worker, RetryOrFailTask(w) PROVE DataInv'
  BY <1>12 DEF RetryOrFailTask, AfterFailure
<1>13. ASSUME NEW w \in Worker, CompleteTask(w) PROVE DataInv'
  BY <1>13 DEF CompleteTask
<1>14. ASSUME NEW w \in Worker, Stop(w) PROVE DataInv'
  BY <1>14 DEF Stop
<1>15. CASE UNCHANGED vars
  BY <1>15 DEF vars
<1> QED
  BY <1>1, <1>2, <1>3, <1>4, <1>5, <1>6, <1>7, <1>8, <1>9, <1>10, <1>11,
     <1>12, <1>13, <1>14, <1>15 DEF Next, Work

-----------------------------------------------------------------------------
LEMMA FinalStep ==
    TypeInv /\ TaskInv /\ [Next]_vars =>
        \A p \in Puzzle : task[p] \in {"completed", "failed"} =>
            /\ task'[p] = task[p]
            /\ \/ puzzle'[p] = "deleted"
               \/ puzzle'[p] = puzzle[p] /\ rows'[p] = rows[p] /\ rated'[p] = rated[p]
<1> SUFFICES ASSUME TypeInv, TaskInv, [Next]_vars,
                    NEW p \in Puzzle, task[p] \in {"completed", "failed"}
             PROVE  /\ task'[p] = task[p]
                    /\ \/ puzzle'[p] = "deleted"
                       \/ puzzle'[p] = puzzle[p] /\ rows'[p] = rows[p] /\ rated'[p] = rated[p]
  OBVIOUS
<1> USE PipelineAssumption DEF TypeInv, TypeOK, JobHeld, Steps
<1>1. ASSUME NEW w \in Worker PROVE job[w] # p
  BY DEF TaskInv, OneWorkerPerTask
<1>2. ASSUME NEW q \in Puzzle, StoreImage(q) \/ CreatePuzzle(q) \/ DeletePuzzle(q)
      PROVE  /\ task'[p] = task[p]
             /\ \/ puzzle'[p] = "deleted"
                \/ puzzle'[p] = puzzle[p] /\ rows'[p] = rows[p] /\ rated'[p] = rated[p]
  BY <1>2 DEF StoreImage, CreatePuzzle, DeletePuzzle, TaskInv, TaskRows
<1>3. ASSUME NEW w \in Worker, Work(w) \/ Stop(w)
      PROVE  /\ task'[p] = task[p]
             /\ puzzle'[p] = puzzle[p] /\ rows'[p] = rows[p] /\ rated'[p] = rated[p]
  <2>1. CASE LockTask(w) \/ GetPuzzleByID(w) \/ FetchAndSlice(w) \/ UploadPiece(w) \/ Stop(w)
    BY <2>1 DEF LockTask, GetPuzzleByID, FetchAndSlice, UploadPiece, Stop
  <2>2. CASE CommitClaim(w)
    BY <1>1, <2>2 DEF CommitClaim, Claim
  <2>3. CASE CreatePuzzlePieces(w)
    BY <1>1, <2>3 DEF CreatePuzzlePieces, InsertPieces
  <2>4. CASE SetPuzzleReady(w)
    BY <1>1, <2>4 DEF SetPuzzleReady, SetStatus
  <2>5. CASE MarkFailed(w)
    BY <1>1, <2>5 DEF MarkFailed, SetStatus
  <2>6. CASE RetryOrFailTask(w) \/ CompleteTask(w)
    BY <1>1, <2>6 DEF RetryOrFailTask, CompleteTask
  <2> QED
    BY <1>3, <2>1, <2>2, <2>3, <2>4, <2>5, <2>6 DEF Work
<1>4. CASE UNCHANGED vars
  BY <1>4 DEF vars
<1> QED
  BY <1>2, <1>3, <1>4 DEF Next

-----------------------------------------------------------------------------
(***************************************************************************)
(* The queue: every step of a handler or a worker is a Submit, Start or    *)
(* Release of one job of JobQueue, or leaves the queue alone.              *)
(***************************************************************************)
\* OneWorkerPerTask makes the CHOOSE of heldBy a definite description.
LEMMA HeldBy ==
    ASSUME TypeInv, TaskInv, NEW w \in Worker, NEW p \in Puzzle, Holds(w, p)
    PROVE  heldBy[p] = w
BY DEF heldBy, Holds, TaskInv, OneWorkerPerTask, TypeInv, TypeOK, At

LEMMA HeldByNobody ==
    ASSUME NEW p \in Puzzle, \A w \in Worker : ~Holds(w, p)
    PROVE  heldBy[p] = NoWorker
BY DEF heldBy

LEMMA HeldByPrimed ==
    ASSUME TypeInv', TaskInv', NEW w \in Worker, NEW p \in Puzzle, Holds(w, p)'
    PROVE  heldBy'[p] = w
BY DEF heldBy, Holds, TaskInv, OneWorkerPerTask, TypeInv, TypeOK, At

LEMMA HeldByNobodyPrimed ==
    ASSUME NEW p \in Puzzle, \A w \in Worker : ~Holds(w, p)'
    PROVE  heldBy'[p] = NoWorker
BY DEF heldBy

\* The holder of a job changes only when some Holds(w, p) does.
LEMMA HolderKept ==
    ASSUME TypeInv, TaskInv, TypeInv', TaskInv', NEW p \in Puzzle,
           \A w \in Worker : Holds(w, p)' <=> Holds(w, p)
    PROVE  heldBy'[p] = heldBy[p]
<1>1. CASE \E w \in Worker : Holds(w, p)
  <2> PICK w \in Worker : Holds(w, p)
    BY <1>1
  <2> QED
    BY HeldBy, HeldByPrimed
<1>2. CASE \A w \in Worker : ~Holds(w, p)
  BY <1>2, HeldByNobody, HeldByNobodyPrimed
<1> QED
  BY <1>1, <1>2

LEMMA QueueInitially == Init => Queue!QueueInit
<1> SUFFICES ASSUME Init PROVE Queue!QueueInit
  OBVIOUS
<1>1. ASSUME NEW p \in Puzzle PROVE \A w \in Worker : ~Holds(w, p)
  BY PipelineAssumption DEF Init, Holds, At
<1>2. heldBy = [p \in Puzzle |-> NoWorker]
  BY <1>1 DEF heldBy
<1> QED
  BY <1>2 DEF Init, Queue!QueueInit

\* The steps of a worker that leave the queue alone.
LEMMA QuietStep ==
    ASSUME TypeInv, TaskInv, TypeInv', TaskInv',
           UNCHANGED <<task, attempts>>,
           \A w \in Worker, p \in Puzzle : Holds(w, p)' <=> Holds(w, p)
    PROVE  UNCHANGED Queue!queueVars
<1>1. \A p \in Puzzle : heldBy'[p] = heldBy[p]
  BY HolderKept
<1>2. heldBy' = heldBy
  BY <1>1 DEF heldBy
<1> QED
  BY <1>2 DEF Queue!queueVars

\* A worker that holds p lets go of it: the new status is s.
LEMMA ReleaseStep ==
    ASSUME TypeInv, TaskInv, TypeInv', TaskInv',
           NEW w \in Worker, NEW p \in Puzzle, job[w] = p,
           NEW s \in {"pending", "processing", "completed", "failed"},
           pc[w] \notin {"poll", "commit"},
           pc' = [pc EXCEPT ![w] = "poll"], job' = [job EXCEPT ![w] = NoTask],
           task' = [task EXCEPT ![p] = s], UNCHANGED attempts,
           s = "pending" => attempts[p] < MaxAttempts,
           s = "failed" => attempts[p] = MaxAttempts
    PROVE  Queue!QueueNext
<1> USE PipelineAssumption DEF TypeInv, TypeOK, JobHeld, Holds, At
<1>1. Holds(w, p) /\ task[p] = "processing"
  BY DEF TaskInv, OneWorkerPerTask
<1>2. heldBy[p] = w
  BY <1>1, HeldBy
<1>3. \A v \in Worker : ~Holds(v, p)'
  BY <1>1 DEF TaskInv, OneWorkerPerTask
<1>4. heldBy'[p] = NoWorker
  BY <1>1, <1>3, HeldByNobodyPrimed
<1>5. ASSUME NEW q \in Puzzle, q # p PROVE heldBy'[q] = heldBy[q]
  <2>1. \A v \in Worker : Holds(v, q)' <=> Holds(v, q)
    BY <1>5
  <2> QED
    BY <2>1, HolderKept
<1>6. heldBy' = [heldBy EXCEPT ![p] = NoWorker]
  <2>1. heldBy' = [q \in Puzzle |-> heldBy'[q]] /\ heldBy = [q \in Puzzle |-> heldBy[q]]
    BY DEF heldBy
  <2>2. heldBy' = [q \in Puzzle |-> IF q = p THEN NoWorker ELSE heldBy[q]]
    BY <1>4, <1>5, <2>1
  <2> QED
    BY <2>1, <2>2
<1>7. heldBy[p] # NoWorker
  BY <1>2, NoWorkerAssumption
<1>8. Queue!Release(p, s)
  BY <1>1, <1>6, <1>7 DEF Queue!Release
<1> QED
  BY <1>1, <1>8 DEF Queue!QueueNext, Queue!JobStatus

\* A claim is committed: the worker holds p, or nobody does when the answer is
\* lost.
LEMMA StartStep ==
    ASSUME TypeInv, TaskInv, TypeInv', TaskInv',
           NEW w \in Worker, NEW p \in Puzzle, pc[w] = "commit", job[w] = p,
           Claim(p),
           \/ pc' = [pc EXCEPT ![w] = "load"] /\ UNCHANGED job
           \/ pc' = [pc EXCEPT ![w] = "poll"] /\ job' = [job EXCEPT ![w] = NoTask]
    PROVE  Queue!QueueNext
<1> USE PipelineAssumption DEF TypeInv, TypeOK, JobHeld, Holds, At
<1>1. task[p] = "pending" /\ attempts[p] < MaxAttempts
  BY DEF TaskInv, OneWorkerPerTask, AttemptsBounded
<1>2. \A v \in Worker : ~Holds(v, p)
  BY DEF TaskInv, OneWorkerPerTask
<1>3. ASSUME NEW q \in Puzzle, q # p PROVE heldBy'[q] = heldBy[q]
  <2>1. \A v \in Worker : Holds(v, q)' <=> Holds(v, q)
    BY <1>3
  <2> QED
    BY <2>1, HolderKept
<1>4. ASSUME NEW h, heldBy'[p] = h PROVE heldBy' = [heldBy EXCEPT ![p] = h]
  <2>1. heldBy' = [q \in Puzzle |-> heldBy'[q]] /\ heldBy = [q \in Puzzle |-> heldBy[q]]
    BY DEF heldBy
  <2>2. heldBy' = [q \in Puzzle |-> IF q = p THEN h ELSE heldBy[q]]
    BY <1>3, <1>4, <2>1
  <2> QED
    BY <2>1, <2>2
<1>5. CASE pc' = [pc EXCEPT ![w] = "load"] /\ UNCHANGED job
  <2>1. heldBy'[p] = w
    BY <1>5, HeldByPrimed
  <2>2. Queue!Free(w)
    <3> SUFFICES ASSUME NEW q \in Puzzle, heldBy[q] = w PROVE FALSE
      BY DEF Queue!Free
    <3>1. ~Holds(w, q)
      OBVIOUS
    <3>2. CASE \E v \in Worker : Holds(v, q)
      BY <3>1, <3>2, HeldBy
    <3>3. CASE \A v \in Worker : ~Holds(v, q)
      BY <3>3, HeldByNobody, NoWorkerAssumption
    <3> QED
      BY <3>2, <3>3
  <2>3. Queue!Start(p, w)
    BY <1>1, <1>4, <2>1 DEF Queue!Start, Claim
  <2> QED
    BY <2>2, <2>3 DEF Queue!QueueNext
<1>6. CASE pc' = [pc EXCEPT ![w] = "poll"] /\ job' = [job EXCEPT ![w] = NoTask]
  <2>1. \A v \in Worker : ~Holds(v, p)'
    BY <1>2, <1>6
  <2>2. heldBy'[p] = NoWorker
    BY <2>1, HeldByNobodyPrimed
  <2>3. Queue!Start(p, NoWorker)
    BY <1>1, <1>4, <2>2 DEF Queue!Start, Claim
  <2> QED
    BY <2>3 DEF Queue!QueueNext
<1> QED
  BY <1>5, <1>6

LEMMA QueueStep ==
    TypeInv /\ TaskInv /\ TypeInv' /\ TaskInv' /\ [Next]_vars
        => [Queue!QueueNext]_(Queue!queueVars)
<1> SUFFICES ASSUME TypeInv, TaskInv, TypeInv', TaskInv', [Next]_vars
             PROVE  Queue!QueueNext \/ UNCHANGED Queue!queueVars
  OBVIOUS
<1> USE PipelineAssumption DEF TypeInv, TypeOK, JobHeld, At, Goto, Drop, Fails, FailsLate,
        dbVars, workerVars
<1>1. ASSUME NEW p \in Puzzle, CreatePuzzle(p) PROVE Queue!QueueNext
  <2>1. UNCHANGED heldBy
    BY <1>1 DEF CreatePuzzle, heldBy, Holds
  <2>2. Queue!Submit(p)
    BY <1>1, <2>1 DEF CreatePuzzle, TaskInv, TaskRows, Queue!Submit
  <2> QED
    BY <2>2 DEF Queue!QueueNext
<1>2. ASSUME NEW p \in Puzzle, StoreImage(p) \/ DeletePuzzle(p)
      PROVE  UNCHANGED Queue!queueVars
  <2>1. \A v \in Worker, q \in Puzzle : Holds(v, q)' <=> Holds(v, q)
    BY <1>2 DEF StoreImage, DeletePuzzle, Holds
  <2> QED
    BY <1>2, <2>1, QuietStep DEF StoreImage, DeletePuzzle
<1>3. ASSUME NEW w \in Worker, LockTask(w) PROVE UNCHANGED Queue!queueVars
  <2>1. \A v \in Worker, q \in Puzzle : Holds(v, q)' <=> Holds(v, q)
    BY <1>3 DEF LockTask, Holds
  <2> QED
    BY <1>3, <2>1, QuietStep DEF LockTask
<1>4. ASSUME NEW w \in Worker,
             \/ GetPuzzleByID(w) \/ FetchAndSlice(w) \/ UploadPiece(w)
             \/ CreatePuzzlePieces(w) \/ SetPuzzleReady(w) \/ MarkFailed(w)
      PROVE  UNCHANGED Queue!queueVars
  <2>1. \E s \in Steps \ {"poll", "commit"} : pc' = [pc EXCEPT ![w] = s]
    BY <1>4 DEF GetPuzzleByID, FetchAndSlice, UploadPiece, CreatePuzzlePieces,
                SetPuzzleReady, MarkFailed, Steps
  <2>2. pc[w] \notin {"poll", "commit"} /\ UNCHANGED <<job, task, attempts>>
    BY <1>4 DEF GetPuzzleByID, FetchAndSlice, UploadPiece, CreatePuzzlePieces,
                SetPuzzleReady, MarkFailed
  <2>3. \A v \in Worker, q \in Puzzle : Holds(v, q)' <=> Holds(v, q)
    BY <2>1, <2>2 DEF Holds
  <2> QED
    BY <2>2, <2>3, QuietStep
<1>5. ASSUME NEW w \in Worker, CommitClaim(w)
      PROVE  Queue!QueueNext \/ UNCHANGED Queue!queueVars
  <2>1. job[w] \in Puzzle
    BY <1>5 DEF CommitClaim
  <2>2. CASE Claim(job[w])
    BY <1>5, <2>1, <2>2, StartStep DEF CommitClaim
  <2>3. CASE ~Claim(job[w])
    <3>1. Drop(w) /\ UNCHANGED <<task, attempts>>
      BY <1>5, <2>3 DEF CommitClaim
    <3>2. \A v \in Worker, q \in Puzzle : Holds(v, q)' <=> Holds(v, q)
      BY <1>5, <3>1 DEF CommitClaim, Holds
    <3> QED
      BY <3>1, <3>2, QuietStep
  <2> QED
    BY <2>2, <2>3
<1>6. ASSUME NEW w \in Worker, RetryOrFailTask(w) \/ CompleteTask(w)
      PROVE  Queue!QueueNext
  <2>1. /\ job[w] \in Puzzle
        /\ pc[w] \notin {"poll", "commit"}
        /\ Drop(w) /\ UNCHANGED attempts
        /\ task[job[w]] = "processing" /\ attempts[job[w]] <= MaxAttempts
    BY <1>6 DEF RetryOrFailTask, CompleteTask, TaskInv, OneWorkerPerTask, AttemptsBounded
  <2>2. PICK s \in {"pending", "processing", "completed", "failed"} :
            /\ task' = [task EXCEPT ![job[w]] = s]
            /\ s = "pending" => attempts[job[w]] < MaxAttempts
            /\ s = "failed" => attempts[job[w]] >= MaxAttempts
    <3>1. CASE UNCHANGED task
      <4>1. task' = [task EXCEPT ![job[w]] = "processing"]
        BY <2>1, <3>1
      <4> QED
        BY <4>1
    <3>2. CASE task' = [task EXCEPT ![job[w]] = "completed"]
      BY <3>2
    <3>3. CASE task' = [task EXCEPT ![job[w]] = AfterFailure(job[w])]
      <4>1. CASE attempts[job[w]] >= MaxAttempts
        BY <3>3, <4>1 DEF AfterFailure
      <4>2. CASE attempts[job[w]] < MaxAttempts
        <5>1. AfterFailure(job[w]) = "pending"
          BY <2>1, <4>2 DEF AfterFailure
        <5> QED
          BY <3>3, <4>2, <5>1
      <4> QED
        BY <2>1, <4>1, <4>2
    <3> QED
      BY <1>6, <3>1, <3>2, <3>3 DEF RetryOrFailTask, CompleteTask
  <2>3. s = "failed" => attempts[job[w]] = MaxAttempts
    <3>1. ASSUME NEW m \in Nat, NEW n \in Nat, m <= n, m >= n PROVE m = n
      BY <3>1
    <3>2. attempts[job[w]] \in Nat /\ MaxAttempts \in Nat
      BY <2>1
    <3> QED
      BY <2>1, <2>2, <3>1, <3>2
  <2> QED
    BY <2>1, <2>2, <2>3, ReleaseStep
<1>7. ASSUME NEW w \in Worker, Stop(w)
      PROVE  Queue!QueueNext \/ UNCHANGED Queue!queueVars
  <2>1. pc[w] # "poll" /\ Drop(w) /\ UNCHANGED <<task, attempts>> /\ job[w] \in Puzzle
    BY <1>7 DEF Stop
  <2>2. CASE pc[w] = "commit"
    <3>1. \A v \in Worker, q \in Puzzle : Holds(v, q)' <=> Holds(v, q)
      BY <2>1, <2>2 DEF Holds
    <3> QED
      BY <2>1, <3>1, QuietStep
  <2>3. CASE pc[w] # "commit"
    <3>1. task[job[w]] = "processing"
      BY <2>1, <2>3 DEF TaskInv, OneWorkerPerTask
    <3>2. task' = [task EXCEPT ![job[w]] = "processing"]
      BY <2>1, <3>1
    <3> QED
      BY <2>1, <2>3, <3>2, ReleaseStep
  <2> QED
    BY <2>2, <2>3
<1>8. CASE UNCHANGED vars
  BY <1>8 DEF vars, heldBy, Holds, Queue!queueVars
<1> QED
  BY <1>1, <1>2, <1>3, <1>4, <1>5, <1>6, <1>7, <1>8 DEF Next, Work

-----------------------------------------------------------------------------
(***************************************************************************)
(* The life of a puzzle: what the handlers and workers do to it, in the    *)
(* steps of PuzzleLife.                                                    *)
(***************************************************************************)
LEMMA LifeInitially == Init => Life!LifeInit
<1> SUFFICES ASSUME Init PROVE Life!LifeInit
  OBVIOUS
<1>1. {p \in Puzzle : rows[p] > 0} = {} /\ {p \in Puzzle : rated[p]} = {}
  BY DEF Init
<1> QED
  BY <1>1 DEF Init, Life!LifeInit

\* A step that leaves the columns of the puzzles alone.
LEMMA LifeKept ==
    ASSUME UNCHANGED <<puzzle, rows, rated>> PROVE UNCHANGED Life!lifeVars
BY DEF Life!lifeVars

\* A status that a worker writes: with the puzzle gone, nothing happens.
LEMMA WithholdStep ==
    ASSUME NEW p \in Puzzle, SetStatus(p, "failed"), UNCHANGED <<rows, rated>>
    PROVE  Life!LifeNext \/ UNCHANGED Life!lifeVars
<1>1. CASE Exists(p)
  <2>1. Life!Withhold(p)
    BY <1>1 DEF Life!Withhold, Life!Lives, SetStatus, Exists
  <2> QED
    BY <2>1 DEF Life!LifeNext
<1>2. CASE ~Exists(p)
  BY <1>2 DEF SetStatus, Life!lifeVars
<1> QED
  BY <1>1, <1>2

LEMMA ReleaseLife ==
    ASSUME TypeInv, NEW p \in Puzzle, Exists(p) => rows[p] > 0,
           SetStatus(p, "ready"), UNCHANGED rows,
           rated' = IF Exists(p) THEN [rated EXCEPT ![p] = TRUE] ELSE rated
    PROVE  Life!LifeNext \/ UNCHANGED Life!lifeVars
<1>1. CASE Exists(p)
  <2>1. rated' = [rated EXCEPT ![p] = TRUE] /\ rated \in [Puzzle -> BOOLEAN]
    BY <1>1 DEF TypeInv, TypeOK
  <2>2. \A q \in Puzzle : rated'[q] <=> rated[q] \/ q = p
    BY <2>1, Zenon
  <2>3. {q \in Puzzle : rated'[q]} = {q \in Puzzle : rated[q]} \cup {p}
    BY <2>2
  <2>4. Life!Release(p)
    BY <1>1, <2>3 DEF Life!Release, Life!Lives, SetStatus, Exists
  <2> QED
    BY <2>4 DEF Life!LifeNext
<1>2. CASE ~Exists(p)
  BY <1>2 DEF SetStatus, Life!lifeVars
<1> QED
  BY <1>1, <1>2

LEMMA FillLife ==
    ASSUME TypeInv, NEW p \in Puzzle, InsertPieces(p), UNCHANGED <<puzzle, rated>>
    PROVE  Life!LifeNext \/ UNCHANGED Life!lifeVars
<1>1. CASE Exists(p)
  <2>1. rows' = [rows EXCEPT ![p] = @ + 1] /\ rows \in [Puzzle -> Nat]
    BY <1>1 DEF InsertPieces, TypeInv, TypeOK
  <2>2. {q \in Puzzle : rows'[q] > 0} = {q \in Puzzle : rows[q] > 0} \cup {p}
    BY <2>1
  <2>3. Life!Fill(p)
    BY <1>1, <2>2 DEF Life!Fill, Life!Lives, Exists
  <2> QED
    BY <2>3 DEF Life!LifeNext
<1>2. CASE ~Exists(p)
  BY <1>2 DEF InsertPieces, Life!lifeVars
<1> QED
  BY <1>1, <1>2

LEMMA RemoveLife ==
    ASSUME TypeInv, NEW p \in Puzzle, DeletePuzzle(p)
    PROVE  Life!Remove(p)
<1>1. /\ rows' = [rows EXCEPT ![p] = 0] /\ rows \in [Puzzle -> Nat]
      /\ rated' = [rated EXCEPT ![p] = FALSE] /\ rated \in [Puzzle -> BOOLEAN]
  BY DEF DeletePuzzle, TypeInv, TypeOK
<1>2. {q \in Puzzle : rows'[q] > 0} = {q \in Puzzle : rows[q] > 0} \ {p}
  BY <1>1
<1>3. \A q \in Puzzle : rated'[q] <=> rated[q] /\ q # p
  BY <1>1, Zenon
<1>4. {q \in Puzzle : rated'[q]} = {q \in Puzzle : rated[q]} \ {p}
  BY <1>3
<1> QED
  BY <1>2, <1>4 DEF Life!Remove, Life!Lives, DeletePuzzle, Exists

LEMMA LifeStep ==
    TypeInv /\ DataInv /\ [Next]_vars => [Life!LifeNext]_(Life!lifeVars)
<1> SUFFICES ASSUME TypeInv, DataInv, [Next]_vars
             PROVE  Life!LifeNext \/ UNCHANGED Life!lifeVars
  OBVIOUS
<1>1. ASSUME NEW p \in Puzzle, StoreImage(p) PROVE UNCHANGED Life!lifeVars
  BY <1>1, LifeKept DEF StoreImage
<1>2. ASSUME NEW p \in Puzzle, CreatePuzzle(p) PROVE Life!LifeNext
  <2>1. Life!Create(p)
    BY <1>2 DEF CreatePuzzle, Life!Create
  <2> QED
    BY <2>1 DEF Life!LifeNext
<1>3. ASSUME NEW p \in Puzzle, DeletePuzzle(p) PROVE Life!LifeNext
  BY <1>3, RemoveLife DEF Life!LifeNext
<1>4. ASSUME NEW w \in Worker,
             \/ LockTask(w) \/ CommitClaim(w) \/ GetPuzzleByID(w) \/ FetchAndSlice(w)
             \/ UploadPiece(w) \/ RetryOrFailTask(w) \/ CompleteTask(w) \/ Stop(w)
      PROVE  UNCHANGED Life!lifeVars
  BY <1>4, LifeKept DEF LockTask, CommitClaim, GetPuzzleByID, FetchAndSlice, UploadPiece,
     RetryOrFailTask, CompleteTask, Stop
<1>5. ASSUME NEW w \in Worker, pc[w] # "poll" PROVE job[w] \in Puzzle
  BY <1>5 DEF TypeInv, TypeOK, JobHeld
<1>6. ASSUME NEW w \in Worker, CreatePuzzlePieces(w)
      PROVE  Life!LifeNext \/ UNCHANGED Life!lifeVars
  <2>1. job[w] \in Puzzle
    BY <1>5, <1>6 DEF CreatePuzzlePieces
  <2>2. (InsertPieces(job[w]) \/ UNCHANGED rows) /\ UNCHANGED <<puzzle, rated>>
    BY <1>6 DEF CreatePuzzlePieces
  <2> QED
    BY <2>1, <2>2, FillLife, LifeKept
<1>7. ASSUME NEW w \in Worker, SetPuzzleReady(w)
      PROVE  Life!LifeNext \/ UNCHANGED Life!lifeVars
  <2> DEFINE p == job[w]
  <2>1. p \in Puzzle /\ (Exists(p) => rows[p] > 0)
    BY <1>5, <1>7 DEF SetPuzzleReady, DataInv, AttemptData
  <2>2. UNCHANGED rows
    BY <1>7 DEF SetPuzzleReady
  <2>3. \/ /\ SetStatus(p, "ready")
           /\ rated' = IF Exists(p) THEN [rated EXCEPT ![p] = TRUE] ELSE rated
        \/ UNCHANGED <<puzzle, rated>>
    BY <1>7 DEF SetPuzzleReady
  <2> HIDE DEF p
  <2> QED
    BY <2>1, <2>2, <2>3, ReleaseLife, LifeKept
<1>8. ASSUME NEW w \in Worker, MarkFailed(w)
      PROVE  Life!LifeNext \/ UNCHANGED Life!lifeVars
  <2>1. job[w] \in Puzzle
    BY <1>5, <1>8 DEF MarkFailed
  <2>2. (SetStatus(job[w], "failed") \/ UNCHANGED puzzle) /\ UNCHANGED <<rows, rated>>
    BY <1>8 DEF MarkFailed
  <2> QED
    BY <2>1, <2>2, WithholdStep, LifeKept
<1>9. CASE UNCHANGED vars
  BY <1>9, LifeKept DEF vars
<1> QED
  BY <1>1, <1>2, <1>3, <1>4, <1>6, <1>7, <1>8, <1>9 DEF Next, Work

-----------------------------------------------------------------------------
(***************************************************************************)
(* The theorems.                                                           *)
(***************************************************************************)

\* Every variable keeps its type, and a worker in the middle of an attempt
\* holds a task.
THEOREM TypeCorrect == Spec => [](TypeOK /\ JobHeld)
<1>1. Spec => []TypeInv
  BY TypeInit, TypeStep, PTL DEF Spec
<1> QED
  BY <1>1, PTL DEF TypeInv

\* The three layers together are an inductive invariant of the pipeline.
LEMMA Invariance == Spec => [](TypeInv /\ TaskInv /\ DataInv)
BY TypeInit, TypeStep, TaskInit, TaskStep, DataInit, DataStep, PTL DEF Spec

\* FOR UPDATE SKIP LOCKED and the commit of a claim give every task to at most
\* one worker at a time, for any number of workers.
THEOREM TasksHeldOnce == Spec => []OneWorkerPerTask
<1>1. TaskInv => OneWorkerPerTask
  BY DEF TaskInv
<1> QED
  BY <1>1, Invariance, PTL

\* ClaimTask and RetryOrFailTask together start a task at most MaxAttempts
\* times and give it up only after the last.
THEOREM AttemptsAreBounded == Spec => []AttemptsBounded
<1>1. TaskInv => AttemptsBounded
  BY DEF TaskInv
<1> QED
  BY <1>1, Invariance, PTL

\* The order "put the object, then insert the row" holds through failures,
\* retries and deletions: a key in the database names an object in S3.
THEOREM KeysAreBacked == Spec => []NoDanglingKeys
<1>1. TypeInv /\ DataInv => NoDanglingKeys
  BY DEF TypeInv, TypeOK, DataInv, PuzzleData, NoDanglingKeys, Exists
<1> QED
  BY <1>1, Invariance, PTL

\* A ready puzzle has every piece, every piece image and a difficulty, whatever
\* failed on the way.
THEOREM ReadyPuzzlesArePlayable == Spec => []ReadyIsPlayable
<1>1. DataInv => ReadyIsPlayable
  BY DEF DataInv
<1> QED
  BY <1>1, Invariance, PTL

\* A task recorded as completed left its puzzle ready.
THEOREM CompletedTasksAreReady == Spec => []CompletedIsReady
<1>1. DataInv => CompletedIsReady
  BY DEF DataInv
<1> QED
  BY <1>1, Invariance, PTL

\* Retries leave at most one copy of a piece per attempt.
THEOREM CopiesAreBounded == Spec => []CopiesBounded
<1>1. DataInv => CopiesBounded
  BY DEF DataInv
<1> QED
  BY <1>1, Invariance, PTL

\* No worker changes a task that has ended, or its puzzle or pieces.
THEOREM FinishedTasksAreFinal == Spec => FinishedIsFinal
<1>1. TypeInv /\ TaskInv /\ [Next]_vars =>
         [\A p \in Puzzle : task[p] \in {"completed", "failed"} =>
             /\ task'[p] = task[p]
             /\ \/ puzzle'[p] = "deleted"
                \/ puzzle'[p] = puzzle[p] /\ rows'[p] = rows[p] /\ rated'[p] = rated[p]]_vars
  BY FinalStep
<1> QED
  BY <1>1, Invariance, PTL DEF Spec, FinishedIsFinal

\* The pipeline keeps the promise of the tasks table, for any number of puzzles
\* and workers and whatever fails: its steps are steps of JobQueue.
THEOREM PipelineImplementsQueue == Spec => ImplementsJobQueue
<1>1. Spec => [](TypeInv /\ TaskInv)
  BY Invariance, PTL
<1> QED
  BY <1>1, QueueInitially, QueueStep, PTL DEF Spec, ImplementsJobQueue, Queue!QueueSpec

\* Whatever workers, handlers and failures do, a puzzle lives as PuzzleLife says:
\* its pieces come before "ready", they go with it only, and it stays away once
\* it is deleted.
THEOREM PipelineImplementsPuzzleLife == Spec => ImplementsPuzzleLife
<1>1. Spec => [](TypeInv /\ DataInv)
  BY Invariance, PTL
<1> QED
  BY <1>1, LifeInitially, LifeStep, PTL DEF Spec, ImplementsPuzzleLife, Life!LifeSpec

=============================================================================
