--------------------------- MODULE PipelineQueue ---------------------------
(***************************************************************************)
(* The pipeline implements the queue of module JobQueue: a job is held by  *)
(* the worker that has committed its claim and not yet recorded an outcome.*)
(***************************************************************************)
EXTENDS Pipeline

CONSTANT NoWorker   \* stands for "no worker holds the task"

ASSUME NoWorkerAssumption == NoWorker \notin Worker

Holds(w, p) == job[w] = p /\ ~At(w, "commit")

heldBy == [p \in Puzzle |->
            IF \E w \in Worker : Holds(w, p)
            THEN CHOOSE w \in Worker : Holds(w, p)
            ELSE NoWorker]

Queue == INSTANCE JobQueue
    WITH Job <- Puzzle, status <- task, tries <- attempts, holder <- heldBy

\* Whatever fails, stops or is deleted in the pipeline, the tasks table keeps
\* the promise of JobQueue: one holder at a time, bounded attempts, only the
\* holder ends a task, and an end is final.
ImplementsJobQueue == Queue!QueueSpec

=============================================================================
