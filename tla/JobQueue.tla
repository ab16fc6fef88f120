------------------------------ MODULE JobQueue ------------------------------
(***************************************************************************)
(* What the tasks table promises to its users, whatever the workers do     *)
(* between two statements: a job is run by at most one worker at a time,   *)
(* at most MaxAttempts times, only the worker that runs it decides how it  *)
(* ends, and an end is final.  A job whose worker disappears stays         *)
(* "processing" with no holder: nothing in the queue takes it back.        *)
(*                                                                         *)
(* Module PipelineQueue shows that the pipeline implements it, and assumes  *)
(* what it needs of these constants.                                       *)
(***************************************************************************)
EXTENDS Naturals

CONSTANTS
    Job,          \* the jobs that may ever be submitted
    Worker,       \* the worker processes polling the table
    NoWorker,     \* stands for "nobody holds the job"
    MaxAttempts   \* how often a job may be started

VARIABLES
    status,   \* status[j], "none" until the job is submitted
    tries,    \* tries[j], how often the job was started
    holder    \* holder[j], the worker running it

queueVars == <<status, tries, holder>>

JobStatus == {"none", "pending", "processing", "completed", "failed"}

QueueTypeOK ==
    /\ status \in [Job -> JobStatus]
    /\ tries \in [Job -> 0..MaxAttempts]
    /\ holder \in [Job -> Worker \cup {NoWorker}]

QueueInit ==
    /\ status = [j \in Job |-> "none"]
    /\ tries = [j \in Job |-> 0]
    /\ holder = [j \in Job |-> NoWorker]

Free(w) == \A j \in Job : holder[j] # w

Submit(j) ==
    /\ status[j] = "none"
    /\ status' = [status EXCEPT ![j] = "pending"]
    /\ UNCHANGED <<tries, holder>>

\* A worker starts a job; h is NoWorker when it never learns that it did.
Start(j, h) ==
    /\ status[j] = "pending"
    /\ tries[j] < MaxAttempts
    /\ status' = [status EXCEPT ![j] = "processing"]
    /\ tries' = [tries EXCEPT ![j] = @ + 1]
    /\ holder' = [holder EXCEPT ![j] = h]

\* The holder lets the job go with the status it decided on.
Release(j, s) ==
    /\ holder[j] # NoWorker
    /\ status[j] = "processing"
    /\ s = "pending" => tries[j] < MaxAttempts
    /\ s = "failed" => tries[j] = MaxAttempts
    /\ status' = [status EXCEPT ![j] = s]
    /\ holder' = [holder EXCEPT ![j] = NoWorker]
    /\ UNCHANGED tries

QueueNext ==
    \E j \in Job :
        \/ Submit(j)
        \/ Start(j, NoWorker)
        \/ \E w \in Worker : Free(w) /\ Start(j, w)
        \/ \E s \in JobStatus \ {"none"} : Release(j, s)

QueueSpec == QueueInit /\ [][QueueNext]_queueVars

=============================================================================
