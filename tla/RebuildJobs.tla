----------------------------- MODULE RebuildJobs ----------------------------
(***************************************************************************)
(* The queue of the background jobs of the novels (services/novel_db/      *)
(* job_queue.py, job_state.py, job_worker.py): HTTP calls enqueue and      *)
(* cancel rows of `rebuild_jobs`, one worker thread claims and executes    *)
(* them.  A claim and a cancellation are each a SELECT and an UPDATE in    *)
(* autocommit, so they interleave; what a job does is left out.            *)
(***************************************************************************)
EXTENDS Integers, FiniteSets

CONSTANTS
    QueueJobs,      \* the ids of jobs, in the order in which they are queued
    MaxDbFaults,    \* bound of the writes to the queue's own rows that fail
    MaxRestarts     \* bound of the server's restarts

ASSUME QueueAssumption ==
    QueueJobs \subseteq Nat \ {0} /\ MaxDbFaults \in Nat /\ MaxRestarts \in Nat

VARIABLES
    jobState,       \* job -> rebuild_jobs.state, "absent" before its INSERT
    worker,         \* the worker thread: where it is, and its job (0: none)
    canceling,      \* the rows that the SELECT of the cancellation in progress found
    told,           \* jobs whose caller was told "canceled"; history only
    overlapped,     \* jobs claimed and canceled at the same time; history only
    stopping,       \* _stop_event
    dbFaults,
    restarts

queueVars == <<jobState, worker, canceling, told, overlapped, stopping, dbFaults, restarts>>

QueueInit ==
    /\ jobState = [j \in QueueJobs |-> "absent"]
    /\ worker = [at |-> "idle", job |-> 0]
    /\ canceling = {}
    /\ told = {}
    /\ overlapped = {}
    /\ stopping = FALSE
    /\ dbFaults = 0
    /\ restarts = 0

InState(s) == {j \in QueueJobs : jobState[j] = s}
Oldest(jobs) == CHOOSE j \in jobs : \A k \in jobs : j <= k
JobBecomes(jobs, s) == jobState' = [j \in QueueJobs |-> IF j \in jobs THEN s ELSE jobState[j]]
WorkerAt(at) == worker' = [worker EXCEPT !.at = at]
WorkerRests == worker' = [at |-> "idle", job |-> 0]
DbFault == dbFaults < MaxDbFaults /\ dbFaults' = dbFaults + 1
-----------------------------------------------------------------------------
(***************************************************************************)
(* HTTP calls.                                                             *)
(***************************************************************************)
EnqueueJob(j) ==
    /\ jobState[j] = "absent"
    /\ \A k \in QueueJobs : k < j => jobState[k] # "absent"
    /\ JobBecomes({j}, "queued")
    /\ UNCHANGED <<worker, canceling, told, overlapped, stopping, dbFaults, restarts>>

\* cancel() of one job and cancel_queued_by_mode() of all: first the SELECT.
Cancelable == InState("queued")

CancelLooks ==
    /\ canceling = {}
    /\ canceling' \in {{j} : j \in Cancelable} \cup ({Cancelable} \ {{}})
    /\ UNCHANGED <<jobState, worker, told, overlapped, stopping, dbFaults, restarts>>

\* The UPDATE only takes rows that are still queued; the answer does not tell.
CancelWrites ==
    /\ canceling # {}
    /\ JobBecomes(canceling \cap InState("queued"), "canceled")
    /\ told' = told \cup canceling
    /\ overlapped' = overlapped \cup (canceling \ InState("queued"))
                        \cup (IF worker.at = "claiming" THEN canceling \cap {worker.job} ELSE {})
    /\ canceling' = {}
    /\ UNCHANGED <<worker, stopping, dbFaults, restarts>>
-----------------------------------------------------------------------------
(***************************************************************************)
(* The worker: _drain_queue.                                               *)
(***************************************************************************)
ClaimableCanceled == InState("queued") \cup InState("canceled")   \* slip: canceled rows are taken, too
Claimable == InState("queued")

ClaimLooks ==
    /\ worker.at = "idle" /\ ~stopping
    /\ Claimable # {}
    /\ worker' = [at |-> "claiming", job |-> Oldest(Claimable)]
    /\ UNCHANGED <<jobState, canceling, told, overlapped, stopping, dbFaults, restarts>>

\* The UPDATE has no condition on the state.
ClaimWrites ==
    /\ worker.at = "claiming"
    /\ JobBecomes({worker.job}, "running")
    /\ WorkerAt("executing")
    /\ UNCHANGED <<canceling, told, overlapped, stopping, dbFaults, restarts>>

AfterRaisingDead == [worker EXCEPT !.at = "dead"]    \* slip: an exception of the job ends the thread
AfterRaising == [worker EXCEPT !.at = "failing"]

Execute ==
    /\ worker.at = "executing"
    /\ \/ WorkerAt("completing")
       \/ worker' = AfterRaising
    /\ UNCHANGED <<jobState, canceling, told, overlapped, stopping, dbFaults, restarts>>

MarkFinished ==
    /\ worker.at \in {"completing", "failing"}
    /\ JobBecomes({worker.job}, IF worker.at = "completing" THEN "completed" ELSE "failed")
    /\ WorkerRests
    /\ UNCHANGED <<canceling, told, overlapped, stopping, dbFaults, restarts>>

\* A write of the worker to its own row raises: within the try the job is
\* marked failed instead, anywhere else the thread ends.
WriteRaises ==
    /\ worker.at \in {"claiming", "completing", "failing"}
    /\ DbFault
    /\ WorkerAt(IF worker.at = "completing" THEN "failing" ELSE "dead")
    /\ UNCHANGED <<jobState, canceling, told, overlapped, stopping, restarts>>

StopQueue ==
    /\ ~stopping
    /\ restarts < MaxRestarts
    /\ stopping' = TRUE
    /\ UNCHANGED <<jobState, worker, canceling, told, overlapped, dbFaults, restarts>>

\* The process ends, killed or after stop(), and start() cleans up.
AbortedNever == {}                                   \* slip: start() leaves running rows alone
AbortedAtStart == InState("running")

StartQueue ==
    /\ restarts < MaxRestarts
    /\ restarts' = restarts + 1
    /\ JobBecomes(AbortedAtStart, "failed")
    /\ WorkerRests
    /\ canceling' = {}
    /\ stopping' = FALSE
    /\ UNCHANGED <<told, overlapped, dbFaults>>
-----------------------------------------------------------------------------
WorkerStep == ClaimLooks \/ ClaimWrites \/ Execute \/ MarkFinished

QueueNext ==
    \/ \E j \in QueueJobs : EnqueueJob(j)
    \/ CancelLooks \/ CancelWrites
    \/ WorkerStep \/ WriteRaises
    \/ StopQueue \/ StartQueue

\* The thread runs, and a job ends: every call of a model, of the inference
\* process and of the database that a job makes has a timeout.
QueueFairness == WF_queueVars(WorkerStep)

QueueSpec == QueueInit /\ [][QueueNext]_queueVars /\ QueueFairness
-----------------------------------------------------------------------------
\* Types of the queue.
QueueTypeOK ==
    /\ jobState \in [QueueJobs -> {"absent", "queued", "running", "completed", "failed", "canceled"}]
    /\ worker \in [at : {"idle", "claiming", "executing", "completing", "failing", "dead"},
                   job : QueueJobs \cup {0}]
    /\ canceling \subseteq QueueJobs
    /\ told \subseteq QueueJobs /\ overlapped \subseteq QueueJobs
    /\ stopping \in BOOLEAN
    /\ dbFaults \in 0 .. MaxDbFaults /\ restarts \in 0 .. MaxRestarts

\* A row says "running" only while the worker has that job, or was ended with
\* it by a database error: no restart, cancellation or failure leaves a row
\* behind that nobody works on (start() in job_queue.py).
RunningIsWorkersJob ==
    \A j \in InState("running") :
        worker.job = j /\ worker.at \in {"executing", "completing", "failing", "dead"}

\* A job whose caller was told "canceled" does not run, unless its claim and
\* its cancellation overlapped (cancel() in job_queue.py, claim_next_job).
CanceledJobRests == \A j \in told \ overlapped : jobState[j] = "canceled"

\* Rows of the queue, the worker and the answers to cancellations agree.
QueueAgrees == RunningIsWorkersJob /\ CanceledJobRests

\* A queued job is taken or canceled sooner or later, whatever the jobs before
\* it do, unless the server is stopped or a database error ended the worker.
QueuedJobIsTaken ==
    \A j \in QueueJobs :
        jobState[j] = "queued" ~> \/ jobState[j] # "queued"
                                  \/ stopping
                                  \/ worker.at = "dead" /\ dbFaults > 0
=============================================================================
