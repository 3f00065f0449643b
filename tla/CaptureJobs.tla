---------------------------- MODULE CaptureJobs ----------------------------
(***************************************************************************)
(* The capture_jobs table of kindle_catalog.db, as the transactions of     *)
(* backend/services/kindle_catalog/capture_job_repository.py see it.       *)
(*                                                                         *)
(* Every operation is one BEGIN IMMEDIATE transaction, so an operation is  *)
(* one action.  A transaction that raises is rolled back as a whole (the   *)
(* recovery of stale jobs it began with included), so a rejected request   *)
(* leaves no step behind and has no action.                                *)
(*                                                                         *)
(* Time.  The code stores timestamps and compares them with its clock.     *)
(* The model keeps, per job, the ticks that passed since                   *)
(* COALESCE(heartbeat_at, claimed_at, requested_at).  The clock is read    *)
(* before the write lock is awaited, so a request works with a time that   *)
(* may lie up to MaxLag ticks (SQLite's busy timeout) in the past.         *)
(***************************************************************************)
EXTENDS Integers

CONSTANTS
    Jobs,       \* the ids uuid4() may hand out
    Agents,     \* the agent ids that hold the shared token
    NoAgent,    \* agent_id IS NULL
    Timeout,    \* KINDLE_CAPTURE_HEARTBEAT_TIMEOUT_SEC, in ticks
    MaxLag      \* how old a request's clock reading may be, in ticks

ASSUME CaptureJobsAssumption ==
    /\ Timeout \in Nat \ {0}
    /\ MaxLag \in Nat
    /\ NoAgent \notin Agents

VARIABLES
    status,     \* job -> its status column, "absent" before the INSERT
    agent,      \* job -> its agent_id column
    age,        \* job -> ticks since its last sign of life, capped
    started     \* job -> started_at IS NOT NULL

vars == <<status, agent, age, started>>

ACTIVE_STATUSES ==
    {"claimed", "locating_book", "downloading", "positioning",
     "waiting_user", "capturing", "awaiting_files"}

UNFINISHED_STATUSES == ACTIVE_STATUSES \cup {"queued"}

Terminal == {"succeeded", "failed"}

Status == UNFINISHED_STATUSES \cup Terminal \cup {"absent"}

\* The status changes an agent may ask for.
AGENT_TRANSITIONS ==
    (ACTIVE_STATUSES \X {"failed"}) \cup
    {<<"claimed", "locating_book">>, <<"claimed", "waiting_user">>,
     <<"locating_book", "downloading">>, <<"locating_book", "positioning">>,
     <<"downloading", "positioning">>, <<"positioning", "capturing">>,
     <<"waiting_user", "capturing">>, <<"capturing", "capturing">>,
     <<"capturing", "awaiting_files">>}

\* Beyond this age a job is stale for every clock reading.
AgeCap == Timeout + MaxLag + 1

Lags == 0..MaxLag

-----------------------------------------------------------------------------

Init ==
    /\ status = [j \in Jobs |-> "absent"]
    /\ agent = [j \in Jobs |-> NoAgent]
    /\ age = [j \in Jobs |-> 0]
    /\ started = [j \in Jobs |-> FALSE]

\* Variants for IsStale: without the status condition of the UPDATE, and with
\* a comparison one tick too early.
IsOldWhateverStatus(j, lag) == status[j] # "absent" /\ age[j] > Timeout + lag
IsStaleAtTimeout(j, lag) == status[j] \in ACTIVE_STATUSES /\ age[j] >= Timeout + lag

\* Variant for IsStale: a job nobody claimed expires, too.
IsStaleOrQueued(j, lag) == status[j] \in UNFINISHED_STATUSES /\ age[j] > Timeout + lag

\* heartbeat_at < now - timeout, for a `now` read lag ticks ago.
IsStale(j, lag) == status[j] \in ACTIVE_STATUSES /\ age[j] > Timeout + lag

\* Variant for Recovered: a status the schema does not know.
RecoveredToTimeout(lag) ==
    [j \in Jobs |-> IF IsStale(j, lag) THEN "timeout" ELSE status[j]]

\* The status column after _recover_stale.
Recovered(lag) ==
    [j \in Jobs |-> IF IsStale(j, lag) THEN "failed" ELSE status[j]]

\* Variant for Create: a queued job does not stop the next one.
CreateIgnoringQueue(j, lag) ==
    /\ status[j] = "absent"
    /\ \A k \in Jobs : Recovered(lag)[k] \notin ACTIVE_STATUSES
    /\ status' = [Recovered(lag) EXCEPT ![j] = "queued"]
    /\ age' = [age EXCEPT ![j] = lag]
    /\ UNCHANGED <<agent, started>>

\* POST /capture-jobs for a book of the catalogue.
Create(j, lag) ==
    /\ status[j] = "absent"
    /\ \A k \in Jobs : Recovered(lag)[k] \notin UNFINISHED_STATUSES
    /\ status' = [Recovered(lag) EXCEPT ![j] = "queued"]
    /\ age' = [age EXCEPT ![j] = lag]
    /\ UNCHANGED <<agent, started>>

\* Variant for Holds: a finished job is still the agent's job.
HoldsFinished(a, j, lag) == agent[j] = a /\ Recovered(lag)[j] # "queued"

\* The job of agent a that claim() hands back instead of a queued one.
Holds(a, j, lag) == agent[j] = a /\ Recovered(lag)[j] \in ACTIVE_STATUSES

\* Variant for ClaimHeld: any active job is handed over to the claimant.
ClaimTakingOver(a, j, lag) ==
    /\ Recovered(lag)[j] \in ACTIVE_STATUSES
    /\ status' = Recovered(lag)
    /\ agent' = [agent EXCEPT ![j] = a]
    /\ age' = [age EXCEPT ![j] = lag]
    /\ UNCHANGED started

\* claim() by an agent that still owns an active job: the job is returned
\* with the status it has and its heartbeat is renewed.
ClaimHeld(a, j, lag) ==
    /\ Holds(a, j, lag)
    /\ status' = Recovered(lag)
    /\ age' = [age EXCEPT ![j] = lag]
    /\ UNCHANGED <<agent, started>>

\* Variant for ClaimQueued: agent_id is left NULL.
ClaimUnowned(a, j, lag) ==
    /\ \A k \in Jobs : ~Holds(a, k, lag)
    /\ status[j] = "queued"
    /\ status' = [Recovered(lag) EXCEPT ![j] = "claimed"]
    /\ age' = [age EXCEPT ![j] = lag]
    /\ UNCHANGED <<agent, started>>

\* claim() of a queued job.  The code takes the oldest; the model any one,
\* which is the same because at most one job is unfinished.
ClaimQueued(a, j, lag) ==
    /\ \A k \in Jobs : ~Holds(a, k, lag)
    /\ status[j] = "queued"
    /\ status' = [Recovered(lag) EXCEPT ![j] = "claimed"]
    /\ agent' = [agent EXCEPT ![j] = a]
    /\ age' = [age EXCEPT ![j] = lag]
    /\ UNCHANGED started

\* claim() with nothing to hand out still commits the recovery.
ClaimNothing(a, lag) ==
    /\ \A k \in Jobs : ~Holds(a, k, lag) /\ status[k] # "queued"
    /\ status' = Recovered(lag)
    /\ UNCHANGED <<agent, age, started>>

\* heartbeat(): neither recovers stale jobs nor looks at the age, so it also
\* revives an overdue job nobody has failed yet.
Heartbeat(a, j, lag) ==
    /\ agent[j] = a
    /\ status[j] \in ACTIVE_STATUSES
    /\ age' = [age EXCEPT ![j] = lag]
    /\ UNCHANGED <<status, agent, started>>

UpdateState(a, j, state, lag) ==
    /\ agent[j] = a
    /\ <<status[j], state>> \in AGENT_TRANSITIONS
    /\ status' = [status EXCEPT ![j] = state]
    /\ started' = [started EXCEPT ![j] = @ \/ state = "capturing"]
    /\ age' = [age EXCEPT ![j] = lag]
    /\ UNCHANGED agent

\* The conditional UPDATE of capture_registration_repository.mark_succeeded.
\* The age of a finished job is never read again and is left as it is.
MarkSucceeded(a, j) ==
    /\ agent[j] = a
    /\ status[j] = "awaiting_files"
    /\ status' = [status EXCEPT ![j] = "succeeded"]
    /\ UNCHANGED <<agent, age, started>>

\* Time passes.
Tick ==
    /\ age' = [j \in Jobs |->
                 IF status[j] \in UNFINISHED_STATUSES /\ age[j] < AgeCap
                 THEN age[j] + 1 ELSE age[j]]
    /\ UNCHANGED <<status, agent, started>>

\* A request of agent a, whatever a believes about the jobs.
AgentRequest(a) ==
    \/ \E lag \in Lags : ClaimNothing(a, lag)
    \/ \E j \in Jobs :
         \/ MarkSucceeded(a, j)
         \/ \E lag \in Lags :
              \/ ClaimHeld(a, j, lag)
              \/ ClaimQueued(a, j, lag)
              \/ Heartbeat(a, j, lag)
              \/ \E state \in Status : UpdateState(a, j, state, lag)

Next ==
    \/ \E j \in Jobs, lag \in Lags : Create(j, lag)
    \/ \E a \in Agents : AgentRequest(a)
    \/ Tick

Spec == Init /\ [][Next]_vars

-----------------------------------------------------------------------------

\* The table's columns hold what the schema and the code allow.
TypeOK ==
    /\ status \in [Jobs -> Status]
    /\ agent \in [Jobs -> Agents \cup {NoAgent}]
    /\ age \in [Jobs -> 0..AgeCap]
    /\ started \in [Jobs -> BOOLEAN]

\* create() admits one unfinished job in the whole table, and no recovery,
\* reclaim or late request ever makes a second one: the Kindle window, the
\* inbox and the serial orchestrator all rely on it.
AtMostOneUnfinished ==
    \A j, k \in Jobs :
        status[j] \in UNFINISHED_STATUSES /\ status[k] \in UNFINISHED_STATUSES
            => j = k

\* A job has an owner exactly from its claim on.
OwnedFromClaim ==
    \A j \in Jobs :
        /\ status[j] \in {"absent", "queued"} => agent[j] = NoAgent
        /\ status[j] \in ACTIVE_STATUSES \cup {"succeeded"} => agent[j] \in Agents

\* One agent at most has work, and it is the owner of the one unfinished job
\* (create, claim).
SlotIsOwned == AtMostOneUnfinished /\ OwnedFromClaim

\* A finished job stays as it is, whoever still posts to it: a completion
\* that arrives after the timeout, a failure report that arrives after the
\* completion, a second recovery.
TerminalIsFinal ==
    [][\A j \in Jobs :
         status[j] \in Terminal =>
            /\ status'[j] = status[j]
            /\ agent'[j] = agent[j]
            /\ started'[j] = started[j]]_vars

\* A job that showed a sign of life within the timeout is never failed over
\* its owner's head: only its owner's own report can fail it.
FreshJobIsNotTimedOut ==
    [][\A j \in Jobs :
         status[j] \in ACTIVE_STATUSES /\ status'[j] = "failed"
         /\ age[j] <= Timeout
            => \E lag \in Lags : UpdateState(agent[j], j, "failed", lag)]_vars

-----------------------------------------------------------------------------

\* The table as a slot: the unfinished job, its owner and the results.
Unfinished == {j \in Jobs : status[j] \in UNFINISHED_STATUSES}

Owners == {agent[j] : j \in Unfinished} \ {NoAgent}
Results == [j \in Jobs |-> IF status[j] \in Terminal THEN status[j] ELSE "none"]

Slot == INSTANCE CaptureSlot WITH
    current <- Unfinished, worker <- Owners, result <- Results

\* Whatever the requests, the table behaves as one slot: jobs enter it one
\* at a time, end only under the agent that took them, and keep their result.
ImplementsSlot == Slot!Spec

=============================================================================
