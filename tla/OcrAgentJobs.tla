---------------------------- MODULE OcrAgentJobs ---------------------------
(***************************************************************************)
(* The OCR jobs of the novels: rows of `rebuild_jobs` with mode 'ocr', the *)
(* runs they prepare, fill page by page and stage for review.  With        *)
(* OCR_AGENT_ENABLED the Windows agent claims a job over HTTP, submits its *)
(* pages and completes it (services/novel_db/ocr_agent_jobs.py, ocr_agent  *)
(* .py); without it the worker of the job queue does (job_executor.py,     *)
(* ocr_job_application.py).  A call is several transactions on the server  *)
(* and goes on when the agent has given it up.                             *)
(*                                                                         *)
(* There is one agent, whose id all its calls carry.  A book has one page. *)
(***************************************************************************)
EXTENDS Integers, Sequences, FiniteSets

CONSTANTS
    OcrJobs,        \* the ids of jobs, in the order in which they are queued
    Books,
    Slots,          \* server threads
    MaxRuns,        \* bound of the runs
    MaxOcrFaults    \* bound of exceptions, timeouts, crashes and restarts

Every == "every"    \* the target of a job of type 'all'

ASSUME OcrAgentJobsAssumption ==
    /\ OcrJobs \subseteq Nat \ {0} /\ Every \notin Books
    /\ MaxRuns \in Nat /\ MaxOcrFaults \in Nat

VARIABLES
    byAgent,        \* OCR_AGENT_ENABLED
    state,          \* job -> rebuild_jobs.state
    target,         \* job -> its book or Every
    fresh,          \* job -> is its last heartbeat within the timeout?
    mapped,         \* job -> its runs in ocr_agent_job_runs
    picked,         \* slot -> the book and the run (0: none) that prepare_run has just read
    taken,          \* job -> the runs that prepare_run set running or created for it; history only
    runs,           \* ocr_runs: book, state, and what ocr_page_results has of the page
    done,           \* the books that are published (ocr_done_at)
    calls,          \* slot -> the call that the thread serves
    ocrAgent,       \* the main thread of the agent
    strayed,        \* jobs with a call that outlived its sender or was cut short; history only
    ocrFaults       \* number of faults so far

jobVars == <<state, target, fresh, mapped>>
claimVars == <<picked, taken>>
ocrJobsVars == <<byAgent, jobVars, claimVars, runs, done, calls, ocrAgent, strayed, ocrFaults>>

Free == [kind |-> "free"]
NoPick == [book |-> Every, run |-> 0]
Resting == [at |-> "rest", job |-> 0, todo |-> {}, lost |-> FALSE]
Ids == DOMAIN runs
InReview == {"awaiting_qa", "completed"}

OcrJobsInit ==
    /\ byAgent \in BOOLEAN
    /\ state = [j \in OcrJobs |-> "absent"]
    /\ target = [j \in OcrJobs |-> Every]
    /\ fresh = [j \in OcrJobs |-> FALSE]
    /\ mapped = [j \in OcrJobs |-> {}]
    /\ picked = [s \in Slots |-> NoPick]
    /\ taken = [j \in OcrJobs |-> {}]
    /\ runs = <<>>
    /\ done = {}
    /\ calls = [s \in Slots |-> Free]
    /\ ocrAgent = Resting
    /\ strayed = {}
    /\ ocrFaults = 0

SetState(j, to) == state' = [state EXCEPT ![j] = to]
OcrBeat(j) == fresh' = [fresh EXCEPT ![j] = TRUE]
Marked(set, to) == [r \in Ids |-> IF r \in set THEN [runs[r] EXCEPT !.state = to] ELSE runs[r]]
Step(s, call) == calls' = [calls EXCEPT ![s] = call]
First(set) == CHOOSE j \in set : \A k \in set : j <= k
Fault == ocrFaults < MaxOcrFaults /\ ocrFaults' = ocrFaults + 1
-----------------------------------------------------------------------------
(***************************************************************************)
(* Users: enqueue, cancel, review.                                         *)
(***************************************************************************)
Enqueue(j) ==
    /\ state[j] = "absent"
    /\ \A k \in OcrJobs : k < j => state[k] # "absent"
    /\ SetState(j, "queued")
    /\ \E t \in Books \cup {Every} : target' = [target EXCEPT ![j] = t]
    /\ UNCHANGED <<byAgent, fresh, mapped, runs, done, calls, ocrAgent, strayed, ocrFaults, claimVars>>

Cancel(j) ==
    /\ state[j] = "queued"
    /\ SetState(j, "canceled")
    /\ UNCHANGED <<byAgent, target, fresh, mapped, runs, done, calls, ocrAgent, strayed, ocrFaults, claimVars>>

\* approve_and_publish_run
Approve(r) ==
    /\ runs[r].state = "awaiting_qa"
    /\ runs' = Marked({r}, "completed")
    /\ done' = done \cup {runs[r].book}
    /\ UNCHANGED <<byAgent, jobVars, calls, ocrAgent, strayed, ocrFaults, claimVars>>

\* More than the heartbeat timeout passes without a heartbeat.
Lapse(j) ==
    /\ state[j] = "running" /\ fresh[j]
    /\ Fault
    /\ fresh' = [fresh EXCEPT ![j] = FALSE]
    /\ UNCHANGED <<byAgent, state, target, mapped, runs, done, calls, ocrAgent, strayed, claimVars>>
-----------------------------------------------------------------------------
(***************************************************************************)
(* The agent.  It posts one call at a time and waits for its reply; a      *)
(* failed call, page or heartbeat ends the job with a call of fail().      *)
(***************************************************************************)
Waiting == \E s \in Slots : calls[s].kind # "free" /\ calls[s].awaited

\* What the agent does when the call it waits for fails.
Upset == IF ocrAgent.at \in {"claim", "fail"} THEN Resting ELSE [ocrAgent EXCEPT !.at = "fail"]

Call(kind, books) ==
    [kind |-> kind, at |-> IF kind = "claim" THEN "recover" ELSE "check", job |-> ocrAgent.job,
     todo |-> books, got |-> {}, bad |-> FALSE, awaited |-> TRUE]

OcrPost(kind, books) ==
    /\ byAgent
    /\ ~Waiting
    /\ \E s \in Slots : calls[s] = Free /\ Step(s, Call(kind, books))
    /\ ocrAgent' = [ocrAgent EXCEPT !.at = kind]
    /\ UNCHANGED <<byAgent, jobVars, runs, done, strayed, ocrFaults, claimVars>>

PostClaim == ocrAgent.at = "rest" /\ OcrPost("claim", {})
PostPage == ocrAgent.at = "work" /\ ~ocrAgent.lost /\ \E b \in ocrAgent.todo : OcrPost("page", {b})
PostComplete == ocrAgent.at = "work" /\ ~ocrAgent.lost /\ ocrAgent.todo = {} /\ OcrPost("complete", {})
PostFail == ocrAgent.at \in {"work", "fail"} /\ (ocrAgent.at = "work" => ocrAgent.lost) /\ OcrPost("fail", {})

\* The inference raises on a page.
PageRaises ==
    /\ ocrAgent.at = "work" /\ ocrAgent.todo # {}
    /\ Fault
    /\ ocrAgent' = [ocrAgent EXCEPT !.at = "fail"]
    /\ UNCHANGED <<byAgent, jobVars, runs, done, calls, strayed, claimVars>>

\* The heartbeat thread: a heartbeat is refused unless the job is running.
PostHeartbeat ==
    /\ ocrAgent.at \in {"work", "page", "complete"} /\ ~ocrAgent.lost
    /\ IF state[ocrAgent.job] = "running"
       THEN OcrBeat(ocrAgent.job) /\ UNCHANGED ocrAgent
       ELSE ocrAgent' = [ocrAgent EXCEPT !.lost = TRUE] /\ UNCHANGED fresh
    /\ UNCHANGED <<byAgent, state, target, mapped, runs, done, calls, strayed, ocrFaults, claimVars>>

Abandon(after) ==
    /\ byAgent
    /\ Fault
    /\ calls' = [s \in Slots |-> IF calls[s].kind # "free" /\ calls[s].awaited
                                 THEN [calls[s] EXCEPT !.awaited = FALSE] ELSE calls[s]]
    /\ strayed' = (strayed \cup {calls[s].job : s \in {t \in Slots : calls[t] # Free}}) \ {0}
    /\ ocrAgent' = after
    /\ UNCHANGED <<byAgent, jobVars, runs, done, claimVars>>

\* The HTTP timeout of 120 s.
GiveUp == Waiting /\ Abandon(Upset)
CrashAgent == ocrAgent # Resting /\ Abandon(Resting)

OcrReply(s, new) ==
    /\ Step(s, Free)
    /\ ocrAgent' = IF calls[s].awaited THEN new ELSE ocrAgent
Refuse(s) == OcrReply(s, Upset)
-----------------------------------------------------------------------------
(***************************************************************************)
(* claim(): stale jobs are failed, a running job of the agent is returned  *)
(* again, otherwise the first queued one is taken and its runs prepared.   *)
(***************************************************************************)
At(s, kind, at) == calls[s].kind = kind /\ calls[s].at = at

Recover(s) ==
    /\ At(s, "claim", "recover")
    /\ LET stale == {j \in OcrJobs : state[j] = "running" /\ ~fresh[j]}
       IN  /\ state' = [j \in OcrJobs |-> IF j \in stale THEN "failed" ELSE state[j]]
           /\ runs' = Marked(UNION {mapped[j] : j \in stale}, "failed")
           /\ strayed' = IF calls[s].awaited THEN strayed ELSE strayed \cup stale
    /\ Step(s, [calls[s] EXCEPT !.at = "look"])
    /\ UNCHANGED <<byAgent, target, fresh, mapped, done, ocrAgent, ocrFaults, claimVars>>

\* _manifest: the pages of the job's runs that have not passed yet.
OcrPending(set) == {runs[r].book : r \in {q \in set : runs[q].page # "passed"}}
Manifest(j, set) == [at |-> "work", job |-> j, lost |-> FALSE, todo |-> OcrPending(set)]

Again(s) ==
    /\ At(s, "claim", "look")
    /\ LET mine == {j \in OcrJobs : state[j] = "running"}
       IN  /\ mine # {}
           /\ OcrBeat(First(mine))
           /\ OcrReply(s, Manifest(First(mine), mapped[First(mine)]))
    /\ UNCHANGED <<byAgent, state, target, mapped, runs, done, strayed, ocrFaults, claimVars>>

TargetsUnresolved(j) == {target[j]}                   \* slip: 'all' is taken as a book
TargetsOf(j) == IF target[j] = Every THEN Books \ done ELSE {target[j]}

Queued == {j \in OcrJobs : state[j] = "queued"}

Take(s) ==
    /\ At(s, "claim", "look")
    /\ \A j \in OcrJobs : state[j] # "running"
    /\ Queued # {}
    /\ LET j == First(Queued)
       IN  /\ SetState(j, "running")
           /\ OcrBeat(j)
           /\ Step(s, [calls[s] EXCEPT !.at = "prepare", !.job = j, !.todo = TargetsOf(j)])
           /\ strayed' = IF calls[s].awaited THEN strayed ELSE strayed \cup {j}
    /\ UNCHANGED <<byAgent, target, mapped, runs, done, ocrAgent, ocrFaults, claimVars>>

NothingToClaim(s) ==
    /\ At(s, "claim", "look")
    /\ \A j \in OcrJobs : state[j] \notin {"running", "queued"}
    /\ OcrReply(s, Resting)
    /\ UNCHANGED <<byAgent, jobVars, runs, done, strayed, ocrFaults, claimVars>>

\* prepare_run resumes the latest unfinished run of the book or creates one.
\* It reads in autocommit, and the UPDATE that follows looks at no state.
ResumableAny(b) == {r \in Ids : runs[r].book = b}        \* slip: whatever its state
Resumable(b) == {r \in ResumableAny(b) : runs[r].state \in {"running", "failed"}}
Latest(set) == CHOOSE r \in set : \A q \in set : q <= r
Picks(s, b, r) == picked' = [picked EXCEPT ![s] = [book |-> b, run |-> r]]
Unpick(s) == picked' = [picked EXCEPT ![s] = NoPick]

Select(s) ==
    /\ calls[s].kind \in {"claim", "worker"} /\ calls[s].at = "prepare" /\ picked[s] = NoPick
    /\ \E b \in calls[s].todo : Picks(s, b, IF Resumable(b) = {} THEN 0 ELSE Latest(Resumable(b)))
    /\ UNCHANGED <<byAgent, jobVars, runs, done, calls, ocrAgent, strayed, ocrFaults, taken>>

Prepare(s) ==
    /\ picked[s] # NoPick
    /\ LET b == picked[s].book
           r == IF picked[s].run = 0 THEN Len(runs) + 1 ELSE picked[s].run
       IN  /\ r <= MaxRuns
           /\ runs' = IF picked[s].run # 0 THEN Marked({r}, "running")
                      ELSE Append(runs, [book |-> b, state |-> "running", page |-> "none"])
           /\ Step(s, [calls[s] EXCEPT !.todo = @ \ {b}, !.got = @ \cup {r}])
           /\ taken' = [taken EXCEPT ![calls[s].job] = @ \cup {r}]
    /\ Unpick(s)
    /\ UNCHANGED <<byAgent, jobVars, done, ocrAgent, strayed, ocrFaults>>

Map(s) ==
    /\ At(s, "claim", "prepare") /\ calls[s].todo = {}
    /\ LET j == calls[s].job
       IN  /\ mapped' = [mapped EXCEPT ![j] = calls[s].got]
           /\ IF state[j] = "running"
              THEN OcrReply(s, Manifest(j, calls[s].got))
              ELSE Refuse(s)
    /\ UNCHANGED <<byAgent, state, target, fresh, runs, done, strayed, ocrFaults, claimVars>>

\* The preparation raises (an image cannot be read): claim() calls fail().
PrepareRaises(s) ==
    /\ At(s, "claim", "prepare") /\ calls[s].todo # {}
    /\ Fault
    /\ Step(s, [calls[s] EXCEPT !.kind = "fail", !.at = "check", !.todo = {}, !.got = {}])
    /\ Unpick(s)
    /\ UNCHANGED <<byAgent, jobVars, runs, done, ocrAgent, strayed, taken>>
-----------------------------------------------------------------------------
(***************************************************************************)
(* submit_page(), complete() and fail(): the check of the owner, then the  *)
(* writes, none of which looks at the state of the job or the run again.   *)
(***************************************************************************)
Admit(s) ==
    /\ calls[s].kind \in {"page", "complete", "fail"} /\ calls[s].at = "check"
    /\ LET j == calls[s].job
           mine == IF calls[s].kind = "page"
                   THEN {r \in mapped[j] : runs[r].book \in calls[s].todo} ELSE mapped[j]
       IN  IF state[j] = "running" /\ (calls[s].kind = "page" => mine # {})
           THEN Step(s, [calls[s] EXCEPT !.at = "write", !.got = mine]) /\ UNCHANGED ocrAgent
           ELSE Refuse(s)
    /\ UNCHANGED <<byAgent, jobVars, runs, done, strayed, ocrFaults, claimVars>>

Saved(r) == \E page \in {"poor", "passed"} : runs' = [runs EXCEPT ![r].page = page]

SavePage(s) ==
    /\ At(s, "page", "write")
    /\ \E r \in calls[s].got : Saved(r)
    /\ OcrBeat(calls[s].job)
    /\ OcrReply(s, [ocrAgent EXCEPT !.at = "work", !.todo = @ \ calls[s].todo])
    /\ UNCHANGED <<byAgent, state, target, mapped, done, strayed, ocrFaults, claimVars>>

\* stage_run_for_qa: only a run with all its pages, whatever its state.
CompleteAnyway(r) == TRUE                             \* slip: no validation
Complete(r) == runs[r].page # "none"

StageNext(s) ==
    /\ At(s, "complete", "write")
    /\ \E r \in calls[s].got :
        /\ Complete(r)
        /\ runs' = Marked({r}, "awaiting_qa")
        /\ Step(s, [calls[s] EXCEPT !.got = @ \ {r}])
    /\ OcrBeat(calls[s].job)
    /\ UNCHANGED <<byAgent, state, target, mapped, done, ocrAgent, strayed, ocrFaults, claimVars>>

\* A run that is incomplete, or whose images cannot be read, ends the call.
StageRaises(s) ==
    /\ At(s, "complete", "write") /\ calls[s].got # {}
    /\ \/ (\E r \in calls[s].got : ~Complete(r)) /\ UNCHANGED ocrFaults
       \/ Fault
    /\ Refuse(s)
    /\ strayed' = strayed \cup {calls[s].job}
    /\ UNCHANGED <<byAgent, jobVars, runs, done, claimVars>>

StagedAlready(s) == TRUE                              \* slip: the job ends before its runs
Staged(s) == calls[s].got = {}

FinishComplete(s) ==
    /\ At(s, "complete", "write") /\ Staged(s)
    /\ SetState(calls[s].job, "completed")
    /\ OcrReply(s, Resting)
    /\ UNCHANGED <<byAgent, target, fresh, mapped, runs, done, strayed, ocrFaults, claimVars>>

MarkFailed(s) ==
    /\ At(s, "fail", "write")
    /\ \E r \in calls[s].got :
        /\ runs' = Marked({r}, "failed")
        /\ Step(s, [calls[s] EXCEPT !.got = @ \ {r}])
    /\ UNCHANGED <<byAgent, jobVars, done, ocrAgent, strayed, ocrFaults, claimVars>>

FinishFail(s) ==
    /\ At(s, "fail", "write") /\ calls[s].got = {}
    /\ SetState(calls[s].job, "failed")
    /\ OcrReply(s, Resting)
    /\ UNCHANGED <<byAgent, target, fresh, mapped, runs, done, strayed, ocrFaults, claimVars>>
-----------------------------------------------------------------------------
(***************************************************************************)
(* The worker of the job queue, when the agent is disabled.                *)
(***************************************************************************)
WorkerTake(s) ==
    /\ ~byAgent
    /\ \A t \in Slots : calls[t] = Free
    /\ Queued # {}
    /\ LET j == First(Queued)
       IN  /\ SetState(j, "running")
           /\ Step(s, [kind |-> "worker", at |-> "prepare", job |-> j, todo |-> TargetsOf(j),
                       got |-> {}, bad |-> FALSE, awaited |-> FALSE])
    /\ UNCHANGED <<byAgent, target, fresh, mapped, runs, done, ocrAgent, strayed, ocrFaults, claimVars>>

WorkerReads(s) ==
    /\ At(s, "worker", "prepare") /\ calls[s].todo = {}
    /\ Step(s, [calls[s] EXCEPT !.at = "pages", !.todo = OcrPending(calls[s].got)])
    /\ UNCHANGED <<byAgent, jobVars, runs, done, ocrAgent, strayed, ocrFaults, claimVars>>

WorkerPage(s) ==
    /\ At(s, "worker", "pages")
    /\ \E r \in calls[s].got :
        /\ runs[r].book \in calls[s].todo
        /\ Saved(r)
        /\ Step(s, [calls[s] EXCEPT !.todo = @ \ {runs[r].book}])
    /\ UNCHANGED <<byAgent, jobVars, done, ocrAgent, strayed, ocrFaults, claimVars>>

\* An exception of the recognition fails all runs, one of the preparation none.
WorkerRaises(s) ==
    /\ calls[s].kind = "worker" /\ calls[s].at \in {"prepare", "pages"} /\ calls[s].todo # {}
    /\ Fault
    /\ runs' = IF calls[s].at = "pages" THEN Marked(calls[s].got, "failed") ELSE runs
    /\ SetState(calls[s].job, "failed")
    /\ Step(s, Free)
    /\ Unpick(s)
    /\ UNCHANGED <<byAgent, target, fresh, mapped, done, ocrAgent, strayed, taken>>

WorkerStage(s) ==
    /\ calls[s].kind = "worker" /\ calls[s].at \in {"pages", "stage"} /\ calls[s].todo = {}
    /\ \E r \in calls[s].got :
        \/ /\ Complete(r)
           /\ runs' = Marked({r}, "awaiting_qa")
           /\ Step(s, [calls[s] EXCEPT !.at = "stage", !.got = @ \ {r}])
           /\ UNCHANGED ocrFaults
        \/ /\ Fault
           /\ runs' = Marked({r}, "failed")
           /\ Step(s, [calls[s] EXCEPT !.at = "stage", !.got = @ \ {r}, !.bad = TRUE])
    /\ UNCHANGED <<byAgent, jobVars, done, ocrAgent, strayed, claimVars>>

WorkerEnds(s) ==
    /\ calls[s].kind = "worker" /\ calls[s].at \in {"pages", "stage"}
    /\ calls[s].todo = {} /\ calls[s].got = {}
    /\ SetState(calls[s].job, IF calls[s].bad THEN "failed" ELSE "completed")
    /\ Step(s, Free)
    /\ UNCHANGED <<byAgent, target, fresh, mapped, runs, done, ocrAgent, strayed, ocrFaults, claimVars>>

\* The server stops and starts: no call survives, running jobs are failed.
OcrRestart ==
    /\ Fault
    /\ state' = [j \in OcrJobs |-> IF state[j] = "running" THEN "failed" ELSE state[j]]
    /\ calls' = [s \in Slots |-> Free]
    /\ ocrAgent' = IF Waiting THEN Upset ELSE ocrAgent
    /\ strayed' = (strayed \cup {calls[s].job : s \in {t \in Slots : calls[t] # Free}}) \ {0}
    /\ picked' = [s \in Slots |-> NoPick]
    /\ UNCHANGED <<byAgent, target, fresh, mapped, runs, done, taken>>
-----------------------------------------------------------------------------
UserStep ==
    \/ \E j \in OcrJobs : Enqueue(j) \/ Cancel(j) \/ Lapse(j)
    \/ \E r \in Ids : Approve(r)

AgentStep == PostClaim \/ PostPage \/ PostComplete \/ PostFail \/ PageRaises \/ PostHeartbeat

CallStep(s) ==
    \/ Recover(s) \/ Again(s) \/ Take(s) \/ NothingToClaim(s)
    \/ Prepare(s) \/ Map(s) \/ PrepareRaises(s)
    \/ Admit(s) \/ SavePage(s) \/ StageNext(s) \/ StageRaises(s) \/ FinishComplete(s)
    \/ MarkFailed(s) \/ FinishFail(s)
    \/ WorkerTake(s) \/ WorkerReads(s) \/ WorkerPage(s) \/ WorkerRaises(s)
    \/ WorkerStage(s) \/ WorkerEnds(s)

OcrJobsNext == UserStep \/ AgentStep \/ GiveUp \/ CrashAgent \/ OcrRestart
               \/ \E s \in Slots : Select(s) \/ CallStep(s)

OcrJobsSpec == OcrJobsInit /\ [][OcrJobsNext]_ocrJobsVars
-----------------------------------------------------------------------------
RunStates == {"running", "failed", "awaiting_qa", "completed"}
JobStates == {"absent", "queued", "running", "completed", "failed", "canceled"}
CallRecords ==
    [kind : {"claim", "page", "complete", "fail", "worker"},
     at : {"recover", "look", "prepare", "check", "write", "pages", "stage"},
     job : OcrJobs \cup {0}, todo : SUBSET Books, got : SUBSET Ids, bad : BOOLEAN, awaited : BOOLEAN]

RowsTypeOK ==
    /\ byAgent \in BOOLEAN
    /\ state \in [OcrJobs -> JobStates]
    /\ target \in [OcrJobs -> Books \cup {Every}]
    /\ fresh \in [OcrJobs -> BOOLEAN]
    /\ mapped \in [OcrJobs -> SUBSET Ids]
    /\ runs \in Seq([book : Books, state : RunStates, page : {"none", "poor", "passed"}])
    /\ Len(runs) <= MaxRuns
    /\ done \subseteq Books
    /\ calls \in [Slots -> CallRecords \cup {Free}]
    /\ ocrAgent \in [at : {"rest", "claim", "work", "page", "complete", "fail"},
                   job : OcrJobs \cup {0}, todo : SUBSET Books, lost : BOOLEAN]
    /\ strayed \subseteq OcrJobs
    /\ ocrFaults \in 0 .. MaxOcrFaults
ClaimsTypeOK ==
    /\ picked \in [Slots -> [book : Books \cup {Every}, run : {0} \cup Ids]]
    /\ taken \in [OcrJobs -> SUBSET Ids]

\* The jobs, runs, calls, picks and the agent keep their types.
OcrJobsTypeOK == RowsTypeOK /\ ClaimsTypeOK

\* A run that is in review or published has all its pages, whatever call
\* staged it and whatever calls of its job came too late (the staging
\* validates the rows, and no later writer removes one).
ReviewedRunsAreComplete ==
    \A r \in Ids : runs[r].state \in InReview => runs[r].page # "none"

\* A run that a late call may still write to, or wrote to: one of a job with a
\* call that outlived its sender, broke off or was cut short.  prepare_run may
\* have taken it in such a call before the job had any runs.
Disturbed(r) == \E j \in strayed : r \in mapped[j] \cup taken[j]

\* A job that completes without such a call has a run of its target in review
\* or published, unless a late fail or a late claim of another job marked that
\* run failed or running after it was staged (complete() stages every run
\* before it finishes the job; mark_run_failed and the UPDATE of prepare_run
\* look at no state).
CompletedJobIsStaged ==
    [][\A j \in OcrJobs :
        state[j] = "running" /\ state'[j] = "completed" /\ target[j] # Every /\ j \notin strayed'
          => \E r \in Ids : runs[r].book = target[j] /\ (runs[r].state \in InReview \/ Disturbed(r))]_ocrJobsVars

\* A run leaves the review or its publication only through a job one of whose
\* calls outlived its sender, broke off, or was cut short: prepare_run reads
\* no run that was staged, and no job in order stages a run between the read
\* and the UPDATE of another one, or writes to a run after staging it.
ReviewIsLeftAlone ==
    [][\A r \in Ids :
        runs[r].state \in InReview =>
            \/ runs'[r].state = "completed"
            \/ runs'[r].state = runs[r].state
            \/ Disturbed(r)']_ocrJobsVars

\* Jobs bring their runs into the review and take none out of it (complete,
\* prepare_run, fail).
JobsServeReview == CompletedJobIsStaged /\ ReviewIsLeftAlone
=============================================================================
