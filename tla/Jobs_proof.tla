----------------------------- MODULE Jobs_proof -----------------------------
(***************************************************************************)
(* Theorems about the OCR jobs, for every set of jobs, books and server    *)
(* threads and every bound of the runs and faults, and about MCJobs, which *)
(* puts them beside the capture jobs.                                      *)
(***************************************************************************)
EXTENDS MCJobs, CaptureAgent_proof, SequenceTheorems, WellFoundedInduction

-----------------------------------------------------------------------------
(***************************************************************************)
(* The OCR jobs.  An inductive invariant says what each call holds.        *)
(***************************************************************************)
Serves(s) == calls[s].kind # "free"
AwaitedAt(s) == Serves(s) /\ calls[s].awaited

\* The calls that a job has: every call but a claim that has taken none yet.
OfJob(s) == Serves(s) /\ (calls[s].kind = "claim" => calls[s].at = "prepare")
Preparing(s) == calls[s].kind \in {"claim", "worker"} /\ calls[s].at = "prepare"
Staging(s) == calls[s].kind = "complete" /\ calls[s].at = "write"

\* A call is where its kind can be and has a job, which is a stray one if
\* the agent does not wait for the call any more.
CallFits(s) ==
    /\ calls[s].kind = "claim" => calls[s].at \in {"recover", "look", "prepare"}
    /\ calls[s].kind = "claim" /\ calls[s].at # "prepare" => calls[s].got = {}
    /\ calls[s].kind \in {"page", "complete", "fail"} => calls[s].at \in {"check", "write"}
    /\ calls[s].kind = "worker" => calls[s].at \in {"prepare", "pages", "stage"}
    /\ Serves(s) => (calls[s].kind = "worker" <=> ~byAgent)
    /\ OfJob(s) => calls[s].job \in OcrJobs
    /\ OfJob(s) /\ byAgent /\ ~calls[s].awaited => calls[s].job \in strayed

\* The agent waits for one call, and is where it posted it.
AgentFits ==
    /\ ocrAgent.at \in {"work", "page", "complete", "fail"} => ocrAgent.job \in OcrJobs
    /\ \A s, t \in Slots : AwaitedAt(s) /\ AwaitedAt(t) => s = t
    /\ \A s \in Slots : AwaitedAt(s) => ocrAgent.at = calls[s].kind \/ (calls[s].kind = "fail" /\ ocrAgent.at = "claim")

CallsFit == AgentFits /\ \A s \in Slots : CallFits(s)

\* One job runs at a time, is prepared once, and the calls of a job write only
\* to its runs.
RunningOne ==
    IF byAgent
    THEN \A j, k \in OcrJobs : state[j] = "running" /\ state[k] = "running" => j = k
    ELSE /\ \A s, t \in Slots : Serves(s) /\ Serves(t) => s = t
         /\ \A j \in OcrJobs : mapped[j] = {}

PreparedOnce ==
    /\ \A j \in OcrJobs : state[j] \in {"absent", "queued", "canceled"} => mapped[j] = {}
    /\ \A s \in Slots : calls[s].kind = "claim" /\ Preparing(s) =>
        /\ mapped[calls[s].job] = {}
        /\ state[calls[s].job] \notin {"absent", "queued", "canceled"}
        /\ \A t \in Slots : calls[t].kind = "claim" /\ Preparing(t) /\ calls[t].job = calls[s].job => s = t
    /\ \A s \in Slots : calls[s].kind \in {"page", "complete", "fail"} => calls[s].got \subseteq mapped[calls[s].job]

JobsApart == RunningOne /\ PreparedOnce

\* A run in review that no stray job has is in nobody's hands: no call has it
\* before it, and the one job that still runs is being completed.
Untouched(r) == runs[r].state \in InReview /\ ~Disturbed(r)
InPeace(r) ==
    /\ \A s \in Slots : Serves(s) /\ r \in calls[s].got =>
            calls[s].kind = "page" \/ (calls[s].kind = "claim" /\ calls[s].job \in strayed)
    /\ \A j \in OcrJobs : state[j] = "running" /\ r \in mapped[j] =>
            \E s \in Slots : Staging(s) /\ AwaitedAt(s) /\ calls[s].job = j
ReviewRests == \A r \in Ids : Untouched(r) => InPeace(r)

\* What prepare_run has read of a book is a run of it, which was to be resumed;
\* if it has come into review since then, the claim is of a stray job.
PickFits(s) ==
    picked[s] # NoPick =>
        /\ Preparing(s) /\ picked[s].book \in calls[s].todo
        /\ picked[s].run # 0 =>
            /\ picked[s].run \in Ids /\ runs[picked[s].run].book = picked[s].book
            /\ Untouched(picked[s].run) => calls[s].job \in strayed
PicksFit == ClaimsTypeOK /\ \A s \in Slots : PickFits(s)

\* The target of a job in order is on its way into the review.
Has(set, b) == \E r \in set : runs[r].book = b
Delivered(b) == \E r \in Ids : runs[r].book = b /\ (runs[r].state \in InReview \/ Disturbed(r))
CallAims(s) ==
    /\ Preparing(s) /\ target[calls[s].job] # Every =>
        target[calls[s].job] \in calls[s].todo \/ Has(calls[s].got, target[calls[s].job])
    /\ Staging(s) /\ calls[s].job \notin strayed =>
        /\ state[calls[s].job] = "running"
        /\ target[calls[s].job] # Every =>
             Has(calls[s].got, target[calls[s].job]) \/ Delivered(target[calls[s].job])
    /\ calls[s].kind = "worker" => state[calls[s].job] # "absent"
    /\ calls[s].kind = "worker" /\ target[calls[s].job] # Every =>
        /\ calls[s].at \in {"prepare", "pages"} => ~calls[s].bad
        /\ calls[s].at = "pages" => Has(calls[s].got, target[calls[s].job])
        /\ calls[s].at = "stage" =>
             \/ calls[s].bad
             \/ Has(calls[s].got, target[calls[s].job]) \/ Delivered(target[calls[s].job])
Bringing(s, j) ==
    /\ AwaitedAt(s) /\ calls[s].job = j
    /\ calls[s].kind \in {"claim", "fail"} /\ (calls[s].kind = "claim" => Preparing(s))
JobAims(j) ==
    byAgent /\ state[j] = "running" /\ j \notin strayed /\ target[j] # Every =>
        (\E s \in Slots : Bringing(s, j)) \/ Has(mapped[j], target[j])
TargetGoesOn == (\A s \in Slots : CallAims(s)) /\ (\A j \in OcrJobs : JobAims(j))

OcrJobsInv ==
    RowsTypeOK /\ PicksFit /\ ReviewedRunsAreComplete /\ CallsFit /\ JobsApart /\ ReviewRests /\ TargetGoesOn

\* The steps that change no call and no row.
Aside == PageRaises \/ PostHeartbeat \/ \E s \in Slots : Select(s)
-----------------------------------------------------------------------------
(* Choices and updates. *)

\* A set of numbers has a least one.
LEMMA LeastIsOne ==
    ASSUME NEW S, S \subseteq Nat, S # {}
    PROVE  \E x \in S : \A y \in S : x <= y
<1>1. PICK x \in S : \A y \in S : ~(<<y, x>> \in OpToRel(<, Nat))
  BY NatLessThanWellFounded, WFMin
<1>2. \A y \in S : x <= y
  <2> SUFFICES ASSUME NEW y \in S, ~(x <= y) PROVE FALSE
    OBVIOUS
  <2>1. y < x /\ <<y, x>> \in Nat \X Nat
    OBVIOUS
  <2>2. <<y, x>> \in OpToRel(<, Nat)
    BY <2>1 DEF OpToRel
  <2> QED
    BY <1>1, <2>2
<1> QED
  BY <1>2

\* The first of a set of jobs is one of them.
LEMMA FirstIsOne ==
    ASSUME NEW S, S \subseteq OcrJobs, S # {}
    PROVE  First(S) \in S
BY LeastIsOne, OcrAgentJobsAssumption DEF First

\* The latest of some numbers up to n is one of them.
LEMMA LatestIsOne ==
    ASSUME NEW n \in Nat, NEW S, S \subseteq 1 .. n, S # {}
    PROVE  Latest(S) \in S
<1>0. \A q \in S : q \in Int /\ n - q \in Nat
  OBVIOUS
<1> DEFINE T == {n - q : q \in S}
<1>1. T \subseteq Nat
  BY <1>0
<1>2. \A q \in S : n - q \in T
  OBVIOUS
<1>3. T # {}
  BY <1>2
<1>4. PICK x \in T : \A y \in T : x <= y
  BY <1>1, <1>3, LeastIsOne
<1>5. PICK r \in S : x = n - r
  OBVIOUS
<1>6. \A p \in S : n - r <= n - p
  BY <1>2, <1>4, <1>5
<1> HIDE DEF T
<1>7. \A p \in S : p <= r
  BY <1>0, <1>6
<1> QED
  BY <1>7 DEF Latest

RunRecords == [book : Books, state : RunStates, page : {"none", "poor", "passed"}]
CallsOver(ids) ==
    [kind : {"claim", "page", "complete", "fail", "worker"},
     at : {"recover", "look", "prepare", "check", "write", "pages", "stage"},
     job : OcrJobs \cup {0}, todo : SUBSET Books, got : SUBSET ids, bad : BOOLEAN, awaited : BOOLEAN]

\* The types, with the runs as a sequence of records.
LEMMA RunTypes ==
    ASSUME RowsTypeOK
    PROVE  /\ runs \in Seq(RunRecords) /\ Ids = 1 .. Len(runs) /\ Len(runs) \in Nat
           /\ \A r \in Ids : runs[r] \in RunRecords
           /\ CallRecords = CallsOver(Ids)
<1>1. runs \in Seq(RunRecords)
  BY DEF RowsTypeOK, RunRecords
<1> QED
  BY <1>1, LenProperties, ElementOfSeq DEF CallRecords, CallsOver, Ids

\* Marking runs changes their states only.
LEMMA MarkedRuns ==
    ASSUME RowsTypeOK, NEW set, NEW to \in RunStates
    PROVE  /\ Marked(set, to) \in Seq(RunRecords) /\ Len(Marked(set, to)) = Len(runs) /\ DOMAIN Marked(set, to) = Ids
           /\ \A r \in Ids : /\ Marked(set, to)[r].state = IF r \in set THEN to ELSE runs[r].state
                             /\ Marked(set, to)[r].page = runs[r].page
                             /\ Marked(set, to)[r].book = runs[r].book
<1>0. \A u \in RunRecords : LET v == [u EXCEPT !.state = to]
                            IN v \in RunRecords /\ v.state = to /\ v.page = u.page /\ v.book = u.book
  BY DEF RunRecords
<1>1. \A r \in 1 .. Len(runs) : (IF r \in set THEN [runs[r] EXCEPT !.state = to] ELSE runs[r]) \in RunRecords
  BY <1>0, RunTypes
<1>2. Marked(set, to) \in Seq(RunRecords)
  BY <1>1, RunTypes, IsASeq DEF Marked
<1>3. DOMAIN Marked(set, to) = 1 .. Len(runs)
  BY RunTypes DEF Marked
<1>4. Len(Marked(set, to)) = Len(runs)
  BY <1>2, <1>3, LenProperties, RunTypes
<1>5. ASSUME NEW r \in Ids
      PROVE  /\ Marked(set, to)[r].state = IF r \in set THEN to ELSE runs[r].state
             /\ Marked(set, to)[r].page = runs[r].page
             /\ Marked(set, to)[r].book = runs[r].book
  <2>1. Marked(set, to)[r] = IF r \in set THEN [runs[r] EXCEPT !.state = to] ELSE runs[r]
    BY DEF Marked
  <2> QED
    BY <1>0, <2>1, RunTypes
<1> QED
  BY <1>2, <1>3, <1>4, <1>5, RunTypes

AgentRecords ==
    [at : {"rest", "claim", "work", "page", "complete", "fail"}, job : OcrJobs \cup {0}, todo : SUBSET Books,
     lost : BOOLEAN]
CallIs(c, kind, place, job, todo, got, bad, awaited) ==
    /\ c.kind = kind /\ c.at = place /\ c.job = job /\ c.todo = todo
    /\ c.got = got /\ c.bad = bad /\ c.awaited = awaited

\* A call under way is a record of its fields.
LEMMA CallTyped ==
    ASSUME RowsTypeOK, NEW s \in Slots
    PROVE  /\ Serves(s) => calls[s] \in CallsOver(Ids)
           /\ ~Serves(s) => calls[s] = Free
           /\ Free.kind = "free"
<1>1. calls[s] \in CallRecords \cup {Free}
  BY DEF RowsTypeOK
<1>2. \A c \in CallsOver(Ids) : c.kind # "free"
  BY DEF CallsOver
<1>3. Free.kind = "free"
  BY DEF Free
<1>4. CallRecords = CallsOver(Ids)
  BY RunTypes
<1> QED
  BY <1>1, <1>2, <1>3, <1>4 DEF Serves

\* A step of one slot leaves the others alone.
LEMMA SlotMoves ==
    ASSUME RowsTypeOK, runs' \in Seq(RunRecords), Len(runs) <= Len(runs'),
           NEW s \in Slots, NEW d \in CallsOver(DOMAIN runs') \cup {Free}, Step(s, d)
    PROVE  /\ calls' \in [Slots -> CallRecords' \cup {Free}]
           /\ calls'[s] = d
           /\ \A t \in Slots : t # s => calls'[t] = calls[t]
<1>1. Ids \subseteq DOMAIN runs'
  BY RunTypes, LenProperties
<1>2. CallsOver(Ids) \subseteq CallsOver(DOMAIN runs')
  BY <1>1 DEF CallsOver
<1>3. CallRecords' = CallsOver(DOMAIN runs')
  BY DEF CallRecords, CallsOver, Ids
<1>4. calls \in [Slots -> CallsOver(Ids) \cup {Free}]
  BY RunTypes DEF RowsTypeOK
<1> QED
  BY <1>2, <1>3, <1>4 DEF Step

\* The agent whose call fails rests, or reports the failure of its job.
LEMMA UpsetTyped ==
    ASSUME RowsTypeOK
    PROVE  /\ Upset \in AgentRecords /\ Resting \in AgentRecords /\ Resting.at = "rest"
           /\ Upset.at = IF ocrAgent.at \in {"claim", "fail"} THEN "rest" ELSE "fail"
           /\ Upset.at = "fail" => Upset.job = ocrAgent.job
<1>1. ocrAgent \in AgentRecords
  BY DEF RowsTypeOK, AgentRecords
<1>2. \A v \in AgentRecords : LET u == [v EXCEPT !.at = "fail"]
                              IN  u \in AgentRecords /\ u.at = "fail" /\ u.job = v.job
  BY DEF AgentRecords
<1>3. Resting \in AgentRecords /\ Resting.at = "rest"
  BY DEF AgentRecords, Resting
<1> QED
  BY <1>1, <1>2, <1>3 DEF Upset

\* A manifest is a job with books to read.
LEMMA ManifestTyped ==
    ASSUME RowsTypeOK, NEW j \in OcrJobs, NEW set \in SUBSET Ids
    PROVE  /\ OcrPending(set) \subseteq Books
           /\ Manifest(j, set) \in AgentRecords /\ Manifest(j, set).at = "work" /\ Manifest(j, set).job = j
<1>1. OcrPending(set) \subseteq Books
  BY RunTypes DEF RunRecords, OcrPending
<1> QED
  BY <1>1 DEF Manifest, AgentRecords

-----------------------------------------------------------------------------
(* What each step of a call does to its record, the runs and the agent. *)

\* recover: the stale jobs and their runs are failed.
LEMMA RecoverDoes ==
    ASSUME RowsTypeOK, NEW s \in Slots, Recover(s)
    PROVE  /\ RowsTypeOK'
           /\ calls[s].kind = "claim" /\ calls[s].at = "recover"
           /\ UNCHANGED <<byAgent, target, mapped, ocrAgent>>
           /\ \A j \in OcrJobs : state'[j] = IF state[j] = "running" /\ ~fresh[j] THEN "failed" ELSE state[j]
           /\ calls[s].awaited => strayed' = strayed
           /\ strayed \subseteq strayed'
           /\ ~calls[s].awaited => \A j \in OcrJobs : state[j] = "running" /\ ~fresh[j] => j \in strayed'
           /\ CallIs(calls'[s], "claim", "look", calls[s].job, calls[s].todo, calls[s].got, calls[s].bad,
                     calls[s].awaited)
           /\ \A t \in Slots : t # s => calls'[t] = calls[t]
           /\ Ids' = Ids
           /\ \A r \in Ids : /\ runs'[r].page = runs[r].page /\ runs'[r].book = runs[r].book
                             /\ \/ runs'[r].state = runs[r].state
                                \/ \E j \in OcrJobs : /\ state[j] = "running" /\ ~fresh[j] /\ r \in mapped[j]
                                                      /\ runs'[r].state = "failed"
<1> DEFINE stale == {j \in OcrJobs : state[j] = "running" /\ ~fresh[j]}
           set == UNION {mapped[j] : j \in stale}
           d == [calls[s] EXCEPT !.at = "look"]
<1>1. calls[s] \in CallsOver(Ids)
  BY CallTyped DEF Recover, At, Serves
<1>2. \A c \in CallsOver(Ids) : LET e == [c EXCEPT !.at = "look"] IN
        e \in CallsOver(Ids) /\ CallIs(e, c.kind, "look", c.job, c.todo, c.got, c.bad, c.awaited)
  BY DEF CallsOver, CallIs
<1>3. d \in CallsOver(Ids) /\ CallIs(d, "claim", "look", calls[s].job, calls[s].todo, calls[s].got, calls[s].bad,
                                     calls[s].awaited)
  BY <1>1, <1>2 DEF Recover, At
<1>4. runs' = Marked(set, "failed") /\ Step(s, d)
  BY DEF Recover
<1> HIDE DEF set, d
<1>5. /\ runs' \in Seq(RunRecords) /\ Len(runs') = Len(runs) /\ Ids' = Ids
      /\ \A r \in Ids : /\ runs'[r].page = runs[r].page /\ runs'[r].book = runs[r].book
                        /\ runs'[r].state = IF r \in set THEN "failed" ELSE runs[r].state
  BY <1>4, MarkedRuns DEF RunStates, Ids
<1>6. /\ calls' \in [Slots -> CallRecords' \cup {Free}]
      /\ calls'[s] = d
      /\ \A t \in Slots : t # s => calls'[t] = calls[t]
  BY <1>3, <1>4, <1>5, SlotMoves, RunTypes DEF Ids
<1>7. /\ state' \in [OcrJobs -> JobStates] /\ strayed' \subseteq OcrJobs
      /\ UNCHANGED <<byAgent, target, fresh, mapped, done, ocrAgent, ocrFaults>>
  BY DEF Recover, RowsTypeOK, JobStates
<1>8. RowsTypeOK'
  BY <1>5, <1>6, <1>7 DEF RowsTypeOK, RunRecords
<1>9. /\ calls[s].kind = "claim" /\ calls[s].at = "recover"
      /\ state' = [j \in OcrJobs |-> IF j \in stale THEN "failed" ELSE state[j]]
      /\ strayed' = IF calls[s].awaited THEN strayed ELSE strayed \cup stale
  BY DEF Recover, At
<1> QED
  BY <1>3, <1>5, <1>6, <1>7, <1>8, <1>9 DEF set

\* A call is answered; the agent, if it still waits, goes on with `new`.
LEMMA ReplyDoes ==
    ASSUME RowsTypeOK, runs' \in Seq(RunRecords), Len(runs) <= Len(runs'),
           NEW s \in Slots, NEW new \in AgentRecords, OcrReply(s, new)
    PROVE  /\ calls' \in [Slots -> CallRecords' \cup {Free}]
           /\ calls'[s] = Free
           /\ \A t \in Slots : t # s => calls'[t] = calls[t]
           /\ ocrAgent' \in AgentRecords
           /\ ocrAgent' = IF calls[s].awaited THEN new ELSE ocrAgent
<1>1. Step(s, Free) /\ ocrAgent' = IF calls[s].awaited THEN new ELSE ocrAgent
  BY DEF OcrReply
<1>2. ocrAgent \in AgentRecords
  BY DEF RowsTypeOK, AgentRecords
<1> QED
  BY <1>1, <1>2, SlotMoves

\* The running job is handed out again.
LEMMA AgainDoes ==
    ASSUME RowsTypeOK, NEW s \in Slots, Again(s)
    PROVE  /\ RowsTypeOK'
           /\ calls'[s] = Free
           /\ \A t \in Slots : t # s => calls'[t] = calls[t]
           /\ UNCHANGED <<byAgent, state, target, mapped, runs, strayed>>
           /\ calls[s].kind = "claim" /\ calls[s].at = "look"
           /\ calls[s].awaited => ocrAgent'.at = "work" /\ ocrAgent'.job \in OcrJobs
           /\ ~calls[s].awaited => ocrAgent' = ocrAgent
<1>1. PICK j \in OcrJobs : OcrBeat(j) /\ OcrReply(s, Manifest(j, mapped[j]))
  <2> DEFINE mine == {j \in OcrJobs : state[j] = "running"}
  <2>1. mine # {} /\ OcrBeat(First(mine)) /\ OcrReply(s, Manifest(First(mine), mapped[First(mine)]))
    BY DEF Again
  <2>2. First(mine) \in OcrJobs
    BY <2>1, FirstIsOne
  <2> QED
    BY <2>1, <2>2
<1>2. mapped[j] \in SUBSET Ids
  BY DEF RowsTypeOK
<1>3. Manifest(j, mapped[j]) \in AgentRecords /\ Manifest(j, mapped[j]).at = "work" /\ Manifest(j, mapped[j]).job = j
  BY <1>2, ManifestTyped
<1>4. UNCHANGED <<byAgent, state, target, mapped, runs, done, strayed, ocrFaults>>
  BY DEF Again
<1>5. /\ calls' \in [Slots -> CallRecords' \cup {Free}] /\ calls'[s] = Free
      /\ \A t \in Slots : t # s => calls'[t] = calls[t]
      /\ ocrAgent' \in AgentRecords
      /\ ocrAgent' = IF calls[s].awaited THEN Manifest(j, mapped[j]) ELSE ocrAgent
  BY <1>1, <1>3, <1>4, ReplyDoes, RunTypes
<1>6. fresh' \in [OcrJobs -> BOOLEAN]
  BY <1>1 DEF OcrBeat, RowsTypeOK
<1>7. RowsTypeOK'
  BY <1>4, <1>5, <1>6 DEF RowsTypeOK, AgentRecords, Ids
<1>8. calls[s].kind = "claim" /\ calls[s].at = "look"
  BY DEF Again, At
<1> QED
  BY <1>3, <1>4, <1>5, <1>7, <1>8


\* The first queued job is taken.
LEMMA TakeDoes ==
    ASSUME RowsTypeOK, NEW s \in Slots, Take(s)
    PROVE  /\ RowsTypeOK'
           /\ \A t \in Slots : t # s => calls'[t] = calls[t]
           /\ UNCHANGED <<byAgent, target, mapped, runs, ocrAgent>>
           /\ calls[s].kind = "claim" /\ calls[s].at = "look"
           /\ \A k \in OcrJobs : state[k] # "running"
           /\ \E j \in OcrJobs :
               /\ state[j] = "queued" /\ state' = [state EXCEPT ![j] = "running"]
               /\ CallIs(calls'[s], "claim", "prepare", j, TargetsOf(j), calls[s].got, calls[s].bad, calls[s].awaited)
               /\ strayed' = IF calls[s].awaited THEN strayed ELSE strayed \cup {j}
<1>1. PICK j \in OcrJobs :
        /\ state[j] = "queued" /\ SetState(j, "running") /\ OcrBeat(j)
        /\ Step(s, [calls[s] EXCEPT !.at = "prepare", !.job = j, !.todo = TargetsOf(j)])
        /\ strayed' = IF calls[s].awaited THEN strayed ELSE strayed \cup {j}
  BY FirstIsOne DEF Take, Queued
<1> DEFINE d == [calls[s] EXCEPT !.at = "prepare", !.job = j, !.todo = TargetsOf(j)]
<1>2. calls[s] \in CallsOver(Ids) /\ calls[s].kind = "claim" /\ calls[s].at = "look"
  BY CallTyped DEF Take, At, Serves
<1>3. TargetsOf(j) \in SUBSET Books
  BY DEF TargetsOf, RowsTypeOK
<1>4. \A c \in CallsOver(Ids), b \in SUBSET Books :
        LET e == [c EXCEPT !.at = "prepare", !.job = j, !.todo = b]
        IN  e \in CallsOver(Ids) /\ CallIs(e, c.kind, "prepare", j, b, c.got, c.bad, c.awaited)
  BY DEF CallsOver, CallIs
<1>5. d \in CallsOver(Ids) /\ CallIs(d, "claim", "prepare", j, TargetsOf(j), calls[s].got, calls[s].bad,
                                     calls[s].awaited)
  BY <1>2, <1>3, <1>4
<1> HIDE DEF d
<1>6. UNCHANGED <<byAgent, target, mapped, runs, done, ocrAgent, ocrFaults>> /\ \A k \in OcrJobs : state[k] # "running"
  BY DEF Take
<1>7. /\ calls' \in [Slots -> CallRecords' \cup {Free}] /\ calls'[s] = d
      /\ \A t \in Slots : t # s => calls'[t] = calls[t]
  BY <1>1, <1>5, <1>6, SlotMoves, RunTypes DEF d, Ids
<1>8. /\ state' \in [OcrJobs -> JobStates] /\ fresh' \in [OcrJobs -> BOOLEAN] /\ strayed' \subseteq OcrJobs
      /\ state' = [state EXCEPT ![j] = "running"]
  BY <1>1 DEF SetState, OcrBeat, RowsTypeOK, JobStates
<1>9. RowsTypeOK'
  BY <1>6, <1>7, <1>8 DEF RowsTypeOK, Ids
<1> QED
  BY <1>1, <1>2, <1>5, <1>6, <1>7, <1>8, <1>9


\* There is nothing to claim.
LEMMA NothingDoes ==
    ASSUME RowsTypeOK, NEW s \in Slots, NothingToClaim(s)
    PROVE  /\ RowsTypeOK'
           /\ calls'[s] = Free
           /\ \A t \in Slots : t # s => calls'[t] = calls[t]
           /\ UNCHANGED <<byAgent, state, target, mapped, runs, strayed>>
           /\ calls[s].kind = "claim" /\ calls[s].at = "look"
           /\ calls[s].awaited => ocrAgent'.at = "rest"
           /\ ~calls[s].awaited => ocrAgent' = ocrAgent
<1>1. OcrReply(s, Resting) /\ UNCHANGED <<byAgent, jobVars, runs, done, strayed, ocrFaults>>
  BY DEF NothingToClaim
<1>2. Resting \in AgentRecords /\ Resting.at = "rest"
  BY UpsetTyped
<1>3. /\ calls' \in [Slots -> CallRecords' \cup {Free}] /\ calls'[s] = Free
      /\ \A t \in Slots : t # s => calls'[t] = calls[t]
      /\ ocrAgent' \in AgentRecords /\ ocrAgent' = IF calls[s].awaited THEN Resting ELSE ocrAgent
  BY <1>1, <1>2, ReplyDoes, RunTypes
<1>4. RowsTypeOK'
  BY <1>1, <1>3 DEF RowsTypeOK, AgentRecords, jobVars, Ids
<1>5. calls[s].kind = "claim" /\ calls[s].at = "look"
  BY DEF NothingToClaim, At
<1> QED
  BY <1>1, <1>2, <1>3, <1>4, <1>5 DEF jobVars


\* A run is resumed or created (prepare_run).
LEMMA PrepareDoes ==
    ASSUME RowsTypeOK, PicksFit, NEW s \in Slots, CallFits(s), Prepare(s)
    PROVE  /\ RowsTypeOK'
           /\ \A t \in Slots : t # s => calls'[t] = calls[t]
           /\ UNCHANGED <<byAgent, state, target, mapped, ocrAgent, strayed>>
           /\ Preparing(s)
           /\ \E b \in calls[s].todo, r \in Ids' :
               /\ r \in Ids => runs[r].book = b /\ (Untouched(r) => Disturbed(r)')
               /\ runs'[r].book = b /\ runs'[r].state = "running"
               /\ r \in Ids => runs'[r].page = runs[r].page
               /\ Ids' = Ids \cup {r}
               /\ \A q \in Ids : q # r => runs'[q] = runs[q]
               /\ CallIs(calls'[s], calls[s].kind, "prepare", calls[s].job, calls[s].todo \ {b},
                         calls[s].got \cup {r}, calls[s].bad, calls[s].awaited)
               /\ taken' = [taken EXCEPT ![calls[s].job] = @ \cup {r}]
<1>0. PICK b, r : b = picked[s].book /\ r = (IF picked[s].run = 0 THEN Len(runs) + 1 ELSE picked[s].run)
  OBVIOUS
<1> DEFINE d == [calls[s] EXCEPT !.todo = @ \ {b}, !.got = @ \cup {r}]
<1>1. PickFits(s) /\ picked[s] # NoPick
  BY DEF PicksFit, Prepare
<1>2. /\ r <= MaxRuns
      /\ runs' = IF picked[s].run # 0 THEN Marked({r}, "running")
                 ELSE Append(runs, [book |-> b, state |-> "running", page |-> "none"])
      /\ Step(s, d)
      /\ taken' = [taken EXCEPT ![calls[s].job] = @ \cup {r}]
      /\ UNCHANGED <<byAgent, jobVars, done, ocrAgent, strayed, ocrFaults>>
  BY <1>0 DEF Prepare
<1>3. /\ Preparing(s) /\ calls[s] \in CallsOver(Ids) /\ calls[s].at = "prepare" /\ b \in calls[s].todo
      /\ calls[s].job \in OcrJobs
      /\ UNCHANGED <<byAgent, state, target, fresh, mapped, done, ocrAgent, strayed, ocrFaults>>
  BY <1>0, <1>1, <1>2, CallTyped DEF PickFits, Preparing, Serves, jobVars, CallFits, OfJob
<1>4. b \in Books
  BY <1>3 DEF CallsOver
<1>5. picked[s].run = 0 => r = Len(runs) + 1 /\ r \notin Ids
  BY <1>0, RunTypes
<1>6. picked[s].run # 0 => r \in Ids /\ runs[r].book = b /\ (Untouched(r) => calls[s].job \in strayed)
  BY <1>0, <1>1 DEF PickFits
<1>d. Untouched(r) /\ r \in Ids => Disturbed(r)'
  <2>1. r \in taken'[calls[s].job]
    BY <1>2, <1>3 DEF PicksFit, ClaimsTypeOK
  <2> QED
    BY <1>3, <1>5, <1>6, <2>1 DEF Disturbed
<1>7. /\ runs' \in Seq(RunRecords) /\ Len(runs) <= Len(runs') /\ Len(runs') <= MaxRuns
      /\ r \in Ids' /\ Ids' = Ids \cup {r}
      /\ r \in Ids => runs[r].book = b
      /\ runs'[r].book = b /\ runs'[r].state = "running"
      /\ r \in Ids => runs'[r].page = runs[r].page
      /\ \A q \in Ids : q # r => runs'[q] = runs[q]
  <2>1. CASE picked[s].run # 0
    <3>1. runs' = Marked({r}, "running") /\ r \in Ids /\ runs[r].book = b /\ "running" \in RunStates
      BY <1>2, <1>6, <2>1 DEF RunStates
    <3>2. runs' \in Seq(RunRecords) /\ Len(runs') = Len(runs) /\ Ids' = Ids
      BY <3>1, MarkedRuns DEF Ids
    <3>3. \A q \in Ids : q # r => runs'[q] = runs[q]
      BY <3>1 DEF Marked
    <3>4. runs'[r].state = "running" /\ runs'[r].page = runs[r].page /\ runs'[r].book = runs[r].book
      BY <3>1, MarkedRuns
    <3>5. Len(runs) <= Len(runs') /\ Len(runs') <= MaxRuns
      BY <3>2, RunTypes DEF RowsTypeOK
    <3>6. r \in Ids' /\ Ids' = Ids \cup {r} /\ runs'[r].book = b
      BY <3>1, <3>2, <3>4
    <3> QED
      BY <3>1, <3>2, <3>3, <3>4, <3>5, <3>6
  <2>2. CASE picked[s].run = 0
    <3> DEFINE new == [book |-> b, state |-> "running", page |-> "none"]
    <3>1. runs' = Append(runs, new) /\ r = Len(runs) + 1 /\ r \notin Ids
      BY <1>2, <1>5, <2>2
    <3>2. new \in RunRecords
      BY <1>4 DEF RunRecords, RunStates
    <3>3. runs' \in Seq(RunRecords) /\ Len(runs') = Len(runs) + 1 /\ runs'[r] = new
          /\ \A q \in 1 .. Len(runs) : runs'[q] = runs[q]
      BY <3>1, <3>2, RunTypes, AppendProperties
    <3>4. Ids' = 1 .. Len(runs')
      BY <3>3, LenProperties DEF Ids
    <3> QED
      BY <1>2, <2>2, <3>1, <3>3, <3>4, RunTypes
  <2> QED
    BY <2>1, <2>2
<1>8. \A c \in CallsOver(Ids) :
        LET e == [c EXCEPT !.todo = @ \ {b}, !.got = @ \cup {r}]
        IN  /\ e \in CallsOver(Ids \cup {r})
            /\ CallIs(e, c.kind, c.at, c.job, c.todo \ {b}, c.got \cup {r}, c.bad, c.awaited)
  BY DEF CallsOver, CallIs
<1>9. d \in CallsOver(Ids') /\ CallIs(d, calls[s].kind, "prepare", calls[s].job, calls[s].todo \ {b},
                                      calls[s].got \cup {r}, calls[s].bad, calls[s].awaited)
  BY <1>3, <1>7, <1>8
<1> HIDE DEF d
<1>10. /\ calls' \in [Slots -> CallRecords' \cup {Free}] /\ calls'[s] = d
       /\ \A t \in Slots : t # s => calls'[t] = calls[t]
  BY <1>2, <1>7, <1>9, SlotMoves DEF Ids
<1>11. mapped' \in [OcrJobs -> SUBSET Ids']
  BY <1>3, <1>7 DEF RowsTypeOK
<1>12. RowsTypeOK'
  BY <1>3, <1>7, <1>10, <1>11 DEF RowsTypeOK, RunRecords
<1> QED
  BY <1>2, <1>3, <1>d, <1>7, <1>9, <1>10, <1>12

\* The runs of a job are written down.
LEMMA MapDoes ==
    ASSUME RowsTypeOK, NEW s \in Slots, CallFits(s), Map(s)
    PROVE  /\ RowsTypeOK'
           /\ calls'[s] = Free
           /\ \A t \in Slots : t # s => calls'[t] = calls[t]
           /\ UNCHANGED <<byAgent, state, target, runs, strayed>>
           /\ calls[s].kind = "claim" /\ Preparing(s) /\ calls[s].todo = {} /\ calls[s].job \in OcrJobs
           /\ mapped' = [mapped EXCEPT ![calls[s].job] = calls[s].got]
           /\ calls[s].awaited =>
               \/ state[calls[s].job] = "running" /\ ocrAgent'.at = "work" /\ ocrAgent'.job = calls[s].job
               \/ ocrAgent' = Upset
           /\ ~calls[s].awaited => ocrAgent' = ocrAgent
<1> DEFINE j == calls[s].job
<1>1. /\ calls[s].kind = "claim" /\ Preparing(s) /\ calls[s].todo = {} /\ j \in OcrJobs
      /\ calls[s] \in CallsOver(Ids) /\ calls[s].got \in SUBSET Ids
  BY CallTyped DEF Map, At, Preparing, Serves, CallFits, OfJob, CallsOver
<1>2. /\ Manifest(j, calls[s].got) \in AgentRecords /\ Manifest(j, calls[s].got).at = "work"
      /\ Manifest(j, calls[s].got).job = j /\ Upset \in AgentRecords
  BY <1>1, ManifestTyped, UpsetTyped
<1>3. /\ mapped' = [mapped EXCEPT ![j] = calls[s].got]
      /\ UNCHANGED <<byAgent, state, target, fresh, runs, done, strayed, ocrFaults>>
  BY DEF Map
<1>4. PICK new \in AgentRecords :
        /\ OcrReply(s, new)
        /\ (state[j] = "running" /\ new = Manifest(j, calls[s].got)) \/ new = Upset
  <2>1. CASE state[j] = "running"
    BY <1>2, <2>1 DEF Map
  <2>2. CASE state[j] # "running"
    BY <1>2, <2>2 DEF Map, Refuse
  <2> QED
    BY <2>1, <2>2
<1>5. /\ calls' \in [Slots -> CallRecords' \cup {Free}] /\ calls'[s] = Free
      /\ \A t \in Slots : t # s => calls'[t] = calls[t]
      /\ ocrAgent' \in AgentRecords /\ ocrAgent' = IF calls[s].awaited THEN new ELSE ocrAgent
  BY <1>3, <1>4, ReplyDoes, RunTypes
<1>6. mapped' \in [OcrJobs -> SUBSET Ids]
  BY <1>1, <1>3 DEF RowsTypeOK
<1>7. RowsTypeOK'
  BY <1>3, <1>5, <1>6 DEF RowsTypeOK, AgentRecords, Ids
<1> QED
  BY <1>1, <1>2, <1>3, <1>4, <1>5, <1>7

\* The preparation fails.
LEMMA PrepareRaisesDoes ==
    ASSUME RowsTypeOK, NEW s \in Slots, PrepareRaises(s)
    PROVE  /\ RowsTypeOK'
           /\ \A t \in Slots : t # s => calls'[t] = calls[t]
           /\ UNCHANGED <<byAgent, state, target, mapped, runs, ocrAgent, strayed>>
           /\ calls[s].kind = "claim" /\ Preparing(s)
           /\ CallIs(calls'[s], "fail", "check", calls[s].job, {}, {}, calls[s].bad, calls[s].awaited)
<1> DEFINE d == [calls[s] EXCEPT !.kind = "fail", !.at = "check", !.todo = {}, !.got = {}]
<1>1. calls[s] \in CallsOver(Ids) /\ calls[s].kind = "claim" /\ Preparing(s)
  BY CallTyped DEF PrepareRaises, At, Preparing, Serves
<1>2. \A c \in CallsOver(Ids) :
        LET e == [c EXCEPT !.kind = "fail", !.at = "check", !.todo = {}, !.got = {}]
        IN  e \in CallsOver(Ids) /\ CallIs(e, "fail", "check", c.job, {}, {}, c.bad, c.awaited)
  BY DEF CallsOver, CallIs
<1>3. d \in CallsOver(Ids) /\ CallIs(d, "fail", "check", calls[s].job, {}, {}, calls[s].bad, calls[s].awaited)
  BY <1>1, <1>2
<1>4. Step(s, d) /\ UNCHANGED <<byAgent, jobVars, runs, done, ocrAgent, strayed>> /\ Fault
  BY DEF PrepareRaises
<1> HIDE DEF d
<1>5. /\ calls' \in [Slots -> CallRecords' \cup {Free}] /\ calls'[s] = d
      /\ \A t \in Slots : t # s => calls'[t] = calls[t]
  BY <1>3, <1>4, SlotMoves, RunTypes DEF Ids
<1>6. ocrFaults' \in 0 .. MaxOcrFaults
  BY <1>4, OcrAgentJobsAssumption DEF Fault, RowsTypeOK
<1>7. RowsTypeOK'
  BY <1>4, <1>5, <1>6 DEF RowsTypeOK, jobVars, Ids
<1> QED
  BY <1>1, <1>3, <1>4, <1>5, <1>7 DEF jobVars

\* A page, a completion or a failure is admitted or refused.
LEMMA AdmitDoes ==
    ASSUME RowsTypeOK, NEW s \in Slots, CallFits(s), Admit(s)
    PROVE  /\ RowsTypeOK'
           /\ \A t \in Slots : t # s => calls'[t] = calls[t]
           /\ UNCHANGED <<byAgent, state, target, mapped, runs, strayed>>
           /\ calls[s].kind \in {"page", "complete", "fail"} /\ calls[s].at = "check" /\ calls[s].job \in OcrJobs
           /\ \/ /\ state[calls[s].job] = "running" /\ ocrAgent' = ocrAgent
                 /\ \E mine \in SUBSET mapped[calls[s].job] :
                       /\ calls[s].kind # "page" => mine = mapped[calls[s].job]
                       /\ CallIs(calls'[s], calls[s].kind, "write", calls[s].job, calls[s].todo, mine, calls[s].bad,
                                 calls[s].awaited)
              \/ /\ calls'[s] = Free /\ (calls[s].kind # "page" => state[calls[s].job] # "running")
                 /\ ocrAgent' = IF calls[s].awaited THEN Upset ELSE ocrAgent
<1> DEFINE j == calls[s].job
           mine == IF calls[s].kind = "page" THEN {r \in mapped[j] : runs[r].book \in calls[s].todo} ELSE mapped[j]
           d == [calls[s] EXCEPT !.at = "write", !.got = mine]
<1>1. /\ calls[s] \in CallsOver(Ids) /\ j \in OcrJobs
      /\ calls[s].kind \in {"page", "complete", "fail"} /\ calls[s].at = "check"
      /\ UNCHANGED <<byAgent, jobVars, runs, done, strayed, ocrFaults>>
  BY CallTyped DEF Admit, Serves, CallFits, OfJob
<1>2. mine \in SUBSET mapped[j] /\ mine \in SUBSET Ids /\ (calls[s].kind # "page" => mine = mapped[j])
  BY <1>1 DEF RowsTypeOK
<1>3. \/ state[j] = "running" /\ Step(s, d) /\ ocrAgent' = ocrAgent
      \/ (calls[s].kind # "page" => state[j] # "running") /\ Refuse(s)
  BY DEF Admit
<1> HIDE DEF mine
<1>4. \A c \in CallsOver(Ids) :
        LET e == [c EXCEPT !.at = "write", !.got = mine]
        IN  e \in CallsOver(Ids) /\ CallIs(e, c.kind, "write", c.job, c.todo, mine, c.bad, c.awaited)
  BY <1>2 DEF CallsOver, CallIs
<1>5. d \in CallsOver(Ids) /\ CallIs(d, calls[s].kind, "write", j, calls[s].todo, mine, calls[s].bad,
                                     calls[s].awaited)
  BY <1>1, <1>4
<1> HIDE DEF d
<1>6. CASE state[j] = "running" /\ Step(s, d) /\ ocrAgent' = ocrAgent
  <2>1. /\ calls' \in [Slots -> CallRecords' \cup {Free}] /\ calls'[s] = d
        /\ \A t \in Slots : t # s => calls'[t] = calls[t]
    BY <1>1, <1>5, <1>6, SlotMoves, RunTypes DEF Ids
  <2>2. RowsTypeOK'
    BY <1>1, <1>6, <2>1 DEF RowsTypeOK, jobVars, Ids
  <2> QED
    BY <1>1, <1>2, <1>5, <1>6, <2>1, <2>2 DEF jobVars
<1>7. CASE (calls[s].kind # "page" => state[j] # "running") /\ Refuse(s)
  <2>1. /\ calls' \in [Slots -> CallRecords' \cup {Free}] /\ calls'[s] = Free
        /\ \A t \in Slots : t # s => calls'[t] = calls[t]
        /\ ocrAgent' \in AgentRecords /\ ocrAgent' = IF calls[s].awaited THEN Upset ELSE ocrAgent
    BY <1>1, <1>7, ReplyDoes, UpsetTyped, RunTypes DEF Refuse
  <2>2. RowsTypeOK'
    BY <1>1, <2>1 DEF RowsTypeOK, jobVars, AgentRecords, Ids
  <2> QED
    BY <1>1, <1>7, <2>1, <2>2 DEF jobVars
<1> QED
  BY <1>3, <1>6, <1>7

\* Saving a page changes the page of one run.
LEMMA SavedDoes ==
    ASSUME RowsTypeOK, NEW r \in Ids, Saved(r)
    PROVE  /\ runs' \in Seq(RunRecords) /\ Len(runs') = Len(runs) /\ Ids' = Ids
           /\ runs'[r].page # "none"
           /\ \A q \in Ids : /\ runs'[q].state = runs[q].state /\ runs'[q].book = runs[q].book
                             /\ q # r => runs'[q].page = runs[q].page
<1>1. PICK page \in {"poor", "passed"} : runs' = [runs EXCEPT ![r].page = page]
  BY DEF Saved
<1>2. \A u \in RunRecords : LET v == [u EXCEPT !.page = page]
                            IN  v \in RunRecords /\ v.page = page /\ v.state = u.state /\ v.book = u.book
  BY DEF RunRecords
<1> DEFINE new == [runs[r] EXCEPT !.page = page]
<1>3. new \in RunRecords /\ new.page = page /\ new.state = runs[r].state /\ new.book = runs[r].book
  BY <1>2, RunTypes
<1>4. runs' = [runs EXCEPT ![r] = new]
  BY <1>1
<1> HIDE DEF new
<1>5. runs' \in Seq(RunRecords) /\ Len(runs') = Len(runs)
      /\ \A q \in 1 .. Len(runs) : runs'[q] = IF q = r THEN new ELSE runs[q]
  BY <1>3, <1>4, RunTypes, ExceptSeq
<1>6. Ids' = Ids
  BY <1>4 DEF Ids
<1> QED
  BY <1>3, <1>5, <1>6, RunTypes

\* A page is saved, whatever became of the job.
LEMMA SavePageDoes ==
    ASSUME RowsTypeOK, NEW s \in Slots, CallFits(s), SavePage(s)
    PROVE  /\ RowsTypeOK'
           /\ calls'[s] = Free
           /\ \A t \in Slots : t # s => calls'[t] = calls[t]
           /\ UNCHANGED <<byAgent, state, target, mapped, strayed>>
           /\ calls[s].kind = "page"
           /\ Ids' = Ids /\ \A q \in Ids : /\ runs'[q].state = runs[q].state /\ runs'[q].book = runs[q].book
                                           /\ runs[q].page # "none" => runs'[q].page # "none"
           /\ calls[s].awaited => ocrAgent'.at = "work" /\ ocrAgent'.job = ocrAgent.job
           /\ ~calls[s].awaited => ocrAgent' = ocrAgent
<1> DEFINE new == [ocrAgent EXCEPT !.at = "work", !.todo = @ \ calls[s].todo]
<1>1. /\ calls[s] \in CallsOver(Ids) /\ calls[s].kind = "page" /\ calls[s].got \subseteq Ids
      /\ UNCHANGED <<byAgent, state, target, mapped, done, strayed, ocrFaults>> /\ OcrBeat(calls[s].job) /\ OcrReply(s, new)
  BY CallTyped DEF SavePage, At, Serves, CallsOver
<1>2. PICK r \in Ids : Saved(r)
  <2>1. \E r \in calls[s].got : Saved(r)
    BY DEF SavePage
  <2> QED
    BY <1>1, <2>1
<1>3. /\ runs' \in Seq(RunRecords) /\ Len(runs') = Len(runs) /\ Ids' = Ids
      /\ runs'[r].page # "none"
      /\ \A q \in Ids : /\ runs'[q].state = runs[q].state /\ runs'[q].book = runs[q].book
                        /\ q # r => runs'[q].page = runs[q].page
  BY <1>2, SavedDoes
<1>4. \A m \in AgentRecords : LET n == [m EXCEPT !.at = "work", !.todo = @ \ calls[s].todo]
                              IN  n \in AgentRecords /\ n.at = "work" /\ n.job = m.job
  BY DEF AgentRecords
<1>5. new \in AgentRecords /\ new.at = "work" /\ new.job = ocrAgent.job
  BY <1>4 DEF RowsTypeOK, AgentRecords
<1> HIDE DEF new
<1>6. /\ calls' \in [Slots -> CallRecords' \cup {Free}] /\ calls'[s] = Free
      /\ \A t \in Slots : t # s => calls'[t] = calls[t]
      /\ ocrAgent' \in AgentRecords /\ ocrAgent' = IF calls[s].awaited THEN new ELSE ocrAgent
  BY <1>1, <1>3, <1>5, ReplyDoes, RunTypes
<1>7. fresh' \in [OcrJobs -> BOOLEAN]
  BY <1>1 DEF OcrBeat, RowsTypeOK
<1>8. RowsTypeOK'
  BY <1>1, <1>3, <1>6, <1>7 DEF RowsTypeOK, AgentRecords, RunRecords
<1> QED
  BY <1>1, <1>3, <1>5, <1>6, <1>8

\* A complete run is staged for review.
LEMMA StageNextDoes ==
    ASSUME RowsTypeOK, NEW s \in Slots, StageNext(s)
    PROVE  /\ RowsTypeOK'
           /\ \A t \in Slots : t # s => calls'[t] = calls[t]
           /\ UNCHANGED <<byAgent, state, target, mapped, ocrAgent, strayed>>
           /\ Staging(s)
           /\ Ids' = Ids
           /\ \E r \in calls[s].got :
               /\ r \in Ids /\ runs[r].page # "none"
               /\ \A q \in Ids : /\ runs'[q].page = runs[q].page /\ runs'[q].book = runs[q].book
                                 /\ runs'[q].state = IF q = r THEN "awaiting_qa" ELSE runs[q].state
               /\ CallIs(calls'[s], "complete", "write", calls[s].job, calls[s].todo, calls[s].got \ {r},
                         calls[s].bad, calls[s].awaited)
<1>1. PICK r \in calls[s].got : /\ Complete(r) /\ runs' = Marked({r}, "awaiting_qa")
                                /\ Step(s, [calls[s] EXCEPT !.got = @ \ {r}])
  BY DEF StageNext
<1> DEFINE d == [calls[s] EXCEPT !.got = @ \ {r}]
<1>2. /\ calls[s] \in CallsOver(Ids) /\ Staging(s) /\ r \in Ids /\ runs[r].page # "none"
      /\ UNCHANGED <<byAgent, state, target, mapped, done, ocrAgent, strayed, ocrFaults>> /\ OcrBeat(calls[s].job)
  BY <1>1, CallTyped DEF StageNext, At, Serves, Staging, CallsOver, Complete
<1>3. /\ runs' \in Seq(RunRecords) /\ Len(runs') = Len(runs) /\ Ids' = Ids
      /\ \A q \in Ids : /\ runs'[q].page = runs[q].page /\ runs'[q].book = runs[q].book
                        /\ runs'[q].state = IF q = r THEN "awaiting_qa" ELSE runs[q].state
  BY <1>1, MarkedRuns DEF RunStates, Ids
<1>4. \A c \in CallsOver(Ids) : LET e == [c EXCEPT !.got = @ \ {r}] IN
        e \in CallsOver(Ids) /\ CallIs(e, c.kind, c.at, c.job, c.todo, c.got \ {r}, c.bad, c.awaited)
  BY DEF CallsOver, CallIs
<1>5. d \in CallsOver(Ids) /\ CallIs(d, "complete", "write", calls[s].job, calls[s].todo, calls[s].got \ {r},
                                     calls[s].bad, calls[s].awaited)
  BY <1>2, <1>4 DEF Staging
<1>a. Step(s, d)
  BY <1>1
<1> HIDE DEF d
<1>6. /\ calls' \in [Slots -> CallRecords' \cup {Free}] /\ calls'[s] = d
      /\ \A t \in Slots : t # s => calls'[t] = calls[t]
  BY <1>a, <1>3, <1>5, SlotMoves, RunTypes DEF Ids
<1>7. fresh' \in [OcrJobs -> BOOLEAN]
  BY <1>2 DEF OcrBeat, RowsTypeOK
<1>8. RowsTypeOK'
  BY <1>2, <1>3, <1>6, <1>7 DEF RowsTypeOK, RunRecords
<1> QED
  BY <1>2, <1>3, <1>5, <1>6, <1>8

\* The completion breaks off.
LEMMA StageRaisesDoes ==
    ASSUME RowsTypeOK, NEW s \in Slots, CallFits(s), StageRaises(s)
    PROVE  /\ RowsTypeOK'
           /\ calls'[s] = Free
           /\ \A t \in Slots : t # s => calls'[t] = calls[t]
           /\ UNCHANGED <<byAgent, state, target, mapped, runs>>
           /\ Staging(s)
           /\ calls[s].job \in OcrJobs /\ strayed' = strayed \cup {calls[s].job}
           /\ ocrAgent' = IF calls[s].awaited THEN Upset ELSE ocrAgent
<1>1. /\ Staging(s) /\ calls[s].job \in OcrJobs /\ strayed' = strayed \cup {calls[s].job}
      /\ OcrReply(s, Upset) /\ UNCHANGED <<byAgent, jobVars, runs, done>> /\ (UNCHANGED ocrFaults \/ Fault)
  BY DEF StageRaises, At, Staging, CallFits, OfJob, Serves, Refuse
<1>2. /\ calls' \in [Slots -> CallRecords' \cup {Free}] /\ calls'[s] = Free
      /\ \A t \in Slots : t # s => calls'[t] = calls[t]
      /\ ocrAgent' \in AgentRecords /\ ocrAgent' = IF calls[s].awaited THEN Upset ELSE ocrAgent
  BY <1>1, ReplyDoes, UpsetTyped, RunTypes
<1>3. ocrFaults' \in 0 .. MaxOcrFaults
  BY <1>1, OcrAgentJobsAssumption DEF Fault, RowsTypeOK
<1>4. RowsTypeOK'
  BY <1>1, <1>2, <1>3 DEF RowsTypeOK, AgentRecords, jobVars, Ids
<1> QED
  BY <1>1, <1>2, <1>4 DEF jobVars

\* The job is completed.
LEMMA FinishCompleteDoes ==
    ASSUME RowsTypeOK, NEW s \in Slots, CallFits(s), FinishComplete(s)
    PROVE  /\ RowsTypeOK'
           /\ calls'[s] = Free
           /\ \A t \in Slots : t # s => calls'[t] = calls[t]
           /\ UNCHANGED <<byAgent, target, mapped, runs, strayed>>
           /\ calls[s].kind = "complete" /\ calls[s].at = "write" /\ calls[s].got = {} /\ calls[s].job \in OcrJobs
           /\ state' = [state EXCEPT ![calls[s].job] = "completed"]
           /\ calls[s].awaited => ocrAgent'.at = "rest"
           /\ ~calls[s].awaited => ocrAgent' = ocrAgent
<1>1. /\ calls[s].kind = "complete" /\ calls[s].at = "write" /\ calls[s].got = {} /\ calls[s].job \in OcrJobs
      /\ SetState(calls[s].job, "completed") /\ OcrReply(s, Resting)
      /\ UNCHANGED <<byAgent, target, fresh, mapped, runs, done, strayed, ocrFaults>>
  BY DEF FinishComplete, At, Staged, CallFits, OfJob, Serves
<1>2. Resting \in AgentRecords /\ Resting.at = "rest"
  BY UpsetTyped
<1>3. /\ calls' \in [Slots -> CallRecords' \cup {Free}] /\ calls'[s] = Free
      /\ \A t \in Slots : t # s => calls'[t] = calls[t]
      /\ ocrAgent' \in AgentRecords /\ ocrAgent' = IF calls[s].awaited THEN Resting ELSE ocrAgent
  BY <1>1, <1>2, ReplyDoes, RunTypes
<1>4. state' \in [OcrJobs -> JobStates] /\ state' = [state EXCEPT ![calls[s].job] = "completed"]
  BY <1>1 DEF SetState, RowsTypeOK, JobStates
<1>5. RowsTypeOK'
  BY <1>1, <1>3, <1>4 DEF RowsTypeOK, AgentRecords, Ids
<1> QED
  BY <1>1, <1>2, <1>3, <1>4, <1>5

\* The job is failed.
LEMMA FinishFailDoes ==
    ASSUME RowsTypeOK, NEW s \in Slots, CallFits(s), FinishFail(s)
    PROVE  /\ RowsTypeOK'
           /\ calls'[s] = Free
           /\ \A t \in Slots : t # s => calls'[t] = calls[t]
           /\ UNCHANGED <<byAgent, target, mapped, runs, strayed>>
           /\ calls[s].kind = "fail" /\ calls[s].at = "write" /\ calls[s].got = {} /\ calls[s].job \in OcrJobs
           /\ state' = [state EXCEPT ![calls[s].job] = "failed"]
           /\ calls[s].awaited => ocrAgent'.at = "rest"
           /\ ~calls[s].awaited => ocrAgent' = ocrAgent
<1>1. /\ calls[s].kind = "fail" /\ calls[s].at = "write" /\ calls[s].got = {} /\ calls[s].job \in OcrJobs
      /\ SetState(calls[s].job, "failed") /\ OcrReply(s, Resting)
      /\ UNCHANGED <<byAgent, target, fresh, mapped, runs, done, strayed, ocrFaults>>
  BY DEF FinishFail, At, Staged, CallFits, OfJob, Serves
<1>2. Resting \in AgentRecords /\ Resting.at = "rest"
  BY UpsetTyped
<1>3. /\ calls' \in [Slots -> CallRecords' \cup {Free}] /\ calls'[s] = Free
      /\ \A t \in Slots : t # s => calls'[t] = calls[t]
      /\ ocrAgent' \in AgentRecords /\ ocrAgent' = IF calls[s].awaited THEN Resting ELSE ocrAgent
  BY <1>1, <1>2, ReplyDoes, RunTypes
<1>4. state' \in [OcrJobs -> JobStates] /\ state' = [state EXCEPT ![calls[s].job] = "failed"]
  BY <1>1 DEF SetState, RowsTypeOK, JobStates
<1>5. RowsTypeOK'
  BY <1>1, <1>3, <1>4 DEF RowsTypeOK, AgentRecords, Ids
<1> QED
  BY <1>1, <1>2, <1>3, <1>4, <1>5

\* A run is marked failed.
LEMMA MarkFailedDoes ==
    ASSUME RowsTypeOK, NEW s \in Slots, MarkFailed(s)
    PROVE  /\ RowsTypeOK'
           /\ \A t \in Slots : t # s => calls'[t] = calls[t]
           /\ UNCHANGED <<byAgent, state, target, mapped, ocrAgent, strayed>>
           /\ calls[s].kind = "fail" /\ calls[s].at = "write"
           /\ Ids' = Ids
           /\ \E r \in calls[s].got :
               /\ \A q \in Ids : /\ runs'[q].page = runs[q].page /\ runs'[q].book = runs[q].book
                                 /\ runs'[q].state = IF q = r THEN "failed" ELSE runs[q].state
               /\ CallIs(calls'[s], "fail", "write", calls[s].job, calls[s].todo, calls[s].got \ {r},
                         calls[s].bad, calls[s].awaited)
<1>1. PICK r \in calls[s].got : runs' = Marked({r}, "failed") /\ Step(s, [calls[s] EXCEPT !.got = @ \ {r}])
  BY DEF MarkFailed
<1> DEFINE d == [calls[s] EXCEPT !.got = @ \ {r}]
<1>2. /\ calls[s] \in CallsOver(Ids) /\ calls[s].kind = "fail" /\ calls[s].at = "write"
      /\ UNCHANGED <<byAgent, jobVars, done, ocrAgent, strayed, ocrFaults>>
  BY CallTyped DEF MarkFailed, At, Serves
<1>3. /\ runs' \in Seq(RunRecords) /\ Len(runs') = Len(runs) /\ Ids' = Ids
      /\ \A q \in Ids : /\ runs'[q].page = runs[q].page /\ runs'[q].book = runs[q].book
                        /\ runs'[q].state = IF q = r THEN "failed" ELSE runs[q].state
  BY <1>1, MarkedRuns DEF RunStates, Ids
<1>4. \A c \in CallsOver(Ids) : LET e == [c EXCEPT !.got = @ \ {r}] IN
        e \in CallsOver(Ids) /\ CallIs(e, c.kind, c.at, c.job, c.todo, c.got \ {r}, c.bad, c.awaited)
  BY DEF CallsOver, CallIs
<1>5. d \in CallsOver(Ids) /\ CallIs(d, "fail", "write", calls[s].job, calls[s].todo, calls[s].got \ {r},
                                     calls[s].bad, calls[s].awaited)
  BY <1>2, <1>4
<1>a. Step(s, d)
  BY <1>1
<1> HIDE DEF d
<1>6. /\ calls' \in [Slots -> CallRecords' \cup {Free}] /\ calls'[s] = d
      /\ \A t \in Slots : t # s => calls'[t] = calls[t]
  BY <1>a, <1>3, <1>5, SlotMoves, RunTypes DEF Ids
<1>7. RowsTypeOK'
  BY <1>2, <1>3, <1>6 DEF RowsTypeOK, RunRecords, jobVars
<1> QED
  BY <1>2, <1>3, <1>5, <1>6, <1>7 DEF jobVars

\* The queue's worker takes the first queued job.
LEMMA WorkerTakeDoes ==
    ASSUME RowsTypeOK, NEW s \in Slots, WorkerTake(s)
    PROVE  /\ RowsTypeOK'
           /\ \A t \in Slots : t # s => calls'[t] = calls[t]
           /\ UNCHANGED <<byAgent, target, mapped, runs, ocrAgent, strayed>>
           /\ ~byAgent
           /\ \A t \in Slots : ~Serves(t)
           /\ \E j \in OcrJobs :
               /\ state[j] = "queued" /\ state' = [state EXCEPT ![j] = "running"]
               /\ CallIs(calls'[s], "worker", "prepare", j, TargetsOf(j), {}, FALSE, FALSE)
<1>1. PICK j \in OcrJobs :
        /\ state[j] = "queued" /\ SetState(j, "running")
        /\ Step(s, [kind |-> "worker", at |-> "prepare", job |-> j, todo |-> TargetsOf(j),
                    got |-> {}, bad |-> FALSE, awaited |-> FALSE])
  BY FirstIsOne DEF WorkerTake, Queued
<1> DEFINE d == [kind |-> "worker", at |-> "prepare", job |-> j, todo |-> TargetsOf(j),
                 got |-> {}, bad |-> FALSE, awaited |-> FALSE]
<1>2. TargetsOf(j) \in SUBSET Books
  BY DEF TargetsOf, RowsTypeOK
<1>3. d \in CallsOver(Ids) /\ CallIs(d, "worker", "prepare", j, TargetsOf(j), {}, FALSE, FALSE)
  BY <1>2 DEF CallsOver, CallIs
<1>4. Step(s, d)
  BY <1>1
<1> HIDE DEF d
<1>5. /\ UNCHANGED <<byAgent, target, fresh, mapped, runs, done, ocrAgent, strayed, ocrFaults>>
      /\ ~byAgent /\ \A t \in Slots : ~Serves(t)
  BY DEF WorkerTake, Serves, Free
<1>6. /\ calls' \in [Slots -> CallRecords' \cup {Free}] /\ calls'[s] = d
      /\ \A t \in Slots : t # s => calls'[t] = calls[t]
  BY <1>3, <1>4, <1>5, SlotMoves, RunTypes DEF Ids
<1>7. state' \in [OcrJobs -> JobStates] /\ state' = [state EXCEPT ![j] = "running"]
  BY <1>1 DEF SetState, RowsTypeOK, JobStates
<1>8. RowsTypeOK'
  BY <1>5, <1>6, <1>7 DEF RowsTypeOK, Ids
<1> QED
  BY <1>1, <1>3, <1>5, <1>6, <1>7, <1>8

\* The worker begins with the pages that have not passed.
LEMMA WorkerReadsDoes ==
    ASSUME RowsTypeOK, NEW s \in Slots, WorkerReads(s)
    PROVE  /\ RowsTypeOK'
           /\ \A t \in Slots : t # s => calls'[t] = calls[t]
           /\ UNCHANGED <<byAgent, state, target, mapped, runs, ocrAgent, strayed>>
           /\ calls[s].kind = "worker" /\ Preparing(s) /\ calls[s].todo = {}
           /\ CallIs(calls'[s], "worker", "pages", calls[s].job, OcrPending(calls[s].got), calls[s].got, calls[s].bad,
                     calls[s].awaited)
<1> DEFINE T == OcrPending(calls[s].got)
           d == [calls[s] EXCEPT !.at = "pages", !.todo = T]
<1>1. /\ calls[s] \in CallsOver(Ids) /\ calls[s].kind = "worker" /\ Preparing(s) /\ calls[s].todo = {}
      /\ calls[s].got \in SUBSET Ids
  BY CallTyped DEF WorkerReads, At, Preparing, Serves, CallsOver
<1>2. Step(s, d) /\ UNCHANGED <<byAgent, jobVars, runs, done, ocrAgent, strayed, ocrFaults>>
  BY DEF WorkerReads
<1>3. T \in SUBSET Books
  BY <1>1, RunTypes DEF RunRecords, OcrPending
<1> HIDE DEF T
<1>4. \A c \in CallsOver(Ids) : LET e == [c EXCEPT !.at = "pages", !.todo = T] IN
        e \in CallsOver(Ids) /\ CallIs(e, c.kind, "pages", c.job, T, c.got, c.bad, c.awaited)
  BY <1>3 DEF CallsOver, CallIs
<1>5. d \in CallsOver(Ids) /\ CallIs(d, "worker", "pages", calls[s].job, T, calls[s].got, calls[s].bad,
                                     calls[s].awaited)
  BY <1>1, <1>4
<1> HIDE DEF d
<1>6. /\ calls' \in [Slots -> CallRecords' \cup {Free}] /\ calls'[s] = d
      /\ \A t \in Slots : t # s => calls'[t] = calls[t]
  BY <1>2, <1>5, SlotMoves, RunTypes DEF Ids
<1>7. RowsTypeOK'
  BY <1>2, <1>6 DEF RowsTypeOK, Ids, jobVars
<1> QED
  BY <1>1, <1>2, <1>5, <1>6, <1>7 DEF jobVars, T

\* The worker saves a page.
LEMMA WorkerPageDoes ==
    ASSUME RowsTypeOK, NEW s \in Slots, WorkerPage(s)
    PROVE  /\ RowsTypeOK'
           /\ \A t \in Slots : t # s => calls'[t] = calls[t]
           /\ UNCHANGED <<byAgent, state, target, mapped, ocrAgent, strayed>>
           /\ calls[s].kind = "worker" /\ calls[s].at = "pages"
           /\ Ids' = Ids /\ \A q \in Ids : /\ runs'[q].state = runs[q].state /\ runs'[q].book = runs[q].book
                                           /\ runs[q].page # "none" => runs'[q].page # "none"
           /\ \E b \in Books : CallIs(calls'[s], "worker", "pages", calls[s].job, calls[s].todo \ {b}, calls[s].got,
                                   calls[s].bad, calls[s].awaited)
<1>1. /\ calls[s] \in CallsOver(Ids) /\ calls[s].kind = "worker" /\ calls[s].at = "pages" /\ calls[s].got \subseteq Ids
      /\ UNCHANGED <<byAgent, jobVars, done, ocrAgent, strayed, ocrFaults>>
  BY CallTyped DEF WorkerPage, At, Serves, CallsOver
<1>2. PICK r \in Ids : Saved(r) /\ Step(s, [calls[s] EXCEPT !.todo = @ \ {runs[r].book}])
  <2>1. \E r \in calls[s].got : Saved(r) /\ Step(s, [calls[s] EXCEPT !.todo = @ \ {runs[r].book}])
    BY DEF WorkerPage
  <2> QED
    BY <1>1, <2>1
<1> DEFINE b == runs[r].book
           d == [calls[s] EXCEPT !.todo = @ \ {b}]
<1>3. b \in Books /\ Step(s, d)
  BY <1>2, RunTypes DEF RunRecords
<1>4. /\ runs' \in Seq(RunRecords) /\ Len(runs') = Len(runs) /\ Ids' = Ids
      /\ runs'[r].page # "none"
      /\ \A q \in Ids : /\ runs'[q].state = runs[q].state /\ runs'[q].book = runs[q].book
                        /\ q # r => runs'[q].page = runs[q].page
  BY <1>2, SavedDoes
<1> HIDE DEF b
<1>5. \A c \in CallsOver(Ids) : LET e == [c EXCEPT !.todo = @ \ {b}] IN
        e \in CallsOver(Ids) /\ CallIs(e, c.kind, c.at, c.job, c.todo \ {b}, c.got, c.bad, c.awaited)
  BY DEF CallsOver, CallIs
<1>6. d \in CallsOver(Ids) /\ CallIs(d, "worker", "pages", calls[s].job, calls[s].todo \ {b}, calls[s].got,
                                     calls[s].bad, calls[s].awaited)
  BY <1>1, <1>5
<1> HIDE DEF d
<1>7. /\ calls' \in [Slots -> CallRecords' \cup {Free}] /\ calls'[s] = d
      /\ \A t \in Slots : t # s => calls'[t] = calls[t]
  BY <1>3, <1>4, <1>6, SlotMoves, RunTypes DEF Ids
<1>8. RowsTypeOK'
  BY <1>1, <1>4, <1>7 DEF RowsTypeOK, RunRecords, jobVars
<1>9. \A q \in Ids : runs[q].page # "none" => runs'[q].page # "none"
  BY <1>4
<1> QED
  BY <1>1, <1>3, <1>4, <1>6, <1>7, <1>8, <1>9 DEF jobVars

\* The worker's job ends with an exception.
LEMMA WorkerRaisesDoes ==
    ASSUME RowsTypeOK, NEW s \in Slots, CallFits(s), WorkerRaises(s)
    PROVE  /\ RowsTypeOK'
           /\ calls'[s] = Free
           /\ \A t \in Slots : t # s => calls'[t] = calls[t]
           /\ UNCHANGED <<byAgent, target, mapped, ocrAgent, strayed>>
           /\ calls[s].kind = "worker" /\ calls[s].job \in OcrJobs /\ state' = [state EXCEPT ![calls[s].job] = "failed"]
           /\ Ids' = Ids /\ \A q \in Ids : /\ runs'[q].page = runs[q].page /\ runs'[q].book = runs[q].book
                                           /\ \/ runs'[q].state = runs[q].state
                                              \/ q \in calls[s].got /\ runs'[q].state = "failed"
<1>1. /\ calls[s].kind = "worker" /\ calls[s].job \in OcrJobs
      /\ UNCHANGED <<byAgent, target, fresh, mapped, done, ocrAgent, strayed>>
      /\ Fault /\ SetState(calls[s].job, "failed") /\ Step(s, Free)
      /\ runs' = Marked(calls[s].got, "failed") \/ runs' = runs
  BY DEF WorkerRaises, CallFits, OfJob, Serves
<1>2. /\ runs' \in Seq(RunRecords) /\ Len(runs') = Len(runs) /\ Ids' = Ids
      /\ \A q \in Ids : /\ runs'[q].page = runs[q].page /\ runs'[q].book = runs[q].book
                        /\ runs'[q].state = runs[q].state \/ (q \in calls[s].got /\ runs'[q].state = "failed")
  <2>1. "failed" \in RunStates
    BY DEF RunStates
  <2>2. CASE runs' = runs
    BY <2>2, RunTypes DEF Ids
  <2>3. CASE runs' = Marked(calls[s].got, "failed")
    BY <2>1, <2>3, MarkedRuns DEF Ids
  <2> QED
    BY <1>1, <2>2, <2>3
<1>3. /\ calls' \in [Slots -> CallRecords' \cup {Free}] /\ calls'[s] = Free
      /\ \A t \in Slots : t # s => calls'[t] = calls[t]
  BY <1>1, <1>2, SlotMoves, RunTypes
<1>4. state' \in [OcrJobs -> JobStates] /\ state' = [state EXCEPT ![calls[s].job] = "failed"]
  BY <1>1 DEF SetState, RowsTypeOK, JobStates
<1>5. ocrFaults' \in 0 .. MaxOcrFaults
  BY <1>1, OcrAgentJobsAssumption DEF Fault, RowsTypeOK
<1>6. RowsTypeOK'
  BY <1>1, <1>2, <1>3, <1>4, <1>5 DEF RowsTypeOK, RunRecords
<1> QED
  BY <1>1, <1>2, <1>3, <1>4, <1>6

\* The worker stages a run, or fails to.
LEMMA WorkerStageDoes ==
    ASSUME RowsTypeOK, NEW s \in Slots, WorkerStage(s)
    PROVE  /\ RowsTypeOK'
           /\ \A t \in Slots : t # s => calls'[t] = calls[t]
           /\ UNCHANGED <<byAgent, state, target, mapped, ocrAgent, strayed>>
           /\ calls[s].kind = "worker" /\ calls[s].at \in {"pages", "stage"}
           /\ Ids' = Ids
           /\ \E r \in calls[s].got, to \in {"awaiting_qa", "failed"} :
               /\ to = "awaiting_qa" => runs[r].page # "none"
               /\ \A q \in Ids : /\ runs'[q].page = runs[q].page /\ runs'[q].book = runs[q].book
                                 /\ runs'[q].state = IF q = r THEN to ELSE runs[q].state
               /\ CallIs(calls'[s], "worker", "stage", calls[s].job, calls[s].todo, calls[s].got \ {r},
                         IF to = "failed" THEN TRUE ELSE calls[s].bad, calls[s].awaited)
<1>1. /\ calls[s] \in CallsOver(Ids) /\ calls[s].kind = "worker" /\ calls[s].at \in {"pages", "stage"}
      /\ UNCHANGED <<byAgent, jobVars, done, ocrAgent, strayed>>
  BY CallTyped DEF WorkerStage, Serves
<1>2. PICK r \in calls[s].got :
        \/ /\ Complete(r) /\ runs' = Marked({r}, "awaiting_qa") /\ UNCHANGED ocrFaults
           /\ Step(s, [calls[s] EXCEPT !.at = "stage", !.got = @ \ {r}])
        \/ /\ Fault /\ runs' = Marked({r}, "failed")
           /\ Step(s, [calls[s] EXCEPT !.at = "stage", !.got = @ \ {r}, !.bad = TRUE])
  BY DEF WorkerStage
<1>3. ocrFaults' \in 0 .. MaxOcrFaults
  BY <1>2, OcrAgentJobsAssumption DEF Fault, RowsTypeOK
<1>4. PICK to \in {"awaiting_qa", "failed"}, d \in CallsOver(Ids) :
        /\ to = "awaiting_qa" => runs[r].page # "none"
        /\ runs' = Marked({r}, to) /\ Step(s, d)
        /\ CallIs(d, "worker", "stage", calls[s].job, calls[s].todo, calls[s].got \ {r},
                  IF to = "failed" THEN TRUE ELSE calls[s].bad, calls[s].awaited)
  <2>1. CASE /\ Complete(r) /\ runs' = Marked({r}, "awaiting_qa")
             /\ Step(s, [calls[s] EXCEPT !.at = "stage", !.got = @ \ {r}])
    <3> DEFINE d == [calls[s] EXCEPT !.at = "stage", !.got = @ \ {r}]
    <3>1. \A c \in CallsOver(Ids) : LET e == [c EXCEPT !.at = "stage", !.got = @ \ {r}] IN
            e \in CallsOver(Ids) /\ CallIs(e, c.kind, "stage", c.job, c.todo, c.got \ {r}, c.bad, c.awaited)
      BY DEF CallsOver, CallIs
    <3>2. d \in CallsOver(Ids) /\ CallIs(d, "worker", "stage", calls[s].job, calls[s].todo, calls[s].got \ {r},
                                         calls[s].bad, calls[s].awaited)
      BY <1>1, <3>1
    <3>3. Step(s, d)
      BY <2>1
    <3>4. runs[r].page # "none"
      BY <2>1 DEF Complete
    <3> HIDE DEF d
    <3> QED
      BY <2>1, <3>2, <3>3, <3>4
  <2>2. CASE /\ runs' = Marked({r}, "failed")
             /\ Step(s, [calls[s] EXCEPT !.at = "stage", !.got = @ \ {r}, !.bad = TRUE])
    <3> DEFINE d == [calls[s] EXCEPT !.at = "stage", !.got = @ \ {r}, !.bad = TRUE]
    <3>1. \A c \in CallsOver(Ids) : LET e == [c EXCEPT !.at = "stage", !.got = @ \ {r}, !.bad = TRUE] IN
            e \in CallsOver(Ids) /\ CallIs(e, c.kind, "stage", c.job, c.todo, c.got \ {r}, TRUE, c.awaited)
      BY DEF CallsOver, CallIs
    <3>2. d \in CallsOver(Ids) /\ CallIs(d, "worker", "stage", calls[s].job, calls[s].todo, calls[s].got \ {r},
                                         TRUE, calls[s].awaited)
      BY <1>1, <3>1
    <3>3. Step(s, d)
      BY <2>2
    <3> HIDE DEF d
    <3> QED
      BY <2>2, <3>2, <3>3
  <2> QED
    BY <1>2, <2>1, <2>2
<1>5. /\ runs' \in Seq(RunRecords) /\ Len(runs') = Len(runs) /\ Ids' = Ids
      /\ \A q \in Ids : /\ runs'[q].page = runs[q].page /\ runs'[q].book = runs[q].book
                        /\ runs'[q].state = IF q = r THEN to ELSE runs[q].state
  BY <1>4, MarkedRuns DEF RunStates, Ids
<1>a. Step(s, d) /\ d \in CallsOver(DOMAIN runs') /\ Len(runs) <= Len(runs')
  BY <1>4, <1>5, RunTypes DEF Ids
<1>6. /\ calls' \in [Slots -> CallRecords' \cup {Free}] /\ calls'[s] = d
      /\ \A t \in Slots : t # s => calls'[t] = calls[t]
  BY <1>a, <1>5, SlotMoves
<1>7. RowsTypeOK'
  BY <1>1, <1>3, <1>5, <1>6 DEF RowsTypeOK, RunRecords, jobVars
<1> QED
  BY <1>1, <1>4, <1>5, <1>6, <1>7 DEF jobVars

\* The worker's job ends.
LEMMA WorkerEndsDoes ==
    ASSUME RowsTypeOK, NEW s \in Slots, CallFits(s), WorkerEnds(s)
    PROVE  /\ RowsTypeOK'
           /\ calls'[s] = Free
           /\ \A t \in Slots : t # s => calls'[t] = calls[t]
           /\ UNCHANGED <<byAgent, target, mapped, runs, ocrAgent, strayed>>
           /\ calls[s].kind = "worker" /\ calls[s].at \in {"pages", "stage"} /\ calls[s].got = {} /\ calls[s].job \in OcrJobs
           /\ state' = [state EXCEPT ![calls[s].job] = IF calls[s].bad THEN "failed" ELSE "completed"]
<1>1. /\ calls[s].kind = "worker" /\ calls[s].at \in {"pages", "stage"} /\ calls[s].got = {}
      /\ calls[s].job \in OcrJobs /\ Step(s, Free)
      /\ SetState(calls[s].job, IF calls[s].bad THEN "failed" ELSE "completed")
      /\ UNCHANGED <<byAgent, target, fresh, mapped, runs, done, ocrAgent, strayed, ocrFaults>>
  BY DEF WorkerEnds, CallFits, OfJob, Serves
<1>2. /\ calls' \in [Slots -> CallRecords' \cup {Free}] /\ calls'[s] = Free
      /\ \A t \in Slots : t # s => calls'[t] = calls[t]
  BY <1>1, SlotMoves, RunTypes
<1>3. /\ state' \in [OcrJobs -> JobStates]
      /\ state' = [state EXCEPT ![calls[s].job] = IF calls[s].bad THEN "failed" ELSE "completed"]
  BY <1>1 DEF SetState, RowsTypeOK, JobStates
<1>4. RowsTypeOK'
  BY <1>1, <1>2, <1>3 DEF RowsTypeOK, Ids
<1> QED
  BY <1>1, <1>2, <1>3, <1>4

-----------------------------------------------------------------------------
(* What the other steps do. *)

\* The agent posts a call.
LEMMA PostDoes ==
    ASSUME RowsTypeOK, NEW kind \in {"claim", "page", "complete", "fail"}, NEW books \in SUBSET Books,
           OcrPost(kind, books)
    PROVE  /\ RowsTypeOK'
           /\ byAgent /\ ~Waiting /\ UNCHANGED <<byAgent, state, target, mapped, runs, strayed>>
           /\ ocrAgent'.at = kind /\ ocrAgent'.job = ocrAgent.job
           /\ \E s \in Slots :
               /\ ~Serves(s) /\ \A t \in Slots : t # s => calls'[t] = calls[t]
               /\ CallIs(calls'[s], kind, IF kind = "claim" THEN "recover" ELSE "check", ocrAgent.job, books, {},
                         FALSE, TRUE)
<1>1. PICK s \in Slots : calls[s] = Free /\ Step(s, Call(kind, books))
  BY DEF OcrPost
<1>2. /\ byAgent /\ ~Waiting /\ UNCHANGED <<byAgent, jobVars, runs, done, strayed, ocrFaults>>
      /\ ocrAgent' = [ocrAgent EXCEPT !.at = kind]
  BY DEF OcrPost
<1>3. \A m \in AgentRecords : LET n == [m EXCEPT !.at = kind] IN n \in AgentRecords /\ n.at = kind /\ n.job = m.job
  BY DEF AgentRecords
<1>4. ocrAgent' \in AgentRecords /\ ocrAgent'.at = kind /\ ocrAgent'.job = ocrAgent.job
  BY <1>2, <1>3 DEF RowsTypeOK, AgentRecords
<1>5. ocrAgent.job \in OcrJobs \cup {0}
  BY DEF RowsTypeOK
<1>6. /\ Call(kind, books) \in CallsOver(Ids)
      /\ CallIs(Call(kind, books), kind, IF kind = "claim" THEN "recover" ELSE "check", ocrAgent.job, books, {},
                FALSE, TRUE)
  BY <1>5 DEF Call, CallsOver, CallIs
<1> DEFINE d == Call(kind, books)
<1>7. d \in CallsOver(Ids) /\ Step(s, d)
  BY <1>1, <1>6
<1>8. /\ calls' \in [Slots -> CallRecords' \cup {Free}] /\ calls'[s] = d
      /\ \A t \in Slots : t # s => calls'[t] = calls[t]
  BY <1>2, <1>7, SlotMoves, RunTypes DEF Ids
<1>9. RowsTypeOK'
  BY <1>2, <1>4, <1>8 DEF RowsTypeOK, AgentRecords, jobVars, Ids
<1>10. CallIs(calls'[s], kind, IF kind = "claim" THEN "recover" ELSE "check", ocrAgent.job, books, {}, FALSE, TRUE)
  BY <1>6, <1>8
<1>11. ~Serves(s)
  BY <1>1 DEF Serves, Free
<1>12. UNCHANGED <<byAgent, state, target, mapped, runs, strayed>>
  BY <1>2 DEF jobVars
<1> QED
  BY <1>2, <1>4, <1>8, <1>9, <1>10, <1>11, <1>12

\* The agent gives its call up, or is gone.
LEMMA AbandonDoes ==
    ASSUME RowsTypeOK, NEW after \in AgentRecords, Abandon(after)
    PROVE  /\ RowsTypeOK'
           /\ byAgent /\ UNCHANGED <<byAgent, state, target, mapped, runs>>
           /\ ocrAgent' = after
           /\ \A s \in Slots : IF AwaitedAt(s)
                               THEN CallIs(calls'[s], calls[s].kind, calls[s].at, calls[s].job, calls[s].todo,
                                           calls[s].got, calls[s].bad, FALSE)
                               ELSE calls'[s] = calls[s]
           /\ strayed' = (strayed \cup {calls[s].job : s \in {t \in Slots : Serves(t)}}) \ {0}
<1>1. /\ byAgent /\ UNCHANGED <<byAgent, jobVars, runs, done>> /\ ocrAgent' = after /\ Fault
      /\ calls' = [s \in Slots |-> IF calls[s].kind # "free" /\ calls[s].awaited
                                   THEN [calls[s] EXCEPT !.awaited = FALSE] ELSE calls[s]]
      /\ strayed' = (strayed \cup {calls[s].job : s \in {t \in Slots : calls[t] # Free}}) \ {0}
  BY DEF Abandon
<1>2. \A c \in CallsOver(Ids) : LET e == [c EXCEPT !.awaited = FALSE] IN
        e \in CallsOver(Ids) /\ CallIs(e, c.kind, c.at, c.job, c.todo, c.got, c.bad, FALSE)
  BY DEF CallsOver, CallIs
<1>3. ASSUME NEW s \in Slots
      PROVE  /\ calls'[s] \in CallsOver(Ids) \cup {Free}
             /\ IF AwaitedAt(s) THEN CallIs(calls'[s], calls[s].kind, calls[s].at, calls[s].job, calls[s].todo,
                                            calls[s].got, calls[s].bad, FALSE)
                ELSE calls'[s] = calls[s]
  BY <1>1, <1>2, CallTyped DEF AwaitedAt, Serves
<1>4. calls' \in [Slots -> CallRecords' \cup {Free}]
  <2>1. CallRecords' = CallsOver(Ids)
    BY <1>1 DEF CallRecords, CallsOver, Ids
  <2>2. calls' \in [Slots -> CallsOver(Ids) \cup {Free}]
    BY <1>1, <1>3
  <2> QED
    BY <2>1, <2>2
<1>5. \A t \in Slots : calls[t] # Free <=> Serves(t)
  BY CallTyped DEF Serves
<1>6. \A t \in Slots : Serves(t) => calls[t].job \in OcrJobs \cup {0}
  BY CallTyped DEF CallsOver
<1>7. strayed' = (strayed \cup {calls[s].job : s \in {t \in Slots : Serves(t)}}) \ {0}
  BY <1>1, <1>5
<1>8. strayed' \subseteq OcrJobs
  BY <1>6, <1>7 DEF RowsTypeOK
<1>9. ocrFaults' \in 0 .. MaxOcrFaults
  BY <1>1, OcrAgentJobsAssumption DEF Fault, RowsTypeOK
<1>10. RowsTypeOK'
  BY <1>1, <1>4, <1>8, <1>9 DEF RowsTypeOK, AgentRecords, jobVars, Ids
<1> QED
  BY <1>1, <1>3, <1>7, <1>10 DEF jobVars

\* The server restarts.
LEMMA RestartDoes ==
    ASSUME RowsTypeOK, OcrRestart
    PROVE  /\ RowsTypeOK' /\ UNCHANGED <<byAgent, target, mapped, runs>>
           /\ \A s \in Slots : ~Serves(s)'
           /\ \A j \in OcrJobs : state'[j] = IF state[j] = "running" THEN "failed" ELSE state[j]
           /\ ocrAgent' = IF Waiting THEN Upset ELSE ocrAgent
           /\ strayed' = (strayed \cup {calls[s].job : s \in {t \in Slots : Serves(t)}}) \ {0}
<1>1. /\ UNCHANGED <<byAgent, target, fresh, mapped, runs, done>> /\ Fault
      /\ state' = [j \in OcrJobs |-> IF state[j] = "running" THEN "failed" ELSE state[j]]
      /\ calls' = [s \in Slots |-> Free]
      /\ ocrAgent' = IF Waiting THEN Upset ELSE ocrAgent
      /\ strayed' = (strayed \cup {calls[s].job : s \in {t \in Slots : calls[t] # Free}}) \ {0}
  BY DEF OcrRestart
<1>2. \A t \in Slots : calls[t] # Free <=> Serves(t)
  BY CallTyped DEF Serves
<1>3. \A t \in Slots : Serves(t) => calls[t].job \in OcrJobs \cup {0}
  BY CallTyped DEF CallsOver
<1>4. strayed' = (strayed \cup {calls[s].job : s \in {t \in Slots : Serves(t)}}) \ {0}
  BY <1>1, <1>2
<1>5. strayed' \subseteq OcrJobs /\ state' \in [OcrJobs -> JobStates]
  BY <1>1, <1>3, <1>4 DEF RowsTypeOK, JobStates
<1>6. ocrFaults' \in 0 .. MaxOcrFaults
  BY <1>1, OcrAgentJobsAssumption DEF Fault, RowsTypeOK
<1>7. ocrAgent' \in AgentRecords
  BY <1>1, UpsetTyped DEF RowsTypeOK, AgentRecords
<1>8. RowsTypeOK'
  BY <1>1, <1>5, <1>6, <1>7 DEF RowsTypeOK, AgentRecords, Ids
<1>9. \A s \in Slots : ~Serves(s)'
  BY <1>1 DEF Serves, Free
<1> QED
  BY <1>1, <1>4, <1>8, <1>9

\* A user queues, cancels or reviews; time passes.
LEMMA UserDoes ==
    ASSUME RowsTypeOK, UserStep
    PROVE  /\ RowsTypeOK' /\ UNCHANGED <<byAgent, mapped, calls, ocrAgent, strayed>> /\ Ids' = Ids
           /\ \A j \in OcrJobs : \/ state'[j] = state[j] /\ (target'[j] = target[j] \/ state[j] = "absent")
                                 \/ state[j] = "absent" /\ state'[j] = "queued"
                                 \/ state[j] = "queued" /\ state'[j] = "canceled" /\ target'[j] = target[j]
           /\ \A r \in Ids : /\ runs'[r].page = runs[r].page /\ runs'[r].book = runs[r].book
                             /\ \/ runs'[r].state = runs[r].state
                                \/ runs[r].state = "awaiting_qa" /\ runs'[r].state = "completed"
<1>1. ASSUME NEW j \in OcrJobs, Enqueue(j)
      PROVE  /\ RowsTypeOK' /\ UNCHANGED <<byAgent, mapped, calls, ocrAgent, strayed, runs>>
             /\ \A k \in OcrJobs : \/ state'[k] = state[k] /\ target'[k] = target[k]
                                   \/ state[k] = "absent" /\ state'[k] = "queued"
  <2>1. /\ state[j] = "absent" /\ state' = [state EXCEPT ![j] = "queued"]
        /\ UNCHANGED <<byAgent, fresh, mapped, runs, done, calls, ocrAgent, strayed, ocrFaults>>
    BY <1>1 DEF Enqueue, SetState
  <2>2. PICK t \in Books \cup {Every} : target' = [target EXCEPT ![j] = t]
    BY <1>1 DEF Enqueue
  <2>3. state' \in [OcrJobs -> JobStates] /\ target' \in [OcrJobs -> Books \cup {Every}]
    BY <2>1, <2>2 DEF RowsTypeOK, JobStates
  <2>4. RowsTypeOK'
    BY <2>1, <2>3 DEF RowsTypeOK, CallRecords, Ids
  <2> QED
    BY <2>1, <2>2, <2>4 DEF RowsTypeOK
<1>2. ASSUME NEW j \in OcrJobs, Cancel(j)
      PROVE  /\ RowsTypeOK' /\ UNCHANGED <<byAgent, mapped, calls, ocrAgent, strayed, runs, target>>
             /\ \A k \in OcrJobs : state'[k] = state[k] \/ (state[k] = "queued" /\ state'[k] = "canceled")
  <2>1. /\ state[j] = "queued" /\ state' = [state EXCEPT ![j] = "canceled"]
        /\ UNCHANGED <<byAgent, target, fresh, mapped, runs, done, calls, ocrAgent, strayed, ocrFaults>>
    BY <1>2 DEF Cancel, SetState
  <2>2. state' \in [OcrJobs -> JobStates]
    BY <2>1 DEF RowsTypeOK, JobStates
  <2>3. RowsTypeOK'
    BY <2>1, <2>2 DEF RowsTypeOK, CallRecords, Ids
  <2> QED
    BY <2>1, <2>3 DEF RowsTypeOK
<1>3. ASSUME NEW j \in OcrJobs, Lapse(j)
      PROVE  RowsTypeOK' /\ UNCHANGED <<byAgent, mapped, calls, ocrAgent, strayed, runs, state, target>>
  <2>1. /\ fresh' = [fresh EXCEPT ![j] = FALSE] /\ Fault
        /\ UNCHANGED <<byAgent, state, target, mapped, runs, done, calls, ocrAgent, strayed>>
    BY <1>3 DEF Lapse
  <2>2. fresh' \in [OcrJobs -> BOOLEAN] /\ ocrFaults' \in 0 .. MaxOcrFaults
    BY <2>1, OcrAgentJobsAssumption DEF RowsTypeOK, Fault
  <2>3. RowsTypeOK'
    BY <2>1, <2>2 DEF RowsTypeOK, CallRecords, Ids
  <2> QED
    BY <2>1, <2>3
<1>4. ASSUME NEW r \in Ids, Approve(r)
      PROVE  /\ RowsTypeOK' /\ UNCHANGED <<byAgent, mapped, calls, ocrAgent, strayed, state, target>> /\ Ids' = Ids
             /\ \A q \in Ids : /\ runs'[q].page = runs[q].page /\ runs'[q].book = runs[q].book
                               /\ \/ runs'[q].state = runs[q].state
                                  \/ runs[q].state = "awaiting_qa" /\ runs'[q].state = "completed"
  <2>1. /\ runs[r].state = "awaiting_qa" /\ runs' = Marked({r}, "completed") /\ done' = done \cup {runs[r].book}
        /\ UNCHANGED <<byAgent, jobVars, calls, ocrAgent, strayed, ocrFaults>>
    BY <1>4 DEF Approve
  <2>2. /\ runs' \in Seq(RunRecords) /\ Len(runs') = Len(runs) /\ Ids' = Ids
        /\ \A q \in Ids : /\ runs'[q].page = runs[q].page /\ runs'[q].book = runs[q].book
                          /\ runs'[q].state = IF q = r THEN "completed" ELSE runs[q].state
    BY <2>1, MarkedRuns DEF RunStates, Ids
  <2>3. done' \subseteq Books
    BY <1>4, <2>1, RunTypes DEF RowsTypeOK, RunRecords
  <2>4. calls' \in [Slots -> CallRecords' \cup {Free}]
    BY <2>1, <2>2 DEF RowsTypeOK, CallRecords
  <2>5. RowsTypeOK'
    BY <2>1, <2>2, <2>3, <2>4 DEF RowsTypeOK, RunRecords, jobVars
  <2> QED
    BY <2>1, <2>2, <2>5 DEF jobVars
<1> QED
  BY <1>1, <1>2, <1>3, <1>4 DEF UserStep, Ids

\* The agent's threads go on without a call.
LEMMA AgentOnlyDoes ==
    ASSUME RowsTypeOK, Aside
    PROVE  /\ RowsTypeOK' /\ UNCHANGED <<byAgent, state, target, mapped, runs, calls, strayed>>
           /\ ocrAgent'.job = ocrAgent.job
           /\ ocrAgent'.at = ocrAgent.at \/ (ocrAgent.at = "work" /\ ocrAgent'.at = "fail")
<1>1. CASE PageRaises
  <2>1. /\ ocrAgent.at = "work" /\ ocrAgent' = [ocrAgent EXCEPT !.at = "fail"] /\ Fault
        /\ UNCHANGED <<byAgent, jobVars, runs, done, calls, strayed>>
    BY <1>1 DEF PageRaises
  <2>2. \A m \in AgentRecords : LET n == [m EXCEPT !.at = "fail"] IN n \in AgentRecords /\ n.at = "fail" /\ n.job = m.job
    BY DEF AgentRecords
  <2>3. ocrAgent' \in AgentRecords /\ ocrAgent'.at = "fail" /\ ocrAgent'.job = ocrAgent.job
    BY <2>1, <2>2 DEF RowsTypeOK, AgentRecords
  <2>4. ocrFaults' \in 0 .. MaxOcrFaults
    BY <2>1, OcrAgentJobsAssumption DEF RowsTypeOK, Fault
  <2>5. RowsTypeOK'
    BY <2>1, <2>3, <2>4 DEF RowsTypeOK, AgentRecords, CallRecords, Ids, jobVars
  <2> QED
    BY <2>1, <2>3, <2>5 DEF jobVars
<1>2. CASE PostHeartbeat
  <2>1. /\ UNCHANGED <<byAgent, state, target, mapped, runs, done, calls, strayed, ocrFaults>>
        /\ \/ OcrBeat(ocrAgent.job) /\ UNCHANGED ocrAgent
           \/ ocrAgent' = [ocrAgent EXCEPT !.lost = TRUE] /\ UNCHANGED fresh
    BY <1>2 DEF PostHeartbeat
  <2>2. \A m \in AgentRecords : LET n == [m EXCEPT !.lost = TRUE] IN n \in AgentRecords /\ n.at = m.at /\ n.job = m.job
    BY DEF AgentRecords
  <2>3. ocrAgent' \in AgentRecords /\ ocrAgent'.at = ocrAgent.at /\ ocrAgent'.job = ocrAgent.job
    BY <2>1, <2>2 DEF RowsTypeOK, AgentRecords
  <2>4. fresh' \in [OcrJobs -> BOOLEAN]
    BY <2>1 DEF RowsTypeOK, OcrBeat
  <2>5. RowsTypeOK'
    BY <2>1, <2>3, <2>4 DEF RowsTypeOK, AgentRecords, CallRecords, Ids
  <2> QED
    BY <2>1, <2>3, <2>5
<1>3. CASE \E s \in Slots : Select(s)
  <2>1. UNCHANGED <<byAgent, jobVars, runs, done, calls, ocrAgent, strayed, ocrFaults>>
    BY <1>3 DEF Select
  <2>2. RowsTypeOK'
    BY <2>1 DEF RowsTypeOK, CallRecords, Ids, jobVars
  <2> QED
    BY <2>1, <2>2 DEF jobVars
<1> QED
  BY <1>1, <1>2, <1>3 DEF Aside

-----------------------------------------------------------------------------
(* Each call fits its job and the agent. *)

\* A call keeps fitting when its slot does not move.
LEMMA OthersFit ==
    ASSUME CallsFit, byAgent' = byAgent, strayed \subseteq strayed', NEW t \in Slots, calls'[t] = calls[t]
    PROVE  CallFits(t)'
BY DEF CallsFit, CallFits, OfJob, Serves

\* The agent stays where it waits when the call it waits for stays or ends.
LEMMA AgentStays ==
    ASSUME CallsFit, NEW s \in Slots, \A t \in Slots : t # s => calls'[t] = calls[t],
           AwaitedAt(s)' => AwaitedAt(s),
           AwaitedAt(s)' => ocrAgent' = ocrAgent /\ (calls'[s].kind = calls[s].kind
                                                     \/ (calls[s].kind = "claim" /\ calls'[s].kind = "fail")),
           ~AwaitedAt(s) => ocrAgent' = ocrAgent,
           ocrAgent'.at \in {"work", "page", "complete", "fail"} => ocrAgent'.job \in OcrJobs
    PROVE  AgentFits'
<1>1. \A t \in Slots : t # s => (AwaitedAt(t)' <=> AwaitedAt(t)) /\ calls'[t] = calls[t]
  BY DEF AwaitedAt, Serves
<1>2. \A t \in Slots : AwaitedAt(t)' => AwaitedAt(t)
  BY <1>1
<1>3. \A t, u \in Slots : AwaitedAt(t) /\ AwaitedAt(u) => t = u
  BY DEF CallsFit, AgentFits
<1>4. ASSUME NEW t \in Slots, AwaitedAt(t)'
      PROVE  ocrAgent'.at = calls'[t].kind \/ (calls'[t].kind = "fail" /\ ocrAgent'.at = "claim")
  <2>1. ocrAgent.at = calls[t].kind \/ (calls[t].kind = "fail" /\ ocrAgent.at = "claim")
    BY <1>2, <1>4 DEF CallsFit, AgentFits
  <2>2. CASE t = s
    BY <1>4, <2>1, <2>2
  <2>3. CASE t # s
    <3>1. ~AwaitedAt(s)
      BY <1>2, <1>3, <1>4, <2>3
    <3> QED
      BY <1>1, <2>1, <2>3, <3>1
  <2> QED
    BY <2>2, <2>3
<1>5. \A t, u \in Slots : AwaitedAt(t)' /\ AwaitedAt(u)' => t = u
  BY <1>2, <1>3
<1> QED
  BY <1>4, <1>5 DEF AgentFits


\* A step of a call leaves all calls fitting.
LEMMA CallKeepsFit ==
    ASSUME RowsTypeOK, PicksFit, CallsFit, NEW s \in Slots, CallStep(s)
    PROVE  CallsFit'
<1>0. CallFits(s) /\ AgentFits
  BY DEF CallsFit
<1>u. Upset.at \in {"work", "page", "complete", "fail"} /\ ocrAgent.at \notin {"claim", "fail"} => Upset.job = ocrAgent.job
  BY UpsetTyped
<1>1. CASE Recover(s)
  <2>1. byAgent' = byAgent /\ strayed \subseteq strayed' /\ \A t \in Slots : t # s => calls'[t] = calls[t]
    BY <1>0, <1>1, RecoverDoes
  <2>2. CallFits(s)'
    BY <1>0, <1>1, RecoverDoes DEF CallFits, CallIs, OfJob, Serves, Free, Preparing, Staging
  <2>3. /\ AwaitedAt(s)' => AwaitedAt(s)
        /\ AwaitedAt(s)' => ocrAgent' = ocrAgent /\ (calls'[s].kind = calls[s].kind
                                                     \/ (calls[s].kind = "claim" /\ calls'[s].kind = "fail"))
        /\ ~AwaitedAt(s) => ocrAgent' = ocrAgent
        /\ ocrAgent'.at \in {"work", "page", "complete", "fail"} => ocrAgent'.job \in OcrJobs
    BY <1>0, <1>1, RecoverDoes DEF AwaitedAt, AgentFits, CallFits, CallIs, OfJob, Serves, Free, Preparing, Staging
  <2>4. AgentFits'
    BY <2>1, <2>3, AgentStays
  <2>5. \A t \in Slots : CallFits(t)'
    BY <2>1, <2>2, OthersFit
  <2> QED
    BY <2>4, <2>5 DEF CallsFit
<1>2. CASE Again(s)
  <2>1. byAgent' = byAgent /\ strayed \subseteq strayed' /\ \A t \in Slots : t # s => calls'[t] = calls[t]
    BY <1>0, <1>2, AgainDoes
  <2>2. CallFits(s)'
    BY <1>0, <1>2, AgainDoes DEF CallFits, CallIs, OfJob, Serves, Free, Preparing, Staging
  <2>3. /\ AwaitedAt(s)' => AwaitedAt(s)
        /\ AwaitedAt(s)' => ocrAgent' = ocrAgent /\ (calls'[s].kind = calls[s].kind
                                                     \/ (calls[s].kind = "claim" /\ calls'[s].kind = "fail"))
        /\ ~AwaitedAt(s) => ocrAgent' = ocrAgent
        /\ ocrAgent'.at \in {"work", "page", "complete", "fail"} => ocrAgent'.job \in OcrJobs
    BY <1>0, <1>2, AgainDoes DEF AwaitedAt, AgentFits, CallFits, CallIs, OfJob, Serves, Free, Preparing, Staging
  <2>4. AgentFits'
    BY <2>1, <2>3, AgentStays
  <2>5. \A t \in Slots : CallFits(t)'
    BY <2>1, <2>2, OthersFit
  <2> QED
    BY <2>4, <2>5 DEF CallsFit
<1>3. CASE Take(s)
  <2>1. byAgent' = byAgent /\ strayed \subseteq strayed' /\ \A t \in Slots : t # s => calls'[t] = calls[t]
    BY <1>0, <1>3, TakeDoes
  <2>2. CallFits(s)'
    BY <1>0, <1>3, TakeDoes DEF CallFits, CallIs, OfJob, Serves, Free, Preparing, Staging
  <2>3. /\ AwaitedAt(s)' => AwaitedAt(s)
        /\ AwaitedAt(s)' => ocrAgent' = ocrAgent /\ (calls'[s].kind = calls[s].kind
                                                     \/ (calls[s].kind = "claim" /\ calls'[s].kind = "fail"))
        /\ ~AwaitedAt(s) => ocrAgent' = ocrAgent
        /\ ocrAgent'.at \in {"work", "page", "complete", "fail"} => ocrAgent'.job \in OcrJobs
    BY <1>0, <1>3, TakeDoes DEF AwaitedAt, AgentFits, CallFits, CallIs, OfJob, Serves, Free, Preparing, Staging
  <2>4. AgentFits'
    BY <2>1, <2>3, AgentStays
  <2>5. \A t \in Slots : CallFits(t)'
    BY <2>1, <2>2, OthersFit
  <2> QED
    BY <2>4, <2>5 DEF CallsFit
<1>4. CASE NothingToClaim(s)
  <2>1. byAgent' = byAgent /\ strayed \subseteq strayed' /\ \A t \in Slots : t # s => calls'[t] = calls[t]
    BY <1>0, <1>4, NothingDoes
  <2>2. CallFits(s)'
    BY <1>0, <1>4, NothingDoes DEF CallFits, CallIs, OfJob, Serves, Free, Preparing, Staging
  <2>3. /\ AwaitedAt(s)' => AwaitedAt(s)
        /\ AwaitedAt(s)' => ocrAgent' = ocrAgent /\ (calls'[s].kind = calls[s].kind
                                                     \/ (calls[s].kind = "claim" /\ calls'[s].kind = "fail"))
        /\ ~AwaitedAt(s) => ocrAgent' = ocrAgent
        /\ ocrAgent'.at \in {"work", "page", "complete", "fail"} => ocrAgent'.job \in OcrJobs
    BY <1>0, <1>4, NothingDoes DEF AwaitedAt, AgentFits, CallFits, CallIs, OfJob, Serves, Free, Preparing, Staging
  <2>4. AgentFits'
    BY <2>1, <2>3, AgentStays
  <2>5. \A t \in Slots : CallFits(t)'
    BY <2>1, <2>2, OthersFit
  <2> QED
    BY <2>4, <2>5 DEF CallsFit
<1>5. CASE Prepare(s)
  <2>1. byAgent' = byAgent /\ strayed \subseteq strayed' /\ \A t \in Slots : t # s => calls'[t] = calls[t]
    BY <1>0, <1>5, PrepareDoes
  <2>2. CallFits(s)'
    BY <1>0, <1>5, PrepareDoes DEF CallFits, CallIs, OfJob, Serves, Free, Preparing, Staging
  <2>3. /\ AwaitedAt(s)' => AwaitedAt(s)
        /\ AwaitedAt(s)' => ocrAgent' = ocrAgent /\ (calls'[s].kind = calls[s].kind
                                                     \/ (calls[s].kind = "claim" /\ calls'[s].kind = "fail"))
        /\ ~AwaitedAt(s) => ocrAgent' = ocrAgent
        /\ ocrAgent'.at \in {"work", "page", "complete", "fail"} => ocrAgent'.job \in OcrJobs
    BY <1>0, <1>5, PrepareDoes DEF AwaitedAt, AgentFits, CallFits, CallIs, OfJob, Serves, Free, Preparing, Staging
  <2>4. AgentFits'
    BY <2>1, <2>3, AgentStays
  <2>5. \A t \in Slots : CallFits(t)'
    BY <2>1, <2>2, OthersFit
  <2> QED
    BY <2>4, <2>5 DEF CallsFit
<1>6. CASE Map(s)
  <2>1. byAgent' = byAgent /\ strayed \subseteq strayed' /\ \A t \in Slots : t # s => calls'[t] = calls[t]
    BY <1>0, <1>6, MapDoes
  <2>2. CallFits(s)'
    BY <1>0, <1>6, MapDoes DEF CallFits, CallIs, OfJob, Serves, Free, Preparing, Staging
  <2>3. /\ AwaitedAt(s)' => AwaitedAt(s)
        /\ AwaitedAt(s)' => ocrAgent' = ocrAgent /\ (calls'[s].kind = calls[s].kind
                                                     \/ (calls[s].kind = "claim" /\ calls'[s].kind = "fail"))
        /\ ~AwaitedAt(s) => ocrAgent' = ocrAgent
        /\ ocrAgent'.at \in {"work", "page", "complete", "fail"} => ocrAgent'.job \in OcrJobs
    BY <1>0, <1>6, MapDoes, UpsetTyped DEF AwaitedAt, AgentFits, CallFits, CallIs, OfJob, Serves, Free, Preparing, Staging
  <2>4. AgentFits'
    BY <2>1, <2>3, AgentStays
  <2>5. \A t \in Slots : CallFits(t)'
    BY <2>1, <2>2, OthersFit
  <2> QED
    BY <2>4, <2>5 DEF CallsFit
<1>7. CASE PrepareRaises(s)
  <2>1. byAgent' = byAgent /\ strayed \subseteq strayed' /\ \A t \in Slots : t # s => calls'[t] = calls[t]
    BY <1>0, <1>7, PrepareRaisesDoes
  <2>2. CallFits(s)'
    BY <1>0, <1>7, PrepareRaisesDoes DEF CallFits, CallIs, OfJob, Serves, Free, Preparing, Staging
  <2>3. /\ AwaitedAt(s)' => AwaitedAt(s)
        /\ AwaitedAt(s)' => ocrAgent' = ocrAgent /\ (calls'[s].kind = calls[s].kind
                                                     \/ (calls[s].kind = "claim" /\ calls'[s].kind = "fail"))
        /\ ~AwaitedAt(s) => ocrAgent' = ocrAgent
        /\ ocrAgent'.at \in {"work", "page", "complete", "fail"} => ocrAgent'.job \in OcrJobs
    BY <1>0, <1>7, PrepareRaisesDoes DEF AwaitedAt, AgentFits, CallFits, CallIs, OfJob, Serves, Free, Preparing, Staging
  <2>4. AgentFits'
    BY <2>1, <2>3, AgentStays
  <2>5. \A t \in Slots : CallFits(t)'
    BY <2>1, <2>2, OthersFit
  <2> QED
    BY <2>4, <2>5 DEF CallsFit
<1>8. CASE Admit(s)
  <2>1. byAgent' = byAgent /\ strayed \subseteq strayed' /\ \A t \in Slots : t # s => calls'[t] = calls[t]
    BY <1>0, <1>8, AdmitDoes
  <2>2. CallFits(s)'
    BY <1>0, <1>8, AdmitDoes DEF CallFits, CallIs, OfJob, Serves, Free, Preparing, Staging
  <2>3. /\ AwaitedAt(s)' => AwaitedAt(s)
        /\ AwaitedAt(s)' => ocrAgent' = ocrAgent /\ (calls'[s].kind = calls[s].kind
                                                     \/ (calls[s].kind = "claim" /\ calls'[s].kind = "fail"))
        /\ ~AwaitedAt(s) => ocrAgent' = ocrAgent
        /\ ocrAgent'.at \in {"work", "page", "complete", "fail"} => ocrAgent'.job \in OcrJobs
    BY <1>0, <1>8, AdmitDoes, UpsetTyped DEF AwaitedAt, AgentFits, CallFits, CallIs, OfJob, Serves, Free, Preparing, Staging
  <2>4. AgentFits'
    BY <2>1, <2>3, AgentStays
  <2>5. \A t \in Slots : CallFits(t)'
    BY <2>1, <2>2, OthersFit
  <2> QED
    BY <2>4, <2>5 DEF CallsFit
<1>9. CASE SavePage(s)
  <2>1. byAgent' = byAgent /\ strayed \subseteq strayed' /\ \A t \in Slots : t # s => calls'[t] = calls[t]
    BY <1>0, <1>9, SavePageDoes
  <2>2. CallFits(s)'
    BY <1>0, <1>9, SavePageDoes DEF CallFits, CallIs, OfJob, Serves, Free, Preparing, Staging
  <2>3. /\ AwaitedAt(s)' => AwaitedAt(s)
        /\ AwaitedAt(s)' => ocrAgent' = ocrAgent /\ (calls'[s].kind = calls[s].kind
                                                     \/ (calls[s].kind = "claim" /\ calls'[s].kind = "fail"))
        /\ ~AwaitedAt(s) => ocrAgent' = ocrAgent
        /\ ocrAgent'.at \in {"work", "page", "complete", "fail"} => ocrAgent'.job \in OcrJobs
    BY <1>0, <1>9, SavePageDoes DEF AwaitedAt, AgentFits, CallFits, CallIs, OfJob, Serves, Free, Preparing, Staging
  <2>4. AgentFits'
    BY <2>1, <2>3, AgentStays
  <2>5. \A t \in Slots : CallFits(t)'
    BY <2>1, <2>2, OthersFit
  <2> QED
    BY <2>4, <2>5 DEF CallsFit
<1>10. CASE StageNext(s)
  <2>1. byAgent' = byAgent /\ strayed \subseteq strayed' /\ \A t \in Slots : t # s => calls'[t] = calls[t]
    BY <1>0, <1>10, StageNextDoes
  <2>2. CallFits(s)'
    BY <1>0, <1>10, StageNextDoes DEF CallFits, CallIs, OfJob, Serves, Free, Preparing, Staging
  <2>3. /\ AwaitedAt(s)' => AwaitedAt(s)
        /\ AwaitedAt(s)' => ocrAgent' = ocrAgent /\ (calls'[s].kind = calls[s].kind
                                                     \/ (calls[s].kind = "claim" /\ calls'[s].kind = "fail"))
        /\ ~AwaitedAt(s) => ocrAgent' = ocrAgent
        /\ ocrAgent'.at \in {"work", "page", "complete", "fail"} => ocrAgent'.job \in OcrJobs
    BY <1>0, <1>10, StageNextDoes DEF AwaitedAt, AgentFits, CallFits, CallIs, OfJob, Serves, Free, Preparing, Staging
  <2>4. AgentFits'
    BY <2>1, <2>3, AgentStays
  <2>5. \A t \in Slots : CallFits(t)'
    BY <2>1, <2>2, OthersFit
  <2> QED
    BY <2>4, <2>5 DEF CallsFit
<1>11. CASE StageRaises(s)
  <2>1. byAgent' = byAgent /\ strayed \subseteq strayed' /\ \A t \in Slots : t # s => calls'[t] = calls[t]
    BY <1>0, <1>11, StageRaisesDoes
  <2>2. CallFits(s)'
    BY <1>0, <1>11, StageRaisesDoes DEF CallFits, CallIs, OfJob, Serves, Free, Preparing, Staging
  <2>3. /\ AwaitedAt(s)' => AwaitedAt(s)
        /\ AwaitedAt(s)' => ocrAgent' = ocrAgent /\ (calls'[s].kind = calls[s].kind
                                                     \/ (calls[s].kind = "claim" /\ calls'[s].kind = "fail"))
        /\ ~AwaitedAt(s) => ocrAgent' = ocrAgent
        /\ ocrAgent'.at \in {"work", "page", "complete", "fail"} => ocrAgent'.job \in OcrJobs
    BY <1>0, <1>11, StageRaisesDoes, UpsetTyped DEF AwaitedAt, AgentFits, CallFits, CallIs, OfJob, Serves, Free, Preparing, Staging
  <2>4. AgentFits'
    BY <2>1, <2>3, AgentStays
  <2>5. \A t \in Slots : CallFits(t)'
    BY <2>1, <2>2, OthersFit
  <2> QED
    BY <2>4, <2>5 DEF CallsFit
<1>12. CASE FinishComplete(s)
  <2>1. byAgent' = byAgent /\ strayed \subseteq strayed' /\ \A t \in Slots : t # s => calls'[t] = calls[t]
    BY <1>0, <1>12, FinishCompleteDoes
  <2>2. CallFits(s)'
    BY <1>0, <1>12, FinishCompleteDoes DEF CallFits, CallIs, OfJob, Serves, Free, Preparing, Staging
  <2>3. /\ AwaitedAt(s)' => AwaitedAt(s)
        /\ AwaitedAt(s)' => ocrAgent' = ocrAgent /\ (calls'[s].kind = calls[s].kind
                                                     \/ (calls[s].kind = "claim" /\ calls'[s].kind = "fail"))
        /\ ~AwaitedAt(s) => ocrAgent' = ocrAgent
        /\ ocrAgent'.at \in {"work", "page", "complete", "fail"} => ocrAgent'.job \in OcrJobs
    BY <1>0, <1>12, FinishCompleteDoes DEF AwaitedAt, AgentFits, CallFits, CallIs, OfJob, Serves, Free, Preparing, Staging
  <2>4. AgentFits'
    BY <2>1, <2>3, AgentStays
  <2>5. \A t \in Slots : CallFits(t)'
    BY <2>1, <2>2, OthersFit
  <2> QED
    BY <2>4, <2>5 DEF CallsFit
<1>13. CASE MarkFailed(s)
  <2>1. byAgent' = byAgent /\ strayed \subseteq strayed' /\ \A t \in Slots : t # s => calls'[t] = calls[t]
    BY <1>0, <1>13, MarkFailedDoes
  <2>2. CallFits(s)'
    BY <1>0, <1>13, MarkFailedDoes DEF CallFits, CallIs, OfJob, Serves, Free, Preparing, Staging
  <2>3. /\ AwaitedAt(s)' => AwaitedAt(s)
        /\ AwaitedAt(s)' => ocrAgent' = ocrAgent /\ (calls'[s].kind = calls[s].kind
                                                     \/ (calls[s].kind = "claim" /\ calls'[s].kind = "fail"))
        /\ ~AwaitedAt(s) => ocrAgent' = ocrAgent
        /\ ocrAgent'.at \in {"work", "page", "complete", "fail"} => ocrAgent'.job \in OcrJobs
    BY <1>0, <1>13, MarkFailedDoes DEF AwaitedAt, AgentFits, CallFits, CallIs, OfJob, Serves, Free, Preparing, Staging
  <2>4. AgentFits'
    BY <2>1, <2>3, AgentStays
  <2>5. \A t \in Slots : CallFits(t)'
    BY <2>1, <2>2, OthersFit
  <2> QED
    BY <2>4, <2>5 DEF CallsFit
<1>14. CASE FinishFail(s)
  <2>1. byAgent' = byAgent /\ strayed \subseteq strayed' /\ \A t \in Slots : t # s => calls'[t] = calls[t]
    BY <1>0, <1>14, FinishFailDoes
  <2>2. CallFits(s)'
    BY <1>0, <1>14, FinishFailDoes DEF CallFits, CallIs, OfJob, Serves, Free, Preparing, Staging
  <2>3. /\ AwaitedAt(s)' => AwaitedAt(s)
        /\ AwaitedAt(s)' => ocrAgent' = ocrAgent /\ (calls'[s].kind = calls[s].kind
                                                     \/ (calls[s].kind = "claim" /\ calls'[s].kind = "fail"))
        /\ ~AwaitedAt(s) => ocrAgent' = ocrAgent
        /\ ocrAgent'.at \in {"work", "page", "complete", "fail"} => ocrAgent'.job \in OcrJobs
    BY <1>0, <1>14, FinishFailDoes DEF AwaitedAt, AgentFits, CallFits, CallIs, OfJob, Serves, Free, Preparing, Staging
  <2>4. AgentFits'
    BY <2>1, <2>3, AgentStays
  <2>5. \A t \in Slots : CallFits(t)'
    BY <2>1, <2>2, OthersFit
  <2> QED
    BY <2>4, <2>5 DEF CallsFit
<1>15. CASE WorkerTake(s)
  <2>1. byAgent' = byAgent /\ strayed \subseteq strayed' /\ \A t \in Slots : t # s => calls'[t] = calls[t]
    BY <1>0, <1>15, WorkerTakeDoes
  <2>2. CallFits(s)'
    BY <1>0, <1>15, WorkerTakeDoes DEF CallFits, CallIs, OfJob, Serves, Free, Preparing, Staging
  <2>3. /\ AwaitedAt(s)' => AwaitedAt(s)
        /\ AwaitedAt(s)' => ocrAgent' = ocrAgent /\ (calls'[s].kind = calls[s].kind
                                                     \/ (calls[s].kind = "claim" /\ calls'[s].kind = "fail"))
        /\ ~AwaitedAt(s) => ocrAgent' = ocrAgent
        /\ ocrAgent'.at \in {"work", "page", "complete", "fail"} => ocrAgent'.job \in OcrJobs
    BY <1>0, <1>15, WorkerTakeDoes DEF AwaitedAt, AgentFits, CallFits, CallIs, OfJob, Serves, Free, Preparing, Staging
  <2>4. AgentFits'
    BY <2>1, <2>3, AgentStays
  <2>5. \A t \in Slots : CallFits(t)'
    BY <2>1, <2>2, OthersFit
  <2> QED
    BY <2>4, <2>5 DEF CallsFit
<1>16. CASE WorkerReads(s)
  <2>1. byAgent' = byAgent /\ strayed \subseteq strayed' /\ \A t \in Slots : t # s => calls'[t] = calls[t]
    BY <1>0, <1>16, WorkerReadsDoes
  <2>2. CallFits(s)'
    BY <1>0, <1>16, WorkerReadsDoes DEF CallFits, CallIs, OfJob, Serves, Free, Preparing, Staging
  <2>3. /\ AwaitedAt(s)' => AwaitedAt(s)
        /\ AwaitedAt(s)' => ocrAgent' = ocrAgent /\ (calls'[s].kind = calls[s].kind
                                                     \/ (calls[s].kind = "claim" /\ calls'[s].kind = "fail"))
        /\ ~AwaitedAt(s) => ocrAgent' = ocrAgent
        /\ ocrAgent'.at \in {"work", "page", "complete", "fail"} => ocrAgent'.job \in OcrJobs
    BY <1>0, <1>16, WorkerReadsDoes DEF AwaitedAt, AgentFits, CallFits, CallIs, OfJob, Serves, Free, Preparing, Staging
  <2>4. AgentFits'
    BY <2>1, <2>3, AgentStays
  <2>5. \A t \in Slots : CallFits(t)'
    BY <2>1, <2>2, OthersFit
  <2> QED
    BY <2>4, <2>5 DEF CallsFit
<1>17. CASE WorkerPage(s)
  <2>1. byAgent' = byAgent /\ strayed \subseteq strayed' /\ \A t \in Slots : t # s => calls'[t] = calls[t]
    BY <1>0, <1>17, WorkerPageDoes
  <2>2. CallFits(s)'
    BY <1>0, <1>17, WorkerPageDoes DEF CallFits, CallIs, OfJob, Serves, Free, Preparing, Staging
  <2>3. /\ AwaitedAt(s)' => AwaitedAt(s)
        /\ AwaitedAt(s)' => ocrAgent' = ocrAgent /\ (calls'[s].kind = calls[s].kind
                                                     \/ (calls[s].kind = "claim" /\ calls'[s].kind = "fail"))
        /\ ~AwaitedAt(s) => ocrAgent' = ocrAgent
        /\ ocrAgent'.at \in {"work", "page", "complete", "fail"} => ocrAgent'.job \in OcrJobs
    BY <1>0, <1>17, WorkerPageDoes DEF AwaitedAt, AgentFits, CallFits, CallIs, OfJob, Serves, Free, Preparing, Staging
  <2>4. AgentFits'
    BY <2>1, <2>3, AgentStays
  <2>5. \A t \in Slots : CallFits(t)'
    BY <2>1, <2>2, OthersFit
  <2> QED
    BY <2>4, <2>5 DEF CallsFit
<1>18. CASE WorkerRaises(s)
  <2>1. byAgent' = byAgent /\ strayed \subseteq strayed' /\ \A t \in Slots : t # s => calls'[t] = calls[t]
    BY <1>0, <1>18, WorkerRaisesDoes
  <2>2. CallFits(s)'
    BY <1>0, <1>18, WorkerRaisesDoes DEF CallFits, CallIs, OfJob, Serves, Free, Preparing, Staging
  <2>3. /\ AwaitedAt(s)' => AwaitedAt(s)
        /\ AwaitedAt(s)' => ocrAgent' = ocrAgent /\ (calls'[s].kind = calls[s].kind
                                                     \/ (calls[s].kind = "claim" /\ calls'[s].kind = "fail"))
        /\ ~AwaitedAt(s) => ocrAgent' = ocrAgent
        /\ ocrAgent'.at \in {"work", "page", "complete", "fail"} => ocrAgent'.job \in OcrJobs
    BY <1>0, <1>18, WorkerRaisesDoes DEF AwaitedAt, AgentFits, CallFits, CallIs, OfJob, Serves, Free, Preparing, Staging
  <2>4. AgentFits'
    BY <2>1, <2>3, AgentStays
  <2>5. \A t \in Slots : CallFits(t)'
    BY <2>1, <2>2, OthersFit
  <2> QED
    BY <2>4, <2>5 DEF CallsFit
<1>19. CASE WorkerStage(s)
  <2>1. byAgent' = byAgent /\ strayed \subseteq strayed' /\ \A t \in Slots : t # s => calls'[t] = calls[t]
    BY <1>0, <1>19, WorkerStageDoes
  <2>2. CallFits(s)'
    BY <1>0, <1>19, WorkerStageDoes DEF CallFits, CallIs, OfJob, Serves, Free, Preparing, Staging
  <2>3. /\ AwaitedAt(s)' => AwaitedAt(s)
        /\ AwaitedAt(s)' => ocrAgent' = ocrAgent /\ (calls'[s].kind = calls[s].kind
                                                     \/ (calls[s].kind = "claim" /\ calls'[s].kind = "fail"))
        /\ ~AwaitedAt(s) => ocrAgent' = ocrAgent
        /\ ocrAgent'.at \in {"work", "page", "complete", "fail"} => ocrAgent'.job \in OcrJobs
    BY <1>0, <1>19, WorkerStageDoes DEF AwaitedAt, AgentFits, CallFits, CallIs, OfJob, Serves, Free, Preparing, Staging
  <2>4. AgentFits'
    BY <2>1, <2>3, AgentStays
  <2>5. \A t \in Slots : CallFits(t)'
    BY <2>1, <2>2, OthersFit
  <2> QED
    BY <2>4, <2>5 DEF CallsFit
<1>20. CASE WorkerEnds(s)
  <2>1. byAgent' = byAgent /\ strayed \subseteq strayed' /\ \A t \in Slots : t # s => calls'[t] = calls[t]
    BY <1>0, <1>20, WorkerEndsDoes
  <2>2. CallFits(s)'
    BY <1>0, <1>20, WorkerEndsDoes DEF CallFits, CallIs, OfJob, Serves, Free, Preparing, Staging
  <2>3. /\ AwaitedAt(s)' => AwaitedAt(s)
        /\ AwaitedAt(s)' => ocrAgent' = ocrAgent /\ (calls'[s].kind = calls[s].kind
                                                     \/ (calls[s].kind = "claim" /\ calls'[s].kind = "fail"))
        /\ ~AwaitedAt(s) => ocrAgent' = ocrAgent
        /\ ocrAgent'.at \in {"work", "page", "complete", "fail"} => ocrAgent'.job \in OcrJobs
    BY <1>0, <1>20, WorkerEndsDoes DEF AwaitedAt, AgentFits, CallFits, CallIs, OfJob, Serves, Free, Preparing, Staging
  <2>4. AgentFits'
    BY <2>1, <2>3, AgentStays
  <2>5. \A t \in Slots : CallFits(t)'
    BY <2>1, <2>2, OthersFit
  <2> QED
    BY <2>4, <2>5 DEF CallsFit
<1> QED
  BY <1>1, <1>2, <1>3, <1>4, <1>5, <1>6, <1>7, <1>8, <1>9, <1>10, <1>11, <1>12, <1>13, <1>14, <1>15, <1>16, <1>17, <1>18, <1>19, <1>20 DEF CallStep

\* What the agent does when its call fails, it does with a job.
LEMMA UpsetFits ==
    ASSUME RowsTypeOK, PicksFit, CallsFit, Waiting
    PROVE  Upset.at \in {"work", "page", "complete", "fail"} => Upset.job \in OcrJobs
<1>1. PICK s \in Slots : AwaitedAt(s)
  BY DEF Waiting, AwaitedAt, Serves
<1>2. ocrAgent.at = calls[s].kind \/ (calls[s].kind = "fail" /\ ocrAgent.at = "claim")
  BY <1>1 DEF CallsFit, AgentFits
<1>3. calls[s].kind \in {"claim", "page", "complete", "fail", "worker"}
  BY <1>1, CallTyped DEF AwaitedAt, CallsOver
<1>4. ocrAgent.at \in {"rest", "claim", "work", "page", "complete", "fail"}
  BY DEF RowsTypeOK
<1> QED
  BY <1>2, <1>3, <1>4, UpsetTyped DEF CallsFit, AgentFits

\* The agent posts calls about its job, and claims when it rests.
Posting(kind, books) ==
    /\ kind \in {"claim", "page", "complete", "fail"} /\ books \in SUBSET Books
    /\ OcrPost(kind, books)
    /\ kind # "claim" => ocrAgent.at \in {"work", "fail"}

\* The agent gives its call up, or stops.
Leaving(after) == Abandon(after) /\ ((after = Upset /\ Waiting) \/ after = Resting)

\* The kinds of steps.
LEMMA StepKinds ==
    ASSUME RowsTypeOK, PicksFit, OcrJobsNext
    PROVE  \/ UserStep \/ Aside \/ OcrRestart
           \/ \E kind, books : Posting(kind, books)
           \/ \E after \in AgentRecords : Leaving(after)
           \/ \E s \in Slots : CallStep(s)
<1>1. ocrAgent.todo \subseteq Books
  BY DEF RowsTypeOK
<1>2. AgentStep => Aside \/ \E kind, books : Posting(kind, books)
  <2>1. PostClaim => Posting("claim", {})
    BY DEF PostClaim, Posting
  <2>2. ASSUME PostPage PROVE \E kind, books : Posting(kind, books)
    <3>1. PICK b \in ocrAgent.todo : OcrPost("page", {b}) /\ ocrAgent.at = "work"
      BY <2>2 DEF PostPage
    <3>2. Posting("page", {b})
      BY <1>1, <3>1 DEF Posting
    <3> QED
      BY <3>2
  <2>3. PostComplete => Posting("complete", {})
    BY DEF PostComplete, Posting
  <2>4. PostFail => Posting("fail", {})
    BY DEF PostFail, Posting
  <2> QED
    BY <2>1, <2>2, <2>3, <2>4 DEF AgentStep, Aside
<1>3. GiveUp \/ CrashAgent => \E after \in AgentRecords : Leaving(after)
  BY UpsetTyped DEF GiveUp, CrashAgent, Leaving
<1> QED
  BY <1>2, <1>3 DEF OcrJobsNext, Aside

\* Every step leaves all calls fitting, and keeps the types.
LEMMA StepKeepsFit ==
    ASSUME RowsTypeOK, PicksFit, CallsFit, [OcrJobsNext]_ocrJobsVars
    PROVE  RowsTypeOK' /\ CallsFit'
<1>0. /\ \A s \in Slots : CallFits(s)
      /\ AgentFits
  BY DEF CallsFit
<1>1. CASE UserStep
  <2>1. RowsTypeOK' /\ UNCHANGED <<byAgent, calls, ocrAgent, strayed>>
    BY <1>1, UserDoes
  <2> QED
    BY <2>1 DEF CallsFit, AgentFits, CallFits, OfJob, Serves, AwaitedAt
<1>2. CASE Aside
  <2>1. /\ RowsTypeOK' /\ UNCHANGED <<byAgent, calls, strayed>> /\ ocrAgent'.job = ocrAgent.job
        /\ ocrAgent'.at = ocrAgent.at \/ (ocrAgent.at = "work" /\ ocrAgent'.at = "fail")
    BY <1>2, AgentOnlyDoes
  <2>2. \A s \in Slots : CallFits(s)' /\ (AwaitedAt(s)' <=> AwaitedAt(s))
    BY <1>0, <2>1 DEF CallFits, OfJob, Serves, AwaitedAt
  <2>3. \A s \in Slots : AwaitedAt(s) => ocrAgent.at # "work"
    <3>1. \A s \in Slots : Serves(s) => calls[s].kind # "work"
      BY CallTyped DEF CallsOver
    <3> QED
      BY <1>0, <3>1 DEF AgentFits, AwaitedAt
  <2>4. AgentFits'
    BY <1>0, <2>1, <2>2, <2>3 DEF AgentFits
  <2> QED
    BY <2>1, <2>2, <2>4 DEF CallsFit
<1>3. CASE OcrRestart
  <2>1. /\ RowsTypeOK' /\ \A s \in Slots : ~Serves(s)'
        /\ ocrAgent' = IF Waiting THEN Upset ELSE ocrAgent
    BY <1>3, RestartDoes
  <2>2. \A s \in Slots : CallFits(s)' /\ ~AwaitedAt(s)'
    BY <2>1 DEF CallFits, OfJob, Serves, AwaitedAt
  <2>3. AgentFits'
    BY <1>0, <2>1, <2>2, UpsetFits DEF AgentFits
  <2> QED
    BY <2>1, <2>2, <2>3 DEF CallsFit
<1>4. ASSUME NEW kind, NEW books, Posting(kind, books) PROVE RowsTypeOK' /\ CallsFit'
  <2>1. /\ RowsTypeOK' /\ byAgent /\ ~Waiting /\ UNCHANGED <<byAgent, strayed>>
        /\ ocrAgent'.at = kind /\ ocrAgent'.job = ocrAgent.job
        /\ kind \in {"claim", "page", "complete", "fail"} /\ (kind # "claim" => ocrAgent.at \in {"work", "fail"})
    BY <1>4, PostDoes DEF Posting
  <2>2. PICK s \in Slots :
          /\ \A t \in Slots : t # s => calls'[t] = calls[t]
          /\ CallIs(calls'[s], kind, IF kind = "claim" THEN "recover" ELSE "check", ocrAgent.job, books, {}, FALSE, TRUE)
    BY <1>4, PostDoes DEF Posting
  <2>3. \A t \in Slots : ~AwaitedAt(t)
    BY <2>1 DEF Waiting, AwaitedAt, Serves
  <2>4. \A t \in Slots : AwaitedAt(t)' => t = s
    BY <2>2, <2>3 DEF AwaitedAt, Serves
  <2>5. kind # "claim" => ocrAgent.job \in OcrJobs
    BY <1>0, <2>1 DEF AgentFits
  <2>6. CallFits(s)'
    BY <2>1, <2>2, <2>5 DEF CallFits, CallIs, OfJob, Serves
  <2>7. \A t \in Slots : CallFits(t)'
    BY <2>1, <2>2, <2>6, OthersFit
  <2>8. AgentFits'
    BY <2>1, <2>2, <2>4, <2>5 DEF AgentFits, CallIs
  <2> QED
    BY <2>1, <2>7, <2>8 DEF CallsFit
<1>5. ASSUME NEW after \in AgentRecords, Leaving(after) PROVE RowsTypeOK' /\ CallsFit'
  <2>1. /\ RowsTypeOK' /\ byAgent /\ byAgent' = byAgent /\ ocrAgent' = after
        /\ \A s \in Slots : IF AwaitedAt(s)
                            THEN CallIs(calls'[s], calls[s].kind, calls[s].at, calls[s].job, calls[s].todo,
                                        calls[s].got, calls[s].bad, FALSE)
                            ELSE calls'[s] = calls[s]
        /\ strayed' = (strayed \cup {calls[s].job : s \in {t \in Slots : Serves(t)}}) \ {0}
    BY <1>5, AbandonDoes DEF Leaving
  <2>2. \A s \in Slots : ~AwaitedAt(s)'
    BY <2>1 DEF AwaitedAt, Serves, CallIs
  <2>3. after.at \in {"work", "page", "complete", "fail"} => after.job \in OcrJobs
    BY <1>5, UpsetFits, UpsetTyped DEF Leaving
  <2>4. ASSUME NEW s \in Slots PROVE CallFits(s)'
    <3>1. OfJob(s) => calls[s].job \in strayed'
      <4>1. OfJob(s) => calls[s].job \in OcrJobs /\ Serves(s)
        BY <1>0 DEF CallFits, OfJob
      <4> QED
        BY <2>1, <4>1, OcrAgentJobsAssumption
    <3>2. CASE AwaitedAt(s)
      BY <1>0, <2>1, <3>1, <3>2 DEF CallFits, CallIs, OfJob, Serves
    <3>3. CASE ~AwaitedAt(s)
      BY <1>0, <2>1, <3>1, <3>3 DEF CallFits, OfJob, Serves
    <3> QED
      BY <3>2, <3>3
  <2>5. AgentFits'
    BY <2>1, <2>2, <2>3 DEF AgentFits
  <2> QED
    BY <2>1, <2>4, <2>5 DEF CallsFit
<1>6. ASSUME NEW s \in Slots, CallStep(s) PROVE RowsTypeOK' /\ CallsFit'
  <2>1. CallFits(s)
    BY <1>0
  <2>2. RowsTypeOK'
    BY <1>6, <2>1, RecoverDoes, AgainDoes, TakeDoes, NothingDoes, PrepareDoes, MapDoes, PrepareRaisesDoes, AdmitDoes,
       SavePageDoes, StageNextDoes, StageRaisesDoes, FinishCompleteDoes, MarkFailedDoes, FinishFailDoes,
       WorkerTakeDoes, WorkerReadsDoes, WorkerPageDoes, WorkerRaisesDoes, WorkerStageDoes, WorkerEndsDoes DEF CallStep
  <2> QED
    BY <1>6, <2>2, CallKeepsFit
<1>7. CASE UNCHANGED ocrJobsVars
  BY <1>7 DEF ocrJobsVars, jobVars, RowsTypeOK, CallRecords, Ids, CallsFit, AgentFits, CallFits, OfJob, Serves, AwaitedAt
<1> QED
  BY <1>1, <1>2, <1>3, <1>4, <1>5, <1>6, <1>7, StepKinds

-----------------------------------------------------------------------------
(* What may become of a run. *)

RunMoves(r) ==
    /\ runs'[r].book = runs[r].book
    /\ runs[r].page # "none" => runs'[r].page # "none"
    /\ \/ runs'[r].state \in {runs[r].state, "failed"}
       \/ runs'[r].state = "running"
       \/ runs'[r].state = "awaiting_qa" /\ runs[r].page # "none"
       \/ runs'[r].state = "completed" /\ runs[r].state = "awaiting_qa"

RunsMove ==
    /\ Ids \subseteq Ids' /\ strayed \subseteq strayed'
    /\ \A r \in Ids : RunMoves(r)
    /\ \A r \in Ids' \ Ids : runs'[r].state = "running"

\* Runs that do not change move as runs may.
LEMMA SameRuns ==
    ASSUME RowsTypeOK, PicksFit, UNCHANGED runs, strayed \subseteq strayed'
    PROVE  RunsMove
BY DEF RunsMove, RunMoves, Ids

\* Each step moves the runs in these ways only.
LEMMA StepMovesRuns ==
    ASSUME RowsTypeOK, PicksFit, CallsFit, [OcrJobsNext]_ocrJobsVars
    PROVE  RunsMove
<1>1. CASE UserStep
  BY <1>1, UserDoes DEF RunsMove, RunMoves
<1>2. CASE Aside
  BY <1>2, AgentOnlyDoes, SameRuns
<1>3. CASE OcrRestart
  <2>1. \A s \in Slots : Serves(s) => calls[s].job \in OcrJobs \cup {0}
    BY CallTyped DEF CallsOver
  <2>2. 0 \notin strayed
    BY OcrAgentJobsAssumption DEF RowsTypeOK
  <2> QED
    BY <1>3, <2>2, RestartDoes, SameRuns
<1>4. ASSUME NEW kind, NEW books, Posting(kind, books) PROVE RunsMove
  BY <1>4, PostDoes, SameRuns DEF Posting
<1>5. ASSUME NEW after \in AgentRecords, Leaving(after) PROVE RunsMove
  <2>1. 0 \notin strayed
    BY OcrAgentJobsAssumption DEF RowsTypeOK
  <2> QED
    BY <1>5, <2>1, AbandonDoes, SameRuns DEF Leaving
<1>6. ASSUME NEW s \in Slots, CallStep(s) PROVE RunsMove
  <2>0. CallFits(s) /\ \A q \in calls[s].got : Serves(s) => q \in Ids
    BY CallTyped DEF CallsFit, CallsOver
  <2>1. CASE Recover(s)
    BY <2>0, <2>1, RecoverDoes DEF RunsMove, RunMoves, CallIs
  <2>2. CASE Again(s)
    BY <2>0, <2>2, AgainDoes, SameRuns
  <2>3. CASE Take(s)
    BY <2>0, <2>3, TakeDoes, SameRuns
  <2>4. CASE NothingToClaim(s)
    BY <2>0, <2>4, NothingDoes, SameRuns
  <2>5. CASE Prepare(s)
    BY <2>0, <2>5, PrepareDoes DEF RunsMove, RunMoves, CallIs
  <2>6. CASE Map(s)
    BY <2>0, <2>6, MapDoes, SameRuns
  <2>7. CASE PrepareRaises(s)
    BY <2>0, <2>7, PrepareRaisesDoes, SameRuns
  <2>8. CASE Admit(s)
    BY <2>0, <2>8, AdmitDoes, SameRuns
  <2>9. CASE SavePage(s)
    <3>1. strayed' = strayed /\ Ids' = Ids
      BY <2>0, <2>9, SavePageDoes
    <3>2. \A q \in Ids : /\ runs'[q].state = runs[q].state /\ runs'[q].book = runs[q].book
                         /\ runs[q].page # "none" => runs'[q].page # "none"
      BY <2>0, <2>9, SavePageDoes
    <3>3. ASSUME NEW q \in Ids PROVE RunMoves(q)
      BY <3>2 DEF RunMoves
    <3> QED
      BY <3>1, <3>3 DEF RunsMove
  <2>10. CASE StageNext(s)
    BY <2>0, <2>10, StageNextDoes DEF RunsMove, RunMoves, CallIs
  <2>11. CASE StageRaises(s)
    BY <2>0, <2>11, StageRaisesDoes, SameRuns
  <2>12. CASE FinishComplete(s)
    BY <2>0, <2>12, FinishCompleteDoes, SameRuns
  <2>13. CASE MarkFailed(s)
    BY <2>0, <2>13, MarkFailedDoes DEF RunsMove, RunMoves, CallIs
  <2>14. CASE FinishFail(s)
    BY <2>0, <2>14, FinishFailDoes, SameRuns
  <2>15. CASE WorkerTake(s)
    BY <2>0, <2>15, WorkerTakeDoes, SameRuns
  <2>16. CASE WorkerReads(s)
    BY <2>0, <2>16, WorkerReadsDoes, SameRuns
  <2>17. CASE WorkerPage(s)
    <3>1. strayed' = strayed /\ Ids' = Ids
      BY <2>0, <2>17, WorkerPageDoes
    <3>2. \A q \in Ids : /\ runs'[q].state = runs[q].state /\ runs'[q].book = runs[q].book
                         /\ runs[q].page # "none" => runs'[q].page # "none"
      BY <2>0, <2>17, WorkerPageDoes
    <3>3. ASSUME NEW q \in Ids PROVE RunMoves(q)
      BY <3>2 DEF RunMoves
    <3> QED
      BY <3>1, <3>3 DEF RunsMove
  <2>18. CASE WorkerRaises(s)
    BY <2>0, <2>18, WorkerRaisesDoes DEF RunsMove, RunMoves, CallIs
  <2>19. CASE WorkerStage(s)
    BY <2>0, <2>19, WorkerStageDoes DEF RunsMove, RunMoves, CallIs
  <2>20. CASE WorkerEnds(s)
    BY <2>0, <2>20, WorkerEndsDoes, SameRuns
  <2> QED
    BY <1>6, <2>1, <2>2, <2>3, <2>4, <2>5, <2>6, <2>7, <2>8, <2>9, <2>10, <2>11, <2>12, <2>13, <2>14, <2>15, <2>16, <2>17, <2>18, <2>19, <2>20 DEF CallStep
<1>7. CASE UNCHANGED ocrJobsVars
  BY <1>7, SameRuns DEF ocrJobsVars
<1> QED
  BY <1>1, <1>2, <1>3, <1>4, <1>5, <1>6, <1>7, StepKinds

\* Only complete runs come into the review, and no run loses its pages.
LEMMA ReviewedStayComplete ==
    ASSUME RowsTypeOK, PicksFit, RunsMove, ReviewedRunsAreComplete
    PROVE  ReviewedRunsAreComplete'
<1> SUFFICES ASSUME NEW r \in Ids', runs'[r].state \in InReview PROVE runs'[r].page # "none"
  BY DEF ReviewedRunsAreComplete, Ids, InReview
<1>1. r \in Ids
  BY DEF RunsMove, InReview
<1>2. RunMoves(r) /\ (runs[r].state \in InReview => runs[r].page # "none")
  BY <1>1 DEF RunsMove, ReviewedRunsAreComplete
<1> QED
  BY <1>2 DEF RunMoves, InReview

\* At first there are no runs and no calls.
LEMMA OcrJobsStart ==
    ASSUME OcrJobsInit
    PROVE  RowsTypeOK /\ PicksFit /\ CallsFit /\ ReviewedRunsAreComplete
<1>1. Ids = {} /\ Len(runs) = 0 /\ runs \in Seq(RunRecords)
  BY DEF OcrJobsInit, Ids
<1>2. \A s \in Slots : calls[s] = Free /\ Free.kind = "free"
  BY DEF OcrJobsInit, Free
<1>3. ocrAgent = Resting /\ Resting.at = "rest" /\ Resting \in AgentRecords
  BY DEF OcrJobsInit, Resting, AgentRecords
<1>4. RowsTypeOK
  BY <1>1, <1>3, OcrAgentJobsAssumption DEF OcrJobsInit, RowsTypeOK, JobStates, AgentRecords, RunRecords
<1>5. \A s \in Slots : CallFits(s) /\ ~AwaitedAt(s)
  BY <1>2 DEF CallFits, OfJob, Serves, AwaitedAt
<1>6. PicksFit
  BY DEF OcrJobsInit, PicksFit, PickFits, ClaimsTypeOK, NoPick
<1> QED
  BY <1>1, <1>3, <1>4, <1>5, <1>6 DEF CallsFit, AgentFits, ReviewedRunsAreComplete

-----------------------------------------------------------------------------
(* The jobs stay apart. *)

Unready == {"absent", "queued", "canceled"}

\* They do when a call goes on or ends and no job begins.
LEMMA ApartStays ==
    ASSUME JobsApart, UNCHANGED <<byAgent, mapped>>, NEW s \in Slots,
           \A t \in Slots : t # s => calls'[t] = calls[t],
           \A j \in OcrJobs : state'[j] = state[j] \/ state'[j] \in {"completed", "failed"},
           \A t \in Slots : calls[t].kind = "claim" /\ Preparing(t) => calls[t].job \in OcrJobs,
           Serves(s)' => Serves(s),
           calls'[s].kind = "claim" /\ Preparing(s)' =>
               calls[s].kind = "claim" /\ Preparing(s) /\ calls'[s].job = calls[s].job,
           calls'[s].kind \in {"page", "complete", "fail"} => calls'[s].got \subseteq mapped[calls'[s].job]
    PROVE  JobsApart'
<1>1. \A t \in Slots : Serves(t)' => Serves(t)
  BY DEF Serves
<1>2. RunningOne'
  <2>1. CASE byAgent
    BY <2>1 DEF JobsApart, RunningOne
  <2>2. CASE ~byAgent
    BY <1>1, <2>2 DEF JobsApart, RunningOne
  <2> QED
    BY <2>1, <2>2
<1>3. \A t \in Slots : calls'[t].kind = "claim" /\ Preparing(t)' =>
        calls[t].kind = "claim" /\ Preparing(t) /\ calls'[t].job = calls[t].job
  BY DEF Preparing
<1>4. \A j \in OcrJobs : state'[j] \in Unready => state'[j] = state[j]
  BY DEF Unready
<1>5. \A j \in OcrJobs : state'[j] \in Unready => mapped'[j] = {}
  BY <1>4 DEF JobsApart, PreparedOnce, Unready
<1>6. ASSUME NEW t \in Slots, calls'[t].kind = "claim", Preparing(t)'
      PROVE  /\ mapped'[calls'[t].job] = {}
             /\ state'[calls'[t].job] \notin Unready
             /\ \A u \in Slots : calls'[u].kind = "claim" /\ Preparing(u)' /\ calls'[u].job = calls'[t].job => t = u
  <2>1. calls[t].kind = "claim" /\ Preparing(t) /\ calls'[t].job = calls[t].job /\ calls[t].job \in OcrJobs
    BY <1>3, <1>6
  <2>2. mapped[calls[t].job] = {} /\ state[calls[t].job] \notin Unready
    BY <2>1 DEF JobsApart, PreparedOnce, Unready
  <2>3. \A u \in Slots : calls[u].kind = "claim" /\ Preparing(u) /\ calls[u].job = calls[t].job => t = u
    BY <2>1 DEF JobsApart, PreparedOnce
  <2> QED
    BY <1>3, <1>4, <2>1, <2>2, <2>3
<1>7. \A t \in Slots : calls'[t].kind \in {"page", "complete", "fail"} => calls'[t].got \subseteq mapped'[calls'[t].job]
  BY DEF JobsApart, PreparedOnce
<1> QED
  BY <1>2, <1>5, <1>6, <1>7 DEF JobsApart, PreparedOnce, Unready

\* Every step of a call keeps the jobs apart.
LEMMA CallKeepsApart ==
    ASSUME RowsTypeOK, PicksFit, CallsFit, JobsApart, NEW s \in Slots, CallStep(s)
    PROVE  JobsApart'
<1>0. CallFits(s) /\ \A t \in Slots : calls[t].kind = "claim" /\ Preparing(t) => calls[t].job \in OcrJobs
  BY DEF CallsFit, CallFits, OfJob, Serves, Preparing
<1>t. state \in [OcrJobs -> JobStates] /\ mapped \in [OcrJobs -> SUBSET Ids]
  BY DEF RowsTypeOK
<1>g. calls[s].kind \in {"page", "complete", "fail"} => calls[s].got \subseteq mapped[calls[s].job]
  BY DEF JobsApart, PreparedOnce
<1>1. CASE Recover(s)
  <2>1. /\ \A t \in Slots : t # s => calls'[t] = calls[t]
        /\ UNCHANGED <<byAgent, mapped>> /\ Serves(s)
    BY <1>0, <1>1, RecoverDoes DEF Serves, Preparing, Staging
  <2>2. \A j \in OcrJobs : state'[j] = state[j] \/ state'[j] \in {"completed", "failed"}
    BY <1>0, <1>t, <1>1, RecoverDoes
  <2>3. calls'[s].kind = "claim" /\ Preparing(s)' =>
          calls[s].kind = "claim" /\ Preparing(s) /\ calls'[s].job = calls[s].job
    BY <1>0, <1>1, RecoverDoes DEF CallIs, Preparing, Staging, Free
  <2>4. calls'[s].kind \in {"page", "complete", "fail"} => calls'[s].got \subseteq mapped[calls'[s].job]
    BY <1>0, <1>g, <1>1, RecoverDoes DEF CallIs, Preparing, Staging, Free
  <2> QED
    BY <1>0, <2>1, <2>2, <2>3, <2>4, ApartStays
<1>2. CASE Again(s)
  <2>1. /\ \A t \in Slots : t # s => calls'[t] = calls[t]
        /\ UNCHANGED <<byAgent, mapped>> /\ Serves(s)
    BY <1>0, <1>2, AgainDoes DEF Serves, Preparing, Staging
  <2>2. \A j \in OcrJobs : state'[j] = state[j] \/ state'[j] \in {"completed", "failed"}
    BY <1>0, <1>t, <1>2, AgainDoes
  <2>3. calls'[s].kind = "claim" /\ Preparing(s)' =>
          calls[s].kind = "claim" /\ Preparing(s) /\ calls'[s].job = calls[s].job
    BY <1>0, <1>2, AgainDoes DEF CallIs, Preparing, Staging, Free
  <2>4. calls'[s].kind \in {"page", "complete", "fail"} => calls'[s].got \subseteq mapped[calls'[s].job]
    BY <1>0, <1>g, <1>2, AgainDoes DEF CallIs, Preparing, Staging, Free
  <2> QED
    BY <1>0, <2>1, <2>2, <2>3, <2>4, ApartStays
<1>3. CASE Take(s)
  <2>1. /\ \A t \in Slots : t # s => calls'[t] = calls[t]
        /\ UNCHANGED <<byAgent, mapped>> /\ Serves(s) /\ \A k \in OcrJobs : state[k] # "running"
    BY <1>3, TakeDoes DEF Serves
  <2>2. PICK j \in OcrJobs :
          /\ state[j] = "queued" /\ state' = [state EXCEPT ![j] = "running"]
          /\ calls'[s].kind = "claim" /\ calls'[s].at = "prepare" /\ calls'[s].job = j
    BY <1>3, TakeDoes DEF CallIs
  <2>3. \A k \in OcrJobs : state'[k] = IF k = j THEN "running" ELSE state[k]
    BY <1>t, <2>2
  <2>4. RunningOne'
    BY <2>1, <2>3 DEF JobsApart, RunningOne, Serves
  <2>5. \A k \in OcrJobs : state'[k] \in Unready => mapped'[k] = {}
    BY <2>1, <2>3 DEF JobsApart, PreparedOnce, Unready
  <2>6. mapped'[j] = {} /\ state'[j] \notin Unready
    BY <2>1, <2>2, <2>3 DEF JobsApart, PreparedOnce, Unready
  <2>7. \A t \in Slots : t # s /\ calls[t].kind = "claim" /\ Preparing(t) => calls[t].job # j
    BY <2>2 DEF JobsApart, PreparedOnce
  <2>8. ASSUME NEW t \in Slots, calls'[t].kind = "claim", Preparing(t)'
        PROVE  /\ mapped'[calls'[t].job] = {}
               /\ state'[calls'[t].job] \notin Unready
               /\ \A u \in Slots : calls'[u].kind = "claim" /\ Preparing(u)' /\ calls'[u].job = calls'[t].job => t = u
    <3>1. CASE t = s
      BY <2>1, <2>2, <2>6, <2>7, <3>1 DEF Preparing
    <3>2. CASE t # s
      <4>1. calls'[t] = calls[t] /\ Preparing(t) /\ calls[t].kind = "claim" /\ calls[t].job \in OcrJobs /\ calls[t].job # j
        BY <1>0, <2>1, <2>7, <2>8, <3>2 DEF Preparing
      <4>2. mapped[calls[t].job] = {} /\ state[calls[t].job] \notin Unready
        BY <4>1 DEF JobsApart, PreparedOnce, Unready
      <4>3. \A u \in Slots : calls[u].kind = "claim" /\ Preparing(u) /\ calls[u].job = calls[t].job => t = u
        BY <4>1 DEF JobsApart, PreparedOnce
      <4>4. \A u \in Slots : u # s => (Preparing(u)' <=> Preparing(u))
        BY <2>1 DEF Preparing
      <4> QED
        BY <2>1, <2>2, <2>3, <4>1, <4>2, <4>3, <4>4
    <3> QED
      BY <3>1, <3>2
  <2>9. \A t \in Slots : calls'[t].kind \in {"page", "complete", "fail"} => calls'[t].got \subseteq mapped'[calls'[t].job]
    BY <2>1, <2>2 DEF JobsApart, PreparedOnce
  <2> QED
    BY <2>4, <2>5, <2>8, <2>9 DEF JobsApart, PreparedOnce, Unready
<1>4. CASE NothingToClaim(s)
  <2>1. /\ \A t \in Slots : t # s => calls'[t] = calls[t]
        /\ UNCHANGED <<byAgent, mapped>> /\ Serves(s)
    BY <1>0, <1>4, NothingDoes DEF Serves, Preparing, Staging
  <2>2. \A j \in OcrJobs : state'[j] = state[j] \/ state'[j] \in {"completed", "failed"}
    BY <1>0, <1>t, <1>4, NothingDoes
  <2>3. calls'[s].kind = "claim" /\ Preparing(s)' =>
          calls[s].kind = "claim" /\ Preparing(s) /\ calls'[s].job = calls[s].job
    BY <1>0, <1>4, NothingDoes DEF CallIs, Preparing, Staging, Free
  <2>4. calls'[s].kind \in {"page", "complete", "fail"} => calls'[s].got \subseteq mapped[calls'[s].job]
    BY <1>0, <1>g, <1>4, NothingDoes DEF CallIs, Preparing, Staging, Free
  <2> QED
    BY <1>0, <2>1, <2>2, <2>3, <2>4, ApartStays
<1>5. CASE Prepare(s)
  <2>1. /\ \A t \in Slots : t # s => calls'[t] = calls[t]
        /\ UNCHANGED <<byAgent, mapped>> /\ Serves(s)
    BY <1>0, <1>5, PrepareDoes DEF Serves, Preparing, Staging
  <2>2. \A j \in OcrJobs : state'[j] = state[j] \/ state'[j] \in {"completed", "failed"}
    BY <1>0, <1>t, <1>5, PrepareDoes
  <2>3. calls'[s].kind = "claim" /\ Preparing(s)' =>
          calls[s].kind = "claim" /\ Preparing(s) /\ calls'[s].job = calls[s].job
    BY <1>0, <1>5, PrepareDoes DEF CallIs, Preparing, Staging, Free
  <2>4. calls'[s].kind \in {"page", "complete", "fail"} => calls'[s].got \subseteq mapped[calls'[s].job]
    BY <1>0, <1>g, <1>5, PrepareDoes DEF CallIs, Preparing, Staging, Free
  <2> QED
    BY <1>0, <2>1, <2>2, <2>3, <2>4, ApartStays
<1>6. CASE Map(s)
  <2>1. /\ \A t \in Slots : t # s => calls'[t] = calls[t]
        /\ UNCHANGED <<byAgent, state>> /\ calls'[s].kind = "free"
        /\ calls[s].kind = "claim" /\ Preparing(s) /\ calls[s].job \in OcrJobs
        /\ mapped' = [mapped EXCEPT ![calls[s].job] = calls[s].got]
    BY <1>0, <1>6, MapDoes DEF Free
  <2>2. byAgent
    BY <1>0, <2>1 DEF CallFits, Serves
  <2>3. mapped[calls[s].job] = {} /\ state[calls[s].job] \notin Unready
    BY <2>1 DEF JobsApart, PreparedOnce, Unready
  <2>4. \A k \in OcrJobs : mapped[k] \subseteq mapped'[k] /\ (k # calls[s].job => mapped'[k] = mapped[k])
    BY <1>t, <2>1, <2>3
  <2>5. RunningOne'
    BY <2>1, <2>2 DEF JobsApart, RunningOne
  <2>6. \A k \in OcrJobs : state'[k] \in Unready => mapped'[k] = {}
    BY <2>1, <2>3, <2>4 DEF JobsApart, PreparedOnce, Unready
  <2>7. ASSUME NEW t \in Slots, calls'[t].kind = "claim", Preparing(t)'
        PROVE  /\ mapped'[calls'[t].job] = {}
               /\ state'[calls'[t].job] \notin Unready
               /\ \A u \in Slots : calls'[u].kind = "claim" /\ Preparing(u)' /\ calls'[u].job = calls'[t].job => t = u
    <3>1. t # s /\ calls'[t] = calls[t] /\ Preparing(t) /\ calls[t].kind = "claim" /\ calls[t].job \in OcrJobs
      BY <1>0, <2>1, <2>7 DEF Preparing
    <3>2. mapped[calls[t].job] = {} /\ state[calls[t].job] \notin Unready
      BY <3>1 DEF JobsApart, PreparedOnce, Unready
    <3>3. \A u \in Slots : calls[u].kind = "claim" /\ Preparing(u) /\ calls[u].job = calls[t].job => t = u
      BY <3>1 DEF JobsApart, PreparedOnce
    <3>4. \A u \in Slots : u # s => (Preparing(u)' <=> Preparing(u))
      BY <2>1 DEF Preparing
    <3> QED
      BY <2>1, <2>4, <3>1, <3>2, <3>3, <3>4
  <2>8. ASSUME NEW t \in Slots, calls'[t].kind \in {"page", "complete", "fail"}
        PROVE  calls'[t].got \subseteq mapped'[calls'[t].job]
    <3>1. t # s /\ calls'[t] = calls[t]
      BY <2>1, <2>8
    <3>2. calls[t].job \in OcrJobs
      BY <2>8, <3>1 DEF CallsFit, CallFits, OfJob, Serves
    <3>3. calls[t].got \subseteq mapped[calls[t].job]
      BY <2>8, <3>1 DEF JobsApart, PreparedOnce
    <3> QED
      BY <2>4, <3>1, <3>2, <3>3
  <2> QED
    BY <2>5, <2>6, <2>7, <2>8 DEF JobsApart, PreparedOnce, Unready
<1>7. CASE PrepareRaises(s)
  <2>1. /\ \A t \in Slots : t # s => calls'[t] = calls[t]
        /\ UNCHANGED <<byAgent, mapped>> /\ Serves(s)
    BY <1>0, <1>7, PrepareRaisesDoes DEF Serves, Preparing, Staging
  <2>2. \A j \in OcrJobs : state'[j] = state[j] \/ state'[j] \in {"completed", "failed"}
    BY <1>0, <1>t, <1>7, PrepareRaisesDoes
  <2>3. calls'[s].kind = "claim" /\ Preparing(s)' =>
          calls[s].kind = "claim" /\ Preparing(s) /\ calls'[s].job = calls[s].job
    BY <1>0, <1>7, PrepareRaisesDoes DEF CallIs, Preparing, Staging, Free
  <2>4. calls'[s].kind \in {"page", "complete", "fail"} => calls'[s].got \subseteq mapped[calls'[s].job]
    BY <1>0, <1>g, <1>7, PrepareRaisesDoes DEF CallIs, Preparing, Staging, Free
  <2> QED
    BY <1>0, <2>1, <2>2, <2>3, <2>4, ApartStays
<1>8. CASE Admit(s)
  <2>1. /\ \A t \in Slots : t # s => calls'[t] = calls[t]
        /\ UNCHANGED <<byAgent, mapped>> /\ Serves(s)
    BY <1>0, <1>8, AdmitDoes DEF Serves, Preparing, Staging
  <2>2. \A j \in OcrJobs : state'[j] = state[j] \/ state'[j] \in {"completed", "failed"}
    BY <1>0, <1>t, <1>8, AdmitDoes
  <2>3. calls'[s].kind = "claim" /\ Preparing(s)' =>
          calls[s].kind = "claim" /\ Preparing(s) /\ calls'[s].job = calls[s].job
    BY <1>0, <1>8, AdmitDoes DEF CallIs, Preparing, Staging, Free
  <2>4. calls'[s].kind \in {"page", "complete", "fail"} => calls'[s].got \subseteq mapped[calls'[s].job]
    BY <1>0, <1>g, <1>8, AdmitDoes DEF CallIs, Preparing, Staging, Free
  <2> QED
    BY <1>0, <2>1, <2>2, <2>3, <2>4, ApartStays
<1>9. CASE SavePage(s)
  <2>1. /\ \A t \in Slots : t # s => calls'[t] = calls[t]
        /\ UNCHANGED <<byAgent, mapped>> /\ Serves(s)
    BY <1>0, <1>9, SavePageDoes DEF Serves, Preparing, Staging
  <2>2. \A j \in OcrJobs : state'[j] = state[j] \/ state'[j] \in {"completed", "failed"}
    BY <1>0, <1>t, <1>9, SavePageDoes
  <2>3. calls'[s].kind = "claim" /\ Preparing(s)' =>
          calls[s].kind = "claim" /\ Preparing(s) /\ calls'[s].job = calls[s].job
    BY <1>0, <1>9, SavePageDoes DEF CallIs, Preparing, Staging, Free
  <2>4. calls'[s].kind \in {"page", "complete", "fail"} => calls'[s].got \subseteq mapped[calls'[s].job]
    BY <1>0, <1>g, <1>9, SavePageDoes DEF CallIs, Preparing, Staging, Free
  <2> QED
    BY <1>0, <2>1, <2>2, <2>3, <2>4, ApartStays
<1>10. CASE StageNext(s)
  <2>1. /\ \A t \in Slots : t # s => calls'[t] = calls[t]
        /\ UNCHANGED <<byAgent, mapped>> /\ Serves(s)
    BY <1>0, <1>10, StageNextDoes DEF Serves, Preparing, Staging
  <2>2. \A j \in OcrJobs : state'[j] = state[j] \/ state'[j] \in {"completed", "failed"}
    BY <1>0, <1>t, <1>10, StageNextDoes
  <2>3. calls'[s].kind = "claim" /\ Preparing(s)' =>
          calls[s].kind = "claim" /\ Preparing(s) /\ calls'[s].job = calls[s].job
    BY <1>0, <1>10, StageNextDoes DEF CallIs, Preparing, Staging, Free
  <2>4. calls'[s].kind \in {"page", "complete", "fail"} => calls'[s].got \subseteq mapped[calls'[s].job]
    BY <1>0, <1>g, <1>10, StageNextDoes DEF CallIs, Preparing, Staging, Free
  <2> QED
    BY <1>0, <2>1, <2>2, <2>3, <2>4, ApartStays
<1>11. CASE StageRaises(s)
  <2>1. /\ \A t \in Slots : t # s => calls'[t] = calls[t]
        /\ UNCHANGED <<byAgent, mapped>> /\ Serves(s)
    BY <1>0, <1>11, StageRaisesDoes DEF Serves, Preparing, Staging
  <2>2. \A j \in OcrJobs : state'[j] = state[j] \/ state'[j] \in {"completed", "failed"}
    BY <1>0, <1>t, <1>11, StageRaisesDoes
  <2>3. calls'[s].kind = "claim" /\ Preparing(s)' =>
          calls[s].kind = "claim" /\ Preparing(s) /\ calls'[s].job = calls[s].job
    BY <1>0, <1>11, StageRaisesDoes DEF CallIs, Preparing, Staging, Free
  <2>4. calls'[s].kind \in {"page", "complete", "fail"} => calls'[s].got \subseteq mapped[calls'[s].job]
    BY <1>0, <1>g, <1>11, StageRaisesDoes DEF CallIs, Preparing, Staging, Free
  <2> QED
    BY <1>0, <2>1, <2>2, <2>3, <2>4, ApartStays
<1>12. CASE FinishComplete(s)
  <2>1. /\ \A t \in Slots : t # s => calls'[t] = calls[t]
        /\ UNCHANGED <<byAgent, mapped>> /\ Serves(s)
    BY <1>0, <1>12, FinishCompleteDoes DEF Serves, Preparing, Staging
  <2>2. \A j \in OcrJobs : state'[j] = state[j] \/ state'[j] \in {"completed", "failed"}
    BY <1>0, <1>t, <1>12, FinishCompleteDoes
  <2>3. calls'[s].kind = "claim" /\ Preparing(s)' =>
          calls[s].kind = "claim" /\ Preparing(s) /\ calls'[s].job = calls[s].job
    BY <1>0, <1>12, FinishCompleteDoes DEF CallIs, Preparing, Staging, Free
  <2>4. calls'[s].kind \in {"page", "complete", "fail"} => calls'[s].got \subseteq mapped[calls'[s].job]
    BY <1>0, <1>g, <1>12, FinishCompleteDoes DEF CallIs, Preparing, Staging, Free
  <2> QED
    BY <1>0, <2>1, <2>2, <2>3, <2>4, ApartStays
<1>13. CASE MarkFailed(s)
  <2>1. /\ \A t \in Slots : t # s => calls'[t] = calls[t]
        /\ UNCHANGED <<byAgent, mapped>> /\ Serves(s)
    BY <1>0, <1>13, MarkFailedDoes DEF Serves, Preparing, Staging
  <2>2. \A j \in OcrJobs : state'[j] = state[j] \/ state'[j] \in {"completed", "failed"}
    BY <1>0, <1>t, <1>13, MarkFailedDoes
  <2>3. calls'[s].kind = "claim" /\ Preparing(s)' =>
          calls[s].kind = "claim" /\ Preparing(s) /\ calls'[s].job = calls[s].job
    BY <1>0, <1>13, MarkFailedDoes DEF CallIs, Preparing, Staging, Free
  <2>4. calls'[s].kind \in {"page", "complete", "fail"} => calls'[s].got \subseteq mapped[calls'[s].job]
    BY <1>0, <1>g, <1>13, MarkFailedDoes DEF CallIs, Preparing, Staging, Free
  <2> QED
    BY <1>0, <2>1, <2>2, <2>3, <2>4, ApartStays
<1>14. CASE FinishFail(s)
  <2>1. /\ \A t \in Slots : t # s => calls'[t] = calls[t]
        /\ UNCHANGED <<byAgent, mapped>> /\ Serves(s)
    BY <1>0, <1>14, FinishFailDoes DEF Serves, Preparing, Staging
  <2>2. \A j \in OcrJobs : state'[j] = state[j] \/ state'[j] \in {"completed", "failed"}
    BY <1>0, <1>t, <1>14, FinishFailDoes
  <2>3. calls'[s].kind = "claim" /\ Preparing(s)' =>
          calls[s].kind = "claim" /\ Preparing(s) /\ calls'[s].job = calls[s].job
    BY <1>0, <1>14, FinishFailDoes DEF CallIs, Preparing, Staging, Free
  <2>4. calls'[s].kind \in {"page", "complete", "fail"} => calls'[s].got \subseteq mapped[calls'[s].job]
    BY <1>0, <1>g, <1>14, FinishFailDoes DEF CallIs, Preparing, Staging, Free
  <2> QED
    BY <1>0, <2>1, <2>2, <2>3, <2>4, ApartStays
<1>15. CASE WorkerTake(s)
  <2>1. /\ \A t \in Slots : t # s => calls'[t] = calls[t]
        /\ UNCHANGED <<byAgent, mapped>> /\ ~byAgent /\ \A t \in Slots : ~Serves(t)
    BY <1>15, WorkerTakeDoes
  <2>2. PICK j \in OcrJobs : state[j] = "queued" /\ state' = [state EXCEPT ![j] = "running"] /\ calls'[s].kind = "worker"
    BY <1>15, WorkerTakeDoes DEF CallIs
  <2>3. \A k \in OcrJobs : mapped[k] = {}
    BY <2>1 DEF JobsApart, RunningOne
  <2>4. \A t \in Slots : t # s => ~Serves(t)' /\ calls'[t].kind = "free"
    BY <2>1 DEF Serves
  <2>5. RunningOne'
    BY <2>1, <2>3, <2>4 DEF RunningOne
  <2>6. \A t \in Slots : calls'[t].kind \notin {"claim", "page", "complete", "fail"}
    BY <2>2, <2>4
  <2> QED
    BY <2>1, <2>3, <2>5, <2>6 DEF JobsApart, PreparedOnce
<1>16. CASE WorkerReads(s)
  <2>1. /\ \A t \in Slots : t # s => calls'[t] = calls[t]
        /\ UNCHANGED <<byAgent, mapped>> /\ Serves(s)
    BY <1>0, <1>16, WorkerReadsDoes DEF Serves, Preparing, Staging
  <2>2. \A j \in OcrJobs : state'[j] = state[j] \/ state'[j] \in {"completed", "failed"}
    BY <1>0, <1>t, <1>16, WorkerReadsDoes
  <2>3. calls'[s].kind = "claim" /\ Preparing(s)' =>
          calls[s].kind = "claim" /\ Preparing(s) /\ calls'[s].job = calls[s].job
    BY <1>0, <1>16, WorkerReadsDoes DEF CallIs, Preparing, Staging, Free
  <2>4. calls'[s].kind \in {"page", "complete", "fail"} => calls'[s].got \subseteq mapped[calls'[s].job]
    BY <1>0, <1>g, <1>16, WorkerReadsDoes DEF CallIs, Preparing, Staging, Free
  <2> QED
    BY <1>0, <2>1, <2>2, <2>3, <2>4, ApartStays
<1>17. CASE WorkerPage(s)
  <2>1. /\ \A t \in Slots : t # s => calls'[t] = calls[t]
        /\ UNCHANGED <<byAgent, mapped>> /\ Serves(s)
    BY <1>0, <1>17, WorkerPageDoes DEF Serves, Preparing, Staging
  <2>2. \A j \in OcrJobs : state'[j] = state[j] \/ state'[j] \in {"completed", "failed"}
    BY <1>0, <1>t, <1>17, WorkerPageDoes
  <2>3. calls'[s].kind = "claim" /\ Preparing(s)' =>
          calls[s].kind = "claim" /\ Preparing(s) /\ calls'[s].job = calls[s].job
    BY <1>0, <1>17, WorkerPageDoes DEF CallIs, Preparing, Staging, Free
  <2>4. calls'[s].kind \in {"page", "complete", "fail"} => calls'[s].got \subseteq mapped[calls'[s].job]
    BY <1>0, <1>g, <1>17, WorkerPageDoes DEF CallIs, Preparing, Staging, Free
  <2> QED
    BY <1>0, <2>1, <2>2, <2>3, <2>4, ApartStays
<1>18. CASE WorkerRaises(s)
  <2>1. /\ \A t \in Slots : t # s => calls'[t] = calls[t]
        /\ UNCHANGED <<byAgent, mapped>> /\ Serves(s)
    BY <1>0, <1>18, WorkerRaisesDoes DEF Serves, Preparing, Staging
  <2>2. \A j \in OcrJobs : state'[j] = state[j] \/ state'[j] \in {"completed", "failed"}
    BY <1>0, <1>t, <1>18, WorkerRaisesDoes
  <2>3. calls'[s].kind = "claim" /\ Preparing(s)' =>
          calls[s].kind = "claim" /\ Preparing(s) /\ calls'[s].job = calls[s].job
    BY <1>0, <1>18, WorkerRaisesDoes DEF CallIs, Preparing, Staging, Free
  <2>4. calls'[s].kind \in {"page", "complete", "fail"} => calls'[s].got \subseteq mapped[calls'[s].job]
    BY <1>0, <1>g, <1>18, WorkerRaisesDoes DEF CallIs, Preparing, Staging, Free
  <2> QED
    BY <1>0, <2>1, <2>2, <2>3, <2>4, ApartStays
<1>19. CASE WorkerStage(s)
  <2>1. /\ \A t \in Slots : t # s => calls'[t] = calls[t]
        /\ UNCHANGED <<byAgent, mapped>> /\ Serves(s)
    BY <1>0, <1>19, WorkerStageDoes DEF Serves, Preparing, Staging
  <2>2. \A j \in OcrJobs : state'[j] = state[j] \/ state'[j] \in {"completed", "failed"}
    BY <1>0, <1>t, <1>19, WorkerStageDoes
  <2>3. calls'[s].kind = "claim" /\ Preparing(s)' =>
          calls[s].kind = "claim" /\ Preparing(s) /\ calls'[s].job = calls[s].job
    BY <1>0, <1>19, WorkerStageDoes DEF CallIs, Preparing, Staging, Free
  <2>4. calls'[s].kind \in {"page", "complete", "fail"} => calls'[s].got \subseteq mapped[calls'[s].job]
    BY <1>0, <1>g, <1>19, WorkerStageDoes DEF CallIs, Preparing, Staging, Free
  <2> QED
    BY <1>0, <2>1, <2>2, <2>3, <2>4, ApartStays
<1>20. CASE WorkerEnds(s)
  <2>1. /\ \A t \in Slots : t # s => calls'[t] = calls[t]
        /\ UNCHANGED <<byAgent, mapped>> /\ Serves(s)
    BY <1>0, <1>20, WorkerEndsDoes DEF Serves, Preparing, Staging
  <2>2. \A j \in OcrJobs : state'[j] = state[j] \/ state'[j] \in {"completed", "failed"}
    BY <1>0, <1>t, <1>20, WorkerEndsDoes
  <2>3. calls'[s].kind = "claim" /\ Preparing(s)' =>
          calls[s].kind = "claim" /\ Preparing(s) /\ calls'[s].job = calls[s].job
    BY <1>0, <1>20, WorkerEndsDoes DEF CallIs, Preparing, Staging, Free
  <2>4. calls'[s].kind \in {"page", "complete", "fail"} => calls'[s].got \subseteq mapped[calls'[s].job]
    BY <1>0, <1>g, <1>20, WorkerEndsDoes DEF CallIs, Preparing, Staging, Free
  <2> QED
    BY <1>0, <2>1, <2>2, <2>3, <2>4, ApartStays
<1> QED
  BY <1>1, <1>2, <1>3, <1>4, <1>5, <1>6, <1>7, <1>8, <1>9, <1>10, <1>11, <1>12, <1>13, <1>14, <1>15, <1>16, <1>17, <1>18, <1>19, <1>20 DEF CallStep

\* Every step keeps the jobs apart.
LEMMA StepKeepsApart ==
    ASSUME RowsTypeOK, PicksFit, CallsFit, JobsApart, [OcrJobsNext]_ocrJobsVars
    PROVE  JobsApart'
<1>t. state \in [OcrJobs -> JobStates]
  BY DEF RowsTypeOK
<1>j. \A t \in Slots : calls[t].kind = "claim" /\ Preparing(t) => calls[t].job \in OcrJobs
  BY DEF CallsFit, CallFits, OfJob, Serves, Preparing
<1>1. CASE UserStep
  <2>1. UNCHANGED <<byAgent, mapped, calls>>
    BY <1>1, UserDoes
  <2>2. \A j \in OcrJobs : \/ state'[j] = state[j]
                           \/ state[j] \in Unready /\ state'[j] \in {"queued", "canceled"}
    BY <1>1, UserDoes DEF Unready
  <2>3. RunningOne'
    BY <2>1, <2>2 DEF JobsApart, RunningOne, Serves
  <2>4. \A j \in OcrJobs : state'[j] \in Unready => mapped'[j] = {}
    BY <2>1, <2>2 DEF JobsApart, PreparedOnce, Unready
  <2>5. \A s \in Slots : calls'[s].kind = "claim" /\ Preparing(s)' => state'[calls'[s].job] \notin Unready
    BY <1>j, <2>1, <2>2 DEF JobsApart, PreparedOnce, Unready, Preparing
  <2> QED
    BY <2>1, <2>3, <2>4, <2>5 DEF JobsApart, PreparedOnce, Unready, Preparing
<1>2. CASE Aside
  <2>1. UNCHANGED <<byAgent, state, mapped, calls>>
    BY <1>2, AgentOnlyDoes
  <2> QED
    BY <2>1 DEF JobsApart, RunningOne, PreparedOnce, Serves, Preparing
<1>3. CASE OcrRestart
  <2>1. /\ UNCHANGED <<byAgent, mapped>> /\ \A s \in Slots : calls'[s].kind = "free"
        /\ \A j \in OcrJobs : state'[j] = IF state[j] = "running" THEN "failed" ELSE state[j]
    BY <1>3, RestartDoes DEF Serves
  <2>2. \A j \in OcrJobs : state'[j] # "running" /\ (state'[j] \in Unready => mapped'[j] = {})
    BY <2>1 DEF JobsApart, PreparedOnce, Unready
  <2>3. ~byAgent => \A j \in OcrJobs : mapped[j] = {}
    BY DEF JobsApart, RunningOne
  <2> QED
    BY <2>1, <2>2, <2>3 DEF JobsApart, RunningOne, PreparedOnce, Serves, Unready
<1>4. ASSUME NEW kind, NEW books, Posting(kind, books) PROVE JobsApart'
  <2>1. byAgent /\ UNCHANGED <<byAgent, state, mapped>> /\ kind \in {"claim", "page", "complete", "fail"}
    BY <1>4, PostDoes DEF Posting
  <2>2. PICK s \in Slots :
          /\ \A t \in Slots : t # s => calls'[t] = calls[t]
          /\ CallIs(calls'[s], kind, IF kind = "claim" THEN "recover" ELSE "check", ocrAgent.job, books, {}, FALSE, TRUE)
    BY <1>4, PostDoes DEF Posting
  <2>3. \A t \in Slots : calls'[t].kind = "claim" /\ Preparing(t)' => t # s /\ Preparing(t)
    BY <2>2 DEF CallIs, Preparing
  <2>4. RunningOne'
    BY <2>1 DEF JobsApart, RunningOne
  <2>5. \A t \in Slots : calls'[t].kind \in {"page", "complete", "fail"} => calls'[t].got \subseteq mapped'[calls'[t].job]
    BY <2>1, <2>2 DEF JobsApart, PreparedOnce, CallIs
  <2> QED
    BY <2>1, <2>2, <2>3, <2>4, <2>5 DEF JobsApart, PreparedOnce
<1>5. ASSUME NEW after \in AgentRecords, Leaving(after) PROVE JobsApart'
  <2>1. /\ byAgent /\ UNCHANGED <<byAgent, state, mapped>>
        /\ \A s \in Slots : IF AwaitedAt(s)
                            THEN CallIs(calls'[s], calls[s].kind, calls[s].at, calls[s].job, calls[s].todo,
                                        calls[s].got, calls[s].bad, FALSE)
                            ELSE calls'[s] = calls[s]
    BY <1>5, AbandonDoes DEF Leaving
  <2>2. \A s \in Slots : /\ calls'[s].kind = calls[s].kind
                         /\ Serves(s) => calls'[s].job = calls[s].job /\ calls'[s].got = calls[s].got
                                         /\ (Preparing(s)' <=> Preparing(s))
    BY <2>1 DEF CallIs, Preparing
  <2>3. RunningOne'
    BY <2>1 DEF JobsApart, RunningOne
  <2>4. \A s \in Slots : calls[s].kind \in {"claim", "page", "complete", "fail"} => Serves(s)
    BY DEF Serves
  <2>5. \A t \in Slots : calls'[t].kind \in {"page", "complete", "fail"} => calls'[t].got \subseteq mapped'[calls'[t].job]
    BY <2>1, <2>2, <2>4 DEF JobsApart, PreparedOnce
  <2> QED
    BY <2>1, <2>2, <2>3, <2>4, <2>5 DEF JobsApart, PreparedOnce
<1>6. ASSUME NEW s \in Slots, CallStep(s) PROVE JobsApart'
  BY <1>6, CallKeepsApart
<1>7. CASE UNCHANGED ocrJobsVars
  <2>1. UNCHANGED <<byAgent, state, mapped, calls>>
    BY <1>7 DEF ocrJobsVars, jobVars
  <2> QED
    BY <2>1 DEF JobsApart, RunningOne, PreparedOnce, Serves, Preparing
<1> QED
  BY <1>1, <1>2, <1>3, <1>4, <1>5, <1>6, <1>7, StepKinds

-----------------------------------------------------------------------------
(* A run in review rests. *)

\* The runs of a job are written down once.
LEMMA MappedGrows ==
    ASSUME RowsTypeOK, PicksFit, CallsFit, JobsApart, [OcrJobsNext]_ocrJobsVars
    PROVE  /\ \A j \in OcrJobs : mapped[j] \subseteq mapped'[j]
           /\ byAgent' = byAgent
<1>1. ASSUME NEW s \in Slots, CallStep(s)
      PROVE  (\A j \in OcrJobs : mapped[j] \subseteq mapped'[j]) /\ byAgent' = byAgent
  <2>0. CallFits(s)
    BY DEF CallsFit
  <2>1. CASE Recover(s)
    BY <2>0, <2>1, RecoverDoes
  <2>2. CASE Again(s)
    BY <2>0, <2>2, AgainDoes
  <2>3. CASE Take(s)
    BY <2>0, <2>3, TakeDoes
  <2>4. CASE NothingToClaim(s)
    BY <2>0, <2>4, NothingDoes
  <2>5. CASE Prepare(s)
    BY <2>0, <2>5, PrepareDoes
  <2>6. CASE Map(s)
    <3>1. /\ calls[s].kind = "claim" /\ Preparing(s) /\ byAgent' = byAgent
          /\ mapped' = [mapped EXCEPT ![calls[s].job] = calls[s].got]
      BY <2>0, <2>6, MapDoes
    <3>2. mapped[calls[s].job] = {}
      BY <3>1 DEF JobsApart, PreparedOnce
    <3> QED
      BY <3>1, <3>2 DEF RowsTypeOK
  <2>7. CASE PrepareRaises(s)
    BY <2>0, <2>7, PrepareRaisesDoes
  <2>8. CASE Admit(s)
    BY <2>0, <2>8, AdmitDoes
  <2>9. CASE SavePage(s)
    BY <2>0, <2>9, SavePageDoes
  <2>10. CASE StageNext(s)
    BY <2>0, <2>10, StageNextDoes
  <2>11. CASE StageRaises(s)
    BY <2>0, <2>11, StageRaisesDoes
  <2>12. CASE FinishComplete(s)
    BY <2>0, <2>12, FinishCompleteDoes
  <2>13. CASE MarkFailed(s)
    BY <2>0, <2>13, MarkFailedDoes
  <2>14. CASE FinishFail(s)
    BY <2>0, <2>14, FinishFailDoes
  <2>15. CASE WorkerTake(s)
    BY <2>0, <2>15, WorkerTakeDoes
  <2>16. CASE WorkerReads(s)
    BY <2>0, <2>16, WorkerReadsDoes
  <2>17. CASE WorkerPage(s)
    BY <2>0, <2>17, WorkerPageDoes
  <2>18. CASE WorkerRaises(s)
    BY <2>0, <2>18, WorkerRaisesDoes
  <2>19. CASE WorkerStage(s)
    BY <2>0, <2>19, WorkerStageDoes
  <2>20. CASE WorkerEnds(s)
    BY <2>0, <2>20, WorkerEndsDoes
  <2> QED
    BY <1>1, <2>1, <2>2, <2>3, <2>4, <2>5, <2>6, <2>7, <2>8, <2>9, <2>10, <2>11, <2>12, <2>13, <2>14, <2>15, <2>16, <2>17, <2>18, <2>19, <2>20 DEF CallStep
<1>2. CASE UNCHANGED ocrJobsVars
  BY <1>2 DEF ocrJobsVars, jobVars
<1>3. ASSUME NEW kind, NEW books, Posting(kind, books) PROVE UNCHANGED <<byAgent, mapped>>
  BY <1>3, PostDoes DEF Posting
<1>4. ASSUME NEW after \in AgentRecords, Leaving(after) PROVE UNCHANGED <<byAgent, mapped>>
  BY <1>4, AbandonDoes DEF Leaving
<1>5. UserStep \/ Aside \/ OcrRestart => UNCHANGED <<byAgent, mapped>>
  BY UserDoes, AgentOnlyDoes, RestartDoes
<1> QED
  BY <1>1, <1>2, <1>3, <1>4, <1>5, StepKinds

\* What a step does to what prepare_run has read, and to what it has taken.
LEMMA PickMoves ==
    ASSUME [OcrJobsNext]_ocrJobsVars
    PROVE  \/ UNCHANGED claimVars
           \/ \E s \in Slots : Select(s) \/ Prepare(s)
           \/ (\E s \in Slots : Unpick(s)) /\ taken' = taken
           \/ picked' = [s \in Slots |-> NoPick] /\ taken' = taken
<1>1. UserStep => UNCHANGED claimVars
  BY DEF UserStep, Enqueue, Cancel, Lapse, Approve
<1>2. AgentStep => UNCHANGED claimVars
  BY DEF AgentStep, PostClaim, PostPage, PostComplete, PostFail, OcrPost, PageRaises, PostHeartbeat
<1>3. GiveUp \/ CrashAgent => UNCHANGED claimVars
  BY DEF GiveUp, CrashAgent, Abandon
<1>4. OcrRestart => picked' = [s \in Slots |-> NoPick] /\ taken' = taken
  BY DEF OcrRestart
<1>5. ASSUME NEW s \in Slots, CallStep(s)
      PROVE  UNCHANGED claimVars \/ Prepare(s) \/ (Unpick(s) /\ taken' = taken)
  <2>1. Recover(s) \/ Again(s) \/ Take(s) \/ NothingToClaim(s) \/ Map(s) => UNCHANGED claimVars
    BY DEF Recover, Again, Take, NothingToClaim, Map
  <2>2. PrepareRaises(s) \/ WorkerRaises(s) => Unpick(s) /\ taken' = taken
    BY DEF PrepareRaises, WorkerRaises
  <2>3. Admit(s) \/ SavePage(s) \/ StageNext(s) \/ StageRaises(s) \/ FinishComplete(s) => UNCHANGED claimVars
    BY DEF Admit, SavePage, StageNext, StageRaises, FinishComplete
  <2>4. MarkFailed(s) \/ FinishFail(s) \/ WorkerTake(s) \/ WorkerReads(s) => UNCHANGED claimVars
    BY DEF MarkFailed, FinishFail, WorkerTake, WorkerReads
  <2>5. WorkerPage(s) \/ WorkerStage(s) \/ WorkerEnds(s) => UNCHANGED claimVars
    BY DEF WorkerPage, WorkerStage, WorkerEnds
  <2> QED
    BY <1>5, <2>1, <2>2, <2>3, <2>4, <2>5 DEF CallStep
<1>6. UNCHANGED ocrJobsVars => UNCHANGED claimVars
  BY DEF ocrJobsVars
<1> QED
  BY <1>1, <1>2, <1>3, <1>4, <1>5, <1>6 DEF OcrJobsNext

\* A run that was taken for a job counts as taken from then on.
LEMMA TakenGrows ==
    ASSUME PicksFit, [OcrJobsNext]_ocrJobsVars, NEW j \in OcrJobs
    PROVE  taken[j] \subseteq taken'[j]
<1>1. \/ taken' = taken
      \/ \E s \in Slots : \E r : taken' = [taken EXCEPT ![calls[s].job] = @ \cup {r}]
  BY PickMoves DEF claimVars, Select, Prepare
<1>2. taken \in [OcrJobs -> SUBSET Ids]
  BY DEF PicksFit, ClaimsTypeOK
<1> QED
  BY <1>1, <1>2

\* Once a stray job has a run, it stays so.
LEMMA DisturbedStays ==
    ASSUME RowsTypeOK, PicksFit, CallsFit, JobsApart, [OcrJobsNext]_ocrJobsVars, NEW r
    PROVE  Disturbed(r) => Disturbed(r)'
BY MappedGrows, TakenGrows, StepMovesRuns DEF Disturbed, RunsMove, RowsTypeOK

\* A call that is not awaited, or that is cut short, is of a stray job.
LEMMA UnawaitedIsStray ==
    ASSUME CallsFit, NEW s \in Slots, byAgent, OfJob(s), ~calls[s].awaited
    PROVE  calls[s].job \in strayed
BY DEF CallsFit, CallFits

\* No completion or failure of a running job in order meets a run in review.
LEMMA NotAtHand ==
    ASSUME CallsFit, NEW r, Untouched(r), InPeace(r), NEW s \in Slots, calls[s].kind \in {"complete", "fail"},
           calls[s].at = "check", state[calls[s].job] = "running"
    PROVE  r \notin mapped[calls[s].job]
<1> SUFFICES ASSUME r \in mapped[calls[s].job] PROVE FALSE
  OBVIOUS
<1>1. OfJob(s) /\ Serves(s) /\ calls[s].job \in OcrJobs /\ byAgent
  BY DEF CallsFit, CallFits, OfJob, Serves
<1>2. PICK t \in Slots : Staging(t) /\ AwaitedAt(t)
  BY <1>1 DEF InPeace
<1>3. ~calls[s].awaited
  BY <1>1, <1>2 DEF CallsFit, AgentFits, AwaitedAt, Staging
<1>4. calls[s].job \in strayed
  BY <1>1, <1>3, UnawaitedIsStray
<1> QED
  BY <1>1, <1>4 DEF Untouched, Disturbed

\* A run rests while no call takes it up and no job begins that has it.
LEMMA RestStays ==
    ASSUME NEW r, InPeace(r), ~Disturbed(r)', strayed \subseteq strayed', NEW s \in Slots,
           \A t \in Slots : t # s => calls'[t] = calls[t],
           Serves(s)' /\ r \in calls'[s].got =>
               \/ calls'[s].kind = "page"
               \/ Serves(s) /\ r \in calls[s].got /\ calls'[s].kind = calls[s].kind /\ calls'[s].job = calls[s].job,
           \A j \in OcrJobs : state'[j] = "running" /\ r \in mapped'[j] => state[j] = "running" /\ r \in mapped[j],
           Staging(s) /\ AwaitedAt(s) =>
               \/ Staging(s)' /\ AwaitedAt(s)' /\ calls'[s].job = calls[s].job
               \/ state'[calls[s].job] # "running"
               \/ calls[s].job \in strayed'
    PROVE  InPeace(r)'
<1>1. ASSUME NEW t \in Slots, Serves(t)', r \in calls'[t].got
      PROVE  calls'[t].kind = "page" \/ (calls'[t].kind = "claim" /\ calls'[t].job \in strayed')
  BY <1>1 DEF InPeace, Serves
<1>2. ASSUME NEW j \in OcrJobs, state'[j] = "running", r \in mapped'[j]
      PROVE  \E t \in Slots : Staging(t)' /\ AwaitedAt(t)' /\ calls'[t].job = j
  <2>1. PICK t \in Slots : Staging(t) /\ AwaitedAt(t) /\ calls[t].job = j
    BY <1>2 DEF InPeace
  <2>2. CASE t = s
    <3>1. j \notin strayed'
      BY <1>2 DEF Disturbed
    <3> QED
      BY <1>2, <2>1, <2>2, <3>1
  <2>3. CASE t # s
    BY <2>1, <2>3 DEF Staging, AwaitedAt, Serves
  <2> QED
    BY <2>2, <2>3
<1> QED
  BY <1>1, <1>2 DEF InPeace

\* A step of a call leaves a run in review at rest.
LEMMA CallLeavesRest ==
    ASSUME RowsTypeOK, PicksFit, CallsFit, JobsApart, NEW r \in Ids, Untouched(r), InPeace(r), ~Disturbed(r)',
           NEW s \in Slots, CallStep(s)
    PROVE  InPeace(r)' /\ runs'[r].state = runs[r].state
<1>0. CallFits(s)
  BY DEF CallsFit
<1>t. state \in [OcrJobs -> JobStates] /\ mapped \in [OcrJobs -> SUBSET Ids] /\ runs[r].state \notin {"running", "failed"}
  BY DEF RowsTypeOK, Untouched, InReview
<1>g. ~(Serves(s) /\ calls[s].kind \in {"complete", "fail", "worker"} /\ r \in calls[s].got)
  BY DEF InPeace
<1>1. CASE Recover(s)
  <2>1. strayed \subseteq strayed' /\ \A t \in Slots : t # s => calls'[t] = calls[t]
    BY <1>0, <1>1, RecoverDoes
  <2>2. Serves(s)' /\ r \in calls'[s].got =>
          \/ calls'[s].kind = "page"
          \/ Serves(s) /\ r \in calls[s].got /\ calls'[s].kind = calls[s].kind /\ calls'[s].job = calls[s].job
    BY <1>0, <1>1, RecoverDoes DEF CallFits, CallIs, Staging, Preparing, Serves, Free, AwaitedAt
  <2>3. \A j \in OcrJobs : state'[j] = "running" /\ r \in mapped'[j] => state[j] = "running" /\ r \in mapped[j]
    BY <1>0, <1>t, <1>1, RecoverDoes
  <2>4. Staging(s) /\ AwaitedAt(s) =>
          \/ Staging(s)' /\ AwaitedAt(s)' /\ calls'[s].job = calls[s].job
          \/ state'[calls[s].job] # "running"
          \/ calls[s].job \in strayed'
    BY <1>0, <1>t, <1>1, RecoverDoes DEF CallIs, Staging, Preparing, Serves, Free, AwaitedAt
  <2>5. runs'[r].state = runs[r].state
    <3> SUFFICES ASSUME NEW j \in OcrJobs, state[j] = "running", ~fresh[j], r \in mapped[j] PROVE FALSE
      BY <1>1, RecoverDoes
    <3>1. PICK t \in Slots : Staging(t) /\ AwaitedAt(t)
      BY DEF InPeace
    <3>2. calls[s].kind = "claim" /\ mapped' = mapped /\ (~calls[s].awaited => j \in strayed')
      BY <1>1, RecoverDoes
    <3>3. ~calls[s].awaited
      BY <3>1, <3>2 DEF CallsFit, AgentFits, AwaitedAt, Staging, Serves
    <3> QED
      BY <3>2, <3>3 DEF Disturbed
  <2> QED
    BY <2>1, <2>2, <2>3, <2>4, <2>5, RestStays
<1>2. CASE Again(s)
  <2>1. strayed \subseteq strayed' /\ \A t \in Slots : t # s => calls'[t] = calls[t]
    BY <1>0, <1>2, AgainDoes
  <2>2. Serves(s)' /\ r \in calls'[s].got =>
          \/ calls'[s].kind = "page"
          \/ Serves(s) /\ r \in calls[s].got /\ calls'[s].kind = calls[s].kind /\ calls'[s].job = calls[s].job
    BY <1>0, <1>2, AgainDoes DEF CallFits, CallIs, Staging, Preparing, Serves, Free, AwaitedAt
  <2>3. \A j \in OcrJobs : state'[j] = "running" /\ r \in mapped'[j] => state[j] = "running" /\ r \in mapped[j]
    BY <1>0, <1>t, <1>2, AgainDoes
  <2>4. Staging(s) /\ AwaitedAt(s) =>
          \/ Staging(s)' /\ AwaitedAt(s)' /\ calls'[s].job = calls[s].job
          \/ state'[calls[s].job] # "running"
          \/ calls[s].job \in strayed'
    BY <1>0, <1>t, <1>2, AgainDoes DEF CallIs, Staging, Preparing, Serves, Free, AwaitedAt
  <2>5. runs'[r].state = runs[r].state
    BY <1>0, <1>g, <1>2, AgainDoes DEF Staging, Serves
  <2> QED
    BY <2>1, <2>2, <2>3, <2>4, <2>5, RestStays
<1>3. CASE Take(s)
  <2>1. strayed \subseteq strayed' /\ \A t \in Slots : t # s => calls'[t] = calls[t]
    BY <1>0, <1>3, TakeDoes
  <2>2. Serves(s)' /\ r \in calls'[s].got =>
          \/ calls'[s].kind = "page"
          \/ Serves(s) /\ r \in calls[s].got /\ calls'[s].kind = calls[s].kind /\ calls'[s].job = calls[s].job
    BY <1>0, <1>3, TakeDoes DEF CallFits, CallIs, Staging, Preparing, Serves, Free, AwaitedAt
  <2>3. \A j \in OcrJobs : state'[j] = "running" /\ r \in mapped'[j] => state[j] = "running" /\ r \in mapped[j]
    <3>1. PICK k \in OcrJobs : state[k] = "queued" /\ state' = [state EXCEPT ![k] = "running"] /\ mapped' = mapped
      BY <1>3, TakeDoes
    <3>2. mapped[k] = {}
      BY <3>1 DEF JobsApart, PreparedOnce
    <3> QED
      BY <1>t, <3>1, <3>2
  <2>4. Staging(s) /\ AwaitedAt(s) =>
          \/ Staging(s)' /\ AwaitedAt(s)' /\ calls'[s].job = calls[s].job
          \/ state'[calls[s].job] # "running"
          \/ calls[s].job \in strayed'
    BY <1>0, <1>t, <1>3, TakeDoes DEF CallIs, Staging, Preparing, Serves, Free, AwaitedAt
  <2>5. runs'[r].state = runs[r].state
    BY <1>0, <1>g, <1>3, TakeDoes DEF Staging, Serves
  <2> QED
    BY <2>1, <2>2, <2>3, <2>4, <2>5, RestStays
<1>4. CASE NothingToClaim(s)
  <2>1. strayed \subseteq strayed' /\ \A t \in Slots : t # s => calls'[t] = calls[t]
    BY <1>0, <1>4, NothingDoes
  <2>2. Serves(s)' /\ r \in calls'[s].got =>
          \/ calls'[s].kind = "page"
          \/ Serves(s) /\ r \in calls[s].got /\ calls'[s].kind = calls[s].kind /\ calls'[s].job = calls[s].job
    BY <1>0, <1>4, NothingDoes DEF CallFits, CallIs, Staging, Preparing, Serves, Free, AwaitedAt
  <2>3. \A j \in OcrJobs : state'[j] = "running" /\ r \in mapped'[j] => state[j] = "running" /\ r \in mapped[j]
    BY <1>0, <1>t, <1>4, NothingDoes
  <2>4. Staging(s) /\ AwaitedAt(s) =>
          \/ Staging(s)' /\ AwaitedAt(s)' /\ calls'[s].job = calls[s].job
          \/ state'[calls[s].job] # "running"
          \/ calls[s].job \in strayed'
    BY <1>0, <1>t, <1>4, NothingDoes DEF CallIs, Staging, Preparing, Serves, Free, AwaitedAt
  <2>5. runs'[r].state = runs[r].state
    BY <1>0, <1>g, <1>4, NothingDoes DEF Staging, Serves
  <2> QED
    BY <2>1, <2>2, <2>3, <2>4, <2>5, RestStays
<1>5. CASE Prepare(s)
  <2>1. strayed \subseteq strayed' /\ \A t \in Slots : t # s => calls'[t] = calls[t]
    BY <1>0, <1>5, PrepareDoes
  <2>2. ASSUME r \in calls'[s].got
        PROVE  Serves(s) /\ r \in calls[s].got /\ calls'[s].kind = calls[s].kind /\ calls'[s].job = calls[s].job
    <3>1. PICK q \in Ids' : /\ q \in Ids /\ Untouched(q) => Disturbed(q)'
                           /\ calls'[s].got = calls[s].got \cup {q} /\ calls'[s].kind = calls[s].kind
                           /\ calls'[s].job = calls[s].job
      BY <1>0, <1>5, PrepareDoes DEF CallIs
    <3>2. Serves(s)
      BY <1>0, <1>5, PrepareDoes DEF Preparing, Serves
    <3> QED
      BY <1>t, <2>2, <3>1, <3>2
  <2>3. \A j \in OcrJobs : state'[j] = "running" /\ r \in mapped'[j] => state[j] = "running" /\ r \in mapped[j]
    BY <1>0, <1>t, <1>5, PrepareDoes
  <2>4. Staging(s) /\ AwaitedAt(s) =>
          \/ Staging(s)' /\ AwaitedAt(s)' /\ calls'[s].job = calls[s].job
          \/ state'[calls[s].job] # "running"
          \/ calls[s].job \in strayed'
    BY <1>0, <1>t, <1>5, PrepareDoes DEF CallIs, Staging, Preparing, Serves, Free, AwaitedAt
  <2>5. runs'[r].state = runs[r].state
    BY <1>0, <1>t, <1>5, PrepareDoes
  <2> QED
    BY <2>1, <2>2, <2>3, <2>4, <2>5, RestStays
<1>6. CASE Map(s)
  <2>1. strayed \subseteq strayed' /\ \A t \in Slots : t # s => calls'[t] = calls[t]
    BY <1>0, <1>6, MapDoes
  <2>2. Serves(s)' /\ r \in calls'[s].got =>
          \/ calls'[s].kind = "page"
          \/ Serves(s) /\ r \in calls[s].got /\ calls'[s].kind = calls[s].kind /\ calls'[s].job = calls[s].job
    BY <1>0, <1>6, MapDoes DEF CallFits, CallIs, Staging, Preparing, Serves, Free, AwaitedAt
  <2>3. \A j \in OcrJobs : state'[j] = "running" /\ r \in mapped'[j] => state[j] = "running" /\ r \in mapped[j]
    <3>1. /\ calls[s].kind = "claim" /\ Serves(s) /\ state' = state /\ strayed' = strayed
          /\ mapped' = [mapped EXCEPT ![calls[s].job] = calls[s].got] /\ calls[s].job \in OcrJobs
      BY <1>0, <1>6, MapDoes DEF Serves
    <3>2. r \notin calls[s].got
      BY <1>t, <3>1 DEF InPeace, Disturbed
    <3> QED
      BY <1>t, <3>1, <3>2
  <2>4. Staging(s) /\ AwaitedAt(s) =>
          \/ Staging(s)' /\ AwaitedAt(s)' /\ calls'[s].job = calls[s].job
          \/ state'[calls[s].job] # "running"
          \/ calls[s].job \in strayed'
    BY <1>0, <1>t, <1>6, MapDoes DEF CallIs, Staging, Preparing, Serves, Free, AwaitedAt
  <2>5. runs'[r].state = runs[r].state
    BY <1>0, <1>g, <1>6, MapDoes DEF Staging, Serves
  <2> QED
    BY <2>1, <2>2, <2>3, <2>4, <2>5, RestStays
<1>7. CASE PrepareRaises(s)
  <2>1. strayed \subseteq strayed' /\ \A t \in Slots : t # s => calls'[t] = calls[t]
    BY <1>0, <1>7, PrepareRaisesDoes
  <2>2. Serves(s)' /\ r \in calls'[s].got =>
          \/ calls'[s].kind = "page"
          \/ Serves(s) /\ r \in calls[s].got /\ calls'[s].kind = calls[s].kind /\ calls'[s].job = calls[s].job
    BY <1>0, <1>7, PrepareRaisesDoes DEF CallFits, CallIs, Staging, Preparing, Serves, Free, AwaitedAt
  <2>3. \A j \in OcrJobs : state'[j] = "running" /\ r \in mapped'[j] => state[j] = "running" /\ r \in mapped[j]
    BY <1>0, <1>t, <1>7, PrepareRaisesDoes
  <2>4. Staging(s) /\ AwaitedAt(s) =>
          \/ Staging(s)' /\ AwaitedAt(s)' /\ calls'[s].job = calls[s].job
          \/ state'[calls[s].job] # "running"
          \/ calls[s].job \in strayed'
    BY <1>0, <1>t, <1>7, PrepareRaisesDoes DEF CallIs, Staging, Preparing, Serves, Free, AwaitedAt
  <2>5. runs'[r].state = runs[r].state
    BY <1>0, <1>g, <1>7, PrepareRaisesDoes DEF Staging, Serves
  <2> QED
    BY <2>1, <2>2, <2>3, <2>4, <2>5, RestStays
<1>8. CASE Admit(s)
  <2>1. strayed \subseteq strayed' /\ \A t \in Slots : t # s => calls'[t] = calls[t]
    BY <1>0, <1>8, AdmitDoes
  <2>2. ASSUME Serves(s)', r \in calls'[s].got PROVE calls'[s].kind = "page"
    <3>1. /\ calls[s].kind \in {"page", "complete", "fail"} /\ calls[s].at = "check" /\ calls'[s].kind = calls[s].kind
          /\ state[calls[s].job] = "running" /\ calls'[s].got \subseteq mapped[calls[s].job]
      BY <1>0, <1>8, <2>2, AdmitDoes DEF CallIs, Serves, Free
    <3> QED
      BY <2>2, <3>1, NotAtHand
  <2>3. \A j \in OcrJobs : state'[j] = "running" /\ r \in mapped'[j] => state[j] = "running" /\ r \in mapped[j]
    BY <1>0, <1>t, <1>8, AdmitDoes
  <2>4. Staging(s) /\ AwaitedAt(s) =>
          \/ Staging(s)' /\ AwaitedAt(s)' /\ calls'[s].job = calls[s].job
          \/ state'[calls[s].job] # "running"
          \/ calls[s].job \in strayed'
    BY <1>0, <1>t, <1>8, AdmitDoes DEF CallIs, Staging, Preparing, Serves, Free, AwaitedAt
  <2>5. runs'[r].state = runs[r].state
    BY <1>0, <1>g, <1>8, AdmitDoes DEF Staging, Serves
  <2> QED
    BY <2>1, <2>2, <2>3, <2>4, <2>5, RestStays
<1>9. CASE SavePage(s)
  <2>1. strayed \subseteq strayed' /\ \A t \in Slots : t # s => calls'[t] = calls[t]
    BY <1>0, <1>9, SavePageDoes
  <2>2. Serves(s)' /\ r \in calls'[s].got =>
          \/ calls'[s].kind = "page"
          \/ Serves(s) /\ r \in calls[s].got /\ calls'[s].kind = calls[s].kind /\ calls'[s].job = calls[s].job
    BY <1>0, <1>9, SavePageDoes DEF CallFits, CallIs, Staging, Preparing, Serves, Free, AwaitedAt
  <2>3. \A j \in OcrJobs : state'[j] = "running" /\ r \in mapped'[j] => state[j] = "running" /\ r \in mapped[j]
    BY <1>0, <1>t, <1>9, SavePageDoes
  <2>4. Staging(s) /\ AwaitedAt(s) =>
          \/ Staging(s)' /\ AwaitedAt(s)' /\ calls'[s].job = calls[s].job
          \/ state'[calls[s].job] # "running"
          \/ calls[s].job \in strayed'
    BY <1>0, <1>t, <1>9, SavePageDoes DEF CallIs, Staging, Preparing, Serves, Free, AwaitedAt
  <2>5. runs'[r].state = runs[r].state
    BY <1>0, <1>g, <1>9, SavePageDoes DEF Staging, Serves
  <2> QED
    BY <2>1, <2>2, <2>3, <2>4, <2>5, RestStays
<1>10. CASE StageNext(s)
  <2>1. strayed \subseteq strayed' /\ \A t \in Slots : t # s => calls'[t] = calls[t]
    BY <1>0, <1>10, StageNextDoes
  <2>2. Serves(s)' /\ r \in calls'[s].got =>
          \/ calls'[s].kind = "page"
          \/ Serves(s) /\ r \in calls[s].got /\ calls'[s].kind = calls[s].kind /\ calls'[s].job = calls[s].job
    BY <1>0, <1>10, StageNextDoes DEF CallFits, CallIs, Staging, Preparing, Serves, Free, AwaitedAt
  <2>3. \A j \in OcrJobs : state'[j] = "running" /\ r \in mapped'[j] => state[j] = "running" /\ r \in mapped[j]
    BY <1>0, <1>t, <1>10, StageNextDoes
  <2>4. Staging(s) /\ AwaitedAt(s) =>
          \/ Staging(s)' /\ AwaitedAt(s)' /\ calls'[s].job = calls[s].job
          \/ state'[calls[s].job] # "running"
          \/ calls[s].job \in strayed'
    BY <1>0, <1>t, <1>10, StageNextDoes DEF CallIs, Staging, Preparing, Serves, Free, AwaitedAt
  <2>5. runs'[r].state = runs[r].state
    BY <1>0, <1>g, <1>10, StageNextDoes DEF Staging, Serves
  <2> QED
    BY <2>1, <2>2, <2>3, <2>4, <2>5, RestStays
<1>11. CASE StageRaises(s)
  <2>1. strayed \subseteq strayed' /\ \A t \in Slots : t # s => calls'[t] = calls[t]
    BY <1>0, <1>11, StageRaisesDoes
  <2>2. Serves(s)' /\ r \in calls'[s].got =>
          \/ calls'[s].kind = "page"
          \/ Serves(s) /\ r \in calls[s].got /\ calls'[s].kind = calls[s].kind /\ calls'[s].job = calls[s].job
    BY <1>0, <1>11, StageRaisesDoes DEF CallFits, CallIs, Staging, Preparing, Serves, Free, AwaitedAt
  <2>3. \A j \in OcrJobs : state'[j] = "running" /\ r \in mapped'[j] => state[j] = "running" /\ r \in mapped[j]
    BY <1>0, <1>t, <1>11, StageRaisesDoes
  <2>4. Staging(s) /\ AwaitedAt(s) =>
          \/ Staging(s)' /\ AwaitedAt(s)' /\ calls'[s].job = calls[s].job
          \/ state'[calls[s].job] # "running"
          \/ calls[s].job \in strayed'
    BY <1>0, <1>t, <1>11, StageRaisesDoes DEF CallIs, Staging, Preparing, Serves, Free, AwaitedAt
  <2>5. runs'[r].state = runs[r].state
    BY <1>0, <1>g, <1>11, StageRaisesDoes DEF Staging, Serves
  <2> QED
    BY <2>1, <2>2, <2>3, <2>4, <2>5, RestStays
<1>12. CASE FinishComplete(s)
  <2>1. strayed \subseteq strayed' /\ \A t \in Slots : t # s => calls'[t] = calls[t]
    BY <1>0, <1>12, FinishCompleteDoes
  <2>2. Serves(s)' /\ r \in calls'[s].got =>
          \/ calls'[s].kind = "page"
          \/ Serves(s) /\ r \in calls[s].got /\ calls'[s].kind = calls[s].kind /\ calls'[s].job = calls[s].job
    BY <1>0, <1>12, FinishCompleteDoes DEF CallFits, CallIs, Staging, Preparing, Serves, Free, AwaitedAt
  <2>3. \A j \in OcrJobs : state'[j] = "running" /\ r \in mapped'[j] => state[j] = "running" /\ r \in mapped[j]
    BY <1>0, <1>t, <1>12, FinishCompleteDoes
  <2>4. Staging(s) /\ AwaitedAt(s) =>
          \/ Staging(s)' /\ AwaitedAt(s)' /\ calls'[s].job = calls[s].job
          \/ state'[calls[s].job] # "running"
          \/ calls[s].job \in strayed'
    BY <1>0, <1>t, <1>12, FinishCompleteDoes DEF CallIs, Staging, Preparing, Serves, Free, AwaitedAt
  <2>5. runs'[r].state = runs[r].state
    BY <1>0, <1>g, <1>12, FinishCompleteDoes DEF Staging, Serves
  <2> QED
    BY <2>1, <2>2, <2>3, <2>4, <2>5, RestStays
<1>13. CASE MarkFailed(s)
  <2>1. strayed \subseteq strayed' /\ \A t \in Slots : t # s => calls'[t] = calls[t]
    BY <1>0, <1>13, MarkFailedDoes
  <2>2. Serves(s)' /\ r \in calls'[s].got =>
          \/ calls'[s].kind = "page"
          \/ Serves(s) /\ r \in calls[s].got /\ calls'[s].kind = calls[s].kind /\ calls'[s].job = calls[s].job
    BY <1>0, <1>13, MarkFailedDoes DEF CallFits, CallIs, Staging, Preparing, Serves, Free, AwaitedAt
  <2>3. \A j \in OcrJobs : state'[j] = "running" /\ r \in mapped'[j] => state[j] = "running" /\ r \in mapped[j]
    BY <1>0, <1>t, <1>13, MarkFailedDoes
  <2>4. Staging(s) /\ AwaitedAt(s) =>
          \/ Staging(s)' /\ AwaitedAt(s)' /\ calls'[s].job = calls[s].job
          \/ state'[calls[s].job] # "running"
          \/ calls[s].job \in strayed'
    BY <1>0, <1>t, <1>13, MarkFailedDoes DEF CallIs, Staging, Preparing, Serves, Free, AwaitedAt
  <2>5. runs'[r].state = runs[r].state
    BY <1>0, <1>g, <1>13, MarkFailedDoes DEF Staging, Serves
  <2> QED
    BY <2>1, <2>2, <2>3, <2>4, <2>5, RestStays
<1>14. CASE FinishFail(s)
  <2>1. strayed \subseteq strayed' /\ \A t \in Slots : t # s => calls'[t] = calls[t]
    BY <1>0, <1>14, FinishFailDoes
  <2>2. Serves(s)' /\ r \in calls'[s].got =>
          \/ calls'[s].kind = "page"
          \/ Serves(s) /\ r \in calls[s].got /\ calls'[s].kind = calls[s].kind /\ calls'[s].job = calls[s].job
    BY <1>0, <1>14, FinishFailDoes DEF CallFits, CallIs, Staging, Preparing, Serves, Free, AwaitedAt
  <2>3. \A j \in OcrJobs : state'[j] = "running" /\ r \in mapped'[j] => state[j] = "running" /\ r \in mapped[j]
    BY <1>0, <1>t, <1>14, FinishFailDoes
  <2>4. Staging(s) /\ AwaitedAt(s) =>
          \/ Staging(s)' /\ AwaitedAt(s)' /\ calls'[s].job = calls[s].job
          \/ state'[calls[s].job] # "running"
          \/ calls[s].job \in strayed'
    BY <1>0, <1>t, <1>14, FinishFailDoes DEF CallIs, Staging, Preparing, Serves, Free, AwaitedAt
  <2>5. runs'[r].state = runs[r].state
    BY <1>0, <1>g, <1>14, FinishFailDoes DEF Staging, Serves
  <2> QED
    BY <2>1, <2>2, <2>3, <2>4, <2>5, RestStays
<1>15. CASE WorkerTake(s)
  <2>1. strayed \subseteq strayed' /\ \A t \in Slots : t # s => calls'[t] = calls[t]
    BY <1>0, <1>15, WorkerTakeDoes
  <2>2. Serves(s)' /\ r \in calls'[s].got =>
          \/ calls'[s].kind = "page"
          \/ Serves(s) /\ r \in calls[s].got /\ calls'[s].kind = calls[s].kind /\ calls'[s].job = calls[s].job
    BY <1>0, <1>15, WorkerTakeDoes DEF CallFits, CallIs, Staging, Preparing, Serves, Free, AwaitedAt
  <2>3. \A j \in OcrJobs : state'[j] = "running" /\ r \in mapped'[j] => state[j] = "running" /\ r \in mapped[j]
    <3>1. PICK k \in OcrJobs : state[k] = "queued" /\ state' = [state EXCEPT ![k] = "running"] /\ mapped' = mapped
      BY <1>15, WorkerTakeDoes
    <3>2. mapped[k] = {}
      BY <3>1 DEF JobsApart, PreparedOnce
    <3> QED
      BY <1>t, <3>1, <3>2
  <2>4. Staging(s) /\ AwaitedAt(s) =>
          \/ Staging(s)' /\ AwaitedAt(s)' /\ calls'[s].job = calls[s].job
          \/ state'[calls[s].job] # "running"
          \/ calls[s].job \in strayed'
    BY <1>0, <1>t, <1>15, WorkerTakeDoes DEF CallIs, Staging, Preparing, Serves, Free, AwaitedAt
  <2>5. runs'[r].state = runs[r].state
    BY <1>0, <1>g, <1>15, WorkerTakeDoes DEF Staging, Serves
  <2> QED
    BY <2>1, <2>2, <2>3, <2>4, <2>5, RestStays
<1>16. CASE WorkerReads(s)
  <2>1. strayed \subseteq strayed' /\ \A t \in Slots : t # s => calls'[t] = calls[t]
    BY <1>0, <1>16, WorkerReadsDoes
  <2>2. Serves(s)' /\ r \in calls'[s].got =>
          \/ calls'[s].kind = "page"
          \/ Serves(s) /\ r \in calls[s].got /\ calls'[s].kind = calls[s].kind /\ calls'[s].job = calls[s].job
    BY <1>0, <1>16, WorkerReadsDoes DEF CallFits, CallIs, Staging, Preparing, Serves, Free, AwaitedAt
  <2>3. \A j \in OcrJobs : state'[j] = "running" /\ r \in mapped'[j] => state[j] = "running" /\ r \in mapped[j]
    BY <1>0, <1>t, <1>16, WorkerReadsDoes
  <2>4. Staging(s) /\ AwaitedAt(s) =>
          \/ Staging(s)' /\ AwaitedAt(s)' /\ calls'[s].job = calls[s].job
          \/ state'[calls[s].job] # "running"
          \/ calls[s].job \in strayed'
    BY <1>0, <1>t, <1>16, WorkerReadsDoes DEF CallIs, Staging, Preparing, Serves, Free, AwaitedAt
  <2>5. runs'[r].state = runs[r].state
    BY <1>0, <1>g, <1>16, WorkerReadsDoes DEF Staging, Serves
  <2> QED
    BY <2>1, <2>2, <2>3, <2>4, <2>5, RestStays
<1>17. CASE WorkerPage(s)
  <2>1. strayed \subseteq strayed' /\ \A t \in Slots : t # s => calls'[t] = calls[t]
    BY <1>0, <1>17, WorkerPageDoes
  <2>2. Serves(s)' /\ r \in calls'[s].got =>
          \/ calls'[s].kind = "page"
          \/ Serves(s) /\ r \in calls[s].got /\ calls'[s].kind = calls[s].kind /\ calls'[s].job = calls[s].job
    BY <1>0, <1>17, WorkerPageDoes DEF CallFits, CallIs, Staging, Preparing, Serves, Free, AwaitedAt
  <2>3. \A j \in OcrJobs : state'[j] = "running" /\ r \in mapped'[j] => state[j] = "running" /\ r \in mapped[j]
    BY <1>0, <1>t, <1>17, WorkerPageDoes
  <2>4. Staging(s) /\ AwaitedAt(s) =>
          \/ Staging(s)' /\ AwaitedAt(s)' /\ calls'[s].job = calls[s].job
          \/ state'[calls[s].job] # "running"
          \/ calls[s].job \in strayed'
    BY <1>0, <1>t, <1>17, WorkerPageDoes DEF CallIs, Staging, Preparing, Serves, Free, AwaitedAt
  <2>5. runs'[r].state = runs[r].state
    BY <1>0, <1>g, <1>17, WorkerPageDoes DEF Staging, Serves
  <2> QED
    BY <2>1, <2>2, <2>3, <2>4, <2>5, RestStays
<1>18. CASE WorkerRaises(s)
  <2>1. strayed \subseteq strayed' /\ \A t \in Slots : t # s => calls'[t] = calls[t]
    BY <1>0, <1>18, WorkerRaisesDoes
  <2>2. Serves(s)' /\ r \in calls'[s].got =>
          \/ calls'[s].kind = "page"
          \/ Serves(s) /\ r \in calls[s].got /\ calls'[s].kind = calls[s].kind /\ calls'[s].job = calls[s].job
    BY <1>0, <1>18, WorkerRaisesDoes DEF CallFits, CallIs, Staging, Preparing, Serves, Free, AwaitedAt
  <2>3. \A j \in OcrJobs : state'[j] = "running" /\ r \in mapped'[j] => state[j] = "running" /\ r \in mapped[j]
    BY <1>0, <1>t, <1>18, WorkerRaisesDoes
  <2>4. Staging(s) /\ AwaitedAt(s) =>
          \/ Staging(s)' /\ AwaitedAt(s)' /\ calls'[s].job = calls[s].job
          \/ state'[calls[s].job] # "running"
          \/ calls[s].job \in strayed'
    BY <1>0, <1>t, <1>18, WorkerRaisesDoes DEF CallIs, Staging, Preparing, Serves, Free, AwaitedAt
  <2>5. runs'[r].state = runs[r].state
    BY <1>0, <1>g, <1>18, WorkerRaisesDoes DEF Staging, Serves
  <2> QED
    BY <2>1, <2>2, <2>3, <2>4, <2>5, RestStays
<1>19. CASE WorkerStage(s)
  <2>1. strayed \subseteq strayed' /\ \A t \in Slots : t # s => calls'[t] = calls[t]
    BY <1>0, <1>19, WorkerStageDoes
  <2>2. Serves(s)' /\ r \in calls'[s].got =>
          \/ calls'[s].kind = "page"
          \/ Serves(s) /\ r \in calls[s].got /\ calls'[s].kind = calls[s].kind /\ calls'[s].job = calls[s].job
    BY <1>0, <1>19, WorkerStageDoes DEF CallFits, CallIs, Staging, Preparing, Serves, Free, AwaitedAt
  <2>3. \A j \in OcrJobs : state'[j] = "running" /\ r \in mapped'[j] => state[j] = "running" /\ r \in mapped[j]
    BY <1>0, <1>t, <1>19, WorkerStageDoes
  <2>4. Staging(s) /\ AwaitedAt(s) =>
          \/ Staging(s)' /\ AwaitedAt(s)' /\ calls'[s].job = calls[s].job
          \/ state'[calls[s].job] # "running"
          \/ calls[s].job \in strayed'
    BY <1>0, <1>t, <1>19, WorkerStageDoes DEF CallIs, Staging, Preparing, Serves, Free, AwaitedAt
  <2>5. runs'[r].state = runs[r].state
    BY <1>0, <1>g, <1>19, WorkerStageDoes DEF Staging, Serves
  <2> QED
    BY <2>1, <2>2, <2>3, <2>4, <2>5, RestStays
<1>20. CASE WorkerEnds(s)
  <2>1. strayed \subseteq strayed' /\ \A t \in Slots : t # s => calls'[t] = calls[t]
    BY <1>0, <1>20, WorkerEndsDoes
  <2>2. Serves(s)' /\ r \in calls'[s].got =>
          \/ calls'[s].kind = "page"
          \/ Serves(s) /\ r \in calls[s].got /\ calls'[s].kind = calls[s].kind /\ calls'[s].job = calls[s].job
    BY <1>0, <1>20, WorkerEndsDoes DEF CallFits, CallIs, Staging, Preparing, Serves, Free, AwaitedAt
  <2>3. \A j \in OcrJobs : state'[j] = "running" /\ r \in mapped'[j] => state[j] = "running" /\ r \in mapped[j]
    BY <1>0, <1>t, <1>20, WorkerEndsDoes
  <2>4. Staging(s) /\ AwaitedAt(s) =>
          \/ Staging(s)' /\ AwaitedAt(s)' /\ calls'[s].job = calls[s].job
          \/ state'[calls[s].job] # "running"
          \/ calls[s].job \in strayed'
    BY <1>0, <1>t, <1>20, WorkerEndsDoes DEF CallIs, Staging, Preparing, Serves, Free, AwaitedAt
  <2>5. runs'[r].state = runs[r].state
    BY <1>0, <1>g, <1>20, WorkerEndsDoes DEF Staging, Serves
  <2> QED
    BY <2>1, <2>2, <2>3, <2>4, <2>5, RestStays
<1> QED
  BY <1>1, <1>2, <1>3, <1>4, <1>5, <1>6, <1>7, <1>8, <1>9, <1>10, <1>11, <1>12, <1>13, <1>14, <1>15, <1>16, <1>17, <1>18, <1>19, <1>20 DEF CallStep

\* Every step leaves a run in review at rest.
LEMMA StepLeavesRest ==
    ASSUME RowsTypeOK, PicksFit, CallsFit, JobsApart, [OcrJobsNext]_ocrJobsVars,
           NEW r \in Ids, Untouched(r), InPeace(r), ~Disturbed(r)'
    PROVE  InPeace(r)' /\ runs'[r].state \in {runs[r].state, "completed"}
<1>t. state \in [OcrJobs -> JobStates]
  BY DEF RowsTypeOK
<1>1. CASE UserStep
  <2>1. UNCHANGED <<mapped, calls, strayed>> /\ \A j \in OcrJobs : state'[j] = "running" => state[j] = "running"
    BY <1>1, UserDoes
  <2>2. InPeace(r)'
    BY <2>1 DEF InPeace, Serves, Staging, AwaitedAt
  <2> QED
    BY <1>1, <2>2, UserDoes
<1>2. CASE Aside
  <2>1. UNCHANGED <<state, mapped, calls, strayed, runs>>
    BY <1>2, AgentOnlyDoes
  <2> QED
    BY <2>1 DEF InPeace, Serves, Staging, AwaitedAt
<1>3. CASE OcrRestart
  <2>1. /\ runs' = runs /\ \A s \in Slots : ~Serves(s)'
        /\ \A j \in OcrJobs : state'[j] # "running"
    BY <1>3, RestartDoes
  <2> QED
    BY <2>1 DEF InPeace
<1>4. ASSUME NEW kind, NEW books, Posting(kind, books)
      PROVE  InPeace(r)' /\ runs'[r].state \in {runs[r].state, "completed"}
  <2>1. UNCHANGED <<state, mapped, strayed, runs>>
    BY <1>4, PostDoes DEF Posting
  <2>2. PICK s \in Slots : ~Serves(s) /\ (\A t \in Slots : t # s => calls'[t] = calls[t]) /\ calls'[s].got = {}
    BY <1>4, PostDoes DEF Posting, CallIs
  <2>3. ~Staging(s)
    BY <2>2 DEF Staging, Serves
  <2>4. InPeace(r)'
    BY <2>1, <2>2, <2>3, RestStays
  <2> QED
    BY <2>1, <2>4
<1>5. ASSUME NEW after \in AgentRecords, Leaving(after)
      PROVE  InPeace(r)' /\ runs'[r].state \in {runs[r].state, "completed"}
  <2>1. /\ UNCHANGED <<state, mapped, runs>>
        /\ \A s \in Slots : IF AwaitedAt(s)
                            THEN CallIs(calls'[s], calls[s].kind, calls[s].at, calls[s].job, calls[s].todo,
                                        calls[s].got, calls[s].bad, FALSE)
                            ELSE calls'[s] = calls[s]
        /\ strayed' = (strayed \cup {calls[s].job : s \in {t \in Slots : Serves(t)}}) \ {0}
    BY <1>5, AbandonDoes DEF Leaving
  <2>2. 0 \notin strayed /\ 0 \notin OcrJobs
    BY OcrAgentJobsAssumption DEF RowsTypeOK
  <2>3. ASSUME NEW s \in Slots, Serves(s)', r \in calls'[s].got
        PROVE  calls'[s].kind = "page" \/ (calls'[s].kind = "claim" /\ calls'[s].job \in strayed')
    <3>1. Serves(s) /\ calls'[s].kind = calls[s].kind /\ calls'[s].job = calls[s].job /\ r \in calls[s].got
      BY <2>1, <2>3 DEF CallIs, Serves, AwaitedAt
    <3> QED
      BY <2>1, <2>2, <3>1 DEF InPeace
  <2>4. ASSUME NEW j \in OcrJobs, state'[j] = "running", r \in mapped'[j]
        PROVE  FALSE
    <3>1. PICK s \in Slots : Staging(s) /\ AwaitedAt(s) /\ calls[s].job = j
      BY <2>1, <2>4 DEF InPeace
    <3>2. j \in strayed'
      BY <2>1, <2>2, <3>1 DEF AwaitedAt
    <3> QED
      BY <2>4, <3>2 DEF Disturbed
  <2> QED
    BY <2>1, <2>3, <2>4 DEF InPeace
<1>6. ASSUME NEW s \in Slots, CallStep(s)
      PROVE  InPeace(r)' /\ runs'[r].state \in {runs[r].state, "completed"}
  BY <1>6, CallLeavesRest
<1>7. CASE UNCHANGED ocrJobsVars
  BY <1>7 DEF ocrJobsVars, jobVars, InPeace, Serves, Staging, AwaitedAt
<1> QED
  BY <1>1, <1>2, <1>3, <1>4, <1>5, <1>6, <1>7, StepKinds

\* A run that a completion has just staged is in nobody else's hands.
LEMMA StagedRests ==
    ASSUME RowsTypeOK, PicksFit, CallsFit, JobsApart, TargetGoesOn, NEW r \in Ids, ~Disturbed(r), ~Disturbed(r)',
           NEW s \in Slots, StageNext(s), r \in calls[s].got, r \notin calls'[s].got
    PROVE  InPeace(r)'
<1>1. /\ UNCHANGED <<state, mapped, strayed>> /\ Staging(s) /\ \A t \in Slots : t # s => calls'[t] = calls[t]
      /\ calls'[s].kind = "complete" /\ calls'[s].at = "write" /\ calls'[s].job = calls[s].job
      /\ calls'[s].awaited = calls[s].awaited
  BY StageNextDoes DEF CallIs
<1>2. OfJob(s) /\ calls[s].job \in OcrJobs /\ byAgent
  BY <1>1 DEF CallsFit, CallFits, OfJob, Serves, Staging
<1>3. r \in mapped[calls[s].job]
  BY <1>1 DEF JobsApart, PreparedOnce, Staging
<1>4. calls[s].job \notin strayed
  BY <1>3 DEF Disturbed
<1>5. AwaitedAt(s)
  BY <1>2, <1>4, UnawaitedIsStray DEF AwaitedAt, OfJob
<1>6. state[calls[s].job] = "running"
  BY <1>1, <1>4 DEF TargetGoesOn, CallAims
<1>7. ASSUME NEW t \in Slots, Serves(t)', r \in calls'[t].got
      PROVE  calls'[t].kind = "page" \/ (calls'[t].kind = "claim" /\ calls'[t].job \in strayed')
  <2>1. t # s /\ calls'[t] = calls[t] /\ Serves(t) /\ r \in calls[t].got
    BY <1>1, <1>7 DEF Serves
  <2>2. ~calls[t].awaited
    BY <1>5, <2>1 DEF CallsFit, AgentFits, AwaitedAt
  <2>3. calls[t].kind \in {"claim", "page", "complete", "fail"}
    BY <1>2, <2>1, CallTyped DEF CallsOver, CallsFit, CallFits
  <2>4. CASE calls[t].kind = "claim"
    <3>1. OfJob(t)
      BY <2>1, <2>4 DEF CallsFit, CallFits, OfJob
    <3> QED
      BY <1>1, <1>2, <2>1, <2>2, <2>4, <3>1, UnawaitedIsStray
  <2>5. CASE calls[t].kind \in {"complete", "fail"}
    <3>1. OfJob(t) /\ r \in mapped[calls[t].job]
      BY <2>1, <2>5 DEF OfJob, JobsApart, PreparedOnce
    <3>2. calls[t].job \in strayed
      BY <1>2, <2>2, <3>1, UnawaitedIsStray
    <3> QED
      BY <3>1, <3>2 DEF Disturbed
  <2> QED
    BY <2>1, <2>3, <2>4, <2>5
<1>8. ASSUME NEW j \in OcrJobs, state'[j] = "running", r \in mapped'[j]
      PROVE  \E t \in Slots : Staging(t)' /\ AwaitedAt(t)' /\ calls'[t].job = j
  <2>1. j = calls[s].job
    BY <1>1, <1>2, <1>6, <1>8 DEF JobsApart, RunningOne
  <2> QED
    BY <1>1, <1>5, <2>1 DEF Staging, AwaitedAt, Serves
<1> QED
  BY <1>7, <1>8 DEF InPeace

\* A run comes into the review through a completion or the worker that has it.
LEMMA OnlyStaged ==
    ASSUME RowsTypeOK, PicksFit, CallsFit, [OcrJobsNext]_ocrJobsVars,
           NEW r \in Ids, runs[r].state \notin InReview, runs'[r].state \in InReview
    PROVE  \E s \in Slots : (StageNext(s) \/ WorkerStage(s)) /\ r \in calls[s].got /\ r \notin calls'[s].got
<1>u. UserStep \/ Aside \/ OcrRestart => FALSE
  BY UserDoes, AgentOnlyDoes, RestartDoes DEF InReview
<1>p. ASSUME NEW kind, NEW books, Posting(kind, books) PROVE FALSE
  BY <1>p, PostDoes DEF Posting
<1>a. ASSUME NEW after \in AgentRecords, Leaving(after) PROVE FALSE
  BY <1>a, AbandonDoes DEF Leaving
<1>c. ASSUME NEW s \in Slots, CallStep(s)
      PROVE  (StageNext(s) \/ WorkerStage(s)) /\ r \in calls[s].got /\ r \notin calls'[s].got
  <2>0. CallFits(s)
    BY DEF CallsFit
  <2>1. CASE Recover(s)
    BY <2>0, <2>1, RecoverDoes DEF InReview
  <2>2. CASE Again(s)
    BY <2>0, <2>2, AgainDoes DEF InReview
  <2>3. CASE Take(s)
    BY <2>0, <2>3, TakeDoes DEF InReview
  <2>4. CASE NothingToClaim(s)
    BY <2>0, <2>4, NothingDoes DEF InReview
  <2>5. CASE Prepare(s)
    BY <2>0, <2>5, PrepareDoes DEF InReview
  <2>6. CASE Map(s)
    BY <2>0, <2>6, MapDoes DEF InReview
  <2>7. CASE PrepareRaises(s)
    BY <2>0, <2>7, PrepareRaisesDoes DEF InReview
  <2>8. CASE Admit(s)
    BY <2>0, <2>8, AdmitDoes DEF InReview
  <2>9. CASE SavePage(s)
    BY <2>0, <2>9, SavePageDoes DEF InReview
  <2>10. CASE StageNext(s)
    BY <2>10, StageNextDoes DEF CallIs
  <2>11. CASE StageRaises(s)
    BY <2>0, <2>11, StageRaisesDoes DEF InReview
  <2>12. CASE FinishComplete(s)
    BY <2>0, <2>12, FinishCompleteDoes DEF InReview
  <2>13. CASE MarkFailed(s)
    BY <2>0, <2>13, MarkFailedDoes DEF InReview
  <2>14. CASE FinishFail(s)
    BY <2>0, <2>14, FinishFailDoes DEF InReview
  <2>15. CASE WorkerTake(s)
    BY <2>0, <2>15, WorkerTakeDoes DEF InReview
  <2>16. CASE WorkerReads(s)
    BY <2>0, <2>16, WorkerReadsDoes DEF InReview
  <2>17. CASE WorkerPage(s)
    BY <2>0, <2>17, WorkerPageDoes DEF InReview
  <2>18. CASE WorkerRaises(s)
    BY <2>0, <2>18, WorkerRaisesDoes DEF InReview
  <2>19. CASE WorkerStage(s)
    BY <2>19, WorkerStageDoes DEF CallIs, InReview
  <2>20. CASE WorkerEnds(s)
    BY <2>0, <2>20, WorkerEndsDoes DEF InReview
  <2> QED
    BY <1>c, <2>1, <2>2, <2>3, <2>4, <2>5, <2>6, <2>7, <2>8, <2>9, <2>10, <2>11, <2>12, <2>13, <2>14, <2>15, <2>16, <2>17, <2>18, <2>19, <2>20 DEF CallStep
<1>s. UNCHANGED ocrJobsVars => FALSE
  BY DEF ocrJobsVars
<1> QED
  BY <1>u, <1>p, <1>a, <1>c, <1>s, StepKinds

\* A run comes to rest in the review.
LEMMA ComesToRest ==
    ASSUME RowsTypeOK, PicksFit, CallsFit, JobsApart, TargetGoesOn, [OcrJobsNext]_ocrJobsVars,
           NEW r \in Ids, runs[r].state \notin InReview, runs'[r].state \in InReview, ~Disturbed(r), ~Disturbed(r)'
    PROVE  InPeace(r)'
<1>1. PICK s \in Slots : (StageNext(s) \/ WorkerStage(s)) /\ r \in calls[s].got /\ r \notin calls'[s].got
  BY OnlyStaged
<1>2. CASE StageNext(s)
  BY <1>1, <1>2, StagedRests
<1>3. CASE WorkerStage(s)
  <2>1. /\ calls[s].kind = "worker" /\ mapped' = mapped
        /\ \A t \in Slots : t # s => calls'[t] = calls[t]
    BY <1>3, WorkerStageDoes
  <2>2. ~byAgent /\ Serves(s)
    BY <2>1 DEF CallsFit, CallFits, Serves
  <2>3. (\A t \in Slots : Serves(t) => t = s) /\ \A j \in OcrJobs : mapped[j] = {}
    BY <2>2 DEF JobsApart, RunningOne
  <2>4. \A t \in Slots : Serves(t)' => t = s
    BY <2>1, <2>3 DEF Serves
  <2> QED
    BY <1>1, <2>1, <2>3, <2>4 DEF InPeace
<1> QED
  BY <1>1, <1>2, <1>3

\* What is staged while a claim holds that it is to be resumed makes the job of
\* the claim a stray one: the agent waits for the completion.
LEMMA StagedWhilePicked ==
    ASSUME RowsTypeOK, PicksFit, CallsFit, JobsApart, [OcrJobsNext]_ocrJobsVars,
           NEW r \in Ids, runs[r].state \notin InReview, runs'[r].state \in InReview, ~Disturbed(r),
           NEW t \in Slots, Preparing(t)
    PROVE  calls[t].job \in strayed
<1>1. PICK s \in Slots : (StageNext(s) \/ WorkerStage(s)) /\ r \in calls[s].got
  BY OnlyStaged
<1>t. Serves(t) /\ OfJob(t)
  BY DEF Preparing, Serves, OfJob
<1>2. CASE StageNext(s)
  <2>1. Staging(s) /\ Serves(s) /\ OfJob(s) /\ byAgent
    BY <1>2 DEF StageNext, At, Staging, Serves, OfJob, CallsFit, CallFits
  <2>2. calls[s].job \in OcrJobs /\ r \in mapped[calls[s].job]
    BY <1>1, <2>1 DEF JobsApart, PreparedOnce, Staging, CallsFit, CallFits
  <2>3. AwaitedAt(s)
    BY <2>1, <2>2, UnawaitedIsStray DEF AwaitedAt, Disturbed
  <2>4. t # s
    BY <2>1 DEF Staging, Preparing
  <2>5. ~calls[t].awaited
    BY <1>t, <2>3, <2>4 DEF CallsFit, AgentFits, AwaitedAt
  <2> QED
    BY <1>t, <2>1, <2>5, UnawaitedIsStray
<1>3. CASE WorkerStage(s)
  <2>1. calls[s].kind = "worker" /\ calls[s].at \in {"pages", "stage"}
    BY <1>3 DEF WorkerStage
  <2>2. ~byAgent /\ Serves(s)
    BY <2>1 DEF CallsFit, CallFits, Serves
  <2>3. t = s
    BY <1>t, <2>2 DEF JobsApart, RunningOne
  <2> QED
    BY <2>1, <2>3 DEF Preparing
<1> QED
  BY <1>1, <1>2, <1>3

\* Every step keeps the runs in review at rest.
LEMMA StepKeepsRest ==
    ASSUME RowsTypeOK, PicksFit, CallsFit, JobsApart, ReviewRests, TargetGoesOn, [OcrJobsNext]_ocrJobsVars
    PROVE  ReviewRests'
<1> SUFFICES ASSUME NEW r \in Ids', runs'[r].state \in InReview, ~Disturbed(r)' PROVE InPeace(r)'
  BY DEF ReviewRests, Untouched, Ids, InReview
<1>1. RunsMove
  BY StepMovesRuns
<1>2. r \in Ids
  BY <1>1 DEF RunsMove, InReview
<1>3. ~Disturbed(r)
  BY DisturbedStays
<1>4. CASE runs[r].state \in InReview
  <2>1. Untouched(r) /\ InPeace(r)
    BY <1>2, <1>3, <1>4 DEF ReviewRests, Untouched
  <2> QED
    BY <1>2, <2>1, StepLeavesRest
<1>5. CASE runs[r].state \notin InReview
  BY <1>2, <1>3, <1>5, ComesToRest
<1> QED
  BY <1>4, <1>5

\* A call that is to take a run up does so, or raises, before anything else.
LEMMA PickedWaits ==
    ASSUME PicksFit, NEW s \in Slots, picked[s] # NoPick, CallStep(s)
    PROVE  Prepare(s) \/ PrepareRaises(s) \/ WorkerRaises(s)
<1>1. /\ calls[s].at = "prepare" /\ calls[s].todo # {} /\ calls[s].kind \in {"claim", "worker"}
  BY DEF PicksFit, PickFits, Preparing
<1>2. ~(Recover(s) \/ Again(s) \/ Take(s) \/ NothingToClaim(s))
  BY <1>1 DEF Recover, Again, Take, NothingToClaim, At
<1>3. ~(Map(s) \/ Admit(s) \/ SavePage(s) \/ StageNext(s) \/ StageRaises(s) \/ FinishComplete(s))
  BY <1>1 DEF Map, Admit, SavePage, StageNext, StageRaises, FinishComplete, At
<1>4. ~(MarkFailed(s) \/ FinishFail(s) \/ WorkerTake(s) \/ WorkerReads(s))
  BY <1>1 DEF MarkFailed, FinishFail, WorkerTake, WorkerReads, At, Free
<1>5. ~(WorkerPage(s) \/ WorkerStage(s) \/ WorkerEnds(s))
  BY <1>1 DEF WorkerPage, WorkerStage, WorkerEnds, At
<1> QED
  BY <1>2, <1>3, <1>4, <1>5 DEF CallStep

\* A step of one call leaves the other calls alone.
LEMMA OtherCallsStay ==
    ASSUME RowsTypeOK, NEW s \in Slots, CallStep(s), NEW t \in Slots, t # s
    PROVE  calls'[t] = calls[t]
<1>1. calls \in [Slots -> CallRecords \cup {Free}]
  BY DEF RowsTypeOK
<1>2. \A c : Step(s, c) => calls'[t] = calls[t]
  BY <1>1 DEF Step
<1>3. \A new : OcrReply(s, new) \/ Refuse(s) => calls'[t] = calls[t]
  BY <1>2 DEF OcrReply, Refuse
<1>4. CASE Recover(s) \/ Again(s) \/ Take(s) \/ NothingToClaim(s)
  BY <1>2, <1>3, <1>4 DEF Recover, Again, Take, NothingToClaim
<1>5. CASE Prepare(s) \/ Map(s) \/ PrepareRaises(s)
  BY <1>2, <1>3, <1>5 DEF Prepare, Map, PrepareRaises
<1>6. CASE Admit(s) \/ SavePage(s) \/ StageNext(s)
  BY <1>2, <1>3, <1>6 DEF Admit, SavePage, StageNext
<1>7. CASE StageRaises(s) \/ FinishComplete(s) \/ MarkFailed(s) \/ FinishFail(s)
  BY <1>2, <1>3, <1>7 DEF StageRaises, FinishComplete, MarkFailed, FinishFail
<1>8. CASE WorkerTake(s) \/ WorkerReads(s) \/ WorkerPage(s)
  BY <1>2, <1>3, <1>8 DEF WorkerTake, WorkerReads, WorkerPage
<1>9. CASE WorkerRaises(s) \/ WorkerStage(s) \/ WorkerEnds(s)
  BY <1>2, <1>3, <1>9 DEF WorkerRaises, WorkerStage, WorkerEnds
<1> QED
  BY <1>4, <1>5, <1>6, <1>7, <1>8, <1>9 DEF CallStep

\* While a pick stands, its call stays where it is.
LEMMA PickedCallStays ==
    ASSUME RowsTypeOK, PicksFit, CallsFit, [OcrJobsNext]_ocrJobsVars, NEW s \in Slots, picked[s] # NoPick,
           picked'[s] = picked[s]
    PROVE  Preparing(s)' /\ calls'[s].todo = calls[s].todo /\ calls'[s].job = calls[s].job
<1>0. Preparing(s) /\ Serves(s) /\ picked \in [Slots -> [book : Books \cup {Every}, run : {0} \cup Ids]]
  BY DEF PicksFit, PickFits, ClaimsTypeOK, Preparing, Serves
<1>1. CASE UserStep \/ Aside
  <2>1. calls' = calls
    BY <1>1, UserDoes, AgentOnlyDoes
  <2> QED
    BY <1>0, <2>1 DEF Preparing
<1>2. CASE OcrRestart
  BY <1>2 DEF OcrRestart
<1>3. ASSUME NEW kind, NEW books, Posting(kind, books)
      PROVE  Preparing(s)' /\ calls'[s].todo = calls[s].todo /\ calls'[s].job = calls[s].job
  <2>1. PICK t \in Slots : ~Serves(t) /\ \A u \in Slots : u # t => calls'[u] = calls[u]
    BY <1>3, PostDoes DEF Posting
  <2> QED
    BY <1>0, <2>1 DEF Preparing
<1>4. ASSUME NEW after \in AgentRecords, Leaving(after)
      PROVE  Preparing(s)' /\ calls'[s].todo = calls[s].todo /\ calls'[s].job = calls[s].job
  BY <1>0, <1>4, AbandonDoes DEF Leaving, CallIs, Preparing
<1>5. ASSUME NEW t \in Slots, CallStep(t)
      PROVE  Preparing(s)' /\ calls'[s].todo = calls[s].todo /\ calls'[s].job = calls[s].job
  <2>1. CASE t # s
    BY <1>0, <1>5, <2>1, OtherCallsStay DEF Preparing
  <2>2. CASE t = s
    <3>1. Prepare(s) \/ PrepareRaises(s) \/ WorkerRaises(s)
      BY <1>5, <2>2, PickedWaits
    <3>2. picked'[s] = NoPick
      BY <1>0, <3>1 DEF Prepare, PrepareRaises, WorkerRaises, Unpick
    <3> QED
      BY <3>2
  <2> QED
    BY <2>1, <2>2
<1>6. CASE UNCHANGED ocrJobsVars
  BY <1>0, <1>6 DEF ocrJobsVars, Preparing
<1> QED
  BY <1>1, <1>2, <1>3, <1>4, <1>5, <1>6, StepKinds

\* A pick that stands keeps fitting.
LEMMA PickStays ==
    ASSUME RowsTypeOK, PicksFit, CallsFit, JobsApart, [OcrJobsNext]_ocrJobsVars, NEW s \in Slots, picked[s] # NoPick,
           picked'[s] = picked[s]
    PROVE  PickFits(s)'
<1> DEFINE r == picked[s].run
<1>1. PickFits(s) /\ Preparing(s) /\ picked[s].book \in calls[s].todo
  BY DEF PicksFit, PickFits
<1>2. Preparing(s)' /\ picked[s].book \in calls'[s].todo /\ calls'[s].job = calls[s].job
  BY <1>1, PickedCallStays
<1>3. ASSUME r # 0
      PROVE  r \in Ids' /\ runs'[r].book = picked[s].book /\ (Untouched(r)' => calls[s].job \in strayed')
  <2>1. r \in Ids /\ runs[r].book = picked[s].book /\ (Untouched(r) => calls[s].job \in strayed)
    BY <1>1, <1>3 DEF PickFits
  <2>2. r \in Ids' /\ runs'[r].book = runs[r].book /\ strayed \subseteq strayed'
    BY <2>1, StepMovesRuns DEF RunsMove, RunMoves
  <2>3. ASSUME Untouched(r)' PROVE calls[s].job \in strayed
    <3>1. runs'[r].state \in InReview /\ ~Disturbed(r)
      BY <2>3, DisturbedStays DEF Untouched, InReview
    <3>2. CASE runs[r].state \in InReview
      BY <2>1, <3>1, <3>2 DEF Untouched
    <3>3. CASE runs[r].state \notin InReview
      BY <1>1, <2>1, <3>1, <3>3, StagedWhilePicked
    <3> QED
      BY <3>2, <3>3
  <2> QED
    BY <2>1, <2>2, <2>3
<1> HIDE DEF r
<1> QED
  BY <1>2, <1>3 DEF PickFits, r

\* What prepare_run reads fits when it is read.
LEMMA SelectFits ==
    ASSUME RowsTypeOK, PicksFit, NEW s \in Slots, Select(s)
    PROVE  /\ PickFits(s)'
           /\ \A t \in Slots : t # s => picked'[t] = picked[t]
           /\ ClaimsTypeOK'
<1>1. PICK b \in calls[s].todo : Picks(s, b, IF Resumable(b) = {} THEN 0 ELSE Latest(Resumable(b)))
  BY DEF Select
<1>0. PICK r : r = (IF Resumable(b) = {} THEN 0 ELSE Latest(Resumable(b)))
  OBVIOUS
<1>2. Preparing(s) /\ Serves(s) /\ UNCHANGED <<runs, calls, strayed, taken, jobVars>>
  BY DEF Select, Preparing, Serves
<1>3. Resumable(b) \subseteq 1 .. Len(runs)
  BY RunTypes DEF Resumable, ResumableAny
<1>4. r # 0 => r \in Resumable(b)
  BY <1>0, <1>3, LatestIsOne, RunTypes
<1>5. r # 0 => r \in Ids /\ runs[r].book = b /\ runs[r].state \notin InReview
  BY <1>4 DEF Resumable, ResumableAny, InReview
<1>6. b \in Books
  BY <1>2, CallTyped DEF CallsOver
<1>7. picked' = [picked EXCEPT ![s] = [book |-> b, run |-> r]]
  BY <1>0, <1>1 DEF Picks
<1>8. picked \in [Slots -> [book : Books \cup {Every}, run : {0} \cup Ids]] /\ taken \in [OcrJobs -> SUBSET Ids]
  BY DEF PicksFit, ClaimsTypeOK
<1>9. picked'[s].book = b /\ picked'[s].run = r /\ \A t \in Slots : t # s => picked'[t] = picked[t]
  BY <1>7, <1>8
<1>10. ClaimsTypeOK'
  BY <1>2, <1>5, <1>6, <1>7, <1>8 DEF ClaimsTypeOK, Ids
<1>11. Preparing(s)' /\ b \in calls'[s].todo
  BY <1>2 DEF Preparing
<1>12. r # 0 => r \in Ids' /\ runs'[r].book = b /\ ~Untouched(r)'
  BY <1>2, <1>5 DEF Untouched, Ids, InReview
<1>13. PickFits(s)'
  BY <1>9, <1>11, <1>12 DEF PickFits
<1> QED
  BY <1>9, <1>10, <1>13

\* Every step keeps the picks fitting.
LEMMA StepKeepsPicks ==
    ASSUME RowsTypeOK, PicksFit, CallsFit, JobsApart, [OcrJobsNext]_ocrJobsVars
    PROVE  PicksFit'
<1>0. /\ picked \in [Slots -> [book : Books \cup {Every}, run : {0} \cup Ids]] /\ taken \in [OcrJobs -> SUBSET Ids]
      /\ \A s \in Slots : CallFits(s)
  BY DEF PicksFit, ClaimsTypeOK, CallsFit
<1>1. Ids \subseteq Ids'
  BY StepMovesRuns DEF RunsMove
<1>2. NoPick \in [book : Books \cup {Every}, run : {0} \cup Ids']
  BY DEF NoPick
<1>3. ASSUME NEW s \in Slots, picked'[s] = picked[s] \/ picked'[s] = NoPick PROVE PickFits(s)'
  <2>1. CASE picked'[s] = NoPick
    BY <2>1 DEF PickFits, NoPick
  <2>2. CASE picked'[s] = picked[s] /\ picked[s] # NoPick
    BY <2>2, PickStays
  <2> QED
    BY <1>3, <2>1, <2>2
<1>4. CASE UNCHANGED claimVars
  <2>1. ClaimsTypeOK' /\ \A s \in Slots : picked'[s] = picked[s]
    BY <1>0, <1>1, <1>4 DEF claimVars, ClaimsTypeOK
  <2> QED
    BY <1>3, <2>1 DEF PicksFit
<1>5. ASSUME NEW s \in Slots, Select(s) PROVE PicksFit'
  BY <1>3, <1>5, SelectFits DEF PicksFit
<1>6. ASSUME NEW s \in Slots, Prepare(s) PROVE PicksFit'
  <2>1. picked' = [picked EXCEPT ![s] = NoPick]
    BY <1>6 DEF Prepare, Unpick
  <2>2. PICK r \in Ids' : taken' = [taken EXCEPT ![calls[s].job] = @ \cup {r}]
    BY <1>0, <1>6, PrepareDoes
  <2>3. ClaimsTypeOK' /\ \A t \in Slots : picked'[t] = picked[t] \/ picked'[t] = NoPick
    BY <1>0, <1>1, <1>2, <2>1, <2>2 DEF ClaimsTypeOK
  <2> QED
    BY <1>3, <2>3 DEF PicksFit
<1>7. ASSUME NEW s \in Slots, Unpick(s), taken' = taken PROVE PicksFit'
  <2>1. picked' = [picked EXCEPT ![s] = NoPick]
    BY <1>7 DEF Unpick
  <2>2. ClaimsTypeOK' /\ \A t \in Slots : picked'[t] = picked[t] \/ picked'[t] = NoPick
    BY <1>0, <1>1, <1>2, <1>7, <2>1 DEF ClaimsTypeOK
  <2> QED
    BY <1>3, <2>2 DEF PicksFit
<1>8. CASE picked' = [s \in Slots |-> NoPick] /\ taken' = taken
  <2>1. ClaimsTypeOK' /\ \A t \in Slots : picked'[t] = NoPick
    BY <1>0, <1>1, <1>2, <1>8 DEF ClaimsTypeOK
  <2> QED
    BY <1>3, <2>1 DEF PicksFit
<1> QED
  BY <1>4, <1>5, <1>6, <1>7, <1>8, PickMoves

-----------------------------------------------------------------------------
(* The target of a job comes into the review. *)

\* A queued job keeps its target, and is not forgotten.
LEMMA TargetsStay ==
    ASSUME RowsTypeOK, PicksFit, CallsFit, [OcrJobsNext]_ocrJobsVars, NEW j \in OcrJobs, state[j] # "absent"
    PROVE  state'[j] # "absent" /\ target'[j] = target[j]
<1>t. state \in [OcrJobs -> JobStates]
  BY DEF RowsTypeOK
<1>1. CASE UserStep
  BY <1>1, UserDoes
<1>2. CASE Aside
  BY <1>2, AgentOnlyDoes
<1>3. CASE OcrRestart
  BY <1>3, RestartDoes
<1>4. ASSUME NEW kind, NEW books, Posting(kind, books) PROVE state'[j] # "absent" /\ target'[j] = target[j]
  BY <1>4, PostDoes DEF Posting
<1>5. ASSUME NEW after \in AgentRecords, Leaving(after) PROVE state'[j] # "absent" /\ target'[j] = target[j]
  BY <1>5, AbandonDoes DEF Leaving
<1>6. ASSUME NEW s \in Slots, CallStep(s) PROVE state'[j] # "absent" /\ target'[j] = target[j]
  <2>0. CallFits(s)
    BY DEF CallsFit
  <2>1. CASE Recover(s)
    BY <1>t, <2>0, <2>1, RecoverDoes
  <2>2. CASE Again(s)
    BY <1>t, <2>0, <2>2, AgainDoes
  <2>3. CASE Take(s)
    BY <1>t, <2>0, <2>3, TakeDoes
  <2>4. CASE NothingToClaim(s)
    BY <1>t, <2>0, <2>4, NothingDoes
  <2>5. CASE Prepare(s)
    BY <1>t, <2>0, <2>5, PrepareDoes
  <2>6. CASE Map(s)
    BY <1>t, <2>0, <2>6, MapDoes
  <2>7. CASE PrepareRaises(s)
    BY <1>t, <2>0, <2>7, PrepareRaisesDoes
  <2>8. CASE Admit(s)
    BY <1>t, <2>0, <2>8, AdmitDoes
  <2>9. CASE SavePage(s)
    BY <1>t, <2>0, <2>9, SavePageDoes
  <2>10. CASE StageNext(s)
    BY <1>t, <2>0, <2>10, StageNextDoes
  <2>11. CASE StageRaises(s)
    BY <1>t, <2>0, <2>11, StageRaisesDoes
  <2>12. CASE FinishComplete(s)
    BY <1>t, <2>0, <2>12, FinishCompleteDoes
  <2>13. CASE MarkFailed(s)
    BY <1>t, <2>0, <2>13, MarkFailedDoes
  <2>14. CASE FinishFail(s)
    BY <1>t, <2>0, <2>14, FinishFailDoes
  <2>15. CASE WorkerTake(s)
    BY <1>t, <2>0, <2>15, WorkerTakeDoes
  <2>16. CASE WorkerReads(s)
    BY <1>t, <2>0, <2>16, WorkerReadsDoes
  <2>17. CASE WorkerPage(s)
    BY <1>t, <2>0, <2>17, WorkerPageDoes
  <2>18. CASE WorkerRaises(s)
    BY <1>t, <2>0, <2>18, WorkerRaisesDoes
  <2>19. CASE WorkerStage(s)
    BY <1>t, <2>0, <2>19, WorkerStageDoes
  <2>20. CASE WorkerEnds(s)
    BY <1>t, <2>0, <2>20, WorkerEndsDoes
  <2> QED
    BY <1>6, <2>1, <2>2, <2>3, <2>4, <2>5, <2>6, <2>7, <2>8, <2>9, <2>10, <2>11, <2>12, <2>13, <2>14, <2>15, <2>16, <2>17, <2>18, <2>19, <2>20 DEF CallStep
<1>7. CASE UNCHANGED ocrJobsVars
  BY <1>7 DEF ocrJobsVars, jobVars
<1> QED
  BY <1>1, <1>2, <1>3, <1>4, <1>5, <1>6, <1>7, StepKinds

\* Runs keep their books.
LEMMA HasStays ==
    ASSUME RunsMove, NEW set, set \subseteq Ids, NEW b, Has(set, b), NEW more, set \subseteq more
    PROVE  \E r \in more : runs'[r].book = b
BY DEF RunsMove, RunMoves, Has

\* What was delivered stays in the review, or a stray job may write to it.
LEMMA DeliveredStays ==
    ASSUME RowsTypeOK, PicksFit, CallsFit, JobsApart, ReviewRests, [OcrJobsNext]_ocrJobsVars, NEW b, Delivered(b)
    PROVE  \E r \in Ids' : runs'[r].book = b /\ (runs'[r].state \in InReview \/ Disturbed(r)')
<1>1. RunsMove
  BY StepMovesRuns
<1>2. PICK r \in Ids : runs[r].book = b /\ (runs[r].state \in InReview \/ Disturbed(r))
  BY DEF Delivered
<1>3. r \in Ids' /\ runs'[r].book = b
  BY <1>1, <1>2 DEF RunsMove, RunMoves
<1>4. CASE Disturbed(r)'
  BY <1>3, <1>4
<1>5. CASE ~Disturbed(r)'
  <2>1. Untouched(r) /\ InPeace(r)
    BY <1>2, <1>5, DisturbedStays DEF Untouched, ReviewRests
  <2>2. runs'[r].state \in {runs[r].state, "completed"}
    BY <1>2, <1>5, <2>1, StepLeavesRest
  <2> QED
    BY <1>3, <2>1, <2>2 DEF Untouched, InReview
<1> QED
  BY <1>4, <1>5

\* The running job of a completion in order is not ended by another call.
LEMMA KeepsRunning ==
    ASSUME RowsTypeOK, PicksFit, CallsFit, NEW s \in Slots, CallStep(s), NEW t \in Slots, t # s, Staging(t),
           calls[t].job \notin strayed', calls[t].job \notin strayed, state[calls[t].job] = "running"
    PROVE  state'[calls[t].job] = "running"
<1>0. CallFits(s)
  BY DEF CallsFit
<1>t. state \in [OcrJobs -> JobStates]
  BY DEF RowsTypeOK
<1>1. OfJob(t) /\ byAgent /\ calls[t].job \in OcrJobs
  BY DEF CallsFit, CallFits, OfJob, Serves, Staging
<1>2. AwaitedAt(t)
  BY <1>1, UnawaitedIsStray DEF AwaitedAt, OfJob
<1>3. ~AwaitedAt(s)
  BY <1>2 DEF CallsFit, AgentFits
<1>4. OfJob(s) => calls[s].job \in strayed
  BY <1>1, <1>3, UnawaitedIsStray DEF AwaitedAt, OfJob
<1>5. calls[s].kind # "worker"
  BY <1>0, <1>1 DEF CallFits, Serves
<1>6. CASE Recover(s)
  <2>1. /\ ~calls[s].awaited => \A j \in OcrJobs : state[j] = "running" /\ ~fresh[j] => j \in strayed'
        /\ state'[calls[t].job] = IF state[calls[t].job] = "running" /\ ~fresh[calls[t].job]
                                  THEN "failed" ELSE state[calls[t].job]
        /\ Serves(s)
    BY <1>1, <1>6, RecoverDoes DEF Serves
  <2> QED
    BY <1>1, <1>3, <2>1 DEF AwaitedAt
<1>7. CASE Again(s)
  BY <1>0, <1>t, <1>1, <1>4, <1>5, <1>7, AgainDoes DEF OfJob, Serves
<1>8. CASE Take(s)
  BY <1>0, <1>t, <1>1, <1>4, <1>5, <1>8, TakeDoes DEF OfJob, Serves
<1>9. CASE NothingToClaim(s)
  BY <1>0, <1>t, <1>1, <1>4, <1>5, <1>9, NothingDoes DEF OfJob, Serves
<1>10. CASE Prepare(s)
  BY <1>0, <1>t, <1>1, <1>4, <1>5, <1>10, PrepareDoes DEF OfJob, Serves
<1>11. CASE Map(s)
  BY <1>0, <1>t, <1>1, <1>4, <1>5, <1>11, MapDoes DEF OfJob, Serves
<1>12. CASE PrepareRaises(s)
  BY <1>0, <1>t, <1>1, <1>4, <1>5, <1>12, PrepareRaisesDoes DEF OfJob, Serves
<1>13. CASE Admit(s)
  BY <1>0, <1>t, <1>1, <1>4, <1>5, <1>13, AdmitDoes DEF OfJob, Serves
<1>14. CASE SavePage(s)
  BY <1>0, <1>t, <1>1, <1>4, <1>5, <1>14, SavePageDoes DEF OfJob, Serves
<1>15. CASE StageNext(s)
  BY <1>0, <1>t, <1>1, <1>4, <1>5, <1>15, StageNextDoes DEF OfJob, Serves
<1>16. CASE StageRaises(s)
  BY <1>0, <1>t, <1>1, <1>4, <1>5, <1>16, StageRaisesDoes DEF OfJob, Serves
<1>17. CASE FinishComplete(s)
  BY <1>0, <1>t, <1>1, <1>4, <1>5, <1>17, FinishCompleteDoes DEF OfJob, Serves
<1>18. CASE MarkFailed(s)
  BY <1>0, <1>t, <1>1, <1>4, <1>5, <1>18, MarkFailedDoes DEF OfJob, Serves
<1>19. CASE FinishFail(s)
  BY <1>0, <1>t, <1>1, <1>4, <1>5, <1>19, FinishFailDoes DEF OfJob, Serves
<1>20. CASE WorkerTake(s)
  BY <1>0, <1>t, <1>1, <1>4, <1>5, <1>20, WorkerTakeDoes DEF OfJob, Serves
<1>21. CASE WorkerReads(s)
  BY <1>0, <1>t, <1>1, <1>4, <1>5, <1>21, WorkerReadsDoes DEF OfJob, Serves
<1>22. CASE WorkerPage(s)
  BY <1>0, <1>t, <1>1, <1>4, <1>5, <1>22, WorkerPageDoes DEF OfJob, Serves
<1>23. CASE WorkerRaises(s)
  BY <1>0, <1>t, <1>1, <1>4, <1>5, <1>23, WorkerRaisesDoes DEF OfJob, Serves
<1>24. CASE WorkerStage(s)
  BY <1>0, <1>t, <1>1, <1>4, <1>5, <1>24, WorkerStageDoes DEF OfJob, Serves
<1>25. CASE WorkerEnds(s)
  BY <1>0, <1>t, <1>1, <1>4, <1>5, <1>25, WorkerEndsDoes DEF OfJob, Serves
<1> QED
  BY <1>6, <1>7, <1>8, <1>9, <1>10, <1>11, <1>12, <1>13, <1>14, <1>15, <1>16, <1>17, <1>18, <1>19, <1>20, <1>21, <1>22, <1>23, <1>24, <1>25 DEF CallStep

SameCall(s) ==
    /\ calls'[s].kind = calls[s].kind
    /\ Serves(s) => /\ calls'[s].at = calls[s].at /\ calls'[s].job = calls[s].job /\ calls'[s].bad = calls[s].bad
                    /\ calls'[s].todo = calls[s].todo /\ calls'[s].got = calls[s].got

\* The job of a call that prepares, stages or works has been queued.
LEMMA JobIsQueued ==
    ASSUME CallsFit, JobsApart, NEW s \in Slots, CallAims(s),
           Preparing(s) \/ calls[s].kind = "worker" \/ (Staging(s) /\ calls[s].job \notin strayed)
    PROVE  OfJob(s) /\ Serves(s) /\ calls[s].job \in OcrJobs /\ state[calls[s].job] # "absent"
<1>1. OfJob(s) /\ Serves(s) /\ calls[s].job \in OcrJobs
  BY DEF CallsFit, CallFits, OfJob, Serves, Preparing, Staging
<1>2. calls[s].kind = "claim" /\ Preparing(s) => state[calls[s].job] # "absent"
  BY DEF JobsApart, PreparedOnce
<1> QED
  BY <1>1, <1>2 DEF CallAims, Preparing

\* A call that does not move keeps its aim.
LEMMA AimsStay ==
    ASSUME RowsTypeOK, PicksFit, CallsFit, JobsApart, ReviewRests, TargetGoesOn, [OcrJobsNext]_ocrJobsVars,
           NEW s \in Slots, SameCall(s),
           Staging(s) /\ calls[s].job \notin strayed' /\ state[calls[s].job] = "running" =>
               state'[calls[s].job] = "running"
    PROVE  CallAims(s)'
<1> DEFINE j == calls[s].job
           b == target[j]
<1>0. RunsMove /\ CallAims(s)
  BY StepMovesRuns DEF TargetGoesOn
<1>1. strayed \subseteq strayed' /\ (Serves(s) => calls[s].got \subseteq Ids)
  BY <1>0, CallTyped DEF RunsMove, CallsOver
<1>2. Has(calls[s].got, b) /\ Serves(s) => \E r \in calls[s].got : runs'[r].book = b
  BY <1>0, <1>1, HasStays
<1>3. Delivered(b) => \E r \in Ids' : runs'[r].book = b /\ (runs'[r].state \in InReview \/ Disturbed(r)')
  BY DeliveredStays
<1>4. Preparing(s) \/ calls[s].kind = "worker" \/ (Staging(s) /\ j \notin strayed) =>
        Serves(s) /\ state'[j] # "absent" /\ target'[j] = b
  BY <1>0, JobIsQueued, TargetsStay
<1>5. /\ Preparing(s)' <=> Preparing(s)
      /\ Staging(s)' <=> Staging(s)
      /\ Preparing(s) \/ Staging(s) \/ calls[s].kind = "worker" => Serves(s)
  BY DEF SameCall, Preparing, Staging, Serves
<1>6. Preparing(s)' /\ target'[calls'[s].job] # Every =>
        target'[calls'[s].job] \in calls'[s].todo \/ \E r \in calls'[s].got : runs'[r].book = target'[calls'[s].job]
  BY <1>0, <1>2, <1>4, <1>5 DEF SameCall, CallAims
<1>7. Staging(s)' /\ calls'[s].job \notin strayed' =>
        /\ state'[calls'[s].job] = "running"
        /\ target'[calls'[s].job] # Every =>
             \/ \E r \in calls'[s].got : runs'[r].book = target'[calls'[s].job]
             \/ \E r \in Ids' : runs'[r].book = target'[calls'[s].job] /\ (runs'[r].state \in InReview \/ Disturbed(r)')
  BY <1>0, <1>1, <1>2, <1>3, <1>4, <1>5 DEF SameCall, CallAims
<1>8. calls'[s].kind = "worker" =>
        /\ state'[calls'[s].job] # "absent"
        /\ target'[calls'[s].job] = b /\ calls'[s].at = calls[s].at /\ calls'[s].bad = calls[s].bad
        /\ calls'[s].got = calls[s].got
  BY <1>4, <1>5 DEF SameCall
<1>9. calls'[s].kind = "worker" /\ target'[calls'[s].job] # Every =>
        /\ calls'[s].at \in {"prepare", "pages"} => ~calls'[s].bad
        /\ calls'[s].at = "pages" => \E r \in calls'[s].got : runs'[r].book = target'[calls'[s].job]
        /\ calls'[s].at = "stage" =>
             \/ calls'[s].bad
             \/ \E r \in calls'[s].got : runs'[r].book = target'[calls'[s].job]
             \/ \E r \in Ids' : runs'[r].book = target'[calls'[s].job] /\ (runs'[r].state \in InReview \/ Disturbed(r)')
  <2> SUFFICES ASSUME calls'[s].kind = "worker", b # Every
        PROVE /\ calls[s].at \in {"prepare", "pages"} => ~calls[s].bad
              /\ calls[s].at = "pages" => \E r \in calls[s].got : runs'[r].book = b
              /\ calls[s].at = "stage" =>
                   \/ calls[s].bad
                   \/ \E r \in calls[s].got : runs'[r].book = b
                   \/ \E r \in Ids' : runs'[r].book = b /\ (runs'[r].state \in InReview \/ Disturbed(r)')
    BY <1>8
  <2>1. calls[s].kind = "worker" /\ Serves(s)
    BY <1>5 DEF SameCall
  <2> QED
    BY <1>0, <1>2, <1>3, <2>1 DEF CallAims
<1> HIDE DEF j, b
<1> QED
  BY <1>6, <1>7, <1>8, <1>9 DEF CallAims, Has, Delivered

\* A call that is over, or looks for work, aims at nothing.
LEMMA NoAim ==
    ASSUME NEW s \in Slots,
           calls'[s].kind \in {"free", "page", "fail"} \/ (calls'[s].kind = "claim" /\ calls'[s].at # "prepare")
    PROVE  CallAims(s)'
BY DEF CallAims, Preparing, Staging

\* The calls that prepare, stage and recognise keep their aims.
LEMMA TakeAims ==
    ASSUME RowsTypeOK, PicksFit, NEW s \in Slots, Take(s) \/ WorkerTake(s)
    PROVE  CallAims(s)'
<1>1. PICK j \in OcrJobs :
        /\ state[j] = "queued" /\ state' = [state EXCEPT ![j] = "running"] /\ target' = target
        /\ calls'[s].kind \in {"claim", "worker"} /\ calls'[s].at = "prepare" /\ calls'[s].job = j
        /\ calls'[s].todo = TargetsOf(j) /\ (calls'[s].kind = "worker" => ~calls'[s].bad)
  BY TakeDoes, WorkerTakeDoes DEF CallIs
<1>2. target[j] # Every => target[j] \in TargetsOf(j)
  BY DEF TargetsOf
<1>3. state'[j] = "running"
  BY <1>1 DEF RowsTypeOK
<1> QED
  BY <1>1, <1>2, <1>3 DEF CallAims, Preparing, Staging

\* A call that registers its job aims at that job's run and pages.
LEMMA PrepareAims ==
    ASSUME RowsTypeOK, PicksFit, CallsFit, JobsApart, RunsMove, NEW s \in Slots, CallAims(s), Prepare(s)
    PROVE  CallAims(s)'
<1>0. CallFits(s)
  BY DEF CallsFit
<1>1. /\ Preparing(s) /\ UNCHANGED <<state, target, strayed>>
  BY <1>0, PrepareDoes
<1>2. PICK b \in calls[s].todo, r \in Ids' :
        /\ runs'[r].book = b
        /\ CallIs(calls'[s], calls[s].kind, "prepare", calls[s].job, calls[s].todo \ {b},
                  calls[s].got \cup {r}, calls[s].bad, calls[s].awaited)
  BY <1>0, PrepareDoes
<1>3. /\ Serves(s) /\ calls[s].kind \in {"claim", "worker"} /\ calls[s].at = "prepare" /\ calls[s].got \subseteq Ids
      /\ (calls[s].kind = "worker" => state[calls[s].job] # "absent")
  BY <1>1, JobIsQueued, CallTyped DEF Preparing, CallsOver
<1>4. Has(calls[s].got, target[calls[s].job]) => \E q \in calls[s].got \cup {r} : runs'[q].book = target[calls[s].job]
  BY <1>3, HasStays
<1>5. target[calls[s].job] # Every =>
        \/ target[calls[s].job] \in calls[s].todo \ {b}
        \/ \E q \in calls[s].got \cup {r} : runs'[q].book = target[calls[s].job]
  BY <1>1, <1>2, <1>4 DEF CallAims
<1>6. calls[s].kind = "worker" /\ target[calls[s].job] # Every => ~calls[s].bad
  BY <1>3 DEF CallAims
<1> QED
  BY <1>1, <1>2, <1>3, <1>5, <1>6 DEF CallAims, Preparing, Staging, CallIs, Has

\* A call that is let in keeps its aim.
LEMMA AdmitAims ==
    ASSUME RowsTypeOK, PicksFit, CallsFit, JobsApart, TargetGoesOn, NEW s \in Slots, Admit(s)
    PROVE  CallAims(s)'
<1>0. CallFits(s)
  BY DEF CallsFit
<1>1. /\ UNCHANGED <<state, target, mapped, strayed, runs>>
      /\ calls[s].kind \in {"page", "complete", "fail"} /\ calls[s].at = "check" /\ calls[s].job \in OcrJobs
  BY <1>0, AdmitDoes
<1>2. CASE calls[s].kind # "complete" \/ calls'[s] = Free
  BY <1>0, <1>1, <1>2, AdmitDoes, NoAim DEF CallIs, Free
<1>3. CASE calls[s].kind = "complete" /\ calls'[s] # Free
  <2>1. /\ state[calls[s].job] = "running" /\ calls'[s].kind = "complete" /\ calls'[s].job = calls[s].job
        /\ calls'[s].got = mapped[calls[s].job]
    BY <1>0, <1>3, AdmitDoes DEF CallIs
  <2>2. OfJob(s) /\ Serves(s) /\ byAgent
    BY <1>0, <1>3 DEF OfJob, Serves, CallFits
  <2>3. ASSUME calls[s].job \notin strayed, target[calls[s].job] # Every
        PROVE  Has(mapped[calls[s].job], target[calls[s].job])
    <3>1. AwaitedAt(s)
      BY <2>2, <2>3, UnawaitedIsStray DEF AwaitedAt
    <3>2. ~\E t \in Slots : Bringing(t, calls[s].job)
      BY <1>3, <3>1 DEF Bringing, CallsFit, AgentFits
    <3> QED
      BY <1>1, <2>1, <2>2, <2>3, <3>2 DEF TargetGoesOn, JobAims
  <2> QED
    BY <1>1, <2>1, <2>3 DEF CallAims, Preparing, Staging, Has
<1> QED
  BY <1>2, <1>3

\* A call that reads its input, or looks for a cancellation, keeps its aim.
LEMMA StageAims ==
    ASSUME RowsTypeOK, PicksFit, CallsFit, JobsApart, ReviewRests, TargetGoesOn, [OcrJobsNext]_ocrJobsVars,
           NEW s \in Slots, StageNext(s)
    PROVE  CallAims(s)'
<1> DEFINE b == target[calls[s].job]
<1>0. RunsMove /\ CallAims(s)
  BY StepMovesRuns DEF TargetGoesOn
<1>1. Staging(s) /\ UNCHANGED <<state, target, strayed>> /\ Ids' = Ids
  BY StageNextDoes
<1>2. PICK r \in calls[s].got :
        /\ r \in Ids /\ runs'[r].state = "awaiting_qa" /\ runs'[r].book = runs[r].book
        /\ CallIs(calls'[s], "complete", "write", calls[s].job, calls[s].todo, calls[s].got \ {r},
                  calls[s].bad, calls[s].awaited)
  BY StageNextDoes
<1>3. calls[s].got \subseteq Ids
  BY <1>1, CallTyped DEF Staging, Serves, CallsOver
<1>4. Has(calls[s].got, b) => \/ \E q \in calls[s].got \ {r} : runs'[q].book = b
                              \/ runs'[r].book = b
  BY <1>0, <1>2, <1>3 DEF Has, RunsMove, RunMoves
<1>5. Delivered(b) \/ runs'[r].book = b =>
        \E q \in Ids' : runs'[q].book = b /\ (runs'[q].state \in InReview \/ Disturbed(q)')
  BY <1>1, <1>2, DeliveredStays DEF InReview
<1>6. calls[s].job \notin strayed =>
        /\ state[calls[s].job] = "running"
        /\ b # Every => \/ \E q \in calls[s].got \ {r} : runs'[q].book = b
                        \/ \E q \in Ids' : runs'[q].book = b /\ (runs'[q].state \in InReview \/ Disturbed(q)')
  BY <1>0, <1>1, <1>4, <1>5 DEF CallAims
<1> QED
  BY <1>1, <1>2, <1>6 DEF CallAims, Preparing, Staging, CallIs, Has, Delivered

\* The worker's lines leave a call on the pages it has still to do.
LEMMA WorkerAims ==
    ASSUME RowsTypeOK, PicksFit, CallsFit, JobsApart, ReviewRests, TargetGoesOn, [OcrJobsNext]_ocrJobsVars,
           NEW s \in Slots, WorkerReads(s) \/ WorkerPage(s) \/ WorkerStage(s)
    PROVE  CallAims(s)'
<1> DEFINE b == target[calls[s].job]
<1>0. RunsMove /\ CallAims(s)
  BY StepMovesRuns DEF TargetGoesOn
<1>1. calls[s].kind = "worker" /\ UNCHANGED <<state, target, strayed>> /\ Ids' = Ids
  BY WorkerReadsDoes, WorkerPageDoes, WorkerStageDoes DEF Ids
<1>2. Serves(s) /\ state[calls[s].job] # "absent" /\ calls[s].got \subseteq Ids
  BY <1>0, <1>1, JobIsQueued, CallTyped DEF CallsOver
<1>3. Has(calls[s].got, b) => \E q \in calls[s].got : runs'[q].book = b
  BY <1>0, <1>2, HasStays
<1>4. Delivered(b) => \E q \in Ids' : runs'[q].book = b /\ (runs'[q].state \in InReview \/ Disturbed(q)')
  BY DeliveredStays
<1>5. calls'[s].kind = "worker" /\ calls'[s].job = calls[s].job
  BY WorkerReadsDoes, WorkerPageDoes, WorkerStageDoes DEF CallIs
<1>6. CASE WorkerReads(s)
  <2>1. /\ Preparing(s) /\ calls[s].todo = {} /\ calls'[s].at = "pages" /\ calls'[s].got = calls[s].got
        /\ calls'[s].bad = calls[s].bad
    BY <1>6, WorkerReadsDoes DEF CallIs
  <2>2. b # Every => ~calls[s].bad /\ \E q \in calls[s].got : runs'[q].book = b
    BY <1>0, <1>1, <1>3, <2>1 DEF CallAims, Preparing
  <2> QED
    BY <1>1, <1>2, <1>5, <2>1, <2>2 DEF CallAims, Preparing, Staging, Has
<1>7. CASE WorkerPage(s)
  <2>1. /\ calls[s].at = "pages" /\ calls'[s].at = "pages" /\ calls'[s].got = calls[s].got /\ calls'[s].bad = calls[s].bad
    BY <1>7, WorkerPageDoes DEF CallIs
  <2>2. b # Every => ~calls[s].bad /\ \E q \in calls[s].got : runs'[q].book = b
    BY <1>0, <1>1, <1>3, <2>1 DEF CallAims
  <2> QED
    BY <1>1, <1>2, <1>5, <2>1, <2>2 DEF CallAims, Preparing, Staging, Has
<1>8. CASE WorkerStage(s)
  <2>0. PICK r \in calls[s].got, to \in {"awaiting_qa", "failed"} :
          /\ \A q \in Ids : /\ runs'[q].page = runs[q].page /\ runs'[q].book = runs[q].book
                            /\ runs'[q].state = IF q = r THEN to ELSE runs[q].state
          /\ CallIs(calls'[s], "worker", "stage", calls[s].job, calls[s].todo, calls[s].got \ {r},
                    IF to = "failed" THEN TRUE ELSE calls[s].bad, calls[s].awaited)
    BY <1>8, WorkerStageDoes
  <2>1. /\ \A q \in Ids : runs'[q].book = runs[q].book /\ runs'[q].state = IF q = r THEN to ELSE runs[q].state
        /\ calls'[s].at = "stage" /\ calls'[s].got = calls[s].got \ {r}
        /\ calls'[s].bad = IF to = "failed" THEN TRUE ELSE calls[s].bad
    BY <2>0 DEF CallIs
  <2>2. calls[s].at \in {"pages", "stage"} /\ r \in Ids
    BY <1>2, <1>8, WorkerStageDoes
  <2>3. CASE to = "failed"
    BY <1>1, <1>2, <1>5, <2>1, <2>3 DEF CallAims, Preparing, Staging
  <2>4. CASE to = "awaiting_qa"
    <3>1. runs'[r].book = b => \E q \in Ids' : runs'[q].book = b /\ (runs'[q].state \in InReview \/ Disturbed(q)')
      BY <1>1, <2>1, <2>2, <2>4 DEF InReview
    <3>2. Has(calls[s].got, b) => \/ \E q \in calls[s].got \ {r} : runs'[q].book = b
                                  \/ runs'[r].book = b
      BY <1>3
    <3>3. b # Every =>
            \/ calls[s].bad
            \/ \E q \in calls[s].got \ {r} : runs'[q].book = b
            \/ \E q \in Ids' : runs'[q].book = b /\ (runs'[q].state \in InReview \/ Disturbed(q)')
      BY <1>0, <1>1, <1>4, <2>2, <3>1, <3>2 DEF CallAims
    <3>4. calls'[s].bad = calls[s].bad
      BY <2>1, <2>4
    <3> QED
      BY <1>1, <1>2, <1>5, <2>1, <3>3, <3>4 DEF CallAims, Preparing, Staging, Has, Delivered
  <2> QED
    BY <2>3, <2>4
<1> QED
  BY <1>6, <1>7, <1>8

\* A step of a call moves its slot only.
LEMMA OthersStay ==
    ASSUME RowsTypeOK, PicksFit, CallsFit, NEW s \in Slots, CallStep(s), NEW t \in Slots, t # s
    PROVE  calls'[t] = calls[t]
<1>0. CallFits(s)
  BY DEF CallsFit
<1>1. CASE Recover(s)
  BY <1>0, <1>1, RecoverDoes
<1>2. CASE Again(s)
  BY <1>0, <1>2, AgainDoes
<1>3. CASE Take(s)
  BY <1>0, <1>3, TakeDoes
<1>4. CASE NothingToClaim(s)
  BY <1>0, <1>4, NothingDoes
<1>5. CASE Prepare(s)
  BY <1>0, <1>5, PrepareDoes
<1>6. CASE Map(s)
  BY <1>0, <1>6, MapDoes
<1>7. CASE PrepareRaises(s)
  BY <1>0, <1>7, PrepareRaisesDoes
<1>8. CASE Admit(s)
  BY <1>0, <1>8, AdmitDoes
<1>9. CASE SavePage(s)
  BY <1>0, <1>9, SavePageDoes
<1>10. CASE StageNext(s)
  BY <1>0, <1>10, StageNextDoes
<1>11. CASE StageRaises(s)
  BY <1>0, <1>11, StageRaisesDoes
<1>12. CASE FinishComplete(s)
  BY <1>0, <1>12, FinishCompleteDoes
<1>13. CASE MarkFailed(s)
  BY <1>0, <1>13, MarkFailedDoes
<1>14. CASE FinishFail(s)
  BY <1>0, <1>14, FinishFailDoes
<1>15. CASE WorkerTake(s)
  BY <1>0, <1>15, WorkerTakeDoes
<1>16. CASE WorkerReads(s)
  BY <1>0, <1>16, WorkerReadsDoes
<1>17. CASE WorkerPage(s)
  BY <1>0, <1>17, WorkerPageDoes
<1>18. CASE WorkerRaises(s)
  BY <1>0, <1>18, WorkerRaisesDoes
<1>19. CASE WorkerStage(s)
  BY <1>0, <1>19, WorkerStageDoes
<1>20. CASE WorkerEnds(s)
  BY <1>0, <1>20, WorkerEndsDoes
<1> QED
  BY <1>1, <1>2, <1>3, <1>4, <1>5, <1>6, <1>7, <1>8, <1>9, <1>10, <1>11, <1>12, <1>13, <1>14, <1>15, <1>16, <1>17, <1>18, <1>19, <1>20 DEF CallStep

\* A step of a call leaves all calls at their aims.
LEMMA CallKeepsAims ==
    ASSUME RowsTypeOK, PicksFit, CallsFit, JobsApart, ReviewRests, TargetGoesOn, [OcrJobsNext]_ocrJobsVars,
           NEW s \in Slots, CallStep(s), NEW t \in Slots
    PROVE  CallAims(t)'
<1>0. CallFits(s) /\ CallAims(s) /\ CallAims(t) /\ RunsMove
  BY StepMovesRuns DEF TargetGoesOn, CallsFit
<1>1. CASE t # s
  <2>1. calls'[t] = calls[t]
    BY <1>1, OthersStay
  <2>2. strayed \subseteq strayed'
    BY <1>0 DEF RunsMove
  <2> QED
    BY <1>1, <2>1, <2>2, AimsStay, KeepsRunning DEF SameCall
<1>2. CASE t = s
  <2> SUFFICES CallAims(s)'
    BY <1>2
  <2>1. CASE Recover(s)
    BY <1>0, <2>1, RecoverDoes, NoAim DEF CallIs, Free
  <2>2. CASE Again(s)
    BY <1>0, <2>2, AgainDoes, NoAim DEF CallIs, Free
  <2>3. CASE Take(s)
    BY <1>0, <2>3, TakeAims
  <2>4. CASE NothingToClaim(s)
    BY <1>0, <2>4, NothingDoes, NoAim DEF CallIs, Free
  <2>5. CASE Prepare(s)
    BY <1>0, <2>5, PrepareAims
  <2>6. CASE Map(s)
    BY <1>0, <2>6, MapDoes, NoAim DEF CallIs, Free
  <2>7. CASE PrepareRaises(s)
    BY <1>0, <2>7, PrepareRaisesDoes, NoAim DEF CallIs, Free
  <2>8. CASE Admit(s)
    BY <1>0, <2>8, AdmitAims
  <2>9. CASE SavePage(s)
    BY <1>0, <2>9, SavePageDoes, NoAim DEF CallIs, Free
  <2>10. CASE StageNext(s)
    BY <1>0, <2>10, StageAims
  <2>11. CASE StageRaises(s)
    BY <1>0, <2>11, StageRaisesDoes, NoAim DEF CallIs, Free
  <2>12. CASE FinishComplete(s)
    BY <1>0, <2>12, FinishCompleteDoes, NoAim DEF CallIs, Free
  <2>13. CASE MarkFailed(s)
    BY <1>0, <2>13, MarkFailedDoes, NoAim DEF CallIs, Free
  <2>14. CASE FinishFail(s)
    BY <1>0, <2>14, FinishFailDoes, NoAim DEF CallIs, Free
  <2>15. CASE WorkerTake(s)
    BY <1>0, <2>15, TakeAims
  <2>16. CASE WorkerReads(s)
    BY <1>0, <2>16, WorkerAims
  <2>17. CASE WorkerPage(s)
    BY <1>0, <2>17, WorkerAims
  <2>18. CASE WorkerRaises(s)
    BY <1>0, <2>18, WorkerRaisesDoes, NoAim DEF CallIs, Free
  <2>19. CASE WorkerStage(s)
    BY <1>0, <2>19, WorkerAims
  <2>20. CASE WorkerEnds(s)
    BY <1>0, <2>20, WorkerEndsDoes, NoAim DEF CallIs, Free
  <2> QED
    BY <2>1, <2>2, <2>3, <2>4, <2>5, <2>6, <2>7, <2>8, <2>9, <2>10, <2>11, <2>12, <2>13, <2>14, <2>15, <2>16, <2>17, <2>18, <2>19, <2>20 DEF CallStep
<1> QED
  BY <1>1, <1>2

\* A step of a call leaves the running job on its way.
LEMMA CallKeepsJobAims ==
    ASSUME RowsTypeOK, PicksFit, CallsFit, JobsApart, TargetGoesOn, RunsMove,
           NEW s \in Slots, CallStep(s), NEW j \in OcrJobs
    PROVE  JobAims(j)'
<1>0. CallFits(s) /\ CallAims(s) /\ strayed \subseteq strayed'
  BY DEF TargetGoesOn, CallsFit, RunsMove
<1>t. state \in [OcrJobs -> JobStates] /\ mapped \in [OcrJobs -> SUBSET Ids]
  BY DEF RowsTypeOK
<1>a. ASSUME byAgent, state[j] = "running", j \notin strayed, target[j] # Every, UNCHANGED target,
             \A t \in Slots : t # s => calls'[t] = calls[t],
             mapped[j] \subseteq mapped'[j],
             Bringing(s, j) => Bringing(s, j)' \/ Has(mapped[j], target[j])'
      PROVE  JobAims(j)'
  <2>1. CASE \E t \in Slots : Bringing(t, j)
    <3>1. PICK t \in Slots : Bringing(t, j)
      BY <2>1
    <3>2. CASE t = s
      BY <1>a, <3>1, <3>2 DEF JobAims
    <3>3. CASE t # s
      <4>1. Bringing(t, j)'
        BY <1>a, <3>1, <3>3 DEF Bringing, AwaitedAt, Serves, Preparing
      <4> QED
        BY <4>1 DEF JobAims
    <3> QED
      BY <3>2, <3>3
  <2>2. CASE Has(mapped[j], target[j])
    <3>1. mapped[j] \subseteq Ids
      BY <1>t
    <3>2. \E r \in mapped[j] : runs[r].book = target[j] /\ r \in Ids
      BY <2>2, <3>1 DEF Has
    <3>3. \E r \in mapped'[j] : runs'[r].book = target[j]
      BY <1>a, <3>2 DEF RunsMove, RunMoves
    <3> QED
      BY <1>a, <3>3 DEF JobAims, Has
  <2> QED
    BY <1>a, <2>1, <2>2 DEF TargetGoesOn, JobAims
<1>b. ASSUME ~byAgent' \/ state'[j] # "running" \/ j \in strayed' \/ target'[j] = Every PROVE JobAims(j)'
  BY <1>b DEF JobAims
<1> SUFFICES ASSUME byAgent', state'[j] = "running", j \notin strayed', target'[j] # Every PROVE JobAims(j)'
  BY <1>b
<1>1. CASE Recover(s)
  <2>1. /\ UNCHANGED <<byAgent, target, mapped>> /\ state[j] = "running"
        /\ \A t \in Slots : t # s => calls'[t] = calls[t]
    BY <1>0, <1>t, <1>1, RecoverDoes
  <2>2. Bringing(s, j) => Bringing(s, j)'
    BY <1>0, <1>t, <1>1, RecoverDoes DEF Bringing, AwaitedAt, Serves, Preparing, Staging, CallIs
  <2> QED
    BY <1>0, <1>a, <2>1, <2>2
<1>2. CASE Again(s)
  <2>1. /\ UNCHANGED <<byAgent, target, mapped>> /\ state[j] = "running"
        /\ \A t \in Slots : t # s => calls'[t] = calls[t]
    BY <1>0, <1>t, <1>2, AgainDoes
  <2>2. Bringing(s, j) => Bringing(s, j)'
    BY <1>0, <1>t, <1>2, AgainDoes DEF Bringing, AwaitedAt, Serves, Preparing, Staging, CallIs
  <2> QED
    BY <1>0, <1>a, <2>1, <2>2
<1>3. CASE Take(s)
  <2>1. PICK k \in OcrJobs :
          /\ state' = [state EXCEPT ![k] = "running"]
          /\ calls'[s].kind = "claim" /\ calls'[s].at = "prepare" /\ calls'[s].job = k
          /\ calls'[s].awaited = calls[s].awaited
          /\ strayed' = IF calls[s].awaited THEN strayed ELSE strayed \cup {k}
    BY <1>3, TakeDoes DEF CallIs
  <2>2. \A m \in OcrJobs : state[m] # "running"
    BY <1>3, TakeDoes
  <2>3. j = k
    BY <1>t, <2>1, <2>2
  <2>4. Bringing(s, j)'
    BY <2>1, <2>3 DEF Bringing, AwaitedAt, Serves, Preparing
  <2> QED
    BY <2>4 DEF JobAims
<1>4. CASE NothingToClaim(s)
  <2>1. /\ UNCHANGED <<byAgent, target, mapped>> /\ state[j] = "running"
        /\ \A t \in Slots : t # s => calls'[t] = calls[t]
    BY <1>0, <1>t, <1>4, NothingDoes
  <2>2. Bringing(s, j) => Bringing(s, j)'
    BY <1>0, <1>t, <1>4, NothingDoes DEF Bringing, AwaitedAt, Serves, Preparing, Staging, CallIs
  <2> QED
    BY <1>0, <1>a, <2>1, <2>2
<1>5. CASE Prepare(s)
  <2>1. /\ UNCHANGED <<byAgent, target, mapped>> /\ state[j] = "running"
        /\ \A t \in Slots : t # s => calls'[t] = calls[t]
    BY <1>0, <1>t, <1>5, PrepareDoes
  <2>2. Bringing(s, j) => Bringing(s, j)'
    BY <1>0, <1>t, <1>5, PrepareDoes DEF Bringing, AwaitedAt, Serves, Preparing, Staging, CallIs
  <2> QED
    BY <1>0, <1>a, <2>1, <2>2
<1>6. CASE Map(s)
  <2>1. /\ UNCHANGED <<byAgent, state, target, runs, strayed>> /\ Preparing(s) /\ calls[s].todo = {}
        /\ calls[s].kind = "claim" /\ mapped' = [mapped EXCEPT ![calls[s].job] = calls[s].got]
        /\ \A t \in Slots : t # s => calls'[t] = calls[t]
    BY <1>0, <1>6, MapDoes
  <2>2. mapped[calls[s].job] = {}
    BY <2>1 DEF JobsApart, PreparedOnce
  <2>3. mapped[j] \subseteq mapped'[j]
    BY <1>t, <2>1, <2>2
  <2>4. ASSUME Bringing(s, j) PROVE Has(mapped[j], target[j])'
    <3>1. calls[s].job = j /\ mapped'[j] = calls[s].got
      BY <1>t, <2>1, <2>4 DEF Bringing
    <3>2. Has(calls[s].got, target[j])
      BY <1>0, <2>1, <3>1 DEF CallAims
    <3> QED
      BY <2>1, <3>1, <3>2 DEF Has
  <2> QED
    BY <1>a, <2>1, <2>3, <2>4
<1>7. CASE PrepareRaises(s)
  <2>1. /\ UNCHANGED <<byAgent, target, mapped>> /\ state[j] = "running"
        /\ \A t \in Slots : t # s => calls'[t] = calls[t]
    BY <1>0, <1>t, <1>7, PrepareRaisesDoes
  <2>2. Bringing(s, j) => Bringing(s, j)'
    BY <1>0, <1>t, <1>7, PrepareRaisesDoes DEF Bringing, AwaitedAt, Serves, Preparing, Staging, CallIs
  <2> QED
    BY <1>0, <1>a, <2>1, <2>2
<1>8. CASE Admit(s)
  <2>1. /\ UNCHANGED <<byAgent, target, mapped>> /\ state[j] = "running"
        /\ \A t \in Slots : t # s => calls'[t] = calls[t]
    BY <1>0, <1>t, <1>8, AdmitDoes
  <2>2. Bringing(s, j) => Bringing(s, j)'
    BY <1>0, <1>t, <1>8, AdmitDoes DEF Bringing, AwaitedAt, Serves, Preparing, Staging, CallIs
  <2> QED
    BY <1>0, <1>a, <2>1, <2>2
<1>9. CASE SavePage(s)
  <2>1. /\ UNCHANGED <<byAgent, target, mapped>> /\ state[j] = "running"
        /\ \A t \in Slots : t # s => calls'[t] = calls[t]
    BY <1>0, <1>t, <1>9, SavePageDoes
  <2>2. Bringing(s, j) => Bringing(s, j)'
    BY <1>0, <1>t, <1>9, SavePageDoes DEF Bringing, AwaitedAt, Serves, Preparing, Staging, CallIs
  <2> QED
    BY <1>0, <1>a, <2>1, <2>2
<1>10. CASE StageNext(s)
  <2>1. /\ UNCHANGED <<byAgent, target, mapped>> /\ state[j] = "running"
        /\ \A t \in Slots : t # s => calls'[t] = calls[t]
    BY <1>0, <1>t, <1>10, StageNextDoes
  <2>2. Bringing(s, j) => Bringing(s, j)'
    BY <1>0, <1>t, <1>10, StageNextDoes DEF Bringing, AwaitedAt, Serves, Preparing, Staging, CallIs
  <2> QED
    BY <1>0, <1>a, <2>1, <2>2
<1>11. CASE StageRaises(s)
  <2>1. /\ UNCHANGED <<byAgent, target, mapped>> /\ state[j] = "running"
        /\ \A t \in Slots : t # s => calls'[t] = calls[t]
    BY <1>0, <1>t, <1>11, StageRaisesDoes
  <2>2. Bringing(s, j) => Bringing(s, j)'
    BY <1>0, <1>t, <1>11, StageRaisesDoes DEF Bringing, AwaitedAt, Serves, Preparing, Staging, CallIs
  <2> QED
    BY <1>0, <1>a, <2>1, <2>2
<1>12. CASE FinishComplete(s)
  <2>1. /\ UNCHANGED <<byAgent, target, mapped>> /\ state[j] = "running"
        /\ \A t \in Slots : t # s => calls'[t] = calls[t]
    BY <1>0, <1>t, <1>12, FinishCompleteDoes
  <2>2. Bringing(s, j) => Bringing(s, j)'
    BY <1>0, <1>t, <1>12, FinishCompleteDoes DEF Bringing, AwaitedAt, Serves, Preparing, Staging, CallIs
  <2> QED
    BY <1>0, <1>a, <2>1, <2>2
<1>13. CASE MarkFailed(s)
  <2>1. /\ UNCHANGED <<byAgent, target, mapped>> /\ state[j] = "running"
        /\ \A t \in Slots : t # s => calls'[t] = calls[t]
    BY <1>0, <1>t, <1>13, MarkFailedDoes
  <2>2. Bringing(s, j) => Bringing(s, j)'
    BY <1>0, <1>t, <1>13, MarkFailedDoes DEF Bringing, AwaitedAt, Serves, Preparing, Staging, CallIs
  <2> QED
    BY <1>0, <1>a, <2>1, <2>2
<1>14. CASE FinishFail(s)
  <2>1. /\ UNCHANGED <<byAgent, target, mapped>> /\ state[j] = "running"
        /\ \A t \in Slots : t # s => calls'[t] = calls[t]
    BY <1>0, <1>t, <1>14, FinishFailDoes
  <2>2. Bringing(s, j) => Bringing(s, j)'
    BY <1>0, <1>t, <1>14, FinishFailDoes DEF Bringing, AwaitedAt, Serves, Preparing, Staging, CallIs
  <2> QED
    BY <1>0, <1>a, <2>1, <2>2
<1>15. CASE WorkerTake(s)
  BY <1>15, WorkerTakeDoes
<1>16. CASE WorkerReads(s)
  BY <1>0, <1>16, WorkerReadsDoes DEF CallFits, Serves
<1>17. CASE WorkerPage(s)
  BY <1>0, <1>17, WorkerPageDoes DEF CallFits, Serves
<1>18. CASE WorkerRaises(s)
  BY <1>0, <1>18, WorkerRaisesDoes DEF CallFits, Serves
<1>19. CASE WorkerStage(s)
  BY <1>0, <1>19, WorkerStageDoes DEF CallFits, Serves
<1>20. CASE WorkerEnds(s)
  BY <1>0, <1>20, WorkerEndsDoes DEF CallFits, Serves
<1> QED
  BY <1>1, <1>2, <1>3, <1>4, <1>5, <1>6, <1>7, <1>8, <1>9, <1>10, <1>11, <1>12, <1>13, <1>14, <1>15, <1>16, <1>17, <1>18, <1>19, <1>20 DEF CallStep

\* Every step leaves the targets on their way.
LEMMA StepKeepsAims ==
    ASSUME RowsTypeOK, PicksFit, CallsFit, JobsApart, ReviewRests, TargetGoesOn, [OcrJobsNext]_ocrJobsVars
    PROVE  TargetGoesOn'
<1>0. RunsMove /\ \A j \in OcrJobs : mapped[j] \subseteq Ids
  BY StepMovesRuns DEF RowsTypeOK
<1>t. state \in [OcrJobs -> JobStates]
  BY DEF RowsTypeOK
<1>c. ASSUME \A s \in Slots : SameCall(s),
             \A s \in Slots : Staging(s) /\ calls[s].job \notin strayed' /\ state[calls[s].job] = "running" =>
                 state'[calls[s].job] = "running"
      PROVE  \A s \in Slots : CallAims(s)'
  BY <1>c, AimsStay
<1>j. ASSUME NEW j \in OcrJobs, state'[j] = "running" => state[j] = "running", UNCHANGED <<byAgent, mapped>>,
             (\E s \in Slots : Bringing(s, j)) => j \in strayed' \/ \E s \in Slots : Bringing(s, j)'
      PROVE  JobAims(j)'
  <2> SUFFICES ASSUME byAgent', state'[j] = "running", j \notin strayed', target'[j] # Every
               PROVE  (\E s \in Slots : Bringing(s, j)') \/ \E r \in mapped'[j] : runs'[r].book = target'[j]
    BY DEF JobAims, Has
  <2>1. byAgent /\ state[j] = "running" /\ j \notin strayed /\ target'[j] = target[j]
    BY <1>0, <1>j, TargetsStay DEF RunsMove
  <2>2. ASSUME Has(mapped[j], target[j]) PROVE \E r \in mapped'[j] : runs'[r].book = target[j]
    <3>1. \E r \in mapped[j] : runs[r].book = target[j] /\ r \in Ids
      BY <1>0, <2>2 DEF Has
    <3> QED
      BY <1>0, <1>j, <3>1 DEF RunsMove, RunMoves
  <2> QED
    BY <1>j, <2>1, <2>2 DEF TargetGoesOn, JobAims
<1>u. CASE UNCHANGED <<calls, strayed, byAgent, mapped>> /\ \A j \in OcrJobs : state'[j] = "running" <=> state[j] = "running"
  <2>1. \A s \in Slots : SameCall(s)
    BY <1>u DEF SameCall
  <2>2. \A s \in Slots : Staging(s) => calls[s].job \in OcrJobs
    BY DEF CallsFit, CallFits, OfJob, Serves, Staging
  <2>3. \A s \in Slots : CallAims(s)'
    BY <1>c, <1>u, <2>1, <2>2
  <2>4. \A s \in Slots, j \in OcrJobs : Bringing(s, j) => Bringing(s, j)'
    BY <1>u DEF Bringing, AwaitedAt, Serves, Preparing
  <2>5. \A j \in OcrJobs : JobAims(j)'
    BY <1>j, <1>u, <2>4
  <2> QED
    BY <2>3, <2>5 DEF TargetGoesOn
<1>1. CASE UserStep
  BY <1>u, <1>1, UserDoes
<1>2. CASE Aside
  BY <1>u, <1>2, AgentOnlyDoes
<1>3. CASE OcrRestart
  <2>1. \A s \in Slots : calls'[s].kind = "free"
    BY <1>3, RestartDoes DEF Serves
  <2>2. \A j \in OcrJobs : state'[j] # "running"
    BY <1>3, RestartDoes
  <2> QED
    BY <2>1, <2>2, NoAim DEF TargetGoesOn, JobAims
<1>4. ASSUME NEW kind, NEW books, Posting(kind, books) PROVE TargetGoesOn'
  <2>1. UNCHANGED <<byAgent, state, target, mapped, strayed, runs>> /\ ~Waiting
    BY <1>4, PostDoes DEF Posting
  <2>2. PICK s \in Slots :
          /\ \A t \in Slots : t # s => calls'[t] = calls[t]
          /\ CallIs(calls'[s], kind, IF kind = "claim" THEN "recover" ELSE "check", ocrAgent.job, books, {}, FALSE, TRUE)
    BY <1>4, PostDoes DEF Posting
  <2>3. kind \in {"claim", "page", "complete", "fail"}
    BY <1>4 DEF Posting
  <2>4. CallAims(s)'
    BY <2>2, <2>3 DEF CallIs, CallAims, Preparing, Staging
  <2>5. \A t \in Slots : t # s => CallAims(t)'
    BY <2>1, <2>2, AimsStay DEF SameCall
  <2>6. \A j \in OcrJobs : ~\E t \in Slots : Bringing(t, j)
    BY <2>1 DEF Waiting, Bringing, AwaitedAt, Serves
  <2>7. \A j \in OcrJobs : JobAims(j)'
    BY <1>j, <2>1, <2>6
  <2> QED
    BY <2>4, <2>5, <2>7 DEF TargetGoesOn
<1>5. ASSUME NEW after \in AgentRecords, Leaving(after) PROVE TargetGoesOn'
  <2>1. /\ UNCHANGED <<byAgent, state, mapped>>
        /\ \A s \in Slots : IF AwaitedAt(s)
                            THEN CallIs(calls'[s], calls[s].kind, calls[s].at, calls[s].job, calls[s].todo,
                                        calls[s].got, calls[s].bad, FALSE)
                            ELSE calls'[s] = calls[s]
        /\ strayed' = (strayed \cup {calls[s].job : s \in {t \in Slots : Serves(t)}}) \ {0}
    BY <1>5, AbandonDoes DEF Leaving
  <2>2. \A s \in Slots : SameCall(s)
    BY <2>1 DEF SameCall, CallIs, AwaitedAt
  <2>3. \A s \in Slots : CallAims(s)'
    BY <1>c, <2>1, <2>2
  <2>4. ASSUME NEW j \in OcrJobs, NEW s \in Slots, Bringing(s, j) PROVE j \in strayed'
    BY <2>1, <2>4, OcrAgentJobsAssumption DEF Bringing, AwaitedAt
  <2>5. \A j \in OcrJobs : JobAims(j)'
    BY <1>j, <2>1, <2>4
  <2> QED
    BY <2>3, <2>5 DEF TargetGoesOn
<1>6. ASSUME NEW s \in Slots, CallStep(s) PROVE TargetGoesOn'
  BY <1>0, <1>6, CallKeepsAims, CallKeepsJobAims DEF TargetGoesOn
<1>7. CASE UNCHANGED ocrJobsVars
  BY <1>u, <1>7 DEF ocrJobsVars, jobVars
<1> QED
  BY <1>1, <1>2, <1>3, <1>4, <1>5, <1>6, <1>7, StepKinds

-----------------------------------------------------------------------------
(* The theorems about the OCR jobs. *)

\* The tables begin as the invariant says.
LEMMA OcrJobsInvInit == OcrJobsInit => OcrJobsInv
<1> SUFFICES ASSUME OcrJobsInit PROVE OcrJobsInv
  OBVIOUS
<1>1. /\ Ids = {} /\ strayed = {}
      /\ \A s \in Slots : calls[s].kind = "free"
      /\ \A j \in OcrJobs : state[j] = "absent" /\ mapped[j] = {}
  BY DEF OcrJobsInit, Ids, Free
<1>2. JobsApart
  BY <1>1 DEF JobsApart, RunningOne, PreparedOnce, Serves
<1>3. ReviewRests
  BY <1>1 DEF ReviewRests
<1>4. TargetGoesOn
  BY <1>1 DEF TargetGoesOn, CallAims, JobAims, Preparing, Staging
<1> QED
  BY <1>2, <1>3, <1>4, OcrJobsStart DEF OcrJobsInv

\* Every step of the jobs, the runs and the agent keeps the invariant.
LEMMA OcrJobsInvStep == OcrJobsInv /\ [OcrJobsNext]_ocrJobsVars => OcrJobsInv'
BY StepKeepsFit, StepMovesRuns, ReviewedStayComplete, StepKeepsApart, StepKeepsPicks, StepKeepsRest, StepKeepsAims DEF OcrJobsInv

\* A run leaves the review only when a stray job has it.
LEMMA StepLeavesReview ==
    OcrJobsInv /\ [OcrJobsNext]_ocrJobsVars =>
        \A r \in Ids :
            runs[r].state \in InReview =>
                \/ runs'[r].state = "completed"
                \/ runs'[r].state = runs[r].state
                \/ Disturbed(r)'
<1> SUFFICES ASSUME OcrJobsInv, [OcrJobsNext]_ocrJobsVars, NEW r \in Ids, runs[r].state \in InReview, ~Disturbed(r)'
             PROVE  runs'[r].state \in {runs[r].state, "completed"}
  OBVIOUS
<1>1. Untouched(r) /\ InPeace(r)
  BY DisturbedStays DEF OcrJobsInv, ReviewRests, Untouched
<1> QED
  BY <1>1, StepLeavesRest DEF OcrJobsInv

\* A job in order is completed when its target has been delivered.
LEMMA StepDelivers ==
    OcrJobsInv /\ [OcrJobsNext]_ocrJobsVars =>
        \A j \in OcrJobs :
            state[j] = "running" /\ state'[j] = "completed" /\ target[j] # Every /\ j \notin strayed' => Delivered(target[j])
<1> SUFFICES ASSUME OcrJobsInv, [OcrJobsNext]_ocrJobsVars, NEW j \in OcrJobs,
                    state[j] = "running", state'[j] = "completed", target[j] # Every, j \notin strayed'
             PROVE  Delivered(target[j])
  OBVIOUS
<1>0. RowsTypeOK /\ PicksFit /\ CallsFit /\ TargetGoesOn /\ strayed \subseteq strayed' /\ state \in [OcrJobs -> JobStates]
  BY StepMovesRuns DEF OcrJobsInv, RunsMove, RowsTypeOK
<1>1. UserStep \/ Aside \/ OcrRestart => FALSE
  BY <1>0, UserDoes, AgentOnlyDoes, RestartDoes
<1>2. ASSUME NEW kind, NEW books, Posting(kind, books) PROVE FALSE
  BY <1>0, <1>2, PostDoes DEF Posting
<1>3. ASSUME NEW after \in AgentRecords, Leaving(after) PROVE FALSE
  BY <1>0, <1>3, AbandonDoes DEF Leaving
<1>4. ASSUME NEW s \in Slots, CallStep(s) PROVE Delivered(target[j])
  <2>0. CallFits(s) /\ CallAims(s)
    BY <1>0 DEF CallsFit, TargetGoesOn
  <2>1. CASE Recover(s)
    BY <1>0, <2>0, <2>1, RecoverDoes
  <2>2. CASE Again(s)
    BY <1>0, <2>0, <2>2, AgainDoes
  <2>3. CASE Take(s)
    BY <1>0, <2>0, <2>3, TakeDoes
  <2>4. CASE NothingToClaim(s)
    BY <1>0, <2>0, <2>4, NothingDoes
  <2>5. CASE Prepare(s)
    BY <1>0, <2>0, <2>5, PrepareDoes
  <2>6. CASE Map(s)
    BY <1>0, <2>0, <2>6, MapDoes
  <2>7. CASE PrepareRaises(s)
    BY <1>0, <2>0, <2>7, PrepareRaisesDoes
  <2>8. CASE Admit(s)
    BY <1>0, <2>0, <2>8, AdmitDoes
  <2>9. CASE SavePage(s)
    BY <1>0, <2>0, <2>9, SavePageDoes
  <2>10. CASE StageNext(s)
    BY <1>0, <2>0, <2>10, StageNextDoes
  <2>11. CASE StageRaises(s)
    BY <1>0, <2>0, <2>11, StageRaisesDoes
  <2>12. CASE FinishComplete(s)
    <3>1. Staging(s) /\ calls[s].got = {} /\ calls[s].job \in OcrJobs /\ state' = [state EXCEPT ![calls[s].job] = "completed"]
      BY <1>0, <2>0, <2>12, FinishCompleteDoes DEF Staging
    <3>2. calls[s].job = j
      BY <1>0, <3>1
    <3> QED
      BY <1>0, <2>0, <3>1, <3>2 DEF CallAims, Has
  <2>13. CASE MarkFailed(s)
    BY <1>0, <2>0, <2>13, MarkFailedDoes
  <2>14. CASE FinishFail(s)
    BY <1>0, <2>0, <2>14, FinishFailDoes
  <2>15. CASE WorkerTake(s)
    BY <1>0, <2>0, <2>15, WorkerTakeDoes
  <2>16. CASE WorkerReads(s)
    BY <1>0, <2>0, <2>16, WorkerReadsDoes
  <2>17. CASE WorkerPage(s)
    BY <1>0, <2>0, <2>17, WorkerPageDoes
  <2>18. CASE WorkerRaises(s)
    BY <1>0, <2>0, <2>18, WorkerRaisesDoes
  <2>19. CASE WorkerStage(s)
    BY <1>0, <2>0, <2>19, WorkerStageDoes
  <2>20. CASE WorkerEnds(s)
    <3>1. /\ calls[s].kind = "worker" /\ calls[s].at \in {"pages", "stage"} /\ calls[s].got = {} /\ calls[s].job \in OcrJobs
          /\ state' = [state EXCEPT ![calls[s].job] = IF calls[s].bad THEN "failed" ELSE "completed"]
      BY <1>0, <2>0, <2>20, WorkerEndsDoes
    <3>2. calls[s].job = j /\ ~calls[s].bad
      BY <1>0, <3>1
    <3> QED
      BY <1>0, <2>0, <3>1, <3>2 DEF CallAims, Has
  <2> QED
    BY <1>4, <2>1, <2>2, <2>3, <2>4, <2>5, <2>6, <2>7, <2>8, <2>9, <2>10, <2>11, <2>12, <2>13, <2>14, <2>15, <2>16, <2>17, <2>18, <2>19, <2>20 DEF CallStep
<1>5. UNCHANGED ocrJobsVars => FALSE
  BY <1>0 DEF ocrJobsVars, jobVars
<1> QED
  BY <1>0, <1>1, <1>2, <1>3, <1>4, <1>5, StepKinds

\* The invariant holds of every state of the OCR jobs.
LEMMA OcrJobsInvariant == OcrJobsSpec => []OcrJobsInv
BY OcrJobsInvInit, OcrJobsInvStep, PTL DEF OcrJobsSpec

\* The tables of OCR jobs and runs, the calls and the agent keep their types
\* (ocr_agent_jobs.py, ocr_run_store.py).
THEOREM OcrJobsTyped == OcrJobsSpec => []OcrJobsTypeOK
<1>1. OcrJobsInv => OcrJobsTypeOK
  BY DEF OcrJobsInv, PicksFit, OcrJobsTypeOK
<1> QED
  BY <1>1, OcrJobsInvariant, PTL

\* No run is in review or published without its pages, whatever calls overlap,
\* come late or are cut short (stage_run_for_qa).
THEOREM ReviewedComplete == OcrJobsSpec => []ReviewedRunsAreComplete
BY OcrJobsInvariant, PTL DEF OcrJobsInv

\* A job in order completes when its target is in review or published, or a
\* stray job has the run (complete(), mark_run_failed).
THEOREM CompletedStaged == OcrJobsSpec => CompletedJobIsStaged
<1>1. OcrJobsInv /\ [OcrJobsNext]_ocrJobsVars =>
        [\A j \in OcrJobs :
            state[j] = "running" /\ state'[j] = "completed" /\ target[j] # Every /\ j \notin strayed'
              => \E r \in Ids : runs[r].book = target[j] /\ (runs[r].state \in InReview \/ Disturbed(r))]_ocrJobsVars
  BY StepDelivers DEF Delivered
<1> QED
  BY <1>1, OcrJobsInvariant, PTL DEF OcrJobsSpec, CompletedJobIsStaged

\* No job takes a run out of the review or changes a published one, unless it
\* has a call that outlived its sender, broke off or was cut short (prepare_run,
\* complete, fail).
THEOREM ReviewLeftAlone == OcrJobsSpec => ReviewIsLeftAlone
<1>1. OcrJobsInv /\ [OcrJobsNext]_ocrJobsVars =>
        [\A r \in Ids :
            runs[r].state \in InReview =>
                \/ runs'[r].state = "completed"
                \/ runs'[r].state = runs[r].state
                \/ Disturbed(r)']_ocrJobsVars
  BY StepLeavesReview
<1> QED
  BY <1>1, OcrJobsInvariant, PTL DEF OcrJobsSpec, ReviewIsLeftAlone

\* The OCR jobs serve the review.
THEOREM OcrJobsServe == OcrJobsSpec => JobsServeReview
BY CompletedStaged, ReviewLeftAlone DEF JobsServeReview

-----------------------------------------------------------------------------
(* Both tables of jobs, as MCJobs puts them side by side. *)

\* A step of MCJobs is a step of one table and leaves the other alone.
LEMMA JobsAreBoth == JobsSpec => Spec /\ OcrJobsSpec
<1>1. JobsInit => Init /\ OcrJobsInit
  BY DEF JobsInit
<1>2. [JobsNext]_jobsVars => [Next]_vars /\ [OcrJobsNext]_ocrJobsVars
  BY DEF JobsNext, jobsVars
<1> QED
  BY <1>1, <1>2, PTL DEF JobsSpec, Spec, OcrJobsSpec

\* Every invariant of the run holds of both tables together.
THEOREM JobsKeepInvariants == JobsSpec => [](TypeOK /\ SlotIsOwned /\ OcrJobsTypeOK /\ ReviewedRunsAreComplete)
BY JobsAreBoth, TypeCorrect, OneOwned, OcrJobsTyped, ReviewedComplete, PTL

\* Every step of the run ends no capture job twice or early, refines the slot
\* and serves the review.
THEOREM JobsKeepServing == JobsSpec => TerminalIsFinal /\ FreshJobIsNotTimedOut /\ ImplementsSlot /\ JobsServeReview
BY JobsAreBoth, FinishedJobsStay, FreshJobsSurvive, Refinement, OcrJobsServe
=============================================================================
