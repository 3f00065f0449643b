---------------------------- MODULE SeriesCapture ----------------------------
(***************************************************************************)
(* Capturing a whole series (scripts/kindle_series_orchestrator.py with    *)
(* kindle_series_session.py): one script creates one capture job after     *)
(* another, restarts Kindle at most once, and keeps its progress in a      *)
(* session file from which the operator may resume it.  The table of jobs  *)
(* is the one slot of CaptureSlot, shared with other users of the server.  *)
(*                                                                         *)
(* A read of the table or the catalogue is one step, and so is each update *)
(* of the session file (os.replace).  The script runs with                 *)
(* --recover-kindle-crash and is started once at a time; poll intervals,   *)
(* screen counts and the audit log are left out.                           *)
(***************************************************************************)
EXTENDS Integers, FiniteSets

CONSTANTS
    NumVolumes,    \* volumes of the series, captured in this order
    MaxStarts,     \* starts of the script
    MaxCrashes,    \* times it is killed or raises without touching its file
    MaxOthers,     \* jobs other users create
    MaxUnlinks     \* captured volumes the user unlinks

ASSUME SeriesAssumption ==
    /\ NumVolumes \in Nat \ {0}
    /\ {MaxStarts, MaxCrashes, MaxOthers, MaxUnlinks} \subseteq Nat

Volumes == 1 .. NumVolumes
Elsewhere == 0     \* a book of another series

VARIABLES
    jobSlot,     \* the unfinished job: who created it, for which volume
    ownJob,      \* the script's last job: its volume and status
    linked,      \* volumes the catalogue shows as captured
    sessionFile, \* the session on disk
    guard,       \* the script's copy of it
    at,          \* where the script is
    remaining,   \* volumes its inventory found not captured and it has not done
    retried,     \* recovery_used, of the current volume
    launches,    \* ghost: Kindle starts of this session
    wins,        \* ghost: the session's captures of each volume since its last unlink
    over,        \* ghost: the script tripped its breaker or completed
    counts       \* starts, crashes, others, unlinks so far

seriesVars == <<jobSlot, ownJob, linked, sessionFile, guard, at, remaining, retried,
                launches, wins, over, counts>>
scriptVars == <<sessionFile, guard, at, remaining, retried, launches, over>>
serverVars == <<jobSlot, ownJob, linked, wins>>

Causes == {"kindle_not_running", "download_failed", "other"}
NoSlot == [by |-> "nobody", book |-> Elsewhere]
NoOwnJob == [book |-> Elsewhere, status |-> "none"]
NoSession == [state |-> "none", done |-> {}, recoveries |-> 0, fails |-> 0]
NewSession == [NoSession EXCEPT !.state = "running"]

Count(what) == counts' = [counts EXCEPT ![what] = @ + 1]

(***************************************************************************)
(* The server, its agent and its other users.                              *)
(***************************************************************************)
\* The agent and the registration end the unfinished job, well or badly.
JobEnds ==
    /\ jobSlot # NoSlot
    /\ \E status \in Causes \cup {"succeeded"} :
         /\ linked' = IF status = "succeeded" THEN linked \cup ({jobSlot.book} \cap Volumes)
                                             ELSE linked
         /\ ownJob' = IF jobSlot.by = "script" THEN [ownJob EXCEPT !.status = status] ELSE ownJob
         /\ wins' = IF jobSlot.by = "script" /\ status = "succeeded"
                      THEN [wins EXCEPT ![jobSlot.book] = @ + 1] ELSE wins
    /\ jobSlot' = NoSlot
    /\ UNCHANGED <<scriptVars, counts>>

OtherCreates ==
    /\ jobSlot = NoSlot /\ counts.others < MaxOthers
    /\ \E b \in Volumes \cup {Elsewhere} : jobSlot' = [by |-> "other", book |-> b]
    /\ Count("others")
    /\ UNCHANGED <<scriptVars, ownJob, linked, wins>>

UserUnlinks ==
    /\ counts.unlinks < MaxUnlinks
    /\ \E b \in linked : linked' = linked \ {b} /\ wins' = [wins EXCEPT ![b] = 0]
    /\ Count("unlinks")
    /\ UNCHANGED <<scriptVars, jobSlot, ownJob>>

(***************************************************************************)
(* The session file.                                                       *)
(***************************************************************************)
Persist(session) == guard' = session /\ sessionFile' = session

Leave == at' = "ended" /\ UNCHANGED <<remaining, retried, launches>>

\* slip: the breaker is not saved.
TripInMemory(session) ==
    /\ guard' = [session EXCEPT !.state = "tripped"] /\ over' = TRUE /\ Leave
    /\ UNCHANGED sessionFile

\* The breaker trips: the reason is saved, the script ends.
TripWith(session) == Persist([session EXCEPT !.state = "tripped"]) /\ over' = TRUE /\ Leave

Trip == TripWith(guard)

Goes(to) == at' = to /\ UNCHANGED <<sessionFile, guard, remaining, over>>

\* slip: the attempt is counted in memory and saved with the next change.
CountAttemptUnsaved ==
    LET session == [guard EXCEPT !.recoveries = @ + 1]
    IN  IF session.recoveries > 1
          THEN TripWith(session)
          ELSE guard' = session /\ at' = "recover"
               /\ UNCHANGED <<sessionFile, remaining, retried, launches, over>>

\* The attempt is counted on disk before Kindle is touched.
CountAttempt ==
    LET session == [guard EXCEPT !.recoveries = @ + 1]
    IN  IF session.recoveries > 1
          THEN TripWith(session)
          ELSE Persist(session) /\ at' = "recover"
               /\ UNCHANGED <<remaining, retried, launches, over>>

\* A failed download may be tried again by a resumed session, twice in a row.
RecordFailure(cause) ==
    IF cause # "download_failed"
      THEN Trip
      ELSE LET session == [guard EXCEPT !.fails = @ + 1]
           IN  IF session.fails >= 3 THEN TripWith(session)
                                     ELSE Persist(session) /\ Leave /\ UNCHANGED over

RecordSuccess(b) ==
    /\ Persist([guard EXCEPT !.fails = 0, !.done = @ \cup {b}])
    /\ remaining' = remaining \ {b} /\ retried' = FALSE /\ at' = "next"
    /\ UNCHANGED <<launches, over>>

(***************************************************************************)
(* The script.                                                             *)
(***************************************************************************)
\* slip: the session file alone decides what is left.
NotRecorded == Volumes \ sessionFile.done

\* The volumes the inventory leaves to do.
NotCaptured == Volumes \ linked

\* The catalogue is read, then the session opened or resumed.  A volume whose
\* job is unfinished ends the script without a word in the file.
Start ==
    /\ at = "ended" /\ counts.starts < MaxStarts
    /\ sessionFile.state \in {"none", "running"}
    /\ Persist(IF sessionFile = NoSession THEN NewSession ELSE sessionFile)
    /\ at' = IF jobSlot.book \in Volumes THEN "ended" ELSE "first"
    /\ remaining' = NotCaptured /\ retried' = FALSE
    /\ Count("starts")
    /\ UNCHANGED <<serverVars, launches, over>>

\* run: nobody else may have an unfinished job.
FirstLook ==
    /\ at = "first"
    /\ IF jobSlot # NoSlot THEN Trip ELSE Goes("next") /\ UNCHANGED <<retried, launches>>
    /\ UNCHANGED <<serverVars, counts>>

Volume == CHOOSE b \in remaining : \A c \in remaining : b <= c

\* before_create and _reject_unfinished_job.
NextVolume ==
    /\ at = "next" /\ remaining # {}
    /\ IF Volume \in guard.done \/ jobSlot # NoSlot
         THEN Trip
         ELSE Goes("create") /\ UNCHANGED <<retried, launches>>
    /\ UNCHANGED <<serverVars, counts>>

\* guard.complete after the last volume.
Finish ==
    /\ at = "next" /\ remaining = {}
    /\ Persist([guard EXCEPT !.state = "completed"]) /\ over' = TRUE /\ Leave
    /\ UNCHANGED <<serverVars, counts>>

\* The job is created, although the answer may be lost; or the table refuses.
CreateJob ==
    /\ at = "create"
    /\ \/ /\ jobSlot = NoSlot
          /\ jobSlot' = [by |-> "script", book |-> Volume]
          /\ ownJob' = [book |-> Volume, status |-> "active"]
          /\ \/ Goes("wait") /\ UNCHANGED <<retried, launches>>
             \/ Trip
       \/ Trip /\ UNCHANGED <<jobSlot, ownJob>>
    /\ UNCHANGED <<linked, wins, counts>>

\* _wait_for_job: one poll that decides.
Poll ==
    /\ at = "wait"
    /\ \/ Trip    \* the request failed or the time is up
       \/ jobSlot.by = "other" /\ Trip
       \/ /\ jobSlot = NoSlot
          /\ IF ownJob.status = "succeeded" THEN Goes("confirm") ELSE Goes("failed")
          /\ UNCHANGED <<retried, launches>>
    /\ UNCHANGED <<serverVars, counts>>

\* The job failed: Kindle is recovered once per volume if it was not running
\* before the capture began.
Failed ==
    /\ at = "failed"
    /\ IF ownJob.status = "kindle_not_running" /\ ~retried
         THEN CountAttempt
         ELSE RecordFailure(ownJob.status)
    /\ UNCHANGED <<serverVars, counts>>

\* KindleCrashRecovery.recover up to the launch: not over a running Kindle,
\* nor while a job is unfinished.
Recover ==
    /\ at = "recover"
    /\ \/ jobSlot = NoSlot /\ launches' = launches + 1 /\ Goes("verify") /\ UNCHANGED retried
       \/ RecordFailure(ownJob.status)
    /\ UNCHANGED <<serverVars, counts>>

\* _wait_until_verified: the volume is found and still nobody has a job.
Verify ==
    /\ at = "verify"
    /\ \/ jobSlot = NoSlot /\ Goes("next") /\ retried' = TRUE /\ UNCHANGED launches
       \/ Trip
    /\ UNCHANGED <<serverVars, counts>>

\* _confirm_registration and _record_success.
Confirm ==
    /\ at = "confirm"
    /\ \/ /\ Volume \in linked /\ jobSlot.book # Volume
          /\ Goes("record") /\ UNCHANGED <<retried, launches>>
       \/ Trip
    /\ UNCHANGED <<serverVars, counts>>

RecordVolume ==
    /\ at = "record" /\ RecordSuccess(Volume)
    /\ UNCHANGED <<serverVars, counts>>

\* The script is killed, or a request outside its handlers raises.
ScriptDies ==
    /\ at # "ended" /\ counts.crashes < MaxCrashes
    /\ Leave /\ Count("crashes")
    /\ UNCHANGED <<serverVars, sessionFile, guard, over>>

SeriesInit ==
    /\ jobSlot = NoSlot /\ ownJob = NoOwnJob /\ linked = {}
    /\ sessionFile = NoSession /\ guard = NoSession
    /\ at = "ended" /\ remaining = {} /\ retried = FALSE
    /\ launches = 0 /\ wins = [b \in Volumes |-> 0] /\ over = FALSE
    /\ counts = [what \in {"starts", "crashes", "others", "unlinks"} |-> 0]

SeriesNext ==
    \/ JobEnds \/ OtherCreates \/ UserUnlinks
    \/ Start \/ FirstLook \/ NextVolume \/ CreateJob \/ Poll \/ Failed
    \/ Recover \/ Verify \/ Confirm \/ RecordVolume \/ Finish
    \/ ScriptDies

SeriesSpec == SeriesInit /\ [][SeriesNext]_seriesVars

(***************************************************************************)
(* Properties                                                              *)
(***************************************************************************)
Sessions == [state : {"none", "running", "tripped", "completed"}, done : SUBSET Volumes,
             recoveries : 0 .. 2, fails : 0 .. 3]

\* Types of the table, the file and the script.
SeriesTypeOK ==
    /\ jobSlot \in [by : {"nobody", "script", "other"}, book : 0 .. NumVolumes]
    /\ ownJob \in [book : 0 .. NumVolumes,
                   status : Causes \cup {"none", "active", "succeeded"}]
    /\ linked \in SUBSET Volumes /\ remaining \in SUBSET Volumes
    /\ sessionFile \in Sessions /\ guard \in Sessions
    /\ at \in {"ended", "first", "next", "create", "wait", "failed", "recover", "verify",
               "confirm", "record"}
    /\ retried \in BOOLEAN /\ over \in BOOLEAN
    /\ launches \in Nat /\ wins \in [Volumes -> Nat]
    /\ counts \in [{"starts", "crashes", "others", "unlinks"} -> Nat]

\* Kindle is started at most once per session, however often the session is
\* killed and resumed (record_recovery_attempt before recover).
OneKindleStart == launches <= 1

\* The session captures no volume twice unless the user unlinked it between,
\* also when it died after a capture and before recording it.
NoSecondCapture == \A b \in Volumes : wins[b] <= 1

\* After the breaker tripped or the series is complete the file refuses every
\* resume, and the script asks for no more jobs.
EndsForGood == over => sessionFile.state \in {"tripped", "completed"} /\ at = "ended"

\* The session file, the table of jobs and Kindle agree about what a resumed
\* session may still do.
SessionAgrees == OneKindleStart /\ NoSecondCapture /\ EndsForGood
=============================================================================
