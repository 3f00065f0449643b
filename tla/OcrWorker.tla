------------------------------ MODULE OcrWorker ------------------------------
(***************************************************************************)
(* The process that reads pages with an OCR engine (backend/services/      *)
(* novel_db/ocr_worker*.py, qwen_dots_worker.py, surya_server.py), the     *)
(* llama-server it starts or finds, and the job that reads its output      *)
(* (iter_ocr_pages of extractor.py).  A job that ended is started again    *)
(* for the pages without a passed result.                                  *)
(*                                                                         *)
(* The reader thread and the queue of lines are `output`; a page event     *)
(* keeps the page and its state.  Lines about progress only hold off the   *)
(* watchdog: it fires in a step that stays silent too long.                *)
(***************************************************************************)
EXTENDS Integers, Sequences, FiniteSetsExt

CONSTANTS
    NumPages,
    MaxServed,          \* OCR_SERVER_MAX_PAGES
    FailureLimit,       \* OCR_SERVER_CONSECUTIVE_FAILURES
    FailureWindow,      \* OCR_SERVER_FAILURE_WINDOW; the rate is one half
    MaxSessions,        \* bound of jobs
    MaxTroubles         \* bound of silences, crashes and errors

ASSUME WorkerAssumption ==
    /\ {NumPages, MaxServed, FailureLimit, FailureWindow, MaxSessions} \subseteq Nat \ {0}
    /\ MaxTroubles \in Nat

VARIABLES
    engine,             \* OCR_ENGINE
    session,            \* jobs started
    tasks,              \* pages handed to the worker
    caller,             \* iter_ocr_pages: reading, returned, raised
    manifest,           \* its task file exists
    worker,             \* where the process is; None, or how it ended
    taken,              \* task_index
    recent,             \* OcrSessionPolicy: did the server fail, page by page
    server,             \* llama-server: none, external, owned by this worker, left by one
    served,             \* failures on the owned server since it started; history only
    output,             \* lines the job has not read
    received,           \* page events of this session
    kept,               \* pages with a passed result in the run store
    cut,                \* a worker died or was stopped while it owned a server; history only
    troubles

ocrWorkerVars == <<engine, session, tasks, caller, manifest, worker, taken, recent, server, served,
                output, received, kept, cut, troubles>>
callerVars == <<session, tasks, caller, manifest, received, kept>>

Ended == {"none", "exited", "failed", "crashed", "stopped"}
Stages == <<"qwen", "dots", "selector">>
Fatal == [page |-> 0, state |-> "fatal"]

WorkerInit ==
    /\ engine \in {"surya2", "yomitoku", "qwen35_dots_review_v1"}
    /\ session = 0 /\ tasks = <<>> /\ caller = "idle" /\ manifest = FALSE
    /\ worker = "none" /\ taken = 0 /\ recent = <<>>
    /\ server \in (IF engine = "surya2" THEN {"none", "external"} ELSE {"none"})
    /\ served = <<>> /\ output = <<>> /\ received = <<>> /\ kept = {}
    /\ cut = FALSE /\ troubles = 0

Trouble == troubles < MaxTroubles /\ troubles' = troubles + 1
NoTrouble == UNCHANGED troubles
Last(s) == s[Len(s)]
-----------------------------------------------------------------------------
(***************************************************************************)
(* The job.                                                                *)
(***************************************************************************)
Pending == (1 .. NumPages) \ kept

StartWorker ==
    /\ caller \in {"idle", "returned", "raised"} /\ session < MaxSessions
    /\ Pending # {}
    /\ session' = session + 1
    /\ tasks' \in [1 .. Cardinality(Pending) -> Pending]
    /\ \A i, j \in DOMAIN tasks' : i < j => tasks'[i] < tasks'[j]
    /\ caller' = "reading" /\ manifest' = TRUE
    /\ worker' = "begin" /\ taken' = 0 /\ recent' = <<>> /\ served' = <<>>
    /\ output' = <<>> /\ received' = <<>>
    /\ UNCHANGED <<engine, server, kept, cut, troubles>>

\* The process is gone without closing its server.
Abandon(how) ==
    /\ worker' = how
    /\ server' = IF server = "owned" THEN "left" ELSE server
    /\ cut' = (cut \/ server = "owned")

\* The finally of iter_ocr_pages.
Finish(how) ==
    /\ caller' = how
    /\ manifest' = FALSE
    /\ IF worker \in Ended THEN UNCHANGED <<worker, server, cut>> ELSE Abandon("stopped")
    /\ UNCHANGED <<engine, session, tasks, taken, recent, served>>

\* _parse_ocr_worker_line, and the saving of the page.
ReadLine ==
    /\ caller = "reading" /\ output # <<>>
    /\ output' = Tail(output)
    /\ NoTrouble
    /\ IF Head(output) = Fatal THEN Finish("raised") /\ UNCHANGED <<received, kept>>
       ELSE /\ received' = Append(received, Head(output))
            /\ kept' = IF Head(output).state = "passed" THEN kept \cup {Head(output).page} ELSE kept
            /\ UNCHANGED <<engine, session, tasks, caller, manifest, worker, taken, recent, server,
                           served, cut>>

\* The page cannot be saved, or the heartbeat failed.
ConsumerRaises ==
    /\ caller = "reading" /\ output # <<>>
    /\ Trouble
    /\ output' = Tail(output)
    /\ Finish("raised")
    /\ UNCHANGED <<received, kept>>

EndOfOutput ==
    /\ caller = "reading" /\ output = <<>> /\ worker \in Ended
    /\ Finish(IF worker = "exited" THEN "returned" ELSE "raised")
    /\ UNCHANGED <<output, received, kept, troubles>>

WatchdogNever == FALSE                                  \* slip: the wait for a line has no limit
Watchdog ==
    /\ caller = "reading" /\ output = <<>> /\ worker \notin Ended
    /\ IF worker = "hung" THEN NoTrouble ELSE Trouble
    /\ Finish("raised")
    /\ UNCHANGED <<output, received, kept>>
-----------------------------------------------------------------------------
(***************************************************************************)
(* The worker.                                                             *)
(***************************************************************************)
Step(from, to) == worker = from /\ worker' = to /\ UNCHANGED <<engine, callerVars, cut>>

\* main reports an exception; the server, if it is the worker's, was closed.
ReportsFatal ==
    /\ worker' = "failed"
    /\ output' = Append(output, Fatal)
    /\ server' = IF server = "owned" THEN "none" ELSE server
    /\ UNCHANGED <<engine, callerVars, taken, recent, served, cut>>

BeginWork ==
    /\ Step("begin", CASE engine = "surya2" -> "enter" [] engine = "yomitoku" -> "page"
                       [] OTHER -> Stages[1])
    /\ UNCHANGED <<taken, recent, server, served, output, troubles>>

\* SuryaServer.__enter__: a server that answers is used, whoever started it.
EnterServer ==
    /\ Step("enter", "page")
    /\ server' = IF server = "none" THEN "owned" ELSE server
    /\ served' = <<>> /\ recent' = <<>>
    /\ UNCHANGED <<taken, output, troubles>>

\* SuryaServer.close, after its pages, and before the next server.
LeaveServer ==
    /\ Step("leave", IF taken < Len(tasks) THEN "enter" ELSE "exited")
    /\ server' = IF server = "owned" THEN "none" ELSE server
    /\ UNCHANGED <<taken, recent, served, output, troubles>>

\* OcrSessionPolicy.record
Failures(s) == {i \in DOMAIN s : s[i]}
Latest(s, n) == SubSeq(s, Len(s) - n + 1, Len(s))
WornLate(s) ==                                          \* slip: pages beyond the limit
    \/ Len(s) > MaxServed
    \/ Len(s) >= FailureLimit /\ Failures(Latest(s, FailureLimit)) = 1 .. FailureLimit
Worn(s) ==
    \/ Len(s) >= FailureLimit /\ Failures(Latest(s, FailureLimit)) = 1 .. FailureLimit
    \/ Len(s) >= FailureWindow /\ 2 * Cardinality(Failures(Latest(s, FailureWindow))) >= FailureWindow
    \/ Len(s) >= MaxServed

\* The next task; its result passes or not, and an exception is a failed page.
TakenTwice == IF Worn(recent') /\ server = "owned" THEN taken ELSE taken + 1   \* slip: the page is read again
Taken == taken + 1

SuryaPage ==
    /\ worker = "page" /\ engine = "surya2"
    /\ \E failed \in BOOLEAN, state \in {"passed", "failed"} :
        /\ output' = Append(output, [page |-> tasks[taken + 1], state |-> state])
        /\ served' = IF server = "owned" THEN Append(served, failed) ELSE served
        /\ recent' = IF Worn(Append(recent, failed)) /\ server # "owned" THEN <<>>
                     ELSE Append(recent, failed)
        /\ taken' = Taken
        /\ worker' = IF taken' >= Len(tasks) \/ Worn(recent') THEN "leave" ELSE "page"
    /\ UNCHANGED <<engine, callerVars, server, cut, troubles>>

OtherPage ==
    /\ worker = "page" /\ engine # "surya2"
    /\ \E state \in (IF engine = "yomitoku" THEN {"passed", "failed"} ELSE {"passed"}) :
        output' = Append(output, [page |-> tasks[taken + 1], state |-> state])
    /\ taken' = taken + 1
    /\ worker' = IF taken' = Len(tasks) THEN "exited" ELSE "page"
    /\ UNCHANGED <<engine, callerVars, recent, server, served, cut, troubles>>

\* run_qwen_dots_review: a process each for the two models and the selector.
StageEnds ==
    /\ \E i \in DOMAIN Stages : Step(Stages[i], IF i < Len(Stages) THEN Stages[i + 1] ELSE "page")
    /\ UNCHANGED <<taken, recent, server, served, output, troubles>>

\* An engine, a server, a stage that does not start or ends badly; an image
\* that changed since the composite engine read it.
WorkerFails ==
    /\ \/ worker \in {"begin", "enter"} \cup {Stages[i] : i \in DOMAIN Stages}
       \/ worker = "page" /\ engine = "qwen35_dots_review_v1"
    /\ Trouble
    /\ ReportsFatal

WorkerStep ==
    \/ BeginWork \/ EnterServer \/ LeaveServer \/ SuryaPage \/ OtherPage \/ StageEnds

WorkerHangs ==
    /\ worker \notin Ended \cup {"hung"}
    /\ Trouble
    /\ worker' = "hung"
    /\ UNCHANGED <<engine, callerVars, taken, recent, server, served, output, cut>>

WorkerDies ==
    /\ worker \notin Ended
    /\ Trouble
    /\ Abandon("crashed")
    /\ UNCHANGED <<engine, callerVars, taken, recent, served, output>>

CallerStep == ReadLine \/ EndOfOutput \/ (worker = "hung" /\ Watchdog)
WorkerNext ==
    \/ StartWorker \/ ReadLine \/ ConsumerRaises \/ EndOfOutput \/ Watchdog
    \/ WorkerStep \/ WorkerFails \/ WorkerHangs \/ WorkerDies

\* The worker goes on unless it hangs or ended; the job reads what there is,
\* and its wait for a line has a limit.
WorkerFairness == WF_ocrWorkerVars(WorkerStep) /\ WF_ocrWorkerVars(CallerStep)

WorkerSpec == WorkerInit /\ [][WorkerNext]_ocrWorkerVars /\ WorkerFairness
-----------------------------------------------------------------------------
WorkerTypeOK ==
    /\ session \in 0 .. MaxSessions
    /\ caller \in {"idle", "reading", "returned", "raised"} /\ manifest \in BOOLEAN
    /\ worker \in Ended \cup {"begin", "enter", "page", "leave", "hung"} \cup {Stages[i] : i \in DOMAIN Stages}
    /\ taken \in 0 .. Len(tasks) /\ Len(tasks) <= NumPages
    /\ recent \in Seq(BOOLEAN) /\ served \in Seq(BOOLEAN) /\ Len(recent) <= MaxServed
    /\ server \in {"none", "external", "owned", "left"}
    /\ kept \subseteq 1 .. NumPages /\ cut \in BOOLEAN /\ troubles \in 0 .. MaxTroubles

\* A job that returns has one result for every page it asked for, in order,
\* however often the worker changed its server on the way; when it is over,
\* no worker and no task file is left, and a server only if it was there
\* before or its worker did not live to close it; and a server that the worker
\* started answers no page after its limit or after failures in a row.
WorkerAgrees ==
    /\ caller = "returned" => [i \in DOMAIN received |-> received[i].page] = tasks
    /\ caller # "reading" => worker \in Ended /\ ~manifest /\ server # "owned"
    /\ server = "left" => cut
    /\ server = "owned" =>
        /\ Len(served) <= MaxServed
        /\ \A i \in 1 .. Len(served) - FailureLimit : \E j \in i .. i + FailureLimit - 1 : ~served[j]

\* A job that waits for a worker comes to an end, also when the worker hangs.
WorkerIsAwaited == (caller = "reading") ~> (caller \in {"returned", "raised"})
=============================================================================
