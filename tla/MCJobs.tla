------------------------------- MODULE MCJobs ------------------------------
(***************************************************************************)
(* The two tables of jobs that agents serve over HTTP, each on a small     *)
(* instance.  Capture jobs: three, so that a job can follow a timed-out    *)
(* and a finished one, and two agents, so that a late request of an agent  *)
(* that lost its job meets the job of the other.  OCR jobs: two over two   *)
(* books, served by two threads, with faults.  They share no state, so a   *)
(* behaviour moves the one that `focus` names.                             *)
(***************************************************************************)
EXTENDS CaptureJobs, OcrAgentJobs, TLC

VARIABLE focus

jobsVars == <<vars, ocrJobsVars, focus>>

JobsInit ==
    /\ focus \in {"capture", "ocr"}
    /\ Init
    /\ OcrJobsInit /\ (focus = "capture" => byAgent)

JobsNext ==
    \/ focus = "capture" /\ Next /\ UNCHANGED <<ocrJobsVars, focus>>
    \/ focus = "ocr" /\ OcrJobsNext /\ UNCHANGED <<vars, focus>>

JobsSpec == JobsInit /\ [][JobsNext]_jobsVars

\* Only of the OCR jobs: the states of the capture jobs are few.
Symmetry == Permutations(Books) \cup Permutations(Slots)
=============================================================================
