------------------------------ MODULE MCPrograms -----------------------------
(***************************************************************************)
(* The programs an operator runs beside the server, each on a small        *)
(* instance, in one run: the recovery tool of the captures, the capture    *)
(* loop, the OCR worker and the two parts of the image-OCR campaign.  They *)
(* share no state, so a behaviour moves one of them, the one that `focus`  *)
(* names from the start, and the others rest in a first state.             *)
(***************************************************************************)
EXTENDS CapturePublication, CaptureLoop, OcrWorker, ImageOcrCampaign, HoldoutLedger, FiniteSets

VARIABLE focus

\* Looks are only compared, so it is enough to number those of a book in the
\* order in which they appear.
LooksInTurn == \A i \in DOMAIN book : book[i] <= Cardinality({book[k] : k \in 1 .. i - 1}) + 1

programsVars ==
    <<vars, loopVars, ocrWorkerVars, campaignVars, ledgerVars, focus>>

Only(program, step, others) == focus = program /\ step /\ UNCHANGED <<others, focus>>

\* An idle loop has the shortest book, an idle worker the simplest engine, an
\* idle recovery nothing from before.
ProgramsInit ==
    /\ focus \in {"recovery", "loop", "worker", "campaign", "ledger"}
    /\ Init /\ (focus # "recovery" => origin = [images |-> "none", meta |-> NoEntry])
    /\ LoopInit /\ LooksInTurn
    /\ (focus # "loop" => book = <<1>>
                           /\ setting = [byHand |-> TRUE, rightKey |-> TRUE, circles |-> FALSE,
                                         expected |-> AnyCount])
    /\ WorkerInit /\ (focus # "worker" => engine = "yomitoku")
    /\ CampaignInit /\ LedgerInit

ProgramsNext ==
    \/ Only("recovery", Next, <<loopVars, ocrWorkerVars, campaignVars, ledgerVars>>)
    \/ Only("loop", LoopNext, <<vars, ocrWorkerVars, campaignVars, ledgerVars>>)
    \/ Only("worker", WorkerNext, <<vars, loopVars, campaignVars, ledgerVars>>)
    \/ Only("campaign", CampaignNext, <<vars, loopVars, ocrWorkerVars, ledgerVars>>)
    \/ Only("ledger", LedgerNext, <<vars, loopVars, ocrWorkerVars, campaignVars>>)

\* The fairness of FairSpec, LoopSpec and WorkerSpec, of the program in focus.
ProgramsFairness ==
    /\ \A w \in Workers :
         WF_vars(focus = "recovery"
                 /\ (Publishing(w) \/ Compensating(w) \/ ReadRecord(w) \/ Unlock(w)))
    /\ \A w \in Tools, j \in Jobs : WF_vars(focus = "recovery" /\ Resumable(j) /\ TakeLock(w, j))
    /\ WF_loopVars(focus = "loop" /\ LoopStep)
    /\ WF_loopVars(focus = "loop" /\ ShowTurn)
    /\ WF_ocrWorkerVars(focus = "worker" /\ WorkerStep)
    /\ WF_ocrWorkerVars(focus = "worker" /\ CallerStep)

ProgramsSpec == ProgramsInit /\ [][ProgramsNext]_programsVars /\ ProgramsFairness

\* Every program keeps its types.
ProgramsTypeOK == TypeOK /\ LoopTypeOK /\ WorkerTypeOK /\ CampaignTypeOK /\ LedgerTypeOK

\* A step of the image-OCR campaign replaces nothing that was imported
\* (RowsStay), and whatever it does, imported text is judged text and the ledger
\* of the holdouts keeps its order (PassedIsJudged, LedgerAgrees).
CampaignAgrees == [][RowsStay /\ PassedIsJudged' /\ LedgerAgrees']_programsVars

\* A recovery record is settled, a capture comes to an end, and so does a job
\* that waits for its OCR worker (RecordIsSettled, LoopEnds, WorkerIsAwaited).
ProgramsEnd == RecordIsSettled /\ (focus = "loop" => LoopEnds) /\ WorkerIsAwaited
=============================================================================
