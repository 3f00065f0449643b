------------------------------ MODULE MCServices -----------------------------
(***************************************************************************)
(* The small services of the server, each on a small instance, in one run: *)
(* they share no state, so a behaviour moves one of them, the one that     *)
(* `focus` names from the start, and the others rest in a first state.     *)
(***************************************************************************)
EXTENDS RebuildJobs, CodexCoordination, HitomiMonitor,
        DoujinGeneration, ReleaseActivation, SeriesCapture,
        QaHistory, ChatSessions

VARIABLE focus

\* A zip file x.zip, a directory x and a directory x/y.
MCBookOf == [i \in Items |-> IF i = "x/y" THEN "y" ELSE "x"]
MCInside == [i \in Items |-> IF i = "x" THEN {"x/y"} ELSE {}]

servicesVars ==
    <<queueVars, mailVars, monitorVars,
      doujinVars, releaseVars, seriesVars, qaVars, chatVars, focus>>

Only(service, step, others) == focus = service /\ step /\ UNCHANGED <<others, focus>>

ServicesInit ==
    /\ focus \in {"queue", "mail", "monitor", "doujin", "release", "series",
                 "questions", "conversations"}
    /\ QueueInit /\ MailInit /\ MonitorInit /\ DoujinInit /\ SeriesInit
    /\ QaInit /\ ChatInit
    /\ ReleaseInit /\ (focus # "release" => before["common"] = "old" /\ real = {} /\ ~writers)

ServicesNext ==
    \/ Only("queue", QueueNext,
            <<mailVars, monitorVars, doujinVars,
              releaseVars, seriesVars, qaVars, chatVars>>)
    \/ Only("mail", MailNext,
            <<queueVars, monitorVars, doujinVars,
              releaseVars, seriesVars, qaVars, chatVars>>)
    \/ Only("monitor", MonitorNext,
            <<queueVars, mailVars, doujinVars,
              releaseVars, seriesVars, qaVars, chatVars>>)
    \/ Only("doujin", DoujinNext,
            <<queueVars, mailVars, monitorVars,
              releaseVars, seriesVars, qaVars, chatVars>>)
    \/ Only("release", ReleaseNext,
            <<queueVars, mailVars, monitorVars,
              doujinVars, seriesVars, qaVars, chatVars>>)
    \/ Only("series", SeriesNext,
            <<queueVars, mailVars, monitorVars,
              doujinVars, releaseVars, qaVars, chatVars>>)
    \/ Only("questions", QaNext,
            <<queueVars, mailVars, monitorVars,
              doujinVars, releaseVars, seriesVars, chatVars>>)
    \/ Only("conversations", ChatNext,
            <<queueVars, mailVars, monitorVars,
              doujinVars, releaseVars, seriesVars, qaVars>>)

\* QueueFairness and DoujinFairness, of the service in focus.
ServicesFairness ==
    /\ WF_queueVars(focus = "queue" /\ WorkerStep)
    /\ WF_doujinVars(focus = "doujin" /\ Tick)
    /\ WF_doujinVars(focus = "doujin" /\ JobStep)

ServicesSpec == ServicesInit /\ [][ServicesNext]_servicesVars /\ ServicesFairness

\* Every service keeps its types.
ServicesTypeOK ==
    /\ QueueTypeOK /\ MailTypeOK /\ MonitorTypeOK
    /\ DoujinTypeOK /\ ReleaseTypeOK /\ SeriesTypeOK
    /\ QaTypeOK /\ ChatTypeOK

\* What the agents send each other and what the monitor tells the user of new
\* works (MailAgrees, ArrivalsAgree).
MessagesAgree == MailAgrees /\ ArrivalsAgree

\* What the two scripts leave behind wherever they end (ReleaseAgrees,
\* SessionAgrees).
ScriptsAgree == ReleaseAgrees /\ SessionAgrees

\* The rows of the questions and of the conversations (OpenRowsAreAwaited,
\* QuestionsAreAnswered, GivenInOrder).
ConversationsAgree == OpenRowsAreAwaited /\ QuestionsAreAnswered /\ GivenInOrder

\* A queued job is taken and a copied item is tried (QueuedJobIsTaken,
\* CopiedItemIsTried).
WaitingIsServed == QueuedJobIsTaken /\ CopiedItemIsTried
=============================================================================
