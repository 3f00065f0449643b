---------------------------- MODULE CaptureAgent ---------------------------
(***************************************************************************)
(* The Windows capture agents (kindle-pdf/capture_agent.py) working over   *)
(* HTTP against the job table of CaptureJobs.                              *)
(*                                                                         *)
(* An agent has two threads.  The main thread claims a job, reports each   *)
(* state before it does the work of that state, publishes the .ready       *)
(* package and asks for the completion.  The heartbeat thread posts until  *)
(* its first failure.  A post blocks its thread until the reply or the     *)
(* HTTP timeout; a request whose sender gave up, or died, may still reach  *)
(* the server later.  The completion is one step here; CapturePublication  *)
(* opens it up.                                                            *)
(***************************************************************************)
EXTENDS CaptureJobs, FiniteSets

CONSTANTS
    NoJob,
    MaxFaults,      \* crashes, lost or late messages of a behaviour
    MaxOrphans      \* requests without a sender that may be under way

ASSUME CaptureAgentAssumption ==
    /\ NoJob \notin Jobs
    /\ MaxFaults \in Nat
    /\ MaxOrphans \in Nat

VARIABLES
    phase,      \* agent -> "down", "work", "post" or "wait"
    at,         \* agent -> what its main thread works on or posts
    hand,       \* agent -> the job run_once() has in hand
    beat,       \* agent -> its heartbeat thread
    net,        \* requests under way
    ready,      \* jobs with a .ready package in the inbox
    archived,   \* jobs whose package the server moved to processed/
    faults      \* faults so far

agentVars == <<phase, at, hand, beat>>
fileVars == <<ready, archived>>
allVars == <<vars, agentVars, net, fileVars, faults>>

\* What a main thread posts: the two calls and the states of _state().
Reports == {"locating_book", "downloading", "positioning", "capturing",
            "awaiting_files", "failed"}
Posts == Reports \cup {"claim", "complete"}

Works == {"claimed", "locating_book", "downloading", "positioning",
          "capturing", "publishing"}

\* by: the thread that awaits the reply, "nobody" when it gave up.
Requests == [from : Agents, by : {"main", "beat", "nobody"},
             op : Posts \cup {"heartbeat"}, job : Jobs \cup {NoJob}]

AgentInit ==
    /\ Init
    /\ phase = [a \in Agents |-> "post"]
    /\ at = [a \in Agents |-> "claim"]
    /\ hand = [a \in Agents |-> NoJob]
    /\ beat = [a \in Agents |-> "off"]
    /\ net = {}
    /\ ready = {}
    /\ archived = {}
    /\ faults = 0

-----------------------------------------------------------------------------
(* The main thread between two posts. *)

Goto(a, ph, what) ==
    /\ phase' = [phase EXCEPT ![a] = ph]
    /\ at' = [at EXCEPT ![a] = what]

\* heartbeat.raise_if_failed() does not raise.
BeatFine(a) == beat[a] # "failed"

\* What the agent reports once the work of a state is done.
Following(what) ==
    CASE what = "claimed"       -> {"locating_book"}
      [] what = "locating_book" -> {"downloading", "positioning"}
      [] what = "downloading"   -> {"positioning"}
      [] what = "positioning"   -> {"capturing"}
      [] what = "capturing"     -> {"capturing"}
      [] OTHER                  -> {}

\* Search, download, positioning or a captured page went well.  The
\* heartbeat is looked at before every report but the first and the one
\* that follows a download.
Work(a) ==
    /\ phase[a] = "work"
    /\ at[a] \in {"claimed", "downloading"} \/ BeatFine(a)
    /\ \E what \in Following(at[a]) : Goto(a, "post", what)
    /\ UNCHANGED <<vars, hand, beat, net, fileVars, faults>>

\* The last page is captured; a last look at the heartbeat, then the image
\* audit and the copy into the inbox.
LastPage(a) ==
    /\ phase[a] = "work" /\ at[a] = "capturing"
    /\ BeatFine(a)
    /\ Goto(a, "work", "publishing")
    /\ UNCHANGED <<vars, hand, beat, net, fileVars, faults>>

\* publish_package: refuses to touch an existing .ready package.
Publish(a) ==
    /\ phase[a] = "work" /\ at[a] = "publishing"
    /\ hand[a] \notin ready
    /\ ready' = ready \cup {hand[a]}
    /\ Goto(a, "post", "awaiting_files")
    /\ UNCHANGED <<vars, hand, beat, net, archived, faults>>

\* Any exception of the work, a failed heartbeat included.
WorkFails(a) ==
    /\ phase[a] = "work"
    /\ Goto(a, "post", "failed")
    /\ UNCHANGED <<vars, hand, beat, net, fileVars, faults>>

Post(a) ==
    /\ phase[a] = "post"
    /\ phase' = [phase EXCEPT ![a] = "wait"]
    /\ net' = net \cup {[from |-> a, by |-> "main", op |-> at[a], job |-> hand[a]]}
    /\ UNCHANGED <<vars, at, hand, beat, fileVars, faults>>

\* One round of the heartbeat thread.
Beat(a) ==
    /\ beat[a] = "sleeping"
    /\ beat' = [beat EXCEPT ![a] = "asked"]
    /\ net' = net \cup {[from |-> a, by |-> "beat", op |-> "heartbeat", job |-> hand[a]]}
    /\ UNCHANGED <<vars, phase, at, hand, fileVars, faults>>

-----------------------------------------------------------------------------
(* Replies. *)

\* The requests of thread th of agent a lose their sender.  Beyond
\* MaxOrphans they are lost as well.
Disown(requests, a, threads) ==
    LET mine == {r \in requests : r.from = a /\ r.by \in threads}
        others == requests \ mine
        all == others \cup {[r EXCEPT !.by = "nobody"] : r \in mine}
    IN  IF Cardinality({r \in all : r.by = "nobody"}) <= MaxOrphans
        THEN all ELSE others

\* Variant for EndRun: the job of the last run is kept in hand.
EndRunKeepingHand(a, rest) ==
    /\ Goto(a, "post", "claim")
    /\ beat' = [beat EXCEPT ![a] = "off"]
    /\ net' = Disown(rest, a, {"beat"})
    /\ UNCHANGED hand

\* run_once() returns or raises: the heartbeat thread is stopped and the
\* main loop claims again.
EndRun(a, rest) ==
    /\ Goto(a, "post", "claim")
    /\ hand' = [hand EXCEPT ![a] = NoJob]
    /\ beat' = [beat EXCEPT ![a] = "off"]
    /\ net' = Disown(rest, a, {"beat"})

\* Variant for MainStarts: a half-done job is put back instead of failed.
MainStartsIdly(a, j, st, rest) ==
    IF st \in {"claimed", "awaiting_files"}
    THEN /\ hand' = [hand EXCEPT ![a] = j]
         /\ beat' = [beat EXCEPT ![a] = "sleeping"]
         /\ net' = rest
         /\ IF st = "claimed" THEN Goto(a, "work", "claimed")
                             ELSE Goto(a, "post", "complete")
    ELSE EndRun(a, rest)

\* The claim returned job j, whose status is st.
MainStarts(a, j, st, rest) ==
    /\ hand' = [hand EXCEPT ![a] = j]
    /\ beat' = [beat EXCEPT ![a] = "sleeping"]
    /\ net' = rest
    /\ CASE st = "awaiting_files" -> Goto(a, "post", "complete")
         [] st = "claimed"        -> Goto(a, "work", "claimed")
         [] OTHER                 -> Goto(a, "post", "failed")

MainGoesOn(a, rest) ==
    IF at[a] \in {"complete", "failed", "claim"}
    THEN EndRun(a, rest)
    ELSE /\ IF at[a] = "awaiting_files"
            THEN Goto(a, "post", "complete")
            ELSE Goto(a, "work", at[a])
         /\ net' = rest
         /\ UNCHANGED <<hand, beat>>

\* Variant for MainRaises: a post that fails is taken for one that went well.
MainIgnoresError(a, rest) == MainGoesOn(a, rest)

\* The main thread's post raises.
MainRaises(a, rest) ==
    IF at[a] \in {"claim", "failed"}
    THEN EndRun(a, rest)
    ELSE /\ Goto(a, "post", "failed")
         /\ net' = rest
         /\ UNCHANGED <<hand, beat>>

\* The reply to r arrives: outcome is "ok", "error" or a claimed job.
Arrives(r, outcome) ==
    LET rest == net \ {r} IN
    /\ CASE r.by = "main" /\ outcome = "ok"    -> MainGoesOn(r.from, rest)
         [] r.by = "main" /\ outcome = "error" -> MainRaises(r.from, rest)
         [] r.by = "main" /\ outcome \notin {"ok", "error"} ->
                MainStarts(r.from, outcome, status'[outcome], rest)
         [] r.by = "beat" ->
                /\ beat' = [beat EXCEPT ![r.from] =
                              IF outcome = "ok" THEN "sleeping" ELSE "failed"]
                /\ net' = rest
                /\ UNCHANGED <<phase, at, hand>>
         [] r.by = "nobody" -> net' = rest /\ UNCHANGED agentVars
    /\ UNCHANGED faults

\* The reply to r is lost after the server did its work.
Vanishes(r) ==
    /\ r.by # "nobody"
    /\ faults < MaxFaults
    /\ faults' = faults + 1
    /\ net' = net \ {r}
    /\ UNCHANGED agentVars

Reply(r, outcome) == Arrives(r, outcome) \/ Vanishes(r)

-----------------------------------------------------------------------------
(* The server takes up a request. *)

ServeClaim(r) ==
    /\ r.op = "claim"
    /\ \E lag \in Lags :
         \/ ClaimNothing(r.from, lag) /\ Reply(r, "ok")
         \/ \E j \in Jobs :
              /\ ClaimHeld(r.from, j, lag) \/ ClaimQueued(r.from, j, lag)
              /\ Reply(r, j)
    /\ UNCHANGED fileVars

ServeHeartbeat(r) ==
    /\ r.op = "heartbeat"
    /\ \/ \E lag \in Lags : Heartbeat(r.from, r.job, lag) /\ Reply(r, "ok")
       \/ /\ ~(agent[r.job] = r.from /\ status[r.job] \in ACTIVE_STATUSES)
          /\ UNCHANGED vars
          /\ Reply(r, "error")
    /\ UNCHANGED fileVars

ServeReport(r) ==
    /\ r.op \in Reports
    /\ \/ \E lag \in Lags : UpdateState(r.from, r.job, r.op, lag) /\ Reply(r, "ok")
       \/ /\ ~(agent[r.job] = r.from /\ <<status[r.job], r.op>> \in AGENT_TRANSITIONS)
          /\ UNCHANGED vars
          /\ Reply(r, "error")
    /\ UNCHANGED fileVars

\* Variant for ServeComplete: the package is archived before the job is
\* updated, and stays there when the update fails.
ServeCompleteUncompensated(r) ==
    /\ r.op = "complete"
    /\ r.job \in ready
    /\ ready' = ready \ {r.job}
    /\ archived' = archived \cup {r.job}
    /\ \/ MarkSucceeded(r.from, r.job) /\ Reply(r, "ok")
       \/ UNCHANGED vars /\ Reply(r, "error")

\* The completion registers the package and moves it to processed/, or it
\* is refused or compensated and leaves everything as it was.
ServeComplete(r) ==
    /\ r.op = "complete"
    /\ \/ /\ r.job \in ready
          /\ MarkSucceeded(r.from, r.job)
          /\ ready' = ready \ {r.job}
          /\ archived' = archived \cup {r.job}
          /\ Reply(r, "ok")
       \/ /\ UNCHANGED <<vars, fileVars>>
          /\ Reply(r, "error")

Serve(r) == ServeClaim(r) \/ ServeHeartbeat(r) \/ ServeReport(r) \/ ServeComplete(r)

-----------------------------------------------------------------------------
(* Faults. *)

Pending(a, th) == {r \in net : r.from = a /\ r.by = th}

\* A post gives up: its reply got lost, or it is too late (a fault).
GivesUp(a, th) ==
    IF Pending(a, th) = {}
    THEN UNCHANGED faults
    ELSE faults < MaxFaults /\ faults' = faults + 1

PostTimesOut(a) ==
    /\ phase[a] = "wait"
    /\ GivesUp(a, "main")
    /\ MainRaises(a, Disown(net, a, {"main"}))
    /\ UNCHANGED <<vars, fileVars>>

BeatTimesOut(a) ==
    /\ beat[a] = "asked"
    /\ GivesUp(a, "beat")
    /\ beat' = [beat EXCEPT ![a] = "failed"]
    /\ net' = Disown(net, a, {"beat"})
    /\ UNCHANGED <<vars, phase, at, hand, fileVars>>

LoseRequest(r) ==
    /\ \/ r.by = "nobody" /\ UNCHANGED faults
       \/ r.by # "nobody" /\ faults < MaxFaults /\ faults' = faults + 1
    /\ net' = net \ {r}
    /\ UNCHANGED <<vars, agentVars, fileVars>>

\* The process or the PC stops; what it has sent is still under way.
Crash(a) ==
    /\ phase[a] # "down"
    /\ faults < MaxFaults
    /\ faults' = faults + 1
    /\ Goto(a, "down", "claim")
    /\ hand' = [hand EXCEPT ![a] = NoJob]
    /\ beat' = [beat EXCEPT ![a] = "off"]
    /\ net' = Disown(net, a, {"main", "beat"})
    /\ UNCHANGED <<vars, fileVars>>

Restart(a) ==
    /\ phase[a] = "down"
    /\ Goto(a, "post", "claim")
    /\ UNCHANGED <<vars, hand, beat, net, fileVars, faults>>

-----------------------------------------------------------------------------

\* The user, or the serial orchestrator, asks for a capture; time passes.
Environment ==
    /\ \/ \E j \in Jobs, lag \in Lags : Create(j, lag)
       \/ Tick
    /\ UNCHANGED <<agentVars, net, fileVars, faults>>

MainThread(a) == Work(a) \/ LastPage(a) \/ Publish(a) \/ WorkFails(a) \/ Post(a)

AgentNext ==
    \/ Environment
    \/ \E a \in Agents :
         \/ MainThread(a)
         \/ Beat(a)
         \/ PostTimesOut(a)
         \/ BeatTimesOut(a)
         \/ Crash(a)
         \/ Restart(a)
    \/ \E r \in net : Serve(r) \/ LoseRequest(r)

AgentSpec == AgentInit /\ [][AgentNext]_allVars

-----------------------------------------------------------------------------

\* The variables have their types, and a main thread has a job in hand
\* exactly between a claim and the end of its run.
AgentTypeOK ==
    /\ TypeOK
    /\ phase \in [Agents -> {"down", "work", "post", "wait"}]
    /\ at \in [Agents -> Works \cup Posts]
    /\ hand \in [Agents -> Jobs \cup {NoJob}]
    /\ \A a \in Agents : hand[a] = NoJob <=> at[a] = "claim"
    /\ beat \in [Agents -> {"off", "sleeping", "asked", "failed"}]
    /\ net \subseteq Requests
    /\ ready \subseteq Jobs
    /\ archived \subseteq Jobs
    /\ faults \in 0..MaxFaults

\* The status awaiting_files tells the truth: the complete package is in the
\* inbox whenever the table says so, also when that report arrives late.
AwaitingHasPackage ==
    \A j \in Jobs : status[j] = "awaiting_files" => j \in ready

\* A package leaves the inbox exactly when its job succeeds, so a job that
\* failed after its capture keeps its images.
ArchivedIffSucceeded ==
    /\ archived = {j \in Jobs : status[j] = "succeeded"}
    /\ ready \cap archived = {}

\* Table, inbox and archive agree on every package (publish_package, complete).
PackagesMatchTable == AwaitingHasPackage /\ ArchivedIffSucceeded

\* While an agent turns pages or packs its images, the server shows the job
\* as capturing, unless it failed it in the meantime: no late request of an
\* earlier attempt moves the job under the agent's hands.
CaptureIsAcknowledged ==
    \A a \in Agents :
        phase[a] = "work" /\ at[a] \in {"capturing", "publishing"}
            => /\ agent[hand[a]] = a
               /\ status[hand[a]] \in {"capturing", "failed"}

\* Two agents never have the same job in hand.
OneAgentPerJob ==
    \A a, b \in Agents : a # b /\ hand[a] # NoJob => hand[a] # hand[b]

\* What the agents work on agrees with the table (claim, update_state).
HandsMatchTable == CaptureIsAcknowledged /\ OneAgentPerJob

\* The agents, their packages and the table agree on every job, whichever
\* requests are lost, late or left over from an earlier attempt.
AgentsMatchTable == PackagesMatchTable /\ HandsMatchTable

-----------------------------------------------------------------------------
(* Fairness.  A live thread takes its next step; the network and the server *)
(* deal with a request sooner or later; a post that got no reply times out; *)
(* time passes.  The capture loop comes to an end (LoopEnds of CaptureLoop), *)
(* hence the strong fairness of leaving the capture.                        *)

LeaveCapture(a) == LastPage(a) \/ (at[a] = "capturing" /\ WorkFails(a))

LiveAgents ==
    /\ WF_allVars(Tick /\ UNCHANGED <<agentVars, net, fileVars, faults>>)
    /\ \A a \in Agents :
         /\ WF_allVars(MainThread(a))
         /\ SF_allVars(LeaveCapture(a))
         /\ WF_allVars(Pending(a, "main") = {} /\ PostTimesOut(a))
         /\ WF_allVars(Pending(a, "beat") = {} /\ BeatTimesOut(a))
         /\ \A th \in {"main", "beat"} :
              WF_allVars(\E r \in Pending(a, th) : Serve(r))

\* A stopped agent is not started again.
LiveSpec == AgentSpec /\ LiveAgents

\* A stopped agent is started again.
RestartSpec == LiveSpec /\ \A a \in Agents : WF_allVars(Restart(a))

\* Every claimed job ends, be it that its agent comes back and gives it up
\* or, when the agent stays silent, that another agent's claim finds it stale:
\* nothing waits for a reply, a heartbeat or a package that never comes.
ClaimedJobEnds ==
    \A j \in Jobs : status[j] \in ACTIVE_STATUSES ~> status[j] \in Terminal

\* A queued job, which no timeout ever removes, is claimed in the end: no
\* earlier job keeps the agent busy for ever.
QueuedJobIsClaimed ==
    \A j \in Jobs : status[j] = "queued" ~> status[j] # "queued"

\* No job waits for ever, neither for its agent nor in its agent's hands
\* (claim, _recover_stale, run_once).
JobsMoveOn == QueuedJobIsClaimed /\ ClaimedJobEnds

=============================================================================
