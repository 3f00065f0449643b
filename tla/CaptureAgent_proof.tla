------------------------- MODULE CaptureAgent_proof -------------------------
(***************************************************************************)
(* Theorems about CaptureJobs and CaptureAgent for every set of jobs and   *)
(* agents, every timeout and age of a request's clock reading, and every   *)
(* number of faults: the job table goes on as it should, the agents use it *)
(* only as CaptureJobs describes, and agents, packages and table agree.    *)
(***************************************************************************)
EXTENDS CaptureAgent, TLAPS

-----------------------------------------------------------------------------
(***************************************************************************)
(* The table of the capture jobs.                                          *)
(***************************************************************************)
\* What one step can do to the status of a job: nothing, a recovery, or one
\* of the five requests that name the job.
LEMMA RecoveredStatus ==
    ASSUME TypeOK, NEW lag \in Lags
    PROVE  /\ Recovered(lag) \in [Jobs -> Status]
           /\ \A j \in Jobs :
                \/ Recovered(lag)[j] = status[j]
                \/ status[j] \in ACTIVE_STATUSES /\ Recovered(lag)[j] = "failed"
BY DEF TypeOK, Recovered, IsStale, Status, Terminal, UNFINISHED_STATUSES, ACTIVE_STATUSES

\* The variables have their types at the start.
LEMMA TypeOKInit == Init => TypeOK
BY CaptureJobsAssumption
DEF Init, TypeOK, Status, Terminal, UNFINISHED_STATUSES, ACTIVE_STATUSES, AgeCap

\* One step keeps the types.
LEMMA TypeOKStep == TypeOK /\ [Next]_vars => TypeOK'
<1> SUFFICES ASSUME TypeOK, [Next]_vars PROVE TypeOK'
  OBVIOUS
<1> USE CaptureJobsAssumption DEF TypeOK
<1>1. \A lag \in Lags : lag \in 0..AgeCap
  BY DEF Lags, AgeCap
<1>2. {"queued", "claimed", "failed", "succeeded"} \subseteq Status
  BY DEF Status, Terminal, UNFINISHED_STATUSES, ACTIVE_STATUSES
<1>3. ASSUME NEW j \in Jobs, NEW lag \in Lags, Create(j, lag) PROVE TypeOK'
  BY <1>1, <1>2, <1>3, RecoveredStatus DEF Create
<1>4. ASSUME NEW a \in Agents, NEW lag \in Lags, ClaimNothing(a, lag) PROVE TypeOK'
  BY <1>4, RecoveredStatus DEF ClaimNothing
<1>5. ASSUME NEW a \in Agents, NEW j \in Jobs, MarkSucceeded(a, j) PROVE TypeOK'
  BY <1>2, <1>5 DEF MarkSucceeded
<1>6. ASSUME NEW a \in Agents, NEW j \in Jobs, NEW lag \in Lags, ClaimHeld(a, j, lag)
      PROVE  TypeOK'
  BY <1>1, <1>6, RecoveredStatus DEF ClaimHeld
<1>7. ASSUME NEW a \in Agents, NEW j \in Jobs, NEW lag \in Lags, ClaimQueued(a, j, lag)
      PROVE  TypeOK'
  BY <1>1, <1>2, <1>7, RecoveredStatus DEF ClaimQueued
<1>8. ASSUME NEW a \in Agents, NEW j \in Jobs, NEW lag \in Lags, Heartbeat(a, j, lag)
      PROVE  TypeOK'
  BY <1>1, <1>8 DEF Heartbeat
<1>9. ASSUME NEW a \in Agents, NEW j \in Jobs, NEW lag \in Lags, NEW state \in Status,
             UpdateState(a, j, state, lag)
      PROVE  TypeOK'
  BY <1>1, <1>9 DEF UpdateState
<1>10. CASE Tick
  BY <1>10 DEF Tick, AgeCap
<1>11. CASE UNCHANGED vars
  BY <1>11 DEF vars
<1> QED
  BY <1>3, <1>4, <1>5, <1>6, <1>7, <1>8, <1>9, <1>10, <1>11 DEF Next, AgentRequest

\* Every reachable table has the types of the schema.
THEOREM TypeCorrect == Spec => []TypeOK
<1>1. Init => TypeOK
  BY TypeOKInit
<1>2. TypeOK /\ [Next]_vars => TypeOK'
  BY TypeOKStep
<1> QED
  BY <1>1, <1>2, PTL DEF Spec

-----------------------------------------------------------------------------

\* A step other than a creation makes no job unfinished.
LEMMA OnlyCreateAdds ==
    ASSUME TypeOK, [Next]_vars,
           \A j \in Jobs, lag \in Lags : ~Create(j, lag)
    PROVE  \A k \in Jobs :
               status'[k] \in UNFINISHED_STATUSES => status[k] \in UNFINISHED_STATUSES
<1> USE DEF TypeOK
<1> DEFINE NoneAdded == \A k \in Jobs :
               status'[k] \in UNFINISHED_STATUSES => status[k] \in UNFINISHED_STATUSES
<1>1. \A lag \in Lags : \A k \in Jobs :
         Recovered(lag)[k] \in UNFINISHED_STATUSES => status[k] \in UNFINISHED_STATUSES
  BY DEF Recovered, UNFINISHED_STATUSES, ACTIVE_STATUSES
<1>2. ASSUME NEW a \in Agents, NEW lag \in Lags, ClaimNothing(a, lag) PROVE NoneAdded
  BY <1>1, <1>2 DEF ClaimNothing
<1>3. ASSUME NEW a \in Agents, NEW j \in Jobs, MarkSucceeded(a, j) PROVE NoneAdded
  BY <1>3 DEF MarkSucceeded, UNFINISHED_STATUSES, ACTIVE_STATUSES
<1>4. ASSUME NEW a \in Agents, NEW j \in Jobs, NEW lag \in Lags, ClaimHeld(a, j, lag)
      PROVE  NoneAdded
  BY <1>1, <1>4 DEF ClaimHeld
<1>5. ASSUME NEW a \in Agents, NEW j \in Jobs, NEW lag \in Lags, ClaimQueued(a, j, lag)
      PROVE  NoneAdded
  <2>1. \A k \in Jobs : k # j => status'[k] = Recovered(lag)[k]
    BY <1>5, RecoveredStatus DEF ClaimQueued
  <2>2. status[j] \in UNFINISHED_STATUSES
    BY <1>5 DEF ClaimQueued, UNFINISHED_STATUSES
  <2> QED
    BY <1>1, <2>1, <2>2
<1>6. ASSUME NEW a \in Agents, NEW j \in Jobs, NEW lag \in Lags, Heartbeat(a, j, lag)
      PROVE  NoneAdded
  BY <1>6 DEF Heartbeat
<1>7. ASSUME NEW a \in Agents, NEW j \in Jobs, NEW lag \in Lags, NEW state \in Status,
             UpdateState(a, j, state, lag)
      PROVE  NoneAdded
  <2>1. status[j] \in UNFINISHED_STATUSES
    BY <1>7 DEF UpdateState, AGENT_TRANSITIONS, UNFINISHED_STATUSES, ACTIVE_STATUSES
  <2> QED
    BY <1>7, <2>1 DEF UpdateState
<1>8. CASE Tick
  BY <1>8 DEF Tick
<1>9. CASE UNCHANGED vars
  BY <1>9 DEF vars
<1> QED
  BY <1>2, <1>3, <1>4, <1>5, <1>6, <1>7, <1>8, <1>9 DEF Next, AgentRequest

\* No step leaves two jobs unfinished.
LEMMA AtMostOneStep ==
    TypeOK /\ AtMostOneUnfinished /\ [Next]_vars => AtMostOneUnfinished'
<1> SUFFICES ASSUME TypeOK, AtMostOneUnfinished, [Next]_vars
             PROVE  AtMostOneUnfinished'
  OBVIOUS
<1>1. ASSUME NEW j \in Jobs, NEW lag \in Lags, Create(j, lag)
      PROVE  AtMostOneUnfinished'
  <2>1. \A k \in Jobs : k # j => status'[k] \notin UNFINISHED_STATUSES
    BY <1>1, RecoveredStatus DEF Create
  <2> QED
    BY <2>1 DEF AtMostOneUnfinished
<1>2. ASSUME \A j \in Jobs, lag \in Lags : ~Create(j, lag)
      PROVE  AtMostOneUnfinished'
  BY <1>2, OnlyCreateAdds DEF AtMostOneUnfinished
<1> QED
  BY <1>1, <1>2

\* At most one job is unfinished, whatever the agents and the user request.
THEOREM OneUnfinished == Spec => []AtMostOneUnfinished
<1>1. Init => AtMostOneUnfinished
  BY DEF Init, AtMostOneUnfinished, UNFINISHED_STATUSES, ACTIVE_STATUSES
<1>2. TypeOK /\ AtMostOneUnfinished /\ [Next]_vars => AtMostOneUnfinished'
  BY AtMostOneStep
<1> QED
  BY <1>1, <1>2, TypeCorrect, PTL DEF Spec

-----------------------------------------------------------------------------

\* Ownership is inductive on its own: recovery only reaches owned jobs.
LEMMA OwnedStep == TypeOK /\ OwnedFromClaim /\ [Next]_vars => OwnedFromClaim'
<1> SUFFICES ASSUME TypeOK, OwnedFromClaim, [Next]_vars PROVE OwnedFromClaim'
  OBVIOUS
<1> USE DEF TypeOK, OwnedFromClaim, Status, Terminal, UNFINISHED_STATUSES, ACTIVE_STATUSES
<1>1. ASSUME NEW j \in Jobs, NEW lag \in Lags, Create(j, lag) PROVE OwnedFromClaim'
  BY <1>1, RecoveredStatus DEF Create
<1>2. ASSUME NEW a \in Agents, NEW lag \in Lags, ClaimNothing(a, lag) PROVE OwnedFromClaim'
  BY <1>2, RecoveredStatus DEF ClaimNothing
<1>3. ASSUME NEW a \in Agents, NEW j \in Jobs, MarkSucceeded(a, j) PROVE OwnedFromClaim'
  BY <1>3 DEF MarkSucceeded
<1>4. ASSUME NEW a \in Agents, NEW j \in Jobs, NEW lag \in Lags, ClaimHeld(a, j, lag)
      PROVE  OwnedFromClaim'
  BY <1>4, RecoveredStatus DEF ClaimHeld
<1>5. ASSUME NEW a \in Agents, NEW j \in Jobs, NEW lag \in Lags, ClaimQueued(a, j, lag)
      PROVE  OwnedFromClaim'
  BY <1>5, RecoveredStatus DEF ClaimQueued
<1>6. ASSUME NEW a \in Agents, NEW j \in Jobs, NEW lag \in Lags, Heartbeat(a, j, lag)
      PROVE  OwnedFromClaim'
  BY <1>6 DEF Heartbeat
<1>7. ASSUME NEW a \in Agents, NEW j \in Jobs, NEW lag \in Lags, NEW state \in Status,
             UpdateState(a, j, state, lag)
      PROVE  OwnedFromClaim'
  <2>1. status[j] \in ACTIVE_STATUSES /\ state \in ACTIVE_STATUSES \cup {"failed"}
    BY <1>7 DEF UpdateState, AGENT_TRANSITIONS
  <2> QED
    BY <1>7, <2>1 DEF UpdateState
<1>8. CASE Tick
  BY <1>8 DEF Tick
<1>9. CASE UNCHANGED vars
  BY <1>9 DEF vars
<1> QED
  BY <1>1, <1>2, <1>3, <1>4, <1>5, <1>6, <1>7, <1>8, <1>9 DEF Next, AgentRequest

\* Every reachable job is owned exactly from its claim on.
THEOREM Owned == Spec => []OwnedFromClaim
<1>1. Init => OwnedFromClaim
  BY DEF Init, OwnedFromClaim, UNFINISHED_STATUSES, ACTIVE_STATUSES
<1>2. TypeOK /\ OwnedFromClaim /\ [Next]_vars => OwnedFromClaim'
  BY OwnedStep
<1> QED
  BY <1>1, <1>2, TypeCorrect, PTL DEF Spec

\* The one unfinished job is owned exactly from its claim on.
THEOREM OneOwned == Spec => []SlotIsOwned
<1>1. AtMostOneUnfinished /\ OwnedFromClaim => SlotIsOwned
  BY DEF SlotIsOwned
<1> QED
  BY <1>1, OneUnfinished, Owned, PTL

-----------------------------------------------------------------------------

\* A step that names one job treats a finished job like any other one.
LEMMA FinalStep ==
    ASSUME TypeOK, [Next]_vars
    PROVE  \A k \in Jobs :
             status[k] \in Terminal =>
               /\ status'[k] = status[k]
               /\ agent'[k] = agent[k]
               /\ started'[k] = started[k]
<1> DEFINE Final == \A k \in Jobs :
             status[k] \in Terminal =>
               /\ status'[k] = status[k]
               /\ agent'[k] = agent[k]
               /\ started'[k] = started[k]
<1> USE DEF TypeOK, Terminal, ACTIVE_STATUSES
<1>1. ASSUME NEW j \in Jobs, NEW lag \in Lags, Create(j, lag) PROVE Final
  BY <1>1, RecoveredStatus DEF Create
<1>2. ASSUME NEW a \in Agents, NEW lag \in Lags, ClaimNothing(a, lag) PROVE Final
  BY <1>2, RecoveredStatus DEF ClaimNothing
<1>3. ASSUME NEW a \in Agents, NEW j \in Jobs, MarkSucceeded(a, j) PROVE Final
  BY <1>3 DEF MarkSucceeded
<1>4. ASSUME NEW a \in Agents, NEW j \in Jobs, NEW lag \in Lags, ClaimHeld(a, j, lag)
      PROVE  Final
  BY <1>4, RecoveredStatus DEF ClaimHeld
<1>5. ASSUME NEW a \in Agents, NEW j \in Jobs, NEW lag \in Lags, ClaimQueued(a, j, lag)
      PROVE  Final
  BY <1>5, RecoveredStatus DEF ClaimQueued
<1>6. ASSUME NEW a \in Agents, NEW j \in Jobs, NEW lag \in Lags, Heartbeat(a, j, lag)
      PROVE  Final
  BY <1>6 DEF Heartbeat
<1>7. ASSUME NEW a \in Agents, NEW j \in Jobs, NEW lag \in Lags, NEW state \in Status,
             UpdateState(a, j, state, lag)
      PROVE  Final
  <2>1. status[j] \in ACTIVE_STATUSES
    BY <1>7 DEF UpdateState, AGENT_TRANSITIONS
  <2> QED
    BY <1>7, <2>1 DEF UpdateState
<1>8. CASE Tick
  BY <1>8 DEF Tick
<1>9. CASE UNCHANGED vars
  BY <1>9 DEF vars
<1> QED
  BY <1>1, <1>2, <1>3, <1>4, <1>5, <1>6, <1>7, <1>8, <1>9 DEF Next, AgentRequest

\* No request, recovery or late message changes a finished job.
THEOREM FinishedJobsStay == Spec => TerminalIsFinal
<1>1. TypeOK /\ [Next]_vars =>
        [\A j \in Jobs :
           status[j] \in Terminal =>
             /\ status'[j] = status[j]
             /\ agent'[j] = agent[j]
             /\ started'[j] = started[j]]_vars
  BY FinalStep
<1> QED
  BY <1>1, TypeCorrect, PTL DEF Spec, TerminalIsFinal

-----------------------------------------------------------------------------

\* The two ways to fail: the recovery of a stale job, which is not fresh, and
\* the report of the agent that owns it.
LEMMA FreshStep ==
    ASSUME TypeOK, [Next]_vars, NEW k \in Jobs,
           status[k] \in ACTIVE_STATUSES, status'[k] = "failed", age[k] <= Timeout
    PROVE  \E lag \in Lags : UpdateState(agent[k], k, "failed", lag)
<1> DEFINE Reported == \E lag \in Lags : UpdateState(agent[k], k, "failed", lag)
<1> USE DEF TypeOK
<1>1. status[k] # "failed" /\ status[k] # "queued" /\ status[k] # "absent"
  BY DEF ACTIVE_STATUSES
<1>2. \A lag \in Lags : Recovered(lag)[k] = status[k]
  <2> SUFFICES ASSUME NEW lag \in Lags PROVE ~IsStale(k, lag)
    BY DEF Recovered
  <2>1. lag \in Nat /\ age[k] \in Int /\ Timeout \in Nat
    BY CaptureJobsAssumption DEF Lags, AgeCap
  <2> QED
    BY <2>1 DEF IsStale
<1>3. ASSUME NEW j \in Jobs, NEW lag \in Lags, Create(j, lag) PROVE Reported
  BY <1>1, <1>2, <1>3, RecoveredStatus DEF Create
<1>4. ASSUME NEW a \in Agents, NEW lag \in Lags, ClaimNothing(a, lag) PROVE Reported
  BY <1>1, <1>2, <1>4 DEF ClaimNothing
<1>5. ASSUME NEW a \in Agents, NEW j \in Jobs, MarkSucceeded(a, j) PROVE Reported
  BY <1>1, <1>5 DEF MarkSucceeded
<1>6. ASSUME NEW a \in Agents, NEW j \in Jobs, NEW lag \in Lags, ClaimHeld(a, j, lag)
      PROVE  Reported
  BY <1>1, <1>2, <1>6 DEF ClaimHeld
<1>7. ASSUME NEW a \in Agents, NEW j \in Jobs, NEW lag \in Lags, ClaimQueued(a, j, lag)
      PROVE  Reported
  BY <1>1, <1>2, <1>7, RecoveredStatus DEF ClaimQueued
<1>8. ASSUME NEW a \in Agents, NEW j \in Jobs, NEW lag \in Lags, Heartbeat(a, j, lag)
      PROVE  Reported
  BY <1>1, <1>8 DEF Heartbeat
<1>9. ASSUME NEW a \in Agents, NEW j \in Jobs, NEW lag \in Lags, NEW state \in Status,
             UpdateState(a, j, state, lag)
      PROVE  Reported
  <2>1. j = k
    BY <1>1, <1>9 DEF UpdateState
  <2>2. state = "failed" /\ a = agent[k]
    BY <1>9, <2>1 DEF UpdateState
  <2> QED
    BY <1>9, <2>1, <2>2
<1>10. CASE Tick
  BY <1>1, <1>10 DEF Tick
<1>11. CASE UNCHANGED vars
  BY <1>1, <1>11 DEF vars
<1> QED
  BY <1>3, <1>4, <1>5, <1>6, <1>7, <1>8, <1>9, <1>10, <1>11 DEF Next, AgentRequest

\* A job whose owner was heard of within the timeout only fails on its owner's
\* own report, however old the clock reading of a recovering request is.
THEOREM FreshJobsSurvive == Spec => FreshJobIsNotTimedOut
<1>1. TypeOK /\ [Next]_vars =>
        [\A j \in Jobs :
           status[j] \in ACTIVE_STATUSES /\ status'[j] = "failed"
           /\ age[j] <= Timeout
             => \E lag \in Lags : UpdateState(agent[j], j, "failed", lag)]_vars
  BY FreshStep
<1> QED
  BY <1>1, TypeCorrect, PTL DEF Spec, FreshJobIsNotTimedOut

-----------------------------------------------------------------------------

\* An occupied slot, seen through the one unfinished job.
LEMMA SlotOf ==
    ASSUME AtMostOneUnfinished, NEW k \in Unfinished
    PROVE  Unfinished = {k} /\ Owners = {agent[k]} \ {NoAgent}
<1>1. Unfinished = {k}
  BY DEF AtMostOneUnfinished, Unfinished
<1> QED
  BY <1>1 DEF Owners

\* The recovery of stale jobs fails the job in the slot or does nothing.
LEMMA RecoveryMaps ==
    ASSUME TypeOK, AtMostOneUnfinished, OwnedFromClaim, NEW lag \in Lags,
           status' = Recovered(lag), agent' = agent
    PROVE  [Slot!Next]_(Slot!slotVars)
<1> USE DEF TypeOK, Unfinished
<1>1. ASSUME NEW k \in Jobs, IsStale(k, lag) PROVE Slot!Finish(k, "failed")
  <2>1. status[k] \in ACTIVE_STATUSES /\ agent[k] \in Agents /\ agent[k] # NoAgent
    BY <1>1, CaptureJobsAssumption DEF IsStale, OwnedFromClaim
  <2>2. Unfinished = {k} /\ Owners = {agent[k]} \ {NoAgent}
    BY <2>1, SlotOf DEF UNFINISHED_STATUSES
  <2>3. Owners # {}
    BY <2>1, <2>2
  <2>4. status'[k] = "failed" /\ \A j \in Jobs : j # k => status'[j] = status[j]
    <3>1. \A j \in Jobs : j # k => ~IsStale(j, lag)
      BY <2>2 DEF IsStale, UNFINISHED_STATUSES
    <3> QED
      BY <1>1, <3>1 DEF Recovered
  <2>5. Unfinished' = {}
    BY <2>2, <2>4 DEF UNFINISHED_STATUSES, ACTIVE_STATUSES
  <2>6. Owners' = {}
    BY <2>5 DEF Owners
  <2>7. Results' = [Results EXCEPT ![k] = "failed"]
    BY <2>4 DEF Results, Terminal
  <2> QED
    BY <2>2, <2>3, <2>5, <2>6, <2>7 DEF Slot!Finish
<1>2. ASSUME \A k \in Jobs : ~IsStale(k, lag) PROVE UNCHANGED Slot!slotVars
  <2>1. status' = status
    BY <1>2 DEF Recovered
  <2> QED
    BY <2>1 DEF Slot!slotVars, Owners, Results
<1> QED
  BY <1>1, <1>2 DEF Slot!Next

\* A creation fills the empty slot, or takes it over from a stale job.
LEMMA CreateMaps ==
    ASSUME TypeOK, AtMostOneUnfinished, OwnedFromClaim,
           NEW j \in Jobs, NEW lag \in Lags, Create(j, lag)
    PROVE  Slot!Next
<1> USE DEF TypeOK, Unfinished
<1>1. status[j] = "absent" /\ agent[j] = NoAgent /\ Results[j] = "none"
  BY DEF Create, OwnedFromClaim, Results, Terminal
<1>2. status'[j] = "queued" /\ \A k \in Jobs : k # j => status'[k] = Recovered(lag)[k]
  BY RecoveredStatus DEF Create
<1>3. \A k \in Jobs : k # j => status'[k] \notin UNFINISHED_STATUSES
  BY <1>2 DEF Create
<1>4. Unfinished' = {j}
  BY <1>2, <1>3 DEF UNFINISHED_STATUSES
<1>5. Owners' = {}
  BY <1>1, <1>4 DEF Owners, Create
<1>6. ASSUME NEW old \in Jobs, IsStale(old, lag) PROVE Slot!Replace(old, j)
  <2>1. status[old] \in ACTIVE_STATUSES /\ agent[old] \in Agents /\ agent[old] # NoAgent
    BY <1>6, CaptureJobsAssumption DEF IsStale, OwnedFromClaim
  <2>2. Unfinished = {old} /\ Owners = {agent[old]} \ {NoAgent}
    BY <2>1, SlotOf DEF UNFINISHED_STATUSES
  <2>3. Owners # {}
    BY <2>1, <2>2
  <2>4. old # j
    BY <1>1, <2>1 DEF ACTIVE_STATUSES
  <2>5. \A k \in Jobs : k # old => ~IsStale(k, lag)
    BY <2>2 DEF IsStale, UNFINISHED_STATUSES
  <2>6. /\ status'[old] = "failed"
        /\ \A k \in Jobs : k # old /\ k # j => status'[k] = status[k]
    BY <1>2, <1>6, <2>4, <2>5 DEF Recovered
  <2>7. Results' = [Results EXCEPT ![old] = "failed"]
    BY <1>1, <1>2, <2>4, <2>6 DEF Results, Terminal
  <2> QED
    BY <1>1, <1>4, <1>5, <2>2, <2>3, <2>4, <2>7 DEF Slot!Replace
<1>7. ASSUME \A k \in Jobs : ~IsStale(k, lag) PROVE Slot!Admit(j)
  <2>1. Recovered(lag) = status
    BY <1>7 DEF Recovered
  <2>2. Unfinished = {}
    BY <2>1 DEF Create
  <2>3. Owners = {}
    BY <2>2 DEF Owners
  <2>4. Results' = Results
    BY <1>1, <1>2, <2>1 DEF Results, Terminal
  <2> QED
    BY <1>1, <1>4, <1>5, <2>2, <2>3, <2>4 DEF Slot!Admit
<1> QED
  BY <1>6, <1>7 DEF Slot!Next

\* The claim of the queued job takes the slot.
LEMMA ClaimMaps ==
    ASSUME TypeOK, AtMostOneUnfinished, OwnedFromClaim,
           NEW a \in Agents, NEW j \in Jobs, NEW lag \in Lags, ClaimQueued(a, j, lag)
    PROVE  Slot!Take(a)
<1> USE DEF TypeOK, Unfinished
<1>1. status[j] = "queued" /\ agent[j] = NoAgent
  BY DEF ClaimQueued, OwnedFromClaim
<1>2. Unfinished = {j} /\ Owners = {}
  BY <1>1, SlotOf DEF UNFINISHED_STATUSES
<1>3. Recovered(lag) = status
  BY <1>1, <1>2 DEF Recovered, IsStale, UNFINISHED_STATUSES, ACTIVE_STATUSES
<1>4. status' = [status EXCEPT ![j] = "claimed"] /\ agent' = [agent EXCEPT ![j] = a]
  BY <1>3 DEF ClaimQueued
<1>5. Unfinished' = {j}
  BY <1>2, <1>4 DEF UNFINISHED_STATUSES, ACTIVE_STATUSES
<1>6. Owners' = {a}
  BY <1>4, <1>5, CaptureJobsAssumption DEF Owners
<1>7. Results' = Results
  BY <1>1, <1>4 DEF Results, Terminal
<1> QED
  BY <1>2, <1>5, <1>6, <1>7 DEF Slot!Take

\* The owner's own report ends the job in the slot or leaves it there.
LEMMA ReportMaps ==
    ASSUME TypeOK, AtMostOneUnfinished, OwnedFromClaim,
           NEW j \in Jobs, status[j] \in ACTIVE_STATUSES,
           NEW to \in ACTIVE_STATUSES \cup Terminal,
           status' = [status EXCEPT ![j] = to], agent' = agent
    PROVE  [Slot!Next]_(Slot!slotVars)
<1> USE DEF TypeOK, Unfinished
<1>1. agent[j] \in Agents /\ agent[j] # NoAgent
  BY CaptureJobsAssumption DEF OwnedFromClaim
<1>2. Unfinished = {j} /\ Owners = {agent[j]} \ {NoAgent}
  BY SlotOf DEF UNFINISHED_STATUSES
<1>3. Owners # {}
  BY <1>1, <1>2
<1>4. CASE to \in Terminal
  <2>1. Unfinished' = {}
    BY <1>2, <1>4 DEF Terminal, UNFINISHED_STATUSES, ACTIVE_STATUSES
  <2>2. Owners' = {}
    BY <2>1 DEF Owners
  <2>3. Results' = [Results EXCEPT ![j] = to]
    BY <1>4 DEF Results
  <2>4. Slot!Finish(j, to)
    BY <1>2, <1>3, <2>1, <2>2, <2>3 DEF Slot!Finish
  <2> QED
    BY <1>4, <2>4 DEF Slot!Next, Terminal
<1>5. CASE to \in ACTIVE_STATUSES
  <2>1. Unfinished' = Unfinished
    BY <1>5 DEF UNFINISHED_STATUSES
  <2>2. Owners' = Owners
    BY <2>1 DEF Owners
  <2>3. Results' = Results
    BY <1>5 DEF Results, Terminal, ACTIVE_STATUSES
  <2> QED
    BY <2>1, <2>2, <2>3 DEF Slot!slotVars
<1> QED
  BY <1>4, <1>5

\* Every step of the table is a step of the slot, or leaves it alone.
LEMMA StepMaps ==
    ASSUME TypeOK, AtMostOneUnfinished, OwnedFromClaim, [Next]_vars
    PROVE  [Slot!Next]_(Slot!slotVars)
<1>1. ASSUME NEW j \in Jobs, NEW lag \in Lags, Create(j, lag) PROVE Slot!Next
  BY <1>1, CreateMaps
<1>2. ASSUME NEW a \in Agents, NEW lag \in Lags, ClaimNothing(a, lag)
      PROVE  [Slot!Next]_(Slot!slotVars)
  BY <1>2, RecoveryMaps DEF ClaimNothing
<1>3. ASSUME NEW a \in Agents, NEW j \in Jobs, NEW lag \in Lags, ClaimHeld(a, j, lag)
      PROVE  [Slot!Next]_(Slot!slotVars)
  BY <1>3, RecoveryMaps DEF ClaimHeld
<1>4. ASSUME NEW a \in Agents, NEW j \in Jobs, NEW lag \in Lags, ClaimQueued(a, j, lag)
      PROVE  Slot!Next
  BY <1>4, ClaimMaps DEF Slot!Next
<1>5. ASSUME NEW a \in Agents, NEW j \in Jobs, MarkSucceeded(a, j)
      PROVE  [Slot!Next]_(Slot!slotVars)
  <2>1. status[j] \in ACTIVE_STATUSES /\ "succeeded" \in ACTIVE_STATUSES \cup Terminal
    BY <1>5 DEF MarkSucceeded, ACTIVE_STATUSES, Terminal
  <2> QED
    BY <1>5, <2>1, ReportMaps DEF MarkSucceeded
<1>6. ASSUME NEW a \in Agents, NEW j \in Jobs, NEW lag \in Lags, NEW state \in Status,
             UpdateState(a, j, state, lag)
      PROVE  [Slot!Next]_(Slot!slotVars)
  <2>1. status[j] \in ACTIVE_STATUSES /\ state \in ACTIVE_STATUSES \cup Terminal
    BY <1>6 DEF UpdateState, AGENT_TRANSITIONS, ACTIVE_STATUSES, Terminal
  <2> QED
    BY <1>6, <2>1, ReportMaps DEF UpdateState
<1>7. ASSUME UNCHANGED <<status, agent>> PROVE UNCHANGED Slot!slotVars
  BY <1>7 DEF Slot!slotVars, Unfinished, Owners, Results
<1>8. ASSUME NEW a \in Agents, NEW j \in Jobs, NEW lag \in Lags, Heartbeat(a, j, lag)
      PROVE  UNCHANGED Slot!slotVars
  BY <1>7, <1>8 DEF Heartbeat
<1>9. CASE Tick
  BY <1>7, <1>9 DEF Tick
<1>10. CASE UNCHANGED vars
  BY <1>7, <1>10 DEF vars
<1> QED
  BY <1>1, <1>2, <1>3, <1>4, <1>5, <1>6, <1>8, <1>9, <1>10 DEF Next, AgentRequest

\* The table implements the slot, for every set of jobs and agents.
THEOREM Refinement == Spec => ImplementsSlot
<1>1. Init => Slot!Init
  BY DEF Init, Slot!Init, Unfinished, Owners, Results,
         UNFINISHED_STATUSES, ACTIVE_STATUSES, Terminal
<1>2. TypeOK /\ AtMostOneUnfinished /\ OwnedFromClaim /\ [Next]_vars
        => [Slot!Next]_(Slot!slotVars)
  BY StepMaps
<1> QED
  BY <1>1, <1>2, TypeCorrect, OneUnfinished, Owned, PTL DEF Spec, ImplementsSlot, Slot!Spec

-----------------------------------------------------------------------------
(***************************************************************************)
(* The agents.                                                             *)
(***************************************************************************)
\* Jobs whose complete package is on the server's disk.
Packed == ready \cup archived

\* The threads of an agent are where their program may be.
ThreadsInOrder ==
    \A a \in Agents :
        /\ phase[a] \in {"post", "wait"} => at[a] \in Posts
        /\ phase[a] = "work" => at[a] \in Works
        /\ phase[a] = "down" => at[a] = "claim"
        /\ beat[a] # "off" => hand[a] \in Jobs

\* A request that is still awaited is the one its thread last sent.
AwaitedIsLast ==
    \A r \in net :
        /\ r.by = "main" => phase[r.from] = "wait" /\ r.op = at[r.from] /\ r.job = hand[r.from]
        /\ r.by = "beat" => beat[r.from] = "asked" /\ r.op = "heartbeat" /\ r.job = hand[r.from]
        /\ r.op # "claim" => r.job \in Jobs

\* An agent works on jobs of its own.
HandIsOwn == \A a \in Agents : hand[a] # NoJob => agent[hand[a]] = a

\* Whoever reports the end of the capture has published the package before,
\* also when the report is late.
ReportedIsPacked ==
    /\ \A r \in net : r.op = "awaiting_files" => r.job \in Packed
    /\ \A a \in Agents : at[a] = "awaiting_files" => hand[a] \in Packed

\* No agent works on a job that has its package already.
CapturedOnce == \A a \in Agents : at[a] \in Works => hand[a] \notin Packed

\* A package belongs to a job that was captured.
PackedWasCaptured ==
    \A j \in Packed : status[j] \in {"capturing", "awaiting_files", "failed", "succeeded"}

TableInv == TypeOK /\ AtMostOneUnfinished /\ OwnedFromClaim

AgentInv ==
    /\ TableInv
    /\ AgentTypeOK
    /\ ThreadsInOrder /\ AwaitedIsLast
    /\ HandIsOwn
    /\ ReportedIsPacked /\ CapturedOnce /\ PackedWasCaptured
    /\ PackagesMatchTable
    /\ CaptureIsAcknowledged

-----------------------------------------------------------------------------

\* A request is determined by its fields.
LEMMA SameRequest ==
    ASSUME NEW r \in Requests, NEW s \in Requests,
           r.from = s.from, r.by = s.by, r.op = s.op, r.job = s.job
    PROVE  r = s
BY DEF Requests

\* Disown takes the awaited requests of the named threads away: some of them
\* stay, without a sender.
LEMMA DisownKeeps ==
    ASSUME NEW Q, Q \subseteq Requests, NEW a \in Agents, NEW T,
           NEW s \in Disown(Q, a, T)
    PROVE  /\ s \in Requests
           /\ \/ s \in Q /\ ~(s.from = a /\ s.by \in T)
              \/ /\ s.by = "nobody"
                 /\ \E r \in Q : r.from = s.from /\ r.op = s.op /\ r.job = s.job
<1> DEFINE mine == {r \in Q : r.from = a /\ r.by \in T}
           orphans == {[r EXCEPT !.by = "nobody"] : r \in mine}
<1>1. s \in (Q \ mine) \cup orphans
  BY DEF Disown
<1>2. CASE s \in Q \ mine
  BY <1>2
<1>3. ASSUME NEW r \in mine, s = [r EXCEPT !.by = "nobody"]
      PROVE  /\ s \in Requests /\ s.by = "nobody"
             /\ r.from = s.from /\ r.op = s.op /\ r.job = s.job
  BY <1>3 DEF Requests
<1> QED
  BY <1>1, <1>2, <1>3

-----------------------------------------------------------------------------
(* The table under the agents. *)

\* A request is served as the operation of CaptureJobs that it names.
LEMMA ServeIsTableStep ==
    ASSUME AgentInv, NEW r \in net, Serve(r)
    PROVE  [Next]_vars
<1> USE DEF AgentInv, AgentTypeOK
<1>1. r.from \in Agents /\ (r.op # "claim" => r.job \in Jobs)
  BY DEF AwaitedIsLast, Requests
<1>2. CASE ServeClaim(r)
  BY <1>1, <1>2 DEF ServeClaim, Next, AgentRequest
<1>3. CASE ServeHeartbeat(r)
  BY <1>1, <1>3 DEF ServeHeartbeat, Next, AgentRequest
<1>4. CASE ServeReport(r)
  <2>1. Reports \subseteq Status
    BY DEF Reports, Status, UNFINISHED_STATUSES, ACTIVE_STATUSES, Terminal
  <2>2. r.op \in Status /\ r.job \in Jobs
    BY <1>1, <1>4, <2>1 DEF ServeReport, Reports
  <2> QED
    BY <1>1, <1>4, <2>2 DEF ServeReport, Next, AgentRequest
<1>5. CASE ServeComplete(r)
  BY <1>1, <1>5 DEF ServeComplete, Next, AgentRequest
<1> QED
  BY <1>2, <1>3, <1>4, <1>5 DEF Serve

\* Every step of the agents, the network and the environment is a step of
\* the job table or leaves it alone.
LEMMA AgentStepIsTableStep ==
    ASSUME AgentInv, [AgentNext]_allVars
    PROVE  [Next]_vars
<1>1. CASE Environment
  BY <1>1 DEF Environment, Next
<1>2. ASSUME NEW a \in Agents,
             MainThread(a) \/ Beat(a) \/ PostTimesOut(a) \/ BeatTimesOut(a) \/ Crash(a) \/ Restart(a)
      PROVE  UNCHANGED vars
  BY <1>2 DEF MainThread, Work, LastPage, Publish, WorkFails, Post, Beat,
              PostTimesOut, BeatTimesOut, Crash, Restart
<1>3. ASSUME NEW r \in net, Serve(r) PROVE [Next]_vars
  BY <1>3, ServeIsTableStep
<1>4. ASSUME NEW r \in net, LoseRequest(r) PROVE UNCHANGED vars
  BY <1>4 DEF LoseRequest
<1>5. CASE UNCHANGED allVars
  BY <1>5 DEF allVars
<1> QED
  BY <1>1, <1>2, <1>3, <1>4, <1>5 DEF AgentNext

\* One step of agents and server keeps what is known of the table.
LEMMA TableInvStep ==
    ASSUME AgentInv, [AgentNext]_allVars
    PROVE  TableInv'
BY AgentStepIsTableStep, TypeOKStep, AtMostOneStep, OwnedStep DEF AgentInv, TableInv

-----------------------------------------------------------------------------
(* What one step may do to a job and to its package. *)

StatusMoves(j) ==
    \/ status'[j] = status[j]
    \/ status[j] \in ACTIVE_STATUSES /\ status'[j] = "failed"
    \/ status[j] = "absent" /\ status'[j] = "queued"
    \/ status[j] = "queued" /\ status'[j] = "claimed"
    \/ /\ <<status[j], status'[j]>> \in AGENT_TRANSITIONS
       /\ \E r \in net : r.op = status'[j] /\ r.job = j
    \/ /\ status[j] = "awaiting_files" /\ status'[j] = "succeeded"
       /\ j \in ready /\ j \notin ready' /\ j \in archived'

OwnerMoves(j) == agent'[j] = agent[j] \/ status[j] = "queued"

PackageMoves(j) ==
    \/ (j \in ready' <=> j \in ready) /\ (j \in archived' <=> j \in archived)
    \/ status[j] = "awaiting_files" /\ status'[j] = "succeeded" /\ j \notin ready' /\ j \in archived'
    \/ /\ status'[j] = status[j] /\ j \in ready' /\ (j \in archived' <=> j \in archived)
       /\ \E a \in Agents :
            phase[a] = "work" /\ at[a] = "publishing" /\ hand[a] = j /\ at'[a] = "awaiting_files"

JobMoves(j) == StatusMoves(j) /\ OwnerMoves(j) /\ PackageMoves(j)

\* The server answers a request by moving a job as StatusMoves allows, under
\* its owner, and archives the package of exactly the job that succeeds.
LEMMA ServeMoves ==
    ASSUME AgentInv, NEW r \in net, Serve(r), NEW j \in Jobs
    PROVE  JobMoves(j)
<1> USE DEF AgentInv, AgentTypeOK, TypeOK
<1>1. r.from \in Agents /\ (r.op # "claim" => r.job \in Jobs)
  BY DEF AwaitedIsLast, Requests
<1>2. CASE ServeClaim(r)
  <2>1. UNCHANGED fileVars
    BY <1>2 DEF ServeClaim
  <2>2. ASSUME NEW lag \in Lags, ClaimNothing(r.from, lag) PROVE StatusMoves(j) /\ OwnerMoves(j)
    BY <2>2, RecoveredStatus DEF ClaimNothing, StatusMoves, OwnerMoves
  <2>3. ASSUME NEW lag \in Lags, NEW k \in Jobs, ClaimHeld(r.from, k, lag)
        PROVE  StatusMoves(j) /\ OwnerMoves(j)
    BY <2>3, RecoveredStatus DEF ClaimHeld, StatusMoves, OwnerMoves
  <2>4. ASSUME NEW lag \in Lags, NEW k \in Jobs, ClaimQueued(r.from, k, lag)
        PROVE  StatusMoves(j) /\ OwnerMoves(j)
    BY <2>4, RecoveredStatus DEF ClaimQueued, StatusMoves, OwnerMoves
  <2> QED
    BY <1>2, <2>1, <2>2, <2>3, <2>4 DEF ServeClaim, JobMoves, PackageMoves, fileVars
<1>3. CASE ServeHeartbeat(r)
  <2>1. UNCHANGED <<status, agent, fileVars>>
    BY <1>3 DEF ServeHeartbeat, Heartbeat, vars
  <2> QED
    BY <2>1 DEF JobMoves, StatusMoves, OwnerMoves, PackageMoves, fileVars
<1>4. CASE ServeReport(r)
  <2>1. UNCHANGED <<agent, fileVars>>
    BY <1>4 DEF ServeReport, UpdateState, vars
  <2>2. \/ UNCHANGED status
        \/ /\ <<status[r.job], r.op>> \in AGENT_TRANSITIONS
           /\ status' = [status EXCEPT ![r.job] = r.op]
    BY <1>4 DEF ServeReport, UpdateState, vars
  <2>3. StatusMoves(j)
    BY <1>1, <1>4, <2>2 DEF StatusMoves, ServeReport, Reports
  <2> QED
    BY <2>1, <2>3 DEF JobMoves, OwnerMoves, PackageMoves, fileVars
<1>5. CASE ServeComplete(r)
  <2>1. CASE UNCHANGED <<vars, fileVars>>
    BY <2>1 DEF JobMoves, StatusMoves, OwnerMoves, PackageMoves, fileVars, vars
  <2>2. CASE /\ r.job \in ready
             /\ MarkSucceeded(r.from, r.job)
             /\ ready' = ready \ {r.job}
             /\ archived' = archived \cup {r.job}
    <3>1. r.job \in Jobs
      BY <2>2
    <3> QED
      BY <2>2, <3>1 DEF MarkSucceeded, JobMoves, StatusMoves, OwnerMoves, PackageMoves
  <2> QED
    BY <1>5, <2>1, <2>2 DEF ServeComplete
<1> QED
  BY <1>2, <1>3, <1>4, <1>5 DEF Serve

\* So does every other step, a failure or a crash included.
LEMMA StepMoves ==
    ASSUME AgentInv, [AgentNext]_allVars, NEW j \in Jobs
    PROVE  JobMoves(j)
<1> USE DEF AgentInv, AgentTypeOK, TypeOK
<1>1. CASE Environment
  <2>1. ASSUME NEW k \in Jobs, NEW lag \in Lags, Create(k, lag) PROVE StatusMoves(j) /\ OwnerMoves(j)
    <3>1. /\ status[k] = "absent" /\ status'[k] = "queued" /\ agent' = agent
          /\ j # k => status'[j] = Recovered(lag)[j]
      BY <2>1, RecoveredStatus DEF Create
    <3> QED
      BY <3>1, RecoveredStatus DEF StatusMoves, OwnerMoves
  <2>2. ASSUME Tick PROVE StatusMoves(j) /\ OwnerMoves(j)
    BY <2>2 DEF Tick, StatusMoves, OwnerMoves
  <2>3. PackageMoves(j)
    BY <1>1 DEF Environment, PackageMoves, fileVars
  <2> QED
    BY <1>1, <2>1, <2>2, <2>3 DEF Environment, JobMoves
<1>2. ASSUME NEW a \in Agents,
             Work(a) \/ LastPage(a) \/ WorkFails(a) \/ Post(a) \/ Beat(a) \/ PostTimesOut(a)
             \/ BeatTimesOut(a) \/ Crash(a) \/ Restart(a)
      PROVE  JobMoves(j)
  <2>1. UNCHANGED <<vars, fileVars>>
    BY <1>2 DEF Work, LastPage, WorkFails, Post, Beat, PostTimesOut, BeatTimesOut, Crash, Restart
  <2> QED
    BY <2>1 DEF JobMoves, StatusMoves, OwnerMoves, PackageMoves, fileVars, vars
<1>3. ASSUME NEW a \in Agents, Publish(a) PROVE JobMoves(j)
  <2>1. CASE j = hand[a]
    BY <1>3, <2>1 DEF Publish, Goto, JobMoves, StatusMoves, OwnerMoves, PackageMoves, vars
  <2>2. CASE j # hand[a]
    BY <1>3, <2>2 DEF Publish, JobMoves, StatusMoves, OwnerMoves, PackageMoves, vars
  <2> QED
    BY <2>1, <2>2
<1>4. ASSUME NEW r \in net, Serve(r) PROVE JobMoves(j)
  BY <1>4, ServeMoves
<1>5. ASSUME UNCHANGED <<vars, fileVars>> PROVE JobMoves(j)
  BY <1>5 DEF JobMoves, StatusMoves, OwnerMoves, PackageMoves, fileVars, vars
<1>6. ASSUME NEW r \in net, LoseRequest(r) PROVE JobMoves(j)
  BY <1>5, <1>6 DEF LoseRequest
<1>7. CASE UNCHANGED allVars
  BY <1>5, <1>7 DEF allVars
<1> QED
  BY <1>1, <1>2, <1>3, <1>4, <1>6, <1>7 DEF AgentNext, MainThread

-----------------------------------------------------------------------------
(* The packages and the table. *)

\* Packages are of jobs.
LEMMA FilesStep ==
    ASSUME AgentInv, [AgentNext]_allVars
    PROVE  ready' \subseteq Jobs /\ archived' \subseteq Jobs
<1> USE DEF AgentInv, AgentTypeOK
<1>1. ASSUME NEW a \in Agents, Publish(a) PROVE ready' \subseteq Jobs /\ archived' \subseteq Jobs
  BY <1>1 DEF Publish
<1>2. ASSUME NEW r \in net, Serve(r) PROVE ready' \subseteq Jobs /\ archived' \subseteq Jobs
  BY <1>2 DEF Serve, ServeClaim, ServeHeartbeat, ServeReport, ServeComplete, fileVars
<1>3. ASSUME NEW a \in Agents,
             Work(a) \/ LastPage(a) \/ WorkFails(a) \/ Post(a) \/ Beat(a) \/ PostTimesOut(a)
             \/ BeatTimesOut(a) \/ Crash(a) \/ Restart(a)
      PROVE  UNCHANGED fileVars
  BY <1>3 DEF Work, LastPage, WorkFails, Post, Beat, PostTimesOut, BeatTimesOut, Crash, Restart
<1>4. CASE Environment
  BY <1>4 DEF Environment, fileVars
<1>5. ASSUME NEW r \in net, LoseRequest(r) PROVE UNCHANGED fileVars
  BY <1>5 DEF LoseRequest
<1>6. CASE UNCHANGED allVars
  BY <1>6 DEF allVars, fileVars
<1> QED
  BY <1>1, <1>2, <1>3, <1>4, <1>5, <1>6 DEF AgentNext, MainThread, fileVars

\* A package that is new on the server's disk is that of a job in capture,
\* or failed in the meantime; none is removed from both places.
LEMMA PackedStep ==
    ASSUME AgentInv, [AgentNext]_allVars, NEW j \in Jobs
    PROVE  /\ j \in Packed => j \in Packed'
           /\ j \in Packed' /\ j \notin Packed =>
                /\ status[j] \in {"capturing", "failed"} /\ status'[j] = status[j]
                /\ j \notin archived'
<1>1. JobMoves(j)
  BY StepMoves
<1>2. j \in Packed => j \in Packed'
  BY <1>1 DEF JobMoves, PackageMoves, Packed
<1>3. ASSUME j \in Packed', j \notin Packed
      PROVE  /\ status[j] \in {"capturing", "failed"} /\ status'[j] = status[j]
             /\ j \notin archived'
  <2>1. status[j] # "awaiting_files"
    BY <1>3 DEF AgentInv, PackagesMatchTable, AwaitingHasPackage, Packed
  <2>2. PICK a \in Agents : phase[a] = "work" /\ at[a] = "publishing" /\ hand[a] = j
    BY <1>1, <1>3, <2>1 DEF JobMoves, PackageMoves, Packed
  <2>3. status'[j] = status[j] /\ j \notin archived'
    BY <1>1, <1>3, <2>1 DEF JobMoves, PackageMoves, Packed
  <2> QED
    BY <2>2, <2>3 DEF AgentInv, CaptureIsAcknowledged
<1> QED
  BY <1>2, <1>3

\* One step keeps packages and table in agreement.
LEMMA PackagesStep ==
    ASSUME AgentInv, [AgentNext]_allVars
    PROVE  PackedWasCaptured' /\ PackagesMatchTable'
<1>1. ready' \subseteq Jobs /\ archived' \subseteq Jobs
  BY FilesStep
<1>2. \A j \in Jobs : j \in archived <=> status[j] = "succeeded"
  BY DEF AgentInv, PackagesMatchTable, ArchivedIffSucceeded
<1>3. PackedWasCaptured'
  <2> SUFFICES ASSUME NEW j \in Packed'
               PROVE  status'[j] \in {"capturing", "awaiting_files", "failed", "succeeded"}
    BY DEF PackedWasCaptured
  <2>1. j \in Jobs
    BY <1>1 DEF Packed
  <2>2. CASE j \in Packed
    <3>1. status[j] \in {"capturing", "awaiting_files", "failed", "succeeded"}
      BY <2>2 DEF AgentInv, PackedWasCaptured
    <3>2. StatusMoves(j)
      BY <2>1, StepMoves DEF JobMoves
    <3> QED
      BY <3>1, <3>2 DEF StatusMoves, AGENT_TRANSITIONS, ACTIVE_STATUSES
  <2>3. CASE j \notin Packed
    BY <2>1, <2>3, PackedStep
  <2> QED
    BY <2>2, <2>3
<1>4. AwaitingHasPackage'
  <2> SUFFICES ASSUME NEW j \in Jobs, status'[j] = "awaiting_files" PROVE j \in ready'
    BY DEF AwaitingHasPackage
  <2>1. JobMoves(j)
    BY StepMoves
  <2>2. CASE status[j] = "awaiting_files"
    BY <2>1, <2>2 DEF JobMoves, PackageMoves, AgentInv, PackagesMatchTable, AwaitingHasPackage
  <2>3. CASE status[j] # "awaiting_files"
    <3>1. /\ <<status[j], "awaiting_files">> \in AGENT_TRANSITIONS
          /\ \E r \in net : r.op = "awaiting_files" /\ r.job = j
      BY <2>1, <2>3 DEF JobMoves, StatusMoves
    <3>2. j \in Packed /\ status[j] = "capturing"
      BY <3>1 DEF AgentInv, ReportedIsPacked, AGENT_TRANSITIONS
    <3>3. j \in ready
      BY <1>2, <3>2 DEF Packed
    <3> QED
      BY <2>1, <3>2, <3>3 DEF JobMoves, PackageMoves
  <2> QED
    BY <2>2, <2>3
<1>5. ArchivedIffSucceeded'
  <2>1. ASSUME NEW j \in Jobs PROVE j \in archived' <=> status'[j] = "succeeded"
    <3>1. JobMoves(j)
      BY StepMoves
    <3>2. CASE status[j] = "succeeded"
      BY <1>2, <3>1, <3>2
      DEF JobMoves, StatusMoves, PackageMoves, AGENT_TRANSITIONS, ACTIVE_STATUSES
    <3>3. CASE status[j] # "succeeded"
      BY <1>2, <3>1, <3>3
      DEF JobMoves, StatusMoves, PackageMoves, AGENT_TRANSITIONS
    <3> QED
      BY <3>2, <3>3
  <2>2. ASSUME NEW j \in Jobs PROVE ~(j \in ready' /\ j \in archived')
    <3>1. CASE j \in Packed
      <4>1. PackageMoves(j) /\ ~(j \in ready /\ j \in archived)
        BY StepMoves DEF JobMoves, AgentInv, PackagesMatchTable, ArchivedIffSucceeded
      <4>2. \A a \in Agents : at[a] = "publishing" => hand[a] # j
        BY <3>1 DEF AgentInv, CapturedOnce, Works
      <4> QED
        BY <4>1, <4>2 DEF PackageMoves
    <3>2. CASE j \notin Packed
      BY <3>2, PackedStep DEF Packed
    <3> QED
      BY <3>1, <3>2
  <2> QED
    BY <1>1, <2>1, <2>2 DEF ArchivedIffSucceeded
<1> QED
  BY <1>3, <1>4, <1>5 DEF PackagesMatchTable

-----------------------------------------------------------------------------
(* The threads of the agents. *)

\* What a reply, or its loss, leaves under way.
LEMMA ReplyNet ==
    ASSUME AgentInv, NEW r \in net, NEW o, Reply(r, o), NEW s \in net'
    PROVE  /\ s \in Requests
           /\ \/ s \in net /\ s # r
              \/ s.by = "nobody" /\ \E q \in net : q.from = s.from /\ q.op = s.op /\ q.job = s.job
<1> USE DEF AgentInv, AgentTypeOK
<1>1. net \ {r} \subseteq Requests /\ r.from \in Agents
  BY DEF Requests
<1>2. s \in net \ {r} \/ s \in Disown(net \ {r}, r.from, {"beat"})
  <2>1. CASE Vanishes(r)
    BY <2>1 DEF Vanishes
  <2>2. CASE Arrives(r, o) /\ r.by = "main" /\ o = "ok"
    BY <2>2 DEF Arrives, MainGoesOn, EndRun
  <2>3. CASE Arrives(r, o) /\ r.by = "main" /\ o = "error"
    BY <2>3 DEF Arrives, MainRaises, EndRun
  <2>4. CASE Arrives(r, o) /\ r.by = "main" /\ o \notin {"ok", "error"}
    BY <2>4 DEF Arrives, MainStarts
  <2>5. CASE Arrives(r, o) /\ r.by \in {"beat", "nobody"}
    BY <2>5 DEF Arrives
  <2> QED
    BY <2>1, <2>2, <2>3, <2>4, <2>5 DEF Reply, Requests
<1> QED
  BY <1>1, <1>2, DisownKeeps

\* The main thread of agent a goes back to claiming, goes on with its job, or
\* takes up job j.
Ends(a) ==
    /\ phase'[a] = "post" /\ at'[a] = "claim" /\ hand'[a] = NoJob /\ beat'[a] = "off"
    /\ \A s \in net' : s.from = a => s.by # "beat"

GoesOn(a) ==
    /\ at[a] \notin {"claim", "complete", "failed"}
    /\ hand'[a] = hand[a] /\ beat'[a] = beat[a]
    /\ IF at[a] = "awaiting_files" THEN phase'[a] = "post" /\ at'[a] = "complete"
                                   ELSE phase'[a] = "work" /\ at'[a] = at[a]

Raises(a) ==
    /\ at[a] \notin {"claim", "failed"}
    /\ hand'[a] = hand[a] /\ beat'[a] = beat[a]
    /\ phase'[a] = "post" /\ at'[a] = "failed"

TakesUp(a, j) ==
    /\ hand'[a] = j /\ beat'[a] = "sleeping"
    /\ \/ phase'[a] = "post" /\ at'[a] \in {"complete", "failed"}
       \/ phase'[a] = "work" /\ at'[a] = "claimed" /\ status'[j] = "claimed"

Rests(a) == phase'[a] = phase[a] /\ at'[a] = at[a] /\ hand'[a] = hand[a]

\* A run that is given up ends in the main thread, and for no other agent.
LEMMA EndRunEnds ==
    ASSUME AgentInv, NEW a \in Agents, NEW Q, Q \subseteq Requests, EndRun(a, Q)
    PROVE  /\ Ends(a)
           /\ \A b \in Agents : b # a => Rests(b) /\ beat'[b] = beat[b]
<1> USE DEF AgentInv, AgentTypeOK
<1>1. \A s \in net' : s.from = a => s.by # "beat"
  BY DisownKeeps DEF EndRun
<1> QED
  BY <1>1 DEF EndRun, Ends, Rests, Goto

\* What an answer does to the agent it is for, by the thread that waits for it.
LEMMA ReplyMoves ==
    ASSUME AgentInv, NEW r \in net, NEW o, Reply(r, o)
    PROVE  /\ \A a \in Agents : a # r.from => Rests(a) /\ beat'[a] = beat[a]
           /\ r.by = "main" =>
                \/ Rests(r.from) /\ beat'[r.from] = beat[r.from]
                \/ Ends(r.from)
                \/ o = "ok" /\ GoesOn(r.from)
                \/ o = "error" /\ Raises(r.from)
                \/ o \notin {"ok", "error"} /\ TakesUp(r.from, o)
           /\ r.by = "beat" => Rests(r.from) /\ beat'[r.from] \in {"asked", "sleeping", "failed"}
           /\ r.by = "nobody" => Rests(r.from) /\ beat'[r.from] = beat[r.from]
<1> DEFINE a == r.from
           Q == net \ {r}
           Others == \A b \in Agents : b # a => Rests(b) /\ beat'[b] = beat[b]
<1> USE DEF AgentInv, AgentTypeOK
<1>1. a \in Agents /\ r.by \in {"main", "beat", "nobody"} /\ Q \subseteq Requests
  BY DEF Requests
<1>2. CASE Vanishes(r)
  BY <1>1, <1>2 DEF Vanishes, agentVars, Rests, AwaitedIsLast
<1>3. ASSUME Arrives(r, o), r.by = "main", o = "ok"
      PROVE  Others /\ (Ends(a) \/ GoesOn(a))
  <2>1. MainGoesOn(a, Q)
    BY <1>3 DEF Arrives
  <2>2. CASE EndRun(a, Q)
    BY <1>1, <2>2, EndRunEnds
  <2>3. CASE ~EndRun(a, Q)
    BY <1>1, <2>1, <2>3 DEF MainGoesOn, GoesOn, Rests, Goto
  <2> QED
    BY <2>2, <2>3
<1>4. ASSUME Arrives(r, o), r.by = "main", o = "error"
      PROVE  Others /\ (Ends(a) \/ Raises(a))
  <2>1. MainRaises(a, Q)
    BY <1>4 DEF Arrives
  <2>2. CASE EndRun(a, Q)
    BY <1>1, <2>2, EndRunEnds
  <2>3. CASE ~EndRun(a, Q)
    BY <1>1, <2>1, <2>3 DEF MainRaises, Raises, Rests, Goto
  <2> QED
    BY <2>2, <2>3
<1>5. ASSUME Arrives(r, o), r.by = "main", o \notin {"ok", "error"}
      PROVE  Others /\ TakesUp(a, o)
  <2>1. MainStarts(a, o, status'[o], Q)
    BY <1>5 DEF Arrives
  <2>2. CASE status'[o] = "awaiting_files"
    BY <1>1, <2>1, <2>2 DEF MainStarts, TakesUp, Rests, Goto
  <2>3. CASE status'[o] = "claimed"
    BY <1>1, <2>1, <2>3 DEF MainStarts, TakesUp, Rests, Goto
  <2>4. CASE status'[o] \notin {"awaiting_files", "claimed"}
    BY <1>1, <2>1, <2>4 DEF MainStarts, TakesUp, Rests, Goto
  <2> QED
    BY <2>2, <2>3, <2>4
<1>6. ASSUME Arrives(r, o), r.by = "beat"
      PROVE  Others /\ Rests(a) /\ beat'[a] \in {"asked", "sleeping", "failed"}
  BY <1>1, <1>6 DEF Arrives, Rests
<1>7. ASSUME Arrives(r, o), r.by = "nobody"
      PROVE  Others /\ Rests(a) /\ beat'[a] = beat[a]
  BY <1>1, <1>7 DEF Arrives, Rests, agentVars
<1> QED
  BY <1>1, <1>2, <1>3, <1>4, <1>5, <1>6, <1>7 DEF Reply

\* The one request that the main thread of an agent awaits.
LEMMA OneAwaited ==
    ASSUME AgentInv, NEW r \in net, NEW s \in net,
           r.from = s.from, r.by = s.by, r.by \in {"main", "beat"}
    PROVE  r = s
BY SameRequest DEF AgentInv, AgentTypeOK, AwaitedIsLast

\* The threads' own invariant after a reply.
LEMMA ReplyKeepsThreads ==
    ASSUME AgentInv, NEW r \in net, NEW o, Reply(r, o),
           r.by = "main" /\ o \notin {"ok", "error"} => o \in Jobs /\ r.op = "claim"
    PROVE  ThreadsInOrder' /\ AwaitedIsLast'
<1> DEFINE a == r.from
<1> USE DEF AgentInv, AgentTypeOK
<1>1. a \in Agents /\ r.by \in {"main", "beat", "nobody"}
  BY DEF Requests
<1>2. ThreadsInOrder'
  <2> SUFFICES ASSUME NEW b \in Agents
               PROVE  /\ phase'[b] \in {"post", "wait"} => at'[b] \in Posts
                      /\ phase'[b] = "work" => at'[b] \in Works
                      /\ phase'[b] = "down" => at'[b] = "claim"
                      /\ beat'[b] # "off" => hand'[b] \in Jobs
    BY DEF ThreadsInOrder
  <2>1. CASE Rests(b) /\ beat'[b] = beat[b]
    BY <2>1 DEF Rests, ThreadsInOrder
  <2>2. CASE Ends(b)
    BY <2>2 DEF Ends, Posts
  <2>3. CASE GoesOn(b) /\ phase[b] = "wait"
    BY <2>3 DEF GoesOn, ThreadsInOrder, Posts, Reports, Works
  <2>4. CASE Raises(b)
    BY <2>4 DEF Raises, ThreadsInOrder, Posts, Reports
  <2>5. CASE TakesUp(b, o) /\ o \in Jobs
    BY <2>5 DEF TakesUp, Posts, Reports, Works
  <2>6. CASE Rests(b) /\ b = a /\ r.by = "beat"
    BY <2>6 DEF Rests, ThreadsInOrder, AwaitedIsLast
  <2> QED
    BY <1>1, <2>1, <2>2, <2>3, <2>4, <2>5, <2>6, ReplyMoves DEF AwaitedIsLast
<1>3. AwaitedIsLast'
  <2> SUFFICES ASSUME NEW s \in net'
               PROVE  /\ s.by = "main" =>
                            phase'[s.from] = "wait" /\ s.op = at'[s.from] /\ s.job = hand'[s.from]
                      /\ s.by = "beat" =>
                            /\ beat'[s.from] = "asked" /\ s.op = "heartbeat"
                            /\ s.job = hand'[s.from]
                      /\ s.op # "claim" => s.job \in Jobs
    BY DEF AwaitedIsLast
  <2>1. s \in Requests /\ s.from \in Agents
    BY ReplyNet DEF Requests
  <2>2. s.op # "claim" => s.job \in Jobs
    BY ReplyNet DEF AwaitedIsLast
  <2>3. ASSUME s.by = "main"
        PROVE  phase'[s.from] = "wait" /\ s.op = at'[s.from] /\ s.job = hand'[s.from]
    <3>1. s \in net /\ s # r
      BY <2>3, ReplyNet
    <3>2. Rests(s.from)
      BY <1>1, <2>1, <2>3, <3>1, OneAwaited, ReplyMoves
    <3> QED
      BY <2>3, <3>1, <3>2 DEF AwaitedIsLast, Rests
  <2>4. ASSUME s.by = "beat"
        PROVE  beat'[s.from] = "asked" /\ s.op = "heartbeat" /\ s.job = hand'[s.from]
    <3>1. s \in net /\ s # r
      BY <2>4, ReplyNet
    <3>2. beat[s.from] = "asked" /\ s.op = "heartbeat" /\ s.job = hand[s.from]
      BY <2>4, <3>1 DEF AwaitedIsLast
    <3>3. ~Ends(s.from)
      BY <2>4 DEF Ends
    <3>4. r.by = "beat" => r.from # s.from
      BY <2>4, <3>1, OneAwaited
    <3>5. hand[s.from] # NoJob
      BY <2>1, <3>2, CaptureAgentAssumption DEF ThreadsInOrder
    <3>6. beat'[s.from] = beat[s.from] /\ hand'[s.from] = hand[s.from]
      BY <1>1, <2>1, <3>3, <3>4, <3>5, ReplyMoves DEF Rests, GoesOn, Raises, AwaitedIsLast
    <3> QED
      BY <3>2, <3>6
  <2> QED
    BY <2>2, <2>3, <2>4
<1> QED
  BY <1>2, <1>3

\* What the server answers: a claim gets "ok" or a job that is now the
\* agent's own, a report is accepted only with its effect.
Answered(r, o) ==
    /\ Reply(r, o)
    /\ r.op = "claim" => o = "ok" \/ (o \in Jobs /\ agent'[o] = r.from)
    /\ r.op # "claim" => o \in {"ok", "error"}
    /\ r.op \in Reports /\ o = "ok" => status'[r.job] = r.op

\* The server answers every request it serves with one outcome.
LEMMA ServeAnswers ==
    ASSUME AgentInv, NEW r \in net, Serve(r)
    PROVE  \E o : Answered(r, o)
<1> USE DEF AgentInv, AgentTypeOK, TypeOK
<1>1. r.from \in Agents /\ (r.op # "claim" => r.job \in Jobs)
  BY DEF AwaitedIsLast, Requests
<1>2. CASE ServeClaim(r)
  <2>1. r.op = "claim" /\ r.op \notin Reports
    BY <1>2 DEF ServeClaim, Reports
  <2>2. ASSUME NEW lag \in Lags, NEW j \in Jobs,
               ClaimHeld(r.from, j, lag) \/ ClaimQueued(r.from, j, lag)
        PROVE  agent'[j] = r.from
    BY <1>1, <2>2 DEF ClaimHeld, ClaimQueued, Holds
  <2> QED
    BY <1>2, <2>1, <2>2 DEF ServeClaim, Answered
<1>3. CASE ServeHeartbeat(r)
  BY <1>3 DEF ServeHeartbeat, Answered, Reports
<1>4. CASE ServeReport(r)
  <2>1. r.op # "claim" /\ r.job \in Jobs
    BY <1>1, <1>4 DEF ServeReport, Reports
  <2>2. ASSUME NEW lag \in Lags, UpdateState(r.from, r.job, r.op, lag) PROVE status'[r.job] = r.op
    BY <2>1, <2>2 DEF UpdateState
  <2> QED
    BY <1>4, <2>1, <2>2 DEF ServeReport, Answered
<1>5. CASE ServeComplete(r)
  BY <1>5 DEF ServeComplete, Answered, Reports
<1> QED
  BY <1>2, <1>3, <1>4, <1>5 DEF Serve

\* Serving a request packs nothing.
LEMMA ServePacksNothing ==
    ASSUME NEW r, Serve(r)
    PROVE  Packed' = Packed
BY DEF Serve, ServeClaim, ServeHeartbeat, ServeReport, ServeComplete, Packed, fileVars

\* An answer keeps the types of the agents.
LEMMA ReplyTypes ==
    ASSUME AgentInv, NEW r \in net, NEW o, Reply(r, o),
           r.by = "main" /\ o \notin {"ok", "error"} => o \in Jobs
    PROVE  /\ phase' \in [Agents -> {"down", "work", "post", "wait"}]
           /\ at' \in [Agents -> Works \cup Posts]
           /\ hand' \in [Agents -> Jobs \cup {NoJob}]
           /\ beat' \in [Agents -> {"off", "sleeping", "asked", "failed"}]
           /\ faults' \in 0..MaxFaults
<1> DEFINE a == r.from
           Q == net \ {r}
           Typed == /\ phase' \in [Agents -> {"down", "work", "post", "wait"}]
                    /\ at' \in [Agents -> Works \cup Posts]
                    /\ hand' \in [Agents -> Jobs \cup {NoJob}]
                    /\ beat' \in [Agents -> {"off", "sleeping", "asked", "failed"}]
<1> USE DEF AgentInv, AgentTypeOK
<1>1. a \in Agents /\ r.by \in {"main", "beat", "nobody"}
  BY DEF Requests
<1>2. {"claim", "complete", "failed"} \subseteq Works \cup Posts /\ "claimed" \in Works
  BY DEF Works, Posts, Reports
<1>3. faults' \in 0..MaxFaults
  <2>1. CASE Vanishes(r)
    BY <2>1, CaptureAgentAssumption DEF Vanishes
  <2>2. CASE Arrives(r, o)
    BY <2>2 DEF Arrives
  <2> QED
    BY <2>1, <2>2 DEF Reply
<1>4. ASSUME EndRun(a, Q) PROVE Typed
  BY <1>1, <1>2, <1>4 DEF EndRun, Goto
<1>5. CASE Vanishes(r)
  BY <1>3, <1>5 DEF Vanishes, agentVars
<1>6. CASE Arrives(r, o) /\ r.by = "main" /\ o = "ok"
  <2>1. MainGoesOn(a, Q)
    BY <1>6 DEF Arrives
  <2> QED
    BY <1>1, <1>2, <1>3, <1>4, <2>1 DEF MainGoesOn, Goto
<1>7. CASE Arrives(r, o) /\ r.by = "main" /\ o = "error"
  <2>1. MainRaises(a, Q)
    BY <1>7 DEF Arrives
  <2> QED
    BY <1>1, <1>2, <1>3, <1>4, <2>1 DEF MainRaises, Goto
<1>8. CASE Arrives(r, o) /\ r.by = "main" /\ o \notin {"ok", "error"}
  <2>1. MainStarts(a, o, status'[o], Q)
    BY <1>8 DEF Arrives
  <2> QED
    BY <1>1, <1>2, <1>3, <1>8, <2>1 DEF MainStarts, Goto
<1>9. CASE Arrives(r, o) /\ r.by = "beat"
  BY <1>1, <1>3, <1>9 DEF Arrives
<1>10. CASE Arrives(r, o) /\ r.by = "nobody"
  BY <1>3, <1>10 DEF Arrives, agentVars
<1> QED
  BY <1>1, <1>5, <1>6, <1>7, <1>8, <1>9, <1>10 DEF Reply

-----------------------------------------------------------------------------
(* The invariant, step by step. *)

\* The parts of the invariant that depend on where the threads are.
ThreadInv ==
    /\ AgentTypeOK
    /\ ThreadsInOrder /\ AwaitedIsLast
    /\ HandIsOwn
    /\ ReportedIsPacked /\ CapturedOnce
    /\ CaptureIsAcknowledged

\* A job in the hand of an agent keeps its owner.
LEMMA HeldKeepsOwner ==
    ASSUME AgentInv, [AgentNext]_allVars, NEW a \in Agents, hand[a] # NoJob
    PROVE  hand[a] \in Jobs /\ agent'[hand[a]] = a
<1>1. hand[a] \in Jobs /\ agent[hand[a]] = a
  BY DEF AgentInv, AgentTypeOK, HandIsOwn
<1>2. status[hand[a]] # "queued"
  BY <1>1, CaptureJobsAssumption DEF AgentInv, TableInv, OwnedFromClaim
<1> QED
  BY <1>1, <1>2, StepMoves DEF JobMoves, OwnerMoves

\* The server shows a job in capture as capturing until it fails it.
LEMMA CapturingStays ==
    ASSUME AgentInv, [AgentNext]_allVars, NEW j \in Jobs, j \notin Packed,
           status[j] \in {"capturing", "failed"}
    PROVE  status'[j] \in {"capturing", "failed"}
<1>1. StatusMoves(j)
  BY StepMoves DEF JobMoves
<1>2. ~\E r \in net : r.op = "awaiting_files" /\ r.job = j
  BY DEF AgentInv, ReportedIsPacked
<1> QED
  BY <1>1, <1>2 DEF StatusMoves, AGENT_TRANSITIONS, ACTIVE_STATUSES

\* A request that is served keeps what the threads know.
LEMMA ServeKeepsThreads ==
    ASSUME AgentInv, NEW r \in net, Serve(r)
    PROVE  ThreadInv'
<1>0. [AgentNext]_allVars
  BY DEF AgentNext
<1> USE DEF AgentInv, AgentTypeOK
<1>1. PICK o : Answered(r, o)
  BY ServeAnswers
<1> DEFINE a == r.from
<1>2. /\ Reply(r, o) /\ a \in Agents
      /\ r.by = "main" /\ o \notin {"ok", "error"} => o \in Jobs /\ r.op = "claim"
  BY <1>1 DEF Answered, Requests
<1>3. ThreadsInOrder' /\ AwaitedIsLast'
  BY <1>2, ReplyKeepsThreads
<1>4. \A b \in Agents :
        \/ Rests(b)
        \/ Ends(b)
        \/ /\ GoesOn(b) /\ at[b] # "publishing"
           /\ at[b] = "capturing" => agent'[hand[b]] = b /\ status'[hand[b]] = "capturing"
        \/ Raises(b)
        \/ o \in Jobs /\ agent'[o] = b /\ TakesUp(b, o)
  <2> SUFFICES ASSUME NEW b \in Agents
               PROVE  \/ Rests(b)
                      \/ Ends(b)
                      \/ /\ GoesOn(b) /\ at[b] # "publishing"
                         /\ at[b] = "capturing" =>
                              agent'[hand[b]] = b /\ status'[hand[b]] = "capturing"
                      \/ Raises(b)
                      \/ o \in Jobs /\ agent'[o] = b /\ TakesUp(b, o)
    OBVIOUS
  <2>1. CASE b # a \/ r.by # "main"
    BY <1>2, <2>1, ReplyMoves DEF Requests
  <2>2. CASE b = a /\ r.by = "main"
    <3>1. r.op = at[a] /\ r.job = hand[a] /\ at[a] # "publishing"
      BY <1>2, <2>2 DEF AwaitedIsLast, ThreadsInOrder, Posts, Reports
    <3>2. at[a] = "capturing" => hand[a] # NoJob /\ "capturing" \in Reports
      BY <1>2 DEF Reports
    <3>3. o = "ok" /\ at[a] = "capturing"
            => agent'[hand[a]] = a /\ status'[hand[a]] = "capturing"
      BY <1>0, <1>1, <1>2, <3>1, <3>2, HeldKeepsOwner DEF Answered
    <3>4. o \notin {"ok", "error"} => o \in Jobs /\ agent'[o] = a
      BY <1>1, <1>2, <2>2 DEF Answered
    <3> QED
      BY <1>2, <2>2, <3>1, <3>3, <3>4, ReplyMoves
  <2> QED
    BY <2>1, <2>2
<1>5. AgentTypeOK'
  <2>1. TypeOK' /\ ready' \subseteq Jobs /\ archived' \subseteq Jobs
    BY <1>0, TableInvStep, FilesStep DEF TableInv
  <2>2. net' \subseteq Requests
    BY <1>2, ReplyNet
  <2>3. \A b \in Agents : hand'[b] = NoJob <=> at'[b] = "claim"
    BY <1>4, CaptureAgentAssumption DEF Rests, Ends, GoesOn, Raises, TakesUp
  <2> QED
    BY <1>2, <2>1, <2>2, <2>3, ReplyTypes
<1>6. HandIsOwn'
  BY <1>0, <1>4, HeldKeepsOwner DEF HandIsOwn, Rests, Ends, GoesOn, Raises, TakesUp
<1>7. ReportedIsPacked'
  <2>1. ASSUME NEW s \in net', s.op = "awaiting_files" PROVE s.job \in Packed'
    BY <1>2, <2>1, ReplyNet, ServePacksNothing DEF ReportedIsPacked
  <2>2. ASSUME NEW b \in Agents, at'[b] = "awaiting_files" PROVE hand'[b] \in Packed'
    BY <1>4, <2>2, ServePacksNothing DEF ReportedIsPacked, Rests, Ends, GoesOn, Raises, TakesUp
  <2> QED
    BY <2>1, <2>2 DEF ReportedIsPacked
<1>8. CapturedOnce'
  <2> SUFFICES ASSUME NEW b \in Agents, at'[b] \in Works PROVE hand'[b] \notin Packed'
    BY DEF CapturedOnce
  <2>1. CASE Rests(b) \/ GoesOn(b)
    BY <2>1, ServePacksNothing DEF Rests, GoesOn, CapturedOnce, Works
  <2>2. CASE TakesUp(b, o)
    <3>1. hand'[b] = o /\ status'[o] = "claimed"
      BY <2>2 DEF TakesUp, Works
    <3> QED
      BY <1>0, <3>1, PackagesStep DEF PackedWasCaptured
  <2> QED
    BY <1>4, <2>1, <2>2 DEF Ends, Raises, Works
<1>9. CaptureIsAcknowledged'
  <2> SUFFICES ASSUME NEW b \in Agents, phase'[b] = "work", at'[b] \in {"capturing", "publishing"}
               PROVE  agent'[hand'[b]] = b /\ status'[hand'[b]] \in {"capturing", "failed"}
    BY DEF CaptureIsAcknowledged
  <2>1. CASE Rests(b)
    <3>1. /\ hand'[b] = hand[b] /\ hand[b] # NoJob /\ hand[b] \notin Packed
          /\ status[hand[b]] \in {"capturing", "failed"}
      BY <2>1 DEF Rests, CaptureIsAcknowledged, CapturedOnce, Works
    <3> QED
      BY <1>0, <3>1, HeldKeepsOwner, CapturingStays
  <2>2. CASE /\ GoesOn(b) /\ at[b] # "publishing"
             /\ at[b] = "capturing" => agent'[hand[b]] = b /\ status'[hand[b]] = "capturing"
    BY <2>2 DEF GoesOn
  <2> QED
    BY <1>4, <2>1, <2>2 DEF Ends, Raises, TakesUp
<1> QED
  BY <1>3, <1>5, <1>6, <1>7, <1>8, <1>9 DEF ThreadInv

\* A step of the main thread between two posts: its job stays in hand, and no
\* request of the thread is under way.
LEMMA WorkKeepsThreads ==
    ASSUME AgentInv, NEW a \in Agents, NEW ph, NEW what, Goto(a, ph, what),
           UNCHANGED <<vars, hand, beat, net, archived, faults>>,
           phase[a] = "work",
           \/ ph = "post" /\ what \in Posts \ {"claim"}
           \/ ph = "work" /\ what = "publishing" /\ at[a] = "capturing",
           IF what = "awaiting_files" THEN at[a] = "publishing" /\ ready' = ready \cup {hand[a]}
                                      ELSE ready' = ready
    PROVE  ThreadInv'
<1> USE DEF AgentInv, AgentTypeOK, Goto
<1>1. at[a] \in Works /\ at[a] # "claim" /\ hand[a] \in Jobs
  BY DEF ThreadsInOrder, Works
<1>2. what \in Works \cup Posts /\ what # "claim"
  BY DEF Works
<1>3. AgentTypeOK'
  <2>1. phase' \in [Agents -> {"down", "work", "post", "wait"}] /\ at' \in [Agents -> Works \cup Posts]
    BY <1>2
  <2>2. ready' \subseteq Jobs
    BY <1>1
  <2>3. \A b \in Agents : hand'[b] = NoJob <=> at'[b] = "claim"
    BY <1>1, <1>2, CaptureAgentAssumption
  <2> QED
    BY <2>1, <2>2, <2>3 DEF TypeOK, vars
<1>4. ThreadsInOrder'
  BY <1>1 DEF ThreadsInOrder, Works, Posts
<1>5. AwaitedIsLast'
  BY DEF AwaitedIsLast
<1>6. HandIsOwn'
  BY DEF HandIsOwn, vars
<1>7. ReportedIsPacked'
  BY DEF ReportedIsPacked, Packed
<1>8. CapturedOnce'
  <2> SUFFICES ASSUME NEW b \in Agents, at'[b] \in Works PROVE hand[b] \notin Packed'
    BY DEF CapturedOnce
  <2>1. at[b] \in Works /\ hand[b] \notin Packed
    BY <1>1 DEF CapturedOnce
  <2>2. CASE what = "awaiting_files"
    <3>1. b # a
      BY <2>2 DEF Works
    <3>2. hand[b] # hand[a]
      BY <1>1, <2>1, <3>1, CaptureAgentAssumption DEF HandIsOwn, Works
    <3> QED
      BY <2>1, <2>2, <3>2 DEF Packed
  <2>3. CASE what # "awaiting_files"
    BY <2>1, <2>3 DEF Packed
  <2> QED
    BY <2>2, <2>3
<1>9. CaptureIsAcknowledged'
  BY DEF CaptureIsAcknowledged, vars
<1> QED
  BY <1>3, <1>4, <1>5, <1>6, <1>7, <1>8, <1>9 DEF ThreadInv

\* So does a step of the main thread.
LEMMA MainThreadKeepsThreads ==
    ASSUME AgentInv, NEW a \in Agents, MainThread(a)
    PROVE  ThreadInv'
<1> USE DEF AgentInv, AgentTypeOK
<1>1. CASE Work(a)
  <2>1. PICK what \in Following(at[a]) : Goto(a, "post", what)
    BY <1>1 DEF Work
  <2>2. what \in {"locating_book", "downloading", "positioning", "capturing"}
    BY <2>1 DEF Following
  <2>3. what \in Posts \ {"claim", "awaiting_files"}
    BY <2>2 DEF Posts, Reports
  <2> QED
    BY <1>1, <2>1, <2>2, <2>3, WorkKeepsThreads DEF Work, fileVars
<1>2. CASE LastPage(a)
  BY <1>2, WorkKeepsThreads DEF LastPage, fileVars
<1>3. CASE Publish(a)
  <2>1. "awaiting_files" \in Posts \ {"claim"}
    BY DEF Posts, Reports
  <2> QED
    BY <1>3, <2>1, WorkKeepsThreads DEF Publish
<1>4. CASE WorkFails(a)
  <2>1. "failed" \in Posts \ {"claim"}
    BY DEF Posts, Reports
  <2> QED
    BY <1>4, <2>1, WorkKeepsThreads DEF WorkFails, fileVars
<1>5. CASE Post(a)
  <2> DEFINE new == [from |-> a, by |-> "main", op |-> at[a], job |-> hand[a]]
  <2> USE DEF Post
  <2>1. at[a] \in Posts /\ new \in Requests /\ (at[a] # "claim" => hand[a] \in Jobs)
    BY <1>5 DEF ThreadsInOrder, Requests
  <2>2. UNCHANGED <<vars, at, hand, beat, ready, archived, faults>> /\ net' = net \cup {new}
    BY <1>5 DEF fileVars
  <2>3. AgentTypeOK'
    BY <1>5, <2>1, <2>2 DEF TypeOK, vars
  <2>4. ThreadsInOrder'
    BY <1>5, <2>1, <2>2 DEF ThreadsInOrder
  <2>5. AwaitedIsLast'
    BY <1>5, <2>1, <2>2 DEF AwaitedIsLast
  <2>6. HandIsOwn' /\ ReportedIsPacked' /\ CapturedOnce'
    BY <2>1, <2>2 DEF HandIsOwn, ReportedIsPacked, CapturedOnce, Packed, vars
  <2>7. CaptureIsAcknowledged'
    BY <1>5, <2>2 DEF CaptureIsAcknowledged, vars
  <2> QED
    BY <2>3, <2>4, <2>5, <2>6, <2>7 DEF ThreadInv
<1> QED
  BY <1>1, <1>2, <1>3, <1>4, <1>5 DEF MainThread

\* So does a heartbeat that is sent.
LEMMA BeatKeepsThreads ==
    ASSUME AgentInv, NEW a \in Agents, Beat(a)
    PROVE  ThreadInv'
<1> DEFINE new == [from |-> a, by |-> "beat", op |-> "heartbeat", job |-> hand[a]]
<1> USE DEF AgentInv, AgentTypeOK, Beat
<1>1. hand[a] \in Jobs /\ new \in Requests
  BY DEF ThreadsInOrder, Requests
<1>2. UNCHANGED <<vars, phase, at, hand, ready, archived, faults>> /\ net' = net \cup {new}
  BY DEF fileVars
<1>3. AgentTypeOK'
  BY <1>1, <1>2 DEF TypeOK, vars
<1>4. ThreadsInOrder'
  BY <1>1, <1>2 DEF ThreadsInOrder
<1>5. AwaitedIsLast'
  BY <1>1, <1>2 DEF AwaitedIsLast
<1>6. HandIsOwn' /\ ReportedIsPacked' /\ CapturedOnce' /\ CaptureIsAcknowledged'
  BY <1>1, <1>2 DEF HandIsOwn, ReportedIsPacked, CapturedOnce, CaptureIsAcknowledged, Packed, vars
<1> QED
  BY <1>3, <1>4, <1>5, <1>6 DEF ThreadInv

\* A thread that stops waiting, an agent that stops or starts, and a request
\* that is lost: the table and the files stay, no request is sent.
Drops(s) ==
    /\ s \in Requests
    /\ \/ s \in net
       \/ s.by = "nobody" /\ \E r \in net : r.from = s.from /\ r.op = s.op /\ r.job = s.job

Stops(a) ==
    /\ phase'[a] \in {"post", "down"} /\ at'[a] = "claim" /\ hand'[a] = NoJob /\ beat'[a] = "off"

\* So does a step in which agents only stop or raise and requests only lose the
\* thread that waits for them.
LEMMA DropsKeepThreads ==
    ASSUME AgentInv, UNCHANGED <<vars, fileVars>>,
           phase' \in [Agents -> {"down", "work", "post", "wait"}],
           at' \in [Agents -> Works \cup Posts],
           hand' \in [Agents -> Jobs \cup {NoJob}],
           beat' \in [Agents -> {"off", "sleeping", "asked", "failed"}],
           faults' \in 0..MaxFaults,
           \A s \in net' : Drops(s),
           \A a \in Agents :
             /\ Rests(a) \/ Stops(a) \/ Raises(a)
             /\ Rests(a) \/ \A s \in net' : s.from = a => s.by # "main"
             /\ beat'[a] # "off" => hand'[a] = hand[a] /\ beat[a] # "off"
             /\ beat'[a] # "asked" => \A s \in net' : s.from = a => s.by # "beat"
    PROVE  ThreadInv'
<1> USE DEF AgentInv, AgentTypeOK
<1>1. AgentTypeOK'
  <2>1. \A b \in Agents : hand'[b] = NoJob <=> at'[b] = "claim"
    BY DEF Rests, Stops, Raises
  <2> QED
    BY <2>1 DEF TypeOK, vars, fileVars, Drops
<1>2. ThreadsInOrder'
  BY DEF ThreadsInOrder, Rests, Stops, Raises, Posts, Reports
<1>3. AwaitedIsLast'
  <2> SUFFICES ASSUME NEW s \in net'
               PROVE  /\ s.by = "main" =>
                            phase'[s.from] = "wait" /\ s.op = at'[s.from] /\ s.job = hand'[s.from]
                      /\ s.by = "beat" =>
                            /\ beat'[s.from] = "asked" /\ s.op = "heartbeat"
                            /\ s.job = hand'[s.from]
                      /\ s.op # "claim" => s.job \in Jobs
    BY DEF AwaitedIsLast
  <2>1. s \in Requests /\ s.from \in Agents
    BY DEF Drops, Requests
  <2>2. s.op # "claim" => s.job \in Jobs
    BY DEF Drops, AwaitedIsLast
  <2>3. CASE s.by = "main"
    BY <2>1, <2>2, <2>3 DEF Drops, AwaitedIsLast, Rests
  <2>4. CASE s.by = "beat"
    BY <2>1, <2>2, <2>4 DEF Drops, AwaitedIsLast
  <2> QED
    BY <2>2, <2>3, <2>4
<1>4. HandIsOwn'
  BY DEF HandIsOwn, Rests, Stops, Raises, vars
<1>5. ReportedIsPacked'
  BY DEF ReportedIsPacked, Drops, Packed, fileVars, Rests, Stops, Raises
<1>6. CapturedOnce'
  BY DEF CapturedOnce, Packed, fileVars, Rests, Stops, Raises, Works
<1>7. CaptureIsAcknowledged'
  BY DEF CaptureIsAcknowledged, vars, Rests, Stops, Raises
<1> QED
  BY <1>1, <1>2, <1>3, <1>4, <1>5, <1>6, <1>7 DEF ThreadInv

\* That covers timeouts, crashes and restarts,
LEMMA FaultsKeepThreads ==
    ASSUME AgentInv, NEW a \in Agents,
           PostTimesOut(a) \/ BeatTimesOut(a) \/ Crash(a) \/ Restart(a)
    PROVE  ThreadInv'
<1> USE DEF AgentInv, AgentTypeOK
<1>1. {"claim", "failed"} \subseteq Works \cup Posts
  BY DEF Posts, Reports
<1>2. faults' \in 0..MaxFaults
  BY CaptureAgentAssumption DEF PostTimesOut, BeatTimesOut, Crash, Restart, GivesUp
<1>3. CASE PostTimesOut(a)
  <2> DEFINE Q == Disown(net, a, {"main"})
  <2>1. /\ UNCHANGED <<vars, fileVars>> /\ phase[a] = "wait"
        /\ MainRaises(a, Q)
    BY <1>3 DEF PostTimesOut
  <2>2. Q \subseteq Requests /\ \A s \in Q : Drops(s) /\ (s.from = a => s.by # "main")
    BY DisownKeeps DEF Drops
  <2>3. CASE EndRun(a, Q)
    <3>1. \A s \in net' : Drops(s) /\ (s.from = a => s.by # "main" /\ s.by # "beat")
      BY <2>2, <2>3, DisownKeeps DEF EndRun, Drops
    <3>2. /\ phase' = [phase EXCEPT ![a] = "post"] /\ at' = [at EXCEPT ![a] = "claim"]
          /\ hand' = [hand EXCEPT ![a] = NoJob] /\ beat' = [beat EXCEPT ![a] = "off"]
      BY <2>3 DEF EndRun, Goto
    <3>3. \A b \in Agents : b # a => Rests(b) /\ beat'[b] = beat[b]
      BY <3>2 DEF Rests
    <3>4. \A b \in Agents : beat'[b] # "asked" => \A s \in net' : s.from = b => s.by # "beat"
      BY <3>1, <3>3 DEF Drops, AwaitedIsLast
    <3> QED
      BY <1>1, <1>2, <2>1, <3>1, <3>2, <3>3, <3>4, DropsKeepThreads DEF Stops, Rests
  <2>4. CASE ~EndRun(a, Q)
    <3>1. /\ at[a] \notin {"claim", "failed"}
          /\ phase' = [phase EXCEPT ![a] = "post"] /\ at' = [at EXCEPT ![a] = "failed"]
          /\ net' = Q /\ UNCHANGED <<hand, beat>>
      BY <2>1, <2>4 DEF MainRaises, Goto
    <3> QED
      BY <1>1, <1>2, <2>1, <2>2, <3>1, DropsKeepThreads DEF Raises, Rests, AwaitedIsLast, Drops
  <2> QED
    BY <2>3, <2>4
<1>4. CASE BeatTimesOut(a)
  <2>1. /\ UNCHANGED <<vars, fileVars, phase, at, hand>> /\ beat[a] = "asked"
        /\ beat' = [beat EXCEPT ![a] = "failed"]
    BY <1>4 DEF BeatTimesOut
  <2>2. \A s \in net' : Drops(s) /\ (s.from = a => s.by # "beat")
    BY <1>4, DisownKeeps DEF BeatTimesOut, Drops
  <2>3. \A b \in Agents : Rests(b)
    BY <2>1 DEF Rests
  <2>4. \A b \in Agents : beat'[b] # "asked" => \A s \in net' : s.from = b => s.by # "beat"
    BY <2>1, <2>2 DEF Drops, AwaitedIsLast
  <2> QED
    BY <1>2, <2>1, <2>2, <2>3, <2>4, DropsKeepThreads
<1>5. CASE Crash(a)
  <2>1. /\ UNCHANGED <<vars, fileVars>>
        /\ phase' = [phase EXCEPT ![a] = "down"] /\ at' = [at EXCEPT ![a] = "claim"]
        /\ hand' = [hand EXCEPT ![a] = NoJob] /\ beat' = [beat EXCEPT ![a] = "off"]
    BY <1>5 DEF Crash, Goto
  <2>2. \A s \in net' : Drops(s) /\ (s.from = a => s.by # "main" /\ s.by # "beat")
    BY <1>5, DisownKeeps DEF Crash, Drops
  <2>3. \A b \in Agents : b # a => Rests(b) /\ beat'[b] = beat[b]
    BY <2>1 DEF Rests
  <2>4. \A b \in Agents : beat'[b] # "asked" => \A s \in net' : s.from = b => s.by # "beat"
    BY <2>2, <2>3 DEF Drops, AwaitedIsLast
  <2> QED
    BY <1>1, <1>2, <2>1, <2>2, <2>3, <2>4, DropsKeepThreads DEF Stops, Rests
<1>6. CASE Restart(a)
  <2>1. /\ UNCHANGED <<vars, fileVars, hand, beat, net>> /\ phase[a] = "down"
        /\ phase' = [phase EXCEPT ![a] = "post"] /\ at' = [at EXCEPT ![a] = "claim"]
    BY <1>6 DEF Restart, Goto
  <2>2. hand[a] = NoJob /\ beat[a] = "off"
    BY CaptureAgentAssumption, <2>1 DEF ThreadsInOrder
  <2>3. \A b \in Agents : b # a => Rests(b) /\ beat'[b] = beat[b]
    BY <2>1 DEF Rests
  <2>4. Stops(a) /\ \A s \in net' : s.from = a => s.by # "main"
    BY <2>1, <2>2 DEF Stops, AwaitedIsLast
  <2>5. \A b \in Agents : beat'[b] # "asked" => \A s \in net' : s.from = b => s.by # "beat"
    BY <2>1 DEF AwaitedIsLast
  <2> QED
    BY <1>1, <1>2, <2>1, <2>3, <2>4, <2>5, DropsKeepThreads DEF Drops
<1> QED
  BY <1>3, <1>4, <1>5, <1>6

\* and requests that get lost.
LEMMA LostRequestKeepsThreads ==
    ASSUME AgentInv, NEW r \in net, LoseRequest(r)
    PROVE  ThreadInv'
<1> USE DEF AgentInv, AgentTypeOK, LoseRequest
<1>1. faults' \in 0..MaxFaults
  BY CaptureAgentAssumption
<1>2. \A s \in net' : Drops(s)
  BY DEF Drops
<1> QED
  BY <1>1, <1>2, DropsKeepThreads DEF agentVars, Rests, AwaitedIsLast

\* The server and its users keep what the threads know, too.
LEMMA EnvironmentKeepsThreads ==
    ASSUME AgentInv, Environment
    PROVE  ThreadInv'
<1>1. [AgentNext]_allVars
  BY DEF AgentNext
<1>2. UNCHANGED <<agentVars, net, fileVars, faults>>
  BY DEF Environment
<1> USE DEF AgentInv, AgentTypeOK, agentVars, fileVars
<1>3. AgentTypeOK'
  BY <1>1, <1>2, TableInvStep DEF TableInv
<1>4. ThreadsInOrder' /\ AwaitedIsLast' /\ ReportedIsPacked' /\ CapturedOnce'
  BY <1>2 DEF ThreadsInOrder, AwaitedIsLast, ReportedIsPacked, CapturedOnce, Packed
<1>5. HandIsOwn'
  BY <1>1, <1>2, HeldKeepsOwner DEF HandIsOwn
<1>6. CaptureIsAcknowledged'
  <2> SUFFICES ASSUME NEW a \in Agents, phase[a] = "work", at[a] \in {"capturing", "publishing"}
               PROVE  agent'[hand[a]] = a /\ status'[hand[a]] \in {"capturing", "failed"}
    BY <1>2 DEF CaptureIsAcknowledged
  <2>1. /\ hand[a] # NoJob /\ hand[a] \notin Packed
        /\ status[hand[a]] \in {"capturing", "failed"}
    BY DEF CaptureIsAcknowledged, CapturedOnce, Works
  <2> QED
    BY <1>1, <2>1, HeldKeepsOwner, CapturingStays
<1> QED
  BY <1>3, <1>4, <1>5, <1>6 DEF ThreadInv

\* The invariant holds at the start.
LEMMA AgentInvInit == AgentInit => AgentInv
<1> SUFFICES ASSUME AgentInit PROVE AgentInv
  OBVIOUS
<1> USE DEF AgentInit
<1>1. TableInv /\ TypeOK
  BY TypeOKInit
  DEF TableInv, Init, AtMostOneUnfinished, OwnedFromClaim, UNFINISHED_STATUSES, ACTIVE_STATUSES
<1>2. AgentTypeOK
  BY <1>1, CaptureAgentAssumption DEF AgentTypeOK, Posts
<1>3. ThreadsInOrder /\ AwaitedIsLast /\ HandIsOwn
  BY DEF ThreadsInOrder, AwaitedIsLast, HandIsOwn, Posts
<1>4. ReportedIsPacked /\ CapturedOnce /\ PackedWasCaptured
  BY DEF ReportedIsPacked, CapturedOnce, PackedWasCaptured, Packed, Works
<1>5. PackagesMatchTable /\ CaptureIsAcknowledged
  BY DEF PackagesMatchTable, AwaitingHasPackage, ArchivedIffSucceeded, CaptureIsAcknowledged, Init
<1> QED
  BY <1>1, <1>2, <1>3, <1>4, <1>5 DEF AgentInv

\* Every step keeps it.
LEMMA AgentInvStep == AgentInv /\ [AgentNext]_allVars => AgentInv'
<1> SUFFICES ASSUME AgentInv, [AgentNext]_allVars PROVE AgentInv'
  OBVIOUS
<1>1. TableInv' /\ PackedWasCaptured' /\ PackagesMatchTable'
  BY TableInvStep, PackagesStep
<1>2. ThreadInv'
  <2>1. CASE UNCHANGED allVars
    BY <2>1
    DEF allVars, agentVars, fileVars, vars, AgentInv, ThreadInv, AgentTypeOK, TypeOK, ThreadsInOrder,
        AwaitedIsLast, HandIsOwn, ReportedIsPacked, CapturedOnce, Packed, CaptureIsAcknowledged
  <2> QED
    BY <2>1, EnvironmentKeepsThreads, MainThreadKeepsThreads, BeatKeepsThreads, FaultsKeepThreads,
       ServeKeepsThreads, LostRequestKeepsThreads
    DEF AgentNext
<1> QED
  BY <1>1, <1>2 DEF AgentInv, ThreadInv

\* What the two threads of every agent know of its job agrees with the table at
\* every step.
THEOREM AgentInvariant == AgentSpec => []AgentInv
BY AgentInvInit, AgentInvStep, PTL DEF AgentSpec

\* The variables of agents, network and inbox keep their types, and a main
\* thread has a job in hand exactly between a claim and the end of its run.
THEOREM AgentTypeCorrect == AgentSpec => []AgentTypeOK
<1>1. AgentInv => AgentTypeOK
  BY DEF AgentInv
<1> QED
  BY <1>1, AgentInvariant, PTL

\* Table, packages and agents agree on every job, whichever requests are lost,
\* late or left over: no job awaits files that are not there, exactly the
\* packages of succeeded jobs are archived, no late request moves a job under
\* the hands of its agent, and two agents never work on the same job.
THEOREM AgentsAgree == AgentSpec => []AgentsMatchTable
<1>1. AgentInv => AgentsMatchTable
  BY DEF AgentInv, AgentsMatchTable, HandsMatchTable, OneAgentPerJob, HandIsOwn
<1> QED
  BY <1>1, AgentInvariant, PTL

\* The agents and the server they post to use the job table as CaptureJobs
\* says, so all that is proved of the table holds under them as well.
THEOREM AgentsUseTable == AgentSpec => Spec
<1>1. AgentInit => Init
  BY DEF AgentInit
<1>2. AgentInv /\ [AgentNext]_allVars => [Next]_vars
  BY AgentStepIsTableStep
<1> QED
  BY <1>1, <1>2, AgentInvariant, PTL DEF AgentSpec, Spec

\* Under the agents, too, the table is one slot whose jobs keep their results.
COROLLARY AgentsKeepSlot == AgentSpec => ImplementsSlot /\ TerminalIsFinal
BY AgentsUseTable, Refinement, FinishedJobsStay, PTL
=============================================================================
