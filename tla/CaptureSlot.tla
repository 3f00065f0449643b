---------------------------- MODULE CaptureSlot ----------------------------
(***************************************************************************)
(* What the capture job table promises, without statuses, heartbeats or    *)
(* clocks: one slot that one job occupies at a time, that at most one      *)
(* agent works on, and that is left with a result that never changes.      *)
(* CaptureJobs implements it.                                              *)
(***************************************************************************)
CONSTANTS Jobs, Agents

VARIABLES
    current,    \* the job in the slot: a set of at most one job
    worker,     \* the agent working on it: a set of at most one agent
    result      \* job -> "none", "succeeded" or "failed"

slotVars == <<current, worker, result>>

Init ==
    /\ current = {}
    /\ worker = {}
    /\ result = [j \in Jobs |-> "none"]

Admit(j) ==
    /\ current = {}
    /\ result[j] = "none"
    /\ current' = {j}
    /\ UNCHANGED <<worker, result>>

Take(a) ==
    /\ current # {}
    /\ worker = {}
    /\ worker' = {a}
    /\ UNCHANGED <<current, result>>

\* Only a job that an agent works on ends.
Finish(j, outcome) ==
    /\ current = {j}
    /\ worker # {}
    /\ result' = [result EXCEPT ![j] = outcome]
    /\ current' = {}
    /\ worker' = {}

\* A new job takes over the slot of one whose agent fell silent.
Replace(old, j) ==
    /\ current = {old}
    /\ worker # {}
    /\ j # old
    /\ result[j] = "none"
    /\ result' = [result EXCEPT ![old] = "failed"]
    /\ current' = {j}
    /\ worker' = {}

Next ==
    \/ \E j \in Jobs : Admit(j)
    \/ \E a \in Agents : Take(a)
    \/ \E j \in Jobs, outcome \in {"succeeded", "failed"} : Finish(j, outcome)
    \/ \E old, j \in Jobs : Replace(old, j)

Spec == Init /\ [][Next]_slotVars

=============================================================================
