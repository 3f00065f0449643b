---------------------------- MODULE HitomiMonitor ---------------------------
(***************************************************************************)
(* The monitor of new works (tools/hitomi_monitor.py, services/hitomi/)    *)
(* and the edits of its watch list (routers/hitomi.py).  A file lock lets  *)
(* one run at a time load state.json, look at the artists, merge what it   *)
(* found into the table of arrivals and save state.json; an edit loads and *)
(* saves the same file and watchlist.json without the lock.                *)
(*                                                                         *)
(* The works of an artist are numbered in the order of publication; the    *)
(* site answers with the HeadSize newest.                                  *)
(***************************************************************************)
EXTENDS Integers, FiniteSets

CONSTANTS
    Artists,
    Editors,            \* server threads that edit the watch list
    HeadSize,               \* works in an answer of the site
    MaxWorks,           \* bound of the works of an artist
    MaxNew,             \* bound of the works published later
    MaxEdits,           \* bound of the edits
    MaxFailures         \* bound of failed requests and runs

ASSUME MonitorAssumption == HeadSize \in Nat \ {0} /\ MaxWorks \in Nat \ {0} /\ MaxNew \in Nat /\ MaxEdits \in Nat /\ MaxFailures \in Nat

VARIABLES
    published,          \* artist -> number of works on the site, one at first
    watched,            \* watchlist.json
    file,               \* state.json: artist -> its top_id (0: none) and pending_gallery_ids
    arrivals,           \* hitomi_arrivals: pairs <<artist, work>>
    unread,             \* those that are not read
    run,                \* the run in progress
    edit,               \* editor -> the edit in progress
    since,              \* artist -> newest work when its top_id was last initialized; history only
    beyond,             \* works that had left the head before a run looked; history only
    dismissed,          \* works that a user dismissed; history only
    edits,
    failures

monitorVars == <<published, watched, file, arrivals, unread, run, edit, since, beyond, dismissed, edits, failures>>

Unknown == [top |-> 0, pending |-> {}]
NoRun == [at |-> "idle"]
NoEdit == [at |-> "idle"]
Works == 1 .. MaxWorks

MonitorInit ==
    /\ published = [a \in Artists |-> 1]
    /\ watched = {}
    /\ file = [a \in Artists |-> Unknown]
    /\ arrivals = {} /\ unread = {}
    /\ run = NoRun
    /\ edit = [e \in Editors |-> NoEdit]
    /\ since = [a \in Artists |-> 0]
    /\ beyond = {} /\ dismissed = {}
    /\ edits = 0 /\ failures = 0

HeadOf(a) == {w \in Works : w <= published[a] /\ w > published[a] - HeadSize}
Failure == failures < MaxFailures /\ failures' = failures + 1

Publish(a) ==
    /\ published[a] < MaxWorks
    /\ Cardinality({later \in Artists \X (2 .. MaxWorks) : later[2] <= published[later[1]]}) < MaxNew
    /\ published' = [published EXCEPT ![a] = @ + 1]
    /\ UNCHANGED <<watched, file, arrivals, unread, run, edit, since, beyond, dismissed, edits, failures>>

\* dismiss() and dismiss_all()
Dismiss ==
    /\ unread # {}
    /\ \E read \in {{w} : w \in unread} \cup {unread} :
        /\ unread' = unread \ read
        /\ dismissed' = dismissed \cup read
    /\ UNCHANGED <<published, watched, file, arrivals, run, edit, since, beyond, edits, failures>>
-----------------------------------------------------------------------------
(***************************************************************************)
(* A run, under monitor_process_lock.                                      *)
(***************************************************************************)
RunLoads ==
    /\ run = NoRun
    /\ run' = [at |-> "loaded", state |-> file, todo |-> {}, items |-> {}]
    /\ UNCHANGED <<published, watched, file, arrivals, unread, edit, since, beyond, dismissed, edits, failures>>

RunReadsList ==
    /\ run.at = "loaded"
    /\ run' = [run EXCEPT !.at = "scanning", !.todo = watched]
    /\ UNCHANGED <<published, watched, file, arrivals, unread, edit, since, beyond, dismissed, edits, failures>>

Candidates(a) == {w \in HeadOf(a) : w > run.state[a].top} \cup run.state[a].pending

\* The works whose metadata could not be fetched stay pending.
PendingNone(failed) == {}                             \* slip: a failed work is not tried again
Pending(failed) == failed

Scan(a) ==
    /\ run.at = "scanning" /\ a \in run.todo
    /\ \E failed \in SUBSET Candidates(a) :
        /\ IF failed = {} THEN UNCHANGED failures ELSE Failure
        /\ run' = [run EXCEPT !.todo = @ \ {a}, !.items = @ \cup ({a} \X (Candidates(a) \ failed)),
                              !.state[a] = [top |-> published[a], pending |-> Pending(failed)]]
    /\ beyond' = beyond \cup ({a} \X {w \in 1 .. published[a] \ HeadOf(a) : w > run.state[a].top})
    /\ UNCHANGED <<published, watched, file, arrivals, unread, edit, since, dismissed, edits>>

\* The artist was checked today (run-now), or the site does not answer.
Skip(a) ==
    /\ run.at = "scanning" /\ a \in run.todo
    /\ run' = [run EXCEPT !.todo = @ \ {a}]
    /\ UNCHANGED <<published, watched, file, arrivals, unread, edit, since, beyond, dismissed, edits, failures>>

\* INSERT ... ON CONFLICT DO NOTHING
FreshItemsAll == run.items                            \* slip: a known work is written again
FreshItems == run.items \ arrivals

Merge ==
    /\ run.at = "scanning" /\ run.todo = {}
    /\ arrivals' = arrivals \cup run.items
    /\ unread' = unread \cup FreshItems
    /\ run' = [run EXCEPT !.at = "merged"]
    /\ UNCHANGED <<published, watched, file, edit, since, beyond, dismissed, edits, failures>>

MaySaveEarly == run.at = "scanning" /\ run.todo = {}  \* slip: the state is saved before the works
MaySave == run.at = "merged"

SaveRun ==
    /\ MaySave
    /\ file' = run.state
    /\ run' = NoRun
    /\ UNCHANGED <<published, watched, arrivals, unread, edit, since, beyond, dismissed, edits, failures>>

\* The run is killed, or the table or the file cannot be written.
RunDies ==
    /\ run # NoRun
    /\ Failure
    /\ run' = NoRun
    /\ UNCHANGED <<published, watched, file, arrivals, unread, edit, since, beyond, dismissed, edits>>
-----------------------------------------------------------------------------
(***************************************************************************)
(* Edits: post_watchlist and delete_watchlist.                             *)
(***************************************************************************)
Edits(e, record) == edit' = [edit EXCEPT ![e] = record]

EditLoads(e, a) ==
    /\ edit[e] = NoEdit
    /\ edits < MaxEdits /\ edits' = edits + 1
    /\ Edits(e, [at |-> "list", artist |-> a, add |-> a \notin watched, list |-> watched])
    /\ UNCHANGED <<published, watched, file, arrivals, unread, run, since, beyond, dismissed, failures>>

EditSavesList(e) ==
    /\ edit[e].at = "list"
    /\ watched' = IF edit[e].add THEN edit[e].list \cup {edit[e].artist} ELSE edit[e].list \ {edit[e].artist}
    /\ Edits(e, [at |-> "state", artist |-> edit[e].artist, add |-> edit[e].add])
    /\ UNCHANGED <<published, file, arrivals, unread, run, since, beyond, dismissed, edits, failures>>

\* The newest work is asked for and state.json is loaded.
EditLoadsState(e) ==
    /\ edit[e].at = "state"
    /\ LET a == edit[e].artist
       IN  Edits(e, [at |-> "save", artist |-> a,
                     entry |-> IF edit[e].add THEN [Unknown EXCEPT !.top = published[a]] ELSE Unknown,
                     state |-> file])
    /\ UNCHANGED <<published, watched, file, arrivals, unread, run, since, beyond, dismissed, edits, failures>>

EditSavesState(e) ==
    /\ edit[e].at = "save"
    /\ LET a == edit[e].artist
       IN  /\ file' = [edit[e].state EXCEPT ![a] = edit[e].entry]
           /\ since' = IF edit[e].entry.top > since[a] THEN [since EXCEPT ![a] = edit[e].entry.top] ELSE since
    /\ Edits(e, NoEdit)
    /\ UNCHANGED <<published, watched, arrivals, unread, run, beyond, dismissed, edits, failures>>

\* The artist does not exist, the site does not answer or the server stops.
EditFails(e) ==
    /\ edit[e] # NoEdit
    /\ Failure
    /\ Edits(e, NoEdit)
    /\ UNCHANGED <<published, watched, file, arrivals, unread, run, since, beyond, dismissed, edits>>
-----------------------------------------------------------------------------
MonitorNext ==
    \/ Dismiss
    \/ \E a \in Artists : Publish(a) \/ Scan(a) \/ Skip(a)
    \/ RunLoads \/ RunReadsList \/ Merge \/ SaveRun \/ RunDies
    \/ \E e \in Editors : \/ \E a \in Artists : EditLoads(e, a)
                          \/ EditSavesList(e) \/ EditLoadsState(e) \/ EditSavesState(e) \/ EditFails(e)

MonitorSpec == MonitorInit /\ [][MonitorNext]_monitorVars
-----------------------------------------------------------------------------
Entries == [top : 0 .. MaxWorks, pending : SUBSET Works]

\* Types of the monitor.
MonitorTypeOK ==
    /\ published \in [Artists -> Works]
    /\ watched \subseteq Artists
    /\ file \in [Artists -> Entries]
    /\ arrivals \subseteq Artists \X Works /\ unread \subseteq arrivals
    /\ run.at \in {"idle", "loaded", "scanning", "merged"}
    /\ run # NoRun => run.state \in [Artists -> Entries] /\ run.items \subseteq Artists \X Works
    /\ \A e \in Editors : edit[e].at \in {"idle", "list", "state", "save"}
    /\ since \in [Artists -> 0 .. MaxWorks]
    /\ beyond \subseteq Artists \X Works /\ dismissed \subseteq arrivals
    /\ edits \in 0 .. MaxEdits /\ failures \in 0 .. MaxFailures

\* A work that appeared after its artist was put on the list and that the state
\* counts as seen is an arrival or will be tried again, whatever runs, edits and
\* crashes came between; only works beyond the head of the site are missed.
NothingIsMissed ==
    \A a \in Artists : \A w \in Works :
        since[a] < w /\ w <= file[a].top =>
            <<a, w>> \in arrivals \cup beyond \/ w \in file[a].pending

\* A work that the user dismissed does not come back as unread, though runs
\* find it again (ON CONFLICT DO NOTHING in arrival_store.py).
DismissedStaysRead == unread \cap dismissed = {}

\* State file, arrivals and the user's marks agree.
ArrivalsAgree == NothingIsMissed /\ DismissedStaysRead
=============================================================================
