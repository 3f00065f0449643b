---------------------------- MODULE HoldoutLedger ----------------------------
(***************************************************************************)
(* The ledger of the formal holdouts of the image-OCR campaign (backend/   *)
(* services/novel_db/sol_ocr_holdout.py, backend/tools/sol_ocr_holdout.py):*)
(* a sealed selection of pages is opened once and later given up for       *)
(* tuning.  Operators run the commands at the same time; a lock file keeps *)
(* them apart, and a command that dies leaves it behind.                   *)
(*                                                                         *)
(* The same campaign, exclusions and seed select the same pages, under a   *)
(* new digest each time (sealed_at): a holdout is its digest here.         *)
(***************************************************************************)
EXTENDS Integers, Sequences, FiniteSetsExt

CONSTANTS
    Operators,
    MaxHoldouts,
    MaxDeaths,          \* bound of commands that die
    MaxExports

ASSUME LedgerAssumption == {MaxHoldouts, MaxDeaths, MaxExports} \subseteq Nat

VARIABLES
    holdouts,           \* manifests that were created
    ledger,             \* its events, in order
    lockFile,           \* the lock file: free, or whose it is
    command,            \* what each operator's command does
    exports,            \* exported tars, with the ledger's state at the end; history only
    said,               \* events whose command reported success; history only
    deaths

ledgerVars == <<holdouts, ledger, lockFile, command, exports, said, deaths>>

Free == [free |-> TRUE]
Rest == [at |-> "rest"]
States == <<"sealed", "opened", "retired_to_tuning">>

LedgerInit ==
    /\ holdouts = 0 /\ ledger = <<>> /\ lockFile = Free
    /\ command = [o \in Operators |-> Rest]
    /\ exports = {} /\ said = {} /\ deaths = 0

Goes(o, next) == command' = [command EXCEPT ![o] = next]
EventsFor(events, m) == {i \in DOMAIN events : events[i].manifest = m}
StateOf(events, m) ==
    LET own == EventsFor(events, m) IN IF own = {} THEN "none" ELSE events[Max(own)].state
-----------------------------------------------------------------------------
CreateHoldout ==
    /\ holdouts < MaxHoldouts
    /\ holdouts' = holdouts + 1
    /\ UNCHANGED <<ledger, lockFile, command, exports, said, deaths>>

\* _ledger_lock: O_EXCL, else the command is refused.
LockAnyway(o) == TRUE                                   \* slip: without O_EXCL
LockIsFree(o) == lockFile = Free

BeginCommand(o, m, state) ==
    /\ command[o] = Rest /\ LockIsFree(o)
    /\ lockFile' = [free |-> FALSE, by |-> o]
    /\ Goes(o, [at |-> "read", manifest |-> m, state |-> state])
    /\ UNCHANGED <<holdouts, ledger, exports, said, deaths>>

\* record_sealed_manifest, open_formal_holdout, retire_formal_holdout_to_tuning
AllowedAgain(events, m, state) ==                       \* slip: a retired one may be opened again
    CASE state = "sealed" -> EventsFor(events, m) = {}
      [] state = "opened" -> StateOf(events, m) # "opened" /\ EventsFor(events, m) # {}
      [] OTHER -> StateOf(events, m) = "opened"
Allowed(events, m, state) ==
    CASE state = "sealed" -> EventsFor(events, m) = {}
      [] state = "opened" -> StateOf(events, m) = "sealed"
      [] OTHER -> StateOf(events, m) = "opened"

RemoveOwnLock == lockFile' = Free

ReadLedger(o) ==
    /\ command[o].at = "read"
    /\ IF Allowed(ledger, command[o].manifest, command[o].state)
       THEN /\ Goes(o, [at |-> "write", manifest |-> command[o].manifest, state |-> command[o].state, seen |-> ledger])
            /\ UNCHANGED lockFile
       ELSE Goes(o, Rest) /\ RemoveOwnLock
    /\ UNCHANGED <<holdouts, ledger, exports, said, deaths>>

WriteLedger(o) ==
    /\ command[o].at = "write"
    /\ ledger' = Append(command[o].seen, [manifest |-> command[o].manifest, state |-> command[o].state])
    /\ Goes(o, [command[o] EXCEPT !.at = "unlock"])
    /\ UNCHANGED <<holdouts, lockFile, exports, said, deaths>>

EndCommand(o) ==
    /\ command[o].at = "unlock"
    /\ said' = said \cup {[manifest |-> command[o].manifest, state |-> command[o].state]}
    /\ Goes(o, Rest) /\ RemoveOwnLock
    /\ UNCHANGED <<holdouts, ledger, exports, deaths>>

Die(o) ==
    /\ command[o] # Rest /\ deaths < MaxDeaths
    /\ deaths' = deaths + 1
    /\ Goes(o, Rest)
    /\ UNCHANGED <<holdouts, ledger, lockFile, exports, said>>

\* Somebody sees that the owner of the lock file is dead, and removes it.
RemoveLock ==
    /\ lockFile # Free /\ command[lockFile.by].at \in {"rest", "export"}
    /\ RemoveOwnLock
    /\ UNCHANGED <<holdouts, ledger, command, exports, said, deaths>>

\* export_formal_holdout_images: without the lock, from the check to the tar.
BeginExport(o, m) ==
    /\ command[o] = Rest
    /\ StateOf(ledger, m) = "opened"
    /\ Goes(o, [at |-> "export", manifest |-> m])
    /\ UNCHANGED <<holdouts, ledger, lockFile, exports, said, deaths>>

EndExport(o) ==
    /\ command[o].at = "export" /\ Cardinality(exports) < MaxExports
    /\ exports' = exports \cup {[manifest |-> command[o].manifest, state |-> StateOf(ledger, command[o].manifest)]}
    /\ Goes(o, Rest)
    /\ UNCHANGED <<holdouts, ledger, lockFile, said, deaths>>

LedgerNext ==
    \/ CreateHoldout \/ RemoveLock
    \/ \E o \in Operators :
        \/ \E m \in 1 .. holdouts, i \in DOMAIN States : BeginCommand(o, m, States[i])
        \/ ReadLedger(o) \/ WriteLedger(o) \/ EndCommand(o) \/ Die(o)
        \/ \E m \in 1 .. holdouts : BeginExport(o, m)
        \/ EndExport(o)

LedgerSpec == LedgerInit /\ [][LedgerNext]_ledgerVars
-----------------------------------------------------------------------------
LedgerTypeOK ==
    /\ holdouts \in 0 .. MaxHoldouts /\ deaths \in 0 .. MaxDeaths
    /\ Len(ledger) <= Len(States) * MaxHoldouts
    /\ \A o \in Operators : command[o].at \in {"rest", "read", "write", "unlock", "export"}
    /\ lockFile = Free \/ lockFile.by \in Operators

\* What a holdout went through before its event i.
Earlier(events, i) == {events[j].state : j \in {k \in 1 .. i - 1 : events[k].manifest = events[i].manifest}}
Preceding == [sealed |-> {}, opened |-> {"sealed"}, retired_to_tuning |-> {"sealed", "opened"}]

\* A holdout is sealed, opened and given up at most once each and in this
\* order, and no event that a command reported is lost, although commands
\* overlap and die and the lock file of a dead one is cleared away; its images
\* leave the house only after it was opened.
LedgerAgrees ==
    /\ \A i \in DOMAIN ledger : Earlier(ledger, i) = Preceding[ledger[i].state]
    /\ said \subseteq {ledger[i] : i \in DOMAIN ledger}
    /\ \A e \in exports : e.state \in {"opened", "retired_to_tuning"}
=============================================================================
