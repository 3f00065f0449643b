------------------------- MODULE CapturePublication ------------------------
(***************************************************************************)
(* Registration of a captured book (services/kindle_catalog/               *)
(* capture_registration.py, capture_publication.py, capture_recovery*.py,  *)
(* services/library/capture_metadata.py): the images move into the         *)
(* library, the old ones into a backup generation, the library entry gets  *)
(* its ASIN, the package is archived and the job succeeds; a failure       *)
(* compensates what was done in a fixed order, and a recovery record keeps *)
(* what could not be compensated for the operator's tool.                  *)
(*                                                                         *)
(* All jobs capture the same book, so they compete for one image directory *)
(* (target) and one library entry (meta); records, locks, staging and      *)
(* backup directories and packages are per job.  Each file operation,      *)
(* transaction or record write is one action.                              *)
(***************************************************************************)
EXTENDS Integers, FiniteSets

CONSTANTS
    Jobs,           \* capture jobs of the book, in any order
    Threads,        \* server threads that run complete()
    Tools,          \* runs of tools.recover_capture --resume
    MaxFaults,      \* file or database operations that fail
    MaxCrashes,     \* stops of the server or of a tool
    MaxEdits        \* changes of the library entry by the user

ASSUME CapturePublicationAssumption ==
    /\ Threads \cap Tools = {}
    /\ MaxFaults \in Nat /\ MaxCrashes \in Nat /\ MaxEdits \in Nat
    /\ {"none", "empty", "debris", "original"} \cap Jobs = {}

VARIABLES
    origin,     \* the images and the entry of the book before any capture
    jobStatus,  \* job -> "absent", "awaiting_files", "succeeded" or "failed"
    audit,      \* the job of the current quality audit, or "none"
    target,     \* what the library's image directory of the book holds
    backup,     \* job -> what its backup generation holds
    staging,    \* job -> whether its staging directory exists
    package,    \* job -> "none", "ready" or "processed"
    meta,       \* the library entry of the book
    record,     \* job -> its recovery record
    lock,       \* jobs with a recovery lock
    unsaved,    \* jobs whose record still describes an earlier rollback (history)
    pc,         \* worker -> its next step
    task,       \* worker -> its job
    local,      \* worker -> the fields of its CapturePublication
    faults, crashes, edits

diskVars == <<target, backup, staging, package, meta>>
dbVars == <<jobStatus, audit>>
recordVars == <<record, lock, unsaved>>
workerVars == <<pc, task, local>>
boundVars == <<faults, crashes, edits>>
vars == <<origin, diskVars, dbVars, recordVars, workerVars, boundVars>>

Workers == Threads \cup Tools

\* The directory holds nothing, a half-deleted rest, the images from before,
\* or the images of a job.
Contents == {"none", "debris", "original"} \cup Jobs

\* asin: does the entry carry the book's ASIN?  rev: the user's last edit.
NoEntry == [asin |-> "none", rev |-> 0]
Entries == {NoEntry} \cup [asin : {"this", "other"}, rev : 0..MaxEdits]

\* The compensation steps of rollback(), in their order.
UndoOrder == <<"meta_updated", "archived", "staging_pending",
               "target_published", "existing_backed_up", "generation_pending">>
Flags == {UndoOrder[i] : i \in 1..6}

NoRecord == [phase |-> "none", flags |-> {}, previous |-> NoEntry, applied |-> NoEntry]
Records == [phase : {"none", "publishing", "resuming", "recovery"},
            flags : SUBSET Flags, previous : Entries, applied : Entries]

\* A CapturePublication: its flags, whether it replaces existing images, the
\* entry snapshots, and whether a compensation step failed.
Fresh == [flags |-> {"staging_pending", "generation_pending"}, replacing |-> FALSE,
          previous |-> NoEntry, applied |-> NoEntry, broken |-> FALSE]

Init ==
    /\ origin \in [images : {"none", "original"},
                   meta : {NoEntry, [asin |-> "this", rev |-> 0], [asin |-> "other", rev |-> 0]}]
    /\ jobStatus = [j \in Jobs |-> "absent"]
    /\ audit = "none"
    /\ target = origin.images
    /\ backup = [j \in Jobs |-> "none"]
    /\ staging = [j \in Jobs |-> FALSE]
    /\ package = [j \in Jobs |-> "none"]
    /\ meta = origin.meta
    /\ record = [j \in Jobs |-> NoRecord]
    /\ lock = {}
    /\ unsaved = {}
    /\ pc = [w \in Workers |-> "idle"]
    /\ task = [w \in Workers |-> "none"]
    /\ local = [w \in Workers |-> Fresh]
    /\ faults = 0 /\ crashes = 0 /\ edits = 0

-----------------------------------------------------------------------------
(* Steps of a worker. *)

Goto(w, step) == pc' = [pc EXCEPT ![w] = step]

\* The call returns or raises; the object is gone.
Return(w) ==
    /\ Goto(w, "idle")
    /\ task' = [task EXCEPT ![w] = "none"]
    /\ local' = [local EXCEPT ![w] = Fresh]

Fault == faults < MaxFaults /\ faults' = faults + 1 /\ UNCHANGED <<crashes, edits>>

NoFault == UNCHANGED boundVars

\* The step in hand went well: its flag is set.
Done(w, flag, next) ==
    /\ local' = [local EXCEPT ![w].flags = @ \cup {flag}]
    /\ Goto(w, next)
    /\ UNCHANGED task

\* The step in hand raised inside the try block of complete().
Fails(w) == Goto(w, "resuming") /\ UNCHANGED <<task, local>>

\* complete() is called for job j: require_no_pending_recovery.
Check(w, j) ==
    /\ w \in Threads /\ pc[w] = "idle"
    /\ jobStatus[j] # "absent"
    /\ \A k \in Jobs : record[k] = NoRecord
    /\ lock = {}
    /\ Goto(w, "load")
    /\ task' = [task EXCEPT ![w] = j]
    /\ UNCHANGED <<origin, diskVars, dbVars, recordVars, local, boundVars>>

\* load_awaiting_job and validate_ready_dir, or their refusal.
Load(w) ==
    /\ pc[w] = "load"
    /\ \/ /\ jobStatus[task[w]] = "awaiting_files"
          /\ package[task[w]] = "ready"
          /\ Goto(w, "construct")
          /\ UNCHANGED <<task, local>>
       \/ Return(w)
    /\ UNCHANGED <<origin, diskVars, dbVars, recordVars, boundVars>>

\* CapturePublication(...): existing images are only replaced when the
\* library entry names the same ASIN.
Construct(w) ==
    /\ pc[w] = "construct"
    /\ IF target = "none" \/ meta.asin = "this"
       THEN /\ local' = [local EXCEPT ![w].replacing = target # "none"]
            /\ Goto(w, "begin")
            /\ UNCHANGED task
       ELSE Return(w)
    /\ UNCHANGED <<origin, diskVars, dbVars, recordVars, boundVars>>

\* The record a publication would write.
RecordOf(w, phase) ==
    [phase |-> phase, flags |-> local[w].flags,
     previous |-> local[w].previous, applied |-> local[w].applied]

\* begin_record: exclusive creation, outside the try block.  A write that
\* fails leaves a marker behind.
Begin(w) ==
    /\ pc[w] = "begin"
    /\ \/ /\ record[task[w]] = NoRecord
          /\ record' = [record EXCEPT ![task[w]] = RecordOf(w, "publishing")]
          /\ \/ Goto(w, "stage") /\ NoFault /\ UNCHANGED <<task, local>>
             \/ Return(w) /\ Fault
       \/ /\ record[task[w]] # NoRecord
          /\ Return(w)
          /\ NoFault
          /\ UNCHANGED record
    /\ UNCHANGED <<origin, diskVars, dbVars, lock, unsaved>>

\* stage(): copy the package into the staging directory, or a part of it.
Stage(w) ==
    /\ pc[w] = "stage"
    /\ staging' = [staging EXCEPT ![task[w]] = TRUE]
    /\ \/ package[task[w]] = "ready" /\ Goto(w, "backup") /\ NoFault /\ UNCHANGED <<task, local>>
       \/ package[task[w]] # "ready" /\ Fails(w) /\ NoFault
       \/ Fails(w) /\ Fault
    /\ UNCHANGED <<origin, target, backup, package, meta, dbVars, recordVars>>

\* backup_existing(): an empty generation, then the rename.
BackupExisting(w) ==
    LET j == task[w] IN
    /\ pc[w] = "backup"
    /\ \/ /\ ~local[w].replacing
          /\ Goto(w, "publish")
          /\ NoFault
          /\ UNCHANGED <<task, local, target, backup>>
       \/ /\ local[w].replacing /\ target # "none"
          /\ backup' = [backup EXCEPT ![j] = target]
          /\ target' = "none"
          /\ Done(w, "existing_backed_up", "publish")
          /\ NoFault
       \/ /\ local[w].replacing
          /\ \E made \in {backup[j], "empty"} : backup' = [backup EXCEPT ![j] = made]
          /\ IF target = "none" THEN NoFault ELSE Fault
          /\ Fails(w)
          /\ UNCHANGED target
    /\ UNCHANGED <<origin, staging, package, meta, dbVars, recordVars>>

\* publish_target(): the rename fails onto an existing directory.
PublishTarget(w) ==
    LET j == task[w] IN
    /\ pc[w] = "publish"
    /\ \/ /\ target = "none"
          /\ target' = j
          /\ staging' = [staging EXCEPT ![j] = FALSE]
          /\ Done(w, "target_published", "update_meta")
          /\ NoFault
       \/ /\ IF target # "none" THEN NoFault ELSE Fault
          /\ Fails(w)
          /\ UNCHANGED <<target, staging>>
    /\ UNCHANGED <<origin, backup, package, meta, dbVars, recordVars>>

Applied == IF meta = NoEntry THEN [asin |-> "this", rev |-> 0]
           ELSE [meta EXCEPT !.asin = "this"]

\* update_meta(): snapshots and change under the source lock.
UpdateMeta(w) ==
    /\ pc[w] = "update_meta"
    /\ \/ /\ meta' = Applied
          /\ local' = [local EXCEPT ![w].previous = meta, ![w].applied = Applied,
                                    ![w].flags = @ \cup {"meta_updated"}]
          /\ Goto(w, "archive")
          /\ NoFault
          /\ UNCHANGED task
       \/ /\ Fails(w)
          /\ Fault
          /\ UNCHANGED meta
    /\ UNCHANGED <<origin, target, backup, staging, package, dbVars, recordVars>>

\* Variant for ArchivePackage: the package is deleted.
ArchiveByDeleting(w) ==
    /\ pc[w] = "archive"
    /\ package[task[w]] = "ready"
    /\ package' = [package EXCEPT ![task[w]] = "none"]
    /\ Done(w, "archived", "mark")
    /\ NoFault
    /\ UNCHANGED <<origin, target, backup, staging, meta, dbVars, recordVars>>

\* archive_package(): refuses to replace a package in processed/.
ArchivePackage(w) ==
    LET j == task[w] IN
    /\ pc[w] = "archive"
    /\ \/ /\ package[j] = "ready"
          /\ package' = [package EXCEPT ![j] = "processed"]
          /\ Done(w, "archived", "mark")
          /\ NoFault
       \/ /\ IF package[j] # "ready" THEN NoFault ELSE Fault
          /\ Fails(w)
          /\ UNCHANGED package
    /\ UNCHANGED <<origin, target, backup, staging, meta, dbVars, recordVars>>

\* mark_succeeded(): one transaction that also supersedes the old audit.
MarkSucceeded(w) ==
    LET j == task[w] IN
    /\ pc[w] = "mark"
    /\ \/ /\ jobStatus[j] = "awaiting_files"
          /\ jobStatus' = [jobStatus EXCEPT ![j] = "succeeded"]
          /\ audit' = j
          /\ Goto(w, "clear")
          /\ NoFault
          /\ UNCHANGED <<task, local>>
       \/ /\ IF jobStatus[j] # "awaiting_files" THEN NoFault ELSE Fault
          /\ Fails(w)
          /\ UNCHANGED dbVars
    /\ UNCHANGED <<origin, diskVars, recordVars>>

\* The record of a success is removed; if that fails it is only logged.
Clear(w) ==
    /\ pc[w] = "clear"
    /\ \/ record' = [record EXCEPT ![task[w]] = NoRecord] /\ NoFault
       \/ UNCHANGED record /\ Fault
    /\ Return(w)
    /\ UNCHANGED <<origin, diskVars, dbVars, lock, unsaved>>

-----------------------------------------------------------------------------
(* Compensation: rollback(), by complete() itself or by the tool. *)

\* The first flag from position i on that is still set, or the end.
NextUndo(i, flags) ==
    LET left == {k \in i..6 : UndoOrder[k] \in flags}
    IN  IF left = {} THEN "settle"
        ELSE UndoOrder[CHOOSE k \in left : \A m \in left : k <= m]

\* Variant for SaveRecord: a phase that cannot be read back.
SaveRecordUnreadable(w, phase) ==
    record' = [record EXCEPT ![task[w]] = RecordOf(w, "rollback")]

\* save_record(): an atomic replacement; an error may come before or after it.
SaveRecord(w, phase) ==
    record' = [record EXCEPT ![task[w]] = RecordOf(w, phase)]

Resuming(w) ==
    /\ pc[w] = "resuming"
    /\ \/ /\ SaveRecord(w, "resuming")
          /\ NoFault
          /\ UNCHANGED local
       \/ /\ SaveRecord(w, "resuming") \/ UNCHANGED record
          /\ Fault
          /\ local' = [local EXCEPT ![w].broken = TRUE]
    /\ Goto(w, NextUndo(1, local[w].flags))
    /\ UNCHANGED <<origin, diskVars, dbVars, lock, unsaved, task>>

\* Variants for CanUndo: the entry is restored over a later edit, and a backup
\* generation is removed with what it holds.
CanUndoOverEdits(w, flag) ==
    LET j == task[w] IN
    CASE flag = "archived"           -> package[j] = "processed"
      [] flag = "existing_backed_up" ->
            /\ "target_published" \notin local[w].flags
            /\ target = "none"
            /\ backup[j] \notin {"none", "empty"}
      [] flag = "generation_pending" ->
            /\ "existing_backed_up" \notin local[w].flags
            /\ backup[j] \in {"none", "empty"}
      [] OTHER                       -> TRUE

CanUndoWithBackup(w, flag) ==
    LET j == task[w] IN
    CASE flag = "meta_updated"       -> meta \in {local[w].applied, local[w].previous}
      [] flag = "archived"           -> package[j] = "processed"
      [] flag = "existing_backed_up" -> target = "none" /\ backup[j] \notin {"none", "empty"}
      [] OTHER                       -> TRUE

\* The conditions under which a compensation step does its work.
CanUndo(w, flag) ==
    LET j == task[w] IN
    CASE flag = "meta_updated"       -> meta \in {local[w].applied, local[w].previous}
      [] flag = "archived"           -> package[j] = "processed"
      [] flag = "existing_backed_up" ->
            /\ "target_published" \notin local[w].flags
            /\ target = "none"
            /\ backup[j] \notin {"none", "empty"}
      [] flag = "generation_pending" ->
            /\ "existing_backed_up" \notin local[w].flags
            /\ backup[j] \in {"none", "empty"}
      [] OTHER                       -> TRUE

\* What the step does to the disk.
Undone(w, flag) ==
    LET j == task[w] IN
    CASE flag = "meta_updated" ->
            meta' = local[w].previous /\ UNCHANGED <<target, backup, staging, package>>
      [] flag = "archived" ->
            package' = [package EXCEPT ![j] = "ready"] /\ UNCHANGED <<target, backup, staging, meta>>
      [] flag = "staging_pending" ->
            staging' = [staging EXCEPT ![j] = FALSE] /\ UNCHANGED <<target, backup, package, meta>>
      [] flag = "target_published" ->
            target' = "none" /\ UNCHANGED <<backup, staging, package, meta>>
      [] flag = "existing_backed_up" ->
            /\ target' = backup[j]
            /\ backup' = [backup EXCEPT ![j] = "empty"]
            /\ UNCHANGED <<staging, package, meta>>
      [] flag = "generation_pending" ->
            backup' = [backup EXCEPT ![j] = "none"] /\ UNCHANGED <<target, staging, package, meta>>

\* A step that raises leaves the disk alone, except that the removal of the
\* target may stop half way.
HalfUndone(flag) ==
    /\ target' \in {target} \cup
         (IF flag = "target_published" /\ target # "none" THEN {"debris"} ELSE {})
    /\ UNCHANGED <<backup, staging, package, meta>>

\* Variant for Undo: a step that failed counts as done.
UndoOnce(w, i) ==
    LET flag == UndoOrder[i]
        rest == local[w].flags \ {flag}
    IN
    /\ pc[w] = flag
    /\ \/ /\ CanUndo(w, flag)
          /\ Undone(w, flag)
          /\ local' = [local EXCEPT ![w].flags = rest]
          /\ NoFault
       \/ /\ HalfUndone(flag)
          /\ IF CanUndo(w, flag) THEN Fault ELSE NoFault /\ UNCHANGED target
          /\ local' = [local EXCEPT ![w].flags = rest, ![w].broken = TRUE]
    /\ Goto(w, NextUndo(i + 1, rest))
    /\ UNCHANGED <<origin, dbVars, recordVars, task>>

\* Each step is tried whether or not an earlier one failed.
Undo(w, i) ==
    LET flag == UndoOrder[i]
        rest == local[w].flags \ {flag}
    IN
    /\ pc[w] = flag
    /\ \/ /\ CanUndo(w, flag)
          /\ Undone(w, flag)
          /\ local' = [local EXCEPT ![w].flags = rest]
          /\ NoFault
       \/ /\ HalfUndone(flag)
          /\ IF CanUndo(w, flag) THEN Fault ELSE NoFault /\ UNCHANGED target
          /\ local' = [local EXCEPT ![w].broken = TRUE]
    /\ Goto(w, NextUndo(i + 1, rest))
    /\ UNCHANGED <<origin, dbVars, recordVars, task>>

\* rollback() returns or raises: complete() ends, the tool drops its lock.
EndRollback(w) ==
    IF w \in Threads THEN Return(w) ELSE Goto(w, "unlock") /\ UNCHANGED <<task, local>>

\* Variant for Settle: the record goes whether or not a step failed.
SettleAnyway(w) ==
    /\ pc[w] = "settle"
    /\ record' = [record EXCEPT ![task[w]] = NoRecord]
    /\ EndRollback(w)
    /\ NoFault
    /\ UNCHANGED <<origin, diskVars, dbVars, lock, unsaved>>

\* Without a failure the record is removed, else the caller learns of it.
Settle(w) ==
    /\ pc[w] = "settle"
    /\ \/ /\ ~local[w].broken
          /\ record' = [record EXCEPT ![task[w]] = NoRecord]
          /\ EndRollback(w)
          /\ NoFault
       \/ /\ IF local[w].broken THEN NoFault ELSE Fault
          /\ Goto(w, "raise")
          /\ UNCHANGED <<record, task, local>>
    /\ UNCHANGED <<origin, diskVars, dbVars, lock, unsaved>>

\* _raise_recovery_error: keep what is left to do.  If that cannot be written,
\* the record stays as it is: the one of an earlier rollback, if this one could
\* not even announce itself (Resuming).
Raise(w) ==
    /\ pc[w] = "raise"
    /\ \/ SaveRecord(w, "recovery") /\ (NoFault \/ Fault) /\ UNCHANGED unsaved
       \/ /\ Fault
          /\ unsaved' = unsaved \cup
                (IF record[task[w]].phase = "recovery" THEN {task[w]} ELSE {})
          /\ UNCHANGED record
    /\ EndRollback(w)
    /\ UNCHANGED <<origin, diskVars, dbVars, lock>>

-----------------------------------------------------------------------------
(* tools.recover_capture --resume. *)

\* recovery_lock: exclusive creation, before the record is read.
TakeLock(w, j) ==
    /\ w \in Tools /\ pc[w] = "idle"
    /\ j \notin lock
    /\ record[j] # NoRecord
    /\ lock' = lock \cup {j}
    /\ Goto(w, "read")
    /\ task' = [task EXCEPT ![w] = j]
    /\ UNCHANGED <<origin, diskVars, dbVars, record, unsaved, local, boundVars>>

\* Variant for ReadRecord: only jobs that still wait for their files.
ReadRecordOfAwaiting(w) ==
    LET r == record[task[w]] IN
    /\ pc[w] = "read"
    /\ IF r.phase = "recovery" /\ jobStatus[task[w]] = "awaiting_files"
       THEN /\ local' = [local EXCEPT ![w].flags = r.flags,
                           ![w].previous = r.previous, ![w].applied = r.applied]
            /\ Goto(w, "resuming")
       ELSE Goto(w, "unlock") /\ UNCHANGED local
    /\ UNCHANGED <<origin, diskVars, dbVars, recordVars, task, boundVars>>

\* Only a record of a rollback that ended, of a job that did not succeed.
ReadRecord(w) ==
    LET r == record[task[w]] IN
    /\ pc[w] = "read"
    /\ IF r.phase = "recovery" /\ jobStatus[task[w]] \in {"awaiting_files", "failed"}
       THEN /\ local' = [local EXCEPT ![w].flags = r.flags,
                           ![w].previous = r.previous, ![w].applied = r.applied]
            /\ Goto(w, "resuming")
       ELSE Goto(w, "unlock") /\ UNCHANGED local
    /\ UNCHANGED <<origin, diskVars, dbVars, recordVars, task, boundVars>>

\* Removing the lock may fail, too: it then stays for a manual inspection.
Unlock(w) ==
    /\ pc[w] = "unlock"
    /\ \/ lock' = lock \ {task[w]} /\ NoFault
       \/ UNCHANGED lock /\ Fault
    /\ Return(w)
    /\ UNCHANGED <<origin, diskVars, dbVars, record, unsaved>>

-----------------------------------------------------------------------------
(* The rest of the system. *)

\* The agent of the next job delivers its package; jobs follow each other
\* (AtMostOneUnfinished of CaptureJobs).
Deliver(j) ==
    /\ jobStatus[j] = "absent"
    /\ \A k \in Jobs : jobStatus[k] # "awaiting_files"
    /\ jobStatus' = [jobStatus EXCEPT ![j] = "awaiting_files"]
    /\ package' = [package EXCEPT ![j] = "ready"]
    /\ UNCHANGED <<origin, audit, target, backup, staging, meta, recordVars, workerVars, boundVars>>

\* The agent gives up, or its heartbeat expires, also while complete() runs.
JobFails(j) ==
    /\ jobStatus[j] = "awaiting_files"
    /\ jobStatus' = [jobStatus EXCEPT ![j] = "failed"]
    /\ UNCHANGED <<origin, audit, diskVars, recordVars, workerVars, boundVars>>

\* The user edits the library entry.
Edit ==
    /\ edits < MaxEdits
    /\ meta # NoEntry
    /\ edits' = edits + 1
    /\ meta' = [meta EXCEPT !.rev = edits + 1]
    /\ UNCHANGED <<origin, target, backup, staging, package, dbVars, recordVars,
                   workerVars, faults, crashes>>

\* The server process, or one run of the tool, stops where it is.
Crash(stopped) ==
    /\ crashes < MaxCrashes
    /\ \E w \in stopped : pc[w] # "idle"
    /\ crashes' = crashes + 1
    /\ pc' = [w \in Workers |-> IF w \in stopped THEN "idle" ELSE pc[w]]
    /\ task' = [w \in Workers |-> IF w \in stopped THEN "none" ELSE task[w]]
    /\ local' = [w \in Workers |-> IF w \in stopped THEN Fresh ELSE local[w]]
    /\ UNCHANGED <<origin, diskVars, dbVars, recordVars, faults, edits>>

Publishing(w) ==
    \/ Load(w) \/ Construct(w) \/ Begin(w) \/ Stage(w) \/ BackupExisting(w)
    \/ PublishTarget(w) \/ UpdateMeta(w) \/ ArchivePackage(w) \/ MarkSucceeded(w) \/ Clear(w)

Compensating(w) ==
    \/ Resuming(w) \/ Settle(w) \/ Raise(w)
    \/ \E i \in 1..6 : Undo(w, i)

Next ==
    \/ \E j \in Jobs :
         \/ Deliver(j)
         \/ JobFails(j)
         \/ \E w \in Workers : Check(w, j) \/ TakeLock(w, j)
    \/ \E w \in Workers :
         \/ Publishing(w)
         \/ Compensating(w)
         \/ ReadRecord(w)
         \/ Unlock(w)
    \/ Edit
    \/ Crash(Threads)
    \/ \E w \in Tools : Crash({w})

Spec == Init /\ [][Next]_vars

-----------------------------------------------------------------------------

\* The variables have their types.
TypeOK ==
    /\ jobStatus \in [Jobs -> {"absent", "awaiting_files", "succeeded", "failed"}]
    /\ audit \in {"none"} \cup Jobs
    /\ target \in Contents
    /\ backup \in [Jobs -> Contents \cup {"empty"}]
    /\ staging \in [Jobs -> BOOLEAN]
    /\ package \in [Jobs -> {"none", "ready", "processed"}]
    /\ meta \in Entries
    /\ record \in [Jobs -> Records]
    /\ lock \subseteq Jobs
    /\ unsaved \subseteq Jobs
    /\ pc \in [Workers -> {"idle", "load", "construct", "begin", "stage", "backup", "publish",
                           "update_meta", "archive", "mark", "clear", "resuming", "settle",
                           "raise", "read", "unlock"} \cup Flags]
    /\ task \in [Workers -> {"none"} \cup Jobs]
    /\ local \in [Workers -> [flags : SUBSET Flags, replacing : BOOLEAN,
                              previous : Entries, applied : Entries, broken : BOOLEAN]]
    /\ faults \in 0..MaxFaults /\ crashes \in 0..MaxCrashes /\ edits \in 0..MaxEdits

\* The images that count as registered: those of the current audit's job, or
\* the ones from before any capture.
Registered == IF audit = "none" THEN origin.images ELSE audit

\* No failure, crash, retry or recovery loses images that were registered:
\* the original ones and those of every succeeded job are in the library or
\* in a backup generation.  The exception is a rollback that could save
\* neither its start nor its result: repeating it from the earlier record
\* takes the restored images for the published ones.
RegisteredImagesKept ==
    unsaved = {} =>
        \A c \in {origin.images, audit} \cup {j \in Jobs : jobStatus[j] = "succeeded"} :
            c # "none" => target = c \/ \E k \in Jobs : backup[k] = c

\* A job's package is never lost, and is archived for good only by a success.
PackageKept ==
    \A j \in Jobs :
        /\ jobStatus[j] # "absent" => package[j] # "none"
        /\ jobStatus[j] = "succeeded" => package[j] = "processed"

\* Nobody works for job j.
Idle(j) == \A w \in Workers : task[w] # j

\* What complete() promises: a registration takes place as a whole or not at
\* all.  When no worker is busy and no record is kept, the library holds the
\* registered images, the entry belongs to them, and nothing is left over of
\* the other jobs, however many attempts failed on the way.
AllOrNothing ==
    unsaved = {} /\ (\A j \in Jobs : Idle(j) /\ record[j] = NoRecord) =>
        /\ target = Registered
        /\ meta.asin = IF audit = "none" THEN origin.meta.asin ELSE "this"
        /\ \A j \in Jobs :
             /\ ~staging[j]
             /\ jobStatus[j] # "succeeded" => package[j] # "processed" /\ backup[j] = "none"

\* What has been moved away, put in place or archived and is not yet
\* registered is covered by a record: a crash at any point stops all further
\* registrations until somebody looks at it.
DamageIsRecorded ==
    \A j \in Jobs :
        \/ staging[j]
        \/ jobStatus[j] # "succeeded" /\ (package[j] = "processed" \/ backup[j] # "none" \/ target = j)
        => record[j] # NoRecord

\* The record a rollback leaves behind describes exactly what is left to undo
\* (if the job did not succeed, else the tool refuses it), so that the tool
\* neither skips nor repeats a step.
RecoveryRecordExact ==
    \A j \in Jobs :
        /\ record[j].phase = "recovery" /\ Idle(j) /\ j \notin lock
        /\ jobStatus[j] # "succeeded" /\ j \notin unsaved
        =>
            LET left == record[j].flags IN
            /\ "archived" \in left <=> package[j] = "processed"
            /\ "target_published" \in left <=> target \in {j, "debris"}
            /\ "existing_backed_up" \in left <=> backup[j] \notin {"none", "empty"}
            /\ staging[j] => "staging_pending" \in left
            /\ backup[j] # "none" => "generation_pending" \in left

\* Records and damage agree: no damage without a record, no record of a damage
\* that is repaired (begin_record, rollback).
RecordsMatchDamage == DamageIsRecorded /\ RecoveryRecordExact

\* No edit of the user is undone by a compensation.
EditsKept == edits > 0 => meta # NoEntry /\ meta.rev = edits

\* Whatever fails, nobody loses a package or an edit of the library entry.
PackagesAndEditsKept == PackageKept /\ EditsKept

-----------------------------------------------------------------------------
(* Fairness: a running worker takes its next step, and the operator runs the *)
(* tool as long as there is a record it can work on.                        *)

Resumable(j) ==
    record[j].phase = "recovery" /\ jobStatus[j] \in {"awaiting_files", "failed"}

FairSpec ==
    /\ Spec
    /\ \A w \in Workers :
         WF_vars(Publishing(w) \/ Compensating(w) \/ ReadRecord(w) \/ Unlock(w))
    /\ \A w \in Tools, j \in Jobs : WF_vars(Resumable(j) /\ TakeLock(w, j))

\* What a rollback left undone is undone in the end, once the operations
\* succeed again: the tool clears the record, unless it left its lock behind or
\* could not save the result of a rollback, or the entry was edited and only its
\* restoration remains.
RecordIsSettled ==
    \A j \in Jobs :
        Resumable(j) ~> \/ record[j] = NoRecord
                        \/ j \in lock /\ Idle(j)
                        \/ record[j].phase = "resuming" /\ Idle(j)
                        \/ j \in unsaved
                        \/ edits > 0 /\ record[j].flags = {"meta_updated"}

=============================================================================
