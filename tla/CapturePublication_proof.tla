---------------------- MODULE CapturePublication_proof ----------------------
(***************************************************************************)
(* Theorems about CapturePublication for every set of jobs, threads and    *)
(* tools and every number of failing operations, crashes and edits.        *)
(***************************************************************************)
EXTENDS CapturePublication, WellFoundedInduction, TLAPS

\* The workers that are busy at the same time are busy with one job.  The code
\* does not ensure it for two threads and two jobs: that is the race which
\* loses images.
OneJobAtATime ==
    \A v, w \in Workers : task[v] = "none" \/ task[w] = "none" \/ task[v] = task[w]

-----------------------------------------------------------------------------
(* What a worker knows. *)

Busy(w) == task[w] # "none"

\* The steps of complete() after its record is written, and of the rollback.
Forward == {"stage", "backup", "publish", "update_meta", "archive", "mark", "clear"}
Rollback == {"resuming", "settle", "raise"} \cup Flags

InCourse(w) == pc[w] \in Forward \cup Rollback

PendingFlags == {"staging_pending", "generation_pending"}

\* The flags of complete() at a step.  Existing images may have been backed up.
Behind(step) ==
    PendingFlags
    \cup (IF step \in {"update_meta", "archive", "mark", "clear"} THEN {"target_published"} ELSE {})
    \cup (IF step \in {"archive", "mark", "clear"} THEN {"meta_updated"} ELSE {})
    \cup (IF step \in {"mark", "clear"} THEN {"archived"} ELSE {})

\* Until the rollback starts nothing failed, and the flags follow the step.
FlagsFollow(step, own) ==
    /\ step \in {"idle", "load", "construct", "begin", "read", "stage", "backup"} =>
          own.flags = PendingFlags
    /\ step \in Forward => own.flags \ {"existing_backed_up"} = Behind(step)
    /\ step \notin Rollback \cup {"unlock"} => ~own.broken
    /\ step = "resuming" => ~own.broken

\* A rollback without a failure has left no flag behind it.
UndoneSoFar(step, own) ==
    /\ step = "settle" /\ ~own.broken => own.flags = {}
    /\ \A i \in 1..6 : step = UndoOrder[i] =>
          /\ UndoOrder[i] \in own.flags
          /\ ~own.broken => \A k \in 1..(i - 1) : UndoOrder[k] \notin own.flags

\* The entry as update_meta() leaves it.
AppliedTo(entry) ==
    IF entry = NoEntry THEN [asin |-> "this", rev |-> 0] ELSE [entry EXCEPT !.asin = "this"]

\* The snapshots of an entry that was changed belong together.
SnapshotsOK(r) == "meta_updated" \in r.flags => r.applied = AppliedTo(r.previous)

WorkerOK(w) ==
    /\ pc[w] = "idle" <=> ~Busy(w)
    /\ w \in Tools => pc[w] \in {"idle", "read", "unlock"} \cup Rollback
    /\ w \in Threads => pc[w] \notin {"read", "unlock"}
    /\ FlagsFollow(pc[w], local[w])
    /\ UndoneSoFar(pc[w], local[w])
    /\ SnapshotsOK(local[w])

WorkersOK == \A w \in Workers : WorkerOK(w)

\* The part of it that the types of the records rest on.
BusyOK == \A w \in Workers : pc[w] = "idle" <=> ~Busy(w)

-----------------------------------------------------------------------------
(* Who holds which record. *)

\* A lock is held by one tool at most.
LocksHeld ==
    /\ \A w \in Tools : Busy(w) => task[w] \in lock
    /\ \A v, w \in Tools : Busy(v) /\ task[v] = task[w] => v = w

\* A record is the only one, and the workers that are busy are busy with it or
\* before it.
RecordsSingle ==
    /\ \A j, k \in Jobs : record[j] # NoRecord /\ record[k] # NoRecord => j = k
    /\ \A w \in Workers, k \in Jobs : Busy(w) /\ k # task[w] => record[k] = NoRecord

\* An active worker has its record for itself; a thread has not ended it.  A
\* tool that could not announce itself leaves the earlier record, whose flags
\* are then still those it started with.
RecordsHeld ==
    /\ \A w \in Workers : InCourse(w) =>
          /\ record[task[w]] # NoRecord
          /\ record[task[w]].phase = "recovery" => local[w].flags \subseteq record[task[w]].flags
    /\ \A w \in Threads : InCourse(w) => record[task[w]].phase # "recovery"
    /\ \A v, w \in Workers : InCourse(v) /\ InCourse(w) /\ task[v] = task[w] => v = w

RecordsWellFormed ==
    \A j \in Jobs :
        /\ record[j].phase = "none" => record[j] = NoRecord
        /\ SnapshotsOK(record[j])

\* Work is on jobs that were delivered, the tool's on such that did not succeed.
JobsKnown ==
    /\ \A w \in Workers : Busy(w) => jobStatus[task[w]] # "absent"
    /\ \A w \in Tools : InCourse(w) => jobStatus[task[w]] # "succeeded"
    /\ \A j \in Jobs : record[j] # NoRecord => jobStatus[j] # "absent"
    /\ audit # "none" => jobStatus[audit] = "succeeded"

HoldersOK ==
    LocksHeld /\ RecordsSingle /\ RecordsHeld /\ RecordsWellFormed /\ JobsKnown

-----------------------------------------------------------------------------
(* What the flags say of the disk. *)

\* Every damage done for job j has its flag.
Covers(j, flags) ==
    /\ package[j] = "processed" => "archived" \in flags
    /\ staging[j] => "staging_pending" \in flags
    /\ target \in {j, "debris"} => "target_published" \in flags
    /\ backup[j] \notin {"none", "empty"} => "existing_backed_up" \in flags
    /\ backup[j] # "none" => "generation_pending" \in flags

\* Every flag has its damage.
Deserved(j, flags) ==
    /\ "archived" \in flags => package[j] = "processed"
    /\ "target_published" \in flags => target \in {j, "debris"}
    /\ "existing_backed_up" \in flags => backup[j] \notin {"none", "empty"}

RegisteredAsin == IF audit = "none" THEN origin.meta.asin ELSE "this"

\* The registered images and the entry are where the flags say.
Recoverable(j, flags, previous) ==
    /\ IF "existing_backed_up" \in flags
       THEN backup[j] = Registered /\ ("target_published" \notin flags => target = "none")
       ELSE IF "target_published" \in flags THEN Registered = "none" ELSE target = Registered
    /\ IF "meta_updated" \in flags
       THEN previous.asin = RegisteredAsin ELSE meta.asin = RegisteredAsin

FlagsOK(j, r) ==
    /\ Covers(j, r.flags)
    /\ j \notin unsaved => Deserved(j, r.flags)
    /\ unsaved = {} => Recoverable(j, r.flags, r.previous)

\* Nothing is under way.
NothingUnderWay ==
    /\ target # "debris"
    /\ unsaved = {} => target = Registered /\ meta.asin = RegisteredAsin

\* The disk for an active worker whose job has not succeeded.
Working(w) ==
    LET j == task[w] IN
    /\ FlagsOK(j, local[w])
    /\ pc[w] # "clear"
    /\ pc[w] \in {"update_meta", "archive", "mark"} => target = j /\ ~staging[j]
    /\ pc[w] \in {"archive", "mark"} => meta.asin = "this"
    /\ pc[w] = "mark" => package[j] = "processed"

\* The disk for an active worker whose job has succeeded: its own success, or a
\* retry that came too late.
Finishing(w) ==
    /\ NothingUnderWay
    /\ pc[w] = "clear" => ~staging[task[w]]
    /\ pc[w] # "clear" =>
          /\ pc[w] \in {"stage"} \cup Rollback
          /\ local[w].flags \subseteq PendingFlags
          /\ staging[task[w]] => "staging_pending" \in local[w].flags

ActiveOK ==
    \A w \in Workers : InCourse(w) =>
        IF jobStatus[task[w]] = "succeeded" THEN Finishing(w) ELSE Working(w)

\* A record the tool will accept, or has just accepted or left.
Waiting(j) ==
    /\ record[j].phase = "recovery"
    /\ jobStatus[j] # "succeeded"
    /\ \A w \in Workers : InCourse(w) => task[w] # j
    /\ j \in lock => \E w \in Tools : task[w] = j

WaitingOK == \A j \in Jobs : Waiting(j) => FlagsOK(j, record[j])

CleanOK == (\A j \in Jobs : record[j] = NoRecord) => NothingUnderWay

\* Backups hold images that were registered.
BackupsOK ==
    \A j \in Jobs : backup[j] \in {"none", "empty", "original"} \cup
                                  {k \in Jobs : jobStatus[k] = "succeeded"}

OriginOK == origin.images \in {"none", "original"}

DiskOK ==
    /\ ActiveOK /\ WaitingOK /\ CleanOK /\ BackupsOK /\ OriginOK
    /\ DamageIsRecorded /\ RegisteredImagesKept /\ PackagesAndEditsKept

PubInv == TypeOK /\ WorkersOK /\ HoldersOK /\ DiskOK

-----------------------------------------------------------------------------
(* Types. *)

Steps == {"idle", "load", "construct", "begin", "stage", "backup", "publish",
          "update_meta", "archive", "mark", "clear", "resuming", "settle",
          "raise", "read", "unlock"} \cup Flags

Locals == [flags : SUBSET Flags, replacing : BOOLEAN,
           previous : Entries, applied : Entries, broken : BOOLEAN]

\* The flags are the six steps of the compensation.
LEMMA FlagNames ==
    /\ Flags = {"meta_updated", "archived", "staging_pending",
                "target_published", "existing_backed_up", "generation_pending"}
    /\ UndoOrder[1] = "meta_updated" /\ UndoOrder[2] = "archived"
    /\ UndoOrder[3] = "staging_pending" /\ UndoOrder[4] = "target_published"
    /\ UndoOrder[5] = "existing_backed_up" /\ UndoOrder[6] = "generation_pending"
<1>1. \A f : f \in Flags <=> \E i \in 1..6 : f = UndoOrder[i]
  BY DEF Flags
<1>2. 1..6 = {1, 2, 3, 4, 5, 6}
  OBVIOUS
<1>3. /\ UndoOrder[1] = "meta_updated" /\ UndoOrder[2] = "archived"
      /\ UndoOrder[3] = "staging_pending" /\ UndoOrder[4] = "target_published"
      /\ UndoOrder[5] = "existing_backed_up" /\ UndoOrder[6] = "generation_pending"
  BY DEF UndoOrder
<1> QED
  BY <1>1, <1>2, <1>3

\* NextUndo finds the first flag that is left.
LEMMA NextUndoIs ==
    ASSUME NEW i \in 1..7, NEW flags \in SUBSET Flags
    PROVE  \/ /\ NextUndo(i, flags) = "settle"
              /\ \A k \in i..6 : UndoOrder[k] \notin flags
           \/ \E k \in i..6 :
                /\ NextUndo(i, flags) = UndoOrder[k]
                /\ UndoOrder[k] \in flags
                /\ \A m \in i..(k - 1) : UndoOrder[m] \notin flags
<1> DEFINE left == {k \in i..6 : UndoOrder[k] \in flags}
<1>1. CASE left = {}
  BY <1>1 DEF NextUndo
<1>2. CASE left # {}
  <2>1. left \subseteq Nat
    OBVIOUS
  <2>2. PICK x \in left : \A y \in left : ~(<<y, x>> \in OpToRel(<, Nat))
    BY <1>2, <2>1, NatLessThanWellFounded, WFMin
  <2>3. \A y \in left : x <= y
    <3> SUFFICES ASSUME NEW y \in left, ~(x <= y) PROVE FALSE
      OBVIOUS
    <3>1. y < x /\ <<y, x>> \in Nat \X Nat
      BY <2>1
    <3>2. <<y, x>> \in OpToRel(<, Nat)
      BY <3>1 DEF OpToRel
    <3> QED
      BY <2>2, <3>2
  <2> DEFINE first == CHOOSE k \in left : \A m \in left : k <= m
  <2>4. first \in left /\ \A m \in left : first <= m
    BY <2>3
  <2>5. NextUndo(i, flags) = UndoOrder[first]
    BY <1>2 DEF NextUndo
  <2> HIDE DEF first
  <2>6. \A m \in i..(first - 1) : UndoOrder[m] \notin flags
    <3> SUFFICES ASSUME NEW m \in i..(first - 1), UndoOrder[m] \in flags PROVE FALSE
      OBVIOUS
    <3>1. m \in left /\ m < first
      BY <2>4
    <3> QED
      BY <2>4, <3>1
  <2> QED
    BY <2>4, <2>5, <2>6
<1> QED
  BY <1>1, <1>2

\* Entries, records and objects stay in their types.
LEMMA EntryTypes ==
    /\ NoEntry \in Entries /\ Fresh \in Locals /\ NoRecord \in Records
    /\ \A e \in Entries : AppliedTo(e) \in Entries
<1>1. 0 \in 0..MaxEdits
  BY CapturePublicationAssumption
<1>2. NoEntry \in Entries
  BY DEF Entries
<1>3. Fresh \in Locals
  BY <1>2, FlagNames DEF Fresh, Locals
<1>4. NoRecord \in Records
  BY <1>2 DEF NoRecord, Records
<1>5. \A e \in Entries : AppliedTo(e) \in Entries
  BY <1>1 DEF AppliedTo, Entries
<1> QED
  BY <1>2, <1>3, <1>4, <1>5

\* The step a rollback goes to is one.
LEMMA UndoSteps ==
    ASSUME NEW i \in 1..7, NEW flags \in SUBSET Flags
    PROVE  NextUndo(i, flags) \in Steps
<1>1. CASE NextUndo(i, flags) = "settle"
  BY <1>1 DEF Steps
<1>2. CASE \E k \in i..6 : NextUndo(i, flags) = UndoOrder[k] /\ UndoOrder[k] \in flags
  BY <1>2 DEF Steps
<1> QED
  BY <1>1, <1>2, NextUndoIs

\* A worker's variables stay in their types.
TypesOfWorkers ==
    /\ pc \in [Workers -> Steps]
    /\ task \in [Workers -> {"none"} \cup Jobs]
    /\ local \in [Workers -> Locals]

TypesOfBounds == faults \in 0..MaxFaults /\ crashes \in 0..MaxCrashes /\ edits \in 0..MaxEdits

TypesOfRest ==
    /\ jobStatus \in [Jobs -> {"absent", "awaiting_files", "succeeded", "failed"}]
    /\ audit \in {"none"} \cup Jobs
    /\ target \in Contents
    /\ backup \in [Jobs -> Contents \cup {"empty"}]
    /\ staging \in [Jobs -> BOOLEAN]
    /\ package \in [Jobs -> {"none", "ready", "processed"}]
    /\ meta \in Entries
    /\ record \in [Jobs -> Records]
    /\ lock \subseteq Jobs
    /\ unsaved \subseteq Jobs

\* The type invariant in three parts.
LEMMA TypeParts == TypeOK <=> TypesOfWorkers /\ TypesOfBounds /\ TypesOfRest
BY DEF TypeOK, TypesOfWorkers, TypesOfBounds, TypesOfRest, Steps, Locals

\* A returning worker, and one whose step went well, keep the types.
LEMMA ReturnTypes ==
    ASSUME TypesOfWorkers, NEW w \in Workers, Return(w)
    PROVE  TypesOfWorkers'
BY EntryTypes DEF TypesOfWorkers, Return, Goto, Steps

\* So does a worker whose step went well.
LEMMA DoneTypes ==
    ASSUME TypesOfWorkers, NEW w \in Workers, NEW flag \in Flags, NEW next \in Steps,
           Done(w, flag, next)
    PROVE  TypesOfWorkers'
BY DEF TypesOfWorkers, Done, Goto, Locals

\* So does one whose step raised.
LEMMA FailsTypes ==
    ASSUME TypesOfWorkers, NEW w \in Workers, Fails(w)
    PROVE  TypesOfWorkers'
BY DEF TypesOfWorkers, Fails, Goto, Steps

\* So does one that only goes on.
LEMMA GotoTypes ==
    ASSUME TypesOfWorkers, NEW w \in Workers, NEW next \in Steps,
           Goto(w, next), UNCHANGED <<task, local>>
    PROVE  TypesOfWorkers'
BY DEF TypesOfWorkers, Goto

\* So do the bounds.
LEMMA BoundTypes ==
    ASSUME TypesOfBounds, Fault \/ NoFault
    PROVE  TypesOfBounds'
BY CapturePublicationAssumption DEF TypesOfBounds, Fault, NoFault, boundVars

\* What a worker writes is a record.
LEMMA RecordTypes ==
    ASSUME TypesOfWorkers, NEW w \in Workers,
           NEW phase \in {"none", "publishing", "resuming", "recovery"}
    PROVE  RecordOf(w, phase) \in Records
BY DEF TypesOfWorkers, RecordOf, Records, Locals

\* The types hold at the start.
LEMMA TypesInit == Init => TypeOK
<1> SUFFICES ASSUME Init PROVE TypeOK
  OBVIOUS
<1>1. TypesOfWorkers
  BY EntryTypes DEF Init, TypesOfWorkers, Steps
<1>2. TypesOfBounds
  BY CapturePublicationAssumption DEF Init, TypesOfBounds
<1>3. origin.images \in Contents /\ origin.meta \in Entries
  BY CapturePublicationAssumption DEF Init, Contents, Entries
<1>4. TypesOfRest
  BY <1>3, EntryTypes DEF Init, TypesOfRest, Contents
<1> QED
  BY <1>1, <1>2, <1>4, TypeParts

\* The steps of complete() keep the types.
LEMMA TypesPublishing ==
    ASSUME TypeOK, NEW w \in Workers, InCourse(w) => task[w] \in Jobs,
           pc[w] \in {"load", "construct", "begin"} => task[w] \in Jobs,
           Publishing(w)
    PROVE  TypeOK'
<1> SUFFICES TypesOfWorkers' /\ TypesOfBounds' /\ TypesOfRest'
  BY DEF TypeOK, TypesOfWorkers, TypesOfBounds, TypesOfRest, Steps, Locals
<1> USE DEF TypesOfRest, diskVars, dbVars, recordVars, boundVars
<1>0. TypesOfWorkers /\ TypesOfBounds /\ TypesOfRest
  BY TypeParts
<1>a. {"construct", "begin", "stage", "backup", "publish", "update_meta", "archive", "mark",
       "clear", "resuming"} \subseteq Steps
  BY DEF Steps
<1>1. CASE Load(w)
  BY <1>0, <1>1, <1>a, ReturnTypes, GotoTypes DEF Load, TypesOfBounds
<1>2. CASE Construct(w)
  <2>1. TypesOfWorkers'
    <3>1. CASE Return(w)
      BY <1>0, <3>1, ReturnTypes
    <3>2. CASE /\ local' = [local EXCEPT ![w].replacing = target # "none"]
               /\ Goto(w, "begin") /\ UNCHANGED task
      <4> DEFINE there == target # "none"
                 own == [local[w] EXCEPT !.replacing = there]
      <4>1. there \in BOOLEAN
        OBVIOUS
      <4>2. local' = [local EXCEPT ![w] = own]
        BY <3>2
      <4> HIDE DEF there
      <4>3. own \in Locals
        BY <1>0, <4>1 DEF TypesOfWorkers, Locals
      <4> HIDE DEF own
      <4> QED
        BY <1>0, <1>a, <3>2, <4>2, <4>3 DEF TypesOfWorkers, Goto
    <3> QED
      BY <1>2, <3>1, <3>2 DEF Construct
  <2> QED
    BY <1>0, <1>2, <2>1 DEF Construct, TypesOfBounds
<1>3. CASE Begin(w)
  <2>1. TypesOfWorkers' /\ TypesOfBounds'
    BY <1>0, <1>3, <1>a, ReturnTypes, GotoTypes, BoundTypes DEF Begin
  <2>2. record' \in [Jobs -> Records]
    BY <1>0, <1>3, RecordTypes DEF Begin
  <2> QED
    BY <1>0, <1>3, <2>1, <2>2 DEF Begin
<1>4. CASE Stage(w)
  <2>1. TypesOfWorkers' /\ TypesOfBounds'
    BY <1>0, <1>4, <1>a, FailsTypes, GotoTypes, BoundTypes DEF Stage
  <2> QED
    BY <1>0, <1>4, <2>1 DEF Stage
<1>5. CASE BackupExisting(w)
  <2>1. TypesOfWorkers' /\ TypesOfBounds'
    BY <1>0, <1>5, <1>a, FlagNames, FailsTypes, GotoTypes, DoneTypes, BoundTypes DEF BackupExisting
  <2>2. target' \in Contents /\ backup' \in [Jobs -> Contents \cup {"empty"}]
    <3>1. CASE target' = target /\ backup' = backup
      BY <1>0, <3>1
    <3>2. CASE target' = "none" /\ backup' = [backup EXCEPT ![task[w]] = target]
      BY <1>0, <3>2 DEF Contents
    <3>3. CASE target' = target /\ \E made \in {backup[task[w]], "empty"} :
                                     backup' = [backup EXCEPT ![task[w]] = made]
      BY <1>0, <1>5, <3>3 DEF BackupExisting, InCourse, Forward
    <3> QED
      BY <1>5, <3>1, <3>2, <3>3 DEF BackupExisting
  <2> QED
    BY <1>0, <1>5, <2>1, <2>2 DEF BackupExisting
<1>6. CASE PublishTarget(w)
  <2>1. TypesOfWorkers' /\ TypesOfBounds'
    BY <1>0, <1>6, <1>a, FlagNames, FailsTypes, DoneTypes, BoundTypes DEF PublishTarget
  <2>2. target' \in Contents /\ staging' \in [Jobs -> BOOLEAN]
    BY <1>0, <1>6 DEF PublishTarget, InCourse, Forward, Contents
  <2> QED
    BY <1>0, <1>6, <2>1, <2>2 DEF PublishTarget
<1>7. CASE UpdateMeta(w)
  <2>1. Applied \in Entries
    BY <1>0, EntryTypes DEF Applied, AppliedTo
  <2>2. TypesOfWorkers'
    <3>1. CASE Fails(w)
      BY <1>0, <3>1, FailsTypes
    <3>2. CASE /\ local' = [local EXCEPT ![w].previous = meta, ![w].applied = Applied,
                                         ![w].flags = @ \cup {"meta_updated"}]
               /\ Goto(w, "archive") /\ UNCHANGED task
      <4> DEFINE own == [local[w] EXCEPT !.previous = meta, !.applied = Applied,
                                         !.flags = @ \cup {"meta_updated"}]
      <4>1. local[w] \in Locals /\ meta \in Entries
        BY <1>0 DEF TypesOfWorkers
      <4>2. own \in Locals
        BY <2>1, <4>1, FlagNames DEF Locals
      <4>3. local' = [local EXCEPT ![w] = own]
        BY <3>2
      <4> QED
        BY <1>0, <1>a, <3>2, <4>2, <4>3 DEF TypesOfWorkers, Goto
    <3> QED
      BY <1>7, <3>1, <3>2 DEF UpdateMeta
  <2> QED
    BY <1>0, <1>7, <2>1, <2>2, BoundTypes DEF UpdateMeta
<1>8. CASE ArchivePackage(w)
  <2>1. TypesOfWorkers' /\ TypesOfBounds'
    BY <1>0, <1>8, <1>a, FlagNames, FailsTypes, DoneTypes, BoundTypes DEF ArchivePackage
  <2> QED
    BY <1>0, <1>8, <2>1 DEF ArchivePackage
<1>9. CASE MarkSucceeded(w)
  <2>1. TypesOfWorkers' /\ TypesOfBounds'
    BY <1>0, <1>9, <1>a, FailsTypes, GotoTypes, BoundTypes DEF MarkSucceeded
  <2>2. audit' \in {"none"} \cup Jobs
    BY <1>0, <1>9 DEF MarkSucceeded, InCourse, Forward
  <2> QED
    BY <1>0, <1>9, <2>1, <2>2 DEF MarkSucceeded
<1>10. CASE Clear(w)
  <2>1. TypesOfWorkers' /\ TypesOfBounds'
    BY <1>0, <1>10, ReturnTypes, BoundTypes DEF Clear
  <2>2. record' \in [Jobs -> Records]
    BY <1>0, <1>10, EntryTypes DEF Clear
  <2> QED
    BY <1>0, <1>10, <2>1, <2>2 DEF Clear
<1> QED
  BY <1>1, <1>2, <1>3, <1>4, <1>5, <1>6, <1>7, <1>8, <1>9, <1>10 DEF Publishing

\* So do the steps of its rollback.
LEMMA TypesCompensating ==
    ASSUME TypeOK, NEW w \in Workers, InCourse(w) => task[w] \in Jobs, Compensating(w)
    PROVE  TypeOK'
<1> SUFFICES TypesOfWorkers' /\ TypesOfBounds' /\ TypesOfRest'
  BY DEF TypeOK, TypesOfWorkers, TypesOfBounds, TypesOfRest, Steps, Locals
<1> USE DEF TypesOfRest, diskVars, dbVars, recordVars, boundVars
<1>0. TypesOfWorkers /\ TypesOfBounds /\ TypesOfRest
  BY TypeParts
<1>a. {"settle", "raise", "unlock", "resuming"} \cup Flags \subseteq Steps
  BY DEF Steps
<1>b. local[w] \in Locals
  BY <1>0 DEF TypesOfWorkers
<1>1. CASE Resuming(w)
  <2>1. NextUndo(1, local[w].flags) \in Steps
    BY <1>b, UndoSteps DEF Locals
  <2>2. TypesOfWorkers' /\ TypesOfBounds'
    <3> DEFINE own == [local[w] EXCEPT !.broken = TRUE]
    <3>1. own \in Locals
      BY <1>b DEF Locals
    <3>2. local' = local \/ local' = [local EXCEPT ![w] = own]
      BY <1>1 DEF Resuming
    <3> HIDE DEF own
    <3>3. TypesOfWorkers'
      BY <1>0, <1>1, <2>1, <3>1, <3>2 DEF Resuming, TypesOfWorkers, Goto
    <3>4. TypesOfBounds'
      BY <1>0, <1>1, BoundTypes DEF Resuming
    <3> QED
      BY <3>3, <3>4
  <2>3. record' \in [Jobs -> Records]
    BY <1>0, <1>1, RecordTypes DEF Resuming, SaveRecord
  <2> QED
    BY <1>0, <1>1, <2>2, <2>3 DEF Resuming
<1>2. ASSUME NEW i \in 1..6, Undo(w, i) PROVE TypeOK'
  <2> DEFINE flag == UndoOrder[i]
             rest == local[w].flags \ {flag}
  <2>1. flag \in Flags /\ NextUndo(i + 1, rest) \in Steps
    BY <1>b, UndoSteps DEF Locals, Flags
  <2>2. TypesOfWorkers'
    <3>1. local' \in [Workers -> Locals]
      <4>1. [local[w] EXCEPT !.flags = rest] \in Locals /\ [local[w] EXCEPT !.broken = TRUE] \in Locals
        BY <1>b DEF Locals
      <4>2. \/ local' = [local EXCEPT ![w] = [local[w] EXCEPT !.flags = rest]]
            \/ local' = [local EXCEPT ![w] = [local[w] EXCEPT !.broken = TRUE]]
        BY <1>2 DEF Undo
      <4> QED
        BY <1>0, <4>1, <4>2 DEF TypesOfWorkers
    <3> QED
      BY <1>0, <1>2, <2>1, <3>1 DEF Undo, TypesOfWorkers, Goto
  <2>3. TypesOfBounds'
    BY <1>0, <1>2, BoundTypes DEF Undo
  <2>4. task[w] \in Jobs
    BY <1>2, <2>1 DEF Undo, InCourse, Rollback
  <2>5. /\ target' \in Contents /\ backup' \in [Jobs -> Contents \cup {"empty"}]
        /\ staging' \in [Jobs -> BOOLEAN] /\ meta' \in Entries
        /\ package' \in [Jobs -> {"none", "ready", "processed"}]
    <3>1. CASE CanUndo(w, flag) /\ Undone(w, flag)
      <4>1. local[w].previous \in Entries
        BY <1>b DEF Locals
      <4>2. CASE flag = "meta_updated"
        BY <1>0, <3>1, <4>1, <4>2 DEF Undone
      <4>3. CASE flag = "archived"
        BY <1>0, <3>1, <4>3 DEF Undone
      <4>4. CASE flag = "staging_pending"
        BY <1>0, <3>1, <4>4 DEF Undone
      <4>5. CASE flag = "target_published"
        BY <1>0, <3>1, <4>5 DEF Undone, Contents
      <4>6. CASE flag = "existing_backed_up"
        BY <1>0, <2>4, <3>1, <4>6 DEF Undone, CanUndo
      <4>7. CASE flag = "generation_pending"
        BY <1>0, <3>1, <4>7 DEF Undone, Contents
      <4> QED
        BY <2>1, <4>2, <4>3, <4>4, <4>5, <4>6, <4>7, FlagNames
    <3>2. CASE HalfUndone(flag)
      BY <1>0, <3>2 DEF HalfUndone, Contents
    <3> QED
      BY <1>2, <3>1, <3>2 DEF Undo
  <2> QED
    BY <1>0, <1>2, <2>2, <2>3, <2>5 DEF Undo, TypeOK, TypesOfWorkers, TypesOfBounds, Steps, Locals
<1>3. CASE Settle(w)
  <2>1. TypesOfWorkers' /\ TypesOfBounds'
    BY <1>0, <1>3, <1>a, ReturnTypes, GotoTypes, BoundTypes DEF Settle, EndRollback
  <2>2. record' \in [Jobs -> Records]
    BY <1>0, <1>3, EntryTypes DEF Settle
  <2> QED
    BY <1>0, <1>3, <2>1, <2>2 DEF Settle
<1>4. CASE Raise(w)
  <2>1. TypesOfWorkers' /\ TypesOfBounds'
    BY <1>0, <1>4, <1>a, ReturnTypes, GotoTypes, BoundTypes DEF Raise, EndRollback
  <2>2. record' \in [Jobs -> Records]
    BY <1>0, <1>4, RecordTypes DEF Raise, SaveRecord
  <2>3. unsaved' \subseteq Jobs
    BY <1>0, <1>4 DEF Raise, InCourse, Rollback
  <2> QED
    BY <1>0, <1>4, <2>1, <2>2, <2>3 DEF Raise
<1> QED
  BY <1>1, <1>2, <1>3, <1>4
  DEF Compensating, TypeOK, TypesOfWorkers, TypesOfBounds, TypesOfRest, Steps, Locals

\* A busy worker has a job.
LEMMA BusyHasJob ==
    ASSUME TypeOK, BusyOK, NEW w \in Workers, pc[w] # "idle"
    PROVE  task[w] \in Jobs /\ Busy(w)
BY DEF TypeOK, BusyOK, Busy

\* So does every step.
LEMMA TypesStep == TypeOK /\ BusyOK /\ [Next]_vars => TypeOK'
<1> SUFFICES ASSUME TypeOK, BusyOK, [Next]_vars PROVE TypeOK'
  OBVIOUS
<1> USE DEF diskVars, dbVars, recordVars, boundVars, workerVars
<1>0. TypesOfWorkers /\ TypesOfBounds /\ TypesOfRest
  BY TypeParts
<1>a. {"load", "read", "resuming", "unlock", "idle"} \subseteq Steps
  BY DEF Steps
<1>b. TypesOfWorkers' /\ TypesOfBounds' /\ TypesOfRest' => TypeOK'
  BY DEF TypeOK, TypesOfWorkers, TypesOfBounds, TypesOfRest, Steps, Locals
<1>1. ASSUME NEW j \in Jobs, Deliver(j) PROVE TypeOK'
  <2>1. TypesOfWorkers' /\ TypesOfBounds'
    BY <1>0, <1>1 DEF Deliver, TypesOfWorkers, TypesOfBounds
  <2> QED
    BY <1>0, <1>b, <1>1, <2>1 DEF Deliver, TypesOfRest
<1>2. ASSUME NEW j \in Jobs, JobFails(j) PROVE TypeOK'
  <2>1. TypesOfWorkers' /\ TypesOfBounds'
    BY <1>0, <1>2 DEF JobFails, TypesOfWorkers, TypesOfBounds
  <2> QED
    BY <1>0, <1>b, <1>2, <2>1 DEF JobFails, TypesOfRest
<1>3. ASSUME NEW w \in Workers, NEW j \in Jobs, Check(w, j) PROVE TypeOK'
  <2>1. TypesOfWorkers'
    BY <1>0, <1>3, <1>a DEF Check, TypesOfWorkers, Goto
  <2> QED
    BY <1>0, <1>b, <1>3, <2>1 DEF Check, TypesOfBounds, TypesOfRest
<1>4. ASSUME NEW w \in Workers, NEW j \in Jobs, TakeLock(w, j) PROVE TypeOK'
  <2>1. TypesOfWorkers'
    BY <1>0, <1>4, <1>a DEF TakeLock, TypesOfWorkers, Goto
  <2> QED
    BY <1>0, <1>b, <1>4, <2>1 DEF TakeLock, TypesOfBounds, TypesOfRest
<1>5. ASSUME NEW w \in Workers, Publishing(w) PROVE TypeOK'
  BY <1>5, BusyHasJob, TypesPublishing DEF InCourse, Forward, Rollback, Flags, UndoOrder
<1>6. ASSUME NEW w \in Workers, Compensating(w) PROVE TypeOK'
  BY <1>6, BusyHasJob, TypesCompensating DEF InCourse, Forward, Rollback, Flags, UndoOrder
<1>7. ASSUME NEW w \in Workers, ReadRecord(w) PROVE TypeOK'
  <2> DEFINE r == record[task[w]]
             own == [local[w] EXCEPT !.flags = r.flags, !.previous = r.previous, !.applied = r.applied]
  <2>1. r \in Records /\ local[w] \in Locals
    BY <1>0, <1>7, BusyHasJob DEF ReadRecord, TypesOfRest, TypesOfWorkers
  <2>2. own \in Locals
    BY <2>1 DEF Records, Locals
  <2>3. local' = [local EXCEPT ![w] = own] \/ local' = local
    BY <1>7 DEF ReadRecord
  <2>4. TypesOfWorkers'
    BY <1>0, <1>7, <1>a, <2>2, <2>3 DEF ReadRecord, TypesOfWorkers, Goto
  <2> QED
    BY <1>0, <1>b, <1>7, <2>4 DEF ReadRecord, TypesOfBounds, TypesOfRest
<1>8. ASSUME NEW w \in Workers, Unlock(w) PROVE TypeOK'
  <2>1. TypesOfWorkers' /\ TypesOfBounds'
    BY <1>0, <1>8, ReturnTypes, BoundTypes DEF Unlock
  <2> QED
    BY <1>0, <1>b, <1>8, <2>1 DEF Unlock, TypesOfRest
<1>9. CASE Edit
  <2>1. meta' \in Entries /\ edits' \in 0..MaxEdits
    BY <1>0, <1>9, CapturePublicationAssumption
    DEF Edit, Entries, NoEntry, TypesOfRest, TypesOfBounds
  <2>2. TypesOfWorkers' /\ TypesOfBounds'
    BY <1>0, <1>9, <2>1 DEF Edit, TypesOfWorkers, TypesOfBounds
  <2> QED
    BY <1>0, <1>b, <1>9, <2>1, <2>2 DEF Edit, TypesOfRest
<1>10. ASSUME NEW stopped \in SUBSET Workers, Crash(stopped) PROVE TypeOK'
  <2>1. TypesOfWorkers'
    BY <1>0, <1>10, <1>a, EntryTypes DEF Crash, TypesOfWorkers
  <2>2. TypesOfBounds'
    BY <1>0, <1>10, CapturePublicationAssumption DEF Crash, TypesOfBounds
  <2> QED
    BY <1>0, <1>b, <1>10, <2>1, <2>2 DEF Crash, TypesOfRest
<1>11. CASE UNCHANGED vars
  BY <1>0, <1>b, <1>11 DEF vars, TypesOfWorkers, TypesOfBounds, TypesOfRest
<1>12. Threads \in SUBSET Workers /\ \A w \in Tools : {w} \in SUBSET Workers
  BY DEF Workers
<1> QED
  BY <1>1, <1>2, <1>3, <1>4, <1>5, <1>6, <1>7, <1>8, <1>9, <1>10, <1>11, <1>12 DEF Next

\* A worker that goes on or returns stays in line with its job.
LEMMA WorkerGoesOn ==
    ASSUME TypeOK, BusyOK, NEW w \in Workers, pc[w] # "idle",
           \/ Return(w) \/ Fails(w)
           \/ \E step \in Steps \ {"idle"} : Goto(w, step) /\ UNCHANGED task
    PROVE  BusyOK'
<1>1. CASE Return(w)
  BY <1>1 DEF Return, Goto, TypeOK, BusyOK, Busy
<1>2. CASE Fails(w)
  BY <1>2 DEF Fails, Goto, TypeOK, BusyOK, Busy
<1>3. CASE \E step \in Steps \ {"idle"} : Goto(w, step) /\ UNCHANGED task
  BY <1>3 DEF Goto, TypeOK, BusyOK, Busy
<1> QED
  BY <1>1, <1>2, <1>3

\* One step keeps workers in line with their jobs.
LEMMA BusyStep == TypeOK /\ BusyOK /\ [Next]_vars => BusyOK'
<1> SUFFICES ASSUME TypeOK, BusyOK, [Next]_vars PROVE BusyOK'
  OBVIOUS
<1> USE DEF workerVars
<1>a. /\ {"load", "construct", "begin", "stage", "backup", "publish", "update_meta", "archive", "mark",
          "clear", "resuming", "settle", "raise", "read", "unlock"} \subseteq Steps \ {"idle"}
      /\ "idle" \notin Flags
  BY FlagNames DEF Steps
<1>1. ASSUME NEW w \in Workers, Publishing(w) PROVE BusyOK'
  <2>1. pc[w] # "idle"
    BY <1>1 DEF Publishing, Load, Construct, Begin, Stage, BackupExisting, PublishTarget,
                UpdateMeta, ArchivePackage, MarkSucceeded, Clear
  <2> QED
    BY <1>1, <1>a, <2>1, WorkerGoesOn
    DEF Publishing, Load, Construct, Begin, Stage, BackupExisting, PublishTarget,
        UpdateMeta, ArchivePackage, MarkSucceeded, Clear, Done
<1>2. ASSUME NEW w \in Workers, Compensating(w) PROVE BusyOK'
  <2>1. \A i \in 1..7, flags \in SUBSET Flags : NextUndo(i, flags) \in Steps \ {"idle"}
    <3> SUFFICES ASSUME NEW i \in 1..7, NEW flags \in SUBSET Flags
                 PROVE  NextUndo(i, flags) \in Steps \ {"idle"}
      OBVIOUS
    <3>1. NextUndo(i, flags) = "settle" \/ \E k \in i..6 : NextUndo(i, flags) = UndoOrder[k]
      BY NextUndoIs
    <3> QED
      BY <1>a, <3>1, UndoSteps DEF Flags
  <2>2. local[w].flags \in SUBSET Flags
    BY DEF TypeOK
  <2>3. CASE Resuming(w)
    <3>1. NextUndo(1, local[w].flags) \in Steps \ {"idle"}
      BY <2>1, <2>2
    <3> QED
      BY <2>3, <3>1, WorkerGoesOn DEF Resuming
  <2>4. CASE Settle(w) \/ Raise(w)
    BY <1>a, <2>4, WorkerGoesOn DEF Settle, Raise, EndRollback
  <2>5. ASSUME NEW i \in 1..6, Undo(w, i) PROVE BusyOK'
    <3> DEFINE rest == local[w].flags \ {UndoOrder[i]}
    <3>1. NextUndo(i + 1, rest) \in Steps \ {"idle"}
      BY <2>1, <2>2
    <3>2. pc[w] # "idle"
      BY <1>a, <2>5 DEF Undo, Flags
    <3> QED
      BY <2>5, <3>1, <3>2, WorkerGoesOn DEF Undo
  <2> QED
    BY <1>2, <2>3, <2>4, <2>5 DEF Compensating
<1>3. ASSUME NEW w \in Workers, ReadRecord(w) \/ Unlock(w) PROVE BusyOK'
  BY <1>3, <1>a, WorkerGoesOn DEF ReadRecord, Unlock
<1>4. ASSUME NEW w \in Workers, NEW j \in Jobs, Check(w, j) \/ TakeLock(w, j) PROVE BusyOK'
  BY <1>4, CapturePublicationAssumption DEF Check, TakeLock, Goto, TypeOK, BusyOK, Busy
<1>5. ASSUME NEW j \in Jobs, Deliver(j) \/ JobFails(j) PROVE BusyOK'
  BY <1>5 DEF Deliver, JobFails, BusyOK, Busy
<1>6. CASE Edit \/ UNCHANGED vars
  BY <1>6 DEF Edit, vars, BusyOK, Busy
<1>7. ASSUME NEW stopped \in SUBSET Workers, Crash(stopped) PROVE BusyOK'
  BY <1>7 DEF Crash, BusyOK, Busy
<1>8. Threads \in SUBSET Workers /\ \A w \in Tools : {w} \in SUBSET Workers
  BY DEF Workers
<1> QED
  BY <1>1, <1>2, <1>3, <1>4, <1>5, <1>6, <1>7, <1>8 DEF Next

-----------------------------------------------------------------------------
(* Steps of an active worker. *)

\* One worker is active at most, and its record is the only one.
LEMMA OnlyActive ==
    ASSUME PubInv, NEW w \in Workers, InCourse(w)
    PROVE  /\ task[w] \in Jobs /\ Busy(w) /\ pc[w] # "idle"
           /\ record[task[w]] # NoRecord
           /\ \A k \in Jobs : k # task[w] => record[k] = NoRecord
           /\ \A v \in Workers : InCourse(v) => v = w
           /\ \A v \in Workers : Busy(v) => task[v] = task[w]
<1> USE DEF PubInv, HoldersOK
<1>0. BusyOK
  BY DEF WorkersOK, WorkerOK, BusyOK
<1>1. pc[w] # "idle"
  BY FlagNames DEF InCourse, Forward, Rollback
<1>2. task[w] \in Jobs /\ Busy(w)
  BY <1>0, <1>1, BusyHasJob
<1>3. record[task[w]] # NoRecord
  BY DEF RecordsHeld
<1>4. \A k \in Jobs : k # task[w] => record[k] = NoRecord
  BY <1>2, <1>3 DEF RecordsSingle
<1>5. \A v \in Workers : Busy(v) => task[v] = task[w]
  BY <1>2, <1>3 DEF RecordsSingle
<1>6. ASSUME NEW v \in Workers, InCourse(v) PROVE v = w
  <2>1. pc[v] # "idle"
    BY <1>6, FlagNames DEF InCourse, Forward, Rollback
  <2>2. Busy(v)
    BY <1>0, <2>1, BusyHasJob
  <2> QED
    BY <1>5, <1>6, <2>2 DEF RecordsHeld
<1> QED
  BY <1>1, <1>2, <1>3, <1>4, <1>5, <1>6

\* Worker w goes on with its job: everything else rests.
Advances(w) ==
    /\ UNCHANGED <<origin, task, lock>>
    /\ \A v \in Workers : v # w => pc'[v] = pc[v] /\ local'[v] = local[v]
    /\ \A k \in Jobs : k # task[w] =>
          /\ jobStatus'[k] = jobStatus[k] /\ record'[k] = record[k]
          /\ staging'[k] = staging[k] /\ package'[k] = package[k] /\ backup'[k] = backup[k]

\* Such a step keeps what is said of the other workers and jobs.
LEMMA MovesOK ==
    ASSUME PubInv, TypeOK', NEW w \in Workers, InCourse(w), Advances(w),
           InCourse(w)', WorkerOK(w)',
           record'[task[w]].phase # "none", SnapshotsOK(record'[task[w]]),
           w \in Threads => record'[task[w]].phase # "recovery",
           record'[task[w]].phase = "recovery" => local'[w].flags \subseteq record'[task[w]].flags,
           jobStatus'[task[w]] # "absent",
           w \in Tools => jobStatus'[task[w]] # "succeeded",
           audit' # "none" => jobStatus'[audit'] = "succeeded",
           target' \in {target, "none", "debris", task[w], backup[task[w]]},
           IF jobStatus'[task[w]] = "succeeded" THEN Finishing(w)' ELSE Working(w)',
           BackupsOK', RegisteredImagesKept', PackagesAndEditsKept'
    PROVE  PubInv'
<1> DEFINE j == task[w]
<1>1. /\ j \in Jobs /\ Busy(w) /\ task' = task
      /\ \A k \in Jobs : k # j => record[k] = NoRecord
      /\ \A v \in Workers : InCourse(v) => v = w
      /\ \A v \in Workers : Busy(v) => task[v] = j
  BY OnlyActive DEF Advances
<1>2. \A v \in Workers : v # w => (WorkerOK(v)' <=> WorkerOK(v)) /\ ~InCourse(v)'
  BY <1>1 DEF Advances, WorkerOK, Busy, InCourse
<1>3. WorkersOK'
  BY <1>2 DEF PubInv, WorkersOK
<1>4. record'[j] # NoRecord /\ \A k \in Jobs : k # j => record'[k] = NoRecord
  <2>1. NoRecord.phase = "none"
    BY DEF NoRecord
  <2> QED
    BY <1>1, <2>1 DEF Advances
<1>5. LocksHeld'
  BY <1>1 DEF Advances, PubInv, HoldersOK, LocksHeld, Busy
<1>6. RecordsSingle'
  BY <1>1, <1>4 DEF RecordsSingle, Busy
<1>7. RecordsHeld'
  <2>1. \A v \in Workers : InCourse(v)' => v = w
    BY <1>2
  <2> QED
    BY <1>1, <1>4, <2>1 DEF RecordsHeld, Workers
<1>8. RecordsWellFormed'
  BY <1>1, <1>4 DEF PubInv, HoldersOK, RecordsWellFormed, Advances
<1>9. JobsKnown'
  <2>1. \A v \in Workers : InCourse(v)' => v = w
    BY <1>2
  <2>2. \A k \in Jobs : k # j => jobStatus'[k] = jobStatus[k]
    BY DEF Advances
  <2>3. \A v \in Workers : Busy(v)' => jobStatus'[task'[v]] # "absent"
    BY <1>1 DEF Busy
  <2>4. \A v \in Tools : InCourse(v)' => jobStatus'[task'[v]] # "succeeded"
    BY <1>1, <2>1 DEF Workers
  <2>5. \A k \in Jobs : record'[k] # NoRecord => jobStatus'[k] # "absent"
    BY <1>4
  <2> QED
    BY <2>3, <2>4, <2>5 DEF JobsKnown
<1>10. ActiveOK'
  BY <1>1, <1>2 DEF ActiveOK
<1>11. WaitingOK'
  BY <1>1, <1>4 DEF WaitingOK, Waiting, NoRecord
<1>12. CleanOK'
  BY <1>1, <1>4 DEF CleanOK
<1>13. OriginOK'
  BY DEF PubInv, DiskOK, OriginOK, Advances
<1>14. DamageIsRecorded'
  <2> SUFFICES ASSUME NEW k \in Jobs, k # j,
                      \/ staging'[k]
                      \/ /\ jobStatus'[k] # "succeeded"
                         /\ package'[k] = "processed" \/ backup'[k] # "none" \/ target' = k
               PROVE  FALSE
    BY <1>4 DEF DamageIsRecorded
  <2>1. /\ ~staging[k]
        /\ jobStatus[k] # "succeeded" =>
              package[k] # "processed" /\ backup[k] = "none" /\ target # k
    BY <1>1 DEF PubInv, DiskOK, DamageIsRecorded
  <2>2. target' = k /\ jobStatus[k] # "succeeded"
    BY <2>1 DEF Advances
  <2>3. k \notin {"none", "debris", "empty", "original"}
    BY CapturePublicationAssumption
  <2>4. backup[j] = k
    BY <2>1, <2>2, <2>3
  <2> QED
    BY <1>1, <2>2, <2>3, <2>4 DEF PubInv, DiskOK, BackupsOK
<1> QED
  BY <1>3, <1>5, <1>6, <1>7, <1>8, <1>9, <1>10, <1>11, <1>12, <1>13, <1>14
  DEF PubInv, HoldersOK, DiskOK

\* What an active worker's own variables say at its step.
LEMMA AtStep ==
    ASSUME PubInv, NEW w \in Workers, InCourse(w)
    PROVE  /\ WorkerOK(w) /\ SnapshotsOK(local[w]) /\ local[w].flags \subseteq Flags
           /\ record[task[w]].phase # "none"
           /\ w \in Threads => record[task[w]].phase # "recovery"
           /\ record[task[w]].phase = "recovery" => local[w].flags \subseteq record[task[w]].flags
           /\ SnapshotsOK(record[task[w]])
           /\ jobStatus[task[w]] # "absent"
           /\ w \in Tools => jobStatus[task[w]] # "succeeded"
           /\ IF jobStatus[task[w]] = "succeeded" THEN Finishing(w) ELSE Working(w)
<1>1. task[w] \in Jobs /\ Busy(w) /\ record[task[w]] # NoRecord
  BY OnlyActive
<1>2. WorkerOK(w) /\ SnapshotsOK(local[w])
  BY DEF PubInv, WorkersOK, WorkerOK
<1>3. local[w].flags \subseteq Flags
  BY DEF PubInv, TypeOK
<1>4. record[task[w]].phase # "none" /\ SnapshotsOK(record[task[w]])
  BY <1>1 DEF PubInv, HoldersOK, RecordsWellFormed
<1>5. /\ w \in Threads => record[task[w]].phase # "recovery"
      /\ record[task[w]].phase = "recovery" => local[w].flags \subseteq record[task[w]].flags
  BY DEF PubInv, HoldersOK, RecordsHeld
<1>6. /\ jobStatus[task[w]] # "absent"
      /\ w \in Tools => jobStatus[task[w]] # "succeeded"
  BY <1>1 DEF PubInv, HoldersOK, JobsKnown
<1>7. IF jobStatus[task[w]] = "succeeded" THEN Finishing(w) ELSE Working(w)
  BY DEF PubInv, DiskOK, ActiveOK
<1> QED
  BY <1>2, <1>3, <1>4, <1>5, <1>6, <1>7

\* A step of complete() that raises leaves a worker ready for its rollback.
LEMMA FailingWorker ==
    ASSUME PubInv, NEW w \in Workers, pc[w] \in Forward, Fails(w)
    PROVE  WorkerOK(w)' /\ InCourse(w)' /\ pc'[w] = "resuming" /\ local' = local /\ task' = task
<1>1. pc'[w] = "resuming" /\ local' = local /\ task' = task
  BY DEF Fails, Goto, PubInv, TypeOK
<1>2. WorkerOK(w)
  BY DEF PubInv, WorkersOK
<1>3. pc[w] # "idle" /\ Busy(w) /\ ~local[w].broken
  BY <1>2, FlagNames DEF WorkerOK, Forward, FlagsFollow, Rollback
<1>4. FlagsFollow("resuming", local[w])
  BY <1>3 DEF FlagsFollow, Forward, Rollback
<1>5. UndoneSoFar("resuming", local[w])
  <2> SUFFICES \A i \in 1..6 : UndoOrder[i] # "resuming"
    BY DEF UndoneSoFar
  <2> QED
    BY FlagNames DEF Flags
<1> QED
  BY <1>1, <1>2, <1>3, <1>4, <1>5 DEF WorkerOK, Busy, InCourse, Rollback

\* A step of complete() that goes well sets its flag.
LEMMA ForwardWorker ==
    ASSUME PubInv, NEW w \in Workers, pc[w] \in Forward, w \in Threads,
           NEW next \in Forward, pc' = [pc EXCEPT ![w] = next], task' = task,
           FlagsFollow(next, local'[w]), SnapshotsOK(local'[w])
    PROVE  WorkerOK(w)' /\ InCourse(w)' /\ pc'[w] = next
<1>1. pc'[w] = next
  BY DEF PubInv, TypeOK
<1>2. WorkerOK(w) /\ pc[w] # "idle"
  BY DEF PubInv, WorkersOK, Forward
<1>3. w \notin Tools
  BY CapturePublicationAssumption
<1>4. UndoneSoFar(next, local'[w])
  <2>1. next # "settle" /\ \A i \in 1..6 : UndoOrder[i] # next
    BY FlagNames DEF Forward, Flags
  <2> QED
    BY <2>1 DEF UndoneSoFar
<1>5. next # "idle" /\ next \notin {"read", "unlock"}
  BY DEF Forward
<1> QED
  BY <1>1, <1>2, <1>3, <1>4, <1>5 DEF WorkerOK, Busy, InCourse

\* Only server threads run complete().
LEMMA ForwardIsThread ==
    ASSUME PubInv, NEW w \in Workers, pc[w] \in Forward
    PROVE  w \in Threads /\ InCourse(w)
<1>1. WorkerOK(w)
  BY DEF PubInv, WorkersOK
<1>2. pc[w] \notin {"idle", "read", "unlock"} \cup Rollback
  BY FlagNames DEF Forward, Rollback
<1> QED
  BY <1>1, <1>2 DEF WorkerOK, InCourse, Workers

\* A failing step that changes at most the staging or backup directory of its
\* own job, as its flags allow.
LEMMA FailingOK ==
    ASSUME PubInv, TypeOK', NEW w \in Workers, pc[w] \in Forward \ {"clear"}, Fails(w),
           UNCHANGED <<origin, target, package, meta, dbVars, recordVars, edits>>,
           \A k \in Jobs : k # task[w] => staging'[k] = staging[k] /\ backup'[k] = backup[k],
           staging'[task[w]] => staging[task[w]] \/ pc[w] = "stage",
           backup'[task[w]] \in {backup[task[w]]} \cup
               (IF pc[w] = "backup" /\ jobStatus[task[w]] # "succeeded"
                THEN {"empty"} ELSE {})
    PROVE  PubInv'
<1> DEFINE j == task[w]
<1> USE DEF dbVars, recordVars
<1>1. InCourse(w) /\ w \in Threads /\ j \in Jobs /\ ~(w \in Tools)
  BY ForwardIsThread, OnlyActive, CapturePublicationAssumption
<1>2. WorkerOK(w)' /\ InCourse(w)' /\ pc'[w] = "resuming" /\ local' = local /\ task' = task
  BY FailingWorker
<1>3. Advances(w)
  BY <1>2 DEF Advances, Fails, Goto, PubInv, TypeOK
<1>4. pc[w] \in {"stage", "backup"} => local[w].flags = PendingFlags
  BY <1>1, AtStep DEF WorkerOK, FlagsFollow
<1>5. backup'[j] # backup[j] =>
        pc[w] = "backup" /\ backup[j] \in {"none", "empty"} /\ backup'[j] = "empty"
  BY <1>1, <1>4, AtStep DEF Working, FlagsOK, Covers, PendingFlags
<1>6. IF jobStatus'[j] = "succeeded" THEN Finishing(w)' ELSE Working(w)'
  <2>1. CASE jobStatus[j] = "succeeded"
    <3>1. Finishing(w)
      BY <1>1, <2>1, AtStep
    <3>2. Finishing(w)'
      BY <1>2, <1>4, <3>1
      DEF Finishing, NothingUnderWay, Registered, RegisteredAsin, Forward, Rollback, PendingFlags
    <3> QED
      BY <2>1, <3>2
  <2>2. CASE jobStatus[j] # "succeeded"
    <3>1. Working(w)
      BY <1>1, <2>2, AtStep
    <3>2. Covers(j, local[w].flags)'
      BY <1>2, <1>4, <1>5, <3>1 DEF Working, FlagsOK, Covers, PendingFlags
    <3>3. (j \notin unsaved => Deserved(j, local[w].flags))'
      BY <1>2, <1>5, <3>1 DEF Working, FlagsOK, Deserved
    <3>4. (unsaved = {} => Recoverable(j, local[w].flags, local[w].previous))'
      BY <1>2, <1>4, <1>5, <3>1
      DEF Working, FlagsOK, Recoverable, Registered, RegisteredAsin, PendingFlags
    <3> QED
      BY <1>2, <2>2, <3>2, <3>3, <3>4 DEF Working, FlagsOK
  <2> QED
    BY <2>1, <2>2
<1>7. BackupsOK'
  BY <1>5 DEF PubInv, DiskOK, BackupsOK
<1>8. RegisteredImagesKept'
  <2>1. \A k \in Jobs : backup'[k] = backup[k] \/ backup[k] \in {"none", "empty"}
    BY <1>5
  <2>2. \A c \in {origin.images, audit} \cup {k \in Jobs : jobStatus[k] = "succeeded"} : c # "empty"
    BY CapturePublicationAssumption DEF PubInv, DiskOK, OriginOK, TypeOK
  <2> QED
    BY <2>1, <2>2 DEF PubInv, DiskOK, RegisteredImagesKept
<1>9. PackagesAndEditsKept'
  BY DEF PubInv, DiskOK, PackagesAndEditsKept, PackageKept, EditsKept
<1> QED
  BY <1>1, <1>2, <1>3, <1>6, <1>7, <1>8, <1>9, AtStep, MovesOK DEF PubInv, HoldersOK, JobsKnown

\* The flags of a worker that goes on with complete().
LEMMA ForwardFlags ==
    ASSUME PubInv, NEW w \in Workers, pc[w] \in Forward
    PROVE  /\ local[w].flags \ {"existing_backed_up"} = Behind(pc[w])
           /\ pc[w] \in {"stage", "backup"} => local[w].flags = PendingFlags
           /\ ~local[w].broken
<1>1. WorkerOK(w) /\ pc[w] \notin Rollback \cup {"unlock"}
  BY FlagNames DEF PubInv, WorkersOK, Forward, Rollback
<1> QED
  BY <1>1 DEF WorkerOK, FlagsFollow

\* stage() keeps the invariant.
LEMMA StageOK ==
    ASSUME PubInv, TypeOK', NEW w \in Workers, Stage(w)
    PROVE  PubInv'
<1> DEFINE j == task[w]
<1> USE DEF dbVars, recordVars, boundVars, NoFault
<1>1. pc[w] = "stage" /\ pc[w] \in Forward
  BY DEF Stage, Forward
<1>2. InCourse(w) /\ w \in Threads /\ j \in Jobs /\ ~(w \in Tools)
  BY <1>1, ForwardIsThread, OnlyActive, CapturePublicationAssumption
<1>3. staging' = [staging EXCEPT ![j] = TRUE]
      /\ UNCHANGED <<origin, target, backup, package, meta, dbVars, recordVars, edits>>
  BY DEF Stage, Fault
<1>4. CASE Fails(w)
  <2>1. \A k \in Jobs : k # j => staging'[k] = staging[k] /\ backup'[k] = backup[k]
    BY <1>3 DEF PubInv, TypeOK
  <2> QED
    BY <1>1, <1>2, <1>3, <1>4, <2>1, FailingOK
<1>5. CASE package[j] = "ready" /\ Goto(w, "backup") /\ UNCHANGED <<task, local>>
  <2>1. pc' = [pc EXCEPT ![w] = "backup"] /\ task' = task /\ local' = local
    BY <1>5 DEF Goto
  <2>2. local[w].flags = PendingFlags /\ ~local[w].broken
    BY <1>1, ForwardFlags
  <2>3. WorkerOK(w)' /\ InCourse(w)' /\ pc'[w] = "backup"
    <3>1. FlagsFollow("backup", local'[w])
      BY <2>1, <2>2 DEF FlagsFollow, Behind, PendingFlags
    <3>2. SnapshotsOK(local'[w])
      BY <1>2, <2>1, AtStep
    <3> QED
      BY <1>1, <1>2, <2>1, <3>1, <3>2, ForwardWorker DEF Forward
  <2>4. Advances(w)
    BY <1>3, <2>1 DEF Advances, PubInv, TypeOK
  <2>5. jobStatus[j] # "succeeded"
    BY <1>2, <1>5 DEF PubInv, DiskOK, PackagesAndEditsKept, PackageKept
  <2>6. Working(w)
    BY <1>2, <2>5, AtStep
  <2>7. Working(w)'
    BY <1>1, <1>3, <2>1, <2>2, <2>3, <2>6
    DEF Working, FlagsOK, Covers, Deserved, Recoverable, Registered, RegisteredAsin, PendingFlags
  <2>8. BackupsOK' /\ RegisteredImagesKept' /\ PackagesAndEditsKept'
    BY <1>3 DEF PubInv, DiskOK, BackupsOK, RegisteredImagesKept, PackagesAndEditsKept,
                PackageKept, EditsKept
  <2> QED
    BY <1>2, <1>3, <2>3, <2>4, <2>5, <2>7, <2>8, AtStep, MovesOK DEF PubInv, HoldersOK, JobsKnown
<1> QED
  BY <1>4, <1>5 DEF Stage

\* backup_existing() keeps the invariant.
LEMMA BackupExistingOK ==
    ASSUME PubInv, TypeOK', NEW w \in Workers, BackupExisting(w)
    PROVE  PubInv'
<1> DEFINE j == task[w]
<1> USE DEF dbVars, recordVars, boundVars, NoFault, Fault
<1>1. pc[w] = "backup" /\ pc[w] \in Forward
  BY DEF BackupExisting, Forward
<1>2. InCourse(w) /\ w \in Threads /\ j \in Jobs /\ ~(w \in Tools)
  BY <1>1, ForwardIsThread, OnlyActive, CapturePublicationAssumption
<1>3. jobStatus[j] # "succeeded" /\ Working(w)
  BY <1>1, <1>2, AtStep, FlagNames DEF Finishing, Rollback
<1>4. local[w].flags = PendingFlags /\ ~local[w].broken
  BY <1>1, ForwardFlags
<1>5. backup[j] \in {"none", "empty"} /\ target \notin {j, "debris"}
  BY <1>3, <1>4 DEF Working, FlagsOK, Covers, PendingFlags
<1>6. UNCHANGED <<origin, staging, package, meta, dbVars, recordVars, edits>>
  BY DEF BackupExisting
<1>7. CASE Fails(w)
  <2>1. /\ \E made \in {backup[j], "empty"} : backup' = [backup EXCEPT ![j] = made]
        /\ target' = target
    BY <1>1, <1>7, <1>2 DEF BackupExisting, Fails, Goto, Done, PubInv, TypeOK
  <2>2. backup'[j] \in {backup[j], "empty"} /\ \A k \in Jobs : k # j => backup'[k] = backup[k]
    BY <1>2, <2>1 DEF PubInv, TypeOK
  <2> QED
    BY <1>1, <1>2, <1>3, <1>6, <1>7, <2>1, <2>2, FailingOK
<1>8. CASE ~Fails(w)
  <2>1. \/ Goto(w, "publish") /\ UNCHANGED <<task, local, target, backup>>
        \/ /\ target # "none"
           /\ backup' = [backup EXCEPT ![j] = target] /\ target' = "none"
           /\ Done(w, "existing_backed_up", "publish")
    BY <1>8 DEF BackupExisting
  <2>2. /\ pc' = [pc EXCEPT ![w] = "publish"] /\ task' = task
        /\ \A v \in Workers : v # w => local'[v] = local[v]
    BY <2>1 DEF Goto, Done, PubInv, TypeOK
  <2>3. \/ local' = local /\ target' = target /\ backup' = backup
        \/ /\ local'[w] = [local[w] EXCEPT !.flags = @ \cup {"existing_backed_up"}]
           /\ target # "none" /\ target' = "none"
           /\ backup' = [backup EXCEPT ![j] = target]
    BY <2>1 DEF Done, PubInv, TypeOK
  <2>4. /\ local'[w].flags \in {PendingFlags, PendingFlags \cup {"existing_backed_up"}}
        /\ ~local'[w].broken
        /\ local'[w].previous = local[w].previous
    BY <1>4, <2>3 DEF PubInv, TypeOK
  <2>5. WorkerOK(w)' /\ InCourse(w)' /\ pc'[w] = "publish"
    <3>1. FlagsFollow("publish", local'[w])
      BY <2>4 DEF FlagsFollow, Behind, PendingFlags
    <3>2. SnapshotsOK(local'[w])
      BY <2>4 DEF SnapshotsOK, PendingFlags
    <3> QED
      BY <1>1, <1>2, <2>2, <3>1, <3>2, ForwardWorker DEF Forward
  <2>6. Advances(w)
    BY <1>2, <1>6, <2>2, <2>3 DEF Advances, PubInv, TypeOK
  <2>7. Working(w)'
    <3>1. CASE local' = local /\ target' = target /\ backup' = backup
      BY <1>3, <1>4, <1>6, <2>2, <2>5, <3>1
      DEF Working, FlagsOK, Covers, Deserved, Recoverable, Registered, RegisteredAsin, PendingFlags
    <3>2. CASE /\ local'[w] = [local[w] EXCEPT !.flags = @ \cup {"existing_backed_up"}]
               /\ target # "none" /\ target' = "none"
               /\ backup' = [backup EXCEPT ![j] = target]
      <4>1. local'[w].flags = PendingFlags \cup {"existing_backed_up"}
        BY <1>4, <3>2 DEF PubInv, TypeOK
      <4>2. backup'[j] = target /\ target # "empty"
        BY <1>2, <3>2, CapturePublicationAssumption DEF PubInv, TypeOK, Contents
      <4>3. "none" # j /\ "debris" # "none"
        BY <1>2, CapturePublicationAssumption
      <4>4. Covers(j, local[w].flags)' /\ Deserved(j, local[w].flags)'
        BY <1>3, <1>6, <2>2, <3>2, <4>1, <4>2, <4>3, <1>4
        DEF Working, FlagsOK, Covers, Deserved, PendingFlags
      <4>5. (unsaved = {} => Recoverable(j, local[w].flags, local[w].previous))'
        BY <1>3, <1>4, <1>6, <2>2, <2>4, <3>2, <4>1, <4>2
        DEF Working, FlagsOK, Recoverable, Registered, RegisteredAsin, PendingFlags
      <4> QED
        BY <1>6, <2>2, <2>5, <4>4, <4>5 DEF Working, FlagsOK
    <3> QED
      BY <2>3, <3>1, <3>2
  <2>8. BackupsOK'
    <3>1. target \in {"none", "original"} \cup {k \in Jobs : jobStatus[k] = "succeeded"}
      <4>1. \A k \in Jobs : k # j => record[k] = NoRecord
        BY <1>2, OnlyActive
      <4> QED
        BY <1>5, <4>1 DEF PubInv, DiskOK, DamageIsRecorded, TypeOK, Contents
    <3> QED
      BY <1>2, <1>6, <2>3, <3>1 DEF PubInv, DiskOK, BackupsOK, TypeOK
  <2>9. RegisteredImagesKept'
    <3>1. \A c \in {origin.images, audit} \cup {k \in Jobs : jobStatus[k] = "succeeded"} : c # "empty"
      BY CapturePublicationAssumption DEF PubInv, DiskOK, OriginOK, TypeOK
    <3>2. CASE target' = target /\ backup' = backup
      BY <1>6, <3>2 DEF PubInv, DiskOK, RegisteredImagesKept
    <3>3. CASE target' = "none" /\ backup' = [backup EXCEPT ![j] = target]
      <4>1. \A k \in Jobs : backup'[k] = backup[k] \/ backup[k] \in {"none", "empty"}
        BY <1>2, <1>5, <3>3 DEF PubInv, TypeOK
      <4>2. backup'[j] = target
        BY <1>2, <3>3 DEF PubInv, TypeOK
      <4> QED
        BY <1>2, <1>6, <3>1, <4>1, <4>2 DEF PubInv, DiskOK, RegisteredImagesKept
    <3> QED
      BY <2>3, <3>2, <3>3
  <2>10. PackagesAndEditsKept'
    BY <1>6 DEF PubInv, DiskOK, PackagesAndEditsKept, PackageKept, EditsKept
  <2> QED
    BY <1>2, <1>3, <1>6, <2>2, <2>3, <2>5, <2>6, <2>7, <2>8, <2>9, <2>10, AtStep, MovesOK
    DEF PubInv, HoldersOK, JobsKnown
<1> QED
  BY <1>7, <1>8

\* publish_target() keeps the invariant.
LEMMA PublishTargetOK ==
    ASSUME PubInv, TypeOK', NEW w \in Workers, PublishTarget(w)
    PROVE  PubInv'
<1> DEFINE j == task[w]
<1> USE DEF dbVars, recordVars, boundVars, NoFault, Fault
<1>1. pc[w] = "publish" /\ pc[w] \in Forward
  BY DEF PublishTarget, Forward
<1>2. InCourse(w) /\ w \in Threads /\ j \in Jobs /\ ~(w \in Tools)
  BY <1>1, ForwardIsThread, OnlyActive, CapturePublicationAssumption
<1>3. jobStatus[j] # "succeeded" /\ Working(w)
  BY <1>1, <1>2, AtStep, FlagNames DEF Finishing, Rollback
<1>4. local[w].flags \ {"existing_backed_up"} = PendingFlags /\ ~local[w].broken
  BY <1>1, ForwardFlags DEF Behind
<1>5. UNCHANGED <<origin, backup, package, meta, dbVars, recordVars, edits>>
  BY DEF PublishTarget
<1>6. CASE Fails(w) /\ UNCHANGED <<target, staging>>
  BY <1>1, <1>2, <1>3, <1>5, <1>6, FailingOK
<1>7. CASE /\ target = "none" /\ target' = j
           /\ staging' = [staging EXCEPT ![j] = FALSE]
           /\ Done(w, "target_published", "update_meta")
  <2>1. /\ pc' = [pc EXCEPT ![w] = "update_meta"] /\ task' = task
        /\ \A v \in Workers : v # w => local'[v] = local[v]
        /\ local'[w] = [local[w] EXCEPT !.flags = @ \cup {"target_published"}]
    BY <1>7 DEF Goto, Done, PubInv, TypeOK
  <2>2. /\ local'[w].flags = local[w].flags \cup {"target_published"}
        /\ ~local'[w].broken
        /\ local'[w].previous = local[w].previous
    BY <1>4, <2>1 DEF PubInv, TypeOK
  <2>3. ~staging'[j] /\ \A k \in Jobs : k # j => staging'[k] = staging[k]
    BY <1>2, <1>7 DEF PubInv, TypeOK
  <2>4. WorkerOK(w)' /\ InCourse(w)' /\ pc'[w] = "update_meta"
    <3>1. FlagsFollow("update_meta", local'[w])
      BY <1>4, <2>2 DEF FlagsFollow, Behind, PendingFlags
    <3>2. SnapshotsOK(local'[w])
      BY <1>4, <2>2 DEF SnapshotsOK, PendingFlags
    <3> QED
      BY <1>1, <1>2, <2>1, <3>1, <3>2, ForwardWorker DEF Forward
  <2>5. Advances(w)
    BY <1>5, <2>1, <2>3 DEF Advances
  <2>6. Working(w)'
    <3>1. Covers(j, local[w].flags)' /\ (j \notin unsaved => Deserved(j, local[w].flags))'
      BY <1>3, <1>4, <1>5, <1>7, <2>1, <2>2, <2>3
      DEF Working, FlagsOK, Covers, Deserved, PendingFlags
    <3>2. (unsaved = {} => Recoverable(j, local[w].flags, local[w].previous))'
      BY <1>3, <1>4, <1>5, <1>7, <2>1, <2>2
      DEF Working, FlagsOK, Recoverable, Registered, RegisteredAsin, PendingFlags
    <3> QED
      BY <1>7, <2>1, <2>3, <2>4, <3>1, <3>2 DEF Working, FlagsOK
  <2>7. BackupsOK' /\ RegisteredImagesKept' /\ PackagesAndEditsKept'
    BY <1>5, <1>7 DEF PubInv, DiskOK, BackupsOK, RegisteredImagesKept, PackagesAndEditsKept,
                      PackageKept, EditsKept
  <2> QED
    BY <1>2, <1>3, <1>5, <1>7, <2>1, <2>4, <2>5, <2>6, <2>7, AtStep, MovesOK
    DEF PubInv, HoldersOK, JobsKnown
<1> QED
  BY <1>6, <1>7 DEF PublishTarget

\* update_meta() keeps the invariant.
LEMMA UpdateMetaOK ==
    ASSUME PubInv, TypeOK', NEW w \in Workers, UpdateMeta(w)
    PROVE  PubInv'
<1> DEFINE j == task[w]
<1> USE DEF dbVars, recordVars, boundVars, NoFault, Fault
<1>1. pc[w] = "update_meta" /\ pc[w] \in Forward
  BY DEF UpdateMeta, Forward
<1>2. InCourse(w) /\ w \in Threads /\ j \in Jobs /\ ~(w \in Tools)
  BY <1>1, ForwardIsThread, OnlyActive, CapturePublicationAssumption
<1>3. jobStatus[j] # "succeeded" /\ Working(w)
  BY <1>1, <1>2, AtStep, FlagNames DEF Finishing, Rollback
<1>4. /\ local[w].flags \ {"existing_backed_up"} = PendingFlags \cup {"target_published"}
      /\ ~local[w].broken
  BY <1>1, ForwardFlags DEF Behind, PendingFlags
<1>5. UNCHANGED <<origin, target, backup, staging, package, dbVars, recordVars, edits>>
  BY DEF UpdateMeta
<1>6. CASE Fails(w) /\ UNCHANGED meta
  BY <1>1, <1>2, <1>3, <1>5, <1>6, FailingOK
<1>7. CASE /\ meta' = Applied
           /\ local' = [local EXCEPT ![w].previous = meta, ![w].applied = Applied,
                                     ![w].flags = @ \cup {"meta_updated"}]
           /\ Goto(w, "archive") /\ UNCHANGED task
  <2> DEFINE own == [local[w] EXCEPT !.previous = meta, !.applied = Applied,
                                     !.flags = @ \cup {"meta_updated"}]
  <2>1. /\ pc' = [pc EXCEPT ![w] = "archive"] /\ task' = task
        /\ \A v \in Workers : v # w => local'[v] = local[v]
        /\ local'[w] = own
    <3>1. local' = [local EXCEPT ![w] = own]
      BY <1>7
    <3>2. local \in [Workers -> Locals]
      BY TypeParts DEF PubInv, TypesOfWorkers
    <3> QED
      BY <1>7, <3>1, <3>2 DEF Goto
  <2>2. local[w] \in Locals
    BY TypeParts DEF PubInv, TypesOfWorkers
  <2>3. /\ local'[w].flags = local[w].flags \cup {"meta_updated"}
        /\ ~local'[w].broken
        /\ local'[w].previous = meta /\ local'[w].applied = Applied
    BY <1>4, <2>1, <2>2 DEF Locals
  <2>4. Applied = AppliedTo(meta)
    BY DEF Applied, AppliedTo
  <2>5. WorkerOK(w)' /\ InCourse(w)' /\ pc'[w] = "archive"
    <3>1. FlagsFollow("archive", local'[w])
      BY <1>4, <2>3 DEF FlagsFollow, Behind, PendingFlags
    <3>2. SnapshotsOK(local'[w])
      BY <2>3, <2>4 DEF SnapshotsOK
    <3> QED
      BY <1>1, <1>2, <2>1, <3>1, <3>2, ForwardWorker DEF Forward
  <2>6. Advances(w)
    BY <1>5, <2>1 DEF Advances
  <2>7. meta'.asin = "this"
    BY <1>7, <2>4 DEF AppliedTo, PubInv, TypeOK, Entries
  <2>8. Working(w)'
    <3>1. Covers(j, local[w].flags)' /\ (j \notin unsaved => Deserved(j, local[w].flags))'
      BY <1>3, <1>5, <2>1, <2>3 DEF Working, FlagsOK, Covers, Deserved
    <3>2. (unsaved = {} => Recoverable(j, local[w].flags, local[w].previous))'
      BY <1>3, <1>4, <1>5, <2>1, <2>3
      DEF Working, FlagsOK, Recoverable, Registered, RegisteredAsin, PendingFlags
    <3> QED
      BY <1>1, <1>3, <1>5, <2>1, <2>5, <2>7, <3>1, <3>2 DEF Working, FlagsOK
  <2>9. BackupsOK' /\ RegisteredImagesKept'
    BY <1>5 DEF PubInv, DiskOK, BackupsOK, RegisteredImagesKept
  <2>10. PackagesAndEditsKept'
    <3>1. edits > 0 => meta' # NoEntry /\ meta'.rev = edits
      BY <1>7, <2>4, <2>7
      DEF AppliedTo, PubInv, DiskOK, PackagesAndEditsKept, EditsKept, TypeOK, Entries, NoEntry
    <3> QED
      BY <1>5, <3>1 DEF PubInv, DiskOK, PackagesAndEditsKept, PackageKept, EditsKept
  <2> QED
    BY <1>2, <1>3, <1>5, <2>1, <2>5, <2>6, <2>8, <2>9, <2>10, AtStep, MovesOK
    DEF PubInv, HoldersOK, JobsKnown
<1> QED
  BY <1>6, <1>7 DEF UpdateMeta

\* archive_package() keeps the invariant.
LEMMA ArchivePackageOK ==
    ASSUME PubInv, TypeOK', NEW w \in Workers, ArchivePackage(w)
    PROVE  PubInv'
<1> DEFINE j == task[w]
<1> USE DEF dbVars, recordVars, boundVars, NoFault, Fault
<1>1. pc[w] = "archive" /\ pc[w] \in Forward
  BY DEF ArchivePackage, Forward
<1>2. InCourse(w) /\ w \in Threads /\ j \in Jobs /\ ~(w \in Tools)
  BY <1>1, ForwardIsThread, OnlyActive, CapturePublicationAssumption
<1>3. jobStatus[j] # "succeeded" /\ Working(w)
  BY <1>1, <1>2, AtStep, FlagNames DEF Finishing, Rollback
<1>4. /\ local[w].flags \ {"existing_backed_up"} = PendingFlags \cup {"target_published", "meta_updated"}
      /\ ~local[w].broken
  BY <1>1, ForwardFlags DEF Behind, PendingFlags
<1>5. UNCHANGED <<origin, target, backup, staging, meta, dbVars, recordVars, edits>>
  BY DEF ArchivePackage
<1>6. CASE Fails(w) /\ UNCHANGED package
  BY <1>1, <1>2, <1>3, <1>5, <1>6, FailingOK
<1>7. CASE /\ package[j] = "ready"
           /\ package' = [package EXCEPT ![j] = "processed"]
           /\ Done(w, "archived", "mark")
  <2>1. /\ pc' = [pc EXCEPT ![w] = "mark"] /\ task' = task
        /\ \A v \in Workers : v # w => local'[v] = local[v]
        /\ local'[w] = [local[w] EXCEPT !.flags = @ \cup {"archived"}]
    BY <1>7 DEF Goto, Done, PubInv, TypeOK
  <2>2. /\ local'[w].flags = local[w].flags \cup {"archived"}
        /\ ~local'[w].broken
        /\ local'[w].previous = local[w].previous /\ local'[w].applied = local[w].applied
    BY <1>4, <2>1 DEF PubInv, TypeOK
  <2>3. package'[j] = "processed" /\ \A k \in Jobs : k # j => package'[k] = package[k]
    BY <1>2, <1>7 DEF PubInv, TypeOK
  <2>4. WorkerOK(w)' /\ InCourse(w)' /\ pc'[w] = "mark"
    <3>1. FlagsFollow("mark", local'[w])
      BY <1>4, <2>2 DEF FlagsFollow, Behind, PendingFlags
    <3>2. SnapshotsOK(local'[w])
      BY <1>2, <2>2, AtStep DEF SnapshotsOK
    <3> QED
      BY <1>1, <1>2, <2>1, <3>1, <3>2, ForwardWorker DEF Forward
  <2>5. Advances(w)
    BY <1>5, <2>1, <2>3 DEF Advances
  <2>6. Working(w)'
    <3>1. Covers(j, local[w].flags)' /\ (j \notin unsaved => Deserved(j, local[w].flags))'
      BY <1>3, <1>5, <2>1, <2>2, <2>3 DEF Working, FlagsOK, Covers, Deserved
    <3>2. (unsaved = {} => Recoverable(j, local[w].flags, local[w].previous))'
      BY <1>3, <1>5, <2>1, <2>2
      DEF Working, FlagsOK, Recoverable, Registered, RegisteredAsin
    <3> QED
      BY <1>1, <1>3, <1>5, <2>1, <2>3, <2>4, <3>1, <3>2 DEF Working, FlagsOK
  <2>7. BackupsOK' /\ RegisteredImagesKept'
    BY <1>5 DEF PubInv, DiskOK, BackupsOK, RegisteredImagesKept
  <2>8. PackagesAndEditsKept'
    BY <1>5, <2>3 DEF PubInv, DiskOK, PackagesAndEditsKept, PackageKept, EditsKept
  <2> QED
    BY <1>2, <1>3, <1>5, <2>1, <2>4, <2>5, <2>6, <2>7, <2>8, AtStep, MovesOK
    DEF PubInv, HoldersOK, JobsKnown
<1> QED
  BY <1>6, <1>7 DEF ArchivePackage

\* mark_succeeded() keeps the invariant: the images in place become the
\* registered ones.
LEMMA MarkSucceededOK ==
    ASSUME PubInv, TypeOK', NEW w \in Workers, MarkSucceeded(w)
    PROVE  PubInv'
<1> DEFINE j == task[w]
<1> USE DEF dbVars, diskVars, recordVars, boundVars, NoFault, Fault
<1>1. pc[w] = "mark" /\ pc[w] \in Forward
  BY DEF MarkSucceeded, Forward
<1>2. InCourse(w) /\ w \in Threads /\ j \in Jobs /\ ~(w \in Tools)
  BY <1>1, ForwardIsThread, OnlyActive, CapturePublicationAssumption
<1>3. jobStatus[j] # "succeeded" /\ Working(w)
  BY <1>1, <1>2, AtStep, FlagNames DEF Finishing, Rollback
<1>4. UNCHANGED <<origin, diskVars, recordVars, edits>>
  BY DEF MarkSucceeded
<1>5. CASE Fails(w) /\ UNCHANGED dbVars
  BY <1>1, <1>2, <1>3, <1>4, <1>5, FailingOK
<1>6. CASE /\ jobStatus[j] = "awaiting_files"
           /\ jobStatus' = [jobStatus EXCEPT ![j] = "succeeded"]
           /\ audit' = j
           /\ Goto(w, "clear") /\ UNCHANGED <<task, local>>
  <2>1. /\ pc' = [pc EXCEPT ![w] = "clear"] /\ task' = task /\ local' = local
        /\ jobStatus'[j] = "succeeded"
        /\ \A k \in Jobs : k # j => jobStatus'[k] = jobStatus[k]
    BY <1>2, <1>6 DEF Goto, PubInv, TypeOK
  <2>2. WorkerOK(w)' /\ InCourse(w)' /\ pc'[w] = "clear"
    <3>1. FlagsFollow("clear", local'[w])
      BY <1>1, <2>1, ForwardFlags DEF FlagsFollow, Behind, Forward, Rollback
    <3>2. SnapshotsOK(local'[w])
      BY <1>2, <2>1, AtStep
    <3> QED
      BY <1>1, <1>2, <2>1, <3>1, <3>2, ForwardWorker DEF Forward
  <2>3. Advances(w)
    BY <1>4, <2>1 DEF Advances, PubInv, TypeOK
  <2>4. target = j /\ ~staging[j] /\ meta.asin = "this" /\ package[j] = "processed"
    BY <1>1, <1>3 DEF Working
  <2>5. Finishing(w)'
    <3>1. NothingUnderWay'
      BY <1>2, <1>4, <1>6, <2>4, CapturePublicationAssumption
      DEF NothingUnderWay, Registered, RegisteredAsin
    <3> QED
      BY <1>4, <2>1, <2>2, <2>4, <3>1 DEF Finishing
  <2>6. BackupsOK'
    BY <1>4, <2>1 DEF PubInv, DiskOK, BackupsOK
  <2>7. RegisteredImagesKept'
    BY <1>4, <1>6, <2>1, <2>4 DEF PubInv, DiskOK, RegisteredImagesKept
  <2>8. PackagesAndEditsKept'
    BY <1>4, <1>6, <2>1, <2>4 DEF PubInv, DiskOK, PackagesAndEditsKept, PackageKept, EditsKept
  <2> QED
    BY <1>2, <1>4, <1>6, <2>1, <2>2, <2>3, <2>5, <2>6, <2>7, <2>8, AtStep, MovesOK
<1> QED
  BY <1>5, <1>6 DEF MarkSucceeded

\* A worker that returns knows nothing any more.
LEMMA ReturningWorker ==
    ASSUME PubInv, NEW w \in Workers, Return(w)
    PROVE  /\ pc'[w] = "idle" /\ task'[w] = "none" /\ ~InCourse(w)' /\ WorkersOK'
           /\ \A v \in Workers : v # w =>
                 pc'[v] = pc[v] /\ task'[v] = task[v] /\ local'[v] = local[v]
<1>1. /\ pc'[w] = "idle" /\ task'[w] = "none" /\ local'[w] = Fresh
      /\ \A v \in Workers : v # w =>
            pc'[v] = pc[v] /\ task'[v] = task[v] /\ local'[v] = local[v]
  BY DEF Return, Goto, PubInv, TypeOK
<1>2. "idle" \notin Forward \cup Rollback
  BY FlagNames DEF Forward, Rollback
<1>3. WorkerOK(w)'
  <2>1. FlagsFollow("idle", Fresh)
    BY <1>2 DEF FlagsFollow, Fresh, PendingFlags
  <2>2. UndoneSoFar("idle", Fresh)
    BY FlagNames DEF UndoneSoFar, Flags
  <2>3. SnapshotsOK(Fresh)
    BY DEF SnapshotsOK, Fresh
  <2> QED
    BY <1>1, <2>1, <2>2, <2>3 DEF WorkerOK, Busy
<1>4. \A v \in Workers : v # w => (WorkerOK(v)' <=> WorkerOK(v))
  BY <1>1 DEF WorkerOK, Busy
<1>5. WorkersOK'
  BY <1>3, <1>4 DEF PubInv, WorkersOK
<1> QED
  BY <1>1, <1>2, <1>5 DEF InCourse

-----------------------------------------------------------------------------
(* Ends of an active worker's work. *)

\* A worker whose rollback ends is not active any more.
LEMMA EndingWorker ==
    ASSUME PubInv, NEW w \in Workers, InCourse(w), EndRollback(w)
    PROVE  /\ ~InCourse(w)' /\ WorkersOK'
           /\ IF w \in Threads THEN task'[w] = "none" ELSE task'[w] = task[w]
           /\ \A v \in Workers : v # w =>
                 pc'[v] = pc[v] /\ task'[v] = task[v] /\ local'[v] = local[v]
<1>1. CASE w \in Threads
  BY <1>1, ReturningWorker DEF EndRollback
<1>2. CASE w \notin Threads
  <2>1. /\ pc'[w] = "unlock" /\ task' = task /\ local' = local
        /\ \A v \in Workers : v # w => pc'[v] = pc[v]
    BY <1>2 DEF EndRollback, Goto, PubInv, TypeOK
  <2>2. WorkerOK(w) /\ Busy(w)
    BY OnlyActive DEF PubInv, WorkersOK
  <2>3. "unlock" \notin Forward \cup Rollback \cup {"idle"} \cup Flags
    BY FlagNames DEF Forward, Rollback
  <2>4. FlagsFollow("unlock", local'[w])
    BY <2>3 DEF FlagsFollow, Rollback
  <2>5. UndoneSoFar("unlock", local'[w])
    BY <2>3 DEF UndoneSoFar, Flags
  <2>6. WorkerOK(w)'
    BY <1>2, <2>1, <2>2, <2>3, <2>4, <2>5 DEF WorkerOK, Busy
  <2>7. \A v \in Workers : v # w => (WorkerOK(v)' <=> WorkerOK(v))
    BY <2>1 DEF WorkerOK, Busy
  <2>8. WorkersOK'
    BY <2>6, <2>7 DEF PubInv, WorkersOK
  <2> QED
    BY <1>2, <2>1, <2>3, <2>8 DEF InCourse
<1> QED
  BY <1>1, <1>2

\* An end keeps the invariant if the record it leaves tells the truth.
LEMMA EndsOK ==
    ASSUME PubInv, TypeOK', NEW w \in Workers, InCourse(w), EndRollback(w),
           NEW j \in Jobs, j = task[w],
           UNCHANGED <<origin, diskVars, dbVars, lock, edits>>,
           \A k \in Jobs : k # j => record'[k] = record[k],
           record'[j].phase = "none" => record'[j] = NoRecord,
           SnapshotsOK(record'[j]),
           unsaved' = {} => unsaved = {},
           record'[j] = NoRecord =>
              /\ NothingUnderWay /\ ~staging[j]
              /\ jobStatus[j] # "succeeded" =>
                    package[j] # "processed" /\ backup[j] = "none" /\ target # j,
           record'[j].phase = "recovery" /\ jobStatus[j] # "succeeded" =>
              FlagsOK(j, record[j])'
    PROVE  PubInv'
<1> USE DEF diskVars, dbVars
<1>1. /\ Busy(w) /\ \A k \in Jobs : k # j => record[k] = NoRecord
      /\ \A v \in Workers : InCourse(v) => v = w
      /\ \A v \in Workers : Busy(v) => task[v] = j
  BY OnlyActive
<1>2. /\ WorkersOK' /\ ~InCourse(w)'
      /\ IF w \in Threads THEN task'[w] = "none" ELSE task'[w] = task[w]
      /\ \A v \in Workers : v # w =>
            pc'[v] = pc[v] /\ task'[v] = task[v] /\ local'[v] = local[v]
  BY EndingWorker
<1>3. \A v \in Workers : ~InCourse(v)' /\ (Busy(v)' => Busy(v) /\ task'[v] = task[v])
  BY <1>1, <1>2 DEF InCourse, Busy
<1>4. \A k \in Jobs : k # j => record'[k] = NoRecord
  BY <1>1
<1>5. LocksHeld'
  BY <1>3 DEF PubInv, HoldersOK, LocksHeld, Workers, Busy
<1>6. RecordsSingle'
  BY <1>1, <1>3, <1>4 DEF RecordsSingle
<1>7. RecordsHeld'
  BY <1>3 DEF RecordsHeld, Workers
<1>8. RecordsWellFormed'
  BY <1>4 DEF RecordsWellFormed, PubInv, HoldersOK, SnapshotsOK, NoRecord
<1>9. JobsKnown'
  <2>1. jobStatus[j] # "absent"
    BY AtStep
  <2> QED
    BY <1>3, <1>4, <2>1 DEF PubInv, HoldersOK, JobsKnown, Workers
<1>10. ActiveOK'
  BY <1>3 DEF ActiveOK
<1>11. WaitingOK'
  BY <1>4 DEF WaitingOK, Waiting, NoRecord
<1>12. CleanOK'
  <2> SUFFICES ASSUME record'[j] = NoRecord PROVE NothingUnderWay'
    BY DEF CleanOK
  <2> QED
    BY DEF NothingUnderWay, Registered, RegisteredAsin
<1>13. BackupsOK' /\ OriginOK' /\ PackagesAndEditsKept'
  BY DEF PubInv, DiskOK, BackupsOK, OriginOK, PackagesAndEditsKept, PackageKept, EditsKept
<1>14. RegisteredImagesKept'
  BY DEF PubInv, DiskOK, RegisteredImagesKept
<1>15. DamageIsRecorded'
  BY <1>1, <1>4 DEF PubInv, DiskOK, DamageIsRecorded
<1> QED
  BY <1>2, <1>5, <1>6, <1>7, <1>8, <1>9, <1>10, <1>11, <1>12, <1>13, <1>14, <1>15
  DEF PubInv, HoldersOK, DiskOK

\* A success ends.
LEMMA ClearOK ==
    ASSUME PubInv, TypeOK', NEW w \in Workers, Clear(w)
    PROVE  PubInv'
<1> DEFINE j == task[w]
<1>1. pc[w] = "clear" /\ pc[w] \in Forward
  BY DEF Clear, Forward
<1>2. InCourse(w) /\ w \in Threads /\ j \in Jobs
  BY <1>1, ForwardIsThread, OnlyActive
<1>3. jobStatus[j] = "succeeded" /\ NothingUnderWay /\ ~staging[j]
  BY <1>1, <1>2, AtStep DEF Working, Finishing
<1>4. EndRollback(w)
  BY <1>2 DEF Clear, EndRollback
<1>5. UNCHANGED <<origin, diskVars, dbVars, lock, unsaved, edits>>
  BY DEF Clear, Fault, NoFault, boundVars
<1>6. /\ record'[j] \in {NoRecord, record[j]}
      /\ \A k \in Jobs : k # j => record'[k] = record[k]
  BY <1>2 DEF Clear, PubInv, TypeOK
<1>7. /\ record'[j].phase = "none" => record'[j] = NoRecord
      /\ SnapshotsOK(record'[j])
  <2>1. NoRecord.flags = {} /\ NoRecord.phase = "none"
    BY DEF NoRecord
  <2>2. SnapshotsOK(NoRecord)
    BY <2>1 DEF SnapshotsOK
  <2> QED
    BY <1>2, <1>6, <2>1, <2>2, AtStep
<1> QED
  BY <1>2, <1>3, <1>4, <1>5, <1>6, <1>7, EndsOK

-----------------------------------------------------------------------------
(* Steps of a rollback. *)

\* A rollback goes on with its first flag that is left.
LEMMA RollbackWorker ==
    ASSUME PubInv, TypeOK', NEW w \in Workers, pc[w] \in Rollback, NEW i \in 1..7,
           pc' = [pc EXCEPT ![w] = NextUndo(i, local'[w].flags)], task' = task,
           SnapshotsOK(local'[w]),
           ~local'[w].broken => \A k \in 1..(i - 1) : UndoOrder[k] \notin local'[w].flags
    PROVE  WorkerOK(w)' /\ InCourse(w)' /\ pc'[w] \in {"settle"} \cup Flags
<1> DEFINE step == NextUndo(i, local'[w].flags)
<1>1. pc'[w] = step
  BY DEF PubInv, TypeOK
<1>2. local'[w].flags \in SUBSET Flags
  BY DEF TypeOK
<1>3. WorkerOK(w) /\ Busy(w)
  <2>1. pc[w] # "idle"
    BY FlagNames DEF Rollback
  <2> QED
    BY <2>1 DEF PubInv, WorkersOK, WorkerOK
<1>4. \/ step = "settle" /\ \A k \in i..6 : UndoOrder[k] \notin local'[w].flags
      \/ \E k \in i..6 :
            /\ step = UndoOrder[k] /\ UndoOrder[k] \in local'[w].flags
            /\ \A m \in i..(k - 1) : UndoOrder[m] \notin local'[w].flags
  BY <1>2, NextUndoIs
<1> HIDE DEF step
<1>5. step \in {"settle"} \cup Flags
  BY <1>4 DEF Flags
<1>6. UndoneSoFar(step, local'[w])
  <2>1. CASE step = "settle" /\ \A k \in i..6 : UndoOrder[k] \notin local'[w].flags
    <3>1. \A k \in 1..6 : UndoOrder[k] # "settle"
      BY FlagNames DEF Flags
    <3>2. ~local'[w].broken => local'[w].flags = {}
      <4> SUFFICES ASSUME ~local'[w].broken, NEW f \in local'[w].flags PROVE FALSE
        OBVIOUS
      <4>1. PICK k \in 1..6 : f = UndoOrder[k]
        BY <1>2 DEF Flags
      <4>2. k \in 1..(i - 1) \/ k \in i..6
        OBVIOUS
      <4> QED
        BY <2>1, <4>1, <4>2
    <3> QED
      BY <2>1, <3>1, <3>2 DEF UndoneSoFar
  <2>2. ASSUME NEW k \in i..6, step = UndoOrder[k], UndoOrder[k] \in local'[w].flags,
               \A m \in i..(k - 1) : UndoOrder[m] \notin local'[w].flags
        PROVE  UndoneSoFar(step, local'[w])
    <3>1. k \in 1..6 /\ step # "settle"
      BY <2>2, FlagNames DEF Flags
    <3>2. \A m \in 1..6 : UndoOrder[m] = UndoOrder[k] => m = k
      BY <3>1, FlagNames
    <3>3. ~local'[w].broken => \A m \in 1..(k - 1) : UndoOrder[m] \notin local'[w].flags
      <4> SUFFICES ASSUME ~local'[w].broken, NEW m \in 1..(k - 1)
                   PROVE  UndoOrder[m] \notin local'[w].flags
        OBVIOUS
      <4>1. m \in 1..(i - 1) \/ m \in i..(k - 1)
        OBVIOUS
      <4> QED
        BY <2>2, <4>1
    <3> QED
      BY <2>2, <3>1, <3>2, <3>3 DEF UndoneSoFar
  <2> QED
    BY <1>4, <2>1, <2>2
<1>7. /\ step \in Rollback
      /\ step \notin Forward \cup {"idle", "load", "construct", "begin", "read", "stage", "backup",
                                   "unlock", "resuming"}
  BY <1>5, FlagNames DEF Rollback, Forward
<1>8. FlagsFollow(step, local'[w])
  BY <1>7 DEF FlagsFollow
<1> QED
  BY <1>1, <1>3, <1>5, <1>6, <1>7, <1>8 DEF WorkerOK, Busy, InCourse

\* The start of a rollback keeps the invariant.
LEMMA ResumingOK ==
    ASSUME PubInv, TypeOK', NEW w \in Workers, Resuming(w)
    PROVE  PubInv'
<1> DEFINE j == task[w]
<1> USE DEF dbVars, diskVars, boundVars, NoFault, Fault
<1>1. pc[w] = "resuming" /\ pc[w] \in Rollback /\ InCourse(w)
  BY DEF Resuming, Rollback, InCourse
<1>2. j \in Jobs
  BY <1>1, OnlyActive
<1>3. UNCHANGED <<origin, diskVars, dbVars, lock, unsaved, task, edits>>
  BY DEF Resuming
<1>4. /\ \A v \in Workers : v # w => local'[v] = local[v]
      /\ local'[w].flags = local[w].flags /\ local'[w].previous = local[w].previous
      /\ local'[w].applied = local[w].applied
  BY DEF Resuming, PubInv, TypeOK
<1>5. /\ record'[j] = record[j] \/ record'[j] = RecordOf(w, "resuming")
      /\ \A k \in Jobs : k # j => record'[k] = record[k]
  BY <1>2 DEF Resuming, SaveRecord, PubInv, TypeOK
<1>6. /\ pc' = [pc EXCEPT ![w] = NextUndo(1, local'[w].flags)]
      /\ \A v \in Workers : v # w => pc'[v] = pc[v]
  BY <1>4 DEF Resuming, Goto, PubInv, TypeOK
<1>7. SnapshotsOK(local'[w])
  BY <1>1, <1>4, AtStep DEF SnapshotsOK
<1>8. WorkerOK(w)' /\ InCourse(w)' /\ pc'[w] \in {"settle"} \cup Flags
  <2>1. 1 \in 1..7 /\ \A k \in 1..(1 - 1) : UndoOrder[k] \notin local'[w].flags
    OBVIOUS
  <2> QED
    BY <1>1, <1>3, <1>6, <1>7, <2>1, RollbackWorker
<1>9. Advances(w)
  BY <1>3, <1>4, <1>5, <1>6 DEF Advances
<1>10. /\ record'[j].phase # "none" /\ SnapshotsOK(record'[j])
       /\ w \in Threads => record'[j].phase # "recovery"
       /\ record'[j].phase = "recovery" => local'[w].flags \subseteq record'[j].flags
  <2>1. CASE record'[j] = record[j]
    BY <1>1, <1>4, <2>1, AtStep
  <2>2. CASE record'[j] = RecordOf(w, "resuming")
    <3>1. /\ record'[j].phase = "resuming" /\ record'[j].flags = local[w].flags
          /\ record'[j].previous = local[w].previous /\ record'[j].applied = local[w].applied
      BY <2>2 DEF RecordOf
    <3> QED
      BY <1>1, <3>1, AtStep DEF SnapshotsOK
  <2> QED
    BY <1>5, <2>1, <2>2
<1>11. pc'[w] \notin Forward /\ pc'[w] \in Rollback
  BY <1>8, FlagNames DEF Forward, Rollback
<1>12. IF jobStatus'[j] = "succeeded" THEN Finishing(w)' ELSE Working(w)'
  BY <1>1, <1>3, <1>4, <1>11, AtStep
  DEF Finishing, NothingUnderWay, Working, FlagsOK, Covers, Deserved, Recoverable, Registered,
      RegisteredAsin, Forward
<1>13. BackupsOK' /\ RegisteredImagesKept' /\ PackagesAndEditsKept'
  BY <1>3 DEF PubInv, DiskOK, BackupsOK, RegisteredImagesKept, PackagesAndEditsKept,
              PackageKept, EditsKept
<1> QED
  BY <1>1, <1>2, <1>3, <1>8, <1>9, <1>10, <1>12, <1>13, AtStep, MovesOK
  DEF PubInv, HoldersOK, JobsKnown

\* So does its end, with or without a record.
LEMMA SettleOK ==
    ASSUME PubInv, TypeOK', NEW w \in Workers, Settle(w)
    PROVE  PubInv'
<1> DEFINE j == task[w]
<1> USE DEF dbVars, diskVars, boundVars, NoFault, Fault
<1>1. pc[w] = "settle" /\ InCourse(w)
  BY DEF Settle, Rollback, InCourse
<1>2. j \in Jobs
  BY <1>1, OnlyActive
<1>3. UNCHANGED <<origin, diskVars, dbVars, lock, unsaved, edits>>
  BY DEF Settle
<1>4. CASE /\ ~local[w].broken
           /\ record' = [record EXCEPT ![j] = NoRecord]
           /\ EndRollback(w)
  <2>1. record'[j] = NoRecord /\ \A k \in Jobs : k # j => record'[k] = record[k]
    BY <1>2, <1>4 DEF PubInv, TypeOK
  <2>2. local[w].flags = {}
    BY <1>1, <1>4, AtStep DEF WorkerOK, UndoneSoFar
  <2>3. /\ NothingUnderWay /\ ~staging[j]
        /\ jobStatus[j] # "succeeded" =>
              package[j] # "processed" /\ backup[j] = "none" /\ target # j
    BY <1>1, <2>2, AtStep
    DEF Working, FlagsOK, Covers, Deserved, Recoverable, NothingUnderWay, Finishing
  <2>4. record'[j].phase = "none" /\ SnapshotsOK(record'[j])
    BY <2>1 DEF NoRecord, SnapshotsOK
  <2> QED
    BY <1>1, <1>2, <1>3, <1>4, <2>1, <2>3, <2>4, EndsOK
<1>5. CASE Goto(w, "raise") /\ UNCHANGED <<record, task, local>>
  <2>1. /\ pc'[w] = "raise" /\ task' = task /\ local' = local /\ record' = record
        /\ \A v \in Workers : v # w => pc'[v] = pc[v]
    BY <1>5 DEF Goto, PubInv, TypeOK
  <2>2. "raise" \in Rollback /\ "raise" \notin Forward \cup Flags
    BY FlagNames DEF Rollback, Forward
  <2>3. WorkerOK(w)' /\ InCourse(w)'
    <3>1. FlagsFollow("raise", local[w])
      BY <2>2 DEF FlagsFollow, Forward
    <3>2. UndoneSoFar("raise", local[w])
      BY <2>2 DEF UndoneSoFar, Flags
    <3>3. WorkerOK(w)
      BY <1>1, AtStep
    <3> QED
      BY <1>1, <2>1, <2>2, <3>1, <3>2, <3>3 DEF WorkerOK, Busy, InCourse
  <2>4. Advances(w)
    BY <1>3, <2>1 DEF Advances
  <2>5. IF jobStatus'[j] = "succeeded" THEN Finishing(w)' ELSE Working(w)'
    BY <1>1, <1>3, <2>1, <2>2, AtStep
    DEF Finishing, NothingUnderWay, Working, FlagsOK, Covers, Deserved, Recoverable, Registered,
        RegisteredAsin, Forward
  <2>6. BackupsOK' /\ RegisteredImagesKept' /\ PackagesAndEditsKept'
    BY <1>3 DEF PubInv, DiskOK, BackupsOK, RegisteredImagesKept, PackagesAndEditsKept,
                PackageKept, EditsKept
  <2> QED
    BY <1>1, <1>2, <1>3, <2>1, <2>3, <2>4, <2>5, <2>6, AtStep, MovesOK
    DEF PubInv, HoldersOK, JobsKnown
<1> QED
  BY <1>4, <1>5 DEF Settle

\* The record a rollback leaves tells the truth, unless it could not be saved.
LEMMA RaiseOK ==
    ASSUME PubInv, TypeOK', NEW w \in Workers, Raise(w)
    PROVE  PubInv'
<1> DEFINE job == task[w]
<1> USE DEF dbVars, diskVars, boundVars, NoFault, Fault
<1>1. pc[w] = "raise" /\ pc[w] \in Rollback /\ InCourse(w)
  BY DEF Raise, Rollback, InCourse
<1>2. PICK j \in Jobs : j = task[w]
  BY <1>1, OnlyActive
<1>3. /\ UNCHANGED <<origin, diskVars, dbVars, lock, edits>>
      /\ EndRollback(w)
  BY DEF Raise
<1>4. jobStatus[j] # "succeeded" => FlagsOK(j, local[w])
  BY <1>1, <1>2, AtStep DEF Working
<1>5. CASE SaveRecord(w, "recovery") /\ UNCHANGED unsaved
  <2>1. /\ record'[j] = RecordOf(w, "recovery")
        /\ \A k \in Jobs : k # j => record'[k] = record[k]
    BY <1>2, <1>5 DEF SaveRecord, PubInv, TypeOK
  <2>2. /\ record'[j].phase = "recovery" /\ record'[j].flags = local[w].flags
        /\ record'[j].previous = local[w].previous /\ record'[j].applied = local[w].applied
    BY <2>1 DEF RecordOf
  <2>3. SnapshotsOK(record'[j]) /\ record'[j] # NoRecord
    BY <1>1, <2>2, AtStep DEF SnapshotsOK, NoRecord
  <2>4. jobStatus[j] # "succeeded" => FlagsOK(j, record[j])'
    BY <1>3, <1>4, <1>5, <2>2
    DEF FlagsOK, Covers, Deserved, Recoverable, Registered, RegisteredAsin
  <2> QED
    BY <1>1, <1>2, <1>3, <1>5, <2>1, <2>2, <2>3, <2>4, EndsOK
<1>6. CASE /\ unsaved' = unsaved \cup (IF record[job].phase = "recovery" THEN {job} ELSE {})
           /\ UNCHANGED record
  <2>1. /\ record[j].phase # "none" /\ SnapshotsOK(record[j]) /\ record[j] # NoRecord
        /\ record[j].phase = "recovery" => local[w].flags \subseteq record[j].flags
    BY <1>1, <1>2, AtStep, OnlyActive
  <2>2. record[j].phase = "recovery" /\ jobStatus[j] # "succeeded" => FlagsOK(j, record[j])'
    <3> SUFFICES ASSUME record[j].phase = "recovery", jobStatus[j] # "succeeded"
                 PROVE  FlagsOK(j, record[j])'
      OBVIOUS
    <3>1. j \in unsaved'
      BY <1>2, <1>6
    <3>2. Covers(j, record[j].flags)'
      BY <1>3, <1>4, <1>6, <2>1 DEF FlagsOK, Covers
    <3> QED
      BY <3>1, <3>2 DEF FlagsOK
  <2>3. unsaved' = {} => unsaved = {}
    BY <1>6
  <2> QED
    BY <1>1, <1>2, <1>3, <1>6, <2>1, <2>2, <2>3, EndsOK
<1> QED
  BY <1>5, <1>6 DEF Raise

\* One compensation step changes what belongs to its flag.
LEMMA UndoWorking ==
    ASSUME PubInv, NEW w \in Workers, InCourse(w), NEW j \in Jobs, j = task[w],
           jobStatus[j] # "succeeded", NEW flag \in local[w].flags,
           CanUndo(w, flag), Undone(w, flag),
           UNCHANGED <<origin, dbVars, unsaved, edits>>,
           local'[w].flags = local[w].flags \ {flag}, local'[w].previous = local[w].previous
    PROVE  /\ Covers(j, local[w].flags)'
           /\ j \notin unsaved => Deserved(j, local[w].flags)'
           /\ unsaved = {} => Recoverable(j, local[w].flags, local[w].previous)'
           /\ BackupsOK' /\ RegisteredImagesKept' /\ PackagesAndEditsKept'
           /\ target' \in {target, "none", "debris", j, backup[j]}
           /\ \A k \in Jobs : k # j =>
                staging'[k] = staging[k] /\ package'[k] = package[k] /\ backup'[k] = backup[k]
<1> USE DEF dbVars
<1>1. /\ Covers(j, local[w].flags)
      /\ j \notin unsaved => Deserved(j, local[w].flags)
      /\ unsaved = {} => Recoverable(j, local[w].flags, local[w].previous)
  BY AtStep DEF Working, FlagsOK
<1>2. flag \in Flags
  BY AtStep
<1>3. j \notin {"none", "empty", "debris", "original"}
  BY CapturePublicationAssumption
<1>4. BackupsOK /\ RegisteredImagesKept /\ PackagesAndEditsKept
  BY DEF PubInv, DiskOK
<1>5. /\ \A c \in {origin.images, audit} \cup {k \in Jobs : jobStatus[k] = "succeeded"} :
           c \notin {j, "debris", "empty"}
  BY <1>3, CapturePublicationAssumption
  DEF PubInv, DiskOK, OriginOK, TypeOK, HoldersOK, JobsKnown
<1> USE DEF Registered, RegisteredAsin
<1>6. CASE flag = "meta_updated"
  <2>1. /\ meta' = local[w].previous /\ UNCHANGED <<target, backup, staging, package>>
        /\ meta \in {local[w].applied, local[w].previous}
    BY <1>6 DEF Undone, CanUndo
  <2>2. edits > 0 => meta' # NoEntry /\ meta'.rev = edits
    <3>1. local[w].applied = AppliedTo(local[w].previous)
      BY <1>6, AtStep DEF SnapshotsOK
    <3>2. edits > 0 => meta # NoEntry /\ meta.rev = edits
      BY <1>4 DEF PackagesAndEditsKept, EditsKept
    <3>3. local[w].previous \in Entries
      BY DEF PubInv, TypeOK
    <3> QED
      BY <2>1, <3>1, <3>2, <3>3 DEF AppliedTo, Entries, NoEntry
  <2>3. Recoverable(j, local[w].flags, local[w].previous) =>
           Recoverable(j, local[w].flags, local[w].previous)'
    BY <1>6, <2>1 DEF Recoverable
  <2> QED
    BY <1>1, <1>4, <1>6, <2>1, <2>2, <2>3
    DEF Covers, Deserved, BackupsOK, RegisteredImagesKept, PackagesAndEditsKept, PackageKept, EditsKept
<1>7. CASE flag = "archived"
  <2>1. /\ package' = [package EXCEPT ![j] = "ready"] /\ UNCHANGED <<target, backup, staging, meta>>
    BY <1>7 DEF Undone
  <2>2. package'[j] = "ready" /\ \A k \in Jobs : k # j => package'[k] = package[k]
    BY <2>1 DEF PubInv, TypeOK
  <2>3. Recoverable(j, local[w].flags, local[w].previous) =>
           Recoverable(j, local[w].flags, local[w].previous)'
    BY <1>7, <2>1 DEF Recoverable
  <2> QED
    BY <1>1, <1>4, <1>7, <2>1, <2>2, <2>3
    DEF Covers, Deserved, BackupsOK, RegisteredImagesKept, PackagesAndEditsKept, PackageKept, EditsKept
<1>8. CASE flag = "staging_pending"
  <2>1. /\ staging' = [staging EXCEPT ![j] = FALSE] /\ UNCHANGED <<target, backup, package, meta>>
    BY <1>8 DEF Undone
  <2>2. ~staging'[j] /\ \A k \in Jobs : k # j => staging'[k] = staging[k]
    BY <2>1 DEF PubInv, TypeOK
  <2>3. Recoverable(j, local[w].flags, local[w].previous) =>
           Recoverable(j, local[w].flags, local[w].previous)'
    BY <1>8, <2>1 DEF Recoverable
  <2> QED
    BY <1>1, <1>4, <1>8, <2>1, <2>2, <2>3
    DEF Covers, Deserved, BackupsOK, RegisteredImagesKept, PackagesAndEditsKept, PackageKept, EditsKept
<1>9. CASE flag = "target_published"
  <2>1. target' = "none" /\ UNCHANGED <<backup, staging, package, meta>>
    BY <1>9 DEF Undone
  <2>2. unsaved = {} => target \in {j, "debris"}
    BY <1>1, <1>9 DEF Deserved
  <2>3. RegisteredImagesKept'
    BY <1>4, <1>5, <2>1, <2>2 DEF RegisteredImagesKept
  <2>4. Recoverable(j, local[w].flags, local[w].previous) =>
           Recoverable(j, local[w].flags, local[w].previous)'
    BY <1>9, <2>1 DEF Recoverable
  <2> QED
    BY <1>1, <1>3, <1>4, <1>9, <2>1, <2>3, <2>4
    DEF Covers, Deserved, BackupsOK, PackagesAndEditsKept, PackageKept, EditsKept
<1>10. CASE flag = "existing_backed_up"
  <2>1. /\ target' = backup[j] /\ backup' = [backup EXCEPT ![j] = "empty"]
        /\ UNCHANGED <<staging, package, meta>>
        /\ target = "none" /\ backup[j] \notin {"none", "empty"}
        /\ "target_published" \notin local[w].flags
    BY <1>10 DEF Undone, CanUndo
  <2>2. backup'[j] = "empty" /\ \A k \in Jobs : k # j => backup'[k] = backup[k]
    BY <2>1 DEF PubInv, TypeOK
  <2>3. target' \notin {j, "debris"}
    BY <1>3, <1>4, <2>1, CapturePublicationAssumption DEF BackupsOK
  <2>4. RegisteredImagesKept'
    BY <1>4, <1>5, <2>1, <2>2 DEF RegisteredImagesKept
  <2>5. Recoverable(j, local[w].flags, local[w].previous) =>
           Recoverable(j, local[w].flags, local[w].previous)'
    BY <1>10, <2>1 DEF Recoverable
  <2>6. BackupsOK'
    BY <1>4, <2>2 DEF BackupsOK
  <2> QED
    BY <1>1, <1>4, <1>10, <2>1, <2>2, <2>3, <2>4, <2>5, <2>6
    DEF Covers, Deserved, PackagesAndEditsKept, PackageKept, EditsKept
<1>11. CASE flag = "generation_pending"
  <2>1. /\ backup' = [backup EXCEPT ![j] = "none"] /\ UNCHANGED <<target, staging, package, meta>>
        /\ "existing_backed_up" \notin local[w].flags /\ backup[j] \in {"none", "empty"}
    BY <1>11 DEF Undone, CanUndo
  <2>2. backup'[j] = "none" /\ \A k \in Jobs : k # j => backup'[k] = backup[k]
    BY <2>1 DEF PubInv, TypeOK
  <2>3. RegisteredImagesKept'
    BY <1>4, <1>5, <2>1, <2>2 DEF RegisteredImagesKept
  <2>4. Recoverable(j, local[w].flags, local[w].previous) =>
           Recoverable(j, local[w].flags, local[w].previous)'
    BY <1>11, <2>1 DEF Recoverable
  <2>5. BackupsOK'
    BY <1>4, <2>2 DEF BackupsOK
  <2> QED
    BY <1>1, <1>4, <1>11, <2>1, <2>2, <2>3, <2>4, <2>5
    DEF Covers, Deserved, PackagesAndEditsKept, PackageKept, EditsKept
<1> QED
  BY <1>2, <1>6, <1>7, <1>8, <1>9, <1>10, <1>11, FlagNames

\* For a job that has succeeded only empty directories are left to remove.
LEMMA UndoFinishing ==
    ASSUME PubInv, NEW w \in Workers, InCourse(w), NEW j \in Jobs, j = task[w],
           Finishing(w), NEW flag \in local[w].flags \cap PendingFlags,
           CanUndo(w, flag), Undone(w, flag),
           UNCHANGED <<origin, dbVars, unsaved, edits>>,
           local'[w].flags = local[w].flags \ {flag}
    PROVE  /\ NothingUnderWay'
           /\ staging'[j] => staging[j] /\ flag # "staging_pending"
           /\ BackupsOK' /\ RegisteredImagesKept' /\ PackagesAndEditsKept'
           /\ target' = target
           /\ \A k \in Jobs : k # j =>
                staging'[k] = staging[k] /\ package'[k] = package[k] /\ backup'[k] = backup[k]
<1> USE DEF dbVars
<1>1. BackupsOK /\ RegisteredImagesKept /\ PackagesAndEditsKept
  BY DEF PubInv, DiskOK
<1>2. \A c \in {origin.images, audit} \cup {k \in Jobs : jobStatus[k] = "succeeded"} : c # "empty"
  BY CapturePublicationAssumption DEF PubInv, DiskOK, OriginOK, TypeOK
<1>3. UNCHANGED <<target, meta, package>>
  BY DEF PendingFlags, Undone
<1>4. NothingUnderWay'
  BY <1>3 DEF Finishing, NothingUnderWay, Registered, RegisteredAsin
<1>5. CASE flag = "staging_pending"
  <2>1. staging' = [staging EXCEPT ![j] = FALSE] /\ backup' = backup
    BY <1>5 DEF Undone
  <2>2. ~staging'[j] /\ \A k \in Jobs : k # j => staging'[k] = staging[k]
    BY <2>1 DEF PubInv, TypeOK
  <2> QED
    BY <1>1, <1>3, <1>4, <2>1, <2>2
    DEF BackupsOK, RegisteredImagesKept, PackagesAndEditsKept, PackageKept, EditsKept
<1>6. CASE flag = "generation_pending"
  <2>1. /\ backup' = [backup EXCEPT ![j] = "none"] /\ staging' = staging
        /\ backup[j] \in {"none", "empty"}
    BY <1>6 DEF Undone, CanUndo
  <2>2. backup'[j] = "none" /\ \A k \in Jobs : k # j => backup'[k] = backup[k]
    BY <2>1 DEF PubInv, TypeOK
  <2>3. RegisteredImagesKept'
    BY <1>1, <1>2, <1>3, <2>1, <2>2 DEF RegisteredImagesKept
  <2>4. BackupsOK'
    BY <1>1, <2>2 DEF BackupsOK
  <2> QED
    BY <1>1, <1>3, <1>4, <1>6, <2>1, <2>2, <2>3, <2>4
    DEF PackagesAndEditsKept, PackageKept, EditsKept
<1> QED
  BY <1>5, <1>6 DEF PendingFlags

\* A step that raises leaves its flag and at most a half-deleted target.
LEMMA UndoFailing ==
    ASSUME PubInv, NEW w \in Workers, InCourse(w), NEW j \in Jobs, j = task[w],
           jobStatus[j] # "succeeded", NEW flag \in local[w].flags,
           HalfUndone(flag),
           UNCHANGED <<origin, dbVars, unsaved, edits>>,
           local'[w].flags = local[w].flags, local'[w].previous = local[w].previous
    PROVE  /\ Covers(j, local[w].flags)'
           /\ j \notin unsaved => Deserved(j, local[w].flags)'
           /\ unsaved = {} => Recoverable(j, local[w].flags, local[w].previous)'
           /\ BackupsOK' /\ RegisteredImagesKept' /\ PackagesAndEditsKept'
           /\ target' \in {target, "none", "debris", j, backup[j]}
<1> USE DEF dbVars
<1>1. /\ Covers(j, local[w].flags)
      /\ j \notin unsaved => Deserved(j, local[w].flags)
      /\ unsaved = {} => Recoverable(j, local[w].flags, local[w].previous)
  BY AtStep DEF Working, FlagsOK
<1>2. BackupsOK /\ RegisteredImagesKept /\ PackagesAndEditsKept
  BY DEF PubInv, DiskOK
<1>3. UNCHANGED <<backup, staging, package, meta>>
  BY DEF HalfUndone
<1>4. CASE target' = target
  <2>1. Recoverable(j, local[w].flags, local[w].previous) =>
           Recoverable(j, local[w].flags, local[w].previous)'
    BY <1>3, <1>4 DEF Recoverable, Registered, RegisteredAsin
  <2> QED
    BY <1>1, <1>2, <1>3, <1>4, <2>1
    DEF Covers, Deserved, BackupsOK, RegisteredImagesKept, PackagesAndEditsKept, PackageKept, EditsKept
<1>5. CASE flag = "target_published" /\ target' = "debris"
  <2>1. \A c \in {origin.images, audit} \cup {k \in Jobs : jobStatus[k] = "succeeded"} :
           c \notin {j, "debris"}
    BY CapturePublicationAssumption
    DEF PubInv, DiskOK, OriginOK, TypeOK, HoldersOK, JobsKnown
  <2>2. unsaved = {} => target \in {j, "debris"}
    BY <1>1, <1>5 DEF Deserved
  <2>3. RegisteredImagesKept'
    BY <1>2, <1>3, <2>1, <2>2 DEF RegisteredImagesKept
  <2>4. Recoverable(j, local[w].flags, local[w].previous) =>
           Recoverable(j, local[w].flags, local[w].previous)'
    BY <1>3, <1>5 DEF Recoverable, Registered, RegisteredAsin
  <2> QED
    BY <1>1, <1>2, <1>3, <1>5, <2>3, <2>4
    DEF Covers, Deserved, BackupsOK, PackagesAndEditsKept, PackageKept, EditsKept
<1> QED
  BY <1>4, <1>5 DEF HalfUndone

\* A compensation step keeps the invariant.
LEMMA UndoOK ==
    ASSUME PubInv, TypeOK', NEW w \in Workers, NEW i \in 1..6, Undo(w, i)
    PROVE  PubInv'
<1> DEFINE flag == UndoOrder[i]
           rest == local[w].flags \ {flag}
<1> USE DEF dbVars, boundVars, NoFault, Fault
<1>1. flag \in Flags /\ pc[w] = flag /\ pc[w] \in Rollback /\ InCourse(w)
  BY DEF Undo, Rollback, InCourse, Flags
<1>2. PICK j \in Jobs : j = task[w]
  BY <1>1, OnlyActive
<1>3. UNCHANGED <<origin, dbVars, recordVars, task, unsaved, edits>>
  BY DEF Undo, recordVars
<1>4. /\ flag \in local[w].flags
      /\ ~local[w].broken => \A k \in 1..(i - 1) : UndoOrder[k] \notin local[w].flags
  BY <1>1, AtStep DEF WorkerOK, UndoneSoFar
<1>5. \/ /\ CanUndo(w, flag) /\ Undone(w, flag)
         /\ local' = [local EXCEPT ![w].flags = rest]
      \/ HalfUndone(flag) /\ local' = [local EXCEPT ![w].broken = TRUE]
  BY DEF Undo
<1>6. /\ \A v \in Workers : v # w => local'[v] = local[v]
      /\ local'[w].previous = local[w].previous /\ local'[w].applied = local[w].applied
      /\ local'[w].flags \subseteq local[w].flags
  BY <1>5 DEF PubInv, TypeOK
<1>7. pc' = [pc EXCEPT ![w] = NextUndo(i + 1, rest)]
  BY DEF Undo, Goto
<1>8. /\ WorkerOK(w)' /\ InCourse(w)' /\ pc'[w] \in {"settle"} \cup Flags
      /\ \A v \in Workers : v # w => pc'[v] = pc[v]
  <2>1. NextUndo(i + 1, rest) = NextUndo(i + 1, local'[w].flags)
    <3>1. \A k \in (i + 1)..6 : UndoOrder[k] \in rest <=> UndoOrder[k] \in local[w].flags
      BY FlagNames
    <3>2. CASE local' = [local EXCEPT ![w].flags = rest]
      BY <3>2 DEF PubInv, TypeOK
    <3>3. CASE local' = [local EXCEPT ![w].broken = TRUE]
      <4>1. local'[w].flags = local[w].flags
        BY <3>3 DEF PubInv, TypeOK
      <4>2. {k \in (i + 1)..6 : UndoOrder[k] \in rest} =
               {k \in (i + 1)..6 : UndoOrder[k] \in local'[w].flags}
        BY <3>1, <4>1
      <4> QED
        BY <4>2 DEF NextUndo
    <3> QED
      BY <1>5, <3>2, <3>3
  <2>2. SnapshotsOK(local'[w])
    BY <1>1, <1>6, AtStep DEF SnapshotsOK
  <2>3. ~local'[w].broken => \A k \in 1..((i + 1) - 1) : UndoOrder[k] \notin local'[w].flags
    <3>1. CASE local' = [local EXCEPT ![w].flags = rest]
      <4>1. local'[w].flags = rest /\ local'[w].broken = local[w].broken
        BY <3>1 DEF PubInv, TypeOK
      <4>2. \A k \in 1..((i + 1) - 1) : k = i \/ k \in 1..(i - 1)
        OBVIOUS
      <4> QED
        BY <1>4, <4>1, <4>2
    <3>2. CASE local' = [local EXCEPT ![w].broken = TRUE]
      BY <3>2 DEF PubInv, TypeOK
    <3> QED
      BY <1>5, <3>1, <3>2
  <2>4. i + 1 \in 1..7
    OBVIOUS
  <2>5. pc' = [pc EXCEPT ![w] = NextUndo(i + 1, local'[w].flags)]
    BY <1>7, <2>1
  <2>6. \A v \in Workers : v # w => pc'[v] = pc[v]
    BY <1>7 DEF PubInv, TypeOK
  <2> QED
    BY <1>1, <1>3, <2>2, <2>3, <2>4, <2>5, <2>6, RollbackWorker
<1>9. pc'[w] \notin Forward /\ pc'[w] \in Rollback
  BY <1>8, FlagNames DEF Forward, Rollback
<1>10. record' = record /\ lock' = lock
  BY <1>3 DEF recordVars
<1>11. CASE jobStatus[j] = "succeeded"
  <2>1. Finishing(w) /\ flag \in local[w].flags \cap PendingFlags
    <3>1. Finishing(w)
      BY <1>1, <1>2, <1>11, AtStep
    <3>2. pc[w] # "clear"
      BY <1>1, FlagNames
    <3> QED
      BY <1>4, <3>1, <3>2 DEF Finishing
  <2>2. /\ NothingUnderWay'
        /\ staging'[j] => staging[j] /\ "staging_pending" \in local'[w].flags
        /\ BackupsOK' /\ RegisteredImagesKept' /\ PackagesAndEditsKept'
        /\ target' = target
        /\ \A k \in Jobs : k # j =>
             staging'[k] = staging[k] /\ package'[k] = package[k] /\ backup'[k] = backup[k]
    <3>0. pc[w] # "clear" /\ (staging[j] => "staging_pending" \in local[w].flags)
      BY <1>1, <1>2, <2>1, FlagNames DEF Finishing
    <3>1. CASE /\ CanUndo(w, flag) /\ Undone(w, flag)
               /\ local' = [local EXCEPT ![w].flags = rest]
      <4>1. local'[w].flags = local[w].flags \ {flag}
        BY <3>1 DEF PubInv, TypeOK
      <4> HIDE DEF flag, rest
      <4>2. /\ NothingUnderWay'
            /\ staging'[j] => staging[j] /\ flag # "staging_pending"
            /\ BackupsOK' /\ RegisteredImagesKept' /\ PackagesAndEditsKept'
            /\ target' = target
            /\ \A k \in Jobs : k # j =>
                 staging'[k] = staging[k] /\ package'[k] = package[k] /\ backup'[k] = backup[k]
        BY <1>1, <1>2, <1>3, <2>1, <3>1, <4>1, UndoFinishing
      <4> QED
        BY <3>0, <4>1, <4>2
    <3>2. CASE HalfUndone(flag) /\ local' = [local EXCEPT ![w].broken = TRUE]
      <4>1. local'[w].flags = local[w].flags
        BY <3>2 DEF PubInv, TypeOK
      <4>2. UNCHANGED <<target, backup, staging, package, meta>>
        BY <2>1, <3>2 DEF HalfUndone, PendingFlags
      <4> QED
        BY <1>3, <2>1, <3>0, <4>1, <4>2
        DEF Finishing, NothingUnderWay, Registered, RegisteredAsin, PubInv, DiskOK, BackupsOK,
            RegisteredImagesKept, PackagesAndEditsKept, PackageKept, EditsKept
    <3> QED
      BY <1>5, <3>1, <3>2
  <2>3. Finishing(w)'
    <3>1. local[w].flags \subseteq PendingFlags
      BY <1>1, <2>1, FlagNames DEF Finishing
    <3> QED
      BY <1>2, <1>3, <1>6, <1>9, <2>2, <3>1 DEF Finishing, Forward
  <2>4. Advances(w)
    BY <1>2, <1>3, <1>6, <1>8, <1>10, <2>2 DEF Advances
  <2> QED
    BY <1>1, <1>2, <1>3, <1>6, <1>8, <1>10, <1>11, <2>2, <2>3, <2>4, AtStep, MovesOK
    DEF PubInv, HoldersOK, JobsKnown
<1>12. CASE jobStatus[j] # "succeeded"
  <2>1. /\ Covers(j, local[w].flags)'
        /\ j \notin unsaved => Deserved(j, local[w].flags)'
        /\ unsaved = {} => Recoverable(j, local[w].flags, local[w].previous)'
        /\ BackupsOK' /\ RegisteredImagesKept' /\ PackagesAndEditsKept'
        /\ target' \in {target, "none", "debris", j, backup[j]}
        /\ \A k \in Jobs : k # j =>
             staging'[k] = staging[k] /\ package'[k] = package[k] /\ backup'[k] = backup[k]
    <3>1. CASE /\ CanUndo(w, flag) /\ Undone(w, flag)
               /\ local' = [local EXCEPT ![w].flags = rest]
      <4>1. local'[w].flags = local[w].flags \ {flag}
        BY <3>1 DEF PubInv, TypeOK
      <4> HIDE DEF flag, rest
      <4> QED
        BY <1>1, <1>2, <1>3, <1>4, <1>6, <1>12, <3>1, <4>1, UndoWorking
    <3>2. CASE HalfUndone(flag) /\ local' = [local EXCEPT ![w].broken = TRUE]
      <4>1. local'[w].flags = local[w].flags
        BY <3>2 DEF PubInv, TypeOK
      <4>2. UNCHANGED <<backup, staging, package>>
        BY <3>2 DEF HalfUndone
      <4> HIDE DEF flag, rest
      <4> QED
        BY <1>1, <1>2, <1>3, <1>4, <1>6, <1>12, <3>2, <4>1, <4>2, UndoFailing
    <3> QED
      BY <1>5, <3>1, <3>2
  <2>2. Working(w)'
    BY <1>2, <1>3, <1>9, <2>1 DEF Working, FlagsOK, Forward
  <2>3. Advances(w)
    BY <1>2, <1>3, <1>6, <1>8, <1>10, <2>1 DEF Advances
  <2> QED
    BY <1>1, <1>2, <1>3, <1>6, <1>8, <1>10, <1>12, <2>1, <2>2, <2>3, AtStep, MovesOK
    DEF PubInv, HoldersOK, JobsKnown
<1> QED
  BY <1>11, <1>12

-----------------------------------------------------------------------------
(* Steps of a worker that is not active, before or after it. *)

\* A step of one worker that touches at most the locks keeps the invariant.
LEMMA RestsOK ==
    ASSUME PubInv, TypeOK', NEW w \in Workers, ~InCourse(w), ~InCourse(w)', WorkerOK(w)',
           \A v \in Workers : v # w =>
              pc'[v] = pc[v] /\ task'[v] = task[v] /\ local'[v] = local[v],
           UNCHANGED <<origin, diskVars, dbVars, record, unsaved, edits>>,
           Busy(w)' => jobStatus[task'[w]] # "absent",
           \A k \in Jobs : Busy(w)' /\ k # task'[w] => record[k] = NoRecord,
           LocksHeld',
           \A k \in Jobs : Waiting(k)' => Waiting(k)
    PROVE  PubInv'
<1> USE DEF diskVars, dbVars
<1>1. \A v \in Workers :
         /\ InCourse(v)' => InCourse(v) /\ v # w
         /\ v # w => (InCourse(v)' <=> InCourse(v)) /\ (Busy(v)' <=> Busy(v)) /\ (WorkerOK(v)' <=> WorkerOK(v))
  BY DEF InCourse, Busy, WorkerOK
<1>2. WorkersOK'
  BY <1>1 DEF PubInv, WorkersOK
<1>3. RecordsSingle'
  BY <1>1 DEF PubInv, HoldersOK, RecordsSingle
<1>4. RecordsHeld'
  BY <1>1 DEF PubInv, HoldersOK, RecordsHeld, Workers
<1>5. RecordsWellFormed'
  BY DEF PubInv, HoldersOK, RecordsWellFormed
<1>6. JobsKnown'
  BY <1>1 DEF PubInv, HoldersOK, JobsKnown, Workers
<1>7. ActiveOK'
  <2> SUFFICES ASSUME NEW v \in Workers, InCourse(v)'
               PROVE  (IF jobStatus[task[v]] = "succeeded" THEN Finishing(v) ELSE Working(v))'
    BY DEF ActiveOK
  <2>1. InCourse(v) /\ pc'[v] = pc[v] /\ task'[v] = task[v] /\ local'[v] = local[v]
    BY <1>1
  <2>2. IF jobStatus[task[v]] = "succeeded" THEN Finishing(v) ELSE Working(v)
    BY <2>1, AtStep
  <2> QED
    BY <2>1, <2>2 DEF Finishing, NothingUnderWay, Working, FlagsOK, Covers, Deserved, Recoverable,
                      Registered, RegisteredAsin
<1>8. WaitingOK'
  <2>1. \A k \in Jobs : FlagsOK(k, record[k]) => FlagsOK(k, record[k])'
    BY DEF FlagsOK, Covers, Deserved, Recoverable, Registered, RegisteredAsin
  <2> QED
    BY <2>1 DEF PubInv, DiskOK, WaitingOK
<1>9. CleanOK'
  BY DEF PubInv, DiskOK, CleanOK, NothingUnderWay, Registered, RegisteredAsin
<1>10. BackupsOK' /\ OriginOK' /\ DamageIsRecorded' /\ RegisteredImagesKept' /\ PackagesAndEditsKept'
  BY DEF PubInv, DiskOK, BackupsOK, OriginOK, DamageIsRecorded, RegisteredImagesKept,
         PackagesAndEditsKept, PackageKept, EditsKept
<1> QED
  BY <1>2, <1>3, <1>4, <1>5, <1>6, <1>7, <1>8, <1>9, <1>10 DEF PubInv, HoldersOK, DiskOK

\* What is waiting does not depend on the steps before the record is written.
LEMMA StillWaiting ==
    ASSUME PubInv, NEW w \in Workers, ~InCourse(w), ~(w \in Tools) \/ task'[w] = task[w],
           \A v \in Workers : v # w => pc'[v] = pc[v] /\ task'[v] = task[v],
           UNCHANGED <<record, jobStatus, lock>>
    PROVE  \A k \in Jobs : Waiting(k)' => Waiting(k)
<1>1. \A v \in Workers : InCourse(v) => InCourse(v)' /\ task'[v] = task[v]
  BY DEF InCourse
<1>2. \A v \in Tools : task'[v] = task[v]
  BY DEF Workers
<1> QED
  BY <1>1, <1>2 DEF Waiting

\* The steps of complete() before its record, and their refusals.
LEMMA ThreadRestsOK ==
    ASSUME PubInv, TypeOK', NEW w \in Threads, pc[w] \in {"load", "construct", "begin"},
           \/ Return(w)
           \/ /\ pc'[w] \in {"construct", "begin"} /\ task' = task
              /\ \A v \in Workers : v # w => pc'[v] = pc[v] /\ local'[v] = local[v]
              /\ \E b \in BOOLEAN : local'[w] = local[w] \/ local'[w] = [local[w] EXCEPT !.replacing = b],
           UNCHANGED <<origin, diskVars, dbVars, record, lock, unsaved, edits>>
    PROVE  PubInv'
<1>1. w \in Workers /\ w \notin Tools
  BY CapturePublicationAssumption DEF Workers
<1>2. pc[w] \notin Forward \cup Rollback \cup {"idle"}
  BY FlagNames DEF Forward, Rollback
<1>3. WorkerOK(w) /\ Busy(w)
  BY <1>1, <1>2 DEF PubInv, WorkersOK, WorkerOK
<1>4. /\ ~InCourse(w) /\ ~InCourse(w)' /\ WorkerOK(w)'
      /\ task'[w] \in {"none", task[w]}
      /\ \A v \in Workers : v # w =>
            pc'[v] = pc[v] /\ task'[v] = task[v] /\ local'[v] = local[v]
  <2>1. CASE Return(w)
    BY <1>1, <1>2, <2>1, ReturningWorker DEF WorkersOK, InCourse
  <2>2. CASE /\ pc'[w] \in {"construct", "begin"} /\ task' = task
             /\ \A v \in Workers : v # w => pc'[v] = pc[v] /\ local'[v] = local[v]
             /\ \E b \in BOOLEAN : local'[w] = local[w] \/ local'[w] = [local[w] EXCEPT !.replacing = b]
    <3>1. /\ local'[w].flags = local[w].flags /\ local'[w].broken = local[w].broken
          /\ local'[w].previous = local[w].previous /\ local'[w].applied = local[w].applied
      BY <1>1, <2>2 DEF PubInv, TypeOK
    <3>2. pc'[w] \notin Forward \cup Rollback \cup {"idle", "read", "unlock"}
      BY <2>2, FlagNames DEF Forward, Rollback
    <3>3. local[w].flags = PendingFlags /\ ~local[w].broken
      BY <1>2, <1>3 DEF WorkerOK, FlagsFollow
    <3>4. FlagsFollow(pc'[w], local'[w])
      BY <3>1, <3>2, <3>3 DEF FlagsFollow, Rollback
    <3>5. UndoneSoFar(pc'[w], local'[w])
      BY <3>2 DEF UndoneSoFar, Rollback, Flags
    <3>6. SnapshotsOK(local'[w])
      BY <1>3, <3>1 DEF WorkerOK, SnapshotsOK
    <3>7. WorkerOK(w)'
      BY <1>1, <1>3, <2>2, <3>2, <3>4, <3>5, <3>6 DEF WorkerOK, Busy
    <3> QED
      BY <1>2, <2>2, <3>2, <3>7 DEF InCourse
  <2> QED
    BY <2>1, <2>2
<1>5. /\ Busy(w)' => jobStatus[task'[w]] # "absent"
      /\ \A k \in Jobs : Busy(w)' /\ k # task'[w] => record[k] = NoRecord
  BY <1>1, <1>3, <1>4 DEF Busy, PubInv, HoldersOK, JobsKnown, RecordsSingle
<1>6. LocksHeld'
  <2>1. \A v \in Tools : v \in Workers /\ v # w
    BY <1>1 DEF Workers
  <2> QED
    BY <1>4, <2>1 DEF PubInv, HoldersOK, LocksHeld, Busy
<1>7. UNCHANGED <<record, jobStatus, lock>>
  BY DEF dbVars
<1>8. \A k \in Jobs : Waiting(k)' => Waiting(k)
  BY <1>1, <1>4, <1>7, StillWaiting
<1> QED
  BY <1>1, <1>4, <1>5, <1>6, <1>8, RestsOK

\* A registration is called.
LEMMA CheckOK ==
    ASSUME PubInv, TypeOK', NEW w \in Workers, NEW j \in Jobs, Check(w, j)
    PROVE  PubInv'
<1> USE DEF recordVars, boundVars
<1>1. w \in Threads /\ w \notin Tools /\ pc[w] = "idle"
  BY CapturePublicationAssumption DEF Check
<1>2. /\ pc'[w] = "load" /\ task'[w] = j /\ local' = local
      /\ \A v \in Workers : v # w => pc'[v] = pc[v] /\ task'[v] = task[v]
  BY DEF Check, Goto, PubInv, TypeOK
<1>3. /\ UNCHANGED <<origin, diskVars, dbVars, record, lock, unsaved, edits>>
      /\ jobStatus[j] # "absent" /\ \A k \in Jobs : record[k] = NoRecord
  BY DEF Check
<1>4. "load" \notin Forward \cup Rollback /\ "idle" \notin Forward \cup Rollback
  BY FlagNames DEF Forward, Rollback
<1>5. j # "none"
  BY CapturePublicationAssumption
<1>6. WorkerOK(w)' /\ ~InCourse(w) /\ ~InCourse(w)'
  <2>1. WorkerOK(w)
    BY DEF PubInv, WorkersOK
  <2>2. local[w].flags = PendingFlags /\ ~local[w].broken
    BY <1>1, <1>4, <2>1 DEF WorkerOK, FlagsFollow
  <2>3. FlagsFollow("load", local[w])
    BY <1>4, <2>2 DEF FlagsFollow
  <2>4. UndoneSoFar("load", local[w])
    BY <1>4 DEF UndoneSoFar, Rollback, Flags
  <2> QED
    BY <1>1, <1>2, <1>4, <1>5, <2>1, <2>3, <2>4 DEF WorkerOK, Busy, InCourse
<1>7. LocksHeld'
  <2>1. \A v \in Tools : v \in Workers /\ v # w
    BY <1>1 DEF Workers
  <2> QED
    BY <1>2, <1>3, <2>1 DEF PubInv, HoldersOK, LocksHeld, Busy
<1>8. \A k \in Jobs : Waiting(k)' => Waiting(k)
  BY <1>3 DEF Waiting, NoRecord
<1> QED
  BY <1>2, <1>3, <1>6, <1>7, <1>8, RestsOK

\* The tool takes its lock.
LEMMA TakeLockOK ==
    ASSUME PubInv, TypeOK', NEW w \in Workers, NEW j \in Jobs, TakeLock(w, j)
    PROVE  PubInv'
<1> USE DEF boundVars
<1>1. w \in Tools /\ w \notin Threads /\ pc[w] = "idle"
  BY CapturePublicationAssumption DEF TakeLock
<1>2. /\ pc'[w] = "read" /\ task'[w] = j /\ local' = local
      /\ \A v \in Workers : v # w => pc'[v] = pc[v] /\ task'[v] = task[v]
  BY DEF TakeLock, Goto, PubInv, TypeOK
<1>3. /\ UNCHANGED <<origin, diskVars, dbVars, record, unsaved, edits>>
      /\ j \notin lock /\ record[j] # NoRecord /\ lock' = lock \cup {j}
  BY DEF TakeLock
<1>4. "read" \notin Forward \cup Rollback /\ "idle" \notin Forward \cup Rollback
  BY FlagNames DEF Forward, Rollback
<1>5. j # "none"
  BY CapturePublicationAssumption
<1>6. WorkerOK(w)' /\ ~InCourse(w) /\ ~InCourse(w)'
  <2>1. WorkerOK(w)
    BY DEF PubInv, WorkersOK
  <2>2. local[w].flags = PendingFlags /\ ~local[w].broken
    BY <1>1, <1>4, <2>1 DEF WorkerOK, FlagsFollow
  <2>3. FlagsFollow("read", local[w])
    BY <1>4, <2>2 DEF FlagsFollow
  <2>4. UndoneSoFar("read", local[w])
    BY <1>4 DEF UndoneSoFar, Rollback, Flags
  <2> QED
    BY <1>1, <1>2, <1>4, <1>5, <2>1, <2>3, <2>4 DEF WorkerOK, Busy, InCourse
<1>7. LocksHeld'
  <2>1. \A v \in Tools : Busy(v) => task[v] # j
    BY <1>3 DEF PubInv, HoldersOK, LocksHeld
  <2> QED
    BY <1>1, <1>2, <1>3, <2>1 DEF PubInv, HoldersOK, LocksHeld, Busy, Workers
<1>8. /\ jobStatus[j] # "absent"
      /\ \A k \in Jobs : k # j => record[k] = NoRecord
  BY <1>3 DEF PubInv, HoldersOK, JobsKnown, RecordsSingle
<1>9. \A k \in Jobs : Waiting(k)' => Waiting(k)
  <2> SUFFICES ASSUME Waiting(j)' PROVE Waiting(j)
    BY <1>3, <1>8 DEF Waiting, NoRecord
  <2>1. \A v \in Workers : InCourse(v) => InCourse(v)' /\ task'[v] = task[v]
    BY <1>2, <1>6 DEF InCourse
  <2> QED
    BY <1>3, <2>1 DEF Waiting, dbVars
<1> QED
  BY <1>2, <1>3, <1>6, <1>7, <1>8, <1>9, RestsOK

\* The tool drops its lock, or leaves it behind.
LEMMA UnlockOK ==
    ASSUME PubInv, TypeOK', NEW w \in Workers, Unlock(w)
    PROVE  PubInv'
<1> USE DEF boundVars, Fault, NoFault
<1>1. pc[w] = "unlock" /\ Return(w) /\ lock' \in {lock, lock \ {task[w]}}
  BY DEF Unlock
<1>2. "unlock" \notin Forward \cup Rollback \cup {"idle"}
  BY FlagNames DEF Forward, Rollback
<1>3. w \in Tools /\ Busy(w) /\ ~InCourse(w)
  BY <1>1, <1>2 DEF PubInv, WorkersOK, WorkerOK, Workers, InCourse
<1>4. UNCHANGED <<origin, diskVars, dbVars, record, unsaved, edits>>
  BY DEF Unlock
<1>5. /\ task'[w] = "none" /\ ~InCourse(w)' /\ WorkerOK(w)' /\ ~Busy(w)'
      /\ \A v \in Workers : v # w =>
            pc'[v] = pc[v] /\ task'[v] = task[v] /\ local'[v] = local[v]
  BY <1>1, ReturningWorker DEF WorkersOK, Busy
<1>6. LocksHeld'
  BY <1>1, <1>3, <1>5 DEF PubInv, HoldersOK, LocksHeld, Busy, Workers
<1>7. \A k \in Jobs : Waiting(k)' => Waiting(k)
  <2> SUFFICES ASSUME NEW k \in Jobs, Waiting(k)' PROVE Waiting(k)
    OBVIOUS
  <2>1. \A v \in Workers : InCourse(v) => InCourse(v)' /\ task'[v] = task[v]
    BY <1>3, <1>5 DEF InCourse
  <2>2. k # "none"
    BY CapturePublicationAssumption
  <2>3. k \in lock => \E v \in Tools : task[v] = k
    BY <1>1, <1>3, <1>5, <2>2 DEF Waiting, Workers
  <2> QED
    BY <1>4, <2>1, <2>3 DEF Waiting, dbVars
<1> QED
  BY <1>3, <1>4, <1>5, <1>6, <1>7, RestsOK

\* load_awaiting_job() and the constructor keep the invariant.
LEMMA LoadOK ==
    ASSUME PubInv, TypeOK', NEW w \in Workers, Load(w) \/ Construct(w)
    PROVE  PubInv'
<1> USE DEF recordVars, boundVars
<1>1. pc[w] \in {"load", "construct"}
  BY DEF Load, Construct
<1>2. "load" \notin Forward \cup Rollback \cup {"idle"} /\ "construct" \notin Forward \cup Rollback \cup {"idle"}
  BY FlagNames DEF Forward, Rollback
<1>3. w \in Threads
  BY <1>1, <1>2 DEF PubInv, WorkersOK, WorkerOK, Workers, Rollback
<1>4. UNCHANGED <<origin, diskVars, dbVars, record, lock, unsaved, edits>>
  BY DEF Load, Construct
<1>5. CASE Return(w)
  BY <1>1, <1>3, <1>4, <1>5, ThreadRestsOK
<1>6. CASE Goto(w, "construct") /\ UNCHANGED <<task, local>>
  <2>1. /\ pc'[w] = "construct" /\ task' = task /\ local' = local
        /\ \A v \in Workers : v # w => pc'[v] = pc[v]
    BY <1>6 DEF Goto, PubInv, TypeOK
  <2> QED
    BY <1>1, <1>3, <1>4, <2>1, ThreadRestsOK
<1>7. CASE /\ local' = [local EXCEPT ![w].replacing = target # "none"]
           /\ Goto(w, "begin") /\ UNCHANGED task
  <2>1. /\ pc'[w] = "begin" /\ task' = task
        /\ local'[w] = [local[w] EXCEPT !.replacing = target # "none"]
        /\ \A v \in Workers : v # w => pc'[v] = pc[v] /\ local'[v] = local[v]
    BY <1>7 DEF Goto, PubInv, TypeOK
  <2>2. (target # "none") \in BOOLEAN
    OBVIOUS
  <2>3. \E b \in BOOLEAN : local'[w] = local[w] \/ local'[w] = [local[w] EXCEPT !.replacing = b]
    BY <2>1, <2>2
  <2> QED
    BY <1>1, <1>3, <1>4, <2>1, <2>3, ThreadRestsOK
<1> QED
  BY <1>5, <1>6, <1>7 DEF Load, Construct

\* begin_record() starts from a clean library, if nobody else is about to start.
LEMMA BeginOK ==
    ASSUME PubInv, TypeOK', OneJobAtATime, NEW w \in Workers, Begin(w)
    PROVE  PubInv'
<1> USE DEF boundVars, Fault, NoFault, diskVars, dbVars
<1>1. pc[w] = "begin" /\ "begin" \notin Forward \cup Rollback \cup {"idle", "read", "unlock"}
  BY FlagNames DEF Begin, Forward, Rollback
<1>2. WorkerOK(w) /\ w \in Threads /\ w \notin Tools /\ Busy(w) /\ ~InCourse(w)
  BY <1>1, CapturePublicationAssumption DEF PubInv, WorkersOK, WorkerOK, Workers, InCourse
<1>3. PICK j \in Jobs : j = task[w]
  BY <1>2 DEF Busy, PubInv, TypeOK
<1>4. UNCHANGED <<origin, diskVars, dbVars, lock, unsaved, edits>>
  BY DEF Begin
<1>5. CASE record[j] # NoRecord
  <2>1. Return(w) /\ UNCHANGED record
    BY <1>3, <1>5 DEF Begin
  <2> QED
    BY <1>1, <1>2, <1>4, <2>1, ThreadRestsOK
<1>6. CASE record[j] = NoRecord
  <2>1. /\ record' = [record EXCEPT ![j] = RecordOf(w, "publishing")]
        /\ \/ Goto(w, "stage") /\ UNCHANGED <<task, local>>
           \/ Return(w)
    BY <1>3, <1>6 DEF Begin
  <2>2. \A k \in Jobs : record[k] = NoRecord
    BY <1>2, <1>3, <1>6 DEF PubInv, HoldersOK, RecordsSingle
  <2>3. \A v \in Workers : ~InCourse(v)
    <3> SUFFICES ASSUME NEW v \in Workers, InCourse(v) PROVE FALSE
      OBVIOUS
    <3> QED
      BY <2>2, OnlyActive
  <2>4. /\ record'[j].phase = "publishing" /\ record'[j].flags = local[w].flags
        /\ \A k \in Jobs : k # j => record'[k] = NoRecord
    BY <2>1, <2>2 DEF RecordOf, PubInv, TypeOK
  <2>5. local[w].flags = PendingFlags /\ ~local[w].broken
    BY <1>1, <1>2 DEF WorkerOK, FlagsFollow
  <2>6. \A v \in Workers : v # w =>
           pc'[v] = pc[v] /\ task'[v] = task[v] /\ local'[v] = local[v]
    BY <2>1, ReturningWorker DEF Goto, PubInv, TypeOK
  <2>7. /\ WorkerOK(w)'
        /\ \/ pc'[w] = "stage" /\ task'[w] = j /\ local'[w] = local[w] /\ InCourse(w)'
           \/ pc'[w] = "idle" /\ task'[w] = "none" /\ ~InCourse(w)'
    <3>1. CASE Return(w)
      BY <3>1, ReturningWorker DEF WorkersOK
    <3>2. CASE Goto(w, "stage") /\ UNCHANGED <<task, local>>
      <4>1. pc'[w] = "stage" /\ task' = task /\ local' = local
        BY <3>2 DEF Goto, PubInv, TypeOK
      <4>2. "stage" \in Forward /\ "stage" \notin Rollback \cup Flags
        BY FlagNames DEF Forward, Rollback
      <4>3. FlagsFollow("stage", local[w])
        BY <2>5, <4>2 DEF FlagsFollow, Behind, PendingFlags
      <4>4. UndoneSoFar("stage", local[w])
        BY <4>2 DEF UndoneSoFar, Flags
      <4> QED
        BY <1>2, <1>3, <4>1, <4>2, <4>3, <4>4 DEF WorkerOK, Busy, InCourse
    <3> QED
      BY <2>1, <3>1, <3>2
  <2>8. WorkersOK' /\ \A v \in Workers : v # w => ~InCourse(v)' /\ (Busy(v)' <=> Busy(v))
    BY <2>3, <2>6, <2>7 DEF PubInv, WorkersOK, WorkerOK, Busy, InCourse
  <2>9. LocksHeld'
    <3>1. \A v \in Tools : v \in Workers /\ v # w
      BY <1>2 DEF Workers
    <3> QED
      BY <1>4, <2>6, <3>1 DEF PubInv, HoldersOK, LocksHeld, Busy
  <2>10. RecordsSingle'
    <3>1. \A v \in Workers : Busy(v)' => task'[v] = j
      BY <1>2, <1>3, <2>6, <2>7 DEF OneJobAtATime, Busy
    <3> QED
      BY <2>4, <3>1 DEF RecordsSingle
  <2>11. RecordsHeld'
    <3>1. record'[j] # NoRecord
      BY <2>4 DEF NoRecord
    <3> QED
      BY <2>4, <2>7, <2>8, <3>1 DEF RecordsHeld, Workers
  <2>12. RecordsWellFormed'
    BY <2>4, <2>5 DEF RecordsWellFormed, SnapshotsOK, NoRecord, PendingFlags
  <2>13. JobsKnown'
    <3>1. jobStatus[j] # "absent"
      BY <1>2, <1>3 DEF PubInv, HoldersOK, JobsKnown
    <3>2. \A v \in Tools : v \in Workers /\ v # w
      BY <1>2 DEF Workers
    <3> QED
      BY <1>3, <1>4, <2>4, <2>6, <2>7, <2>8, <3>1, <3>2
      DEF PubInv, HoldersOK, JobsKnown, Busy
  <2>14. ActiveOK'
    <3> SUFFICES ASSUME InCourse(w)'
                 PROVE  (IF jobStatus[task[w]] = "succeeded" THEN Finishing(w) ELSE Working(w))'
      BY <2>8 DEF ActiveOK
    <3>1. pc'[w] = "stage" /\ task'[w] = j /\ local'[w].flags = PendingFlags
      BY <2>5, <2>7
    <3>2. NothingUnderWay
      BY <2>2 DEF PubInv, DiskOK, CleanOK
    <3>3. /\ ~staging[j]
          /\ jobStatus[j] # "succeeded" =>
                package[j] # "processed" /\ backup[j] = "none" /\ target # j
      BY <2>2 DEF PubInv, DiskOK, DamageIsRecorded
    <3>4. Finishing(w)'
      BY <1>4, <3>1, <3>2, <3>3 DEF Finishing, NothingUnderWay, Registered, RegisteredAsin
    <3>5. jobStatus[j] # "succeeded" => Working(w)'
      BY <1>4, <3>1, <3>2, <3>3
      DEF Working, FlagsOK, Covers, Deserved, Recoverable, NothingUnderWay, Registered, RegisteredAsin, PendingFlags
    <3> QED
      BY <1>4, <3>1, <3>4, <3>5
  <2>15. WaitingOK'
    BY <2>4 DEF WaitingOK, Waiting, NoRecord
  <2>16. CleanOK'
    BY <2>4 DEF CleanOK, NoRecord
  <2>17. BackupsOK' /\ OriginOK' /\ RegisteredImagesKept' /\ PackagesAndEditsKept'
    BY <1>4 DEF PubInv, DiskOK, BackupsOK, OriginOK, RegisteredImagesKept,
                PackagesAndEditsKept, PackageKept, EditsKept
  <2>18. DamageIsRecorded'
    BY <1>4, <2>2 DEF PubInv, DiskOK, DamageIsRecorded
  <2> QED
    BY <2>8, <2>9, <2>10, <2>11, <2>12, <2>13, <2>14, <2>15, <2>16, <2>17, <2>18
    DEF PubInv, HoldersOK, DiskOK
<1> QED
  BY <1>5, <1>6

\* The tool accepts a record that tells the truth.
LEMMA ReadRecordOK ==
    ASSUME PubInv, TypeOK', NEW w \in Workers, ReadRecord(w)
    PROVE  PubInv'
<1> USE DEF boundVars, recordVars, diskVars, dbVars
<1>1. pc[w] = "read" /\ "read" \notin Forward \cup Rollback \cup {"idle", "unlock"}
  BY FlagNames DEF ReadRecord, Forward, Rollback
<1>2. WorkerOK(w) /\ w \in Tools /\ w \notin Threads /\ Busy(w) /\ ~InCourse(w)
  BY <1>1, CapturePublicationAssumption DEF PubInv, WorkersOK, WorkerOK, Workers, InCourse
<1>3. PICK j \in Jobs : j = task[w]
  BY <1>2 DEF Busy, PubInv, TypeOK
<1>4. UNCHANGED <<origin, diskVars, dbVars, recordVars, task, edits>>
  BY DEF ReadRecord
<1>5. LocksHeld'
  BY <1>4 DEF PubInv, HoldersOK, LocksHeld, Busy
<1>6. local[w].flags = PendingFlags /\ ~local[w].broken
  BY <1>1, <1>2 DEF WorkerOK, FlagsFollow
<1>7. CASE Goto(w, "unlock") /\ UNCHANGED local
  <2>1. /\ pc'[w] = "unlock" /\ task' = task /\ local' = local
        /\ \A v \in Workers : v # w => pc'[v] = pc[v]
    BY <1>4, <1>7 DEF Goto, PubInv, TypeOK
  <2>2. "unlock" \notin Forward \cup Rollback \cup Flags \cup {"idle"}
    BY FlagNames DEF Forward, Rollback
  <2>3. WorkerOK(w)' /\ ~InCourse(w)'
    <3>1. FlagsFollow("unlock", local[w])
      BY <2>2 DEF FlagsFollow, Rollback
    <3>2. UndoneSoFar("unlock", local[w])
      BY <2>2 DEF UndoneSoFar, Flags, Rollback
    <3> QED
      BY <1>2, <2>1, <2>2, <3>1, <3>2 DEF WorkerOK, Busy, InCourse
  <2>4. \A k \in Jobs : Waiting(k)' => Waiting(k)
    BY <1>2, <1>4, <2>1, StillWaiting
  <2>5. /\ jobStatus[task'[w]] # "absent"
        /\ \A k \in Jobs : k # task'[w] => record[k] = NoRecord
    BY <1>2, <2>1 DEF PubInv, HoldersOK, JobsKnown, RecordsSingle
  <2> QED
    BY <1>2, <1>4, <1>5, <2>1, <2>3, <2>4, <2>5, RestsOK
<1>8. CASE /\ record[j].phase = "recovery" /\ jobStatus[j] \in {"awaiting_files", "failed"}
           /\ local' = [local EXCEPT ![w].flags = record[j].flags,
                          ![w].previous = record[j].previous, ![w].applied = record[j].applied]
           /\ Goto(w, "resuming")
  <2> DEFINE own == [local[w] EXCEPT !.flags = record[j].flags,
                          !.previous = record[j].previous, !.applied = record[j].applied]
  <2>1. /\ pc'[w] = "resuming" /\ task' = task
        /\ \A v \in Workers : v # w => pc'[v] = pc[v] /\ local'[v] = local[v]
    BY <1>4, <1>8 DEF Goto, PubInv, TypeOK
  <2>2. /\ local'[w].flags = record[j].flags /\ local'[w].previous = record[j].previous
        /\ local'[w].applied = record[j].applied /\ ~local'[w].broken
    <3>1. local' = [local EXCEPT ![w] = own]
      BY <1>8
    <3>2. local \in [Workers -> Locals] /\ local[w] \in Locals
      BY TypeParts DEF PubInv, TypesOfWorkers
    <3>3. local'[w] = own
      BY <3>1, <3>2
    <3> QED
      BY <1>6, <3>2, <3>3 DEF Locals
  <2>3. "resuming" \in Rollback /\ "resuming" \notin Forward \cup Flags \cup {"idle"}
    BY FlagNames DEF Forward, Rollback
  <2>4. WorkerOK(w)' /\ InCourse(w)'
    <3>1. FlagsFollow("resuming", local'[w])
      BY <2>2, <2>3 DEF FlagsFollow
    <3>2. UndoneSoFar("resuming", local'[w])
      BY <2>3 DEF UndoneSoFar, Flags
    <3>3. SnapshotsOK(local'[w])
      BY <2>2 DEF SnapshotsOK, PubInv, HoldersOK, RecordsWellFormed
    <3> QED
      BY <1>2, <2>1, <2>3, <3>1, <3>2, <3>3 DEF WorkerOK, Busy, InCourse
  <2>5. /\ record[j] # NoRecord
        /\ \A k \in Jobs : k # j => record[k] = NoRecord
    <3>1. record[j] # NoRecord
      BY <1>8 DEF NoRecord
    <3> QED
      BY <1>2, <1>3, <3>1 DEF PubInv, HoldersOK, RecordsSingle
  <2>6. \A v \in Workers : ~InCourse(v)
    <3> SUFFICES ASSUME NEW v \in Workers, InCourse(v) PROVE FALSE
      OBVIOUS
    <3>1. task[v] = j /\ Busy(v)
      BY <2>5, OnlyActive
    <3>2. v \in Tools
      BY <1>8, <3>1 DEF PubInv, HoldersOK, RecordsHeld, Workers
    <3> QED
      BY <1>2, <1>3, <3>1, <3>2 DEF PubInv, HoldersOK, LocksHeld
  <2>7. FlagsOK(j, record[j])
    <3>1. Waiting(j)
      BY <1>2, <1>3, <1>8, <2>6 DEF Waiting
    <3> QED
      BY <3>1 DEF PubInv, DiskOK, WaitingOK
  <2>8. \A v \in Workers : /\ v # w => ~InCourse(v)' /\ (WorkerOK(v)' <=> WorkerOK(v))
                           /\ Busy(v)' <=> Busy(v)
    BY <2>1, <2>6 DEF WorkerOK, Busy, InCourse
  <2>9. WorkersOK'
    BY <2>4, <2>8 DEF PubInv, WorkersOK
  <2>10. RecordsSingle' /\ RecordsWellFormed'
    BY <1>4, <2>8 DEF PubInv, HoldersOK, RecordsSingle, RecordsWellFormed
  <2>11. RecordsHeld'
    BY <1>2, <1>3, <1>4, <2>2, <2>5, <2>8 DEF RecordsHeld, Workers
  <2>12. JobsKnown'
    BY <1>3, <1>4, <1>8, <2>8 DEF PubInv, HoldersOK, JobsKnown, Workers
  <2>13. ActiveOK'
    <3>1. Working(w)'
      BY <1>3, <1>4, <2>1, <2>2, <2>3, <2>7
      DEF Working, FlagsOK, Covers, Deserved, Recoverable, Registered, RegisteredAsin, Forward
    <3> QED
      BY <1>3, <1>4, <1>8, <2>8, <3>1 DEF ActiveOK
  <2>14. WaitingOK'
    <3> SUFFICES ASSUME NEW k \in Jobs, Waiting(k)' PROVE FALSE
      BY DEF WaitingOK
    <3>1. k = j
      BY <1>4, <2>5 DEF Waiting, NoRecord
    <3> QED
      BY <1>3, <1>4, <2>4, <3>1 DEF Waiting
  <2>15. CleanOK' /\ BackupsOK' /\ OriginOK' /\ DamageIsRecorded' /\ RegisteredImagesKept'
         /\ PackagesAndEditsKept'
    BY <1>4 DEF PubInv, DiskOK, CleanOK, NothingUnderWay, Registered, RegisteredAsin, BackupsOK, OriginOK,
                DamageIsRecorded, RegisteredImagesKept, PackagesAndEditsKept, PackageKept, EditsKept
  <2> QED
    BY <1>5, <2>9, <2>10, <2>11, <2>12, <2>13, <2>14, <2>15 DEF PubInv, HoldersOK, DiskOK
<1> QED
  BY <1>3, <1>7, <1>8 DEF ReadRecord

-----------------------------------------------------------------------------
(* The rest of the system. *)

\* What agents and users do leaves every promise of the records in place.
LEMMA OutsideOK ==
    ASSUME PubInv, TypeOK',
           UNCHANGED <<origin, audit, target, backup, staging, recordVars, workerVars>>,
           \A j \in Jobs :
              /\ jobStatus'[j] = "succeeded" <=> jobStatus[j] = "succeeded"
              /\ jobStatus'[j] = "absent" => jobStatus[j] = "absent"
              /\ package'[j] = package[j] \/ (jobStatus[j] = "absent" /\ package'[j] = "ready"),
           meta'.asin = meta.asin, PackagesAndEditsKept'
    PROVE  PubInv'
<1> USE DEF recordVars, workerVars
<1>1. WorkersOK' /\ LocksHeld' /\ RecordsSingle' /\ RecordsHeld' /\ RecordsWellFormed'
  BY DEF PubInv, HoldersOK, WorkersOK, WorkerOK, LocksHeld, RecordsSingle, RecordsHeld,
         RecordsWellFormed, Busy, InCourse
<1>2. \A w \in Workers : /\ Busy(w)' <=> Busy(w)
                         /\ InCourse(w)' <=> InCourse(w)
                         /\ Busy(w) => task[w] \in Jobs
                         /\ InCourse(w) => Busy(w)
  <2>1. \A w \in Workers : InCourse(w) => Busy(w)
    BY OnlyActive
  <2> QED
    BY <2>1 DEF Busy, InCourse, PubInv, TypeOK
<1>3. JobsKnown'
  <2>1. /\ \A w \in Workers : Busy(w) => jobStatus[task[w]] # "absent"
        /\ \A w \in Tools : InCourse(w) => jobStatus[task[w]] # "succeeded"
        /\ \A j \in Jobs : record[j] # NoRecord => jobStatus[j] # "absent"
        /\ audit # "none" => jobStatus[audit] = "succeeded"
    BY DEF PubInv, HoldersOK, JobsKnown
  <2>2. audit # "none" => audit \in Jobs
    BY DEF PubInv, TypeOK
  <2> QED
    BY <1>2, <2>1, <2>2 DEF JobsKnown, Workers
<1>4. \A j \in Jobs, r \in Records \cup Locals :
         jobStatus[j] # "absent" /\ FlagsOK(j, r) => FlagsOK(j, r)'
  BY DEF FlagsOK, Covers, Deserved, Recoverable, Registered, RegisteredAsin
<1>5. ActiveOK'
  <2> SUFFICES ASSUME NEW w \in Workers, InCourse(w)'
               PROVE  (IF jobStatus[task[w]] = "succeeded" THEN Finishing(w) ELSE Working(w))'
    BY DEF ActiveOK
  <2>1. InCourse(w) /\ task[w] \in Jobs /\ jobStatus[task[w]] # "absent"
    BY <1>2, AtStep
  <2>2. local[w] \in Locals
    BY TypeParts DEF PubInv, TypesOfWorkers
  <2>3. IF jobStatus[task[w]] = "succeeded" THEN Finishing(w) ELSE Working(w)
    BY <2>1, AtStep
  <2>4. CASE jobStatus[task[w]] = "succeeded"
    <3>1. Finishing(w)'
      BY <2>3, <2>4 DEF Finishing, NothingUnderWay, Registered, RegisteredAsin
    <3> QED
      BY <2>1, <2>4, <3>1
  <2>5. CASE jobStatus[task[w]] # "succeeded"
    <3>1. FlagsOK(task[w], local[w])'
      BY <1>4, <2>1, <2>2, <2>3, <2>5 DEF Working
    <3>2. Working(w)'
      BY <2>1, <2>3, <2>5, <3>1 DEF Working
    <3> QED
      BY <2>1, <2>5, <3>2
  <2> QED
    BY <2>4, <2>5
<1>6. WaitingOK'
  <2> SUFFICES ASSUME NEW k \in Jobs, Waiting(k)' PROVE FlagsOK(k, record[k])'
    BY DEF WaitingOK
  <2>1. Waiting(k)
    BY DEF Waiting, InCourse
  <2>2. jobStatus[k] # "absent"
    BY <2>1 DEF Waiting, NoRecord, PubInv, HoldersOK, JobsKnown
  <2>3. record[k] \in Records
    BY DEF PubInv, TypeOK
  <2> QED
    BY <1>4, <2>1, <2>2, <2>3 DEF PubInv, DiskOK, WaitingOK
<1>7. CleanOK' /\ BackupsOK' /\ OriginOK' /\ DamageIsRecorded' /\ RegisteredImagesKept'
  BY DEF PubInv, DiskOK, CleanOK, NothingUnderWay, Registered, RegisteredAsin, BackupsOK, OriginOK,
         DamageIsRecorded, RegisteredImagesKept
<1> QED
  BY <1>1, <1>3, <1>5, <1>6, <1>7 DEF PubInv, HoldersOK, DiskOK

\* Agents deliver and give up, users edit.
LEMMA EnvironmentOK ==
    ASSUME PubInv, TypeOK', (\E j \in Jobs : Deliver(j) \/ JobFails(j)) \/ Edit
    PROVE  PubInv'
<1> USE DEF dbVars, diskVars, boundVars
<1>0. PackagesAndEditsKept
  BY DEF PubInv, DiskOK
<1>1. ASSUME NEW j \in Jobs, Deliver(j) PROVE PubInv'
  <2>1. /\ jobStatus[j] = "absent" /\ jobStatus'[j] = "awaiting_files" /\ package'[j] = "ready"
        /\ \A k \in Jobs : k # j => jobStatus'[k] = jobStatus[k] /\ package'[k] = package[k]
    BY <1>1 DEF Deliver, PubInv, TypeOK
  <2>2. UNCHANGED <<origin, audit, target, backup, staging, meta, recordVars, workerVars, edits>>
    BY <1>1 DEF Deliver
  <2>3. PackagesAndEditsKept'
    BY <1>0, <2>1, <2>2 DEF PackagesAndEditsKept, PackageKept, EditsKept
  <2> QED
    BY <2>1, <2>2, <2>3, OutsideOK
<1>2. ASSUME NEW j \in Jobs, JobFails(j) PROVE PubInv'
  <2>1. /\ jobStatus[j] = "awaiting_files" /\ jobStatus'[j] = "failed"
        /\ \A k \in Jobs : k # j => jobStatus'[k] = jobStatus[k]
    BY <1>2 DEF JobFails, PubInv, TypeOK
  <2>2. UNCHANGED <<origin, audit, diskVars, recordVars, workerVars, edits>>
    BY <1>2 DEF JobFails
  <2>3. PackagesAndEditsKept'
    BY <1>0, <2>1, <2>2 DEF PackagesAndEditsKept, PackageKept, EditsKept
  <2> QED
    BY <2>1, <2>2, <2>3, OutsideOK
<1>3. CASE Edit
  <2>1. /\ meta # NoEntry /\ meta' = [meta EXCEPT !.rev = edits + 1] /\ edits' = edits + 1
        /\ UNCHANGED <<origin, target, backup, staging, package, dbVars, recordVars, workerVars>>
    BY <1>3 DEF Edit
  <2>2. meta'.asin = meta.asin /\ meta'.rev = edits' /\ meta' # NoEntry
    BY <2>1 DEF PubInv, TypeOK, Entries, NoEntry
  <2>3. PackagesAndEditsKept'
    BY <1>0, <2>1, <2>2 DEF PackagesAndEditsKept, PackageKept, EditsKept
  <2> QED
    BY <2>1, <2>2, <2>3, OutsideOK
<1> QED
  BY <1>1, <1>2, <1>3

\* A crash leaves the records to tell what happened.
LEMMA CrashOK ==
    ASSUME PubInv, TypeOK', NEW stopped \in SUBSET Workers, Crash(stopped),
           stopped \cap Tools = {} \/ \E w \in Tools : stopped = {w}
    PROVE  PubInv'
<1> USE DEF dbVars, diskVars, recordVars
<1>1. \A w \in Workers :
         /\ w \in stopped => pc'[w] = "idle" /\ task'[w] = "none" /\ local'[w] = Fresh
         /\ w \notin stopped => pc'[w] = pc[w] /\ task'[w] = task[w] /\ local'[w] = local[w]
  BY DEF Crash
<1>2. UNCHANGED <<origin, diskVars, dbVars, recordVars, edits>>
  BY DEF Crash
<1>3. \A w \in Workers :
         /\ Busy(w)' <=> Busy(w) /\ w \notin stopped
         /\ InCourse(w)' <=> InCourse(w) /\ w \notin stopped
  <2>1. "idle" \notin Forward \cup Rollback
    BY FlagNames DEF Forward, Rollback
  <2> QED
    BY <1>1, <2>1 DEF Busy, InCourse
<1>4. WorkersOK'
  <2> SUFFICES ASSUME NEW w \in Workers PROVE WorkerOK(w)'
    BY DEF WorkersOK
  <2>1. CASE w \notin stopped
    BY <1>1, <2>1 DEF PubInv, WorkersOK, WorkerOK, Busy
  <2>2. CASE w \in stopped
    <3>1. "idle" \notin Forward \cup Rollback \cup Flags
      BY FlagNames DEF Forward, Rollback
    <3>2. FlagsFollow("idle", Fresh)
      BY <3>1 DEF FlagsFollow, Fresh, PendingFlags
    <3>3. UndoneSoFar("idle", Fresh)
      BY <3>1 DEF UndoneSoFar, Flags
    <3>4. SnapshotsOK(Fresh)
      BY DEF SnapshotsOK, Fresh
    <3> QED
      BY <1>1, <2>2, <3>2, <3>3, <3>4 DEF WorkerOK, Busy
  <2> QED
    BY <2>1, <2>2
<1>5. LocksHeld'
  BY <1>1, <1>2, <1>3 DEF PubInv, HoldersOK, LocksHeld, Workers, Busy
<1>6. RecordsSingle' /\ RecordsWellFormed'
  BY <1>1, <1>2, <1>3 DEF PubInv, HoldersOK, RecordsSingle, RecordsWellFormed
<1>7. RecordsHeld'
  BY <1>1, <1>2, <1>3 DEF PubInv, HoldersOK, RecordsHeld, Workers
<1>8. JobsKnown'
  BY <1>1, <1>2, <1>3 DEF PubInv, HoldersOK, JobsKnown, Workers
<1>9. ActiveOK'
  <2> SUFFICES ASSUME NEW w \in Workers, InCourse(w)'
               PROVE  (IF jobStatus[task[w]] = "succeeded" THEN Finishing(w) ELSE Working(w))'
    BY DEF ActiveOK
  <2>1. InCourse(w) /\ pc'[w] = pc[w] /\ task'[w] = task[w] /\ local'[w] = local[w]
    BY <1>1, <1>3
  <2> QED
    BY <1>2, <2>1, AtStep
    DEF Finishing, NothingUnderWay, Working, FlagsOK, Covers, Deserved, Recoverable, Registered, RegisteredAsin
<1>10. WaitingOK'
  <2> SUFFICES ASSUME NEW k \in Jobs, Waiting(k)' PROVE FlagsOK(k, record[k])'
    BY DEF WaitingOK
  <2>1. k # "none"
    BY CapturePublicationAssumption
  <2>2. k \in lock => \E u \in Tools : u \notin stopped /\ task[u] = k
    BY <1>1, <1>2, <2>1 DEF Waiting, Workers
  <2>3. \A v \in Workers : InCourse(v) => task[v] # k
    <3> SUFFICES ASSUME NEW v \in Workers, InCourse(v), task[v] = k PROVE FALSE
      OBVIOUS
    <3>1. v \in stopped
      BY <1>1, <1>3 DEF Waiting
    <3>2. v \in Tools /\ Busy(v)
      <4>1. v \notin Threads
        BY <1>2, AtStep DEF Waiting
      <4> QED
        BY <4>1, OnlyActive DEF Workers
    <3>3. k \in lock
      BY <3>2 DEF PubInv, HoldersOK, LocksHeld
    <3> QED
      BY <2>1, <2>2, <3>1, <3>2, <3>3 DEF PubInv, HoldersOK, LocksHeld, Busy
  <2>4. Waiting(k)
    BY <1>2, <2>2, <2>3 DEF Waiting
  <2>5. FlagsOK(k, record[k])
    BY <2>4 DEF PubInv, DiskOK, WaitingOK
  <2> QED
    BY <1>2, <2>5 DEF FlagsOK, Covers, Deserved, Recoverable, Registered, RegisteredAsin
<1>11. CleanOK' /\ BackupsOK' /\ OriginOK' /\ DamageIsRecorded' /\ RegisteredImagesKept'
       /\ PackagesAndEditsKept'
  BY <1>2 DEF PubInv, DiskOK, CleanOK, NothingUnderWay, Registered, RegisteredAsin, BackupsOK, OriginOK,
              DamageIsRecorded, RegisteredImagesKept, PackagesAndEditsKept, PackageKept, EditsKept
<1> QED
  BY <1>4, <1>5, <1>6, <1>7, <1>8, <1>9, <1>10, <1>11 DEF PubInv, HoldersOK, DiskOK

\* The invariant holds at the start.
LEMMA PubInvInit == Init => PubInv
<1> SUFFICES ASSUME Init PROVE PubInv
  OBVIOUS
<1> USE DEF Init
<1>1. TypeOK
  BY TypesInit
<1>2. "idle" \notin Forward \cup Rollback \cup Flags
  BY FlagNames DEF Forward, Rollback
<1>3. \A w \in Workers : ~Busy(w) /\ ~InCourse(w) /\ local[w] = Fresh /\ pc[w] = "idle"
  BY <1>2 DEF Busy, InCourse
<1>4. WorkersOK
  <2>2. FlagsFollow("idle", Fresh)
    BY <1>2 DEF FlagsFollow, Fresh, PendingFlags
  <2>3. UndoneSoFar("idle", Fresh)
    BY <1>2 DEF UndoneSoFar, Flags
  <2>4. SnapshotsOK(Fresh)
    BY DEF SnapshotsOK, Fresh
  <2> QED
    BY <1>3, <2>2, <2>3, <2>4 DEF WorkersOK, WorkerOK
<1>5. HoldersOK
  BY <1>3 DEF HoldersOK, LocksHeld, RecordsSingle, RecordsHeld, RecordsWellFormed, JobsKnown,
              Workers, SnapshotsOK, NoRecord
<1>6. target = origin.images /\ meta = origin.meta /\ origin.images \in {"none", "original"}
  OBVIOUS
<1>7. DiskOK
  <2>1. ActiveOK /\ WaitingOK
    BY <1>3 DEF ActiveOK, WaitingOK, Waiting, NoRecord
  <2>2. CleanOK
    BY <1>6 DEF CleanOK, NothingUnderWay, Registered, RegisteredAsin
  <2>3. BackupsOK /\ OriginOK
    BY <1>6 DEF BackupsOK, OriginOK
  <2>4. DamageIsRecorded
    BY <1>6, CapturePublicationAssumption DEF DamageIsRecorded
  <2>5. RegisteredImagesKept
    BY <1>6 DEF RegisteredImagesKept
  <2>6. PackagesAndEditsKept
    BY DEF PackagesAndEditsKept, PackageKept, EditsKept
  <2> QED
    BY <2>1, <2>2, <2>3, <2>4, <2>5, <2>6 DEF DiskOK
<1> QED
  BY <1>1, <1>4, <1>5, <1>7 DEF PubInv

\* Every step keeps the invariant while one job is worked on at a time.
LEMMA PubInvStep == PubInv /\ OneJobAtATime /\ [Next]_vars => PubInv'
<1> SUFFICES ASSUME PubInv, OneJobAtATime, [Next]_vars PROVE PubInv'
  OBVIOUS
<1>1. TypeOK'
  <2>1. BusyOK
    BY DEF PubInv, WorkersOK, WorkerOK, BusyOK
  <2> QED
    BY <2>1, TypesStep DEF PubInv
<1>2. ASSUME NEW w \in Workers, Publishing(w) PROVE PubInv'
  BY <1>1, <1>2, LoadOK, BeginOK, StageOK, BackupExistingOK, PublishTargetOK, UpdateMetaOK,
     ArchivePackageOK, MarkSucceededOK, ClearOK DEF Publishing
<1>3. ASSUME NEW w \in Workers, Compensating(w) PROVE PubInv'
  BY <1>1, <1>3, ResumingOK, SettleOK, RaiseOK, UndoOK DEF Compensating
<1>4. CASE UNCHANGED vars
  <2>1. UNCHANGED <<origin, audit, target, backup, staging, recordVars, workerVars,
                    jobStatus, package, meta, edits>>
    BY <1>4 DEF vars, diskVars, dbVars, boundVars
  <2>2. PackagesAndEditsKept'
    BY <2>1 DEF PubInv, DiskOK, PackagesAndEditsKept, PackageKept, EditsKept
  <2> QED
    BY <1>1, <2>1, <2>2, OutsideOK
<1>5. Crash(Threads) => PubInv'
  <2>1. Threads \in SUBSET Workers /\ Threads \cap Tools = {}
    BY CapturePublicationAssumption DEF Workers
  <2> QED
    BY <1>1, <2>1, CrashOK
<1>6. \A w \in Tools : Crash({w}) => PubInv'
  <2> SUFFICES ASSUME NEW w \in Tools, Crash({w}) PROVE PubInv'
    OBVIOUS
  <2>1. {w} \in SUBSET Workers
    BY DEF Workers
  <2> QED
    BY <1>1, <2>1, CrashOK
<1> QED
  BY <1>1, <1>2, <1>3, <1>4, <1>5, <1>6, CheckOK, TakeLockOK, ReadRecordOK, UnlockOK, EnvironmentOK
  DEF Next

-----------------------------------------------------------------------------
(* Theorems. *)

\* The variables keep their types, whatever the threads and tools do.
THEOREM RegistrationTypeCorrect == Spec => []TypeOK
<1>1. Init => TypeOK /\ BusyOK
  BY PubInvInit DEF PubInv, WorkersOK, WorkerOK, BusyOK
<1>2. TypeOK /\ BusyOK /\ [Next]_vars => (TypeOK /\ BusyOK)'
  BY TypesStep, BusyStep
<1> QED
  BY <1>1, <1>2, PTL DEF Spec

\* While one job is worked on at a time, the records, the flags and the disk
\* agree at every step of complete(), of its rollback and of the tool.
THEOREM RegistrationInvariant == Spec /\ []OneJobAtATime => []PubInv
BY PubInvInit, PubInvStep, PTL DEF Spec

\* The records tell what is left to undo, and only that.
LEMMA RecordsTellTheTruth == PubInv => RecordsMatchDamage
<1> SUFFICES ASSUME PubInv PROVE RecordsMatchDamage
  OBVIOUS
<1>1. DamageIsRecorded
  BY DEF PubInv, DiskOK
<1>2. ASSUME NEW j \in Jobs, record[j].phase = "recovery", Idle(j), j \notin lock,
             jobStatus[j] # "succeeded", j \notin unsaved
      PROVE  Covers(j, record[j].flags) /\ Deserved(j, record[j].flags)
  <2>1. Waiting(j)
    BY <1>2 DEF Waiting, Idle
  <2> QED
    BY <1>2, <2>1 DEF PubInv, DiskOK, WaitingOK, FlagsOK
<1>3. RecoveryRecordExact
  <2> SUFFICES ASSUME NEW j \in Jobs, record[j].phase = "recovery", Idle(j), j \notin lock,
                      jobStatus[j] # "succeeded", j \notin unsaved
               PROVE  LET left == record[j].flags IN
                        /\ "archived" \in left <=> package[j] = "processed"
                        /\ "target_published" \in left <=> target \in {j, "debris"}
                        /\ "existing_backed_up" \in left <=> backup[j] \notin {"none", "empty"}
                        /\ staging[j] => "staging_pending" \in left
                        /\ backup[j] # "none" => "generation_pending" \in left
    BY DEF RecoveryRecordExact
  <2> QED
    BY <1>2 DEF Covers, Deserved
<1> QED
  BY <1>1, <1>3 DEF RecordsMatchDamage

\* Without a record nothing is left half done.
LEMMA NothingHalfDone == PubInv => AllOrNothing
<1> SUFFICES ASSUME PubInv, unsaved = {}, \A j \in Jobs : Idle(j) /\ record[j] = NoRecord
             PROVE  /\ target = Registered
                    /\ meta.asin = IF audit = "none" THEN origin.meta.asin ELSE "this"
                    /\ \A j \in Jobs :
                         /\ ~staging[j]
                         /\ jobStatus[j] # "succeeded" =>
                               package[j] # "processed" /\ backup[j] = "none"
  BY DEF AllOrNothing
<1>1. NothingUnderWay
  BY DEF PubInv, DiskOK, CleanOK
<1>2. DamageIsRecorded
  BY DEF PubInv, DiskOK
<1> QED
  BY <1>1, <1>2 DEF NothingUnderWay, RegisteredAsin, DamageIsRecorded

\* No failure, crash, retry or recovery loses registered images.
THEOREM ImagesAreKept == Spec /\ []OneJobAtATime => []RegisteredImagesKept
<1>1. PubInv => RegisteredImagesKept
  BY DEF PubInv, DiskOK
<1> QED
  BY <1>1, RegistrationInvariant, PTL

\* Nor a package, nor an edit of the library entry.
THEOREM PackagesAndEditsAreKept == Spec /\ []OneJobAtATime => []PackagesAndEditsKept
<1>1. PubInv => PackagesAndEditsKept
  BY DEF PubInv, DiskOK
<1> QED
  BY <1>1, RegistrationInvariant, PTL

\* A registration takes place as a whole or not at all.
THEOREM RegistrationIsAtomic == Spec /\ []OneJobAtATime => []AllOrNothing
BY NothingHalfDone, RegistrationInvariant, PTL

\* A damage has a record, and the record of a rollback describes the damage.
THEOREM RecordsAreExact == Spec /\ []OneJobAtATime => []RecordsMatchDamage
BY RecordsTellTheTruth, RegistrationInvariant, PTL

-----------------------------------------------------------------------------
(* When one job is worked on at a time. *)

\* One server thread, or one job, is enough: the tool only works on a job that
\* has a record, and complete() refuses every job while there is one.
OneThreadOrJob == (\A s, t \in Threads : s = t) \/ (\A j, k \in Jobs : j = k)

\* A worker that returns, or goes on, takes up no other job.
LEMMA TasksStay ==
    ASSUME TypeOK, BusyOK, NEW w \in Workers, Publishing(w) \/ Compensating(w) \/ ReadRecord(w) \/ Unlock(w)
    PROVE  task' = task \/ task' = [task EXCEPT ![w] = "none"]
<1>1. CASE Publishing(w)
  <2>1. CASE Load(w) \/ Construct(w) \/ Begin(w)
    BY <2>1 DEF Load, Construct, Begin, Return
  <2>2. CASE Stage(w) \/ BackupExisting(w) \/ PublishTarget(w)
    BY <2>2 DEF Stage, BackupExisting, PublishTarget, Done, Fails
  <2>3. CASE UpdateMeta(w) \/ ArchivePackage(w)
    BY <2>3 DEF UpdateMeta, ArchivePackage, Done, Fails
  <2>4. CASE MarkSucceeded(w) \/ Clear(w)
    BY <2>4 DEF MarkSucceeded, Clear, Fails, Return
  <2> QED
    BY <1>1, <2>1, <2>2, <2>3, <2>4 DEF Publishing
<1>2. CASE Compensating(w)
  <2>1. CASE Resuming(w) \/ \E i \in 1..6 : Undo(w, i)
    BY <2>1 DEF Resuming, Undo
  <2>2. CASE Settle(w) \/ Raise(w)
    BY <2>2 DEF Settle, Raise, EndRollback, Return
  <2> QED
    BY <1>2, <2>1, <2>2 DEF Compensating
<1>3. CASE ReadRecord(w) \/ Unlock(w)
  BY <1>3 DEF ReadRecord, Unlock, Return
<1> QED
  BY <1>1, <1>2, <1>3

\* Then two jobs are never worked on at once.
LEMMA OneJobStep == PubInv /\ OneJobAtATime /\ OneThreadOrJob /\ [Next]_vars => OneJobAtATime'
<1> SUFFICES ASSUME PubInv, OneJobAtATime, OneThreadOrJob, [Next]_vars PROVE OneJobAtATime'
  OBVIOUS
<1>0. TypeOK /\ BusyOK
  BY DEF PubInv, WorkersOK, WorkerOK, BusyOK
<1>1. CASE \A j, k \in Jobs : j = k
  <2>1. TypeOK'
    BY <1>0, TypesStep
  <2> QED
    BY <1>1, <2>1 DEF OneJobAtATime, TypeOK
<1>2. CASE \A s, t \in Threads : s = t
  <2>1. ASSUME NEW w \in Workers, NEW j \in Jobs, Check(w, j) PROVE OneJobAtATime'
    <3>1. w \in Threads /\ lock = {} /\ task' = [task EXCEPT ![w] = j]
      BY <2>1 DEF Check
    <3>2. \A v \in Tools : task[v] = "none"
      BY <3>1 DEF PubInv, HoldersOK, LocksHeld, Busy
    <3>3. \A v \in Workers : v # w => task'[v] = "none"
      BY <1>0, <1>2, <3>1, <3>2 DEF Workers, TypeOK
    <3> QED
      BY <3>3 DEF OneJobAtATime
  <2>2. ASSUME NEW w \in Workers, NEW j \in Jobs, TakeLock(w, j) PROVE OneJobAtATime'
    <3>1. record[j] # NoRecord /\ task' = [task EXCEPT ![w] = j]
      BY <2>2 DEF TakeLock
    <3>2. \A v \in Workers : task[v] \in {"none", j}
      BY <3>1 DEF PubInv, HoldersOK, RecordsSingle, Busy
    <3>3. \A v \in Workers : task'[v] \in {"none", j}
      BY <1>0, <3>1, <3>2 DEF TypeOK
    <3> QED
      BY <3>3 DEF OneJobAtATime
  <2>3. ASSUME NEW w \in Workers,
               Publishing(w) \/ Compensating(w) \/ ReadRecord(w) \/ Unlock(w)
        PROVE  OneJobAtATime'
    <3>1. task' = task \/ task' = [task EXCEPT ![w] = "none"]
      BY <1>0, <2>3, TasksStay
    <3>2. \A v \in Workers : task'[v] \in {task[v], "none"}
      BY <1>0, <3>1 DEF TypeOK
    <3> QED
      BY <3>2 DEF OneJobAtATime
  <2>4. ASSUME NEW stopped \in SUBSET Workers, Crash(stopped) PROVE OneJobAtATime'
    BY <2>4 DEF Crash, OneJobAtATime
  <2>5. CASE (\E j \in Jobs : Deliver(j) \/ JobFails(j)) \/ Edit \/ UNCHANGED vars
    BY <2>5 DEF Deliver, JobFails, Edit, vars, workerVars, OneJobAtATime
  <2>6. Threads \in SUBSET Workers /\ \A w \in Tools : {w} \in SUBSET Workers
    BY DEF Workers
  <2> QED
    BY <2>1, <2>2, <2>3, <2>4, <2>5, <2>6 DEF Next
<1> QED
  BY <1>1, <1>2 DEF OneThreadOrJob

\* So with one server thread, or one job, the invariant needs no hypothesis on
\* the behaviour: any number of tools, faults and crashes is recovered from.
THEOREM SingleThreadIsSafe ==
    ASSUME OneThreadOrJob
    PROVE  Spec => [](RegisteredImagesKept /\ PackagesAndEditsKept /\ AllOrNothing
                      /\ RecordsMatchDamage)
<1>1. Init => PubInv /\ OneJobAtATime
  <2>1. Init => OneJobAtATime
    BY DEF Init, OneJobAtATime
  <2> QED
    BY <2>1, PubInvInit
<1>2. PubInv /\ OneJobAtATime /\ [Next]_vars => (PubInv /\ OneJobAtATime)'
  BY PubInvStep, OneJobStep
<1>3. PubInv => RegisteredImagesKept /\ PackagesAndEditsKept /\ AllOrNothing /\ RecordsMatchDamage
  BY NothingHalfDone, RecordsTellTheTruth DEF PubInv, DiskOK
<1> QED
  BY <1>1, <1>2, <1>3, PTL DEF Spec

=============================================================================
