---------------------------- MODULE Catalog_proof ----------------------------
(***************************************************************************)
(* Theorems about what the server keeps of the books, for every value of   *)
(* the constants: the imports of the Kindle exports, the watched price,    *)
(* the backups, the files and rows of the library, the pages of a book,    *)
(* and MCCatalog, which puts them beside the registration of captured      *)
(* images.  Each part has an inductive invariant of its own.               *)
(***************************************************************************)
EXTENDS MCCatalog, CapturePublication_proof, SequenceTheorems, FiniteSetTheorems,
    FunctionTheorems

-----------------------------------------------------------------------------
(* The backups. *)

Generation ==
    [created : 0 .. MaxDay, locked : BOOLEAN, paired : BOOLEAN, files : {"whole", "half", "gone"}, listed : BOOLEAN]

\* What a running command knows, and what its generation is once it is published.
CommandFits(c) ==
    \/ c = NoCommand
    \/ /\ c.locked \in BOOLEAN
       /\ \/ c.at \in {"novel", "lance", "publish", "purge"} /\ c.now \in 0 .. day
          \/ c.at = "restore" /\ c.of \in DOMAIN generations
       /\ c.at = "publish" => c.paired = TRUE
       /\ c.at = "purge" => \E n \in DOMAIN generations :
              generations[n].created = c.now /\ generations[n].locked = c.locked

\* What was made under the lock is not on its way twice.
LockIsHeldOnce ==
    \A k, other \in BackupTools : command[k].locked /\ command[other].locked => k = other

BackupBasics ==
    /\ live \in [Stores -> 0 .. MaxTexts]
    /\ generations \in Seq(Generation) /\ Len(generations) <= MaxGenerations
    /\ DOMAIN command = BackupTools
    /\ day \in 0 .. MaxDay /\ backupFaults \in 0 .. MaxBackupFaults
    /\ \A n \in DOMAIN generations : generations[n].created <= day

\* Whole generations are listed, and are of one text.
GenerationsFit ==
    \A n \in DOMAIN generations :
        generations[n].paired /\ (generations[n].files = "whole" => generations[n].listed)

BackupInv ==
    /\ BackupBasics /\ GenerationsFit /\ RecentStay /\ RestoredStays /\ LockIsHeldOnce
    /\ \A k \in BackupTools : CommandFits(command[k])

\* The invariant gives the properties and the types.
LEMMA BackupAt == BackupInv => BackupsAgree /\ BackupTypeOK
<1> SUFFICES ASSUME BackupInv PROVE BackupsAgree /\ BackupTypeOK
  OBVIOUS
<1>1. BackupsAgree
  BY DEF BackupInv, BackupsAgree, GenerationsAgree, GenerationsFit
<1>2. \A n \in DOMAIN generations : generations[n] \in Generation
  BY ElementOfSeq DEF BackupInv, BackupBasics
<1>3. \A k \in BackupTools : command[k].at \in {"rest", "novel", "lance", "publish", "purge", "restore"}
  BY DEF BackupInv, CommandFits, NoCommand
<1> QED
  BY <1>1, <1>2, <1>3 DEF BackupTypeOK, BackupInv, BackupBasics, Generation

\* Nothing is saved and no command runs at first.
LEMMA BackupInvInit == BackupInit => BackupInv
<1> SUFFICES ASSUME BackupInit PROVE BackupInv
  OBVIOUS
<1>1. generations = <<>> /\ Len(generations) = 0 /\ DOMAIN generations = {} /\ generations \in Seq(Generation)
  BY DEF BackupInit
<1>2. BackupBasics
  BY <1>1, BackupAssumption DEF BackupBasics, BackupInit
<1> QED
  BY <1>1, <1>2 DEF BackupInv, GenerationsFit, RecentStay, RestoredStays, LockIsHeldOnce, CommandFits, NoCommand, BackupInit

\* Of some generations one is the youngest.
LEMMA YoungestIsOne ==
    ASSUME BackupBasics, generations # <<>>
    PROVE  \E n \in DOMAIN generations : \A m \in DOMAIN generations : generations[m].created <= generations[n].created
<1> DEFINE Ages == {day - generations[n].created : n \in DOMAIN generations}
<1>1. \A n \in DOMAIN generations : generations[n].created \in 0 .. day
  <2> SUFFICES ASSUME NEW n \in DOMAIN generations PROVE generations[n].created \in 0 .. day
    OBVIOUS
  <2>1. generations[n] \in Generation
    BY ElementOfSeq DEF BackupBasics
  <2> QED
    BY <2>1 DEF BackupBasics, Generation
<1>2. day \in Nat
  BY DEF BackupBasics
<1>3. Ages \subseteq Nat
  BY <1>1, <1>2
<1>4. Ages # {}
  <2>1. Len(generations) \in Nat /\ DOMAIN generations = 1 .. Len(generations) /\ Len(generations) # 0
    BY EmptySeq, LenProperties DEF BackupBasics
  <2>2. 1 \in DOMAIN generations
    BY <2>1
  <2> QED
    BY <2>2
<1>5. PICK x \in Ages : \A y \in Ages : ~(<<y, x>> \in OpToRel(<, Nat))
  BY <1>3, <1>4, NatLessThanWellFounded, WFMin
<1>6. \A y \in Ages : x <= y
  <2> SUFFICES ASSUME NEW y \in Ages, ~(x <= y) PROVE FALSE
    OBVIOUS
  <2>1. y < x /\ <<y, x>> \in Nat \X Nat
    BY <1>3
  <2>2. <<y, x>> \in OpToRel(<, Nat)
    BY <2>1 DEF OpToRel
  <2> QED
    BY <1>5, <2>2
<1>7. PICK n \in DOMAIN generations : x = day - generations[n].created
  OBVIOUS
<1>8. \A m \in DOMAIN generations : generations[m].created <= generations[n].created
  <2> SUFFICES ASSUME NEW m \in DOMAIN generations PROVE generations[m].created <= generations[n].created
    OBVIOUS
  <2>1. x <= day - generations[m].created
    BY <1>6
  <2>2. generations[m].created \in 0 .. day /\ generations[n].created \in 0 .. day
    BY <1>1
  <2> QED
    BY <1>2, <1>7, <2>1, <2>2
<1> QED
  BY <1>8

\* The latest of the listed generations is whole.
LEMMA LatestIsWhole ==
    ASSUME BackupBasics, GenerationsFit, RecentStay, NEW n \in Latest
    PROVE  n \in DOMAIN generations /\ generations[n].files = "whole"
<1>1. n \in DOMAIN generations /\ \A m \in Listed : generations[m].created <= generations[n].created
  BY DEF Latest, Listed
<1>2. generations # <<>>
  BY <1>1
<1>3. PICK y \in DOMAIN generations : \A m \in DOMAIN generations : generations[m].created <= generations[y].created
  BY <1>2, YoungestIsOne
<1>4. \A m \in DOMAIN generations : generations[m].created \in Nat
  <2> SUFFICES ASSUME NEW m \in DOMAIN generations PROVE generations[m].created \in Nat
    OBVIOUS
  <2>1. generations[m] \in Generation
    BY ElementOfSeq DEF BackupBasics
  <2> QED
    BY <2>1 DEF Generation
<1>5. generations[y].files = "whole"
  <2> SUFFICES ASSUME generations[y].files # "whole" PROVE FALSE
    OBVIOUS
  <2>1. PICK m \in DOMAIN generations : generations[m].created > generations[y].created + RetentionDays
    BY DEF RecentStay
  <2> QED
    BY <1>3, <1>4, <2>1, BackupAssumption
<1>6. y \in Listed
  BY <1>5 DEF GenerationsFit, Listed
<1>7. generations[n].files = "whole"
  <2> SUFFICES ASSUME generations[n].files # "whole" PROVE FALSE
    OBVIOUS
  <2>1. PICK m \in DOMAIN generations : generations[m].created > generations[n].created + RetentionDays
    BY <1>1 DEF RecentStay
  <2> QED
    BY <1>1, <1>3, <1>4, <1>6, <2>1, BackupAssumption
<1> QED
  BY <1>1, <1>7

\* A command that takes a step leaves what the others know; the generations stay.
LEMMA CommandSteps ==
    ASSUME BackupInv, NEW k \in BackupTools, NEW step, Does(k, step),
           UNCHANGED <<live, generations, day>>, backupFaults' \in 0 .. MaxBackupFaults,
           CommandFits(step),
           step = NoCommand \/ step.locked = command[k].locked \/ (command[k] = NoCommand /\ MayStart(k, step.locked)),
           step # NoCommand /\ step.at = "restore" => generations[step.of].files = "whole"
    PROVE  BackupInv'
<1> USE DEF BackupInv
<1>1. \A other \in BackupTools : command'[other] = IF other = k THEN step ELSE command[other]
  BY DEF Does, BackupBasics
<1>2. BackupBasics' /\ GenerationsFit' /\ RecentStay'
  BY DEF Does, BackupBasics, GenerationsFit, RecentStay
<1>3. \A other \in BackupTools : CommandFits(command[other])'
  BY <1>1 DEF CommandFits
<1>4. LockIsHeldOnce'
  BY <1>1 DEF LockIsHeldOnce, MayStart, NoCommand
<1>5. RestoredStays'
  BY <1>1 DEF RestoredStays, NoCommand
<1> QED
  BY <1>2, <1>3, <1>4, <1>5

\* A generation loses files only by a command that has published a younger one.
LEMMA PurgeSteps ==
    ASSUME BackupInv, NEW k \in BackupTools, command[k].at = "purge",
           NEW n \in Expired(k), NEW left, NEW listed \in BOOLEAN, left \in {"half", "gone"},
           Becomes(n, left, listed), UNCHANGED <<live, day>>, backupFaults' \in 0 .. MaxBackupFaults,
           UNCHANGED command \/ Does(k, NoCommand)
    PROVE  BackupInv'
<1> USE DEF BackupInv
<1>1. /\ n \in DOMAIN generations /\ generations[n].created < command[k].now - RetentionDays
      /\ CommandFits(command[k])
  BY DEF Expired, Listed
<1>2. PICK m \in DOMAIN generations : generations[m].created = command[k].now /\ generations[m].locked = command[k].locked
  BY <1>1 DEF CommandFits, NoCommand
<1>3. \A i \in DOMAIN generations : generations[i] \in Generation
  BY ElementOfSeq DEF BackupBasics
<1>4. generations' = [generations EXCEPT ![n] = [generations[n] EXCEPT !.files = left, !.listed = listed]]
  BY <1>1, <1>3 DEF Becomes, Generation
<1>5. /\ DOMAIN generations' = DOMAIN generations /\ Len(generations') = Len(generations)
      /\ generations' \in Seq(Generation)
  <2>1. [generations[n] EXCEPT !.files = left, !.listed = listed] \in Generation
    BY <1>1, <1>3 DEF Generation
  <2> QED
    BY <1>1, <1>4, <2>1, ExceptSeq, LenProperties DEF BackupBasics
<1>6. \A i \in DOMAIN generations :
          /\ generations'[i].created = generations[i].created /\ generations'[i].locked = generations[i].locked
          /\ generations'[i].paired = generations[i].paired
          /\ i # n => generations'[i] = generations[i]
  BY <1>1, <1>3, <1>4 DEF Generation
<1>7. generations'[n].files = left /\ left # "whole"
  BY <1>1, <1>3, <1>4 DEF Generation
<1>8. \A other \in BackupTools : command'[other] = command[other] \/ command'[other] = NoCommand
  BY DEF Does, BackupBasics
<1>9. BackupBasics'
  BY <1>5, <1>6 DEF BackupBasics, Does
<1>10. GenerationsFit'
  BY <1>5, <1>6, <1>7 DEF GenerationsFit
<1>11. RecentStay'
  <2> SUFFICES ASSUME NEW i \in DOMAIN generations, generations'[i].files # "whole"
               PROVE  \E y \in DOMAIN generations : generations[y].created > generations[i].created + RetentionDays
    BY <1>5, <1>6 DEF RecentStay
  <2>1. CASE i = n
    <3>1. generations[i].created \in Nat /\ command[k].now \in Nat
      BY <1>2, <1>3 DEF Generation
    <3> QED
      BY <1>1, <1>2, <2>1, <3>1, BackupAssumption
  <2>2. CASE i # n
    BY <1>6, <2>2 DEF RecentStay
  <2> QED
    BY <2>1, <2>2
<1>12. RestoredStays'
  <2> SUFFICES ASSUME NEW other \in BackupTools, command'[other].at = "restore", command'[other].locked
               PROVE  \/ generations'[command'[other].of].files = "whole"
                      \/ \E i \in DOMAIN generations : ~generations'[i].locked
    BY <1>5 DEF RestoredStays
  <2>1. command'[other] = command[other] /\ command[other].at = "restore"
    BY <1>8 DEF NoCommand
  <2>2. CASE command[other].of # n
    <3>1. command[other].of \in DOMAIN generations
      BY <2>1 DEF CommandFits, NoCommand
    <3> QED
      BY <1>6, <2>1, <2>2, <3>1 DEF RestoredStays
  <2>3. CASE command[other].of = n
    <3>1. ~command[k].locked
      BY <2>1 DEF LockIsHeldOnce
    <3> QED
      BY <1>2, <1>6, <3>1
  <2> QED
    BY <2>2, <2>3
<1>13. LockIsHeldOnce'
  BY <1>8 DEF LockIsHeldOnce, NoCommand
<1>14. \A other \in BackupTools : CommandFits(command[other])'
  BY <1>5, <1>6, <1>8 DEF CommandFits
<1> QED
  BY <1>9, <1>10, <1>11, <1>12, <1>13, <1>14

\* A backup that agrees becomes a generation.
LEMMA PublishSteps ==
    ASSUME BackupInv, NEW k \in BackupTools, Publish(k)
    PROVE  BackupInv'
<1> USE DEF BackupInv
<1> DEFINE new == [created |-> command[k].now, locked |-> command[k].locked,
                   paired |-> command[k].paired, files |-> "whole", listed |-> TRUE]
           step == [at |-> "purge", locked |-> command[k].locked, now |-> command[k].now]
<1>1. /\ command[k].at = "publish" /\ Len(generations) < MaxGenerations
      /\ generations' = Append(generations, new) /\ Does(k, step) /\ UNCHANGED <<live, day, backupFaults>>
  BY DEF Publish
<1>2. command[k].locked \in BOOLEAN /\ command[k].now \in 0 .. day /\ command[k].paired = TRUE
  BY <1>1 DEF CommandFits, NoCommand
<1>3. new \in Generation /\ new.created = command[k].now /\ new.locked = command[k].locked /\ new.paired
      /\ new.files = "whole" /\ new.listed
  <2>1. new = [created |-> command[k].now, locked |-> command[k].locked, paired |-> TRUE, files |-> "whole", listed |-> TRUE]
    BY <1>2
  <2>2. command[k].now \in 0 .. MaxDay
    BY <1>2, BackupAssumption DEF BackupBasics
  <2> HIDE DEF new
  <2> QED
    BY <1>2, <2>1, <2>2 DEF Generation
<1>4. step.at = "purge" /\ step.locked = command[k].locked /\ step.now = command[k].now
  OBVIOUS
<1> HIDE DEF new, step
<1>5. /\ Len(generations) \in Nat /\ DOMAIN generations = 1 .. Len(generations)
      /\ generations' \in Seq(Generation) /\ Len(generations') = Len(generations) + 1
      /\ DOMAIN generations' = 1 .. Len(generations')
      /\ \A i \in DOMAIN generations : generations'[i] = generations[i]
      /\ generations'[Len(generations) + 1] = new
  BY <1>1, <1>3, AppendProperties, LenProperties DEF BackupBasics
<1>6. \A i \in DOMAIN generations' : i \in DOMAIN generations \/ i = Len(generations) + 1
  BY <1>5
<1>7. DOMAIN generations \subseteq DOMAIN generations' /\ Len(generations) + 1 \in DOMAIN generations'
  BY <1>5
<1>8. \A other \in BackupTools : command'[other] = IF other = k THEN step ELSE command[other]
  BY <1>1 DEF Does, BackupBasics
<1>9. BackupBasics'
  <2>1. \A i \in DOMAIN generations' : generations'[i].created <= day
    BY <1>2, <1>3, <1>5, <1>6 DEF BackupBasics
  <2> QED
    BY <1>1, <1>5, <2>1, BackupAssumption DEF BackupBasics, Does
<1>10. GenerationsFit'
  BY <1>3, <1>5, <1>6 DEF GenerationsFit
<1>11. RecentStay'
  <2> SUFFICES ASSUME NEW i \in DOMAIN generations', generations'[i].files # "whole"
               PROVE  \E y \in DOMAIN generations' : generations'[y].created > generations'[i].created + RetentionDays
    BY DEF RecentStay
  <2>1. i \in DOMAIN generations
    BY <1>3, <1>5, <1>6
  <2>2. PICK y \in DOMAIN generations : generations[y].created > generations[i].created + RetentionDays
    BY <1>5, <2>1 DEF RecentStay
  <2> QED
    BY <1>5, <1>7, <2>1, <2>2
<1>12. RestoredStays'
  <2> SUFFICES ASSUME NEW other \in BackupTools, command'[other].at = "restore", command'[other].locked
               PROVE  \/ generations'[command'[other].of].files = "whole"
                      \/ \E i \in DOMAIN generations' : ~generations'[i].locked
    BY DEF RestoredStays
  <2>1. command'[other] = command[other]
    BY <1>4, <1>8
  <2>2. command[other].of \in DOMAIN generations
    BY <2>1 DEF CommandFits, NoCommand
  <2> QED
    BY <1>5, <1>7, <2>1, <2>2 DEF RestoredStays
<1>13. LockIsHeldOnce'
  BY <1>4, <1>8 DEF LockIsHeldOnce
<1>14. \A other \in BackupTools : CommandFits(command[other])'
  <2> SUFFICES ASSUME NEW other \in BackupTools PROVE CommandFits(command[other])'
    OBVIOUS
  <2>1. CASE other = k
    BY <1>1, <1>2, <1>3, <1>4, <1>5, <1>7, <1>8, <2>1 DEF CommandFits
  <2>2. CASE other # k
    BY <1>1, <1>5, <1>7, <1>8, <2>2 DEF CommandFits
  <2> QED
    BY <2>1, <2>2
<1> QED
  BY <1>9, <1>10, <1>11, <1>12, <1>13, <1>14

\* Every step keeps the invariant.
LEMMA BackupInvStep == BackupInv /\ [BackupNext]_backupVars => BackupInv'
<1> SUFFICES ASSUME BackupInv, [BackupNext]_backupVars PROVE BackupInv'
  OBVIOUS
<1>0. backupFaults \in 0 .. MaxBackupFaults /\ day \in 0 .. MaxDay /\ BackupBasics
  BY DEF BackupInv, BackupBasics
<1>1. ASSUME NEW s \in Stores, LiveWrites(s) PROVE BackupInv'
  BY <1>1, BackupAssumption DEF LiveWrites, BackupInv, BackupBasics, GenerationsFit, RecentStay, RestoredStays, LockIsHeldOnce,
     CommandFits
<1>2. CASE NextDay
  <2>1. day' = day + 1 /\ day' \in 0 .. MaxDay /\ UNCHANGED <<live, generations, command, backupFaults>>
    BY <1>0, <1>2, BackupAssumption DEF NextDay
  <2>2. \A n \in DOMAIN generations : generations[n].created \in Nat
    <3> SUFFICES ASSUME NEW n \in DOMAIN generations PROVE generations[n].created \in Nat
      OBVIOUS
    <3>1. generations[n] \in Generation
      BY <1>0, ElementOfSeq DEF BackupBasics
    <3> QED
      BY <3>1 DEF Generation
  <2>3. BackupBasics'
    BY <1>0, <2>1, <2>2 DEF BackupBasics
  <2>4. \A k \in BackupTools : CommandFits(command[k])'
    BY <1>0, <2>1 DEF BackupInv, CommandFits
  <2> QED
    BY <2>1, <2>3, <2>4 DEF BackupInv, GenerationsFit, RecentStay, RestoredStays, LockIsHeldOnce
<1>3. ASSUME NEW k \in BackupTools, NEW locked \in BOOLEAN, StartBackup(k, locked) PROVE BackupInv'
  <2> DEFINE step == [at |-> "novel", locked |-> locked, now |-> day]
  <2>1. CommandFits(step) /\ step.locked = locked /\ step.at # "restore"
    BY <1>0 DEF CommandFits
  <2> QED
    BY <1>0, <1>3, <2>1, CommandSteps DEF StartBackup, Starts
<1>4. ASSUME NEW k \in BackupTools, NEW locked \in BOOLEAN, StartVerify(k, locked) PROVE BackupInv'
  <2> PICK n \in Latest : Does(k, [at |-> "restore", locked |-> locked, of |-> n])
    BY <1>4 DEF StartVerify
  <2> DEFINE step == [at |-> "restore", locked |-> locked, of |-> n]
  <2>1. n \in DOMAIN generations /\ generations[n].files = "whole"
    BY LatestIsWhole DEF BackupInv
  <2>2. CommandFits(step) /\ step.locked = locked /\ step.of = n
    BY <2>1 DEF CommandFits
  <2> QED
    BY <1>0, <1>4, <2>1, <2>2, CommandSteps DEF StartVerify, Starts
<1>5. ASSUME NEW k \in BackupTools, CopyNovel(k) PROVE BackupInv'
  <2> DEFINE step == [at |-> "lance", locked |-> command[k].locked, now |-> command[k].now, novel |-> live["novel"]]
  <2>1. command[k].locked \in BOOLEAN /\ command[k].now \in 0 .. day
    BY <1>5 DEF CopyNovel, BackupInv, CommandFits, NoCommand
  <2>2. CommandFits(step) /\ step.locked = command[k].locked /\ step.at # "restore"
    BY <2>1 DEF CommandFits
  <2> QED
    BY <1>0, <1>5, <2>2, CommandSteps DEF CopyNovel
<1>6. ASSUME NEW k \in BackupTools, CopyLance(k) PROVE BackupInv'
  <2> DEFINE paired == command[k].novel = live["lance"]
             step == [at |-> "publish", locked |-> command[k].locked, now |-> command[k].now, paired |-> paired]
  <2>1. command[k].locked \in BOOLEAN /\ command[k].now \in 0 .. day
    BY <1>6 DEF CopyLance, BackupInv, CommandFits, NoCommand
  <2>2. CASE Agrees(command[k].novel, live["lance"])
    <3>1. paired = TRUE
      BY <2>2 DEF Agrees
    <3>2. CommandFits(step) /\ step.locked = command[k].locked /\ step.at # "restore"
      BY <2>1, <3>1 DEF CommandFits
    <3> QED
      BY <1>0, <1>6, <2>2, <3>2, CommandSteps DEF CopyLance
  <2>3. CASE ~Agrees(command[k].novel, live["lance"])
    BY <1>0, <1>6, <2>3, CommandSteps DEF CopyLance, CommandFits
  <2> QED
    BY <2>2, <2>3
<1>7. ASSUME NEW k \in BackupTools, Publish(k) PROVE BackupInv'
  BY <1>7, PublishSteps
<1>8. ASSUME NEW k \in BackupTools, Purge(k) PROVE BackupInv'
  <2>1. CASE Expired(k) = {}
    BY <1>0, <1>8, <2>1, CommandSteps DEF Purge, CommandFits
  <2>2. CASE Expired(k) # {}
    <3>1. PICK n \in Expired(k) : Becomes(n, "gone", FALSE)
      BY <1>8, <2>2 DEF Purge
    <3>2. command[k].at = "purge" /\ UNCHANGED <<live, day, backupFaults, command>>
      BY <1>8, <2>2 DEF Purge
    <3> QED
      BY <1>0, <3>1, <3>2, PurgeSteps
  <2> QED
    BY <2>1, <2>2
<1>9. ASSUME NEW k \in BackupTools, CommandBreaks(k) PROVE BackupInv'
  <2>1. backupFaults' \in 0 .. MaxBackupFaults
    BY <1>0, <1>9, BackupAssumption DEF CommandBreaks
  <2>2. CASE PurgeBreaks(k)
    <3>1. PICK n \in Expired(k), listed \in BOOLEAN : Becomes(n, "half", listed)
      BY <2>2 DEF PurgeBreaks
    <3>2. command[k].at = "purge" /\ UNCHANGED <<live, day>> /\ Does(k, NoCommand)
      BY <2>2 DEF PurgeBreaks
    <3> QED
      BY <2>1, <3>1, <3>2, PurgeSteps
  <2>3. CASE Stops(k)
    BY <2>1, <2>3, CommandSteps DEF Stops, CommandFits
  <2> QED
    BY <1>9, <2>2, <2>3 DEF CommandBreaks
<1>10. ASSUME NEW k \in BackupTools, EndVerify(k) PROVE BackupInv'
  BY <1>0, <1>10, CommandSteps DEF EndVerify, CommandFits
<1>11. CASE UNCHANGED backupVars
  BY <1>11 DEF backupVars, BackupInv, BackupBasics, GenerationsFit, RecentStay, RestoredStays, LockIsHeldOnce, CommandFits
<1> QED
  BY <1>1, <1>2, <1>3, <1>4, <1>5, <1>6, <1>7, <1>8, <1>9, <1>10, <1>11 DEF BackupNext

\* The generations of the backups are each of one text, stay for the retention
\* and can be restored under the lock (server_backup.py).
THEOREM BackupsAreKept == BackupSpec => []BackupsAgree
BY BackupInvInit, BackupInvStep, BackupAt, PTL DEF BackupSpec

-----------------------------------------------------------------------------
(* The watched price. *)

Observation == [price : Prices \cup {0}, ratio : BOOLEAN, prev : 0 .. MaxObservations]
IsPriced(o) == o \in DOMAIN seen /\ seen[o].price # 0

\* A previous observation is an earlier one with a price.
SeenFits ==
    \A n \in DOMAIN seen : seen[n].prev # 0 => seen[n].prev < n /\ IsPriced(seen[n].prev)

\* A reported crossing is below the threshold, and its previous observation is not.
CrossingsFit ==
    \A n \in DOMAIN seen : <<n, "below_threshold">> \in pending \cup marked =>
        /\ Below(seen[n].price, seen[n].ratio)
        /\ seen[n].prev # 0 => ~Below(seen[seen[n].prev].price, seen[seen[n].prev].ratio)

\* What a report knows: one that was sending when its watch was deleted may
\* hold anything.
ReportFits(r) ==
    \/ r.at \in {"idle", "stored"}
    \/ /\ r.at = "compared" /\ r = [at |-> r.at, prev |-> r.prev, was |-> r.was]
       /\ r.prev # 0 => IsPriced(r.prev) /\ r.was = PriceOf(r.prev)
    \/ /\ r.at \in {"sending", "marking"} /\ r = [at |-> r.at, todo |-> r.todo, late |-> r.late]
       /\ r.late \in BOOLEAN
       /\ ~r.late => /\ r.todo \subseteq pending \cup marked
                     /\ r.at = "marking" => Group(r.todo) \subseteq posted

PriceBasics ==
    /\ seen \in Seq(Observation) /\ Len(seen) <= MaxObservations
    /\ pending \subseteq Notifications /\ marked \subseteq Notifications
    /\ posted \subseteq Notifications /\ astray \subseteq Notifications
    /\ watched \in BOOLEAN
    /\ DOMAIN report = Reporters
    /\ breaks \in 0 .. MaxBreaks

PriceInv ==
    /\ PriceBasics /\ SeenFits /\ CrossingsFit /\ NotificationsAreKept
    /\ \A q \in Reporters : ReportFits(report[q])

\* Two reported crossings have a price above the threshold between them.
LEMMA CrossingsApart == PriceBasics /\ SeenFits /\ CrossingsFit => CrossingsAreReportedOnce
<1> SUFFICES ASSUME PriceBasics, SeenFits, CrossingsFit, NEW m \in 1 .. Len(seen), NEW n \in 1 .. Len(seen), m < n,
                    <<m, "below_threshold">> \in pending \cup marked,
                    <<n, "below_threshold">> \in pending \cup marked,
                    ~(seen[n].prev < m)
             PROVE  \E k \in m + 1 .. n - 1 : seen[k].price # 0 /\ ~Below(seen[k].price, seen[k].ratio)
  BY DEF CrossingsAreReportedOnce
<1> DEFINE k == seen[n].prev
<1>1. DOMAIN seen = 1 .. Len(seen) /\ Len(seen) \in Nat
  BY LenProperties DEF PriceBasics
<1>2. k \in Nat
  <2>1. seen[n] \in Observation
    BY <1>1, ElementOfSeq DEF PriceBasics
  <2> QED
    BY <2>1, PriceAssumption DEF Observation
<1>3. k # 0 /\ k < n /\ IsPriced(k) /\ ~Below(seen[k].price, seen[k].ratio)
  BY <1>1, <1>2 DEF SeenFits, CrossingsFit
<1>4. Below(seen[m].price, seen[m].ratio)
  BY <1>1 DEF CrossingsFit
<1>5. k \in m + 1 .. n - 1
  BY <1>1, <1>2, <1>3, <1>4
<1> QED
  BY <1>3, <1>5 DEF IsPriced

\* The invariant gives the properties and the types.
LEMMA PriceAt == PriceInv => NotificationsAgree /\ PriceTypeOK
<1> SUFFICES ASSUME PriceInv PROVE NotificationsAgree /\ PriceTypeOK
  OBVIOUS
<1>1. NotificationsAgree
  BY CrossingsApart DEF PriceInv, NotificationsAgree
<1>2. \A q \in Reporters : report[q].at \in {"idle", "compared", "stored", "sending", "marking"}
  BY DEF PriceInv, ReportFits
<1> QED
  BY <1>1, <1>2 DEF PriceTypeOK, PriceInv, PriceBasics, Observation

\* Nothing is watched at first.
LEMMA PriceInvInit == PriceInit => PriceInv
<1> SUFFICES ASSUME PriceInit PROVE PriceInv
  OBVIOUS
<1>1. seen = <<>> /\ Len(seen) = 0 /\ DOMAIN seen = {} /\ seen \in Seq(Observation)
  BY DEF PriceInit
<1>2. PriceBasics
  BY <1>1, PriceAssumption DEF PriceBasics, PriceInit
<1> QED
  BY <1>1, <1>2 DEF PriceInv, SeenFits, CrossingsFit, NotificationsAreKept, ReportFits, NoReport, PriceInit

\* The last observation with a price is one.
LEMMA LastIsPriced ==
    ASSUME PriceBasics
    PROVE  LastPriced(Len(seen)) = 0 \/ IsPriced(LastPriced(Len(seen)))
<1> DEFINE priced == {o \in 1 .. Len(seen) : seen[o].price # 0}
           Gaps == {Len(seen) - o : o \in priced}
<1>1. DOMAIN seen = 1 .. Len(seen) /\ Len(seen) \in Nat
  BY LenProperties DEF PriceBasics
<1>2. CASE priced = {}
  BY <1>2 DEF LastPriced
<1>3. CASE priced # {}
  <2>1. Gaps \subseteq Nat /\ Gaps # {}
    BY <1>1, <1>3
  <2>2. PICK x \in Gaps : \A y \in Gaps : ~(<<y, x>> \in OpToRel(<, Nat))
    BY <2>1, NatLessThanWellFounded, WFMin
  <2>3. PICK o \in priced : x = Len(seen) - o
    OBVIOUS
  <2>4. \A k \in priced : k <= o
    <3> SUFFICES ASSUME NEW k \in priced, ~(k <= o) PROVE FALSE
      OBVIOUS
    <3>1. Len(seen) - k \in Gaps /\ Len(seen) - k \in Nat /\ x \in Nat /\ Len(seen) - k < x
      BY <1>1, <2>1, <2>3
    <3>2. <<Len(seen) - k, x>> \in OpToRel(<, Nat)
      BY <3>1 DEF OpToRel
    <3> QED
      BY <2>2, <3>1, <3>2
  <2>5. LastPriced(Len(seen)) = CHOOSE p \in priced : \A k \in priced : k <= p
    BY <1>3 DEF LastPriced
  <2> HIDE DEF priced
  <2>6. LastPriced(Len(seen)) \in priced
    BY <2>4, <2>5
  <2> QED
    BY <1>1, <2>6 DEF priced, IsPriced
<1> QED
  BY <1>2, <1>3

\* A report that takes a step leaves the observations as they are.
LEMMA ReportSteps ==
    ASSUME PriceInv, NEW q \in Reporters, NEW told, Reports(q, told), UNCHANGED <<watched, seen>>,
           pending' \cup marked' = pending \cup marked, pending' \cap marked' = {},
           posted \subseteq posted', posted' \subseteq Notifications, astray' \subseteq Notifications,
           marked' \subseteq posted' \cup astray', breaks' \in 0 .. MaxBreaks,
           \/ ReportFits(told)
           \/ /\ told = [at |-> "marking", todo |-> told.todo, late |-> told.late] /\ told.late \in BOOLEAN
              /\ ~told.late => told.todo \subseteq pending \cup marked /\ Group(told.todo) \subseteq posted'
    PROVE  PriceInv'
<1> USE DEF PriceInv
<1>1. Notifications' = Notifications /\ (\A o : IsPriced(o)' = IsPriced(o)) /\ (\A o : PriceOf(o)' = PriceOf(o))
  BY DEF Notifications, IsPriced, PriceOf
<1>2. PriceBasics'
  BY <1>1 DEF PriceBasics, Reports
<1>3. SeenFits' /\ NotificationsAreKept' /\ CrossingsFit'
  BY DEF SeenFits, IsPriced, NotificationsAreKept, CrossingsFit, Below
<1>4. \A r : ReportFits(r) => ReportFits(r)'
  BY <1>1 DEF ReportFits
<1>5. \A other \in Reporters : ReportFits(report[other])'
  <2> SUFFICES ASSUME NEW other \in Reporters PROVE ReportFits(report[other])'
    OBVIOUS
  <2>1. CASE other = q
    <3>1. report'[other] = told
      BY <2>1 DEF Reports, PriceBasics
    <3>2. \A r : r = told => ReportFits(r)'
      <4> SUFFICES ASSUME NEW r, r = told PROVE ReportFits(r)'
        OBVIOUS
      <4>1. CASE ReportFits(told)
        BY <1>4, <4>1
      <4>2. CASE ~ReportFits(told)
        BY <4>2 DEF ReportFits
      <4> QED
        BY <4>1, <4>2
    <3> QED
      BY <3>1, <3>2
  <2>2. CASE other # q
    <3>1. report'[other] = report[other] /\ ReportFits(report[other])
      BY <2>2 DEF Reports, PriceBasics
    <3> QED
      BY <1>4, <3>1
  <2> QED
    BY <2>1, <2>2
<1> QED
  BY <1>2, <1>3, <1>5

\* An observation is compared with a priced one, and a crossing is queued with it.
LEMMA RecordSteps ==
    ASSUME PriceInv, NEW q \in Reporters, Record(q)
    PROVE  PriceInv'
<1> USE DEF PriceInv
<1>p. PICK prev, was : prev = report[q].prev /\ was = report[q].was
  OBVIOUS
<1>1. PICK price \in Prices \cup {0}, ratio \in BOOLEAN :
          /\ ratio => price # 0
          /\ seen' = Append(seen, [price |-> price, ratio |-> ratio, prev |-> prev])
          /\ pending' = pending \cup ({Len(seen) + 1} \X
                ((IF Dropped(price, was) THEN {"price_drop"} ELSE {})
                 \cup (IF Crossed(price, ratio, was) THEN {"below_threshold"} ELSE {})))
  BY <1>p DEF Record
<1>2. /\ report[q].at = "compared" /\ Len(seen) < MaxObservations /\ Reports(q, [at |-> "stored"])
      /\ UNCHANGED <<watched, marked, posted, astray, breaks>>
  <2>1. Len(seen) + breaks < MaxObservations /\ breaks \in Nat /\ Len(seen) \in Nat
    BY LenProperties, PriceAssumption DEF Record, PriceBasics
  <2> QED
    BY <2>1, PriceAssumption DEF Record
<1> DEFINE new == [price |-> price, ratio |-> ratio, prev |-> prev]
           last == Len(seen) + 1
<1>3. DOMAIN seen = 1 .. Len(seen) /\ Len(seen) \in Nat
  BY LenProperties DEF PriceBasics
<1>4. prev # 0 => IsPriced(prev) /\ was = PriceOf(prev)
  BY <1>p, <1>2 DEF ReportFits
<1>5. prev \in 0 .. Len(seen) /\ prev \in 0 .. MaxObservations
  BY <1>2, <1>3, <1>4, PriceAssumption DEF IsPriced
<1>6. new \in Observation /\ new.price = price /\ new.ratio = ratio /\ new.prev = prev
  BY <1>5 DEF Observation
<1>s. seen' = Append(seen, new)
  BY <1>1
<1> HIDE DEF new
<1>7. /\ seen' \in Seq(Observation) /\ Len(seen') = last /\ DOMAIN seen' = 1 .. last
      /\ \A i \in DOMAIN seen : seen'[i] = seen[i]
      /\ seen'[last] = new
  BY <1>s, <1>3, <1>6, AppendProperties, LenProperties DEF PriceBasics
<1>8. Notifications \subseteq Notifications'
  BY <1>3, <1>7 DEF Notifications
<1>9. /\ pending \subseteq pending' /\ pending' \subseteq pending \cup ({last} \X {"price_drop", "below_threshold"})
      /\ <<last, "below_threshold">> \in pending' => <<last, "below_threshold">> \in pending \/ Crossed(price, ratio, was)
  BY <1>1
<1>10. \A k : <<last, k>> \notin Notifications
  BY <1>3 DEF Notifications
<1>11. {last} \X {"price_drop", "below_threshold"} \subseteq Notifications'
  BY <1>3, <1>7 DEF Notifications
<1>12. PriceBasics'
  <2>1. /\ pending' \subseteq Notifications' /\ marked' \subseteq Notifications' /\ posted' \subseteq Notifications'
        /\ astray' \subseteq Notifications'
    BY <1>2, <1>8, <1>9, <1>11 DEF PriceBasics
  <2>2. Len(seen') <= MaxObservations
    BY <1>2, <1>3, <1>7, PriceAssumption
  <2> QED
    BY <1>2, <1>7, <2>1, <2>2 DEF PriceBasics, Reports
<1>13. \A o : IsPriced(o) => IsPriced(o)'
  <2> SUFFICES ASSUME NEW o, IsPriced(o) PROVE IsPriced(o)'
    OBVIOUS
  <2>1. o \in DOMAIN seen' /\ seen'[o] = seen[o]
    BY <1>3, <1>7 DEF IsPriced
  <2> QED
    BY <2>1 DEF IsPriced
<1>14. SeenFits'
  <2> SUFFICES ASSUME NEW n \in DOMAIN seen', seen'[n].prev # 0
               PROVE  seen'[n].prev < n /\ IsPriced(seen[n].prev)'
    BY DEF SeenFits
  <2>1. CASE n = last
    <3>1. seen'[n].prev = prev /\ prev # 0
      BY <1>6, <1>7, <2>1
    <3>2. prev < n /\ prev \in DOMAIN seen' /\ seen'[prev].price # 0
      BY <1>3, <1>4, <1>5, <1>7, <2>1, <3>1 DEF IsPriced
    <3> QED
      BY <3>1, <3>2 DEF IsPriced
  <2>2. CASE n \in DOMAIN seen
    <3>1. seen'[n] = seen[n] /\ seen[n].prev < n /\ IsPriced(seen[n].prev)
      BY <1>7, <2>2 DEF SeenFits
    <3> QED
      BY <1>7, <3>1 DEF IsPriced
  <2> QED
    BY <1>3, <1>7, <2>1, <2>2
<1>15. CrossingsFit'
  <2> SUFFICES ASSUME NEW n \in DOMAIN seen', <<n, "below_threshold">> \in pending' \cup marked'
               PROVE  /\ Below(seen'[n].price, seen'[n].ratio)
                      /\ seen'[n].prev # 0 => ~Below(seen'[seen'[n].prev].price, seen'[seen'[n].prev].ratio)
    BY DEF CrossingsFit, Below
  <2>1. CASE n = last
    <3>1. Crossed(price, ratio, was)
      BY <1>2, <1>9, <1>10, <2>1 DEF PriceBasics
    <3>2. prev # 0 => seen'[prev] = seen[prev] /\ was = [price |-> seen[prev].price, ratio |-> seen[prev].ratio]
      BY <1>4, <1>7 DEF IsPriced, PriceOf
    <3> QED
      BY <1>6, <1>7, <2>1, <3>1, <3>2 DEF Crossed
  <2>2. CASE n \in DOMAIN seen
    <3>1. <<n, "below_threshold">> \in pending \cup marked
      BY <1>2, <1>3, <1>9, <2>2
    <3>2. seen'[n] = seen[n] /\ (seen[n].prev # 0 => seen'[seen[n].prev] = seen[seen[n].prev])
      BY <1>7, <2>2 DEF SeenFits, IsPriced
    <3> QED
      BY <2>2, <3>1, <3>2 DEF CrossingsFit
  <2> QED
    BY <1>3, <1>7, <2>1, <2>2
<1>16. NotificationsAreKept'
  BY <1>2, <1>9, <1>10 DEF NotificationsAreKept, PriceBasics
<1>o. \A o : o = 0 \/ IsPriced(o) => PriceOf(o)' = PriceOf(o)
  BY <1>7 DEF IsPriced, PriceOf
<1>17. \A other \in Reporters : ReportFits(report[other])'
  <2> SUFFICES ASSUME NEW other \in Reporters PROVE ReportFits(report[other])'
    OBVIOUS
  <2>1. CASE other = q
    BY <1>2, <2>1 DEF Reports, PriceBasics, ReportFits
  <2>2. CASE other # q
    <3>1. report'[other] = report[other] /\ ReportFits(report[other])
      BY <1>2, <2>2 DEF Reports, PriceBasics
    <3> QED
      BY <1>2, <1>9, <1>13, <1>o, <3>1 DEF ReportFits
  <2> QED
    BY <2>1, <2>2
<1> QED
  BY <1>12, <1>14, <1>15, <1>16, <1>17

\* With its watch gone, a report knows nothing that the next watch denies.
LEMMA OrphanedFits ==
    ASSUME NEW r, ReportFits(r)
    PROVE  \A told : told = Orphaned(r) => ReportFits(told)'
<1> SUFFICES ASSUME NEW told, told = Orphaned(r) PROVE ReportFits(told)'
  OBVIOUS
<1>1. CASE r.at \in {"idle", "stored"}
  BY <1>1 DEF Orphaned, ReportFits
<1>2. CASE r.at = "compared"
  <2>1. r = [at |-> "compared", prev |-> r.prev, was |-> r.was]
    BY <1>2 DEF ReportFits
  <2>2. told = [r EXCEPT !.prev = 0]
    BY <1>2 DEF Orphaned
  <2>3. told = [at |-> "compared", prev |-> 0, was |-> r.was]
    BY <2>1, <2>2
  <2>4. told.at = "compared" /\ told.prev = 0 /\ told = [at |-> told.at, prev |-> told.prev, was |-> told.was]
    BY <2>3
  <2> QED
    BY <2>4 DEF ReportFits
<1>3. CASE r.at \in {"sending", "marking"}
  <2>1. r = [at |-> r.at, todo |-> r.todo, late |-> r.late]
    BY <1>3 DEF ReportFits
  <2>2. told = [r EXCEPT !.late = TRUE]
    BY <1>3 DEF Orphaned
  <2>3. told = [at |-> r.at, todo |-> r.todo, late |-> TRUE]
    BY <2>1, <2>2
  <2>4. /\ told.at \in {"sending", "marking"} /\ told.late = TRUE
        /\ told = [at |-> told.at, todo |-> told.todo, late |-> told.late]
    BY <1>3, <2>3
  <2> QED
    BY <2>4 DEF ReportFits
<1> QED
  BY <1>1, <1>2, <1>3 DEF ReportFits

\* Every step keeps the invariant.
LEMMA PriceInvStep == PriceInv /\ [PriceNext]_priceVars => PriceInv'
<1> SUFFICES ASSUME PriceInv, [PriceNext]_priceVars PROVE PriceInv'
  OBVIOUS
<1> USE DEF PriceInv
<1>0. /\ breaks \in 0 .. MaxBreaks /\ pending \subseteq Notifications /\ marked \subseteq Notifications
      /\ posted \subseteq Notifications /\ astray \subseteq Notifications
      /\ marked \subseteq posted \cup astray /\ pending \cap marked = {}
  BY DEF PriceBasics, NotificationsAreKept
<1>1. CASE DeleteWatch
  <2>1. seen' = <<>> /\ Len(seen') = 0 /\ DOMAIN seen' = {} /\ seen' \in Seq(Observation)
    BY <1>1 DEF DeleteWatch
  <2>b. breaks' \in 0 .. MaxBreaks
    BY <1>0, <1>1, PriceAssumption DEF DeleteWatch
  <2>2. pending' = {} /\ marked' = {} /\ posted' = {} /\ astray' = {}
    BY <1>1 DEF DeleteWatch, LeftPending
  <2>w. watched' \in BOOLEAN
    BY <1>1, Zenon DEF DeleteWatch
  <2>r. DOMAIN report' = Reporters
    BY <1>1 DEF DeleteWatch
  <2>3. PriceBasics'
    BY <2>1, <2>b, <2>2, <2>w, <2>r, PriceAssumption DEF PriceBasics
  <2>4. ASSUME NEW q \in Reporters PROVE ReportFits(report[q])'
    <3>1. report'[q] = Orphaned(report[q]) /\ ReportFits(report[q])
      BY <1>1 DEF DeleteWatch
    <3> QED
      BY <3>1, OrphanedFits
  <2> QED
    BY <2>1, <2>2, <2>3, <2>4 DEF SeenFits, CrossingsFit, NotificationsAreKept
<1>c. CASE CreateWatch
  <2>1. PICK gone \in SUBSET Reporters :
            report' = [q \in Reporters |-> IF q \in gone THEN NoReport ELSE report[q]]
    BY <1>c DEF CreateWatch
  <2>2. watched' \in BOOLEAN /\ UNCHANGED <<seen, pending, marked, posted, astray, breaks>>
    BY <1>c DEF CreateWatch, queueVars
  <2>3. ASSUME NEW q \in Reporters PROVE ReportFits(report[q])'
    <3>1. report'[q] = NoReport \/ (report'[q] = report[q] /\ ReportFits(report[q]))
      BY <2>1
    <3> QED
      BY <2>2, <3>1 DEF ReportFits, NoReport, IsPriced, PriceOf
  <2> QED
    BY <2>1, <2>2, <2>3 DEF PriceBasics, SeenFits, CrossingsFit, NotificationsAreKept, IsPriced, Below, Notifications
<1>2. ASSUME NEW q \in Reporters, Compare(q) PROVE PriceInv'
  <2>1. PICK prev : prev = LastPriced(Len(seen))
    OBVIOUS
  <2>2. PICK told : told = [at |-> "compared", prev |-> prev, was |-> PriceOf(prev)]
    OBVIOUS
  <2>3. ReportFits(told)
    BY <2>1, <2>2, LastIsPriced DEF ReportFits
  <2>4. Reports(q, told) /\ UNCHANGED <<watched, seen, pending, marked, posted, astray, breaks>>
    BY <1>2, <2>1, <2>2 DEF Compare, queueVars
  <2> QED
    BY <1>0, <2>3, <2>4, ReportSteps
<1>3. ASSUME NEW q \in Reporters, Record(q) PROVE PriceInv'
  BY <1>3, RecordSteps
<1>r. ASSUME NEW q \in Reporters, RecordRaises(q) PROVE PriceInv'
  BY <1>0, <1>r, ReportSteps DEF RecordRaises, ReportFits, NoReport, queueVars
<1>4. ASSUME NEW q \in Reporters, ReadPending(q) PROVE PriceInv'
  <2>1. PICK told : told = [at |-> "sending", todo |-> pending, late |-> FALSE]
    OBVIOUS
  <2>2. ReportFits(told)
    BY <2>1 DEF ReportFits
  <2>3. Reports(q, told) /\ UNCHANGED <<watched, seen, pending, marked, posted, astray, breaks>>
    BY <1>4, <2>1 DEF ReadPending, queueVars
  <2> QED
    BY <1>0, <2>2, <2>3, ReportSteps
<1>5. ASSUME NEW q \in Reporters, Post(q) PROVE PriceInv'
  <2>1. PICK todo, late : todo = report[q].todo /\ late = report[q].late
    OBVIOUS
  <2>2. /\ report[q] = [at |-> "sending", todo |-> todo, late |-> late] /\ late \in BOOLEAN
        /\ ~late => todo \subseteq pending \cup marked
    BY <1>5, <2>1 DEF Post, ReportFits
  <2>3. PICK told : told = [at |-> "marking", todo |-> todo, late |-> late]
    OBVIOUS
  <2>4. Reports(q, told) /\ UNCHANGED <<watched, seen, pending, marked, astray, breaks>>
    BY <1>5, <2>2, <2>3 DEF Post
  <2>5. posted' = (IF late THEN posted ELSE posted \cup Group(todo)) /\ Group(todo) \subseteq todo
    BY <1>5, <2>1 DEF Post, WithPost, Group
  <2>6. /\ told = [at |-> "marking", todo |-> told.todo, late |-> told.late] /\ told.late = late /\ told.todo = todo
    BY <2>3
  <2> QED
    BY <1>0, <2>2, <2>4, <2>5, <2>6, ReportSteps
<1>6. ASSUME NEW q \in Reporters, PostFails(q) PROVE PriceInv'
  <2>1. PICK todo, late : todo = report[q].todo /\ late = report[q].late
    OBVIOUS
  <2>2. /\ report[q] = [at |-> "sending", todo |-> todo, late |-> late] /\ late \in BOOLEAN
        /\ ~late => todo \subseteq pending \cup marked
    BY <1>6, <2>1 DEF PostFails, ReportFits
  <2>3. /\ posted' \in {posted, IF late THEN posted ELSE posted \cup Group(todo)} /\ Group(todo) \subseteq todo
        /\ Reports(q, AfterFailure(q)) /\ UNCHANGED <<watched, seen, pending, marked, astray, breaks>>
    BY <1>6, <2>1 DEF PostFails, WithPost, Group
  <2>4. AfterFailure(q) = [at |-> "sending", todo |-> todo \ Group(todo), late |-> late]
    BY <2>2 DEF AfterFailure
  <2>5. ReportFits(AfterFailure(q))
    BY <2>2, <2>4 DEF ReportFits
  <2> QED
    BY <1>0, <2>2, <2>3, <2>5, ReportSteps
<1>7. ASSUME NEW q \in Reporters, MarkSent(q) PROVE PriceInv'
  <2>1. PICK todo, late : todo = report[q].todo /\ late = report[q].late
    OBVIOUS
  <2>2. /\ report[q] = [at |-> "marking", todo |-> todo, late |-> late] /\ late \in BOOLEAN
        /\ ~late => todo \subseteq pending \cup marked /\ Group(todo) \subseteq posted
    BY <1>7, <2>1 DEF MarkSent, ReportFits
  <2>3. PICK sent : sent = Group(todo)
    OBVIOUS
  <2>4. PICK told : told = [at |-> "sending", todo |-> todo \ sent, late |-> late]
    OBVIOUS
  <2>5. /\ pending' = pending \ sent /\ marked' = marked \cup (sent \cap pending)
        /\ astray' = (IF late THEN astray \cup (sent \cap pending) ELSE astray)
        /\ Reports(q, told) /\ UNCHANGED <<watched, seen, posted, breaks>>
    BY <1>7, <2>1, <2>3, <2>4 DEF MarkSent
  <2>6. ReportFits(told)
    <3>1. /\ told.at = "sending" /\ told.late = late /\ told.todo = todo \ sent
          /\ told = [at |-> told.at, todo |-> told.todo, late |-> told.late]
      BY <2>4
    <3> QED
      BY <2>2, <3>1 DEF ReportFits
  <2> QED
    BY <1>0, <2>2, <2>3, <2>5, <2>6, ReportSteps
<1>8. ASSUME NEW q \in Reporters, EndReport(q) PROVE PriceInv'
  BY <1>0, <1>8, ReportSteps DEF EndReport, ReportFits, NoReport, queueVars
<1>9. ASSUME NEW q \in Reporters, Break(q) PROVE PriceInv'
  <2>1. breaks' \in 0 .. MaxBreaks
    BY <1>0, <1>9, PriceAssumption DEF Break
  <2> QED
    BY <1>0, <1>9, <2>1, ReportSteps DEF Break, ReportFits, NoReport, queueVars
<1>10. CASE UNCHANGED priceVars
  <2>1. \A q \in Reporters : ReportFits(report[q])'
    BY <1>10 DEF priceVars, queueVars, ReportFits, IsPriced, PriceOf
  <2> QED
    BY <1>10, <2>1 DEF priceVars, queueVars, PriceBasics, SeenFits, CrossingsFit, NotificationsAreKept, IsPriced, Below, Notifications
<1> QED
  BY <1>1, <1>c, <1>2, <1>3, <1>r, <1>4, <1>5, <1>6, <1>7, <1>8, <1>9, <1>10 DEF PriceNext

\* No notification is lost, and a crossing is reported once.
THEOREM NotificationsAreReported == PriceSpec => []NotificationsAgree
BY PriceInvInit, PriceInvStep, PriceAt, PTL DEF PriceSpec

-----------------------------------------------------------------------------
(* The imports. *)

Kinds == DOMAIN FilesOf
ImportRun == [kind : Kinds, state : {"running", "succeeded", "failed"}, took : SUBSET (Files \X Exports)]
Listing(s) == {s[i] : i \in DOMAIN s}
Taken(n) == {k[1] : k \in importRuns[n].took}

\* What a request works on: a running run, of which it and the files it took
\* make up the whole.
AtFile(r) ==
    /\ r.run \in DOMAIN importRuns /\ importRuns[r.run].state = "running"
    /\ r.todo \in Seq(Files)
    /\ Taken(r.run) \cup Listing(r.todo) = Listing(FilesOf[importRuns[r.run].kind])

ImporterFits(r) ==
    \/ r = NoImport
    \/ r.at = "hash" /\ AtFile(r)
    \/ /\ r.at \in {"look", "read", "write"} /\ AtFile(r) /\ r.todo # <<>> /\ r.digest \in Exports
       /\ r.at = "look" => r = [at |-> "look", run |-> r.run, todo |-> r.todo, digest |-> r.digest]
       /\ r.at = "write" => r.content \in Exports

\* No two requests work on a run.
RunsApart ==
    \A t, other \in Importers :
        importer[t] # NoImport /\ importer[other] # NoImport /\ importer[t].run = importer[other].run => t = other

\* What a run took is recorded, as it was hashed.
TakenIsRecorded ==
    \A n \in DOMAIN importRuns : \A k \in importRuns[n].took : \E r \in RecordsOf(k[1]) : r.digest = k[2]

WholeWhenSucceeded ==
    \A n \in DOMAIN importRuns :
        importRuns[n].state = "succeeded" => Taken(n) = Listing(FilesOf[importRuns[n].kind])

ImportBasics ==
    /\ file \in [Files -> Exports] /\ table \in [Files -> Exports]
    /\ recorded \subseteq [of : Files, digest : Exports, content : Exports]
    /\ importRuns \in Seq(ImportRun) /\ Len(importRuns) <= MaxImportRuns
    /\ DOMAIN importer = Importers
    /\ lapses \in [Files -> SUBSET {"changed", "returned", "unknown"}]
    /\ fileChanges \in 0 .. MaxFileChanges /\ importBreaks \in 0 .. MaxImportBreaks

ImportInv ==
    /\ ImportBasics /\ SkippedIsShown /\ ShownIsRecorded
    /\ TakenIsRecorded /\ WholeWhenSucceeded /\ RunsApart
    /\ \A t \in Importers : ImporterFits(importer[t])

\* The invariant gives the properties and the types.
LEMMA ImportAt == ImportInv => ImportsAgree /\ ImportTypeOK
<1> SUFFICES ASSUME ImportInv PROVE ImportsAgree /\ ImportTypeOK
  OBVIOUS
<1>1. SucceededIsComplete
  BY DEF ImportInv, SucceededIsComplete, TakenIsRecorded, WholeWhenSucceeded, Taken, Listing
<1>2. \A n \in DOMAIN importRuns : importRuns[n].state \in {"running", "succeeded", "failed"}
  <2> SUFFICES ASSUME NEW n \in DOMAIN importRuns PROVE importRuns[n].state \in {"running", "succeeded", "failed"}
    OBVIOUS
  <2>1. importRuns[n] \in ImportRun
    BY ElementOfSeq DEF ImportInv, ImportBasics
  <2> QED
    BY <2>1 DEF ImportRun
<1>3. \A t \in Importers : importer[t].at \in {"rest", "hash", "look", "read", "write"}
  <2> SUFFICES ASSUME NEW t \in Importers, ImporterFits(importer[t])
               PROVE  importer[t].at \in {"rest", "hash", "look", "read", "write"}
    BY DEF ImportInv
  <2> QED
    BY DEF ImporterFits, NoImport
<1> QED
  BY <1>1, <1>2, <1>3 DEF ImportTypeOK, ImportsAgree, ImportInv, ImportBasics

\* At first the orders are imported, or nothing is.
LEMMA ImportInvInit == ImportInit => ImportInv
<1> SUFFICES ASSUME ImportInit PROVE ImportInv
  OBVIOUS
<1>1. PICK orders \in Exports :
        /\ file = [f \in Files |-> IF f = "purchases" THEN orders ELSE Nothing]
        /\ table = file
        /\ recorded = IF orders = Nothing THEN {}
                      ELSE {[of |-> "purchases", digest |-> orders, content |-> orders]}
  BY DEF ImportInit
<1>2. Nothing \in Exports
  BY ImportAssumption DEF Nothing, Exports
<1>3. "purchases" \in Files /\ file \in [Files -> Exports] /\ file["purchases"] = orders
  BY <1>1, <1>2 DEF Files
<1>4. recorded \subseteq [of : Files, digest : Exports, content : Exports]
  BY <1>1, <1>3
<1>5. importRuns = <<>> /\ importRuns \in Seq(ImportRun) /\ Len(importRuns) = 0 /\ DOMAIN importRuns = {}
  BY DEF ImportInit
<1>6. ImportBasics
  BY <1>1, <1>3, <1>4, <1>5, ImportAssumption DEF ImportInit, ImportBasics
<1>7. SkippedIsShown
  <2> SUFFICES ASSUME NEW f \in Files, IsImported(f, file[f]) PROVE Shows(f)
    BY DEF SkippedIsShown
  <2> QED
    BY <1>1, <1>3 DEF Shows, Files
<1>8. ShownIsRecorded
  <2> SUFFICES ASSUME NEW f \in Files, NEW a \in Asins, table[f][a] # 0
               PROVE  \E r \in RecordsOf(f) : r.content[a] = table[f][a]
    BY DEF ShownIsRecorded
  <2>1. f = "purchases" /\ table[f] = orders
    BY <1>1 DEF Nothing
  <2>2. orders # Nothing
    BY <2>1 DEF Nothing
  <2> DEFINE r == [of |-> "purchases", digest |-> orders, content |-> orders]
  <2>3. r \in recorded /\ r.of = "purchases" /\ r.content = orders
    BY <1>1, <2>2
  <2> HIDE DEF r
  <2> QED
    BY <2>1, <2>3 DEF RecordsOf
<1> QED
  BY <1>5, <1>6, <1>7, <1>8
     DEF ImportInv, ImportInit, TakenIsRecorded, WholeWhenSucceeded, RunsApart, ImporterFits, NoImport

\* The first of some files, and the others.
LEMMA FirstAndRest ==
    ASSUME NEW s \in Seq(Files), s # <<>>
    PROVE  /\ Head(s) \in Files /\ Tail(s) \in Seq(Files)
           /\ Listing(s) = {Head(s)} \cup Listing(Tail(s))
<1>1. /\ Len(s) \in Nat /\ Len(s) # 0 /\ DOMAIN s = 1 .. Len(s)
      /\ Head(s) \in Files /\ Head(s) = s[1] /\ Tail(s) \in Seq(Files) /\ Len(Tail(s)) = Len(s) - 1
      /\ \A i \in 1 .. Len(Tail(s)) : Tail(s)[i] = s[i + 1]
      /\ DOMAIN Tail(s) = 1 .. Len(Tail(s))
  BY HeadTailProperties, LenProperties, EmptySeq
<1>2. ASSUME NEW i \in DOMAIN s PROVE s[i] \in {Head(s)} \cup Listing(Tail(s))
  <2>1. CASE i = 1
    BY <1>1, <2>1
  <2>2. CASE i # 1
    <3>1. i - 1 \in 1 .. Len(Tail(s)) /\ (i - 1) + 1 = i
      BY <1>1, <2>2
    <3>2. Tail(s)[i - 1] = s[i]
      BY <1>1, <3>1
    <3> QED
      BY <1>1, <3>1, <3>2 DEF Listing
  <2> QED
    BY <2>1, <2>2
<1>3. ASSUME NEW i \in DOMAIN Tail(s) PROVE Tail(s)[i] \in Listing(s)
  <2>1. i + 1 \in DOMAIN s /\ Tail(s)[i] = s[i + 1]
    BY <1>1
  <2> QED
    BY <2>1 DEF Listing
<1>4. Head(s) \in Listing(s)
  <2>1. 1 \in DOMAIN s
    BY <1>1
  <2> QED
    BY <1>1, <2>1 DEF Listing
<1> QED
  BY <1>1, <1>2, <1>3, <1>4 DEF Listing

\* The file of a request.
LEMMA RequestAt ==
    ASSUME ImportInv, NEW t \in Importers, importer[t].at \in {"hash", "look", "read", "write"},
           importer[t].at = "hash" => importer[t].todo # <<>>
    PROVE  /\ At(t) \in Files /\ AtFile(importer[t]) /\ importer[t].todo # <<>>
           /\ importer[t].todo \in Seq(Files) /\ importer[t] # NoImport
           /\ importer[t].run \in DOMAIN importRuns
           /\ importer[t].at # "hash" => importer[t].digest \in Exports
<1>1. AtFile(importer[t]) /\ importer[t].todo # <<>> /\ importer[t].at # "rest"
      /\ (importer[t].at # "hash" => importer[t].digest \in Exports)
  <2>1. ImporterFits(importer[t])
    BY DEF ImportInv
  <2> QED
    BY <2>1 DEF ImporterFits, NoImport
<1> QED
  BY <1>1, FirstAndRest DEF AtFile, At, NoImport

\* A request that takes a step leaves the runs as they are.
LEMMA ImporterSteps ==
    ASSUME ImportInv, NEW t \in Importers, NEW r, Goes(t, r), ImporterFits(r),
           UNCHANGED <<file, table, recorded, importRuns, lapses, fileChanges, importBreaks>>,
           r # NoImport => importer[t] # NoImport /\ r.run = importer[t].run
    PROVE  ImportInv'
<1> USE DEF ImportInv
<1>1. \A other \in Importers : importer'[other] = IF other = t THEN r ELSE importer[other]
  BY DEF Goes, ImportBasics
<1>2. ImportBasics'
  BY DEF Goes, ImportBasics
<1>3. SkippedIsShown'
  BY DEF SkippedIsShown, IsImported, RecordsOf, Shows
<1>6. ShownIsRecorded' /\ TakenIsRecorded'
  BY DEF RecordsOf, ShownIsRecorded, TakenIsRecorded
<1>7. WholeWhenSucceeded'
  BY DEF WholeWhenSucceeded, Taken
<1>4. RunsApart'
  BY <1>1 DEF RunsApart
<1>5. \A other \in Importers : ImporterFits(importer[other])'
  <2>1. \A other \in Importers : ImporterFits(importer'[other])
    BY <1>1, Zenon
  <2> QED
    BY <2>1 DEF ImporterFits, AtFile, Taken
<1> QED
  BY <1>2, <1>3, <1>4, <1>5, <1>6, <1>7

\* A change of one run: the others stay as they are.
LEMMA RunChanges ==
    ASSUME ImportBasics, NEW n \in DOMAIN importRuns, NEW run \in ImportRun,
           importRuns' = [importRuns EXCEPT ![n] = run]
    PROVE  /\ importRuns' \in Seq(ImportRun) /\ Len(importRuns') = Len(importRuns)
           /\ DOMAIN importRuns' = DOMAIN importRuns
           /\ \A i \in DOMAIN importRuns : importRuns'[i] = IF i = n THEN run ELSE importRuns[i]
BY ExceptSeq, LenProperties DEF ImportBasics

\* With a file behind it, a request has taken it, and the file is recorded.
LEMMA FileDoneSteps ==
    ASSUME ImportInv, NEW t \in Importers, importer[t].at \in {"look", "write"}, FileDone(t),
           table' \in [Files -> Exports], recorded' \subseteq [of : Files, digest : Exports, content : Exports],
           lapses' \in [Files -> SUBSET {"changed", "returned", "unknown"}],
           UNCHANGED <<file, fileChanges, importBreaks>>, recorded \subseteq recorded',
           \E r \in recorded' : r.of = At(t) /\ r.digest = importer[t].digest,
           SkippedIsShown', ShownIsRecorded'
    PROVE  ImportInv'
<1> USE DEF ImportInv
<1> DEFINE n == importer[t].run
           took == importRuns[n].took \cup {<<At(t), importer[t].digest>>}
           run == [importRuns[n] EXCEPT !.took = took]
           r == [at |-> "hash", run |-> n, todo |-> Tail(importer[t].todo)]
<1>1. /\ At(t) \in Files /\ AtFile(importer[t]) /\ importer[t].todo # <<>> /\ importer[t].digest \in Exports
      /\ importer[t].todo \in Seq(Files) /\ importer[t] # NoImport /\ n \in DOMAIN importRuns
  BY RequestAt
<1>2. \A i \in DOMAIN importRuns : importRuns[i] \in ImportRun
  BY ElementOfSeq DEF ImportBasics
<1>3. /\ run \in ImportRun /\ run.kind = importRuns[n].kind /\ run.state = importRuns[n].state /\ run.took = took
      /\ importRuns' = [importRuns EXCEPT ![n] = run]
  BY <1>1, <1>2 DEF ImportRun, FileDone
<1>4. importer' = [importer EXCEPT ![t] = r] /\ r.at = "hash" /\ r.run = n /\ r.todo = Tail(importer[t].todo)
  BY DEF FileDone, Goes
<1> HIDE DEF run, r
<1>5. /\ importRuns' \in Seq(ImportRun) /\ Len(importRuns') = Len(importRuns) /\ DOMAIN importRuns' = DOMAIN importRuns
      /\ \A i \in DOMAIN importRuns : importRuns'[i] = IF i = n THEN run ELSE importRuns[i]
  BY <1>1, <1>3, RunChanges
<1>6. \A other \in Importers : importer'[other] = IF other = t THEN r ELSE importer[other]
  BY <1>4 DEF ImportBasics
<1>7. ImportBasics'
  BY <1>4, <1>5 DEF ImportBasics
<1>8. \A i \in DOMAIN importRuns :
          /\ importRuns'[i].state = importRuns[i].state /\ importRuns'[i].kind = importRuns[i].kind
          /\ i # n => importRuns'[i] = importRuns[i]
  BY <1>3, <1>5
<1>9. importRuns'[n].took = took /\ importRuns[n].state = "running"
  BY <1>1, <1>3, <1>5 DEF AtFile
<1>10. TakenIsRecorded'
  <2> SUFFICES ASSUME NEW i \in DOMAIN importRuns, NEW k \in importRuns'[i].took
               PROVE  \E x \in recorded' : x.of = k[1] /\ x.digest = k[2]
    BY <1>5 DEF TakenIsRecorded, RecordsOf
  <2>1. CASE k \in importRuns[i].took
    <3>1. PICK x \in recorded : x.of = k[1] /\ x.digest = k[2]
      BY <2>1 DEF TakenIsRecorded, RecordsOf
    <3> QED
      BY <3>1
  <2>2. CASE k = <<At(t), importer[t].digest>>
    BY <2>2
  <2> QED
    BY <1>8, <1>9, <2>1, <2>2
<1>11. WholeWhenSucceeded'
  <2> SUFFICES ASSUME NEW i \in DOMAIN importRuns, importRuns'[i].state = "succeeded"
               PROVE  Taken(i)' = Listing(FilesOf[importRuns'[i].kind])
    BY <1>5 DEF WholeWhenSucceeded
  <2>1. i # n /\ importRuns[i].state = "succeeded"
    BY <1>8, <1>9
  <2> QED
    BY <1>8, <2>1 DEF WholeWhenSucceeded, Taken
<1>12. RunsApart'
  BY <1>1, <1>4, <1>6 DEF RunsApart
<1>13. {k[1] : k \in importRuns'[n].took} = Taken(n) \cup {At(t)}
  <2>1. {k[1] : k \in importRuns'[n].took} = {k[1] : k \in took}
    BY <1>9
  <2>2. {k[1] : k \in took} = {k[1] : k \in importRuns[n].took} \cup {At(t)}
    <3>1. <<At(t), importer[t].digest>>[1] = At(t) /\ <<At(t), importer[t].digest>> \in took
      OBVIOUS
    <3>2. \A k : k \in took <=> k \in importRuns[n].took \/ k = <<At(t), importer[t].digest>>
      OBVIOUS
    <3> HIDE DEF took
    <3> QED
      BY <3>1, <3>2
  <2> QED
    BY <2>1, <2>2 DEF Taken
<1>14. \A other \in Importers : ImporterFits(importer[other])'
  <2> SUFFICES ASSUME NEW other \in Importers PROVE ImporterFits(importer[other])'
    OBVIOUS
  <2>1. CASE other = t
    <3>1. Tail(importer[t].todo) \in Seq(Files)
          /\ Listing(importer[t].todo) = {At(t)} \cup Listing(Tail(importer[t].todo))
      BY <1>1, FirstAndRest DEF At
    <3>2. Taken(n) \cup Listing(importer[t].todo) = Listing(FilesOf[importRuns[n].kind])
      BY <1>1 DEF AtFile
    <3>3. AtFile(importer[t])'
      <4>1. importer'[t].run = n /\ importer'[t].todo = Tail(importer[t].todo)
        BY <1>4, <1>6
      <4>2. {k[1] : k \in importRuns'[n].took} \cup Listing(Tail(importer[t].todo)) = Listing(FilesOf[importRuns'[n].kind])
        BY <1>1, <1>8, <1>13, <3>1, <3>2
      <4> HIDE DEF n
      <4> QED
        BY <1>1, <1>5, <1>8, <1>9, <3>1, <4>1, <4>2 DEF AtFile, Taken
    <3> QED
      BY <1>4, <1>6, <2>1, <3>3 DEF ImporterFits
  <2>2. CASE other # t
    <3>1. importer'[other] = importer[other] /\ ImporterFits(importer[other])
      BY <1>6, <2>2
    <3>2. CASE importer[other] = NoImport
      BY <3>1, <3>2 DEF ImporterFits
    <3>3. CASE importer[other] # NoImport
      <4>1. importer[other].run # n /\ AtFile(importer[other])
        BY <1>1, <2>2, <3>1, <3>3 DEF RunsApart, ImporterFits
      <4>2. AtFile(importer[other])'
        BY <1>5, <1>8, <3>1, <4>1 DEF AtFile, Taken
      <4> QED
        BY <3>1, <4>2 DEF ImporterFits
    <3> QED
      BY <3>2, <3>3
  <2> QED
    BY <2>1, <2>2
<1> QED
  BY <1>7, <1>10, <1>11, <1>12, <1>14

\* The end of a run: the request rests.
LEMMA RunEnds ==
    ASSUME ImportInv, NEW t \in Importers, importer[t].at \in {"hash", "look", "read", "write"},
           NEW state, state \in {"failed", "succeeded"},
           state = "succeeded" => importer[t].at = "hash" /\ importer[t].todo = <<>>,
           RunBecomes(importer[t].run, state), Goes(t, NoImport),
           UNCHANGED <<file, table, recorded, lapses, fileChanges>>, importBreaks' \in 0 .. MaxImportBreaks
    PROVE  ImportInv'
<1> USE DEF ImportInv
<1> DEFINE n == importer[t].run
           run == [importRuns[n] EXCEPT !.state = state]
<1>1. AtFile(importer[t]) /\ n \in DOMAIN importRuns /\ importer[t] # NoImport
  <2>1. ImporterFits(importer[t])
    OBVIOUS
  <2> QED
    BY <2>1 DEF ImporterFits, AtFile, NoImport
<1>2. \A i \in DOMAIN importRuns : importRuns[i] \in ImportRun
  BY ElementOfSeq DEF ImportBasics
<1>3. /\ run \in ImportRun /\ run.kind = importRuns[n].kind /\ run.state = state /\ run.took = importRuns[n].took
      /\ importRuns' = [importRuns EXCEPT ![n] = run]
  BY <1>1, <1>2 DEF ImportRun, RunBecomes
<1> HIDE DEF run
<1>5. /\ importRuns' \in Seq(ImportRun) /\ Len(importRuns') = Len(importRuns) /\ DOMAIN importRuns' = DOMAIN importRuns
      /\ \A i \in DOMAIN importRuns : importRuns'[i] = IF i = n THEN run ELSE importRuns[i]
  BY <1>1, <1>3, RunChanges
<1>6. \A other \in Importers : importer'[other] = IF other = t THEN NoImport ELSE importer[other]
  BY DEF Goes, ImportBasics
<1>7. ImportBasics'
  BY <1>5 DEF ImportBasics, Goes
<1>8. \A i \in DOMAIN importRuns :
          /\ importRuns'[i].took = importRuns[i].took /\ importRuns'[i].kind = importRuns[i].kind
          /\ i # n => importRuns'[i] = importRuns[i]
  BY <1>3, <1>5
<1>9. SkippedIsShown'
  BY DEF SkippedIsShown, IsImported, RecordsOf, Shows
<1>10. ShownIsRecorded' /\ TakenIsRecorded'
  BY <1>5, <1>8 DEF RecordsOf, ShownIsRecorded, TakenIsRecorded
<1>11. WholeWhenSucceeded'
  <2> SUFFICES ASSUME NEW i \in DOMAIN importRuns, importRuns'[i].state = "succeeded"
               PROVE  Taken(i)' = Listing(FilesOf[importRuns'[i].kind])
    BY <1>5 DEF WholeWhenSucceeded
  <2>1. CASE i = n
    <3>1. state = "succeeded"
      BY <1>3, <1>5, <2>1
    <3>2. Taken(n) \cup Listing(importer[t].todo) = Listing(FilesOf[importRuns[n].kind]) /\ importer[t].todo = <<>>
      BY <1>1, <3>1 DEF AtFile
    <3>3. Listing(<<>>) = {}
      BY DEF Listing
    <3> QED
      BY <1>8, <2>1, <3>2, <3>3 DEF Taken
  <2>2. CASE i # n
    BY <1>8, <2>2 DEF WholeWhenSucceeded, Taken
  <2> QED
    BY <2>1, <2>2
<1>12. RunsApart'
  BY <1>6 DEF RunsApart
<1>13. \A other \in Importers : ImporterFits(importer[other])'
  <2> SUFFICES ASSUME NEW other \in Importers PROVE ImporterFits(importer[other])'
    OBVIOUS
  <2>1. CASE other = t \/ importer[other] = NoImport
    BY <1>6, <2>1 DEF ImporterFits
  <2>2. CASE other # t /\ importer[other] # NoImport
    <3>1. importer'[other] = importer[other] /\ ImporterFits(importer[other])
      BY <1>6, <2>2
    <3>2. importer[other].run # n /\ AtFile(importer[other])
      BY <1>1, <2>2, <3>1 DEF RunsApart, ImporterFits
    <3>3. AtFile(importer[other])'
      BY <1>5, <1>8, <3>1, <3>2 DEF AtFile, Taken
    <3> QED
      BY <3>1, <3>3 DEF ImporterFits
  <2> QED
    BY <2>1, <2>2
<1> QED
  BY <1>7, <1>9, <1>10, <1>11, <1>12, <1>13

\* A run begins.
LEMMA StartSteps ==
    ASSUME ImportInv, NEW t \in Importers, NEW kind \in Kinds, StartImport(t, kind)
    PROVE  ImportInv'
<1> USE DEF ImportInv
<1> DEFINE run == [kind |-> kind, state |-> "running", took |-> {}]
           last == Len(importRuns) + 1
           r == [at |-> "hash", run |-> last, todo |-> FilesOf[kind]]
<1>1. /\ importer[t] = NoImport /\ Len(importRuns) < MaxImportRuns
      /\ importRuns' = Append(importRuns, run) /\ importer' = [importer EXCEPT ![t] = r]
      /\ UNCHANGED <<file, table, recorded, lapses, fileChanges, importBreaks>>
  BY DEF StartImport, Goes
<1>2. run \in ImportRun /\ run.kind = kind /\ run.state = "running" /\ run.took = {}
  BY DEF ImportRun
<1>3. FilesOf[kind] \in Seq(Files)
  <2>1. kind \in {"orders", "info", "autobuy"}
    BY DEF Kinds, FilesOf
  <2>2. /\ FilesOf["orders"] = <<"purchases">> /\ FilesOf["info"] = <<"dates", "genres">>
        /\ FilesOf["autobuy"] = <<"autobuy">>
    BY DEF FilesOf
  <2>3. <<"purchases">> \in Seq(Files) /\ <<"dates", "genres">> \in Seq(Files) /\ <<"autobuy">> \in Seq(Files)
    BY DEF Files
  <2> QED
    BY <2>1, <2>2, <2>3
<1>4. r.at = "hash" /\ r.run = last /\ r.todo = FilesOf[kind] /\ r # NoImport
  BY DEF NoImport
<1> HIDE DEF run, r
<1>5. /\ Len(importRuns) \in Nat /\ DOMAIN importRuns = 1 .. Len(importRuns)
      /\ importRuns' \in Seq(ImportRun) /\ Len(importRuns') = last
      /\ DOMAIN importRuns' = 1 .. last
      /\ \A i \in DOMAIN importRuns : importRuns'[i] = importRuns[i]
      /\ importRuns'[last] = run
  BY <1>1, <1>2, AppendProperties, LenProperties DEF ImportBasics
<1>6. \A i \in DOMAIN importRuns' : i \in DOMAIN importRuns \/ i = last
  BY <1>5
<1>7. DOMAIN importRuns \subseteq DOMAIN importRuns' /\ last \in DOMAIN importRuns' /\ last \notin DOMAIN importRuns
  BY <1>5
<1>8. \A other \in Importers : importer'[other] = IF other = t THEN r ELSE importer[other]
  BY <1>1 DEF ImportBasics
<1>9. ImportBasics'
  BY <1>1, <1>5, ImportAssumption DEF ImportBasics
<1>10. SkippedIsShown'
  BY <1>1 DEF SkippedIsShown, IsImported, RecordsOf, Shows
<1>11. ShownIsRecorded'
  BY <1>1 DEF RecordsOf, ShownIsRecorded
<1>12. TakenIsRecorded'
  BY <1>1, <1>2, <1>5, <1>6 DEF RecordsOf, TakenIsRecorded
<1>13. WholeWhenSucceeded'
  <2> SUFFICES ASSUME NEW i \in DOMAIN importRuns', importRuns'[i].state = "succeeded"
               PROVE  Taken(i)' = Listing(FilesOf[importRuns'[i].kind])
    BY DEF WholeWhenSucceeded
  <2>1. i \in DOMAIN importRuns /\ importRuns'[i] = importRuns[i]
    BY <1>2, <1>5, <1>6
  <2> QED
    BY <2>1 DEF WholeWhenSucceeded, Taken
<1>14. \A other \in Importers : importer[other] # NoImport => importer[other].run \in DOMAIN importRuns
  <2> SUFFICES ASSUME NEW other \in Importers, importer[other] # NoImport PROVE importer[other].run \in DOMAIN importRuns
    OBVIOUS
  <2>1. ImporterFits(importer[other])
    OBVIOUS
  <2> QED
    BY <2>1 DEF ImporterFits, AtFile
<1>15. RunsApart'
  BY <1>4, <1>7, <1>8, <1>14 DEF RunsApart
<1>16. \A other \in Importers : ImporterFits(importer[other])'
  <2> SUFFICES ASSUME NEW other \in Importers PROVE ImporterFits(importer[other])'
    OBVIOUS
  <2>1. CASE other = t
    <3>1. /\ importer'[t].run = last /\ importer'[t].todo = FilesOf[kind] /\ importer'[t].at = "hash"
          /\ importRuns'[last].took = {} /\ importRuns'[last].state = "running" /\ importRuns'[last].kind = kind
      BY <1>2, <1>4, <1>5, <1>8
    <3>2. {k[1] : k \in importRuns'[last].took} = {}
      BY <3>1
    <3> HIDE DEF last
    <3>3. AtFile(importer[t])'
      BY <1>3, <1>7, <3>1, <3>2 DEF AtFile, Taken
    <3> QED
      BY <2>1, <3>1, <3>3 DEF ImporterFits
  <2>2. CASE other # t
    <3>1. importer'[other] = importer[other] /\ ImporterFits(importer[other])
      BY <1>8, <2>2
    <3>2. CASE importer[other] = NoImport
      BY <3>1, <3>2 DEF ImporterFits
    <3>3. CASE importer[other] # NoImport
      <4>1. AtFile(importer[other])
        BY <3>1, <3>3 DEF ImporterFits
      <4>2. AtFile(importer[other])'
        BY <1>5, <1>7, <3>1, <4>1 DEF AtFile, Taken
      <4> QED
        BY <3>1, <4>2 DEF ImporterFits
    <3> QED
      BY <3>2, <3>3
  <2> QED
    BY <2>1, <2>2
<1> QED
  BY <1>9, <1>10, <1>11, <1>12, <1>13, <1>15, <1>16

\* What is written of a file is a content of it, or was there before.
LEMMA WrittenOfContent ==
    ASSUME ImportBasics, NEW f \in Files, NEW content \in Exports
    PROVE  /\ Written(f, content) \in [Files -> Exports]
           /\ \A g \in Files : g # f => Written(f, content)[g] = table[g]
           /\ \A a \in Asins : Written(f, content)[f][a] \in {table[f][a], content[a]}
           /\ \A a \in Asins : content[a] # 0 =>
                /\ f = "purchases" => Written(f, content)[f][a] # 0
                /\ f = "dates" /\ Known(a) => Written(f, content)[f][a] # 0
                /\ f = "genres" /\ Known(a) => Written(f, content)[f][a] = content[a]
           /\ f = "autobuy" => Written(f, content)[f] = content
<1> DEFINE new == [a \in Asins |->
        CASE f = "purchases" -> IF table[f][a] = 0 THEN content[a] ELSE table[f][a]
          [] f = "dates"     -> IF table[f][a] = 0 /\ Known(a) THEN content[a] ELSE table[f][a]
          [] f = "genres"    -> IF content[a] # 0 /\ Known(a) THEN content[a] ELSE table[f][a]
          [] f = "autobuy"   -> content[a]]
<1>1. table \in [Files -> Exports] /\ table[f] \in Exports
  BY DEF ImportBasics
<1>2. Written(f, content) = [table EXCEPT ![f] = new]
  BY DEF Written
<1>3. f \in {"purchases", "dates", "genres", "autobuy"}
  BY DEF Files
<1>4. \A a \in Asins : new[a] \in {table[f][a], content[a]}
  BY <1>3
<1>5. new \in Exports
  <2>1. \A a \in Asins : table[f][a] \in 0 .. MaxValue /\ content[a] \in 0 .. MaxValue
    BY <1>1 DEF Exports
  <2>2. \A a \in Asins : new[a] \in 0 .. MaxValue
    BY <1>4, <2>1
  <2> QED
    BY <2>2 DEF Exports
<1>6. \A a \in Asins : content[a] # 0 =>
                /\ f = "purchases" => new[a] # 0
                /\ f = "dates" /\ Known(a) => new[a] # 0
                /\ f = "genres" /\ Known(a) => new[a] = content[a]
  BY <1>3
<1>7. f = "autobuy" => new = content
  <2> SUFFICES ASSUME f = "autobuy" PROVE new = content
    OBVIOUS
  <2>1. new = [a \in Asins |-> content[a]]
    OBVIOUS
  <2>2. content = [a \in Asins |-> content[a]]
    BY DEF Exports
  <2> QED
    BY <2>1, <2>2
<1> HIDE DEF new
<1>8. Written(f, content)[f] = new /\ Written(f, content) \in [Files -> Exports]
      /\ \A g \in Files : g # f => Written(f, content)[g] = table[g]
  BY <1>1, <1>2, <1>5
<1> QED
  BY <1>4, <1>6, <1>7, <1>8

\* The transaction of a file.
LEMMA WriteSteps ==
    ASSUME ImportInv, NEW t \in Importers, Write(t)
    PROVE  ImportInv'
<1> USE DEF ImportInv
<1> DEFINE f == At(t)
           content == importer[t].content
           digest == importer[t].digest
           row == [of |-> f, digest |-> digest, content |-> content]
<1>1. /\ importer[t].at = "write" /\ ~\E r \in RecordsOf(f) : r.digest = digest
      /\ table' = Written(f, content) /\ recorded' = recorded \cup {row}
      /\ lapses' = [lapses EXCEPT ![f] = LapsesOf(t, f, content)]
      /\ FileDone(t) /\ UNCHANGED <<file, fileChanges, importBreaks>>
  BY DEF Write
<1>2. f \in Files /\ digest \in Exports /\ content \in Exports
  <2>1. ImporterFits(importer[t])
    OBVIOUS
  <2>2. content \in Exports
    BY <1>1, <2>1 DEF ImporterFits, NoImport
  <2> QED
    BY <1>1, <2>2, RequestAt
<1>3. row \in [of : Files, digest : Exports, content : Exports] /\ row.of = f /\ row.digest = digest /\ row.content = content
  BY <1>2
<1>4. LapsesOf(t, f, content) \subseteq {"changed", "returned", "unknown"}
  BY DEF LapsesOf
<1> HIDE DEF f, content, digest, row
<1>5. /\ table' \in [Files -> Exports] /\ \A g \in Files : g # f => table'[g] = table[g]
      /\ \A a \in Asins : table'[f][a] \in {table[f][a], content[a]}
      /\ \A a \in Asins : content[a] # 0 =>
            /\ f = "purchases" => table'[f][a] # 0
            /\ f = "dates" /\ Known(a) => table'[f][a] # 0
            /\ f = "genres" /\ Known(a) => table'[f][a] = content[a]
      /\ f = "autobuy" => table'[f] = content
  <2>1. ImportBasics /\ table' = Written(f, content)
    BY <1>1
  <2> HIDE DEF ImportInv
  <2> QED
    BY <1>2, <2>1, WrittenOfContent
<1>6. /\ lapses' \in [Files -> SUBSET {"changed", "returned", "unknown"}]
      /\ lapses'[f] = LapsesOf(t, f, content) /\ \A g \in Files : g # f => lapses'[g] = lapses[g]
  BY <1>1, <1>2, <1>4 DEF ImportBasics
<1>7. \A g \in Files : IsImported(g, file[g])' <=> IsImported(g, file[g]) \/ (g = f /\ file[g] = digest)
  BY <1>1, <1>3 DEF IsImported, RecordsOf
<1>8. SkippedIsShown'
  <2> SUFFICES ASSUME NEW g \in Files, IsImported(g, file[g])', lapses'[g] = {} PROVE Shows(g)'
    BY DEF SkippedIsShown
  <2>1. CASE g # f
    <3>1. Shows(g)
      BY <1>6, <1>7, <2>1 DEF SkippedIsShown
    <3> QED
      BY <1>1, <1>5, <2>1, <3>1 DEF Shows
  <2>2. CASE g = f
    <3>1. /\ content = digest /\ ~IsImported(f, file[f])
          /\ f \in {"dates", "genres"} => \A a \in Asins : content[a] # 0 => Known(a)
      <4>1. "changed" \notin lapses'[f] /\ "returned" \notin lapses'[f] /\ "unknown" \notin lapses'[f]
        BY <2>2
      <4> QED
        BY <1>6, <4>1 DEF LapsesOf, content, digest
    <3>2. file[f] = content
      BY <1>7, <2>2, <3>1
    <3>3. f \in {"purchases", "dates", "genres", "autobuy"}
      BY <1>2 DEF Files
    <3> QED
      BY <1>1, <1>5, <2>2, <3>1, <3>2, <3>3 DEF Shows
  <2> QED
    BY <2>1, <2>2
<1>9. ShownIsRecorded'
  <2> SUFFICES ASSUME NEW g \in Files, NEW a \in Asins, table'[g][a] # 0
               PROVE  \E r \in recorded' : r.of = g /\ r.content[a] = table'[g][a]
    BY DEF ShownIsRecorded, RecordsOf
  <2>1. CASE table'[g][a] = table[g][a]
    <3>1. PICK r \in recorded : r.of = g /\ r.content[a] = table[g][a]
      BY <2>1 DEF ShownIsRecorded, RecordsOf
    <3> QED
      BY <1>1, <2>1, <3>1
  <2>2. CASE table'[g][a] # table[g][a]
    <3>1. g = f /\ table'[g][a] = content[a]
      BY <1>5, <2>2
    <3> QED
      BY <1>1, <1>3, <3>1
  <2> QED
    BY <2>1, <2>2
<1>10. recorded' \subseteq [of : Files, digest : Exports, content : Exports] /\ recorded \subseteq recorded' /\ row \in recorded'
  BY <1>1, <1>3 DEF ImportBasics
<1>11. \E r \in recorded' : r.of = At(t) /\ r.digest = importer[t].digest
  BY <1>3, <1>10 DEF f, digest
<1> QED
  BY <1>1, <1>5, <1>6, <1>8, <1>9, <1>10, <1>11, FileDoneSteps

\* Another export in the folder.
LEMMA ExportSteps ==
    ASSUME ImportInv, NEW f \in Files, Export(f)
    PROVE  ImportInv'
<1> USE DEF ImportInv
<1>1. PICK content \in Exports \ {file[f]} :
        /\ file' = [file EXCEPT ![f] = content]
        /\ lapses' = [lapses EXCEPT ![f] =
              IF \E r \in RecordsOf(f) : r.digest = content THEN @ \cup {"returned"} ELSE @]
  BY DEF Export
<1>2. /\ fileChanges < MaxFileChanges /\ fileChanges' = fileChanges + 1
      /\ UNCHANGED <<table, recorded, importRuns, importer, importBreaks>>
  BY DEF Export
<1>3. /\ file' \in [Files -> Exports] /\ file'[f] = content /\ \A g \in Files : g # f => file'[g] = file[g]
      /\ lapses' \in [Files -> SUBSET {"changed", "returned", "unknown"}]
      /\ \A g \in Files : g # f => lapses'[g] = lapses[g]
      /\ (\E r \in RecordsOf(f) : r.digest = content) => "returned" \in lapses'[f]
  BY <1>1 DEF ImportBasics
<1>4. fileChanges' \in 0 .. MaxFileChanges
  BY <1>2, ImportAssumption DEF ImportBasics
<1>5. ImportBasics'
  BY <1>2, <1>3, <1>4 DEF ImportBasics
<1>6. SkippedIsShown'
  <2> SUFFICES ASSUME NEW g \in Files, IsImported(g, file[g])', lapses'[g] = {} PROVE Shows(g)'
    BY DEF SkippedIsShown
  <2>1. g # f
    BY <1>2, <1>3 DEF IsImported, RecordsOf
  <2>2. Shows(g)
    BY <1>2, <1>3, <2>1 DEF SkippedIsShown, IsImported, RecordsOf
  <2> QED
    BY <1>2, <1>3, <2>1, <2>2 DEF Shows
<1>7. ShownIsRecorded' /\ TakenIsRecorded'
  BY <1>2 DEF RecordsOf, ShownIsRecorded, TakenIsRecorded
<1>8. WholeWhenSucceeded' /\ RunsApart'
  BY <1>2 DEF WholeWhenSucceeded, Taken, RunsApart
<1>9. \A t \in Importers : ImporterFits(importer[t])'
  BY <1>2 DEF ImporterFits, AtFile, Taken
<1> QED
  BY <1>5, <1>6, <1>7, <1>8, <1>9

\* Every step keeps the invariant.
LEMMA ImportInvStep == ImportInv /\ [ImportNext]_importVars => ImportInv'
<1> SUFFICES ASSUME ImportInv, [ImportNext]_importVars PROVE ImportInv'
  OBVIOUS
<1>0. importBreaks \in 0 .. MaxImportBreaks /\ ImportBasics /\ \A t \in Importers : ImporterFits(importer[t])
  BY DEF ImportInv, ImportBasics
<1>1. CASE StopImports
  <2>1. importBreaks' \in 0 .. MaxImportBreaks
    BY <1>0, <1>1, ImportAssumption DEF StopImports
  <2>2. importer' = [t \in Importers |-> NoImport] /\ UNCHANGED <<file, table, recorded, importRuns, lapses, fileChanges>>
    BY <1>1 DEF StopImports
  <2>3. ImportBasics'
    BY <1>0, <2>1, <2>2 DEF ImportBasics
  <2>4. SkippedIsShown'
    BY <2>2 DEF ImportInv, SkippedIsShown, IsImported, RecordsOf, Shows
  <2>5. ShownIsRecorded' /\ TakenIsRecorded'
    BY <2>2 DEF ImportInv, RecordsOf, ShownIsRecorded, TakenIsRecorded
  <2>6. WholeWhenSucceeded'
    BY <2>2 DEF ImportInv, WholeWhenSucceeded, Taken
  <2> QED
    BY <2>2, <2>3, <2>4, <2>5, <2>6 DEF ImportInv, RunsApart, ImporterFits
<1>2. ASSUME NEW f \in Files, Export(f) PROVE ImportInv'
  BY <1>2, ExportSteps
<1>3. ASSUME NEW t \in Importers, NEW kind \in Kinds, StartImport(t, kind) PROVE ImportInv'
  BY <1>3, StartSteps
<1>4. ASSUME NEW t \in Importers, Hash(t) PROVE ImportInv'
  <2> DEFINE r == [at |-> "look", run |-> importer[t].run, todo |-> importer[t].todo, digest |-> file[At(t)]]
  <2>1. /\ importer[t].at = "hash" /\ importer[t].todo # <<>> /\ Goes(t, r)
        /\ UNCHANGED <<file, table, recorded, importRuns, lapses, fileChanges, importBreaks>>
    BY <1>4 DEF Hash
  <2>2. AtFile(importer[t]) /\ At(t) \in Files /\ importer[t] # NoImport
    BY <2>1, RequestAt
  <2>3. ImporterFits(r)
    BY <1>0, <2>1, <2>2 DEF ImporterFits, AtFile, ImportBasics
  <2>4. r.run = importer[t].run
    OBVIOUS
  <2> HIDE DEF r
  <2> QED
    BY <2>1, <2>2, <2>3, <2>4, ImporterSteps
<1>5. ASSUME NEW t \in Importers, Look(t) PROVE ImportInv'
  <2>1. importer[t].at = "look" /\ UNCHANGED <<file, table, recorded, lapses, fileChanges, importBreaks>>
    BY <1>5 DEF Look
  <2>2. AtFile(importer[t]) /\ At(t) \in Files /\ importer[t] # NoImport /\ importer[t].todo # <<>>
        /\ importer[t].digest \in Exports
    BY <2>1, RequestAt
  <2>3. CASE IsImported(At(t), importer[t].digest)
    <3>1. FileDone(t)
      BY <1>5, <2>3 DEF Look
    <3>2. \E r \in recorded' : r.of = At(t) /\ r.digest = importer[t].digest
      BY <2>1, <2>3 DEF IsImported, RecordsOf
    <3>3. SkippedIsShown' /\ ShownIsRecorded'
      <4>1. SkippedIsShown'
        BY <2>1 DEF ImportInv, SkippedIsShown, IsImported, RecordsOf, Shows
      <4>2. ShownIsRecorded'
        BY <2>1 DEF ImportInv, RecordsOf, ShownIsRecorded
      <4> QED
        BY <4>1, <4>2
    <3>4. /\ table' \in [Files -> Exports] /\ recorded' \subseteq [of : Files, digest : Exports, content : Exports]
          /\ lapses' \in [Files -> SUBSET {"changed", "returned", "unknown"}] /\ recorded \subseteq recorded'
      BY <1>0, <2>1 DEF ImportBasics
    <3> QED
      BY <2>1, <3>1, <3>2, <3>3, <3>4, FileDoneSteps
  <2>4. CASE ~IsImported(At(t), importer[t].digest)
    <3> DEFINE r == [importer[t] EXCEPT !.at = "read"]
    <3>1. Goes(t, r) /\ UNCHANGED importRuns
      BY <1>5, <2>4 DEF Look
    <3>2. importer[t] = [at |-> "look", run |-> importer[t].run, todo |-> importer[t].todo, digest |-> importer[t].digest]
      <4>1. ImporterFits(importer[t])
        BY <1>0
      <4> QED
        BY <2>1, <4>1 DEF ImporterFits, NoImport
    <3>3. r = [at |-> "read", run |-> importer[t].run, todo |-> importer[t].todo, digest |-> importer[t].digest]
      BY <3>2
    <3> HIDE DEF r
    <3>4. ImporterFits(r) /\ r.run = importer[t].run
      BY <2>2, <3>3 DEF ImporterFits, AtFile
    <3> QED
      BY <2>1, <2>2, <3>1, <3>4, ImporterSteps
  <2> QED
    BY <2>3, <2>4
<1>6. ASSUME NEW t \in Importers, ReadFile(t) PROVE ImportInv'
  <2> DEFINE r == [at |-> "write", run |-> importer[t].run, todo |-> importer[t].todo, digest |-> importer[t].digest,
                   content |-> file[At(t)]]
  <2>1. /\ importer[t].at = "read" /\ Goes(t, r)
        /\ UNCHANGED <<file, table, recorded, importRuns, lapses, fileChanges, importBreaks>>
    BY <1>6 DEF ReadFile
  <2>2. AtFile(importer[t]) /\ At(t) \in Files /\ importer[t] # NoImport /\ importer[t].todo # <<>>
        /\ importer[t].digest \in Exports
    BY <2>1, RequestAt
  <2>3. ImporterFits(r)
    BY <1>0, <2>1, <2>2 DEF ImporterFits, AtFile, ImportBasics
  <2>4. r.run = importer[t].run
    OBVIOUS
  <2> HIDE DEF r
  <2> QED
    BY <2>1, <2>2, <2>3, <2>4, ImporterSteps
<1>7. ASSUME NEW t \in Importers, Write(t) PROVE ImportInv'
  BY <1>7, WriteSteps
<1>8. ASSUME NEW t \in Importers, ImportFails(t) PROVE ImportInv'
  <2>1. importBreaks' \in 0 .. MaxImportBreaks
    BY <1>0, <1>8, ImportAssumption DEF ImportFails
  <2> QED
    BY <1>8, <2>1, RunEnds DEF ImportFails, AfterError
<1>9. ASSUME NEW t \in Importers, EndImport(t) PROVE ImportInv'
  BY <1>0, <1>9, RunEnds DEF EndImport
<1>10. CASE UNCHANGED importVars
  <2>1. SkippedIsShown'
    BY <1>10 DEF importVars, ImportInv, SkippedIsShown, IsImported, RecordsOf, Shows
  <2>2. ShownIsRecorded' /\ TakenIsRecorded'
    BY <1>10 DEF importVars, ImportInv, RecordsOf, ShownIsRecorded, TakenIsRecorded
  <2>3. WholeWhenSucceeded' /\ ImportBasics' /\ RunsApart'
    BY <1>10 DEF importVars, ImportInv, WholeWhenSucceeded, Taken, ImportBasics, RunsApart
  <2>4. \A t \in Importers : ImporterFits(importer[t])'
    BY <1>0, <1>10 DEF importVars, ImporterFits, AtFile, Taken
  <2> QED
    BY <2>1, <2>2, <2>3, <2>4 DEF ImportInv
<1> QED
  BY <1>1, <1>2, <1>3, <1>4, <1>5, <1>6, <1>7, <1>8, <1>9, <1>10 DEF ImportNext, Kinds

\* What is skipped is in the tables, what is in the tables is recorded, and a
\* run that succeeded is whole (imports.py, import_run_lifecycle.py).
THEOREM ImportsAreKept == ImportSpec => []ImportsAgree
BY ImportInvInit, ImportInvStep, ImportAt, PTL DEF ImportSpec

-----------------------------------------------------------------------------
(* The library: the parts of its books, and their rows. *)

FileKinds == {"pdf", "cover", "images"}
Free(b) == b \in LibraryBook \ crossed
Images == parts["images"]
Pdfs == parts["pdf"]

\* Requests that rename or delete a book.
Mover(h) == Active(h) /\ request[h].op # "edit"
Renamer(h) == Active(h) /\ request[h].op = "rename"

\* Parts of a book that a request still has to do, and those that it moved.
Parts(s) == {s[i] : i \in DOMAIN s}
LeftToDo(r) == Parts(r.todo)
MovedOn(r) == Parts(r.moved)

\* Where the parts of a book are.
OnlyAt(p, b, n) == \A x \in BookNames : parts[p][x] = b => x = n
Nowhere(p, b) == \A x \in BookNames : parts[p][x] # b
EditsOf(b) == {e \in acked : e[1] = b}

\* What is left of the parts, in their order, and what a renaming may have moved.
Ends == {<<"pdf", "cover", "images">>, <<"cover", "images">>, <<"images">>, <<>>}
Stacks == {<<>>, <<"pdf">>, <<"cover">>, <<"cover", "pdf">>,
           <<"images">>, <<"images", "pdf">>, <<"images", "cover">>, <<"images", "cover", "pdf">>}

\* What a request holds at its step.
RequestFits(r) ==
    \/ r = AtRest
    \/ /\ r = [op |-> r.op, at |-> r.at, name |-> r.name, new |-> r.new, book |-> r.book, field |-> r.field,
               todo |-> r.todo, moved |-> r.moved, seen |-> r.seen]
       /\ r.name \in BookNames /\ r.new \in BookNames /\ r.book \in LibraryBook \cup {NoOne}
       /\ r.todo \in Ends /\ r.moved \in Stacks
       /\ \/ r.op = "edit" /\ r.at \in {"lock", "write"} /\ r.field \in Fields
          \/ r.op = "delete" /\ r.at \in {"check", "files", "write"} /\ (r.at = "write" => r.todo = <<>>)
             /\ (r.at = "check" => r.todo = FileParts)
          \/ /\ r.op = "rename" /\ r.at \in {"check", "files", "back", "write"} /\ r.name # r.new
             /\ (r.at = "write" => r.todo = <<>>) /\ (r.at = "check" => r.todo = FileParts /\ r.moved = <<>>)
             /\ r.at # "back" => MovedOn(r) \cap LeftToDo(r) = {}
             /\ r.at = "back" => "images" \notin MovedOn(r)

\* A part of a book is in one place.
OnePlace == \A p \in FileKinds : \A n, m \in BookNames : parts[p][n] = parts[p][m] /\ parts[p][n] # NoOne => n = m

\* Requests that meet on a name have their books, and those of the name, in crossed.
Meeting(h, k) ==
    /\ h # k /\ Active(h) /\ Active(k) /\ {request[h].op, request[k].op} # {"edit"}
    /\ Names(request[h]) \cap Names(request[k]) # {}

MetAreCrossed ==
    \A h, k \in Handlers : Meeting(h, k) =>
        /\ request[h].book \in crossed \cup {NoOne} /\ request[k].book \in crossed \cup {NoOne}
        /\ \A n \in Names(request[h]) : Images[n] \in crossed \cup {NoOne}

\* A book outside crossed without images has no other part either, and its parts
\* are under one name unless it is being renamed.
HaveImages == \A b \in LibraryBook \ crossed : Nowhere("images", b) => \A p \in FileKinds : Nowhere(p, b)

Together ==
    \A b \in LibraryBook \ crossed : (\A h \in Handlers : Renamer(h) => request[h].book # b) =>
        \A p \in FileKinds : \A n, x \in BookNames : parts[p][n] = b /\ Images[x] = b => n = x

\* A renaming or a deletion works on the name of its book.
NameIsOwn == \A h \in Handlers : Mover(h) => Images[request[h].name] \in crossed \cup {NoOne, request[h].book}

\* Where the parts of the book of a request are, as far as it is.
OwnFits(h) ==
    LET r == request[h]  b == r.book IN
    /\ r.op = "edit" => Images[r.name] = b
    /\ r.op = "delete" =>
        /\ \A p \in FileKinds : OnlyAt(p, b, r.name) /\ (p \notin LeftToDo(r) => Nowhere(p, b))
        /\ "images" \in LeftToDo(r) => Images[r.name] = b
    /\ r.op = "rename" =>
        /\ \A p \in FileKinds :
            /\ OnlyAt(p, b, IF p \in MovedOn(r) THEN r.new ELSE r.name)
            /\ p \notin LeftToDo(r) \cup MovedOn(r) /\ r.at # "back" => Nowhere(p, b)
        /\ Images[IF "images" \in MovedOn(r) THEN r.new ELSE r.name] = b
        /\ EditsOf(b) \subseteq rows[r.name]

OwnBooksFit == \A h \in Handlers : Active(h) /\ Free(request[h].book) => OwnFits(h)

\* A book outside crossed has one request, or edits only.
OneRequestEach ==
    \A h, k \in Handlers : Active(h) /\ Active(k) /\ request[h].book = request[k].book /\ Free(request[h].book) =>
        h = k \/ (request[h].op = "edit" /\ request[k].op = "edit")

\* A renaming to the name of another book stops at its images.
Unprinted == \A n \in BookNames : Pdfs[n] = NoOne

TakenFits(h) ==
    LET r == request[h]  c == Images[r.new] IN
    Renamer(h) /\ r.at # "check" /\ Free(c) /\ c # r.book =>
        /\ Unprinted /\ Images[r.name] # NoOne
        /\ r.at \in {"files", "back"}
        /\ r.at = "files" => "images" \in LeftToDo(r)

TakenNamesBlock == \A h \in Handlers : TakenFits(h)

\* What a renaming moved is its own.
MovedFits(h) ==
    Renamer(h) => \A p \in MovedOn(request[h]) : parts[p][request[h].new] \in crossed \cup {NoOne, request[h].book}

MovedIsOwn == \A h \in Handlers : MovedFits(h)

\* Either no book has a PDF or every one has, unless its deletion removed it.
Printed ==
    \/ Unprinted
    \/ \A b \in LibraryBook \ crossed : Nowhere("pdf", b) =>
         \/ Nowhere("images", b)
         \/ \E h \in Handlers : Active(h) /\ request[h].op = "delete" /\ request[h].book = b /\ "pdf" \notin LeftToDo(request[h])

\* The row of a book has its confirmed edits, but while a renaming moves it.
RowsFollow ==
    \A b \in LibraryBook \ crossed : \A x \in BookNames : Images[x] = b =>
        \/ EditsOf(b) \subseteq rows[x]
        \/ \E h \in Handlers : Renamer(h) /\ request[h].book = b /\ request[h].new = x

\* The edits of a row that are of a book.
OwnEdits(row) == {e \in row : e[1] # NoOne}

\* Without requests that met, a row is about the book of its name.
RowsBelong ==
    crossed = {} =>
        /\ \A n \in BookNames : (\A h \in Handlers : Mover(h) => n \notin Names(request[h]))
               => \A e \in OwnEdits(rows[n]) : e[1] = Images[n]
        /\ \A h \in Handlers : Mover(h) => \A e \in OwnEdits(rows[request[h].name]) : e[1] = request[h].book
        /\ \A h \in Handlers : Renamer(h) =>
               \A e \in OwnEdits(rows[request[h].new]) : e[1] = Images[request[h].new] /\ e[1] # request[h].book

\* Who writes the rows holds the lock, and read them as they are.
LockedRows == \A h \in Handlers : request[h].at = "write" => metaLock = h /\ request[h].seen = rows

\* The types of the library.
LibraryBasics ==
    /\ parts \in [FileKinds -> [BookNames -> {NoOne} \cup LibraryBook]]
    /\ rows \in [BookNames -> SUBSET (LibraryEdits \cup StrayEdits)]
    /\ metaLock \in {NoOne} \cup Handlers
    /\ DOMAIN request = Handlers
    /\ acked \subseteq LibraryEdits /\ crossed \subseteq LibraryBook
    /\ requests \in 0 .. MaxRequests /\ libraryFaults \in 0 .. MaxLibraryFaults
    /\ \A h \in Handlers : RequestFits(request[h])

\* The invariant of the library.
LibraryInv ==
    /\ LibraryBasics /\ OnePlace /\ MetAreCrossed /\ HaveImages /\ Together /\ NameIsOwn
    /\ OwnBooksFit /\ OneRequestEach /\ TakenNamesBlock /\ MovedIsOwn /\ Printed
    /\ RowsFollow /\ RowsBelong /\ LockedRows
-----------------------------------------------------------------------------
\* Two sequences of one element, put together.
LEMMA TwoOf == ASSUME NEW x, NEW y PROVE <<x>> \o <<y>> = <<x, y>>
<1> DEFINE S == {x, y}
<1> DEFINE s == <<x>>  t == <<y>>  u == <<x, y>>
<1>1. s \in Seq(S) /\ t \in Seq(S) /\ u \in Seq(S) /\ Len(s) = 1 /\ Len(t) = 1 /\ Len(u) = 2
  OBVIOUS
<1>2. s[1] = x /\ t[1] = y /\ u[1] = x /\ u[2] = y
  OBVIOUS
<1> HIDE DEF s, t, u
<1>3. s \o t \in Seq(S) /\ Len(s \o t) = 2 /\ (s \o t)[1] = x /\ (s \o t)[2] = y
  <2>1. /\ s \o t \in Seq(S) /\ Len(s \o t) = 1 + 1
        /\ \A i \in 1 .. 1 + 1 : (s \o t)[i] = IF i <= 1 THEN s[i] ELSE t[i - 1]
    <3>1. /\ s \o t \in Seq(S) /\ Len(s \o t) = Len(s) + Len(t)
          /\ \A i \in 1 .. Len(s) + Len(t) : (s \o t)[i] = IF i <= Len(s) THEN s[i] ELSE t[i - Len(s)]
      BY <1>1, ConcatProperties, Zenon
    <3> QED
      BY <1>1, <3>1, Zenon
  <2>2. (s \o t)[1] = s[1] /\ (s \o t)[2] = t[1]
    BY <2>1
  <2> QED
    BY <1>2, <2>1, <2>2
<1>4. s \o t = u
  BY <1>1, <1>2, <1>3, SeqEqual
<1> QED
  BY <1>4 DEF s, t, u

\* A sequence of one element before one of two.
LEMMA ThreeOf == ASSUME NEW x, NEW y, NEW z PROVE <<x>> \o <<y, z>> = <<x, y, z>>
<1> DEFINE S == {x, y, z}
<1> DEFINE s == <<x>>  t == <<y, z>>  u == <<x, y, z>>
<1>1. s \in Seq(S) /\ t \in Seq(S) /\ u \in Seq(S) /\ Len(s) = 1 /\ Len(t) = 2 /\ Len(u) = 3
  OBVIOUS
<1>2. s[1] = x /\ t[1] = y /\ t[2] = z /\ u[1] = x /\ u[2] = y /\ u[3] = z
  OBVIOUS
<1> HIDE DEF s, t, u
<1>3. s \o t \in Seq(S) /\ Len(s \o t) = 3 /\ (s \o t)[1] = x /\ (s \o t)[2] = y /\ (s \o t)[3] = z
  <2>1. s \o t \in Seq(S) /\ Len(s \o t) = 3
    <3>1. s \o t \in Seq(S) /\ Len(s \o t) = Len(s) + Len(t)
      BY <1>1, ConcatProperties, Zenon
    <3> QED
      BY <1>1, <3>1
  <2>2. /\ (s \o t)[1] = IF 1 <= Len(s) THEN s[1] ELSE t[1 - Len(s)]
        /\ (s \o t)[2] = IF 2 <= Len(s) THEN s[2] ELSE t[2 - Len(s)]
        /\ (s \o t)[3] = IF 3 <= Len(s) THEN s[3] ELSE t[3 - Len(s)]
    <3>1. \A i \in 1 .. Len(s) + Len(t) : (s \o t)[i] = IF i <= Len(s) THEN s[i] ELSE t[i - Len(s)]
      BY <1>1, ConcatProperties, Zenon
    <3>2. 1 \in 1 .. Len(s) + Len(t) /\ 2 \in 1 .. Len(s) + Len(t) /\ 3 \in 1 .. Len(s) + Len(t)
      BY <1>1
    <3> QED
      BY <3>1, <3>2, Zenon
  <2> QED
    BY <1>1, <1>2, <2>1, <2>2
<1>4. \A i \in 1 .. Len(s \o t) : (s \o t)[i] = u[i]
  BY <1>1, <1>2, <1>3
<1>5. s \o t = u
  BY <1>1, <1>3, <1>4, SeqEqual
<1> QED
  BY <1>5 DEF s, t, u

\* The parts that are left to do, without the first one of them.
LEMMA EndsShrink ==
    ASSUME NEW s \in Ends, s # <<>>
    PROVE  /\ Head(s) \in FileKinds /\ Tail(s) \in Ends /\ Parts(Tail(s)) = Parts(s) \ {Head(s)}
           /\ Head(s) \in Parts(s) /\ "images" \in Parts(s)
           /\ Head(s) = "pdf" => s = FileParts
           /\ Head(s) = "images" => Parts(s) = {"images"}
<1> DEFINE a == <<"pdf", "cover", "images">>  b == <<"cover", "images">>  c == <<"images">>
<1>1. CASE s = a
  <2>1. Head(s) = "pdf" /\ Tail(s) = b
    BY <1>1
  <2>2. Parts(s) = {"pdf", "cover", "images"} /\ Parts(b) = {"cover", "images"}
    BY <1>1 DEF Parts
  <2> QED
    BY <1>1, <2>1, <2>2 DEF FileKinds, Ends, FileParts
<1>2. CASE s = b
  <2>1. Head(s) = "cover" /\ Tail(s) = c
    BY <1>2
  <2>2. Parts(s) = {"cover", "images"} /\ Parts(c) = {"images"}
    BY <1>2 DEF Parts
  <2> QED
    BY <1>2, <2>1, <2>2 DEF FileKinds, Ends, FileParts
<1>3. CASE s = c
  <2>1. Head(s) = "images" /\ Tail(s) = <<>>
    BY <1>3
  <2>2. Parts(s) = {"images"} /\ Parts(<<>>) = {}
    BY <1>3 DEF Parts
  <2> QED
    BY <1>3, <2>1, <2>2 DEF FileKinds, Ends, FileParts
<1> QED
  BY <1>1, <1>2, <1>3 DEF Ends

\* No parts, and the three parts of a book.
LEMMA NoParts == Parts(<<>>) = {} /\ Parts(FileParts) = FileKinds /\ <<>> \in Ends /\ FileParts \in Ends /\ <<>> \in Stacks
<1>1. Parts(<<>>) = {}
  BY DEF Parts
<1>2. Parts(FileParts) = FileKinds
  BY DEF Parts, FileParts, FileKinds
<1> QED
  BY <1>1, <1>2 DEF Ends, Stacks, FileParts

\* The parts that were moved, without the latest one.
LEMMA StackShrinks ==
    ASSUME NEW s \in Stacks, s # <<>>
    PROVE  /\ Head(s) \in FileKinds /\ Tail(s) \in Stacks /\ Parts(Tail(s)) = Parts(s) \ {Head(s)}
           /\ Head(s) \in Parts(s)
<1> DEFINE p == <<"pdf">>  c == <<"cover">>  cp == <<"cover", "pdf">>  i == <<"images">>
           ip == <<"images", "pdf">>  ic == <<"images", "cover">>  icp == <<"images", "cover", "pdf">>
<1>0. /\ Parts(<<>>) = {} /\ Parts(p) = {"pdf"} /\ Parts(c) = {"cover"} /\ Parts(cp) = {"cover", "pdf"}
      /\ Parts(i) = {"images"} /\ Parts(ip) = {"images", "pdf"} /\ Parts(ic) = {"images", "cover"}
      /\ Parts(icp) = {"images", "cover", "pdf"}
  BY DEF Parts
<1>1. /\ Head(p) = "pdf" /\ Tail(p) = <<>> /\ Head(c) = "cover" /\ Tail(c) = <<>>
      /\ Head(cp) = "cover" /\ Tail(cp) = p /\ Head(i) = "images" /\ Tail(i) = <<>>
      /\ Head(ip) = "images" /\ Tail(ip) = p /\ Head(ic) = "images" /\ Tail(ic) = c
      /\ Head(icp) = "images" /\ Tail(icp) = cp
  OBVIOUS
<1>2. s \in {p, c, cp, i, ip, ic, icp}
  BY DEF Stacks
<1>3. {<<>>, p, c, cp} \subseteq Stacks
  BY DEF Stacks
<1> HIDE DEF p, c, cp, i, ip, ic, icp
<1>4. \A kind, rest : kind \in FileKinds /\ rest \in Stacks /\ kind \notin Parts(rest) /\ Head(s) = kind /\ Tail(s) = rest
                        /\ Parts(s) = Parts(rest) \cup {kind}
        => /\ Head(s) \in FileKinds /\ Tail(s) \in Stacks /\ Parts(Tail(s)) = Parts(s) \ {Head(s)}
           /\ Head(s) \in Parts(s)
  OBVIOUS
<1>5. "pdf" \in FileKinds /\ "cover" \in FileKinds /\ "images" \in FileKinds
  BY DEF FileKinds
<1>6. CASE s = p
  BY <1>0, <1>1, <1>3, <1>4, <1>5, <1>6
<1>7. CASE s = c
  BY <1>0, <1>1, <1>3, <1>4, <1>5, <1>7
<1>8. CASE s = i
  BY <1>0, <1>1, <1>3, <1>4, <1>5, <1>8
<1>9. CASE s = cp
  BY <1>0, <1>1, <1>3, <1>4, <1>5, <1>9
<1>10. CASE s = ip
  BY <1>0, <1>1, <1>3, <1>4, <1>5, <1>10
<1>11. CASE s = ic
  BY <1>0, <1>1, <1>3, <1>4, <1>5, <1>11
<1>12. CASE s = icp
  BY <1>0, <1>1, <1>3, <1>4, <1>5, <1>12
<1> QED
  BY <1>2, <1>6, <1>7, <1>8, <1>9, <1>10, <1>11, <1>12

\* A part that is moved is put on those that were.
LEMMA StackGrows ==
    ASSUME NEW s \in Stacks, NEW e \in Ends, e # <<>>, Parts(s) \cap Parts(e) = {}
    PROVE  <<Head(e)>> \o s \in Stacks /\ Parts(<<Head(e)>> \o s) = Parts(s) \cup {Head(e)}
<1> DEFINE p == <<"pdf">>  c == <<"cover">>  cp == <<"cover", "pdf">>  i == <<"images">>
           ip == <<"images", "pdf">>  ic == <<"images", "cover">>  icp == <<"images", "cover", "pdf">>
<1>0. /\ Parts(<<>>) = {} /\ Parts(p) = {"pdf"} /\ Parts(c) = {"cover"} /\ Parts(cp) = {"cover", "pdf"}
      /\ Parts(i) = {"images"} /\ Parts(ip) = {"images", "pdf"} /\ Parts(ic) = {"images", "cover"}
      /\ Parts(icp) = {"images", "cover", "pdf"}
  BY DEF Parts
<1>1. "images" \in Parts(e)
  BY EndsShrink
<1>2. s \in {<<>>, p, c, cp}
  BY <1>0, <1>1 DEF Stacks
<1>3. CASE Head(e) = "images"
  <2>1. <<"images">> \o <<>> = i /\ <<"images">> \o p = ip /\ <<"images">> \o c = ic /\ <<"images">> \o cp = icp
    <3>1. <<"images">> \o <<>> = i
      OBVIOUS
    <3>2. <<"images">> \o p = ip /\ <<"images">> \o c = ic
      BY TwoOf
    <3>3. <<"images">> \o cp = icp
      BY ThreeOf
    <3> QED
      BY <3>1, <3>2, <3>3
  <2>2. {i, ip, ic, icp} \subseteq Stacks
    BY DEF Stacks
  <2>3. Parts(i) = Parts(<<>>) \cup {"images"} /\ Parts(ip) = Parts(p) \cup {"images"}
        /\ Parts(ic) = Parts(c) \cup {"images"} /\ Parts(icp) = Parts(cp) \cup {"images"}
    BY <1>0
  <2> HIDE DEF p, c, cp, i, ip, ic, icp
  <2> QED
    <3>1. <<"images">> \o s \in Stacks /\ Parts(<<"images">> \o s) = Parts(s) \cup {"images"}
      BY <1>2, <2>1, <2>2, <2>3, Zenon
    <3> QED
      BY <3>1, <1>3
<1>4. CASE e = <<"cover", "images">>
  <2>1. Head(e) = "cover" /\ Parts(e) = {"cover", "images"}
    BY <1>4 DEF Parts
  <2>2. s \in {<<>>, p}
    BY <1>0, <1>2, <2>1
  <2>3. <<"cover">> \o <<>> = c /\ <<"cover">> \o p = cp
    <3>1. <<"cover">> \o <<>> = c
      OBVIOUS
    <3>2. <<"cover">> \o p = cp
      BY TwoOf
    <3> QED
      BY <3>1, <3>2
  <2>4. {c, cp} \subseteq Stacks
    BY DEF Stacks
  <2>5. Parts(c) = Parts(<<>>) \cup {"cover"} /\ Parts(cp) = Parts(p) \cup {"cover"}
    BY <1>0
  <2> HIDE DEF p, c, cp, i, ip, ic, icp
  <2> QED
    <3>1. <<"cover">> \o s \in Stacks /\ Parts(<<"cover">> \o s) = Parts(s) \cup {"cover"}
      BY <2>2, <2>3, <2>4, <2>5, Zenon
    <3> QED
      BY <3>1, <2>1
<1>5. CASE e = <<"pdf", "cover", "images">>
  <2>1. Head(e) = "pdf" /\ Parts(e) = {"pdf", "cover", "images"}
    BY <1>5 DEF Parts
  <2>2. s = <<>>
    BY <1>0, <1>2, <2>1
  <2>3. <<"pdf">> \o <<>> = p /\ p \in Stacks
    BY DEF Stacks
  <2> HIDE DEF p, c, cp, i, ip, ic, icp
  <2> QED
    BY <1>0, <2>1, <2>2, <2>3
<1>6. e = <<"images">> => Head(e) = "images"
  OBVIOUS
<1> QED
  BY <1>3, <1>4, <1>5, <1>6 DEF Ends
-----------------------------------------------------------------------------
(* Requests as records. *)

IsRequest(r) ==
    r = [op |-> r.op, at |-> r.at, name |-> r.name, new |-> r.new, book |-> r.book, field |-> r.field,
         todo |-> r.todo, moved |-> r.moved, seen |-> r.seen]

\* A request that goes to another step keeps the rest.
LEMMA AtElsewhere ==
    ASSUME NEW q, IsRequest(q), NEW a, NEW r, r = [q EXCEPT !.at = a]
    PROVE  IsRequest(r) /\ r.op = q.op /\ r.at = a /\ r.name = q.name /\ r.new = q.new /\ r.book = q.book /\ r.field = q.field /\ r.todo = q.todo /\ r.moved = q.moved /\ r.seen = q.seen
<1>1. q = [op |-> q.op, at |-> q.at, name |-> q.name, new |-> q.new, book |-> q.book, field |-> q.field, todo |-> q.todo, moved |-> q.moved, seen |-> q.seen]
  BY DEF IsRequest
<1>2. r = [op |-> q.op, at |-> a, name |-> q.name, new |-> q.new, book |-> q.book, field |-> q.field,
           todo |-> q.todo, moved |-> q.moved, seen |-> q.seen]
  BY <1>1
<1>3. r.op = q.op /\ r.at = a /\ r.name = q.name /\ r.new = q.new /\ r.book = q.book /\ r.field = q.field /\ r.todo = q.todo /\ r.moved = q.moved /\ r.seen = q.seen
  BY <1>2
<1>4. IsRequest(r)
  BY <1>2, <1>3 DEF IsRequest
<1> QED
  BY <1>3, <1>4

\* A request that has other parts to do keeps the rest.
LEMMA LeftLess ==
    ASSUME NEW q, IsRequest(q), NEW t, NEW r, r = [q EXCEPT !.todo = t]
    PROVE  IsRequest(r) /\ r.op = q.op /\ r.at = q.at /\ r.name = q.name /\ r.new = q.new /\ r.book = q.book /\ r.field = q.field /\ r.todo = t /\ r.moved = q.moved /\ r.seen = q.seen
<1>1. q = [op |-> q.op, at |-> q.at, name |-> q.name, new |-> q.new, book |-> q.book, field |-> q.field, todo |-> q.todo, moved |-> q.moved, seen |-> q.seen]
  BY DEF IsRequest
<1>2. r = [op |-> q.op, at |-> q.at, name |-> q.name, new |-> q.new, book |-> q.book, field |-> q.field,
           todo |-> t, moved |-> q.moved, seen |-> q.seen]
  BY <1>1
<1>3. r.op = q.op /\ r.at = q.at /\ r.name = q.name /\ r.new = q.new /\ r.book = q.book /\ r.field = q.field /\ r.todo = t /\ r.moved = q.moved /\ r.seen = q.seen
  BY <1>2
<1>4. IsRequest(r)
  BY <1>2, <1>3 DEF IsRequest
<1> QED
  BY <1>3, <1>4

\* A request that has moved other parts keeps the rest.
LEMMA MovedElse ==
    ASSUME NEW q, IsRequest(q), NEW m, NEW r, r = [q EXCEPT !.moved = m]
    PROVE  IsRequest(r) /\ r.op = q.op /\ r.at = q.at /\ r.name = q.name /\ r.new = q.new /\ r.book = q.book /\ r.field = q.field /\ r.todo = q.todo /\ r.moved = m /\ r.seen = q.seen
<1>1. q = [op |-> q.op, at |-> q.at, name |-> q.name, new |-> q.new, book |-> q.book, field |-> q.field, todo |-> q.todo, moved |-> q.moved, seen |-> q.seen]
  BY DEF IsRequest
<1>2. r = [op |-> q.op, at |-> q.at, name |-> q.name, new |-> q.new, book |-> q.book, field |-> q.field,
           todo |-> q.todo, moved |-> m, seen |-> q.seen]
  BY <1>1
<1>3. r.op = q.op /\ r.at = q.at /\ r.name = q.name /\ r.new = q.new /\ r.book = q.book /\ r.field = q.field /\ r.todo = q.todo /\ r.moved = m /\ r.seen = q.seen
  BY <1>2
<1>4. IsRequest(r)
  BY <1>2, <1>3 DEF IsRequest
<1> QED
  BY <1>3, <1>4

-----------------------------------------------------------------------------

\* No book is the mark of an empty name.
LEMMA BooksAreSome == \A b \in LibraryBook : b # NoOne
BY LibraryAssumption DEF LibraryBook, NoOne

\* What was moved are parts of a book.
LEMMA StacksAreParts == \A s \in Stacks : Parts(s) \subseteq FileKinds
BY DEF Stacks, Parts, FileKinds

\* A handler at rest fits.
LEMMA RestFits == RequestFits(AtRest) /\ AtRest.op = "none" /\ AtRest.at = "rest"
BY DEF RequestFits, AtRest

\* What RequestFits says of a request that is served.
LEMMA ServedFits ==
    ASSUME LibraryInv, NEW h \in Handlers, Active(h)
    PROVE  LET r == request[h] IN
           /\ r = [op |-> r.op, at |-> r.at, name |-> r.name, new |-> r.new, book |-> r.book, field |-> r.field,
                   todo |-> r.todo, moved |-> r.moved, seen |-> r.seen]
           /\ r.name \in BookNames /\ r.new \in BookNames /\ r.book \in LibraryBook \cup {NoOne}
           /\ r.todo \in Ends /\ r.moved \in Stacks
           /\ r.op \in {"edit", "delete", "rename"}
           /\ r.op = "edit" => r.at \in {"lock", "write"} /\ r.field \in Fields
           /\ r.op = "delete" => r.at \in {"check", "files", "write"} /\ (r.at = "write" => r.todo = <<>>)
                                 /\ (r.at = "check" => r.todo = FileParts)
           /\ r.op = "rename" => r.at \in {"check", "files", "back", "write"} /\ r.name # r.new
           /\ r.op = "rename" => (r.at = "write" => r.todo = <<>>) /\ (r.at = "check" => r.todo = FileParts /\ r.moved = <<>>)
           /\ r.op = "rename" /\ r.at # "back" => MovedOn(r) \cap LeftToDo(r) = {}
           /\ r.op = "rename" /\ r.at = "back" => "images" \notin MovedOn(r)
<1>1. RequestFits(request[h])
  BY DEF LibraryInv, LibraryBasics
<1> DEFINE r == request[h]
<1>2. r # AtRest
  BY DEF Active
<1> HIDE DEF r
<1>3. RequestFits(r)
  BY <1>1 DEF r
<1> SUFFICES
           /\ r = [op |-> r.op, at |-> r.at, name |-> r.name, new |-> r.new, book |-> r.book, field |-> r.field,
                   todo |-> r.todo, moved |-> r.moved, seen |-> r.seen]
           /\ r.name \in BookNames /\ r.new \in BookNames /\ r.book \in LibraryBook \cup {NoOne}
           /\ r.todo \in Ends /\ r.moved \in Stacks
           /\ r.op \in {"edit", "delete", "rename"}
           /\ r.op = "edit" => r.at \in {"lock", "write"} /\ r.field \in Fields
           /\ r.op = "delete" => r.at \in {"check", "files", "write"} /\ (r.at = "write" => r.todo = <<>>)
                                 /\ (r.at = "check" => r.todo = FileParts)
           /\ r.op = "rename" => r.at \in {"check", "files", "back", "write"} /\ r.name # r.new
           /\ r.op = "rename" => (r.at = "write" => r.todo = <<>>) /\ (r.at = "check" => r.todo = FileParts /\ r.moved = <<>>)
           /\ r.op = "rename" /\ r.at # "back" => MovedOn(r) \cap LeftToDo(r) = {}
           /\ r.op = "rename" /\ r.at = "back" => "images" \notin MovedOn(r)
  BY DEF r
<1> QED
  BY <1>2, <1>3, Zenon DEF RequestFits

\* A handler serves a request when it has one.
LEMMA IdleIsRest == ASSUME LibraryInv, NEW h \in Handlers PROVE Active(h) <=> request[h].op # "none"
<1>1. CASE Active(h)
  BY <1>1, ServedFits
<1>2. CASE ~Active(h)
  BY <1>2, RestFits DEF Active
<1> QED
  BY <1>1, <1>2

\* Requests of which one moves files and that share a name have crossed.
LEMMA MetHaveCrossed ==
    ASSUME LibraryInv, NEW h \in Handlers, NEW k \in Handlers, Mover(h), Active(k), h # k,
           NEW x \in Names(request[h]), x \in Names(request[k])
    PROVE  /\ request[h].book \in crossed \cup {NoOne} /\ request[k].book \in crossed \cup {NoOne}
           /\ \A n \in Names(request[h]) \cup Names(request[k]) : Images[n] \in crossed \cup {NoOne}
<1>1. {request[h].op, request[k].op} # {"edit"} /\ {request[k].op, request[h].op} # {"edit"}
  BY DEF Mover
<1>2. Meeting(h, k) /\ Meeting(k, h)
  BY <1>1 DEF Meeting, Mover
<1> QED
  BY <1>2 DEF LibraryInv, MetAreCrossed

\* What is moved is under one of the names of the request.
LEMMA OwnIsUnderItsNames ==
    ASSUME LibraryInv, NEW k \in Handlers, Mover(k), Free(request[k].book),
           NEW p \in FileKinds, NEW x \in BookNames, parts[p][x] = request[k].book
    PROVE  x \in Names(request[k])
<1>1. OwnFits(k)
  BY DEF LibraryInv, OwnBooksFit, Mover
<1>2. request[k].op \in {"delete", "rename"}
  BY ServedFits DEF Mover
<1> QED
  BY <1>1, <1>2 DEF OwnFits, OnlyAt, Names

\* A book that did not cross and that has a part under a name of a request about
\* another book has its images there, and no other request moves it.
LEMMA OthersAreAtHome ==
    ASSUME LibraryInv, NEW h \in Handlers, Mover(h),
           NEW p \in FileKinds, NEW x \in Names(request[h]), Free(parts[p][x]), parts[p][x] # request[h].book
    PROVE  /\ Images[x] = parts[p][x] /\ x # request[h].name
           /\ \A k \in Handlers : Mover(k) => request[k].book # parts[p][x]
           /\ \A k \in Handlers : Active(k) /\ k # h => x \notin Names(request[k])
<1> DEFINE c == parts[p][x]
<1>0. x \in BookNames
  BY ServedFits DEF Mover, Names
<1>1. ASSUME NEW k \in Handlers, Mover(k), request[k].book = c PROVE FALSE
  <2>1. x \in Names(request[k])
    BY <1>0, <1>1, OwnIsUnderItsNames
  <2>2. k # h
    BY <1>1
  <2> QED
    BY <1>1, <2>1, <2>2, MetHaveCrossed, BooksAreSome DEF Mover, Free
<1>2. \E y \in BookNames : Images[y] = c
  BY <1>0 DEF LibraryInv, HaveImages, Nowhere, Free, Images
<1>3. Images[x] = c
  <2>1. \A k \in Handlers : Renamer(k) => request[k].book # c
    BY <1>1 DEF Renamer, Mover
  <2> QED
    BY <1>0, <1>2, <2>1 DEF LibraryInv, Together, Free
<1>4. c \notin crossed \cup {NoOne}
  BY BooksAreSome DEF Free
<1>5. x # request[h].name
  BY <1>3, <1>4 DEF LibraryInv, NameIsOwn
<1>6. ASSUME NEW k \in Handlers, Active(k), k # h, x \in Names(request[k]) PROVE FALSE
  BY <1>3, <1>4, <1>6, MetHaveCrossed
<1> QED
  BY <1>1, <1>3, <1>5, <1>6
-----------------------------------------------------------------------------
\* Request h goes on as r, or ends, and is about what it was about.
Continues(h, r) ==
    /\ request' = [request EXCEPT ![h] = r]
    /\ RequestFits(r)
    /\ r.op # "none" =>
        /\ r.op = request[h].op /\ r.name = request[h].name /\ r.new = request[h].new /\ r.book = request[h].book

\* After a step of one handler the others serve what they served, and the
\* request of its own, if it goes on, is about the same book and names.
LEMMA ServedAfter ==
    ASSUME LibraryInv, NEW h \in Handlers, Active(h), NEW r, Continues(h, r)
    PROVE  /\ DOMAIN request' = Handlers /\ request'[h] = r /\ \A k \in Handlers : k # h => request'[k] = request[k]
           /\ \A k \in Handlers : RequestFits(request'[k])
           /\ \A k \in Handlers : k # h => (Active(k)' <=> Active(k)) /\ (Mover(k)' <=> Mover(k)) /\ (Renamer(k)' <=> Renamer(k))
           /\ Active(h)' <=> r.op # "none"
           /\ Active(h)' => r.op = request[h].op /\ r.name = request[h].name /\ r.new = request[h].new /\ r.book = request[h].book
           /\ Mover(h)' => Mover(h)
           /\ Renamer(h)' => Renamer(h)
<1>1. DOMAIN request = Handlers /\ \A k \in Handlers : RequestFits(request[k])
  BY DEF LibraryInv, LibraryBasics
<1>2. DOMAIN request' = Handlers /\ request'[h] = r /\ \A k \in Handlers : k # h => request'[k] = request[k]
  BY <1>1 DEF Continues
<1>3. \A k \in Handlers : RequestFits(request'[k])
  BY <1>1, <1>2 DEF Continues
<1>4. Active(h)' <=> r.op # "none"
  <2>1. RequestFits(r)
    BY DEF Continues
  <2>2. r = AtRest \/ r.op \in {"edit", "delete", "rename"}
    BY <2>1, Zenon DEF RequestFits
  <2>3. AtRest.op = "none"
    BY RestFits
  <2>4. Active(h)' <=> r # AtRest
    BY <1>2 DEF Active
  <2> QED
    BY <2>2, <2>3, <2>4
<1>5. \A k \in Handlers : k # h => (Active(k)' <=> Active(k)) /\ (Mover(k)' <=> Mover(k)) /\ (Renamer(k)' <=> Renamer(k))
  BY <1>2 DEF Active, Mover, Renamer
<1>6. Active(h)' => r.op = request[h].op /\ r.name = request[h].name /\ r.new = request[h].new /\ r.book = request[h].book
  BY <1>4 DEF Continues
<1>7. (Mover(h)' => Mover(h)) /\ (Renamer(h)' => Renamer(h))
  BY <1>2, <1>6 DEF Mover, Renamer
<1> QED
  BY <1>2, <1>3, <1>4, <1>5, <1>6, <1>7

\* After it, requests meet that met before, under the same names.
LEMMA NamesAfter ==
    ASSUME LibraryInv, NEW h \in Handlers, Active(h), NEW r, Continues(h, r)
    PROVE  /\ \A k \in Handlers : Active(k)' => Active(k) /\ Names(request[k])' = Names(request[k])
                                               /\ request'[k].book = request[k].book /\ request'[k].op = request[k].op
                                               /\ request'[k].name = request[k].name /\ request'[k].new = request[k].new
           /\ \A k, l \in Handlers : Meeting(k, l)' => Meeting(k, l)
<1>1. \A k \in Handlers : Active(k)' => Active(k) /\ Names(request[k])' = Names(request[k])
                                               /\ request'[k].book = request[k].book /\ request'[k].op = request[k].op
                                               /\ request'[k].name = request[k].name /\ request'[k].new = request[k].new
  <2> SUFFICES ASSUME NEW k \in Handlers, Active(k)'
               PROVE  Active(k) /\ Names(request[k])' = Names(request[k])
                                               /\ request'[k].book = request[k].book /\ request'[k].op = request[k].op
                                               /\ request'[k].name = request[k].name /\ request'[k].new = request[k].new
    OBVIOUS
  <2>1. CASE k = h
    BY <2>1, ServedAfter DEF Names
  <2>2. CASE k # h
    BY <2>2, ServedAfter DEF Names
  <2> QED
    BY <2>1, <2>2
<1>2. ASSUME NEW k \in Handlers, NEW l \in Handlers, Meeting(k, l)' PROVE Meeting(k, l)
  <2>1. Active(k)' /\ Active(l)'
    BY <1>2 DEF Meeting
  <2>2. /\ Names(request[k])' = Names(request[k]) /\ Names(request[l])' = Names(request[l])
        /\ request'[k].op = request[k].op /\ request'[l].op = request[l].op /\ Active(k) /\ Active(l)
    BY <1>1, <2>1
  <2>3. k # l /\ Names(request[k])' \cap Names(request[l])' # {} /\ {request'[k].op, request'[l].op} # {"edit"}
    BY <1>2 DEF Meeting
  <2> QED
    BY <2>2, <2>3 DEF Meeting
<1> QED
  BY <1>1, <1>2

\* The parts of books that are not crossed, other than the book of h, stay or go;
\* their images stay.
OthersStay(h) ==
    \A b \in LibraryBook \ crossed' : b # request[h].book \/ request[h].op = "edit" =>
        /\ \A p \in FileKinds : \A x \in BookNames : parts'[p][x] = b => parts[p][x] = b
        /\ \A x \in BookNames : Images[x] = b => Images'[x] = b

\* Requests go on to be about different books.
LEMMA OneEachAfter ==
    ASSUME LibraryInv, NEW h \in Handlers, Active(h), NEW r, Continues(h, r), crossed \subseteq crossed'
    PROVE  OneRequestEach'
<1> SUFFICES ASSUME NEW k \in Handlers, NEW l \in Handlers,
                    Active(k)', Active(l)', request'[k].book = request'[l].book, Free(request[k].book)'
             PROVE  k = l \/ (request'[k].op = "edit" /\ request'[l].op = "edit")
  BY DEF OneRequestEach
<1>1. /\ Active(k) /\ Active(l) /\ request'[k].book = request[k].book /\ request'[l].book = request[l].book
      /\ request'[k].op = request[k].op /\ request'[l].op = request[l].op
  BY NamesAfter
<1>2. Free(request[k].book)
  BY <1>1 DEF Free
<1> QED
  BY <1>1, <1>2 DEF LibraryInv, OneRequestEach

\* What a step of one request need not look at again.
LEMMA OthersKeep ==
    ASSUME LibraryInv, NEW h \in Handlers, Active(h), NEW r, Continues(h, r), OthersStay(h),
           crossed \subseteq crossed', rows' = rows, acked' = acked
    PROVE  \A k \in Handlers : k # h /\ Active(k)' /\ Free(request[k].book)' => OwnFits(k)'
<1>2. ASSUME NEW k \in Handlers, k # h, Active(k)', Free(request[k].book)' PROVE OwnFits(k)'
  <2>0. request'[k] = request[k]
    BY <1>2, ServedAfter
  <2>c. PICK r0 : r0 = request[k]
    OBVIOUS
  <2>d. PICK b : b = r0.book
    OBVIOUS
  <2>1. Active(k) /\ b \in LibraryBook /\ b \notin crossed' /\ Free(b) /\ Free(request[k].book)
    BY <1>2, <2>0, <2>c, <2>d, NamesAfter DEF Free
  <2>2. OwnFits(k)
    BY <2>1 DEF LibraryInv, OwnBooksFit
  <2>3. r0.op = "edit" => request[h].op = "edit" \/ b # request[h].book
    BY <1>2, <2>1, <2>c, <2>d DEF LibraryInv, OneRequestEach
  <2>4. r0.op # "edit" => b # request[h].book
    BY <1>2, <2>1, <2>c, <2>d DEF LibraryInv, OneRequestEach
  <2>5. /\ \A p \in FileKinds : \A x \in BookNames : parts'[p][x] = b => parts[p][x] = b
        /\ \A x \in BookNames : Images[x] = b => Images'[x] = b
    BY <2>1, <2>3, <2>4, ServedFits DEF OthersStay
  <2>6. r0.name \in BookNames /\ r0.new \in BookNames
    BY <2>1, <2>c, ServedFits
  <2>8. \A p \in FileKinds : \A n \in BookNames : (OnlyAt(p, b, n) => OnlyAt(p, b, n)') /\ (Nowhere(p, b) => Nowhere(p, b)')
    BY <2>5 DEF OnlyAt, Nowhere
  <2>9. EditsOf(b)' = EditsOf(b)
    BY DEF EditsOf
  <2>10. /\ r0.op = "edit" => Images[r0.name] = b
         /\ r0.op = "delete" =>
            /\ \A p \in FileKinds : OnlyAt(p, b, r0.name) /\ (p \notin LeftToDo(r0) => Nowhere(p, b))
            /\ "images" \in LeftToDo(r0) => Images[r0.name] = b
         /\ r0.op = "rename" =>
            /\ \A p \in FileKinds :
               /\ OnlyAt(p, b, IF p \in MovedOn(r0) THEN r0.new ELSE r0.name)
               /\ p \notin LeftToDo(r0) \cup MovedOn(r0) /\ r0.at # "back" => Nowhere(p, b)
            /\ Images[IF "images" \in MovedOn(r0) THEN r0.new ELSE r0.name] = b
            /\ EditsOf(b) \subseteq rows[r0.name]
    BY <2>2, <2>c, <2>d DEF OwnFits
  <2>11. /\ r0.op = "edit" => Images'[r0.name] = b
         /\ r0.op = "delete" =>
            /\ \A p \in FileKinds : OnlyAt(p, b, r0.name)' /\ (p \notin LeftToDo(r0) => Nowhere(p, b)')
            /\ "images" \in LeftToDo(r0) => Images'[r0.name] = b
         /\ r0.op = "rename" =>
            /\ \A p \in FileKinds :
               /\ OnlyAt(p, b, IF p \in MovedOn(r0) THEN r0.new ELSE r0.name)'
               /\ p \notin LeftToDo(r0) \cup MovedOn(r0) /\ r0.at # "back" => Nowhere(p, b)'
            /\ Images'[IF "images" \in MovedOn(r0) THEN r0.new ELSE r0.name] = b
            /\ EditsOf(b)' \subseteq rows'[r0.name]
    BY <2>5, <2>6, <2>8, <2>9, <2>10
  <2> QED
    BY <2>0, <2>c, <2>d, <2>11 DEF OwnFits
<1> QED
  BY <1>2

\* A step that leaves parts and rows alone.
Unmoved == parts' = parts /\ rows' = rows /\ acked' = acked /\ crossed \subseteq crossed'

\* A step that leaves the files alone keeps what is said of them, and of what
\* the other requests took.
LEMMA PartsStand ==
    ASSUME LibraryInv, NEW h \in Handlers, Active(h), NEW r, Continues(h, r), parts' = parts, crossed \subseteq crossed'
    PROVE  /\ OnePlace' /\ MetAreCrossed' /\ HaveImages' /\ NameIsOwn' /\ OneRequestEach'
           /\ \A k \in Handlers : k # h => TakenFits(k)' /\ MovedFits(k)'
<1>1. OnePlace' /\ HaveImages'
  BY DEF LibraryInv, OnePlace, HaveImages, Nowhere
<1>2. OneRequestEach'
  BY OneEachAfter
<1>3. MetAreCrossed'
  <2> SUFFICES ASSUME NEW k \in Handlers, NEW l \in Handlers, Meeting(k, l)'
               PROVE  /\ request'[k].book \in crossed' \cup {NoOne} /\ request'[l].book \in crossed' \cup {NoOne}
                      /\ \A n \in Names(request[k])' : Images'[n] \in crossed' \cup {NoOne}
    BY DEF MetAreCrossed
  <2>1. Meeting(k, l) /\ Active(k)' /\ Active(l)'
    BY NamesAfter DEF Meeting
  <2>2. /\ request[k].book \in crossed \cup {NoOne} /\ request[l].book \in crossed \cup {NoOne}
        /\ \A n \in Names(request[k]) : Images[n] \in crossed \cup {NoOne}
    BY <2>1 DEF LibraryInv, MetAreCrossed
  <2>3. request'[k].book = request[k].book /\ request'[l].book = request[l].book /\ Names(request[k])' = Names(request[k])
    BY <2>1, NamesAfter
  <2> QED
    BY <2>2, <2>3 DEF Images
<1>4. NameIsOwn'
  <2> SUFFICES ASSUME NEW k \in Handlers, Mover(k)' PROVE Images'[request'[k].name] \in crossed' \cup {NoOne, request'[k].book}
    BY DEF NameIsOwn
  <2>1. Mover(k) /\ request'[k].name = request[k].name /\ request'[k].book = request[k].book
    BY NamesAfter DEF Mover
  <2> QED
    BY <2>1 DEF LibraryInv, NameIsOwn, Images
<1>5. ASSUME NEW k \in Handlers, k # h PROVE TakenFits(k)' /\ MovedFits(k)'
  <2>1. request'[k] = request[k] /\ (Renamer(k)' <=> Renamer(k))
    BY <1>5, ServedAfter
  <2>2. TakenFits(k) /\ MovedFits(k)
    BY DEF LibraryInv, TakenNamesBlock, MovedIsOwn
  <2>3. TakenFits(k)'
    BY <2>1, <2>2 DEF TakenFits, Free, Unprinted, Pdfs, Images
  <2>4. MovedFits(k)'
    BY <2>1, <2>2 DEF MovedFits
  <2> QED
    BY <2>3, <2>4
<1> QED
  BY <1>1, <1>2, <1>3, <1>4, <1>5

\* A step that leaves files and rows alone keeps what is said of the other
\* requests.
LEMMA StandStill ==
    ASSUME LibraryInv, NEW h \in Handlers, Active(h), NEW r, Continues(h, r), Unmoved
    PROVE  /\ OnePlace' /\ MetAreCrossed' /\ HaveImages' /\ NameIsOwn' /\ OneRequestEach'
           /\ \A k \in Handlers : k # h /\ Active(k)' /\ Free(request[k].book)' => OwnFits(k)'
           /\ \A k \in Handlers : k # h => TakenFits(k)' /\ MovedFits(k)'
<1>1. OthersStay(h)
  BY DEF OthersStay, Images, Unmoved
<1> QED
  BY <1>1, OthersKeep, PartsStand DEF Unmoved

\* ... and that goes on with the request.
LEMMA GoesOn ==
    ASSUME LibraryInv, NEW h \in Handlers, Active(h), NEW r, Continues(h, r), Unmoved,
           r.op # "none", LeftToDo(r) \subseteq LeftToDo(request[h]),
           crossed' = {} => crossed = {}
    PROVE  Together' /\ Printed' /\ RowsFollow' /\ RowsBelong'
<1> USE DEF Unmoved
<1>1. \A k \in Handlers : /\ (Active(k)' <=> Active(k)) /\ (Mover(k)' <=> Mover(k)) /\ (Renamer(k)' <=> Renamer(k))
                          /\ Active(k) => /\ Names(request[k])' = Names(request[k])
                                          /\ request'[k].book = request[k].book /\ request'[k].op = request[k].op
                                          /\ request'[k].name = request[k].name /\ request'[k].new = request[k].new
  <2> SUFFICES ASSUME NEW k \in Handlers
               PROVE  /\ (Active(k)' <=> Active(k)) /\ (Mover(k)' <=> Mover(k)) /\ (Renamer(k)' <=> Renamer(k))
                      /\ Active(k) => /\ Names(request[k])' = Names(request[k])
                                      /\ request'[k].book = request[k].book /\ request'[k].op = request[k].op
                                      /\ request'[k].name = request[k].name /\ request'[k].new = request[k].new
    OBVIOUS
  <2>1. Active(k)' <=> Active(k)
    BY ServedAfter
  <2>2. Active(k) => /\ Names(request[k])' = Names(request[k])
                     /\ request'[k].book = request[k].book /\ request'[k].op = request[k].op
                     /\ request'[k].name = request[k].name /\ request'[k].new = request[k].new
    BY <2>1, NamesAfter
  <2> QED
    BY <2>1, <2>2 DEF Mover, Renamer
<1>2. Together'
  <2> SUFFICES ASSUME NEW b \in LibraryBook \ crossed', \A k \in Handlers : Renamer(k)' => request'[k].book # b,
                      NEW p \in FileKinds, NEW n \in BookNames, NEW x \in BookNames, parts'[p][n] = b, Images'[x] = b
               PROVE  n = x
    BY DEF Together
  <2>1. \A k \in Handlers : Renamer(k) => request[k].book # b
    BY <1>1 DEF Renamer
  <2> QED
    BY <2>1 DEF LibraryInv, Together, Images
<1>3. Printed'
  <2>1. CASE Unprinted
    BY <2>1 DEF Printed, Unprinted, Pdfs
  <2>2. CASE ~Unprinted
    <3> SUFFICES ASSUME NEW b \in LibraryBook \ crossed', Nowhere("pdf", b)', ~Nowhere("images", b)'
                 PROVE  \E k \in Handlers : Active(k)' /\ request'[k].op = "delete" /\ request'[k].book = b /\ "pdf" \notin LeftToDo(request'[k])
      BY DEF Printed
    <3>1. PICK k \in Handlers : Active(k) /\ request[k].op = "delete" /\ request[k].book = b /\ "pdf" \notin LeftToDo(request[k])
      BY <2>2 DEF LibraryInv, Printed, Nowhere
    <3>2. "pdf" \notin LeftToDo(request'[k])
      BY <3>1, ServedAfter
    <3> QED
      BY <3>1, <3>2, <1>1
  <2> QED
    BY <2>1, <2>2
<1>4. RowsFollow'
  <2> SUFFICES ASSUME NEW b \in LibraryBook \ crossed', NEW x \in BookNames, Images'[x] = b
               PROVE  \/ EditsOf(b)' \subseteq rows'[x]
                      \/ \E k \in Handlers : Renamer(k)' /\ request'[k].book = b /\ request'[k].new = x
    BY DEF RowsFollow
  <2>1. \/ EditsOf(b) \subseteq rows[x]
        \/ \E k \in Handlers : Renamer(k) /\ request[k].book = b /\ request[k].new = x
    BY DEF LibraryInv, RowsFollow, Images
  <2>2. EditsOf(b)' = EditsOf(b)
    BY DEF EditsOf
  <2> QED
    BY <1>1, <2>1, <2>2 DEF Renamer
<1>5. RowsBelong'
  <2> SUFFICES ASSUME crossed' = {}
               PROVE  /\ \A n \in BookNames : (\A k \in Handlers : Mover(k)' => n \notin Names(request[k])')
                           => \A e \in OwnEdits(rows'[n]) : e[1] = Images'[n]
                      /\ \A k \in Handlers : Mover(k)' => \A e \in OwnEdits(rows'[request'[k].name]) : e[1] = request'[k].book
                      /\ \A k \in Handlers : Renamer(k)' =>
                           \A e \in OwnEdits(rows'[request'[k].new]) : e[1] = Images'[request'[k].new] /\ e[1] # request'[k].book
    BY DEF RowsBelong
  <2>0. RowsBelong /\ crossed = {}
    BY DEF LibraryInv
  <2>1. \A n \in BookNames : (\A k \in Handlers : Mover(k)' => n \notin Names(request[k])')
                           => \A e \in OwnEdits(rows'[n]) : e[1] = Images'[n]
    <3> SUFFICES ASSUME NEW n \in BookNames, \A k \in Handlers : Mover(k)' => n \notin Names(request[k])'
                 PROVE  \A e \in OwnEdits(rows'[n]) : e[1] = Images'[n]
      OBVIOUS
    <3>1. \A k \in Handlers : Mover(k) => n \notin Names(request[k])
      BY <1>1 DEF Mover
    <3> QED
      BY <2>0, <3>1 DEF RowsBelong, Images
  <2>2. \A k \in Handlers : Mover(k)' => \A e \in OwnEdits(rows'[request'[k].name]) : e[1] = request'[k].book
    BY <1>1, <2>0 DEF RowsBelong, Mover
  <2>3. \A k \in Handlers : Renamer(k)' =>
           \A e \in OwnEdits(rows'[request'[k].new]) : e[1] = Images'[request'[k].new] /\ e[1] # request'[k].book
    <3> SUFFICES ASSUME NEW k \in Handlers, Renamer(k)'
                 PROVE  \A e \in OwnEdits(rows'[request'[k].new]) : e[1] = Images'[request'[k].new] /\ e[1] # request'[k].book
      OBVIOUS
    <3>1. Renamer(k) /\ request'[k].new = request[k].new /\ request'[k].book = request[k].book
      BY <1>1 DEF Renamer
    <3> QED
      BY <2>0, <3>1 DEF RowsBelong, Images
  <2> QED
    BY <2>1, <2>2, <2>3
<1> QED
  BY <1>2, <1>3, <1>4, <1>5

\* ... and that ends a renaming or deletion while the book is under its old name.
LEMMA GivesUp ==
    ASSUME LibraryInv, NEW h \in Handlers, Mover(h), Continues(h, AtRest), Unmoved,
           crossed' = crossed,
           Free(request[h].book) => /\ Images[request[h].name] = request[h].book
                                    /\ \A p \in FileKinds : OnlyAt(p, request[h].book, request[h].name),
           request[h].op = "delete" => "pdf" \in LeftToDo(request[h])
    PROVE  Together' /\ Printed' /\ RowsFollow' /\ RowsBelong'
<1> USE DEF Unmoved
<1>0. /\ Active(h) /\ ~Active(h)' /\ ~Mover(h)' /\ ~Renamer(h)'
      /\ request[h].name \in BookNames /\ request[h].new \in BookNames
  <2>1. Active(h)
    BY DEF Mover
  <2>2. ~Active(h)'
    BY <2>1, ServedAfter, RestFits
  <2>3. request[h].name \in BookNames /\ request[h].new \in BookNames
    BY <2>1, ServedFits
  <2> QED
    BY <2>1, <2>2, <2>3 DEF Mover, Renamer
<1>1. \A k \in Handlers : k # h => request'[k] = request[k] /\ (Active(k)' <=> Active(k)) /\ (Mover(k)' <=> Mover(k)) /\ (Renamer(k)' <=> Renamer(k))
  BY <1>0, ServedAfter, Zenon
<1>2. Together'
  <2> SUFFICES ASSUME NEW b \in LibraryBook \ crossed', \A k \in Handlers : Renamer(k)' => request'[k].book # b,
                      NEW p \in FileKinds, NEW n \in BookNames, NEW x \in BookNames, parts'[p][n] = b, Images'[x] = b
               PROVE  n = x
    BY DEF Together
  <2>1. CASE b = request[h].book
    <3>1. \A q \in FileKinds : OnlyAt(q, b, request[h].name)
      BY <2>1 DEF Free
    <3>2. "images" \in FileKinds /\ parts[p][n] = b /\ parts["images"][x] = b
      BY DEF FileKinds, Images
    <3> QED
      BY <3>1, <3>2 DEF OnlyAt
  <2>2. CASE b # request[h].book
    <3>1. \A k \in Handlers : Renamer(k) => request[k].book # b
      BY <1>1, <2>2
    <3> QED
      BY <3>1 DEF LibraryInv, Together, Images
  <2> QED
    BY <2>1, <2>2
<1>3. Printed'
  <2>1. CASE Unprinted
    BY <2>1 DEF Printed, Unprinted, Pdfs
  <2>2. CASE ~Unprinted
    <3> SUFFICES ASSUME NEW b \in LibraryBook \ crossed', Nowhere("pdf", b)', ~Nowhere("images", b)'
                 PROVE  \E k \in Handlers : Active(k)' /\ request'[k].op = "delete" /\ request'[k].book = b /\ "pdf" \notin LeftToDo(request'[k])
      BY DEF Printed
    <3>1. PICK k \in Handlers : Active(k) /\ request[k].op = "delete" /\ request[k].book = b /\ "pdf" \notin LeftToDo(request[k])
      BY <2>2 DEF LibraryInv, Printed, Nowhere
    <3>2. k # h
      BY <3>1
    <3> QED
      BY <3>1, <3>2, <1>1
  <2> QED
    BY <2>1, <2>2
<1>4. RowsFollow'
  <2> SUFFICES ASSUME NEW b \in LibraryBook \ crossed', NEW x \in BookNames, Images'[x] = b
               PROVE  \/ EditsOf(b)' \subseteq rows'[x]
                      \/ \E k \in Handlers : Renamer(k)' /\ request'[k].book = b /\ request'[k].new = x
    BY DEF RowsFollow
  <2>1. \/ EditsOf(b) \subseteq rows[x]
        \/ \E k \in Handlers : Renamer(k) /\ request[k].book = b /\ request[k].new = x
    BY DEF LibraryInv, RowsFollow, Images
  <2>2. EditsOf(b)' = EditsOf(b)
    BY DEF EditsOf
  <2>3. ASSUME Renamer(h), request[h].book = b, request[h].new = x PROVE FALSE
    <3>1. Images[request[h].name] = b /\ Images[x] = b
      BY <2>3 DEF Free, Images
    <3>2. request[h].name # request[h].new
      BY <1>0, <2>3, ServedFits DEF Renamer
    <3>3. OnlyAt("images", b, request[h].name)
      BY <2>3 DEF Free, FileKinds
    <3> QED
      BY <2>3, <3>1, <3>2, <3>3 DEF OnlyAt, Images
  <2> QED
    BY <1>1, <2>1, <2>2, <2>3
<1>5. RowsBelong'
  <2> SUFFICES ASSUME crossed' = {}
               PROVE  /\ \A n \in BookNames : (\A k \in Handlers : Mover(k)' => n \notin Names(request[k])')
                           => \A e \in OwnEdits(rows'[n]) : e[1] = Images'[n]
                      /\ \A k \in Handlers : Mover(k)' => \A e \in OwnEdits(rows'[request'[k].name]) : e[1] = request'[k].book
                      /\ \A k \in Handlers : Renamer(k)' =>
                           \A e \in OwnEdits(rows'[request'[k].new]) : e[1] = Images'[request'[k].new] /\ e[1] # request'[k].book
    BY DEF RowsBelong
  <2>0. RowsBelong /\ crossed = {}
    BY DEF LibraryInv
  <2>1. \A n \in BookNames : (\A k \in Handlers : Mover(k)' => n \notin Names(request[k])')
                           => \A e \in OwnEdits(rows'[n]) : e[1] = Images'[n]
    <3> SUFFICES ASSUME NEW n \in BookNames, \A k \in Handlers : Mover(k)' => n \notin Names(request[k])'
                 PROVE  \A e \in OwnEdits(rows'[n]) : e[1] = Images'[n]
      OBVIOUS
    <3>1. \A k \in Handlers : k # h /\ Mover(k) => n \notin Names(request[k])
      BY <1>1 DEF Names
    <3>2. CASE n \notin Names(request[h])
      BY <2>0, <3>1, <3>2 DEF RowsBelong, Images
    <3>3. CASE n = request[h].name
      <4>1. \A e \in OwnEdits(rows[n]) : e[1] = request[h].book /\ e[1] # NoOne
        BY <2>0, <3>3 DEF RowsBelong, OwnEdits
      <4>2. request[h].book # NoOne => Free(request[h].book)
        BY <1>0, <2>0, ServedFits DEF Free
      <4> QED
        BY <2>0, <3>3, <4>1, <4>2 DEF Images
    <3>4. CASE n = request[h].new /\ Renamer(h)
      BY <2>0, <3>4 DEF RowsBelong, Images
    <3> QED
      BY <3>2, <3>3, <3>4 DEF Names, Renamer, Mover
  <2>2. \A k \in Handlers : Mover(k)' => \A e \in OwnEdits(rows'[request'[k].name]) : e[1] = request'[k].book
    BY <1>0, <1>1, <2>0 DEF RowsBelong
  <2>3. \A k \in Handlers : Renamer(k)' =>
           \A e \in OwnEdits(rows'[request'[k].new]) : e[1] = Images'[request'[k].new] /\ e[1] # request'[k].book
    BY <1>0, <1>1, <2>0 DEF RowsBelong, Images
  <2> QED
    BY <2>1, <2>2, <2>3
<1> QED
  BY <1>2, <1>3, <1>4, <1>5

\* A step that neither takes nor leaves the lock of the rows keeps the lock's
\* invariant.
LEMMA LocksKept ==
    ASSUME LibraryInv, NEW h \in Handlers, Active(h), NEW r, Continues(h, r), r.at # "write", rows' = rows, metaLock' = metaLock
    PROVE  LockedRows'
<1> SUFFICES ASSUME NEW k \in Handlers, request'[k].at = "write" PROVE metaLock' = k /\ request'[k].seen = rows'
  BY DEF LockedRows
<1>1. request'[k] = request[k]
  BY ServedAfter
<1> QED
  BY <1>1 DEF LibraryInv, LockedRows

\* The types, after a step that h makes.
LEMMA BasicsKept ==
    ASSUME LibraryInv, NEW h \in Handlers, Active(h), NEW r, Continues(h, r),
           parts' \in [FileKinds -> [BookNames -> {NoOne} \cup LibraryBook]],
           rows' \in [BookNames -> SUBSET (LibraryEdits \cup StrayEdits)],
           metaLock' \in {NoOne} \cup Handlers, acked' \subseteq LibraryEdits, crossed' \subseteq LibraryBook,
           requests' = requests, libraryFaults' \in 0 .. MaxLibraryFaults
    PROVE  LibraryBasics'
<1>1. DOMAIN request' = Handlers /\ \A k \in Handlers : RequestFits(request'[k])
  BY ServedAfter
<1>2. requests' \in 0 .. MaxRequests
  BY DEF LibraryInv, LibraryBasics
<1> QED
  BY <1>1, <1>2 DEF LibraryBasics

\* What makes up the invariant after a step that h makes.
LEMMA Gathered ==
    ASSUME LibraryInv, NEW h \in Handlers, Active(h), NEW r, Continues(h, r),
           OnePlace' /\ MetAreCrossed' /\ HaveImages' /\ NameIsOwn' /\ OneRequestEach',
           \A k \in Handlers : k # h /\ Active(k)' /\ Free(request[k].book)' => OwnFits(k)',
           \A k \in Handlers : k # h => TakenFits(k)' /\ MovedFits(k)',
           Active(h)' => /\ Free(request[h].book)' => OwnFits(h)'
                         /\ TakenFits(h)' /\ MovedFits(h)',
           Together' /\ Printed' /\ RowsFollow' /\ RowsBelong',
           LockedRows', LibraryBasics'
    PROVE  LibraryInv'
<1>1. OwnBooksFit'
  BY DEF OwnBooksFit
<1>2. TakenFits(h)' /\ MovedFits(h)'
  BY DEF TakenFits, MovedFits, Renamer
<1>3. TakenNamesBlock' /\ MovedIsOwn'
  BY <1>2 DEF TakenNamesBlock, MovedIsOwn
<1> QED
  BY <1>1, <1>3 DEF LibraryInv
-----------------------------------------------------------------------------
(* The steps. *)

\* A request that is served and is anywhere is active.
LEMMA WhoIsActive == ASSUME LibraryInv, NEW h \in Handlers, request[h].at # "rest" PROVE Active(h)
BY RestFits DEF Active

\* The types of the library's state.
LEMMA TypesNow ==
    ASSUME LibraryInv
    PROVE  /\ parts \in [FileKinds -> [BookNames -> {NoOne} \cup LibraryBook]]
           /\ rows \in [BookNames -> SUBSET (LibraryEdits \cup StrayEdits)]
           /\ metaLock \in {NoOne} \cup Handlers /\ acked \subseteq LibraryEdits /\ crossed \subseteq LibraryBook
           /\ libraryFaults \in 0 .. MaxLibraryFaults /\ DOMAIN request = Handlers
BY DEF LibraryInv, LibraryBasics

\* Before its first step a request has its whole book under its name.
LEMMA FirstIsWhole ==
    ASSUME LibraryInv, NEW h \in Handlers, Mover(h), request[h].todo = FileParts, Free(request[h].book),
           request[h].op = "rename" => request[h].moved = <<>>
    PROVE  /\ Images[request[h].name] = request[h].book
           /\ \A p \in FileKinds : OnlyAt(p, request[h].book, request[h].name)
<1>1. OwnFits(h)
  BY DEF LibraryInv, OwnBooksFit, Mover
<1>2. LeftToDo(request[h]) = FileKinds /\ "images" \in FileKinds
  BY NoParts DEF LeftToDo, FileKinds
<1>3. request[h].op = "rename" => MovedOn(request[h]) = {}
  BY NoParts DEF MovedOn
<1>4. request[h].op \in {"delete", "rename"}
  BY ServedFits DEF Mover
<1> QED
  BY <1>1, <1>2, <1>3, <1>4 DEF OwnFits

\* A renaming that starts while the new name has images of another book: nobody
\* has a PDF.
LEMMA TakenAtFirst ==
    ASSUME LibraryInv, NEW h \in Handlers, Renamer(h), request[h].at = "check", Exists(request[h].name),
           Pdfs[request[h].new] = NoOne,
           Free(Images[request[h].new]), Images[request[h].new] # request[h].book
    PROVE  Unprinted /\ Images[request[h].name] # NoOne
<1> DEFINE c == Images[request[h].new]
<1>0. /\ Mover(h) /\ request[h].new \in Names(request[h]) /\ request[h].new \in BookNames
      /\ request[h].name \in BookNames
  BY ServedFits DEF Renamer, Mover, Names
<1>1. /\ \A k \in Handlers : Mover(k) => request[k].book # c
      /\ \A k \in Handlers : Active(k) /\ k # h => request[h].new \notin Names(request[k])
  BY <1>0, OthersAreAtHome DEF Images, FileKinds
<1>2. ~Nowhere("images", c)
  BY <1>0 DEF Nowhere, Images
<1>3. Unprinted
  <2> SUFFICES ASSUME ~Unprinted PROVE FALSE
    OBVIOUS
  <2>1. ~Nowhere("pdf", c)
    BY <1>1, <1>2 DEF LibraryInv, Printed, Free, Mover
  <2>2. PICK n \in BookNames : parts["pdf"][n] = c
    BY <2>1 DEF Nowhere
  <2>3. \A k \in Handlers : Renamer(k) => request[k].book # c
    BY <1>1 DEF Renamer, Mover
  <2>4. n = request[h].new
    BY <1>0, <2>2, <2>3 DEF LibraryInv, Together, Free, Images, FileKinds
  <2>5. c # NoOne
    BY BooksAreSome DEF Free
  <2> QED
    BY <2>2, <2>4, <2>5 DEF Pdfs
<1>4. Images[request[h].name] # NoOne
  BY <1>0, <1>3 DEF Exists, Unprinted, Pdfs, Images
<1> QED
  BY <1>3, <1>4

\* A deletion or renaming that looks at the files.
LEMMA LookStep == ASSUME LibraryInv, NEW h \in Handlers, LookAtFiles(h) PROVE LibraryInv'
<1> DEFINE q == request[h]
<1>0. Mover(h) /\ Active(h) /\ request[h].at = "check"
  <2>1. Active(h) /\ request[h].at = "check"
    BY WhoIsActive DEF LookAtFiles
  <2> QED
    BY <2>1, ServedFits DEF Mover
<1>i. IsRequest(request[h])
  BY <1>0, ServedFits DEF IsRequest
<1>1. Unmoved /\ crossed' = crossed /\ metaLock' = metaLock /\ requests' = requests /\ libraryFaults' = libraryFaults
  BY DEF LookAtFiles, Unmoved
<1>2. CASE Exists(request[h].name) /\ (request[h].op = "rename" => parts["pdf"][request[h].new] = NoOne)
  <2>r. PICK r : r = [request[h] EXCEPT !.at = "files"]
    OBVIOUS
  <2>1. request' = [request EXCEPT ![h] = r]
    BY <1>2, <2>r DEF LookAtFiles, StepTo
  <2>2. /\ r.op = request[h].op /\ r.name = request[h].name /\ r.new = request[h].new /\ r.book = request[h].book
        /\ r.at = "files" /\ r.todo = request[h].todo /\ r.moved = request[h].moved /\ r.op # "none"
    <3>1. r.op = request[h].op /\ r.name = request[h].name /\ r.new = request[h].new /\ r.book = request[h].book
          /\ r.at = "files" /\ r.todo = request[h].todo /\ r.moved = request[h].moved
      BY <1>i, <2>r, AtElsewhere
    <3>2. request[h].op # "none"
      BY <1>0, ServedFits
    <3> QED
      BY <3>1, <3>2
  <2>3. RequestFits(r)
    <3>1. r = [op |-> r.op, at |-> r.at, name |-> r.name, new |-> r.new, book |-> r.book, field |-> r.field,
               todo |-> r.todo, moved |-> r.moved, seen |-> r.seen]
      BY <1>i, <2>r, AtElsewhere DEF IsRequest
    <3>2. MovedOn(r) = MovedOn(request[h]) /\ LeftToDo(r) = LeftToDo(request[h])
      BY <2>2 DEF MovedOn, LeftToDo
    <3> QED
      BY <1>0, <2>2, <3>1, <3>2, ServedFits DEF RequestFits
  <2>4. Continues(h, r)
    BY <2>1, <2>2, <2>3 DEF Continues
  <2>5. MovedOn(r) = MovedOn(request[h]) /\ LeftToDo(r) = LeftToDo(request[h]) /\ request'[h] = r
    BY <1>0, <2>2, <2>4, ServedAfter DEF MovedOn, LeftToDo
  <2>6. Free(request[h].book)' => OwnFits(h)'
    <3> SUFFICES ASSUME Free(request[h].book)' PROVE OwnFits(h)'
      OBVIOUS
    <3>1. PICK b : b = request[h].book
      OBVIOUS
    <3>2. Free(b) /\ Free(request[h].book)
      BY <1>1, <2>2, <2>5, <3>1 DEF Free
    <3>3. OwnFits(h)
      BY <1>0, <3>2 DEF LibraryInv, OwnBooksFit
    <3>4. /\ Images' = Images /\ EditsOf(b)' = EditsOf(b) /\ rows' = rows
          /\ \A p \in FileKinds : \A n : (OnlyAt(p, b, n)' <=> OnlyAt(p, b, n)) /\ (Nowhere(p, b)' <=> Nowhere(p, b))
      BY <1>1 DEF Images, EditsOf, OnlyAt, Nowhere, Unmoved
    <3> QED
      BY <1>0, <2>2, <2>5, <3>1, <3>3, <3>4 DEF OwnFits
  <2>7. MovedFits(h)'
    <3>1. MovedFits(h)
      BY DEF LibraryInv, MovedIsOwn
    <3> QED
      BY <1>0, <1>1, <2>2, <2>5, <3>1 DEF MovedFits, Renamer, Unmoved, Active
  <2>8. TakenFits(h)'
    <3> SUFFICES ASSUME Renamer(h)', Free(Images[request[h].new])', Images'[request[h].new] # request[h].book
                 PROVE  Unprinted' /\ Images'[request[h].name] # NoOne /\ "images" \in LeftToDo(r)
      BY <2>2, <2>5 DEF TakenFits
    <3>1. Renamer(h)
      BY <1>0, <2>2, <2>5 DEF Renamer
    <3>2. Unprinted /\ Images[request[h].name] # NoOne
      BY <1>0, <1>1, <1>2, <2>2, <2>5, <3>1, TakenAtFirst DEF Renamer, Unmoved, Images, Free, Pdfs
    <3>3. "images" \in LeftToDo(r)
      BY <1>0, <2>2, <2>5, <3>1, ServedFits, NoParts DEF LeftToDo, FileKinds, Renamer
    <3> QED
      BY <1>1, <3>2, <3>3 DEF Unmoved, Unprinted, Pdfs, Images
  <2>9. Together' /\ Printed' /\ RowsFollow' /\ RowsBelong'
    BY <1>0, <1>1, <2>2, <2>4, <2>5, GoesOn
  <2>10. LockedRows'
    BY <1>0, <1>1, <2>2, <2>4, LocksKept DEF Unmoved
  <2>11. LibraryBasics'
    BY <1>0, <1>1, <2>4, BasicsKept, TypesNow DEF Unmoved
  <2> QED
    BY <1>0, <1>1, <2>4, <2>6, <2>7, <2>8, <2>9, <2>10, <2>11, StandStill, Gathered
<1>3. CASE ~(Exists(request[h].name) /\ (request[h].op = "rename" => parts["pdf"][request[h].new] = NoOne))
  <2>1. request' = [request EXCEPT ![h] = AtRest]
    BY <1>3 DEF LookAtFiles, Sets
  <2>2. Continues(h, AtRest) /\ AtRest.op = "none" /\ AtRest.at # "write"
    BY <2>1, RestFits DEF Continues
  <2>3. request[h].todo = FileParts /\ (request[h].op = "rename" => request[h].moved = <<>>)
    BY <1>0, ServedFits DEF Mover
  <2>4. "pdf" \in LeftToDo(request[h])
    BY <2>3, NoParts DEF LeftToDo, FileKinds
  <2>5. Together' /\ Printed' /\ RowsFollow' /\ RowsBelong'
    BY <1>0, <1>1, <2>2, <2>3, <2>4, FirstIsWhole, GivesUp
  <2>6. LockedRows'
    BY <1>0, <1>1, <2>2, LocksKept DEF Unmoved
  <2>7. LibraryBasics'
    BY <1>0, <1>1, <2>2, BasicsKept, TypesNow DEF Unmoved
  <2>8. ~Active(h)'
    BY <1>0, <2>2, ServedAfter
  <2> QED
    BY <1>0, <1>1, <2>2, <2>5, <2>6, <2>7, <2>8, StandStill, Gathered
<1> QED
  BY <1>2, <1>3

\* A step of a request that goes on and moves nothing.
LEMMA Proceeds ==
    ASSUME LibraryInv, NEW h \in Handlers, Active(h), NEW r, Continues(h, r), Unmoved, r.op # "none",
           LeftToDo(r) \subseteq LeftToDo(request[h]), MovedOn(r) \subseteq MovedOn(request[h]),
           crossed' = {} => crossed = {},
           Free(request[h].book)' => OwnFits(h)', TakenFits(h)', LockedRows', LibraryBasics'
    PROVE  LibraryInv'
<1>1. MovedFits(h)'
  <2>1. MovedFits(h)
    BY DEF LibraryInv, MovedIsOwn
  <2>2. request'[h] = r /\ r.new = request[h].new /\ r.book = request[h].book /\ (Renamer(h)' => Renamer(h))
    BY ServedAfter
  <2> QED
    BY <2>1, <2>2 DEF MovedFits, Unmoved
<1>2. Together' /\ Printed' /\ RowsFollow' /\ RowsBelong'
  BY GoesOn
<1> QED
  BY <1>1, <1>2, StandStill, Gathered

\* OwnFits, of a request and a book.
HasOwn(r, b) ==
    /\ r.op = "edit" => Images[r.name] = b
    /\ r.op = "delete" =>
        /\ \A p \in FileKinds : OnlyAt(p, b, r.name) /\ (p \notin LeftToDo(r) => Nowhere(p, b))
        /\ "images" \in LeftToDo(r) => Images[r.name] = b
    /\ r.op = "rename" =>
        /\ \A p \in FileKinds :
            /\ OnlyAt(p, b, IF p \in MovedOn(r) THEN r.new ELSE r.name)
            /\ p \notin LeftToDo(r) \cup MovedOn(r) /\ r.at # "back" => Nowhere(p, b)
        /\ Images[IF "images" \in MovedOn(r) THEN r.new ELSE r.name] = b
        /\ EditsOf(b) \subseteq rows[r.name]

\* What a request needs of its book's files, by the values of the request.
LEMMA OwnIsHad == ASSUME NEW h \in Handlers, NEW r, NEW b, request[h] = r, b = r.book PROVE OwnFits(h) <=> HasOwn(r, b)
BY DEF OwnFits, HasOwn

\* The same in the next state.
LEMMA OwnIsHadNext ==
    ASSUME NEW h \in Handlers, NEW r, NEW b, request'[h] = r, b = r.book PROVE OwnFits(h)' <=> HasOwn(r, b)'
BY DEF OwnFits, HasOwn

\* What a request needs of its book's files stays when nothing moves.
LEMMA HadIsKept == ASSUME NEW r, NEW b, Unmoved PROVE HasOwn(r, b)' <=> HasOwn(r, b)
BY DEF Unmoved, HasOwn, OnlyAt, Nowhere, EditsOf, Images

\* What a request has taken stays taken when it goes on and nothing moves.
LEMMA TakenIsKept ==
    ASSUME LibraryInv, NEW h \in Handlers, Active(h), NEW r, Continues(h, r), Unmoved, r.op # "none", request[h].at # "check",
           r.at = request[h].at \/ r.at = "back" \/ (r.at = "write" /\ request[h].at # "back" /\ LeftToDo(request[h]) = {}),
           Images[r.name] # NoOne /\ "images" \in LeftToDo(request[h]) => "images" \in LeftToDo(r)
    PROVE  TakenFits(h)'
<1>1. request'[h] = r /\ r.new = request[h].new /\ r.name = request[h].name /\ r.book = request[h].book /\ (Renamer(h)' => Renamer(h))
      /\ r.op = request[h].op
  BY ServedAfter
<1>2. TakenFits(h)
  BY DEF LibraryInv, TakenNamesBlock
<1>3. Unprinted' = Unprinted /\ Images' = Images /\ \A c : Free(c)' => Free(c)
  BY DEF Unmoved, Unprinted, Images, Free, Pdfs
<1> SUFFICES ASSUME Renamer(h)', Free(Images[request[h].new])', Images'[r.new] # r.book
             PROVE  /\ Unprinted' /\ Images'[r.name] # NoOne /\ r.at \in {"files", "back"}
                    /\ r.at = "files" => "images" \in LeftToDo(r)
  BY <1>1 DEF TakenFits
<1>4. Free(Images[request[h].new]) /\ Images[request[h].new] # request[h].book /\ Renamer(h)
  <2>1. Images'[request'[h].new] = Images[request[h].new]
    BY <1>1, <1>3
  <2> QED
    BY <1>1, <1>3, <2>1 DEF Free, Unmoved
<1> QED
  BY <1>1, <1>2, <1>3, <1>4 DEF TakenFits

\* A renaming that finds no file of the part to rename.
LEMMA SkipStep ==
    ASSUME LibraryInv, NEW h \in Handlers, RenamePart(h), Here(h) = NoOne
    PROVE  LibraryInv'
<1>q. PICK q : q = request[h]
  OBVIOUS
<1>t. PICK t : t = Tail(q.todo)
  OBVIOUS
<1>r. PICK r : r = [q EXCEPT !.todo = t]
  OBVIOUS
<1>0. Active(h) /\ request[h].op = "rename" /\ request[h].at = "files" /\ request[h].todo # <<>>
  BY WhoIsActive DEF RenamePart
<1>1. Unmoved /\ crossed' = crossed /\ metaLock' = metaLock /\ requests' = requests /\ libraryFaults' = libraryFaults
  BY DEF RenamePart, Unmoved
<1>2. request' = [request EXCEPT ![h] = r]
  BY <1>q, <1>t, <1>r DEF RenamePart, Sets
<1>3. IsRequest(request[h])
  BY <1>0, ServedFits DEF IsRequest
<1>4. /\ IsRequest(r) /\ r.op = request[h].op /\ r.at = request[h].at /\ r.name = request[h].name /\ r.new = request[h].new
      /\ r.book = request[h].book /\ r.field = request[h].field /\ r.todo = Tail(request[h].todo)
      /\ r.moved = request[h].moved /\ r.seen = request[h].seen
  <2>1. IsRequest(q)
    BY <1>3, <1>q
  <2>2. /\ IsRequest(r) /\ r.op = q.op /\ r.at = q.at /\ r.name = q.name /\ r.new = q.new
        /\ r.book = q.book /\ r.field = q.field /\ r.todo = t /\ r.moved = q.moved /\ r.seen = q.seen
    BY <2>1, <1>r, LeftLess
  <2> QED
    BY <1>q, <1>t, <2>2
<1> DEFINE p == Head(request[h].todo)
<1>5. /\ p \in FileKinds /\ Tail(request[h].todo) \in Ends /\ LeftToDo(r) = LeftToDo(request[h]) \ {p}
      /\ p \in LeftToDo(request[h]) /\ MovedOn(r) = MovedOn(request[h])
  <2>1. request[h].todo \in Ends
    BY <1>0, ServedFits
  <2>2. /\ p \in FileKinds /\ Tail(request[h].todo) \in Ends /\ p \in Parts(request[h].todo)
        /\ Parts(Tail(request[h].todo)) = Parts(request[h].todo) \ {p}
    BY <1>0, <2>1, EndsShrink, Zenon
  <2> HIDE DEF p
  <2> QED
    BY <1>4, <2>2 DEF LeftToDo, MovedOn
<1>6. RequestFits(r)
  <2>1. MovedOn(r) \cap LeftToDo(r) = {}
    BY <1>0, <1>5, ServedFits
  <2>2. r.todo \in Ends /\ r.moved \in Stacks /\ r.op = "rename" /\ r.at = "files" /\ r.name # r.new
        /\ r.name \in BookNames /\ r.new \in BookNames /\ r.book \in LibraryBook \cup {NoOne}
    BY <1>0, <1>4, <1>5, ServedFits
  <2> QED
    BY <1>4, <2>1, <2>2 DEF RequestFits, IsRequest
<1>7. Continues(h, r) /\ r.op # "none"
  BY <1>0, <1>2, <1>4, <1>6 DEF Continues
<1>8. request'[h] = r
  BY <1>0, <1>7, ServedAfter
<1>9. parts[p][request[h].name] = NoOne
  BY DEF Here, Part
<1>10. Free(request[h].book)' => OwnFits(h)'
  <2> SUFFICES ASSUME Free(request[h].book)' PROVE OwnFits(h)'
    OBVIOUS
  <2>1. PICK b : b = request[h].book
    OBVIOUS
  <2>2. q = request[h]
    BY <1>q
  <2>3. Free(b) /\ Free(request[h].book)
    BY <1>1, <1>4, <1>8, <2>1 DEF Free
  <2>4. HasOwn(q, b)
    BY <1>0, <2>1, <2>2, <2>3, OwnIsHad DEF LibraryInv, OwnBooksFit
  <2>5. b # NoOne
    BY <2>3, BooksAreSome DEF Free
  <2>6. HasOwn(r, b)
    <3>1. p \notin MovedOn(q)
      BY <1>0, <1>5, <2>2, ServedFits
    <3>2. Nowhere(p, b)
      <4>1. OnlyAt(p, b, q.name)
        BY <1>0, <1>5, <2>2, <2>4, <3>1 DEF HasOwn
      <4> QED
        BY <1>9, <2>2, <2>5, <4>1 DEF OnlyAt, Nowhere
    <3> QED
      BY <1>0, <1>4, <1>5, <2>2, <2>4, <3>2 DEF HasOwn
  <2> QED
    BY <1>1, <1>4, <1>8, <2>1, <2>6, OwnIsHadNext, HadIsKept
<1>11. TakenFits(h)'
  <2>1. Images[r.name] # NoOne => p # "images"
    BY <1>4, <1>9 DEF Images
  <2> QED
    BY <1>0, <1>1, <1>4, <1>5, <1>7, <2>1, TakenIsKept
<1>12. LockedRows'
  BY <1>0, <1>1, <1>4, <1>7, LocksKept DEF Unmoved
<1>13. LibraryBasics'
  BY <1>0, <1>1, <1>7, BasicsKept, TypesNow DEF Unmoved
<1> QED
  BY <1>0, <1>1, <1>5, <1>7, <1>10, <1>11, <1>12, <1>13, Proceeds

\* A renaming that fails, and goes on to rename back.
LEMMA FailStep == ASSUME LibraryInv, NEW h \in Handlers, RenameFails(h) PROVE LibraryInv'
<1>r. PICK r : r = [request[h] EXCEPT !.at = "back"]
  OBVIOUS
<1>0. Active(h) /\ request[h].op = "rename" /\ request[h].at = "files" /\ request[h].todo # <<>>
  BY WhoIsActive DEF RenameFails
<1>1. Unmoved /\ crossed' = crossed /\ metaLock' = metaLock /\ requests' = requests
  BY DEF RenameFails, Unmoved
<1>a. libraryFaults' \in 0 .. MaxLibraryFaults
  BY TypesNow, LibraryAssumption DEF RenameFails, Breaks
<1>2. request' = [request EXCEPT ![h] = r]
  BY <1>r DEF RenameFails, StepTo
<1>3. IsRequest(request[h])
  BY <1>0, ServedFits DEF IsRequest
<1>4. /\ IsRequest(r) /\ r.op = request[h].op /\ r.at = "back" /\ r.name = request[h].name /\ r.new = request[h].new
      /\ r.book = request[h].book /\ r.field = request[h].field /\ r.todo = request[h].todo
      /\ r.moved = request[h].moved /\ r.seen = request[h].seen
  BY <1>3, <1>r, AtElsewhere
<1>5. LeftToDo(r) = LeftToDo(request[h]) /\ MovedOn(r) = MovedOn(request[h]) /\ "images" \in LeftToDo(request[h])
  BY <1>0, <1>4, ServedFits, EndsShrink DEF LeftToDo, MovedOn
<1>6. RequestFits(r)
  <2>1. "images" \notin MovedOn(r)
    BY <1>0, <1>5, ServedFits
  <2>2. r.todo \in Ends /\ r.moved \in Stacks /\ r.op = "rename" /\ r.at = "back" /\ r.name # r.new
        /\ r.name \in BookNames /\ r.new \in BookNames /\ r.book \in LibraryBook \cup {NoOne}
    BY <1>0, <1>4, ServedFits
  <2> QED
    BY <1>4, <2>1, <2>2 DEF RequestFits, IsRequest
<1>7. Continues(h, r) /\ r.op # "none"
  BY <1>0, <1>2, <1>4, <1>6 DEF Continues
<1>8. request'[h] = r
  BY <1>0, <1>7, ServedAfter
<1>10. Free(request[h].book)' => OwnFits(h)'
  <2> SUFFICES ASSUME Free(request[h].book)' PROVE OwnFits(h)'
    OBVIOUS
  <2>1. PICK b : b = request[h].book
    OBVIOUS
  <2>2. PICK q : q = request[h]
    OBVIOUS
  <2>3. Free(b) /\ Free(request[h].book)
    BY <1>1, <1>4, <1>8, <2>1 DEF Free
  <2>4. HasOwn(q, b)
    BY <1>0, <2>1, <2>2, <2>3, OwnIsHad DEF LibraryInv, OwnBooksFit
  <2>6. HasOwn(r, b)
    BY <1>0, <1>4, <1>5, <2>2, <2>4 DEF HasOwn
  <2> QED
    BY <1>1, <1>4, <1>8, <2>1, <2>6, OwnIsHadNext, HadIsKept
<1>11. TakenFits(h)'
  BY <1>0, <1>1, <1>4, <1>5, <1>7, TakenIsKept
<1>12. LockedRows'
  BY <1>0, <1>1, <1>4, <1>7, LocksKept DEF Unmoved
<1>13. LibraryBasics'
  BY <1>0, <1>1, <1>a, <1>7, BasicsKept, TypesNow DEF Unmoved
<1> QED
  BY <1>0, <1>1, <1>5, <1>7, <1>10, <1>11, <1>12, <1>13, Proceeds

\* A request that takes the lock and reads the rows.
LEMMA ReadStep == ASSUME LibraryInv, NEW h \in Handlers, ReadRows(h) PROVE LibraryInv'
<1>q. PICK q : q = request[h]
  OBVIOUS
<1>t. PICK s : s = rows
  OBVIOUS
<1>r. PICK r : r = [q EXCEPT !.at = "write", !.seen = s]
  OBVIOUS
<1>0. Active(h) /\ (request[h].at = "lock" \/ (request[h].at = "files" /\ request[h].todo = <<>>))
      /\ request[h].at # "check" /\ request[h].at # "back"
  BY WhoIsActive DEF ReadRows, FilesDone
<1>1. Unmoved /\ crossed' = crossed /\ metaLock' = h /\ metaLock = NoOne /\ requests' = requests /\ libraryFaults' = libraryFaults
  BY DEF ReadRows, Unmoved, LockIsFree
<1>2. request' = [request EXCEPT ![h] = r]
  BY <1>q, <1>t, <1>r DEF ReadRows, Sets
<1>3. IsRequest(request[h])
  BY <1>0, ServedFits DEF IsRequest
<1>4. /\ IsRequest(r) /\ r.op = request[h].op /\ r.at = "write" /\ r.name = request[h].name /\ r.new = request[h].new
      /\ r.book = request[h].book /\ r.field = request[h].field /\ r.todo = request[h].todo
      /\ r.moved = request[h].moved /\ r.seen = rows
  <2>1. IsRequest(q)
    BY <1>3, <1>q
  <2>2. /\ IsRequest(r) /\ r.op = q.op /\ r.at = "write" /\ r.name = q.name /\ r.new = q.new
        /\ r.book = q.book /\ r.field = q.field /\ r.todo = q.todo /\ r.moved = q.moved /\ r.seen = s
    <3>1. q = [op |-> q.op, at |-> q.at, name |-> q.name, new |-> q.new, book |-> q.book, field |-> q.field, todo |-> q.todo, moved |-> q.moved, seen |-> q.seen]
      BY <2>1 DEF IsRequest
    <3>2. r = [op |-> q.op, at |-> "write", name |-> q.name, new |-> q.new, book |-> q.book, field |-> q.field,
               todo |-> q.todo, moved |-> q.moved, seen |-> s]
      <4> DEFINE lit == [op |-> q.op, at |-> "write", name |-> q.name, new |-> q.new, book |-> q.book, field |-> q.field,
                         todo |-> q.todo, moved |-> q.moved, seen |-> s]
                 fs == {"op", "at", "name", "new", "book", "field", "todo", "moved", "seen"}
      <4>1. DOMAIN q = fs
        BY <3>1
      <4>2. r = [f \in fs |-> IF f = "seen" THEN s ELSE IF f = "at" THEN "write" ELSE q[f]]
        BY <1>r, <4>1
      <4>3. lit = [f \in fs |-> IF f = "seen" THEN s ELSE IF f = "at" THEN "write" ELSE q[f]]
        OBVIOUS
      <4> QED
        BY <4>2, <4>3
    <3>3. r.op = q.op /\ r.at = "write" /\ r.name = q.name /\ r.new = q.new /\ r.book = q.book /\ r.field = q.field /\ r.todo = q.todo /\ r.moved = q.moved /\ r.seen = s
      BY <3>2
    <3>4. IsRequest(r)
      BY <3>2, <3>3 DEF IsRequest
    <3> QED
      BY <3>3, <3>4
  <2> QED
    BY <1>q, <1>t, <2>2
<1>5. LeftToDo(r) = LeftToDo(request[h]) /\ MovedOn(r) = MovedOn(request[h])
  BY <1>4 DEF LeftToDo, MovedOn
<1>b. request[h].op # "edit" => request[h].at = "files" /\ request[h].todo = <<>> /\ LeftToDo(request[h]) = {}
  BY <1>0, ServedFits, NoParts DEF LeftToDo
<1>6. RequestFits(r)
  <2>1. r.op = "rename" => MovedOn(r) \cap LeftToDo(r) = {}
    BY <1>4, <1>5, <1>b
  <2>2. r.todo \in Ends /\ r.moved \in Stacks /\ (r.op = "rename" => r.name # r.new)
        /\ r.name \in BookNames /\ r.new \in BookNames /\ r.book \in LibraryBook \cup {NoOne}
        /\ r.op \in {"edit", "delete", "rename"} /\ (r.op = "edit" => r.field \in Fields)
    BY <1>0, <1>4, ServedFits
  <2>3. r.op # "edit" => r.todo = <<>>
    BY <1>4, <1>b
  <2> QED
    BY <1>4, <2>1, <2>2, <2>3 DEF RequestFits, IsRequest
<1>7. Continues(h, r) /\ r.op # "none"
  <2>1. request[h].op # "none"
    BY <1>0, ServedFits
  <2> QED
    BY <1>2, <1>4, <1>6, <2>1 DEF Continues
<1>8. request'[h] = r
  BY <1>0, <1>7, ServedAfter
<1>10. Free(request[h].book)' => OwnFits(h)'
  <2> SUFFICES ASSUME Free(request[h].book)' PROVE OwnFits(h)'
    OBVIOUS
  <2>1. PICK b : b = request[h].book
    OBVIOUS
  <2>2. q = request[h]
    BY <1>q
  <2>3. Free(b) /\ Free(request[h].book)
    BY <1>1, <1>4, <1>8, <2>1 DEF Free
  <2>4. HasOwn(q, b)
    BY <1>0, <2>1, <2>2, <2>3, OwnIsHad DEF LibraryInv, OwnBooksFit
  <2>6. HasOwn(r, b)
    BY <1>0, <1>4, <1>5, <2>2, <2>4 DEF HasOwn
  <2> QED
    BY <1>1, <1>4, <1>8, <2>1, <2>6, OwnIsHadNext, HadIsKept
<1>11. TakenFits(h)'
  <2>1. CASE request[h].op = "edit"
    BY <1>4, <1>8, <2>1 DEF TakenFits, Renamer
  <2>2. CASE request[h].op # "edit"
    BY <1>0, <1>1, <1>4, <1>5, <1>7, <1>b, <2>2, TakenIsKept
  <2> QED
    BY <2>1, <2>2
<1>12. LockedRows'
  <2> SUFFICES ASSUME NEW k \in Handlers, request'[k].at = "write" PROVE metaLock' = k /\ request'[k].seen = rows'
    BY DEF LockedRows
  <2>1. CASE k = h
    BY <1>1, <1>4, <1>8, <2>1 DEF Unmoved
  <2>2. CASE k # h
    <3>1. metaLock = k
      BY <1>0, <1>7, <2>2, ServedAfter DEF LibraryInv, LockedRows
    <3> QED
      BY <1>1, <3>1, LibraryAssumption
  <2> QED
    BY <2>1, <2>2
<1>13. LibraryBasics'
  BY <1>0, <1>1, <1>7, BasicsKept, TypesNow DEF Unmoved
<1> QED
  BY <1>0, <1>1, <1>5, <1>7, <1>10, <1>11, <1>12, <1>13, Proceeds

\* A part that cannot be removed.
KeepsPart(h) ==
    /\ DeletePart(h) /\ Here(h) # NoOne /\ Breaks
    /\ request' = [request EXCEPT ![h] = IF Part(h) = "pdf" THEN AtRest ELSE [request[h] EXCEPT !.todo = Tail(@)]]
    /\ crossed' = IF Part(h) = "pdf" THEN crossed ELSE crossed \cup {Here(h)}
    /\ parts' = parts

\* A deletion that cannot remove a part.
LEMMA KeepStep ==
    ASSUME LibraryInv, NEW h \in Handlers, KeepsPart(h)
    PROVE  LibraryInv'
<1>0. Active(h) /\ Mover(h) /\ request[h].op = "delete" /\ request[h].at = "files" /\ request[h].todo # <<>>
  BY WhoIsActive DEF DeletePart, Mover, KeepsPart
<1> DEFINE p == Head(request[h].todo)
<1>p. p \in FileKinds /\ request[h].name \in BookNames
  BY <1>0, ServedFits, EndsShrink
<1>c. parts[p][request[h].name] \in LibraryBook
  BY <1>p, TypesNow DEF Here, Part, KeepsPart
<1>1. Unmoved /\ metaLock' = metaLock /\ requests' = requests /\ libraryFaults' \in 0 .. MaxLibraryFaults
  <2>1. metaLock' = metaLock /\ requests' = requests /\ rows' = rows /\ acked' = acked
    BY DEF DeletePart, KeepsPart
  <2>2. libraryFaults' \in 0 .. MaxLibraryFaults
    BY TypesNow, LibraryAssumption DEF Breaks, KeepsPart
  <2>3. crossed \subseteq crossed'
    BY DEF KeepsPart
  <2> QED
    BY <2>1, <2>2, <2>3 DEF Unmoved, KeepsPart
<1>2. CASE p = "pdf"
  <2>1. request[h].todo = FileParts
    BY <1>0, <1>2, ServedFits, EndsShrink
  <2>2. Continues(h, AtRest) /\ AtRest.op = "none" /\ AtRest.at # "write" /\ crossed' = crossed
    BY <1>2, RestFits DEF Continues, Part, KeepsPart
  <2>4. "pdf" \in LeftToDo(request[h])
    BY <2>1, NoParts DEF LeftToDo, FileKinds
  <2>5. Together' /\ Printed' /\ RowsFollow' /\ RowsBelong'
    BY <1>0, <1>1, <2>1, <2>2, <2>4, FirstIsWhole, GivesUp
  <2>6. LockedRows'
    BY <1>0, <1>1, <2>2, LocksKept DEF Unmoved
  <2>7. LibraryBasics'
    BY <1>0, <1>1, <2>2, BasicsKept, TypesNow DEF Unmoved
  <2>8. ~Active(h)'
    BY <1>0, <2>2, ServedAfter
  <2> QED
    BY <1>0, <1>1, <2>2, <2>5, <2>6, <2>7, <2>8, StandStill, Gathered
<1>3. CASE p # "pdf"
  <2>q. PICK q : q = request[h]
    OBVIOUS
  <2>t. PICK t : t = Tail(q.todo)
    OBVIOUS
  <2>r. PICK r : r = [q EXCEPT !.todo = t]
    OBVIOUS
  <2>2. request' = [request EXCEPT ![h] = r] /\ crossed' = crossed \cup {parts[p][request[h].name]}
    BY <1>3, <2>q, <2>t, <2>r DEF Part, Here, KeepsPart
  <2>3. IsRequest(request[h])
    BY <1>0, ServedFits DEF IsRequest
  <2>4. /\ IsRequest(r) /\ r.op = request[h].op /\ r.at = request[h].at /\ r.name = request[h].name /\ r.new = request[h].new
        /\ r.book = request[h].book /\ r.field = request[h].field /\ r.todo = Tail(request[h].todo)
        /\ r.moved = request[h].moved /\ r.seen = request[h].seen
    <3>1. IsRequest(q)
      BY <2>3, <2>q
    <3>2. /\ IsRequest(r) /\ r.op = q.op /\ r.at = q.at /\ r.name = q.name /\ r.new = q.new
          /\ r.book = q.book /\ r.field = q.field /\ r.todo = t /\ r.moved = q.moved /\ r.seen = q.seen
      BY <3>1, <2>r, LeftLess
    <3> QED
      BY <2>q, <2>t, <3>2
  <2>5. /\ Tail(request[h].todo) \in Ends /\ LeftToDo(r) = LeftToDo(request[h]) \ {p} /\ MovedOn(r) = MovedOn(request[h])
    <3>1. request[h].todo \in Ends /\ request[h].todo # <<>>
      BY <1>0, ServedFits
    <3>2. Tail(request[h].todo) \in Ends /\ Parts(Tail(request[h].todo)) = Parts(request[h].todo) \ {p}
      BY <3>1, EndsShrink
    <3> QED
      BY <2>4, <3>2 DEF LeftToDo, MovedOn
  <2>6. RequestFits(r)
    <3>2. r.todo \in Ends /\ r.moved \in Stacks /\ r.op = "delete" /\ r.at = "files"
        /\ r.name \in BookNames /\ r.new \in BookNames /\ r.book \in LibraryBook \cup {NoOne}
      BY <1>0, <2>4, <2>5, ServedFits
    <3> QED
      BY <2>4, <3>2 DEF RequestFits, IsRequest
  <2>7. Continues(h, r) /\ r.op # "none"
    BY <1>0, <2>2, <2>4, <2>6 DEF Continues
  <2>8. request'[h] = r
    BY <1>0, <2>7, ServedAfter
  <2>9. Free(request[h].book)' => OwnFits(h)'
    <3> SUFFICES ASSUME Free(request[h].book)' PROVE OwnFits(h)'
      OBVIOUS
    <3>1. PICK b : b = request[h].book
      OBVIOUS
    <3>2. q = request[h]
      BY <2>q
    <3>3. Free(b) /\ Free(request[h].book) /\ b # parts[p][request[h].name]
      BY <2>2, <2>4, <2>8, <3>1 DEF Free
    <3>4. HasOwn(q, b)
      BY <1>0, <3>1, <3>2, <3>3, OwnIsHad DEF LibraryInv, OwnBooksFit
    <3>5. Nowhere(p, b)
      <4>1. OnlyAt(p, b, q.name)
        BY <1>0, <1>p, <3>2, <3>4 DEF HasOwn
      <4> QED
        BY <3>2, <3>3, <4>1 DEF OnlyAt, Nowhere
    <3>6. HasOwn(r, b)
      BY <1>0, <2>4, <2>5, <3>2, <3>4, <3>5 DEF HasOwn
    <3> QED
      BY <1>1, <2>4, <2>8, <3>1, <3>6, OwnIsHadNext, HadIsKept
  <2>10. TakenFits(h)'
    BY <1>0, <2>4, <2>8 DEF TakenFits, Renamer
  <2>11. LockedRows'
    BY <1>0, <1>1, <2>4, <2>7, LocksKept DEF Unmoved
  <2>12. LibraryBasics'
    BY <1>0, <1>1, <1>c, <2>2, <2>7, BasicsKept, TypesNow DEF Unmoved
  <2>13. crossed' = {} => crossed = {}
    BY <2>2
  <2> QED
    BY <1>0, <1>1, <2>5, <2>7, <2>9, <2>10, <2>11, <2>12, <2>13, Proceeds
<1> QED
  BY <1>2, <1>3
-----------------------------------------------------------------------------
\* What a step of request h that changes parts may do to them.
Touches(h) ==
    LET r == request[h] IN
    /\ \A q \in FileKinds : \A x \in BookNames : x \notin Names(r) => parts'[q][x] = parts[q][x]
    /\ \A x \in Names(r) : Images'[x] = NoOne \/ \E y \in Names(r) : Images'[x] = Images[y]
    /\ Images'[r.name] \in {NoOne, Images[r.name]}
    /\ \A q \in FileKinds : \A x \in BookNames : parts'[q][x] \in {NoOne, parts[q][x], r.book} \cup crossed
    /\ r.op = "delete" => \A q \in FileKinds : \A x \in BookNames : parts'[q][x] \in {NoOne, parts[q][x]}
    /\ Unprinted => Unprinted'
    /\ \A b \in LibraryBook \ crossed : Nowhere("images", b) => Nowhere("images", b)'
    /\ \A b \in LibraryBook \ crossed : Nowhere("pdf", b)' /\ ~Nowhere("pdf", b) =>
          Unprinted \/ (r.op = "delete" /\ b = r.book /\ "pdf" \notin LeftToDo(request'[h]))
    /\ OthersStay(h)
    /\ r.op = "rename" => Images'[r.new] = Images[r.new] \/ Images[r.new] = NoOne

\* A step that moves or removes a part of the request's own book keeps the
\* invariant, if the parts fit afterwards.
LEMMA TouchesKeeps ==
    ASSUME LibraryInv, NEW h \in Handlers, Mover(h), NEW r, Continues(h, r), r.op # "none", Touches(h),
           LeftToDo(r) \subseteq LeftToDo(request[h]),
           rows' = rows, acked' = acked, crossed' = crossed, metaLock' = metaLock, requests' = requests,
           libraryFaults' = libraryFaults, r.at # "write",
           parts' \in [FileKinds -> [BookNames -> {NoOne} \cup LibraryBook]],
           OnePlace', HaveImages', Free(request[h].book)' => OwnFits(h)', TakenFits(h)', MovedFits(h)'
    PROVE  LibraryInv'
<1>a. Active(h) /\ request'[h] = r /\ request[h].name \in BookNames /\ request[h].new \in BookNames
      /\ request[h].op \in {"delete", "rename"} /\ Names(request[h]) \subseteq BookNames
  <2>1. Active(h)
    BY DEF Mover
  <2>2. request'[h] = r
    BY <2>1, ServedAfter
  <2> QED
    BY <2>1, <2>2, ServedFits DEF Mover, Names
<1>b. \A k \in Handlers : /\ (Active(k)' <=> Active(k)) /\ (Mover(k)' <=> Mover(k)) /\ (Renamer(k)' <=> Renamer(k))
                          /\ Active(k) => /\ Names(request[k])' = Names(request[k])
                                          /\ request'[k].book = request[k].book /\ request'[k].op = request[k].op
                                          /\ request'[k].name = request[k].name /\ request'[k].new = request[k].new
  <2> SUFFICES ASSUME NEW k \in Handlers
               PROVE  /\ (Active(k)' <=> Active(k)) /\ (Mover(k)' <=> Mover(k)) /\ (Renamer(k)' <=> Renamer(k))
                      /\ Active(k) => /\ Names(request[k])' = Names(request[k])
                                      /\ request'[k].book = request[k].book /\ request'[k].op = request[k].op
                                      /\ request'[k].name = request[k].name /\ request'[k].new = request[k].new
    OBVIOUS
  <2>1. Active(k)' <=> Active(k)
    BY <1>a, ServedAfter
  <2>2. Active(k) => /\ Names(request[k])' = Names(request[k])
                     /\ request'[k].book = request[k].book /\ request'[k].op = request[k].op
                     /\ request'[k].name = request[k].name /\ request'[k].new = request[k].new
    BY <1>a, <2>1, NamesAfter
  <2> QED
    BY <2>1, <2>2 DEF Mover, Renamer

\* Another request that shares a name has crossed with h.
<1>c. ASSUME NEW k \in Handlers, k # h, Active(k), NEW x \in Names(request[k]), x \in Names(request[h])
      PROVE  /\ request[h].book \in crossed \cup {NoOne} /\ request[k].book \in crossed \cup {NoOne}
             /\ \A n \in Names(request[h]) \cup Names(request[k]) : Images[n] \in crossed \cup {NoOne}
  BY <1>c, MetHaveCrossed
<1>d. \A x \in BookNames : \/ Images'[x] = Images[x] /\ x \notin Names(request[h])
                           \/ x \in Names(request[h]) /\ (Images'[x] = NoOne \/ \E y \in Names(request[h]) : Images'[x] = Images[y])
  BY DEF Touches, Images, FileKinds
<1>1. MetAreCrossed'
  <2> SUFFICES ASSUME NEW k \in Handlers, NEW l \in Handlers, Meeting(k, l)'
               PROVE  /\ request'[k].book \in crossed' \cup {NoOne} /\ request'[l].book \in crossed' \cup {NoOne}
                      /\ \A n \in Names(request[k])' : Images'[n] \in crossed' \cup {NoOne}
    BY DEF MetAreCrossed
  <2>1. Meeting(k, l) /\ Active(k)' /\ Active(l)' /\ Active(k)
    BY <1>a, NamesAfter DEF Meeting
  <2>2. /\ request[k].book \in crossed \cup {NoOne} /\ request[l].book \in crossed \cup {NoOne}
        /\ \A n \in Names(request[k]) : Images[n] \in crossed \cup {NoOne}
    BY <2>1 DEF LibraryInv, MetAreCrossed
  <2>3. request'[k].book = request[k].book /\ request'[l].book = request[l].book /\ Names(request[k])' = Names(request[k])
    BY <1>a, <2>1, NamesAfter
  <2>4. ASSUME NEW n \in Names(request[k]) PROVE Images'[n] \in crossed \cup {NoOne}
    <3>1. n \in BookNames
      BY <2>1, ServedFits DEF Names
    <3>2. CASE n \notin Names(request[h])
      BY <1>d, <2>2, <3>1, <3>2
    <3>3. CASE n \in Names(request[h])
      <4>1. \A y \in Names(request[h]) : Images[y] \in crossed \cup {NoOne}
        <5>1. CASE k = h
          BY <2>2, <5>1
        <5>2. CASE k # h
          BY <1>c, <2>1, <3>3, <5>2
        <5> QED
          BY <5>1, <5>2
      <4> QED
        BY <1>d, <3>1, <3>3, <4>1
    <3> QED
      BY <3>2, <3>3
  <2> QED
    BY <2>2, <2>3, <2>4
<1>2. NameIsOwn'
  <2> SUFFICES ASSUME NEW k \in Handlers, Mover(k)' PROVE Images'[request'[k].name] \in crossed' \cup {NoOne, request'[k].book}
    BY DEF NameIsOwn
  <2>1. Mover(k) /\ Active(k) /\ request'[k].name = request[k].name /\ request'[k].book = request[k].book
    BY <1>b DEF Mover
  <2>2. Images[request[k].name] \in crossed \cup {NoOne, request[k].book}
    BY <2>1 DEF LibraryInv, NameIsOwn
  <2>3. request[k].name \in BookNames /\ request[k].name \in Names(request[k])
    BY <2>1, ServedFits DEF Names
  <2>4. Images'[request[k].name] \in crossed \cup {NoOne, request[k].book}
    <3>1. CASE k = h
      BY <2>2, <3>1 DEF Touches
    <3>2. CASE request[k].name \notin Names(request[h])
      BY <1>d, <2>2, <2>3, <3>2
    <3>3. CASE k # h /\ request[k].name \in Names(request[h])
      <4>1. \A y \in Names(request[h]) : Images[y] \in crossed \cup {NoOne}
        BY <1>c, <2>1, <2>3, <3>3
      <4> QED
        BY <1>d, <2>3, <3>3, <4>1
    <3> QED
      BY <3>1, <3>2, <3>3
  <2> QED
    BY <2>1, <2>4
<1>3. OneRequestEach' /\ \A k \in Handlers : k # h /\ Active(k)' /\ Free(request[k].book)' => OwnFits(k)'
  BY <1>a, OthersKeep, OneEachAfter DEF Touches
<1>4. Together'
  <2> SUFFICES ASSUME NEW b \in LibraryBook \ crossed', \A k \in Handlers : Renamer(k)' => request'[k].book # b,
                      NEW p \in FileKinds, NEW n \in BookNames, NEW x \in BookNames, parts'[p][n] = b, Images'[x] = b
               PROVE  n = x
    BY DEF Together
  <2>1. \A k \in Handlers : Renamer(k) => request[k].book # b
    BY <1>b DEF Renamer
  <2>2. parts[p][n] = b /\ Images[x] = b
    <3>0. "images" \in FileKinds /\ b # NoOne /\ parts'["images"][x] = b
      BY BooksAreSome DEF FileKinds, Images
    <3>1. CASE b # request[h].book
      BY <3>0, <3>1 DEF Touches, OthersStay, Images
    <3>2. CASE request[h].op = "delete"
      BY <3>0, <3>2 DEF Touches, Images
    <3> QED
      BY <1>a, <2>1, <3>1, <3>2 DEF Renamer
  <2> QED
    BY <2>1, <2>2 DEF LibraryInv, Together
<1>5. ASSUME NEW k \in Handlers, k # h PROVE TakenFits(k)'
  <2>0. request'[k] = request[k]
    BY <1>a, <1>5, ServedAfter
  <2> SUFFICES ASSUME Renamer(k)', request[k].at # "check", Free(Images[request[k].new])', Images'[request[k].new] # request[k].book
               PROVE  /\ Unprinted' /\ Images'[request[k].name] # NoOne
                      /\ request[k].at \in {"files", "back"}
                      /\ request[k].at = "files" => "images" \in LeftToDo(request[k])
    BY <2>0 DEF TakenFits
  <2>1. Renamer(k) /\ Active(k) /\ request[k].new \in BookNames /\ request[k].name \in BookNames
        /\ request[k].new \in Names(request[k]) /\ request[k].name \in Names(request[k])
    BY <1>b, ServedFits DEF Renamer, Names
  <2>2. Images'[request[k].new] \notin crossed \cup {NoOne} /\ Images'[request[k].new] \in LibraryBook
    <3>1. Images'[request[k].new] \in LibraryBook \ crossed
      BY <2>0 DEF Free
    <3> QED
      BY <3>1, BooksAreSome
  <2>3. Images'[request[k].new] = Images[request[k].new]
    <3>1. CASE request[k].new \in Names(request[h])
      <4>1. \A y \in Names(request[h]) : Images[y] \in crossed \cup {NoOne}
        BY <1>c, <1>5, <2>1, <3>1
      <4> QED
        BY <1>d, <2>1, <2>2, <3>1, <4>1
    <3> QED
      BY <1>d, <2>1, <3>1
  <2>4. /\ Unprinted /\ Images[request[k].name] # NoOne /\ request[k].at \in {"files", "back"}
        /\ request[k].at = "files" => "images" \in LeftToDo(request[k])
    <3>1. Free(Images[request[k].new])
      BY <2>2, <2>3 DEF Free
    <3>2. TakenFits(k)
      BY DEF LibraryInv, TakenNamesBlock
    <3> QED
      BY <2>1, <2>3, <3>1, <3>2 DEF TakenFits
  <2>5. request[k].name \notin Names(request[h])
    BY <1>c, <1>5, <2>1, <2>2, <2>3
  <2> QED
    BY <1>d, <2>1, <2>4, <2>5 DEF Touches
<1>6. ASSUME NEW k \in Handlers, k # h PROVE MovedFits(k)'
  <2>0. request'[k] = request[k]
    BY <1>a, <1>6, ServedAfter
  <2> SUFFICES ASSUME Renamer(k)', NEW q \in MovedOn(request[k])
               PROVE  parts'[q][request[k].new] \in crossed \cup {NoOne, request[k].book}
    BY <2>0 DEF MovedFits
  <2>1. Renamer(k) /\ Active(k) /\ request[k].new \in BookNames /\ request[k].new \in Names(request[k])
    BY <1>b, ServedFits DEF Renamer, Names
  <2>2. parts[q][request[k].new] \in crossed \cup {NoOne, request[k].book}
    BY <2>1 DEF LibraryInv, MovedIsOwn, MovedFits
  <2>3. q \in FileKinds
    <3>1. request[k].moved \in Stacks
      BY <2>1, ServedFits
    <3>2. \A s \in Stacks : Parts(s) \subseteq FileKinds
      BY StacksAreParts
    <3> QED
      BY <3>1, <3>2 DEF MovedOn
  <2>4. parts'[q][request[k].new] \in {NoOne, parts[q][request[k].new], request[h].book} \cup crossed
    BY <2>1, <2>3 DEF Touches
  <2>5. CASE request[k].new \in Names(request[h])
    <3>1. request[h].book \in crossed \cup {NoOne}
      BY <1>c, <1>6, <2>1, <2>5
    <3> QED
      BY <2>2, <2>4, <3>1
  <2>6. CASE request[k].new \notin Names(request[h])
    BY <2>1, <2>2, <2>3, <2>6 DEF Touches
  <2> QED
    BY <2>5, <2>6
<1>7. Printed'
  <2>1. CASE Unprinted
    BY <2>1 DEF Printed, Touches
  <2>2. CASE ~Unprinted
    <3> SUFFICES ASSUME NEW b \in LibraryBook \ crossed, Nowhere("pdf", b)', ~Nowhere("images", b)'
                 PROVE  \E k \in Handlers : Active(k)' /\ request'[k].op = "delete" /\ request'[k].book = b /\ "pdf" \notin LeftToDo(request'[k])
      BY DEF Printed
    <3>0. ~Nowhere("images", b)
      BY DEF Touches
    <3>1. CASE Nowhere("pdf", b)
      <4>1. PICK k \in Handlers : Active(k) /\ request[k].op = "delete" /\ request[k].book = b /\ "pdf" \notin LeftToDo(request[k])
        BY <2>2, <3>0, <3>1 DEF LibraryInv, Printed
      <4>2. "pdf" \notin LeftToDo(request'[k])
        BY <1>a, <4>1, ServedAfter
      <4> QED
        BY <4>1, <4>2, <1>b
    <3>2. CASE ~Nowhere("pdf", b)
      <4>1. request[h].op = "delete" /\ b = request[h].book /\ "pdf" \notin LeftToDo(request'[h])
        BY <2>2, <3>2 DEF Touches
      <4> QED
        BY <1>a, <1>b, <4>1
    <3> QED
      BY <3>1, <3>2
  <2> QED
    BY <2>1, <2>2
<1>8. RowsFollow'
  <2> SUFFICES ASSUME NEW b \in LibraryBook \ crossed', NEW x \in BookNames, Images'[x] = b
               PROVE  \/ EditsOf(b)' \subseteq rows'[x]
                      \/ \E k \in Handlers : Renamer(k)' /\ request'[k].book = b /\ request'[k].new = x
    BY DEF RowsFollow
  <2>0. b # NoOne /\ b \in LibraryBook \ crossed
    BY BooksAreSome
  <2>1. Images[x] = b \/ (Renamer(h) /\ b = request[h].book /\ x = request[h].new)
    <3>1. CASE b # request[h].book
      BY <3>1 DEF Touches, OthersStay, Images, FileKinds
    <3>2. CASE request[h].op = "delete"
      BY <2>0, <3>2 DEF Touches, Images, FileKinds
    <3>3. CASE b = request[h].book /\ request[h].op = "rename"
      <4>1. Renamer(h)
        BY <1>a, <3>3 DEF Renamer
      <4>2. CASE x \notin Names(request[h])
        BY <1>d, <4>2
      <4>3. CASE x = request[h].name
        BY <2>0, <4>3 DEF Touches
      <4> QED
        BY <3>3, <4>1, <4>2, <4>3 DEF Names
    <3> QED
      BY <1>a, <3>1, <3>2, <3>3
  <2>2. CASE Images[x] = b
    <3>1. \/ EditsOf(b) \subseteq rows[x]
          \/ \E k \in Handlers : Renamer(k) /\ request[k].book = b /\ request[k].new = x
      BY <2>0, <2>2 DEF LibraryInv, RowsFollow
    <3>2. EditsOf(b)' = EditsOf(b)
      BY DEF EditsOf
    <3> QED
      BY <1>b, <3>1, <3>2 DEF Renamer
  <2>3. CASE Renamer(h) /\ b = request[h].book /\ x = request[h].new
    BY <1>b, <2>3 DEF Renamer
  <2> QED
    BY <2>1, <2>2, <2>3
<1>9. RowsBelong'
  <2> SUFFICES ASSUME crossed' = {}
               PROVE  /\ \A n \in BookNames : (\A k \in Handlers : Mover(k)' => n \notin Names(request[k])')
                           => \A e \in OwnEdits(rows'[n]) : e[1] = Images'[n]
                      /\ \A k \in Handlers : Mover(k)' => \A e \in OwnEdits(rows'[request'[k].name]) : e[1] = request'[k].book
                      /\ \A k \in Handlers : Renamer(k)' =>
                           \A e \in OwnEdits(rows'[request'[k].new]) : e[1] = Images'[request'[k].new] /\ e[1] # request'[k].book
    BY DEF RowsBelong
  <2>0. RowsBelong /\ crossed = {}
    BY DEF LibraryInv
  <2>1. \A n \in BookNames : (\A k \in Handlers : Mover(k)' => n \notin Names(request[k])')
                           => \A e \in OwnEdits(rows'[n]) : e[1] = Images'[n]
    <3> SUFFICES ASSUME NEW n \in BookNames, \A k \in Handlers : Mover(k)' => n \notin Names(request[k])'
                 PROVE  \A e \in OwnEdits(rows'[n]) : e[1] = Images'[n]
      OBVIOUS
    <3>1. \A k \in Handlers : Mover(k) => n \notin Names(request[k])
      BY <1>b DEF Mover
    <3>2. Images'[n] = Images[n]
      BY <1>d, <3>1
    <3> QED
      BY <2>0, <3>1, <3>2 DEF RowsBelong
  <2>2. \A k \in Handlers : Mover(k)' => \A e \in OwnEdits(rows'[request'[k].name]) : e[1] = request'[k].book
    BY <1>b, <2>0 DEF RowsBelong, Mover
  <2>3. \A k \in Handlers : Renamer(k)' =>
           \A e \in OwnEdits(rows'[request'[k].new]) : e[1] = Images'[request'[k].new] /\ e[1] # request'[k].book
    <3> SUFFICES ASSUME NEW k \in Handlers, Renamer(k)'
                 PROVE  \A e \in OwnEdits(rows'[request'[k].new]) : e[1] = Images'[request'[k].new] /\ e[1] # request'[k].book
      OBVIOUS
    <3>1. Renamer(k) /\ Active(k) /\ request'[k].new = request[k].new /\ request'[k].book = request[k].book
          /\ request[k].new \in BookNames /\ request[k].new \in Names(request[k])
      BY <1>b, ServedFits DEF Renamer, Names
    <3>2. \A e \in OwnEdits(rows[request[k].new]) : e[1] = Images[request[k].new] /\ e[1] # request[k].book
      BY <2>0, <3>1 DEF RowsBelong
    <3>3. CASE k = h
      <4>1. Images[request[h].new] = NoOne => OwnEdits(rows[request[h].new]) = {}
        BY <3>2, <3>3 DEF OwnEdits
      <4>2. Images'[request[h].new] = Images[request[h].new] \/ Images[request[h].new] = NoOne
        BY <3>1, <3>3 DEF Touches, Renamer
      <4> SUFFICES ASSUME NEW e \in OwnEdits(rows'[request'[k].new])
                   PROVE  e[1] = Images'[request'[k].new] /\ e[1] # request'[k].book
        OBVIOUS
      <4>3. e \in OwnEdits(rows[request[k].new])
        BY <3>1
      <4>4. Images'[request[h].new] = Images[request[h].new]
        BY <3>3, <4>1, <4>2, <4>3
      <4>5. e[1] = Images[request[k].new] /\ e[1] # request[k].book
        BY <3>2, <4>3
      <4>6. request'[k].new = request[k].new /\ request'[k].book = request[k].book /\ request[k].new = request[h].new
        BY <3>1, <3>3
      <4>7. Images'[request'[k].new] = Images[request[k].new]
        BY <4>4, <4>6
      <4> QED
        BY <4>5, <4>6, <4>7
    <3>4. CASE k # h
      <4>1. request[k].new \in Names(request[h]) => \A n \in Names(request[h]) : Images[n] = NoOne
        BY <1>c, <2>0, <3>1, <3>4
      <4>2. Images'[request[k].new] = Images[request[k].new]
        BY <1>d, <3>1, <4>1
      <4> QED
        BY <3>1, <3>2, <4>2
    <3> QED
      BY <3>3, <3>4
  <2> QED
    BY <2>1, <2>2, <2>3
<1>10. LockedRows'
  BY <1>a, LocksKept
<1>11. LibraryBasics'
  BY <1>a, BasicsKept, TypesNow
<1> QED
  BY <1>a, <1>1, <1>2, <1>3, <1>4, <1>5, <1>6, <1>7, <1>8, <1>9, <1>10, <1>11, Gathered
-----------------------------------------------------------------------------
\* The files after a part of one name is moved to another one.
LEMMA MovedParts ==
    ASSUME parts \in [FileKinds -> [BookNames -> {NoOne} \cup LibraryBook]],
           NEW p \in FileKinds, NEW n \in BookNames, NEW m \in BookNames, n # m, Moved(p, n, m)
    PROVE  /\ parts' \in [FileKinds -> [BookNames -> {NoOne} \cup LibraryBook]]
           /\ \A q \in FileKinds : q # p => parts'[q] = parts[q]
           /\ \A x \in BookNames : parts'[p][x] = IF x = n THEN NoOne ELSE IF x = m THEN parts[p][n] ELSE parts[p][x]
<1>1. parts' = [parts EXCEPT ![p] = [parts[p] EXCEPT ![m] = parts[p][n], ![n] = NoOne]]
  BY DEF Moved
<1> DEFINE row == [parts[p] EXCEPT ![m] = parts[p][n], ![n] = NoOne]
<1>2. row \in [BookNames -> {NoOne} \cup LibraryBook]
  OBVIOUS
<1>3. \A x \in BookNames : row[x] = IF x = n THEN NoOne ELSE IF x = m THEN parts[p][n] ELSE parts[p][x]
  OBVIOUS
<1> HIDE DEF row
<1>4. parts' = [parts EXCEPT ![p] = row]
  BY <1>1 DEF row
<1> QED
  BY <1>2, <1>3, <1>4

\* A renaming that renames a part.
LEMMA RenameStep ==
    ASSUME LibraryInv, NEW h \in Handlers, RenamePart(h), Here(h) # NoOne
    PROVE  LibraryInv'
<1>0. Active(h) /\ request[h].op = "rename" /\ request[h].at = "files" /\ request[h].todo # <<>> /\ Renamer(h) /\ Mover(h)
  BY WhoIsActive DEF RenamePart, Renamer, Mover
<1>p. PICK p : p = Head(request[h].todo)
  OBVIOUS
<1>q. PICK q : q = request[h]
  OBVIOUS
<1>s. PICK s : s = Tail(q.todo)
  OBVIOUS
<1>t. PICK t : t = <<p>> \o q.moved
  OBVIOUS
<1>r. PICK r : r = [q EXCEPT !.todo = s, !.moved = t]
  OBVIOUS
<1>1. /\ rows' = rows /\ acked' = acked /\ crossed' = crossed /\ metaLock' = metaLock /\ requests' = requests
      /\ libraryFaults' = libraryFaults
  BY DEF RenamePart
<1>2. request' = [request EXCEPT ![h] = r] /\ Moved(p, q.name, q.new) /\ (p = "images" => parts["images"][q.new] = NoOne)
  BY <1>p, <1>q, <1>s, <1>t, <1>r DEF RenamePart, Sets, Part, Blocked
<1>3. /\ IsRequest(r) /\ r.op = q.op /\ r.at = q.at /\ r.name = q.name /\ r.new = q.new
      /\ r.book = q.book /\ r.field = q.field /\ r.todo = s /\ r.moved = t /\ r.seen = q.seen
  <2>0. IsRequest(q)
    BY <1>0, <1>q, ServedFits DEF IsRequest
  <2>1. q = [op |-> q.op, at |-> q.at, name |-> q.name, new |-> q.new, book |-> q.book, field |-> q.field, todo |-> q.todo, moved |-> q.moved, seen |-> q.seen]
    BY <2>0 DEF IsRequest
  <2>2. r = [op |-> q.op, at |-> q.at, name |-> q.name, new |-> q.new, book |-> q.book, field |-> q.field,
             todo |-> s, moved |-> t, seen |-> q.seen]
    <3> DEFINE lit == [op |-> q.op, at |-> q.at, name |-> q.name, new |-> q.new, book |-> q.book, field |-> q.field,
                       todo |-> s, moved |-> t, seen |-> q.seen]
               fs == {"op", "at", "name", "new", "book", "field", "todo", "moved", "seen"}
    <3>1. DOMAIN q = fs
      BY <2>1
    <3>2. r = [f \in fs |-> IF f = "moved" THEN t ELSE IF f = "todo" THEN s ELSE q[f]]
      BY <1>r, <3>1
    <3>3. lit = [f \in fs |-> IF f = "moved" THEN t ELSE IF f = "todo" THEN s ELSE q[f]]
      OBVIOUS
    <3> QED
      BY <3>2, <3>3
  <2>3. r.op = q.op /\ r.at = q.at /\ r.name = q.name /\ r.new = q.new /\ r.book = q.book /\ r.field = q.field /\ r.todo = s /\ r.moved = t /\ r.seen = q.seen
    BY <2>2
  <2>4. IsRequest(r)
    BY <2>2, <2>3 DEF IsRequest
  <2> QED
    BY <2>3, <2>4
<1>4. /\ q.name \in BookNames /\ q.new \in BookNames /\ q.book \in LibraryBook \cup {NoOne} /\ q.todo \in Ends /\ q.moved \in Stacks
      /\ q.name # q.new /\ MovedOn(q) \cap LeftToDo(q) = {} /\ q.op = "rename" /\ q.at = "files" /\ q.todo # <<>>
  BY <1>0, <1>q, ServedFits
<1>5. /\ p \in FileKinds /\ s \in Ends /\ LeftToDo(r) = LeftToDo(q) \ {p} /\ p \in LeftToDo(q) /\ "images" \in LeftToDo(q)
  BY <1>p, <1>q, <1>s, <1>3, <1>4, EndsShrink DEF LeftToDo
<1>6. t \in Stacks /\ MovedOn(r) = MovedOn(q) \cup {p} /\ p \notin MovedOn(q)
  BY <1>p, <1>q, <1>t, <1>3, <1>4, <1>5, StackGrows DEF LeftToDo, MovedOn
<1>7. RequestFits(r)
  <2>1. MovedOn(r) \cap LeftToDo(r) = {}
    BY <1>4, <1>5, <1>6
  <2> QED
    BY <1>3, <1>4, <1>5, <1>6, <2>1 DEF RequestFits, IsRequest
<1>8. Continues(h, r) /\ r.op # "none"
  BY <1>2, <1>3, <1>4, <1>7, <1>q DEF Continues
<1>9. request'[h] = r
  BY <1>0, <1>8, ServedAfter
<1>c. PICK c : c = parts[p][q.name]
  OBVIOUS
<1>10. c # NoOne /\ c \in LibraryBook /\ (c \in crossed \/ c = q.book)
  <2>1. c # NoOne
    BY <1>p, <1>q, <1>c DEF Here, Part
  <2>2. c \in LibraryBook
    BY <1>4, <1>5, <1>c, <2>1, TypesNow
  <2>3. c \notin crossed /\ c # q.book => Free(parts[p][request[h].name])
    BY <1>c, <1>q, <2>2 DEF Free
  <2>4. request[h].name \in Names(request[h])
    BY DEF Names
  <2> QED
    BY <1>0, <1>5, <1>q, <1>c, <2>1, <2>2, <2>3, <2>4, OthersAreAtHome
<1>11. /\ parts' \in [FileKinds -> [BookNames -> {NoOne} \cup LibraryBook]]
       /\ \A k \in FileKinds : k # p => parts'[k] = parts[k]
       /\ \A x \in BookNames : parts'[p][x] = IF x = q.name THEN NoOne ELSE IF x = q.new THEN c ELSE parts[p][x]
  BY <1>2, <1>4, <1>5, <1>c, TypesNow, MovedParts
<1>12. OnePlace'
  <2>1. OnePlace
    BY DEF LibraryInv
  <2> SUFFICES ASSUME NEW k \in FileKinds, NEW n \in BookNames, NEW m \in BookNames,
                      parts'[k][n] = parts'[k][m], parts'[k][n] # NoOne
               PROVE  n = m
    BY DEF OnePlace
  <2>2. CASE k # p
    BY <1>11, <2>1, <2>2 DEF OnePlace
  <2>3. CASE k = p
    <3>1. \A x \in BookNames : parts[p][x] = c => x = q.name
      BY <1>4, <1>5, <1>10, <1>c, <2>1 DEF OnePlace
    <3> QED
      BY <1>4, <1>5, <1>11, <2>1, <2>3, <3>1 DEF OnePlace
  <2> QED
    BY <2>2, <2>3

\* What is at the new name and is replaced.
<1>13. ASSUME Free(parts[p][q.new]) PROVE /\ Images[q.new] = parts[p][q.new] /\ Unprinted /\ parts[p][q.new] # q.book
  <2>1. parts[p][q.new] # q.book
    <3>1. Free(request[h].book) => OnlyAt(p, q.book, q.name)
      <4>1. Free(request[h].book) => HasOwn(q, q.book)
        BY <1>0, <1>q, OwnIsHad DEF LibraryInv, OwnBooksFit
      <4> QED
        BY <1>4, <1>5, <1>6, <4>1 DEF HasOwn
    <3> QED
      BY <1>4, <1>13, <1>q, <3>1 DEF OnlyAt
  <2>2. q.new \in Names(request[h])
    BY <1>4, <1>q DEF Names
  <2>3. Images[q.new] = parts[p][q.new]
    BY <1>0, <1>5, <1>13, <1>q, <2>1, <2>2, OthersAreAtHome
  <2>4. TakenFits(h)
    BY DEF LibraryInv, TakenNamesBlock
  <2> QED
    BY <1>0, <1>4, <1>13, <1>q, <2>1, <2>3, <2>4 DEF TakenFits
<1>14. HaveImages'
  <2> SUFFICES ASSUME NEW b \in LibraryBook \ crossed', Nowhere("images", b)', NEW k \in FileKinds
               PROVE  Nowhere(k, b)'
    BY DEF HaveImages
  <2>1. Nowhere("images", b)
    <3>1. CASE p # "images"
      BY <1>11, <3>1 DEF Nowhere, FileKinds
    <3>2. CASE p = "images"
      <4>1. parts["images"][q.new] = NoOne /\ b # NoOne
        BY <1>2, <3>2, BooksAreSome
      <4>2. \A x \in BookNames : parts'["images"][x] # b
        BY DEF Nowhere
      <4>3. c # b
        BY <1>4, <1>11, <3>2, <4>2
      <4> QED
        BY <1>4, <1>11, <1>c, <3>2, <4>1, <4>2, <4>3 DEF Nowhere
    <3> QED
      BY <3>1, <3>2
  <2>2. Nowhere(k, b)
    BY <1>1, <2>1 DEF LibraryInv, HaveImages
  <2>3. b # NoOne
    BY BooksAreSome
  <2> QED
    BY <1>4, <1>5, <1>11, <1>c, <2>2, <2>3 DEF Nowhere
<1>15. OthersStay(h)
  <2> SUFFICES ASSUME NEW b \in LibraryBook \ crossed, b # q.book
               PROVE  /\ \A k \in FileKinds : \A x \in BookNames : parts'[k][x] = b => parts[k][x] = b
                      /\ \A x \in BookNames : Images[x] = b => Images'[x] = b
    BY <1>0, <1>1, <1>q DEF OthersStay
  <2>1. b # c /\ b # NoOne
    BY <1>10, BooksAreSome
  <2>2. \A k \in FileKinds : \A x \in BookNames : parts'[k][x] = b => parts[k][x] = b
    BY <1>11, <2>1
  <2>3. \A x \in BookNames : Images[x] = b => Images'[x] = b
    BY <1>2, <1>11, <1>c, <2>1 DEF Images, FileKinds
  <2> QED
    BY <2>2, <2>3
<1>16. Unprinted => p # "pdf"
  BY <1>4, <1>10, <1>c DEF Unprinted, Pdfs
<1>17. Touches(h)
  <2>0. Names(request[h]) = {q.name, q.new}
    BY <1>4, <1>q DEF Names
  <2>1. \A k \in FileKinds : \A x \in BookNames : x \notin Names(request[h]) => parts'[k][x] = parts[k][x]
    BY <1>11, <2>0
  <2>2. Images'[q.name] \in {NoOne, Images[q.name]}
    BY <1>4, <1>11 DEF Images, FileKinds
  <2>3. Images'[q.new] \in {Images[q.name], Images[q.new]} /\ (Images'[q.new] = Images[q.new] \/ Images[q.new] = NoOne)
    BY <1>2, <1>4, <1>11, <1>c DEF Images, FileKinds
  <2>4. \A k \in FileKinds : \A x \in BookNames : parts'[k][x] \in {NoOne, parts[k][x], q.book} \cup crossed
    BY <1>10, <1>11
  <2>5. Unprinted => Unprinted'
    BY <1>11, <1>16 DEF Unprinted, Pdfs, FileKinds
  <2>6. ASSUME NEW b \in LibraryBook \ crossed, Nowhere("images", b) PROVE Nowhere("images", b)'
    BY <1>4, <1>11, <1>c, <2>6, BooksAreSome DEF Nowhere, FileKinds
  <2>7. ASSUME NEW b \in LibraryBook \ crossed, Nowhere("pdf", b)', ~Nowhere("pdf", b) PROVE Unprinted
    <3>1. p = "pdf"
      BY <1>11, <2>7 DEF Nowhere, FileKinds
    <3>2. PICK x \in BookNames : parts["pdf"][x] = b
      BY <2>7 DEF Nowhere
    <3>3. parts'["pdf"][q.new] # b /\ parts'["pdf"][x] # b
      BY <1>4, <2>7, <3>2 DEF Nowhere
    <3>4. c # b
      BY <1>4, <1>11, <3>1, <3>3
    <3>5. x = q.new
      BY <1>11, <1>c, <3>1, <3>2, <3>3, <3>4
    <3>6. Free(parts[p][q.new])
      BY <3>1, <3>2, <3>5 DEF Free
    <3> QED
      BY <1>13, <3>6
  <2> QED
    BY <1>0, <1>15, <1>q, <2>0, <2>1, <2>2, <2>3, <2>4, <2>5, <2>6, <2>7 DEF Touches
<1>18. Free(request[h].book)' => OwnFits(h)'
  <2> SUFFICES ASSUME Free(request[h].book)' PROVE OwnFits(h)'
    OBVIOUS
  <2>1. PICK b : b = q.book
    OBVIOUS
  <2>2. b \in LibraryBook \ crossed /\ Free(request[h].book)
    BY <1>1, <1>3, <1>9, <1>q, <2>1 DEF Free
  <2>3. HasOwn(q, b)
    BY <1>0, <1>q, <2>1, <2>2, OwnIsHad DEF LibraryInv, OwnBooksFit
  <2>4. b # NoOne
    BY <2>2, BooksAreSome
  <2>5. \A k \in FileKinds : OnlyAt(k, b, IF k \in MovedOn(r) THEN r.new ELSE r.name)'
    <3> SUFFICES ASSUME NEW k \in FileKinds, NEW x \in BookNames, parts'[k][x] = b
                 PROVE  x = IF k \in MovedOn(r) THEN r.new ELSE r.name
      BY DEF OnlyAt
    <3>0. OnlyAt(k, b, IF k \in MovedOn(q) THEN q.new ELSE q.name)
      BY <1>4, <2>3 DEF HasOwn
    <3>1. CASE k # p
      BY <1>3, <1>6, <1>11, <3>0, <3>1 DEF OnlyAt
    <3>2. CASE k = p
      BY <1>3, <1>6, <1>11, <2>4, <3>0, <3>2 DEF OnlyAt
    <3> QED
      BY <3>1, <3>2
  <2>6. ASSUME NEW k \in FileKinds, k \notin LeftToDo(r) \cup MovedOn(r) PROVE Nowhere(k, b)'
    <3>1. k # p /\ Nowhere(k, b)
      BY <1>4, <1>5, <1>6, <2>3, <2>6 DEF HasOwn
    <3> QED
      BY <1>11, <3>1 DEF Nowhere
  <2>7. Images'[IF "images" \in MovedOn(r) THEN r.new ELSE r.name] = b
    <3>1. Images[IF "images" \in MovedOn(q) THEN q.new ELSE q.name] = b
      BY <1>4, <2>3 DEF HasOwn
    <3>2. CASE p # "images"
      BY <1>3, <1>6, <1>11, <3>1, <3>2 DEF Images, FileKinds
    <3>3. CASE p = "images"
      BY <1>3, <1>4, <1>6, <1>11, <1>c, <3>1, <3>3 DEF Images, FileKinds
    <3> QED
      BY <3>2, <3>3
  <2>8. EditsOf(b)' \subseteq rows'[r.name]
    BY <1>1, <1>3, <1>4, <2>3 DEF HasOwn, EditsOf
  <2>9. HasOwn(r, b)'
    BY <1>3, <1>4, <2>5, <2>6, <2>7, <2>8 DEF HasOwn
  <2> QED
    BY <1>3, <1>9, <2>1, <2>9, OwnIsHadNext
<1>19. TakenFits(h)'
  <2> SUFFICES ASSUME Free(Images[request[h].new])', Images'[r.new] # r.book
               PROVE  Unprinted' /\ Images'[r.name] # NoOne /\ "images" \in LeftToDo(r)
    BY <1>3, <1>4, <1>9 DEF TakenFits
  <2>1. Images'[q.new] \in LibraryBook \ crossed
    BY <1>1, <1>3, <1>9 DEF Free
  <2>2. p # "images"
    BY <1>3, <1>4, <1>10, <1>11, <2>1 DEF Images, FileKinds
  <2>3. Images' = Images
    BY <1>11, <2>2 DEF Images, FileKinds
  <2>4. TakenFits(h)
    BY DEF LibraryInv, TakenNamesBlock
  <2>5. Free(Images[q.new]) /\ Images[q.new] # q.book
    BY <1>3, <2>1, <2>3 DEF Free
  <2>6. Unprinted /\ Images[q.name] # NoOne
    BY <1>0, <1>4, <1>q, <2>4, <2>5 DEF TakenFits
  <2> QED
    BY <1>3, <1>5, <1>17, <2>2, <2>3, <2>6 DEF Touches
<1>20. MovedFits(h)'
  <2> SUFFICES ASSUME NEW k \in MovedOn(r) PROVE parts'[k][r.new] \in crossed' \cup {NoOne, r.book}
    BY <1>9 DEF MovedFits
  <2>1. MovedOn(q) \subseteq FileKinds
    BY <1>4, StacksAreParts DEF MovedOn
  <2>2. CASE k = p
    BY <1>1, <1>3, <1>4, <1>10, <1>11, <2>2
  <2>3. CASE k # p
    <3>1. k \in MovedOn(q) /\ parts'[k] = parts[k]
      BY <1>6, <1>11, <2>1, <2>3
    <3>2. MovedFits(h)
      BY DEF LibraryInv, MovedIsOwn
    <3> QED
      BY <1>0, <1>1, <1>3, <1>q, <3>1, <3>2 DEF MovedFits
  <2> QED
    BY <2>2, <2>3
<1>21. r.at # "write" /\ LeftToDo(r) \subseteq LeftToDo(request[h])
  BY <1>3, <1>4, <1>5, <1>q
<1> QED
  BY <1>0, <1>1, <1>8, <1>11, <1>12, <1>14, <1>17, <1>18, <1>19, <1>20, <1>21, TouchesKeeps

\* A renaming that has nothing more to rename back ends.
LEMMA BackEnds ==
    ASSUME LibraryInv, NEW h \in Handlers, RollBack(h), request[h].moved = <<>>
    PROVE  LibraryInv'
<1>0. Active(h) /\ Mover(h) /\ request[h].op = "rename" /\ request[h].at = "back"
  <2>1. Active(h) /\ request[h].at = "back"
    BY WhoIsActive DEF RollBack
  <2> QED
    BY <2>1, ServedFits DEF Mover
<1>1. Unmoved /\ crossed' = crossed /\ metaLock' = metaLock /\ requests' = requests /\ libraryFaults' = libraryFaults
      /\ request' = [request EXCEPT ![h] = AtRest]
  BY DEF RollBack, Unmoved, Back, Sets
<1>2. Continues(h, AtRest) /\ AtRest.op = "none" /\ AtRest.at # "write"
  BY <1>1, RestFits DEF Continues
<1>3. MovedOn(request[h]) = {}
  BY NoParts DEF MovedOn
<1>4. Free(request[h].book) => /\ Images[request[h].name] = request[h].book
                               /\ \A p \in FileKinds : OnlyAt(p, request[h].book, request[h].name)
  BY <1>0, <1>3 DEF LibraryInv, OwnBooksFit, OwnFits
<1>5. Together' /\ Printed' /\ RowsFollow' /\ RowsBelong'
  BY <1>0, <1>1, <1>2, <1>4, GivesUp
<1>6. LockedRows'
  BY <1>0, <1>1, <1>2, LocksKept DEF Unmoved
<1>7. LibraryBasics'
  BY <1>0, <1>1, <1>2, BasicsKept, TypesNow DEF Unmoved
<1>8. ~Active(h)'
  BY <1>0, <1>2, ServedAfter
<1> QED
  BY <1>0, <1>1, <1>2, <1>5, <1>6, <1>7, <1>8, StandStill, Gathered

\* A renaming that renames a part back.
LEMMA BackStep ==
    ASSUME LibraryInv, NEW h \in Handlers, RollBack(h), request[h].moved # <<>>
    PROVE  LibraryInv'
<1>0. Active(h) /\ request[h].op = "rename" /\ request[h].at = "back" /\ Renamer(h) /\ Mover(h)
  <2>1. Active(h) /\ request[h].at = "back"
    BY WhoIsActive DEF RollBack
  <2> QED
    BY <2>1, ServedFits DEF Mover, Renamer
<1>q. PICK q : q = request[h]
  OBVIOUS
<1>p. PICK p : p = Head(q.moved)
  OBVIOUS
<1>t. PICK t : t = Tail(q.moved)
  OBVIOUS
<1>r. PICK r : r = [q EXCEPT !.moved = t]
  OBVIOUS
<1>1. /\ rows' = rows /\ acked' = acked /\ crossed' = crossed /\ metaLock' = metaLock /\ requests' = requests
      /\ libraryFaults' = libraryFaults
  BY DEF RollBack
<1>2. /\ request' = [request EXCEPT ![h] = r]
      /\ IF parts[p][q.new] = NoOne \/ (p = "images" /\ parts[p][q.name] # NoOne)
         THEN parts' = parts ELSE Moved(p, q.new, q.name)
  BY <1>p, <1>q, <1>t, <1>r DEF RollBack, Sets, Back
<1>3. /\ IsRequest(r) /\ r.op = q.op /\ r.at = q.at /\ r.name = q.name /\ r.new = q.new
      /\ r.book = q.book /\ r.field = q.field /\ r.todo = q.todo /\ r.moved = t /\ r.seen = q.seen
  <2>1. IsRequest(q)
    BY <1>0, <1>q, ServedFits DEF IsRequest
  <2> QED
    BY <2>1, <1>r, MovedElse
<1>4. /\ q.name \in BookNames /\ q.new \in BookNames /\ q.book \in LibraryBook \cup {NoOne} /\ q.todo \in Ends /\ q.moved \in Stacks
      /\ q.name # q.new /\ q.op = "rename" /\ q.at = "back" /\ q.moved # <<>> /\ "images" \notin MovedOn(q)
  BY <1>0, <1>q, ServedFits
<1>5. /\ p \in FileKinds /\ t \in Stacks /\ MovedOn(r) = MovedOn(q) \ {p} /\ p \in MovedOn(q) /\ LeftToDo(r) = LeftToDo(q)
  BY <1>p, <1>t, <1>3, <1>4, StackShrinks DEF MovedOn, LeftToDo
<1>6. p # "images" /\ "images" \notin MovedOn(r)
  BY <1>4, <1>5
<1>7. RequestFits(r)
  BY <1>3, <1>4, <1>5, <1>6 DEF RequestFits, IsRequest
<1>8. Continues(h, r) /\ r.op # "none"
  BY <1>2, <1>3, <1>4, <1>7, <1>q DEF Continues
<1>9. request'[h] = r
  BY <1>0, <1>8, ServedAfter
<1>10. Free(request[h].book) => HasOwn(q, q.book)
  BY <1>0, <1>q, OwnIsHad DEF LibraryInv, OwnBooksFit
<1>11. CASE parts[p][q.new] = NoOne
  <2>1. Unmoved
    BY <1>1, <1>2, <1>11 DEF Unmoved
  <2>2. Free(request[h].book)' => OwnFits(h)'
    <3> SUFFICES ASSUME Free(request[h].book)' PROVE OwnFits(h)'
      OBVIOUS
    <3>1. PICK b : b = q.book
      OBVIOUS
    <3>2. b \in LibraryBook \ crossed /\ Free(request[h].book)
      BY <1>1, <1>3, <1>9, <1>q, <3>1 DEF Free
    <3>3. HasOwn(q, b) /\ b # NoOne
      BY <1>10, <3>1, <3>2, BooksAreSome
    <3>4. Nowhere(p, b)
      <4>1. OnlyAt(p, b, q.new)
        BY <1>4, <1>5, <3>3 DEF HasOwn
      <4> QED
        BY <1>11, <3>3, <4>1 DEF OnlyAt, Nowhere
    <3>5. HasOwn(r, b)
      <4>1. OnlyAt(p, b, r.name)
        BY <3>4 DEF OnlyAt, Nowhere
      <4> QED
        BY <1>3, <1>4, <1>5, <1>6, <3>3, <4>1 DEF HasOwn
    <3> QED
      BY <1>3, <1>9, <2>1, <3>1, <3>5, OwnIsHadNext, HadIsKept
  <2>3. TakenFits(h)'
    BY <1>0, <1>3, <1>5, <1>8, <1>q, <2>1, TakenIsKept
  <2>4. LockedRows'
    BY <1>0, <1>1, <1>3, <1>4, <1>8, LocksKept
  <2>5. LibraryBasics'
    BY <1>0, <1>1, <1>8, <2>1, BasicsKept, TypesNow DEF Unmoved
  <2> QED
    BY <1>0, <1>1, <1>5, <1>8, <1>q, <2>1, <2>2, <2>3, <2>4, <2>5, Proceeds
<1>12. CASE parts[p][q.new] # NoOne
  <2>c. PICK c : c = parts[p][q.new]
    OBVIOUS
  <2>1. c # NoOne /\ c \in LibraryBook /\ (c \in crossed \/ c = q.book)
    <3>1. MovedFits(h)
      BY DEF LibraryInv, MovedIsOwn
    <3>2. c \in crossed \cup {NoOne, q.book}
      BY <1>0, <1>5, <1>q, <2>c, <3>1 DEF MovedFits
    <3>3. c \in LibraryBook
      BY <1>4, <1>5, <1>12, <2>c, TypesNow
    <3> QED
      BY <1>12, <2>c, <3>2, <3>3
  <2>2. /\ parts' \in [FileKinds -> [BookNames -> {NoOne} \cup LibraryBook]]
        /\ \A k \in FileKinds : k # p => parts'[k] = parts[k]
        /\ \A x \in BookNames : parts'[p][x] = IF x = q.new THEN NoOne ELSE IF x = q.name THEN c ELSE parts[p][x]
    BY <1>2, <1>4, <1>5, <1>6, <1>12, <2>c, TypesNow, MovedParts
  <2>3. Images' = Images
    BY <1>6, <2>2 DEF Images, FileKinds
  \* What is replaced by it crossed.
  <2>4. ~Free(parts[p][q.name])
    <3> SUFFICES ASSUME Free(parts[p][q.name]) PROVE FALSE
      OBVIOUS
    <3>1. parts[p][q.name] = q.book
      <4>1. request[h].name \in Names(request[h])
        BY DEF Names
      <4> QED
        BY <1>0, <1>5, <1>q, <4>1, OthersAreAtHome
    <3>2. HasOwn(q, q.book)
      BY <1>10, <1>q, <3>1
    <3>3. OnlyAt(p, q.book, q.new)
      BY <1>4, <1>5, <3>2 DEF HasOwn
    <3> QED
      BY <1>4, <3>1, <3>3 DEF OnlyAt
  <2>5. OnePlace'
    <3>1. OnePlace
      BY DEF LibraryInv
    <3> SUFFICES ASSUME NEW k \in FileKinds, NEW n \in BookNames, NEW m \in BookNames,
                        parts'[k][n] = parts'[k][m], parts'[k][n] # NoOne
                 PROVE  n = m
      BY DEF OnePlace
    <3>2. CASE k # p
      BY <2>2, <3>1, <3>2 DEF OnePlace
    <3>3. CASE k = p
      <4>1. \A x \in BookNames : parts[p][x] = c => x = q.new
        BY <1>4, <1>5, <2>1, <2>c, <3>1 DEF OnePlace
      <4> QED
        BY <1>4, <1>5, <2>2, <3>1, <3>3, <4>1 DEF OnePlace
    <3> QED
      BY <3>2, <3>3
  <2>6. ASSUME NEW k \in FileKinds, NEW b \in LibraryBook \ crossed, Nowhere(k, b) PROVE Nowhere(k, b)'
    <3>1. b # NoOne
      BY BooksAreSome
    <3> QED
      BY <1>4, <1>5, <2>2, <2>6, <2>c, <3>1 DEF Nowhere
  <2>7. HaveImages'
    <3> SUFFICES ASSUME NEW b \in LibraryBook \ crossed', Nowhere("images", b)', NEW k \in FileKinds
                 PROVE  Nowhere(k, b)'
      BY DEF HaveImages
    <3>1. Nowhere("images", b)
      BY <2>3 DEF Nowhere, Images
    <3>2. Nowhere(k, b)
      BY <1>1, <3>1 DEF LibraryInv, HaveImages
    <3> QED
      BY <1>1, <2>6, <3>2
  <2>8. OthersStay(h)
    <3> SUFFICES ASSUME NEW b \in LibraryBook \ crossed, b # q.book
                 PROVE  /\ \A k \in FileKinds : \A x \in BookNames : parts'[k][x] = b => parts[k][x] = b
                        /\ \A x \in BookNames : Images[x] = b => Images'[x] = b
      BY <1>0, <1>1, <1>q DEF OthersStay
    <3>1. b # c /\ b # NoOne
      BY <2>1, BooksAreSome
    <3>2. \A k \in FileKinds : \A x \in BookNames : parts'[k][x] = b => parts[k][x] = b
      BY <2>2, <3>1
    <3> QED
      BY <2>3, <3>2
  <2>9. Touches(h)
    <3>0. Names(request[h]) = {q.name, q.new}
      BY <1>4, <1>q DEF Names
    <3>1. \A k \in FileKinds : \A x \in BookNames : x \notin Names(request[h]) => parts'[k][x] = parts[k][x]
      BY <2>2, <3>0
    <3>2. /\ Images'[q.name] \in {NoOne, Images[q.name]} /\ Images'[q.new] = Images[q.new]
          /\ \A x \in Names(request[h]) : Images'[x] = NoOne \/ \E y \in Names(request[h]) : Images'[x] = Images[y]
      BY <2>3
    <3>3. \A k \in FileKinds : \A x \in BookNames : parts'[k][x] \in {NoOne, parts[k][x], q.book} \cup crossed
      BY <2>1, <2>2
    <3>4. Unprinted => Unprinted'
      <4>1. Unprinted => p # "pdf"
        BY <1>4, <1>12 DEF Unprinted, Pdfs
      <4> QED
        BY <2>2, <4>1 DEF Unprinted, Pdfs, FileKinds
    <3>5. \A b \in LibraryBook \ crossed : Nowhere("images", b) => Nowhere("images", b)'
      BY <2>3 DEF Nowhere, Images
    <3>6. ASSUME NEW b \in LibraryBook \ crossed, Nowhere("pdf", b)' PROVE Nowhere("pdf", b)
      <4>1. CASE p # "pdf"
        BY <2>2, <3>6, <4>1 DEF Nowhere, FileKinds
      <4>2. CASE p = "pdf"
        <5>1. \A x \in BookNames : parts'["pdf"][x] # b
          BY <3>6 DEF Nowhere
        <5>2. c # b
          BY <1>4, <2>2, <4>2, <5>1
        <5>3. parts["pdf"][q.name] # b
          BY <2>4, <4>2 DEF Free
        <5> QED
          BY <2>2, <2>c, <4>2, <5>1, <5>2, <5>3 DEF Nowhere
      <4> QED
        BY <4>1, <4>2
    <3> QED
      BY <1>4, <1>q, <2>8, <3>1, <3>2, <3>3, <3>4, <3>5, <3>6 DEF Touches
  <2>10. Free(request[h].book)' => OwnFits(h)'
    <3> SUFFICES ASSUME Free(request[h].book)' PROVE OwnFits(h)'
      OBVIOUS
    <3>1. PICK b : b = q.book
      OBVIOUS
    <3>2. b \in LibraryBook \ crossed /\ Free(request[h].book)
      BY <1>1, <1>3, <1>9, <1>q, <3>1 DEF Free
    <3>3. HasOwn(q, b) /\ b # NoOne
      BY <1>10, <3>1, <3>2, BooksAreSome
    <3>4. \A k \in FileKinds : OnlyAt(k, b, IF k \in MovedOn(r) THEN r.new ELSE r.name)'
      <4> SUFFICES ASSUME NEW k \in FileKinds, NEW x \in BookNames, parts'[k][x] = b
                   PROVE  x = IF k \in MovedOn(r) THEN r.new ELSE r.name
        BY DEF OnlyAt
      <4>0. OnlyAt(k, b, IF k \in MovedOn(q) THEN q.new ELSE q.name)
        BY <1>4, <3>3 DEF HasOwn
      <4>1. CASE k # p
        BY <1>3, <1>5, <2>2, <4>0, <4>1 DEF OnlyAt
      <4>2. CASE k = p
        BY <1>3, <1>5, <2>2, <3>3, <4>0, <4>2 DEF OnlyAt
      <4> QED
        BY <4>1, <4>2
    <3>5. Images'[IF "images" \in MovedOn(r) THEN r.new ELSE r.name] = b
      BY <1>3, <1>4, <1>6, <2>3, <3>3 DEF HasOwn
    <3>6. EditsOf(b)' \subseteq rows'[r.name]
      BY <1>1, <1>3, <1>4, <3>3 DEF HasOwn, EditsOf
    <3>7. HasOwn(r, b)'
      BY <1>3, <1>4, <3>4, <3>5, <3>6 DEF HasOwn
    <3> QED
      BY <1>3, <1>9, <3>1, <3>7, OwnIsHadNext
  <2>11. TakenFits(h)'
    <3> SUFFICES ASSUME Free(Images[request[h].new])', Images'[r.new] # r.book
                 PROVE  Unprinted' /\ Images'[r.name] # NoOne
      BY <1>3, <1>4, <1>9 DEF TakenFits
    <3>1. Free(Images[q.new]) /\ Images[q.new] # q.book
      BY <1>1, <1>3, <1>9, <2>3 DEF Free
    <3>2. TakenFits(h)
      BY DEF LibraryInv, TakenNamesBlock
    <3>3. Unprinted /\ Images[q.name] # NoOne
      BY <1>0, <1>4, <1>q, <3>1, <3>2 DEF TakenFits
    <3> QED
      BY <1>3, <2>3, <2>9, <3>3 DEF Touches
  <2>12. MovedFits(h)'
    <3> SUFFICES ASSUME NEW k \in MovedOn(r) PROVE parts'[k][r.new] \in crossed' \cup {NoOne, r.book}
      BY <1>9 DEF MovedFits
    <3>1. k \in MovedOn(q) /\ k # p /\ k \in FileKinds
      BY <1>4, <1>5, StacksAreParts DEF MovedOn
    <3>2. MovedFits(h)
      BY DEF LibraryInv, MovedIsOwn
    <3> QED
      BY <1>0, <1>1, <1>3, <1>q, <2>2, <3>1, <3>2 DEF MovedFits
  <2>13. r.at # "write" /\ LeftToDo(r) \subseteq LeftToDo(request[h])
    BY <1>3, <1>4, <1>5, <1>q
  <2> QED
    BY <1>0, <1>1, <1>8, <2>2, <2>5, <2>7, <2>9, <2>10, <2>11, <2>12, <2>13, TouchesKeeps
<1> QED
  BY <1>11, <1>12

\* A part that is removed.
RemovesPart(h) ==
    /\ DeletePart(h)
    /\ parts' = [parts EXCEPT ![Part(h)][request[h].name] = NoOne]
    /\ request' = [request EXCEPT ![h] = [request[h] EXCEPT !.todo = Tail(@)]]
    /\ crossed' = crossed /\ libraryFaults' = libraryFaults

\* A deletion that removes a part.
LEMMA RemoveStep == ASSUME LibraryInv, NEW h \in Handlers, RemovesPart(h) PROVE LibraryInv'
<1>0. Active(h) /\ request[h].op = "delete" /\ request[h].at = "files" /\ request[h].todo # <<>> /\ Mover(h)
  <2>1. request[h].op = "delete" /\ request[h].at = "files" /\ request[h].todo # <<>>
    BY DEF DeletePart, RemovesPart
  <2> QED
    BY <2>1, WhoIsActive DEF Mover
<1>q. PICK q : q = request[h]
  OBVIOUS
<1>p. PICK p : p = Head(q.todo)
  OBVIOUS
<1>s. PICK s : s = Tail(q.todo)
  OBVIOUS
<1>r. PICK r : r = [q EXCEPT !.todo = s]
  OBVIOUS
<1>1. /\ rows' = rows /\ acked' = acked /\ crossed' = crossed /\ metaLock' = metaLock /\ requests' = requests
      /\ libraryFaults' = libraryFaults
  BY DEF DeletePart, RemovesPart
<1>2. request' = [request EXCEPT ![h] = r] /\ parts' = [parts EXCEPT ![p][q.name] = NoOne]
  BY <1>p, <1>q, <1>s, <1>r DEF RemovesPart, Part
<1>3. /\ IsRequest(r) /\ r.op = q.op /\ r.at = q.at /\ r.name = q.name /\ r.new = q.new
      /\ r.book = q.book /\ r.field = q.field /\ r.todo = s /\ r.moved = q.moved /\ r.seen = q.seen
  <2>1. IsRequest(q)
    BY <1>0, <1>q, ServedFits DEF IsRequest
  <2> QED
    BY <2>1, <1>r, LeftLess
<1>4. /\ q.name \in BookNames /\ q.new \in BookNames /\ q.book \in LibraryBook \cup {NoOne} /\ q.todo \in Ends /\ q.moved \in Stacks
      /\ q.op = "delete" /\ q.at = "files" /\ q.todo # <<>>
  BY <1>0, <1>q, ServedFits
<1>5. /\ p \in FileKinds /\ s \in Ends /\ LeftToDo(r) = LeftToDo(q) \ {p} /\ p \in LeftToDo(q)
      /\ p = "images" => LeftToDo(q) = {"images"}
  BY <1>p, <1>s, <1>3, <1>4, EndsShrink DEF LeftToDo
<1>7. RequestFits(r)
  BY <1>3, <1>4, <1>5 DEF RequestFits, IsRequest
<1>8. Continues(h, r) /\ r.op # "none"
  BY <1>2, <1>3, <1>4, <1>7, <1>q DEF Continues
<1>9. request'[h] = r
  BY <1>0, <1>8, ServedAfter
<1>10. Free(request[h].book) => HasOwn(q, q.book)
  BY <1>0, <1>q, OwnIsHad DEF LibraryInv, OwnBooksFit
<1>11. /\ parts' \in [FileKinds -> [BookNames -> {NoOne} \cup LibraryBook]]
       /\ \A k \in FileKinds : k # p => parts'[k] = parts[k]
       /\ \A x \in BookNames : parts'[p][x] = IF x = q.name THEN NoOne ELSE parts[p][x]
  <2>1. parts \in [FileKinds -> [BookNames -> {NoOne} \cup LibraryBook]]
    BY TypesNow
  <2> DEFINE row == [parts[p] EXCEPT ![q.name] = NoOne]
  <2>2. row \in [BookNames -> {NoOne} \cup LibraryBook]
    BY <1>5, <2>1
  <2>3. \A x \in BookNames : row[x] = IF x = q.name THEN NoOne ELSE parts[p][x]
    BY <1>5, <2>1
  <2>4. parts' = [parts EXCEPT ![p] = row]
    BY <1>2
  <2> HIDE DEF row
  <2> QED
    BY <1>5, <2>1, <2>2, <2>3, <2>4
<1>12. \A k \in FileKinds : \A x \in BookNames : parts'[k][x] \in {NoOne, parts[k][x]}
  BY <1>11
<1>13. Free(parts[p][q.name]) => parts[p][q.name] = q.book
  <2>1. request[h].name \in Names(request[h])
    BY DEF Names
  <2> QED
    BY <1>0, <1>5, <1>q, <2>1, OthersAreAtHome
<1>14. OnePlace'
  BY <1>12 DEF LibraryInv, OnePlace
<1>15. ASSUME NEW k \in FileKinds, NEW b \in LibraryBook \ crossed, Nowhere(k, b) PROVE Nowhere(k, b)'
  <2>1. b # NoOne
    BY BooksAreSome
  <2> QED
    BY <1>12, <1>15, <2>1 DEF Nowhere

\* What is gone is the book of the request.
<1>16. ASSUME NEW k \in FileKinds, NEW b \in LibraryBook \ crossed, Nowhere(k, b)', ~Nowhere(k, b)
       PROVE  k = p /\ b = q.book
  <2>1. PICK x \in BookNames : parts[k][x] = b
    BY <1>16 DEF Nowhere
  <2>2. parts'[k][x] # b
    BY <1>16 DEF Nowhere
  <2>3. k = p /\ x = q.name
    BY <1>11, <2>1, <2>2
  <2> QED
    BY <1>13, <2>1, <2>3 DEF Free
<1>17. HaveImages'
  <2> SUFFICES ASSUME NEW b \in LibraryBook \ crossed, Nowhere("images", b)', NEW k \in FileKinds
               PROVE  Nowhere(k, b)'
    BY <1>1 DEF HaveImages
  <2>1. CASE Nowhere("images", b)
    <3>1. Nowhere(k, b)
      BY <2>1 DEF LibraryInv, HaveImages
    <3> QED
      BY <1>15, <3>1
  <2>2. CASE ~Nowhere("images", b)
    <3>1. p = "images" /\ b = q.book
      BY <1>16, <2>2 DEF FileKinds
    <3>2. HasOwn(q, b)
      BY <1>10, <1>q, <3>1 DEF Free
    <3>3. k # "images" => Nowhere(k, b)
      BY <1>4, <1>5, <3>1, <3>2 DEF HasOwn
    <3> QED
      BY <1>15, <3>3
  <2> QED
    BY <2>1, <2>2
<1>18. OthersStay(h)
  <2> SUFFICES ASSUME NEW b \in LibraryBook \ crossed, b # q.book
               PROVE  /\ \A k \in FileKinds : \A x \in BookNames : parts'[k][x] = b => parts[k][x] = b
                      /\ \A x \in BookNames : Images[x] = b => Images'[x] = b
    BY <1>0, <1>1, <1>q DEF OthersStay
  <2>1. b # NoOne
    BY BooksAreSome
  <2>2. \A k \in FileKinds : \A x \in BookNames : parts'[k][x] = b => parts[k][x] = b
    BY <1>12, <2>1
  <2>3. p = "images" => Images[q.name] # b
    BY <1>13 DEF Free, Images
  <2> QED
    BY <1>11, <2>2, <2>3 DEF Images, FileKinds
<1>19. Touches(h)
  <2>0. Names(request[h]) = {q.name}
    BY <1>4, <1>q DEF Names
  <2>1. \A k \in FileKinds : \A x \in BookNames : x \notin Names(request[h]) => parts'[k][x] = parts[k][x]
    BY <1>11, <2>0
  <2>2. /\ Images'[q.name] \in {NoOne, Images[q.name]}
        /\ \A x \in Names(request[h]) : Images'[x] = NoOne \/ \E y \in Names(request[h]) : Images'[x] = Images[y]
    BY <1>4, <1>12, <2>0 DEF Images, FileKinds
  <2>4. Unprinted => Unprinted'
    BY <1>12 DEF Unprinted, Pdfs, FileKinds
  <2>5. \A b \in LibraryBook \ crossed : Nowhere("images", b) => Nowhere("images", b)'
    BY <1>15 DEF FileKinds
  <2>6. ASSUME NEW b \in LibraryBook \ crossed, Nowhere("pdf", b)', ~Nowhere("pdf", b)
        PROVE  b = q.book /\ "pdf" \notin LeftToDo(request'[h])
    <3>1. p = "pdf" /\ b = q.book
      BY <1>16, <2>6 DEF FileKinds
    <3> QED
      BY <1>5, <1>9, <3>1
  <2> QED
    BY <1>4, <1>q, <1>12, <1>18, <2>1, <2>2, <2>4, <2>5, <2>6 DEF Touches
<1>20. Free(request[h].book)' => OwnFits(h)'
  <2> SUFFICES ASSUME Free(request[h].book)' PROVE OwnFits(h)'
    OBVIOUS
  <2>1. PICK b : b = q.book
    OBVIOUS
  <2>2. b \in LibraryBook \ crossed /\ Free(request[h].book)
    BY <1>1, <1>3, <1>9, <1>q, <2>1 DEF Free
  <2>3. HasOwn(q, b) /\ b # NoOne
    BY <1>10, <2>1, <2>2, BooksAreSome
  <2>4. ASSUME NEW k \in FileKinds PROVE OnlyAt(k, b, q.name)' /\ (k \notin LeftToDo(r) => Nowhere(k, b)')
    <3>1. OnlyAt(k, b, q.name) /\ (k \notin LeftToDo(q) => Nowhere(k, b))
      BY <1>4, <2>3 DEF HasOwn
    <3>2. OnlyAt(k, b, q.name)'
      BY <1>12, <2>3, <3>1 DEF OnlyAt
    <3>3. k # p /\ k \notin LeftToDo(r) => Nowhere(k, b)'
      BY <1>5, <1>15, <2>2, <3>1
    <3>4. Nowhere(p, b)'
      <4>1. OnlyAt(p, b, q.name)
        BY <1>4, <1>5, <2>3 DEF HasOwn
      <4> QED
        BY <1>11, <2>3, <4>1 DEF OnlyAt, Nowhere
    <3> QED
      BY <3>2, <3>3, <3>4
  <2>5. "images" \in LeftToDo(r) => Images'[q.name] = b
    BY <1>4, <1>5, <1>11, <2>3 DEF HasOwn, Images, FileKinds
  <2>6. HasOwn(r, b)'
    BY <1>3, <1>4, <2>4, <2>5 DEF HasOwn
  <2> QED
    BY <1>3, <1>9, <2>1, <2>6, OwnIsHadNext
<1>21. TakenFits(h)' /\ MovedFits(h)'
  BY <1>3, <1>4, <1>9 DEF TakenFits, MovedFits, Renamer
<1>22. r.at # "write" /\ LeftToDo(r) \subseteq LeftToDo(request[h])
  BY <1>3, <1>4, <1>5, <1>q
<1> QED
  BY <1>0, <1>1, <1>8, <1>11, <1>14, <1>17, <1>19, <1>20, <1>21, <1>22, TouchesKeeps
-----------------------------------------------------------------------------
\* A handler that takes a request.
LEMMA AskStep ==
    ASSUME LibraryInv, NEW h \in Handlers, NEW op \in {"edit", "delete", "rename"}, NEW at, NEW n \in BookNames, NEW m \in BookNames,
           NEW f, op = "edit" => at = "lock" /\ f \in Fields, op # "edit" => at = "check", op = "rename" => n # m,
           Ask(h, Asked(op, at, n, m, f))
    PROVE  LibraryInv'
<1>b. PICK b : b = BookAt(n)
  OBVIOUS
<1>s. PICK s : s = [k \in BookNames |-> {}]
  OBVIOUS
<1>r. PICK r : r = [op |-> op, at |-> at, name |-> n, new |-> m, book |-> b, field |-> f,
                    todo |-> FileParts, moved |-> <<>>, seen |-> s]
  OBVIOUS
<1>1. r = Asked(op, at, n, m, f)
  BY <1>b, <1>s, <1>r DEF Asked
<1>2. /\ r.op = op /\ r.at = at /\ r.name = n /\ r.new = m /\ r.book = b /\ r.field = f
      /\ r.todo = FileParts /\ r.moved = <<>> /\ r.seen = s /\ IsRequest(r)
  BY <1>r DEF IsRequest
<1>3. /\ request[h] = AtRest /\ requests < MaxRequests /\ requests' = requests + 1
      /\ request' = [request EXCEPT ![h] = r]
      /\ crossed' = crossed \cup
          (IF Meets(r) = {} THEN {} ELSE Concerned({r} \cup {request[k] : k \in Meets(r)}) \ {NoOne})
      /\ parts' = parts /\ rows' = rows /\ metaLock' = metaLock /\ acked' = acked /\ libraryFaults' = libraryFaults
  BY <1>1, <1>2 DEF Ask, Sets
<1>4. /\ MovedOn(r) = {} /\ LeftToDo(r) = FileKinds /\ FileParts \in Ends /\ <<>> \in Stacks /\ "images" \in FileKinds /\ "pdf" \in FileKinds
  BY <1>2, NoParts DEF MovedOn, LeftToDo, FileKinds
<1>5. \A x \in BookNames : /\ BookAt(x) \in {NoOne} \cup LibraryBook
                           /\ Images[x] # NoOne => BookAt(x) = Images[x]
                           /\ BookAt(x) # NoOne => BookAt(x) = Images[x] \/ (Images[x] = NoOne /\ parts["pdf"][x] = BookAt(x))
  <2> SUFFICES ASSUME NEW x \in BookNames
               PROVE  /\ BookAt(x) \in {NoOne} \cup LibraryBook
                      /\ Images[x] # NoOne => BookAt(x) = Images[x]
                      /\ BookAt(x) # NoOne => BookAt(x) = Images[x] \/ (Images[x] = NoOne /\ parts["pdf"][x] = BookAt(x))
    OBVIOUS
  <2>1. parts["images"][x] \in {NoOne} \cup LibraryBook /\ parts["pdf"][x] \in {NoOne} \cup LibraryBook
    BY <1>4, TypesNow
  <2> QED
    BY <2>1 DEF BookAt, Images
<1>6. b \in LibraryBook \cup {NoOne}
  BY <1>5, <1>b
<1>7. RequestFits(r)
  <2>1. op # "edit" => at = "check"
    OBVIOUS
  <2> QED
    BY <1>2, <1>4, <1>6, <2>1 DEF RequestFits, IsRequest
<1>8. /\ DOMAIN request' = Handlers /\ request'[h] = r /\ \A k \in Handlers : k # h => request'[k] = request[k]
      /\ ~Active(h) /\ Active(h)' /\ ~Mover(h) /\ ~Renamer(h)
  <2>1. DOMAIN request = Handlers
    BY TypesNow
  <2>2. r # AtRest
    BY <1>2, RestFits
  <2> QED
    BY <1>3, <2>1, <2>2 DEF Active, Mover, Renamer
<1>9. \A k \in Handlers : k # h => (Active(k)' <=> Active(k)) /\ (Mover(k)' <=> Mover(k)) /\ (Renamer(k)' <=> Renamer(k))
                                   /\ Names(request[k])' = Names(request[k])
  BY <1>8 DEF Active, Mover, Renamer, Names
<1>10. Names(request[h])' = Names(r) /\ n \in Names(r) /\ Names(r) \subseteq BookNames /\ (op = "rename" => m \in Names(r))
  BY <1>2, <1>8 DEF Names
<1>11. crossed \subseteq crossed' /\ crossed' \subseteq LibraryBook
  <2>1. crossed \subseteq LibraryBook
    BY TypesNow
  <2>2. ASSUME NEW z \in Concerned({r} \cup {request[k] : k \in Meets(r)}), z # NoOne PROVE z \in LibraryBook
    <3>1. PICK rr \in {r} \cup {request[k] : k \in Meets(r)} : z = rr.book \/ \E x \in Names(rr) : z = BookAt(x)
      BY <2>2 DEF Concerned
    <3>2. rr.book \in LibraryBook \cup {NoOne} /\ Names(rr) \subseteq BookNames
      <4>1. CASE rr = r
        BY <1>2, <1>6, <1>10, <4>1
      <4>2. ASSUME NEW k \in Meets(r), rr = request[k] PROVE rr.book \in LibraryBook \cup {NoOne} /\ Names(rr) \subseteq BookNames
        <5>1. k \in Handlers /\ Active(k)
          BY DEF Meets
        <5> QED
          BY <4>2, <5>1, ServedFits DEF Names
      <4> QED
        BY <3>1, <4>1, <4>2
    <3> QED
      BY <1>5, <2>2, <3>1, <3>2
  <2> QED
    BY <1>3, <2>1, <2>2

\* Those that it meets have crossed with it.
<1>12. ASSUME NEW k \in Handlers, k # h, Active(k), {op, request[k].op} # {"edit"}, NEW y \in Names(r), y \in Names(request[k])
       PROVE  /\ b \in crossed' \cup {NoOne} /\ request[k].book \in crossed' \cup {NoOne}
              /\ \A x \in Names(r) \cup Names(request[k]) : Images[x] \in crossed' \cup {NoOne}
  <2>1. k \in Meets(r)
    BY <1>2, <1>12 DEF Meets
  <2>2. crossed' = crossed \cup (Concerned({r} \cup {request[l] : l \in Meets(r)}) \ {NoOne})
    BY <1>3, <2>1
  <2>3. Names(request[k]) \subseteq BookNames
    BY <1>12, ServedFits DEF Names
  <2>4. b \in Concerned({r} \cup {request[l] : l \in Meets(r)}) /\ request[k].book \in Concerned({r} \cup {request[l] : l \in Meets(r)})
    BY <1>2, <2>1 DEF Concerned
  <2>5. \A x \in Names(r) \cup Names(request[k]) : BookAt(x) \in Concerned({r} \cup {request[l] : l \in Meets(r)})
    BY <2>1 DEF Concerned
  <2> QED
    BY <1>3, <1>5, <1>10, <2>2, <2>3, <2>4, <2>5, BooksAreSome

\* Nobody moves the book when it is not crossed.
<1>13. ASSUME b \notin crossed', b # NoOne
       PROVE  /\ \A k \in Handlers : Mover(k) => request[k].book # b
              /\ Images[n] = b
              /\ op # "edit" => \A k \in Handlers : Active(k) => request[k].book # b
  <2>0. Free(b) /\ b \in LibraryBook \ crossed
    BY <1>6, <1>11, <1>13 DEF Free
  <2>1. ASSUME NEW k \in Handlers, Mover(k), request[k].book = b PROVE FALSE
    <3>1. parts["images"][n] = b \/ parts["pdf"][n] = b
      BY <1>3, <1>5, <1>b DEF Images
    <3>2. n \in Names(request[k])
      BY <1>4, <2>0, <2>1, <3>1, OwnIsUnderItsNames
    <3>3. k # h /\ Active(k) /\ request[k].op # "edit"
      BY <1>8, <2>1 DEF Mover
    <3> QED
      BY <1>10, <1>12, <1>13, <3>2, <3>3
  <2>2. Images[n] = b
    <3> SUFFICES ASSUME Images[n] = NoOne, parts["pdf"][n] = b PROVE FALSE
      BY <1>3, <1>5, <1>b
    <3>1. ~Nowhere("pdf", b)
      BY DEF Nowhere
    <3>2. ~Nowhere("images", b)
      BY <1>4, <2>0, <3>1 DEF LibraryInv, HaveImages
    <3>3. PICK x \in BookNames : Images[x] = b
      BY <3>2 DEF Nowhere, Images
    <3>4. n = x
      BY <1>4, <2>0, <2>1, <3>3 DEF LibraryInv, Together, Renamer, Mover
    <3> QED
      BY <1>13, <3>3, <3>4
  <2>3. ASSUME op # "edit", NEW k \in Handlers, Active(k), request[k].book = b PROVE FALSE
    <3>1. CASE request[k].op # "edit"
      BY <2>1, <2>3, <3>1 DEF Mover
    <3>2. CASE request[k].op = "edit"
      <4>1. Images[request[k].name] = b
        BY <2>0, <2>3, <3>2 DEF LibraryInv, OwnBooksFit, OwnFits, Free
      <4>2. request[k].name \in BookNames /\ request[k].name \in Names(request[k])
        BY <2>3, <3>2, ServedFits DEF Names
      <4>3. request[k].name = n
        BY <1>4, <1>13, <2>2, <4>1, <4>2 DEF LibraryInv, OnePlace, Images
      <4>4. k # h
        BY <1>8, <2>3
      <4> QED
        BY <1>10, <1>12, <1>13, <2>3, <4>2, <4>3, <4>4
    <3> QED
      BY <3>1, <3>2
  <2> QED
    BY <2>1, <2>2, <2>3
<1>i. Images' = Images /\ Unprinted' = Unprinted /\ \A p \in FileKinds : \A z : Nowhere(p, z)' <=> Nowhere(p, z)
  BY <1>3 DEF Images, Unprinted, Pdfs, Nowhere
<1>20. LibraryBasics'
  <2>1. \A k \in Handlers : RequestFits(request'[k])
    BY <1>7, <1>8 DEF LibraryInv, LibraryBasics
  <2>2. requests' \in 0 .. MaxRequests
    BY <1>3, LibraryAssumption DEF LibraryInv, LibraryBasics
  <2> QED
    BY <1>3, <1>8, <1>11, <2>1, <2>2, TypesNow DEF LibraryBasics
<1>21. OnePlace' /\ HaveImages'
  <2>1. OnePlace'
    BY <1>3 DEF LibraryInv, OnePlace
  <2>2. HaveImages'
    BY <1>4, <1>11, <1>i DEF LibraryInv, HaveImages
  <2> QED
    BY <2>1, <2>2
<1>22. MetAreCrossed'
  <2> SUFFICES ASSUME NEW k \in Handlers, NEW l \in Handlers, Meeting(k, l)'
               PROVE  /\ request'[k].book \in crossed' \cup {NoOne} /\ request'[l].book \in crossed' \cup {NoOne}
                      /\ \A x \in Names(request[k])' : Images'[x] \in crossed' \cup {NoOne}
    BY DEF MetAreCrossed
  <2>0. k # l /\ Active(k)' /\ Active(l)' /\ {request'[k].op, request'[l].op} # {"edit"} /\ Names(request[k])' \cap Names(request[l])' # {}
    BY DEF Meeting
  <2>1. CASE k = h
    <3>1. Active(l) /\ request'[l] = request[l] /\ Names(request[l])' = Names(request[l])
      BY <1>8, <1>9, <2>0, <2>1
    <3>2. PICK y \in Names(r) : y \in Names(request[l])
      BY <1>10, <2>0, <2>1, <3>1
    <3>3. {op, request[l].op} # {"edit"}
      BY <1>2, <1>8, <2>0, <2>1, <3>1
    <3> QED
      BY <1>2, <1>8, <1>10, <1>12, <1>i, <2>0, <2>1, <3>1, <3>2, <3>3
  <2>2. CASE l = h
    <3>1. Active(k) /\ request'[k] = request[k] /\ Names(request[k])' = Names(request[k])
      BY <1>8, <1>9, <2>0, <2>2
    <3>2. PICK y \in Names(r) : y \in Names(request[k])
      BY <1>10, <2>0, <2>2, <3>1
    <3>3. {op, request[k].op} # {"edit"}
      BY <1>2, <1>8, <2>0, <2>2, <3>1
    <3> QED
      BY <1>2, <1>8, <1>10, <1>12, <1>i, <2>0, <2>2, <3>1, <3>2, <3>3
  <2>3. CASE k # h /\ l # h
    <3>1. Meeting(k, l) /\ request'[k] = request[k] /\ request'[l] = request[l] /\ Names(request[k])' = Names(request[k])
      BY <1>8, <1>9, <2>0, <2>3 DEF Meeting
    <3>2. /\ request[k].book \in crossed \cup {NoOne} /\ request[l].book \in crossed \cup {NoOne}
          /\ \A x \in Names(request[k]) : Images[x] \in crossed \cup {NoOne}
      BY <3>1 DEF LibraryInv, MetAreCrossed
    <3> QED
      BY <1>11, <1>i, <3>1, <3>2
  <2> QED
    BY <2>1, <2>2, <2>3
<1>23. Together'
  <2> SUFFICES ASSUME NEW c \in LibraryBook \ crossed', \A k \in Handlers : Renamer(k)' => request'[k].book # c,
                      NEW p \in FileKinds, NEW y \in BookNames, NEW x \in BookNames, parts'[p][y] = c, Images'[x] = c
               PROVE  y = x
    BY DEF Together
  <2>1. \A k \in Handlers : Renamer(k) => request[k].book # c
    BY <1>8, <1>9
  <2> QED
    BY <1>3, <1>11, <1>i, <2>1 DEF LibraryInv, Together
<1>24. NameIsOwn'
  <2> SUFFICES ASSUME NEW k \in Handlers, Mover(k)' PROVE Images'[request'[k].name] \in crossed' \cup {NoOne, request'[k].book}
    BY DEF NameIsOwn
  <2>1. CASE k = h
    BY <1>2, <1>5, <1>8, <1>b, <1>i, <2>1
  <2>2. CASE k # h
    BY <1>8, <1>9, <1>11, <1>i, <2>2 DEF LibraryInv, NameIsOwn
  <2> QED
    BY <2>1, <2>2
<1>25. ASSUME NEW k \in Handlers, Active(k)', Free(request[k].book)' PROVE OwnFits(k)'
  <2>1. CASE k # h
    <3>c. PICK c : c = request[k].book
      OBVIOUS
    <3>q. PICK q : q = request[k]
      OBVIOUS
    <3>1. request'[k] = q /\ Active(k)
      BY <1>8, <1>9, <1>25, <2>1, <3>q
    <3>2. Free(request[k].book) /\ c = q.book
      BY <1>11, <1>25, <3>1, <3>q, <3>c DEF Free
    <3>3. HasOwn(q, c)
      BY <3>1, <3>2, <3>q, OwnIsHad DEF LibraryInv, OwnBooksFit
    <3>4. HasOwn(q, c)'
      BY <1>3, <1>11, <3>3, HadIsKept DEF Unmoved
    <3> QED
      BY <3>1, <3>2, <3>4, OwnIsHadNext
  <2>2. CASE k = h
    <3>1. b \notin crossed' /\ b # NoOne
      BY <1>2, <1>8, <1>25, <2>2, BooksAreSome DEF Free
    <3>2. b \in LibraryBook \ crossed
      BY <1>6, <1>11, <3>1
    <3>3. \A l \in Handlers : Renamer(l) => request[l].book # b
      BY <1>13, <3>1 DEF Renamer, Mover
    <3>4. \A p \in FileKinds : OnlyAt(p, b, n)
      BY <1>13, <3>1, <3>2, <3>3 DEF LibraryInv, Together, OnlyAt
    <3>5. EditsOf(b) \subseteq rows[n]
      BY <1>13, <3>1, <3>2, <3>3 DEF LibraryInv, RowsFollow
    <3>6. HasOwn(r, b)
      BY <1>2, <1>4, <1>13, <3>1, <3>4, <3>5 DEF HasOwn
    <3>7. HasOwn(r, b)'
      BY <1>3, <1>11, <3>6, HadIsKept DEF Unmoved
    <3> QED
      BY <1>2, <1>8, <2>2, <3>7, OwnIsHadNext
  <2> QED
    BY <2>1, <2>2
<1>26. OneRequestEach'
  <2> SUFFICES ASSUME NEW k \in Handlers, NEW l \in Handlers,
                      Active(k)', Active(l)', request'[k].book = request'[l].book, Free(request[k].book)'
               PROVE  k = l \/ (request'[k].op = "edit" /\ request'[l].op = "edit")
    BY DEF OneRequestEach
  <2>1. CASE k # h /\ l # h
    BY <1>8, <1>9, <1>11, <2>1 DEF LibraryInv, OneRequestEach, Free
  <2>2. ASSUME NEW i \in Handlers, i # h, Active(i)', request'[i].book = b, b \notin crossed', b # NoOne
        PROVE  op = "edit" /\ request'[i].op = "edit"
    <3>1. Active(i) /\ request'[i] = request[i]
      BY <1>8, <1>9, <2>2
    <3> QED
      BY <1>13, <2>2, <3>1 DEF Mover
  <2>3. CASE k = h /\ l # h
    BY <1>2, <1>8, <2>2, <2>3, BooksAreSome DEF Free
  <2>4. CASE k # h /\ l = h
    BY <1>2, <1>8, <2>2, <2>4, BooksAreSome DEF Free
  <2> QED
    BY <2>1, <2>3, <2>4
<1>27. TakenNamesBlock' /\ MovedIsOwn'
  <2> SUFFICES ASSUME NEW k \in Handlers PROVE TakenFits(k)' /\ MovedFits(k)'
    BY DEF TakenNamesBlock, MovedIsOwn
  <2>1. CASE k = h
    BY <1>2, <1>4, <1>8, <2>1 DEF TakenFits, MovedFits, Renamer
  <2>2. CASE k # h
    <3>1. TakenFits(k) /\ MovedFits(k)
      BY DEF LibraryInv, TakenNamesBlock, MovedIsOwn
    <3>2. TakenFits(k)'
      BY <1>8, <1>9, <1>11, <1>i, <2>2, <3>1 DEF TakenFits, Free
    <3>3. MovedFits(k)'
      BY <1>3, <1>8, <1>9, <1>11, <2>2, <3>1 DEF MovedFits
    <3> QED
      BY <3>2, <3>3
  <2> QED
    BY <2>1, <2>2
<1>28. Printed'
  <2>1. CASE Unprinted
    BY <1>i, <2>1 DEF Printed
  <2>2. CASE ~Unprinted
    <3> SUFFICES ASSUME NEW c \in LibraryBook \ crossed', Nowhere("pdf", c)', ~Nowhere("images", c)'
                 PROVE  \E k \in Handlers : Active(k)' /\ request'[k].op = "delete" /\ request'[k].book = c /\ "pdf" \notin LeftToDo(request'[k])
      BY DEF Printed
    <3>1. PICK k \in Handlers : Active(k) /\ request[k].op = "delete" /\ request[k].book = c /\ "pdf" \notin LeftToDo(request[k])
      BY <1>4, <1>11, <1>i, <2>2 DEF LibraryInv, Printed
    <3>2. k # h
      BY <1>8, <3>1
    <3> QED
      BY <1>8, <1>9, <3>1, <3>2
  <2> QED
    BY <2>1, <2>2
<1>29. RowsFollow'
  <2> SUFFICES ASSUME NEW c \in LibraryBook \ crossed', NEW x \in BookNames, Images'[x] = c
               PROVE  \/ EditsOf(c)' \subseteq rows'[x]
                      \/ \E k \in Handlers : Renamer(k)' /\ request'[k].book = c /\ request'[k].new = x
    BY DEF RowsFollow
  <2>1. \/ EditsOf(c) \subseteq rows[x]
        \/ \E k \in Handlers : Renamer(k) /\ request[k].book = c /\ request[k].new = x
    BY <1>11, <1>i DEF LibraryInv, RowsFollow
  <2>2. EditsOf(c)' = EditsOf(c)
    BY <1>3 DEF EditsOf
  <2> QED
    BY <1>3, <1>8, <1>9, <2>1, <2>2
<1>30. RowsBelong'
  <2> SUFFICES ASSUME crossed' = {}
               PROVE  /\ \A x \in BookNames : (\A k \in Handlers : Mover(k)' => x \notin Names(request[k])')
                           => \A e \in OwnEdits(rows'[x]) : e[1] = Images'[x]
                      /\ \A k \in Handlers : Mover(k)' => \A e \in OwnEdits(rows'[request'[k].name]) : e[1] = request'[k].book
                      /\ \A k \in Handlers : Renamer(k)' =>
                           \A e \in OwnEdits(rows'[request'[k].new]) : e[1] = Images'[request'[k].new] /\ e[1] # request'[k].book
    BY DEF RowsBelong
  <2>0. RowsBelong /\ crossed = {} /\ crossed' = {} /\ b \notin crossed'
    BY <1>11 DEF LibraryInv
  <2>i. Images[n] = b
    BY <1>5, <1>13, <1>b, <2>0
  <2>1. ASSUME NEW x \in BookNames, \A k \in Handlers : Mover(k)' => x \notin Names(request[k])' PROVE \A e \in OwnEdits(rows'[x]) : e[1] = Images'[x]
    <3>1. \A k \in Handlers : Mover(k) => x \notin Names(request[k])
      BY <1>8, <1>9, <2>1
    <3> QED
      BY <1>3, <1>i, <2>0, <3>1 DEF RowsBelong
  \* Another request that moves what is under a name of this one has no book.
  <2>2. ASSUME op # "edit", NEW x \in Names(r) PROVE \A e \in OwnEdits(rows[x]) : e[1] = Images[x]
    <3>1. CASE \A k \in Handlers : Mover(k) => x \notin Names(request[k])
      BY <1>10, <2>0, <3>1 DEF RowsBelong
    <3>2. CASE \E k \in Handlers : Mover(k) /\ x \in Names(request[k])
      <4>1. PICK k \in Handlers : Mover(k) /\ x \in Names(request[k])
        BY <3>2
      <4>2. k # h /\ Active(k) /\ {op, request[k].op} # {"edit"}
        BY <1>8, <2>2, <4>1 DEF Mover
      <4>3. request[k].book = NoOne
        BY <1>12, <2>0, <2>2, <4>1, <4>2
      <4> SUFFICES ASSUME NEW e \in OwnEdits(rows[x]) PROVE e[1] = Images[x]
        OBVIOUS
      <4>4. x # request[k].name
        BY <2>0, <4>1, <4>3 DEF RowsBelong, OwnEdits
      <4>5. Renamer(k) /\ x = request[k].new
        BY <4>1, <4>4 DEF Names, Mover, Renamer
      <4> QED
        BY <2>0, <4>5 DEF RowsBelong
    <3> QED
      BY <3>1, <3>2
  <2>3. ASSUME NEW k \in Handlers, Mover(k)' PROVE \A e \in OwnEdits(rows'[request'[k].name]) : e[1] = request'[k].book
    <3>1. CASE k = h
      <4>1. op # "edit"
        BY <1>2, <1>8, <2>3, <3>1 DEF Mover
      <4> QED
        BY <1>2, <1>3, <1>8, <1>10, <2>i, <2>2, <3>1, <4>1
    <3>2. CASE k # h
      BY <1>3, <1>8, <1>9, <2>0, <2>3, <3>2 DEF RowsBelong
    <3> QED
      BY <3>1, <3>2
  <2>4. ASSUME NEW k \in Handlers, Renamer(k)'
        PROVE  \A e \in OwnEdits(rows'[request'[k].new]) : e[1] = Images'[request'[k].new] /\ e[1] # request'[k].book
    <3>1. CASE k = h
      <4>1. op = "rename"
        BY <1>2, <1>8, <2>4, <3>1 DEF Renamer
      <4>2. \A e \in OwnEdits(rows[m]) : e[1] = Images[m]
        BY <1>10, <2>2, <4>1
      <4>3. b # NoOne => Images[m] # b
        <5>1. Images[n] = b /\ n # m
          BY <2>i, <4>1
        <5> QED
          BY <1>4, <5>1 DEF LibraryInv, OnePlace, Images
      <4>4. \A e \in OwnEdits(rows[m]) : e[1] = Images[m] /\ e[1] # b
        BY <4>2, <4>3 DEF OwnEdits
      <4> QED
        BY <1>2, <1>3, <1>8, <1>i, <3>1, <4>4
    <3>2. CASE k # h
      BY <1>3, <1>8, <1>9, <1>i, <2>0, <2>4, <3>2 DEF RowsBelong
    <3> QED
      BY <3>1, <3>2
  <2> QED
    BY <2>1, <2>3, <2>4
<1>31. LockedRows'
  <2> SUFFICES ASSUME NEW k \in Handlers, request'[k].at = "write" PROVE metaLock' = k /\ request'[k].seen = rows'
    BY DEF LockedRows
  <2>1. k # h
    BY <1>2, <1>8
  <2> QED
    BY <1>3, <1>8, <2>1 DEF LibraryInv, LockedRows
<1>32. OwnBooksFit'
  BY <1>25 DEF OwnBooksFit
<1> QED
  BY <1>20, <1>21, <1>22, <1>23, <1>24, <1>26, <1>27, <1>28, <1>29, <1>30, <1>31, <1>32 DEF LibraryInv

\* What the writing of the rows changes: the rows under its names.
LEMMA WriteEffects ==
    ASSUME LibraryInv, NEW h \in Handlers, WriteRows(h)
    PROVE  /\ Active(h) /\ request[h].at = "write"
           /\ rows' \in [BookNames -> SUBSET (LibraryEdits \cup StrayEdits)]
           /\ \A x \in BookNames : x \notin Names(request[h]) => rows'[x] = rows[x]
           /\ request[h].op = "edit" =>
                /\ rows'[request[h].name] = rows[request[h].name] \cup {<<request[h].book, request[h].field>>}
                /\ acked' = acked \cup ({<<request[h].book, request[h].field>>} \cap LibraryEdits)
                /\ request[h].field \in Fields
           /\ request[h].op = "delete" =>
                rows'[request[h].name] = {} /\ acked' = {e \in acked : e[1] # request[h].book}
           /\ request[h].op = "rename" =>
                /\ rows'[request[h].name] = {} /\ acked' = acked
                /\ rows[request[h].name] = {} => rows'[request[h].new] = rows[request[h].new]
                /\ rows[request[h].name] # {} => rows'[request[h].new] = rows[request[h].name]
           /\ acked' \subseteq LibraryEdits
<1>0. Active(h) /\ request[h].at = "write"
  BY WhoIsActive DEF WriteRows
<1>q. PICK q : q = request[h]
  OBVIOUS
<1>1. q.name \in BookNames /\ q.new \in BookNames /\ q.book \in LibraryBook \cup {NoOne} /\ q.op \in {"edit", "delete", "rename"}
      /\ (q.op = "edit" => q.field \in Fields) /\ (q.op = "rename" => q.name # q.new)
  BY <1>0, <1>q, ServedFits
<1>2. q.seen = rows
  BY <1>0, <1>q DEF LibraryInv, LockedRows
<1>3. rows \in [BookNames -> SUBSET (LibraryEdits \cup StrayEdits)] /\ acked \subseteq LibraryEdits
  BY TypesNow
<1>4. rows' = [n \in BookNames |-> IF ChangedRows(q)[n] # rows[n] THEN ChangedRows(q)[n] ELSE rows[n]]
  BY <1>q, <1>2 DEF WriteRows, RowsWritten
<1>5. \A n \in BookNames : rows'[n] = ChangedRows(q)[n]
  BY <1>4
<1>6. DOMAIN rows' = BookNames /\ rows' = [n \in BookNames |-> rows'[n]]
  BY <1>4
<1>7. CASE q.op = "edit"
  <2>1. ChangedRows(q) = [rows EXCEPT ![q.name] = @ \cup {<<q.book, q.field>>}]
    BY <1>7, <1>2 DEF ChangedRows
  <2>2. \A n \in BookNames : ChangedRows(q)[n] = IF n = q.name THEN rows[n] \cup {<<q.book, q.field>>} ELSE rows[n]
    BY <2>1, <1>1, <1>3
  <2>3. \A n \in BookNames : rows'[n] = IF n = q.name THEN rows[n] \cup {<<q.book, q.field>>} ELSE rows[n]
    BY <2>2, <1>5
  <2>4. <<q.book, q.field>> \in LibraryEdits \cup StrayEdits
    BY <1>1, <1>7 DEF LibraryEdits, StrayEdits
  <2>5. \A n \in BookNames : rows'[n] \in SUBSET (LibraryEdits \cup StrayEdits)
    BY <2>3, <2>4, <1>3
  <2>6. acked' = acked \cup ({<<q.book, q.field>>} \cap LibraryEdits)
    BY <1>7, <1>q DEF WriteRows
  <2>7. rows' \in [BookNames -> SUBSET (LibraryEdits \cup StrayEdits)]
    BY <2>5, <1>6
  <2>8. acked' \subseteq LibraryEdits
    BY <2>4, <2>6, <1>3
  <2> QED
    BY <1>0, <1>1, <1>7, <1>q, <2>3, <2>6, <2>7, <2>8 DEF Names
<1>8. CASE q.op = "delete"
  <2>1. ChangedRows(q) = [rows EXCEPT ![q.name] = {}]
    BY <1>8, <1>2 DEF ChangedRows
  <2>2. \A n \in BookNames : ChangedRows(q)[n] = IF n = q.name THEN {} ELSE rows[n]
    BY <2>1, <1>1, <1>3
  <2>3. \A n \in BookNames : rows'[n] = IF n = q.name THEN {} ELSE rows[n]
    BY <2>2, <1>5
  <2>5. \A n \in BookNames : rows'[n] \in SUBSET (LibraryEdits \cup StrayEdits)
    BY <2>3, <1>3
  <2>6. acked' = {e \in acked : e[1] # q.book}
    BY <1>8, <1>q DEF WriteRows
  <2>7. rows' \in [BookNames -> SUBSET (LibraryEdits \cup StrayEdits)]
    BY <2>5, <1>6
  <2>8. acked' \subseteq LibraryEdits
    BY <2>6, <1>3
  <2> QED
    BY <1>0, <1>1, <1>8, <1>q, <2>3, <2>6, <2>7, <2>8 DEF Names
<1>9. CASE q.op = "rename"
  <2>1. ChangedRows(q) = IF rows[q.name] = {} THEN rows ELSE [rows EXCEPT ![q.new] = rows[q.name], ![q.name] = {}]
    BY <1>9, <1>2 DEF ChangedRows
  <2>2. \A n \in BookNames : ChangedRows(q)[n] =
           IF rows[q.name] = {} THEN rows[n]
           ELSE IF n = q.name THEN {} ELSE IF n = q.new THEN rows[q.name] ELSE rows[n]
    BY <2>1, <1>1, <1>3
  <2>3. \A n \in BookNames : rows'[n] =
           IF rows[q.name] = {} THEN rows[n]
           ELSE IF n = q.name THEN {} ELSE IF n = q.new THEN rows[q.name] ELSE rows[n]
    BY <2>2, <1>5
  <2>5. \A n \in BookNames : rows'[n] \in SUBSET (LibraryEdits \cup StrayEdits)
    BY <2>3, <1>1, <1>3
  <2>6. acked' = acked
    BY <1>9, <1>q DEF WriteRows
  <2>7. rows' \in [BookNames -> SUBSET (LibraryEdits \cup StrayEdits)]
    BY <2>5, <1>6
  <2>9. rows'[q.name] = {}
    BY <2>3, <1>1
  <2>10. /\ rows[q.name] = {} => rows'[q.new] = rows[q.new]
         /\ rows[q.name] # {} => rows'[q.new] = rows[q.name]
    BY <2>3, <1>1, <1>9
  <2>11. \A n \in BookNames : n # q.name /\ n # q.new => rows'[n] = rows[n]
    BY <2>3
  <2> QED
    BY <1>0, <1>3, <1>9, <1>q, <2>6, <2>7, <2>9, <2>10, <2>11 DEF Names
<1> QED
  BY <1>1, <1>7, <1>8, <1>9

\* A request that writes the rows and leaves the lock.
LEMMA WriteStep == ASSUME LibraryInv, NEW h \in Handlers, WriteRows(h) PROVE LibraryInv'
<1>q. PICK q : q = request[h]
  OBVIOUS
<1>0. Active(h) /\ q.at = "write" /\ request[h].at # "rest"
  BY <1>q, WriteEffects
<1>1. parts' = parts /\ crossed' = crossed /\ requests' = requests /\ libraryFaults' = libraryFaults
      /\ request' = [request EXCEPT ![h] = AtRest]
  BY DEF WriteRows, Sets
<1>2. Continues(h, AtRest)
  BY <1>1, RestFits DEF Continues
<1>3. metaLock = h /\ metaLock' = NoOne
  <2>1. metaLock = h
    BY <1>0, <1>q DEF LibraryInv, LockedRows
  <2> QED
    BY <2>1 DEF WriteRows
<1>4. ~Active(h)' /\ ~Mover(h)' /\ ~Renamer(h)'
  <2>1. ~Active(h)'
    BY <1>0, <1>2, ServedAfter, RestFits
  <2> QED
    BY <2>1 DEF Mover, Renamer
<1>5. \A k \in Handlers : k # h => request'[k] = request[k] /\ (Active(k)' <=> Active(k)) /\ (Mover(k)' <=> Mover(k)) /\ (Renamer(k)' <=> Renamer(k))
  BY <1>0, <1>2, ServedAfter, Zenon
<1>6. q.name \in BookNames /\ q.new \in BookNames /\ q.book \in LibraryBook \cup {NoOne} /\ q.op \in {"edit", "delete", "rename"}
      /\ (q.op # "edit" => LeftToDo(q) = {})
  <2>1. q.name \in BookNames /\ q.new \in BookNames /\ q.book \in LibraryBook \cup {NoOne} /\ q.op \in {"edit", "delete", "rename"}
        /\ (q.op # "edit" => q.todo = <<>>)
    BY <1>0, <1>q, ServedFits
  <2> QED
    BY <2>1, NoParts DEF LeftToDo
<1>b. PICK b : b = q.book
  OBVIOUS
<1>7. Free(b) => HasOwn(q, b)
  BY <1>0, <1>q, <1>b, OwnIsHad DEF LibraryInv, OwnBooksFit

\* A free book that is renamed has all its parts under the new name.
<1>8. ASSUME Free(b), q.op = "rename"
      PROVE  /\ \A p \in FileKinds : OnlyAt(p, b, q.new)
             /\ Images[q.new] = b /\ EditsOf(b) \subseteq rows[q.name]
  <2>1. /\ \A p \in FileKinds :
            /\ OnlyAt(p, b, IF p \in MovedOn(q) THEN q.new ELSE q.name)
            /\ p \notin MovedOn(q) => Nowhere(p, b)
        /\ Images[IF "images" \in MovedOn(q) THEN q.new ELSE q.name] = b
        /\ EditsOf(b) \subseteq rows[q.name]
    <3>1. q.at # "back"
      BY <1>0
    <3>2. LeftToDo(q) = {}
      BY <1>6, <1>8
    <3> QED
      BY <1>7, <1>8, <3>1, <3>2 DEF HasOwn
  <2>2. "images" \in MovedOn(q)
    BY <2>1, <1>6 DEF Nowhere, Images, FileKinds
  <2>3. \A p \in FileKinds : OnlyAt(p, b, q.new)
    BY <2>1 DEF OnlyAt, Nowhere
  <2> QED
    BY <2>1, <2>2, <2>3
<1>9. ASSUME Free(b), q.op = "delete" PROVE \A p \in FileKinds : Nowhere(p, b)
  BY <1>6, <1>7, <1>9 DEF HasOwn
<1>10. ASSUME Free(b), q.op = "edit" PROVE Images[q.name] = b
  BY <1>7, <1>10 DEF HasOwn
<1>e. /\ \A x \in BookNames : x \notin Names(q) => rows'[x] = rows[x]
      /\ q.op = "edit" => rows'[q.name] = rows[q.name] \cup {<<b, q.field>>} /\ acked' = acked \cup ({<<b, q.field>>} \cap LibraryEdits)
      /\ q.op = "delete" => rows'[q.name] = {} /\ acked' = {e \in acked : e[1] # b}
      /\ q.op = "rename" =>
            /\ rows'[q.name] = {} /\ acked' = acked
            /\ rows[q.name] = {} => rows'[q.new] = rows[q.new]
            /\ rows[q.name] # {} => rows'[q.new] = rows[q.name]
  BY <1>q, <1>b, WriteEffects
<1>11. \A c : c # b => EditsOf(c)' = EditsOf(c)
  BY <1>6, <1>e DEF EditsOf
<1>12. /\ OnePlace' /\ MetAreCrossed' /\ HaveImages' /\ NameIsOwn' /\ OneRequestEach'
       /\ \A k \in Handlers : k # h => TakenFits(k)' /\ MovedFits(k)'
  BY <1>0, <1>1, <1>2, PartsStand
<1>13. \A k \in Handlers : k # h /\ Active(k)' /\ Free(request[k].book)' => OwnFits(k)'
  <2> SUFFICES ASSUME NEW k \in Handlers, k # h, Active(k)', Free(request[k].book)' PROVE OwnFits(k)'
    OBVIOUS
  <2>r. PICK r : r = request[k]
    OBVIOUS
  <2>c. PICK c : c = r.book
    OBVIOUS
  <2>1. Active(k) /\ request'[k] = r /\ Free(c) /\ Free(request[k].book)
    BY <1>1, <1>5, <2>r, <2>c DEF Free
  <2>2. HasOwn(r, c)
    BY <2>1, <2>r, <2>c, OwnIsHad DEF LibraryInv, OwnBooksFit
  <2>3. ASSUME r.op = "rename" PROVE EditsOf(c)' = EditsOf(c) /\ rows'[r.name] = rows[r.name]
    <3>1. c # b
      BY <1>0, <1>q, <1>b, <2>1, <2>r, <2>c, <2>3 DEF LibraryInv, OneRequestEach
    <3>2. r.name \notin Names(q)
      <4>1. Mover(k)
        BY <2>1, <2>3, <2>r DEF Mover
      <4>2. r.name \in Names(r)
        BY <2>3 DEF Names
      <4> QED
        BY <1>0, <1>q, <2>1, <2>r, <2>c, <4>1, <4>2, MetHaveCrossed, BooksAreSome DEF Free
    <3>3. r.name \in BookNames
      BY <2>1, <2>r, ServedFits
    <3> QED
      BY <1>e, <1>11, <3>1, <3>2, <3>3
  <2>4. HasOwn(r, c)'
    BY <1>1, <2>2, <2>3 DEF HasOwn, OnlyAt, Nowhere, Images
  <2> QED
    BY <2>1, <2>c, <2>4, OwnIsHadNext
<1>14. Together'
  <2> SUFFICES ASSUME NEW c \in LibraryBook \ crossed', \A k \in Handlers : Renamer(k)' => request'[k].book # c,
                      NEW p \in FileKinds, NEW n \in BookNames, NEW x \in BookNames, parts'[p][n] = c, Images'[x] = c
               PROVE  n = x
    BY DEF Together
  <2>1. c \in LibraryBook \ crossed /\ parts[p][n] = c /\ Images[x] = c /\ Free(c)
    BY <1>1 DEF Images, Free
  <2>2. CASE c = b /\ q.op = "rename"
    <3>1. OnlyAt(p, c, q.new) /\ OnlyAt("images", c, q.new)
      BY <1>8, <2>1, <2>2 DEF FileKinds
    <3> QED
      BY <2>1, <3>1 DEF OnlyAt, Images
  <2>3. CASE ~(c = b /\ q.op = "rename")
    <3>1. \A k \in Handlers : Renamer(k) => request[k].book # c
      BY <1>5, <1>q, <1>b, <2>3 DEF Renamer
    <3> QED
      BY <2>1, <3>1 DEF LibraryInv, Together
  <2> QED
    BY <2>2, <2>3
<1>15. Printed'
  <2>1. CASE Unprinted
    BY <1>1, <2>1 DEF Printed, Unprinted, Pdfs
  <2>2. CASE ~Unprinted
    <3> SUFFICES ASSUME NEW c \in LibraryBook \ crossed', Nowhere("pdf", c)', ~Nowhere("images", c)'
                 PROVE  \E k \in Handlers : Active(k)' /\ request'[k].op = "delete" /\ request'[k].book = c /\ "pdf" \notin LeftToDo(request'[k])
      BY DEF Printed
    <3>0. c \in LibraryBook \ crossed /\ Nowhere("pdf", c) /\ ~Nowhere("images", c)
      BY <1>1 DEF Nowhere
    <3>1. PICK k \in Handlers : Active(k) /\ request[k].op = "delete" /\ request[k].book = c /\ "pdf" \notin LeftToDo(request[k])
      BY <2>2, <3>0 DEF LibraryInv, Printed
    <3>2. k # h
      BY <1>9, <1>q, <1>b, <3>0, <3>1 DEF Free, FileKinds
    <3> QED
      BY <3>1, <3>2, <1>5
  <2> QED
    BY <2>1, <2>2
<1>16. RowsFollow'
  <2> SUFFICES ASSUME NEW c \in LibraryBook \ crossed', NEW x \in BookNames, Images'[x] = c
               PROVE  \/ EditsOf(c)' \subseteq rows'[x]
                      \/ \E k \in Handlers : Renamer(k)' /\ request'[k].book = c /\ request'[k].new = x
    BY DEF RowsFollow
  <2>0. c \in LibraryBook \ crossed /\ Images[x] = c /\ Free(c) /\ c # NoOne
    BY <1>1, BooksAreSome DEF Images, Free
  <2>1. \/ EditsOf(c) \subseteq rows[x]
        \/ \E k \in Handlers : Renamer(k) /\ request[k].book = c /\ request[k].new = x
    BY <2>0 DEF LibraryInv, RowsFollow
  <2>2. CASE c # b
    <3>1. rows[x] \subseteq rows'[x]
      <4>1. CASE q.op = "edit"
        BY <1>e, <4>1 DEF Names
      <4>2. CASE q.op # "edit"
        <5>1. Mover(h) /\ request[h].name = q.name /\ request[h].book = b
          BY <1>0, <1>q, <1>b, <4>2 DEF Mover
        <5>2. x # q.name
          BY <2>0, <2>2, <5>1 DEF LibraryInv, NameIsOwn, Free
        <5>3. q.op = "rename" => x # q.new
          <6> SUFFICES ASSUME q.op = "rename", x = q.new PROVE FALSE
            OBVIOUS
          <6>1. Renamer(h) /\ TakenFits(h)
            BY <1>0, <1>q DEF LibraryInv, TakenNamesBlock, Renamer
          <6> QED
            BY <1>0, <1>q, <1>b, <2>0, <2>2, <6>1 DEF TakenFits
        <5> QED
          BY <1>e, <5>2, <5>3 DEF Names
      <4> QED
        BY <4>1, <4>2
    <3>2. ASSUME NEW k \in Handlers, Renamer(k), request[k].book = c, request[k].new = x
          PROVE  Renamer(k)' /\ request'[k].book = c /\ request'[k].new = x
      BY <1>5, <1>q, <1>b, <2>2, <3>2
    <3> QED
      BY <1>11, <2>1, <2>2, <3>1, <3>2
  <2>3. CASE c = b
    <3>1. CASE q.op = "edit"
      <4>1. x = q.name
        <5>1. Images[q.name] = c
          BY <1>10, <2>0, <2>3, <3>1
        <5>2. "images" \in FileKinds
          BY DEF FileKinds
        <5> QED
          BY <1>6, <2>0, <5>1, <5>2 DEF LibraryInv, OnePlace, Images
      <4>2. ASSUME NEW k \in Handlers, Renamer(k), request[k].book = c PROVE FALSE
        <5>1. k # h /\ Active(k) /\ request[k].op # "edit"
          BY <1>q, <3>1, <4>2 DEF Renamer
        <5> QED
          BY <1>0, <1>q, <1>b, <2>0, <2>3, <4>2, <5>1 DEF LibraryInv, OneRequestEach
      <4>3. EditsOf(c)' \subseteq EditsOf(c) \cup {<<b, q.field>>}
        BY <1>e, <3>1 DEF EditsOf
      <4> QED
        BY <1>e, <2>1, <3>1, <4>1, <4>2, <4>3
    <3>2. CASE q.op = "delete"
      BY <1>9, <2>0, <2>3, <3>2 DEF Nowhere, Images, FileKinds
    <3>3. CASE q.op = "rename"
      <4>1. x = q.new
        <5>1. OnlyAt("images", c, q.new)
          BY <1>8, <2>0, <2>3, <3>3 DEF FileKinds
        <5> QED
          BY <2>0, <5>1 DEF OnlyAt, Images
      <4>2. EditsOf(c)' = EditsOf(c) /\ EditsOf(c) \subseteq rows[q.name]
        BY <1>8, <1>e, <2>0, <2>3, <3>3 DEF EditsOf
      <4> QED
        BY <1>e, <3>3, <4>1, <4>2
    <3> QED
      BY <1>6, <3>1, <3>2, <3>3
  <2> QED
    BY <2>2, <2>3
<1>17. RowsBelong'
  <2> SUFFICES ASSUME crossed' = {}
               PROVE  /\ \A n \in BookNames : (\A k \in Handlers : Mover(k)' => n \notin Names(request[k])')
                           => \A e \in OwnEdits(rows'[n]) : e[1] = Images'[n]
                      /\ \A k \in Handlers : Mover(k)' => \A e \in OwnEdits(rows'[request'[k].name]) : e[1] = request'[k].book
                      /\ \A k \in Handlers : Renamer(k)' =>
                           \A e \in OwnEdits(rows'[request'[k].new]) : e[1] = Images'[request'[k].new] /\ e[1] # request'[k].book
    BY DEF RowsBelong
  <2>0. RowsBelong /\ crossed = {} /\ (b # NoOne => Free(b)) /\ Images' = Images
    BY <1>1, <1>6, <1>b DEF LibraryInv, Free, Images
  <2>1. \A n \in BookNames : (\A k \in Handlers : Mover(k)' => n \notin Names(request[k])')
                           => \A e \in OwnEdits(rows'[n]) : e[1] = Images'[n]
    <3> SUFFICES ASSUME NEW n \in BookNames, \A k \in Handlers : Mover(k)' => n \notin Names(request[k])', NEW e \in OwnEdits(rows'[n])
                 PROVE  e[1] = Images[n]
      BY <2>0
    <3>0. e \in rows'[n] /\ e[1] # NoOne
      BY DEF OwnEdits
    <3>1. \A k \in Handlers : k # h /\ Mover(k) => n \notin Names(request[k])
      BY <1>5 DEF Names
    <3>2. CASE n \notin Names(q)
      BY <1>e, <1>q, <2>0, <3>1, <3>2 DEF RowsBelong
    <3>3. CASE n = q.name /\ q.op = "edit"
      <4>1. \A k \in Handlers : Mover(k) => n \notin Names(request[k])
        BY <1>q, <3>1, <3>3 DEF Mover
      <4>2. \A f \in OwnEdits(rows[n]) : f[1] = Images[n]
        BY <2>0, <4>1 DEF RowsBelong
      <4>3. e \in OwnEdits(rows[n]) \/ e = <<b, q.field>>
        BY <1>e, <3>0, <3>3 DEF OwnEdits
      <4>4. b # NoOne => Images[n] = b
        BY <1>10, <2>0, <3>3
      <4>5. <<b, q.field>>[1] = b
        OBVIOUS
      <4> QED
        BY <3>0, <4>2, <4>3, <4>4, <4>5
    <3>4. CASE n = q.name /\ q.op # "edit"
      BY <1>6, <1>e, <3>0, <3>4
    <3>5. CASE n = q.new /\ q.op = "rename"
      <4>1. Mover(h) /\ Renamer(h)
        BY <1>0, <1>q, <3>5 DEF Mover, Renamer
      <4>2. (\A f \in OwnEdits(rows[q.name]) : f[1] = b) /\ (\A f \in OwnEdits(rows[q.new]) : f[1] = Images[q.new])
        BY <1>q, <1>b, <2>0, <4>1 DEF RowsBelong
      <4>3. b # NoOne => Images[n] = b
        BY <1>8, <2>0, <3>5
      <4>4. e \in OwnEdits(rows[q.name]) \/ e \in OwnEdits(rows[q.new])
        BY <1>e, <3>0, <3>5 DEF OwnEdits
      <4> QED
        BY <3>0, <3>5, <4>2, <4>3, <4>4
    <3> QED
      BY <1>6, <3>2, <3>3, <3>4, <3>5 DEF Names
  <2>2. ASSUME NEW k \in Handlers, Mover(k)'
        PROVE  /\ k # h /\ Mover(k) /\ request'[k] = request[k]
               /\ \A x \in Names(request[k]) : OwnEdits(rows'[x]) \subseteq OwnEdits(rows[x])
    <3>1. k # h /\ Mover(k) /\ request'[k] = request[k]
      BY <1>4, <1>5, <2>2
    <3>2. \A x \in Names(request[k]) : x \in BookNames
      BY <3>1, ServedFits DEF Mover, Names
    <3>3. CASE \A x \in Names(request[k]) : x \notin Names(request[h])
      BY <1>e, <1>q, <3>1, <3>2, <3>3
    \* Requests that met without a book.
    <3>4. CASE \E x \in Names(request[k]) : x \in Names(request[h])
      <4>1. b = NoOne
        BY <1>0, <1>q, <1>b, <2>0, <3>1, <3>4, MetHaveCrossed DEF Mover
      <4>2. \A x \in BookNames : x \notin Names(q) => rows'[x] = rows[x]
        BY <1>e
      <4>3. CASE q.op = "edit"
        BY <1>e, <3>1, <3>2, <4>1, <4>2, <4>3 DEF Names, OwnEdits
      <4>4. CASE q.op = "delete"
        BY <1>e, <3>1, <3>2, <4>2, <4>4 DEF Names, OwnEdits
      <4>5. CASE q.op = "rename"
        <5>1. Mover(h)
          BY <1>0, <1>q, <4>5 DEF Mover
        <5>2. OwnEdits(rows[q.name]) = {}
          BY <1>q, <1>b, <2>0, <4>1, <5>1 DEF RowsBelong, OwnEdits
        <5>3. OwnEdits(rows'[q.name]) = {} /\ OwnEdits(rows'[q.new]) \subseteq OwnEdits(rows[q.new])
          BY <1>e, <4>5, <5>2 DEF OwnEdits
        <5> QED
          BY <3>1, <3>2, <4>2, <4>5, <5>3 DEF Names
      <4> QED
        BY <1>6, <4>3, <4>4, <4>5
    <3> QED
      BY <3>3, <3>4
  <2>3. \A k \in Handlers : Mover(k)' => \A e \in OwnEdits(rows'[request'[k].name]) : e[1] = request'[k].book
    <3> SUFFICES ASSUME NEW k \in Handlers, Mover(k)' PROVE \A e \in OwnEdits(rows'[request'[k].name]) : e[1] = request'[k].book
      OBVIOUS
    <3>1. request[k].name \in Names(request[k])
      BY DEF Names
    <3>2. OwnEdits(rows'[request[k].name]) \subseteq OwnEdits(rows[request[k].name]) /\ request'[k] = request[k] /\ Mover(k)
      BY <2>2, <3>1
    <3> QED
      BY <2>0, <3>2 DEF RowsBelong
  <2>4. \A k \in Handlers : Renamer(k)' =>
           \A e \in OwnEdits(rows'[request'[k].new]) : e[1] = Images'[request'[k].new] /\ e[1] # request'[k].book
    <3> SUFFICES ASSUME NEW k \in Handlers, Renamer(k)'
                 PROVE  \A e \in OwnEdits(rows'[request'[k].new]) : e[1] = Images'[request'[k].new] /\ e[1] # request'[k].book
      OBVIOUS
    <3>0. k # h /\ Renamer(k) /\ Mover(k)'
      <4>1. k # h
        BY <1>4
      <4>2. Renamer(k)
        BY <1>5, <4>1
      <4> QED
        BY <1>5, <4>1, <4>2 DEF Renamer, Mover
    <3>1. request[k].new \in Names(request[k])
      BY <3>0 DEF Names, Renamer
    <3>2. OwnEdits(rows'[request[k].new]) \subseteq OwnEdits(rows[request[k].new]) /\ request'[k] = request[k]
      BY <2>2, <3>0, <3>1
    <3> QED
      BY <2>0, <3>0, <3>2 DEF RowsBelong
  <2> QED
    BY <2>1, <2>3, <2>4
<1>18. LockedRows'
  <2> SUFFICES ASSUME NEW k \in Handlers, request'[k].at = "write" PROVE FALSE
    BY DEF LockedRows
  <2>1. k # h
    <3>1. request'[h] = AtRest
      BY <1>0, <1>2, ServedAfter
    <3> QED
      BY <3>1, RestFits
  <2>2. metaLock = k
    BY <1>5, <2>1 DEF LibraryInv, LockedRows
  <2> QED
    BY <1>3, <2>1, <2>2
<1>19. LibraryBasics'
  <2>1. rows' \in [BookNames -> SUBSET (LibraryEdits \cup StrayEdits)] /\ acked' \subseteq LibraryEdits
    BY WriteEffects
  <2>2. parts' \in [FileKinds -> [BookNames -> {NoOne} \cup LibraryBook]] /\ crossed' \subseteq LibraryBook /\ libraryFaults' \in 0 .. MaxLibraryFaults
    BY <1>1, TypesNow
  <2> QED
    BY <1>0, <1>1, <1>2, <1>3, <2>1, <2>2, BasicsKept
<1> QED
  BY <1>0, <1>2, <1>4, <1>12, <1>13, <1>14, <1>15, <1>16, <1>17, <1>18, <1>19, Gathered

\* The server dies: the books that were moved just then have crossed.
LEMMA DiesStep == ASSUME LibraryInv, ServerDies PROVE LibraryInv'
<1>1. parts' = parts /\ rows' = rows /\ acked' = acked /\ requests' = requests /\ metaLock' = NoOne
      /\ DOMAIN request' = Handlers /\ (\A h \in Handlers : request'[h] = AtRest)
  BY DEF ServerDies
<1>2. libraryFaults' \in 0 .. MaxLibraryFaults
  BY TypesNow, LibraryAssumption DEF ServerDies, Breaks
<1>3. \A h \in Handlers : ~Active(h)' /\ ~Mover(h)' /\ ~Renamer(h)' /\ request'[h].at # "write"
  BY <1>1, RestFits DEF Active, Mover, Renamer
<1>4. crossed \subseteq crossed'
  BY TypesNow, BooksAreSome DEF ServerDies
<1>5. crossed' \subseteq LibraryBook
  <2>1. \A n \in BookNames : BookAt(n) \in {NoOne} \cup LibraryBook
    BY TypesNow DEF BookAt, FileKinds
  <2>2. ASSUME NEW k \in Handlers, Active(k) PROVE request[k].book \in LibraryBook \cup {NoOne} /\ Names(request[k]) \subseteq BookNames
    BY <2>2, ServedFits DEF Names
  <2>3. ASSUME NEW x \in Concerned({request[h] : h \in {k \in Handlers : Active(k) /\ request[k].op # "edit"}})
        PROVE  x \in {NoOne} \cup LibraryBook
    BY <2>1, <2>2, <2>3 DEF Concerned
  <2> QED
    BY <2>3, TypesNow DEF ServerDies
<1>6. \A h \in Handlers : Mover(h) => request[h].book \in crossed' \cup {NoOne}
                                        /\ \A n \in Names(request[h]) : BookAt(n) \in crossed' \cup {NoOne}
  <2> SUFFICES ASSUME NEW h \in Handlers, Mover(h)
               PROVE  /\ request[h].book \in crossed' \cup {NoOne}
                      /\ \A n \in Names(request[h]) : BookAt(n) \in crossed' \cup {NoOne}
    OBVIOUS
  <2>1. request[h] \in {request[g] : g \in {k \in Handlers : Active(k) /\ request[k].op # "edit"}}
    BY DEF Mover
  <2>2. /\ request[h].book \in Concerned({request[g] : g \in {k \in Handlers : Active(k) /\ request[k].op # "edit"}})
        /\ \A n \in Names(request[h]) :
              BookAt(n) \in Concerned({request[g] : g \in {k \in Handlers : Active(k) /\ request[k].op # "edit"}})
    BY <2>1 DEF Concerned
  <2> QED
    BY <2>2 DEF ServerDies
<1>7. \A h \in Handlers : Renamer(h) => Mover(h)
  BY DEF Renamer, Mover
<1>8. OnePlace' /\ HaveImages'
  <2>1. OnePlace'
    BY <1>1 DEF LibraryInv, OnePlace
  <2>2. HaveImages'
    BY <1>1, <1>4 DEF LibraryInv, HaveImages, Nowhere
  <2> QED
    BY <2>1, <2>2
<1>9. MetAreCrossed' /\ NameIsOwn' /\ OwnBooksFit' /\ OneRequestEach' /\ TakenNamesBlock' /\ MovedIsOwn' /\ LockedRows'
  BY <1>3 DEF MetAreCrossed, Meeting, NameIsOwn, OwnBooksFit, OneRequestEach, TakenNamesBlock, TakenFits, MovedIsOwn, MovedFits, LockedRows
<1>10. Together'
  <2> SUFFICES ASSUME NEW b \in LibraryBook \ crossed',
                      NEW p \in FileKinds, NEW n \in BookNames, NEW x \in BookNames, parts[p][n] = b, Images[x] = b
               PROVE  n = x
    BY <1>1 DEF Together, Images
  <2>1. b \in LibraryBook \ crossed /\ \A h \in Handlers : Renamer(h) => request[h].book # b
    BY <1>4, <1>6, <1>7, BooksAreSome
  <2> QED
    BY <2>1 DEF LibraryInv, Together
<1>11. Printed'
  <2>1. CASE Unprinted
    BY <1>1, <2>1 DEF Printed, Unprinted, Pdfs
  <2>2. CASE ~Unprinted
    <3> SUFFICES ASSUME NEW b \in LibraryBook \ crossed', Nowhere("pdf", b), ~Nowhere("images", b) PROVE FALSE
      BY <1>1 DEF Printed, Nowhere
    <3>1. PICK k \in Handlers : Active(k) /\ request[k].op = "delete" /\ request[k].book = b
      BY <1>4, <2>2 DEF LibraryInv, Printed
    <3>2. Mover(k)
      BY <3>1 DEF Mover
    <3> QED
      BY <1>6, <3>1, <3>2, BooksAreSome
  <2> QED
    BY <2>1, <2>2
<1>12. RowsFollow'
  <2> SUFFICES ASSUME NEW b \in LibraryBook \ crossed', NEW x \in BookNames, Images[x] = b
               PROVE  EditsOf(b) \subseteq rows[x]
    BY <1>1 DEF RowsFollow, Images, EditsOf
  <2>1. b \in LibraryBook \ crossed /\ \A h \in Handlers : Renamer(h) => request[h].book # b
    BY <1>4, <1>6, <1>7, BooksAreSome
  <2> QED
    BY <2>1 DEF LibraryInv, RowsFollow
<1>13. RowsBelong'
  <2> SUFFICES ASSUME crossed' = {}, NEW n \in BookNames, NEW e \in OwnEdits(rows[n]) PROVE e[1] = Images[n]
    BY <1>1, <1>3 DEF RowsBelong, Images
  <2>0. crossed = {} /\ RowsBelong /\ e[1] # NoOne
    BY <1>4 DEF LibraryInv, OwnEdits
  <2>1. CASE \A h \in Handlers : Mover(h) => n \notin Names(request[h])
    BY <2>0, <2>1 DEF RowsBelong
  <2>2. CASE \E h \in Handlers : Mover(h) /\ n \in Names(request[h])
    <3>1. PICK h \in Handlers : Mover(h) /\ n \in Names(request[h])
      BY <2>2
    <3>2. request[h].book = NoOne
      BY <1>6, <3>1
    <3>3. n # request[h].name
      BY <2>0, <3>1, <3>2 DEF RowsBelong
    <3>4. Renamer(h) /\ n = request[h].new
      BY <3>1, <3>3 DEF Names, Mover, Renamer
    <3> QED
      BY <2>0, <3>4 DEF RowsBelong
  <2> QED
    BY <2>1, <2>2
<1>14. LibraryBasics'
  <2>1. requests \in 0 .. MaxRequests
    BY DEF LibraryInv, LibraryBasics
  <2>2. \A h \in Handlers : RequestFits(request'[h])
    BY <1>1, RestFits
  <2> QED
    BY <1>1, <1>2, <1>5, <2>1, <2>2, TypesNow DEF LibraryBasics
<1> QED
  BY <1>8, <1>9, <1>10, <1>11, <1>12, <1>13, <1>14 DEF LibraryInv
-----------------------------------------------------------------------------
\* At first every book has its parts under its own name.
LEMMA LibraryInvInit == LibraryInit => LibraryInv
<1> SUFFICES ASSUME LibraryInit PROVE LibraryInv
  OBVIOUS
<1>1. PICK printed \in BOOLEAN :
          parts = [p \in {"pdf", "cover", "images"} |->
                    [n \in BookNames |-> IF n \in LibraryBook /\ (p = "pdf" => printed) THEN n ELSE NoOne]]
  BY DEF LibraryInit
<1>2. /\ rows = [n \in BookNames |-> {}] /\ metaLock = NoOne
      /\ acked = {} /\ crossed = {} /\ requests = 0 /\ libraryFaults = 0
      /\ DOMAIN request = Handlers /\ \A h \in Handlers : request[h] = AtRest
  BY DEF LibraryInit
<1>3. \A h \in Handlers : ~Active(h) /\ ~Mover(h) /\ ~Renamer(h) /\ request[h].at # "write"
  BY <1>2, RestFits DEF Active, Mover, Renamer
<1>4. \A p \in FileKinds, n \in BookNames : parts[p][n] = IF n \in LibraryBook /\ (p = "pdf" => printed) THEN n ELSE NoOne
  BY <1>1 DEF FileKinds
<1>5. \A n \in BookNames : Images[n] = IF n \in LibraryBook THEN n ELSE NoOne
  BY <1>4 DEF Images, FileKinds
<1>6. LibraryBook \subseteq BookNames
  BY LibraryAssumption DEF LibraryBook
<1>7. LibraryBasics
  <2>1. parts \in [FileKinds -> [BookNames -> {NoOne} \cup LibraryBook]]
    BY <1>1 DEF FileKinds
  <2>2. rows \in [BookNames -> SUBSET (LibraryEdits \cup StrayEdits)]
    BY <1>2
  <2>3. \A h \in Handlers : RequestFits(request[h])
    BY <1>2, RestFits
  <2>4. requests \in 0 .. MaxRequests /\ libraryFaults \in 0 .. MaxLibraryFaults
    BY <1>2, LibraryAssumption
  <2> QED
    BY <1>2, <2>1, <2>2, <2>3, <2>4 DEF LibraryBasics
<1>8. OnePlace
  BY <1>4, BooksAreSome DEF OnePlace
<1>9. HaveImages
  BY <1>5, <1>6 DEF HaveImages, Nowhere, Images
<1>10. Together
  BY <1>4, <1>5, BooksAreSome DEF Together
<1>11. Printed
  <2>1. CASE printed
    <3>1. \A b \in LibraryBook : ~Nowhere("pdf", b)
      BY <1>4, <1>6, <2>1 DEF Nowhere, FileKinds
    <3> QED
      BY <3>1 DEF Printed
  <2>2. CASE ~printed
    BY <1>4, <2>2 DEF Printed, Unprinted, Pdfs, FileKinds
  <2> QED
    BY <2>1, <2>2
<1>12. RowsFollow /\ RowsBelong
  BY <1>2, <1>3 DEF RowsFollow, RowsBelong, EditsOf, OwnEdits
<1>13. MetAreCrossed /\ NameIsOwn /\ OwnBooksFit /\ OneRequestEach /\ TakenNamesBlock /\ MovedIsOwn /\ LockedRows
  BY <1>3 DEF MetAreCrossed, Meeting, NameIsOwn, OwnBooksFit, OneRequestEach, TakenNamesBlock, TakenFits, MovedIsOwn, MovedFits, LockedRows
<1> QED
  BY <1>7, <1>8, <1>9, <1>10, <1>11, <1>12, <1>13 DEF LibraryInv

\* Every step keeps the books and their rows.
LEMMA LibraryInvStep == LibraryInv /\ [LibraryNext]_libraryVars => LibraryInv'
<1> SUFFICES ASSUME LibraryInv, [LibraryNext]_libraryVars PROVE LibraryInv'
  OBVIOUS
<1>1. CASE UNCHANGED libraryVars
  <2>1. parts' = parts /\ rows' = rows /\ metaLock' = metaLock /\ request' = request /\ acked' = acked
        /\ crossed' = crossed /\ requests' = requests /\ libraryFaults' = libraryFaults
    BY <1>1 DEF libraryVars
  <2>2. \A h \in Handlers : (Active(h)' <=> Active(h)) /\ (Mover(h)' <=> Mover(h)) /\ (Renamer(h)' <=> Renamer(h))
    BY <2>1 DEF Active, Mover, Renamer
  <2>3. OnePlace' /\ HaveImages' /\ LockedRows'
    BY <2>1 DEF LibraryInv, OnePlace, HaveImages, LockedRows, Nowhere
  <2>8. LibraryBasics'
    BY <2>1, Zenon DEF LibraryInv, LibraryBasics
  <2>4. Together' /\ NameIsOwn' /\ OneRequestEach'
    BY <2>1, <2>2 DEF LibraryInv, Together, NameIsOwn, OneRequestEach, Free, Images
  <2>9. MetAreCrossed'
    <3>1. \A h, k \in Handlers : Meeting(h, k)' <=> Meeting(h, k)
      BY <2>1, <2>2, Zenon DEF Meeting, Names
    <3>2. \A h \in Handlers : Names(request[h])' = Names(request[h])
      BY <2>1 DEF Names
    <3> QED
      BY <2>1, <3>1, <3>2 DEF LibraryInv, MetAreCrossed, Images
  <2>5. OwnBooksFit'
    BY <2>1, <2>2 DEF LibraryInv, OwnBooksFit, OwnFits, OnlyAt, Nowhere, EditsOf, Free, Images
  <2>6. TakenNamesBlock' /\ MovedIsOwn' /\ Printed'
    BY <2>1, <2>2 DEF LibraryInv, TakenNamesBlock, TakenFits, MovedIsOwn, MovedFits, Printed, Unprinted, Nowhere, Free, Images, Pdfs
  <2>7. RowsFollow' /\ RowsBelong'
    BY <2>1, <2>2 DEF LibraryInv, RowsFollow, RowsBelong, EditsOf, Images, Names
  <2> QED
    BY <2>3, <2>4, <2>5, <2>6, <2>7, <2>8, <2>9 DEF LibraryInv
<1>2. CASE ServerDies
  BY <1>2, DiesStep
<1>3. ASSUME NEW h \in Handlers, AskEdit(h) PROVE LibraryInv'
  <2>1. PICK n \in BookNames, f \in Fields : Ask(h, Asked("edit", "lock", n, n, f))
    BY <1>3 DEF AskEdit
  <2> QED
    BY <2>1, AskStep
<1>4. ASSUME NEW h \in Handlers, AskDelete(h) PROVE LibraryInv'
  <2>1. PICK n \in BookNames : Ask(h, Asked("delete", "check", n, n, "none"))
    BY <1>4 DEF AskDelete
  <2> QED
    BY <2>1, AskStep
<1>5. ASSUME NEW h \in Handlers, AskRename(h) PROVE LibraryInv'
  <2>1. PICK n \in BookNames, m \in BookNames : n # m /\ Ask(h, Asked("rename", "check", n, m, "none"))
    BY <1>5 DEF AskRename
  <2> QED
    BY <2>1, AskStep
<1>6. ASSUME NEW h \in Handlers, RenamePart(h) PROVE LibraryInv'
  BY <1>6, SkipStep, RenameStep
<1>7. ASSUME NEW h \in Handlers, RollBack(h) PROVE LibraryInv'
  BY <1>7, BackEnds, BackStep
<1>8. ASSUME NEW h \in Handlers, DeletePart(h) PROVE LibraryInv'
  <2>1. RemovesPart(h) \/ KeepsPart(h)
    BY <1>8 DEF DeletePart, RemovesPart, KeepsPart, Sets
  <2> QED
    BY <2>1, RemoveStep, KeepStep
<1> QED
  BY <1>1, <1>2, <1>3, <1>4, <1>5, <1>6, <1>7, <1>8, LookStep, FailStep, ReadStep, WriteStep DEF LibraryNext

\* What holds of the books in every state.
LEMMA LibraryAt == LibraryInv => LibraryAgrees /\ LibraryTypeOK
<1> SUFFICES ASSUME LibraryInv PROVE LibraryAgrees /\ LibraryTypeOK
  OBVIOUS
<1>0. DOMAIN parts = FileKinds /\ "images" \in FileKinds /\ "pdf" \in FileKinds
  BY TypesNow DEF FileKinds
<1>1. ASSUME NEW b \in Settled
      PROVE  b \in LibraryBook \ crossed /\ b # NoOne /\ \A h \in Handlers : Renamer(h) => request[h].book # b
  <2>1. b \in LibraryBook \ crossed /\ ~Moving(b)
    BY DEF Settled
  <2>2. ASSUME NEW h \in Handlers, Renamer(h), request[h].book = b PROVE FALSE
    <3>1. b \in Concerned({request[h]})
      BY <2>2 DEF Concerned
    <3>2. Moving(b)
      BY <2>2, <3>1 DEF Moving, Renamer
    <3> QED
      BY <2>1, <3>2
  <2> QED
    BY <2>1, <2>2, BooksAreSome
<1>2. FilesStayTogether
  <2> SUFFICES ASSUME NEW b \in Settled, NEW p \in FileKinds, NEW q \in FileKinds, NEW n \in BookNames, NEW m \in BookNames,
                      parts[p][n] = b, parts[q][m] = b
               PROVE  n = m
    BY <1>0 DEF FilesStayTogether
  <2>1. \E x \in BookNames : Images[x] = b
    BY <1>1 DEF LibraryInv, HaveImages, Nowhere, Images
  <2> QED
    BY <1>1, <2>1 DEF LibraryInv, Together
<1>3. \A n \in BookNames : BookAt(n) \in LibraryBook \ crossed /\ (\A h \in Handlers : Renamer(h) => request[h].book # BookAt(n)) => Images[n] = BookAt(n)
  <2> SUFFICES ASSUME NEW n \in BookNames, BookAt(n) \in LibraryBook \ crossed,
                      \A h \in Handlers : Renamer(h) => request[h].book # BookAt(n), Images[n] = NoOne
               PROVE  FALSE
    BY DEF BookAt, Images
  <2>1. parts["pdf"][n] = BookAt(n)
    BY DEF BookAt, Images
  <2>2. \E x \in BookNames : Images[x] = BookAt(n)
    BY <1>0, <2>1 DEF LibraryInv, HaveImages, Nowhere, Images
  <2> QED
    BY <1>0, <2>1, <2>2, BooksAreSome DEF LibraryInv, Together
<1>4. EditsAreKept
  <2> SUFFICES ASSUME NEW b \in Settled, NEW n \in BookNames, BookAt(n) = b PROVE {e \in acked : e[1] = b} \subseteq rows[n]
    BY DEF EditsAreKept
  <2>1. Images[n] = b
    BY <1>1, <1>3
  <2> QED
    BY <1>1, <2>1 DEF LibraryInv, RowsFollow, EditsOf
<1>5. RowsAreOwn
  <2> SUFFICES ASSUME crossed = {}, NEW n \in BookNames, \A h \in Handlers : Active(h) => n \notin Names(request[h]), NEW e \in rows[n]
               PROVE  e[1] = BookAt(n) \/ e \in StrayEdits
    BY DEF RowsAreOwn
  <2>1. e \in OwnEdits(rows[n]) => e[1] = Images[n]
    BY DEF LibraryInv, RowsBelong, Mover
  <2>2. e \in LibraryEdits \cup StrayEdits
    BY TypesNow
  <2>3. e \in LibraryEdits => e[1] # NoOne
    BY BooksAreSome DEF LibraryEdits
  <2> QED
    BY <2>1, <2>2, <2>3 DEF BookAt, Images, OwnEdits
<1>6. LibraryTypeOK
  <2>1. ASSUME NEW h \in Handlers PROVE request[h].at \in {"rest", "check", "files", "back", "lock", "write"}
    <3>1. CASE Active(h)
      BY <3>1, ServedFits
    <3>2. CASE ~Active(h)
      BY <3>2, RestFits DEF Active
    <3> QED
      BY <3>1, <3>2
  <2>2. requests \in 0 .. MaxRequests
    BY DEF LibraryInv, LibraryBasics
  <2> QED
    BY <2>1, <2>2, TypesNow DEF LibraryTypeOK, FileKinds
<1> QED
  BY <1>2, <1>4, <1>5, <1>6 DEF LibraryAgrees

\* Whatever overlaps, fails or breaks off elsewhere, the parts of a book stay
\* together under one name and its row keeps every confirmed edit
\* (file_manager.py, meta_store.py, routers/library.py).
THEOREM LibraryIsKept == LibrarySpec => []LibraryAgrees
<1>1. LibrarySpec => []LibraryInv
  BY LibraryInvInit, LibraryInvStep, PTL DEF LibrarySpec
<1> QED
  BY <1>1, LibraryAt, PTL

-----------------------------------------------------------------------------
\* A function on 1 .. n is a sequence.
LEMMA AsSequence == ASSUME NEW S, NEW n \in Nat, NEW s \in [1 .. n -> S] PROVE s \in Seq(S) /\ Len(s) = n /\ (n = 0 <=> s = <<>>)
<1>1. s \in Seq(S) /\ Len(s) = n
  OBVIOUS
<1>2. n = 0 => s = <<>>
  BY <1>1, EmptySeq
<1>3. s = <<>> => n = 0
  BY <1>1, EmptySeq
<1> QED
  BY <1>1, <1>2, <1>3

\* The natural order of the file names is a strict total one.
LEMMA NamesAreOrdered ==
    /\ \A n \in FileNames : ~Sorts(n, n)
    /\ \A m, n \in FileNames : m # n => Sorts(m, n) \/ Sorts(n, m)
    /\ \A k, m, n \in FileNames : Sorts(k, m) /\ Sorts(m, n) => Sorts(k, n)
<1>1. \A n \in FileNames : n[1] \in Int /\ n[2] \in Int /\ n = <<n[1], n[2]>>
  BY DEF FileNames, BookPages
<1>2. \A m, n \in FileNames : m[1] = n[1] /\ m[2] = n[2] => m = n
  BY <1>1, Zenon
<1>3. ASSUME NEW m \in FileNames, NEW n \in FileNames, m # n PROVE Sorts(m, n) \/ Sorts(n, m)
  <2>1. m[1] # n[1] \/ m[2] # n[2]
    BY <1>2, <1>3
  <2> QED
    BY <1>1, <2>1 DEF Sorts
<1> QED
  BY <1>1, <1>3 DEF Sorts

\* There are finitely many file names.
LEMMA NamesAreFinite ==
    /\ IsFiniteSet(FileNames)
    /\ \A S \in SUBSET FileNames : IsFiniteSet(S) /\ Cardinality(S) \in Nat
<1>1. IsFiniteSet(1 .. 3) /\ IsFiniteSet(BookPages)
  <2>1. 1 \in Int /\ 3 \in Int /\ PageCount \in Int
    BY PageAssumption
  <2> QED
    BY <2>1, FS_Interval, Zenon DEF BookPages
<1>2. IsFiniteSet(FileNames)
  BY <1>1, FS_Product DEF FileNames
<1> QED
  BY <1>2, FS_Subset, FS_CardinalityType

\* The sorted sequence of a set of names has each of them once, in their order.
LEMMA SortedIs ==
    ASSUME NEW S \in SUBSET FileNames
    PROVE  LET l == Natsorted(S) IN
           /\ l \in [1 .. Cardinality(S) -> S]
           /\ \A i, k \in 1 .. Cardinality(S) : i < k => Sorts(l[i], l[k])
           /\ \A i, k \in 1 .. Cardinality(S) : l[i] = l[k] => i = k
           /\ \A n \in S : \E i \in 1 .. Cardinality(S) : l[i] = n
<1> DEFINE N == Cardinality(S)
           Before(n) == {m \in S : Sorts(m, n)}
           rank == [n \in S |-> 1 + Cardinality(Before(n))]
<1>0. IsFiniteSet(S) /\ N \in Nat /\ IsFiniteSet(1 .. N) /\ Cardinality(1 .. N) = N
  BY NamesAreFinite, FS_Interval
<1>1. ASSUME NEW n \in S PROVE IsFiniteSet(Before(n)) /\ Cardinality(Before(n)) \in 0 .. N - 1
  <2>1. n \notin Before(n)
    BY NamesAreOrdered
  <2>2. IsFiniteSet(S \ {n}) /\ Cardinality(S \ {n}) = N - 1
    BY <1>0, FS_RemoveElement
  <2>3. Before(n) \in SUBSET (S \ {n})
    BY <2>1
  <2>4. IsFiniteSet(Before(n)) /\ Cardinality(Before(n)) <= N - 1
    BY <2>2, <2>3, FS_Subset
  <2>5. Cardinality(Before(n)) \in Nat
    BY <2>4, FS_CardinalityType
  <2> QED
    BY <1>0, <2>4, <2>5
<1>2. rank \in [S -> 1 .. N]
  <2>1. \A n \in S : Cardinality(Before(n)) \in 0 .. N - 1
    BY <1>1
  <2> HIDE DEF Before
  <2>2. \A n \in S : 1 + Cardinality(Before(n)) \in 1 .. N
    BY <1>0, <2>1
  <2> QED
    BY <2>2
<1>3. ASSUME NEW m \in S, NEW n \in S, Sorts(m, n) PROVE rank[m] < rank[n]
  <2>1. Before(m) \in SUBSET (Before(n) \ {m})
    BY <1>3, NamesAreOrdered
  <2>2. IsFiniteSet(Before(n) \ {m}) /\ Cardinality(Before(n) \ {m}) = Cardinality(Before(n)) - 1
    BY <1>1, <1>3, FS_RemoveElement
  <2>3. Cardinality(Before(m)) <= Cardinality(Before(n)) - 1
    BY <2>1, <2>2, FS_Subset
  <2> QED
    BY <1>1, <2>3
<1>4. \A m, n \in S : rank[m] = rank[n] => m = n
  <2> SUFFICES ASSUME NEW m \in S, NEW n \in S, rank[m] = rank[n], m # n PROVE FALSE
    OBVIOUS
  <2>1. Sorts(m, n) \/ Sorts(n, m)
    BY NamesAreOrdered
  <2>2. rank[m] \in Int /\ rank[n] \in Int
    BY <1>2
  <2> HIDE DEF rank
  <2> QED
    BY <1>3, <2>1, <2>2
<1> HIDE DEF rank, Before
<1>5. rank \in Surjection(S, 1 .. N)
  <2>1. rank \in Injection(S, 1 .. N)
    BY <1>2, <1>4, Fun_IsInj DEF Injection, IsInjective
  <2> QED
    BY <1>0, <2>1, FS_Injection
<1>6. \A i \in 1 .. N : \E n \in S : rank[n] = i
  BY <1>5 DEF Surjection
<1> DEFINE g == [i \in 1 .. N |-> CHOOSE n \in S : rank[n] = i]
<1>7. \A i \in 1 .. N : g[i] \in S /\ rank[g[i]] = i
  BY <1>6
<1>8. g \in [1 .. N -> S] /\ DOMAIN g = 1 .. N
  BY <1>7
<1> HIDE DEF g
<1>9. \A i, k \in 1 .. N : i # k => g[i] # g[k]
  BY <1>7
<1>10. \A i, k \in 1 .. N : i < k => Sorts(g[i], g[k])
  <2> SUFFICES ASSUME NEW i \in 1 .. N, NEW k \in 1 .. N, i < k, ~Sorts(g[i], g[k]) PROVE FALSE
    OBVIOUS
  <2>1. g[i] # g[k] /\ g[i] \in FileNames /\ g[k] \in FileNames /\ g[i] \in S /\ g[k] \in S
    BY <1>7, <1>9
  <2>2. Sorts(g[k], g[i])
    BY <2>1, NamesAreOrdered
  <2>3. rank[g[k]] < rank[g[i]]
    BY <1>3, <2>1, <2>2
  <2> QED
    BY <1>7, <2>3
<1>11. g \in SetToSeqs(S)
  BY <1>8, <1>9 DEF SetToSeqs
<1> DEFINE P(list) == \A i, k \in DOMAIN list : i < k => Sorts(list[i], list[k])
<1>12. \E list \in SetToSeqs(S) : P(list)
  BY <1>8, <1>10, <1>11
<1> DEFINE l == Natsorted(S)
<1>13. l \in SetToSeqs(S) /\ P(l)
  BY <1>12 DEF Natsorted
<1> HIDE DEF l
<1>14. l \in [1 .. N -> S] /\ \A i, k \in 1 .. N : i # k => l[i] # l[k]
  BY <1>13 DEF SetToSeqs
<1>15. \A i, k \in 1 .. N : l[i] = l[k] => i = k
  BY <1>14
<1>16. l \in Surjection(1 .. N, S)
  <2>1. l \in Injection(1 .. N, S)
    BY <1>14, <1>15, Fun_IsInj DEF Injection, IsInjective
  <2> QED
    BY <1>0, <2>1, FS_Injection
<1>17. \A n \in S : \E i \in 1 .. N : l[i] = n
  BY <1>16 DEF Surjection
<1>18. \A i, k \in 1 .. N : i < k => Sorts(l[i], l[k])
  BY <1>13, <1>14
<1> QED
  BY <1>14, <1>15, <1>17, <1>18 DEF l

\* The sorted sequence of the first n final names.
LEMMA FinalsInOrder ==
    ASSUME NEW n \in 0 .. PageCount
    PROVE  Natsorted({Final(i) : i \in 1 .. n}) = [i \in 1 .. n |-> Final(i)]
<1> DEFINE S == {Final(i) : i \in 1 .. n}
           l == Natsorted(S)
           N == Cardinality(S)
           h == [i \in 1 .. N |-> l[i][2]]
<1>0. n \in Nat /\ S \in SUBSET FileNames
  BY PageAssumption DEF FileNames, BookPages, Final
<1>1. N = n
  <2> DEFINE f == [i \in 1 .. n |-> Final(i)]
  <2>1. f \in [1 .. n -> S] /\ (\A i, k \in 1 .. n : f[i] = f[k] => i = k) /\ (\A x \in S : \E i \in 1 .. n : f[i] = x)
    BY DEF Final
  <2>2. f \in Bijection(1 .. n, S)
    BY <2>1, Fun_IsBij
  <2>3. IsFiniteSet(1 .. n) /\ Cardinality(1 .. n) = n
    BY <1>0, FS_Interval
  <2>4. ExistsBijection(1 .. n, S)
    BY <2>2 DEF ExistsBijection
  <2> QED
    BY <2>3, <2>4, FS_Bijection
<1>2. /\ l \in [1 .. N -> S]
      /\ \A i, k \in 1 .. N : i < k => Sorts(l[i], l[k])
      /\ \A i, k \in 1 .. N : l[i] = l[k] => i = k
      /\ \A x \in S : \E i \in 1 .. N : l[i] = x
  BY <1>0, SortedIs
<1> HIDE DEF l, N
<1>3. \A i \in 1 .. n : \E k \in 1 .. n : l[i] = Final(k)
  BY <1>1, <1>2
<1>4. \A i \in 1 .. n : h[i] \in 1 .. n /\ l[i] = Final(h[i])
  BY <1>1, <1>3 DEF Final
<1>5. \A i, k \in 1 .. n : i < k => h[i] < h[k]
  <2> SUFFICES ASSUME NEW i \in 1 .. n, NEW k \in 1 .. n, i < k PROVE h[i] < h[k]
    OBVIOUS
  <2>1. Sorts(l[i], l[k]) /\ l[i] = Final(h[i]) /\ l[k] = Final(h[k])
    BY <1>1, <1>2, <1>4
  <2> HIDE DEF h
  <2> QED
    BY <2>1 DEF Sorts, Final
<1>6. \A j \in 1 .. n : \E i \in 1 .. n : h[i] = j
  <2> SUFFICES ASSUME NEW j \in 1 .. n PROVE \E i \in 1 .. n : h[i] = j
    OBVIOUS
  <2>1. PICK i \in 1 .. n : l[i] = Final(j)
    BY <1>1, <1>2
  <2>2. Final(h[i]) = Final(j)
    BY <1>4, <2>1
  <2> HIDE DEF h
  <2> QED
    BY <2>2 DEF Final
<1> HIDE DEF h
<1>7. \A i \in 1 .. n : h[i] = i
  <2> DEFINE Off == {i \in 1 .. n : h[i] # i}
  <2> SUFFICES ASSUME Off # {} PROVE FALSE
    OBVIOUS
  <2>1. Off \subseteq Nat
    OBVIOUS
  <2>2. PICK x \in Off : \A y \in Off : ~(<<y, x>> \in OpToRel(<, Nat))
    BY <2>1, NatLessThanWellFounded, WFMin
  <2>3. \A y \in Off : x <= y
    <3> SUFFICES ASSUME NEW y \in Off, ~(x <= y) PROVE FALSE
      OBVIOUS
    <3>1. y < x /\ <<y, x>> \in Nat \X Nat
      BY <2>1
    <3>2. <<y, x>> \in OpToRel(<, Nat)
      BY <3>1 DEF OpToRel
    <3> QED
      BY <2>2, <3>2
  <2>4. x \in 1 .. n /\ h[x] # x /\ \A k \in 1 .. n : k < x => h[k] = k
    <3>1. x \in 1 .. n /\ h[x] # x
      OBVIOUS
    <3>2. ASSUME NEW k \in 1 .. n, k < x PROVE h[k] = k
      BY <2>3, <3>2
    <3> QED
      BY <3>1, <3>2
  <2>5. h[x] \in 1 .. n
    BY <1>4, <2>4
  <2>6. PICK j \in 1 .. n : h[j] = x
    BY <1>6, <2>4
  <2>7. j > x
    BY <2>4, <2>6
  <2>8. h[x] < x
    BY <1>5, <2>4, <2>6, <2>7
  <2>9. h[h[x]] = h[x] /\ h[h[x]] < h[x]
    BY <1>5, <2>4, <2>5, <2>8
  <2> QED
    BY <2>5, <2>9
<1>8. l = [i \in 1 .. n |-> Final(i)]
  BY <1>1, <1>2, <1>4, <1>7
<1> QED
  BY <1>8 DEF l
-----------------------------------------------------------------------------
Temporaries == {Tmp(i) : i \in BookPages}
PageMoves == [from : FileNames, to : FileNames \cup {NoName}]

\* Renames of a reordering that are left: each to another name, and what is under
\* a temporary name is renamed again.
Chain(t) ==
    /\ \A k \in DOMAIN t : t[k].to # NoName
    /\ \A j, k \in DOMAIN t : t[j].to = t[k].to => j = k
    /\ \A k \in DOMAIN t : t[k].to \in Temporaries => \E j \in DOMAIN t : k < j /\ t[j].from = t[k].to

EditFits(d) ==
    /\ d = [op |-> d.op, todo |-> d.todo, wanted |-> d.wanted, alone |-> d.alone]
    /\ d.op \in {"none", "reorder", "delete"} /\ d.todo \in Seq(PageMoves) /\ d.alone \in BOOLEAN
    /\ d.op = "none" => d = NoEdit
    /\ d.op = "delete" => \A k \in DOMAIN d.todo : d.todo[k].to = NoName
    /\ d.op = "reorder" => Chain(d.todo)

PageTyped ==
    /\ files = [n \in DOMAIN files |-> files[n]]
    /\ DOMAIN files \subseteq FileNames /\ Cardinality(DOMAIN files) <= PageCount
    /\ \A n \in DOMAIN files : files[n] \in BookPages
    /\ DOMAIN edit = Editors /\ \A e \in Editors : EditFits(edit[e])
    /\ bookCover \in BookPages \cup {NoCover} /\ deleted \subseteq BookPages /\ tangled \in BOOLEAN
    /\ pageEdits \in 0 .. MaxPageEdits /\ pageBreaks \in 0 .. MaxPageBreaks

Reorders(e) == edit[e].op = "reorder"
OneReorder == ~tangled => \A e, x \in Editors : Reorders(e) /\ Reorders(x) => e = x

\* Nothing is under a name that a rename gives, and what is under a temporary name
\* is renamed.
RoomAhead(t) ==
    /\ \A k \in DOMAIN t : t[k].to \in DOMAIN files => \E j \in DOMAIN t : j < k /\ t[j].from = t[k].to
    /\ \A x \in DOMAIN files \cap Temporaries : \E k \in DOMAIN t : t[k].from = x

PagesStay ==
    ~tangled =>
        /\ PagesKept
        /\ (\A e \in Editors : ~Reorders(e)) => DOMAIN files \cap Temporaries = {}
        /\ \A e \in Editors : Reorders(e) => RoomAhead(edit[e].todo)

InHand(e) == edit[e] # NoEdit
OnItsOwn(e) == InHand(e) /\ edit[e].alone
AloneIsAlone == \A e, x \in Editors : OnItsOwn(e) /\ InHand(x) => x = e
PromisedAtRest == promised # {} => \A e \in Editors : ~InHand(e)

\* The names that are not removed.
Left(t) == DOMAIN files \ {t[k].from : k \in DOMAIN t}

\* A rename that will find nothing, now or after another one that takes its file.
Doomed(t) == \E k \in DOMAIN t : t[k].from \notin DOMAIN files /\ \A j \in DOMAIN t : j < k => t[j].to # t[k].from
Twice(t) ==
    \E k, l \in DOMAIN t :
        k < l /\ t[k].from = t[l].from /\ \A j \in DOMAIN t : k <= j /\ j < l => t[j].to # t[l].from

\* The i-th page of the new order is at place[i], in the first and the second half
\* of the renames.
FirstHalf(t, n, p, place) ==
    /\ Len(t) = 2 * n - p
    /\ \A i \in 1 .. n : i <= p => place[i] = Tmp(i)
    /\ \A i \in 1 .. n : i > p => t[i - p] = [from |-> place[i], to |-> Tmp(i)]
    /\ \A i \in 1 .. n : t[n - p + i] = [from |-> Tmp(i), to |-> Final(i)]
SecondHalf(t, n, p, place) ==
    /\ Len(t) = n - p
    /\ \A i \in 1 .. n : i <= p => place[i] = Final(i)
    /\ \A i \in 1 .. n : i > p => place[i] = Tmp(i) /\ t[i - p] = [from |-> Tmp(i), to |-> Final(i)]
Places(w, n, place) ==
    /\ place \in [1 .. n -> FileNames] /\ \A i, k \in 1 .. n : place[i] = place[k] => i = k
    /\ DOMAIN files = {place[i] : i \in 1 .. n}
    /\ w \in [1 .. n -> BookPages] /\ \A i \in 1 .. n : files[place[i]] = w[i]
OnTrack(t, w) ==
    \E n \in 0 .. PageCount : \E p \in 0 .. n : \E place \in [1 .. n -> FileNames] :
        Places(w, n, place) /\ (FirstHalf(t, n, p, place) \/ SecondHalf(t, n, p, place))

AsWanted ==
    \A e \in Editors : OnItsOwn(e) =>
        /\ edit[e].op = "delete" => edit[e].wanted = PagesOf(Natsorted(Left(edit[e].todo)))
        /\ Reorders(e) => Doomed(edit[e].todo) \/ Twice(edit[e].todo) \/ OnTrack(edit[e].todo, edit[e].wanted)

PageInv == PageTyped /\ OneReorder /\ PagesStay /\ AloneIsAlone /\ PromisedAtRest /\ DoneAsAsked /\ AsWanted
-----------------------------------------------------------------------------
\* The rest of a sequence that is not empty: its length.
LEMMA TailIs ==
    ASSUME NEW S, NEW t \in Seq(S), t # <<>>
    PROVE  /\ Tail(t) \in Seq(S) /\ Len(Tail(t)) = Len(t) - 1 /\ Len(t) \in Nat /\ Len(t) >= 1
           /\ DOMAIN t = 1 .. Len(t) /\ DOMAIN Tail(t) = 1 .. Len(t) - 1
<1>1. Tail(t) \in Seq(S) /\ Len(Tail(t)) = Len(t) - 1
  BY HeadTailProperties
<1>2. Len(t) \in Nat \ {0} /\ DOMAIN t = 1 .. Len(t)
  BY EmptySeq, LenProperties
<1>3. DOMAIN Tail(t) = 1 .. Len(Tail(t))
  BY <1>1, LenProperties
<1> QED
  BY <1>1, <1>2, <1>3

\* The rest of a sequence that is not empty: its elements.
LEMMA TailAt ==
    ASSUME NEW S, NEW t \in Seq(S), t # <<>>
    PROVE  /\ Head(t) = t[1] /\ t[1] \in S /\ 1 \in DOMAIN t
           /\ \A i \in DOMAIN Tail(t) : i \in Int /\ i + 1 \in DOMAIN t /\ Tail(t)[i] = t[i + 1]
           /\ \A i \in DOMAIN t : i \in Int /\ i >= 1 /\ (i # 1 => i - 1 \in DOMAIN Tail(t) /\ Tail(t)[i - 1] = t[i])
<1>1. /\ Len(t) \in Nat /\ Len(t) >= 1 /\ DOMAIN t = 1 .. Len(t)
      /\ DOMAIN Tail(t) = 1 .. Len(t) - 1 /\ Len(Tail(t)) = Len(t) - 1
  BY TailIs
<1>2. \A i \in 1 .. Len(Tail(t)) : Tail(t)[i] = t[i + 1]
  BY HeadTailProperties, Zenon
<1>3. t[1] \in S
  BY <1>1, ElementOfSeq
<1>4. Head(t) = t[1]
  OBVIOUS
<1>5. ASSUME NEW i \in DOMAIN Tail(t) PROVE i \in Int /\ i + 1 \in DOMAIN t /\ Tail(t)[i] = t[i + 1]
  <2>1. i \in Int /\ i + 1 \in DOMAIN t /\ i \in 1 .. Len(Tail(t))
    BY <1>1
  <2> QED
    BY <1>2, <2>1, Zenon
<1>6. ASSUME NEW i \in DOMAIN t, i # 1 PROVE i - 1 \in DOMAIN Tail(t) /\ Tail(t)[i - 1] = t[i]
  <2>1. i - 1 \in DOMAIN Tail(t) /\ (i - 1) + 1 = i
    BY <1>1, <1>6
  <2> QED
    BY <1>5, <2>1
<1> QED
  BY <1>1, <1>3, <1>4, <1>5, <1>6

\* The moves of a request.
LEMMA MovesAre ==
    /\ \A m \in PageMoves : m.from \in FileNames /\ m.to \in FileNames \cup {NoName}
    /\ NoName \notin FileNames /\ Temporaries \subseteq FileNames
    /\ EditFits(NoEdit) /\ NoEdit.op = "none" /\ NoEdit.todo = <<>>
<1>1. NoName \notin FileNames
  BY DEF FileNames, NoName
<1>2. Temporaries \subseteq FileNames
  BY DEF Temporaries, FileNames, Tmp
<1>3. NoEdit = [op |-> NoEdit.op, todo |-> NoEdit.todo, wanted |-> NoEdit.wanted, alone |-> NoEdit.alone]
      /\ NoEdit.op = "none" /\ NoEdit.todo = <<>> /\ NoEdit.alone \in BOOLEAN
  BY DEF NoEdit
<1>4. EditFits(NoEdit)
  <2>1. <<>> \in Seq(PageMoves)
    BY EmptySeq
  <2> QED
    BY <1>3, <2>1 DEF EditFits
<1> QED
  BY <1>1, <1>2, <1>3, <1>4 DEF PageMoves

\* A request in hand is a deletion or a reordering.
LEMMA InHandIs ==
    ASSUME PageTyped, NEW e \in Editors
    PROVE  /\ EditFits(edit[e]) /\ (InHand(e) <=> edit[e].op # "none")
           /\ edit[e].todo # <<>> => InHand(e)
<1>1. EditFits(edit[e])
  BY DEF PageTyped
<1>2. InHand(e) <=> edit[e].op # "none"
  BY <1>1, MovesAre DEF EditFits, InHand
<1> QED
  BY <1>1, <1>2, MovesAre DEF InHand

\* The renames that are left fit after the first one of them.
LEMMA ChainTail ==
    ASSUME NEW t \in Seq(PageMoves), t # <<>>, Chain(t)
    PROVE  Chain(Tail(t))
<1> DEFINE u == Tail(t)
<1>1. /\ \A i \in DOMAIN u : i \in Int /\ i + 1 \in DOMAIN t /\ u[i] = t[i + 1]
      /\ \A i \in DOMAIN t : i \in Int /\ i >= 1 /\ (i # 1 => i - 1 \in DOMAIN u /\ u[i - 1] = t[i])
  BY TailAt
<1>i. \A i \in DOMAIN u : i >= 1
  <2>1. DOMAIN u = 1 .. Len(t) - 1 /\ Len(t) \in Nat
    BY TailIs
  <2> QED
    BY <2>1
<1> HIDE DEF u
<1>2. \A k \in DOMAIN u : u[k].to # NoName
  BY <1>1 DEF Chain
<1>3. \A j, k \in DOMAIN u : u[j].to = u[k].to => j = k
  <2> SUFFICES ASSUME NEW j \in DOMAIN u, NEW k \in DOMAIN u, u[j].to = u[k].to PROVE j = k
    OBVIOUS
  <2>1. j + 1 = k + 1
    BY <1>1 DEF Chain
  <2> QED
    BY <1>1, <2>1
<1>4. ASSUME NEW k \in DOMAIN u, u[k].to \in Temporaries PROVE \E j \in DOMAIN u : k < j /\ u[j].from = u[k].to
  <2>1. PICK j \in DOMAIN t : k + 1 < j /\ t[j].from = t[k + 1].to
    BY <1>1, <1>4 DEF Chain
  <2>2. j - 1 \in DOMAIN u /\ k < j - 1 /\ u[j - 1] = t[j]
    BY <1>1, <1>i, <2>1
  <2> QED
    BY <1>1, <2>1, <2>2
<1> QED
  BY <1>2, <1>3, <1>4 DEF Chain, u

\* The renames of a reordering find room, and go on to.
LEMMA RoomTail ==
    ASSUME NEW t \in Seq(PageMoves), t # <<>>, Chain(t), RoomAhead(t),
           DOMAIN files' = (DOMAIN files \ {t[1].from}) \cup {t[1].to}
    PROVE  t[1].to \notin DOMAIN files /\ RoomAhead(Tail(t))'
<1> DEFINE u == Tail(t)
<1>1. /\ \A i \in DOMAIN u : i \in Int /\ i + 1 \in DOMAIN t /\ u[i] = t[i + 1]
      /\ \A i \in DOMAIN t : i \in Int /\ i >= 1 /\ (i # 1 => i - 1 \in DOMAIN u /\ u[i - 1] = t[i])
      /\ 1 \in DOMAIN t
  BY TailAt
<1>i. \A i \in DOMAIN u : i >= 1
  <2>1. DOMAIN u = 1 .. Len(t) - 1 /\ Len(t) \in Nat
    BY TailIs
  <2> QED
    BY <2>1
<1> HIDE DEF u
<1>2. t[1].to \notin DOMAIN files
  BY <1>1 DEF RoomAhead
<1>3. ASSUME NEW k \in DOMAIN u, u[k].to \in DOMAIN files' PROVE \E j \in DOMAIN u : j < k /\ u[j].from = u[k].to
  <2>1. k + 1 \in DOMAIN t /\ u[k] = t[k + 1] /\ k >= 1
    BY <1>1, <1>i
  <2>2. t[k + 1].to # t[1].to
    BY <1>1, <2>1 DEF Chain
  <2>3. t[k + 1].to \in DOMAIN files /\ t[k + 1].to # t[1].from
    BY <1>3, <2>1, <2>2
  <2>4. PICK j \in DOMAIN t : j < k + 1 /\ t[j].from = t[k + 1].to
    BY <2>1, <2>3 DEF RoomAhead
  <2>5. j # 1 /\ j - 1 < k /\ j - 1 \in DOMAIN u /\ u[j - 1] = t[j]
    BY <1>1, <2>3, <2>4
  <2> QED
    BY <2>1, <2>4, <2>5
<1>4. ASSUME NEW x \in DOMAIN files' \cap Temporaries PROVE \E k \in DOMAIN u : u[k].from = x
  <2>1. CASE x = t[1].to
    <3>1. PICK j \in DOMAIN t : 1 < j /\ t[j].from = x
      BY <1>1, <2>1 DEF Chain
    <3> QED
      BY <1>1, <3>1
  <2>2. CASE x # t[1].to
    <3>1. x \in DOMAIN files /\ x # t[1].from
      BY <2>2
    <3>2. PICK j \in DOMAIN t : t[j].from = x
      BY <3>1 DEF RoomAhead
    <3>3. j # 1
      BY <3>1, <3>2
    <3> QED
      BY <1>1, <3>2, <3>3
  <2> QED
    BY <2>1, <2>2
<1> QED
  BY <1>2, <1>3, <1>4 DEF RoomAhead, u

\* Renames find room also when files went.
LEMMA RoomShrinks ==
    ASSUME NEW t, RoomAhead(t), DOMAIN files' \subseteq DOMAIN files
    PROVE  RoomAhead(t)'
BY DEF RoomAhead

\* A reordering that will fail does.
LEMMA DoomedTail ==
    ASSUME NEW t \in Seq(PageMoves), t # <<>>, Doomed(t) \/ Twice(t), t[1].from \in DOMAIN files,
           DOMAIN files' = (DOMAIN files \ {t[1].from}) \cup {t[1].to}
    PROVE  Doomed(Tail(t))' \/ Twice(Tail(t))
<1> DEFINE u == Tail(t)
<1>1. /\ \A i \in DOMAIN u : i \in Int /\ i + 1 \in DOMAIN t /\ u[i] = t[i + 1]
      /\ \A i \in DOMAIN t : i \in Int /\ i >= 1 /\ (i # 1 => i - 1 \in DOMAIN u /\ u[i - 1] = t[i])
      /\ 1 \in DOMAIN t
  BY TailAt
<1>i. \A i \in DOMAIN u : i >= 1
  <2>1. DOMAIN u = 1 .. Len(t) - 1 /\ Len(t) \in Nat
    BY TailIs
  <2> QED
    BY <2>1
<1> HIDE DEF u
<1>2. CASE Doomed(t)
  <2>1. PICK k \in DOMAIN t : t[k].from \notin DOMAIN files /\ \A j \in DOMAIN t : j < k => t[j].to # t[k].from
    BY <1>2 DEF Doomed
  <2>2. k # 1 /\ k > 1
    BY <1>1, <2>1
  <2>3. k - 1 \in DOMAIN u /\ u[k - 1] = t[k]
    BY <1>1, <2>2
  <2>4. u[k - 1].from \notin DOMAIN files'
    BY <1>1, <2>1, <2>2, <2>3
  <2>5. ASSUME NEW j \in DOMAIN u, j < k - 1 PROVE u[j].to # u[k - 1].from
    <3>1. j + 1 \in DOMAIN t /\ j + 1 < k /\ u[j] = t[j + 1]
      BY <1>1, <2>5
    <3> QED
      BY <2>1, <2>3, <3>1
  <2>6. Doomed(u)'
    BY <2>3, <2>4, <2>5 DEF Doomed
  <2> QED
    BY <2>6 DEF u
<1>3. CASE Twice(t)
  <2>1. PICK k \in DOMAIN t, l \in DOMAIN t :
          k < l /\ t[k].from = t[l].from /\ \A j \in DOMAIN t : k <= j /\ j < l => t[j].to # t[l].from
    BY <1>3 DEF Twice
  <2>2. l # 1 /\ l - 1 \in DOMAIN u /\ u[l - 1] = t[l] /\ k \in Int /\ l \in Int
    BY <1>1, <2>1
  <2>3. ASSUME NEW j \in DOMAIN u, k <= j + 1, j < l - 1 PROVE u[j].to # u[l - 1].from
    <3>1. j + 1 \in DOMAIN t /\ j + 1 < l /\ u[j] = t[j + 1]
      BY <1>1, <2>2, <2>3
    <3> QED
      BY <2>1, <2>2, <2>3, <3>1
  <2>4. CASE k = 1
    <3>1. u[l - 1].from = t[1].from /\ t[1].to # t[l].from
      BY <1>1, <2>1, <2>2, <2>4
    <3>2. u[l - 1].from \notin DOMAIN files'
      BY <2>1, <2>2, <3>1
    <3>3. \A j \in DOMAIN u : j < l - 1 => u[j].to # u[l - 1].from
      BY <1>1, <1>i, <2>3, <2>4
    <3>4. Doomed(u)'
      BY <2>2, <3>2, <3>3 DEF Doomed
    <3> QED
      BY <3>4 DEF u
  <2>5. CASE k # 1
    <3>1. k - 1 \in DOMAIN u /\ u[k - 1] = t[k] /\ k - 1 < l - 1
      BY <1>1, <2>1, <2>5
    <3>2. \A j \in DOMAIN u : k - 1 <= j /\ j < l - 1 => u[j].to # u[l - 1].from
      BY <1>1, <2>2, <2>3
    <3>3. Twice(u)
      BY <2>1, <2>2, <3>1, <3>2 DEF Twice
    <3> QED
      BY <3>3 DEF u
  <2> QED
    BY <2>4, <2>5
<1> QED
  BY <1>2, <1>3
-----------------------------------------------------------------------------
\* One page of the new order is moved to a name that none of the others has.
LEMMA PlacesMove ==
    ASSUME NEW n \in Nat, NEW w, NEW place, Places(w, n, place), NEW q \in 1 .. n, NEW to \in FileNames,
           \A k \in 1 .. n : k # q => place[k] # to,
           DOMAIN files' = (DOMAIN files \ {place[q]}) \cup {to}, files'[to] = files[place[q]],
           \A x \in DOMAIN files' : x # to => files'[x] = files[x],
           NEW new, new = [place EXCEPT ![q] = to]
    PROVE  Places(w, n, new)'
<1>1. /\ place \in [1 .. n -> FileNames] /\ \A i, k \in 1 .. n : place[i] = place[k] => i = k
      /\ DOMAIN files = {place[i] : i \in 1 .. n}
      /\ w \in [1 .. n -> BookPages] /\ \A i \in 1 .. n : files[place[i]] = w[i]
  BY DEF Places
<1>2. new \in [1 .. n -> FileNames] /\ \A i \in 1 .. n : new[i] = IF i = q THEN to ELSE place[i]
  BY <1>1
<1>3. \A i, k \in 1 .. n : new[i] = new[k] => i = k
  BY <1>1, <1>2
<1>4. DOMAIN files' = {new[i] : i \in 1 .. n}
  <2>1. ASSUME NEW x \in DOMAIN files' PROVE \E i \in 1 .. n : x = new[i]
    <3>1. CASE x = to
      BY <1>2, <3>1
    <3>2. CASE x # to
      <4>1. x # place[q] /\ x \in DOMAIN files
        BY <3>2
      <4>2. PICK i \in 1 .. n : x = place[i]
        BY <1>1, <4>1
      <4> QED
        BY <1>2, <4>1, <4>2
    <3> QED
      BY <3>1, <3>2
  <2>2. ASSUME NEW i \in 1 .. n PROVE new[i] \in DOMAIN files'
    <3>1. CASE i = q
      BY <1>2, <3>1
    <3>2. CASE i # q
      <4>1. place[i] \in DOMAIN files /\ place[i] # place[q]
        BY <1>1, <3>2
      <4> QED
        BY <1>2, <3>2, <4>1
    <3> QED
      BY <3>1, <3>2
  <2> QED
    BY <2>1, <2>2
<1>5. ASSUME NEW i \in 1 .. n PROVE files'[new[i]] = w[i]
  <2>1. CASE i = q
    BY <1>1, <1>2, <2>1
  <2>2. CASE i # q
    <3>1. new[i] = place[i] /\ new[i] # to /\ new[i] \in DOMAIN files'
      BY <1>2, <1>4, <2>2
    <3> QED
      BY <1>1, <3>1
  <2> QED
    BY <2>1, <2>2
<1> QED
  BY <1>1, <1>2, <1>3, <1>4, <1>5 DEF Places

\* Names of the three kinds differ.
LEMMA NamesDiffer ==
    /\ \A i, k : Tmp(i) = Tmp(k) => i = k
    /\ \A i, k : Final(i) = Final(k) => i = k
    /\ \A i, k : Tmp(i) # Final(k)
    /\ \A i \in BookPages : Tmp(i) \in FileNames /\ Final(i) \in FileNames /\ Tmp(i) \in Temporaries /\ Final(i) \notin Temporaries
<1>1. \A i \in BookPages : Tmp(i) \in FileNames /\ Final(i) \in FileNames /\ Tmp(i) \in Temporaries
  BY DEF Tmp, Final, FileNames, Temporaries
<1>2. (\A i, k : Tmp(i) = Tmp(k) => i = k) /\ (\A i, k : Final(i) = Final(k) => i = k) /\ (\A i, k : Tmp(i) # Final(k))
  BY DEF Tmp, Final
<1> QED
  BY <1>1, <1>2 DEF Temporaries

\* A rename in the first half goes on, unless a page is under the temporary name
\* it gives: then that page is renamed again and missed afterwards.
LEMMA FirstHalfTail ==
    ASSUME NEW t \in Seq(PageMoves), t # <<>>, NEW w, NEW n \in 0 .. PageCount, NEW p \in 0 .. n, p < n,
           NEW place \in [1 .. n -> FileNames], Places(w, n, place), FirstHalf(t, n, p, place),
           DOMAIN files' = (DOMAIN files \ {t[1].from}) \cup {t[1].to}, files'[t[1].to] = files[t[1].from],
           \A x \in DOMAIN files' : x # t[1].to => files'[x] = files[x]
    PROVE  Twice(Tail(t)) \/ OnTrack(Tail(t), w)'
<1> DEFINE u == Tail(t)
           q == p + 1
<1>0. n \in Nat /\ p \in Nat /\ q \in 1 .. n /\ q > p /\ n <= PageCount /\ PageCount \in Nat
  BY PageAssumption
<1>1. /\ \A i \in DOMAIN u : i \in Int /\ i + 1 \in DOMAIN t /\ u[i] = t[i + 1]
      /\ 1 \in DOMAIN t
  BY TailAt
<1>2. DOMAIN u = 1 .. 2 * n - q /\ Len(u) = 2 * n - q
  <2>1. Len(t) = 2 * n - p
    BY DEF FirstHalf
  <2>2. DOMAIN u = 1 .. Len(t) - 1 /\ Len(u) = Len(t) - 1
    BY TailIs
  <2> QED
    BY <1>0, <2>1, <2>2
<1> HIDE DEF u
<1>3. /\ \A i \in 1 .. n : i <= p => place[i] = Tmp(i)
      /\ \A i \in 1 .. n : i > p => t[i - p] = [from |-> place[i], to |-> Tmp(i)]
      /\ \A i \in 1 .. n : t[n - p + i] = [from |-> Tmp(i), to |-> Final(i)]
  BY DEF FirstHalf
<1>4. t[1].from = place[q] /\ t[1].to = Tmp(q)
  <2>1. t[q - p] = [from |-> place[q], to |-> Tmp(q)]
    BY <1>0, <1>3
  <2>2. q - p = 1
    BY <1>0
  <2> QED
    BY <2>1, <2>2
<1>5. \A i \in 1 .. n : i > q => u[i - q] = t[i - p] /\ i - q \in DOMAIN u
  <2> SUFFICES ASSUME NEW i \in 1 .. n, i > q PROVE u[i - q] = t[i - p] /\ i - q \in DOMAIN u
    OBVIOUS
  <2>1. i - q \in DOMAIN u /\ (i - q) + 1 = i - p
    BY <1>0, <1>2
  <2> QED
    BY <1>1, <2>1
<1>6. \A i \in 1 .. n : u[n - q + i] = t[n - p + i] /\ n - q + i \in DOMAIN u
  <2> SUFFICES ASSUME NEW i \in 1 .. n PROVE u[n - q + i] = t[n - p + i] /\ n - q + i \in DOMAIN u
    OBVIOUS
  <2>1. n - q + i \in DOMAIN u /\ (n - q + i) + 1 = n - p + i
    BY <1>0, <1>2
  <2> QED
    BY <1>1, <2>1
<1>7. \A i \in BookPages : Tmp(i) \in FileNames /\ Final(i) \in FileNames
  BY NamesDiffer
<1>8. q \in BookPages
  BY <1>0 DEF BookPages
<1> HIDE DEF q
<1>9. CASE \E k \in 1 .. n : k # q /\ place[k] = Tmp(q)
  <2>1. PICK k \in 1 .. n : k # q /\ place[k] = Tmp(q)
    BY <1>9
  <2>2. k > q
    <3>1. ~(k <= p)
      BY <1>3, <2>1, NamesDiffer
    <3> QED
      BY <1>0, <2>1, <3>1 DEF q
  <2>3. k - q \in DOMAIN u /\ u[k - q].from = Tmp(q)
    <3>1. u[k - q] = [from |-> place[k], to |-> Tmp(k)] /\ k - q \in DOMAIN u
      <4>1. k > p
        BY <1>0, <2>2
      <4> QED
        BY <1>3, <1>5, <2>2, <4>1
    <3> QED
      BY <2>1, <3>1
  <2>4. n \in DOMAIN u /\ u[n].from = Tmp(q)
    <3>1. u[n - q + q] = [from |-> Tmp(q), to |-> Final(q)] /\ n - q + q \in DOMAIN u
      BY <1>0, <1>3, <1>6
    <3>2. n - q + q = n
      BY <1>0
    <3> QED
      BY <3>1, <3>2
  <2>5. k - q < n
    BY <1>0, <2>2
  <2>6. ASSUME NEW j \in DOMAIN u, k - q <= j, j < n PROVE u[j].to # Tmp(q)
    <3>1. CASE j <= n - q
      <4>1. j + q \in 1 .. n /\ j + q > q /\ (j + q) - q = j /\ j + q > p
        BY <1>0, <1>2, <2>2, <2>6, <3>1
      <4>2. u[j] = [from |-> place[j + q], to |-> Tmp(j + q)]
        <5>1. u[(j + q) - q] = t[(j + q) - p]
          BY <1>5, <4>1
        <5> QED
          BY <1>3, <4>1, <5>1
      <4>3. u[j].to = Tmp(j + q) /\ j + q # q
        BY <1>0, <4>1, <4>2
      <4> QED
        BY <4>3, NamesDiffer
    <3>2. CASE j > n - q
      <4>1. j - (n - q) \in 1 .. n /\ n - q + (j - (n - q)) = j
        BY <1>0, <1>2, <2>6, <3>2
      <4>2. u[j] = [from |-> Tmp(j - (n - q)), to |-> Final(j - (n - q))]
        <5>1. u[n - q + (j - (n - q))] = t[n - p + (j - (n - q))]
          BY <1>6, <4>1
        <5> QED
          BY <1>3, <4>1, <5>1
      <4>3. u[j].to = Final(j - (n - q))
        BY <4>2
      <4> QED
        BY <4>3, NamesDiffer
    <3> QED
      BY <1>0, <1>2, <3>1, <3>2
  <2>7. Twice(u)
    BY <2>3, <2>4, <2>5, <2>6 DEF Twice
  <2> QED
    BY <2>7 DEF u
<1>10. CASE \A k \in 1 .. n : k # q => place[k] # Tmp(q)
  <2> DEFINE new == [place EXCEPT ![q] = Tmp(q)]
  <2>1. Places(w, n, new)'
    BY <1>0, <1>4, <1>7, <1>8, <1>10, PlacesMove
  <2>2. new \in [1 .. n -> FileNames] /\ \A i \in 1 .. n : new[i] = IF i = q THEN Tmp(q) ELSE place[i]
    BY <1>0, <1>7, <1>8
  <2> HIDE DEF new
  <2>3. FirstHalf(u, n, q, new)
    <3>1. \A i \in 1 .. n : i <= q => new[i] = Tmp(i)
      BY <1>0, <1>3, <2>2 DEF q
    <3>2. \A i \in 1 .. n : i > q => u[i - q] = [from |-> new[i], to |-> Tmp(i)]
      <4> SUFFICES ASSUME NEW i \in 1 .. n, i > q PROVE u[i - q] = [from |-> new[i], to |-> Tmp(i)]
        OBVIOUS
      <4>1. i > p /\ new[i] = place[i]
        BY <1>0, <2>2
      <4>2. u[i - q] = t[i - p]
        BY <1>5
      <4>3. t[i - p] = [from |-> place[i], to |-> Tmp(i)]
        BY <1>3, <4>1
      <4> QED
        BY <4>1, <4>2, <4>3
    <3>3. \A i \in 1 .. n : u[n - q + i] = [from |-> Tmp(i), to |-> Final(i)]
      BY <1>3, <1>6
    <3> QED
      BY <1>2, <3>1, <3>2, <3>3 DEF FirstHalf
  <2>4. q \in 0 .. n
    BY <1>0
  <2>5. OnTrack(u, w)'
    BY <2>1, <2>2, <2>3, <2>4 DEF OnTrack
  <2> QED
    BY <2>5 DEF u
<1> QED
  BY <1>9, <1>10

\* So does a rename in the second half.
LEMMA SecondHalfTail ==
    ASSUME NEW t \in Seq(PageMoves), t # <<>>, NEW w, NEW n \in 0 .. PageCount, NEW p \in 0 .. n,
           NEW place \in [1 .. n -> FileNames], Places(w, n, place), SecondHalf(t, n, p, place),
           DOMAIN files' = (DOMAIN files \ {t[1].from}) \cup {t[1].to}, files'[t[1].to] = files[t[1].from],
           \A x \in DOMAIN files' : x # t[1].to => files'[x] = files[x]
    PROVE  OnTrack(Tail(t), w)'
<1> DEFINE u == Tail(t)
           q == p + 1
<1>1. /\ \A i \in DOMAIN u : i \in Int /\ i + 1 \in DOMAIN t /\ u[i] = t[i + 1]
      /\ 1 \in DOMAIN t
  BY TailAt
<1>2. DOMAIN u = 1 .. n - q /\ Len(u) = n - q /\ p < n
  <2>1. Len(t) = n - p
    BY DEF SecondHalf
  <2>2. DOMAIN u = 1 .. Len(t) - 1 /\ Len(u) = Len(t) - 1 /\ Len(t) >= 1
    BY TailIs
  <2> QED
    BY <2>1, <2>2, PageAssumption
<1>0. n \in Nat /\ p \in Nat /\ q \in 1 .. n /\ q > p /\ n <= PageCount /\ PageCount \in Nat
  BY <1>2, PageAssumption
<1> HIDE DEF u
<1>3. /\ \A i \in 1 .. n : i <= p => place[i] = Final(i)
      /\ \A i \in 1 .. n : i > p => place[i] = Tmp(i) /\ t[i - p] = [from |-> Tmp(i), to |-> Final(i)]
  BY DEF SecondHalf
<1>4. t[1].from = place[q] /\ t[1].to = Final(q)
  <2>1. t[q - p] = [from |-> place[q], to |-> Final(q)]
    BY <1>0, <1>3
  <2>2. q - p = 1
    BY <1>0
  <2> QED
    BY <2>1, <2>2
<1>5. \A i \in 1 .. n : i > q => u[i - q] = t[i - p]
  <2> SUFFICES ASSUME NEW i \in 1 .. n, i > q PROVE u[i - q] = t[i - p]
    OBVIOUS
  <2>1. i - q \in DOMAIN u /\ (i - q) + 1 = i - p
    BY <1>0, <1>2
  <2> QED
    BY <1>1, <2>1
<1>7. q \in BookPages /\ Final(q) \in FileNames
  <2>1. q \in BookPages
    BY <1>0 DEF BookPages
  <2> HIDE DEF q
  <2> QED
    BY <2>1, NamesDiffer
<1>8. \A k \in 1 .. n : k # q => place[k] # Final(q)
  <2> SUFFICES ASSUME NEW k \in 1 .. n, k # q, place[k] = Final(q) PROVE FALSE
    OBVIOUS
  <2>1. k > p
    BY <1>0, <1>3, NamesDiffer
  <2>2. place[k] = Tmp(k)
    BY <1>3, <2>1
  <2>3. Tmp(k) = Final(q)
    BY <2>2
  <2> QED
    BY <2>3, NamesDiffer, Zenon
<1> HIDE DEF q
<1> DEFINE new == [place EXCEPT ![q] = Final(q)]
<1>9. Places(w, n, new)'
  BY <1>0, <1>4, <1>7, <1>8, PlacesMove
<1>10. new \in [1 .. n -> FileNames] /\ \A i \in 1 .. n : new[i] = IF i = q THEN Final(q) ELSE place[i]
  BY <1>0, <1>7
<1> HIDE DEF new
<1>11. SecondHalf(u, n, q, new)
  <2>1. \A i \in 1 .. n : i <= q => new[i] = Final(i)
    BY <1>0, <1>3, <1>10 DEF q
  <2>2. \A i \in 1 .. n : i > q => new[i] = Tmp(i) /\ u[i - q] = [from |-> Tmp(i), to |-> Final(i)]
    <3> SUFFICES ASSUME NEW i \in 1 .. n, i > q PROVE new[i] = Tmp(i) /\ u[i - q] = [from |-> Tmp(i), to |-> Final(i)]
      OBVIOUS
    <3>1. i > p /\ new[i] = place[i]
      BY <1>0, <1>10
    <3> QED
      BY <1>3, <1>5, <3>1
  <2> QED
    BY <1>2, <2>1, <2>2 DEF SecondHalf
<1>12. q \in 0 .. n
  BY <1>0
<1>13. OnTrack(u, w)'
  BY <1>9, <1>10, <1>11, <1>12 DEF OnTrack
<1> QED
  BY <1>13 DEF u

\* A reordering that is on its way stays on it or fails.
LEMMA TrackTail ==
    ASSUME NEW t \in Seq(PageMoves), t # <<>>, NEW w, OnTrack(t, w),
           DOMAIN files' = (DOMAIN files \ {t[1].from}) \cup {t[1].to}, files'[t[1].to] = files[t[1].from],
           \A x \in DOMAIN files' : x # t[1].to => files'[x] = files[x]
    PROVE  Twice(Tail(t)) \/ OnTrack(Tail(t), w)'
<1>1. PICK n \in 0 .. PageCount : \E p \in 0 .. n : \E place \in [1 .. n -> FileNames] :
        Places(w, n, place) /\ (FirstHalf(t, n, p, place) \/ SecondHalf(t, n, p, place))
  BY DEF OnTrack
<1>2. PICK p \in 0 .. n : \E place \in [1 .. n -> FileNames] :
        Places(w, n, place) /\ (FirstHalf(t, n, p, place) \/ SecondHalf(t, n, p, place))
  BY <1>1
<1>3. PICK place \in [1 .. n -> FileNames] :
        Places(w, n, place) /\ (FirstHalf(t, n, p, place) \/ SecondHalf(t, n, p, place))
  BY <1>2
<1>n. n \in Nat /\ PageCount \in Nat
  BY PageAssumption
<1>4. CASE FirstHalf(t, n, p, place) /\ p < n
  BY <1>3, <1>4, FirstHalfTail
<1>5. CASE FirstHalf(t, n, p, place) /\ p = n
  <2>1. 0 \in 0 .. n
    BY <1>n
  <2>2. SecondHalf(t, n, 0, place)
    <3>1. Len(t) = n - 0
      BY <1>5, <1>n DEF FirstHalf
    <3>2. \A i \in 1 .. n : place[i] = Tmp(i)
      BY <1>5, <1>n DEF FirstHalf
    <3>3. \A i \in 1 .. n : t[i - 0] = [from |-> Tmp(i), to |-> Final(i)]
      <4> SUFFICES ASSUME NEW i \in 1 .. n PROVE t[i - 0] = [from |-> Tmp(i), to |-> Final(i)]
        OBVIOUS
      <4>1. t[n - p + i] = [from |-> Tmp(i), to |-> Final(i)]
        BY <1>5 DEF FirstHalf
      <4>2. n - p + i = i - 0
        BY <1>5, <1>n
      <4> QED
        BY <4>1, <4>2
    <3>4. \A i \in 1 .. n : i > 0
      BY <1>n
    <3> QED
      BY <3>1, <3>2, <3>3, <3>4 DEF SecondHalf
  <2> QED
    BY <1>3, <2>1, <2>2, SecondHalfTail
<1>6. CASE SecondHalf(t, n, p, place)
  BY <1>3, <1>6, SecondHalfTail
<1> QED
  BY <1>3, <1>4, <1>5, <1>6, <1>n
-----------------------------------------------------------------------------
\* The request that changed a file has one change less to make.
LEMMA TodoElse ==
    ASSUME NEW d, d = [op |-> d.op, todo |-> d.todo, wanted |-> d.wanted, alone |-> d.alone],
           NEW u, NEW r, r = [d EXCEPT !.todo = u]
    PROVE  /\ r = [op |-> r.op, todo |-> r.todo, wanted |-> r.wanted, alone |-> r.alone]
           /\ r.op = d.op /\ r.todo = u /\ r.wanted = d.wanted /\ r.alone = d.alone
<1>1. r = [op |-> d.op, todo |-> u, wanted |-> d.wanted, alone |-> d.alone]
  OBVIOUS
<1>2. r.op = d.op /\ r.todo = u /\ r.wanted = d.wanted /\ r.alone = d.alone
  BY <1>1
<1> QED
  BY <1>1, <1>2

\* What a change by e does to the files and to the request d, whose changes are t.
Changes(e, d, t, r) ==
    /\ EditFits(d) /\ d.op # "none" /\ InHand(e) /\ t \in Seq(PageMoves) /\ t # <<>>
    /\ t[1].from \in DOMAIN files /\ t[1] \in PageMoves
    /\ r.op = d.op /\ r.todo = Tail(t) /\ r.wanted = d.wanted /\ r.alone = d.alone /\ EditFits(r)
    /\ DOMAIN edit' = Editors /\ edit'[e] = r /\ \A x \in Editors : x # e => edit'[x] = edit[x]
    /\ files' = [n \in DOMAIN files' |-> files'[n]]
    /\ t[1].to = NoName =>
        /\ DOMAIN files' = DOMAIN files \ {t[1].from}
        /\ \A n \in DOMAIN files' : files'[n] = files[n]
        /\ deleted' = deleted \cup {files[t[1].from]}
    /\ t[1].to # NoName =>
        /\ DOMAIN files' = (DOMAIN files \ {t[1].from}) \cup {t[1].to}
        /\ files'[t[1].to] = files[t[1].from]
        /\ \A n \in DOMAIN files' : n # t[1].to => files'[n] = files[n]
        /\ deleted' = deleted

\* A change by e, by the values of its request.
LEMMA ChangeIs ==
    ASSUME PageInv, NEW e \in Editors, Change(e), NEW d, d = edit[e], NEW t, t = d.todo, NEW r, r = [d EXCEPT !.todo = Tail(t)]
    PROVE  Changes(e, d, t, r)
<1>1. EditFits(d) /\ DOMAIN edit = Editors
  BY DEF PageInv, PageTyped
<1>2. t \in Seq(PageMoves) /\ t # <<>>
  BY <1>1 DEF EditFits, Change
<1>3. InHand(e) /\ d.op # "none"
  BY <1>2, InHandIs DEF PageInv
<1>4. Head(t) = t[1] /\ t[1] \in PageMoves /\ Tail(t) \in Seq(PageMoves)
  BY <1>2, TailAt, TailIs
<1>5. PICK m : m = t[1]
  OBVIOUS
<1>6. m.from \in DOMAIN files
  BY <1>4, <1>5 DEF Change
<1>7. r.op = d.op /\ r.todo = Tail(t) /\ r.wanted = d.wanted /\ r.alone = d.alone
      /\ r = [op |-> r.op, todo |-> r.todo, wanted |-> r.wanted, alone |-> r.alone]
  BY <1>1, TodoElse DEF EditFits
<1>8. EditFits(r)
  <2>1. d.op = "delete" => \A k \in DOMAIN Tail(t) : Tail(t)[k].to = NoName
    <3>1. \A i \in DOMAIN Tail(t) : i + 1 \in DOMAIN t /\ Tail(t)[i] = t[i + 1]
      BY <1>2, TailAt
    <3>2. d.op = "delete" => \A k \in DOMAIN t : t[k].to = NoName
      BY <1>1 DEF EditFits
    <3> QED
      BY <3>1, <3>2
  <2>2. d.op = "reorder" => Chain(Tail(t))
    BY <1>1, <1>2, ChainTail DEF EditFits
  <2>3. d.op \in {"none", "reorder", "delete"} /\ d.alone \in BOOLEAN
    BY <1>1 DEF EditFits
  <2> QED
    BY <1>3, <1>4, <1>7, <2>1, <2>2, <2>3 DEF EditFits
<1>9. edit' = [edit EXCEPT ![e] = r]
  BY DEF Change
<1>10. DOMAIN edit' = Editors /\ edit'[e] = r /\ \A x \in Editors : x # e => edit'[x] = edit[x]
  BY <1>1, <1>9
<1>11. IF m.to = NoName
       THEN files' = Removed(m.from) /\ deleted' = deleted \cup {files[m.from]}
       ELSE files' = Renamed(m) /\ UNCHANGED deleted
  BY <1>4, <1>5 DEF Change
<1>12. ASSUME m.to = NoName
       PROVE  /\ DOMAIN files' = DOMAIN files \ {m.from} /\ deleted' = deleted \cup {files[m.from]}
              /\ \A n \in DOMAIN files' : files'[n] = files[n]
              /\ files' = [n \in DOMAIN files' |-> files'[n]]
  BY <1>11, <1>12 DEF Removed
<1>13. ASSUME m.to # NoName
       PROVE  /\ DOMAIN files' = (DOMAIN files \ {m.from}) \cup {m.to} /\ deleted' = deleted
              /\ files'[m.to] = files[m.from]
              /\ \A n \in DOMAIN files' : n # m.to => files'[n] = files[n]
              /\ files' = [n \in DOMAIN files' |-> files'[n]]
  BY <1>11, <1>13 DEF Renamed
<1>14. files' = [n \in DOMAIN files' |-> files'[n]]
  BY <1>12, <1>13
<1> QED
  BY <1>1, <1>2, <1>3, <1>4, <1>5, <1>6, <1>7, <1>8, <1>10, <1>12, <1>13, <1>14 DEF Changes

\* The directory has no more files than before.
LEMMA FewFiles ==
    ASSUME PageTyped, NEW a \in DOMAIN files, NEW b \in FileNames
    PROVE  Cardinality((DOMAIN files \ {a}) \cup {b}) <= PageCount /\ Cardinality(DOMAIN files \ {a}) <= PageCount
<1> DEFINE D == DOMAIN files
<1>1. IsFiniteSet(D) /\ Cardinality(D) \in Nat /\ Cardinality(D) <= PageCount
  BY NamesAreFinite DEF PageTyped
<1>2. IsFiniteSet(D \ {a}) /\ Cardinality(D \ {a}) = Cardinality(D) - 1
  BY <1>1, FS_RemoveElement
<1>3. Cardinality((D \ {a}) \cup {b}) = IF b \in D \ {a} THEN Cardinality(D \ {a}) ELSE Cardinality(D \ {a}) + 1
  BY <1>2, FS_AddElement
<1> QED
  BY <1>1, <1>2, <1>3, PageAssumption

\* The changes that are left, by their value.
LEMMA NextTodo ==
    ASSUME NEW x \in Editors, NEW u, NEW w, edit'[x].todo = u
    PROVE  /\ RoomAhead(edit[x].todo)' <=> RoomAhead(u)'
           /\ Left(edit[x].todo)' = Left(u)'
           /\ Doomed(edit[x].todo)' <=> Doomed(u)'
           /\ edit'[x].wanted = w => (OnTrack(edit[x].todo, edit[x].wanted)' <=> OnTrack(u, w)')
<1>1. RoomAhead(edit[x].todo)' <=> RoomAhead(u)'
  BY DEF RoomAhead
<1>2. Left(edit[x].todo)' = Left(u)'
  BY DEF Left
<1>3. Doomed(edit[x].todo)' <=> Doomed(u)'
  BY DEF Doomed
<1>4. ASSUME edit'[x].wanted = w PROVE OnTrack(edit[x].todo, edit[x].wanted)' <=> OnTrack(u, w)'
  BY <1>4 DEF OnTrack, Places
<1> QED
  BY <1>1, <1>2, <1>3, <1>4

\* A rename or a removal keeps the invariant.
LEMMA ChangeStep == ASSUME PageInv, NEW e \in Editors, Change(e) PROVE PageInv'
<1>d. PICK d : d = edit[e]
  OBVIOUS
<1>t. PICK t : t = d.todo
  OBVIOUS
<1>u. PICK u : u = Tail(t)
  OBVIOUS
<1>r. PICK r : r = [d EXCEPT !.todo = Tail(t)]
  OBVIOUS
<1>0. Changes(e, d, t, r)
  BY <1>d, <1>t, <1>r, ChangeIs
<1>1. /\ EditFits(d) /\ d.op # "none" /\ InHand(e) /\ t \in Seq(PageMoves) /\ t # <<>>
      /\ t[1].from \in DOMAIN files /\ t[1] \in PageMoves
      /\ r.op = d.op /\ r.todo = u /\ r.wanted = d.wanted /\ r.alone = d.alone /\ EditFits(r)
      /\ DOMAIN edit' = Editors /\ edit'[e] = r /\ \A x \in Editors : x # e => edit'[x] = edit[x]
      /\ files' = [n \in DOMAIN files' |-> files'[n]]
  BY <1>0, <1>u DEF Changes
<1>2. /\ t[1].to = NoName =>
                /\ DOMAIN files' = DOMAIN files \ {t[1].from}
                /\ \A n \in DOMAIN files' : files'[n] = files[n]
                /\ deleted' = deleted \cup {files[t[1].from]}
      /\ t[1].to # NoName =>
                /\ DOMAIN files' = (DOMAIN files \ {t[1].from}) \cup {t[1].to}
                /\ files'[t[1].to] = files[t[1].from]
                /\ \A n \in DOMAIN files' : n # t[1].to => files'[n] = files[n]
                /\ deleted' = deleted
  BY <1>0 DEF Changes
<1>3. UNCHANGED <<bookCover, promised, tangled, pageEdits, pageBreaks>>
  BY DEF Change
<1>4. t[1].to \in FileNames \cup {NoName} /\ t[1].from \in FileNames /\ NoName \notin FileNames
  BY <1>1, MovesAre
<1>5. PageTyped
  BY DEF PageInv
<1>6. PageTyped'
  <2>1. /\ DOMAIN files' \subseteq FileNames /\ \A n \in DOMAIN files' : files'[n] \in BookPages
        /\ deleted' \subseteq BookPages
    BY <1>1, <1>2, <1>4, <1>5 DEF PageTyped
  <2>2. Cardinality(DOMAIN files') <= PageCount
    BY <1>1, <1>2, <1>4, <1>5, FewFiles
  <2>3. \A x \in Editors : EditFits(edit'[x])
    BY <1>1, <1>5 DEF PageTyped
  <2> QED
    BY <1>1, <1>3, <1>5, <2>1, <2>2, <2>3 DEF PageTyped
<1>7. \A x \in Editors : (InHand(x)' <=> InHand(x)) /\ (OnItsOwn(x)' <=> OnItsOwn(x)) /\ (Reorders(x)' <=> Reorders(x))
  <2> SUFFICES ASSUME NEW x \in Editors
               PROVE  (InHand(x)' <=> InHand(x)) /\ (OnItsOwn(x)' <=> OnItsOwn(x)) /\ (Reorders(x)' <=> Reorders(x))
    OBVIOUS
  <2>1. CASE x = e
    <3>1. r # NoEdit /\ d # NoEdit
      BY <1>1, MovesAre
    <3> QED
      BY <1>1, <1>d, <2>1, <3>1 DEF InHand, OnItsOwn, Reorders
  <2>2. CASE x # e
    BY <1>1, <2>2 DEF InHand, OnItsOwn, Reorders
  <2> QED
    BY <2>1, <2>2
<1>8. OneReorder' /\ AloneIsAlone'
  BY <1>3, <1>7 DEF PageInv, OneReorder, AloneIsAlone
<1>9. promised = {} /\ promised' = {}
  BY <1>1, <1>3 DEF PageInv, PromisedAtRest
<1>10. PromisedAtRest' /\ DoneAsAsked'
  BY <1>9 DEF PromisedAtRest, DoneAsAsked
<1>11. d.op = "delete" => t[1].to = NoName
  <2>1. 1 \in DOMAIN t
    BY <1>1, TailAt
  <2> QED
    BY <1>1, <1>t, <2>1 DEF EditFits
<1>12. d.op = "reorder" => t[1].to # NoName /\ Chain(t)
  <2>1. 1 \in DOMAIN t
    BY <1>1, TailAt
  <2> QED
    BY <1>1, <1>t, <2>1 DEF EditFits, Chain
<1>13. d.op \in {"reorder", "delete"}
  BY <1>1 DEF EditFits
<1>14. PagesStay'
  <2> SUFFICES ASSUME ~tangled
               PROVE  /\ PagesKept'
                      /\ (\A x \in Editors : ~Reorders(x)') => DOMAIN files' \cap Temporaries = {}
                      /\ \A x \in Editors : Reorders(x)' => RoomAhead(edit[x].todo)'
    BY <1>3 DEF PagesStay
  <2>0. /\ PagesKept
        /\ (\A x \in Editors : ~Reorders(x)) => DOMAIN files \cap Temporaries = {}
        /\ \A x \in Editors : Reorders(x) => RoomAhead(edit[x].todo)
    BY DEF PageInv, PagesStay
  <2>1. CASE d.op = "delete"
    <3>0. DOMAIN files' = DOMAIN files \ {t[1].from} /\ (\A n \in DOMAIN files' : files'[n] = files[n])
          /\ deleted' = deleted \cup {files[t[1].from]} /\ DOMAIN files' \subseteq DOMAIN files
      BY <1>2, <1>11, <2>1
    <3>1. PagesKept'
      <4> SUFFICES ASSUME NEW p \in BookPages PROVE p \in deleted' \/ \E n \in DOMAIN files' : files'[n] = p
        BY DEF PagesKept
      <4>1. p \in deleted \/ \E n \in DOMAIN files : files[n] = p
        BY <2>0 DEF PagesKept
      <4> QED
        BY <3>0, <4>1
    <3>2. (\A x \in Editors : ~Reorders(x)') => DOMAIN files' \cap Temporaries = {}
      BY <1>7, <2>0, <3>0
    <3>3. ASSUME NEW x \in Editors, Reorders(x)' PROVE RoomAhead(edit[x].todo)'
      <4>1. x # e /\ edit'[x] = edit[x] /\ Reorders(x)
        <5>1. Reorders(x)
          BY <1>7, <3>3
        <5>2. x # e
          BY <1>d, <2>1, <5>1 DEF Reorders
        <5> QED
          BY <1>1, <5>1, <5>2
      <4>2. PICK v : v = edit[x].todo
        OBVIOUS
      <4>3. RoomAhead(v)
        BY <2>0, <4>1, <4>2
      <4>4. RoomAhead(v)'
        BY <3>0, <4>3, RoomShrinks
      <4>5. edit'[x].todo = v
        BY <4>1, <4>2
      <4> QED
        BY <4>4, <4>5, NextTodo
    <3> QED
      BY <3>1, <3>2, <3>3
  <2>2. CASE d.op = "reorder"
    <3>0. /\ DOMAIN files' = (DOMAIN files \ {t[1].from}) \cup {t[1].to}
          /\ files'[t[1].to] = files[t[1].from]
          /\ \A n \in DOMAIN files' : n # t[1].to => files'[n] = files[n]
          /\ deleted' = deleted /\ Chain(t) /\ Reorders(e)
      BY <1>2, <1>12, <1>d, <2>2 DEF Reorders
    <3>1. RoomAhead(t)
      BY <1>d, <1>t, <2>0, <3>0
    <3>2. t[1].to \notin DOMAIN files /\ RoomAhead(Tail(t))'
      BY <1>1, <3>0, <3>1, RoomTail
    <3>3. RoomAhead(u)'
      BY <1>u, <3>2
    <3>4. PagesKept'
      <4> SUFFICES ASSUME NEW p \in BookPages PROVE p \in deleted' \/ \E n \in DOMAIN files' : files'[n] = p
        BY DEF PagesKept
      <4>1. p \in deleted \/ \E n \in DOMAIN files : files[n] = p
        BY <2>0 DEF PagesKept
      <4>2. ASSUME NEW n \in DOMAIN files, files[n] = p PROVE \E x \in DOMAIN files' : files'[x] = p
        <5>1. CASE n = t[1].from
          BY <3>0, <4>2, <5>1
        <5>2. CASE n # t[1].from
          <6>1. n \in DOMAIN files' /\ n # t[1].to
            BY <3>0, <3>2, <5>2
          <6> QED
            BY <3>0, <4>2, <6>1
        <5> QED
          BY <5>1, <5>2
      <4> QED
        BY <3>0, <4>1, <4>2
    <3>5. ASSUME NEW x \in Editors, Reorders(x)' PROVE RoomAhead(edit[x].todo)'
      <4>1. x = e
        BY <1>7, <3>0, <3>5 DEF PageInv, OneReorder
      <4>2. edit'[x].todo = u
        BY <1>1, <4>1
      <4> QED
        BY <3>3, <4>2, NextTodo
    <3>6. Reorders(e)'
      BY <1>7, <3>0
    <3> QED
      BY <3>4, <3>5, <3>6
  <2> QED
    BY <1>13, <2>1, <2>2
<1>15. AsWanted'
  <2> SUFFICES ASSUME NEW x \in Editors, OnItsOwn(x)'
               PROVE  /\ edit'[x].op = "delete" => edit'[x].wanted = PagesOf(Natsorted(Left(edit[x].todo)))'
                      /\ Reorders(x)' => Doomed(edit[x].todo)' \/ Twice(edit'[x].todo) \/ OnTrack(edit[x].todo, edit[x].wanted)'
    BY DEF AsWanted
  <2>1. x = e /\ OnItsOwn(e) /\ edit'[x] = r
    BY <1>1, <1>7 DEF PageInv, AloneIsAlone
  <2>2. /\ d.op = "delete" => d.wanted = PagesOf(Natsorted(Left(t)))
        /\ d.op = "reorder" => Doomed(t) \/ Twice(t) \/ OnTrack(t, d.wanted)
    BY <1>d, <1>t, <2>1 DEF PageInv, AsWanted, Reorders
  <2>3. ASSUME d.op = "delete" PROVE d.wanted = PagesOf(Natsorted(Left(u)))'
    <3>0. DOMAIN files' = DOMAIN files \ {t[1].from} /\ (\A n \in DOMAIN files' : files'[n] = files[n])
      BY <1>2, <1>11, <2>3
    <3>1. Left(u)' = Left(t)
      <4>1. /\ \A i \in DOMAIN u : i \in Int /\ i + 1 \in DOMAIN t /\ u[i] = t[i + 1]
            /\ \A i \in DOMAIN t : i \in Int /\ i >= 1 /\ (i # 1 => i - 1 \in DOMAIN u /\ u[i - 1] = t[i])
            /\ 1 \in DOMAIN t
        BY <1>1, <1>u, TailAt
      <4>2. {t[k].from : k \in DOMAIN t} = {u[k].from : k \in DOMAIN u} \cup {t[1].from}
        BY <4>1
      <4> QED
        BY <3>0, <4>2 DEF Left
    <3>2. PICK l : l = Natsorted(Left(t))
      OBVIOUS
    <3>3. \A i \in DOMAIN l : l[i] \in DOMAIN files'
      <4>1. Left(t) \in SUBSET FileNames
        BY <1>5 DEF Left, PageTyped
      <4>2. l \in [1 .. Cardinality(Left(t)) -> Left(t)]
        BY <3>2, <4>1, SortedIs
      <4>3. Left(t) \subseteq DOMAIN files'
        BY <3>1 DEF Left
      <4> QED
        BY <4>2, <4>3
    <3>4. PagesOf(l)' = PagesOf(l)
      BY <3>0, <3>3 DEF PagesOf
    <3>5. PagesOf(Natsorted(Left(u)))' = PagesOf(l)'
      BY <3>1, <3>2
    <3>6. PagesOf(Natsorted(Left(t))) = PagesOf(l)
      BY <3>2
    <3> QED
      BY <2>2, <2>3, <3>4, <3>5, <3>6
  <2>4. ASSUME d.op = "reorder" PROVE Doomed(u)' \/ Twice(u) \/ OnTrack(u, d.wanted)'
    <3>0. /\ DOMAIN files' = (DOMAIN files \ {t[1].from}) \cup {t[1].to}
          /\ files'[t[1].to] = files[t[1].from]
          /\ \A n \in DOMAIN files' : n # t[1].to => files'[n] = files[n]
      BY <1>2, <1>12, <2>4
    <3>1. PICK w : w = d.wanted
      OBVIOUS
    <3>2. CASE Doomed(t) \/ Twice(t)
      <4>1. Doomed(Tail(t))' \/ Twice(Tail(t))
        BY <1>1, <3>0, <3>2, DoomedTail
      <4> QED
        BY <1>u, <4>1
    <3>3. CASE OnTrack(t, w)
      <4>1. Twice(Tail(t)) \/ OnTrack(Tail(t), w)'
        BY <1>1, <3>0, <3>3, TrackTail
      <4> QED
        BY <1>u, <3>1, <4>1
    <3> QED
      BY <2>2, <2>4, <3>1, <3>2, <3>3
  <2>5. edit'[x].op = d.op /\ edit'[x].todo = u /\ edit'[x].wanted = d.wanted
    BY <1>1, <2>1
  <2>6. PICK w : w = d.wanted
    OBVIOUS
  <2>7. /\ Left(edit[x].todo)' = Left(u)'
        /\ Doomed(edit[x].todo)' <=> Doomed(u)'
        /\ OnTrack(edit[x].todo, edit[x].wanted)' <=> OnTrack(u, w)'
    BY <2>5, <2>6, NextTodo
  <2>8. PagesOf(Natsorted(Left(edit[x].todo)))' = PagesOf(Natsorted(Left(u)))'
    BY <2>7 DEF PagesOf
  <2> QED
    BY <2>3, <2>4, <2>5, <2>6, <2>7, <2>8 DEF Reorders
<1> QED
  BY <1>6, <1>8, <1>10, <1>14, <1>15 DEF PageInv
-----------------------------------------------------------------------------
\* The list of the pages of the book.
LEMMA PageListIs ==
    ASSUME PageTyped
    PROVE  /\ Cardinality(DOMAIN files) \in 0 .. PageCount
           /\ PageList \in [1 .. Cardinality(DOMAIN files) -> DOMAIN files]
           /\ PageList \in Seq(DOMAIN files) /\ Len(PageList) = Cardinality(DOMAIN files)
           /\ DOMAIN PageList = 1 .. Cardinality(DOMAIN files)
           /\ \A i, k \in 1 .. Cardinality(DOMAIN files) : PageList[i] = PageList[k] => i = k
           /\ \A n \in DOMAIN files : \E i \in 1 .. Cardinality(DOMAIN files) : PageList[i] = n
           /\ PageList = <<>> <=> DOMAIN files = {}
<1> DEFINE D == DOMAIN files
           N == Cardinality(D)
<1>1. D \in SUBSET FileNames /\ IsFiniteSet(D) /\ N \in 0 .. PageCount /\ N \in Nat
  BY NamesAreFinite, PageAssumption DEF PageTyped
<1>2. /\ PageList \in [1 .. N -> D]
      /\ \A i, k \in 1 .. N : PageList[i] = PageList[k] => i = k
      /\ \A n \in D : \E i \in 1 .. N : PageList[i] = n
  BY <1>1, SortedIs DEF PageList
<1>3. PageList \in Seq(D) /\ Len(PageList) = N /\ (N = 0 <=> PageList = <<>>)
  BY <1>1, <1>2, AsSequence
<1>4. N = 0 <=> D = {}
  BY <1>1, FS_EmptySet
<1> QED
  BY <1>1, <1>2, <1>3, <1>4

\* A request ends: the others go on.
LEMMA AtRestAgain ==
    ASSUME PageInv, NEW e \in Editors, InHand(e), edit' = [edit EXCEPT ![e] = NoEdit], files' = files, deleted' = deleted,
           tangled => tangled', tangled' \in BOOLEAN, bookCover' \in BookPages \cup {NoCover},
           pageEdits' = pageEdits, pageBreaks' \in 0 .. MaxPageBreaks,
           ~tangled' /\ Reorders(e) => edit[e].todo = <<>>
    PROVE  /\ PageTyped' /\ OneReorder' /\ PagesStay' /\ AloneIsAlone' /\ AsWanted'
           /\ \A x \in Editors : InHand(x)' => InHand(x) /\ x # e
           /\ OnItsOwn(e) => \A x \in Editors : ~InHand(x)'
<1>1. DOMAIN edit = Editors /\ \A x \in Editors : EditFits(edit[x])
  BY DEF PageInv, PageTyped
<1>2. DOMAIN edit' = Editors /\ edit'[e] = NoEdit /\ \A x \in Editors : x # e => edit'[x] = edit[x]
  BY <1>1
<1>3. PageTyped'
  <2>1. \A x \in Editors : EditFits(edit'[x])
    BY <1>1, <1>2, MovesAre
  <2> QED
    BY <1>2, <2>1 DEF PageInv, PageTyped
<1>4. \A x \in Editors : InHand(x)' => InHand(x) /\ x # e /\ edit'[x] = edit[x]
  BY <1>2 DEF InHand
<1>5. \A x \in Editors : Reorders(x)' => Reorders(x) /\ x # e
  BY <1>2, MovesAre DEF Reorders
<1>6. OneReorder'
  BY <1>5 DEF PageInv, OneReorder
<1>7. AloneIsAlone'
  BY <1>4 DEF PageInv, AloneIsAlone, OnItsOwn
<1>8. AsWanted'
  <2> SUFFICES ASSUME NEW x \in Editors, OnItsOwn(x)' PROVE FALSE
    BY DEF AsWanted
  <2>1. OnItsOwn(x) /\ x # e
    BY <1>4 DEF OnItsOwn
  <2> QED
    BY <2>1 DEF PageInv, AloneIsAlone
<1>9. PagesStay'
  <2> SUFFICES ASSUME ~tangled'
               PROVE  /\ PagesKept'
                      /\ (\A x \in Editors : ~Reorders(x)') => DOMAIN files' \cap Temporaries = {}
                      /\ \A x \in Editors : Reorders(x)' => RoomAhead(edit[x].todo)'
    BY DEF PagesStay
  <2>0. /\ PagesKept
        /\ (\A x \in Editors : ~Reorders(x)) => DOMAIN files \cap Temporaries = {}
        /\ \A x \in Editors : Reorders(x) => RoomAhead(edit[x].todo)
    BY DEF PageInv, PagesStay
  <2>1. PagesKept'
    BY <2>0 DEF PagesKept
  <2>2. ASSUME \A x \in Editors : ~Reorders(x)' PROVE DOMAIN files' \cap Temporaries = {}
    <3>1. CASE Reorders(e)
      <4>1. PICK t : t = edit[e].todo
        OBVIOUS
      <4>2. t = <<>> /\ RoomAhead(t)
        BY <2>0, <3>1, <4>1
      <4> QED
        BY <4>2 DEF RoomAhead
    <3>2. CASE ~Reorders(e)
      <4>1. \A x \in Editors : ~Reorders(x)
        BY <1>2, <2>2, <3>2 DEF Reorders
      <4> QED
        BY <2>0, <4>1
    <3> QED
      BY <3>1, <3>2
  <2>3. ASSUME NEW x \in Editors, Reorders(x)' PROVE RoomAhead(edit[x].todo)'
    <3>1. Reorders(x) /\ edit'[x] = edit[x]
      BY <1>2, <1>5, <2>3
    <3>2. PICK t : t = edit[x].todo
      OBVIOUS
    <3>3. RoomAhead(t) /\ edit'[x].todo = t
      BY <2>0, <3>1, <3>2
    <3>4. RoomAhead(t)'
      BY <3>3, RoomShrinks
    <3> QED
      BY <3>3, <3>4, NextTodo
  <2> QED
    BY <2>1, <2>2, <2>3
<1>10. OnItsOwn(e) => \A x \in Editors : ~InHand(x)'
  BY <1>4 DEF PageInv, AloneIsAlone
<1> QED
  BY <1>3, <1>4, <1>6, <1>7, <1>8, <1>9, <1>10

\* A reordering that made its last rename left the pages as it was asked to.
LEMMA TrackEnds ==
    ASSUME NEW w, OnTrack(<<>>, w)
    PROVE  PagesOf(PageList) = w
<1>1. PICK n \in 0 .. PageCount : \E p \in 0 .. n : \E place \in [1 .. n -> FileNames] :
        Places(w, n, place) /\ (FirstHalf(<<>>, n, p, place) \/ SecondHalf(<<>>, n, p, place))
  BY DEF OnTrack
<1>2. PICK p \in 0 .. n : \E place \in [1 .. n -> FileNames] :
        Places(w, n, place) /\ (FirstHalf(<<>>, n, p, place) \/ SecondHalf(<<>>, n, p, place))
  BY <1>1
<1>3. PICK place \in [1 .. n -> FileNames] :
        Places(w, n, place) /\ (FirstHalf(<<>>, n, p, place) \/ SecondHalf(<<>>, n, p, place))
  BY <1>2
<1>n. n \in Nat /\ PageCount \in Nat /\ Len(<<>>) = 0
  BY PageAssumption
<1>4. \A i \in 1 .. n : place[i] = Final(i)
  <2>1. CASE FirstHalf(<<>>, n, p, place)
    <3>1. 0 = 2 * n - p
      BY <1>n, <2>1 DEF FirstHalf
    <3>2. n = 0
      BY <1>n, <3>1
    <3> QED
      BY <3>2
  <2>2. CASE SecondHalf(<<>>, n, p, place)
    <3>1. 0 = n - p
      BY <1>n, <2>2 DEF SecondHalf
    <3>2. p = n
      BY <1>n, <3>1
    <3> QED
      BY <1>n, <2>2, <3>2 DEF SecondHalf
  <2> QED
    BY <1>3, <2>1, <2>2
<1>5. DOMAIN files = {Final(i) : i \in 1 .. n} /\ w \in [1 .. n -> BookPages] /\ \A i \in 1 .. n : files[Final(i)] = w[i]
  BY <1>3, <1>4 DEF Places
<1>6. PageList = [i \in 1 .. n |-> Final(i)]
  BY <1>5, FinalsInOrder DEF PageList
<1>7. PagesOf(PageList) = [i \in 1 .. n |-> files[Final(i)]]
  BY <1>6 DEF PagesOf
<1> QED
  BY <1>5, <1>7

\* A request that ends as done left the pages as it was asked to.
LEMMA EndStep == ASSUME PageInv, NEW e \in Editors, EndEdit(e) PROVE PageInv'
<1>1. edit' = [edit EXCEPT ![e] = NoEdit] /\ files' = files /\ deleted' = deleted /\ tangled' = tangled
      /\ pageEdits' = pageEdits /\ edit[e].op # "none" /\ edit[e].todo = <<>>
  BY DEF EndEdit
<1>2. PageTyped /\ InHand(e) /\ EditFits(edit[e])
  BY <1>1, InHandIs DEF PageInv
<1> DEFINE N == Cardinality(DOMAIN files)
<1>3. /\ N \in Nat /\ PageList \in [1 .. N -> DOMAIN files] /\ (PageList = <<>> <=> DOMAIN files = {})
      /\ DOMAIN PageList = 1 .. N /\ (PageList = <<>> <=> N = 0)
  <2>1. N \in 0 .. PageCount /\ PageList \in [1 .. N -> DOMAIN files] /\ (PageList = <<>> <=> DOMAIN files = {}) /\ DOMAIN PageList = 1 .. N
    BY <1>2, PageListIs
  <2>2. N \in Nat
    BY <2>1, PageAssumption
  <2> QED
    BY <2>1, <2>2, AsSequence
<1>4. PICK covered \in BOOLEAN :
        /\ IF covered THEN CoverMade ELSE CoverFails \/ NothingToShow
        /\ promised' = IF edit[e].alone THEN {[order |-> edit[e].wanted, covered |-> covered]} ELSE {}
  BY DEF EndEdit
<1>t. tangled \in BOOLEAN /\ pageBreaks \in 0 .. MaxPageBreaks /\ MaxPageBreaks \in Nat
      /\ bookCover \in BookPages \cup {NoCover}
  BY <1>2, PageAssumption DEF PageTyped
<1>c. covered => N # 0 /\ bookCover' = files[PageList[1]] /\ pageBreaks' = pageBreaks
  BY <1>3, <1>4 DEF CoverMade
<1>5. bookCover' \in BookPages \cup {NoCover} /\ pageBreaks' \in 0 .. MaxPageBreaks
  <2>1. CASE covered
    <3>1. PageList[1] \in DOMAIN files
      BY <1>3, <1>c, <2>1
    <3>2. files[PageList[1]] \in BookPages
      BY <1>2, <3>1 DEF PageTyped
    <3> QED
      BY <1>c, <1>t, <2>1, <3>2
  <2>2. CASE ~covered /\ CoverFails
    BY <1>t, <2>2 DEF CoverFails
  <2>3. CASE ~covered /\ NothingToShow
    BY <1>t, <2>3 DEF NothingToShow
  <2> QED
    BY <1>4, <2>1, <2>2, <2>3
<1>7. /\ PageTyped' /\ OneReorder' /\ PagesStay' /\ AloneIsAlone' /\ AsWanted'
      /\ OnItsOwn(e) => \A x \in Editors : ~InHand(x)'
  BY <1>1, <1>2, <1>5, <1>t, AtRestAgain
<1>9. PromisedAtRest'
  BY <1>2, <1>4, <1>7 DEF PromisedAtRest, OnItsOwn
<1>10. DoneAsAsked'
  <2> SUFFICES ASSUME NEW did \in promised'
               PROVE  PagesOf(PageList)' = did.order /\ (did.covered => bookCover' = did.order[1])
    BY DEF DoneAsAsked
  <2>d. edit[e].alone /\ did = [order |-> edit[e].wanted, covered |-> covered]
    BY <1>4
  <2>o. PICK order : order = edit[e].wanted
    OBVIOUS
  <2>1. OnItsOwn(e) /\ order = edit[e].wanted /\ did.order = order /\ did.covered = covered
    BY <1>2, <2>d, <2>o DEF OnItsOwn
  <2>2. PagesOf(PageList) = order
    <3>1. PICK t : t = edit[e].todo
      OBVIOUS
    <3>2. t = <<>>
      BY <1>1, <3>1
    <3>3. CASE edit[e].op = "delete"
      <4>0. edit[e].wanted = PagesOf(Natsorted(Left(edit[e].todo)))
        BY <2>1, <3>3 DEF PageInv, AsWanted
      <4>1. order = PagesOf(Natsorted(Left(t)))
        BY <2>1, <3>1, <4>0, Zenon
      <4>d. DOMAIN t = {}
        BY <3>2
      <4>n. {t[k].from : k \in DOMAIN t} = {}
        BY <4>d
      <4>2. Left(t) = DOMAIN files
        BY <4>n DEF Left
      <4> QED
        BY <4>1, <4>2 DEF PageList
    <3>4. CASE edit[e].op = "reorder"
      <4>1. Doomed(t) \/ Twice(t) \/ OnTrack(t, order)
        BY <2>1, <3>1, <3>4 DEF PageInv, AsWanted, Reorders
      <4>2. ~Doomed(t) /\ ~Twice(t)
        BY <3>2 DEF Doomed, Twice
      <4> QED
        BY <3>2, <4>1, <4>2, TrackEnds
    <3> QED
      BY <1>1, <1>2, <3>3, <3>4 DEF EditFits
  <2>3. PagesOf(PageList)' = PagesOf(PageList)
    BY <1>1 DEF PagesOf, PageList
  <2>4. ASSUME covered PROVE bookCover' = order[1]
    <3>1. order = [i \in 1 .. N |-> files[PageList[i]]]
      BY <1>3, <2>2 DEF PagesOf
    <3>2. 1 \in 1 .. N
      BY <1>3, <1>c, <2>4
    <3> QED
      BY <1>c, <2>4, <3>1, <3>2
  <2> QED
    BY <2>1, <2>2, <2>3, <2>4
<1> QED
  BY <1>7, <1>9, <1>10 DEF PageInv

\* A request that ends where it is.
LEMMA CutOffStep ==
    ASSUME PageInv, NEW e \in Editors, InHand(e), CutOff(e), pageBreaks' \in 0 .. MaxPageBreaks
    PROVE  PageInv'
<1>1. edit' = [edit EXCEPT ![e] = NoEdit] /\ files' = files /\ deleted' = deleted /\ tangled' = (tangled \/ edit[e].op = "reorder")
      /\ pageEdits' = pageEdits /\ bookCover' = bookCover /\ promised' = promised
  BY DEF CutOff
<1>2. tangled \in BOOLEAN /\ bookCover \in BookPages \cup {NoCover}
  BY DEF PageInv, PageTyped
<1>3. (tangled => tangled') /\ tangled' \in BOOLEAN /\ (~tangled' => ~Reorders(e))
  BY <1>1, <1>2 DEF Reorders
<1>4. PageTyped' /\ OneReorder' /\ PagesStay' /\ AloneIsAlone' /\ AsWanted'
  BY <1>1, <1>2, <1>3, AtRestAgain
<1>5. promised = {}
  BY DEF PageInv, PromisedAtRest
<1> QED
  BY <1>1, <1>4, <1>5 DEF PageInv, PromisedAtRest, DoneAsAsked
-----------------------------------------------------------------------------
\* A request that is no longer alone keeps the rest.
LEMMA AloneElse ==
    ASSUME NEW d, EditFits(d), d.op # "none", NEW r, r = [d EXCEPT !.alone = FALSE]
    PROVE  /\ EditFits(r) /\ r.op = d.op /\ r.todo = d.todo /\ r.wanted = d.wanted /\ r.alone = FALSE
           /\ r # NoEdit
<1>0. d = [op |-> d.op, todo |-> d.todo, wanted |-> d.wanted, alone |-> d.alone]
  BY DEF EditFits
<1>1. r = [op |-> d.op, todo |-> d.todo, wanted |-> d.wanted, alone |-> FALSE]
  BY <1>0
<1>2. r.op = d.op /\ r.todo = d.todo /\ r.wanted = d.wanted /\ r.alone = FALSE
  BY <1>1
<1>3. r = [op |-> r.op, todo |-> r.todo, wanted |-> r.wanted, alone |-> r.alone]
  BY <1>1, <1>2
<1>4. EditFits(r)
  <2>1. d.op \in {"none", "reorder", "delete"} /\ d.todo \in Seq(PageMoves)
    BY DEF EditFits
  <2>2. d.op = "delete" => \A k \in DOMAIN d.todo : d.todo[k].to = NoName
    BY DEF EditFits
  <2>3. d.op = "reorder" => Chain(d.todo)
    BY DEF EditFits
  <2>4. r.op \in {"none", "reorder", "delete"} /\ r.todo \in Seq(PageMoves) /\ r.alone \in BOOLEAN /\ r.op # "none"
    BY <1>2, <2>1
  <2>5. r.op = "delete" => \A k \in DOMAIN r.todo : r.todo[k].to = NoName
    BY <1>2, <2>2
  <2>6. r.op = "reorder" => Chain(r.todo)
    BY <1>2, <2>3
  <2> QED
    BY <1>3, <2>4, <2>5, <2>6 DEF EditFits
<1>5. r # NoEdit
  BY <1>2, MovesAre
<1> QED
  BY <1>2, <1>4, <1>5

\* What a request that begins does to the other ones.
Begins(e, r) ==
    /\ edit[e] = NoEdit /\ DOMAIN edit' = Editors /\ edit'[e] = r
    /\ \A x \in Editors : x # e =>
         /\ EditFits(edit'[x])
         /\ edit'[x].op = edit[x].op /\ edit'[x].todo = edit[x].todo
         /\ (edit'[x] # NoEdit <=> edit[x] # NoEdit)
         /\ (edit'[x] # NoEdit => edit'[x].alone = FALSE)
    /\ files' = files /\ bookCover' = bookCover /\ deleted' = deleted /\ pageBreaks' = pageBreaks
    /\ pageEdits' \in 0 .. MaxPageEdits /\ promised' = {}

\* The request that begins.
LEMMA BeginIs ==
    ASSUME PageInv, NEW e \in Editors, NEW op, NEW todo, NEW wanted, BeginEdit(e, op, todo, wanted), NEW a,
           a = (\A other \in Editors \ {e} : edit[other] = NoEdit)
    PROVE  Begins(e, [op |-> op, todo |-> todo, wanted |-> wanted, alone |-> a])
<1>1. DOMAIN edit = Editors /\ \A x \in Editors : EditFits(edit[x])
  BY DEF PageInv, PageTyped
<1>2. /\ edit[e] = NoEdit /\ pageEdits < MaxPageEdits /\ pageEdits' = pageEdits + 1 /\ promised' = {}
      /\ edit' = [x \in Editors |->
                    IF x = e THEN [op |-> op, todo |-> todo, wanted |-> wanted, alone |-> a]
                    ELSE IF edit[x] = NoEdit THEN NoEdit ELSE [edit[x] EXCEPT !.alone = FALSE]]
      /\ files' = files /\ bookCover' = bookCover /\ deleted' = deleted /\ pageBreaks' = pageBreaks
  BY DEF BeginEdit
<1>3. pageEdits' \in 0 .. MaxPageEdits
  <2>1. pageEdits \in 0 .. MaxPageEdits /\ MaxPageEdits \in Nat
    BY PageAssumption DEF PageInv, PageTyped
  <2> QED
    BY <1>2, <2>1
<1>4. ASSUME NEW x \in Editors, x # e
      PROVE  /\ EditFits(edit'[x])
             /\ edit'[x].op = edit[x].op /\ edit'[x].todo = edit[x].todo
             /\ (edit'[x] # NoEdit <=> edit[x] # NoEdit)
             /\ (edit'[x] # NoEdit => edit'[x].alone = FALSE)
  <2>1. CASE edit[x] = NoEdit
    BY <1>1, <1>2, <1>4, <2>1
  <2>2. CASE edit[x] # NoEdit
    <3>1. PICK d : d = edit[x]
      OBVIOUS
    <3>2. PICK r : r = [d EXCEPT !.alone = FALSE]
      OBVIOUS
    <3>3. EditFits(d) /\ d.op # "none"
      BY <1>1, <2>2, <3>1, MovesAre DEF EditFits
    <3>4. /\ EditFits(r) /\ r.op = d.op /\ r.todo = d.todo /\ r.wanted = d.wanted /\ r.alone = FALSE
          /\ r # NoEdit
      BY <3>2, <3>3, AloneElse
    <3>5. edit'[x] = r
      BY <1>2, <1>4, <2>2, <3>1, <3>2
    <3> QED
      BY <2>2, <3>1, <3>4, <3>5
  <2> QED
    BY <2>1, <2>2
<1>5. edit'[e] = [op |-> op, todo |-> todo, wanted |-> wanted, alone |-> a] /\ DOMAIN edit' = Editors
  BY <1>2
<1> QED
  BY <1>2, <1>3, <1>4, <1>5 DEF Begins

\* A request begins whose changes fit its task.
LEMMA BeginStep ==
    ASSUME PageInv, NEW e \in Editors, NEW op \in {"reorder", "delete"}, NEW todo \in Seq(PageMoves), NEW wanted,
           op = "delete" => (\A k \in DOMAIN todo : todo[k].to = NoName) /\ wanted = PagesOf(Natsorted(Left(todo))),
           op = "reorder" => Chain(todo) /\ OnTrack(todo, wanted) /\ (DOMAIN files \cap Temporaries = {} => RoomAhead(todo)),
           BeginEdit(e, op, todo, wanted)
    PROVE  PageInv'
<1>a. PICK a : a = (\A other \in Editors \ {e} : edit[other] = NoEdit)
  OBVIOUS
<1>r. PICK r : r = [op |-> op, todo |-> todo, wanted |-> wanted, alone |-> a]
  OBVIOUS
<1>0. Begins(e, r)
  BY <1>a, <1>r, BeginIs
<1>1. /\ edit[e] = NoEdit /\ DOMAIN edit' = Editors /\ edit'[e] = r
      /\ files' = files /\ bookCover' = bookCover /\ deleted' = deleted /\ pageBreaks' = pageBreaks
      /\ pageEdits' \in 0 .. MaxPageEdits /\ promised' = {}
  BY <1>0 DEF Begins
<1>2. \A x \in Editors : x # e =>
         /\ EditFits(edit'[x])
         /\ edit'[x].op = edit[x].op /\ edit'[x].todo = edit[x].todo
         /\ (edit'[x] # NoEdit <=> edit[x] # NoEdit)
         /\ (edit'[x] # NoEdit => edit'[x].alone = FALSE)
  BY <1>0 DEF Begins
<1>3. r.op = op /\ r.todo = todo /\ r.wanted = wanted /\ r.alone = a /\ a \in BOOLEAN /\ r.op # "none"
  BY <1>a, <1>r
<1>4. r = [op |-> r.op, todo |-> r.todo, wanted |-> r.wanted, alone |-> r.alone]
  BY <1>3, <1>r
<1>5. EditFits(r)
  <2>1. r.op \in {"none", "reorder", "delete"} /\ r.todo \in Seq(PageMoves) /\ r.alone \in BOOLEAN
    BY <1>3
  <2>2. r.op = "delete" => \A k \in DOMAIN r.todo : r.todo[k].to = NoName
    BY <1>3
  <2>3. r.op = "reorder" => Chain(r.todo)
    BY <1>3
  <2> QED
    BY <1>3, <1>4, <2>1, <2>2, <2>3 DEF EditFits
<1>6. tangled' = (tangled \/ (op = "reorder" /\ \E other \in Editors : edit[other].op = "reorder"))
  BY DEF BeginEdit
<1>7. PageTyped'
  <2>1. tangled' \in BOOLEAN
    BY <1>6 DEF PageInv, PageTyped
  <2>2. \A x \in Editors : EditFits(edit'[x])
    BY <1>1, <1>2, <1>5
  <2> QED
    BY <1>1, <2>1, <2>2 DEF PageInv, PageTyped
<1>8. /\ \A x \in Editors : x # e => (Reorders(x)' <=> Reorders(x))
      /\ ~Reorders(e) /\ (Reorders(e)' <=> op = "reorder")
  <2>1. ~Reorders(e)
    BY <1>1, MovesAre DEF Reorders
  <2>2. Reorders(e)' <=> op = "reorder"
    BY <1>1, <1>3 DEF Reorders
  <2>3. \A x \in Editors : x # e => (Reorders(x)' <=> Reorders(x))
    BY <1>2 DEF Reorders
  <2> QED
    BY <2>1, <2>2, <2>3
<1>9. ~tangled' => ~tangled /\ (op = "reorder" => \A x \in Editors : ~Reorders(x))
  BY <1>6 DEF Reorders, PageInv, PageTyped
<1>10. OneReorder'
  <2> SUFFICES ASSUME ~tangled', NEW x \in Editors, NEW y \in Editors, Reorders(x)', Reorders(y)' PROVE x = y
    BY DEF OneReorder
  <2>1. ~tangled
    BY <1>9
  <2>2. \A v, w \in Editors : Reorders(v) /\ Reorders(w) => v = w
    BY <2>1 DEF PageInv, OneReorder
  <2> QED
    BY <1>8, <1>9, <2>2
<1>11. PagesStay'
  <2> SUFFICES ASSUME ~tangled'
               PROVE  /\ PagesKept'
                      /\ (\A x \in Editors : ~Reorders(x)') => DOMAIN files' \cap Temporaries = {}
                      /\ \A x \in Editors : Reorders(x)' => RoomAhead(edit[x].todo)'
    BY DEF PagesStay
  <2>0. /\ PagesKept
        /\ (\A x \in Editors : ~Reorders(x)) => DOMAIN files \cap Temporaries = {}
        /\ \A x \in Editors : Reorders(x) => RoomAhead(edit[x].todo)
    BY <1>9 DEF PageInv, PagesStay
  <2>1. PagesKept'
    BY <1>1, <2>0 DEF PagesKept
  <2>2. ASSUME \A x \in Editors : ~Reorders(x)' PROVE DOMAIN files' \cap Temporaries = {}
    BY <1>1, <1>8, <2>0, <2>2
  <2>3. ASSUME NEW x \in Editors, Reorders(x)' PROVE RoomAhead(edit[x].todo)'
    <3>1. CASE x = e
      <4>1. op = "reorder"
        BY <1>8, <2>3, <3>1
      <4>2. RoomAhead(todo)
        BY <1>9, <2>0, <4>1
      <4>3. RoomAhead(todo)'
        BY <1>1, <4>2, RoomShrinks
      <4>4. edit'[x].todo = todo
        BY <1>1, <1>3, <3>1
      <4> QED
        BY <4>3, <4>4, NextTodo
    <3>2. CASE x # e
      <4>1. Reorders(x) /\ edit'[x].todo = edit[x].todo
        BY <1>2, <1>8, <2>3, <3>2
      <4>2. PICK t : t = edit[x].todo
        OBVIOUS
      <4>3. RoomAhead(t) /\ edit'[x].todo = t
        BY <2>0, <4>1, <4>2
      <4>4. RoomAhead(t)'
        BY <1>1, <4>3, RoomShrinks
      <4> QED
        BY <4>3, <4>4, NextTodo
    <3> QED
      BY <3>1, <3>2
  <2> QED
    BY <2>1, <2>2, <2>3
<1>12. \A x \in Editors : OnItsOwn(x)' => x = e /\ a = TRUE
  <2> SUFFICES ASSUME NEW x \in Editors, OnItsOwn(x)' PROVE x = e /\ a = TRUE
    OBVIOUS
  <2>1. edit'[x] # NoEdit /\ edit'[x].alone
    BY DEF OnItsOwn, InHand
  <2>2. x = e
    BY <1>2, <2>1
  <2> QED
    BY <1>1, <1>3, <2>1, <2>2
<1>13. AloneIsAlone'
  <2> SUFFICES ASSUME NEW x \in Editors, NEW y \in Editors, OnItsOwn(x)', InHand(y)' PROVE y = x
    BY DEF AloneIsAlone
  <2>1. x = e /\ a
    BY <1>12
  <2>2. \A other \in Editors \ {e} : edit[other] = NoEdit
    BY <1>a, <2>1
  <2>3. y # e => edit[y] # NoEdit
    BY <1>2 DEF InHand
  <2> QED
    BY <2>1, <2>2, <2>3
<1>14. AsWanted'
  <2> SUFFICES ASSUME NEW x \in Editors, OnItsOwn(x)'
               PROVE  /\ edit'[x].op = "delete" => edit'[x].wanted = PagesOf(Natsorted(Left(edit[x].todo)))'
                      /\ Reorders(x)' => Doomed(edit[x].todo)' \/ Twice(edit[x].todo)' \/ OnTrack(edit[x].todo, edit[x].wanted)'
    BY DEF AsWanted
  <2>1. x = e
    BY <1>12
  <2>2. edit'[x].op = op /\ edit'[x].todo = todo /\ edit'[x].wanted = wanted
    BY <1>1, <1>3, <2>1
  <2>3. ASSUME op = "delete" PROVE wanted = PagesOf(Natsorted(Left(edit[x].todo)))'
    <3>1. wanted = PagesOf(Natsorted(Left(todo)))
      BY <2>3
    <3>2. Left(todo)' = Left(todo) /\ Left(edit[x].todo)' = Left(todo)'
      BY <1>1, <2>2, NextTodo DEF Left
    <3>3. PagesOf(Natsorted(Left(edit[x].todo)))' = [i \in DOMAIN Natsorted(Left(edit[x].todo)') |-> files'[Natsorted(Left(edit[x].todo)')[i]]]
      BY DEF PagesOf, Natsorted
    <3>4. PagesOf(Natsorted(Left(todo))) = [i \in DOMAIN Natsorted(Left(todo)) |-> files[Natsorted(Left(todo))[i]]]
      BY DEF PagesOf
    <3> QED
      BY <1>1, <3>1, <3>2, <3>3, <3>4
  <2>4. ASSUME op = "reorder" PROVE OnTrack(edit[x].todo, edit[x].wanted)'
    <3>1. OnTrack(todo, wanted)
      BY <2>4
    <3>2. OnTrack(todo, wanted)'
      BY <1>1, <3>1 DEF OnTrack, Places
    <3> QED
      BY <2>2, <3>2, NextTodo
  <2> QED
    BY <1>8, <2>1, <2>2, <2>3, <2>4
<1>15. PromisedAtRest' /\ DoneAsAsked'
  BY <1>1 DEF PromisedAtRest, DoneAsAsked
<1> QED
  BY <1>7, <1>10, <1>11, <1>13, <1>14, <1>15 DEF PageInv
-----------------------------------------------------------------------------
\* The renames of a reordering: there are two for each page.
LEMMA MovesMade ==
    ASSUME NEW n \in 0 .. PageCount, NEW names \in [1 .. n -> FileNames], NEW order \in [1 .. n -> 1 .. n]
    PROVE  Moves(names, order) \in Seq(PageMoves) /\ Len(Moves(names, order)) = n + n /\ DOMAIN Moves(names, order) = 1 .. n + n
<1> DEFINE A == [i \in DOMAIN order |-> [from |-> names[order[i]], to |-> Tmp(i)]]
           B == [i \in DOMAIN order |-> [from |-> Tmp(i), to |-> Final(i)]]
<1>0. n \in Nat /\ 1 .. n \subseteq BookPages /\ DOMAIN order = 1 .. n
  BY PageAssumption DEF BookPages
<1>1. A \in [1 .. n -> PageMoves] /\ B \in [1 .. n -> PageMoves]
  BY <1>0, NamesDiffer DEF PageMoves
<1> HIDE DEF A, B
<1>2. A \in Seq(PageMoves) /\ Len(A) = n /\ B \in Seq(PageMoves) /\ Len(B) = n
  BY <1>0, <1>1, AsSequence
<1>3. A \o B \in Seq(PageMoves) /\ Len(A \o B) = n + n
  <2>1. A \o B \in Seq(PageMoves) /\ Len(A \o B) = Len(A) + Len(B)
    BY <1>2, ConcatProperties, Zenon
  <2> QED
    BY <1>2, <2>1
<1>4. DOMAIN (A \o B) = 1 .. n + n
  BY <1>3, LenProperties
<1> QED
  BY <1>3, <1>4 DEF Moves, A, B

\* The renames of a reordering: the first half is to the temporary names in the
\* new order, the second one to the final names.
LEMMA MovesMadeAt ==
    ASSUME NEW n \in 0 .. PageCount, NEW names \in [1 .. n -> FileNames], NEW order \in [1 .. n -> 1 .. n]
    PROVE  /\ \A i \in 1 .. n : Moves(names, order)[i] = [from |-> names[order[i]], to |-> Tmp(i)]
           /\ \A i \in 1 .. n : Moves(names, order)[n + i] = [from |-> Tmp(i), to |-> Final(i)]
<1> DEFINE A == [i \in DOMAIN order |-> [from |-> names[order[i]], to |-> Tmp(i)]]
           B == [i \in DOMAIN order |-> [from |-> Tmp(i), to |-> Final(i)]]
<1>0. n \in Nat /\ 1 .. n \subseteq BookPages /\ DOMAIN order = 1 .. n
  BY PageAssumption DEF BookPages
<1>1. A \in [1 .. n -> PageMoves] /\ B \in [1 .. n -> PageMoves]
  BY <1>0, NamesDiffer DEF PageMoves
<1>a. \A i \in 1 .. n : A[i] = [from |-> names[order[i]], to |-> Tmp(i)] /\ B[i] = [from |-> Tmp(i), to |-> Final(i)]
  BY <1>0
<1> HIDE DEF A, B
<1>2. A \in Seq(PageMoves) /\ Len(A) = n /\ B \in Seq(PageMoves) /\ Len(B) = n
  BY <1>0, <1>1, AsSequence
<1>3. \A i \in 1 .. Len(A) + Len(B) : (A \o B)[i] = IF i <= Len(A) THEN A[i] ELSE B[i - Len(A)]
  BY <1>2, ConcatProperties
<1>4. ASSUME NEW i \in 1 .. n PROVE (A \o B)[i] = A[i] /\ (A \o B)[n + i] = B[i]
  <2>1. i \in 1 .. n + n /\ i <= n /\ n + i \in 1 .. n + n /\ ~(n + i <= n) /\ (n + i) - n = i
    BY <1>0
  <2> QED
    BY <1>2, <1>3, <2>1
<1>5. Moves(names, order) = A \o B
  BY DEF Moves, A, B
<1> QED
  BY <1>4, <1>5, <1>a

\* Every rename of a reordering is of the first or the second half.
LEMMA HalvesAre ==
    ASSUME NEW n \in Nat, NEW k \in 1 .. n + n
    PROVE  \E i \in 1 .. n : k = i \/ k = n + i
<1>1. CASE k <= n
  BY <1>1
<1>2. CASE k > n
  <2>1. k - n \in 1 .. n /\ k = n + (k - n)
    BY <1>2
  <2> QED
    BY <2>1
<1> QED
  BY <1>1, <1>2

\* The renames of a reordering fit.
LEMMA MovesFit ==
    ASSUME NEW n \in 0 .. PageCount, NEW names \in [1 .. n -> FileNames], NEW order \in [1 .. n -> 1 .. n],
           NEW t, t = Moves(names, order)
    PROVE  t \in Seq(PageMoves) /\ Chain(t)
<1>0. n \in Nat /\ 1 .. n \subseteq BookPages /\ PageCount \in Nat
  BY PageAssumption DEF BookPages
<1>1. t \in Seq(PageMoves) /\ DOMAIN t = 1 .. n + n
  BY MovesMade
<1>2. /\ \A i \in 1 .. n : t[i].from = names[order[i]] /\ t[i].to = Tmp(i)
      /\ \A i \in 1 .. n : t[n + i].from = Tmp(i) /\ t[n + i].to = Final(i)
  <2>1. /\ \A i \in 1 .. n : t[i] = [from |-> names[order[i]], to |-> Tmp(i)]
        /\ \A i \in 1 .. n : t[n + i] = [from |-> Tmp(i), to |-> Final(i)]
    BY MovesMadeAt
  <2>2. ASSUME NEW i \in 1 .. n PROVE t[i].from = names[order[i]] /\ t[i].to = Tmp(i)
    <3>1. PICK m : m = t[i]
      OBVIOUS
    <3>2. m = [from |-> names[order[i]], to |-> Tmp(i)]
      BY <2>1, <3>1, Zenon
    <3>3. m.from = names[order[i]] /\ m.to = Tmp(i)
      BY <3>2
    <3> QED
      BY <3>1, <3>3, Zenon
  <2>3. ASSUME NEW i \in 1 .. n PROVE t[n + i].from = Tmp(i) /\ t[n + i].to = Final(i)
    <3>1. PICK m : m = t[n + i]
      OBVIOUS
    <3>2. m = [from |-> Tmp(i), to |-> Final(i)]
      BY <2>1, <3>1, Zenon
    <3>3. m.from = Tmp(i) /\ m.to = Final(i)
      BY <3>2
    <3> QED
      BY <3>1, <3>3, Zenon
  <2> QED
    BY <2>2, <2>3, Zenon
<1>3. \A k \in DOMAIN t : t[k].to # NoName
  <2> SUFFICES ASSUME NEW k \in DOMAIN t PROVE t[k].to # NoName
    OBVIOUS
  <2>1. PICK i \in 1 .. n : k = i \/ k = n + i
    BY <1>0, <1>1, HalvesAre
  <2>2. t[k].to = Tmp(i) \/ t[k].to = Final(i)
    BY <1>2, <2>1
  <2>3. Tmp(i) \in FileNames /\ Final(i) \in FileNames
    BY <1>0, NamesDiffer
  <2> QED
    BY <2>2, <2>3, MovesAre
<1>4. \A j, k \in DOMAIN t : t[j].to = t[k].to => j = k
  <2> SUFFICES ASSUME NEW j \in DOMAIN t, NEW k \in DOMAIN t, t[j].to = t[k].to PROVE j = k
    OBVIOUS
  <2>1. PICK i \in 1 .. n : j = i \/ j = n + i
    BY <1>0, <1>1, HalvesAre
  <2>2. PICK l \in 1 .. n : k = l \/ k = n + l
    BY <1>0, <1>1, HalvesAre
  <2>3. CASE j = i /\ k = l
    <3>1. t[j].to = Tmp(i) /\ t[k].to = Tmp(l)
      BY <1>2, <2>3
    <3>2. i = l
      BY <3>1, NamesDiffer, Zenon
    <3> QED
      BY <2>3, <3>2
  <2>4. CASE j = n + i /\ k = n + l
    <3>1. t[j].to = Final(i) /\ t[k].to = Final(l)
      BY <1>2, <2>4
    <3>2. i = l
      BY <3>1, NamesDiffer, Zenon
    <3> QED
      BY <2>4, <3>2
  <2>5. CASE j = i /\ k = n + l
    <3>1. t[j].to = Tmp(i) /\ t[k].to = Final(l)
      BY <1>2, <2>5
    <3> QED
      BY <3>1, NamesDiffer
  <2>6. CASE j = n + i /\ k = l
    <3>1. t[j].to = Final(i) /\ t[k].to = Tmp(l)
      BY <1>2, <2>6
    <3> QED
      BY <3>1, NamesDiffer
  <2> QED
    BY <2>1, <2>2, <2>3, <2>4, <2>5, <2>6
<1>5. ASSUME NEW k \in DOMAIN t, t[k].to \in Temporaries PROVE \E j \in DOMAIN t : k < j /\ t[j].from = t[k].to
  <2>1. PICK i \in 1 .. n : k = i \/ k = n + i
    BY <1>0, <1>1, HalvesAre
  <2>2. CASE k = i
    <3>1. n + i \in DOMAIN t /\ k < n + i
      BY <1>0, <1>1, <2>2
    <3> QED
      BY <1>2, <2>2, <3>1
  <2>3. CASE k = n + i
    BY <1>0, <1>2, <1>5, <2>3, NamesDiffer
  <2> QED
    BY <2>1, <2>2, <2>3
<1> QED
  BY <1>1, <1>3, <1>4, <1>5 DEF Chain

\* The order numbers each page of the book once.
OrderFits(n, names, order) ==
    /\ \A i, k \in 1 .. n : order[i] = order[k] => i = k
    /\ \A i, k \in 1 .. n : names[i] = names[k] => i = k
    /\ DOMAIN files = {names[i] : i \in 1 .. n} /\ \A x \in DOMAIN files : files[x] \in BookPages
PagesAsked(names, order) == [i \in DOMAIN order |-> files[names[order[i]]]]

\* A reordering finds room when nothing is left under a temporary name, and the
\* pages of the new order are where it looks for them.
LEMMA MovesFindRoom ==
    ASSUME NEW n \in 0 .. PageCount, NEW names \in [1 .. n -> FileNames], NEW order \in [1 .. n -> 1 .. n],
           OrderFits(n, names, order), NEW t, t = Moves(names, order), NEW w, w = PagesAsked(names, order)
    PROVE  /\ DOMAIN files \cap Temporaries = {} => RoomAhead(t)
           /\ OnTrack(t, w)
<1>f. /\ \A i, k \in 1 .. n : order[i] = order[k] => i = k
      /\ \A i, k \in 1 .. n : names[i] = names[k] => i = k
      /\ DOMAIN files = {names[i] : i \in 1 .. n} /\ \A x \in DOMAIN files : files[x] \in BookPages
  BY DEF OrderFits
<1>w. w = [i \in DOMAIN order |-> files[names[order[i]]]]
  BY DEF PagesAsked
<1>0. n \in Nat /\ 1 .. n \subseteq BookPages /\ PageCount \in Nat /\ DOMAIN order = 1 .. n
  BY PageAssumption DEF BookPages
<1>1. t \in Seq(PageMoves) /\ DOMAIN t = 1 .. n + n /\ Len(t) = n + n
  BY MovesMade
<1>m. /\ \A i \in 1 .. n : t[i] = [from |-> names[order[i]], to |-> Tmp(i)]
      /\ \A i \in 1 .. n : t[n + i] = [from |-> Tmp(i), to |-> Final(i)]
  BY MovesMadeAt
<1>2. /\ \A i \in 1 .. n : t[i].from = names[order[i]] /\ t[i].to = Tmp(i)
      /\ \A i \in 1 .. n : t[n + i].from = Tmp(i) /\ t[n + i].to = Final(i)
  <2>2. ASSUME NEW i \in 1 .. n PROVE t[i].from = names[order[i]] /\ t[i].to = Tmp(i)
    <3>1. PICK m : m = t[i]
      OBVIOUS
    <3>2. m = [from |-> names[order[i]], to |-> Tmp(i)]
      BY <1>m, <3>1, Zenon
    <3>3. m.from = names[order[i]] /\ m.to = Tmp(i)
      BY <3>2
    <3> QED
      BY <3>1, <3>3, Zenon
  <2>3. ASSUME NEW i \in 1 .. n PROVE t[n + i].from = Tmp(i) /\ t[n + i].to = Final(i)
    <3>1. PICK m : m = t[n + i]
      OBVIOUS
    <3>2. m = [from |-> Tmp(i), to |-> Final(i)]
      BY <1>m, <3>1, Zenon
    <3>3. m.from = Tmp(i) /\ m.to = Final(i)
      BY <3>2
    <3> QED
      BY <3>1, <3>3, Zenon
  <2> QED
    BY <2>2, <2>3, Zenon
<1>3. \A j \in 1 .. n : \E i \in 1 .. n : order[i] = j
  <2>1. order \in Injection(1 .. n, 1 .. n)
    BY <1>f, Fun_IsInj
  <2>2. IsFiniteSet(1 .. n)
    BY <1>0, FS_Interval
  <2>3. order \in Surjection(1 .. n, 1 .. n)
    BY <2>1, <2>2, FS_Injection
  <2> QED
    BY <2>3 DEF Surjection
<1>4. DOMAIN files = {names[order[i]] : i \in 1 .. n}
  <2>1. ASSUME NEW x \in DOMAIN files PROVE \E i \in 1 .. n : x = names[order[i]]
    BY <1>3, <1>f
  <2>2. \A i \in 1 .. n : names[order[i]] \in DOMAIN files
    BY <1>f
  <2> DEFINE P == {names[order[i]] : i \in 1 .. n}
  <2>3. \A x \in DOMAIN files : x \in P
    BY <2>1, Zenon
  <2>4. \A x \in P : x \in DOMAIN files
    BY <2>2, Zenon
  <2> HIDE DEF P
  <2>5. DOMAIN files = P
    BY <2>3, <2>4, Zenon
  <2> QED
    BY <2>5, Zenon DEF P
<1>5. ASSUME DOMAIN files \cap Temporaries = {} PROVE RoomAhead(t)
  <2>1. ASSUME NEW k \in DOMAIN t, t[k].to \in DOMAIN files PROVE \E j \in DOMAIN t : j < k /\ t[j].from = t[k].to
    <3>1. PICK i \in 1 .. n : k = i \/ k = n + i
      BY <1>0, <1>1, HalvesAre
    <3>2. Tmp(i) \in Temporaries
      BY <1>0, NamesDiffer
    <3>3. k # i
      <4> SUFFICES ASSUME k = i PROVE FALSE
        OBVIOUS
      <4>1. t[k].to = Tmp(i)
        BY <1>2
      <4> QED
        BY <1>5, <2>1, <3>2, <4>1
    <3>4. PICK j \in 1 .. n : t[k].to = names[order[j]]
      BY <1>4, <2>1
    <3>5. j \in DOMAIN t /\ j < k
      BY <1>0, <1>1, <3>1, <3>3
    <3> QED
      BY <1>2, <3>4, <3>5
  <2> QED
    BY <1>5, <2>1 DEF RoomAhead
<1> DEFINE place == [i \in 1 .. n |-> names[order[i]]]
<1>6. Places(w, n, place)
  <2>1. place \in [1 .. n -> FileNames]
    OBVIOUS
  <2>2. \A i, k \in 1 .. n : place[i] = place[k] => i = k
    BY <1>f
  <2>3. DOMAIN files = {place[i] : i \in 1 .. n}
    BY <1>4
  <2>4. w \in [1 .. n -> BookPages] /\ \A i \in 1 .. n : files[place[i]] = w[i]
    BY <1>0, <1>4, <1>f, <1>w
  <2> HIDE DEF place
  <2> QED
    BY <2>1, <2>2, <2>3, <2>4 DEF Places
<1>7. FirstHalf(t, n, 0, place)
  <2>1. Len(t) = 2 * n - 0
    BY <1>0, <1>1
  <2>2. ASSUME NEW i \in 1 .. n PROVE t[i - 0] = [from |-> place[i], to |-> Tmp(i)] /\ t[n - 0 + i] = [from |-> Tmp(i), to |-> Final(i)]
    <3>1. i - 0 = i /\ n - 0 + i = n + i /\ place[i] = names[order[i]]
      BY <1>0
    <3> QED
      BY <1>m, <3>1
  <2>3. \A i \in 1 .. n : ~(i <= 0)
    BY <1>0
  <2> HIDE DEF place
  <2> QED
    BY <2>1, <2>2, <2>3 DEF FirstHalf
<1>8. OnTrack(t, w)
  <2>1. 0 \in 0 .. n /\ place \in [1 .. n -> FileNames]
    BY <1>0, <1>6 DEF Places
  <2> HIDE DEF place
  <2> QED
    BY <1>6, <1>7, <2>1 DEF OnTrack
<1> QED
  BY <1>5, <1>8

\* A reordering begins.
LEMMA ReorderStep == ASSUME PageInv, NEW e \in Editors, StartReorder(e) PROVE PageInv'
<1>1. PICK order \in Orders(Len(PageList)) :
        BeginEdit(e, "reorder", Moves(PageList, order), [i \in DOMAIN order |-> files[PageList[order[i]]]])
  BY DEF StartReorder
<1>2. PICK n : n = Cardinality(DOMAIN files)
  OBVIOUS
<1>3. PICK names : names = PageList
  OBVIOUS
<1>4. PICK t : t = Moves(names, order)
  OBVIOUS
<1>5. PICK w : w = [i \in DOMAIN order |-> files[names[order[i]]]]
  OBVIOUS
<1>6. PageTyped
  BY DEF PageInv
<1>7. /\ n \in 0 .. PageCount /\ names \in [1 .. n -> DOMAIN files]
      /\ \A i, k \in 1 .. n : names[i] = names[k] => i = k
      /\ \A x \in DOMAIN files : \E i \in 1 .. n : names[i] = x
  BY <1>2, <1>3, <1>6, PageListIs
<1>8. Len(PageList) = n
  BY <1>2, <1>6, PageListIs
<1>9. order \in [1 .. n -> 1 .. n] /\ \A i, k \in 1 .. n : order[i] = order[k] => i = k
  <2>1. order \in Orders(n)
    BY <1>8
  <2> QED
    BY <2>1, Zenon DEF Orders
<1>10. /\ names \in [1 .. n -> FileNames] /\ DOMAIN files = {names[i] : i \in 1 .. n}
       /\ \A x \in DOMAIN files : files[x] \in BookPages
  <2>1. DOMAIN files \subseteq FileNames /\ \A x \in DOMAIN files : files[x] \in BookPages
    BY <1>6 DEF PageTyped
  <2>2. names \in [1 .. n -> FileNames]
    BY <1>7, <2>1
  <2> DEFINE P == {names[i] : i \in 1 .. n}
  <2>3. \A x \in DOMAIN files : x \in P
    BY <1>7, Zenon
  <2>4. \A x \in P : x \in DOMAIN files
    BY <1>7
  <2> HIDE DEF P
  <2>5. DOMAIN files = P
    BY <2>3, <2>4, Zenon
  <2> QED
    BY <2>1, <2>2, <2>5, Zenon DEF P
<1>11. t \in Seq(PageMoves) /\ Chain(t)
  <2>1. n \in 0 .. PageCount
    BY <1>7
  <2>2. names \in [1 .. n -> FileNames]
    BY <1>10, Zenon
  <2>3. order \in [1 .. n -> 1 .. n]
    BY <1>9, Zenon
  <2> QED
    BY ONLY <1>4, <2>1, <2>2, <2>3, MovesFit
<1>12. OnTrack(t, w) /\ (DOMAIN files \cap Temporaries = {} => RoomAhead(t))
  <2>1. n \in 0 .. PageCount
    BY <1>7
  <2>2. names \in [1 .. n -> FileNames]
    BY <1>10, Zenon
  <2>3. order \in [1 .. n -> 1 .. n]
    BY <1>9, Zenon
  <2>4. OrderFits(n, names, order)
    BY <1>7, <1>9, <1>10, Zenon DEF OrderFits
  <2>5. w = PagesAsked(names, order)
    BY <1>5 DEF PagesAsked
  <2> QED
    BY ONLY <1>4, <2>1, <2>2, <2>3, <2>4, <2>5, MovesFindRoom
<1>13. BeginEdit(e, "reorder", t, w)
  BY <1>1, <1>3, <1>4, <1>5
<1>14. "reorder" \in {"reorder", "delete"} /\ "reorder" # "delete"
  OBVIOUS
<1> QED
  BY <1>11, <1>12, <1>13, <1>14, BeginStep
-----------------------------------------------------------------------------
\* The names of the pages that a deletion names, and its removals.
NamesOf(names, chosen) == {names[i] : i \in chosen}
Removes(t, S) ==
    /\ t \in Seq(PageMoves) /\ \A k \in DOMAIN t : t[k].to = NoName
    /\ {t[k].from : k \in DOMAIN t} = S

\* The removals of a deletion are of the files of the pages that it names.
LEMMA RemovalsAre ==
    ASSUME NEW names, NEW chosen, NamesOf(names, chosen) \in SUBSET FileNames, NEW t, t = Removals(names, chosen)
    PROVE  Removes(t, NamesOf(names, chosen))
<1>0. PICK S : S = NamesOf(names, chosen)
  OBVIOUS
<1>s. S \in SUBSET FileNames
  BY <1>0
<1>1. PICK l : l = Natsorted(S)
  OBVIOUS
<1>2. PICK n : n = Cardinality(S)
  OBVIOUS
<1>3. n \in Nat
  BY <1>s, <1>2, NamesAreFinite
<1>4. l \in [1 .. n -> S] /\ \A x \in S : \E i \in 1 .. n : l[i] = x
  BY <1>s, <1>1, <1>2, SortedIs
<1>5. Len(l) = n
  BY <1>3, <1>4, AsSequence
<1>6. PICK down : down = Reverse(l)
  OBVIOUS
<1>7. DOMAIN down = 1 .. n /\ \A i \in 1 .. n : down[i] = l[n - i + 1]
  BY <1>5, <1>6 DEF Reverse
<1>8. \A i \in 1 .. n : n - i + 1 \in 1 .. n /\ n - (n - i + 1) + 1 = i
  BY <1>3
<1>9. \A i \in 1 .. n : down[i] \in S
  BY <1>4, <1>7, <1>8
<1>10. t = [i \in DOMAIN down |-> [from |-> down[i], to |-> NoName]]
  BY <1>0, <1>1, <1>6, Zenon DEF Removals, NamesOf
<1>11. t \in [1 .. n -> PageMoves] /\ DOMAIN t = 1 .. n
  <2>1. \A i \in 1 .. n : [from |-> down[i], to |-> NoName] \in PageMoves
    BY <1>s, <1>9 DEF PageMoves
  <2> QED
    BY <1>7, <1>10, <2>1
<1>12. ASSUME NEW k \in 1 .. n PROVE t[k].from = down[k] /\ t[k].to = NoName
  <2>1. PICK m : m = t[k]
    OBVIOUS
  <2>2. m = [from |-> down[k], to |-> NoName]
    BY <1>7, <1>10, <2>1
  <2>3. m.from = down[k] /\ m.to = NoName
    BY <2>2
  <2> QED
    BY <2>1, <2>3, Zenon
<1>13. t \in Seq(PageMoves)
  BY <1>3, <1>11, AsSequence
<1>14. ASSUME NEW x, NEW k \in DOMAIN t, t[k].from = x PROVE x \in S
  BY <1>9, <1>11, <1>12, <1>14
<1>15. ASSUME NEW x \in S PROVE \E k \in DOMAIN t : t[k].from = x
  <2>1. PICK i \in 1 .. n : l[i] = x
    BY <1>4
  <2>2. PICK k : k = n - i + 1
    OBVIOUS
  <2>3. k \in 1 .. n /\ n - k + 1 = i
    BY <1>8, <2>2
  <2>4. down[k] = x
    BY <1>7, <2>1, <2>3
  <2> QED
    BY <1>11, <1>12, <2>3, <2>4
<1>16. {t[k].from : k \in DOMAIN t} = S
  <2> DEFINE T == {t[k].from : k \in DOMAIN t}
  <2>1. \A x \in T : x \in S
    BY <1>14, Zenon
  <2>2. \A x \in S : x \in T
    BY <1>15, Zenon
  <2> HIDE DEF T
  <2>3. T = S
    BY <2>1, <2>2, Zenon
  <2> QED
    BY <2>3 DEF T
<1>17. \A k \in DOMAIN t : t[k].to = NoName
  BY <1>11, <1>12
<1> QED
  BY <1>0, <1>13, <1>16, <1>17, Zenon DEF Removes

\* A deletion begins.
LEMMA DeleteStep == ASSUME PageInv, NEW e \in Editors, StartDelete(e) PROVE PageInv'
<1>1. PICK chosen \in (SUBSET DOMAIN PageList) \ {{}} :
        BeginEdit(e, "delete", Removals(PageList, chosen),
              PagesOf(Natsorted({PageList[i] : i \in DOMAIN PageList \ chosen})))
  BY DEF StartDelete
<1>2. PICK n : n = Cardinality(DOMAIN files)
  OBVIOUS
<1>3. PICK names : names = PageList
  OBVIOUS
<1>4. PICK t : t = Removals(names, chosen)
  OBVIOUS
<1>5. PICK w : w = PagesOf(Natsorted({names[i] : i \in DOMAIN names \ chosen}))
  OBVIOUS
<1>6. PageTyped
  BY DEF PageInv
<1>7. /\ names \in [1 .. n -> DOMAIN files]
      /\ \A i, k \in 1 .. n : names[i] = names[k] => i = k
      /\ \A x \in DOMAIN files : \E i \in 1 .. n : names[i] = x
  BY <1>2, <1>3, <1>6, PageListIs
<1>8. DOMAIN names = 1 .. n /\ chosen \subseteq 1 .. n
  BY <1>1, <1>3, <1>7
<1>9. PICK S : S = NamesOf(names, chosen)
  OBVIOUS
<1>10. S \in SUBSET FileNames
  BY <1>6, <1>7, <1>8, <1>9 DEF PageTyped, NamesOf
<1>11. /\ t \in Seq(PageMoves) /\ \A k \in DOMAIN t : t[k].to = NoName
       /\ {t[k].from : k \in DOMAIN t} = S
  <2>1. Removes(t, NamesOf(names, chosen))
    BY <1>4, <1>9, <1>10, RemovalsAre
  <2> QED
    BY <1>9, <2>1, Zenon DEF Removes
<1>12. {names[i] : i \in DOMAIN names \ chosen} = Left(t)
  <2> DEFINE R == {names[i] : i \in DOMAIN names \ chosen}
             T == {t[k].from : k \in DOMAIN t}
  <2>1. \A x : x \in T <=> x \in S
    BY <1>11
  <2>2. ASSUME NEW x \in R PROVE x \in DOMAIN files /\ x \notin S
    BY <1>7, <1>8, <1>9 DEF NamesOf
  <2>3. ASSUME NEW x \in DOMAIN files, x \notin S PROVE x \in R
    <3>1. PICK i \in 1 .. n : names[i] = x
      BY <1>7
    <3>2. i \notin chosen
      BY <1>9, <2>3, <3>1 DEF NamesOf
    <3> QED
      BY <1>8, <3>1, <3>2
  <2> HIDE DEF R, T
  <2>4. R = DOMAIN files \ T
    BY <2>1, <2>2, <2>3
  <2> QED
    BY <2>4 DEF R, T, Left
<1>13. w = PagesOf(Natsorted(Left(t)))
  BY <1>5, <1>12, Zenon
<1>14. BeginEdit(e, "delete", t, w)
  BY <1>1, <1>3, <1>4, <1>5, Zenon
<1>15. "delete" \in {"reorder", "delete"} /\ "reorder" # "delete"
  OBVIOUS
<1> QED
  BY <1>11, <1>13, <1>14, <1>15, BeginStep

\* A book at first: its pages are in its directory, in order.
LEMMA PageInvInit == ASSUME PageInit PROVE PageInv
<1>1. PICK S \in {{Own(i) : i \in BookPages}, {Final(i) : i \in BookPages}} : files = [n \in S |-> n[2]]
  BY DEF PageInit
<1>2. /\ edit = [e \in Editors |-> NoEdit] /\ bookCover = 1 /\ deleted = {} /\ promised = {} /\ tangled = FALSE
      /\ pageEdits = 0 /\ pageBreaks = 0
  BY DEF PageInit
<1>3. PageCount \in Nat \ {0} /\ MaxPageEdits \in Nat /\ MaxPageBreaks \in Nat
  BY PageAssumption
<1>4. DOMAIN files = S /\ \A n \in S : files[n] = n[2]
  BY <1>1
<1>5. S \subseteq FileNames /\ \A n \in S : n[2] \in BookPages
  <2>0. \A i \in BookPages : Own(i) \in FileNames /\ Own(i)[2] = i /\ Final(i) \in FileNames /\ Final(i)[2] = i
    BY DEF FileNames, Own, Final
  <2>1. CASE S = {Own(i) : i \in BookPages}
    BY <2>0, <2>1
  <2>2. CASE S = {Final(i) : i \in BookPages}
    BY <2>0, <2>2
  <2> QED
    BY <1>1, <2>1, <2>2
<1>6. \A p \in BookPages : \E n \in S : n[2] = p
  <2>0. \A i \in BookPages : Own(i)[2] = i /\ Final(i)[2] = i
    BY DEF Own, Final
  <2>1. CASE S = {Own(i) : i \in BookPages}
    BY <2>0, <2>1
  <2>2. CASE S = {Final(i) : i \in BookPages}
    BY <2>0, <2>2
  <2> QED
    BY <1>1, <2>1, <2>2
<1>7. S \cap Temporaries = {}
  BY <1>1 DEF Own, Final, Tmp, Temporaries
<1>8. Cardinality(S) <= PageCount
  <2>1. IsFiniteSet(BookPages) /\ Cardinality(BookPages) = PageCount
    BY <1>3, FS_Interval DEF BookPages
  <2>2. PICK g \in [S -> BookPages] : \A m, n \in S : g[m] = g[n] => m = n
    <3> DEFINE g == [n \in S |-> n[2]]
    <3>1. g \in [S -> BookPages]
      BY <1>5
    <3>2. \A m, n \in S : g[m] = g[n] => m = n
      BY <1>1 DEF Own, Final
    <3> HIDE DEF g
    <3> QED
      BY <3>1, <3>2
  <2>3. g \in Injection(S, BookPages)
    BY <2>2, Fun_IsInj
  <2> QED
    BY <2>1, <2>3, FS_Injection
<1>9. \A e \in Editors : edit[e] = NoEdit /\ EditFits(edit[e]) /\ ~InHand(e) /\ ~Reorders(e)
  BY <1>2, MovesAre DEF InHand, Reorders
<1>10. PageTyped
  <2>1. bookCover \in BookPages \cup {NoCover}
    BY <1>2, <1>3 DEF BookPages
  <2>2. files = [n \in DOMAIN files |-> files[n]]
    BY <1>1, <1>4
  <2>3. \A n \in DOMAIN files : files[n] \in BookPages
    BY <1>4, <1>5
  <2>4. DOMAIN files \subseteq FileNames /\ Cardinality(DOMAIN files) <= PageCount
    BY <1>4, <1>5, <1>8
  <2>5. DOMAIN edit = Editors
    BY <1>2
  <2>6. deleted \subseteq BookPages /\ tangled \in BOOLEAN /\ pageEdits \in 0 .. MaxPageEdits /\ pageBreaks \in 0 .. MaxPageBreaks
    <3>1. deleted = {} /\ tangled = FALSE /\ pageEdits = 0 /\ pageBreaks = 0
      BY <1>2
    <3>2. 0 \in 0 .. MaxPageEdits /\ 0 \in 0 .. MaxPageBreaks
      BY <1>3
    <3> QED
      BY ONLY <3>1, <3>2
  <2>7. \A e \in Editors : EditFits(edit[e])
    BY <1>9
  <2> QED
    BY ONLY <2>1, <2>2, <2>3, <2>4, <2>5, <2>6, <2>7 DEF PageTyped
<1>11. PagesKept
  BY <1>4, <1>6 DEF PagesKept
<1>12. PagesStay
  BY <1>4, <1>7, <1>9, <1>11 DEF PagesStay
<1> QED
  BY <1>2, <1>9, <1>10, <1>12 DEF PageInv, OneReorder, AloneIsAlone, OnItsOwn, PromisedAtRest, DoneAsAsked, AsWanted

\* Every step of a book's pages keeps the invariant.
LEMMA PageInvStep == PageInv /\ [PageNext]_pageVars => PageInv'
<1> SUFFICES ASSUME PageInv, [PageNext]_pageVars PROVE PageInv'
  OBVIOUS
<1>b. \A e \in Editors : pageBreaks \in 0 .. MaxPageBreaks /\ MaxPageBreaks \in Nat
  BY PageAssumption DEF PageInv, PageTyped
<1>1. ASSUME NEW e \in Editors, StartReorder(e) PROVE PageInv'
  BY <1>1, ReorderStep
<1>2. ASSUME NEW e \in Editors, StartDelete(e) PROVE PageInv'
  BY <1>2, DeleteStep
<1>3. ASSUME NEW e \in Editors, Change(e) PROVE PageInv'
  BY <1>3, ChangeStep
<1>4. ASSUME NEW e \in Editors, EndEdit(e) PROVE PageInv'
  BY <1>4, EndStep
<1>5. ASSUME NEW e \in Editors, FileIsGone(e) PROVE PageInv'
  <2>1. InHand(e)
    BY <1>5, InHandIs DEF FileIsGone, PageInv
  <2>2. CutOff(e) /\ pageBreaks' \in 0 .. MaxPageBreaks
    BY <1>5, <1>b DEF FileIsGone
  <2> QED
    BY <2>1, <2>2, CutOffStep
<1>6. ASSUME NEW e \in Editors, EditBreaks(e) PROVE PageInv'
  <2>1. InHand(e) /\ CutOff(e)
    BY <1>6 DEF EditBreaks, InHand
  <2>2. pageBreaks' \in 0 .. MaxPageBreaks
    BY <1>6, <1>b DEF EditBreaks
  <2> QED
    BY <2>1, <2>2, CutOffStep
<1>7. CASE UNCHANGED pageVars
  <2>1. /\ files' = files /\ edit' = edit /\ bookCover' = bookCover /\ deleted' = deleted /\ promised' = promised
        /\ tangled' = tangled /\ pageEdits' = pageEdits /\ pageBreaks' = pageBreaks
    BY <1>7 DEF pageVars
  <2>2. PageTyped' /\ OneReorder'
    BY <2>1 DEF PageInv, PageTyped, OneReorder, Reorders
  <2>3. PagesStay'
    BY <2>1 DEF PageInv, PagesStay, PagesKept, Reorders, RoomAhead
  <2>4. AloneIsAlone' /\ PromisedAtRest'
    BY <2>1 DEF PageInv, AloneIsAlone, PromisedAtRest, OnItsOwn, InHand
  <2>5. PagesOf(PageList)' = PagesOf(PageList)
    BY <2>1 DEF PagesOf, PageList
  <2>6. DoneAsAsked'
    BY <2>1, <2>5 DEF PageInv, DoneAsAsked
  <2>7. AsWanted'
    <3> SUFFICES ASSUME NEW e \in Editors, OnItsOwn(e)'
                 PROVE  /\ edit'[e].op = "delete" => edit'[e].wanted = PagesOf(Natsorted(Left(edit[e].todo)))'
                        /\ Reorders(e)' => Doomed(edit[e].todo)' \/ Twice(edit[e].todo)' \/ OnTrack(edit[e].todo, edit[e].wanted)'
      BY DEF AsWanted
    <3>1. OnItsOwn(e) /\ (Reorders(e)' <=> Reorders(e))
      BY <2>1 DEF OnItsOwn, InHand, Reorders
    <3>2. /\ edit[e].op = "delete" => edit[e].wanted = PagesOf(Natsorted(Left(edit[e].todo)))
          /\ Reorders(e) => Doomed(edit[e].todo) \/ Twice(edit[e].todo) \/ OnTrack(edit[e].todo, edit[e].wanted)
      BY <3>1 DEF PageInv, AsWanted
    <3>3. Left(edit[e].todo)' = Left(edit[e].todo) /\ (Doomed(edit[e].todo)' <=> Doomed(edit[e].todo))
      BY <2>1 DEF Left, Doomed
    <3>4. PagesOf(Natsorted(Left(edit[e].todo)))' = PagesOf(Natsorted(Left(edit[e].todo)))
      <4>1. Natsorted(Left(edit[e].todo))' = Natsorted(Left(edit[e].todo))
        BY <3>3 DEF Natsorted
      <4> QED
        BY <2>1, <4>1 DEF PagesOf
    <3>5. Twice(edit[e].todo)' <=> Twice(edit[e].todo)
      BY <2>1 DEF Twice
    <3>6. OnTrack(edit[e].todo, edit[e].wanted)' <=> OnTrack(edit[e].todo, edit[e].wanted)
      BY <2>1 DEF OnTrack, Places
    <3> QED
      BY <2>1, <3>1, <3>2, <3>3, <3>4, <3>5, <3>6
  <2> QED
    BY <2>2, <2>3, <2>4, <2>6, <2>7 DEF PageInv
<1> QED
  BY <1>1, <1>2, <1>3, <1>4, <1>5, <1>6, <1>7 DEF PageNext

\* What the invariant says of the pages.
LEMMA PageAt == PageInv => PageEditsAgree /\ PageTypeOK
<1> SUFFICES ASSUME PageInv PROVE PageEditsAgree /\ PageTypeOK
  OBVIOUS
<1>1. PageEditsAgree
  BY DEF PageInv, PagesStay, PageEditsAgree, PagesKeptInOrder
<1>2. PageTypeOK
  BY DEF PageInv, PageTyped, PageTypeOK, EditFits
<1> QED
  BY <1>1, <1>2

\* However deletions and reorderings of a book's pages run, overlap, miss a file
\* or are cut off, no page is lost but by a deletion unless reorderings were cut
\* off or overlapped, and an edit that ran alone and was reported as done left the
\* pages and the cover as it was asked to (image_service.py, routers/pdfs.py).
THEOREM PagesAreKept == PageSpec => []PageEditsAgree
<1>1. PageInit => PageInv
  BY PageInvInit
<1>2. PageInv /\ [PageNext]_pageVars => PageInv'
  BY PageInvStep
<1>3. PageInv => PageEditsAgree
  BY PageAt
<1> QED
  BY <1>1, <1>2, <1>3, PTL DEF PageSpec

-----------------------------------------------------------------------------
(***************************************************************************)
(* The parts together.  A step is of the part in focus; the others rest.   *)
(***************************************************************************)
CatalogInv ==
    /\ focus \in {"captures", "imports", "price", "backups", "library", "pages"}
    /\ TypeOK /\ BusyOK
    /\ ImportInv /\ PriceInv /\ BackupInv /\ LibraryInv /\ PageInv

\* Every part starts as its invariant says.
LEMMA CatalogInvInit == CatalogInit => CatalogInv
<1> SUFFICES ASSUME CatalogInit PROVE CatalogInv
  OBVIOUS
<1>1. /\ focus \in {"captures", "imports", "price", "backups", "library", "pages"}
      /\ Init /\ ImportInit /\ PriceInit /\ BackupInit /\ LibraryInit /\ PageInit
  BY DEF CatalogInit
<1>2. TypeOK /\ BusyOK
  BY <1>1, PubInvInit DEF PubInv, WorkersOK, WorkerOK, BusyOK
<1>3. ImportInv /\ PriceInv /\ BackupInv /\ LibraryInv /\ PageInv
  BY <1>1, ImportInvInit, PriceInvInit, BackupInvInit, LibraryInvInit, PageInvInit
<1> QED
  BY <1>1, <1>2, <1>3 DEF CatalogInv

\* A step takes one part on, or none, and each of them keeps its invariant.
LEMMA CatalogInvStep == CatalogInv /\ [CatalogNext]_catalogVars => CatalogInv'
<1> SUFFICES ASSUME CatalogInv, [CatalogNext]_catalogVars PROVE CatalogInv'
  OBVIOUS
<1>1. /\ [Next]_vars /\ [ImportNext]_importVars /\ [PriceNext]_priceVars /\ [BackupNext]_backupVars
      /\ [LibraryNext]_libraryVars /\ [PageNext]_pageVars /\ focus' = focus
  <2>1. CASE Only("captures", Next, <<importVars, priceVars, backupVars, libraryVars, pageVars>>)
    BY <2>1 DEF Only
  <2>2. CASE Only("imports", ImportNext, <<vars, priceVars, backupVars, libraryVars, pageVars>>)
    BY <2>2 DEF Only
  <2>3. CASE Only("price", PriceNext, <<vars, importVars, backupVars, libraryVars, pageVars>>)
    BY <2>3 DEF Only
  <2>4. CASE Only("backups", BackupNext, <<vars, importVars, priceVars, libraryVars, pageVars>>)
    BY <2>4 DEF Only
  <2>5. CASE Only("library", LibraryNext, <<vars, importVars, priceVars, backupVars, pageVars>>)
    BY <2>5 DEF Only
  <2>6. CASE Only("pages", PageNext, <<vars, importVars, priceVars, backupVars, libraryVars>>)
    BY <2>6 DEF Only
  <2>7. CASE UNCHANGED catalogVars
    BY <2>7 DEF catalogVars
  <2> QED
    BY <2>1, <2>2, <2>3, <2>4, <2>5, <2>6, <2>7 DEF CatalogNext
<1>2. TypeOK /\ BusyOK /\ ImportInv /\ PriceInv /\ BackupInv /\ LibraryInv /\ PageInv
  BY DEF CatalogInv
<1>3. TypeOK' /\ BusyOK'
  BY <1>1, <1>2, TypesStep, BusyStep
<1>4. ImportInv' /\ PriceInv' /\ BackupInv'
  BY <1>1, <1>2, ImportInvStep, PriceInvStep, BackupInvStep
<1>5. LibraryInv' /\ PageInv'
  BY <1>1, <1>2, LibraryInvStep, PageInvStep
<1>6. focus' \in {"captures", "imports", "price", "backups", "library", "pages"}
  BY <1>1 DEF CatalogInv
<1> QED
  BY <1>3, <1>4, <1>5, <1>6 DEF CatalogInv

\* The invariant holds in every state.
LEMMA CatalogIsInvariant == CatalogSpec => []CatalogInv
BY CatalogInvInit, CatalogInvStep, PTL DEF CatalogSpec

\* Every part of the catalogue keeps its types, whatever the number of books,
\* pages, threads and faults (CatalogTypeOK).
THEOREM CatalogIsTyped == CatalogSpec => []CatalogTypeOK
<1>1. CatalogInv => CatalogTypeOK
  <2> SUFFICES ASSUME CatalogInv PROVE CatalogTypeOK
    OBVIOUS
  <2>1. TypeOK /\ ImportTypeOK /\ PriceTypeOK /\ BackupTypeOK /\ LibraryTypeOK /\ PageTypeOK
    BY ImportAt, PriceAt, BackupAt, LibraryAt, PageAt DEF CatalogInv
  <2>2. focus \in {"captures", "imports", "price", "backups", "library", "pages"}
    BY DEF CatalogInv
  <2> QED
    BY <2>1, <2>2 DEF CatalogTypeOK
<1> QED
  BY <1>1, CatalogIsInvariant, PTL

\* What is skipped is in the tables, a reported crossing is one and is reported
\* once, a backup can be restored, the parts and the row of a book stay together,
\* and its pages stay and are in the order asked for (CatalogAgrees).
THEOREM CatalogHolds == CatalogSpec => []CatalogAgrees
<1>1. CatalogInv => CatalogAgrees
  <2> SUFFICES ASSUME CatalogInv PROVE CatalogAgrees
    OBVIOUS
  <2>1. ImportsAgree /\ NotificationsAgree /\ BackupsAgree /\ LibraryAgrees /\ PageEditsAgree
    BY ImportAt, PriceAt, BackupAt, LibraryAt, PageAt DEF CatalogInv
  <2> QED
    BY <2>1 DEF CatalogAgrees
<1> QED
  BY <1>1, CatalogIsInvariant, PTL
=============================================================================
