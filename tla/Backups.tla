------------------------------ MODULE Backups ------------------------------
(***************************************************************************)
(* The generations of server backups (tools/server_backup.py,              *)
(* dense_backup_validation.py, deploy/backup-meta.sh and its units).  A    *)
(* backup copies the databases one after the other while the server goes   *)
(* on writing, publishes the copies that pass its checks as a generation,  *)
(* and removes expired ones; a verification copies the latest generation   *)
(* back and repeats the checks.  The timers run them under one lock, the   *)
(* commands of the operations guide without it.                            *)
(*                                                                         *)
(* Of the databases, the chunks in novel.db and their vectors in LanceDB   *)
(* are looked at, each of some text.  They change in any order: how they   *)
(* do is ChunkIndex's matter.                                              *)
(***************************************************************************)
EXTENDS Integers, Sequences

CONSTANTS
    BackupTools,        \* running commands
    RetentionDays,
    MaxDay,             \* bound of the clock
    MaxTexts,           \* bound of the rebuilds
    MaxGenerations,
    MaxBackupFaults     \* bound of the commands that fail or are killed

ASSUME BackupAssumption ==
    /\ RetentionDays \in Nat \ {0}
    /\ MaxDay \in Nat /\ MaxTexts \in Nat /\ MaxGenerations \in Nat /\ MaxBackupFaults \in Nat

VARIABLES
    live,               \* store -> the text that its rows are of
    generations,        \* in the order of their publication; files: whole, half or gone
    command,            \* tool -> the command it runs
    day,
    backupFaults

backupVars == <<live, generations, command, day, backupFaults>>

Stores == {"novel", "lance"}
NoCommand == [at |-> "rest", locked |-> FALSE]

BackupInit ==
    /\ live = [s \in Stores |-> 0]
    /\ generations = <<>>
    /\ command = [k \in BackupTools |-> NoCommand]
    /\ day = 0 /\ backupFaults = 0

Does(k, step) == command' = [command EXCEPT ![k] = step]

\* A step of a rebuild.
LiveWrites(s) ==
    /\ live[s] < MaxTexts
    /\ live' = [live EXCEPT ![s] = @ + 1]
    /\ UNCHANGED <<generations, command, day, backupFaults>>

NextDay ==
    /\ day < MaxDay
    /\ day' = day + 1
    /\ UNCHANGED <<live, generations, command, backupFaults>>

NoLockNeeded(k, locked) == TRUE                            \* slip: a unit without flock
MayStart(k, locked) == locked => \A other \in BackupTools : ~command[other].locked

Starts(k, locked) == command[k] = NoCommand /\ MayStart(k, locked)
-----------------------------------------------------------------------------
StartBackup(k, locked) ==
    /\ Starts(k, locked)
    /\ Len(generations) < MaxGenerations
    /\ Does(k, [at |-> "novel", locked |-> locked, now |-> day])
    /\ UNCHANGED <<live, generations, day, backupFaults>>

CopyNovel(k) ==
    /\ command[k].at = "novel"
    /\ Does(k, [at |-> "lance", locked |-> command[k].locked, now |-> command[k].now, novel |-> live["novel"]])
    /\ UNCHANGED <<live, generations, day, backupFaults>>

AgreesById(novel, lance) == TRUE                           \* slip: ids come back, texts are not compared
Agrees(novel, lance) == novel = lance

\* LanceDB is copied, in a state that it has at some moment, and checked.
CopyLance(k) ==
    /\ command[k].at = "lance"
    /\ Does(k, IF Agrees(command[k].novel, live["lance"])
               THEN [at |-> "publish", locked |-> command[k].locked, now |-> command[k].now,
                     paired |-> command[k].novel = live["lance"]]
               ELSE NoCommand)
    /\ UNCHANGED <<live, generations, day, backupFaults>>

Publish(k) ==
    /\ command[k].at = "publish"
    /\ Len(generations) < MaxGenerations
    /\ generations' = Append(generations,
          [created |-> command[k].now, locked |-> command[k].locked,
           paired |-> command[k].paired, files |-> "whole", listed |-> TRUE])
    /\ Does(k, [at |-> "purge", locked |-> command[k].locked, now |-> command[k].now])
    /\ UNCHANGED <<live, day, backupFaults>>

\* A generation whose manifest cannot be read is not looked at.
Listed == {n \in DOMAIN generations : generations[n].listed}

ExpiredByClock(k) == {n \in Listed : generations[n].created < day - RetentionDays}   \* slip: now is asked anew
Expired(k) == {n \in Listed : generations[n].created < command[k].now - RetentionDays}

Becomes(n, files, listed) ==
    generations' = [generations EXCEPT ![n].files = files, ![n].listed = listed]

Purge(k) ==
    /\ command[k].at = "purge"
    /\ IF Expired(k) = {}
       THEN Does(k, NoCommand) /\ UNCHANGED generations
       ELSE (\E n \in Expired(k) : Becomes(n, "gone", FALSE)) /\ UNCHANGED command
    /\ UNCHANGED <<live, day, backupFaults>>

\* The files of a generation are removed in any order.
PurgeBreaks(k) ==
    /\ command[k].at = "purge"
    /\ \E n \in Expired(k), listed \in BOOLEAN : Becomes(n, "half", listed)
    /\ Does(k, NoCommand)
    /\ UNCHANGED <<live, day>>

\* A command fails or is killed; a staging directory may stay, but no command
\* looks at hidden ones.
Stops(k) ==
    /\ command[k] # NoCommand
    /\ Does(k, NoCommand)
    /\ UNCHANGED <<live, generations, day>>

CommandBreaks(k) ==
    /\ backupFaults < MaxBackupFaults
    /\ backupFaults' = backupFaults + 1
    /\ PurgeBreaks(k) \/ Stops(k)
-----------------------------------------------------------------------------
Latest == {n \in Listed : \A m \in Listed : generations[m].created <= generations[n].created}

StartVerify(k, locked) ==
    /\ Starts(k, locked)
    /\ \E n \in Latest : Does(k, [at |-> "restore", locked |-> locked, of |-> n])
    /\ UNCHANGED <<live, generations, day, backupFaults>>

\* The copy is checked as the backup was; without its files it cannot be made.
EndVerify(k) ==
    /\ command[k].at = "restore"
    /\ Does(k, NoCommand)
    /\ UNCHANGED <<live, generations, day, backupFaults>>

BackupNext ==
    \/ \E s \in Stores : LiveWrites(s)
    \/ NextDay
    \/ \E k \in BackupTools :
          \/ \E locked \in BOOLEAN : StartBackup(k, locked) \/ StartVerify(k, locked)
          \/ CopyNovel(k) \/ CopyLance(k) \/ Publish(k) \/ Purge(k) \/ CommandBreaks(k) \/ EndVerify(k)

BackupSpec == BackupInit /\ [][BackupNext]_backupVars
-----------------------------------------------------------------------------
BackupTypeOK ==
    /\ live \in [Stores -> 0 .. MaxTexts]
    /\ Len(generations) <= MaxGenerations
    /\ \A n \in DOMAIN generations :
           /\ generations[n].created \in 0 .. MaxDay
           /\ generations[n].files \in {"whole", "half", "gone"}
    /\ \A k \in BackupTools : command[k].at \in {"rest", "novel", "lance", "publish", "purge", "restore"}
    /\ day \in 0 .. MaxDay /\ backupFaults \in 0 .. MaxBackupFaults

\* Every generation pairs chunks with vectors of their text, whatever is written
\* while its databases are copied.
GenerationsAgree == \A n \in DOMAIN generations : generations[n].paired

\* However commands overlap and end, a generation loses files only if one that
\* is younger by more than the retention was made.
RecentStay ==
    \A n \in DOMAIN generations : generations[n].files # "whole" =>
        \E m \in DOMAIN generations : generations[m].created > generations[n].created + RetentionDays

\* What a verification under the lock restores stays whole until it ends, unless
\* a backup without the lock ran.
RestoredStays ==
    \A k \in BackupTools : command[k].at = "restore" /\ command[k].locked =>
        \/ generations[command[k].of].files = "whole"
        \/ \E n \in DOMAIN generations : ~generations[n].locked

BackupsAgree == GenerationsAgree /\ RecentStay /\ RestoredStays
=============================================================================
