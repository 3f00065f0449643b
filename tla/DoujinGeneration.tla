--------------------------- MODULE DoujinGeneration --------------------------
(***************************************************************************)
(* Books that a user copies into a folder become library images            *)
(* (services/doujin_watcher.py, generate_service.py, pdf_generator.py).    *)
(* The watcher ticks in the event loop and starts a job once two scans of  *)
(* the folder agree; so does a request.  The job runs in a thread: it      *)
(* walks over the folder and, when it is through, moves what it generated  *)
(* to the folder of completed items.  The user goes on copying meanwhile.  *)
(*                                                                         *)
(* An item is a zip file, or a directory with images of its own; either    *)
(* may lie within a directory that is an item, too.  The name of a book in *)
(* the library is the last part of the item's path without an ending, so   *)
(* several items can write to one book.                                    *)
(*                                                                         *)
(* Every content that an item ever has is a version of its own; a scan     *)
(* tells two versions apart by size, number of files and time.             *)
(***************************************************************************)
EXTENDS Naturals

CONSTANTS
    Items,              \* paths of zip files and of directories with images
    BookOf,             \* item -> the name of its book in the library
    Inside,             \* item -> the items that lie in its directory
    MaxVersion,         \* bound of the copies, each of which makes a new version
    MaxManual           \* bound of the manual starts and the server's restarts

ASSUME DoujinAssumption ==
    /\ MaxVersion \in Nat /\ MaxManual \in Nat
    /\ DOMAIN BookOf = Items
    /\ Inside \in [Items -> SUBSET Items]
    /\ \A i \in Items : i \notin Inside[i] /\ \A c \in Inside[i] : Inside[c] \subseteq Inside[i]

VARIABLES
    folder,             \* DOUJIN_INPUT_DIR: item -> its version, 0 if it is not there
    copied,             \* copies so far
    images,             \* IMAGES_DIR: item -> the version whose images are all in the item's book, or 0
    archive,            \* COMPLETE_DIR: item -> the version that was moved there last, or 0
    watch,              \* _snapshot and _last_attempted
    job,                \* the job that holds generate_lock
    outcome,            \* status of the last job
    untried,            \* items no job has read since they were copied; history only
    manual

doujinVars == <<folder, copied, images, archive, watch, job, outcome, untried, manual>>

Nothing == [i \in Items |-> 0]
NeverSeen == [i \in Items |-> MaxVersion + 1]          \* None
NoJob == [at |-> "none"]
Unlocked == job = NoJob

DoujinInit ==
    /\ folder = Nothing /\ copied = 0 /\ images = Nothing /\ archive = Nothing
    /\ watch = [snapshot |-> NeverSeen, attempted |-> NeverSeen]
    /\ job = NoJob
    /\ outcome = "none"
    /\ untried = {}
    /\ manual = 0

\* History: which items changed between their reading and their move.
Changed(i) ==
    job' = IF job # NoJob /\ i \in job.listed \cup job.moves THEN [job EXCEPT !.swapped = @ \cup {i}] ELSE job
-----------------------------------------------------------------------------
\* The user copies an item, or more of it, or another one of that name.
Copy(i) ==
    /\ copied < MaxVersion /\ copied' = copied + 1
    /\ folder' = [folder EXCEPT ![i] = copied']
    /\ untried' = untried \cup {i}
    /\ Changed(i)
    /\ UNCHANGED <<images, archive, watch, outcome, manual>>

TakeOut(i) ==
    /\ folder[i] # 0
    /\ folder' = [folder EXCEPT ![i] = 0]
    /\ untried' = untried \ {i}
    /\ Changed(i)
    /\ UNCHANGED <<copied, images, archive, watch, outcome, manual>>
-----------------------------------------------------------------------------
(***************************************************************************)
(* tick(): no await between the scan and the acquisition of the lock.      *)
(***************************************************************************)
Stable == folder # Nothing /\ folder = watch.snapshot
StartJob == job' = [at |-> "started", todo |-> {}, listed |-> {}, moves |-> {}, swapped |-> {}]

TickEmpty ==
    /\ folder = Nothing
    /\ watch' = [snapshot |-> Nothing, attempted |-> NeverSeen]
    /\ UNCHANGED <<folder, copied, images, archive, job, outcome, untried, manual>>

TickChanged ==
    /\ folder # Nothing /\ ~Stable
    /\ watch' = [watch EXCEPT !.snapshot = folder]
    /\ UNCHANGED <<folder, copied, images, archive, job, outcome, untried, manual>>

\* With the lock taken nothing happens, _last_attempted is not set either.
AttemptLocked ==                                       \* slip: the attempt is noted before the lock is looked at
    /\ watch' = [watch EXCEPT !.attempted = folder]
    /\ IF Unlocked THEN StartJob ELSE UNCHANGED job
Attempt ==
    /\ Unlocked
    /\ watch' = [watch EXCEPT !.attempted = folder]
    /\ StartJob

TickStable ==
    /\ Stable
    /\ folder # watch.attempted
    /\ Attempt
    /\ UNCHANGED <<folder, copied, images, archive, outcome, untried, manual>>

\* POST /generate; 409 if the lock is taken.
Manual ==
    /\ Unlocked
    /\ manual < MaxManual /\ manual' = manual + 1
    /\ StartJob
    /\ watch' = [watch EXCEPT !.attempted = NeverSeen]
    /\ UNCHANGED <<folder, copied, images, archive, outcome, untried>>
-----------------------------------------------------------------------------
(***************************************************************************)
(* scan_and_generate in the job's thread.                                  *)
(***************************************************************************)
Walk ==
    /\ job.at = "started"
    /\ job' = [job EXCEPT !.at = "walking", !.todo = {i \in Items : folder[i] # 0}]
    /\ UNCHANGED <<folder, copied, images, archive, watch, outcome, untried, manual>>

\* The names of an item's files are read.
List(i) ==
    /\ job.at = "walking" /\ i \in job.todo
    /\ job' = [job EXCEPT !.todo = @ \ {i}, !.listed = @ \cup {i}]
    /\ untried' = untried \ {i}
    /\ UNCHANGED <<folder, copied, images, archive, watch, outcome, manual>>

\* What an item writes into its book may replace images of the other items of
\* that name, and of an earlier version of its own.
SameBook(i) == {k \in Items : BookOf[k] = BookOf[i]}
Overwrites(i) ==
    \E torn \in SUBSET SameBook(i) :
        images' = [k \in Items |-> IF k \in torn THEN 0 ELSE images[k]]
OverwritesOthers(i, version) ==
    \E torn \in SUBSET SameBook(i) :
        images' = [k \in Items |-> IF k = i THEN version ELSE IF k \in torn THEN 0 ELSE images[k]]

\* An item that fails, or in which there is no image, stays where it is.
MovesOfAll(i) == job.moves \cup {i}                    \* slip: failed items are moved, too
MovesOf(i) == job.moves

\* What lies in a directory comes before the directory.  An item that changed
\* after its reading may come out as neither version.
Process(i) ==
    /\ job.at = "walking" /\ i \in job.listed
    /\ Inside[i] \cap (job.todo \cup job.listed) = {}
    /\ \/ /\ folder[i] # 0
          /\ \E version \in {folder[i]} \cup (IF i \in job.swapped THEN {0} ELSE {}) : OverwritesOthers(i, version)
          /\ job' = [job EXCEPT !.listed = @ \ {i}, !.moves = @ \cup {i},
                                !.swapped = @ \cup (job.moves \cap SameBook(i))]
       \/ /\ Overwrites(i)
          /\ job' = [job EXCEPT !.listed = @ \ {i}, !.moves = MovesOf(i),
                                !.swapped = @ \cup (job.moves \cap SameBook(i))]
    /\ UNCHANGED <<folder, copied, archive, watch, outcome, untried, manual>>

StartMoves ==
    /\ job.at = "walking" /\ job.todo = {} /\ job.listed = {}
    /\ job' = [job EXCEPT !.at = "moving"]
    /\ UNCHANGED <<folder, copied, images, archive, watch, outcome, untried, manual>>

\* execute_moves: what is there under the name is replaced, or put back if the
\* move fails.  A directory takes along what still lies in it.
MoveDone(i) ==
    /\ job.at = "moving" /\ i \in job.moves
    /\ Inside[i] \cap job.moves = {}
    /\ \/ LET taken == {k \in {i} \cup Inside[i] : folder[k] # 0} IN
          /\ folder[i] # 0
          /\ archive' = [k \in Items |-> IF k \in taken THEN folder[k] ELSE archive[k]]
          /\ folder' = [k \in Items |-> IF k \in taken THEN 0 ELSE folder[k]]
       \/ UNCHANGED <<archive, folder>>
    /\ job' = [job EXCEPT !.moves = @ \ {i}]
    /\ UNCHANGED <<copied, images, watch, outcome, untried, manual>>

EndJob ==
    /\ job.at = "moving" /\ job.moves = {}
    /\ job' = NoJob
    /\ outcome' = "completed"
    /\ UNCHANGED <<folder, copied, images, archive, watch, untried, manual>>

\* A directory cannot be created, or the metadata not be written at the end.
JobRaises ==
    /\ job.at \in {"started", "walking"} \/ (job.at = "moving" /\ job.moves = {})
    /\ job' = NoJob
    /\ outcome' = "failed"
    /\ UNCHANGED <<folder, copied, images, archive, watch, untried, manual>>

StopServer ==
    /\ manual < MaxManual /\ manual' = manual + 1
    /\ watch' = [snapshot |-> NeverSeen, attempted |-> NeverSeen]
    /\ job' = NoJob
    /\ outcome' = "none"
    /\ UNCHANGED <<folder, copied, images, archive, untried>>
-----------------------------------------------------------------------------
Tick == TickEmpty \/ TickChanged \/ TickStable
JobStep == Walk \/ StartMoves \/ EndJob \/ \E i \in Items : List(i) \/ Process(i) \/ MoveDone(i)

DoujinNext ==
    \/ \E i \in Items : Copy(i) \/ TakeOut(i)
    \/ Tick \/ Manual \/ JobStep \/ JobRaises \/ StopServer

\* The watcher's loop sleeps between two ticks, whatever a tick raises; a job
\* reads and writes finitely many files.
DoujinFairness == WF_doujinVars(Tick) /\ WF_doujinVars(JobStep)

DoujinSpec == DoujinInit /\ [][DoujinNext]_doujinVars /\ DoujinFairness
-----------------------------------------------------------------------------
Versions == [Items -> 0 .. MaxVersion]

\* Types of the generation.
DoujinTypeOK ==
    /\ folder \in Versions /\ copied \in 0 .. MaxVersion /\ images \in Versions /\ archive \in Versions
    /\ watch \in [snapshot : Versions \cup {NeverSeen}, attempted : Versions \cup {NeverSeen}]
    /\ job \in {NoJob} \cup [at : {"started", "walking", "moving"}, todo : SUBSET Items, listed : SUBSET Items,
                         moves : SUBSET Items, swapped : SUBSET Items]
    /\ outcome \in {"none", "completed", "failed"}
    /\ untried \subseteq Items
    /\ manual \in 0 .. MaxManual

\* What is moved to the folder of completed items has all its images in the
\* library, in that version: no failure, restart or second run moves away what
\* was not generated.  Three ways out: the user changed the item after its files
\* were read (its move only comes when the whole folder is through), another
\* item of the same job wrote to its book, or it lay in a directory that was
\* moved (execute_moves, process_zip, process_directory).
ArchivedWasGenerated ==
    [][\A i \in Items :
        archive'[i] # archive[i] =>
            \/ images[i] = archive'[i]
            \/ i \in job.swapped
            \/ \E k \in job.moves \ job'.moves : i \in Inside[k]]_doujinVars

\* A copied item is read by a job sooner or later, however jobs, manual
\* starts and scans overlap, unless the move of an earlier version took it away
\* or the last job failed as a whole: what that job left is not tried again
\* before the folder changes or a user asks (tick).
CopiedItemIsTried ==
    \A i \in Items : i \in untried ~> i \notin untried \/ folder[i] = 0 \/ outcome = "failed"
=============================================================================
