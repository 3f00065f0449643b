-------------------------- MODULE ReleaseActivation -------------------------
(***************************************************************************)
(* The activation of a release of the backend                              *)
(* (deploy/activate-backend.sh): the running server is frozen for the      *)
(* backup and again for the migration, the paths of the backend and of the *)
(* common package are switched one after the other, the server is          *)
(* restarted and probed, and the EXIT trap undoes what was begun.  A       *)
(* command of the script is a step; any command may fail, and bash handles *)
(* a signal between two of them.                                           *)
(***************************************************************************)
EXTENDS Naturals, Sequences

CONSTANT MaxMishaps     \* bound of failures, signals, kills and deaths of the server

ASSUME ReleaseAssumption == MaxMishaps \in Nat

VARIABLES
    before,             \* part -> "old", or "gone" for a common package that is new: PREVIOUS_...
    path,               \* part -> the release that its active path leads to
    real,               \* parts whose active path is a directory and not a link
    flags,              \* BACKEND_SWITCHED, COMMON_SWITCHED
    frozen,             \* APP_FROZEN
    server,             \* stopped by the signal, and which release of each part it has loaded
    writers,            \* novel jobs are queued or running
    todo,               \* the commands that the script still has to execute
    trapped,            \* the EXIT trap runs
    marks,              \* what happened that the trap is no match for; history only
    mishaps

releaseVars == <<before, path, real, flags, frozen, server, writers, todo, trapped, marks, mishaps>>

Parts == {"backend", "common"}
New == [p \in Parts |-> "new"]
Down == [p \in Parts |-> "gone"]

Script ==
    <<"check", "stop", "note", "check", "backup", "resume", "build", "check", "stop", "note", "check",
      "migrate", "move backend", "flag backend", "move common", "flag common",
      "link common", "link backend", "resume", "restart", "probe",
      "clear backend", "clear common", "status">>
Rollback == <<"restore backend", "restore common", "restart old", "probe old">>

\* The command that does something to a part.
Moving == [backend |-> "move backend", common |-> "move common"]
Flagging == [backend |-> "flag backend", common |-> "flag common"]
Linking == [backend |-> "link backend", common |-> "link common"]
Clearing == [backend |-> "clear backend", common |-> "clear common"]
Restoring == [backend |-> "restore backend", common |-> "restore common"]

ReleaseInit ==
    /\ before \in {[p \in Parts |-> IF p = "common" THEN c ELSE "old"] : c \in {"old", "gone"}}
    /\ path = before
    /\ real \in SUBSET {p \in Parts : path[p] = "old"}
    /\ flags = {} /\ frozen = FALSE
    /\ server = [stopped |-> FALSE, loaded |-> path]
    /\ writers \in BOOLEAN
    /\ todo = Script /\ trapped = FALSE
    /\ marks = {} /\ mishaps = 0

Now(command) == todo # <<>> /\ Head(todo) = command
Done == todo' = Tail(todo) /\ UNCHANGED trapped
Mishap == mishaps < MaxMishaps /\ mishaps' = mishaps + 1
Running == ~server.stopped /\ server.loaded # Down

\* cleanup(): the restart only follows a rollback.
Exit ==
    /\ trapped' = TRUE
    /\ todo' = IF flags = {} THEN <<"resume">>
               ELSE <<"restore backend", "restore common", "resume", "restart">>
-----------------------------------------------------------------------------
(***************************************************************************)
(* The commands.                                                           *)
(***************************************************************************)
\* Backups, the environment, the smoke test and the schema: they may fail.
Pass ==
    /\ \E c \in {"backup", "build", "migrate", "status"} : Now(c)
    /\ Done
    /\ UNCHANGED <<before, path, real, flags, frozen, server, writers, marks, mishaps>>

\* assert_no_novel_writers
LooksOnce == Running => ~writers                      \* slip: with the server frozen it is not asked again
Quiet == ~writers

Check ==
    /\ Now("check")
    /\ IF Quiet THEN Done ELSE Exit
    /\ UNCHANGED <<before, path, real, flags, frozen, server, writers, marks, mishaps>>

\* freeze_app: first the signal, then APP_FROZEN.
Stop ==
    /\ Now("stop") /\ server.loaded # Down
    /\ server' = [server EXCEPT !.stopped = TRUE]
    /\ Done
    /\ UNCHANGED <<before, path, real, flags, frozen, writers, marks, mishaps>>

Note ==
    /\ Now("note")
    /\ frozen' = TRUE
    /\ Done
    /\ UNCHANGED <<before, path, real, flags, server, writers, marks, mishaps>>

\* resume_app
Resume ==
    /\ Now("resume")
    /\ server' = [server EXCEPT !.stopped = @ /\ ~frozen]
    /\ frozen' = FALSE
    /\ Done
    /\ UNCHANGED <<before, path, real, flags, writers, marks, mishaps>>

\* capture_previous_release: a directory is moved away, then the flag is set.
Move(p) ==
    /\ Now(Moving[p])
    /\ path' = IF p \in real THEN [path EXCEPT ![p] = "gone"] ELSE path
    /\ real' = real \ {p}
    /\ Done
    /\ UNCHANGED <<before, flags, frozen, server, writers, marks, mishaps>>

Flag(p) ==
    /\ Now(Flagging[p])
    /\ flags' = flags \cup {p}
    /\ Done
    /\ UNCHANGED <<before, path, real, frozen, server, writers, marks, mishaps>>

\* set_active_link
Link(p) ==
    /\ Now(Linking[p])
    /\ path' = [path EXCEPT ![p] = "new"]
    /\ Done
    /\ UNCHANGED <<before, real, flags, frozen, server, writers, marks, mishaps>>

Clear(p) ==
    /\ Now(Clearing[p])
    /\ flags' = flags \ {p}
    /\ Done
    /\ UNCHANGED <<before, path, real, frozen, server, writers, marks, mishaps>>

\* restore_previous_release, in the rollback and in the trap
RestoreBackendOnly(p) == IF p = "backend" THEN before[p] ELSE path[p]   \* slip: the common package is left
RestorePath(p) == before[p]

Restore(p) ==
    /\ Now(Restoring[p])
    /\ IF p \in flags
       THEN path' = [path EXCEPT ![p] = RestorePath(p)] /\ flags' = flags \ {p}
       ELSE UNCHANGED <<path, flags>>
    /\ Done
    /\ UNCHANGED <<before, real, frozen, server, writers, marks, mishaps>>

RestoreFails(p) ==
    /\ Now(Restoring[p]) /\ p \in flags
    /\ Mishap
    /\ marks' = IF trapped THEN marks \cup {"broken"} ELSE marks
    /\ Done
    /\ UNCHANGED <<before, path, real, flags, frozen, server, writers>>

\* systemctl restart; a server without its backend does not come up.
LoadedNow == IF path["backend"] = "gone" THEN Down ELSE path

Restart ==
    /\ Now("restart") \/ (Now("restart old") /\ flags = {})
    /\ server' = [stopped |-> FALSE, loaded |-> LoadedNow]
    /\ Done
    /\ UNCHANGED <<before, path, real, flags, frozen, writers, marks, mishaps>>

RestartFails ==
    /\ (trapped /\ Now("restart")) \/ (Now("restart old") /\ flags = {})
    /\ Mishap
    /\ marks' = marks \cup {"broken"}
    /\ Done
    /\ UNCHANGED <<before, path, real, flags, frozen, server, writers>>

Probe ==
    /\ Now("probe")
    /\ Done
    /\ UNCHANGED <<before, path, real, flags, frozen, server, writers, marks, mishaps>>

\* probe_service returns 1, for its restart or its requests.
ProbeFails ==
    /\ ~trapped
    /\ Now("restart") \/ Now("probe")
    /\ Mishap
    /\ todo' = Rollback
    /\ UNCHANGED <<before, path, real, flags, frozen, server, writers, trapped, marks>>

\* The rollback ends, as it may, with exit 1.
RollbackEnds ==
    /\ Now("probe old") \/ (Now("restart old") /\ flags # {})
    /\ Exit
    /\ UNCHANGED <<before, path, real, flags, frozen, server, writers, marks, mishaps>>
-----------------------------------------------------------------------------
\* A signal or a command that fails; three assignments come too late for it,
\* and one restart.
Unguarded ==
    \/ Now("note")
    \/ \E p \in Parts : Now(Flagging[p]) /\ path[p] # before[p]
    \/ Now("clear common")
    \/ (Now("restart old") /\ flags = {})

Breaks ==
    /\ todo # <<>> /\ ~trapped
    /\ Mishap
    /\ marks' = IF Unguarded THEN marks \cup {"gap"} ELSE marks
    /\ Exit
    /\ UNCHANGED <<before, path, real, flags, frozen, server, writers>>

\* kill -9, or a second signal while the trap runs
Killed ==
    /\ todo # <<>>
    /\ Mishap
    /\ todo' = <<>>
    /\ marks' = marks \cup {"killed"}
    /\ UNCHANGED <<before, path, real, flags, frozen, server, writers, trapped>>

\* The server: jobs come and go, it dies, systemd starts it again.
Jobs ==
    /\ Running
    /\ writers' = ~writers
    /\ UNCHANGED <<before, path, real, flags, frozen, server, todo, trapped, marks, mishaps>>

Dies ==
    /\ server.loaded # Down
    /\ Mishap
    /\ server' = [stopped |-> FALSE, loaded |-> Down]
    /\ marks' = marks \cup {"died"}
    /\ UNCHANGED <<before, path, real, flags, frozen, writers, todo, trapped>>

ComesBack ==
    /\ server.loaded = Down /\ LoadedNow # Down
    /\ server' = [server EXCEPT !.loaded = LoadedNow]
    /\ UNCHANGED <<before, path, real, flags, frozen, writers, todo, trapped, marks, mishaps>>
-----------------------------------------------------------------------------
ReleaseNext ==
    \/ Pass \/ Check \/ Stop \/ Note \/ Resume
    \/ \E p \in Parts : Move(p) \/ Flag(p) \/ Link(p) \/ Clear(p) \/ Restore(p) \/ RestoreFails(p)
    \/ Restart \/ RestartFails \/ Probe \/ ProbeFails \/ RollbackEnds
    \/ Breaks \/ Killed \/ Jobs \/ Dies \/ ComesBack

ReleaseSpec == ReleaseInit /\ [][ReleaseNext]_releaseVars
-----------------------------------------------------------------------------
Commands == {Script[i] : i \in DOMAIN Script} \cup {Rollback[i] : i \in DOMAIN Rollback}

\* Types of the activation.
ReleaseTypeOK ==
    /\ before \in [Parts -> {"old", "gone"}]
    /\ path \in [Parts -> {"old", "new", "gone"}]
    /\ real \subseteq Parts /\ flags \subseteq Parts
    /\ frozen \in BOOLEAN /\ writers \in BOOLEAN /\ trapped \in BOOLEAN
    /\ server \in [stopped : BOOLEAN, loaded : [Parts -> {"old", "new", "gone"}]]
    /\ todo \in Seq(Commands)
    /\ marks \subseteq {"gap", "broken", "killed", "died"}
    /\ mishaps \in 0 .. MaxMishaps

\* However the script ends, backend and common package are of one release, the
\* server is not left frozen and runs what the paths lead to - unless the
\* restoration failed itself, the script was killed, or a signal fell into one
\* of the gaps between an action and the flag that tells the trap of it.
ReleaseIsWhole ==
    todo = <<>> /\ marks \subseteq {"died"} =>
        /\ path \in {before, New}
        /\ ~server.stopped
        /\ server.loaded \in {path, Down}

\* The schema is migrated while nobody queues or executes a job: the server is
\* frozen before it is asked the last time.  Only one that dies and is started
\* by systemd can have a job again.
MigratesQuietly == Now("migrate") => ~writers \/ "died" \in marks

\* A failed or interrupted activation leaves a release that works, and no
\* activation changes the schema under a job (cleanup, freeze_app).
ReleaseAgrees == ReleaseIsWhole /\ MigratesQuietly
=============================================================================
