---------------------------- MODULE PageFtsIndex ----------------------------
(***************************************************************************)
(* The page-level full-text index (services/novel_db/page_fts_state.py,    *)
(* page_fts_builder.py, page_fts_query.py): writers of canonical pages     *)
(* advance a revision, builders read one state of the pages, write a new   *)
(* LanceDB table and activate it if the revision is still theirs, searches *)
(* open the active table.  LanceDB and the statements of SQLite are steps  *)
(* of their own, so all three interleave; the tables are never changed     *)
(* once they are built.                                                    *)
(***************************************************************************)
EXTENDS Naturals, Sequences

CONSTANTS
    FtsPages,
    FtsTexts,           \* what a page can say; a query finds one text
    FtsBuilders,        \* processes of scripts/build_page_fts_index.py
    FtsReaders,         \* threads that search
    MaxRevision,        \* bound of the revisions
    MaxTables           \* bound of the tables

NotEligible == "not eligible"

ASSUME FtsAssumption == NotEligible \notin FtsTexts /\ MaxRevision \in Nat \ {0} /\ MaxTables \in Nat

VARIABLES
    canon,              \* page -> its text, NotEligible if the index leaves it out
    revision,           \* novel_search_index_state.source_revision
    active,             \* its status, active_source_revision and active_table_name (0: none)
    tables,             \* the LanceDB tables so far, in order of creation
    build,              \* builder -> its position and what it read
    search              \* reader -> its position, query, the table and the revision it opened

ftsVars == <<canon, revision, active, tables, build, search>>

Contents == [FtsPages -> FtsTexts \cup {NotEligible}]
NoBuild == [at |-> "idle"]
NoSearch == [at |-> "idle"]

FtsInit ==
    /\ canon \in Contents
    /\ revision = 1
    /\ active = [status |-> "stale", rev |-> 0, table |-> 0]
    /\ tables = <<>>
    /\ build = [b \in FtsBuilders |-> NoBuild]
    /\ search = [r \in FtsReaders |-> NoSearch]
-----------------------------------------------------------------------------
\* mark_page_fts_stale, in the transaction that writes the pages.
SameRevision == revision                              \* slip: the revision does not advance
Advanced == revision + 1

\* A publication or an extraction writes pages; a corrected page is only marked.
WritePages ==
    /\ revision < MaxRevision
    /\ \/ canon' = canon
       \/ \E p \in FtsPages, t \in FtsTexts \cup {NotEligible} : canon' = [canon EXCEPT ![p] = t]
    /\ revision' = Advanced
    /\ active' = [active EXCEPT !.status = "stale"]
    /\ UNCHANGED <<tables, build, search>>
-----------------------------------------------------------------------------
(***************************************************************************)
(* build_page_fts_index                                                    *)
(***************************************************************************)
Builds(b, record) == build' = [build EXCEPT ![b] = record]

ReadRevision(b) ==
    /\ build[b] = NoBuild
    /\ Builds(b, [at |-> "state", rev |-> revision])
    /\ UNCHANGED <<canon, revision, active, tables, search>>

ReadRows(b) ==
    /\ build[b].at = "state"
    /\ Builds(b, [at |-> "rows", rev |-> build[b].rev, rows |-> canon])
    /\ UNCHANGED <<canon, revision, active, tables, search>>

CreateTable(b) ==
    /\ build[b].at = "rows"
    /\ Len(tables) < MaxTables
    /\ tables' = Append(tables, [live |-> TRUE, rows |-> build[b].rows])
    /\ Builds(b, [at |-> "created", rev |-> build[b].rev, table |-> Len(tables) + 1])
    /\ UNCHANGED <<canon, revision, active, search>>

StillMineAnyway(b) == TRUE                            \* slip: no comparison of the revision
StillMine(b) == build[b].rev = revision

Activate(b) ==
    /\ build[b].at = "created"
    /\ StillMine(b)
    /\ active' = [status |-> "active", rev |-> build[b].rev, table |-> build[b].table]
    /\ Builds(b, NoBuild)
    /\ UNCHANGED <<canon, revision, tables, search>>

\* A conflict or an error: the table that was created is dropped, if that works.
Abandoned(b) == [tables EXCEPT ![build[b].table].live = FALSE]

BuildFails(b) ==
    /\ build[b].at = "created"
    /\ tables' \in {Abandoned(b), tables}
    /\ Builds(b, NoBuild)
    /\ UNCHANGED <<canon, revision, active, search>>

\* It fails or is killed before it has a table, or is killed with one.
BuildEnds(b) ==
    /\ build[b] # NoBuild
    /\ Builds(b, NoBuild)
    /\ UNCHANGED <<canon, revision, active, tables, search>>
-----------------------------------------------------------------------------
(***************************************************************************)
(* search_page_fts; whenever it raises, lexical_search answers from FTS5.  *)
(***************************************************************************)
Searches(r, record) == search' = [search EXCEPT ![r] = record]

UsableOnce == active.table # 0 /\ tables[active.table].live    \* slip: a stale index is searched
Usable == active.status = "active" /\ active.rev = revision /\ tables[active.table].live

Open(r) ==
    /\ search[r].at \in {"idle", "found"}
    /\ \E q \in FtsTexts :
        Searches(r, IF Usable
                    THEN [at |-> "opened", query |-> q, rev |-> revision, table |-> active.table]
                    ELSE NoSearch)
    /\ UNCHANGED <<canon, revision, active, tables, build>>

Hits(r) == {p \in FtsPages : tables[search[r].table].rows[p] = search[r].query}

Query(r) ==
    /\ search[r].at = "opened"
    /\ Searches(r, [at |-> "queried", query |-> search[r].query, rev |-> search[r].rev, hits |-> Hits(r)])
    /\ UNCHANGED <<canon, revision, active, tables, build>>

\* The hits are looked up in SQLite, as they are now; one that is not eligible any more raises.
Fetch(r) ==
    /\ search[r].at = "queried"
    /\ Searches(r, IF \E p \in search[r].hits : canon[p] = NotEligible THEN NoSearch
                   ELSE [search[r] EXCEPT !.at = "found"])
    /\ UNCHANGED <<canon, revision, active, tables, build>>
-----------------------------------------------------------------------------
FtsNext ==
    \/ WritePages
    \/ \E b \in FtsBuilders : \/ ReadRevision(b) \/ ReadRows(b) \/ CreateTable(b)
                              \/ Activate(b) \/ BuildFails(b) \/ BuildEnds(b)
    \/ \E r \in FtsReaders : Open(r) \/ Query(r) \/ Fetch(r)

FtsSpec == FtsInit /\ [][FtsNext]_ftsVars
-----------------------------------------------------------------------------
\* Types of the index.
FtsTypeOK ==
    /\ canon \in Contents
    /\ revision \in 1 .. MaxRevision
    /\ active \in [status : {"stale", "active"}, rev : 0 .. MaxRevision, table : 0 .. Len(tables)]
    /\ tables \in Seq([live : BOOLEAN, rows : Contents])
    /\ \A b \in FtsBuilders : build[b].at \in {"idle", "state", "rows", "created"}
    /\ \A r \in FtsReaders : search[r].at \in {"idle", "opened", "queried", "found"}

\* An index with the status 'active' is that of the revision, is there, and says of every page what the
\* canonical pages say, whatever was written while it, or another one, was
\* built (_activate_index, _drop_failed_table).
ActiveIndexIsCurrent ==
    active.status = "active" =>
        /\ active.rev = revision
        /\ tables[active.table].live /\ tables[active.table].rows = canon

\* What a search found is what the pages say, as long as no writer overlaps it:
\* no table changes or goes while it is in use (the tables are immutable).
OpenedTableIsCurrent ==
    \A r \in FtsReaders :
        /\ search[r].at = "opened" /\ search[r].rev = revision => tables[search[r].table].rows = canon
        /\ search[r].at \in {"queried", "found"} /\ search[r].rev = revision =>
             search[r].hits = {p \in FtsPages : canon[p] = search[r].query}

\* Neither a search that writers do not overlap nor the index it uses is
\* behind the canonical pages (open_active_page_fts_table).
FtsAgrees == ActiveIndexIsCurrent /\ OpenedTableIsCurrent
=============================================================================
