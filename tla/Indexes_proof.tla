---------------------------- MODULE Indexes_proof ----------------------------
(***************************************************************************)
(* Theorems about what is derived from the pages of the books: the         *)
(* full-text index of PageFtsIndex, the generated content of BookContent   *)
(* and the vector index of ChunkIndex, and about all three under           *)
(* MCIndexes.                                                              *)
(***************************************************************************)
EXTENDS MCIndexes, SequenceTheorems, FiniteSetTheorems, WellFoundedInduction, TLAPS

-----------------------------------------------------------------------------
(* The full-text index: what a builder and a search know of their table. *)

FtsTables == [live : BOOLEAN, rows : Contents]
StateBuilds == [at : {"state"}, rev : Nat]
RowsBuilds == [at : {"rows"}, rev : Nat, rows : Contents]
CreatedBuilds == [at : {"created"}, rev : Nat, table : Nat]
OpenedSearches == [at : {"opened"}, query : FtsTexts, rev : Nat, table : Nat]
FoundSearches == [at : {"queried", "found"}, query : FtsTexts, rev : Nat, hits : SUBSET FtsPages]

\* A builder whose revision is the present one has the present pages, and its
\* table is there and is not the one that searches open.
BuildOk(k, pages0, rev, made, inUse) ==
    /\ k \in {NoBuild} \cup StateBuilds \cup RowsBuilds \cup CreatedBuilds
    /\ k.at # "idle" => k.rev <= rev
    /\ k.at = "rows" => (k.rev = rev => k.rows = pages0)
    /\ k.at = "created" =>
        /\ k.table \in 1 .. Len(made) /\ k.table # inUse /\ made[k.table].live
        /\ k.rev = rev => made[k.table].rows = pages0

\* A search whose revision is the present one sees the present pages.
SearchOk(s, pages0, rev, made) ==
    /\ s \in {NoSearch} \cup OpenedSearches \cup FoundSearches
    /\ s.at # "idle" => s.rev <= rev
    /\ s.at = "opened" =>
        s.table \in 1 .. Len(made) /\ (s.rev = rev => made[s.table].rows = pages0)
    /\ s.at \in {"queried", "found"} /\ s.rev = rev => s.hits = {p \in FtsPages : pages0[p] = s.query}

\* No two builders have one table.
TablesApart ==
    \A b, c \in FtsBuilders :
        build[b].at = "created" /\ build[c].at = "created" /\ build[b].table = build[c].table => b = c

FtsTyped ==
    /\ canon \in Contents /\ revision \in 1 .. MaxRevision
    /\ active \in [status : {"stale", "active"}, rev : 0 .. MaxRevision, table : 0 .. Len(tables)]
    /\ tables \in Seq(FtsTables)
    /\ build = [b \in FtsBuilders |-> build[b]] /\ search = [r \in FtsReaders |-> search[r]]

ActiveIsBuilt ==
    active.status = "active" =>
        /\ active.table \in 1 .. Len(tables) /\ active.rev = revision
        /\ tables[active.table].live /\ tables[active.table].rows = canon

FtsInv ==
    /\ FtsTyped /\ ActiveIsBuilt /\ TablesApart
    /\ \A b \in FtsBuilders : BuildOk(build[b], canon, revision, tables, active.table)
    /\ \A r \in FtsReaders : SearchOk(search[r], canon, revision, tables)

\* The invariant holds at the start.
LEMMA FtsInvInit == FtsInit => FtsInv
<1> SUFFICES ASSUME FtsInit PROVE FtsInv
  OBVIOUS
<1>1. FtsTyped
  BY FtsAssumption, EmptySeq DEF FtsInit, FtsTyped
<1>2. ActiveIsBuilt /\ TablesApart
  BY DEF FtsInit, ActiveIsBuilt, TablesApart, NoBuild
<1>3. BuildOk(NoBuild, canon, revision, tables, active.table) /\ SearchOk(NoSearch, canon, revision, tables)
  BY DEF BuildOk, SearchOk, NoBuild, NoSearch
<1> QED
  BY <1>1, <1>2, <1>3 DEF FtsInv, FtsInit

\* Writing pages makes everything that was read old.
LEMMA FtsWriteKeeps == FtsInv /\ WritePages => FtsInv'
<1> SUFFICES ASSUME FtsInv, WritePages PROVE FtsInv'
  OBVIOUS
<1> USE DEF FtsInv
<1>1. canon' \in Contents /\ revision' = revision + 1 /\ revision \in Nat /\ revision' \in 1 .. MaxRevision
  BY FtsAssumption DEF WritePages, FtsTyped, Advanced, Contents
<1>2. tables' = tables /\ build' = build /\ search' = search
  BY DEF WritePages
<1>3. active' \in [status : {"stale", "active"}, rev : 0 .. MaxRevision, table : 0 .. Len(tables)]
      /\ active'.status = "stale" /\ active'.table = active.table
  BY DEF WritePages, FtsTyped
<1>4. ASSUME NEW b \in FtsBuilders PROVE BuildOk(build[b], canon', revision', tables, active.table)
  <2>1. BuildOk(build[b], canon, revision, tables, active.table)
    OBVIOUS
  <2>2. build[b].at # "idle" => build[b].rev \in Nat
    BY <2>1 DEF BuildOk, NoBuild, StateBuilds, RowsBuilds, CreatedBuilds
  <2> QED
    BY <1>1, <2>1, <2>2 DEF BuildOk
<1>5. ASSUME NEW r \in FtsReaders PROVE SearchOk(search[r], canon', revision', tables)
  <2>1. SearchOk(search[r], canon, revision, tables)
    OBVIOUS
  <2>2. search[r].at # "idle" => search[r].rev \in Nat
    BY <2>1 DEF SearchOk, NoSearch, OpenedSearches, FoundSearches
  <2> QED
    BY <1>1, <2>1, <2>2 DEF SearchOk
<1>6. FtsTyped' /\ ActiveIsBuilt' /\ TablesApart'
  BY <1>1, <1>2, <1>3 DEF FtsTyped, ActiveIsBuilt, TablesApart
<1> QED
  BY <1>2, <1>3, <1>4, <1>5, <1>6

\* A builder changes its own record.
LEMMA FtsBuildMoves ==
    ASSUME FtsInv, NEW b \in FtsBuilders, NEW k, Builds(b, k),
           UNCHANGED <<canon, revision, active, tables, search>>,
           BuildOk(k, canon, revision, tables, active.table), k.at # "created"
    PROVE  FtsInv'
<1> USE DEF FtsInv
<1>1. \A c \in FtsBuilders : build'[c] = IF c = b THEN k ELSE build[c]
  BY DEF Builds, FtsTyped
<1>2. build' = [c \in FtsBuilders |-> build'[c]]
  BY DEF Builds, FtsTyped
<1>3. FtsTyped' /\ ActiveIsBuilt'
  BY <1>2 DEF FtsTyped, ActiveIsBuilt
<1>4. TablesApart'
  BY <1>1 DEF TablesApart
<1> QED
  BY <1>1, <1>3, <1>4

\* A search changes its own record.
LEMMA FtsSearchMoves ==
    ASSUME FtsInv, NEW r \in FtsReaders, NEW s, Searches(r, s),
           UNCHANGED <<canon, revision, active, tables, build>>, SearchOk(s, canon, revision, tables)
    PROVE  FtsInv'
<1> USE DEF FtsInv
<1>1. \A q \in FtsReaders : search'[q] = IF q = r THEN s ELSE search[q]
  BY DEF Searches, FtsTyped
<1>2. search' = [q \in FtsReaders |-> search'[q]]
  BY DEF Searches, FtsTyped
<1>3. FtsTyped' /\ ActiveIsBuilt' /\ TablesApart'
  BY <1>2 DEF FtsTyped, ActiveIsBuilt, TablesApart
<1> QED
  BY <1>1, <1>3

\* The tables grow, and keep their rows; the present ones stay.
LEMMA FtsTablesStay ==
    ASSUME FtsInv, NEW b \in FtsBuilders, NEW made \in Seq(FtsTables), NEW inUse, Len(tables) <= Len(made),
           \A i \in 1 .. Len(tables) : made[i].rows = tables[i].rows,
           \A c \in FtsBuilders \ {b} : build[c].at = "created" =>
               build[c].table # inUse /\ made[build[c].table].live
    PROVE  /\ \A c \in FtsBuilders \ {b} : BuildOk(build[c], canon, revision, made, inUse)
           /\ \A r \in FtsReaders : SearchOk(search[r], canon, revision, made)
<1> USE DEF FtsInv
<1>1. Len(tables) \in Nat /\ Len(made) \in Nat
  BY LenProperties DEF FtsTyped
<1>2. ASSUME NEW c \in FtsBuilders \ {b} PROVE BuildOk(build[c], canon, revision, made, inUse)
  <2>1. BuildOk(build[c], canon, revision, tables, active.table)
    OBVIOUS
  <2>2. build[c].at = "created" => build[c].table \in 1 .. Len(made)
    BY <1>1, <2>1 DEF BuildOk
  <2>3. build[c].at = "created" => made[build[c].table].rows = tables[build[c].table].rows
    BY <2>1 DEF BuildOk
  <2> QED
    BY <2>1, <2>2, <2>3 DEF BuildOk
<1>3. ASSUME NEW r \in FtsReaders PROVE SearchOk(search[r], canon, revision, made)
  <2>1. SearchOk(search[r], canon, revision, tables)
    OBVIOUS
  <2>2. search[r].at = "opened" => search[r].table \in 1 .. Len(made) /\ made[search[r].table].rows = tables[search[r].table].rows
    BY <1>1, <2>1 DEF SearchOk
  <2> QED
    BY <2>1, <2>2 DEF SearchOk
<1> QED
  BY <1>2, <1>3

\* A new table is nobody else's.
LEMMA FtsCreateKeeps ==
    ASSUME FtsInv, NEW b \in FtsBuilders, CreateTable(b) PROVE FtsInv'
<1> USE DEF FtsInv
<1> DEFINE new == [live |-> TRUE, rows |-> build[b].rows]
           k == [at |-> "created", rev |-> build[b].rev, table |-> Len(tables) + 1]
<1>1. BuildOk(build[b], canon, revision, tables, active.table) /\ build[b].at = "rows"
  BY DEF CreateTable
<1>2. build[b] \in RowsBuilds
  BY <1>1 DEF BuildOk, NoBuild, StateBuilds, CreatedBuilds
<1>3. new \in FtsTables /\ build[b].rev \in Nat
  BY <1>2 DEF RowsBuilds, FtsTables
<1>4. tables \in Seq(FtsTables) /\ Len(tables) \in Nat
  BY LenProperties DEF FtsTyped
<1>5. tables' = Append(tables, new) /\ Builds(b, k) /\ canon' = canon /\ revision' = revision
      /\ active' = active /\ search' = search
  BY DEF CreateTable
<1>6. /\ tables' \in Seq(FtsTables) /\ Len(tables') = Len(tables) + 1
      /\ \A i \in 1 .. Len(tables) : tables'[i] = tables[i]
      /\ tables'[Len(tables) + 1] = new
  BY <1>3, <1>4, <1>5, AppendProperties
<1>7. \A c \in FtsBuilders : build[c].at = "created" =>
        build[c].table \in 1 .. Len(tables) /\ build[c].table # active.table /\ tables[build[c].table].live
  BY DEF BuildOk
<1>8. /\ \A c \in FtsBuilders \ {b} : BuildOk(build[c], canon, revision, tables', active.table)
      /\ \A r \in FtsReaders : SearchOk(search[r], canon, revision, tables')
  <2>1. Len(tables) <= Len(tables')
    BY <1>4, <1>6
  <2>2. \A i \in 1 .. Len(tables) : tables'[i].rows = tables[i].rows
    BY <1>6
  <2>3. \A c \in FtsBuilders \ {b} : build[c].at = "created" =>
            build[c].table # active.table /\ tables'[build[c].table].live
    BY <1>6, <1>7
  <2> QED
    BY <1>6, <2>1, <2>2, <2>3, FtsTablesStay
<1>9. active.table \in 0 .. Len(tables)
  BY DEF FtsTyped
<1>10. BuildOk(k, canon, revision, tables', active.table)
  <2>1. k \in CreatedBuilds
    BY <1>3, <1>4 DEF CreatedBuilds
  <2>2. k.table \in 1 .. Len(tables') /\ k.table # active.table
    BY <1>4, <1>6, <1>9
  <2>3. tables'[k.table].live /\ tables'[k.table].rows = build[b].rows
    BY <1>6
  <2> QED
    BY <1>1, <2>1, <2>2, <2>3 DEF BuildOk
<1>11. \A c \in FtsBuilders : build'[c] = IF c = b THEN k ELSE build[c]
  BY <1>5 DEF Builds, FtsTyped
<1>12. FtsTyped'
  <2>1. build' = [c \in FtsBuilders |-> build'[c]]
    BY <1>5 DEF Builds, FtsTyped
  <2>2. 0 .. Len(tables) \subseteq 0 .. Len(tables')
    BY <1>4, <1>6
  <2> QED
    BY <1>5, <1>6, <2>1, <2>2 DEF FtsTyped
<1>13. ActiveIsBuilt'
  BY <1>4, <1>5, <1>6 DEF ActiveIsBuilt
<1>14. TablesApart'
  <2>1. k.table \notin 1 .. Len(tables)
    BY <1>4
  <2> QED
    BY <1>7, <1>11, <2>1 DEF TablesApart
<1> QED
  BY <1>5, <1>8, <1>10, <1>11, <1>12, <1>13, <1>14

\* The table that is activated was its builder's alone, and is current.
LEMMA FtsActivateKeeps ==
    ASSUME FtsInv, NEW b \in FtsBuilders, Activate(b) PROVE FtsInv'
<1> USE DEF FtsInv
<1>1. BuildOk(build[b], canon, revision, tables, active.table) /\ build[b].at = "created"
      /\ build[b].rev = revision
  BY DEF Activate, StillMine
<1>2. active' = [status |-> "active", rev |-> build[b].rev, table |-> build[b].table] /\ Builds(b, NoBuild)
      /\ UNCHANGED <<canon, revision, tables, search>>
  BY DEF Activate
<1>3. Len(tables) \in Nat /\ revision \in 1 .. MaxRevision /\ MaxRevision \in Nat
  BY LenProperties, FtsAssumption DEF FtsTyped
<1>4. build[b].table \in 1 .. Len(tables) /\ tables[build[b].table].live /\ tables[build[b].table].rows = canon
  BY <1>1 DEF BuildOk
<1>5. active' \in [status : {"stale", "active"}, rev : 0 .. MaxRevision, table : 0 .. Len(tables)]
  BY <1>1, <1>2, <1>3, <1>4
<1>6. build' = [c \in FtsBuilders |-> build'[c]]
      /\ \A c \in FtsBuilders : build'[c] = IF c = b THEN NoBuild ELSE build[c]
  BY <1>2 DEF Builds, FtsTyped
<1>7. FtsTyped' /\ ActiveIsBuilt'
  BY <1>1, <1>2, <1>4, <1>5, <1>6 DEF FtsTyped, ActiveIsBuilt
<1>8. \A c \in FtsBuilders \ {b} : BuildOk(build[c], canon, revision, tables, build[b].table)
  BY <1>1 DEF BuildOk, TablesApart
<1>9. BuildOk(NoBuild, canon, revision, tables, build[b].table)
  BY DEF BuildOk, NoBuild
<1>10. TablesApart'
  BY <1>6 DEF TablesApart, NoBuild
<1> QED
  BY <1>2, <1>6, <1>7, <1>8, <1>9, <1>10

\* A table that is dropped is not the one in use, and no other builder's.
LEMMA FtsFailureKeeps ==
    ASSUME FtsInv, NEW b \in FtsBuilders, BuildFails(b) PROVE FtsInv'
<1> USE DEF FtsInv
<1>1. BuildOk(build[b], canon, revision, tables, active.table) /\ build[b].at = "created"
  BY DEF BuildFails
<1>2. Builds(b, NoBuild) /\ UNCHANGED <<canon, revision, active, search>>
  BY DEF BuildFails
<1>3. tables \in Seq(FtsTables) /\ Len(tables) \in Nat /\ DOMAIN tables = 1 .. Len(tables)
  BY LenProperties DEF FtsTyped
<1>4. build[b].table \in 1 .. Len(tables) /\ build[b].table # active.table
  BY <1>1 DEF BuildOk
<1>5. /\ tables' \in Seq(FtsTables) /\ Len(tables') = Len(tables)
      /\ \A i \in 1 .. Len(tables) :
            tables'[i].rows = tables[i].rows /\ (i # build[b].table => tables'[i] = tables[i])
  <2>1. CASE tables' = tables
    BY <1>3, <2>1
  <2>2. CASE tables' = [tables EXCEPT ![build[b].table].live = FALSE]
    <3>1. ASSUME NEW t \in FtsTables PROVE [t EXCEPT !.live = FALSE] \in FtsTables /\ [t EXCEPT !.live = FALSE].rows = t.rows
      BY DEF FtsTables
    <3>2. tables[build[b].table] \in FtsTables
      BY <1>3, <1>4, ElementOfSeq
    <3>3. tables' = [tables EXCEPT ![build[b].table] = [tables[build[b].table] EXCEPT !.live = FALSE]]
      BY <2>2
    <3>4. tables' \in Seq(FtsTables) /\ Len(tables') = Len(tables)
          /\ \A i \in 1 .. Len(tables) :
                tables'[i] = IF i = build[b].table THEN [tables[build[b].table] EXCEPT !.live = FALSE] ELSE tables[i]
      BY <1>3, <1>4, <3>1, <3>2, <3>3, ExceptSeq
    <3> QED
      BY <3>1, <3>2, <3>4
  <2> QED
    BY <2>1, <2>2 DEF BuildFails, Abandoned
<1>6. /\ \A c \in FtsBuilders \ {b} : BuildOk(build[c], canon, revision, tables', active.table)
      /\ \A r \in FtsReaders : SearchOk(search[r], canon, revision, tables')
  <2>1. \A c \in FtsBuilders \ {b} : build[c].at = "created" =>
          build[c].table # active.table /\ tables'[build[c].table].live
    BY <1>1, <1>5 DEF BuildOk, TablesApart
  <2>2. Len(tables) <= Len(tables') /\ \A i \in 1 .. Len(tables) : tables'[i].rows = tables[i].rows
    BY <1>3, <1>5
  <2>3. tables' \in Seq(FtsTables)
    BY <1>5
  <2> QED
    BY <2>1, <2>2, <2>3, FtsTablesStay
<1>7. build' = [c \in FtsBuilders |-> build'[c]]
      /\ \A c \in FtsBuilders : build'[c] = IF c = b THEN NoBuild ELSE build[c]
  BY <1>2 DEF Builds, FtsTyped
<1>8. FtsTyped'
  BY <1>2, <1>5, <1>7 DEF FtsTyped
<1>9. ActiveIsBuilt'
  BY <1>2, <1>4, <1>5 DEF ActiveIsBuilt
<1>10. BuildOk(NoBuild, canon, revision, tables', active.table)
  BY DEF BuildOk, NoBuild
<1>11. TablesApart'
  BY <1>7 DEF TablesApart, NoBuild
<1> QED
  BY <1>2, <1>6, <1>7, <1>8, <1>9, <1>10, <1>11

\* Every step of a builder keeps the invariant.
LEMMA FtsBuilderKeeps ==
    ASSUME FtsInv, NEW b \in FtsBuilders,
           ReadRevision(b) \/ ReadRows(b) \/ CreateTable(b) \/ Activate(b) \/ BuildFails(b) \/ BuildEnds(b)
    PROVE  FtsInv'
<1>1. BuildOk(build[b], canon, revision, tables, active.table) /\ revision \in Nat /\ canon \in Contents
  BY FtsAssumption DEF FtsInv, FtsTyped
<1>2. CASE ReadRevision(b)
  <2>1. BuildOk([at |-> "state", rev |-> revision], canon, revision, tables, active.table)
    BY <1>1 DEF BuildOk, StateBuilds
  <2> QED
    BY <1>2, <2>1, FtsBuildMoves DEF ReadRevision
<1>3. CASE ReadRows(b)
  <2> DEFINE k == [at |-> "rows", rev |-> build[b].rev, rows |-> canon]
  <2>1. build[b].at = "state"
    BY <1>3 DEF ReadRows
  <2>2. build[b] \in StateBuilds
    BY <1>1, <2>1 DEF BuildOk, NoBuild, RowsBuilds, CreatedBuilds
  <2>3. k \in RowsBuilds
    BY <1>1, <2>2 DEF RowsBuilds, StateBuilds
  <2>4. BuildOk(k, canon, revision, tables, active.table)
    BY <1>1, <2>1, <2>3 DEF BuildOk
  <2> QED
    BY <1>3, <2>4, FtsBuildMoves DEF ReadRows
<1>4. CASE BuildEnds(b)
  <2>1. BuildOk(NoBuild, canon, revision, tables, active.table) /\ NoBuild.at # "created"
    BY DEF BuildOk, NoBuild
  <2> QED
    BY <1>4, <2>1, FtsBuildMoves DEF BuildEnds
<1> QED
  BY <1>2, <1>3, <1>4, FtsCreateKeeps, FtsActivateKeeps, FtsFailureKeeps

\* Every step of a search keeps the invariant.
LEMMA FtsSearchKeeps ==
    ASSUME FtsInv, NEW r \in FtsReaders, Open(r) \/ Query(r) \/ Fetch(r) PROVE FtsInv'
<1>1. SearchOk(search[r], canon, revision, tables) /\ revision \in Nat
  BY FtsAssumption DEF FtsInv, FtsTyped
<1>2. SearchOk(NoSearch, canon, revision, tables)
  BY DEF SearchOk, NoSearch
<1>3. CASE Open(r)
  <2>1. PICK q \in FtsTexts : Searches(r, IF Usable
                    THEN [at |-> "opened", query |-> q, rev |-> revision, table |-> active.table]
                    ELSE NoSearch)
    BY <1>3 DEF Open
  <2> DEFINE s == [at |-> "opened", query |-> q, rev |-> revision, table |-> active.table]
  <2>2. CASE Usable
    <3>1. active.table \in 1 .. Len(tables) /\ tables[active.table].rows = canon
      BY <2>2 DEF Usable, FtsInv, ActiveIsBuilt
    <3>2. Len(tables) \in Nat
      BY LenProperties DEF FtsInv, FtsTyped
    <3>3. s \in OpenedSearches
      BY <1>1, <3>1, <3>2 DEF OpenedSearches
    <3>4. SearchOk(s, canon, revision, tables)
      BY <1>1, <3>1, <3>3 DEF SearchOk
    <3> QED
      BY <1>3, <2>1, <2>2, <3>4, FtsSearchMoves DEF Open
  <2>3. CASE ~Usable
    BY <1>2, <1>3, <2>1, <2>3, FtsSearchMoves DEF Open
  <2> QED
    BY <2>2, <2>3
<1>4. CASE Query(r)
  <2> DEFINE s == [at |-> "queried", query |-> search[r].query, rev |-> search[r].rev, hits |-> Hits(r)]
  <2>1. search[r].at = "opened" /\ Searches(r, s)
    BY <1>4 DEF Query
  <2>2. search[r] \in OpenedSearches
    BY <1>1, <2>1 DEF SearchOk, NoSearch, FoundSearches
  <2>3. s \in FoundSearches
    BY <2>2 DEF FoundSearches, OpenedSearches, Hits
  <2>4. s.rev = revision => s.hits = {p \in FtsPages : canon[p] = s.query}
    BY <1>1, <2>1 DEF SearchOk, Hits
  <2>5. SearchOk(s, canon, revision, tables)
    BY <1>1, <2>1, <2>3, <2>4 DEF SearchOk
  <2> QED
    BY <1>4, <2>1, <2>5, FtsSearchMoves DEF Query
<1>5. CASE Fetch(r)
  <2> DEFINE s == [search[r] EXCEPT !.at = "found"]
  <2>1. search[r].at = "queried"
    BY <1>5 DEF Fetch
  <2>2. search[r] \in FoundSearches
    BY <1>1, <2>1 DEF SearchOk, NoSearch, OpenedSearches
  <2>3. s \in FoundSearches /\ s.at = "found" /\ s.rev = search[r].rev /\ s.hits = search[r].hits
        /\ s.query = search[r].query
    BY <2>2 DEF FoundSearches
  <2>4. SearchOk(s, canon, revision, tables)
    BY <1>1, <2>1, <2>3 DEF SearchOk
  <2>5. Searches(r, s) \/ Searches(r, NoSearch)
    BY <1>5 DEF Fetch
  <2>6. UNCHANGED <<canon, revision, active, tables, build>>
    BY <1>5 DEF Fetch
  <2>7. CASE Searches(r, s)
    BY <2>4, <2>6, <2>7, FtsSearchMoves
  <2>8. CASE Searches(r, NoSearch)
    BY <1>2, <2>6, <2>8, FtsSearchMoves
  <2> QED
    BY <2>5, <2>7, <2>8
<1> QED
  BY <1>3, <1>4, <1>5

\* Every step keeps the invariant.
LEMMA FtsInvStep == FtsInv /\ [FtsNext]_ftsVars => FtsInv'
<1>1. FtsInv /\ UNCHANGED ftsVars => FtsInv'
  BY DEF ftsVars, FtsInv, FtsTyped, ActiveIsBuilt, TablesApart
<1> QED
  BY <1>1, FtsWriteKeeps, FtsBuilderKeeps, FtsSearchKeeps DEF FtsNext

\* What the invariant says of the index and of its readers.
LEMMA FtsInvAgrees == FtsInv => FtsAgrees /\ FtsTypeOK
<1> SUFFICES ASSUME FtsInv PROVE FtsAgrees /\ FtsTypeOK
  OBVIOUS
<1>1. \A b \in FtsBuilders : build[b].at \in {"idle", "state", "rows", "created"}
  BY DEF FtsInv, BuildOk, NoBuild, StateBuilds, RowsBuilds, CreatedBuilds
<1>2. \A r \in FtsReaders : search[r].at \in {"idle", "opened", "queried", "found"}
  BY DEF FtsInv, SearchOk, NoSearch, OpenedSearches, FoundSearches
<1>3. FtsTypeOK
  BY <1>1, <1>2 DEF FtsTypeOK, FtsInv, FtsTyped, FtsTables
<1>4. ActiveIndexIsCurrent
  BY DEF FtsInv, ActiveIsBuilt, ActiveIndexIsCurrent
<1>5. OpenedTableIsCurrent
  BY DEF FtsInv, SearchOk, OpenedTableIsCurrent
<1> QED
  BY <1>3, <1>4, <1>5 DEF FtsAgrees

\* However writers, builders and searches interleave, fail and are killed, the
\* active index is that of the present pages, and a search that no writer
\* overlaps finds what they say (page_fts_builder.py, page_fts_query.py).
THEOREM FtsIsCurrent == FtsSpec => []FtsAgrees
BY FtsInvInit, FtsInvStep, FtsInvAgrees, PTL DEF FtsSpec

-----------------------------------------------------------------------------
(* The generated content: what a writer read and wrote so far. *)

BlockRecords == [text : BookTexts \cup {{}}, ledger : SUBSET BookNames, names : SUBSET BookNames]
Reads == [at : {"read"}, known : SUBSET BookNames]
Drafts == [at : {"facts", "detailed", "catalog", "people", "update"}, known : SUBSET BookNames,
           pages : Bodies, ledger : SUBSET BookNames, sheet : Seq(BlockRecords)]
Casts == [at : {"guard", "publish"}, known : SUBSET BookNames, sheet : Seq(BlockRecords), cast : SUBSET BookNames]
Vectors == [at : {"delete", "add", "commit"}, text : Bodies]
WriterRecords == {Resting} \cup Reads \cup Drafts \cup Casts \cup Vectors

\* The states a name was mentioned in.
InAll(n, states) == \A b \in states : \E i \in DOMAIN b : n \in b[i]
TextOf(sheet) == [i \in DOMAIN sheet |-> sheet[i].text]

\* The facts a writer has so far are those of the pages it read.
Copies(r) ==
    /\ Len(r.sheet) <= Len(r.pages) /\ (r.at # "facts" => Len(r.sheet) = Len(r.pages))
    /\ \A i \in 1 .. Len(r.sheet) : r.sheet[i].text = r.pages[i]

\* What writer w may hold while the book has had the given states.
WriterOk(w, r, states) ==
    /\ r \in WriterRecords
    /\ r.at \in {"catalog", "people", "guard", "publish"} => w = "build"
    /\ r.at \in {"update", "commit"} => w = "summaries"
    /\ r.at \in {"read", "facts", "detailed"} => w # "restore"
    /\ r \in Drafts => r.pages \in states /\ Copies(r)
    /\ r \in Casts => TextOf(r.sheet) \in states
    /\ r.at = "publish" => \A n \in r.known : InAll(n, states) => n \in r.cast
    /\ r \in Vectors => r.text \in states

PublishedFrom(c, states) ==
    /\ c \in [summary : states \cup {NoText}, catalog : states \cup {NoText}, cast : SUBSET BookNames]

ContentTyped ==
    /\ body \in bodies /\ bodies \subseteq Bodies
    /\ blocks \in [1 .. MaxBookPages -> BlockRecords]
    /\ PublishedFrom(content, bodies) /\ PublishedFrom(snapshot, bodies)
    /\ summaryRows \subseteq bodies
    /\ writing = [w \in Writers |-> writing[w]]
    /\ \A w \in Writers : WriterOk(w, writing[w], bodies)

\* As long as nothing went apart: one writer at most has the vector in hand, it
\* writes the vector of the published summary, or of the one it will publish.
InHand(r) == r.at \in {"delete", "add", "commit"}
VectorOk(works, shown, rows) ==
    /\ \A v, w \in Writers : InHand(works[v]) /\ InHand(works[w]) => v = w
    /\ (\A w \in Writers : ~InHand(works[w])) => rows = {shown} \ {NoText}
    /\ \A w \in Writers :
        /\ works[w].at = "add" => rows = {}
        /\ works[w].at = "commit" => rows = {works[w].text}
        /\ w # "summaries" /\ InHand(works[w]) => shown = works[w].text

ContentInv == ContentTyped /\ (apart = {} => VectorOk(writing, content.summary, summaryRows))

\* The texts of pages are sequences, and none of them is empty.
LEMMA BodiesAreTexts ==
    ASSUME NEW b \in Bodies
    PROVE  /\ b \in Seq(BookTexts) /\ Len(b) \in 1 .. MaxBookPages /\ DOMAIN b = 1 .. Len(b)
           /\ b = [i \in 1 .. Len(b) |-> b[i]] /\ b # NoText
<1>1. PICK n \in 1 .. MaxBookPages : b \in [1 .. n -> BookTexts]
  BY DEF Bodies
<1>2. n \in Nat /\ n >= 1
  BY ContentAssumption, <1>1
<1>3. b \in Seq(BookTexts) /\ Len(b) = n
  BY <1>1, <1>2
<1> QED
  BY <1>1, <1>2, <1>3 DEF NoText

\* The invariant holds at the start.
LEMMA ContentInvInit == ContentInit => ContentInv
<1> SUFFICES ASSUME ContentInit PROVE ContentInv
  OBVIOUS
<1> USE DEF ContentInit
<1>1. body \in Bodies
  BY ContentAssumption DEF Bodies
<1>2. blocks \in [1 .. MaxBookPages -> BlockRecords]
  BY DEF BlockRecords, NoBlock
<1>3. PublishedFrom(content, bodies) /\ PublishedFrom(snapshot, bodies)
  BY DEF PublishedFrom, Nothing
<1>4. \A w \in Writers : WriterOk(w, Resting, bodies)
  BY DEF WriterOk, WriterRecords, Resting, Drafts, Casts, Vectors
<1>5. ContentTyped
  BY <1>1, <1>2, <1>3, <1>4 DEF ContentTyped
<1>6. VectorOk(writing, content.summary, summaryRows)
  BY DEF VectorOk, InHand, Resting, Nothing
<1> QED
  BY <1>5, <1>6 DEF ContentInv

\* What a writer holds is in order while the book gets more states.
LEMMA WriterStays ==
    ASSUME NEW w, NEW r, NEW states, NEW more, states \subseteq more, WriterOk(w, r, states)
    PROVE  WriterOk(w, r, more)
<1>1. ASSUME NEW n, InAll(n, more) PROVE InAll(n, states)
  BY <1>1 DEF InAll
<1> QED
  BY <1>1 DEF WriterOk

\* A writer that does not have the vector in hand moves on without touching
\* what is published.
LEMMA WriterMoves ==
    ASSUME ContentInv, NEW w \in Writers, NEW r, Moves(w, r), WriterOk(w, r, bodies),
           ~Indexing(w), ~InHand(r), blocks' \in [1 .. MaxBookPages -> BlockRecords],
           UNCHANGED <<body, bodies, content, summaryRows, snapshot, apart>>
    PROVE  ContentInv'
<1>1. writing' = [v \in Writers |-> writing'[v]] /\ \A v \in Writers : writing'[v] = IF v = w THEN r ELSE writing[v]
  BY DEF Moves, ContentInv, ContentTyped
<1>2. ContentTyped'
  BY <1>1 DEF ContentInv, ContentTyped
<1>3. \A v \in Writers : InHand(writing'[v]) <=> InHand(writing[v])
  BY <1>1 DEF InHand, Indexing, At
<1>4. \A v \in Writers : InHand(writing[v]) => writing'[v] = writing[v]
  BY <1>1, <1>3 DEF InHand, Indexing, At
<1>5. VectorOk(writing, content.summary, summaryRows) => VectorOk(writing', content.summary, summaryRows)
  BY <1>3, <1>4 DEF VectorOk, InHand
<1> QED
  BY <1>2, <1>5 DEF ContentInv

\* A writer starts.
LEMMA StartKeeps ==
    ASSUME ContentInv, StartBuild \/ StartSummaries PROVE ContentInv'
<1>1. PICK w \in {"build", "summaries"}, known \in {content.cast, {}} : Starts(w, known)
  BY DEF StartBuild, StartSummaries
<1>2. known \in SUBSET BookNames
  BY DEF ContentInv, ContentTyped, PublishedFrom
<1> DEFINE r == [at |-> "read", known |-> known]
<1>3. r \in Reads
  BY <1>2 DEF Reads
<1>4. WriterOk(w, r, bodies) /\ ~InHand(r)
  BY <1>1, <1>3 DEF WriterOk, WriterRecords, Drafts, Casts, Vectors, InHand
<1>5. ~Indexing(w) /\ w \in Writers
  BY <1>1 DEF Starts, Indexing, At, Resting, Writers
<1>6. Moves(w, r) /\ UNCHANGED <<body, bodies, blocks, content, summaryRows, snapshot, apart>>
  BY <1>1 DEF Starts
<1>7. blocks' \in [1 .. MaxBookPages -> BlockRecords]
  BY <1>6 DEF ContentInv, ContentTyped
<1> QED
  BY <1>4, <1>5, <1>6, <1>7, WriterMoves

\* The record of a writer at one of its positions.
LEMMA WriterIs ==
    ASSUME ContentInv, NEW w \in Writers
    PROVE  /\ WriterOk(w, writing[w], bodies)
           /\ At(w) \in {"rest", "read", "facts", "detailed", "catalog", "people", "update",
                         "guard", "publish", "delete", "add", "commit"}
           /\ At(w) = "rest" => writing[w] = Resting
           /\ At(w) = "read" => writing[w] \in Reads
           /\ At(w) \in {"facts", "detailed", "catalog", "people", "update"} => writing[w] \in Drafts
           /\ At(w) \in {"guard", "publish"} => writing[w] \in Casts
           /\ Indexing(w) <=> writing[w] \in Vectors
           /\ Indexing(w) <=> InHand(writing[w])
<1>1. WriterOk(w, writing[w], bodies)
  BY DEF ContentInv, ContentTyped
<1>2. writing[w] \in WriterRecords
  BY <1>1 DEF WriterOk
<1>3. CASE writing[w] = Resting
  BY <1>1, <1>3 DEF At, Resting, Indexing, InHand, Vectors
<1>4. CASE writing[w] \in Reads
  BY <1>1, <1>4 DEF At, Resting, Indexing, InHand, Vectors, Reads
<1>5. CASE writing[w] \in Drafts
  BY <1>1, <1>5 DEF At, Resting, Indexing, InHand, Vectors, Drafts
<1>6. CASE writing[w] \in Casts
  BY <1>1, <1>6 DEF At, Resting, Indexing, InHand, Vectors, Casts
<1>7. CASE writing[w] \in Vectors
  BY <1>1, <1>7 DEF At, Resting, Indexing, InHand, Vectors
<1> QED
  BY <1>2, <1>3, <1>4, <1>5, <1>6, <1>7 DEF WriterRecords

\* The pages are read.
LEMMA ReadPagesKeeps == ASSUME ContentInv, NEW w \in {"build", "summaries"}, ReadPages(w) PROVE ContentInv'
<1> DEFINE r == [at |-> "facts", known |-> writing[w].known, pages |-> body, ledger |-> content.cast, sheet |-> <<>>]
<1>1. w \in Writers /\ w # "restore"
  BY DEF Writers
<1>2. Moves(w, r) /\ UNCHANGED <<body, bodies, blocks, content, summaryRows, snapshot, apart>> /\ At(w) = "read"
  BY DEF ReadPages
<1>3. writing[w] \in Reads /\ ~Indexing(w)
  BY <1>1, <1>2, WriterIs DEF Indexing
<1>4. body \in Bodies /\ body \in bodies /\ content.cast \in SUBSET BookNames
      /\ blocks' \in [1 .. MaxBookPages -> BlockRecords]
  BY <1>2 DEF ContentInv, ContentTyped, PublishedFrom
<1>5. r \in Drafts
  BY <1>3, <1>4, EmptySeq DEF Drafts, Reads
<1>6. Copies(r)
  <2>1. Len(r.sheet) = 0 /\ Len(r.pages) \in Nat
    BY <1>4, BodiesAreTexts, LenProperties
  <2> QED
    BY <2>1 DEF Copies
<1>7. WriterOk(w, r, bodies) /\ ~InHand(r)
  <2>1. r \notin Casts /\ r \notin Vectors
    BY DEF Casts, Vectors
  <2> QED
    BY <1>1, <1>4, <1>5, <1>6, <2>1 DEF WriterOk, WriterRecords, InHand
<1> QED
  BY <1>1, <1>2, <1>3, <1>4, <1>7, WriterMoves

\* A draft goes from one of its positions to another.
LEMMA DraftMoves ==
    ASSUME NEW w, NEW r \in Drafts, NEW to \in {"facts", "detailed", "catalog", "people", "update"},
           NEW states, WriterOk(w, r, states), Len(r.sheet) = Len(r.pages),
           to \in {"catalog", "people"} => w = "build", to = "update" => w = "summaries"
    PROVE  WriterOk(w, [r EXCEPT !.at = to], states) /\ ~InHand([r EXCEPT !.at = to])
<1> DEFINE e == [r EXCEPT !.at = to]
<1>1. e \in Drafts /\ e.at = to /\ e.pages = r.pages /\ e.sheet = r.sheet
  BY DEF Drafts
<1>2. e \notin Casts /\ e \notin Vectors
  BY <1>1 DEF Casts, Vectors
<1>3. Copies(r) /\ r.pages \in states
  BY DEF WriterOk
<1>4. Copies(e)
  BY <1>1, <1>3 DEF Copies
<1>5. w # "restore"
  BY DEF WriterOk, Drafts
<1> QED
  BY <1>1, <1>2, <1>3, <1>4, <1>5 DEF WriterOk, WriterRecords, InHand

\* The facts of one more page, its own or those of a checkpoint of the same text.
LEMMA FactsKeeps == ASSUME ContentInv, NEW w \in {"build", "summaries"}, Facts(w) PROVE ContentInv'
<1> DEFINE i == Len(writing[w].sheet) + 1
           d == writing[w]
<1>1. w \in Writers /\ At(w) = "facts" /\ i <= Len(d.pages)
  BY DEF Facts, Writers
<1>2. d \in Drafts /\ ~Indexing(w) /\ WriterOk(w, d, bodies) /\ d.at = "facts"
  BY <1>1, WriterIs DEF Indexing, At
<1>3. d.pages \in Bodies /\ d.sheet \in Seq(BlockRecords) /\ d.ledger \in SUBSET BookNames
  BY <1>2 DEF Drafts
<1>4. Len(d.sheet) \in Nat /\ Len(d.pages) \in 1 .. MaxBookPages /\ MaxBookPages \in Nat
  BY <1>3, BodiesAreTexts, LenProperties, ContentAssumption
<1>5. i \in 1 .. MaxBookPages /\ i \in 1 .. Len(d.pages)
  BY <1>1, <1>4
<1>6. d.pages[i] \in BookTexts
  BY <1>3, <1>5, BodiesAreTexts, ElementOfSeq
<1>7. blocks \in [1 .. MaxBookPages -> BlockRecords]
  BY DEF ContentInv, ContentTyped
<1>8. PICK block \in BlockRecords :
        /\ block.text = d.pages[i]
        /\ Moves(w, [d EXCEPT !.sheet = Append(@, block)])
        /\ blocks' = blocks \/ blocks' = [blocks EXCEPT ![i] = block]
  <2>1. CASE Saved(w, i) /\ Moves(w, [d EXCEPT !.sheet = Append(@, blocks[i])]) /\ UNCHANGED blocks
    BY <1>5, <1>7, <2>1 DEF Saved
  <2>2. CASE \E names \in SUBSET BookNames \ {{}} :
                 LET block == [text |-> d.pages[i], ledger |-> d.ledger, names |-> names]
                 IN  Moves(w, [d EXCEPT !.sheet = Append(@, block)]) /\ blocks' = [blocks EXCEPT ![i] = block]
    <3>1. PICK names \in SUBSET BookNames \ {{}} :
                 LET block == [text |-> d.pages[i], ledger |-> d.ledger, names |-> names]
                 IN  Moves(w, [d EXCEPT !.sheet = Append(@, block)]) /\ blocks' = [blocks EXCEPT ![i] = block]
      BY <2>2
    <3> DEFINE block == [text |-> d.pages[i], ledger |-> d.ledger, names |-> names]
    <3>2. block \in BlockRecords
      BY <1>3, <1>6 DEF BlockRecords
    <3> QED
      BY <3>1, <3>2
  <2> QED
    BY <2>1, <2>2 DEF Facts
<1>9. blocks' \in [1 .. MaxBookPages -> BlockRecords]
  BY <1>7, <1>8
<1> DEFINE e == [d EXCEPT !.sheet = Append(d.sheet, block)]
<1>10. Append(d.sheet, block) \in Seq(BlockRecords) /\ Len(Append(d.sheet, block)) = i
       /\ (\A k \in 1 .. Len(d.sheet) : Append(d.sheet, block)[k] = d.sheet[k])
       /\ Append(d.sheet, block)[i] = block
  BY <1>3, <1>8, AppendProperties
<1>11. e \in Drafts /\ e.at = "facts" /\ e.pages = d.pages /\ e.sheet = Append(d.sheet, block)
  <2> HIDE DEF d
  <2> QED
    BY <1>2, <1>10 DEF Drafts
<1>12. Copies(e)
  <2>1. \A k \in 1 .. Len(d.sheet) : d.sheet[k].text = d.pages[k]
    BY <1>2 DEF WriterOk, Copies
  <2>2. \A k \in 1 .. i : Append(d.sheet, block)[k].text = d.pages[k]
    BY <1>4, <1>8, <1>10, <2>1
  <2> QED
    BY <1>1, <1>10, <1>11, <2>2 DEF Copies
<1>13. WriterOk(w, e, bodies) /\ ~InHand(e)
  <2>1. e \notin Casts /\ e \notin Vectors
    BY <1>11 DEF Casts, Vectors
  <2>2. d.pages \in bodies /\ w # "restore"
    BY <1>2 DEF WriterOk
  <2> QED
    BY <1>11, <1>12, <2>1, <2>2 DEF WriterOk, WriterRecords, InHand
<1>14. Moves(w, e) /\ UNCHANGED <<body, bodies, content, summaryRows, snapshot, apart>>
  BY <1>8 DEF Facts
<1> QED
  BY <1>1, <1>2, <1>9, <1>13, <1>14, WriterMoves

\* The writer has the facts of all pages.
LEMMA PruneKeeps == ASSUME ContentInv, NEW w \in {"build", "summaries"}, Prune(w) PROVE ContentInv'
<1>1. w \in Writers /\ At(w) = "facts" /\ Len(writing[w].sheet) = Len(writing[w].pages)
  BY DEF Prune, Writers
<1>2. writing[w] \in Drafts /\ ~Indexing(w) /\ WriterOk(w, writing[w], bodies)
  BY <1>1, WriterIs DEF Indexing
<1>3. NoBlock \in BlockRecords
  BY DEF NoBlock, BlockRecords
<1>4. blocks \in [1 .. MaxBookPages -> BlockRecords]
  BY DEF ContentInv, ContentTyped
<1>5. blocks' \in [1 .. MaxBookPages -> BlockRecords]
  BY <1>3, <1>4 DEF Prune
<1>6. Moves(w, [writing[w] EXCEPT !.at = "detailed"])
      /\ UNCHANGED <<body, bodies, content, summaryRows, snapshot, apart>>
  BY DEF Prune, Goes
<1>7. WriterOk(w, [writing[w] EXCEPT !.at = "detailed"], bodies) /\ ~InHand([writing[w] EXCEPT !.at = "detailed"])
  BY <1>1, <1>2, DraftMoves
<1> QED
  BY <1>1, <1>2, <1>5, <1>6, <1>7, WriterMoves

\* A summary is verified.
LEMMA VerifyKeeps == ASSUME ContentInv, NEW w \in {"build", "summaries"}, Verify(w) PROVE ContentInv'
<1>1. w \in Writers /\ At(w) \in {"detailed", "catalog"}
  BY DEF Verify, Writers
<1>2. writing[w] \in Drafts /\ ~Indexing(w) /\ WriterOk(w, writing[w], bodies)
  BY <1>1, WriterIs DEF Indexing
<1>3. Len(writing[w].sheet) = Len(writing[w].pages)
  BY <1>1, <1>2 DEF WriterOk, Copies, At
<1>4. At(w) = "catalog" => w = "build"
  BY <1>2 DEF WriterOk, At
<1>5. /\ After(w) \in {"facts", "detailed", "catalog", "people", "update"}
      /\ After(w) \in {"catalog", "people"} => w = "build"
      /\ After(w) = "update" => w = "summaries"
  BY <1>4 DEF After
<1>6. Moves(w, [writing[w] EXCEPT !.at = After(w)])
      /\ UNCHANGED <<body, bodies, blocks, content, summaryRows, snapshot, apart>>
  BY DEF Verify, Goes
<1>7. WriterOk(w, [writing[w] EXCEPT !.at = After(w)], bodies) /\ ~InHand([writing[w] EXCEPT !.at = After(w)])
  BY <1>2, <1>3, <1>5, DraftMoves
<1>8. blocks' \in [1 .. MaxBookPages -> BlockRecords]
  BY <1>6 DEF ContentInv, ContentTyped
<1> QED
  BY <1>1, <1>2, <1>6, <1>7, <1>8, WriterMoves

\* The texts the facts were taken from are the pages that were read.
LEMMA TextsArePages ==
    ASSUME NEW r \in Drafts, Copies(r), r.at # "facts"
    PROVE  TextOf(r.sheet) = r.pages
<1>1. r.pages \in Bodies /\ r.sheet \in Seq(BlockRecords)
  BY DEF Drafts
<1>2. DOMAIN r.sheet = 1 .. Len(r.sheet) /\ r.pages = [i \in 1 .. Len(r.pages) |-> r.pages[i]]
  BY <1>1, LenProperties, BodiesAreTexts
<1>3. Len(r.sheet) = Len(r.pages) /\ \A i \in 1 .. Len(r.sheet) : r.sheet[i].text = r.pages[i]
  BY DEF Copies
<1>4. [i \in DOMAIN r.sheet |-> r.sheet[i].text] = [i \in 1 .. Len(r.pages) |-> r.pages[i]]
  BY <1>2, <1>3
<1> QED
  BY <1>2, <1>4 DEF TextOf

\* The characters are written, those of the facts that the pages mention.
LEMMA PeopleKeeps == ASSUME ContentInv, People PROVE ContentInv'
<1> DEFINE d == writing["build"]
           cast == UNION {d.sheet[i].names : i \in DOMAIN d.sheet} \cap Mentioned
           r == [at |-> "guard", known |-> d.known, sheet |-> d.sheet, cast |-> cast]
<1>1. "build" \in Writers /\ At("build") = "people" /\ d.at = "people"
  BY DEF People, Writers, At
<1>2. d \in Drafts /\ ~Indexing("build") /\ WriterOk("build", d, bodies)
  BY <1>1, WriterIs DEF Indexing
<1>3. d.sheet \in Seq(BlockRecords) /\ d.known \in SUBSET BookNames
  BY <1>2 DEF Drafts
<1>4. cast \in SUBSET BookNames
  <2>1. \A i \in DOMAIN d.sheet : d.sheet[i] \in BlockRecords
    BY <1>3, ElementOfSeq, LenProperties
  <2>2. \A i \in DOMAIN d.sheet : d.sheet[i].names \subseteq BookNames
    BY <2>1 DEF BlockRecords
  <2> QED
    BY <2>2
<1>5. r \in Casts
  BY <1>3, <1>4 DEF Casts
<1>6. TextOf(d.sheet) \in bodies
  BY <1>1, <1>2, TextsArePages DEF WriterOk
<1>7. WriterOk("build", r, bodies) /\ ~InHand(r)
  <2>1. r \notin Drafts /\ r \notin Vectors
    BY DEF Drafts, Vectors
  <2> QED
    BY <1>5, <1>6, <2>1 DEF WriterOk, WriterRecords, InHand
<1>8. Moves("build", r) /\ UNCHANGED <<body, bodies, blocks, content, summaryRows, snapshot, apart>>
  BY DEF People
<1>9. blocks' \in [1 .. MaxBookPages -> BlockRecords]
  BY <1>8 DEF ContentInv, ContentTyped
<1> QED
  BY <1>1, <1>2, <1>7, <1>8, <1>9, WriterMoves

\* What passes the guard has every known name that all states mention.
LEMMA GuardKeeps == ASSUME ContentInv, Guard PROVE ContentInv'
<1> DEFINE d == writing["build"]
           cast == d.cast \cap Mentioned
           r == [d EXCEPT !.at = "publish", !.cast = cast]
<1>1. "build" \in Writers /\ At("build") = "guard"
  BY DEF Guard, Writers
<1>2. d \in Casts /\ ~Indexing("build") /\ WriterOk("build", d, bodies)
  BY <1>1, WriterIs DEF Indexing
<1>3. d.cast \in SUBSET BookNames /\ d.known \in SUBSET BookNames
  BY <1>2 DEF Casts
<1>4. r \in Casts /\ r.at = "publish" /\ r.cast = cast /\ r.known = d.known /\ r.sheet = d.sheet
  <2> HIDE DEF d
  <2> QED
    BY <1>2, <1>3 DEF Casts
<1>5. (d.known \ cast) \cap Mentioned = {}
  BY DEF Guard, Dropped
<1>6. ASSUME NEW n \in d.known, InAll(n, bodies) PROVE n \in cast
  <2>1. PICK i \in DOMAIN body : n \in body[i]
    BY <1>6 DEF InAll, ContentInv, ContentTyped
  <2>2. n \in Mentioned
    BY <2>1 DEF Mentioned
  <2> QED
    BY <1>5, <2>2
<1>7. WriterOk("build", r, bodies) /\ ~InHand(r)
  <2>1. r \notin Drafts /\ r \notin Vectors
    BY <1>4 DEF Drafts, Vectors
  <2>2. TextOf(d.sheet) \in bodies
    BY <1>2 DEF WriterOk
  <2> QED
    BY <1>4, <1>6, <2>1, <2>2 DEF WriterOk, WriterRecords, InHand
<1>8. Moves("build", r) /\ UNCHANGED <<body, bodies, blocks, content, summaryRows, snapshot, apart>>
  BY DEF Guard
<1>9. blocks' \in [1 .. MaxBookPages -> BlockRecords]
  BY <1>8 DEF ContentInv, ContentTyped
<1> QED
  BY <1>1, <1>2, <1>7, <1>8, <1>9, WriterMoves

-----------------------------------------------------------------------------
(* The publications, and the vector of the summary. *)

\* Types, when one writer moves.
LEMMA MoveTyped ==
    ASSUME ContentInv, NEW w \in Writers, NEW r, Moves(w, r), WriterOk(w, r, bodies),
           UNCHANGED <<body, bodies, blocks, snapshot>>,
           PublishedFrom(content', bodies), summaryRows' \subseteq bodies
    PROVE  /\ ContentTyped'
           /\ \A v \in Writers : writing'[v] = IF v = w THEN r ELSE writing[v]
<1>1. writing' = [v \in Writers |-> writing'[v]] /\ \A v \in Writers : writing'[v] = IF v = w THEN r ELSE writing[v]
  BY DEF Moves, ContentInv, ContentTyped
<1> QED
  BY <1>1 DEF ContentInv, ContentTyped

\* The record of a writer that takes the vector in hand.
LEMMA HandOk ==
    ASSUME NEW w, NEW states, states \subseteq Bodies, NEW text \in states
    PROVE  WriterOk(w, [at |-> "delete", text |-> text], states)
<1> DEFINE r == [at |-> "delete", text |-> text]
<1>1. r \in Vectors /\ r \notin Drafts /\ r \notin Casts
  BY DEF Vectors, Drafts, Casts
<1> QED
  BY <1>1 DEF WriterOk, WriterRecords

\* A writer takes the vector in hand while no other has it.
LEMMA HandTaken ==
    ASSUME ContentInv, NEW w \in Writers, NEW text \in bodies, Moves(w, [at |-> "delete", text |-> text]),
           UNCHANGED <<body, bodies, blocks, snapshot, summaryRows>>,
           PublishedFrom(content', bodies), w # "summaries" => content'.summary = text,
           apart' = apart \cup Overlapping(w)
    PROVE  ContentInv'
<1> DEFINE r == [at |-> "delete", text |-> text]
<1>1. WriterOk(w, r, bodies)
  BY HandOk DEF ContentInv, ContentTyped
<1>2. ContentTyped' /\ \A v \in Writers : writing'[v] = IF v = w THEN r ELSE writing[v]
  BY <1>1, MoveTyped DEF ContentInv, ContentTyped
<1>3. ASSUME apart' = {} PROVE VectorOk(writing', content'.summary, summaryRows')
  <2>1. \A v \in Writers \ {w} : ~InHand(writing[v])
    BY <1>3 DEF Overlapping, Indexing, InHand, At
  <2>2. \A v \in Writers : InHand(writing'[v]) <=> v = w
    BY <1>2, <2>1 DEF InHand
  <2> QED
    BY <1>2, <2>2 DEF VectorOk, InHand
<1> QED
  BY <1>2, <1>3 DEF ContentInv

\* The content is published.
LEMMA PublishKeeps == ASSUME ContentInv, PublishContent PROVE ContentInv'
<1> DEFINE d == writing["build"]
<1>1. "build" \in Writers /\ At("build") = "publish"
  BY DEF PublishContent, Writers
<1>2. d \in Casts /\ WriterOk("build", d, bodies)
  BY <1>1, WriterIs
<1>3. TextsOf("build") = TextOf(d.sheet)
  BY DEF TextsOf, TextOf
<1>4. TextsOf("build") \in bodies /\ d.cast \in SUBSET BookNames
  BY <1>2, <1>3 DEF WriterOk, Casts
<1>5. /\ content' = [summary |-> TextsOf("build"), catalog |-> TextsOf("build"), cast |-> d.cast]
      /\ Moves("build", [at |-> "delete", text |-> TextsOf("build")])
      /\ UNCHANGED <<body, bodies, blocks, snapshot, summaryRows>> /\ apart' = apart \cup Overlapping("build")
  BY DEF PublishContent, Indexes
<1>6. PublishedFrom(content', bodies) /\ content'.summary = TextsOf("build")
  BY <1>4, <1>5 DEF PublishedFrom
<1> QED
  BY <1>1, <1>4, <1>5, <1>6, HandTaken

\* The summaries command has its summary.
LEMMA UpdateKeeps == ASSUME ContentInv, UpdateSummary PROVE ContentInv'
<1> DEFINE d == writing["summaries"]
<1>1. "summaries" \in Writers /\ At("summaries") = "update" /\ d.at = "update"
  BY DEF UpdateSummary, Writers, At
<1>2. d \in Drafts /\ WriterOk("summaries", d, bodies)
  BY <1>1, WriterIs
<1>3. TextsOf("summaries") = TextOf(d.sheet)
  BY DEF TextsOf, TextOf
<1>4. TextsOf("summaries") \in bodies
  BY <1>1, <1>2, <1>3, TextsArePages DEF WriterOk
<1>5. /\ Moves("summaries", [at |-> "delete", text |-> TextsOf("summaries")])
      /\ UNCHANGED <<body, bodies, blocks, snapshot, summaryRows, content>>
      /\ apart' = apart \cup Overlapping("summaries")
  BY DEF UpdateSummary, Indexes
<1>6. PublishedFrom(content', bodies)
  BY <1>5 DEF ContentInv, ContentTyped
<1> QED
  BY <1>1, <1>4, <1>5, <1>6, HandTaken

\* A writer goes on with the vector in hand.
LEMMA HandMoves ==
    ASSUME NEW w, NEW states, NEW r \in Vectors, WriterOk(w, r, states), NEW to \in {"add", "commit"},
           to = "commit" => w = "summaries"
    PROVE  /\ WriterOk(w, [r EXCEPT !.at = to], states)
           /\ [r EXCEPT !.at = to].at = to /\ [r EXCEPT !.at = to].text = r.text
<1> DEFINE e == [r EXCEPT !.at = to]
<1>1. e \in Vectors /\ e.at = to /\ e.text = r.text
  BY DEF Vectors
<1>2. e \notin Drafts /\ e \notin Casts /\ r.text \in states
  BY <1>1 DEF Drafts, Casts, WriterOk
<1> QED
  BY <1>1, <1>2 DEF WriterOk, WriterRecords

\* At rest a writer holds nothing.
LEMMA RestOk == ASSUME NEW w, NEW states PROVE WriterOk(w, Resting, states) /\ ~InHand(Resting)
BY DEF WriterOk, WriterRecords, Resting, Drafts, Casts, Vectors, InHand

\* The old vector goes.
LEMMA DeleteKeeps == ASSUME ContentInv, NEW w \in Writers, DeleteVector(w) PROVE ContentInv'
<1> DEFINE d == writing[w]
           e == [d EXCEPT !.at = "add"]
<1>1. At(w) = "delete" /\ d.at = "delete" /\ Indexing(w) /\ summaryRows' = {} /\ Moves(w, e)
      /\ UNCHANGED <<body, bodies, blocks, snapshot, content, apart>>
  BY DEF DeleteVector, Without, Goes, Indexing, At
<1>2. d \in Vectors /\ WriterOk(w, d, bodies) /\ InHand(d)
  BY <1>1, WriterIs
<1>3. WriterOk(w, e, bodies) /\ e.at = "add" /\ e.text = d.text
  <2> HIDE DEF d
  <2>1. e \in Vectors /\ e.at = "add" /\ e.text = d.text
    BY <1>2 DEF Vectors
  <2>2. e \notin Drafts /\ e \notin Casts
    BY <2>1 DEF Drafts, Casts
  <2>3. d.text \in bodies
    BY <1>2 DEF WriterOk
  <2> HIDE DEF e
  <2> QED
    BY <2>1, <2>2, <2>3 DEF WriterOk, WriterRecords
<1>4. PublishedFrom(content', bodies) /\ summaryRows' \subseteq bodies
  BY <1>1 DEF ContentInv, ContentTyped
<1> HIDE DEF e
<1>5. ContentTyped' /\ \A v \in Writers : writing'[v] = IF v = w THEN e ELSE writing[v]
  BY <1>1, <1>3, <1>4, MoveTyped
<1>6. VectorOk(writing, content.summary, summaryRows) => VectorOk(writing', content.summary, {})
  BY <1>2, <1>3, <1>5 DEF VectorOk, InHand
<1> QED
  BY <1>1, <1>5, <1>6 DEF ContentInv

\* The new vector is that of the summary that is shown or will be.
LEMMA AddKeeps == ASSUME ContentInv, NEW w \in Writers, AddVector(w) PROVE ContentInv'
<1> DEFINE d == writing[w]
<1>1. At(w) = "add" /\ d.at = "add" /\ Indexing(w) /\ summaryRows' = summaryRows \cup {d.text} /\ Indexed(w)
      /\ UNCHANGED <<body, bodies, blocks, snapshot, content, apart>>
  BY DEF AddVector, Indexing, At
<1>2. d \in Vectors /\ WriterOk(w, d, bodies) /\ InHand(d)
  BY <1>1, WriterIs
<1>3. d.text \in bodies /\ d.text # NoText
  BY <1>2, BodiesAreTexts DEF WriterOk, Vectors
<1>4. PublishedFrom(content', bodies) /\ summaryRows' \subseteq bodies
  BY <1>1, <1>3 DEF ContentInv, ContentTyped
<1>5. CASE w = "summaries"
  <2> DEFINE e == [d EXCEPT !.at = "commit"]
  <2>1. Moves(w, e)
    BY <1>1, <1>5 DEF Indexed, Goes
  <2>2. WriterOk(w, e, bodies) /\ e.at = "commit" /\ e.text = d.text
    BY <1>2, <1>5, HandMoves
  <2> HIDE DEF e
  <2>3. ContentTyped' /\ \A v \in Writers : writing'[v] = IF v = w THEN e ELSE writing[v]
    BY <1>1, <1>4, <2>1, <2>2, MoveTyped
  <2>4. VectorOk(writing, content.summary, summaryRows) => VectorOk(writing', content.summary, summaryRows')
    BY <1>1, <1>2, <1>5, <2>2, <2>3 DEF VectorOk, InHand
  <2> QED
    BY <1>1, <2>3, <2>4 DEF ContentInv
<1>6. CASE w # "summaries"
  <2>1. Moves(w, Resting)
    BY <1>1, <1>6 DEF Indexed
  <2>2. ContentTyped' /\ \A v \in Writers : writing'[v] = IF v = w THEN Resting ELSE writing[v]
    BY <1>1, <1>4, <2>1, RestOk, MoveTyped
  <2>3. ASSUME VectorOk(writing, content.summary, summaryRows) PROVE VectorOk(writing', content.summary, summaryRows')
    <3>1. summaryRows' = {d.text} /\ content.summary = d.text
      BY <1>1, <1>2, <1>6, <2>3 DEF VectorOk
    <3>2. \A v \in Writers : ~InHand(writing'[v])
      BY <1>2, <2>2, <2>3, RestOk DEF VectorOk
    <3> QED
      BY <1>3, <3>1, <3>2 DEF VectorOk, InHand
  <2> QED
    BY <1>1, <2>2, <2>3 DEF ContentInv
<1> QED
  BY <1>5, <1>6

\* A failure to write the vector is told.
LEMMA IndexFailsKeeps == ASSUME ContentInv, NEW w \in Writers, IndexFails(w) PROVE ContentInv'
<1> DEFINE d == writing[w]
<1>1. At(w) \in {"delete", "add"} /\ Indexing(w) /\ Indexed(w) /\ apart' # {}
      /\ UNCHANGED <<body, bodies, blocks, snapshot, content, summaryRows>>
  BY DEF IndexFails, Indexing
<1>2. d \in Vectors /\ WriterOk(w, d, bodies)
  BY <1>1, WriterIs
<1>3. PublishedFrom(content', bodies) /\ summaryRows' \subseteq bodies
  BY <1>1 DEF ContentInv, ContentTyped
<1>4. PICK r : Moves(w, r) /\ WriterOk(w, r, bodies)
  <2>1. CASE w = "summaries"
    BY <1>1, <1>2, <2>1, HandMoves DEF Indexed, Goes
  <2>2. CASE w # "summaries"
    BY <1>1, <2>2, RestOk DEF Indexed
  <2> QED
    BY <2>1, <2>2
<1>5. ContentTyped'
  BY <1>1, <1>3, <1>4, MoveTyped
<1> QED
  BY <1>1, <1>5 DEF ContentInv

\* The row of the summary follows its vector.
LEMMA CommitKeeps == ASSUME ContentInv, CommitSummary PROVE ContentInv'
<1> DEFINE d == writing["summaries"]
<1>1. "summaries" \in Writers /\ At("summaries") = "commit" /\ d.at = "commit" /\ Indexing("summaries")
      /\ content' = [content EXCEPT !.summary = d.text] /\ Moves("summaries", Resting)
      /\ UNCHANGED <<body, bodies, blocks, snapshot, summaryRows, apart>>
  BY DEF CommitSummary, Indexing, At, Writers
<1>2. d \in Vectors /\ WriterOk("summaries", d, bodies) /\ InHand(d)
  BY <1>1, WriterIs
<1>3. d.text \in bodies /\ d.text # NoText
  BY <1>2, BodiesAreTexts DEF WriterOk, Vectors
<1>4. PublishedFrom(content', bodies) /\ content'.summary = d.text /\ summaryRows' \subseteq bodies
  BY <1>1, <1>3 DEF ContentInv, ContentTyped, PublishedFrom
<1>5. ContentTyped' /\ \A v \in Writers : writing'[v] = IF v = "summaries" THEN Resting ELSE writing[v]
  BY <1>1, <1>4, RestOk, MoveTyped
<1>6. ASSUME VectorOk(writing, content.summary, summaryRows) PROVE VectorOk(writing', d.text, summaryRows)
  <2>1. \A v \in Writers : ~InHand(writing'[v])
    BY <1>1, <1>2, <1>5, <1>6, RestOk DEF VectorOk
  <2>2. summaryRows = {d.text}
    BY <1>1, <1>6 DEF VectorOk
  <2> QED
    BY <1>3, <2>1, <2>2 DEF VectorOk, InHand
<1> QED
  BY <1>1, <1>4, <1>5, <1>6 DEF ContentInv

\* A writer stops; with the vector in hand, this is told.
LEMMA StopKeeps == ASSUME ContentInv, NEW w \in Writers, Stop(w) PROVE ContentInv'
<1>1. Moves(w, Resting) /\ UNCHANGED <<body, bodies, blocks, snapshot, summaryRows, content>>
      /\ apart' = IF Indexing(w) THEN apart \cup {"stopped"} ELSE apart
  BY DEF Stop
<1>2. blocks' \in [1 .. MaxBookPages -> BlockRecords]
      /\ PublishedFrom(content', bodies) /\ summaryRows' \subseteq bodies
  BY <1>1 DEF ContentInv, ContentTyped
<1>3. CASE Indexing(w)
  <2>1. ContentTyped'
    BY <1>1, <1>2, RestOk, MoveTyped
  <2> QED
    BY <1>1, <1>3, <2>1 DEF ContentInv
<1>4. CASE ~Indexing(w)
  BY <1>1, <1>2, <1>4, RestOk, WriterMoves
<1> QED
  BY <1>3, <1>4

-----------------------------------------------------------------------------
(* What is done beside the writers. *)

\* A restored snapshot is written like any other content.
LEMMA RestoreKeeps == ASSUME ContentInv, RestoreContent PROVE ContentInv'
<1>1. "restore" \in Writers /\ content' = snapshot /\ UNCHANGED <<body, bodies, blocks, snapshot, summaryRows>>
  BY DEF RestoreContent, Writers
<1>2. PublishedFrom(content', bodies) /\ summaryRows' \subseteq bodies
  BY <1>1 DEF ContentInv, ContentTyped
<1>3. CASE snapshot.summary = NoText
  <2>1. writing' = writing /\ content'.summary = NoText
        /\ apart' = apart \cup (IF summaryRows # {} \/ Indexing("build") THEN {"restored nothing"} ELSE {})
    BY <1>1, <1>3 DEF RestoreContent
  <2>2. ContentTyped'
    BY <1>1, <1>2, <2>1 DEF ContentInv, ContentTyped
  <2>3. ASSUME apart' = {} PROVE VectorOk(writing', content'.summary, summaryRows')
    <3>1. summaryRows = {} /\ ~Indexing("build")
      BY <2>1, <2>3
    <3>2. ~Indexing("summaries") /\ ~Indexing("restore")
      <4>1. writing["restore"] = Resting /\ ~Indexing("summaries")
        BY DEF RestoreContent, Unlocked
      <4>2. writing["restore"].at = "rest"
        BY <4>1 DEF Resting
      <4> QED
        BY <4>1, <4>2 DEF Indexing, At
    <3>3. \A v \in Writers : ~InHand(writing[v])
      <4>1. \A v \in Writers : ~Indexing(v)
        BY <3>1, <3>2 DEF Writers
      <4> QED
        BY <4>1 DEF Indexing, InHand, At
    <3> QED
      BY <1>1, <2>1, <3>1, <3>3 DEF VectorOk, InHand
  <2> QED
    BY <2>2, <2>3 DEF ContentInv
<1>4. CASE snapshot.summary # NoText
  <2>1. snapshot.summary \in bodies
    BY <1>4 DEF ContentInv, ContentTyped, PublishedFrom
  <2>2. Moves("restore", [at |-> "delete", text |-> snapshot.summary]) /\ apart' = apart \cup Overlapping("restore")
        /\ content'.summary = snapshot.summary
    BY <1>1, <1>4 DEF RestoreContent, Indexes
  <2> QED
    BY <1>1, <1>2, <2>1, <2>2, HandTaken
<1> QED
  BY <1>3, <1>4

\* A snapshot, one more character and another text of the book leave the
\* summary and its vector as they are.
LEMMA OthersKeep == ASSUME ContentInv, TakeSnapshot \/ AddCharacter \/ Rewrite PROVE ContentInv'
<1>1. CASE TakeSnapshot
  BY <1>1 DEF TakeSnapshot, ContentInv, ContentTyped
<1>2. CASE AddCharacter
  <2>1. PICK n \in Mentioned : content' = [content EXCEPT !.cast = @ \cup {n}]
    BY <1>2 DEF AddCharacter
  <2>2. n \in BookNames
    <3>1. body \in Bodies
      BY DEF ContentInv, ContentTyped
    <3>2. PICK i \in DOMAIN body : n \in body[i]
      BY DEF Mentioned
    <3>3. body[i] \in BookTexts
      <4>1. body \in Seq(BookTexts) /\ i \in 1 .. Len(body)
        BY <3>1, <3>2, BodiesAreTexts
      <4> QED
        BY <4>1, ElementOfSeq
    <3> QED
      BY <3>2, <3>3, ContentAssumption
  <2>3. PublishedFrom(content', bodies) /\ content'.summary = content.summary
    BY <2>1, <2>2 DEF ContentInv, ContentTyped, PublishedFrom
  <2>4. UNCHANGED <<body, bodies, blocks, summaryRows, writing, snapshot, apart>>
    BY <1>2 DEF AddCharacter
  <2> QED
    BY <2>3, <2>4 DEF ContentInv, ContentTyped
<1>3. CASE Rewrite
  <2>1. body' \in Bodies /\ bodies' = bodies \cup {body'}
        /\ UNCHANGED <<blocks, content, summaryRows, writing, snapshot, apart>>
    BY <1>3 DEF Rewrite
  <2>2. \A w \in Writers : WriterOk(w, writing[w], bodies')
    <3>1. \A w \in Writers : WriterOk(w, writing[w], bodies)
      BY DEF ContentInv, ContentTyped
    <3> QED
      BY <2>1, <3>1, WriterStays
  <2>3. ASSUME NEW c, PublishedFrom(c, bodies) PROVE PublishedFrom(c, bodies')
    BY <2>1, <2>3 DEF PublishedFrom
  <2>4. PublishedFrom(content, bodies') /\ PublishedFrom(snapshot, bodies')
    BY <2>3 DEF ContentInv, ContentTyped
  <2>5. ContentTyped'
    BY <2>1, <2>2, <2>4 DEF ContentInv, ContentTyped
  <2> QED
    BY <2>1, <2>5 DEF ContentInv
<1> QED
  BY <1>1, <1>2, <1>3

\* An invalidation removes summary and vector, or tells that it stopped.
LEMMA InvalidateKeeps == ASSUME ContentInv, Invalidate PROVE ContentInv'
<1>1. content' = Nothing /\ UNCHANGED <<body, bodies, writing, snapshot>> /\ (\A w \in Writers : writing[w] = Resting)
      /\ summaryRows' \subseteq summaryRows /\ (apart' = {} => summaryRows' = {})
  BY DEF Invalidate
<1>2. PublishedFrom(content', bodies) /\ content'.summary = NoText
  BY <1>1 DEF PublishedFrom, Nothing
<1>3. NoBlock \in BlockRecords /\ blocks \in [1 .. MaxBookPages -> BlockRecords]
  <2>1. NoBlock \in BlockRecords
    BY DEF NoBlock, BlockRecords
  <2> QED
    BY <2>1 DEF ContentInv, ContentTyped
<1>4. blocks' \in [1 .. MaxBookPages -> BlockRecords]
  BY <1>3 DEF Invalidate
<1>5. ContentTyped'
  BY <1>1, <1>2, <1>4 DEF ContentInv, ContentTyped
<1>6. apart' = {} => VectorOk(writing', content'.summary, summaryRows')
  BY <1>1, <1>2 DEF VectorOk, InHand, Resting
<1> QED
  BY <1>5, <1>6 DEF ContentInv

\* Every step keeps the invariant.
LEMMA ContentInvStep == ContentInv /\ [ContentNext]_contentVars => ContentInv'
<1>1. ContentInv /\ UNCHANGED contentVars => ContentInv'
  BY DEF contentVars, ContentInv, ContentTyped
<1> QED
  BY <1>1, StartKeeps, ReadPagesKeeps, FactsKeeps, PruneKeeps, VerifyKeeps, PeopleKeeps, GuardKeeps, PublishKeeps,
     UpdateKeeps, DeleteKeeps, AddKeeps, IndexFailsKeeps, CommitKeeps, StopKeeps, RestoreKeeps, OthersKeep,
     InvalidateKeeps DEF ContentNext

\* What the invariant says of the content.
LEMMA ContentInvAgrees == ContentInv => ContentAgrees /\ ContentTypeOK
<1> SUFFICES ASSUME ContentInv PROVE ContentAgrees /\ ContentTypeOK
  OBVIOUS
<1>1. WrittenFromOneText
  BY DEF WrittenFromOneText, ContentInv, ContentTyped, PublishedFrom
<1>2. SearchFindsSummary
  BY DEF SearchFindsSummary, ContentInv, VectorOk, InHand, Resting
<1>3. content \in Published /\ snapshot \in Published /\ body \in Bodies /\ bodies \subseteq Bodies /\ summaryRows \subseteq Bodies
  BY DEF Published, ContentInv, ContentTyped, PublishedFrom
<1>4. \A i \in DOMAIN blocks : blocks[i] \in [text : BookTexts \cup {{}}, ledger : SUBSET BookNames, names : SUBSET BookNames]
  BY DEF ContentInv, ContentTyped, BlockRecords
<1> QED
  BY <1>1, <1>2, <1>3, <1>4 DEF ContentAgrees, ContentTypeOK

\* A published summary is of one state of the pages, whatever checkpoints,
\* publications and other writers there are, and the search finds it unless
\* one of the recorded things happened (full_builder.py, summary_index.py).
THEOREM ContentIsOfOneText == ContentSpec => []ContentAgrees
BY ContentInvInit, ContentInvStep, ContentInvAgrees, PTL DEF ContentSpec

\* A step in which the build publishes drops no name it knew that the book has
\* always mentioned.
LEMMA PublishKeepsNames ==
    ASSUME ContentInv, [ContentNext]_contentVars, At("build") = "publish", writing'["build"].at = "delete"
    PROVE  \A n \in content.cast \ content'.cast :
               (\A b \in bodies : \E i \in DOMAIN b : n \in b[i]) => n \notin writing["build"].known
<1> DEFINE d == writing["build"]
<1>1. "build" \in Writers /\ writing = [w \in Writers |-> writing[w]] /\ d.at = "publish"
  BY DEF Writers, ContentInv, ContentTyped, At
<1>2. ASSUME NEW w \in Writers, NEW r, Moves(w, r), w # "build" \/ r.at # "delete" PROVE FALSE
  <2>1. writing'["build"] = IF w = "build" THEN r ELSE d
    BY <1>1, <1>2 DEF Moves
  <2> QED
    BY <1>1, <1>2, <2>1
<1>3. writing' # writing
  BY <1>1
<1>4. PublishContent
  <2>1. ~StartBuild
    BY <1>1 DEF StartBuild, Starts, Resting
  <2>2. ~StartSummaries
    BY <1>2 DEF StartSummaries, Starts, Writers
  <2>3. ASSUME NEW w \in {"build", "summaries"}, ReadPages(w) \/ Facts(w) \/ Prune(w) \/ Verify(w) PROVE FALSE
    <3>1. w # "build"
      BY <2>3 DEF ReadPages, Facts, Prune, Verify
    <3>2. PICK r : Moves(w, r)
      BY <2>3 DEF ReadPages, Facts, Prune, Verify, Goes
    <3> QED
      BY <1>2, <3>1, <3>2 DEF Writers
  <2>4. ASSUME NEW w \in Writers, DeleteVector(w) \/ AddVector(w) \/ IndexFails(w) PROVE FALSE
    <3>1. w # "build"
      BY <2>4 DEF DeleteVector, AddVector, IndexFails
    <3>2. PICK r : Moves(w, r)
      BY <2>4 DEF DeleteVector, AddVector, IndexFails, Indexed, Goes
    <3> QED
      BY <1>2, <3>1, <3>2
  <2>5. ASSUME NEW w \in Writers, Stop(w) PROVE FALSE
    BY <1>2, <2>5 DEF Stop, Resting
  <2>6. ~People /\ ~Guard
    BY DEF People, Guard
  <2>7. ~UpdateSummary /\ ~CommitSummary
    BY <1>2 DEF UpdateSummary, CommitSummary, Indexes, Writers
  <2>8. ~RestoreContent
    BY <1>2, <1>3 DEF RestoreContent, Indexes, Writers
  <2>9. ~(TakeSnapshot \/ AddCharacter \/ Rewrite \/ Invalidate)
    BY <1>3 DEF TakeSnapshot, AddCharacter, Rewrite, Invalidate
  <2> QED
    BY <1>3, <2>1, <2>2, <2>3, <2>4, <2>5, <2>6, <2>7, <2>8, <2>9 DEF ContentNext, contentVars
<1>5. content'.cast = d.cast
  BY <1>4 DEF PublishContent
<1>6. \A n \in d.known : InAll(n, bodies) => n \in d.cast
  BY <1>1 DEF ContentInv, ContentTyped, WriterOk
<1> QED
  BY <1>5, <1>6 DEF InAll

\* A build drops no name that the book has always mentioned, but one that was
\* added after the build began (guard_character_deletion_regression).
THEOREM KnownNamesStay == ContentSpec => NamesAreKept
<1>1. ContentInv /\ [ContentNext]_contentVars =>
        [At("build") = "publish" /\ writing'["build"].at = "delete" =>
           \A n \in content.cast \ content'.cast :
               (\A b \in bodies : \E i \in DOMAIN b : n \in b[i]) => n \notin writing["build"].known]_contentVars
  BY PublishKeepsNames
<1> QED
  BY <1>1, ContentInvInit, ContentInvStep, PTL DEF ContentSpec, NamesAreKept

-----------------------------------------------------------------------------
(* The vector index: the chunks of SQLite, the rows of LanceDB, and what a  *)
(* rebuild has done to the rows of its book.                                *)

Kinds == {"book", "page", "sealed", "contexts"}
Rebuilds == {"book", "page", "sealed"}

PlacesOf(kind) ==
    CASE kind = "book" -> {"wipe", "draft", "add"}
      [] kind = "page" -> {"snapshot", "close", "draft", "clear", "add", "undo", "restore"}
      [] kind = "sealed" -> {"close", "draft", "clear", "add"}
      [] kind = "contexts" -> {"next", "embed", "record"}

VectorTyped ==
    /\ pages \in [Books -> UNION {[1..n -> Texts \cup {Ineligible}] : n \in 0..MaxPages}]
    /\ indexed \in [Books -> BOOLEAN] /\ sealed \in [Books -> BOOLEAN]
    /\ chunks \subseteq Rows
    /\ DOMAIN vectors \subseteq Rows /\ \A r \in DOMAIN vectors : vectors[r] \in Nat \ {0}
    /\ op = Idle \/ (op \in Operations /\ op.at \in PlacesOf(op.kind))
    /\ harm \in [Books -> SUBSET {"orphan", "lost", "stale", "unembedded"}]

\* One chunk for an id, and one for a page that the book has.
ChunksOk ==
    /\ \A c, d \in chunks : c.id = d.id => c = d
    /\ \A c, d \in chunks : c.book = d.book /\ c.page = d.page => c = d
    /\ \A c \in chunks : c.page \in DOMAIN pages[c.book]

\* The chunks of the book are those of its pages.
ChunksArePages(b) ==
    /\ \A c \in ChunksOf(b) : c.page \in Eligible(b) /\ c.text = pages[b][c.page]
    /\ \A p \in Eligible(b) : \E c \in ChunksOf(b) : c.page = p

MarkOk == \A b \in Books : indexed[b] /\ "stale" \notin harm[b] => ChunksArePages(b)

Fits(r, c) == c.book = r.book /\ c.id = r.id /\ c.page = r.page /\ c.text = r.text /\ (c.ctx => r.ctx)
HasChunk(r, rows) == \E c \in rows : Fits(r, c)
HasRow(c) == \E r \in DOMAIN vectors : r.book = c.book /\ r.id = c.id
RowsOnce(b, rows) == \A r, s \in rows : r.book = b /\ s.book = b /\ r.id = s.id => r = s

\* Every row of the book is there once and has its chunk.
RowsOk(b) ==
    /\ \A r \in DOMAIN vectors : r.book = b => vectors[r] = 1 /\ HasChunk(r, chunks)
    /\ RowsOnce(b, DOMAIN vectors)

Excused(b, c) == "unembedded" \in harm[b] /\ ~c.ctx
HasRows(b) == \A c \in ChunksOf(b) : HasRow(c) \/ Excused(b, c)
EmbeddedOk(b) == indexed[b] /\ harm[b] \subseteq {"unembedded"} => HasRows(b)

AtRest(b) == ("orphan" \notin harm[b] => RowsOk(b)) /\ EmbeddedOk(b)

\* What a rebuild has drafted are chunks of the text that it has read.
DraftIds == IdsOf(op.draft)
DraftApart == \A c \in Kept(op.book, op.scope) : c.id \notin DraftIds
DraftOk ==
    /\ \A d \in op.draft :
        d.book = op.book /\ d.page \in op.scope /\ d.page \in DOMAIN pages[op.book] /\ ~d.ctx
        /\ d.text = op.text[d.page] /\ d.text # Ineligible
    /\ \A c, d \in op.draft : c.id = d.id \/ c.page = d.page => c = d
    /\ \A p \in op.scope : op.text[p] # Ineligible => \E d \in op.draft : d.page = p
    /\ op.draft \ op.todo \subseteq DOMAIN vectors
    /\ op.todo \subseteq op.draft

\* The rows of the book while a rebuild adds and while it takes back.
NewRow(r) == r \in op.draft /\ r \notin op.todo
RowsAdded(b, rows) ==
    /\ \A r \in DOMAIN vectors : r.book = b => vectors[r] = 1 /\ (NewRow(r) \/ HasChunk(r, rows))
    /\ RowsOnce(b, DOMAIN vectors)

\* What a rebuild relies on at each of its steps: ids are left for its draft,
\* what it read is the published text unless a publication came between, the
\* mark is gone before LanceDB is touched (but for the book rebuild), and no
\* chunk that stays has an id of the draft.
WriteOk(b) ==
    /\ op.at \in {"wipe", "snapshot", "close", "draft"} => FitsIds(b, op.scope)
    /\ op.kind \in {"book", "sealed"} => \A c \in ChunksOf(b) : c.page \in op.scope
    /\ op.kind = "book" /\ ~op.raced => op.text = pages[b]
    /\ op.kind = "sealed" /\ op.at \in {"clear", "add"} => op.text = pages[b]
    /\ op.kind \in {"page", "sealed"} /\ op.at \in {"draft", "clear", "add", "undo", "restore"} => ~indexed[b]
    /\ op.at \in {"clear", "add"} => DraftOk
    /\ op.at \in {"clear", "add", "undo"} => DraftApart
    /\ op.at \in {"wipe", "snapshot", "close"} => AtRest(b)
    /\ op.text \in [op.scope -> Texts \cup {Ineligible}]
    /\ op.at \in {"wipe", "snapshot", "close", "draft"} => op.draft = {} /\ op.todo = {}
    /\ op.at = "clear" => op.draft = op.todo
    /\ "orphan" \notin harm[b] =>
        /\ (op.kind = "book" /\ op.at = "draft") => \A r \in DOMAIN vectors : r.book # b
        /\ op.kind # "book" /\ op.at \in {"draft", "clear"} => RowsOk(b)
        /\ op.at = "add" => RowsAdded(b, Kept(b, op.scope))
        /\ op.at = "undo" => RowsAdded(b, chunks)
        /\ op.at = "restore" => RowsOk(b) /\ \A r \in DOMAIN vectors : r.id \notin op.old

\* What a page rebuild has saved, and what it vouches for.
SavedOk(b) ==
    /\ \A c \in chunks : c.id \in op.old <=> c.book = b /\ c.page \in op.scope
    /\ \A r \in op.saved : r.id \in op.old /\ (r.book # b => "orphan" \in harm[r.book])
    /\ "orphan" \notin harm[b] =>
        (\A r \in op.saved : r.book = b => HasChunk(r, chunks)) /\ RowsOnce(b, op.saved)
    /\ op.was /\ ~op.raced /\ harm[b] = {} /\ (\A c \in Books : "orphan" \notin harm[c]) =>
        \A i \in op.old : \E r \in op.saved : r.id = i

PageOk(b) ==
    /\ op.was /\ ~op.raced /\ "stale" \notin harm[b] =>
        ChunksArePages(b) /\ \A p \in op.scope : op.text[p] = pages[b][p]
    /\ op.was /\ ~op.raced /\ harm[b] \subseteq {"unembedded"} =>
        \A c \in ChunksOf(b) : c.page \notin op.scope => HasRow(c) \/ Excused(b, c)
    /\ op.was /\ ~op.raced /\ op.at \in {"snapshot", "close"} => indexed[b]
    /\ op.at # "snapshot" => SavedOk(b)

\* generate_contexts: what it has yet to embed has no context yet.
ContextsOk(b) ==
    /\ \A c \in op.todo : c.book = b /\ ~c.ctx
    /\ \A c \in op.todo, d \in chunks : d.id = c.id => d.book = b
    /\ op.at # "next" => op.todo # {}
    /\ indexed[b] /\ harm[b] \subseteq {"unembedded"} =>
        \A c \in ChunksOf(b) : HasRow(c) \/ Excused(b, c) \/ (op.at = "embed" /\ c.id = Current.id)
    /\ "orphan" \notin harm[b] =>
        /\ op.todo \subseteq chunks
        /\ RowsOk(b)
        /\ op.at = "embed" => \A r \in DOMAIN vectors : r.id # Current.id
        /\ op.at = "record" => HasRow(Current) /\ \A r \in DOMAIN vectors : r.book = b /\ r.id = Current.id => r.ctx

AtWork(b) ==
    /\ op.kind \in Rebuilds => WriteOk(b)
    /\ op.kind = "page" => PageOk(b)
    /\ op.kind = "contexts" => ContextsOk(b)

\* A book that nothing works on is at rest; the one at work is as far as the
\* operation says.
VectorInv ==
    /\ VectorTyped /\ ChunksOk /\ MarkOk
    /\ \A b \in Books : op = Idle \/ op.book # b => AtRest(b)
    /\ \A b \in Books : op # Idle /\ op.book = b => AtWork(b)

\* The next row of a table gets the id after the largest one.
LEMMA LargestId ==
    ASSUME NEW ids \in SUBSET (1 .. MaxId), ids # {}
    PROVE  \E n \in ids : \A i \in ids : i <= n
<1>1. MaxId \in Nat
  BY ChunkIndexAssumption
<1> DEFINE back == {MaxId - i : i \in ids}
<1>2. back \subseteq Nat /\ back # {}
  <2>1. \A i \in ids : MaxId - i \in Nat
    BY <1>1
  <2>2. PICK i \in ids : TRUE
    OBVIOUS
  <2>3. MaxId - i \in back
    BY <2>2
  <2> QED
    BY <2>1, <2>3
<1>3. PICK b \in back : \A c \in back : ~(<<c, b>> \in OpToRel(<, Nat))
  BY <1>2, NatLessThanWellFounded, WFMin
<1>4. PICK n \in ids : b = MaxId - n
  BY <1>3
<1>5. ASSUME NEW i \in ids PROVE i <= n
  <2>1. MaxId - i \in back /\ MaxId - i \in Nat /\ b \in Nat
    BY <1>1, <1>2, <1>3
  <2>2. ~(<<MaxId - i, b>> \in OpToRel(<, Nat))
    BY <1>3, <2>1
  <2>3. ~(MaxId - i < b)
    BY <2>1, <2>2 DEF OpToRel
  <2> QED
    BY <1>1, <1>4, <2>1, <2>3
<1> QED
  BY <1>5

\* The last chunk id is that of some row, or 0 for no rows.
LEMMA LastIdIs ==
    ASSUME NEW rows \in SUBSET Rows
    PROVE  /\ LastId(rows) \in 0 .. MaxId
           /\ \A r \in rows : r.id <= LastId(rows)
           /\ LastId(rows) = 0 \/ LastId(rows) \in IdsOf(rows)
<1> DEFINE Last(n) == (\A r \in rows : r.id <= n) /\ (n = 0 \/ n \in IdsOf(rows))
<1>1. MaxId \in Nat
  BY ChunkIndexAssumption
<1>2. \A r \in rows : r.id \in 1 .. MaxId /\ r.id \in IdsOf(rows)
  BY DEF Rows, IdsOf
<1>3. IdsOf(rows) \subseteq 1 .. MaxId
  BY <1>2 DEF IdsOf
<1>4. \E n \in 0 .. MaxId : Last(n)
  <2>1. CASE IdsOf(rows) = {}
    <3>1. Last(0) /\ 0 \in 0 .. MaxId
      BY <1>1, <1>2, <2>1
    <3> QED
      BY <3>1
  <2>2. CASE IdsOf(rows) # {}
    <3>1. PICK n \in IdsOf(rows) : \A i \in IdsOf(rows) : i <= n
      BY <1>3, <2>2, LargestId
    <3>2. Last(n) /\ n \in 0 .. MaxId
      BY <1>1, <1>2, <1>3, <3>1
    <3> QED
      BY <3>2
  <2> QED
    BY <2>1, <2>2
<1>5. LastId(rows) = CHOOSE n \in 0 .. MaxId : Last(n)
  BY DEF LastId
<1>6. LastId(rows) \in 0 .. MaxId /\ Last(LastId(rows))
  <2> HIDE DEF Last
  <2> QED
    BY <1>4, <1>5
<1> QED
  BY <1>6

\* Fewer rows have no larger last id.
LEMMA LastIdOfFewer ==
    ASSUME NEW rows \in SUBSET Rows, NEW fewer \in SUBSET rows PROVE LastId(fewer) <= LastId(rows)
<1>1. fewer \in SUBSET Rows /\ MaxId \in Nat
  BY ChunkIndexAssumption
<1>2. /\ LastId(fewer) \in 0 .. MaxId /\ LastId(rows) \in 0 .. MaxId
      /\ LastId(fewer) = 0 \/ LastId(fewer) \in IdsOf(fewer)
      /\ \A r \in rows : r.id <= LastId(rows)
  BY <1>1, LastIdIs
<1>3. CASE LastId(fewer) \in IdsOf(fewer)
  BY <1>2, <1>3 DEF IdsOf
<1> QED
  BY <1>1, <1>2, <1>3

\* The rank of a page among those that get a chunk.
RankIn(wanted, p) == Cardinality({q \in wanted : q <= p})

\* The ranks of the wanted pages count them.
LEMMA RankIs ==
    ASSUME NEW scope \in SUBSET PageNos, NEW wanted \in SUBSET scope
    PROVE  /\ IsFiniteSet(scope) /\ Cardinality(scope) \in Nat
           /\ \A p \in wanted : RankIn(wanted, p) \in Nat /\ 1 <= RankIn(wanted, p)
                                /\ RankIn(wanted, p) <= Cardinality(scope)
           /\ \A p, q \in wanted : p < q => RankIn(wanted, p) < RankIn(wanted, q)
<1> DEFINE Below(p) == {q \in wanted : q <= p}
<1>1. PageNos \subseteq Int /\ IsFiniteSet(PageNos)
  <2>1. MaxPages \in Int /\ 1 \in Int
    BY ChunkIndexAssumption
  <2> QED
    BY <2>1, FS_Interval DEF PageNos
<1>2. IsFiniteSet(scope) /\ Cardinality(scope) \in Nat
  BY <1>1, FS_Subset, FS_CardinalityType
<1>3. ASSUME NEW p \in wanted
      PROVE  /\ IsFiniteSet(Below(p)) /\ Cardinality(Below(p)) \in Nat
             /\ Cardinality(Below(p)) <= Cardinality(scope) /\ Cardinality(Below(p)) # 0
  <2>1. Below(p) \in SUBSET scope
    OBVIOUS
  <2>2. IsFiniteSet(Below(p)) /\ Cardinality(Below(p)) <= Cardinality(scope)
    BY <1>2, <2>1, FS_Subset
  <2>3. p \in Below(p)
    BY <1>1
  <2> HIDE DEF Below
  <2>4. Below(p) # {}
    BY <2>3
  <2> QED
    BY <2>2, <2>4, FS_CardinalityType, FS_EmptySet
<1>4. ASSUME NEW p \in wanted, NEW q \in wanted, p < q PROVE Cardinality(Below(p)) < Cardinality(Below(q))
  <2>1. Below(p) \in SUBSET Below(q)
    <3>1. p \in Int /\ q \in Int /\ \A x \in wanted : x \in Int
      BY <1>1
    <3>2. \A x \in wanted : x <= p => x <= q
      BY <1>4, <3>1
    <3> QED
      BY <3>2
  <2>2. q \in Below(q) /\ q \notin Below(p)
    BY <1>1, <1>4
  <2>3. IsFiniteSet(Below(q)) /\ Cardinality(Below(q)) \in Nat /\ Cardinality(Below(p)) \in Nat
    BY <1>3
  <2> HIDE DEF Below
  <2>4. Below(p) # Below(q)
    BY <2>2
  <2>5. Cardinality(Below(p)) <= Cardinality(Below(q)) /\ Cardinality(Below(p)) # Cardinality(Below(q))
    BY <2>1, <2>3, <2>4, FS_Subset
  <2> QED
    BY <2>3, <2>5
<1>5. \A p \in wanted : RankIn(wanted, p) = Cardinality(Below(p))
  BY DEF RankIn
<1> HIDE DEF Below
<1>6. \A p \in wanted : Cardinality(Below(p)) \in Nat /\ 1 <= Cardinality(Below(p))
  BY <1>3
<1> QED
  BY <1>2, <1>3, <1>4, <1>5, <1>6

Wanted(scope, text) == {p \in scope : text[p] # Ineligible}
DraftRow(b, last, wanted, text, p) ==
    [id |-> last + RankIn(wanted, p), book |-> b, page |-> p, text |-> text[p], ctx |-> FALSE]

\* The chunks that a rebuild drafts: one for each page that gets one, with ids
\* that no chunk has that stays.
LEMMA DraftedIs ==
    ASSUME chunks \subseteq Rows, NEW b \in Books, NEW scope \in SUBSET PageNos,
           NEW text \in [scope -> Texts \cup {Ineligible}], FitsIds(b, scope)
    PROVE  /\ Drafted(b, scope, text) \subseteq Rows
           /\ \A d \in Drafted(b, scope, text) :
                d.book = b /\ d.page \in scope /\ d.text = text[d.page] /\ d.text # Ineligible /\ ~d.ctx
           /\ \A c, d \in Drafted(b, scope, text) : c.id = d.id \/ c.page = d.page => c = d
           /\ \A p \in scope : text[p] # Ineligible => \E d \in Drafted(b, scope, text) : d.page = p
           /\ \A c \in Kept(b, scope), d \in Drafted(b, scope, text) : c.id # d.id
<1> DEFINE W == Wanted(scope, text)
           last == LastId(Kept(b, scope))
           Row(p) == DraftRow(b, last, W, text, p)
           D == Drafted(b, scope, text)
<1>1. D = {Row(p) : p \in W}
  BY DEF Drafted, Wanted, DraftRow, RankIn
<1>2. /\ Kept(b, scope) \in SUBSET Rows /\ last \in 0 .. MaxId /\ MaxId \in Nat
      /\ \A r \in Kept(b, scope) : r.id <= last
  <2>1. Kept(b, scope) \in SUBSET Rows
    BY DEF Kept
  <2> QED
    BY <2>1, LastIdIs, ChunkIndexAssumption
<1>3. last + Cardinality(scope) <= MaxId
  BY DEF FitsIds
<1>4. W \in SUBSET scope /\ W \subseteq PageNos /\ PageNos \subseteq Int
  <2>1. W \in SUBSET scope
    BY DEF Wanted
  <2>2. PageNos \subseteq Int
    BY DEF PageNos
  <2> QED
    BY <2>1, <2>2
<1>5. /\ Cardinality(scope) \in Nat
      /\ \A p \in W : RankIn(W, p) \in Nat /\ 1 <= RankIn(W, p) /\ RankIn(W, p) <= Cardinality(scope)
      /\ \A p, q \in W : p < q => RankIn(W, p) < RankIn(W, q)
  BY <1>4, RankIs
<1>6. \A p \in W : text[p] \in Texts /\ text[p] # Ineligible /\ p \in scope /\ p \in PageNos
  BY <1>4 DEF Wanted
<1>7. \A p \in scope : text[p] # Ineligible => p \in W
  BY DEF Wanted
<1> HIDE DEF W, last
<1>8. ASSUME NEW p \in W
      PROVE  /\ Row(p).id = last + RankIn(W, p) /\ Row(p).book = b /\ Row(p).page = p /\ Row(p).text = text[p]
             /\ Row(p).ctx = FALSE /\ last + RankIn(W, p) \in 1 .. MaxId /\ last + RankIn(W, p) > last
  <2>1. last + RankIn(W, p) \in 1 .. MaxId /\ last + RankIn(W, p) > last
    BY <1>2, <1>3, <1>5
  <2> QED
    BY <2>1 DEF DraftRow
<1>9. ASSUME NEW p \in W PROVE Row(p) \in Rows
  <2>1. last + RankIn(W, p) \in 1 .. MaxId
    BY <1>8
  <2> QED
    BY <1>6, <2>1 DEF DraftRow, Rows
<1> HIDE DEF Row
<1>10. ASSUME NEW p \in W, NEW q \in W, Row(p).id = Row(q).id \/ Row(p).page = Row(q).page PROVE Row(p) = Row(q)
  <2>1. CASE Row(p).page = Row(q).page
    BY <1>8, <2>1
  <2>2. CASE Row(p).id = Row(q).id
    <3>1. RankIn(W, p) = RankIn(W, q)
      <4>1. last + RankIn(W, p) = last + RankIn(W, q)
        BY <1>8, <2>2
      <4>2. last \in Int /\ RankIn(W, p) \in Int /\ RankIn(W, q) \in Int
        BY <1>2, <1>5
      <4> QED
        BY <4>1, <4>2
    <3>2. p = q
      <4>1. p \in Int /\ q \in Int
        BY <1>4
      <4>2. RankIn(W, p) \in Int /\ RankIn(W, q) \in Int
        BY <1>5
      <4>3. ~(p < q) /\ ~(q < p)
        BY <1>5, <3>1, <4>2
      <4> QED
        BY <4>1, <4>3
    <3> QED
      BY <3>2
  <2> QED
    BY <1>10, <2>1, <2>2
<1>11. D \subseteq Rows
  BY <1>1, <1>9
<1>12. ASSUME NEW d \in D
       PROVE  d.book = b /\ d.page \in scope /\ d.text = text[d.page] /\ d.text # Ineligible /\ ~d.ctx
  <2>1. PICK p \in W : d = Row(p)
    BY <1>1
  <2> QED
    BY <1>6, <1>8, <2>1
<1>13. \A c, d \in D : c.id = d.id \/ c.page = d.page => c = d
  BY <1>1, <1>10
<1>14. \A p \in scope : text[p] # Ineligible => \E d \in D : d.page = p
  BY <1>1, <1>7, <1>8
<1>15. ASSUME NEW c \in Kept(b, scope), NEW d \in D PROVE c.id # d.id
  <2>1. PICK p \in W : d = Row(p)
    BY <1>1
  <2>2. d.id > last
    BY <1>8, <2>1
  <2>3. c.id <= last /\ last \in Int
    BY <1>2
  <2>4. c.id \in Int /\ d.id \in Int
    BY <1>2, <1>11 DEF Rows
  <2> QED
    BY <2>2, <2>3, <2>4
<1> QED
  BY <1>11, <1>12, <1>13, <1>14, <1>15

\* What the operators on bags do to the rows.
LEMMA RowsLeft ==
    ASSUME NEW ids
    PROVE  /\ DOMAIN WithoutIds(vectors, ids) = {r \in DOMAIN vectors : r.id \notin ids}
           /\ \A r \in DOMAIN vectors : r.id \notin ids => WithoutIds(vectors, ids)[r] = vectors[r]
BY DEF WithoutIds, Filter

\* Adding a set of rows to the vectors adds one copy of each.
LEMMA RowsWith ==
    ASSUME NEW rows, \A r \in DOMAIN vectors : vectors[r] \in Nat \ {0}
    PROVE  /\ DOMAIN (vectors (+) SetToBag(rows)) = DOMAIN vectors \cup rows
           /\ \A r \in DOMAIN vectors \ rows : (vectors (+) SetToBag(rows))[r] = vectors[r]
           /\ \A r \in rows \ DOMAIN vectors : (vectors (+) SetToBag(rows))[r] = 1
           /\ \A r \in DOMAIN vectors \cup rows : (vectors (+) SetToBag(rows))[r] \in Nat \ {0}
BY DEF (+), SetToBag

\* A running operation has a kind, a book and a place of that kind.
LEMMA OpIs ==
    ASSUME VectorInv, op # Idle
    PROVE  /\ op \in Operations /\ op.at \in PlacesOf(op.kind) /\ op.book \in Books /\ op.kind \in Kinds
           /\ op.scope \in SUBSET PageNos /\ op.draft \subseteq Rows /\ op.todo \subseteq Rows /\ op.saved \subseteq Rows
           /\ op.kind \in Rebuilds => WriteOk(op.book)
           /\ op.kind = "page" => PageOk(op.book)
           /\ op.kind = "contexts" => ContextsOk(op.book)
BY DEF VectorInv, VectorTyped, Operations, Kinds, AtWork

\* Where each kind of operation can be.
LEMMA PlacesAre ==
    ASSUME NEW kind \in Kinds, NEW at \in PlacesOf(kind)
    PROVE  /\ kind = "book" => at \in {"wipe", "draft", "add"}
           /\ kind = "page" => at \in {"snapshot", "close", "draft", "clear", "add", "undo", "restore"}
           /\ kind = "sealed" => at \in {"close", "draft", "clear", "add"}
           /\ kind = "contexts" => at \in {"next", "embed", "record"}
BY DEF PlacesOf, Kinds

\* A book at rest stays so when its harm and its excuses grow and its mark goes.
LEMMA RestStays ==
    ASSUME NEW b \in Books, AtRest(b), UNCHANGED <<chunks, vectors>>, indexed'[b] => indexed[b],
           harm[b] \subseteq harm'[b]
    PROVE  AtRest(b)'
<1>1. RowsOk(b)' <=> RowsOk(b)
  BY DEF RowsOk, RowsOnce, HasChunk, Fits
<1>2. HasRows(b) => HasRows(b)'
  BY DEF HasRows, HasRow, Excused, ChunksOf
<1>3. EmbeddedOk(b)'
  BY <1>2 DEF AtRest, EmbeddedOk
<1> QED
  BY <1>1, <1>3 DEF AtRest

\* A book nobody touches stays at rest.
LEMMA RestOfSame ==
    ASSUME NEW b \in Books, AtRest(b), UNCHANGED <<chunks, vectors, harm>>, indexed'[b] => indexed[b]
    PROVE  AtRest(b)'
BY RestStays

\* Rows of other chunks go.
LEMMA RestWithout ==
    ASSUME NEW b \in Books, AtRest(b), NEW ids, vectors' = WithoutIds(vectors, ids),
           \A c \in ChunksOf(b) : c.id \notin ids,
           UNCHANGED <<chunks, harm>>, indexed'[b] => indexed[b]
    PROVE  AtRest(b)'
<1>1. /\ DOMAIN vectors' = {r \in DOMAIN vectors : r.id \notin ids}
      /\ \A r \in DOMAIN vectors' : vectors'[r] = vectors[r]
  BY RowsLeft
<1>2. RowsOk(b) => RowsOk(b)'
  BY <1>1 DEF RowsOk, RowsOnce, HasChunk, Fits
<1>3. ASSUME NEW c \in ChunksOf(b), HasRow(c) PROVE HasRow(c)'
  BY <1>1, <1>3 DEF HasRow
<1>4. HasRows(b) => HasRows(b)'
  BY <1>3 DEF HasRows, Excused, ChunksOf
<1>5. EmbeddedOk(b)'
  BY <1>4 DEF AtRest, EmbeddedOk
<1> QED
  BY <1>2, <1>5 DEF AtRest

\* Rows of other books come, or the book has orphans anyway.
LEMMA RestWith ==
    ASSUME NEW b \in Books, AtRest(b), NEW rows, vectors' = vectors (+) SetToBag(rows),
           \A r \in DOMAIN vectors : vectors[r] \in Nat \ {0},
           \A r \in rows : r.book = b => "orphan" \in harm[b],
           UNCHANGED <<chunks, harm>>, indexed'[b] => indexed[b]
    PROVE  AtRest(b)'
<1>1. /\ DOMAIN vectors' = DOMAIN vectors \cup rows
      /\ \A r \in DOMAIN vectors \ rows : vectors'[r] = vectors[r]
  BY RowsWith
<1>2. CASE "orphan" \in harm[b]
  BY <1>2 DEF AtRest, EmbeddedOk
<1>3. CASE "orphan" \notin harm[b]
  <2>1. \A r \in rows : r.book # b
    BY <1>3
  <2>2. RowsOk(b)
    BY <1>3 DEF AtRest
  <2>3. RowsOk(b)'
    BY <1>1, <2>1, <2>2 DEF RowsOk, RowsOnce, HasChunk, Fits
  <2>4. HasRows(b) => HasRows(b)'
    BY <1>1 DEF HasRows, HasRow, Excused, ChunksOf
  <2>5. EmbeddedOk(b)'
    BY <2>4 DEF AtRest, EmbeddedOk
  <2> QED
    BY <2>3, <2>5 DEF AtRest
<1> QED
  BY <1>2, <1>3

\* The chunks a rebuild keeps are chunks of the table.
LEMMA KeptAreChunks == \A b, scope : Kept(b, scope) \subseteq chunks
BY DEF Kept

\* A set of rows that is not empty has one with the smallest id.
LEMMA SmallestRow ==
    ASSUME NEW rows \in SUBSET Rows, rows # {} PROVE \E r \in rows : \A x \in rows : r.id <= x.id
<1> DEFINE ids == {r.id : r \in rows}
<1>1. \A r \in rows : r.id \in Nat
  BY DEF Rows
<1>2. ids \subseteq Nat /\ ids # {}
  BY <1>1
<1>3. PICK i \in ids : \A j \in ids : ~(<<j, i>> \in OpToRel(<, Nat))
  BY <1>2, NatLessThanWellFounded, WFMin
<1>4. PICK r \in rows : i = r.id
  BY <1>3
<1>5. ASSUME NEW x \in rows PROVE r.id <= x.id
  <2>1. x.id \in ids /\ x.id \in Nat /\ r.id \in Nat
    BY <1>1
  <2>2. ~(<<x.id, r.id>> \in OpToRel(<, Nat))
    BY <1>3, <1>4, <2>1
  <2>3. ~(x.id < r.id)
    BY <2>1, <2>2 DEF OpToRel
  <2> QED
    BY <2>1, <2>3
<1> QED
  BY <1>5

\* The chunk a context call is at is one of those left to do.
LEMMA CurrentIs == ASSUME op.todo \subseteq Rows, op.todo # {} PROVE Current \in op.todo
<1>1. \E r \in op.todo : \A x \in op.todo : r.id <= x.id
  BY SmallestRow
<1> QED
  BY <1>1 DEF Current

\* A rebuild ends where it is: what it leaves behind is said of its book.
LEMMA StopRows ==
    ASSUME VectorInv, op # Idle, "orphan" \notin harm[op.book], "orphan" \notin LeftBehind
    PROVE  RowsOk(op.book)
<1> DEFINE b == op.book
<1>1. /\ op.at \in PlacesOf(op.kind) /\ op.kind \in Kinds
      /\ op.kind \in Rebuilds => WriteOk(b)
      /\ op.kind = "contexts" => ContextsOk(b)
  BY OpIs
<1>2. CASE op.kind = "contexts"
  BY <1>1, <1>2 DEF ContextsOk
<1>3. CASE op.kind \in Rebuilds
  <2>1. WriteOk(b)
    BY <1>1, <1>3
  <2>2. CASE op.at \in {"wipe", "snapshot", "close"}
    BY <2>1, <2>2 DEF WriteOk, AtRest
  <2>3. CASE op.at \in {"draft", "clear"}
    <3>1. CASE op.kind = "book"
      <4>1. op.at = "draft"
        BY <1>1, <2>3, <3>1, PlacesAre
      <4>2. \A r \in DOMAIN vectors : r.book # b
        BY <2>1, <3>1, <4>1 DEF WriteOk
      <4> QED
        BY <4>2 DEF RowsOk, RowsOnce
    <3> QED
      BY <2>1, <2>3, <3>1 DEF WriteOk
  <2>4. CASE op.at \in {"add", "undo"}
    <3>1. op.todo = op.draft
      BY <1>3, <2>4 DEF LeftBehind, Added, Rebuilds
    <3>2. \A r : ~NewRow(r)
      BY <3>1 DEF NewRow
    <3>3. RowsAdded(b, Kept(b, op.scope)) \/ RowsAdded(b, chunks)
      BY <2>1, <2>4 DEF WriteOk
    <3> QED
      BY <3>2, <3>3, KeptAreChunks DEF RowsAdded, RowsOk, HasChunk
  <2>5. CASE op.at = "restore"
    BY <2>1, <2>5 DEF WriteOk
  <2> QED
    BY <1>1, <1>3, <2>2, <2>3, <2>4, <2>5, PlacesAre DEF Rebuilds
<1> QED
  BY <1>1, <1>2, <1>3 DEF Kinds, Rebuilds

\* An operation that stops in the middle leaves the chunks it says.
LEMMA StopChunks ==
    ASSUME VectorInv, op # Idle, indexed[op.book], harm[op.book] \subseteq {"unembedded"}, "lost" \notin LeftBehind
    PROVE  \A c \in ChunksOf(op.book) :
             HasRow(c) \/ Excused(op.book, c) \/ ("unembedded" \in LeftBehind /\ ~c.ctx)
<1> DEFINE b == op.book
<1>1. /\ op.at \in PlacesOf(op.kind) /\ op.kind \in Kinds /\ op.todo \subseteq Rows
      /\ op.kind \in Rebuilds => WriteOk(b)
      /\ op.kind = "contexts" => ContextsOk(b)
  BY OpIs
<1>2. CASE op.kind = "contexts"
  <2>1. ContextsOk(b)
    BY <1>1, <1>2
  <2>2. op.at = "embed" => "unembedded" \in LeftBehind
    BY DEF LeftBehind
  <2>3. ASSUME NEW c \in ChunksOf(b), op.at = "embed", c.id = Current.id PROVE ~c.ctx
    <3>1. Current \in op.todo
      BY <1>1, <2>1, <2>3, CurrentIs DEF ContextsOk
    <3>2. Current \in chunks /\ ~Current.ctx /\ c \in chunks
      BY <2>1, <2>3, <3>1 DEF ContextsOk, ChunksOf
    <3>3. c = Current
      BY <2>3, <3>2 DEF VectorInv, ChunksOk
    <3> QED
      BY <3>2, <3>3
  <2> QED
    BY <2>1, <2>2, <2>3 DEF ContextsOk
<1>3. CASE op.kind \in Rebuilds
  <2>1. WriteOk(b)
    BY <1>1, <1>3
  <2>2. CASE op.at \in {"wipe", "snapshot", "close"}
    BY <2>1, <2>2 DEF WriteOk, AtRest, EmbeddedOk, HasRows
  <2>3. CASE op.kind = "book" /\ op.at \in {"draft", "add"}
    BY <2>3 DEF LeftBehind
  <2>4. CASE op.kind \in {"page", "sealed"} /\ op.at \in {"draft", "clear", "add", "undo", "restore"}
    BY <2>1, <2>4 DEF WriteOk
  <2> QED
    BY <1>1, <1>3, <2>2, <2>3, <2>4, PlacesAre DEF Rebuilds
<1> QED
  BY <1>1, <1>2, <1>3 DEF Kinds, Rebuilds

\* A book whose operation stopped is at rest, with the harm it left.
LEMMA StopRests ==
    ASSUME VectorInv, op # Idle, NEW b \in Books, b = op.book, UNCHANGED <<chunks, vectors>>,
           Harmed(b, LeftBehind), indexed'[b] => indexed[b]
    PROVE  AtRest(b)'
<1>1. harm \in [Books -> SUBSET {"orphan", "lost", "stale", "unembedded"}]
  BY DEF VectorInv, VectorTyped
<1>2. harm'[b] = harm[b] \cup LeftBehind
  BY <1>1 DEF Harmed
<1>3. ASSUME "orphan" \notin harm'[b] PROVE RowsOk(b)'
  <2>1. RowsOk(b)
    BY <1>2, <1>3, StopRows
  <2> QED
    BY <2>1 DEF RowsOk, RowsOnce, HasChunk, Fits
<1>4. ASSUME indexed'[b], harm'[b] \subseteq {"unembedded"} PROVE HasRows(b)'
  <2>1. \A c \in ChunksOf(b) : HasRow(c) \/ Excused(b, c) \/ ("unembedded" \in LeftBehind /\ ~c.ctx)
    BY <1>2, <1>4, StopChunks
  <2> QED
    BY <1>2, <2>1 DEF HasRows, HasRow, Excused, ChunksOf
<1> QED
  BY <1>3, <1>4 DEF AtRest, EmbeddedOk

\* What is said of the books and their marks, when the text stays.
LEMMA MarksStay ==
    ASSUME MarkOk, UNCHANGED <<pages, chunks>>,
           \A b \in Books : (indexed'[b] => indexed[b]) /\ harm[b] \subseteq harm'[b]
    PROVE  MarkOk'
BY DEF MarkOk, ChunksArePages, ChunksOf, Eligible

\* Chunks and pages that do not change stay in order.
LEMMA ChunksStay == ASSUME ChunksOk, UNCHANGED <<pages, chunks>> PROVE ChunksOk'
BY DEF ChunksOk

\* An operation that stops keeps the invariant.
LEMMA VectorStops ==
    ASSUME VectorInv, op # Idle, op' = Idle, UNCHANGED <<pages, sealed, chunks, vectors>>,
           Harmed(op.book, LeftBehind), indexed' = indexed \/ indexed' = [indexed EXCEPT ![op.book] = FALSE]
    PROVE  VectorInv'
<1>1. PICK b \in Books : b = op.book
  BY OpIs
<1>2. /\ indexed \in [Books -> BOOLEAN] /\ harm \in [Books -> SUBSET {"orphan", "lost", "stale", "unembedded"}]
  BY DEF VectorInv, VectorTyped
<1>3. LeftBehind \subseteq {"orphan", "lost", "unembedded"}
  BY DEF LeftBehind
<1>4. /\ harm' \in [Books -> SUBSET {"orphan", "lost", "stale", "unembedded"}]
      /\ \A c \in Books : harm[c] \subseteq harm'[c]
  BY <1>1, <1>2, <1>3 DEF Harmed
<1>5. indexed' \in [Books -> BOOLEAN] /\ \A c \in Books : indexed'[c] => indexed[c]
  BY <1>1, <1>2
<1>6. VectorTyped'
  BY <1>4, <1>5 DEF VectorInv, VectorTyped
<1>7. ChunksOk' /\ MarkOk'
  BY <1>4, <1>5, MarksStay, ChunksStay DEF VectorInv
<1>8. ASSUME NEW c \in Books PROVE AtRest(c)'
  <2>1. CASE c = b
    BY <1>1, <1>5, <2>1, StopRests
  <2>2. CASE c # b
    BY <1>1, <1>4, <1>5, <2>2, RestStays DEF VectorInv
  <2> QED
    BY <2>1, <2>2
<1> QED
  BY <1>6, <1>7, <1>8 DEF VectorInv

\* A failure, a crash and the end of the contexts keep the invariant.
LEMMA VectorEnds ==
    ASSUME VectorInv, Raise \/ UndoRaises \/ Crash \/ EndContexts PROVE VectorInv'
<1>1. /\ op # Idle /\ op' = Idle /\ UNCHANGED <<pages, sealed, chunks, vectors>>
      /\ indexed' = indexed \/ indexed' = [indexed EXCEPT ![op.book] = FALSE]
  BY DEF Raise, UndoRaises, Crash, EndContexts, stores, counters, Idle
<1>2. CASE Raise \/ UndoRaises \/ Crash
  BY <1>1, <1>2, VectorStops DEF Raise, UndoRaises, Crash
<1>3. CASE EndContexts
  <2>1. op.at = "next" /\ harm' = harm
    BY <1>3 DEF EndContexts
  <2>2. op.kind = "contexts"
    <3>1. op.at \in PlacesOf(op.kind) /\ op.kind \in Kinds
      BY <1>1, OpIs
    <3> QED
      BY <2>1, <3>1, PlacesAre DEF Kinds
  <2>3. LeftBehind = {}
    BY <2>1, <2>2 DEF LeftBehind, Added
  <2>4. Harmed(op.book, LeftBehind)
    BY <2>1, <2>3 DEF Harmed, VectorInv, VectorTyped
  <2> QED
    BY <1>1, <2>4, VectorStops
<1> QED
  BY <1>2, <1>3

\* Reopening the review of a book keeps the invariant.
LEMMA VectorRecheck == ASSUME VectorInv, NEW b \in Books, Recheck(b) PROVE VectorInv'
<1>1. /\ op = Idle /\ op' = op /\ indexed' = [indexed EXCEPT ![b] = FALSE] /\ sealed' = [sealed EXCEPT ![b] = FALSE]
      /\ UNCHANGED <<pages, chunks, vectors, harm>>
  BY DEF Recheck
<1>2. indexed' \in [Books -> BOOLEAN] /\ sealed' \in [Books -> BOOLEAN] /\ \A c \in Books : indexed'[c] => indexed[c]
  BY <1>1 DEF VectorInv, VectorTyped
<1>3. VectorTyped'
  BY <1>1, <1>2 DEF VectorInv, VectorTyped
<1>4. ChunksOk' /\ MarkOk'
  BY <1>1, <1>2, MarksStay, ChunksStay DEF VectorInv
<1>5. \A c \in Books : AtRest(c)'
  BY <1>1, <1>2, RestOfSame DEF VectorInv
<1> QED
  BY <1>1, <1>3, <1>4, <1>5 DEF VectorInv

\* Nothing is indexed at first.
LEMMA VectorInit == Init => VectorInv
<1> SUFFICES ASSUME Init PROVE VectorInv
  OBVIOUS
<1>1. /\ chunks = {} /\ DOMAIN vectors = {} /\ op = Idle
      /\ pages = [b \in Books |-> <<>>] /\ indexed = [b \in Books |-> FALSE]
      /\ sealed = [b \in Books |-> FALSE] /\ harm = [b \in Books |-> {}]
  BY DEF Init, EmptyBag, SetToBag
<1>2. <<>> \in [1 .. 0 -> Texts \cup {Ineligible}] /\ 0 \in 0 .. MaxPages
  BY ChunkIndexAssumption
<1>3. pages \in [Books -> UNION {[1..n -> Texts \cup {Ineligible}] : n \in 0..MaxPages}]
  BY <1>1, <1>2
<1>4. VectorTyped /\ ChunksOk /\ MarkOk
  BY <1>1, <1>3 DEF VectorTyped, ChunksOk, MarkOk
<1>5. \A b \in Books : AtRest(b)
  BY <1>1 DEF AtRest, RowsOk, RowsOnce, EmbeddedOk
<1> QED
  BY <1>1, <1>4, <1>5 DEF VectorInv

\* The pages of a book are page numbers.
LEMMA PagesAre ==
    ASSUME VectorTyped, NEW b \in Books
    PROVE  /\ DOMAIN pages[b] \in SUBSET PageNos
           /\ pages[b] \in [DOMAIN pages[b] -> Texts \cup {Ineligible}]
<1>1. PICK n \in 0..MaxPages : pages[b] \in [1..n -> Texts \cup {Ineligible}]
  <2>1. pages[b] \in UNION {[1..n -> Texts \cup {Ineligible}] : n \in 0..MaxPages}
    BY DEF VectorTyped
  <2> QED
    BY <2>1
<1>2. 1..n \subseteq PageNos
  BY <1>1, ChunkIndexAssumption DEF PageNos
<1> QED
  BY <1>1, <1>2

\* An operation that begins has nothing saved and nothing done.
LEMMA BegunIs ==
    ASSUME VectorTyped, NEW b \in Books, NEW scope \in SUBSET DOMAIN pages[b],
           NEW kind \in Kinds, NEW at \in PlacesOf(kind)
    PROVE  /\ Begun(kind, at, b, scope) \in Operations
           /\ Begun(kind, at, b, scope).kind = kind /\ Begun(kind, at, b, scope).at = at
           /\ Begun(kind, at, b, scope).book = b /\ Begun(kind, at, b, scope).scope = scope
           /\ Begun(kind, at, b, scope).text = [p \in scope |-> pages[b][p]]
           /\ Begun(kind, at, b, scope).was = indexed[b] /\ Begun(kind, at, b, scope).raced = FALSE
<1>1. scope \in SUBSET PageNos /\ [p \in scope |-> pages[b][p]] \in [scope -> Texts \cup {Ineligible}]
  BY PagesAre
<1>2. at \in {"wipe", "snapshot", "close", "draft", "clear", "add", "next", "embed", "record", "undo", "restore"}
  BY PlacesAre DEF Kinds
<1>3. indexed[b] \in BOOLEAN
  BY DEF VectorTyped
<1>4. [p \in scope |-> pages[b][p]] \in UNION {[s -> Texts \cup {Ineligible}] : s \in SUBSET PageNos}
  BY <1>1
<1> DEFINE text == [p \in scope |-> pages[b][p]]
<1>5. Begun(kind, at, b, scope) =
        [kind |-> kind, at |-> at, book |-> b, scope |-> scope, text |-> text, old |-> {}, draft |-> {},
         todo |-> {}, saved |-> {}, was |-> indexed[b], raced |-> FALSE]
  BY DEF Begun
<1>7. text \in UNION {[s -> Texts \cup {Ineligible}] : s \in SUBSET PageNos}
  BY <1>4
<1> HIDE DEF text
<1>8. Begun(kind, at, b, scope) \in Operations
  BY <1>1, <1>2, <1>3, <1>5, <1>7 DEF Operations, Kinds
<1> QED
  BY <1>5, <1>8 DEF text

\* A rebuild that begins keeps the invariant.
LEMMA RebuildStarts ==
    ASSUME VectorInv, op = Idle, NEW b \in Books, NEW kind \in Rebuilds, NEW at \in PlacesOf(kind),
           at \in {"wipe", "snapshot", "close"}, NEW scope \in SUBSET DOMAIN pages[b], kind = "page" => at = "snapshot",
           FitsIds(b, scope), kind # "page" => scope = DOMAIN pages[b],
           op' = Begun(kind, at, b, scope), UNCHANGED <<stores, harm>>
    PROVE  VectorInv'
<1>1. VectorTyped /\ ChunksOk /\ MarkOk /\ \A c \in Books : AtRest(c)
  BY DEF VectorInv
<1>2. kind \in Kinds
  BY DEF Kinds, Rebuilds
<1>3. /\ op' \in Operations /\ op' # Idle /\ op'.kind = kind /\ op'.at = at /\ op'.book = b
      /\ op'.scope = scope /\ op'.text = [p \in scope |-> pages[b][p]] /\ op'.was = indexed[b] /\ op'.raced = FALSE
      /\ op'.draft = {} /\ op'.todo = {}
  <2> DEFINE new == Begun(kind, at, b, scope)
  <2>1. new \in Operations
    BY <1>1, <1>2, BegunIs
  <2>2. new # Idle
    <3>1. new.kind = kind /\ Idle.kind = "idle" /\ kind # "idle"
      BY DEF Begun, Idle, Rebuilds
    <3> HIDE DEF new
    <3> QED
      BY <3>1
  <2>3. /\ new.kind = kind /\ new.at = at /\ new.book = b /\ new.scope = scope
        /\ new.text = [p \in scope |-> pages[b][p]] /\ new.was = indexed[b] /\ new.raced = FALSE
        /\ new.draft = {} /\ new.todo = {}
    BY DEF Begun
  <2>4. op' = new
    OBVIOUS
  <2> HIDE DEF new
  <2> QED
    BY <2>1, <2>2, <2>3, <2>4
<1>4. UNCHANGED <<pages, indexed, sealed, chunks, vectors, harm>>
  BY DEF stores
<1>5. VectorTyped' /\ ChunksOk' /\ MarkOk'
  BY <1>1, <1>3, <1>4, MarksStay, ChunksStay DEF VectorTyped
<1>6. \A c \in Books : AtRest(c)'
  BY <1>1, <1>4, RestOfSame
<1>7. kind # "page" => op'.text = pages[b]
  BY <1>1, <1>3, PagesAre
<1>8. kind # "page" => \A c \in ChunksOf(b) : c.page \in scope
  BY <1>1 DEF ChunksOk, ChunksOf
<1>9. FitsIds(b, scope)'
  BY <1>4 DEF FitsIds, Kept
<1>13. op'.text \in [op'.scope -> Texts \cup {Ineligible}]
  <2>1. \A p \in scope : pages[b][p] \in Texts \cup {Ineligible}
    BY <1>1, PagesAre
  <2> QED
    BY <1>3, <2>1
<1>10. WriteOk(b)'
  BY <1>3, <1>4, <1>6, <1>7, <1>8, <1>9, <1>13 DEF WriteOk, ChunksOf
<1>11. ASSUME kind = "page" PROVE PageOk(b)'
  <2>1. indexed[b] /\ "stale" \notin harm[b] => ChunksArePages(b)'
    BY <1>1, <1>4 DEF MarkOk, ChunksArePages, ChunksOf, Eligible
  <2>2. \A p \in op'.scope : op'.text[p] = pages'[b][p]
    BY <1>3, <1>4
  <2>3. indexed[b] /\ harm[b] \subseteq {"unembedded"} =>
          (\A c \in ChunksOf(b) : HasRow(c) \/ Excused(b, c))'
    BY <1>1, <1>4 DEF AtRest, EmbeddedOk, HasRows, HasRow, Excused, ChunksOf
  <2>4. op'.at = "snapshot" /\ op'.was = indexed'[b] /\ indexed' = indexed /\ harm' = harm
    BY <1>3, <1>4, <1>11
  <2> QED
    BY <2>1, <2>2, <2>3, <2>4 DEF PageOk
<1>12. AtWork(b)'
  BY <1>3, <1>10, <1>11 DEF AtWork, Rebuilds
<1> QED
  BY <1>3, <1>5, <1>6, <1>12 DEF VectorInv

\* The start of a rebuild of a book, a page or a sealed book keeps the invariant.
LEMMA VectorStarts ==
    ASSUME VectorInv, NEW b \in Books, StartBook(b) \/ StartPage(b) \/ StartSealed(b) PROVE VectorInv'
<1>1. op = Idle /\ UNCHANGED <<stores, harm>>
  BY DEF StartBook, StartPage, StartSealed, Begins
<1>2. CASE StartBook(b)
  <2>1. "book" \in Rebuilds /\ "wipe" \in PlacesOf("book")
    BY DEF Rebuilds, PlacesOf
  <2>2. FitsIds(b, DOMAIN pages[b]) /\ op' = Begun("book", "wipe", b, DOMAIN pages[b])
    BY <1>2 DEF StartBook
  <2> QED
    BY <1>1, <2>1, <2>2, RebuildStarts
<1>3. CASE StartPage(b)
  <2>1. "page" \in Rebuilds /\ "snapshot" \in PlacesOf("page")
    BY DEF Rebuilds, PlacesOf
  <2>2. PICK p \in DOMAIN pages[b] : FitsIds(b, {p}) /\ op' = Begun("page", "snapshot", b, {p})
    BY <1>3 DEF StartPage
  <2> QED
    BY <1>1, <2>1, <2>2, RebuildStarts
<1>4. CASE StartSealed(b)
  <2>1. "sealed" \in Rebuilds /\ "close" \in PlacesOf("sealed")
    BY DEF Rebuilds, PlacesOf
  <2>2. FitsIds(b, DOMAIN pages[b]) /\ op' = Begun("sealed", "close", b, DOMAIN pages[b])
    BY <1>4 DEF StartSealed
  <2> QED
    BY <1>1, <2>1, <2>2, RebuildStarts
<1> QED
  BY <1>2, <1>3, <1>4

\* The start of the contexts of a book keeps the invariant.
LEMMA VectorStartContexts == ASSUME VectorInv, NEW b \in Books, StartContexts(b) PROVE VectorInv'
<1>1. VectorTyped /\ ChunksOk /\ MarkOk /\ op = Idle /\ \A c \in Books : AtRest(c)
  BY DEF VectorInv, StartContexts, Begins
<1>2. UNCHANGED <<pages, indexed, sealed, chunks, vectors, harm>>
  BY DEF StartContexts, Begins, stores
<1> DEFINE new == Begun("contexts", "next", b, DOMAIN pages[b])
           todo == {c \in ChunksOf(b) : ~c.ctx}
<1>3. /\ new \in Operations /\ new.kind = "contexts" /\ new.at = "next" /\ new.book = b
  <2>1. "contexts" \in Kinds /\ "next" \in PlacesOf("contexts")
    BY DEF Kinds, PlacesOf
  <2>2. new \in Operations
    BY <1>1, <2>1, BegunIs
  <2>3. new.kind = "contexts" /\ new.at = "next" /\ new.book = b
    BY DEF Begun
  <2> HIDE DEF new
  <2> QED
    BY <2>2, <2>3
<1>4. op' = [new EXCEPT !.todo = todo] /\ todo \subseteq Rows /\ \E c \in ChunksOf(b) : ~c.ctx
  BY <1>1 DEF StartContexts, ChunksOf, VectorTyped
<1> HIDE DEF new, todo
<1>5. /\ op' \in Operations /\ op'.kind = "contexts" /\ op'.at = "next" /\ op'.book = b /\ op'.todo = todo
  BY <1>3, <1>4 DEF Operations
<1>6. op' # Idle
  <2>1. op'.kind # Idle.kind
    BY <1>5 DEF Idle
  <2> QED
    BY <2>1
<1>7. VectorTyped' /\ ChunksOk' /\ MarkOk'
  <2>1. op'.at \in PlacesOf(op'.kind)
    BY <1>5 DEF PlacesOf
  <2>2. ChunksOk' /\ MarkOk'
    BY <1>1, <1>2, MarksStay, ChunksStay
  <2> QED
    BY <1>1, <1>2, <1>5, <2>1, <2>2 DEF VectorTyped
<1>8. \A c \in Books : AtRest(c)'
  BY <1>1, <1>2, RestOfSame
<1>9. ContextsOk(b)'
  <2>1. \A c \in todo : c.book = b /\ ~c.ctx /\ c \in chunks
    BY DEF todo, ChunksOf
  <2>2. \A c \in todo, d \in chunks : d.id = c.id => d.book = b
    BY <1>1, <2>1 DEF ChunksOk
  <2>3. (indexed[b] /\ harm[b] \subseteq {"unembedded"} => \A c \in ChunksOf(b) : HasRow(c) \/ Excused(b, c))'
    BY <1>8 DEF AtRest, EmbeddedOk, HasRows
  <2>4. ("orphan" \notin harm[b] => RowsOk(b))'
    BY <1>8 DEF AtRest
  <2> QED
    BY <1>2, <1>5, <2>1, <2>2, <2>3, <2>4 DEF ContextsOk
<1>10. AtWork(b)'
  BY <1>5, <1>9 DEF AtWork, Rebuilds
<1> QED
  BY <1>5, <1>6, <1>7, <1>8, <1>10 DEF VectorInv

\* What a publication does to the chunks, and to the book at work.
Cuts(b) ==
    /\ chunks' \subseteq chunks /\ \A c \in chunks \ chunks' : c.book = b
    /\ "orphan" \notin harm'[b] => chunks' = chunks
    /\ \A c \in Books : harm[c] \subseteq harm'[c]
    /\ \A c \in Books \ {b} : harm'[c] = harm[c] /\ pages'[c] = pages[c] /\ indexed'[c] = indexed[c]
    /\ ~indexed'[b] /\ vectors' = vectors
    /\ op = Idle => op' = Idle
    /\ op # Idle =>
        /\ op' # Idle /\ op.at \notin {"clear", "add"}
        /\ op'.kind = op.kind /\ op'.at = op.at /\ op'.book = op.book /\ op'.scope = op.scope /\ op'.text = op.text
        /\ op'.old = op.old /\ op'.draft = op.draft /\ op'.todo = op.todo /\ op'.saved = op.saved /\ op'.was = op.was
        /\ IF op.book = b THEN op'.raced = TRUE ELSE op'.raced = op.raced

\* Publishing a book replaces its pages and deletes its chunks.
LEMMA PublishCuts ==
    ASSUME VectorInv, NEW b \in Books, Publish(b) PROVE Cuts(b) /\ VectorTyped' /\ ChunksOk'
<1>1. PICK n \in PageNos : \E new \in [1..n -> Texts \cup {Ineligible}] :
        /\ pages' = [pages EXCEPT ![b] = new]
        /\ chunks' = chunks \ {c \in ChunksOf(b) : c.page > n}
        /\ Harmed(b, IF {c \in ChunksOf(b) : c.page > n} = {} THEN {} ELSE {"orphan"})
  BY DEF Publish
<1>20. PICK new \in [1..n -> Texts \cup {Ineligible}] :
        /\ pages' = [pages EXCEPT ![b] = new]
        /\ chunks' = chunks \ {c \in ChunksOf(b) : c.page > n}
        /\ Harmed(b, IF {c \in ChunksOf(b) : c.page > n} = {} THEN {} ELSE {"orphan"})
  BY <1>1
<1>2. VectorTyped /\ ChunksOk
  BY DEF VectorInv
<1> DEFINE cut == {c \in ChunksOf(b) : c.page > n}
<1>3. /\ indexed' = [indexed EXCEPT ![b] = FALSE] /\ sealed' = [sealed EXCEPT ![b] = FALSE] /\ vectors' = vectors
      /\ ~Locked /\ op' = IF op.kind # "idle" /\ op.book = b THEN [op EXCEPT !.raced = TRUE] ELSE op
  BY DEF Publish
<1>4. harm' = [harm EXCEPT ![b] = @ \cup (IF cut = {} THEN {} ELSE {"orphan"})]
  BY <1>20 DEF Harmed
<1>5. harm' \in [Books -> SUBSET {"orphan", "lost", "stale", "unembedded"}]
  BY <1>2, <1>4 DEF VectorTyped
<1>6. pages' \in [Books -> UNION {[1..m -> Texts \cup {Ineligible}] : m \in 0..MaxPages}]
  <2>1. n \in 0..MaxPages
    BY ChunkIndexAssumption DEF PageNos
  <2>2. new \in UNION {[1..m -> Texts \cup {Ineligible}] : m \in 0..MaxPages}
    BY <2>1
  <2> QED
    BY <1>20, <1>2, <2>2 DEF VectorTyped
<1>7. /\ indexed' \in [Books -> BOOLEAN] /\ sealed' \in [Books -> BOOLEAN] /\ chunks' \subseteq chunks
      /\ ~indexed'[b] /\ \A c \in Books \ {b} : indexed'[c] = indexed[c] /\ pages'[c] = pages[c]
  BY <1>20, <1>2, <1>3 DEF VectorTyped
<1>8. /\ \A c \in chunks \ chunks' : c.book = b
      /\ \A c \in Books : harm[c] \subseteq harm'[c]
      /\ \A c \in Books \ {b} : harm'[c] = harm[c]
      /\ "orphan" \notin harm'[b] => chunks' = chunks
  <2>1. \A c \in chunks \ chunks' : c.book = b
    BY <1>20 DEF ChunksOf
  <2>2. /\ \A c \in Books : harm[c] \subseteq harm'[c]
        /\ \A c \in Books \ {b} : harm'[c] = harm[c]
    BY <1>2, <1>4 DEF VectorTyped
  <2>3. ASSUME "orphan" \notin harm'[b] PROVE chunks' = chunks
    <3>1. cut = {}
      BY <1>2, <1>4, <2>3 DEF VectorTyped
    <3> QED
      BY <1>20, <3>1
  <2> QED
    BY <2>1, <2>2, <2>3
<1>9. ASSUME op # Idle
      PROVE  /\ op' # Idle /\ op.at \notin {"clear", "add"} /\ op' \in Operations
             /\ op'.kind = op.kind /\ op'.at = op.at /\ op'.book = op.book /\ op'.scope = op.scope /\ op'.text = op.text
             /\ op'.old = op.old /\ op'.draft = op.draft /\ op'.todo = op.todo /\ op'.saved = op.saved
             /\ op'.was = op.was /\ IF op.book = b THEN op'.raced = TRUE ELSE op'.raced = op.raced
  <2>1. op \in Operations /\ op.kind \in Kinds
    BY <1>9, OpIs
  <2>2. op.kind # "idle" /\ op.at \notin {"clear", "add"}
    BY <1>3, <2>1 DEF Kinds, Locked
  <2>3. CASE op.book = b
    <3>1. op' = [op EXCEPT !.raced = TRUE]
      BY <1>3, <2>2, <2>3
    <3>2. op' \in Operations /\ op'.kind = op.kind /\ op'.at = op.at /\ op'.book = op.book /\ op'.scope = op.scope
          /\ op'.text = op.text /\ op'.old = op.old /\ op'.draft = op.draft /\ op'.todo = op.todo
          /\ op'.saved = op.saved /\ op'.was = op.was /\ op'.raced = TRUE
      BY <2>1, <3>1 DEF Operations
    <3>3. Idle.kind = "idle"
      BY DEF Idle
    <3>4. op' # Idle
      BY <2>2, <3>2, <3>3
    <3> QED
      BY <2>2, <2>3, <3>2, <3>4
  <2>4. CASE op.book # b
    BY <1>3, <1>9, <2>1, <2>2, <2>4
  <2> QED
    BY <2>3, <2>4
<1>10. ASSUME op = Idle PROVE op' = Idle
  BY <1>3, <1>10 DEF Idle
<1>11. Cuts(b)
  BY <1>3, <1>7, <1>8, <1>9, <1>10 DEF Cuts
<1>12. VectorTyped'
  <2>1. DOMAIN vectors \subseteq Rows /\ \A r \in DOMAIN vectors : vectors[r] \in Nat \ {0}
    BY <1>2 DEF VectorTyped
  <2>2. op' = Idle \/ (op' \in Operations /\ op'.at \in PlacesOf(op'.kind))
    BY <1>2, <1>9, <1>10 DEF VectorTyped
  <2>3. chunks' \subseteq Rows
    BY <1>2, <1>7 DEF VectorTyped
  <2> QED
    BY <1>3, <1>5, <1>6, <1>7, <2>1, <2>2, <2>3 DEF VectorTyped
<1>13. ASSUME NEW c \in chunks' PROVE c.page \in DOMAIN pages'[c.book]
  <2>1. c \in chunks /\ c.book \in Books /\ c.page \in DOMAIN pages[c.book] /\ c.page \in PageNos
    BY <1>2, <1>7 DEF VectorTyped, ChunksOk, Rows
  <2>2. CASE c.book = b
    <3>1. pages'[b] = new /\ DOMAIN new = 1..n
      BY <1>20, <1>2 DEF VectorTyped
    <3>2. ~(c.page > n)
      BY <1>20, <2>1, <2>2 DEF ChunksOf
    <3>3. c.page \in 1..n
      BY <2>1, <3>2, ChunkIndexAssumption DEF PageNos
    <3> QED
      BY <2>2, <3>1, <3>3
  <2>3. CASE c.book # b
    BY <1>7, <2>1, <2>3
  <2> QED
    BY <2>2, <2>3
<1>14. ChunksOk'
  BY <1>2, <1>7, <1>13 DEF ChunksOk
<1> QED
  BY <1>11, <1>12, <1>14

\* A cut leaves the book at rest or at work as it was.
LEMMA CutRows ==
    ASSUME NEW b \in Books, Cuts(b), NEW c \in Books, "orphan" \notin harm'[c]
    PROVE  /\ "orphan" \notin harm[c]
           /\ \A r \in DOMAIN vectors : r.book = c /\ HasChunk(r, chunks) => HasChunk(r, chunks')
           /\ RowsOk(c) => RowsOk(c)'
<1>1. "orphan" \notin harm[c]
  BY DEF Cuts
<1>2. ASSUME NEW r, r.book = c, HasChunk(r, chunks) PROVE HasChunk(r, chunks')
  <2>1. PICK d \in chunks : Fits(r, d)
    BY <1>2 DEF HasChunk
  <2>2. d \in chunks'
    BY <1>2, <2>1 DEF Cuts, Fits
  <2> QED
    BY <2>1, <2>2 DEF HasChunk
<1>3. RowsOk(c) => RowsOk(c)'
  BY <1>2 DEF RowsOk, RowsOnce, Cuts, HasChunk, Fits
<1> QED
  BY <1>1, <1>2, <1>3

\* A book that is indexed after a publication is another one and lost nothing.
LEMMA CutHasRows ==
    ASSUME NEW b \in Books, Cuts(b), NEW c \in Books, indexed'[c]
    PROVE  /\ c # b /\ indexed[c] /\ harm'[c] = harm[c] /\ pages'[c] = pages[c]
           /\ ChunksOf(c)' = ChunksOf(c) /\ \A d : HasRow(d)' <=> HasRow(d)
           /\ ChunksArePages(c) => ChunksArePages(c)'
           /\ HasRows(c) => HasRows(c)'
<1>1. c # b /\ indexed[c] /\ harm'[c] = harm[c] /\ pages'[c] = pages[c] /\ vectors' = vectors
  BY DEF Cuts
<1>2. ChunksOf(c)' = ChunksOf(c)
  BY <1>1 DEF ChunksOf, Cuts
<1>3. \A d : HasRow(d)' <=> HasRow(d)
  BY <1>1 DEF HasRow
<1>4. ChunksArePages(c) => ChunksArePages(c)'
  BY <1>1, <1>2 DEF ChunksArePages, Eligible
<1>5. HasRows(c) => HasRows(c)'
  BY <1>1, <1>2, <1>3 DEF HasRows, Excused
<1> QED
  BY <1>1, <1>2, <1>3, <1>4, <1>5

\* A publication leaves the books at rest as they were.
LEMMA CutRests ==
    ASSUME NEW b \in Books, Cuts(b), NEW c \in Books, AtRest(c) PROVE AtRest(c)'
<1>1. "orphan" \notin harm'[c] => RowsOk(c)'
  BY CutRows DEF AtRest
<1>2. ASSUME indexed'[c], harm'[c] \subseteq {"unembedded"} PROVE HasRows(c)'
  BY <1>2, CutHasRows DEF AtRest, EmbeddedOk
<1> QED
  BY <1>1, <1>2 DEF AtRest, EmbeddedOk

\* A publication leaves the marks of the indexed books true.
LEMMA CutMarks == ASSUME MarkOk, NEW b \in Books, Cuts(b) PROVE MarkOk'
<1>1. ASSUME NEW c \in Books, indexed'[c], "stale" \notin harm'[c] PROVE ChunksArePages(c)'
  BY <1>1, CutHasRows DEF MarkOk
<1> QED
  BY <1>1 DEF MarkOk

\* A publication leaves room for the ids of a rebuild.
LEMMA CutIds ==
    ASSUME chunks \subseteq Rows, NEW b \in Books, Cuts(b), NEW w \in Books, NEW scope \in SUBSET PageNos, FitsIds(w, scope)
    PROVE  FitsIds(w, scope)'
<1> DEFINE kept == Kept(w, scope)
           fewer == {c \in chunks' : c.book = w => c.page \notin scope}
<1>1. kept \in SUBSET Rows /\ fewer \in SUBSET kept
  BY DEF Kept, Cuts
<1>2. fewer \in SUBSET Rows
  BY <1>1
<1>3. LastId(fewer) <= LastId(kept) /\ LastId(fewer) \in 0 .. MaxId /\ LastId(kept) \in 0 .. MaxId
  BY <1>1, <1>2, LastIdOfFewer, LastIdIs
<1>4. Cardinality(scope) \in Nat
  <2>1. {} \in SUBSET scope
    OBVIOUS
  <2> QED
    BY <2>1, RankIs
<1>5. LastId(kept) + Cardinality(scope) <= MaxId /\ MaxId \in Nat
  BY ChunkIndexAssumption DEF FitsIds
<1>6. LastId(fewer) + Cardinality(scope) <= MaxId
  BY <1>3, <1>4, <1>5
<1>7. Kept(w, scope)' = fewer
  BY DEF Kept
<1> QED
  BY <1>6, <1>7 DEF FitsIds

\* A rebuild that runs survives a publication.
LEMMA CutWrites ==
    ASSUME VectorInv, op # Idle, NEW w \in Books, w = op.book, WriteOk(w), NEW b \in Books, Cuts(b)
    PROVE  WriteOk(w)'
<1>1. /\ op'.kind = op.kind /\ op'.at = op.at /\ op'.book = w /\ op'.scope = op.scope /\ op'.text = op.text
      /\ op'.draft = op.draft /\ op'.todo = op.todo /\ op'.old = op.old
      /\ op'.at \notin {"clear", "add"} /\ vectors' = vectors /\ chunks' \subseteq chunks
      /\ w = b => op'.raced = TRUE
      /\ w # b => op'.raced = op.raced
  BY DEF Cuts
<1>2. op.scope \in SUBSET PageNos /\ chunks \subseteq Rows
  BY OpIs DEF VectorInv, VectorTyped
<1>3. (op.at \in {"wipe", "snapshot", "close", "draft"} => FitsIds(w, op.scope))'
  <2> DEFINE scope == op.scope
  <2>1. op.at \in {"wipe", "snapshot", "close", "draft"} => FitsIds(w, scope)
    BY DEF WriteOk
  <2>2. op'.at \in {"wipe", "snapshot", "close", "draft"} => FitsIds(w, op.scope)'
    <3> SUFFICES ASSUME NEW s, s = op.scope, op'.at \in {"wipe", "snapshot", "close", "draft"}
                 PROVE  FitsIds(w, s)'
      BY <1>1
    <3>1. s \in SUBSET PageNos /\ FitsIds(w, s)
      BY <1>1, <1>2, <2>1
    <3> QED
      BY <1>2, <3>1, CutIds
  <2> QED
    BY <1>1, <2>2
<1>4. (op.kind \in {"book", "sealed"} => \A c \in ChunksOf(w) : c.page \in op.scope)'
  BY <1>1 DEF WriteOk, ChunksOf
<1>5. (op.kind = "book" /\ ~op.raced => op.text = pages[w])'
  BY <1>1 DEF WriteOk, Cuts
<1>6. (op.kind \in {"page", "sealed"} /\ op.at \in {"draft", "clear", "add", "undo", "restore"} => ~indexed[w])'
  BY <1>1 DEF WriteOk, Cuts
<1>7. (op.at \in {"clear", "add", "undo"} => DraftApart)'
  BY <1>1 DEF WriteOk, DraftApart, Kept, DraftIds
<1>8. (op.at \in {"wipe", "snapshot", "close"} => AtRest(w))'
  BY <1>1, CutRests DEF WriteOk
<1>9. ("orphan" \notin harm[w] =>
        /\ (op.kind = "book" /\ op.at = "draft") => \A r \in DOMAIN vectors : r.book # w
        /\ op.kind # "book" /\ op.at \in {"draft", "clear"} => RowsOk(w)
        /\ op.at = "undo" => RowsAdded(w, chunks)
        /\ op.at = "restore" => RowsOk(w) /\ \A r \in DOMAIN vectors : r.id \notin op.old)'
  <2> SUFFICES ASSUME "orphan" \notin harm'[w]
               PROVE  (/\ (op.kind = "book" /\ op.at = "draft") => \A r \in DOMAIN vectors : r.book # w
                       /\ op.kind # "book" /\ op.at \in {"draft", "clear"} => RowsOk(w)
                       /\ op.at = "undo" => RowsAdded(w, chunks)
                       /\ op.at = "restore" => RowsOk(w) /\ \A r \in DOMAIN vectors : r.id \notin op.old)'
    OBVIOUS
  <2>1. /\ "orphan" \notin harm[w]
        /\ \A r \in DOMAIN vectors : r.book = w /\ HasChunk(r, chunks) => HasChunk(r, chunks')
        /\ RowsOk(w) => RowsOk(w)'
    BY CutRows
  <2>2. \A r : NewRow(r)' <=> NewRow(r)
    BY <1>1 DEF NewRow
  <2>3. RowsAdded(w, chunks) => RowsAdded(w, chunks)'
    BY <1>1, <2>1, <2>2 DEF RowsAdded, RowsOnce
  <2>4. op.kind = "book" /\ op.at = "draft" => \A r \in DOMAIN vectors : r.book # w
    BY <2>1 DEF WriteOk
  <2>5. op.kind # "book" /\ op.at \in {"draft", "clear"} => RowsOk(w)
    BY <2>1 DEF WriteOk
  <2>6. op.at = "undo" => RowsAdded(w, chunks)
    BY <2>1 DEF WriteOk
  <2>7. op.at = "restore" => RowsOk(w) /\ \A r \in DOMAIN vectors : r.id \notin op.old
    BY <2>1 DEF WriteOk
  <2> QED
    BY <1>1, <2>1, <2>3, <2>4, <2>5, <2>6, <2>7
<1>10. (/\ op.text \in [op.scope -> Texts \cup {Ineligible}]
        /\ op.at \in {"wipe", "snapshot", "close", "draft"} => op.draft = {} /\ op.todo = {}
        /\ op.at = "clear" => op.draft = op.todo)'
  BY <1>1 DEF WriteOk
<1> QED
  BY <1>1, <1>3, <1>4, <1>5, <1>6, <1>7, <1>8, <1>9, <1>10 DEF WriteOk

\* A rebuild of one page survives a publication.
LEMMA CutPage ==
    ASSUME VectorInv, op # Idle, NEW w \in Books, w = op.book, PageOk(w), NEW b \in Books, Cuts(b)
    PROVE  PageOk(w)'
<1>1. /\ op'.kind = op.kind /\ op'.at = op.at /\ op'.book = w /\ op'.scope = op.scope /\ op'.text = op.text
      /\ op'.old = op.old /\ op'.saved = op.saved /\ op'.was = op.was
      /\ vectors' = vectors /\ chunks' \subseteq chunks
      /\ \A c \in Books : harm[c] \subseteq harm'[c]
      /\ w = b => op'.raced = TRUE
      /\ w # b => op'.raced = op.raced /\ harm'[w] = harm[w] /\ pages'[w] = pages[w] /\ indexed'[w] = indexed[w]
  BY DEF Cuts
<1>2. w # b => ChunksOf(w)' = ChunksOf(w)
  BY <1>1 DEF Cuts, ChunksOf
<1>3. \A d : HasRow(d)' <=> HasRow(d)
  BY <1>1 DEF HasRow
<1>4. (op.was /\ ~op.raced /\ "stale" \notin harm[w] => ChunksArePages(w) /\ \A p \in op.scope : op.text[p] = pages[w][p])'
  BY <1>1, <1>2 DEF PageOk, ChunksArePages, Eligible
<1>5. (op.was /\ ~op.raced /\ harm[w] \subseteq {"unembedded"} =>
        \A c \in ChunksOf(w) : c.page \notin op.scope => HasRow(c) \/ Excused(w, c))'
  BY <1>1, <1>2, <1>3 DEF PageOk, Excused
<1>6. (op.was /\ ~op.raced /\ op.at \in {"snapshot", "close"} => indexed[w])'
  BY <1>1 DEF PageOk
<1>7. ASSUME SavedOk(w) PROVE SavedOk(w)'
  <2>1. op.saved \subseteq Rows
    BY OpIs
  <2>2. (\A c \in chunks : c.id \in op.old <=> c.book = w /\ c.page \in op.scope)'
    BY <1>1, <1>7 DEF SavedOk
  <2>3. (\A r \in op.saved : r.id \in op.old /\ (r.book # w => "orphan" \in harm[r.book]))'
    <3>1. \A r \in op.saved : r.book \in Books
      BY <2>1 DEF Rows
    <3> QED
      BY <1>1, <1>7, <3>1 DEF SavedOk
  <2>4. ("orphan" \notin harm[w] => (\A r \in op.saved : r.book = w => HasChunk(r, chunks)) /\ RowsOnce(w, op.saved))'
    <3> SUFFICES ASSUME "orphan" \notin harm'[w]
                 PROVE  ((\A r \in op.saved : r.book = w => HasChunk(r, chunks)) /\ RowsOnce(w, op.saved))'
      OBVIOUS
    <3>1. "orphan" \notin harm[w]
      BY CutRows
    <3>2. ASSUME NEW r, r.book = w, HasChunk(r, chunks) PROVE HasChunk(r, chunks')
      <4>1. PICK d \in chunks : Fits(r, d)
        BY <3>2 DEF HasChunk
      <4>2. d \in chunks'
        BY <3>2, <4>1 DEF Cuts, Fits
      <4> QED
        BY <4>1, <4>2 DEF HasChunk
    <3> QED
      BY <1>1, <1>7, <3>1, <3>2 DEF SavedOk, RowsOnce
  <2>5. (op.was /\ ~op.raced /\ harm[w] = {} /\ (\A c \in Books : "orphan" \notin harm[c]) =>
            \A i \in op.old : \E r \in op.saved : r.id = i)'
    BY <1>1, <1>7 DEF SavedOk
  <2> QED
    BY <2>2, <2>3, <2>4, <2>5 DEF SavedOk
<1> QED
  BY <1>1, <1>4, <1>5, <1>6, <1>7 DEF PageOk

\* The contexts of a book survive a publication.
LEMMA CutContexts ==
    ASSUME VectorInv, op # Idle, NEW w \in Books, w = op.book, ContextsOk(w), NEW b \in Books, Cuts(b)
    PROVE  ContextsOk(w)'
<1>1. op'.at = op.at /\ op'.todo = op.todo /\ vectors' = vectors /\ chunks' \subseteq chunks
  BY DEF Cuts
<1>2. Current' = Current
  BY <1>1 DEF Current
<1>3. (/\ \A c \in op.todo : c.book = w /\ ~c.ctx
       /\ \A c \in op.todo, d \in chunks : d.id = c.id => d.book = w
       /\ op.at # "next" => op.todo # {})'
  BY <1>1 DEF ContextsOk
<1>4. (indexed[w] /\ harm[w] \subseteq {"unembedded"} =>
        \A c \in ChunksOf(w) : HasRow(c) \/ Excused(w, c) \/ (op.at = "embed" /\ c.id = Current.id))'
  <2> SUFFICES ASSUME indexed'[w], harm'[w] \subseteq {"unembedded"}
               PROVE  (\A c \in ChunksOf(w) : HasRow(c) \/ Excused(w, c) \/ (op.at = "embed" /\ c.id = Current.id))'
    OBVIOUS
  <2>1. /\ indexed[w] /\ harm'[w] = harm[w] /\ ChunksOf(w)' = ChunksOf(w) /\ \A d : HasRow(d)' <=> HasRow(d)
    BY CutHasRows
  <2>2. \A c \in ChunksOf(w) : HasRow(c) \/ Excused(w, c) \/ (op.at = "embed" /\ c.id = Current.id)
    BY <2>1 DEF ContextsOk
  <2> QED
    BY <1>1, <1>2, <2>1, <2>2 DEF Excused
<1>5. ("orphan" \notin harm[w] =>
        /\ op.todo \subseteq chunks
        /\ RowsOk(w)
        /\ op.at = "embed" => \A r \in DOMAIN vectors : r.id # Current.id
        /\ op.at = "record" => HasRow(Current) /\ \A r \in DOMAIN vectors : r.book = w /\ r.id = Current.id => r.ctx)'
  <2> SUFFICES ASSUME "orphan" \notin harm'[w]
      PROVE  (/\ op.todo \subseteq chunks
              /\ RowsOk(w)
              /\ op.at = "embed" => \A r \in DOMAIN vectors : r.id # Current.id
              /\ op.at = "record" => HasRow(Current) /\ \A r \in DOMAIN vectors : r.book = w /\ r.id = Current.id => r.ctx)'
    OBVIOUS
  <2>1. "orphan" \notin harm[w] /\ (RowsOk(w) => RowsOk(w)')
    BY CutRows
  <2>2. op.todo \subseteq chunks'
    BY <1>1, <2>1 DEF ContextsOk, Cuts
  <2>3. HasRow(Current) => HasRow(Current)'
    BY <1>1, <1>2 DEF HasRow
  <2> QED
    BY <1>1, <1>2, <2>1, <2>2, <2>3 DEF ContextsOk
<1> QED
  BY <1>3, <1>4, <1>5 DEF ContextsOk

\* Publishing a book keeps the invariant.
LEMMA VectorPublish == ASSUME VectorInv, NEW b \in Books, Publish(b) PROVE VectorInv'
<1>1. Cuts(b) /\ VectorTyped' /\ ChunksOk' /\ MarkOk'
  BY PublishCuts, CutMarks DEF VectorInv
<1>2. ASSUME NEW c \in Books, op' = Idle \/ op'.book # c PROVE AtRest(c)'
  <2>1. op = Idle \/ op.book # c
    BY <1>1, <1>2 DEF Cuts
  <2> QED
    BY <1>1, <2>1, CutRests DEF VectorInv
<1>3. ASSUME NEW c \in Books, op' # Idle, op'.book = c PROVE AtWork(c)'
  <2>1. op # Idle /\ op.book = c /\ op'.kind = op.kind
    BY <1>1, <1>3 DEF Cuts
  <2>2. AtWork(c)
    BY <2>1 DEF VectorInv
  <2>3. op.kind \in Rebuilds => WriteOk(c)'
    BY <1>1, <2>1, <2>2, CutWrites DEF AtWork
  <2>4. op.kind = "page" => PageOk(c)'
    BY <1>1, <2>1, <2>2, CutPage DEF AtWork
  <2>5. op.kind = "contexts" => ContextsOk(c)'
    BY <1>1, <2>1, <2>2, CutContexts DEF AtWork
  <2> QED
    BY <2>1, <2>3, <2>4, <2>5 DEF AtWork
<1> QED
  BY <1>1, <1>2, <1>3 DEF VectorInv

\* No operation is the idle one.
LEMMA NotIdle == ASSUME NEW x, x \in Operations PROVE x # Idle
<1>1. x.kind # Idle.kind
  BY DEF Operations, Idle
<1> QED
  BY <1>1

\* What lies under the steps of a rebuild.
LEMMA AtWorkIs ==
    ASSUME VectorInv, op # Idle, NEW b \in Books, b = op.book
    PROVE  /\ op \in Operations /\ op.kind \in Kinds /\ op.at \in PlacesOf(op.kind)
           /\ op.kind \in Rebuilds => WriteOk(b)
           /\ op.kind = "page" => PageOk(b)
           /\ op.kind = "contexts" => ContextsOk(b)
           /\ VectorTyped /\ ChunksOk /\ MarkOk
           /\ \A c \in Books : c # b => AtRest(c)
BY OpIs DEF VectorInv

\* An operation that goes on, the other books being at rest, keeps the invariant.
LEMMA WorkGoesOn ==
    ASSUME VectorTyped', ChunksOk', MarkOk', NEW b \in Books, op' # Idle, op'.book = b,
           \A c \in Books : c # b => AtRest(c)', AtWork(b)'
    PROVE  VectorInv'
BY DEF VectorInv

\* The rows a rebuild replaces are ids of its book.
LEMMA OldIs ==
    ASSUME ChunksOk, chunks \subseteq Rows, NEW b \in Books, NEW scope
    PROVE  /\ OldOf(b, scope) \in SUBSET (1 .. MaxId)
           /\ \A c \in chunks : c.id \in OldOf(b, scope) <=> c.book = b /\ c.page \in scope
<1>1. \A c \in chunks : c.id \in 1 .. MaxId
  BY DEF Rows
<1>2. OldOf(b, scope) \in SUBSET (1 .. MaxId)
  BY <1>1 DEF OldOf, IdsOf, ChunksOf
<1>3. ASSUME NEW c \in chunks, c.id \in OldOf(b, scope) PROVE c.book = b /\ c.page \in scope
  <2>1. PICK d \in chunks : d.id = c.id /\ d.book = b /\ d.page \in scope
    BY <1>3 DEF OldOf, IdsOf, ChunksOf
  <2>2. c = d
    BY <2>1 DEF ChunksOk
  <2> QED
    BY <2>1, <2>2
<1>4. \A c \in chunks : c.book = b /\ c.page \in scope => c.id \in OldOf(b, scope)
  BY DEF OldOf, IdsOf, ChunksOf
<1> QED
  BY <1>2, <1>3, <1>4

\* As many rows as ids, one for an id: each id has its row.
LEMMA EveryIdIsSaved ==
    ASSUME NEW ids \in SUBSET (1 .. MaxId), NEW rows, \A r \in rows : r.id \in ids,
           \A r, s \in rows : r.id = s.id => r = s, Cardinality(rows) = Cardinality(ids)
    PROVE  \A i \in ids : \E r \in rows : r.id = i
<1> DEFINE f == [r \in rows |-> r.id]
<1>1. f \in [rows -> ids] /\ \A r \in rows : f[r] = r.id
  OBVIOUS
<1> HIDE DEF f
<1>2. f \in Injection(rows, ids)
  BY <1>1 DEF Injection, IsInjective
<1>3. IsFiniteSet(ids)
  <2>1. 1 \in Int /\ MaxId \in Int
    BY ChunkIndexAssumption
  <2>2. IsFiniteSet(1 .. MaxId)
    BY <2>1, FS_Interval
  <2> QED
    BY <2>2, FS_Subset
<1>4. f \in Surjection(rows, ids)
  BY <1>2, <1>3, FS_Injection
<1>5. \A i \in ids : \E r \in rows : f[r] = i
  BY <1>4 DEF Surjection
<1> QED
  BY <1>1, <1>5

\* Saving the vectors of a page before its rebuild keeps the invariant.
LEMMA VectorSnapshot == ASSUME VectorInv, Snapshot PROVE VectorInv'
<1>1. op # Idle /\ op.at = "snapshot" /\ UNCHANGED <<pages, indexed, sealed, chunks, vectors, harm>>
  BY DEF Snapshot, Idle, stores
<1>2. PICK b \in Books : b = op.book
  BY <1>1, OpIs
<1>3. /\ op \in Operations /\ op.kind \in Kinds /\ op.at \in PlacesOf(op.kind)
      /\ VectorTyped /\ ChunksOk /\ MarkOk /\ \A c \in Books : c # b => AtRest(c)
      /\ op.kind \in Rebuilds => WriteOk(b)
      /\ op.kind = "page" => PageOk(b)
  BY <1>1, <1>2, AtWorkIs
<1>4. op.kind = "page" /\ WriteOk(b) /\ PageOk(b)
  BY <1>1, <1>3, PlacesAre DEF Kinds, Rebuilds
<1> DEFINE ids == OldOf(b, op.scope)
<1>5. PICK s \in Snapshots(ids) : op' = [op EXCEPT !.at = "close", !.old = ids, !.saved = s]
  BY <1>2 DEF Snapshot
<1>6. /\ ids \in SUBSET (1 .. MaxId)
      /\ \A c \in chunks : c.id \in ids <=> c.book = b /\ c.page \in op.scope
  BY <1>3, OldIs DEF VectorTyped
<1>7. s \in SUBSET Rows /\ s \subseteq DOMAIN vectors /\ (\A r \in s : r.id \in ids) /\ Cardinality(s) = Cardinality(ids)
  BY <1>3 DEF Snapshots, VectorTyped
<1> HIDE DEF ids
<1>8. /\ op' \in Operations /\ op'.kind = "page" /\ op'.at = "close" /\ op'.book = b
      /\ op'.scope = op.scope /\ op'.text = op.text /\ op'.draft = op.draft /\ op'.todo = op.todo
      /\ op'.was = op.was /\ op'.raced = op.raced /\ op'.old = ids /\ op'.saved = s
  BY <1>2, <1>3, <1>4, <1>5, <1>6, <1>7 DEF Operations
<1>9. op' # Idle /\ op'.at \in PlacesOf(op'.kind)
  BY <1>8, NotIdle DEF PlacesOf
<1>10. VectorTyped' /\ ChunksOk' /\ MarkOk'
  BY <1>1, <1>3, <1>8, <1>9, MarksStay, ChunksStay DEF VectorTyped
<1>11. AtRest(b)
  BY <1>1, <1>4 DEF WriteOk
<1>12. \A c \in Books : AtRest(c)'
  BY <1>1, <1>3, <1>11, RestOfSame
<1>13. FitsIds(b, op.scope)'
  BY <1>1, <1>4, <1>8 DEF WriteOk, FitsIds, Kept
<1>14. WriteOk(b)'
  BY <1>1, <1>4, <1>8, <1>12, <1>13 DEF WriteOk, ChunksOf
<1>15. \A c \in Books : "orphan" \notin harm[c] => \A r \in DOMAIN vectors : r.book = c => HasChunk(r, chunks)
  BY <1>3, <1>11 DEF AtRest, RowsOk
<1>16. ASSUME NEW r \in s, r.book # b PROVE "orphan" \in harm[r.book]
  <2>1. r \in DOMAIN vectors /\ r.book \in Books
    BY <1>7 DEF Rows
  <2>2. SUFFICES ASSUME "orphan" \notin harm[r.book] PROVE FALSE
    OBVIOUS
  <2>3. PICK c \in chunks : c.id = r.id /\ c.book = r.book
    BY <1>15, <2>1, <2>2 DEF HasChunk, Fits
  <2> QED
    BY <1>6, <1>7, <1>16, <2>3
<1>17. "orphan" \notin harm[b] => (\A r \in s : r.book = b => HasChunk(r, chunks)) /\ RowsOnce(b, s)
  BY <1>7, <1>11 DEF AtRest, RowsOk, RowsOnce
<1>18. ASSUME op.was, ~op.raced, harm[b] = {}, \A c \in Books : "orphan" \notin harm[c]
       PROVE  \A i \in ids : \E r \in s : r.id = i
  <2>1. \A r \in s : r.book = b
    <3>1. \A r \in s : r.book \in Books
      BY <1>7 DEF Rows
    <3> QED
      BY <1>16, <1>18, <3>1
  <2>2. \A r, q \in s : r.id = q.id => r = q
    BY <1>17, <1>18, <2>1 DEF RowsOnce
  <2> QED
    BY <1>6, <1>7, <2>2, EveryIdIsSaved
<1>19. SavedOk(b)'
  <2>1. (\A c \in chunks : c.id \in op.old <=> c.book = b /\ c.page \in op.scope)'
    BY <1>1, <1>6, <1>8
  <2>2. (\A r \in op.saved : r.id \in op.old /\ (r.book # b => "orphan" \in harm[r.book]))'
    BY <1>1, <1>7, <1>8, <1>16
  <2>3. ("orphan" \notin harm[b] => (\A r \in op.saved : r.book = b => HasChunk(r, chunks)) /\ RowsOnce(b, op.saved))'
    BY <1>1, <1>8, <1>17 DEF RowsOnce
  <2>4. (op.was /\ ~op.raced /\ harm[b] = {} /\ (\A c \in Books : "orphan" \notin harm[c]) =>
          \A i \in op.old : \E r \in op.saved : r.id = i)'
    BY <1>1, <1>8, <1>18
  <2> QED
    BY <2>1, <2>2, <2>3, <2>4 DEF SavedOk
<1>20. PageOk(b)'
  BY <1>1, <1>4, <1>8, <1>19 DEF PageOk, ChunksArePages, ChunksOf, Eligible, HasRow, Excused
<1>21. AtWork(b)'
  BY <1>8, <1>14, <1>20 DEF AtWork
<1> QED
  BY <1>8, <1>9, <1>10, <1>12, <1>21, WorkGoesOn

\* The rows that a page rebuild has saved, while only the rest goes on.
LEMMA SavedStays ==
    ASSUME NEW b \in Books, SavedOk(b), UNCHANGED <<chunks, harm>>, op'.old = op.old, op'.saved = op.saved,
           op'.scope = op.scope, op'.was = op.was, op'.raced = op.raced
    PROVE  SavedOk(b)'
<1>1. (\A c \in chunks : c.id \in op.old <=> c.book = b /\ c.page \in op.scope)'
  BY DEF SavedOk
<1>2. (\A r \in op.saved : r.id \in op.old /\ (r.book # b => "orphan" \in harm[r.book]))'
  BY DEF SavedOk
<1>3. ("orphan" \notin harm[b] => (\A r \in op.saved : r.book = b => HasChunk(r, chunks)) /\ RowsOnce(b, op.saved))'
  BY DEF SavedOk, RowsOnce
<1>4. (op.was /\ ~op.raced /\ harm[b] = {} /\ (\A c \in Books : "orphan" \notin harm[c]) =>
        \A i \in op.old : \E r \in op.saved : r.id = i)'
  BY DEF SavedOk
<1> QED
  BY <1>1, <1>2, <1>3, <1>4 DEF SavedOk

\* A rebuild of a page that only moves on keeps what it saved.
LEMMA PageStays ==
    ASSUME NEW b \in Books, PageOk(b), SavedOk(b), UNCHANGED <<pages, chunks, harm>>, op'.old = op.old, op'.saved = op.saved,
           op'.scope = op.scope, op'.text = op.text, op'.was = op.was, op'.raced = op.raced,
           op'.at \notin {"snapshot", "close"},
           \A c \in ChunksOf(b) : c.page \notin op.scope /\ HasRow(c) => HasRow(c)'
    PROVE  PageOk(b)'
<1>1. SavedOk(b)'
  BY SavedStays
<1>2. (op.was /\ ~op.raced /\ "stale" \notin harm[b] => ChunksArePages(b) /\ \A p \in op.scope : op.text[p] = pages[b][p])'
  BY DEF PageOk, ChunksArePages, ChunksOf, Eligible
<1>3. (op.was /\ ~op.raced /\ harm[b] \subseteq {"unembedded"} =>
        \A c \in ChunksOf(b) : c.page \notin op.scope => HasRow(c) \/ Excused(b, c))'
  BY DEF PageOk, ChunksOf, Excused
<1> QED
  BY <1>1, <1>2, <1>3 DEF PageOk

\* Taking the mark off a book keeps the invariant.
LEMMA VectorClose == ASSUME VectorInv, Close PROVE VectorInv'
<1>1. op # Idle /\ op.at = "close" /\ UNCHANGED <<pages, chunks, vectors, harm>>
  BY DEF Close, Idle
<1>2. PICK b \in Books : b = op.book
  BY <1>1, OpIs
<1>3. /\ op \in Operations /\ op.kind \in Kinds /\ op.at \in PlacesOf(op.kind)
      /\ VectorTyped /\ ChunksOk /\ MarkOk /\ \A c \in Books : c # b => AtRest(c)
      /\ op.kind \in Rebuilds => WriteOk(b)
      /\ op.kind = "page" => PageOk(b)
  BY <1>1, <1>2, AtWorkIs
<1>4. op.kind \in {"page", "sealed"} /\ WriteOk(b)
  BY <1>1, <1>3, PlacesAre DEF Kinds, Rebuilds
<1>5. /\ op' \in Operations /\ op'.kind = op.kind /\ op'.at = "draft" /\ op'.book = b
      /\ op'.scope = op.scope /\ op'.text = op.text /\ op'.draft = op.draft /\ op'.todo = op.todo
      /\ op'.was = op.was /\ op'.raced = op.raced /\ op'.old = op.old /\ op'.saved = op.saved
  BY <1>2, <1>3 DEF Close, Operations
<1>6. op' # Idle /\ op'.at \in PlacesOf(op'.kind)
  BY <1>4, <1>5, NotIdle DEF PlacesOf
<1>7. /\ indexed' = [indexed EXCEPT ![b] = FALSE]
      /\ sealed' = [sealed EXCEPT ![b] = @ /\ op.kind # "sealed"]
  BY <1>2 DEF Close
<1>8. /\ indexed' \in [Books -> BOOLEAN] /\ sealed' \in [Books -> BOOLEAN] /\ ~indexed'[b]
      /\ \A c \in Books : indexed'[c] => indexed[c]
  BY <1>3, <1>7 DEF VectorTyped
<1>9. VectorTyped' /\ ChunksOk' /\ MarkOk'
  <2>1. VectorTyped'
    BY <1>1, <1>3, <1>5, <1>6, <1>8 DEF VectorTyped
  <2> QED
    BY <1>1, <1>3, <1>8, <2>1, MarksStay, ChunksStay
<1>10. AtRest(b)
  BY <1>1, <1>4 DEF WriteOk
<1>11. \A c \in Books : AtRest(c)'
  BY <1>1, <1>3, <1>8, <1>10, RestOfSame
<1>12. FitsIds(b, op.scope)'
  BY <1>1, <1>4, <1>5 DEF WriteOk, FitsIds, Kept
<1>13. ("orphan" \notin harm[b] => RowsOk(b))'
  BY <1>11 DEF AtRest
<1>14. WriteOk(b)'
  BY <1>1, <1>4, <1>5, <1>8, <1>12, <1>13 DEF WriteOk, ChunksOf
<1>15. op.kind = "page" => PageOk(b)'
  <2>1. \A c : HasRow(c) => HasRow(c)'
    BY <1>1 DEF HasRow
  <2> SUFFICES ASSUME op.kind = "page" PROVE PageOk(b)'
    OBVIOUS
  <2>2. PageOk(b) /\ SavedOk(b)
    BY <1>1, <1>3 DEF PageOk
  <2> QED
    BY <1>1, <1>5, <2>1, <2>2, PageStays
<1>16. AtWork(b)'
  BY <1>4, <1>5, <1>14, <1>15 DEF AtWork
<1> QED
  BY <1>5, <1>6, <1>9, <1>11, <1>16, WorkGoesOn

\* Drafting the chunks of a book keeps the invariant.
LEMMA VectorDraft == ASSUME VectorInv, Draft PROVE VectorInv'
<1>1. op # Idle /\ op.at = "draft" /\ CanDraft /\ UNCHANGED <<pages, indexed, sealed, chunks, vectors, harm>>
  BY DEF Draft, Idle, stores
<1>2. PICK b \in Books : b = op.book
  BY <1>1, OpIs
<1>3. /\ op \in Operations /\ op.kind \in Kinds /\ op.at \in PlacesOf(op.kind)
      /\ VectorTyped /\ ChunksOk /\ MarkOk /\ \A c \in Books : c # b => AtRest(c)
      /\ op.kind \in Rebuilds => WriteOk(b)
      /\ op.kind = "page" => PageOk(b)
  BY <1>1, <1>2, AtWorkIs
<1>4. op.kind \in Rebuilds /\ WriteOk(b)
  BY <1>1, <1>3, PlacesAre DEF Kinds, Rebuilds
<1> DEFINE rows == Drafted(b, op.scope, op.text)
           at == IF op.kind = "book" THEN "add" ELSE "clear"
<1>5. /\ op.scope \in SUBSET PageNos /\ op.text \in [op.scope -> Texts \cup {Ineligible}]
      /\ FitsIds(b, op.scope) /\ chunks \subseteq Rows
  BY <1>1, <1>3, <1>4 DEF WriteOk, Operations, VectorTyped
<1>6. /\ rows \subseteq Rows
      /\ \A d \in rows :
           d.book = b /\ d.page \in op.scope /\ d.text = op.text[d.page] /\ d.text # Ineligible /\ ~d.ctx
      /\ \A c, d \in rows : c.id = d.id \/ c.page = d.page => c = d
      /\ \A p \in op.scope : op.text[p] # Ineligible => \E d \in rows : d.page = p
      /\ \A c \in Kept(b, op.scope), d \in rows : c.id # d.id
  BY <1>5, DraftedIs
<1>7. op' = [op EXCEPT !.at = at, !.draft = rows, !.todo = rows]
  BY <1>2 DEF Draft
<1> HIDE DEF rows
<1>8. /\ op' \in Operations /\ op'.kind = op.kind /\ op'.at = at /\ op'.book = b
      /\ op'.scope = op.scope /\ op'.text = op.text /\ op'.draft = rows /\ op'.todo = rows
      /\ op'.was = op.was /\ op'.raced = op.raced /\ op'.old = op.old /\ op'.saved = op.saved
  BY <1>2, <1>3, <1>6, <1>7 DEF Operations
<1>9. op' # Idle /\ op'.at \in PlacesOf(op'.kind)
  BY <1>4, <1>8, NotIdle DEF PlacesOf, Rebuilds
<1>10. VectorTyped' /\ ChunksOk' /\ MarkOk'
  <2>1. VectorTyped'
    BY <1>1, <1>3, <1>8, <1>9 DEF VectorTyped
  <2> QED
    BY <1>1, <1>3, <2>1, MarksStay, ChunksStay
<1>11. \A c \in Books : c # b => AtRest(c)'
  BY <1>1, <1>3, RestOfSame
<1>12. DraftOk'
  <2>1. \A d \in rows : d.page \in DOMAIN pages[b]
    BY <1>1, <1>2, <1>6 DEF CanDraft
  <2> QED
    BY <1>1, <1>6, <1>8, <2>1 DEF DraftOk
<1>13. DraftApart'
  <2>1. Kept(op.book, op.scope)' = Kept(b, op.scope)
    BY <1>1, <1>8 DEF Kept
  <2>2. DraftIds' = {r.id : r \in rows}
    BY <1>8 DEF DraftIds, IdsOf
  <2> QED
    BY <1>6, <2>1, <2>2 DEF DraftApart
<1>14. op.kind = "sealed" => op.text = pages[b]
  BY <1>1, <1>2 DEF CanDraft, SamePages
<1>15. ("orphan" \notin harm[b] =>
         /\ op.kind # "book" /\ op.at \in {"draft", "clear"} => RowsOk(b)
         /\ op.at = "add" => RowsAdded(b, Kept(b, op.scope)))'
  <2> SUFFICES ASSUME "orphan" \notin harm'[b]
               PROVE  (/\ op.kind # "book" /\ op.at \in {"draft", "clear"} => RowsOk(b)
                       /\ op.at = "add" => RowsAdded(b, Kept(b, op.scope)))'
    OBVIOUS
  <2>1. CASE op.kind = "book"
    <3>1. \A r \in DOMAIN vectors : r.book # b
      BY <1>1, <1>4, <2>1 DEF WriteOk
    <3>2. RowsAdded(b, Kept(b, op.scope))'
      BY <1>1, <3>1 DEF RowsAdded, RowsOnce
    <3> QED
      BY <1>8, <2>1, <3>2
  <2>2. CASE op.kind # "book"
    <3>1. RowsOk(b)
      BY <1>1, <1>4, <2>2 DEF WriteOk
    <3>2. RowsOk(b)'
      BY <1>1, <3>1 DEF RowsOk, RowsOnce, HasChunk, Fits
    <3> QED
      BY <1>8, <2>2, <3>2
  <2> QED
    BY <2>1, <2>2
<1>16. WriteOk(b)'
  BY <1>1, <1>4, <1>8, <1>12, <1>13, <1>14, <1>15 DEF WriteOk, ChunksOf
<1>17. op.kind = "page" => PageOk(b)'
  <2>1. \A c : HasRow(c) => HasRow(c)'
    BY <1>1 DEF HasRow
  <2> SUFFICES ASSUME op.kind = "page" PROVE PageOk(b)'
    OBVIOUS
  <2>2. PageOk(b) /\ SavedOk(b)
    BY <1>1, <1>3 DEF PageOk
  <2> QED
    BY <1>1, <1>8, <2>1, <2>2, PageStays
<1>18. AtWork(b)'
  BY <1>4, <1>8, <1>16, <1>17 DEF AtWork, Rebuilds
<1> QED
  BY <1>8, <1>9, <1>10, <1>11, <1>18, WorkGoesOn

\* The rollback of a page's chunks keeps the invariant.
LEMMA VectorRollBack == ASSUME VectorInv, RollBack PROVE VectorInv'
<1>1. /\ op # Idle /\ op.kind = "page" /\ op.at \in {"draft", "clear", "add"}
      /\ UNCHANGED <<pages, indexed, sealed, chunks, vectors, harm>>
  BY DEF RollBack, Compensates, Idle, stores
<1>2. PICK b \in Books : b = op.book
  BY <1>1, OpIs
<1>3. /\ op \in Operations /\ VectorTyped /\ ChunksOk /\ MarkOk /\ \A c \in Books : c # b => AtRest(c)
      /\ WriteOk(b) /\ PageOk(b)
  BY <1>1, <1>2, AtWorkIs DEF Rebuilds
<1>4. /\ op' \in Operations /\ op'.kind = "page" /\ op'.at = "undo" /\ op'.book = b
      /\ op'.scope = op.scope /\ op'.text = op.text /\ op'.draft = op.draft /\ op'.todo = op.todo
      /\ op'.was = op.was /\ op'.raced = op.raced /\ op'.old = op.old /\ op'.saved = op.saved
  BY <1>1, <1>2, <1>3 DEF RollBack, Operations
<1>5. op' # Idle /\ op'.at \in PlacesOf(op'.kind)
  BY <1>4, NotIdle DEF PlacesOf
<1>6. VectorTyped' /\ ChunksOk' /\ MarkOk'
  <2>1. VectorTyped'
    BY <1>1, <1>3, <1>4, <1>5 DEF VectorTyped
  <2> QED
    BY <1>1, <1>3, <2>1, MarksStay, ChunksStay
<1>7. \A c \in Books : c # b => AtRest(c)'
  BY <1>1, <1>3, RestOfSame
<1>8. DraftApart'
  <2>1. DraftApart
    <3>1. CASE op.at = "draft"
      BY <1>3, <3>1 DEF WriteOk, DraftApart, DraftIds, IdsOf
    <3>2. CASE op.at \in {"clear", "add"}
      BY <1>3, <3>2 DEF WriteOk
    <3> QED
      BY <1>1, <3>1, <3>2
  <2> QED
    BY <1>1, <1>2, <1>4, <2>1 DEF DraftApart, DraftIds, Kept
<1>9. ("orphan" \notin harm[b] => RowsAdded(b, chunks))'
  <2> SUFFICES ASSUME "orphan" \notin harm[b] PROVE RowsAdded(b, chunks)'
    BY <1>1
  <2>1. RowsAdded(b, chunks)
    <3>1. CASE op.at \in {"draft", "clear"}
      BY <1>1, <1>3, <3>1 DEF WriteOk, RowsAdded, RowsOk
    <3>2. CASE op.at = "add"
      <4>1. RowsAdded(b, Kept(b, op.scope))
        BY <1>3, <3>2 DEF WriteOk
      <4> QED
        BY <4>1, KeptAreChunks DEF RowsAdded, HasChunk
    <3> QED
      BY <1>1, <3>1, <3>2
  <2>2. \A r : NewRow(r)' <=> NewRow(r)
    BY <1>4 DEF NewRow
  <2> QED
    BY <1>1, <2>1, <2>2 DEF RowsAdded, RowsOnce, HasChunk
<1>10. WriteOk(b)'
  BY <1>1, <1>3, <1>4, <1>8, <1>9 DEF WriteOk
<1>11. PageOk(b)'
  <2>1. \A c : HasRow(c) => HasRow(c)'
    BY <1>1 DEF HasRow
  <2>2. SavedOk(b)
    BY <1>1, <1>3 DEF PageOk
  <2> QED
    BY <1>1, <1>3, <1>4, <2>1, <2>2, PageStays
<1>12. AtWork(b)'
  BY <1>4, <1>10, <1>11 DEF AtWork
<1> QED
  BY <1>4, <1>5, <1>6, <1>7, <1>12, WorkGoesOn

\* Rows go that no chunk of the book has.
LEMMA RestLess ==
    ASSUME NEW b \in Books, AtRest(b), DOMAIN vectors' \subseteq DOMAIN vectors,
           \A r \in DOMAIN vectors' : vectors'[r] = vectors[r],
           \A c \in ChunksOf(b), r \in DOMAIN vectors : r.book = b /\ r.id = c.id => r \in DOMAIN vectors',
           UNCHANGED <<chunks, harm>>, indexed'[b] => indexed[b]
    PROVE  AtRest(b)'
<1>1. RowsOk(b) => RowsOk(b)'
  BY DEF RowsOk, RowsOnce, HasChunk, Fits
<1>2. ASSUME NEW c \in ChunksOf(b), HasRow(c) PROVE HasRow(c)'
  BY <1>2 DEF HasRow, ChunksOf
<1>3. HasRows(b) => HasRows(b)'
  BY <1>2 DEF HasRows, Excused, ChunksOf
<1> QED
  BY <1>1, <1>3 DEF AtRest, EmbeddedOk

\* Deleting the vectors of a book keeps the invariant.
LEMMA VectorWipe == ASSUME VectorInv, Wipe PROVE VectorInv'
<1>1. op # Idle /\ op.at = "wipe" /\ UNCHANGED <<pages, indexed, sealed, chunks, harm>>
  BY DEF Wipe, Idle
<1>2. PICK b \in Books : b = op.book
  BY <1>1, OpIs
<1>3. /\ op \in Operations /\ op.kind \in Kinds /\ op.at \in PlacesOf(op.kind)
      /\ VectorTyped /\ ChunksOk /\ MarkOk /\ \A c \in Books : c # b => AtRest(c)
      /\ op.kind \in Rebuilds => WriteOk(b)
  BY <1>1, <1>2, AtWorkIs
<1>4. op.kind = "book" /\ WriteOk(b)
  BY <1>1, <1>3, PlacesAre DEF Kinds, Rebuilds
<1> DEFINE ids == IdsOf(ChunksOf(b))
<1>5. vectors' = WithoutIds(vectors, ids) /\ op' = [op EXCEPT !.at = "draft", !.old = ids]
  BY <1>2 DEF Wipe
<1>6. /\ ids \in SUBSET (1 .. MaxId) /\ \A c \in ChunksOf(b) : c.id \in ids
      /\ \A c \in chunks : c.id \in ids => c.book = b
  <2>1. ids \in SUBSET (1 .. MaxId) /\ \A c \in ChunksOf(b) : c.id \in ids
    BY <1>3 DEF IdsOf, ChunksOf, VectorTyped, Rows
  <2>2. ASSUME NEW c \in chunks, c.id \in ids PROVE c.book = b
    <3>1. PICK d \in chunks : d.id = c.id /\ d.book = b
      BY <2>2 DEF IdsOf, ChunksOf
    <3> QED
      BY <1>3, <3>1 DEF ChunksOk
  <2> QED
    BY <2>1, <2>2
<1> HIDE DEF ids
<1>7. /\ op' \in Operations /\ op'.kind = "book" /\ op'.at = "draft" /\ op'.book = b
      /\ op'.scope = op.scope /\ op'.text = op.text /\ op'.draft = op.draft /\ op'.todo = op.todo
      /\ op'.raced = op.raced
  BY <1>2, <1>3, <1>4, <1>5, <1>6 DEF Operations
<1>8. op' # Idle /\ op'.at \in PlacesOf(op'.kind)
  BY <1>7, NotIdle DEF PlacesOf
<1>9. /\ DOMAIN vectors' = {r \in DOMAIN vectors : r.id \notin ids}
      /\ \A r \in DOMAIN vectors' : vectors'[r] = vectors[r]
  BY <1>5, RowsLeft
<1>10. VectorTyped' /\ ChunksOk' /\ MarkOk'
  <2>1. VectorTyped'
    BY <1>1, <1>3, <1>7, <1>8, <1>9 DEF VectorTyped
  <2> QED
    BY <1>1, <1>3, <2>1, MarksStay, ChunksStay
<1>11. ASSUME NEW c \in Books, c # b PROVE AtRest(c)'
  <2>1. \A d \in ChunksOf(c) : d.id \notin ids
    BY <1>6, <1>11 DEF ChunksOf
  <2> QED
    BY <1>1, <1>3, <1>5, <1>11, <2>1, RestWithout
<1>12. "orphan" \notin harm[b] => \A r \in DOMAIN vectors' : r.book # b
  <2> SUFFICES ASSUME "orphan" \notin harm[b], NEW r \in DOMAIN vectors', r.book = b PROVE FALSE
    OBVIOUS
  <2>1. RowsOk(b) /\ r \in DOMAIN vectors /\ r.id \notin ids
    BY <1>1, <1>4, <1>9 DEF WriteOk, AtRest
  <2>2. PICK c \in chunks : c.id = r.id /\ c.book = b
    BY <2>1 DEF RowsOk, HasChunk, Fits
  <2> QED
    BY <1>6, <2>1, <2>2 DEF ChunksOf
<1>13. FitsIds(b, op.scope)'
  BY <1>1, <1>4, <1>7 DEF WriteOk, FitsIds, Kept
<1>14. WriteOk(b)'
  BY <1>1, <1>4, <1>7, <1>12, <1>13 DEF WriteOk, ChunksOf
<1>15. AtWork(b)'
  BY <1>7, <1>14 DEF AtWork
<1> QED
  BY <1>7, <1>8, <1>10, <1>11, <1>15, WorkGoesOn

\* Deleting the vectors of the replaced chunks keeps the invariant.
LEMMA VectorClear == ASSUME VectorInv, Clear PROVE VectorInv'
<1>1. op # Idle /\ op.at = "clear" /\ vectors' = Cleared /\ UNCHANGED <<pages, indexed, sealed, chunks, harm>>
  BY DEF Clear, Idle
<1>2. PICK b \in Books : b = op.book
  BY <1>1, OpIs
<1>3. /\ op \in Operations /\ op.kind \in Kinds /\ op.at \in PlacesOf(op.kind)
      /\ VectorTyped /\ ChunksOk /\ MarkOk /\ \A c \in Books : c # b => AtRest(c)
      /\ op.kind \in Rebuilds => WriteOk(b)
      /\ op.kind = "page" => PageOk(b)
  BY <1>1, <1>2, AtWorkIs
<1>4. op.kind \in {"page", "sealed"} /\ WriteOk(b) /\ DraftOk /\ DraftApart
  <2>1. op.kind \in {"page", "sealed"} /\ WriteOk(b)
    BY <1>1, <1>3, PlacesAre DEF Kinds, Rebuilds
  <2> QED
    BY <1>1, <2>1 DEF WriteOk
<1> DEFINE ids == IF op.kind = "sealed" THEN OldOf(b, op.scope) ELSE op.old
<1>5. \A c \in chunks : c.id \in ids <=> c.book = b /\ c.page \in op.scope
  <2>1. CASE op.kind = "sealed"
    BY <1>3, <2>1, OldIs DEF VectorTyped
  <2>2. CASE op.kind = "page"
    BY <1>1, <1>3, <2>2 DEF PageOk, SavedOk
  <2> QED
    BY <1>4, <2>1, <2>2
<1>6. /\ DOMAIN vectors' \subseteq {r \in DOMAIN vectors : r.id \notin ids}
      /\ \A r \in DOMAIN vectors' : vectors'[r] = vectors[r]
      /\ \A r \in DOMAIN vectors : r.book # b /\ r.id \notin ids => r \in DOMAIN vectors'
      /\ op.kind = "page" => DOMAIN vectors' = {r \in DOMAIN vectors : r.id \notin ids}
      /\ op.kind = "sealed" => \A r \in DOMAIN vectors' : r.book # b
  <2>1. CASE op.kind = "sealed"
    BY <1>1, <1>2, <2>1 DEF Cleared, Filter
  <2>2. CASE op.kind = "page"
    BY <1>1, <2>2 DEF Cleared, WithoutIds, Filter
  <2> QED
    BY <1>4, <2>1, <2>2
<1>7. op' = [op EXCEPT !.at = "add"]
  BY DEF Clear
<1> HIDE DEF ids
<1>8. /\ op' \in Operations /\ op'.kind = op.kind /\ op'.at = "add" /\ op'.book = b
      /\ op'.scope = op.scope /\ op'.text = op.text /\ op'.draft = op.draft /\ op'.todo = op.todo
      /\ op'.was = op.was /\ op'.raced = op.raced /\ op'.old = op.old /\ op'.saved = op.saved
  BY <1>2, <1>3, <1>7 DEF Operations
<1>9. op' # Idle /\ op'.at \in PlacesOf(op'.kind)
  BY <1>4, <1>8, NotIdle DEF PlacesOf
<1>10. VectorTyped' /\ ChunksOk' /\ MarkOk'
  <2>1. VectorTyped'
    BY <1>1, <1>3, <1>6, <1>8, <1>9 DEF VectorTyped
  <2> QED
    BY <1>1, <1>3, <2>1, MarksStay, ChunksStay
<1>11. ASSUME NEW c \in Books, c # b PROVE AtRest(c)'
  <2>1. \A d \in ChunksOf(c), r \in DOMAIN vectors : r.book = c /\ r.id = d.id => r \in DOMAIN vectors'
    BY <1>5, <1>6, <1>11 DEF ChunksOf
  <2>2. DOMAIN vectors' \subseteq DOMAIN vectors
    BY <1>6
  <2> QED
    BY <1>1, <1>3, <1>6, <1>11, <2>1, <2>2, RestLess
<1>12. DraftOk'
  <2>1. op.draft = op.todo
    BY <1>1, <1>4 DEF WriteOk
  <2> QED
    BY <1>1, <1>2, <1>4, <1>8, <2>1 DEF DraftOk
<1>13. DraftApart'
  BY <1>1, <1>2, <1>4, <1>8 DEF DraftApart, DraftIds, Kept
<1>14. ("orphan" \notin harm[b] => RowsAdded(b, Kept(b, op.scope)))'
  <2> SUFFICES ASSUME "orphan" \notin harm[b] PROVE RowsAdded(b, Kept(b, op.scope))'
    BY <1>1
  <2>1. RowsOk(b)
    BY <1>1, <1>4 DEF WriteOk
  <2>2. ASSUME NEW r \in DOMAIN vectors', r.book = b PROVE vectors'[r] = 1 /\ HasChunk(r, Kept(b, op.scope))
    <3>1. r \in DOMAIN vectors /\ r.id \notin ids
      BY <1>6
    <3>2. vectors[r] = 1 /\ \E c \in chunks : Fits(r, c)
      BY <2>1, <2>2, <3>1 DEF RowsOk, HasChunk
    <3>3. PICK c \in chunks : Fits(r, c)
      BY <3>2
    <3>4. c.page \notin op.scope
      BY <1>5, <2>2, <3>1, <3>3 DEF Fits
    <3>5. c \in Kept(b, op.scope)
      BY <3>4 DEF Kept
    <3> QED
      BY <1>6, <3>2, <3>3, <3>5 DEF HasChunk
  <2>3. Kept(b, op.scope)' = Kept(b, op.scope)
    BY <1>1, <1>8 DEF Kept
  <2>4. RowsOnce(b, DOMAIN vectors')
    BY <1>6, <2>1 DEF RowsOk, RowsOnce
  <2> QED
    BY <2>2, <2>3, <2>4 DEF RowsAdded
<1>15. WriteOk(b)'
  BY <1>1, <1>4, <1>8, <1>12, <1>13, <1>14 DEF WriteOk, ChunksOf
<1>16. op.kind = "page" => PageOk(b)'
  <2> SUFFICES ASSUME op.kind = "page" PROVE PageOk(b)'
    OBVIOUS
  <2>1. \A c \in ChunksOf(b) : c.page \notin op.scope /\ HasRow(c) => HasRow(c)'
    BY <1>5, <1>6 DEF HasRow, ChunksOf
  <2>2. PageOk(b) /\ SavedOk(b)
    BY <1>1, <1>3 DEF PageOk
  <2> QED
    BY <1>1, <1>8, <2>1, <2>2, PageStays
<1>17. AtWork(b)'
  BY <1>4, <1>8, <1>15, <1>16 DEF AtWork
<1> QED
  BY <1>8, <1>9, <1>10, <1>11, <1>17, WorkGoesOn

\* Adding the vectors of the new chunks keeps the invariant.
LEMMA VectorAdd == ASSUME VectorInv, Add PROVE VectorInv'
<1>1. op # Idle /\ op.at = "add" /\ UNCHANGED <<pages, indexed, sealed, chunks, harm>>
  BY DEF Add, Idle
<1>2. PICK b \in Books : b = op.book
  BY <1>1, OpIs
<1>3. /\ op \in Operations /\ op.kind \in Kinds /\ op.at \in PlacesOf(op.kind)
      /\ VectorTyped /\ ChunksOk /\ MarkOk /\ \A c \in Books : c # b => AtRest(c)
      /\ op.kind \in Rebuilds => WriteOk(b)
      /\ op.kind = "page" => PageOk(b)
  BY <1>1, <1>2, AtWorkIs
<1>4. op.kind \in Rebuilds /\ WriteOk(b) /\ DraftOk /\ DraftApart
  <2>1. op.kind \in Rebuilds /\ WriteOk(b)
    BY <1>1, <1>3, PlacesAre DEF Kinds, Rebuilds
  <2> QED
    BY <1>1, <2>1 DEF WriteOk
<1>5. PICK batch \in Batches : /\ vectors' = vectors (+) SetToBag(batch)
                               /\ op' = [op EXCEPT !.todo = @ \ batch]
  BY DEF Add
<1>6. batch \subseteq op.todo
  BY DEF Batches
<1>7. batch \subseteq op.draft /\ batch \subseteq Rows /\ \A d \in batch : d.book = b /\ ~NewRow(d) /\ d.id \in DraftIds
  BY <1>2, <1>3, <1>4, <1>6 DEF DraftOk, NewRow, Operations, DraftIds, IdsOf
<1>8. /\ op' \in Operations /\ op'.kind = op.kind /\ op'.at = "add" /\ op'.book = b
      /\ op'.scope = op.scope /\ op'.text = op.text /\ op'.draft = op.draft /\ op'.todo = op.todo \ batch
      /\ op'.was = op.was /\ op'.raced = op.raced /\ op'.old = op.old /\ op'.saved = op.saved
  BY <1>1, <1>2, <1>3, <1>5 DEF Operations
<1>9. op' # Idle /\ op'.at \in PlacesOf(op'.kind)
  BY <1>1, <1>3, <1>8, NotIdle
<1>10. /\ DOMAIN vectors' = DOMAIN vectors \cup batch
       /\ \A r \in DOMAIN vectors \ batch : vectors'[r] = vectors[r]
       /\ \A r \in batch \ DOMAIN vectors : vectors'[r] = 1
       /\ \A r \in DOMAIN vectors' : vectors'[r] \in Nat \ {0}
  BY <1>3, <1>5, RowsWith DEF VectorTyped
<1>11. VectorTyped' /\ ChunksOk' /\ MarkOk'
  <2>1. DOMAIN vectors' \subseteq Rows
    BY <1>3, <1>7, <1>10 DEF VectorTyped
  <2>2. VectorTyped'
    BY <1>1, <1>3, <1>8, <1>9, <1>10, <2>1 DEF VectorTyped
  <2> QED
    BY <1>1, <1>3, <2>2, MarksStay, ChunksStay
<1>12. ASSUME NEW c \in Books, c # b PROVE AtRest(c)'
  <2>1. \A r \in batch : r.book # c
    BY <1>7, <1>12
  <2>2. \A r \in DOMAIN vectors : vectors[r] \in Nat \ {0}
    BY <1>3 DEF VectorTyped
  <2> QED
    BY <1>1, <1>3, <1>5, <1>12, <2>1, <2>2, RestWith
<1>13. DraftOk'
  <2>1. op.draft \ (op.todo \ batch) \subseteq DOMAIN vectors'
    BY <1>4, <1>10 DEF DraftOk
  <2> QED
    BY <1>1, <1>2, <1>4, <1>8, <2>1 DEF DraftOk
<1>14. DraftApart'
  BY <1>1, <1>2, <1>4, <1>8 DEF DraftApart, DraftIds, Kept
<1> DEFINE kept == Kept(b, op.scope)
<1>15. ("orphan" \notin harm[b] => RowsAdded(b, Kept(b, op.scope)))'
  <2> SUFFICES ASSUME "orphan" \notin harm[b] PROVE RowsAdded(b, Kept(b, op.scope))'
    BY <1>1
  <2>1. RowsAdded(b, kept)
    BY <1>1, <1>4 DEF WriteOk
  <2>2. Kept(b, op.scope)' = kept
    BY <1>1, <1>8 DEF Kept
  <2>3. \A r : HasChunk(r, kept) => r.id \notin DraftIds
    BY <1>2, <1>4 DEF DraftApart, HasChunk, Fits
  <2> HIDE DEF kept
  <2>4. ASSUME NEW r \in batch PROVE r \notin DOMAIN vectors
    BY <1>7, <2>1, <2>3 DEF RowsAdded
  <2>5. \A r : NewRow(r)' <=> NewRow(r) \/ r \in batch
    BY <1>6, <1>7, <1>8 DEF NewRow
  <2>6. \A r \in DOMAIN vectors' : r.book = b => vectors'[r] = 1 /\ (NewRow(r)' \/ HasChunk(r, kept))
    BY <1>10, <2>1, <2>4, <2>5 DEF RowsAdded
  <2>7. ASSUME NEW r \in DOMAIN vectors', NEW s \in DOMAIN vectors', r.book = b, s.book = b, r.id = s.id
        PROVE  r = s
    <3>1. \A q \in DOMAIN vectors' : q.book = b => q \in op.draft \/ HasChunk(q, kept)
      BY <2>5, <2>6, <1>7 DEF NewRow
    <3>2. \A q \in op.draft : q.id \in DraftIds
      BY DEF DraftIds, IdsOf
    <3>3. CASE r \in op.draft /\ s \in op.draft
      BY <1>4, <2>7, <3>3 DEF DraftOk
    <3>4. CASE HasChunk(r, kept) /\ HasChunk(s, kept)
      <4>1. r \notin batch /\ s \notin batch
        BY <1>7, <2>3, <3>4
      <4> QED
        BY <1>10, <2>1, <2>7, <4>1 DEF RowsAdded, RowsOnce
    <3>5. CASE (r \in op.draft /\ HasChunk(s, kept)) \/ (s \in op.draft /\ HasChunk(r, kept))
      BY <2>3, <2>7, <3>2, <3>5
    <3> QED
      BY <2>7, <3>1, <3>3, <3>4, <3>5
  <2>8. RowsOnce(b, DOMAIN vectors')
    BY <2>7 DEF RowsOnce
  <2> QED
    BY <2>2, <2>6, <2>8 DEF RowsAdded
<1>16. WriteOk(b)'
  BY <1>1, <1>4, <1>8, <1>13, <1>14, <1>15 DEF WriteOk, ChunksOf
<1>17. op.kind = "page" => PageOk(b)'
  <2> SUFFICES ASSUME op.kind = "page" PROVE PageOk(b)'
    OBVIOUS
  <2>1. \A c : HasRow(c) => HasRow(c)'
    BY <1>10 DEF HasRow
  <2>2. PageOk(b) /\ SavedOk(b)
    BY <1>1, <1>3 DEF PageOk
  <2> QED
    BY <1>1, <1>8, <2>1, <2>2, PageStays
<1>18. AtWork(b)'
  BY <1>4, <1>8, <1>16, <1>17 DEF AtWork, Rebuilds
<1> QED
  BY <1>8, <1>9, <1>11, <1>12, <1>18, WorkGoesOn

\* Deleting the vectors that a failed rebuild added keeps the invariant.
LEMMA VectorUndo == ASSUME VectorInv, Undo PROVE VectorInv'
<1>1. op # Idle /\ op.at = "undo" /\ UNCHANGED <<pages, indexed, sealed, chunks, harm>>
  BY DEF Undo, Idle
<1>2. PICK b \in Books : b = op.book
  BY <1>1, OpIs
<1>3. /\ op \in Operations /\ op.kind \in Kinds /\ op.at \in PlacesOf(op.kind)
      /\ VectorTyped /\ ChunksOk /\ MarkOk /\ \A c \in Books : c # b => AtRest(c)
      /\ op.kind \in Rebuilds => WriteOk(b)
      /\ op.kind = "page" => PageOk(b)
  BY <1>1, <1>2, AtWorkIs
<1>4. op.kind = "page" /\ WriteOk(b) /\ PageOk(b) /\ SavedOk(b) /\ DraftApart
  <2>1. op.kind = "page"
    BY <1>1, <1>3, PlacesAre DEF Kinds
  <2>2. WriteOk(b) /\ PageOk(b)
    BY <1>3, <2>1 DEF Rebuilds
  <2> QED
    BY <1>1, <2>1, <2>2 DEF WriteOk, PageOk
<1> DEFINE ids == op.old \cup IdsOf(op.draft)
<1>5. vectors' = WithoutIds(vectors, ids) /\ op' = [op EXCEPT !.at = "restore"]
  BY DEF Undo
<1>6. \A c \in chunks : c.id \in ids <=> c.book = b /\ c.page \in op.scope
  <2>1. \A c \in chunks : c.id \in op.old <=> c.book = b /\ c.page \in op.scope
    BY <1>4 DEF SavedOk
  <2>2. \A c \in chunks : ~(c.book = b /\ c.page \in op.scope) => c.id \notin IdsOf(op.draft)
    BY <1>2, <1>4 DEF DraftApart, DraftIds, Kept
  <2> QED
    BY <2>1, <2>2
<1>7. op.old \subseteq ids /\ IdsOf(op.draft) \subseteq ids
  OBVIOUS
<1> HIDE DEF ids
<1>8. /\ op' \in Operations /\ op'.kind = "page" /\ op'.at = "restore" /\ op'.book = b
      /\ op'.scope = op.scope /\ op'.text = op.text /\ op'.draft = op.draft /\ op'.todo = op.todo
      /\ op'.was = op.was /\ op'.raced = op.raced /\ op'.old = op.old /\ op'.saved = op.saved
  BY <1>2, <1>3, <1>4, <1>5 DEF Operations
<1>9. op' # Idle /\ op'.at \in PlacesOf(op'.kind)
  BY <1>8, NotIdle DEF PlacesOf
<1>10. /\ DOMAIN vectors' = {r \in DOMAIN vectors : r.id \notin ids}
       /\ \A r \in DOMAIN vectors' : vectors'[r] = vectors[r]
  BY <1>5, RowsLeft
<1>11. VectorTyped' /\ ChunksOk' /\ MarkOk'
  <2>1. VectorTyped'
    BY <1>1, <1>3, <1>8, <1>9, <1>10 DEF VectorTyped
  <2> QED
    BY <1>1, <1>3, <2>1, MarksStay, ChunksStay
<1>12. ASSUME NEW c \in Books, c # b PROVE AtRest(c)'
  <2>1. \A d \in ChunksOf(c) : d.id \notin ids
    BY <1>6, <1>12 DEF ChunksOf
  <2> QED
    BY <1>1, <1>3, <1>5, <1>12, <2>1, RestWithout
<1>13. ("orphan" \notin harm[b] => RowsOk(b) /\ \A r \in DOMAIN vectors : r.id \notin op.old)'
  <2> SUFFICES ASSUME "orphan" \notin harm[b] PROVE (RowsOk(b) /\ \A r \in DOMAIN vectors : r.id \notin op.old)'
    BY <1>1
  <2>1. RowsAdded(b, chunks)
    BY <1>1, <1>4 DEF WriteOk
  <2>2. \A r \in DOMAIN vectors' : ~NewRow(r)
    BY <1>7, <1>10 DEF NewRow, IdsOf
  <2>3. RowsOk(b)'
    BY <1>1, <1>10, <2>1, <2>2 DEF RowsAdded, RowsOk, RowsOnce, HasChunk, Fits
  <2> QED
    BY <1>7, <1>8, <1>10, <2>3
<1>14. WriteOk(b)'
  BY <1>1, <1>4, <1>8, <1>13 DEF WriteOk
<1>15. PageOk(b)'
  <2>1. \A c \in ChunksOf(b) : c.page \notin op.scope /\ HasRow(c) => HasRow(c)'
    BY <1>6, <1>10 DEF HasRow, ChunksOf
  <2> QED
    BY <1>1, <1>4, <1>8, <2>1, PageStays
<1>16. AtWork(b)'
  BY <1>8, <1>14, <1>15 DEF AtWork
<1> QED
  BY <1>8, <1>9, <1>11, <1>12, <1>16, WorkGoesOn

\* The books that a step of a rebuild's end does not touch.
LEMMA VectorRests ==
    ASSUME VectorTyped', ChunksOk', MarkOk', op' = Idle, \A c \in Books : AtRest(c)' PROVE VectorInv'
BY DEF VectorInv

\* Only the rebuild of a page restores vectors, and it has saved them.
LEMMA RestoreIs ==
    ASSUME VectorInv, Restore, NEW b \in Books, b = op.book
    PROVE  /\ op.kind = "page" /\ WriteOk(b) /\ PageOk(b) /\ SavedOk(b)
           /\ DOMAIN vectors' = DOMAIN vectors \cup op.saved
           /\ \A r \in DOMAIN vectors \ op.saved : vectors'[r] = vectors[r]
           /\ \A r \in op.saved \ DOMAIN vectors : vectors'[r] = 1
           /\ \A r \in DOMAIN vectors' : vectors'[r] \in Nat \ {0}
           /\ op.saved \subseteq Rows
           /\ "orphan" \notin harm[b] => RowsOk(b)'
<1>1. op # Idle /\ op.at = "restore" /\ UNCHANGED <<pages, sealed, chunks, harm>>
  BY DEF Restore, Idle
<1>2. /\ op \in Operations /\ op.kind \in Kinds /\ op.at \in PlacesOf(op.kind) /\ VectorTyped
      /\ op.kind \in Rebuilds => WriteOk(b)
      /\ op.kind = "page" => PageOk(b)
  BY <1>1, AtWorkIs
<1>3. op.kind = "page" /\ WriteOk(b) /\ PageOk(b) /\ SavedOk(b)
  <2>1. op.kind = "page"
    BY <1>1, <1>2, PlacesAre DEF Kinds
  <2>2. WriteOk(b) /\ PageOk(b)
    BY <1>2, <2>1 DEF Rebuilds
  <2> QED
    BY <1>1, <2>1, <2>2 DEF PageOk
<1>4. vectors' = vectors (+) SetToBag(op.saved) /\ op.saved \subseteq Rows
  BY <1>2 DEF Restore, Operations
<1>5. /\ DOMAIN vectors' = DOMAIN vectors \cup op.saved
      /\ \A r \in DOMAIN vectors \ op.saved : vectors'[r] = vectors[r]
      /\ \A r \in op.saved \ DOMAIN vectors : vectors'[r] = 1
      /\ \A r \in DOMAIN vectors' : vectors'[r] \in Nat \ {0}
  BY <1>2, <1>4, RowsWith DEF VectorTyped
<1>6. ASSUME "orphan" \notin harm[b] PROVE RowsOk(b)'
  <2>1. RowsOk(b) /\ \A r \in DOMAIN vectors : r.id \notin op.old
    BY <1>1, <1>3, <1>6 DEF WriteOk
  <2>2. /\ \A r \in op.saved : r.id \in op.old
        /\ \A r \in op.saved : r.book = b => HasChunk(r, chunks)
        /\ RowsOnce(b, op.saved)
    BY <1>3, <1>6 DEF SavedOk
  <2>3. \A r \in op.saved : r \notin DOMAIN vectors
    BY <2>1, <2>2
  <2>4. \A r \in DOMAIN vectors' : r.book = b => vectors'[r] = 1 /\ HasChunk(r, chunks)
    BY <1>5, <2>1, <2>2, <2>3 DEF RowsOk
  <2>5. RowsOnce(b, DOMAIN vectors')
    BY <1>5, <2>1, <2>2 DEF RowsOk, RowsOnce
  <2> QED
    BY <1>1, <2>4, <2>5 DEF RowsOk
<1> QED
  BY <1>3, <1>4, <1>5, <1>6

\* Putting back the vectors of a page keeps the invariant.
LEMMA VectorRestore == ASSUME VectorInv, Restore PROVE VectorInv'
<1>1. op # Idle /\ op.at = "restore" /\ op' = Idle /\ UNCHANGED <<pages, sealed, chunks, harm>>
  BY DEF Restore, Idle
<1>2. PICK b \in Books : b = op.book
  BY <1>1, OpIs
<1>3. /\ VectorTyped /\ ChunksOk /\ MarkOk /\ \A c \in Books : c # b => AtRest(c)
  BY <1>1, <1>2, AtWorkIs
<1>4. /\ SavedOk(b) /\ DOMAIN vectors' = DOMAIN vectors \cup op.saved
      /\ \A r \in DOMAIN vectors' : vectors'[r] \in Nat \ {0}
      /\ op.saved \subseteq Rows
      /\ "orphan" \notin harm[b] => RowsOk(b)'
  BY <1>2, RestoreIs
<1>5. vectors' = vectors (+) SetToBag(op.saved) /\ indexed' = [indexed EXCEPT ![b] = FALSE]
  BY <1>2 DEF Restore
<1>6. /\ indexed' \in [Books -> BOOLEAN] /\ ~indexed'[b] /\ \A c \in Books : indexed'[c] => indexed[c]
  BY <1>3, <1>5 DEF VectorTyped
<1>7. VectorTyped' /\ ChunksOk' /\ MarkOk'
  <2>1. DOMAIN vectors' \subseteq Rows
    BY <1>3, <1>4 DEF VectorTyped
  <2>2. VectorTyped'
    BY <1>1, <1>3, <1>4, <1>6, <2>1 DEF VectorTyped
  <2> QED
    BY <1>1, <1>3, <1>6, <2>2, MarksStay, ChunksStay
<1>8. ASSUME NEW c \in Books PROVE AtRest(c)'
  <2>1. CASE c = b
    BY <1>1, <1>4, <1>6, <2>1 DEF AtRest, EmbeddedOk
  <2>2. CASE c # b
    <3>1. \A r \in op.saved : r.book = c => "orphan" \in harm[c]
      BY <1>4, <2>2 DEF SavedOk
    <3>2. \A r \in DOMAIN vectors : vectors[r] \in Nat \ {0}
      BY <1>3 DEF VectorTyped
    <3> QED
      BY <1>1, <1>3, <1>5, <1>6, <2>2, <3>1, <3>2, RestWith
  <2> QED
    BY <2>1, <2>2
<1> QED
  BY <1>1, <1>7, <1>8, VectorRests

\* What a rebuild commits.
LEMMA CommitIs ==
    ASSUME VectorInv, Commit, NEW b \in Books, b = op.book
    PROVE  /\ op.kind \in Rebuilds /\ WriteOk(b) /\ DraftOk /\ DraftApart
           /\ op.kind = "page" => PageOk(b)
           /\ chunks' = Kept(b, op.scope) \cup op.draft
           /\ indexed' \in [Books -> BOOLEAN] /\ sealed' \in [Books -> BOOLEAN]
           /\ \A c \in Books : c # b => indexed'[c] = indexed[c] /\ harm'[c] = harm[c]
           /\ harm' \in [Books -> SUBSET {"orphan", "lost", "stale", "unembedded"}]
           /\ op.kind = "sealed" => harm'[b] = {}
           /\ op.kind = "book" => /\ "orphan" \in harm'[b] <=> "orphan" \in harm[b]
                                  /\ "stale" \notin harm'[b] => ~op.raced
           /\ op.kind = "page" => /\ harm[b] \subseteq harm'[b] /\ harm'[b] \subseteq harm[b] \cup {"stale"}
                                  /\ "stale" \notin harm'[b] => op.was /\ ~op.raced
<1>1. op # Idle /\ op.at = "add"
  BY DEF Commit, Idle
<1>2. /\ op \in Operations /\ op.kind \in Kinds /\ op.at \in PlacesOf(op.kind) /\ VectorTyped
      /\ op.kind \in Rebuilds => WriteOk(b)
      /\ op.kind = "page" => PageOk(b)
  BY <1>1, AtWorkIs
<1>3. op.kind \in Rebuilds /\ WriteOk(b) /\ DraftOk /\ DraftApart
  <2>1. op.kind \in Rebuilds /\ WriteOk(b)
    BY <1>1, <1>2, PlacesAre DEF Kinds, Rebuilds
  <2> QED
    BY <1>1, <2>1 DEF WriteOk
<1>4. /\ chunks' = Kept(b, op.scope) \cup op.draft
      /\ indexed' = [indexed EXCEPT ![b] = TRUE]
      /\ sealed' = [sealed EXCEPT ![b] = @ \/ op.kind = "sealed"]
      /\ harm' = [harm EXCEPT ![b] = HarmAfter]
  BY DEF Commit
<1>5. /\ harm \in [Books -> SUBSET {"orphan", "lost", "stale", "unembedded"}]
      /\ indexed \in [Books -> BOOLEAN] /\ sealed \in [Books -> BOOLEAN]
  BY <1>2 DEF VectorTyped
<1>6. /\ op.kind = "sealed" => HarmAfter = {}
      /\ op.kind = "book" => HarmAfter = (harm[b] \cap {"orphan"}) \cup (IF op.raced THEN {"stale"} ELSE {})
      /\ op.kind = "page" => HarmAfter = harm[b] \cup (IF op.was /\ ~op.raced THEN {} ELSE {"stale"})
  BY DEF HarmAfter
<1>7. HarmAfter \in SUBSET {"orphan", "lost", "stale", "unembedded"}
  BY <1>3, <1>5, <1>6 DEF Rebuilds
<1>8. harm'[b] = HarmAfter /\ harm' \in [Books -> SUBSET {"orphan", "lost", "stale", "unembedded"}]
  BY <1>4, <1>5, <1>7
<1>9. /\ indexed' \in [Books -> BOOLEAN] /\ sealed' \in [Books -> BOOLEAN]
      /\ \A c \in Books : c # b => indexed'[c] = indexed[c] /\ harm'[c] = harm[c]
  BY <1>4, <1>5
<1>10. op.kind = "sealed" => harm'[b] = {}
  BY <1>6, <1>8
<1>11. op.kind = "book" => /\ "orphan" \in harm'[b] <=> "orphan" \in harm[b]
                           /\ "stale" \notin harm'[b] => ~op.raced
  BY <1>6, <1>8
<1>12. op.kind = "page" => /\ harm[b] \subseteq harm'[b] /\ harm'[b] \subseteq harm[b] \cup {"stale"}
                           /\ "stale" \notin harm'[b] => op.was /\ ~op.raced
  BY <1>6, <1>8
<1> QED
  BY <1>2, <1>3, <1>4, <1>8, <1>9, <1>10, <1>11, <1>12

\* A commit leaves rows in the table, with ids of their own.
LEMMA CommitChunks ==
    ASSUME VectorInv, Commit, NEW b \in Books, b = op.book
    PROVE  /\ chunks' \subseteq Rows /\ ChunksOk'
           /\ \A c \in Books : c # b => ChunksOf(c)' = ChunksOf(c)
           /\ op.draft \subseteq chunks' /\ Kept(b, op.scope) \subseteq chunks'
           /\ \A c \in chunks' : c.book = b => c \in op.draft \/ (c \in ChunksOf(b) /\ c.page \notin op.scope)
           /\ \A c \in ChunksOf(b) : c.page \notin op.scope => c \in chunks'
<1>1. /\ op # Idle /\ UNCHANGED <<pages, vectors>>
  BY DEF Commit, Idle
<1>2. op \in Operations /\ VectorTyped /\ ChunksOk
  BY <1>1, AtWorkIs
<1>3. DraftOk /\ DraftApart /\ chunks' = Kept(b, op.scope) \cup op.draft
  BY CommitIs
<1>4. /\ \A d \in op.draft : d.book = b /\ d.page \in op.scope /\ d.page \in DOMAIN pages[b] /\ d.id \in DraftIds
      /\ \A c, d \in op.draft : c.id = d.id \/ c.page = d.page => c = d
  BY <1>3 DEF DraftOk, DraftIds, IdsOf
<1>5. \A c \in Kept(b, op.scope) : c \in chunks /\ c.id \notin DraftIds /\ (c.book = b => c.page \notin op.scope)
  BY <1>3 DEF DraftApart, Kept
<1>6. chunks' \subseteq Rows
  BY <1>2, <1>3, <1>5 DEF VectorTyped, Operations
<1>7. ASSUME NEW c \in chunks', NEW d \in chunks', c.id = d.id PROVE c = d
  <2>1. CASE c \in op.draft /\ d \in op.draft
    BY <1>4, <1>7, <2>1
  <2>2. CASE c \in Kept(b, op.scope) /\ d \in Kept(b, op.scope)
    BY <1>2, <1>5, <1>7, <2>2 DEF ChunksOk
  <2>3. CASE (c \in op.draft /\ d \in Kept(b, op.scope)) \/ (d \in op.draft /\ c \in Kept(b, op.scope))
    BY <1>4, <1>5, <1>7, <2>3
  <2> QED
    BY <1>3, <2>1, <2>2, <2>3
<1>8. ASSUME NEW c \in chunks', NEW d \in chunks', c.book = d.book, c.page = d.page PROVE c = d
  <2>1. CASE c \in op.draft /\ d \in op.draft
    BY <1>4, <1>8, <2>1
  <2>2. CASE c \in Kept(b, op.scope) /\ d \in Kept(b, op.scope)
    BY <1>2, <1>5, <1>8, <2>2 DEF ChunksOk
  <2>3. CASE (c \in op.draft /\ d \in Kept(b, op.scope)) \/ (d \in op.draft /\ c \in Kept(b, op.scope))
    BY <1>4, <1>5, <1>8, <2>3
  <2> QED
    BY <1>3, <2>1, <2>2, <2>3
<1>9. \A c \in chunks' : c.page \in DOMAIN pages'[c.book]
  BY <1>1, <1>2, <1>3, <1>4, <1>5 DEF ChunksOk
<1>10. ChunksOk'
  BY <1>7, <1>8, <1>9 DEF ChunksOk
<1>11. ASSUME NEW c \in Books, c # b PROVE ChunksOf(c)' = ChunksOf(c)
  <2>1. \A d \in op.draft : d.book # c
    BY <1>4, <1>11
  <2>2. \A d : d \in chunks /\ d.book = c => d \in Kept(b, op.scope)
    BY <1>11 DEF Kept
  <2> QED
    BY <1>3, <1>5, <2>1, <2>2 DEF ChunksOf
<1>12. \A c \in ChunksOf(b) : c.page \notin op.scope => c \in chunks'
  BY <1>3 DEF Kept, ChunksOf
<1>13. \A c \in chunks' : c.book = b => c \in op.draft \/ (c \in ChunksOf(b) /\ c.page \notin op.scope)
  BY <1>3, <1>5 DEF ChunksOf
<1> QED
  BY <1>3, <1>6, <1>10, <1>11, <1>12, <1>13

\* A commit makes the chunks of the book those of its pages.
LEMMA CommitMarks ==
    ASSUME VectorInv, Commit, NEW b \in Books, b = op.book, "stale" \notin harm'[b]
    PROVE  ChunksArePages(b)'
<1>1. /\ pages' = pages /\ VectorTyped
  BY DEF Commit, VectorInv
<1>2. op.kind \in Rebuilds /\ WriteOk(b) /\ DraftOk
  BY CommitIs
<1>3. /\ op.draft \subseteq chunks'
      /\ \A c \in chunks' : c.book = b => c \in op.draft \/ (c \in ChunksOf(b) /\ c.page \notin op.scope)
      /\ \A c \in ChunksOf(b) : c.page \notin op.scope => c \in chunks'
  BY CommitChunks
<1>4. /\ \A d \in op.draft : d.book = b /\ d.page \in op.scope /\ d.page \in DOMAIN pages[b]
                             /\ d.text = op.text[d.page] /\ d.text # Ineligible
      /\ \A p \in op.scope : op.text[p] # Ineligible => \E d \in op.draft : d.page = p
  BY <1>2 DEF DraftOk
<1>5. /\ \A p \in op.scope : p \in DOMAIN pages[b] => op.text[p] = pages[b][p]
      /\ \A c \in ChunksOf(b) : c.page \notin op.scope => c.page \in Eligible(b) /\ c.text = pages[b][c.page]
      /\ \A p \in Eligible(b) : p \notin op.scope => \E c \in ChunksOf(b) : c.page = p
  <2>1. CASE op.kind = "page"
    <3>1. op.was /\ ~op.raced /\ PageOk(b) /\ "stale" \notin harm[b]
      BY <2>1, CommitIs
    <3>2. ChunksArePages(b) /\ \A p \in op.scope : op.text[p] = pages[b][p]
      BY <3>1 DEF PageOk
    <3> QED
      BY <3>2 DEF ChunksArePages
  <2>2. CASE op.kind \in {"book", "sealed"}
    <3>1. op.text = pages[b]
      <4>1. op.kind = "book" => ~op.raced
        BY CommitIs
      <4>2. op.at = "add"
        BY DEF Commit
      <4> QED
        BY <1>2, <2>2, <4>1, <4>2 DEF WriteOk
    <3>2. op.scope = DOMAIN pages[b]
      BY <1>2, <3>1 DEF WriteOk
    <3>3. \A c \in ChunksOf(b) : c.page \in op.scope
      BY <1>2, <2>2 DEF WriteOk
    <3> QED
      BY <3>1, <3>2, <3>3 DEF Eligible
  <2> QED
    BY <1>2, <2>1, <2>2 DEF Rebuilds
<1>6. ASSUME NEW c \in chunks', c.book = b PROVE c.page \in Eligible(b) /\ c.text = pages[b][c.page]
  <2>1. CASE c \in op.draft
    BY <1>4, <1>5, <2>1 DEF Eligible
  <2>2. CASE c \in ChunksOf(b) /\ c.page \notin op.scope
    BY <1>5, <2>2
  <2> QED
    BY <1>3, <1>6, <2>1, <2>2
<1>7. ASSUME NEW p \in Eligible(b) PROVE \E c \in chunks' : c.book = b /\ c.page = p
  <2>1. CASE p \in op.scope
    <3>1. op.text[p] # Ineligible
      BY <1>5, <2>1 DEF Eligible
    <3> QED
      BY <1>3, <1>4, <2>1, <3>1
  <2>2. CASE p \notin op.scope
    <3>1. PICK c \in ChunksOf(b) : c.page = p
      BY <1>5, <2>2
    <3> QED
      BY <1>3, <2>2, <3>1 DEF ChunksOf
  <2> QED
    BY <2>1, <2>2
<1>8. Eligible(b)' = Eligible(b)
  BY <1>1 DEF Eligible
<1>9. ChunksOf(b)' = {c \in chunks' : c.book = b}
  BY DEF ChunksOf
<1> QED
  BY <1>1, <1>6, <1>7, <1>8, <1>9 DEF ChunksArePages

\* What verify_build has found.
LEMMA VerifiedIs ==
    ASSUME NEW b \in Books, NEW rows, Verified(b, rows)
    PROVE  \A r \in DOMAIN vectors : r.book = b => r \in rows /\ vectors[r] = 1
<1> DEFINE mine == {r \in DOMAIN vectors : r.book = b \/ r.id \in IdsOf(rows)}
           found == [r \in mine |-> vectors[r]]
           bag == [r \in rows |-> 1]
<1>1. found = bag
  BY DEF Verified, Filter, SetToBag
<1>2. DOMAIN found = mine /\ DOMAIN bag = rows /\ (\A r \in mine : found[r] = vectors[r]) /\ \A r \in rows : bag[r] = 1
  OBVIOUS
<1>3. \A r \in DOMAIN vectors : r.book = b => r \in mine
  OBVIOUS
<1> HIDE DEF found, bag, mine
<1> QED
  BY <1>1, <1>2, <1>3

\* After a commit the book is at rest.
LEMMA CommitRests ==
    ASSUME VectorInv, Commit, NEW b \in Books, b = op.book PROVE AtRest(b)'
<1>1. vectors' = vectors /\ op.todo = {} /\ op.at = "add" /\ (op.kind = "sealed" => Verified(b, op.draft))
  BY DEF Commit
<1>2. op.kind \in Rebuilds /\ WriteOk(b) /\ DraftOk
  BY CommitIs
<1>3. /\ op.draft \subseteq chunks' /\ Kept(b, op.scope) \subseteq chunks'
      /\ \A c \in chunks' : c.book = b => c \in op.draft \/ (c \in ChunksOf(b) /\ c.page \notin op.scope)
  BY CommitChunks
<1>4. /\ op.draft \subseteq DOMAIN vectors
      /\ \A d \in op.draft : d.book = b
      /\ \A c, d \in op.draft : c.id = d.id => c = d
  BY <1>1, <1>2 DEF DraftOk
<1>5. ASSUME "orphan" \notin harm'[b] PROVE RowsOk(b)'
  <2>1. \A r \in op.draft : HasChunk(r, chunks')
    BY <1>3 DEF HasChunk, Fits
  <2>2. CASE op.kind = "sealed"
    <3>1. \A r \in DOMAIN vectors : r.book = b => r \in op.draft /\ vectors[r] = 1
      BY <1>1, <2>2, VerifiedIs
    <3>2. RowsOnce(b, DOMAIN vectors)
      BY <1>4, <3>1 DEF RowsOnce
    <3> QED
      BY <1>1, <2>1, <3>1, <3>2 DEF RowsOk, RowsOnce
  <2>3. CASE op.kind \in {"book", "page"}
    <3>1. "orphan" \notin harm[b]
      BY <1>5, <2>3, CommitIs
    <3>2. RowsAdded(b, Kept(b, op.scope))
      BY <1>1, <1>2, <3>1 DEF WriteOk
    <3>3. \A r : HasChunk(r, Kept(b, op.scope)) => HasChunk(r, chunks')
      BY <1>3 DEF HasChunk
    <3>4. \A r \in DOMAIN vectors : r.book = b => vectors[r] = 1 /\ HasChunk(r, chunks')
      BY <2>1, <3>2, <3>3 DEF RowsAdded, NewRow
    <3> QED
      BY <1>1, <3>2, <3>4 DEF RowsAdded, RowsOk, RowsOnce
  <2> QED
    BY <1>2, <2>2, <2>3 DEF Rebuilds
<1>6. ASSUME harm'[b] \subseteq {"unembedded"}, NEW c \in chunks', c.book = b
      PROVE  HasRow(c) \/ ("unembedded" \in harm'[b] /\ ~c.ctx)
  <2>1. CASE c \in op.draft
    BY <1>4, <2>1 DEF HasRow
  <2>2. CASE c \in ChunksOf(b) /\ c.page \notin op.scope
    <3>1. CASE op.kind = "page"
      <4>1. op.was /\ ~op.raced /\ harm[b] \subseteq harm'[b] /\ PageOk(b)
        BY <1>6, <3>1, CommitIs
      <4>2. HasRow(c) \/ Excused(b, c)
        BY <1>6, <2>2, <4>1 DEF PageOk
      <4> QED
        BY <4>1, <4>2 DEF Excused
    <3>2. CASE op.kind \in {"book", "sealed"}
      BY <1>2, <2>2, <3>2 DEF WriteOk
    <3> QED
      BY <1>2, <3>1, <3>2 DEF Rebuilds
  <2> QED
    BY <1>3, <1>6, <2>1, <2>2
<1>7. ASSUME harm'[b] \subseteq {"unembedded"} PROVE HasRows(b)'
  <2>1. \A c : HasRow(c)' <=> HasRow(c)
    BY <1>1 DEF HasRow
  <2> QED
    BY <1>6, <1>7, <2>1 DEF HasRows, Excused, ChunksOf
<1> QED
  BY <1>5, <1>7 DEF AtRest, EmbeddedOk

\* The commit of the chunks keeps the invariant.
LEMMA VectorCommit == ASSUME VectorInv, Commit PROVE VectorInv'
<1>1. op # Idle /\ op' = Idle /\ UNCHANGED <<pages, vectors>>
  BY DEF Commit, Idle
<1>2. PICK b \in Books : b = op.book
  BY <1>1, OpIs
<1>3. VectorTyped /\ MarkOk /\ \A c \in Books : c # b => AtRest(c)
  BY <1>1, <1>2, AtWorkIs
<1>4. /\ indexed' \in [Books -> BOOLEAN] /\ sealed' \in [Books -> BOOLEAN]
      /\ \A c \in Books : c # b => indexed'[c] = indexed[c] /\ harm'[c] = harm[c]
      /\ harm' \in [Books -> SUBSET {"orphan", "lost", "stale", "unembedded"}]
  BY <1>2, CommitIs
<1>5. chunks' \subseteq Rows /\ ChunksOk' /\ \A c \in Books : c # b => ChunksOf(c)' = ChunksOf(c)
  BY <1>2, CommitChunks
<1>6. VectorTyped'
  BY <1>1, <1>3, <1>4, <1>5 DEF VectorTyped
<1>7. ASSUME NEW c \in Books, indexed'[c], "stale" \notin harm'[c] PROVE ChunksArePages(c)'
  <2>1. CASE c = b
    BY <1>2, <1>7, <2>1, CommitMarks
  <2>2. CASE c # b
    BY <1>1, <1>3, <1>4, <1>5, <1>7, <2>2 DEF MarkOk, ChunksArePages, Eligible
  <2> QED
    BY <2>1, <2>2
<1>8. ASSUME NEW c \in Books, c # b PROVE AtRest(c)'
  <2>1. /\ \A d : d \in chunks /\ d.book = c => d \in chunks'
        /\ \A d : d \in chunks' /\ d.book = c => d \in chunks
    BY <1>5, <1>8 DEF ChunksOf
  <2>2. RowsOk(c) => RowsOk(c)'
    <3>1. ASSUME NEW r, r.book = c, HasChunk(r, chunks) PROVE HasChunk(r, chunks')
      BY <2>1, <3>1 DEF HasChunk, Fits
    <3> QED
      BY <1>1, <3>1 DEF RowsOk, RowsOnce
  <2>3. \A d : HasRow(d)' <=> HasRow(d)
    BY <1>1 DEF HasRow
  <2>4. HasRows(c) => HasRows(c)'
    BY <1>4, <1>5, <1>8, <2>3 DEF HasRows, Excused
  <2> QED
    BY <1>3, <1>4, <1>8, <2>2, <2>4 DEF AtRest, EmbeddedOk
<1>9. AtRest(b)'
  BY <1>2, CommitRests
<1>10. MarkOk'
  BY <1>7 DEF MarkOk
<1> QED
  BY <1>1, <1>5, <1>6, <1>8, <1>9, <1>10, VectorRests

\* generate_contexts between two steps.
LEMMA ContextsAre ==
    ASSUME VectorInv, NoContext \/ Unembed \/ Embed \/ Record \/ BatchRaises
    PROVE  /\ op # Idle /\ op.kind = "contexts" /\ op.book \in Books /\ op \in Operations
           /\ \A b \in Books : op.book = b => ContextsOk(b)
           /\ VectorTyped /\ ChunksOk /\ MarkOk
           /\ \A c \in Books : c # op.book => AtRest(c)
           /\ op.todo # {} /\ Current \in op.todo /\ Current \in Rows /\ Current.book = op.book
<1>1. op # Idle /\ op.at \in {"next", "embed", "record"} /\ (op.at = "next" => op.todo # {})
  BY DEF NoContext, Unembed, Embed, Record, BatchRaises, Idle
<1>2. PICK b \in Books : b = op.book
  BY <1>1, OpIs
<1>3. /\ op \in Operations /\ op.kind \in Kinds /\ op.at \in PlacesOf(op.kind)
      /\ VectorTyped /\ ChunksOk /\ MarkOk /\ \A c \in Books : c # b => AtRest(c)
      /\ op.kind = "contexts" => ContextsOk(b)
  BY <1>1, <1>2, AtWorkIs
<1>4. op.kind = "contexts" /\ ContextsOk(b)
  BY <1>1, <1>3, PlacesAre DEF Kinds
<1>5. op.todo # {} /\ op.todo \subseteq Rows
  BY <1>1, <1>3, <1>4 DEF ContextsOk, Operations
<1>6. Current \in op.todo /\ Current \in Rows
  BY <1>5, CurrentIs
<1>7. Current.book = op.book
  BY <1>2, <1>4, <1>6 DEF ContextsOk
<1> QED
  BY <1>1, <1>2, <1>3, <1>4, <1>5, <1>6, <1>7

\* A context call goes on to the next chunk, one fewer left.
LEMMA NextChunkIs ==
    ASSUME VectorInv, NoContext \/ Record \/ BatchRaises
    PROVE  /\ op' \in Operations /\ op' # Idle /\ op'.kind = "contexts" /\ op'.at = "next" /\ op'.book = op.book
           /\ op'.todo = op.todo \ {Current} /\ op'.at \in PlacesOf(op'.kind)
<1>1. op \in Operations /\ op.kind = "contexts"
  BY ContextsAre
<1>2. op' = [op EXCEPT !.at = "next", !.todo = @ \ {Current}]
  BY DEF NoContext, Record, BatchRaises, NextChunk
<1>3. op.todo \ {Current} \subseteq Rows
  BY <1>1 DEF Operations
<1>4. /\ op' \in Operations /\ op'.kind = "contexts" /\ op'.at = "next" /\ op'.book = op.book
      /\ op'.todo = op.todo \ {Current}
  BY <1>1, <1>2, <1>3 DEF Operations
<1> QED
  BY <1>4, NotIdle DEF PlacesOf

\* A chunk without a context keeps the invariant.
LEMMA VectorNoContext == ASSUME VectorInv, NoContext PROVE VectorInv'
<1>1. op.at = "next" /\ UNCHANGED <<pages, indexed, sealed, chunks, vectors, harm>>
  BY DEF NoContext, stores
<1>2. PICK b \in Books : b = op.book
  BY ContextsAre
<1>3. /\ ContextsOk(b) /\ VectorTyped /\ ChunksOk /\ MarkOk /\ \A c \in Books : c # b => AtRest(c)
  BY <1>2, ContextsAre
<1>4. /\ op' \in Operations /\ op' # Idle /\ op'.kind = "contexts" /\ op'.at = "next" /\ op'.book = b
      /\ op'.todo = op.todo \ {Current} /\ op'.at \in PlacesOf(op'.kind)
  BY <1>2, NextChunkIs
<1>5. VectorTyped' /\ ChunksOk' /\ MarkOk'
  BY <1>1, <1>3, <1>4, MarksStay, ChunksStay DEF VectorTyped
<1>6. \A c \in Books : c # b => AtRest(c)'
  BY <1>1, <1>3, RestOfSame
<1>7. RowsOk(b)' <=> RowsOk(b)
  BY <1>1 DEF RowsOk, RowsOnce, HasChunk, Fits
<1>8. ContextsOk(b)'
  BY <1>1, <1>3, <1>4, <1>7 DEF ContextsOk, ChunksOf, HasRow, Excused
<1>9. AtWork(b)'
  BY <1>4, <1>8 DEF AtWork, Rebuilds
<1> QED
  BY <1>4, <1>5, <1>6, <1>9, WorkGoesOn

\* A batch of contexts that fails keeps the invariant.
LEMMA VectorBatchRaises == ASSUME VectorInv, BatchRaises PROVE VectorInv'
<1>1. Harmed(op.book, LeftBehind) /\ UNCHANGED <<pages, indexed, sealed, chunks, vectors>>
  BY DEF BatchRaises, stores
<1>2. PICK b \in Books : b = op.book
  BY ContextsAre
<1>3. /\ op # Idle /\ op.kind = "contexts" /\ ContextsOk(b) /\ VectorTyped /\ ChunksOk /\ MarkOk
      /\ \A c \in Books : c # b => AtRest(c)
  BY <1>2, ContextsAre
<1>4. /\ op' \in Operations /\ op' # Idle /\ op'.kind = "contexts" /\ op'.at = "next" /\ op'.book = b
      /\ op'.todo = op.todo \ {Current} /\ op'.at \in PlacesOf(op'.kind)
  BY <1>2, NextChunkIs
<1>5. harm' = [harm EXCEPT ![b] = @ \cup LeftBehind] /\ LeftBehind \subseteq {"unembedded"}
  BY <1>1, <1>2, <1>3 DEF Harmed, LeftBehind, Added
<1>6. /\ harm' \in [Books -> SUBSET {"orphan", "lost", "stale", "unembedded"}]
      /\ \A c \in Books : harm[c] \subseteq harm'[c]
      /\ harm'[b] = harm[b] \cup LeftBehind
  BY <1>3, <1>5 DEF VectorTyped
<1>7. VectorTyped' /\ ChunksOk' /\ MarkOk'
  <2>1. VectorTyped'
    BY <1>1, <1>3, <1>4, <1>6 DEF VectorTyped
  <2> QED
    BY <1>1, <1>3, <1>6, <2>1, MarksStay, ChunksStay
<1>8. \A c \in Books : c # b => AtRest(c)'
  BY <1>1, <1>3, <1>6, RestStays
<1>9. AtRest(b)'
  BY <1>1, <1>2, <1>3, StopRests
<1>10. (/\ \A c \in op.todo : c.book = b /\ ~c.ctx
        /\ \A c \in op.todo, d \in chunks : d.id = c.id => d.book = b)'
  BY <1>1, <1>3, <1>4 DEF ContextsOk
<1>11. ("orphan" \notin harm[b] => op.todo \subseteq chunks)'
  BY <1>1, <1>3, <1>4, <1>6 DEF ContextsOk
<1>12. ContextsOk(b)'
  BY <1>4, <1>9, <1>10, <1>11 DEF ContextsOk, AtRest, EmbeddedOk, HasRows
<1>13. AtWork(b)'
  BY <1>4, <1>12 DEF AtWork, Rebuilds
<1> QED
  BY <1>4, <1>7, <1>8, <1>13, WorkGoesOn

\* Deleting the vector of a chunk keeps the invariant.
LEMMA VectorUnembed == ASSUME VectorInv, Unembed PROVE VectorInv'
<1>1. op.at = "next" /\ UNCHANGED <<pages, indexed, sealed, chunks, harm>>
  BY DEF Unembed
<1>2. PICK b \in Books : b = op.book
  BY ContextsAre
<1>3. /\ op \in Operations /\ op.kind = "contexts" /\ ContextsOk(b) /\ VectorTyped /\ ChunksOk /\ MarkOk
      /\ \A c \in Books : c # b => AtRest(c)
      /\ op.todo # {} /\ Current \in op.todo
  BY <1>2, ContextsAre
<1>4. vectors' = WithoutIds(vectors, {Current.id}) /\ op' = [op EXCEPT !.at = "embed"]
  BY DEF Unembed
<1>5. /\ op' \in Operations /\ op'.kind = "contexts" /\ op'.at = "embed" /\ op'.book = b /\ op'.todo = op.todo
  BY <1>2, <1>3, <1>4 DEF Operations
<1>6. op' # Idle /\ op'.at \in PlacesOf(op'.kind) /\ Current' = Current
  BY <1>5, NotIdle DEF PlacesOf, Current
<1>7. /\ DOMAIN vectors' = {r \in DOMAIN vectors : r.id \notin {Current.id}}
      /\ \A r \in DOMAIN vectors' : vectors'[r] = vectors[r]
  BY <1>4, RowsLeft
<1>8. VectorTyped' /\ ChunksOk' /\ MarkOk'
  <2>1. VectorTyped'
    BY <1>1, <1>3, <1>5, <1>6, <1>7 DEF VectorTyped
  <2> QED
    BY <1>1, <1>3, <2>1, MarksStay, ChunksStay
<1>9. ASSUME NEW c \in Books, c # b PROVE AtRest(c)'
  <2>1. \A d \in ChunksOf(c) : d.id \notin {Current.id}
    BY <1>3, <1>9 DEF ContextsOk, ChunksOf
  <2> QED
    BY <1>1, <1>3, <1>4, <1>9, <2>1, RestWithout
<1>10. RowsOk(b) => RowsOk(b)'
  BY <1>1, <1>7 DEF RowsOk, RowsOnce, HasChunk, Fits
<1>11. (/\ \A c \in op.todo : c.book = b /\ ~c.ctx
        /\ \A c \in op.todo, d \in chunks : d.id = c.id => d.book = b
        /\ op.todo # {})'
  BY <1>1, <1>3, <1>5 DEF ContextsOk
<1>12. (indexed[b] /\ harm[b] \subseteq {"unembedded"} =>
          \A c \in ChunksOf(b) : HasRow(c) \/ Excused(b, c) \/ (op.at = "embed" /\ c.id = Current.id))'
  <2>1. \A c : HasRow(c) => HasRow(c)' \/ c.id = Current.id
    BY <1>7 DEF HasRow
  <2> QED
    BY <1>1, <1>3, <1>5, <1>6, <2>1 DEF ContextsOk, Excused, ChunksOf
<1>13. ("orphan" \notin harm[b] =>
          /\ op.todo \subseteq chunks
          /\ RowsOk(b)
          /\ op.at = "embed" => \A r \in DOMAIN vectors : r.id # Current.id)'
  BY <1>1, <1>3, <1>5, <1>6, <1>7, <1>10 DEF ContextsOk
<1>14. ContextsOk(b)'
  BY <1>5, <1>11, <1>12, <1>13 DEF ContextsOk
<1>15. AtWork(b)'
  BY <1>5, <1>14 DEF AtWork, Rebuilds
<1> QED
  BY <1>5, <1>6, <1>8, <1>9, <1>15, WorkGoesOn

\* Adding the vector of a chunk keeps the invariant.
LEMMA VectorEmbed == ASSUME VectorInv, Embed PROVE VectorInv'
<1>1. op.at = "embed" /\ UNCHANGED <<pages, indexed, sealed, chunks, harm>>
  BY DEF Embed
<1>2. PICK b \in Books : b = op.book
  BY ContextsAre
<1>3. /\ op \in Operations /\ op.kind = "contexts" /\ ContextsOk(b) /\ VectorTyped /\ ChunksOk /\ MarkOk
      /\ \A c \in Books : c # b => AtRest(c)
      /\ op.todo # {} /\ Current \in op.todo /\ Current \in Rows /\ Current.book = b
  BY <1>2, ContextsAre
<1> DEFINE row == [Current EXCEPT !.ctx = TRUE]
<1>4. vectors' = vectors (+) SetToBag({row}) /\ op' = [op EXCEPT !.at = "record"]
  BY DEF Embed
<1>5. /\ row \in Rows /\ row.book = b /\ row.id = Current.id /\ row.page = Current.page /\ row.text = Current.text
      /\ row.ctx = TRUE
  BY <1>3 DEF Rows
<1> HIDE DEF row
<1>6. /\ op' \in Operations /\ op'.kind = "contexts" /\ op'.at = "record" /\ op'.book = b /\ op'.todo = op.todo
  BY <1>2, <1>3, <1>4 DEF Operations
<1>7. op' # Idle /\ op'.at \in PlacesOf(op'.kind) /\ Current' = Current
  BY <1>6, NotIdle DEF PlacesOf, Current
<1>8. /\ DOMAIN vectors' = DOMAIN vectors \cup {row}
      /\ \A r \in DOMAIN vectors \ {row} : vectors'[r] = vectors[r]
      /\ row \notin DOMAIN vectors => vectors'[row] = 1
      /\ \A r \in DOMAIN vectors' : vectors'[r] \in Nat \ {0}
  <2>1. \A r \in DOMAIN vectors : vectors[r] \in Nat \ {0}
    BY <1>3 DEF VectorTyped
  <2> QED
    BY <1>4, <2>1, RowsWith
<1>9. VectorTyped' /\ ChunksOk' /\ MarkOk'
  <2>1. VectorTyped'
    BY <1>1, <1>3, <1>5, <1>6, <1>7, <1>8 DEF VectorTyped
  <2> QED
    BY <1>1, <1>3, <2>1, MarksStay, ChunksStay
<1>10. ASSUME NEW c \in Books, c # b PROVE AtRest(c)'
  <2>1. \A r \in {row} : r.book # c
    BY <1>5, <1>10
  <2>2. \A r \in DOMAIN vectors : vectors[r] \in Nat \ {0}
    BY <1>3 DEF VectorTyped
  <2> QED
    BY <1>1, <1>3, <1>4, <1>10, <2>1, <2>2, RestWith
<1>11. (/\ \A c \in op.todo : c.book = b /\ ~c.ctx
        /\ \A c \in op.todo, d \in chunks : d.id = c.id => d.book = b
        /\ op.todo # {})'
  BY <1>1, <1>3, <1>6 DEF ContextsOk
<1>12. (indexed[b] /\ harm[b] \subseteq {"unembedded"} => \A c \in ChunksOf(b) : HasRow(c) \/ Excused(b, c))'
  <2>1. ASSUME NEW c \in ChunksOf(b), HasRow(c) \/ c.id = Current.id PROVE HasRow(c)'
    BY <1>5, <1>8, <2>1 DEF HasRow, ChunksOf
  <2> QED
    BY <1>1, <1>3, <2>1 DEF ContextsOk, Excused, ChunksOf
<1>13. ("orphan" \notin harm[b] =>
          /\ op.todo \subseteq chunks
          /\ RowsOk(b)
          /\ HasRow(Current) /\ \A r \in DOMAIN vectors : r.book = b /\ r.id = Current.id => r.ctx)'
  <2> SUFFICES ASSUME "orphan" \notin harm[b]
      PROVE  (/\ op.todo \subseteq chunks
              /\ RowsOk(b)
              /\ HasRow(Current) /\ \A r \in DOMAIN vectors : r.book = b /\ r.id = Current.id => r.ctx)'
    BY <1>1
  <2>1. op.todo \subseteq chunks /\ RowsOk(b) /\ \A r \in DOMAIN vectors : r.id # Current.id
    BY <1>1, <1>3 DEF ContextsOk
  <2>2. row \notin DOMAIN vectors
    BY <1>5, <2>1
  <2>3. HasChunk(row, chunks)
    BY <1>3, <1>5, <2>1 DEF HasChunk, Fits
  <2>4. \A r \in DOMAIN vectors' : r.book = b => vectors'[r] = 1 /\ HasChunk(r, chunks)
    BY <1>8, <2>1, <2>2, <2>3 DEF RowsOk
  <2>5. RowsOnce(b, DOMAIN vectors')
    BY <1>5, <1>8, <2>1 DEF RowsOk, RowsOnce
  <2>6. RowsOk(b)'
    BY <1>1, <2>4, <2>5 DEF RowsOk
  <2>7. HasRow(Current)'
    BY <1>3, <1>5, <1>7, <1>8 DEF HasRow
  <2>8. \A r \in DOMAIN vectors' : r.book = b /\ r.id = Current.id => r.ctx
    BY <1>5, <1>8, <2>1
  <2> QED
    BY <1>1, <1>6, <1>7, <2>1, <2>6, <2>7, <2>8
<1>14. ContextsOk(b)'
  BY <1>6, <1>11, <1>12, <1>13 DEF ContextsOk
<1>15. AtWork(b)'
  BY <1>6, <1>14 DEF AtWork, Rebuilds
<1> QED
  BY <1>6, <1>7, <1>9, <1>10, <1>15, WorkGoesOn

\* What Record does to the chunks: the one in hand says that it has a context.
LEMMA RecordedAre ==
    ASSUME VectorInv, Record, NEW b \in Books, b = op.book
    PROVE  /\ \A c \in chunks : c.id # Current.id => c \in chunks'
           /\ \A c \in chunks : c.id = Current.id =>
                c.book = b /\ \E d \in chunks' : d.id = c.id /\ d.book = c.book /\ d.page = c.page /\ d.text = c.text /\ d.ctx
           /\ \A d \in chunks' : (d \in chunks /\ d.id # Current.id)
                \/ (d.id = Current.id /\ d.ctx /\ \E c \in chunks : c.id = d.id /\ c.book = d.book /\ c.page = d.page /\ c.text = d.text)
           /\ chunks' \subseteq Rows
           /\ \A d \in chunks' : \E c \in chunks : c.id = d.id /\ c.book = d.book /\ c.page = d.page /\ c.text = d.text
<1>1. chunks \subseteq Rows /\ ContextsOk(b) /\ Current \in op.todo
  BY ContextsAre DEF VectorTyped
<1> DEFINE Told(c) == IF c.id = Current.id THEN [c EXCEPT !.ctx = TRUE] ELSE c
<1>2. chunks' = {Told(c) : c \in chunks}
  BY DEF Record
<1>3. ASSUME NEW c \in chunks
      PROVE  /\ c.id # Current.id => Told(c) = c
             /\ Told(c).id = c.id /\ Told(c).book = c.book /\ Told(c).page = c.page /\ Told(c).text = c.text
             /\ c.id = Current.id => Told(c).ctx /\ c.book = b
             /\ Told(c) \in Rows
  <2>1. c \in Rows
    BY <1>1
  <2>2. [c EXCEPT !.ctx = TRUE] \in Rows
    BY <2>1 DEF Rows
  <2>3. c.id = Current.id => c.book = b
    BY <1>1 DEF ContextsOk
  <2>4. [c EXCEPT !.ctx = TRUE].id = c.id /\ [c EXCEPT !.ctx = TRUE].book = c.book
        /\ [c EXCEPT !.ctx = TRUE].page = c.page /\ [c EXCEPT !.ctx = TRUE].text = c.text /\ [c EXCEPT !.ctx = TRUE].ctx
    BY <2>1 DEF Rows
  <2> QED
    BY <2>1, <2>2, <2>3, <2>4
<1> HIDE DEF Told
<1>4. \A c \in chunks : c.id # Current.id => c \in chunks'
  BY <1>2, <1>3
<1>5. ASSUME NEW c \in chunks, c.id = Current.id
      PROVE  c.book = b /\ \E d \in chunks' : d.id = c.id /\ d.book = c.book /\ d.page = c.page /\ d.text = c.text /\ d.ctx
  BY <1>2, <1>3, <1>5
<1>6. ASSUME NEW d \in chunks'
      PROVE  /\ d \in Rows
             /\ \E c \in chunks : c.id = d.id /\ c.book = d.book /\ c.page = d.page /\ c.text = d.text
             /\ (d \in chunks /\ d.id # Current.id) \/ (d.id = Current.id /\ d.ctx)
  <2>1. PICK c \in chunks : d = Told(c)
    BY <1>2
  <2> QED
    BY <1>3, <2>1
<1> QED
  BY <1>4, <1>5, <1>6

\* Recording a context can only tell of a vector that is lost.
LEMMA RecordHarms ==
    ASSUME VectorInv, Record, NEW b \in Books, b = op.book
    PROVE  /\ harm' \in [Books -> SUBSET {"orphan", "lost", "stale", "unembedded"}]
           /\ \A c \in Books : c # b => harm'[c] = harm[c]
           /\ \A h : h # "unembedded" => (h \in harm'[b] <=> h \in harm[b])
           /\ \A c \in chunks' : c.book = b /\ ~c.ctx /\ "unembedded" \in harm[b] => "unembedded" \in harm'[b]
<1>1. harm \in [Books -> SUBSET {"orphan", "lost", "stale", "unembedded"}]
  BY ContextsAre DEF VectorTyped
<1> DEFINE all == \A c \in chunks' : c.book = b => c.ctx
           now == IF all THEN harm[b] \ {"unembedded"} ELSE harm[b]
<1>2. harm' = [harm EXCEPT ![b] = now]
  BY DEF Record
<1>3. now \in SUBSET {"orphan", "lost", "stale", "unembedded"}
  BY <1>1
<1>4. harm'[b] = now /\ harm' \in [Books -> SUBSET {"orphan", "lost", "stale", "unembedded"}]
      /\ \A c \in Books : c # b => harm'[c] = harm[c]
  <2> HIDE DEF now
  <2> QED
    BY <1>1, <1>2, <1>3
<1>5. \A h : h # "unembedded" => (h \in now <=> h \in harm[b])
  OBVIOUS
<1>6. \A c \in chunks' : c.book = b /\ ~c.ctx /\ "unembedded" \in harm[b] => "unembedded" \in now
  OBVIOUS
<1> HIDE DEF now
<1> QED
  BY <1>4, <1>5, <1>6

\* Recording a context changes no page and no id.
LEMMA RecordKeepsChunks ==
    ASSUME VectorInv, Record, NEW b \in Books, b = op.book PROVE chunks' \subseteq Rows /\ ChunksOk' /\ MarkOk'
<1>1. UNCHANGED <<pages, indexed>> /\ ChunksOk /\ MarkOk /\ chunks \subseteq Rows
  BY ContextsAre DEF Record, VectorTyped
<1>2. /\ \A c \in chunks : c.id # Current.id => c \in chunks'
      /\ \A c \in chunks : c.id = Current.id =>
           \E d \in chunks' : d.id = c.id /\ d.book = c.book /\ d.page = c.page /\ d.text = c.text /\ d.ctx
      /\ \A d \in chunks' : (d \in chunks /\ d.id # Current.id) \/ (d.id = Current.id /\ d.ctx)
      /\ chunks' \subseteq Rows
      /\ \A d \in chunks' : \E c \in chunks : c.id = d.id /\ c.book = d.book /\ c.page = d.page /\ c.text = d.text
  BY RecordedAre
<1>3. ASSUME NEW x \in Rows, NEW y \in Rows, x.id = y.id, x.book = y.book, x.page = y.page, x.text = y.text, x.ctx = y.ctx
      PROVE  x = y
  BY <1>3 DEF Rows
<1>4. ASSUME NEW x \in chunks', NEW y \in chunks', x.id = y.id PROVE x = y
  <2>1. PICK c \in chunks : c.id = x.id /\ c.book = x.book /\ c.page = x.page /\ c.text = x.text
    BY <1>2
  <2>2. PICK d \in chunks : d.id = y.id /\ d.book = y.book /\ d.page = y.page /\ d.text = y.text
    BY <1>2
  <2>3. c = d
    BY <1>1, <1>4, <2>1, <2>2 DEF ChunksOk
  <2>4. CASE x.id # Current.id
    BY <1>1, <1>2, <1>4, <2>4 DEF ChunksOk
  <2>5. CASE x.id = Current.id
    <3>1. x.ctx /\ y.ctx
      BY <1>2, <1>4, <2>5
    <3>2. x \in Rows /\ y \in Rows
      BY <1>2
    <3>3. x.ctx = TRUE /\ y.ctx = TRUE
      BY <3>1, <3>2 DEF Rows
    <3> QED
      BY <1>3, <1>4, <2>1, <2>2, <2>3, <3>2, <3>3
  <2> QED
    BY <2>4, <2>5
<1>5. ASSUME NEW x \in chunks', NEW y \in chunks', x.book = y.book, x.page = y.page PROVE x = y
  <2>1. PICK c \in chunks : c.id = x.id /\ c.book = x.book /\ c.page = x.page
    BY <1>2
  <2>2. PICK d \in chunks : d.id = y.id /\ d.book = y.book /\ d.page = y.page
    BY <1>2
  <2>3. c = d
    BY <1>1, <1>5, <2>1, <2>2 DEF ChunksOk
  <2> QED
    BY <1>4, <2>1, <2>2, <2>3
<1>6. \A c \in chunks' : c.page \in DOMAIN pages'[c.book]
  BY <1>1, <1>2 DEF ChunksOk
<1>7. ChunksOk'
  BY <1>4, <1>5, <1>6 DEF ChunksOk
<1>8. ASSUME NEW c \in Books, indexed'[c], "stale" \notin harm'[c] PROVE ChunksArePages(c)'
  <2>1. "stale" \notin harm[c]
    BY <1>8, RecordHarms
  <2>2. ChunksArePages(c)
    BY <1>1, <1>8, <2>1 DEF MarkOk
  <2>3. Eligible(c)' = Eligible(c)
    BY <1>1 DEF Eligible
  <2>4. \A d \in chunks' : d.book = c => d.page \in Eligible(c) /\ d.text = pages[c][d.page]
    BY <1>2, <2>2 DEF ChunksArePages, ChunksOf
  <2>5. \A p \in Eligible(c) : \E d \in chunks' : d.book = c /\ d.page = p
    <3> SUFFICES ASSUME NEW p \in Eligible(c) PROVE \E d \in chunks' : d.book = c /\ d.page = p
      OBVIOUS
    <3>1. PICK d \in chunks : d.book = c /\ d.page = p
      BY <2>2 DEF ChunksArePages, ChunksOf
    <3> QED
      BY <1>2, <3>1
  <2> QED
    BY <1>1, <2>3, <2>4, <2>5 DEF ChunksArePages, ChunksOf
<1>9. MarkOk'
  BY <1>8 DEF MarkOk
<1> QED
  BY <1>2, <1>7, <1>9

\* Recording the context of a chunk keeps the invariant.
LEMMA VectorRecord == ASSUME VectorInv, Record PROVE VectorInv'
<1>1. op.at = "record" /\ UNCHANGED <<pages, indexed, sealed, vectors>>
  BY DEF Record
<1>2. PICK b \in Books : b = op.book
  BY ContextsAre
<1>3. /\ ContextsOk(b) /\ VectorTyped /\ ChunksOk /\ \A c \in Books : c # b => AtRest(c)
      /\ Current \in op.todo /\ Current.book = b
  BY <1>2, ContextsAre
<1>4. /\ op' \in Operations /\ op' # Idle /\ op'.kind = "contexts" /\ op'.at = "next" /\ op'.book = b
      /\ op'.todo = op.todo \ {Current} /\ op'.at \in PlacesOf(op'.kind)
  BY <1>2, NextChunkIs
<1>5. chunks' \subseteq Rows /\ ChunksOk' /\ MarkOk'
  BY <1>2, RecordKeepsChunks
<1>6. /\ \A c \in chunks : c.id # Current.id => c \in chunks'
      /\ \A c \in chunks : c.id = Current.id =>
           c.book = b /\ \E d \in chunks' : d.id = c.id /\ d.book = c.book /\ d.page = c.page /\ d.text = c.text /\ d.ctx
      /\ \A d \in chunks' : (d \in chunks /\ d.id # Current.id) \/ (d.id = Current.id /\ d.ctx)
      /\ \A d \in chunks' : \E c \in chunks : c.id = d.id /\ c.book = d.book /\ c.page = d.page /\ c.text = d.text
  BY <1>2, RecordedAre
<1>7. /\ harm' \in [Books -> SUBSET {"orphan", "lost", "stale", "unembedded"}]
      /\ \A c \in Books : c # b => harm'[c] = harm[c]
      /\ \A h : h # "unembedded" => (h \in harm'[b] <=> h \in harm[b])
      /\ \A c \in chunks' : c.book = b /\ ~c.ctx /\ "unembedded" \in harm[b] => "unembedded" \in harm'[b]
  BY <1>2, RecordHarms
<1>8. VectorTyped'
  BY <1>1, <1>3, <1>4, <1>5, <1>7 DEF VectorTyped
<1>9. \A d : HasRow(d)' <=> HasRow(d)
  BY <1>1 DEF HasRow
<1>10. ASSUME NEW c \in Books, c # b PROVE AtRest(c)'
  <2>1. /\ \A d \in chunks : d.book = c => d \in chunks'
        /\ \A d \in chunks' : d.book = c => d \in chunks
    <3>1. \A d \in chunks : d.book = c => d.id # Current.id
      BY <1>6, <1>10
    <3>2. ASSUME NEW d \in chunks', d.book = c PROVE d \in chunks
      <4>1. PICK e \in chunks : e.id = d.id /\ e.book = d.book
        BY <1>6
      <4> QED
        BY <1>6, <3>1, <3>2, <4>1
    <3> QED
      BY <1>6, <3>1, <3>2
  <2>2. ASSUME NEW r, r.book = c, HasChunk(r, chunks) PROVE HasChunk(r, chunks')
    BY <2>1, <2>2 DEF HasChunk, Fits
  <2>3. RowsOk(c) => RowsOk(c)'
    BY <1>1, <2>2 DEF RowsOk, RowsOnce
  <2>4. HasRows(c) => HasRows(c)'
    BY <1>7, <1>9, <1>10, <2>1 DEF HasRows, Excused, ChunksOf
  <2> QED
    BY <1>1, <1>3, <1>7, <1>10, <2>3, <2>4 DEF AtRest, EmbeddedOk
<1>11. (/\ \A c \in op.todo : c.book = b /\ ~c.ctx
        /\ \A c \in op.todo, d \in chunks : d.id = c.id => d.book = b)'
  <2>1. \A c \in op.todo \ {Current} : c.book = b /\ ~c.ctx
    BY <1>3 DEF ContextsOk
  <2>2. \A c \in op.todo \ {Current}, d \in chunks' : d.id = c.id => d.book = b
    BY <1>3, <1>6 DEF ContextsOk
  <2> QED
    BY <1>4, <2>1, <2>2
<1>12. (indexed[b] /\ harm[b] \subseteq {"unembedded"} => \A c \in ChunksOf(b) : HasRow(c) \/ Excused(b, c))'
  <2> SUFFICES ASSUME indexed'[b], harm'[b] \subseteq {"unembedded"}, NEW d \in chunks', d.book = b, ~HasRow(d)
               PROVE  "unembedded" \in harm'[b] /\ ~d.ctx
    BY <1>9 DEF ChunksOf, Excused
  <2>1. indexed[b] /\ harm[b] \subseteq {"unembedded"} /\ "orphan" \notin harm[b]
    BY <1>1, <1>7
  <2>2. d \in chunks /\ d.id # Current.id
    <3>1. HasRow(Current)
      BY <1>1, <1>3, <2>1 DEF ContextsOk
    <3>2. d.id # Current.id
      BY <1>3, <3>1 DEF HasRow
    <3> QED
      BY <1>6, <3>2
  <2>3. "unembedded" \in harm[b] /\ ~d.ctx
    BY <1>1, <1>3, <2>1, <2>2 DEF ContextsOk, ChunksOf, Excused
  <2> QED
    BY <1>7, <2>3
<1>13. ("orphan" \notin harm[b] => op.todo \subseteq chunks /\ RowsOk(b))'
  <2> SUFFICES ASSUME "orphan" \notin harm'[b] PROVE (op.todo \subseteq chunks /\ RowsOk(b))'
    OBVIOUS
  <2>1. "orphan" \notin harm[b]
    BY <1>7
  <2>2. /\ op.todo \subseteq chunks /\ RowsOk(b)
        /\ \A r \in DOMAIN vectors : r.book = b /\ r.id = Current.id => r.ctx
    BY <1>1, <1>3, <2>1 DEF ContextsOk
  <2>3. op.todo \ {Current} \subseteq chunks'
    <3>1. \A c \in op.todo \ {Current} : c \in chunks /\ c.id # Current.id
      BY <1>3, <2>2 DEF ChunksOk
    <3> QED
      BY <1>6, <3>1
  <2>4. ASSUME NEW r \in DOMAIN vectors, r.book = b PROVE HasChunk(r, chunks')
    <3>1. PICK c \in chunks : Fits(r, c)
      BY <2>2, <2>4 DEF RowsOk, HasChunk
    <3>2. CASE c.id = Current.id
      <4>1. r.ctx
        BY <2>2, <2>4, <3>1, <3>2 DEF Fits
      <4>2. PICK d \in chunks' : d.id = c.id /\ d.book = c.book /\ d.page = c.page /\ d.text = c.text
        BY <1>6, <3>2
      <4>3. Fits(r, d)
        BY <3>1, <4>1, <4>2 DEF Fits
      <4> QED
        BY <4>3 DEF HasChunk
    <3>3. CASE c.id # Current.id
      BY <1>6, <3>1, <3>3 DEF HasChunk
    <3> QED
      BY <3>2, <3>3
  <2>5. RowsOk(b)'
    BY <1>1, <2>2, <2>4 DEF RowsOk, RowsOnce
  <2> QED
    BY <1>4, <2>3, <2>5
<1>14. ContextsOk(b)'
  BY <1>4, <1>11, <1>12, <1>13 DEF ContextsOk
<1>15. AtWork(b)'
  BY <1>4, <1>14 DEF AtWork, Rebuilds
<1> QED
  BY <1>4, <1>5, <1>8, <1>10, <1>15, WorkGoesOn

\* Every step of the index keeps the invariant.
LEMMA VectorStep == ASSUME VectorInv, [Next]_vars PROVE VectorInv'
<1>1. CASE UNCHANGED vars
  <2>1. UNCHANGED <<pages, indexed, sealed, chunks, vectors, op, harm>>
    BY <1>1 DEF vars, stores
  <2>2. VectorTyped' /\ ChunksOk' /\ MarkOk'
    BY <2>1, MarksStay, ChunksStay DEF VectorInv, VectorTyped
  <2>3. \A b \in Books : AtRest(b) => AtRest(b)'
    BY <2>1, RestOfSame
  <2>4. ASSUME NEW b \in Books, AtWork(b) PROVE AtWork(b)'
    BY <2>1, <2>4 DEF AtWork, WriteOk, PageOk, ContextsOk, SavedOk, DraftOk, DraftApart, DraftIds, AtRest, EmbeddedOk,
       HasRows, HasRow, Excused, RowsOk, RowsAdded, RowsOnce, NewRow, HasChunk, Fits, ChunksArePages, ChunksOf, Eligible,
       FitsIds, Kept, Current
  <2> QED
    BY <2>1, <2>2, <2>3, <2>4 DEF VectorInv
<1>2. CASE \E b \in Books : Publish(b) \/ StartBook(b) \/ StartPage(b) \/ StartSealed(b) \/ Recheck(b) \/ StartContexts(b)
  BY <1>2, VectorPublish, VectorStarts, VectorRecheck, VectorStartContexts
<1>3. CASE Snapshot \/ Close \/ Wipe \/ Draft \/ Clear \/ Add \/ Commit
  BY <1>3, VectorSnapshot, VectorClose, VectorWipe, VectorDraft, VectorClear, VectorAdd, VectorCommit
<1>4. CASE NoContext \/ Unembed \/ Embed \/ Record \/ EndContexts
  BY <1>4, VectorNoContext, VectorUnembed, VectorEmbed, VectorRecord, VectorEnds
<1>5. CASE Raise \/ BatchRaises \/ RollBack \/ Undo \/ Restore \/ UndoRaises \/ Crash
  BY <1>5, VectorEnds, VectorBatchRaises, VectorRollBack, VectorUndo, VectorRestore
<1> QED
  BY <1>1, <1>2, <1>3, <1>4, <1>5 DEF Next

\* A set whose elements are equal has at most one.
LEMMA AtMostOne ==
    ASSUME NEW S, \A x, y \in S : x = y PROVE Cardinality(S) \in 0 .. 1 /\ (S # {} => Cardinality(S) = 1)
<1>1. CASE S = {}
  BY <1>1, FS_EmptySet
<1>2. CASE S # {}
  <2>1. PICK x \in S : TRUE
    BY <1>2
  <2>2. S = {x}
    BY <2>1
  <2>3. Cardinality({x}) = 1
    BY FS_Singleton
  <2> QED
    BY <2>2, <2>3
<1> QED
  BY <1>1, <1>2

\* Chunks that are those of the pages are current.
LEMMA ChunksAreCurrent ==
    ASSUME VectorTyped, ChunksOk, NEW b \in Books, ChunksArePages(b) PROVE ChunksCurrent(b)
<1> DEFINE f == [c \in ChunksOf(b) |-> c.page]
<1>1. {<<c.page, c.text>> : c \in ChunksOf(b)} = {<<p, pages[b][p]>> : p \in Eligible(b)}
  BY DEF ChunksArePages
<1>2. f \in [ChunksOf(b) -> Eligible(b)] /\ \A c \in ChunksOf(b) : f[c] = c.page
  BY DEF ChunksArePages
<1>3. \A c, d \in ChunksOf(b) : c.page = d.page => c = d
  BY DEF ChunksOk, ChunksOf
<1>4. \A p \in Eligible(b) : \E c \in ChunksOf(b) : c.page = p
  BY DEF ChunksArePages
<1> HIDE DEF f
<1>5. f \in Injection(ChunksOf(b), Eligible(b))
  BY <1>2, <1>3 DEF Injection, IsInjective
<1>6. f \in Surjection(ChunksOf(b), Eligible(b))
  BY <1>2, <1>4 DEF Surjection
<1>7. IsFiniteSet(Eligible(b))
  <2>1. Eligible(b) \in SUBSET PageNos
    BY PagesAre DEF Eligible
  <2>2. 1 \in Int /\ MaxPages \in Int
    BY ChunkIndexAssumption
  <2>3. IsFiniteSet(PageNos)
    BY <2>2, FS_Interval DEF PageNos
  <2> QED
    BY <2>1, <2>3, FS_Subset
<1>8. Cardinality(ChunksOf(b)) = Cardinality(Eligible(b))
  BY <1>5, <1>6, <1>7, FS_Injection
<1> QED
  BY <1>1, <1>8 DEF ChunksCurrent

\* The invariant makes the stores agree.
LEMMA StoresAreAgreed == VectorInv => StoresAgree
<1> SUFFICES ASSUME VectorInv, NEW b \in Books, Trusted(b)
             PROVE  /\ ChunksCurrent(b)
                    /\ VectorsMatch(b, IF "unembedded" \in harm[b] THEN {c \in ChunksOf(b) : ~c.ctx} ELSE {})
                    /\ \A c \in ChunksOf(b) : c.ctx => \A r \in VectorFor(c) : r.ctx
  BY DEF StoresAgree
<1>1. VectorTyped /\ ChunksOk /\ MarkOk
  BY DEF VectorInv
<1>2. indexed[b] /\ harm[b] \subseteq {"unembedded"} /\ op = Idle
  BY <1>1 DEF Trusted, VectorTyped, Operations
<1>3. AtRest(b)
  BY <1>2 DEF VectorInv
<1>4. RowsOk(b) /\ HasRows(b)
  BY <1>2, <1>3 DEF AtRest, EmbeddedOk
<1>5. ChunksCurrent(b)
  BY <1>1, <1>2, ChunksAreCurrent DEF MarkOk
<1> DEFINE owed == IF "unembedded" \in harm[b] THEN {c \in ChunksOf(b) : ~c.ctx} ELSE {}
<1>6. \A r \in DOMAIN VectorsOf(b) :
        vectors[r] = 1 /\ \E c \in ChunksOf(b) : c.id = r.id /\ c.page = r.page /\ c.text = r.text
  BY <1>4 DEF VectorsOf, Filter, RowsOk, HasChunk, Fits, ChunksOf
<1>7. ASSUME NEW c \in ChunksOf(b) PROVE Cardinality(VectorFor(c)) \in (IF c \in owed THEN 0..1 ELSE {1})
  <2>1. \A r, s \in VectorFor(c) : r = s
    BY <1>4, <1>7 DEF VectorFor, RowsOk, RowsOnce, ChunksOf
  <2>2. Cardinality(VectorFor(c)) \in 0 .. 1 /\ (VectorFor(c) # {} => Cardinality(VectorFor(c)) = 1)
    BY <2>1, AtMostOne
  <2>3. c \notin owed => VectorFor(c) # {}
    BY <1>4, <1>7 DEF HasRows, HasRow, Excused, VectorFor
  <2> QED
    BY <2>2, <2>3
<1>8. VectorsMatch(b, owed)
  <2> HIDE DEF owed
  <2> QED
    BY <1>6, <1>7 DEF VectorsMatch
<1>9. ASSUME NEW c \in ChunksOf(b), c.ctx, NEW r \in VectorFor(c) PROVE r.ctx
  <2>1. PICK d \in chunks : Fits(r, d)
    BY <1>4, <1>9 DEF VectorFor, RowsOk, HasChunk, ChunksOf
  <2>2. d = c
    BY <1>1, <1>9, <2>1 DEF ChunksOk, ChunksOf, VectorFor, Fits
  <2> QED
    BY <1>9, <2>1, <2>2 DEF Fits
<1> QED
  BY <1>5, <1>8, <1>9

\* The invariant types the variables.
LEMMA VectorsAreTyped == VectorInv => TypeOK
<1> SUFFICES ASSUME VectorInv PROVE TypeOK
  OBVIOUS
<1>1. VectorTyped /\ ChunksOk
  BY DEF VectorInv
<1> DEFINE f == [c \in chunks |-> c.id]
<1>2. /\ f \in [chunks -> IdsOf(chunks)] /\ (\A c \in chunks : f[c] = c.id)
      /\ \A i \in IdsOf(chunks) : \E c \in chunks : f[c] = i
  BY DEF IdsOf
<1> HIDE DEF f
<1>3. f \in Injection(chunks, IdsOf(chunks)) /\ f \in Surjection(chunks, IdsOf(chunks))
  BY <1>1, <1>2 DEF ChunksOk, Injection, IsInjective, Surjection
<1>4. IsFiniteSet(IdsOf(chunks))
  <2>1. 1 \in Int /\ MaxId \in Int
    BY ChunkIndexAssumption
  <2>2. IsFiniteSet(1 .. MaxId)
    BY <2>1, FS_Interval
  <2>3. IdsOf(chunks) \in SUBSET (1 .. MaxId)
    BY <1>1 DEF IdsOf, VectorTyped, Rows
  <2> QED
    BY <2>2, <2>3, FS_Subset
<1>5. Cardinality(IdsOf(chunks)) = Cardinality(chunks)
  BY <1>3, <1>4, FS_Injection
<1> QED
  BY <1>1, <1>5 DEF VectorTyped, TypeOK

\* A restored page has the vectors it had before the rebuild.
LEMMA RestoreRestores ==
    ASSUME VectorInv, NEW b \in Books, Restore, op.book = b, op.was, ~op.raced, harm[b] = {},
           \A c \in Books : "orphan" \notin harm[c]
    PROVE  VectorsMatch(b, {})'
<1>1. /\ PageOk(b) /\ SavedOk(b) /\ RowsOk(b)' /\ op.saved \subseteq Rows
      /\ DOMAIN vectors' = DOMAIN vectors \cup op.saved
  BY RestoreIs
<1>2. chunks' = chunks
  BY DEF Restore
<1>3. ASSUME NEW c \in chunks, c.book = b PROVE \E r \in DOMAIN vectors' : r.book = b /\ r.id = c.id
  <2>1. CASE c.page \in op.scope
    <3>1. c.id \in op.old
      BY <1>1, <1>3, <2>1 DEF SavedOk
    <3>2. PICK r \in op.saved : r.id = c.id
      BY <1>1, <3>1 DEF SavedOk
    <3>3. r.book = b
      <4>1. r.book \in Books /\ (r.book # b => "orphan" \in harm[r.book])
        BY <1>1, <3>2 DEF SavedOk, Rows
      <4> QED
        BY <4>1
    <3> QED
      BY <1>1, <3>2, <3>3
  <2>2. CASE c.page \notin op.scope
    <3>1. HasRow(c) \/ Excused(b, c)
      BY <1>1, <1>3, <2>2 DEF PageOk, ChunksOf
    <3>2. HasRow(c)
      BY <3>1 DEF Excused
    <3> QED
      BY <1>1, <1>3, <3>2 DEF HasRow
  <2> QED
    BY <2>1, <2>2
<1> DEFINE rowsFor(c) == {r \in DOMAIN vectors' : r.book = c.book /\ r.id = c.id}
<1>4. ASSUME NEW c \in chunks, c.book = b PROVE Cardinality(rowsFor(c)) = 1
  <2>1. \A r, s \in rowsFor(c) : r = s
    BY <1>1, <1>4 DEF RowsOk, RowsOnce
  <2>2. rowsFor(c) # {}
    BY <1>3, <1>4
  <2> HIDE DEF rowsFor
  <2> QED
    BY <2>1, <2>2, AtMostOne
<1>5. \A r \in DOMAIN vectors' : r.book = b =>
        vectors'[r] = 1 /\ \E c \in chunks' : c.book = b /\ c.id = r.id /\ c.page = r.page /\ c.text = r.text
  BY <1>1 DEF RowsOk, HasChunk, Fits
<1>6. (\A r \in DOMAIN VectorsOf(b) :
        vectors[r] = 1 /\ \E c \in ChunksOf(b) : c.id = r.id /\ c.page = r.page /\ c.text = r.text)'
  BY <1>5 DEF VectorsOf, Filter, ChunksOf
<1>7. \A c : VectorFor(c)' = rowsFor(c)
  BY DEF VectorFor
<1>8. (\A c \in ChunksOf(b) : Cardinality(VectorFor(c)) = 1)'
  <2> HIDE DEF rowsFor
  <2> QED
    BY <1>2, <1>4, <1>7 DEF ChunksOf
<1> QED
  BY <1>6, <1>8 DEF VectorsMatch

\* A book marked as indexed has the chunks of its pages and LanceDB their rows,
\* whatever was rebuilt, embedded, published or cut short before, but for the
\* harms that are recorded; and a page rebuild that fails and compensates
\* leaves the rows that it found (rebuild_page_from_pages,
\* _compensate_failed_update).
THEOREM VectorsAgree == Spec => [](TypeOK /\ StoresAgree) /\ FailedPageIsRestored
<1>1. Init => VectorInv
  BY VectorInit
<1>2. VectorInv /\ [Next]_vars => VectorInv'
  BY VectorStep
<1>3. VectorInv => TypeOK /\ StoresAgree
  BY VectorsAreTyped, StoresAreAgreed
<1>4. VectorInv /\ [Next]_vars =>
        [\A b \in Books :
            /\ Restore /\ op.book = b /\ op.was /\ ~op.raced /\ harm[b] = {}
            /\ \A c \in Books : "orphan" \notin harm[c]
            => VectorsMatch(b, {})']_vars
  BY RestoreRestores
<1> QED
  BY <1>1, <1>2, <1>3, <1>4, PTL DEF Spec, FailedPageIsRestored

-----------------------------------------------------------------------------
(* Indexes and content side by side. *)

\* A step of the composition is one of its parts and a stutter of the others.
LEMMA IndexesAreAll == IndexesSpec => Spec /\ FtsSpec /\ ContentSpec
<1>1. IndexesInit => Init /\ FtsInit /\ ContentInit
  BY DEF IndexesInit
<1>2. [IndexesNext]_indexesVars => [Next]_vars /\ [FtsNext]_ftsVars /\ [ContentNext]_contentVars
  BY DEF IndexesNext, indexesVars
<1> QED
  BY <1>1, <1>2, PTL DEF IndexesSpec, Spec, FtsSpec, ContentSpec

\* The indexes and the generated content keep their types.
THEOREM IndexesAreTyped == IndexesSpec => []IndexesTypeOK
<1>1. TypeOK /\ FtsTypeOK /\ ContentTypeOK => IndexesTypeOK
  BY DEF IndexesTypeOK
<1>2. FtsSpec => []FtsTypeOK
  BY FtsInvInit, FtsInvStep, FtsInvAgrees, PTL DEF FtsSpec
<1>3. ContentSpec => []ContentTypeOK
  BY ContentInvInit, ContentInvStep, ContentInvAgrees, PTL DEF ContentSpec
<1> QED
  BY <1>1, <1>2, <1>3, IndexesAreAll, VectorsAgree, PTL

\* Both indexes agree with the pages, and a failed page rebuild puts back what
\* it has taken, while everything else is rebuilt.
THEOREM IndexesKeepAgreeing == IndexesSpec => []IndexesAgree /\ FailedPageIsRestored
<1>1. StoresAgree /\ FtsAgrees => IndexesAgree
  BY DEF IndexesAgree
<1> QED
  BY <1>1, IndexesAreAll, VectorsAgree, FtsIsCurrent, PTL

\* The full-text index and the content are kept while everything else is
\* rebuilt.
THEOREM IndexesKeepContent == IndexesSpec => [](FtsAgrees /\ ContentAgrees) /\ NamesAreKept
BY IndexesAreAll, FtsIsCurrent, ContentIsOfOneText, KnownNamesStay, PTL

=============================================================================
