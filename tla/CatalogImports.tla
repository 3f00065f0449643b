--------------------------- MODULE CatalogImports ---------------------------
(***************************************************************************)
(* The imports of the Kindle catalogue (services/kindle_catalog/imports    *)
(* .py, kindle_info_importer.py, autobuy_importer.py, enrichment_files.py, *)
(* import_run_lifecycle.py).  A run takes its files one after the other:   *)
(* it hashes a file, skips it if a file of that name and hash was imported *)
(* before, reads it and writes its rows and the hash in one transaction.   *)
(* Requests overlap, and the user puts new exports into the folder.        *)
(*                                                                         *)
(* A content says a value or nothing (0) of each ASIN.  Purchases stand    *)
(* for the three kinds of orders, the dates for every kind that only fills *)
(* what is empty, the genres for every kind that replaces.                 *)
(***************************************************************************)
EXTENDS Integers, Sequences, FiniteSets

CONSTANTS Asins, MaxValue, Importers, MaxFileChanges, MaxImportRuns, MaxImportBreaks

ASSUME ImportAssumption ==
    MaxValue \in Nat /\ MaxFileChanges \in Nat /\ MaxImportRuns \in Nat /\ MaxImportBreaks \in Nat

Files == {"purchases", "dates", "genres", "autobuy"}

FilesOf == [orders |-> <<"purchases">>, info |-> <<"dates", "genres">>, autobuy |-> <<"autobuy">>]

Exports == [Asins -> 0 .. MaxValue]
Nothing == [a \in Asins |-> 0]

VARIABLES
    file,        \* file -> its content in the folder
    table,       \* file -> what the tables hold of its kind
    recorded,    \* rows of imported_files: [of, digest], and the rows it came with; history
    importRuns,  \* rows of import_runs: state and, as history, the hashes it took
    importer,    \* request -> where it is
    lapses,      \* history: file -> why the tables may differ from it
    fileChanges, importBreaks

importVars == <<file, table, recorded, importRuns, importer, lapses, fileChanges, importBreaks>>

NoImport == [at |-> "rest"]

\* The orders may have been imported before.
ImportInit ==
    /\ \E orders \in Exports :
        /\ file = [f \in Files |-> IF f = "purchases" THEN orders ELSE Nothing]
        /\ table = file
        /\ recorded = IF orders = Nothing THEN {}
                      ELSE {[of |-> "purchases", digest |-> orders, content |-> orders]}
    /\ importRuns = <<>>
    /\ importer = [t \in Importers |-> NoImport]
    /\ lapses = [f \in Files |-> {}]
    /\ fileChanges = 0 /\ importBreaks = 0

Goes(t, step) == importer' = [importer EXCEPT ![t] = step]
RunBecomes(n, state) == importRuns' = [importRuns EXCEPT ![n].state = state]

\* The current file of a request, and the files of its kind that are recorded.
At(t) == Head(importer[t].todo)
RecordsOf(f) == {r \in recorded : r.of = f}
-----------------------------------------------------------------------------
StartImport(t, kind) ==
    /\ importer[t] = NoImport
    /\ Len(importRuns) < MaxImportRuns
    /\ importRuns' = Append(importRuns, [kind |-> kind, state |-> "running", took |-> {}])
    /\ Goes(t, [at |-> "hash", run |-> Len(importRuns) + 1, todo |-> FilesOf[kind]])
    /\ UNCHANGED <<file, table, recorded, lapses, fileChanges, importBreaks>>

Hash(t) ==
    /\ importer[t].at = "hash" /\ importer[t].todo # <<>>
    /\ Goes(t, [at |-> "look", run |-> importer[t].run, todo |-> importer[t].todo,
                digest |-> file[At(t)]])
    /\ UNCHANGED <<file, table, recorded, importRuns, lapses, fileChanges, importBreaks>>

\* With the file behind it, a request goes on with the next one.
FileDone(t) ==
    /\ importRuns' = [importRuns EXCEPT ![importer[t].run].took = @ \cup {<<At(t), importer[t].digest>>}]
    /\ Goes(t, [at |-> "hash", run |-> importer[t].run, todo |-> Tail(importer[t].todo)])

IsImportedByName(f, digest) == RecordsOf(f) # {}        \* slip: the hash is not compared
IsImported(f, digest) == \E r \in RecordsOf(f) : r.digest = digest

Look(t) ==
    /\ importer[t].at = "look"
    /\ IF IsImported(At(t), importer[t].digest)
       THEN FileDone(t)
       ELSE /\ Goes(t, [importer[t] EXCEPT !.at = "read"])
            /\ UNCHANGED importRuns
    /\ UNCHANGED <<file, table, recorded, lapses, fileChanges, importBreaks>>

ReadFile(t) ==
    /\ importer[t].at = "read"
    /\ Goes(t, [at |-> "write", run |-> importer[t].run, todo |-> importer[t].todo, digest |-> importer[t].digest,
                content |-> file[At(t)]])
    /\ UNCHANGED <<file, table, recorded, importRuns, lapses, fileChanges, importBreaks>>

\* Only the orders create books.
Known(a) == table["purchases"][a] # 0

WrittenOnce(f, content) ==                               \* slip: an old value is never replaced
    [table EXCEPT ![f] = [a \in Asins |-> IF @[a] = 0 THEN content[a] ELSE @[a]]]

\* An order and a date stay as they are, genres are replaced for the books that
\* are mentioned, the subscriptions as a whole.
Written(f, content) ==
    [table EXCEPT ![f] = [a \in Asins |->
        CASE f = "purchases" -> IF @[a] = 0 THEN content[a] ELSE @[a]
          [] f = "dates"     -> IF @[a] = 0 /\ Known(a) THEN content[a] ELSE @[a]
          [] f = "genres"    -> IF content[a] # 0 /\ Known(a) THEN content[a] ELSE @[a]
          [] f = "autobuy"   -> content[a]]]

LapsesOf(t, f, content) ==
    {l \in {"changed", "returned", "unknown"} :
        CASE l = "changed" -> content # importer[t].digest
          [] l = "returned" -> IsImported(f, file[f])
          [] l = "unknown" -> f \in {"dates", "genres"} /\ \E a \in Asins : content[a] # 0 /\ ~Known(a)}

\* The transaction of a file; imported_files has a hash of a name once.
Write(t) ==
    /\ importer[t].at = "write"
    /\ LET f == At(t)
           content == importer[t].content
       IN  /\ ~\E r \in RecordsOf(f) : r.digest = importer[t].digest
           /\ table' = Written(f, content)
           /\ recorded' = recorded \cup {[of |-> f, digest |-> importer[t].digest, content |-> content]}
           /\ lapses' = [lapses EXCEPT ![f] = LapsesOf(t, f, content)]
    /\ FileDone(t)
    /\ UNCHANGED <<file, fileChanges, importBreaks>>

AfterErrorKept(t) == IF importer[t].at = "write" THEN Written(At(t), importer[t].content) ELSE table
                                                        \* slip: committed without its record
AfterError(t) == table

\* The file cannot be read or written, or was recorded by another request.
ImportFails(t) ==
    /\ importer[t].at \in {"look", "read", "write"}
    /\ \/ /\ importer[t].at = "write" /\ \E r \in RecordsOf(At(t)) : r.digest = importer[t].digest
          /\ UNCHANGED importBreaks
       \/ /\ importBreaks < MaxImportBreaks
          /\ importBreaks' = importBreaks + 1
    /\ table' = AfterError(t)
    /\ RunBecomes(importer[t].run, "failed")
    /\ Goes(t, NoImport)
    /\ UNCHANGED <<file, recorded, lapses, fileChanges>>

EndImport(t) ==
    /\ importer[t].at = "hash" /\ importer[t].todo = <<>>
    /\ RunBecomes(importer[t].run, "succeeded")
    /\ Goes(t, NoImport)
    /\ UNCHANGED <<file, table, recorded, lapses, fileChanges, importBreaks>>

\* The server ends: the run stays 'running'.
StopImports ==
    /\ importBreaks < MaxImportBreaks
    /\ \E t \in Importers : importer[t] # NoImport
    /\ importer' = [t \in Importers |-> NoImport]
    /\ importBreaks' = importBreaks + 1
    /\ UNCHANGED <<file, table, recorded, importRuns, lapses, fileChanges>>

\* The user puts a new export into the folder; it may be one that was there before.
Export(f) ==
    /\ fileChanges < MaxFileChanges
    /\ \E content \in Exports \ {file[f]} :
        /\ file' = [file EXCEPT ![f] = content]
        /\ lapses' = [lapses EXCEPT ![f] =
              IF \E r \in RecordsOf(f) : r.digest = content THEN @ \cup {"returned"} ELSE @]
    /\ fileChanges' = fileChanges + 1
    /\ UNCHANGED <<table, recorded, importRuns, importer, importBreaks>>

ImportNext ==
    \/ StopImports
    \/ \E f \in Files : Export(f)
    \/ \E t \in Importers :
          \/ \E kind \in DOMAIN FilesOf : StartImport(t, kind)
          \/ Hash(t) \/ Look(t) \/ ReadFile(t) \/ Write(t) \/ ImportFails(t) \/ EndImport(t)

ImportSpec == ImportInit /\ [][ImportNext]_importVars
-----------------------------------------------------------------------------
ImportTypeOK ==
    /\ file \in [Files -> Exports] /\ table \in [Files -> Exports]
    /\ recorded \subseteq [of : Files, digest : Exports, content : Exports]
    /\ Len(importRuns) <= MaxImportRuns
    /\ \A n \in DOMAIN importRuns : importRuns[n].state \in {"running", "succeeded", "failed"}
    /\ \A t \in Importers : importer[t].at \in {"rest", "hash", "look", "read", "write"}
    /\ \A f \in Files : lapses[f] \subseteq {"changed", "returned", "unknown"}
    /\ fileChanges \in 0 .. MaxFileChanges /\ importBreaks \in 0 .. MaxImportBreaks

\* What the tables hold when they show a content.
Shows(f) ==
    CASE f \in {"purchases", "dates"} -> \A a \in Asins : file[f][a] # 0 => table[f][a] # 0
      [] f = "genres" -> \A a \in Asins : file[f][a] # 0 => table[f][a] = file[f][a]
      [] f = "autobuy" -> table[f] = file[f]

\* A file that further imports skip is in the tables, unless it changed under
\* the import, its book was unknown then, or another export was written after
\* it: the user went back to it, or a slower request had read the other one.
SkippedIsShown ==
    \A f \in Files : IsImported(f, file[f]) /\ lapses[f] = {} => Shows(f)

\* Nothing is in the tables that no recorded file said, however imports fail.
ShownIsRecorded ==
    \A f \in Files, a \in Asins :
        table[f][a] # 0 => \E r \in RecordsOf(f) : r.content[a] = table[f][a]

\* A run has succeeded when each of its files is recorded as it was hashed.
SucceededIsComplete ==
    \A n \in DOMAIN importRuns : importRuns[n].state = "succeeded" =>
        /\ {k[1] : k \in importRuns[n].took} = {FilesOf[importRuns[n].kind][i] : i \in DOMAIN FilesOf[importRuns[n].kind]}
        /\ \A k \in importRuns[n].took : \E r \in RecordsOf(k[1]) : r.digest = k[2]

ImportsAgree == SkippedIsShown /\ ShownIsRecorded /\ SucceededIsComplete
=============================================================================
