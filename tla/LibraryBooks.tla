---------------------------- MODULE LibraryBooks ---------------------------
(***************************************************************************)
(* The books of a library source, each a PDF, a cover and a directory of   *)
(* images under one name, and their rows in books_meta of meta2.db, whose  *)
(* key is the name too (services/file_manager.py, meta_store.py, the       *)
(* endpoints of routers/library.py, meta/ and series.py).  A renaming or   *)
(* deletion changes the files one by one and the row afterwards; an edit   *)
(* changes a row only.  The requests run in server threads; rows are read  *)
(* and written under a lock per source, files are under none.              *)
(*                                                                         *)
(* A request is about the book that has the name when it is sent.  An edit *)
(* does not look for one: it makes a row for a name that has none, and the *)
(* next book under that name finds the row.                                *)
(***************************************************************************)
EXTENDS Integers, Sequences, FiniteSets

CONSTANTS
    BookNames,
    BookCount,          \* books, the i-th under the i-th name at first
    Fields,             \* the groups of columns that one edit writes
    Handlers,           \* server threads, numbered
    MaxRequests,        \* bound of the requests
    MaxLibraryFaults    \* bound of the file operations that fail and of the crashes

NoOne == 0

ASSUME LibraryAssumption ==
    /\ BookNames \subseteq Nat
    /\ BookCount \in Nat /\ 1 .. BookCount \subseteq BookNames
    /\ Handlers \subseteq Nat \ {NoOne}
    /\ MaxRequests \in Nat /\ MaxLibraryFaults \in Nat

LibraryBook == 1 .. BookCount
LibraryEdits == LibraryBook \X Fields
StrayEdits == {NoOne} \X Fields         \* those of a name without a book

VARIABLES
    parts,              \* part -> name -> the book it belongs to
    rows,               \* name -> the edits that its row holds, each of a book or NoOne and a field
    metaLock,           \* the handler that holds the lock of the rows
    request,            \* handler -> the request it serves
    acked,              \* the edits of books that were confirmed; history only
    crossed,            \* books whose requests met each other or broke off; history only
    requests,           \* number of requests so far
    libraryFaults

libraryVars == <<parts, rows, metaLock, request, acked, crossed, requests, libraryFaults>>

\* In the order in which they are renamed and removed.
FileParts == <<"pdf", "cover", "images">>
AtRest == [op |-> "none", at |-> "rest"]

\* The images or, for a book without, the PDF make a book.
BookAt(n) == IF parts["images"][n] # NoOne THEN parts["images"][n] ELSE parts["pdf"][n]

LibraryInit ==
    /\ \E printed \in BOOLEAN :
          parts = [p \in {"pdf", "cover", "images"} |->
                    [n \in BookNames |-> IF n \in LibraryBook /\ (p = "pdf" => printed) THEN n ELSE NoOne]]
    /\ rows = [n \in BookNames |-> {}]
    /\ metaLock = NoOne
    /\ request = [h \in Handlers |-> AtRest]
    /\ acked = {} /\ crossed = {} /\ requests = 0 /\ libraryFaults = 0

Sets(h, to) == request' = [request EXCEPT ![h] = to]
StepTo(h, at) == request' = [request EXCEPT ![h].at = at]
Active(h) == request[h] # AtRest
Breaks == libraryFaults < MaxLibraryFaults /\ libraryFaults' = libraryFaults + 1

Names(r) == IF r.op = "rename" THEN {r.name, r.new} ELSE {r.name}

\* Requests meet when they are about the same name and one of them moves it.
Meets(r) ==
    {h \in Handlers : /\ Active(h)
                      /\ {r.op, request[h].op} # {"edit"}
                      /\ Names(r) \cap Names(request[h]) # {}}

Concerned(rs) == {r.book : r \in rs} \cup {BookAt(n) : n \in UNION {Names(r) : r \in rs}}

\* Any free thread may take a request; the first one stands for all.
Ask(h, r) ==
    /\ request[h] = AtRest /\ \A k \in Handlers : k < h => Active(k)
    /\ requests < MaxRequests
    /\ requests' = requests + 1
    /\ Sets(h, r)
    /\ crossed' = crossed \cup
          (IF Meets(r) = {} THEN {} ELSE Concerned({r} \cup {request[k] : k \in Meets(r)}) \ {NoOne})
    /\ UNCHANGED <<parts, rows, metaLock, acked, libraryFaults>>

Asked(op, at, n, m, f) ==
    [op |-> op, at |-> at, name |-> n, new |-> m, book |-> BookAt(n), field |-> f,
     todo |-> FileParts, moved |-> <<>>, seen |-> [k \in BookNames |-> {}]]

AskEdit(h) == \E n \in BookNames, f \in Fields : Ask(h, Asked("edit", "lock", n, n, f))
AskDelete(h) == \E n \in BookNames : Ask(h, Asked("delete", "check", n, n, "none"))
AskRename(h) ==
    \E n, m \in BookNames : n # m /\ Ask(h, Asked("rename", "check", n, m, "none"))
-----------------------------------------------------------------------------
(***************************************************************************)
(* Files.                                                                  *)
(***************************************************************************)
Exists(n) == parts["pdf"][n] # NoOne \/ parts["images"][n] # NoOne

\* For a renaming, only the PDF of the new name is looked for.
LookAtFiles(h) ==
    /\ request[h].at = "check"
    /\ IF Exists(request[h].name) /\ (request[h].op = "rename" => parts["pdf"][request[h].new] = NoOne)
       THEN StepTo(h, "files")
       ELSE Sets(h, AtRest)
    /\ UNCHANGED <<parts, rows, metaLock, acked, crossed, requests, libraryFaults>>

Part(h) == Head(request[h].todo)
Here(h) == parts[Part(h)][request[h].name]

\* A directory of images is not moved onto another one; a file replaces a file.
Blocked(h) == Part(h) = "images" /\ parts["images"][request[h].new] # NoOne

Moved(part, n, m) ==
    parts' = [parts EXCEPT ![part][m] = parts[part][n], ![part][n] = NoOne]

RenamePart(h) ==
    /\ request[h].op = "rename" /\ request[h].at = "files" /\ request[h].todo # <<>>
    /\ IF Here(h) = NoOne
       THEN Sets(h, [request[h] EXCEPT !.todo = Tail(@)]) /\ UNCHANGED parts
       ELSE /\ ~Blocked(h)
            /\ Moved(Part(h), request[h].name, request[h].new)
            /\ Sets(h, [request[h] EXCEPT !.todo = Tail(@), !.moved = <<Part(h)>> \o @])
    /\ UNCHANGED <<rows, metaLock, acked, crossed, requests, libraryFaults>>

\* A rename raises, because of another directory or for any other reason.
RenameFails(h) ==
    /\ request[h].op = "rename" /\ request[h].at = "files" /\ request[h].todo # <<>>
    /\ Here(h) # NoOne
    /\ (Blocked(h) /\ UNCHANGED libraryFaults) \/ Breaks
    /\ StepTo(h, "back")
    /\ UNCHANGED <<parts, rows, metaLock, acked, crossed, requests>>

\* What was renamed is renamed back, the last first; what cannot be is logged.
BackButLast(h) == IF request[h].moved = <<>> THEN <<>> ELSE Tail(request[h].moved)     \* slip
Back(h) == request[h].moved

RollBack(h) ==
    /\ request[h].at = "back"
    /\ IF Back(h) = <<>>
       THEN Sets(h, AtRest) /\ UNCHANGED parts
       ELSE LET part == Head(Back(h)) IN
            /\ IF parts[part][request[h].new] = NoOne
                  \/ (part = "images" /\ parts[part][request[h].name] # NoOne)
               THEN UNCHANGED parts
               ELSE Moved(part, request[h].new, request[h].name)
            /\ Sets(h, [request[h] EXCEPT !.moved = Tail(Back(h))])
    /\ UNCHANGED <<rows, metaLock, acked, crossed, requests, libraryFaults>>

\* A cover or images that cannot be removed stay; the deletion goes on.  It ends
\* when the PDF cannot be removed.
DeletePart(h) ==
    /\ request[h].op = "delete" /\ request[h].at = "files" /\ request[h].todo # <<>>
    /\ \/ /\ parts' = [parts EXCEPT ![Part(h)][request[h].name] = NoOne]
          /\ Sets(h, [request[h] EXCEPT !.todo = Tail(@)])
          /\ UNCHANGED <<crossed, libraryFaults>>
       \/ /\ Here(h) # NoOne
          /\ Breaks
          /\ Sets(h, IF Part(h) = "pdf" THEN AtRest ELSE [request[h] EXCEPT !.todo = Tail(@)])
          /\ crossed' = IF Part(h) = "pdf" THEN crossed ELSE crossed \cup {Here(h)}
          /\ UNCHANGED parts
    /\ UNCHANGED <<rows, metaLock, acked, requests>>
-----------------------------------------------------------------------------
(***************************************************************************)
(* Rows: update_meta_locked reads them all, applies the change to its copy *)
(* and writes the rows that it changed.                                    *)
(***************************************************************************)
FilesDone(h) == request[h].at = "lock" \/ (request[h].at = "files" /\ request[h].todo = <<>>)

LockAnyway == TRUE                                     \* slip: no lock
LockIsFree == metaLock = NoOne

ReadRows(h) ==
    /\ FilesDone(h)
    /\ LockIsFree
    /\ metaLock' = h
    /\ Sets(h, [request[h] EXCEPT !.at = "write", !.seen = rows])
    /\ UNCHANGED <<parts, rows, acked, crossed, requests, libraryFaults>>

ChangedAtOldKey(r) ==                                  \* slip: the key does not follow the name
    IF r.op = "edit" THEN [r.seen EXCEPT ![r.name] = @ \cup {<<r.book, r.field>>}] ELSE r.seen
ChangedRows(r) ==
    CASE r.op = "edit"   -> [r.seen EXCEPT ![r.name] = @ \cup {<<r.book, r.field>>}]
      [] r.op = "delete" -> [r.seen EXCEPT ![r.name] = {}]
      [] r.op = "rename" -> IF r.seen[r.name] = {} THEN r.seen
                            ELSE [r.seen EXCEPT ![r.new] = r.seen[r.name], ![r.name] = {}]

RowsWritten(r) == [n \in BookNames |-> IF ChangedRows(r)[n] # r.seen[n] THEN ChangedRows(r)[n] ELSE rows[n]]

WriteRows(h) ==
    /\ request[h].at = "write"
    /\ rows' = RowsWritten(request[h])
    /\ metaLock' = IF metaLock = h THEN NoOne ELSE metaLock
    /\ acked' = CASE request[h].op = "edit"   -> acked \cup ({<<request[h].book, request[h].field>>} \cap LibraryEdits)
                  [] request[h].op = "delete" -> {e \in acked : e[1] # request[h].book}
                  [] request[h].op = "rename" -> acked
    /\ Sets(h, AtRest)
    /\ UNCHANGED <<parts, crossed, requests, libraryFaults>>

\* The server dies; what is not committed is gone, what is renamed or removed
\* stays so.
ServerDies ==
    /\ Breaks
    /\ request' = [h \in Handlers |-> AtRest]
    /\ metaLock' = NoOne
    /\ crossed' = (crossed \cup Concerned({request[h] : h \in {k \in Handlers :
                       Active(k) /\ request[k].op # "edit"}})) \ {NoOne}
    /\ UNCHANGED <<parts, rows, acked, requests>>

LibraryNext ==
    \/ \E h \in Handlers :
          \/ AskEdit(h) \/ AskDelete(h) \/ AskRename(h)
          \/ LookAtFiles(h) \/ RenamePart(h) \/ RenameFails(h) \/ RollBack(h) \/ DeletePart(h)
          \/ ReadRows(h) \/ WriteRows(h)
    \/ ServerDies

LibrarySpec == LibraryInit /\ [][LibraryNext]_libraryVars
-----------------------------------------------------------------------------
LibraryTypeOK ==
    /\ parts \in [{"pdf", "cover", "images"} -> [BookNames -> {NoOne} \cup LibraryBook]]
    /\ rows \in [BookNames -> SUBSET (LibraryEdits \cup StrayEdits)]
    /\ metaLock \in {NoOne} \cup Handlers
    /\ \A h \in Handlers : request[h].at \in {"rest", "check", "files", "back", "lock", "write"}
    /\ acked \subseteq LibraryEdits /\ crossed \subseteq LibraryBook
    /\ requests \in 0 .. MaxRequests /\ libraryFaults \in 0 .. MaxLibraryFaults

\* The requests that are renaming or deleting b just now.
Moving(b) == \E h \in Handlers : Active(h) /\ request[h].op # "edit" /\ b \in Concerned({request[h]})

Settled == {b \in LibraryBook \ crossed : ~Moving(b)}

\* Whatever overlaps elsewhere and whatever fails, the files of a book stay
\* together: a renaming that raises on the way, onto a name that is taken for
\* instance, is taken back (rename_with_assets).
FilesStayTogether ==
    \A b \in Settled : \A p, q \in DOMAIN parts : \A n, m \in BookNames :
        parts[p][n] = b /\ parts[q][m] = b => n = m

\* No overlapping edit, renaming or deletion of other books loses a confirmed
\* edit, and the row of a book follows it (update_meta_locked, rename_item).
EditsAreKept ==
    \A b \in Settled : \A n \in BookNames :
        BookAt(n) = b => {e \in acked : e[1] = b} \subseteq rows[n]

\* Without requests that meet, a row holds edits of the book that has its name,
\* and of no other, except those that were made when the name had no book
\* (update_meta_locked, rename_item, delete_pdfs).
RowsAreOwn ==
    crossed = {} => \A n \in BookNames :
        (\A h \in Handlers : Active(h) => n \notin Names(request[h]))
            => \A e \in rows[n] : e[1] = BookAt(n) \/ e \in StrayEdits

LibraryAgrees == FilesStayTogether /\ EditsAreKept /\ RowsAreOwn
=============================================================================
