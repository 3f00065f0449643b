------------------------------ MODULE QaHistory ------------------------------
(***************************************************************************)
(* Questions about a book (routers/novel_db/qa.py, qa_history.py,          *)
(* qa_source_snapshot.py, qa_grounding.py, retrieval.py): a row is written *)
(* before the model is asked and closed by whatever ends the stream, if    *)
(* the database can be written then: a rebuild holds its write transaction *)
(* while it embeds a book, and SQLite gives up after 30 s.  With verified  *)
(* quotes an answer is saved only if the book still is what the quotes     *)
(* were checked against.  Publications and rebuilds change the book in     *)
(* between.  A request is one question; what it finds is every page.       *)
(***************************************************************************)
EXTENDS Naturals

CONSTANTS
    QaRequests,
    QaPages,
    MaxEditions,        \* bound of the publications and of the rebuilds
    MaxDeparted         \* bound of the deaths of the server and of the failures of its disk

ASSUME QaAssumption == MaxEditions \in Nat /\ MaxDeparted \in Nat

VARIABLES
    shelf,              \* the pages, the active run and books.indexed_at (0: NULL)
    rebuilt,            \* the last indexed_at
    busy,               \* does a rebuild hold the write transaction?
    asks,               \* request -> its position, its mode and what it read
    rows,               \* request -> its row of qa_history
    departed,           \* counted for the bound
    unclosed            \* requests that ended without a word to their row

qaVars == <<shelf, rebuilt, busy, asks, rows, departed, unclosed>>

NoAsk == [at |-> "idle"]
NoRow == [state |-> "none"]

QaInit ==
    /\ shelf = [text |-> [p \in QaPages |-> 0], run |-> 0, stamp |-> 1]
    /\ rebuilt = 1
    /\ busy = FALSE
    /\ asks = [r \in QaRequests |-> NoAsk]
    /\ rows = [r \in QaRequests |-> NoRow]
    /\ departed = 0
    /\ unclosed = {}

Sets(r, ask) == asks' = [asks EXCEPT ![r] = ask]
Leaves(r) == Sets(r, NoAsk)

\* A write waits for the transaction of a rebuild, or gives up after 30 s; the
\* disk may fail it, too.
Writes(r, row) ==
    /\ ~busy
    /\ rows' = IF rows[r].state = "deleted" THEN rows ELSE [rows EXCEPT ![r] = row]
WriteRefused ==
    \/ busy /\ UNCHANGED departed
    \/ departed < MaxDeparted /\ departed' = departed + 1
-----------------------------------------------------------------------------
\* require_not_locked; RagNotReady without a mark; the mode is a setting.
Ask(r) ==
    /\ asks[r] = NoAsk /\ rows[r] = NoRow
    /\ ~busy /\ shelf.stamp # 0
    /\ \E verified \in BOOLEAN : Sets(r, [at |-> "find", verified |-> verified, found |-> <<>>])
    /\ UNCHANGED <<shelf, rebuilt, busy, rows, departed, unclosed>>

\* _canonical_hits reads each page with the mark of its book.
Find(r) ==
    /\ asks[r].at = "find"
    /\ \E p \in QaPages \ DOMAIN asks[r].found :
           IF shelf.stamp = 0 THEN Leaves(r)
           ELSE Sets(r, [asks[r] EXCEPT !.found =
                    [q \in DOMAIN @ \cup {p} |-> IF q = p THEN shelf.text[p] ELSE @[q]]])
    /\ UNCHANGED <<shelf, rebuilt, busy, rows, departed, unclosed>>

\* freeze_qa_sources: the pages once more, the digest and the mark.
Freeze(r) ==
    /\ asks[r].at = "find" /\ DOMAIN asks[r].found = QaPages
    /\ IF asks[r].verified /\ (shelf.stamp = 0 \/ asks[r].found # shelf.text)
       THEN Leaves(r)
       ELSE Sets(r, [at |-> "start", verified |-> asks[r].verified, found |-> asks[r].found,
                     run |-> shelf.run, stamp |-> shelf.stamp])
    /\ UNCHANGED <<shelf, rebuilt, busy, rows, departed, unclosed>>

\* save_start; without the row the request fails.
SaveStart(r) ==
    /\ asks[r].at = "start"
    /\ Writes(r, [state |-> "open"])
    /\ Sets(r, [asks[r] EXCEPT !.at = "stream"])
    /\ UNCHANGED <<shelf, rebuilt, busy, departed, unclosed>>

StartRefused(r) ==
    /\ asks[r].at = "start"
    /\ WriteRefused
    /\ Leaves(r)
    /\ UNCHANGED <<shelf, rebuilt, busy, rows, unclosed>>

\* assert_qa_sources_current, in the transaction of save_finish.
CurrentMark(r) == shelf.stamp # 0                     \* slip: only that the book is available
Current(r) ==
    /\ shelf.stamp # 0 /\ shelf.stamp = asks[r].stamp
    /\ shelf.run = asks[r].run /\ shelf.text = asks[r].found

SaveFinish(r) ==
    /\ asks[r].at = "stream"
    /\ asks[r].verified => Current(r)
    /\ Writes(r, [state |-> "answered", text |-> asks[r].found])
    /\ Leaves(r)
    /\ UNCHANGED <<shelf, rebuilt, busy, departed, unclosed>>

\* The model, the quotes, the check of the sources or a write fails.
Fails(r) ==
    /\ asks[r].at = "stream"
    /\ Sets(r, [at |-> "failing"])
    /\ UNCHANGED <<shelf, rebuilt, busy, rows, departed, unclosed>>

ClosesSilent(r, state) == ~busy /\ UNCHANGED rows         \* slip: the row is left as it is
Closes(r, state) == Writes(r, [state |-> state])

\* save_error; the reader disconnects or is cancelled: save_finish.
BreakOff(r) ==
    /\ \/ asks[r].at = "failing" /\ Closes(r, "error")
       \/ asks[r].at = "stream" /\ Closes(r, "canceled")
    /\ Leaves(r)
    /\ UNCHANGED <<shelf, rebuilt, busy, departed, unclosed>>

\* The write of save_error, or that of a cancelled request, fails.
BreakOffRefused(r) ==
    /\ asks[r].at \in {"failing", "stream"}
    /\ WriteRefused
    /\ Leaves(r)
    /\ unclosed' = unclosed \cup {r}
    /\ UNCHANGED <<shelf, rebuilt, busy, rows>>

\* The reader is gone while a part is sent to it (GeneratorExit), or a plain
\* stream ends without its last event.
Cease(r) ==
    /\ asks[r].at = "stream"
    /\ Leaves(r)
    /\ unclosed' = unclosed \cup {r}
    /\ UNCHANGED <<shelf, rebuilt, busy, rows, departed>>

DeleteRow(r) ==
    /\ rows[r].state \notin {"none", "deleted"}
    /\ Writes(r, [state |-> "deleted"])
    /\ UNCHANGED <<shelf, rebuilt, busy, asks, departed, unclosed>>
-----------------------------------------------------------------------------
PublishEdition ==
    /\ ~busy /\ shelf.run < MaxEditions
    /\ \E changed \in SUBSET QaPages :
           shelf' = [text |-> [p \in QaPages |-> IF p \in changed THEN shelf.run + 1 ELSE shelf.text[p]],
                     run |-> shelf.run + 1, stamp |-> 0]
    /\ UNCHANGED <<rebuilt, busy, asks, rows, departed, unclosed>>

\* rebuild_from_pages: one write transaction around the embedding, which may fail.
StartReindex ==
    /\ ~busy /\ busy' = TRUE
    /\ rebuilt <= MaxEditions
    /\ UNCHANGED <<shelf, rebuilt, asks, rows, departed, unclosed>>

EndReindex ==
    /\ busy /\ busy' = FALSE
    /\ \/ /\ rebuilt' = rebuilt + 1
          /\ shelf' = [shelf EXCEPT !.stamp = rebuilt + 1]
       \/ UNCHANGED <<shelf, rebuilt>>
    /\ UNCHANGED <<asks, rows, departed, unclosed>>

ServerDies ==
    /\ departed < MaxDeparted /\ departed' = departed + 1
    /\ asks' = [r \in QaRequests |-> NoAsk]
    /\ busy' = FALSE
    /\ unclosed' = unclosed \cup {r \in QaRequests : rows[r].state = "open"}
    /\ UNCHANGED <<shelf, rebuilt, rows>>

QaNext ==
    \/ \E r \in QaRequests :
           \/ Ask(r) \/ Find(r) \/ Freeze(r) \/ SaveStart(r) \/ StartRefused(r) \/ SaveFinish(r)
           \/ Fails(r) \/ BreakOff(r) \/ BreakOffRefused(r) \/ Cease(r) \/ DeleteRow(r)
    \/ PublishEdition \/ StartReindex \/ EndReindex \/ ServerDies

QaSpec == QaInit /\ [][QaNext]_qaVars
-----------------------------------------------------------------------------
\* Types of the book, the requests and their rows.
QaTypeOK ==
    /\ busy \in BOOLEAN
    /\ shelf \in [text : [QaPages -> 0 .. MaxEditions], run : 0 .. MaxEditions, stamp : 0 .. MaxEditions + 1]
    /\ \A r \in QaRequests :
           /\ asks[r].at \in {"idle", "find", "start", "stream", "failing"}
           /\ rows[r].state \in {"none", "open", "answered", "canceled", "error", "deleted"}

\* A row stays open only while its request streams or closes it, or after one of
\* four ends: the server died, the reader was gone while a part was sent, a plain
\* stream had no last event, or a rebuild or the disk refused the write that was
\* to close the row - after an error the last of two such writes (event_stream).
OpenRowsAreAwaited ==
    \A r \in QaRequests :
        rows[r].state = "open" => asks[r].at \in {"stream", "failing"} \/ r \in unclosed

\* The pages a verified answer quotes are, all of them and in the same
\* state, the pages of the searchable book at the moment the answer is saved,
\* however the book was published and rebuilt since they were read.
AnswersAreCurrent ==
    [][\A r \in QaRequests :
           rows'[r].state = "answered" /\ rows[r].state = "open" /\ asks[r].verified =>
               rows'[r].text = shelf.text /\ shelf.stamp # 0]_qaVars
=============================================================================
