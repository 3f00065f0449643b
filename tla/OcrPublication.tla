--------------------------- MODULE OcrPublication --------------------------
(***************************************************************************)
(* Review and publication of the OCR runs of one book                      *)
(* (services/novel_db/ocr_qa_*.py, ocr_publication_history.py,             *)
(* ocr_page_classification.py): a staged run is reviewed page by page,     *)
(* approved as a whole and published as the book's canonical pages; any    *)
(* approved run can be activated again later.                              *)
(*                                                                         *)
(* Every endpoint reads in autocommit mode first and writes in a           *)
(* transaction afterwards.  A call is therefore two or three actions of a  *)
(* worker thread, and what it read is kept in call[w].  Layout types are   *)
(* folded into page types: both must be known for an approval.             *)
(***************************************************************************)
EXTENDS Integers, Sequences, FiniteSets

CONSTANTS
    Runs,           \* OCR runs of the book
    Legacy,         \* the run that keeps the pages from before any publication
    Pages,          \* page numbers
    Edits,          \* texts a reviewer may enter
    Requests,       \* what a reviewer may send for a page
    Workers,        \* server threads
    Outcomes,       \* what OCR may find on a page: [ok, empty, hint]
    SampleMayBeFound, \* may the rest of a book look like an appended sample?
    MaxEvents       \* bound of the publication history

NoText == <<>>
Unpublished == <<"unpublished">>

\* The hint is the type that suggest_page_type() derives from the OCR text;
\* "other" stands for the types whose text is not published.
Types == {"unknown", "narrative", "other"}

ASSUME OcrPublicationAssumption ==
    /\ Legacy \notin Runs
    /\ Pages # {} /\ Pages \subseteq Nat
    /\ NoText \notin Edits /\ "ocr" \notin Edits
    /\ Outcomes \subseteq [ok : BOOLEAN, empty : BOOLEAN, hint : Types]
    /\ Requests \subseteq [qa : {"approved", "rejected"}, type : Types,
                           engine : {"primary", "codex"}, corrected : {NoText} \cup Edits]
    /\ \A q \in Requests : q.corrected # NoText => q.engine = "codex"
    /\ SampleMayBeFound \in BOOLEAN
    /\ MaxEvents \in Nat

VARIABLES
    runState,   \* run -> "none", "running", "awaiting_qa" or "completed"
    rows,       \* run -> page -> its row of ocr_page_results
    sample,     \* run -> the pages of an appended sample, from their OCR texts
    canonical,  \* the rows of the book in `pages`
    origin,     \* the canonical pages before any publication; never changes
    history,    \* the rows of ocr_publications
    approved,   \* run -> page -> what reviewers approved so far; history only
    pc,         \* worker -> its next step
    call        \* worker -> its arguments and what it read

runVars == <<runState, rows, sample, approved>>
bookVars == <<canonical, history>>
workerVars == <<pc, call>>
vars == <<runVars, bookVars, origin, workerVars>>

AllRuns == Runs \cup {Legacy}

\* Texts are told apart by run; the pages by their number.
Texts == {NoText} \cup (AllRuns \X ({"ocr"} \cup Edits))

\* text: the OCR text; corrected: the reviewer's; pub: published_text.
Rows == [ok : BOOLEAN, text : Texts, hint : Types, type : Types,
         engine : {"primary", "codex"}, corrected : Texts,
         qa : {"not_required", "required", "approved", "rejected"},
         pub : Texts \cup {Unpublished}]

NoRow == [ok |-> FALSE, text |-> NoText, hint |-> "unknown", type |-> "unknown",
          engine |-> "primary", corrected |-> NoText, qa |-> "not_required",
          pub |-> Unpublished]

\* What a page of the book, a publication or an approval says.
Contents == [text : Texts, type : Types]
OriginContent == [text |-> <<Legacy, "ocr">>, type |-> "narrative"]

NoCall == [run |-> Legacy, page |-> 0, request |-> "none", read |-> <<>>]

\* The pages that may belong to a sample appended to the book.
Samples == {{}} \cup IF SampleMayBeFound THEN {{p \in Pages : p >= from} : from \in Pages} ELSE {}

\* The legacy run will keep the texts of the origin, so these decide already
\* whether classify_run_pages finds a sample in it.  Pages get the type
\* narrative when the index is built.
Init ==
    /\ runState = [r \in AllRuns |-> IF r = Legacy THEN "none" ELSE "running"]
    /\ rows = [r \in AllRuns |-> [p \in Pages |-> NoRow]]
    /\ \E ads \in Samples : sample = [r \in AllRuns |-> IF r = Legacy THEN ads ELSE {}]
    /\ \E known \in SUBSET Pages : origin = [p \in known |-> OriginContent]
    /\ canonical = origin
    /\ history = <<>>
    /\ approved = [r \in AllRuns |-> [p \in Pages |-> {}]]
    /\ pc = [w \in Workers |-> "idle"]
    /\ call = [w \in Workers |-> NoCall]

-----------------------------------------------------------------------------

Goto(w, step, arguments) ==
    /\ pc' = [pc EXCEPT ![w] = step]
    /\ call' = [call EXCEPT ![w] = arguments]

Return(w) == Goto(w, "idle", NoCall)

\* _selected_text and what of it is published.
Selected(row) == IF row.engine = "codex" THEN row.corrected ELSE row.text
Published(row) == IF row.type = "narrative" THEN Selected(row) ELSE NoText
ContentOf(row) == [text |-> Published(row), type |-> row.type]

\* A reviewer must supply the text of a failed page; no narrative is empty.
HasText(row) ==
    row.type = "narrative" =>
        /\ row.ok \/ row.corrected # NoText
        /\ Selected(row) # NoText

\* Variant for Classified: types that are known are replaced, too.
ClassifiedAgain(row, p, r) ==
    [row EXCEPT !.type = IF p \in sample[r] THEN "other" ELSE row.hint]

\* classify_run_pages: pages of an appended sample are never narrative, others
\* keep the type they have.
Classified(row, p, r) ==
    [row EXCEPT !.type = IF p \in sample[r] THEN "other"
                         ELSE IF row.type = "unknown" THEN row.hint ELSE row.type]

\* The row that OCR leaves for a page, with its type already suggested.
StagedRow(r, p, found, ads) ==
    [ok |-> found.ok,
     text |-> IF found.empty THEN NoText ELSE <<r, "ocr">>,
     hint |-> found.hint,
     type |-> IF p \in ads THEN "other" ELSE found.hint,
     engine |-> "primary", corrected |-> NoText, qa |-> "required", pub |-> Unpublished]

\* stage_run_for_qa, when the OCR of the run is complete.
Stage(r) ==
    /\ runState[r] = "running"
    /\ \E found \in [Pages -> Outcomes], ads \in Samples :
         /\ sample' = [sample EXCEPT ![r] = ads]
         /\ rows' = [rows EXCEPT ![r] = [p \in Pages |-> StagedRow(r, p, found[p], ads)]]
    /\ runState' = [runState EXCEPT ![r] = "awaiting_qa"]
    /\ UNCHANGED <<approved, bookVars, origin, workerVars>>

-----------------------------------------------------------------------------
(* Review of a page. *)

Reviewed(row, q) ==
    [row EXCEPT !.qa = q.qa, !.type = q.type, !.engine = q.engine, !.corrected = q.corrected]

\* The text a request stands for in run r.
Entered(r, q) ==
    [q EXCEPT !.corrected = IF @ = NoText THEN NoText ELSE <<r, @>>]

\* _validate_review_request and _validate_narrative_selection.
Acceptable(row, q) ==
    q.qa = "approved" => q.type # "unknown" /\ HasText(Reviewed(row, q))

\* review_qa_page: the run's state and the page are read.
Review(w, r, p) ==
    /\ pc[w] = "idle"
    /\ runState[r] = "awaiting_qa"
    /\ \E q \in {Entered(r, asked) : asked \in Requests} :
         /\ Acceptable(rows[r][p], q)
         /\ Goto(w, "review", [run |-> r, page |-> p, request |-> q, read |-> <<>>])
    /\ UNCHANGED <<runVars, bookVars, origin>>

\* The UPDATE of the page; it no longer looks at the run.
ReviewWrite(w) ==
    LET r == call[w].run
        p == call[w].page
        row == Reviewed(rows[r][p], call[w].request)
    IN
    /\ pc[w] = "review"
    /\ rows' = [rows EXCEPT ![r][p] = row]
    /\ approved' = [approved EXCEPT ![r][p] = @ \cup
         (IF row.qa = "approved" THEN {ContentOf(row)} ELSE {})]
    /\ Return(w)
    /\ UNCHANGED <<runState, sample, bookVars, origin>>

-----------------------------------------------------------------------------
(* POST classify-pages: the rows are read, then all types are written.      *)

Classify(w, r) ==
    /\ pc[w] = "idle"
    /\ runState[r] \in {"awaiting_qa", "completed"}
    /\ Goto(w, "classify", [NoCall EXCEPT !.run = r, !.read = rows[r]])
    /\ UNCHANGED <<runVars, bookVars, origin>>

\* A page of unknown type must be reviewed again.
WithType(row, type) ==
    [row EXCEPT !.type = type, !.qa = IF type = "unknown" THEN "required" ELSE @]

ClassifyWrite(w) ==
    LET r == call[w].run
        type(p) == Classified(call[w].read[p], p, r).type
    IN
    /\ pc[w] = "classify"
    /\ rows' = [rows EXCEPT ![r] = [p \in Pages |-> WithType(rows[r][p], type(p))]]
    /\ Return(w)
    /\ UNCHANGED <<runState, sample, approved, bookVars, origin>>

-----------------------------------------------------------------------------
(* Approval and publication. *)

\* Variant for Approvable: rejected pages do not count.
ApprovableRejected(r) ==
    \A p \in Pages : rows[r][p].qa # "required" /\ rows[r][p].type # "unknown"

\* _validate_approval_counts.
Approvable(r) ==
    \A p \in Pages : rows[r][p].qa \notin {"required", "rejected"} /\ rows[r][p].type # "unknown"

\* approve_and_publish_run: _load_approval_book_name.
Approve(w, r) ==
    /\ pc[w] = "idle"
    /\ runState[r] = "awaiting_qa"
    /\ Approvable(r)
    /\ Goto(w, "approve", [NoCall EXCEPT !.run = r])
    /\ UNCHANGED <<runVars, bookVars, origin>>

\* validate_complete_run and _validate_publishable_rows.
ReadRows(w) ==
    /\ pc[w] = "approve"
    /\ \A p \in Pages : HasText(rows[call[w].run][p])
    /\ Goto(w, "publish", [call[w] EXCEPT !.read = rows[call[w].run]])
    /\ UNCHANGED <<runVars, bookVars, origin>>

Active == {i \in 1..Len(history) : ~history[i].retired}

\* Variant for Retired: the old publication stays active.
RetiredNone(events) == events

\* The active publication is retired when another one follows.
Retired(events) == [i \in 1..Len(events) |-> [events[i] EXCEPT !.retired = TRUE]]

Event(run, action, content, superseded) ==
    [run |-> run, action |-> action, pages |-> content, superseded |-> superseded, retired |-> FALSE]

\* Variant for NeedsSnapshot: the first publication just replaces the pages.
NeedsSnapshotNever == FALSE

\* ensure_legacy_snapshot: the first publication keeps what it replaces.
NeedsSnapshot == history = <<>> /\ DOMAIN canonical # {}
WithSnapshot ==
    IF NeedsSnapshot THEN <<Event(Legacy, "legacy_snapshot", canonical, 0)>> ELSE history

\* Variant for LegacyRow: a review state the schema does not know.
LegacyRowUnknown(content) ==
    [NoRow EXCEPT !.ok = TRUE, !.text = content.text, !.type = content.type, !.hint = content.type,
                  !.pub = content.text, !.qa = "legacy"]

LegacyRow(content) ==
    [NoRow EXCEPT !.ok = TRUE, !.text = content.text, !.type = content.type, !.hint = content.type,
                  !.pub = content.text]

\* Variants for Materialized: the rows are read again, and the text is kept
\* whatever the type of its page.
MaterializedNow(run, content) ==
    [rows EXCEPT ![run] = [p \in Pages |-> [@[p] EXCEPT !.pub = Published(rows[run][p])]]]
MaterializedSelected(run, content) ==
    [rows EXCEPT ![run] = [p \in Pages |-> [@[p] EXCEPT !.pub = Selected(rows[run][p])]]]

\* publish_pages: each row keeps the text that was published.
Materialized(run, content) ==
    [rows EXCEPT ![run] = [p \in Pages |-> [@[p] EXCEPT !.pub = content[p].text]]]

\* _claim_run_for_publication, under the write lock.
StillApprovable(r) == runState[r] = "awaiting_qa" /\ Approvable(r)

\* The transaction of _publish_rows, with the rows read before it.
Publish(w) ==
    LET r == call[w].run
        content == [p \in Pages |-> ContentOf(call[w].read[p])]
        before == WithSnapshot
    IN
    /\ pc[w] = "publish"
    /\ StillApprovable(r)
    /\ NeedsSnapshot => DOMAIN canonical = Pages
    /\ Len(before) < MaxEvents
    /\ canonical' = content
    /\ history' = Append(Retired(before), Event(r, "publish", content, Len(before)))
    /\ rows' = IF NeedsSnapshot
               THEN [Materialized(r, content) EXCEPT
                       ![Legacy] = [p \in Pages |-> LegacyRow(canonical[p])]]
               ELSE Materialized(r, content)
    /\ runState' = [runState EXCEPT ![r] = "completed",
                                    ![Legacy] = IF NeedsSnapshot THEN "completed" ELSE @]
    /\ Return(w)
    /\ UNCHANGED <<sample, approved, origin>>

\* activate_published_run: an approved run and its published texts are read.
Activate(w, r) ==
    /\ pc[w] = "idle"
    /\ runState[r] = "completed"
    /\ \A p \in Pages : rows[r][p].pub # Unpublished
    /\ Goto(w, "activate", [NoCall EXCEPT !.run = r, !.read = rows[r]])
    /\ UNCHANGED <<runVars, bookVars, origin>>

\* Its transaction.
Reactivate(w) ==
    LET r == call[w].run
        content == [p \in Pages |->
            [text |-> call[w].read[p].pub, type |-> call[w].read[p].type]]
    IN
    /\ pc[w] = "activate"
    /\ Len(history) < MaxEvents
    /\ canonical' = content
    /\ history' = Append(Retired(history), Event(r, "rollback", content, Len(history)))
    /\ rows' = Materialized(r, content)
    /\ Return(w)
    /\ UNCHANGED <<runState, sample, approved, origin>>

\* A call raises: a check fails, the backup fails, the lock is not granted.
Abort(w) ==
    /\ pc[w] # "idle"
    /\ Return(w)
    /\ UNCHANGED <<runVars, bookVars, origin>>

Next ==
    \/ \E r \in Runs : Stage(r)
    \/ \E w \in Workers :
         \/ \E r \in AllRuns, p \in Pages : Review(w, r, p)
         \/ \E r \in AllRuns : Classify(w, r) \/ Approve(w, r) \/ Activate(w, r)
         \/ ReviewWrite(w)
         \/ ClassifyWrite(w)
         \/ ReadRows(w)
         \/ Publish(w)
         \/ Reactivate(w)
         \/ Abort(w)

Spec == Init /\ [][Next]_vars

-----------------------------------------------------------------------------

\* The variables have their types.
TypeOK ==
    /\ runState \in [AllRuns -> {"none", "running", "awaiting_qa", "completed"}]
    /\ rows \in [AllRuns -> [Pages -> Rows]]
    /\ sample \in [AllRuns -> SUBSET Pages]
    /\ approved \in [AllRuns -> [Pages -> SUBSET Contents]]
    /\ DOMAIN origin \subseteq Pages /\ DOMAIN canonical \subseteq Pages
    /\ \A p \in DOMAIN canonical : canonical[p] \in Contents
    /\ Len(history) <= MaxEvents
    /\ pc \in [Workers -> {"idle", "review", "classify", "approve", "publish", "activate"}]

\* Whatever overlaps, the publications of a book form one chain: each one
\* supersedes the one before it, and exactly the latest is active.
HistoryIsChain ==
    \A i \in 1..Len(history) :
        /\ history[i].superseded = i - 1
        /\ history[i].retired <=> i < Len(history)

\* The canonical pages are those of the active publication, all of them, and
\* their texts are the published_text of its run, however the calls overlap.
CanonicalIsActiveRun ==
    history # <<>> =>
        LET last == history[Len(history)] IN
        /\ canonical = last.pages
        /\ DOMAIN canonical = Pages
        /\ \A p \in Pages : rows[last.run][p].pub = canonical[p].text

\* A run is published exactly once, by the call that completes it, also when
\* several approvals of the same run overlap.
PublishedOnce ==
    \A r \in Runs :
        /\ runState[r] = "completed" <=>
             \E i \in 1..Len(history) : history[i].run = r /\ history[i].action = "publish"
        /\ \A i, k \in 1..Len(history) :
             /\ history[i].action = "publish" /\ history[i].run = r
             /\ history[k].action = "publish" /\ history[k].run = r
             => i = k

\* The legacy run still has the text of a page and its type, unless
\* classify_run_pages found the page in an appended sample: that takes the page
\* out of the narrative for good.
Restorable(p) ==
    /\ rows[Legacy][p].pub = origin[p].text
    /\ \/ rows[Legacy][p].type = origin[p].type
       \/ rows[Legacy][p].type = "other" /\ p \in sample[Legacy]

\* The pages from before the first publication are never lost: they are
\* canonical, or the legacy run can put them back, each with its text and
\* outside of a sample with its type, whatever is classified in between.
OriginKept ==
    DOMAIN origin # {} =>
        \/ history = <<>> /\ canonical = origin
        \/ /\ runState[Legacy] = "completed"
           /\ DOMAIN origin = Pages
           /\ \A p \in Pages : Restorable(p)

\* The publications of a book are one chain, each run occurs in it once, and
\* it leads back to the pages from before (publish_pages,
\* ensure_legacy_snapshot).
PublicationHistoryKept == HistoryIsChain /\ PublishedOnce /\ OriginKept

\* An approval stands until the page is reviewed again: what would be
\* published of an approved page is what a reviewer approved.
ReviewStands ==
    \A r \in Runs, p \in Pages :
        rows[r][p].qa = "approved" => ContentOf(rows[r][p]) \in approved[r][p]

\* Only reviewed text is published: each page of a new publication is
\* something that a reviewer approved for this page of this run.
PublishedIsApproved ==
    [][\A r \in Runs :
         runState[r] # "completed" /\ runState'[r] = "completed"
         => \A p \in Pages : canonical'[p] \in approved'[r][p]]_vars

\* A rollback publishes what its run published before, in text and type.
RollbackRestores ==
    \A i \in 1..Len(history) :
        history[i].action = "rollback" =>
            \E k \in 1..(i - 1) :
                /\ history[k].run = history[i].run
                /\ history[k].action # "rollback"
                /\ history[k].pages = history[i].pages

\* No later call undoes a reviewer's decision or a publication's contents
\* (classify_run_pages, publish_pages, activate_published_run).
ReviewHolds == ReviewStands /\ RollbackRestores

=============================================================================
