----------------------------- MODULE ChunkIndex ----------------------------
(***************************************************************************)
(* The vector index of the novels: the rows of `chunks` in SQLite and the  *)
(* rows of the LanceDB table `chunks`, which no transaction spans          *)
(* (services/novel_db/builder.py, page_index_builder.py,                   *)
(* gpt61_rag_build.py, context_generation.py).  Three ways to rebuild a    *)
(* book's rows and one to embed them again, one at a time, while the OCR   *)
(* publication may replace the book's pages between any two steps that do  *)
(* not hold SQLite's write lock.  A step may raise and the process may     *)
(* stop; what a transaction has not committed is then gone, what was done  *)
(* to LanceDB stays.                                                       *)
(*                                                                         *)
(* A page has one chunk, or none if it is not index-eligible.              *)
(***************************************************************************)
EXTENDS Integers, Sequences, FiniteSets, Bags

CONSTANTS
    Books,
    Texts,          \* the texts of pages
    MaxPages,       \* bound of a book's pages
    MaxId,          \* bound of the chunk ids
    MaxPublications, \* bound of the publications
    MaxOperations,  \* bound of the rebuilds begun
    MaxFaults       \* bound of the exceptions and process stops

Ineligible == <<>>

ASSUME ChunkIndexAssumption ==
    /\ Books # {} /\ Texts # {} /\ Ineligible \notin Texts
    /\ MaxPages \in Nat /\ MaxId \in Nat
    /\ MaxPublications \in Nat /\ MaxOperations \in Nat /\ MaxFaults \in Nat

VARIABLES
    pages,          \* book -> the texts of its pages
    indexed,        \* book -> is books.indexed_at set?
    sealed,         \* book -> does the active run's manifest say rag_build "ready"?
    chunks,         \* the rows of `chunks`; ctx: contextual_text is set
    vectors,        \* the bag of LanceDB rows; ctx: the embedding covers the context
    op,             \* the running rebuild
    harm,           \* book -> what it went through; history only
    published,      \* number of publications so far
    begun,          \* number of rebuilds begun so far
    faults          \* number of faults so far

stores == <<pages, indexed, sealed, chunks, vectors>>
counters == <<published, begun, faults>>
vars == <<stores, op, harm, counters>>

Idle == [kind |-> "idle", at |-> "idle"]
PageNos == 1..MaxPages
Rows == [id : 1..MaxId, book : Books, page : PageNos, text : Texts, ctx : BOOLEAN]

Eligible(b) == {p \in DOMAIN pages[b] : pages[b][p] # Ineligible}
ChunksOf(b) == {c \in chunks : c.book = b}
IdsOf(rows) == {r.id : r \in rows}

Filter(bag, Test(_)) == [r \in {x \in DOMAIN bag : Test(x)} |-> bag[r]]
WithoutIds(bag, ids) == Filter(bag, LAMBDA r : r.id \notin ids)
VectorsOf(b) == Filter(vectors, LAMBDA r : r.book = b)

\* The chunks that stay when the pages in scope are rebuilt.
Kept(b, scope) == {c \in chunks : c.book = b => c.page \notin scope}

\* SQLite gives a new row the id after the largest one in use, so the ids of
\* deleted rows come back.
LastId(rows) == CHOOSE n \in 0..MaxId : (\A r \in rows : r.id <= n)
                                        /\ (n = 0 \/ n \in IdsOf(rows))
DraftedAfterOwn(b, scope, text) ==       \* slip: ids counted within the book
    LET Wanted == {p \in scope : text[p] # Ineligible}
        Rank(p) == Cardinality({q \in Wanted : q <= p})
    IN  {[id |-> LastId(Kept(b, scope) \cap ChunksOf(b)) + Rank(p), book |-> b,
          page |-> p, text |-> text[p], ctx |-> FALSE] : p \in Wanted}
Drafted(b, scope, text) ==
    LET Wanted == {p \in scope : text[p] # Ineligible}
        Rank(p) == Cardinality({q \in Wanted : q <= p})
    IN  {[id |-> LastId(Kept(b, scope)) + Rank(p), book |-> b, page |-> p,
          text |-> text[p], ctx |-> FALSE] : p \in Wanted}
FitsIds(b, scope) == LastId(Kept(b, scope)) + Cardinality(scope) <= MaxId

Locked == op.at \in {"clear", "add"}
Init ==
    /\ pages = [b \in Books |-> <<>>]
    /\ indexed = [b \in Books |-> FALSE]
    /\ sealed = [b \in Books |-> FALSE]
    /\ chunks = {}
    /\ vectors = EmptyBag
    /\ op = Idle
    /\ harm = [b \in Books |-> {}]
    /\ published = 0
    /\ begun = 0
    /\ faults = 0

Harmed(b, how) == harm' = [harm EXCEPT ![b] = @ \cup how]
-----------------------------------------------------------------------------
(***************************************************************************)
(* What publish_pages does to the book's index: indexed_at is cleared, the *)
(* pages are upserted and the pages past the end deleted, whose chunks     *)
(* ON DELETE CASCADE removes.                                              *)
(***************************************************************************)
Publish(b) ==
    /\ ~Locked
    /\ published < MaxPublications
    /\ \E n \in PageNos : \E new \in [1..n -> Texts \cup {Ineligible}] :
        LET cut == {c \in ChunksOf(b) : c.page > n}
        IN  /\ pages' = [pages EXCEPT ![b] = new]
            /\ chunks' = chunks \ cut
            /\ Harmed(b, IF cut = {} THEN {} ELSE {"orphan"})
    /\ indexed' = [indexed EXCEPT ![b] = FALSE]
    /\ sealed' = [sealed EXCEPT ![b] = FALSE]
    /\ op' = IF op.kind # "idle" /\ op.book = b THEN [op EXCEPT !.raced = TRUE] ELSE op
    /\ published' = published + 1
    /\ UNCHANGED <<vectors, begun, faults>>
-----------------------------------------------------------------------------
(***************************************************************************)
(* rebuild_from_pages, rebuild_page_from_pages and publish_build read the  *)
(* pages first.  `text` is what was read, `old` the ids to replace, `todo` *)
(* the rows that LanceDB does not have yet, `saved` what a failed page     *)
(* rebuild puts back, `was` the mark before.                               *)
(***************************************************************************)
Begun(kind, at, b, scope) ==
    [kind |-> kind, at |-> at, book |-> b, scope |-> scope,
     text |-> [p \in scope |-> pages[b][p]], old |-> {}, draft |-> {}, todo |-> {},
     saved |-> {}, was |-> indexed[b], raced |-> FALSE]

Begins ==
    /\ op = Idle
    /\ begun < MaxOperations
    /\ begun' = begun + 1
    /\ UNCHANGED <<stores, harm, published, faults>>

StartBook(b) ==
    /\ Begins
    /\ Eligible(b) # {}
    /\ FitsIds(b, DOMAIN pages[b])
    /\ op' = Begun("book", "wipe", b, DOMAIN pages[b])

StartPage(b) ==
    /\ Begins
    /\ \E p \in DOMAIN pages[b] :
        /\ FitsIds(b, {p})
        /\ op' = Begun("page", "snapshot", b, {p})

StartSealed(b) ==
    /\ Begins
    /\ Eligible(b) # {}
    /\ ~(indexed[b] /\ sealed[b])
    /\ FitsIds(b, DOMAIN pages[b])
    /\ op' = Begun("sealed", "close", b, DOMAIN pages[b])

\* _snapshot_lance_rows is limited to as many rows as there are ids, so it
\* cannot see that there are more.
OldOf(b, scope) == IdsOf({c \in ChunksOf(b) : c.page \in scope})
Snapshots(ids) == {s \in SUBSET {r \in DOMAIN vectors : r.id \in ids} :
                    Cardinality(s) = Cardinality(ids)}

Snapshot ==
    /\ op.at = "snapshot"
    /\ LET ids == OldOf(op.book, op.scope)
       IN  \E s \in Snapshots(ids) :
            op' = [op EXCEPT !.at = "close", !.old = ids, !.saved = s]
    /\ UNCHANGED <<stores, harm, counters>>

\* The page rebuild and the sealed build clear indexed_at before they touch
\* LanceDB; the sealed build only if the pages are still those it prepared.
SamePages == op.text = pages[op.book]

Close ==
    /\ op.at = "close"
    /\ op.kind = "sealed" => SamePages
    /\ indexed' = [indexed EXCEPT ![op.book] = FALSE]
    /\ sealed' = [sealed EXCEPT ![op.book] = @ /\ op.kind # "sealed"]
    /\ op' = [op EXCEPT !.at = "draft"]
    /\ UNCHANGED <<pages, chunks, vectors, harm, counters>>

\* The book rebuild deletes from LanceDB before its transaction begins.
Wipe ==
    /\ op.at = "wipe"
    /\ LET ids == IdsOf(ChunksOf(op.book))
       IN  /\ vectors' = WithoutIds(vectors, ids)
           /\ op' = [op EXCEPT !.at = "draft", !.old = ids]
    /\ UNCHANGED <<pages, indexed, sealed, chunks, harm, counters>>
-----------------------------------------------------------------------------
(***************************************************************************)
(* From its first DELETE on a rebuild holds the write lock.  The chunks it *)
(* inserts refer to pages that must still exist.                           *)
(***************************************************************************)
CanDraft ==
    /\ {p \in op.scope : op.text[p] # Ineligible} \subseteq DOMAIN pages[op.book]
    /\ op.kind = "sealed" => SamePages

Draft ==
    /\ op.at = "draft"
    /\ CanDraft
    /\ LET rows == Drafted(op.book, op.scope, op.text)
       IN  op' = [op EXCEPT !.at = IF op.kind = "book" THEN "add" ELSE "clear",
                            !.draft = rows, !.todo = rows]
    /\ UNCHANGED <<stores, harm, counters>>

\* The sealed build finds a book's rows by its name as well.
Cleared == IF op.kind = "sealed"
           THEN Filter(vectors, LAMBDA r : r.book # op.book
                                           /\ r.id \notin OldOf(op.book, op.scope))
           ELSE WithoutIds(vectors, op.old)

Clear ==
    /\ op.at = "clear"
    /\ vectors' = Cleared
    /\ op' = [op EXCEPT !.at = "add"]
    /\ UNCHANGED <<pages, indexed, sealed, chunks, harm, counters>>

\* The book rebuild adds batch by batch, the others all rows at once.
Batches == IF op.kind = "book"
           THEN {{r} : r \in {x \in op.todo : \A y \in op.todo : x.id <= y.id}}
           ELSE {op.todo} \ {{}}

Add ==
    /\ op.at = "add"
    /\ \E batch \in Batches :
        /\ vectors' = vectors (+) SetToBag(batch)
        /\ op' = [op EXCEPT !.todo = @ \ batch]
    /\ UNCHANGED <<pages, indexed, sealed, chunks, harm, counters>>

\* verify_build: LanceDB has exactly the drafted rows under the book's name
\* and under their ids.
Verified(b, rows) ==
    Filter(vectors, LAMBDA r : r.book = b \/ r.id \in IdsOf(rows)) = SetToBag(rows)

\* What a successful rebuild makes good: the sealed build everything, the
\* book rebuild all but the rows it does not know of, the page rebuild
\* nothing.  It vouches for a book whose other pages it did not look at.
HarmAfter ==
    CASE op.kind = "sealed" -> {}
      [] op.kind = "book" -> (harm[op.book] \cap {"orphan"})
                             \cup (IF op.raced THEN {"stale"} ELSE {})
      [] op.kind = "page" -> harm[op.book]
                             \cup (IF op.was /\ ~op.raced THEN {} ELSE {"stale"})

Commit ==
    /\ op.at = "add"
    /\ op.todo = {}
    /\ op.kind = "sealed" => Verified(op.book, op.draft)
    /\ chunks' = Kept(op.book, op.scope) \cup op.draft
    /\ indexed' = [indexed EXCEPT ![op.book] = TRUE]
    /\ sealed' = [sealed EXCEPT ![op.book] = @ \/ op.kind = "sealed"]
    /\ harm' = [harm EXCEPT ![op.book] = HarmAfter]
    /\ op' = Idle
    /\ UNCHANGED <<pages, vectors, counters>>
-----------------------------------------------------------------------------
(***************************************************************************)
(* generate_contexts: chunk by chunk the row in LanceDB is replaced by one *)
(* whose embedding covers the generated context, then contextual_text is   *)
(* stored.  A failed batch is logged and the next one tried.               *)
(***************************************************************************)
StartContexts(b) ==
    /\ Begins
    /\ \E c \in ChunksOf(b) : ~c.ctx
    /\ op' = [Begun("contexts", "next", b, DOMAIN pages[b])
              EXCEPT !.todo = {c \in ChunksOf(b) : ~c.ctx}]

Current == CHOOSE r \in op.todo : \A x \in op.todo : r.id <= x.id
NextChunk == [op EXCEPT !.at = "next", !.todo = @ \ {Current}]

\* The model may have nothing to say about a chunk.
NoContext ==
    /\ op.at = "next"
    /\ op.todo # {}
    /\ op' = NextChunk
    /\ UNCHANGED <<stores, harm, counters>>

Unembed ==
    /\ op.at = "next"
    /\ op.todo # {}
    /\ vectors' = WithoutIds(vectors, {Current.id})
    /\ op' = [op EXCEPT !.at = "embed"]
    /\ UNCHANGED <<pages, indexed, sealed, chunks, harm, counters>>

Embed ==
    /\ op.at = "embed"
    /\ vectors' = vectors (+) SetToBag({[Current EXCEPT !.ctx = TRUE]})
    /\ op' = [op EXCEPT !.at = "record"]
    /\ UNCHANGED <<pages, indexed, sealed, chunks, harm, counters>>

Record ==
    /\ op.at = "record"
    /\ chunks' = {IF c.id = Current.id THEN [c EXCEPT !.ctx = TRUE] ELSE c : c \in chunks}
    /\ harm' = [harm EXCEPT ![op.book] =
                    IF \A c \in chunks' : c.book = op.book => c.ctx
                    THEN @ \ {"unembedded"} ELSE @]
    /\ op' = NextChunk
    /\ UNCHANGED <<pages, indexed, sealed, vectors, counters>>

EndContexts ==
    /\ op.at = "next"
    /\ op.todo = {}
    /\ op' = Idle
    /\ UNCHANGED <<stores, harm, counters>>
-----------------------------------------------------------------------------
(***************************************************************************)
(* Failures.                                                               *)
(***************************************************************************)
Added == op.kind # "contexts" /\ op.todo # op.draft

\* What is left behind when the operation ends here: rows that SQLite has no
\* chunks for, chunks without rows under a mark that was never cleared, a
\* chunk that the next generate_contexts embeds again.
LeftBehind ==
    (IF Added /\ op.at \in {"add", "undo"} THEN {"orphan"} ELSE {})
    \cup (IF op.kind = "book" /\ op.at \in {"draft", "add"} THEN {"lost"} ELSE {})
    \cup (IF op.at = "embed" THEN {"unembedded"} ELSE {})

Fault == faults < MaxFaults /\ faults' = faults + 1

\* The checks of the operation itself.
Refused ==
    \/ op.at = "snapshot" /\ Snapshots(OldOf(op.book, op.scope)) = {}
    \/ op.at = "close" /\ op.kind = "sealed" /\ ~SamePages
    \/ op.at = "draft" /\ ~CanDraft
    \/ op.at = "add" /\ op.todo = {} /\ op.kind = "sealed" /\ ~Verified(op.book, op.draft)
Raised == (Refused /\ UNCHANGED faults) \/ (~Refused /\ Fault)

\* Only the page rebuild compensates, once it has begun to write.
Compensates == op.kind = "page" /\ op.at \in {"draft", "clear", "add"}

Raise ==
    /\ op.kind \in {"book", "page", "sealed"}
    /\ op.at \notin {"undo", "restore"}
    /\ ~Compensates
    /\ Raised
    /\ Harmed(op.book, LeftBehind)
    /\ op' = Idle
    /\ UNCHANGED <<stores, published, begun>>

BatchRaises ==
    /\ op.kind = "contexts"
    /\ op.at \in {"embed", "record"}
    /\ Fault
    /\ Harmed(op.book, LeftBehind)
    /\ op' = NextChunk
    /\ UNCHANGED <<stores, published, begun>>

\* _compensate_failed_update: SQLite is rolled back first.
RollBack ==
    /\ Compensates
    /\ Raised
    /\ op' = [op EXCEPT !.at = "undo"]
    /\ UNCHANGED <<stores, harm, published, begun>>

UndoOldOnly ==                            \* slip: the new rows are forgotten
    /\ op.at = "undo"
    /\ vectors' = WithoutIds(vectors, op.old)
    /\ op' = [op EXCEPT !.at = "restore"]
    /\ UNCHANGED <<pages, indexed, sealed, chunks, harm, counters>>
Undo ==
    /\ op.at = "undo"
    /\ vectors' = WithoutIds(vectors, op.old \cup IdsOf(op.draft))
    /\ op' = [op EXCEPT !.at = "restore"]
    /\ UNCHANGED <<pages, indexed, sealed, chunks, harm, counters>>

RestoreMarkOnly ==                        \* slip: the saved rows are dropped
    /\ op.at = "restore"
    /\ indexed' = [indexed EXCEPT ![op.book] = FALSE]
    /\ op' = Idle
    /\ UNCHANGED <<pages, sealed, chunks, vectors, harm, counters>>
Restore ==
    /\ op.at = "restore"
    /\ vectors' = vectors (+) SetToBag(op.saved)
    /\ indexed' = [indexed EXCEPT ![op.book] = FALSE]
    /\ op' = Idle
    /\ UNCHANGED <<pages, sealed, chunks, harm, counters>>

UndoRaises ==
    /\ op.at \in {"undo", "restore"}
    /\ Fault
    /\ indexed' = [indexed EXCEPT ![op.book] = FALSE]
    /\ Harmed(op.book, LeftBehind)
    /\ op' = Idle
    /\ UNCHANGED <<pages, sealed, chunks, vectors, published, begun>>

Crash ==
    /\ op # Idle
    /\ Fault
    /\ Harmed(op.book, LeftBehind)
    /\ op' = Idle
    /\ UNCHANGED <<stores, published, begun>>

\* publish_build of a build that is already sealed only verifies it, contexts
\* included, and clears the mark if anything differs.
Recheck(b) ==
    /\ op = Idle
    /\ indexed[b] /\ sealed[b]
    /\ ~(Verified(b, ChunksOf(b)) /\ \A c \in ChunksOf(b) : ~c.ctx)
    /\ indexed' = [indexed EXCEPT ![b] = FALSE]
    /\ sealed' = [sealed EXCEPT ![b] = FALSE]
    /\ UNCHANGED <<pages, chunks, vectors, op, harm, counters>>

Next ==
    \/ \E b \in Books : Publish(b) \/ StartBook(b) \/ StartPage(b) \/ StartSealed(b)
                        \/ Recheck(b) \/ StartContexts(b)
    \/ Snapshot \/ Close \/ Wipe \/ Draft \/ Clear \/ Add \/ Commit
    \/ NoContext \/ Unembed \/ Embed \/ Record \/ EndContexts
    \/ Raise \/ BatchRaises \/ RollBack \/ Undo \/ Restore \/ UndoRaises \/ Crash

Spec == Init /\ [][Next]_vars
-----------------------------------------------------------------------------
Operations ==
    [kind : {"book", "page", "sealed", "contexts"},
     at : {"wipe", "snapshot", "close", "draft", "clear", "add",
           "next", "embed", "record", "undo", "restore"},
     book : Books, scope : SUBSET PageNos,
     text : UNION {[s -> Texts \cup {Ineligible}] : s \in SUBSET PageNos},
     old : SUBSET (1..MaxId), draft : SUBSET Rows, todo : SUBSET Rows,
     saved : SUBSET Rows, was : BOOLEAN, raced : BOOLEAN]

\* Every variable has its type; the chunks have distinct ids.
TypeOK ==
    /\ pages \in [Books -> UNION {[1..n -> Texts \cup {Ineligible}] : n \in 0..MaxPages}]
    /\ indexed \in [Books -> BOOLEAN] /\ sealed \in [Books -> BOOLEAN]
    /\ chunks \subseteq Rows /\ Cardinality(IdsOf(chunks)) = Cardinality(chunks)
    /\ DOMAIN vectors \subseteq Rows /\ \A r \in DOMAIN vectors : vectors[r] \in Nat \ {0}
    /\ op = Idle \/ op \in Operations
    /\ harm \in [Books -> SUBSET {"orphan", "lost", "stale", "unembedded"}]

VectorFor(c) == {r \in DOMAIN vectors : r.book = c.book /\ r.id = c.id}

\* LanceDB has one row for every chunk of the book but those in `owed`, and
\* no other row under its name.
VectorsMatch(b, owed) ==
    /\ \A r \in DOMAIN VectorsOf(b) :
        /\ vectors[r] = 1
        /\ \E c \in ChunksOf(b) : c.id = r.id /\ c.page = r.page /\ c.text = r.text
    /\ \A c \in ChunksOf(b) :
        Cardinality(VectorFor(c)) \in (IF c \in owed THEN 0..1 ELSE {1})

ChunksCurrent(b) ==
    /\ {<<c.page, c.text>> : c \in ChunksOf(b)} = {<<p, pages[b][p]>> : p \in Eligible(b)}
    /\ Cardinality(ChunksOf(b)) = Cardinality(Eligible(b))

Trusted(b) == indexed[b] /\ op.kind = "idle" /\ harm[b] \subseteq {"unembedded"}

\* A book that is marked as indexed has the chunks of its published pages and
\* LanceDB their vectors, unless a chunk waits for generate_contexts to embed
\* it again - for every book that was not harmed in one of the ways recorded.
\* The embedding of a chunk whose context is stored, and which generate_contexts
\* will not visit again, covers the context.
StoresAgree ==
    \A b \in Books : Trusted(b) =>
        /\ ChunksCurrent(b)
        /\ VectorsMatch(b, IF "unembedded" \in harm[b] THEN {c \in ChunksOf(b) : ~c.ctx} ELSE {})
        /\ \A c \in ChunksOf(b) : c.ctx => \A r \in VectorFor(c) : r.ctx

\* A page rebuild that fails and compensates leaves a book that was in order
\* before with the vectors it had.  This needs that LanceDB has no orphans of
\* any book: the snapshot cannot tell one whose id is in use again from the
\* row that it is to save.
FailedPageIsRestored ==
    [][\A b \in Books :
        /\ Restore /\ op.book = b /\ op.was /\ ~op.raced /\ harm[b] = {}
        /\ \A c \in Books : "orphan" \notin harm[c]
        => VectorsMatch(b, {})']_vars
=============================================================================
