----------------------------- MODULE BookContent -----------------------------
(***************************************************************************)
(* What is generated about one book (services/novel_db/full_builder.py,    *)
(* summarizer.py, prose_pipeline.py, fact_checkpoints.py, generation/,     *)
(* summary_index.py, scripts/build_novel_summaries.py and                  *)
(* scripts/audit_generated_content.py): facts are extracted block by block *)
(* and kept as checkpoints, a detailed and a short summary are written     *)
(* from them and verified against the pages, characters follow, one        *)
(* transaction publishes all three, and the vector of the summary is       *)
(* replaced afterwards.  The full build, the summaries command and the     *)
(* restore command are processes of their own; pages are published         *)
(* meanwhile.  A text is the set of the names it mentions, a block is one  *)
(* page, and what a summary says is the texts it was written from.  The    *)
(* rows of the grounding reports, a log, are left out.                     *)
(***************************************************************************)
EXTENDS Naturals, Sequences

CONSTANTS
    BookNames,
    BookTexts,          \* what a page can say: the names it mentions
    MaxBookPages,
    MaxBuilds,          \* bound of the builds, commands and restores
    MaxRewrites         \* bound of the publications of other pages and of the added characters

NoText == <<>>

ASSUME ContentAssumption ==
    /\ BookTexts \subseteq SUBSET BookNames /\ BookNames \in BookTexts
    /\ MaxBookPages \in Nat \ {0} /\ MaxBuilds \in Nat /\ MaxRewrites \in Nat

VARIABLES
    body,               \* the eligible pages of the book
    bodies,             \* every value of body so far
    blocks,             \* fact_extraction_blocks: index -> the text, the known names and the facts
    content,            \* books.summary, books.catalog_summary and the names of book_characters
    summaryRows,            \* the rows of the book in the LanceDB table of summaries
    writing,            \* writer -> its position and what it read and wrote so far
    snapshot,           \* the file of audit_generated_content.py
    builds, rewrites,   \* counted for the bounds
    apart               \* what happened that may leave the vector behind the summary

contentVars == <<body, bodies, blocks, content, summaryRows, writing, snapshot, builds, rewrites, apart>>

Bodies == UNION {[1 .. n -> BookTexts] : n \in 1 .. MaxBookPages}
Mentioned == UNION {body[i] : i \in DOMAIN body}
NoBlock == [text |-> {}, ledger |-> {}, names |-> {}]
Nothing == [summary |-> NoText, catalog |-> NoText, cast |-> {}]
Writers == {"build", "summaries", "restore"}
Resting == [at |-> "rest"]

ContentInit ==
    /\ body = [i \in 1 .. MaxBookPages |-> BookNames]
    /\ bodies = {body}
    /\ blocks = [i \in 1 .. MaxBookPages |-> NoBlock]
    /\ content = Nothing
    /\ summaryRows = {}
    /\ writing = [w \in Writers |-> Resting]
    /\ snapshot = Nothing
    /\ builds = 0 /\ rewrites = 0
    /\ apart = {}

At(w) == writing[w].at
Moves(w, r) == writing' = [writing EXCEPT ![w] = r]
Goes(w, at) == Moves(w, [writing[w] EXCEPT !.at = at])
Indexing(w) == At(w) \in {"delete", "add", "commit"}

\* The summaries command writes the vector within its transaction.
Unlocked == ~Indexing("summaries")
Overlapping(w) == IF \E v \in Writers \ {w} : Indexing(v) THEN {"overlap"} ELSE {}
-----------------------------------------------------------------------------
Starts(w, known) ==
    /\ writing[w] = Resting
    /\ builds < MaxBuilds /\ builds' = builds + 1
    /\ Moves(w, [at |-> "read", known |-> known])
    /\ UNCHANGED <<body, bodies, blocks, content, summaryRows, snapshot, rewrites, apart>>

Complete == content.summary # NoText /\ content.catalog # NoText /\ content.cast # {}

\* A job never repeats what is complete; the command may.
StartBuild == ~Complete /\ Starts("build", content.cast)
StartSummaries == Starts("summaries", {})

ReadPages(w) ==
    /\ At(w) = "read"
    /\ Moves(w, [at |-> "facts", known |-> writing[w].known, pages |-> body,
                 ledger |-> content.cast, sheet |-> <<>>])
    /\ UNCHANGED <<body, bodies, blocks, content, summaryRows, snapshot, builds, rewrites, apart>>

\* load_fact_block: source_hash is over the pages of the block and the ledger.
SavedAny(w, i) == blocks[i] # NoBlock                 \* slip: by the index of the block only
Saved(w, i) ==
    /\ blocks[i] # NoBlock
    /\ blocks[i].text = writing[w].pages[i] /\ blocks[i].ledger = writing[w].ledger

\* The model may name anybody; save_fact_block commits.
Facts(w) ==
    LET i == Len(writing[w].sheet) + 1
        Adds(block) == Moves(w, [writing[w] EXCEPT !.sheet = Append(@, block)])
    IN  /\ At(w) = "facts" /\ i <= Len(writing[w].pages)
        /\ \/ /\ Saved(w, i)
              /\ Adds(blocks[i])
              /\ UNCHANGED blocks
           \/ /\ ~Saved(w, i) /\ Unlocked
              /\ \E names \in SUBSET BookNames \ {{}} :
                     LET block == [text |-> writing[w].pages[i], ledger |-> writing[w].ledger, names |-> names]
                     IN  Adds(block) /\ blocks' = [blocks EXCEPT ![i] = block]
        /\ UNCHANGED <<body, bodies, content, summaryRows, snapshot, builds, rewrites, apart>>

\* prune_fact_blocks, then both passes of the writer.
Prune(w) ==
    /\ At(w) = "facts" /\ Len(writing[w].sheet) = Len(writing[w].pages) /\ Unlocked
    /\ blocks' = [i \in DOMAIN blocks |-> IF i > Len(writing[w].pages) THEN NoBlock ELSE blocks[i]]
    /\ Goes(w, "detailed")
    /\ UNCHANGED <<body, bodies, content, summaryRows, snapshot, builds, rewrites, apart>>

\* verify_summary_grounding reads the pages again; a fact of a page that is
\* gone is an error, and the verdict of the model may be one.  It commits a
\* report.
After(w) ==
    IF At(w) = "catalog" THEN "people" ELSE IF w = "build" THEN "catalog" ELSE "update"

Verify(w) ==
    /\ At(w) \in {"detailed", "catalog"}
    /\ Len(writing[w].sheet) <= Len(body)
    /\ Unlocked
    /\ Goes(w, After(w))
    /\ UNCHANGED <<body, bodies, blocks, content, summaryRows, snapshot, builds, rewrites, apart>>

\* write_and_edit_characters: those of the facts that the pages mention by now.
People ==
    LET sheet == writing["build"].sheet
        cast == UNION {sheet[i].names : i \in DOMAIN sheet} \cap Mentioned
    IN  /\ At("build") = "people"
        /\ cast # {}
        /\ Moves("build", [at |-> "guard", known |-> writing["build"].known, sheet |-> sheet, cast |-> cast])
        /\ UNCHANGED <<body, bodies, blocks, content, summaryRows, snapshot, builds, rewrites, apart>>

\* prepare_character_rows and guard_character_deletion_regression.
DropsOfFacts(known, cast) == {}                       \* slip: nothing is missed once the rows are prepared
Dropped(known, cast) == (known \ cast) \cap Mentioned

Guard ==
    LET cast == writing["build"].cast \cap Mentioned
    IN  /\ At("build") = "guard"
        /\ cast # {}
        /\ Dropped(writing["build"].known, cast) = {}
        /\ Moves("build", [writing["build"] EXCEPT !.at = "publish", !.cast = cast])
        /\ UNCHANGED <<body, bodies, blocks, content, summaryRows, snapshot, builds, rewrites, apart>>

TextsOf(w) == [i \in DOMAIN writing[w].sheet |-> writing[w].sheet[i].text]
Indexes(w, text) == Moves(w, [at |-> "delete", text |-> text])

\* replace_published_content and its commit.
PublishContent ==
    /\ At("build") = "publish" /\ Unlocked
    /\ content' = [summary |-> TextsOf("build"), catalog |-> TextsOf("build"), cast |-> writing["build"].cast]
    /\ Indexes("build", TextsOf("build"))
    /\ apart' = apart \cup Overlapping("build")
    /\ UNCHANGED <<body, bodies, blocks, summaryRows, snapshot, builds, rewrites>>

\* update_book_summary: the row is not committed yet.
UpdateSummary ==
    /\ At("summaries") = "update"
    /\ Indexes("summaries", TextsOf("summaries"))
    /\ apart' = apart \cup Overlapping("summaries")
    /\ UNCHANGED <<body, bodies, blocks, content, summaryRows, snapshot, builds, rewrites>>

\* index_book_summary: delete, then add.
Indexed(w) == IF w = "summaries" THEN Goes(w, "commit") ELSE Moves(w, Resting)

KeepsOld(w) == summaryRows                              \* slip: the old row is not deleted
Without(w) == {}

DeleteVector(w) ==
    /\ At(w) = "delete"
    /\ summaryRows' = Without(w)
    /\ Goes(w, "add")
    /\ UNCHANGED <<body, bodies, blocks, content, snapshot, builds, rewrites, apart>>

AddVector(w) ==
    /\ At(w) = "add"
    /\ summaryRows' = summaryRows \cup {writing[w].text}
    /\ Indexed(w)
    /\ UNCHANGED <<body, bodies, blocks, content, snapshot, builds, rewrites, apart>>

\* An error of the embedder or of LanceDB is logged; only the restore command raises it.
IndexFails(w) ==
    /\ At(w) \in {"delete", "add"}
    /\ Indexed(w)
    /\ apart' = apart \cup {"index failed"}
    /\ UNCHANGED <<body, bodies, blocks, content, summaryRows, snapshot, builds, rewrites>>

CommitSummary ==
    /\ At("summaries") = "commit"
    /\ content' = [content EXCEPT !.summary = writing["summaries"].text]
    /\ Moves("summaries", Resting)
    /\ UNCHANGED <<body, bodies, blocks, summaryRows, snapshot, builds, rewrites, apart>>

\* An error of a model or of a check, or the end of the process.
Stop(w) ==
    /\ writing[w] # Resting
    /\ Moves(w, Resting)
    /\ apart' = IF Indexing(w) THEN apart \cup {"stopped"} ELSE apart
    /\ UNCHANGED <<body, bodies, blocks, content, summaryRows, snapshot, builds, rewrites>>
-----------------------------------------------------------------------------
\* audit_generated_content.py.
TakeSnapshot ==
    /\ snapshot' = content
    /\ UNCHANGED <<body, bodies, blocks, content, summaryRows, writing, builds, rewrites, apart>>

\* Without a summary in the snapshot the rows stay.
RestoreContent ==
    /\ writing["restore"] = Resting /\ Unlocked
    /\ builds < MaxBuilds /\ builds' = builds + 1
    /\ content' = snapshot
    /\ IF snapshot.summary = NoText
       THEN /\ UNCHANGED writing
            /\ apart' = apart \cup (IF summaryRows # {} \/ Indexing("build") THEN {"restored nothing"} ELSE {})
       ELSE /\ Indexes("restore", snapshot.summary)
            /\ apart' = apart \cup Overlapping("restore")
    /\ UNCHANGED <<body, bodies, blocks, summaryRows, snapshot, rewrites>>

Changes == rewrites < MaxRewrites /\ rewrites' = rewrites + 1

\* build_character_summaries.py upserts one name.
AddCharacter ==
    /\ Unlocked /\ Changes
    /\ \E n \in Mentioned : content' = [content EXCEPT !.cast = @ \cup {n}]
    /\ UNCHANGED <<body, bodies, blocks, summaryRows, writing, snapshot, builds, apart>>

\* A publication of pages leaves what was generated.
Rewrite ==
    /\ Unlocked /\ Changes
    /\ body' \in Bodies
    /\ bodies' = bodies \cup {body'}
    /\ UNCHANGED <<blocks, content, summaryRows, writing, snapshot, builds, apart>>

\* publish_build of gpt61_rag_build.py, "serialized with all other writers":
\* _invalidate is committed before the rows are deleted.
Invalidate ==
    /\ \A w \in Writers : writing[w] = Resting
    /\ Changes
    /\ content' = Nothing
    /\ blocks' = [i \in DOMAIN blocks |-> NoBlock]
    /\ \/ summaryRows' = {} /\ UNCHANGED apart
       \/ summaryRows' = summaryRows /\ apart' = apart \cup {"stopped"}
    /\ UNCHANGED <<body, bodies, writing, snapshot, builds>>
-----------------------------------------------------------------------------
ContentNext ==
    \/ StartBuild \/ People \/ Guard \/ PublishContent
    \/ StartSummaries \/ UpdateSummary \/ CommitSummary
    \/ \E w \in {"build", "summaries"} : ReadPages(w) \/ Facts(w) \/ Prune(w) \/ Verify(w)
    \/ \E w \in Writers : DeleteVector(w) \/ AddVector(w) \/ IndexFails(w) \/ Stop(w)
    \/ TakeSnapshot \/ RestoreContent \/ AddCharacter \/ Rewrite \/ Invalidate

ContentSpec == ContentInit /\ [][ContentNext]_contentVars
-----------------------------------------------------------------------------
Published == [summary : Bodies \cup {NoText}, catalog : Bodies \cup {NoText}, cast : SUBSET BookNames]

\* Types of the book, its checkpoints and what is published.
ContentTypeOK ==
    /\ body \in Bodies /\ bodies \subseteq Bodies
    /\ \A i \in DOMAIN blocks : blocks[i] \in [text : BookTexts \cup {{}}, ledger : SUBSET BookNames, names : SUBSET BookNames]
    /\ content \in Published /\ snapshot \in Published
    /\ summaryRows \subseteq Bodies

\* A summary is written from one state of the pages, though its facts are
\* taken over from checkpoints of earlier builds and of other processes
\* (load_fact_block), and the short one tells of a state the book had too.
WrittenFromOneText ==
    \A s \in {content.summary, content.catalog} \cup summaryRows : s \in bodies \cup {NoText}

\* With no writer under way the search finds the summary that is shown, and
\* nothing if none is, unless the write of the vector failed or was stopped,
\* two writers wrote it at a time, or a restore had no summary to write
\* (index_book_summary comes after the commit, and its errors are logged).
SearchFindsSummary ==
    (\A w \in Writers : writing[w] = Resting) /\ apart = {} =>
        summaryRows = {content.summary} \ {NoText}

\* The published content is of one text, and the search finds it.
ContentAgrees == WrittenFromOneText /\ SearchFindsSummary

\* A build drops a published name that every state of the pages so far has
\* mentioned only if the name was added after the build began
\* (guard_character_deletion_regression; load_published_book_state comes first).
NamesAreKept ==
    [][At("build") = "publish" /\ writing'["build"].at = "delete" =>
           \A n \in content.cast \ content'.cast :
               (\A b \in bodies : \E i \in DOMAIN b : n \in b[i]) => n \notin writing["build"].known]_contentVars
=============================================================================
