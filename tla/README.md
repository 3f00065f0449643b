# Formal models of Pic2PDF Viewer

TLA+ models of the stateful parts of Pic2PDF Viewer, the TLC configurations that
check them on small instances and the theorems TLAPS proves about them. Paths are
relative to the repository. `PROJECT.json` lists, per definition, the source lines it
translates; per run, what it checks; per property, the mutant of the code that breaks
it; and the hazards of the code the properties are for.

Pic2PDF Viewer is a single-user LAN application: a FastAPI server (`backend/`, SQLite
databases `kindle_catalog.db`, `novel.db` and `meta2.db`, image directories), agents on
a Windows machine that capture Kindle books (`kindle-pdf/`) and recognise their text
(`backend/ocr_agent.py`), operator tools (`backend/tools/`, `scripts/`), a deployment
script and a React frontend. The agents reach the server over HTTP only; the server
never calls an agent.

## Inventory

| Part | State | Operations | What is hard | Correct when |
|---|---|---|---|---|
| Capture job table `capture_job_repository.py` | `capture_jobs` rows: status, owner, heartbeat | create, claim, heartbeat, update_state, stale recovery, mark_succeeded | requests arrive late, owners vanish, the recovery is a side effect of other requests | one unfinished job, one owner, final results, no premature timeout |
| Capture agent `kindle-pdf/capture_agent*.py` | job in hand, heartbeat thread, `.ready` packages | claim, report, capture, publish, complete, fail | lost replies, requests that outlive their sender, crashes, retries of a completion | what is delivered was captured, acknowledged and not lost; claimed jobs end |
| Capture registration `capture_registration.py`, `capture_publication.py`, `capture_recovery*.py` | image directory, backup generation, staging, package, library entry, job row, recovery record and lock | complete, six compensation steps, resume | any file operation fails, the server dies between two of them, the heartbeat expires meanwhile, the user edits the entry | registered images survive, a registration is all or nothing, damage is recorded and repairable |
| Capture loop `kindle-pdf/capture_loop.py`, `capture_canary.py` | images so far, attempts at the page key | turn, compare, detect the end | a live application that ignores keys or turns late, books that end in equal pages | no page skipped or doubled; it always ends |
| Catalogue imports `kindle_catalog/imports.py`, `*_importer.py` | tables of orders, dates, genres, purchases; `imported_files`, `import_runs` | import of a set of files | requests overlap, the exports change meanwhile, a run is cut off | the tables hold what the recorded files said |
| Price watch `price_*.py` | observations, queued notifications | record, queue, deliver, delete | a crash between delivery and its mark, two reporters, a deletion during a report | each crossing is queued once and delivered at least once |
| Novel job queue `job_queue.py`, `job_state.py`, `job_worker.py` | `rebuild_jobs`, the worker thread | enqueue, claim, finish, cancel, restart | cancellation against claim, failing writes to the queue itself | a cancelled job rests, a queued job is taken |
| OCR agent and runs `ocr_agent_jobs.py`, `ocr_run_store.py` | `rebuild_jobs` of mode `ocr`, `ocr_runs`, `ocr_page_results` | claim, submit, complete, fail, stale recovery | ownership checked in one transaction and used in the next; runs shared by jobs | a run in review is complete and left alone |
| OCR review and publication `ocr_qa_*.py`, `ocr_publication_history.py` | review columns, `pages`, `ocr_publications` | stage, review, approve, publish, re-activate | rows read before the run is claimed | only reviewed text is published, one active publication |
| OCR worker `ocr_worker*.py`, `surya_server.py`, `extractor.py` | child process, its output, the llama-server | start, watch, replace, stop | silent, killed and half-finished workers | every page of a job has one result, no result outlives its engine's refusal |
| Page index `page_fts_state.py`, `page_fts_builder.py`, `page_fts_query.py` | revision, active table | mark stale, build, activate, open | pages change during a build | a search never uses an index of other pages |
| Vector index builds `builder.py`, `page_index_builder.py`, `gpt61_rag_build.py`, `context_generation.py` | SQLite `chunks`, LanceDB rows, `books.indexed_at`, the run's manifest | rebuild a book, rebuild a page, verified build, generate contexts | no transaction spans the two stores; exceptions and stops between them; publications during a rebuild | an indexed book has one vector per chunk of its published pages |
| Generated content `full_builder.py`, `summarizer.py`, `fact_checkpoints.py`, `generation/` | fact checkpoints, summaries, characters, the vector of the summary | full build, summaries command, snapshot, restore | three processes write the same book, pages are published meanwhile | a published summary is of one text; known characters stay |
| Questions `routers/novel_db/qa*.py`, conversations `chat.py`, `qa_sessions.py` | `qa_history`, `qa_sessions`, `qa_messages` | ask, verify quotes, save; open, continue | streams end anywhere; the book changes while the model answers | a verified answer is of the current book; no row stays open unawaited, but for four named ends |
| Image-OCR campaign `sol_ocr_campaign.py`, `sol_ocr_import.py`, `sol_ocr_v2*.py` | files that name each other by digest, `ocr_runs` | pilot, batches, reconciliation, judgement, import | images change and files vanish between the steps, tools are cut off | imported text was judged, by a third session |
| Holdout ledger `sol_ocr_holdout.py` | ledger file, lock file, manifests | create, open, export, retire | commands overlap and die | a holdout is opened once and never after its retirement |
| Codex coordination `codex_coordination/store.py` | topics, messages, acknowledgements | send, acknowledge, reply, close | lost answers, retries with idempotency keys, closing | one message per key; closed topics stay closed |
| hitomi monitor `tools/hitomi_monitor.py`, `services/hitomi/` | `state.json`, `watchlist.json`, arrivals | run, add, remove, dismiss | a run holds a copy of the state for minutes; only runs take the lock | no arrival lost or announced again |
| Doujin generation `doujin_watcher.py`, `generate_service.py` | snapshots, generation lock, job store | tick, start, walk, move | the folder changes between scan, walk and move; items share a name or lie in each other | what is archived was generated; what was copied is tried |
| Series capture `scripts/kindle_series_*.py` | session file | start, wait, restart Kindle, resume | killed between a job and its record; other users of the server | each volume captured once, Kindle restarted once |
| Release activation `deploy/activate-backend.sh` | two links, flags, the frozen server | backup, migrate, switch, verify, restore | failures, signals and kills between any two commands | backend and common package of one release; the server runs |
| Backups `tools/server_backup.py`, `dense_backup_validation.py`, `deploy/backup-meta.sh` | generations, the lock of the timers | back up, purge, verify | copies of databases the server writes; commands without the lock | a published generation can be restored, recent ones stay |
| Library books `file_manager.py`, `meta_store.py`, `routers/library.py`, `meta/`, `series.py` | PDF, cover and images of a name, rows of `books_meta` | rename, delete, edit | three files and a row change one by one, other requests in between | files and row stay with their book |
| Page edits `image_service.py`, `routers/pdfs.py` | a directory of page images, the cover | reorder, delete pages | two rounds of renames without a lock, cut off or overlapping; a cover that fails unnoticed | no page is lost; an edit does what it reports |
| Language model client, frontend, migrations, offline benchmarks and maintenance scripts | request streams, client caches | | | |

Parts interact through shared tables and files: the capture agent drives the job table over
HTTP; `complete` moves the agent's package into the library and finishes the job; the series
script creates capture jobs and reads the catalogue; the OCR jobs read the registered images by
their hashes; their runs go to review; a publication advances the revision of the page index in
its own transaction; rebuilds, summaries, questions and conversations read the published pages;
the backups copy all databases while everyone writes.

## Modules

| Module | Models | Checked in |
|---|---|---|
| `CaptureJobs` | the capture job table, one action per transaction | `jobs` |
| `CaptureSlot` | what the table promises: a slot that holds one job and its owner | `jobs`, refined by `CaptureJobs` |
| `CaptureAgent` | agents, their heartbeat threads and the HTTP requests between them and the table (extends `CaptureJobs`) | `capture_agent`, `capture_agent_restart` |
| `CapturePublication` | the completion of a capture: file operations, compensation, recovery record, operator tool | `catalog`, `programs`, `capture_publication_race` |
| `CatalogImports` | imports of the Kindle exports | `catalog` |
| `PriceWatch` | one watched price and its notifications | `catalog` |
| `Backups` | backup generations, their removal and verification | `catalog` |
| `LibraryBooks` | the files of the library's books and their rows | `catalog` |
| `PageEdits` | the pages of a book of images | `catalog`, `page_reorder` |
| `OcrPublication` | review, approval, publication and re-activation of the OCR runs of one book | `ocr_publication`, `ocr_review`, `ocr_review_race` |
| `OcrAgentJobs` | OCR jobs, their runs, the agent and its calls | `jobs` |
| `ChunkIndex` | the two stores of the vector index | `indexes` |
| `PageFtsIndex` | the page-level full-text index | `indexes` |
| `BookContent` | facts, summaries and characters generated from a book | `indexes` |
| `RebuildJobs` | the job queue and its worker thread | `services` |
| `CodexCoordination` | the message store of the coding agents | `services` |
| `HitomiMonitor` | the monitor of new works and the edits of its watch list | `services` |
| `DoujinGeneration` | the folder watcher and the generation job | `services` |
| `ReleaseActivation` | the activation script and its trap | `services` |
| `SeriesCapture` | the script that captures a series, over `CaptureSlot` | `services` |
| `QaHistory` | questions about a book and their rows | `services` |
| `ChatSessions` | conversations about a book | `services` |
| `CaptureLoop` | the loop that captures a book screen by screen | `programs` |
| `OcrWorker` | the OCR process, its llama-server and the job that reads it | `programs` |
| `ImageOcrCampaign` | the image-OCR campaign from its pilot to the import | `programs` |
| `HoldoutLedger` | the ledger of the formal holdouts | `programs` |
| `CaptureAgent_proof` | theorems about the capture table and the agents that use it | |
| `CapturePublication_proof` | theorems about registration and recovery | |
| `Catalog_proof` | theorems about the imports, the watched price, the backups, the library and the pages, and about all of them under `MCCatalog` | |
| `OcrPublication_proof` | theorems about review and publication | |
| `Services_proof` | theorems about the parts of `MCServices` and their composition | |
| `Jobs_proof` | theorems about the OCR jobs, and about both job tables of `MCJobs` | |
| `Indexes_proof` | theorems about the full-text index, the generated content and the vector index, and about all three under `MCIndexes` | |
| `Programs_proof` | theorems about the image-OCR campaign and its ledger, the OCR worker and the capture loop, and about all of them under `MCPrograms` | |
| `MC...` | one per run or pair of runs: symmetry, inputs, and the compositions | |

`MCJobs`, `MCCatalog`, `MCIndexes`, `MCServices` and `MCPrograms` put several components into one run.
The components of one run share no state, so interleaving them would only multiply states: a
variable `focus`, chosen at the start and never changed, names the one that moves, and the
others rest in their first states. Fairness is stated of the component in focus. Components that
do interact are composed properly: `CaptureAgent` extends `CaptureJobs`, `SeriesCapture` has
the slot that `CaptureSlot` promises, `OcrAgentJobs` contains the queue's worker as far as it serves OCR jobs,
and `BookContent`, `ChunkIndex` and `QaHistory` each contain the publications they race with.

### CaptureJobs

`status`, `agent`, `started` are columns of `capture_jobs`; `age` replaces the timestamps:
the ticks since `COALESCE(heartbeat_at, claimed_at, requested_at)`. Every repository
function opens one `BEGIN IMMEDIATE` transaction, so each is one action, its
`_recover_stale` included; a function that raises rolls everything back and has no
action. The clock is read before the lock is awaited: an operation is parameterised by
its `lag`, and `MaxLag` bounds it.

`CaptureSlot` knows only the set of unfinished jobs, their owner and the results. The
refinement maps the table to it (`ImplementsSlot`).

### CaptureAgent

The main thread is a sequence of posts with work between them (`Works`, `Following`),
the heartbeat thread posts until its first failure. `net` holds the requests under way. A
thread waits for the reply or the HTTP timeout; a request whose sender gave up or died
stays in `net` with no addressee and may be served at any later time. The server's side is
the actions of `CaptureJobs`, guarded as the endpoints guard them. `ready` and `archived` are
the inbox and `processed/`. Crashes, timeouts and lost requests count as faults.

### CapturePublication

Each file operation, transaction and record write of `complete()` and of its compensation
is one action, so that a failure or a crash may fall between any two. All jobs are for one
book: they compete for its image directory and its library entry, while staging, backup,
package, record and lock are per job. `local` is the `CapturePublication` object of a worker,
`record` the JSON file of the recovery directory. A rename is atomic; deleting a directory
can stop half-way (`"debris"`). `origin` remembers what the library held at first and never
changes. `unsaved` is a history variable: the jobs of which a rollback saved neither its start nor its result, so
that their record still describes an earlier one (see "What the properties allow").

### OcrPublication

Every endpoint reads in autocommit mode and writes in a transaction of its own, so a call
of a worker thread is two or three actions and `call[w]` keeps what it read. `rows` are the
rows of `ocr_page_results`, `history` those of `ocr_publications` (`retired` is
`retired_at IS NOT NULL`), `canonical` the book's rows of `pages`. A text is `<<run, token>>`:
which run it came from and whether OCR or a reviewer wrote it. The layout type follows the
page type (both must be known, both come from the same request), so the model has one of the
two. `hint` and `sample` stand for the deterministic suggestions computed from the OCR text. `sample` of the legacy run is
fixed from the start, as the texts are that it will keep: the classification accepts this completed run as well and may take
its last pages for an appended sample (`colophon_or_ad`, not eligible for the index), which a later activation publishes.
`approved` is a history variable: what reviewers approved, page by page. `Abort` is any
exception, a failed backup included; all writes of a call are one transaction.

### ChunkIndex

`pages` are the published pages, `chunks` the SQLite rows that are committed, `vectors` the bag of
LanceDB rows - a bag, because LanceDB knows no key and the same id can be added twice. `op` is the
rebuild under way: what it read, the ids it replaces, the rows drafted in its open transaction and
those LanceDB still has to get. A rebuild holds SQLite's write lock from its first write to its
commit (`Locked`), so a publication falls before or after; LanceDB calls take effect at once and are
not undone. A process stop or an exception discards the draft and leaves the vectors. The page
rebuild alone compensates (`RollBack`, `Undo`, `Restore`). A page yields one chunk, or none if it is
not eligible. Ids are allocated as SQLite allocates them, so those of deleted rows come back.

One rebuild runs at a time: the job queue has one worker thread, and the operator's build is
documented to run with the queue empty. A publication always starts a fresh manifest (`sealed`
FALSE), the activation of an earlier run included.

`harm` is a history variable. It names the four ways in which the code, as it is, lets a book marked
as indexed disagree with its vectors:

* `"orphan"`: rows in LanceDB without a chunk - a rebuild failed after an add, or a publication with
  fewer pages removed chunks through `ON DELETE CASCADE`;
* `"lost"`: a book rebuild of an indexed book failed after its delete from LanceDB, before which,
  unlike the page rebuild, it does not clear `indexed_at`;
* `"stale"`: a rebuild set the mark that a publication in between had cleared, or a page rebuild
  marked a book whose other pages still waited;
* `"unembedded"`: a context batch failed between its delete and its add; the next generation heals it.

`StoresAgree` says that there is no fifth way. Each of the four is needed: without it TLC finds the
disagreement.

### OcrAgentJobs

A call of a server thread is several transactions: `calls` keeps what it read in the earlier ones,
and goes on when the agent has given it up. `fresh` says whether a heartbeat is within the timeout;
the timeout is an action that the claim of any job carries with it. A job prepares runs (`mapped`),
takes each run in two steps (`Select` reads in autocommit which run can be resumed, `picked` holds it, and `Prepare` sets it
running or creates one, without looking at its state again), fills them page by page (`runs[r].page`: a book has one page, which passed, failed or is missing) and
stages them for review. The same job runs without an agent in the queue's worker (`byAgent = FALSE`).
`strayed` marks the jobs one of whose calls outlived its sender, broke off or was cut short: only they
may disturb a review (`ReviewIsLeftAlone`), and only they, or a job whose run they marked failed or took
(`Disturbed`), may complete without a run in review. `taken` (history) keeps which job took which run, since a call that
broke off before `Map` leaves no runs with its job.

### PageFtsIndex

`revision` advances with every write of pages, in its transaction. A builder reads the revision and
the pages, writes a new LanceDB table, and activates it if the revision is still its own; a conflict
or failure drops the table. A search reads the active row, opens the table and queries it, each a
step. `ActiveIndexIsCurrent` and `OpenedTableIsCurrent` are what a reader relies on.

### BookContent

A text is the set of names it mentions, and a summary is identified with the texts it was written
from: so `WrittenFromOneText` can say that a summary mixes no two states of the book, although it may be
assembled from checkpoints of another process. Three writers - full build, summaries command, restore -
are processes of their own. `apart` names what may leave the vector behind the summary.

### RebuildJobs

`claim_next_job` and a cancellation are each a SELECT and an UPDATE in autocommit: the worker's
position and `canceling` hold what the first one saw. A write to the queue's own rows may fail; such a
failure while claiming or failing a job ends the thread (`worker.at = "dead"`). `told` and
`overlapped` record who was told "canceled" and which of these claims overlapped with it.

### CodexCoordination

Every call is one transaction; what is modelled beside it is the answer that gets lost and the call
that is repeated with the same key (`waiting`). Bodies are values; a digest is the body it is of.

### HitomiMonitor

The lock keeps runs apart and nothing else: an edit reads and replaces the same files in between.
`file` holds per artist the newest known work and those to be tried again; the monitor merges its copy
with the entries an edit added or removed. `since` (reset by a (re-)initialisation) and `beyond`
(works that had left the head of the site) delimit what `NothingIsMissed` promises.

### DoujinGeneration

Every copy the user makes is a version of its own, which a scan tells from others. The watcher starts
a job when two scans agree and differ from the last attempt; a request starts one at any time; the job
holds `generate_lock`. An item is read in two steps, the names of its files (`List`) and what they hold (`Process`): a file
that is replaced in between may come out in either version or break. What lies in a directory is read before it (`topdown=False`)
and moved before it.

Items are not books. `BookOf` gives the name an item has in the library, its last part without an ending: `x.zip`, `x` and `y/x`
write to one directory of images. `Inside` gives the items in an item's directory. An item that writes to a book may leave the
other items of that name without all their images (`Overwrites`), and a directory that is moved takes along what failed in it.
`job.swapped` are the items of which, between their reading and the move at the end of the whole walk, the user changed the
folder's copy or another item of the job wrote to the book.

Two simplifications: the images of a zip are one content (its entries are flattened to their last names, so of two that agree
the later one stays), and the loose images of the input folder are one item moved in one step.

### ReleaseActivation

`todo` is the list of commands the script has yet to execute, so that a failure or a signal can fall on any
and between any two; the EXIT trap replaces the list by that of the restoration, which depends on the
flags. `marks` names what the trap is no match for: a signal in one of the gaps between an action and the
flag that tells of it, a failing restoration, SIGKILL.

### SeriesCapture

Of the table of jobs the script relies on what `CaptureSlot` promises: `jobSlot` is one slot that it shares
with other users. `sessionFile`
is what is on disk, `guard` the copy of the process; every update of the file is one `os.replace`.

### QaHistory and ChatSessions

`asks` and `talks` keep what a request read before it asked the model. A question with verified quotes
reads the pages, the run and `indexed_at` once more in the transaction that saves it (`shelf`). A rebuild of a book is two
actions, since it holds SQLite's write transaction while it embeds (`busy`); a write then waits, or gives up after the 30 s of
`connection.py:24` (`WriteRefused`, which a fault of the disk causes as well; these faults count with the deaths of the server
against `MaxDeparted`). A stream may end with its last event, without it, with an exception (`Fails`, after which `save_error` is to
close the row), by a disconnection or cancellation (`save_finish` is to close it), while a part is sent to a reader who is gone, or
with the server. `unclosed` are the requests that ended without a word to their row. Conversations number their
turns; two requests of one session overlap freely.

### CaptureLoop

A screen is only known by its look, and the loop only compares looks; the book, the setting and what
Kindle does after the last screen (stay or go back) are arbitrary. `owed` are turns Kindle accepted and does
not show yet. `Distinguishable` states the books for which the loop's comparisons suffice.

### OcrWorker

The worker takes pages, its server can be found, started, replaced after its limit or failures in a row, and
left behind; lines go through `output` to `iter_ocr_pages`, which a watchdog and the end of the process wake.
A job that ended is started again for the pages that did not pass. The start of a server is one step (`EnterServer`): a crash in the
middle of it is a crash before or after it.

### ImageOcrCampaign and HoldoutLedger

The digests that the files carry are modelled as the things themselves: a reading carries the image, pilot
and purpose it was made for; a judgement the two readings; an imported row all of them. The tools check
digests, so what an action compares is what the code compares. Images and files change at any
time, tools stop between two files. The ledger's commands read, append and replace under a lock file that a dead
command leaves and an operator clears.

### CatalogImports

A content gives each ASIN a value or none, a digest is the content. The four files stand for the four ways of
writing: add, fill what is empty, replace a row, replace the table. `lapses` names why a skipped file may not be
in the tables.

### PriceWatch

An observation and its queued notifications are one transaction, the delivery is a loop of its own. The list
price is fixed. `posted` is what Discord got. A watch can be deleted at any time; its observations and notifications go with
it, a report in progress goes on with what it has read (`Orphaned`). The tables have no `AUTOINCREMENT`, so that the next watch can get
the same ids: `CreateWatch` lets any of the reports in progress meet the new rows, the others write nothing any more. `late`
marks a report that was sending for the deleted watch, `astray` what such a report marked.

### Backups

`live` gives the text of the chunks and of the vectors, which the server changes in any order; a backup copies
one after the other and publishes only copies its check finds paired. A lock belongs to the timers; the
commands of the operations guide run without it (`command[k].locked`).

### LibraryBooks

`parts` says which book each PDF, cover and directory of images belongs to, `rows` which edits the row of a name holds.
A request is about the book that has the name when it is sent; an edit looks for no book and makes a row for any name
(`StrayEdits`), which the next book of that name finds. The renames and removals are one action each, a failed
rename is rolled back step by step, and the row follows in `update_meta_locked`: read under the lock, written under the lock,
one action each. `Fields` are the groups of columns that different endpoints write (authors, views, series). `crossed`
are the books whose requests met each other on one name, or broke off by a crash or a cover that could not be removed:
nothing is promised of them, and everything of the others, whatever happens beside them.

### PageEdits

`files` is the directory: names, sorted as the server sorts them (scanned, temporary, final), and the page each holds.
A request lists the directory and then renames or removes file by file; two requests overlap freely. `tangled` says that
a reordering was cut off or met another one: from then on pages can be lost (`page_reorder`), but an edit that runs alone
and is reported as done still leaves the pages as it was asked to (`DoneAsAsked`). The cover is made last, and an edit reports success
also when it could not be made (`CoverFails`): it then stays as it was, or is broken (`NoCover`).

## Runs

| Run | Configuration | Bounds | What it shows |
|---|---|---|---|
| `jobs` | `Jobs.cfg` | captures: 3 jobs, 2 agents, timeout 2, lag 1; OCR: 2 jobs, 2 books, 2 server threads, 2 runs, 2 faults | `SlotIsOwned` (one unfinished job, an owner from the claim on), `TerminalIsFinal`, `FreshJobIsNotTimedOut`, `ImplementsSlot`: refinement of `CaptureSlot`; `ReviewedRunsAreComplete`, `JobsServeReview` |
| `capture_agent` | `CaptureAgent.cfg` | 2 agents, 2 jobs, 2 faults, 1 orphan | `AgentsMatchTable`: a job that awaits its files has a package, archived is succeeded, packages come from acknowledged captures, no job is in two hands |
| `capture_agent_restart` | `CaptureAgentRestart.cfg` | 1 agent restarted, 2 jobs, 1 fault | `JobsMoveOn`: every queued job is claimed, every claimed job ends |
| `catalog` | `Catalog.cfg` | captures: 1 job, 2 threads, tool, 2 failing operations, 1 crash, 1 edit; imports: 1 ASIN, 2 importers, 2 changes of files, 2 runs, 1 break; price: 2 reporters, 2 prices, 3 observations (2 after a break), 1 break or deletion; backups: 2 commands, days 0..2, retention 1, 2 generations, 1 rebuild, 1 fault; library: 3 names, 2 books, 2 threads, 3 requests, 1 fault; pages: 3, 2 threads, 2 edits, 1 cut off or without a cover | `RegisteredImagesKept`, `PackagesAndEditsKept`, `AllOrNothing`, `RecordsMatchDamage`; `CatalogAgrees` (imports, notifications, backups, the library's books and pages) |
| `capture_publication_race` | `CapturePublicationRace.cfg` | 2 jobs, 2 threads, nothing fails | a violation, see below |
| `page_reorder` | `PageReorder.cfg` | 2 pages, 1 thread, 2 edits, 1 cut off | a violation, see below |
| `ocr_publication` | `OcrPublication.cfg` | 2 runs, 1 page, 2 threads, 3 publications | `PublicationHistoryKept`, `CanonicalIsActiveRun` under every overlap |
| `ocr_review` | `OcrReview.cfg` | 1 run of 2 pages, 1 thread, 3 publications, no appended sample | `ReviewHolds`, `PublishedIsApproved` without overlaps |
| `ocr_review_race` | `OcrReviewRace.cfg` | 2 threads, 1 run | a violation, see below |
| `indexes` | `Indexes.cfg` | vectors: 2 books, 1 text, 2 pages, 4 ids, 4 operations, 2 publications, 2 faults; full text: 1 page, 2 texts, 2 builders, 1 reader, 3 revisions, 2 tables; content: 2 names, 2 texts, 2 pages, 2 builds, 1 rewrite | `IndexesAgree`, `ContentAgrees`, `FailedPageIsRestored`, `NamesAreKept` |
| `services` | `Services.cfg` | queue: 3 jobs, 2 failing writes, 1 restart; mail: 3 agents, 2 messages, 1 topic; monitor: 2 artists, 2 works, 2 edits, 1 failure; doujin: 3 items (a zip and a folder of one name, a folder inside the latter), 2 copies, 1 manual start; release: 3 mishaps; series: 2 volumes, 3 starts, 2 crashes; 1 question, 1 death of the server or fault of its disk; 2 requests and 3 turns of a conversation | `QueueAgrees`, `MessagesAgree`, `ScriptsAgree`, `ConversationsAgree`, `ArchivedWasGenerated`, `AnswersAreCurrent`, and that what waits is served |
| `programs` | `Programs.cfg` | recovery: 1 job, 1 thread, tool, 2 failing operations, 1 edit; loop: books of up to 4 screens, 2 slips; OCR worker: 4 pages, 2 jobs, 2 troubles; campaign: 1 page, 3 sessions, 2 pilots, 6 tools, 2 changes; ledger: 2 operators, 2 holdouts, 1 death, 2 exports | `CompleteOrRefused`, `WorkerAgrees`, `CampaignAgrees`, and that recoveries, captures and waiting for a worker end |

Why the bounds are enough to be interesting. Three capture jobs let a job follow one that timed out
and one that finished while a late request of the first is still under way; two agents are the
owner and the other. Timeout 2 with lag 1 separates "too old for everyone", "too old for a
request with a recent clock" and "fresh". Two failing operations hit a publication step and
one of its compensations, a crash on top hits the compensation of that. Two threads are the
request and its retry. Two books let an id that one of them lost be given to the other; two pages
are a page that is rebuilt and one that waits; two faults are a failure and that of its
compensation; four ids hold both books completely. Two OCR runs are one per book, or two of
one book: one that was staged and one prepared after it. Four screens are the fewest for which the loop's check for two
screens that alternate meets a true and a false case. Four pages let a worker's server reach its limit, be replaced and
fail twice in a row. Three sessions are the fewest that can read, read again and judge. Three doujin items are one name twice and one nesting. Days 0..2 with a
retention of one day have an expired, a barely kept and a fresh generation. Three mishaps of an
activation are a failure, one of its restoration and a signal.

Symmetry is used where values are interchangeable and no liveness is checked, except in
`catalog`, whose parts have few interchangeable values (there `ValuesInTurn` lets the exports begin
with the first of their values, which are only compared); `BookTexts`
are not interchangeable (they are sets of names), so `indexes` permutes only the books of `ChunkIndex`. In
`programs`, looks are numbered in the order of their appearance instead, since they are only compared.

Deadlock is checked in the runs of the capture agents. It is not checked in the others, where behaviours
legitimately end: a job that ended and an operator who does nothing; scripts that are done; counters
(publications, operations, messages, versions, days) that reached their bound.

### Fairness

* `RestartSpec` (`CaptureAgent`) assumes of an agent that lives that its threads go on (weak fairness
  per thread), of the server that it serves what arrived, and of time that it passes; it assumes nothing
  of crashes, losses and users. It also assumes that a crashed agent is started again, which the
  scheduled task on the Windows machine does. A capture ends although the loop has no limit of
  pages: that is what `LoopEnds` shows.
* The recovery part of `programs` assumes that a call in progress goes on and that the operator runs the
  tool while a record is left, as the documented recovery procedure asks.
* `RebuildJobs`: the worker thread goes on. A job ends because the model client has a timeout
  (600 s, `common/llm/local_llm/_backend.py:53`) and OCR jobs a watchdog.
* `DoujinGeneration`: the event loop ticks, and a job's thread goes on.
* `CaptureLoop`: the loop goes on, and a turn that Kindle accepted is shown at last. Nothing is
  assumed about ignored keys.
* `OcrWorker`: the process and its caller go on. A process that fell silent does not (its step is the
  watchdog's).

### Disagreements the runs show

* `capture_publication_race`. `complete()` looks for pending records before it loads the job,
  and `begin()` excludes only a second record of the *same* job. Two jobs of one book can be
  published at the same time when the first one's heartbeat expires during its publication:
  the table then admits the second. The rollback of the first removes the image directory by
  its path, with the images the second one registered. The design document says that formal
  images are kept and that no registration is accepted while a record is left.
* `ocr_review_race`. The rows to publish are read before the run is claimed, and reviews and
  classifications write what they decided on an earlier read: with two overlapping calls a page
  is published with a content nobody approved.

* `page_reorder`. A reordering renames every page to `__reorder_tmp_NNNN` and then to its final name. Stopped midway it leaves
  temporary names, which the next reordering lists as pages and renames others onto: `os.rename` replaces them. The comment
  of the function says that the two rounds make collisions safe, the change log that the files remain after a failure. Two
  overlapping reorderings lose pages in the same way, and nothing in the page grid (`PageGridOverlay.tsx`) holds back a
  second drag while the first is on its way.

Two properties of `ocr_review` are checked there under a restriction, which is part of what the
run says:

* `ReviewStands` needs a book without an appended sample (`SampleMayBeFound = FALSE`): the
  classification endpoint sets every page from a detected boundary on to `colophon_or_ad`,
  approved pages included, while the API document says that it touches pages of unknown type only.
* `RollbackRestores` needs calls that do not overlap (one worker): a review that passed its check
  before the publication writes the page type after it, and a later activation publishes the old
  text under the new type.

### What the properties allow

Properties are stated as strongly as the code keeps them. Where it does less than one would wish,
the property names the exception (a history variable, a condition), and without it TLC finds
the behaviour. These are, by part:

* *Capture recovery.* A resumed rollback goes on when it cannot save its phase. When saving its result fails as well,
  the earlier record stays, and the next `--resume` repeats what that record says: it takes the restored images for the
  published ones. The design document (`Kindle自動撮影ジョブ契約.md`) says that a repetition executes only the flags that
  are left, and that nothing is resumed automatically when the record could not be updated. `unsaved` names these jobs, and
  the properties promise nothing once there is one. The loss needs three failing operations, which is beyond the
  bound of `catalog`; the theorems hold for every bound and would fail without the exception, which is how it was found.
* *Vector index.* A book rebuild deletes from LanceDB the ids that SQLite has. An attempt that failed after
  its first add left rows that SQLite rolled back; the repetition does not know them, and adds a second
  copy or leaves them behind. Only the verified build, which deletes by the book's name as well, heals that.
* *OCR agent.* A claim that prepares for more than the timeout of 120 s is retried by the agent; the retry returns
  its running job with no pages, and the agent completes it with no books.
  A late failure report of such a job marks its run as failed even if another job has staged it meanwhile, and
  that job then completes with nothing in review. This needs three faults, more than the bound of `jobs`: the proof asked for
  the exception (`Disturbed`). A claim, too, undoes a staging: it reads the run to be resumed, and its later UPDATE looks at no state
  (`ocr_run_store.py:67-87`), so a run that a late completion of another job stages in between leaves the review. A job in
  order can be the one whose claim does it; that it needs a call that outlived its sender is what `ReviewIsLeftAlone` says.
* *Rollback of a publication.* `ocr_publication_history.py:1` promises an exact rollback of canonical pages. The texts come back
  exactly. The types do not: a classification of the legacy run takes the pages of an appended sample out of the narrative
  for good (`Restorable`), by `ocr_page_classification.py:15-41`.
* *Queue.* A caller is told "canceled" while the worker claims the job, which then runs
  (`job_state.py:24`). A database error while claiming or failing a job ends the worker thread until
  the server is restarted.
* *Generated content.* A failed vector write is only logged, and the next job skips a complete book; the restore of
  a snapshot without a summary leaves the later summary's vector; two writers can leave the other's vector;
  a publication of pages leaves the old summary published; a name added after a build began may be dropped.
* *Questions and conversations.* A conversation whose client leaves (`CancelledError` is not handled there, unlike in
  `/qa`) or whose stream ends without `done` keeps a question without reply; overlapping requests do not see each
  other's messages. The row of a question stays open after four ends: the server died; the reader was gone while a part was
  sent to it (`GeneratorExit` is neither `CancelledError` nor `Exception`); a plain stream ended without its last event; the
  write that was to close the row was refused. The last needs no fault: a rebuild of a long book embeds for longer than the
  30 s that SQLite waits, and then `save_finish` and `save_error` fail one after the other (`qa.py:136-148`).
* *Codex.* A reply that was stored and whose answer was lost is refused when it is repeated after the topic
  was closed (`store.py:288`).
* *Monitor.* An edit during a run can lose the `top_id` of a registration or bring a removed entry back. The
  properties hold from the last initialisation on.
* *Price.* An observation without a ratio makes the next one a fresh crossing; overlapping
  reporters post a notification twice, though the design says that none is sent again. A report that was sending when
  its watch was deleted may mark notifications of the next watch as sent, if that got the ids of the deleted one.
* *Doujin generation.* An item changed between its reading and the move is archived unread. Of items of one name the later
  one overwrites or mixes with the images of the earlier, and all are archived; an item that failed inside a directory that did
  not is moved away with it, though failed items are to stay. After a job failed as a
  whole, its items wait until the folder changes or a user starts one.
* *Activation.* A signal defeats the trap in four gaps: between SIGSTOP and `APP_FROZEN`, between a switch of a link
  and its flag, between the two resets of the flags, and between restoration and restart. SIGKILL always does.
* *Series.* One script at a time is assumed (the session file has no lock), and `--recover-kindle-crash`.
  A write of the file that fails while the breaker trips leaves the session resumable, like a crash.
* *Capture loop.* Captured by hand with the wrong page key, screens 1, 2, 1 are accepted as a book; when Kindle goes back
  after the last screen, that screen is dropped if it looks like the last but two.
* *OCR worker.* A killed or crashed worker leaves its llama-server running, though it is to own it for its
  lifetime (`surya_server.py:16`); the next worker takes it for an external one and never replaces it. The
  stage processes of a killed composite worker write the same checkpoint as their successors.
* *Holdouts.* "One-time" is per digest: the same seed gives the same pages under a new digest (`sealed_at`).
  A dead command leaves the lock file, which is removed by hand; an export may finish after the retirement.
* *Catalogue imports.* Dates imported before the orders that create their books are skipped, while the hash is
  recorded, so that they are never applied; a file that changes between its hash and its reading is recorded
  under the old hash; going back to an earlier export is skipped though the tables hold the later one; a stop of
  the server leaves a run "running".
* *Library.* A renaming looks for the PDF of the new name only. Onto a name that has only images it renames the cover over the
  other book's, fails at the images, and takes its own cover back: the other cover is gone, and the answer is 500 where the
  docstring promises `FileExistsError`. (No property asks a cover to exist.) Two requests on one name interleave freely. Edits of a
  name without a book leave a row to the next book of that name (`meta/core.py:119-135`, `library.py:108-109`): `RowsAreOwn` excepts them.
* *Page edits.* A cover that cannot be made is only logged (`pdf_generator.py:57-59`, ignored in `pdfs.py:76` and `125`); the edit
  is reported as done with the old cover or a broken one.
* *Backups.* The check of the vectors does not compare contexts; a killed backup leaves its staging directory,
  a killed removal may leave a generation without manifest, and nothing removes either. A backup by hand takes no
  lock and may remove a generation that a verification is restoring.

## Proofs

Every theorem holds for all values of the constants: any number of jobs, agents, threads, books, runs, works, messages,
requests, faults and crashes, where the runs of TLC have two or three. Each rests on an inductive invariant that says what the
process in the middle of a call holds; where the invariant of the run alone is not inductive, that is what was missing.

### The capture table (`CaptureAgent_proof`)

`TypeCorrect`, `OneUnfinished`, `Owned` and with them `OneOwned` (`SlotIsOwned`), `FinishedJobsStay`,
`FreshJobsSurvive` (`FreshJobIsNotTimedOut`) and `Refinement` (`ImplementsSlot`).

The inductive invariant is `TypeOK /\ AtMostOneUnfinished /\ OwnedFromClaim`. `Create` needs
only that no job is unfinished *after* the recovery; the lemmas on `Recovered` say that the
recovery adds no unfinished job, keeps the owner and leaves finished jobs alone. Ownership is
needed for the refinement: when a claim takes the one unfinished job, its owner must have been
empty. `FinishedJobsStay` is an action property that follows from types alone: every update is
conditional on an unfinished status. The refinement adds that a recovery and the request it rides
on are together one step, or none, of the slot.

### The capture agents (`CaptureAgent_proof`)

`AgentsAgree` proves `AgentsMatchTable`, `AgentTypeCorrect` the types. `AgentInv` adds to the invariant of the table
where the two threads of an agent may be (`ThreadsInOrder`: in the order of `Works`; `AwaitedIsLast`: of its requests only the
last can still be answered), that the job in a thread's hand is the agent's in the table (`HandIsOwn`), and how far the job got
when a request is under way (`ReportedIsPacked`, `CapturedOnce`, `PackedWasCaptured`, `CaptureIsAcknowledged`). Without the
first two, a late request of an earlier job could be taken for one of the present job.

`AgentsUseTable` is a refinement: a step of the agents, the network and the server is a step of `CaptureJobs` or none
(`AgentSpec => Spec`). All theorems about the table therefore hold under the agents (`AgentsKeepSlot`).

### Registration and recovery (`CapturePublication_proof`)

`ImagesAreKept`, `PackagesAndEditsAreKept`, `RegistrationIsAtomic` and `RecordsAreExact` prove the four invariants of
`catalog` under the hypothesis `[]OneJobAtATime`: the workers that are busy at the same time are busy with one job. The code does
not ensure it, which is what `capture_publication_race` shows; `SingleThreadIsSafe` proves that it needs no hypothesis with
one server thread or one job, beside any number of tools, failing operations and crashes (a tool only takes a job that has
a record, and `complete()` refuses every job while there is one). `RegistrationTypeCorrect` needs no hypothesis at all.

`PubInv` has four parts: types; what every worker knows at its step of `complete()`, rollback or tool (`WorkersOK`: which flags it
has set, which files these imply, how far the rollback is); who holds which lock and record (`HoldersOK`); and what the flags,
in memory or on disk, say of images, package, backup and library entry (`DiskOK`). The properties follow from
the last, which is not inductive without the others: every damage has its flag and every flag its damage (`Covers`, `Deserved`)
only up to the operation and the flag that the worker has in hand.

### Review and publication (`OcrPublication_proof`)

Under every overlap of calls: `TypesHold`, `ChainHolds`, `PublishedOnceHolds` and `OriginHolds`, together
`PublicationHistoryHolds` (`PublicationHistoryKept`), and `CanonicalHolds`.
`IInv` adds to these properties what a thread in the middle of a call
holds (`CallOK`: a run that was completed stays completed, so a stale read of it is still a read
of a published run), that the legacy run is never reviewed and a page of it is narrative, or was taken for a part of the
sample (`LegacyOK`, `LegacyType`: no request is accepted for it, and a classification changes no other known type), and that only
completed runs are in the history (`BookOK`). Without the last one a staging could change the
published texts of the active run. What `Append(Retired(h), e)` does to a chain is said once, in
`ChainGrows`.

Overlapping calls break `ReviewHolds` and `PublishedIsApproved` (`ocr_review_race`), and so does an appended sample the first.
`ReviewsAreKept` and `OnlyApprovedIsPublished` prove them under exactly the negation: at most one call in progress
(`[]OneCallAtATime`) and `~SampleMayBeFound`; `OneThreadReviews` discharges the former for a server with one thread.
`ReviewInv` adds that what a call has read is what the rows still hold (`CallIsCurrent`), and
that an approved row has a type and a content in `approved` (`RowsReviewed`).

### The services (`Services_proof`)

| Part | Theorem | Inductive invariant, and what it adds |
|---|---|---|
| job queue | `QueueIsKept` | `QueueInv`: the position of the worker fixes the state of its job's row (`WorkerKnowsJob`) |
| message store | `MailIsKept` | `MailInv`: ids are positions, every message has its topic (`MailFits`) |
| new works | `ArrivalsAreKept` | `MonitorInv`: every copy a run or an edit holds accounts for the works that appeared before it was read (`CopiesAccount`) |
| doujin | `ArchivedIsGenerated` | `DoujinInv`: what a job is about to move was generated in this version, or changed since, or shares its book with another item of the job (`MovesAreGenerated`); what a write to a book leaves is `BookWritten` |
| series | `SessionsAgree` | `SeriesInv`: attempts and volumes in memory are those of the file, a link exists for each volume won (`AttemptsAreOnFile`, `WinsAreLinked`) |
| questions | `RowsAreAwaited`, `AnswersQuoteTheBook` | `QaInv`: what each request holds at its step, and that a rebuild under way has a mark left to give (`QaTyped`) |
| activation | `ReleaseIsKept` | `ReleaseInv`: the place in the script, the trap or the rollback fixes release, server and flags (`ReleaseFollows`) |
| conversations | `ConversationsAreOrdered` | `ChatInv`: numbers are given once, each question is answered, awaited or abandoned (`OwnTurns`, `AnsweredOrAwaited`) |

`ServicesInvariants` composes them: a step of `MCServices` is a step of one part and leaves the
variables of the others as they are, so each invariant is kept by all of it. From it follow `ServicesKeepQueue`,
`ServicesKeepMessages`, `ServicesKeepConversations`, `ServicesAnswerCurrently`, `ServicesArchiveGenerated` and
`ServicesKeepScripts`, which state the properties of the run itself; `ServicesAreTyped` states its types.

The activation is a list of 25 commands. `ReleaseInv` says where the script can be: before some command of it (`InScript`), in the
trap with what is left to undo (`InTrap`), or in the rollback by hand. At each place it gives the paths, the state of the server and the
flags, which tell the trap what to take back. `ReleaseIsWhole` is only about the end of the script; what makes it true is that
a command and the flag for it are next to each other, so that a signal falls between the two at a few places only, and
these are the exceptions that the property names.

### The OCR jobs (`Jobs_proof`)

`OcrJobsTyped`, `ReviewedComplete` (`ReviewedRunsAreComplete`) and `OcrJobsServe` (`JobsServeReview`: `CompletedStaged` and
`ReviewLeftAlone`). `OcrJobsInv` adds:

* `CallsFit`: agent and server threads are at steps that fit the job they are for, and a call in order belongs to the running job;
* `PicksFit`: what a claim has read of a book is a run of that book; if that has come into review since then, a stray job had it, or
  the claim is of a stray job itself (`PickFits`);
* `JobsApart`: one job is running, its runs are prepared by one call, and the calls of a job write only to its runs;
* `ReviewRests`: a run in review that no stray job holds has no writer left;
* `TargetGoesOn`: the way of a job in order to its target - the call that prepares, fills or stages it will
  bring a run of the target book, or the job has one in `mapped` already.

Of these, `TargetGoesOn` is the strengthening that makes `CompletedJobIsStaged` provable at all: the completion does not look at the
target, it relies on every earlier step of its job. The exception `Disturbed` comes from here.

`JobsKeepInvariants` and `JobsKeepServing` compose the OCR jobs with the captures: every invariant and every action
property of the run `jobs` holds of `JobsSpec`.

### What is derived from the pages (`Indexes_proof`)

`FtsIsCurrent` proves `FtsAgrees`. `FtsInv` adds that a builder whose revision is still the present one has read the present
pages, into a table that is there, is its own and is not the active one (`BuildOk`, `TablesApart`), and that a search whose
revision is the present one sees the present pages (`SearchOk`). A revision thus names one state of the pages, although the builder
reads it in one transaction and the pages in another.

`ContentIsOfOneText` proves `ContentAgrees`, `KnownNamesStay` the action property `NamesAreKept`. `ContentInv` adds that what
each writer holds - pages, checkpoints, drafts - comes from one state that the book had (`WriterOk`), and that, as long as nothing is
recorded in `apart`, one writer at most has the vector in hand and the row it writes is the published summary's (`VectorOk`).

`VectorsAgree` proves `StoresAgree`, the types and the action property `FailedPageIsRestored` of the vector index, for every number
of books, texts, pages and ids. `VectorInv` says two things of a book that nothing works on (`AtRest`): its rows are there once and
each has its chunk, unless it has orphans, and if it is marked every chunk has its row, unless it awaits its embedding. Of
the book at work it says how far the operation is (`AtWork`):

* A rebuild (`WriteOk`). The draft is what was read (`DraftOk`), which is the published text unless a publication came between,
  and no chunk that stays has an id of the draft (`DraftApart`). This is where the allocation of ids matters: an id that comes back
  belonged to a chunk that is gone, and `LastIdOfFewer` and `RankIs` say that the ids of a draft are new among those that stay.
  While rows are added every row of the book is new or has a chunk that stays (`RowsAdded`), also after the rollback.
* A page rebuild (`PageOk`, `SavedOk`). The saved rows are those of the old ids. The snapshot compares only numbers; that
  as many rows as ids means one row for each id needs that no book has orphans, since a row with an id that came back would
  count as well. This is why `FailedPageIsRestored` has that premise, and `EveryIdIsSaved` is the step that uses it.
* A context generation (`ContextsOk`). The chunk in hand has no row between the delete and the add, and a row with a context
  before the chunk says so.

`harm` enters every part: without it none of them is inductive. The proof shows as well that a publication that
comes between two steps (`Cuts`) disturbs none of this but through the marks it clears and the orphans it leaves.

`IndexesKeepAgreeing` and `IndexesKeepContent` state all of it of `MCIndexes`, `IndexesAreTyped` the types: every property
of the run `indexes` holds of `IndexesSpec`.

### What the server keeps of the books (`Catalog_proof`)

| Part | Theorem | Inductive invariant, and what it adds |
|---|---|---|
| imports | `ImportsAreKept` | `ImportInv`: what a request took and what it has to do are together its run (`ImporterFits`), no two requests have one run (`RunsApart`) |
| watched price | `NotificationsAreReported` | `PriceInv`: an observation was compared with an earlier one that has a price (`SeenFits`), and crossed the threshold from there (`CrossingsFit`); a report whose watch was deleted knows nothing that the next one denies (`OrphanedFits`) |
| backups | `BackupsAreKept` | `BackupInv`: what a command holds of its generation (`CommandFits`), one command has the lock (`LockIsHeldOnce`) |
| library | `LibraryIsKept` | `LibraryInv`, below |
| pages | `PagesAreKept` | `PageInv`, below |

`CrossingsAreReportedOnce` speaks of the order of all observations, yet nothing of it has to be carried along: of two crossings, the
later was compared with an observation at or above the threshold, and if that one did not come between them, the later
report had overlapped (`CrossingsApart`).

*The library.* All is said of the books in no conflict, those outside `crossed`. `OwnFits` gives, for each request, where the parts
of its book are: a part that was moved under the new name, one that is left under the old one. That two requests that meet on
a name have both their books in `crossed` (`MetAreCrossed`) is not enough: a renaming may come to a name that a book without any
request has. `TakenFits` says that it then stops at the directory of images, which is renamed first among the parts that such a
book must have (`HaveImages`), and `MovedFits` that what it moved until then is not the other book's. The PDFs need a part of
their own (`Printed`): a library has either none or one for every book, and a deletion removes that first. `RowsFollow` and
`RowsBelong` carry the rows, of which only the edits of books count (`OwnEdits`); `LockedRows` says that whoever writes the table read it as it is.

*The pages.* As long as no reordering was cut off or met another, every rename of the reordering in progress has a name to go to, or
will have when it comes to it (`RoomAhead`), so nothing is overwritten. What an edit leaves behind is harder, since
it may begin over the temporary names of an earlier one. Of a reordering that runs alone, one of three things holds
(`AsWanted`): it will come to a file that is not there and raise (`Doomed`); it names a file twice and will raise at the second
(`Twice`); or there is a place for each page of the wanted order, in the first or the second half of the renames, and
no other file (`OnTrack`). A reordering begins in one of the three, each rename keeps it, and only the last one ends without an
error. Then the files are `Final(1)` to `Final(n)`, and `FinalsInOrder` shows that the listing returns them in this order.

`CatalogHolds` and `CatalogIsTyped` put the parts together, beside the registration of captures: both invariants of the
run that are about them hold of `CatalogSpec`.

### The campaign and its ledger (`Programs_proof`)

`LedgerKeepsItsOrder` proves `LedgerAgrees`. `LedgerInv` adds that a command that reads, writes or unlocks is the one the
lock file names, that what it is about to write extends the ledger as it is, and that a command that unlocks has its event
there (`CommandOk`). The lock of a dead command may be cleared because its owner is then at none of these steps.

`CampaignIsJudged` proves `PassedIsJudged` and the action property `RowsStay`. `CampaignInv` adds little: that readings name a
pilot that exists. Nothing is assumed of the files of the checker: the import compares each with what it judges, and
`BundleIsJudged` shows that these comparisons suffice. `ProgramsKeepTheCampaign` states both of `MCPrograms` (`CampaignAgrees`).

### The OCR worker (`Programs_proof`)

`WorkersAgree` proves `WorkerAgrees`. `WorkerInv` has four parts: the types, how many tasks are done where the worker is
(`TasksAsFar`), the server (`ServerOk`) and the job that reads the lines (`CallerOk`). The heart of the last is `LinesAgree`: what was
read and what is printed but not read are together the first tasks, in order, as long as the worker did not print a failure.
That a server answers no page after `FailureLimit` failures in a row is not inductive: a page must find a server that is not worn, so
`ServerOk` says this of the worker when it begins a page, and `OnePageMore` that such a server may answer one more.

### The capture loop (`Programs_proof`)

`CapturesComplete` proves `CompleteOrRefused`. What has to be known is where Kindle is. `LoopInv` follows it, in a behaviour without
trouble (`Clean`), through every place of the loop (`Following`):

* The images are the first screens of the book (`FollowsBook`), or all of them and, if Kindle goes back at the end, the last but one
  once more (`WentBack`).
* Before a key the window shows the screen saved last and nothing is owed (`BeforeKey`); after a key either this is so because
  every try was ignored or the book is over, or a turn is owed, or it was shown (`AfterKey`).
* The keys ignored in a row are counted by `deafness`, so a loop that gives up after `RetryCount` tries of the right key has heard
  at least one of them (`NotDeaf`), and stands on the last screen. The other key is pressed only after those, on the first screen, and
  there it changes nothing.

`Distinguishable` is used in two places: `ScreensDiffer` (the next screen has another image) and `CycleIsTheWayBack` (two screens that
came again are Kindle's way back and not two pages of the book). `LoopBasics` holds with trouble too: a wrong key does not pass the
canary, and the number of images is the expected one. `ProgramsKeepLoopAndWorker` states both of `MCPrograms`.

`ProgramsAreTyped` proves the types of all programs, which includes their bounds, and these need arguments. The turns that Kindle owes
are one at most, and one more for each that came late (`LoopBounds`). A server is entered with fewer pages than it may serve
(`WorkerBounds`). And a ledger has at most three events for each holdout: by `LedgerAgrees` no two of its events are the same, so its
positions are at most as many as the pairs of a holdout and a state (`LedgerIsShort`).

### Assumptions

Of the constants: their types; that `NoAgent` is no agent and the legacy run none of the OCR runs; that bounds on turns, works
and revisions are at least 1; and that the ids of jobs are positive, as those of an `INTEGER PRIMARY KEY` are. Of the behaviours:
the three hypotheses named above, and nothing else.

### What is only model-checked

Every invariant and every action property that a passing run checks is stated by a theorem, for all values of the
constants; the four of the registration and two of the review under the hypotheses named above. Left to TLC are the liveness
properties, since the prover reasons neither about fairness nor about `ENABLED`: `JobsMoveOn` (a queued capture is claimed, a claimed
one ends), `WaitingIsServed` (a queued job is taken, a copied item is tried) and `ProgramsEnd` (a recovery record is settled,
a capture loop ends, a worker is awaited). Induction over data is out of its reach as well, and avoided: what the models
compute from sequences is said by lemmas on positions and cardinalities, which rest on the library's facts and on the
well-founded order of the natural numbers.

The violated properties are those of the three runs that expect a violation (see above). Where a theorem has
a hypothesis or a property an exception, such a run, or the list in "What the properties allow", shows what happens without it.

## Not modelled

The repository has some 68,500 lines of implementation, of which the models translate about an eighth. Most of the
rest keeps no state that two actors share or that outlives a failure: parsers, prompts, ranking, text
normalisation and quality measures (data), the frontend, schemas, and a large body of offline scripts and benchmarks.

* *Library: the rest of it.* Folders (the same renames, with every key below), merging PDFs and the page edits of PDFs (a new
  file that replaces the old one), the detection of series (a function of all rows), the cached listing, pins, filters and
  settings (one locked update of one file each). The list of genres is read and written by its router outside of a lock:
  additions that overlap are lost, though the store says that it serialises them. Two processes that write `books_meta` are
  kept apart by SQLite only.
* *Reviewed packages and the first campaign protocol* (`codex_reviewed_ocr*.py`). One transaction per operation; the
  images are hashed before it, overlapping imports can both insert, and a package that was rolled back cannot
  be published again.
* *Discussions.* A file written once at the end of a stream; it says `partial: false` also when the stream ended
  without `done`, and its name has a resolution of one second.
* *Catalogue links, price settings, endpoints that only pass on*: single upserts.
* *Image comparison, windows and overlays* of the capture: a live application.
* *Recognition, adjudication, prompts, retrieval order*: results that pass or not, sets of pages.
* *Language model client*: no shared state. That a stream may end without its final event is in the models that read it.
* *Frontend*: rendering and caches; the server decides every conflict.
* *Schema migrations*: Alembic, at start-up; their place in an activation is in `ReleaseActivation`.
* *Offline benchmarks and maintenance scripts* (`scripts/maintenance`, `backend/scripts`): measurements and
  one-off repairs of one process.
