------------------------ MODULE OcrPublication_proof -----------------------
(***************************************************************************)
(* Theorems about OcrPublication, for all runs, pages, threads, texts and  *)
(* any number of publications: the history and the canonical pages in      *)
(* every execution, reviews and rollbacks as long as calls do not overlap. *)
(***************************************************************************)
EXTENDS OcrPublication, SequenceTheorems, TLAPS

Events == [run : AllRuns, action : {"publish", "rollback", "legacy_snapshot"},
           pages : [Pages -> Contents], superseded : Nat, retired : BOOLEAN]

\* A type that a page of the legacy run may have.
LegacyType(p, type) == type = OriginContent.type \/ (type = "other" /\ p \in sample[Legacy])

\* What a worker holds between its reads and its write.
CallOK(w) ==
    /\ pc[w] \in {"idle", "review", "classify", "approve", "publish", "activate"}
    /\ call[w] \in [run : AllRuns, page : {0} \cup Pages,
                    request : {call[w].request}, read : {call[w].read}]
    /\ pc[w] = "review" =>
         /\ call[w].run \in Runs /\ call[w].page \in Pages
         /\ call[w].request \in [qa : {"approved", "rejected"}, type : Types,
                                 engine : {"primary", "codex"}, corrected : Texts]
    /\ pc[w] \in {"classify", "publish", "activate"} => call[w].read \in [Pages -> Rows]
    /\ pc[w] \in {"approve", "publish"} => call[w].run \in Runs
    /\ pc[w] \in {"classify", "activate"} => runState[call[w].run] \in {"awaiting_qa", "completed"}
    /\ pc[w] = "activate" =>
         /\ runState[call[w].run] = "completed"
         /\ \A p \in Pages : call[w].read[p].pub # Unpublished
    /\ pc[w] \in {"classify", "activate"} /\ call[w].run = Legacy =>
         \A p \in Pages : /\ LegacyType(p, call[w].read[p].type)
                          /\ call[w].read[p].pub = OriginContent.text

Typed ==
    /\ \E known \in SUBSET Pages : origin = [p \in known |-> OriginContent]
    /\ runState \in [AllRuns -> {"none", "running", "awaiting_qa", "completed"}]
    /\ rows \in [AllRuns -> [Pages -> Rows]]
    /\ sample \in [AllRuns -> SUBSET Pages]
    /\ approved \in [AllRuns -> [Pages -> SUBSET Contents]]
    /\ pc \in [Workers -> {"idle", "review", "classify", "approve", "publish", "activate"}]
    /\ DOMAIN call = Workers
    /\ history \in Seq(Events)
    /\ Len(history) <= MaxEvents

\* The legacy run: it appears with the snapshot and is never reviewed.
LegacyOK ==
    /\ runState[Legacy] \in {"none", "completed"}
    /\ runState[Legacy] = "completed" =>
         /\ origin = [p \in Pages |-> OriginContent]
         /\ \A p \in Pages : /\ LegacyType(p, rows[Legacy][p].type)
                             /\ rows[Legacy][p].pub = OriginContent.text

\* The canonical pages follow the history.
BookOK ==
    /\ history = <<>> => canonical = origin
    /\ history # <<>> =>
         /\ canonical = history[Len(history)].pages
         /\ \A p \in Pages : rows[history[Len(history)].run][p].pub = canonical[p].text
         /\ DOMAIN origin # {} => runState[Legacy] = "completed"
    /\ \A i \in 1..Len(history) :
         /\ runState[history[i].run] = "completed"
         /\ history[i].action = "publish" => history[i].run # Legacy

\* The inductive invariant.
IInv ==
    /\ Typed
    /\ \A w \in Workers : CallOK(w)
    /\ LegacyOK
    /\ BookOK
    /\ HistoryIsChain
    /\ PublishedOnce

-----------------------------------------------------------------------------
(* Texts and rows. *)

\* The constants of the model have their types.
LEMMA TextTypes ==
    /\ NoText \in Texts
    /\ OriginContent \in Contents
    /\ NoRow \in Rows
BY DEF NoText, Texts, OriginContent, Contents, NoRow, Rows, AllRuns, Types

\* What is published of a row is a content.
LEMMA ContentType ==
    ASSUME NEW row \in Rows PROVE ContentOf(row) \in Contents
BY TextTypes DEF Rows, ContentOf, Contents, Published, Selected

\* Retiring changes nothing but the mark.
LEMMA RetiredEvents ==
    ASSUME NEW events \in Seq(Events)
    PROVE  /\ Retired(events) \in Seq(Events)
           /\ Len(Retired(events)) = Len(events)
           /\ \A i \in 1..Len(events) :
                /\ Retired(events)[i].retired = TRUE
                /\ Retired(events)[i].run = events[i].run
                /\ Retired(events)[i].action = events[i].action
                /\ Retired(events)[i].pages = events[i].pages
                /\ Retired(events)[i].superseded = events[i].superseded
<1>1. Len(events) \in Nat /\ DOMAIN events = 1..Len(events)
  BY LenProperties
<1>2. \A i \in 1..Len(events) : events[i] \in Events
  BY ElementOfSeq
<1>3. \A e \in Events :
        /\ [e EXCEPT !.retired = TRUE] \in Events
        /\ [e EXCEPT !.retired = TRUE].retired = TRUE
        /\ [e EXCEPT !.retired = TRUE].run = e.run
        /\ [e EXCEPT !.retired = TRUE].action = e.action
        /\ [e EXCEPT !.retired = TRUE].pages = e.pages
        /\ [e EXCEPT !.retired = TRUE].superseded = e.superseded
  BY DEF Events
<1>4. Retired(events) \in [1..Len(events) -> Events]
  BY <1>2, <1>3 DEF Retired
<1>5. Retired(events) \in Seq(Events)
  BY <1>1, <1>4, SeqDef
<1>6. Len(Retired(events)) = Len(events)
  BY <1>1, <1>4, <1>5, LenProperties
<1>7. \A i \in 1..Len(events) : Retired(events)[i] = [events[i] EXCEPT !.retired = TRUE]
  BY DEF Retired
<1> QED
  BY <1>2, <1>3, <1>5, <1>6, <1>7

\* A new publication continues the chain.
Continues(after, before, e) ==
    /\ after \in Seq(Events)
    /\ Len(after) = Len(before) + 1
    /\ after[Len(after)] = e
    /\ \A i \in 1..Len(after) :
         /\ after[i].superseded = i - 1
         /\ after[i].retired <=> i < Len(after)
    /\ \A i \in 1..Len(before) :
         /\ after[i].run = before[i].run
         /\ after[i].action = before[i].action
         /\ after[i].pages = before[i].pages

\* A history whose last event is retired by the next one stays a chain.
LEMMA ChainGrows ==
    ASSUME NEW before \in Seq(Events), NEW e \in Events,
           e.superseded = Len(before), e.retired = FALSE,
           \A i \in 1..Len(before) : before[i].superseded = i - 1
    PROVE  Continues(Append(Retired(before), e), before, e)
<1> DEFINE after == Append(Retired(before), e)
<1>1. /\ Retired(before) \in Seq(Events)
      /\ Len(Retired(before)) = Len(before)
      /\ \A i \in 1..Len(before) :
           /\ Retired(before)[i].retired = TRUE
           /\ Retired(before)[i].run = before[i].run
           /\ Retired(before)[i].action = before[i].action
           /\ Retired(before)[i].pages = before[i].pages
           /\ Retired(before)[i].superseded = before[i].superseded
  BY RetiredEvents
<1>2. /\ after \in Seq(Events)
      /\ Len(after) = Len(before) + 1
      /\ \A i \in 1..Len(before) : after[i] = Retired(before)[i]
      /\ after[Len(before) + 1] = e
  BY <1>1, AppendProperties
<1>3. Len(before) \in Nat
  BY LenProperties
<1>4. \A i \in 1..Len(after) : i \in 1..Len(before) \/ i = Len(before) + 1
  BY <1>2, <1>3
<1>5. \A i \in 1..Len(after) :
        /\ after[i].superseded = i - 1
        /\ after[i].retired <=> i < Len(after)
  BY <1>1, <1>2, <1>3, <1>4
<1> QED
  BY <1>1, <1>2, <1>3, <1>5 DEF Continues

\* What OCR leaves behind has the types of the schema.
LEMMA StagedTypes ==
    /\ Samples \subseteq SUBSET Pages
    /\ \A r \in Runs, p \in Pages, found \in Outcomes, ads \in Samples : StagedRow(r, p, found, ads) \in Rows
<1>1. Samples \subseteq SUBSET Pages
  BY DEF Samples
<1>2. ASSUME NEW r \in Runs, NEW p \in Pages, NEW found \in Outcomes, NEW ads \in Samples
      PROVE  StagedRow(r, p, found, ads) \in Rows
  <2>1. found.ok \in BOOLEAN /\ found.hint \in Types
    BY OcrPublicationAssumption
  <2>2. <<r, "ocr">> \in Texts
    BY DEF Texts, AllRuns
  <2> QED
    BY <2>1, <2>2, TextTypes DEF StagedRow, Rows, Types
<1> QED
  BY <1>1, <1>2

-----------------------------------------------------------------------------
(* The initial states. *)

\* The invariant holds at the start.
LEMMA InitIInv == Init => IInv
<1> SUFFICES ASSUME Init PROVE IInv
  OBVIOUS
<1> USE DEF Init
<1>1. history \in Seq(Events) /\ Len(history) = 0
  BY EmptySeq
<1>s. sample \in [AllRuns -> SUBSET Pages]
  BY StagedTypes
<1>2. Typed
  BY <1>1, <1>s, TextTypes, OcrPublicationAssumption DEF Typed
<1>3. \A w \in Workers : CallOK(w)
  BY DEF CallOK, NoCall, AllRuns
<1>4. LegacyOK
  BY OcrPublicationAssumption DEF LegacyOK, AllRuns
<1>5. BookOK /\ HistoryIsChain
  BY <1>1 DEF BookOK, HistoryIsChain
<1>6. PublishedOnce
  BY <1>1, OcrPublicationAssumption DEF PublishedOnce, AllRuns
<1> QED
  BY <1>2, <1>3, <1>4, <1>5, <1>6 DEF IInv

-----------------------------------------------------------------------------
(* The actions that leave the history alone. *)

\* The history and what depends on it stay as they are when no row of a
\* completed run gets another published text.
LEMMA BookStays ==
    ASSUME IInv, UNCHANGED <<canonical, history, origin>>,
           \A r \in AllRuns : runState[r] = "completed" <=> runState'[r] = "completed",
           \A r \in AllRuns, p \in Pages :
             runState[r] = "completed" => rows'[r][p].pub = rows[r][p].pub
    PROVE  BookOK' /\ HistoryIsChain' /\ PublishedOnce'
<1>1. \A i \in 1..Len(history) : history[i] \in Events
  BY ElementOfSeq DEF IInv, Typed
<1>2. history # <<>> => Len(history) \in 1..Len(history)
  BY EmptySeq DEF IInv, Typed
<1>3. BookOK'
  BY <1>1, <1>2 DEF IInv, BookOK, Events, AllRuns
<1>4. HistoryIsChain'
  BY DEF IInv, HistoryIsChain
<1>5. PublishedOnce'
  BY DEF IInv, PublishedOnce, AllRuns
<1> QED
  BY <1>3, <1>4, <1>5

\* Staging the rows of a run keeps it.
LEMMA StageIInv ==
    ASSUME IInv, NEW r \in Runs, Stage(r) PROVE IInv'
<1>1. PICK found \in [Pages -> Outcomes], ads \in Samples :
        /\ sample' = [sample EXCEPT ![r] = ads]
        /\ rows' = [rows EXCEPT ![r] = [p \in Pages |-> StagedRow(r, p, found[p], ads)]]
  BY DEF Stage
<1>2. /\ r \in AllRuns /\ r # Legacy
      /\ runState[r] = "running"
      /\ runState' = [runState EXCEPT ![r] = "awaiting_qa"]
      /\ UNCHANGED <<approved, bookVars, origin, workerVars>>
  BY OcrPublicationAssumption DEF Stage, AllRuns
<1>5. /\ [p \in Pages |-> StagedRow(r, p, found[p], ads)] \in [Pages -> Rows]
      /\ ads \in SUBSET Pages
  BY StagedTypes
<1>6. Typed'
  BY <1>1, <1>2, <1>5 DEF IInv, Typed, bookVars, workerVars
<1>s. sample'[Legacy] = sample[Legacy]
  BY <1>1, <1>2 DEF IInv, Typed, AllRuns
<1>7. \A w \in Workers : CallOK(w)'
  BY <1>2, <1>s DEF IInv, Typed, CallOK, LegacyType, workerVars
<1>8. LegacyOK'
  BY <1>1, <1>2, <1>s DEF IInv, Typed, LegacyOK, LegacyType, AllRuns
<1>9. BookOK' /\ HistoryIsChain' /\ PublishedOnce'
  BY <1>1, <1>2, BookStays DEF IInv, Typed, bookVars
<1> QED
  BY <1>6, <1>7, <1>8, <1>9 DEF IInv

\* A step that only moves a worker keeps the invariant if the worker's call
\* stays well formed.
LEMMA WorkerMoves ==
    ASSUME IInv, NEW w \in Workers,
           NEW step \in {"idle", "review", "classify", "approve", "publish", "activate"},
           NEW arguments, Goto(w, step, arguments), UNCHANGED <<runVars, bookVars, origin>>,
           CallOK(w)'
    PROVE  IInv'
<1> USE DEF runVars, bookVars
<1>1. Typed'
  BY DEF IInv, Typed, Goto
<1>2. ASSUME NEW v \in Workers PROVE CallOK(v)'
  <2>1. CASE v = w
    BY <2>1
  <2>2. CASE v # w
    BY <2>2 DEF IInv, Typed, CallOK, LegacyType, Goto
  <2> QED
    BY <2>1, <2>2
<1>3. LegacyOK'
  BY DEF IInv, LegacyOK, LegacyType
<1>4. BookOK' /\ HistoryIsChain' /\ PublishedOnce'
  BY BookStays
<1> QED
  BY <1>1, <1>2, <1>3, <1>4 DEF IInv

\* So does a review that is asked for,
LEMMA ReviewIInv ==
    ASSUME IInv, NEW w \in Workers, NEW r \in AllRuns, NEW p \in Pages, Review(w, r, p)
    PROVE  IInv'
<1>1. PICK asked \in Requests :
        Goto(w, "review", [run |-> r, page |-> p, request |-> Entered(r, asked), read |-> <<>>])
  BY DEF Review
<1>2. /\ asked.qa \in {"approved", "rejected"} /\ asked.type \in Types
      /\ asked.engine \in {"primary", "codex"} /\ asked.corrected \in {NoText} \cup Edits
      /\ asked \in [qa : {"approved", "rejected"}, type : Types,
                    engine : {"primary", "codex"}, corrected : {NoText} \cup Edits]
  BY OcrPublicationAssumption
<1>3. Entered(r, asked) \in [qa : {"approved", "rejected"}, type : Types,
                             engine : {"primary", "codex"}, corrected : Texts]
  BY <1>2, TextTypes DEF Entered, Texts
<1>4. r \in Runs
  BY DEF Review, IInv, LegacyOK, AllRuns
<1>5. CallOK(w)'
  BY <1>1, <1>3, <1>4 DEF CallOK, Goto, IInv, Typed, AllRuns
<1> QED
  BY <1>1, <1>5, WorkerMoves DEF Review

\* a classification that reads its rows,
LEMMA ClassifyIInv ==
    ASSUME IInv, NEW w \in Workers, NEW r \in AllRuns, Classify(w, r) PROVE IInv'
<1>1. Goto(w, "classify", [NoCall EXCEPT !.run = r, !.read = rows[r]])
  BY DEF Classify
<1>2. /\ pc'[w] = "classify"
      /\ call'[w] = [run |-> r, page |-> 0, request |-> "none", read |-> rows[r]]
  BY <1>1 DEF Goto, IInv, Typed, NoCall
<1>3. CallOK(w)'
  BY <1>2 DEF Classify, CallOK, IInv, Typed, LegacyOK, LegacyType, runVars
<1> QED
  BY <1>1, <1>3, WorkerMoves DEF Classify

\* an approval that is asked for,
LEMMA ApproveIInv ==
    ASSUME IInv, NEW w \in Workers, NEW r \in AllRuns, Approve(w, r) PROVE IInv'
<1>1. Goto(w, "approve", [NoCall EXCEPT !.run = r])
  BY DEF Approve
<1>2. r \in Runs
  BY DEF Approve, IInv, LegacyOK, AllRuns
<1>3. CallOK(w)'
  BY <1>1, <1>2 DEF CallOK, Goto, IInv, Typed, NoCall
<1> QED
  BY <1>1, <1>3, WorkerMoves DEF Approve

\* a publication that reads its rows,
LEMMA ReadRowsIInv ==
    ASSUME IInv, NEW w \in Workers, ReadRows(w) PROVE IInv'
<1>1. Goto(w, "publish", [call[w] EXCEPT !.read = rows[call[w].run]])
  BY DEF ReadRows
<1>2. call[w].run \in Runs /\ call[w].run \in AllRuns
  BY DEF ReadRows, IInv, CallOK, AllRuns
<1>3. CallOK(w)'
  BY <1>1, <1>2 DEF ReadRows, CallOK, Goto, IInv, Typed, AllRuns
<1> QED
  BY <1>1, <1>3, WorkerMoves DEF ReadRows

\* a rollback that reads the rows of an earlier run,
LEMMA ActivateIInv ==
    ASSUME IInv, NEW w \in Workers, NEW r \in AllRuns, Activate(w, r) PROVE IInv'
<1>1. Goto(w, "activate", [NoCall EXCEPT !.run = r, !.read = rows[r]])
  BY DEF Activate
<1>2. /\ pc'[w] = "activate"
      /\ call'[w] = [run |-> r, page |-> 0, request |-> "none", read |-> rows[r]]
  BY <1>1 DEF Goto, IInv, Typed, NoCall
<1>3. CallOK(w)'
  BY <1>2 DEF Activate, CallOK, IInv, Typed, LegacyOK, LegacyType, runVars
<1> QED
  BY <1>1, <1>3, WorkerMoves DEF Activate

\* A call that ends leaves nothing behind.
LEMMA ReturnOK ==
    ASSUME IInv, NEW w \in Workers, Return(w) PROVE CallOK(w)'
BY DEF IInv, Typed, Return, Goto, CallOK, NoCall, AllRuns

\* and a call that fails.
LEMMA AbortIInv ==
    ASSUME IInv, NEW w \in Workers, Abort(w) PROVE IInv'
<1>1. Goto(w, "idle", NoCall)
  BY DEF Abort, Return
<1> QED
  BY <1>1, ReturnOK, WorkerMoves DEF Abort

-----------------------------------------------------------------------------
(* The writes. *)

\* A reviewed or newly typed row is a row, with the published text it had.
LEMMA RowUpdates ==
    ASSUME NEW row \in Rows
    PROVE  /\ \A q \in [qa : {"approved", "rejected"}, type : Types,
                        engine : {"primary", "codex"}, corrected : Texts] :
                Reviewed(row, q) \in Rows /\ Reviewed(row, q).pub = row.pub
           /\ \A type \in Types :
                /\ WithType(row, type) \in Rows
                /\ WithType(row, type).pub = row.pub
                /\ WithType(row, type).type = type
<1>1. ASSUME NEW q \in [qa : {"approved", "rejected"}, type : Types,
                        engine : {"primary", "codex"}, corrected : Texts]
      PROVE  Reviewed(row, q) \in Rows /\ Reviewed(row, q).pub = row.pub
  BY DEF Reviewed, Rows
<1>2. ASSUME NEW type \in Types
      PROVE  /\ WithType(row, type) \in Rows
             /\ WithType(row, type).pub = row.pub
             /\ WithType(row, type).type = type
  BY DEF WithType, Rows
<1> QED
  BY <1>1, <1>2

\* The write of a review keeps the invariant.
LEMMA ReviewWriteIInv ==
    ASSUME IInv, NEW w \in Workers, ReviewWrite(w) PROVE IInv'
<1> DEFINE r == call[w].run
           p == call[w].page
           q == call[w].request
           row == Reviewed(rows[r][p], q)
<1>1. /\ r \in Runs /\ r \in AllRuns /\ r # Legacy /\ p \in Pages
      /\ q \in [qa : {"approved", "rejected"}, type : Types,
                engine : {"primary", "codex"}, corrected : Texts]
  BY OcrPublicationAssumption DEF ReviewWrite, IInv, CallOK, AllRuns
<1>2. rows[r][p] \in Rows
  BY <1>1 DEF IInv, Typed
<1>3. row \in Rows /\ row.pub = rows[r][p].pub
  BY <1>1, <1>2, RowUpdates
<1>4. /\ rows' = [rows EXCEPT ![r][p] = row]
      /\ approved' = [approved EXCEPT ![r][p] = @ \cup
           (IF row.qa = "approved" THEN {ContentOf(row)} ELSE {})]
      /\ Return(w)
      /\ UNCHANGED <<runState, sample, bookVars, origin>>
  BY DEF ReviewWrite
<1> HIDE DEF r, p, q, row
<1>5. ContentOf(row) \in Contents
  BY <1>3, ContentType
<1>6. rows' \in [AllRuns -> [Pages -> Rows]]
  BY <1>1, <1>3, <1>4 DEF IInv, Typed
<1>7. approved' \in [AllRuns -> [Pages -> SUBSET Contents]]
  BY <1>1, <1>4, <1>5 DEF IInv, Typed
<1>8. Typed'
  BY <1>4, <1>6, <1>7 DEF IInv, Typed, Return, Goto, bookVars
<1>9. ASSUME NEW v \in Workers PROVE CallOK(v)'
  <2>1. CASE v = w
    BY <1>4, <2>1, ReturnOK
  <2>2. CASE v # w
    BY <1>4, <2>2 DEF IInv, Typed, CallOK, LegacyType, Return, Goto
  <2> QED
    BY <2>1, <2>2
<1>10. LegacyOK'
  BY <1>1, <1>4 DEF IInv, Typed, LegacyOK, LegacyType, AllRuns
<1>11. BookOK' /\ HistoryIsChain' /\ PublishedOnce'
  <2>1. \A s \in AllRuns, o \in Pages : rows'[s][o].pub = rows[s][o].pub
    BY <1>1, <1>3, <1>4 DEF IInv, Typed
  <2> QED
    BY <1>4, <2>1, BookStays DEF bookVars
<1> QED
  BY <1>8, <1>9, <1>10, <1>11 DEF IInv

\* So does the write of a classification.
LEMMA ClassifyWriteIInv ==
    ASSUME IInv, NEW w \in Workers, ClassifyWrite(w) PROVE IInv'
<1> DEFINE r == call[w].run
           type(p) == Classified(call[w].read[p], p, r).type
           row(p) == WithType(rows[r][p], type(p))
<1>1. /\ r \in AllRuns
      /\ call[w].read \in [Pages -> Rows]
      /\ r = Legacy => \A p \in Pages : LegacyType(p, call[w].read[p].type)
  BY DEF ClassifyWrite, IInv, CallOK
<1>2. \A p \in Pages : rows[r][p] \in Rows /\ call[w].read[p] \in Rows
  BY <1>1 DEF IInv, Typed
<1>3. \A p \in Pages :
        type(p) = IF p \in sample[r] THEN "other"
                  ELSE IF call[w].read[p].type = "unknown" THEN call[w].read[p].hint
                  ELSE call[w].read[p].type
  BY <1>2 DEF Classified, Rows
<1>4. \A p \in Pages : type(p) \in Types
  BY <1>2, <1>3 DEF Rows, Types
<1>5. \A p \in Pages : row(p) \in Rows /\ row(p).pub = rows[r][p].pub /\ row(p).type = type(p)
  BY <1>2, <1>4, RowUpdates
<1>6. /\ rows' = [rows EXCEPT ![r] = [p \in Pages |-> row(p)]]
      /\ Return(w)
      /\ UNCHANGED <<runState, sample, approved, bookVars, origin>>
  BY DEF ClassifyWrite
<1>7. \A p \in Pages : r = Legacy => LegacyType(p, type(p))
  BY <1>1, <1>3 DEF LegacyType, OriginContent
<1> HIDE DEF r, type, row
<1>8. rows' \in [AllRuns -> [Pages -> Rows]]
  BY <1>1, <1>5, <1>6 DEF IInv, Typed
<1>9. Typed'
  BY <1>6, <1>8 DEF IInv, Typed, Return, Goto, bookVars
<1>10. ASSUME NEW v \in Workers PROVE CallOK(v)'
  <2>1. CASE v = w
    BY <1>6, <2>1, ReturnOK
  <2>2. CASE v # w
    BY <1>6, <2>2 DEF IInv, Typed, CallOK, LegacyType, Return, Goto
  <2> QED
    BY <2>1, <2>2
<1>11. \A s \in AllRuns, o \in Pages : rows'[s][o].pub = rows[s][o].pub
  BY <1>1, <1>5, <1>6 DEF IInv, Typed
<1>12. LegacyOK'
  <2>1. CASE r = Legacy
    BY <1>5, <1>6, <1>7, <1>11, <2>1 DEF IInv, Typed, LegacyOK, LegacyType, AllRuns
  <2>2. CASE r # Legacy
    BY <1>6, <2>2 DEF IInv, Typed, LegacyOK, LegacyType, AllRuns
  <2> QED
    BY <2>1, <2>2
<1>13. BookOK' /\ HistoryIsChain' /\ PublishedOnce'
  BY <1>6, <1>11, BookStays DEF bookVars
<1> QED
  BY <1>9, <1>10, <1>12, <1>13 DEF IInv

\* publish_pages changes the published text of one run and nothing else.
LEMMA MaterializedRows ==
    ASSUME IInv, NEW r \in AllRuns, NEW content \in [Pages -> Contents]
    PROVE  /\ Materialized(r, content) \in [AllRuns -> [Pages -> Rows]]
           /\ \A p \in Pages :
                /\ Materialized(r, content)[r][p].pub = content[p].text
                /\ Materialized(r, content)[r][p].type = rows[r][p].type
           /\ \A s \in AllRuns : s # r => Materialized(r, content)[s] = rows[s]
<1>1. \A row \in Rows, text \in Texts :
        /\ [row EXCEPT !.pub = text] \in Rows
        /\ [row EXCEPT !.pub = text].pub = text
        /\ [row EXCEPT !.pub = text].type = row.type
  BY DEF Rows
<1>2. \A p \in Pages : rows[r][p] \in Rows /\ content[p].text \in Texts
  BY DEF IInv, Typed, Contents
<1>3. [p \in Pages |-> [rows[r][p] EXCEPT !.pub = content[p].text]] \in [Pages -> Rows]
  BY <1>1, <1>2
<1>4. Materialized(r, content) =
        [rows EXCEPT ![r] = [p \in Pages |-> [rows[r][p] EXCEPT !.pub = content[p].text]]]
  BY DEF Materialized
<1> QED
  BY <1>1, <1>2, <1>3, <1>4 DEF IInv, Typed

\* So does the write of a rollback: the history grows by the run it returns to.
LEMMA ReactivateIInv ==
    ASSUME IInv, NEW w \in Workers, Reactivate(w) PROVE IInv'
<1> DEFINE r == call[w].run
           content == [p \in Pages |->
             [text |-> call[w].read[p].pub, type |-> call[w].read[p].type]]
           e == Event(r, "rollback", content, Len(history))
<1>1. /\ r \in AllRuns /\ runState[r] = "completed"
      /\ call[w].read \in [Pages -> Rows]
      /\ \A p \in Pages : call[w].read[p].pub # Unpublished
      /\ r = Legacy => \A p \in Pages : call[w].read[p].pub = OriginContent.text
  BY DEF Reactivate, IInv, CallOK
<1>2. content \in [Pages -> Contents]
  <2>1. \A p \in Pages : call[w].read[p] \in Rows
    BY <1>1
  <2>2. \A p \in Pages : call[w].read[p].pub \in Texts /\ call[w].read[p].type \in Types
    BY <1>1, <2>1 DEF Rows
  <2> QED
    BY <2>2 DEF Contents
<1>3. /\ history \in Seq(Events) /\ Len(history) \in Nat
      /\ \A i \in 1..Len(history) : history[i] \in Events
  BY LenProperties, ElementOfSeq DEF IInv, Typed
<1>4. e \in Events /\ e.superseded = Len(history) /\ e.retired = FALSE
      /\ e.run = r /\ e.pages = content /\ e.action = "rollback"
  BY <1>1, <1>2, <1>3 DEF Events, Event
<1>5. /\ pc[w] = "activate"
      /\ Len(history) < MaxEvents
      /\ canonical' = content
      /\ history' = Append(Retired(history), e)
      /\ rows' = Materialized(r, content)
      /\ Return(w)
      /\ UNCHANGED <<runState, sample, approved, origin>>
  BY DEF Reactivate
<1>6. \A p \in Pages : r = Legacy => content[p].text = OriginContent.text
  BY <1>1
<1> HIDE DEF r, content, e
<1>7. \A i \in 1..Len(history) : history[i].superseded = i - 1
  BY DEF IInv, HistoryIsChain
<1>8. Continues(history', history, e)
  BY <1>3, <1>4, <1>5, <1>7, ChainGrows
<1>9. /\ rows' \in [AllRuns -> [Pages -> Rows]]
      /\ \A p \in Pages :
           /\ rows'[r][p].pub = content[p].text
           /\ rows'[r][p].type = rows[r][p].type
      /\ \A s \in AllRuns : s # r => rows'[s] = rows[s]
  BY <1>1, <1>2, <1>5, MaterializedRows
<1>10. Typed'
  <2>1. Len(history') <= MaxEvents
    BY <1>3, <1>5, <1>8, OcrPublicationAssumption DEF Continues
  <2> QED
    BY <1>5, <1>8, <1>9, <2>1 DEF IInv, Typed, Return, Goto, Continues
<1>11. ASSUME NEW v \in Workers PROVE CallOK(v)'
  <2>1. CASE v = w
    BY <1>5, <2>1, ReturnOK
  <2>2. CASE v # w
    BY <1>5, <2>2 DEF IInv, Typed, CallOK, LegacyType, Return, Goto
  <2> QED
    BY <2>1, <2>2
<1>12. LegacyOK'
  BY <1>1, <1>5, <1>6, <1>9 DEF IInv, LegacyOK, LegacyType, AllRuns
<1>13. \A i \in 1..Len(history') : i \in 1..Len(history) \/ i = Len(history')
  BY <1>3, <1>8 DEF Continues
<1>14. BookOK'
  <2>1. history' # <<>>
    BY <1>3, <1>8, EmptySeq DEF Continues
  <2>2. DOMAIN origin # {} => runState[Legacy] = "completed"
    <3>1. CASE r = Legacy
      BY <1>1, <3>1
    <3>2. CASE r \in Runs
      BY <1>1, <1>3, <3>2, EmptySeq DEF IInv, BookOK, PublishedOnce
    <3> QED
      BY <1>1, <3>1, <3>2 DEF AllRuns
  <2>3. \A i \in 1..Len(history') :
          /\ runState[history'[i].run] = "completed"
          /\ history'[i].action = "publish" => history'[i].run # Legacy
    BY <1>1, <1>4, <1>8, <1>13 DEF IInv, BookOK, Continues
  <2> QED
    BY <1>4, <1>5, <1>8, <1>9, <2>1, <2>2, <2>3 DEF BookOK, Continues
<1>15. HistoryIsChain'
  BY <1>8 DEF HistoryIsChain, Continues
<1>16. PublishedOnce'
  <2>1. ASSUME NEW s \in Runs
        PROVE  \A i \in 1..Len(history') :
                 history'[i].run = s /\ history'[i].action = "publish"
                 => /\ i \in 1..Len(history)
                    /\ history[i].run = s /\ history[i].action = "publish"
    BY <1>4, <1>8, <1>13 DEF Continues
  <2>2. ASSUME NEW s \in Runs
        PROVE  \A i \in 1..Len(history) :
                 history[i].run = s /\ history[i].action = "publish"
                 => /\ i \in 1..Len(history')
                    /\ history'[i].run = s /\ history'[i].action = "publish"
    BY <1>3, <1>8 DEF Continues
  <2>3. PublishedOnce /\ runState' = runState
    BY <1>5 DEF IInv
  <2> QED
    BY <2>1, <2>2, <2>3 DEF PublishedOnce
<1> QED
  BY <1>10, <1>11, <1>12, <1>14, <1>15, <1>16 DEF IInv

\* The history a publication adds to, with the legacy snapshot if it is due.
LEMMA SnapshotHistory ==
    ASSUME IInv, NeedsSnapshot => DOMAIN canonical = Pages
    PROVE  /\ WithSnapshot \in Seq(Events)
           /\ \A i \in 1..Len(WithSnapshot) :
                /\ WithSnapshot[i].superseded = i - 1
                /\ \/ NeedsSnapshot /\ WithSnapshot[i].run = Legacy
                                    /\ WithSnapshot[i].action = "legacy_snapshot"
                   \/ /\ ~NeedsSnapshot
                      /\ runState[WithSnapshot[i].run] = "completed"
                      /\ WithSnapshot[i].action = "publish" => WithSnapshot[i].run # Legacy
           /\ ~NeedsSnapshot => WithSnapshot = history
<1>1. CASE NeedsSnapshot
  <2>1. canonical = [p \in Pages |-> OriginContent]
    BY <1>1 DEF NeedsSnapshot, IInv, BookOK, Typed
  <2> DEFINE first == Event(Legacy, "legacy_snapshot", canonical, 0)
  <2>2. /\ first \in Events /\ first.superseded = 0
        /\ first.run = Legacy /\ first.action = "legacy_snapshot"
    BY <2>1, TextTypes DEF Event, Events, AllRuns
  <2>3. WithSnapshot = <<first>>
    BY <1>1 DEF WithSnapshot
  <2> HIDE DEF first
  <2>4. WithSnapshot \in Seq(Events) /\ Len(WithSnapshot) = 1 /\ WithSnapshot[1] = first
    BY <2>2, <2>3
  <2>5. \A i \in 1..Len(WithSnapshot) : i = 1
    BY <2>4
  <2> QED
    BY <1>1, <2>2, <2>4, <2>5
<1>2. CASE ~NeedsSnapshot
  BY <1>2 DEF WithSnapshot, IInv, Typed, HistoryIsChain, BookOK
<1> QED
  BY <1>1, <1>2

\* The row that keeps a page from before the first publication.
LEMMA LegacyRowTypes ==
    /\ LegacyRow(OriginContent) \in Rows
    /\ LegacyRow(OriginContent).pub = OriginContent.text
    /\ LegacyRow(OriginContent).type = OriginContent.type
BY TextTypes DEF LegacyRow, NoRow, OriginContent, Rows, Texts, AllRuns, Types, Contents

\* So does a publication, the first of a book with the snapshot of its old
\* text.
LEMMA PublishIInv ==
    ASSUME IInv, NEW w \in Workers, Publish(w) PROVE IInv'
<1> DEFINE r == call[w].run
           content == [p \in Pages |-> ContentOf(call[w].read[p])]
           before == WithSnapshot
           e == Event(r, "publish", content, Len(before))
<1>1. /\ r \in Runs /\ r \in AllRuns /\ r # Legacy
      /\ call[w].read \in [Pages -> Rows]
  BY OcrPublicationAssumption DEF Publish, IInv, CallOK, AllRuns
<1>2. content \in [Pages -> Contents]
  BY <1>1, ContentType
<1>3. /\ before \in Seq(Events) /\ Len(before) \in Nat
      /\ \A i \in 1..Len(before) : before[i] \in Events
      /\ \A i \in 1..Len(before) : before[i].superseded = i - 1
  <2>1. /\ before \in Seq(Events)
        /\ \A i \in 1..Len(before) : before[i].superseded = i - 1
    BY SnapshotHistory DEF Publish
  <2> QED
    BY <2>1, LenProperties, ElementOfSeq
<1>4. e \in Events /\ e.superseded = Len(before) /\ e.retired = FALSE
      /\ e.run = r /\ e.pages = content /\ e.action = "publish"
  BY <1>1, <1>2, <1>3 DEF Events, Event
<1>5. /\ pc[w] = "publish"
      /\ runState[r] = "awaiting_qa"
      /\ NeedsSnapshot => DOMAIN canonical = Pages
      /\ Len(before) < MaxEvents
      /\ canonical' = content
      /\ history' = Append(Retired(before), e)
      /\ rows' = IF NeedsSnapshot
                 THEN [Materialized(r, content) EXCEPT
                         ![Legacy] = [p \in Pages |-> LegacyRow(canonical[p])]]
                 ELSE Materialized(r, content)
      /\ runState' = [runState EXCEPT ![r] = "completed",
                                      ![Legacy] = IF NeedsSnapshot THEN "completed" ELSE @]
      /\ Return(w)
      /\ UNCHANGED <<sample, approved, origin>>
  BY DEF Publish, StillApprovable
<1>6. /\ \A i \in 1..Len(before) :
           \/ NeedsSnapshot /\ before[i].run = Legacy /\ before[i].action = "legacy_snapshot"
           \/ /\ ~NeedsSnapshot
              /\ runState[before[i].run] = "completed"
              /\ before[i].action = "publish" => before[i].run # Legacy
      /\ ~NeedsSnapshot => before = history
  BY <1>5, SnapshotHistory
<1> HIDE DEF r, content, before, e
<1>7. Continues(history', before, e)
  BY <1>3, <1>4, <1>5, ChainGrows
<1>8. NeedsSnapshot => /\ history = <<>>
                       /\ canonical = [p \in Pages |-> OriginContent] /\ canonical = origin
  BY <1>5 DEF NeedsSnapshot, IInv, BookOK, Typed
<1>9. /\ rows' \in [AllRuns -> [Pages -> Rows]]
      /\ \A p \in Pages : rows'[r][p].pub = content[p].text
      /\ \A s \in AllRuns : s # r /\ s # Legacy => rows'[s] = rows[s]
      /\ NeedsSnapshot => rows'[Legacy] = [p \in Pages |-> LegacyRow(OriginContent)]
      /\ ~NeedsSnapshot => rows'[Legacy] = rows[Legacy]
  <2>1. /\ Materialized(r, content) \in [AllRuns -> [Pages -> Rows]]
        /\ \A p \in Pages : Materialized(r, content)[r][p].pub = content[p].text
        /\ \A s \in AllRuns : s # r => Materialized(r, content)[s] = rows[s]
    BY <1>1, <1>2, MaterializedRows
  <2>2. Legacy \in AllRuns
    BY DEF AllRuns
  <2>3. CASE NeedsSnapshot
    <3>1. rows' = [Materialized(r, content) EXCEPT
                     ![Legacy] = [p \in Pages |-> LegacyRow(OriginContent)]]
      BY <1>5, <1>8, <2>3
    <3> QED
      BY <1>1, <2>1, <2>2, <2>3, <3>1, LegacyRowTypes
  <2>4. CASE ~NeedsSnapshot
    BY <1>1, <1>5, <2>1, <2>2, <2>4
  <2> QED
    BY <2>3, <2>4
<1>10. /\ runState' \in [AllRuns -> {"none", "running", "awaiting_qa", "completed"}]
       /\ \A s \in AllRuns : runState[s] = "completed" => runState'[s] = "completed"
       /\ runState'[r] = "completed"
       /\ \A s \in Runs : s # r => runState'[s] = runState[s]
       /\ NeedsSnapshot => runState'[Legacy] = "completed"
       /\ ~NeedsSnapshot => runState'[Legacy] = runState[Legacy]
       /\ \A s \in AllRuns : runState[s] \in {"awaiting_qa", "completed"}
            => runState'[s] \in {"awaiting_qa", "completed"}
  BY <1>1, <1>5, OcrPublicationAssumption DEF IInv, Typed, AllRuns
<1>11. Typed'
  <2>1. Len(history') <= MaxEvents
    BY <1>3, <1>5, <1>7, OcrPublicationAssumption DEF Continues
  <2> QED
    BY <1>5, <1>7, <1>9, <1>10, <2>1 DEF IInv, Typed, Return, Goto, Continues
<1>12. ASSUME NEW v \in Workers PROVE CallOK(v)'
  <2>1. CASE v = w
    BY <1>5, <2>1, ReturnOK
  <2>2. CASE v # w
    <3>1. CallOK(v) /\ pc'[v] = pc[v] /\ call'[v] = call[v]
      BY <1>5, <2>2 DEF IInv, Typed, Return, Goto
    <3>2. call[v].run \in AllRuns
      BY <3>1 DEF CallOK
    <3> QED
      BY <1>5, <1>10, <3>1, <3>2 DEF CallOK, LegacyType
  <2> QED
    BY <2>1, <2>2
<1>13. LegacyOK'
  <2>1. CASE NeedsSnapshot
    BY <1>5, <1>8, <1>9, <1>10, <2>1, LegacyRowTypes DEF IInv, LegacyOK, LegacyType
  <2>2. CASE ~NeedsSnapshot
    BY <1>5, <1>9, <1>10, <2>2 DEF IInv, LegacyOK, LegacyType
  <2> QED
    BY <2>1, <2>2
<1>14. \A i \in 1..Len(history') : i \in 1..Len(before) \/ i = Len(history')
  BY <1>3, <1>7 DEF Continues
<1>15. BookOK'
  <2>1. history' # <<>>
    BY <1>3, <1>7, EmptySeq DEF Continues
  <2>2. DOMAIN origin # {} => runState'[Legacy] = "completed"
    BY <1>8, <1>10 DEF IInv, BookOK, NeedsSnapshot
  <2>3. \A i \in 1..Len(before) : before[i].run \in AllRuns
    BY <1>3 DEF Events
  <2>4. \A i \in 1..Len(history') :
          /\ runState'[history'[i].run] = "completed"
          /\ history'[i].action = "publish" => history'[i].run # Legacy
    BY <1>1, <1>4, <1>6, <1>7, <1>10, <1>14, <2>3 DEF Continues
  <2>5. history'[Len(history')] = e
    BY <1>7 DEF Continues
  <2>6. /\ canonical' = history'[Len(history')].pages
        /\ history'[Len(history')].run = r
    BY <1>4, <1>5, <2>5
  <2>7. \A p \in Pages : rows'[history'[Len(history')].run][p].pub = canonical'[p].text
    BY <1>5, <1>9, <2>6
  <2> QED
    BY <1>5, <2>1, <2>2, <2>4, <2>6, <2>7 DEF BookOK
<1>16. HistoryIsChain'
  BY <1>7 DEF HistoryIsChain, Continues
<1>17. PublishedOnce'
  <2>1. ASSUME NEW s \in Runs
        PROVE  \A i \in 1..Len(history') :
                 history'[i].run = s /\ history'[i].action = "publish"
                 <=> \/ i = Len(history') /\ s = r
                     \/ /\ i \in 1..Len(history) /\ i # Len(history')
                        /\ history[i].run = s /\ history[i].action = "publish"
    BY <1>3, <1>4, <1>6, <1>7, <1>8, <1>14, EmptySeq DEF Continues
  <2>2. ASSUME NEW s \in Runs
        PROVE  \A i \in 1..Len(history) :
                 i \in 1..Len(history') /\ i # Len(history')
    BY <1>3, <1>6, <1>7, <1>8, EmptySeq DEF Continues
  <2>3. \A i \in 1..Len(history) : ~(history[i].run = r /\ history[i].action = "publish")
    BY <1>1, <1>5 DEF IInv, PublishedOnce
  <2>4. Len(history') \in 1..Len(history')
    BY <1>3, <1>7 DEF Continues
  <2>5. ASSUME NEW s \in Runs, s # r
        PROVE  /\ runState'[s] = "completed" <=>
                    \E i \in 1..Len(history') :
                      history'[i].run = s /\ history'[i].action = "publish"
               /\ \A i, k \in 1..Len(history') :
                    /\ history'[i].action = "publish" /\ history'[i].run = s
                    /\ history'[k].action = "publish" /\ history'[k].run = s
                    => i = k
    BY <1>10, <2>1, <2>2, <2>5 DEF IInv, PublishedOnce
  <2>6. /\ runState'[r] = "completed" <=>
             \E i \in 1..Len(history') :
               history'[i].run = r /\ history'[i].action = "publish"
        /\ \A i, k \in 1..Len(history') :
             /\ history'[i].action = "publish" /\ history'[i].run = r
             /\ history'[k].action = "publish" /\ history'[k].run = r
             => i = k
    BY <1>1, <1>10, <2>1, <2>3, <2>4
  <2> QED
    BY <2>5, <2>6 DEF PublishedOnce
<1> QED
  BY <1>11, <1>12, <1>13, <1>15, <1>16, <1>17 DEF IInv

-----------------------------------------------------------------------------
(* The theorems. *)

\* Every step keeps the invariant.
LEMMA NextIInv == IInv /\ [Next]_vars => IInv'
<1> SUFFICES ASSUME IInv, [Next]_vars PROVE IInv'
  OBVIOUS
<1>1. ASSUME NEW r \in Runs, Stage(r) PROVE IInv'
  BY <1>1, StageIInv
<1>2. ASSUME NEW w \in Workers, NEW r \in AllRuns, NEW p \in Pages, Review(w, r, p) PROVE IInv'
  BY <1>2, ReviewIInv
<1>3. ASSUME NEW w \in Workers, NEW r \in AllRuns, Classify(w, r) PROVE IInv'
  BY <1>3, ClassifyIInv
<1>4. ASSUME NEW w \in Workers, NEW r \in AllRuns, Approve(w, r) PROVE IInv'
  BY <1>4, ApproveIInv
<1>5. ASSUME NEW w \in Workers, NEW r \in AllRuns, Activate(w, r) PROVE IInv'
  BY <1>5, ActivateIInv
<1>6. ASSUME NEW w \in Workers, ReviewWrite(w) PROVE IInv'
  BY <1>6, ReviewWriteIInv
<1>7. ASSUME NEW w \in Workers, ClassifyWrite(w) PROVE IInv'
  BY <1>7, ClassifyWriteIInv
<1>8. ASSUME NEW w \in Workers, ReadRows(w) PROVE IInv'
  BY <1>8, ReadRowsIInv
<1>9. ASSUME NEW w \in Workers, Publish(w) PROVE IInv'
  BY <1>9, PublishIInv
<1>10. ASSUME NEW w \in Workers, Reactivate(w) PROVE IInv'
  BY <1>10, ReactivateIInv
<1>11. ASSUME NEW w \in Workers, Abort(w) PROVE IInv'
  BY <1>11, AbortIInv
<1>12. CASE UNCHANGED vars
  BY <1>12 DEF vars, runVars, bookVars, workerVars, IInv, Typed, CallOK, LegacyOK, LegacyType, BookOK,
               HistoryIsChain, PublishedOnce
<1> QED
  BY <1>1, <1>2, <1>3, <1>4, <1>5, <1>6, <1>7, <1>8, <1>9, <1>10, <1>11, <1>12 DEF Next

\* The invariant holds throughout.
LEMMA Inductive == Spec => []IInv
BY InitIInv, NextIInv, PTL DEF Spec

\* The active publication names a content for every page.
LEMMA LastPages ==
    ASSUME IInv, history # <<>>
    PROVE  history[Len(history)].pages \in [Pages -> Contents]
<1>1. history \in Seq(Events)
  BY DEF IInv, Typed
<1>2. Len(history) \in 1..Len(history)
  BY <1>1, EmptySeq
<1>3. history[Len(history)] \in Events
  BY <1>1, <1>2, ElementOfSeq
<1> QED
  BY <1>3 DEF Events

\* The rows, the publications and the canonical pages keep the types of the
\* schema, whatever calls overlap.
THEOREM TypesHold == Spec => []TypeOK
<1>1. IInv => TypeOK
  <2> SUFFICES ASSUME IInv PROVE TypeOK
    OBVIOUS
  <2>1. DOMAIN origin \subseteq Pages /\ \A p \in DOMAIN origin : origin[p] \in Contents
    BY TextTypes DEF IInv, Typed
  <2>2. history # <<>> => history[Len(history)].pages \in [Pages -> Contents]
    BY LastPages
  <2>3. DOMAIN canonical \subseteq Pages /\ \A p \in DOMAIN canonical : canonical[p] \in Contents
    BY <2>1, <2>2 DEF IInv, BookOK
  <2> QED
    BY <2>1, <2>3 DEF TypeOK, IInv, Typed
<1> QED
  BY <1>1, Inductive, PTL

\* The publications form one chain with one active end (the unique index on
\* the active publication of a book is never violated).
THEOREM ChainHolds == Spec => []HistoryIsChain
<1>1. IInv => HistoryIsChain
  BY DEF IInv
<1> QED
  BY <1>1, Inductive, PTL

\* No run is published twice, however many approvals of it overlap.
THEOREM PublishedOnceHolds == Spec => []PublishedOnce
<1>1. IInv => PublishedOnce
  BY DEF IInv
<1> QED
  BY <1>1, Inductive, PTL

\* The canonical pages and the published texts of the active run agree.
THEOREM CanonicalHolds == Spec => []CanonicalIsActiveRun
<1>1. IInv => CanonicalIsActiveRun
  <2> SUFFICES ASSUME IInv, history # <<>> PROVE CanonicalIsActiveRun
    BY DEF CanonicalIsActiveRun
  <2>2. history[Len(history)].pages \in [Pages -> Contents]
    BY LastPages
  <2> QED
    BY <2>2 DEF CanonicalIsActiveRun, IInv, BookOK
<1> QED
  BY <1>1, Inductive, PTL

\* The pages a book had before its first publication can always be restored.
THEOREM OriginHolds == Spec => []OriginKept
<1>1. IInv => OriginKept
  <2> SUFFICES ASSUME IInv, DOMAIN origin # {} PROVE OriginKept
    BY DEF OriginKept
  <2>1. CASE history = <<>>
    BY <2>1 DEF OriginKept, IInv, BookOK
  <2>2. CASE history # <<>>
    <3>1. runState[Legacy] = "completed"
      BY <2>2 DEF IInv, BookOK
    <3>2. DOMAIN origin = Pages /\ \A p \in Pages : Restorable(p)
      BY <3>1 DEF IInv, LegacyOK, LegacyType, Restorable
    <3> QED
      BY <3>1, <3>2 DEF OriginKept
  <2> QED
    BY <2>1, <2>2
<1> QED
  BY <1>1, Inductive, PTL

\* Chain, single publication and origin hold together, for every set of runs,
\* pages and threads.
THEOREM PublicationHistoryHolds == Spec => []PublicationHistoryKept
<1>1. HistoryIsChain /\ PublishedOnce /\ OriginKept => PublicationHistoryKept
  BY DEF PublicationHistoryKept
<1> QED
  BY <1>1, ChainHolds, PublishedOnceHolds, OriginHolds, PTL

-----------------------------------------------------------------------------
(* Reviews and rollbacks, as long as calls do not overlap. *)

\* At most one call is in progress.  The server does not ensure it: a review
\* that overlaps a publication is what OcrReviewRace.cfg shows.
OneCallAtATime == \A v, w \in Workers : pc[v] # "idle" /\ pc[w] # "idle" => v = w

\* The rows under review: an approved page has a type, and what would be
\* published of it was approved.
RowsReviewed ==
    \A r \in Runs, p \in Pages :
        /\ rows[r][p].qa = "approved" =>
             rows[r][p].type # "unknown" /\ ContentOf(rows[r][p]) \in approved[r][p]
        /\ runState[r] \in {"awaiting_qa", "completed"} => rows[r][p].qa # "not_required"
        /\ runState[r] = "completed" => rows[r][p].type # "unknown"

\* A call that is not overlapped has read what is still there.
CallIsCurrent(w) ==
    /\ pc[w] \in {"review", "approve", "publish"} => runState[call[w].run] = "awaiting_qa"
    /\ pc[w] \in {"classify", "publish", "activate"} => call[w].read = rows[call[w].run]
    /\ pc[w] = "review" =>
         (call[w].request.qa = "approved" => call[w].request.type # "unknown")

\* What a run published, in text and type, is in its rows.
PublishedAs(r, content) ==
    \A p \in Pages : content[p] = [text |-> rows[r][p].pub, type |-> rows[r][p].type]

\* A completed run is in the history, and its publication is in its rows.
EventsMatchRows ==
    /\ \A i \in 1..Len(history) :
         history[i].action # "rollback" => PublishedAs(history[i].run, history[i].pages)
    /\ runState[Legacy] = "completed" =>
         \E i \in 1..Len(history) : history[i].run = Legacy /\ history[i].action # "rollback"

\* The invariant of a book whose calls do not overlap.
ReviewInv ==
    /\ \A r \in AllRuns : sample[r] = {}
    /\ RowsReviewed
    /\ \A w \in Workers : CallIsCurrent(w)
    /\ EventsMatchRows
    /\ RollbackRestores

\* It holds at the start.
LEMMA InitReviewInv ==
    ASSUME ~SampleMayBeFound PROVE Init => ReviewInv
<1> SUFFICES ASSUME Init PROVE ReviewInv
  OBVIOUS
<1>0. \A r \in AllRuns : sample[r] = {}
  BY DEF Init, Samples
<1>1. history = <<>> /\ Len(history) = 0
  BY DEF Init
<1>2. RowsReviewed
  BY OcrPublicationAssumption DEF Init, RowsReviewed, NoRow, AllRuns
<1>3. \A w \in Workers : CallIsCurrent(w)
  BY DEF Init, CallIsCurrent
<1>4. EventsMatchRows /\ RollbackRestores
  BY <1>1 DEF Init, EventsMatchRows, RollbackRestores, AllRuns
<1> QED
  BY <1>0, <1>2, <1>3, <1>4 DEF ReviewInv

\* The runs of the history are completed and their publications have contents.
LEMMA HistoryRuns ==
    ASSUME IInv
    PROVE  \A i \in 1..Len(history) :
             /\ history[i] \in Events
             /\ history[i].run \in AllRuns
             /\ runState[history[i].run] = "completed"
             /\ history[i].pages \in [Pages -> Contents]
<1>1. \A i \in 1..Len(history) : history[i] \in Events
  BY ElementOfSeq DEF IInv, Typed
<1> QED
  BY <1>1 DEF IInv, BookOK, Events

\* A completed run has a publication of its own.
LEMMA CompletedIsListed ==
    ASSUME IInv, ReviewInv, NEW r \in AllRuns, runState[r] = "completed"
    PROVE  \E k \in 1..Len(history) : history[k].run = r /\ history[k].action # "rollback"
<1>1. CASE r = Legacy
  BY <1>1 DEF ReviewInv, EventsMatchRows
<1>2. CASE r \in Runs
  BY <1>2 DEF IInv, PublishedOnce
<1> QED
  BY <1>1, <1>2 DEF AllRuns

\* A step that leaves the rows of completed runs and the history alone keeps
\* what they say of each other.
LEMMA EventsStay ==
    ASSUME IInv, ReviewInv, history' = history, runState'[Legacy] = runState[Legacy],
           \A r \in AllRuns, p \in Pages : runState[r] = "completed" =>
             rows'[r][p].pub = rows[r][p].pub /\ rows'[r][p].type = rows[r][p].type
    PROVE  EventsMatchRows' /\ RollbackRestores'
<1>1. \A i \in 1..Len(history) :
        history[i].action # "rollback" =>
          \A p \in Pages : history[i].pages[p] =
            [text |-> rows'[history[i].run][p].pub, type |-> rows'[history[i].run][p].type]
  BY HistoryRuns DEF ReviewInv, EventsMatchRows, PublishedAs
<1>2. EventsMatchRows'
  BY <1>1 DEF ReviewInv, EventsMatchRows, PublishedAs
<1>3. RollbackRestores'
  BY DEF ReviewInv, RollbackRestores
<1> QED
  BY <1>2, <1>3

\* Staging: the rows of a running run are new, and nobody holds them.
LEMMA StageReview ==
    ASSUME IInv, ReviewInv, ~SampleMayBeFound, NEW r \in Runs, Stage(r) PROVE ReviewInv'
<1>1. PICK found \in [Pages -> Outcomes], ads \in Samples :
        /\ sample' = [sample EXCEPT ![r] = ads]
        /\ rows' = [rows EXCEPT ![r] = [p \in Pages |-> StagedRow(r, p, found[p], ads)]]
  BY DEF Stage
<1>2. /\ r \in AllRuns /\ r # Legacy
      /\ runState[r] = "running"
      /\ runState' = [runState EXCEPT ![r] = "awaiting_qa"]
      /\ UNCHANGED <<approved, canonical, history, origin, pc, call>>
  BY OcrPublicationAssumption DEF Stage, AllRuns, bookVars, workerVars
<1>3. ads = {}
  BY DEF Samples
<1>4. \A s \in AllRuns : sample'[s] = {}
  BY <1>1, <1>2, <1>3 DEF ReviewInv, IInv, Typed
<1>5. /\ \A p \in Pages : rows'[r][p].qa = "required"
      /\ \A s \in AllRuns : s # r => rows'[s] = rows[s] /\ runState'[s] = runState[s]
      /\ runState'[r] = "awaiting_qa"
  BY <1>1, <1>2 DEF IInv, Typed, StagedRow
<1>6. RowsReviewed'
  <2>1. ASSUME NEW s \in Runs, NEW p \in Pages
        PROVE  /\ rows'[s][p].qa = "approved" =>
                    rows'[s][p].type # "unknown" /\ ContentOf(rows'[s][p]) \in approved'[s][p]
               /\ runState'[s] \in {"awaiting_qa", "completed"} => rows'[s][p].qa # "not_required"
               /\ runState'[s] = "completed" => rows'[s][p].type # "unknown"
    <3>1. s \in AllRuns
      BY DEF AllRuns
    <3> QED
      BY <1>2, <1>5, <3>1 DEF ReviewInv, RowsReviewed
  <2> QED
    BY <2>1 DEF RowsReviewed, ContentOf, Published, Selected
<1>7. ASSUME NEW w \in Workers PROVE CallIsCurrent(w)'
  <2>1. CallOK(w) /\ CallIsCurrent(w) /\ pc'[w] = pc[w] /\ call'[w] = call[w]
    BY <1>2 DEF IInv, ReviewInv
  <2>2. call[w].run \in AllRuns
    BY <2>1 DEF CallOK
  <2>3. pc[w] \in {"review", "approve", "publish", "classify", "activate"} => call[w].run # r
    BY <1>2, <2>1 DEF CallOK, CallIsCurrent
  <2> QED
    BY <1>5, <2>1, <2>2, <2>3 DEF CallIsCurrent
<1>8. EventsMatchRows' /\ RollbackRestores'
  BY <1>2, <1>5, EventsStay, OcrPublicationAssumption DEF AllRuns
<1> QED
  BY <1>4, <1>6, <1>7, <1>8 DEF ReviewInv

\* A call that reads or gives up writes nothing.
LEMMA MoveReview ==
    ASSUME IInv, ReviewInv, NEW w \in Workers, NEW step, NEW arguments,
           Goto(w, step, arguments), UNCHANGED <<runVars, bookVars, origin>>,
           CallIsCurrent(w)'
    PROVE  ReviewInv'
<1> USE DEF runVars, bookVars
<1>1. ASSUME NEW v \in Workers PROVE CallIsCurrent(v)'
  <2>1. CASE v = w
    BY <2>1
  <2>2. CASE v # w
    BY <2>2 DEF ReviewInv, IInv, Typed, CallIsCurrent, Goto
  <2> QED
    BY <2>1, <2>2
<1>2. RowsReviewed'
  BY DEF ReviewInv, RowsReviewed
<1>3. EventsMatchRows' /\ RollbackRestores'
  BY EventsStay
<1> QED
  BY <1>1, <1>2, <1>3 DEF ReviewInv

\* A call that has ended holds nothing.
LEMMA ReturnCurrent ==
    ASSUME IInv, NEW w \in Workers, Return(w) PROVE CallIsCurrent(w)'
BY DEF IInv, Typed, Return, Goto, CallIsCurrent

\* Other calls do not exist when one writes.
LEMMA OthersRest ==
    ASSUME IInv, OneCallAtATime, NEW w \in Workers, pc[w] # "idle", Return(w),
           NEW v \in Workers
    PROVE  CallIsCurrent(v)'
<1>1. pc'[v] = "idle"
  BY DEF IInv, Typed, Return, Goto, OneCallAtATime
<1> QED
  BY <1>1 DEF CallIsCurrent

\* The readings: a call holds what it has just read.
LEMMA ReadingReview ==
    ASSUME IInv, ReviewInv, NEW w \in Workers, NEW r \in AllRuns,
           \/ \E p \in Pages : Review(w, r, p)
           \/ Classify(w, r) \/ Approve(w, r) \/ Activate(w, r) \/ ReadRows(w) \/ Abort(w)
    PROVE  ReviewInv'
<1> USE DEF IInv, Typed
<1>1. ASSUME NEW p \in Pages, Review(w, r, p) PROVE ReviewInv'
  <2>1. PICK asked \in Requests :
          /\ Acceptable(rows[r][p], Entered(r, asked))
          /\ Goto(w, "review", [run |-> r, page |-> p, request |-> Entered(r, asked), read |-> <<>>])
    BY <1>1 DEF Review
  <2>2. runState'[r] = "awaiting_qa" /\ pc'[w] = "review"
        /\ call'[w].run = r /\ call'[w].request = Entered(r, asked)
    BY <1>1, <2>1 DEF Review, Goto, runVars
  <2>3. CallIsCurrent(w)'
    BY <2>1, <2>2 DEF CallIsCurrent, Acceptable
  <2> QED
    BY <1>1, <2>1, <2>3, MoveReview DEF Review
<1>2. CASE Classify(w, r)
  <2>1. CallIsCurrent(w)'
    BY <1>2 DEF Classify, Goto, CallIsCurrent, NoCall, runVars
  <2> QED
    BY <1>2, <2>1, MoveReview DEF Classify
<1>3. CASE Approve(w, r)
  <2>1. CallIsCurrent(w)'
    BY <1>3 DEF Approve, Goto, CallIsCurrent, NoCall, runVars
  <2> QED
    BY <1>3, <2>1, MoveReview DEF Approve
<1>4. CASE Activate(w, r)
  <2>1. CallIsCurrent(w)'
    BY <1>4 DEF Activate, Goto, CallIsCurrent, NoCall, runVars
  <2> QED
    BY <1>4, <2>1, MoveReview DEF Activate
<1>5. CASE ReadRows(w)
  <2>1. CallOK(w) /\ CallIsCurrent(w) /\ pc[w] = "approve"
    BY <1>5 DEF ReadRows, ReviewInv
  <2>2. /\ pc'[w] = "publish" /\ call'[w].run = call[w].run
        /\ call'[w].read = rows[call[w].run] /\ rows' = rows /\ runState' = runState
    BY <1>5, <2>1 DEF ReadRows, Goto, CallOK, runVars
  <2>3. CallIsCurrent(w)'
    BY <2>1, <2>2 DEF CallIsCurrent
  <2> QED
    BY <1>5, <2>3, MoveReview DEF ReadRows
<1>6. CASE Abort(w)
  <2>1. CallIsCurrent(w)'
    BY <1>6, ReturnCurrent DEF Abort
  <2> QED
    BY <1>6, <2>1, MoveReview DEF Abort, Return
<1> QED
  BY <1>1, <1>2, <1>3, <1>4, <1>5, <1>6

\* A review that is written: the run is still under review, and what the row
\* now says is what was approved.
LEMMA ReviewWriteReview ==
    ASSUME IInv, ReviewInv, OneCallAtATime, NEW w \in Workers, ReviewWrite(w) PROVE ReviewInv'
<1> DEFINE r == call[w].run
           p == call[w].page
           q == call[w].request
           row == Reviewed(rows[r][p], q)
<1>1. /\ r \in Runs /\ r \in AllRuns /\ r # Legacy /\ p \in Pages
      /\ q.qa \in {"approved", "rejected"}
      /\ q.qa = "approved" => q.type # "unknown"
      /\ runState[r] = "awaiting_qa"
  BY OcrPublicationAssumption DEF ReviewWrite, IInv, CallOK, AllRuns, ReviewInv, CallIsCurrent
<1>2. rows[r][p] \in Rows
  BY <1>1 DEF IInv, Typed
<1>3. row.qa = q.qa /\ row.type = q.type
  BY <1>2 DEF Reviewed, Rows
<1>4. /\ rows' = [rows EXCEPT ![r][p] = row]
      /\ approved' = [approved EXCEPT ![r][p] = @ \cup
           (IF row.qa = "approved" THEN {ContentOf(row)} ELSE {})]
      /\ Return(w) /\ pc[w] = "review"
      /\ UNCHANGED <<runState, sample, canonical, history, origin>>
  BY DEF ReviewWrite, bookVars
<1> HIDE DEF r, p, q, row
<1>5. /\ rows'[r][p] = row
      /\ row.qa = "approved" => ContentOf(row) \in approved'[r][p]
      /\ \A s \in AllRuns, o \in Pages : s # r \/ o # p =>
           rows'[s][o] = rows[s][o] /\ approved'[s][o] = approved[s][o]
  BY <1>1, <1>4 DEF IInv, Typed
<1>6. RowsReviewed'
  <2>1. ASSUME NEW s \in Runs, NEW o \in Pages
        PROVE  /\ rows'[s][o].qa = "approved" =>
                    rows'[s][o].type # "unknown" /\ ContentOf(rows'[s][o]) \in approved'[s][o]
               /\ runState'[s] \in {"awaiting_qa", "completed"} => rows'[s][o].qa # "not_required"
               /\ runState'[s] = "completed" => rows'[s][o].type # "unknown"
    <3>1. CASE s = r /\ o = p
      BY <1>1, <1>3, <1>4, <1>5, <3>1
    <3>2. CASE s # r \/ o # p
      BY <1>4, <1>5, <3>2 DEF AllRuns, ReviewInv, RowsReviewed
    <3> QED
      BY <3>1, <3>2
  <2> QED
    BY <2>1 DEF RowsReviewed, ContentOf, Published, Selected
<1>7. \A v \in Workers : CallIsCurrent(v)'
  BY <1>4, OthersRest
<1>8. EventsMatchRows' /\ RollbackRestores'
  BY <1>1, <1>4, <1>5, EventsStay
<1> QED
  BY <1>4, <1>6, <1>7, <1>8 DEF ReviewInv

\* A classification that is written: no page of a known type gets another one,
\* so that approvals and published types stand.
LEMMA ClassifyWriteReview ==
    ASSUME IInv, ReviewInv, OneCallAtATime, NEW w \in Workers, ClassifyWrite(w) PROVE ReviewInv'
<1> DEFINE r == call[w].run
           row(p) == WithType(rows[r][p], Classified(call[w].read[p], p, r).type)
<1>1. r \in AllRuns /\ call[w].read = rows[r] /\ sample[r] = {}
  BY DEF ClassifyWrite, IInv, CallOK, ReviewInv, CallIsCurrent
<1>2. /\ rows' = [rows EXCEPT ![r] = [p \in Pages |-> row(p)]]
      /\ Return(w) /\ pc[w] = "classify"
      /\ UNCHANGED <<runState, sample, approved, canonical, history, origin>>
  BY DEF ClassifyWrite, bookVars
<1>3. ASSUME NEW p \in Pages
      PROVE  /\ row(p).pub = rows[r][p].pub
             /\ rows[r][p].type # "unknown" => row(p) = rows[r][p]
             /\ row(p).qa = rows[r][p].qa \/ row(p).qa = "required"
             /\ rows[r][p].type = "unknown" => row(p).qa # "approved" \/ rows[r][p].qa = "approved"
  <2>1. rows[r][p] \in Rows
    BY <1>1 DEF IInv, Typed
  <2>2. rows[r][p].type # "unknown" => Classified(rows[r][p], p, r).type = rows[r][p].type
    BY <1>1, <2>1 DEF Classified, Rows
  <2>3. \A type \in Types : /\ WithType(rows[r][p], type).pub = rows[r][p].pub
                            /\ WithType(rows[r][p], type).qa \in {rows[r][p].qa, "required"}
    BY <2>1 DEF WithType, Rows
  <2>4. Classified(rows[r][p], p, r).type \in Types
    BY <1>1, <2>1 DEF Classified, Rows
  <2>5. rows[r][p].type # "unknown" => WithType(rows[r][p], rows[r][p].type) = rows[r][p]
    BY <2>1 DEF WithType, Rows
  <2> QED
    BY <1>1, <2>2, <2>3, <2>4, <2>5
<1> HIDE DEF r, row
<1>4. /\ \A p \in Pages : rows'[r][p] = row(p)
      /\ \A s \in AllRuns : s # r => rows'[s] = rows[s]
  BY <1>1, <1>2 DEF IInv, Typed
<1>5. RowsReviewed'
  <2>1. ASSUME NEW s \in Runs, NEW o \in Pages
        PROVE  /\ rows'[s][o].qa = "approved" =>
                    rows'[s][o].type # "unknown" /\ ContentOf(rows'[s][o]) \in approved'[s][o]
               /\ runState'[s] \in {"awaiting_qa", "completed"} => rows'[s][o].qa # "not_required"
               /\ runState'[s] = "completed" => rows'[s][o].type # "unknown"
    <3>1. CASE s = r
      BY <1>2, <1>3, <1>4, <3>1 DEF ReviewInv, RowsReviewed
    <3>2. CASE s # r
      BY <1>2, <1>4, <3>2 DEF AllRuns, ReviewInv, RowsReviewed
    <3> QED
      BY <3>1, <3>2
  <2> QED
    BY <2>1 DEF RowsReviewed, ContentOf, Published, Selected
<1>6. \A v \in Workers : CallIsCurrent(v)'
  BY <1>2, OthersRest
<1>7. ASSUME NEW s \in AllRuns, NEW p \in Pages, runState[s] = "completed"
      PROVE  rows'[s][p].pub = rows[s][p].pub /\ rows'[s][p].type = rows[s][p].type
  <2>1. rows[s][p].type # "unknown"
    BY <1>7 DEF AllRuns, ReviewInv, RowsReviewed, IInv, LegacyOK, LegacyType, OriginContent
  <2> QED
    BY <1>3, <1>4, <2>1
<1>8. EventsMatchRows' /\ RollbackRestores'
  BY <1>2, <1>7, EventsStay
<1> QED
  BY <1>2, <1>5, <1>6, <1>8 DEF ReviewInv

\* A text that is written to published_text changes neither the review of its
\* row nor what would be published of it.
LEMMA MaterializedReview ==
    ASSUME IInv, NEW r \in AllRuns, NEW content \in [Pages -> Contents], NEW p \in Pages
    PROVE  /\ Materialized(r, content)[r][p].qa = rows[r][p].qa
           /\ ContentOf(Materialized(r, content)[r][p]) = ContentOf(rows[r][p])
<1>1. rows[r][p] \in Rows /\ content[p].text \in Texts
  BY DEF IInv, Typed, Contents
<1>2. Materialized(r, content)[r][p] = [rows[r][p] EXCEPT !.pub = content[p].text]
  BY DEF Materialized, IInv, Typed
<1> QED
  BY <1>1, <1>2 DEF Rows, ContentOf, Published, Selected

\* What a publication does to the rows and the canonical pages when its run
\* was not touched since it was read.
LEMMA PublishWrites ==
    ASSUME IInv, ReviewInv, NEW w \in Workers, Publish(w)
    PROVE  LET r == call[w].run
               content == [p \in Pages |-> ContentOf(rows[r][p])]
           IN
           /\ r \in Runs /\ content \in [Pages -> Contents]
           /\ canonical' = content
           /\ \A p \in Pages :
                /\ rows[r][p].qa = "approved" /\ rows[r][p].type # "unknown"
                /\ rows'[r][p].qa = rows[r][p].qa
                /\ rows'[r][p].type = rows[r][p].type
                /\ rows'[r][p].pub = content[p].text
                /\ ContentOf(rows'[r][p]) = ContentOf(rows[r][p])
           /\ \A s \in Runs : s # r => rows'[s] = rows[s] /\ runState'[s] = runState[s]
           /\ NeedsSnapshot => rows'[Legacy] = [p \in Pages |-> LegacyRow(OriginContent)]
           /\ ~NeedsSnapshot => rows'[Legacy] = rows[Legacy] /\ runState'[Legacy] = runState[Legacy]
<1> DEFINE r == call[w].run
           content == [p \in Pages |-> ContentOf(rows[r][p])]
<1>1. /\ r \in Runs /\ r \in AllRuns /\ r # Legacy
      /\ call[w].read = rows[r] /\ runState[r] = "awaiting_qa"
  BY OcrPublicationAssumption DEF Publish, IInv, CallOK, AllRuns, ReviewInv, CallIsCurrent
<1>2. content \in [Pages -> Contents]
  BY <1>1, ContentType DEF IInv, Typed
<1>3. \A p \in Pages : rows[r][p].qa = "approved" /\ rows[r][p].type # "unknown"
  <2>1. \A p \in Pages : rows[r][p].qa \in {"not_required", "required", "approved", "rejected"}
    BY <1>1 DEF IInv, Typed, Rows
  <2> QED
    BY <1>1, <2>1 DEF Publish, StillApprovable, Approvable, ReviewInv, RowsReviewed
<1>4. /\ canonical' = content
      /\ NeedsSnapshot => DOMAIN canonical = Pages
      /\ rows' = IF NeedsSnapshot
                 THEN [Materialized(r, content) EXCEPT
                         ![Legacy] = [p \in Pages |-> LegacyRow(canonical[p])]]
                 ELSE Materialized(r, content)
      /\ runState' = [runState EXCEPT ![r] = "completed",
                                      ![Legacy] = IF NeedsSnapshot THEN "completed" ELSE @]
  BY <1>1 DEF Publish
<1> HIDE DEF r, content
<1>5. NeedsSnapshot => canonical = [p \in Pages |-> OriginContent]
  BY <1>4 DEF NeedsSnapshot, IInv, BookOK, Typed
<1>6. /\ Materialized(r, content) \in [AllRuns -> [Pages -> Rows]]
      /\ \A p \in Pages :
           /\ Materialized(r, content)[r][p].pub = content[p].text
           /\ Materialized(r, content)[r][p].type = rows[r][p].type
           /\ Materialized(r, content)[r][p].qa = rows[r][p].qa
           /\ ContentOf(Materialized(r, content)[r][p]) = ContentOf(rows[r][p])
      /\ \A s \in AllRuns : s # r => Materialized(r, content)[s] = rows[s]
  BY <1>1, <1>2, MaterializedRows, MaterializedReview
<1>7. rows'[r] = Materialized(r, content)[r]
  BY <1>1, <1>4, <1>6
<1>8. \A s \in AllRuns : s # r /\ s # Legacy => rows'[s] = rows[s] /\ runState'[s] = runState[s]
  BY <1>1, <1>4, <1>6 DEF IInv, Typed
<1>9. /\ NeedsSnapshot => rows'[Legacy] = [p \in Pages |-> LegacyRow(OriginContent)]
      /\ ~NeedsSnapshot => rows'[Legacy] = rows[Legacy] /\ runState'[Legacy] = runState[Legacy]
  <2>1. Legacy \in AllRuns
    BY DEF AllRuns
  <2>2. [p \in Pages |-> LegacyRow(canonical[p])] = [p \in Pages |-> LegacyRow(OriginContent)]
          \/ ~NeedsSnapshot
    BY <1>5
  <2> QED
    BY <1>1, <1>4, <1>6, <2>1, <2>2 DEF IInv, Typed
<1>10. \A s \in Runs : s \in AllRuns /\ s # Legacy
  BY OcrPublicationAssumption DEF AllRuns
<1> QED
  BY <1>1, <1>2, <1>3, <1>4, <1>6, <1>7, <1>8, <1>9, <1>10 DEF r, content

\* A publication: its event says what its rows say, and no run of the history
\* is touched.
LEMMA PublishReview ==
    ASSUME IInv, ReviewInv, OneCallAtATime, NEW w \in Workers, Publish(w) PROVE ReviewInv'
<1> DEFINE r == call[w].run
           content == [p \in Pages |-> ContentOf(rows[r][p])]
           before == WithSnapshot
           e == Event(r, "publish", content, Len(before))
<1>1. /\ r \in Runs /\ content \in [Pages -> Contents]
      /\ \A p \in Pages :
           /\ rows[r][p].qa = "approved" /\ rows[r][p].type # "unknown"
           /\ rows'[r][p].qa = rows[r][p].qa
           /\ rows'[r][p].type = rows[r][p].type
           /\ rows'[r][p].pub = content[p].text
           /\ ContentOf(rows'[r][p]) = ContentOf(rows[r][p])
      /\ \A s \in Runs : s # r => rows'[s] = rows[s] /\ runState'[s] = runState[s]
      /\ NeedsSnapshot => rows'[Legacy] = [p \in Pages |-> LegacyRow(OriginContent)]
      /\ ~NeedsSnapshot => rows'[Legacy] = rows[Legacy] /\ runState'[Legacy] = runState[Legacy]
  BY PublishWrites
<1>2. /\ pc[w] = "publish" /\ Return(w)
      /\ runState[r] = "awaiting_qa"
      /\ NeedsSnapshot => DOMAIN canonical = Pages
      /\ UNCHANGED <<sample, approved, origin>>
  BY DEF Publish, StillApprovable
<1>3. history' = Append(Retired(before), e)
  BY DEF Publish, ReviewInv, CallIsCurrent
<1>4. /\ r \in AllRuns /\ r # Legacy
      /\ \A p \in Pages : content[p] = [text |-> content[p].text, type |-> rows[r][p].type]
  BY <1>1, OcrPublicationAssumption DEF AllRuns, ContentOf
<1>5. /\ before \in Seq(Events) /\ Len(before) \in Nat
      /\ \A i \in 1..Len(before) : before[i] \in Events /\ before[i].superseded = i - 1
      /\ ~NeedsSnapshot => before = history
  BY <1>2, SnapshotHistory, LenProperties, ElementOfSeq
<1>6. e \in Events /\ e.superseded = Len(before) /\ e.retired = FALSE
      /\ e.run = r /\ e.pages = content /\ e.action = "publish"
  BY <1>1, <1>4, <1>5 DEF Events, Event
<1> HIDE DEF r, content, before, e
<1>7. Continues(history', before, e)
  BY <1>3, <1>5, <1>6, ChainGrows
<1>8. \A i \in 1..Len(history') : i \in 1..Len(before) \/ i = Len(history')
  BY <1>5, <1>7 DEF Continues
<1>9. RowsReviewed'
  <2>1. ASSUME NEW s \in Runs, NEW p \in Pages
        PROVE  /\ rows'[s][p].qa = "approved" =>
                    rows'[s][p].type # "unknown" /\ ContentOf(rows'[s][p]) \in approved'[s][p]
               /\ runState'[s] \in {"awaiting_qa", "completed"} => rows'[s][p].qa # "not_required"
               /\ runState'[s] = "completed" => rows'[s][p].type # "unknown"
    BY <1>1, <1>2 DEF ReviewInv, RowsReviewed
  <2> QED
    BY <2>1 DEF RowsReviewed, ContentOf, Published, Selected
<1>10. \A v \in Workers : CallIsCurrent(v)'
  BY <1>2, OthersRest
<1>11. ASSUME NEW i \in 1..Len(before), before[i].action # "rollback"
       PROVE  \A p \in Pages : before[i].pages[p] =
                [text |-> rows'[before[i].run][p].pub, type |-> rows'[before[i].run][p].type]
  <2>1. CASE NeedsSnapshot
    <3>1. canonical = [p \in Pages |-> OriginContent]
      BY <1>2, <2>1 DEF NeedsSnapshot, IInv, BookOK, Typed
    <3>2. before = <<Event(Legacy, "legacy_snapshot", canonical, 0)>>
      BY <2>1 DEF before, WithSnapshot
    <3>3. i = 1 /\ before[i].run = Legacy /\ before[i].pages = canonical
      BY <3>2 DEF Event
    <3>4. OriginContent = [text |-> OriginContent.text, type |-> OriginContent.type]
      BY DEF OriginContent
    <3>5. \A p \in Pages : rows'[Legacy][p] = LegacyRow(OriginContent) /\ canonical[p] = OriginContent
      BY <1>1, <2>1, <3>1
    <3> QED
      BY <3>3, <3>4, <3>5, LegacyRowTypes
  <2>2. CASE ~NeedsSnapshot
    <3>1. before = history /\ i \in 1..Len(history)
      BY <1>5, <2>2
    <3>2. /\ history[i].run \in AllRuns /\ history[i].run # r
          /\ \A p \in Pages : history[i].pages[p] =
               [text |-> rows[history[i].run][p].pub, type |-> rows[history[i].run][p].type]
      BY <1>2, <1>11, <3>1, HistoryRuns DEF ReviewInv, EventsMatchRows, PublishedAs
    <3>3. rows'[history[i].run] = rows[history[i].run]
      BY <1>1, <2>2, <3>2 DEF AllRuns
    <3> QED
      BY <3>1, <3>2, <3>3
  <2> QED
    BY <2>1, <2>2
<1>12. EventsMatchRows'
  <2>1. ASSUME NEW i \in 1..Len(history'), history'[i].action # "rollback"
        PROVE  \A p \in Pages : history'[i].pages[p] =
                 [text |-> rows'[history'[i].run][p].pub, type |-> rows'[history'[i].run][p].type]
    <3>1. CASE i \in 1..Len(before)
      BY <1>7, <1>11, <2>1, <3>1 DEF Continues
    <3>2. CASE i = Len(history')
      BY <1>1, <1>4, <1>6, <1>7, <3>2 DEF Continues
    <3> QED
      BY <1>8, <3>1, <3>2
  <2>2. runState'[Legacy] = "completed" =>
          \E i \in 1..Len(history') : history'[i].run = Legacy /\ history'[i].action # "rollback"
    <3>1. \A i \in 1..Len(before) : i \in 1..Len(history')
      BY <1>5, <1>7 DEF Continues
    <3>2. CASE NeedsSnapshot
      <4>1. before = <<Event(Legacy, "legacy_snapshot", canonical, 0)>>
        BY <3>2 DEF before, WithSnapshot
      <4>2. 1 \in 1..Len(before) /\ before[1].run = Legacy /\ before[1].action = "legacy_snapshot"
        BY <4>1 DEF Event
      <4> QED
        BY <1>7, <3>1, <4>2 DEF Continues
    <3>3. CASE ~NeedsSnapshot
      <4> SUFFICES ASSUME runState'[Legacy] = "completed"
                   PROVE  \E i \in 1..Len(history') : history'[i].run = Legacy
                                                      /\ history'[i].action # "rollback"
        OBVIOUS
      <4>1. PICK i \in 1..Len(before) : before[i].run = Legacy /\ before[i].action # "rollback"
        BY <1>1, <1>5, <3>3 DEF ReviewInv, EventsMatchRows
      <4> QED
        BY <1>7, <3>1, <4>1 DEF Continues
    <3> QED
      BY <3>2, <3>3
  <2> QED
    BY <2>1, <2>2 DEF EventsMatchRows, PublishedAs
<1>13. RollbackRestores'
  <2> SUFFICES ASSUME NEW i \in 1..Len(history'), history'[i].action = "rollback"
               PROVE  \E k \in 1..(i - 1) :
                        /\ history'[k].run = history'[i].run
                        /\ history'[k].action # "rollback"
                        /\ history'[k].pages = history'[i].pages
    BY DEF RollbackRestores
  <2>1. i \in 1..Len(before) /\ before[i].action = "rollback"
    BY <1>6, <1>7, <1>8 DEF Continues
  <2>2. before = history
    <3>1. CASE NeedsSnapshot
      <4>1. before = <<Event(Legacy, "legacy_snapshot", canonical, 0)>>
        BY <3>1 DEF before, WithSnapshot
      <4> QED
        BY <2>1, <4>1 DEF Event
    <3> QED
      BY <1>5, <3>1
  <2>3. PICK k \in 1..(i - 1) :
          /\ history[k].run = history[i].run
          /\ history[k].action # "rollback"
          /\ history[k].pages = history[i].pages
    BY <2>1, <2>2 DEF ReviewInv, RollbackRestores
  <2>4. k \in 1..Len(before)
    BY <1>5, <2>1, <2>3
  <2> QED
    BY <1>7, <2>1, <2>2, <2>3, <2>4 DEF Continues
<1> QED
  BY <1>2, <1>9, <1>10, <1>12, <1>13 DEF ReviewInv

\* A rollback: the rows hold what the run's publication said, so that this is
\* what becomes canonical again.
LEMMA ReactivateReview ==
    ASSUME IInv, ReviewInv, OneCallAtATime, NEW w \in Workers, Reactivate(w) PROVE ReviewInv'
<1> DEFINE r == call[w].run
           content == [p \in Pages |-> [text |-> rows[r][p].pub, type |-> rows[r][p].type]]
           e == Event(r, "rollback", content, Len(history))
<1>1. /\ r \in AllRuns /\ runState[r] = "completed" /\ call[w].read = rows[r]
      /\ \A p \in Pages : rows[r][p].pub # Unpublished
  BY DEF Reactivate, IInv, CallOK, ReviewInv, CallIsCurrent
<1>2. content \in [Pages -> Contents]
  <2>1. \A p \in Pages : rows[r][p] \in Rows
    BY <1>1 DEF IInv, Typed
  <2> QED
    BY <1>1, <2>1 DEF Rows, Contents
<1>3. /\ pc[w] = "activate" /\ Return(w)
      /\ history' = Append(Retired(history), e)
      /\ rows' = Materialized(r, content)
      /\ UNCHANGED <<runState, sample, approved, origin>>
  BY <1>1 DEF Reactivate
<1>4. /\ history \in Seq(Events) /\ Len(history) \in Nat
      /\ \A i \in 1..Len(history) : history[i].superseded = i - 1
  BY LenProperties DEF IInv, Typed, HistoryIsChain
<1>5. e \in Events /\ e.superseded = Len(history) /\ e.retired = FALSE
      /\ e.run = r /\ e.pages = content /\ e.action = "rollback"
  BY <1>1, <1>2, <1>4 DEF Events, Event
<1>6. \A p \in Pages : content[p] = [text |-> rows[r][p].pub, type |-> rows[r][p].type]
  OBVIOUS
<1> HIDE DEF r, content, e
<1>7. Continues(history', history, e)
  BY <1>3, <1>4, <1>5, ChainGrows
<1>8. \A i \in 1..Len(history') : i \in 1..Len(history) \/ i = Len(history')
  BY <1>4, <1>7 DEF Continues
<1>9. /\ \A p \in Pages :
           /\ rows'[r][p].pub = rows[r][p].pub
           /\ rows'[r][p].type = rows[r][p].type
           /\ rows'[r][p].qa = rows[r][p].qa
           /\ ContentOf(rows'[r][p]) = ContentOf(rows[r][p])
      /\ \A s \in AllRuns : s # r => rows'[s] = rows[s]
  BY <1>1, <1>2, <1>3, <1>6, MaterializedRows, MaterializedReview
<1>10. RowsReviewed'
  <2>1. ASSUME NEW s \in Runs, NEW p \in Pages
        PROVE  /\ rows'[s][p].qa = "approved" =>
                    rows'[s][p].type # "unknown" /\ ContentOf(rows'[s][p]) \in approved'[s][p]
               /\ runState'[s] \in {"awaiting_qa", "completed"} => rows'[s][p].qa # "not_required"
               /\ runState'[s] = "completed" => rows'[s][p].type # "unknown"
    BY <1>3, <1>9 DEF AllRuns, ReviewInv, RowsReviewed
  <2> QED
    BY <2>1 DEF RowsReviewed, ContentOf, Published, Selected
<1>11. \A v \in Workers : CallIsCurrent(v)'
  BY <1>3, OthersRest
<1>12. ASSUME NEW i \in 1..Len(history), history[i].action # "rollback"
       PROVE  \A p \in Pages : history[i].pages[p] =
                [text |-> rows'[history[i].run][p].pub, type |-> rows'[history[i].run][p].type]
  <2>1. /\ history[i].run \in AllRuns
        /\ \A p \in Pages : history[i].pages[p] =
             [text |-> rows[history[i].run][p].pub, type |-> rows[history[i].run][p].type]
    BY <1>12, HistoryRuns DEF ReviewInv, EventsMatchRows, PublishedAs
  <2> QED
    BY <1>9, <2>1
<1>13. EventsMatchRows'
  <2>1. ASSUME NEW i \in 1..Len(history'), history'[i].action # "rollback"
        PROVE  \A p \in Pages : history'[i].pages[p] =
                 [text |-> rows'[history'[i].run][p].pub, type |-> rows'[history'[i].run][p].type]
    <3>1. i \in 1..Len(history)
      BY <1>5, <1>7, <1>8, <2>1 DEF Continues
    <3>2. /\ history'[i].run = history[i].run /\ history'[i].action = history[i].action
          /\ history'[i].pages = history[i].pages
      BY <1>7, <3>1 DEF Continues
    <3> QED
      BY <1>12, <2>1, <3>1, <3>2
  <2>2. \A i \in 1..Len(history) : i \in 1..Len(history')
    BY <1>4, <1>7 DEF Continues
  <2>3. runState'[Legacy] = "completed" =>
          \E i \in 1..Len(history') : history'[i].run = Legacy /\ history'[i].action # "rollback"
    BY <1>3, <1>7, <2>2 DEF Continues, ReviewInv, EventsMatchRows
  <2> QED
    BY <2>1, <2>3 DEF EventsMatchRows, PublishedAs
<1>14. RollbackRestores'
  <2> SUFFICES ASSUME NEW i \in 1..Len(history'), history'[i].action = "rollback"
               PROVE  \E k \in 1..(i - 1) :
                        /\ history'[k].run = history'[i].run
                        /\ history'[k].action # "rollback"
                        /\ history'[k].pages = history'[i].pages
    BY DEF RollbackRestores
  <2>1. CASE i \in 1..Len(history)
    <3>1. PICK k \in 1..(i - 1) :
            /\ history[k].run = history[i].run
            /\ history[k].action # "rollback"
            /\ history[k].pages = history[i].pages
      BY <1>7, <2>1 DEF Continues, ReviewInv, RollbackRestores
    <3>2. k \in 1..Len(history)
      BY <1>4, <2>1, <3>1
    <3> QED
      BY <1>7, <2>1, <3>1, <3>2 DEF Continues
  <2>2. CASE i = Len(history')
    <3>1. PICK k \in 1..Len(history) : history[k].run = r /\ history[k].action # "rollback"
      BY <1>1, CompletedIsListed
    <3>2. history[k].pages \in [Pages -> Contents] /\ \A p \in Pages : history[k].pages[p] = content[p]
      BY <1>6, <3>1, HistoryRuns DEF ReviewInv, EventsMatchRows, PublishedAs
    <3>3. history[k].pages = content
      BY <1>2, <3>2
    <3>4. k \in 1..(i - 1)
      BY <1>4, <1>7, <2>2, <3>1 DEF Continues
    <3> QED
      BY <1>5, <1>7, <2>2, <3>1, <3>3, <3>4 DEF Continues
  <2> QED
    BY <1>8, <2>1, <2>2
<1> QED
  BY <1>3, <1>10, <1>11, <1>13, <1>14 DEF ReviewInv

\* Every step keeps the invariant of a book whose calls do not overlap.
LEMMA NextReviewInv ==
    ASSUME IInv, ReviewInv, ~SampleMayBeFound, OneCallAtATime, [Next]_vars PROVE ReviewInv'
<1>1. ASSUME NEW r \in Runs, Stage(r) PROVE ReviewInv'
  BY <1>1, StageReview
<1>2. ASSUME NEW w \in Workers, NEW r \in AllRuns,
             \/ \E p \in Pages : Review(w, r, p)
             \/ Classify(w, r) \/ Approve(w, r) \/ Activate(w, r) \/ ReadRows(w) \/ Abort(w)
      PROVE  ReviewInv'
  BY <1>2, ReadingReview
<1>3. ASSUME NEW w \in Workers,
             ReviewWrite(w) \/ ClassifyWrite(w) \/ Publish(w) \/ Reactivate(w)
      PROVE  ReviewInv'
  BY <1>3, ReviewWriteReview, ClassifyWriteReview, PublishReview, ReactivateReview
<1>4. CASE UNCHANGED vars
  BY <1>4 DEF vars, runVars, bookVars, workerVars, ReviewInv, RowsReviewed, CallIsCurrent,
              EventsMatchRows, PublishedAs, RollbackRestores, ContentOf, Published, Selected
<1>5. Legacy \in AllRuns
  BY DEF AllRuns
<1> QED
  BY <1>1, <1>2, <1>3, <1>4, <1>5 DEF Next

\* No later call undoes a reviewer's decision or what a publication said, as
\* long as calls do not overlap and the rest of a book is not taken for the
\* sample of another (classify_run_pages, activate_published_run).
THEOREM ReviewsAreKept ==
    ASSUME ~SampleMayBeFound
    PROVE  Spec /\ []OneCallAtATime => []ReviewHolds
<1>1. IInv /\ ReviewInv /\ OneCallAtATime /\ [Next]_vars => ReviewInv'
  BY NextReviewInv
<1>2. ReviewInv => ReviewHolds
  BY DEF ReviewInv, RowsReviewed, ReviewHolds, ReviewStands
<1> QED
  BY <1>1, <1>2, Inductive, InitReviewInv, PTL DEF Spec

\* Only text that a reviewer approved is published, under the same conditions
\* (approve_and_publish_run).
THEOREM OnlyApprovedIsPublished ==
    ASSUME ~SampleMayBeFound
    PROVE  Spec /\ []OneCallAtATime => PublishedIsApproved
<1>1. IInv /\ ReviewInv /\ OneCallAtATime /\ [Next]_vars => ReviewInv'
  BY NextReviewInv
<1>2. ASSUME IInv, ReviewInv, [Next]_vars, NEW r \in Runs,
             runState[r] # "completed", runState'[r] = "completed"
      PROVE  \A p \in Pages : canonical'[p] \in approved'[r][p]
  <2>1. r \in AllRuns
    BY DEF AllRuns
  <2>2. PICK w \in Workers : Publish(w)
    BY <1>2, <2>1 DEF Next, vars, runVars, IInv, Typed, Stage, Review, Classify, Approve, Activate,
       ReviewWrite, ClassifyWrite, ReadRows, Reactivate, Abort
  <2>3. /\ canonical' = [p \in Pages |-> ContentOf(rows[call[w].run][p])]
        /\ \A p \in Pages : rows[call[w].run][p].qa = "approved"
        /\ \A s \in Runs : s # call[w].run => runState'[s] = runState[s]
    BY <1>2, <2>2, PublishWrites
  <2>4. r = call[w].run /\ approved' = approved
    BY <1>2, <2>2, <2>3 DEF Publish
  <2> QED
    BY <1>2, <2>3, <2>4 DEF ReviewInv, RowsReviewed
<1>3. IInv /\ ReviewInv /\ [Next]_vars =>
        [\A r \in Runs :
           runState[r] # "completed" /\ runState'[r] = "completed"
           => \A p \in Pages : canonical'[p] \in approved'[r][p]]_vars
  BY <1>2
<1> QED
  BY <1>1, <1>3, Inductive, InitReviewInv, PTL DEF Spec, PublishedIsApproved

\* With one server thread calls cannot overlap.
THEOREM OneThreadReviews ==
    ASSUME ~SampleMayBeFound, \A v, w \in Workers : v = w
    PROVE  Spec => []ReviewHolds /\ PublishedIsApproved
<1>1. OneCallAtATime
  BY DEF OneCallAtATime
<1>2. []OneCallAtATime
  BY <1>1, PTL
<1> QED
  BY <1>2, ReviewsAreKept, OnlyApprovedIsPublished, PTL

=============================================================================
