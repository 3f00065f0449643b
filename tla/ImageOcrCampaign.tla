--------------------------- MODULE ImageOcrCampaign --------------------------
(***************************************************************************)
(* The image-OCR campaign (backend/services/novel_db/sol_ocr_campaign.py,  *)
(* sol_ocr_import.py, backend/tools/sol_ocr_v2*.py): two sessions read the *)
(* pages of a pilot independently of each other, a third one judges, and   *)
(* the judgement is imported as an OCR run.  Everything between the steps  *)
(* lies in files that name each other by digest; images are captured anew  *)
(* and files removed at any time, and each tool may be cut off between two *)
(* of its files.                                                           *)
(*                                                                         *)
(* The campaign has one book; a digest is the thing it is the digest of,   *)
(* and a session is one worker.  An operator runs one tool at a time, and  *)
(* the runs that were imported are not reviewed yet.                       *)
(***************************************************************************)
EXTENDS Integers, Sequences, FiniteSetsExt

CONSTANTS
    NumSamples,         \* pages of the book, all in the pilot
    CampaignSessions,
    MaxPilots,
    MaxTools,           \* bound of tool runs
    MaxChanges          \* bound of new images and removed files

ASSUME CampaignAssumption ==
    /\ {NumSamples, MaxPilots} \subseteq Nat \ {0}
    /\ {MaxTools, MaxChanges} \subseteq Nat

VARIABLES
    image,              \* the image of each page, as a version
    pilots,             \* pilot manifests: the image they pin for each page
    files,              \* artifacts by kind and page
    ocrRows,            \* ocr_page_results of the campaign's runs, by run and page
    tools,
    changes

campaignVars == <<image, pilots, files, ocrRows, tools, changes>>

Samples == 1 .. NumSamples
Purposes == {"tuning", "formal"}
Kinds == {"a", "b", "checker", "resolved"}
None == [none |-> TRUE]
NoRows == [p \in Samples |-> None]
Runs == (1 .. MaxPilots) \X Purposes                    \* model revisions

CampaignInit ==
    /\ image = [p \in Samples |-> 1]
    /\ pilots = <<>>
    /\ files = [k \in Kinds |-> NoRows]
    /\ ocrRows = [r \in Runs |-> NoRows]
    /\ tools = 0 /\ changes = 0

Tool == tools < MaxTools /\ tools' = tools + 1 /\ UNCHANGED changes
Change == changes < MaxChanges /\ changes' = changes + 1 /\ UNCHANGED tools
-----------------------------------------------------------------------------
Recapture(p) ==
    /\ Change
    /\ image' = [image EXCEPT ![p] = changes + 2]
    /\ UNCHANGED <<pilots, files, ocrRows>>

RemoveFile(kind, p) ==
    /\ files[kind][p] # None
    /\ Change
    /\ files' = [files EXCEPT ![kind][p] = None]
    /\ UNCHANGED <<image, pilots, ocrRows>>

\* create_manifest and create_pilot_manifest
CreatePilot ==
    /\ Len(pilots) < MaxPilots
    /\ pilots' = Append(pilots, image)
    /\ UNCHANGED <<image, files, ocrRows, tools, changes>>

\* validate_page_candidate_v2_artifact: the image is the pilot's, and still there.
Fits(artifact, p) ==
    /\ artifact.image = pilots[artifact.pilot][p]
    /\ artifact.image = image[p]

\* Writing the artifacts of the first n pages; an existing file must be the same.
Conflicts(kind, p, new) == files[kind][p] \notin {None, new[p]}
Writes(kind, new, n) ==
    /\ \A p \in 1 .. n : ~Conflicts(kind, p, new)
    /\ files' = [files EXCEPT ![kind] = [p \in Samples |-> IF p <= n THEN new[p] ELSE @[p]]]

\* normalize_candidates: all pages are valid before the first file is written.
NormalizeCandidates(kind, pilot, purpose, by, saw, n) ==
    LET new == [p \in Samples |-> [pilot |-> pilot, purpose |-> purpose, by |-> by, image |-> saw[p]]]
    IN  /\ Tool
        /\ \A p \in Samples : Fits(new[p], p)
        /\ Writes(kind, new, n)
        /\ UNCHANGED <<image, pilots, ocrRows>>

\* validate_page_candidate_pair, validate_checker_v2_artifact
IsPair(a, b) ==
    /\ None \notin {a, b}
    /\ [a EXCEPT !.by = b.by] = b
    /\ a.by # b.by
IsThirdToo(checker) == TRUE                             \* slip: the checker may be one of the two
IsThird(checker) == checker.by \notin {checker.a.by, checker.b.by}
Judges(checker, a, b) == checker.a = a /\ checker.b = b /\ IsPair(a, b) /\ IsThird(checker)

\* The checker's verdict: a selection is a pass; clean is its complete coverage,
\* reading order and freedom of major errors.  Selection "a" stands for both.
Verdicts == [selection : {"a"}, clean : BOOLEAN] \cup [selection : {"none"}, clean : {FALSE}]
Eligible(checker) == checker.verdict.selection # "none" /\ checker.verdict.clean

Checker(p, by, verdict) == [by |-> by, a |-> files["a"][p], b |-> files["b"][p], verdict |-> verdict]
Resolved(checker) == [checker |-> checker, eligible |-> Eligible(checker)]

\* resolve_candidates: page by page the checker's file, then the resolved one;
\* n files are written until it is cut off or refuses.
ResolveCandidates(by, verdicts, n) ==
    LET checkers == [p \in Samples |-> Checker(p, by, verdicts[p])]
        resolved == [p \in Samples |-> Resolved(checkers[p])]
        begun == (n + 1) \div 2
        complete == n \div 2
    IN  /\ Tool
        /\ \A p \in 1 .. begun :
            /\ Judges(checkers[p], files["a"][p], files["b"][p])
            /\ Fits(files["a"][p], p) /\ Fits(files["b"][p], p)
            /\ ~Conflicts("checker", p, checkers)
        /\ \A p \in 1 .. complete : ~Conflicts("resolved", p, resolved)
        /\ files' = [files EXCEPT !["checker"] = [p \in Samples |-> IF p <= begun THEN checkers[p] ELSE @[p]],
                                  !["resolved"] = [p \in Samples |-> IF p <= complete THEN resolved[p] ELSE @[p]]]
        /\ UNCHANGED <<image, pilots, ocrRows>>

\* validate_resolved_v2_artifact
IsBundleByName(a, b, checker, resolved, p) ==           \* slip: the files are not compared by digest
    /\ None \notin {a, b, checker, resolved}
    /\ IsPair(a, b) /\ Fits(a, p) /\ Fits(b, p) /\ Judges(checker, a, b)
IsBundle(a, b, checker, resolved, p) ==
    /\ None \notin {a, b, checker, resolved}
    /\ IsPair(a, b) /\ Fits(a, p) /\ Fits(b, p) /\ Judges(checker, a, b)
    /\ resolved.checker = checker
    /\ resolved.eligible => Eligible(checker)

\* import_resolved_v2_bundles: every page or none, and a page that is there
\* must be the same.
Passed(purpose, checker, resolved) ==
    resolved.eligible /\ checker.verdict.selection # "none" /\ purpose = "formal"

OverridesRow(run, p, row) == FALSE                      \* slip: a later import wins
ConflictsRow(run, p, row) == ocrRows[run][p] \notin {None, row}

ImportBundles ==
    LET a(p) == files["a"][p]
        run(p) == <<a(p).pilot, a(p).purpose>>
        row(p) == [image |-> a(p).image, a |-> a(p), b |-> files["b"][p],
                   checker |-> files["checker"][p], resolved |-> files["resolved"][p],
                   passed |-> Passed(a(p).purpose, files["checker"][p], files["resolved"][p])]
    IN  /\ Tool
        /\ \A p \in Samples :
            /\ IsBundle(a(p), files["b"][p], files["checker"][p], files["resolved"][p], p)
            /\ a(p).pilot = a(1).pilot                  \* the pilot given to the tool
            /\ ~ConflictsRow(run(p), p, row(p))
        /\ ocrRows' = [r \in Runs |-> [p \in Samples |-> IF run(p) = r THEN row(p) ELSE ocrRows[r][p]]]
        /\ UNCHANGED <<image, pilots, files>>

CampaignNext ==
    \/ \E p \in Samples : Recapture(p)
    \/ \E kind \in Kinds, p \in Samples : RemoveFile(kind, p)
    \/ CreatePilot
    \/ \E kind \in {"a", "b"}, pilot \in DOMAIN pilots, purpose \in Purposes, by \in CampaignSessions,
          saw \in {image} \cup {pilots[i] : i \in DOMAIN pilots}, n \in Samples :
            NormalizeCandidates(kind, pilot, purpose, by, saw, n)
    \/ \E by \in CampaignSessions, verdicts \in [Samples -> Verdicts], n \in 1 .. 2 * NumSamples :
            ResolveCandidates(by, verdicts, n)
    \/ ImportBundles

CampaignSpec == CampaignInit /\ [][CampaignNext]_campaignVars
-----------------------------------------------------------------------------
CampaignTypeOK ==
    /\ DOMAIN files = Kinds /\ Len(pilots) <= MaxPilots
    /\ tools \in 0 .. MaxTools /\ changes \in 0 .. MaxChanges

\* Text that passes without a reader's review was read from the image that the
\* pilot pins, by two sessions, and a third one found the chosen reading of
\* exactly these two complete and without error, for the formal purpose; no
\* sequence of new images, removed files and tools cut off half way can put
\* other files under it.
PassedIsJudged ==
    \A r \in Runs, p \in Samples :
        LET row == ocrRows[r][p] IN
        row # None /\ row.passed =>
            /\ r[2] = "formal"
            /\ row.image = pilots[r[1]][p]
            /\ \A c \in {row.a, row.b} : <<c.pilot, c.purpose, c.image>> = <<r[1], r[2], row.image>>
            /\ Cardinality({row.a.by, row.b.by, row.checker.by}) = 3
            /\ row.checker.a = row.a /\ row.checker.b = row.b
            /\ row.resolved.checker = row.checker
            /\ row.checker.verdict.clean /\ row.checker.verdict.selection # "none"

\* What was imported for a page of a run is never replaced.
RowsStay == \A r \in Runs, p \in Samples : ocrRows[r][p] # None => ocrRows'[r][p] = ocrRows[r][p]
=============================================================================
