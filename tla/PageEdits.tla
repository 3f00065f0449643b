----------------------------- MODULE PageEdits -----------------------------
(***************************************************************************)
(* The pages of a book of images: a directory of WebP files whose natural  *)
(* order of names is the order of the pages (services/image_service.py,    *)
(* the delete_pages and reorder_pages endpoints of routers/pdfs.py).  A    *)
(* reordering renames every file to a temporary name and then to its final *)
(* one; a deletion removes files one by one; both then make the cover from *)
(* the first page, and report success also when that fails.  The endpoints *)
(* run in server threads without a lock.                                   *)
(*                                                                         *)
(* The reader numbers pages by the order it was shown, which may be an     *)
(* older one: a request carries any numbers that the checks let pass.      *)
(***************************************************************************)
EXTENDS Integers, SequencesExt

CONSTANTS
    PageCount,          \* pages of the book at first
    Editors,            \* server threads, numbered
    MaxPageEdits,       \* bound of the requests
    MaxPageBreaks       \* bound of the requests cut off by an exception or the process's end, and of failed covers

ASSUME PageAssumption ==
    /\ PageCount \in Nat \ {0}
    /\ Editors \subseteq Nat
    /\ MaxPageEdits \in Nat /\ MaxPageBreaks \in Nat

VARIABLES
    files,              \* file name -> the page it holds
    edit,               \* editor -> the request it serves
    bookCover,          \* the page on the thumbnail, or NoCover
    deleted,            \* pages that a deletion removed
    promised,           \* {what the latest edit did, if it was reported as done and ran alone}: the order
                        \* it was to leave, and whether it made the cover; history only
    tangled,            \* has a reordering been cut off or met another one? history only
    pageEdits,          \* number of requests so far
    pageBreaks          \* number of requests that were cut off or made no cover

pageVars == <<files, edit, bookCover, deleted, promised, tangled, pageEdits, pageBreaks>>

\* A page is known by its place at first.
BookPages == 1 .. PageCount

\* Names in their natural order: those the scanner gave, the temporary ones
\* (__reorder_tmp_NNNN) and the final ones (page_NNNN).
FileNames == (1 .. 3) \X BookPages
Own(i) == <<1, i>>
Tmp(i) == <<2, i>>
Final(i) == <<3, i>>

Sorts(m, n) == m[1] < n[1] \/ (m[1] = n[1] /\ m[2] < n[2])

Natsorted(names) ==
    CHOOSE list \in SetToSeqs(names) : \A i, k \in DOMAIN list : i < k => Sorts(list[i], list[k])

\* _list_webps_sorted
PageList == Natsorted(DOMAIN files)
PagesOf(names) == [i \in DOMAIN names |-> files[names[i]]]

NoName == <<>>
NoCover == 0            \* the thumbnail is broken
NoEdit == [op |-> "none", todo |-> <<>>, wanted |-> <<>>, alone |-> TRUE]

PageInit ==
    /\ \/ files = [n \in {Own(i) : i \in BookPages} |-> n[2]]
       \/ files = [n \in {Final(i) : i \in BookPages} |-> n[2]]
    /\ edit = [e \in Editors |-> NoEdit]
    /\ bookCover = 1
    /\ deleted = {} /\ promised = {} /\ tangled = FALSE
    /\ pageEdits = 0 /\ pageBreaks = 0
-----------------------------------------------------------------------------
Orders(n) == {order \in [1 .. n -> 1 .. n] : \A i, k \in 1 .. n : order[i] = order[k] => i = k}

\* The renames of a reordering, in the order in which they are made.
MovesAtOnce(names, order) ==                    \* slip: no temporary names
    [i \in DOMAIN order |-> [from |-> names[order[i]], to |-> Final(i)]]
MovesInPlace(names, order) ==                   \* slip: the temporary names keep the old order
    [i \in DOMAIN order |-> [from |-> names[i], to |-> Tmp(i)]]
        \o [i \in DOMAIN order |-> [from |-> Tmp(i), to |-> Final(i)]]
Moves(names, order) ==
    [i \in DOMAIN order |-> [from |-> names[order[i]], to |-> Tmp(i)]]
        \o [i \in DOMAIN order |-> [from |-> Tmp(i), to |-> Final(i)]]

\* The removals of a deletion, from the last page to the first.
Removals(names, chosen) ==
    LET down == Reverse(Natsorted({names[i] : i \in chosen}))
    IN  [i \in DOMAIN down |-> [from |-> down[i], to |-> NoName]]

\* Any free thread may take a request; the first one stands for all.
BeginEdit(e, op, todo, wanted) ==
    /\ edit[e] = NoEdit /\ \A x \in Editors : x < e => edit[x] # NoEdit
    /\ pageEdits < MaxPageEdits
    /\ pageEdits' = pageEdits + 1
    /\ edit' = [x \in Editors |->
                  IF x = e
                  THEN [op |-> op, todo |-> todo, wanted |-> wanted,
                        alone |-> \A other \in Editors \ {e} : edit[other] = NoEdit]
                  ELSE IF edit[x] = NoEdit THEN NoEdit ELSE [edit[x] EXCEPT !.alone = FALSE]]
    /\ promised' = {}
    /\ tangled' = (tangled \/ (op = "reorder" /\ \E other \in Editors : edit[other].op = "reorder"))
    /\ UNCHANGED <<files, bookCover, deleted, pageBreaks>>

\* A request names every page that is listed once, in the new order.
StartReorder(e) ==
    \E order \in Orders(Len(PageList)) :
        /\ PageList # <<>>
        /\ BeginEdit(e, "reorder", Moves(PageList, order), [i \in DOMAIN order |-> files[PageList[order[i]]]])

StartDelete(e) ==
    \E chosen \in (SUBSET DOMAIN PageList) \ {{}} :
        BeginEdit(e, "delete", Removals(PageList, chosen),
              PagesOf(Natsorted({PageList[i] : i \in DOMAIN PageList \ chosen})))

\* os.rename replaces a file that has the new name.
Renamed(move) ==
    [n \in (DOMAIN files \ {move.from}) \cup {move.to} |->
        IF n = move.to THEN files[move.from] ELSE files[n]]
Removed(name) == [n \in DOMAIN files \ {name} |-> files[n]]

Change(e) ==
    /\ edit[e].todo # <<>>
    /\ LET move == Head(edit[e].todo) IN
       /\ move.from \in DOMAIN files
       /\ IF move.to = NoName
          THEN files' = Removed(move.from) /\ deleted' = deleted \cup {files[move.from]}
          ELSE files' = Renamed(move) /\ UNCHANGED deleted
    /\ edit' = [edit EXCEPT ![e].todo = Tail(@)]
    /\ UNCHANGED <<bookCover, promised, tangled, pageEdits, pageBreaks>>

\* generate_thumbnail_from_image: an error leaves the old cover or a broken one.
CoverMade == PageList # <<>> /\ bookCover' = files[PageList[1]] /\ UNCHANGED pageBreaks
CoverFails ==
    /\ PageList # <<>> /\ pageBreaks < MaxPageBreaks
    /\ bookCover' \in {bookCover, NoCover}
    /\ pageBreaks' = pageBreaks + 1
NothingToShow == PageList = <<>> /\ UNCHANGED <<bookCover, pageBreaks>>

\* A cover is made of the first page; the edit is reported as done in any case.
EndEdit(e) ==
    /\ edit[e].op # "none" /\ edit[e].todo = <<>>
    /\ \E covered \in BOOLEAN :
        /\ IF covered THEN CoverMade ELSE CoverFails \/ NothingToShow
        /\ promised' = IF edit[e].alone THEN {[order |-> edit[e].wanted, covered |-> covered]} ELSE {}
    /\ edit' = [edit EXCEPT ![e] = NoEdit]
    /\ UNCHANGED <<files, deleted, tangled, pageEdits>>

\* The request ends where it is; what was renamed is not renamed back.
CutOff(e) ==
    /\ edit' = [edit EXCEPT ![e] = NoEdit]
    /\ tangled' = (tangled \/ edit[e].op = "reorder")
    /\ UNCHANGED <<files, bookCover, deleted, promised, pageEdits>>

\* The file to rename or remove is not there.
FileIsGone(e) ==
    /\ edit[e].todo # <<>>
    /\ Head(edit[e].todo).from \notin DOMAIN files
    /\ CutOff(e)
    /\ UNCHANGED pageBreaks

EditBreaks(e) ==
    /\ edit[e] # NoEdit
    /\ pageBreaks < MaxPageBreaks
    /\ pageBreaks' = pageBreaks + 1
    /\ CutOff(e)

PageNext ==
    \E e \in Editors :
        StartReorder(e) \/ StartDelete(e) \/ Change(e) \/ EndEdit(e) \/ FileIsGone(e) \/ EditBreaks(e)

PageSpec == PageInit /\ [][PageNext]_pageVars
-----------------------------------------------------------------------------
PageTypeOK ==
    /\ DOMAIN files \subseteq FileNames
    /\ \A n \in DOMAIN files : files[n] \in BookPages
    /\ \A e \in Editors : edit[e].op \in {"none", "reorder", "delete"}
    /\ bookCover \in BookPages \cup {NoCover} /\ deleted \subseteq BookPages
    /\ tangled \in BOOLEAN
    /\ pageEdits \in 0 .. MaxPageEdits /\ pageBreaks \in 0 .. MaxPageBreaks

\* The pages of a book stay in its directory until a deletion removes them, also
\* when a reordering fails on the way (reorder_book_image_pages).
PagesKept == \A p \in BookPages : p \in deleted \/ \E n \in DOMAIN files : files[n] = p

\* What is left when reorderings are neither cut off nor overlap: no page is
\* replaced by another one, whatever deletions overlap them or are cut off.
PagesKeptInOrder == ~tangled => PagesKept

\* An edit that is reported as done and met no other left the pages as it was
\* asked to, and the first of them as the cover if the cover could be made, even
\* over the temporary names that an earlier reordering left behind
\* (reorder_pages, delete_pages).
DoneAsAsked ==
    \A did \in promised :
        /\ PagesOf(PageList) = did.order
        /\ did.covered => bookCover = did.order[1]

PageEditsAgree == PagesKeptInOrder /\ DoneAsAsked
=============================================================================
