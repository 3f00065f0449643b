----------------------------- MODULE CaptureLoop ----------------------------
(***************************************************************************)
(* The loop that captures a book screen by screen (kindle-pdf/             *)
(* capture_loop.py, capture_canary.py): it presses the page key, watches   *)
(* the window until it shows another stable image or the time is over, and *)
(* takes a page that stays the same for the end of the book.  Kindle may   *)
(* ignore a key or show the turn late.                                     *)
(*                                                                         *)
(* An image is a look; two screens of one look cannot be told apart.       *)
(* Notifications over the page are left out.                               *)
(***************************************************************************)
EXTENDS Integers, Sequences

CONSTANTS
    Looks,
    MaxScreens,         \* longest book
    RetryCount,         \* PAGE_CHANGE_RETRY_COUNT
    MinCycleScreens,    \* minimum_capture_screens
    MaxSlips            \* bound of ignored keys, late turns and exceptions

ASSUME LoopAssumption ==
    MaxScreens \in Nat \ {0} /\ RetryCount \in Nat /\ MinCycleScreens \in Nat /\ MaxSlips \in Nat

VARIABLES
    book,               \* what its screens look like
    setting,            \* how it is captured and how Kindle behaves after its last screen
    shown,              \* the screen in the window
    owed,               \* turns that Kindle accepted and does not show yet, 1 or -1 each
    position,           \* where the loop is
    saved,              \* 001.png, 002.png, ...
    cycle,              \* two_screen_cycle_matches
    tries,              \* recovery actions since the page was turned
    deafness,           \* keys ignored in a row; history only
    trouble,            \* what the loop is no match for; history only
    slips

loopVars == <<book, setting, shown, owed, position, saved, cycle, tries, deafness, trouble, slips>>

Books == UNION {[1 .. n -> Looks] : n \in 1 .. MaxScreens}
AnyCount == 0                                           \* EXPECTED_PAGES is None
Settings ==
    [byHand : BOOLEAN,                                  \* main_novel.py: without a canary
     rightKey : BOOLEAN,                                \* PAGE_CHANGE_KEY turns forward
     circles : BOOLEAN,                                 \* after the last screen comes the last but one
     expected : {AnyCount} \cup 1 .. MaxScreens]

LoopInit ==
    /\ book \in Books
    /\ setting \in Settings
    /\ shown = 1
    /\ owed = <<>>
    /\ position = IF setting.byHand THEN "watch" ELSE "canary"
    /\ saved = <<>> /\ cycle = 0 /\ tries = 0
    /\ deafness = 0 /\ trouble = {} /\ slips = 0

Image == book[shown]
Slip == slips < MaxSlips /\ slips' = slips + 1
Ends(how) ==
    /\ position' = how
    /\ UNCHANGED <<book, setting, shown, owed, cycle, tries, deafness, trouble>>
-----------------------------------------------------------------------------
(***************************************************************************)
(* Kindle.                                                                 *)
(***************************************************************************)
Turned(screen, direction) ==
    IF direction = -1 THEN IF screen = 1 THEN 1 ELSE screen - 1
    ELSE IF screen < Len(book) THEN screen + 1
    ELSE IF setting.circles /\ screen > 1 THEN screen - 1 ELSE screen

ShowTurn ==
    /\ owed # <<>>
    /\ shown' = Turned(shown, Head(owed))
    /\ owed' = Tail(owed)
    /\ UNCHANGED <<book, setting, position, saved, cycle, tries, deafness, trouble, slips>>

Selected == IF setting.rightKey THEN 1 ELSE -1
Other == IF setting.rightKey THEN -1 ELSE 1

\* _turn_page and the click of a retry: Kindle accepts it, or does not notice.
Press(direction) ==
    \/ owed' = Append(owed, direction) /\ deafness' = 0 /\ UNCHANGED <<trouble, slips>>
    \/ /\ Slip
       /\ deafness' = deafness + 1
       /\ trouble' = IF deafness' > RetryCount THEN trouble \cup {"deaf"} ELSE trouble
       /\ UNCHANGED owed

\* TIMEOUT_SEC went by and the window shows what it showed before.
Unchanged ==
    IF owed = <<>> THEN UNCHANGED <<trouble, slips>> ELSE Slip /\ trouble' = trouble \cup {"late"}
-----------------------------------------------------------------------------
(***************************************************************************)
(* run_capture_canary: one turn, without a retry; the agent then goes back *)
(* to the start.                                                           *)
(***************************************************************************)
CanaryTurns ==
    /\ position = "canary" /\ position' = "canary watch"
    /\ Press(Selected)
    /\ UNCHANGED <<book, setting, shown, saved, cycle, tries>>

CanaryPasses ==
    /\ position = "canary watch" /\ Image # book[1]
    /\ position' = "watch"
    /\ shown' = 1 /\ owed' = <<>> /\ deafness' = 0
    /\ UNCHANGED <<book, setting, saved, cycle, tries, trouble, slips>>

CanaryFails ==
    /\ position = "canary watch" /\ Image = book[1]
    /\ Unchanged
    /\ position' = "failed"
    /\ UNCHANGED <<book, setting, shown, owed, saved, cycle, tries, deafness>>
-----------------------------------------------------------------------------
(***************************************************************************)
(* capture_loop.                                                           *)
(***************************************************************************)
Page == Len(saved) + 1
TooEarly(count) == setting.expected # AnyCount /\ count < setting.expected
Changed == IF saved = <<>> THEN TRUE ELSE Image # saved[Len(saved)]

CyclesOnce == IF Len(saved) > 1 /\ Image = saved[Len(saved) - 1] THEN 2 ELSE 0    \* slip: one match is enough
Cycles == IF Len(saved) > 1 /\ Image = saved[Len(saved) - 1] THEN cycle + 1 ELSE 0

Save ==
    /\ position = "watch" /\ Changed /\ Cycles < 2
    /\ saved' = Append(saved, Image)
    /\ cycle' = Cycles
    /\ tries' = 0
    /\ position' = IF setting.expected # AnyCount /\ Page >= setting.expected THEN "confirm" ELSE "turn"
    /\ UNCHANGED <<book, setting, shown, owed, deafness, trouble, slips>>

\* The last two screens came again: the second copy of the first is discarded.
CycleEnds ==
    /\ position = "watch" /\ Changed /\ Cycles >= 2
    /\ IF Page - 2 >= MinCycleScreens /\ ~TooEarly(Page - 2)
       THEN Ends("done") /\ saved' = SubSeq(saved, 1, Page - 2)
       ELSE Ends("failed") /\ UNCHANGED saved
    /\ UNCHANGED slips

TurnPage ==
    /\ position = "turn" /\ position' = "watch"
    /\ Press(Selected)
    /\ UNCHANGED <<book, setting, shown, saved, cycle, tries>>

\* page_change_recovery_actions: retries, and the other key for the second page.
RecoveriesNone == 0                                     \* slip: a turn is not tried again
RecoveriesTwice == IF Page = 2 THEN RetryCount + 2 ELSE RetryCount      \* slip: the other key twice
Recoveries == IF Page = 2 THEN RetryCount + 1 ELSE RetryCount

NotChanged ==
    /\ position = "watch" /\ ~Changed
    /\ Unchanged
    /\ IF tries < Recoveries THEN position' = "recover"
       ELSE position' = IF TooEarly(Len(saved)) THEN "failed" ELSE "done"
    /\ UNCHANGED <<book, setting, shown, owed, saved, cycle, tries, deafness>>

RecoverAgain ==                                         \* slip: the tries are not counted
    /\ position = "recover" /\ position' = "watch"
    /\ Press(Selected)
    /\ UNCHANGED <<book, setting, shown, saved, cycle, tries>>

Recover ==
    /\ position = "recover" /\ position' = "watch"
    /\ tries' = tries + 1
    /\ Press(IF tries < RetryCount THEN Selected ELSE Other)
    /\ UNCHANGED <<book, setting, shown, saved, cycle>>

\* _confirm_expected_end
ConfirmTurns ==
    /\ position = "confirm" /\ position' = "confirm watch"
    /\ Press(Selected)
    /\ UNCHANGED <<book, setting, shown, saved, cycle, tries>>

Confirmed ==
    /\ position = "confirm watch" /\ ~Changed
    /\ Unchanged
    /\ IF tries < RetryCount THEN position' = "confirm" /\ tries' = tries + 1
       ELSE position' = "done" /\ UNCHANGED tries
    /\ UNCHANGED <<book, setting, shown, owed, saved, cycle, deafness>>

MoreFollows ==
    /\ position = "confirm watch" /\ Changed
    /\ Ends("failed") /\ UNCHANGED <<saved, slips>>

\* The window loses the foreground, an image does not become stable or cannot
\* be saved, the heartbeat failed.
Raises ==
    /\ position \notin {"done", "failed"}
    /\ Slip
    /\ Ends("failed") /\ UNCHANGED saved

LoopStep ==
    \/ CanaryTurns \/ CanaryPasses \/ CanaryFails
    \/ Save \/ CycleEnds \/ TurnPage \/ NotChanged \/ Recover
    \/ ConfirmTurns \/ Confirmed \/ MoreFollows
LoopNext == LoopStep \/ Raises \/ ShowTurn

\* The process runs, and Kindle shows what it accepted.
LoopFairness == WF_loopVars(LoopStep) /\ WF_loopVars(ShowTurn)

LoopSpec == LoopInit /\ [][LoopNext]_loopVars /\ LoopFairness
-----------------------------------------------------------------------------
LoopTypeOK ==
    /\ book \in Books /\ setting \in Settings
    /\ shown \in 1 .. Len(book)
    /\ owed \in Seq({1, -1}) /\ Len(owed) <= MaxSlips + 1
    /\ position \in {"canary", "canary watch", "watch", "turn", "recover", "confirm", "confirm watch",
                     "done", "failed"}
    /\ saved \in Seq(Looks)
    /\ cycle \in 0 .. 1 /\ tries \in 0 .. RetryCount + 1
    /\ deafness \in 0 .. MaxSlips /\ trouble \subseteq {"deaf", "late"} /\ slips \in 0 .. MaxSlips

\* Books of which the loop can tell all screens apart that it compares: no
\* screen looks like the one before it, and no two like the two before them; if
\* Kindle goes back after the last screen, that one differs from the last but two.
Distinguishable ==
    /\ \A i \in 1 .. Len(book) - 1 : book[i] # book[i + 1]
    /\ \A i \in 1 .. Len(book) - 3 : <<book[i], book[i + 1]>> # <<book[i + 2], book[i + 3]>>
    /\ setting.circles => \A i \in {Len(book)} \ {1, 2} : book[i] # book[i - 2]

\* A capture that claims the end of the book holds every screen once and in
\* order, unless a turn came after its time or no try of a key was noticed; the
\* agent never completes one with the wrong key (the canary), and the number
\* of screens is the expected one.
CompleteOrRefused ==
    position = "done" =>
        /\ trouble = {} /\ Distinguishable /\ setting.rightKey => saved = book
        /\ setting.byHand \/ setting.rightKey
        /\ setting.expected # AnyCount => Len(saved) = setting.expected

\* The loop has no limit of pages, and still it ends: whatever the book looks
\* like and however Kindle behaves after its last screen.
LoopEnds == <>(position \in {"done", "failed"})

=============================================================================
