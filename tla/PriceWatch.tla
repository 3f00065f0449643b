----------------------------- MODULE PriceWatch -----------------------------
(***************************************************************************)
(* One watched Kindle price (services/kindle_catalog/price_observation.py, *)
(* price_delivery.py, price_notify.py): a report stores an observation and *)
(* queues its notifications in one transaction, then sends what is pending *)
(* and marks what was sent.  Reports come from the command line and over   *)
(* HTTP, so they overlap, and each can end anywhere.  A watch can be       *)
(* deleted at any time, and SQLite may give the ids of a deleted watch and *)
(* of its observations to the next one.                                    *)
(*                                                                         *)
(* The list price is fixed: a price below Threshold has a ratio below the  *)
(* threshold of the watch.                                                 *)
(***************************************************************************)
EXTENDS Integers, Sequences, FiniteSets

CONSTANTS
    Reporters,
    Prices,             \* effective prices
    Threshold,
    MaxObservations,    \* bound of the observations of a watch, one fewer after each break
    MaxBreaks           \* bound of the reports that end early and of the deletions of the watch

ASSUME PriceAssumption == Prices \subseteq Nat \ {0} /\ Threshold \in Nat /\ MaxObservations \in Nat /\ MaxBreaks \in Nat

VARIABLES
    watched,            \* is there a watch?
    seen,               \* the observations: price (0: none), whether it has a ratio, and
                        \* the previous one that its report compared it with (0: none, or one
                        \* of a deleted watch); history only
    pending,            \* queued notifications <<observation, kind>> with notified_at NULL
    marked,             \* those with notified_at
    posted,             \* those that Discord got; history only
    astray,             \* those that a report of a deleted watch marked as its own; history only
    report,             \* reporter -> the report in progress
    breaks

queueVars == <<pending, marked, posted, astray>>
priceVars == <<watched, seen, queueVars, report, breaks>>

NoReport == [at |-> "idle"]

PriceInit ==
    /\ watched = TRUE
    /\ seen = <<>>
    /\ pending = {} /\ marked = {} /\ posted = {} /\ astray = {}
    /\ report = [q \in Reporters |-> NoReport]
    /\ breaks = 0

Reports(q, record) == report' = [report EXCEPT ![q] = record]

\* The last observation with a price among the first n, 0 if there is none.
LastPriced(n) ==
    LET priced == {o \in 1 .. n : seen[o].price # 0}
    IN  IF priced = {} THEN 0 ELSE CHOOSE o \in priced : \A k \in priced : k <= o
-----------------------------------------------------------------------------
\* record_observation: the watch and the previous observation are read first.
NoPrice == [price |-> 0, ratio |-> FALSE]
PriceOf(o) == IF o = 0 THEN NoPrice ELSE [price |-> seen[o].price, ratio |-> seen[o].ratio]

Compare(q) ==
    /\ report[q] = NoReport
    /\ watched /\ Len(seen) + breaks < MaxObservations
    /\ LET prev == LastPriced(Len(seen))
       IN  Reports(q, [at |-> "compared", prev |-> prev, was |-> PriceOf(prev)])
    /\ UNCHANGED <<watched, seen, queueVars, breaks>>

Below(price, ratio) == ratio /\ price < Threshold
Dropped(price, was) == price # 0 /\ was.price # 0 /\ price < was.price

\* A previous observation without a ratio counts as none.
CrossedAlways(price, ratio, was) == Below(price, ratio)     \* slip: the previous ratio is not looked at
Crossed(price, ratio, was) == Below(price, ratio) /\ ~Below(was.price, was.ratio)

Record(q) ==
    /\ report[q].at = "compared"
    /\ watched /\ Len(seen) + breaks < MaxObservations
    /\ \E price \in Prices \cup {0}, ratio \in BOOLEAN :
        /\ ratio => price # 0
        /\ LET was == report[q].was
               kinds == (IF Dropped(price, was) THEN {"price_drop"} ELSE {})
                        \cup (IF Crossed(price, ratio, was) THEN {"below_threshold"} ELSE {})
           IN  /\ seen' = Append(seen, [price |-> price, ratio |-> ratio, prev |-> report[q].prev])
               /\ pending' = pending \cup ({Len(seen) + 1} \X kinds)
    /\ Reports(q, [at |-> "stored"])
    /\ UNCHANGED <<watched, marked, posted, astray, breaks>>

\* An observation without its watch is refused (foreign key).
RecordRaises(q) ==
    /\ report[q].at = "compared" /\ ~watched
    /\ Reports(q, NoReport)
    /\ UNCHANGED <<watched, seen, queueVars, breaks>>

\* send_pending_notifications
ReadPending(q) ==
    /\ report[q].at = "stored"
    /\ Reports(q, [at |-> "sending", todo |-> pending, late |-> FALSE])
    /\ UNCHANGED <<watched, seen, queueVars, breaks>>

Earliest(todo) == CHOOSE o \in {n[1] : n \in todo} : \A n \in todo : o <= n[1]
Group(todo) == {n \in todo : n[1] = Earliest(todo)}

\* What a late report sends is of the deleted watch.
WithPost(q) == IF report[q].late THEN posted ELSE posted \cup Group(report[q].todo)

Post(q) ==
    /\ report[q].at = "sending" /\ report[q].todo # {}
    /\ posted' = WithPost(q)
    /\ Reports(q, [report[q] EXCEPT !.at = "marking"])
    /\ UNCHANGED <<watched, seen, pending, marked, astray, breaks>>

\* No webhook, or the request fails, after Discord took it or before.
AfterFailureMarked(q) == [report[q] EXCEPT !.at = "marking"]    \* slip: marked whatever the outcome
AfterFailure(q) == [report[q] EXCEPT !.todo = @ \ Group(@)]

PostFails(q) ==
    /\ report[q].at = "sending" /\ report[q].todo # {}
    /\ posted' \in {posted, WithPost(q)}
    /\ Reports(q, AfterFailure(q))
    /\ UNCHANGED <<watched, seen, pending, marked, astray, breaks>>

\* The rows are found by their ids, and must be unmarked.
MarkSent(q) ==
    /\ report[q].at = "marking"
    /\ LET sent == Group(report[q].todo)
       IN  /\ pending' = pending \ sent
           /\ marked' = marked \cup (sent \cap pending)
           /\ astray' = IF report[q].late THEN astray \cup (sent \cap pending) ELSE astray
           /\ Reports(q, [at |-> "sending", todo |-> report[q].todo \ sent, late |-> report[q].late])
    /\ UNCHANGED <<watched, seen, posted, breaks>>

EndReport(q) ==
    /\ report[q].at = "sending" /\ report[q].todo = {}
    /\ Reports(q, NoReport)
    /\ UNCHANGED <<watched, seen, queueVars, breaks>>

Break(q) ==
    /\ report[q] # NoReport
    /\ breaks < MaxBreaks
    /\ breaks' = breaks + 1
    /\ Reports(q, NoReport)
    /\ UNCHANGED <<watched, seen, queueVars>>
-----------------------------------------------------------------------------
\* delete_watch: observations and notifications go with the watch; a report in
\* progress goes on with what it has read.
LeftPendingAll == pending                             \* slip: the notifications outlive their watch
LeftPending == {}

Orphaned(r) ==
    CASE r.at = "compared" -> [r EXCEPT !.prev = 0]
      [] r.at \in {"sending", "marking"} -> [r EXCEPT !.late = TRUE]
      [] r.at \in {"idle", "stored"} -> r

DeleteWatch ==
    /\ watched
    /\ breaks < MaxBreaks /\ breaks' = breaks + 1
    /\ watched' = FALSE
    /\ seen' = <<>> /\ pending' = LeftPending /\ marked' = {} /\ posted' = {} /\ astray' = {}
    /\ report' = [q \in Reporters |-> Orphaned(report[q])]

\* create_watch: the ids that a report still holds are given to the new watch
\* and its observations, or never again; then its writes meet nothing.
CreateWatch ==
    /\ ~watched
    /\ watched' = TRUE
    /\ \E gone \in SUBSET Reporters :
        report' = [q \in Reporters |-> IF q \in gone THEN NoReport ELSE report[q]]
    /\ UNCHANGED <<seen, queueVars, breaks>>
-----------------------------------------------------------------------------
PriceNext ==
    \/ DeleteWatch \/ CreateWatch
    \/ \E q \in Reporters :
          \/ Compare(q) \/ Record(q) \/ RecordRaises(q) \/ ReadPending(q)
          \/ Post(q) \/ PostFails(q) \/ MarkSent(q) \/ EndReport(q) \/ Break(q)

PriceSpec == PriceInit /\ [][PriceNext]_priceVars
-----------------------------------------------------------------------------
Notifications == (1 .. Len(seen)) \X {"price_drop", "below_threshold"}

\* Types of the watch.
PriceTypeOK ==
    /\ seen \in Seq([price : Prices \cup {0}, ratio : BOOLEAN, prev : 0 .. MaxObservations])
    /\ watched \in BOOLEAN
    /\ pending \subseteq Notifications /\ marked \subseteq Notifications
    /\ posted \subseteq Notifications /\ astray \subseteq Notifications
    /\ \A q \in Reporters : report[q].at \in {"idle", "compared", "stored", "sending", "marking"}
    /\ breaks \in 0 .. MaxBreaks

\* Wherever a report breaks off, no notification is lost: one that is not
\* pending was posted (send_pending_notifications: at least once), unless a
\* report that was sending when the watch before it was deleted found it under
\* the ids of its own (_mark_notifications_sent).
NotificationsAreKept == marked \subseteq posted \cup astray /\ pending \cap marked = {}

\* Two notifications that the price is below the threshold have an observation
\* at or above it in between, or one without a ratio (which the code takes for
\* a fresh start), or the later one came from a report that overlapped the
\* earlier one or the deletion of the watch before.
CrossingsAreReportedOnce ==
    \A m, n \in 1 .. Len(seen) :
        /\ m < n
        /\ <<m, "below_threshold">> \in pending \cup marked
        /\ <<n, "below_threshold">> \in pending \cup marked
        => \/ seen[n].prev < m
           \/ \E k \in m + 1 .. n - 1 : seen[k].price # 0 /\ ~Below(seen[k].price, seen[k].ratio)

\* Observations, queue and posted notifications agree.
NotificationsAgree == NotificationsAreKept /\ CrossingsAreReportedOnce
=============================================================================
