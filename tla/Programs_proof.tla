---------------------------- MODULE Programs_proof ---------------------------
(***************************************************************************)
(* Theorems about the programs beside the server: the ledger of the formal *)
(* holdouts, the image-OCR campaign, the OCR worker and the capture loop,  *)
(* alone and under MCPrograms.                                             *)
(***************************************************************************)
EXTENDS MCPrograms, CapturePublication_proof, FiniteSetTheorems, SequenceTheorems, WellFoundedInduction, TLAPS

-----------------------------------------------------------------------------
(* The ledger: the last event of a holdout, and the order of its events. *)

\* A set of positions has a last one.
LEMMA LastIsOne ==
    ASSUME NEW n \in Nat, NEW S, S \subseteq 1 .. n, S # {}
    PROVE  \E x \in S : \A y \in S : y <= x
<1> DEFINE back == {n - x : x \in S}
<1>1. back \subseteq Nat /\ back # {}
  <2>1. \A x \in S : n - x \in Nat
    OBVIOUS
  <2>2. PICK x \in S : TRUE
    OBVIOUS
  <2>3. n - x \in back
    BY <2>2
  <2> QED
    BY <2>1, <2>3
<1>2. PICK b \in back : \A c \in back : ~(<<c, b>> \in OpToRel(<, Nat))
  BY <1>1, NatLessThanWellFounded, WFMin
<1>3. PICK x \in S : b = n - x
  OBVIOUS
<1>4. ASSUME NEW y \in S, ~(y <= x) PROVE FALSE
  <2>1. n - y \in back /\ n - y \in Nat /\ b \in Nat
    BY <1>1
  <2>2. n - y < b
    BY <1>3, <1>4
  <2>3. <<n - y, b>> \in OpToRel(<, Nat)
    BY <2>1, <2>2 DEF OpToRel
  <2> QED
    BY <1>2, <2>1, <2>3
<1> QED
  BY <1>4

LedgerStates == {"sealed", "opened", "retired_to_tuning"}
LedgerEvents == [manifest : Nat, state : LedgerStates]
InOrder(events) == \A i \in DOMAIN events : Earlier(events, i) = Preceding[events[i].state]

\* The state of a holdout is that of its last event.
LEMMA StateIsLast ==
    ASSUME NEW events \in Seq(LedgerEvents), NEW m, EventsFor(events, m) # {}
    PROVE  \E i \in EventsFor(events, m) :
             (\A j \in EventsFor(events, m) : j <= i) /\ StateOf(events, m) = events[i].state
<1> DEFINE own == EventsFor(events, m)
<1>1. Len(events) \in Nat /\ own \subseteq 1 .. Len(events)
  BY LenProperties DEF EventsFor
<1>2. \E x \in own : \A y \in own : y <= x
  BY <1>1, LastIsOne
<1>3. \A x \in own, y \in own : y <= x <=> x >= y
  BY <1>1
<1>4. Max(own) \in own /\ \A y \in own : Max(own) >= y
  BY <1>2, <1>3 DEF Max
<1>5. StateOf(events, m) = events[Max(own)].state
  BY DEF StateOf
<1> QED
  BY <1>3, <1>4, <1>5

\* A holdout went through its state and the states before it, and no others.
LEMMA WentThrough ==
    ASSUME NEW events \in Seq(LedgerEvents), InOrder(events), NEW m, EventsFor(events, m) # {}
    PROVE  /\ StateOf(events, m) \in LedgerStates
           /\ {events[j].state : j \in EventsFor(events, m)}
                = Preceding[StateOf(events, m)] \cup {StateOf(events, m)}
<1>1. PICK i \in EventsFor(events, m) :
        (\A j \in EventsFor(events, m) : j <= i) /\ StateOf(events, m) = events[i].state
  BY StateIsLast
<1>2. Len(events) \in Nat /\ DOMAIN events = 1 .. Len(events)
  BY LenProperties
<1>3. i \in 1 .. Len(events) /\ events[i].manifest = m
  BY <1>1, <1>2 DEF EventsFor
<1>4. events[i] \in LedgerEvents
  BY <1>3, ElementOfSeq
<1>5. Earlier(events, i) = Preceding[events[i].state]
  BY <1>2, <1>3 DEF InOrder
<1>6. EventsFor(events, m) = {k \in 1 .. i - 1 : events[k].manifest = m} \cup {i}
  BY <1>1, <1>2, <1>3 DEF EventsFor
<1>7. {events[j].state : j \in EventsFor(events, m)} = Earlier(events, i) \cup {events[i].state}
  BY <1>3, <1>6 DEF Earlier
<1> QED
  BY <1>1, <1>4, <1>5, <1>7 DEF LedgerEvents

\* One event more: the order is kept, all events are there, and what was opened
\* stays opened or is given up.
LeftHouse == {"opened", "retired_to_tuning"}
HasOneMore(more, events, e) ==
    /\ more \in Seq(LedgerEvents) /\ InOrder(more)
    /\ {more[i] : i \in DOMAIN more} = {events[i] : i \in DOMAIN events} \cup {e}
    /\ \A k : StateOf(events, k) \in LeftHouse => StateOf(more, k) \in LeftHouse

\* An allowed state goes to the end of the ledger and breaks no order.
LEMMA AllowedAppends ==
    ASSUME NEW events \in Seq(LedgerEvents), InOrder(events), NEW m \in Nat, NEW state \in LedgerStates,
           Allowed(events, m, state), NEW e, e = [manifest |-> m, state |-> state], NEW more, more = Append(events, e)
    PROVE  HasOneMore(more, events, e)
<1> DEFINE n == Len(events)
<1>1. n \in Nat /\ DOMAIN events = 1 .. n /\ e \in LedgerEvents
  BY LenProperties DEF LedgerEvents
<1>2. more \in Seq(LedgerEvents) /\ Len(more) = n + 1 /\ (\A i \in 1 .. n : more[i] = events[i]) /\ more[n + 1] = e
  BY <1>1, AppendProperties
<1>3. DOMAIN more = 1 .. n + 1
  BY <1>2, LenProperties
<1>4. ASSUME NEW i \in 1 .. n PROVE Earlier(more, i) = Earlier(events, i)
  BY <1>1, <1>2 DEF Earlier
<1>5. Earlier(more, n + 1) = {events[j].state : j \in EventsFor(events, m)}
  BY <1>1, <1>2 DEF Earlier, EventsFor
<1>6. Earlier(more, n + 1) = Preceding[state]
  <2>1. CASE EventsFor(events, m) = {}
    <3>1. StateOf(events, m) = "none"
      BY <2>1 DEF StateOf
    <3>2. state = "sealed"
      BY <3>1 DEF Allowed, LedgerStates
    <3> QED
      BY <1>5, <2>1, <3>2 DEF Preceding
  <2>2. CASE EventsFor(events, m) # {}
    <3>1. {events[j].state : j \in EventsFor(events, m)}
                = Preceding[StateOf(events, m)] \cup {StateOf(events, m)}
      BY <2>2, WentThrough
    <3>2. \/ state = "opened" /\ StateOf(events, m) = "sealed"
          \/ state = "retired_to_tuning" /\ StateOf(events, m) = "opened"
      <4>1. CASE state = "sealed"
        BY <2>2, <4>1 DEF Allowed
      <4>2. CASE state = "opened"
        BY <4>2 DEF Allowed
      <4>3. CASE state = "retired_to_tuning"
        BY <4>3 DEF Allowed
      <4> QED
        BY <4>1, <4>2, <4>3 DEF LedgerStates
    <3>3. Preceding["sealed"] = {} /\ Preceding["opened"] = {"sealed"}
          /\ Preceding["retired_to_tuning"] = {"sealed", "opened"}
      BY DEF Preceding
    <3>4. CASE state = "opened" /\ StateOf(events, m) = "sealed"
      BY <1>5, <3>1, <3>3, <3>4
    <3>5. CASE state = "retired_to_tuning" /\ StateOf(events, m) = "opened"
      <4>1. Preceding["opened"] \cup {"opened"} = Preceding["retired_to_tuning"]
        BY <3>3
      <4> QED
        BY <1>5, <3>1, <3>5, <4>1
    <3> QED
      BY <3>2, <3>4, <3>5
  <2> QED
    BY <2>1, <2>2
<1>7. InOrder(more)
  <2> SUFFICES ASSUME NEW i \in 1 .. n + 1 PROVE Earlier(more, i) = Preceding[more[i].state]
    BY <1>3 DEF InOrder
  <2>1. CASE i = n + 1
    BY <1>2, <1>6, <2>1
  <2>2. CASE i \in 1 .. n
    BY <1>1, <1>2, <1>4, <2>2 DEF InOrder
  <2> QED
    BY <1>1, <2>1, <2>2
<1>8. {events[i] : i \in DOMAIN events} \cup {e} = {more[i] : i \in DOMAIN more}
  BY <1>1, <1>2, <1>3
<1>9. ASSUME NEW k, StateOf(events, k) \in LeftHouse
      PROVE  StateOf(more, k) \in LeftHouse
  <2>1. EventsFor(events, k) # {}
    BY <1>9 DEF StateOf, LeftHouse
  <2>2. CASE k = m
    <3>1. n + 1 \in EventsFor(more, k)
      BY <1>1, <1>2, <1>3, <2>2 DEF EventsFor
    <3>2. PICK i \in EventsFor(more, k) :
            (\A j \in EventsFor(more, k) : j <= i) /\ StateOf(more, k) = more[i].state
      <4>1. more \in Seq(LedgerEvents) /\ EventsFor(more, k) # {}
        BY <1>2, <3>1
      <4> HIDE DEF n
      <4> QED
        BY <4>1, StateIsLast, Zenon
    <3>3. i = n + 1
      BY <1>1, <1>3, <3>1, <3>2 DEF EventsFor
    <3>4. StateOf(more, k) = state
      BY <1>2, <3>2, <3>3
    <3>5. state = "retired_to_tuning"
      BY <1>9, <2>1, <2>2 DEF Allowed, LedgerStates, LeftHouse
    <3> QED
      BY <3>4, <3>5 DEF LeftHouse
  <2>3. CASE k # m
    <3>1. EventsFor(more, k) = EventsFor(events, k)
      BY <1>1, <1>2, <1>3, <2>3 DEF EventsFor
    <3>2. PICK i \in EventsFor(more, k) :
            (\A j \in EventsFor(more, k) : j <= i) /\ StateOf(more, k) = more[i].state
      BY <1>2, <2>1, <3>1, StateIsLast
    <3>3. PICK h \in EventsFor(events, k) :
            (\A j \in EventsFor(events, k) : j <= h) /\ StateOf(events, k) = events[h].state
      BY <2>1, StateIsLast
    <3>4. h = i /\ i \in 1 .. n
      BY <1>1, <3>1, <3>2, <3>3 DEF EventsFor
    <3> QED
      BY <1>2, <1>9, <3>2, <3>3, <3>4
  <2> QED
    BY <2>2, <2>3
<1> QED
  BY <1>2, <1>7, <1>8, <1>9 DEF HasOneMore

Held(o) == [free |-> FALSE, by |-> o]
Reading == [at : {"read"}, manifest : Nat, state : LedgerStates]
Writing == [at : {"write"}, manifest : Nat, state : LedgerStates, seen : Seq(LedgerEvents)]
Unlocking == [at : {"unlock"}, manifest : Nat, state : LedgerStates, seen : Seq(LedgerEvents)]
Exporting == [at : {"export"}, manifest : Nat]

\* A command holds the lock until it ended, decides on the ledger that it will
\* replace, and exports only what was opened.
CommandOk(c, o, latch, events) ==
    /\ c \in {Rest} \cup Reading \cup Writing \cup Unlocking \cup Exporting
    /\ c.at \in {"read", "write", "unlock"} => latch = Held(o)
    /\ c.at = "write" => c.seen = events /\ Allowed(events, c.manifest, c.state)
    /\ c.at = "unlock" => [manifest |-> c.manifest, state |-> c.state] \in {events[i] : i \in DOMAIN events}
    /\ c.at = "export" => StateOf(events, c.manifest) \in LeftHouse

LedgerTyped ==
    /\ holdouts \in Nat
    /\ ledger \in Seq(LedgerEvents)
    /\ \E f : command = [o \in Operators |-> f[o]]
    /\ lockFile = Free \/ \E o \in Operators : lockFile = Held(o)

LedgerInv ==
    /\ LedgerTyped
    /\ \A o \in Operators : CommandOk(command[o], o, lockFile, ledger)
    /\ LedgerAgrees

\* What a command is at tells of what kind it is.
LEMMA KindOfCommand ==
    ASSUME NEW c, c \in {Rest} \cup Reading \cup Writing \cup Unlocking \cup Exporting
    PROVE  /\ c.at \in {"rest", "read", "write", "unlock", "export"}
           /\ c = Rest <=> c.at = "rest"
           /\ c.at = "read" => c \in Reading
           /\ c.at = "write" => c \in Writing
           /\ c.at = "unlock" => c \in Unlocking
           /\ c.at = "export" => c \in Exporting
<1>1. CASE c = Rest
  BY <1>1 DEF Rest
<1>2. CASE c \in Reading
  BY <1>2 DEF Reading, Rest
<1>3. CASE c \in Writing
  BY <1>3 DEF Writing, Rest
<1>4. CASE c \in Unlocking
  BY <1>4 DEF Unlocking, Rest
<1>5. CASE c \in Exporting
  BY <1>5 DEF Exporting, Rest
<1> QED
  BY <1>1, <1>2, <1>3, <1>4, <1>5

\* A command at rest, or one that only begins, is as it should be.
LEMMA RestIsOk ==
    ASSUME NEW o, NEW latch, NEW events PROVE CommandOk(Rest, o, latch, events)
BY DEF CommandOk, Rest

\* A held lock is not the free one, and it tells who holds it.
LEMMA LocksDiffer ==
    /\ \A o : Held(o) # Free
    /\ \A o, q : Held(o) = Held(q) => o = q
<1>1. ASSUME NEW o PROVE Held(o).free = FALSE /\ Held(o).by = o
  BY DEF Held
<1>2. Free.free = TRUE
  BY DEF Free
<1> QED
  BY <1>1, <1>2

\* A command that does not hold the lock is none of another one's business.
LEMMA WithoutLock ==
    ASSUME NEW c, NEW o, NEW latch, NEW events, NEW latch2, CommandOk(c, o, latch, events), latch # Held(o)
    PROVE  c.at \in {"rest", "export"} /\ CommandOk(c, o, latch2, events)
BY KindOfCommand DEF CommandOk

-----------------------------------------------------------------------------
(* The ledger keeps its order under every command. *)

\* The empty ledger is in order.
LEMMA LedgerInvInit == LedgerInit => LedgerInv
<1> SUFFICES ASSUME LedgerInit PROVE LedgerInv
  OBVIOUS
<1>1. LedgerTyped
  <2>1. command = [o \in Operators |-> [q \in Operators |-> Rest][o]]
    BY DEF LedgerInit
  <2> QED
    BY <2>1 DEF LedgerInit, LedgerTyped
<1>2. ASSUME NEW o \in Operators PROVE CommandOk(command[o], o, lockFile, ledger)
  BY RestIsOk DEF LedgerInit
<1>3. LedgerAgrees
  BY DEF LedgerInit, LedgerAgrees
<1> QED
  BY <1>1, <1>2, <1>3 DEF LedgerInv

\* A step of one operator whose command is well after it keeps all well, if the
\* others do not mind.
LEMMA GoesKeeps ==
    ASSUME LedgerInv, NEW o \in Operators, NEW next, Goes(o, next),
           CommandOk(next, o, lockFile', ledger'),
           \A q \in Operators \ {o} : CommandOk(command[q], q, lockFile', ledger')
    PROVE  /\ \E f : command' = [q \in Operators |-> f[q]]
           /\ \A q \in Operators : CommandOk(command'[q], q, lockFile', ledger')
<1>1. PICK f : command = [q \in Operators |-> f[q]]
  BY DEF LedgerInv, LedgerTyped
<1>2. command' = [q \in Operators |-> IF q = o THEN next ELSE command[q]]
  BY <1>1 DEF Goes
<1>3. ASSUME NEW q \in Operators PROVE CommandOk(command'[q], q, lockFile', ledger')
  <2>1. command'[q] = IF q = o THEN next ELSE command[q]
    BY <1>2
  <2> QED
    BY <2>1
<1>4. command' = [q \in Operators |-> command'[q]]
  BY <1>2
<1> QED
  BY <1>3, <1>4

\* While the lock file is free or another one's, nobody else holds it.
LEMMA OthersDoNotHold ==
    ASSUME LedgerInv, NEW o \in Operators, lockFile \in {Free, Held(o)}, NEW latch,
           NEW q \in Operators \ {o}
    PROVE  CommandOk(command[q], q, latch, ledger)
<1>1. lockFile # Held(q)
  BY LocksDiffer
<1> QED
  BY <1>1, WithoutLock DEF LedgerInv

\* A command that takes the lock keeps the invariant.
LEMMA LedgerInvBegin ==
    ASSUME LedgerInv, NEW o \in Operators, NEW m \in Nat, NEW state \in LedgerStates,
           BeginCommand(o, m, state)
    PROVE  LedgerInv'
<1> DEFINE next == [at |-> "read", manifest |-> m, state |-> state]
<1>1. lockFile = Free /\ lockFile' = Held(o) /\ UNCHANGED <<holdouts, ledger, exports, said>> /\ Goes(o, next)
  BY DEF BeginCommand, LockIsFree, Held
<1>2. CommandOk(next, o, lockFile', ledger')
  <2>1. next \in Reading /\ next.at = "read"
    BY DEF Reading
  <2> QED
    BY <1>1, <2>1 DEF CommandOk
<1>3. \A q \in Operators \ {o} : CommandOk(command[q], q, lockFile', ledger')
  BY <1>1, OthersDoNotHold
<1> HIDE DEF next
<1>4. /\ \E f : command' = [q \in Operators |-> f[q]]
      /\ \A q \in Operators : CommandOk(command'[q], q, lockFile', ledger')
  BY <1>1, <1>2, <1>3, GoesKeeps
<1>5. LedgerTyped'
  BY <1>1, <1>4 DEF LedgerInv, LedgerTyped
<1>6. LedgerAgrees'
  BY <1>1 DEF LedgerInv, LedgerAgrees
<1> QED
  BY <1>4, <1>5, <1>6 DEF LedgerInv

\* Reading the ledger, and refusing the state, keep the invariant.
LEMMA LedgerInvRead ==
    ASSUME LedgerInv, NEW o \in Operators, ReadLedger(o) PROVE LedgerInv'
<1> DEFINE c == command[o]
           next == [at |-> "write", manifest |-> c.manifest, state |-> c.state, seen |-> ledger]
<1>1. CommandOk(c, o, lockFile, ledger) /\ c.at = "read" /\ UNCHANGED <<holdouts, ledger, exports, said>>
  BY DEF LedgerInv, ReadLedger
<1>2. c \in Reading /\ lockFile = Held(o)
  BY <1>1, KindOfCommand DEF CommandOk
<1>3. c.manifest \in Nat /\ c.state \in LedgerStates
  BY <1>2 DEF Reading
<1>4. ledger \in Seq(LedgerEvents)
  BY DEF LedgerInv, LedgerTyped
<1>5. (lockFile' = Held(o) \/ lockFile' = Free) /\ \E n : Goes(o, n) /\ CommandOk(n, o, lockFile', ledger')
  <2>1. CASE Allowed(ledger, c.manifest, c.state)
    <3>1. Goes(o, next) /\ lockFile' = lockFile
      BY <2>1 DEF ReadLedger
    <3>2. next \in Writing /\ next.at = "write" /\ next.seen = ledger /\ next.manifest = c.manifest /\ next.state = c.state
      BY <1>3, <1>4 DEF Writing
    <3> HIDE DEF next
    <3>3. CommandOk(next, o, lockFile, ledger)
      BY <1>2, <2>1, <3>2 DEF CommandOk
    <3> QED
      BY <1>1, <1>2, <3>1, <3>3
  <2>2. CASE ~Allowed(ledger, c.manifest, c.state)
    <3>1. Goes(o, Rest) /\ lockFile' = Free
      BY <2>2 DEF ReadLedger, RemoveOwnLock
    <3> QED
      BY <3>1, RestIsOk
  <2> QED
    BY <2>1, <2>2
<1>6. \A q \in Operators \ {o} : CommandOk(command[q], q, lockFile', ledger')
  BY <1>1, <1>2, OthersDoNotHold
<1>7. /\ \E f : command' = [q \in Operators |-> f[q]]
      /\ \A q \in Operators : CommandOk(command'[q], q, lockFile', ledger')
  BY <1>5, <1>6, GoesKeeps
<1>8. LedgerTyped'
  BY <1>1, <1>5, <1>7 DEF LedgerInv, LedgerTyped
<1>9. LedgerAgrees'
  BY <1>1 DEF LedgerInv, LedgerAgrees
<1> QED
  BY <1>7, <1>8, <1>9 DEF LedgerInv

\* Writing the ledger with one more event keeps its order.
LEMMA LedgerInvWrite ==
    ASSUME LedgerInv, NEW o \in Operators, WriteLedger(o) PROVE LedgerInv'
<1> DEFINE c == command[o]
           e == [manifest |-> c.manifest, state |-> c.state]
           next == [c EXCEPT !.at = "unlock"]
<1>1. CommandOk(c, o, lockFile, ledger) /\ c.at = "write" /\ UNCHANGED <<holdouts, lockFile, exports, said>>
  BY DEF LedgerInv, WriteLedger
<1>2. c \in Writing /\ lockFile = Held(o) /\ c.seen = ledger /\ Allowed(ledger, c.manifest, c.state)
  BY <1>1, KindOfCommand DEF CommandOk
<1>3. c.manifest \in Nat /\ c.state \in LedgerStates
  BY <1>2 DEF Writing
<1>4. ledger \in Seq(LedgerEvents) /\ InOrder(ledger)
  BY DEF LedgerInv, LedgerTyped, LedgerAgrees, InOrder
<1>5. ledger' = Append(ledger, e) /\ Goes(o, next)
  BY <1>2 DEF WriteLedger
<1>6. HasOneMore(ledger', ledger, e)
  BY <1>2, <1>3, <1>4, <1>5, AllowedAppends
<1>7. CommandOk(next, o, lockFile', ledger')
  <2>1. next \in Unlocking /\ next.at = "unlock" /\ next.manifest = c.manifest /\ next.state = c.state
    BY <1>2 DEF Writing, Unlocking
  <2> HIDE DEF next
  <2> QED
    BY <1>1, <1>2, <1>6, <2>1 DEF CommandOk, HasOneMore
<1>8. ASSUME NEW q \in Operators \ {o} PROVE CommandOk(command[q], q, lockFile', ledger')
  <2>1. CommandOk(command[q], q, lockFile, ledger) /\ lockFile # Held(q)
    BY <1>2, LocksDiffer DEF LedgerInv
  <2>2. command[q].at \in {"rest", "export"}
    BY <2>1, WithoutLock
  <2> QED
    BY <1>6, <2>1, <2>2 DEF CommandOk, HasOneMore
<1> HIDE DEF next
<1>9. /\ \E f : command' = [q \in Operators |-> f[q]]
      /\ \A q \in Operators : CommandOk(command'[q], q, lockFile', ledger')
  BY <1>5, <1>7, <1>8, GoesKeeps
<1>10. LedgerTyped'
  BY <1>1, <1>6, <1>9 DEF LedgerInv, LedgerTyped, HasOneMore
<1>11. LedgerAgrees'
  BY <1>1, <1>6 DEF LedgerInv, LedgerAgrees, InOrder, HasOneMore
<1> QED
  BY <1>9, <1>10, <1>11 DEF LedgerInv

\* Removing the lock at the end of a command keeps the invariant.
LEMMA LedgerInvEnd ==
    ASSUME LedgerInv, NEW o \in Operators, EndCommand(o) PROVE LedgerInv'
<1> DEFINE c == command[o]
<1>1. CommandOk(c, o, lockFile, ledger) /\ c.at = "unlock" /\ UNCHANGED <<holdouts, ledger, exports>>
  BY DEF LedgerInv, EndCommand
<1>2. lockFile = Held(o) /\ [manifest |-> c.manifest, state |-> c.state] \in {ledger[i] : i \in DOMAIN ledger}
  BY <1>1 DEF CommandOk
<1>3. lockFile' = Free /\ Goes(o, Rest) /\ said' = said \cup {[manifest |-> c.manifest, state |-> c.state]}
  BY DEF EndCommand, RemoveOwnLock
<1>4. /\ \E f : command' = [q \in Operators |-> f[q]]
      /\ \A q \in Operators : CommandOk(command'[q], q, lockFile', ledger')
  BY <1>1, <1>2, <1>3, RestIsOk, OthersDoNotHold, GoesKeeps
<1>5. LedgerTyped'
  BY <1>1, <1>3, <1>4 DEF LedgerInv, LedgerTyped
<1>6. LedgerAgrees'
  BY <1>1, <1>2, <1>3 DEF LedgerInv, LedgerAgrees
<1> QED
  BY <1>4, <1>5, <1>6 DEF LedgerInv

\* A command that dies keeps the invariant, with or without the lock.
LEMMA LedgerInvDie ==
    ASSUME LedgerInv, NEW o \in Operators, Die(o) PROVE LedgerInv'
<1>1. UNCHANGED <<holdouts, ledger, lockFile, exports, said>> /\ Goes(o, Rest)
  BY DEF Die
<1>2. \A q \in Operators \ {o} : CommandOk(command[q], q, lockFile', ledger')
  BY <1>1 DEF LedgerInv
<1>3. /\ \E f : command' = [q \in Operators |-> f[q]]
      /\ \A q \in Operators : CommandOk(command'[q], q, lockFile', ledger')
  BY <1>1, <1>2, RestIsOk, GoesKeeps
<1>4. LedgerTyped'
  BY <1>1, <1>3 DEF LedgerInv, LedgerTyped
<1>5. LedgerAgrees'
  BY <1>1 DEF LedgerInv, LedgerAgrees
<1> QED
  BY <1>3, <1>4, <1>5 DEF LedgerInv

\* An operator who removes a lock nobody holds keeps the invariant.
LEMMA LedgerInvRemoveLock ==
    ASSUME LedgerInv, RemoveLock PROVE LedgerInv'
<1>1. lockFile # Free /\ command[lockFile.by].at \in {"rest", "export"} /\ lockFile' = Free
      /\ UNCHANGED <<holdouts, ledger, command, exports, said>>
  BY DEF RemoveLock, RemoveOwnLock
<1>2. PICK o \in Operators : lockFile = Held(o)
  BY <1>1 DEF LedgerInv, LedgerTyped
<1>3. lockFile.by = o
  BY <1>2 DEF Held
<1>4. ASSUME NEW q \in Operators PROVE CommandOk(command[q], q, lockFile', ledger')
  <2>1. CASE q = o
    <3>1. CommandOk(command[o], o, lockFile, ledger) /\ command[o].at \in {"rest", "export"}
      BY <1>1, <1>3 DEF LedgerInv
    <3> QED
      BY <1>1, <2>1, <3>1 DEF CommandOk
  <2>2. CASE q # o
    BY <1>1, <1>2, <2>2, OthersDoNotHold
  <2> QED
    BY <2>1, <2>2
<1>5. LedgerTyped'
  BY <1>1 DEF LedgerInv, LedgerTyped
<1>6. LedgerAgrees'
  BY <1>1 DEF LedgerInv, LedgerAgrees
<1> QED
  BY <1>1, <1>4, <1>5, <1>6 DEF LedgerInv

\* An export that takes the lock keeps the invariant.
LEMMA LedgerInvBeginExport ==
    ASSUME LedgerInv, NEW o \in Operators, NEW m \in Nat, BeginExport(o, m) PROVE LedgerInv'
<1> DEFINE next == [at |-> "export", manifest |-> m]
<1>1. UNCHANGED <<holdouts, ledger, lockFile, exports, said>> /\ Goes(o, next) /\ StateOf(ledger, m) = "opened"
  BY DEF BeginExport
<1>2. CommandOk(next, o, lockFile', ledger')
  <2>1. next \in Exporting /\ next.at = "export" /\ next.manifest = m
    BY DEF Exporting
  <2> HIDE DEF next
  <2> QED
    BY <1>1, <2>1 DEF CommandOk, LeftHouse
<1>3. \A q \in Operators \ {o} : CommandOk(command[q], q, lockFile', ledger')
  BY <1>1 DEF LedgerInv
<1> HIDE DEF next
<1>4. /\ \E f : command' = [q \in Operators |-> f[q]]
      /\ \A q \in Operators : CommandOk(command'[q], q, lockFile', ledger')
  BY <1>1, <1>2, <1>3, GoesKeeps
<1>5. LedgerTyped'
  BY <1>1, <1>4 DEF LedgerInv, LedgerTyped
<1>6. LedgerAgrees'
  BY <1>1 DEF LedgerInv, LedgerAgrees
<1> QED
  BY <1>4, <1>5, <1>6 DEF LedgerInv

\* The end of an export keeps the invariant.
LEMMA LedgerInvEndExport ==
    ASSUME LedgerInv, NEW o \in Operators, EndExport(o) PROVE LedgerInv'
<1> DEFINE e == [manifest |-> command[o].manifest, state |-> StateOf(ledger, command[o].manifest)]
<1>1. UNCHANGED <<holdouts, ledger, lockFile, said>> /\ Goes(o, Rest) /\ command[o].at = "export"
      /\ exports' = exports \cup {e}
  BY DEF EndExport
<1>2. e.state \in LeftHouse
  BY <1>1 DEF LedgerInv, CommandOk
<1>3. \A q \in Operators \ {o} : CommandOk(command[q], q, lockFile', ledger')
  BY <1>1 DEF LedgerInv
<1>4. /\ \E f : command' = [q \in Operators |-> f[q]]
      /\ \A q \in Operators : CommandOk(command'[q], q, lockFile', ledger')
  BY <1>1, <1>3, RestIsOk, GoesKeeps
<1>5. LedgerTyped'
  BY <1>1, <1>4 DEF LedgerInv, LedgerTyped
<1> HIDE DEF e
<1>6. LedgerAgrees'
  BY <1>1, <1>2 DEF LedgerInv, LedgerAgrees, LeftHouse
<1> QED
  BY <1>4, <1>5, <1>6 DEF LedgerInv

\* No step of the commands, and no step beside them, breaks the order.
LEMMA LedgerInvStep ==
    ASSUME LedgerInv, [LedgerNext]_ledgerVars PROVE LedgerInv'
<1>0. holdouts \in Nat
  BY DEF LedgerInv, LedgerTyped
<1>1. ASSUME CreateHoldout PROVE LedgerInv'
  <2>1. holdouts' \in Nat /\ UNCHANGED <<ledger, lockFile, command, exports, said>>
    BY <1>0, <1>1 DEF CreateHoldout
  <2>2. LedgerTyped'
    BY <2>1 DEF LedgerInv, LedgerTyped
  <2> QED
    BY <2>1, <2>2 DEF LedgerInv, LedgerAgrees
<1>2. ASSUME NEW o \in Operators, NEW m \in 1 .. holdouts, NEW i \in DOMAIN States, BeginCommand(o, m, States[i])
      PROVE  LedgerInv'
  <2>1. m \in Nat
    BY <1>0
  <2>2. States[i] \in LedgerStates
    <3>1. i \in 1 .. 3
      BY DEF States
    <3>2. States[1] \in LedgerStates /\ States[2] \in LedgerStates /\ States[3] \in LedgerStates
      BY DEF States, LedgerStates
    <3> QED
      BY <3>1, <3>2
  <2> QED
    BY <1>2, <2>1, <2>2, LedgerInvBegin
<1>3. ASSUME NEW o \in Operators, NEW m \in 1 .. holdouts, BeginExport(o, m) PROVE LedgerInv'
  <2>1. m \in Nat
    BY <1>0
  <2> QED
    BY <1>3, <2>1, LedgerInvBeginExport
<1>4. CASE UNCHANGED ledgerVars
  BY <1>4 DEF ledgerVars, LedgerInv, LedgerTyped, LedgerAgrees
<1> QED
  BY <1>1, <1>2, <1>3, <1>4, LedgerInvRemoveLock, LedgerInvRead, LedgerInvWrite, LedgerInvEnd, LedgerInvDie,
     LedgerInvEndExport DEF LedgerNext

\* For any operators and any number of holdouts, deaths and exports: a holdout
\* is sealed, opened and given up in this order and once each, no event that was
\* reported is lost and nothing leaves before it was opened (record_sealed_manifest,
\* open_formal_holdout, retire_formal_holdout_to_tuning, export_formal_holdout_images
\* and the lock file around them).
THEOREM LedgerKeepsItsOrder == LedgerSpec => []LedgerAgrees
<1>1. LedgerInv => LedgerAgrees
  BY DEF LedgerInv
<1> QED
  BY LedgerInvInit, LedgerInvStep, <1>1, PTL DEF LedgerSpec

-----------------------------------------------------------------------------
(* The image-OCR campaign: what passed was judged by a third session. *)

Readings(n) == [pilot : 1 .. n, purpose : Purposes, by : CampaignSessions, image : Nat]

ReadingsTyped ==
    /\ DOMAIN files = Kinds
    /\ \A k \in {"a", "b"} :
         /\ DOMAIN files[k] = Samples
         /\ \A p \in Samples : files[k][p] = None \/ files[k][p] \in Readings(Len(pilots))

CampaignTyped ==
    /\ changes \in Nat
    /\ image \in [Samples -> Nat]
    /\ pilots \in Seq([Samples -> Nat])
    /\ ReadingsTyped
    /\ \A r \in Runs, p \in Samples : ocrRows[r][p] # None => r[1] \in 1 .. Len(pilots)

CampaignInv == CampaignTyped /\ PassedIsJudged

\* PassedIsJudged, of one row and the image that the pilot pins for it.
IsJudgedRow(row, r, pin) ==
    row # None /\ row.passed =>
        /\ r[2] = "formal"
        /\ row.image = pin
        /\ \A c \in {row.a, row.b} : <<c.pilot, c.purpose, c.image>> = <<r[1], r[2], row.image>>
        /\ Cardinality({row.a.by, row.b.by, row.checker.by}) = 3
        /\ row.checker.a = row.a /\ row.checker.b = row.b
        /\ row.resolved.checker = row.checker
        /\ row.checker.verdict.clean /\ row.checker.verdict.selection # "none"

\* Passed rows are judged row by row.
LEMMA JudgedRows ==
    PassedIsJudged <=> \A r \in Runs, p \in Samples : IsJudgedRow(ocrRows[r][p], r, pilots[r[1]][p])
BY DEF PassedIsJudged, IsJudgedRow

\* The row of a bundle is judged: this is all that import_resolved_v2_bundles
\* has to rely on.
LEMMA BundleIsJudged ==
    ASSUME NEW n \in Nat, NEW a \in Readings(n), NEW b, NEW checker, NEW resolved, NEW p, NEW pin,
           IsPair(a, b), a.image = pin, Judges(checker, a, b),
           resolved.checker = checker, resolved.eligible => Eligible(checker)
    PROVE  IsJudgedRow([image |-> a.image, a |-> a, b |-> b, checker |-> checker, resolved |-> resolved,
                        passed |-> Passed(a.purpose, checker, resolved)], <<a.pilot, a.purpose>>, pin)
<1> DEFINE row == [image |-> a.image, a |-> a, b |-> b, checker |-> checker, resolved |-> resolved,
                   passed |-> Passed(a.purpose, checker, resolved)]
           r == <<a.pilot, a.purpose>>
<1>1. /\ row.image = a.image /\ row.a = a /\ row.b = b
      /\ row.checker = checker /\ row.resolved = resolved
      /\ row.passed = Passed(a.purpose, checker, resolved)
  OBVIOUS
<1>2. r[1] = a.pilot /\ r[2] = a.purpose
  OBVIOUS
<1> HIDE DEF row, r
<1>3. b.pilot = a.pilot /\ b.purpose = a.purpose /\ b.image = a.image /\ b.by # a.by
  BY DEF IsPair, Readings
<1>4. checker.a = a /\ checker.b = b /\ checker.by # a.by /\ checker.by # b.by
  BY DEF Judges, IsThird
<1>5. Cardinality({a.by, b.by, checker.by}) = 3
  <2>1. IsFiniteSet({}) /\ Cardinality({}) = 0
    BY FS_EmptySet
  <2>2. IsFiniteSet({a.by}) /\ Cardinality({a.by}) = 1
    BY FS_Singleton
  <2>3. {a.by, b.by} = {a.by} \cup {b.by} /\ b.by \notin {a.by}
    BY <1>3
  <2>4. IsFiniteSet({a.by, b.by}) /\ Cardinality({a.by, b.by}) = 2
    BY <2>2, <2>3, FS_AddElement
  <2>5. {a.by, b.by, checker.by} = {a.by, b.by} \cup {checker.by} /\ checker.by \notin {a.by, b.by}
    BY <1>4
  <2> QED
    BY <2>4, <2>5, FS_AddElement
<1>6. ASSUME row.passed
      PROVE  /\ a.purpose = "formal"
             /\ checker.verdict.clean /\ checker.verdict.selection # "none"
  BY <1>1, <1>6 DEF Passed, Eligible
<1>7. ASSUME row.passed, NEW c \in {a, b} PROVE <<c.pilot, c.purpose, c.image>> = <<r[1], r[2], row.image>>
  BY <1>1, <1>2, <1>3
<1>8. IsJudgedRow(row, r, pin)
  BY <1>1, <1>2, <1>4, <1>5, <1>6, <1>7 DEF IsJudgedRow
<1> QED
  BY <1>8 DEF row, r

\* A campaign begins without rows.
LEMMA CampaignInvInit == CampaignInit => CampaignInv
<1> SUFFICES ASSUME CampaignInit PROVE CampaignInv
  OBVIOUS
<1>1. files = [k \in Kinds |-> NoRows] /\ pilots = <<>> /\ changes = 0
      /\ image = [p \in Samples |-> 1] /\ ocrRows = [r \in Runs |-> NoRows]
  BY DEF CampaignInit
<1>2. \A r \in Runs, p \in Samples : ocrRows[r][p] = None
  BY <1>1 DEF NoRows
<1>3. ReadingsTyped
  BY <1>1 DEF ReadingsTyped, NoRows, Kinds
<1>4. CampaignTyped
  BY <1>1, <1>2, <1>3 DEF CampaignTyped
<1>5. PassedIsJudged
  BY <1>2 DEF PassedIsJudged
<1> QED
  BY <1>4, <1>5 DEF CampaignInv

\* The samples are finitely many.
LEMMA SamplesAreFinite == NumSamples \in Nat /\ Samples = 1 .. NumSamples /\ MaxPilots \in Nat
BY CampaignAssumption DEF Samples

\* Steps that leave the pilots and the rows alone.
LEMMA FilesOnly ==
    ASSUME CampaignInv, changes' \in Nat, image' \in [Samples -> Nat], UNCHANGED <<pilots, ocrRows>>, ReadingsTyped'
    PROVE  CampaignInv' /\ RowsStay
<1>1. CampaignTyped'
  BY DEF CampaignInv, CampaignTyped
<1>2. PassedIsJudged'
  BY DEF CampaignInv, PassedIsJudged
<1> QED
  BY <1>1, <1>2 DEF CampaignInv, RowsStay

\* Capturing an image again keeps the invariant and every row.
LEMMA CampaignRecapture ==
    ASSUME CampaignInv, NEW p \in Samples, Recapture(p) PROVE CampaignInv' /\ RowsStay
<1>1. changes' = changes + 1 /\ image' = [image EXCEPT ![p] = changes + 2] /\ UNCHANGED <<pilots, files, ocrRows>>
  BY DEF Recapture, Change
<1>2. changes \in Nat /\ image \in [Samples -> Nat] /\ ReadingsTyped
  BY DEF CampaignInv, CampaignTyped
<1>3. changes' \in Nat /\ changes + 2 \in Nat
  BY <1>1, <1>2
<1>4. image' \in [Samples -> Nat]
  BY <1>1, <1>2, <1>3
<1>5. ReadingsTyped'
  BY <1>1, <1>2 DEF ReadingsTyped
<1> QED
  BY <1>1, <1>3, <1>4, <1>5, FilesOnly

\* Removing a file of candidates keeps the invariant and every row.
LEMMA CampaignRemoveFile ==
    ASSUME CampaignInv, NEW kind \in Kinds, NEW p \in Samples, RemoveFile(kind, p) PROVE CampaignInv' /\ RowsStay
<1>1. changes' = changes + 1 /\ files' = [files EXCEPT ![kind][p] = None] /\ UNCHANGED <<image, pilots, ocrRows>>
  BY DEF RemoveFile, Change
<1>2. changes \in Nat /\ image \in [Samples -> Nat] /\ ReadingsTyped
  BY DEF CampaignInv, CampaignTyped
<1>3. changes' \in Nat /\ image' \in [Samples -> Nat]
  BY <1>1, <1>2
<1>4. DOMAIN files' = Kinds
  BY <1>1, <1>2 DEF ReadingsTyped
<1>5. ASSUME NEW k \in {"a", "b"}
      PROVE  /\ DOMAIN files'[k] = Samples
             /\ \A q \in Samples : files'[k][q] = None \/ files'[k][q] = files[k][q]
  <2>1. k \in Kinds /\ DOMAIN files = Kinds /\ DOMAIN files[k] = Samples
    BY <1>2 DEF ReadingsTyped, Kinds
  <2>2. files'[k] = IF k = kind THEN [files[k] EXCEPT ![p] = None] ELSE files[k]
    BY <1>1, <2>1
  <2> QED
    BY <2>1, <2>2
<1>6. ReadingsTyped'
  BY <1>1, <1>2, <1>4, <1>5 DEF ReadingsTyped
<1> QED
  BY <1>1, <1>3, <1>6, FilesOnly

\* Creating a pilot keeps the invariant and every row.
LEMMA CampaignCreatePilot ==
    ASSUME CampaignInv, CreatePilot PROVE CampaignInv' /\ RowsStay
<1>1. pilots' = Append(pilots, image) /\ UNCHANGED <<image, files, ocrRows, changes>>
  BY DEF CreatePilot
<1>2. CampaignTyped /\ ReadingsTyped /\ PassedIsJudged
  BY DEF CampaignInv, CampaignTyped
<1>3. pilots \in Seq([Samples -> Nat]) /\ image \in [Samples -> Nat]
  BY <1>2 DEF CampaignTyped
<1>4. /\ pilots' \in Seq([Samples -> Nat])
      /\ Len(pilots) \in Nat /\ Len(pilots') = Len(pilots) + 1
      /\ \A i \in 1 .. Len(pilots) : pilots'[i] = pilots[i]
  BY <1>1, <1>3, AppendProperties, LenProperties
<1>5. 1 .. Len(pilots) \subseteq 1 .. Len(pilots')
  BY <1>4
<1>6. Readings(Len(pilots)) \subseteq Readings(Len(pilots'))
  BY <1>5 DEF Readings
<1>7. ReadingsTyped'
  BY <1>1, <1>2, <1>6 DEF ReadingsTyped
<1>8. CampaignTyped'
  BY <1>1, <1>2, <1>4, <1>5, <1>7 DEF CampaignTyped
<1>9. PassedIsJudged'
  <2> SUFFICES ASSUME NEW r \in Runs, NEW p \in Samples, ocrRows'[r][p] # None
               PROVE  IsJudgedRow(ocrRows'[r][p], r, pilots'[r[1]][p])
    BY DEF PassedIsJudged, IsJudgedRow
  <2>1. r[1] \in 1 .. Len(pilots)
    BY <1>1, <1>2 DEF CampaignTyped
  <2>2. IsJudgedRow(ocrRows[r][p], r, pilots[r[1]][p])
    BY <1>2, JudgedRows
  <2> QED
    BY <1>1, <1>4, <2>1, <2>2
<1> QED
  BY <1>1, <1>8, <1>9 DEF CampaignInv, RowsStay

\* Normalizing candidates keeps the invariant and every row.
LEMMA CampaignNormalize ==
    ASSUME CampaignInv, NEW kind \in {"a", "b"}, NEW pilot \in DOMAIN pilots, NEW purpose \in Purposes,
           NEW by \in CampaignSessions, NEW saw \in {image} \cup {pilots[i] : i \in DOMAIN pilots}, NEW n \in Samples,
           NormalizeCandidates(kind, pilot, purpose, by, saw, n)
    PROVE  CampaignInv' /\ RowsStay
<1> DEFINE new == [p \in Samples |-> [pilot |-> pilot, purpose |-> purpose, by |-> by, image |-> saw[p]]]
<1>1. /\ files' = [files EXCEPT ![kind] = [p \in Samples |-> IF p <= n THEN new[p] ELSE @[p]]]
      /\ UNCHANGED <<image, pilots, ocrRows, changes>>
  BY DEF NormalizeCandidates, Writes, Tool
<1>2. changes \in Nat /\ image \in [Samples -> Nat] /\ pilots \in Seq([Samples -> Nat]) /\ ReadingsTyped
  BY DEF CampaignInv, CampaignTyped
<1>3. DOMAIN pilots = 1 .. Len(pilots) /\ saw \in [Samples -> Nat]
  BY <1>2, LenProperties, ElementOfSeq
<1>4. ASSUME NEW p \in Samples PROVE new[p] \in Readings(Len(pilots))
  BY <1>3 DEF Readings
<1> HIDE DEF new
<1>5. ASSUME NEW k \in {"a", "b"}
      PROVE  /\ DOMAIN files'[k] = Samples
             /\ \A p \in Samples : files'[k][p] = new[p] \/ files'[k][p] = files[k][p]
  <2>1. k \in Kinds /\ kind \in Kinds /\ DOMAIN files = Kinds /\ DOMAIN files[k] = Samples
    BY <1>2 DEF ReadingsTyped, Kinds
  <2>2. files'[k] = IF k = kind THEN [p \in Samples |-> IF p <= n THEN new[p] ELSE files[k][p]] ELSE files[k]
    BY <1>1, <2>1
  <2> QED
    BY <2>1, <2>2
<1>6. DOMAIN files' = Kinds
  BY <1>1, <1>2 DEF ReadingsTyped
<1>7. ReadingsTyped'
  BY <1>1, <1>2, <1>4, <1>5, <1>6 DEF ReadingsTyped
<1> QED
  BY <1>1, <1>2, <1>7, FilesOnly

\* Resolving candidates keeps the invariant and every row.
LEMMA CampaignResolve ==
    ASSUME CampaignInv, NEW by, NEW verdicts, NEW n, ResolveCandidates(by, verdicts, n)
    PROVE  CampaignInv' /\ RowsStay
<1>1. PICK f, g : files' = [files EXCEPT !["checker"] = f, !["resolved"] = g]
  BY DEF ResolveCandidates
<1>2. UNCHANGED <<image, pilots, ocrRows, changes>>
  BY DEF ResolveCandidates, Tool
<1>3. changes \in Nat /\ image \in [Samples -> Nat] /\ ReadingsTyped
  BY DEF CampaignInv, CampaignTyped
<1>4. DOMAIN files' = Kinds /\ files'["a"] = files["a"] /\ files'["b"] = files["b"]
  BY <1>1, <1>3 DEF ReadingsTyped, Kinds
<1>5. ReadingsTyped'
  BY <1>2, <1>3, <1>4 DEF ReadingsTyped
<1> QED
  BY <1>2, <1>3, <1>5, FilesOnly

\* Importing the bundles keeps the invariant and every row.
LEMMA CampaignImport ==
    ASSUME CampaignInv, ImportBundles PROVE CampaignInv' /\ RowsStay
<1> DEFINE a(p) == files["a"][p]
           b(p) == files["b"][p]
           checker(p) == files["checker"][p]
           resolved(p) == files["resolved"][p]
           run(p) == <<a(p).pilot, a(p).purpose>>
           row(p) == [image |-> a(p).image, a |-> a(p), b |-> b(p), checker |-> checker(p),
                      resolved |-> resolved(p), passed |-> Passed(a(p).purpose, checker(p), resolved(p))]
<1>1. /\ \A p \in Samples : IsBundle(a(p), b(p), checker(p), resolved(p), p) /\ ~ConflictsRow(run(p), p, row(p))
      /\ ocrRows' = [r \in Runs |-> [p \in Samples |-> IF run(p) = r THEN row(p) ELSE ocrRows[r][p]]]
      /\ UNCHANGED <<image, pilots, files, changes>>
  BY DEF ImportBundles, Tool
<1>2. CampaignTyped /\ ReadingsTyped /\ PassedIsJudged
  BY DEF CampaignInv, CampaignTyped
<1>3. Len(pilots) \in Nat
  BY <1>2, LenProperties DEF CampaignTyped
<1>4. ASSUME NEW p \in Samples
      PROVE  run(p)[1] \in 1 .. Len(pilots) /\ IsJudgedRow(row(p), run(p), pilots[run(p)[1]][p])
  <2>1. /\ None \notin {a(p), b(p), checker(p), resolved(p)}
        /\ IsPair(a(p), b(p)) /\ Fits(a(p), p) /\ Judges(checker(p), a(p), b(p))
        /\ resolved(p).checker = checker(p) /\ (resolved(p).eligible => Eligible(checker(p)))
    BY <1>1 DEF IsBundle
  <2>2. a(p) \in Readings(Len(pilots))
    BY <1>2, <2>1 DEF ReadingsTyped
  <2>3. a(p).pilot \in 1 .. Len(pilots) /\ a(p).image = pilots[a(p).pilot][p]
    BY <2>1, <2>2 DEF Readings, Fits
  <2>4. IsJudgedRow(row(p), run(p), pilots[a(p).pilot][p])
    BY <1>3, <2>1, <2>2, <2>3, BundleIsJudged
  <2> QED
    BY <2>3, <2>4
<1>5. ASSUME NEW r \in Runs, NEW p \in Samples
      PROVE  \/ r = run(p) /\ ocrRows'[r][p] = row(p) /\ ocrRows[r][p] \in {None, row(p)}
             \/ ocrRows'[r][p] = ocrRows[r][p]
  <2> HIDE DEF run, row
  <2>1. ocrRows'[r][p] = IF run(p) = r THEN row(p) ELSE ocrRows[r][p]
    BY <1>1
  <2>2. ocrRows[run(p)][p] \in {None, row(p)}
    BY <1>1 DEF ConflictsRow
  <2> QED
    BY <2>1, <2>2
<1> HIDE DEF run, row
<1>6. RowsStay
  BY <1>5 DEF RowsStay
<1>7. CampaignTyped'
  <2>1. ReadingsTyped'
    BY <1>1, <1>2 DEF ReadingsTyped
  <2>2. ASSUME NEW r \in Runs, NEW p \in Samples, ocrRows'[r][p] # None PROVE r[1] \in 1 .. Len(pilots)
    BY <1>2, <1>4, <1>5, <2>2 DEF CampaignTyped
  <2> QED
    BY <1>1, <1>2, <2>1, <2>2 DEF CampaignTyped
<1>8. PassedIsJudged'
  <2> SUFFICES ASSUME NEW r \in Runs, NEW p \in Samples
               PROVE  IsJudgedRow(ocrRows'[r][p], r, pilots'[r[1]][p])
    BY DEF PassedIsJudged, IsJudgedRow
  <2>1. IsJudgedRow(ocrRows[r][p], r, pilots[r[1]][p])
    BY <1>2, JudgedRows
  <2> QED
    BY <1>1, <1>4, <1>5, <2>1
<1> QED
  BY <1>6, <1>7, <1>8 DEF CampaignInv

\* No tool, whole or cut off, new image or removed file puts unjudged text
\* into a run or replaces a row of it.
LEMMA CampaignInvStep ==
    ASSUME CampaignInv, [CampaignNext]_campaignVars PROVE CampaignInv' /\ RowsStay
<1>1. CASE UNCHANGED campaignVars
  <2>1. UNCHANGED <<image, pilots, files, ocrRows, changes>>
    BY <1>1 DEF campaignVars
  <2>2. changes \in Nat /\ image \in [Samples -> Nat] /\ ReadingsTyped
    BY DEF CampaignInv, CampaignTyped
  <2>3. ReadingsTyped'
    BY <2>1, <2>2 DEF ReadingsTyped
  <2> QED
    BY <2>1, <2>2, <2>3, FilesOnly
<1>2. ASSUME NEW p \in Samples, Recapture(p) PROVE CampaignInv' /\ RowsStay
  BY <1>2, CampaignRecapture
<1>3. ASSUME NEW kind \in Kinds, NEW p \in Samples, RemoveFile(kind, p) PROVE CampaignInv' /\ RowsStay
  BY <1>3, CampaignRemoveFile
<1>4. ASSUME NEW kind \in {"a", "b"}, NEW pilot \in DOMAIN pilots, NEW purpose \in Purposes,
             NEW by \in CampaignSessions, NEW saw \in {image} \cup {pilots[i] : i \in DOMAIN pilots},
             NEW n \in Samples, NormalizeCandidates(kind, pilot, purpose, by, saw, n)
      PROVE  CampaignInv' /\ RowsStay
  BY <1>4, CampaignNormalize
<1>5. ASSUME NEW by \in CampaignSessions, NEW verdicts \in [Samples -> Verdicts], NEW n \in 1 .. 2 * NumSamples,
             ResolveCandidates(by, verdicts, n)
      PROVE  CampaignInv' /\ RowsStay
  BY <1>5, CampaignResolve
<1> QED
  BY <1>1, <1>2, <1>3, <1>4, <1>5, CampaignCreatePilot, CampaignImport DEF CampaignNext

\* For any pages, sessions, pilots, tools and changes: text that passes without
\* a reader's review was read twice and judged by a third session on the pinned
\* image, and an imported row is never replaced (import_resolved_v2_bundles,
\* validate_resolved_v2_artifact).
THEOREM CampaignIsJudged == CampaignSpec => []PassedIsJudged /\ [][RowsStay]_campaignVars
<1>1. CampaignInv /\ [CampaignNext]_campaignVars => CampaignInv' /\ [RowsStay]_campaignVars
  BY CampaignInvStep
<1>2. CampaignInv => PassedIsJudged
  BY DEF CampaignInv
<1> QED
  BY CampaignInvInit, <1>1, <1>2, PTL DEF CampaignSpec

\* The same for the run of all programs: the action property that the run
\* checks on a small instance.
THEOREM ProgramsKeepTheCampaign == ProgramsSpec => CampaignAgrees
<1>1. ProgramsInit => CampaignInv /\ LedgerInv
  BY CampaignInvInit, LedgerInvInit DEF ProgramsInit
<1>2. ASSUME [ProgramsNext]_programsVars PROVE [CampaignNext]_campaignVars /\ [LedgerNext]_ledgerVars
  <2>1. CASE UNCHANGED programsVars
    BY <2>1 DEF programsVars
  <2>2. CASE UNCHANGED <<campaignVars, ledgerVars>>
    BY <2>2
  <2>3. CASE CampaignNext /\ UNCHANGED ledgerVars
    BY <2>3
  <2>4. CASE LedgerNext /\ UNCHANGED campaignVars
    BY <2>4
  <2> QED
    BY <1>2, <2>1, <2>2, <2>3, <2>4 DEF ProgramsNext, Only
<1>3. CampaignInv /\ LedgerInv /\ [ProgramsNext]_programsVars => CampaignInv' /\ LedgerInv' /\ RowsStay
  BY <1>2, CampaignInvStep, LedgerInvStep
<1>4. CampaignInv' /\ LedgerInv' => PassedIsJudged' /\ LedgerAgrees'
  BY DEF CampaignInv, LedgerInv
<1>5. CampaignInv /\ LedgerInv /\ [ProgramsNext]_programsVars
        => CampaignInv' /\ LedgerInv' /\ [RowsStay /\ PassedIsJudged' /\ LedgerAgrees']_programsVars
  BY <1>3, <1>4
<1> QED
  BY <1>1, <1>5, PTL DEF ProgramsSpec, CampaignAgrees


-----------------------------------------------------------------------------
(* The OCR worker: the lines of a job, and the server of its worker. *)

PageLines == [page : 1 .. NumPages, state : {"passed", "failed"}]
StageNames == {"qwen", "dots", "selector"}
WorkerPlaces == Ended \cup StageNames \cup {"begin", "enter", "page", "leave", "hung"}

\* What the job has read and what it has yet to read are the first n tasks.
LinesAgree(got, out, n, pages) ==
    /\ got \in Seq(PageLines) /\ out \in Seq(PageLines)
    /\ Len(got) + Len(out) = n
    /\ \A i \in 1 .. Len(got) : got[i].page = pages[i]
    /\ \A i \in 1 .. Len(out) : out[i].page = pages[Len(got) + i]

\* No page is answered after FailureLimit failures in a row.
NoLongFailure(s) ==
    \A i \in 1 .. Len(s) - FailureLimit : \E j \in i .. i + FailureLimit - 1 : ~s[j]

WorkerTyped ==
    /\ engine \in {"surya2", "yomitoku", "qwen35_dots_review_v1"}
    /\ worker \in WorkerPlaces
    /\ caller \in {"idle", "reading", "returned", "raised"}
    /\ tasks \in Seq(1 .. NumPages) /\ taken \in Nat
    /\ recent \in Seq(BOOLEAN)

\* How far the tasks are when the worker is where it is.
TasksAsFar ==
    /\ worker \in StageNames \cup {"begin", "enter", "page"} => taken < Len(tasks)
    /\ worker = "leave" => taken <= Len(tasks)
    /\ worker = "exited" => taken = Len(tasks)

ServerOk ==
    /\ worker \in {"enter", "leave"} => engine = "surya2"
    /\ server = "left" => cut
    /\ server = "owned" =>
        /\ engine = "surya2" /\ worker \in {"page", "leave", "hung"}
        /\ served = recent /\ Len(served) <= MaxServed /\ NoLongFailure(served)
        /\ worker = "page" => ~Worn(served)

CallerOk ==
    /\ caller = "reading" /\ worker # "failed" => LinesAgree(received, output, taken, tasks)
    /\ caller = "returned" => [i \in DOMAIN received |-> received[i].page] = tasks
    /\ caller # "reading" => worker \in Ended /\ ~manifest

WorkerInv == WorkerTyped /\ TasksAsFar /\ ServerOk /\ CallerOk

\* The invariant of the worker says what its caller relies on.
LEMMA WorkerInvAgrees == WorkerInv => WorkerAgrees
BY DEF WorkerInv, ServerOk, CallerOk, WorkerAgrees, NoLongFailure, Ended

\* The stages of the consensus engine, in their order.
LEMMA StageOrder ==
    /\ DOMAIN Stages = 1 .. 3
    /\ Stages[1] = "qwen" /\ Stages[2] = "dots" /\ Stages[3] = "selector"
    /\ {Stages[i] : i \in DOMAIN Stages} = StageNames
<1>1. DOMAIN Stages = 1 .. 3 /\ Stages[1] = "qwen" /\ Stages[2] = "dots" /\ Stages[3] = "selector"
  BY DEF Stages
<1>2. \A i \in 1 .. 3 : i = 1 \/ i = 2 \/ i = 3
  OBVIOUS
<1> QED
  BY <1>1, <1>2 DEF StageNames

\* A server that is not worn answers one page more within its limits.
LEMMA OnePageMore ==
    ASSUME NEW s \in Seq(BOOLEAN), NoLongFailure(s), Len(s) <= MaxServed, ~Worn(s), NEW failed \in BOOLEAN
    PROVE  /\ Append(s, failed) \in Seq(BOOLEAN)
           /\ Len(Append(s, failed)) <= MaxServed /\ NoLongFailure(Append(s, failed))
<1> DEFINE more == Append(s, failed)
           n == Len(s)
<1>1. FailureLimit \in Nat \ {0} /\ MaxServed \in Nat
  BY WorkerAssumption
<1>2. n \in Nat /\ more \in Seq(BOOLEAN) /\ Len(more) = n + 1 /\ \A i \in 1 .. n : more[i] = s[i]
  BY LenProperties, AppendProperties
<1> HIDE DEF more
<1>3. n < MaxServed
  BY <1>1, <1>2 DEF Worn
<1>4. ASSUME NEW i \in 1 .. n + 1 - FailureLimit PROVE \E j \in i .. i + FailureLimit - 1 : ~more[j]
  <2>1. CASE i \in 1 .. n - FailureLimit
    <3>1. PICK j \in i .. i + FailureLimit - 1 : ~s[j]
      BY <2>1 DEF NoLongFailure
    <3>2. j \in 1 .. n
      BY <1>1, <1>2, <2>1
    <3> QED
      BY <1>2, <3>1, <3>2
  <2>2. CASE i = n + 1 - FailureLimit
    <3>1. n >= FailureLimit /\ i \in 1 .. n
      BY <1>1, <1>2, <2>2
    <3>2. Failures(Latest(s, FailureLimit)) # 1 .. FailureLimit
      BY <3>1 DEF Worn
    <3>3. /\ Latest(s, FailureLimit) = SubSeq(s, i, n)
          /\ DOMAIN SubSeq(s, i, n) = 1 .. FailureLimit
          /\ \A k \in 1 .. FailureLimit : SubSeq(s, i, n)[k] = s[i + k - 1]
      <4>1. n - FailureLimit + 1 = i /\ n - i + 1 = FailureLimit /\ n <= Len(s) /\ i >= 1
        BY <1>1, <1>2, <2>2, <3>1
      <4>2. Latest(s, FailureLimit) = SubSeq(s, i, n)
        BY <4>1 DEF Latest
      <4>3. /\ SubSeq(s, i, n) \in Seq(BOOLEAN)
            /\ Len(SubSeq(s, i, n)) = n - i + 1
            /\ \A k \in 1 .. n - i + 1 : SubSeq(s, i, n)[k] = s[i + k - 1]
        BY <1>2, <3>1, SubSeqProperties
      <4> QED
        BY <4>1, <4>2, <4>3, LenProperties
    <3>4. PICK k \in 1 .. FailureLimit : ~s[i + k - 1]
      BY <3>2, <3>3 DEF Failures
    <3>5. i + k - 1 \in i .. i + FailureLimit - 1 /\ i + k - 1 \in 1 .. n
      BY <1>1, <1>2, <2>2, <3>1
    <3> QED
      BY <1>2, <3>4, <3>5
  <2> QED
    BY <1>1, <1>2, <2>1, <2>2
<1>5. NoLongFailure(more)
  <2>1. Len(more) - FailureLimit = n + 1 - FailureLimit
    BY <1>1, <1>2
  <2>2. \A i \in 1 .. Len(more) - FailureLimit : \E j \in i .. i + FailureLimit - 1 : ~more[j]
    BY <1>4, <2>1, Zenon
  <2> QED
    BY <2>2, Zenon DEF NoLongFailure
<1> QED
  BY <1>1, <1>2, <1>3, <1>5 DEF more

\* A server that has answered nothing is within its limits.
LEMMA FreshServer == <<>> \in Seq(BOOLEAN) /\ Len(<<>>) <= MaxServed /\ NoLongFailure(<<>>) /\ ~Worn(<<>>)
<1>1. Len(<<>>) = 0 /\ {FailureLimit, FailureWindow, MaxServed} \subseteq Nat \ {0}
  BY WorkerAssumption
<1> QED
  BY <1>1 DEF NoLongFailure, Worn

\* Reading a line moves it; printing one adds the next task.
LEMMA LinesRead ==
    ASSUME NEW got, NEW out, NEW n, NEW pages, LinesAgree(got, out, n, pages), out # <<>>
    PROVE  LinesAgree(Append(got, Head(out)), Tail(out), n, pages)
<1>1. /\ got \in Seq(PageLines) /\ out \in Seq(PageLines) /\ Len(got) \in Nat /\ Len(out) \in Nat \ {0}
      /\ Len(got) + Len(out) = n
  BY LenProperties, EmptySeq DEF LinesAgree
<1>2. /\ Head(out) = out[1] /\ Head(out) \in PageLines
      /\ Tail(out) \in Seq(PageLines) /\ Len(Tail(out)) = Len(out) - 1
      /\ \A i \in 1 .. Len(out) - 1 : Tail(out)[i] = out[i + 1]
  BY <1>1, HeadTailProperties, ElementOfSeq
<1> DEFINE more == Append(got, Head(out))
           rest == Tail(out)
<1>3. /\ more \in Seq(PageLines) /\ Len(more) = Len(got) + 1 /\ more[Len(got) + 1] = out[1]
      /\ \A i \in 1 .. Len(got) : more[i] = got[i]
  BY <1>1, <1>2, AppendProperties
<1> HIDE DEF more, rest
<1>4. ASSUME NEW i \in 1 .. Len(got) + 1 PROVE more[i].page = pages[i]
  <2>1. CASE i \in 1 .. Len(got)
    BY <1>3, <2>1 DEF LinesAgree
  <2>2. CASE i = Len(got) + 1
    BY <1>1, <1>3, <2>2 DEF LinesAgree
  <2> QED
    BY <1>1, <2>1, <2>2
<1>5. ASSUME NEW i \in 1 .. Len(out) - 1 PROVE rest[i].page = pages[Len(got) + 1 + i]
  <2>1. i + 1 \in 1 .. Len(out) /\ Len(got) + (i + 1) = Len(got) + 1 + i
    BY <1>1
  <2>2. rest[i] = out[i + 1]
    BY <1>2 DEF rest
  <2> QED
    BY <2>1, <2>2 DEF LinesAgree
<1>6. LinesAgree(more, rest, n, pages)
  <2>1. rest \in Seq(PageLines) /\ Len(rest) = Len(out) - 1
    BY <1>2 DEF rest
  <2>2. Len(more) + Len(rest) = n
    BY <1>1, <1>3, <2>1
  <2>3. \A i \in 1 .. Len(more) : more[i].page = pages[i]
    BY <1>3, <1>4
  <2>4. \A i \in 1 .. Len(rest) : rest[i].page = pages[Len(more) + i]
    BY <1>3, <1>5, <2>1
  <2> QED
    BY <1>3, <2>1, <2>2, <2>3, <2>4 DEF LinesAgree
<1> QED
  BY <1>6 DEF more, rest

\* A page that is done prints one line more.
LEMMA LinesPrinted ==
    ASSUME NEW got, NEW out, NEW n \in Nat, NEW pages \in Seq(1 .. NumPages), LinesAgree(got, out, n, pages),
           n < Len(pages), NEW state \in {"passed", "failed"}
    PROVE  LinesAgree(got, Append(out, [page |-> pages[n + 1], state |-> state]), n + 1, pages)
<1> DEFINE e == [page |-> pages[n + 1], state |-> state]
           more == Append(out, e)
<1>1. /\ got \in Seq(PageLines) /\ out \in Seq(PageLines) /\ Len(got) \in Nat /\ Len(out) \in Nat
      /\ Len(got) + Len(out) = n
  BY LenProperties DEF LinesAgree
<1>2. Len(pages) \in Nat /\ n + 1 \in 1 .. Len(pages)
  BY LenProperties
<1>3. e \in PageLines /\ e.page = pages[n + 1]
  BY <1>2, ElementOfSeq DEF PageLines
<1> HIDE DEF e
<1>4. /\ more \in Seq(PageLines) /\ Len(more) = Len(out) + 1 /\ more[Len(out) + 1] = e
      /\ \A i \in 1 .. Len(out) : more[i] = out[i]
  BY <1>1, <1>3, AppendProperties
<1> HIDE DEF more
<1>5. ASSUME NEW i \in 1 .. Len(out) + 1 PROVE more[i].page = pages[Len(got) + i]
  <2>1. CASE i \in 1 .. Len(out)
    BY <1>4, <2>1 DEF LinesAgree
  <2>2. CASE i = Len(out) + 1
    BY <1>1, <1>3, <1>4, <2>2
  <2> QED
    BY <1>1, <2>1, <2>2
<1>6. LinesAgree(got, more, n + 1, pages)
  <2>1. Len(got) + Len(more) = n + 1
    BY <1>1, <1>4
  <2>2. \A i \in 1 .. Len(more) : more[i].page = pages[Len(got) + i]
    BY <1>4, <1>5
  <2>3. \A i \in 1 .. Len(got) : got[i].page = pages[i]
    BY DEF LinesAgree
  <2> QED
    BY <1>1, <1>4, <2>1, <2>2, <2>3 DEF LinesAgree
<1> QED
  BY <1>6 DEF more, e

\* The worker begins with nothing printed.
LEMMA WorkerInvInit == WorkerInit => WorkerInv
<1> SUFFICES ASSUME WorkerInit PROVE WorkerInv
  OBVIOUS
<1>1. WorkerTyped /\ TasksAsFar /\ CallerOk
  BY DEF WorkerInit, WorkerTyped, TasksAsFar, CallerOk, WorkerPlaces, Ended, StageNames
<1>2. ServerOk
  BY DEF WorkerInit, ServerOk
<1> QED
  BY <1>1, <1>2 DEF WorkerInv

\* A job that ends leaves no worker, and the server of one it stops stays behind.
LEMMA FinishKeeps ==
    ASSUME WorkerInv, NEW how \in {"returned", "raised"}, Finish(how),
           how = "returned" => [i \in DOMAIN received' |-> received'[i].page] = tasks
    PROVE  WorkerInv'
<1>1. caller' = how /\ manifest' = FALSE /\ UNCHANGED <<engine, tasks, taken, recent, served>>
  BY DEF Finish
<1>2. WorkerTyped /\ TasksAsFar /\ ServerOk
  BY DEF WorkerInv
<1>3. CASE worker \in Ended
  <2>1. UNCHANGED <<worker, server, cut>>
    BY <1>3 DEF Finish
  <2>2. WorkerTyped'
    BY <1>1, <1>2, <2>1 DEF WorkerTyped
  <2>3. TasksAsFar'
    BY <1>1, <1>2, <2>1 DEF TasksAsFar
  <2>4. ServerOk'
    BY <1>1, <1>2, <2>1 DEF ServerOk
  <2>5. CallerOk'
    BY <1>1, <1>3, <2>1 DEF CallerOk
  <2> QED
    BY <2>2, <2>3, <2>4, <2>5 DEF WorkerInv
<1>4. CASE worker \notin Ended
  <2>1. worker' = "stopped" /\ server' = (IF server = "owned" THEN "left" ELSE server) /\ cut' = (cut \/ server = "owned")
    BY <1>4 DEF Finish, Abandon
  <2>2. WorkerTyped'
    BY <1>1, <1>2, <2>1 DEF WorkerTyped, WorkerPlaces, Ended
  <2>3. TasksAsFar'
    BY <2>1 DEF TasksAsFar, StageNames
  <2>4. ServerOk'
    BY <1>2, <2>1 DEF ServerOk
  <2>5. CallerOk'
    BY <1>1, <2>1 DEF CallerOk, Ended
  <2> QED
    BY <2>2, <2>3, <2>4, <2>5 DEF WorkerInv
<1> QED
  BY <1>3, <1>4

\* Reading a line of the output keeps the invariant.
LEMMA WorkerReadLine == ASSUME WorkerInv, ReadLine PROVE WorkerInv'
<1>1. caller = "reading" /\ output # <<>> /\ output' = Tail(output)
  BY DEF ReadLine
<1>2. CASE Head(output) = Fatal
  BY <1>2, FinishKeeps DEF ReadLine
<1>3. CASE Head(output) # Fatal
  <2>1. /\ received' = Append(received, Head(output))
        /\ UNCHANGED <<engine, session, tasks, caller, manifest, worker, taken, recent, server, served, cut>>
    BY <1>3 DEF ReadLine
  <2>2. WorkerTyped' /\ TasksAsFar' /\ ServerOk'
    BY <2>1 DEF WorkerInv, WorkerTyped, TasksAsFar, ServerOk
  <2>3. worker # "failed" => LinesAgree(received, output, taken, tasks)
    BY <1>1 DEF WorkerInv, CallerOk
  <2>4. worker # "failed" => LinesAgree(received', output', taken, tasks)
    BY <1>1, <2>1, <2>3, LinesRead
  <2>5. CallerOk'
    BY <1>1, <2>1, <2>4 DEF CallerOk
  <2> QED
    BY <2>2, <2>5 DEF WorkerInv
<1> QED
  BY <1>2, <1>3

\* The end of the output keeps the invariant.
LEMMA WorkerEndOfOutput == ASSUME WorkerInv, EndOfOutput PROVE WorkerInv'
<1>1. /\ caller = "reading" /\ output = <<>> /\ worker \in Ended /\ UNCHANGED received
      /\ Finish(IF worker = "exited" THEN "returned" ELSE "raised")
  BY DEF EndOfOutput
<1>2. CASE worker = "exited"
  <2>1. LinesAgree(received, output, taken, tasks) /\ taken = Len(tasks) /\ tasks \in Seq(1 .. NumPages)
    BY <1>1, <1>2 DEF WorkerInv, CallerOk, TasksAsFar, WorkerTyped
  <2>2. received \in Seq(PageLines) /\ Len(received) = Len(tasks) /\ \A i \in 1 .. Len(received) : received[i].page = tasks[i]
    <3>1. Len(output) = 0 /\ Len(received) \in Nat
      BY <1>1, <2>1, LenProperties DEF LinesAgree
    <3> QED
      BY <2>1, <3>1 DEF LinesAgree
  <2>3. DOMAIN received = 1 .. Len(tasks) /\ tasks = [i \in 1 .. Len(tasks) |-> tasks[i]]
    BY <2>1, <2>2, LenProperties
  <2>4. [i \in DOMAIN received |-> received[i].page] = tasks
    BY <2>2, <2>3
  <2> QED
    BY <1>1, <1>2, <2>4, FinishKeeps
<1>3. CASE worker # "exited"
  BY <1>1, <1>3, FinishKeeps
<1> QED
  BY <1>2, <1>3

\* Starting the worker keeps the invariant.
LEMMA WorkerStart == ASSUME WorkerInv, StartWorker PROVE WorkerInv'
<1>1. /\ Pending # {} /\ tasks' \in [1 .. Cardinality(Pending) -> Pending]
      /\ caller' = "reading" /\ worker' = "begin" /\ taken' = 0 /\ recent' = <<>>
      /\ output' = <<>> /\ received' = <<>> /\ UNCHANGED <<engine, server, cut>>
      /\ caller # "reading"
  BY DEF StartWorker
<1>2. Cardinality(Pending) \in Nat /\ Cardinality(Pending) # 0
  <2>1. IsFiniteSet(1 .. NumPages)
    <3>1. NumPages \in Int /\ 1 \in Int
      BY WorkerAssumption
    <3> QED
      BY <3>1, FS_Interval
  <2>2. IsFiniteSet(Pending)
    BY <2>1, FS_Subset DEF Pending
  <2> QED
    BY <1>1, <2>2, FS_CardinalityType, FS_EmptySet
<1>3. tasks' \in Seq(1 .. NumPages) /\ Len(tasks') = Cardinality(Pending)
  <2>1. tasks' \in [1 .. Cardinality(Pending) -> 1 .. NumPages]
    BY <1>1 DEF Pending
  <2> DEFINE n == Cardinality(Pending)
  <2>2. n \in Nat /\ tasks' \in [1 .. n -> 1 .. NumPages]
    BY <1>2, <2>1
  <2> HIDE DEF n
  <2>3. tasks' \in Seq(1 .. NumPages) /\ DOMAIN tasks' = 1 .. n
    BY <2>2, SeqDef
  <2>4. Len(tasks') = n
    BY <2>2, <2>3, LenProperties
  <2> QED
    BY <2>3, <2>4 DEF n
<1>4. WorkerTyped'
  BY <1>1, <1>3 DEF WorkerInv, WorkerTyped, WorkerPlaces
<1>5. TasksAsFar'
  BY <1>1, <1>2, <1>3 DEF TasksAsFar, StageNames
<1>6. ServerOk'
  <2>1. worker \in Ended /\ server # "owned"
    BY <1>1 DEF WorkerInv, ServerOk, CallerOk, Ended
  <2> QED
    BY <1>1, <2>1 DEF WorkerInv, ServerOk
<1>7. CallerOk'
  BY <1>1 DEF CallerOk, LinesAgree
<1> QED
  BY <1>4, <1>5, <1>6, <1>7 DEF WorkerInv

\* The steps of a worker that print nothing: the job sees nothing of them.
LEMMA SilentStep ==
    ASSUME WorkerInv, UNCHANGED <<caller, manifest, received, output, tasks, taken>>,
           worker \notin Ended, worker' # "failed"
    PROVE  CallerOk'
<1>1. caller = "reading" /\ worker # "failed"
  BY DEF WorkerInv, CallerOk, Ended
<1> QED
  BY <1>1 DEF WorkerInv, CallerOk

\* The choice of the engine keeps the invariant.
LEMMA WorkerBegins == ASSUME WorkerInv, BeginWork PROVE WorkerInv'
<1>1. /\ worker = "begin" /\ worker' \in {"enter", "page"} \cup StageNames /\ (worker' = "enter" => engine = "surya2")
      /\ UNCHANGED <<engine, callerVars, cut, taken, recent, server, served, output>>
  BY StageOrder DEF BeginWork, Step, WorkerInv, WorkerTyped, StageNames
<1>2. UNCHANGED <<caller, manifest, received, tasks>>
  BY <1>1 DEF callerVars
<1>3. WorkerTyped' /\ TasksAsFar'
  BY <1>1, <1>2 DEF WorkerInv, WorkerTyped, TasksAsFar, WorkerPlaces, StageNames
<1>4. ServerOk'
  BY <1>1 DEF WorkerInv, ServerOk, StageNames
<1>5. CallerOk'
  BY <1>1, <1>2, SilentStep DEF Ended, StageNames
<1> QED
  BY <1>3, <1>4, <1>5 DEF WorkerInv

\* Starting the Surya server keeps the invariant.
LEMMA WorkerEnters == ASSUME WorkerInv, EnterServer PROVE WorkerInv'
<1>1. /\ worker = "enter" /\ worker' = "page" /\ recent' = <<>> /\ served' = <<>>
      /\ server' = (IF server = "none" THEN "owned" ELSE server)
      /\ UNCHANGED <<engine, callerVars, cut, taken, output>>
  BY DEF EnterServer, Step
<1>2. UNCHANGED <<caller, manifest, received, tasks>>
  BY <1>1 DEF callerVars
<1>3. WorkerTyped' /\ TasksAsFar'
  BY <1>1, <1>2, FreshServer DEF WorkerInv, WorkerTyped, TasksAsFar, WorkerPlaces, StageNames
<1>4. ServerOk'
  BY <1>1, FreshServer DEF WorkerInv, ServerOk
<1>5. CallerOk'
  BY <1>1, <1>2, SilentStep DEF Ended
<1> QED
  BY <1>3, <1>4, <1>5 DEF WorkerInv

\* Stopping the Surya server keeps the invariant.
LEMMA WorkerLeaves == ASSUME WorkerInv, LeaveServer PROVE WorkerInv'
<1>1. /\ worker = "leave" /\ worker' = (IF taken < Len(tasks) THEN "enter" ELSE "exited")
      /\ server' = (IF server = "owned" THEN "none" ELSE server)
      /\ UNCHANGED <<engine, callerVars, cut, taken, recent, served, output>>
  BY DEF LeaveServer, Step
<1>2. UNCHANGED <<caller, manifest, received, tasks>>
  BY <1>1 DEF callerVars
<1>3. WorkerTyped'
  BY <1>1, <1>2 DEF WorkerInv, WorkerTyped, WorkerPlaces, Ended
<1>4. TasksAsFar'
  <2>1. Len(tasks) \in Nat /\ taken \in Nat /\ taken <= Len(tasks)
    BY <1>1, LenProperties DEF WorkerInv, WorkerTyped, TasksAsFar
  <2> QED
    BY <1>1, <1>2, <2>1 DEF TasksAsFar, StageNames
<1>5. ServerOk'
  BY <1>1 DEF WorkerInv, ServerOk
<1>6. CallerOk'
  BY <1>1, <1>2, SilentStep DEF Ended
<1> QED
  BY <1>3, <1>4, <1>5, <1>6 DEF WorkerInv

\* A page read by Surya keeps the invariant.
LEMMA WorkerSuryaPage == ASSUME WorkerInv, SuryaPage PROVE WorkerInv'
<1>1. PICK failed \in BOOLEAN, state \in {"passed", "failed"} :
        /\ output' = Append(output, [page |-> tasks[taken + 1], state |-> state])
        /\ served' = IF server = "owned" THEN Append(served, failed) ELSE served
        /\ recent' = IF Worn(Append(recent, failed)) /\ server # "owned" THEN <<>>
                     ELSE Append(recent, failed)
        /\ taken' = taken + 1
        /\ worker' = IF taken' >= Len(tasks) \/ Worn(recent') THEN "leave" ELSE "page"
  BY DEF SuryaPage, Taken
<1>2. worker = "page" /\ engine = "surya2" /\ UNCHANGED <<engine, caller, manifest, received, tasks, server, cut>>
  BY DEF SuryaPage, callerVars
<1>3. /\ taken \in Nat /\ Len(tasks) \in Nat /\ taken < Len(tasks) /\ tasks \in Seq(1 .. NumPages)
      /\ recent \in Seq(BOOLEAN)
  BY <1>2, LenProperties DEF WorkerInv, WorkerTyped, TasksAsFar
<1>4. worker' \in {"leave", "page"} /\ (worker' = "page" => taken' < Len(tasks) /\ ~Worn(recent'))
  BY <1>1, <1>3
<1>5. WorkerTyped'
  <2>1. recent' \in Seq(BOOLEAN)
    BY <1>1, <1>3, FreshServer, AppendProperties
  <2> QED
    BY <1>1, <1>2, <1>3, <1>4, <2>1 DEF WorkerInv, WorkerTyped, WorkerPlaces
<1>6. TasksAsFar'
  BY <1>1, <1>2, <1>3, <1>4 DEF TasksAsFar, StageNames
<1>7. ServerOk'
  <2>1. ASSUME server = "owned"
        PROVE  /\ served' = recent' /\ Len(served') <= MaxServed /\ NoLongFailure(served')
               /\ worker' = "page" => ~Worn(served')
    <3>1. served = recent /\ Len(served) <= MaxServed /\ NoLongFailure(served) /\ ~Worn(served)
      BY <1>2, <2>1 DEF WorkerInv, ServerOk
    <3>2. served' = Append(served, failed) /\ recent' = Append(recent, failed)
      BY <1>1, <2>1
    <3> QED
      BY <1>3, <1>4, <3>1, <3>2, OnePageMore
  <2>2. server = "left" => cut
    BY DEF WorkerInv, ServerOk
  <2> QED
    BY <1>2, <1>4, <2>1, <2>2 DEF ServerOk
<1>8. CallerOk'
  <2>1. caller = "reading" /\ LinesAgree(received, output, taken, tasks)
    BY <1>2 DEF WorkerInv, CallerOk, Ended
  <2>2. LinesAgree(received, output', taken', tasks)
    BY <1>1, <1>3, <2>1, LinesPrinted
  <2> QED
    BY <1>2, <2>1, <2>2 DEF CallerOk
<1> QED
  BY <1>5, <1>6, <1>7, <1>8 DEF WorkerInv

\* A page read by another engine keeps the invariant.
LEMMA WorkerOtherPage == ASSUME WorkerInv, OtherPage PROVE WorkerInv'
<1>1. PICK state \in {"passed", "failed"} :
        output' = Append(output, [page |-> tasks[taken + 1], state |-> state])
  BY DEF OtherPage
<1>2. /\ worker = "page" /\ engine # "surya2" /\ taken' = taken + 1
      /\ worker' = (IF taken' = Len(tasks) THEN "exited" ELSE "page")
      /\ UNCHANGED <<engine, caller, manifest, received, tasks, recent, server, served, cut>>
  BY DEF OtherPage, callerVars
<1>3. taken \in Nat /\ Len(tasks) \in Nat /\ taken < Len(tasks) /\ tasks \in Seq(1 .. NumPages)
  BY <1>2, LenProperties DEF WorkerInv, WorkerTyped, TasksAsFar
<1>4. WorkerTyped'
  BY <1>2, <1>3 DEF WorkerInv, WorkerTyped, WorkerPlaces, Ended
<1>5. TasksAsFar'
  BY <1>2, <1>3 DEF TasksAsFar, StageNames
<1>6. ServerOk'
  BY <1>2 DEF WorkerInv, ServerOk
<1>7. CallerOk'
  <2>1. caller = "reading" /\ LinesAgree(received, output, taken, tasks)
    BY <1>2 DEF WorkerInv, CallerOk, Ended
  <2>2. LinesAgree(received, output', taken', tasks)
    BY <1>1, <1>2, <1>3, <2>1, LinesPrinted
  <2> QED
    BY <1>2, <2>1, <2>2 DEF CallerOk
<1> QED
  BY <1>4, <1>5, <1>6, <1>7 DEF WorkerInv

\* The end of a stage keeps the invariant.
LEMMA WorkerStageEnds == ASSUME WorkerInv, StageEnds PROVE WorkerInv'
<1>1. PICK i \in 1 .. 3 : Step(Stages[i], IF i < Len(Stages) THEN Stages[i + 1] ELSE "page")
  BY StageOrder DEF StageEnds
<1>2. Len(Stages) = 3
  BY DEF Stages
<1>3. worker \in StageNames /\ worker' \in StageNames \cup {"page"}
  BY <1>1, <1>2, StageOrder DEF Step, StageNames
<1>4. UNCHANGED <<engine, caller, manifest, received, tasks, cut, taken, recent, server, served, output>>
  BY <1>1 DEF StageEnds, Step, callerVars
<1>5. WorkerTyped' /\ TasksAsFar'
  BY <1>3, <1>4 DEF WorkerInv, WorkerTyped, TasksAsFar, WorkerPlaces, StageNames
<1>6. ServerOk'
  BY <1>3, <1>4 DEF WorkerInv, ServerOk, StageNames
<1>7. CallerOk'
  BY <1>3, <1>4, SilentStep DEF Ended, StageNames
<1> QED
  BY <1>5, <1>6, <1>7 DEF WorkerInv

\* A worker that fails, hangs or dies keeps the invariant.
LEMMA WorkerFailsOrEnds ==
    ASSUME WorkerInv, WorkerFails \/ WorkerHangs \/ WorkerDies PROVE WorkerInv'
<1>1. CASE WorkerFails
  <2>1. /\ worker \in {"begin", "enter", "page"} \cup StageNames /\ worker' = "failed"
        /\ server' = (IF server = "owned" THEN "none" ELSE server)
        /\ UNCHANGED <<engine, caller, manifest, received, tasks, taken, recent, served, cut>>
    BY <1>1, StageOrder DEF WorkerFails, ReportsFatal, callerVars
  <2>2. WorkerTyped' /\ TasksAsFar'
    BY <2>1 DEF WorkerInv, WorkerTyped, TasksAsFar, WorkerPlaces, Ended, StageNames
  <2>3. ServerOk'
    BY <2>1 DEF WorkerInv, ServerOk
  <2>4. CallerOk'
    BY <2>1 DEF WorkerInv, CallerOk, Ended
  <2> QED
    BY <2>2, <2>3, <2>4 DEF WorkerInv
<1>2. CASE WorkerHangs
  <2>1. /\ worker \notin Ended /\ worker' = "hung"
        /\ UNCHANGED <<engine, caller, manifest, received, output, tasks, taken, recent, server, served, cut>>
    BY <1>2 DEF WorkerHangs, callerVars
  <2>2. WorkerTyped' /\ TasksAsFar'
    BY <2>1 DEF WorkerInv, WorkerTyped, TasksAsFar, WorkerPlaces, StageNames
  <2>3. ServerOk'
    BY <2>1 DEF WorkerInv, ServerOk
  <2>4. CallerOk'
    BY <2>1, SilentStep
  <2> QED
    BY <2>2, <2>3, <2>4 DEF WorkerInv
<1>3. CASE WorkerDies
  <2>1. /\ worker \notin Ended /\ worker' = "crashed"
        /\ server' = (IF server = "owned" THEN "left" ELSE server) /\ cut' = (cut \/ server = "owned")
        /\ UNCHANGED <<engine, caller, manifest, received, output, tasks, taken, recent, served>>
    BY <1>3 DEF WorkerDies, Abandon, callerVars
  <2>2. WorkerTyped' /\ TasksAsFar'
    BY <2>1 DEF WorkerInv, WorkerTyped, TasksAsFar, WorkerPlaces, Ended, StageNames
  <2>3. ServerOk'
    BY <2>1 DEF WorkerInv, ServerOk
  <2>4. CallerOk'
    BY <2>1, SilentStep
  <2> QED
    BY <2>2, <2>3, <2>4 DEF WorkerInv
<1> QED
  BY <1>1, <1>2, <1>3

\* Whatever job and worker do, the lines stay in step with the tasks.
LEMMA WorkerInvStep == ASSUME WorkerInv, [WorkerNext]_ocrWorkerVars PROVE WorkerInv'
<1>1. CASE UNCHANGED ocrWorkerVars
  <2>1. UNCHANGED <<engine, tasks, caller, manifest, worker, taken, recent, server, served, output, received, cut>>
    BY <1>1 DEF ocrWorkerVars
  <2> QED
    BY <2>1 DEF WorkerInv, WorkerTyped, TasksAsFar, ServerOk, CallerOk
<1>2. ASSUME ConsumerRaises PROVE WorkerInv'
  BY <1>2, FinishKeeps DEF ConsumerRaises
<1>3. ASSUME Watchdog PROVE WorkerInv'
  BY <1>3, FinishKeeps DEF Watchdog
<1> QED
  BY <1>1, <1>2, <1>3, WorkerStart, WorkerReadLine, WorkerEndOfOutput, WorkerBegins, WorkerEnters, WorkerLeaves,
     WorkerSuryaPage, WorkerOtherPage, WorkerStageEnds, WorkerFailsOrEnds DEF WorkerNext, WorkerStep

\* For any number of pages, jobs, hanging and dying workers and any limits of a
\* server: a job that returns has one result for each page it asked for, in
\* order; no worker outlives its job; a server goes with its worker unless that
\* one was cut off, and answers nothing beyond its limits (iter_ocr_pages,
\* run_surya, OcrSessionPolicy).
THEOREM WorkersAgree == WorkerSpec => []WorkerAgrees
<1> QED
  BY WorkerInvInit, WorkerInvStep, WorkerInvAgrees, PTL DEF WorkerSpec
-----------------------------------------------------------------------------
(* The capture loop: where Kindle is while the loop follows the book. *)

CanaryPlaces == {"canary", "canary watch"}
OpenPlaces == {"watch", "turn", "recover", "confirm", "confirm watch"}

LoopTyped ==
    /\ book \in Seq(Looks) /\ Len(book) > 0
    /\ setting \in Settings
    /\ shown \in 1 .. Len(book)
    /\ owed \in Seq({1, -1})
    /\ position \in CanaryPlaces \cup OpenPlaces \cup {"done", "failed"}
    /\ saved \in Seq(Looks)
    /\ tries \in Nat /\ deafness \in Nat

\* The canary cannot be passed with the wrong key, and saves nothing.
CanaryOk ==
    /\ ~setting.byHand /\ ~setting.rightKey =>
        position \in CanaryPlaces \cup {"failed"} /\ shown = 1 /\ \A i \in 1 .. Len(owed) : owed[i] = -1
    /\ position \in CanaryPlaces => ~setting.byHand /\ saved = <<>> /\ cycle = 0 /\ tries = 0

\* How the number of images is to the expected one.
CountOk ==
    setting.expected # AnyCount =>
        /\ position \in CanaryPlaces \cup {"watch", "turn", "recover"} => Len(saved) < setting.expected
        /\ position \in {"confirm", "confirm watch", "done"} => Len(saved) = setting.expected

DeafnessIsSeen == deafness > RetryCount => trouble # {}

LoopBasics == LoopTyped /\ CanaryOk /\ CountOk /\ DeafnessIsSeen

\* The images are the first screens of the book, or, if Kindle went back
\* after the last one, all of them and the last but one.
FollowsBook ==
    /\ Len(saved) <= Len(book)
    /\ \A i \in 1 .. Len(saved) : saved[i] = book[i]
    /\ cycle = 0 \/ (cycle = 1 /\ Len(saved) >= 3 /\ book[Len(saved)] = book[Len(saved) - 2])
WentBack ==
    /\ setting.circles /\ Len(book) >= 2 /\ Len(saved) = Len(book) + 1
    /\ \A i \in 1 .. Len(book) : saved[i] = book[i]
    /\ saved[Len(book) + 1] = book[Len(book) - 1]
    /\ cycle = 1

\* The screen that was saved last; Kindle stays there when it is the last one.
Latest1 == IF Len(saved) <= Len(book) THEN Len(saved) ELSE Len(book) - 1
AtTheEnd == Turned(Latest1, 1) = Latest1

\* Before a key, the saved screen is shown and nothing is owed; after it, that
\* is so only at the end of the book or if every try so far was ignored.
BeforeKey(ignored) == shown = Latest1 /\ owed = <<>> /\ (AtTheEnd \/ deafness >= ignored)
AfterKey ==
    \/ BeforeKey(tries + 1)
    \/ shown = Latest1 /\ owed = <<1>>
    \/ shown = Turned(Latest1, 1) /\ owed = <<>>
    \/ shown = Latest1 /\ owed = <<-1>> /\ Latest1 = 1 /\ AtTheEnd

Following ==
    /\ FollowsBook \/ WentBack
    /\ saved = <<>> => position = "watch" /\ shown = 1 /\ owed = <<>> /\ tries = 0
    /\ saved # <<>> =>
        /\ position \in {"turn", "confirm"} => BeforeKey(tries)
        /\ position = "turn" => tries = 0
        /\ position = "recover" => BeforeKey(tries + 1) /\ tries < Recoveries
        /\ position \in {"watch", "confirm watch"} => AfterKey

Clean == trouble = {} /\ Distinguishable /\ setting.rightKey
LoopFollows ==
    /\ Clean /\ position \in OpenPlaces => Following
    /\ Clean /\ position = "done" => saved = book

LoopInv == LoopBasics /\ LoopFollows

\* Under the invariant a capture that ends is complete or was refused.
LEMMA LoopInvComplete == LoopInv => CompleteOrRefused
<1> SUFFICES ASSUME LoopInv, position = "done" PROVE CompleteOrRefused
  BY DEF CompleteOrRefused
<1>1. trouble = {} /\ Distinguishable /\ setting.rightKey => saved = book
  BY DEF LoopInv, LoopFollows, Clean
<1>2. setting.byHand \/ setting.rightKey
  BY DEF LoopInv, LoopBasics, CanaryOk, CanaryPlaces
<1>3. setting.expected # AnyCount => Len(saved) = setting.expected
  BY DEF LoopInv, LoopBasics, CountOk
<1> QED
  BY <1>1, <1>2, <1>3 DEF CompleteOrRefused

\* The loop begins at the first screen, with nothing saved.
LEMMA LoopInvInit == LoopInit => LoopInv
<1> SUFFICES ASSUME LoopInit PROVE LoopInv
  OBVIOUS
<1>1. book \in Seq(Looks) /\ Len(book) > 0
  <2>1. PICK n \in 1 .. MaxScreens : book \in [1 .. n -> Looks]
    BY DEF LoopInit, Books
  <2>2. n \in Nat
    BY LoopAssumption
  <2>3. book \in Seq(Looks)
    BY <2>1, <2>2, SeqDef
  <2>4. Len(book) = n
    BY <2>1, <2>2, <2>3, LenProperties
  <2> QED
    BY <2>3, <2>4
<1>2. LoopTyped
  <2>1. Len(book) \in Nat /\ shown = 1 /\ shown \in 1 .. Len(book)
    BY <1>1, LenProperties DEF LoopInit
  <2> QED
    BY <1>1, <2>1 DEF LoopInit, LoopTyped, CanaryPlaces, OpenPlaces
<1>3. CanaryOk
  BY DEF LoopInit, CanaryOk, CanaryPlaces, Settings
<1>4. CountOk
  <2>1. Len(saved) = 0 /\ setting.expected \in Nat
    BY LoopAssumption DEF LoopInit, Settings, AnyCount
  <2> QED
    BY <2>1 DEF LoopInit, CountOk, CanaryPlaces, AnyCount
<1>5. DeafnessIsSeen
  BY LoopAssumption DEF LoopInit, DeafnessIsSeen
<1>6. LoopFollows
  <2>1. FollowsBook
    BY <1>1 DEF LoopInit, FollowsBook
  <2> QED
    BY <2>1 DEF LoopInit, LoopFollows, Following, OpenPlaces
<1> QED
  BY <1>2, <1>3, <1>4, <1>5, <1>6 DEF LoopInv, LoopBasics

\* A key: Kindle owes a turn more, or it was deaf once more, which is seen.
LEMMA PressKeeps ==
    ASSUME LoopBasics, NEW direction \in {1, -1}, Press(direction)
    PROVE  /\ owed' \in Seq({1, -1}) /\ deafness' \in Nat /\ DeafnessIsSeen'
           /\ trouble' = {} => trouble = {}
           /\ \/ owed' = Append(owed, direction)
              \/ owed' = owed /\ deafness' = deafness + 1
<1>1. owed \in Seq({1, -1}) /\ deafness \in Nat /\ RetryCount \in Nat
  BY LoopAssumption DEF LoopBasics, LoopTyped
<1>2. CASE owed' = Append(owed, direction) /\ deafness' = 0 /\ UNCHANGED <<trouble, slips>>
  <2>1. Append(owed, direction) \in Seq({1, -1})
    BY <1>1, AppendProperties
  <2> QED
    BY <1>1, <1>2, <2>1 DEF DeafnessIsSeen
<1>3. CASE /\ deafness' = deafness + 1 /\ UNCHANGED owed
           /\ trouble' = IF deafness' > RetryCount THEN trouble \cup {"deaf"} ELSE trouble
  BY <1>1, <1>3 DEF DeafnessIsSeen
<1> QED
  BY <1>2, <1>3 DEF Press

\* A screen that did not change keeps the count of ignored keys true.
LEMMA UnchangedKeeps ==
    ASSUME LoopBasics, Unchanged, UNCHANGED deafness
    PROVE  DeafnessIsSeen' /\ (trouble' = {} => trouble = {} /\ owed = <<>>)
BY DEF Unchanged, LoopBasics, DeafnessIsSeen

\* The selected key and the other one are the two arrows.
LEMMA SelectedKey ==
    /\ Selected \in {1, -1} /\ Other \in {1, -1}
    /\ setting.rightKey => Selected = 1 /\ Other = -1
    /\ ~setting.rightKey => Selected = -1
BY DEF Selected, Other

\* A turn stays in the book.
LEMMA TurnedInBook ==
    ASSUME LoopTyped, NEW screen \in 1 .. Len(book), NEW direction \in {1, -1}
    PROVE  Turned(screen, direction) \in 1 .. Len(book)
<1>1. Len(book) \in Nat
  BY LenProperties DEF LoopTyped
<1> QED
  BY <1>1 DEF Turned

\* A turn that Kindle shows keeps the basic part of the invariant.
LEMMA BasicsShowTurn == ASSUME LoopBasics, ShowTurn PROVE LoopBasics'
<1>1. /\ owed # <<>> /\ shown' = Turned(shown, Head(owed)) /\ owed' = Tail(owed)
      /\ UNCHANGED <<book, setting, position, saved, cycle, tries, deafness, trouble>>
  BY DEF ShowTurn
<1>2. owed \in Seq({1, -1})
  BY DEF LoopBasics, LoopTyped
<1>3. /\ Len(owed) \in Nat /\ Len(owed) > 0 /\ Head(owed) = owed[1]
      /\ Tail(owed) \in Seq({1, -1}) /\ Len(Tail(owed)) = Len(owed) - 1
      /\ \A i \in 1 .. Len(owed) - 1 : Tail(owed)[i] = owed[i + 1]
  BY <1>1, <1>2, HeadTailProperties, LenProperties, EmptySeq
<1>4. LoopTyped'
  <2>1. Head(owed) \in {1, -1}
    BY <1>2, <1>3, ElementOfSeq
  <2>2. shown' \in 1 .. Len(book)
    BY <1>1, <2>1, TurnedInBook DEF LoopBasics, LoopTyped
  <2> QED
    BY <1>1, <1>3, <2>2 DEF LoopBasics, LoopTyped
<1>5. CanaryOk'
  <2>1. ASSUME ~setting.byHand, ~setting.rightKey
        PROVE  position \in CanaryPlaces \cup {"failed"} /\ shown' = 1 /\ \A i \in 1 .. Len(owed') : owed'[i] = -1
    <3>1. position \in CanaryPlaces \cup {"failed"} /\ shown = 1 /\ \A i \in 1 .. Len(owed) : owed[i] = -1
      BY <2>1 DEF LoopBasics, CanaryOk
    <3>2. Head(owed) = -1
      BY <1>3, <3>1
    <3>3. shown' = 1
      BY <1>1, <3>1, <3>2 DEF Turned
    <3>4. ASSUME NEW i \in 1 .. Len(owed') PROVE owed'[i] = -1
      <4>1. i \in 1 .. Len(owed) - 1 /\ i + 1 \in 1 .. Len(owed)
        BY <1>1, <1>3
      <4> QED
        BY <1>1, <1>3, <3>1, <4>1
    <3> QED
      BY <3>1, <3>3, <3>4
  <2> QED
    BY <1>1, <2>1 DEF LoopBasics, CanaryOk
<1>6. CountOk' /\ DeafnessIsSeen'
  BY <1>1 DEF LoopBasics, CountOk, DeafnessIsSeen
<1> QED
  BY <1>4, <1>5, <1>6 DEF LoopBasics

\* The first key of the canary keeps the basic part of the invariant.
LEMMA BasicsCanaryTurns == ASSUME LoopBasics, CanaryTurns PROVE LoopBasics'
<1>1. /\ position = "canary" /\ position' = "canary watch" /\ Press(Selected)
      /\ UNCHANGED <<book, setting, shown, saved, cycle, tries>>
  BY DEF CanaryTurns
<1>2. /\ owed' \in Seq({1, -1}) /\ deafness' \in Nat /\ DeafnessIsSeen'
      /\ owed' = Append(owed, Selected) \/ owed' = owed
  BY <1>1, PressKeeps, SelectedKey
<1>3. LoopTyped'
  BY <1>1, <1>2 DEF LoopBasics, LoopTyped, CanaryPlaces
<1>4. CanaryOk'
  <2>1. ASSUME ~setting.byHand, ~setting.rightKey
        PROVE  shown' = 1 /\ \A i \in 1 .. Len(owed') : owed'[i] = -1
    <3>1. shown = 1 /\ \A i \in 1 .. Len(owed) : owed[i] = -1
      BY <2>1 DEF LoopBasics, CanaryOk
    <3>2. Selected = -1
      BY <2>1, SelectedKey
    <3>3. owed \in Seq({1, -1})
      BY DEF LoopBasics, LoopTyped
    <3>4. ASSUME owed' = Append(owed, Selected), NEW i \in 1 .. Len(owed') PROVE owed'[i] = -1
      BY <3>1, <3>2, <3>3, <3>4, AppendProperties, LenProperties
    <3> QED
      BY <1>1, <1>2, <3>1, <3>4
  <2> QED
    BY <1>1, <2>1 DEF LoopBasics, CanaryOk, CanaryPlaces
<1>5. CountOk'
  BY <1>1 DEF LoopBasics, CountOk, CanaryPlaces
<1> QED
  BY <1>2, <1>3, <1>4, <1>5 DEF LoopBasics

\* A canary that passes keeps the basic part of the invariant.
LEMMA BasicsCanaryPasses == ASSUME LoopBasics, CanaryPasses PROVE LoopBasics'
<1>1. /\ position = "canary watch" /\ Image # book[1] /\ position' = "watch"
      /\ shown' = 1 /\ owed' = <<>> /\ deafness' = 0
      /\ UNCHANGED <<book, setting, saved, cycle, tries, trouble>>
  BY DEF CanaryPasses
<1>2. LoopTyped'
  <2>1. <<>> \in Seq({1, -1}) /\ Len(book) \in Nat
    BY LenProperties DEF LoopBasics, LoopTyped
  <2>2. shown' \in 1 .. Len(book')
    <3>1. 1 \in 1 .. Len(book)
      BY <2>1 DEF LoopBasics, LoopTyped
    <3> QED
      BY <1>1, <3>1
  <2>3. owed' \in Seq({1, -1}) /\ deafness' \in Nat /\ position' \in OpenPlaces
    BY <1>1, <2>1 DEF OpenPlaces
  <2> QED
    BY <1>1, <2>2, <2>3 DEF LoopBasics, LoopTyped
<1>3. setting.byHand \/ setting.rightKey
  BY <1>1 DEF LoopBasics, CanaryOk, Image
<1>4. CanaryOk'
  BY <1>1, <1>3 DEF CanaryOk, CanaryPlaces
<1>5. CountOk'
  BY <1>1 DEF LoopBasics, CountOk, CanaryPlaces
<1>6. DeafnessIsSeen'
  <2>1. RetryCount \in Nat
    BY LoopAssumption
  <2>2. deafness' = 0
    BY <1>1
  <2> QED
    BY <2>1, <2>2 DEF DeafnessIsSeen
<1> QED
  BY <1>2, <1>4, <1>5, <1>6 DEF LoopBasics

\* The loop fails: all that remains to be said is about its types.
LEMMA BasicsFailed ==
    ASSUME LoopBasics, position' = "failed", saved' = saved, shown' = shown, owed' = owed, tries' = tries,
           deafness' = deafness, DeafnessIsSeen', UNCHANGED <<book, setting>>
    PROVE  LoopBasics'
<1>1. LoopTyped'
  BY DEF LoopBasics, LoopTyped
<1>2. CanaryOk' /\ CountOk'
  BY DEF LoopBasics, CanaryOk, CountOk, CanaryPlaces
<1> QED
  BY <1>1, <1>2 DEF LoopBasics

\* The loop is beyond its canary, so its key is right or it has none.
LEMMA BeyondCanary ==
    ASSUME LoopBasics, position \in OpenPlaces, UNCHANGED setting,
           position' \notin CanaryPlaces
    PROVE  CanaryOk'
BY DEF LoopBasics, CanaryOk, OpenPlaces, CanaryPlaces

\* A key of the loop keeps the basic part of the invariant.
LEMMA BasicsPressed ==
    ASSUME LoopBasics, NEW direction \in {1, -1}, Press(direction), UNCHANGED <<book, setting, shown, saved>>, tries' \in Nat,
           \/ position \in {"turn", "recover"} /\ position' = "watch"
           \/ position = "confirm" /\ position' = "confirm watch"
    PROVE  LoopBasics'
<1>1. owed' \in Seq({1, -1}) /\ deafness' \in Nat /\ DeafnessIsSeen'
  BY PressKeeps
<1>2. LoopTyped'
  BY <1>1 DEF LoopBasics, LoopTyped, OpenPlaces
<1>3. CanaryOk'
  BY BeyondCanary DEF OpenPlaces, CanaryPlaces
<1>4. CountOk'
  BY DEF LoopBasics, CountOk, CanaryPlaces
<1> QED
  BY <1>1, <1>2, <1>3, <1>4 DEF LoopBasics

\* Saving an image keeps the basic part of the invariant.
LEMMA BasicsSave == ASSUME LoopBasics, Save PROVE LoopBasics'
<1>1. /\ position = "watch" /\ saved' = Append(saved, Image) /\ tries' = 0
      /\ position' = IF setting.expected # AnyCount /\ Page >= setting.expected THEN "confirm" ELSE "turn"
      /\ UNCHANGED <<book, setting, shown, owed, deafness, trouble>>
  BY DEF Save
<1>2. saved \in Seq(Looks) /\ Len(saved) \in Nat /\ setting.expected \in Nat /\ MaxScreens \in Nat
  BY LenProperties, LoopAssumption DEF LoopBasics, LoopTyped, Settings, AnyCount
<1>3. Image \in Looks
  BY ElementOfSeq DEF LoopBasics, LoopTyped, Image
<1>4. saved' \in Seq(Looks) /\ Len(saved') = Len(saved) + 1
  BY <1>1, <1>2, <1>3, AppendProperties
<1>5. position' \in {"confirm", "turn"}
  BY <1>1
<1>6. LoopTyped'
  BY <1>1, <1>4, <1>5 DEF LoopBasics, LoopTyped, OpenPlaces
<1>7. CanaryOk'
  BY <1>1, <1>5, BeyondCanary DEF OpenPlaces, CanaryPlaces
<1>8. CountOk'
  <2> SUFFICES ASSUME setting.expected # AnyCount
               PROVE  /\ position' = "turn" => Len(saved') < setting.expected
                      /\ position' = "confirm" => Len(saved') = setting.expected
    BY <1>1, <1>5 DEF CountOk, CanaryPlaces
  <2>1. Len(saved) < setting.expected
    BY <1>1 DEF LoopBasics, CountOk
  <2> QED
    BY <1>1, <1>2, <1>4, <2>1 DEF Page
<1> QED
  BY <1>1, <1>6, <1>7, <1>8 DEF LoopBasics, DeafnessIsSeen

\* A cycle is too early for an expected number of screens.
LEMMA BasicsCycleEnds == ASSUME LoopBasics, CycleEnds PROVE LoopBasics'
<1>1. /\ position = "watch" /\ UNCHANGED <<book, setting, shown, owed, cycle, tries, deafness, trouble>>
      /\ \/ /\ Page - 2 >= MinCycleScreens /\ ~TooEarly(Page - 2)
            /\ position' = "done" /\ saved' = SubSeq(saved, 1, Page - 2)
         \/ position' = "failed" /\ saved' = saved
  BY DEF CycleEnds, Ends
<1>2. DeafnessIsSeen'
  BY <1>1 DEF LoopBasics, DeafnessIsSeen
<1>3. saved \in Seq(Looks) /\ Len(saved) \in Nat /\ setting.expected \in Nat /\ MinCycleScreens \in Nat
  BY LenProperties, LoopAssumption DEF LoopBasics, LoopTyped, Settings, AnyCount
<1>4. CASE position' = "done"
  <2>1. Page - 2 >= MinCycleScreens /\ ~TooEarly(Page - 2) /\ saved' = SubSeq(saved, 1, Page - 2)
    BY <1>1, <1>4
  <2>2. setting.expected = AnyCount
    BY <1>1, <1>3, <2>1 DEF TooEarly, Page, LoopBasics, CountOk
  <2>3. saved' \in Seq(Looks)
    BY <1>3, <2>1, SubSeqProperties DEF Page
  <2>4. LoopTyped'
    BY <1>1, <1>4, <2>3 DEF LoopBasics, LoopTyped
  <2>5. CanaryOk'
    BY <1>1, <1>4, BeyondCanary DEF OpenPlaces, CanaryPlaces
  <2> QED
    BY <1>1, <1>2, <2>2, <2>4, <2>5 DEF LoopBasics, CountOk
<1> QED
  BY <1>1, <1>2, <1>4, BasicsFailed

\* A screen that stays keeps the basic part of the invariant.
LEMMA BasicsNotChanged == ASSUME LoopBasics, NotChanged PROVE LoopBasics'
<1>1. /\ position = "watch" /\ Unchanged /\ UNCHANGED <<book, setting, shown, owed, saved, cycle, tries, deafness>>
      /\ \/ position' = "recover"
         \/ position' = "done" /\ ~TooEarly(Len(saved))
         \/ position' = "failed"
  BY DEF NotChanged
<1>2. DeafnessIsSeen'
  BY <1>1, UnchangedKeeps
<1>3. CASE position' \in {"recover", "done"}
  <2>1. LoopTyped'
    BY <1>1, <1>3 DEF LoopBasics, LoopTyped, OpenPlaces
  <2>2. CanaryOk'
    BY <1>1, <1>3, BeyondCanary DEF OpenPlaces, CanaryPlaces
  <2>3. CountOk'
    <3>1. Len(saved) \in Nat /\ setting.expected \in Nat
      BY LenProperties, LoopAssumption DEF LoopBasics, LoopTyped, Settings, AnyCount
    <3> QED
      BY <1>1, <1>3, <3>1 DEF LoopBasics, CountOk, TooEarly, CanaryPlaces
  <2> QED
    BY <1>2, <2>1, <2>2, <2>3 DEF LoopBasics
<1> QED
  BY <1>1, <1>2, <1>3, BasicsFailed

\* A screen that stays when the end is confirmed keeps the basic part.
LEMMA BasicsConfirmed == ASSUME LoopBasics, Confirmed PROVE LoopBasics'
<1>1. /\ position = "confirm watch" /\ Unchanged /\ UNCHANGED <<book, setting, shown, owed, saved, cycle, deafness>>
      /\ position' \in {"confirm", "done"} /\ (tries' = tries + 1 \/ tries' = tries)
  BY DEF Confirmed
<1>2. DeafnessIsSeen'
  BY <1>1, UnchangedKeeps
<1>3. LoopTyped'
  <2>1. tries \in Nat
    BY DEF LoopBasics, LoopTyped
  <2>2. tries' \in Nat
    <3>1. tries' = tries + 1 \/ tries' = tries
      BY <1>1
    <3> QED
      BY <2>1, <3>1
  <2> QED
    BY <1>1, <2>2 DEF LoopBasics, LoopTyped, OpenPlaces
<1>4. CanaryOk'
  BY <1>1, BeyondCanary DEF OpenPlaces, CanaryPlaces
<1>5. CountOk'
  BY <1>1 DEF LoopBasics, CountOk, CanaryPlaces
<1> QED
  BY <1>2, <1>3, <1>4, <1>5 DEF LoopBasics

\* Every step of the loop keeps the basic part of the invariant.
LEMMA LoopBasicsStep == ASSUME LoopBasics, [LoopNext]_loopVars PROVE LoopBasics'
<1>1. CASE UNCHANGED loopVars
  BY <1>1 DEF loopVars, LoopBasics, LoopTyped, CanaryOk, CountOk, DeafnessIsSeen
<1>2. ASSUME TurnPage PROVE LoopBasics'
  <2>1. /\ position = "turn" /\ position' = "watch" /\ Press(Selected)
        /\ UNCHANGED <<book, setting, shown, saved>> /\ tries' \in Nat
    BY <1>2 DEF TurnPage, LoopBasics, LoopTyped
  <2> QED
    BY <2>1, SelectedKey, BasicsPressed
<1>3. ASSUME Recover PROVE LoopBasics'
  <2>1. /\ position = "recover" /\ position' = "watch" /\ UNCHANGED <<book, setting, shown, saved>> /\ tries' \in Nat
        /\ Press(IF tries < RetryCount THEN Selected ELSE Other)
    BY <1>3 DEF Recover, LoopBasics, LoopTyped
  <2>2. (IF tries < RetryCount THEN Selected ELSE Other) \in {1, -1}
    BY SelectedKey
  <2> QED
    BY <2>1, <2>2, BasicsPressed
<1>4. ASSUME ConfirmTurns PROVE LoopBasics'
  <2>1. /\ position = "confirm" /\ position' = "confirm watch" /\ Press(Selected)
        /\ UNCHANGED <<book, setting, shown, saved>> /\ tries' \in Nat
    BY <1>4 DEF ConfirmTurns, LoopBasics, LoopTyped
  <2> QED
    BY <2>1, SelectedKey, BasicsPressed
<1>5. ASSUME CanaryFails PROVE LoopBasics'
  BY <1>5, UnchangedKeeps, BasicsFailed DEF CanaryFails
<1>6. ASSUME MoreFollows \/ Raises PROVE LoopBasics'
  <2>1. /\ position' = "failed" /\ UNCHANGED <<book, setting, shown, owed, cycle, tries, deafness, trouble, saved>>
    BY <1>6 DEF MoreFollows, Raises, Ends
  <2>2. DeafnessIsSeen'
    BY <2>1 DEF LoopBasics, DeafnessIsSeen
  <2> QED
    BY <2>1, <2>2, BasicsFailed
<1> QED
  BY <1>1, <1>2, <1>3, <1>4, <1>5, <1>6, BasicsShowTurn, BasicsCanaryTurns, BasicsCanaryPasses, BasicsSave,
     BasicsCycleEnds, BasicsNotChanged, BasicsConfirmed DEF LoopNext, LoopStep

\* The screens that the loop compares differ, so it stays where it is only at
\* the end of the book, and then it has all of it.
LEMMA ScreensDiffer ==
    ASSUME LoopTyped, Distinguishable, FollowsBook \/ WentBack, saved # <<>>
    PROVE  /\ Latest1 \in 1 .. Len(book) /\ book[Latest1] = saved[Len(saved)]
           /\ ~AtTheEnd => book[Turned(Latest1, 1)] # saved[Len(saved)]
           /\ AtTheEnd => saved = book
<1> DEFINE k == Len(saved)
           n == Len(book)
<1>1. /\ k \in Nat /\ k > 0 /\ n \in Nat /\ n > 0
      /\ saved \in Seq(Looks) /\ book \in Seq(Looks)
  BY LenProperties, EmptySeq DEF LoopTyped
<1>2. \A i \in 1 .. n - 1 : book[i] # book[i + 1]
  BY DEF Distinguishable
<1>3. CASE FollowsBook
  <2>1. k <= n /\ k \in 1 .. n /\ Latest1 = k /\ book[k] = saved[k]
    BY <1>1, <1>3 DEF FollowsBook, Latest1
  <2>2. CASE k < n
    <3>1. Turned(k, 1) = k + 1 /\ k \in 1 .. n - 1
      BY <1>1, <2>2 DEF Turned
    <3> QED
      BY <1>1, <1>2, <2>1, <3>1 DEF AtTheEnd
  <2>3. CASE k = n
    <3>1. Turned(k, 1) = IF setting.circles /\ k > 1 THEN k - 1 ELSE k
      BY <1>1, <2>3 DEF Turned
    <3>2. saved = book
      BY <1>1, <1>3, <2>3, SeqEqual DEF FollowsBook
    <3>3. CASE setting.circles /\ k > 1
      <4>1. k - 1 \in 1 .. n - 1 /\ (k - 1) + 1 = k
        BY <1>1, <2>3, <3>3
      <4>2. book[k - 1] # book[k]
        BY <1>2, <4>1
      <4> QED
        BY <1>1, <2>1, <3>1, <3>3, <4>2 DEF AtTheEnd
    <3>4. CASE ~(setting.circles /\ k > 1)
      BY <2>1, <3>1, <3>2, <3>4 DEF AtTheEnd
    <3> QED
      BY <3>3, <3>4
  <2> QED
    BY <1>1, <2>1, <2>2, <2>3
<1>4. CASE WentBack
  <2>1. n >= 2 /\ k = n + 1 /\ saved[k] = book[n - 1] /\ Latest1 = n - 1
    BY <1>1, <1>4 DEF WentBack, Latest1
  <2>2. Turned(n - 1, 1) = n
    BY <1>1, <2>1 DEF Turned
  <2>3. book[n - 1] # book[n]
    <3>1. n - 1 \in 1 .. n - 1 /\ (n - 1) + 1 = n
      BY <1>1, <2>1
    <3> QED
      BY <1>2, <3>1
  <2>4. n - 1 \in 1 .. n /\ n # n - 1
    BY <1>1, <2>1
  <2> QED
    BY <2>1, <2>2, <2>3, <2>4 DEF AtTheEnd
<1> QED
  BY <1>3, <1>4

\* While the loop watches: the same image with nothing owed means that it is
\* where it was, and another image is that of the next screen.
LEMMA WatchSees ==
    ASSUME LoopTyped, Distinguishable, FollowsBook \/ WentBack, saved # <<>>, AfterKey
    PROVE  /\ ~Changed /\ owed = <<>> => BeforeKey(tries + 1)
           /\ Changed => shown = Turned(Latest1, 1) /\ owed = <<>> /\ ~AtTheEnd
<1>1. Changed <=> book[shown] # saved[Len(saved)]
  BY DEF Changed, Image
<1>2. <<1>> # <<>> /\ <<-1>> # <<>>
  OBVIOUS
<1> QED
  BY <1>1, <1>2, ScreensDiffer DEF AfterKey, BeforeKey, AtTheEnd

\* A loop that nothing disturbed hears no more than RetryCount keys ignored.
LEMMA NotDeaf ==
    ASSUME LoopBasics, trouble = {}, NEW ignored \in Nat, ignored > RetryCount, BeforeKey(ignored) PROVE AtTheEnd
<1>1. deafness \in Nat /\ RetryCount \in Nat /\ ~(deafness > RetryCount)
  BY LoopAssumption DEF LoopBasics, LoopTyped, DeafnessIsSeen
<1> QED
  BY <1>1 DEF BeforeKey

\* After a turn that Kindle shows, the images still follow the book.
LEMMA FollowsShowTurn == ASSUME LoopInv, ShowTurn PROVE LoopFollows'
<1>1. /\ owed # <<>> /\ shown' = Turned(shown, Head(owed)) /\ owed' = Tail(owed)
      /\ UNCHANGED <<book, setting, position, saved, cycle, tries, deafness, trouble>>
  BY DEF ShowTurn
<1>2. CASE Clean /\ position \in OpenPlaces
  <2>1. Following
    BY <1>2 DEF LoopInv, LoopFollows
  <2>2. saved # <<>> /\ AfterKey /\ position \in {"watch", "confirm watch"}
    BY <1>1, <1>2, <2>1 DEF Following, BeforeKey, OpenPlaces
  <2>3. AfterKey'
    <3>1. CASE shown = Latest1 /\ owed = <<1>>
      <4>1. Head(owed) = 1 /\ Tail(owed) = <<>>
        BY <3>1
      <4> QED
        BY <1>1, <3>1, <4>1 DEF AfterKey, Latest1, Turned
    <3>2. CASE shown = Latest1 /\ owed = <<-1>> /\ Latest1 = 1 /\ AtTheEnd
      <4>1. Head(owed) = -1 /\ Tail(owed) = <<>>
        BY <3>2
      <4>2. shown' = 1 /\ owed' = <<>>
        BY <1>1, <3>2, <4>1 DEF Turned
      <4>3. Latest1' = 1 /\ AtTheEnd'
        BY <1>1, <3>2 DEF Latest1, AtTheEnd, Turned
      <4> QED
        BY <4>2, <4>3 DEF AfterKey, BeforeKey
    <3> QED
      BY <1>1, <2>2, <3>1, <3>2 DEF AfterKey, BeforeKey
  <2>4. FollowsBook' \/ WentBack'
    BY <1>1, <2>1 DEF Following, FollowsBook, WentBack
  <2>5. Following'
    BY <1>1, <2>2, <2>3, <2>4 DEF Following
  <2> QED
    BY <1>1, <1>2, <2>5 DEF LoopFollows, OpenPlaces
<1>3. CASE ~(Clean /\ position \in OpenPlaces)
  <2>1. Clean' <=> Clean
    BY <1>1 DEF Clean, Distinguishable
  <2> QED
    BY <1>1, <1>3, <2>1 DEF LoopInv, LoopFollows
<1> QED
  BY <1>2, <1>3

\* What a step without trouble starts from.
LEMMA WasClean ==
    ASSUME LoopInv, position \in OpenPlaces, UNCHANGED <<book, setting>>, trouble' = {} => trouble = {}, Clean'
    PROVE  Clean /\ Following /\ LoopTyped
<1>1. Clean
  BY DEF Clean, Distinguishable
<1> QED
  BY <1>1 DEF LoopInv, LoopFollows, LoopBasics

\* One key owed after none.
LEMMA OneKey == \A direction \in {1, -1} : Append(<<>>, direction) = <<direction>>
OBVIOUS

\* Adding one keeps an order.
LEMMA OneMoreIsMore == \A n, m \in Nat : n >= m => n + 1 >= m + 1
OBVIOUS

\* A key of the loop leaves it where a key may leave it.
LEMMA PressFollows ==
    ASSUME LoopTyped, Following, saved # <<>>, NEW ignored \in Nat, tries' = ignored, BeforeKey(ignored),
           NEW direction \in {1, -1}, direction = -1 => Latest1 = 1 /\ AtTheEnd, Press(direction),
           position' \in {"watch", "confirm watch"}, UNCHANGED <<book, setting, shown, saved, cycle>>
    PROVE  Following'
<1>1. deafness \in Nat
  BY DEF LoopTyped
<1>2. Latest1' = Latest1 /\ (AtTheEnd' <=> AtTheEnd)
  BY DEF Latest1, AtTheEnd, Turned
<1>3. shown' = Latest1 /\ owed = <<>> /\ (AtTheEnd \/ deafness >= ignored)
  BY DEF BeforeKey
<1>4. AfterKey'
  <2>1. CASE owed' = Append(owed, direction)
    <3>1. owed' = <<direction>>
      BY <1>3, <2>1, OneKey
    <3> QED
      BY <1>2, <1>3, <3>1 DEF AfterKey
  <2>2. CASE owed' = owed /\ deafness' = deafness + 1
    <3>1. deafness' = deafness + 1
      BY <2>2
    <3>2. deafness >= ignored => deafness' >= ignored + 1
      BY <1>1, <3>1, OneMoreIsMore
    <3> QED
      BY <1>2, <1>3, <2>2, <3>2 DEF AfterKey, BeforeKey
  <2> QED
    BY <2>1, <2>2 DEF Press
<1>5. FollowsBook' \/ WentBack'
  BY DEF Following, FollowsBook, WentBack
<1> QED
  BY <1>4, <1>5 DEF Following

\* A key of the loop leaves the images following the book.
LEMMA FollowsTurns == ASSUME LoopInv, TurnPage \/ ConfirmTurns PROVE LoopFollows'
<1>1. /\ position \in {"turn", "confirm"} /\ position' \in {"watch", "confirm watch"}
      /\ Press(Selected) /\ UNCHANGED <<book, setting, shown, saved, cycle, tries>>
  BY DEF TurnPage, ConfirmTurns
<1>2. SUFFICES ASSUME Clean' PROVE Following'
  BY <1>1 DEF LoopFollows
<1>3. trouble' = {} => trouble = {}
  BY <1>1, SelectedKey, PressKeeps DEF LoopInv
<1>4. Clean /\ Following /\ LoopTyped
  BY <1>1, <1>2, <1>3, WasClean DEF OpenPlaces
<1>5. saved # <<>> /\ BeforeKey(tries') /\ tries' \in Nat
  BY <1>1, <1>4 DEF Following, LoopTyped
<1>6. Selected = 1
  BY <1>4, SelectedKey DEF Clean
<1>7. 1 # -1
  OBVIOUS
<1> QED
  BY <1>1, <1>4, <1>5, <1>6, <1>7, PressFollows

\* One is before two.
LEMMA OneBeforeTwo == \A n \in Nat : n + 1 = 2 => n = 1
OBVIOUS

\* At the second page, the first screen was saved last.
LEMMA SecondPage == ASSUME LoopTyped, Page = 2 PROVE Latest1 = 1
<1>1. Len(saved) \in Nat /\ Len(book) \in Nat /\ Len(book) > 0
  BY LenProperties DEF LoopTyped
<1>2. Len(saved) + 1 = 2
  BY DEF Page
<1>3. Len(saved) = 1
  BY <1>1, <1>2, OneBeforeTwo
<1> QED
  BY <1>1, <1>3 DEF Latest1

\* The other key is tried on the first screen only, when RetryCount + 1 keys
\* turned nothing: then the book has one screen.
LEMMA FollowsRecover == ASSUME LoopInv, Recover PROVE LoopFollows'
<1> DEFINE key == IF tries < RetryCount THEN Selected ELSE Other
<1>1. /\ position = "recover" /\ position' = "watch" /\ tries' = tries + 1 /\ Press(key)
      /\ UNCHANGED <<book, setting, shown, saved, cycle>>
  BY DEF Recover
<1>2. SUFFICES ASSUME Clean' PROVE Following'
  BY <1>1 DEF LoopFollows
<1>3. key \in {1, -1}
  BY SelectedKey
<1>4. trouble' = {} => trouble = {}
  BY <1>1, <1>3, PressKeeps DEF LoopInv
<1>5. Clean /\ Following /\ LoopTyped
  BY <1>1, <1>2, <1>4, WasClean DEF OpenPlaces
<1>6. tries \in Nat /\ tries' \in Nat /\ tries' = tries + 1
  BY <1>1, <1>5 DEF LoopTyped
<1>7. saved # <<>> /\ BeforeKey(tries') /\ tries < Recoveries
  BY <1>1, <1>5, <1>6 DEF Following
<1>8. key = -1 => Latest1 = 1 /\ AtTheEnd
  <2> SUFFICES ASSUME key = -1 PROVE Latest1 = 1 /\ AtTheEnd
    OBVIOUS
  <2>1. ~(tries < RetryCount)
    BY <1>5, SelectedKey DEF Clean
  <2>2. RetryCount \in Nat
    BY LoopAssumption
  <2>3. Page = 2
    BY <1>6, <1>7, <2>1, <2>2 DEF Recoveries
  <2>5. Latest1 = 1
    BY <1>5, <2>3, SecondPage
  <2>6. tries' > RetryCount
    BY <1>6, <2>1, <2>2
  <2>7. AtTheEnd
    BY <1>5, <1>6, <1>7, <2>6, NotDeaf DEF LoopInv, Clean
  <2> QED
    BY <2>5, <2>7
<1> HIDE DEF key
<1> QED
  BY <1>1, <1>3, <1>5, <1>6, <1>7, <1>8, PressFollows

\* After another image: the saved screens are followed by the one in the
\* window, in a book that is not over or by Kindle's way back.
LEMMA SaveNext ==
    ASSUME LoopTyped, Distinguishable, FollowsBook \/ WentBack, saved # <<>>, Cycles < 2,
           shown = Turned(Latest1, 1), ~AtTheEnd,
           saved' = Append(saved, Image), cycle' = Cycles, UNCHANGED <<book, setting>>
    PROVE  (FollowsBook' \/ WentBack') /\ Latest1' = shown
<1> DEFINE k == Len(saved)
           n == Len(book)
<1>1. /\ k \in Nat /\ k > 0 /\ n \in Nat /\ n > 0
      /\ saved \in Seq(Looks) /\ book \in Seq(Looks) /\ shown \in 1 .. n
  BY LenProperties, EmptySeq DEF LoopTyped
<1>2. Image \in Looks /\ Image = book[shown]
  BY <1>1, ElementOfSeq DEF Image
<1>3. Len(saved') = k + 1 /\ (\A i \in 1 .. k : saved'[i] = saved[i]) /\ saved'[k + 1] = book[shown]
  BY <1>1, <1>2, AppendProperties
<1>4. CASE FollowsBook
  <2>1. k <= n /\ k \in 1 .. n /\ Latest1 = k /\ \A i \in 1 .. k : saved[i] = book[i]
    BY <1>1, <1>4 DEF FollowsBook, Latest1
  <2>2. shown = Turned(k, 1) /\ shown # k
    BY <2>1 DEF AtTheEnd
  <2>3. Cycles = IF k > 1 /\ book[shown] = book[k - 1] THEN cycle + 1 ELSE 0
    <3>1. k > 1 => k - 1 \in 1 .. k
      BY <1>1
    <3>2. k > 1 => saved[k - 1] = book[k - 1]
      BY <2>1, <3>1
    <3> QED
      BY <1>2, <3>2 DEF Cycles
  <2>4. CASE k < n
    <3>1. shown = k + 1
      BY <1>1, <2>2, <2>4 DEF Turned
    <3>2. Len(saved') <= Len(book')
      BY <1>1, <1>3, <2>4
    <3>3. ASSUME NEW i \in 1 .. Len(saved') PROVE saved'[i] = book'[i]
      <4>1. i \in 1 .. k \/ i = k + 1
        BY <1>1, <1>3
      <4> QED
        BY <1>3, <2>1, <3>1, <4>1
    <3>4. cycle' = 0 \/ (cycle' = 1 /\ Len(saved') >= 3 /\ book'[Len(saved')] = book'[Len(saved') - 2])
      <4>1. CASE k > 1 /\ book[shown] = book[k - 1]
        <5>1. cycle = 0 \/ cycle = 1
          BY <1>4 DEF FollowsBook
        <5>2. cycle' = cycle + 1 /\ cycle' < 2
          BY <2>3, <4>1
        <5>3. cycle' = 1
          BY <5>1, <5>2
        <5>4. Len(saved') = k + 1 /\ Len(saved') >= 3 /\ Len(saved') - 2 = k - 1
          BY <1>1, <1>3, <4>1
        <5> QED
          BY <3>1, <4>1, <5>3, <5>4
      <4>2. CASE ~(k > 1 /\ book[shown] = book[k - 1])
        BY <2>3, <4>2
      <4> QED
        BY <4>1, <4>2
    <3>5. FollowsBook'
      BY <3>2, <3>3, <3>4 DEF FollowsBook
    <3>6. Latest1' = shown
      BY <1>1, <1>3, <2>4, <3>1 DEF Latest1
    <3> QED
      BY <3>5, <3>6
  <2>5. CASE k = n
    <3>1. setting.circles /\ n > 1 /\ shown = n - 1
      BY <1>1, <2>2, <2>5 DEF Turned
    <3>2. cycle' = 1
      <4>1. cycle = 0 \/ cycle = 1
        BY <1>4 DEF FollowsBook
      <4>2. cycle' = cycle + 1 /\ cycle' < 2
        BY <2>3, <2>5, <3>1
      <4> QED
        BY <4>1, <4>2
    <3>3. WentBack'
      <4>1. n >= 2 /\ Len(saved') = n + 1
        BY <1>1, <1>3, <2>5, <3>1
      <4>2. \A i \in 1 .. n : saved'[i] = book[i]
        BY <1>3, <2>1, <2>5
      <4>3. saved'[n + 1] = book[n - 1]
        BY <1>3, <2>5, <3>1
      <4> QED
        BY <3>1, <3>2, <4>1, <4>2, <4>3 DEF WentBack
    <3>4. Latest1' = shown
      <4>1. Len(saved') = n + 1 /\ ~(n + 1 <= n)
        BY <1>1, <1>3, <2>5
      <4> QED
        BY <3>1, <4>1 DEF Latest1
    <3> QED
      BY <3>3, <3>4
  <2> QED
    BY <1>1, <2>1, <2>4, <2>5
<1>5. CASE WentBack
  <2>1. n >= 2 /\ k = n + 1 /\ saved[k - 1] = book[n] /\ Latest1 = n - 1 /\ cycle = 1
    <3>1. n >= 2 /\ k = n + 1 /\ cycle = 1 /\ \A i \in 1 .. n : saved[i] = book[i]
      BY <1>1, <1>5 DEF WentBack
    <3>2. k - 1 = n /\ n \in 1 .. n
      BY <1>1, <3>1
    <3>3. Latest1 = n - 1
      BY <1>1, <3>1 DEF Latest1
    <3> QED
      BY <3>1, <3>2, <3>3
  <2>2. shown = n
    BY <1>1, <2>1 DEF Turned
  <2>3. k > 1 /\ Image = saved[k - 1]
    BY <1>1, <1>2, <2>1, <2>2
  <2>4. Cycles = 2
    BY <2>1, <2>3 DEF Cycles
  <2> QED
    BY <2>4
<1> QED
  BY <1>4, <1>5

\* The first image saved is the first screen.
LEMMA SaveFirst ==
    ASSUME LoopTyped, saved = <<>>, shown = 1, saved' = Append(saved, Image), cycle' = Cycles,
           UNCHANGED <<book, setting>>
    PROVE  FollowsBook' /\ Latest1' = 1
<1>1. Len(book) \in Nat /\ Len(book) > 0 /\ book \in Seq(Looks) /\ Len(saved) = 0
  BY LenProperties DEF LoopTyped
<1>2. Image = book[1] /\ Image \in Looks
  <2>1. 1 \in 1 .. Len(book)
    BY <1>1
  <2> QED
    BY <1>1, <2>1, ElementOfSeq DEF Image
<1>3. saved' = <<book[1]>>
  BY <1>2
<1>4. Len(saved') = 1 /\ saved'[1] = book[1]
  BY <1>3
<1>5. cycle' = 0
  BY <1>1 DEF Cycles
<1>6. FollowsBook'
  BY <1>1, <1>4, <1>5 DEF FollowsBook
<1>7. Latest1' = 1
  BY <1>1, <1>4 DEF Latest1
<1> QED
  BY <1>6, <1>7

\* Saving an image leaves the images following the book.
LEMMA FollowsSave == ASSUME LoopInv, Save PROVE LoopFollows'
<1>1. /\ position = "watch" /\ Changed /\ Cycles < 2 /\ saved' = Append(saved, Image) /\ cycle' = Cycles
      /\ tries' = 0 /\ position' \in {"confirm", "turn"}
      /\ UNCHANGED <<book, setting, shown, owed, deafness, trouble>>
  BY DEF Save
<1>2. SUFFICES ASSUME Clean' PROVE Following'
  BY <1>1 DEF LoopFollows
<1>3. Clean /\ Following /\ LoopTyped
  BY <1>1, <1>2, WasClean DEF OpenPlaces
<1>4. (FollowsBook' \/ WentBack') /\ Latest1' = shown /\ owed = <<>>
  <2>1. CASE saved = <<>>
    BY <1>1, <1>3, <2>1, SaveFirst DEF Following
  <2>2. CASE saved # <<>>
    <3>1. AfterKey /\ (FollowsBook \/ WentBack) /\ Distinguishable
      BY <1>1, <1>3, <2>2 DEF Following, Clean
    <3>2. shown = Turned(Latest1, 1) /\ owed = <<>> /\ ~AtTheEnd
      BY <1>1, <1>3, <2>2, <3>1, WatchSees
    <3> QED
      BY <1>1, <1>3, <2>2, <3>1, <3>2, SaveNext
  <2> QED
    BY <2>1, <2>2
<1>5. saved' # <<>>
  <2>1. saved \in Seq(Looks) /\ Image \in Looks
    BY <1>3, ElementOfSeq DEF LoopTyped, Image
  <2> QED
    BY <1>1, <2>1, AppendProperties
<1>6. deafness >= 0
  BY <1>3 DEF LoopTyped
<1>7. BeforeKey(tries)'
  BY <1>1, <1>4, <1>6 DEF BeforeKey
<1> QED
  BY <1>1, <1>4, <1>5, <1>7 DEF Following

\* A cycle ends the book only when Kindle went back: in a book that it can
\* tell apart, two screens do not come again.
LEMMA CycleIsTheWayBack ==
    ASSUME LoopTyped, Distinguishable, FollowsBook, saved # <<>>, shown = Turned(Latest1, 1), ~AtTheEnd
    PROVE  Cycles < 2
<1> DEFINE k == Len(saved)
           n == Len(book)
<1>1. /\ k \in Nat /\ k > 0 /\ n \in Nat /\ n > 0
  BY LenProperties, EmptySeq DEF LoopTyped
<1>2. k <= n /\ Latest1 = k /\ \A i \in 1 .. k : saved[i] = book[i]
  BY <1>1 DEF FollowsBook, Latest1
<1>3. shown = Turned(k, 1) /\ shown # k
  BY <1>2 DEF AtTheEnd
<1>4. CASE cycle = 0
  BY <1>4 DEF Cycles
<1>5. CASE cycle = 1 /\ k >= 3 /\ book[k] = book[k - 2]
  <2>1. CASE k < n
    <3>1. shown = k + 1
      BY <1>1, <1>3, <2>1 DEF Turned
    <3>2. /\ k - 2 \in 1 .. n - 3 /\ (k - 2) + 1 = k - 1 /\ (k - 2) + 2 = k /\ (k - 2) + 3 = k + 1
      BY <1>1, <1>5, <2>1
    <3>3. <<book[k - 2], book[k - 1]>> # <<book[k], book[k + 1]>>
      BY <3>2 DEF Distinguishable
    <3>4. book[k - 1] # book[k + 1]
      BY <1>5, <3>3
    <3>5. k - 1 \in 1 .. k
      BY <1>1, <1>5
    <3>6. Image # saved[k - 1]
      BY <1>2, <3>1, <3>4, <3>5 DEF Image
    <3> QED
      BY <3>6 DEF Cycles
  <2>2. CASE k = n
    <3>1. setting.circles
      BY <1>1, <1>3, <2>2 DEF Turned
    <3>2. k \in {n} \ {1, 2}
      BY <1>5, <2>2
    <3>3. book[k] # book[k - 2]
      BY <3>1, <3>2 DEF Distinguishable
    <3> QED
      BY <1>5, <3>3
  <2> QED
    BY <1>1, <1>2, <2>1, <2>2
<1> QED
  BY <1>4, <1>5 DEF FollowsBook

\* Cutting off the way back leaves the book.
LEMMA WayBackIsCut ==
    ASSUME LoopTyped, WentBack, saved' = SubSeq(saved, 1, Page - 2) PROVE saved' = book
<1>1. Len(saved) \in Nat /\ Len(book) \in Nat /\ saved \in Seq(Looks) /\ book \in Seq(Looks)
  BY LenProperties DEF LoopTyped
<1>2. Len(saved) = Len(book) + 1 /\ \A i \in 1 .. Len(book) : saved[i] = book[i]
  BY DEF WentBack
<1>3. Page - 2 = Len(book)
  BY <1>1, <1>2 DEF Page
<1>4. saved' = SubSeq(saved, 1, Len(book))
  BY <1>3
<1>5. /\ saved' \in Seq(Looks) /\ Len(saved') = Len(book)
      /\ \A i \in 1 .. Len(book) : saved'[i] = saved[i]
  <2> DEFINE n == Len(book)
  <2>1. n \in Int /\ 1 \in Int /\ \A i \in 1 .. n : saved[i] \in Looks
    <3>1. \A i \in 1 .. n : i \in 1 .. Len(saved)
      BY <1>1, <1>2
    <3> QED
      BY <1>1, <3>1, ElementOfSeq
  <2>2. /\ SubSeq(saved, 1, n) \in Seq(Looks)
        /\ Len(SubSeq(saved, 1, n)) = IF 1 <= n THEN n - 1 + 1 ELSE 0
        /\ \A i \in 1 .. n - 1 + 1 : SubSeq(saved, 1, n)[i] = saved[1 + i - 1]
    BY <2>1, SubSeqProperties
  <2>3. n - 1 + 1 = n /\ (~(1 <= n) => n = 0) /\ \A i \in 1 .. n : 1 + i - 1 = i
    BY <1>1
  <2> QED
    BY <1>4, <2>2, <2>3
<1> QED
  BY <1>1, <1>2, <1>5, SeqEqual

\* A capture that ends at a cycle saved the whole book.
LEMMA FollowsCycleEnds == ASSUME LoopInv, CycleEnds PROVE LoopFollows'
<1>1. /\ position = "watch" /\ Changed /\ Cycles >= 2 /\ UNCHANGED <<book, setting, trouble>>
      /\ \/ position' = "done" /\ saved' = SubSeq(saved, 1, Page - 2)
         \/ position' = "failed"
  BY DEF CycleEnds, Ends
<1>2. SUFFICES ASSUME Clean', position' = "done" PROVE saved' = book
  BY <1>1 DEF LoopFollows, OpenPlaces
<1>3. Clean /\ Following /\ LoopTyped /\ Distinguishable
  BY <1>1, <1>2, WasClean DEF OpenPlaces, Clean
<1>4. saved # <<>>
  <2>1. CASE saved = <<>>
    <3>1. Cycles = 0
      BY <2>1 DEF Cycles
    <3> QED
      BY <1>1, <3>1
  <2> QED
    BY <2>1
<1>5. AfterKey
  BY <1>1, <1>3, <1>4 DEF Following
<1>6. shown = Turned(Latest1, 1) /\ ~AtTheEnd
  BY <1>1, <1>3, <1>4, <1>5, WatchSees DEF Following
<1>7. WentBack
  <2>1. CASE FollowsBook
    <3>1. Cycles < 2
      BY <1>3, <1>4, <1>6, <2>1, CycleIsTheWayBack
    <3>2. Cycles \in Int
      BY <2>1 DEF Cycles, FollowsBook
    <3> QED
      BY <1>1, <3>1, <3>2
  <2> QED
    BY <1>3, <2>1 DEF Following
<1> QED
  BY <1>1, <1>2, <1>3, <1>7, WayBackIsCut

\* An unchanged image that no try could turn: the end of the book.
LEMMA TriedEnough ==
    ASSUME LoopInv, Clean, Following, saved # <<>>, BeforeKey(tries + 1), tries >= RetryCount
    PROVE  saved = book
<1>1. tries \in Nat /\ RetryCount \in Nat
  BY LoopAssumption DEF LoopInv, LoopBasics, LoopTyped
<1>2. tries + 1 \in Nat /\ tries + 1 > RetryCount
  BY <1>1
<1>3. AtTheEnd
  BY <1>2, NotDeaf DEF LoopInv, Clean
<1> QED
  BY <1>3, ScreensDiffer DEF LoopInv, LoopBasics, Following, Clean

\* A screen that stays leaves the images following the book.
LEMMA FollowsNotChanged == ASSUME LoopInv, NotChanged PROVE LoopFollows'
<1>1. /\ position = "watch" /\ ~Changed /\ Unchanged
      /\ UNCHANGED <<book, setting, shown, owed, saved, cycle, tries, deafness>>
      /\ \/ tries < Recoveries /\ position' = "recover"
         \/ ~(tries < Recoveries) /\ position' \in {"failed", "done"}
  BY DEF NotChanged
<1>2. SUFFICES ASSUME Clean' PROVE (position' = "recover" => Following') /\ (position' = "done" => saved' = book)
  BY <1>1 DEF LoopFollows, OpenPlaces
<1>3. (trouble' = {} => trouble = {}) /\ owed = <<>>
  BY <1>1, <1>2, UnchangedKeeps DEF LoopInv, Clean
<1>4. Clean /\ Following /\ LoopTyped /\ Distinguishable
  BY <1>1, <1>2, <1>3, WasClean DEF OpenPlaces, Clean
<1>5. saved # <<>>
  BY <1>1 DEF Changed
<1>6. BeforeKey(tries + 1)
  BY <1>1, <1>3, <1>4, <1>5, WatchSees DEF Following
<1>7. ASSUME position' = "recover" PROVE Following'
  <2>1. BeforeKey(tries + 1)' /\ tries' < Recoveries'
    BY <1>1, <1>6, <1>7 DEF BeforeKey, Latest1, AtTheEnd, Turned, Recoveries, Page
  <2>2. FollowsBook' \/ WentBack'
    BY <1>1, <1>4 DEF Following, FollowsBook, WentBack
  <2> QED
    BY <1>1, <1>5, <1>7, <2>1, <2>2 DEF Following
<1>8. ASSUME position' = "done" PROVE saved' = book
  <2>1. tries \in Nat /\ RetryCount \in Nat /\ ~(tries < Recoveries)
    BY <1>1, <1>4, <1>8, LoopAssumption DEF LoopTyped
  <2>2. tries >= RetryCount
    BY <2>1 DEF Recoveries
  <2>3. saved = book
    BY <1>4, <1>5, <1>6, <2>2, TriedEnough
  <2> QED
    BY <1>1, <2>3
<1> QED
  BY <1>7, <1>8

\* A confirmed end comes at the end of the book.
LEMMA FollowsConfirmed == ASSUME LoopInv, Confirmed PROVE LoopFollows'
<1>1. /\ position = "confirm watch" /\ ~Changed /\ Unchanged
      /\ UNCHANGED <<book, setting, shown, owed, saved, cycle, deafness>>
      /\ \/ position' = "confirm" /\ tries' = tries + 1
         \/ ~(tries < RetryCount) /\ position' = "done"
  BY DEF Confirmed
<1>2. SUFFICES ASSUME Clean' PROVE (position' = "confirm" => Following') /\ (position' = "done" => saved' = book)
  BY <1>1 DEF LoopFollows, OpenPlaces
<1>3. (trouble' = {} => trouble = {}) /\ owed = <<>>
  BY <1>1, <1>2, UnchangedKeeps DEF LoopInv, Clean
<1>4. Clean /\ Following /\ LoopTyped /\ Distinguishable
  BY <1>1, <1>2, <1>3, WasClean DEF OpenPlaces, Clean
<1>5. saved # <<>>
  BY <1>1 DEF Changed
<1>6. BeforeKey(tries + 1)
  BY <1>1, <1>3, <1>4, <1>5, WatchSees DEF Following
<1>7. ASSUME position' = "confirm" PROVE Following'
  <2>1. BeforeKey(tries)'
    <3>1. tries' = tries + 1
      BY <1>1, <1>7
    <3> QED
      BY <1>1, <1>6, <3>1 DEF BeforeKey, Latest1, AtTheEnd, Turned
  <2>2. FollowsBook' \/ WentBack'
    BY <1>1, <1>4 DEF Following, FollowsBook, WentBack
  <2> QED
    BY <1>1, <1>5, <1>7, <2>1, <2>2 DEF Following
<1>8. ASSUME position' = "done" PROVE saved' = book
  <2>1. tries \in Nat /\ RetryCount \in Nat /\ ~(tries < RetryCount)
    BY <1>1, <1>4, <1>8, LoopAssumption DEF LoopTyped
  <2>2. tries >= RetryCount
    BY <2>1
  <2>3. saved = book
    BY <1>4, <1>5, <1>6, <2>2, TriedEnough
  <2> QED
    BY <1>1, <2>3
<1> QED
  BY <1>7, <1>8

\* After the canary, Kindle is back at the first screen with no turn owed.
LEMMA FollowsCanaryPasses == ASSUME LoopInv, CanaryPasses PROVE LoopFollows'
<1>1. /\ position = "canary watch" /\ position' = "watch" /\ shown' = 1 /\ owed' = <<>>
      /\ UNCHANGED <<book, setting, saved, cycle, tries>>
  BY DEF CanaryPasses
<1>2. saved = <<>> /\ cycle = 0 /\ tries = 0 /\ Len(book) \in Nat
  BY <1>1, LenProperties DEF LoopInv, LoopBasics, LoopTyped, CanaryOk, CanaryPlaces
<1>3. FollowsBook'
  <2>1. Len(saved') = 0 /\ cycle' = 0 /\ Len(book') \in Nat
    BY <1>1, <1>2
  <2> QED
    BY <2>1 DEF FollowsBook
<1>4. Following'
  BY <1>1, <1>2, <1>3 DEF Following
<1> QED
  BY <1>1, <1>4 DEF LoopFollows

\* Whatever Kindle does: neither an ignored key nor a turn that comes late takes
\* the loop from where the invariant says it is.
LEMMA LoopInvStep == ASSUME LoopInv, [LoopNext]_loopVars PROVE LoopInv'
<1>1. LoopBasics'
  BY LoopBasicsStep DEF LoopInv
<1>2. CASE UNCHANGED loopVars
  <2>1. LoopFollows'
    BY <1>2 DEF loopVars, LoopInv, LoopFollows, Clean, Distinguishable, Following, FollowsBook, WentBack,
                BeforeKey, AfterKey, AtTheEnd, Latest1, Turned, Recoveries, Page
  <2> QED
    BY <1>1, <2>1 DEF LoopInv
<1>3. ASSUME CanaryTurns PROVE LoopFollows'
  BY <1>3 DEF CanaryTurns, LoopFollows, OpenPlaces
<1>4. ASSUME CanaryFails \/ MoreFollows \/ Raises PROVE LoopFollows'
  BY <1>4 DEF CanaryFails, MoreFollows, Raises, Ends, LoopFollows, OpenPlaces
<1>5. ASSUME LoopNext PROVE LoopFollows'
  BY <1>3, <1>4, <1>5, FollowsCanaryPasses, FollowsSave, FollowsCycleEnds, FollowsTurns, FollowsNotChanged,
     FollowsRecover, FollowsConfirmed, FollowsShowTurn DEF LoopNext, LoopStep
<1> QED
  BY <1>1, <1>2, <1>5 DEF LoopInv

\* For any book, any settings and any number of ignored keys and late turns: a
\* capture that claims the end has every screen once and in order, or one of
\* its turns came after its time, or no try of a key was noticed; it had the right
\* key, and the expected number of screens (capture_loop, run_capture_canary).
THEOREM CapturesComplete == LoopSpec => []CompleteOrRefused
<1>1. LoopInv /\ [LoopNext]_loopVars => LoopInv'
  BY LoopInvStep
<1> QED
  BY LoopInvInit, LoopInvComplete, <1>1, PTL DEF LoopSpec

\* Both of them in the run of all programs.
THEOREM ProgramsKeepLoopAndWorker == ProgramsSpec => [](CompleteOrRefused /\ WorkerAgrees)
<1>1. ProgramsInit => LoopInv /\ WorkerInv
  BY LoopInvInit, WorkerInvInit DEF ProgramsInit
<1>2. ASSUME [ProgramsNext]_programsVars PROVE [LoopNext]_loopVars /\ [WorkerNext]_ocrWorkerVars
  <2>1. CASE UNCHANGED programsVars
    BY <2>1 DEF programsVars
  <2>2. CASE UNCHANGED <<loopVars, ocrWorkerVars>>
    BY <2>2
  <2>3. CASE LoopNext /\ UNCHANGED ocrWorkerVars
    BY <2>3
  <2>4. CASE WorkerNext /\ UNCHANGED loopVars
    BY <2>4
  <2> QED
    BY <1>2, <2>1, <2>2, <2>3, <2>4 DEF ProgramsNext, Only
<1>3. LoopInv /\ WorkerInv /\ [ProgramsNext]_programsVars => LoopInv' /\ WorkerInv'
  BY <1>2, LoopInvStep, WorkerInvStep
<1>4. LoopInv /\ WorkerInv => CompleteOrRefused /\ WorkerAgrees
  BY LoopInvComplete, WorkerInvAgrees
<1> QED
  BY <1>1, <1>3, <1>4, PTL DEF ProgramsSpec

-----------------------------------------------------------------------------
(* The bounds of the capture loop. *)

\* Before a key Kindle owes no more turns than came late, and fewer if it has
\* turned since; after the key one more.
Due == Len(owed)
OwedBeforeKey == Due <= slips /\ (Changed => Due + 1 <= slips)
OwedAfterKey == Due <= slips + 1 /\ (Changed => Due <= slips)

BeforeKeys == {"turn", "recover", "confirm"}
AfterKeys == {"watch", "confirm watch"}
QuietPlaces == {"canary watch", "done", "failed"}

LoopBounds ==
    /\ book \in Books
    /\ slips \in 0 .. MaxSlips /\ deafness <= slips /\ trouble \subseteq {"deaf", "late"}
    /\ cycle \in 0 .. 1
    /\ tries <= RetryCount + 1 /\ (position = "recover" => tries < RetryCount + 1)
    /\ Due <= slips + 1
    /\ position = "canary" => Due = 0
    /\ position \in BeforeKeys => OwedBeforeKey
    /\ position \in AfterKeys => OwedAfterKey

\* One more or less.
LEMMA OneMore ==
    /\ \A a, b, c \in Nat : a <= b + 1 /\ b <= c => a <= c + 1
    /\ \A a, b, c \in Nat : a <= b /\ b <= c => a <= c
    /\ \A a, b \in Nat : a <= b => a <= b + 1 /\ a < b + 1
    /\ \A a, b \in Nat : a < b + 1 => a <= b
    /\ \A a, b \in Nat : a < b => a + 1 <= b + 1 /\ a < b + 1
    /\ \A a, b, c \in Nat : c + 1 = a =>
         /\ a <= b => c <= b /\ c + 1 <= b
         /\ a <= b + 1 => c <= b + 1 /\ c <= b
OBVIOUS

\* The places before a key, after one, and those where nothing may be owed.
LEMMA PlaceBounds ==
    /\ \A p \in BeforeKeys : p \notin AfterKeys /\ p # "canary"
    /\ \A p \in AfterKeys : p \notin BeforeKeys /\ p # "canary" /\ p # "recover"
    /\ \A p \in QuietPlaces : p \notin BeforeKeys /\ p \notin AfterKeys /\ p # "canary" /\ p # "recover"
BY Zenon DEF BeforeKeys, AfterKeys, QuietPlaces

\* The names of these places.
LEMMA PlaceNames ==
    /\ "turn" \in BeforeKeys /\ "recover" \in BeforeKeys /\ "confirm" \in BeforeKeys
    /\ "watch" \in AfterKeys
    /\ "done" \in QuietPlaces /\ "failed" \in QuietPlaces
    /\ "done" # "recover" /\ "confirm" # "recover"
BY Zenon DEF BeforeKeys, AfterKeys, QuietPlaces

\* The names of the two places of one key each.
LEMMA LongPlaceNames == "confirm watch" \in AfterKeys /\ "canary watch" \in QuietPlaces
BY Zenon DEF AfterKeys, QuietPlaces

\* The bounds hold at the start.
LEMMA LoopBoundsInit == LoopInit => LoopBounds
<1> SUFFICES ASSUME LoopInit PROVE LoopBounds
  OBVIOUS
<1>1. Due = 0
  BY DEF LoopInit, Due
<1>2. slips = 0 /\ deafness = 0 /\ trouble = {} /\ cycle = 0 /\ tries = 0 /\ position \in {"watch", "canary"} /\ book \in Books
  BY DEF LoopInit
<1>3. RetryCount \in Nat /\ MaxSlips \in Nat
  BY LoopAssumption
<1>4. OwedAfterKey
  BY <1>1, <1>2 DEF OwedAfterKey
<1> QED
  BY <1>1, <1>2, <1>3, <1>4, PlaceBounds, PlaceNames DEF LoopBounds

\* The numbers of the loop.
LEMMA LoopNumbers ==
    ASSUME LoopBasics, LoopBounds
    PROVE  /\ Due \in Nat /\ slips \in Nat /\ MaxSlips \in Nat /\ deafness \in Nat /\ tries \in Nat
           /\ RetryCount \in Nat /\ slips <= MaxSlips
           /\ owed = <<>> => Due = 0
           /\ owed' = <<>> => Due' = 0
           /\ (UNCHANGED owed => Due' = Due)
<1>1. Due \in Nat
  BY LenProperties DEF LoopBasics, LoopTyped, Due
<1>2. (owed = <<>> => Due = 0) /\ (owed' = <<>> => Due' = 0) /\ (UNCHANGED owed => Due' = Due)
  BY EmptySeq DEF Due
<1>3. slips \in 0 .. MaxSlips /\ deafness \in Nat /\ tries \in Nat
  BY DEF LoopBasics, LoopTyped, LoopBounds
<1>4. RetryCount \in Nat /\ MaxSlips \in Nat
  BY LoopAssumption
<1> QED
  BY <1>1, <1>2, <1>3, <1>4

\* A key: one turn more is owed, or one slip more.
LEMMA PressBounds ==
    ASSUME LoopBasics, LoopBounds, NEW direction \in {1, -1}, Press(direction), Due <= slips,
           UNCHANGED <<book, shown, saved>>
    PROVE  /\ slips' \in 0 .. MaxSlips /\ deafness' <= slips' /\ trouble' \subseteq {"deaf", "late"}
           /\ Due' <= slips' + 1
           /\ OwedBeforeKey => OwedAfterKey'
<1>0. Changed' = Changed
  BY DEF Changed, Image
<1>n. /\ Due \in Nat /\ slips \in Nat /\ MaxSlips \in Nat /\ deafness \in Nat /\ RetryCount \in Nat /\ slips <= MaxSlips
      /\ (UNCHANGED owed => Due' = Due)
  BY LoopNumbers
<1>b. deafness <= slips /\ trouble \subseteq {"deaf", "late"}
  BY DEF LoopBounds
<1>2. CASE owed' = Append(owed, direction) /\ deafness' = 0 /\ UNCHANGED <<trouble, slips>>
  <2>1. Due' = Due + 1
    BY <1>2, AppendProperties DEF LoopBasics, LoopTyped, Due
  <2>2. deafness' = 0 /\ slips' = slips /\ trouble' = trouble
    BY <1>2
  <2>3. OwedBeforeKey => OwedAfterKey'
    BY <1>0, <1>n, <2>1, <2>2 DEF OwedBeforeKey, OwedAfterKey
  <2> QED
    BY <1>n, <1>b, <2>1, <2>2, <2>3
<1>3. CASE /\ Slip /\ deafness' = deafness + 1 /\ UNCHANGED owed
           /\ trouble' = IF deafness' > RetryCount THEN trouble \cup {"deaf"} ELSE trouble
  <2>1. slips' = slips + 1 /\ slips < MaxSlips /\ deafness' = deafness + 1 /\ Due' = Due
    BY <1>3, <1>n DEF Slip
  <2>2. trouble' \subseteq {"deaf", "late"}
    BY <1>3, <1>b
  <2>3. OwedBeforeKey => OwedAfterKey'
    BY <1>0, <1>n, <2>1 DEF OwedBeforeKey, OwedAfterKey
  <2> QED
    BY <1>n, <1>b, <2>1, <2>2, <2>3
<1> QED
  BY <1>2, <1>3 DEF Press

\* The time is over: a turn that is still owed comes late.
LEMMA WaitBounds ==
    ASSUME LoopBasics, LoopBounds, Unchanged, UNCHANGED <<owed, deafness, book, shown, saved>>
    PROVE  /\ slips' \in 0 .. MaxSlips /\ deafness' <= slips' /\ trouble' \subseteq {"deaf", "late"}
           /\ Due' <= slips' + 1
           /\ ~Changed => OwedBeforeKey'
<1>0. Changed' = Changed
  BY DEF Changed, Image
<1>n. /\ Due \in Nat /\ slips \in Nat /\ MaxSlips \in Nat /\ deafness \in Nat /\ slips <= MaxSlips
      /\ (owed = <<>> => Due = 0) /\ Due' = Due /\ deafness' = deafness
  BY LoopNumbers
<1>b. deafness <= slips /\ trouble \subseteq {"deaf", "late"} /\ Due <= slips + 1
  BY DEF LoopBounds
<1>1. CASE owed = <<>> /\ UNCHANGED <<trouble, slips>>
  <2>1. Due' = 0 /\ slips' = slips /\ trouble' = trouble
    BY <1>1, <1>n
  <2>2. ~Changed => OwedBeforeKey'
    BY <1>0, <1>n, <2>1 DEF OwedBeforeKey
  <2> QED
    BY <1>n, <1>b, <2>1, <2>2
<1>2. CASE Slip /\ trouble' = trouble \cup {"late"}
  <2>1. slips' = slips + 1 /\ slips < MaxSlips /\ trouble' \subseteq {"deaf", "late"}
    BY <1>2, <1>b DEF Slip
  <2>2. ~Changed => OwedBeforeKey'
    BY <1>0, <1>n, <1>b, <2>1 DEF OwedBeforeKey
  <2> QED
    BY <1>n, <1>b, <2>1, <2>2
<1> QED
  BY <1>1, <1>2 DEF Unchanged

\* Each step keeps the bounds: the key of a turn.
LEMMA BoundsPressed ==
    ASSUME LoopBasics, LoopBounds, NEW direction \in {1, -1}, Press(direction), NEW n \in Nat, n <= RetryCount,
           UNCHANGED <<book, shown, saved, cycle>>,
           \/ position = "canary" /\ position' \in QuietPlaces /\ tries' = tries
           \/ position \in BeforeKeys /\ position' \in AfterKeys /\ (tries' = tries \/ tries' = n + 1)
    PROVE  LoopBounds'
<1>n. /\ Due \in Nat /\ slips \in Nat /\ tries \in Nat /\ RetryCount \in Nat
  BY LoopNumbers
<1>1. /\ position = "canary" => Due = 0
      /\ position \in BeforeKeys => OwedBeforeKey
      /\ tries <= RetryCount + 1 /\ cycle \in 0 .. 1 /\ book \in Books
  BY DEF LoopBounds
<1>2. Due <= slips
  BY <1>n, <1>1 DEF OwedBeforeKey
<1>3. /\ slips' \in 0 .. MaxSlips /\ deafness' <= slips' /\ trouble' \subseteq {"deaf", "late"}
      /\ Due' <= slips' + 1
      /\ OwedBeforeKey => OwedAfterKey'
  BY <1>2, PressBounds
<1>4. tries' <= RetryCount + 1 /\ cycle' \in 0 .. 1 /\ book' \in Books
  BY <1>n, <1>1
<1>5. position' # "canary" /\ position' # "recover" /\ position' \notin BeforeKeys /\ (position' \in AfterKeys => OwedAfterKey')
  BY <1>1, <1>3, PlaceBounds
<1> QED
  BY <1>3, <1>4, <1>5 DEF LoopBounds

\* Each step keeps the bounds: the time is over.
LEMMA BoundsWaited ==
    ASSUME LoopBasics, LoopBounds, Unchanged, UNCHANGED <<owed, deafness, book, shown, saved, cycle>>,
           \/ position' \in QuietPlaces
           \/ ~Changed /\ position' \in BeforeKeys,
           tries' \in Nat, tries' <= RetryCount + 1, position' = "recover" => tries' < RetryCount + 1
    PROVE  LoopBounds'
<1>1. /\ slips' \in 0 .. MaxSlips /\ deafness' <= slips' /\ trouble' \subseteq {"deaf", "late"}
      /\ Due' <= slips' + 1
      /\ ~Changed => OwedBeforeKey'
  BY WaitBounds
<1>2. cycle' \in 0 .. 1 /\ book' \in Books
  BY DEF LoopBounds
<1>3. position' # "canary" /\ position' \notin AfterKeys /\ (position' \in BeforeKeys => OwedBeforeKey')
  BY <1>1, PlaceBounds
<1> QED
  BY <1>1, <1>2, <1>3 DEF LoopBounds

\* Each step keeps the bounds: an end without a wait.
LEMMA BoundsEnded ==
    ASSUME LoopBasics, LoopBounds, slips' = slips \/ Slip, position' \in QuietPlaces,
           UNCHANGED <<book, owed, cycle, tries, deafness, trouble>>
    PROVE  LoopBounds'
<1>n. /\ Due \in Nat /\ slips \in Nat /\ MaxSlips \in Nat /\ deafness \in Nat /\ tries \in Nat
      /\ slips <= MaxSlips /\ Due' = Due
  BY LoopNumbers
<1>1. Due <= slips + 1 /\ deafness <= slips /\ tries <= RetryCount + 1 /\ cycle \in 0 .. 1 /\ book \in Books
      /\ trouble \subseteq {"deaf", "late"}
  BY DEF LoopBounds
<1>2. slips' \in 0 .. MaxSlips /\ slips <= slips'
  BY <1>n DEF Slip
<1>3. position' # "canary" /\ position' # "recover" /\ position' \notin BeforeKeys /\ position' \notin AfterKeys
  BY PlaceBounds
<1>4. Due' <= slips' + 1 /\ deafness' <= slips' /\ tries' <= RetryCount + 1 /\ tries' \in Nat
  <2>1. slips' \in Nat /\ deafness' = deafness /\ tries' = tries
    BY <1>n, <1>2
  <2>2. \A a \in Nat : (a <= slips + 1 => a <= slips' + 1) /\ (a <= slips => a <= slips')
    <3>1. slips \in Nat /\ slips <= slips'
      BY <1>n, <1>2
    <3> QED
      BY <2>1, <3>1, OneMore, Zenon
  <2>3. Due <= slips' + 1
    BY <1>n, <1>1, <2>2, Zenon
  <2>4. deafness <= slips'
    BY <1>n, <1>1, <2>2, Zenon
  <2> QED
    BY <1>n, <1>1, <2>1, <2>3, <2>4, Zenon
<1> QED
  BY <1>1, <1>2, <1>3, <1>4 DEF LoopBounds

\* Each step keeps the bounds: an image is saved, so that it is the window's.
LEMMA BoundsSaved == ASSUME LoopBasics, LoopBounds, Save PROVE LoopBounds'
<1>n. /\ Due \in Nat /\ slips \in Nat /\ RetryCount \in Nat /\ (UNCHANGED owed => Due' = Due)
  BY LoopNumbers
<1>1. /\ position = "watch" /\ Changed /\ Cycles < 2 /\ saved' = Append(saved, Image) /\ cycle' = Cycles /\ tries' = 0
      /\ UNCHANGED <<book, setting, shown, owed, deafness, trouble, slips>>
  BY DEF Save
<1>2. position' \in {"confirm", "turn"}
  BY DEF Save
<1>3. cycle' \in 0 .. 1
  BY <1>1 DEF Cycles, LoopBounds
<1>4. ~Changed'
  <2>1. Image \in Looks /\ saved \in Seq(Looks)
    BY ElementOfSeq DEF LoopBasics, LoopTyped, Image
  <2>2. saved' # <<>> /\ saved'[Len(saved')] = Image
    <3>1. Len(saved) \in Nat /\ Len(Append(saved, Image)) = Len(saved) + 1
          /\ Append(saved, Image)[Len(saved) + 1] = Image /\ Append(saved, Image) \in Seq(Looks)
      BY <2>1, AppendProperties, LenProperties
    <3>2. Len(Append(saved, Image)) # 0
      BY <3>1
    <3> QED
      BY <1>1, <3>1, <3>2, EmptySeq
  <2>3. Image' = Image
    BY <1>1 DEF Image
  <2> QED
    BY <2>2, <2>3 DEF Changed
<1>5. OwedAfterKey /\ Due <= slips
  <2>1. OwedAfterKey
    BY <1>1, PlaceNames DEF LoopBounds
  <2> QED
    BY <1>1, <2>1 DEF OwedAfterKey
<1>6. OwedBeforeKey' /\ Due' <= slips' + 1 /\ tries' < RetryCount + 1 /\ tries' <= RetryCount + 1
  <2>1. Due' = Due /\ slips' = slips /\ tries' = 0
    BY <1>n, <1>1
  <2>2. Due <= slips + 1 /\ 0 < RetryCount + 1 /\ 0 <= RetryCount + 1
    BY <1>n, <1>5
  <2> QED
    BY <1>4, <1>5, <2>1, <2>2, Zenon DEF OwedBeforeKey
<1>7. position' # "canary" /\ position' \notin AfterKeys
  BY <1>2, PlaceBounds, PlaceNames
<1>8. slips' \in 0 .. MaxSlips /\ deafness' <= slips' /\ trouble' \subseteq {"deaf", "late"} /\ book' \in Books
  BY <1>1 DEF LoopBounds
<1> QED
  BY <1>3, <1>6, <1>7, <1>8 DEF LoopBounds

\* Each step keeps the bounds.
LEMMA LoopBoundsStep == LoopInv /\ LoopBounds /\ [LoopNext]_loopVars => LoopBounds'
<1> SUFFICES ASSUME LoopInv, LoopBounds, [LoopNext]_loopVars PROVE LoopBounds'
  OBVIOUS
<1>0. LoopBasics
  BY DEF LoopInv
<1>n. /\ Due \in Nat /\ slips \in Nat /\ tries \in Nat /\ RetryCount \in Nat /\ (UNCHANGED owed => Due' = Due)
  BY <1>0, LoopNumbers
<1>t. tries <= RetryCount + 1 /\ (position = "recover" => tries < RetryCount + 1)
  BY DEF LoopBounds
<1>1. CASE CanaryTurns
  <2>1. position = "canary" /\ position' = "canary watch" /\ Press(Selected) /\ tries' = tries
        /\ UNCHANGED <<book, shown, saved, cycle>>
    BY <1>1, Zenon DEF CanaryTurns
  <2>2. position' \in QuietPlaces
    BY <2>1, LongPlaceNames, Zenon
  <2>3. position = "canary" /\ Press(Selected) /\ tries' = tries /\ UNCHANGED <<book, shown, saved, cycle>>
    BY <2>1, Zenon
  <2>4. 0 \in Nat /\ 0 <= RetryCount
    BY <1>n
  <2> QED
    BY <1>0, <2>2, <2>3, <2>4, BoundsPressed, SelectedKey, Zenon
<1>2. CASE CanaryPasses
  <2>1. position' = "watch" /\ owed' = <<>> /\ deafness' = 0 /\ UNCHANGED <<book, cycle, tries, trouble, slips>>
    BY <1>2, Zenon DEF CanaryPasses
  <2>2. Due' = 0
    BY <1>0, <2>1, LoopNumbers
  <2>3. position' # "canary" /\ position' # "recover" /\ position' \notin BeforeKeys
    BY <2>1, PlaceBounds, PlaceNames, Zenon
  <2>5. deafness' <= slips' /\ Due' <= slips' + 1 /\ Due' <= slips'
    <3>1. 0 <= slips /\ 0 <= slips + 1
      BY <1>n
    <3> QED
      BY <2>1, <2>2, <3>1, Zenon
  <2>4. OwedAfterKey'
    BY <2>5 DEF OwedAfterKey
  <2> QED
    BY <2>1, <2>3, <2>4, <2>5 DEF LoopBounds
<1>3. CASE CanaryFails
  <2>1. position' \in QuietPlaces /\ Unchanged /\ UNCHANGED <<book, shown, owed, saved, cycle, tries, deafness>>
    BY <1>3, PlaceNames, Zenon DEF CanaryFails
  <2>2. position' # "recover"
    BY <2>1, PlaceBounds
  <2> QED
    BY <1>0, <1>n, <1>t, <2>1, <2>2, BoundsWaited, Zenon
<1>4. CASE Save
  BY <1>0, <1>4, BoundsSaved
<1>5. CASE CycleEnds \/ MoreFollows \/ Raises
  <2>1. /\ position' \in QuietPlaces /\ UNCHANGED <<book, owed, cycle, tries, deafness, trouble>>
        /\ slips' = slips \/ Slip
    <3>1. \E how \in {"done", "failed"} : Ends(how)
      BY <1>5, Zenon DEF CycleEnds, MoreFollows, Raises
    <3>2. slips' = slips \/ Slip
      BY <1>5, Zenon DEF CycleEnds, MoreFollows, Raises
    <3> QED
      BY <3>1, <3>2, PlaceNames, Zenon DEF Ends
  <2> QED
    BY <1>0, <2>1, BoundsEnded
<1>6. CASE TurnPage
  <2>1. position = "turn" /\ position' = "watch" /\ Press(Selected) /\ tries' = tries
        /\ UNCHANGED <<book, shown, saved, cycle>>
    BY <1>6 DEF TurnPage
  <2>2. 0 \in Nat /\ 0 <= RetryCount
    BY <1>n
  <2> QED
    BY <1>0, <2>1, <2>2, BoundsPressed, SelectedKey, PlaceNames, LongPlaceNames, Zenon
<1>7. CASE NotChanged
  <2>1. /\ ~Changed /\ Unchanged /\ UNCHANGED <<book, shown, owed, saved, cycle, tries, deafness>>
        /\ \/ position' = "recover" /\ tries < Recoveries
           \/ position' \in {"failed", "done"}
    BY <1>7 DEF NotChanged
  <2>2. position' = "recover" => tries' < RetryCount + 1
    <3>1. tries < Recoveries => tries < RetryCount + 1
      BY <1>n, OneMore DEF Recoveries
    <3> QED
      BY <2>1, <3>1, PlaceNames, Zenon
  <2>3. tries' = tries /\ tries' \in Nat /\ tries' <= RetryCount + 1
    BY <1>n, <1>t, <2>1, Zenon
  <2>4. position' \in QuietPlaces \/ position' \in BeforeKeys
    BY <2>1, PlaceNames, Zenon
  <2> QED
    BY <1>0, <2>1, <2>2, <2>3, <2>4, BoundsWaited
<1>8. CASE Recover
  <2>1. position = "recover" /\ position' = "watch" /\ tries' = tries + 1 /\ UNCHANGED <<book, shown, saved, cycle>>
        /\ Press(IF tries < RetryCount THEN Selected ELSE Other)
    BY <1>8 DEF Recover
  <2>2. tries <= RetryCount
    BY <1>n, <1>t, <2>1, OneMore, Zenon
  <2>3. PICK direction \in {1, -1} : Press(direction)
    <3>1. Selected \in {1, -1} /\ Other \in {1, -1}
      BY DEF Selected, Other
    <3> QED
      BY <2>1, <3>1
  <2> QED
    BY <1>0, <1>n, <2>1, <2>2, <2>3, BoundsPressed, PlaceBounds, PlaceNames, Zenon
<1>9. CASE ConfirmTurns
  <2>1. position = "confirm" /\ position' = "confirm watch" /\ Press(Selected) /\ tries' = tries
        /\ UNCHANGED <<book, shown, saved, cycle>>
    BY <1>9, Zenon DEF ConfirmTurns
  <2>2. 0 \in Nat /\ 0 <= RetryCount
    BY <1>n
  <2> QED
    BY <1>0, <2>1, <2>2, BoundsPressed, SelectedKey, PlaceNames, LongPlaceNames, Zenon
<1>10. CASE Confirmed
  <2>1. /\ ~Changed /\ Unchanged /\ UNCHANGED <<book, shown, owed, saved, cycle, deafness>>
        /\ \/ tries < RetryCount /\ position' = "confirm" /\ tries' = tries + 1
           \/ position' = "done" /\ UNCHANGED tries
    BY <1>10, Zenon DEF Confirmed
  <2>2. tries' \in Nat /\ tries' <= RetryCount + 1
    <3>1. tries < RetryCount => tries + 1 \in Nat /\ tries + 1 <= RetryCount + 1
      BY <1>n, OneMore
    <3> QED
      BY <1>n, <1>t, <2>1, <3>1, Zenon
  <2>3. (position' \in QuietPlaces \/ position' \in BeforeKeys) /\ position' # "recover"
    BY <2>1, PlaceNames, Zenon
  <2> QED
    BY <1>0, <2>1, <2>2, <2>3, BoundsWaited
<1>11. CASE ShowTurn
  <2>1. owed # <<>> /\ owed' = Tail(owed) /\ UNCHANGED <<book, position, saved, cycle, tries, deafness, trouble, slips>>
    BY <1>11 DEF ShowTurn
  <2>2. Due' \in Nat /\ Due' + 1 = Due
    BY <1>0, <2>1, HeadTailProperties, LenProperties, EmptySeq DEF LoopBasics, LoopTyped, Due
  <2>3. /\ position = "canary" => Due = 0
        /\ position \in BeforeKeys => OwedBeforeKey
        /\ position \in AfterKeys => OwedAfterKey
        /\ Due <= slips + 1
    BY DEF LoopBounds
  <2>4. /\ position' = "canary" => Due' = 0
        /\ position' \in BeforeKeys => OwedBeforeKey'
        /\ position' \in AfterKeys => OwedAfterKey'
        /\ Due' <= slips' + 1
    <3>1. PICK n \in Nat : n = Due'
      BY <2>2
    <3>2. n + 1 = Due
      BY <2>2, <3>1
    <3>3. /\ Due # 0
          /\ Due <= slips => n <= slips /\ n + 1 <= slips
          /\ n <= slips + 1 /\ n <= slips
      BY <1>n, <2>3, <3>2, OneMore
    <3> QED
      BY <2>1, <2>3, <3>1, <3>3, Zenon DEF OwedBeforeKey, OwedAfterKey
  <2> QED
    BY <2>1, <2>4 DEF LoopBounds
<1>12. CASE UNCHANGED loopVars
  <2>1. UNCHANGED <<book, owed, position, saved, shown, cycle, tries, deafness, trouble, slips>>
    BY <1>12 DEF loopVars
  <2>2. Changed' = Changed
    BY <2>1 DEF Changed, Image
  <2>3. Due' = Due
    BY <2>1 DEF Due
  <2> QED
    BY <2>1, <2>2, <2>3 DEF LoopBounds, OwedBeforeKey, OwedAfterKey
<1> QED
  BY <1>1, <1>2, <1>3, <1>4, <1>5, <1>6, <1>7, <1>8, <1>9, <1>10, <1>11, <1>12 DEF LoopNext, LoopStep

\* The types of the loop follow.
LEMMA LoopTypes == LoopInv /\ LoopBounds => LoopTypeOK
<1> SUFFICES ASSUME LoopInv, LoopBounds PROVE LoopTypeOK
  OBVIOUS
<1>0. LoopBasics /\ LoopTyped
  BY DEF LoopInv, LoopBasics
<1>n. /\ Due \in Nat /\ slips \in Nat /\ MaxSlips \in Nat /\ deafness \in Nat /\ tries \in Nat /\ RetryCount \in Nat
      /\ slips <= MaxSlips
  BY <1>0, LoopNumbers
<1>b. /\ Due <= slips + 1 /\ deafness <= slips /\ tries <= RetryCount + 1
      /\ book \in Books /\ cycle \in 0 .. 1 /\ slips \in 0 .. MaxSlips /\ trouble \subseteq {"deaf", "late"}
  BY DEF LoopBounds
<1>1. Due <= MaxSlips + 1 /\ deafness \in 0 .. MaxSlips /\ tries \in 0 .. RetryCount + 1
  BY <1>n, <1>b
<1>2. position \in {"canary", "canary watch", "watch", "turn", "recover", "confirm", "confirm watch", "done", "failed"}
  BY <1>0, Zenon DEF LoopTyped, CanaryPlaces, OpenPlaces
<1>3. /\ setting \in Settings /\ shown \in 1 .. Len(book) /\ owed \in Seq({1, -1}) /\ saved \in Seq(Looks)
  BY <1>0 DEF LoopTyped
<1> QED
  BY <1>b, <1>1, <1>2, <1>3, Zenon DEF LoopTypeOK, Due

-----------------------------------------------------------------------------
(* The bounds of the OCR worker. *)

WorkerLines == PageLines \cup {Fatal}

\* The numbers of the worker keep to their bounds; before a page the server has
\* room for one more.
CountsFit ==
    /\ session \in 0 .. MaxSessions /\ troubles \in 0 .. MaxTroubles
    /\ taken <= Len(tasks) /\ Len(tasks) <= NumPages
    /\ Len(recent) <= MaxServed
    /\ worker \in StageNames \cup {"begin", "page"} => Len(recent) < MaxServed

WorkerBounds ==
    /\ CountsFit
    /\ manifest \in BOOLEAN /\ cut \in BOOLEAN
    /\ server \in {"none", "external", "owned", "left"}
    /\ served \in Seq(BOOLEAN) /\ output \in Seq(WorkerLines)
    /\ kept \subseteq 1 .. NumPages

\* The bounds hold at the start.
LEMMA WorkerBoundsInit == WorkerInit => WorkerBounds
<1> SUFFICES ASSUME WorkerInit PROVE WorkerBounds
  OBVIOUS
<1>1. /\ session = 0 /\ tasks = <<>> /\ manifest = FALSE /\ worker = "none" /\ taken = 0 /\ recent = <<>>
      /\ server \in {"none", "external"} /\ served = <<>> /\ output = <<>> /\ kept = {} /\ cut = FALSE /\ troubles = 0
  BY DEF WorkerInit
<1>2. MaxSessions \in Nat /\ MaxTroubles \in Nat /\ NumPages \in Nat /\ MaxServed \in Nat
  BY WorkerAssumption
<1>3. CountsFit
  BY <1>1, <1>2 DEF CountsFit, StageNames
<1>4. served \in Seq(BOOLEAN) /\ output \in Seq(WorkerLines)
  BY <1>1
<1> QED
  BY <1>1, <1>3, <1>4 DEF WorkerBounds

\* The numbers of the worker.
LEMMA WorkerNumbers ==
    ASSUME WorkerInv, WorkerBounds
    PROVE  /\ MaxSessions \in Nat /\ MaxTroubles \in Nat /\ NumPages \in Nat /\ MaxServed \in Nat /\ 0 < MaxServed
           /\ session \in Nat /\ troubles \in Nat /\ taken \in Nat
           /\ Len(tasks) \in Nat /\ Len(recent) \in Nat
           /\ session <= MaxSessions /\ troubles <= MaxTroubles
<1>1. /\ MaxSessions \in Nat /\ MaxTroubles \in Nat /\ NumPages \in Nat /\ MaxServed \in Nat /\ 0 < MaxServed
  BY WorkerAssumption
<1>2. Len(tasks) \in Nat /\ Len(recent) \in Nat /\ taken \in Nat
  BY LenProperties DEF WorkerInv, WorkerTyped
<1>3. session \in 0 .. MaxSessions /\ troubles \in 0 .. MaxTroubles
  BY DEF WorkerBounds, CountsFit
<1> QED
  BY <1>1, <1>2, <1>3

\* A trouble is counted.
LEMMA TroubleCounted ==
    ASSUME WorkerInv, WorkerBounds, Trouble \/ NoTrouble PROVE troubles' \in 0 .. MaxTroubles
<1>1. troubles \in Nat /\ MaxTroubles \in Nat /\ troubles <= MaxTroubles
  BY WorkerNumbers
<1> QED
  BY <1>1 DEF Trouble, NoTrouble

\* A job that ends: only the place of the worker and its server change.
LEMMA BoundsFinish ==
    ASSUME WorkerInv, WorkerBounds, NEW how, Finish(how), troubles' \in 0 .. MaxTroubles,
           output' \in Seq(WorkerLines), UNCHANGED kept
    PROVE  WorkerBounds'
<1>1. /\ UNCHANGED <<session, tasks, taken, recent, served>> /\ manifest' = FALSE
      /\ worker' = worker \/ worker' = "stopped"
      /\ server' \in {server, "left"} /\ cut' \in BOOLEAN
  BY DEF Finish, Abandon, WorkerBounds
<1>2. CountsFit'
  <2>1. worker' \in StageNames \cup {"begin", "page"} => worker \in StageNames \cup {"begin", "page"}
    BY <1>1 DEF StageNames
  <2> QED
    BY <1>1, <2>1 DEF WorkerBounds, CountsFit
<1> QED
  BY <1>1, <1>2 DEF WorkerBounds

\* A line is read, or the wait for one is over.
LEMMA BoundsReadLine == ASSUME WorkerInv, WorkerBounds, ReadLine PROVE WorkerBounds'
<1>1. output # <<>> /\ output' = Tail(output) /\ NoTrouble
  BY DEF ReadLine
<1>2. Head(output) \in WorkerLines /\ output' \in Seq(WorkerLines)
  BY <1>1, HeadTailProperties DEF WorkerBounds
<1>3. troubles' \in 0 .. MaxTroubles
  BY <1>1, TroubleCounted
<1>4. CASE Head(output) = Fatal
  BY <1>2, <1>3, <1>4, BoundsFinish DEF ReadLine
<1>5. CASE Head(output) # Fatal
  <2>1. /\ kept' = IF Head(output).state = "passed" THEN kept \cup {Head(output).page} ELSE kept
        /\ UNCHANGED <<session, tasks, manifest, worker, taken, recent, server, served, cut>>
    BY <1>5 DEF ReadLine
  <2>2. Head(output).page \in 1 .. NumPages
    BY <1>2, <1>5 DEF WorkerLines, PageLines
  <2>3. kept' \subseteq 1 .. NumPages
    BY <2>1, <2>2 DEF WorkerBounds
  <2>4. CountsFit'
    BY <1>3, <2>1 DEF WorkerBounds, CountsFit
  <2> QED
    BY <1>2, <2>1, <2>3, <2>4 DEF WorkerBounds
<1> QED
  BY <1>4, <1>5

\* The other ends of a job.
LEMMA BoundsEndOfJob == ASSUME WorkerInv, WorkerBounds, ConsumerRaises \/ EndOfOutput \/ Watchdog PROVE WorkerBounds'
<1>1. CASE ConsumerRaises
  <2>1. output # <<>> /\ output' = Tail(output) /\ Trouble /\ Finish("raised") /\ UNCHANGED kept
    BY <1>1 DEF ConsumerRaises
  <2>2. output' \in Seq(WorkerLines)
    BY <2>1, HeadTailProperties DEF WorkerBounds
  <2> QED
    BY <2>1, <2>2, TroubleCounted, BoundsFinish
<1>2. CASE EndOfOutput
  <2>1. PICK how \in {"returned", "raised"} : Finish(how)
    BY <1>2 DEF EndOfOutput
  <2>2. UNCHANGED <<output, kept, troubles>>
    BY <1>2 DEF EndOfOutput
  <2>3. troubles' \in 0 .. MaxTroubles /\ output' \in Seq(WorkerLines)
    BY <2>2 DEF WorkerBounds, CountsFit
  <2> QED
    BY <2>1, <2>2, <2>3, BoundsFinish
<1>3. CASE Watchdog
  <2>1. (Trouble \/ NoTrouble) /\ Finish("raised") /\ UNCHANGED <<output, kept>>
    BY <1>3 DEF Watchdog
  <2>2. output' \in Seq(WorkerLines)
    BY <2>1 DEF WorkerBounds
  <2> QED
    BY <2>1, <2>2, TroubleCounted, BoundsFinish
<1> QED
  BY <1>1, <1>2, <1>3

\* A job starts with the pages that did not pass yet.
LEMMA BoundsStart == ASSUME WorkerInv, WorkerBounds, StartWorker PROVE WorkerBounds'
<1>n. /\ MaxSessions \in Nat /\ NumPages \in Nat /\ MaxServed \in Nat /\ 0 < MaxServed /\ session \in Nat
  BY WorkerNumbers
<1>1. /\ session < MaxSessions /\ session' = session + 1 /\ tasks' \in [1 .. Cardinality(Pending) -> Pending]
      /\ manifest' = TRUE /\ worker' = "begin" /\ taken' = 0 /\ recent' = <<>> /\ served' = <<>> /\ output' = <<>>
      /\ UNCHANGED <<server, kept, cut, troubles>>
  BY DEF StartWorker
<1>2. Cardinality(Pending) \in Nat /\ Cardinality(Pending) <= NumPages
  <2>1. IsFiniteSet(1 .. NumPages) /\ Cardinality(1 .. NumPages) = NumPages
    BY <1>n, FS_Interval, 0 \in Int
  <2>2. Pending \subseteq 1 .. NumPages
    BY DEF Pending
  <2> QED
    BY <2>1, <2>2, FS_Subset, FS_CardinalityType
<1>3. tasks' \in Seq(Pending) /\ Len(tasks') = Cardinality(Pending)
  BY <1>1, <1>2
<1>4. CountsFit'
  <2>1. session' \in 0 .. MaxSessions
    BY <1>n, <1>1
  <2>2. Len(recent') = 0
    BY <1>1
  <2>3. Len(recent') <= MaxServed /\ Len(recent') < MaxServed
    BY <1>n, <2>2
  <2>4. taken' <= Len(tasks') /\ Len(tasks') <= NumPages
    BY <1>1, <1>2, <1>3
  <2>5. troubles' \in 0 .. MaxTroubles
    BY <1>1 DEF WorkerBounds, CountsFit
  <2> QED
    BY <2>1, <2>3, <2>4, <2>5 DEF CountsFit
<1>5. served' \in Seq(BOOLEAN) /\ output' \in Seq(WorkerLines)
  BY <1>1
<1> QED
  BY <1>1, <1>4, <1>5 DEF WorkerBounds

\* One answer more to a page: the server had room for it.
LEMMA BoundsSuryaPage == ASSUME WorkerInv, WorkerBounds, SuryaPage PROVE WorkerBounds'
<1>n. /\ NumPages \in Nat /\ MaxServed \in Nat /\ 0 < MaxServed /\ taken \in Nat /\ Len(tasks) \in Nat /\ Len(recent) \in Nat
  BY WorkerNumbers
<1>1. PICK failed \in BOOLEAN, state \in {"passed", "failed"} :
        /\ output' = Append(output, [page |-> tasks[taken + 1], state |-> state])
        /\ served' = IF server = "owned" THEN Append(served, failed) ELSE served
        /\ recent' = IF Worn(Append(recent, failed)) /\ server # "owned" THEN <<>>
                     ELSE Append(recent, failed)
        /\ taken' = Taken
        /\ worker' = IF taken' >= Len(tasks) \/ Worn(recent') THEN "leave" ELSE "page"
  BY DEF SuryaPage
<1>2. worker = "page" /\ UNCHANGED <<session, tasks, manifest, kept, server, cut, troubles>>
  BY DEF SuryaPage, callerVars
<1>3. taken < Len(tasks) /\ tasks \in Seq(1 .. NumPages)
  BY <1>2 DEF WorkerInv, TasksAsFar, WorkerTyped
<1>4. [page |-> tasks[taken + 1], state |-> state] \in WorkerLines
  <2>1. taken + 1 \in 1 .. Len(tasks)
    BY <1>n, <1>3
  <2>2. tasks[taken + 1] \in 1 .. NumPages
    BY <1>3, <2>1, ElementOfSeq
  <2> QED
    BY <2>2 DEF WorkerLines, PageLines
<1>5. output' \in Seq(WorkerLines) /\ served' \in Seq(BOOLEAN)
  <2>1. output \in Seq(WorkerLines) /\ served \in Seq(BOOLEAN)
    BY DEF WorkerBounds
  <2>2. Append(output, [page |-> tasks[taken + 1], state |-> state]) \in Seq(WorkerLines) /\ Append(served, failed) \in Seq(BOOLEAN)
    BY <1>4, <2>1, AppendProperties
  <2> QED
    BY <1>1, <2>1, <2>2
<1>6. taken' = taken + 1
  BY <1>1 DEF Taken
<1>7. Len(recent') \in Nat /\ Len(recent') <= MaxServed /\ (worker' = "page" => Len(recent') < MaxServed)
  <2>1. Len(recent) < MaxServed /\ recent \in Seq(BOOLEAN)
    BY <1>2 DEF WorkerBounds, CountsFit, WorkerInv, WorkerTyped
  <2>2. CASE recent' = <<>>
    <3>1. Len(recent') = 0
      BY <2>2
    <3> QED
      BY <1>n, <3>1
  <2>3. CASE recent' = Append(recent, failed)
    <3>1. Len(recent') = Len(recent) + 1
      BY <2>1, <2>3, AppendProperties
    <3>2. worker' = "page" => ~Worn(recent')
      BY <1>1
    <3>3. ~Worn(recent') => ~(Len(recent') >= MaxServed)
      BY DEF Worn
    <3> QED
      BY <1>n, <2>1, <3>1, <3>2, <3>3
  <2> QED
    BY <1>1, <2>2, <2>3
<1>8. CountsFit'
  <2>1. worker' \in StageNames \cup {"begin", "page"} => worker' = "page"
    BY <1>1 DEF StageNames
  <2>2. taken' <= Len(tasks')
    BY <1>n, <1>2, <1>3, <1>6
  <2>3. session' \in 0 .. MaxSessions /\ troubles' \in 0 .. MaxTroubles /\ Len(tasks') <= NumPages
    BY <1>2 DEF WorkerBounds, CountsFit
  <2> QED
    BY <1>7, <2>1, <2>2, <2>3 DEF CountsFit
<1> QED
  BY <1>2, <1>5, <1>8 DEF WorkerBounds

\* A page of another engine.
LEMMA BoundsOtherPage == ASSUME WorkerInv, WorkerBounds, OtherPage PROVE WorkerBounds'
<1>n. /\ NumPages \in Nat /\ taken \in Nat /\ Len(tasks) \in Nat
  BY WorkerNumbers
<1>1. PICK state \in {"passed", "failed"} : output' = Append(output, [page |-> tasks[taken + 1], state |-> state])
  BY DEF OtherPage
<1>2. /\ worker = "page" /\ UNCHANGED <<session, tasks, manifest, kept, recent, server, served, cut, troubles>>
      /\ taken' = taken + 1 /\ worker' \in {"exited", "page"}
  BY DEF OtherPage, callerVars
<1>3. taken < Len(tasks) /\ tasks \in Seq(1 .. NumPages)
  BY <1>2 DEF WorkerInv, TasksAsFar, WorkerTyped
<1>4. [page |-> tasks[taken + 1], state |-> state] \in WorkerLines
  <2>1. taken + 1 \in 1 .. Len(tasks)
    BY <1>n, <1>3
  <2>2. tasks[taken + 1] \in 1 .. NumPages
    BY <1>3, <2>1, ElementOfSeq
  <2> QED
    BY <2>2 DEF WorkerLines, PageLines
<1>5. output' \in Seq(WorkerLines)
  BY <1>1, <1>4, AppendProperties DEF WorkerBounds
<1>6. CountsFit'
  <2>1. worker' \in StageNames \cup {"begin", "page"} => worker \in StageNames \cup {"begin", "page"}
    BY <1>2 DEF StageNames
  <2>2. taken' <= Len(tasks')
    BY <1>n, <1>2, <1>3
  <2> QED
    BY <1>2, <2>1, <2>2 DEF WorkerBounds, CountsFit
<1> QED
  BY <1>2, <1>5, <1>6 DEF WorkerBounds

\* The steps of the worker that answer nothing.
LEMMA BoundsQuietStep ==
    ASSUME WorkerInv, WorkerBounds, BeginWork \/ EnterServer \/ LeaveServer \/ StageEnds PROVE WorkerBounds'
<1>n. MaxServed \in Nat /\ 0 < MaxServed
  BY WorkerNumbers
<1>1. /\ UNCHANGED <<session, tasks, manifest, kept, taken, output, cut, troubles>>
      /\ server' \in {server, "owned", "none"}
      /\ served' = served \/ served' = <<>>
      /\ recent' = recent \/ recent' = <<>>
      /\ worker' \in StageNames \cup {"begin", "page"} =>
           worker \in StageNames \cup {"begin", "page"} \/ recent' = <<>>
  <2>1. CASE BeginWork
    BY <2>1 DEF BeginWork, Step, callerVars
  <2>2. CASE EnterServer
    BY <2>2 DEF EnterServer, Step, callerVars
  <2>3. CASE LeaveServer
    BY <2>3 DEF LeaveServer, Step, callerVars, StageNames
  <2>4. CASE StageEnds
    BY <2>4, StageOrder DEF StageEnds, Step, callerVars
  <2> QED
    BY <2>1, <2>2, <2>3, <2>4
<1>2. recent' = <<>> => Len(recent') <= MaxServed /\ Len(recent') < MaxServed
  BY <1>n
<1>3. CountsFit'
  BY <1>1, <1>2 DEF WorkerBounds, CountsFit
<1>4. served' \in Seq(BOOLEAN)
  <2>1. served \in Seq(BOOLEAN) /\ <<>> \in Seq(BOOLEAN)
    BY DEF WorkerBounds
  <2> QED
    BY <1>1, <2>1, Zenon
<1> QED
  BY <1>1, <1>3, <1>4 DEF WorkerBounds

\* A worker that fails, hangs or dies.
LEMMA BoundsTrouble ==
    ASSUME WorkerInv, WorkerBounds, WorkerFails \/ WorkerHangs \/ WorkerDies PROVE WorkerBounds'
<1>1. /\ UNCHANGED <<session, tasks, manifest, kept, taken, recent, served>> /\ Trouble
      /\ worker' \in {"failed", "hung", "crashed"} /\ server' \in {server, "none", "left"}
      /\ output' = output \/ output' = Append(output, Fatal)
      /\ cut' \in BOOLEAN
  <2>1. CASE WorkerFails
    BY <2>1 DEF WorkerFails, ReportsFatal, callerVars, WorkerBounds
  <2>2. CASE WorkerHangs
    BY <2>2 DEF WorkerHangs, callerVars, WorkerBounds
  <2>3. CASE WorkerDies
    BY <2>3 DEF WorkerDies, Abandon, callerVars, WorkerBounds
  <2> QED
    BY <2>1, <2>2, <2>3
<1>2. CountsFit'
  <2>1. worker' \notin StageNames \cup {"begin", "page"}
    BY <1>1 DEF StageNames
  <2> QED
    BY <1>1, <2>1, TroubleCounted DEF WorkerBounds, CountsFit
<1>3. output' \in Seq(WorkerLines)
  <2>1. Fatal \in WorkerLines /\ output \in Seq(WorkerLines)
    BY DEF WorkerLines, WorkerBounds
  <2>2. Append(output, Fatal) \in Seq(WorkerLines)
    BY <2>1, AppendProperties
  <2> QED
    BY <1>1, <2>1, <2>2
<1> QED
  BY <1>1, <1>2, <1>3 DEF WorkerBounds

\* Each step of job and worker keeps the bounds.
LEMMA WorkerBoundsStep == WorkerInv /\ WorkerBounds /\ [WorkerNext]_ocrWorkerVars => WorkerBounds'
<1> SUFFICES ASSUME WorkerInv, WorkerBounds, [WorkerNext]_ocrWorkerVars PROVE WorkerBounds'
  OBVIOUS
<1>1. CASE UNCHANGED ocrWorkerVars
  <2>1. UNCHANGED <<session, tasks, manifest, worker, taken, recent, server, served, output, kept, cut, troubles>>
    BY <1>1 DEF ocrWorkerVars
  <2> QED
    BY <2>1 DEF WorkerBounds, CountsFit
<1> QED
  BY <1>1, BoundsReadLine, BoundsEndOfJob, BoundsStart, BoundsSuryaPage, BoundsOtherPage, BoundsQuietStep, BoundsTrouble
  DEF WorkerNext, WorkerStep

\* The types of the worker follow.
LEMMA WorkerTypes == WorkerInv /\ WorkerBounds => WorkerTypeOK
<1> SUFFICES ASSUME WorkerInv, WorkerBounds PROVE WorkerTypeOK
  OBVIOUS
<1>1. worker \in Ended \cup {"begin", "enter", "page", "leave", "hung"} \cup {Stages[i] : i \in DOMAIN Stages}
  <2>1. {Stages[i] : i \in DOMAIN Stages} = StageNames
    BY StageOrder
  <2>2. worker \in WorkerPlaces
    BY DEF WorkerInv, WorkerTyped
  <2> QED
    BY <2>1, <2>2 DEF WorkerPlaces
<1>2. taken \in 0 .. Len(tasks)
  <2>1. taken \in Nat /\ Len(tasks) \in Nat /\ taken <= Len(tasks)
    BY WorkerNumbers DEF WorkerBounds, CountsFit
  <2> QED
    BY <2>1
<1>3. caller \in {"idle", "reading", "returned", "raised"} /\ recent \in Seq(BOOLEAN)
  BY DEF WorkerInv, WorkerTyped
<1> QED
  BY <1>1, <1>2, <1>3 DEF WorkerTypeOK, WorkerBounds, CountsFit

-----------------------------------------------------------------------------
(* The bounds of the image-OCR campaign and of its ledger. *)

CampaignBounds ==
    /\ Len(pilots) <= MaxPilots
    /\ tools \in 0 .. MaxTools /\ changes \in 0 .. MaxChanges

\* They hold at the start.
LEMMA CampaignBoundsInit == CampaignInit => CampaignBounds
<1> SUFFICES ASSUME CampaignInit PROVE CampaignBounds
  OBVIOUS
<1>1. MaxPilots \in Nat /\ MaxTools \in Nat /\ MaxChanges \in Nat
  BY CampaignAssumption
<1> QED
  BY <1>1 DEF CampaignInit, CampaignBounds

\* Each step of the campaign keeps them.
LEMMA CampaignBoundsStep == CampaignInv /\ CampaignBounds /\ [CampaignNext]_campaignVars => CampaignBounds'
<1> SUFFICES ASSUME CampaignInv, CampaignBounds, [CampaignNext]_campaignVars PROVE CampaignBounds'
  OBVIOUS
<1>n. MaxPilots \in Nat /\ MaxTools \in Nat /\ MaxChanges \in Nat
  BY CampaignAssumption
<1>1. CASE Change /\ UNCHANGED pilots
  BY <1>n, <1>1 DEF Change, CampaignBounds
<1>2. CASE Tool /\ UNCHANGED pilots
  BY <1>n, <1>2 DEF Tool, CampaignBounds
<1>3. CASE CreatePilot
  <2>1. Len(pilots) < MaxPilots /\ pilots' = Append(pilots, image) /\ UNCHANGED <<tools, changes>>
    BY <1>3 DEF CreatePilot
  <2>2. pilots \in Seq([Samples -> Nat]) /\ image \in [Samples -> Nat]
    BY DEF CampaignInv, CampaignTyped
  <2>3. Len(pilots) \in Nat /\ Len(pilots') = Len(pilots) + 1
    BY <2>1, <2>2, AppendProperties, LenProperties
  <2>4. Len(pilots') <= MaxPilots
    BY <1>n, <2>1, <2>3
  <2> QED
    BY <2>1, <2>4 DEF CampaignBounds
<1>4. CASE UNCHANGED campaignVars
  <2>1. pilots' = pilots /\ tools' = tools /\ changes' = changes
    BY <1>4, Zenon DEF campaignVars
  <2> QED
    BY <2>1 DEF CampaignBounds
<1>5. ASSUME CampaignNext PROVE (Change /\ UNCHANGED pilots) \/ (Tool /\ UNCHANGED pilots) \/ CreatePilot
  BY <1>5, Zenon DEF CampaignNext, Recapture, RemoveFile, NormalizeCandidates, ResolveCandidates, ImportBundles
<1> QED
  BY <1>1, <1>2, <1>3, <1>4, <1>5

\* The types of the campaign follow.
LEMMA CampaignTypes == CampaignInv /\ CampaignBounds => CampaignTypeOK
BY DEF CampaignInv, CampaignTyped, ReadingsTyped, CampaignBounds, CampaignTypeOK

\* The ledger names holdouts that exist.
LedgerBounds ==
    /\ holdouts \in 0 .. MaxHoldouts /\ deaths \in 0 .. MaxDeaths
    /\ \A i \in DOMAIN ledger : ledger[i].manifest \in 1 .. holdouts
    /\ \A o \in Operators : command[o].at \in {"read", "write"} => command[o].manifest \in 1 .. holdouts

\* They hold at the start.
LEMMA LedgerBoundsInit == LedgerInit => LedgerBounds
<1> SUFFICES ASSUME LedgerInit PROVE LedgerBounds
  OBVIOUS
<1>1. MaxHoldouts \in Nat /\ MaxDeaths \in Nat
  BY LedgerAssumption
<1> QED
  BY <1>1 DEF LedgerInit, LedgerBounds, Rest

\* A step of one operator: what its command names must exist.
LEMMA BoundsGoes ==
    ASSUME LedgerInv, LedgerBounds, NEW o \in Operators, NEW next, Goes(o, next), UNCHANGED <<holdouts>>,
           next.at \in {"read", "write"} => next.manifest \in 1 .. holdouts,
           deaths' \in 0 .. MaxDeaths, \A i \in DOMAIN ledger' : ledger'[i].manifest \in 1 .. holdouts
    PROVE  LedgerBounds'
<1>1. PICK f : command = [q \in Operators |-> f[q]]
  BY DEF LedgerInv, LedgerTyped
<1>2. command' = [q \in Operators |-> IF q = o THEN next ELSE command[q]]
  BY <1>1 DEF Goes
<1>3. ASSUME NEW q \in Operators, command'[q].at \in {"read", "write"} PROVE command'[q].manifest \in 1 .. holdouts
  <2>1. CASE q = o
    <3>1. command'[q] = next
      BY <1>2, <2>1
    <3> QED
      BY <1>3, <3>1
  <2>2. CASE q # o
    <3>1. command'[q] = command[q]
      BY <1>2, <2>2
    <3> QED
      BY <1>3, <3>1 DEF LedgerBounds
  <2> QED
    BY <2>1, <2>2
<1> QED
  BY <1>3 DEF LedgerBounds

\* Each step keeps them.
LEMMA LedgerBoundsStep == LedgerInv /\ LedgerBounds /\ [LedgerNext]_ledgerVars => LedgerBounds'
<1> SUFFICES ASSUME LedgerInv, LedgerBounds, [LedgerNext]_ledgerVars PROVE LedgerBounds'
  OBVIOUS
<1>n. MaxHoldouts \in Nat /\ MaxDeaths \in Nat /\ holdouts \in Nat /\ holdouts <= MaxHoldouts
  BY LedgerAssumption DEF LedgerBounds
<1>b. deaths \in 0 .. MaxDeaths /\ \A i \in DOMAIN ledger : ledger[i].manifest \in 1 .. holdouts
  BY DEF LedgerBounds
<1>1. CASE CreateHoldout
  <2>1. holdouts < MaxHoldouts /\ holdouts' = holdouts + 1 /\ UNCHANGED <<ledger, command, deaths>>
    BY <1>1 DEF CreateHoldout
  <2>2. holdouts' \in 0 .. MaxHoldouts /\ \A m \in 1 .. holdouts : m \in 1 .. holdouts'
    BY <1>n, <2>1
  <2> QED
    BY <2>1, <2>2 DEF LedgerBounds
<1>2. CASE RemoveLock \/ UNCHANGED ledgerVars
  <2>1. UNCHANGED <<holdouts, ledger, command, deaths>>
    BY <1>2 DEF RemoveLock, ledgerVars
  <2> QED
    BY <2>1 DEF LedgerBounds
<1>3. ASSUME NEW o \in Operators, NEW m \in 1 .. holdouts, NEW i \in DOMAIN States, BeginCommand(o, m, States[i])
      PROVE  LedgerBounds'
  <2>1. Goes(o, [at |-> "read", manifest |-> m, state |-> States[i]]) /\ UNCHANGED <<holdouts, ledger, deaths>>
    BY <1>3 DEF BeginCommand
  <2> QED
    BY <1>b, <2>1, BoundsGoes
<1>4. ASSUME NEW o \in Operators, ReadLedger(o) PROVE LedgerBounds'
  <2>1. UNCHANGED <<holdouts, ledger, deaths>>
    BY <1>4 DEF ReadLedger
  <2>2. command[o].manifest \in 1 .. holdouts
    BY <1>4 DEF ReadLedger, LedgerBounds
  <2>3. CASE Goes(o, [at |-> "write", manifest |-> command[o].manifest, state |-> command[o].state, seen |-> ledger])
    BY <1>b, <2>1, <2>2, <2>3, BoundsGoes
  <2>4. CASE Goes(o, Rest)
    BY <1>b, <2>1, <2>4, BoundsGoes DEF Rest
  <2> QED
    BY <1>4, <2>3, <2>4 DEF ReadLedger
<1>5. ASSUME NEW o \in Operators, WriteLedger(o) PROVE LedgerBounds'
  <2>1. /\ command[o].at = "write" /\ UNCHANGED <<holdouts, deaths>> /\ Goes(o, [command[o] EXCEPT !.at = "unlock"])
        /\ ledger' = Append(command[o].seen, [manifest |-> command[o].manifest, state |-> command[o].state])
    BY <1>5 DEF WriteLedger
  <2>2. /\ command[o].seen = ledger /\ command[o].manifest \in 1 .. holdouts
        /\ command[o] \in Writing
    BY <2>1, KindOfCommand DEF LedgerInv, LedgerBounds, CommandOk
  <2>3. [command[o] EXCEPT !.at = "unlock"].at = "unlock"
    BY <2>2 DEF Writing
  <2>4. \A i \in DOMAIN ledger' : ledger'[i].manifest \in 1 .. holdouts
    <3>1. ledger \in Seq(LedgerEvents) /\ [manifest |-> command[o].manifest, state |-> command[o].state] \in LedgerEvents
      BY <2>2 DEF LedgerInv, LedgerTyped, Writing, LedgerEvents
    <3>2. /\ DOMAIN ledger' = 1 .. Len(ledger) + 1 /\ DOMAIN ledger = 1 .. Len(ledger) /\ Len(ledger) \in Nat
          /\ \A i \in 1 .. Len(ledger) : ledger'[i] = ledger[i]
          /\ ledger'[Len(ledger) + 1].manifest = command[o].manifest
      BY <2>1, <2>2, <3>1, AppendProperties, LenProperties
    <3>3. \A i \in 1 .. Len(ledger) + 1 : i \in 1 .. Len(ledger) \/ i = Len(ledger) + 1
      BY <3>2
    <3> QED
      BY <1>b, <2>2, <3>2, <3>3
  <2> QED
    BY <1>b, <2>1, <2>3, <2>4, BoundsGoes
<1>6. ASSUME NEW o \in Operators, EndCommand(o) \/ Die(o) \/ EndExport(o) PROVE LedgerBounds'
  <2>1. Goes(o, Rest) /\ UNCHANGED <<holdouts, ledger>> /\ deaths' \in 0 .. MaxDeaths
    BY <1>n, <1>b, <1>6 DEF EndCommand, Die, EndExport
  <2> QED
    BY <1>b, <2>1, BoundsGoes DEF Rest
<1>7. ASSUME NEW o \in Operators, NEW m \in 1 .. holdouts, BeginExport(o, m) PROVE LedgerBounds'
  <2>1. Goes(o, [at |-> "export", manifest |-> m]) /\ UNCHANGED <<holdouts, ledger, deaths>>
    BY <1>7 DEF BeginExport
  <2> QED
    BY <1>b, <2>1, BoundsGoes
<1> QED
  BY <1>1, <1>2, <1>3, <1>4, <1>5, <1>6, <1>7 DEF LedgerNext

\* A holdout is in each state once: two events are not the same.
LEMMA EventsDiffer ==
    ASSUME LedgerInv, NEW i \in DOMAIN ledger, NEW k \in DOMAIN ledger, ledger[i] = ledger[k] PROVE i = k
<1>1. ledger \in Seq(LedgerEvents) /\ DOMAIN ledger = 1 .. Len(ledger) /\ Len(ledger) \in Nat
  BY LenProperties DEF LedgerInv, LedgerTyped
<1>2. ASSUME NEW a \in DOMAIN ledger, NEW b \in DOMAIN ledger, a < b, ledger[a] = ledger[b] PROVE FALSE
  <2>1. a \in {j \in 1 .. b - 1 : ledger[j].manifest = ledger[b].manifest}
    BY <1>1, <1>2
  <2>2. ledger[b].state \in Earlier(ledger, b)
    BY <1>2, <2>1 DEF Earlier
  <2>3. Earlier(ledger, b) = Preceding[ledger[b].state]
    BY DEF LedgerInv, LedgerAgrees
  <2>4. ledger[b] \in LedgerEvents
    BY <1>1, ElementOfSeq
  <2>5. \A s \in LedgerStates : s \notin Preceding[s]
    BY DEF LedgerStates, Preceding
  <2> QED
    BY <2>2, <2>3, <2>4, <2>5 DEF LedgerEvents
<1> QED
  BY <1>1, <1>2

\* There are at most as many events as states of the holdouts.
LEMMA LedgerIsShort == ASSUME LedgerInv, LedgerBounds PROVE Len(ledger) <= Len(States) * MaxHoldouts
<1> DEFINE all == (1 .. holdouts) \X LedgerStates
           at == [i \in 1 .. Len(ledger) |-> <<ledger[i].manifest, ledger[i].state>>]
<1>n. MaxHoldouts \in Nat /\ holdouts \in Nat /\ holdouts <= MaxHoldouts
  BY LedgerAssumption DEF LedgerBounds
<1>1. ledger \in Seq(LedgerEvents) /\ DOMAIN ledger = 1 .. Len(ledger) /\ Len(ledger) \in Nat
  BY LenProperties DEF LedgerInv, LedgerTyped
<1>2. \A i \in 1 .. Len(ledger) : ledger[i] \in LedgerEvents /\ ledger[i].manifest \in 1 .. holdouts
  BY <1>1, ElementOfSeq DEF LedgerBounds
<1>3. at \in [1 .. Len(ledger) -> all]
  BY <1>2 DEF LedgerEvents
<1>4. ASSUME NEW i \in 1 .. Len(ledger), NEW k \in 1 .. Len(ledger), at[i] = at[k] PROVE i = k
  <2>1. ledger[i].manifest = ledger[k].manifest /\ ledger[i].state = ledger[k].state
    BY <1>4
  <2>2. ledger[i] = ledger[k]
    BY <1>2, <2>1 DEF LedgerEvents
  <2> QED
    BY <1>1, <2>2, EventsDiffer
<1>5. at \in Injection(1 .. Len(ledger), all)
  BY <1>3, <1>4 DEF Injection, IsInjective
<1>6. IsFiniteSet(1 .. holdouts) /\ Cardinality(1 .. holdouts) = holdouts
  BY <1>n, FS_Interval
<1>7. IsFiniteSet(LedgerStates) /\ Cardinality(LedgerStates) = 3
  <2> DEFINE one == {"sealed"}  two == one \cup {"opened"}  three == two \cup {"retired_to_tuning"}
  <2>1. IsFiniteSet(one) /\ Cardinality(one) = 1
    BY FS_Singleton
  <2>2. IsFiniteSet(two) /\ Cardinality(two) = 2
    <3>1. "opened" \notin one
      OBVIOUS
    <3> QED
      BY <2>1, <3>1, FS_AddElement
  <2>3. IsFiniteSet(three) /\ Cardinality(three) = 3
    <3>1. "retired_to_tuning" \notin two
      OBVIOUS
    <3> QED
      BY <2>2, <3>1, FS_AddElement
  <2>4. LedgerStates = three
    BY DEF LedgerStates
  <2> QED
    BY <2>3, <2>4
<1>8. IsFiniteSet(all) /\ Cardinality(all) = holdouts * 3
  <2>1. IsFiniteSet(all) /\ Cardinality(all) = Cardinality(1 .. holdouts) * Cardinality(LedgerStates)
    BY <1>6, <1>7, FS_Product, Zenon
  <2> QED
    BY <1>6, <1>7, <2>1
<1>9. Cardinality(1 .. Len(ledger)) = Len(ledger)
  BY <1>1, FS_Interval
<1> HIDE DEF all, at
<1>10. Cardinality(1 .. Len(ledger)) <= Cardinality(all)
  BY <1>5, <1>8, FS_Injection
<1>11. Len(ledger) <= holdouts * 3
  BY <1>8, <1>9, <1>10
<1>12. holdouts * 3 <= 3 * MaxHoldouts
  BY <1>n
<1>13. Len(States) = 3
  BY DEF States
<1> QED
  BY <1>1, <1>n, <1>11, <1>12, <1>13

\* The types of the ledger follow.
LEMMA LedgerTypes == LedgerInv /\ LedgerBounds => LedgerTypeOK
<1> SUFFICES ASSUME LedgerInv, LedgerBounds PROVE LedgerTypeOK
  OBVIOUS
<1>1. \A o \in Operators : command[o].at \in {"rest", "read", "write", "unlock", "export"}
  BY DEF LedgerInv, CommandOk, Rest, Reading, Writing, Unlocking, Exporting
<1>2. lockFile = Free \/ lockFile.by \in Operators
  BY DEF LedgerInv, LedgerTyped, Held
<1> QED
  BY <1>1, <1>2, LedgerIsShort DEF LedgerTypeOK, LedgerBounds

-----------------------------------------------------------------------------
(* The types of all programs. *)

ProgramsTyped ==
    /\ TypeOK /\ BusyOK
    /\ LoopInv /\ LoopBounds /\ WorkerInv /\ WorkerBounds
    /\ CampaignInv /\ CampaignBounds /\ LedgerInv /\ LedgerBounds

\* Every program starts within its types.
LEMMA ProgramsTypedInit == ProgramsInit => ProgramsTyped
<1> SUFFICES ASSUME ProgramsInit PROVE ProgramsTyped
  OBVIOUS
<1>1. Init /\ LoopInit /\ WorkerInit /\ CampaignInit /\ LedgerInit
  BY DEF ProgramsInit
<1>2. TypeOK /\ BusyOK
  BY <1>1, PubInvInit DEF PubInv, WorkersOK, WorkerOK, BusyOK
<1> QED
  BY <1>1, <1>2, LoopInvInit, LoopBoundsInit, WorkerInvInit, WorkerBoundsInit, CampaignInvInit, CampaignBoundsInit,
     LedgerInvInit, LedgerBoundsInit DEF ProgramsTyped

\* A step is of the program in focus, or of none.
LEMMA ProgramsTypedStep == ProgramsTyped /\ [ProgramsNext]_programsVars => ProgramsTyped'
<1> SUFFICES ASSUME ProgramsTyped, [ProgramsNext]_programsVars PROVE ProgramsTyped'
  OBVIOUS
<1>1. /\ [Next]_vars /\ [LoopNext]_loopVars /\ [WorkerNext]_ocrWorkerVars
      /\ [CampaignNext]_campaignVars /\ [LedgerNext]_ledgerVars
  <2>1. CASE Only("recovery", Next, <<loopVars, ocrWorkerVars, campaignVars, ledgerVars>>)
    BY <2>1 DEF Only
  <2>2. CASE Only("loop", LoopNext, <<vars, ocrWorkerVars, campaignVars, ledgerVars>>)
    BY <2>2 DEF Only
  <2>3. CASE Only("worker", WorkerNext, <<vars, loopVars, campaignVars, ledgerVars>>)
    BY <2>3 DEF Only
  <2>4. CASE Only("campaign", CampaignNext, <<vars, loopVars, ocrWorkerVars, ledgerVars>>)
    BY <2>4 DEF Only
  <2>5. CASE Only("ledger", LedgerNext, <<vars, loopVars, ocrWorkerVars, campaignVars>>)
    BY <2>5 DEF Only
  <2>6. CASE UNCHANGED programsVars
    BY <2>6 DEF programsVars
  <2> QED
    BY <2>1, <2>2, <2>3, <2>4, <2>5, <2>6 DEF ProgramsNext
<1>2. /\ TypeOK /\ BusyOK /\ LoopInv /\ LoopBounds /\ WorkerInv /\ WorkerBounds
      /\ CampaignInv /\ CampaignBounds /\ LedgerInv /\ LedgerBounds
  BY DEF ProgramsTyped
<1>3. TypeOK' /\ BusyOK'
  BY <1>1, <1>2, TypesStep, BusyStep
<1>4. LoopInv' /\ LoopBounds'
  BY <1>1, <1>2, LoopInvStep, LoopBoundsStep
<1>5. WorkerInv' /\ WorkerBounds'
  BY <1>1, <1>2, WorkerInvStep, WorkerBoundsStep
<1>6. CampaignInv' /\ CampaignBounds'
  BY <1>1, <1>2, CampaignInvStep, CampaignBoundsStep
<1>7. LedgerInv' /\ LedgerBounds'
  BY <1>1, <1>2, LedgerInvStep, LedgerBoundsStep
<1> QED
  BY <1>3, <1>4, <1>5, <1>6, <1>7 DEF ProgramsTyped

\* Whatever programs run and however they fail, they keep their types: Kindle
\* owes no more turns than came late, a worker takes no page twice and asks no
\* server beyond its limit, and the ledger has an event for each state of a
\* holdout at most, so that it stays as short as their number allows.
THEOREM ProgramsAreTyped == ProgramsSpec => []ProgramsTypeOK
<1>1. ProgramsTyped => ProgramsTypeOK
  BY LoopTypes, WorkerTypes, CampaignTypes, LedgerTypes DEF ProgramsTyped, ProgramsTypeOK
<1> QED
  BY ProgramsTypedInit, ProgramsTypedStep, <1>1, PTL DEF ProgramsSpec

=============================================================================
