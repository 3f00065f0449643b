---------------------------- MODULE Services_proof ---------------------------
(***************************************************************************)
(* Theorems about the services of MCServices, each for every value of its  *)
(* constants: the job queue, the message store, the monitor, questions and *)
(* conversations, the generation of books, the capture of a series and the *)
(* activation of a release.                                                *)
(***************************************************************************)
EXTENDS MCServices, SequenceTheorems, WellFoundedInduction, TLAPS

-----------------------------------------------------------------------------
(* The job queue. *)

\* A set of jobs has an oldest one.
LEMMA OldestIsOne ==
    ASSUME NEW S, S \subseteq QueueJobs, S # {}
    PROVE  Oldest(S) \in S
<1>1. S \subseteq Nat
  BY QueueAssumption
<1>2. PICK x \in S : \A y \in S : ~(<<y, x>> \in OpToRel(<, Nat))
  BY <1>1, NatLessThanWellFounded, WFMin
<1>3. \A y \in S : x <= y
  <2> SUFFICES ASSUME NEW y \in S, ~(x <= y) PROVE FALSE
    OBVIOUS
  <2>1. y < x /\ <<y, x>> \in Nat \X Nat
    BY <1>1
  <2>2. <<y, x>> \in OpToRel(<, Nat)
    BY <2>1 DEF OpToRel
  <2> QED
    BY <1>2, <2>2
<1> QED
  BY <1>3 DEF Oldest

\* The job of the worker, from its claim to its end.
HasJob == worker.at \in {"claiming", "executing", "completing", "failing"}

\* The worker works on a row of the queue, which says so once it is written,
\* and whose cancellation, if anybody was told of one, overlapped the claim.
WorkerKnowsJob ==
    /\ HasJob => worker.job \in QueueJobs /\ worker.job \notin told \ overlapped
    /\ worker.at \in {"executing", "completing", "failing"} => jobState[worker.job] = "running"

QueueInv == QueueTypeOK /\ WorkerKnowsJob /\ RunningIsWorkersJob /\ CanceledJobRests

\* The invariant holds at the start.
LEMMA QueueInvInit == QueueInit => QueueInv
<1> SUFFICES ASSUME QueueInit PROVE QueueInv
  OBVIOUS
<1>1. QueueTypeOK
  <2>1. jobState \in [QueueJobs -> {"absent", "queued", "running", "completed", "failed", "canceled"}]
    BY DEF QueueInit
  <2>2. worker \in [at : {"idle", "claiming", "executing", "completing", "failing", "dead"},
                    job : QueueJobs \cup {0}]
    BY DEF QueueInit
  <2>3. dbFaults \in 0 .. MaxDbFaults /\ restarts \in 0 .. MaxRestarts
    BY QueueAssumption DEF QueueInit
  <2> QED
    BY <2>1, <2>2, <2>3 DEF QueueInit, QueueTypeOK
<1>2. WorkerKnowsJob
  BY DEF QueueInit, WorkerKnowsJob, HasJob
<1>3. RunningIsWorkersJob /\ CanceledJobRests
  BY DEF QueueInit, RunningIsWorkersJob, CanceledJobRests, InState
<1> QED
  BY <1>1, <1>2, <1>3 DEF QueueInv

\* Every step of the server and of the worker keeps it.
LEMMA QueueInvStep == QueueInv /\ [QueueNext]_queueVars => QueueInv'
<1> SUFFICES ASSUME QueueInv, [QueueNext]_queueVars PROVE QueueInv'
  OBVIOUS
<1> USE QueueAssumption
    DEF QueueInv, QueueTypeOK, WorkerKnowsJob, HasJob, RunningIsWorkersJob, CanceledJobRests,
        InState, JobBecomes, WorkerAt
<1>1. ASSUME NEW j \in QueueJobs, EnqueueJob(j) PROVE QueueInv'
  BY <1>1 DEF EnqueueJob
<1>2. CASE CancelLooks
  BY <1>2 DEF CancelLooks, Cancelable
<1>3. CASE CancelWrites
  BY <1>3 DEF CancelWrites
<1>4. CASE ClaimLooks
  <2>1. Oldest(Claimable) \in Claimable
    BY <1>4, OldestIsOne DEF ClaimLooks, Claimable
  <2> QED
    BY <1>4, <2>1 DEF ClaimLooks, Claimable
<1>5. CASE ClaimWrites
  BY <1>5 DEF ClaimWrites
<1>6. CASE Execute
  BY <1>6 DEF Execute, AfterRaising
<1>7. CASE MarkFinished
  BY <1>7 DEF MarkFinished, WorkerRests
<1>8. CASE WriteRaises
  BY <1>8 DEF WriteRaises, DbFault
<1>9. CASE StopQueue
  BY <1>9 DEF StopQueue
<1>10. CASE StartQueue
  <2>1. /\ jobState' = [j \in QueueJobs |-> IF jobState[j] = "running" THEN "failed" ELSE jobState[j]]
        /\ worker' = [at |-> "idle", job |-> 0]
        /\ told' = told /\ overlapped' = overlapped
    BY <1>10 DEF StartQueue, WorkerRests, AbortedAtStart
  <2>2. QueueTypeOK'
    <3>1. jobState' \in [QueueJobs -> {"absent", "queued", "running", "completed", "failed", "canceled"}]
      BY <2>1
    <3>2. worker' \in [at : {"idle", "claiming", "executing", "completing", "failing", "dead"},
                       job : QueueJobs \cup {0}]
      BY <2>1
    <3>3. restarts' \in 0 .. MaxRestarts
      BY <1>10 DEF StartQueue
    <3> QED
      BY <1>10, <2>1, <3>1, <3>2, <3>3 DEF StartQueue
  <2>3. WorkerKnowsJob' /\ RunningIsWorkersJob' /\ CanceledJobRests'
    BY <2>1
  <2> QED
    BY <2>2, <2>3
<1>11. CASE UNCHANGED queueVars
  BY <1>11 DEF queueVars
<1> QED
  BY <1>1, <1>2, <1>3, <1>4, <1>5, <1>6, <1>7, <1>8, <1>9, <1>10, <1>11
  DEF QueueNext, WorkerStep

\* The worker knows its job at every step, and the table says so.
THEOREM QueueInductive == QueueSpec => []QueueInv
BY QueueInvInit, QueueInvStep, PTL DEF QueueSpec

\* The rows, the worker and what callers were told agree in every state: a row
\* is "running" only while the worker has it, and a job whose caller was told
\* "canceled" never runs unless the two transactions overlapped.
THEOREM QueueIsKept == QueueSpec => []QueueAgrees
<1>1. QueueInv => QueueAgrees
  BY DEF QueueInv, QueueAgrees
<1> QED
  BY <1>1, QueueInductive, PTL

-----------------------------------------------------------------------------
(* The message store. *)

Topics == [by : CxAgents \cup {Nobody}, size : 0 .. MaxMessages]
Mails == [topic : 1 .. MaxTopics, sender : CxAgents, recipient : CxAgents, body : Bodies,
          re : 0 .. MaxMessages, key : Keys \cup {NoKey}, status : {"unread", "acknowledged"}]

\* The messages fit into the bound, and each is in a topic that exists.
MailFits ==
    /\ DOMAIN waiting = CxAgents
    /\ Len(messages) <= MaxMessages
    /\ \A m \in MessageIds : messages[m].topic \in TopicIds

MailInv == MailTypeOK /\ MailFits /\ StoredOnce /\ TopicsAreKept

\* The sequences of the store, as functions.
LEMMA MailSequences ==
    ASSUME MailTypeOK
    PROVE  /\ topics \in Seq(Topics) /\ messages \in Seq(Mails)
           /\ Len(topics) \in Nat /\ Len(messages) \in Nat
           /\ TopicIds = 1 .. Len(topics) /\ MessageIds = 1 .. Len(messages)
           /\ \A m \in MessageIds : messages[m] \in Mails
           /\ \A t \in TopicIds : topics[t] \in Topics
<1>1. topics \in Seq(Topics) /\ messages \in Seq(Mails)
  BY DEF MailTypeOK, Topics, Mails
<1> QED
  BY <1>1, LenProperties, ElementOfSeq DEF TopicIds, MessageIds

\* The invariant holds at the start.
LEMMA MailInvInit == MailInit => MailInv
<1> SUFFICES ASSUME MailInit PROVE MailInv
  OBVIOUS
<1>1. topics = <<>> /\ messages = <<>> /\ Len(messages) = 0 /\ MessageIds = {}
  BY DEF MailInit, MessageIds
<1>2. MailTypeOK
  BY <1>1 DEF MailInit, MailTypeOK
<1>3. MailFits
  BY <1>1, CoordinationAssumption DEF MailInit, MailFits
<1> QED
  BY <1>1, <1>2, <1>3 DEF MailInv, StoredOnce, TopicsAreKept

\* A call is for a topic that exists or a new one, and a reply goes back to the
\* sender of a message.
LEMMA CallTypes ==
    ASSUME MailInv, NEW a \in CxAgents, NEW q \in Requests(a)
    PROVE  /\ q.sender = a /\ q.recipient \in CxAgents /\ q.body \in Bodies
           /\ q.key \in Keys \cup {NoKey}
           /\ q.topic \in {0} \cup TopicIds
           /\ q.re = 0 \/ /\ q.re \in MessageIds
                          /\ messages[q.re].topic = q.topic
                          /\ messages[q.re].recipient = q.sender
<1>1. CASE q \in [topic : {0} \cup TopicIds, sender : {a}, recipient : CxAgents \ {a},
                  body : Bodies, re : {0}, key : Keys \cup {NoKey}]
  BY <1>1
<1>2. ASSUME NEW m \in MessageIds, messages[m].recipient = a, NEW b \in Bodies,
             NEW k \in Keys \cup {NoKey},
             q = [topic |-> messages[m].topic, sender |-> a, recipient |-> messages[m].sender,
                  body |-> b, re |-> m, key |-> k]
      PROVE  /\ q.sender = a /\ q.recipient \in CxAgents /\ q.body \in Bodies
             /\ q.key \in Keys \cup {NoKey}
             /\ q.topic \in {0} \cup TopicIds
             /\ q.re = 0 \/ /\ q.re \in MessageIds
                            /\ messages[q.re].topic = q.topic
                            /\ messages[q.re].recipient = q.sender
  <2>1. messages[m] \in Mails
    BY MailSequences DEF MailInv
  <2> QED
    BY <1>2, <2>1 DEF Mails, MailInv, MailFits
<1> QED
  BY <1>1, <1>2 DEF Requests

\* A call stays a call when messages and topics are added and marked.
LEMMA CallsStay ==
    ASSUME MailInv, TopicIds \subseteq TopicIds', MessageIds \subseteq MessageIds',
           \A m \in MessageIds : /\ messages'[m].topic = messages[m].topic
                                 /\ messages'[m].sender = messages[m].sender
                                 /\ messages'[m].recipient = messages[m].recipient,
           NEW a \in CxAgents
    PROVE  Requests(a) \subseteq Requests(a)'
BY DEF Requests

\* An answer that is lost leaves the call to be repeated.
LEMMA AnsweredWaits ==
    ASSUME MailInv, NEW a \in CxAgents, NEW q \in Calls(a), Answered(a, q),
           \A b \in CxAgents : Requests(b) \subseteq Requests(b)'
    PROVE  \A b \in CxAgents : waiting'[b] \in Requests(b)' \cup {NoCall}
<1>1. q \in Requests(a)
  BY DEF MailInv, MailTypeOK, Calls
<1>2. \A b \in CxAgents : waiting'[b] \in {waiting[b], NoCall} \/ (b = a /\ waiting'[b] = q)
  BY DEF Answered, MailInv, MailFits
<1> QED
  BY <1>1, <1>2 DEF MailInv, MailTypeOK

\* A stored message continues a topic that its sender knows and that is open,
\* or begins one.
LEMMA StoreKeeps ==
    ASSUME MailInv, NEW a \in CxAgents, NEW q \in Calls(a), Store(a, q) PROVE MailInv'
<1> DEFINE t == IF q.topic = 0 THEN Len(topics) + 1 ELSE q.topic
           n == Len(messages)
           row == Row(q, t)
<1>1. q \in Requests(a)
  BY DEF MailInv, MailTypeOK, Calls
<1>2. /\ q.sender = a /\ q.recipient \in CxAgents /\ q.body \in Bodies
      /\ q.key \in Keys \cup {NoKey}
      /\ q.topic \in {0} \cup TopicIds
      /\ q.re = 0 \/ /\ q.re \in MessageIds
                     /\ messages[q.re].topic = q.topic
                     /\ messages[q.re].recipient = q.sender
  BY <1>1, CallTypes
<1>3. /\ topics \in Seq(Topics) /\ messages \in Seq(Mails)
      /\ Len(topics) \in Nat /\ n \in Nat
      /\ TopicIds = 1 .. Len(topics) /\ MessageIds = 1 .. n
      /\ \A m \in MessageIds : messages[m] \in Mails
      /\ \A s \in TopicIds : topics[s] \in Topics
  BY MailSequences DEF MailInv
<1>4. /\ ~Refused(q) /\ Existing(q) = {}
      /\ n < MaxMessages /\ t <= MaxTopics
      /\ topics' = IF q.topic = 0 THEN Append(topics, [by |-> Nobody, size |-> 0]) ELSE topics
      /\ messages' = Append(messages, row)
      /\ Answered(a, q)
  BY DEF Store
<1>5. t \in 1 .. MaxTopics
  BY <1>2, <1>3, <1>4
<1>6. q.re \in 0 .. MaxMessages
  BY <1>2, <1>3, <1>4, CoordinationAssumption
<1>7. row \in Mails /\ row.topic = t /\ row.sender = q.sender /\ row.key = q.key
  BY <1>2, <1>5, <1>6 DEF Row, Mails
<1>8. [by |-> Nobody, size |-> 0] \in Topics
  BY CoordinationAssumption DEF Topics
<1> HIDE DEF row
<1>9. /\ messages' \in Seq(Mails) /\ Len(messages') = n + 1
      /\ \A m \in 1 .. n : messages'[m] = messages[m]
      /\ messages'[n + 1] = row
  BY <1>3, <1>4, <1>7, AppendProperties
<1>10. /\ topics' \in Seq(Topics) /\ Len(topics) <= Len(topics')
       /\ \A s \in TopicIds : topics'[s] = topics[s]
       /\ t \in 1 .. Len(topics')
       /\ q.topic = 0 => topics'[t] = [by |-> Nobody, size |-> 0]
  <2>1. CASE q.topic = 0
    BY <1>3, <1>4, <1>8, <2>1, AppendProperties
  <2>2. CASE q.topic # 0
    BY <1>2, <1>3, <1>4, <2>2
  <2> QED
    BY <2>1, <2>2
<1>11. /\ MessageIds' = 1 .. n + 1 /\ TopicIds' = 1 .. Len(topics')
       /\ Len(topics') \in Nat
       /\ MessageIds \subseteq MessageIds' /\ TopicIds \subseteq TopicIds'
  BY <1>3, <1>9, <1>10, LenProperties DEF MessageIds, TopicIds
<1>12. MailTypeOK' /\ DOMAIN waiting' = CxAgents
  <2>1. \A b \in CxAgents : Requests(b) \subseteq Requests(b)'
    BY <1>3, <1>9, <1>11, CallsStay
  <2>2. \A b \in CxAgents : waiting'[b] \in Requests(b)' \cup {NoCall}
    BY <1>4, <2>1, AnsweredWaits
  <2>3. DOMAIN waiting' = CxAgents
    BY <1>4 DEF MailInv, MailFits, Answered
  <2>4. topics' \in Seq(Topics) /\ messages' \in Seq(Mails)
    BY <1>9, <1>10
  <2>5. MailTypeOK'
    BY <2>2, <2>4 DEF MailTypeOK, Topics, Mails
  <2> QED
    BY <2>3, <2>5
<1>13. MailFits'
  <2>1. Len(messages') <= MaxMessages
    BY <1>3, <1>4, <1>9, CoordinationAssumption
  <2>2. ASSUME NEW m \in 1 .. n + 1 PROVE messages'[m].topic \in TopicIds'
    <3>1. CASE m \in 1 .. n
      BY <1>3, <1>9, <1>11, <3>1 DEF MailInv, MailFits
    <3>2. CASE m = n + 1
      BY <1>7, <1>9, <1>10, <1>11, <3>2
    <3> QED
      BY <1>3, <3>1, <3>2
  <2> QED
    BY <1>11, <1>12, <2>1, <2>2 DEF MailFits
<1>14. StoredOnce'
  <2>1. \A m \in 1 .. n : ~(messages[m].sender = q.sender /\ messages[m].key = q.key /\ q.key # NoKey)
    BY <1>3, <1>4 DEF Existing
  <2>2. ASSUME NEW m \in 1 .. n + 1, NEW k \in 1 .. n + 1,
               messages'[m].sender = messages'[k].sender, messages'[m].key = messages'[k].key,
               messages'[m].key # NoKey
        PROVE  m = k
    <3>1. CASE m \in 1 .. n /\ k \in 1 .. n
      BY <1>3, <1>9, <2>2, <3>1 DEF MailInv, StoredOnce
    <3>2. CASE m = n + 1 /\ k \in 1 .. n
      BY <1>7, <1>9, <2>1, <2>2, <3>2
    <3>3. CASE m \in 1 .. n /\ k = n + 1
      BY <1>7, <1>9, <2>1, <2>2, <3>3
    <3> QED
      BY <1>3, <3>1, <3>2, <3>3
  <2> QED
    BY <1>11, <2>2 DEF StoredOnce
<1>15. TopicsAreKept'
  <2>1. \/ \A k \in 1 .. n : messages[k].topic # t
        \/ \E k \in 1 .. n : /\ messages[k].topic = t
                             /\ q.sender \in {messages[k].sender, messages[k].recipient}
    <3>1. CASE q.topic = 0
      BY <1>3, <3>1 DEF MailInv, MailFits
    <3>2. CASE q.topic # 0 /\ q.re = 0
      <4>1. Participates(q.sender, q.topic)
        BY <1>4, <3>2 DEF Refused, Allowed
      <4> QED
        BY <1>3, <3>2, <4>1 DEF Participates
    <3>3. CASE q.topic # 0 /\ q.re # 0
      BY <1>2, <1>3, <3>3
    <3> QED
      BY <3>1, <3>2, <3>3
  <2>2. topics'[t].by = Nobody
    BY <1>2, <1>4, <1>10 DEF Refused, Allowed, IsOpen
  <2>3. ASSUME NEW m \in MessageIds'
        PROVE  /\ \/ \A k \in 1 .. m - 1 : messages'[k].topic # messages'[m].topic
                  \/ \E k \in 1 .. m - 1 : /\ messages'[k].topic = messages'[m].topic
                                           /\ messages'[m].sender \in {messages'[k].sender, messages'[k].recipient}
               /\ topics'[messages'[m].topic].by # Nobody => m <= topics'[messages'[m].topic].size
    <3>1. CASE m = n + 1
      <4>1. m - 1 = n
        BY <1>3, <3>1
      <4> QED
        BY <1>7, <1>9, <2>1, <2>2, <3>1, <4>1
    <3>2. CASE m \in 1 .. n
      <4>1. \A k \in 1 .. m - 1 : k \in 1 .. n
        BY <1>3, <3>2
      <4>2. messages[m].topic \in TopicIds
        BY <1>3, <3>2 DEF MailInv, MailFits
      <4>3. /\ \/ \A k \in 1 .. m - 1 : messages[k].topic # messages[m].topic
               \/ \E k \in 1 .. m - 1 : /\ messages[k].topic = messages[m].topic
                                        /\ messages[m].sender \in {messages[k].sender, messages[k].recipient}
            /\ topics[messages[m].topic].by # Nobody => m <= topics[messages[m].topic].size
        BY <1>3, <3>2 DEF MailInv, TopicsAreKept, IsOpen
      <4>4. messages'[m] = messages[m] /\ topics'[messages[m].topic] = topics[messages[m].topic]
        BY <1>9, <1>10, <3>2, <4>2
      <4>5. \A k \in 1 .. m - 1 : messages'[k] = messages[k]
        BY <1>9, <4>1
      <4> QED
        BY <4>3, <4>4, <4>5
    <3> QED
      BY <1>3, <1>11, <2>3, <3>1, <3>2
  <2> QED
    BY <2>3 DEF TopicsAreKept, IsOpen
<1> QED
  BY <1>12, <1>13, <1>14, <1>15 DEF MailInv

\* A call that is refused or repeated changes the waiting agent only.
LEMMA AnswerKeeps ==
    ASSUME MailInv, NEW a \in CxAgents, NEW q \in Calls(a), Answered(a, q),
           UNCHANGED <<topics, messages>>
    PROVE  MailInv'
<1>1. \A b \in CxAgents : Requests(b)' = Requests(b)
  BY DEF Requests, MessageIds, TopicIds
<1>2. \A b \in CxAgents : waiting'[b] \in Requests(b) \cup {NoCall}
  BY <1>1, AnsweredWaits
<1>3. MailTypeOK'
  BY <1>1, <1>2 DEF MailInv, MailTypeOK
<1>4. MailFits'
  BY DEF MailInv, MailFits, Answered, MessageIds, TopicIds
<1>5. StoredOnce' /\ TopicsAreKept'
  BY DEF MailInv, StoredOnce, TopicsAreKept, MessageIds, IsOpen
<1> QED
  BY <1>3, <1>4, <1>5 DEF MailInv

\* An acknowledgement marks a message.
LEMMA AcknowledgeKeeps ==
    ASSUME MailInv, NEW a \in CxAgents, Acknowledge(a) PROVE MailInv'
<1>1. PICK m \in MessageIds :
        messages' = [messages EXCEPT ![m].status = "acknowledged"]
  BY DEF Acknowledge
<1>2. topics' = topics /\ waiting' = waiting
  BY DEF Acknowledge
<1>3. /\ messages \in Seq(Mails) /\ Len(messages) \in Nat
      /\ MessageIds = 1 .. Len(messages)
      /\ \A k \in MessageIds : messages[k] \in Mails
  BY MailSequences DEF MailInv
<1>4. [messages[m] EXCEPT !.status = "acknowledged"] \in Mails
  BY <1>3 DEF Mails
<1>5. /\ messages' \in Seq(Mails) /\ Len(messages') = Len(messages)
      /\ \A k \in 1 .. Len(messages) :
           messages'[k] = IF k = m THEN [messages[m] EXCEPT !.status = "acknowledged"] ELSE messages[k]
  BY <1>1, <1>3, <1>4, ExceptSeq
<1>6. /\ MessageIds' = MessageIds /\ TopicIds' = TopicIds
      /\ \A k \in MessageIds : /\ messages'[k].topic = messages[k].topic
                               /\ messages'[k].sender = messages[k].sender
                               /\ messages'[k].recipient = messages[k].recipient
                               /\ messages'[k].key = messages[k].key
  <2>1. MessageIds' = MessageIds
    BY <1>3, <1>5, LenProperties DEF MessageIds
  <2>2. \A row \in Mails :
          LET marked == [row EXCEPT !.status = "acknowledged"] IN
          /\ marked.topic = row.topic /\ marked.sender = row.sender
          /\ marked.recipient = row.recipient /\ marked.key = row.key
    BY DEF Mails
  <2>3. TopicIds' = TopicIds
    BY <1>2 DEF TopicIds
  <2>4. ASSUME NEW k \in MessageIds
        PROVE  /\ messages'[k].topic = messages[k].topic
               /\ messages'[k].sender = messages[k].sender
               /\ messages'[k].recipient = messages[k].recipient
               /\ messages'[k].key = messages[k].key
    <3>1. messages[k] \in Mails /\ k \in 1 .. Len(messages)
      BY <1>3
    <3>2. messages'[k] \in {messages[k], [messages[k] EXCEPT !.status = "acknowledged"]}
      BY <1>5, <3>1
    <3> QED
      BY <2>2, <3>1, <3>2
  <2> QED
    BY <2>1, <2>3, <2>4
<1>7. \A b \in CxAgents : Requests(b) \subseteq Requests(b)'
  BY <1>6, CallsStay
<1>8. MailTypeOK'
  BY <1>2, <1>5, <1>7 DEF MailInv, MailTypeOK, Topics, Mails
<1>9. MailFits'
  BY <1>2, <1>5, <1>6 DEF MailInv, MailFits
<1>10. StoredOnce'
  BY <1>6 DEF MailInv, StoredOnce
<1>11. TopicsAreKept'
  <2>1. \A k \in MessageIds : \A j \in 1 .. k - 1 : j \in MessageIds
    BY <1>3
  <2> QED
    BY <1>2, <1>6, <2>1 DEF MailInv, TopicsAreKept, IsOpen
<1> QED
  BY <1>8, <1>9, <1>10, <1>11 DEF MailInv

\* A topic is closed with all messages it has by then.
LEMMA CloseKeeps ==
    ASSUME MailInv, NEW a \in CxAgents, CloseTopic(a) PROVE MailInv'
<1>1. PICK t \in TopicIds : topics' = [topics EXCEPT ![t] = [by |-> a, size |-> Len(messages)]]
  BY DEF CloseTopic
<1>2. messages' = messages /\ waiting' = waiting
  BY DEF CloseTopic
<1>3. /\ topics \in Seq(Topics) /\ Len(topics) \in Nat /\ Len(messages) \in Nat
      /\ TopicIds = 1 .. Len(topics) /\ MessageIds = 1 .. Len(messages)
  BY MailSequences DEF MailInv
<1>4. [by |-> a, size |-> Len(messages)] \in Topics
  BY <1>3, CoordinationAssumption DEF Topics, MailInv, MailFits
<1>5. /\ topics' \in Seq(Topics) /\ Len(topics') = Len(topics)
      /\ \A s \in 1 .. Len(topics) :
           topics'[s] = IF s = t THEN [by |-> a, size |-> Len(messages)] ELSE topics[s]
  BY <1>1, <1>3, <1>4, ExceptSeq
<1>6. TopicIds' = TopicIds /\ MessageIds' = MessageIds
  BY <1>2, <1>3, <1>5, LenProperties DEF TopicIds, MessageIds
<1>7. \A b \in CxAgents : Requests(b) \subseteq Requests(b)'
  BY <1>2, <1>6, CallsStay
<1>8. MailTypeOK'
  BY <1>2, <1>5, <1>7 DEF MailInv, MailTypeOK, Topics, Mails
<1>9. MailFits' /\ StoredOnce'
  BY <1>2, <1>6 DEF MailInv, MailFits, StoredOnce
<1>10. TopicsAreKept'
  <2>1. \A m \in MessageIds : messages[m].topic \in 1 .. Len(topics) /\ m <= Len(messages)
    BY <1>3 DEF MailInv, MailFits
  <2> QED
    BY <1>2, <1>5, <1>6, <2>1 DEF MailInv, TopicsAreKept, IsOpen
<1> QED
  BY <1>8, <1>9, <1>10 DEF MailInv

\* Every call of an agent keeps the invariant of the store.
LEMMA MailInvStep == MailInv /\ [MailNext]_mailVars => MailInv'
<1> SUFFICES ASSUME MailInv, [MailNext]_mailVars PROVE MailInv'
  OBVIOUS
<1>1. ASSUME NEW a \in CxAgents, NEW q \in Calls(a), Store(a, q) PROVE MailInv'
  BY <1>1, StoreKeeps
<1>2. ASSUME NEW a \in CxAgents, NEW q \in Calls(a), Refuse(a, q) \/ Repeat(a, q) PROVE MailInv'
  BY <1>2, AnswerKeeps DEF Refuse, Repeat
<1>3. ASSUME NEW a \in CxAgents, Acknowledge(a) \/ CloseTopic(a) PROVE MailInv'
  BY <1>3, AcknowledgeKeeps, CloseKeeps
<1>4. CASE UNCHANGED mailVars
  <2>1. \A b \in CxAgents : Requests(b)' = Requests(b)
    BY <1>4 DEF mailVars, Requests, MessageIds, TopicIds
  <2>2. MailTypeOK'
    BY <1>4, <2>1 DEF mailVars, MailInv, MailTypeOK
  <2> QED
    BY <1>4, <2>2 DEF mailVars, MailInv, MailFits, StoredOnce, TopicsAreKept, IsOpen,
       MessageIds, TopicIds
<1> QED
  BY <1>1, <1>2, <1>3, <1>4 DEF MailNext

\* A call that was stored and repeated is refused only where a topic was
\* closed: this is how a call is refused.
LEMMA RepeatsAnswered == RepeatIsAnswered
BY DEF RepeatIsAnswered, Refused, TopicFirst

\* Each call with a key is stored once however often it is repeated, topics
\* keep out strangers and what comes after their end (send_message,
\* reply_message, close_topic).
THEOREM MailIsKept == MailSpec => []MailAgrees
<1>1. MailInv => MailAgrees
  BY RepeatsAnswered DEF MailInv, MailAgrees
<1> QED
  BY <1>1, MailInvInit, MailInvStep, PTL DEF MailSpec
-----------------------------------------------------------------------------
(* The monitor of new works. *)

Found == SUBSET (Artists \X Works)
RunsInProgress == [at : {"loaded", "scanning", "merged"}, state : [Artists -> Entries],
                   todo : SUBSET Artists, items : Found]
EditsInProgress ==
    [at : {"list"}, artist : Artists, add : BOOLEAN, list : SUBSET Artists]
    \cup [at : {"state"}, artist : Artists, add : BOOLEAN]
    \cup [at : {"save"}, artist : Artists, entry : Entries, state : [Artists -> Entries]]

\* The types of what is in progress, and of the rest.
MonitorTyped ==
    /\ published \in [Artists -> Works]
    /\ watched \subseteq Artists
    /\ file \in [Artists -> Entries]
    /\ arrivals \in Found /\ unread \subseteq arrivals
    /\ run \in {NoRun} \cup RunsInProgress
    /\ edit \in [Editors -> {NoEdit} \cup EditsInProgress]
    /\ since \in [Artists -> 0 .. MaxWorks]
    /\ beyond \in Found /\ dismissed \subseteq arrivals
    /\ edits \in 0 .. MaxEdits /\ failures \in 0 .. MaxFailures

\* What a state file counts as seen is known, beyond the head of the site or
\* pending.
Accounts(entries, known) ==
    \A a \in Artists : \A w \in Works :
        since[a] < w /\ w <= entries[a].top => <<a, w>> \in known \cup beyond \/ w \in entries[a].pending

\* The copies of the state file account for the works, the run's one with what
\* the run has found.
CopiesAccount ==
    /\ Accounts(file, arrivals)
    /\ run # NoRun => Accounts(run.state, arrivals \cup run.items)
    /\ run # NoRun /\ run.at = "merged" => run.items \subseteq arrivals
    /\ \A e \in Editors : edit[e].at = "save" => Accounts(edit[e].state, arrivals)

MonitorInv == MonitorTyped /\ CopiesAccount /\ DismissedStaysRead

\* More arrivals, more works beyond the head and a later initialization leave
\* every copy accounted for.
LEMMA AccountsGrow ==
    ASSUME NEW entries, NEW known, NEW more, Accounts(entries, known), known \subseteq more,
           beyond \subseteq beyond', MonitorTyped, since' \in [Artists -> 0 .. MaxWorks],
           \A a \in Artists : since[a] <= since'[a]
    PROVE  \A a \in Artists : \A w \in Works :
             since'[a] < w /\ w <= entries[a].top
             => <<a, w>> \in more \cup beyond' \/ w \in entries[a].pending
<1>1. \A a \in Artists : since[a] \in Int /\ since'[a] \in Int
  BY MonitorAssumption DEF MonitorTyped
<1>2. \A w \in Works : w \in Int
  BY DEF Works
<1> QED
  BY <1>1, <1>2 DEF Accounts

\* The invariant holds at the start.
LEMMA MonitorInvInit == MonitorInit => MonitorInv
<1> SUFFICES ASSUME MonitorInit PROVE MonitorInv
  OBVIOUS
<1> USE MonitorAssumption DEF MonitorInit
<1>1. Unknown \in Entries /\ 1 \in Works /\ {} \in Found
  BY DEF Unknown, Entries, Works, Found
<1>2. MonitorTyped
  BY <1>1 DEF MonitorTyped
<1>3. CopiesAccount
  BY DEF CopiesAccount, Accounts, Unknown, Works, NoRun, NoEdit
<1>4. DismissedStaysRead
  BY DEF DismissedStaysRead
<1> QED
  BY <1>2, <1>3, <1>4 DEF MonitorInv

\* A step that changes neither the arrivals nor a copy of the state file.
LEMMA CopiesStay ==
    ASSUME MonitorInv, UNCHANGED <<file, arrivals, since, beyond>>,
           run' = run \/ run' = NoRun,
           \A e \in Editors : edit'[e] = edit[e] \/ edit'[e].at \in {"idle", "list", "state"}
    PROVE  CopiesAccount'
BY DEF MonitorInv, CopiesAccount, Accounts, NoRun

\* Looking at an artist: what is new is found, pending or beyond the head.
LEMMA ScanKeeps ==
    ASSUME MonitorInv, NEW a \in Artists, Scan(a) PROVE MonitorInv'
<1>1. PICK failed \in SUBSET Candidates(a) :
        /\ IF failed = {} THEN UNCHANGED failures ELSE Failure
        /\ run' = [run EXCEPT !.todo = @ \ {a}, !.items = @ \cup ({a} \X (Candidates(a) \ failed)),
                              !.state[a] = [top |-> published[a], pending |-> Pending(failed)]]
  BY DEF Scan
<1>2. /\ run.at = "scanning"
      /\ beyond' = beyond \cup ({a} \X {w \in 1 .. published[a] \ HeadOf(a) : w > run.state[a].top})
      /\ UNCHANGED <<published, watched, file, arrivals, unread, edit, since, dismissed, edits>>
  BY DEF Scan
<1>3. /\ run \in RunsInProgress /\ run # NoRun
      /\ run.state \in [Artists -> Entries] /\ run.todo \subseteq Artists /\ run.items \in Found
  BY <1>2 DEF MonitorInv, MonitorTyped, NoRun, RunsInProgress
<1>4. /\ published[a] \in Works /\ published[a] \in 0 .. MaxWorks
      /\ run.state[a] \in Entries /\ run.state[a].top \in Int /\ run.state[a].pending \subseteq Works
  BY <1>3, MonitorAssumption DEF MonitorInv, MonitorTyped, Works, Entries
<1>5. Candidates(a) \subseteq Works
  BY <1>4 DEF Candidates, HeadOf
<1> DEFINE entry == [top |-> published[a], pending |-> failed]
           items == run.items \cup ({a} \X (Candidates(a) \ failed))
           state == [run.state EXCEPT ![a] = entry]
<1>6. entry \in Entries /\ items \in Found
  BY <1>3, <1>4, <1>5 DEF Entries, Found
<1>7. run' = [at |-> "scanning", state |-> state, todo |-> run.todo \ {a}, items |-> items]
  BY <1>1, <1>2, <1>3 DEF RunsInProgress, Pending
<1>8. state \in [Artists -> Entries] /\ state[a] = entry
      /\ \A c \in Artists : c # a => state[c] = run.state[c]
  BY <1>3, <1>6
<1>9. run' \in RunsInProgress /\ run' # NoRun /\ run'.state = state /\ run'.items = items
      /\ run'.at = "scanning"
  <2> HIDE DEF state, items, entry
  <2>1. run'.state = state /\ run'.items = items /\ run'.at = "scanning"
    BY <1>7
  <2>2. run.todo \ {a} \in SUBSET Artists
    BY <1>3
  <2>3. run' \in RunsInProgress
    BY <1>6, <1>7, <1>8, <2>2 DEF RunsInProgress
  <2>4. NoRun.at = "idle"
    BY DEF NoRun
  <2> QED
    BY <2>1, <2>3, <2>4
<1>10. beyond' \in Found /\ beyond \subseteq beyond'
  <2> DEFINE gone == {w \in 1 .. published[a] \ HeadOf(a) : w > run.state[a].top}
  <2>1. 1 .. published[a] \subseteq Works
    BY <1>4, MonitorAssumption DEF Works
  <2>2. gone \subseteq Works
    BY <2>1
  <2>3. beyond' = beyond \cup ({a} \X gone)
    BY <1>2
  <2> HIDE DEF gone
  <2>4. {a} \X gone \subseteq Artists \X Works
    BY <2>2
  <2>5. beyond \subseteq Artists \X Works
    BY DEF MonitorInv, MonitorTyped, Found
  <2> QED
    BY <2>3, <2>4, <2>5 DEF Found
<1>11. failures' \in 0 .. MaxFailures
  BY <1>1, MonitorAssumption DEF Failure, MonitorInv, MonitorTyped
<1>12. MonitorTyped'
  BY <1>2, <1>9, <1>10, <1>11 DEF MonitorInv, MonitorTyped
<1>13. ASSUME NEW c \in Artists, NEW w \in Works, since[c] < w, w <= state[c].top
       PROVE  <<c, w>> \in (arrivals \cup items) \cup beyond' \/ w \in state[c].pending
  <2>1. CASE c # a
    BY <1>3, <1>8, <1>10, <1>13, <2>1 DEF MonitorInv, CopiesAccount, Accounts
  <2>2. CASE c = a /\ w <= run.state[a].top
    <3>1. <<a, w>> \in (arrivals \cup run.items) \cup beyond \/ w \in run.state[a].pending
      BY <1>3, <1>13, <2>2 DEF MonitorInv, CopiesAccount, Accounts
    <3>2. w \in run.state[a].pending => w \in failed \/ <<a, w>> \in items
      BY DEF Candidates
    <3> QED
      BY <1>8, <1>10, <2>2, <3>1, <3>2
  <2>3. CASE c = a /\ ~(w <= run.state[a].top)
    <3>1. w \in Int /\ w > run.state[a].top /\ w <= published[a] /\ w \in 1 .. published[a]
      BY <1>4, <1>8, <1>13, <2>3 DEF Works
    <3>2. w \in HeadOf(a) => w \in failed \/ <<a, w>> \in items
      BY <3>1 DEF Candidates
    <3>3. w \notin HeadOf(a) => <<a, w>> \in beyond'
      BY <1>2, <3>1
    <3> QED
      BY <1>8, <2>3, <3>2, <3>3
  <2> QED
    BY <2>1, <2>2, <2>3
<1> HIDE DEF state, items, entry
<1>14. CopiesAccount'
  <2>1. \A c \in Artists : \A w \in Works :
          since'[c] < w /\ w <= run'.state[c].top
          => <<c, w>> \in (arrivals' \cup run'.items) \cup beyond' \/ w \in run'.state[c].pending
    BY <1>2, <1>9, <1>13
  <2>2. \A c \in Artists : \A w \in Works :
          since'[c] < w /\ w <= file'[c].top
          => <<c, w>> \in arrivals' \cup beyond' \/ w \in file'[c].pending
    BY <1>2, <1>10 DEF MonitorInv, CopiesAccount, Accounts
  <2>3. \A e \in Editors : edit'[e].at = "save" =>
          \A c \in Artists : \A w \in Works :
            since'[c] < w /\ w <= edit'[e].state[c].top
            => <<c, w>> \in arrivals' \cup beyond' \/ w \in edit'[e].state[c].pending
    BY <1>2, <1>10 DEF MonitorInv, CopiesAccount, Accounts
  <2>4. run'.at # "merged"
    BY <1>9
  <2> QED
    BY <2>1, <2>2, <2>3, <2>4 DEF CopiesAccount, Accounts
<1>15. DismissedStaysRead'
  BY <1>2 DEF MonitorInv, DismissedStaysRead
<1> QED
  BY <1>12, <1>14, <1>15 DEF MonitorInv

\* The rest of a run.
LEMMA RunKeeps ==
    ASSUME MonitorInv, RunLoads \/ RunReadsList \/ Merge \/ SaveRun \/ RunDies
                       \/ \E a \in Artists : Skip(a)
    PROVE  MonitorInv'
<1> USE DEF MonitorInv, MonitorTyped
<1>1. CASE RunLoads
  <2>1. run' = [at |-> "loaded", state |-> file, todo |-> {}, items |-> {}]
        /\ UNCHANGED <<published, watched, file, arrivals, unread, edit, since, beyond, dismissed, edits, failures>>
    BY <1>1 DEF RunLoads
  <2>2. run' \in RunsInProgress
    BY <2>1 DEF RunsInProgress, Found
  <2>3. CopiesAccount'
    BY <2>1 DEF CopiesAccount, Accounts
  <2> QED
    BY <2>1, <2>2, <2>3 DEF DismissedStaysRead
<1>2. ASSUME RunReadsList \/ \E a \in Artists : Skip(a) PROVE MonitorInv'
  <2>1. /\ run.at \in {"loaded", "scanning"}
        /\ run' = [run EXCEPT !.at = "scanning", !.todo = watched]
           \/ \E a \in Artists : run' = [run EXCEPT !.todo = @ \ {a}]
        /\ UNCHANGED <<published, watched, file, arrivals, unread, edit, since, beyond, dismissed, edits, failures>>
    BY <1>2 DEF RunReadsList, Skip
  <2>2. run \in RunsInProgress /\ run # NoRun
    BY <2>1 DEF NoRun
  <2>3. run' \in RunsInProgress /\ run'.state = run.state /\ run'.items = run.items /\ run'.at # "merged"
    BY <2>1, <2>2 DEF RunsInProgress
  <2>4. CopiesAccount'
    BY <2>1, <2>2, <2>3 DEF CopiesAccount, Accounts
  <2> QED
    BY <2>1, <2>3, <2>4 DEF DismissedStaysRead
<1>3. CASE Merge
  <2>1. /\ run.at = "scanning"
        /\ arrivals' = arrivals \cup run.items
        /\ unread' = unread \cup (run.items \ arrivals)
        /\ run' = [run EXCEPT !.at = "merged"]
        /\ UNCHANGED <<published, watched, file, edit, since, beyond, dismissed, edits, failures>>
    BY <1>3 DEF Merge, FreshItems
  <2>2. run \in RunsInProgress /\ run # NoRun
    BY <2>1 DEF NoRun
  <2>3. run' \in RunsInProgress /\ run'.state = run.state /\ run'.items = run.items /\ run.items \in Found
    BY <2>1, <2>2 DEF RunsInProgress
  <2>4. CopiesAccount'
    BY <2>1, <2>2, <2>3 DEF CopiesAccount, Accounts
  <2>5. DismissedStaysRead'
    BY <2>1 DEF DismissedStaysRead
  <2>6. MonitorTyped'
    BY <2>1, <2>3 DEF Found
  <2> QED
    BY <2>4, <2>5, <2>6
<1>4. CASE SaveRun
  <2>1. /\ run.at = "merged" /\ file' = run.state /\ run' = NoRun
        /\ UNCHANGED <<published, watched, arrivals, unread, edit, since, beyond, dismissed, edits, failures>>
    BY <1>4 DEF SaveRun, MaySave
  <2>2. run \in RunsInProgress /\ run # NoRun /\ run.state \in [Artists -> Entries]
    BY <2>1 DEF NoRun, RunsInProgress
  <2>3. CopiesAccount'
    BY <2>1, <2>2 DEF CopiesAccount, Accounts
  <2> QED
    BY <2>1, <2>2, <2>3 DEF DismissedStaysRead
<1>5. CASE RunDies
  <2>1. /\ run' = NoRun /\ Failure
        /\ UNCHANGED <<published, watched, file, arrivals, unread, edit, since, beyond, dismissed, edits>>
    BY <1>5 DEF RunDies
  <2>2. failures' \in 0 .. MaxFailures
    BY <2>1, MonitorAssumption DEF Failure
  <2>3. CopiesAccount'
    BY <2>1, CopiesStay
  <2> QED
    BY <2>1, <2>2, <2>3 DEF DismissedStaysRead
<1> QED
  BY <1>1, <1>2, <1>3, <1>4, <1>5

\* The edits of the watch list: the entry that an edit saves is as new as the
\* initialization it stands for.
LEMMA EditKeeps ==
    ASSUME MonitorInv, NEW e \in Editors,
           (\E a \in Artists : EditLoads(e, a)) \/ EditSavesList(e) \/ EditLoadsState(e)
           \/ EditSavesState(e) \/ EditFails(e)
    PROVE  MonitorInv'
<1> USE DEF MonitorInv, MonitorTyped
<1>1. ASSUME NEW a \in Artists, EditLoads(e, a) PROVE MonitorInv'
  <2> DEFINE record == [at |-> "list", artist |-> a, add |-> a \notin watched, list |-> watched]
  <2>1. /\ edit' = [edit EXCEPT ![e] = record]
        /\ edits < MaxEdits /\ edits' = edits + 1
        /\ UNCHANGED <<published, watched, file, arrivals, unread, run, since, beyond, dismissed, failures>>
    BY <1>1 DEF EditLoads, Edits
  <2>2. record \in EditsInProgress /\ record.at = "list"
    BY DEF EditsInProgress
  <2> HIDE DEF record
  <2>3. MonitorTyped'
    BY <2>1, <2>2, MonitorAssumption
  <2>4. CopiesAccount'
    BY <2>1, <2>2, CopiesStay
  <2> QED
    BY <2>1, <2>3, <2>4 DEF DismissedStaysRead
<1>2. CASE EditSavesList(e)
  <2> DEFINE record == [at |-> "state", artist |-> edit[e].artist, add |-> edit[e].add]
  <2>1. /\ edit' = [edit EXCEPT ![e] = record]
        /\ edit[e].at = "list"
        /\ watched' = IF edit[e].add THEN edit[e].list \cup {edit[e].artist} ELSE edit[e].list \ {edit[e].artist}
        /\ UNCHANGED <<published, file, arrivals, unread, run, since, beyond, dismissed, edits, failures>>
    BY <1>2 DEF EditSavesList, Edits
  <2>2. edit[e].artist \in Artists /\ edit[e].add \in BOOLEAN /\ edit[e].list \subseteq Artists
    BY <2>1 DEF EditsInProgress, NoEdit
  <2>3. record \in EditsInProgress /\ record.at = "state"
    BY <2>2 DEF EditsInProgress
  <2> HIDE DEF record
  <2>4. MonitorTyped'
    BY <2>1, <2>2, <2>3
  <2>5. CopiesAccount'
    BY <2>1, <2>3, CopiesStay
  <2> QED
    BY <2>1, <2>4, <2>5 DEF DismissedStaysRead
<1>3. CASE EditLoadsState(e)
  <2> DEFINE entry == IF edit[e].add THEN [Unknown EXCEPT !.top = published[edit[e].artist]] ELSE Unknown
             record == [at |-> "save", artist |-> edit[e].artist, entry |-> entry, state |-> file]
  <2>1. /\ edit' = [edit EXCEPT ![e] = record]
        /\ edit[e].at = "state"
        /\ UNCHANGED <<published, watched, file, arrivals, unread, run, since, beyond, dismissed, edits, failures>>
    BY <1>3 DEF EditLoadsState, Edits
  <2>2. edit[e].artist \in Artists /\ edit[e].add \in BOOLEAN
    BY <2>1 DEF EditsInProgress, NoEdit
  <2>3. entry \in Entries
    BY <2>2, MonitorAssumption DEF Unknown, Entries, Works
  <2>4. record \in EditsInProgress /\ record.at = "save" /\ record.state = file
    BY <2>2, <2>3 DEF EditsInProgress
  <2> HIDE DEF record
  <2>5. MonitorTyped'
    BY <2>1, <2>4
  <2>6. CopiesAccount'
    BY <2>1, <2>4 DEF CopiesAccount, Accounts
  <2> QED
    BY <2>1, <2>5, <2>6 DEF DismissedStaysRead
<1>4. CASE EditSavesState(e)
  <2> DEFINE a == edit[e].artist
             entry == edit[e].entry
  <2>1. /\ edit' = [edit EXCEPT ![e] = NoEdit]
        /\ edit[e].at = "save"
        /\ file' = [edit[e].state EXCEPT ![a] = entry]
        /\ since' = IF entry.top > since[a] THEN [since EXCEPT ![a] = entry.top] ELSE since
        /\ UNCHANGED <<published, watched, arrivals, unread, run, beyond, dismissed, edits, failures>>
    BY <1>4 DEF EditSavesState, Edits
  <2>2. a \in Artists /\ entry \in Entries /\ edit[e].state \in [Artists -> Entries]
        /\ entry.top \in 0 .. MaxWorks
    BY <2>1 DEF EditsInProgress, NoEdit, Entries
  <2> HIDE DEF a, entry
  <2>3. /\ since' \in [Artists -> 0 .. MaxWorks]
        /\ \A c \in Artists : since[c] <= since'[c]
        /\ entry.top <= since'[a]
    BY <2>1, <2>2, MonitorAssumption
  <2>4. MonitorTyped'
    BY <2>1, <2>2, <2>3
  <2>5. \A c \in Artists : since[c] \in Int /\ since'[c] \in Int
    BY <2>3, MonitorAssumption
  <2>6. \A w \in Works : w \in Int
    BY DEF Works
  <2>7. Accounts(file, arrivals)'
    BY <2>1, <2>2, <2>3, <2>5, <2>6 DEF CopiesAccount, Accounts
  <2>8. run' # NoRun => Accounts(run.state, arrivals \cup run.items)'
    BY <2>1, <2>3, <2>5, <2>6 DEF CopiesAccount, Accounts
  <2>9. \A d \in Editors : edit'[d].at = "save" => Accounts(edit[d].state, arrivals)'
    BY <2>1, <2>3, <2>5, <2>6 DEF CopiesAccount, Accounts, NoEdit
  <2>10. CopiesAccount'
    BY <2>1, <2>7, <2>8, <2>9 DEF CopiesAccount
  <2> QED
    BY <2>1, <2>4, <2>10 DEF DismissedStaysRead
<1>5. CASE EditFails(e)
  <2>1. /\ edit' = [edit EXCEPT ![e] = NoEdit] /\ Failure
        /\ UNCHANGED <<published, watched, file, arrivals, unread, run, since, beyond, dismissed, edits>>
    BY <1>5 DEF EditFails, Edits
  <2>2. failures' \in 0 .. MaxFailures
    BY <2>1, MonitorAssumption DEF Failure
  <2>3. CopiesAccount'
    BY <2>1, CopiesStay DEF NoEdit
  <2> QED
    BY <2>1, <2>2, <2>3 DEF DismissedStaysRead
<1> QED
  BY <1>1, <1>2, <1>3, <1>4, <1>5

\* Every step keeps the invariant of the monitor.
LEMMA MonitorInvStep == MonitorInv /\ [MonitorNext]_monitorVars => MonitorInv'
<1> SUFFICES ASSUME MonitorInv, [MonitorNext]_monitorVars PROVE MonitorInv'
  OBVIOUS
<1>1. ASSUME NEW a \in Artists, Scan(a) PROVE MonitorInv'
  BY <1>1, ScanKeeps
<1>2. ASSUME RunLoads \/ RunReadsList \/ Merge \/ SaveRun \/ RunDies \/ \E a \in Artists : Skip(a)
      PROVE  MonitorInv'
  BY <1>2, RunKeeps
<1>3. ASSUME NEW e \in Editors,
             (\E a \in Artists : EditLoads(e, a)) \/ EditSavesList(e) \/ EditLoadsState(e)
             \/ EditSavesState(e) \/ EditFails(e)
      PROVE  MonitorInv'
  BY <1>3, EditKeeps
<1>4. ASSUME NEW a \in Artists, Publish(a) PROVE MonitorInv'
  <2>1. /\ published[a] < MaxWorks /\ published' = [published EXCEPT ![a] = @ + 1]
        /\ UNCHANGED <<watched, file, arrivals, unread, run, edit, since, beyond, dismissed, edits, failures>>
    BY <1>4 DEF Publish
  <2>2. published' \in [Artists -> Works]
    BY <2>1, MonitorAssumption DEF MonitorInv, MonitorTyped, Works
  <2>3. CopiesAccount'
    BY <2>1, CopiesStay
  <2> QED
    BY <2>1, <2>2, <2>3 DEF MonitorInv, MonitorTyped, DismissedStaysRead
<1>5. CASE Dismiss
  <2>1. PICK read \in {{w} : w \in unread} \cup {unread} :
          unread' = unread \ read /\ dismissed' = dismissed \cup read
    BY <1>5 DEF Dismiss
  <2>2. read \subseteq unread
    BY <2>1
  <2>3. UNCHANGED <<published, watched, file, arrivals, run, edit, since, beyond, edits, failures>>
    BY <1>5 DEF Dismiss
  <2>4. CopiesAccount'
    BY <2>3, CopiesStay
  <2> QED
    BY <2>1, <2>2, <2>3, <2>4 DEF MonitorInv, MonitorTyped, DismissedStaysRead
<1>6. CASE UNCHANGED monitorVars
  <2>1. CopiesAccount'
    BY <1>6, CopiesStay DEF monitorVars
  <2> QED
    BY <1>6, <2>1 DEF monitorVars, MonitorInv, MonitorTyped, DismissedStaysRead
<1> QED
  BY <1>1, <1>2, <1>3, <1>4, <1>5, <1>6 DEF MonitorNext

\* Whatever runs, edits and failures overlap, no work that appeared after its
\* artist was last initialized is lost within the head of the site, and no
\* dismissed work comes back (tools/hitomi_monitor.py, arrival_store.py).
THEOREM ArrivalsAreKept == MonitorSpec => []ArrivalsAgree
<1>1. MonitorInv => ArrivalsAgree
  BY DEF MonitorInv, CopiesAccount, Accounts, ArrivalsAgree, NothingIsMissed
<1> QED
  BY <1>1, MonitorInvInit, MonitorInvStep, PTL DEF MonitorSpec

-----------------------------------------------------------------------------
(* The generation of books. *)

GenerationJobs == [at : {"started", "walking", "moving"}, todo : SUBSET Items, listed : SUBSET Items,
                   moves : SUBSET Items, swapped : SUBSET Items]
FirstJob == [at |-> "started", todo |-> {}, listed |-> {}, moves |-> {}, swapped |-> {}]

\* What a job is going to move is in the library as it is in the folder, unless
\* the user changed it since or another item wrote to its book; what it has
\* still to read or to generate it does not move.
MovesAreGenerated ==
    job # NoJob =>
        /\ job.at = "started" => job.moves = {} /\ job.listed = {}
        /\ \A i \in Items : i \in job.moves =>
               i \notin job.todo \cup job.listed /\ (images[i] = folder[i] \/ i \in job.swapped)
        /\ job.todo \cap job.listed = {}

DoujinInv ==
    /\ folder \in Versions /\ images \in Versions /\ archive \in Versions /\ copied \in 0 .. MaxVersion
    /\ job \in {NoJob} \cup GenerationJobs
    /\ MovesAreGenerated

\* The invariant holds at the start.
LEMMA DoujinInvInit == DoujinInit => DoujinInv
BY DoujinAssumption DEF DoujinInit, DoujinInv, Nothing, Versions, MovesAreGenerated

\* The user's steps note what they swap.
LEMMA UserKeeps ==
    ASSUME DoujinInv, NEW i \in Items, Copy(i) \/ TakeOut(i) PROVE DoujinInv'
<1> USE DEF DoujinInv
<1>1. PICK v \in 0 .. MaxVersion : folder' = [folder EXCEPT ![i] = v]
  BY DoujinAssumption DEF Copy, TakeOut
<1>2. Changed(i) /\ copied' \in 0 .. MaxVersion /\ images' = images /\ archive' = archive
  BY DoujinAssumption DEF Copy, TakeOut
<1>3. folder' \in Versions /\ \A j \in Items : j # i => folder'[j] = folder[j]
  BY <1>1 DEF Versions
<1>4. CASE job = NoJob \/ i \notin job.listed \cup job.moves
  <2>1. job' = job
    BY <1>2, <1>4 DEF Changed
  <2> QED
    BY <1>2, <1>3, <1>4, <2>1 DEF MovesAreGenerated
<1>5. CASE job # NoJob /\ i \in job.listed \cup job.moves
  <2>1. job' = [job EXCEPT !.swapped = @ \cup {i}] /\ job \in GenerationJobs
    BY <1>2, <1>5 DEF Changed
  <2>2. job' \in GenerationJobs /\ job'.at = job.at /\ job'.moves = job.moves /\ job'.todo = job.todo
        /\ job'.listed = job.listed /\ job'.swapped = job.swapped \cup {i}
    BY <2>1 DEF GenerationJobs
  <2>3. MovesAreGenerated'
    BY <1>2, <1>3, <1>5, <2>2 DEF MovesAreGenerated
  <2> QED
    BY <1>2, <1>3, <2>2, <2>3
<1> QED
  BY <1>4, <1>5

\* What writing to a book does to the versions in the library.
LEMMA BookWritten ==
    ASSUME images \in Versions, NEW i \in Items, NEW version \in 0 .. MaxVersion,
           OverwritesOthers(i, version) \/ Overwrites(i)
    PROVE  /\ images' \in Versions
           /\ \A k \in Items : k \notin SameBook(i) => images'[k] = images[k]
           /\ OverwritesOthers(i, version) => images'[i] = version
<1>0. i \in SameBook(i) /\ 0 \in 0 .. MaxVersion
  BY DoujinAssumption DEF SameBook
<1>1. CASE OverwritesOthers(i, version)
  <2>1. PICK torn \in SUBSET SameBook(i) :
          images' = [k \in Items |-> IF k = i THEN version ELSE IF k \in torn THEN 0 ELSE images[k]]
    BY <1>1 DEF OverwritesOthers
  <2> QED
    BY <1>0, <2>1 DEF Versions
<1>2. CASE Overwrites(i) /\ ~OverwritesOthers(i, version)
  <2>1. PICK torn \in SUBSET SameBook(i) : images' = [k \in Items |-> IF k \in torn THEN 0 ELSE images[k]]
    BY <1>2 DEF Overwrites
  <2> QED
    BY <1>0, <1>2, <2>1 DEF Versions
<1> QED
  BY <1>1, <1>2

\* Every step keeps the invariant of the generation.
LEMMA DoujinInvStep == DoujinInv /\ [DoujinNext]_doujinVars => DoujinInv'
<1> SUFFICES ASSUME DoujinInv, [DoujinNext]_doujinVars PROVE DoujinInv'
  OBVIOUS
<1> USE DEF DoujinInv
<1>1. ASSUME NEW i \in Items, Copy(i) \/ TakeOut(i) PROVE DoujinInv'
  BY <1>1, UserKeeps
<1>2. ASSUME UNCHANGED <<folder, copied, images, archive>>,
             job' \in {job, NoJob, FirstJob}
      PROVE  DoujinInv'
  <2>1. job' \in {NoJob} \cup GenerationJobs
    BY <1>2 DEF GenerationJobs, FirstJob
  <2>2. MovesAreGenerated'
    BY <1>2 DEF MovesAreGenerated, FirstJob
  <2> QED
    BY <1>2, <2>1, <2>2
<1>3. CASE Tick \/ Manual \/ EndJob \/ JobRaises \/ StopServer \/ UNCHANGED doujinVars
  <2>1. UNCHANGED <<folder, copied, images, archive>>
    BY <1>3 DEF Tick, TickEmpty, TickChanged, TickStable, Attempt, Manual, EndJob, JobRaises, StopServer, doujinVars
  <2>2. job' \in {job, NoJob, FirstJob}
    BY <1>3 DEF Tick, TickEmpty, TickChanged, TickStable, Attempt, StartJob, FirstJob, Manual, EndJob, JobRaises,
                StopServer, doujinVars
  <2> QED
    BY <1>2, <2>1, <2>2
<1>4. ASSUME job.at \in {"started", "walking", "moving"} PROVE job \in GenerationJobs /\ job # NoJob
  BY <1>4 DEF NoJob
<1>5. CASE Walk
  <2>1. job.at = "started" /\ job' = [job EXCEPT !.at = "walking", !.todo = {i \in Items : folder[i] # 0}]
        /\ UNCHANGED <<folder, copied, images, archive>>
    BY <1>5 DEF Walk
  <2>2. job \in GenerationJobs /\ job # NoJob
    BY <1>4, <2>1
  <2>3. job' \in GenerationJobs /\ job'.moves = {} /\ job'.listed = {} /\ job'.at = "walking"
    BY <2>1, <2>2 DEF GenerationJobs, MovesAreGenerated
  <2> QED
    BY <2>1, <2>3 DEF MovesAreGenerated
<1>6. CASE StartMoves
  <2>1. job.at = "walking" /\ job' = [job EXCEPT !.at = "moving"]
        /\ UNCHANGED <<folder, copied, images, archive>>
    BY <1>6 DEF StartMoves
  <2>2. job \in GenerationJobs /\ job # NoJob
    BY <1>4, <2>1
  <2>3. job' \in GenerationJobs /\ job'.moves = job.moves /\ job'.at = "moving" /\ job'.todo = job.todo
        /\ job'.listed = job.listed /\ job'.swapped = job.swapped
    BY <2>1, <2>2 DEF GenerationJobs
  <2> QED
    BY <2>1, <2>2, <2>3 DEF MovesAreGenerated
<1>7. ASSUME NEW i \in Items, List(i) PROVE DoujinInv'
  <2>1. job.at = "walking" /\ i \in job.todo /\ UNCHANGED <<folder, copied, images, archive>>
        /\ job' = [job EXCEPT !.todo = @ \ {i}, !.listed = @ \cup {i}]
    BY <1>7 DEF List
  <2>2. job \in GenerationJobs /\ job # NoJob
    BY <1>4, <2>1
  <2>3. job' \in GenerationJobs /\ job'.moves = job.moves /\ job'.at = "walking" /\ job'.todo = job.todo \ {i}
        /\ job'.listed = job.listed \cup {i} /\ job'.swapped = job.swapped
    BY <2>1, <2>2 DEF GenerationJobs
  <2> QED
    BY <2>1, <2>2, <2>3 DEF MovesAreGenerated
<1>8. ASSUME NEW i \in Items, Process(i) PROVE DoujinInv'
  <2>1. job.at = "walking" /\ i \in job.listed /\ UNCHANGED <<folder, copied, archive>>
    BY <1>8 DEF Process
  <2>2. job \in GenerationJobs /\ job # NoJob /\ i \notin job.moves /\ job.todo \cap job.listed = {}
    BY <1>4, <2>1 DEF MovesAreGenerated
  <2>3. PICK moves \in {job.moves, job.moves \cup {i}}, version \in {folder[i], 0} :
          /\ job' = [job EXCEPT !.listed = @ \ {i}, !.moves = moves, !.swapped = @ \cup (job.moves \cap SameBook(i))]
          /\ OverwritesOthers(i, version) \/ Overwrites(i)
          /\ i \in moves => OverwritesOthers(i, version) /\ (version = folder[i] \/ i \in job.swapped)
    <3>1. ASSUME NEW version \in {folder[i]} \cup (IF i \in job.swapped THEN {0} ELSE {}), OverwritesOthers(i, version),
                 job' = [job EXCEPT !.listed = @ \ {i}, !.moves = @ \cup {i}, !.swapped = @ \cup (job.moves \cap SameBook(i))]
          PROVE  \E moves \in {job.moves, job.moves \cup {i}}, v \in {folder[i], 0} :
                   /\ job' = [job EXCEPT !.listed = @ \ {i}, !.moves = moves, !.swapped = @ \cup (job.moves \cap SameBook(i))]
                   /\ OverwritesOthers(i, v) \/ Overwrites(i)
                   /\ i \in moves => OverwritesOthers(i, v) /\ (v = folder[i] \/ i \in job.swapped)
      <4>1. version \in {folder[i], 0} /\ (version = folder[i] \/ i \in job.swapped)
        OBVIOUS
      <4> WITNESS job.moves \cup {i} \in {job.moves, job.moves \cup {i}}, version \in {folder[i], 0}
      <4> QED
        BY <3>1, <4>1
    <3>2. ASSUME Overwrites(i),
                 job' = [job EXCEPT !.listed = @ \ {i}, !.moves = job.moves, !.swapped = @ \cup (job.moves \cap SameBook(i))]
          PROVE  \E moves \in {job.moves, job.moves \cup {i}}, v \in {folder[i], 0} :
                   /\ job' = [job EXCEPT !.listed = @ \ {i}, !.moves = moves, !.swapped = @ \cup (job.moves \cap SameBook(i))]
                   /\ OverwritesOthers(i, v) \/ Overwrites(i)
                   /\ i \in moves => OverwritesOthers(i, v) /\ (v = folder[i] \/ i \in job.swapped)
      <4> WITNESS job.moves \in {job.moves, job.moves \cup {i}}, 0 \in {folder[i], 0}
      <4> QED
        BY <2>2, <3>2
    <3> QED
      BY <1>8, <3>1, <3>2 DEF Process, MovesOf
  <2>4. job' \in GenerationJobs /\ job'.moves = moves /\ job'.at = "walking" /\ job'.todo = job.todo
        /\ job'.listed = job.listed \ {i} /\ job'.swapped = job.swapped \cup (job.moves \cap SameBook(i))
    BY <2>1, <2>2, <2>3 DEF GenerationJobs
  <2>5. version \in 0 .. MaxVersion
    BY DoujinAssumption DEF Versions
  <2>6. /\ images' \in Versions
        /\ \A k \in Items : k \notin SameBook(i) => images'[k] = images[k]
        /\ OverwritesOthers(i, version) => images'[i] = version
    BY <2>3, <2>5, BookWritten
  <2>7. MovesAreGenerated'
    <3>1. ASSUME NEW k \in Items, k \in moves
          PROVE  k \notin job'.todo \cup job'.listed /\ (images'[k] = folder'[k] \/ k \in job'.swapped)
      <4>1. CASE k = i
        BY <2>1, <2>2, <2>3, <2>4, <2>6, <3>1, <4>1
      <4>2. CASE k # i
        BY <2>1, <2>2, <2>3, <2>4, <2>6, <3>1, <4>2 DEF MovesAreGenerated
      <4> QED
        BY <4>1, <4>2
    <3> QED
      BY <2>2, <2>4, <3>1 DEF MovesAreGenerated
  <2> QED
    BY <2>1, <2>4, <2>6, <2>7
<1>9. ASSUME NEW i \in Items, MoveDone(i) PROVE DoujinInv'
  <2>1. /\ job.at = "moving" /\ i \in job.moves /\ Inside[i] \cap job.moves = {} /\ UNCHANGED <<copied, images>>
        /\ job' = [job EXCEPT !.moves = @ \ {i}]
    BY <1>9 DEF MoveDone
  <2>2. PICK taken \in SUBSET ({i} \cup Inside[i]) :
          /\ archive' = [k \in Items |-> IF k \in taken THEN folder[k] ELSE archive[k]]
          /\ folder' = [k \in Items |-> IF k \in taken THEN 0 ELSE folder[k]]
    <3>1. CASE UNCHANGED <<archive, folder>>
      <4>1. archive = [k \in Items |-> IF k \in {} THEN folder[k] ELSE archive[k]]
        BY DEF Versions
      <4>2. folder = [k \in Items |-> IF k \in {} THEN 0 ELSE folder[k]]
        BY DEF Versions
      <4> WITNESS {} \in SUBSET ({i} \cup Inside[i])
      <4> QED
        BY <3>1, <4>1, <4>2
    <3> QED
      BY <1>9, <3>1 DEF MoveDone
  <2>3. job \in GenerationJobs /\ job # NoJob
    BY <1>4, <2>1
  <2>4. job' \in GenerationJobs /\ job'.moves = job.moves \ {i} /\ job'.at = "moving" /\ job'.todo = job.todo
        /\ job'.listed = job.listed /\ job'.swapped = job.swapped
    BY <2>1, <2>3 DEF GenerationJobs
  <2>5. folder' \in Versions /\ archive' \in Versions /\ \A k \in Items : k \in job'.moves => folder'[k] = folder[k]
    BY <2>1, <2>2, <2>4, DoujinAssumption DEF Versions
  <2>6. MovesAreGenerated'
    BY <2>1, <2>3, <2>4, <2>5 DEF MovesAreGenerated
  <2> QED
    BY <2>1, <2>4, <2>5, <2>6
<1> QED
  BY <1>1, <1>3, <1>5, <1>6, <1>7, <1>8, <1>9 DEF DoujinNext, JobStep

\* What is archived was generated, or changed since, or lay in what was.
LEMMA DoujinStepArchives ==
    DoujinInv /\ [DoujinNext]_doujinVars =>
        \A i \in Items :
            archive'[i] # archive[i] =>
                \/ images[i] = archive'[i]
                \/ i \in job.swapped
                \/ \E k \in job.moves \ job'.moves : i \in Inside[k]
<1> SUFFICES ASSUME DoujinInv, [DoujinNext]_doujinVars, NEW i \in Items, archive'[i] # archive[i]
             PROVE  \/ images[i] = archive'[i]
                    \/ i \in job.swapped
                    \/ \E k \in job.moves \ job'.moves : i \in Inside[k]
  OBVIOUS
<1>1. PICK j \in Items : MoveDone(j)
  BY DEF DoujinNext, Copy, TakeOut, Tick, TickEmpty, TickChanged, TickStable, Manual, JobStep, Walk, StartMoves,
         EndJob, List, Process, JobRaises, StopServer, doujinVars
<1>2. job.at = "moving" /\ j \in job.moves /\ job' = [job EXCEPT !.moves = @ \ {j}]
  BY <1>1 DEF MoveDone
<1>3. job # NoJob /\ job \in GenerationJobs
  BY <1>2 DEF NoJob, DoujinInv
<1>4. job'.moves = job.moves \ {j}
  BY <1>2, <1>3 DEF GenerationJobs
<1>5. archive'[i] = folder[i] /\ (i = j \/ i \in Inside[j])
  BY <1>1 DEF MoveDone, DoujinInv, Versions
<1> QED
  BY <1>2, <1>3, <1>4, <1>5 DEF DoujinInv, MovesAreGenerated

\* No item is moved to the completed ones before its images are in the library
\* in that version, unless the user changed it meanwhile, another item wrote to
\* its book or it was taken along with its directory (pdf_generator.py).
THEOREM ArchivedIsGenerated == DoujinSpec => ArchivedWasGenerated
<1>1. DoujinInv /\ [DoujinNext]_doujinVars =>
        [\A i \in Items :
            archive'[i] # archive[i] =>
                \/ images[i] = archive'[i]
                \/ i \in job.swapped
                \/ \E k \in job.moves \ job'.moves : i \in Inside[k]]_doujinVars
  BY DoujinStepArchives
<1> QED
  BY <1>1, DoujinInvInit, DoujinInvStep, PTL DEF DoujinSpec, ArchivedWasGenerated

-----------------------------------------------------------------------------
(* The capture of a series. *)

\* A set of volumes has a first one.
LEMMA FirstVolume ==
    ASSUME remaining \subseteq Volumes, remaining # {}
    PROVE  Volume \in remaining
<1>1. remaining \subseteq Nat
  BY SeriesAssumption DEF Volumes
<1>2. PICK x \in remaining : \A y \in remaining : ~(<<y, x>> \in OpToRel(<, Nat))
  BY <1>1, NatLessThanWellFounded, WFMin
<1>3. \A y \in remaining : x <= y
  <2> SUFFICES ASSUME NEW y \in remaining, ~(x <= y) PROVE FALSE
    OBVIOUS
  <2>1. y < x /\ <<y, x>> \in Nat \X Nat
    BY <1>1
  <2>2. <<y, x>> \in OpToRel(<, Nat)
    BY <2>1 DEF OpToRel
  <2> QED
    BY <1>2, <2>2
<1> QED
  BY <1>3 DEF Volume

Places == {"ended", "first", "next", "create", "wait", "failed", "recover", "verify", "confirm", "record"}
SessionFiles == [state : {"none", "running", "tripped", "completed"}, done : SUBSET Volumes,
                 recoveries : Nat, fails : Nat]

\* The types that the other parts need.
SeriesTyped ==
    /\ jobSlot \in [by : {"nobody", "script", "other"}, book : {Elsewhere} \cup Volumes]
    /\ jobSlot.by = "script" => jobSlot.book \in Volumes
    /\ jobSlot.by = "nobody" => jobSlot = NoSlot
    /\ ownJob \in [book : {Elsewhere} \cup Volumes, status : Causes \cup {"none", "active", "succeeded"}]
    /\ linked \subseteq Volumes /\ remaining \subseteq Volumes
    /\ sessionFile \in SessionFiles /\ guard \in SessionFiles
    /\ sessionFile.state = "none" => sessionFile = NoSession
    /\ at \in Places /\ launches \in Nat /\ wins \in [Volumes -> Nat]
    /\ at \notin {"ended", "first", "next"} => remaining # {}

\* While the script runs its session file is as the script knows it, which
\* counts an attempt before Kindle is started.
AttemptsAreOnFile ==
    /\ at # "ended" => guard = sessionFile /\ sessionFile.state = "running"
    /\ launches <= 1 /\ launches <= sessionFile.recoveries
    /\ at = "recover" => launches = 0
    /\ at \in {"recover", "verify"} => sessionFile.recoveries = 1

\* What the session captured is linked, and a volume it may still ask for was
\* not captured by it: the only exception is the one it just waited for.
WinsAreLinked ==
    /\ NoSecondCapture
    /\ \A b \in Volumes : wins[b] = 1 => b \in linked
    /\ jobSlot.by = "script" =>
         /\ wins[jobSlot.book] = 0 /\ at \in {"ended", "wait"}
         /\ at = "wait" => ownJob = [book |-> jobSlot.book, status |-> "active"] /\ jobSlot.book = Volume
    /\ at \in {"first", "next", "create", "failed", "recover", "verify"} => \A b \in remaining : wins[b] = 0
    /\ at \in {"confirm", "record"} => \A b \in remaining : b # Volume => wins[b] = 0
    /\ at = "wait" =>
         /\ \A b \in remaining : b # Volume => wins[b] = 0
         /\ wins[Volume] = 0 \/ ownJob.status = "succeeded"

SeriesInv == SeriesTyped /\ AttemptsAreOnFile /\ WinsAreLinked /\ EndsForGood

\* The invariant holds at the start.
LEMMA SeriesInvInit == SeriesInit => SeriesInv
<1> SUFFICES ASSUME SeriesInit PROVE SeriesInv
  OBVIOUS
<1> USE DEF SeriesInit
<1>1. SeriesTyped
  BY DEF SeriesTyped, NoSlot, NoOwnJob, NoSession, SessionFiles, Places, Elsewhere
<1>2. AttemptsAreOnFile
  BY DEF AttemptsAreOnFile, NoSession
<1>3. WinsAreLinked
  BY DEF WinsAreLinked, NoSecondCapture, NoSlot
<1>4. EndsForGood
  BY DEF EndsForGood
<1> QED
  BY <1>1, <1>2, <1>3, <1>4 DEF SeriesInv

\* The agent ends a job: only a success counts, and it links the volume.
LEMMA JobEndsKeeps == ASSUME SeriesInv, JobEnds PROVE SeriesInv'
<1> USE DEF SeriesInv
<1>1. PICK status \in Causes \cup {"succeeded"} :
        /\ linked' = IF status = "succeeded" THEN linked \cup ({jobSlot.book} \cap Volumes) ELSE linked
        /\ ownJob' = IF jobSlot.by = "script" THEN [ownJob EXCEPT !.status = status] ELSE ownJob
        /\ wins' = IF jobSlot.by = "script" /\ status = "succeeded"
                     THEN [wins EXCEPT ![jobSlot.book] = @ + 1] ELSE wins
  BY DEF JobEnds
<1>2. jobSlot' = NoSlot /\ UNCHANGED <<sessionFile, guard, at, remaining, retried, launches, over>>
  BY DEF JobEnds, scriptVars
<1>3. ownJob' \in [book : {Elsewhere} \cup Volumes, status : Causes \cup {"none", "active", "succeeded"}]
  BY <1>1 DEF SeriesTyped
<1>4. linked' \subseteq Volumes /\ wins' \in [Volumes -> Nat]
  BY <1>1 DEF SeriesTyped
<1>5. SeriesTyped'
  BY <1>2, <1>3, <1>4 DEF SeriesTyped, NoSlot
<1>6. AttemptsAreOnFile' /\ EndsForGood'
  BY <1>2 DEF AttemptsAreOnFile, EndsForGood
<1>7. Volume' = Volume
  BY <1>2 DEF Volume
<1>8. WinsAreLinked'
  <2>1. CASE jobSlot.by = "script" /\ status = "succeeded"
    <3>1. /\ jobSlot.book \in Volumes /\ wins[jobSlot.book] = 0 /\ wins'[jobSlot.book] = 1
          /\ \A b \in Volumes : b # jobSlot.book => wins'[b] = wins[b]
          /\ linked' = linked \cup {jobSlot.book}
      BY <1>1, <2>1 DEF SeriesTyped, WinsAreLinked
    <3>2. at \in {"ended", "wait"} /\ at = "wait" => jobSlot.book = Volume
      BY <2>1 DEF WinsAreLinked
    <3>3. ownJob'.status = "succeeded"
      BY <1>1, <2>1 DEF SeriesTyped
    <3>4. \A b \in Volumes : wins'[b] <= 1 /\ (wins'[b] = 1 => b \in linked')
      BY <3>1 DEF WinsAreLinked, NoSecondCapture
    <3>5. at = "wait" => \A b \in remaining : b # Volume => wins'[b] = 0
      BY <3>1, <3>2 DEF WinsAreLinked, SeriesTyped
    <3>6. jobSlot'.by = "nobody"
      BY <1>2 DEF NoSlot
    <3>7. at' = at /\ remaining' = remaining /\ at \notin {"first", "next", "create", "failed", "recover", "verify", "confirm", "record"}
      BY <1>2, <2>1 DEF WinsAreLinked
    <3> QED
      BY <1>7, <3>3, <3>4, <3>5, <3>6, <3>7 DEF WinsAreLinked, NoSecondCapture
  <2>2. CASE ~(jobSlot.by = "script" /\ status = "succeeded")
    <3>1. wins' = wins /\ linked \subseteq linked'
      BY <1>1, <2>2
    <3>2. jobSlot.by = "script" /\ at = "wait" => wins[Volume] = 0
      BY DEF WinsAreLinked
    <3>3. jobSlot.by # "script" => ownJob' = ownJob
      BY <1>1
    <3>4. at = "wait" => wins[Volume] = 0 \/ ownJob'.status = "succeeded"
      BY <3>2, <3>3 DEF WinsAreLinked
    <3>5. jobSlot'.by = "nobody"
      BY <1>2 DEF NoSlot
    <3> QED
      BY <1>2, <1>7, <3>1, <3>4, <3>5 DEF WinsAreLinked, NoSecondCapture
  <2> QED
    BY <2>1, <2>2
<1> QED
  BY <1>5, <1>6, <1>8

\* Other users take the slot and unlink volumes.
LEMMA OthersKeep == ASSUME SeriesInv, OtherCreates \/ UserUnlinks PROVE SeriesInv'
<1> USE DEF SeriesInv
<1>1. UNCHANGED <<sessionFile, guard, at, remaining, retried, launches, over, ownJob>> /\ Volume' = Volume
  BY DEF OtherCreates, UserUnlinks, scriptVars, Volume
<1>2. AttemptsAreOnFile' /\ EndsForGood'
  BY <1>1 DEF AttemptsAreOnFile, EndsForGood
<1>3. CASE OtherCreates
  <2>1. PICK b \in Volumes \cup {Elsewhere} : jobSlot' = [by |-> "other", book |-> b]
    BY <1>3 DEF OtherCreates
  <2>2. linked' = linked /\ wins' = wins
    BY <1>3 DEF OtherCreates
  <2>3. SeriesTyped' /\ jobSlot'.by = "other"
    BY <1>1, <2>1, <2>2 DEF SeriesTyped
  <2>4. WinsAreLinked'
    BY <1>1, <2>2, <2>3 DEF WinsAreLinked, NoSecondCapture
  <2> QED
    BY <1>2, <2>3, <2>4
<1>4. CASE UserUnlinks
  <2>1. PICK b \in linked : linked' = linked \ {b} /\ wins' = [wins EXCEPT ![b] = 0]
    BY <1>4 DEF UserUnlinks
  <2>2. jobSlot' = jobSlot
    BY <1>4 DEF UserUnlinks
  <2>3. wins' \in [Volumes -> Nat] /\ linked' \subseteq Volumes
        /\ \A c \in Volumes : (wins'[c] = wins[c] /\ (c \in linked' <=> c \in linked)) \/ wins'[c] = 0
    BY <2>1 DEF SeriesTyped
  <2>4. SeriesTyped'
    BY <1>1, <2>2, <2>3 DEF SeriesTyped
  <2>5. at = "wait" => Volume \in Volumes
    BY FirstVolume DEF SeriesTyped
  <2>6. WinsAreLinked'
    BY <1>1, <2>2, <2>3, <2>5 DEF WinsAreLinked, NoSecondCapture, SeriesTyped
  <2> QED
    BY <1>2, <2>4, <2>6
<1> QED
  BY <1>3, <1>4

\* The script ends, with or without a last word in its file.
LEMMA EndKeeps ==
    ASSUME SeriesInv, at' = "ended", UNCHANGED <<remaining, launches, jobSlot, linked, wins>>,
           ownJob' \in [book : {Elsewhere} \cup Volumes, status : Causes \cup {"none", "active", "succeeded"}],
           sessionFile' \in SessionFiles, guard' \in SessionFiles,
           sessionFile'.state = "none" => sessionFile' = NoSession,
           launches <= sessionFile'.recoveries,
           over' => sessionFile'.state \in {"tripped", "completed"}
    PROVE  SeriesInv'
<1> USE DEF SeriesInv
<1>1. SeriesTyped'
  BY DEF SeriesTyped, Places
<1>2. AttemptsAreOnFile'
  BY DEF AttemptsAreOnFile
<1>3. WinsAreLinked'
  BY DEF WinsAreLinked, NoSecondCapture
<1>4. EndsForGood'
  BY DEF EndsForGood
<1> QED
  BY <1>1, <1>2, <1>3, <1>4

\* The breaker, which ends the script with what it was given.
LEMMA TripKeeps ==
    ASSUME SeriesInv, NEW s \in SessionFiles, launches <= s.recoveries, TripWith(s),
           UNCHANGED <<jobSlot, linked, wins>>,
           ownJob' \in [book : {Elsewhere} \cup Volumes, status : Causes \cup {"none", "active", "succeeded"}]
    PROVE  SeriesInv'
<1> DEFINE n == [s EXCEPT !.state = "tripped"]
<1>1. sessionFile' = n /\ guard' = n /\ at' = "ended" /\ UNCHANGED <<remaining, launches>>
  BY DEF TripWith, Persist, Leave
<1>2. n \in SessionFiles /\ n.state = "tripped" /\ n.recoveries = s.recoveries
  BY DEF SessionFiles
<1> QED
  BY <1>1, <1>2, EndKeeps

\* The script goes on without a word to its file.
LEMMA GoesKeeps ==
    ASSUME SeriesInv, at # "ended", NEW to \in {"next", "create", "failed", "confirm", "record"}, Goes(to),
           UNCHANGED <<jobSlot, ownJob, linked, wins, launches>>,
           jobSlot.by # "script", to # "next" => remaining # {},
           \A b \in remaining : wins[b] = 0 \/ (b = Volume /\ to \in {"confirm", "record"})
    PROVE  SeriesInv'
<1> USE DEF SeriesInv
<1>1. at' = to /\ UNCHANGED <<sessionFile, guard, remaining, over>> /\ Volume' = Volume
  BY DEF Goes, Volume
<1>2. SeriesTyped'
  BY <1>1 DEF SeriesTyped, Places
<1>3. AttemptsAreOnFile'
  BY <1>1 DEF AttemptsAreOnFile
<1>4. WinsAreLinked'
  BY <1>1 DEF WinsAreLinked, NoSecondCapture
<1>5. EndsForGood'
  BY <1>1 DEF EndsForGood
<1> QED
  BY <1>2, <1>3, <1>4, <1>5

\* The steps of the script before and after a job.
LEMMA ScriptKeeps ==
    ASSUME SeriesInv, Start \/ FirstLook \/ NextVolume \/ CreateJob \/ Poll \/ Confirm \/ RecordVolume \/ Finish
    PROVE  SeriesInv'
<1> USE DEF SeriesInv
<1>1. CASE Start
  <2> DEFINE s == IF sessionFile = NoSession THEN NewSession ELSE sessionFile
  <2>1. /\ at = "ended" /\ sessionFile.state \in {"none", "running"}
        /\ guard' = s /\ sessionFile' = s
        /\ at' = IF jobSlot.book \in Volumes THEN "ended" ELSE "first"
        /\ remaining' = Volumes \ linked
        /\ UNCHANGED <<jobSlot, ownJob, linked, wins, launches, over>>
    BY <1>1 DEF Start, Persist, NotCaptured, serverVars
  <2>2. s \in SessionFiles /\ s.state = "running" /\ launches <= s.recoveries
    BY <2>1 DEF SeriesTyped, AttemptsAreOnFile, NewSession, NoSession, SessionFiles
  <2>3. SeriesTyped'
    BY <2>1, <2>2 DEF SeriesTyped, Places
  <2>4. AttemptsAreOnFile'
    BY <2>1, <2>2 DEF AttemptsAreOnFile
  <2>5. \A b \in remaining' : wins[b] = 0
    <3>1. \A b \in Volumes : wins[b] \in Nat /\ wins[b] <= 1
      BY DEF SeriesTyped, WinsAreLinked, NoSecondCapture
    <3>2. \A b \in Volumes : wins[b] = 0 \/ b \in linked
      BY <3>1 DEF WinsAreLinked
    <3> QED
      BY <2>1, <3>2
  <2>6. WinsAreLinked'
    BY <2>1, <2>5 DEF WinsAreLinked, NoSecondCapture, SeriesTyped
  <2>7. EndsForGood'
    BY <2>1 DEF EndsForGood
  <2> QED
    BY <2>3, <2>4, <2>6, <2>7
<1>2. ASSUME Trip, UNCHANGED <<jobSlot, linked, wins>>, at # "ended",
             ownJob' \in [book : {Elsewhere} \cup Volumes, status : Causes \cup {"none", "active", "succeeded"}]
      PROVE  SeriesInv'
  BY <1>2, TripKeeps DEF Trip, SeriesTyped, AttemptsAreOnFile
<1>3. CASE FirstLook
  <2>1. at = "first" /\ UNCHANGED <<jobSlot, ownJob, linked, wins>>
    BY <1>3 DEF FirstLook, serverVars
  <2>2. CASE Trip
    BY <1>2, <2>1, <2>2 DEF SeriesTyped
  <2>3. CASE jobSlot = NoSlot /\ Goes("next") /\ launches' = launches
    BY <2>1, <2>3, GoesKeeps DEF WinsAreLinked, NoSlot
  <2> QED
    BY <1>3, <2>2, <2>3 DEF FirstLook
<1>4. CASE NextVolume
  <2>1. at = "next" /\ remaining # {} /\ UNCHANGED <<jobSlot, ownJob, linked, wins>>
    BY <1>4 DEF NextVolume, serverVars
  <2>2. CASE Trip
    BY <1>2, <2>1, <2>2 DEF SeriesTyped
  <2>3. CASE jobSlot = NoSlot /\ Goes("create") /\ launches' = launches
    BY <2>1, <2>3, GoesKeeps DEF WinsAreLinked, NoSlot
  <2> QED
    BY <1>4, <2>2, <2>3 DEF NextVolume
<1>5. CASE CreateJob
  <2>1. at = "create" /\ UNCHANGED <<linked, wins>> /\ remaining # {} /\ Volume \in remaining /\ Volume \in Volumes
    BY <1>5, FirstVolume DEF CreateJob, SeriesTyped
  <2>2. CASE Trip /\ UNCHANGED <<jobSlot, ownJob>>
    BY <1>2, <2>1, <2>2 DEF SeriesTyped
  <2>3. ASSUME jobSlot' = [by |-> "script", book |-> Volume], ownJob' = [book |-> Volume, status |-> "active"],
               (Goes("wait") /\ launches' = launches) \/ Trip
        PROVE  SeriesInv'
    <3>1. UNCHANGED <<remaining, launches>> /\ Volume' = Volume
      BY <2>3 DEF Goes, Trip, TripWith, Leave, Volume
    <3>2. CASE Goes("wait")
      <4>1. at' = "wait" /\ UNCHANGED <<sessionFile, guard, over>>
        BY <3>2 DEF Goes
      <4>2. SeriesTyped'
        BY <2>1, <2>3, <3>1, <4>1 DEF SeriesTyped, Places
      <4>3. AttemptsAreOnFile' /\ EndsForGood'
        BY <2>1, <3>1, <4>1 DEF AttemptsAreOnFile, EndsForGood
      <4>4. WinsAreLinked'
        BY <2>1, <2>3, <3>1, <4>1 DEF WinsAreLinked, NoSecondCapture
      <4> QED
        BY <4>2, <4>3, <4>4
    <3>3. CASE Trip
      <4> DEFINE n == [guard EXCEPT !.state = "tripped"]
      <4>1. sessionFile' = n /\ guard' = n /\ at' = "ended"
        BY <3>3 DEF Trip, TripWith, Persist, Leave
      <4>2. n \in SessionFiles /\ n.state = "tripped" /\ n.recoveries = guard.recoveries
        BY DEF SeriesTyped, SessionFiles
      <4>3. launches <= n.recoveries
        BY <2>1, <4>2 DEF AttemptsAreOnFile
      <4> HIDE DEF n
      <4>4. SeriesTyped'
        BY <2>1, <2>3, <3>1, <4>1, <4>2 DEF SeriesTyped, Places
      <4>5. AttemptsAreOnFile' /\ EndsForGood'
        BY <3>1, <4>1, <4>2, <4>3 DEF AttemptsAreOnFile, EndsForGood
      <4>6. WinsAreLinked'
        BY <2>1, <2>3, <3>1, <4>1 DEF WinsAreLinked, NoSecondCapture
      <4> QED
        BY <4>4, <4>5, <4>6
    <3> QED
      BY <2>3, <3>2, <3>3
  <2> QED
    BY <1>5, <2>2, <2>3 DEF CreateJob
<1>6. CASE Poll
  <2>1. at = "wait" /\ UNCHANGED <<jobSlot, ownJob, linked, wins>>
    BY <1>6 DEF Poll, serverVars
  <2>2. CASE Trip
    BY <1>2, <2>1, <2>2 DEF SeriesTyped
  <2>3. CASE /\ jobSlot = NoSlot /\ launches' = launches
             /\ IF ownJob.status = "succeeded" THEN Goes("confirm") ELSE Goes("failed")
    <3>1. jobSlot.by # "script" /\ remaining # {}
      BY <2>1, <2>3 DEF NoSlot, SeriesTyped
    <3>2. \A b \in remaining : wins[b] = 0 \/ (b = Volume /\ ownJob.status = "succeeded")
      BY <2>1 DEF WinsAreLinked
    <3>3. CASE ownJob.status = "succeeded"
      BY <2>1, <2>3, <3>1, <3>2, <3>3, GoesKeeps
    <3>4. CASE ownJob.status # "succeeded"
      BY <2>1, <2>3, <3>1, <3>2, <3>4, GoesKeeps
    <3> QED
      BY <3>3, <3>4
  <2> QED
    BY <1>6, <2>2, <2>3 DEF Poll
<1>7. CASE Confirm
  <2>1. at = "confirm" /\ UNCHANGED <<jobSlot, ownJob, linked, wins>>
    BY <1>7 DEF Confirm, serverVars
  <2>2. CASE Trip
    BY <1>2, <2>1, <2>2 DEF SeriesTyped
  <2>3. CASE Goes("record") /\ launches' = launches
    BY <2>1, <2>3, GoesKeeps DEF WinsAreLinked, SeriesTyped
  <2> QED
    BY <1>7, <2>2, <2>3 DEF Confirm
<1>8. CASE RecordVolume
  <2> DEFINE n == [guard EXCEPT !.fails = 0, !.done = @ \cup {Volume}]
  <2>1. /\ at = "record" /\ UNCHANGED <<jobSlot, ownJob, linked, wins, launches, over>>
        /\ guard' = n /\ sessionFile' = n /\ remaining' = remaining \ {Volume} /\ at' = "next"
    BY <1>8 DEF RecordVolume, RecordSuccess, Persist, serverVars
  <2>2. Volume \in Volumes
    BY <2>1, FirstVolume DEF SeriesTyped
  <2>3. guard \in SessionFiles /\ guard = sessionFile /\ guard.state = "running"
    BY <2>1 DEF SeriesTyped, AttemptsAreOnFile
  <2>4. n \in SessionFiles /\ n.state = guard.state /\ n.recoveries = guard.recoveries
    BY <2>2, <2>3 DEF SessionFiles
  <2> HIDE DEF n
  <2>5. SeriesTyped'
    BY <2>1, <2>3, <2>4 DEF SeriesTyped, Places
  <2>6. AttemptsAreOnFile' /\ EndsForGood'
    BY <2>1, <2>3, <2>4 DEF AttemptsAreOnFile, EndsForGood
  <2>7. WinsAreLinked'
    BY <2>1 DEF WinsAreLinked, NoSecondCapture
  <2> QED
    BY <2>5, <2>6, <2>7
<1>9. CASE Finish
  <2> DEFINE n == [guard EXCEPT !.state = "completed"]
  <2>1. /\ at = "next" /\ UNCHANGED <<jobSlot, ownJob, linked, wins, launches, remaining>>
        /\ guard' = n /\ sessionFile' = n /\ at' = "ended"
    BY <1>9 DEF Finish, Persist, Leave, serverVars
  <2>2. n \in SessionFiles /\ n.state = "completed" /\ n.recoveries = guard.recoveries
    BY DEF SeriesTyped, SessionFiles
  <2>3. launches <= n.recoveries
    BY <2>1, <2>2 DEF AttemptsAreOnFile
  <2> QED
    BY <2>1, <2>2, <2>3, EndKeeps DEF SeriesTyped
<1> QED
  BY <1>1, <1>3, <1>4, <1>5, <1>6, <1>7, <1>8, <1>9

\* A failure is recorded, or the volume is tried again after one recovery.
LEMMA RecoveryKeeps == ASSUME SeriesInv, Failed \/ Recover \/ Verify PROVE SeriesInv'
<1> USE DEF SeriesInv
<1>1. /\ at \in {"failed", "recover", "verify"} /\ UNCHANGED <<jobSlot, ownJob, linked, wins>>
      /\ guard = sessionFile /\ guard \in SessionFiles /\ guard.state = "running" /\ remaining # {}
      /\ launches <= guard.recoveries /\ launches \in Nat
      /\ jobSlot.by # "script" /\ \A b \in remaining : wins[b] = 0
  BY DEF Failed, Recover, Verify, serverVars, SeriesTyped, AttemptsAreOnFile, WinsAreLinked
<1>2. ASSUME Trip PROVE SeriesInv'
  BY <1>1, <1>2, TripKeeps DEF Trip, SeriesTyped
<1>3. ASSUME RecordFailure(ownJob.status) PROVE SeriesInv'
  <2> DEFINE n == [guard EXCEPT !.fails = @ + 1]
  <2>1. n \in SessionFiles /\ n.state = "running" /\ n.recoveries = guard.recoveries
    BY <1>1 DEF SessionFiles
  <2>2. CASE TripWith(n)
    BY <1>1, <2>1, <2>2, TripKeeps DEF SeriesTyped
  <2>3. CASE Persist(n) /\ Leave /\ UNCHANGED over
    <3>1. ~over
      BY <1>1 DEF EndsForGood
    <3> QED
      BY <1>1, <2>1, <2>3, <3>1, EndKeeps DEF Persist, Leave, SeriesTyped
  <2> QED
    BY <1>2, <1>3, <2>2, <2>3 DEF RecordFailure
<1>4. CASE Failed
  <2> DEFINE n == [guard EXCEPT !.recoveries = @ + 1]
  <2>1. n \in SessionFiles /\ n.state = "running" /\ n.recoveries = guard.recoveries + 1
    BY <1>1 DEF SessionFiles
  <2>2. guard.recoveries \in Nat
    BY <1>1 DEF SessionFiles
  <2>3. CASE TripWith(n)
    <3>1. launches <= n.recoveries
      BY <1>1, <2>1, <2>2
    <3> HIDE DEF n
    <3> QED
      BY <1>1, <2>1, <2>3, <3>1, TripKeeps DEF SeriesTyped
  <2>4. CASE /\ ~(n.recoveries > 1) /\ Persist(n) /\ at' = "recover" /\ UNCHANGED <<remaining, launches, over>>
    <3>1. guard.recoveries = 0 /\ n.recoveries = 1 /\ launches = 0
      BY <1>1, <2>1, <2>2, <2>4
    <3>2. guard' = n /\ sessionFile' = n
      BY <2>4 DEF Persist
    <3> HIDE DEF n
    <3>3. SeriesTyped'
      BY <1>1, <2>1, <2>4, <3>2 DEF SeriesTyped, Places
    <3>4. AttemptsAreOnFile' /\ EndsForGood'
      BY <1>1, <2>1, <2>4, <3>1, <3>2 DEF AttemptsAreOnFile, EndsForGood
    <3>5. WinsAreLinked'
      BY <1>1, <2>4 DEF WinsAreLinked, NoSecondCapture
    <3> QED
      BY <3>3, <3>4, <3>5
  <2> QED
    BY <1>3, <1>4, <2>3, <2>4 DEF Failed, CountAttempt
<1>5. CASE Recover
  <2>1. CASE launches' = launches + 1 /\ Goes("verify") /\ at = "recover"
    <3>1. launches = 0 /\ sessionFile.recoveries = 1
      BY <2>1 DEF AttemptsAreOnFile
    <3>2. at' = "verify" /\ UNCHANGED <<sessionFile, guard, remaining, over>>
      BY <2>1 DEF Goes
    <3>3. SeriesTyped'
      BY <1>1, <2>1, <3>2 DEF SeriesTyped, Places
    <3>4. AttemptsAreOnFile' /\ EndsForGood'
      BY <1>1, <2>1, <3>1, <3>2 DEF AttemptsAreOnFile, EndsForGood
    <3>5. WinsAreLinked'
      BY <1>1, <3>2 DEF WinsAreLinked, NoSecondCapture
    <3> QED
      BY <3>3, <3>4, <3>5
  <2> QED
    BY <1>3, <1>5, <2>1 DEF Recover
<1>6. CASE Verify
  <2>1. CASE Goes("next") /\ launches' = launches
    BY <1>1, <2>1, GoesKeeps
  <2> QED
    BY <1>2, <1>6, <2>1 DEF Verify
<1> QED
  BY <1>4, <1>5, <1>6

\* Every step keeps the invariant of the series.
LEMMA SeriesInvStep == SeriesInv /\ [SeriesNext]_seriesVars => SeriesInv'
<1> SUFFICES ASSUME SeriesInv, [SeriesNext]_seriesVars PROVE SeriesInv'
  OBVIOUS
<1>1. CASE ScriptDies
  <2>1. at' = "ended" /\ UNCHANGED <<remaining, launches, jobSlot, ownJob, linked, wins, sessionFile, guard, over>>
    BY <1>1 DEF ScriptDies, Leave, serverVars
  <2> QED
    BY <2>1, EndKeeps DEF SeriesInv, SeriesTyped, AttemptsAreOnFile, EndsForGood
<1>2. CASE UNCHANGED seriesVars
  BY <1>2 DEF seriesVars, SeriesInv, SeriesTyped, AttemptsAreOnFile, WinsAreLinked, NoSecondCapture, EndsForGood,
              Volume
<1> QED
  BY <1>1, <1>2, JobEndsKeeps, OthersKeep, ScriptKeeps, RecoveryKeeps DEF SeriesNext

\* However often the script is killed and resumed and whoever else uses the
\* server, Kindle is started once, no volume is captured twice and an ended
\* session stays ended (kindle_series_orchestrator.py, kindle_series_session.py).
THEOREM SessionsAgree == SeriesSpec => []SessionAgrees
<1>1. SeriesInv => SessionAgrees
  BY DEF SeriesInv, AttemptsAreOnFile, WinsAreLinked, SessionAgrees, OneKindleStart
<1> QED
  BY <1>1, SeriesInvInit, SeriesInvStep, PTL DEF SeriesSpec

-----------------------------------------------------------------------------
(* The questions. *)

\* The records of a request and of a row.
AskTyped(ask) ==
    \/ ask = NoAsk
    \/ ask = [at |-> "find", verified |-> ask.verified, found |-> ask.found]
    \/ ask = [at |-> "failing"]
    \/ /\ ask.at \in {"start", "stream"}
       /\ ask = [at |-> ask.at, verified |-> ask.verified, found |-> ask.found,
                 run |-> ask.run, stamp |-> ask.stamp]
RowStates == {"none", "open", "answered", "canceled", "error", "deleted"}

\* The types of the book, the requests and their rows.
QaTyped ==
    /\ shelf \in [text : [QaPages -> 0 .. MaxEditions], run : 0 .. MaxEditions, stamp : 0 .. MaxEditions + 1]
    /\ rebuilt \in 1 .. MaxEditions + 1 /\ busy \in BOOLEAN /\ (busy => rebuilt <= MaxEditions)
    /\ DOMAIN asks = QaRequests /\ asks = [r \in QaRequests |-> asks[r]]
    /\ DOMAIN rows = QaRequests /\ rows = [r \in QaRequests |-> rows[r]]
    /\ \A r \in QaRequests : AskTyped(asks[r]) /\ rows[r].state \in RowStates

QaInv == QaTyped /\ OpenRowsAreAwaited

\* What a step of one request changes: its own record and its own row.
OfOne(r) ==
    /\ asks' = [asks EXCEPT ![r] = asks'[r]]
    /\ rows' = rows \/ rows' = [rows EXCEPT ![r] = rows'[r]]
    /\ UNCHANGED <<shelf, rebuilt, busy>>
    /\ unclosed \subseteq unclosed'

\* The invariant holds at the start.
LEMMA QaInvInit == QaInit => QaInv
<1> SUFFICES ASSUME QaInit PROVE QaInv
  OBVIOUS
<1> USE QaAssumption DEF QaInit
<1>1. \A r \in QaRequests : asks[r] = NoAsk /\ rows[r].state = "none"
  BY DEF NoRow
<1>2. shelf \in [text : [QaPages -> 0 .. MaxEditions], run : 0 .. MaxEditions, stamp : 0 .. MaxEditions + 1]
  OBVIOUS
<1>b. busy \in BOOLEAN
  BY Zenon
<1>3. QaTyped
  BY <1>1, <1>2, <1>b DEF QaTyped, AskTyped, RowStates
<1> QED
  BY <1>1, <1>3 DEF QaInv, OpenRowsAreAwaited

\* A step of one request that leaves its record typed and its row awaited
\* keeps the invariant.
LEMMA OneRequest ==
    ASSUME QaInv, NEW r \in QaRequests, OfOne(r),
           AskTyped(asks'[r]), rows'[r].state \in RowStates,
           rows'[r].state = "open" => asks'[r].at \in {"stream", "failing"} \/ r \in unclosed'
    PROVE  QaInv'
<1> USE DEF QaInv, QaTyped, OfOne
<1>1. DOMAIN asks' = QaRequests /\ DOMAIN rows' = QaRequests
  OBVIOUS
<1>2. \A s \in QaRequests : s # r => asks'[s] = asks[s] /\ rows'[s] = rows[s]
  OBVIOUS
<1>3. asks' = [s \in QaRequests |-> asks'[s]] /\ rows' = [s \in QaRequests |-> rows'[s]]
  BY <1>1
<1>4. \A s \in QaRequests : AskTyped(asks'[s]) /\ rows'[s].state \in RowStates
  BY <1>2
<1>5. OpenRowsAreAwaited'
  BY <1>2 DEF OpenRowsAreAwaited
<1>6. QaTyped'
  BY <1>1, <1>3, <1>4 DEF AskTyped
<1> QED
  BY <1>5, <1>6

\* The steps of a request.
LEMMA RequestKeeps ==
    ASSUME QaInv, NEW r \in QaRequests,
           \/ Ask(r) \/ Find(r) \/ Freeze(r) \/ SaveStart(r) \/ StartRefused(r) \/ SaveFinish(r)
           \/ Fails(r) \/ BreakOff(r) \/ BreakOffRefused(r) \/ Cease(r) \/ DeleteRow(r)
    PROVE  QaInv'
<1> USE DEF QaInv, QaTyped
<1>1. asks[r].at = "find" => asks[r] = [at |-> "find", verified |-> asks[r].verified, found |-> asks[r].found]
  BY DEF AskTyped, NoAsk
<1>2. asks[r].at \in {"start", "stream"} =>
        asks[r] = [at |-> asks[r].at, verified |-> asks[r].verified, found |-> asks[r].found,
                   run |-> asks[r].run, stamp |-> asks[r].stamp]
  BY DEF AskTyped, NoAsk
<1>3. AskTyped(NoAsk) /\ NoAsk.at = "idle"
  BY DEF AskTyped, NoAsk
<1>4. rows[r].state = "open" => asks[r].at \in {"stream", "failing"} \/ r \in unclosed
  BY DEF OpenRowsAreAwaited
<1>5. CASE Ask(r)
  <2>1. PICK verified \in BOOLEAN :
          asks' = [asks EXCEPT ![r] = [at |-> "find", verified |-> verified, found |-> <<>>]]
    BY <1>5 DEF Ask, Sets
  <2>2. AskTyped(asks'[r]) /\ OfOne(r)
    BY <1>5, <2>1 DEF Ask, AskTyped, OfOne
  <2>3. rows' = rows /\ rows[r].state = "none"
    BY <1>5 DEF Ask, NoRow
  <2> QED
    BY <2>2, <2>3, OneRequest
<1>6. CASE Find(r) \/ Freeze(r)
  <2>1. /\ asks[r].at = "find" /\ UNCHANGED <<shelf, rebuilt, busy, rows, departed, unclosed>>
        /\ \/ asks' = [asks EXCEPT ![r] = NoAsk]
           \/ \E found : asks' = [asks EXCEPT ![r] = [asks[r] EXCEPT !.found = found]]
           \/ asks' = [asks EXCEPT ![r] = [at |-> "start", verified |-> asks[r].verified, found |-> asks[r].found,
                                           run |-> shelf.run, stamp |-> shelf.stamp]]
    BY <1>6 DEF Find, Freeze, Sets, Leaves
  <2>2. AskTyped(asks'[r]) /\ OfOne(r)
    BY <1>1, <1>3, <2>1 DEF AskTyped, OfOne
  <2> QED
    BY <1>4, <2>1, <2>2, OneRequest
<1>7. CASE SaveStart(r)
  <2>1. /\ asks[r].at = "start"
        /\ Writes(r, [state |-> "open"])
        /\ asks' = [asks EXCEPT ![r] = [asks[r] EXCEPT !.at = "stream"]]
        /\ UNCHANGED <<shelf, rebuilt, busy, departed, unclosed>>
    BY <1>7 DEF SaveStart, Sets
  <2>2. AskTyped(asks'[r]) /\ asks'[r].at = "stream"
    BY <1>2, <2>1 DEF AskTyped
  <2>3. OfOne(r) /\ rows'[r].state \in RowStates
    BY <2>1 DEF OfOne, Writes, RowStates
  <2> QED
    BY <2>2, <2>3, OneRequest
<1>8. CASE SaveFinish(r) \/ BreakOff(r)
  <2>1. PICK row : /\ Writes(r, row)
                   /\ row.state \in {"answered", "error", "canceled"}
    BY <1>8 DEF SaveFinish, BreakOff, Closes
  <2>2. asks' = [asks EXCEPT ![r] = NoAsk] /\ UNCHANGED <<shelf, rebuilt, busy, departed, unclosed>>
    BY <1>8 DEF SaveFinish, BreakOff, Leaves, Sets
  <2>3. AskTyped(asks'[r]) /\ OfOne(r)
    BY <1>3, <2>1, <2>2 DEF OfOne, Writes
  <2>4. rows'[r].state \in RowStates /\ rows'[r].state # "open"
    BY <2>1 DEF Writes, RowStates
  <2> QED
    BY <2>3, <2>4, OneRequest
<1>9. CASE Cease(r) \/ BreakOffRefused(r)
  <2>1. /\ asks' = [asks EXCEPT ![r] = NoAsk] /\ unclosed' = unclosed \cup {r}
        /\ UNCHANGED <<shelf, rebuilt, busy, rows>>
    BY <1>9 DEF Cease, BreakOffRefused, Leaves, Sets
  <2>2. AskTyped(asks'[r]) /\ OfOne(r)
    BY <1>3, <2>1 DEF OfOne
  <2> QED
    BY <2>1, <2>2, OneRequest
<1>10. CASE DeleteRow(r)
  <2>1. /\ Writes(r, [state |-> "deleted"])
        /\ UNCHANGED <<shelf, rebuilt, busy, asks, departed, unclosed>>
    BY <1>10 DEF DeleteRow
  <2>2. rows'[r].state \in RowStates /\ rows'[r].state # "open" /\ OfOne(r)
    BY <2>1 DEF RowStates, OfOne, Writes
  <2> QED
    BY <2>1, <2>2, OneRequest
<1>11. CASE StartRefused(r)
  <2>1. /\ asks[r].at = "start" /\ asks' = [asks EXCEPT ![r] = NoAsk]
        /\ UNCHANGED <<shelf, rebuilt, busy, rows, unclosed>>
    BY <1>11 DEF StartRefused, Leaves, Sets
  <2>2. AskTyped(asks'[r]) /\ OfOne(r)
    BY <1>3, <2>1 DEF OfOne
  <2> QED
    BY <1>4, <2>1, <2>2, OneRequest
<1>12. CASE Fails(r)
  <2>1. /\ asks' = [asks EXCEPT ![r] = [at |-> "failing"]]
        /\ UNCHANGED <<shelf, rebuilt, busy, rows, departed, unclosed>>
    BY <1>12 DEF Fails, Sets
  <2>2. asks'[r] = [at |-> "failing"] /\ AskTyped(asks'[r]) /\ OfOne(r)
    BY <2>1 DEF OfOne, AskTyped
  <2> QED
    BY <2>1, <2>2, OneRequest
<1> QED
  BY <1>5, <1>6, <1>7, <1>8, <1>9, <1>10, <1>11, <1>12

\* Every step keeps the invariant of the questions.
LEMMA QaInvStep == QaInv /\ [QaNext]_qaVars => QaInv'
<1> SUFFICES ASSUME QaInv, [QaNext]_qaVars PROVE QaInv'
  OBVIOUS
<1>1. ASSUME NEW r \in QaRequests,
             \/ Ask(r) \/ Find(r) \/ Freeze(r) \/ SaveStart(r) \/ StartRefused(r) \/ SaveFinish(r)
             \/ Fails(r) \/ BreakOff(r) \/ BreakOffRefused(r) \/ Cease(r) \/ DeleteRow(r)
      PROVE  QaInv'
  BY <1>1, RequestKeeps
<1>2. CASE PublishEdition
  <2>1. PICK changed \in SUBSET QaPages :
          shelf' = [text |-> [p \in QaPages |-> IF p \in changed THEN shelf.run + 1 ELSE shelf.text[p]],
                    run |-> shelf.run + 1, stamp |-> 0]
    BY <1>2 DEF PublishEdition
  <2>2. shelf.run < MaxEditions /\ UNCHANGED <<rebuilt, busy, asks, rows, departed, unclosed>>
    BY <1>2 DEF PublishEdition
  <2>3. shelf.run \in Nat /\ shelf.run + 1 \in 0 .. MaxEditions /\ shelf.text \in [QaPages -> 0 .. MaxEditions]
    BY <2>2, QaAssumption DEF QaInv, QaTyped
  <2>4. shelf' \in [text : [QaPages -> 0 .. MaxEditions], run : 0 .. MaxEditions, stamp : 0 .. MaxEditions + 1]
    BY <2>1, <2>3, QaAssumption
  <2> QED
    BY <2>2, <2>4 DEF QaInv, QaTyped, AskTyped, OpenRowsAreAwaited
<1>3. CASE EndReindex /\ rebuilt' # rebuilt
  <2>1. /\ rebuilt' = rebuilt + 1
        /\ shelf' = [shelf EXCEPT !.stamp = rebuilt + 1]
        /\ UNCHANGED <<asks, rows, departed, unclosed>>
    BY <1>3, Zenon DEF EndReindex
  <2>b. busy /\ ~busy' /\ busy' \in BOOLEAN
    BY <1>3, Zenon DEF EndReindex
  <2>r. rebuilt \in 1 .. MaxEditions + 1 /\ rebuilt <= MaxEditions
    BY <2>b, Zenon DEF QaInv, QaTyped
  <2>2. rebuilt' \in 1 .. MaxEditions + 1 /\ rebuilt + 1 \in 0 .. MaxEditions + 1
    BY <2>1, <2>r, QaAssumption
  <2>3. shelf' \in [text : [QaPages -> 0 .. MaxEditions], run : 0 .. MaxEditions, stamp : 0 .. MaxEditions + 1]
    BY <2>1, <2>2 DEF QaInv, QaTyped
  <2> QED
    BY <2>1, <2>2, <2>3, <2>b DEF QaInv, QaTyped, AskTyped, OpenRowsAreAwaited
<1>4. CASE ServerDies
  <2>1. /\ asks' = [r \in QaRequests |-> NoAsk]
        /\ unclosed' = unclosed \cup {r \in QaRequests : rows[r].state = "open"}
        /\ busy' = FALSE /\ UNCHANGED <<shelf, rebuilt, rows>>
    BY <1>4 DEF ServerDies
  <2>2. OpenRowsAreAwaited'
    BY <2>1 DEF OpenRowsAreAwaited
  <2>3. \A r \in QaRequests : AskTyped(asks'[r])
    BY <2>1 DEF AskTyped
  <2> QED
    BY <2>1, <2>2, <2>3 DEF QaInv, QaTyped, AskTyped
<1>7. CASE EndReindex /\ rebuilt' = rebuilt
  <2>1. busy' = FALSE /\ UNCHANGED <<shelf, rebuilt, asks, rows, departed, unclosed>>
    BY <1>7 DEF EndReindex, QaInv, QaTyped
  <2> QED
    BY <2>1 DEF QaInv, QaTyped, AskTyped, OpenRowsAreAwaited
<1>6. CASE StartReindex
  <2>1. busy' = TRUE /\ rebuilt <= MaxEditions /\ UNCHANGED <<shelf, rebuilt, asks, rows, departed, unclosed>>
    BY <1>6, Zenon DEF StartReindex
  <2> QED
    BY <2>1 DEF QaInv, QaTyped, AskTyped, OpenRowsAreAwaited
<1>5. CASE UNCHANGED qaVars
  BY <1>5 DEF qaVars, QaInv, QaTyped, AskTyped, OpenRowsAreAwaited
<1> QED
  BY <1>1, <1>2, <1>3, <1>4, <1>5, <1>6, <1>7 DEF QaNext

\* Saving a verified answer quotes the book as it is then.
LEMMA QaStepCurrent ==
    QaInv /\ [QaNext]_qaVars =>
        \A r \in QaRequests :
            rows'[r].state = "answered" /\ rows[r].state = "open" /\ asks[r].verified =>
                rows'[r].text = shelf.text /\ shelf.stamp # 0
<1> SUFFICES ASSUME QaInv, [QaNext]_qaVars, NEW r \in QaRequests,
                    rows'[r].state = "answered", rows[r].state = "open", asks[r].verified
             PROVE  rows'[r].text = shelf.text /\ shelf.stamp # 0
  OBVIOUS
<1>1. ASSUME NEW s \in QaRequests, s # r, rows' = rows \/ \E row : rows' = [rows EXCEPT ![s] = row]
      PROVE  FALSE
  BY <1>1 DEF QaInv, QaTyped
<1>2. ASSUME NEW row, rows' = rows \/ rows' = [rows EXCEPT ![r] = row] PROVE row.state = "answered" /\ rows' # rows
  BY <1>2 DEF QaInv, QaTyped
<1>3. rows' # rows
  OBVIOUS
<1>4. ASSUME NEW s \in QaRequests, SaveFinish(s) PROVE rows'[r].text = shelf.text /\ shelf.stamp # 0
  <2>1. rows' = [rows EXCEPT ![s] = [state |-> "answered", text |-> asks[s].found]]
    BY <1>3, <1>4 DEF SaveFinish, Writes
  <2>2. s = r
    BY <1>1, <2>1
  <2>3. rows'[r] = [state |-> "answered", text |-> asks[r].found]
    BY <2>1, <2>2 DEF QaInv, QaTyped
  <2>4. Current(r)
    BY <1>4, <2>2 DEF SaveFinish
  <2> QED
    BY <2>3, <2>4 DEF Current
<1>5. ASSUME NEW s \in QaRequests, BreakOff(s) \/ SaveStart(s) \/ DeleteRow(s) PROVE FALSE
  <2>1. PICK row : rows' = [rows EXCEPT ![s] = row] /\ row.state # "answered"
    BY <1>3, <1>5 DEF BreakOff, Closes, Writes, SaveStart, DeleteRow
  <2> QED
    BY <1>1, <1>2, <2>1
<1> QED
  BY <1>3, <1>4, <1>5 DEF QaNext, Ask, Find, Freeze, StartRefused, Fails, BreakOffRefused, Cease, PublishEdition,
                          StartReindex, EndReindex, ServerDies, qaVars

\* Whatever the requests, the publications, the rebuilds and the deaths of the
\* server do, a row is open only while somebody will close it or its request
\* ended in one of four ways without a word (qa.py, qa_history.py).
THEOREM RowsAreAwaited == QaSpec => []OpenRowsAreAwaited
<1>1. QaInv => OpenRowsAreAwaited
  BY DEF QaInv
<1> QED
  BY <1>1, QaInvInit, QaInvStep, PTL DEF QaSpec

\* An answer is saved only while the book is what its quotes were checked
\* against (assert_qa_sources_current, save_finish).
THEOREM AnswersQuoteTheBook == QaSpec => AnswersAreCurrent
<1>1. QaInv /\ [QaNext]_qaVars =>
        [\A r \in QaRequests :
            rows'[r].state = "answered" /\ rows[r].state = "open" /\ asks[r].verified =>
                rows'[r].text = shelf.text /\ shelf.stamp # 0]_qaVars
  BY QaStepCurrent
<1> QED
  BY <1>1, QaInvInit, QaInvStep, PTL DEF QaSpec, AnswersAreCurrent

-----------------------------------------------------------------------------
(* The conversations. *)

ChatMessages == [role : {"system", "user", "assistant"}, turn : 0 .. MaxTurns]
ChatTalks == [at : {"question", "stream"}, turn : 1 .. MaxTurns, given : Seq(ChatMessages)]
Deleted == [exists |-> FALSE, messages |-> <<>>]
WithMessage(s, m) == [s EXCEPT !.messages = Append(@, m)]
Distinct(seq) == \A i, j \in 1 .. Len(seq) : seq[i] = seq[j] => i = j

\* A session after n questions: its messages are of these questions, each is
\* there once, and a reply is behind its question.
SessionOk(s, n) ==
    /\ s \in [exists : BOOLEAN, messages : Seq(ChatMessages)]
    /\ ~s.exists => s = Deleted
    /\ s.exists => n >= 1 /\ Len(s.messages) >= 1 /\ s.messages[1] = System
    /\ \A i \in 1 .. Len(s.messages) : s.messages[i].turn <= n
    /\ Distinct(s.messages)
    /\ \A j \in 1 .. Len(s.messages) : s.messages[j].role = "assistant" =>
           \E i \in 1 .. j - 1 : s.messages[i] = Message("user", s.messages[j].turn)

\* What a request read are the first messages of its session.
ReadOf(given, n, s) ==
    s.exists => n <= Len(s.messages) /\ \A i \in 1 .. n : given[i] = s.messages[i]

\* Before its question is written a request has no message in the session.
Asks(t, s) ==
    /\ Len(t.given) >= 1 /\ t.given[1] = System /\ Distinct(t.given)
    /\ \A i \in 1 .. Len(t.given) : t.given[i].turn # t.turn
    /\ \A i \in 1 .. Len(s.messages) : s.messages[i].turn # t.turn
    /\ ReadOf(t.given, Len(t.given), s)

\* Afterwards it has its question there, and no reply.
Streams(t, s) ==
    /\ Len(t.given) >= 2 /\ t.given[1] = System /\ Distinct(t.given)
    /\ t.given[Len(t.given)] = Message("user", t.turn)
    /\ ReadOf(t.given, Len(t.given) - 1, s)
    /\ s.exists => /\ Len(t.given) <= Len(s.messages)
                   /\ \E i \in 1 .. Len(s.messages) : s.messages[i] = Message("user", t.turn)
    /\ \A i \in 1 .. Len(s.messages) : s.messages[i] # Message("assistant", t.turn)

TalkOk(t, s, n) ==
    \/ t = NoTalk
    \/ /\ t \in ChatTalks /\ t.turn <= n
       /\ t.at = "question" => Asks(t, s)
       /\ t.at = "stream" => Streams(t, s)

\* Two requests have two questions.
OwnTurns ==
    \A c, d \in ChatRequests :
        c # d /\ talks[c] # NoTalk /\ talks[d] # NoTalk => talks[c].turn # talks[d].turn

\* A question is answered, or its request streams or ended without a message.
HasReply(turn) == \E i \in 1 .. Len(session.messages) : session.messages[i] = Message("assistant", turn)
AnsweredOrAwaited ==
    \A i \in 1 .. Len(session.messages) : session.messages[i].role = "user" =>
        LET turn == session.messages[i].turn
        IN  \/ HasReply(turn)
            \/ \E c \in ChatRequests : talks[c].at = "stream" /\ talks[c].turn = turn
            \/ turn \in vanished

ChatInv ==
    /\ turns \in 0 .. MaxTurns
    /\ SessionOk(session, turns)
    /\ talks \in [ChatRequests -> {NoTalk} \cup ChatTalks]
    /\ \A c \in ChatRequests : TalkOk(talks[c], session, turns)
    /\ OwnTurns /\ AnsweredOrAwaited
    /\ vanished \subseteq 1 .. MaxTurns

\* The messages of a session to which one is appended.
LEMMA MessageAppended ==
    ASSUME NEW s, NEW n, SessionOk(s, n), NEW m \in ChatMessages
    PROVE  /\ s.messages \in Seq(ChatMessages) /\ Len(s.messages) \in Nat
           /\ WithMessage(s, m) \in [exists : BOOLEAN, messages : Seq(ChatMessages)]
           /\ WithMessage(s, m).exists = s.exists
           /\ Len(WithMessage(s, m).messages) = Len(s.messages) + 1
           /\ \A i \in 1 .. Len(s.messages) : WithMessage(s, m).messages[i] = s.messages[i]
           /\ WithMessage(s, m).messages[Len(s.messages) + 1] = m
<1>1. s \in [exists : BOOLEAN, messages : Seq(ChatMessages)]
  BY DEF SessionOk
<1>2. s.messages \in Seq(ChatMessages) /\ s.exists \in BOOLEAN /\ Len(s.messages) \in Nat
  BY <1>1, LenProperties
<1>3. WithMessage(s, m) = [exists |-> s.exists, messages |-> Append(s.messages, m)]
  BY <1>1 DEF WithMessage
<1>4. WithMessage(s, m).messages = Append(s.messages, m) /\ WithMessage(s, m).exists = s.exists
  BY <1>3
<1>5. Append(s.messages, m) \in Seq(ChatMessages)
  BY <1>2, AppendProperties
<1>6. WithMessage(s, m) \in [exists : BOOLEAN, messages : Seq(ChatMessages)]
  BY <1>2, <1>3, <1>5
<1> QED
  BY <1>2, <1>4, <1>6, AppendProperties

\* A message that is new, and a reply only behind its question, leave the
\* session in order.
LEMMA SessionGrows ==
    ASSUME NEW s, NEW n \in Nat, SessionOk(s, n), s.exists, NEW m \in ChatMessages, m.turn <= n,
           \A i \in 1 .. Len(s.messages) : s.messages[i] # m,
           m.role = "assistant" => \E i \in 1 .. Len(s.messages) : s.messages[i] = Message("user", m.turn)
    PROVE  SessionOk(WithMessage(s, m), n)
<1> DEFINE w == WithMessage(s, m)
           k == Len(s.messages)
<1>1. w \in [exists : BOOLEAN, messages : Seq(ChatMessages)]
  BY MessageAppended
<1>2. w.exists = s.exists /\ k \in Nat /\ Len(w.messages) = k + 1
  BY MessageAppended
<1>3. \A i \in 1 .. k : w.messages[i] = s.messages[i]
  BY MessageAppended
<1>4. w.messages[k + 1] = m
  BY MessageAppended
<1> HIDE DEF w, k
<1>5. /\ w.exists = s.exists /\ k \in Nat /\ Len(w.messages) = k + 1
      /\ \A i \in 1 .. k : w.messages[i] = s.messages[i]
      /\ w.messages[k + 1] = m
  BY <1>2, <1>3, <1>4
<1>6. \A i \in 1 .. k + 1 : i \in 1 .. k \/ i = k + 1
  BY <1>5
<1>7. \A i \in 1 .. k + 1 : w.messages[i].turn <= n
  BY <1>5, <1>6 DEF SessionOk, k
<1>8. Distinct(w.messages)
  BY <1>5, <1>6 DEF SessionOk, Distinct, k
<1>9. \A j \in 1 .. k + 1 : w.messages[j].role = "assistant" =>
          \E i \in 1 .. j - 1 : w.messages[i] = Message("user", w.messages[j].turn)
  <2>1. ASSUME NEW j \in 1 .. k, w.messages[j].role = "assistant"
        PROVE  \E i \in 1 .. j - 1 : w.messages[i] = Message("user", w.messages[j].turn)
    <3>1. PICK i \in 1 .. j - 1 : s.messages[i] = Message("user", s.messages[j].turn)
      BY <1>5, <2>1 DEF SessionOk, k
    <3>2. i \in 1 .. k
      BY <1>5
    <3> QED
      BY <1>5, <3>1, <3>2
  <2>2. ASSUME w.messages[k + 1].role = "assistant"
        PROVE  \E i \in 1 .. k : w.messages[i] = Message("user", w.messages[k + 1].turn)
    BY <1>5, <2>2 DEF k
  <2> QED
    BY <1>5, <1>6, <2>1, <2>2
<1>10. w.exists /\ 1 \in 1 .. k /\ n >= 1 /\ w.messages[1] = System
  BY <1>5 DEF SessionOk, k
<1>11. SessionOk(w, n)
  BY <1>1, <1>5, <1>7, <1>8, <1>9, <1>10 DEF SessionOk
<1> QED
  BY <1>11 DEF w

\* A message of another question leaves a request as it was.
LEMMA TalkBesides ==
    ASSUME NEW s, NEW n, NEW t, SessionOk(s, n), TalkOk(t, s, n), NEW m \in ChatMessages,
           t # NoTalk => t.turn # m.turn
    PROVE  TalkOk(t, WithMessage(s, m), n)
<1> DEFINE w == WithMessage(s, m)
           k == Len(s.messages)
<1>1. /\ w.exists = s.exists /\ k \in Nat /\ Len(w.messages) = k + 1
      /\ \A i \in 1 .. k : w.messages[i] = s.messages[i]
      /\ w.messages[k + 1] = m
  BY MessageAppended
<1>2. \A i \in 1 .. k + 1 : i \in 1 .. k \/ i = k + 1
  BY <1>1
<1> HIDE DEF w, k
<1> SUFFICES ASSUME t # NoTalk PROVE TalkOk(t, w, n)
  BY DEF TalkOk, w
<1>3. t \in ChatTalks /\ t.turn <= n /\ Len(t.given) \in Nat
  BY LenProperties DEF TalkOk, ChatTalks
<1>4. \A i \in 1 .. Len(t.given) : i <= k => i \in 1 .. k
  BY <1>1, <1>3
<1>5. CASE t.at = "question"
  <2>1. Asks(t, s)
    BY <1>5 DEF TalkOk
  <2>2. \A i \in 1 .. Len(w.messages) : w.messages[i].turn # t.turn
    BY <1>1, <1>2, <2>1 DEF Asks, k
  <2>3. ReadOf(t.given, Len(t.given), w)
    BY <1>1, <1>3, <2>1 DEF Asks, ReadOf, k
  <2> QED
    BY <1>3, <1>5, <2>1, <2>2, <2>3 DEF TalkOk, Asks
<1>6. CASE t.at = "stream"
  <2>1. Streams(t, s)
    BY <1>6 DEF TalkOk
  <2>2. \A i \in 1 .. Len(w.messages) : w.messages[i] # Message("assistant", t.turn)
    <3>1. Message("assistant", t.turn).turn = t.turn
      BY DEF Message
    <3>2. m # Message("assistant", t.turn)
      BY <3>1
    <3>3. \A i \in 1 .. k : w.messages[i] # Message("assistant", t.turn)
      BY <1>1, <2>1 DEF Streams, k
    <3> QED
      BY <1>1, <1>2, <3>2, <3>3
  <2>3. ReadOf(t.given, Len(t.given) - 1, w)
    <3>1. Len(t.given) - 1 \in Int /\ Len(w.messages) \in Int /\ k <= Len(w.messages)
      BY <1>1, <1>3
    <3>2. s.exists => Len(t.given) - 1 <= k /\ \A i \in 1 .. Len(t.given) - 1 : t.given[i] = s.messages[i]
      BY <2>1 DEF Streams, ReadOf, k
    <3>3. \A i \in 1 .. Len(t.given) - 1 : Len(t.given) - 1 <= k => i \in 1 .. k
      BY <1>1, <3>1
    <3> QED
      BY <1>1, <3>1, <3>2, <3>3 DEF ReadOf
  <2>4. w.exists => Len(t.given) <= Len(w.messages)
    BY <1>1, <1>3, <2>1 DEF Streams, k
  <2>5. w.exists => \E i \in 1 .. Len(w.messages) : w.messages[i] = Message("user", t.turn)
    BY <1>1, <2>1 DEF Streams, k
  <2> QED
    BY <1>3, <1>6, <2>1, <2>2, <2>3, <2>4, <2>5 DEF TalkOk, Streams
<1> QED
  BY <1>3, <1>5, <1>6 DEF ChatTalks

\* The deletion of the session and a later question leave a request as it was.
LEMMA TalkLater ==
    ASSUME NEW s, NEW n \in Int, NEW later \in Int, n <= later, NEW t, TalkOk(t, s, n)
    PROVE  TalkOk(t, s, later) /\ TalkOk(t, Deleted, later)
<1>1. Len(Deleted.messages) = 0 /\ ~Deleted.exists /\ 1 .. 0 = {}
  BY DEF Deleted
<1>2. t # NoTalk => t \in ChatTalks /\ t.turn \in Int /\ t.turn <= later
  BY DEF TalkOk, ChatTalks
<1>3. Asks(t, s) => Asks(t, Deleted)
  BY <1>1 DEF Asks, ReadOf
<1>4. Streams(t, s) => Streams(t, Deleted)
  BY <1>1 DEF Streams, ReadOf
<1> QED
  BY <1>2, <1>3, <1>4 DEF TalkOk

\* What the messages and the requests look like.
LEMMA ChatRecords ==
    /\ System \in ChatMessages /\ System.turn = 0 /\ System.role = "system"
    /\ \A role \in {"user", "assistant"} : \A turn \in 1 .. MaxTurns :
          Message(role, turn) \in ChatMessages /\ Message(role, turn).turn = turn
          /\ Message(role, turn).role = role
    /\ NoTalk.at = "idle" /\ NoTalk \notin ChatTalks
BY ChatAssumption DEF System, Message, ChatMessages, NoTalk, ChatTalks

\* A step of one request whose new record is in order keeps the invariant, if
\* the session and the other requests are in order after it.
LEMMA OneTalk ==
    ASSUME ChatInv, NEW c \in ChatRequests, NEW t, talks' = [talks EXCEPT ![c] = t],
           t \in {NoTalk} \cup ChatTalks,
           \A d \in ChatRequests : d # c /\ t # NoTalk /\ talks[d] # NoTalk => t.turn # talks[d].turn,
           turns' \in 0 .. MaxTurns, SessionOk(session', turns'), TalkOk(t, session', turns'),
           \A d \in ChatRequests : d # c => TalkOk(talks[d], session', turns'),
           vanished' \subseteq 1 .. MaxTurns, AnsweredOrAwaited'
    PROVE  ChatInv'
<1>1. talks'[c] = t /\ \A d \in ChatRequests : d # c => talks'[d] = talks[d]
  BY DEF ChatInv
<1>2. talks' \in [ChatRequests -> {NoTalk} \cup ChatTalks]
  BY DEF ChatInv
<1>3. \A d \in ChatRequests : TalkOk(talks'[d], session', turns')
  BY <1>1
<1>4. OwnTurns'
  BY <1>1 DEF ChatInv, OwnTurns
<1> QED
  BY <1>2, <1>3, <1>4 DEF ChatInv, SessionOk, TalkOk

\* The invariant holds at the start.
LEMMA ChatInvInit == ChatInit => ChatInv
<1> SUFFICES ASSUME ChatInit PROVE ChatInv
  OBVIOUS
<1>1. session = Deleted /\ Len(session.messages) = 0 /\ 1 .. 0 = {} /\ ~session.exists
  BY DEF ChatInit, Deleted
<1>2. session \in [exists : BOOLEAN, messages : Seq(ChatMessages)]
  BY DEF ChatInit
<1>3. SessionOk(session, 0)
  BY <1>1, <1>2 DEF SessionOk, Distinct
<1>4. talks = [c \in ChatRequests |-> NoTalk] /\ turns = 0 /\ vanished = {}
  BY DEF ChatInit
<1>5. OwnTurns /\ AnsweredOrAwaited
  BY <1>1, <1>4 DEF OwnTurns, AnsweredOrAwaited
<1> QED
  BY <1>3, <1>4, <1>5, ChatAssumption DEF ChatInv, TalkOk

\* The session is opened.
LEMMA OpenKeeps == ASSUME ChatInv, NEW c \in ChatRequests, OpenSession(c) PROVE ChatInv'
<1> DEFINE t == [at |-> "question", turn |-> 1, given |-> <<System>>]
<1>1. /\ turns = 0 /\ turns' = 1 /\ talks' = [talks EXCEPT ![c] = t]
      /\ session' = [exists |-> TRUE, messages |-> <<System>>] /\ vanished' = vanished
  BY DEF OpenSession, Talks
<1>2. \A d \in ChatRequests : talks[d] = NoTalk
  BY <1>1 DEF ChatInv, TalkOk, ChatTalks
<1>3. <<System>> \in Seq(ChatMessages) /\ Len(<<System>>) = 1 /\ <<System>>[1] = System
      /\ \A i \in 1 .. 1 : i = 1
  BY ChatRecords
<1>4. session'.messages = <<System>> /\ session'.exists = TRUE
      /\ session' \in [exists : BOOLEAN, messages : Seq(ChatMessages)]
  BY <1>1, <1>3
<1>5. SessionOk(session', 1)
  BY <1>3, <1>4, ChatRecords DEF SessionOk, Distinct
<1>6. t \in ChatTalks /\ t.turn = 1 /\ t.given = <<System>> /\ t.at = "question"
  BY <1>3, ChatAssumption DEF ChatTalks
<1> HIDE DEF t
<1>7. Asks(t, session')
  BY <1>3, <1>4, <1>6, ChatRecords DEF Asks, ReadOf, Distinct
<1>8. TalkOk(t, session', 1)
  BY <1>6, <1>7 DEF TalkOk
<1>9. AnsweredOrAwaited'
  BY <1>3, <1>4, ChatRecords DEF AnsweredOrAwaited
<1>10. 1 \in 0 .. MaxTurns /\ vanished' \subseteq 1 .. MaxTurns
  BY <1>1, ChatAssumption DEF ChatInv
<1> QED
  BY <1>1, <1>2, <1>5, <1>6, <1>8, <1>9, <1>10, OneTalk DEF TalkOk

\* The session is read by a request with the next question.
LEMMA ReadKeeps == ASSUME ChatInv, NEW c \in ChatRequests, ReadSession(c) PROVE ChatInv'
<1> DEFINE t == [at |-> "question", turn |-> turns + 1, given |-> session.messages]
<1>1. /\ talks[c] = NoTalk /\ session.exists
      /\ turns < MaxTurns /\ turns' = turns + 1 /\ talks' = [talks EXCEPT ![c] = t]
      /\ session' = session /\ vanished' = vanished
  BY DEF ReadSession, Talks
<1>2. turns \in Nat /\ turns' \in 0 .. MaxTurns /\ turns + 1 \in 1 .. MaxTurns
  BY <1>1, ChatAssumption DEF ChatInv
<1>3. SessionOk(session, turns) /\ session.messages \in Seq(ChatMessages) /\ Len(session.messages) \in Nat
  BY LenProperties DEF ChatInv, SessionOk
<1>4. \A i \in 1 .. Len(session.messages) : session.messages[i].turn <= turns /\ session.messages[i].turn \in Int
  <2>1. \A i \in 1 .. Len(session.messages) : session.messages[i] \in ChatMessages
    BY <1>3, ElementOfSeq
  <2>2. \A x \in ChatMessages : x.turn \in Int
    BY ChatAssumption DEF ChatMessages
  <2> QED
    BY <1>3, <2>1, <2>2 DEF SessionOk
<1>5. SessionOk(session, turns + 1)
  BY <1>1, <1>2, <1>3, <1>4 DEF SessionOk
<1>6. t \in ChatTalks /\ t.turn = turns + 1 /\ t.given = session.messages /\ t.at = "question"
  BY <1>2, <1>3 DEF ChatTalks
<1> HIDE DEF t
<1>7. Asks(t, session)
  BY <1>1, <1>2, <1>3, <1>4, <1>6 DEF Asks, ReadOf, SessionOk
<1>8. TalkOk(t, session, turns + 1)
  BY <1>2, <1>6, <1>7 DEF TalkOk
<1>9. \A d \in ChatRequests : TalkOk(talks[d], session, turns + 1)
  BY <1>2, TalkLater DEF ChatInv
<1>10. \A d \in ChatRequests : talks[d] # NoTalk => t.turn # talks[d].turn
  BY <1>2, <1>6 DEF ChatInv, TalkOk, ChatTalks
<1>11. \A d \in ChatRequests : talks[d].at = "stream" => talks'[d] = talks[d]
  BY <1>1, ChatRecords DEF ChatInv
<1>12. AnsweredOrAwaited'
  BY <1>1, <1>11 DEF ChatInv, AnsweredOrAwaited, HasReply
<1> QED
  BY <1>1, <1>2, <1>5, <1>6, <1>8, <1>9, <1>10, <1>12, OneTalk DEF ChatInv

\* A request streams after its question is written.
LEMMA CommitKeeps == ASSUME ChatInv, NEW c \in ChatRequests, CommitQuestion(c) PROVE ChatInv'
<1> DEFINE t == talks[c]
           m == Message("user", t.turn)
<1>1. t \in ChatTalks /\ t.at = "question" /\ turns' = turns /\ vanished' = vanished
      /\ turns \in 0 .. MaxTurns /\ turns \in Nat
  BY ChatRecords, ChatAssumption DEF CommitQuestion, ChatInv
<1>2. Asks(t, session) /\ t.turn <= turns /\ t.turn \in 1 .. MaxTurns
      /\ t.given \in Seq(ChatMessages) /\ Len(t.given) \in Nat
  BY <1>1, ChatRecords, LenProperties DEF ChatInv, TalkOk, ChatTalks
<1>3. m \in ChatMessages /\ m.turn = t.turn /\ m.role = "user"
  BY <1>2, ChatRecords
<1>4. CASE ~session.exists
  <2>1. session' = session /\ talks' = [talks EXCEPT ![c] = NoTalk]
    BY <1>4 DEF CommitQuestion, Talks
  <2>2. Len(session.messages) = 0 /\ 1 .. 0 = {}
    BY <1>4 DEF ChatInv, SessionOk, Deleted
  <2>3. AnsweredOrAwaited'
    BY <2>1, <2>2 DEF AnsweredOrAwaited
  <2> QED
    BY <1>1, <2>1, <2>3, OneTalk DEF ChatInv, TalkOk
<1>5. CASE session.exists
  <2> DEFINE w == WithMessage(session, m)
             k == Len(session.messages)
             g == Len(t.given)
             next == [t EXCEPT !.at = "stream", !.given = Append(t.given, m)]
  <2>1. session' = w /\ talks' = [talks EXCEPT ![c] = next]
    BY <1>5 DEF CommitQuestion, Talks, Appended, WithMessage, GivenTo
  <2>2. SessionOk(session, turns)
    BY DEF ChatInv
  <2>3. /\ k \in Nat /\ Len(w.messages) = k + 1 /\ w.exists
        /\ \A i \in 1 .. k : w.messages[i] = session.messages[i]
        /\ w.messages[k + 1] = m
    BY <1>3, <1>5, <2>2, MessageAppended
  <2>4. \A i \in 1 .. k : session.messages[i] # m
    BY <1>2, <1>3 DEF Asks
  <2>5. SessionOk(w, turns)
    BY <1>1, <1>2, <1>3, <1>5, <2>2, <2>4, SessionGrows
  <2>6. \A d \in ChatRequests : d # c => TalkOk(talks[d], w, turns)
    BY <1>1, <1>3, <2>2, ChatRecords, TalkBesides DEF ChatInv, OwnTurns
  <2>7. /\ Append(t.given, m) \in Seq(ChatMessages) /\ Len(Append(t.given, m)) = g + 1
        /\ \A i \in 1 .. g : Append(t.given, m)[i] = t.given[i]
        /\ Append(t.given, m)[g + 1] = m
    BY <1>2, <1>3, AppendProperties
  <2>8. \A r \in ChatTalks : \A given \in Seq(ChatMessages) :
          LET u == [r EXCEPT !.at = "stream", !.given = given]
          IN  u \in ChatTalks /\ u.at = "stream" /\ u.turn = r.turn /\ u.given = given
    BY DEF ChatTalks
  <2>9. next \in ChatTalks /\ next.at = "stream" /\ next.turn = t.turn /\ next.given = Append(t.given, m)
    BY <1>1, <2>7, <2>8
  <2>10. \A i \in 1 .. g + 1 : i \in 1 .. g \/ i = g + 1
    BY <1>2
  <2>11. g >= 1 /\ t.given[1] = System /\ Distinct(t.given) /\ g <= k
         /\ (\A i \in 1 .. g : t.given[i] = session.messages[i])
         /\ (\A i \in 1 .. g : t.given[i].turn # t.turn)
         /\ (\A i \in 1 .. k : session.messages[i].turn # t.turn)
    BY <1>2, <1>5 DEF Asks, ReadOf
  <2> HIDE DEF w, k, g, next, m, t
  <2>12. 1 \in 1 .. g /\ \A i \in 1 .. g : i \in 1 .. k
    BY <1>2, <2>3, <2>11 DEF g
  <2>13. Distinct(next.given)
    BY <1>3, <2>7, <2>9, <2>10, <2>11 DEF Distinct, g
  <2>14. ReadOf(next.given, g, w)
    BY <1>2, <2>3, <2>7, <2>9, <2>11, <2>12 DEF ReadOf, g
  <2>15. \A i \in 1 .. k + 1 : w.messages[i] # Message("assistant", t.turn)
    <3>1. Message("assistant", t.turn).turn = t.turn /\ m # Message("assistant", t.turn)
      BY <1>2, <1>3, ChatRecords
    <3>2. \A i \in 1 .. k + 1 : i \in 1 .. k \/ i = k + 1
      BY <2>3
    <3> QED
      BY <2>3, <2>11, <3>1, <3>2
  <2>16. \E i \in 1 .. k + 1 : w.messages[i] = m
    BY <2>3
  <2>17. Streams(next, w)
    <3>1. Len(next.given) = g + 1 /\ g + 1 - 1 = g /\ g \in Nat /\ g + 1 >= 2 /\ g + 1 <= k + 1
      BY <1>2, <2>3, <2>7, <2>9, <2>11 DEF g
    <3>2. next.given[1] = System /\ next.given[g + 1] = Message("user", next.turn)
      BY <2>7, <2>9, <2>11, <2>12 DEF m
    <3>3. m = Message("user", next.turn)
      BY <2>9 DEF m
    <3> QED
      BY <2>3, <2>9, <2>13, <2>14, <2>15, <2>16, <3>1, <3>2, <3>3 DEF Streams
  <2>18. TalkOk(next, w, turns)
    BY <1>2, <2>9, <2>17, ChatRecords DEF TalkOk
  <2>19. \A d \in ChatRequests : talks[d].at = "stream" => talks'[d] = talks[d]
    BY <1>1, <2>1 DEF ChatInv, t
  <2>20. talks'[c] = next
    BY <2>1 DEF ChatInv
  <2>21. AnsweredOrAwaited'
    <3> SUFFICES ASSUME NEW i \in 1 .. k + 1, w.messages[i].role = "user"
                 PROVE  \/ \E j \in 1 .. k + 1 : w.messages[j] = Message("assistant", w.messages[i].turn)
                        \/ \E d \in ChatRequests : talks'[d].at = "stream" /\ talks'[d].turn = w.messages[i].turn
                        \/ w.messages[i].turn \in vanished
      BY <1>1, <2>1, <2>3 DEF AnsweredOrAwaited, HasReply
    <3>1. CASE i \in 1 .. k
      <4>1. \/ \E j \in 1 .. k : session.messages[j] = Message("assistant", w.messages[i].turn)
            \/ \E d \in ChatRequests : talks[d].at = "stream" /\ talks[d].turn = w.messages[i].turn
            \/ w.messages[i].turn \in vanished
        BY <2>3, <3>1 DEF ChatInv, AnsweredOrAwaited, HasReply, k
      <4> QED
        BY <2>3, <2>19, <4>1
    <3>2. CASE i = k + 1
      BY <1>3, <2>3, <2>9, <2>20, <3>2
    <3> QED
      BY <2>3, <3>1, <3>2
  <2>22. \A d \in ChatRequests : d # c /\ talks[d] # NoTalk => next.turn # talks[d].turn
    BY <1>1, <2>9, ChatRecords DEF ChatInv, OwnTurns, t
  <2> QED
    BY <1>1, <2>1, <2>5, <2>6, <2>9, <2>18, <2>21, <2>22, OneTalk DEF ChatInv
<1> QED
  BY <1>4, <1>5

\* The reply is behind its question.
LEMMA ReplyKeeps == ASSUME ChatInv, NEW c \in ChatRequests, Reply(c) PROVE ChatInv'
<1> DEFINE t == talks[c]
           m == Message("assistant", t.turn)
<1>1. t \in ChatTalks /\ t.at = "stream" /\ turns' = turns /\ vanished' = vanished
      /\ talks' = [talks EXCEPT ![c] = NoTalk] /\ turns \in 0 .. MaxTurns /\ turns \in Nat
  BY ChatRecords, ChatAssumption DEF Reply, ChatInv, Talks
<1>2. Streams(t, session) /\ t.turn <= turns /\ t.turn \in 1 .. MaxTurns
  BY <1>1, ChatRecords DEF ChatInv, TalkOk, ChatTalks
<1>3. m \in ChatMessages /\ m.turn = t.turn /\ m.role = "assistant"
  BY <1>2, ChatRecords
<1>4. SessionOk(session, turns)
  BY DEF ChatInv
<1>5. CASE ~session.exists
  <2>1. session' = session
    BY <1>5 DEF Reply
  <2>2. Len(session.messages) = 0 /\ 1 .. 0 = {}
    BY <1>4, <1>5 DEF SessionOk, Deleted
  <2>3. AnsweredOrAwaited'
    BY <2>1, <2>2 DEF AnsweredOrAwaited
  <2> QED
    BY <1>1, <2>1, <2>3, OneTalk DEF ChatInv, TalkOk
<1>6. CASE session.exists
  <2> DEFINE w == WithMessage(session, m)
             k == Len(session.messages)
  <2>1. session' = w
    BY <1>6 DEF Reply, Replies, Appended, WithMessage
  <2>2. /\ k \in Nat /\ Len(w.messages) = k + 1 /\ w.exists
        /\ \A i \in 1 .. k : w.messages[i] = session.messages[i]
        /\ w.messages[k + 1] = m
    BY <1>3, <1>4, <1>6, MessageAppended
  <2>3. \E i \in 1 .. k : session.messages[i] = Message("user", t.turn)
    BY <1>2, <1>6 DEF Streams
  <2>4. \A i \in 1 .. k : session.messages[i] # m
    BY <1>2 DEF Streams
  <2>5. SessionOk(w, turns)
    BY <1>1, <1>2, <1>3, <1>4, <1>6, <2>3, <2>4, SessionGrows
  <2>6. \A d \in ChatRequests : d # c => TalkOk(talks[d], w, turns)
    BY <1>1, <1>3, <1>4, ChatRecords, TalkBesides DEF ChatInv, OwnTurns
  <2> HIDE DEF w, k
  <2>7. AnsweredOrAwaited'
    <3> SUFFICES ASSUME NEW i \in 1 .. k + 1, w.messages[i].role = "user"
                 PROVE  \/ \E j \in 1 .. k + 1 : w.messages[j] = Message("assistant", w.messages[i].turn)
                        \/ \E d \in ChatRequests : talks'[d].at = "stream" /\ talks'[d].turn = w.messages[i].turn
                        \/ w.messages[i].turn \in vanished
      BY <1>1, <2>1, <2>2 DEF AnsweredOrAwaited, HasReply
    <3>1. i \in 1 .. k
      BY <1>3, <2>2
    <3>2. \/ \E j \in 1 .. k : session.messages[j] = Message("assistant", w.messages[i].turn)
          \/ \E d \in ChatRequests : talks[d].at = "stream" /\ talks[d].turn = w.messages[i].turn
          \/ w.messages[i].turn \in vanished
      BY <2>2, <3>1 DEF ChatInv, AnsweredOrAwaited, HasReply, k
    <3>3. w.messages[i].turn = t.turn => w.messages[k + 1] = Message("assistant", w.messages[i].turn)
      BY <2>2
    <3>4. \A d \in ChatRequests : d # c => talks'[d] = talks[d]
      BY <1>1 DEF ChatInv
    <3>5. \A j \in 1 .. k : j \in 1 .. k + 1 /\ w.messages[j] = session.messages[j]
      BY <2>2
    <3>6. k + 1 \in 1 .. k + 1
      BY <2>2
    <3> QED
      BY <3>2, <3>3, <3>4, <3>5, <3>6
  <2> QED
    BY <1>1, <2>1, <2>5, <2>6, <2>7, OneTalk DEF ChatInv, TalkOk
<1> QED
  BY <1>5, <1>6

\* A request without a last word, the deletion of the session and a death of
\* the server.
LEMMA EndsKeep ==
    ASSUME ChatInv, (\E c \in ChatRequests : Vanish(c)) \/ DeleteSession \/ Outage PROVE ChatInv'
<1>1. ASSUME NEW c \in ChatRequests, talks[c] # NoTalk PROVE talks[c].turn \in 1 .. MaxTurns
  BY <1>1 DEF ChatInv, ChatTalks
<1>2. ASSUME NEW c \in ChatRequests, Vanish(c) PROVE ChatInv'
  <2>1. /\ talks[c].at = "stream" /\ vanished' = vanished \cup {talks[c].turn}
        /\ talks' = [talks EXCEPT ![c] = NoTalk] /\ session' = session /\ turns' = turns
    BY <1>2 DEF Vanish, Talks
  <2>2. vanished' \subseteq 1 .. MaxTurns
    BY <1>1, <2>1, ChatRecords DEF ChatInv
  <2>3. \A d \in ChatRequests : d # c => talks'[d] = talks[d]
    BY <2>1 DEF ChatInv
  <2>4. AnsweredOrAwaited'
    BY <2>1, <2>3 DEF ChatInv, AnsweredOrAwaited, HasReply
  <2> QED
    BY <2>1, <2>2, <2>4, OneTalk DEF ChatInv, TalkOk
<1>3. CASE DeleteSession
  <2>1. session' = Deleted /\ turns' = turns /\ talks' = talks /\ vanished' = vanished
    BY <1>3 DEF DeleteSession, Deleted
  <2>2. Len(Deleted.messages) = 0 /\ 1 .. 0 = {} /\ ~Deleted.exists
        /\ Deleted \in [exists : BOOLEAN, messages : Seq(ChatMessages)]
    BY DEF Deleted
  <2>3. SessionOk(Deleted, turns)
    BY <2>2 DEF SessionOk, Distinct
  <2>4. turns \in Int /\ turns <= turns
    BY ChatAssumption DEF ChatInv
  <2>5. \A c \in ChatRequests : TalkOk(talks[c], Deleted, turns)
    BY <2>4, TalkLater DEF ChatInv
  <2>6. AnsweredOrAwaited'
    BY <2>1, <2>2 DEF AnsweredOrAwaited
  <2> QED
    BY <2>1, <2>3, <2>5, <2>6 DEF ChatInv, OwnTurns, SessionOk, TalkOk
<1>4. CASE Outage
  <2>1. /\ vanished' = vanished \cup {talks[c].turn : c \in {d \in ChatRequests : talks[d].at = "stream"}}
        /\ talks' = [c \in ChatRequests |-> NoTalk] /\ session' = session /\ turns' = turns
    BY <1>4 DEF Outage
  <2>2. vanished' \subseteq 1 .. MaxTurns
    <3>1. \A c \in ChatRequests : talks[c].at = "stream" => talks[c].turn \in 1 .. MaxTurns
      BY <1>1, ChatRecords
    <3> QED
      BY <2>1, <3>1 DEF ChatInv
  <2>3. \A c \in ChatRequests : TalkOk(talks'[c], session', turns')
    BY <2>1 DEF TalkOk
  <2>4. OwnTurns'
    BY <2>1 DEF OwnTurns
  <2>5. AnsweredOrAwaited'
    BY <2>1 DEF ChatInv, AnsweredOrAwaited, HasReply
  <2> QED
    BY <2>1, <2>2, <2>3, <2>4, <2>5 DEF ChatInv, SessionOk
<1> QED
  BY <1>2, <1>3, <1>4

\* Every step keeps the invariant of the conversations.
LEMMA ChatInvStep == ChatInv /\ [ChatNext]_chatVars => ChatInv'
<1> SUFFICES ASSUME ChatInv, [ChatNext]_chatVars PROVE ChatInv'
  OBVIOUS
<1>1. CASE UNCHANGED chatVars
  BY <1>1 DEF chatVars, ChatInv, SessionOk, TalkOk, OwnTurns, AnsweredOrAwaited, HasReply
<1>2. ASSUME NEW c \in ChatRequests,
             OpenSession(c) \/ ReadSession(c) \/ CommitQuestion(c) \/ Reply(c) \/ Vanish(c)
      PROVE  ChatInv'
  BY <1>2, OpenKeeps, ReadKeeps, CommitKeeps, ReplyKeeps, EndsKeep
<1>3. CASE DeleteSession \/ Outage
  BY <1>3, EndsKeep
<1> QED
  BY <1>1, <1>2, <1>3 DEF ChatNext

\* The two properties follow from the invariant.
LEMMA ChatInvSays == ChatInv => QuestionsAreAnswered /\ GivenInOrder
<1> SUFFICES ASSUME ChatInv PROVE QuestionsAreAnswered /\ GivenInOrder
  OBVIOUS
<1> DEFINE k == Len(session.messages)
<1>1. SessionOk(session, turns) /\ session.messages \in Seq(ChatMessages) /\ k \in Nat
      /\ DOMAIN session.messages = 1 .. k
  BY LenProperties DEF ChatInv, SessionOk
<1>2. Turns("user") \ Turns("assistant") \subseteq Streaming \cup vanished
  <2> SUFFICES ASSUME NEW i \in 1 .. k, session.messages[i].role = "user",
                      session.messages[i].turn \notin Turns("assistant")
               PROVE  session.messages[i].turn \in Streaming \cup vanished
    BY <1>1 DEF Turns
  <2> DEFINE turn == session.messages[i].turn
  <2>1. ~HasReply(turn)
    <3>1. Message("assistant", turn).role = "assistant" /\ Message("assistant", turn).turn = turn
      BY DEF Message
    <3> QED
      BY <1>1, <3>1 DEF HasReply, Turns
  <2> QED
    BY <2>1 DEF ChatInv, AnsweredOrAwaited, Streaming
<1>3. QuestionsAreAnswered
  BY <1>1, <1>2 DEF QuestionsAreAnswered, SessionOk, Distinct
<1>4. ASSUME NEW c \in ChatRequests, talks[c].at = "stream"
      PROVE  LET given == talks[c].given  n == Len(given)
             IN  /\ given[1] = System /\ given[n] = Message("user", talks[c].turn)
                 /\ \A i, j \in 1 .. n : given[i] = given[j] => i = j
                 /\ session.exists =>
                        /\ n <= Len(session.messages)
                        /\ SubSeq(given, 1, n - 1) = SubSeq(session.messages, 1, n - 1)
  <2> DEFINE given == talks[c].given
             n == Len(given)
  <2>1. Streams(talks[c], session) /\ given \in Seq(ChatMessages) /\ n \in Nat
    BY <1>4, ChatRecords, LenProperties DEF ChatInv, TalkOk, ChatTalks
  <2>2. n >= 2 /\ given[1] = System /\ given[n] = Message("user", talks[c].turn)
        /\ \A i, j \in 1 .. n : given[i] = given[j] => i = j
    BY <2>1 DEF Streams, Distinct
  <2>3. ASSUME session.exists
        PROVE  n <= k /\ SubSeq(given, 1, n - 1) = SubSeq(session.messages, 1, n - 1)
    <3>1. n <= k /\ \A i \in 1 .. n - 1 : given[i] = session.messages[i]
      BY <2>1, <2>3 DEF Streams, ReadOf
    <3> DEFINE a == SubSeq(given, 1, n - 1)
               b == SubSeq(session.messages, 1, n - 1)
    <3>2. n \in Nat /\ n >= 2 /\ k \in Nat /\ n <= k
      BY <1>1, <2>1, <2>2, <3>1
    <3> HIDE DEF n, k
    <3>3. n - 1 >= 1 /\ n - 1 \in 1 .. n /\ n - 1 \in 1 .. k /\ 1 \in 1 .. n + 1 /\ 1 \in 1 .. k + 1
          /\ n - 1 - 1 + 1 = n - 1
      BY <3>2
    <3>4. a \in Seq(ChatMessages) /\ Len(a) = n - 1 /\ \A i \in 1 .. n - 1 : a[i] = given[i]
      BY <2>1, <3>3, SubSeqProperties DEF n
    <3>5. b \in Seq(ChatMessages) /\ Len(b) = n - 1 /\ \A i \in 1 .. n - 1 : b[i] = session.messages[i]
      BY <1>1, <3>3, SubSeqProperties DEF k
    <3> HIDE DEF a, b
    <3>6. a = b
      BY <3>1, <3>4, <3>5, SeqEqual
    <3> QED
      BY <3>1, <3>6 DEF a, b
  <2> QED
    BY <2>2, <2>3
<1>5. GivenInOrder
  BY <1>4 DEF GivenInOrder
<1> QED
  BY <1>3, <1>5

\* However requests of one conversation overlap, fail or lose their session,
\* its questions and replies are in order and each is there once, and the
\* model is given them in this order (chat.py, qa_sessions.py).
THEOREM ConversationsAreOrdered == ChatSpec => [](QuestionsAreAnswered /\ GivenInOrder)
BY ChatInvInit, ChatInvStep, ChatInvSays, PTL DEF ChatSpec

-----------------------------------------------------------------------------
(* The activation of a release. *)

\* What the script, its rollback and its trap have left from a command on.
FromScript(k) == SubSeq(Script, k, Len(Script))
FromRollback(k) == SubSeq(Rollback, k, Len(Rollback))
Trap == <<"restore backend", "restore common", "resume", "restart">>
FromTrap(k) == SubSeq(Trap, k, Len(Trap))
JustResume == <<"resume">>

\* Nothing but the death of the server happened that the trap is no match for.
Clean == marks \subseteq {"died"}
\* The flags before the command k: each is set after its path was moved away
\* and taken back when the release is probed.
FlagsAt(k) == (IF k \in 15 .. 22 THEN {"backend"} ELSE {}) \cup (IF k \in 17 .. 23 THEN {"common"} ELSE {})

\* The paths before the command k.
PathAt(k) ==
    /\ IF k >= 18 THEN path["common"] = "new"
       ELSE path["common"] = before["common"] \/ (k >= 16 /\ path["common"] = "gone")
    /\ IF k >= 19 THEN path["backend"] = "new"
       ELSE path["backend"] = before["backend"] \/ (k >= 14 /\ path["backend"] = "gone")

\* The server before the command k: it is frozen around the backup and around
\* the migration, and it has loaded what the paths led to.
ServerAt(k) ==
    /\ server.stopped => frozen \/ k \in {3, 10}
    /\ k >= 20 => ~server.stopped /\ ~frozen
    /\ k \in 10 .. 12 => server.stopped \/ "died" \in marks
    /\ k = 12 => ~writers \/ "died" \in marks
    /\ k <= 14 => server.loaded \in {before, Down}
    /\ k >= 21 => server.loaded \in {New, Down}

\* The script is at its command k.
InScript(k) ==
    /\ todo = FromScript(k) /\ ~trapped /\ Clean
    /\ flags = FlagsAt(k) /\ PathAt(k) /\ ServerAt(k)

\* A part leads to the new release exactly as its flag says.
FlaggedAreNew == \A p \in Parts : path[p] = IF p \in flags THEN "new" ELSE before[p]
UnflaggedAreBefore == \A p \in Parts \ flags : path[p] = before[p]

\* The rollback is at its command k.
InRollback(k) ==
    /\ todo = FromRollback(k) /\ ~trapped
    /\ ~server.stopped /\ ~frozen
    /\ FlaggedAreNew
    /\ k <= 2 => "common" \in flags
    /\ k = 4 => flags = {} /\ (Clean => server.loaded \in {path, Down})

\* The trap is at its command k, after a switch that it has to undo.
InTrap(k) ==
    /\ todo = FromTrap(k)
    /\ server.stopped => frozen
    /\ UnflaggedAreBefore
    /\ k >= 2 => "backend" \notin flags
    /\ k >= 3 => flags = {}
    /\ k >= 4 => ~server.stopped /\ ~frozen
    /\ k = 5 => server.loaded \in {path, Down}

\* The trap only resumes: nothing is switched, or the release is confirmed.
Resuming ==
    /\ todo \in {JustResume, <<>>}
    /\ server.stopped => frozen /\ todo # <<>>
    /\ path \in {before, New} /\ server.loaded \in {path, Down}

\* Where an activation can be: in the script, the rollback or the trap, or, once
\* something happened that the trap is no match for, anywhere in them or at the end.
ReleaseFollows ==
    \/ \E k \in 1 .. 25 : InScript(k)
    \/ (\E k \in 1 .. 4 : InRollback(k))
    \/ trapped /\ (\E k \in 1 .. 5 : todo = FromTrap(k)) /\ (Clean => \E k \in 1 .. 5 : InTrap(k))
    \/ trapped /\ todo \in {JustResume, <<>>} /\ (Clean => Resuming)
    \/ todo = <<>> /\ ~Clean

\* The lengths of the two sequences of commands.
LEMMA ScriptSize == Len(Script) = 24 /\ DOMAIN Script = 1 .. 24 /\ DOMAIN Rollback = 1 .. 4
BY DEF Script, Rollback

\* The commands of the script, one by one.
LEMMA ScriptIs ==
    /\ Script[1] = "check" /\ Script[2] = "stop" /\ Script[3] = "note"
    /\ Script[4] = "check" /\ Script[5] = "backup" /\ Script[6] = "resume"
    /\ Script[7] = "build" /\ Script[8] = "check" /\ Script[9] = "stop"
    /\ Script[10] = "note" /\ Script[11] = "check" /\ Script[12] = "migrate"
    /\ Script[13] = "move backend" /\ Script[14] = "flag backend" /\ Script[15] = "move common"
    /\ Script[16] = "flag common" /\ Script[17] = "link common" /\ Script[18] = "link backend"
    /\ Script[19] = "resume" /\ Script[20] = "restart" /\ Script[21] = "probe"
    /\ Script[22] = "clear backend" /\ Script[23] = "clear common" /\ Script[24] = "status"
BY DEF Script

\* The script is a sequence of 24 commands.
LEMMA ScriptLength == Script \in Seq(Commands) /\ Len(Script) = 24
<1>1. \A i \in 1 .. 24 : Script[i] \in Commands
  BY ScriptSize DEF Commands
<1>2. Script = [i \in 1 .. 24 |-> Script[i]]
  BY DEF Script
<1>3. Script \in [1 .. 24 -> Commands]
  BY <1>1, <1>2
<1> QED
  BY <1>3, ScriptSize, SeqDef

\* Where each command is in the script.
LEMMA ScriptCommands ==
  ASSUME NEW k \in 1 .. 24
  PROVE  /\ Script[k] = "check" => k \in {1, 4, 8, 11}
         /\ Script[k] = "stop" => k \in {2, 9}
         /\ Script[k] = "note" => k \in {3, 10}
         /\ Script[k] \in {"backup", "build", "migrate", "status"} => k \in {5, 7, 12, 24}
         /\ Script[k] = "migrate" => k = 12
         /\ Script[k] = "resume" => k \in {6, 19}
         /\ Script[k] = "move backend" => k = 13
         /\ Script[k] = "flag backend" => k = 14
         /\ Script[k] = "move common" => k = 15
         /\ Script[k] = "flag common" => k = 16
         /\ Script[k] = "link common" => k = 17
         /\ Script[k] = "link backend" => k = 18
         /\ Script[k] = "restart" => k = 20
         /\ Script[k] = "probe" => k = 21
         /\ Script[k] = "clear backend" => k = 22
         /\ Script[k] = "clear common" => k = 23
         /\ Script[k] \notin {"restore backend", "restore common", "restart old", "probe old"}
<1>1. k \in {1, 2, 3, 4, 5, 6, 7, 8, 9, 10, 11, 12, 13, 14, 15, 16, 17, 18, 19, 20, 21, 22, 23, 24}
  OBVIOUS
<1> QED
  BY <1>1, ScriptIs, ZenonT(60)

\* The commands of the rollback and of the trap.
LEMMA RollbackIs ==
    /\ Rollback[1] = "restore backend" /\ Rollback[2] = "restore common"
    /\ Rollback[3] = "restart old" /\ Rollback[4] = "probe old"
BY DEF Rollback

\* The rollback is a sequence of four commands.
LEMMA RollbackLength == Rollback \in Seq(Commands) /\ Len(Rollback) = 4
<1>1. \A i \in 1 .. 4 : Rollback[i] \in Commands
  BY ScriptSize DEF Commands
<1>2. Rollback = [i \in 1 .. 4 |-> Rollback[i]] /\ Len(Rollback) = 4
  BY DEF Rollback
<1>3. Rollback \in [1 .. 4 -> Commands]
  BY <1>1, <1>2
<1> QED
  BY <1>2, <1>3, SeqDef

\* The commands of the trap that has something to undo.
LEMMA TrapIs ==
    /\ Trap[1] = "restore backend" /\ Trap[2] = "restore common"
    /\ Trap[3] = "resume" /\ Trap[4] = "restart"
BY DEF Trap

\* The trap is a sequence of four commands.
LEMMA TrapLength == Trap \in Seq(Commands) /\ Len(Trap) = 4
<1>1. \A i \in 1 .. 4 : Trap[i] \in Commands
  <2>1. {Rollback[1], Rollback[2], Script[19], Script[20]} \subseteq Commands
    <3>1. {19, 20} \subseteq DOMAIN Script
      BY ScriptSize
    <3>2. {1, 2} \subseteq DOMAIN Rollback
      BY ScriptSize
    <3> QED
      BY <3>1, <3>2 DEF Commands
  <2>2. Script[19] = "resume" /\ Script[20] = "restart"
    BY ScriptIs
  <2>3. 1 .. 4 = {1, 2, 3, 4}
    OBVIOUS
  <2> QED
    BY <2>1, <2>2, <2>3, RollbackIs, TrapIs
<1>2. Trap = [i \in 1 .. 4 |-> Trap[i]] /\ Len(Trap) = 4
  BY DEF Trap
<1>3. Trap \in [1 .. 4 -> Commands]
  BY <1>1, <1>2
<1> QED
  BY <1>2, <1>3, SeqDef

\* A sequence of commands as it is worked off.
LEMMA RestOf ==
    ASSUME NEW s \in Seq(Commands), NEW k \in 1 .. Len(s) + 1
    PROVE  /\ SubSeq(s, k, Len(s)) \in Seq(Commands)
           /\ IF k = Len(s) + 1 THEN SubSeq(s, k, Len(s)) = <<>>
              ELSE /\ SubSeq(s, k, Len(s)) # <<>>
                   /\ Head(SubSeq(s, k, Len(s))) = s[k]
                   /\ Tail(SubSeq(s, k, Len(s))) = SubSeq(s, k + 1, Len(s))
<1> DEFINE n == Len(s)
<1>0. n \in Nat /\ k \in Int
  BY LenProperties
<1>1. \A i \in k .. n : s[i] \in Commands
  BY <1>0, ElementOfSeq
<1>2. /\ SubSeq(s, k, n) \in Seq(Commands)
      /\ Len(SubSeq(s, k, n)) = IF k <= n THEN n - k + 1 ELSE 0
      /\ \A i \in 1 .. n - k + 1 : SubSeq(s, k, n)[i] = s[k + i - 1]
  BY <1>0, <1>1, SubSeqProperties
<1> HIDE DEF n
<1>3. CASE k = n + 1
  BY <1>0, <1>2, <1>3, EmptySeq DEF n
<1>4. CASE k # n + 1
  <2>1. /\ Len(SubSeq(s, k, n)) = n - k + 1 /\ n - k + 1 \in Nat \ {0}
        /\ SubSeq(s, k, n) # <<>> /\ SubSeq(s, k, n)[1] = s[k]
    <3>1. Len(SubSeq(s, k, n)) = n - k + 1 /\ n - k + 1 \in Nat \ {0}
      BY <1>0, <1>2, <1>4 DEF n
    <3>2. SubSeq(s, k, n)[1] = s[k + 1 - 1] /\ k + 1 - 1 = k
      BY <1>0, <1>2, <3>1
    <3> QED
      BY <3>1, <3>2, EmptySeq
  <2>2. /\ Tail(SubSeq(s, k, n)) \in Seq(Commands)
        /\ Len(Tail(SubSeq(s, k, n))) = n - k
        /\ \A i \in 1 .. n - k : Tail(SubSeq(s, k, n))[i] = SubSeq(s, k, n)[i + 1]
    BY <1>2, <2>1, HeadTailProperties
  <2>3. \A i \in k + 1 .. n : s[i] \in Commands
    BY <1>0, <1>1
  <2>4. /\ SubSeq(s, k + 1, n) \in Seq(Commands)
        /\ Len(SubSeq(s, k + 1, n)) = n - k
        /\ \A i \in 1 .. n - k : SubSeq(s, k + 1, n)[i] = s[k + i]
    <3>1. k + 1 \in Int /\ n \in Int /\ n - (k + 1) + 1 = n - k /\ (~(k + 1 <= n) => n - k = 0)
      BY <1>0, <1>4 DEF n
    <3>2. /\ SubSeq(s, k + 1, n) \in Seq(Commands)
          /\ Len(SubSeq(s, k + 1, n)) = IF k + 1 <= n THEN n - (k + 1) + 1 ELSE 0
          /\ \A i \in 1 .. n - (k + 1) + 1 : SubSeq(s, k + 1, n)[i] = s[k + 1 + i - 1]
      BY <2>3, <3>1, SubSeqProperties
    <3>3. Len(SubSeq(s, k + 1, n)) = n - k
      BY <3>1, <3>2
    <3>4. ASSUME NEW i \in 1 .. n - k PROVE SubSeq(s, k + 1, n)[i] = s[k + i]
      <4>1. i \in 1 .. n - (k + 1) + 1 /\ k + 1 + i - 1 = k + i
        BY <1>0, <3>1
      <4> QED
        BY <3>2, <4>1
    <3> QED
      BY <3>2, <3>3, <3>4
  <2>5. ASSUME NEW i \in 1 .. n - k PROVE Tail(SubSeq(s, k, n))[i] = SubSeq(s, k + 1, n)[i]
    <3>1. i + 1 \in 1 .. n - k + 1 /\ k + (i + 1) - 1 = k + i
      BY <1>0
    <3>2. SubSeq(s, k, n)[i + 1] = s[k + i]
      BY <1>2, <3>1
    <3> QED
      BY <2>2, <2>4, <3>2
  <2>6. Tail(SubSeq(s, k, n)) = SubSeq(s, k + 1, n)
    BY <2>2, <2>4, <2>5, SeqEqual
  <2> QED
    BY <1>2, <1>4, <2>1, <2>6 DEF n
<1> QED
  BY <1>0, <1>3, <1>4 DEF n

\* The script, the rollback and the trap as they are worked off.
LEMMA ScriptRuns ==
    ASSUME NEW k \in 1 .. 25
    PROVE  /\ FromScript(k) \in Seq(Commands)
           /\ IF k = 25 THEN FromScript(k) = <<>>
              ELSE FromScript(k) # <<>> /\ Head(FromScript(k)) = Script[k] /\ Tail(FromScript(k)) = FromScript(k + 1)
<1>1. Script \in Seq(Commands) /\ Len(Script) + 1 = 25
  BY ScriptLength
<1>2. k \in 1 .. Len(Script) + 1
  BY <1>1
<1>3. /\ SubSeq(Script, k, Len(Script)) \in Seq(Commands)
      /\ IF k = Len(Script) + 1 THEN SubSeq(Script, k, Len(Script)) = <<>>
         ELSE /\ SubSeq(Script, k, Len(Script)) # <<>>
              /\ Head(SubSeq(Script, k, Len(Script))) = Script[k]
              /\ Tail(SubSeq(Script, k, Len(Script))) = SubSeq(Script, k + 1, Len(Script))
  BY <1>1, <1>2, RestOf
<1> QED
  BY <1>1, <1>3 DEF FromScript

\* The rollback as it is worked off.
LEMMA RollbackRuns ==
    ASSUME NEW k \in 1 .. 5
    PROVE  /\ FromRollback(k) \in Seq(Commands)
           /\ IF k = 5 THEN FromRollback(k) = <<>>
              ELSE FromRollback(k) # <<>> /\ Head(FromRollback(k)) = Rollback[k] /\ Tail(FromRollback(k)) = FromRollback(k + 1)
<1>1. Rollback \in Seq(Commands) /\ Len(Rollback) + 1 = 5
  BY RollbackLength
<1>2. k \in 1 .. Len(Rollback) + 1
  BY <1>1
<1>3. /\ SubSeq(Rollback, k, Len(Rollback)) \in Seq(Commands)
      /\ IF k = Len(Rollback) + 1 THEN SubSeq(Rollback, k, Len(Rollback)) = <<>>
         ELSE /\ SubSeq(Rollback, k, Len(Rollback)) # <<>>
              /\ Head(SubSeq(Rollback, k, Len(Rollback))) = Rollback[k]
              /\ Tail(SubSeq(Rollback, k, Len(Rollback))) = SubSeq(Rollback, k + 1, Len(Rollback))
  BY <1>1, <1>2, RestOf
<1> QED
  BY <1>1, <1>3 DEF FromRollback

\* The trap as it is worked off.
LEMMA TrapRuns ==
    ASSUME NEW k \in 1 .. 5
    PROVE  /\ FromTrap(k) \in Seq(Commands)
           /\ IF k = 5 THEN FromTrap(k) = <<>>
              ELSE FromTrap(k) # <<>> /\ Head(FromTrap(k)) = Trap[k] /\ Tail(FromTrap(k)) = FromTrap(k + 1)
<1>1. Trap \in Seq(Commands) /\ Len(Trap) + 1 = 5
  BY TrapLength
<1>2. k \in 1 .. Len(Trap) + 1
  BY <1>1
<1>3. /\ SubSeq(Trap, k, Len(Trap)) \in Seq(Commands)
      /\ IF k = Len(Trap) + 1 THEN SubSeq(Trap, k, Len(Trap)) = <<>>
         ELSE /\ SubSeq(Trap, k, Len(Trap)) # <<>>
              /\ Head(SubSeq(Trap, k, Len(Trap))) = Trap[k]
              /\ Tail(SubSeq(Trap, k, Len(Trap))) = SubSeq(Trap, k + 1, Len(Trap))
  BY <1>1, <1>2, RestOf
<1> QED
  BY <1>1, <1>3 DEF FromTrap

\* A command that is there is the first one.
LEMMA CommandsLeft ==
    ASSUME todo \in Seq(Commands), todo # <<>>
    PROVE  Tail(todo) \in Seq(Commands) /\ Head(todo) \in Commands
BY HeadTailProperties

\* A trap that has nothing to undo is one command.
LEMMA ResumeIs == JustResume \in Seq(Commands) /\ JustResume # <<>> /\ Head(JustResume) = "resume" /\ Tail(JustResume) = <<>>
<1>1. "resume" \in Commands
  <2>1. 6 \in DOMAIN Script
    BY ScriptSize
  <2>2. Script[6] = "resume"
    BY ScriptIs
  <2> QED
    BY <2>1, <2>2 DEF Commands
<1>2. JustResume \in Seq(Commands)
  BY <1>1 DEF JustResume
<1> QED
  BY <1>2 DEF JustResume

\* Where an exit leads (cleanup).
LEMMA ExitGoes ==
    ASSUME Exit
    PROVE  /\ trapped' = TRUE /\ todo' \in Seq(Commands)
           /\ flags = {} => todo' = JustResume
           /\ flags # {} => todo' = FromTrap(1)
<1>1. FromTrap(1) \in Seq(Commands) /\ FromTrap(1) = Trap
  <2>1. Len(Trap) = 4 /\ Trap \in Seq(Commands)
    BY TrapLength
  <2>2. SubSeq(Trap, 1, Len(Trap)) = Trap
    BY <2>1, SubSeqFull
  <2> QED
    BY <2>1, <2>2 DEF FromTrap
<1> QED
  BY <1>1, ResumeIs DEF Exit, Trap, JustResume

\* The script and the rollback start with their first command.
LEMMA StartsAt == FromScript(1) = Script /\ FromRollback(1) = Rollback
<1>1. SubSeq(Script, 1, Len(Script)) = Script
  BY ScriptLength, SubSeqFull
<1>2. SubSeq(Rollback, 1, Len(Rollback)) = Rollback
  BY RollbackLength, SubSeqFull
<1> QED
  BY <1>1, <1>2 DEF FromScript, FromRollback

\* The releases that the paths of the parts can lead to.
Releases == [Parts -> {"old", "new", "gone"}]

\* Every step of the activation keeps its types.
LEMMA ReleaseTypes == ReleaseTypeOK /\ [ReleaseNext]_releaseVars => ReleaseTypeOK'
<1> SUFFICES ASSUME ReleaseTypeOK, [ReleaseNext]_releaseVars PROVE ReleaseTypeOK'
  OBVIOUS
<1> USE ReleaseAssumption
<1>0. New \in Releases /\ Down \in Releases /\ LoadedNow \in Releases /\ before \in Releases
  BY DEF New, Down, LoadedNow, Releases, ReleaseTypeOK
<1>1. ASSUME todo # <<>>, Done PROVE todo' \in Seq(Commands) /\ trapped' \in BOOLEAN
  BY <1>1, CommandsLeft DEF Done, ReleaseTypeOK
<1>2. ASSUME Mishap PROVE mishaps' \in 0 .. MaxMishaps
  BY <1>2 DEF Mishap, ReleaseTypeOK
<1>3. CASE Pass \/ Check \/ Stop \/ Note \/ Resume \/ Probe
  <2>1. todo' \in Seq(Commands) /\ trapped' \in BOOLEAN
    BY <1>1, <1>3, ExitGoes DEF Pass, Check, Stop, Note, Resume, Probe, Now
  <2> QED
    BY <1>3, <2>1 DEF Pass, Check, Stop, Note, Resume, Probe, ReleaseTypeOK
<1>4. ASSUME NEW p \in Parts, Move(p) \/ Flag(p) \/ Link(p) \/ Clear(p) \/ Restore(p) PROVE ReleaseTypeOK'
  <2>1. todo' \in Seq(Commands) /\ trapped' \in BOOLEAN
    BY <1>1, <1>4 DEF Move, Flag, Link, Clear, Restore, Now
  <2> QED
    BY <1>4, <2>1 DEF Move, Flag, Link, Clear, Restore, RestorePath, ReleaseTypeOK
<1>5. ASSUME NEW p \in Parts, RestoreFails(p) PROVE ReleaseTypeOK'
  <2>1. todo' \in Seq(Commands) /\ trapped' \in BOOLEAN /\ mishaps' \in 0 .. MaxMishaps
    BY <1>1, <1>2, <1>5 DEF RestoreFails, Now
  <2> QED
    BY <1>5, <2>1 DEF RestoreFails, ReleaseTypeOK
<1>6. CASE Restart \/ RestartFails
  <2>1. todo' \in Seq(Commands) /\ trapped' \in BOOLEAN
    BY <1>1, <1>6 DEF Restart, RestartFails, Now
  <2>2. mishaps' \in 0 .. MaxMishaps
    BY <1>2, <1>6 DEF Restart, RestartFails, ReleaseTypeOK
  <2> QED
    <3>1. CASE Restart
      <4>1. server' \in [stopped : BOOLEAN, loaded : Releases]
        BY <1>0, <3>1 DEF Restart
      <4> QED
        BY <2>1, <3>1, <4>1 DEF Restart, ReleaseTypeOK, Releases
    <3>2. CASE RestartFails
      BY <2>1, <2>2, <3>2 DEF RestartFails, ReleaseTypeOK
    <3> QED
      BY <1>6, <3>1, <3>2
<1>7. CASE ProbeFails \/ RollbackEnds \/ Breaks \/ Killed
  <2>1. todo' \in Seq(Commands) /\ trapped' \in BOOLEAN
    <3>1. CASE ProbeFails
      BY <3>1, RollbackLength DEF ProbeFails, ReleaseTypeOK
    <3>2. CASE RollbackEnds \/ Breaks
      BY <3>2, ExitGoes DEF RollbackEnds, Breaks
    <3>3. CASE Killed
      BY <3>3, EmptySeq DEF Killed, ReleaseTypeOK
    <3> QED
      BY <1>7, <3>1, <3>2, <3>3
  <2>2. mishaps' \in 0 .. MaxMishaps
    BY <1>2, <1>7 DEF ProbeFails, RollbackEnds, Breaks, Killed, ReleaseTypeOK
  <2> QED
    BY <1>7, <2>1, <2>2 DEF ProbeFails, RollbackEnds, Breaks, Killed, ReleaseTypeOK
<1>8. CASE Jobs \/ ComesBack
  BY <1>0, <1>8 DEF Jobs, ComesBack, ReleaseTypeOK, Releases
<1>9. CASE Dies
  BY <1>0, <1>2, <1>9 DEF Dies, ReleaseTypeOK, Releases
<1>10. CASE UNCHANGED releaseVars
  BY <1>10 DEF releaseVars, ReleaseTypeOK
<1> QED
  BY <1>3, <1>4, <1>5, <1>6, <1>7, <1>8, <1>9, <1>10 DEF ReleaseNext

\* An activation starts with the first command of its script.
LEMMA ReleaseStarts == ReleaseInit => ReleaseTypeOK /\ InScript(1)
<1> SUFFICES ASSUME ReleaseInit PROVE ReleaseTypeOK /\ InScript(1)
  OBVIOUS
<1>1. /\ before \in [Parts -> {"old", "gone"}] /\ path = before
      /\ path["backend"] = "old"
  BY DEF ReleaseInit, Parts
<1>2. ReleaseTypeOK
  <2>1. todo \in Seq(Commands) /\ flags = {} /\ mishaps \in 0 .. MaxMishaps
    BY ReleaseAssumption, ScriptLength DEF ReleaseInit
  <2>2. path \in Releases /\ real \subseteq Parts
    BY <1>1 DEF ReleaseInit, Releases
  <2>3. server \in [stopped : BOOLEAN, loaded : Releases] /\ frozen \in BOOLEAN /\ writers \in BOOLEAN
        /\ trapped \in BOOLEAN /\ marks = {}
    BY <2>2 DEF ReleaseInit
  <2> QED
    BY <1>1, <2>1, <2>2, <2>3 DEF ReleaseTypeOK, Releases
<1>3. InScript(1)
  BY <1>1, StartsAt DEF ReleaseInit, InScript, Clean, FlagsAt, PathAt, ServerAt
<1> QED
  BY <1>2, <1>3

\* The first command left is the one at k.
LEMMA ScriptNow ==
    ASSUME NEW k \in 1 .. 25, InScript(k), todo # <<>>
    PROVE  k \in 1 .. 24 /\ Script[k] = Head(todo) /\ (Done => todo' = FromScript(k + 1) /\ ~trapped')
<1>1. todo = FromScript(k) /\ ~trapped
  BY DEF InScript
<1>2. k # 25
  BY <1>1, ScriptRuns
<1>3. k \in 1 .. 24
  BY <1>2
<1>4. Head(todo) = Script[k] /\ Tail(todo) = FromScript(k + 1)
  BY <1>1, <1>2, ScriptRuns
<1> QED
  BY <1>1, <1>3, <1>4 DEF Done

\* What the paths at k say of both parts together.
LEMMA PathsAt ==
    ASSUME ReleaseTypeOK, NEW k \in 1 .. 25, PathAt(k)
    PROVE  /\ k <= 13 => path = before
           /\ k = 14 => path = before \/ LoadedNow = Down
           /\ k >= 19 => path = New
<1>1. path \in Releases /\ before \in Releases /\ New \in Releases
  BY DEF ReleaseTypeOK, Releases, New
<1>2. \A f, g \in Releases : f["backend"] = g["backend"] /\ f["common"] = g["common"] => f = g
  BY DEF Releases, Parts
<1>3. k <= 13 => path = before
  BY <1>1, <1>2 DEF PathAt
<1>4. k = 14 => path = before \/ path["backend"] = "gone"
  BY <1>1, <1>2 DEF PathAt
<1>5. k >= 19 => path = New
  <2>1. New["backend"] = "new" /\ New["common"] = "new"
    BY DEF New, Parts
  <2> QED
    BY <1>1, <1>2, <2>1 DEF PathAt
<1> QED
  BY <1>3, <1>4, <1>5 DEF LoadedNow

\* An EXIT trap that no gap precedes finds a flag for each path that was switched.
LEMMA ExitFollows ==
    ASSUME Exit, UNCHANGED <<before, path, flags, frozen, server>>,
           Clean' => /\ UnflaggedAreBefore \/ (flags = {} /\ path = New)
                     /\ server.stopped => frozen
                     /\ flags = {} => server.loaded \in {path, Down} /\ path \in {before, New}
    PROVE  ReleaseFollows'
<1>1. trapped' /\ (flags = {} => todo' = JustResume) /\ (flags # {} => todo' = FromTrap(1))
  BY ExitGoes
<1>2. CASE flags = {}
  <2>1. Clean' => Resuming'
    BY <1>1, <1>2, ResumeIs DEF Resuming
  <2> QED
    BY <1>1, <1>2, <2>1 DEF ReleaseFollows
<1>3. CASE flags # {}
  <2>1. Clean' => InTrap(1)'
    BY <1>1, <1>3 DEF InTrap, UnflaggedAreBefore
  <2>2. 1 \in 1 .. 5
    OBVIOUS
  <2>3. \E k \in 1 .. 5 : todo' = FromTrap(k)
    BY <1>1, <1>3, <2>2
  <2>4. Clean' => \E k \in 1 .. 5 : InTrap(k)'
    BY <2>1, <2>2
  <2> QED
    BY <1>1, <2>3, <2>4 DEF ReleaseFollows
<1> QED
  BY <1>2, <1>3

\* The script goes on.
LEMMA ScriptNext ==
    ASSUME NEW k \in 1 .. 24, InScript(k), todo' = FromScript(k + 1), ~trapped',
           k \notin {14, 16, 17, 18, 22, 23}, UNCHANGED <<before, path, flags, marks>>, ServerAt(k + 1)'
    PROVE  ReleaseFollows'
<1>1. k + 1 \in 1 .. 25 /\ FlagsAt(k + 1) = FlagsAt(k)
  BY DEF FlagsAt
<1>2. PathAt(k + 1)'
  BY DEF InScript, PathAt
<1>3. InScript(k + 1)'
  BY <1>1, <1>2 DEF InScript, Clean
<1> QED
  BY <1>1, <1>3 DEF ReleaseFollows

\* A command that succeeds leads to the next one.
LEMMA ScriptGoesOn ==
    ASSUME ReleaseTypeOK, NEW k \in 1 .. 25, InScript(k),
           Pass \/ (Check /\ Quiet) \/ Stop \/ Note \/ Resume \/ Restart \/ Probe
    PROVE  ReleaseFollows'
<1>1. k \in 1 .. 24 /\ Script[k] = Head(todo) /\ todo' = FromScript(k + 1) /\ ~trapped'
  BY ScriptNow DEF Pass, Check, Stop, Note, Resume, Restart, Probe, Now
<1>2. ServerAt(k)
  BY DEF InScript
<1>3. CASE Pass
  <2>1. k \in {5, 7, 12, 24} /\ UNCHANGED <<before, path, flags, marks, server, frozen, writers>>
    <3>1. Script[k] \in {"backup", "build", "migrate", "status"}
      BY <1>1, <1>3 DEF Pass, Now
    <3> QED
      BY <1>1, <1>3, <3>1, ScriptCommands DEF Pass
  <2>2. ServerAt(k + 1)'
    BY <1>2, <2>1 DEF ServerAt, Down, New
  <2> QED
    BY <1>1, <2>1, <2>2, ScriptNext
<1>4. CASE Check /\ Quiet
  <2>1. k \in {1, 4, 8, 11} /\ UNCHANGED <<before, path, flags, marks, server, frozen, writers>> /\ ~writers
    <3>1. Script[k] = "check"
      BY <1>1, <1>4 DEF Check, Now
    <3> QED
      BY <1>1, <1>4, <3>1, ScriptCommands DEF Check, Quiet
  <2>2. ServerAt(k + 1)'
    BY <1>2, <2>1 DEF ServerAt, Down, New
  <2> QED
    BY <1>1, <2>1, <2>2, ScriptNext
<1>5. CASE Stop
  <2>1. k \in {2, 9} /\ UNCHANGED <<before, path, flags, marks, frozen, writers>>
        /\ server' = [server EXCEPT !.stopped = TRUE]
    <3>1. Script[k] = "stop"
      BY <1>1, <1>5 DEF Stop, Now
    <3> QED
      BY <1>1, <1>5, <3>1, ScriptCommands DEF Stop
  <2>2. server'.stopped /\ server'.loaded = server.loaded
    BY <2>1 DEF ReleaseTypeOK
  <2>3. ServerAt(k + 1)'
    BY <1>2, <2>1, <2>2 DEF ServerAt, Down, New
  <2> QED
    BY <1>1, <2>1, <2>3, ScriptNext
<1>6. CASE Note
  <2>1. k \in {3, 10} /\ UNCHANGED <<before, path, flags, marks, server, writers>> /\ frozen'
    <3>1. Script[k] = "note"
      BY <1>1, <1>6 DEF Note, Now
    <3> QED
      BY <1>1, <1>6, <3>1, ScriptCommands DEF Note
  <2>2. ServerAt(k + 1)'
    BY <1>2, <2>1 DEF ServerAt, Down, New
  <2> QED
    BY <1>1, <2>1, <2>2, ScriptNext
<1>7. CASE Resume
  <2>1. k \in {6, 19} /\ UNCHANGED <<before, path, flags, marks, writers>> /\ ~frozen'
        /\ server' = [server EXCEPT !.stopped = @ /\ ~frozen]
    <3>1. Script[k] = "resume"
      BY <1>1, <1>7 DEF Resume, Now
    <3> QED
      BY <1>1, <1>7, <3>1, ScriptCommands DEF Resume
  <2>2. ~server'.stopped /\ server'.loaded = server.loaded
    <3>1. server.stopped => frozen
      BY <1>2, <2>1 DEF ServerAt
    <3>2. server.stopped \in BOOLEAN /\ server'.stopped = (server.stopped /\ ~frozen) /\ server'.loaded = server.loaded
      BY <2>1 DEF ReleaseTypeOK
    <3> QED
      BY <3>1, <3>2
  <2>3. ServerAt(k + 1)'
    BY <1>2, <2>1, <2>2 DEF ServerAt, Down, New
  <2> QED
    BY <1>1, <2>1, <2>3, ScriptNext
<1>8. CASE Restart
  <2>1. k = 20 /\ UNCHANGED <<before, path, flags, marks, frozen, writers>>
        /\ server' = [stopped |-> FALSE, loaded |-> LoadedNow]
    <3>1. Script[k] \in {"restart", "restart old"}
      BY <1>1, <1>8 DEF Restart, Now
    <3> QED
      BY <1>1, <1>8, <3>1, ScriptCommands DEF Restart
  <2>2. LoadedNow \in {New, Down} /\ ~frozen
    <3>1. path = New
      BY <2>1, PathsAt DEF InScript
    <3> QED
      BY <1>2, <2>1, <3>1 DEF LoadedNow, ServerAt
  <2>3. ServerAt(k + 1)'
    BY <2>1, <2>2 DEF ServerAt, Down, New
  <2> QED
    BY <1>1, <2>1, <2>3, ScriptNext
<1>9. CASE Probe
  <2>1. k = 21 /\ UNCHANGED <<before, path, flags, marks, server, frozen, writers>>
    <3>1. Script[k] = "probe"
      BY <1>1, <1>9 DEF Probe, Now
    <3> QED
      BY <1>1, <1>9, <3>1, ScriptCommands DEF Probe
  <2>2. ServerAt(k + 1)'
    BY <1>2, <2>1 DEF ServerAt, Down, New
  <2> QED
    BY <1>1, <2>1, <2>2, ScriptNext
<1> QED
  BY <1>3, <1>4, <1>5, <1>6, <1>7, <1>8, <1>9

\* It switches the paths.
LEMMA ScriptSwitches ==
    ASSUME ReleaseTypeOK, NEW k \in 1 .. 25, InScript(k), NEW p \in Parts,
           Move(p) \/ Flag(p) \/ Link(p) \/ Clear(p)
    PROVE  ReleaseFollows'
<1>1. k \in 1 .. 24 /\ Script[k] = Head(todo) /\ todo' = FromScript(k + 1) /\ ~trapped'
  BY ScriptNow DEF Move, Flag, Link, Clear, Now
<1>2. k + 1 \in 1 .. 25
  BY <1>1
<1> SUFFICES InScript(k + 1)'
  BY <1>2 DEF ReleaseFollows
<1>3. p \in {"backend", "common"}
  BY DEF Parts
<1>4. /\ Moving["backend"] = "move backend" /\ Moving["common"] = "move common"
      /\ Flagging["backend"] = "flag backend" /\ Flagging["common"] = "flag common"
      /\ Linking["backend"] = "link backend" /\ Linking["common"] = "link common"
      /\ Clearing["backend"] = "clear backend" /\ Clearing["common"] = "clear common"
  BY DEF Moving, Flagging, Linking, Clearing
<1>5. \/ Move(p) /\ p = "backend" /\ k = 13
      \/ Move(p) /\ p = "common" /\ k = 15
      \/ Flag(p) /\ p = "backend" /\ k = 14
      \/ Flag(p) /\ p = "common" /\ k = 16
      \/ Link(p) /\ p = "common" /\ k = 17
      \/ Link(p) /\ p = "backend" /\ k = 18
      \/ Clear(p) /\ p = "backend" /\ k = 22
      \/ Clear(p) /\ p = "common" /\ k = 23
  <2>1. /\ Move(p) => Script[k] = Moving[p]
        /\ Flag(p) => Script[k] = Flagging[p]
        /\ Link(p) => Script[k] = Linking[p]
        /\ Clear(p) => Script[k] = Clearing[p]
    BY <1>1 DEF Move, Flag, Link, Clear, Now
  <2>2. /\ Script[k] = "move backend" => k = 13
        /\ Script[k] = "flag backend" => k = 14
        /\ Script[k] = "move common" => k = 15
        /\ Script[k] = "flag common" => k = 16
        /\ Script[k] = "link common" => k = 17
        /\ Script[k] = "link backend" => k = 18
        /\ Script[k] = "clear backend" => k = 22
        /\ Script[k] = "clear common" => k = 23
    BY <1>1, ScriptCommands
  <2> QED
    BY <1>3, <1>4, <2>1, <2>2
<1>6. UNCHANGED <<before, frozen, server, writers, marks>>
  BY <1>5 DEF Move, Flag, Link, Clear
<1>7. flags' = FlagsAt(k + 1)
  BY <1>5 DEF Move, Flag, Link, Clear, InScript, FlagsAt
<1>8. path \in Releases
  BY DEF ReleaseTypeOK, Releases
<1>9. PathAt(k + 1)'
  BY <1>5, <1>6, <1>8 DEF Move, Flag, Link, Clear, InScript, PathAt, Releases, Parts
<1>10. ServerAt(k + 1)'
  BY <1>5, <1>6 DEF InScript, ServerAt, Down, New
<1> QED
  BY <1>1, <1>6, <1>7, <1>9, <1>10 DEF InScript, Clean

\* It ends early, or undoes what it did.
LEMMA ScriptEnds ==
    ASSUME ReleaseTypeOK, NEW k \in 1 .. 25, InScript(k),
           (Check /\ ~Quiet) \/ ProbeFails \/ Breaks
    PROVE  ReleaseFollows'
<1>1. k \in 1 .. 24 /\ Script[k] = Head(todo)
  BY ScriptNow DEF Check, ProbeFails, Breaks, Now
<1>2. k <= 13 => path = before
  BY PathsAt DEF InScript
<1>3. k >= 19 => path = New
  BY PathsAt DEF InScript
<1>4. CASE Check /\ ~Quiet
  <2>1. Exit /\ k \in {1, 4, 8, 11} /\ UNCHANGED <<before, path, flags, frozen, server>>
    BY <1>1, <1>4, ScriptCommands DEF Check, Now
  <2>2. flags = {} /\ path = before /\ server.loaded \in {path, Down} /\ (server.stopped => frozen)
    BY <1>2, <2>1 DEF InScript, FlagsAt, ServerAt
  <2>3. UnflaggedAreBefore
    BY <2>2 DEF UnflaggedAreBefore
  <2> QED
    BY <2>1, <2>2, <2>3, ExitFollows
<1>5. CASE ProbeFails
  <2>1. k \in {20, 21} /\ todo' = FromRollback(1) /\ ~trapped'
        /\ UNCHANGED <<before, path, flags, frozen, server, marks>>
    <3>1. Script[k] \in {"restart", "probe"}
      BY <1>1, <1>5 DEF ProbeFails, Now
    <3>2. k \in {20, 21}
      BY <1>1, <3>1, ScriptCommands
    <3> QED
      BY <1>5, <3>2, StartsAt DEF ProbeFails, InScript
  <2>2. flags = {"backend", "common"} /\ path = New /\ ~server.stopped /\ ~frozen
    BY <1>3, <2>1 DEF InScript, FlagsAt, ServerAt
  <2>3. FlaggedAreNew'
    BY <2>1, <2>2 DEF FlaggedAreNew, New, Parts
  <2>4. InRollback(1)' /\ 1 \in 1 .. 4
    BY <2>1, <2>2, <2>3 DEF InRollback
  <2> QED
    BY <2>4 DEF ReleaseFollows
<1>6. CASE Breaks
  <2>1. Exit /\ UNCHANGED <<before, path, flags, frozen, server>> /\ (Clean' => ~Unguarded)
    BY <1>6 DEF Breaks, Clean
  <2>2. SUFFICES ASSUME Clean'
                 PROVE  /\ UnflaggedAreBefore \/ (flags = {} /\ path = New)
                        /\ server.stopped => frozen
                        /\ flags = {} => server.loaded \in {path, Down} /\ path \in {before, New}
    BY <2>1, ExitFollows
  <2>3. ~Unguarded
    BY <2>1, <2>2
  <2>4. k \notin {3, 10, 23}
    <3>1. Script[k] \notin {"note", "clear common"} /\ todo # <<>>
      BY <1>1, <1>6, <2>3 DEF Unguarded, Now, Breaks
    <3> QED
      BY <3>1, ScriptIs
  <2>5. \A q \in Parts : Head(todo) = Flagging[q] => path[q] = before[q]
    BY <1>6, <2>3 DEF Unguarded, Now, Breaks
  <2>6. server.stopped => frozen
    BY <2>4 DEF InScript, ServerAt
  <2>7. CASE k <= 14
    <3>1. path = before
      <4>1. k = 14 => path["backend"] = before["backend"]
        BY <1>1, <2>5, ScriptIs DEF Flagging, Parts
      <4>2. k = 14 => path["common"] = before["common"]
        BY DEF InScript, PathAt
      <4>3. path \in Releases /\ before \in Releases
        BY DEF ReleaseTypeOK, Releases
      <4> QED
        BY <1>2, <2>7, <4>1, <4>2, <4>3 DEF Releases, Parts
    <3>2. flags = {} /\ server.loaded \in {before, Down}
      BY <2>7 DEF InScript, FlagsAt, ServerAt
    <3> QED
      BY <2>6, <3>1, <3>2 DEF UnflaggedAreBefore
  <2>8. CASE k \in {15, 16}
    <3>1. flags = {"backend"}
      BY <2>8 DEF InScript, FlagsAt
    <3>2. path["common"] = before["common"]
      <4>1. k = 16 => path["common"] = before["common"]
        BY <1>1, <2>5, ScriptIs DEF Flagging, Parts
      <4> QED
        BY <2>8, <4>1 DEF InScript, PathAt
    <3> QED
      BY <2>6, <3>1, <3>2 DEF UnflaggedAreBefore, Parts
  <2>9. CASE k \in 17 .. 22
    <3>1. flags = {"backend", "common"}
      BY <2>9 DEF InScript, FlagsAt
    <3> QED
      BY <2>6, <3>1 DEF UnflaggedAreBefore, Parts
  <2>10. CASE k = 24
    <3>1. flags = {} /\ server.loaded \in {New, Down}
      BY <2>10 DEF InScript, FlagsAt, ServerAt
    <3> QED
      BY <1>3, <2>6, <2>10, <3>1
  <2> QED
    BY <1>1, <2>4, <2>7, <2>8, <2>9, <2>10
<1> QED
  BY <1>4, <1>5, <1>6

\* The names of the commands on a part.
LEMMA CommandsOf ==
    /\ Moving["backend"] = "move backend" /\ Moving["common"] = "move common"
    /\ Flagging["backend"] = "flag backend" /\ Flagging["common"] = "flag common"
    /\ Linking["backend"] = "link backend" /\ Linking["common"] = "link common"
    /\ Clearing["backend"] = "clear backend" /\ Clearing["common"] = "clear common"
    /\ Restoring["backend"] = "restore backend" /\ Restoring["common"] = "restore common"
BY DEF Moving, Flagging, Linking, Clearing, Restoring

\* The server goes its own way.
LEMMA ScriptBesides ==
    ASSUME ReleaseTypeOK, NEW k \in 1 .. 25, InScript(k), Jobs \/ Dies \/ ComesBack
    PROVE  ReleaseFollows'
<1>1. UNCHANGED <<before, path, flags, frozen, todo, trapped>> /\ Clean'
  BY DEF Jobs, Dies, ComesBack, InScript, Clean
<1>2. ServerAt(k)
  BY DEF InScript
<1>3. ServerAt(k)'
  <2>1. CASE Jobs
    <3>1. ~server.stopped /\ server.loaded # Down /\ UNCHANGED <<server, marks>>
      BY <2>1 DEF Jobs, Running
    <3> QED
      BY <1>1, <1>2, <3>1 DEF ServerAt, Down, New
  <2>2. CASE Dies
    <3>1. server' = [stopped |-> FALSE, loaded |-> Down] /\ "died" \in marks'
      BY <2>2 DEF Dies
    <3> QED
      BY <1>1, <1>2, <3>1 DEF ServerAt, Down, New
  <2>3. CASE ComesBack
    <3>1. LoadedNow # Down /\ LoadedNow = path /\ UNCHANGED <<marks, writers>>
          /\ server'.loaded = path /\ server'.stopped = server.stopped
      BY <2>3 DEF ComesBack, LoadedNow, ReleaseTypeOK
    <3>2. (k <= 14 => path = before) /\ (k >= 19 => path = New)
      BY <3>1, PathsAt DEF InScript
    <3> QED
      BY <1>1, <1>2, <3>1, <3>2 DEF ServerAt, Down, New
  <2> QED
    BY <2>1, <2>2, <2>3
<1>4. InScript(k)'
  BY <1>1, <1>3 DEF InScript, PathAt
<1> QED
  BY <1>4 DEF ReleaseFollows

\* Every step from the script.
LEMMA ScriptStep ==
    ASSUME ReleaseTypeOK, NEW k \in 1 .. 25, InScript(k), ReleaseNext
    PROVE  ReleaseFollows'
<1>1. CASE Killed
  BY <1>1 DEF Killed, Clean, ReleaseFollows
<1>2. ASSUME NEW p \in Parts, Restore(p) \/ RestoreFails(p) PROVE FALSE
  <2>1. Now(Restoring[p])
    BY <1>2 DEF Restore, RestoreFails
  <2>0. Restoring[p] \in {"restore backend", "restore common"}
    <3>1. p = "backend" \/ p = "common"
      BY DEF Parts
    <3> QED
      BY <3>1, CommandsOf
  <2>2. k \in 1 .. 24 /\ Script[k] = Restoring[p]
    BY <2>1, ScriptNow DEF Now
  <2> QED
    BY <2>0, <2>2, ScriptCommands
<1>3. CASE RestartFails \/ RollbackEnds
  <2>1. Now("restart old") \/ Now("probe old")
    BY <1>3 DEF RestartFails, RollbackEnds, InScript
  <2>2. k \in 1 .. 24 /\ Script[k] \in {"restart old", "probe old"}
    BY <2>1, ScriptNow DEF Now
  <2> QED
    BY <2>2, ScriptCommands
<1>4. Check => (Check /\ Quiet) \/ (Check /\ ~Quiet)
  OBVIOUS
<1> QED
  BY <1>1, <1>2, <1>3, <1>4, ScriptGoesOn, ScriptSwitches, ScriptEnds, ScriptBesides DEF ReleaseNext

\* The first command left of a rollback.
LEMMA RollbackNow ==
    ASSUME NEW k \in 1 .. 4, InRollback(k)
    PROVE  todo # <<>> /\ Rollback[k] = Head(todo) /\ (Done => todo' = FromRollback(k + 1) /\ ~trapped')
<1>1. k \in 1 .. 5 /\ k # 5
  OBVIOUS
<1>2. todo = FromRollback(k) /\ ~trapped
  BY DEF InRollback
<1>3. todo # <<>> /\ Head(todo) = Rollback[k] /\ Tail(todo) = FromRollback(k + 1)
  BY <1>1, <1>2, RollbackRuns
<1> QED
  BY <1>2, <1>3 DEF Done

\* Where each command is in the rollback.
LEMMA RollbackCommands ==
    ASSUME NEW k \in 1 .. 4
    PROVE  /\ Rollback[k] = "restore backend" => k = 1
           /\ Rollback[k] = "restore common" => k = 2
           /\ Rollback[k] = "restart old" => k = 3
           /\ Rollback[k] = "probe old" => k = 4
           /\ Rollback[k] \in {"restore backend", "restore common", "restart old", "probe old"}
<1>1. k \in {1, 2, 3, 4}
  OBVIOUS
<1> QED
  BY <1>1, RollbackIs, ZenonT(60)

\* Without flags the paths are what they were.
LEMMA AllUnflagged ==
    ASSUME ReleaseTypeOK, flags = {}, UnflaggedAreBefore
    PROVE  path = before
BY DEF ReleaseTypeOK, UnflaggedAreBefore

\* The restoring steps of the rollback.
LEMMA RollbackRestores ==
    ASSUME ReleaseTypeOK, NEW k \in 1 .. 4, InRollback(k), NEW p \in Parts, Restore(p) \/ RestoreFails(p)
    PROVE  ReleaseFollows'
<1>1. todo # <<>> /\ Rollback[k] = Restoring[p] /\ todo' = FromRollback(k + 1) /\ ~trapped'
      /\ UNCHANGED <<before, server, frozen>>
  BY RollbackNow DEF Restore, RestoreFails, Now
<1>2. Restoring["backend"] = "restore backend" /\ Restoring["common"] = "restore common" /\ p \in {"backend", "common"}
  BY DEF Restoring, Parts
<1>3. k = IF p = "backend" THEN 1 ELSE 2
  BY <1>1, <1>2, RollbackCommands, Zenon
<1>4. FlaggedAreNew'
  BY <1>1 DEF Restore, RestoreFails, RestorePath, InRollback, FlaggedAreNew, ReleaseTypeOK
<1>5. k = 1 => "common" \in flags'
  BY <1>3 DEF Restore, RestoreFails, InRollback
<1>6. InRollback(k + 1)' /\ k + 1 \in 1 .. 4
  BY <1>1, <1>3, <1>4, <1>5 DEF InRollback
<1> QED
  BY <1>6 DEF ReleaseFollows

\* Every step from the rollback.
LEMMA RollbackStep ==
    ASSUME ReleaseTypeOK, NEW k \in 1 .. 4, InRollback(k), ReleaseNext
    PROVE  ReleaseFollows'
<1>0. /\ FlaggedAreNew /\ ~trapped /\ ~server.stopped /\ ~frozen /\ (k <= 2 => "common" \in flags)
      /\ (k = 4 => flags = {} /\ (Clean => server.loaded \in {path, Down}))
      /\ todo # <<>> /\ Head(todo) = Rollback[k] /\ todo = FromRollback(k)
  BY RollbackNow DEF InRollback
<1>a. UnflaggedAreBefore
  BY <1>0 DEF FlaggedAreNew, UnflaggedAreBefore
<1>1. CASE Killed
  BY <1>1 DEF Killed, Clean, ReleaseFollows
<1>2. CASE Restart \/ RestartFails
  <2>1. Head(todo) \in {"restart", "restart old"}
    BY <1>2 DEF Restart, RestartFails, Now
  <2>2. k = 3 /\ Head(todo) # "restart"
    BY <1>0, <2>1, RollbackCommands
  <2>3. flags = {} /\ UNCHANGED <<before, path, flags, frozen>> /\ todo' = FromRollback(k + 1) /\ ~trapped'
    BY <1>0, <1>2, <2>2, RollbackNow DEF Restart, RestartFails, Now
  <2>4. ~server'.stopped
    <3>1. CASE Restart
      <4>1. server' = [stopped |-> FALSE, loaded |-> LoadedNow]
        BY <3>1 DEF Restart
      <4> QED
        BY <4>1
    <3>2. CASE RestartFails
      BY <1>0, <3>2 DEF RestartFails
    <3> QED
      BY <1>2, <3>1, <3>2
  <2>5. Clean' => server'.loaded \in {path, Down}
    <3>1. ASSUME RestartFails PROVE ~Clean'
      <4>1. "broken" \in marks'
        BY <3>1 DEF RestartFails
      <4> QED
        BY <4>1 DEF Clean
    <3>2. ASSUME Restart PROVE server'.loaded = LoadedNow
      <4>1. server' = [stopped |-> FALSE, loaded |-> LoadedNow]
        BY <3>2 DEF Restart
      <4> QED
        BY <4>1
    <3>3. LoadedNow \in {path, Down} /\ path' = path
      BY <2>3 DEF LoadedNow
    <3> QED
      BY <1>2, <3>1, <3>2, <3>3 DEF Down
  <2>6. InRollback(4)' /\ 4 \in 1 .. 4
    BY <1>0, <2>2, <2>3, <2>4, <2>5 DEF InRollback, FlaggedAreNew, Down
  <2> QED
    BY <2>6 DEF ReleaseFollows
<1>3. CASE RollbackEnds \/ Breaks
  <2>1. Exit /\ UNCHANGED <<before, path, flags, frozen, server>> /\ (Clean' => Clean)
    BY <1>3 DEF RollbackEnds, Breaks, Clean
  <2>2. Clean' /\ flags = {} => k = 4
    <3>1. CASE RollbackEnds
      <4>1. Head(todo) = "probe old" \/ flags # {}
        BY <3>1 DEF RollbackEnds, Now
      <4> QED
        BY <1>0, <4>1, RollbackCommands
    <3>2. CASE Breaks
      <4>1. Clean' => ~Unguarded
        BY <3>2 DEF Breaks, Clean
      <4>2. Clean' /\ flags = {} => Head(todo) # "restart old"
        BY <1>0, <4>1 DEF Unguarded, Now
      <4>3. k = 3 => Head(todo) = "restart old"
        BY <1>0, RollbackIs
      <4>4. flags = {} => k \in {3, 4}
        BY <1>0
      <4> QED
        BY <4>2, <4>3, <4>4
    <3> QED
      BY <1>3, <3>1, <3>2
  <2>3. flags = {} => path = before
    BY <1>a, AllUnflagged
  <2> QED
    BY <1>0, <1>a, <2>1, <2>2, <2>3, ExitFollows
<1>4. CASE Jobs \/ Dies \/ ComesBack
  <2>1. UNCHANGED <<before, path, flags, frozen, todo, trapped>>
    BY <1>4 DEF Jobs, Dies, ComesBack
  <2>2. ~server'.stopped
    BY <1>0, <1>4 DEF Jobs, Dies, ComesBack, ReleaseTypeOK
  <2>3. (Clean' => Clean) /\ server'.loaded \in {server.loaded, Down, path}
    BY <1>4 DEF Jobs, Dies, ComesBack, Clean, LoadedNow, ReleaseTypeOK
  <2>4. InRollback(k)'
    BY <1>0, <2>1, <2>2, <2>3 DEF InRollback, FlaggedAreNew, Down
  <2> QED
    BY <2>4 DEF ReleaseFollows
<1>5. Head(todo) \in {"restore backend", "restore common", "restart old", "probe old"}
  BY <1>0, RollbackCommands
<1>6. ~(Pass \/ Check \/ Stop \/ Note \/ Resume \/ Probe \/ ProbeFails)
  BY <1>5 DEF Pass, Check, Stop, Note, Resume, Probe, ProbeFails, Now
<1>7. ASSUME NEW p \in Parts, Move(p) \/ Flag(p) \/ Link(p) \/ Clear(p) PROVE FALSE
  <2>1. Head(todo) \in {Moving[p], Flagging[p], Linking[p], Clearing[p]} /\ p \in {"backend", "common"}
    BY <1>7 DEF Move, Flag, Link, Clear, Now, Parts
  <2> QED
    BY <1>5, <2>1, CommandsOf, Zenon
<1> QED
  BY <1>1, <1>2, <1>3, <1>4, <1>6, <1>7, RollbackRestores DEF ReleaseNext

\* The first command left of a trap.
LEMMA TrapNow ==
    ASSUME NEW k \in 1 .. 5, todo = FromTrap(k), trapped
    PROVE  /\ k = 5 => todo = <<>>
           /\ k # 5 => todo # <<>> /\ Head(todo) = Trap[k] /\ (Done => todo' = FromTrap(k + 1) /\ trapped')
BY TrapRuns DEF Done

\* Where each command is in the trap.
LEMMA TrapCommands ==
    ASSUME NEW k \in 1 .. 4
    PROVE  /\ Trap[k] = "restore backend" => k = 1
           /\ Trap[k] = "restore common" => k = 2
           /\ Trap[k] = "resume" => k = 3
           /\ Trap[k] = "restart" => k = 4
           /\ Trap[k] \in {"restore backend", "restore common", "resume", "restart"}
<1>1. k \in {1, 2, 3, 4}
  OBVIOUS
<1> QED
  BY <1>1, TrapIs, ZenonT(60)

\* What may happen while the trap runs, and after it.
LEMMA TrappedMoves ==
    ASSUME trapped, ReleaseNext,
           todo # <<>> => Head(todo) \in {"restore backend", "restore common", "resume", "restart"}
    PROVE  \/ Killed
           \/ \E p \in Parts : Restore(p) \/ RestoreFails(p)
           \/ Resume \/ Restart \/ RestartFails
           \/ Jobs \/ Dies \/ ComesBack
<1>1. ~(ProbeFails \/ Breaks)
  BY DEF ProbeFails, Breaks
<1>2. ~(Pass \/ Check \/ Stop \/ Note \/ Probe)
  BY DEF Pass, Check, Stop, Note, Probe, Now
<1>3. ~RollbackEnds
  BY DEF RollbackEnds, Now
<1>4. ASSUME NEW p \in Parts, Move(p) \/ Flag(p) \/ Link(p) \/ Clear(p) PROVE FALSE
  <2>1. todo # <<>> /\ Head(todo) \in {Moving[p], Flagging[p], Linking[p], Clearing[p]} /\ p \in {"backend", "common"}
    BY <1>4 DEF Move, Flag, Link, Clear, Now, Parts
  <2> QED
    BY <2>1, CommandsOf, Zenon
<1> QED
  BY <1>1, <1>2, <1>3, <1>4 DEF ReleaseNext

\* The server goes its own way.
LEMMA TrappedBesides ==
    ASSUME ReleaseTypeOK, Jobs \/ Dies \/ ComesBack
    PROVE  /\ UNCHANGED <<before, path, flags, frozen, todo, trapped>>
           /\ server'.stopped => server.stopped
           /\ server'.loaded \in {server.loaded, path, Down}
           /\ Clean' => Clean
<1>1. CASE Jobs
  BY <1>1 DEF Jobs, Clean
<1>2. CASE Dies
  <2>1. server' = [stopped |-> FALSE, loaded |-> Down] /\ UNCHANGED <<before, path, flags, frozen, todo, trapped>>
    BY <1>2 DEF Dies
  <2>2. Clean' => Clean
    BY <1>2 DEF Dies, Clean
  <2> QED
    BY <2>1, <2>2
<1>3. CASE ComesBack
  <2>1. server' = [server EXCEPT !.loaded = LoadedNow] /\ UNCHANGED <<before, path, flags, frozen, todo, trapped, marks>>
    BY <1>3 DEF ComesBack
  <2>2. server'.stopped = server.stopped /\ server'.loaded = LoadedNow
    BY <2>1 DEF ReleaseTypeOK
  <2>3. LoadedNow \in {path, Down}
    BY DEF LoadedNow
  <2> QED
    BY <2>1, <2>2, <2>3 DEF Clean
<1> QED
  BY <1>1, <1>2, <1>3

\* A killed script stays where it is.
LEMMA KilledFollows == ReleaseTypeOK /\ Killed => ReleaseFollows'
<1> SUFFICES ASSUME Killed PROVE ReleaseFollows'
  OBVIOUS
<1>1. "killed" \in marks' /\ todo' = <<>>
  BY DEF Killed
<1> QED
  BY <1>1 DEF Clean, ReleaseFollows

\* A trap that goes on.
LEMMA TrapFollows ==
    ASSUME NEW k \in 1 .. 5, (todo = FromTrap(k))', trapped', Clean' => InTrap(k)'
    PROVE  ReleaseFollows'
BY DEF ReleaseFollows

\* The restoring steps of the trap.
LEMMA TrapRestores ==
    ASSUME ReleaseTypeOK, NEW k \in 1 .. 5, todo = FromTrap(k), trapped, Clean => InTrap(k),
           NEW p \in Parts, Restore(p) \/ RestoreFails(p)
    PROVE  ReleaseFollows'
<1>1. todo # <<>> /\ Head(todo) = Restoring[p]
  BY DEF Restore, RestoreFails, Now
<1>2. k \in 1 .. 4 /\ Trap[k] = Restoring[p] /\ todo' = FromTrap(k + 1) /\ trapped'
  BY <1>1, TrapNow DEF Restore, RestoreFails
<1>3. (p = "backend" /\ k = 1) \/ (p = "common" /\ k = 2)
  <2>1. p = "backend" \/ p = "common"
    BY DEF Parts
  <2> QED
    BY <1>2, <2>1, CommandsOf, TrapCommands, Zenon
<1>4. Clean' => Clean /\ Restore(p)
  <2>1. RestoreFails(p) => "broken" \in marks'
    BY DEF RestoreFails
  <2>2. Restore(p) => marks' = marks
    BY DEF Restore
  <2> QED
    BY <2>1, <2>2 DEF Clean
<1>5. k + 1 \in 1 .. 5 /\ (\E i \in 1 .. 5 : todo' = FromTrap(i))
  BY <1>2, <1>3
<1>6. ASSUME Clean' PROVE InTrap(k + 1)'
  <2>1. InTrap(k) /\ Restore(p)
    BY <1>4, <1>6
  <2>2. UNCHANGED <<before, server, frozen>> /\ flags' = flags \ {p}
        /\ path' = (IF p \in flags THEN [path EXCEPT ![p] = before[p]] ELSE path)
    BY <2>1 DEF Restore, RestorePath
  <2>3. (k = 1 => "backend" \notin flags') /\ (k = 2 => flags' = {})
    BY <1>3, <2>1, <2>2 DEF InTrap, ReleaseTypeOK, Parts
  <2>4. UnflaggedAreBefore'
    BY <2>1, <2>2 DEF InTrap, UnflaggedAreBefore, ReleaseTypeOK
  <2> QED
    BY <1>2, <1>3, <2>1, <2>2, <2>3, <2>4 DEF InTrap
<1> QED
  BY <1>2, <1>5, <1>6 DEF ReleaseFollows

\* Every step from the trap.
LEMMA TrapStep ==
    ASSUME ReleaseTypeOK, NEW k \in 1 .. 5, todo = FromTrap(k), trapped, Clean => InTrap(k), ReleaseNext
    PROVE  ReleaseFollows'
<1>1. CASE Resume
  <2>1. todo # <<>> /\ Head(todo) = "resume" /\ UNCHANGED <<before, path, flags, marks>> /\ ~frozen'
        /\ server' = [server EXCEPT !.stopped = @ /\ ~frozen] /\ Done
    BY <1>1 DEF Resume, Now
  <2>2. k \in 1 .. 4 /\ Trap[k] = "resume" /\ todo' = FromTrap(k + 1) /\ trapped'
    BY <2>1, TrapNow
  <2>3. k = 3
    BY <2>2, TrapCommands
  <2>4. ASSUME Clean' PROVE InTrap(4)'
    <3>1. InTrap(3)
      BY <2>1, <2>3, <2>4 DEF Clean
    <3>2. ~server'.stopped
      <4>1. server.stopped \in BOOLEAN /\ server'.stopped = (server.stopped /\ ~frozen)
        BY <2>1 DEF ReleaseTypeOK
      <4> QED
        BY <3>1, <4>1 DEF InTrap
    <3> QED
      BY <2>1, <2>2, <2>3, <3>1, <3>2 DEF InTrap, UnflaggedAreBefore
  <2>5. 4 \in 1 .. 5 /\ todo' = FromTrap(4)
    BY <2>2, <2>3
  <2> QED
    BY <2>2, <2>4, <2>5, TrapFollows
<1>2. CASE Restart \/ RestartFails
  <2>0. todo # <<>> /\ Done /\ UNCHANGED <<before, path, flags, frozen>>
    BY <1>2 DEF Restart, RestartFails, Now
  <2>1. Head(todo) \in {"restart", "restart old"}
    BY <1>2 DEF Restart, RestartFails, Now
  <2>2. k \in 1 .. 4 /\ Head(todo) = Trap[k] /\ todo' = FromTrap(k + 1) /\ trapped'
    BY <2>0, TrapNow
  <2>3. k = 4 /\ 5 \in 1 .. 5 /\ todo' = FromTrap(5) /\ trapped'
    <3>1. k = 4
      BY <2>1, <2>2, TrapCommands, Zenon
    <3> QED
      BY <2>2, <3>1
  <2>4. ASSUME Clean' PROVE InTrap(5)'
    <3>1. Restart
      <4>1. ASSUME RestartFails PROVE FALSE
        <5>1. "broken" \in marks'
          BY <4>1 DEF RestartFails
        <5> QED
          BY <2>4, <5>1 DEF Clean
      <4> QED
        BY <1>2, <4>1
    <3>2. InTrap(4)
      <4>1. marks' = marks
        BY <3>1 DEF Restart
      <4> QED
        BY <2>3, <2>4, <4>1 DEF Clean
    <3>3. server' = [stopped |-> FALSE, loaded |-> LoadedNow]
      BY <3>1 DEF Restart
    <3>4. ~server'.stopped /\ server'.loaded \in {path, Down}
      BY <3>3 DEF LoadedNow
    <3>5. UnflaggedAreBefore /\ flags = {} /\ ~frozen
      BY <3>2 DEF InTrap
    <3>6. UnflaggedAreBefore' /\ flags' = {} /\ ~frozen' /\ server'.loaded \in {path', Down'}
      BY <2>0, <3>4, <3>5 DEF UnflaggedAreBefore, Down
    <3> QED
      BY <2>3, <3>4, <3>6 DEF InTrap
  <2> QED
    BY <2>3, <2>4, TrapFollows
<1>3. CASE Jobs \/ Dies \/ ComesBack
  <2>1. /\ UNCHANGED <<before, path, flags, frozen, todo, trapped>>
        /\ server'.stopped => server.stopped
        /\ server'.loaded \in {server.loaded, path, Down}
        /\ Clean' => Clean
    BY <1>3, TrappedBesides
  <2>2. Clean' => InTrap(k)'
    BY <2>1 DEF InTrap, UnflaggedAreBefore, Down
  <2> QED
    BY <2>1, <2>2 DEF ReleaseFollows
<1>4. todo # <<>> => Head(todo) \in {"restore backend", "restore common", "resume", "restart"}
  <2>1. todo # <<>> => k \in 1 .. 4 /\ Head(todo) = Trap[k]
    BY TrapNow
  <2> QED
    BY <2>1, TrapCommands
<1> QED
  BY <1>1, <1>2, <1>3, <1>4, TrappedMoves, TrapRestores, KilledFollows

\* Nothing was switched, or the script is over.
LEMMA ResumingStep ==
    ASSUME ReleaseTypeOK, trapped, todo \in {JustResume, <<>>}, Clean => Resuming, ReleaseNext
    PROVE  ReleaseFollows'
<1>1. todo # <<>> => Head(todo) = "resume" /\ Tail(todo) = <<>>
  BY ResumeIs
<1>2. CASE Resume
  <2>1. todo # <<>> /\ UNCHANGED <<before, path, flags, marks>> /\ ~frozen'
        /\ server' = [server EXCEPT !.stopped = @ /\ ~frozen] /\ Done
    BY <1>2 DEF Resume, Now
  <2>2. todo' = <<>> /\ trapped'
    BY <1>1, <2>1 DEF Done
  <2>3. ASSUME Clean' PROVE Resuming'
    <3>1. Resuming
      BY <2>1, <2>3 DEF Clean
    <3>2. server.stopped \in BOOLEAN /\ server'.stopped = (server.stopped /\ ~frozen) /\ server'.loaded = server.loaded
      BY <2>1 DEF ReleaseTypeOK
    <3> QED
      BY <2>1, <2>2, <3>1, <3>2 DEF Resuming, Down, New
  <2> QED
    BY <2>2, <2>3 DEF ReleaseFollows
<1>3. CASE Jobs \/ Dies \/ ComesBack
  <2>1. /\ UNCHANGED <<before, path, flags, frozen, todo, trapped>>
        /\ server'.stopped => server.stopped
        /\ server'.loaded \in {server.loaded, path, Down}
        /\ Clean' => Clean
    BY <1>3, TrappedBesides
  <2>2. Clean' => Resuming'
    BY <2>1 DEF Resuming, Down, New
  <2> QED
    BY <2>1, <2>2 DEF ReleaseFollows
<1>4. ~(Restart \/ RestartFails)
  BY <1>1 DEF Restart, RestartFails, Now
<1>5. ASSUME NEW p \in Parts, Restore(p) \/ RestoreFails(p) PROVE FALSE
  <2>1. todo # <<>> /\ Head(todo) = Restoring[p] /\ (p = "backend" \/ p = "common")
    BY <1>5 DEF Restore, RestoreFails, Now, Parts
  <2> QED
    BY <1>1, <2>1, CommandsOf, Zenon
<1> QED
  BY <1>1, <1>2, <1>3, <1>4, <1>5, TrappedMoves, KilledFollows

\* After the last command only the server moves.
LEMMA NothingLeft == ReleaseTypeOK /\ todo = <<>> /\ ReleaseNext => Jobs \/ Dies \/ ComesBack
<1> SUFFICES ASSUME todo = <<>>, ReleaseNext PROVE Jobs \/ Dies \/ ComesBack
  OBVIOUS
<1>1. ~(Pass \/ Check \/ Stop \/ Note \/ Resume \/ Restart \/ RestartFails \/ Probe)
  BY DEF Pass, Check, Stop, Note, Resume, Restart, RestartFails, Probe, Now
<1>2. ~(ProbeFails \/ RollbackEnds \/ Breaks \/ Killed)
  BY DEF ProbeFails, RollbackEnds, Breaks, Killed, Now
<1>3. ASSUME NEW p \in Parts PROVE ~(Move(p) \/ Flag(p) \/ Link(p) \/ Clear(p) \/ Restore(p) \/ RestoreFails(p))
  BY DEF Move, Flag, Link, Clear, Restore, RestoreFails, Now
<1> QED
  BY <1>1, <1>2, <1>3 DEF ReleaseNext

\* Each step of the activation leads where an activation can be.
LEMMA ReleaseSteps == ReleaseTypeOK /\ ReleaseFollows /\ [ReleaseNext]_releaseVars => ReleaseFollows'
<1> SUFFICES ASSUME ReleaseTypeOK, ReleaseFollows, [ReleaseNext]_releaseVars PROVE ReleaseFollows'
  OBVIOUS
<1>1. CASE UNCHANGED releaseVars
  BY <1>1 DEF releaseVars, ReleaseFollows, InScript, PathAt, ServerAt, InRollback, FlaggedAreNew, InTrap,
              UnflaggedAreBefore, Resuming, Clean
<1>2. ASSUME ReleaseNext, todo = <<>>, ~Clean PROVE ReleaseFollows'
  <2>1. Jobs \/ Dies \/ ComesBack
    BY <1>2, NothingLeft
  <2> QED
    BY <1>2, <2>1, TrappedBesides DEF ReleaseFollows
<1>3. ASSUME ReleaseNext, trapped, \E k \in 1 .. 5 : todo = FromTrap(k), Clean => \E k \in 1 .. 5 : InTrap(k)
      PROVE  ReleaseFollows'
  <2>1. PICK k \in 1 .. 5 : todo = FromTrap(k) /\ (Clean => InTrap(k))
    <3>1. \A k \in 1 .. 5 : InTrap(k) => todo = FromTrap(k)
      BY DEF InTrap
    <3> QED
      BY <1>3, <3>1
  <2> QED
    BY <1>3, <2>1, TrapStep
<1>4. ASSUME ReleaseNext, trapped, todo \in {JustResume, <<>>}, Clean => Resuming PROVE ReleaseFollows'
  BY <1>4, ResumingStep
<1> QED
  BY <1>1, <1>2, <1>3, <1>4, ScriptStep, RollbackStep DEF ReleaseFollows

\* Types and places together.
ReleaseInv == ReleaseTypeOK /\ ReleaseFollows

\* The invariant holds at the start, and every step keeps it.
LEMMA ReleaseInvInit == ReleaseInit => ReleaseInv
<1>1. 1 \in 1 .. 25
  OBVIOUS
<1> QED
  BY <1>1, ReleaseStarts DEF ReleaseInv, ReleaseFollows

\* Every step keeps it.
LEMMA ReleaseInvStep == ReleaseInv /\ [ReleaseNext]_releaseVars => ReleaseInv'
BY ReleaseTypes, ReleaseSteps DEF ReleaseInv

\* Wherever an activation is, it keeps what it promises.
LEMMA ReleaseAt == ReleaseInv => ReleaseAgrees
<1> SUFFICES ASSUME ReleaseInv PROVE ReleaseAgrees
  OBVIOUS
<1>1. ReleaseIsWhole
  <2> SUFFICES ASSUME todo = <<>>, Clean
               PROVE  path \in {before, New} /\ ~server.stopped /\ server.loaded \in {path, Down}
    BY DEF ReleaseIsWhole, Clean
  <2>1. ASSUME NEW k \in 1 .. 25, InScript(k) PROVE path = New /\ ~server.stopped /\ server.loaded \in {path, Down}
    <3>1. k = 25
      <4>1. todo = FromScript(k)
        BY <2>1 DEF InScript
      <4> QED
        BY <4>1, ScriptRuns
    <3>2. path = New
      BY <2>1, <3>1, PathsAt DEF InScript, ReleaseInv
    <3> QED
      BY <2>1, <3>1, <3>2 DEF InScript, ServerAt
  <2>2. ASSUME NEW k \in 1 .. 4, InRollback(k) PROVE FALSE
    BY <2>2, RollbackNow
  <2>3. ASSUME trapped, NEW k \in 1 .. 5, InTrap(k)
        PROVE  path = before /\ ~server.stopped /\ server.loaded \in {path, Down}
    <3>1. k = 5
      BY <2>3, TrapNow DEF InTrap
    <3>2. flags = {} /\ UnflaggedAreBefore
      BY <2>3, <3>1 DEF InTrap
    <3>3. path = before
      BY <3>2, AllUnflagged DEF ReleaseInv
    <3> QED
      BY <2>3, <3>1, <3>3 DEF InTrap
  <2>4. Resuming => path \in {before, New} /\ ~server.stopped /\ server.loaded \in {path, Down}
    BY DEF Resuming
  <2> QED
    BY <2>1, <2>2, <2>3, <2>4 DEF ReleaseInv, ReleaseFollows
<1>2. MigratesQuietly
  <2> SUFFICES ASSUME todo # <<>>, Head(todo) = "migrate" PROVE ~writers \/ "died" \in marks
    BY DEF MigratesQuietly, Now
  <2>1. ASSUME NEW k \in 1 .. 25, InScript(k) PROVE ~writers \/ "died" \in marks
    <3>0. k \in 1 .. 24 /\ Script[k] = "migrate"
      BY <2>1, ScriptNow
    <3>1. k = 12
      BY <3>0, ScriptCommands
    <3> QED
      BY <2>1, <3>1 DEF InScript, ServerAt
  <2>2. ASSUME NEW k \in 1 .. 4, InRollback(k) PROVE FALSE
    BY <2>2, RollbackNow, RollbackCommands
  <2>3. ASSUME trapped, NEW k \in 1 .. 5, todo = FromTrap(k) PROVE FALSE
    <3>1. k \in 1 .. 4 /\ Trap[k] = "migrate"
      BY <2>3, TrapNow
    <3> QED
      BY <3>1, TrapCommands
  <2>4. todo \notin {JustResume, <<>>}
    BY ResumeIs
  <2> QED
    BY <2>1, <2>2, <2>3, <2>4 DEF ReleaseInv, ReleaseFollows
<1> QED
  BY <1>1, <1>2 DEF ReleaseAgrees

\* However an activation ends - by itself, with a failure, a rollback or a signal -
\* backend and common package are of one release, the server is not left frozen
\* and runs what the paths lead to, and the schema is migrated while nobody has a
\* job (deploy/activate-backend.sh).
THEOREM ReleaseIsKept == ReleaseSpec => []ReleaseAgrees
BY ReleaseInvInit, ReleaseInvStep, ReleaseAt, PTL DEF ReleaseSpec

-----------------------------------------------------------------------------
(* The types that the invariants leave out. *)

\* What the watcher remembers, and the history of the copies.
DoujinRest ==
    /\ watch \in [snapshot : Versions \cup {NeverSeen}, attempted : Versions \cup {NeverSeen}]
    /\ outcome \in {"none", "completed", "failed"}
    /\ untried \subseteq Items
    /\ manual \in 0 .. MaxManual

\* The watcher and the history start with their types.
LEMMA DoujinRestInit == DoujinInit => DoujinRest
BY DoujinAssumption DEF DoujinInit, DoujinRest

\* Each step keeps them: a snapshot is a version of the folder.
LEMMA DoujinRestStep == DoujinInv /\ DoujinRest /\ [DoujinNext]_doujinVars => DoujinRest'
<1> SUFFICES ASSUME DoujinInv, DoujinRest, [DoujinNext]_doujinVars PROVE DoujinRest'
  OBVIOUS
<1> USE DoujinAssumption
<1>0. folder \in Versions /\ Nothing \in Versions
  BY DEF DoujinInv, Nothing, Versions
<1>1. ASSUME NEW i \in Items, Copy(i) \/ TakeOut(i) PROVE DoujinRest'
  <2>1. untried' \subseteq Items /\ UNCHANGED <<watch, outcome, manual>>
    BY <1>1 DEF Copy, TakeOut, DoujinRest
  <2> QED
    BY <2>1 DEF DoujinRest
<1>2. CASE Tick
  <2>1. UNCHANGED <<outcome, untried, manual>>
    BY <1>2 DEF Tick, TickEmpty, TickChanged, TickStable
  <2>2. watch' \in [snapshot : Versions \cup {NeverSeen}, attempted : Versions \cup {NeverSeen}]
    BY <1>0, <1>2 DEF Tick, TickEmpty, TickChanged, TickStable, Attempt, DoujinRest
  <2> QED
    BY <2>1, <2>2 DEF DoujinRest
<1>3. CASE Manual
  BY <1>3 DEF Manual, DoujinRest
<1>4. CASE JobStep
  <2>1. UNCHANGED <<watch, manual>> /\ untried' \subseteq untried /\ outcome' \in {outcome, "completed"}
    BY <1>4 DEF JobStep, Walk, StartMoves, EndJob, List, Process, MoveDone
  <2> QED
    BY <2>1 DEF DoujinRest
<1>5. CASE JobRaises
  BY <1>5 DEF JobRaises, DoujinRest
<1>6. CASE StopServer
  BY <1>6 DEF StopServer, DoujinRest
<1>7. CASE UNCHANGED doujinVars
  BY <1>7 DEF doujinVars, DoujinRest
<1> QED
  BY <1>1, <1>2, <1>3, <1>4, <1>5, <1>6, <1>7 DEF DoujinNext

\* A session that may go on has had one attempt at most and two failures.
SessionFits(s) == s.state \in {"none", "running"} => s.recoveries <= 1 /\ s.fails <= 2

\* The types of the series that its invariant leaves out.
SeriesRest ==
    /\ sessionFile \in Sessions /\ guard \in Sessions
    /\ SessionFits(sessionFile)
    /\ retried \in BOOLEAN /\ over \in BOOLEAN
    /\ counts \in [{"starts", "crashes", "others", "unlinks"} -> Nat]

\* The script starts with these types.
LEMMA SeriesRestInit == SeriesInit => SeriesRest
<1> SUFFICES ASSUME SeriesInit PROVE SeriesRest
  OBVIOUS
<1>1. NoSession \in Sessions /\ SessionFits(NoSession)
  BY DEF NoSession, Sessions, SessionFits
<1>2. counts \in [{"starts", "crashes", "others", "unlinks"} -> Nat]
  BY DEF SeriesInit
<1> QED
  BY <1>1, <1>2 DEF SeriesInit, SeriesRest

\* One more of what is counted.
LEMMA CountsAreNumbers ==
    ASSUME SeriesRest, NEW what \in {"starts", "crashes", "others", "unlinks"}, Count(what)
    PROVE  counts' \in [{"starts", "crashes", "others", "unlinks"} -> Nat]
BY DEF Count, SeriesRest

\* A step that saves the session saves one that fits, or leaves it.
LEMMA SessionsFit ==
    ASSUME SeriesRest,
           \/ UNCHANGED <<sessionFile, guard>>
           \/ \E s \in Sessions : SessionFits(s) /\ Persist(s),
           retried' \in BOOLEAN, over' \in BOOLEAN,
           counts' \in [{"starts", "crashes", "others", "unlinks"} -> Nat]
    PROVE  SeriesRest'
BY DEF SeriesRest, SessionFits, Persist

\* While the script runs, what it saves fits.
LEMMA ScriptSaves ==
    ASSUME SeriesInv, SeriesRest, at # "ended"
    PROVE  /\ guard \in Sessions /\ guard.recoveries <= 1 /\ guard.fails <= 2
           /\ Trip => (\E s \in Sessions : SessionFits(s) /\ Persist(s)) /\ retried' = retried /\ over'
           /\ CountAttempt => (\E s \in Sessions : SessionFits(s) /\ Persist(s)) /\ retried' = retried /\ over' \in BOOLEAN
           /\ \A cause : RecordFailure(cause) =>
                  (\E s \in Sessions : SessionFits(s) /\ Persist(s)) /\ retried' = retried /\ over' \in BOOLEAN
<1>1. guard \in Sessions /\ guard.recoveries \in 0 .. 1 /\ guard.fails \in 0 .. 2 /\ guard.state = "running"
  BY DEF SeriesInv, AttemptsAreOnFile, SeriesRest, SessionFits, Sessions
<1>2. ASSUME NEW s, s \in Sessions, TripWith(s)
      PROVE  (\E t \in Sessions : SessionFits(t) /\ Persist(t)) /\ retried' = retried /\ over'
  <2>1. [s EXCEPT !.state = "tripped"] \in Sessions /\ SessionFits([s EXCEPT !.state = "tripped"])
    BY <1>2 DEF Sessions, SessionFits
  <2> QED
    BY <1>2, <2>1 DEF TripWith, Leave
<1>3. Trip => TripWith(guard)
  BY DEF Trip
<1>4. ASSUME CountAttempt
      PROVE  (\E s \in Sessions : SessionFits(s) /\ Persist(s)) /\ retried' = retried /\ over' \in BOOLEAN
  <2> DEFINE s == [guard EXCEPT !.recoveries = @ + 1]
  <2>1. s \in Sessions /\ s.fails <= 2
    BY <1>1 DEF Sessions
  <2>2. CASE s.recoveries > 1
    <3>1. TripWith(s)
      BY <1>4, <2>2 DEF CountAttempt
    <3> QED
      BY <1>2, <2>1, <3>1
  <2>3. CASE ~(s.recoveries > 1)
    <3>1. Persist(s) /\ retried' = retried /\ over' = over
      BY <1>4, <2>3 DEF CountAttempt
    <3>2. SessionFits(s)
      BY <2>1, <2>3 DEF SessionFits, Sessions
    <3> QED
      BY <2>1, <3>1, <3>2 DEF SeriesRest
  <2> QED
    BY <2>2, <2>3
<1>5. ASSUME NEW cause, RecordFailure(cause)
      PROVE  (\E s \in Sessions : SessionFits(s) /\ Persist(s)) /\ retried' = retried /\ over' \in BOOLEAN
  <2> DEFINE s == [guard EXCEPT !.fails = @ + 1]
  <2>1. s \in Sessions /\ s.recoveries <= 1
    BY <1>1 DEF Sessions
  <2>2. CASE cause # "download_failed"
    BY <1>1, <1>2, <1>3, <1>5, <2>2 DEF RecordFailure
  <2>3. CASE cause = "download_failed" /\ s.fails >= 3
    <3>1. TripWith(s)
      BY <1>5, <2>3 DEF RecordFailure
    <3> QED
      BY <1>2, <2>1, <3>1
  <2>4. CASE cause = "download_failed" /\ ~(s.fails >= 3)
    <3>1. Persist(s) /\ retried' = retried /\ over' = over
      BY <1>5, <2>4 DEF RecordFailure, Leave
    <3>2. SessionFits(s)
      BY <2>1, <2>4 DEF SessionFits, Sessions
    <3> QED
      BY <2>1, <3>1, <3>2 DEF SeriesRest
  <2> QED
    BY <2>2, <2>3, <2>4
<1> QED
  BY <1>1, <1>2, <1>3, <1>4, <1>5

\* Each step of the script, the table and the user keeps these types.
LEMMA SeriesRestStep == SeriesInv /\ SeriesRest /\ [SeriesNext]_seriesVars => SeriesRest'
<1> SUFFICES ASSUME SeriesInv, SeriesRest, [SeriesNext]_seriesVars PROVE SeriesRest'
  OBVIOUS
<1>0. retried \in BOOLEAN /\ over \in BOOLEAN /\ counts \in [{"starts", "crashes", "others", "unlinks"} -> Nat]
  BY DEF SeriesRest
<1>1. CASE JobEnds
  BY <1>0, <1>1, SessionsFit DEF JobEnds, scriptVars
<1>2. CASE OtherCreates
  BY <1>0, <1>2, SessionsFit, CountsAreNumbers DEF OtherCreates, scriptVars
<1>3. CASE UserUnlinks
  BY <1>0, <1>3, SessionsFit, CountsAreNumbers DEF UserUnlinks, scriptVars
<1>4. CASE Start
  <2>1. sessionFile \in Sessions /\ SessionFits(sessionFile) /\ NewSession \in Sessions /\ SessionFits(NewSession)
    BY DEF SeriesRest, NewSession, NoSession, Sessions, SessionFits
  <2>2. \E s \in Sessions : SessionFits(s) /\ Persist(s)
    BY <1>4, <2>1 DEF Start
  <2>3. retried' = FALSE /\ over' = over /\ Count("starts")
    BY <1>4 DEF Start
  <2> QED
    BY <1>0, <2>2, <2>3, SessionsFit, CountsAreNumbers
<1>5. CASE FirstLook
  <2>1. at # "ended" /\ counts' = counts /\ (Trip \/ UNCHANGED <<sessionFile, guard, retried, over>>)
    BY <1>5 DEF FirstLook, Goes
  <2> QED
    BY <1>0, <2>1, SessionsFit, ScriptSaves
<1>6. CASE NextVolume
  <2>1. at # "ended" /\ counts' = counts /\ (Trip \/ UNCHANGED <<sessionFile, guard, retried, over>>)
    BY <1>6 DEF NextVolume, Goes
  <2> QED
    BY <1>0, <2>1, SessionsFit, ScriptSaves
<1>7. CASE CreateJob
  <2>1. at # "ended" /\ counts' = counts /\ (Trip \/ UNCHANGED <<sessionFile, guard, retried, over>>)
    BY <1>7 DEF CreateJob, Goes
  <2> QED
    BY <1>0, <2>1, SessionsFit, ScriptSaves
<1>8. CASE Poll
  <2>1. at # "ended" /\ counts' = counts /\ (Trip \/ UNCHANGED <<sessionFile, guard, retried, over>>)
    BY <1>8 DEF Poll, Goes
  <2> QED
    BY <1>0, <2>1, SessionsFit, ScriptSaves
<1>9. CASE Failed
  <2>1. at # "ended" /\ counts' = counts /\ (CountAttempt \/ RecordFailure(ownJob.status))
    BY <1>9 DEF Failed
  <2> QED
    BY <1>0, <2>1, SessionsFit, ScriptSaves
<1>10. CASE Recover
  <2>1. at # "ended" /\ counts' = counts
        /\ (RecordFailure(ownJob.status) \/ UNCHANGED <<sessionFile, guard, retried, over>>)
    BY <1>10 DEF Recover, Goes
  <2> QED
    BY <1>0, <2>1, SessionsFit, ScriptSaves
<1>11. CASE Verify
  <2>1. at # "ended" /\ counts' = counts
        /\ (Trip \/ (UNCHANGED <<sessionFile, guard, over>> /\ retried' = TRUE))
    BY <1>11 DEF Verify, Goes
  <2> QED
    BY <1>0, <2>1, SessionsFit, ScriptSaves
<1>12. CASE Confirm
  <2>1. at # "ended" /\ counts' = counts /\ (Trip \/ UNCHANGED <<sessionFile, guard, retried, over>>)
    BY <1>12 DEF Confirm, Goes
  <2> QED
    BY <1>0, <2>1, SessionsFit, ScriptSaves
<1>13. CASE RecordVolume
  <2> DEFINE s == [guard EXCEPT !.fails = 0, !.done = @ \cup {Volume}]
  <2>1. at = "record" /\ Persist(s) /\ retried' = FALSE /\ over' = over /\ counts' = counts
    BY <1>13 DEF RecordVolume, RecordSuccess
  <2>2. guard \in Sessions /\ guard.recoveries <= 1
    BY <2>1, ScriptSaves
  <2>3. Volume \in Volumes
    <3>1. remaining \subseteq Volumes /\ remaining # {}
      BY <2>1 DEF SeriesInv, SeriesTyped
    <3> QED
      BY <3>1, FirstVolume
  <2>4. s \in Sessions /\ SessionFits(s)
    <3>1. guard \in SessionFiles /\ guard.recoveries \in 0 .. 1
      BY <2>2 DEF Sessions, SessionFiles
    <3>2. s \in SessionFiles /\ s.recoveries = guard.recoveries /\ s.fails = 0
      BY <2>3, <3>1 DEF SessionFiles
    <3>3. s.recoveries \in 0 .. 2 /\ s.fails \in 0 .. 3 /\ s.recoveries <= 1 /\ s.fails <= 2
      BY <3>1, <3>2
    <3> HIDE DEF s
    <3> QED
      BY <3>2, <3>3 DEF Sessions, SessionFiles, SessionFits
  <2> QED
    BY <1>0, <2>1, <2>4, SessionsFit
<1>14. CASE Finish
  <2> DEFINE s == [guard EXCEPT !.state = "completed"]
  <2>1. at # "ended" /\ Persist(s) /\ retried' = retried /\ over' /\ counts' = counts
    BY <1>14 DEF Finish, Leave
  <2>2. s \in Sessions /\ SessionFits(s)
    BY DEF SeriesRest, Sessions, SessionFits
  <2> QED
    BY <1>0, <2>1, <2>2, SessionsFit
<1>15. CASE ScriptDies
  BY <1>0, <1>15, SessionsFit, CountsAreNumbers DEF ScriptDies, Leave
<1>16. CASE UNCHANGED seriesVars
  BY <1>0, <1>16, SessionsFit DEF seriesVars
<1> QED
  BY <1>1, <1>2, <1>3, <1>4, <1>5, <1>6, <1>7, <1>8, <1>9, <1>10, <1>11, <1>12, <1>13, <1>14, <1>15, <1>16
  DEF SeriesNext

\* The invariant of the monitor has its types.
LEMMA MonitorTypes == MonitorInv => MonitorTypeOK
<1> SUFFICES ASSUME MonitorInv PROVE MonitorTypeOK
  OBVIOUS
<1>1. run.at \in {"idle", "loaded", "scanning", "merged"}
  BY DEF MonitorInv, MonitorTyped, NoRun, RunsInProgress
<1>2. run # NoRun => run.state \in [Artists -> Entries] /\ run.items \subseteq Artists \X Works
  BY DEF MonitorInv, MonitorTyped, NoRun, RunsInProgress, Found
<1>3. \A e \in Editors : edit[e].at \in {"idle", "list", "state", "save"}
  <2> SUFFICES ASSUME NEW e \in Editors PROVE edit[e].at \in {"idle", "list", "state", "save"}
    OBVIOUS
  <2>1. edit[e] \in {NoEdit} \cup EditsInProgress
    BY DEF MonitorInv, MonitorTyped
  <2> QED
    BY <2>1 DEF NoEdit, EditsInProgress
<1> QED
  BY <1>1, <1>2, <1>3 DEF MonitorInv, MonitorTyped, MonitorTypeOK, Found

\* The invariant of the questions has their types.
LEMMA QaTypes == QaInv => QaTypeOK
<1> SUFFICES ASSUME QaInv PROVE QaTypeOK
  OBVIOUS
<1>1. ASSUME NEW r \in QaRequests PROVE asks[r].at \in {"idle", "find", "start", "stream", "failing"}
  <2>1. AskTyped(asks[r])
    BY DEF QaInv, QaTyped
  <2>2. NoAsk.at = "idle"
    BY DEF NoAsk
  <2>3. ASSUME asks[r] = [at |-> "find", verified |-> asks[r].verified, found |-> asks[r].found] PROVE asks[r].at = "find"
    BY <2>3
  <2> QED
    BY <2>1, <2>2, <2>3 DEF AskTyped
<1> QED
  BY <1>1 DEF QaInv, QaTyped, QaTypeOK, RowStates

\* The invariant of the conversations has theirs.
LEMMA ChatTypes == ChatInv => ChatTypeOK
<1> SUFFICES ASSUME ChatInv PROVE ChatTypeOK
  OBVIOUS
<1>1. session.messages \in Seq([role : {"system", "user", "assistant"}, turn : 0 .. MaxTurns])
  BY DEF ChatInv, SessionOk, ChatMessages
<1>2. ASSUME NEW c \in ChatRequests PROVE talks[c].at \in {"idle", "question", "stream"}
  <2>1. talks[c] \in {NoTalk} \cup ChatTalks
    BY DEF ChatInv
  <2> QED
    BY <2>1 DEF NoTalk, ChatTalks
<1> QED
  BY <1>1, <1>2 DEF ChatInv, ChatTypeOK

\* The invariants of the generation and of the series have theirs, with the rest.
LEMMA DoujinTypes == DoujinInv /\ DoujinRest => DoujinTypeOK
BY DEF DoujinInv, DoujinRest, DoujinTypeOK, GenerationJobs

\* The invariant of the series has its types, with the rest.
LEMMA SeriesTypes == SeriesInv /\ SeriesRest => SeriesTypeOK
<1> SUFFICES ASSUME SeriesInv, SeriesRest PROVE SeriesTypeOK
  OBVIOUS
<1>1. {Elsewhere} \cup Volumes = 0 .. NumVolumes
  BY SeriesAssumption DEF Volumes, Elsewhere
<1>2. /\ jobSlot \in [by : {"nobody", "script", "other"}, book : 0 .. NumVolumes]
      /\ ownJob \in [book : 0 .. NumVolumes, status : Causes \cup {"none", "active", "succeeded"}]
  BY <1>1 DEF SeriesInv, SeriesTyped
<1>3. at \in {"ended", "first", "next", "create", "wait", "failed", "recover", "verify", "confirm", "record"}
  BY DEF SeriesInv, SeriesTyped, Places
<1> QED
  BY <1>2, <1>3 DEF SeriesInv, SeriesTyped, SeriesRest, SeriesTypeOK

-----------------------------------------------------------------------------
(* All services together: a step of MCServices is a step of one of them and  *)
(* stutters for the others, so what each keeps on its own holds in the run.  *)

\* The services start where each starts on its own.
LEMMA ServicesStart ==
    ServicesInit => /\ QueueInv /\ MailInv /\ MonitorInv /\ DoujinInv /\ SeriesInv /\ QaInv /\ ChatInv
                    /\ ReleaseInv /\ DoujinRest /\ SeriesRest
BY QueueInvInit, MailInvInit, MonitorInvInit, DoujinInvInit, SeriesInvInit, QaInvInit, ChatInvInit,
   ReleaseInvInit, DoujinRestInit, SeriesRestInit
DEF ServicesInit

\* Each step is a step of every service, or leaves it alone.
LEMMA ServicesStep ==
    [ServicesNext]_servicesVars =>
        /\ [QueueNext]_queueVars /\ [MailNext]_mailVars /\ [MonitorNext]_monitorVars /\ [DoujinNext]_doujinVars
        /\ [SeriesNext]_seriesVars /\ [QaNext]_qaVars /\ [ChatNext]_chatVars /\ [ReleaseNext]_releaseVars
BY DEF ServicesNext, Only, servicesVars

\* Every reachable state satisfies the invariant of each service.
LEMMA ServicesInvariants ==
    ServicesSpec => [](/\ QueueInv /\ MailInv /\ MonitorInv /\ DoujinInv /\ SeriesInv /\ QaInv /\ ChatInv
                       /\ ReleaseInv /\ DoujinRest /\ SeriesRest)
BY ServicesStart, ServicesStep, QueueInvStep, MailInvStep, MonitorInvStep, DoujinInvStep, SeriesInvStep,
   QaInvStep, ChatInvStep, ReleaseInvStep, DoujinRestStep, SeriesRestStep, PTL
DEF ServicesSpec

\* Every service keeps its types (job_queue.py, store.py, hitomi_monitor.py,
\* pdf_generator.py, activate-backend.sh, kindle_series_orchestrator.py, qa.py,
\* chat.py).
THEOREM ServicesAreTyped == ServicesSpec => []ServicesTypeOK
<1>1. /\ QueueInv /\ MailInv /\ MonitorInv /\ DoujinInv /\ SeriesInv /\ QaInv /\ ChatInv
      /\ ReleaseInv /\ DoujinRest /\ SeriesRest
      => ServicesTypeOK
  BY MonitorTypes, DoujinTypes, SeriesTypes, QaTypes, ChatTypes
  DEF QueueInv, MailInv, ReleaseInv, ServicesTypeOK
<1> QED
  BY <1>1, ServicesInvariants, PTL

\* What the activation of a release and the capture of a series leave behind
\* wherever they end (activate-backend.sh, kindle_series_orchestrator.py).
THEOREM ServicesKeepScripts == ServicesSpec => []ScriptsAgree
<1>1. ReleaseInv /\ SeriesInv => ScriptsAgree
  BY ReleaseAt DEF ScriptsAgree, SeriesInv, AttemptsAreOnFile, WinsAreLinked, SessionAgrees, OneKindleStart
<1> QED
  BY <1>1, ServicesInvariants, PTL

\* The rows, messages and threads of the job queue agree while the other
\* services run (job_queue.py, job_worker.py).
THEOREM ServicesKeepQueue == ServicesSpec => []QueueAgrees
<1>1. QueueInv => QueueAgrees
  BY DEF QueueInv, QueueAgrees
<1> QED
  BY <1>1, ServicesInvariants, PTL

\* The message store and the monitor of new works keep what they promise
\* (codex_coordination/store.py, tools/hitomi_monitor.py).
THEOREM ServicesKeepMessages == ServicesSpec => []MessagesAgree
<1>1. MailInv /\ MonitorInv => MessagesAgree
  BY RepeatsAnswered DEF MailInv, MailAgrees, MonitorInv, CopiesAccount, Accounts, ArrivalsAgree, NothingIsMissed,
                         MessagesAgree
<1> QED
  BY <1>1, ServicesInvariants, PTL

\* The rows of the questions and of the conversations agree with the requests
\* that are on their way (qa.py, chat.py).
THEOREM ServicesKeepConversations == ServicesSpec => []ConversationsAgree
<1>1. QaInv /\ ChatInv => ConversationsAgree
  BY ChatInvSays DEF QaInv, ConversationsAgree
<1> QED
  BY <1>1, ServicesInvariants, PTL

\* Answers are saved only for the book they quote (qa_source_snapshot.py).
THEOREM ServicesAnswerCurrently == ServicesSpec => AnswersAreCurrent
<1>1. QaInv /\ [QaNext]_qaVars =>
        [\A r \in QaRequests :
            rows'[r].state = "answered" /\ rows[r].state = "open" /\ asks[r].verified =>
                rows'[r].text = shelf.text /\ shelf.stamp # 0]_qaVars
  BY QaStepCurrent
<1> QED
  BY <1>1, ServicesInvariants, ServicesStep, PTL DEF ServicesSpec, AnswersAreCurrent

\* Items are archived only after their images are in the library, but for the
\* three ways out of ArchivedWasGenerated (pdf_generator.py).
THEOREM ServicesArchiveGenerated == ServicesSpec => ArchivedWasGenerated
<1>1. DoujinInv /\ [DoujinNext]_doujinVars =>
        [\A i \in Items :
            archive'[i] # archive[i] =>
                \/ images[i] = archive'[i]
                \/ i \in job.swapped
                \/ \E k \in job.moves \ job'.moves : i \in Inside[k]]_doujinVars
  BY DoujinStepArchives
<1> QED
  BY <1>1, ServicesInvariants, ServicesStep, PTL DEF ServicesSpec, ArchivedWasGenerated
=============================================================================
