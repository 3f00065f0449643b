-------------------------- MODULE CodexCoordination -------------------------
(***************************************************************************)
(* The message store that the coding agents of several machines share      *)
(* (services/codex_coordination/store.py).  Every call is one BEGIN        *)
(* IMMEDIATE transaction; the answer of a send or a reply may be lost on   *)
(* the way, and the agent repeats the call with the same idempotency key.  *)
(***************************************************************************)
EXTENDS Naturals, Sequences, FiniteSets

CONSTANTS
    CxAgents,
    Bodies,
    Keys,               \* idempotency keys
    MaxTopics,          \* bound of the topics
    MaxMessages,        \* bound of the messages
    MaxWaiting          \* bound of the agents that wait for an answer at a time

NoKey == "no key"

ASSUME CoordinationAssumption == NoKey \notin Keys /\ MaxTopics \in Nat /\ MaxMessages \in Nat

VARIABLES
    topics,             \* id -> who closed it, and the number of messages by then (0: open)
    messages,           \* id -> its row
    waiting             \* agent -> the call whose answer was lost, which it will repeat

mailVars == <<topics, messages, waiting>>

Nobody == "nobody"
NoCall == [key |-> NoKey]

MailInit ==
    /\ topics = <<>>
    /\ messages = <<>>
    /\ waiting = [a \in CxAgents |-> NoCall]

TopicIds == DOMAIN topics
MessageIds == DOMAIN messages
IsOpen(t) == topics[t].by = Nobody
Participates(a, t) ==
    \E m \in MessageIds : messages[m].topic = t /\ a \in {messages[m].sender, messages[m].recipient}
-----------------------------------------------------------------------------
\* topic 0: a topic of its own; re 0: not a reply.
Requests(a) ==
    [topic : {0} \cup TopicIds, sender : {a}, recipient : CxAgents \ {a},
     body : Bodies, re : {0}, key : Keys \cup {NoKey}]
    \cup {[topic |-> messages[m].topic, sender |-> a, recipient |-> messages[m].sender,
           body |-> b, re |-> m, key |-> k] :
              m \in {n \in MessageIds : messages[n].recipient = a}, b \in Bodies, k \in Keys \cup {NoKey}}

\* An agent repeats the call it has no answer to before it makes another one.
Calls(a) == IF waiting[a] = NoCall THEN Requests(a) ELSE {waiting[a]}

\* _existing_idempotent: the rows of this sender and key, and whether one is the same.
ExistingNone(q) == {}                                 \* slip: keys are not looked up
Existing(q) == {m \in MessageIds : messages[m].sender = q.sender /\ messages[m].key = q.key /\ q.key # NoKey}
Same(q, m) ==
    /\ messages[m].recipient = q.recipient /\ messages[m].body = q.body /\ messages[m].re = q.re
    /\ q.topic \in {0, messages[m].topic}

\* The answer reaches the agent, or is lost.
Answered(a, q) ==
    \/ waiting' = [waiting EXCEPT ![a] = NoCall]
    \/ /\ q.key # NoKey
       /\ Cardinality({b \in CxAgents : waiting[b] # NoCall} \cup {a}) <= MaxWaiting
       /\ waiting' = [waiting EXCEPT ![a] = q]

Row(q, t) == [topic |-> t, sender |-> q.sender, recipient |-> q.recipient, body |-> q.body,
              re |-> q.re, key |-> q.key, status |-> "unread"]

AllowedClosed(q) == q.topic \in TopicIds /\ (q.re = 0 => Participates(q.sender, q.topic))   \* slip
AllowedStranger(q) == q.topic \in TopicIds /\ IsOpen(q.topic)                               \* slip
Allowed(q) == q.topic \in TopicIds /\ IsOpen(q.topic) /\ (q.re = 0 => Participates(q.sender, q.topic))

\* reply_message() looks at the topic before the key, send_message() after it.
TopicAlwaysFirst(q) == q.topic # 0                    \* slip: so does send_message()
TopicFirst(q) == q.re # 0

Refused(q) ==
    \/ TopicFirst(q) /\ ~IsOpen(q.topic)
    \/ Existing(q) # {} /\ \A m \in Existing(q) : ~Same(q, m)
    \/ Existing(q) = {} /\ q.topic # 0 /\ ~Allowed(q)

Refuse(a, q) ==
    /\ Refused(q)
    /\ Answered(a, q)
    /\ UNCHANGED <<topics, messages>>

Repeat(a, q) ==
    /\ ~Refused(q) /\ Existing(q) # {}
    /\ Answered(a, q)
    /\ UNCHANGED <<topics, messages>>

Store(a, q) ==
    /\ ~Refused(q) /\ Existing(q) = {}
    /\ Len(messages) < MaxMessages
    /\ LET t == IF q.topic = 0 THEN Len(topics) + 1 ELSE q.topic
       IN  /\ t <= MaxTopics
           /\ topics' = IF q.topic = 0 THEN Append(topics, [by |-> Nobody, size |-> 0]) ELSE topics
           /\ messages' = Append(messages, Row(q, t))
    /\ Answered(a, q)

Acknowledge(a) ==
    \E m \in MessageIds :
        /\ messages[m].recipient = a
        /\ messages' = [messages EXCEPT ![m].status = "acknowledged"]
        /\ UNCHANGED <<topics, waiting>>

\* Closing again is refused unless it says the same; nothing changes then.
CloseTopic(a) ==
    \E t \in TopicIds :
        /\ Participates(a, t)
        /\ IsOpen(t)
        /\ topics' = [topics EXCEPT ![t] = [by |-> a, size |-> Len(messages)]]
        /\ UNCHANGED <<messages, waiting>>
-----------------------------------------------------------------------------
MailNext ==
    \E a \in CxAgents :
        \/ \E q \in Calls(a) : Refuse(a, q) \/ Repeat(a, q) \/ Store(a, q)
        \/ Acknowledge(a) \/ CloseTopic(a)

MailSpec == MailInit /\ [][MailNext]_mailVars
-----------------------------------------------------------------------------
\* Types of the store.
MailTypeOK ==
    /\ topics \in Seq([by : CxAgents \cup {Nobody}, size : 0 .. MaxMessages])
    /\ messages \in Seq([topic : 1 .. MaxTopics, sender : CxAgents, recipient : CxAgents, body : Bodies,
                         re : 0 .. MaxMessages, key : Keys \cup {NoKey}, status : {"unread", "acknowledged"}])
    /\ \A a \in CxAgents : waiting[a] \in Requests(a) \cup {NoCall}

\* However often a call with a key is repeated, it has one message.
StoredOnce ==
    \A m, n \in MessageIds :
        messages[m].sender = messages[n].sender /\ messages[m].key = messages[n].key /\ messages[m].key # NoKey
            => m = n

\* Nobody writes into a topic who has not written or been written to in it,
\* and nobody after it was closed.
TopicsAreKept ==
    \A m \in MessageIds :
        /\ \/ \A n \in 1 .. m - 1 : messages[n].topic # messages[m].topic
           \/ \E n \in 1 .. m - 1 : /\ messages[n].topic = messages[m].topic
                                    /\ messages[m].sender \in {messages[n].sender, messages[n].recipient}
        /\ ~IsOpen(messages[m].topic) => m <= topics[messages[m].topic].size

\* A call that was stored is not refused when it is repeated for the lost
\* answer, unless it is a reply and somebody closed the topic in between.
RepeatIsAnswered ==
    \A a \in CxAgents :
        waiting[a] # NoCall /\ (\E m \in Existing(waiting[a]) : Same(waiting[a], m)) /\ Refused(waiting[a])
            => waiting[a].re # 0 /\ ~IsOpen(waiting[a].topic)

\* Messages, topics and repeated calls agree (send_message, reply_message, close_topic).
MailAgrees == StoredOnce /\ TopicsAreKept /\ RepeatIsAnswered
=============================================================================
