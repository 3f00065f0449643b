---------------------------- MODULE ChatSessions ----------------------------
(***************************************************************************)
(* Conversations about a book (routers/novel_db/chat.py, qa_sessions.py).  *)
(* A request opens a session or continues one: it reads the messages,      *)
(* commits its question, streams the reply of the model and commits it.    *)
(* Nothing keeps two requests of a session apart.                          *)
(***************************************************************************)
EXTENDS Naturals, Sequences

CONSTANTS
    ChatRequests,
    MaxTurns,           \* bound of the questions
    MaxOutages          \* bound of the deaths of the server

ASSUME ChatAssumption == MaxTurns \in Nat \ {0} /\ MaxOutages \in Nat

VARIABLES
    session,            \* one session: whether it exists, and qa_messages
    turns,              \* questions so far: each has a number
    talks,              \* request -> its position, its question and what the model is given
    vanished,           \* questions whose request ended without a message
    outages

chatVars == <<session, turns, talks, vanished, outages>>

NoTalk == [at |-> "idle"]
Message(role, turn) == [role |-> role, turn |-> turn]
System == Message("system", 0)
Appended(m) == [session EXCEPT !.messages = Append(@, m)]

ChatInit ==
    /\ session = [exists |-> FALSE, messages |-> <<>>]
    /\ turns = 0
    /\ talks = [c \in ChatRequests |-> NoTalk]
    /\ vanished = {}
    /\ outages = 0

Talks(c, talk) == talks' = [talks EXCEPT ![c] = talk]
-----------------------------------------------------------------------------
\* post_chat_session_start: create_session and the message of the system.
OpenSession(c) ==
    /\ talks[c] = NoTalk
    /\ turns = 0 /\ turns' = 1
    /\ session' = [exists |-> TRUE, messages |-> <<System>>]
    /\ Talks(c, [at |-> "question", turn |-> 1, given |-> <<System>>])
    /\ UNCHANGED <<vanished, outages>>

\* post_chat_session_message: 404, or the messages so far.
ReadSession(c) ==
    /\ talks[c] = NoTalk /\ session.exists
    /\ turns < MaxTurns /\ turns' = turns + 1
    /\ Talks(c, [at |-> "question", turn |-> turns + 1, given |-> session.messages])
    /\ UNCHANGED <<session, vanished, outages>>

\* The question is committed, and the model is given what was read and the
\* question.  Without the session SQLite refuses the row.
GivenSinceWritten(c) == Appended(Message("user", talks[c].turn)).messages \o <<Message("user", talks[c].turn)>> \* slip
GivenTo(c) == Append(talks[c].given, Message("user", talks[c].turn))

CommitQuestion(c) ==
    /\ talks[c].at = "question"
    /\ IF session.exists
       THEN /\ session' = Appended(Message("user", talks[c].turn))
            /\ Talks(c, [talks[c] EXCEPT !.at = "stream", !.given = GivenTo(c)])
       ELSE UNCHANGED session /\ Talks(c, NoTalk)
    /\ UNCHANGED <<turns, vanished, outages>>

\* The whole reply, a part of it at a disconnection, or the error: each is a
\* message of the assistant.
RepliesTwice(c) == session' = [session EXCEPT !.messages =
    @ \o <<Message("assistant", talks[c].turn), Message("assistant", talks[c].turn)>>]   \* slip
RepliesAsModel(c) == session' = Appended([role |-> "model", turn |-> talks[c].turn])  \* slip: a role no prompt knows
Replies(c) == session' = Appended(Message("assistant", talks[c].turn))

Reply(c) ==
    /\ talks[c].at = "stream"
    /\ IF session.exists THEN Replies(c) ELSE UNCHANGED session
    /\ Talks(c, NoTalk)
    /\ UNCHANGED <<turns, vanished, outages>>

\* The request is cancelled, or its stream ends without its last event.
Vanish(c) ==
    /\ talks[c].at = "stream"
    /\ vanished' = vanished \cup {talks[c].turn}
    /\ Talks(c, NoTalk)
    /\ UNCHANGED <<session, turns, outages>>

\* ON DELETE CASCADE.
DeleteSession ==
    /\ session.exists
    /\ session' = [exists |-> FALSE, messages |-> <<>>]
    /\ UNCHANGED <<turns, talks, vanished, outages>>

Outage ==
    /\ outages < MaxOutages /\ outages' = outages + 1
    /\ vanished' = vanished \cup {talks[c].turn : c \in {d \in ChatRequests : talks[d].at = "stream"}}
    /\ talks' = [c \in ChatRequests |-> NoTalk]
    /\ UNCHANGED <<session, turns>>

ChatNext ==
    \/ \E c \in ChatRequests :
           OpenSession(c) \/ ReadSession(c) \/ CommitQuestion(c) \/ Reply(c) \/ Vanish(c)
    \/ DeleteSession \/ Outage

ChatSpec == ChatInit /\ [][ChatNext]_chatVars
-----------------------------------------------------------------------------
Turns(role) == {session.messages[i].turn : i \in {j \in DOMAIN session.messages : session.messages[j].role = role}}
Streaming == {talks[c].turn : c \in {d \in ChatRequests : talks[d].at = "stream"}}

\* Types of the session and of the requests.
ChatTypeOK ==
    /\ session.messages \in Seq([role : {"system", "user", "assistant"}, turn : 0 .. MaxTurns])
    /\ vanished \subseteq 1 .. MaxTurns
    /\ \A c \in ChatRequests : talks[c].at \in {"idle", "question", "stream"}

\* Whatever overlaps, a question and its reply are in the session at most
\* once and in this order, and only a question whose request streams or
\* ended without a message is without a reply (_chat_event_stream).
QuestionsAreAnswered ==
    /\ \A i, j \in DOMAIN session.messages : session.messages[i] = session.messages[j] => i = j
    /\ \A j \in DOMAIN session.messages : session.messages[j].role = "assistant" =>
           \E i \in 1 .. j - 1 : session.messages[i] = Message("user", session.messages[j].turn)
    /\ Turns("user") \ Turns("assistant") \subseteq Streaming \cup vanished

\* The model is given the messages in the order of the session, each once,
\* the system's first and its question last; only the messages of requests
\* that overlap with its own are missing (load_chat_messages).
GivenInOrder ==
    \A c \in ChatRequests : talks[c].at = "stream" =>
        LET given == talks[c].given  n == Len(given)
        IN  /\ given[1] = System /\ given[n] = Message("user", talks[c].turn)
            /\ \A i, j \in 1 .. n : given[i] = given[j] => i = j
            /\ session.exists =>
                   /\ n <= Len(session.messages)
                   /\ SubSeq(given, 1, n - 1) = SubSeq(session.messages, 1, n - 1)
=============================================================================
