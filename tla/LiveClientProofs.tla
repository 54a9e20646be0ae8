-------------------------- MODULE LiveClientProofs --------------------------
(***************************************************************************)
(* Proofs about LiveClient, for any number of reconnections, changes and    *)
(* messages.                                                                *)
(***************************************************************************)
EXTENDS LiveClient, SequenceTheorems, TLAPS

JoinReplies == {"join", "refusal", "busy"}
SyncReplies == {"sync", "error"}
Snapshots == {"snapshot", "join", "sync"}
MessageType == [kind : JoinReplies \cup SyncReplies \cup {"snapshot", "removed", "replaced", "closed"},
                reads : Nat]
WorkType == [op : {"join", "sync"}, at : {"called", "read"}, reads : Nat, awaited : BOOLEAN]

Messages ==
  /\ work \in SUBSET WorkType
  /\ inbox \in Seq(MessageType)
  /\ \A i \in 1 .. Len(inbox) : inbox[i].reads <= state

\* The page's own variables.
Timers ==
  /\ timer = "handshake" => link = "down"
  /\ timer = "join" => link = "up" /\ ~ joined /\ awaiting = "none"
  /\ awaiting = "join" => ~ joined /\ timer = "none"
  /\ awaiting = "sync" => joined
  /\ stopped => connection \in Given
  /\ ~ stopped => joins < MaxReconnects
  /\ joined => connection \notin {"connecting", "reconnecting"}

\* The page awaits one answer, which is either being worked at or on its way.
Replies ==
  /\ \A w \in work : w.awaited =>
        /\ w.op = awaiting
        /\ \A i \in 1 .. Len(inbox) : inbox[i].kind \notin JoinReplies \cup SyncReplies
  /\ \A v, w \in work : v.awaited /\ w.awaited => v = w
  /\ \A i \in 1 .. Len(inbox) : /\ inbox[i].kind \in JoinReplies => awaiting = "join"
                                /\ inbox[i].kind \in SyncReplies => awaiting = "sync"
  /\ \A i, j \in 1 .. Len(inbox) :
        {inbox[i].kind, inbox[j].kind} \subseteq JoinReplies \cup SyncReplies => i = j

\* A socket the server closes has been told why, unless it flooded; nothing
\* follows on it.
Goodbye ==
  /\ Closing => work = {} /\ ~ room
  /\ \A i \in 1 .. Len(inbox) : inbox[i].kind = "closed" =>
        /\ i = Len(inbox)
        /\ \/ flooded
           \/ connection = "replaced" /\ i = 1
           \/ i > 1 /\ inbox[i - 1].kind \in {"removed", "replaced"}

\* A page that joined is in the room, and only there it is sent snapshots.
Inside == ~ Closing /\ (joined \/ \E i \in 1 .. Len(inbox) : inbox[i].kind \in Snapshots) => room

\* What was not sent yet of the session since the state n.
Announces(n) == \A change \in (n + 1) .. state : change \in announcing

\* What the page will show last lacks only changes still to be announced.
Current ==
  ~ missed =>
     /\ \A w \in work : w.at = "read" => Announces(w.reads)
     /\ room => \A i \in 1 .. Len(inbox) :
           /\ inbox[i].kind \in Snapshots
           /\ \A j \in (i + 1) .. Len(inbox) : inbox[j].kind \notin Snapshots
           => Announces(inbox[i].reads)
     /\ room /\ joined /\ (\A i \in 1 .. Len(inbox) : inbox[i].kind \notin Snapshots) => Announces(shown)

Calls == TypeOK /\ Messages /\ Timers /\ Replies /\ Goodbye /\ Inside

-----------------------------------------------------------------------------
(* Sequences, position by position.                                         *)

LEMMA Appended ==
  ASSUME NEW S, NEW s \in Seq(S), NEW m \in S
  PROVE  /\ Append(s, m) \in Seq(S) /\ Len(Append(s, m)) = Len(s) + 1
         /\ \A i \in 1 .. Len(s) : Append(s, m)[i] = s[i]
         /\ Append(s, m)[Len(s) + 1] = m
  OBVIOUS

LEMMA Tailed ==
  ASSUME NEW S, NEW s \in Seq(S), s # <<>>
  PROVE  /\ Tail(s) \in Seq(S) /\ Len(s) \in Nat \ {0} /\ Len(Tail(s)) = Len(s) - 1
         /\ \A i \in 1 .. Len(s) - 1 : Tail(s)[i] = s[i + 1]
         /\ Head(s) = s[1] /\ s[1] \in S
  OBVIOUS

LEMMA Empty ==
  \A S : \A s \in Seq(S) : Len(s) = 0 => s = <<>>
  OBVIOUS

LEMMA Closed ==
  ASSUME NEW S, NEW s \in Seq(S), NEW m \in S
  PROVE  /\ s \o (<<>> \o <<m>>) = Append(s, m)
         /\ \A n \in S : s \o (<<n>> \o <<m>>) = Append(Append(s, n), m)
  OBVIOUS

LEMMA ClosingParts ==
  ASSUME Messages
  PROVE  Closing <=> \E i \in 1 .. Len(inbox) : inbox[i].kind = "closed"
  BY DEF Messages, Closing

LEMMA MessageParts ==
  /\ \A kind, n : Message(kind, n).kind = kind /\ Message(kind, n).reads = n
  /\ \A kind \in JoinReplies \cup SyncReplies \cup {"snapshot", "removed", "replaced", "closed"}, n \in Nat :
        Message(kind, n) \in MessageType
  BY DEF Message, MessageType

LEMMA CallParts ==
  \A op \in {"join", "sync"} : /\ Call(op) \in WorkType /\ Call(op).op = op /\ Call(op).at = "called"
                               /\ Call(op).awaited /\ Call(op).reads = 0
  BY DEF Call, WorkType

\* The steps of the specification, one by one.
LEMMA Steps ==
  ASSUME [Next]_vars
  PROVE  \/ Open \/ OpenFails \/ Connect \/ TicketRefused \/ HandshakeRefused
         \/ HandshakeTimer \/ Drop \/ Reconnect
         \/ JoinTimer \/ Resync \/ JoinTimesOut \/ CallTimesOut
         \/ Change \/ Remove \/ Replace \/ Flood
         \/ \E change \in announcing : Broadcast(change) \/ BroadcastFails(change)
         \/ \E w \in work : Read(w) \/ Answer(w) \/ Refuse(w)
         \/ ReceiveSnapshot \/ ReceiveSyncError \/ ReceiveJoined \/ ReceiveBusy
         \/ ReceiveIgnored \/ ReceiveRefusal \/ ReceiveReplaced \/ ReceiveClosed
         \/ UNCHANGED vars
  BY DEF Next, Connecting, Calling, Serving, Receiving

-----------------------------------------------------------------------------
(* What is on its way keeps its type, and is never ahead of the session.    *)

\* The ways the server's calls and the messages change.
Still == UNCHANGED <<work, inbox>>
Cleared == work' = {} /\ inbox' = <<>>
Taken == work' = work /\ inbox # <<>> /\ inbox' = Tail(inbox)
Asked(op) == inbox' = inbox /\ (work' = work \/ work' = work \cup {Call(op)})

LEMMA AbandonedParts ==
  ASSUME Messages
  PROVE  /\ Abandoned \in SUBSET WorkType
         /\ \A v \in Abandoned : /\ ~ v.awaited
                                 /\ \E w \in work : v.op = w.op /\ v.at = w.at /\ v.reads = w.reads
  BY DEF Abandoned, Messages, WorkType

LEMMA JoinFailedParts ==
  ASSUME TypeOK, Timers, JoinFailed
  PROVE  /\ ~ stopped /\ awaiting' = "none" /\ joins' = joins + 1 /\ joins' \in 0 .. MaxReconnects
         /\ \/ /\ joins + 1 >= MaxReconnects
               /\ stopped' = TRUE /\ joined' = FALSE /\ timer' = "none" /\ link' = "down"
               /\ Cleared /\ room' = FALSE
               /\ connection' \in {"replaced", "failed"}
            \/ /\ ~ (joins + 1 >= MaxReconnects) /\ joins' < MaxReconnects
               /\ timer' = "join" /\ work' = Abandoned
               /\ connection' \in {"connecting", "reconnecting"}
               /\ UNCHANGED <<stopped, joined, link, room>>
  BY ClientAssumption DEF JoinFailed, ShowFailed, Cleared, Forget, TypeOK, Timers

LEMMA ReadParts ==
  ASSUME Messages, TypeOK, NEW w \in work, Read(w)
  PROVE  \E v \in WorkType : /\ v.op = w.op /\ v.at = "read" /\ v.reads = state /\ v.awaited = w.awaited
                             /\ work' = (work \ {w}) \cup {v}
<1> DEFINE v == [w EXCEPT !.at = "read", !.reads = state]
<1>1. w \in WorkType /\ state \in Nat
  BY DEF Messages, TypeOK
<1>2. v \in WorkType /\ v.op = w.op /\ v.at = "read" /\ v.reads = state /\ v.awaited = w.awaited
  BY <1>1 DEF WorkType
<1>3. work' = (work \ {w}) \cup {v}
  BY DEF Read
<1> QED
  BY <1>2, <1>3

\* Messages go on holding as the state grows, whatever of them is left.
LEMMA StillMessages ==
  ASSUME Messages, TypeOK, state' \in Nat, state' >= state, Still
  PROVE  Messages'
<1>1. \A i \in 1 .. Len(inbox) : inbox[i].reads \in Nat /\ inbox[i].reads <= state
  <2>1. \A i \in 1 .. Len(inbox) : inbox[i] \in MessageType
    BY DEF Messages
  <2> QED
    BY <2>1 DEF Messages, MessageType
<1> QED
  BY <1>1 DEF Messages, TypeOK, Still

LEMMA ClearedMessages ==
  ASSUME Cleared
  PROVE  Messages'
  BY DEF Messages, Cleared

LEMMA TakenMessages ==
  ASSUME Messages, TypeOK, state' = state, Taken
  PROVE  Messages'
<1>1. /\ inbox' \in Seq(MessageType) /\ Len(inbox') = Len(inbox) - 1 /\ Len(inbox) \in Nat \ {0}
      /\ \A i \in 1 .. Len(inbox) - 1 : inbox'[i] = inbox[i + 1]
  BY Tailed DEF Messages, Taken
<1>2. \A i \in 1 .. Len(inbox') : inbox'[i].reads <= state
  BY <1>1 DEF Messages
<1> QED
  BY <1>1, <1>2 DEF Messages, Taken

LEMMA AskedMessages ==
  ASSUME Messages, state' = state, NEW op \in {"join", "sync"}, Asked(op)
  PROVE  Messages'
  BY CallParts DEF Messages, Asked

\* A message is added, which was read by now.
LEMMA SentMessages ==
  ASSUME Messages, TypeOK, state' = state, work' \subseteq work, NEW m \in MessageType, m.reads <= state,
         inbox' = Append(inbox, m)
  PROVE  Messages'
<1>1. /\ inbox' \in Seq(MessageType) /\ Len(inbox') = Len(inbox) + 1 /\ inbox'[Len(inbox) + 1] = m
      /\ \A i \in 1 .. Len(inbox) : inbox'[i] = inbox[i]
  BY Appended DEF Messages
<1>2. Len(inbox) \in Nat
  BY DEF Messages
<1>3. \A i \in 1 .. Len(inbox') : inbox'[i].reads <= state
  BY <1>1, <1>2 DEF Messages
<1> QED
  BY <1>1, <1>3 DEF Messages

LEMMA Positions ==
  ASSUME NEW n \in Nat, NEW k \in {0, 1}, NEW i \in 1 .. (n + k + 1)
  PROVE  i \in 1 .. n \/ i = n + k + 1 \/ (k = 1 /\ i = n + 1)
  OBVIOUS

\* The messages after which the server closes the socket.
LEMMA CloseParts ==
  ASSUME Messages, NEW messages, messages = <<>> \/ \E m \in MessageType : messages = <<m>>,
         CloseAfter(messages)
  PROVE  /\ link = "up" /\ ~ Closing /\ work' = {} /\ room' = FALSE
         /\ inbox' \in Seq(MessageType) /\ Len(inbox) \in Nat
         /\ Len(inbox') = Len(inbox) + Len(messages) + 1 /\ Len(messages) \in {0, 1}
         /\ inbox'[Len(inbox')] = Message("closed", 0)
         /\ \A i \in 1 .. Len(inbox) : inbox'[i] = inbox[i]
         /\ Len(messages) = 1 => inbox'[Len(inbox) + 1] = messages[1]
<1> DEFINE c == Message("closed", 0)
<1>1. c \in MessageType /\ inbox \in Seq(MessageType) /\ Len(inbox) \in Nat
  BY DEF Messages, Message, MessageType
<1>2. inbox' = inbox \o (messages \o <<c>>) /\ link = "up" /\ ~ Closing /\ work' = {} /\ room' = FALSE
  BY DEF CloseAfter, Send, Forget
<1> HIDE DEF c
<1>3. CASE messages = <<>>
  <2>1. inbox' = Append(inbox, c)
    BY <1>1, <1>2, <1>3, Closed
  <2> QED
    BY <1>1, <1>2, <1>3, <2>1, Appended DEF c
<1>4. ASSUME NEW m \in MessageType, messages = <<m>>
      PROVE  /\ inbox' \in Seq(MessageType) /\ Len(inbox') = Len(inbox) + 2
             /\ inbox'[Len(inbox) + 2] = c /\ inbox'[Len(inbox) + 1] = m
             /\ \A i \in 1 .. Len(inbox) : inbox'[i] = inbox[i]
  <2> DEFINE told == Append(inbox, m)
  <2>1. inbox' = Append(told, c)
    BY <1>1, <1>2, <1>4, Closed
  <2>2. /\ told \in Seq(MessageType) /\ Len(told) = Len(inbox) + 1 /\ told[Len(inbox) + 1] = m
        /\ \A i \in 1 .. Len(inbox) : told[i] = inbox[i]
    BY <1>1, Appended
  <2> HIDE DEF told
  <2> QED
    BY <1>1, <2>1, <2>2, Appended
<1>5. CASE messages # <<>>
  <2>1. PICK m \in MessageType : messages = <<m>>
    BY <1>5
  <2> QED
    BY <1>1, <1>2, <1>4, <2>1 DEF c
<1> QED
  BY <1>3, <1>5

LEMMA ClosedMessages ==
  ASSUME Messages, TypeOK, state' = state,
         NEW messages, messages = <<>> \/ \E m \in MessageType : messages = <<m>> /\ m.reads = 0,
         CloseAfter(messages)
  PROVE  Messages'
<1>1. /\ work' = {} /\ inbox' \in Seq(MessageType) /\ Len(inbox) \in Nat /\ Len(messages) \in {0, 1}
      /\ Len(inbox') = Len(inbox) + Len(messages) + 1 /\ inbox'[Len(inbox')] = Message("closed", 0)
      /\ \A i \in 1 .. Len(inbox) : inbox'[i] = inbox[i]
      /\ Len(messages) = 1 => inbox'[Len(inbox) + 1] = messages[1]
  BY CloseParts
<1>2. Len(messages) = 1 => messages[1].reads = 0
  OBVIOUS
<1>3. \A i \in 1 .. Len(inbox') : inbox'[i].reads <= state
  <2>1. Message("closed", 0).reads = 0 /\ 0 <= state
    BY MessageParts DEF TypeOK
  <2>2. \A i \in 1 .. Len(inbox) : inbox'[i].reads <= state
    BY <1>1 DEF Messages
  <2>3. inbox'[Len(inbox')].reads <= state
    BY <1>1, <2>1
  <2>4. Len(messages) = 1 => inbox'[Len(inbox) + 1].reads <= state
    BY <1>1, <1>2, <2>1
  <2> SUFFICES ASSUME NEW i \in 1 .. Len(inbox') PROVE inbox'[i].reads <= state
    OBVIOUS
  <2>5. \/ i \in 1 .. Len(inbox) \/ i = Len(inbox')
        \/ Len(messages) = 1 /\ i = Len(inbox) + 1
    BY <1>1, Positions
  <2> QED
    BY <2>2, <2>3, <2>4, <2>5
<1> QED
  BY <1>1, <1>3 DEF Messages

LEMMA NextMessages == TypeOK /\ Messages /\ Timers /\ [Next]_vars => Messages'
<1> SUFFICES ASSUME TypeOK, Messages, Timers, [Next]_vars PROVE Messages'
  OBVIOUS
<1>0. state \in Nat
  BY DEF TypeOK
<1>1. ASSUME \/ Open \/ OpenFails \/ TicketRefused \/ HandshakeRefused \/ HandshakeTimer
             \/ UNCHANGED vars
      PROVE Messages'
  BY <1>0, <1>1, StillMessages
     DEF Open, OpenFails, TicketRefused, HandshakeRefused, HandshakeTimer, vars, server, session, Still
<1>2. ASSUME Drop \/ Reconnect \/ ReceiveRefusal PROVE Messages'
  BY <1>2, ClearedMessages DEF Drop, Reconnect, ReceiveRefusal, Forget, Cleared
<1>3. CASE Connect
  BY <1>3, CallParts DEF Connect, session, Messages
<1>4. ASSUME JoinTimer \/ Resync PROVE Messages'
  BY <1>4, AskedMessages DEF JoinTimer, Resync, Ask, Asked, session
<1>5. CASE CallTimesOut
  BY <1>5, AbandonedParts DEF CallTimesOut, session, Messages
<1>6. ASSUME JoinTimesOut PROVE Messages'
  <2>1. state' = state /\ JoinFailed /\ (~ (joins + 1 >= MaxReconnects) => inbox' = inbox)
    BY <1>6 DEF JoinTimesOut, session
  <2>2. Cleared \/ (work' \in SUBSET WorkType /\ inbox' = inbox)
    BY <2>1, JoinFailedParts, AbandonedParts
  <2> QED
    BY <2>1, <2>2, ClearedMessages DEF Messages
<1>7. CASE Change
  BY <1>0, <1>7, StillMessages DEF Change, server, Still
<1>8. CASE Remove
  BY <1>8, ClosedMessages, MessageParts DEF Remove, session
<1>9. CASE Replace
  BY <1>9, ClosedMessages, MessageParts DEF Replace, session
<1>10. CASE Flood
  BY <1>10, ClosedMessages DEF Flood, session
<1>11. ASSUME NEW change \in announcing, Broadcast(change) PROVE Messages'
  <2>1. change \in Nat /\ change <= state
    BY DEF TypeOK
  <2>2. Message("snapshot", change) \in MessageType /\ Message("snapshot", change).reads <= state
    BY <2>1, MessageParts
  <2>3. state' = state /\ work' = work
        /\ (inbox' = inbox \/ inbox' = Append(inbox, Message("snapshot", change)))
    BY <1>11 DEF Broadcast, server
  <2> QED
    BY <1>0, <2>2, <2>3, StillMessages, SentMessages DEF Still
<1>12. ASSUME NEW change \in announcing, BroadcastFails(change) PROVE Messages'
  BY <1>0, <1>12, StillMessages DEF BroadcastFails, server, Still
<1>13. ASSUME NEW w \in work, Read(w) PROVE Messages'
  <2>1. PICK v \in WorkType : work' = (work \ {w}) \cup {v}
    BY <1>13, ReadParts
  <2> QED
    BY <1>13, <2>1 DEF Read, session, Messages
<1>14. ASSUME NEW w \in work, Answer(w) PROVE Messages'
  <2>1. w.op \in {"join", "sync"} /\ w.reads \in Nat /\ w.reads <= state
    BY DEF TypeOK
  <2>2. Message(w.op, w.reads) \in MessageType /\ Message(w.op, w.reads).reads <= state
    BY <2>1, MessageParts DEF JoinReplies, SyncReplies
  <2>3. state' = state /\ work' \subseteq work /\ (inbox' = inbox \/ inbox' = Append(inbox, Message(w.op, w.reads)))
    BY <1>14 DEF Answer, session
  <2> QED
    BY <2>2, <2>3, SentMessages DEF Messages
<1>15. ASSUME NEW w \in work, Refuse(w) PROVE Messages'
  <2>1. PICK kind \in {"refusal", "busy", "error"} :
           state' = state /\ work' \subseteq work /\ (inbox' = inbox \/ inbox' = Append(inbox, Message(kind, 0)))
    BY <1>15 DEF Refuse, session
  <2>2. Message(kind, 0) \in MessageType /\ Message(kind, 0).reads <= state
    BY <1>0, MessageParts DEF JoinReplies, SyncReplies
  <2> QED
    BY <2>1, <2>2, SentMessages DEF Messages
<1>16. ASSUME \/ ReceiveSnapshot \/ ReceiveSyncError \/ ReceiveJoined \/ ReceiveIgnored
              \/ ReceiveReplaced \/ ReceiveClosed
       PROVE Messages'
  BY <1>16, TakenMessages
     DEF ReceiveSnapshot, ReceiveSyncError, ReceiveJoined, ReceiveIgnored, ReceiveReplaced,
         ReceiveClosed, Receive, Taken, session, server
<1>17. ASSUME ReceiveBusy PROVE Messages'
  <2>1. state' = state /\ JoinFailed /\ inbox # <<>> /\ (~ (joins + 1 >= MaxReconnects) => inbox' = Tail(inbox))
    BY <1>17 DEF ReceiveBusy, session
  <2>2. Cleared \/ (work' \in SUBSET WorkType /\ inbox' = Tail(inbox))
    BY <2>1, JoinFailedParts, AbandonedParts
  <2>3. ASSUME inbox' = Tail(inbox)
        PROVE  /\ inbox' \in Seq(MessageType)
               /\ \A i \in 1 .. Len(inbox') : inbox'[i].reads <= state
    BY <2>1, <2>3, Tailed DEF Messages
  <2> QED
    BY <2>1, <2>2, <2>3, ClearedMessages DEF Messages
<1> QED
  BY <1>1, <1>2, <1>3, <1>4, <1>5, <1>6, <1>7, <1>8, <1>9, <1>10, <1>11, <1>12, <1>13, <1>14,
     <1>15, <1>16, <1>17, Steps

-----------------------------------------------------------------------------
(* Types, and what happens only on an open socket.                          *)

\* TypeOK, one variable at a time.
Types ==
  /\ connection \in {"connecting", "connected", "reconnecting", "replaced", "failed"}
  /\ refused \in BOOLEAN /\ stopped \in BOOLEAN /\ joined \in BOOLEAN /\ room \in BOOLEAN
  /\ flooded \in BOOLEAN /\ missed \in BOOLEAN
  /\ link \in {"opening", "handshake", "ticketless", "up", "down"}
  /\ attempts \in 0 .. MaxReconnects /\ handshakes \in 0 .. MaxReconnects /\ joins \in 0 .. MaxReconnects
  /\ timer \in {"none", "handshake", "join"}
  /\ awaiting \in {"none", "join", "sync"}
  /\ shown \in 0 .. state /\ state \in 0 .. MaxChanges
  /\ \A change \in announcing : change \in 1 .. state
  /\ \A w \in work : w.op \in {"join", "sync"} /\ w.reads \in 0 .. state
  /\ link # "up" => ~ joined /\ ~ room /\ work = {} /\ inbox = <<>> /\ awaiting = "none"

LEMMA TypeParts == TypeOK <=> Types
  BY DEF TypeOK, Types

LEMMA TypePartsPrime == Types' => TypeOK'
  BY DEF TypeOK, Types

LEMMA NextTypes == TypeOK /\ Messages /\ Timers /\ Goodbye /\ [Next]_vars => TypeOK'
<1> SUFFICES ASSUME Types, TypeOK, Messages, Timers, Goodbye, [Next]_vars PROVE Types'
  BY TypeParts, TypePartsPrime
<1>0. MaxReconnects \in Nat \ {0} /\ 0 \in 0 .. MaxReconnects /\ state \in Nat /\ 0 \in 0 .. state
  BY ClientAssumption DEF Types
<1> USE <1>0, ClientAssumption
<1>1. ASSUME Open \/ OpenFails PROVE Types'
  BY <1>1 DEF Open, OpenFails, Show, Types, server, session
<1>2. CASE Connect
  <2>1. \A w \in work' : w.op \in {"join", "sync"} /\ w.reads \in 0 .. state
    BY <1>2, CallParts DEF Connect
  <2> QED
    BY <1>2, <2>1 DEF Connect, Types, session
<1>3. CASE TicketRefused
  BY <1>3 DEF TicketRefused, Types, session, server
<1>4. CASE HandshakeRefused
  BY <1>4 DEF HandshakeRefused, Show, ShowFailed, Types, session, server
<1>5. CASE HandshakeTimer
  BY <1>5 DEF HandshakeTimer, Timers, Types, session, server
<1>6. CASE Drop
  <2>1. attempts' \in 0 .. MaxReconnects
    BY <1>6 DEF Drop
  <2>2. connection' \in {connection, "reconnecting"}
    BY <1>6 DEF Drop, Show
  <2> QED
    BY <1>6, <2>1, <2>2 DEF Drop, Forget, Types, session
<1>7. CASE Reconnect
  BY <1>7 DEF Reconnect, Forget, Types, session
<1>8. CASE JoinTimer
  BY <1>8, CallParts DEF JoinTimer, Ask, Timers, Types, session
<1>9. CASE Resync
  BY <1>9, CallParts DEF Resync, Ask, Types, session
<1>10. \A v \in Abandoned : v.op \in {"join", "sync"} /\ v.reads \in 0 .. state
  BY AbandonedParts DEF Types
<1>11. ASSUME JoinFailed, inbox # <<>> \/ work # {}, link = "up",
              UNCHANGED <<refused, attempts, handshakes, shown, session, flooded, missed>>
       PROVE Types'
  <2>1. CASE joins + 1 >= MaxReconnects
    <3>1. /\ stopped' = TRUE /\ joined' = FALSE /\ timer' = "none" /\ link' = "down" /\ work' = {}
          /\ inbox' = <<>> /\ room' = FALSE /\ connection' \in {"replaced", "failed"}
          /\ awaiting' = "none" /\ joins' \in 0 .. MaxReconnects
      BY <1>11, <2>1, JoinFailedParts DEF Cleared
    <3> QED
      BY <1>11, <3>1 DEF Types, session
  <2>2. CASE ~ (joins + 1 >= MaxReconnects)
    <3>1. /\ timer' = "join" /\ work' = Abandoned /\ connection' \in {"connecting", "reconnecting"}
          /\ UNCHANGED <<stopped, joined, link, room>>
          /\ awaiting' = "none" /\ joins' \in 0 .. MaxReconnects
      BY <1>11, <2>2, JoinFailedParts
    <3> QED
      BY <1>10, <1>11, <3>1 DEF Types, session
  <2> QED
    BY <2>1, <2>2
<1>12. CASE JoinTimesOut
  BY <1>11, <1>12 DEF JoinTimesOut, Types
<1>13. CASE CallTimesOut
  BY <1>10, <1>13 DEF CallTimesOut, Types, session
<1>14. CASE Change
  BY <1>14 DEF Change, Types, page, server
<1>15. ASSUME NEW messages, CloseAfter(messages), UNCHANGED <<page, link, session, missed>>,
              flooded' \in BOOLEAN
       PROVE Types'
  BY <1>15 DEF CloseAfter, Forget, Types, page, session
<1>16. ASSUME Remove \/ Replace \/ Flood PROVE Types'
  BY <1>15, <1>16 DEF Remove, Replace, Flood, Types
<1>17. ASSUME NEW change \in announcing, Broadcast(change) PROVE Types'
  <2>1. missed' \in BOOLEAN
    BY <1>17 DEF Broadcast, Types
  <2> QED
    BY <1>17, <2>1 DEF Broadcast, Types, page, server
<1>18. ASSUME NEW change \in announcing, BroadcastFails(change) PROVE Types'
  BY <1>18 DEF BroadcastFails, Types, page, server
<1>19. ASSUME NEW w \in work, Read(w) PROVE Types'
  <2>1. PICK v \in WorkType : v.op = w.op /\ v.reads = state /\ work' = (work \ {w}) \cup {v}
    BY <1>19, ReadParts
  <2> QED
    BY <1>19, <2>1 DEF Read, Types, page, session
<1>20. ASSUME NEW w \in work, Answer(w) \/ Refuse(w) PROVE Types'
  <2>1. /\ work' \subseteq work /\ room' \in BOOLEAN /\ UNCHANGED <<page, link, session, flooded, missed>>
    BY <1>20 DEF Answer, Refuse, Types
  <2>2. link = "up"
    BY DEF Types
  <2> QED
    BY <2>1, <2>2 DEF Types, page, session
<1>21. inbox # <<>> => inbox[1].reads \in 0 .. state /\ Head(inbox) = inbox[1]
  <2>1. ASSUME inbox # <<>> PROVE inbox[1] \in MessageType /\ inbox[1].reads <= state /\ Head(inbox) = inbox[1]
    BY <2>1, Tailed DEF Messages
  <2> QED
    BY <2>1 DEF MessageType, Types
<1>22. ASSUME ReceiveSnapshot \/ ReceiveSyncError \/ ReceiveIgnored \/ ReceiveReplaced PROVE Types'
  BY <1>21, <1>22
     DEF ReceiveSnapshot, ReceiveSyncError, ReceiveIgnored, ReceiveReplaced, Receive,
         Types, session, server
<1>27. CASE ReceiveJoined
  BY <1>21, <1>27 DEF ReceiveJoined, Receive, Types, session, server
<1>23. CASE ReceiveBusy
  BY <1>11, <1>23 DEF ReceiveBusy
<1>24. CASE ReceiveRefusal
  BY <1>24 DEF ReceiveRefusal, ShowFailed, Forget, Types, session
<1>26. CASE ReceiveClosed
  <2>1. inbox[1].kind = "closed" /\ 1 \in 1 .. Len(inbox) /\ Len(inbox) \in Nat \ {0}
        /\ inbox \in Seq(MessageType) /\ Tail(inbox) \in Seq(MessageType) /\ Len(Tail(inbox)) = Len(inbox) - 1
    BY <1>26, Tailed DEF ReceiveClosed, Receive, Messages
  <2>2. Len(inbox) = 1 /\ Closing
    BY <2>1, ClosingParts DEF Goodbye
  <2>3. Tail(inbox) \in Seq(MessageType) /\ Len(Tail(inbox)) = 0
    BY <2>1, <2>2, Tailed
  <2> QED
    BY <1>26, <2>2, <2>3, Empty DEF ReceiveClosed, Receive, Show, Goodbye, Types, session, server
<1>25. CASE UNCHANGED vars
  BY <1>25 DEF vars, page, session, server, Types
<1> QED
  BY <1>1, <1>2, <1>3, <1>4, <1>5, <1>6, <1>7, <1>8, <1>9, <1>12, <1>13, <1>14, <1>16, <1>17, <1>18,
     <1>19, <1>20, <1>22, <1>23, <1>24, <1>25, <1>26, <1>27, Steps

-----------------------------------------------------------------------------
(* The page's timers, counters and failures fit its connection.             *)

LEMMA NextTimers == TypeOK /\ Messages /\ Timers /\ Replies /\ [Next]_vars => Timers'
<1> SUFFICES ASSUME Types, TypeOK, Messages, Timers, Replies, [Next]_vars PROVE Timers'
  BY TypeParts
<1>0. MaxReconnects \in Nat \ {0} /\ joins \in Nat
  BY ClientAssumption DEF Types
<1> USE <1>0
<1>1. ASSUME Open \/ OpenFails PROVE Timers'
  BY <1>1 DEF Open, OpenFails, Show, Given, Types, Timers
<1>2. CASE Connect
  BY <1>2 DEF Connect, Types, Timers
<1>3. CASE TicketRefused
  BY <1>3 DEF TicketRefused, Given, Types, Timers
<1>4. CASE HandshakeRefused
  BY <1>4 DEF HandshakeRefused, Show, ShowFailed, Given, Types, Timers
<1>5. CASE HandshakeTimer
  BY <1>5 DEF HandshakeTimer, Types, Timers
<1>6. CASE Drop
  BY <1>6 DEF Drop, Show, Given, Types, Timers
<1>7. CASE Reconnect
  BY <1>7 DEF Reconnect, Types, Timers
<1>8. CASE JoinTimer
  BY <1>8 DEF JoinTimer, Ask, Timers
<1>9. CASE Resync
  BY <1>9 DEF Resync, Ask, Timers
<1>10. ASSUME JoinFailed, awaiting = "join" PROVE Timers'
  <2>1. CASE joins + 1 >= MaxReconnects
    <3>1. /\ stopped' = TRUE /\ joined' = FALSE /\ timer' = "none"
          /\ connection' \in {"replaced", "failed"} /\ awaiting' = "none"
      BY <1>10, <2>1, JoinFailedParts
    <3> QED
      BY <3>1 DEF Timers, Given
  <2>2. CASE ~ (joins + 1 >= MaxReconnects)
    <3>1. /\ timer' = "join" /\ UNCHANGED <<stopped, joined, link>> /\ ~ stopped
          /\ awaiting' = "none" /\ joins' < MaxReconnects
      BY <1>10, <2>2, JoinFailedParts
    <3>2. ~ joined /\ link = "up"
      BY <1>10 DEF Timers, Types
    <3> QED
      BY <3>1, <3>2 DEF Timers
  <2> QED
    BY <2>1, <2>2
<1>11. CASE JoinTimesOut
  BY <1>10, <1>11 DEF JoinTimesOut
<1>12. CASE CallTimesOut
  BY <1>12 DEF CallTimesOut, Types, Timers
<1>13. ASSUME UNCHANGED <<page, link>> PROVE Timers'
  BY <1>13 DEF page, Timers
<1>14. ASSUME Change \/ Remove \/ Replace \/ Flood PROVE Timers'
  BY <1>13, <1>14 DEF Change, Remove, Replace, Flood, CloseAfter, page
<1>15. ASSUME NEW change \in announcing, Broadcast(change) \/ BroadcastFails(change) PROVE Timers'
  BY <1>13, <1>15 DEF Broadcast, BroadcastFails
<1>16. ASSUME NEW w \in work, Read(w) \/ Answer(w) \/ Refuse(w) PROVE Timers'
  BY <1>13, <1>16 DEF Read, Answer, Refuse
<1>17. inbox # <<>> => 1 \in 1 .. Len(inbox) /\ Head(inbox) = inbox[1]
  BY Tailed DEF Messages
<1>18. inbox # <<>> /\ Head(inbox).kind \in JoinReplies => awaiting = "join" /\ ~ joined /\ timer = "none"
  BY <1>17 DEF Replies, Timers
<1>19. inbox # <<>> /\ Head(inbox).kind \in SyncReplies => awaiting = "sync" /\ joined
  BY <1>17 DEF Replies, Timers
<1>20. CASE ReceiveSnapshot
  BY <1>20 DEF ReceiveSnapshot, Receive, Types, Timers
<1>21. CASE ReceiveSyncError
  BY <1>19, <1>21 DEF ReceiveSyncError, Receive, SyncReplies, Types, Timers
<1>22. CASE ReceiveJoined
  BY <1>18, <1>22 DEF ReceiveJoined, Receive, JoinReplies, Types, Timers
<1>23. CASE ReceiveBusy
  BY <1>10, <1>18, <1>23 DEF ReceiveBusy, JoinReplies
<1>24. CASE ReceiveIgnored
  BY <1>24 DEF ReceiveIgnored, Types, Timers
<1>25. CASE ReceiveRefusal
  BY <1>25 DEF ReceiveRefusal, ShowFailed, Given, Types, Timers
<1>26. CASE ReceiveReplaced
  BY <1>26 DEF ReceiveReplaced, Given, Types, Timers
<1>27. CASE ReceiveClosed
  BY <1>27 DEF ReceiveClosed, Receive, Show, Given, Types, Timers
<1>28. CASE UNCHANGED vars
  BY <1>13, <1>28 DEF vars
<1> QED
  BY <1>1, <1>2, <1>3, <1>4, <1>5, <1>6, <1>7, <1>8, <1>9, <1>11, <1>12, <1>14, <1>15, <1>16, <1>20,
     <1>21, <1>22, <1>23, <1>24, <1>25, <1>26, <1>27, <1>28, Steps

-----------------------------------------------------------------------------
(* One answer is awaited, and it is at one place.                           *)

AllReplies == JoinReplies \cup SyncReplies

LEMMA Kinds ==
  /\ JoinReplies \cup SyncReplies = AllReplies
  /\ {"join", "refusal", "busy"} \subseteq AllReplies /\ {"sync", "error"} \subseteq AllReplies
  /\ {"join", "refusal", "busy"} \cap SyncReplies = {} /\ {"sync", "error"} \cap JoinReplies = {}
  /\ {"snapshot", "removed", "replaced", "closed"} \cap AllReplies = {}
  BY DEF JoinReplies, SyncReplies, AllReplies

\* Nothing is awaited, or what is awaited is not answered yet.
LEMMA NoReply ==
  ASSUME Types, Messages, Replies
  PROVE  /\ awaiting = "none" => (\A w \in work : ~ w.awaited)
                                 /\ \A i \in 1 .. Len(inbox) : inbox[i].kind \notin AllReplies
         /\ (\E w \in work : w.awaited) => \A i \in 1 .. Len(inbox) : inbox[i].kind \notin AllReplies
<1>1. ASSUME NEW w \in work, w.awaited PROVE awaiting # "none"
  BY <1>1 DEF Types, Replies
<1>2. ASSUME NEW i \in 1 .. Len(inbox), inbox[i].kind \in AllReplies PROVE awaiting # "none"
  BY <1>2, Kinds DEF Replies, AllReplies
<1> QED
  BY <1>1, <1>2, Kinds DEF Replies

LEMMA ClearedReplies ==
  ASSUME Cleared
  PROVE  Replies'
  BY DEF Cleared, Replies

\* Without an answer on its way, nor one that is awaited.
LEMMA NoReplies ==
  ASSUME \A w \in work' : ~ w.awaited,
         \A i \in 1 .. Len(inbox') : inbox'[i].kind \notin AllReplies
  PROVE  Replies'
  BY Kinds DEF Replies, AllReplies

\* What is no answer is added.
LEMMA SentReplies ==
  ASSUME Replies, NEW n \in Nat, Len(inbox) = n, UNCHANGED awaiting, work' \subseteq work, Len(inbox') \in Nat,
         \A i \in 1 .. n : inbox'[i] = inbox[i],
         \A i \in 1 .. Len(inbox') : i \notin 1 .. n => inbox'[i].kind \notin AllReplies
  PROVE  Replies'
<1>1. \A i \in 1 .. Len(inbox') : inbox'[i].kind \in AllReplies => i \in 1 .. n /\ inbox'[i] = inbox[i]
  OBVIOUS
<1> HIDE DEF AllReplies
<1>2. \A i \in 1 .. Len(inbox') : /\ inbox'[i].kind \in JoinReplies => awaiting = "join"
                                  /\ inbox'[i].kind \in SyncReplies => awaiting = "sync"
  BY <1>1, Kinds DEF Replies
<1>3. \A i, j \in 1 .. Len(inbox') : {inbox'[i].kind, inbox'[j].kind} \subseteq AllReplies => i = j
  BY <1>1, Kinds DEF Replies
<1>4. \A w \in work' : w.awaited => w.op = awaiting
                                    /\ \A i \in 1 .. Len(inbox') : inbox'[i].kind \notin AllReplies
  BY <1>1, Kinds DEF Replies
<1>5. \A v, w \in work' : v.awaited /\ w.awaited => v = w
  BY DEF Replies
<1> QED
  BY <1>2, <1>3, <1>4, <1>5, Kinds DEF Replies

\* The first message is taken, and if it is an answer nothing is awaited any more.
LEMMA TakenReplies ==
  ASSUME Messages, Replies, Taken,
         awaiting' = awaiting \/ (awaiting' = "none" /\ inbox[1].kind \in AllReplies)
  PROVE  Replies'
<1>1. /\ Len(inbox) \in Nat \ {0} /\ Len(inbox') = Len(inbox) - 1 /\ work' = work
      /\ \A i \in 1 .. Len(inbox') : inbox'[i] = inbox[i + 1] /\ i + 1 \in 1 .. Len(inbox)
  BY Tailed DEF Messages, Taken
<1>2. CASE inbox[1].kind \in AllReplies
  <2>1. \A i \in 1 .. Len(inbox) : inbox[i].kind \in AllReplies => i = 1
    BY <1>1, <1>2, Kinds DEF Replies
  <2>2. \A w \in work : ~ w.awaited
    BY <1>1, <1>2, Kinds DEF Replies
  <2>3. \A i \in 1 .. Len(inbox') : inbox'[i].kind \notin AllReplies
    BY <1>1, <2>1
  <2> QED
    BY <1>1, <2>2, <2>3, NoReplies
<1>3. CASE inbox[1].kind \notin AllReplies
  <2>1. awaiting' = awaiting
    BY <1>3
  <2>2. \A i \in 1 .. Len(inbox') : /\ inbox'[i].kind \in JoinReplies => awaiting = "join"
                                    /\ inbox'[i].kind \in SyncReplies => awaiting = "sync"
    BY <1>1 DEF Replies
  <2>3. \A i, j \in 1 .. Len(inbox') : {inbox'[i].kind, inbox'[j].kind} \subseteq AllReplies => i = j
    <3> SUFFICES ASSUME NEW i \in 1 .. Len(inbox'), NEW j \in 1 .. Len(inbox'),
                        {inbox'[i].kind, inbox'[j].kind} \subseteq AllReplies
                 PROVE i = j
      OBVIOUS
    <3>1. {inbox[i + 1].kind, inbox[j + 1].kind} \subseteq AllReplies
          /\ i + 1 \in 1 .. Len(inbox) /\ j + 1 \in 1 .. Len(inbox)
      BY <1>1
    <3>2. i + 1 = j + 1
      BY <3>1, Kinds DEF Replies
    <3> QED
      BY <3>2
  <2>4. \A w \in work : w.awaited => w.op = awaiting
                                     /\ \A i \in 1 .. Len(inbox') : inbox'[i].kind \notin AllReplies
    BY <1>1, Kinds DEF Replies
  <2>5. \A v, w \in work : v.awaited /\ w.awaited => v = w
    BY DEF Replies
  <2> QED
    BY <1>1, <2>1, <2>2, <2>3, <2>4, <2>5, Kinds DEF Replies
<1> QED
  BY <1>2, <1>3

\* One call is over: its answer is sent, if it is awaited.
LEMMA AnsweredReplies ==
  ASSUME Types, Messages, Replies, NEW w \in work, work' = work \ {w}, awaiting' = awaiting,
         NEW m \in MessageType, w.op = "join" => m.kind \in JoinReplies, w.op = "sync" => m.kind \in SyncReplies,
         inbox' = IF w.awaited THEN Append(inbox, m) ELSE inbox
  PROVE  Replies'
<1>1. CASE ~ w.awaited
  BY <1>1, SentReplies DEF Messages
<1>2. CASE w.awaited
  <2>1. /\ w.op = awaiting /\ w.op \in {"join", "sync"}
        /\ \A i \in 1 .. Len(inbox) : inbox[i].kind \notin AllReplies
        /\ \A v \in work' : ~ v.awaited
    BY <1>2, Kinds DEF Replies, Types
  <2>2. /\ Len(inbox) \in Nat /\ Len(inbox') = Len(inbox) + 1 /\ inbox'[Len(inbox) + 1] = m
        /\ \A i \in 1 .. Len(inbox) : inbox'[i] = inbox[i]
    BY <1>2, Appended DEF Messages
  <2>3. \A i \in 1 .. Len(inbox') : inbox'[i].kind \in AllReplies => i = Len(inbox') /\ inbox'[i] = m
    BY <2>1, <2>2
  <2>4. JoinReplies \cap SyncReplies = {}
    BY DEF JoinReplies, SyncReplies
  <2>5. \A i \in 1 .. Len(inbox') : /\ inbox'[i].kind \in JoinReplies => awaiting = "join"
                                    /\ inbox'[i].kind \in SyncReplies => awaiting = "sync"
    BY <2>1, <2>3, <2>4, Kinds
  <2>6. \A i, j \in 1 .. Len(inbox') : {inbox'[i].kind, inbox'[j].kind} \subseteq AllReplies => i = j
    BY <2>3
  <2> QED
    BY <2>1, <2>5, <2>6, Kinds DEF Replies
<1> QED
  BY <1>1, <1>2

LEMMA NextReplies == TypeOK /\ Messages /\ Timers /\ Replies /\ Goodbye /\ [Next]_vars => Replies'
<1> SUFFICES ASSUME Types, TypeOK, Messages, Timers, Replies, Goodbye, [Next]_vars PROVE Replies'
  BY TypeParts
<1>1. ASSUME \/ Open \/ OpenFails \/ TicketRefused \/ HandshakeRefused \/ HandshakeTimer
             \/ Change \/ UNCHANGED vars \/ \E change \in announcing : BroadcastFails(change)
      PROVE Replies'
  <2>1. UNCHANGED <<work, inbox, awaiting>>
    BY <1>1 DEF Open, OpenFails, TicketRefused, HandshakeRefused, HandshakeTimer, Change,
                BroadcastFails, vars, server, page
  <2> QED
    BY <2>1 DEF Replies
<1>2. ASSUME Drop \/ Reconnect \/ ReceiveRefusal PROVE Replies'
  BY <1>2, ClearedReplies DEF Drop, Reconnect, ReceiveRefusal, Forget, Cleared
<1>3. CASE Connect
  <2>1. inbox' = <<>> /\ work' = {Call("join")} /\ awaiting' = "join"
    BY <1>3 DEF Connect, Types
  <2> QED
    BY <2>1, CallParts DEF Replies
<1>4. ASSUME NEW op \in {"join", "sync"}, awaiting = "none", Ask(op), inbox' = inbox PROVE Replies'
  <2>1. /\ \A w \in work : ~ w.awaited
        /\ \A i \in 1 .. Len(inbox) : inbox[i].kind \notin AllReplies
    BY <1>4, NoReply
  <2>2. \A w \in work' : w.awaited => w = Call(op)
    BY <1>4, <2>1 DEF Ask
  <2> QED
    BY <1>4, <2>1, <2>2, CallParts, Kinds DEF Replies, Ask
<1>5. ASSUME JoinTimer \/ Resync PROVE Replies'
  BY <1>4, <1>5 DEF JoinTimer, Resync, Timers
<1>6. ASSUME \E w \in work : w.awaited, work' = Abandoned, inbox' = inbox PROVE Replies'
  BY <1>6, NoReply, NoReplies, AbandonedParts
<1>7. CASE CallTimesOut
  BY <1>6, <1>7 DEF CallTimesOut
<1>8. CASE JoinTimesOut
  <2>1. Cleared \/ (work' = Abandoned /\ inbox' = inbox)
    BY <1>8, JoinFailedParts DEF JoinTimesOut
  <2> QED
    BY <1>6, <1>8, <2>1, ClearedReplies DEF JoinTimesOut
<1>9. ASSUME NEW messages, CloseAfter(messages), UNCHANGED awaiting,
             messages = <<>> \/ \E m \in MessageType : messages = <<m>> /\ m.kind \notin AllReplies
      PROVE Replies'
  <2>1. /\ work' = {} /\ Len(inbox) \in Nat /\ Len(messages) \in {0, 1}
        /\ Len(inbox') = Len(inbox) + Len(messages) + 1 /\ inbox'[Len(inbox')] = Message("closed", 0)
        /\ \A i \in 1 .. Len(inbox) : inbox'[i] = inbox[i]
        /\ Len(messages) = 1 => inbox'[Len(inbox) + 1] = messages[1]
    BY <1>9, CloseParts
  <2>2. Len(messages) = 1 => messages[1].kind \notin AllReplies
    BY <1>9
  <2>3. \A i \in 1 .. Len(inbox') : i \notin 1 .. Len(inbox) => inbox'[i].kind \notin AllReplies
    <3>1. Message("closed", 0).kind \notin AllReplies
      BY MessageParts, Kinds
    <3>2. \A i \in 1 .. Len(inbox') : i \in 1 .. Len(inbox) \/ i = Len(inbox')
                                     \/ (Len(messages) = 1 /\ i = Len(inbox) + 1)
      BY <2>1, Positions
    <3> QED
      BY <2>1, <2>2, <3>1, <3>2
  <2> QED
    BY <1>9, <2>1, <2>3, SentReplies
<1>10. ASSUME NEW kind \in {"removed", "replaced"}
       PROVE Message(kind, 0) \in MessageType /\ Message(kind, 0).kind \notin AllReplies
  BY MessageParts, Kinds
<1>11. ASSUME Remove \/ Replace PROVE Replies'
  BY <1>9, <1>10, <1>11 DEF Remove, Replace, page
<1>12. CASE Flood
  BY <1>9, <1>12 DEF Flood, page
<1>13. ASSUME NEW change \in announcing, Broadcast(change) PROVE Replies'
  <2>1. Message("snapshot", change) \in MessageType /\ Message("snapshot", change).kind \notin AllReplies
    BY MessageParts, Kinds DEF Types
  <2>2. work' = work /\ awaiting' = awaiting
        /\ (inbox' = inbox \/ inbox' = Append(inbox, Message("snapshot", change)))
    BY <1>13 DEF Broadcast, server, page
  <2>3. CASE inbox' = inbox
    BY <2>2, <2>3 DEF Replies
  <2>4. CASE inbox' = Append(inbox, Message("snapshot", change))
    <3>1. /\ Len(inbox) \in Nat /\ Len(inbox') = Len(inbox) + 1
          /\ inbox'[Len(inbox) + 1] = Message("snapshot", change)
          /\ \A i \in 1 .. Len(inbox) : inbox'[i] = inbox[i]
      BY <2>1, <2>4, Appended DEF Messages
    <3> QED
      BY <2>1, <2>2, <3>1, SentReplies
  <2> QED
    BY <2>2, <2>3, <2>4
<1>14. ASSUME NEW w \in work, Read(w) PROVE Replies'
  <2>1. PICK v \in WorkType : /\ v.op = w.op /\ v.awaited = w.awaited
                              /\ work' = (work \ {w}) \cup {v}
    BY <1>14, ReadParts
  <2>2. UNCHANGED <<inbox, awaiting>>
    BY <1>14 DEF Read, page
  <2> QED
    BY <2>1, <2>2 DEF Replies
<1>15. ASSUME NEW w \in work, Answer(w) PROVE Replies'
  <2>1. /\ w.op = "join" => Message(w.op, w.reads).kind \in JoinReplies
        /\ w.op = "sync" => Message(w.op, w.reads).kind \in SyncReplies
        /\ Message(w.op, w.reads) \in MessageType
    BY MessageParts DEF JoinReplies, SyncReplies, Types
  <2> QED
    BY <1>15, <2>1, AnsweredReplies DEF Answer, page
<1>16. ASSUME NEW w \in work, Refuse(w) PROVE Replies'
  <2>1. PICK kind \in IF w.op = "join" THEN {"refusal", "busy"} ELSE {"error"} :
           inbox' = IF w.awaited THEN Append(inbox, Message(kind, 0)) ELSE inbox
    BY <1>16 DEF Refuse
  <2>2. /\ w.op = "join" => Message(kind, 0).kind \in JoinReplies
        /\ w.op = "sync" => Message(kind, 0).kind \in SyncReplies
        /\ Message(kind, 0) \in MessageType
    BY MessageParts DEF JoinReplies, SyncReplies
  <2> QED
    BY <1>16, <2>1, <2>2, AnsweredReplies DEF Refuse, page
<1>17. inbox # <<>> => 1 \in 1 .. Len(inbox) /\ Head(inbox) = inbox[1]
  BY Tailed DEF Messages
<1>18. ASSUME ReceiveSnapshot \/ ReceiveSyncError \/ ReceiveJoined \/ ReceiveIgnored \/ ReceiveReplaced
       PROVE Replies'
  <2>1. Taken /\ (awaiting' = awaiting \/ (awaiting' = "none" /\ inbox[1].kind \in AllReplies))
    BY <1>17, <1>18, Kinds
       DEF ReceiveSnapshot, ReceiveSyncError, ReceiveJoined, ReceiveIgnored, ReceiveReplaced, Receive,
           Taken, server
  <2> QED
    BY <2>1, TakenReplies
<1>19. CASE ReceiveBusy
  <2>1. inbox # <<>> /\ inbox[1].kind = "busy" /\ 1 \in 1 .. Len(inbox) /\ JoinFailed
    BY <1>17, <1>19 DEF ReceiveBusy
  <2>2. CASE joins + 1 >= MaxReconnects
    BY <2>1, <2>2, JoinFailedParts, ClearedReplies
  <2>3. CASE ~ (joins + 1 >= MaxReconnects)
    <3>1. work' = Abandoned /\ inbox' = Tail(inbox)
      BY <1>19, <2>1, <2>3, JoinFailedParts DEF ReceiveBusy
    <3>2. \A i \in 1 .. Len(inbox) : inbox[i].kind \in AllReplies => i = 1
      BY <2>1, Kinds DEF Replies
    <3>3. \A i \in 1 .. Len(inbox') : inbox'[i].kind \notin AllReplies
      <4>1. \A i \in 1 .. Len(inbox') : inbox'[i] = inbox[i + 1] /\ i + 1 \in 1 .. Len(inbox) /\ i + 1 # 1
        BY <2>1, <3>1, Tailed DEF Messages
      <4> QED
        BY <3>2, <4>1
    <3> QED
      BY <3>1, <3>3, AbandonedParts, NoReplies
  <2> QED
    BY <2>2, <2>3
<1>20. CASE ReceiveClosed
  <2>1. /\ inbox # <<>> /\ inbox[1].kind = "closed" /\ 1 \in 1 .. Len(inbox) /\ work' = work
        /\ inbox' = Tail(inbox)
    BY <1>17, <1>20 DEF ReceiveClosed, Receive, server
  <2>2. Len(inbox) = 1 /\ work = {}
    BY <2>1, ClosingParts DEF Goodbye
  <2>3. 1 .. Len(inbox') = {}
    BY <2>1, <2>2, Tailed DEF Messages
  <2> QED
    BY <2>1, <2>2, <2>3, NoReplies
<1> QED
  BY <1>1, <1>2, <1>3, <1>5, <1>7, <1>8, <1>11, <1>12, <1>13, <1>14, <1>15, <1>16, <1>18,
     <1>19, <1>20, Steps

-----------------------------------------------------------------------------
(* What comes before the close of a socket, and who is in the room.         *)

LEMMA ClosingPartsPrime ==
  ASSUME Messages'
  PROVE  Closing' <=> \E i \in 1 .. Len(inbox') : inbox'[i].kind = "closed"
  BY DEF Messages, Closing

\* Nothing of it changes but what the page shows.
LEMMA SameGoodbye ==
  ASSUME Goodbye, UNCHANGED <<inbox, room, flooded>>, work = {} => work' = {},
         connection = "replaced" => connection' = "replaced" \/ ~ Closing, Messages
  PROVE  Goodbye'
<1>1. Closing' <=> Closing
  BY DEF Closing
<1>2. ~ Closing => \A i \in 1 .. Len(inbox) : inbox[i].kind # "closed"
  BY ClosingParts
<1> QED
  BY <1>1, <1>2 DEF Goodbye

LEMMA SameInside ==
  ASSUME Inside, UNCHANGED <<inbox, room>>, joined' => joined
  PROVE  Inside'
<1>1. Closing' <=> Closing
  BY DEF Closing
<1> QED
  BY <1>1 DEF Inside

LEMMA ClearedGoodbye ==
  ASSUME inbox' = <<>>, joined' => room'
  PROVE  Goodbye' /\ Inside'
<1>1. ~ Closing'
  BY DEF Closing
<1> QED
  BY <1>1 DEF Goodbye, Inside

\* A message is added to a socket the server has not closed.
LEMMA SentGoodbye ==
  ASSUME Messages, Messages', Goodbye, Inside, ~ Closing, NEW m \in MessageType, m.kind # "closed",
         inbox' = Append(inbox, m), joined' => joined, room \/ m.kind \in Snapshots => room'
  PROVE  Goodbye' /\ Inside'
<1>1. /\ Len(inbox) \in Nat /\ Len(inbox') = Len(inbox) + 1 /\ inbox'[Len(inbox) + 1] = m
      /\ \A i \in 1 .. Len(inbox) : inbox'[i] = inbox[i]
  BY Appended DEF Messages
<1>2. \A i \in 1 .. Len(inbox') : i \in 1 .. Len(inbox) \/ i = Len(inbox) + 1
  BY <1>1
<1>3. \A i \in 1 .. Len(inbox') : inbox'[i].kind # "closed"
  BY <1>1, <1>2, ClosingParts
<1>4. ~ Closing'
  BY <1>3, ClosingPartsPrime
<1>5. (\E i \in 1 .. Len(inbox') : inbox'[i].kind \in Snapshots) =>
         m.kind \in Snapshots \/ \E i \in 1 .. Len(inbox) : inbox[i].kind \in Snapshots
  BY <1>1, <1>2
<1> QED
  BY <1>3, <1>4, <1>5 DEF Goodbye, Inside

\* The server closes the socket.
LEMMA ClosedGoodbye ==
  ASSUME Messages, Messages', NEW messages, CloseAfter(messages),
         \/ messages = <<>> /\ flooded'
         \/ \E m \in MessageType : messages = <<m>> /\ m.kind \in {"removed", "replaced"}
  PROVE  Goodbye' /\ Inside'
<1>1. /\ ~ Closing /\ work' = {} /\ room' = FALSE /\ Len(inbox) \in Nat /\ Len(messages) \in {0, 1}
      /\ Len(inbox') = Len(inbox) + Len(messages) + 1 /\ inbox'[Len(inbox')] = Message("closed", 0)
      /\ \A i \in 1 .. Len(inbox) : inbox'[i] = inbox[i]
      /\ Len(messages) = 1 => inbox'[Len(inbox) + 1] = messages[1]
  BY CloseParts
<1>2. \A i \in 1 .. Len(inbox') : i \in 1 .. Len(inbox) \/ i = Len(inbox')
                                 \/ (Len(messages) = 1 /\ i = Len(inbox) + 1)
  BY <1>1, Positions
<1>3. Len(messages) = 1 => messages[1].kind \in {"removed", "replaced"}
  OBVIOUS
<1>4. \A i \in 1 .. Len(inbox) : inbox'[i].kind # "closed"
  BY <1>1, ClosingParts
<1>5. \A i \in 1 .. Len(inbox') : inbox'[i].kind = "closed" => i = Len(inbox')
  BY <1>1, <1>2, <1>3, <1>4
<1>6. \/ flooded'
      \/ Len(inbox') > 1 /\ inbox'[Len(inbox') - 1].kind \in {"removed", "replaced"}
  <2>1. CASE Len(messages) = 0
    BY <2>1
  <2>2. CASE Len(messages) = 1
    <3>1. Len(inbox') - 1 = Len(inbox) + 1 /\ Len(inbox') > 1
      BY <1>1, <2>2
    <3> QED
      BY <1>1, <1>3, <2>2, <3>1
  <2> QED
    BY <1>1, <2>1, <2>2
<1>7. Closing'
  <2>1. Len(inbox') \in 1 .. Len(inbox') /\ inbox'[Len(inbox')].kind = "closed"
    BY <1>1, MessageParts
  <2> QED
    BY <2>1, ClosingPartsPrime
<1> QED
  BY <1>1, <1>5, <1>6, <1>7 DEF Goodbye, Inside

LEMMA Shifted ==
  ASSUME NEW n \in Nat \ {0}, NEW m, m = n - 1, NEW i \in 1 .. m
  PROVE  (i + 1 = n => i = m) /\ (i # 1 => i - 1 \in 1 .. m /\ (i - 1) + 1 = i /\ i > 1)
  OBVIOUS

\* The first message is taken.
LEMMA TakenGoodbye ==
  ASSUME Messages, Messages', Goodbye, inbox # <<>>, inbox' = Tail(inbox), UNCHANGED <<room, flooded>>,
         inbox[1].kind \notin {"closed", "removed"}, work = {} => work' = {},
         inbox[1].kind = "replaced" => connection' = "replaced"
  PROVE  Goodbye'
<1>1. /\ Len(inbox) \in Nat \ {0} /\ Len(inbox') = Len(inbox) - 1
      /\ \A i \in 1 .. Len(inbox') : inbox'[i] = inbox[i + 1] /\ i + 1 \in 1 .. Len(inbox)
  BY Tailed DEF Messages
<1>4. \A i \in 1 .. Len(inbox') : /\ i + 1 = Len(inbox) => i = Len(inbox')
                                  /\ i # 1 => i - 1 \in 1 .. Len(inbox') /\ (i - 1) + 1 = i /\ i > 1
  BY <1>1, Shifted
<1>2. Closing' => Closing
  BY <1>1, ClosingParts, ClosingPartsPrime
<1>3. ASSUME NEW i \in 1 .. Len(inbox'), inbox'[i].kind = "closed"
      PROVE  /\ i = Len(inbox')
             /\ \/ flooded'
                \/ connection' = "replaced" /\ i = 1
                \/ i > 1 /\ inbox'[i - 1].kind \in {"removed", "replaced"}
  <2>1. /\ i + 1 \in 1 .. Len(inbox) /\ inbox[i + 1].kind = "closed" /\ i + 1 # 1
    BY <1>1, <1>3
  <2>2. /\ i + 1 = Len(inbox) /\ (flooded \/ inbox[i].kind \in {"removed", "replaced"})
    BY <2>1 DEF Goodbye
  <2>3. CASE i = 1
    <3>1. flooded' \/ inbox[1].kind = "replaced"
      BY <2>2, <2>3
    <3>2. i = Len(inbox')
      BY <1>4, <2>2
    <3> QED
      BY <2>3, <3>1, <3>2
  <2>4. CASE i # 1
    <3>1. i - 1 \in 1 .. Len(inbox') /\ (i - 1) + 1 = i /\ i > 1 /\ i = Len(inbox')
      BY <1>4, <2>2, <2>4
    <3>2. inbox'[i - 1] = inbox[i]
      BY <1>1, <3>1
    <3> QED
      BY <2>2, <3>1, <3>2
  <2> QED
    BY <2>3, <2>4
<1> QED
  BY <1>2, <1>3 DEF Goodbye

LEMMA TakenInside ==
  ASSUME Messages, Messages', Inside, inbox # <<>>, inbox' = Tail(inbox), room' = room,
         inbox[1].kind # "closed", joined' => joined \/ inbox[1].kind = "join"
  PROVE  Inside'
<1>1. /\ Len(inbox) \in Nat \ {0} /\ Len(inbox') = Len(inbox) - 1
      /\ \A i \in 1 .. Len(inbox') : inbox'[i] = inbox[i + 1] /\ i + 1 \in 1 .. Len(inbox)
      /\ 1 \in 1 .. Len(inbox)
  BY Tailed DEF Messages
<1>2. Closing => Closing'
  <2>1. SUFFICES ASSUME NEW i \in 1 .. Len(inbox), inbox[i].kind = "closed" PROVE Closing'
    BY ClosingParts
  <2>2. i - 1 \in 1 .. Len(inbox') /\ i - 1 + 1 = i
    BY <1>1, <2>1
  <2>3. inbox'[i - 1].kind = "closed"
    BY <1>1, <2>1, <2>2
  <2> QED
    BY <2>2, <2>3, ClosingPartsPrime
<1>3. (\E i \in 1 .. Len(inbox') : inbox'[i].kind \in Snapshots) =>
         \E i \in 1 .. Len(inbox) : inbox[i].kind \in Snapshots
  BY <1>1
<1>4. inbox[1].kind = "join" => inbox[1].kind \in Snapshots
  BY DEF Snapshots
<1> QED
  BY <1>1, <1>2, <1>3, <1>4 DEF Inside

LEMMA NextGoodbye == Calls /\ [Next]_vars => Goodbye' /\ Inside'
<1> SUFFICES ASSUME Types, TypeOK, Messages, Messages', Timers, Replies, Goodbye, Inside, [Next]_vars
             PROVE Goodbye' /\ Inside'
  BY NextMessages, TypeParts DEF Calls
<1>0. Closing => work = {}
  BY DEF Goodbye
<1>1. ASSUME UNCHANGED <<inbox, room, flooded>>, work = {} => work' = {}, joined' => joined,
             connection = "replaced" => connection' = "replaced" \/ ~ Closing
      PROVE Goodbye' /\ Inside'
  BY <1>1, SameGoodbye, SameInside
<1>2. ASSUME Open \/ OpenFails \/ HandshakeRefused \/ HandshakeTimer PROVE Goodbye' /\ Inside'
  BY <1>1, <1>2
     DEF Open, OpenFails, HandshakeRefused, HandshakeTimer, Show, ShowFailed, Given, server
<1>3. ASSUME TicketRefused \/ Connect PROVE Goodbye' /\ Inside'
  BY <1>3, ClearedGoodbye DEF TicketRefused, Connect, Types, server
<1>4. ASSUME Change \/ UNCHANGED vars \/ \E change \in announcing : BroadcastFails(change)
      PROVE Goodbye' /\ Inside'
  BY <1>1, <1>4 DEF Change, BroadcastFails, vars, page, server
<1>5. ASSUME Drop \/ Reconnect \/ ReceiveRefusal PROVE Goodbye' /\ Inside'
  BY <1>5, ClearedGoodbye DEF Drop, Reconnect, ReceiveRefusal, Forget
<1>6. ASSUME JoinTimer \/ Resync PROVE Goodbye' /\ Inside'
  <2>1. /\ UNCHANGED <<inbox, room, flooded, joined, connection>> /\ (Closing => work' = work)
    BY <1>6 DEF JoinTimer, Resync, Ask
  <2>2. CASE Closing
    BY <1>0, <1>1, <2>1, <2>2
  <2>3. CASE ~ Closing
    <3>1. ~ Closing'
      BY <2>1, <2>3 DEF Closing
    <3>2. \A i \in 1 .. Len(inbox) : inbox[i].kind # "closed"
      BY <2>3, ClosingParts
    <3> QED
      BY <2>1, <2>3, <3>1, <3>2 DEF Goodbye, Inside
  <2> QED
    BY <2>2, <2>3
<1>7. work = {} => Abandoned = {}
  BY AbandonedParts
<1>8. CASE CallTimesOut
  BY <1>1, <1>7, <1>8 DEF CallTimesOut
<1>9. CASE JoinTimesOut
  <2>1. JoinFailed /\ work # {} /\ flooded' = flooded
    BY <1>9 DEF JoinTimesOut
  <2>2. CASE joins + 1 >= MaxReconnects
    BY <2>1, <2>2, JoinFailedParts, ClearedGoodbye DEF Cleared
  <2>3. CASE ~ (joins + 1 >= MaxReconnects)
    <3>1. UNCHANGED <<inbox, room, joined>> /\ work' = Abandoned
      BY <1>9, <2>1, <2>3, JoinFailedParts DEF JoinTimesOut
    <3> QED
      BY <1>0, <1>1, <2>1, <3>1
  <2> QED
    BY <2>2, <2>3
<1>10. ASSUME NEW kind \in {"removed", "replaced"}, CloseAfter(<<Message(kind, 0)>>)
       PROVE Goodbye' /\ Inside'
  <2>1. Message(kind, 0) \in MessageType /\ Message(kind, 0).kind \in {"removed", "replaced"}
    BY MessageParts
  <2> QED
    BY <1>10, <2>1, ClosedGoodbye
<1>11. ASSUME Remove \/ Replace PROVE Goodbye' /\ Inside'
  BY <1>10, <1>11 DEF Remove, Replace
<1>12. CASE Flood
  BY <1>12, ClosedGoodbye DEF Flood
<1>13. ASSUME NEW change \in announcing, Broadcast(change) PROVE Goodbye' /\ Inside'
  <2>1. UNCHANGED <<connection, joined, work, room, flooded>>
    BY <1>13 DEF Broadcast, page, server
  <2>2. CASE room
    <3>0. change \in Nat
      BY DEF Types
    <3>1. inbox' = Append(inbox, Message("snapshot", change)) /\ ~ Closing
      BY <1>13, <2>2 DEF Broadcast, Goodbye
    <3>2. Message("snapshot", change) \in MessageType /\ Message("snapshot", change).kind = "snapshot"
      BY <3>0, MessageParts
    <3>3. room'
      BY <2>1, <2>2
    <3> QED
      BY <2>1, <3>1, <3>2, <3>3, SentGoodbye
  <2>3. CASE ~ room
    BY <1>1, <1>13, <2>1, <2>3 DEF Broadcast
  <2> QED
    BY <2>2, <2>3 DEF Types
<1>14. ASSUME NEW w \in work, Read(w) PROVE Goodbye' /\ Inside'
  BY <1>1, <1>14 DEF Read, page
<1>15. ASSUME NEW w \in work, work' \subseteq work, UNCHANGED <<page, flooded>>, NEW m \in MessageType,
              m.kind # "closed", m.kind \in Snapshots => room', room => room',
              inbox' = IF w.awaited THEN Append(inbox, m) ELSE inbox
       PROVE Goodbye' /\ Inside'
  <2>1. ~ Closing /\ joined' = joined
    BY <1>0, <1>15 DEF page
  <2>2. CASE w.awaited
    BY <1>15, <2>1, <2>2, SentGoodbye
  <2>3. CASE ~ w.awaited
    <3>1. inbox' = inbox /\ ~ Closing'
      BY <1>15, <2>1, <2>3 DEF Closing
    <3>2. \A i \in 1 .. Len(inbox) : inbox[i].kind # "closed"
      BY <2>1, ClosingParts
    <3> QED
      BY <1>15, <2>1, <3>1, <3>2 DEF Goodbye, Inside
  <2> QED
    BY <2>2, <2>3
<1>16. ASSUME NEW w \in work, Answer(w) PROVE Goodbye' /\ Inside'
  <2>1. Message(w.op, w.reads) \in MessageType /\ Message(w.op, w.reads).kind = w.op
        /\ w.op # "closed"
    BY MessageParts DEF JoinReplies, SyncReplies, Types
  <2>2. w.awaited => room'
    <3>1. w.awaited /\ w.op = "sync" => joined
      BY DEF Replies, Timers
    <3> QED
      BY <1>0, <1>16, <3>1 DEF Answer, Types, Inside
  <2>3. CASE w.awaited
    BY <1>15, <1>16, <2>1, <2>2, <2>3 DEF Answer
  <2>4. CASE ~ w.awaited
    <3>1. Message("error", 0) \in MessageType /\ Message("error", 0).kind \notin {"closed"} \cup Snapshots
      BY MessageParts DEF JoinReplies, SyncReplies, Snapshots
    <3>2. /\ work' \subseteq work /\ UNCHANGED <<page, flooded>> /\ (room => room') /\ inbox' = inbox
      BY <1>16, <2>4 DEF Answer
    <3> QED
      BY <1>15, <2>4, <3>1, <3>2
  <2> QED
    BY <2>3, <2>4
<1>17. ASSUME NEW w \in work, Refuse(w) PROVE Goodbye' /\ Inside'
  <2>1. PICK kind \in {"refusal", "busy", "error"} :
           inbox' = IF w.awaited THEN Append(inbox, Message(kind, 0)) ELSE inbox
    BY <1>17 DEF Refuse
  <2>2. Message(kind, 0) \in MessageType /\ Message(kind, 0).kind \notin {"closed"} \cup Snapshots
    BY MessageParts DEF JoinReplies, SyncReplies, Snapshots
  <2> QED
    BY <1>15, <1>17, <2>1, <2>2 DEF Refuse
<1>18. inbox # <<>> => 1 \in 1 .. Len(inbox) /\ Head(inbox) = inbox[1]
  BY Tailed DEF Messages
<1>19. ASSUME ReceiveSnapshot \/ ReceiveSyncError \/ ReceiveJoined \/ ReceiveIgnored \/ ReceiveReplaced
       PROVE Goodbye' /\ Inside'
  <2>1. /\ inbox # <<>> /\ inbox' = Tail(inbox) /\ UNCHANGED <<work, room, flooded>>
        /\ inbox[1].kind \notin {"closed", "removed"}
        /\ inbox[1].kind = "replaced" => connection' = "replaced"
        /\ joined' => joined \/ inbox[1].kind = "join"
    BY <1>18, <1>19
       DEF ReceiveSnapshot, ReceiveSyncError, ReceiveJoined, ReceiveIgnored, ReceiveReplaced, Receive, server
  <2> QED
    BY <2>1, TakenGoodbye, TakenInside
<1>20. CASE ReceiveBusy
  <2>1. inbox # <<>> /\ inbox[1].kind = "busy" /\ JoinFailed /\ flooded' = flooded
    BY <1>18, <1>20 DEF ReceiveBusy
  <2>2. CASE joins + 1 >= MaxReconnects
    BY <2>1, <2>2, JoinFailedParts, ClearedGoodbye DEF Cleared
  <2>3. CASE ~ (joins + 1 >= MaxReconnects)
    <3>1. UNCHANGED <<room, joined>> /\ work' = Abandoned /\ inbox' = Tail(inbox)
      BY <1>20, <2>1, <2>3, JoinFailedParts DEF ReceiveBusy
    <3> QED
      BY <1>7, <2>1, <3>1, TakenGoodbye, TakenInside
  <2> QED
    BY <2>2, <2>3
<1>21. CASE ReceiveClosed
  <2>1. /\ inbox # <<>> /\ inbox[1].kind = "closed" /\ 1 \in 1 .. Len(inbox) /\ inbox' = Tail(inbox)
        /\ joined' = FALSE
    BY <1>18, <1>21 DEF ReceiveClosed, Receive
  <2>2. Len(inbox) = 1
    BY <2>1 DEF Goodbye
  <2>3. inbox' = <<>>
    BY <2>1, <2>2, Tailed, Empty DEF Messages
  <2> QED
    BY <2>1, <2>3, ClearedGoodbye
<1> QED
  BY <1>2, <1>3, <1>4, <1>5, <1>6, <1>8, <1>9, <1>11, <1>12, <1>13, <1>14, <1>16, <1>17, <1>19,
     <1>20, <1>21, Steps

LEMMA NextCalls == Calls /\ [Next]_vars => Calls'
  BY NextTypes, NextMessages, NextTimers, NextReplies, NextGoodbye DEF Calls

LEMMA InitCalls == Init => Calls
<1> SUFFICES ASSUME Init PROVE Calls
  OBVIOUS
<1>1. /\ connection = "connecting" /\ refused = FALSE /\ stopped = FALSE /\ joined = FALSE
      /\ link = "opening" /\ attempts = 0 /\ handshakes = 0 /\ joins = 0 /\ timer = "none"
      /\ awaiting = "none" /\ shown = 0 /\ state = 0 /\ announcing = {} /\ work = {} /\ room = FALSE
      /\ inbox = <<>> /\ flooded = FALSE /\ missed = FALSE
  BY DEF Init
<1>2. TypeOK
  <2>1. 0 \in 0 .. MaxReconnects /\ 0 \in 0 .. MaxChanges /\ 0 \in 0 .. 0
    BY ClientAssumption
  <2>2. Types
    BY <1>1, <2>1 DEF Types
  <2> QED
    BY <2>2, TypeParts
<1>3. Messages
  BY <1>1 DEF Messages
<1>4. Timers /\ Replies /\ Inside
  BY <1>1, ClientAssumption DEF Timers, Replies, Inside
<1>5. Goodbye
  BY <1>1 DEF Goodbye, Closing
<1> QED
  BY <1>2, <1>3, <1>4, <1>5 DEF Calls

\* Types, and: the page is joined, awaits an answer and is sent messages only
\* on an open socket, and the session it shows is never ahead of the server's.
THEOREM TypesCorrect == Spec => []TypeOK
<1>1. Calls => TypeOK
  BY DEF Calls
<1> QED
  BY <1>1, InitCalls, NextCalls, PTL DEF Spec

-----------------------------------------------------------------------------
(* A page that says it reconnects does.                                     *)

LEMMA NextStranded == Calls /\ NeverStranded /\ [Next]_vars => NeverStranded'
<1> SUFFICES ASSUME Types, Calls, NeverStranded, [Next]_vars PROVE NeverStranded'
  BY TypeParts DEF Calls
<1> USE DEF NeverStranded
<1>1. ASSUME UNCHANGED <<page, link>>, flooded => flooded' PROVE NeverStranded'
  BY <1>1 DEF page
<1>2. ASSUME Open \/ OpenFails \/ Connect PROVE NeverStranded'
  BY <1>2 DEF Open, OpenFails, Connect, Show, Given, Types
<1>3. CASE TicketRefused
  BY <1>3 DEF TicketRefused
<1>4. CASE HandshakeRefused
  BY <1>4 DEF HandshakeRefused, Show, ShowFailed, Given, Calls, Timers, Types
<1>5. CASE HandshakeTimer
  BY <1>5 DEF HandshakeTimer
<1>6. ASSUME Drop \/ Reconnect PROVE NeverStranded'
  BY <1>6 DEF Drop, Reconnect, Show, Given
<1>7. CASE JoinTimer
  BY <1>7 DEF JoinTimer, Ask
<1>8. CASE Resync
  BY <1>8 DEF Resync, Ask, Calls, Timers
<1>9. ASSUME JoinFailed, flooded' = flooded PROVE NeverStranded'
  BY <1>9, JoinFailedParts DEF Calls
<1>10. ASSUME JoinTimesOut \/ ReceiveBusy PROVE NeverStranded'
  BY <1>9, <1>10 DEF JoinTimesOut, ReceiveBusy
<1>11. CASE CallTimesOut
  BY <1>11 DEF CallTimesOut, Given, Calls, Timers
<1>12. ASSUME Change \/ Remove \/ Replace PROVE NeverStranded'
  BY <1>1, <1>12 DEF Change, Remove, Replace, CloseAfter
<1>13. CASE Flood
  BY <1>1, <1>13 DEF Flood, CloseAfter
<1>14. ASSUME NEW change \in announcing, Broadcast(change) \/ BroadcastFails(change) PROVE NeverStranded'
  BY <1>1, <1>14 DEF Broadcast, BroadcastFails
<1>15. ASSUME NEW w \in work, Read(w) \/ Answer(w) \/ Refuse(w) PROVE NeverStranded'
  BY <1>1, <1>15 DEF Read, Answer, Refuse
<1>16. inbox # <<>> => 1 \in 1 .. Len(inbox) /\ Head(inbox) = inbox[1]
  BY Tailed DEF Calls, Messages
<1>17. inbox # <<>> /\ Head(inbox).kind \in SyncReplies => joined
  BY <1>16 DEF Calls, Replies, Timers
<1>18. ASSUME ReceiveSnapshot \/ ReceiveSyncError PROVE NeverStranded'
  BY <1>17, <1>18 DEF ReceiveSnapshot, ReceiveSyncError, Receive, SyncReplies, Calls, Timers
<1>19. CASE ReceiveJoined
  BY <1>19 DEF ReceiveJoined
<1>20. CASE ReceiveIgnored
  BY <1>20 DEF ReceiveIgnored, Given, Calls, Timers
<1>21. CASE ReceiveRefusal
  BY <1>21 DEF ReceiveRefusal, ShowFailed
<1>22. CASE ReceiveReplaced
  BY <1>22 DEF ReceiveReplaced
<1>23. CASE ReceiveClosed
  <2>1. flooded \/ connection = "replaced"
    <3>1. 1 \in 1 .. Len(inbox) /\ inbox[1].kind = "closed"
      BY <1>16, <1>23 DEF ReceiveClosed, Receive
    <3> QED
      BY <3>1 DEF Calls, Goodbye
  <2> QED
    BY <1>23, <2>1 DEF ReceiveClosed, Show, Given
<1>24. CASE UNCHANGED vars
  BY <1>1, <1>24 DEF vars
<1> QED
  BY <1>2, <1>3, <1>4, <1>5, <1>6, <1>7, <1>8, <1>10, <1>11, <1>12, <1>13, <1>14, <1>15, <1>18,
     <1>19, <1>20, <1>21, <1>22, <1>23, <1>24, Steps

\* A page that says it is connecting or reconnecting is doing so, however
\* transports, tickets, handshakes, joins and messages fail or cross: but for a
\* socket closed without a word, it never waits for nothing.
THEOREM NotStranded == Spec => []NeverStranded
<1>1. Init => NeverStranded
  BY DEF Init, NeverStranded
<1> QED
  BY <1>1, InitCalls, NextCalls, NextStranded, PTL DEF Spec

-----------------------------------------------------------------------------
(* What a page shows last is the latest.                                    *)

Showing == Calls /\ NeverStranded /\ Current

\* Everything that was announced still is, or is newer.
LEMMA StillAnnounces ==
  ASSUME Types, NEW n \in Nat,
         \/ UNCHANGED <<state, announcing>>
         \/ state' = state + 1 /\ announcing' = announcing \cup {state + 1}
  PROVE  Announces(n) => Announces(n)'
<1>1. state \in Nat
  BY DEF Types
<1> QED
  BY <1>1 DEF Announces

\* Outside the room nothing is promised, to a socket the server does no work for.
LEMMA OutsideCurrent ==
  ASSUME room' = FALSE, work' = {}
  PROVE  Current'
  BY DEF Current

\* The messages are the same, and the room too.
LEMMA SameCurrent ==
  ASSUME Types, Messages, Current, missed' = missed, shown' = shown, inbox' = inbox,
         room' = room, room' /\ joined' => joined,
         \/ UNCHANGED <<state, announcing>>
         \/ state' = state + 1 /\ announcing' = announcing \cup {state + 1},
         \A v \in work' : v.at = "read" => \E w \in work : w.at = "read" /\ w.reads = v.reads
  PROVE  Current'
<1> SUFFICES ASSUME ~ missed PROVE Current'
  BY DEF Current
<1>1. \A n \in Nat : Announces(n) => Announces(n)'
  BY StillAnnounces
<1>2. ASSUME NEW v \in work', v.at = "read" PROVE Announces(v.reads)'
  <2>1. PICK w \in work : w.at = "read" /\ w.reads = v.reads
    BY <1>2
  <2>2. Announces(w.reads) /\ w.reads \in Nat
    BY <2>1 DEF Current, Types
  <2> QED
    BY <1>1, <2>1, <2>2
<1>3. ASSUME NEW i \in 1 .. Len(inbox), Announces(inbox[i].reads) PROVE Announces(inbox[i].reads)'
  <2>1. inbox[i] \in MessageType
    BY DEF Messages
  <2>2. inbox[i].reads \in Nat
    BY <2>1 DEF MessageType
  <2> QED
    BY <1>1, <1>3, <2>2
<1>4. Announces(shown) => Announces(shown)'
  BY <1>1 DEF Types
<1> QED
  BY <1>2, <1>3, <1>4 DEF Current

LEMMA SameAnnounces ==
  ASSUME UNCHANGED <<state, announcing>>
  PROVE  \A n : Announces(n)' <=> Announces(n)
  BY DEF Announces

\* A message is added: a snapshot that lacks only what is still announced, or
\* another message.
LEMMA SentCurrent ==
  ASSUME Messages, Current, UNCHANGED <<missed, shown, joined, state, announcing>>, work' \subseteq work,
         NEW m \in MessageType, inbox' = Append(inbox, m),
         IF m.kind \in Snapshots THEN ~ missed => Announces(m.reads) ELSE room' = room
  PROVE  Current'
<1> SUFFICES ASSUME ~ missed PROVE Current'
  BY DEF Current
<1>1. /\ Len(inbox) \in Nat /\ Len(inbox') = Len(inbox) + 1 /\ inbox'[Len(inbox) + 1] = m
      /\ \A i \in 1 .. Len(inbox) : inbox'[i] = inbox[i]
  BY Appended DEF Messages
<1>2. \A w \in work' : w.at = "read" => Announces(w.reads)'
  BY SameAnnounces DEF Current
<1>3. \A i \in 1 .. Len(inbox') : i \in 1 .. Len(inbox) \/ i = Len(inbox')
  BY <1>1
<1>4. CASE m.kind \in Snapshots
  <2>1. \A i \in 1 .. Len(inbox') : /\ inbox'[i].kind \in Snapshots
                                    /\ \A j \in (i + 1) .. Len(inbox') : inbox'[j].kind \notin Snapshots
                                    => Announces(inbox'[i].reads)
    <3> SUFFICES ASSUME NEW i \in 1 .. Len(inbox'), inbox'[i].kind \in Snapshots,
                        \A j \in (i + 1) .. Len(inbox') : inbox'[j].kind \notin Snapshots
                 PROVE Announces(inbox'[i].reads)
      OBVIOUS
    <3>1. i = Len(inbox')
      <4>1. i \in 1 .. Len(inbox) => Len(inbox') \in (i + 1) .. Len(inbox')
        BY <1>1
      <4> QED
        BY <1>1, <1>3, <1>4, <4>1
    <3> QED
      BY <1>1, <1>4, <3>1
  <2>2. ~ \A i \in 1 .. Len(inbox') : inbox'[i].kind \notin Snapshots
    BY <1>1, <1>4
  <2> QED
    BY <1>2, <2>1, <2>2, SameAnnounces DEF Current
<1>5. CASE m.kind \notin Snapshots
  <2>1. \A i \in 1 .. Len(inbox') : inbox'[i].kind \in Snapshots => i \in 1 .. Len(inbox) /\ inbox'[i] = inbox[i]
    BY <1>1, <1>3, <1>5
  <2>2. room => \A i \in 1 .. Len(inbox') :
           /\ inbox'[i].kind \in Snapshots
           /\ \A j \in (i + 1) .. Len(inbox') : inbox'[j].kind \notin Snapshots
           => Announces(inbox'[i].reads)
    <3> SUFFICES ASSUME room, NEW i \in 1 .. Len(inbox'), inbox'[i].kind \in Snapshots,
                        \A j \in (i + 1) .. Len(inbox') : inbox'[j].kind \notin Snapshots
                 PROVE Announces(inbox'[i].reads)
      OBVIOUS
    <3>1. \A j \in (i + 1) .. Len(inbox) : j \in 1 .. Len(inbox) /\ j \in (i + 1) .. Len(inbox')
      BY <1>1
    <3>2. \A j \in (i + 1) .. Len(inbox) : inbox[j].kind \notin Snapshots
      BY <1>1, <3>1
    <3>3. i \in 1 .. Len(inbox) /\ inbox'[i] = inbox[i]
      BY <2>1
    <3> QED
      BY <3>2, <3>3 DEF Current
  <2>3. room /\ joined /\ (\A i \in 1 .. Len(inbox') : inbox'[i].kind \notin Snapshots) => Announces(shown)
    <3>1. (\A i \in 1 .. Len(inbox') : inbox'[i].kind \notin Snapshots)
            => \A i \in 1 .. Len(inbox) : inbox[i].kind \notin Snapshots
      BY <1>1
    <3> QED
      BY <3>1 DEF Current
  <2> QED
    BY <1>2, <1>5, <2>2, <2>3, SameAnnounces DEF Current
<1> QED
  BY <1>4, <1>5

\* The first message is taken, and shown if it has a snapshot.
LEMMA TakenCurrent ==
  ASSUME Messages, Current, UNCHANGED <<missed, room, state, announcing>>,
         inbox # <<>>, inbox' = Tail(inbox),
         \A v \in work' : v.at = "read" => \E w \in work : w.at = "read" /\ w.reads = v.reads,
         \/ ~ joined'
         \/ inbox[1].kind \in Snapshots /\ shown' = inbox[1].reads
         \/ inbox[1].kind \notin Snapshots /\ shown' = shown /\ (joined' => joined)
  PROVE  Current'
<1> SUFFICES ASSUME ~ missed PROVE Current'
  BY DEF Current
<1>1. /\ Len(inbox) \in Nat \ {0} /\ Len(inbox') = Len(inbox) - 1
      /\ \A i \in 1 .. Len(inbox') : inbox'[i] = inbox[i + 1] /\ i + 1 \in 1 .. Len(inbox)
      /\ 1 \in 1 .. Len(inbox)
  BY Tailed DEF Messages
<1>2. \A w \in work' : w.at = "read" => Announces(w.reads)'
  BY SameAnnounces DEF Current
<1>3. \A j \in 2 .. Len(inbox) : j - 1 \in 1 .. Len(inbox') /\ inbox'[j - 1] = inbox[j]
  BY <1>1
<1>4. room => \A i \in 1 .. Len(inbox') :
           /\ inbox'[i].kind \in Snapshots
           /\ \A j \in (i + 1) .. Len(inbox') : inbox'[j].kind \notin Snapshots
           => Announces(inbox'[i].reads)
  <2> SUFFICES ASSUME room, NEW i \in 1 .. Len(inbox'), inbox'[i].kind \in Snapshots,
                      \A j \in (i + 1) .. Len(inbox') : inbox'[j].kind \notin Snapshots
               PROVE Announces(inbox'[i].reads)
    OBVIOUS
  <2>1. \A j \in (i + 2) .. Len(inbox) : inbox[j].kind \notin Snapshots
    <3> SUFFICES ASSUME NEW j \in (i + 2) .. Len(inbox) PROVE inbox[j].kind \notin Snapshots
      OBVIOUS
    <3>1. j \in 2 .. Len(inbox) /\ j - 1 \in (i + 1) .. Len(inbox')
      BY <1>1
    <3> QED
      BY <1>3, <3>1
  <2>2. i + 1 \in 1 .. Len(inbox) /\ inbox[i + 1] = inbox'[i] /\ (i + 1) + 1 = i + 2
    BY <1>1
  <2> QED
    BY <2>1, <2>2 DEF Current
<1>5. room' /\ joined' /\ (\A i \in 1 .. Len(inbox') : inbox'[i].kind \notin Snapshots) => Announces(shown')
  <2> SUFFICES ASSUME room, joined', \A i \in 1 .. Len(inbox') : inbox'[i].kind \notin Snapshots
               PROVE Announces(shown')
    OBVIOUS
  <2>1. \A j \in 2 .. Len(inbox) : inbox[j].kind \notin Snapshots
    BY <1>3
  <2>2. CASE inbox[1].kind \in Snapshots
    <3>1. Announces(inbox[1].reads)
      BY <1>1, <2>1, <2>2 DEF Current
    <3> QED
      BY <2>2, <3>1
  <2>3. CASE inbox[1].kind \notin Snapshots
    <3>1. \A j \in 1 .. Len(inbox) : j = 1 \/ j \in 2 .. Len(inbox)
      BY <1>1
    <3> QED
      BY <2>1, <2>3, <3>1 DEF Current
  <2> QED
    BY <2>2, <2>3
<1> QED
  BY <1>2, <1>4, <1>5, SameAnnounces DEF Current

\* A broadcast that crosses neither another one nor a reply.
LEMMA BroadcastCurrent ==
  ASSUME Types, Messages, Goodbye, Current, NEW change \in announcing, Broadcast(change)
  PROVE  Current'
<1> SUFFICES ASSUME ~ missed' PROVE Current'
  BY DEF Current
<1>1. /\ ~ missed /\ ~ Crosses(change) /\ announcing' = announcing \ {change}
      /\ UNCHANGED <<state, work, room, joined, shown>> /\ change \in 1 .. state
  BY DEF Broadcast, Types, page, server
<1>2. ASSUME NEW w \in work', w.at = "read" PROVE Announces(w.reads)'
  <2>1. w \in work /\ w.reads \in Nat /\ ~ (w.reads < change) /\ Announces(w.reads)
    BY <1>1, <1>2 DEF Crosses, Current, Types
  <2>2. \A c \in (w.reads + 1) .. state : c \in announcing /\ c # change
    BY <1>1, <2>1 DEF Announces
  <2> QED
    BY <1>1, <2>2 DEF Announces
<1>3. Announces(change)'
  <2>1. \A c \in (change + 1) .. state : c \in announcing /\ c # change
    BY <1>1 DEF Crosses
  <2> QED
    BY <1>1, <2>1 DEF Announces
<1>4. CASE ~ room
  BY <1>1, <1>2, <1>4 DEF Current
<1>5. CASE room
  <2> DEFINE m == Message("snapshot", change)
  <2>1. inbox' = Append(inbox, m)
    BY <1>5 DEF Broadcast
  <2>2. m \in MessageType /\ m.kind \in Snapshots /\ m.reads = change
    BY <1>1, MessageParts DEF Snapshots
  <2> HIDE DEF m
  <2>3. /\ Len(inbox) \in Nat /\ Len(inbox') = Len(inbox) + 1 /\ inbox'[Len(inbox')] = m
        /\ Len(inbox') \in 1 .. Len(inbox')
    BY <2>1, <2>2, Appended DEF Messages
  <2>4. \A i \in 1 .. Len(inbox') :
           (\A j \in (i + 1) .. Len(inbox') : inbox'[j].kind \notin Snapshots) => i = Len(inbox')
    <3>1. \A i \in 1 .. Len(inbox') : i = Len(inbox') \/ Len(inbox') \in (i + 1) .. Len(inbox')
      BY <2>3
    <3> QED
      BY <2>2, <2>3, <3>1
  <2>5. \A b : b = change => Announces(b)'
    BY <1>3
  <2>6. inbox'[Len(inbox')].reads = change /\ inbox'[Len(inbox')].kind \in Snapshots
    BY <2>2, <2>3
  <2>7. \A i \in 1 .. Len(inbox') : /\ inbox'[i].kind \in Snapshots
                                    /\ \A j \in (i + 1) .. Len(inbox') : inbox'[j].kind \notin Snapshots
                                    => inbox'[i].reads = change
    BY <2>4, <2>6
  <2>8. ~ \A i \in 1 .. Len(inbox') : inbox'[i].kind \notin Snapshots
    BY <2>3, <2>6
  <2> QED
    BY <1>2, <2>5, <2>7, <2>8 DEF Current
<1> QED
  BY <1>4, <1>5

LEMMA NextCurrent == Showing /\ [Next]_vars => Current'
<1> SUFFICES ASSUME Types, Calls, TypeOK, Messages, Messages', Timers, Replies, Goodbye, Inside,
                    NeverStranded, Current, [Next]_vars
             PROVE Current'
  BY TypeParts, NextCalls DEF Showing, Calls
<1>1. ASSUME Open \/ OpenFails \/ TicketRefused \/ HandshakeRefused \/ HandshakeTimer \/ UNCHANGED vars
      PROVE Current'
  <2>1. UNCHANGED <<missed, shown, inbox, room, joined, state, announcing, work>>
    BY <1>1 DEF Open, OpenFails, TicketRefused, HandshakeRefused, HandshakeTimer, vars, page, session, server
  <2> QED
    BY <2>1, SameCurrent
<1>2. CASE Change
  BY <1>2, SameCurrent DEF Change, page, server
<1>3. CASE Connect
  <2>1. room' = FALSE /\ work' = {Call("join")}
    BY <1>3 DEF Connect, Types
  <2> QED
    BY <2>1, CallParts DEF Current
<1>4. ASSUME Drop \/ Reconnect \/ ReceiveRefusal PROVE Current'
  BY <1>4, OutsideCurrent DEF Drop, Reconnect, ReceiveRefusal, Forget
<1>5. ASSUME JoinTimer \/ Resync PROVE Current'
  <2>1. /\ UNCHANGED <<missed, shown, inbox, room, joined, state, announcing>>
        /\ work' = work \/ \E op \in {"join", "sync"} : work' = work \cup {Call(op)}
    BY <1>5 DEF JoinTimer, Resync, Ask, session
  <2>2. \A v \in work' : v.at = "read" => v \in work
    BY <2>1, CallParts
  <2> QED
    BY <2>1, <2>2, SameCurrent
<1>6. CASE CallTimesOut
  BY <1>6, AbandonedParts, SameCurrent DEF CallTimesOut, session
<1>7. CASE JoinTimesOut
  <2>1. JoinFailed /\ UNCHANGED <<missed, shown, state, announcing>>
    BY <1>7 DEF JoinTimesOut, session
  <2>2. CASE joins + 1 >= MaxReconnects
    BY <2>1, <2>2, JoinFailedParts, OutsideCurrent DEF Cleared
  <2>3. CASE ~ (joins + 1 >= MaxReconnects)
    <3>1. UNCHANGED <<inbox, room, joined>> /\ work' = Abandoned
      BY <1>7, <2>1, <2>3, JoinFailedParts DEF JoinTimesOut
    <3> QED
      BY <2>1, <3>1, AbandonedParts, SameCurrent
  <2> QED
    BY <2>2, <2>3
<1>8. ASSUME Remove \/ Replace \/ Flood PROVE Current'
  BY <1>8, OutsideCurrent DEF Remove, Replace, Flood, CloseAfter, Forget
<1>9. ASSUME NEW change \in announcing, Broadcast(change) PROVE Current'
  BY <1>9, BroadcastCurrent
<1>10. ASSUME NEW change \in announcing, BroadcastFails(change) PROVE Current'
  BY <1>10 DEF BroadcastFails, Current
<1>11. ASSUME NEW w \in work, Read(w) PROVE Current'
  <2>1. PICK v \in WorkType : v.reads = state /\ work' = (work \ {w}) \cup {v}
    BY <1>11, ReadParts
  <2>2. UNCHANGED <<missed, shown, inbox, room, joined, state, announcing>>
    BY <1>11 DEF Read, page, session
  <2>3. Announces(state)'
    <3>1. (state + 1) .. state = {}
      BY DEF Types
    <3> QED
      BY <2>2, <3>1 DEF Announces
  <2>4. \A b : b = state => Announces(b)'
    BY <2>3, <2>2
  <2>5. ~ missed => \A u \in work' : u.at = "read" => Announces(u.reads)'
    BY <2>1, <2>2, <2>4, SameAnnounces DEF Current
  <2> QED
    BY <2>2, <2>5, SameAnnounces DEF Current
<1>12. ASSUME NEW w \in work, Answer(w) PROVE Current'
  <2>1. /\ UNCHANGED <<missed, shown, joined, state, announcing>> /\ work' \subseteq work
        /\ w.at = "read" /\ ~ Closing /\ room' = (room \/ w.op = "join")
    BY <1>12 DEF Answer, Goodbye, page, session
  <2>2. CASE w.awaited
    <3>1. inbox' = Append(inbox, Message(w.op, w.reads))
      BY <1>12, <2>2 DEF Answer
    <3>2. /\ Message(w.op, w.reads) \in MessageType /\ Message(w.op, w.reads).kind \in Snapshots
          /\ Message(w.op, w.reads).reads = w.reads
      BY MessageParts DEF JoinReplies, SyncReplies, Snapshots, Types
    <3>3. ~ missed => Announces(w.reads)
      BY <2>1 DEF Current
    <3> QED
      BY <2>1, <3>1, <3>2, <3>3, SentCurrent
  <2>3. CASE ~ w.awaited /\ room
    BY <1>12, <2>1, <2>3, SameCurrent DEF Answer
  <2>4. CASE ~ w.awaited /\ ~ room
    <3>1. inbox' = inbox /\ ~ joined /\ \A i \in 1 .. Len(inbox) : inbox[i].kind \notin Snapshots
      BY <1>12, <2>1, <2>4 DEF Answer, Inside
    <3> QED
      BY <2>1, <3>1, SameAnnounces DEF Current
  <2> QED
    BY <2>2, <2>3, <2>4
<1>13. ASSUME NEW w \in work, Refuse(w) PROVE Current'
  <2>1. PICK kind \in {"refusal", "busy", "error"} :
           inbox' = IF w.awaited THEN Append(inbox, Message(kind, 0)) ELSE inbox
    BY <1>13 DEF Refuse
  <2>2. Message(kind, 0) \in MessageType /\ Message(kind, 0).kind \notin Snapshots
    BY MessageParts DEF JoinReplies, SyncReplies, Snapshots
  <2>3. UNCHANGED <<missed, shown, joined, state, announcing, room>> /\ work' \subseteq work
    BY <1>13 DEF Refuse, page, session
  <2>4. CASE w.awaited
    BY <2>1, <2>2, <2>3, <2>4, SentCurrent
  <2>5. CASE ~ w.awaited
    BY <2>1, <2>3, <2>5, SameCurrent
  <2> QED
    BY <2>4, <2>5
<1>14. inbox # <<>> => 1 \in 1 .. Len(inbox) /\ Head(inbox) = inbox[1]
  BY Tailed DEF Messages
<1>15. ASSUME ReceiveSnapshot \/ ReceiveSyncError \/ ReceiveJoined \/ ReceiveIgnored \/ ReceiveReplaced
       PROVE Current'
  <2>1. ReceiveIgnored => ~ joined'
    <3>1. ReceiveIgnored => awaiting = "join" /\ joined' = joined
      BY <1>14 DEF ReceiveIgnored, Receive, Replies, JoinReplies
    <3> QED
      BY <3>1 DEF Timers
  <2>2. /\ UNCHANGED <<missed, room, state, announcing, work>> /\ inbox # <<>> /\ inbox' = Tail(inbox)
        /\ \/ ~ joined'
           \/ inbox[1].kind \in Snapshots /\ shown' = inbox[1].reads
           \/ inbox[1].kind \notin Snapshots /\ shown' = shown /\ (joined' => joined)
    BY <1>14, <1>15, <2>1
       DEF ReceiveSnapshot, ReceiveSyncError, ReceiveJoined, ReceiveReplaced, ReceiveIgnored, Receive,
           session, server, Snapshots
  <2> QED
    BY <2>2, TakenCurrent
<1>16. CASE ReceiveBusy
  <2>1. /\ inbox # <<>> /\ inbox[1].kind = "busy" /\ JoinFailed /\ UNCHANGED <<missed, shown, state, announcing>>
    BY <1>14, <1>16 DEF ReceiveBusy, session
  <2>2. CASE joins + 1 >= MaxReconnects
    BY <2>1, <2>2, JoinFailedParts, OutsideCurrent DEF Cleared
  <2>3. CASE ~ (joins + 1 >= MaxReconnects)
    <3>1. UNCHANGED <<room, joined>> /\ work' = Abandoned /\ inbox' = Tail(inbox)
      BY <1>16, <2>1, <2>3, JoinFailedParts DEF ReceiveBusy
    <3>2. inbox[1].kind \notin Snapshots
      BY <2>1 DEF Snapshots
    <3> QED
      BY <2>1, <3>1, <3>2, AbandonedParts, TakenCurrent
  <2> QED
    BY <2>2, <2>3
<1>17. CASE ReceiveClosed
  <2>1. Closing
    BY <1>14, <1>17, ClosingParts DEF ReceiveClosed, Receive
  <2>2. room' = FALSE /\ work' = {}
    BY <1>17, <2>1 DEF ReceiveClosed, Goodbye, server, Types
  <2> QED
    BY <2>2, OutsideCurrent
<1> QED
  BY <1>1, <1>2, <1>3, <1>4, <1>5, <1>6, <1>7, <1>8, <1>9, <1>10, <1>11, <1>12, <1>13, <1>15,
     <1>16, <1>17, Steps

\* With nothing on its way a connected page shows the session's state, for any
\* number of changes and messages, unless a broadcast failed or crossed another
\* one or a reply.
THEOREM ShowsLatest == Spec => []LatestShown
<1>1. Init => Showing
  <2>1. Init => Current /\ NeverStranded
    BY DEF Init, Current, NeverStranded
  <2> QED
    BY <2>1, InitCalls DEF Showing
<1>2. Showing /\ [Next]_vars => Showing'
  BY NextCalls, NextStranded, NextCurrent DEF Showing
<1>3. Showing => LatestShown
  <2> SUFFICES ASSUME Showing, connection = "connected", announcing = {}, work = {}, inbox = <<>>, ~ missed
               PROVE shown = state
    BY DEF LatestShown
  <2>1. ~ Closing /\ joined /\ room
    BY DEF Showing, NeverStranded, Calls, Inside, Closing
  <2>2. Announces(shown)
    BY <2>1 DEF Showing, Current
  <2>3. shown \in 0 .. state /\ state \in Nat
    BY TypeParts DEF Showing, Calls, Types
  <2>4. shown + 1 \notin (shown + 1) .. state
    BY <2>2, <2>3 DEF Announces
  <2> QED
    BY <2>3, <2>4
<1> QED
  BY <1>1, <1>2, <1>3, PTL DEF Spec

=============================================================================
