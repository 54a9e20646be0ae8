----------------------------- MODULE LiveClient -----------------------------
(***************************************************************************)
(* One page in a live room: the connection that useLiveSession keeps up, and *)
(* the snapshot it shows, against a server that changes the session's state, *)
(* answers joins and syncs, and broadcasts.                                  *)
(*                                                                           *)
(* The state of the session is a number that grows with every change; a      *)
(* snapshot is the number it was read at. A socket delivers in order; what   *)
(* the server prepares for it at the same time is sent in any order. Who     *)
(* holds the presence is Attendance's subject, the deadlines behind a        *)
(* change LiveSession's.                                                     *)
(***************************************************************************)
EXTENDS Integers, Sequences, FiniteSets

CONSTANTS
    MaxReconnects, \* MAX_RECONNECT_ATTEMPTS
    MaxChanges,    \* bound: changes of the session's state
    MaxInbox       \* bound: messages on their way to the page

ASSUME ClientAssumption ==
    MaxReconnects \in Nat \ {0} /\ MaxChanges \in Nat /\ MaxInbox \in Nat \ {0}

VARIABLES
    connection, \* what the page shows of its connection
    refused,    \* it shows a failure, which leaves no retry
    stopped,    \* a removal or a refusal stopped this generation
    joined,     \* joinedRef
    link,       \* the socket
    attempts,   \* transport attempts since it was last open
    handshakes, \* handshakeRetries
    joins,      \* joinRetries
    timer,      \* the retry timer that runs
    awaiting,   \* the call whose acknowledgement the page awaits
    shown,      \* the snapshot it shows
    state,      \* state of the session
    announcing, \* changes whose broadcast is being prepared
    work,       \* calls of this socket that the server is at
    room,       \* the socket is in the session's room
    inbox,      \* messages on their way to the page
    flooded,    \* history: the server closed this socket without a word
    missed      \* history: a broadcast failed, or crossed another one or a reply

page == <<connection, refused, stopped, joined, attempts, handshakes, joins,
          timer, awaiting, shown>>
session == <<state, announcing>>
server == <<work, room>>
vars == <<page, link, session, server, inbox, flooded, missed>>

Given == {"replaced", "failed"}

\* setConnection, which never takes back a replacement or a failure.
Show(status) == connection' = IF connection \in Given THEN connection ELSE status
ShowFailed == connection' = IF connection = "replaced" THEN connection ELSE "failed"

\* The server forgets the socket; what it was preparing for it reaches nobody.
Forget == work' = {} /\ room' = FALSE

Call(op) == [op |-> op, at |-> "called", reads |-> 0, awaited |-> TRUE]
Message(kind, reads) == [kind |-> kind, reads |-> reads]
Send(messages) == inbox' = inbox \o messages

\* The server has closed the socket; what the page still sends gets nowhere.
Closing == \E i \in DOMAIN inbox : inbox[i].kind = "closed"

Ask(op) ==
    /\ awaiting' = op
    /\ work' = IF Closing THEN work ELSE work \cup {Call(op)}

\* The page's call is over: its work at the server goes on unawaited.
Abandoned == {[w EXCEPT !.awaited = FALSE] : w \in work}

-----------------------------------------------------------------------------
Init ==
    /\ connection = "connecting" /\ refused = FALSE /\ stopped = FALSE
    /\ joined = FALSE /\ link = "opening"
    /\ attempts = 0 /\ handshakes = 0 /\ joins = 0
    /\ timer = "none" /\ awaiting = "none"
    /\ shown = 0 /\ state = 0 /\ announcing = {}
    /\ work = {} /\ room = FALSE /\ inbox = <<>>
    /\ flooded = FALSE /\ missed = FALSE

(* Connecting                                                                *)

Open ==
    /\ link = "opening"
    /\ link' = "handshake" /\ attempts' = 0
    /\ UNCHANGED <<connection, refused, stopped, joined, handshakes, joins, timer,
                   awaiting, shown, session, server, inbox, flooded, missed>>

(* The transport does not open: Socket.IO tries again, then gives up.        *)
OpenFails ==
    /\ link = "opening"
    /\ IF attempts = MaxReconnects
       THEN link' = "down" /\ attempts' = 0 /\ Show("failed")
       ELSE attempts' = attempts + 1 /\ UNCHANGED <<link, connection>>
    /\ UNCHANGED <<refused, stopped, joined, handshakes, joins, timer, awaiting,
                   shown, session, server, inbox, flooded, missed>>

(* 'connect': the ticket was good, and the page joins.                       *)
Connect ==
    /\ link = "handshake"
    /\ link' = "up" /\ joins' = 0
    /\ work' = {Call("join")} /\ awaiting' = "join"
    /\ missed' = FALSE
    /\ UNCHANGED <<connection, refused, stopped, joined, attempts, handshakes, timer,
                   shown, session, room, inbox, flooded>>

(* The ticket is refused for good (403, 404); the handshake goes on without. *)
TicketRefused ==
    /\ link = "handshake"
    /\ stopped' = TRUE /\ refused' = TRUE /\ connection' = "failed"
    /\ link' = "ticketless"
    /\ UNCHANGED <<joined, attempts, handshakes, joins, timer, awaiting, shown,
                   session, server, inbox, flooded, missed>>

(* connect_error of a refused handshake: no ticket, or an expired one.       *)
HandshakeRefused ==
    /\ link \in {"handshake", "ticketless"}
    /\ link' = "down"
    /\ IF stopped THEN UNCHANGED <<connection, handshakes, timer>>
       ELSE IF handshakes + 1 >= MaxReconnects
       THEN ShowFailed /\ handshakes' = MaxReconnects /\ UNCHANGED timer
       ELSE Show("reconnecting") /\ handshakes' = handshakes + 1 /\ timer' = "handshake"
    /\ UNCHANGED <<refused, stopped, joined, attempts, joins, awaiting, shown,
                   session, server, inbox, flooded, missed>>

HandshakeTimer ==
    /\ timer = "handshake"
    /\ timer' = "none" /\ link' = "opening"
    /\ UNCHANGED <<connection, refused, stopped, joined, attempts, handshakes, joins,
                   awaiting, shown, session, server, inbox, flooded, missed>>

\* A mutation of Drop: joinedRef is left as it was.
DropStillJoined ==
    /\ link \in {"handshake", "ticketless", "up"}
    /\ link' = "opening" /\ attempts' = 1 /\ Forget /\ inbox' = <<>>
    /\ awaiting' = "none" /\ timer' = "none"
    /\ Show("reconnecting")
    /\ UNCHANGED <<refused, stopped, joined, handshakes, joins, shown,
                   session, flooded, missed>>

(* The network fails: the transport reconnects by itself, without the first  *)
(* attempt of a new connection; a pending call is rejected and finds the     *)
(* socket closed.                                                            *)
Drop ==
    /\ link \in {"handshake", "ticketless", "up"}
    /\ link' = "opening" /\ attempts' = 1 /\ Forget /\ inbox' = <<>>
    /\ joined' = FALSE /\ awaiting' = "none" /\ timer' = "none"
    /\ Show("reconnecting")
    /\ UNCHANGED <<refused, stopped, handshakes, joins, shown, session, flooded,
                   missed>>

(* The manual retry, which the page offers while it is reconnecting and when *)
(* it failed without a refusal, starts a generation of its own.              *)
Reconnect ==
    /\ ~ joined
    /\ connection = "reconnecting" \/ (connection = "failed" /\ ~ refused)
    /\ connection' = "reconnecting" /\ refused' = FALSE /\ stopped' = FALSE
    /\ link' = "opening" /\ attempts' = 0 /\ handshakes' = 0 /\ joins' = 0
    /\ timer' = "none" /\ awaiting' = "none"
    /\ Forget /\ inbox' = <<>> /\ flooded' = FALSE
    /\ UNCHANGED <<joined, shown, session, missed>>

-----------------------------------------------------------------------------
(* Calls                                                                     *)

\* A join without an answer, or with one that trying again may change.
JoinFailed ==
    /\ ~ stopped
    /\ awaiting' = "none"
    /\ joins' = joins + 1
    /\ IF joins + 1 >= MaxReconnects
       THEN /\ connection' = "failed"
            /\ stopped' = TRUE /\ joined' = FALSE /\ timer' = "none"
            /\ link' = "down" /\ Forget /\ inbox' = <<>>
       ELSE /\ connection' = IF connection = "connecting" THEN connection
                             ELSE "reconnecting"
            /\ timer' = "join"
            /\ work' = Abandoned
            /\ UNCHANGED <<stopped, joined, link, room>>

(* The join timer, cleared whenever the socket closes or the page stops: it  *)
(* joins again on the same socket.                                           *)
JoinTimer ==
    /\ timer = "join"
    /\ timer' = "none"
    /\ Ask("join")
    /\ UNCHANGED <<connection, refused, stopped, joined, attempts, handshakes, joins,
                   shown, link, session, room, inbox, flooded, missed>>

(* resync: by the countdown, a late answer's refusal, or the nudge after it. *)
Resync ==
    /\ link = "up" /\ joined /\ awaiting = "none"
    /\ Ask("sync")
    /\ UNCHANGED <<connection, refused, stopped, joined, attempts, handshakes, joins,
                   timer, shown, link, session, room, inbox, flooded, missed>>

(* Ten seconds without an acknowledgement.                                   *)
JoinTimesOut ==
    /\ awaiting = "join"
    /\ \E w \in work : w.awaited
    /\ JoinFailed
    /\ IF joins + 1 >= MaxReconnects THEN TRUE ELSE UNCHANGED inbox
    /\ UNCHANGED <<refused, attempts, handshakes, shown, session, flooded, missed>>

(* Nothing follows of a sync, or of a join of a stopped page.                *)
CallTimesOut ==
    /\ awaiting = "sync" \/ (awaiting = "join" /\ stopped)
    /\ \E w \in work : w.awaited
    /\ awaiting' = "none" /\ work' = Abandoned
    /\ UNCHANGED <<connection, refused, stopped, joined, attempts, handshakes, joins,
                   timer, shown, link, session, room, inbox, flooded, missed>>

-----------------------------------------------------------------------------
(* Server                                                                    *)

(* A host command or the close of a question, committed; its broadcast is    *)
(* still to be prepared.                                                     *)
Change ==
    /\ state < MaxChanges
    /\ state' = state + 1
    /\ announcing' = announcing \cup {state + 1}
    /\ UNCHANGED <<page, link, server, inbox, flooded, missed>>

\* A reply read before it is still to come, or a later broadcast went out first.
Crosses(change) ==
    \/ \E w \in work : w.at = "read" /\ w.reads < change
    \/ \E later \in (change + 1) .. state : later \notin announcing

(* broadcast, and the deliveries of questionEnded.                           *)
Broadcast(change) ==
    /\ change \in announcing
    /\ Len(inbox) < MaxInbox
    /\ announcing' = announcing \ {change}
    /\ inbox' = IF room THEN Append(inbox, Message("snapshot", change)) ELSE inbox
    /\ missed' = (missed \/ Crosses(change))
    /\ UNCHANGED <<page, link, state, server, flooded>>

(* A snapshot cannot be built: the failure is logged and nobody is told.     *)
BroadcastFails(change) ==
    /\ change \in announcing
    /\ announcing' = announcing \ {change}
    /\ missed' = TRUE
    /\ UNCHANGED <<page, link, state, server, inbox, flooded>>

(* join and sync read the session for their snapshot...                      *)
Read(w) ==
    /\ w \in work /\ w.at = "called"
    /\ work' = (work \ {w}) \cup {[w EXCEPT !.at = "read", !.reads = state]}
    /\ UNCHANGED <<page, link, session, room, inbox, flooded, missed>>

\* A mutation of Answer: the snapshot is returned and the room not entered.
AnswerOutside(w) ==
    /\ w \in work /\ w.at = "read"
    /\ Len(inbox) < MaxInbox
    /\ work' = work \ {w}
    /\ inbox' = IF w.awaited THEN Append(inbox, Message(w.op, w.reads)) ELSE inbox
    /\ UNCHANGED <<page, link, session, room, flooded, missed>>

(* ... and return it; a join has entered the room by then, and not before.   *)
Answer(w) ==
    /\ w \in work /\ w.at = "read"
    /\ Len(inbox) < MaxInbox
    /\ work' = work \ {w}
    /\ room' = (room \/ w.op = "join")
    /\ inbox' = IF w.awaited THEN Append(inbox, Message(w.op, w.reads)) ELSE inbox
    /\ UNCHANGED <<page, link, session, flooded, missed>>

(* An error: one a join gives up on, or another.                             *)
Refuse(w) ==
    /\ w \in work
    /\ Len(inbox) < MaxInbox
    /\ work' = work \ {w}
    /\ \E kind \in IF w.op = "join" THEN {"refusal", "busy"} ELSE {"error"} :
          inbox' = IF w.awaited THEN Append(inbox, Message(kind, 0)) ELSE inbox
    /\ UNCHANGED <<page, link, session, room, flooded, missed>>

\* The socket is disconnected by the server, after these messages.
CloseAfter(messages) ==
    /\ link = "up" /\ ~ Closing /\ Len(inbox) < MaxInbox
    /\ Send(messages \o <<Message("closed", 0)>>)
    /\ Forget

(* Told first: the room closed, the user unregistered or signed out; another *)
(* device took over.                                                         *)
Remove ==
    /\ CloseAfter(<<Message("removed", 0)>>)
    /\ UNCHANGED <<page, link, session, flooded, missed>>

Replace ==
    /\ room \/ \E w \in work : w.op = "join" /\ w.at = "read"
    /\ CloseAfter(<<Message("replaced", 0)>>)
    /\ UNCHANGED <<page, link, session, flooded, missed>>

(* Commands far past their budget: the socket is closed without a word.      *)
Flood ==
    /\ CloseAfter(<<>>)
    /\ flooded' = TRUE
    /\ UNCHANGED <<page, link, session, missed>>

-----------------------------------------------------------------------------
(* The page receives a message                                               *)

Receive(kinds) ==
    /\ link = "up" /\ inbox # <<>>
    /\ Head(inbox).kind \in kinds
    /\ inbox' = Tail(inbox)

(* receive: whatever arrives is shown.                                       *)
ReceiveSnapshot ==
    /\ Receive({"snapshot", "sync"})
    /\ shown' = Head(inbox).reads
    /\ awaiting' = IF Head(inbox).kind = "sync" THEN "none" ELSE awaiting
    /\ UNCHANGED <<connection, refused, stopped, joined, attempts, handshakes, joins,
                   timer, link, session, server, flooded, missed>>

ReceiveSyncError ==
    /\ Receive({"error"})
    /\ awaiting' = "none"
    /\ UNCHANGED <<connection, refused, stopped, joined, attempts, handshakes, joins,
                   timer, shown, link, session, server, flooded, missed>>

ReceiveJoined ==
    /\ Receive({"join"}) /\ ~ stopped
    /\ awaiting' = "none"
    /\ joined' = TRUE /\ connection' = "connected" /\ refused' = FALSE
    /\ handshakes' = 0 /\ joins' = 0
    /\ shown' = Head(inbox).reads
    /\ UNCHANGED <<stopped, attempts, timer, link, session, server, flooded, missed>>

\* A mutation of ReceiveBusy: a refused join waits for the next connection.
ReceiveBusyGivesUp ==
    /\ Receive({"busy"})
    /\ ~ stopped
    /\ awaiting' = "none"
    /\ UNCHANGED <<connection, refused, stopped, joined, attempts, handshakes, joins,
                   timer, shown, link, session, server, flooded, missed>>

ReceiveBusy ==
    /\ link = "up" /\ inbox # <<>> /\ Head(inbox).kind = "busy"
    /\ JoinFailed
    /\ IF joins + 1 >= MaxReconnects THEN TRUE ELSE inbox' = Tail(inbox)
    /\ UNCHANGED <<refused, attempts, handshakes, shown, session, flooded, missed>>

(* A stopped page takes no notice of how its join went.                      *)
ReceiveIgnored ==
    /\ Receive({"join", "busy", "refusal"}) /\ stopped
    /\ awaiting' = "none"
    /\ UNCHANGED <<connection, refused, stopped, joined, attempts, handshakes, joins,
                   timer, shown, link, session, server, flooded, missed>>

(* fail: a refusal that trying again cannot change, or a removal.            *)
ReceiveRefusal ==
    /\ link = "up" /\ inbox # <<>>
    /\ Head(inbox).kind = "removed" \/ (Head(inbox).kind = "refusal" /\ ~ stopped)
    /\ stopped' = TRUE /\ joined' = FALSE /\ refused' = TRUE
    /\ ShowFailed
    /\ timer' = "none" /\ awaiting' = "none" /\ link' = "down"
    /\ Forget /\ inbox' = <<>>
    /\ UNCHANGED <<attempts, handshakes, joins, shown, session, flooded, missed>>

ReceiveReplaced ==
    /\ Receive({"replaced"})
    /\ connection' = "replaced"
    /\ UNCHANGED <<refused, stopped, joined, attempts, handshakes, joins, timer,
                   awaiting, shown, link, session, server, flooded, missed>>

(* The server's disconnect: Socket.IO does not reconnect after it.           *)
ReceiveClosed ==
    /\ Receive({"closed"})
    /\ link' = "down" /\ joined' = FALSE /\ timer' = "none" /\ awaiting' = "none"
    /\ Show("reconnecting")
    /\ UNCHANGED <<refused, stopped, attempts, handshakes, joins, shown, session,
                   server, flooded, missed>>

-----------------------------------------------------------------------------
Connecting ==
    \/ Open \/ OpenFails \/ Connect \/ TicketRefused \/ HandshakeRefused
    \/ HandshakeTimer \/ Drop \/ Reconnect
Calling == JoinTimer \/ Resync \/ JoinTimesOut \/ CallTimesOut
Serving ==
    \/ Change \/ Remove \/ Replace \/ Flood
    \/ \E change \in announcing : Broadcast(change) \/ BroadcastFails(change)
    \/ \E w \in work : Read(w) \/ Answer(w) \/ Refuse(w)
Receiving ==
    \/ ReceiveSnapshot \/ ReceiveSyncError \/ ReceiveJoined \/ ReceiveBusy
    \/ ReceiveIgnored \/ ReceiveRefusal \/ ReceiveReplaced \/ ReceiveClosed

Next == Connecting \/ Calling \/ Serving \/ Receiving

Spec == Init /\ [][Next]_vars

-----------------------------------------------------------------------------
(* What should hold                                                          *)

(* Types, and: the page counts as joined only on an open socket, and only    *)
(* there does the server work for it or send to it.                          *)
TypeOK ==
    /\ connection \in {"connecting", "connected", "reconnecting", "replaced", "failed"}
    /\ {refused, stopped, joined, room, flooded, missed} \subseteq BOOLEAN
    /\ link \in {"opening", "handshake", "ticketless", "up", "down"}
    /\ {attempts, handshakes, joins} \subseteq 0 .. MaxReconnects
    /\ timer \in {"none", "handshake", "join"}
    /\ awaiting \in {"none", "join", "sync"}
    /\ shown \in 0 .. state /\ state \in 0 .. MaxChanges
    /\ announcing \subseteq 1 .. state
    /\ \A w \in work : w.op \in {"join", "sync"} /\ w.reads \in 0 .. state
    /\ joined \/ room \/ work # {} \/ inbox # <<>> \/ awaiting # "none" => link = "up"

(* A page that says it is connecting or reconnecting is doing so: its socket *)
(* is on its way, or a join, or a timer that starts one; the one exception   *)
(* is a socket the server closed without a word. And a page that says it is  *)
(* connected has joined on an open socket.                                   *)
NeverStranded ==
    /\ connection \in {"connecting", "reconnecting"} =>
          \/ link \in {"opening", "handshake"} \/ awaiting = "join" \/ timer # "none"
          \/ flooded
    /\ connection = "connected" => joined

(* With nothing on its way, a connected page shows the session's state,      *)
(* unless a broadcast failed, was sent out of order, or was sent while a     *)
(* reply read before it was still to come: a join reads before it enters the *)
(* room, and a page shows whatever arrives last.                             *)
LatestShown ==
    /\ connection = "connected" /\ announcing = {} /\ work = {} /\ inbox = <<>>
    => shown = state \/ missed

=============================================================================
