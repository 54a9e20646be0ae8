----------------------------- MODULE Attendance -----------------------------
(***************************************************************************)
(* Who takes part in one live quiz session: registrations, attendance,      *)
(* socket presence and the right to answer                                  *)
(* (apps/api/src/modules/live-sessions/{service,repository,realtime,        *)
(* live-store}.ts and apps/api/src/modules/registrations).                  *)
(*                                                                          *)
(* PostgreSQL holds registrations, attendance and results; Redis holds one  *)
(* active socket per user, changed by scripts; the process holds the        *)
(* sockets, the joins between two awaits, the handlers of registration      *)
(* changes, and a cache of users whose registration it has confirmed.       *)
(* Joining, unregistering and starting take no common lock.                 *)
(*                                                                          *)
(* Which question an answer is to is LiveSession's.                          *)
(***************************************************************************)
EXTENDS Integers

CONSTANTS
    Participant,   \* users who may register
    Socket,        \* participant connections at a time
    NoUser,        \* a socket that is not in use
    NoSocket,      \* no socket
    MaxCrashes     \* bound on API restarts

ASSUME NoneAssumption == NoUser \notin Participant /\ NoSocket \notin Socket
ASSUME CrashAssumption == MaxCrashes \in Nat

VARIABLES
    state,          \* live_quiz_sessions.state, LIVE for every started one
    allowLateJoin,  \* live_quiz_sessions.allowLateJoin
    registered,     \* users with a REGISTERED quiz_registrations row
    participation,  \* participant_sessions
    answered,       \* users with an accepted answer
    results,        \* users with a quiz_results row
    presence,       \* Redis: the active socket of each user
    confirmed,      \* SessionCache.confirmed
    socket,         \* the connections and the joins under way on them
    removal,        \* applyRegistrationChange(registered: false) under way
    crashes,        \* restarts so far
    failed          \* history: a join or a handler failed halfway

db == <<state, allowLateJoin, registered, participation, answered, results>>
env == <<crashes, failed>>
vars == <<db, presence, confirmed, socket, removal, env>>

SocketOrNone == Socket \cup {NoSocket}
\* role is socket.data.role; joining is how far a join has come; replaced the
\* socket it took the user's presence from; releasing a release not run yet.
Fresh(p) ==
    [user |-> p, open |-> TRUE, role |-> FALSE, joining |-> "no",
     replaced |-> NoSocket, releasing |-> FALSE]
Unused == [Fresh(NoUser) EXCEPT !.open = FALSE]
NoRemoval == [pc |-> "none", socket |-> NoSocket]

TypeOK ==
    /\ state \in {"LOBBY", "LIVE", "COMPLETED"}
    /\ allowLateJoin \in BOOLEAN
    /\ registered \subseteq Participant
    /\ participation \subseteq Participant
    /\ answered \subseteq Participant
    /\ results \subseteq Participant
    /\ presence \in [Participant -> SocketOrNone]
    /\ confirmed \subseteq Participant
    /\ socket \in [Socket ->
            [user : Participant \cup {NoUser}, open : BOOLEAN, role : BOOLEAN,
             joining : {"no", "recording", "claiming", "returning"},
             replaced : SocketOrNone, releasing : BOOLEAN]]
    /\ \A s \in Socket :
        /\ socket[s].replaced # NoSocket => socket[s].joining = "returning"
        /\ socket[s].role => socket[s].user # NoUser
    /\ removal \in [Participant ->
            [pc : {"none", "evict", "remove"}, socket : SocketOrNone]]
    /\ crashes \in 0..MaxCrashes
    /\ failed \in BOOLEAN

\* openLobby has created the session of a published quiz.
Init ==
    /\ state = "LOBBY"
    /\ allowLateJoin \in BOOLEAN
    /\ registered \in SUBSET Participant
    /\ participation = {}
    /\ answered = {}
    /\ results = {}
    /\ presence = [p \in Participant |-> NoSocket]
    /\ confirmed = {}
    /\ socket = [s \in Socket |-> Unused]
    /\ removal = [p \in Participant |-> NoRemoval]
    /\ crashes = 0
    /\ failed = FALSE

-----------------------------------------------------------------------------
(* Registration.                                                             *)

\* register_participant: open until the host starts.
Register(p) ==
    /\ state = "LOBBY"
    /\ p \notin registered
    /\ registered' = registered \cup {p}
    /\ UNCHANGED <<state, allowLateJoin, participation, answered, results,
                   presence, confirmed, socket, removal, env>>

\* A mutation of UnregisterOpen: only a completed quiz refuses it.
UnregisterWhileLive == state # "COMPLETED"

\* unregister is refused once the quiz is LIVE.
UnregisterOpen == state = "LOBBY"

\* unregister, and the event that starts its handler.  Bound: one handler per
\* user at a time.
Unregister(p) ==
    /\ UnregisterOpen
    /\ p \in registered
    /\ removal[p].pc = "none"
    /\ registered' = registered \ {p}
    /\ removal' = [removal EXCEPT ![p].pc = "evict"]
    /\ UNCHANGED <<state, allowLateJoin, participation, answered, results,
                   presence, confirmed, socket, env>>

\* applyRegistrationChange finds the session, unless it is over, and evicts
\* the user's presence, whichever socket holds it.
Evict(p) ==
    /\ removal[p].pc = "evict"
    /\ IF state = "COMPLETED"
       THEN /\ removal' = [removal EXCEPT ![p] = NoRemoval]
            /\ UNCHANGED presence
       ELSE /\ removal' = [removal EXCEPT ![p] =
                    [pc |-> "remove", socket |-> presence[p]]]
            /\ presence' = [presence EXCEPT ![p] = NoSocket]
    /\ UNCHANGED <<db, confirmed, socket, env>>

\* A connection closes: release, a no-op unless its join has returned.  One
\* that is closed already, where a late join has set the role, stays as it is.
Closed(s) ==
    IF socket[s].open
    THEN [socket[s] EXCEPT !.open = FALSE, !.role = FALSE,
                           !.releasing = @ \/ socket[s].role]
    ELSE socket[s]

\* removeParticipation, and the evicted socket is disconnected.
RemoveParticipation(p) ==
    /\ removal[p].pc = "remove"
    /\ participation' = participation \ {p}
    /\ socket' = [s \in Socket |->
                    IF s = removal[p].socket THEN Closed(s) ELSE socket[s]]
    /\ removal' = [removal EXCEPT ![p] = NoRemoval]
    /\ UNCHANGED <<state, allowLateJoin, registered, answered, results,
                   presence, confirmed, env>>

\* A call of the handler fails: the rest is left undone, with a warning.
HandlerFails(p) ==
    /\ removal[p].pc # "none"
    /\ removal' = [removal EXCEPT ![p] = NoRemoval]
    /\ failed' = TRUE
    /\ UNCHANGED <<db, presence, confirmed, socket, crashes>>

-----------------------------------------------------------------------------
(* Sockets.                                                                  *)

\* issueTicket wants a registration; the socket connects with the ticket.
\* Socket ids are never used again while Redis or a join knows them.
Connect(s, p) ==
    /\ ~socket[s].open /\ ~socket[s].releasing /\ socket[s].joining = "no"
    /\ \A q \in Participant : s \notin {presence[q], removal[q].socket}
    /\ \A t \in Socket : socket[t].replaced # s
    /\ p \in registered
    /\ socket' = [socket EXCEPT ![s] = Fresh(p)]
    /\ UNCHANGED <<db, presence, confirmed, removal, env>>

\* join, up to the last check before the attendance is written: registered,
\* not over, and after the start late joining or an earlier entry.  A client
\* that leaves joins again once its leave is answered.
JoinAdmitted(s) ==
    /\ socket[s].open /\ socket[s].joining = "no" /\ ~socket[s].releasing
    /\ socket[s].user \in registered
    /\ \/ state = "LOBBY"
       \/ state = "LIVE" /\ (allowLateJoin \/ socket[s].user \in participation)
    /\ socket' = [socket EXCEPT ![s].joining = "recording"]
    /\ UNCHANGED <<db, presence, confirmed, removal, env>>

\* recordJoin: an upsert that looks at nothing again.
RecordJoin(s) ==
    /\ socket[s].joining = "recording"
    /\ participation' = participation \cup {socket[s].user}
    /\ socket' = [socket EXCEPT ![s].joining = "claiming"]
    /\ UNCHANGED <<state, allowLateJoin, registered, answered, results,
                   presence, confirmed, removal, env>>

\* A mutation of Replaced: the socket whose place is taken is not told.
ReplacedForgotten(s) == NoSocket

\* CLAIM_SCRIPT returns the previous active socket.
Replaced(s) ==
    IF presence[socket[s].user] = s THEN NoSocket ELSE presence[socket[s].user]

\* claimPresence: the newest socket is the user's active one.
ClaimPresence(s) ==
    /\ socket[s].joining = "claiming"
    /\ presence' = [presence EXCEPT ![socket[s].user] = s]
    /\ socket' = [socket EXCEPT ![s].joining = "returning",
                                ![s].replaced = Replaced(s)]
    /\ UNCHANGED <<db, confirmed, removal, env>>

\* A mutation of JoinReturns: the replaced socket is left on the record.
JoinReturnsUncleared(s) ==
    /\ socket[s].joining = "returning"
    /\ socket' = [t \in Socket |->
            CASE t = s -> [socket[s] EXCEPT !.role = TRUE, !.joining = "no"]
              [] t = socket[s].replaced /\ t # s -> Closed(t)
              [] OTHER -> socket[t]]
    /\ UNCHANGED <<db, presence, confirmed, removal, env>>

\* The join handler goes on with the snapshot: the role is set, whether or
\* not the socket is still connected, and a replaced socket disconnected.
JoinReturns(s) ==
    /\ socket[s].joining = "returning"
    /\ socket' = [t \in Socket |->
            CASE t = s -> [socket[s] EXCEPT !.role = TRUE, !.joining = "no",
                                            !.replaced = NoSocket]
              [] t = socket[s].replaced /\ t # s -> Closed(t)
              [] OTHER -> socket[t]]
    /\ UNCHANGED <<db, presence, confirmed, removal, env>>

\* recordJoin, claimPresence or the snapshot fails, or its reply is lost: the
\* client gets an error, nothing of the rest is done and nothing undone.
JoinFails(s) ==
    /\ socket[s].joining # "no"
    /\ socket' = [socket EXCEPT ![s].joining = "no", ![s].replaced = NoSocket]
    /\ failed' = TRUE
    /\ UNCHANGED <<db, presence, confirmed, removal, crashes>>

\* The connection closes: by its user, or its network.
Disconnect(s) ==
    /\ socket[s].open
    /\ socket' = [socket EXCEPT ![s] = Closed(s)]
    /\ UNCHANGED <<db, presence, confirmed, removal, env>>

\* The leave command keeps the connection.  A client leaves once its join is
\* answered.
Leave(s) ==
    /\ socket[s].open /\ socket[s].role /\ socket[s].joining = "no"
    /\ socket' = [socket EXCEPT ![s].role = FALSE, ![s].releasing = TRUE]
    /\ UNCHANGED <<db, presence, confirmed, removal, env>>

\* A mutation of Released: whichever socket holds the presence.
ReleasedAny(s) == TRUE

\* RELEASE_SCRIPT: only while this socket is the user's active one.
Released(s) == presence[socket[s].user] = s

\* release, and the end of the leave command if it was one.
ReleasePresence(s) ==
    /\ socket[s].releasing
    /\ presence' = IF Released(s)
                   THEN [presence EXCEPT ![socket[s].user] = NoSocket]
                   ELSE presence
    /\ socket' = [socket EXCEPT ![s].releasing = FALSE,
                                ![s].role = @ /\ ~socket[s].open]
    /\ UNCHANGED <<db, confirmed, removal, env>>

\* Redis does not answer: the presence is left behind.
ReleaseFails(s) ==
    /\ socket[s].releasing
    /\ socket' = [socket EXCEPT ![s].releasing = FALSE]
    /\ UNCHANGED <<db, presence, confirmed, removal, env>>

\* submit, with an answer that is accepted: from the user's active socket and
\* by a registered user, known from the cache or looked up and kept there.
Answer(s) ==
    /\ socket[s].open /\ socket[s].role
    /\ state = "LIVE"
    /\ presence[socket[s].user] = s
    /\ socket[s].user \in confirmed \cup registered
    /\ answered' = answered \cup {socket[s].user}
    /\ confirmed' = confirmed \cup {socket[s].user}
    /\ UNCHANGED <<state, allowLateJoin, registered, participation, results,
                   presence, socket, removal, env>>

-----------------------------------------------------------------------------
(* The host and the process.                                                 *)

Start ==
    /\ state = "LOBBY"
    /\ state' = "LIVE"
    /\ UNCHANGED <<allowLateJoin, registered, participation, answered, results,
                   presence, confirmed, socket, removal, env>>

SetLateJoin ==
    /\ state # "COMPLETED"
    /\ allowLateJoin' = ~allowLateJoin
    /\ UNCHANGED <<state, registered, participation, answered, results,
                   presence, confirmed, socket, removal, env>>

\* end: a result for everyone who entered; the caches are forgotten.
End ==
    /\ state # "COMPLETED"
    /\ state' = "COMPLETED"
    /\ results' = participation
    /\ confirmed' = {}
    /\ UNCHANGED <<allowLateJoin, registered, participation, answered,
                   presence, socket, removal, env>>

\* The API stops and starts again: connections, joins, handlers and caches
\* are gone, and the presence of an unfinished session is reset.
Restart ==
    /\ crashes < MaxCrashes
    /\ crashes' = crashes + 1
    /\ socket' = [s \in Socket |-> Unused]
    /\ removal' = [p \in Participant |-> NoRemoval]
    /\ confirmed' = {}
    /\ presence' = IF state = "COMPLETED" THEN presence
                   ELSE [p \in Participant |-> NoSocket]
    /\ UNCHANGED <<db, failed>>

-----------------------------------------------------------------------------

UserStep(p) ==
    \/ Register(p)
    \/ Unregister(p)
    \/ Evict(p)
    \/ RemoveParticipation(p)
    \/ HandlerFails(p)
    \/ \E s \in Socket : Connect(s, p)

SocketStep(s) ==
    \/ JoinAdmitted(s)
    \/ RecordJoin(s)
    \/ ClaimPresence(s)
    \/ JoinReturns(s)
    \/ JoinFails(s)
    \/ Disconnect(s)
    \/ Leave(s)
    \/ ReleasePresence(s)
    \/ ReleaseFails(s)
    \/ Answer(s)

Next ==
    \/ \E p \in Participant : UserStep(p)
    \/ \E s \in Socket : SocketStep(s)
    \/ Start
    \/ SetLateJoin
    \/ End
    \/ Restart

Spec == Init /\ [][Next]_vars

-----------------------------------------------------------------------------
(* Properties.                                                               *)

\* Every accepted answer is by a registered user, and stays so, although the
\* registration is looked up only once: what the cache confirms cannot go
\* stale while the session runs, since unregistering is over by then.
AnswersByRegistered == answered \cup confirmed \subseteq registered

\* A connected, joined socket loses its user's presence only to a newer socket
\* of that user, to an unregistration or with the process: never to the release
\* of a socket it replaced.
NewestKeepsPresence ==
    [][\A p \in Participant, s \in Socket :
        /\ presence[p] = s /\ socket[s].open /\ socket[s].role
        /\ presence'[p] # s
        => \/ presence'[p] # NoSocket
           \/ removal[p].pc = "evict"
           \/ crashes' # crashes]_vars

\* A connected socket that has joined is its user's active one, or somebody is
\* about to disconnect it: the join that replaced it, or the unregistration
\* that evicted it.  No tab stays in the room that could not answer, unless
\* a join or an unregistration failed halfway.
NoZombieSocket ==
    ~failed => \A s \in Socket :
        socket[s].open /\ socket[s].role =>
            \/ presence[socket[s].user] = s
            \/ \E t \in Socket : socket[t].replaced = s
            \/ removal[socket[s].user].socket = s

\* "Unregistered users are no longer attendees of this session" (repository.ts,
\* removeParticipation): when no registration change is being applied and no
\* join is under way, and none failed, every attendee is registered.
AttendeesAreRegistered ==
    (/\ ~failed
     /\ \A p \in Participant : removal[p].pc = "none"
     /\ \A s \in Socket : socket[s].joining = "no")
    => participation \subseteq registered

=============================================================================
