-------------------------- MODULE SessionDeadlines --------------------------
(***************************************************************************)
(* The deadlines of one live quiz session and the host's presence           *)
(* (apps/api/src/modules/live-sessions/service.ts, "Session deadlines" and  *)
(* "Host presence"): the lobby expires, a started quiz has a maximum        *)
(* length, and it ends when its host has been away for the grace period.    *)
(*                                                                          *)
(* Deadlines are derived from columns of the session row, armed as timers   *)
(* in the API process, armed again at boot, and checked by every            *)
(* interaction.  The host's presence is the process's set of host sockets;  *)
(* its changes are written to the row by updates nobody awaits.  Lifecycle  *)
(* changes hold a Redis lock that expires by itself.                        *)
(*                                                                          *)
(* Questions and participants are LiveSession's: here LIVE stands for all   *)
(* the states between LOBBY and COMPLETED.                                  *)
(***************************************************************************)
EXTENDS Integers, Sequences, SequencesExt

CONSTANTS
    Socket,        \* host connections at a time (a closed one may come again)
    Call,          \* concurrent calls of the service (bounds concurrency)
    NoCall,        \* the Redis lock is free
    LostCall,      \* the Redis lock is held by a process that is gone
    NoSocket,      \* a call that is not a host joining
    LobbyLimit,    \* LOBBY_MS, in clock ticks
    Grace,         \* HOST_GRACE_MS
    MaxLength,     \* MAX_SESSION_MS
    MaxWrites,     \* bound on presence writes in flight
    MaxCrashes,    \* bound on API restarts
    Horizon        \* bound on the clock

ASSUME CallAssumption == {NoCall, LostCall} \cap Call = {}
ASSUME SocketAssumption == NoSocket \notin Socket
ASSUME LimitAssumption ==
    /\ {LobbyLimit, Grace, MaxLength} \subseteq Nat \ {0}
    /\ {MaxWrites, MaxCrashes, Horizon} \subseteq Nat

Never == -1
Time == 0..Horizon

VARIABLES
    row,           \* live_quiz_sessions: state, startedAt, hostDisconnectedAt
    lock,          \* the Redis lock of lifecycle transitions
    up,            \* the process is running
    hostSockets,   \* LiveSessionsService.hostSockets
    deadlines,     \* LiveSessionsService.deadlines: when each timer fires
    writes,        \* setHostDisconnected calls in flight, as issued
    call,          \* service calls under way
    connected,     \* host sockets that are really connected
    now,           \* the clock
    crashes,       \* restarts so far
    \* history
    dropped,       \* a call that was to arm or apply a deadline failed
    disturbed      \* a presence write failed, was overtaken or took too long

process == <<up, hostSockets, deadlines>>
history == <<dropped, disturbed>>
env == <<connected, now, crashes>>
vars == <<row, lock, process, writes, call, env, history>>

Kinds == {"lobby", "hostGrace", "maxLength"}
Rows == [state : {"LOBBY", "LIVE", "COMPLETED", "DELETED"},
         startedAt : Time \cup {Never}, awayAt : Time \cup {Never}]
NewRow == [state |-> "LOBBY", startedAt |-> Never, awayAt |-> Never]
Commands == {"start", "end", "closeLobby"}
\* A call at pc; socket is the host's, if it is a host joining.
CallAt(pc, socket) == [pc |-> pc, socket |-> socket, row |-> NewRow]
IdleCall == CallAt("idle", NoSocket)
Unarmed == [k \in Kinds |-> Never]

CallRecords ==
    [pc : {"idle", "expiring", "expire", "expired", "ending", "autoEnd",
           "ended", "arriving", "reload", "arm", "rearm", "forget"}
          \cup Commands,
     socket : Socket \cup {NoSocket}, row : Rows]
\* Each timer is derived from a stored time.
DeadlinesOK ==
    /\ deadlines \in [Kinds -> Int]
    /\ deadlines["lobby"] \in {Never, LobbyLimit}
    /\ deadlines["hostGrace"] \in {Never} \cup {t + Grace : t \in Time}
    /\ deadlines["maxLength"] \in {Never} \cup {t + MaxLength : t \in Time}

TypeOK ==
    /\ row \in Rows
    /\ lock \in Call \cup {NoCall, LostCall}
    /\ up \in BOOLEAN
    /\ hostSockets \subseteq Socket
    /\ DeadlinesOK
    /\ writes \in Seq(Time \cup {Never}) /\ Len(writes) <= MaxWrites
    /\ call \in [Call -> CallRecords]
    /\ connected \subseteq Socket
    /\ now \in Time
    /\ crashes \in 0..MaxCrashes
    /\ dropped \in BOOLEAN /\ disturbed \in BOOLEAN

\* openLobby has created the session and armed its expiry.
Init ==
    /\ row = NewRow
    /\ lock = NoCall
    /\ up = TRUE
    /\ hostSockets = {}
    /\ deadlines = [Unarmed EXCEPT !["lobby"] = LobbyLimit]
    /\ writes = <<>>
    /\ call = [c \in Call |-> IdleCall]
    /\ connected = {}
    /\ now = 0
    /\ crashes = 0
    /\ dropped = FALSE /\ disturbed = FALSE

-----------------------------------------------------------------------------
(* Timers: arm and disarm.                                                   *)

Armed(kind, at) == [deadlines EXCEPT ![kind] = at]
Disarmed(kind) == [deadlines EXCEPT ![kind] = Never]

\* A mutation of ArmDeadlines: the host counts as away whatever the row says.
ArmDeadlinesAlwaysAway(session) ==
    [k \in Kinds |->
        CASE session.state = "LIVE" /\ k = "lobby" -> Never
          [] session.state = "LIVE" /\ k = "maxLength" ->
                session.startedAt + MaxLength
          [] session.state = "LIVE" /\ k = "hostGrace" ->
                session.awayAt + Grace
          [] OTHER -> deadlines[k]]

\* A mutation of ArmDeadlines: only the host's absence is armed.
ArmDeadlinesGraceOnly(session) ==
    IF session.state = "LIVE" /\ session.awayAt # Never
    THEN Armed("hostGrace", session.awayAt + Grace)
    ELSE deadlines

\* armDeadlines: what applies to the session in the state it was loaded in.
ArmDeadlines(session) ==
    [k \in Kinds |->
        CASE session.state = "LOBBY" /\ k = "lobby" -> LobbyLimit
          [] session.state = "LIVE" /\ k = "lobby" -> Never
          [] session.state = "LIVE" /\ k = "maxLength" ->
                session.startedAt + MaxLength
          [] /\ session.state = "LIVE" /\ k = "hostGrace"
             /\ session.awayAt # Never -> session.awayAt + Grace
          [] OTHER -> deadlines[k]]

-----------------------------------------------------------------------------
(* Calls.  Each takes the lock and runs its transaction; a call that fails    *)
(* only goes away.                                                           *)

Moves(c, pc) == call' = [call EXCEPT ![c].pc = pc]
Leaves(c) == call' = [call EXCEPT ![c] = IdleCall]
Unlocked(c) == IF lock = c THEN NoCall ELSE lock    \* UNLOCK_SCRIPT's token

\* enforceDeadlines: the deadline that has passed for this loaded session.
Passed(session) ==
    CASE session.state = "LOBBY" /\ LobbyLimit <= now -> "LOBBY_EXPIRED"
      [] session.state = "LIVE" /\ session.startedAt + MaxLength <= now ->
            "TIME_LIMIT"
      [] /\ session.state = "LIVE" /\ now < session.startedAt + MaxLength
         /\ session.awayAt # Never /\ session.awayAt + Grace <= now ->
            "HOST_AWAY"
      [] OTHER -> "none"

\* A call has loaded the session and applies the deadline that has passed; a
\* host joining goes on when there is none.
Enforces(c, socket) ==
    call' = [call EXCEPT ![c] =
        CASE Passed(row) = "LOBBY_EXPIRED" -> CallAt("expiring", socket)
          [] Passed(row) \in {"TIME_LIMIT", "HOST_AWAY"} ->
                CallAt("ending", socket)
          [] Passed(row) = "none" /\ socket # NoSocket ->
                CallAt("arriving", socket)
          [] OTHER -> IdleCall]

\* A timer fires: its entry is dropped, the session loaded and its deadlines
\* applied.  A deleted session is not found and nothing happens.
TimerFires(kind, c) ==
    /\ up /\ call[c].pc = "idle"
    /\ deadlines[kind] # Never /\ deadlines[kind] <= now
    /\ deadlines' = Disarmed(kind)
    /\ Enforces(c, NoSocket)
    /\ UNCHANGED <<row, lock, up, hostSockets, writes, env, history>>

\* Any sync or command loads the session and calls `current`, which changes
\* nothing unless a deadline has passed.
Interaction(c) ==
    /\ up /\ call[c].pc = "idle"
    /\ Passed(row) # "none"
    /\ Enforces(c, NoSocket)
    /\ UNCHANGED <<row, lock, process, writes, env, history>>

\* A host connection is opened and joins.
JoinBegins(s, c) ==
    /\ up /\ call[c].pc = "idle"
    /\ row.state # "DELETED"
    /\ s \notin connected \cup hostSockets
    /\ \A d \in Call : call[d].socket # s
    /\ connected' = connected \cup {s}
    /\ Enforces(c, s)
    /\ UNCHANGED <<row, lock, process, writes, now, crashes, history>>

\* enforceDeadlines returns to its caller: a host joining goes on.
Enforced(c) ==
    call' = [call EXCEPT ![c] =
        IF @.socket = NoSocket THEN IdleCall ELSE CallAt("arriving", @.socket)]

\* The lock is free.
EnforceLocked(c) ==
    /\ lock = NoCall
    /\ lock' = c
    /\ \/ call[c].pc = "expiring" /\ Moves(c, "expire")
       \/ call[c].pc = "ending" /\ Moves(c, "autoEnd")
    /\ UNCHANGED <<row, process, writes, env, history>>

\* The lock is held: the call fails with OPERATION_IN_PROGRESS, and a timer
\* is not armed again.
EnforceRefused(c) ==
    /\ call[c].pc \in {"expiring", "ending"}
    /\ lock # NoCall
    /\ Leaves(c)
    /\ dropped' = TRUE
    /\ UNCHANGED <<row, lock, process, writes, env, disturbed>>

\* The transaction fails: nothing is saved, the error is logged.
EnforceFails(c) ==
    /\ call[c].pc \in {"expire", "autoEnd"}
    /\ Leaves(c)
    /\ lock' = Unlocked(c)
    /\ dropped' = TRUE
    /\ UNCHANGED <<row, process, writes, env, disturbed>>

\* A mutation of RowExpires: the state is not checked again under the row lock.
RowExpiresUnchecked == LobbyLimit <= now

\* expireLobby's conditions under the row lock.
RowExpires == row.state = "LOBBY" /\ LobbyLimit <= now

\* repository.expireLobby: the unstarted session is deleted.  When somebody
\* was faster the caller goes on with the session it had loaded.
Expire(c) ==
    /\ call[c].pc = "expire"
    /\ lock' = Unlocked(c)
    /\ IF RowExpires
       THEN row' = [row EXCEPT !.state = "DELETED"] /\ Moves(c, "expired")
       ELSE row' = row /\ Enforced(c)
    /\ UNCHANGED <<process, writes, env, history>>

RowEnded ==
    IF row.state = "COMPLETED" THEN row ELSE [row EXCEPT !.state = "COMPLETED"]

\* repository.end, called by autoEnd: not refused unless already completed.
\* The decision to end is the loaded session's.
AutoEnd(c) ==
    /\ call[c].pc = "autoEnd"
    /\ lock' = Unlocked(c)
    /\ row' = RowEnded
    /\ IF row.state = "COMPLETED" THEN Enforced(c) ELSE Moves(c, "ended")
    /\ UNCHANGED <<process, writes, env, history>>

\* forget after the server closed or ended the session.  The caller of an
\* expired lobby is refused; that of an ended quiz goes on.
EnforceForgets(c) ==
    /\ call[c].pc \in {"expired", "ended"}
    /\ deadlines' = Unarmed
    /\ IF call[c].pc = "ended" THEN Enforced(c) ELSE Leaves(c)
    /\ UNCHANGED <<row, lock, up, hostSockets, writes, env, history>>

\* A host command that found the lock free (hostTransition, closeLobby); one
\* that did not is refused and changes nothing.
CommandBegins(cmd, c) ==
    /\ up /\ call[c].pc = "idle"
    /\ hostSockets # {}
    /\ row.state # "DELETED"
    /\ lock = NoCall
    /\ lock' = c
    /\ call' = [call EXCEPT ![c] = CallAt(cmd, NoSocket)]
    /\ UNCHANGED <<row, process, writes, env, history>>

\* The transaction is refused (state, allowance) or fails.
CommandRefused(c) ==
    /\ call[c].pc \in Commands
    /\ lock' = Unlocked(c)
    /\ Leaves(c)
    /\ UNCHANGED <<row, process, writes, env, history>>

StartCommits(c) ==
    /\ call[c].pc = "start"
    /\ row.state = "LOBBY"
    /\ row' = [row EXCEPT !.state = "LIVE", !.startedAt = now]
    /\ lock' = Unlocked(c)
    /\ Moves(c, "reload")
    /\ UNCHANGED <<process, writes, env, history>>

\* hostTransition loads the changed session, and start arms its deadlines.
StartReloads(c) ==
    /\ call[c].pc = "reload"
    /\ call' = [call EXCEPT ![c] = [CallAt("arm", NoSocket) EXCEPT !.row = row]]
    /\ UNCHANGED <<row, lock, process, writes, env, history>>

\* That load fails: the quiz is live, the host gets an error, nothing is armed.
StartReloadFails(c) ==
    /\ call[c].pc = "reload"
    /\ Leaves(c)
    /\ dropped' = TRUE
    /\ UNCHANGED <<row, lock, process, writes, env, disturbed>>

StartArms(c) ==
    /\ call[c].pc = "arm"
    /\ deadlines' = ArmDeadlines(call[c].row)
    /\ Leaves(c)
    /\ UNCHANGED <<row, lock, up, hostSockets, writes, env, history>>

\* openLobby for a quiz whose session is unfinished: the host gets that one,
\* and its deadlines are armed from the row as it is loaded.
OpenAgain(c) ==
    /\ up /\ call[c].pc = "idle"
    /\ row.state \in {"LOBBY", "LIVE"}
    /\ call' = [call EXCEPT ![c] = [CallAt("rearm", NoSocket) EXCEPT !.row = row]]
    /\ UNCHANGED <<row, lock, process, writes, env, history>>

OpenAgainArms(c) ==
    /\ call[c].pc = "rearm"
    /\ deadlines' = ArmDeadlines(call[c].row)
    /\ Leaves(c)
    /\ UNCHANGED <<row, lock, up, hostSockets, writes, env, history>>

\* end: idempotent, and not refused in the lobby.
EndCommits(c) ==
    /\ call[c].pc = "end"
    /\ row.state # "DELETED"
    /\ row' = RowEnded
    /\ lock' = Unlocked(c)
    /\ Moves(c, "forget")
    /\ UNCHANGED <<process, writes, env, history>>

CloseLobbyCommits(c) ==
    /\ call[c].pc = "closeLobby"
    /\ row.state = "LOBBY"
    /\ row' = [row EXCEPT !.state = "DELETED"]
    /\ lock' = Unlocked(c)
    /\ Moves(c, "forget")
    /\ UNCHANGED <<process, writes, env, history>>

\* forget, by end and closeLobby.  The sockets closeLobby disconnects leave
\* one by one (HostLeft).
CommandForgets(c) ==
    /\ call[c].pc = "forget"
    /\ deadlines' = Unarmed
    /\ Leaves(c)
    /\ UNCHANGED <<row, lock, up, hostSockets, writes, env, history>>

\* A reload or clearing the presence, on the way to forget, fails: the timers
\* of a session that is over stay armed.
ForgetFails(c) ==
    /\ call[c].pc \in {"expired", "ended", "forget"}
    /\ Leaves(c)
    /\ UNCHANGED <<row, lock, process, writes, env, history>>

\* closeRoom, by the host or by the server a while after the end.
CloseRoom ==
    /\ up
    /\ row.state = "COMPLETED"
    /\ hostSockets' = {}
    /\ deadlines' = Unarmed
    /\ UNCHANGED <<row, lock, up, writes, call, env, history>>

-----------------------------------------------------------------------------
(* The host's presence.                                                      *)

\* A mutation of ArrivalDisarms: disarm without a kind.
ArrivalDisarmsAll == Unarmed

\* The first connection stops the grace period and nothing else.
ArrivalDisarms == Disarmed("hostGrace")

ArrivalWrites == Append(writes, Never)

\* hostArrived, when the join gets there; whether the socket is still
\* connected is not looked at.
HostArrived(c) ==
    /\ call[c].pc = "arriving"
    /\ hostSockets = {} => Len(writes) < MaxWrites
    /\ hostSockets' = hostSockets \cup {call[c].socket}
    /\ IF hostSockets = {}
       THEN /\ deadlines' = ArrivalDisarms
            /\ writes' = ArrivalWrites
       ELSE UNCHANGED <<deadlines, writes>>
    /\ Leaves(c)
    /\ UNCHANGED <<row, lock, up, env, history>>

\* A socket disconnects or leaves: release, and hostLeft if it had joined.
\* A join still under way goes on.
HostLeft(s) ==
    /\ up
    /\ s \in connected
    /\ connected' = connected \ {s}
    /\ hostSockets' = hostSockets \ {s}
    /\ IF hostSockets = {s}
       THEN /\ Len(writes) < MaxWrites
            /\ deadlines' = Armed("hostGrace", now + Grace)
            /\ writes' = Append(writes, now)
       ELSE UNCHANGED <<deadlines, writes>>
    /\ UNCHANGED <<row, lock, up, call, now, crashes, history>>

\* setHostDisconnected reaches the database; an older one may still be on
\* its way.  It changes an unfinished session only.
WriteLands(i) ==
    /\ up
    /\ writes' = RemoveAt(writes, i)
    /\ row' = IF row.state \in {"LOBBY", "LIVE"}
              THEN [row EXCEPT !.awayAt = writes[i]] ELSE row
    /\ disturbed' = (disturbed \/ i # 1)
    /\ UNCHANGED <<lock, process, call, env, dropped>>

\* It fails: a warning is logged, nothing is tried again.
WriteFails ==
    /\ up
    /\ writes # <<>>
    /\ writes' = Tail(writes)
    /\ disturbed' = TRUE
    /\ UNCHANGED <<row, lock, process, call, env, dropped>>

-----------------------------------------------------------------------------
(* Redis, the process and the clock.                                         *)

\* LOCK_TTL_MS is shorter than what a transaction may take.
LockExpires ==
    /\ lock # NoCall
    /\ lock' = NoCall
    /\ UNCHANGED <<row, process, writes, call, env, history>>

Crash ==
    /\ up
    /\ crashes < MaxCrashes
    /\ crashes' = crashes + 1
    /\ up' = FALSE
    /\ hostSockets' = {}
    /\ deadlines' = Unarmed
    /\ writes' = <<>>
    /\ call' = [c \in Call |-> IdleCall]
    /\ connected' = {}
    /\ lock' = IF lock = NoCall THEN NoCall ELSE LostCall
    /\ UNCHANGED <<row, now, history>>

\* A mutation of MarkedDisconnected: a restart forgets who was away.
NotMarked == row

\* markHostsDisconnected: a started quiz's host is away from now, unless
\* away already.
MarkedDisconnected ==
    IF row.state = "LIVE" /\ row.awayAt = Never
    THEN [row EXCEPT !.awayAt = now] ELSE row

\* Boot: recoverDeadlines, before the server listens.
Restart ==
    /\ ~up
    /\ up' = TRUE
    /\ row' = MarkedDisconnected
    /\ deadlines' = ArmDeadlines(row')
    /\ UNCHANGED <<lock, hostSockets, writes, call, env, history>>

\* A tick is minutes: a presence write that takes longer has gone wrong.
Tick ==
    /\ now < Horizon
    /\ now' = now + 1
    /\ disturbed' = (disturbed \/ writes # <<>>)
    /\ UNCHANGED <<row, lock, process, writes, call, connected, crashes,
                   dropped>>

-----------------------------------------------------------------------------

EnforceStep(c) ==
    \/ EnforceLocked(c)
    \/ EnforceRefused(c)
    \/ EnforceFails(c)
    \/ Expire(c)
    \/ AutoEnd(c)
    \/ EnforceForgets(c)

CommandStep(c) ==
    \/ CommandRefused(c)
    \/ StartCommits(c)
    \/ StartReloads(c)
    \/ StartReloadFails(c)
    \/ StartArms(c)
    \/ OpenAgainArms(c)
    \/ EndCommits(c)
    \/ CloseLobbyCommits(c)
    \/ CommandForgets(c)
    \/ ForgetFails(c)

CallStep(c) == EnforceStep(c) \/ CommandStep(c) \/ HostArrived(c)
WriteStep == (\E i \in DOMAIN writes : WriteLands(i)) \/ WriteFails

Next ==
    \/ \E c \in Call :
        \/ \E k \in Kinds : TimerFires(k, c)
        \/ Interaction(c)
        \/ \E s \in Socket : JoinBegins(s, c)
        \/ \E cmd \in Commands : CommandBegins(cmd, c)
        \/ OpenAgain(c)
        \/ CallStep(c)
    \/ \E s \in Socket : HostLeft(s)
    \/ CloseRoom
    \/ WriteStep
    \/ LockExpires
    \/ Crash
    \/ Restart
    \/ Tick

Spec == Init /\ [][Next]_vars

\* Node fires the timers and resumes what is awaited, the database answers,
\* time passes and the process is restarted; nobody has to do anything.
\* Strong fairness where the bounds on calls and writes take turns.
Fairness ==
    /\ WF_vars(Tick)
    /\ WF_vars(Restart)
    /\ WF_vars(WriteStep)
    /\ \A k \in Kinds : SF_vars(\E c \in Call : TimerFires(k, c))
    /\ \A c \in Call : SF_vars(CallStep(c))

FairSpec == Spec /\ Fairness

-----------------------------------------------------------------------------
(* Properties.                                                               *)

\* A quiz that has started is never deleted by an expiring or closing lobby,
\* nor started again, and one that is over stays as it was when it ended,
\* however the server's deadlines and the host's commands race.
StartedIsKept ==
    [][/\ row.state = "LIVE" =>
            /\ row'.state \in {"LIVE", "COMPLETED"}
            /\ row'.startedAt = row.startedAt
       /\ row.state = "COMPLETED" => row' = row]_vars

\* An unfinished session of a running process is never without the timer that
\* finishes it, unless a call that was to arm or apply it failed: it is armed
\* at the stored time, or being armed, or being applied.
DeadlineCovered ==
    up /\ ~dropped =>
        /\ row.state = "LOBBY" =>
                \/ deadlines["lobby"] = LobbyLimit
                \/ \E c \in Call : call[c].pc \in {"expiring", "expire"}
        /\ row.state = "LIVE" =>
                \/ deadlines["maxLength"] = row.startedAt + MaxLength
                \/ \E c \in Call :
                        call[c].pc \in {"reload", "arm", "ending", "autoEnd"}

\* When no presence write is under way, failed, was overtaken or took too
\* long, the row of a started quiz says its host is away exactly when the
\* process knows no host socket, also after a restart.
SettledPresence ==
    up /\ ~disturbed /\ writes = <<>> /\ row.state = "LIVE" =>
        (row.awayAt = Never <=> hostSockets # {})

\* Whatever the host does, a started quiz ends by its maximum length and a
\* lobby does not stay open, also across a restart; unless a call that was to
\* arm or apply the deadline failed.
QuizEnds ==
    row.state = "LIVE" /\ row.startedAt + MaxLength <= Horizon
        ~> row.state = "COMPLETED" \/ dropped
LobbyCloses ==
    row.state = "LOBBY" ~> row.state # "LOBBY" \/ dropped

\* "a connected but idle host never times out" (SECURITY_DESIGN.md, host
\* disconnect): while a host connection is live and no presence write is under
\* way, the row never says the host has been away for the grace period.
ConnectedHostNotTimedOut ==
    up /\ writes = <<>> /\ hostSockets \cap connected # {} =>
        Passed(row) # "HOST_AWAY"

=============================================================================
