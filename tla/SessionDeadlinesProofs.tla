----------------------- MODULE SessionDeadlinesProofs -----------------------
(***************************************************************************)
(* Proofs about SessionDeadlines, for any limits, sockets, calls in         *)
(* flight, writes in flight and restarts.                                   *)
(***************************************************************************)
EXTENDS SessionDeadlines, SequenceTheorems, TLAPS

USE CallAssumption, SocketAssumption, LimitAssumption

-----------------------------------------------------------------------------
(* The inductive invariant.                                                  *)

\* A started session has its start time.
Stamped(session) == session.state = "LIVE" => session.startedAt \in Time

\* What a call between two awaits may still rely on: what it saw of the row
\* only ever moves forward.
Consistent(c) ==
    /\ call[c].pc \in {"expiring", "expire"} => LobbyLimit <= now
    /\ call[c].pc \in {"ending", "autoEnd", "reload", "arm"} =>
            row.state \in {"LIVE", "COMPLETED"}
    /\ call[c].pc = "arriving" => call[c].socket \in Socket
    /\ call[c].pc = "expired" => row.state = "DELETED"
    /\ call[c].pc = "ended" => row.state = "COMPLETED"
    /\ call[c].pc = "forget" => row.state \in {"COMPLETED", "DELETED"}

CallsConsistent == \A c \in Call : Consistent(c)

\* The session start arms the deadlines of is the one stored, or it is over.
FromRow(c) ==
    call[c].pc = "arm" =>
        /\ call[c].row.state \in {"LIVE", "COMPLETED"}
        /\ Stamped(call[c].row)
        /\ row.state = "LIVE" =>
                /\ call[c].row.state = "LIVE"
                /\ call[c].row.startedAt = row.startedAt

\* The session openLobby loaded again is the one stored, or it has moved on.
SawRow(c) ==
    call[c].pc = "rearm" =>
        /\ Stamped(call[c].row)
        /\ call[c].row.state = "LIVE" =>
                /\ row.state \in {"LIVE", "COMPLETED"}
                /\ row.state = "LIVE" => call[c].row.startedAt = row.startedAt

ArmedFromRow == \A c \in Call : FromRow(c) /\ SawRow(c)

IInv ==
    /\ TypeOK
    /\ Stamped(row)
    /\ CallsConsistent
    /\ ArmedFromRow
    /\ DeadlineCovered

-----------------------------------------------------------------------------
(* What the operators the actions are built from do to the types.            *)

LEMMA CallAtType ==
    ASSUME NEW pc \in {"idle", "expiring", "expire", "expired", "ending",
                       "autoEnd", "ended", "arriving", "reload", "arm",
                       "rearm", "forget"} \cup Commands,
           NEW s \in Socket \cup {NoSocket}
    PROVE  CallAt(pc, s) \in CallRecords
  BY DEF CallAt, CallRecords, NewRow, Rows, Time, Never

LEMMA CallStepsType ==
    ASSUME call \in [Call -> CallRecords], NEW c \in Call
    PROVE  /\ \A pc \in {"expire", "autoEnd", "expired", "ended", "reload",
                         "forget"} :
                Moves(c, pc) => call' \in [Call -> CallRecords]
           /\ Leaves(c) => call' \in [Call -> CallRecords]
           /\ Enforced(c) => call' \in [Call -> CallRecords]
           /\ \A s \in Socket \cup {NoSocket} :
                Enforces(c, s) => call' \in [Call -> CallRecords]
<1>1. /\ IdleCall \in CallRecords
      /\ \A s \in Socket \cup {NoSocket} :
            \A pc \in {"expiring", "ending", "arriving"} :
                CallAt(pc, s) \in CallRecords
  BY CallAtType DEF IdleCall
<1>2. call[c] \in CallRecords /\ call[c].socket \in Socket \cup {NoSocket}
  BY DEF CallRecords
<1>3. \A pc \in {"expire", "autoEnd", "expired", "ended", "reload", "forget"} :
            Moves(c, pc) => call' \in [Call -> CallRecords]
  BY DEF Moves, CallRecords
<1>4. Leaves(c) => call' \in [Call -> CallRecords]
  BY <1>1 DEF Leaves
<1>5. Enforced(c) => call' \in [Call -> CallRecords]
  BY <1>1, <1>2 DEF Enforced
<1>6. \A s \in Socket \cup {NoSocket} :
            Enforces(c, s) => call' \in [Call -> CallRecords]
  BY <1>1 DEF Enforces
<1> QED
  BY <1>3, <1>4, <1>5, <1>6

LEMMA ArmDeadlinesType ==
    ASSUME DeadlinesOK, NEW session \in Rows, Stamped(session),
           deadlines' = ArmDeadlines(session)
    PROVE  DeadlinesOK'
<1>1. /\ session.startedAt \in Time \cup {Never}
      /\ session.awayAt \in Time \cup {Never}
      /\ session.state = "LIVE" => session.startedAt \in Time
  BY DEF Rows, Stamped
<1>2. /\ deadlines'["lobby"] \in {Never, LobbyLimit}
      /\ deadlines'["hostGrace"] \in {Never} \cup {t + Grace : t \in Time}
      /\ deadlines'["maxLength"] \in {Never} \cup {t + MaxLength : t \in Time}
  BY <1>1 DEF ArmDeadlines, DeadlinesOK, Kinds, Never
<1>3. deadlines' = [k \in Kinds |-> deadlines'[k]]
  BY DEF ArmDeadlines
<1>4. \A k \in Kinds : deadlines'[k] \in Int
  BY <1>2 DEF Kinds, Time, Never
<1> QED
  BY <1>2, <1>3, <1>4 DEF DeadlinesOK

LEMMA ArmedType ==
    ASSUME DeadlinesOK, now \in Time
    PROVE  /\ deadlines' = Unarmed => DeadlinesOK'
           /\ \A k \in Kinds : deadlines' = Disarmed(k) => DeadlinesOK'
           /\ deadlines' = Armed("hostGrace", now + Grace) => DeadlinesOK'
  BY DEF Unarmed, Disarmed, Armed, DeadlinesOK, Kinds, Never, Time

LEMMA RowEndedType ==
    ASSUME row \in Rows
    PROVE  /\ RowEnded \in Rows
           /\ RowEnded.state = "COMPLETED"
           /\ RowEnded.startedAt = row.startedAt
  BY DEF RowEnded, Rows

\* A write landing is dropped from those in flight, and was one of them.
LEMMA RemoveAtType ==
    ASSUME NEW S, NEW q \in Seq(S), NEW i \in DOMAIN q
    PROVE  /\ RemoveAt(q, i) \in Seq(S)
           /\ Len(RemoveAt(q, i)) = Len(q) - 1
           /\ q[i] \in S
<1>1. /\ Len(q) \in Nat /\ i \in 1..Len(q)
      /\ \A j \in 1..Len(q) : q[j] \in S
  BY LenProperties, ElementOfSeq
<1>2. /\ SubSeq(q, 1, i - 1) \in Seq(S)
      /\ Len(SubSeq(q, 1, i - 1)) = i - 1
  <2>1. \A j \in 1..(i - 1) : q[j] \in S
    BY <1>1
  <2>2. 1 \in Int /\ i - 1 \in Int
    BY <1>1
  <2>3. /\ SubSeq(q, 1, i - 1) \in Seq(S)
        /\ Len(SubSeq(q, 1, i - 1)) =
                IF 1 <= i - 1 THEN (i - 1) - 1 + 1 ELSE 0
    BY <2>1, <2>2, SubSeqProperties
  <2> QED
    BY <1>1, <2>3
<1>3. /\ SubSeq(q, i + 1, Len(q)) \in Seq(S)
      /\ Len(SubSeq(q, i + 1, Len(q))) = Len(q) - i
  <2>1. \A j \in (i + 1)..Len(q) : q[j] \in S
    BY <1>1
  <2>2. i + 1 \in Int /\ Len(q) \in Int
    BY <1>1
  <2>3. /\ SubSeq(q, i + 1, Len(q)) \in Seq(S)
        /\ Len(SubSeq(q, i + 1, Len(q))) =
                IF i + 1 <= Len(q) THEN Len(q) - (i + 1) + 1 ELSE 0
    BY <2>1, <2>2, SubSeqProperties
  <2> QED
    BY <1>1, <2>3
<1>4. RemoveAt(q, i) = SubSeq(q, 1, i - 1) \o SubSeq(q, i + 1, Len(q))
  BY DEF RemoveAt
<1>5. \A s1, s2 \in Seq(S) :
            s1 \o s2 \in Seq(S) /\ Len(s1 \o s2) = Len(s1) + Len(s2)
  BY ConcatProperties
<1>6. /\ RemoveAt(q, i) \in Seq(S)
      /\ Len(RemoveAt(q, i)) =
            Len(SubSeq(q, 1, i - 1)) + Len(SubSeq(q, i + 1, Len(q)))
  BY <1>2, <1>3, <1>4, <1>5, Zenon
<1>7. /\ Len(SubSeq(q, 1, i - 1)) = i - 1
      /\ Len(SubSeq(q, i + 1, Len(q))) = Len(q) - i
  BY <1>2, <1>3
<1>8. Len(RemoveAt(q, i)) = Len(q) - 1
  <2>1. Len(RemoveAt(q, i)) = (i - 1) + (Len(q) - i)
    BY <1>6, <1>7, Zenon
  <2>2. i \in Int /\ Len(q) \in Int
    BY <1>1
  <2>3. (i - 1) + (Len(q) - i) = Len(q) - 1
    BY <2>2
  <2> QED
    BY <2>1, <2>3, Zenon
<1>9. q[i] \in S
  BY <1>1
<1> QED
  BY <1>6, <1>8, <1>9, Zenon

-----------------------------------------------------------------------------
(* Type correctness.                                                         *)

\* Timers and calls that take or change the row, the lock and the timers only.
LEMMA CallTypes ==
    ASSUME TypeOK, CallsConsistent, ArmedFromRow, NEW c \in Call, CallStep(c)
    PROVE  TypeOK'
<1> USE DEF TypeOK, process, env, history
<1>1. CASE EnforceLocked(c) \/ EnforceRefused(c) \/ EnforceFails(c)
  BY <1>1, CallStepsType
     DEF EnforceLocked, EnforceRefused, EnforceFails, Unlocked, DeadlinesOK
<1>2. CASE Expire(c)
  BY <1>2, CallStepsType DEF Expire, Unlocked, DeadlinesOK, Rows
<1>3. CASE AutoEnd(c)
  BY <1>3, CallStepsType, RowEndedType DEF AutoEnd, Unlocked, DeadlinesOK
<1>4. CASE EnforceForgets(c)
  BY <1>4, CallStepsType, ArmedType DEF EnforceForgets
<1>5. CASE CommandRefused(c) \/ StartReloadFails(c) \/ ForgetFails(c)
  BY <1>5, CallStepsType
     DEF CommandRefused, StartReloadFails, ForgetFails, Unlocked, DeadlinesOK
<1>6. CASE StartCommits(c)
  BY <1>6, CallStepsType DEF StartCommits, Unlocked, DeadlinesOK, Rows
<1>7. CASE StartReloads(c)
  <2>1. [CallAt("arm", NoSocket) EXCEPT !.row = row] \in CallRecords
    BY DEF CallAt, CallRecords
  <2> QED
    BY <1>7, <2>1 DEF StartReloads, DeadlinesOK
<1>8. CASE StartArms(c) \/ OpenAgainArms(c)
  <2>1. call[c].row \in Rows /\ Stamped(call[c].row)
    BY <1>8
       DEF StartArms, OpenAgainArms, ArmedFromRow, FromRow, SawRow, CallRecords
  <2>2. DeadlinesOK'
    BY <1>8, <2>1, ArmDeadlinesType DEF StartArms, OpenAgainArms
  <2> QED
    BY <1>8, <2>2, CallStepsType DEF StartArms, OpenAgainArms
<1>9. CASE EndCommits(c)
  BY <1>9, CallStepsType, RowEndedType DEF EndCommits, Unlocked, DeadlinesOK
<1>10. CASE CloseLobbyCommits(c)
  BY <1>10, CallStepsType DEF CloseLobbyCommits, Unlocked, DeadlinesOK, Rows
<1>11. CASE CommandForgets(c)
  BY <1>11, CallStepsType, ArmedType DEF CommandForgets
<1>12. CASE HostArrived(c)
  <2>1. call[c].socket \in Socket /\ call' \in [Call -> CallRecords]
    BY <1>12, CallStepsType DEF HostArrived, CallsConsistent, Consistent
  <2>2. DeadlinesOK'
    BY <1>12, ArmedType DEF HostArrived, ArrivalDisarms, DeadlinesOK, Kinds
  <2>3. writes' \in Seq(Time \cup {Never}) /\ Len(writes') <= MaxWrites
    <3>1. CASE hostSockets = {}
      <4>1. Never \in Time \cup {Never}
        OBVIOUS
      <4>2. /\ Append(writes, Never) \in Seq(Time \cup {Never})
            /\ Len(Append(writes, Never)) = Len(writes) + 1
        BY <4>1, AppendProperties
      <4>3. Len(writes) \in Nat
        BY LenProperties
      <4> QED
        BY <1>12, <3>1, <4>2, <4>3 DEF HostArrived, ArrivalWrites
    <3>2. CASE hostSockets # {}
      BY <1>12, <3>2 DEF HostArrived
    <3> QED
      BY <3>1, <3>2
  <2> QED
    BY <1>12, <2>1, <2>2, <2>3 DEF HostArrived
<1> QED
  BY <1>1, <1>2, <1>3, <1>4, <1>5, <1>6, <1>7, <1>8, <1>9, <1>10, <1>11, <1>12
     DEF CallStep, EnforceStep, CommandStep

\* Calls beginning: a timer, an interaction, a host joining, a command.
LEMMA BeginTypes ==
    ASSUME TypeOK, NEW c \in Call,
           \/ \E k \in Kinds : TimerFires(k, c)
           \/ Interaction(c)
           \/ \E s \in Socket : JoinBegins(s, c)
           \/ \E cmd \in Commands : CommandBegins(cmd, c)
           \/ OpenAgain(c)
    PROVE  TypeOK'
<1> USE DEF TypeOK, process, env, history
<1>1. CASE \E k \in Kinds : TimerFires(k, c)
  <2>1. PICK k \in Kinds : TimerFires(k, c)
    BY <1>1
  <2> QED
    BY <2>1, CallStepsType, ArmedType DEF TimerFires
<1>2. CASE Interaction(c)
  BY <1>2, CallStepsType DEF Interaction, DeadlinesOK
<1>3. CASE \E s \in Socket : JoinBegins(s, c)
  <2>1. PICK s \in Socket : JoinBegins(s, c)
    BY <1>3
  <2> QED
    BY <2>1, CallStepsType DEF JoinBegins, DeadlinesOK
<1>4. CASE \E cmd \in Commands : CommandBegins(cmd, c)
  <2>1. PICK cmd \in Commands : CommandBegins(cmd, c)
    BY <1>4
  <2>2. CallAt(cmd, NoSocket) \in CallRecords
    BY CallAtType
  <2> QED
    BY <2>1, <2>2 DEF CommandBegins, DeadlinesOK
<1>5. CASE OpenAgain(c)
  <2>1. [CallAt("rearm", NoSocket) EXCEPT !.row = row] \in CallRecords
    BY DEF CallAt, CallRecords
  <2> QED
    BY <1>5, <2>1 DEF OpenAgain, DeadlinesOK
<1> QED
  BY <1>1, <1>2, <1>3, <1>4, <1>5

\* The host's connections, the writes of its presence and the environment.
LEMMA EnvTypes ==
    ASSUME TypeOK, Stamped(row),
           \/ \E s \in Socket : HostLeft(s)
           \/ CloseRoom
           \/ WriteStep
           \/ LockExpires
           \/ Crash
           \/ Restart
           \/ Tick
    PROVE  TypeOK'
<1> USE DEF TypeOK, process, env, history
<1>1. CASE \E s \in Socket : HostLeft(s)
  <2>1. PICK s \in Socket : HostLeft(s)
    BY <1>1
  <2>2. DeadlinesOK'
    BY <2>1, ArmedType DEF HostLeft, DeadlinesOK
  <2>3. writes' \in Seq(Time \cup {Never}) /\ Len(writes') <= MaxWrites
    <3>1. /\ Append(writes, now) \in Seq(Time \cup {Never})
          /\ Len(Append(writes, now)) = Len(writes) + 1
      BY AppendProperties
    <3>2. Len(writes) \in Nat
      BY LenProperties
    <3> QED
      BY <2>1, <3>1, <3>2 DEF HostLeft
  <2> QED
    BY <2>1, <2>2, <2>3 DEF HostLeft
<1>2. CASE CloseRoom
  BY <1>2, ArmedType DEF CloseRoom
<1>3. CASE \E i \in DOMAIN writes : WriteLands(i)
  <2>1. PICK i \in DOMAIN writes : WriteLands(i)
    BY <1>3
  <2>2. /\ RemoveAt(writes, i) \in Seq(Time \cup {Never})
        /\ Len(RemoveAt(writes, i)) = Len(writes) - 1
        /\ writes[i] \in Time \cup {Never}
    BY RemoveAtType
  <2>3. Len(writes) \in Nat
    BY LenProperties
  <2>4. row' \in Rows
    BY <2>1, <2>2 DEF WriteLands, Rows
  <2>5. writes' \in Seq(Time \cup {Never}) /\ Len(writes') <= MaxWrites
    BY <2>1, <2>2, <2>3 DEF WriteLands
  <2>6. disturbed' \in BOOLEAN
    BY <2>1, Zenon DEF WriteLands
  <2> QED
    BY <2>1, <2>4, <2>5, <2>6 DEF WriteLands, DeadlinesOK
<1>4. CASE WriteFails
  <2>1. /\ Tail(writes) \in Seq(Time \cup {Never})
        /\ Len(Tail(writes)) = Len(writes) - 1
    BY <1>4, HeadTailProperties DEF WriteFails
  <2>2. Len(writes) \in Nat
    BY LenProperties
  <2> QED
    BY <1>4, <2>1, <2>2 DEF WriteFails, DeadlinesOK
<1>5. CASE LockExpires
  BY <1>5 DEF LockExpires, DeadlinesOK
<1>6. CASE Crash
  <2>1. IdleCall \in CallRecords
    BY CallAtType DEF IdleCall
  <2>2. writes' \in Seq(Time \cup {Never}) /\ Len(writes') <= MaxWrites
    <3>1. <<>> \in Seq(Time \cup {Never}) /\ Len(<<>>) = 0
      OBVIOUS
    <3> QED
      BY <1>6, <3>1 DEF Crash
  <2>3. call' \in [Call -> CallRecords]
    BY <1>6, <2>1 DEF Crash
  <2>4. DeadlinesOK'
    BY <1>6, ArmedType DEF Crash
  <2>5. lock' \in Call \cup {NoCall, LostCall}
    BY <1>6 DEF Crash
  <2>6. /\ row' \in Rows /\ up' \in BOOLEAN /\ hostSockets' \subseteq Socket
        /\ connected' \subseteq Socket /\ now' \in Time
    BY <1>6 DEF Crash
  <2>7. dropped' \in BOOLEAN /\ disturbed' \in BOOLEAN
    BY <1>6 DEF Crash
  <2>8. crashes' \in 0..MaxCrashes
    <3>1. crashes < MaxCrashes /\ crashes' = crashes + 1
      BY <1>6 DEF Crash
    <3> QED
      BY <3>1
  <2> QED
    BY <2>2, <2>3, <2>4, <2>5, <2>6, <2>7, <2>8
<1>7. CASE Restart
  <2>1. row' \in Rows /\ Stamped(row')
    BY <1>7 DEF Restart, MarkedDisconnected, Rows, Stamped
  <2>2. DeadlinesOK'
    BY <1>7, <2>1, ArmDeadlinesType DEF Restart
  <2> QED
    BY <1>7, <2>1, <2>2 DEF Restart
<1>8. CASE Tick
  <2>1. disturbed' \in BOOLEAN
    BY <1>8, Zenon DEF Tick
  <2>2. now' \in Time
    BY <1>8 DEF Tick, Time
  <2> QED
    BY <1>8, <2>1, <2>2 DEF Tick, DeadlinesOK
<1> QED
  BY <1>1, <1>2, <1>3, <1>4, <1>5, <1>6, <1>7, <1>8 DEF WriteStep

-----------------------------------------------------------------------------
(* What a step changes.                                                      *)

\* The session only moves forward, a started one keeps its start time and a
\* finished one stays as it is.
LEMMA RowMoves ==
    ASSUME TypeOK, Stamped(row), CallsConsistent, Next
    PROVE  /\ row.state = "LIVE" =>
                /\ row'.state \in {"LIVE", "COMPLETED"}
                /\ row'.startedAt = row.startedAt
           /\ row.state \in {"COMPLETED", "DELETED"} => row' = row
           /\ row'.state = "LOBBY" => row.state = "LOBBY"
           /\ row'.state = "LIVE" =>
                \/ row.state = "LIVE"
                \/ \E c \in Call : StartCommits(c)
           /\ Stamped(row')
<1>1. row \in Rows /\ now \in Time
  BY DEF TypeOK
<1>2. CASE row' = row
  BY <1>2 DEF Stamped
<1>3. CASE \E c \in Call : Expire(c) \/ CloseLobbyCommits(c)
  BY <1>1, <1>3 DEF Expire, RowExpires, CloseLobbyCommits, Rows, Stamped
<1>4. CASE \E c \in Call : AutoEnd(c) \/ EndCommits(c)
  <2>1. row' = RowEnded /\ row.state # "DELETED"
    BY <1>4 DEF AutoEnd, EndCommits, CallsConsistent, Consistent
  <2> QED
    BY <1>1, <2>1 DEF RowEnded, Rows, Stamped
<1>5. CASE \E c \in Call : StartCommits(c)
  <2>1. PICK c \in Call : StartCommits(c)
    BY <1>5
  <2>2. /\ row.state = "LOBBY"
        /\ row'.state = "LIVE"
        /\ row'.startedAt = now
    BY <1>1, <2>1 DEF StartCommits, Rows
  <2> QED
    BY <1>1, <1>5, <2>2 DEF Stamped
<1>6. CASE (\E i \in DOMAIN writes : WriteLands(i)) \/ Restart
  BY <1>1, <1>6 DEF WriteLands, Restart, MarkedDisconnected, Rows, Stamped
<1>7. \/ row' = row
      \/ \E c \in Call : Expire(c) \/ CloseLobbyCommits(c)
      \/ \E c \in Call : AutoEnd(c) \/ EndCommits(c)
      \/ \E c \in Call : StartCommits(c)
      \/ (\E i \in DOMAIN writes : WriteLands(i)) \/ Restart
  BY DEF Next, CallStep, EnforceStep, CommandStep, WriteStep, TimerFires,
         Interaction, JoinBegins, CommandBegins, OpenAgain, EnforceLocked, EnforceRefused,
         EnforceFails, EnforceForgets, CommandRefused, StartReloads,
         StartReloadFails, StartArms, OpenAgainArms, CommandForgets, ForgetFails,
         HostArrived, HostLeft,
         CloseRoom, WriteFails, LockExpires, Crash, Tick
<1> QED
  BY <1>2, <1>3, <1>4, <1>5, <1>6, <1>7

\* A call moves by its own steps only, or is gone with the process.
LEMMA OwnSteps ==
    ASSUME TypeOK, Next, NEW d \in Call, call'[d] # call[d]
    PROVE  \/ \E k \in Kinds : TimerFires(k, d)
           \/ Interaction(d)
           \/ \E s \in Socket : JoinBegins(s, d)
           \/ \E cmd \in Commands : CommandBegins(cmd, d)
           \/ OpenAgain(d)
           \/ CallStep(d)
           \/ Crash
<1>1. call \in [Call -> CallRecords]
  BY DEF TypeOK
<1>2. ASSUME NEW c \in Call, c # d,
             \/ \E k \in Kinds : TimerFires(k, c)
             \/ Interaction(c)
             \/ \E s \in Socket : JoinBegins(s, c)
             \/ \E cmd \in Commands : CommandBegins(cmd, c)
             \/ OpenAgain(c)
             \/ CallStep(c)
      PROVE  FALSE
  BY <1>1, <1>2
     DEF CallStep, EnforceStep, CommandStep, TimerFires, Interaction,
         JoinBegins, CommandBegins, OpenAgain, EnforceLocked, EnforceRefused,
         EnforceFails, Expire, AutoEnd, EnforceForgets, CommandRefused,
         StartCommits, StartReloads, StartReloadFails, StartArms, OpenAgainArms, EndCommits,
         CloseLobbyCommits, CommandForgets, ForgetFails, HostArrived,
         Enforces, Enforced,
         Moves, Leaves
<1>3. ~((\E s \in Socket : HostLeft(s)) \/ CloseRoom \/ WriteStep
        \/ LockExpires \/ Restart \/ Tick)
  BY DEF HostLeft, CloseRoom, WriteStep, WriteLands, WriteFails, LockExpires,
         Restart, Tick
<1> QED
  BY <1>2, <1>3 DEF Next

\* Time does not go back, and only a tick moves it.
LEMMA TimeMoves ==
    ASSUME TypeOK, Next
    PROVE  now' \in Time /\ now <= now'
<1>1. CASE Tick
  BY <1>1 DEF Tick, TypeOK, Time
<1>2. CASE now' = now
  BY <1>2 DEF TypeOK, Time
<1>3. Tick \/ now' = now
  BY DEF Next, CallStep, EnforceStep, CommandStep, WriteStep, TimerFires,
         Interaction, JoinBegins, CommandBegins, OpenAgain, EnforceLocked, EnforceRefused,
         EnforceFails, Expire, AutoEnd, EnforceForgets, CommandRefused,
         StartCommits, StartReloads, StartReloadFails, StartArms, OpenAgainArms, EndCommits,
         CloseLobbyCommits, CommandForgets, ForgetFails, HostArrived,
         HostLeft, CloseRoom,
         WriteLands, WriteFails, LockExpires, Crash, Restart, env
<1> QED
  BY <1>1, <1>2, <1>3

-----------------------------------------------------------------------------
(* Every step preserves the invariant.                                       *)

LEMMA ConsistentKept ==
    ASSUME TypeOK, Stamped(row), CallsConsistent, Next
    PROVE  CallsConsistent'
<1> SUFFICES ASSUME NEW d \in Call
             PROVE  Consistent(d)'
  BY DEF CallsConsistent
<1>1. Consistent(d) /\ now \in Int /\ now' \in Int /\ now <= now'
  BY TimeMoves DEF CallsConsistent, TypeOK, Time
<1>2. LobbyLimit \in Int
  OBVIOUS
<1>3. call[d] \in CallRecords /\ call \in [Call -> CallRecords]
  BY DEF TypeOK
<1>4. CASE call'[d] = call[d]
  BY <1>1, <1>2, <1>4, RowMoves DEF Consistent
<1>5. CASE \/ \E k \in Kinds : TimerFires(k, d)
           \/ Interaction(d)
           \/ \E s \in Socket : JoinBegins(s, d)
  <2>1. \/ call'[d] = IdleCall
        \/ \E s \in Socket \cup {NoSocket} :
                \/ call'[d] = CallAt("expiring", s) /\ LobbyLimit <= now
                \/ call'[d] = CallAt("ending", s) /\ row.state = "LIVE"
                \/ call'[d] = CallAt("arriving", s) /\ s \in Socket
    BY <1>3, <1>5 DEF TimerFires, Interaction, JoinBegins, Enforces, Passed
  <2>2. row.state = "LIVE" => row'.state \in {"LIVE", "COMPLETED"}
    BY RowMoves
  <2>3. call'[d] = IdleCall => Consistent(d)'
    BY DEF Consistent, IdleCall, CallAt
  <2>4. ASSUME NEW s \in Socket \cup {NoSocket},
               call'[d] = CallAt("expiring", s) /\ LobbyLimit <= now
        PROVE  Consistent(d)'
    <3>1. LobbyLimit <= now'
      BY <1>1, <1>2, <2>4
    <3>2. call'[d].pc = "expiring"
      BY <2>4 DEF CallAt
    <3> QED
      BY <3>1, <3>2 DEF Consistent
  <2>5. ASSUME NEW s \in Socket \cup {NoSocket},
               call'[d] = CallAt("ending", s) /\ row.state = "LIVE"
        PROVE  Consistent(d)'
    BY <2>2, <2>5 DEF Consistent, CallAt
  <2>6. ASSUME NEW s \in Socket \cup {NoSocket},
               call'[d] = CallAt("arriving", s) /\ s \in Socket
        PROVE  Consistent(d)'
    BY <2>6 DEF Consistent, CallAt
  <2> QED
    BY <2>1, <2>3, <2>4, <2>5, <2>6
<1>6. CASE (\E cmd \in Commands : CommandBegins(cmd, d)) \/ OpenAgain(d)
  BY <1>3, <1>6 DEF CommandBegins, OpenAgain, Consistent, CallAt, Commands
<1>7. CASE EnforceLocked(d)
  BY <1>1, <1>3, <1>7 DEF EnforceLocked, Moves, Consistent, CallRecords, env
<1>8. CASE \/ EnforceRefused(d) \/ EnforceFails(d) \/ CommandRefused(d)
           \/ StartReloadFails(d) \/ StartArms(d) \/ OpenAgainArms(d)
           \/ CommandForgets(d) \/ ForgetFails(d) \/ HostArrived(d)
  BY <1>3, <1>8
     DEF EnforceRefused, EnforceFails, CommandRefused, StartReloadFails,
         StartArms, OpenAgainArms, CommandForgets, ForgetFails, HostArrived, Leaves,
         IdleCall, CallAt,
         Consistent
<1>9. CASE Expire(d) \/ AutoEnd(d) \/ EnforceForgets(d)
  <2>1. /\ Enforced(d) =>
            \/ call'[d] = IdleCall
            \/ \E s \in Socket : call'[d] = CallAt("arriving", s)
        /\ Leaves(d) => call'[d] = IdleCall
        /\ \A pc \in {"expired", "ended"} : Moves(d, pc) => call'[d].pc = pc
    BY <1>3 DEF Enforced, Leaves, Moves, CallRecords
  <2>2. /\ call'[d] = IdleCall => Consistent(d)'
        /\ \A s \in Socket :
                call'[d] = CallAt("arriving", s) => Consistent(d)'
    BY DEF Consistent, IdleCall, CallAt
  <2>3. /\ Expire(d) /\ Moves(d, "expired") => row'.state = "DELETED"
        /\ AutoEnd(d) => row'.state = "COMPLETED"
    BY RowEndedType DEF Expire, Enforced, Moves, AutoEnd, TypeOK, Rows,
       RowExpires, IdleCall, CallAt
  <2>4. /\ call'[d].pc = "expired" /\ row'.state = "DELETED" => Consistent(d)'
        /\ call'[d].pc = "ended" /\ row'.state = "COMPLETED" => Consistent(d)'
    BY DEF Consistent
  <2>5. /\ Expire(d) => Moves(d, "expired") \/ Enforced(d)
        /\ AutoEnd(d) => Moves(d, "ended") \/ Enforced(d)
        /\ EnforceForgets(d) => Leaves(d) \/ Enforced(d)
    BY DEF Expire, AutoEnd, EnforceForgets
  <2> QED
    BY <1>9, <2>1, <2>2, <2>3, <2>4, <2>5
<1>10. CASE StartCommits(d) \/ StartReloads(d)
  <2>1. row \in Rows
    BY DEF TypeOK
  <2>2. StartCommits(d) => call'[d].pc = "reload" /\ row'.state = "LIVE"
    BY <1>3, <2>1 DEF StartCommits, Moves, CallRecords, Rows
  <2>3. StartReloads(d) => call'[d].pc = "arm"
    BY <1>3 DEF StartReloads, CallAt
  <2>4. StartReloads(d) => row'.state \in {"LIVE", "COMPLETED"}
    BY <1>1 DEF StartReloads, Consistent
  <2> QED
    BY <1>10, <2>2, <2>3, <2>4 DEF Consistent
<1>11. CASE EndCommits(d) \/ CloseLobbyCommits(d)
  BY <1>3, <1>11, RowEndedType
     DEF EndCommits, CloseLobbyCommits, Moves, CallRecords, Consistent, Rows,
         TypeOK
<1>12. CASE Crash
  BY <1>12 DEF Crash, IdleCall, CallAt, Consistent
<1> QED
  BY <1>4, <1>5, <1>6, <1>7, <1>8, <1>9, <1>10, <1>11, <1>12, OwnSteps
     DEF CallStep, EnforceStep, CommandStep

LEMMA FromRowKept ==
    ASSUME TypeOK, Stamped(row), CallsConsistent, ArmedFromRow, Next
    PROVE  ArmedFromRow'
<1> SUFFICES ASSUME NEW d \in Call
             PROVE  FromRow(d)' /\ SawRow(d)'
  BY DEF ArmedFromRow
<1>1. /\ FromRow(d) /\ SawRow(d)
      /\ call \in [Call -> CallRecords] /\ row \in Rows
  BY DEF ArmedFromRow, TypeOK
<1>2. CASE call'[d] = call[d]
  <2>1. call[d].pc = "arm" => row.state \in {"LIVE", "COMPLETED"}
    BY DEF CallsConsistent, Consistent
  <2>2. FromRow(d)'
    BY <1>1, <1>2, <2>1, RowMoves DEF FromRow, Stamped
  <2>3. SawRow(d)'
    BY <1>1, <1>2, RowMoves DEF SawRow, Stamped
  <2> QED
    BY <2>2, <2>3
<1>3. CASE StartReloads(d)
  <2>1. call[d].pc = "reload" /\ row.state \in {"LIVE", "COMPLETED"}
    BY <1>3 DEF StartReloads, CallsConsistent, Consistent
  <2>2. call'[d].row = row /\ row' = row /\ call'[d].pc = "arm"
    BY <1>1, <1>3 DEF StartReloads, CallAt
  <2> QED
    BY <2>1, <2>2 DEF FromRow, SawRow, Stamped
<1>4. CASE OpenAgain(d)
  <2>1. call'[d].row = row /\ row' = row /\ call'[d].pc = "rearm"
    BY <1>1, <1>4 DEF OpenAgain, CallAt
  <2> QED
    BY <2>1 DEF FromRow, SawRow, Stamped
<1>5. CASE call'[d].pc \notin {"arm", "rearm"}
  BY <1>5 DEF FromRow, SawRow
<1>6. \/ call'[d] = call[d] \/ StartReloads(d) \/ OpenAgain(d)
      \/ call'[d].pc \notin {"arm", "rearm"}
  <2>1. CASE \/ \E k \in Kinds : TimerFires(k, d)
             \/ Interaction(d)
             \/ \E s \in Socket : JoinBegins(s, d)
    BY <1>1, <2>1
       DEF TimerFires, Interaction, JoinBegins, Enforces, IdleCall, CallAt
  <2>2. CASE \E cmd \in Commands : CommandBegins(cmd, d)
    BY <1>1, <2>2 DEF CommandBegins, CallAt, Commands
  <2>3. CASE EnforceStep(d) \/ HostArrived(d)
    BY <1>1, <2>3
       DEF EnforceStep, HostArrived, EnforceLocked, EnforceRefused,
           EnforceFails, Expire, AutoEnd, EnforceForgets, Enforced, Moves,
           Leaves, IdleCall, CallAt, CallRecords
  <2>4. CASE CommandStep(d)
    BY <1>1, <2>4
       DEF CommandStep, CommandRefused, StartCommits, StartReloads,
           StartReloadFails, StartArms, OpenAgainArms, EndCommits,
           CloseLobbyCommits, CommandForgets, ForgetFails, Moves, Leaves,
           IdleCall, CallAt, CallRecords
  <2>5. CASE Crash
    BY <2>5 DEF Crash, IdleCall, CallAt
  <2> QED
    BY <2>1, <2>2, <2>3, <2>4, <2>5, OwnSteps DEF CallStep
<1> QED
  BY <1>2, <1>3, <1>4, <1>5, <1>6

\* What a step does to the timers that end an unfinished session: it changes
\* one only as a timer that fires, as start arming it or when all is over.
LEMMA TimersMove ==
    ASSUME TypeOK, CallsConsistent, Next, up, up'
    PROVE  \/ /\ deadlines'["lobby"] = deadlines["lobby"]
              /\ deadlines'["maxLength"] = deadlines["maxLength"]
           \/ \E c \in Call, k \in Kinds : TimerFires(k, c)
           \/ \E c \in Call : StartArms(c) \/ OpenAgainArms(c)
           \/ row.state \in {"COMPLETED", "DELETED"}
<1>1. DeadlinesOK
  BY DEF TypeOK
<1>2. CASE deadlines' = deadlines
  BY <1>2
<1>3. CASE \E s \in Socket : HostLeft(s)
  BY <1>1, <1>3 DEF HostLeft, Armed, DeadlinesOK, Kinds
<1>4. CASE \E c \in Call : HostArrived(c)
  BY <1>1, <1>4 DEF HostArrived, ArrivalDisarms, Disarmed, DeadlinesOK, Kinds
<1>5. CASE \E c \in Call : EnforceForgets(c) \/ CommandForgets(c)
  BY <1>5 DEF EnforceForgets, CommandForgets, CallsConsistent, Consistent
<1>6. CASE CloseRoom
  BY <1>6 DEF CloseRoom
<1>7. \/ deadlines' = deadlines
      \/ \E s \in Socket : HostLeft(s)
      \/ \E c \in Call : HostArrived(c)
      \/ \E c \in Call : EnforceForgets(c) \/ CommandForgets(c)
      \/ CloseRoom
      \/ \E c \in Call, k \in Kinds : TimerFires(k, c)
      \/ \E c \in Call : StartArms(c) \/ OpenAgainArms(c)
  BY DEF Next, CallStep, EnforceStep, CommandStep, WriteStep, Interaction,
         JoinBegins, CommandBegins, OpenAgain, EnforceLocked, EnforceRefused,
         EnforceFails, Expire, AutoEnd, CommandRefused, StartCommits,
         StartReloads, StartReloadFails, EndCommits, CloseLobbyCommits,
         ForgetFails, WriteLands, WriteFails, LockExpires, Crash, Restart,
         Tick, process
<1> QED
  BY <1>2, <1>3, <1>4, <1>5, <1>6, <1>7

\* A call that was covering for a lobby's or a quiz's timer goes on doing so,
\* arms the timer, is recorded as dropped or has done its work.
LEMMA CoverMoves ==
    ASSUME TypeOK, Stamped(row), CallsConsistent, ArmedFromRow, Next,
           up, up', ~dropped', NEW d \in Call
    PROVE  /\ call[d].pc \in {"expiring", "expire"} /\ row'.state = "LOBBY" =>
                call'[d].pc \in {"expiring", "expire"}
           /\ row.state = "LIVE" /\ row'.state = "LIVE" =>
                \/ call[d].pc \notin {"reload", "arm", "ending", "autoEnd"}
                \/ call'[d].pc \in {"reload", "arm", "ending", "autoEnd"}
                \/ deadlines'["maxLength"] = row'.startedAt + MaxLength
<1>1. /\ call \in [Call -> CallRecords] /\ row \in Rows /\ now \in Time
      /\ Consistent(d) /\ FromRow(d)
  BY DEF TypeOK, CallsConsistent, ArmedFromRow
<1>2. CASE call'[d] = call[d]
  BY <1>2
<1>3. CASE /\ call'[d] # call[d]
           /\ call[d].pc \in {"expiring", "expire", "reload", "arm", "ending",
                            "autoEnd"}
  <2>1. \/ EnforceLocked(d) \/ Expire(d) \/ AutoEnd(d)
        \/ StartReloads(d) \/ StartArms(d)
    <3>1. ~Crash
      BY DEF Crash
    <3>2. ~\/ \E k \in Kinds : TimerFires(k, d)
           \/ Interaction(d)
           \/ \E s \in Socket : JoinBegins(s, d)
           \/ \E cmd \in Commands : CommandBegins(cmd, d)
           \/ OpenAgain(d)
      BY <1>3 DEF TimerFires, Interaction, JoinBegins, CommandBegins, OpenAgain
    <3>3. CallStep(d)
      BY <1>3, <3>1, <3>2, OwnSteps
    <3> QED
      BY <1>3, <3>3
         DEF CallStep, EnforceStep, CommandStep, EnforceRefused, EnforceFails,
             EnforceForgets, CommandRefused, StartCommits, StartReloadFails,
             OpenAgainArms, EndCommits, CloseLobbyCommits, CommandForgets, ForgetFails,
             HostArrived,
             Commands
  <2>2. CASE EnforceLocked(d)
    BY <1>1, <2>2 DEF EnforceLocked, Moves, CallRecords
  <2>3. CASE Expire(d)
    BY <1>1, <2>3 DEF Expire, RowExpires, Consistent, Rows
  <2>4. CASE AutoEnd(d)
    BY <1>1, <2>4, RowEndedType DEF AutoEnd
  <2>5. CASE StartReloads(d)
    BY <1>1, <2>5 DEF StartReloads, CallAt
  <2>6. CASE StartArms(d)
    <3>1. call[d].pc = "arm" /\ row' = row
      BY <2>6 DEF StartArms
    <3>2. row.state = "LIVE" =>
            deadlines'["maxLength"] = row.startedAt + MaxLength
      BY <1>1, <2>6, <3>1 DEF StartArms, OpenAgainArms, ArmDeadlines, FromRow, Kinds
    <3> QED
      BY <3>1, <3>2
  <2> QED
    BY <2>1, <2>2, <2>3, <2>4, <2>5, <2>6
<1> QED
  BY <1>2, <1>3

LEMMA CoverKept ==
    ASSUME TypeOK, Stamped(row), CallsConsistent, ArmedFromRow,
           DeadlineCovered, Next
    PROVE  DeadlineCovered'
<1>1. CASE ~up' \/ dropped'
  BY <1>1 DEF DeadlineCovered
<1>2. CASE Restart
  <2>1. up' /\ row' \in Rows /\ deadlines' = ArmDeadlines(row')
    BY <1>2 DEF Restart, MarkedDisconnected, TypeOK, Rows
  <2> QED
    BY <2>1 DEF ArmDeadlines, Kinds, DeadlineCovered
<1>3. CASE up' /\ ~dropped' /\ ~Restart
  <2>1. up
    BY <1>3
       DEF Next, CallStep, EnforceStep, CommandStep, WriteStep, TimerFires,
           Interaction, JoinBegins, CommandBegins, OpenAgain, EnforceLocked,
           EnforceRefused, EnforceFails, Expire, AutoEnd, EnforceForgets,
           CommandRefused, StartCommits, StartReloads, StartReloadFails,
           StartArms, OpenAgainArms, EndCommits, CloseLobbyCommits, CommandForgets,
           ForgetFails,
           HostArrived, HostLeft, CloseRoom, WriteLands, WriteFails,
           LockExpires, Crash, Tick, process
  <2>2. ~dropped
    BY <1>3
       DEF Next, CallStep, EnforceStep, CommandStep, WriteStep, TimerFires,
           Interaction, JoinBegins, CommandBegins, OpenAgain, EnforceLocked,
           EnforceRefused, EnforceFails, Expire, AutoEnd, EnforceForgets,
           CommandRefused, StartCommits, StartReloads, StartReloadFails,
           StartArms, OpenAgainArms, EndCommits, CloseLobbyCommits, CommandForgets,
           ForgetFails,
           HostArrived, HostLeft, CloseRoom, WriteLands, WriteFails,
           LockExpires, Crash, Restart, Tick, history
  <2>3. /\ call \in [Call -> CallRecords] /\ row \in Rows /\ DeadlinesOK
        /\ now \in Time /\ Stamped(row)
    BY DEF TypeOK
  \* A timer that fires hands its deadline over to the call it starts.
  <2>4. ASSUME NEW c \in Call, NEW k \in Kinds, TimerFires(k, c)
        PROVE  /\ row' = row
               /\ k # "lobby" => deadlines'["lobby"] = deadlines["lobby"]
               /\ k # "maxLength" =>
                    deadlines'["maxLength"] = deadlines["maxLength"]
               /\ row.state = "LOBBY" /\ k = "lobby" =>
                    call'[c].pc = "expiring"
               /\ /\ row.state = "LIVE" /\ k = "maxLength"
                  /\ deadlines["maxLength"] = row.startedAt + MaxLength
                  => call'[c].pc = "ending"
    <3>1. /\ deadlines[k] # Never /\ deadlines[k] <= now
          /\ deadlines' = Disarmed(k) /\ row' = row
          /\ Enforces(c, NoSocket)
      BY <2>4 DEF TimerFires
    <3>2. /\ k # "lobby" => deadlines'["lobby"] = deadlines["lobby"]
          /\ k # "maxLength" =>
                deadlines'["maxLength"] = deadlines["maxLength"]
      BY <2>3, <3>1 DEF Disarmed, DeadlinesOK, Kinds
    <3>3. k = "lobby" => LobbyLimit <= now
      BY <2>3, <3>1 DEF DeadlinesOK
    <3>4. Passed(row) = "LOBBY_EXPIRED" => call'[c].pc = "expiring"
      BY <2>3, <3>1 DEF Enforces, CallAt
    <3>5. Passed(row) = "TIME_LIMIT" => call'[c].pc = "ending"
      BY <2>3, <3>1 DEF Enforces, CallAt
    <3>6. row.state = "LOBBY" /\ LobbyLimit <= now =>
            Passed(row) = "LOBBY_EXPIRED"
      BY DEF Passed
    <3>7. row.state = "LIVE" /\ row.startedAt + MaxLength <= now =>
            Passed(row) = "TIME_LIMIT"
      BY <2>3, <3>1 DEF Passed, Stamped, Time
    <3> QED
      BY <3>1, <3>2, <3>3, <3>4, <3>5, <3>6, <3>7
  <2>5. ASSUME NEW c \in Call, StartArms(c)
        PROVE  /\ row' = row
               /\ row.state # "LOBBY"
               /\ row.state = "LIVE" =>
                    deadlines'["maxLength"] = row.startedAt + MaxLength
    <3>1. call[c].pc = "arm" /\ row' = row /\ FromRow(c) /\ Consistent(c)
      BY <2>5 DEF StartArms, OpenAgainArms, ArmedFromRow, CallsConsistent
    <3>2. row.state = "LIVE" =>
            deadlines'["maxLength"] = row.startedAt + MaxLength
      BY <2>5, <3>1 DEF StartArms, OpenAgainArms, ArmDeadlines, FromRow, Kinds
    <3> QED
      BY <3>1, <3>2 DEF Consistent
  <2>8. ASSUME NEW c \in Call, OpenAgainArms(c)
        PROVE  /\ row' = row
               /\ row.state = "LOBBY" /\ deadlines["lobby"] = LobbyLimit =>
                    deadlines'["lobby"] = LobbyLimit
               /\ /\ row.state = "LIVE"
                  /\ deadlines["maxLength"] = row.startedAt + MaxLength
                  => deadlines'["maxLength"] = row.startedAt + MaxLength
    <3>1. /\ call[c].pc = "rearm" /\ row' = row /\ SawRow(c)
          /\ deadlines' = ArmDeadlines(call[c].row)
      BY <2>8 DEF OpenAgainArms, ArmedFromRow
    <3>2. row.state = "LOBBY" => call[c].row.state # "LIVE"
      BY <3>1 DEF SawRow
    <3>3. row.state = "LIVE" /\ call[c].row.state = "LIVE" =>
            call[c].row.startedAt = row.startedAt
      BY <3>1 DEF SawRow
    <3> QED
      BY <3>1, <3>2, <3>3 DEF ArmDeadlines, Kinds
  <2>6. ASSUME row'.state = "LOBBY"
        PROVE  \/ deadlines'["lobby"] = LobbyLimit
               \/ \E c \in Call : call'[c].pc \in {"expiring", "expire"}
    <3>1. row.state = "LOBBY"
      BY <2>6, RowMoves
    <3>2. CASE \E c \in Call : call[c].pc \in {"expiring", "expire"}
      BY <1>3, <2>1, <2>6, <3>2, CoverMoves
    <3>3. CASE deadlines["lobby"] = LobbyLimit
      <4>1. CASE deadlines'["lobby"] = deadlines["lobby"]
        BY <3>3, <4>1
      <4>2. CASE \E c \in Call, k \in Kinds : TimerFires(k, c)
        BY <2>4, <3>1, <3>3, <4>2
      <4> QED
        BY <1>3, <2>1, <2>5, <2>8, <3>1, <3>3, <4>1, <4>2, TimersMove
    <3> QED
      BY <2>1, <2>2, <3>1, <3>2, <3>3 DEF DeadlineCovered
  <2>7. ASSUME row'.state = "LIVE"
        PROVE  \/ deadlines'["maxLength"] = row'.startedAt + MaxLength
               \/ \E c \in Call :
                    call'[c].pc \in {"reload", "arm", "ending", "autoEnd"}
    <3>1. CASE \E c \in Call : StartCommits(c)
      BY <2>3, <3>1 DEF StartCommits, Moves, CallRecords
    <3>2. CASE row.state = "LIVE"
      <4>1. row'.startedAt = row.startedAt
        BY <3>2, RowMoves
      <4>2. CASE \E c \in Call :
                    call[c].pc \in {"reload", "arm", "ending", "autoEnd"}
        BY <1>3, <2>1, <2>7, <3>2, <4>2, CoverMoves
      <4>3. CASE deadlines["maxLength"] = row.startedAt + MaxLength
        <5>1. CASE deadlines'["maxLength"] = deadlines["maxLength"]
          BY <4>1, <4>3, <5>1
        <5>2. CASE \E c \in Call, k \in Kinds : TimerFires(k, c)
          BY <2>4, <3>2, <4>1, <4>3, <5>2
        <5>3. CASE \E c \in Call : StartArms(c)
          BY <2>5, <3>2, <4>1, <5>3
        <5>4. CASE \E c \in Call : OpenAgainArms(c)
          BY <2>8, <3>2, <4>1, <4>3, <5>4
        <5> QED
          BY <1>3, <2>1, <3>2, <5>1, <5>2, <5>3, <5>4, TimersMove
      <4> QED
        BY <2>1, <2>2, <3>2, <4>2, <4>3 DEF DeadlineCovered
    <3> QED
      BY <2>7, <3>1, <3>2, RowMoves
  <2> QED
    BY <2>6, <2>7 DEF DeadlineCovered
<1> QED
  BY <1>1, <1>2, <1>3

-----------------------------------------------------------------------------
(* The host's presence.                                                      *)

\* What the row will say once the writes in flight have landed in order.
LastWrite == IF writes = <<>> THEN row.awayAt ELSE writes[Len(writes)]

\* A stopped process has no connections, no writes and no calls.
StoppedIsEmpty ==
    ~up => /\ hostSockets = {} /\ writes = <<>>
           /\ \A c \in Call : call[c].pc = "idle"

\* The last write of an undisturbed unfinished session is right.  Only a
\* lobby the host has not joined yet may have nobody and no time of absence,
\* and a start, which needs a host, is not under way there.
PresenceTold ==
    up /\ ~disturbed /\ row.state \in {"LOBBY", "LIVE"} =>
        /\ hostSockets # {} => LastWrite = Never
        /\ hostSockets = {} /\ LastWrite = Never =>
                /\ row.state = "LOBBY"
                /\ \A c \in Call : call[c].pc # "start"

\* The oldest write in flight lands: the others stay, in their order.
LEMMA OldestRemoved ==
    ASSUME NEW S, NEW q \in Seq(S), 1 \in DOMAIN q
    PROVE  /\ RemoveAt(q, 1) \in Seq(S)
           /\ Len(RemoveAt(q, 1)) = Len(q) - 1
           /\ \A j \in 1..(Len(q) - 1) : RemoveAt(q, 1)[j] = q[j + 1]
<1>1. Len(q) \in Nat /\ Len(q) >= 1 /\ \A j \in 1..Len(q) : q[j] \in S
  BY LenProperties, ElementOfSeq
<1>2. SubSeq(q, 1, 0) \in Seq(S) /\ Len(SubSeq(q, 1, 0)) = 0
  BY <1>1, SubSeqProperties
<1>3. /\ SubSeq(q, 2, Len(q)) \in Seq(S)
      /\ \A j \in 1..(Len(q) - 1) : SubSeq(q, 2, Len(q))[j] = q[j + 1]
  <2>1. \A j \in 2..Len(q) : q[j] \in S
    BY <1>1
  <2>2. /\ SubSeq(q, 2, Len(q)) \in Seq(S)
        /\ \A j \in 1..(Len(q) - 2 + 1) :
                SubSeq(q, 2, Len(q))[j] = q[2 + j - 1]
    BY <1>1, <2>1, SubSeqProperties
  <2>3. \A j \in 1..(Len(q) - 1) :
            j \in 1..(Len(q) - 2 + 1) /\ 2 + j - 1 = j + 1
    BY <1>1
  <2>4. \A j \in 1..(Len(q) - 1) : SubSeq(q, 2, Len(q))[j] = q[j + 1]
    <3> TAKE j \in 1..(Len(q) - 1)
    <3>1. SubSeq(q, 2, Len(q))[j] = q[2 + j - 1]
      BY <2>2, <2>3
    <3> QED
      BY <2>3, <3>1
  <2> QED
    BY <2>2, <2>4
<1>4. RemoveAt(q, 1) = SubSeq(q, 1, 0) \o SubSeq(q, 2, Len(q))
  BY DEF RemoveAt
<1>5. SubSeq(q, 1, 0) = <<>>
  BY <1>2, EmptySeq
<1>6. RemoveAt(q, 1) = SubSeq(q, 2, Len(q))
  BY <1>3, <1>4, <1>5, ConcatEmptySeq
<1> QED
  BY <1>3, <1>6, RemoveAtType

LEMMA StoppedKept ==
    ASSUME TypeOK, StoppedIsEmpty, Next
    PROVE  StoppedIsEmpty'
<1>1. call \in [Call -> CallRecords]
  BY DEF TypeOK
<1>2. CASE up'
  BY <1>2 DEF StoppedIsEmpty
<1>3. CASE Crash
  BY <1>3 DEF Crash, StoppedIsEmpty, IdleCall, CallAt
<1>4. CASE ~up' /\ ~Crash
  <2>1. ~up
    BY <1>4
       DEF Next, CallStep, EnforceStep, CommandStep, WriteStep, TimerFires,
           Interaction, JoinBegins, CommandBegins, OpenAgain, EnforceLocked,
           EnforceRefused, EnforceFails, Expire, AutoEnd, EnforceForgets,
           CommandRefused, StartCommits, StartReloads, StartReloadFails,
           StartArms, OpenAgainArms, EndCommits, CloseLobbyCommits,
           CommandForgets, ForgetFails, HostArrived, HostLeft, CloseRoom,
           WriteLands, WriteFails, LockExpires, Restart, Tick, process
  <2>2. \A c \in Call : call[c].pc = "idle"
    BY <2>1 DEF StoppedIsEmpty
  <2>3. LockExpires \/ Tick
    BY <1>4, <2>1, <2>2
       DEF Next, CallStep, EnforceStep, CommandStep, WriteStep, TimerFires,
           Interaction, JoinBegins, CommandBegins, OpenAgain, EnforceLocked,
           EnforceRefused, EnforceFails, Expire, AutoEnd, EnforceForgets,
           CommandRefused, StartCommits, StartReloads, StartReloadFails,
           StartArms, OpenAgainArms, EndCommits, CloseLobbyCommits,
           CommandForgets, ForgetFails, HostArrived, HostLeft, CloseRoom,
           WriteLands, WriteFails, Restart, Commands
  <2> QED
    BY <2>1, <2>3 DEF StoppedIsEmpty, LockExpires, Tick, process
<1> QED
  BY <1>2, <1>3, <1>4

\* Only a call that has begun with the host there reaches the start of the
\* transaction.
LEMMA StartsNeedTheHost ==
    ASSUME TypeOK, Next, NEW d \in Call, call'[d].pc = "start"
    PROVE  \/ call[d].pc = "start"
           \/ hostSockets # {} /\ UNCHANGED <<row, writes, hostSockets>>
<1>1. call \in [Call -> CallRecords]
  BY DEF TypeOK
<1>2. CASE call'[d] = call[d]
  BY <1>2
<1>3. CASE \E cmd \in Commands : CommandBegins(cmd, d)
  BY <1>3 DEF CommandBegins, process
<1>4. CASE Crash
  BY <1>4 DEF Crash, IdleCall, CallAt
<1>5. CASE \/ \E k \in Kinds : TimerFires(k, d)
           \/ Interaction(d)
           \/ \E s \in Socket : JoinBegins(s, d)
           \/ OpenAgain(d)
           \/ CallStep(d)
  <2>1. /\ \A s : Enforces(d, s) => call'[d].pc # "start"
        /\ Enforced(d) => call'[d].pc # "start"
        /\ Leaves(d) => call'[d].pc # "start"
        /\ \A pc : Moves(d, pc) => call'[d].pc = pc
    BY <1>1
       DEF Enforces, Enforced, Leaves, Moves, IdleCall, CallAt, CallRecords
  <2>2. ~CallStep(d) => call'[d].pc # "start"
    BY <1>1, <1>5, <2>1
       DEF TimerFires, Interaction, JoinBegins, OpenAgain, CallAt
  <2>3. EnforceStep(d) => call'[d].pc # "start"
    BY <2>1
       DEF EnforceStep, EnforceLocked, EnforceRefused, EnforceFails, Expire,
           AutoEnd, EnforceForgets
  <2>4. CommandStep(d) \/ HostArrived(d) => call'[d].pc # "start"
    BY <1>1, <2>1
       DEF CommandStep, CommandRefused, StartCommits, StartReloads,
           StartReloadFails, StartArms, OpenAgainArms, EndCommits,
           CloseLobbyCommits, CommandForgets, ForgetFails, HostArrived, CallAt
  <2> QED
    BY <2>2, <2>3, <2>4 DEF CallStep
<1> QED
  BY <1>2, <1>3, <1>4, <1>5, OwnSteps

\* A step that leaves the connections, the writes and the presence in the row
\* alone.
LEMMA PresenceUntouched ==
    ASSUME TypeOK, Stamped(row), CallsConsistent, PresenceTold, Next,
           UNCHANGED <<hostSockets, writes>>, row'.awayAt = row.awayAt,
           up, ~disturbed
    PROVE  PresenceTold'
<1> SUFFICES ASSUME row'.state \in {"LOBBY", "LIVE"}
             PROVE  /\ hostSockets # {} => LastWrite = Never
                    /\ hostSockets = {} /\ LastWrite = Never =>
                            /\ row'.state = "LOBBY"
                            /\ \A c \in Call : call'[c].pc # "start"
  BY DEF PresenceTold, LastWrite
<1>1. row.state \in {"LOBBY", "LIVE"}
  BY RowMoves DEF TypeOK, Rows
<1>2. /\ hostSockets # {} => LastWrite = Never
      /\ hostSockets = {} /\ LastWrite = Never =>
            row.state = "LOBBY" /\ \A c \in Call : call[c].pc # "start"
  BY <1>1 DEF PresenceTold
<1>3. ASSUME hostSockets = {}, LastWrite = Never
      PROVE  /\ row'.state = "LOBBY"
             /\ \A c \in Call : call'[c].pc # "start"
  <2>1. \A c \in Call : ~StartCommits(c)
    BY <1>2, <1>3 DEF StartCommits
  <2> QED
    BY <1>2, <1>3, <2>1, RowMoves, StartsNeedTheHost
<1> QED
  BY <1>2, <1>3

LEMMA PresenceToldKept ==
    ASSUME TypeOK, Stamped(row), CallsConsistent, StoppedIsEmpty,
           PresenceTold, Next
    PROVE  PresenceTold'
<1> SUFFICES ASSUME up', ~disturbed', row'.state \in {"LOBBY", "LIVE"}
             PROVE  PresenceTold'
  BY DEF PresenceTold
<1>1. /\ call \in [Call -> CallRecords] /\ row \in Rows /\ now \in Time
      /\ writes \in Seq(Time \cup {Never})
  BY DEF TypeOK
<1>2. ~disturbed
  BY DEF Next, CallStep, EnforceStep, CommandStep, WriteStep, TimerFires,
         Interaction, JoinBegins, CommandBegins, OpenAgain, EnforceLocked,
         EnforceRefused, EnforceFails, Expire, AutoEnd, EnforceForgets,
         CommandRefused, StartCommits, StartReloads, StartReloadFails,
         StartArms, OpenAgainArms, EndCommits, CloseLobbyCommits,
         CommandForgets, ForgetFails, HostArrived, HostLeft, CloseRoom,
         WriteLands, WriteFails, LockExpires, Crash, Restart, Tick, history
<1>3. row.state \in {"LOBBY", "LIVE"}
  BY <1>1, RowMoves DEF Rows
<1>4. CASE Restart
  <2>1. /\ hostSockets' = {} /\ writes' = <<>> /\ call' = call
        /\ \A c \in Call : call[c].pc = "idle"
    BY <1>4 DEF Restart, StoppedIsEmpty
  <2>2. LastWrite' = row'.awayAt
    BY <2>1 DEF LastWrite
  <2>3. row'.state = "LIVE" => row'.awayAt # Never
    BY <1>1, <1>4 DEF Restart, MarkedDisconnected, Rows, Time, Never
  <2> QED
    BY <2>1, <2>2, <2>3 DEF PresenceTold
<1>5. up \/ Restart
  BY DEF Next, CallStep, EnforceStep, CommandStep, WriteStep, TimerFires,
         Interaction, JoinBegins, CommandBegins, OpenAgain, EnforceLocked,
         EnforceRefused, EnforceFails, Expire, AutoEnd, EnforceForgets,
         CommandRefused, StartCommits, StartReloads, StartReloadFails,
         StartArms, OpenAgainArms, EndCommits, CloseLobbyCommits,
         CommandForgets, ForgetFails, HostArrived, HostLeft, CloseRoom,
         WriteLands, WriteFails, LockExpires, Crash, Tick, process
<1>6. CASE \E c \in Call : HostArrived(c)
  <2>1. PICK c \in Call : HostArrived(c)
    BY <1>6
  <2>2. row' = row /\ hostSockets' # {}
    BY <2>1 DEF HostArrived
  <2>3. LastWrite' = Never
    <3>1. CASE hostSockets = {}
      <4>1. Never \in Time \cup {Never}
        OBVIOUS
      <4>2. /\ writes' = Append(writes, Never)
            /\ writes' \in Seq(Time \cup {Never})
            /\ Len(writes') = Len(writes) + 1
            /\ writes'[Len(writes) + 1] = Never
        BY <1>1, <2>1, <3>1, <4>1, AppendProperties
           DEF HostArrived, ArrivalWrites
      <4>3. writes' # <<>>
        BY <1>1, <4>2, EmptySeq, LenProperties
      <4> QED
        BY <4>2, <4>3 DEF LastWrite
    <3>2. CASE hostSockets # {}
      <4>1. writes' = writes /\ LastWrite = Never
        BY <1>2, <1>3, <2>1, <3>2 DEF HostArrived, PresenceTold, Restart
      <4> QED
        BY <2>2, <4>1 DEF LastWrite
    <3> QED
      BY <3>1, <3>2
  <2> QED
    BY <2>2, <2>3 DEF PresenceTold
<1>7. CASE \E s \in Socket : HostLeft(s)
  <2>1. PICK s \in Socket : HostLeft(s)
    BY <1>7
  <2>2. row' = row /\ call' = call /\ hostSockets' = hostSockets \ {s} /\ up
    BY <2>1 DEF HostLeft
  <2>3. CASE hostSockets = {s}
    <3>1. /\ writes' = Append(writes, now)
          /\ writes' \in Seq(Time \cup {Never})
          /\ Len(writes') = Len(writes) + 1
          /\ writes'[Len(writes) + 1] = now
      BY <1>1, <2>1, <2>3, AppendProperties DEF HostLeft
    <3>2. writes' # <<>>
      BY <1>1, <3>1, EmptySeq, LenProperties
    <3>3. LastWrite' = now /\ now # Never
      BY <1>1, <3>1, <3>2 DEF LastWrite, Time, Never
    <3>4. hostSockets' = {}
      BY <2>2, <2>3
    <3> QED
      BY <3>3, <3>4 DEF PresenceTold
  <2>4. CASE hostSockets # {s}
    <3>1. writes' = writes
      BY <2>1, <2>4 DEF HostLeft
    <3>2. hostSockets' = {} <=> hostSockets = {}
      BY <2>2, <2>4
    <3> QED
      BY <1>2, <1>3, <2>2, <3>1, <3>2 DEF PresenceTold, LastWrite
  <2> QED
    BY <2>3, <2>4
<1>8. CASE \E i \in DOMAIN writes : WriteLands(i)
  <2>1. PICK i \in DOMAIN writes : WriteLands(i)
    BY <1>8
  <2>2. /\ i = 1 /\ up /\ 1 \in DOMAIN writes
        /\ writes' = RemoveAt(writes, 1)
        /\ row' = [row EXCEPT !.awayAt = writes[1]]
        /\ hostSockets' = hostSockets /\ call' = call
    BY <1>3, <2>1 DEF WriteLands, process
  <2>3. /\ writes' \in Seq(Time \cup {Never})
        /\ Len(writes') = Len(writes) - 1
        /\ \A j \in 1..(Len(writes) - 1) : writes'[j] = writes[j + 1]
    BY <1>1, <2>2, OldestRemoved, Zenon
  <2>4. Len(writes) \in Nat /\ Len(writes) >= 1 /\ writes # <<>>
    BY <1>1, <2>2, LenProperties
  <2>5. row'.awayAt = writes[1] /\ row'.state = row.state
    BY <1>1, <2>2 DEF Rows
  <2>6. LastWrite = writes[Len(writes)]
    BY <2>4 DEF LastWrite
  <2>7. LastWrite' = LastWrite
    <3>1. CASE Len(writes) = 1
      <4>1. writes' = <<>>
        BY <2>3, <3>1, EmptySeq
      <4> QED
        BY <2>5, <2>6, <3>1, <4>1 DEF LastWrite
    <3>2. CASE Len(writes) # 1
      <4>1. \A n \in Nat : n >= 1 /\ n # 1 => n - 1 \in 1..(n - 1)
        OBVIOUS
      <4>2. writes'[Len(writes')] = writes[Len(writes)]
        <5>1. Len(writes) - 1 \in 1..(Len(writes) - 1)
          BY <2>4, <3>2, <4>1
        <5> QED
          BY <2>3, <2>4, <5>1
      <4>3. writes' # <<>>
        BY <2>3, <2>4, <3>2, EmptySeq
      <4> QED
        BY <2>6, <4>2, <4>3 DEF LastWrite
    <3> QED
      BY <3>1, <3>2
  <2> QED
    BY <1>2, <1>3, <2>2, <2>5, <2>7 DEF PresenceTold
<1>9. CASE /\ ~Restart /\ ~\E c \in Call : HostArrived(c)
           /\ ~\E s \in Socket : HostLeft(s)
           /\ ~\E i \in DOMAIN writes : WriteLands(i)
  <2>1. ~CloseRoom /\ ~WriteFails /\ ~Crash
    BY <1>3 DEF CloseRoom, WriteFails, Crash
  <2>2. UNCHANGED <<hostSockets, writes>> /\ row'.awayAt = row.awayAt
    BY <1>1, <1>9, <2>1
       DEF Next, CallStep, EnforceStep, CommandStep, WriteStep, TimerFires,
           Interaction, JoinBegins, CommandBegins, OpenAgain, EnforceLocked,
           EnforceRefused, EnforceFails, Expire, AutoEnd, EnforceForgets,
           CommandRefused, StartCommits, StartReloads, StartReloadFails,
           StartArms, OpenAgainArms, EndCommits, CloseLobbyCommits,
           CommandForgets, ForgetFails, LockExpires, Tick, process, RowEnded,
           Rows
  <2> QED
    BY <1>2, <1>5, <1>9, <2>2, PresenceUntouched
<1> QED
  BY <1>4, <1>6, <1>7, <1>8, <1>9

-----------------------------------------------------------------------------
(* The theorems.                                                             *)

LEMMA InitInvariant == Init => IInv
<1> SUFFICES ASSUME Init PROVE IInv
  OBVIOUS
<1>1. row = NewRow /\ now = 0 /\ call = [c \in Call |-> IdleCall]
  BY DEF Init
<1>2. NewRow \in Rows /\ 0 \in Time
  BY DEF NewRow, Rows, Time
<1>3. call \in [Call -> CallRecords]
  BY <1>1, CallAtType DEF IdleCall
<1>4. DeadlinesOK
  BY DEF Init, Unarmed, DeadlinesOK, Kinds, Never
<1>5. writes \in Seq(Time \cup {Never}) /\ Len(writes) <= MaxWrites
  <2>1. <<>> \in Seq(Time \cup {Never}) /\ Len(<<>>) = 0
    OBVIOUS
  <2> QED
    BY <2>1 DEF Init
<1>6. TypeOK
  <2>1. crashes \in 0..MaxCrashes
    BY DEF Init
  <2>2. up \in BOOLEAN /\ dropped \in BOOLEAN /\ disturbed \in BOOLEAN
    BY DEF Init
  <2>3. /\ lock \in Call \cup {NoCall, LostCall}
        /\ hostSockets \subseteq Socket /\ connected \subseteq Socket
    BY DEF Init
  <2> QED
    BY <1>1, <1>2, <1>3, <1>4, <1>5, <2>1, <2>2, <2>3 DEF TypeOK
<1>7. Stamped(row) /\ row.state = "LOBBY"
  BY <1>1 DEF NewRow, Stamped
<1>8. \A c \in Call : call[c].pc = "idle"
  BY <1>1 DEF IdleCall, CallAt
<1>9. CallsConsistent /\ ArmedFromRow
  BY <1>8 DEF CallsConsistent, Consistent, ArmedFromRow, FromRow, SawRow
<1>10. DeadlineCovered
  BY <1>7 DEF Init, Unarmed, Kinds, DeadlineCovered
<1> QED
  BY <1>6, <1>7, <1>9, <1>10 DEF IInv

LEMMA StepInvariant == IInv /\ [Next]_vars => IInv'
<1> SUFFICES ASSUME IInv, [Next]_vars PROVE IInv'
  OBVIOUS
<1>1. CASE Next
  <2>1. /\ TypeOK /\ Stamped(row) /\ CallsConsistent /\ ArmedFromRow
        /\ DeadlineCovered
    BY DEF IInv
  <2>2. TypeOK'
    BY <1>1, <2>1, CallTypes, BeginTypes, EnvTypes DEF Next
  <2> QED
    BY <1>1, <2>1, <2>2, RowMoves, ConsistentKept, FromRowKept, CoverKept
       DEF IInv
<1>2. CASE UNCHANGED vars
  BY <1>2
     DEF IInv, TypeOK, DeadlinesOK, Stamped, CallsConsistent, Consistent,
         ArmedFromRow, FromRow, SawRow, DeadlineCovered, vars, process, env, history
<1> QED
  BY <1>1, <1>2

\* The invariant holds in every reachable state, whatever the limits, the
\* number of calls and host connections, and the bounds.
THEOREM Invariant == Spec => []IInv
  BY InitInvariant, StepInvariant, PTL DEF Spec

\* The variables have their types; each armed timer is at a time derived from
\* one that was stored (armDeadlines, hostLeft).
THEOREM TypeCorrect == Spec => []TypeOK
<1>1. IInv => TypeOK
  BY DEF IInv
<1> QED
  BY <1>1, Invariant, PTL

\* An unfinished session of a running process always has the timer that
\* finishes it, or a call that is arming or applying it, unless one failed.
THEOREM AlwaysCovered == Spec => []DeadlineCovered
<1>1. IInv => DeadlineCovered
  BY DEF IInv
<1> QED
  BY <1>1, Invariant, PTL

\* No interleaving of deadlines, commands, restarts and expired locks deletes
\* or restarts a quiz that has started, or changes one that is over.
THEOREM StartedKept == Spec => StartedIsKept
<1>1. IInv /\ [Next]_vars =>
        [/\ row.state = "LIVE" =>
                /\ row'.state \in {"LIVE", "COMPLETED"}
                /\ row'.startedAt = row.startedAt
         /\ row.state = "COMPLETED" => row' = row]_vars
  BY RowMoves DEF IInv
<1> QED
  BY <1>1, Invariant, PTL DEF Spec, StartedIsKept

\* The presence invariant, on top of the first.
THEOREM PresenceInvariant == Spec => [](StoppedIsEmpty /\ PresenceTold)
<1>1. Init => StoppedIsEmpty /\ PresenceTold
  <2> SUFFICES ASSUME Init PROVE StoppedIsEmpty /\ PresenceTold
    OBVIOUS
  <2>1. /\ up /\ hostSockets = {} /\ row.state = "LOBBY"
        /\ \A c \in Call : call[c].pc = "idle"
    BY DEF Init, NewRow, IdleCall, CallAt
  <2> QED
    BY <2>1 DEF StoppedIsEmpty, PresenceTold
<1>2. IInv /\ StoppedIsEmpty /\ PresenceTold /\ [Next]_vars =>
        (StoppedIsEmpty /\ PresenceTold)'
  <2> SUFFICES ASSUME IInv, StoppedIsEmpty, PresenceTold, [Next]_vars
               PROVE  (StoppedIsEmpty /\ PresenceTold)'
    OBVIOUS
  <2>1. CASE Next
    BY <2>1, StoppedKept, PresenceToldKept DEF IInv
  <2>2. CASE UNCHANGED vars
    BY <2>2 DEF StoppedIsEmpty, PresenceTold, LastWrite, vars, process, history
  <2> QED
    BY <2>1, <2>2
<1> QED
  BY <1>1, <1>2, Invariant, PTL DEF Spec

\* setHostDisconnected and markHostsDisconnected: once its writes have landed,
\* undisturbed, the row of a started quiz tells the truth about its host,
\* whatever came and went, and also after any number of restarts.
THEOREM PresenceSettles == Spec => []SettledPresence
<1>1. PresenceTold => SettledPresence
  BY DEF PresenceTold, SettledPresence, LastWrite
<1> QED
  BY <1>1, PresenceInvariant, PTL

\* "a connected but idle host never times out" holds up to exactly what breaks
\* it: the grace period cannot end a quiz its host has a socket in unless a
\* presence write failed, was overtaken or was outlived by the clock.
THEOREM UndisturbedHostStays ==
    Spec => [](up /\ ~disturbed /\ writes = <<>> /\ hostSockets # {} =>
                    Passed(row) # "HOST_AWAY")
<1>1. PresenceTold =>
        (up /\ ~disturbed /\ writes = <<>> /\ hostSockets # {} =>
            Passed(row) # "HOST_AWAY")
  BY DEF PresenceTold, Passed, LastWrite
<1> QED
  BY <1>1, PresenceInvariant, PTL

-----------------------------------------------------------------------------
(* The quiz the session belongs to.                                          *)

\* The quiz, as its session decides it: a deleted session leaves it published.
\* "host" and "quiz" stand for its host and id; nobody registers here.
Room == INSTANCE QuizStatus WITH
            Account <- {"host"}, Quiz <- {"quiz"}, NoAccount <- "nobody",
            accounts <- {"host"},
            status <- [q \in {"quiz"} |->
                        IF row.state = "DELETED" THEN "PUBLISHED" ELSE row.state],
            host <- [q \in {"quiz"} |-> "host"],
            registered <- [q \in {"quiz"} |-> {}]

\* Whatever timers, commands, expired locks, restarts and presence writes do
\* in whatever order, the quiz only takes the steps of QuizStatus: it is never
\* back in a lobby or live, and a lobby ends in one of the ways a quiz's does.
THEOREM RoomFollowsQuizStatus == Spec => [][Room!Next]_(Room!vars)
<1>1. IInv /\ [Next]_vars => [Room!Next]_(Room!vars)
  <2> SUFFICES ASSUME IInv, [Next]_vars PROVE [Room!Next]_(Room!vars)
    OBVIOUS
  <2>1. CASE row'.state = row.state
    BY <2>1 DEF Room!vars
  <2>2. CASE row'.state # row.state
    <3>1. Next
      BY <2>2 DEF vars
    <3>2. /\ row.state = "LIVE" => row'.state \in {"LIVE", "COMPLETED"}
          /\ row.state \in {"COMPLETED", "DELETED"} => row' = row
      BY <3>1, RowMoves DEF IInv
    <3>3. /\ row.state \in {"LOBBY", "LIVE", "COMPLETED", "DELETED"}
          /\ row'.state \in {"LOBBY", "LIVE", "COMPLETED", "DELETED"}
      BY StepInvariant DEF IInv, TypeOK, Rows
    <3>4. \/ row.state = "LOBBY" /\ row'.state \in {"LIVE", "COMPLETED", "DELETED"}
          \/ row.state = "LIVE" /\ row'.state = "COMPLETED"
      BY <2>2, <3>2, <3>3
    <3>5. Room!Lives("quiz")
      BY <3>4
         DEF Room!Lives, Room!Start, Room!End, Room!CloseLobby, Room!Becomes
    <3> QED
      BY <3>5 DEF Room!Next
  <2> QED
    BY <2>1, <2>2
<1> QED
  BY <1>1, Invariant, PTL DEF Spec

=============================================================================
