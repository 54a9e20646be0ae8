-------------------------- MODULE AttendanceProofs --------------------------
(***************************************************************************)
(* Proofs about Attendance, for any number of users, sockets and restarts.  *)
(***************************************************************************)
EXTENDS Attendance, TLAPS

\* Nothing is answered, nor any registration confirmed, before the start:
\* that is why unregistering, which is over by then, cannot make the cache
\* stale.
QuietLobby == state = "LOBBY" => answered \cup confirmed = {}

IInv == AnswersByRegistered /\ QuietLobby

LEMMA InitIInv == Init => IInv
  BY DEF Init, IInv, AnswersByRegistered, QuietLobby

\* One case per kind of step that touches what IInv speaks of.
LEMMA NextIInv == IInv /\ [Next]_vars => IInv'
<1> SUFFICES ASSUME IInv, [Next]_vars PROVE IInv'
  OBVIOUS
<1> USE DEF IInv, AnswersByRegistered, QuietLobby
<1>1. CASE \E p \in Participant : UserStep(p)
  <2> PICK p \in Participant : UserStep(p)
    BY <1>1
  <2>1. CASE Register(p)
    BY <2>1 DEF Register
  <2>2. CASE Unregister(p)
    BY <2>2 DEF Unregister, UnregisterOpen
  <2>3. CASE Evict(p)
    BY <2>3 DEF Evict, db
  <2>4. CASE RemoveParticipation(p)
    BY <2>4 DEF RemoveParticipation
  <2>5. CASE \E s \in Socket : Connect(s, p)
    BY <2>5 DEF Connect, db
  <2>6. CASE HandlerFails(p)
    BY <2>6 DEF HandlerFails, db
  <2> QED
    BY <2>1, <2>2, <2>3, <2>4, <2>5, <2>6 DEF UserStep
<1>2. CASE \E s \in Socket : SocketStep(s)
  <2> PICK s \in Socket : SocketStep(s)
    BY <1>2
  <2>1. CASE Answer(s)
    BY <2>1 DEF Answer
  <2>2. CASE RecordJoin(s)
    BY <2>2 DEF RecordJoin
  <2>3. CASE \/ JoinAdmitted(s) \/ ClaimPresence(s) \/ JoinReturns(s)
             \/ JoinFails(s)
    BY <2>3 DEF JoinAdmitted, ClaimPresence, JoinReturns, JoinFails, db
  <2>4. CASE \/ Disconnect(s) \/ Leave(s) \/ ReleasePresence(s)
             \/ ReleaseFails(s)
    BY <2>4 DEF Disconnect, Leave, ReleasePresence, ReleaseFails, db
  <2> QED
    BY <2>1, <2>2, <2>3, <2>4 DEF SocketStep
<1>3. CASE Start
  BY <1>3 DEF Start
<1>4. CASE SetLateJoin
  BY <1>4 DEF SetLateJoin
<1>5. CASE End
  BY <1>5 DEF End
<1>6. CASE Restart
  BY <1>6 DEF Restart, db
<1>7. CASE UNCHANGED vars
  BY <1>7 DEF vars, db
<1> QED
  BY <1>1, <1>2, <1>3, <1>4, <1>5, <1>6, <1>7 DEF Next

\* Accepted answers are by registered users, although `submit` trusts a cache
\* of confirmed registrations (isConfirmedParticipant) and never looks again.
THEOREM AnswersAreByRegistered == Spec => []AnswersByRegistered
<1>1. IInv => AnswersByRegistered
  BY DEF IInv
<1> QED
  BY InitIInv, NextIInv, <1>1, PTL DEF Spec

-----------------------------------------------------------------------------
(* Presence.                                                                 *)

\* Who knows which socket.  A socket in use has a user; one that is releasing
\* its presence is closed or has left; a join remembers the socket it replaced,
\* never itself; an unregistration remembers the one it evicted.
SocketsKnown ==
    /\ \A s \in Socket :
        /\ socket[s].open \/ socket[s].joining # "no" \/ socket[s].releasing =>
                socket[s].user \in Participant
        /\ socket[s].releasing =>
                ~socket[s].open \/ (~socket[s].role /\ socket[s].joining = "no")
        /\ socket[s].replaced # s
    /\ \A p \in Participant :
        removal[p].pc # "remove" => removal[p].socket = NoSocket

\* Where the socket stands: its user's active one, or about to be closed.
Placed(s) ==
    \/ presence[socket[s].user] = s
    \/ \E t \in Socket : socket[t].replaced = s
    \/ removal[socket[s].user].socket = s

\* A join that is about to return already stands where a joined socket does.
AllPlaced ==
    ~failed =>
        \A s \in Socket :
            socket[s].open /\ (socket[s].role \/ socket[s].joining = "returning")
                => Placed(s)

PInv == TypeOK /\ SocketsKnown /\ AllPlaced

USE NoneAssumption, CrashAssumption

SocketRecords ==
    [user : Participant \cup {NoUser}, open : BOOLEAN, role : BOOLEAN,
     joining : {"no", "recording", "claiming", "returning"},
     replaced : SocketOrNone, releasing : BOOLEAN]

\* The records a step leaves a socket with are socket records.
LEMMA SocketRecordsKept ==
    ASSUME TypeOK, NEW s \in Socket
    PROVE  /\ socket[s] \in SocketRecords
           /\ Closed(s) \in SocketRecords
           /\ Unused \in SocketRecords
           /\ \A p \in Participant : Fresh(p) \in SocketRecords
<1>1. socket[s] \in SocketRecords
  BY DEF TypeOK, SocketRecords
<1>2. Closed(s) \in SocketRecords
  <2>1. [socket[s] EXCEPT !.open = FALSE, !.role = FALSE,
                          !.releasing = @ \/ socket[s].role] \in SocketRecords
    BY <1>1, Zenon DEF SocketRecords
  <2> QED
    BY <1>1, <2>1 DEF Closed
<1>3. Unused \in SocketRecords
  BY DEF Unused, Fresh, SocketRecords, SocketOrNone
<1>4. \A p \in Participant : Fresh(p) \in SocketRecords
  BY DEF Fresh, SocketRecords, SocketOrNone
<1> QED
  BY <1>1, <1>2, <1>3, <1>4

\* Closing a socket changes three of its fields at most.
LEMMA ClosedFields ==
    ASSUME TypeOK, NEW s \in Socket
    PROVE  /\ Closed(s).user = socket[s].user
           /\ Closed(s).joining = socket[s].joining
           /\ Closed(s).replaced = socket[s].replaced
           /\ ~Closed(s).open
           /\ Closed(s).role => socket[s].role
           /\ Closed(s).releasing => socket[s].open \/ socket[s].releasing
<1>1. socket[s] \in SocketRecords
  BY SocketRecordsKept
<1>2. CASE ~socket[s].open
  BY <1>2 DEF Closed
<1>3. CASE socket[s].open
  <2> DEFINE r == [socket[s] EXCEPT !.open = FALSE, !.role = FALSE,
                                    !.releasing = @ \/ socket[s].role]
  <2>1. Closed(s) = r
    BY <1>3 DEF Closed
  <2>2. /\ r.user = socket[s].user
        /\ r.joining = socket[s].joining
        /\ r.replaced = socket[s].replaced
        /\ r.open = FALSE /\ r.role = FALSE
    BY <1>1 DEF SocketRecords
  <2> HIDE DEF r
  <2> QED
    BY <1>3, <2>1, <2>2
<1> QED
  BY <1>2, <1>3

\* What a user's step does to the sockets, the presence and the removals.
LEMMA UserKnown ==
    ASSUME TypeOK, SocketsKnown, NEW p \in Participant, UserStep(p)
    PROVE  TypeOK' /\ SocketsKnown'
<1> USE DEF TypeOK, db, env
<1>0. /\ socket \in [Socket -> SocketRecords]
      /\ removal \in [Participant ->
                [pc : {"none", "evict", "remove"}, socket : SocketOrNone]]
      /\ NoRemoval \in
                [pc : {"none", "evict", "remove"}, socket : SocketOrNone]
  BY DEF SocketRecords, NoRemoval, SocketOrNone
<1>1. CASE Register(p)
  BY <1>1 DEF Register, SocketsKnown
<1>2. CASE Unregister(p)
  BY <1>0, <1>2 DEF Unregister, SocketsKnown
<1>3. CASE Evict(p)
  <2>1. CASE state = "COMPLETED"
    BY <1>0, <1>3, <2>1 DEF Evict, SocketsKnown, NoRemoval
  <2>2. CASE state # "COMPLETED"
    <3>1. [pc |-> "remove", socket |-> presence[p]] \in
                [pc : {"none", "evict", "remove"}, socket : SocketOrNone]
      OBVIOUS
    <3>2. NoSocket \in SocketOrNone
      BY DEF SocketOrNone
    <3>3. /\ removal' \in [Participant ->
                [pc : {"none", "evict", "remove"}, socket : SocketOrNone]]
          /\ presence' \in [Participant -> SocketOrNone]
          /\ socket' = socket /\ confirmed' = confirmed /\ UNCHANGED <<db, env>>
      BY <1>0, <1>3, <2>2, <3>1, <3>2 DEF Evict
    <3>4. \A q \in Participant :
            removal'[q].pc # "remove" => removal'[q].socket = NoSocket
      BY <1>0, <1>3, <2>2 DEF Evict, SocketsKnown
    <3> QED
      BY <3>3, <3>4 DEF SocketsKnown
  <2> QED
    BY <2>1, <2>2
<1>4. CASE RemoveParticipation(p)
  <2>1. \A s \in Socket : socket'[s] = socket[s] \/ socket'[s] = Closed(s)
    BY <1>4 DEF RemoveParticipation
  <2>2. \A s \in Socket :
            /\ socket'[s] \in SocketRecords
            /\ socket'[s].role => socket[s].role
            /\ socket'[s].user = socket[s].user
            /\ socket'[s].replaced = socket[s].replaced
            /\ socket'[s].joining = socket[s].joining
            /\ socket'[s] = socket[s] \/ ~socket'[s].open
            /\ socket'[s].releasing => socket[s].open \/ socket[s].releasing
    BY <1>0, <2>1, SocketRecordsKept, ClosedFields
  <2>3. socket' \in [Socket -> SocketRecords]
    BY <1>4, <2>2 DEF RemoveParticipation
  <2>4. removal' \in [Participant ->
                [pc : {"none", "evict", "remove"}, socket : SocketOrNone]]
    BY <1>0, <1>4 DEF RemoveParticipation
  <2>5. TypeOK'
    BY <1>4, <2>2, <2>3, <2>4 DEF RemoveParticipation, SocketRecords
  <2>6. \A q \in Participant :
            removal'[q].pc # "remove" => removal'[q].socket = NoSocket
    BY <1>0, <1>4 DEF RemoveParticipation, SocketsKnown, NoRemoval
  <2> QED
    BY <2>2, <2>5, <2>6 DEF SocketsKnown
<1>5. CASE HandlerFails(p)
  BY <1>0, <1>5 DEF HandlerFails, SocketsKnown, NoRemoval
<1>6. CASE \E s \in Socket : Connect(s, p)
  <2>1. PICK s \in Socket : Connect(s, p)
    BY <1>6
  <2>2. socket' \in [Socket -> SocketRecords]
    BY <1>0, <2>1, SocketRecordsKept DEF Connect
  <2>3. \A t \in Socket : t # s => socket'[t] = socket[t]
    BY <1>0, <2>1 DEF Connect
  <2>4. socket'[s] = Fresh(p)
    BY <1>0, <2>1 DEF Connect
  <2>5. TypeOK'
    BY <1>0, <2>1, <2>2, <2>3, <2>4 DEF Connect, Fresh, SocketRecords
  <2> QED
    BY <2>1, <2>3, <2>4, <2>5 DEF Connect, Fresh, SocketsKnown
<1> QED
  BY <1>1, <1>2, <1>3, <1>4, <1>5, <1>6 DEF UserStep

\* The same of a socket's step.
LEMMA SocketKnown ==
    ASSUME TypeOK, SocketsKnown, NEW s \in Socket, SocketStep(s)
    PROVE  TypeOK' /\ SocketsKnown'
<1> USE DEF TypeOK, db, env
<1>0. /\ socket \in [Socket -> SocketRecords]
      /\ socket[s] \in SocketRecords
      /\ socket[s].open \/ socket[s].joining # "no" \/ socket[s].releasing =>
                socket[s].user \in Participant
  BY DEF SocketRecords, SocketsKnown
<1>1. CASE JoinAdmitted(s)
  <2>1. socket' \in [Socket -> SocketRecords]
    BY <1>0, <1>1 DEF JoinAdmitted, SocketRecords
  <2>2. \A t \in Socket :
            \/ socket'[t] = socket[t]
            \/ /\ t = s
               /\ socket'[t].user = socket[t].user
               /\ socket'[t].replaced = socket[t].replaced
               /\ socket'[t].role = socket[t].role
               /\ ~socket'[t].releasing
    BY <1>0, <1>1 DEF JoinAdmitted, SocketRecords
  <2>3. socket[s].user \in Participant /\ socket[s].joining = "no"
    BY <1>0, <1>1 DEF JoinAdmitted
  <2>4. TypeOK'
    BY <1>0, <1>1, <2>1, <2>2, <2>3 DEF JoinAdmitted, SocketRecords
  <2> QED
    BY <1>1, <2>2, <2>3, <2>4 DEF JoinAdmitted, SocketsKnown
<1>2. CASE RecordJoin(s) \/ JoinFails(s)
  <2>1. socket' \in [Socket -> SocketRecords]
    BY <1>0, <1>2 DEF RecordJoin, JoinFails, SocketRecords, SocketOrNone
  <2>2. \A t \in Socket :
            \/ socket'[t] = socket[t]
            \/ /\ t = s
               /\ socket'[t].user = socket[t].user
               /\ socket'[t].role = socket[t].role
               /\ socket'[t].open = socket[t].open
               /\ socket'[t].releasing = socket[t].releasing
               /\ socket'[t].replaced \in {socket[t].replaced, NoSocket}
    BY <1>0, <1>2 DEF RecordJoin, JoinFails, SocketRecords
  <2>3. socket[s].user \in Participant /\ socket[s].joining # "no"
    BY <1>0, <1>2 DEF RecordJoin, JoinFails
  <2>4. socket'[s].replaced = NoSocket
    BY <1>0, <1>2 DEF RecordJoin, JoinFails, SocketRecords
  <2>5. participation' \subseteq Participant
    BY <1>2, <2>3 DEF RecordJoin, JoinFails
  <2>6. TypeOK'
    <3>1. \A t \in Socket :
            /\ socket'[t].replaced # NoSocket =>
                    socket'[t].joining = "returning"
            /\ socket'[t].role => socket'[t].user # NoUser
      BY <2>2, <2>4
    <3>2. failed' \in BOOLEAN
      BY <1>2 DEF RecordJoin, JoinFails
    <3> QED
      BY <1>2, <2>1, <2>5, <3>1, <3>2 DEF RecordJoin, JoinFails, SocketRecords
  <2> QED
    BY <1>2, <2>2, <2>3, <2>6 DEF RecordJoin, JoinFails, SocketsKnown
<1>3. CASE ClaimPresence(s)
  <2>1. Replaced(s) \in SocketOrNone /\ Replaced(s) # s
    BY <1>0, <1>3 DEF ClaimPresence, Replaced, SocketOrNone
  <2>2. socket' \in [Socket -> SocketRecords]
    BY <1>0, <1>3, <2>1 DEF ClaimPresence, SocketRecords
  <2>3. \A t \in Socket :
            \/ socket'[t] = socket[t]
            \/ /\ t = s
               /\ socket'[t].user = socket[t].user
               /\ socket'[t].role = socket[t].role
               /\ socket'[t].open = socket[t].open
               /\ socket'[t].releasing = socket[t].releasing
               /\ socket'[t].joining = "returning"
               /\ socket'[t].replaced = Replaced(s)
    BY <1>0, <1>3 DEF ClaimPresence, SocketRecords
  <2>4. socket[s].user \in Participant /\ socket[s].joining = "claiming"
    BY <1>0, <1>3 DEF ClaimPresence
  <2>5. presence' \in [Participant -> SocketOrNone]
    BY <1>3 DEF ClaimPresence, SocketOrNone
  <2>6. TypeOK'
    BY <1>0, <1>3, <2>2, <2>3, <2>4, <2>5 DEF ClaimPresence, SocketRecords
  <2> QED
    BY <1>3, <2>1, <2>3, <2>4, <2>6 DEF ClaimPresence, SocketsKnown
<1>4. CASE JoinReturns(s)
  <2> DEFINE joined == [socket[s] EXCEPT !.role = TRUE, !.joining = "no",
                                         !.replaced = NoSocket]
  <2>1. \A t \in Socket :
            socket'[t] = IF t = s THEN joined
                         ELSE IF t = socket[s].replaced THEN Closed(t)
                         ELSE socket[t]
    BY <1>4 DEF JoinReturns
  <2>2. /\ joined \in SocketRecords
        /\ joined.user = socket[s].user /\ joined.open = socket[s].open
        /\ joined.replaced = NoSocket /\ joined.joining = "no"
        /\ joined.releasing = socket[s].releasing
    BY <1>0 DEF SocketRecords, SocketOrNone
  <2>3. socket' \in [Socket -> SocketRecords]
    <3>1. \A t \in Socket : socket'[t] \in SocketRecords
      BY <2>1, <2>2, SocketRecordsKept
    <3>2. socket' = [t \in Socket |-> socket'[t]]
      BY <1>4 DEF JoinReturns
    <3> QED
      BY <3>1, <3>2
  <2>4. socket[s].user \in Participant /\ socket[s].joining = "returning"
    BY <1>0, <1>4 DEF JoinReturns
  <2>5. \A t \in Socket :
            \/ t = s /\ socket'[t] = joined
            \/ socket'[t] = socket[t]
            \/ socket'[t] = Closed(t)
    BY <2>1
  <2> HIDE DEF joined
  <2>6. \A t \in Socket :
            /\ socket'[t].replaced # NoSocket =>
                    socket'[t].joining = "returning"
            /\ socket'[t].role => socket'[t].user # NoUser
    BY <2>2, <2>4, <2>5, ClosedFields
  <2>7. TypeOK'
    BY <1>4, <2>3, <2>6 DEF JoinReturns, SocketRecords
  <2>8. socket[s].releasing => ~socket[s].open
    BY <2>4 DEF SocketsKnown
  <2>9. \A t \in Socket :
            /\ socket'[t].open \/ socket'[t].joining # "no"
               \/ socket'[t].releasing => socket'[t].user \in Participant
            /\ socket'[t].releasing =>
                    ~socket'[t].open
                    \/ (~socket'[t].role /\ socket'[t].joining = "no")
            /\ socket'[t].replaced # t
    BY <2>2, <2>4, <2>5, <2>8, ClosedFields DEF SocketsKnown
  <2>10. removal' = removal
    BY <1>4 DEF JoinReturns
  <2> QED
    BY <2>7, <2>9, <2>10 DEF SocketsKnown
<1>5. CASE Disconnect(s)
  <2>1. \A t \in Socket :
            socket'[t] = IF t = s THEN Closed(s) ELSE socket[t]
    BY <1>0, <1>5 DEF Disconnect
  <2>2. socket' \in [Socket -> SocketRecords]
    BY <1>0, <1>5, SocketRecordsKept DEF Disconnect
  <2>3. TypeOK'
    BY <1>5, <2>1, <2>2, ClosedFields DEF Disconnect, SocketRecords
  <2>4. UNCHANGED removal
    BY <1>5 DEF Disconnect
  <2> QED
    BY <2>1, <2>3, <2>4, ClosedFields DEF SocketsKnown
<1>6. CASE Leave(s) \/ ReleasePresence(s) \/ ReleaseFails(s)
  <2>1. \A t \in Socket : t # s => socket'[t] = socket[t]
    BY <1>0, <1>6 DEF Leave, ReleasePresence, ReleaseFails
  <2>2. /\ socket' \in [Socket -> SocketRecords]
        /\ socket'[s].user = socket[s].user
        /\ socket'[s].open = socket[s].open
        /\ socket'[s].joining = socket[s].joining
        /\ socket'[s].replaced = socket[s].replaced
        /\ socket'[s].role => socket[s].role
        /\ socket'[s].releasing => Leave(s) /\ ~socket'[s].role
    <3>1. CASE Leave(s)
      BY <1>0, <3>1 DEF Leave, SocketRecords
    <3>2. CASE ReleasePresence(s)
      <4> DEFINE left == [socket[s] EXCEPT
                !.releasing = FALSE, !.role = @ /\ ~socket[s].open]
      <4>1. left \in SocketRecords
        BY <1>0, Zenon DEF SocketRecords
      <4>2. /\ left.user = socket[s].user /\ left.open = socket[s].open
            /\ left.joining = socket[s].joining
            /\ left.replaced = socket[s].replaced
            /\ left.releasing = FALSE
        BY <1>0 DEF SocketRecords
      <4>3. left.role => socket[s].role
        BY <1>0, Zenon DEF SocketRecords
      <4>4. socket' = [socket EXCEPT ![s] = left]
        BY <1>0, <3>2 DEF ReleasePresence
      <4> HIDE DEF left
      <4> QED
        BY <1>0, <4>1, <4>2, <4>3, <4>4
    <3>3. CASE ReleaseFails(s)
      BY <1>0, <3>3 DEF ReleaseFails, SocketRecords
    <3> QED
      BY <1>6, <3>1, <3>2, <3>3
  <2>3. presence' \in [Participant -> SocketOrNone]
    BY <1>6 DEF Leave, ReleasePresence, ReleaseFails, SocketOrNone
  <2>4. TypeOK'
    BY <1>6, <2>1, <2>2, <2>3
       DEF Leave, ReleasePresence, ReleaseFails, SocketRecords
  <2>5. /\ removal' = removal
        /\ Leave(s) => socket[s].joining = "no" /\ socket[s].open
    BY <1>6 DEF Leave, ReleasePresence, ReleaseFails
  <2> QED
    BY <2>1, <2>2, <2>4, <2>5 DEF SocketsKnown
<1>7. CASE Answer(s)
  BY <1>0, <1>7 DEF Answer, SocketsKnown
<1> QED
  BY <1>1, <1>2, <1>3, <1>4, <1>5, <1>6, <1>7 DEF SocketStep

LEMMA KnownKept == TypeOK /\ SocketsKnown /\ [Next]_vars =>
                        TypeOK' /\ SocketsKnown'
<1> SUFFICES ASSUME TypeOK, SocketsKnown, [Next]_vars
             PROVE  TypeOK' /\ SocketsKnown'
  OBVIOUS
<1>1. CASE Start \/ SetLateJoin \/ End
  BY <1>1 DEF TypeOK, SocketsKnown, Start, SetLateJoin, End, env
<1>2. CASE Restart
  <2>1. /\ \A s \in Socket : socket'[s] = Unused
        /\ \A p \in Participant : removal'[p] = NoRemoval
    BY <1>2 DEF Restart
  <2>2. crashes' \in 0..MaxCrashes
    BY <1>2 DEF Restart, TypeOK
  <2>3. socket' \in [Socket -> SocketRecords]
    BY <1>2, SocketRecordsKept DEF Restart
  <2>4. TypeOK'
    BY <1>2, <2>1, <2>2, <2>3
       DEF Restart, TypeOK, Unused, Fresh, NoRemoval, SocketOrNone,
           SocketRecords, db
  <2> QED
    BY <2>1, <2>4 DEF SocketsKnown, Unused, Fresh, NoRemoval
<1>3. CASE UNCHANGED vars
  BY <1>3 DEF TypeOK, SocketsKnown, vars, db, env
<1> QED
  BY <1>1, <1>2, <1>3, UserKnown, SocketKnown DEF Next

\* A step that neither fails nor forgets keeps every socket placed.
LEMMA PlacedKept == PInv /\ [Next]_vars => AllPlaced'
<1> SUFFICES ASSUME PInv, [Next]_vars, ~failed', NEW s \in Socket,
                    socket'[s].open,
                    socket'[s].role \/ socket'[s].joining = "returning"
             PROVE  Placed(s)'
  BY DEF AllPlaced
<1>0. /\ TypeOK /\ SocketsKnown /\ AllPlaced
      /\ socket \in [Socket -> SocketRecords]
      /\ removal \in [Participant ->
                [pc : {"none", "evict", "remove"}, socket : SocketOrNone]]
      /\ presence \in [Participant -> SocketOrNone]
  BY DEF PInv, TypeOK, SocketRecords
<1>1. ~failed
  BY DEF Next, UserStep, SocketStep, Register, Unregister, Evict,
         RemoveParticipation, HandlerFails, Connect, JoinAdmitted, RecordJoin,
         ClaimPresence, JoinReturns, JoinFails, Disconnect, Leave,
         ReleasePresence, ReleaseFails, Answer, Start, SetLateJoin, End,
         Restart, vars, env
\* Steps that move neither presence nor a socket's place.
<1>2. CASE \/ \E p \in Participant : Register(p)
           \/ \E t \in Socket : Answer(t)
           \/ Start \/ SetLateJoin \/ End \/ UNCHANGED vars
  BY <1>0, <1>1, <1>2
     DEF AllPlaced, Placed, Register, Answer, Start, SetLateJoin, End, vars, env
<1>3. CASE \E p \in Participant : Unregister(p)
  BY <1>0, <1>1, <1>3 DEF AllPlaced, Placed, Unregister, SocketsKnown
<1>4. CASE \E p \in Participant : Evict(p)
  <2>1. PICK p \in Participant : Evict(p)
    BY <1>4
  <2>2. socket' = socket /\ Placed(s) /\ socket[s].user \in Participant
    BY <1>0, <1>1, <2>1 DEF AllPlaced, Evict, SocketsKnown
  <2>3. removal[p].socket = NoSocket /\ s # NoSocket
    BY <1>0, <2>1 DEF Evict, SocketsKnown
  <2>4. CASE socket[s].user # p
    BY <1>0, <2>1, <2>2, <2>4 DEF Evict, Placed
  <2>5. CASE socket[s].user = p
    BY <1>0, <2>1, <2>2, <2>3, <2>5 DEF Evict, Placed
  <2> QED
    BY <2>4, <2>5
<1>5. CASE \E p \in Participant : RemoveParticipation(p)
  <2>1. PICK p \in Participant : RemoveParticipation(p)
    BY <1>5
  <2>2. \A t \in Socket :
            /\ socket'[t] = IF t = removal[p].socket THEN Closed(t)
                            ELSE socket[t]
            /\ socket'[t].replaced = socket[t].replaced
    BY <1>0, <2>1, ClosedFields DEF RemoveParticipation
  <2>3. s # removal[p].socket /\ socket'[s] = socket[s]
    BY <1>0, <2>2, ClosedFields
  <2>4. Placed(s)
    BY <1>0, <1>1, <2>3 DEF AllPlaced
  <2>5. \A q \in Participant : q # p => removal'[q] = removal[q]
    BY <1>0, <2>1 DEF RemoveParticipation
  <2>6. socket[s].user \in Participant
    BY <1>0, <2>3 DEF SocketsKnown
  <2> QED
    BY <2>1, <2>2, <2>3, <2>4, <2>5, <2>6 DEF Placed, RemoveParticipation
<1>6. CASE \E p \in Participant, t \in Socket : Connect(t, p)
  <2>1. PICK p \in Participant, t \in Socket : Connect(t, p)
    BY <1>6
  <2>2. \A u \in Socket : socket'[u] = IF u = t THEN Fresh(p) ELSE socket[u]
    BY <1>0, <2>1 DEF Connect
  <2>3. s # t /\ socket'[s] = socket[s]
    BY <2>2 DEF Fresh
  <2>4. Placed(s)
    BY <1>0, <1>1, <2>3 DEF AllPlaced
  <2>5. socket[t].replaced = NoSocket /\ s # NoSocket
    BY <1>0, <2>1 DEF Connect, TypeOK
  <2> QED
    BY <2>1, <2>2, <2>3, <2>4, <2>5 DEF Placed, Connect
<1>7. CASE \E t \in Socket : JoinAdmitted(t) \/ RecordJoin(t)
  <2>1. PICK t \in Socket : JoinAdmitted(t) \/ RecordJoin(t)
    BY <1>7
  <2>2. \A u \in Socket :
            /\ socket'[u].user = socket[u].user
            /\ socket'[u].open = socket[u].open
            /\ socket'[u].role = socket[u].role
            /\ socket'[u].replaced = socket[u].replaced
            /\ socket'[u].joining = "returning" =>
                    socket[u].joining = "returning"
    <3>1. socket \in [Socket -> SocketRecords]
      BY <1>0
    <3>2. CASE JoinAdmitted(t)
      <4>1. socket' = [socket EXCEPT ![t].joining = "recording"]
        BY <3>2 DEF JoinAdmitted
      <4> QED
        BY <3>1, <4>1 DEF SocketRecords
    <3>3. CASE RecordJoin(t)
      <4>1. socket' = [socket EXCEPT ![t].joining = "claiming"]
        BY <3>3 DEF RecordJoin
      <4> QED
        BY <3>1, <4>1 DEF SocketRecords
    <3> QED
      BY <2>1, <3>2, <3>3
  <2>3. Placed(s)
    BY <1>0, <1>1, <2>2 DEF AllPlaced
  <2> QED
    BY <2>1, <2>2, <2>3 DEF Placed, JoinAdmitted, RecordJoin
<1>8. CASE \E t \in Socket : ClaimPresence(t)
  <2>1. PICK t \in Socket : ClaimPresence(t)
    BY <1>8
  <2>2. /\ \A u \in Socket :
            /\ socket'[u].user = socket[u].user
            /\ socket'[u].open = socket[u].open
            /\ socket'[u].role = socket[u].role
        /\ \A u \in Socket : u # t => socket'[u] = socket[u]
        /\ socket'[t].replaced = Replaced(t)
    BY <1>0, <2>1 DEF ClaimPresence, SocketRecords
  <2>3. socket[t].user \in Participant /\ socket[t].replaced = NoSocket
    BY <1>0, <2>1 DEF ClaimPresence, SocketsKnown, TypeOK
  <2>4. /\ presence'[socket[t].user] = t
        /\ \A q \in Participant : q # socket[t].user => presence'[q] = presence[q]
        /\ removal' = removal
    BY <1>0, <2>1, <2>3 DEF ClaimPresence
  <2>5. CASE s = t
    BY <2>2, <2>4, <2>5 DEF Placed
  <2>6. CASE s # t
    <3>1. Placed(s) /\ socket[s].user \in Participant /\ s # NoSocket
      BY <1>0, <1>1, <2>2, <2>6 DEF AllPlaced, SocketsKnown
    <3>2. CASE presence[socket[s].user] = s
      <4>1. CASE socket[s].user = socket[t].user
        <5>1. Replaced(t) = s
          BY <2>6, <3>2, <4>1 DEF Replaced
        <5> QED
          BY <2>2, <5>1 DEF Placed
      <4>2. CASE socket[s].user # socket[t].user
        BY <2>2, <2>4, <3>1, <3>2, <4>2 DEF Placed
      <4> QED
        BY <4>1, <4>2
    <3>3. CASE \E u \in Socket : socket[u].replaced = s
      BY <2>2, <2>3, <3>1, <3>3 DEF Placed
    <3>4. CASE removal[socket[s].user].socket = s
      BY <2>2, <2>4, <3>4 DEF Placed
    <3> QED
      BY <3>1, <3>2, <3>3, <3>4 DEF Placed
  <2> QED
    BY <2>5, <2>6
<1>9. CASE \E t \in Socket : JoinReturns(t)
  <2>1. PICK t \in Socket : JoinReturns(t)
    BY <1>9
  <2> DEFINE joined == [socket[t] EXCEPT !.role = TRUE, !.joining = "no",
                                         !.replaced = NoSocket]
  <2>2. \A u \in Socket :
            socket'[u] = IF u = t THEN joined
                         ELSE IF u = socket[t].replaced THEN Closed(u)
                         ELSE socket[u]
    BY <2>1 DEF JoinReturns
  <2>3. joined.user = socket[t].user /\ joined.open = socket[t].open
    BY <1>0 DEF SocketRecords
  <2> HIDE DEF joined
  <2>4. /\ \A u \in Socket : u # t => socket'[u].replaced = socket[u].replaced
        /\ s # t => s # socket[t].replaced /\ socket'[s] = socket[s]
        /\ socket'[s].user = socket[s].user
        /\ socket[s].open
    BY <1>0, <2>2, <2>3, ClosedFields
  <2>5. Placed(s)
    <3>1. s = t => socket[s].joining = "returning"
      BY <2>1 DEF JoinReturns
    <3> QED
      BY <1>0, <1>1, <2>4, <3>1 DEF AllPlaced
  <2>6. socket[t].replaced # t
    BY <1>0 DEF SocketsKnown
  <2>7. presence' = presence /\ removal' = removal
    BY <2>1 DEF JoinReturns
  <2> QED
    BY <2>4, <2>5, <2>6, <2>7 DEF Placed
<1>10. CASE \E t \in Socket : Disconnect(t)
  <2>1. PICK t \in Socket : Disconnect(t)
    BY <1>10
  <2>2. \A u \in Socket :
            /\ socket'[u] = IF u = t THEN Closed(u) ELSE socket[u]
            /\ socket'[u].replaced = socket[u].replaced
    BY <1>0, <2>1, ClosedFields DEF Disconnect
  <2>3. s # t /\ socket'[s] = socket[s]
    BY <1>0, <2>2, ClosedFields
  <2>4. Placed(s)
    BY <1>0, <1>1, <2>3 DEF AllPlaced
  <2> QED
    BY <2>1, <2>2, <2>3, <2>4 DEF Placed, Disconnect
<1>11. CASE \E t \in Socket : Leave(t) \/ ReleasePresence(t) \/ ReleaseFails(t)
  <2>1. PICK t \in Socket : Leave(t) \/ ReleasePresence(t) \/ ReleaseFails(t)
    BY <1>11
  <2>2. \A u \in Socket :
            /\ u # t => socket'[u] = socket[u]
            /\ socket'[u].user = socket[u].user
            /\ socket'[u].open = socket[u].open
            /\ socket'[u].joining = socket[u].joining
            /\ socket'[u].replaced = socket[u].replaced
    BY <1>0, <2>1
       DEF Leave, ReleasePresence, ReleaseFails, SocketRecords
  <2>3. socket'[s].role => socket[s].role
    <3>1. CASE ReleasePresence(t)
      <4> DEFINE left == [socket[t] EXCEPT
                !.releasing = FALSE, !.role = @ /\ ~socket[t].open]
      <4>1. left.role => socket[t].role
        BY <1>0, Zenon DEF SocketRecords
      <4>2. socket' = [socket EXCEPT ![t] = left]
        BY <1>0, <3>1 DEF ReleasePresence
      <4> HIDE DEF left
      <4> QED
        BY <1>0, <4>1, <4>2
    <3>2. CASE Leave(t) \/ ReleaseFails(t)
      BY <1>0, <3>2 DEF Leave, ReleaseFails, SocketRecords
    <3> QED
      BY <2>1, <3>1, <3>2
  <2>4. Placed(s)
    BY <1>0, <1>1, <2>2, <2>3 DEF AllPlaced
  <2>5. /\ removal' = removal
        /\ Leave(t) \/ ReleaseFails(t) => presence' = presence
    BY <2>1 DEF Leave, ReleasePresence, ReleaseFails
  <2>6. ReleasePresence(t) =>
            \A q \in Participant : presence[q] # t => presence'[q] = presence[q]
    BY <1>0 DEF ReleasePresence, Released
  <2>7. ReleasePresence(t) => s # t
    <3>1. ReleasePresence(t) => socket[t].releasing
      BY DEF ReleasePresence
    <3>2. s = t /\ socket[t].releasing =>
            ~socket[t].role /\ socket[t].joining = "no"
      BY <1>0, <2>2 DEF SocketsKnown
    <3> QED
      BY <2>2, <2>3, <3>1, <3>2
  <2>8. socket[s].user \in Participant
    BY <1>0, <2>2 DEF SocketsKnown
  <2> QED
    BY <2>1, <2>2, <2>4, <2>5, <2>6, <2>7, <2>8 DEF Placed
<1>12. CASE Restart
  BY <1>12 DEF Restart, Unused, Fresh
<1>13. ~\/ \E p \in Participant : HandlerFails(p)
        \/ \E t \in Socket : JoinFails(t)
  BY DEF HandlerFails, JoinFails
<1> QED
  BY <1>2, <1>3, <1>4, <1>5, <1>6, <1>7, <1>8, <1>9, <1>10, <1>11, <1>12, <1>13
     DEF Next, UserStep, SocketStep

LEMMA InitPInv == Init => PInv
<1> SUFFICES ASSUME Init PROVE PInv
  OBVIOUS
<1>1. /\ \A s \in Socket : socket[s] = Unused
      /\ \A p \in Participant : removal[p] = NoRemoval
  BY DEF Init
<1>2. socket \in [Socket -> SocketRecords]
  BY SocketRecordsKept
     DEF Init, Unused, Fresh, SocketRecords, SocketOrNone
<1>3. TypeOK
  <2>1. crashes \in 0..MaxCrashes
    BY CrashAssumption DEF Init
  <2>2. presence \in [Participant -> SocketOrNone]
    BY DEF Init, SocketOrNone
  <2>3. removal \in [Participant ->
            [pc : {"none", "evict", "remove"}, socket : SocketOrNone]]
    BY DEF Init, NoRemoval, SocketOrNone
  <2>4. \A s \in Socket :
            socket[s].replaced = NoSocket /\ ~socket[s].role
    BY <1>1 DEF Unused, Fresh
  <2>5. failed \in BOOLEAN /\ allowLateJoin \in BOOLEAN
    BY DEF Init
  <2>6. /\ state \in {"LOBBY", "LIVE", "COMPLETED"}
        /\ registered \subseteq Participant
        /\ participation \subseteq Participant
        /\ answered \subseteq Participant
        /\ results \subseteq Participant
        /\ confirmed \subseteq Participant
    BY DEF Init
  <2> QED
    BY <1>2, <2>1, <2>2, <2>3, <2>4, <2>5, <2>6 DEF TypeOK, SocketRecords
<1>4. SocketsKnown /\ AllPlaced
  BY <1>1 DEF SocketsKnown, AllPlaced, Unused, Fresh, NoRemoval
<1> QED
  BY <1>3, <1>4 DEF PInv

LEMMA PInvariant == Spec => []PInv
<1>1. PInv /\ [Next]_vars => PInv'
  BY KnownKept, PlacedKept DEF PInv
<1> QED
  BY InitPInv, <1>1, PTL DEF Spec

\* The variables have their types; in particular a join forgets the socket it
\* replaced when it returns.
THEOREM TypeCorrect == Spec => []TypeOK
<1>1. PInv => TypeOK
  BY DEF PInv
<1> QED
  BY <1>1, PInvariant, PTL

\* A connected socket that has joined is its user's active one, or the join
\* that replaced it or the unregistration that evicted it is about to
\* disconnect it (join handler, registrationChanged handler).
THEOREM NoZombies == Spec => []NoZombieSocket
<1>1. PInv => NoZombieSocket
  BY DEF PInv, AllPlaced, Placed, NoZombieSocket
<1> QED
  BY <1>1, PInvariant, PTL

\* A replaced device that disconnects or leaves never removes its successor's
\* presence (RELEASE_SCRIPT).
THEOREM NewestKeeps == Spec => NewestKeepsPresence
<1>1. ASSUME PInv, [Next]_vars, NEW p \in Participant, NEW s \in Socket,
             presence[p] = s, socket[s].open, socket[s].role,
             presence'[p] # s, crashes' = crashes, removal[p].pc # "evict"
      PROVE  presence'[p] # NoSocket
  <2>1. TypeOK /\ SocketsKnown /\ presence \in [Participant -> SocketOrNone]
    BY <1>1 DEF PInv, TypeOK
  <2>2. CASE \E t \in Socket : ClaimPresence(t)
    BY <1>1, <2>1, <2>2 DEF ClaimPresence
  <2>3. CASE \E t \in Socket : ReleasePresence(t)
    BY <1>1, <2>1, <2>3 DEF ReleasePresence, Released, SocketsKnown
  <2>4. CASE \E q \in Participant : Evict(q)
    BY <1>1, <2>1, <2>4 DEF Evict
  <2>5. ~Restart
    BY <1>1, <2>1 DEF Restart, TypeOK
  <2> QED
    BY <1>1, <2>2, <2>3, <2>4, <2>5
       DEF Next, UserStep, SocketStep, Register, Unregister,
           RemoveParticipation, HandlerFails, Connect, JoinAdmitted,
           RecordJoin, JoinReturns, JoinFails, Disconnect, Leave,
           ReleaseFails, Answer, Start, SetLateJoin, End, vars
<1>2. PInv /\ [Next]_vars =>
        [\A p \in Participant, s \in Socket :
            /\ presence[p] = s /\ socket[s].open /\ socket[s].role
            /\ presence'[p] # s
            => \/ presence'[p] # NoSocket
               \/ removal[p].pc = "evict"
               \/ crashes' # crashes]_vars
  BY <1>1
<1> QED
  BY <1>2, PInvariant, PTL DEF Spec, NewestKeepsPresence

-----------------------------------------------------------------------------
(* What the handler of an unregistration can break                           *)

\* The handler of an unregistration is over before its user's next join and
\* before the host starts, and none of that user's joins is under way when the
\* registration goes.  Nothing in the code makes it so.
Apart ==
    \A p \in Participant : removal[p].pc # "none" =>
        /\ state = "LOBBY"
        /\ \A s \in Socket : socket[s].user = p => socket[s].joining = "no"

\* Every accepted answer is an attendee's, and counted in the saved results.
AnswersCount ==
    /\ answered \subseteq participation
    /\ state = "COMPLETED" => answered \subseteq results

\* Who holds a presence, or is about to, has been recorded.
Entered ==
    /\ \A s \in Socket : socket[s].joining \in {"claiming", "returning"} =>
                            socket[s].user \in participation
    /\ \A p \in Participant : presence[p] # NoSocket => p \in participation
    /\ \A p \in Participant : removal[p].pc = "remove" => presence[p] = NoSocket

\* The fields of a socket that Entered and Apart speak of, after each step.
LEMMA JoiningAfter ==
    ASSUME TypeOK, [Next]_vars, NEW s \in Socket, socket'[s].joining # "no"
    PROVE  /\ socket'[s].user = socket[s].user
           /\ \/ socket'[s].joining = socket[s].joining
              \/ JoinAdmitted(s) /\ socket'[s].joining = "recording"
              \/ RecordJoin(s)
              \/ ClaimPresence(s)
<1>0. socket \in [Socket -> SocketRecords]
  BY DEF TypeOK, SocketRecords
<1>1. ASSUME NEW t \in Socket,
             \/ Disconnect(t) \/ Leave(t) \/ ReleasePresence(t) \/ ReleaseFails(t)
             \/ JoinFails(t) \/ JoinAdmitted(t) \/ RecordJoin(t) \/ ClaimPresence(t)
      PROVE  /\ s # t => socket'[s] = socket[s]
             /\ s = t => socket'[s].user = socket[s].user
  <2>1. socket' = [socket EXCEPT ![t] = socket'[t]]
    BY <1>0, <1>1 DEF Disconnect, Leave, ReleasePresence, ReleaseFails,
         JoinFails, JoinAdmitted, RecordJoin, ClaimPresence
  <2>2. socket'[t].user = socket[t].user
    <3>1. CASE Disconnect(t)
      BY <1>0, <3>1, ClosedFields DEF Disconnect
    <3>2. CASE Leave(t) \/ ReleaseFails(t) \/ JoinFails(t)
      BY <1>0, <3>2 DEF Leave, ReleaseFails, JoinFails, SocketRecords
    <3>3. CASE ReleasePresence(t)
      BY <1>0, <3>3 DEF ReleasePresence, SocketRecords
    <3>4. CASE JoinAdmitted(t) \/ RecordJoin(t) \/ ClaimPresence(t)
      BY <1>0, <3>4 DEF JoinAdmitted, RecordJoin, ClaimPresence, SocketRecords
    <3> QED
      BY <1>1, <3>1, <3>2, <3>3, <3>4
  <2> QED
    BY <1>0, <2>1, <2>2
<1>2. CASE \E t \in Socket :
             Disconnect(t) \/ Leave(t) \/ ReleasePresence(t) \/ ReleaseFails(t)
  <2>1. PICK t \in Socket :
             Disconnect(t) \/ Leave(t) \/ ReleasePresence(t) \/ ReleaseFails(t)
    BY <1>2
  <2>2. socket'[t].joining = socket[t].joining
    BY <1>0, <2>1, ClosedFields
       DEF Disconnect, Leave, ReleasePresence, ReleaseFails, SocketRecords
  <2> QED
    BY <1>1, <2>1, <2>2
<1>3. CASE \E t \in Socket :
             JoinFails(t) \/ JoinAdmitted(t) \/ RecordJoin(t) \/ ClaimPresence(t)
  <2>1. PICK t \in Socket :
             JoinFails(t) \/ JoinAdmitted(t) \/ RecordJoin(t) \/ ClaimPresence(t)
    BY <1>3
  <2>2. /\ JoinFails(t) => socket'[t].joining = "no"
        /\ JoinAdmitted(t) => socket'[t].joining = "recording"
    BY <1>0 DEF JoinFails, JoinAdmitted, SocketRecords
  <2> QED
    BY <1>1, <2>1, <2>2
<1>4. CASE \E t \in Socket : JoinReturns(t)
  <2>1. PICK t \in Socket : JoinReturns(t)
    BY <1>4
  <2>2. s # t
    BY <1>0, <2>1 DEF JoinReturns, SocketRecords
  <2>3. socket'[s] = socket[s] \/ socket'[s] = Closed(s)
    BY <2>1, <2>2 DEF JoinReturns
  <2> QED
    BY <2>3, ClosedFields
<1>5. CASE \E p \in Participant : RemoveParticipation(p)
  <2>1. socket'[s] = socket[s] \/ socket'[s] = Closed(s)
    BY <1>5 DEF RemoveParticipation
  <2> QED
    BY <2>1, ClosedFields
<1>6. CASE \E p \in Participant, t \in Socket : Connect(t, p)
  BY <1>0, <1>6 DEF Connect, Fresh
<1>7. CASE Restart
  BY <1>7 DEF Restart, Unused, Fresh
<1>8. CASE socket' = socket
  BY <1>8
<1>9. \/ socket' = socket \/ Restart
      \/ \E p \in Participant : RemoveParticipation(p) \/ \E t \in Socket : Connect(t, p)
      \/ \E t \in Socket :
           \/ Disconnect(t) \/ Leave(t) \/ ReleasePresence(t) \/ ReleaseFails(t)
           \/ JoinFails(t) \/ JoinAdmitted(t) \/ RecordJoin(t) \/ ClaimPresence(t)
           \/ JoinReturns(t)
  BY DEF Next, UserStep, SocketStep, Register, Unregister, Evict, HandlerFails,
         Answer, Start, SetLateJoin, End, vars
<1> QED
  BY <1>2, <1>3, <1>4, <1>5, <1>6, <1>7, <1>8, <1>9

\* The presence, the removals and the attendance after each step.
LEMMA EnteredKept ==
    ASSUME PInv, IInv, Entered, Apart, [Next]_vars
    PROVE  Entered'
<1> USE DEF Entered
<1>0. /\ TypeOK /\ SocketsKnown
      /\ socket \in [Socket -> SocketRecords]
      /\ presence \in [Participant -> SocketOrNone]
      /\ removal \in [Participant ->
                [pc : {"none", "evict", "remove"}, socket : SocketOrNone]]
  BY DEF PInv, TypeOK, SocketRecords
\* Who leaves the attendance has neither presence nor a join under way.
<1>1. ASSUME NEW p \in participation, p \notin participation'
      PROVE  /\ RemoveParticipation(p) /\ p \in Participant
             /\ presence' = presence /\ presence[p] = NoSocket
             /\ \A s \in Socket : socket[s].user = p => socket[s].joining = "no"
  <2>1. \E q \in Participant : RemoveParticipation(q)
    BY <1>1 DEF Next, UserStep, SocketStep, Register, Unregister, Evict, HandlerFails, Connect, JoinAdmitted, RecordJoin,
         ClaimPresence, JoinReturns, JoinFails, Disconnect, Leave,
         ReleasePresence, ReleaseFails, Answer, Start, SetLateJoin, End,
         Restart, vars, db
  <2>2. RemoveParticipation(p) /\ p \in Participant
    <3>1. PICK q \in Participant : RemoveParticipation(q)
      BY <2>1
    <3>2. p = q
      BY <1>1, <3>1 DEF RemoveParticipation
    <3> QED
      BY <3>1, <3>2
  <2> QED
    BY <2>2 DEF RemoveParticipation, Apart
<1>2. ASSUME NEW s \in Socket, socket'[s].joining \in {"claiming", "returning"}
      PROVE  socket'[s].user \in participation'
  <2>1. /\ socket'[s].user = socket[s].user
        /\ \/ socket'[s].joining = socket[s].joining
           \/ RecordJoin(s) \/ ClaimPresence(s)
    BY <1>0, <1>2, JoiningAfter
  <2>2. CASE RecordJoin(s)
    BY <2>1, <2>2 DEF RecordJoin
  <2>3. CASE ~ RecordJoin(s)
    <3>1. socket[s].joining \in {"claiming", "returning"}
      BY <1>2, <2>1, <2>3 DEF ClaimPresence
    <3> QED
      BY <1>1, <2>1, <3>1
  <2> QED
    BY <2>2, <2>3
<1>3. ASSUME NEW p \in Participant, presence'[p] # NoSocket
      PROVE  p \in participation'
  <2>1. CASE \E s \in Socket : ClaimPresence(s)
    <3>1. PICK s \in Socket : ClaimPresence(s)
      BY <2>1
    <3>2. socket[s].user \in participation /\ participation' = participation
      BY <3>1 DEF ClaimPresence, db
    <3>3. p = socket[s].user \/ presence'[p] = presence[p]
      BY <1>0, <3>1 DEF ClaimPresence
    <3> QED
      BY <1>3, <3>2, <3>3
  <2>2. CASE ~ \E s \in Socket : ClaimPresence(s)
    <3>1. presence[p] # NoSocket
      <4>1. CASE \E q \in Participant : Evict(q)
        BY <1>0, <1>3, <4>1 DEF Evict
      <4>2. CASE \E s \in Socket : ReleasePresence(s)
        BY <1>0, <1>3, <4>2 DEF ReleasePresence
      <4>3. CASE Restart
        BY <1>3, <4>3 DEF Restart
      <4>4. CASE presence' = presence
        BY <1>3, <4>4
      <4> QED
        BY <2>2, <4>1, <4>2, <4>3, <4>4
           DEF Next, UserStep, SocketStep, Register, Unregister,
               RemoveParticipation, HandlerFails, Connect, JoinAdmitted,
               RecordJoin, JoinReturns, JoinFails, Disconnect, Leave,
               ReleaseFails, Answer, Start, SetLateJoin, End, vars
    <3> QED
      BY <1>1, <3>1
  <2> QED
    BY <2>1, <2>2
<1>4. ASSUME NEW p \in Participant, removal'[p].pc = "remove"
      PROVE  presence'[p] = NoSocket
  <2>1. CASE Evict(p)
    BY <1>0, <1>4, <2>1 DEF Evict, NoRemoval
  <2>2. CASE ~ Evict(p)
    <3>1. removal[p].pc = "remove"
      <4>1. CASE \E q \in Participant :
                    Unregister(q) \/ Evict(q) \/ RemoveParticipation(q) \/ HandlerFails(q)
        BY <1>0, <1>4, <2>2, <4>1
           DEF Unregister, Evict, RemoveParticipation, HandlerFails, NoRemoval
      <4>2. CASE Restart
        BY <1>4, <4>2 DEF Restart, NoRemoval
      <4>3. CASE removal' = removal
        BY <1>4, <4>3
      <4> QED
        BY <4>1, <4>2, <4>3
           DEF Next, UserStep, SocketStep, Register, Connect, JoinAdmitted,
               RecordJoin, ClaimPresence, JoinReturns, JoinFails, Disconnect,
               Leave, ReleasePresence, ReleaseFails, Answer, Start, SetLateJoin,
               End, vars
    <3>2. presence[p] = NoSocket
      BY <3>1
    <3>3. ~ \E s \in Socket : ClaimPresence(s) /\ socket[s].user = p
      BY <3>1 DEF Apart, ClaimPresence
    <3>4. presence'[p] = presence[p] \/ presence'[p] = NoSocket
      <4>1. CASE \E q \in Participant : Evict(q)
        BY <1>0, <4>1 DEF Evict
      <4>2. CASE \E s \in Socket : ReleasePresence(s)
        BY <1>0, <4>2 DEF ReleasePresence
      <4>3. CASE \E s \in Socket : ClaimPresence(s)
        BY <1>0, <3>3, <4>3 DEF ClaimPresence
      <4>4. CASE Restart
        BY <4>4 DEF Restart
      <4>5. CASE presence' = presence
        BY <4>5
      <4> QED
        BY <4>1, <4>2, <4>3, <4>4, <4>5
           DEF Next, UserStep, SocketStep, Register, Unregister,
               RemoveParticipation, HandlerFails, Connect, JoinAdmitted,
               RecordJoin, JoinReturns, JoinFails, Disconnect, Leave,
               ReleaseFails, Answer, Start, SetLateJoin, End, vars
    <3> QED
      BY <3>2, <3>4
  <2> QED
    BY <2>1, <2>2
<1> QED
  BY <1>2, <1>3, <1>4

LEMMA AnswersCountKept ==
    ASSUME PInv, IInv, Entered, Apart, AnswersCount, [Next]_vars
    PROVE  AnswersCount'
<1> USE DEF AnswersCount
<1>1. CASE \E s \in Socket : Answer(s)
  <2>1. PICK s \in Socket : Answer(s)
    BY <1>1
  <2>2. s # NoSocket /\ socket[s].user \in Participant
    BY <2>1 DEF Answer, PInv, SocketsKnown
  <2> QED
    BY <2>1, <2>2 DEF Answer, Entered
<1>2. CASE \E p \in Participant : RemoveParticipation(p)
  <2>1. state = "LOBBY"
    BY <1>2 DEF RemoveParticipation, Apart
  <2> QED
    BY <1>2, <2>1 DEF RemoveParticipation, IInv, QuietLobby
<1>3. CASE \E s \in Socket : RecordJoin(s)
  BY <1>3 DEF RecordJoin
<1>4. CASE End
  BY <1>4 DEF End
<1>5. CASE Start
  BY <1>5 DEF Start
<1>6. CASE UNCHANGED <<state, answered, participation, results>>
  BY <1>6
<1> QED
  BY <1>1, <1>2, <1>3, <1>4, <1>5, <1>6
     DEF Next, UserStep, SocketStep, Register, Unregister, Evict, HandlerFails,
         Connect, JoinAdmitted, ClaimPresence, JoinReturns, JoinFails,
         Disconnect, Leave, ReleasePresence, ReleaseFails, SetLateJoin, Restart,
         vars, db

\* "Final results for everyone who entered the session": an accepted answer is lost from the
\* results only through a handler that was still under way when its user joined
\* again or the host started.
THEOREM PromptHandlersKeepAnswers == Spec /\ []Apart => []AnswersCount
<1>1. Init => Entered /\ AnswersCount
  BY DEF Init, Entered, AnswersCount, Unused, Fresh, NoRemoval
<1>2. PInv /\ IInv /\ Apart /\ Entered /\ AnswersCount /\ [Next]_vars => (Entered /\ AnswersCount)'
  BY EnteredKept, AnswersCountKept
<1>3. Spec => []IInv
  BY InitIInv, NextIInv, PTL DEF Spec
<1> QED
  BY <1>1, <1>2, <1>3, PInvariant, PTL DEF Spec

\* An attendee who is not registered, and whom no handler is about to remove:
\* AttendeesAreRegistered says that there is none when nothing is under way.
Orphaned(p) == p \in participation \ registered /\ removal[p].pc = "none"

\* A join that was admitted while its user was registered writes the attendance,
\* or the handler of an unregistration fails, is lost with the process or finds
\* the session over.
Orphaning(p) ==
    \/ \E s \in Socket : RecordJoin(s) /\ socket[s].user = p
    \/ HandlerFails(p)
    \/ Evict(p) /\ state = "COMPLETED"
    \/ Restart /\ removal[p].pc # "none"

\* "Unregistered users are no longer attendees of this session": the whole of
\* what the run attendance_unregister can show. Whatever else joins, leaves,
\* registers, starts or ends, in whatever order, leaves no such attendee.
THEOREM OnlyTheseLeaveAttendees ==
    Spec => [][\A p \in Participant : ~Orphaned(p) /\ Orphaned(p)' => Orphaning(p)]_vars
<1>1. ASSUME PInv, [Next]_vars, NEW p \in Participant, ~Orphaned(p), Orphaned(p)'
      PROVE  Orphaning(p)
  <2>0. /\ participation \subseteq Participant
        /\ removal \in [Participant ->
                [pc : {"none", "evict", "remove"}, socket : SocketOrNone]]
    BY <1>1 DEF PInv, TypeOK
  <2>1. CASE \E q \in Participant : Unregister(q)
    <3>1. PICK q \in Participant : Unregister(q)
      BY <2>1
    <3>2. CASE p = q
      BY <1>1, <2>0, <3>1, <3>2 DEF Unregister, Orphaned
    <3>3. CASE p # q
      BY <1>1, <2>0, <3>1, <3>3 DEF Unregister, Orphaned
    <3> QED
      BY <3>2, <3>3
  <2>2. CASE \E q \in Participant : Evict(q)
    <3>1. PICK q \in Participant : Evict(q)
      BY <2>2
    <3>2. p \in participation \ registered
      BY <1>1, <3>1 DEF Evict, Orphaned, db
    <3>3. p = q
      BY <1>1, <2>0, <3>1, <3>2 DEF Evict, Orphaned
    <3>4. state = "COMPLETED"
      BY <1>1, <2>0, <3>1, <3>3 DEF Evict, Orphaned
    <3> QED
      BY <3>1, <3>3, <3>4 DEF Orphaning
  <2>3. CASE \E q \in Participant : RemoveParticipation(q)
    <3>1. PICK q \in Participant : RemoveParticipation(q)
      BY <2>3
    <3>2. p # q /\ p \in participation \ registered
      BY <1>1, <3>1 DEF RemoveParticipation, Orphaned
    <3> QED
      BY <1>1, <2>0, <3>1, <3>2 DEF RemoveParticipation, Orphaned
  <2>4. CASE \E q \in Participant : HandlerFails(q)
    <3>1. PICK q \in Participant : HandlerFails(q)
      BY <2>4
    <3>2. p \in participation \ registered
      BY <1>1, <3>1 DEF HandlerFails, Orphaned, db
    <3>3. p = q
      BY <1>1, <2>0, <3>1, <3>2 DEF HandlerFails, Orphaned
    <3> QED
      BY <3>1, <3>3 DEF Orphaning
  <2>5. CASE \E s \in Socket : RecordJoin(s)
    <3>1. PICK s \in Socket : RecordJoin(s)
      BY <2>5
    <3>2. socket[s].user = p
      BY <1>1, <3>1 DEF RecordJoin, Orphaned
    <3> QED
      BY <3>1, <3>2 DEF Orphaning
  <2>6. CASE Restart
    <3>1. removal[p].pc # "none"
      BY <1>1, <2>6 DEF Restart, Orphaned, db
    <3> QED
      BY <2>6, <3>1 DEF Orphaning
  <2>7. CASE \E q \in Participant : Register(q)
    BY <1>1, <2>7 DEF Register, Orphaned
  <2>8. CASE UNCHANGED <<registered, participation, removal>>
    BY <1>1, <2>8 DEF Orphaned
  <2> QED
    BY <1>1, <2>1, <2>2, <2>3, <2>4, <2>5, <2>6, <2>7, <2>8
       DEF Next, UserStep, SocketStep, Connect, JoinAdmitted, ClaimPresence,
           JoinReturns, JoinFails, Disconnect, Leave, ReleasePresence,
           ReleaseFails, Answer, Start, SetLateJoin, End, vars, db
<1>2. PInv /\ [Next]_vars
        => [\A p \in Participant : ~Orphaned(p) /\ Orphaned(p)' => Orphaning(p)]_vars
  BY <1>1
<1> QED
  BY <1>2, PInvariant, PTL DEF Spec

-----------------------------------------------------------------------------
(* The quiz the session belongs to.                                          *)

\* The quiz, its session and those who take part.  NoUser, who is nobody's
\* participant, stands for the host, "quiz" for the id.
Room == INSTANCE QuizStatus WITH
            Account <- Participant \cup {NoUser}, Quiz <- {"quiz"},
            NoAccount <- NoSocket,
            accounts <- Participant \cup {NoUser},
            status <- [q \in {"quiz"} |-> state],
            host <- [q \in {"quiz"} |-> NoUser],
            registered <- [q \in {"quiz"} |-> registered]

\* Registrations, the start and the end only take the steps of QuizStatus: the
\* list of those who take part does not change any more once the quiz started.
THEOREM RoomFollowsQuizStatus == Spec => [][Room!Next]_(Room!vars)
<1>1. PInv /\ [Next]_vars => [Room!Next]_(Room!vars)
  <2> SUFFICES ASSUME PInv, [Next]_vars PROVE [Room!Next]_(Room!vars)
    OBVIOUS
  <2>1. CASE UNCHANGED <<state, registered>>
    BY <2>1 DEF Room!vars
  <2>2. ASSUME NEW p \in Participant, Register(p)
        PROVE  Room!Register("quiz")
    BY <2>2, NoneAssumption DEF Register, Room!Register, Room!Listed
  <2>3. ASSUME NEW p \in Participant, Unregister(p)
        PROVE  Room!Leave("quiz")
    BY <2>3 DEF Unregister, UnregisterOpen, Room!Leave, Room!Listed
  <2>4. CASE Start
    BY <2>4 DEF Start, Room!Next, Room!Lives, Room!Start, Room!Becomes
  <2>5. CASE End
    BY <2>5 DEF End, PInv, TypeOK, Room!Next, Room!Lives, Room!End, Room!Becomes
  <2>6. \/ UNCHANGED <<state, registered>>
        \/ \E p \in Participant : Register(p) \/ Unregister(p)
        \/ Start \/ End
    BY DEF Next, UserStep, SocketStep, Evict, RemoveParticipation, HandlerFails,
           Connect, JoinAdmitted, RecordJoin, ClaimPresence, JoinReturns,
           JoinFails, Disconnect, Leave, ReleasePresence, ReleaseFails, Answer,
           SetLateJoin, Restart, vars, db
  <2> QED
    BY <2>1, <2>2, <2>3, <2>4, <2>5, <2>6 DEF Room!Next, Room!Lives
<1> QED
  BY <1>1, PInvariant, PTL DEF Spec

=============================================================================
