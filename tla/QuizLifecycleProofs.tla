------------------------- MODULE QuizLifecycleProofs -------------------------
(***************************************************************************)
(* Proofs about QuizLifecycle, for any accounts, projects and quizzes, any  *)
(* limits and any interleaving of publications and deletions of accounts.   *)
(***************************************************************************)
EXTENDS QuizLifecycle, FiniteSetTheorems, SequenceTheorems, TLAPS

\* The types the arguments about quizzes, rooms and registrations need.
Rows ==
    /\ accounts \subseteq Account
    /\ owner \in [Project -> Account \cup {NoAccount}]
    /\ quiz \in [Quiz -> QuizRow]
    /\ registration \in [Quiz -> [Account -> {"none", "REGISTERED", "CANCELLED"}]]
    /\ session \in [Quiz -> {"none", "LOBBY", "LIVE", "COMPLETED"}]
    /\ counted \subseteq accounts

\* A quiz is in a project that exists, or does not exist itself.
Placed ==
    \A q \in Quiz :
        IF quiz[q].status = "none"
        THEN quiz[q] = NoQuiz
        ELSE quiz[q].project \in Project /\ owner[quiz[q].project] \in Account

\* While a deletion holds an account's lock, none of its rooms is open.
CountedIdle == \A a \in counted : \A q \in QuizzesOf(a) : ~ Running(q)

RoomInv == Rows /\ Placed /\ StatusMatchesSession /\ OneRoomPerHost /\ CountedIdle

\* Every step is one of these, with its parameters in their sets.
LEMMA Steps ==
  ASSUME [Next]_vars
  PROVE  \/ \E a \in Hosts, p \in Project : CreateProject(a, p)
         \/ \E p \in Project : RemoveProject(p)
         \/ \E a \in Hosts, p \in Project, q \in Quiz, limit \in 1 .. MaxParticipants :
                CreateQuiz(a, p, q, limit) \/ Update(q, limit)
         \/ \E q \in Quiz : \/ AddQuestion(q) \/ RemoveQuestion(q) \/ RemoveQuiz(q)
                            \/ CheckPublish(q) \/ Publish(q)
                            \/ OpenLobby(q) \/ CloseLobby(q) \/ Start(q) \/ End(q)
         \/ \E q \in Quiz, u \in Account : Register(q, u) \/ Unregister(q, u)
         \/ \E a \in Account : CountDependents(a) \/ DeleteAccount(a) \/ RollBackDeletion(a)
         \/ Elapse \/ NewMonth
         \/ UNCHANGED vars
  BY LifecycleAssumption DEF Next, Authoring, Rooms, Accounts

\* Replacing one row, or one field of it, keeps the table's type.
LEMMA RowReplaced ==
  ASSUME quiz \in [Quiz -> QuizRow], NEW q \in Quiz, NEW row \in QuizRow
  PROVE  [quiz EXCEPT ![q] = row] \in [Quiz -> QuizRow]
  OBVIOUS

LEMMA FieldReplaced ==
  ASSUME quiz \in [Quiz -> QuizRow], NEW q \in Quiz
  PROVE  /\ \A v \in Statuses :
                [quiz EXCEPT ![q].status = v] \in [Quiz -> QuizRow]
         /\ \A v \in 0 .. MaxParticipants : [quiz EXCEPT ![q].limit = v] \in [Quiz -> QuizRow]
         /\ \A v \in 0 .. MaxQuestions : [quiz EXCEPT ![q].questions = v] \in [Quiz -> QuizRow]
  BY DEF QuizRow

LEMMA RowsKept == Rows /\ [Next]_vars => Rows'
<1> SUFFICES ASSUME Rows, [Next]_vars PROVE Rows'
  OBVIOUS
<1> USE LifecycleAssumption DEF Rows
<1>n. NoQuiz \in QuizRow
  BY DEF NoQuiz, QuizRow, Statuses
<1>1. CASE \E a \in Hosts, p \in Project : CreateProject(a, p)
  BY <1>1 DEF CreateProject, Lockable
<1>2. CASE \E p \in Project : RemoveProject(p)
  BY <1>2, <1>n DEF RemoveProject, Delete
<1>3. CASE \E a \in Hosts, p \in Project, q \in Quiz, limit \in 1 .. MaxParticipants :
              CreateQuiz(a, p, q, limit)
  <2> PICK a \in Hosts, p \in Project, q \in Quiz, limit \in 1 .. MaxParticipants :
              CreateQuiz(a, p, q, limit)
    BY <1>3
  <2> DEFINE row == [status |-> "DRAFT", project |-> p, limit |-> limit, questions |-> 0]
  <2>1. row \in QuizRow
    BY DEF QuizRow, Statuses
  <2>2. quiz' = [quiz EXCEPT ![q] = row]
    BY DEF CreateQuiz
  <2> HIDE DEF row
  <2>3. quiz' \in [Quiz -> QuizRow]
    BY <2>1, <2>2, RowReplaced
  <2> QED
    BY <2>3 DEF CreateQuiz
<1>4. CASE \E q \in Quiz, limit \in 1 .. MaxParticipants : Update(q, limit)
  BY <1>4, FieldReplaced DEF Update
<1>5. CASE \E q \in Quiz : AddQuestion(q) \/ RemoveQuestion(q)
  <2> PICK q \in Quiz : AddQuestion(q) \/ RemoveQuestion(q)
    BY <1>5
  <2>1. quiz[q].questions \in 0 .. MaxQuestions
    BY DEF QuizRow
  <2>2. \/ /\ quiz' = [quiz EXCEPT ![q].questions = quiz[q].questions + 1]
           /\ quiz[q].questions + 1 \in 0 .. MaxQuestions
        \/ /\ quiz' = [quiz EXCEPT ![q].questions = quiz[q].questions - 1]
           /\ quiz[q].questions - 1 \in 0 .. MaxQuestions
    <3>1. CASE AddQuestion(q)
      BY <2>1, <3>1 DEF AddQuestion
    <3>2. CASE RemoveQuestion(q)
      BY <2>1, <3>2 DEF RemoveQuestion
    <3> QED
      BY <3>1, <3>2
  <2>3. quiz' \in [Quiz -> QuizRow]
    <3>1. \A v \in 0 .. MaxQuestions : [quiz EXCEPT ![q].questions = v] \in [Quiz -> QuizRow]
      BY FieldReplaced
    <3> QED
      BY <2>2, <3>1
  <2>4. UNCHANGED <<accounts, owner, registration, session, counted>>
    BY DEF AddQuestion, RemoveQuestion
  <2> QED
    BY <2>3, <2>4
<1>6. CASE \E q \in Quiz : RemoveQuiz(q)
  <2> PICK q \in Quiz : RemoveQuiz(q)
    BY <1>6
  <2> QED
    BY <1>n DEF RemoveQuiz, Delete
<1>7. CASE \E q \in Quiz : CheckPublish(q) \/ Publish(q)
  <2> PICK q \in Quiz : CheckPublish(q) \/ Publish(q)
    BY <1>7
  <2>1. quiz' = quiz \/ \E v \in Statuses : quiz' = [quiz EXCEPT ![q].status = v]
    BY DEF CheckPublish, Publish, Statuses, Unfinished
  <2>2. quiz' \in [Quiz -> QuizRow]
    BY <2>1, FieldReplaced
  <2> QED
    BY <2>2 DEF CheckPublish, Publish
<1>8. CASE \E q \in Quiz : OpenLobby(q) \/ CloseLobby(q) \/ Start(q) \/ End(q)
  <2> PICK q \in Quiz : OpenLobby(q) \/ CloseLobby(q) \/ Start(q) \/ End(q)
    BY <1>8
  <2>1. quiz' = quiz \/ \E v \in Statuses : quiz' = [quiz EXCEPT ![q].status = v]
    BY DEF OpenLobby, CloseLobby, Start, End, Statuses, Unfinished
  <2>2. quiz' \in [Quiz -> QuizRow]
    BY <2>1, FieldReplaced
  <2> QED
    BY <2>2 DEF OpenLobby, CloseLobby, Start, End
<1>9. CASE \E q \in Quiz, u \in Account : Register(q, u) \/ Unregister(q, u)
  BY <1>9 DEF Register, Unregister
<1>10. CASE \E a \in Account : CountDependents(a) \/ RollBackDeletion(a)
  BY <1>10 DEF CountDependents, RollBackDeletion, Lockable
<1>11. CASE \E a \in Account : DeleteAccount(a)
  BY <1>11, <1>n DEF DeleteAccount, Delete
<1>12. CASE Elapse \/ NewMonth \/ UNCHANGED vars
  BY <1>12 DEF Elapse, NewMonth, vars
<1> QED
  BY Steps, <1>1, <1>2, <1>3, <1>4, <1>5, <1>6, <1>7, <1>8, <1>9, <1>10, <1>11, <1>12

-----------------------------------------------------------------------------
(* Rooms.                                                                    *)

\* The host of a quiz that exists is the owner of its project.
LEMMA HostIsOwner ==
  ASSUME Rows, Placed, NEW q \in Quiz
  PROVE  IF quiz[q].status = "none"
         THEN Host(q) = NoAccount
         ELSE Host(q) = owner[quiz[q].project] /\ Host(q) \in Account
  BY LifecycleAssumption DEF Rows, Placed, Host, NoQuiz

\* Steps that leave status, project and session of every quiz as they are.
LEMMA RoomsUntouched ==
  ASSUME RoomInv, Rows', owner' = owner, session' = session, counted' \subseteq counted,
         \A q \in Quiz : /\ quiz'[q].status = quiz[q].status
                         /\ quiz'[q].project = quiz[q].project
                         /\ quiz[q].status = "none" => quiz'[q] = quiz[q]
  PROVE  RoomInv'
<1>1. \A q \in Quiz : Host(q)' = Host(q) /\ Running(q)' = Running(q)
  BY DEF Host, Running
<1>2. Placed'
  BY DEF RoomInv, Placed, NoQuiz
<1>3. StatusMatchesSession'
  BY DEF RoomInv, StatusMatchesSession
<1>4. OneRoomPerHost'
  BY <1>1 DEF RoomInv, OneRoomPerHost
<1>5. CountedIdle'
  BY <1>1 DEF RoomInv, CountedIdle, QuizzesOf
<1> QED
  BY <1>2, <1>3, <1>4, <1>5 DEF RoomInv

\* Deleting quizzes, with their projects or not, keeps the rooms of the others.
LEMMA RoomsDeleted ==
  ASSUME RoomInv, Rows', NEW gone \in SUBSET Quiz, NEW leaving, Delete(gone, leaving),
         counted' \subseteq counted,
         \A q \in Quiz \ gone : quiz[q].status # "none" =>
             owner'[quiz[q].project] = owner[quiz[q].project]
  PROVE  RoomInv'
<1>1. \A q \in Quiz : /\ quiz'[q] = IF q \in gone THEN NoQuiz ELSE quiz[q]
                      /\ session'[q] = IF q \in gone THEN "none" ELSE session[q]
  BY DEF Delete
<1>2. Placed'
  BY <1>1 DEF RoomInv, Placed, NoQuiz
<1>3. StatusMatchesSession'
  BY <1>1 DEF RoomInv, StatusMatchesSession, NoQuiz
<1>4. \A q \in Quiz : q \notin gone => Host(q)' = Host(q) /\ Running(q)' = Running(q)
  BY <1>1 DEF RoomInv, Placed, NoQuiz, Host, Running
<1>5. \A q \in Quiz : q \in gone => ~ Running(q)'
  BY <1>1 DEF Running
<1>6. OneRoomPerHost'
  BY <1>4, <1>5 DEF RoomInv, OneRoomPerHost
<1>7. CountedIdle'
  BY <1>4, <1>5 DEF RoomInv, CountedIdle, QuizzesOf
<1> QED
  BY <1>2, <1>3, <1>6, <1>7 DEF RoomInv

\* Steps that move one quiz and its session together, outside a deletion that
\* holds the host's lock when the room becomes or stays open.
LEMMA RoomMoved ==
  ASSUME RoomInv, Rows', NEW q \in Quiz, NEW s, NEW t,
         owner' = owner, counted' = counted, quiz[q].status # "none",
         session' = [session EXCEPT ![q] = s], quiz' = [quiz EXCEPT ![q].status = t],
         t \in Statuses \ {"none"},
         \A v \in {"LOBBY", "LIVE", "COMPLETED"} : t = v <=> s = v,
         s \in {"LOBBY", "LIVE"} =>
             \/ Running(q)
             \/ /\ Host(q) \notin counted
                /\ \A r \in QuizzesOf(Host(q)) : ~ Running(r)
  PROVE  RoomInv'
<1>1. \A r \in Quiz : /\ quiz'[r].project = quiz[r].project
                      /\ quiz'[r].status = IF r = q THEN t ELSE quiz[r].status
                      /\ r # q => quiz'[r] = quiz[r]
                      /\ session'[r] = IF r = q THEN s ELSE session[r]
  BY DEF RoomInv, Rows, QuizRow
<1>2. Placed'
  BY <1>1 DEF RoomInv, Placed, NoQuiz
<1>3. StatusMatchesSession'
  BY <1>1 DEF RoomInv, StatusMatchesSession
<1>4. \A r \in Quiz : /\ Host(r)' = Host(r)
                      /\ r # q => Running(r)' = Running(r)
  BY <1>1 DEF Host, Running
<1>5. Running(q)' => s \in {"LOBBY", "LIVE"}
  BY <1>1 DEF Running
<1>6. OneRoomPerHost'
  BY <1>4, <1>5 DEF RoomInv, OneRoomPerHost, QuizzesOf
<1>7. CountedIdle'
  BY <1>4, <1>5 DEF RoomInv, CountedIdle, QuizzesOf
<1> QED
  BY <1>2, <1>3, <1>6, <1>7 DEF RoomInv

LEMMA InitRooms == Init => RoomInv
  BY LifecycleAssumption DEF Init, RoomInv, Rows, Placed, StatusMatchesSession,
     OneRoomPerHost, CountedIdle, Running, QuizRow, NoQuiz, Statuses

LEMMA NextRooms == RoomInv /\ [Next]_vars => RoomInv'
<1> SUFFICES ASSUME RoomInv, [Next]_vars PROVE RoomInv'
  OBVIOUS
<1>r. Rows /\ Rows' /\ Placed
  BY RowsKept DEF RoomInv
<1>1. CASE \E a \in Hosts, p \in Project : CreateProject(a, p)
  <2> PICK a \in Hosts, p \in Project : CreateProject(a, p)
    BY <1>1
  <2>1. \A q \in Quiz : /\ quiz[q].status # "none" => quiz[q].project # p
                        /\ Host(q)' = Host(q) /\ Running(q)' = Running(q)
    BY <1>r, LifecycleAssumption DEF CreateProject, Rows, Placed, NoQuiz, Host, Running
  <2>2. Placed' /\ StatusMatchesSession'
    BY <1>r, <2>1, LifecycleAssumption DEF CreateProject, RoomInv, Rows, Placed, StatusMatchesSession
  <2>3. OneRoomPerHost' /\ CountedIdle'
    BY <2>1 DEF CreateProject, RoomInv, OneRoomPerHost, CountedIdle, QuizzesOf
  <2> QED
    BY <1>r, <2>2, <2>3 DEF RoomInv
<1>2. CASE \E p \in Project : RemoveProject(p)
  <2> PICK p \in Project : RemoveProject(p)
    BY <1>2
  <2> DEFINE inside == {q \in Quiz : quiz[q].project = p}
  <2>1. \A q \in Quiz \ inside : quiz[q].status # "none" =>
            owner'[quiz[q].project] = owner[quiz[q].project]
    BY <1>r DEF RemoveProject, Rows, Placed
  <2>2. Delete(inside, {}) /\ counted' = counted
    BY DEF RemoveProject
  <2> HIDE DEF inside
  <2>3. inside \in SUBSET Quiz
    BY DEF inside
  <2> QED
    BY <1>r, <2>1, <2>2, <2>3, RoomsDeleted
<1>3. CASE \E a \in Hosts, p \in Project, q \in Quiz, limit \in 1 .. MaxParticipants :
              CreateQuiz(a, p, q, limit)
  <2> PICK a \in Hosts, p \in Project, q \in Quiz, limit \in 1 .. MaxParticipants :
              CreateQuiz(a, p, q, limit)
    BY <1>3
  <2>1. /\ session' = session /\ owner' = owner /\ counted' = counted
        /\ quiz[q].status = "none" /\ owner[p] \in Account
        /\ quiz'[q].status = "DRAFT" /\ quiz'[q].project = p
        /\ \A r \in Quiz : r # q => quiz'[r] = quiz[r]
    BY <1>r, LifecycleAssumption DEF CreateQuiz, Rows
  <2>2. ~ Running(q) /\ \A r \in Quiz : Running(r)' = Running(r)
    BY <2>1 DEF RoomInv, StatusMatchesSession, Running
  <2>3. \A r \in Quiz : r # q => Host(r)' = Host(r)
    BY <2>1 DEF Host
  <2>4. Placed' /\ StatusMatchesSession'
    BY <1>r, <2>1 DEF RoomInv, Placed, StatusMatchesSession
  <2>5. OneRoomPerHost' /\ CountedIdle'
    BY <2>1, <2>2, <2>3 DEF RoomInv, OneRoomPerHost, CountedIdle, QuizzesOf
  <2> QED
    BY <1>r, <2>4, <2>5 DEF RoomInv
<1>4. CASE \E q \in Quiz, limit \in 1 .. MaxParticipants :
              Update(q, limit) \/ AddQuestion(q) \/ RemoveQuestion(q)
  <2>1. \A q \in Quiz : /\ quiz'[q].status = quiz[q].status
                        /\ quiz'[q].project = quiz[q].project
                        /\ quiz[q].status = "none" => quiz'[q] = quiz[q]
    BY <1>r, <1>4 DEF Update, AddQuestion, RemoveQuestion, Rows, QuizRow,
       DetailsEditable, QuestionsEditable
  <2> QED
    BY <1>r, <1>4, <2>1, RoomsUntouched DEF Update, AddQuestion, RemoveQuestion
<1>5. CASE \E q \in Quiz : RemoveQuiz(q)
  <2> PICK q \in Quiz : RemoveQuiz(q)
    BY <1>5
  <2> QED
    BY <1>r, RoomsDeleted DEF RemoveQuiz
<1>6. CASE \E q \in Quiz : CheckPublish(q) \/ Publish(q)
  <2> PICK q \in Quiz : CheckPublish(q) \/ Publish(q)
    BY <1>6
  <2>1. CASE quiz' = quiz
    BY <1>r, <2>1, RoomsUntouched DEF CheckPublish, Publish
  <2>2. CASE quiz' # quiz
    <3>0. Publish(q)
      BY <2>2 DEF CheckPublish
    <3>1. /\ quiz[q].status = "DRAFT" /\ quiz' = [quiz EXCEPT ![q].status = "PUBLISHED"]
          /\ owner' = owner /\ counted' = counted /\ session' = session
      BY <3>0, <2>2 DEF Publish
    <3>2. session[q] = "none"
      BY <1>r, <3>1 DEF RoomInv, StatusMatchesSession, Rows
    <3>3. session' = [session EXCEPT ![q] = "none"]
      BY <1>r, <3>1, <3>2 DEF Rows
    <3>4. "PUBLISHED" \in Statuses \ {"none"} /\ quiz[q].status # "none"
      BY <3>1 DEF Statuses, Unfinished
    <3>5. \A v \in {"LOBBY", "LIVE", "COMPLETED"} : "PUBLISHED" = v <=> "none" = v
      OBVIOUS
    <3>6. ~ ("none" \in {"LOBBY", "LIVE"})
      OBVIOUS
    <3> QED
      BY <1>r, <3>1, <3>3, <3>4, <3>5, <3>6, RoomMoved
  <2> QED
    BY <2>1, <2>2
<1>7. CASE \E q \in Quiz : OpenLobby(q) \/ CloseLobby(q) \/ Start(q) \/ End(q)
  <2> PICK q \in Quiz : OpenLobby(q) \/ CloseLobby(q) \/ Start(q) \/ End(q)
    BY <1>7
  <2>a. quiz[q].status = "PUBLISHED" \/ session[q] \in {"LOBBY", "LIVE"}
    BY DEF OpenLobby, CloseLobby, Start, End, Running
  <2>b. owner' = owner /\ counted' = counted
    BY DEF OpenLobby, CloseLobby, Start, End
  <2>1. quiz[q].status # "none" /\ owner' = owner /\ counted' = counted
    BY <2>a, <2>b DEF RoomInv, StatusMatchesSession
  <2>2. CASE OpenLobby(q)
    BY <1>r, <2>1, <2>2, RoomMoved DEF OpenLobby, Lockable, Statuses, Unfinished
  <2>3. CASE CloseLobby(q)
    <3>1. /\ session' = [session EXCEPT ![q] = "none"]
          /\ quiz' = [quiz EXCEPT ![q].status = "PUBLISHED"]
      BY <2>3 DEF CloseLobby
    <3>2. "PUBLISHED" \in Statuses \ {"none"}
      BY DEF Statuses, Unfinished
    <3>3. \A v \in {"LOBBY", "LIVE", "COMPLETED"} : "PUBLISHED" = v <=> "none" = v
      OBVIOUS
    <3>4. ~ ("none" \in {"LOBBY", "LIVE"})
      OBVIOUS
    <3> QED
      BY <1>r, <2>1, <3>1, <3>2, <3>3, <3>4, RoomMoved
  <2>4. CASE Start(q)
    BY <1>r, <2>1, <2>4, RoomMoved DEF Start, Running, Statuses, Unfinished
  <2>5. CASE End(q)
    BY <1>r, <2>1, <2>5, RoomMoved DEF End, Statuses, Unfinished
  <2> QED
    BY <2>2, <2>3, <2>4, <2>5
<1>8. CASE \/ \E q \in Quiz, u \in Account : Register(q, u) \/ Unregister(q, u)
           \/ \E a \in Account : RollBackDeletion(a)
           \/ Elapse \/ NewMonth \/ UNCHANGED vars
  BY <1>r, <1>8, RoomsUntouched DEF Register, Unregister, RollBackDeletion, Elapse, NewMonth, vars
<1>9. CASE \E a \in Account : CountDependents(a)
  <2> PICK a \in Account : CountDependents(a)
    BY <1>9
  <2>1. UNCHANGED <<owner, quiz, session>> /\ counted' = counted \cup {a}
    BY DEF CountDependents
  <2>2. \A q \in Quiz : Host(q)' = Host(q) /\ Running(q)' = Running(q)
    BY <2>1 DEF Host, Running
  <2>3. \A q \in QuizzesOf(a) : ~ Running(q)
    BY DEF CountDependents, RoomInv, StatusMatchesSession, Running, Unfinished, QuizzesOf
  <2>4. Placed' /\ StatusMatchesSession' /\ OneRoomPerHost'
    BY <2>1, <2>2 DEF RoomInv, Placed, StatusMatchesSession, OneRoomPerHost
  <2>5. CountedIdle'
    BY <2>1, <2>2, <2>3 DEF RoomInv, CountedIdle, QuizzesOf
  <2> QED
    BY <1>r, <2>4, <2>5 DEF RoomInv
<1>10. CASE \E a \in Account : DeleteAccount(a)
  <2> PICK a \in Account : DeleteAccount(a)
    BY <1>10
  <2>1. \A q \in Quiz \ QuizzesOf(a) : quiz[q].status # "none" =>
            owner'[quiz[q].project] = owner[quiz[q].project]
    BY <1>r, HostIsOwner DEF DeleteAccount, Rows, Placed, QuizzesOf
  <2>2. Delete(QuizzesOf(a), {a}) /\ counted' \subseteq counted /\ QuizzesOf(a) \in SUBSET Quiz
    BY DEF DeleteAccount, QuizzesOf
  <2> QED
    BY <1>r, <2>1, <2>2, RoomsDeleted
<1>11. CASE \E a \in Hosts, p \in Project, q \in Quiz, limit \in 1 .. MaxParticipants :
                CreateQuiz(a, p, q, limit) \/ Update(q, limit)
  BY <1>11, <1>3, <1>4
<1>12. CASE \E q \in Quiz : \/ AddQuestion(q) \/ RemoveQuestion(q) \/ RemoveQuiz(q)
                             \/ CheckPublish(q) \/ Publish(q)
                             \/ OpenLobby(q) \/ CloseLobby(q) \/ Start(q) \/ End(q)
  <2>1. 1 \in 1 .. MaxParticipants
    BY LifecycleAssumption
  <2> QED
    BY <2>1, <1>12, <1>4, <1>5, <1>6, <1>7
<1>13. CASE \E a \in Account : CountDependents(a) \/ DeleteAccount(a) \/ RollBackDeletion(a)
  BY <1>13, <1>8, <1>9, <1>10
<1> QED
  BY Steps, <1>1, <1>2, <1>11, <1>12, <1>13, <1>8

THEOREM RoomsCorrect == Spec => []RoomInv
  BY InitRooms, NextRooms, PTL DEF Spec

\* The status of a quiz and its live session always say the same, whatever the
\* order of opening, closing, starting, ending and deleting.
THEOREM StatusAlwaysMatchesSession == Spec => []StatusMatchesSession
<1>1. RoomInv => StatusMatchesSession
  BY DEF RoomInv
<1> QED
  BY RoomsCorrect, <1>1, PTL

\* A host never runs two rooms at once (openLobby).
THEOREM HostRunsOneRoom == Spec => []OneRoomPerHost
<1>1. RoomInv => OneRoomPerHost
  BY DEF RoomInv
<1> QED
  BY RoomsCorrect, <1>1, PTL

\* A quiz in its lobby or live is not taken away.
RunningNeverDeleted ==
    [][\A q \in Quiz : Running(q) => quiz'[q].status # "none"]_vars

\* No deletion takes away a quiz in its lobby or live (deleteAccount,
\* ProjectsRepository.remove, QuizzesRepository.remove).
THEOREM RunningIsNeverDeleted == Spec => RunningNeverDeleted
<1>1. RoomInv /\ [Next]_vars => [\A q \in Quiz : Running(q) => quiz'[q].status # "none"]_vars
  <2> SUFFICES ASSUME RoomInv, [Next]_vars, NEW q \in Quiz, Running(q)
               PROVE  quiz'[q].status # "none"
    OBVIOUS
  <2>1. quiz[q].status \in {"LOBBY", "LIVE"} /\ Rows
    BY DEF RoomInv, StatusMatchesSession, Running
  <2>2. CASE \/ \E p \in Project : RemoveProject(p)
             \/ \E r \in Quiz : RemoveQuiz(r)
    BY <2>1, <2>2 DEF RemoveProject, RemoveQuiz, Delete
  <2>3. CASE \E a \in Account : DeleteAccount(a)
    BY <2>1, <2>3 DEF DeleteAccount, Delete, RoomInv, CountedIdle
  <2>4. CASE \/ \E a \in Hosts, p \in Project : CreateProject(a, p)
             \/ \E r \in Quiz, u \in Account : Register(r, u) \/ Unregister(r, u)
             \/ \E a \in Account : CountDependents(a) \/ RollBackDeletion(a)
             \/ Elapse \/ NewMonth \/ UNCHANGED vars
    BY <2>1, <2>4 DEF CreateProject, Register, Unregister, CountDependents,
       RollBackDeletion, Elapse, NewMonth, vars
  <2>5. CASE \/ \E a \in Hosts, p \in Project, r \in Quiz, limit \in 1 .. MaxParticipants :
                   CreateQuiz(a, p, r, limit) \/ Update(r, limit)
             \/ \E r \in Quiz : AddQuestion(r) \/ RemoveQuestion(r)
    <3>1. \A a \in Hosts, p \in Project, r \in Quiz, limit \in 1 .. MaxParticipants :
              CreateQuiz(a, p, r, limit) => quiz'[q].status # "none"
      BY <2>1 DEF CreateQuiz, Rows
    <3>2. \A r \in Quiz, limit \in 1 .. MaxParticipants :
              Update(r, limit) => quiz'[q].status # "none"
      BY <2>1 DEF Update, Rows, QuizRow
    <3>3. \A r \in Quiz : AddQuestion(r) \/ RemoveQuestion(r) => quiz'[q].status # "none"
      BY <2>1 DEF AddQuestion, RemoveQuestion, Rows, QuizRow
    <3> QED
      BY <2>5, <3>1, <3>2, <3>3
  <2>6. CASE \E r \in Quiz : \/ CheckPublish(r) \/ Publish(r) \/ OpenLobby(r)
                             \/ CloseLobby(r) \/ Start(r) \/ End(r)
    <3> PICK r \in Quiz : \/ CheckPublish(r) \/ Publish(r) \/ OpenLobby(r)
                          \/ CloseLobby(r) \/ Start(r) \/ End(r)
      BY <2>6
    <3>1. \/ quiz' = quiz
          \/ \E v \in Statuses \ {"none"} : quiz' = [quiz EXCEPT ![r].status = v]
      BY DEF CheckPublish, Publish, OpenLobby, CloseLobby, Start, End, Statuses, Unfinished
    <3>2. quiz[r] \in QuizRow /\ quiz[q] \in QuizRow
      BY <2>1 DEF Rows
    <3> QED
      BY <2>1, <3>1, <3>2 DEF Rows, QuizRow
  <2>7. CASE \E r \in Quiz : \/ AddQuestion(r) \/ RemoveQuestion(r) \/ RemoveQuiz(r)
                             \/ CheckPublish(r) \/ Publish(r)
                             \/ OpenLobby(r) \/ CloseLobby(r) \/ Start(r) \/ End(r)
    <3>1. \A r \in Quiz : AddQuestion(r) \/ RemoveQuestion(r) => quiz'[q].status # "none"
      BY <2>5
    <3>2. \A r \in Quiz : RemoveQuiz(r) => quiz'[q].status # "none"
      BY <2>2
    <3> QED
      BY <2>7, <2>6, <3>1, <3>2
  <2>8. CASE \E a \in Account : CountDependents(a) \/ DeleteAccount(a) \/ RollBackDeletion(a)
    BY <2>8, <2>3, <2>4
  <2>9. CASE \E a \in Hosts, p \in Project, r \in Quiz, limit \in 1 .. MaxParticipants :
                 CreateQuiz(a, p, r, limit) \/ Update(r, limit)
    BY <2>9, <2>5
  <2>10. CASE \/ \E a \in Hosts, p \in Project : CreateProject(a, p)
              \/ \E r \in Quiz, u \in Account : Register(r, u) \/ Unregister(r, u)
              \/ Elapse \/ NewMonth \/ UNCHANGED vars
    BY <2>10, <2>4
  <2>11. CASE \E p \in Project : RemoveProject(p)
    BY <2>11, <2>2
  <2> QED
    BY Steps, <2>7, <2>8, <2>9, <2>10, <2>11
<1> QED
  BY RoomsCorrect, <1>1, PTL DEF Spec, RunningNeverDeleted

-----------------------------------------------------------------------------
(* Capacity and questions.                                                   *)

\* Fewer registrations under the same limit or a higher one.
LEMMA FewerRegistered ==
  ASSUME Rows, Rows', NEW q \in Quiz, WithinCapacity,
         Registered(q)' \subseteq Registered(q), quiz[q].limit \leq quiz'[q].limit
  PROVE  Cardinality(Registered(q)') \leq quiz'[q].limit
<1>1. IsFiniteSet(Registered(q))
  BY LifecycleAssumption, FS_Subset DEF Registered
<1>2. Cardinality(Registered(q)') \leq Cardinality(Registered(q))
  BY <1>1, FS_Subset
<1>3. Cardinality(Registered(q)') \in Nat /\ Cardinality(Registered(q)) \in Nat
  BY <1>1, FS_Subset, FS_CardinalityType
<1>4. quiz[q].limit \in Nat /\ quiz'[q].limit \in Nat
  BY LifecycleAssumption DEF Rows, QuizRow
<1>5. Cardinality(Registered(q)) \leq quiz[q].limit
  BY DEF WithinCapacity
<1> QED
  BY <1>2, <1>3, <1>4, <1>5

\* Deleting a quiz or an account removes its registrations.
LEMMA CapacityDeleted ==
  ASSUME Rows, Rows', WithinCapacity, NEW gone \in SUBSET Quiz, NEW leaving,
         Delete(gone, leaving)
  PROVE  WithinCapacity'
<1> SUFFICES ASSUME NEW q \in Quiz PROVE Cardinality(Registered(q)') \leq quiz'[q].limit
  BY DEF WithinCapacity
<1>1. CASE q \in gone
  <2>1. Registered(q)' = {} /\ quiz'[q].limit = 0
    BY <1>1 DEF Delete, Registered, NoQuiz
  <2> QED
    BY <2>1, FS_EmptySet
<1>2. CASE q \notin gone
  <2>1. Registered(q)' \subseteq Registered(q) /\ quiz'[q] = quiz[q]
    BY <1>2 DEF Delete, Registered
  <2>2. quiz[q].limit \in Nat
    BY LifecycleAssumption DEF Rows, QuizRow
  <2> QED
    BY <2>1, <2>2, FewerRegistered
<1> QED
  BY <1>1, <1>2

\* Steps that add nobody and lower no limit.
LEMMA CapacityUntouched ==
  ASSUME Rows, Rows', WithinCapacity,
         \A q \in Quiz : /\ Registered(q)' \subseteq Registered(q)
                         /\ quiz'[q].limit = quiz[q].limit
  PROVE  WithinCapacity'
<1> SUFFICES ASSUME NEW q \in Quiz PROVE Cardinality(Registered(q)') \leq quiz'[q].limit
  BY DEF WithinCapacity
<1>1. quiz[q].limit \in Nat
  BY LifecycleAssumption DEF Rows, QuizRow
<1> QED
  BY <1>1, FewerRegistered

LEMMA NextCapacity == RoomInv /\ WithinCapacity /\ [Next]_vars => WithinCapacity'
<1> SUFFICES ASSUME RoomInv, WithinCapacity, [Next]_vars PROVE WithinCapacity'
  OBVIOUS
<1>r. Rows /\ Rows' /\ Placed
  BY RowsKept DEF RoomInv
<1>1. CASE \E a \in Hosts, p \in Project, q \in Quiz, limit \in 1 .. MaxParticipants :
              CreateQuiz(a, p, q, limit)
  <2> PICK a \in Hosts, p \in Project, q \in Quiz, limit \in 1 .. MaxParticipants :
              CreateQuiz(a, p, q, limit)
    BY <1>1
  <2>1. /\ registration' = registration /\ quiz[q].limit = 0 /\ quiz'[q].limit = limit
        /\ \A r \in Quiz : r # q => quiz'[r] = quiz[r]
    BY <1>r DEF CreateQuiz, Rows, Placed, NoQuiz
  <2>2. \A r \in Quiz : quiz[r].limit \leq quiz'[r].limit
    BY <2>1, <1>r, LifecycleAssumption DEF Rows, QuizRow
  <2>3. \A r \in Quiz : Registered(r)' \subseteq Registered(r)
    BY <2>1 DEF Registered
  <2> QED
    BY <1>r, <2>2, <2>3, FewerRegistered DEF WithinCapacity
<1>2. CASE \E q \in Quiz, limit \in 1 .. MaxParticipants : Update(q, limit)
  <2> PICK q \in Quiz, limit \in 1 .. MaxParticipants : Update(q, limit)
    BY <1>2
  <2>1. /\ Cardinality(Registered(q)) \leq limit /\ quiz'[q].limit = limit
        /\ \A r \in Quiz : Registered(r)' = Registered(r)
        /\ \A r \in Quiz : r # q => quiz'[r] = quiz[r]
    BY <1>r DEF Update, Rows, QuizRow, Registered
  <2> QED
    BY <2>1 DEF WithinCapacity
<1>3. CASE \E q \in Quiz, u \in Account : Register(q, u)
  <2> PICK q \in Quiz, u \in Account : Register(q, u)
    BY <1>3
  <2>1. /\ Registered(q)' = Registered(q) \cup {u} /\ u \notin Registered(q)
        /\ \A r \in Quiz : r # q => Registered(r)' = Registered(r)
        /\ quiz' = quiz /\ Cardinality(Registered(q)) < quiz[q].limit
    BY <1>r DEF Register, Rows, Registered
  <2>2. IsFiniteSet(Registered(q))
    BY LifecycleAssumption, FS_Subset DEF Registered
  <2>3. Cardinality(Registered(q)') = Cardinality(Registered(q)) + 1
    BY <2>1, <2>2, FS_AddElement
  <2>4. Cardinality(Registered(q)) \in Nat /\ quiz[q].limit \in Nat
    BY <1>r, <2>2, FS_CardinalityType, LifecycleAssumption DEF Rows, QuizRow
  <2>5. Cardinality(Registered(q)') \leq quiz'[q].limit
    BY <2>1, <2>3, <2>4
  <2> QED
    BY <2>1, <2>5 DEF WithinCapacity
<1>4. CASE \E q \in Quiz, u \in Account : Unregister(q, u)
  <2> PICK q \in Quiz, u \in Account : Unregister(q, u)
    BY <1>4
  <2> QED
    BY <1>r, CapacityUntouched DEF Unregister, Rows, Registered
<1>5. CASE \E q \in Quiz : AddQuestion(q) \/ RemoveQuestion(q)
  <2> PICK q \in Quiz : AddQuestion(q) \/ RemoveQuestion(q)
    BY <1>5
  <2>1. /\ registration' = registration
        /\ \E v : quiz' = [quiz EXCEPT ![q].questions = v]
    BY DEF AddQuestion, RemoveQuestion
  <2>2. \A r \in Quiz : quiz'[r].limit = quiz[r].limit
    BY <1>r, <2>1 DEF Rows, QuizRow
  <2> QED
    BY <1>r, <2>1, <2>2, CapacityUntouched DEF Registered
<1>6. CASE \E q \in Quiz : \/ CheckPublish(q) \/ Publish(q) \/ OpenLobby(q)
                           \/ CloseLobby(q) \/ Start(q) \/ End(q)
  <2> PICK q \in Quiz : \/ CheckPublish(q) \/ Publish(q) \/ OpenLobby(q)
                        \/ CloseLobby(q) \/ Start(q) \/ End(q)
    BY <1>6
  <2>1. /\ registration' = registration
        /\ quiz' = quiz \/ \E v \in Statuses : quiz' = [quiz EXCEPT ![q].status = v]
    BY DEF CheckPublish, Publish, OpenLobby, CloseLobby, Start, End, Statuses, Unfinished
  <2>2. \A r \in Quiz : quiz'[r].limit = quiz[r].limit
    BY <1>r, <2>1 DEF Rows, QuizRow
  <2> QED
    BY <1>r, <2>1, <2>2, CapacityUntouched DEF Registered
<1>7. CASE \E q \in Quiz : RemoveQuiz(q)
  <2> PICK q \in Quiz : RemoveQuiz(q)
    BY <1>7
  <2> QED
    BY <1>r, CapacityDeleted DEF RemoveQuiz
<1>8. CASE \E p \in Project : RemoveProject(p)
  <2> PICK p \in Project : RemoveProject(p)
    BY <1>8
  <2> DEFINE inside == {q \in Quiz : quiz[q].project = p}
  <2>1. Delete(inside, {}) /\ inside \in SUBSET Quiz
    BY DEF RemoveProject
  <2> HIDE DEF inside
  <2> QED
    BY <1>r, <2>1, CapacityDeleted
<1>9. CASE \E a \in Account : DeleteAccount(a)
  <2> PICK a \in Account : DeleteAccount(a)
    BY <1>9
  <2>1. Delete(QuizzesOf(a), {a}) /\ QuizzesOf(a) \in SUBSET Quiz
    BY DEF DeleteAccount, QuizzesOf
  <2> QED
    BY <1>r, <2>1, CapacityDeleted
<1>10. CASE \/ \E a \in Hosts, p \in Project : CreateProject(a, p)
            \/ \E a \in Account : CountDependents(a) \/ RollBackDeletion(a)
            \/ Elapse \/ NewMonth \/ UNCHANGED vars
  <2>1. registration' = registration /\ quiz' = quiz
    BY <1>10 DEF CreateProject, CountDependents, RollBackDeletion, Elapse, NewMonth, vars
  <2> QED
    BY <1>r, <2>1, CapacityUntouched DEF Registered
<1>11. CASE \E a \in Hosts, p \in Project, q \in Quiz, limit \in 1 .. MaxParticipants :
                CreateQuiz(a, p, q, limit) \/ Update(q, limit)
  BY <1>11, <1>1, <1>2
<1>12. CASE \E q \in Quiz : \/ AddQuestion(q) \/ RemoveQuestion(q) \/ RemoveQuiz(q)
                            \/ CheckPublish(q) \/ Publish(q)
                            \/ OpenLobby(q) \/ CloseLobby(q) \/ Start(q) \/ End(q)
  BY <1>12, <1>5, <1>6, <1>7
<1>13. CASE \E q \in Quiz, u \in Account : Register(q, u) \/ Unregister(q, u)
  BY <1>13, <1>3, <1>4
<1>14. CASE \E a \in Account : CountDependents(a) \/ DeleteAccount(a) \/ RollBackDeletion(a)
  BY <1>14, <1>9, <1>10
<1> QED
  BY Steps, <1>8, <1>10, <1>11, <1>12, <1>13, <1>14

\* Registrations never exceed the limit, however it is lowered and whoever
\* registers meanwhile (register_participant, QuizzesRepository.update).
THEOREM NeverOverbooked == Spec => []WithinCapacity
<1>1. Init => WithinCapacity
  <2> SUFFICES ASSUME Init, NEW q \in Quiz PROVE Cardinality(Registered(q)) \leq quiz[q].limit
    BY DEF WithinCapacity
  <2>1. Registered(q) = {} /\ quiz[q].limit = 0
    BY DEF Init, Registered, NoQuiz
  <2> QED
    BY <2>1, FS_EmptySet
<1>2. Init => RoomInv /\ WithinCapacity
  BY <1>1, InitRooms
<1>3. RoomInv /\ WithinCapacity /\ [Next]_vars => (RoomInv /\ WithinCapacity)'
  BY NextRooms, NextCapacity
<1> QED
  BY <1>2, <1>3, PTL DEF Spec

\* A publication that passed its validation found a question, and remembers it
\* unless the removal of the last one is on record.
CheckedHasQuestions == \A q \in checked : quiz[q].questions > 0 \/ q \in raced

QuestionInv == PublishedHasQuestions /\ CheckedHasQuestions /\ checked \subseteq Quiz

\* Steps that touch neither the questions nor the publications under way, and
\* open no quiz that was not open.
LEMMA QuestionsUntouched ==
  ASSUME QuestionInv, raced' = raced, checked' \subseteq checked,
         \A q \in Quiz : /\ quiz'[q].questions = quiz[q].questions
                         /\ quiz'[q].status \in Unfinished =>
                                quiz[q].status \in Unfinished \/ q \in checked
  PROVE  QuestionInv'
  BY DEF QuestionInv, PublishedHasQuestions, CheckedHasQuestions

LEMMA QuestionsDeleted ==
  ASSUME QuestionInv, NEW gone \in SUBSET Quiz, NEW leaving, Delete(gone, leaving)
  PROVE  QuestionInv'
  BY DEF QuestionInv, PublishedHasQuestions, CheckedHasQuestions, Delete, NoQuiz, Unfinished

LEMMA NextQuestions == RoomInv /\ QuestionInv /\ [Next]_vars => QuestionInv'
<1> SUFFICES ASSUME RoomInv, QuestionInv, [Next]_vars PROVE QuestionInv'
  OBVIOUS
<1>r. Rows /\ Placed /\ StatusMatchesSession
  BY DEF RoomInv
<1>1. CASE \E a \in Hosts, p \in Project, q \in Quiz, limit \in 1 .. MaxParticipants :
              CreateQuiz(a, p, q, limit)
  <2> PICK a \in Hosts, p \in Project, q \in Quiz, limit \in 1 .. MaxParticipants :
              CreateQuiz(a, p, q, limit)
    BY <1>1
  <2>1. /\ quiz'[q].questions = quiz[q].questions /\ quiz'[q].status = "DRAFT"
        /\ \A r \in Quiz : r # q => quiz'[r] = quiz[r]
        /\ checked' = checked /\ raced' = raced
    BY <1>r DEF CreateQuiz, Rows, Placed, NoQuiz
  <2>2. \A r \in Quiz : quiz'[r].status \in Unfinished => quiz[r].status \in Unfinished
    BY <2>1 DEF Unfinished
  <2> QED
    BY <2>1, <2>2, QuestionsUntouched
<1>2. CASE \E q \in Quiz, limit \in 1 .. MaxParticipants : Update(q, limit)
  <2> PICK q \in Quiz, limit \in 1 .. MaxParticipants : Update(q, limit)
    BY <1>2
  <2>1. \A r \in Quiz : /\ quiz'[r].questions = quiz[r].questions
                        /\ quiz'[r].status = quiz[r].status
    BY <1>r DEF Update, Rows, QuizRow
  <2> QED
    BY <2>1, QuestionsUntouched DEF Update
<1>3. CASE \E q \in Quiz : AddQuestion(q)
  <2> PICK q \in Quiz : AddQuestion(q)
    BY <1>3
  <2>1. /\ quiz[q].questions \in Nat /\ quiz'[q].questions = quiz[q].questions + 1
        /\ \A r \in Quiz : quiz'[r].status = quiz[r].status
        /\ \A r \in Quiz : r # q => quiz'[r].questions = quiz[r].questions
    BY <1>r, LifecycleAssumption DEF AddQuestion, Rows, QuizRow
  <2>2. quiz'[q].questions > 0
    BY <2>1
  <2> QED
    BY <2>1, <2>2 DEF AddQuestion, QuestionInv, PublishedHasQuestions, CheckedHasQuestions
<1>4. CASE \E q \in Quiz : RemoveQuestion(q)
  <2> PICK q \in Quiz : RemoveQuestion(q)
    BY <1>4
  <2>1. /\ quiz[q].questions \in Nat /\ quiz'[q].questions = quiz[q].questions - 1
        /\ \A r \in Quiz : quiz'[r].status = quiz[r].status
        /\ \A r \in Quiz : r # q => quiz'[r].questions = quiz[r].questions
    BY <1>r, LifecycleAssumption DEF RemoveQuestion, Rows, QuizRow
  <2>2. /\ checked' = checked /\ raced \subseteq raced' /\ quiz[q].questions > 0
        /\ quiz[q].questions > 1 \/ quiz[q].status = "DRAFT"
        /\ quiz[q].questions = 1 /\ q \in checked => q \in raced'
    BY DEF RemoveQuestion
  <2>3. \/ quiz'[q].questions > 0
        \/ quiz[q].status = "DRAFT" /\ (q \in checked => q \in raced')
    BY <2>1, <2>2
  <2>4. PublishedHasQuestions'
    BY <2>1, <2>2, <2>3 DEF QuestionInv, PublishedHasQuestions, Unfinished
  <2>5. CheckedHasQuestions'
    BY <2>1, <2>2, <2>3 DEF QuestionInv, CheckedHasQuestions
  <2> QED
    BY <2>2, <2>4, <2>5 DEF QuestionInv
<1>5. CASE \E q \in Quiz : RemoveQuiz(q)
  <2> PICK q \in Quiz : RemoveQuiz(q)
    BY <1>5
  <2> QED
    BY QuestionsDeleted DEF RemoveQuiz
<1>6. CASE \E p \in Project : RemoveProject(p)
  <2> PICK p \in Project : RemoveProject(p)
    BY <1>6
  <2> DEFINE inside == {q \in Quiz : quiz[q].project = p}
  <2>1. Delete(inside, {}) /\ inside \in SUBSET Quiz
    BY DEF RemoveProject
  <2> HIDE DEF inside
  <2> QED
    BY <2>1, QuestionsDeleted
<1>7. CASE \E a \in Account : DeleteAccount(a)
  <2> PICK a \in Account : DeleteAccount(a)
    BY <1>7
  <2>1. Delete(QuizzesOf(a), {a}) /\ QuizzesOf(a) \in SUBSET Quiz
    BY DEF DeleteAccount, QuizzesOf
  <2> QED
    BY <2>1, QuestionsDeleted
<1>8. CASE \E q \in Quiz : CheckPublish(q)
  BY <1>8 DEF CheckPublish, QuestionInv, PublishedHasQuestions, CheckedHasQuestions
<1>9. CASE \E q \in Quiz : Publish(q) \/ OpenLobby(q) \/ CloseLobby(q) \/ Start(q) \/ End(q)
  <2> PICK q \in Quiz : Publish(q) \/ OpenLobby(q) \/ CloseLobby(q) \/ Start(q) \/ End(q)
    BY <1>9
  <2>1. /\ raced' = raced /\ checked' \subseteq checked
        /\ quiz' = quiz \/ \E v \in Statuses : quiz' = [quiz EXCEPT ![q].status = v]
    BY DEF Publish, OpenLobby, CloseLobby, Start, End, Statuses, Unfinished
  <2>2. quiz' = quiz \/ q \in checked \/ quiz[q].status = "PUBLISHED"
        \/ session[q] \in {"LOBBY", "LIVE"}
    BY DEF Publish, OpenLobby, CloseLobby, Start, End, Running
  <2>3. quiz' = quiz \/ q \in checked \/ quiz[q].status \in Unfinished
    BY <1>r, <2>2 DEF StatusMatchesSession, Unfinished
  <2>4. \A r \in Quiz : /\ quiz'[r].questions = quiz[r].questions
                        /\ r # q => quiz'[r].status = quiz[r].status
    BY <1>r, <2>1 DEF Rows, QuizRow
  <2>5. \A r \in Quiz : quiz'[r].status \in Unfinished =>
                            quiz[r].status \in Unfinished \/ r \in checked
    BY <2>3, <2>4
  <2>6. raced' = raced /\ checked' \subseteq checked
    BY <2>1
  <2> QED
    BY <2>4, <2>5, <2>6, QuestionsUntouched
<1>10. CASE \/ \E a \in Hosts, p \in Project : CreateProject(a, p)
            \/ \E q \in Quiz, u \in Account : Register(q, u) \/ Unregister(q, u)
            \/ \E a \in Account : CountDependents(a) \/ RollBackDeletion(a)
            \/ Elapse \/ NewMonth \/ UNCHANGED vars
  <2>1. quiz' = quiz /\ checked' = checked /\ raced' = raced
    BY <1>10 DEF CreateProject, Register, Unregister, CountDependents, RollBackDeletion,
       Elapse, NewMonth, vars
  <2> QED
    BY <2>1, QuestionsUntouched
<1>11. CASE \E a \in Hosts, p \in Project, q \in Quiz, limit \in 1 .. MaxParticipants :
                CreateQuiz(a, p, q, limit) \/ Update(q, limit)
  BY <1>11, <1>1, <1>2
<1>12. CASE \E q \in Quiz : \/ AddQuestion(q) \/ RemoveQuestion(q) \/ RemoveQuiz(q)
                            \/ CheckPublish(q) \/ Publish(q)
                            \/ OpenLobby(q) \/ CloseLobby(q) \/ Start(q) \/ End(q)
  BY <1>12, <1>3, <1>4, <1>5, <1>8, <1>9
<1>13. CASE \E a \in Account : CountDependents(a) \/ DeleteAccount(a) \/ RollBackDeletion(a)
  BY <1>13, <1>7, <1>10
<1> QED
  BY Steps, <1>6, <1>10, <1>11, <1>12, <1>13

\* A published quiz has a question, except in the one race between publish and
\* the removal of the last question that the model keeps on record
\* (QuizzesService.publish, QuestionsRepository.remove).
THEOREM PublishedNeverEmpty == Spec => []PublishedHasQuestions
<1>1. Init => RoomInv /\ QuestionInv
  BY InitRooms DEF Init, QuestionInv, PublishedHasQuestions, CheckedHasQuestions, NoQuiz, Unfinished
<1>2. RoomInv /\ QuestionInv /\ [Next]_vars => (RoomInv /\ QuestionInv)'
  BY NextRooms, NextQuestions
<1>3. QuestionInv => PublishedHasQuestions
  BY DEF QuestionInv
<1> QED
  BY <1>1, <1>2, <1>3, PTL DEF Spec

-----------------------------------------------------------------------------
(* Allowances.                                                               *)

OldestFirst(ages) == \A i, j \in DOMAIN ages : i \leq j => ages[i] \geq ages[j]

Spaced(ages) ==
    \A i \in 1 .. Len(ages) - CreationsPerDay :
        ages[i] - ages[i + CreationsPerDay] \geq Day

UsageInv ==
    /\ created \in [Account -> Seq(0 .. 2 * Day)]
    /\ started \in [Account -> 0 .. HostedPerMonth]
    /\ \A a \in Account : OldestFirst(created[a]) /\ Spaced(created[a])

\* What is younger than a limit is an end of the sequence: what a query by
\* age, ordered by age, returns (requireAllowance).
LEMMA YoungerIsTheEnd ==
  ASSUME NEW ages \in Seq(Nat), OldestFirst(ages), NEW limit \in Nat
  PROVE  \E k \in 0 .. Len(ages) :
             /\ Younger(ages, limit) = SubSeq(ages, k + 1, Len(ages))
             /\ \A i \in 1 .. Len(ages) : ages[i] \geq limit <=> i \leq k
<1> DEFINE older == {i \in DOMAIN ages : ages[i] \geq limit}
           k == Cardinality(older)
<1>1. /\ Len(ages) \in Nat /\ DOMAIN ages = 1 .. Len(ages)
      /\ \A i \in 1 .. Len(ages) : ages[i] \in Nat
  BY LenProperties, ElementOfSeq
<1>2. \A n \in Nat : IsFiniteSet(1 .. n) /\ Cardinality(1 .. n) = n
  <2> TAKE n \in Nat
  <2>1. IsFiniteSet(1 .. n) /\ Cardinality(1 .. n) = IF 1 > n THEN 0 ELSE n - 1 + 1
    BY FS_Interval
  <2> QED
    BY <2>1
<1>3. IsFiniteSet(older) /\ k \in 0 .. Len(ages)
  <2>1. older \in SUBSET (1 .. Len(ages))
    BY <1>1
  <2>2. IsFiniteSet(older) /\ k \leq Len(ages)
    BY <1>1, <1>2, <2>1, FS_Subset
  <2>3. k \in Nat
    BY <2>2, FS_CardinalityType
  <2> QED
    BY <1>1, <2>2, <2>3
<1>4. ASSUME NEW i \in 1 .. Len(ages), ages[i] \geq limit
      PROVE  i \leq k
  <2>1. 1 .. i \subseteq older
    <3> SUFFICES ASSUME NEW j \in 1 .. i PROVE j \in DOMAIN ages /\ ages[j] \geq limit
      OBVIOUS
    <3>1. j \in 1 .. Len(ages) /\ j \leq i
      BY <1>1
    <3>2. ages[j] \geq ages[i]
      BY <1>1, <3>1 DEF OldestFirst
    <3> QED
      BY <1>1, <1>4, <3>1, <3>2
  <2>2. i \in Nat /\ Cardinality(1 .. i) = i
    BY <1>2
  <2>3. Cardinality(1 .. i) \leq k
    BY <1>3, <2>1, FS_Subset
  <2> QED
    BY <2>2, <2>3
<1>5. ASSUME NEW i \in 1 .. Len(ages), i \leq k
      PROVE  ages[i] \geq limit
  <2> SUFFICES ASSUME ~ (ages[i] \geq limit) PROVE FALSE
    OBVIOUS
  <2>1. i - 1 \in Nat /\ older \in SUBSET (1 .. i - 1)
    <3> SUFFICES ASSUME NEW j \in DOMAIN ages, ages[j] \geq limit PROVE j \in 1 .. i - 1
      BY <1>1
    <3>1. i \leq j => ages[i] \geq ages[j]
      BY <1>1 DEF OldestFirst
    <3>2. ages[i] \in Nat /\ ages[j] \in Nat /\ i \in Nat /\ j \in 1 .. Len(ages)
      BY <1>1
    <3> QED
      BY <3>1, <3>2
  <2>2. IsFiniteSet(1 .. i - 1) /\ Cardinality(1 .. i - 1) = i - 1
    BY <1>2, <2>1
  <2>3. k \leq i - 1
    BY <2>1, <2>2, FS_Subset
  <2> QED
    BY <1>3, <1>5, <2>3
<1>6. Younger(ages, limit) = SubSeq(ages, k + 1, Len(ages))
  BY DEF Younger
<1> HIDE DEF k
<1> QED
  BY <1>3, <1>4, <1>5, <1>6

\* The end of a sequence of ages keeps their order and their distance.
LEMMA EndKeepsUsage ==
  ASSUME NEW ages \in Seq(Nat), OldestFirst(ages), Spaced(ages), NEW k \in 0 .. Len(ages)
  PROVE  LET end == SubSeq(ages, k + 1, Len(ages)) IN
             /\ end \in Seq(Nat) /\ Len(end) = Len(ages) - k
             /\ \A i \in 1 .. Len(ages) - k : end[i] = ages[k + i]
             /\ OldestFirst(end) /\ Spaced(end)
<1> DEFINE end == SubSeq(ages, k + 1, Len(ages))
<1>1. /\ Len(ages) \in Nat /\ DOMAIN ages = 1 .. Len(ages)
      /\ \A i \in 1 .. Len(ages) : ages[i] \in Nat
  BY LenProperties, ElementOfSeq
<1>2. k \in Nat /\ k \leq Len(ages) /\ k + 1 \in Int /\ Len(ages) \in Int
  BY <1>1
<1>3. \A i \in k + 1 .. Len(ages) : ages[i] \in Nat
  BY <1>1, <1>2
<1>4. /\ end \in Seq(Nat)
      /\ Len(end) = IF k + 1 \leq Len(ages) THEN Len(ages) - (k + 1) + 1 ELSE 0
      /\ \A i \in 1 .. Len(ages) - (k + 1) + 1 : end[i] = ages[(k + 1) + i - 1]
  BY <1>2, <1>3, SubSeqProperties
<1> HIDE DEF end
<1>5. Len(end) = Len(ages) - k
  <2>1. \A n \in Nat : k \leq n =>
            (IF k + 1 \leq n THEN n - (k + 1) + 1 ELSE 0) = n - k
    BY <1>2
  <2> QED
    BY <1>1, <1>2, <1>4, <2>1
<1>6. \A i \in 1 .. Len(ages) - k : end[i] = ages[k + i]
  <2> TAKE i \in 1 .. Len(ages) - k
  <2>1. i \in 1 .. Len(ages) - (k + 1) + 1 /\ (k + 1) + i - 1 = k + i
    BY <1>1, <1>2
  <2>2. end[i] = ages[(k + 1) + i - 1]
    BY <1>4, <2>1
  <2> QED
    BY <2>1, <2>2
<1>7. DOMAIN end = 1 .. Len(ages) - k
  BY <1>4, <1>5, LenProperties
<1>8. OldestFirst(end)
  <2> SUFFICES ASSUME NEW i \in 1 .. Len(ages) - k, NEW j \in 1 .. Len(ages) - k, i \leq j
               PROVE  end[i] \geq end[j]
    BY <1>7 DEF OldestFirst
  <2>1. k + i \in 1 .. Len(ages) /\ k + j \in 1 .. Len(ages) /\ k + i \leq k + j
    BY <1>1, <1>2
  <2>2. ages[k + i] \geq ages[k + j]
    BY <1>1, <2>1 DEF OldestFirst
  <2> QED
    BY <1>6, <2>2
<1>9. Spaced(end)
  <2> SUFFICES ASSUME NEW i \in 1 .. Len(end) - CreationsPerDay
               PROVE  end[i] - end[i + CreationsPerDay] \geq Day
    BY DEF Spaced
  <2>1. CreationsPerDay \in Nat
    BY LifecycleAssumption
  <2>2. /\ i \in 1 .. Len(ages) - k /\ i + CreationsPerDay \in 1 .. Len(ages) - k
        /\ k + i \in 1 .. Len(ages) - CreationsPerDay
        /\ k + (i + CreationsPerDay) = (k + i) + CreationsPerDay
    BY <1>1, <1>2, <1>5, <2>1
  <2>3. ages[k + i] - ages[(k + i) + CreationsPerDay] \geq Day
    BY <2>2 DEF Spaced
  <2>4. end[i] = ages[k + i] /\ end[i + CreationsPerDay] = ages[(k + i) + CreationsPerDay]
    BY <1>6, <2>2
  <2> QED
    BY <2>3, <2>4
<1> QED
  BY <1>4, <1>5, <1>6, <1>8, <1>9 DEF end

\* An allowed creation finds the one an allowance ago at least a day old
\* (windowReopens counts back from the latest).
LEMMA AllowedIsSpaced ==
  ASSUME NEW a \in Account, created[a] \in Seq(Nat), OldestFirst(created[a]),
         CreationAllowed(a), CreationsPerDay \leq Len(created[a])
  PROVE  created[a][Len(created[a]) + 1 - CreationsPerDay] \geq Day
<1> DEFINE ages == created[a]
           recent == InWindow(ages)
<1>1. PICK k \in 0 .. Len(ages) :
          /\ Younger(ages, Day) = SubSeq(ages, k + 1, Len(ages))
          /\ \A i \in 1 .. Len(ages) : ages[i] \geq Day <=> i \leq k
  BY YoungerIsTheEnd, LifecycleAssumption
<1>2. /\ Len(ages) \in Nat /\ CreationsPerDay \in Nat \ {0} /\ Day \in Nat
      /\ \A i \in 1 .. Len(ages) : ages[i] \in Nat
  BY LifecycleAssumption, LenProperties, ElementOfSeq
<1>3. \A i \in k + 1 .. Len(ages) : ages[i] \in Nat
  BY <1>2
<1>4. /\ Len(recent) = IF k + 1 \leq Len(ages) THEN Len(ages) - (k + 1) + 1 ELSE 0
      /\ \A i \in 1 .. Len(ages) - (k + 1) + 1 : recent[i] = ages[(k + 1) + i - 1]
  BY <1>1, <1>2, <1>3, SubSeqProperties DEF InWindow
<1>5. WindowReopens(recent, CreationsPerDay) = 0
  BY DEF CreationAllowed
<1> HIDE DEF recent, ages
<1>6. Len(recent) = Len(ages) - k
  BY <1>1, <1>2, <1>4
<1>7. Len(recent) < CreationsPerDay
  <2> SUFFICES ASSUME ~ (Len(recent) < CreationsPerDay) PROVE FALSE
    OBVIOUS
  <2> DEFINE i == Len(recent) - CreationsPerDay + 1
  <2>1. Day - recent[i] = 0
    BY <1>5 DEF WindowReopens
  <2>2. i \in 1 .. Len(ages) - (k + 1) + 1 /\ (k + 1) + i - 1 = k + i
    BY <1>1, <1>2, <1>6
  <2>3. k + i \in 1 .. Len(ages) /\ ~ (k + i \leq k)
    BY <1>1, <1>2, <1>6
  <2> HIDE DEF i
  <2>4. recent[i] = ages[k + i]
    <3>1. recent[i] = ages[(k + 1) + i - 1]
      BY <1>4, <2>2
    <3> QED
      BY <2>2, <3>1
  <2>5. ages[k + i] \in Nat /\ ~ (ages[k + i] \geq Day)
    BY <1>1, <1>2, <2>3
  <2> QED
    BY <1>2, <2>1, <2>4, <2>5
<1>8. /\ Len(ages) + 1 - CreationsPerDay \in 1 .. Len(ages)
      /\ Len(ages) + 1 - CreationsPerDay \leq k
  BY <1>1, <1>2, <1>6, <1>7 DEF ages
<1> QED
  BY <1>1, <1>8 DEF ages

LEMMA CreationKeepsUsage ==
  ASSUME UsageInv, NEW a \in Account, CreationAllowed(a),
         created' = [created EXCEPT ![a] = Append(@, 0)], started' = started
  PROVE  UsageInv'
<1> DEFINE ages == created[a]
           more == Append(ages, 0)
<1>1. /\ CreationsPerDay \in Nat \ {0} /\ Day \in Nat
      /\ ages \in Seq(0 .. 2 * Day)
      /\ OldestFirst(ages) /\ Spaced(ages)
  BY LifecycleAssumption DEF UsageInv
<1>2. ages \in Seq(Nat)
  BY <1>1, SeqMonotonic
<1>3. /\ Len(ages) \in Nat /\ DOMAIN ages = 1 .. Len(ages)
      /\ \A i \in 1 .. Len(ages) : ages[i] \in Nat
  BY <1>2, LenProperties, ElementOfSeq
<1>4. /\ more \in Seq(0 .. 2 * Day) /\ Len(more) = Len(ages) + 1
      /\ \A i \in 1 .. Len(ages) : more[i] = ages[i]
      /\ more[Len(ages) + 1] = 0
  <2>1. 0 \in 0 .. 2 * Day
    BY <1>1
  <2> QED
    BY <1>1, <2>1, AppendProperties
<1>5. DOMAIN more = 1 .. Len(ages) + 1
  BY <1>4, LenProperties
<1>6. CreationsPerDay \leq Len(ages) => ages[Len(ages) + 1 - CreationsPerDay] \geq Day
  BY <1>1, <1>2, AllowedIsSpaced
<1> HIDE DEF ages, more
<1>7. OldestFirst(more)
  <2> SUFFICES ASSUME NEW i \in 1 .. Len(ages) + 1, NEW j \in 1 .. Len(ages) + 1, i \leq j
               PROVE  more[i] \geq more[j]
    BY <1>5 DEF OldestFirst
  <2>1. CASE j = Len(ages) + 1
    <3>1. more[i] \in Nat
      BY <1>3, <1>4
    <3> QED
      BY <1>4, <2>1, <3>1
  <2>2. CASE j # Len(ages) + 1
    <3>1. i \in 1 .. Len(ages) /\ j \in 1 .. Len(ages)
      BY <1>3, <2>2
    <3> QED
      BY <1>1, <1>3, <1>4, <3>1 DEF OldestFirst
  <2> QED
    BY <2>1, <2>2
<1>8. Spaced(more)
  <2> SUFFICES ASSUME NEW i \in 1 .. Len(more) - CreationsPerDay
               PROVE  more[i] - more[i + CreationsPerDay] \geq Day
    BY DEF Spaced
  <2>1. CASE i = Len(ages) + 1 - CreationsPerDay
    <3>1. /\ i \in 1 .. Len(ages) /\ i + CreationsPerDay = Len(ages) + 1
          /\ CreationsPerDay \leq Len(ages)
      BY <1>1, <1>3, <1>4, <2>1
    <3>2. more[i] = ages[i] /\ ages[i] \geq Day /\ ages[i] \in Nat
      BY <1>3, <1>4, <1>6, <2>1, <3>1
    <3>3. more[i + CreationsPerDay] = 0
      BY <1>4, <3>1
    <3> QED
      BY <1>1, <3>2, <3>3
  <2>2. CASE i # Len(ages) + 1 - CreationsPerDay
    <3>1. /\ i \in 1 .. Len(ages) - CreationsPerDay
          /\ i \in 1 .. Len(ages) /\ i + CreationsPerDay \in 1 .. Len(ages)
      BY <1>1, <1>3, <1>4, <2>2
    <3>2. ages[i] - ages[i + CreationsPerDay] \geq Day
      BY <1>1, <3>1 DEF Spaced
    <3> QED
      BY <1>4, <3>1, <3>2
  <2> QED
    BY <2>1, <2>2
<1>9. \A b \in Account : created'[b] = IF b = a THEN more ELSE created[b]
  BY DEF UsageInv, more, ages
<1>10. created' \in [Account -> Seq(0 .. 2 * Day)]
  BY <1>4 DEF UsageInv, more, ages
<1> QED
  BY <1>7, <1>8, <1>9, <1>10 DEF UsageInv

\* Everything a unit older, and what is past two days gone.
LEMMA ElapseKeepsUsage ==
  ASSUME UsageInv, Elapse
  PROVE  UsageInv'
<1> SUFFICES ASSUME NEW a \in Account
             PROVE  /\ created'[a] \in Seq(0 .. 2 * Day)
                    /\ OldestFirst(created'[a]) /\ Spaced(created'[a])
  BY DEF UsageInv, Elapse
<1> DEFINE ages == created[a]
           older == [i \in DOMAIN ages |-> ages[i] + 1]
<1>1. /\ CreationsPerDay \in Nat \ {0} /\ Day \in Nat
      /\ ages \in Seq(0 .. 2 * Day)
      /\ OldestFirst(ages) /\ Spaced(ages)
  BY LifecycleAssumption DEF UsageInv
<1>2. /\ Len(ages) \in Nat /\ DOMAIN ages = 1 .. Len(ages)
      /\ \A i \in 1 .. Len(ages) : ages[i] \in Nat
  <2>1. \A i \in 1 .. Len(ages) : ages[i] \in 0 .. 2 * Day
    BY <1>1, ElementOfSeq
  <2> QED
    BY <1>1, <2>1, LenProperties
<1>3. created'[a] = Younger(older, 2 * Day + 1)
  BY DEF Elapse
<1> HIDE DEF ages
<1>4. older \in Seq(Nat) /\ Len(older) = Len(ages)
  BY <1>2
<1>5. \A i \in 1 .. Len(ages) : older[i] = ages[i] + 1
  BY <1>2
<1>6. DOMAIN older = 1 .. Len(ages)
  BY <1>2
<1> HIDE DEF older
<1>7. OldestFirst(older)
  BY <1>1, <1>2, <1>5, <1>6 DEF OldestFirst
<1>8. Spaced(older)
  <2> SUFFICES ASSUME NEW i \in 1 .. Len(older) - CreationsPerDay
               PROVE  older[i] - older[i + CreationsPerDay] \geq Day
    BY DEF Spaced
  <2>1. /\ i \in 1 .. Len(ages) /\ i + CreationsPerDay \in 1 .. Len(ages)
        /\ i \in 1 .. Len(ages) - CreationsPerDay
    BY <1>1, <1>2, <1>4
  <2>2. ages[i] - ages[i + CreationsPerDay] \geq Day
    BY <1>1, <2>1 DEF Spaced
  <2> QED
    BY <1>1, <1>2, <1>5, <2>1, <2>2
<1>9. PICK k \in 0 .. Len(older) :
          /\ Younger(older, 2 * Day + 1) = SubSeq(older, k + 1, Len(older))
          /\ \A i \in 1 .. Len(older) : older[i] \geq 2 * Day + 1 <=> i \leq k
  <2>1. 2 * Day + 1 \in Nat
    BY <1>1
  <2> QED
    BY <1>4, <1>7, <2>1, YoungerIsTheEnd
<1> DEFINE kept == SubSeq(older, k + 1, Len(older))
<1>10. /\ kept \in Seq(Nat) /\ Len(kept) = Len(older) - k
       /\ \A i \in 1 .. Len(older) - k : kept[i] = older[k + i]
       /\ OldestFirst(kept) /\ Spaced(kept)
  BY <1>4, <1>7, <1>8, EndKeepsUsage
<1>11. \A i \in k + 1 .. Len(older) : older[i] \in 0 .. 2 * Day
  <2> TAKE i \in k + 1 .. Len(older)
  <2>1. i \in 1 .. Len(older) /\ ~ (i \leq k)
    BY <1>2, <1>4
  <2>2. ~ (older[i] \geq 2 * Day + 1) /\ older[i] \in Nat
    BY <1>2, <1>4, <1>5, <1>9, <2>1
  <2> QED
    BY <1>1, <2>2
<1>12. kept \in Seq(0 .. 2 * Day)
  <2>1. k + 1 \in Int /\ Len(older) \in Int
    BY <1>2, <1>4
  <2> QED
    BY <1>11, <2>1, SubSeqProperties
<1> QED
  BY <1>3, <1>9, <1>10, <1>12 DEF kept

LEMMA NextUsage == Rows /\ UsageInv /\ [Next]_vars => UsageInv'
<1> SUFFICES ASSUME Rows, UsageInv, [Next]_vars PROVE UsageInv'
  OBVIOUS
<1>1. CASE \E a \in Hosts, p \in Project, q \in Quiz, limit \in 1 .. MaxParticipants :
              CreateQuiz(a, p, q, limit)
  <2> PICK a \in Hosts, p \in Project, q \in Quiz, limit \in 1 .. MaxParticipants :
              CreateQuiz(a, p, q, limit)
    BY <1>1
  <2> QED
    BY CreationKeepsUsage, LifecycleAssumption DEF CreateQuiz
<1>2. CASE Elapse
  BY <1>2, ElapseKeepsUsage
<1>3. CASE NewMonth
  BY <1>3, LifecycleAssumption DEF NewMonth, UsageInv
<1>4. CASE \E q \in Quiz : Start(q)
  <2> PICK q \in Quiz : Start(q)
    BY <1>4
  <2>1. /\ Host(q) \in Account /\ started[Host(q)] < HostedPerMonth
        /\ started' = [started EXCEPT ![Host(q)] = @ + 1] /\ created' = created
    BY DEF Start, Lockable, Rows
  <2>2. started' \in [Account -> 0 .. HostedPerMonth]
    BY <2>1, LifecycleAssumption DEF UsageInv
  <2> QED
    BY <2>1, <2>2 DEF UsageInv
<1>5. CASE \E a \in Account : DeleteAccount(a)
  <2> PICK a \in Account : DeleteAccount(a)
    BY <1>5
  <2>1. /\ <<>> \in Seq(0 .. 2 * Day) /\ Len(<<>>) = 0
        /\ OldestFirst(<<>>)
    BY DEF OldestFirst
  <2>2. Spaced(<<>>)
    BY <2>1, LifecycleAssumption DEF Spaced
  <2>3. \A b \in Account : created'[b] = IF b = a THEN <<>> ELSE created[b]
    BY DEF DeleteAccount, UsageInv
  <2>4. created' \in [Account -> Seq(0 .. 2 * Day)]
    BY <2>1 DEF DeleteAccount, UsageInv
  <2>5. started' \in [Account -> 0 .. HostedPerMonth]
    BY LifecycleAssumption DEF DeleteAccount, UsageInv
  <2> QED
    BY <2>1, <2>2, <2>3, <2>4, <2>5 DEF UsageInv
<1>6. CASE \/ \E a \in Hosts, p \in Project : CreateProject(a, p)
           \/ \E p \in Project : RemoveProject(p)
           \/ \E q \in Quiz, limit \in 1 .. MaxParticipants : Update(q, limit)
           \/ \E q \in Quiz : \/ AddQuestion(q) \/ RemoveQuestion(q) \/ RemoveQuiz(q)
                              \/ CheckPublish(q) \/ Publish(q)
                              \/ OpenLobby(q) \/ CloseLobby(q) \/ End(q)
           \/ \E q \in Quiz, u \in Account : Register(q, u) \/ Unregister(q, u)
           \/ \E a \in Account : CountDependents(a) \/ RollBackDeletion(a)
           \/ UNCHANGED vars
  <2>1. created' = created /\ started' = started
    BY <1>6 DEF CreateProject, RemoveProject, Update, AddQuestion, RemoveQuestion,
       RemoveQuiz, CheckPublish, Publish, OpenLobby, CloseLobby, End, Register,
       Unregister, CountDependents, RollBackDeletion, vars
  <2> QED
    BY <2>1 DEF UsageInv
<1>7. CASE \E a \in Hosts, p \in Project, q \in Quiz, limit \in 1 .. MaxParticipants :
              CreateQuiz(a, p, q, limit) \/ Update(q, limit)
  BY <1>7, <1>1, <1>6
<1>8. CASE \E q \in Quiz : \/ AddQuestion(q) \/ RemoveQuestion(q) \/ RemoveQuiz(q)
                           \/ CheckPublish(q) \/ Publish(q)
                           \/ OpenLobby(q) \/ CloseLobby(q) \/ Start(q) \/ End(q)
  BY <1>8, <1>4, <1>6
<1>9. CASE \E a \in Account : CountDependents(a) \/ DeleteAccount(a) \/ RollBackDeletion(a)
  BY <1>9, <1>5, <1>6
<1> QED
  BY Steps, <1>2, <1>3, <1>6, <1>7, <1>8, <1>9

LEMMA InitUsage == Init => UsageInv
<1> SUFFICES ASSUME Init PROVE UsageInv
  OBVIOUS
<1>1. <<>> \in Seq(0 .. 2 * Day) /\ Len(<<>>) = 0 /\ OldestFirst(<<>>)
  BY DEF OldestFirst
<1>2. Spaced(<<>>)
  BY <1>1, LifecycleAssumption DEF Spaced
<1> QED
  BY <1>1, <1>2, LifecycleAssumption DEF Init, UsageInv

\* No account creates more quizzes in any day, whenever it begins, or starts
\* more live quizzes in a month, than its allowance (requireAllowance,
\* QuizzesRepository.create, LiveSessionsRepository.start).
THEOREM AllowancesNeverExceeded == Spec => []AllowancesKept
<1>1. RoomInv => Rows
  BY DEF RoomInv
<1>2. UsageInv => AllowancesKept
  BY LifecycleAssumption DEF UsageInv, Spaced, AllowancesKept
<1> QED
  BY InitUsage, NextUsage, RoomsCorrect, <1>1, <1>2, PTL DEF Spec

-----------------------------------------------------------------------------
(* Type correctness.                                                         *)

Marks == checked \subseteq Quiz /\ raced \subseteq Quiz

LEMMA NextMarks == Marks /\ [Next]_vars => Marks'
  BY Steps DEF Marks, CreateProject, RemoveProject, CreateQuiz, Update, AddQuestion,
     RemoveQuestion, RemoveQuiz, CheckPublish, Publish, OpenLobby, CloseLobby,
     Start, End, Register, Unregister, CountDependents, DeleteAccount,
     RollBackDeletion, Elapse, NewMonth, Delete, vars

\* The variables keep their types, and the clean-up of usage events leaves
\* nothing older than two days (trimUsageEvents).
THEOREM TypesCorrect == Spec => []TypeOK
<1>1. Init => RoomInv /\ UsageInv /\ Marks
  BY InitRooms, InitUsage DEF Init, Marks
<1>2. RoomInv /\ UsageInv /\ Marks /\ [Next]_vars => (RoomInv /\ UsageInv /\ Marks)'
  BY NextRooms, NextUsage, NextMarks DEF RoomInv
<1>3. RoomInv /\ UsageInv /\ Marks => TypeOK
  <2> SUFFICES ASSUME RoomInv, UsageInv, Marks PROVE TypeOK
    OBVIOUS
  <2>1. started \in [Account -> Nat]
    BY LifecycleAssumption DEF UsageInv
  <2> QED
    BY <2>1 DEF RoomInv, Rows, UsageInv, Marks, TypeOK
<1> QED
  BY <1>1, <1>2, <1>3, PTL DEF Spec

-----------------------------------------------------------------------------
(* QuizLifecycle implements QuizStatus.                                      *)

\* Nobody is registered for a quiz that was not published, and all who are
\* registered have an account.
RegisteredInv ==
    \A q \in Quiz : /\ quiz[q].status \in {"none", "DRAFT"} => Registered(q) = {}
                    /\ Registered(q) \subseteq accounts

\* What a quiz's own part of a step of QuizStatus says in terms of the rows.
LEMMA LivesAs ==
  ASSUME NEW q \in Quiz
  PROVE  LET s == quiz[q].status
             Same == quiz'[q].status = s /\ Host(q)' = Host(q)
             Kept == Host(q)' = Host(q) /\ Registered(q)' = Registered(q)
         IN  /\ Same /\ Registered(q)' = Registered(q) => Life!Lives(q)
             /\ /\ s = "none" /\ quiz'[q].status = "DRAFT"
                /\ Host(q)' \in accounts /\ Registered(q)' = {}
                => Life!Lives(q)
             /\ \A t : /\ <<s, t>> \in {<<"DRAFT", "PUBLISHED">>, <<"PUBLISHED", "LOBBY">>,
                                        <<"LOBBY", "PUBLISHED">>, <<"LOBBY", "LIVE">>,
                                        <<"LOBBY", "COMPLETED">>, <<"LIVE", "COMPLETED">>}
                       /\ quiz'[q].status = t /\ Kept
                       => Life!Lives(q)
             /\ \A u \in accounts \ {Host(q)} :
                    /\ s \in {"PUBLISHED", "LOBBY"}
                    /\ Same /\ Registered(q)' = Registered(q) \cup {u}
                    => Life!Lives(q)
             /\ \A u \in Registered(q) :
                    /\ s \in {"PUBLISHED", "LOBBY"} \/ u \notin accounts'
                    /\ Same /\ Registered(q)' = Registered(q) \ {u}
                    => Life!Lives(q)
             /\ /\ s \in {"DRAFT", "PUBLISHED", "COMPLETED"}
                /\ s = "DRAFT" \/ Host(q) \notin accounts'
                /\ quiz'[q].status = "none" /\ Host(q)' = NoAccount /\ Registered(q)' = {}
                => Life!Lives(q)
<1> USE DEF Life!Lives
<1>1. quiz'[q].status = quiz[q].status /\ Host(q)' = Host(q) /\ Registered(q)' = Registered(q)
      => Life!Stays(q)
  BY DEF Life!Stays, Life!Listed
<1>2. /\ quiz[q].status = "none" /\ quiz'[q].status = "DRAFT"
      /\ Host(q)' \in accounts /\ Registered(q)' = {}
      => Life!Create(q)
  BY DEF Life!Create
<1>3. ASSUME NEW t, Host(q)' = Host(q), Registered(q)' = Registered(q), quiz'[q].status = t,
             <<quiz[q].status, t>> \in
                 {<<"DRAFT", "PUBLISHED">>, <<"PUBLISHED", "LOBBY">>,
                  <<"LOBBY", "PUBLISHED">>, <<"LOBBY", "LIVE">>,
                  <<"LOBBY", "COMPLETED">>, <<"LIVE", "COMPLETED">>}
      PROVE  Life!Lives(q)
  <2>1. Life!Becomes(q, t)
    BY <1>3 DEF Life!Becomes
  <2> QED
    BY <1>3, <2>1 DEF Life!Publish, Life!OpenLobby, Life!CloseLobby, Life!Start, Life!End
<1>4. ASSUME NEW u \in accounts \ {Host(q)}, quiz[q].status \in {"PUBLISHED", "LOBBY"},
             quiz'[q].status = quiz[q].status, Host(q)' = Host(q),
             Registered(q)' = Registered(q) \cup {u}
      PROVE  Life!Register(q)
  BY <1>4 DEF Life!Register, Life!Listed
<1>5. ASSUME NEW u \in Registered(q),
             quiz[q].status \in {"PUBLISHED", "LOBBY"} \/ u \notin accounts',
             quiz'[q].status = quiz[q].status, Host(q)' = Host(q),
             Registered(q)' = Registered(q) \ {u}
      PROVE  Life!Leave(q)
  BY <1>5 DEF Life!Leave, Life!Listed
<1>6. /\ quiz[q].status \in {"DRAFT", "PUBLISHED", "COMPLETED"}
      /\ quiz[q].status = "DRAFT" \/ Host(q) \notin accounts'
      /\ quiz'[q].status = "none" /\ Host(q)' = NoAccount /\ Registered(q)' = {}
      => Life!Delete(q) \/ Life!GoesWithHost(q)
  BY DEF Life!Delete, Life!GoesWithHost, Life!Goes, Life!GoesWithHost, Life!Goes
<1> QED
  BY <1>1, <1>2, <1>3, <1>4, <1>5, <1>6

\* Steps on the rows of accounts, allowances and publications only.
LEMMA LifeUntouched ==
  ASSUME UNCHANGED <<owner, quiz, registration>>, accounts' = accounts
  PROVE  Life!Next
<1>1. \A q \in Quiz : Host(q)' = Host(q) /\ Registered(q)' = Registered(q)
  BY DEF Host, Registered
<1>2. \A q \in Quiz : Life!Lives(q)
  BY <1>1, LivesAs
<1> QED
  BY <1>2 DEF Life!Next

\* What a deletion leaves of each quiz.
LEMMA DeletedRows ==
  ASSUME Rows, Placed, NEW gone \in SUBSET Quiz, NEW leaving, Delete(gone, leaving),
         \A q \in Quiz \ gone : quiz[q].status # "none" =>
             owner'[quiz[q].project] = owner[quiz[q].project]
  PROVE  \A q \in Quiz :
             IF q \in gone
             THEN /\ quiz'[q].status = "none" /\ Host(q)' = NoAccount
                  /\ Registered(q)' = {}
             ELSE /\ quiz'[q] = quiz[q] /\ Host(q)' = Host(q)
                  /\ Registered(q)' = Registered(q) \ leaving
<1> SUFFICES ASSUME NEW q \in Quiz
             PROVE  IF q \in gone
                    THEN /\ quiz'[q].status = "none" /\ Host(q)' = NoAccount
                         /\ Registered(q)' = {}
                    ELSE /\ quiz'[q] = quiz[q] /\ Host(q)' = Host(q)
                         /\ Registered(q)' = Registered(q) \ leaving
  OBVIOUS
<1>1. /\ quiz'[q] = IF q \in gone THEN NoQuiz ELSE quiz[q]
      /\ \A u \in Account : registration'[q][u] =
             IF q \in gone \/ u \in leaving THEN "none" ELSE registration[q][u]
  BY DEF Delete
<1>2. Registered(q)' = IF q \in gone THEN {} ELSE Registered(q) \ leaving
  BY <1>1 DEF Registered
<1>3. q \in gone => quiz'[q].status = "none" /\ Host(q)' = NoAccount
  BY <1>1 DEF NoQuiz, Host
<1>4. q \notin gone => quiz'[q] = quiz[q] /\ Host(q)' = Host(q)
  BY <1>1 DEF Placed, NoQuiz, Host
<1> QED
  BY <1>2, <1>3, <1>4

LEMMA NextLives ==
  ASSUME RoomInv, RegisteredInv, [Next]_vars
  PROVE  Life!Next \/ UNCHANGED Life!vars
<1>r. Rows /\ Rows' /\ Placed
  BY RowsKept DEF RoomInv
<1>1. CASE \E a \in Hosts, p \in Project : CreateProject(a, p)
  <2> PICK a \in Hosts, p \in Project : CreateProject(a, p)
    BY <1>1
  <2>1. \A q \in Quiz : /\ Host(q)' = Host(q) /\ Registered(q)' = Registered(q)
                        /\ quiz'[q].status = quiz[q].status
    BY <1>r, LifecycleAssumption
       DEF CreateProject, Rows, Placed, NoQuiz, Host, Registered
  <2>2. \A q \in Quiz : Life!Lives(q)
    BY <2>1, LivesAs
  <2> QED
    BY <2>2 DEF Life!Next, CreateProject
<1>2. CASE \E p \in Project : RemoveProject(p)
  <2> PICK p \in Project : RemoveProject(p)
    BY <1>2
  <2> DEFINE inside == {q \in Quiz : quiz[q].project = p}
  <2>1. /\ Delete(inside, {}) /\ accounts' = accounts
        /\ \A q \in inside : quiz[q].status = "DRAFT"
    BY DEF RemoveProject
  <2>2. \A q \in Quiz \ inside : quiz[q].status # "none" =>
            owner'[quiz[q].project] = owner[quiz[q].project]
    BY <1>r DEF RemoveProject, Rows, Placed
  <2>3. inside \in SUBSET Quiz
    OBVIOUS
  <2> HIDE DEF inside
  <2>4. \A q \in Quiz : Life!Lives(q)
    <3> SUFFICES ASSUME NEW q \in Quiz PROVE Life!Lives(q)
      OBVIOUS
    <3>1. IF q \in inside
          THEN quiz'[q].status = "none" /\ Host(q)' = NoAccount /\ Registered(q)' = {}
          ELSE quiz'[q] = quiz[q] /\ Host(q)' = Host(q) /\ Registered(q)' = Registered(q) \ {}
      BY <1>r, <2>1, <2>2, <2>3, DeletedRows
    <3> QED
      BY <2>1, <3>1, LivesAs
  <2> QED
    BY <2>1, <2>4 DEF Life!Next
<1>3. CASE \E a \in Hosts, p \in Project, q \in Quiz, limit \in 1 .. MaxParticipants :
              CreateQuiz(a, p, q, limit)
  <2> PICK a \in Hosts, p \in Project, q \in Quiz, limit \in 1 .. MaxParticipants :
              CreateQuiz(a, p, q, limit)
    BY <1>3
  <2>1. /\ quiz[q].status = "none" /\ quiz'[q].status = "DRAFT" /\ quiz'[q].project = p
        /\ owner' = owner /\ owner[p] = a /\ a \in accounts
        /\ accounts' = accounts /\ registration' = registration
        /\ \A r \in Quiz : r # q => quiz'[r] = quiz[r]
    BY <1>r DEF CreateQuiz, Rows, Lockable
  <2>2. Host(q)' = a /\ Registered(q)' = {}
    BY <2>1, LifecycleAssumption DEF Host, Registered, RegisteredInv
  <2>3. \A r \in Quiz : r # q => Host(r)' = Host(r) /\ Registered(r)' = Registered(r)
    BY <2>1 DEF Host, Registered
  <2>4. \A r \in Quiz : Life!Lives(r)
    BY <2>1, <2>2, <2>3, LivesAs
  <2> QED
    BY <2>1, <2>4 DEF Life!Next
<1>4. CASE \E q \in Quiz, limit \in 1 .. MaxParticipants :
              Update(q, limit) \/ AddQuestion(q) \/ RemoveQuestion(q)
  <2> PICK q \in Quiz, limit \in 1 .. MaxParticipants :
              Update(q, limit) \/ AddQuestion(q) \/ RemoveQuestion(q)
    BY <1>4
  <2>0. /\ UNCHANGED <<accounts, owner, registration>>
        /\ \E v : \/ quiz' = [quiz EXCEPT ![q].limit = v]
                 \/ quiz' = [quiz EXCEPT ![q].questions = v]
    BY DEF Update, AddQuestion, RemoveQuestion
  <2>1. \A r \in Quiz : /\ quiz'[r].status = quiz[r].status
                        /\ quiz'[r].project = quiz[r].project
    BY <1>r, <2>0 DEF Rows, QuizRow
  <2>2. \A r \in Quiz : Host(r)' = Host(r) /\ Registered(r)' = Registered(r)
    BY <2>0, <2>1 DEF Host, Registered
  <2>3. \A r \in Quiz : Life!Lives(r)
    BY <2>1, <2>2, LivesAs
  <2> QED
    BY <2>0, <2>3 DEF Life!Next
<1>5. CASE \E q \in Quiz : RemoveQuiz(q)
  <2> PICK q \in Quiz : RemoveQuiz(q)
    BY <1>5
  <2>1. \A r \in Quiz : Life!Lives(r)
    <3> SUFFICES ASSUME NEW r \in Quiz PROVE Life!Lives(r)
      OBVIOUS
    <3>1. IF r \in {q}
          THEN quiz'[r].status = "none" /\ Host(r)' = NoAccount /\ Registered(r)' = {}
          ELSE quiz'[r] = quiz[r] /\ Host(r)' = Host(r) /\ Registered(r)' = Registered(r) \ {}
      <4>1. Delete({q}, {}) /\ owner' = owner
        BY DEF RemoveQuiz
      <4>2. \A o \in Quiz \ {q} : quiz[o].status # "none" =>
                owner'[quiz[o].project] = owner[quiz[o].project]
        BY <4>1
      <4>3. {q} \in SUBSET Quiz
        OBVIOUS
      <4> QED
        BY <1>r, <4>1, <4>2, <4>3, DeletedRows
    <3> QED
      BY <3>1, LivesAs DEF RemoveQuiz
  <2> QED
    BY <2>1 DEF Life!Next, RemoveQuiz
<1>6. CASE \E q \in Quiz : \/ CheckPublish(q) \/ Publish(q)
                           \/ OpenLobby(q) \/ CloseLobby(q) \/ Start(q) \/ End(q)
  <2> PICK q \in Quiz : \/ CheckPublish(q) \/ Publish(q)
                        \/ OpenLobby(q) \/ CloseLobby(q) \/ Start(q) \/ End(q)
    BY <1>6
  <2>1. UNCHANGED <<accounts, owner, registration>>
    BY DEF CheckPublish, Publish, OpenLobby, CloseLobby, Start, End
  <2>2. CASE quiz' = quiz
    BY <2>1, <2>2, LifeUntouched
  <2>3. CASE quiz' # quiz
    <3>1. \E t \in Statuses :
              /\ quiz' = [quiz EXCEPT ![q].status = t]
              /\ <<quiz[q].status, t>> \in
                    {<<"DRAFT", "PUBLISHED">>, <<"PUBLISHED", "LOBBY">>,
                     <<"LOBBY", "PUBLISHED">>, <<"LOBBY", "LIVE">>,
                     <<"LOBBY", "COMPLETED">>, <<"LIVE", "COMPLETED">>}
      BY <2>3 DEF CheckPublish, Publish, OpenLobby, CloseLobby, Start, End, Running,
         RoomInv, StatusMatchesSession, Statuses, Unfinished
    <3>2. PICK t \in Statuses :
              /\ quiz' = [quiz EXCEPT ![q].status = t]
              /\ <<quiz[q].status, t>> \in
                    {<<"DRAFT", "PUBLISHED">>, <<"PUBLISHED", "LOBBY">>,
                     <<"LOBBY", "PUBLISHED">>, <<"LOBBY", "LIVE">>,
                     <<"LOBBY", "COMPLETED">>, <<"LIVE", "COMPLETED">>}
      BY <3>1
    <3>3. /\ quiz'[q].status = t
          /\ \A r \in Quiz : quiz'[r].project = quiz[r].project
          /\ \A r \in Quiz : r # q => quiz'[r] = quiz[r]
      BY <1>r, <3>2 DEF Rows, QuizRow
    <3>4. \A r \in Quiz : Host(r)' = Host(r) /\ Registered(r)' = Registered(r)
      BY <2>1, <3>3 DEF Host, Registered
    <3>5. Life!Lives(q)
      BY <3>2, <3>3, <3>4, LivesAs
    <3>6. \A r \in Quiz : Life!Lives(r)
      BY <3>3, <3>4, <3>5, LivesAs
    <3> QED
      BY <2>1, <3>6 DEF Life!Next
  <2> QED
    BY <2>2, <2>3
<1>7. CASE \E q \in Quiz, u \in Account : Register(q, u) \/ Unregister(q, u)
  <2> PICK q \in Quiz, u \in Account : Register(q, u) \/ Unregister(q, u)
    BY <1>7
  <2>1. UNCHANGED <<accounts, owner, quiz>>
    BY DEF Register, Unregister
  <2>2. \A r \in Quiz : /\ Host(r)' = Host(r)
                        /\ r # q => Registered(r)' = Registered(r)
    BY <1>r, <2>1 DEF Host, Registered, Register, Unregister, Rows
  <2>3. CASE Register(q, u)
    <3>1. /\ Registered(q)' = Registered(q) \cup {u} /\ u \in accounts \ {Host(q)}
          /\ quiz[q].status \in {"PUBLISHED", "LOBBY"}
      BY <1>r, <2>3 DEF Register, Rows, Registered
    <3> QED
      BY <2>1, <2>2, <3>1, LivesAs DEF Life!Next
  <2>4. CASE Unregister(q, u)
    <3>1. Registered(q)' = Registered(q) \ {u} /\ u \in Registered(q)
      BY <1>r, <2>4 DEF Unregister, Rows, Registered
    <3>2. quiz[q].status \in {"PUBLISHED", "LOBBY"}
      BY <1>r, <2>4, <3>1
         DEF Unregister, RegisteredInv, Rows, QuizRow, Statuses, Unfinished
    <3> QED
      BY <2>1, <2>2, <3>1, <3>2, LivesAs DEF Life!Next
  <2> QED
    BY <2>3, <2>4
<1>8. CASE \E a \in Account : DeleteAccount(a)
  <2> PICK a \in Account : DeleteAccount(a)
    BY <1>8
  <2>1. /\ Delete(QuizzesOf(a), {a}) /\ accounts' = accounts \ {a} /\ a \in counted
        /\ QuizzesOf(a) \in SUBSET Quiz
    BY DEF DeleteAccount, QuizzesOf
  <2>2. \A q \in Quiz \ QuizzesOf(a) : quiz[q].status # "none" =>
            owner'[quiz[q].project] = owner[quiz[q].project]
    BY <1>r, HostIsOwner DEF DeleteAccount, Rows, Placed, QuizzesOf
  <2>3. \A q \in Quiz : Life!Lives(q)
    <3> SUFFICES ASSUME NEW q \in Quiz PROVE Life!Lives(q)
      OBVIOUS
    <3>1. IF q \in QuizzesOf(a)
          THEN quiz'[q].status = "none" /\ Host(q)' = NoAccount /\ Registered(q)' = {}
          ELSE quiz'[q] = quiz[q] /\ Host(q)' = Host(q) /\ Registered(q)' = Registered(q) \ {a}
      BY <1>r, <2>1, <2>2, DeletedRows
    <3>2. CASE q \in QuizzesOf(a)
      <4>1. Host(q) = a /\ a \notin accounts'
        BY <2>1, <3>2 DEF QuizzesOf
      <4>2. quiz[q].status # "none"
        BY <1>r, <3>2, HostIsOwner, LifecycleAssumption DEF QuizzesOf
      <4>3. quiz[q].status \notin {"LOBBY", "LIVE"}
        BY <2>1, <3>2 DEF RoomInv, CountedIdle, StatusMatchesSession, Running
      <4>4. quiz[q].status \in {"DRAFT", "PUBLISHED", "COMPLETED"}
        BY <1>r, <4>2, <4>3 DEF Rows, QuizRow, Statuses, Unfinished
      <4> QED
        BY <3>1, <3>2, <4>1, <4>4, LivesAs
    <3>3. CASE q \notin QuizzesOf(a) /\ a \in Registered(q)
      BY <2>1, <3>1, <3>3, LivesAs
    <3>4. CASE q \notin QuizzesOf(a) /\ a \notin Registered(q)
      <4>1. Registered(q)' = Registered(q)
        BY <3>1, <3>4
      <4> QED
        BY <3>1, <3>4, <4>1, LivesAs
    <3> QED
      BY <3>2, <3>3, <3>4
  <2> QED
    BY <2>1, <2>3 DEF Life!Next
<1>9. CASE \/ \E a \in Account : CountDependents(a) \/ RollBackDeletion(a)
           \/ Elapse \/ NewMonth \/ UNCHANGED vars
  <2>1. UNCHANGED <<owner, quiz, registration>> /\ accounts' = accounts
    BY <1>9 DEF CountDependents, RollBackDeletion, Elapse, NewMonth, vars
  <2> QED
    BY <2>1, LifeUntouched
<1>10. CASE \E a \in Hosts, p \in Project, q \in Quiz, limit \in 1 .. MaxParticipants :
                CreateQuiz(a, p, q, limit) \/ Update(q, limit)
  BY <1>10, <1>3, <1>4
<1>11. CASE \E q \in Quiz : \/ AddQuestion(q) \/ RemoveQuestion(q) \/ RemoveQuiz(q)
                            \/ CheckPublish(q) \/ Publish(q)
                            \/ OpenLobby(q) \/ CloseLobby(q) \/ Start(q) \/ End(q)
  <2>1. 1 \in 1 .. MaxParticipants
    BY LifecycleAssumption
  <2> QED
    BY <2>1, <1>11, <1>4, <1>5, <1>6
<1>12. CASE \E a \in Account : CountDependents(a) \/ DeleteAccount(a) \/ RollBackDeletion(a)
  BY <1>12, <1>8, <1>9
<1> QED
  BY Steps, <1>1, <1>2, <1>7, <1>9, <1>10, <1>11, <1>12

\* A step of QuizStatus keeps what it says about those who take part.
LEMMA NextRegistered ==
  ASSUME RoomInv, RegisteredInv, [Next]_vars
  PROVE  RegisteredInv'
<1>1. Life!Next \/ UNCHANGED Life!vars
  BY NextLives
<1> SUFFICES ASSUME NEW q \in Quiz
             PROVE  /\ quiz'[q].status \in {"none", "DRAFT"} => Registered(q)' = {}
                    /\ Registered(q)' \subseteq accounts'
  BY DEF RegisteredInv
<1>r. Rows /\ Rows'
  BY RowsKept DEF RoomInv
<1>2. /\ quiz[q].status \in {"none", "DRAFT"} => Registered(q) = {}
      /\ Registered(q) \subseteq accounts
  BY DEF RegisteredInv
<1>3. Life!Lives(q)
  BY <1>1, LivesAs DEF Life!Next, Life!vars
<1>4. quiz'[q].status \in {"none", "DRAFT"} => Registered(q)' = {}
  BY <1>2, <1>3 DEF Life!Lives, Life!Stays, Life!Create, Life!Publish, Life!OpenLobby,
     Life!CloseLobby, Life!Start, Life!End, Life!Register, Life!Leave, Life!Delete, Life!GoesWithHost, Life!Goes,
     Life!Listed, Life!Becomes
<1>5. Registered(q)' \subseteq accounts'
  <2>1. CASE accounts' = accounts
    BY <1>2, <1>3, <2>1 DEF Life!Lives, Life!Stays, Life!Create, Life!Publish,
       Life!OpenLobby, Life!CloseLobby, Life!Start, Life!End, Life!Register,
       Life!Leave, Life!Delete, Life!GoesWithHost, Life!Goes, Life!Listed, Life!Becomes
  <2>2. CASE accounts' # accounts
    <3>1. PICK a \in Account : DeleteAccount(a)
      BY <2>2, Steps
         DEF CreateProject, RemoveProject, CreateQuiz, Update, AddQuestion,
             RemoveQuestion, RemoveQuiz, CheckPublish, Publish, OpenLobby,
             CloseLobby, Start, End, Register, Unregister, CountDependents,
             RollBackDeletion, Elapse, NewMonth, vars
    <3>2. accounts' = accounts \ {a} /\ Registered(q)' \subseteq Registered(q) \ {a}
      <4>1. accounts' = accounts \ {a} /\ Delete(QuizzesOf(a), {a})
        BY <3>1 DEF DeleteAccount
      <4>2. \A u \in Account : registration'[q][u] =
                IF q \in QuizzesOf(a) \/ u \in {a} THEN "none" ELSE registration[q][u]
        BY <4>1 DEF Delete
      <4> QED
        BY <4>1, <4>2 DEF Registered
    <3> QED
      BY <1>2, <3>2
  <2> QED
    BY <2>1, <2>2
<1> QED
  BY <1>4, <1>5

\* Every quiz keeps the promises of QuizStatus, whatever hosts, participants
\* and deletions of accounts do in whatever order.
THEOREM QuizzesFollowStatus == Spec => FollowsQuizStatus
<1>1. Init => RoomInv /\ RegisteredInv /\ Life!Init
  <2> SUFFICES ASSUME Init PROVE RoomInv /\ RegisteredInv /\ Life!Init
    OBVIOUS
  <2>1. \A q \in Quiz : /\ quiz[q].status = "none" /\ Host(q) = NoAccount
                        /\ Registered(q) = {}
    BY DEF Init, NoQuiz, Host, Registered
  <2> QED
    BY <2>1, InitRooms DEF Init, RegisteredInv, Life!Init
<1>2. RoomInv /\ RegisteredInv /\ [Next]_vars =>
          /\ (RoomInv /\ RegisteredInv)'
          /\ [Life!Next]_(Life!vars)
  BY NextRooms, NextRegistered, NextLives
<1> QED
  BY <1>1, <1>2, PTL DEF Spec, FollowsQuizStatus, Life!Spec

=============================================================================
