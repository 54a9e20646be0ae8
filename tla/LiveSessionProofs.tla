------------------------- MODULE LiveSessionProofs -------------------------
(***************************************************************************)
(* Theorems about LiveSession, for any questions, participants, durations,  *)
(* retries, failures and crashes.                                           *)
(***************************************************************************)
EXTENDS LiveSession, TLAPS

-----------------------------------------------------------------------------
(* Type correctness.                                                         *)

LEMMA TypeInit == Init => TypeOK
<1> SUFFICES ASSUME Init PROVE TypeOK
  OBVIOUS
<1> USE NumberAssumption DEF Init
<1>1. state \in SessionStates
  BY DEF SessionStates
<1>2. /\ status \in [Question -> {"UNASKED", "ACTIVE", "COMPLETED"}]
      /\ endsAt \in [Question -> 0..Horizon]
      /\ announced \in [Question -> Nat]
  OBVIOUS
<1>3. answers \in [Participant -> [Question -> Stamp]]
  BY DEF Stamp
<1>4. results \in [Participant -> [Question -> Stamp] \cup {NoResult}]
  BY Zenon
<1>5. /\ participation \in SUBSET Participant
      /\ unarmed \in SUBSET Question
      /\ admitted \in SUBSET Participant
  OBVIOUS
<1>6. up \in BOOLEAN /\ forgetDue \in BOOLEAN
  BY Zenon
<1>11. now \in 0..Horizon /\ failures \in Nat /\ crashes \in Nat
  OBVIOUS
<1>7. NoTimer \in [question : QuestionOrNone, at : Nat, attempt : 0..MaxRetries]
  BY DEF NoTimer, QuestionOrNone
<1>8. IdleCloser \in
        [pc : {"idle", "reading", "finalizing", "announcing", "finishing"},
         owner : QuestionOrNone, attempt : 0..MaxRetries,
         question : QuestionOrNone]
  BY DEF IdleCloser, CloserAt, QuestionOrNone
<1>9. NoReceipt \in [question : QuestionOrNone, at : 0..Horizon]
  BY DEF NoReceipt, QuestionOrNone
<1>10. QED
  BY <1>1, <1>2, <1>3, <1>4, <1>5, <1>6, <1>7, <1>8, <1>9, <1>11
  DEF TypeOK

LEMMA TypeStep == TypeOK /\ [Next]_vars => TypeOK'
<1> SUFFICES ASSUME TypeOK, [Next]_vars PROVE TypeOK'
  OBVIOUS
<1> USE QuestionAssumption, NumberAssumption
    DEF TypeOK, dbVars, callVars, envVars, NoAnswer, Stamp, QuestionOrNone
<1> DEFINE TimerType ==
        [question : QuestionOrNone, at : Nat, attempt : 0..MaxRetries]
           CloserType ==
        [pc : {"idle", "reading", "finalizing", "announcing", "finishing"},
         owner : QuestionOrNone, attempt : 0..MaxRetries,
         question : QuestionOrNone]
<1>n. NoTimer \in TimerType
  BY DEF NoTimer
<1>i. IdleCloser \in CloserType
  BY DEF IdleCloser, CloserAt
<1>r. NoReceipt \in [question : QuestionOrNone, at : 0..Horizon]
  BY DEF NoReceipt
<1>1. CASE HostStep
  <2>1. CASE Start \/ ShowLeaderboard \/ HideLeaderboard
    BY <2>1 DEF Start, ShowLeaderboard, HideLeaderboard, SessionStates
  <2>2. ASSUME NEW q \in Question, StartQuestion(q)
        PROVE  TypeOK'
    BY <2>2 DEF StartQuestion, SessionStates
  <2>3. CASE End
    BY <2>3 DEF End, FinalRows, Asked, SessionStates
  <2>4. QED
    BY <1>1, <2>1, <2>2, <2>3 DEF HostStep
<1>2. CASE ParticipantStep
  <2>1. ASSUME NEW p \in Participant, JoinAdmitted(p) \/ RecordJoin(p)
        PROVE  TypeOK'
    BY <2>1 DEF JoinAdmitted, RecordJoin
  <2>2. ASSUME NEW p \in Participant, NEW q \in Question, SubmitReceived(p, q)
        PROVE  TypeOK'
    BY <2>2 DEF SubmitReceived
  <2>3. ASSUME NEW p \in Participant, SubmitStored(p)
        PROVE  TypeOK'
    <3>1. receipt' \in [Participant -> [question : QuestionOrNone, at : 0..Horizon]]
      BY <2>3, <1>r DEF SubmitStored
    <3>2. answers' \in [Participant -> [Question -> Stamp]]
      BY <2>3 DEF SubmitStored
    <3>3. QED
      BY <2>3, <3>1, <3>2 DEF SubmitStored
  <2>5. ASSUME NEW p \in Participant, SubmitRefused(p)
        PROVE  TypeOK'
    BY <2>5, <1>r DEF SubmitRefused
  <2>4. QED
    BY <1>2, <2>1, <2>2, <2>3, <2>5 DEF ParticipantStep
<1>3. ASSUME NEW q \in Question, ScheduleAsked(q) \/ StartReplyLost(q)
      PROVE  TypeOK'
  BY <1>3 DEF ScheduleAsked, StartReplyLost, Scheduled
<1>4. CASE Forget
  BY <1>4, <1>n DEF Forget
<1>5. ASSUME NEW c \in Closer, TimerFires(c)
      PROVE  TypeOK'
  <2>1. CloserAt("reading", timer.question, timer.attempt) \in CloserType
    BY DEF CloserAt
  <2>2. closer' \in [Closer -> CloserType]
    BY <1>5, <2>1 DEF TimerFires
  <2>3. QED
    BY <1>5, <1>n, <2>2 DEF TimerFires
<1>14. ASSUME NEW c \in Closer, InteractionCloses(c)
      PROVE  TypeOK'
  <2>1. CloserAt("reading", NoQuestion, 0) \in CloserType
    BY DEF CloserAt
  <2>2. closer' \in [Closer -> CloserType]
    BY <1>14, <2>1 DEF InteractionCloses
  <2>3. QED
    BY <1>14, <2>2 DEF InteractionCloses
<1>6. ASSUME NEW c \in Closer, ReadExpired(c) \/ ReadNotExpired(c)
      PROVE  TypeOK'
  <2>1. closer[c] \in CloserType
    OBVIOUS
  <2>2. ASSUME NEW q \in Question
        PROVE  [closer[c] EXCEPT !.pc = "finalizing", !.question = q]
                    \in CloserType
    BY <2>1
  <2>3. closer' \in [Closer -> CloserType]
    <3>1. CASE ReadExpired(c)
      <4>1. PICK q \in Question :
                closer' = [closer EXCEPT ![c] =
                    [closer[c] EXCEPT !.pc = "finalizing", !.question = q]]
        BY <3>1 DEF ReadExpired, Open
      <4>2. QED
        BY <2>2, <4>1
    <3>2. CASE ReadNotExpired(c)
      BY <1>i, <3>2 DEF ReadNotExpired
    <3>3. QED
      BY <1>6, <3>1, <3>2
  <2>4. QED
    BY <1>6, <2>3 DEF ReadExpired, ReadNotExpired
<1>7. ASSUME NEW c \in Closer, FinalizeCommits(c)
      PROVE  TypeOK'
  <2>1. closer[c] \in CloserType
    OBVIOUS
  <2>2. closer' \in [Closer -> CloserType]
    BY <1>7, <2>1 DEF FinalizeCommits
  <2>3. QED
    BY <1>7, <2>2 DEF FinalizeCommits, FinalizeRows, SessionStates
<1>15. ASSUME NEW c \in Closer, FinishClose(c)
       PROVE  TypeOK'
  <2>1. closer' \in [Closer -> CloserType]
    BY <1>15, <1>i DEF FinishClose
  <2>2. timer' \in TimerType
    BY <1>15, <1>n DEF FinishClose, ClearTimer
  <2>3. announced' \in [Question -> Nat]
    <3>1. ASSUME NEW q \in Question
          PROVE  [announced EXCEPT ![q] = @ + 1] \in [Question -> Nat]
      OBVIOUS
    <3>2. closer[c].question \in Question \/ closer[c].question = NoQuestion
      OBVIOUS
    <3>3. [announced EXCEPT ![NoQuestion] = @ + 1] = announced
      OBVIOUS
    <3>4. QED
      BY <1>15, <3>1, <3>2, <3>3 DEF FinishClose
  <2>4. timer'.question = NoQuestion => timer' = NoTimer
    BY <1>15 DEF FinishClose, ClearTimer
  <2>5. QED
    BY <1>15, <2>1, <2>2, <2>3, <2>4 DEF FinishClose
<1>8. ASSUME NEW c \in Closer, CloseFails(c) \/ CloseReplyLost(c)
      PROVE  TypeOK'
  <2>1. RetryTimer(c) \in TimerType
    BY <1>8 DEF RetryTimer, Scheduled
  <2>2. closer' \in [Closer -> CloserType]
    BY <1>8, <1>i DEF CloseFails, CloseReplyLost
  <2>3. RetryTimer(c).question = NoQuestion => RetryTimer(c) = NoTimer
    BY <1>8 DEF RetryTimer, Scheduled
  <2>4. QED
    BY <1>8, <2>1, <2>2, <2>3
       DEF CloseFails, CloseReplyLost, FinalizeRows, SessionStates
<1>9. CASE Crash
  <2>1. closer' \in [Closer -> CloserType]
    BY <1>9, <1>i DEF Crash
  <2>2. receipt' \in [Participant -> [question : QuestionOrNone, at : 0..Horizon]]
    BY <1>9, <1>r DEF Crash
  <2>3. timer' \in TimerType
    BY <1>9, <1>n DEF Crash
  <2>4. up' \in BOOLEAN /\ forgetDue' \in BOOLEAN
    BY <1>9, Zenon DEF Crash
  <2>5. unarmed' \in SUBSET Question /\ admitted' \in SUBSET Participant
    BY <1>9 DEF Crash
  <2>6. QED
    BY <1>9, <2>1, <2>2, <2>3, <2>4, <2>5 DEF Crash
<1>10. CASE Restart
  BY <1>10 DEF Restart, Open, Scheduled
<1>11. CASE Tick
  BY <1>11 DEF Tick
<1>12. CASE UNCHANGED vars
  BY <1>12 DEF vars
<1>13. QED
  BY <1>1, <1>2, <1>3, <1>4, <1>5, <1>6, <1>7, <1>8, <1>9, <1>10, <1>11, <1>12,
     <1>14, <1>15
     DEF Next, CloseStep, FailureStep

\* Every reachable state is well typed; in particular no timer or call retries
\* closing a question more than MaxRetries times.
THEOREM TypeCorrect == Spec => []TypeOK
  BY TypeInit, TypeStep, PTL DEF Spec

-----------------------------------------------------------------------------
(* What a step may change, by the variables a property looks at.             *)

\* Each variable below changes only in the actions named.
LEMMA RowChanges ==
    ASSUME [Next]_vars
    PROVE  \/ UNCHANGED <<state, status, endsAt, results>>
           \/ Start \/ ShowLeaderboard \/ HideLeaderboard \/ End
           \/ \E q \in Question : StartQuestion(q)
           \/ \E c \in Closer :
                /\ closer[c].pc = "finalizing"
                /\ FinalizeRows(closer[c].question)
                /\ UNCHANGED <<endsAt, answers, participation, results>>
BY DEF Next, vars, dbVars, HostStep, ParticipantStep, CloseStep, FailureStep,
       JoinAdmitted, RecordJoin, SubmitReceived, SubmitStored, SubmitRefused,
       ScheduleAsked, StartReplyLost, Forget, TimerFires, InteractionCloses,
       ReadExpired, ReadNotExpired, FinalizeCommits, FinishClose, CloseFails,
       CloseReplyLost, Crash, Restart, Tick

LEMMA AnswerChanges ==
    ASSUME [Next]_vars
    PROVE  UNCHANGED answers \/ \E p \in Participant : SubmitStored(p)
BY DEF Next, vars, dbVars, HostStep, ParticipantStep, CloseStep, FailureStep,
       Start, StartQuestion, ShowLeaderboard, HideLeaderboard, End,
       JoinAdmitted, RecordJoin, SubmitReceived, SubmitRefused,
       ScheduleAsked, StartReplyLost, Forget, TimerFires, InteractionCloses,
       ReadExpired, ReadNotExpired, FinalizeCommits, FinishClose, CloseFails,
       CloseReplyLost, Crash, Restart, Tick

LEMMA ReceiptChanges ==
    ASSUME [Next]_vars
    PROVE  \/ UNCHANGED receipt
           \/ receipt' = [p \in Participant |-> NoReceipt]
           \/ \E p \in Participant : receipt' = [receipt EXCEPT ![p] = NoReceipt]
           \/ \E p \in Participant, q \in Question : SubmitReceived(p, q)
BY DEF Next, vars, dbVars, callVars, HostStep, ParticipantStep, CloseStep,
       FailureStep, Start, StartQuestion, ShowLeaderboard, HideLeaderboard, End,
       JoinAdmitted, RecordJoin, SubmitStored, SubmitRefused,
       ScheduleAsked, StartReplyLost, Forget, TimerFires, InteractionCloses,
       ReadExpired, ReadNotExpired, FinalizeCommits, FinishClose, CloseFails,
       CloseReplyLost, Crash, Restart, Tick

LEMMA EntryChanges ==
    ASSUME [Next]_vars
    PROVE  UNCHANGED participation \/ \E p \in Participant : RecordJoin(p)
BY DEF Next, vars, dbVars, HostStep, ParticipantStep, CloseStep,
       FailureStep, Start, StartQuestion, ShowLeaderboard, HideLeaderboard, End,
       JoinAdmitted, SubmitReceived, SubmitStored, SubmitRefused,
       ScheduleAsked, StartReplyLost, Forget, TimerFires, InteractionCloses,
       ReadExpired, ReadNotExpired, FinalizeCommits, FinishClose, CloseFails,
       CloseReplyLost, Crash, Restart, Tick

LEMMA ClockChanges ==
    ASSUME [Next]_vars
    PROVE  UNCHANGED now \/ Tick
BY DEF Next, vars, envVars, HostStep, ParticipantStep, CloseStep,
       FailureStep, Start, StartQuestion, ShowLeaderboard, HideLeaderboard, End,
       JoinAdmitted, RecordJoin, SubmitReceived, SubmitStored, SubmitRefused,
       ScheduleAsked, StartReplyLost, Forget, TimerFires, InteractionCloses,
       ReadExpired, ReadNotExpired, FinalizeCommits, FinishClose, CloseFails,
       CloseReplyLost, Crash, Restart

LEMMA CloserChanges ==
    ASSUME [Next]_vars
    PROVE  \/ UNCHANGED closer
           \/ closer' = [c \in Closer |-> IdleCloser]
           \/ \E c \in Closer :
                \/ closer' = [closer EXCEPT ![c] = IdleCloser]
                \/ TimerFires(c)
                \/ InteractionCloses(c)
                \/ ReadExpired(c)
                \/ FinalizeCommits(c)
BY DEF Next, vars, dbVars, callVars, HostStep, ParticipantStep, CloseStep,
       FailureStep, Start, StartQuestion, ShowLeaderboard, HideLeaderboard, End,
       JoinAdmitted, RecordJoin, SubmitReceived, SubmitStored, SubmitRefused,
       ScheduleAsked, StartReplyLost, Forget, ReadNotExpired, FinishClose,
       CloseFails, CloseReplyLost, Crash, Restart, Tick

\* Nothing is asked twice or given another deadline, nobody's attendance is
\* lost, and the clock does not go back.
LEMMA Growth ==
    ASSUME TypeOK, [Next]_vars
    PROVE  /\ \A q \in Question : status[q] # "UNASKED" =>
                    status'[q] # "UNASKED" /\ endsAt'[q] = endsAt[q]
           /\ participation \subseteq participation'
           /\ now <= now'
<1>1. ASSUME NEW q \in Question, status[q] # "UNASKED"
      PROVE  status'[q] # "UNASKED" /\ endsAt'[q] = endsAt[q]
  <2>1. CASE UNCHANGED <<status, endsAt>>
    BY <1>1, <2>1
  <2>2. CASE End
    BY <1>1, <2>2 DEF End, TypeOK
  <2>3. ASSUME NEW r \in Question, StartQuestion(r)
        PROVE  status'[q] # "UNASKED" /\ endsAt'[q] = endsAt[q]
    BY <1>1, <2>3 DEF StartQuestion, TypeOK
  <2>4. ASSUME NEW r, FinalizeRows(r), UNCHANGED endsAt
        PROVE  status'[q] # "UNASKED" /\ endsAt'[q] = endsAt[q]
    BY <1>1, <2>4 DEF FinalizeRows, TypeOK
  <2>5. QED
    BY <2>1, <2>2, <2>3, <2>4, RowChanges
       DEF Start, ShowLeaderboard, HideLeaderboard
<1>2. now <= now'
  BY ClockChanges, NumberAssumption DEF Tick, TypeOK
<1>3. participation \subseteq participation'
  BY EntryChanges DEF RecordJoin
<1>4. QED
  BY <1>1, <1>2, <1>3


-----------------------------------------------------------------------------
(* The inductive invariant.  The properties of the database rows are not     *)
(* inductive alone: a call that found a question overdue, or took an answer  *)
(* in, acts on it steps later, so what such a call knows has to be carried   *)
(* along.                                                                    *)

\* A call that found an overdue question and has not returned.
Found(c) == closer[c].pc \in {"finalizing", "announcing", "finishing"}

\* A question is asked Duration before its deadline; a call closing one found
\* it past its deadline.
ClosersOverdue ==
    /\ \A q \in Asked : endsAt[q] - Duration <= now
    /\ \A c \in Closer :
        Found(c) => /\ closer[c].question \in Asked
                    /\ endsAt[closer[c].question] <= now

\* A submit call between receipt and insert is of someone who entered, for a
\* question that was running at its receipt.
ReceiptsInTime ==
    \A p \in Participant :
        receipt[p].question # NoQuestion =>
            /\ p \in participation
            /\ receipt[p].question \in Asked
            /\ endsAt[receipt[p].question] - Duration <= receipt[p].at
            /\ receipt[p].at < endsAt[receipt[p].question]

\* Only those who entered have answers.
AnswersOfEntered ==
    \A p \in Participant, q \in Question :
        answers[p][q] # NoAnswer => p \in participation

\* Results are saved by end and by nothing else.
NoResultsBefore ==
    state # "COMPLETED" => \A p \in Participant : results[p] = NoResult

IInv ==
    /\ TypeOK
    /\ ClosersOverdue
    /\ ReceiptsInTime
    /\ StateMatchesQuestions
    /\ AnswersInTime
    /\ AnswersOfEntered
    /\ NoResultsBefore
    /\ ResultsMatchAnswers

LEMMA InvInit == Init => IInv
<1> SUFFICES ASSUME Init PROVE IInv
  OBVIOUS
<1>1. TypeOK
  BY TypeInit
<1>2. ClosersOverdue
  BY DEF ClosersOverdue, Found, Init, Asked, IdleCloser, CloserAt
<1>3. ReceiptsInTime
  BY DEF ReceiptsInTime, Init, NoReceipt
<1>4. StateMatchesQuestions
  BY DEF StateMatchesQuestions, Init, Open, Asked
<1>5. AnswersInTime /\ AnswersOfEntered
  BY DEF AnswersInTime, AnswersOfEntered, Init
<1>6. NoResultsBefore /\ ResultsMatchAnswers
  BY DEF NoResultsBefore, ResultsMatchAnswers, Init
<1>7. QED
  BY <1>1, <1>2, <1>3, <1>4, <1>5, <1>6 DEF IInv

LEMMA ClosersOverdueStep == IInv /\ [Next]_vars => ClosersOverdue'
<1> SUFFICES ASSUME IInv, [Next]_vars PROVE ClosersOverdue'
  OBVIOUS
<1> USE NumberAssumption
<1>1. TypeOK /\ TypeOK'
  BY TypeStep DEF IInv
<1>2. /\ \A q \in Asked : q \in Asked' /\ endsAt'[q] = endsAt[q]
      /\ now <= now'
  BY <1>1, Growth DEF Asked
<1>3. ASSUME NEW q \in Asked'
      PROVE  endsAt'[q] - Duration <= now'
  <2>1. CASE q \in Asked
    BY <1>1, <1>2, <2>1 DEF IInv, ClosersOverdue, TypeOK, Asked
  <2>2. CASE q \notin Asked
    <3>1. StartQuestion(q)
      BY <1>1, <1>3, <2>2, RowChanges
         DEF Start, ShowLeaderboard, HideLeaderboard, End, StartQuestion,
             FinalizeRows, Asked, TypeOK
    <3>2. QED
      BY <1>1, <1>2, <1>3, <3>1 DEF StartQuestion, TypeOK, envVars, Asked
  <2>3. QED
    BY <2>1, <2>2
<1>4. ASSUME NEW c \in Closer, Found(c)'
      PROVE  /\ closer'[c].question \in Asked'
             /\ endsAt'[closer'[c].question] <= now'
  <2>1. CASE Found(c) /\ closer'[c].question = closer[c].question
    <3>1. /\ closer[c].question \in Asked
          /\ endsAt[closer[c].question] <= now
      BY <2>1 DEF IInv, ClosersOverdue
    <3>2. QED
      BY <1>1, <1>2, <2>1, <3>1 DEF TypeOK, Asked
  <2>2. CASE ReadExpired(c)
    <3>1. PICK q \in Open :
                /\ endsAt[q] <= now
                /\ closer' = [closer EXCEPT ![c] =
                        [@ EXCEPT !.pc = "finalizing", !.question = q]]
      BY <2>2 DEF ReadExpired
    <3>2. closer'[c].question = q
      BY <1>1, <3>1 DEF TypeOK
    <3>3. q \in Asked
      BY <3>1 DEF Open, Asked
    <3>4. QED
      BY <1>1, <1>2, <3>1, <3>2, <3>3 DEF TypeOK, Asked
  <2>3. QED
    <3>1. ASSUME NEW d \in Closer, NEW pc \in {"idle", "reading"},
                 NEW owner, NEW attempt,
                 closer' = [closer EXCEPT ![d] = CloserAt(pc, owner, attempt)]
          PROVE  Found(c) /\ closer'[c].question = closer[c].question
      BY <1>1, <1>4, <3>1 DEF Found, CloserAt, TypeOK
    <3>7. ASSUME NEW d \in Closer,
                 \/ closer' = [closer EXCEPT ![d] = IdleCloser]
                 \/ TimerFires(d) \/ InteractionCloses(d)
          PROVE  Found(c) /\ closer'[c].question = closer[c].question
      BY <3>1, <3>7 DEF IdleCloser, TimerFires, InteractionCloses
    <3>2. ASSUME NEW d \in Closer, d # c, ReadExpired(d)
          PROVE  Found(c) /\ closer'[c].question = closer[c].question
      BY <1>1, <1>4, <3>2 DEF Found, ReadExpired, TypeOK
    <3>3. ASSUME NEW d \in Closer, FinalizeCommits(d)
          PROVE  Found(c) /\ closer'[c].question = closer[c].question
      BY <1>1, <1>4, <3>3 DEF Found, FinalizeCommits, TypeOK
    <3>4. CASE closer' = [d \in Closer |-> IdleCloser]
      BY <1>4, <3>4 DEF Found, IdleCloser, CloserAt
    <3>5. CASE UNCHANGED closer
      BY <1>4, <2>1, <3>5 DEF Found
    <3>6. QED
      BY <2>1, <2>2, <3>1, <3>2, <3>3, <3>4, <3>5, <3>7,
         CloserChanges
<1>5. QED
  BY <1>3, <1>4 DEF ClosersOverdue


LEMMA ReceiptsInTimeStep == IInv /\ [Next]_vars => ReceiptsInTime'
<1> SUFFICES ASSUME IInv, [Next]_vars,
                    NEW p \in Participant, receipt'[p].question # NoQuestion
             PROVE  /\ p \in participation'
                    /\ receipt'[p].question \in Asked'
                    /\ endsAt'[receipt'[p].question] - Duration <= receipt'[p].at
                    /\ receipt'[p].at < endsAt'[receipt'[p].question]
  BY DEF ReceiptsInTime
<1> USE NumberAssumption
<1>1. TypeOK /\ TypeOK'
  BY TypeStep DEF IInv
<1>2. /\ \A q \in Asked : q \in Asked' /\ endsAt'[q] = endsAt[q]
      /\ participation \subseteq participation'
  BY <1>1, Growth DEF Asked
<1>3. CASE receipt'[p] = receipt[p]
  <2>1. /\ p \in participation
        /\ receipt[p].question \in Asked
        /\ endsAt[receipt[p].question] - Duration <= receipt[p].at
        /\ receipt[p].at < endsAt[receipt[p].question]
    BY <1>3 DEF IInv, ReceiptsInTime
  <2>2. QED
    BY <1>2, <1>3, <2>1
<1>4. ASSUME NEW q \in Question, SubmitReceived(p, q)
      PROVE  /\ p \in participation'
             /\ receipt'[p].question \in Asked'
             /\ endsAt'[receipt'[p].question] - Duration <= receipt'[p].at
             /\ receipt'[p].at < endsAt'[receipt'[p].question]
  <2>1. receipt'[p].question = q /\ receipt'[p].at = now
    BY <1>1, <1>4 DEF SubmitReceived, TypeOK
  <2>2. q \in Asked /\ now < endsAt[q] /\ p \in participation
    BY <1>4 DEF SubmitReceived, Asked
  <2>3. endsAt[q] - Duration <= now
    BY <2>2 DEF IInv, ClosersOverdue
  <2>4. QED
    BY <1>2, <2>1, <2>2, <2>3
<1>5. QED
  <2>1. NoReceipt.question = NoQuestion
    BY DEF NoReceipt
  <2>2. CASE \E r \in Participant : receipt' = [receipt EXCEPT ![r] = NoReceipt]
    BY <1>1, <1>3, <2>1, <2>2 DEF TypeOK
  <2>3. CASE \E r \in Participant, q \in Question : SubmitReceived(r, q)
    <3>1. PICK r \in Participant, q \in Question : SubmitReceived(r, q)
      BY <2>3
    <3>2. CASE r # p
      BY <1>1, <1>3, <3>1, <3>2 DEF SubmitReceived, TypeOK
    <3>3. QED
      BY <1>4, <3>1, <3>2
  <2>4. QED
    BY <1>3, <2>1, <2>2, <2>3, ReceiptChanges

LEMMA RowsStep == IInv /\ [Next]_vars => StateMatchesQuestions'
<1> SUFFICES ASSUME IInv, [Next]_vars PROVE StateMatchesQuestions'
  OBVIOUS
<1> USE DEF StateMatchesQuestions, Open, Asked, TypeOK
<1>1. TypeOK /\ StateMatchesQuestions
  BY DEF IInv
<1>2. CASE UNCHANGED <<state, status, endsAt, results>>
  BY <1>1, <1>2
<1>3. CASE Start \/ ShowLeaderboard \/ HideLeaderboard
  BY <1>1, <1>3 DEF Start, ShowLeaderboard, HideLeaderboard
<1>4. CASE End
  BY <1>1, <1>4 DEF End
<1>5. ASSUME NEW q \in Question, StartQuestion(q)
      PROVE  StateMatchesQuestions'
  BY <1>1, <1>5 DEF StartQuestion
<1>6. ASSUME NEW c \in Closer, closer[c].pc = "finalizing",
             FinalizeRows(closer[c].question)
      PROVE  StateMatchesQuestions'
  <2>1. closer[c].question \in Question
    BY <1>6 DEF IInv, ClosersOverdue, Found
  <2>2. CASE status[closer[c].question] = "ACTIVE"
    <3>1. /\ status' = [status EXCEPT ![closer[c].question] = "COMPLETED"]
          /\ state' = IF state = "QUESTION_ACTIVE" THEN "QUESTION_RESULT"
                      ELSE state
      BY <1>6, <2>2 DEF FinalizeRows
    <3>2. closer[c].question \in Open /\ state = "QUESTION_ACTIVE"
      BY <1>1, <2>1, <2>2
    <3>3. Open' = {}
      BY <1>1, <3>1, <3>2
    <3>4. QED
      BY <1>1, <2>1, <3>1, <3>2, <3>3
  <2>3. CASE status[closer[c].question] # "ACTIVE"
    BY <1>1, <1>6, <2>3 DEF FinalizeRows
  <2>4. QED
    BY <2>2, <2>3
<1>7. QED
  BY <1>2, <1>3, <1>4, <1>5, <1>6, RowChanges

\* The one action that adds an answer.
LEMMA StoredAnswer ==
    ASSUME IInv, NEW r \in Participant, SubmitStored(r),
           NEW p \in Participant, NEW q \in Question,
           answers'[p][q] # answers[p][q]
    PROVE  /\ p = r /\ receipt[p].question = q
           /\ answers[p][q] = NoAnswer
           /\ answers'[p][q] = receipt[p].at
           /\ status[q] = "ACTIVE"
<1>1. TypeOK /\ receipt[r].question \in Question
  BY DEF IInv, ReceiptsInTime, SubmitStored, Asked
<1>2. answers' = [answers EXCEPT ![r] = [answers[r] EXCEPT ![receipt[r].question] =
            IF @ = NoAnswer THEN receipt[r].at ELSE @]]
  BY DEF SubmitStored
<1>3. QED
  BY <1>1, <1>2 DEF SubmitStored, TypeOK

LEMMA AnswersStep == IInv /\ [Next]_vars => (AnswersInTime /\ AnswersOfEntered)'
<1> SUFFICES ASSUME IInv, [Next]_vars,
                    NEW p \in Participant, NEW q \in Question,
                    answers'[p][q] # NoAnswer
             PROVE  /\ status'[q] # "UNASKED"
                    /\ endsAt'[q] - Duration <= answers'[p][q]
                    /\ answers'[p][q] < endsAt'[q]
                    /\ p \in participation'
  BY DEF AnswersInTime, AnswersOfEntered
<1>1. TypeOK
  BY DEF IInv
<1>2. CASE answers'[p][q] = answers[p][q]
  BY <1>1, <1>2, Growth DEF IInv, AnswersInTime, AnswersOfEntered
<1>3. CASE answers'[p][q] # answers[p][q]
  <2>1. PICK r \in Participant : SubmitStored(r)
    BY <1>3, AnswerChanges
  <2>2. /\ receipt[p].question = q
        /\ answers'[p][q] = receipt[p].at
        /\ status[q] = "ACTIVE"
    BY <1>3, <2>1, StoredAnswer
  <2>3. /\ p \in participation
        /\ endsAt[q] - Duration <= receipt[p].at
        /\ receipt[p].at < endsAt[q]
    BY <2>2, QuestionAssumption DEF IInv, ReceiptsInTime
  <2>4. QED
    BY <1>1, <2>2, <2>3, Growth
<1>4. QED
  BY <1>2, <1>3


LEMMA ResultsStep == IInv /\ [Next]_vars => (NoResultsBefore /\ ResultsMatchAnswers)'
<1> SUFFICES ASSUME IInv, [Next]_vars
             PROVE  (NoResultsBefore /\ ResultsMatchAnswers)'
  OBVIOUS
<1>1. TypeOK
  BY DEF IInv
<1>2. CASE state = "COMPLETED"
  <2>1. Open = {}
    BY <1>2 DEF IInv, StateMatchesQuestions
  <2>2. state' = state /\ results' = results
    BY <1>2, RowChanges
       DEF Start, ShowLeaderboard, HideLeaderboard, End, StartQuestion,
           FinalizeRows
  <2>3. ASSUME NEW p \in Participant, NEW q \in Question
        PROVE  answers'[p][q] = answers[p][q]
    BY <2>1, AnswerChanges, StoredAnswer DEF Open
  <2>4. ASSUME NEW p \in Participant PROVE answers'[p] = answers[p]
    BY <1>1, <2>3, TypeStep DEF TypeOK
  <2>5. QED
    BY <1>2, <2>2, <2>4 DEF IInv, NoResultsBefore, ResultsMatchAnswers
<1>3. CASE End
  <2>1. answers' = answers /\ results' = FinalRows /\ state' = "COMPLETED"
    BY <1>3 DEF End
  <2>2. ASSUME NEW p \in Participant
        PROVE  [q \in Question |-> IF q \in Asked THEN answers[p][q]
                                   ELSE NoAnswer] = answers[p]
    <3>1. ASSUME NEW q \in Question, q \notin Asked
          PROVE  answers[p][q] = NoAnswer
      BY <3>1 DEF IInv, AnswersInTime, Asked
    <3>2. QED
      BY <1>1, <3>1 DEF TypeOK
  <2>3. ASSUME NEW p \in Participant
        PROVE  FinalRows[p] = IF p \in participation THEN answers[p]
                              ELSE NoResult
    BY <2>2 DEF FinalRows
  <2>4. ASSUME NEW p \in Participant PROVE answers[p] # NoResult
    BY <1>1, ResultAssumption DEF TypeOK
  <2>5. QED
    BY <2>1, <2>3, <2>4
       DEF IInv, AnswersOfEntered, NoResultsBefore, ResultsMatchAnswers
<1>4. CASE state # "COMPLETED" /\ ~End
  <2>1. state' # "COMPLETED" /\ results' = results
    BY <1>4, RowChanges
       DEF Start, ShowLeaderboard, HideLeaderboard, StartQuestion, FinalizeRows
  <2>2. QED
    BY <1>4, <2>1 DEF IInv, NoResultsBefore, ResultsMatchAnswers
<1>5. QED
  BY <1>2, <1>3, <1>4

LEMMA InvStep == IInv /\ [Next]_vars => IInv'
BY TypeStep, ClosersOverdueStep, ReceiptsInTimeStep, RowsStep, AnswersStep,
   ResultsStep
   DEF IInv

\* The invariant the theorems below draw on holds in every reachable state.
THEOREM Invariant == Spec => []IInv
  BY InvInit, InvStep, PTL DEF Spec

\* A question is open exactly while the session says so, and never two.
THEOREM RowsAgree == Spec => []StateMatchesQuestions
  BY Invariant, PTL DEF IInv

\* No accepted answer was received outside its question's time.
THEOREM InTime == Spec => []AnswersInTime
  BY Invariant, PTL DEF IInv

\* Final results are the accepted answers, and stay so.
THEOREM ResultsAreFinal == Spec => []ResultsMatchAnswers
  BY Invariant, PTL DEF IInv

\* Answers are never replaced, and none is accepted once its question closed.
THEOREM AnswersAreFrozen == Spec => AnswersFrozen
<1>1. IInv /\ [Next]_vars =>
        [\A p \in Participant, q \in Question :
            answers'[p][q] # answers[p][q] =>
                answers[p][q] = NoAnswer /\ status[q] = "ACTIVE"]_vars
  BY AnswerChanges, StoredAnswer
<1>2. QED
  BY <1>1, Invariant, PTL DEF Spec, AnswersFrozen

\* A question closes at its deadline or with the quiz, and never before.
THEOREM NotClosedEarly == Spec => NoEarlyClose
<1>1. ASSUME IInv, [Next]_vars, NEW q \in Question,
             status[q] = "ACTIVE", status'[q] = "COMPLETED"
      PROVE  endsAt[q] <= now \/ state' = "COMPLETED"
  <2>1. ASSUME NEW c \in Closer, closer[c].pc = "finalizing",
               FinalizeRows(closer[c].question)
        PROVE  endsAt[q] <= now
    <3>1. closer[c].question = q
      BY <1>1, <2>1 DEF FinalizeRows, IInv, TypeOK
    <3>2. QED
      BY <1>1, <2>1, <3>1 DEF IInv, ClosersOverdue, Found
  <2>2. QED
    BY <1>1, <2>1, RowChanges
       DEF Start, ShowLeaderboard, HideLeaderboard, End, StartQuestion, IInv,
           TypeOK
<1>2. IInv /\ [Next]_vars =>
        [\A q \in Question :
            status[q] = "ACTIVE" /\ status'[q] = "COMPLETED" =>
                endsAt[q] <= now \/ state' = "COMPLETED"]_vars
  BY <1>1
<1>3. QED
  BY <1>2, Invariant, PTL DEF Spec, NoEarlyClose


-----------------------------------------------------------------------------
(* LiveSession implements QuizRound.                                         *)

LEMMA RoundInit == Init => Round!Init
BY DEF Init, Round!Init

LEMMA RoundStep == IInv /\ [Next]_vars => [Round!Next]_(Round!vars)
<1> SUFFICES ASSUME IInv, [Next]_vars
             PROVE  Round!Next \/ UNCHANGED Round!vars
  OBVIOUS
<1> USE DEF Round!vars, Round!Next
<1>1. TypeOK /\ TypeOK'
  BY TypeStep DEF IInv
<1>2. ASSUME NEW p \in Participant, SubmitStored(p)
      PROVE  Round!Next \/ UNCHANGED Round!vars
  <2> DEFINE q == receipt[p].question
  <2>1. q \in Question /\ p \in participation
    BY <1>2 DEF IInv, ReceiptsInTime, SubmitStored, Asked
  <2>2. UNCHANGED <<state, status, participation, results>>
    BY <1>2 DEF SubmitStored
  <2>3. CASE answers[p][q] = NoAnswer
    <3>1. answers' = [answers EXCEPT ![p][q] = receipt[p].at]
      BY <1>1, <1>2, <2>1, <2>3 DEF SubmitStored, TypeOK
    <3>2. receipt[p].at \in 0..Horizon
      BY <1>1 DEF TypeOK
    <3>3. status[q] = "ACTIVE"
      BY <1>2 DEF SubmitStored
    <3>4. Round!Accept(p, q)
      BY <2>1, <2>2, <2>3, <3>1, <3>2, <3>3 DEF Round!Accept
    <3>5. QED
      BY <2>1, <3>4
  <2>4. CASE answers[p][q] # NoAnswer
    <3>1. answers' = answers
      BY <1>1, <1>2, <2>1, <2>4 DEF SubmitStored, TypeOK
    <3>2. QED
      BY <2>2, <3>1
  <2>5. QED
    BY <2>3, <2>4
<1>3. ASSUME NEW p \in Participant, RecordJoin(p)
      PROVE  Round!Next
  <2>1. Round!Enter(p)
    BY <1>3 DEF RecordJoin, Round!Enter
  <2>2. QED
    BY <2>1
<1>4. ASSUME UNCHANGED <<answers, participation>>
      PROVE  Round!Next \/ UNCHANGED Round!vars
  <2>1. CASE \/ UNCHANGED <<state, status, endsAt, results>>
             \/ Start \/ ShowLeaderboard \/ HideLeaderboard
    BY <1>4, <2>1 DEF Start, ShowLeaderboard, HideLeaderboard
  <2>2. CASE End
    <3>1. ASSUME NEW p \in Participant, p \in participation
          PROVE  FinalRows[p] = answers[p]
      <4>1. ASSUME NEW q \in Question, q \notin Asked
            PROVE  answers[p][q] = NoAnswer
        BY <4>1 DEF IInv, AnswersInTime, Asked
      <4>2. QED
        BY <1>1, <3>1, <4>1 DEF FinalRows, TypeOK
    <3>2. results' = [p \in Participant |->
                        IF p \in participation THEN answers[p] ELSE NoResult]
      BY <2>2, <3>1 DEF End, FinalRows
    <3>3. Round!Finish
      BY <1>1, <1>4, <2>2, <3>2 DEF End, Round!Finish, TypeOK
    <3>4. QED
      BY <3>3
  <2>3. ASSUME NEW q \in Question, StartQuestion(q)
        PROVE  Round!Next
    <3>1. Open = {}
      BY <2>3 DEF IInv, StateMatchesQuestions, StartQuestion
    <3>2. Round!Ask(q)
      BY <1>1, <2>3, <3>1 DEF StartQuestion, Round!Ask, Open, TypeOK
    <3>3. QED
      BY <3>2
  <2>4. ASSUME NEW q \in Question, FinalizeRows(q), UNCHANGED results
        PROVE  Round!Next \/ UNCHANGED Round!vars
    <3>1. CASE status[q] = "ACTIVE"
      <4> DEFINE Phase(s) == CASE s = "UNASKED" -> "unasked"
                               [] s = "ACTIVE" -> "open"
                               [] OTHER -> "closed"
      <4>1. /\ status' = [status EXCEPT ![q] = "COMPLETED"]
            /\ state # "COMPLETED" /\ state' # "COMPLETED"
        BY <2>4, <3>1 DEF FinalizeRows, IInv, StateMatchesQuestions, Open
      <4>2. \A r \in Question :
                status'[r] = IF r = q THEN "COMPLETED" ELSE status[r]
        BY <1>1, <4>1 DEF TypeOK
      <4>3. [r \in Question |-> Phase(status'[r])]
              = [[r \in Question |-> Phase(status[r])] EXCEPT ![q] = "closed"]
        BY <4>2
      <4>4. Phase(status[q]) = "open"
        BY <3>1
      <4>5. (state = "COMPLETED")' = (state = "COMPLETED")
        BY <4>1
      <4>6. Round!Close(q)
        BY <1>4, <2>4, <4>3, <4>4, <4>5 DEF Round!Close
      <4>7. QED
        BY <4>6
    <3>2. CASE status[q] # "ACTIVE"
      BY <1>4, <2>4, <3>2 DEF FinalizeRows
    <3>3. QED
      BY <3>1, <3>2
  <2>5. ASSUME NEW c \in Closer, closer[c].pc = "finalizing"
        PROVE  closer[c].question \in Question
    BY <2>5 DEF IInv, ClosersOverdue, Found, Asked
  <2>6. QED
    BY <2>1, <2>2, <2>3, <2>4, <2>5, RowChanges
<1>5. QED
  BY <1>2, <1>3, <1>4, AnswerChanges, EntryChanges
     DEF SubmitStored, RecordJoin

\* The detailed session implements the abstract round.
THEOREM Implements == Spec => ImplementsRound
  BY RoundInit, RoundStep, Invariant, PTL DEF Spec, ImplementsRound, Round!Spec

-----------------------------------------------------------------------------
(* Announcing the end of a question.                                         *)

LEMMA AnnouncedChanges ==
    ASSUME [Next]_vars
    PROVE  UNCHANGED announced \/ \E c \in Closer : FinishClose(c)
BY DEF Next, vars, HostStep, ParticipantStep, CloseStep, FailureStep,
       Start, StartQuestion, ShowLeaderboard, HideLeaderboard, End,
       JoinAdmitted, RecordJoin, SubmitReceived, SubmitStored, SubmitRefused,
       ScheduleAsked, StartReplyLost, Forget, TimerFires, InteractionCloses,
       ReadExpired, ReadNotExpired, FinalizeCommits, CloseFails,
       CloseReplyLost, Crash, Restart, Tick

LEMMA CompletedStays ==
    ASSUME TypeOK, [Next]_vars, NEW q \in Question, status[q] = "COMPLETED"
    PROVE  status'[q] = "COMPLETED"
BY RowChanges
   DEF Start, ShowLeaderboard, HideLeaderboard, End, StartQuestion,
       FinalizeRows, TypeOK

\* A call about to announce is the only one for its question, and nobody has
\* announced that question before.
AnnouncersUnique ==
    /\ \A c \in Closer :
        closer[c].pc = "announcing" =>
            /\ status[closer[c].question] = "COMPLETED"
            /\ announced[closer[c].question] = 0
    /\ \A c, d \in Closer :
        closer[c].pc = "announcing" /\ closer[d].pc = "announcing"
            /\ closer[c].question = closer[d].question => c = d

AnnouncedInv == AnnouncedAtMostOnce /\ AnnouncersUnique

LEMMA AnnouncedInit == Init => AnnouncedInv
BY DEF Init, AnnouncedInv, AnnouncedAtMostOnce, AnnouncersUnique, IdleCloser,
       CloserAt

\* The calls about to announce after a step were so before it, or the step is
\* the commit that closed their question.
LEMMA AnnouncerChanges ==
    ASSUME IInv, [Next]_vars, NEW c \in Closer, closer'[c].pc = "announcing"
    PROVE  \/ closer[c].pc = "announcing" /\ closer'[c].question = closer[c].question
           \/ /\ FinalizeCommits(c)
              /\ closer'[c].question = closer[c].question
              /\ status[closer[c].question] = "ACTIVE"
<1>1. TypeOK
  BY DEF IInv
<1>2. ASSUME NEW d \in Closer, NEW pc \in {"idle", "reading"},
             NEW owner, NEW attempt,
             closer' = [closer EXCEPT ![d] = CloserAt(pc, owner, attempt)]
      PROVE  closer'[c] = closer[c]
  BY <1>1, <1>2 DEF CloserAt, TypeOK
<1>3. ASSUME NEW d \in Closer,
             \/ closer' = [closer EXCEPT ![d] = IdleCloser]
             \/ TimerFires(d) \/ InteractionCloses(d)
      PROVE  closer'[c] = closer[c]
  BY <1>2, <1>3 DEF IdleCloser, TimerFires, InteractionCloses
<1>4. ASSUME NEW d \in Closer, ReadExpired(d)
      PROVE  closer'[c] = closer[c]
  BY <1>1, <1>4 DEF ReadExpired, TypeOK
<1>5. ASSUME NEW d \in Closer, FinalizeCommits(d), d # c
      PROVE  closer'[c] = closer[c]
  BY <1>1, <1>5 DEF FinalizeCommits, TypeOK
<1>6. CASE FinalizeCommits(c)
  BY <1>1, <1>6 DEF FinalizeCommits, TypeOK
<1>7. CASE closer' = [d \in Closer |-> IdleCloser]
  BY <1>7 DEF IdleCloser, CloserAt
<1>8. QED
  BY <1>3, <1>4, <1>5, <1>6, <1>7, CloserChanges

LEMMA AnnouncedStep == IInv /\ AnnouncedInv /\ [Next]_vars => AnnouncedInv'
<1> SUFFICES ASSUME IInv, AnnouncedInv, [Next]_vars PROVE AnnouncedInv'
  OBVIOUS
<1>1. TypeOK /\ TypeOK'
  BY TypeStep DEF IInv
<1>2. CASE UNCHANGED announced
  <2>1. AnnouncedAtMostOnce'
    BY <1>1, <1>2, CompletedStays DEF AnnouncedInv, AnnouncedAtMostOnce
  <2>2. ASSUME NEW c \in Closer, closer'[c].pc = "announcing"
        PROVE  /\ status'[closer'[c].question] = "COMPLETED"
               /\ announced'[closer'[c].question] = 0
    <3>1. closer[c].question \in Question
      BY <2>2, AnnouncerChanges
         DEF IInv, ClosersOverdue, Found, Asked, FinalizeCommits
    <3>2. CASE closer[c].pc = "announcing"
                /\ closer'[c].question = closer[c].question
      BY <1>1, <1>2, <3>1, <3>2, CompletedStays DEF AnnouncedInv, AnnouncersUnique
    <3>3. CASE /\ FinalizeCommits(c)
               /\ closer'[c].question = closer[c].question
               /\ status[closer[c].question] = "ACTIVE"
      BY <1>1, <1>2, <3>1, <3>3
         DEF FinalizeCommits, FinalizeRows, AnnouncedInv, AnnouncedAtMostOnce,
             TypeOK
    <3>4. QED
      BY <2>2, <3>2, <3>3, AnnouncerChanges
  <2>3. ASSUME NEW c \in Closer, NEW d \in Closer,
               closer'[c].pc = "announcing", closer'[d].pc = "announcing",
               closer'[c].question = closer'[d].question
        PROVE  c = d
    <3>1. CASE closer[c].pc = "announcing" /\ closer[d].pc = "announcing"
      BY <2>3, <3>1, AnnouncerChanges
         DEF AnnouncedInv, AnnouncersUnique, FinalizeCommits
    <3>2. ASSUME NEW a \in Closer, NEW b \in Closer,
                 FinalizeCommits(a), closer[b].pc = "announcing",
                 closer[a].question = closer[b].question,
                 status[closer[a].question] = "ACTIVE"
          PROVE  FALSE
      BY <3>2 DEF AnnouncedInv, AnnouncersUnique
    <3>3. ASSUME FinalizeCommits(c), FinalizeCommits(d)
          PROVE  c = d
      BY <1>1, <2>3, <3>3 DEF FinalizeCommits, TypeOK
    <3>4. QED
      BY <2>3, <3>1, <3>2, <3>3, AnnouncerChanges
  <2>4. QED
    BY <2>1, <2>2, <2>3 DEF AnnouncedInv, AnnouncersUnique
<1>3. ASSUME NEW c \in Closer, FinishClose(c), closer[c].pc = "announcing"
      PROVE  AnnouncedInv'
  <2>1. /\ closer[c].question \in Question
        /\ status' = status
        /\ announced' = [announced EXCEPT ![closer[c].question] = @ + 1]
        /\ closer' = [closer EXCEPT ![c] = IdleCloser]
    BY <1>3 DEF FinishClose, IInv, ClosersOverdue, Found, Asked, dbVars
  <2>2. announced[closer[c].question] = 0
        /\ status[closer[c].question] = "COMPLETED"
    BY <1>3 DEF AnnouncedInv, AnnouncersUnique
  <2>3. AnnouncedAtMostOnce'
    BY <1>1, <2>1, <2>2 DEF AnnouncedInv, AnnouncedAtMostOnce, TypeOK
  <2>4. ASSUME NEW d \in Closer, closer'[d].pc = "announcing"
        PROVE  /\ closer[d].pc = "announcing" /\ closer'[d] = closer[d]
               /\ d # c
    BY <1>1, <2>1, <2>4 DEF IdleCloser, CloserAt, TypeOK
  <2>5. ASSUME NEW d \in Closer, closer'[d].pc = "announcing"
        PROVE  /\ status'[closer'[d].question] = "COMPLETED"
               /\ announced'[closer'[d].question] = 0
    <3>1. closer[d].question # closer[c].question
      BY <1>3, <2>4, <2>5 DEF AnnouncedInv, AnnouncersUnique
    <3>2. closer[d].question \in Question
      BY <2>4, <2>5 DEF IInv, ClosersOverdue, Found, Asked
    <3>3. QED
      BY <1>1, <2>1, <2>4, <2>5, <3>1, <3>2
         DEF AnnouncedInv, AnnouncersUnique, TypeOK
  <2>6. AnnouncersUnique'
    BY <2>4, <2>5 DEF AnnouncedInv, AnnouncersUnique
  <2>7. QED
    BY <2>3, <2>6 DEF AnnouncedInv
<1>4. QED
  BY <1>2, <1>3, AnnouncedChanges DEF FinishClose

\* However many timers and interactions race, a question's end is announced at
\* most once and only when it is closed.
THEOREM AnnouncedOnce == Spec => []AnnouncedAtMostOnce
<1>1. Init => AnnouncedInv
  BY AnnouncedInit
<1>2. AnnouncedInv => AnnouncedAtMostOnce
  BY DEF AnnouncedInv
<1>3. QED
  BY <1>1, <1>2, AnnouncedStep, Invariant, PTL DEF Spec

-----------------------------------------------------------------------------
(* The close timer of the open question.                                     *)

\* A question whose startQuestion has not scheduled yet is open and running,
\* unless the quiz has ended meanwhile.
UnarmedRunning ==
    \A q \in unarmed :
        /\ q \in Asked
        /\ status[q] = "ACTIVE" => now < endsAt[q]
        /\ status[q] = "COMPLETED" => state = "COMPLETED"

\* Timers are of asked questions and fire at or after their deadline; so are
\* the calls they start, which close their own question while it is open.
TimersOfAsked ==
    /\ timer.question # NoQuestion =>
            timer.question \in Asked /\ endsAt[timer.question] <= timer.at
    /\ \A c \in Closer :
        closer[c].pc # "idle" /\ closer[c].owner # NoQuestion =>
            closer[c].owner \in Asked /\ endsAt[closer[c].owner] <= now
    /\ \A c \in Closer :
        Found(c) /\ closer[c].owner \in Open =>
            closer[c].pc = "finalizing" /\ closer[c].question = closer[c].owner

\* A call that has finalized its question found or left it closed.
FinishersClosed ==
    \A c \in Closer :
        closer[c].pc \in {"announcing", "finishing"} =>
            closer[c].question \notin Open

\* forget runs only for a quiz that has ended, and its end closed everything.
ForgetsEnded == forgetDue => state = "COMPLETED"

CoverInv ==
    /\ UnarmedRunning
    /\ TimersOfAsked
    /\ FinishersClosed
    /\ ForgetsEnded
    /\ TimerCoversOpen

LEMMA CoverInit == Init => CoverInv
BY DEF Init, CoverInv, UnarmedRunning, TimersOfAsked, ForgetsEnded,
       TimerCoversOpen, Open, Asked, NoTimer, IdleCloser, CloserAt, Found,
       FinishersClosed

LEMMA TimerChanges ==
    ASSUME [Next]_vars
    PROVE  \/ UNCHANGED <<timer, up>>
           \/ \E q \in Question : ScheduleAsked(q)
           \/ Forget \/ Crash \/ Restart
           \/ \E c \in Closer :
                TimerFires(c) \/ FinishClose(c) \/ CloseFails(c) \/ CloseReplyLost(c)
BY DEF Next, vars, HostStep, ParticipantStep, CloseStep, FailureStep,
       Start, StartQuestion, ShowLeaderboard, HideLeaderboard, End,
       JoinAdmitted, RecordJoin, SubmitReceived, SubmitStored, SubmitRefused,
       StartReplyLost, InteractionCloses, ReadExpired, ReadNotExpired,
       FinalizeCommits, Tick

LEMMA UnarmedChanges ==
    ASSUME [Next]_vars
    PROVE  \/ UNCHANGED unarmed
           \/ Crash
           \/ \E q \in Question :
                StartQuestion(q) \/ ScheduleAsked(q) \/ StartReplyLost(q)
BY DEF Next, vars, callVars, HostStep, ParticipantStep, CloseStep, FailureStep,
       Start, ShowLeaderboard, HideLeaderboard, End,
       JoinAdmitted, RecordJoin, SubmitReceived, SubmitStored, SubmitRefused,
       Forget, TimerFires, InteractionCloses, ReadExpired, ReadNotExpired,
       FinalizeCommits, FinishClose, CloseFails, CloseReplyLost,
       Restart, Tick

LEMMA ForgetChanges ==
    ASSUME [Next]_vars
    PROVE  UNCHANGED forgetDue \/ forgetDue' = FALSE \/ End
BY DEF Next, vars, callVars, HostStep, ParticipantStep, CloseStep, FailureStep,
       Start, StartQuestion, ShowLeaderboard, HideLeaderboard,
       JoinAdmitted, RecordJoin, SubmitReceived, SubmitStored, SubmitRefused,
       ScheduleAsked, StartReplyLost, Forget, TimerFires, InteractionCloses,
       ReadExpired, ReadNotExpired, FinalizeCommits, FinishClose, CloseFails,
       CloseReplyLost, Crash, Restart, Tick

\* A completed session stays completed.
LEMMA CompletedForGood ==
    ASSUME [Next]_vars, state = "COMPLETED"
    PROVE  state' = "COMPLETED"
BY RowChanges
   DEF Start, ShowLeaderboard, HideLeaderboard, End, StartQuestion, FinalizeRows

LEMMA ForgetsEndedStep == ForgetsEnded /\ [Next]_vars => ForgetsEnded'
BY ForgetChanges, CompletedForGood DEF ForgetsEnded, End

LEMMA UnarmedStep ==
    IInv /\ UnarmedRunning /\ [Next]_vars => UnarmedRunning'
<1> SUFFICES ASSUME IInv, UnarmedRunning, [Next]_vars PROVE UnarmedRunning'
  OBVIOUS
<1> USE NumberAssumption
<1>1. TypeOK /\ TypeOK'
  BY TypeStep DEF IInv
<1> SUFFICES ASSUME NEW q \in Question, q \in unarmed'
             PROVE  /\ q \in Asked'
                    /\ status'[q] = "ACTIVE" => now' < endsAt'[q]
                    /\ status'[q] = "COMPLETED" => state' = "COMPLETED"
  <2>1. unarmed' \subseteq Question
    BY <1>1 DEF TypeOK
  <2>2. QED
    BY <2>1 DEF UnarmedRunning
<1>2. CASE q \in unarmed
  <2>1. /\ status[q] # "UNASKED"
        /\ status[q] = "ACTIVE" => now < endsAt[q]
        /\ status[q] = "COMPLETED" => state = "COMPLETED"
    BY <1>2 DEF UnarmedRunning, Asked
  <2>2. status'[q] # "UNASKED" /\ endsAt'[q] = endsAt[q]
    BY <1>1, <2>1, Growth
  <2>3. ASSUME status'[q] = "ACTIVE"
        PROVE  now' < endsAt'[q]
    <3>1. status[q] = "ACTIVE"
      BY <1>1, <2>1, <2>3, CompletedStays DEF TypeOK
    <3>2. QED
      BY <1>1, <1>2, <2>1, <2>2, <3>1, ClockChanges DEF Tick, TypeOK
  <2>4. ASSUME status'[q] = "COMPLETED"
        PROVE  state' = "COMPLETED"
    <3>1. CASE status[q] = "ACTIVE"
      <4>1. endsAt[q] > now
        BY <2>1, <3>1, <1>1 DEF TypeOK
      <4>2. ASSUME NEW c \in Closer, closer[c].pc = "finalizing",
                   FinalizeRows(closer[c].question)
            PROVE  FALSE
        <5>1. closer[c].question = q
          BY <1>1, <2>4, <3>1, <4>2 DEF FinalizeRows, TypeOK
        <5>2. QED
          BY <1>1, <4>1, <4>2, <5>1 DEF IInv, ClosersOverdue, Found, TypeOK
      <4>3. QED
        BY <1>1, <2>4, <3>1, <4>2, RowChanges
           DEF Start, ShowLeaderboard, HideLeaderboard, End, StartQuestion,
               TypeOK
    <3>2. CASE status[q] = "COMPLETED"
      BY <2>1, <3>2, CompletedForGood
    <3>3. QED
      BY <1>1, <2>1, <3>1, <3>2 DEF TypeOK
  <2>5. QED
    BY <2>2, <2>3, <2>4 DEF Asked
<1>3. CASE q \notin unarmed
  <2>1. StartQuestion(q)
    BY <1>3, UnarmedChanges DEF StartQuestion, ScheduleAsked, StartReplyLost,
                                        Crash
  <2>2. QED
    BY <1>1, <2>1 DEF StartQuestion, TypeOK, envVars, Asked
<1>4. QED
  BY <1>2, <1>3

LEMMA TimerTargetStep ==
    ASSUME IInv, UnarmedRunning, TimersOfAsked, [Next]_vars,
           timer'.question # NoQuestion
    PROVE  timer'.question \in Asked' /\ endsAt'[timer'.question] <= timer'.at
<1> USE NumberAssumption
<1>1. TypeOK /\ TypeOK'
  BY TypeStep DEF IInv
<1>2. \A q \in Asked : q \in Asked' /\ endsAt'[q] = endsAt[q]
  BY <1>1, Growth DEF Asked
<1>3. CASE timer' = timer
  BY <1>2, <1>3 DEF TimersOfAsked
<1>4. ASSUME NEW q \in Asked, NEW at, NEW attempt, endsAt[q] <= at,
             timer' = Scheduled(q, at, attempt)
      PROVE  timer'.question \in Asked' /\ endsAt'[timer'.question] <= timer'.at
  BY <1>2, <1>4 DEF Scheduled
<1>5. ASSUME NEW q \in Question, ScheduleAsked(q)
      PROVE  timer'.question \in Asked' /\ endsAt'[timer'.question] <= timer'.at
  <2>1. q \in Asked /\ endsAt[q] <= endsAt[q]
    BY <1>1, <1>5 DEF ScheduleAsked, UnarmedRunning, TypeOK
  <2>2. QED
    BY <1>4, <1>5, <2>1 DEF ScheduleAsked
<1>6. ASSUME Restart, timer' # timer
      PROVE  timer'.question \in Asked' /\ endsAt'[timer'.question] <= timer'.at
  <2>1. PICK q \in Open : timer' = Scheduled(q, endsAt[q], 0)
    BY <1>6 DEF Restart
  <2>2. q \in Asked /\ endsAt[q] <= endsAt[q]
    BY <1>1, <2>1 DEF Open, Asked, TypeOK
  <2>3. QED
    BY <1>4, <2>1, <2>2
<1>7. ASSUME NEW c \in Closer, timer' = RetryTimer(c), closer[c].pc # "idle",
             timer' # timer
      PROVE  timer'.question \in Asked' /\ endsAt'[timer'.question] <= timer'.at
  <2>1. /\ closer[c].owner \in Asked
        /\ endsAt[closer[c].owner] <= now
        /\ timer' = Scheduled(closer[c].owner, now + RetryDelay,
                              closer[c].attempt + 1)
    BY <1>7 DEF RetryTimer, TimersOfAsked
  <2>2. endsAt[closer[c].owner] <= now + RetryDelay
    BY <1>1, <2>1 DEF TypeOK, Asked
  <2>3. QED
    BY <1>4, <2>1, <2>2
<1>8. timer' # NoTimer
  BY DEF NoTimer
<1>9. QED
  BY <1>3, <1>5, <1>6, <1>7, <1>8, TimerChanges
     DEF Forget, Crash, TimerFires, FinishClose, ClearTimer, CloseFails,
         CloseReplyLost

LEMMA OwnerStep ==
    ASSUME IInv, UnarmedRunning, TimersOfAsked, [Next]_vars,
           NEW c \in Closer, closer'[c].pc # "idle",
           closer'[c].owner # NoQuestion
    PROVE  closer'[c].owner \in Asked' /\ endsAt'[closer'[c].owner] <= now'
<1> USE NumberAssumption
<1>1. TypeOK /\ TypeOK'
  BY TypeStep DEF IInv
<1>2. /\ \A q \in Asked : q \in Asked' /\ endsAt'[q] = endsAt[q]
      /\ now <= now'
  BY <1>1, Growth DEF Asked
<1>3. CASE closer'[c].owner = closer[c].owner /\ closer[c].pc # "idle"
  <2>1. closer[c].owner \in Asked /\ endsAt[closer[c].owner] <= now
    BY <1>3 DEF TimersOfAsked
  <2>2. QED
    BY <1>1, <1>2, <1>3, <2>1 DEF TypeOK, Asked
<1>4. CASE TimerFires(c)
  <2>1. closer'[c].owner = timer.question
    BY <1>1, <1>4 DEF TimerFires, CloserAt, TypeOK
  <2>2. timer.question \in Asked /\ endsAt[timer.question] <= timer.at
        /\ timer.at <= now
    BY <1>1, <1>4 DEF TimerFires, TimersOfAsked, TypeOK
  <2>3. QED
    BY <1>1, <1>2, <2>1, <2>2 DEF TypeOK, Asked
<1>5. ASSUME NEW d \in Closer, d # c,
             \/ closer' = [closer EXCEPT ![d] = IdleCloser]
             \/ TimerFires(d) \/ InteractionCloses(d)
             \/ ReadExpired(d) \/ FinalizeCommits(d)
      PROVE  closer'[c] = closer[c]
  BY <1>1, <1>5
     DEF TimerFires, InteractionCloses, ReadExpired, FinalizeCommits, TypeOK
<1>6. CASE ReadExpired(c) \/ FinalizeCommits(c)
  <2>1. CASE ReadExpired(c)
    <3>1. PICK q \in Open : closer' = [closer EXCEPT ![c] =
                [@ EXCEPT !.pc = "finalizing", !.question = q]]
      BY <2>1 DEF ReadExpired
    <3>2. closer'[c].owner = closer[c].owner
      BY <1>1, <3>1 DEF TypeOK
    <3>3. QED
      BY <1>3, <2>1, <3>2 DEF ReadExpired
  <2>2. CASE FinalizeCommits(c)
    BY <1>1, <1>3, <2>2 DEF FinalizeCommits, TypeOK
  <2>3. QED
    BY <1>6, <2>1, <2>2
<1>7. CASE closer' = [closer EXCEPT ![c] = IdleCloser]
  BY <1>1, <1>7 DEF IdleCloser, CloserAt, TypeOK
<1>8. CASE InteractionCloses(c)
  BY <1>1, <1>8 DEF InteractionCloses, CloserAt, TypeOK
<1>9. CASE closer' = [d \in Closer |-> IdleCloser]
  BY <1>9 DEF IdleCloser, CloserAt
<1>10. CASE UNCHANGED closer
  BY <1>3, <1>10
<1>11. QED
  BY <1>3, <1>4, <1>5, <1>6, <1>7, <1>8, <1>9, <1>10, CloserChanges

\* A question that is open after a step was open before it, or not asked.
LEMMA OpenBefore ==
    ASSUME TypeOK, [Next]_vars, NEW q \in Asked, q \in Open'
    PROVE  q \in Open
BY CompletedStays DEF Asked, Open, TypeOK

\* What becomes of a call under way.
LEMMA CallMoves ==
    ASSUME IInv, [Next]_vars, NEW c \in Closer
    PROVE  \/ closer'[c] = closer[c]
           \/ TimerFires(c) \/ InteractionCloses(c)
           \/ ReadExpired(c) \/ FinalizeCommits(c)
           \/ ReadNotExpired(c) \/ FinishClose(c)
           \/ CloseFails(c) \/ CloseReplyLost(c) \/ Crash
<1>1. TypeOK
  BY DEF IInv
<1>2. \/ UNCHANGED closer
      \/ Crash
      \/ \E d \in Closer :
            \/ TimerFires(d) \/ InteractionCloses(d)
            \/ ReadExpired(d) \/ FinalizeCommits(d)
            \/ ReadNotExpired(d) \/ FinishClose(d)
            \/ CloseFails(d) \/ CloseReplyLost(d)
  BY DEF Next, vars, dbVars, callVars, HostStep, ParticipantStep, CloseStep,
         FailureStep, Start, StartQuestion, ShowLeaderboard, HideLeaderboard,
         End, JoinAdmitted, RecordJoin, SubmitReceived, SubmitStored,
         SubmitRefused, ScheduleAsked, StartReplyLost, Forget, Restart, Tick
<1>3. ASSUME NEW d \in Closer, d # c,
            \/ TimerFires(d) \/ InteractionCloses(d)
            \/ ReadExpired(d) \/ FinalizeCommits(d)
            \/ ReadNotExpired(d) \/ FinishClose(d)
            \/ CloseFails(d) \/ CloseReplyLost(d)
      PROVE  closer'[c] = closer[c]
  BY <1>1, <1>3
     DEF TimerFires, InteractionCloses, ReadExpired, FinalizeCommits,
         ReadNotExpired, FinishClose, CloseFails, CloseReplyLost, TypeOK
<1>4. QED
  BY <1>2, <1>3

\* A call past reading came from its reading or its commit, and one that is
\* idle again returned or failed.
LEMMA CallStages ==
    ASSUME IInv, [Next]_vars, NEW c \in Closer
    PROVE  \/ closer'[c] = closer[c]
           \/ closer'[c].pc = "reading"
           \/ closer'[c].pc = "idle"
           \/ /\ ReadExpired(c)
              /\ closer'[c].pc = "finalizing"
              /\ closer'[c].owner = closer[c].owner
              /\ closer'[c].question \in Open
           \/ /\ FinalizeCommits(c)
              /\ closer'[c].owner = closer[c].owner
              /\ closer'[c].question = closer[c].question
              /\ closer'[c].pc \in {"announcing", "finishing"}
<1>1. TypeOK
  BY DEF IInv
<1>2. CASE ReadExpired(c)
  <2>1. PICK q \in Open : closer' = [closer EXCEPT ![c] =
                [@ EXCEPT !.pc = "finalizing", !.question = q]]
    BY <1>2 DEF ReadExpired
  <2>2. QED
    BY <1>1, <1>2, <2>1 DEF TypeOK
<1>3. CASE FinalizeCommits(c)
  BY <1>1, <1>3 DEF FinalizeCommits, TypeOK
<1>4. CASE TimerFires(c) \/ InteractionCloses(c)
  BY <1>1, <1>4 DEF TimerFires, InteractionCloses, CloserAt, TypeOK
<1>5. CASE \/ ReadNotExpired(c) \/ FinishClose(c)
           \/ CloseFails(c) \/ CloseReplyLost(c) \/ Crash
  BY <1>1, <1>5
     DEF ReadNotExpired, FinishClose, CloseFails, CloseReplyLost, Crash,
         IdleCloser, CloserAt, TypeOK
<1>6. QED
  BY <1>2, <1>3, <1>4, <1>5, CallMoves

LEMMA OwnCallStep ==
    ASSUME IInv, TimersOfAsked, [Next]_vars,
           NEW c \in Closer, Found(c)', closer'[c].owner \in Open'
    PROVE  closer'[c].pc = "finalizing" /\ closer'[c].question = closer'[c].owner
<1>1. TypeOK /\ TypeOK'
  BY TypeStep DEF IInv
<1>2. closer'[c].owner # NoQuestion
  BY QuestionAssumption DEF Open
<1>3. ASSUME closer[c].pc # "idle", closer'[c].owner = closer[c].owner
      PROVE  closer[c].owner \in Open
  BY <1>1, <1>2, <1>3, OpenBefore DEF TimersOfAsked
<1>4. CASE closer'[c] = closer[c]
  BY <1>3, <1>4 DEF Found, TimersOfAsked
<1>5. CASE /\ ReadExpired(c)
           /\ closer'[c].pc = "finalizing"
           /\ closer'[c].owner = closer[c].owner
           /\ closer'[c].question \in Open
  BY <1>3, <1>5 DEF ReadExpired, IInv, StateMatchesQuestions
<1>6. CASE /\ FinalizeCommits(c)
           /\ closer'[c].owner = closer[c].owner
  <2>1. closer[c].owner = closer[c].question
    BY <1>3, <1>6 DEF FinalizeCommits, TimersOfAsked, Found
  <2>2. closer[c].owner \notin Open'
    BY <1>1, <1>3, <1>6, <2>1 DEF FinalizeCommits, FinalizeRows, Open, TypeOK
  <2>3. QED
    BY <1>6, <2>2
<1>7. QED
  BY <1>4, <1>5, <1>6, CallStages DEF Found

LEMMA FinishersStep ==
    ASSUME IInv, FinishersClosed, [Next]_vars, NEW c \in Closer,
           closer'[c].pc \in {"announcing", "finishing"}
    PROVE  closer'[c].question \notin Open'
<1>1. TypeOK /\ TypeOK'
  BY TypeStep DEF IInv
<1>2. CASE closer'[c] = closer[c]
  <2>1. closer[c].question \in Asked /\ closer[c].question \notin Open
    BY <1>2 DEF FinishersClosed, IInv, ClosersOverdue, Found
  <2>2. QED
    BY <1>1, <1>2, <2>1, OpenBefore
<1>3. CASE FinalizeCommits(c) /\ closer'[c].question = closer[c].question
  BY <1>1, <1>3 DEF FinalizeCommits, FinalizeRows, Open, TypeOK
<1>4. QED
  BY <1>2, <1>3, CallStages

\* The failure counter never goes back, and says when a call failed.
LEMMA FailureChanges ==
    ASSUME IInv, [Next]_vars, failures' = 0
    PROVE  /\ failures = 0
           /\ \A c \in Closer : ~CloseFails(c) /\ ~CloseReplyLost(c)
           /\ \A q \in Question : ~StartReplyLost(q)
<1>1. failures \in Nat /\ (failures' = failures \/ failures' = failures + 1)
  BY DEF IInv, TypeOK, Next, vars, envVars, HostStep, ParticipantStep,
         CloseStep, FailureStep, Start, StartQuestion, ShowLeaderboard,
         HideLeaderboard, End, JoinAdmitted, RecordJoin, SubmitReceived,
         SubmitStored, SubmitRefused, ScheduleAsked, StartReplyLost, Forget,
         TimerFires, InteractionCloses, ReadExpired, ReadNotExpired,
         FinalizeCommits, FinishClose, CloseFails, CloseReplyLost, Crash,
         Restart, Tick
<1>2. failures = 0
  BY <1>1
<1>3. QED
  BY <1>1, <1>2 DEF CloseFails, CloseReplyLost, StartReplyLost

Covered(q) ==
    \/ q \in unarmed
    \/ timer.question = q /\ timer.at = endsAt[q]
    \/ \E c \in Closer : closer[c].pc # "idle" /\ closer[c].owner = q

LEMMA CoverStep ==
    ASSUME IInv, CoverInv, [Next]_vars, up', failures' = 0,
           NEW q \in Question, q \in Open'
    PROVE  Covered(q)'
<1> USE DEF Covered
<1>1. TypeOK /\ TypeOK' /\ q # NoQuestion
  BY TypeStep, QuestionAssumption DEF IInv
<1>2. /\ failures = 0
      /\ \A c \in Closer : ~CloseFails(c) /\ ~CloseReplyLost(c)
      /\ \A r \in Question : ~StartReplyLost(r)
      /\ ~Crash
  BY FailureChanges DEF Crash
<1>3. CASE q \notin Asked
  <2>1. StartQuestion(q)
    BY <1>1, <1>3, RowChanges
       DEF Start, ShowLeaderboard, HideLeaderboard, End, StartQuestion,
           FinalizeRows, Asked, Open, TypeOK
  <2>2. QED
    BY <2>1 DEF StartQuestion
<1>4. CASE q \in Asked
  <2>1. q \in Open /\ endsAt'[q] = endsAt[q]
    BY <1>1, <1>4, OpenBefore, Growth DEF Asked
  <2>2. state # "COMPLETED" /\ \A r \in Open : r = q
    BY <2>1 DEF IInv, StateMatchesQuestions
  <2>3. CASE Restart
    BY <1>1, <2>1, <2>2, <2>3 DEF Restart, Scheduled
  <2>4. CASE ~Restart
    <3>1. up
      BY <1>2, <2>4, TimerChanges
         DEF ScheduleAsked, Forget, TimerFires, FinishClose
    <3>2. Covered(q)
      BY <1>2, <2>1, <3>1 DEF CoverInv, TimerCoversOpen
    <3>3. CASE q \in unarmed
      <4>1. CASE ScheduleAsked(q)
        BY <1>1, <2>1, <4>1 DEF ScheduleAsked, Scheduled
      <4>2. CASE ~ScheduleAsked(q)
        <5>1. ASSUME NEW r \in Question, r # q, ScheduleAsked(r)
              PROVE  q \in unarmed'
          BY <3>3, <5>1 DEF ScheduleAsked
        <5>2. QED
          BY <1>2, <3>3, <4>2, <5>1, UnarmedChanges DEF StartQuestion
      <4>3. QED
        BY <4>1, <4>2
    <3>4. CASE timer.question = q /\ timer.at = endsAt[q]
      <4>1. CASE timer' = timer
        BY <2>1, <3>4, <4>1
      <4>2. ASSUME NEW r \in Question, ScheduleAsked(r)
            PROVE  Covered(q)'
        <5>1. r \in unarmed
          BY <4>2 DEF ScheduleAsked
        <5>2. r = q
          BY <1>1, <2>2, <5>1
             DEF CoverInv, UnarmedRunning, Asked, Open, TypeOK
        <5>3. QED
          BY <1>1, <2>1, <4>2, <5>2 DEF ScheduleAsked, Scheduled
      <4>3. ~Forget
        BY <2>2 DEF Forget, CoverInv, ForgetsEnded
      <4>4. ASSUME NEW c \in Closer, TimerFires(c)
            PROVE  Covered(q)'
        <5>1. closer'[c].pc = "reading" /\ closer'[c].owner = q
          BY <1>1, <3>4, <4>4 DEF TimerFires, CloserAt, TypeOK
        <5>2. QED
          BY <5>1
      <4>5. ASSUME NEW c \in Closer, FinishClose(c)
            PROVE  timer' = timer
        <5>1. closer[c].question # q
          BY <2>1, <4>5 DEF FinishClose, CoverInv, FinishersClosed
        <5>2. QED
          BY <3>4, <4>5, <5>1 DEF FinishClose, ClearTimer
      <4>6. QED
        BY <1>2, <2>4, <4>1, <4>2, <4>3, <4>4, <4>5, TimerChanges
    <3>5. ASSUME NEW c \in Closer, closer[c].pc # "idle", closer[c].owner = q
          PROVE  Covered(q)'
      <4>1. endsAt[q] <= now
        BY <1>1, <3>5 DEF CoverInv, TimersOfAsked
      <4>2. ~ReadNotExpired(c)
        <5>1. endsAt[q] \in Nat /\ now \in Nat
          BY <1>1, <2>1, NumberAssumption DEF TypeOK
        <5>2. ~(endsAt[q] > now)
          BY <4>1, <5>1
        <5>3. QED
          BY <2>1, <5>2 DEF ReadNotExpired
      <4>3. ~FinishClose(c)
        BY <2>1, <3>5 DEF FinishClose, CoverInv, TimersOfAsked, Found
      <4>4. ~TimerFires(c) /\ ~InteractionCloses(c)
        BY <3>5 DEF TimerFires, InteractionCloses
      <4>5. closer'[c].pc # "idle" /\ closer'[c].owner = q
        <5>1. CASE closer'[c] = closer[c]
          BY <3>5, <5>1
        <5>2. CASE ReadExpired(c)
          <6>1. PICK r \in Open : closer' = [closer EXCEPT ![c] =
                        [@ EXCEPT !.pc = "finalizing", !.question = r]]
            BY <5>2 DEF ReadExpired
          <6>2. QED
            BY <1>1, <3>5, <6>1 DEF TypeOK
        <5>3. CASE FinalizeCommits(c)
          BY <1>1, <3>5, <5>3 DEF FinalizeCommits, TypeOK
        <5>4. QED
          BY <1>2, <4>2, <4>3, <4>4, <5>1, <5>2, <5>3, CallMoves
      <4>6. QED
        BY <4>5
    <3>6. QED
      BY <3>2, <3>3, <3>4, <3>5
  <2>5. QED
    BY <2>3, <2>4
<1>5. QED
  BY <1>3, <1>4

LEMMA CoverInvStep == IInv /\ CoverInv /\ [Next]_vars => CoverInv'
<1> SUFFICES ASSUME IInv, CoverInv, [Next]_vars PROVE CoverInv'
  OBVIOUS
<1>1. UnarmedRunning'
  BY UnarmedStep DEF CoverInv
<1>2. TimersOfAsked'
  BY TimerTargetStep, OwnerStep, OwnCallStep DEF CoverInv, TimersOfAsked
<1>3. FinishersClosed'
  BY FinishersStep DEF CoverInv, FinishersClosed
<1>4. ForgetsEnded'
  BY ForgetsEndedStep DEF CoverInv
<1>5. TimerCoversOpen'
  BY CoverStep DEF TimerCoversOpen, Covered, Open
<1>6. QED
  BY <1>1, <1>2, <1>3, <1>4, <1>5 DEF CoverInv

\* While no call fails, a running process has the close timer of the open
\* question armed, or its firing under way: also across restarts and whatever
\* other calls do with timers.
THEOREM TimerCovers == Spec => []TimerCoversOpen
<1>1. CoverInv => TimerCoversOpen
  BY DEF CoverInv
<1>2. QED
  BY <1>1, CoverInit, CoverInvStep, Invariant, PTL DEF Spec

-----------------------------------------------------------------------------
(* Who takes the timer of an open question away.                             *)

\* A stopped process has no timer.
DownHasNoTimer == ~up => timer.question = NoQuestion

\* The call that failed last was of a question that is not open any more.
RetriesClosed(c) ==
    /\ CloseFails(c) \/ CloseReplyLost(c)
    /\ closer[c].owner \in Asked \ Open

\* The timer of an open question is replaced by another question's only when
\* the close of a question that is over already fails and is retried
\* (service.ts, the catch of schedule): nothing else that runs late does it,
\* neither a startQuestion, a boot, a forget nor another call of closeExpired.
OnlyRetriesReplace ==
    [][timer.question \in Open
       /\ timer'.question \notin {timer.question, NoQuestion}
       => \E c \in Closer : RetriesClosed(c)]_vars

\* No database call of closeExpired fails.
ClosesAnswered ==
    [][\A c \in Closer : ~CloseFails(c) /\ ~CloseReplyLost(c)]_vars

TimerInv == UnarmedRunning /\ TimersOfAsked /\ DownHasNoTimer

LEMMA TimerInvInit == Init => TimerInv
BY DEF Init, TimerInv, UnarmedRunning, TimersOfAsked, DownHasNoTimer, Open,
       Asked, NoTimer, IdleCloser, CloserAt, Found

LEMMA TimerInvStep == IInv /\ TimerInv /\ [Next]_vars => TimerInv'
<1> SUFFICES ASSUME IInv, TimerInv, [Next]_vars PROVE TimerInv'
  OBVIOUS
<1>1. UnarmedRunning'
  BY UnarmedStep DEF TimerInv
<1>2. TimersOfAsked'
  BY TimerTargetStep, OwnerStep, OwnCallStep DEF TimerInv, TimersOfAsked
<1>3. DownHasNoTimer'
  <2>1. CASE UNCHANGED <<timer, up>>
    BY <2>1 DEF TimerInv, DownHasNoTimer
  <2>2. CASE Crash
    BY <2>2 DEF DownHasNoTimer, Crash, NoTimer
  <2>3. CASE Restart
    BY <2>3 DEF DownHasNoTimer, Restart
  <2>4. CASE \/ \E q \in Question : ScheduleAsked(q)
             \/ Forget
             \/ \E c \in Closer :
                    \/ TimerFires(c) \/ FinishClose(c)
                    \/ CloseFails(c) \/ CloseReplyLost(c)
    <3>1. up' = up /\ up
      BY <2>4 DEF ScheduleAsked, Forget, TimerFires, FinishClose, CloseFails,
                  CloseReplyLost
    <3>2. QED
      BY <3>1 DEF DownHasNoTimer
  <2>5. QED
    BY <2>1, <2>2, <2>3, <2>4, TimerChanges
<1>4. QED
  BY <1>1, <1>2, <1>3 DEF TimerInv

LEMMA ReplacedByRetry ==
    ASSUME IInv, TimerInv, [Next]_vars, timer.question \in Open,
           timer'.question \notin {timer.question, NoQuestion}
    PROVE  \E c \in Closer : RetriesClosed(c)
<1>1. TypeOK /\ \A q, r \in Open : q = r
  BY DEF IInv, StateMatchesQuestions
<1>2. state = "QUESTION_ACTIVE"
  BY DEF IInv, StateMatchesQuestions
<1>3. ASSUME NEW q \in Question, ScheduleAsked(q)
      PROVE  FALSE
  <2>1. q \in Asked /\ status[q] # "COMPLETED"
    BY <1>2, <1>3 DEF ScheduleAsked, TimerInv, UnarmedRunning
  <2>2. q \in Open
    BY <1>1, <2>1 DEF Asked, Open, TypeOK
  <2>3. QED
    BY <1>1, <1>3, <2>2 DEF ScheduleAsked, Scheduled
<1>4. ASSUME NEW c \in Closer, timer' = RetryTimer(c), closer[c].pc # "idle"
      PROVE  closer[c].owner \in Asked \ Open
  <2>1. closer[c].owner # NoQuestion /\ timer'.question = closer[c].owner
    BY <1>4 DEF RetryTimer, Scheduled
  <2>2. closer[c].owner \in Asked
    BY <1>4, <2>1 DEF TimerInv, TimersOfAsked
  <2>3. QED
    BY <1>1, <2>1, <2>2
<1>5. ~Restart
  BY QuestionAssumption DEF Restart, TimerInv, DownHasNoTimer, Open
<1>6. ~Forget /\ ~Crash
  BY DEF Forget, Crash, NoTimer
<1>7. ASSUME NEW c \in Closer, TimerFires(c) \/ FinishClose(c)
      PROVE  FALSE
  BY <1>7 DEF TimerFires, FinishClose, ClearTimer, NoTimer
<1>8. ASSUME NEW c \in Closer, CloseFails(c) \/ CloseReplyLost(c)
      PROVE  RetriesClosed(c)
  <2>1. timer' = RetryTimer(c) /\ closer[c].pc # "idle"
    BY <1>8 DEF CloseFails, CloseReplyLost
  <2>2. QED
    BY <1>4, <1>8, <2>1 DEF RetriesClosed
<1>9. timer' # timer
  OBVIOUS
<1>10. QED
  BY <1>3, <1>5, <1>6, <1>7, <1>8, <1>9, TimerChanges

\* Only the retry of a close whose question is over can replace the timer of
\* an open question: this is the whole of what clearTimer's comment misses.
THEOREM OnlyRetriesReplaceTimers == Spec => OnlyRetriesReplace
<1>1. IInv /\ TimerInv /\ [Next]_vars
        => [timer.question \in Open
            /\ timer'.question \notin {timer.question, NoQuestion}
            => \E c \in Closer : RetriesClosed(c)]_vars
  BY ReplacedByRetry
<1>2. QED
  BY <1>1, TimerInvInit, TimerInvStep, Invariant, PTL
     DEF Spec, OnlyRetriesReplace

\* While no call of closeExpired fails, the comment of clearTimer is true: the
\* timer of an open question stays, or goes with its firing or the end.
THEOREM AnsweredClosesKeepTimers ==
    Spec /\ ClosesAnswered => OpenTimerNotReplaced
<1>1. /\ IInv /\ TimerInv /\ [Next]_vars
      /\ [\A c \in Closer : ~CloseFails(c) /\ ~CloseReplyLost(c)]_vars
      => [timer.question \in Open /\ timer' # timer =>
            timer'.question \in {timer.question, NoQuestion}]_vars
  BY ReplacedByRetry DEF RetriesClosed
<1>2. QED
  BY <1>1, TimerInvInit, TimerInvStep, Invariant, PTL
     DEF Spec, ClosesAnswered, OpenTimerNotReplaced

-----------------------------------------------------------------------------
(* The quiz the session belongs to.                                          *)

\* The quiz, as its session decides it.  "host" and "quiz" stand for its host
\* and id; who registers is not this module's.
Room == INSTANCE QuizStatus WITH
            Account <- {"host"}, Quiz <- {"quiz"}, NoAccount <- "nobody",
            accounts <- {"host"},
            status <- [q \in {"quiz"} |->
                        IF state \in {"LOBBY", "COMPLETED"} THEN state ELSE "LIVE"],
            host <- [q \in {"quiz"} |-> "host"],
            registered <- [q \in {"quiz"} |-> {}]

\* Whatever questions, late closes, retries and restarts do, the quiz only
\* takes the steps of QuizStatus: a close that commits after the end does not
\* bring the quiz back.
THEOREM RoomFollowsQuizStatus == Spec => [][Room!Next]_(Room!vars)
<1>1. IInv /\ [Next]_vars => [Room!Next]_(Room!vars)
  <2> SUFFICES ASSUME IInv, [Next]_vars PROVE [Room!Next]_(Room!vars)
    OBVIOUS
  <2>1. CASE state # "LOBBY" /\ state # "COMPLETED" /\ state' # "LOBBY"
             /\ state' # "COMPLETED"
    BY <2>1 DEF Room!vars
  <2>2. CASE state' = state
    BY <2>2 DEF Room!vars
  <2>3. CASE Start \/ End
    <3>1. Room!Lives("quiz")
      BY <2>3 DEF Start, End, IInv, TypeOK, SessionStates,
                  Room!Lives, Room!Start, Room!End, Room!Becomes
    <3>2. QED
      BY <3>1 DEF Room!Next
  <2>4. QED
    BY <2>1, <2>2, <2>3, RowChanges
       DEF StartQuestion, ShowLeaderboard, HideLeaderboard, FinalizeRows
<1>2. QED
  BY <1>1, Invariant, PTL DEF Spec

=============================================================================
