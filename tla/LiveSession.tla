---------------------------- MODULE LiveSession ----------------------------
(***************************************************************************)
(* The question lifecycle of one live quiz session                          *)
(* (apps/api/src/modules/live-sessions/{service,repository}.ts).            *)
(*                                                                          *)
(* PostgreSQL holds the session row, the asked questions, the accepted      *)
(* answers, the attendance and the final results.  The single API process   *)
(* holds the close timer and the calls that are between two awaits:         *)
(* closeExpired (read, finalize, finish), submit (receipt, insert),         *)
(* startQuestion (insert, schedule), join (admission, upsert), end (commit, *)
(* forget).  Every SQL statement or transaction is one step: each takes the *)
(* session row lock or is a single conditional statement.                   *)
(*                                                                          *)
(* What an answer says and what it earns are abstracted to the server time  *)
(* of its receipt, which decides both whether it counts and its points.     *)
(* Registration, host presence and session deadlines are Attendance's and   *)
(* SessionDeadlines'.                                                       *)
(***************************************************************************)
EXTENDS Integers

CONSTANTS
    Question,      \* questions of the quiz
    Participant,   \* registered users
    Closer,        \* concurrent calls of closeExpired (bounds concurrency)
    NoQuestion,    \* not a question
    NoResult,      \* no quiz_results row
    Duration,      \* durationSeconds of a question, in clock ticks
    RetryDelay,    \* CLOSE_RETRY_MS, in clock ticks
    MaxRetries,    \* CLOSE_MAX_RETRIES
    Horizon,       \* bound on the clock
    MaxFailures,   \* bound on failing database calls
    MaxCrashes     \* bound on API restarts

NoAnswer == -1
Stamp == (0..Horizon) \cup {NoAnswer}

ASSUME QuestionAssumption == NoQuestion \notin Question
ASSUME ResultAssumption == NoResult \notin [Question -> Stamp]
ASSUME NumberAssumption ==
    /\ Duration \in Nat \ {0}
    /\ RetryDelay \in Nat
    /\ MaxRetries \in Nat
    /\ Horizon \in Nat
    /\ MaxFailures \in Nat
    /\ MaxCrashes \in Nat

VARIABLES
    \* PostgreSQL
    state,          \* live_quiz_sessions.state
    status,         \* asked_questions.status; "UNASKED" is no row
    endsAt,         \* asked_questions.endsAt
    answers,        \* answer_submissions: receipt time per user and question
    participation,  \* participant_sessions
    results,        \* quiz_results
    \* the API process
    up,             \* the process is running
    timer,          \* LiveSessionsService.timers, this session's entry
    unarmed,        \* questions asked whose startQuestion has not scheduled yet
    closer,         \* closeExpired calls under way
    receipt,        \* submit calls between receipt and insert
    admitted,       \* join calls between admission and recordJoin
    forgetDue,      \* end committed, forget not run yet
    announced,      \* questionEnded events emitted per question
    \* the environment
    now,            \* the clock
    failures,       \* failing calls so far
    crashes         \* restarts so far

dbVars == <<state, status, endsAt, answers, participation, results>>
callVars == <<unarmed, closer, receipt, admitted, forgetDue>>
envVars == <<now, failures, crashes>>
vars == <<dbVars, up, timer, callVars, announced, envVars>>

SessionStates ==
    {"LOBBY", "LIVE_IDLE", "QUESTION_ACTIVE", "QUESTION_RESULT",
     "LEADERBOARD", "COMPLETED"}
QuestionOrNone == Question \cup {NoQuestion}
NoTimer == [question |-> NoQuestion, at |-> 0, attempt |-> 0]
NoReceipt == [question |-> NoQuestion, at |-> 0]
CloserAt(pc, owner, attempt) ==
    [pc |-> pc, owner |-> owner, attempt |-> attempt, question |-> NoQuestion]
IdleCloser == CloserAt("idle", NoQuestion, 0)

Asked == {q \in Question : status[q] # "UNASKED"}
Open == {q \in Question : status[q] = "ACTIVE"}

TypeOK ==
    /\ state \in SessionStates
    /\ status \in [Question -> {"UNASKED", "ACTIVE", "COMPLETED"}]
    /\ endsAt \in [Question -> 0..Horizon]
    /\ answers \in [Participant -> [Question -> Stamp]]
    /\ participation \in SUBSET Participant
    /\ results \in [Participant -> [Question -> Stamp] \cup {NoResult}]
    /\ up \in BOOLEAN
    /\ timer \in [question : QuestionOrNone, at : Nat, attempt : 0..MaxRetries]
    /\ timer.question = NoQuestion => timer = NoTimer
    /\ unarmed \in SUBSET Question
    /\ closer \in [Closer ->
            [pc : {"idle", "reading", "finalizing", "announcing", "finishing"},
             owner : QuestionOrNone, attempt : 0..MaxRetries,
             question : QuestionOrNone]]
    /\ receipt \in [Participant -> [question : QuestionOrNone, at : 0..Horizon]]
    /\ admitted \in SUBSET Participant
    /\ forgetDue \in BOOLEAN
    /\ announced \in [Question -> Nat]
    /\ now \in 0..Horizon
    /\ failures \in Nat
    /\ crashes \in Nat

\* openLobby has created the session; nothing is asked yet.
Init ==
    /\ state = "LOBBY"
    /\ status = [q \in Question |-> "UNASKED"]
    /\ endsAt = [q \in Question |-> 0]
    /\ answers = [p \in Participant |-> [q \in Question |-> NoAnswer]]
    /\ participation = {}
    /\ results = [p \in Participant |-> NoResult]
    /\ up = TRUE
    /\ timer = NoTimer
    /\ unarmed = {}
    /\ closer = [c \in Closer |-> IdleCloser]
    /\ receipt = [p \in Participant |-> NoReceipt]
    /\ admitted = {}
    /\ forgetDue = FALSE
    /\ announced = [q \in Question |-> 0]
    /\ now = 0
    /\ failures = 0
    /\ crashes = 0

-----------------------------------------------------------------------------
(* Host commands: one conditional statement or locked transaction each.      *)

\* start: LOBBY to LIVE_IDLE.
Start ==
    /\ up
    /\ state = "LOBBY"
    /\ state' = "LIVE_IDLE"
    /\ UNCHANGED <<status, endsAt, answers, participation, results, up, timer,
                   callVars, announced, envVars>>

\* The one statement that moves the session to QUESTION_ACTIVE and inserts
\* the asked question, whose end was computed when it was sent; a question
\* already asked or another state changes nothing.  The timer is scheduled
\* when the call resumes (ScheduleAsked).  The Horizon guard only keeps the
\* clock bounded; that the statement commits before the question is over is
\* the bound of Tick.
StartQuestion(q) ==
    /\ up
    /\ state \in {"LIVE_IDLE", "QUESTION_RESULT", "LEADERBOARD"}
    /\ status[q] = "UNASKED"
    /\ \E sent \in 0..now :
        /\ now < sent + Duration
        /\ sent + Duration <= Horizon
        /\ endsAt' = [endsAt EXCEPT ![q] = sent + Duration]
    /\ state' = "QUESTION_ACTIVE"
    /\ status' = [status EXCEPT ![q] = "ACTIVE"]
    /\ unarmed' = unarmed \cup {q}
    /\ UNCHANGED <<answers, participation, results, up, timer, closer, receipt,
                   admitted, forgetDue, announced, envVars>>

\* schedule replaces whatever timer the session had.
Scheduled(q, at, attempt) ==
    [question |-> q, at |-> at, attempt |-> attempt]

\* The rest of startQuestion: arm the close timer of the question just asked.
ScheduleAsked(q) ==
    /\ up
    /\ q \in unarmed
    /\ unarmed' = unarmed \ {q}
    /\ timer' = Scheduled(q, endsAt[q], 0)
    /\ UNCHANGED <<dbVars, up, closer, receipt, admitted, forgetDue, announced,
                   envVars>>

\* The statement committed but its reply was lost: the host gets an error and
\* nothing is scheduled.
StartReplyLost(q) ==
    /\ up
    /\ q \in unarmed
    /\ failures < MaxFailures
    /\ failures' = failures + 1
    /\ unarmed' = unarmed \ {q}
    /\ UNCHANGED <<dbVars, up, timer, closer, receipt, admitted, forgetDue,
                   announced, now, crashes>>

\* setLeaderboard: presentation only, one conditional update each way.
ShowLeaderboard ==
    /\ up
    /\ state = "QUESTION_RESULT"
    /\ state' = "LEADERBOARD"
    /\ UNCHANGED <<status, endsAt, answers, participation, results, up, timer,
                   callVars, announced, envVars>>

HideLeaderboard ==
    /\ up
    /\ state = "LEADERBOARD"
    /\ state' = "QUESTION_RESULT"
    /\ UNCHANGED <<status, endsAt, answers, participation, results, up, timer,
                   callVars, announced, envVars>>

\* The rows finalResultRows selects: everyone who entered, with the points of
\* every asked question.
FinalRows ==
    [p \in Participant |->
        IF p \in participation
        THEN [q \in Question |->
                IF q \in Asked THEN answers[p][q] ELSE NoAnswer]
        ELSE NoResult]

\* A mutation of End: the open question is left open.
EndLeavesOpen ==
    /\ up
    /\ state # "COMPLETED"
    /\ state' = "COMPLETED"
    /\ results' = FinalRows
    /\ forgetDue' = TRUE
    /\ UNCHANGED <<status, endsAt, answers, participation, up, timer, unarmed,
                   closer, receipt, admitted, announced, envVars>>

\* end, by the host or by a deadline (autoEnd): close what is open, save the
\* results once, complete the session.  Not refused in the lobby.
End ==
    /\ up
    /\ state # "COMPLETED"
    /\ state' = "COMPLETED"
    /\ status' = [q \in Question |->
                    IF status[q] = "ACTIVE" THEN "COMPLETED" ELSE status[q]]
    /\ results' = FinalRows
    /\ forgetDue' = TRUE
    /\ UNCHANGED <<endsAt, answers, participation, up, timer, unarmed,
                   closer, receipt, admitted, announced, envVars>>

\* forget: the finished session's timer goes, whichever question it is for.
Forget ==
    /\ up
    /\ forgetDue
    /\ forgetDue' = FALSE
    /\ timer' = NoTimer
    /\ UNCHANGED <<dbVars, up, unarmed, closer, receipt, admitted, announced,
                   envVars>>

-----------------------------------------------------------------------------
(* Participants.                                                             *)

\* join, up to the last check before the attendance is written.
JoinAdmitted(p) ==
    /\ up
    /\ p \notin admitted \cup participation
    /\ state # "COMPLETED"
    /\ admitted' = admitted \cup {p}
    /\ UNCHANGED <<dbVars, up, timer, unarmed, closer, receipt, forgetDue,
                   announced, envVars>>

\* recordJoin: an upsert that does not look at the session again.
RecordJoin(p) ==
    /\ up
    /\ p \in admitted
    /\ admitted' = admitted \ {p}
    /\ participation' = participation \cup {p}
    /\ UNCHANGED <<state, status, endsAt, answers, results, up, timer, unarmed,
                   closer, receipt, forgetDue, announced, envVars>>

\* submit: the receipt time is taken first and compared with the cached key's
\* deadline; the key may be of a question that has closed since.
SubmitReceived(p, q) ==
    /\ up
    /\ p \in participation
    /\ receipt[p].question = NoQuestion
    /\ status[q] # "UNASKED"
    /\ now < endsAt[q]
    /\ receipt' = [receipt EXCEPT ![p] = [question |-> q, at |-> now]]
    /\ UNCHANGED <<dbVars, up, timer, unarmed, closer, admitted, forgetDue,
                   announced, envVars>>

\* A mutation of SubmitStored: the insert does not look at the status again.
SubmitStoredUnchecked(p) ==
    /\ up
    /\ receipt[p].question # NoQuestion
    /\ answers' = [answers EXCEPT ![p][receipt[p].question] =
                    IF @ = NoAnswer THEN receipt[p].at ELSE @]
    /\ receipt' = [receipt EXCEPT ![p] = NoReceipt]
    /\ UNCHANGED <<state, status, endsAt, participation, results, up, timer,
                   unarmed, closer, admitted, forgetDue, announced, envVars>>

\* A mutation of SubmitStored: the time of the insert is stored and scored.
SubmitStamped(p) ==
    /\ up
    /\ receipt[p].question # NoQuestion
    /\ status[receipt[p].question] = "ACTIVE"
    /\ endsAt[receipt[p].question] > receipt[p].at
    /\ answers' = [answers EXCEPT ![p][receipt[p].question] =
                    IF @ = NoAnswer THEN now ELSE @]
    /\ receipt' = [receipt EXCEPT ![p] = NoReceipt]
    /\ UNCHANGED <<state, status, endsAt, participation, results, up, timer,
                   unarmed, closer, admitted, forgetDue, announced, envVars>>

\* A mutation of SubmitStored: a second answer overwrites the first.
SubmitOverwrites(p) ==
    /\ up
    /\ receipt[p].question # NoQuestion
    /\ status[receipt[p].question] = "ACTIVE"
    /\ answers' = [answers EXCEPT ![p][receipt[p].question] = receipt[p].at]
    /\ receipt' = [receipt EXCEPT ![p] = NoReceipt]
    /\ UNCHANGED <<state, status, endsAt, participation, results, up, timer,
                   unarmed, closer, admitted, forgetDue, announced, envVars>>

\* The insert, under a shared lock on the asked question: only while it is
\* open and was not over at receipt; a second answer conflicts and is dropped
\* (the caller then gets the saved answer or ALREADY_SUBMITTED).
SubmitStored(p) ==
    /\ up
    /\ receipt[p].question # NoQuestion
    /\ status[receipt[p].question] = "ACTIVE"
    /\ endsAt[receipt[p].question] > receipt[p].at
    /\ answers' = [answers EXCEPT ![p][receipt[p].question] =
                    IF @ = NoAnswer THEN receipt[p].at ELSE @]
    /\ receipt' = [receipt EXCEPT ![p] = NoReceipt]
    /\ UNCHANGED <<state, status, endsAt, participation, results, up, timer,
                   unarmed, closer, admitted, forgetDue, announced, envVars>>

\* The same statement once the question has closed: SUBMISSION_CLOSED.
SubmitRefused(p) ==
    /\ up
    /\ receipt[p].question # NoQuestion
    /\ status[receipt[p].question] # "ACTIVE"
    /\ receipt' = [receipt EXCEPT ![p] = NoReceipt]
    /\ UNCHANGED <<dbVars, up, timer, unarmed, closer, admitted, forgetDue,
                   announced, envVars>>

-----------------------------------------------------------------------------
(* closeExpired: called by the timer and by every interaction.               *)

\* The timer fires: its entry is dropped and closeExpired starts.
TimerFires(c) ==
    /\ up
    /\ timer.question # NoQuestion
    /\ now >= timer.at
    /\ closer[c].pc = "idle"
    /\ timer' = NoTimer
    /\ closer' = [closer EXCEPT ![c] =
            CloserAt("reading", timer.question, timer.attempt)]
    /\ UNCHANGED <<dbVars, up, unarmed, receipt, admitted, forgetDue,
                   announced, envVars>>

\* current: any join, sync, submit or host command on an active question.
InteractionCloses(c) ==
    /\ up
    /\ state = "QUESTION_ACTIVE"
    /\ closer[c].pc = "idle"
    /\ closer' = [closer EXCEPT ![c] = CloserAt("reading", NoQuestion, 0)]
    /\ UNCHANGED <<dbVars, up, timer, unarmed, receipt, admitted, forgetDue,
                   announced, envVars>>

\* A mutation of ReadExpired: the deadline is not compared with the clock.
ReadActive(c) ==
    /\ up
    /\ closer[c].pc = "reading"
    /\ \E q \in Open :
        closer' = [closer EXCEPT ![c] =
                [@ EXCEPT !.pc = "finalizing", !.question = q]]
    /\ UNCHANGED <<dbVars, up, timer, unarmed, receipt, admitted, forgetDue,
                   announced, envVars>>

\* activeAsked found a question past its deadline.
ReadExpired(c) ==
    /\ up
    /\ closer[c].pc = "reading"
    /\ \E q \in Open :
        /\ endsAt[q] <= now
        /\ closer' = [closer EXCEPT ![c] =
                [@ EXCEPT !.pc = "finalizing", !.question = q]]
    /\ UNCHANGED <<dbVars, up, timer, unarmed, receipt, admitted, forgetDue,
                   announced, envVars>>

\* activeAsked found no active question, or one still open: nothing to do.
ReadNotExpired(c) ==
    /\ up
    /\ closer[c].pc = "reading"
    /\ \A q \in Open : endsAt[q] > now
    /\ closer' = [closer EXCEPT ![c] = IdleCloser]
    /\ UNCHANGED <<dbVars, up, timer, unarmed, receipt, admitted, forgetDue,
                   announced, envVars>>

\* A mutation of FinalizeRows: the status is not checked again under the lock.
FinalizeRowsUnchecked(q) ==
    /\ status' = [status EXCEPT ![q] = "COMPLETED"]
    /\ state' = IF state = "QUESTION_ACTIVE" THEN "QUESTION_RESULT" ELSE state

\* finalizeQuestion's transaction on the rows: ACTIVE to COMPLETED, and the
\* session to QUESTION_RESULT; nothing when another caller already closed it.
FinalizeRows(q) ==
    IF status[q] = "ACTIVE"
    THEN /\ status' = [status EXCEPT ![q] = "COMPLETED"]
         /\ state' = IF state = "QUESTION_ACTIVE" THEN "QUESTION_RESULT"
                     ELSE state
    ELSE UNCHANGED <<status, state>>

\* A mutation of FinalizeCommits: every caller believes it closed the question.
FinalizeClaims(c) ==
    /\ up
    /\ closer[c].pc = "finalizing"
    /\ FinalizeRows(closer[c].question)
    /\ closer' = [closer EXCEPT ![c].pc = "announcing"]
    /\ UNCHANGED <<endsAt, answers, participation, results, up, timer, unarmed,
                   receipt, admitted, forgetDue, announced, envVars>>

\* finalizeQuestion returns whether this caller closed the question: only then
\* does it announce it.
FinalizeCommits(c) ==
    /\ up
    /\ closer[c].pc = "finalizing"
    /\ FinalizeRows(closer[c].question)
    /\ closer' = [closer EXCEPT ![c] =
            [@ EXCEPT !.pc = IF status[closer[c].question] = "ACTIVE"
                             THEN "announcing" ELSE "finishing"]]
    /\ UNCHANGED <<endsAt, answers, participation, results, up, timer, unarmed,
                   receipt, admitted, forgetDue, announced, envVars>>

\* A mutation of ClearTimer: the timer goes whichever question it is for.
ClearAnyTimer(q) == NoTimer

\* clearTimer with a question: another question's timer stays armed.
ClearTimer(q) == IF timer.question = q THEN NoTimer ELSE timer

\* The rest of closeExpired: disarm, drop caches, announce if it closed it.
FinishClose(c) ==
    /\ up
    /\ closer[c].pc \in {"announcing", "finishing"}
    /\ timer' = ClearTimer(closer[c].question)
    /\ announced' = IF closer[c].pc = "announcing"
                    THEN [announced EXCEPT ![closer[c].question] = @ + 1]
                    ELSE announced
    /\ closer' = [closer EXCEPT ![c] = IdleCloser]
    /\ UNCHANGED <<dbVars, up, unarmed, receipt, admitted, forgetDue, envVars>>

\* A mutation of RetryTimer: a call made for an interaction tries again too.
RetryTimerAnyone(c) ==
    IF closer[c].attempt < MaxRetries
    THEN Scheduled(closer[c].owner, now + RetryDelay, closer[c].attempt + 1)
    ELSE timer

\* The catch of the timer's call: try again later unless it has tried enough.
\* The new timer takes the place of any timer the session has by then.  A
\* call made for an interaction only reports its error.
RetryTimer(c) ==
    IF closer[c].owner # NoQuestion /\ closer[c].attempt < MaxRetries
    THEN Scheduled(closer[c].owner, now + RetryDelay, closer[c].attempt + 1)
    ELSE timer

\* A database call of closeExpired fails without effect.
CloseFails(c) ==
    /\ up
    /\ closer[c].pc \in {"reading", "finalizing"}
    /\ failures < MaxFailures
    /\ failures' = failures + 1
    /\ timer' = RetryTimer(c)
    /\ closer' = [closer EXCEPT ![c] = IdleCloser]
    /\ UNCHANGED <<dbVars, up, unarmed, receipt, admitted, forgetDue,
                   announced, now, crashes>>

\* finalizeQuestion commits and its reply is lost.
CloseReplyLost(c) ==
    /\ up
    /\ closer[c].pc = "finalizing"
    /\ failures < MaxFailures
    /\ failures' = failures + 1
    /\ FinalizeRows(closer[c].question)
    /\ timer' = RetryTimer(c)
    /\ closer' = [closer EXCEPT ![c] = IdleCloser]
    /\ UNCHANGED <<endsAt, answers, participation, results, up, unarmed,
                   receipt, admitted, forgetDue, announced, now, crashes>>

-----------------------------------------------------------------------------
(* The process and the clock.                                                *)

\* The API process stops: everything in memory is gone.
Crash ==
    /\ up
    /\ crashes < MaxCrashes
    /\ crashes' = crashes + 1
    /\ up' = FALSE
    /\ timer' = NoTimer
    /\ unarmed' = {}
    /\ closer' = [c \in Closer |-> IdleCloser]
    /\ receipt' = [p \in Participant |-> NoReceipt]
    /\ admitted' = {}
    /\ forgetDue' = FALSE
    /\ UNCHANGED <<dbVars, announced, now, failures>>

\* A mutation of Restart: the timers are not armed again.
RestartUnarmed ==
    /\ ~up
    /\ up' = TRUE
    /\ UNCHANGED <<dbVars, timer, callVars, announced, envVars>>

\* Boot: recoverQuestionTimers arms the timer of the active question, if any.
Restart ==
    /\ ~up
    /\ up' = TRUE
    /\ \/ \E q \in Open : timer' = Scheduled(q, endsAt[q], 0)
       \/ Open = {} /\ timer' = timer
    /\ UNCHANGED <<dbVars, callVars, announced, envVars>>

\* Bound: startQuestion's statement and its reply do not take longer than the
\* question lasts (seconds at least), so its timer is armed before its end.
Tick ==
    /\ now < Horizon
    /\ \A q \in unarmed : now + 1 < endsAt[q] \/ status[q] # "ACTIVE"
    /\ now' = now + 1
    /\ UNCHANGED <<dbVars, up, timer, callVars, announced, failures, crashes>>

-----------------------------------------------------------------------------

HostStep ==
    \/ Start
    \/ \E q \in Question : StartQuestion(q)
    \/ ShowLeaderboard
    \/ HideLeaderboard
    \/ End

ParticipantStep ==
    \E p \in Participant :
        \/ JoinAdmitted(p)
        \/ RecordJoin(p)
        \/ \E q \in Question : SubmitReceived(p, q)
        \/ SubmitStored(p)
        \/ SubmitRefused(p)

CloseStep(c) ==
    \/ ReadExpired(c)
    \/ ReadNotExpired(c)
    \/ FinalizeCommits(c)
    \/ FinishClose(c)

FailureStep ==
    \/ \E q \in Question : StartReplyLost(q)
    \/ \E c \in Closer : CloseFails(c) \/ CloseReplyLost(c)
    \/ Crash

Next ==
    \/ HostStep
    \/ ParticipantStep
    \/ \E q \in Question : ScheduleAsked(q)
    \/ Forget
    \/ \E c \in Closer : TimerFires(c) \/ InteractionCloses(c) \/ CloseStep(c)
    \/ FailureStep
    \/ Restart
    \/ Tick

Spec == Init /\ [][Next]_vars

\* Node runs what is scheduled and resumes what is awaited, and the process
\* is restarted when it stops; nobody has to do anything.
Fairness ==
    /\ WF_vars(Tick)
    /\ WF_vars(Restart)
    /\ \A q \in Question : WF_vars(ScheduleAsked(q))
    /\ WF_vars(\E c \in Closer : TimerFires(c))
    /\ \A c \in Closer : WF_vars(CloseStep(c))

FairSpec == Spec /\ Fairness

-----------------------------------------------------------------------------
(* Properties.                                                               *)

\* The session row and the asked questions tell the same story: a question is
\* open exactly in QUESTION_ACTIVE, never two at once; a result or leaderboard
\* screen has a finished question behind it; before the first question and in
\* the lobby nothing was asked.
StateMatchesQuestions ==
    /\ \A q, r \in Open : q = r
    /\ state = "QUESTION_ACTIVE" <=> Open # {}
    /\ state \in {"QUESTION_RESULT", "LEADERBOARD"} => Asked # {}
    /\ state \in {"LOBBY", "LIVE_IDLE"} => Asked = {}

\* Every accepted answer was received while its question was running: not
\* before it was asked and strictly before its deadline, however late the
\* insert ran.
AnswersInTime ==
    \A p \in Participant, q \in Question :
        answers[p][q] # NoAnswer =>
            /\ status[q] # "UNASKED"
            /\ endsAt[q] - Duration <= answers[p][q]
            /\ answers[p][q] < endsAt[q]

\* An accepted answer is never replaced, and once a question has closed no
\* answer to it is accepted any more, whatever calls are still under way.
AnswersFrozen ==
    [][\A p \in Participant, q \in Question :
        answers'[p][q] # answers[p][q] =>
            answers[p][q] = NoAnswer /\ status[q] = "ACTIVE"]_vars

\* When the quiz is over, each saved result is still what its participant's
\* accepted answers add up to, and everyone with an accepted answer has one
\* (an attendance removed by an unregistration is Attendance's).
ResultsMatchAnswers ==
    state = "COMPLETED" =>
        \A p \in Participant :
            /\ results[p] # NoResult => results[p] = answers[p]
            /\ (\E q \in Question : answers[p][q] # NoAnswer) =>
                    results[p] # NoResult

\* A question closes before its deadline only because the quiz ends.
NoEarlyClose ==
    [][\A q \in Question :
        status[q] = "ACTIVE" /\ status'[q] = "COMPLETED" =>
            endsAt[q] <= now \/ state' = "COMPLETED"]_vars

\* questionEnded is emitted at most once per question, and only for a closed
\* one, however many timers and interactions race to close it.
AnnouncedAtMostOnce ==
    \A q \in Question :
        /\ announced[q] <= 1
        /\ announced[q] > 0 => status[q] = "COMPLETED"

\* While no call fails, a running process always has the close timer of the
\* active question armed, or its firing under way.
TimerCoversOpen ==
    up /\ failures = 0 =>
        \A q \in Open :
            \/ q \in unarmed
            \/ timer.question = q /\ timer.at = endsAt[q]
            \/ \E c \in Closer : closer[c].pc # "idle" /\ closer[c].owner = q

\* With no participant or host acting, every question asked is closed, also
\* across a restart, unless a call failed: after CLOSE_MAX_RETRIES the code
\* leaves the close to the next interaction.
QuestionCloses ==
    \A q \in Question :
        status[q] = "ACTIVE" ~> status[q] = "COMPLETED" \/ failures > 0

\* The session keeps the promises of QuizRound, whatever timers, retries,
\* crashes and calls under way it has.
Round == INSTANCE QuizRound WITH
    Worth <- 0..Horizon,
    phase <- [q \in Question |->
                CASE status[q] = "UNASKED" -> "unasked"
                  [] status[q] = "ACTIVE" -> "open"
                  [] OTHER -> "closed"],
    answer <- answers,
    entered <- participation,
    finished <- state = "COMPLETED",
    saved <- results
ImplementsRound == Round!Spec

\* "a late caller finishing an older question never disarms the timer of the
\* one asked after it" (service.ts, clearTimer): while its question is open a
\* timer is not replaced by another question's.
OpenTimerNotReplaced ==
    [][timer.question \in Open /\ timer' # timer =>
        timer'.question \in {timer.question, NoQuestion}]_vars

=============================================================================
