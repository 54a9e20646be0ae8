# quiz-mb in TLA+

quiz-mb runs live quizzes: a host writes and publishes a quiz, people register,
the host opens a lobby, participants join, the host asks timed questions, the
server accepts answers until the deadline, and the results are saved when the
quiz ends. This directory holds TLA+ models of the server and of the web
client's connection to it, TLC configurations that check them, and TLAPS proofs
about them.

The server (`src/apps/api/src`, about 9,800 lines) is one Express + Socket.IO
process with PostgreSQL (Prisma), Redis and an object store; the web client
(`src/apps/web/src`) is a Next.js application. Paths below are under
`src/apps/api/src/modules/live-sessions/` unless they say otherwise.

- [1. Inventory](#1-inventory)
- [2. Modules](#2-modules)
- [3. Runs](#3-runs)
- [4. Proofs](#4-proofs)
- [5. Disagreements found](#5-disagreements-found)
- [6. What is not modelled](#6-what-is-not-modelled)
- [7. Plan](#7-plan)

## 1. Inventory

| Component | State | Operations | What makes it correct |
| --- | --- | --- | --- |
| Question lifecycle (`service.ts`, `repository.ts`) | session row, `asked_questions`, `answer_submissions`, `quiz_results`; close timers in memory | start, startQuestion, submit, closeExpired, setLeaderboard, end, boot recovery | one question at a time; answers in time, once, frozen at the close; results match the answers; every question closes and is announced once |
| Session deadlines, host presence (`service.ts`, `live-store.ts`) | `createdAt`, `startedAt`, `hostDisconnectedAt`; deadline timers and host sockets in memory; Redis lock | arm / disarm / enforce, expireLobby, autoEnd, hostArrived / hostLeft, start, end, closeLobby, closeRoom, boot recovery | an unfinished session always has the timer that finishes it; a started quiz is never deleted; the row says the truth about the host |
| Attendance, registrations, socket presence (`service.ts`, `realtime.ts`, `live-store.ts`, `../registrations`) | `quiz_registrations`, `participant_sessions`; Redis presence; sockets and the cache of confirmed users in memory | register, unregister, join, leave, disconnect, registration handler, submit's checks | only registered users answer; the newest tab is the active one; no tab stays that cannot answer |
| Leaderboard, snapshots, caches (`service.ts`) | cached board, questions, image URLs | snapshot, leaderboard, showFinalLeaderboard | a board shows the best, and is not older than the last close |
| Realtime transport (`realtime.ts`, `socket-rate.ts`, `tickets.ts`, `status-realtime.ts`) | sockets, rooms, throttles | handshake, commands, broadcasts, disconnections | who receives what; who is disconnected when a sign-in or a registration ends |
| Answers and scoring (`answers.ts`, `scoring.ts`), results (`../results`) | none; the saved rows | evaluate, pointsFor, ranked standings, pages of results | points in range, faster is not worse; ties share a rank; the saved results are the standings |
| Quiz lifecycle (`../quizzes`, `../questions`, `../projects`, `../usage`, `../registrations`) | quiz status, questions, registrations, usage events | create, update, publish, remove, register, openLobby, start, end, allowances | one room per host; no edits once locked; capacity and allowances hold; a published quiz has questions |
| User accounts (`../users`) | the account's row and all it owns | deleteAccount, rename | nothing running is deleted with an account |
| Auth sessions (`../auth`) | families of refresh tokens, password, cookies | login, rotate, logout, reset and change of password | an ended sign-in stays ended; a new password ends the others; tabs do not end their own |
| One-time codes, login throttle, rate limits (`../auth`, `../../http`) | counters per address, account and day | request, verify, count, pause | limits hold under concurrency |
| Media (`../media`) | `media_assets` and stored files, tickets | request, upload, verify, attach, remove, release, clean-up | an attached image has its file; the quota counts what is stored |
| Web client: live room (`src/apps/web/src/features/live-session`) | the page's connection, timers and snapshot | connect, join, retry, resync, receive | a page is never left waiting for nothing; it shows the latest state |
| Web client: session renewal (`src/apps/web/src/lib/api`) | the lock tabs share | refreshSession, retry | one renewal at a time per browser |
| HTTP plumbing, pages and forms, contracts and schema | | | presentation, configuration and data |

How they interact: the transport calls the service; the service awaits single
SQL statements or transactions of the repository, Redis scripts of the live
store, and its own in-memory maps, and emits domain events the transport
turns into broadcasts. PostgreSQL is the only shared truth; memory is lost at a
restart; Redis holds presence and an advisory lock. Authoring, registrations,
media, accounts and the lobby meet in the database: they lock the account's and
the quiz's row, in that order where they need both. Registrations and sign-ins
reach the sockets by events that are delivered after the commit. A page gets
its ticket over HTTP with its sign-in's cookie, and everything else over the
socket.

What is hard, and where the models look:

- **Interleaving at every await.** One process, but any number of calls are
  between two awaits: closes racing closes, submits racing closes and the end,
  joins racing unregistrations, expiry racing the start.
- **Timers against stored deadlines**, armed after the commit, dropped when
  they fire, retried on failure, lost at a restart and armed again at boot.
- **Unawaited writes** of the host's presence, which may land in any order.
- **Failing calls and lost replies**, after which the database has moved on and
  the caller has not.
- **A lock shorter (10 s) than what it protects may take (15 s).**

- **Statements of one transaction that read at different times**: a password
  change lists the sign-ins to disconnect and then revokes those it sees.
- **Validation and counts outside the lock** they decide about: publication,
  deletion of accounts.
- **Row locks taken in two orders**, and what the database does about it.
- **Storage that is not transactional**: a file and its row change in different
  steps, while a save may attach the image again.
- **Tabs that share a cookie**, and answers nobody receives.
- **A page with four kinds of retry**, replies that race broadcasts, and a
  server that may hang up at any moment.

`PROJECT.json` lists each hazard at its line, with the properties aimed at it.

## 2. Modules

Each SQL statement or transaction is one step, since it takes the session's row
lock or is one conditional statement; what a call keeps between two awaits is a
variable. Clocks are small integers.

### LiveSession: the question lifecycle

| Model | Code |
| --- | --- |
| `state`, `status`, `endsAt`, `answers`, `participation`, `results` | session row, `asked_questions`, `answer_submissions`, `participant_sessions`, `quiz_results` |
| `timer` | the session's entry of `LiveSessionsService.timers`, with the retry count its closure holds |
| `unarmed`, `closer`, `receipt`, `admitted`, `forgetDue` | calls between two awaits: startQuestion, closeExpired, submit, join, end |
| `announced` | `questionEnded` events |
| `StartQuestion`, `ScheduleAsked`, `StartReplyLost` | the one statement of `repository.startQuestion`, and the rest of the call |
| `TimerFires` / `InteractionCloses`, `ReadExpired` / `ReadNotExpired`, `FinalizeCommits`, `FinishClose`, `CloseFails`, `CloseReplyLost` | `schedule` and `current`, then `closeExpired` await by await, and the catch that retries |
| `SubmitReceived`, `SubmitStored`, `SubmitRefused` | `submit` up to the insert, and the insert under the question's shared lock |
| `End`, `Forget`, `Crash`, `Restart` | `repository.end`, `forget`, a stop of the process, `recoverQuestionTimers` |

An answer is the server time of its receipt, or -1: that time alone decides
whether it counts, and with the (abstracted) correctness, its points. `end`
stands for the host's command and for a deadline's. Registration is not in this
module: the attendance never shrinks here (see Attendance).

### QuizRound: what a live quiz promises

The abstract specification, without clocks, timers, locks or crashes: questions
are asked one at a time and once, an answer is accepted once and while its
question is open, the results saved at the end are the answers accepted by then.
`LiveSession!ImplementsRound` instantiates it with a refinement mapping. It
allows entering after the end, because the code does (an upsert that looks at
nothing).

### SessionDeadlines: deadlines and the host's presence

| Model | Code |
| --- | --- |
| `row` | `live_quiz_sessions`: state (LIVE for every started one), `startedAt`, `hostDisconnectedAt`; the session is created at time 0 |
| `lock` | the Redis lock of lifecycle transitions; `LostCall` after a crash |
| `hostSockets`, `deadlines` | the maps of the same name |
| `writes` | `setHostDisconnected` calls in flight |
| `call` | enforceDeadlines, hostTransition, openLobby, join, each at the await it has reached |
| `ArmDeadlines`, `Armed`, `Disarmed` | `armDeadlines`, `arm`, `disarm` |
| `TimerFires`, `Interaction`, `JoinBegins`, `Enforce*`, `Expire`, `AutoEnd` | the timer's callback, `current`, a host's `join`, `enforceDeadlines`, `expireLobby`, `autoEnd` |
| `CommandBegins` ... `CommandForgets`, `StartReloads`, `StartArms`, `OpenAgain`, `CloseRoom` | `hostTransition`, `start`, `end`, `closeLobby`, `openLobby` for an unfinished session, `closeRoom` |
| `HostArrived`, `HostLeft`, `WriteLands`, `WriteFails` | `hostArrived`, `hostLeft`, the update and its catch |
| `LockExpires`, `Crash`, `Restart` | the lock's TTL, a stop, `recoverDeadlines` |

`dropped` and `disturbed` are history: a call that was to arm or apply a
deadline failed; a presence write failed, was overtaken or outlasted a tick.
The properties say what holds without them, the `host_away` run what happens
when a write fails or is overtaken. `setLateJoin` only holds the lock, which other
commands already do, and is left to Attendance.

### Attendance: registrations, presence and the right to answer

| Model | Code |
| --- | --- |
| `registered`, `participation`, `answered`, `results` | rows per user |
| `presence` | the active socket per user in Redis (CLAIM, RELEASE and EVICT scripts) |
| `socket` | per connection: its user, whether it is open, `socket.data.role`, how far its join is, the socket it replaced, a release not run yet |
| `removal` | `applyRegistrationChange` between its two awaits |
| `confirmed` | `SessionCache.confirmed` |
| `JoinAdmitted`, `RecordJoin`, `ClaimPresence`, `JoinReturns`, `JoinFails` | `join`, await by await, and its handler in `realtime.ts` |
| `Disconnect`, `Leave`, `ReleasePresence`, `ReleaseFails` | the disconnect and leave handlers and `release` |
| `Unregister`, `Evict`, `RemoveParticipation`, `HandlerFails` | `unregister` and the handler of the event it emits |

Two things are assumed of the client: it leaves once its join is answered, and
joins again once its leave is answered. `RemoveParticipation` also disconnects
the evicted socket, which the code does two awaits later.

### QuizLifecycle: from the draft to the completed quiz

| Model | Code |
| --- | --- |
| `accounts`, `owner`, `quiz`, `registration`, `session` | rows of users, projects, quizzes, registrations, live sessions; of a quiz its status, project, limit and number of questions |
| `created`, `started` | usage events: ages of the created quizzes, number of sessions started this month |
| `CreateProject`, `RemoveProject`, `CreateQuiz`, `Update`, `AddQuestion`, `RemoveQuestion`, `RemoveQuiz` | the transactions of the same operations, with their locks, edit rules and limits |
| `CheckPublish`, `Publish` | `publish`: what the service validates, and the transaction that looks at the status only |
| `Register`, `Unregister` | the SQL function `register_participant`, `unregister` |
| `OpenLobby`, `CloseLobby`, `Start`, `End` | `openLobby`; `closeLobby` and `expireLobby`; `start`; `end` of the live repository |
| `CountDependents`, `DeleteAccount`, `RollBackDeletion` | `deleteAccount`, between whose statements other transactions run |
| `WindowReopens`, `Elapse`, `NewMonth` | rolling windows, the passage of time |

A transaction that locks the row it decides about is one action. `checked` and
`counted` hold the two operations that take two; an account in `counted` is
locked (`Lockable`). `raced` is history: a question was removed between the
halves of a publication.

### QuizStatus: what a quiz promises

The abstract specification of a quiz, without projects, sessions, validations,
allowances and locks: the statuses are passed in order, the host is kept, the
list of those who take part is open from the publication to the start and then
only loses people who delete their accounts, and a quiz in its lobby or live is
never deleted. `QuizLifecycle!FollowsQuizStatus` instantiates it with a
refinement mapping. A quiz that is only published goes with its host's account
when it was published while the deletion was under way (`GoesWithHost`), and a
registered user whose account goes leaves a quiz that has not finished: the code
refuses both only by a count made before (section 5). The three modules of a
session instantiate QuizStatus too (`Room`, in their proof modules), each for
the one quiz of its session: a deleted session leaves its quiz published.

### MediaUploads: files, rows and row locks

| Model | Code |
| --- | --- |
| `status`, `cover`, `uploads`, `old` | rows of `media_assets`, the quiz's cover, the usage events of the rolling day, uploads past their time |
| `file`, `ticket` | the object store and the signed upload URLs |
| `tx`, `Lock`, `WaitsFor`, `NextLock` | each tab's transaction: the locks it holds and the one it waits for. `FOR UPDATE` of account and quiz, the key-share lock that a usage event's foreign key takes, the updated row |
| `Request`, `Reserve`, `Upload` | `request`, and the browser's upload |
| `Open`, `CommitOpen` | openLobby and start, for their locks |
| `Save`, `Validate`, `CommitSave` | `verifyPending`, `validateMedia` and the commit of any save of the quiz or its questions |
| `Remove`, `RemoveFile`, `CommitRemove` | `DELETE /media/:id` |
| `CleanUp`, `Find`, `RemoveFiles`, `Mark`, `FailRelease` | `release`: find the rows, remove the files, mark the rows that still match; after a save and hourly |
| `RollBack`, `TimePasses` | refusals, errors, timeouts and deadlock victims; reservations, tickets and usage events growing old, each at its own time |

History: `overlapped`, an image whose release ran beside a save of it or was cut
off; `late`, a file sent after its removal.

### AuthSessions: sign-ins, renewals and password changes

| Model | Code |
| --- | --- |
| `rows`, `live`, `password`, `confirmed` | refresh tokens of each family and the ones not revoked, the account's password, the one each sign-in was confirmed with |
| `login`: `CheckPassword`, `CreateSession` | `login`, which verifies the password before it inserts |
| `cookie`, `request`, `lock`: `Renew`, `Reply`, `GiveUp` | `refreshSession` of `src/apps/web/src/lib/api/browser.ts`: the tabs' lock, the answer's cookies, timeouts |
| `RotateRead`, `RotateCommit`, `RotateReplay`, `RotateFail` | `rotate`, under the lock of the family's root row |
| `Logout` | `revokeFamily` and its answer |
| `change`: `ListForReset`, `ListForChange`, `RevokeSessions`, `CommitChange`, `FailChange` | `resetPassword`, `changePassword`: two statements and the commit; the current password was confirmed before and is not looked at again |
| `ending`, `socket`: `Connect`, `Disconnect` | `authSessionsRevoked`, handshakes by ticket, disconnections |

`RevokeSessions` chooses which renewals that have a row locked the statement
waits for; such a renewal's new row is not seen by it. History: `lost` (answers
nobody received), `replayed`, `overlapped` (a login or renewal under way while
passwords changed), `untold` (sockets no event will name).

### LiveClient: one page in a live room

| Model | Code |
| --- | --- |
| `connection` ... `shown` | the state and refs of `use-live-session.ts` |
| `Connecting`: `Open`, `OpenFails`, `Connect`, `TicketRefused`, `HandshakeRefused`, `HandshakeTimer`, `Drop`, `Reconnect` | the transport's attempts, `connect`, `connect_error`, `disconnect`, the manual retry |
| `Calling`: `JoinTimer`, `Resync`, `JoinTimesOut`, `CallTimesOut` | `join`, `resync` and their acknowledgement timeouts |
| `Receiving` | the handlers of snapshots, replies, removal, replacement and disconnection |
| `state`, `announcing`, `work`, `room`, `inbox`; `Serving` | the server: changes and their broadcasts, joins and syncs between their read and their reply, the socket's room, what is on its way |

A snapshot is the number of the change it was read at. A socket delivers in
order; what the server prepares for it at the same time is sent in any order.
History: `flooded` (the server closed the socket without a word), `missed` (a
broadcast failed, or crossed another or a reply).

### Standings: from an answer to a rank

Operators for `evaluateAnswer`, `pointsFor`, `rankedStandings`,
`finalResultRows`, the boards, the host's pages (`PageOf` any list) and the
average. `pointsFor` returns the set of roundings a floating-point `Math.round`
can give. `MCStandings` compares each with a definition of what it should
compute, over all small inputs: the amounts of the unit tests (`TestedPoints`),
the line from 1000 to 400 (`PointsOnTheLine`), sets of options
(`ChoicesByTheSet`), places in a line (`RankIsFirstPlace`), saved results
against live standings (`ResultsAreStandings`), `BoardsAreTheBest`,
`PagesListEveryone`, `AverageIsRounded`. They are assumptions, which TLC
evaluates when the `live_session` runs start (`MCLiveSession` extends
`MCStandings`).

### How the modules fit

LiveSession, SessionDeadlines and Attendance are views of the same session, cut
where the code has no common state but the session row: LiveSession takes `end`
from anyone, SessionDeadlines says when the server calls it, Attendance who may
answer. QuizLifecycle has the session as one of four states, and says which
sessions there can be. That the four speak of the same session is a theorem of
each: its steps, seen as changes of the quiz's status and of the list of those
who take part, are steps of QuizStatus. MediaUploads has the same quiz with its
locks in detail. LiveClient sees a session as a counter of changes, and takes
from Attendance and AuthSessions that its socket may be replaced or removed at
any moment. Standings turns the answers of LiveSession into results.

`MC*` modules add the symmetry sets and the state constraints for TLC;
`*Proofs` modules hold the proofs. Definitions commented "A mutation of ..." are
plausible bugs of one definition; `PROJECT.json` pairs each with a property that
TLC then finds violated.

## 3. Runs

`tlc -config <cfg> <module>`; times are for two workers.

| Run | Config | Bounds | Distinct states | Shows |
| --- | --- | --- | --- | --- |
| `live_session` | `LiveSession.cfg` | 2 questions, 1 participant, 2 concurrent closes, question 2 ticks, clock to 3, retry delay 1, 1 retry, 1 failure, 1 crash; `FairSpec` | 567,886 (about 3 min) | 6 invariants, 2 action properties, refinement of QuizRound, every question asked closes |
| `live_session_retry` | `LiveSessionRetry.cfg` | 2 questions, 2 concurrent closes, question 2 ticks, clock to 4, 1 failure, no crash | violation | a retry replaces the open question's timer |
| `session_deadlines` | `SessionDeadlines.cfg` | 2 host sockets, 2 concurrent calls, limits of 1 tick, 2 writes in flight, 1 crash, clock to 1 | 1,307,778 (about 2 min) | 3 invariants, 1 action property |
| `session_deadlines_live` | `SessionDeadlinesLive.cfg` | 1 socket, 1 call, limits of 1 tick, 1 write, 1 crash, clock to 2; `FairSpec` | 114,065 | a quiz ends, a lobby closes |
| `host_away` | `SessionDeadlinesHostAway.cfg` | 1 socket, 1 call, grace 1, other limits 2, 2 writes, clock to 3 | violation | a connected host counts as away |
| `attendance` | `Attendance.cfg` | 1 user, 2 connections, 1 restart | 470,704 | 3 invariants, 1 action property |
| `attendance_unregister` | `AttendanceUnregister.cfg` | 1 user, 1 connection | violation | an attendee without a registration |
| `quiz_lifecycle` | `QuizLifecycle.cfg` | 3 accounts (one hosts, the host and another may leave), 1 project, 2 quizzes, limits of 1 or 2 participants, 1 question, 1 quiz created a day, 1 hosted a month, days of 2 | 537,943 | 6 invariants, refinement of QuizStatus |
| `media` | `MediaUploads.cfg` | 2 tabs and the clean-up, 2 images, quota and daily allowance of 1 | 934,910 (about 1 min) | 5 invariants |
| `media_allowance` | `MediaUploadsAllowance.cfg` | 2 tabs, 2 images, quota 2, daily allowance 1 | violation | a day sees more uploads than the allowance |
| `auth_sessions` | `AuthSessions.cfg` | a browser with 2 tabs and a device, 2 sign-ins of at most 2 tokens, 1 password change | 889,858 | 4 invariants, 1 action property |
| `live_client` | `LiveClient.cfg` | 2 attempts of each kind, 3 changes, 3 messages on their way | 750,615 | 3 invariants |

Why the bounds suffice. In LiveSession two questions are what a stale call for
an older question needs, two closers what a race needs; the clock has the second
question asked when the first is over, its statement sent a tick before it
commits, and one failure and one crash put a retry or a restart between any two
steps; two ticks are what two submissions of one answer need to differ. The run
of a second question to its full length, and a retry that finds it, are in
`live_session_retry`, and all safety properties are proved for any duration.
Participants do not interact in any step, so one shows what a second could. In
SessionDeadlines every race is between two calls, two sockets distinguish the
first, the last and another connection, and two writes are what overtaking
needs; limits of one tick make every deadline race every command. In Attendance
presence is per user, so one user with two connections shows every race of
claims and releases. In QuizLifecycle two quizzes of a host compete for its room
and its month, two participants for a place; limits of one are reached at once,
and the window of two units lets events age past it. In MediaUploads two tabs
make every pair of transactions wait for each other, with the clean-up as a
third worker, and a second image is what replacing the first needs. In
AuthSessions a sign-in that makes a change and one that it ends, two tabs that
share a cookie, and a token with its successor are what each property speaks of;
the constraint `Bounded` follows the sockets of one sign-in and lost answers of
one at a time, which no step relates. In LiveClient two attempts tell the first
from the last, and three messages the removal, the close and one before them.
The constraint `Unsettled` of the `session_deadlines` run stops following a
finished session once its calls have returned and combinations of several kinds
of failure; the proofs of `DeadlineCovered` and `StartedIsKept` have no such
limit. Symmetry is used in no run with a liveness property. `CHECK_DEADLOCK
FALSE` because a session does come to its end, clocks and counters stop at their
bounds, and a page that failed for good stays as it is.

Two bounds are assumptions about time. In LiveSession startQuestion's statement,
whose deadline is computed before it is sent, commits and is answered before the
question is over (`StartQuestion`, `Tick`); in
SessionDeadlines a presence write that outlasts a tick (minutes) counts as
disturbed.

Fairness (`FairSpec`, of LiveSession and SessionDeadlines; the other modules
state safety only). Weak fairness of the clock, of the restart (the process
is supervised), of timers firing and of the continuation of each call: the event
loop runs what is due, and awaited calls are answered. No host, participant or
interaction is fair. In SessionDeadlines the firing of timers and the steps of a
call are strongly fair only because the bounds on concurrent calls, and the
expiring lock, disable and enable them in turn. `QuestionCloses` excepts
runs in which a call failed: after `CLOSE_MAX_RETRIES` the code gives up by design
and leaves the close to the next interaction. `QuizEnds` and `LobbyCloses` except
runs in which a call that was to arm or apply the deadline failed (`dropped`):
the code does not try again until the next interaction or boot (comment at
`service.ts:266`).

## 4. Proofs

Every theorem is proved by tlapm for every value of the constants under the
assumptions named in the modules (`QuestionAssumption`, `ResultAssumption`,
`NumberAssumption`; `CallAssumption`, `SocketAssumption`, `LimitAssumption`;
`NoneAssumption`, `CrashAssumption`; `LifecycleAssumption`, `MediaAssumption`,
`AuthAssumption`, `ClientAssumption`): the "no such thing" values are none of the
things, the bounds are naturals and limits are positive, and the sets that are
counted are finite. In each module the types are proved first; the rest is one
inductive invariant, or two, of the parts named below.

**LiveSessionProofs.** `Invariant` proves `IInv`: the types, and

- `ClosersOverdue`: a close past its read holds a question that was asked and is
  overdue, so its commit is never early;
- `ReceiptsInTime`: a receipt not inserted yet lies in its question's time,
  which the insert does not check against the start;
- `AnswersOfEntered`: answers are by people who have entered, so the end's
  query over attendees misses nobody;
- `NoResultsBefore` and `StateMatchesQuestions`: results are written once, and
  after them no question is open, so nothing they are made of can change.

None of `AnswersInTime`, `ResultsMatchAnswers` and `NoEarlyClose` is inductive
without these. `RowsAgree`, `InTime`, `ResultsAreFinal`, `AnswersAreFrozen` and
`NotClosedEarly` follow, and `Implements` proves the refinement of QuizRound:
each step is one step of QuizRound or a stutter.

**LiveSessionProofs, second half: timers and announcements.** `AnnouncedOnce`
needs that of all closes about to announce a question there is one, and the
question was not announced before (`AnnouncersUnique`): the commit hands out the
right to announce once. `TimerCovers` needs `CoverInv`: a question being asked
is the open one or finished, timers and closes are for asked questions, a close
that is finishing holds a closed question (so it cannot clear the open one's
timer), `forget` runs only after the end.

`OnlyRetriesReplaceTimers` draws the line around disagreement 1 of section 5:
of all that may run late, only the retry of a failed close, for a question that
is over already, gives the timer of an open question to another one. It rests on
`TimerInv`: the parts `UnarmedRunning` and `TimersOfAsked` of `CoverInv`, which
hold also when calls fail, and that a stopped process has no timer.
`AnsweredClosesKeepTimers` is the same as a statement about runs: while no call
of `closeExpired` fails, `OpenTimerNotReplaced` holds.

**SessionDeadlinesProofs.** `Invariant` proves `IInv`: types, a started row has
its start time, calls are where the row's history allows (`CallsConsistent`),
the row a call has loaded to arm deadlines from is the stored one or the stored
one has moved on (`ArmedFromRow`: this is why a stale `openLobby` or `start`
cannot arm the wrong time), and `DeadlineCovered` itself. `AlwaysCovered`,
`TypeCorrect` and `StartedKept` follow.

The host's presence has an invariant of its own, over every order of the writes
in flight (`PresenceInvariant`): the last write issued, or the row if there is
none, says what the process knows of the host's sockets (`PresenceTold`), unless
the writes were disturbed or the host has never been there, and a stopped
process has nothing in flight (`StoppedIsEmpty`). `PresenceSettles` follows, and
`UndisturbedHostStays`: what disagreement 2 of section 5 says of a connected host
happens only after a write failed, was overtaken or outlived a tick.

**AttendanceProofs.** `AnswersAreByRegistered` rests on one fact: nothing is
answered nor confirmed in the lobby, and unregistering is possible only there.
`NoZombies` and `NewestKeeps` rest on `PInv`: types, every socket that presence,
a join or a handler names is known, and every joined connection is placed
(active, being replaced, or evicted) unless something failed halfway.

`OnlyTheseLeaveAttendees` draws the line around disagreement 3 of section 5: an
attendee without a registration, whom no handler is about to remove
(`Orphaned`), comes from a join that was admitted before the unregistration, or
from a handler that failed, was lost with the process or found the session over.
Every other step, in any order with those, leaves none.

`PromptHandlersKeepAnswers` is conditional: it supposes that the handler of an
unregistration is over before its user's next join and before the start, and
that none of the user's joins is under way when the registration goes (`Apart`).
Nothing in the code makes it so, which is why it is a hypothesis. Then every
accepted answer is an attendee's and counted in the results. It needs that who
holds a presence, or is about to, has been recorded (`Entered`).

**QuizLifecycleProofs.** `RoomInv` joins the types to: a quiz is in a project
that exists (`Placed`), statuses and sessions agree, a host has one room, and no
room of an account whose deletion is under way is open (`CountedIdle`: the
deletion holds the lock opening needs). `HostRunsOneRoom`,
`StatusAlwaysMatchesSession` and `RunningIsNeverDeleted` follow from it.
`NeverOverbooked` is inductive with the finiteness of the accounts.
`PublishedNeverEmpty` needs that a quiz whose publication was validated still
has a question, or is in `raced` (`CheckedHasQuestions`).

`AllowancesNeverExceeded` is about filtered sequences of ages: `Spaced` and
`OldestFirst` say that creations a whole allowance apart are a day apart and how
the list is ordered, and that passing time and the clean-up of old events keep
both (the events younger than a day are the end of the list). `TypesCorrect`
adds the ages' bound. `QuizzesFollowStatus` proves the refinement of QuizStatus
from `RoomInv` and `RegisteredInv` (only users that exist are registered, and
nobody for a draft): a step of a quiz's rows is a step of its `Lives`, and one
deletion of an account concerns several quizzes at once.

**QuizStatus and the modules of a session.** `RoomFollowsQuizStatus`, in
LiveSessionProofs, SessionDeadlinesProofs and AttendanceProofs: whatever late
closes, timers, expired locks, joins and restarts do, each of these models moves
its quiz only as QuizStatus allows.

**MediaUploadsProofs.** `DeadlocksNeedSave`, for cycles of any length: locks are
held and requested in the order account, quiz, usage event (`Ordered`), and only
a save requests the last.
`QuotaIsKept`, and `OvershootBounded`, which says how far the allowance of
disagreement 4 can be missed: reservations and uploads change together, and what
is reserved counts against the quota. `StoredCounts` follows from
`FileInv`, which says where a file can still be while its row is about to be
marked; `CoverIsStored` from what a save has seen of its image and cannot be
taken away by a release that started apart from it (`Apart`, `Stored`).

**AuthSessionsProofs.** `Sound`: a token was issued before it is used
(`Issued`), a family's live token and the one a renewal has read are the last
issued and renewals take turns on the root row (`Single`), and what a renewal
has read is still live, or passwords changed meanwhile (`Readers`). `EndedStay`
follows; `PasswordsEnd` with what each stage of a change has covered
(`Revoking`), `SocketsFollow` with what its event will tell (`Told`).
`SignInsSurvive` needs that tabs of a browser take turns, that a family's
token is in one browser, and that its cookie is the newest unless an answer was
lost (`Turns`, `Home`, `Fresh`).

**LiveClientProofs.** `NotStranded` is inductive with `Calls`: messages come in
the order a socket can send them, timers run only where their call is possible
(`Timers`), an awaited answer is at exactly one place (`Replies`), a closed
socket was told why or flooded (`Goodbye`), a joined page is in the room and
only there are snapshots sent (`Inside`). `ShowsLatest`: what the page will show
last, once it has received everything, lacks only changes still to be announced
(`Current`).

**StandingsProofs.** For every time limit and response time a correct answer
earns 400 to 1000 points, and the faster of two never less; an accepted choice
is correct exactly when the sets of options are equal; equal scores share a
rank, which is the first place of the score in any line by score (`RankIsPlace`);
the counts of a result add up. Whoever comes before someone on a board is on it
at an earlier place (`BoardHasTheBest`), and two boards of the same standings
differ only among people of equal rank and name (`BoardsAgree`), whom the query
leaves in any order. A page of results has the next entries
(`PageIsNext`), and following the pages lists each entry once
(`PagesListEachOnce`).

Only model-checked: `QuestionCloses`, `QuizEnds` and `LobbyCloses` (liveness under
fairness is out of the prover's reach), and what `MCStandings` says of sums over
data, which would need induction: the saved results against the live standings
(`ResultsAreStandings`) and the average (`AverageIsRounded`). Every invariant and
action property of the passing runs is a theorem, and so are both refinements.
What the runs that expect a violation can show is bounded by
`OnlyRetriesReplaceTimers` and `AnsweredClosesKeepTimers`, `UndisturbedHostStays`,
`OnlyTheseLeaveAttendees` and `OvershootBounded`.

## 5. Disagreements found

The first four are runs that expect a violation.

1. `live_session_retry`: `service.ts:983-987` says a late caller finishing an
   older question never disarms the timer of the one asked after it. `schedule`
   clears the session's timer without looking (`service.ts:1003`), and the retry
   of a failed close calls it for the older question. It takes, in this order:
   the timer's close of the older question is under way; another call closes that
   question and the host asks the next one, whose timer is armed; only then the
   first call fails, and its catch schedules the retry at once. Nothing else does
   it (`OnlyRetriesReplaceTimers`).
2. `host_away`: `docs/SECURITY_DESIGN.md:225` says a connected host never times
   out. The writes of absence and return are not awaited (`service.ts:429`,
   `451`): the return's can fail with a warning only, or the absence's can land
   after it. The row then says away until the grace period ends the quiz
   (`service.ts:352`), whether or not a host socket is connected.
3. `attendance_unregister`: `repository.ts:416` says unregistered users are no
   longer attendees. A join that passed its checks (`service.ts:1159`) records
   the attendance (`service.ts:1187`) after the handler has removed it. A restart
   of the API between the unregistration and its handler leaves an attendee too:
   the event is lost with the process. Nothing but these and a failing or
   belated handler does it (`OnlyTheseLeaveAttendees`).
4. `media_allowance`: `docs/SECURITY_DESIGN.md:175` claims "50 successful uploads
   per rolling 24 hours per account", implemented as "50 verified uploads per
   rolling 24 hours", and the refusal at `../media/service.ts:157` says "You can
   upload up to N images a day". The allowance is compared with the events of the
   day when an upload is reserved (`../media/service.ts:151`), and the event is
   recorded when the image is attached (`../quizzes/repository.ts:123`): uploads
   reserved together pass together. The quota bounds how many
   (`OvershootBounded`).

Others have no run of their own. A history variable marks where they happen, and
the property that would otherwise fail there excepts it by that name, so these
properties do not report them:

- `raced`, in `PublishedHasQuestions`. "A published quiz stays publishable: it
  keeps at least one question." (`../questions/repository.ts:119`). `publish`
  validates the questions before its transaction (`../quizzes/service.ts:193`),
  which looks at the status only: the last one can be removed in between, from
  what is still a draft.
- `GoesWithHost` and `Leave` of QuizStatus, in `FollowsQuizStatus`. Deletion of
  an account is "Refused while the user hosts a quiz that is published, in its
  lobby or live, or is registered for one that has not finished"
  (`../users/service.ts:45-47`). What it refuses is counted some statements
  before the deletion: a quiz published in between goes with the account, and so
  does a registration. A lobby cannot be opened in between, because that needs
  the account's lock.
- `overlapped` of MediaUploads, in `CoverStored`. A release finds the detached
  images and removes their files before it marks the rows that still match
  (`../media/service.ts:223`); an image attached again in between keeps its row
  and loses its file. The comment on `releaseDetached` (`204-207`) speaks of the
  quota only, which is right (`StoredIsCounted`).
- `DeadlockNeedsPendingSave` names the save. "Account before quiz, the order
  every transaction locks them in [...] so the two cannot deadlock"
  (`../media/service.ts:121`). A save that attaches a new image locks the quiz
  and then, by the foreign key of the usage event, the account's row
  (`../quizzes/repository.ts:123`); with an opening or an upload it can deadlock,
  and the database rolls one of them back.
- `overlapped` of AuthSessions, in `PasswordEndsSignIns` and `EndedStaysEnded`.
  "A successful reset revokes every session and refresh-token family"
  (`docs/SECURITY_DESIGN.md:120`). A renewal that inserts its new token in the
  transaction the revocation (`../auth/repository.ts:272`) does not see, or a
  login whose password was checked before, leaves its sign-in signed in.
- `untold`, in `SocketsFollowSignIn`. "Revocation also disconnects that session's
  sockets and refuses new socket tickets" (`docs/SECURITY_DESIGN.md:95`). The
  handshake checks a ticket issued up to 60 s before, not the sign-in
  (`realtime.ts:139`), so a socket can open after the event that was to
  disconnect it.

Four more exceptions contradict no document, and are excepted all the same:
`lost` (a renewal whose answer nobody received is replayed by the next one and
ends the sign-in; `SignInSurvivesTabs`), `flooded` (a page whose socket was
closed for flooding says it reconnects and does not; `NeverStranded`), `missed`
(broadcasts sent in the other order, or never, leave an older state on a page
until the next one; `LatestShown`) and `dropped` (a deadline whose call failed
or found the lock held waits for an interaction or a boot, as the comment at
`service.ts:266` says; `DeadlineCovered`, `QuizEnds`, `LobbyCloses`).

## 6. What is not modelled

- **Presentation**: most of the repository by lines. The pages, forms and styles
  of the web client are about 27,000 of its 38,000 lines, and the validation
  schemas, message types, configuration, middleware, logging and mail another
  part; what they show or accept is decided by the API. The map therefore covers
  a small share of all lines, and most of the stateful code of the API.
- **LiveSession, SessionDeadlines, Attendance.** Wording and images; throttled
  counts, tickets' signatures and rate budgets of the transport: no decision of
  the models depends on them. `hostAwaySince` and the connected flag of
  snapshots: display. A lost reply of openLobby, which is repeatable and returns
  the same session. Cached answer keys: `SubmitReceived` allows what a stale key
  allows.
- **Leaderboard cache.** Which people a board shows is in Standings; that a
  board read across a close may be kept until the next close is not: display
  only.
- **QuizLifecycle.** Texts, order and options of questions; the change of a
  name; the sockets and files a deleted account leaves to be cleaned up.
- **MediaUploads.** Images of several quizzes and of questions, which the same
  code saves and releases; a cover reserved together with a new quiz; the
  platform-wide pause of uploads; files of deleted quizzes.
- **AuthSessions.** Expiry, signup and the emailed codes that start a sign-in;
  two password changes at once; a late refusal that clears newer cookies; events to other
  instances of the API.
- **LiveClient.** What a snapshot says, the clock's offset, the counts, the
  budgets that decide when a socket floods; several pages at once, whose race
  for the presence is in Attendance.
- **One-time codes, the login throttle and rate limits**: counters under the
  row lock of the one-time code, or soft limits whose overshoot is the number of concurrent
  requests. `WindowReopens` is modelled where an allowance depends on it.

## 7. Plan

Done, in order: LiveSession with QuizRound; SessionDeadlines; Attendance;
QuizLifecycle; AuthSessions; MediaUploads; Standings; LiveClient; the proofs of
each; QuizStatus, and that QuizLifecycle and the three modules of a session
follow it.

Left:

1. **An abstract specification of sign-ins**, which AuthSessions implements: a
   sign-in renews until it ends, and a new password ends the others.
2. **Deletion of an account beside a registration that comes back** after it was
   cancelled, in QuizLifecycle.
3. **LeaderboardCache**: the board read across a close, the announcement lost
   with the reply of a commit, and what a page shows then.
4. **Codes and throttles**: attempts per code and per window under concurrent
   requests.
5. **Auth**: concurrent password changes, expiry.
