---------------------------- MODULE QuizLifecycle ----------------------------
(***************************************************************************)
(* The life of a quiz from its draft to its completion: projects, authoring, *)
(* publication, registrations, the lobby, the start, the end, the account's  *)
(* allowances and the deletion of accounts.                                  *)
(*                                                                           *)
(* Every operation is a transaction that locks the row it decides about (the *)
(* account's, the quiz's or the session's), so it is one action here, with   *)
(* two exceptions that are two: publish validates the questions before its   *)
(* transaction begins, and deleteAccount counts what depends on the account  *)
(* some statements before it deletes, under a lock on the account that not   *)
(* every operation takes.                                                    *)
(***************************************************************************)
EXTENDS Integers, Sequences, FiniteSets

CONSTANTS
    Account,          \* users; any of them may take part
    Hosts,            \* bound: the accounts that create projects
    Leavers,          \* bound: the accounts somebody tries to delete
    Project,          \* ids a project can have
    Quiz,             \* ids a quiz can have
    NoAccount,        \* the owner of a project that does not exist
    NoProject,        \* the project of a quiz that does not exist
    MaxProjects,      \* ACCOUNT_LIMITS.projects
    MaxParticipants,  \* ACCOUNT_LIMITS.participantsPerSession
    CreationsPerDay,  \* ACCOUNT_LIMITS.quizCreationsPerDay
    HostedPerMonth,   \* ACCOUNT_LIMITS.hostedSessionsPerMonth
    MaxQuestions,     \* AUTHORING_LIMITS.questions
    Day               \* the length of the rolling window

ASSUME LifecycleAssumption ==
    /\ NoAccount \notin Account /\ NoProject \notin Project
    /\ IsFiniteSet(Account) /\ Hosts \subseteq Account /\ Leavers \subseteq Account
    /\ {MaxProjects, MaxParticipants, CreationsPerDay, HostedPerMonth} \subseteq Nat \ {0}
    /\ {MaxQuestions, Day} \subseteq Nat \ {0}

VARIABLES
    accounts,     \* the accounts that exist
    owner,        \* [Project -> its owner, NoAccount when there is no such project]
    quiz,         \* [Quiz -> row]
    registration, \* [Quiz -> [Account -> status of the row, "none" without one]]
    session,      \* [Quiz -> state of its live session, "none" without one]
    created,      \* [Account -> ages of its QUIZ_CREATED usage events, oldest first]
    started,      \* [Account -> number of its SESSION_STARTED usage events this month]
    checked,      \* quizzes with a publication whose validation passed, not yet committed
    counted,      \* accounts whose deletion found nothing depending on them, not yet committed
    raced         \* history: quizzes without a question since one was removed
                  \* while such a publication was under way

vars == <<accounts, owner, quiz, registration, session, created, started,
          checked, counted, raced>>

Unfinished == {"PUBLISHED", "LOBBY", "LIVE"}
Statuses == Unfinished \cup {"none", "DRAFT", "COMPLETED"}

QuizRow == [status : Statuses, project : Project \cup {NoProject},
            limit : 0 .. MaxParticipants, questions : 0 .. MaxQuestions]
NoQuiz == [status |-> "none", project |-> NoProject, limit |-> 0, questions |-> 0]

(* Who created a quiz: projects are never handed over, so its project's owner. *)
Host(q) == IF quiz[q].project = NoProject THEN NoAccount ELSE owner[quiz[q].project]
QuizzesOf(a) == {q \in Quiz : Host(q) = a}
Running(q) == session[q] \in {"LOBBY", "LIVE"}
Registered(q) == {u \in Account : registration[q][u] = "REGISTERED"}
ProjectsOf(a) == {p \in Project : owner[p] = a}

(* The row lock on an account can be taken: it exists, no deletion holds it. *)
Lockable(a) == a \in accounts /\ a \notin counted

(* What each kind of change is still allowed in. *)
DetailsEditable(q) == quiz[q].status \in {"DRAFT", "PUBLISHED", "LOBBY"}
QuestionsEditable(q) == quiz[q].status \in {"DRAFT", "PUBLISHED"}

-----------------------------------------------------------------------------
(* Allowances. *)

(* The events younger than that: the last ones, since the oldest come first. *)
Younger(ages, limit) ==
    LET older == {i \in DOMAIN ages : ages[i] \geq limit} IN
    SubSeq(ages, Cardinality(older) + 1, Len(ages))

InWindow(ages) == Younger(ages, Day)

(* How long until a rolling limit allows the next event; 0 when it does. *)
\* A mutation of WindowReopens: an event too many.
WindowReopensLate(ages, limit) ==
    IF Len(ages) \leq limit THEN 0 ELSE Day - ages[Len(ages) - limit + 1]

WindowReopens(ages, limit) ==
    IF Len(ages) < limit THEN 0 ELSE Day - ages[Len(ages) - limit + 1]

CreationAllowed(a) == WindowReopens(InWindow(created[a]), CreationsPerDay) = 0

-----------------------------------------------------------------------------
Init ==
    /\ accounts = Account
    /\ owner = [p \in Project |-> NoAccount]
    /\ quiz = [q \in Quiz |-> NoQuiz]
    /\ registration = [q \in Quiz |-> [u \in Account |-> "none"]]
    /\ session = [q \in Quiz |-> "none"]
    /\ created = [a \in Account |-> <<>>]
    /\ started = [a \in Account |-> 0]
    /\ checked = {}
    /\ counted = {}
    /\ raced = {}

CreateProject(a, p) ==
    /\ Lockable(a)
    /\ owner[p] = NoAccount
    /\ Cardinality(ProjectsOf(a)) < MaxProjects
    /\ owner' = [owner EXCEPT ![p] = a]
    /\ UNCHANGED <<accounts, quiz, registration, session, created, started,
                   checked, counted, raced>>

(* Deleting quizzes and accounts takes what refers to them with it. *)
Delete(gone, leaving) ==
    /\ registration' = [q \in Quiz |-> [u \in Account |->
           IF q \in gone \/ u \in leaving THEN "none" ELSE registration[q][u]]]
    /\ quiz' = [q \in Quiz |-> IF q \in gone THEN NoQuiz ELSE quiz[q]]
    /\ session' = [q \in Quiz |-> IF q \in gone THEN "none" ELSE session[q]]
    /\ checked' = checked \ gone
    /\ raced' = raced \ gone

RemoveProject(p) ==
    LET inside == {q \in Quiz : quiz[q].project = p} IN
    /\ owner[p] # NoAccount
    /\ \A q \in inside : quiz[q].status = "DRAFT"
    /\ owner' = [owner EXCEPT ![p] = NoAccount]
    /\ Delete(inside, {})
    /\ UNCHANGED <<accounts, created, started, counted>>

CreateQuiz(a, p, q, limit) ==
    /\ Lockable(a)
    /\ limit \leq MaxParticipants
    /\ CreationAllowed(a)
    /\ owner[p] = a
    /\ quiz[q].status = "none"
    /\ quiz' = [quiz EXCEPT ![q] = [status |-> "DRAFT", project |-> p,
                                    limit |-> limit, questions |-> 0]]
    /\ created' = [created EXCEPT ![a] = Append(@, 0)]
    /\ UNCHANGED <<accounts, owner, registration, session, started, checked,
                   counted, raced>>

\* A mutation of Update: the registrations are not counted.
UpdateUnbounded(q, limit) ==
    /\ DetailsEditable(q)
    /\ limit \leq MaxParticipants \/ limit \leq quiz[q].limit
    /\ quiz' = [quiz EXCEPT ![q].limit = limit]
    /\ UNCHANGED <<accounts, owner, registration, session, created, started,
                   checked, counted, raced>>

(* Saving the details; of them only the registration limit matters here. A   *)
(* limit above the plan's may be kept or lowered, never raised.              *)
Update(q, limit) ==
    /\ DetailsEditable(q)
    /\ limit \leq MaxParticipants \/ limit \leq quiz[q].limit
    /\ limit \geq Cardinality(Registered(q))
    /\ quiz' = [quiz EXCEPT ![q].limit = limit]
    /\ UNCHANGED <<accounts, owner, registration, session, created, started,
                   checked, counted, raced>>

\* A mutation of AddQuestion: the number of questions is not checked.
AddQuestionUnlimited(q) ==
    /\ QuestionsEditable(q)
    /\ quiz' = [quiz EXCEPT ![q].questions = @ + 1]
    /\ raced' = raced \ {q}
    /\ UNCHANGED <<accounts, owner, registration, session, created, started,
                   checked, counted>>

AddQuestion(q) ==
    /\ QuestionsEditable(q)
    /\ quiz[q].questions < MaxQuestions
    /\ quiz' = [quiz EXCEPT ![q].questions = @ + 1]
    /\ raced' = raced \ {q}
    /\ UNCHANGED <<accounts, owner, registration, session, created, started,
                   checked, counted>>

\* A mutation of RemoveQuestion: a published quiz may lose its last question.
RemoveQuestionUnchecked(q) ==
    /\ QuestionsEditable(q)
    /\ quiz[q].questions > 0
    /\ quiz' = [quiz EXCEPT ![q].questions = @ - 1]
    /\ UNCHANGED <<accounts, owner, registration, session, created, started,
                   checked, counted, raced>>

(* Only a draft may lose its last question. *)
RemoveQuestion(q) ==
    /\ QuestionsEditable(q)
    /\ quiz[q].questions > 0
    /\ quiz[q].questions > 1 \/ quiz[q].status = "DRAFT"
    /\ quiz' = [quiz EXCEPT ![q].questions = @ - 1]
    /\ raced' = IF quiz[q].questions = 1 /\ q \in checked THEN raced \cup {q} ELSE raced
    /\ UNCHANGED <<accounts, owner, registration, session, created, started,
                   checked, counted>>

RemoveQuiz(q) ==
    /\ quiz[q].status = "DRAFT"
    /\ Delete({q}, {})
    /\ UNCHANGED <<accounts, owner, created, started, counted>>

(* publish: the service reads the quiz and validates every question ... *)
CheckPublish(q) ==
    /\ quiz[q].status = "DRAFT"
    /\ quiz[q].questions > 0
    /\ checked' = checked \cup {q}
    /\ UNCHANGED <<accounts, owner, quiz, registration, session, created,
                   started, counted, raced>>

(* ... and the repository's transaction looks at the status only. *)
Publish(q) ==
    /\ q \in checked
    /\ checked' = checked \ {q}
    /\ quiz' = IF quiz[q].status = "DRAFT"
               THEN [quiz EXCEPT ![q].status = "PUBLISHED"] ELSE quiz
    /\ UNCHANGED <<accounts, owner, registration, session, created, started,
                   counted, raced>>

-----------------------------------------------------------------------------
(* Registrations. *)

(* register_participant. A first registration inserts a row that refers to   *)
(* the account and waits for its lock; a cancelled one is only updated.      *)
Register(q, u) ==
    /\ u \in accounts
    /\ Host(q) # u
    /\ quiz[q].status \in {"PUBLISHED", "LOBBY"}
    /\ registration[q][u] # "REGISTERED"
    /\ Cardinality(Registered(q)) < quiz[q].limit
    /\ registration[q][u] = "none" => u \notin counted
    /\ registration' = [registration EXCEPT ![q][u] = "REGISTERED"]
    /\ UNCHANGED <<accounts, owner, quiz, session, created, started, checked,
                   counted, raced>>

Unregister(q, u) ==
    /\ quiz[q].status \notin {"LIVE", "COMPLETED"}
    /\ registration[q][u] = "REGISTERED"
    /\ registration' = [registration EXCEPT ![q][u] = "CANCELLED"]
    /\ UNCHANGED <<accounts, owner, quiz, session, created, started, checked,
                   counted, raced>>

-----------------------------------------------------------------------------
(* The live session, as far as it decides the quiz's status. *)

\* A mutation of OpenLobby: without the lock on the account.
OpenLobbyUnlocked(q) ==
    /\ quiz[q].status = "PUBLISHED"
    /\ ~ \E r \in QuizzesOf(Host(q)) : Running(r)
    /\ session' = [session EXCEPT ![q] = "LOBBY"]
    /\ quiz' = [quiz EXCEPT ![q].status = "LOBBY"]
    /\ UNCHANGED <<accounts, owner, registration, created, started, checked,
                   counted, raced>>

\* A mutation of OpenLobby: other sessions of the host are not looked for.
OpenLobbyOwnQuizOnly(q) ==
    /\ Lockable(Host(q))
    /\ quiz[q].status = "PUBLISHED"
    /\ ~ Running(q)
    /\ session' = [session EXCEPT ![q] = "LOBBY"]
    /\ quiz' = [quiz EXCEPT ![q].status = "LOBBY"]
    /\ UNCHANGED <<accounts, owner, registration, created, started, checked,
                   counted, raced>>

(* openLobby: under the host's lock and then the quiz's. With an unfinished  *)
(* session of this quiz it returns that one and changes nothing.             *)
OpenLobby(q) ==
    /\ Lockable(Host(q))
    /\ quiz[q].status = "PUBLISHED"
    /\ ~ \E r \in QuizzesOf(Host(q)) : Running(r)
    /\ session' = [session EXCEPT ![q] = "LOBBY"]
    /\ quiz' = [quiz EXCEPT ![q].status = "LOBBY"]
    /\ UNCHANGED <<accounts, owner, registration, created, started, checked,
                   counted, raced>>

\* A mutation of CloseLobby: the quiz's row is forgotten.
CloseLobbyOnly(q) ==
    /\ session[q] = "LOBBY"
    /\ session' = [session EXCEPT ![q] = "none"]
    /\ UNCHANGED <<accounts, owner, quiz, registration, created, started,
                   checked, counted, raced>>

(* closeLobby by the host, expireLobby by the server. *)
CloseLobby(q) ==
    /\ session[q] = "LOBBY"
    /\ session' = [session EXCEPT ![q] = "none"]
    /\ quiz' = [quiz EXCEPT ![q].status = "PUBLISHED"]
    /\ UNCHANGED <<accounts, owner, registration, created, started, checked,
                   counted, raced>>

(* start, with one hosted session of the month's allowance. *)
Start(q) ==
    /\ session[q] = "LOBBY"
    /\ Lockable(Host(q))
    /\ started[Host(q)] < HostedPerMonth
    /\ started' = [started EXCEPT ![Host(q)] = @ + 1]
    /\ session' = [session EXCEPT ![q] = "LIVE"]
    /\ quiz' = [quiz EXCEPT ![q].status = "LIVE"]
    /\ UNCHANGED <<accounts, owner, registration, created, checked, counted,
                   raced>>

(* end, from the lobby too. *)
End(q) ==
    /\ Running(q)
    /\ session' = [session EXCEPT ![q] = "COMPLETED"]
    /\ quiz' = [quiz EXCEPT ![q].status = "COMPLETED"]
    /\ UNCHANGED <<accounts, owner, registration, created, started, checked,
                   counted, raced>>

-----------------------------------------------------------------------------
(* Accounts. *)

(* deleteAccount: locks the account and refuses while others depend on it, *)
CountDependents(a) ==
    /\ Lockable(a)
    /\ \A q \in QuizzesOf(a) : quiz[q].status \notin Unfinished
    /\ \A q \in Quiz : quiz[q].status \in Unfinished => registration[q][a] # "REGISTERED"
    /\ counted' = counted \cup {a}
    /\ UNCHANGED <<accounts, owner, quiz, registration, session, created,
                   started, checked, raced>>

(* then deletes what it owns, and by cascade what refers to it or to that, *)
DeleteAccount(a) ==
    /\ a \in counted
    /\ counted' = counted \ {a}
    /\ accounts' = accounts \ {a}
    /\ owner' = [p \in Project |-> IF owner[p] = a THEN NoAccount ELSE owner[p]]
    /\ Delete(QuizzesOf(a), {a})
    /\ created' = [created EXCEPT ![a] = <<>>]
    /\ started' = [started EXCEPT ![a] = 0]

(* or is rolled back. *)
RollBackDeletion(a) ==
    /\ a \in counted
    /\ counted' = counted \ {a}
    /\ UNCHANGED <<accounts, owner, quiz, registration, session, created,
                   started, checked, raced>>

-----------------------------------------------------------------------------

(* A unit of time passes. Usage events older than two days go with the daily *)
(* clean-up: no window counts them, so when it runs makes no difference.     *)
Elapse ==
    /\ created' = [a \in Account |->
           Younger([i \in DOMAIN created[a] |-> created[a][i] + 1], 2 * Day + 1)]
    /\ UNCHANGED <<accounts, owner, quiz, registration, session, started,
                   checked, counted, raced>>

(* A calendar month begins. *)
NewMonth ==
    /\ started' = [a \in Account |-> 0]
    /\ UNCHANGED <<accounts, owner, quiz, registration, session, created,
                   checked, counted, raced>>

Authoring(a, p, q) ==
    \/ CreateProject(a, p)
    \/ RemoveProject(p)
    \/ \E limit \in 1 .. MaxParticipants : CreateQuiz(a, p, q, limit) \/ Update(q, limit)
    \/ AddQuestion(q) \/ RemoveQuestion(q)
    \/ RemoveQuiz(q)
    \/ CheckPublish(q) \/ Publish(q)

Rooms(q) == OpenLobby(q) \/ CloseLobby(q) \/ Start(q) \/ End(q)

Accounts(a) == CountDependents(a) \/ DeleteAccount(a) \/ RollBackDeletion(a)

Next ==
    \/ \E a \in Hosts, p \in Project, q \in Quiz : Authoring(a, p, q)
    \/ \E q \in Quiz, u \in Account : Register(q, u) \/ Unregister(q, u)
    \/ \E q \in Quiz : Rooms(q)
    \/ \E a \in Leavers : Accounts(a)
    \/ Elapse \/ NewMonth

Spec == Init /\ [][Next]_vars

-----------------------------------------------------------------------------

(* The variables keep their types. *)
TypeOK ==
    /\ accounts \subseteq Account
    /\ owner \in [Project -> Account \cup {NoAccount}]
    /\ quiz \in [Quiz -> QuizRow]
    /\ registration \in [Quiz -> [Account -> {"none", "REGISTERED", "CANCELLED"}]]
    /\ session \in [Quiz -> {"none", "LOBBY", "LIVE", "COMPLETED"}]
    /\ created \in [Account -> Seq(0 .. 2 * Day)]
    /\ started \in [Account -> Nat]
    /\ checked \subseteq Quiz
    /\ counted \subseteq accounts
    /\ raced \subseteq Quiz

(* A quiz's status and its live session say the same, although one operation *)
(* of each kind writes both rows: openLobby, closeLobby, start, end, and the *)
(* deletions that take both away.                                            *)
StatusMatchesSession ==
    \A q \in Quiz : \A s \in {"LOBBY", "LIVE", "COMPLETED"} :
        quiz[q].status = s <=> session[q] = s

(* A host never runs two rooms at once (openLobby, and the unique index      *)
(* live_quiz_sessions_one_active_per_host).                                  *)
OneRoomPerHost ==
    \A q, r \in Quiz : Running(q) /\ Running(r) /\ Host(q) = Host(r) => q = r

(* Registrations never exceed the limit, although the host may lower it      *)
(* while people register, and come back by closing the lobby.                *)
WithinCapacity == \A q \in Quiz : Cardinality(Registered(q)) \leq quiz[q].limit

(* In no period of a day, whenever it begins, does an account create more    *)
(* quizzes than its allowance, and in no month does it start more live       *)
(* quizzes than its allowance; deleting a quiz gives nothing back.           *)
AllowancesKept ==
    \A a \in Account :
        /\ \A i \in 1 .. Len(created[a]) - CreationsPerDay :
               created[a][i] - created[a][i + CreationsPerDay] \geq Day
        /\ started[a] \leq HostedPerMonth

(* A published quiz has a question, unless its last one was removed between  *)
(* the validation of its publication and the commit.                         *)
PublishedHasQuestions ==
    \A q \in Quiz : quiz[q].status \in Unfinished => quiz[q].questions > 0 \/ q \in raced

(* Every quiz keeps the promises of QuizStatus, whatever its host, its        *)
(* participants and the deletion of their accounts do at once: among others   *)
(* nobody enters or leaves the list of a started quiz, and no deletion takes  *)
(* a quiz in its lobby or live. A deletion that counted before a publication  *)
(* still holds the account's lock, which opening the lobby needs.             *)
Life == INSTANCE QuizStatus WITH
            status <- [q \in Quiz |-> quiz[q].status],
            host <- [q \in Quiz |-> Host(q)],
            registered <- [q \in Quiz |-> Registered(q)]

FollowsQuizStatus == Life!Spec

=============================================================================
