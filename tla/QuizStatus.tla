----------------------------- MODULE QuizStatus -----------------------------
(***************************************************************************)
(* What a quiz promises its host and its participants, without projects,    *)
(* sessions, validations, allowances or the locks of a deletion: the        *)
(* statuses of QUIZ_STATUS are passed in order, a host keeps a quiz from    *)
(* its creation on, and the list of those who take part is open from the    *)
(* publication to the start and then stays as it is, except for people who  *)
(* leave the platform.  QuizLifecycle implements it.                        *)
(***************************************************************************)
CONSTANTS
    Account,     \* users
    Quiz,        \* ids a quiz can have
    NoAccount    \* the host of a quiz that does not exist

VARIABLES
    accounts,    \* the users that exist
    status,      \* per quiz, "none" when there is no such quiz
    host,        \* per quiz
    registered   \* per quiz: who takes part

vars == <<accounts, status, host, registered>>

Init ==
    /\ accounts = Account
    /\ status = [q \in Quiz |-> "none"]
    /\ host = [q \in Quiz |-> NoAccount]
    /\ registered = [q \in Quiz |-> {}]

Listed(q, people) == registered'[q] = people /\ UNCHANGED <<status[q], host[q]>>
Becomes(q, s) == status'[q] = s /\ UNCHANGED <<host[q], registered[q]>>

Stays(q) == Listed(q, registered[q])

Create(q) ==
    /\ status[q] = "none"
    /\ status'[q] = "DRAFT"
    /\ host'[q] \in accounts
    /\ registered'[q] = {}

Publish(q) == status[q] = "DRAFT" /\ Becomes(q, "PUBLISHED")
OpenLobby(q) == status[q] = "PUBLISHED" /\ Becomes(q, "LOBBY")
CloseLobby(q) == status[q] = "LOBBY" /\ Becomes(q, "PUBLISHED")
Start(q) == status[q] = "LOBBY" /\ Becomes(q, "LIVE")

\* From the lobby too.
End(q) == status[q] \in {"LOBBY", "LIVE"} /\ Becomes(q, "COMPLETED")

\* An existing user, never the host.
Register(q) ==
    /\ status[q] \in {"PUBLISHED", "LOBBY"}
    /\ \E u \in accounts \ {host[q]} : Listed(q, registered[q] \cup {u})

\* Once the quiz has started nobody leaves it but with the account: not
\* promised (users/service.ts:45-47 refuses that account's deletion), but left
\* to happen to who registers while the account is being deleted.
Leave(q) ==
    \E u \in registered[q] :
        /\ status[q] \in {"PUBLISHED", "LOBBY"} \/ u \notin accounts'
        /\ Listed(q, registered[q] \ {u})

Goes(q) ==
    /\ status'[q] = "none"
    /\ host'[q] = NoAccount
    /\ registered'[q] = {}

\* A draft goes when its host wants, a completed quiz only with the host's
\* account, and none that is in its lobby or live.
Delete(q) ==
    /\ \/ status[q] = "DRAFT"
       \/ status[q] = "COMPLETED" /\ host[q] \notin accounts'
    /\ Goes(q)

\* Not promised either: "Refused while the user hosts a quiz that is published,
\* in its lobby or live" (users/service.ts:45-47).  The code counts such
\* quizzes before it deletes, and one published in between goes with the
\* account.  One whose lobby was opened in between does not.
GoesWithHost(q) ==
    /\ status[q] = "PUBLISHED" /\ host[q] \notin accounts'
    /\ Goes(q)

Lives(q) ==
    \/ Stays(q)
    \/ Create(q) \/ Publish(q) \/ OpenLobby(q) \/ CloseLobby(q) \/ Start(q)
    \/ End(q)
    \/ Register(q) \/ Leave(q)
    \/ Delete(q) \/ GoesWithHost(q)

\* One deletion can concern several quizzes; accounts do not come back.
Next == accounts' \subseteq accounts /\ \A q \in Quiz : Lives(q)

Spec == Init /\ [][Next]_vars

=============================================================================
