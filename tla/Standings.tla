----------------------------- MODULE Standings -----------------------------
(***************************************************************************)
(* From an answer to a rank: whether an answer is accepted and correct,     *)
(* what it earns, the standing of a participant during the quiz, the        *)
(* results saved at its end, the boards and pages made of them. Functions   *)
(* of their arguments; LiveSession says which answers there are.            *)
(*                                                                           *)
(* A question is [type, options, correct], the options being ids; an answer *)
(* is [given, selected, text]: whether it carries option ids, which, and    *)
(* whether its text is "undefined", "empty" or "typed". What was submitted  *)
(* is a function from <<question, user>> to [verdict, points].              *)
(***************************************************************************)
EXTENDS Integers, SequencesExt

MaxPoints == 1000    \* SCORING.MAX_POINTS
SpeedLoss == 600     \* MAX_POINTS x SPEED_WEIGHT

(* evaluateAnswer: the answers it does not refuse...                         *)
Accepted(question, answer) ==
    IF question.type = "DESCRIPTIVE"
    THEN ~ answer.given /\ answer.text = "typed"
    ELSE /\ answer.text = "undefined" /\ answer.selected # <<>>
         /\ IsInjective(answer.selected)
         /\ question.type = "SINGLE_CHOICE" => Len(answer.selected) = 1
         /\ ToSet(answer.selected) \subseteq question.options

(* ... and its isCorrect for them.                                           *)
Verdict(question, answer) ==
    IF question.type = "DESCRIPTIVE" THEN "unscored"
    ELSE IF /\ Len(answer.selected) = Cardinality(question.correct)
            /\ \A id \in question.correct : \E i \in DOMAIN answer.selected : answer.selected[i] = id
         THEN "correct" ELSE "incorrect"

(* pointsFor, in milliseconds. Math.round of a floating-point number: an     *)
(* exact half may be rounded either way.                                     *)
PointsFor(verdict, responseTime, duration) ==
    IF verdict # "correct" \/ duration <= 0 THEN {0}
    ELSE LET elapsed == IF responseTime < 0 THEN 0
                        ELSE IF responseTime > duration THEN duration ELSE responseTime
             exact == MaxPoints * duration - SpeedLoss * elapsed  \* x duration
         IN {points \in 0 .. MaxPoints :
                /\ 2 * points * duration - 2 * exact <= duration
                /\ 2 * exact - 2 * points * duration <= duration}

-----------------------------------------------------------------------------
(* Submissions of user to one of the questions.                              *)
Submitted(submissions, user, questions) ==
    {q \in questions : <<q, user>> \in DOMAIN submissions}

Won(submissions, user, questions, verdict) ==
    {q \in Submitted(submissions, user, questions) : submissions[<<q, user>>].verdict = verdict}

TotalScore(submissions, user, questions) ==
    MapThenSumSet(LAMBDA q : submissions[<<q, user>>].points, Submitted(submissions, user, questions))

(* RANK() over the scores: ties share a rank, and leave a gap after them.    *)
Rank(score, user) == 1 + Cardinality({u \in DOMAIN score : score[u] > score[user]})

(* rankedStandings: everyone who entered, over the completed questions.      *)
RankedStandings(submissions, entered, completed) ==
    LET score == [u \in entered |-> TotalScore(submissions, u, completed)] IN
    [u \in entered |-> [totalScore |-> score[u], rank |-> Rank(score, u)]]

(* finalResultRows: over the asked questions; the counts leave out the       *)
(* descriptive ones.                                                         *)
FinalResultRows(submissions, entered, asked, type) ==
    LET score == [u \in entered |-> TotalScore(submissions, u, asked)]
        scored == {q \in asked : type[q] # "DESCRIPTIVE"}
    IN [u \in entered |->
          [totalScore |-> score[u], rank |-> Rank(score, u),
           correct |-> Cardinality(Won(submissions, u, scored, "correct")),
           incorrect |-> Cardinality(Won(submissions, u, scored, "incorrect")),
           notAttempted |-> Cardinality(scored) - Cardinality(Submitted(submissions, u, scored))]]

(* By rank, then by name; two people of the same name and rank are in any    *)
(* order on a board, and by their ids on a page.                             *)
Before(rows, name, u, v) ==
    rows[u].rank < rows[v].rank \/ (rows[u].rank = rows[v].rank /\ name[u] < name[v])

(* leaderboard, during the quiz and after it: the first of those who scored. *)
Boards(rows, name, size) ==
    LET scorers == {u \in DOMAIN rows : rows[u].totalScore > 0}
        length == Min({Cardinality(scorers), size})
    IN {board \in [1 .. length -> scorers] :
          /\ IsInjective(board)
          /\ \A i, j \in 1 .. length : i < j => ~ Before(rows, name, board[j], board[i])
          /\ \A u \in scorers \ ToSet(board), i \in 1 .. length : ~ Before(rows, name, u, board[i])}

(* hostResults: one page, read with one row more to know of another page.    *)
PageOf(ordered, offset, size) ==
    LET read == SubSeq(ordered, offset + 1, Min({offset + size + 1, Len(ordered)}))
    IN [entries |-> SubSeq(read, 1, Min({size, Len(read)})), more |-> Len(read) > size]

Page(rows, name, offset, size) ==
    LET Earlier(u, v) == Before(rows, name, u, v) \/ (~ Before(rows, name, v, u) /\ u < v)
    IN PageOf(SetToSortSeq(DOMAIN rows, Earlier), offset, size)

(* The averageScore of the summary.                                          *)
AverageScore(rows) ==
    LET total == MapThenSumSet(LAMBDA u : rows[u].totalScore, DOMAIN rows)
        n == Cardinality(DOMAIN rows)
    IN IF n = 0 THEN 0 ELSE (2 * total + n) \div (2 * n)

=============================================================================
