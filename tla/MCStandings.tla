---------------------------- MODULE MCStandings ----------------------------
(***************************************************************************)
(* Standings against definitions of what it computes, over small inputs:    *)
(* TLC evaluates the assumptions when it starts.                            *)
(***************************************************************************)
EXTENDS Integers, Sequences, FiniteSets

LOCAL S == INSTANCE Standings

\* The amounts of the unit tests, and halves either way.
ASSUME TestedPoints ==
    /\ \A sample \in {<<0, 1000>>, <<1600, 952>>, <<9000, 730>>, <<19400, 418>>, <<20000, 400>>, <<-5, 1000>>} :
          S!PointsFor("correct", sample[1], 20000) = {sample[2]}
    /\ S!PointsFor("correct", 1, 16) = {962, 963}
    /\ \A verdict \in {"incorrect", "unscored"} : S!PointsFor(verdict, 0, 20000) = {0}

\* Every amount is that of the line from 1000 to 400, to the nearest point, and
\* a later answer may always earn no more.
ASSUME PointsOnTheLine ==
    \A duration \in 1 .. 12 : \A r \in 0 .. duration :
       \A p \in S!PointsFor("correct", r, duration) :
          /\ (10 * p - 10000) * duration + 6000 * r \in -(5 * duration) .. 5 * duration
          /\ \A later \in r .. duration : \E q \in S!PointsFor("correct", later, duration) : q <= p

\* An accepted choice is correct when it selects the correct options, in any
\* order; nothing else about it matters.
ASSUME ChoicesByTheSet ==
    \A type \in {"SINGLE_CHOICE", "MULTIPLE_CHOICE"}, correct \in SUBSET (1 .. 3),
       selected \in UNION {[1 .. n -> 1 .. 4] : n \in 0 .. 3}, given \in BOOLEAN :
       LET question == [type |-> type, options |-> 1 .. 3, correct |-> correct]
           answer == [given |-> given, selected |-> selected, text |-> "undefined"]
           chosen == {selected[i] : i \in DOMAIN selected}
       IN (selected # <<>> => given) =>
          /\ S!Accepted(question, answer) <=>
               /\ chosen \subseteq 1 .. 3 /\ Cardinality(chosen) = Len(selected)
               /\ Len(selected) \in IF type = "SINGLE_CHOICE" THEN {1} ELSE 1 .. 3
          /\ S!Accepted(question, answer) =>
               (S!Verdict(question, answer) = "correct" <=> chosen = correct)

-----------------------------------------------------------------------------
Scores == [1 .. 3 -> 0 .. 2]

\* u's rank is the first place of its score when everyone is lined up.
ASSUME RankIsFirstPlace ==
    \A score \in Scores, u \in 1 .. 3 :
       \A line \in {s \in [1 .. 3 -> 1 .. 3] : /\ \A i, j \in 1 .. 3 : i # j => s[i] # s[j]
                                               /\ \A i \in 1 .. 2 : score[s[i]] >= score[s[i + 1]]} :
          LET places == {i \in 1 .. 3 : score[line[i]] = score[u]}
          IN S!Rank(score, u) \in places /\ \A i \in places : S!Rank(score, u) <= i

\* Submissions of users 1 .. 3 to questions "a" (choice) and "d" (descriptive).
Type == [q \in {"a", "d"} |-> IF q = "d" THEN "DESCRIPTIVE" ELSE "SINGLE_CHOICE"]
Kinds == {[verdict |-> "correct", points |-> 2], [verdict |-> "correct", points |-> 1],
          [verdict |-> "incorrect", points |-> 0]}
Taken == UNION {[{<<"a", u>> : u \in who} -> Kinds] : who \in SUBSET (1 .. 3)}
Typed == [k \in {<<"d", 1>>} |-> [verdict |-> "unscored", points |-> 0]]
WithTyped(f) == [k \in DOMAIN f \cup DOMAIN Typed |-> IF k \in DOMAIN f THEN f[k] ELSE Typed[k]]

\* Once everything asked is completed, the saved results are the standings; a
\* descriptive answer changes neither.
ASSUME ResultsAreStandings ==
    \A f \in Taken :
       LET live == S!RankedStandings(f, 1 .. 3, {"a", "d"})
           final == S!FinalResultRows(WithTyped(f), 1 .. 3, {"a", "d"}, Type)
       IN \A u \in 1 .. 3 :
             /\ final[u].totalScore = live[u].totalScore /\ final[u].rank = live[u].rank
             /\ final[u].correct + final[u].incorrect + final[u].notAttempted = 1

Rows(score) == [u \in DOMAIN score |-> [totalScore |-> score[u], rank |-> S!Rank(score, u)]]

\* A board has the best who scored, and two boards of the same standings differ
\* only in people of the same score and name.
ASSUME BoardsAreTheBest ==
    \A score \in Scores, name \in [1 .. 3 -> 1 .. 2], size \in 1 .. 3 :
       LET boards == S!Boards(Rows(score), name, size) IN
       /\ boards # {}
       /\ \A b, c \in boards : \A i \in DOMAIN b :
             /\ score[b[i]] = score[c[i]] /\ name[b[i]] = name[c[i]]
             /\ \A u \in 1 .. 3 : score[u] > score[b[i]] => \E j \in 1 .. i : b[j] = u

\* Following the pages of the results lists everyone once, and the last page
\* says that it is.
ASSUME PagesListEveryone ==
    \A score \in Scores, name \in [1 .. 3 -> 1 .. 2], size \in 1 .. 2 :
       LET page(k) == S!Page(Rows(score), name, k * size, size)
           last == 3 \div size - (IF 3 % size = 0 THEN 1 ELSE 0)
           listed == UNION {{page(k).entries[i] : i \in DOMAIN page(k).entries} : k \in 0 .. last}
       IN /\ listed = 1 .. 3
          /\ \A k \in 0 .. last : page(k).more <=> k < last
          /\ \A k \in 0 .. last - 1 : Len(page(k).entries) = size

\* The average is to the nearest point, halves up.
ASSUME AverageIsRounded ==
    \A score \in Scores :
       LET sum == score[1] + score[2] + score[3] IN
       2 * sum - 6 * S!AverageScore(Rows(score)) \in -3 .. 2

=============================================================================
