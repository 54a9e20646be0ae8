--------------------------- MODULE StandingsProofs ---------------------------
(***************************************************************************)
(* Proofs about Standings, for every time limit, answer, score and number   *)
(* of participants.                                                         *)
(***************************************************************************)
EXTENDS Standings, FiniteSetTheorems, SequenceTheorems, TLAPS

LEMMA MinOfTwo ==
  ASSUME NEW a \in Int, NEW b \in Int
  PROVE  Min({a, b}) = IF a <= b THEN a ELSE b
<1>1. \E x \in {a, b} : \A y \in {a, b} : x <= y
  OBVIOUS
<1>2. Min({a, b}) \in {a, b} /\ \A y \in {a, b} : Min({a, b}) <= y
  BY <1>1 DEF Min
<1> QED
  BY <1>2

\* "a correct answer earns MAX_POINTS when instant and falls linearly ... to
\* MAX_POINTS x (1 - SPEED_WEIGHT) at the deadline": it earns between 400 and 1000.
THEOREM PointsInRange ==
  ASSUME NEW duration \in Nat \ {0}, NEW responseTime \in Int,
         NEW points \in PointsFor("correct", responseTime, duration)
  PROVE  points \in 400 .. 1000
<1> DEFINE elapsed == IF responseTime < 0 THEN 0
                      ELSE IF responseTime > duration THEN duration ELSE responseTime
           exact == MaxPoints * duration - SpeedLoss * elapsed
<1>1. elapsed \in 0 .. duration
  OBVIOUS
<1>2. /\ points \in 0 .. 1000
      /\ 2 * points * duration - 2 * exact <= duration
      /\ 2 * exact - 2 * points * duration <= duration
  BY DEF PointsFor, MaxPoints
<1>3. exact \in Int /\ exact >= 400 * duration
  BY <1>1 DEF MaxPoints, SpeedLoss
<1> HIDE DEF elapsed, exact
<1>4. points >= 400
  <2>1. SUFFICES ASSUME points <= 399 PROVE FALSE
    BY <1>2
  <2>2. points * duration <= 399 * duration
    BY <2>1, <1>2
  <2>3. points * duration \in Int
    BY <1>2
  <2> QED
    BY <1>2, <1>3, <2>2, <2>3
<1> QED
  BY <1>2, <1>4

\* "Speed is part of the score": of two correct answers the faster one never
\* earns less, however halves are rounded.
THEOREM FasterEarnsNoLess ==
  ASSUME NEW duration \in Nat \ {0}, NEW faster \in Int, NEW slower \in Int, faster < slower,
         slower <= duration,
         NEW more \in PointsFor("correct", faster, duration),
         NEW less \in PointsFor("correct", slower, duration), slower > 0
  PROVE  more >= less
<1> DEFINE e == IF faster < 0 THEN 0 ELSE IF faster > duration THEN duration ELSE faster
           f == IF slower < 0 THEN 0 ELSE IF slower > duration THEN duration ELSE slower
           x == MaxPoints * duration - SpeedLoss * e
           y == MaxPoints * duration - SpeedLoss * f
<1>1. e \in Int /\ f \in Int /\ e < f
  OBVIOUS
<1>2. more \in Int /\ less \in Int /\ 2 * x - 2 * more * duration <= duration
                                   /\ 2 * less * duration - 2 * y <= duration
  BY DEF PointsFor
<1>3. x \in Int /\ y \in Int /\ y < x
  BY <1>1 DEF MaxPoints, SpeedLoss
<1> HIDE DEF e, f, x, y
<1>4. SUFFICES ASSUME less >= more + 1 PROVE FALSE
  BY <1>2
<1>5. less * duration >= more * duration + duration
  <2>1. less * duration >= (more + 1) * duration
    BY <1>2, <1>4
  <2>2. (more + 1) * duration = more * duration + duration
    BY <1>2
  <2> QED
    BY <1>2, <2>1, <2>2
<1>6. more * duration \in Int /\ less * duration \in Int
  BY <1>2
<1> QED
  BY <1>2, <1>3, <1>5, <1>6

\* Every answer has its points.
LEMMA PointsExist ==
  ASSUME NEW verdict, NEW duration \in Int, NEW responseTime \in Int
  PROVE  PointsFor(verdict, responseTime, duration) # {}
<1>1. CASE verdict # "correct" \/ duration <= 0
  BY <1>1 DEF PointsFor
<1>2. CASE verdict = "correct" /\ duration > 0
  <2> DEFINE elapsed == IF responseTime < 0 THEN 0
                        ELSE IF responseTime > duration THEN duration ELSE responseTime
             exact == MaxPoints * duration - SpeedLoss * elapsed
             n == 2 * exact + duration
             d == 2 * duration
             points == n \div d
  <2>1. elapsed \in 0 .. duration
    BY <1>2
  <2>2. exact \in Int /\ exact >= 400 * duration /\ exact <= 1000 * duration
    BY <1>2, <2>1 DEF MaxPoints, SpeedLoss
  <2> HIDE DEF elapsed, exact
  <2>3. n \in Nat /\ d \in Nat \ {0} /\ n <= 1000 * d + duration
    BY <1>2, <2>2
  <2>4. points \in Nat /\ d * points <= n /\ n < d * points + d
    <3> HIDE DEF n, d
    <3> QED
      BY <2>3
  <2> HIDE DEF points
  <2>5. d * points = 2 * points * duration /\ points * duration \in Int
    BY <1>2, <2>4
  <2>6. points <= 1000
    <3>1. SUFFICES ASSUME points >= 1001 PROVE FALSE
      BY <2>4
    <3>2. points * duration >= 1001 * duration
      BY <1>2, <2>4, <3>1
    <3> QED
      BY <1>2, <2>2, <2>4, <2>5, <3>2
  <2>7. /\ 2 * points * duration - 2 * exact <= duration
        /\ 2 * exact - 2 * points * duration <= duration
    BY <1>2, <2>2, <2>4, <2>5
  <2>8. points \in PointsFor(verdict, responseTime, duration)
    BY <1>2, <2>4, <2>6, <2>7 DEF PointsFor, MaxPoints, elapsed, exact
  <2> QED
    BY <2>8
<1> QED
  BY <1>1, <1>2

-----------------------------------------------------------------------------

\* "Multiple answer is all-or-nothing: every correct option and nothing else":
\* an accepted answer is correct exactly when it selects the correct options.
THEOREM AllOrNothing ==
  ASSUME NEW question, NEW answer, question.type # "DESCRIPTIVE",
         IsFiniteSet(question.correct), question.correct \subseteq question.options,
         answer.selected \in Seq(question.options), Accepted(question, answer)
  PROVE  Verdict(question, answer) = "correct" <=> ToSet(answer.selected) = question.correct
<1> DEFINE s == answer.selected
           chosen == ToSet(s)
<1>1. s \in Seq(question.options) /\ IsInjective(s) /\ DOMAIN s = 1 .. Len(s) /\ Len(s) \in Nat
  BY DEF Accepted
<1>2. chosen = {s[i] : i \in 1 .. Len(s)}
  BY <1>1 DEF ToSet
<1> HIDE DEF s
<1>3. ExistsBijection(1 .. Len(s), chosen)
  <2>1. s \in [1 .. Len(s) -> chosen]
    BY <1>1, <1>2
  <2>2. s \in Bijection(1 .. Len(s), chosen)
    BY <1>1, <1>2, <2>1 DEF Bijection, Injection, Surjection, IsInjective
  <2> QED
    BY <2>2 DEF ExistsBijection
<1>4. IsFiniteSet(chosen) /\ Cardinality(chosen) = Len(s)
  BY <1>1, <1>3, FS_NatBijection, FS_CountingElements
<1>5. Verdict(question, answer) = "correct" <=>
         Len(s) = Cardinality(question.correct) /\ question.correct \subseteq chosen
  BY <1>1, <1>2 DEF Verdict, s
<1> HIDE DEF chosen
<1>6. question.correct \subseteq chosen /\ Cardinality(chosen) = Cardinality(question.correct)
      => chosen = question.correct
  BY <1>4, FS_Subset
<1> QED
  BY <1>4, <1>5, <1>6 DEF chosen, s

\* "Ties share a rank (1, 1, 3)": equal scores have equal ranks, a higher score
\* a better one, and nobody's rank is beyond the number of participants.
THEOREM RanksAgree ==
  ASSUME NEW P, IsFiniteSet(P), NEW score \in [P -> Nat], NEW u \in P, NEW v \in P
  PROVE  /\ score[u] = score[v] => Rank(score, u) = Rank(score, v)
         /\ score[u] > score[v] => Rank(score, u) < Rank(score, v)
         /\ Rank(score, u) \in 1 .. Cardinality(P)
<1> DEFINE Above(x) == {w \in P : score[w] > score[x]}
<1>1. \A x \in P : Rank(score, x) = 1 + Cardinality(Above(x))
  BY DEF Rank
<1>2. \A x \in P : /\ IsFiniteSet(Above(x)) /\ Cardinality(Above(x)) \in Nat
                   /\ Cardinality(Above(x)) <= Cardinality(P)
                   /\ x \notin Above(x) /\ Above(x) \in SUBSET P
  BY FS_Subset, FS_CardinalityType
<1>3. score[u] = score[v] => Above(u) = Above(v)
  OBVIOUS
<1>4. score[u] > score[v] => Above(u) \in SUBSET Above(v) /\ u \in Above(v)
  OBVIOUS
<1> HIDE DEF Above
<1>5. score[u] > score[v] => Cardinality(Above(u)) < Cardinality(Above(v))
  <2>1. SUFFICES ASSUME score[u] > score[v] PROVE Cardinality(Above(u)) < Cardinality(Above(v))
    OBVIOUS
  <2>2. Cardinality(Above(u)) <= Cardinality(Above(v)) /\ Cardinality(Above(u)) # Cardinality(Above(v))
    BY <1>2, <1>4, <2>1, FS_Subset
  <2> QED
    BY <1>2, <2>2
<1>6. Cardinality(Above(u)) < Cardinality(P)
  <2>1. Cardinality(Above(u)) # Cardinality(P)
    BY <1>2, FS_Subset
  <2> QED
    BY <1>2, <2>1, FS_CardinalityType
<1> QED
  BY <1>1, <1>2, <1>3, <1>5, <1>6, FS_CardinalityType

\* Everyone's final counts add up to the scored questions that were asked.
THEOREM CountsAddUp ==
  ASSUME NEW submissions, NEW entered, NEW asked, NEW type, IsFiniteSet(asked), NEW u \in entered,
         \A q \in asked : type[q] # "DESCRIPTIVE" /\ <<q, u>> \in DOMAIN submissions =>
            submissions[<<q, u>>].verdict \in {"correct", "incorrect"}
  PROVE  LET row == FinalResultRows(submissions, entered, asked, type)[u]
         IN  row.correct + row.incorrect + row.notAttempted =
             Cardinality({q \in asked : type[q] # "DESCRIPTIVE"})
<1> DEFINE scored == {q \in asked : type[q] # "DESCRIPTIVE"}
           yes == Won(submissions, u, scored, "correct")
           no == Won(submissions, u, scored, "incorrect")
           all == Submitted(submissions, u, scored)
           row == FinalResultRows(submissions, entered, asked, type)[u]
<1>1. row.correct = Cardinality(yes) /\ row.incorrect = Cardinality(no)
      /\ row.notAttempted = Cardinality(scored) - Cardinality(all)
  BY DEF FinalResultRows
<1>2. yes \cup no = all /\ yes \cap no = {} /\ all \in SUBSET scored /\ scored \in SUBSET asked
  BY DEF Won, Submitted
<1> HIDE DEF scored, yes, no, all
<1>3. IsFiniteSet(scored) /\ IsFiniteSet(all)
  BY <1>2, FS_Subset
<1>4. IsFiniteSet(yes) /\ IsFiniteSet(no)
  BY <1>2, <1>3, FS_Subset
<1>5. Cardinality(all) = Cardinality(yes) + Cardinality(no)
  <2>1. Cardinality(yes \cup no) = Cardinality(yes) + Cardinality(no) - Cardinality(yes \cap no)
    BY <1>4, FS_Union
  <2>2. Cardinality(yes) \in Nat /\ Cardinality(no) \in Nat /\ Cardinality({}) = 0
    BY <1>4, FS_CardinalityType, FS_EmptySet
  <2>3. Cardinality(yes \cap no) = 0 /\ Cardinality(yes \cup no) = Cardinality(all)
    <3>1. yes \cap no = {} /\ yes \cup no = all
      BY <1>2
    <3> QED
      BY <2>2, <3>1, Zenon
  <2> QED
    BY <2>1, <2>2, <2>3
<1>6. {Cardinality(yes), Cardinality(no), Cardinality(all), Cardinality(scored)} \subseteq Nat
  BY <1>3, <1>4, FS_CardinalityType
<1> QED
  BY <1>1, <1>5, <1>6 DEF scored

-----------------------------------------------------------------------------
(* Places, boards and pages                                                  *)

\* "Ties share a rank (1, 1, 3)": lined up by their scores, everyone's rank is
\* the first place of their score in the line.
THEOREM RankIsPlace ==
  ASSUME NEW P, NEW score \in [P -> Int], NEW n \in Nat, NEW line \in Bijection(1 .. n, P),
         \A i, j \in 1 .. n : i < j => score[line[i]] >= score[line[j]],
         NEW place \in 1 .. n,
         \A i \in 1 .. place - 1 : score[line[i]] # score[line[place]]
  PROVE  Rank(score, line[place]) = place
<1> DEFINE above == {u \in P : score[u] > score[line[place]]}
           first == place - 1
           part == [i \in 1 .. first |-> line[i]]
<1>1. line \in [1 .. n -> P] /\ (\A u \in P : \E i \in 1 .. n : line[i] = u)
      /\ \A i, j \in 1 .. n : line[i] = line[j] => i = j
  BY DEF Bijection, Injection, Surjection, IsInjective
<1>2. \A i \in 1 .. n : line[i] \in above <=> i \in 1 .. first
  <2>1. ASSUME NEW i \in 1 .. first PROVE line[i] \in above
    <3>1. i \in 1 .. n /\ i < place
      OBVIOUS
    <3>2. score[line[i]] >= score[line[place]] /\ score[line[i]] # score[line[place]]
      BY <3>1
    <3>3. line[i] \in P /\ score[line[i]] \in Int /\ score[line[place]] \in Int
      BY <1>1, <3>1
    <3> QED
      BY <3>2, <3>3
  <2>2. ASSUME NEW i \in 1 .. n, i \notin 1 .. first PROVE line[i] \notin above
    <3>1. i = place \/ place < i
      BY <2>2
    <3>2. score[line[place]] >= score[line[i]]
      BY <1>1, <3>1
    <3> QED
      BY <1>1, <3>2
  <2> QED
    BY <2>1, <2>2
<1>3. part \in Bijection(1 .. first, above)
  <2>1. \A u \in above : \E i \in 1 .. first : line[i] = u
    BY <1>1, <1>2
  <2>2. \A i \in 1 .. first : i \in 1 .. n /\ part[i] = line[i]
    OBVIOUS
  <2>3. part \in [1 .. first -> above]
    BY <1>2, <2>2
  <2>4. \A a, b \in 1 .. first : part[a] = part[b] => a = b
    BY <1>1, <2>2
  <2> HIDE DEF part, above, first
  <2> QED
    BY <2>1, <2>2, <2>3, <2>4 DEF Bijection, Injection, Surjection, IsInjective
<1>4. Cardinality(above) = first
  BY <1>3, FS_CountingElements DEF ExistsBijection
<1> QED
  BY <1>4 DEF Rank

\* Before is an order of the rows whose ties have the same rank and name.
LEMMA BeforeOrders ==
  ASSUME NEW rows, NEW name \in [DOMAIN rows -> Int], \A u \in DOMAIN rows : rows[u].rank \in Int,
         NEW u \in DOMAIN rows, NEW v \in DOMAIN rows, NEW w \in DOMAIN rows
  PROVE  /\ ~ Before(rows, name, u, v) /\ Before(rows, name, u, w) => Before(rows, name, v, w)
         /\ ~ Before(rows, name, u, v) /\ ~ Before(rows, name, v, u) =>
               rows[u].rank = rows[v].rank /\ name[u] = name[v]
  BY DEF Before

\* A board has the best of those who scored: whoever comes before someone of
\* the board, by rank and then by name, has an earlier place on it.
THEOREM BoardHasTheBest ==
  ASSUME NEW rows, NEW name \in [DOMAIN rows -> Int], NEW size \in Nat,
         IsFiniteSet(DOMAIN rows), \A u \in DOMAIN rows : rows[u].rank \in Int,
         NEW board \in Boards(rows, name, size),
         NEW i \in DOMAIN board,
         NEW u \in DOMAIN rows, rows[u].totalScore > 0, Before(rows, name, u, board[i])
  PROVE  \E j \in DOMAIN board : j < i /\ board[j] = u
<1> DEFINE scorers == {w \in DOMAIN rows : rows[w].totalScore > 0}
           length == Min({Cardinality(scorers), size})
<1>1. /\ board \in [1 .. length -> scorers]
      /\ \A x, y \in 1 .. length : x < y => ~ Before(rows, name, board[y], board[x])
      /\ \A w \in scorers \ ToSet(board), x \in 1 .. length : ~ Before(rows, name, w, board[x])
  BY DEF Boards
<1>2. length \in Nat
  <2>1. Cardinality(scorers) \in Nat
    BY FS_Subset, FS_CardinalityType
  <2> QED
    BY <2>1, MinOfTwo
<1> HIDE DEF length
<1>3. i \in 1 .. length /\ u \in ToSet(board)
  BY <1>1
<1>4. PICK j \in 1 .. length : board[j] = u
  BY <1>1, <1>3 DEF ToSet
<1>5. ~ i < j /\ i # j
  <2>1. ~ Before(rows, name, u, u)
    BY DEF Before
  <2> QED
    BY <1>1, <1>3, <1>4, <2>1
<1> QED
  BY <1>1, <1>2, <1>3, <1>4, <1>5

\* Two boards of the same standings show the same ranks and names at every
\* place: they differ only in people nobody has put in an order.
THEOREM BoardsAgree ==
  ASSUME NEW rows, NEW name \in [DOMAIN rows -> Int], NEW size \in Nat,
         IsFiniteSet(DOMAIN rows),
         \A u \in DOMAIN rows : rows[u].rank \in Int,
         NEW b \in Boards(rows, name, size), NEW c \in Boards(rows, name, size),
         NEW i \in DOMAIN b
  PROVE  /\ i \in DOMAIN c
         /\ rows[b[i]].rank = rows[c[i]].rank /\ name[b[i]] = name[c[i]]
<1> DEFINE scorers == {w \in DOMAIN rows : rows[w].totalScore > 0}
           length == Min({Cardinality(scorers), size})
<1>1. \A d \in {b, c} :
         /\ d \in [1 .. length -> scorers] /\ IsInjective(d)
         /\ \A x, y \in 1 .. length : x < y => ~ Before(rows, name, d[y], d[x])
  BY DEF Boards
<1>2. Cardinality(scorers) \in Nat
  BY FS_Subset, FS_CardinalityType
<1>3. length \in Nat
  BY <1>2, MinOfTwo
<1> HIDE DEF length, scorers
<1>4. DOMAIN b = 1 .. length /\ DOMAIN c = 1 .. length
  BY <1>1
<1>5. ASSUME NEW d \in {b, c}, NEW e \in {b, c}, Before(rows, name, d[i], e[i])
      PROVE  FALSE
  <2>1. ASSUME NEW k \in 1 .. i
        PROVE  \E j \in 1 .. i - 1 : e[j] = d[k]
    <3>1. k \in 1 .. length /\ i \in 1 .. length
      BY <1>3, <1>4
    <3>2. d[k] \in DOMAIN rows /\ d[i] \in DOMAIN rows /\ e[i] \in DOMAIN rows
          /\ rows[d[k]].totalScore > 0
      BY <1>1, <3>1 DEF scorers
    <3>3. k = i \/ ~ Before(rows, name, d[i], d[k])
      <4>1. k = i \/ k < i
        BY <1>3, <3>1
      <4> QED
        BY <1>1, <3>1, <4>1
    <3>4. Before(rows, name, d[k], e[i])
      BY <1>5, <3>2, <3>3, BeforeOrders
    <3>5. PICK j \in DOMAIN e : j < i /\ e[j] = d[k]
      <4>1. e \in Boards(rows, name, size) /\ i \in DOMAIN e
        BY <1>4, <3>1
      <4> QED
        BY <3>2, <3>4, <4>1, BoardHasTheBest
    <3> QED
      BY <1>3, <1>4, <3>5
  <2> DEFINE to == [k \in 1 .. i |-> CHOOSE j \in 1 .. i - 1 : e[j] = d[k]]
  <2>2. \A k \in 1 .. i : to[k] \in 1 .. i - 1 /\ e[to[k]] = d[k]
    BY <2>1
  <2>3. to \in [1 .. i -> 1 .. i - 1]
    BY <2>2
  <2> HIDE DEF to
  <2>4. i \in Int /\ 1 <= i /\ i <= length
    BY <1>3, <1>4
  <2>5. /\ IsFiniteSet(1 .. i) /\ Cardinality(1 .. i) = i
        /\ IsFiniteSet(1 .. i - 1) /\ Cardinality(1 .. i - 1) = i - 1
    BY <2>4, FS_Interval
  <2>6. PICK x, y \in 1 .. i : x # y /\ to[x] = to[y]
    <3>1. Cardinality(1 .. i - 1) < Cardinality(1 .. i)
      BY <2>4, <2>5
    <3> QED
      BY <2>3, <2>5, <3>1, FS_PigeonHole
  <2>7. d[x] = d[y] /\ x \in DOMAIN d /\ y \in DOMAIN d
    BY <1>3, <1>4, <2>2, <2>4, <2>6
  <2> QED
    BY <1>1, <2>6, <2>7 DEF IsInjective
<1>6. b[i] \in DOMAIN rows /\ c[i] \in DOMAIN rows
  BY <1>1, <1>4 DEF scorers
<1> QED
  BY <1>4, <1>5, <1>6, BeforeOrders

\* A page of the results has the next entries of the list, as many as fit, and
\* says whether others follow.
THEOREM PageIsNext ==
  ASSUME NEW S, NEW list \in Seq(S), NEW offset \in 0 .. Len(list), NEW size \in Nat
  PROVE  LET page == PageOf(list, offset, size)
             n == IF offset + size <= Len(list) THEN size ELSE Len(list) - offset
         IN  /\ page.entries \in Seq(S) /\ Len(page.entries) = n
             /\ \A i \in 1 .. n : page.entries[i] = list[offset + i]
             /\ page.more <=> offset + size < Len(list)
<1> DEFINE n == IF offset + size <= Len(list) THEN size ELSE Len(list) - offset
           last == Min({offset + size + 1, Len(list)})
           read == SubSeq(list, offset + 1, last)
           end == Min({size, Len(read)})
<1>1. last = IF offset + size + 1 <= Len(list) THEN offset + size + 1 ELSE Len(list)
  BY MinOfTwo
<1>2. last \in Int /\ offset + 1 \in Int /\ last <= Len(list) /\ last >= offset
  BY <1>1
<1>3. \A i \in offset + 1 .. last : list[i] \in S
  BY <1>2, ElementOfSeq
<1> HIDE DEF last
<1>4. /\ read \in Seq(S) /\ Len(read) = last - offset
      /\ \A i \in 1 .. last - offset : read[i] = list[offset + i]
  <2>1. /\ read \in Seq(S)
        /\ Len(read) = IF offset + 1 <= last THEN last - (offset + 1) + 1 ELSE 0
        /\ \A i \in 1 .. last - (offset + 1) + 1 : read[i] = list[offset + 1 + i - 1]
    BY <1>2, <1>3, SubSeqProperties
  <2> HIDE DEF read
  <2> QED
    BY <1>2, <2>1
<1> HIDE DEF read
<1>5. end = n /\ n \in Nat /\ n <= Len(read)
  <2>1. end = IF size <= Len(read) THEN size ELSE Len(read)
    BY <1>2, <1>4, MinOfTwo
  <2> HIDE DEF end
  <2> QED
    BY <1>1, <1>2, <1>4, <2>1
<1> HIDE DEF n, end
<1>6. \A i \in 1 .. end : read[i] \in S
  BY <1>4, <1>5, ElementOfSeq
<1>7. /\ SubSeq(read, 1, end) \in Seq(S) /\ Len(SubSeq(read, 1, end)) = n
      /\ \A i \in 1 .. n : SubSeq(read, 1, end)[i] = list[offset + i]
  <2>1. /\ SubSeq(read, 1, end) \in Seq(S)
        /\ Len(SubSeq(read, 1, end)) = IF 1 <= end THEN end - 1 + 1 ELSE 0
        /\ \A i \in 1 .. end - 1 + 1 : SubSeq(read, 1, end)[i] = read[1 + i - 1]
    BY <1>5, <1>6, SubSeqProperties
  <2>2. (IF 1 <= end THEN end - 1 + 1 ELSE 0) = n /\ end - 1 + 1 = n
    BY <1>5
  <2>3. \A i \in 1 .. n : SubSeq(read, 1, end)[i] = read[i] /\ read[i] = list[offset + i]
    <3>1. \A i \in 1 .. n : 1 + i - 1 = i /\ i \in 1 .. last - offset
      BY <1>4, <1>5
    <3> QED
      BY <1>4, <2>1, <2>2, <3>1
  <2> QED
    BY <2>1, <2>2, <2>3
<1>8. Len(read) > size <=> offset + size < Len(list)
  BY <1>1, <1>2, <1>4
<1>9. PageOf(list, offset, size) = [entries |-> SubSeq(read, 1, end), more |-> Len(read) > size]
  BY DEF PageOf, read, end, last
<1> DEFINE page == PageOf(list, offset, size)
<1>10. page.entries = SubSeq(read, 1, end) /\ (page.more <=> Len(read) > size)
  <2> DEFINE shown == SubSeq(read, 1, end)
             others == Len(read) > size
  <2>1. page = [entries |-> shown, more |-> others]
    BY <1>9
  <2> HIDE DEF page, shown, others
  <2>2. page.entries = shown /\ (page.more <=> others)
    BY <2>1
  <2> QED
    BY <2>2 DEF shown, others
<1> HIDE DEF page
<1>11. /\ page.entries \in Seq(S) /\ Len(page.entries) = n
       /\ \A i \in 1 .. n : page.entries[i] = list[offset + i]
       /\ page.more <=> offset + size < Len(list)
  BY <1>7, <1>8, <1>10
<1> QED
  BY <1>11 DEF n, page

\* Following the pages while they say that others follow lists every entry, and
\* none on two pages.
THEOREM PagesListEachOnce ==
  ASSUME NEW S, NEW list \in Seq(S), NEW size \in Nat \ {0}, NEW place \in 1 .. Len(list)
  PROVE  LET entries(k) == PageOf(list, k * size, size).entries
             more(k) == PageOf(list, k * size, size).more
             on(k) == \E i \in 1 .. Len(entries(k)) : k * size + i = place /\ entries(k)[i] = list[place]
         IN  \E k \in Nat : /\ on(k)
                            /\ \A m \in 0 .. k - 1 : more(m)
                            /\ \A m \in Nat : m * size <= Len(list) /\ on(m) => m = k
<1> DEFINE entries(k) == PageOf(list, k * size, size).entries
           more(k) == PageOf(list, k * size, size).more
           on(k) == \E i \in 1 .. Len(entries(k)) : k * size + i = place /\ entries(k)[i] = list[place]
           k == (place - 1) \div size
<1>1. k \in Nat /\ size * k <= place - 1 /\ place - 1 < size * k + size
  BY SMT
<1> HIDE DEF k
<1>2. \A m \in Nat : m * size \in Nat /\ m * size = size * m
  OBVIOUS
<1>3. \A m \in Nat : m * size <= Len(list) =>
        /\ Len(entries(m)) = IF m * size + size <= Len(list) THEN size ELSE Len(list) - m * size
        /\ \A i \in 1 .. Len(entries(m)) : entries(m)[i] = list[m * size + i]
        /\ more(m) <=> m * size + size < Len(list)
  <2>1. SUFFICES ASSUME NEW m \in Nat, m * size <= Len(list)
                 PROVE  /\ Len(entries(m)) = IF m * size + size <= Len(list) THEN size
                                             ELSE Len(list) - m * size
                        /\ \A i \in 1 .. Len(entries(m)) : entries(m)[i] = list[m * size + i]
                        /\ more(m) <=> m * size + size < Len(list)
    OBVIOUS
  <2> DEFINE at == m * size
             page == PageOf(list, at, size)
             n == IF at + size <= Len(list) THEN size ELSE Len(list) - at
  <2>2. at \in 0 .. Len(list)
    BY <1>2, <2>1
  <2> HIDE DEF at
  <2>3. /\ Len(page.entries) = n
        /\ \A i \in 1 .. n : page.entries[i] = list[at + i]
        /\ page.more <=> at + size < Len(list)
    BY <2>2, PageIsNext
  <2> QED
    BY <2>3 DEF at
<1> HIDE DEF entries, more
<1>4. on(k)
  <2> DEFINE i == place - k * size
             at == k * size
  <2>1. at \in Nat /\ at <= place - 1 /\ place - 1 < at + size /\ at <= Len(list)
    BY <1>1, <1>2
  <2>2. Len(entries(k)) = IF at + size <= Len(list) THEN size ELSE Len(list) - at
    BY <1>1, <1>3, <2>1
  <2>3. i \in 1 .. Len(entries(k)) /\ k * size + i = place
    <3> HIDE DEF at
    <3>1. i = place - at
      BY DEF at
    <3> QED
      BY <2>1, <2>2, <3>1 DEF at
  <2>4. entries(k)[i] = list[place]
    BY <1>1, <1>3, <2>1, <2>3
  <2> QED
    BY <2>3, <2>4
<1>5. ASSUME NEW m \in 0 .. k - 1 PROVE more(m)
  <2>1. m \in Nat /\ (m + 1) * size <= k * size /\ (m + 1) * size = m * size + size
    <3>1. m \in Nat /\ m + 1 <= k
      BY <1>1
    <3> QED
      BY <1>1, <3>1
  <2>2. m * size + size < Len(list) /\ m * size <= Len(list)
    BY <1>1, <1>2, <2>1
  <2> QED
    BY <1>3, <2>1, <2>2
<1>6. ASSUME NEW m \in Nat, m * size <= Len(list), on(m) PROVE m = k
  <2>1. m * size < place /\ place <= m * size + size
    BY <1>2, <1>3, <1>6
  <2>2. size * m <= place - 1 /\ place - 1 < size * m + size
    BY <1>2, <2>1
  <2>3. ~ m < k
    <3>1. SUFFICES ASSUME m + 1 <= k PROVE FALSE
      BY <1>1
    <3>2. (m + 1) * size <= k * size /\ (m + 1) * size = m * size + size
      BY <1>1, <3>1
    <3> QED
      BY <1>1, <1>2, <2>2, <3>2
  <2>4. ~ k < m
    <3>1. SUFFICES ASSUME k + 1 <= m PROVE FALSE
      BY <1>1
    <3>2. (k + 1) * size <= m * size /\ (k + 1) * size = k * size + size
      BY <1>1, <3>1
    <3> QED
      BY <1>1, <1>2, <2>2, <3>2
  <2> QED
    BY <1>1, <2>3, <2>4
<1> QED
  BY <1>1, <1>4, <1>5, <1>6 DEF entries, more

=============================================================================
