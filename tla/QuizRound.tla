----------------------------- MODULE QuizRound -----------------------------
(***************************************************************************)
(* What a live quiz promises its participants, without clocks, timers,      *)
(* locks or crashes: questions are asked one at a time and once each, an    *)
(* answer is accepted once and only while its question is open, and the     *)
(* results saved when the quiz finishes are the answers accepted by then.   *)
(* LiveSession implements it.                                               *)
(***************************************************************************)

CONSTANTS
    Question,      \* questions of the quiz
    Participant,   \* registered users
    Worth,         \* what an accepted answer can be worth
    NoAnswer,      \* no accepted answer
    NoResult       \* no saved result

VARIABLES
    phase,      \* "unasked", "open" or "closed", per question
    answer,     \* accepted answer per participant and question
    entered,    \* participants who have entered the session
    finished,   \* the quiz is over
    saved       \* saved result per participant

vars == <<phase, answer, entered, finished, saved>>

Init ==
    /\ phase = [q \in Question |-> "unasked"]
    /\ answer = [p \in Participant |-> [q \in Question |-> NoAnswer]]
    /\ entered = {}
    /\ finished = FALSE
    /\ saved = [p \in Participant |-> NoResult]

Ask(q) ==
    /\ ~finished
    /\ phase[q] = "unasked"
    /\ \A r \in Question : phase[r] # "open"
    /\ phase' = [phase EXCEPT ![q] = "open"]
    /\ UNCHANGED <<answer, entered, finished, saved>>

Accept(p, q) ==
    /\ p \in entered
    /\ phase[q] = "open"
    /\ answer[p][q] = NoAnswer
    /\ \E w \in Worth : answer' = [answer EXCEPT ![p][q] = w]
    /\ UNCHANGED <<phase, entered, finished, saved>>

Close(q) ==
    /\ phase[q] = "open"
    /\ phase' = [phase EXCEPT ![q] = "closed"]
    /\ UNCHANGED <<answer, entered, finished, saved>>

\* Also after the quiz has finished: a late entry has no saved result.
Enter(p) ==
    /\ entered' = entered \cup {p}
    /\ UNCHANGED <<phase, answer, finished, saved>>

Finish ==
    /\ ~finished
    /\ finished' = TRUE
    /\ phase' = [q \in Question |->
                    IF phase[q] = "open" THEN "closed" ELSE phase[q]]
    /\ saved' = [p \in Participant |->
                    IF p \in entered THEN answer[p] ELSE NoResult]
    /\ UNCHANGED <<answer, entered>>

Next ==
    \/ \E q \in Question : Ask(q) \/ Close(q)
    \/ \E p \in Participant : Enter(p) \/ \E q \in Question : Accept(p, q)
    \/ Finish

Spec == Init /\ [][Next]_vars

=============================================================================
