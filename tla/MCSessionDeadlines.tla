------------------------ MODULE MCSessionDeadlines ------------------------
(* Model values of SessionDeadlines for TLC.                                 *)
EXTENDS SessionDeadlines, TLC

\* Host connections and concurrent calls are interchangeable.
Interchangeable == Permutations(Socket) \cup Permutations(Call)

\* A finished session is followed until the calls that knew it unfinished
\* have returned, and an unfinished one until two of the three kinds of
\* failure have happened.  The lobby is opened again by one call at a time,
\* while nothing has failed yet.
Unsettled ==
    /\ row.state \in {"LOBBY", "LIVE"} \/ \E c \in Call : call[c].pc # "idle"
    /\ ~(dropped /\ disturbed)
    /\ crashes > 0 => ~dropped /\ ~disturbed
    /\ \A c, d \in Call :
        call[c].pc = "rearm" =>
            /\ ~dropped /\ ~disturbed /\ crashes = 0
            /\ call[d].pc = "rearm" => c = d

=============================================================================
