--------------------------- MODULE MCAuthSessions ---------------------------
(* AuthSessions for TLC: a browser with two tabs and a device with none.      *)
(* Sign-ins do not share sockets, so one of them has sockets at a time;      *)
(* answers get lost for one.                                                 *)
EXTENDS AuthSessions, TLC

CONSTANTS b1, b2

InOneBrowser == [t \in Tab |-> b1]
Bounded ==
    /\ Cardinality(socket \cup untold) <= 1
    /\ Cardinality(lost) <= 1
Symmetry == Permutations(Family) \cup Permutations(Tab)

=============================================================================
