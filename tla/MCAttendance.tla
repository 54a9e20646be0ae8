---------------------------- MODULE MCAttendance ----------------------------
(* Model values of Attendance for TLC.                                       *)
EXTENDS Attendance, TLC

\* Users and connections are interchangeable.
Interchangeable == Permutations(Participant) \cup Permutations(Socket)

=============================================================================
