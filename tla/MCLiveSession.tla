--------------------------- MODULE MCLiveSession ---------------------------
(* Model values of LiveSession for TLC.                                      *)
EXTENDS LiveSession, MCStandings

=============================================================================
