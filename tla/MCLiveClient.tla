---------------------------- MODULE MCLiveClient ----------------------------
(* LiveClient for TLC: two attempts stand for the ten of the page.          *)
EXTENDS LiveClient

=============================================================================
