--------------------------- MODULE MCMediaUploads ---------------------------
(* MediaUploads for TLC. Tabs and images are interchangeable.               *)
EXTENDS MediaUploads, TLC

Symmetry == Permutations(Tab) \cup Permutations(Asset)

=============================================================================
