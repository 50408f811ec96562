--------------------------- MODULE MCStreamManager ---------------------------
(* Small instances of StreamManager for TLC. *)
EXTENDS StreamManager, TLC

Alike == Permutations(Conns) \cup Permutations(Names)
=============================================================================
