---------------------------- MODULE MCRtmpServer ----------------------------
(* Instances of RtmpServer.  No connection is treated apart from another,  *)
(* so safety is checked up to their permutations.                          *)
EXTENDS RtmpServer, TLC

Symmetry == Permutations(Conns)

=============================================================================
