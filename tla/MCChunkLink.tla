---------------------------- MODULE MCChunkLink ----------------------------
(* A small instance of ChunkLink: chunk streams 2 (control, and the first  *)
(* the writer chooses itself), 3 and 64, whose basic header takes 2 bytes. *)
EXTENDS ChunkLink

M(csid, stamp, type, data) ==
  [csid |-> csid, msid |-> 0, timestamp |-> stamp, type |-> type, data |-> data]

\* The extended mark is 7: stamps on both sides of it and the mark itself.
MCMessages ==
  { M(64, 6, 8, <<7, 8, 9>>), M(64, 8, 8, <<9, 8, 7>>), M(64, 8, 8, <<5>>),
    M(64, 8, 8, << >>), M(64, 8, 9, <<2>>), M(0, 0, 8, <<1, 2>>),
    [M(64, 7, 8, <<5>>) EXCEPT !.msid = 1] }

=============================================================================
