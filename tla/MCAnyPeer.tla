--------------------------- MODULE MCAnyPeer -------------------------------
(* A small instance of AnyPeer.  Chunk stream 3 has a one-byte basic   *)
(* header and a peer that changes its mind about length and chunk size in  *)
(* the middle of a message; chunk stream 64 carries plain messages that    *)
(* interleave with it.                                                     *)
EXTENDS AnyPeer

H(fmt, c, stamp, ext, length, type) ==
  [fmt |-> fmt, csid |-> c, stamp |-> stamp, ext |-> ext, length |-> length,
   type |-> type, msid |-> 0]

MCPeerHeaders ==
  {H(0, 3, 0, <<>>, n, 8) : n \in {0, 3}}
    \cup {H(0, 3, ExtendedMark, <<4>>, 4, MessageTypeSetChunkSize)}
    \cup {H(1, 3, 4, <<>>, n, 8) : n \in {1, 4}}
    \cup {H(2, 3, 0, <<>>, 0, 0), H(3, 3, 0, <<>>, 0, 0)}
    \cup {H(0, 64, 0, <<>>, 2, 8), H(3, 64, 0, <<>>, 0, 0)}

\* Zeros, and zeros with a 2 at the end: 00 00 00 02 is chunk size 2.
MCPeerData ==
  {[i \in 1 .. n |-> 0] : n \in 0 .. 2}
    \cup {<<2>>}

=============================================================================
