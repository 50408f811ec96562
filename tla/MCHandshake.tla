----------------------------- MODULE MCHandshake -----------------------------
(* Handshake with two clocks that may agree or not, and messages that look   *)
(* like a version byte (a basic header of format 0 on chunk stream 3 is the  *)
(* byte 3) or like nothing else.                                             *)
EXTENDS Handshake

MCMessages == {<<HandshakeVersion>>, <<9, 9>>}
=============================================================================
