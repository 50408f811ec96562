--------------------------- MODULE AnyPeerProofs ---------------------------
(***************************************************************************)
(* A reader keeps its invariants whatever its peer sends.                  *)
(***************************************************************************)
EXTENDS AnyPeer, ChunkReaderProofs

\* Whatever headers follow each other, and however chunk streams and changes
\* of the chunk size interleave: types, bounds and the absence of holes.
THEOREM ReaderInvariant == Spec => []ReaderInv
<1>1. Init => ReaderInv
  BY ReaderInitInv DEF Init
<1>2. ReaderInv /\ [Next]_readerVars => ReaderInv'
  <2> SUFFICES ASSUME ReaderInv, [Next]_readerVars
               PROVE  ReaderInv'
    OBVIOUS
  <2>1. CASE Next
    <3>1. PICK h \in PeerHeaders, data \in PeerData :
            (ReadsExtended(h) => h.ext # << >>) /\ ReadChunk(h, data)
      BY <2>1 DEF Next, PeerSends
    <3>2. h \in WireHeader /\ data \in Seq(Byte)
      BY PeerAssumption
    <3> QED
      BY <3>1, <3>2, ReadChunkInv
  <2>2. CASE UNCHANGED readerVars
    BY <2>2 DEF readerVars, ReaderInv, ReaderTypeOK, AssemblyInBounds, NoHoles
  <2> QED
    BY <2>1, <2>2
<1> QED
  BY <1>1, <1>2, PTL DEF Spec

\* The reader's variables keep their Go types.
THEOREM ReaderTypes == Spec => []ReaderTypeOK
<1>1. ReaderInv => ReaderTypeOK
  BY DEF ReaderInv
<1> QED
  BY <1>1, ReaderInvariant, PTL

\* The slice expression of assembleMessage is always in range.
THEOREM AssemblyBounds == Spec => []AssemblyInBounds
<1>1. ReaderInv => AssemblyInBounds
  BY DEF ReaderInv
<1> QED
  BY <1>1, ReaderInvariant, PTL

\* No message is handed on with a byte that no chunk brought.
THEOREM MessagesWhole == Spec => []NoHoles
<1>1. ReaderInv => NoHoles
  BY DEF ReaderInv
<1> QED
  BY <1>1, ReaderInvariant, PTL

=============================================================================
