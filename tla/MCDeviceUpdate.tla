--------------------------- MODULE MCDeviceUpdate ---------------------------
(***************************************************************************)
(* Instance of DeviceUpdate for TLC: two-bit images with a parity digest.  *)
(***************************************************************************)
EXTENDS DeviceUpdate, SequencesExt

MCHash(body) == Cardinality({i \in DOMAIN body : body[i] = 1}) % 2
MCFactoryImage == <<0, 0>>

\* Every chunk of up to MaxChunk bytes, the empty one included, and one that is
\* too long.
MCChunks == SeqOf(Byte, MaxChunk) \cup {[i \in 1 .. MaxChunk + 1 |-> 0]}
=============================================================================
