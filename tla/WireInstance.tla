---------------------------- MODULE WireInstance ----------------------------
(***************************************************************************)
(* Values for the parameters of Wire: a checksum of one byte, and the      *)
(* lines that MaxSegments segments make.  A segment is a whole frame, the  *)
(* beginning of one that was cut off, or a byte of noise.                  *)
(***************************************************************************)
EXTENDS Wire, SequencesExt

CONSTANTS MaxSegments, Payloads

MCCrc(bytes) == <<FoldSeq(LAMBDA b, sum : (b + sum) % Radix, 1, bytes)>>

Frames == {build_packet(<<0>>, p) : p \in Payloads}

Segments ==
    {[whole |-> TRUE, bytes |-> f] : f \in Frames}
      \cup {[whole |-> FALSE, bytes |-> b] :
              b \in {<<x>> : x \in Byte}
                      \cup UNION {{SubSeq(f, 1, n) : n \in 2 .. Len(f) - 1} : f \in Frames}}

Extend(l, segment) ==
    LET n == Len(l.bytes) IN
    [ bytes |-> l.bytes \o segment.bytes,
      whole |-> l.whole \cup IF segment.whole THEN {<<n + 1, n + Len(segment.bytes)>>} ELSE {} ]

MCLines ==
    {FoldLeft(Extend, [bytes |-> <<>>, whole |-> {}], s) : s \in TupleOf(Segments, MaxSegments)}

\* A payload with the magic in it, and one whose first byte is half of it.
MCPayloads == {<<>>, <<1>>, <<MAGIC_0, MAGIC_1>>, <<MAGIC_0, 0>>}
=============================================================================
