----------------------------- MODULE HostParser -----------------------------
(***************************************************************************)
(* PacketParser of protocol.py: SerialTransport.request feeds it whatever  *)
(* the port has received, in chunks of any size.                           *)
(***************************************************************************)
EXTENDS Wire, SequencesExt

VARIABLES
    line,        \* the stream, and its whole frames
    read,        \* how many of its bytes have been fed
    _buffer,
    delivered    \* history: the packets returned, and the positions they
                 \* came from

parserVars == <<line, read, _buffer, delivered>>

Fresh ==
    /\ read = 0
    /\ _buffer = <<>>
    /\ delivered = {}

ParserInit == line \in Lines /\ Fresh

-----------------------------------------------------------------------------
\* find(MAGIC), 0 where Python says -1.
find(data) == SelectInSubSeq([i \in 1 .. Len(data) - 1 |-> MagicAt(data, i)],
                             1, Len(data) - 1, LAMBDA found : found)

After(data, n) == SubSeq(data, n + 1, Len(data))

\* Mutant: a magic byte at the end of a chunk is forgotten.
ClearBuffer(data) == <<>>

_keep_possible_partial_magic(data) ==
    IF data # <<>> /\ Last(data) = MAGIC_0 THEN <<MAGIC_0>> ELSE <<>>

\* Mutant: the length field is not checked.
NeverTooLong(data) == FALSE

TooLong(data) == PayloadLength(data) > MAX_PAYLOAD

\* Mutant: the checksum is not compared.
AlwaysMatches(data) == TRUE

CrcIsRight(data) == CrcMatches(data)

\* The loop of feed: what is left of the buffer, and the packets with how many
\* bytes of the buffer were left where each began.
Loop[data \in Seq(Byte)] ==
    LET i == find(data)
        d == After(data, i - 1)
        size == PacketLength(d)
    IN  IF i = 0
          THEN [packets |-> <<>>, rest |-> _keep_possible_partial_magic(data)]
        ELSE IF Len(d) < HEADER_SIZE
          THEN [packets |-> <<>>, rest |-> d]
        ELSE IF TooLong(d)
          THEN Loop[After(d, 2)]
        ELSE IF Len(d) < size
          THEN [packets |-> <<>>, rest |-> d]
        ELSE LET raw == SubSeq(d, 1, size)
                 more == Loop[After(d, size)]
             IN  IF CrcIsRight(raw)
                 THEN [more EXCEPT !.packets = <<[raw |-> raw, left |-> Len(d)]>> \o @]
                 ELSE more

\* The packets of a call that has seen the first n bytes of the stream.
Positioned(packets, n) ==
    {LET first == n - p.left + 1
     IN  <<first, first + Len(p.raw) - 1, p.raw>> : p \in ToSet(packets)}

\* read(available or 1): at least one byte, at most all that has arrived.
feed ==
    \E n \in 1 .. Len(line.bytes) - read :
      LET result == Loop[_buffer \o SubSeq(line.bytes, read + 1, read + n)] IN
      /\ _buffer' = result.rest
      /\ delivered' = delivered \cup Positioned(result.packets, read + n)
      /\ read' = read + n
      /\ UNCHANGED line

ParserSpec == ParserInit /\ [][feed]_parserVars

-----------------------------------------------------------------------------
\* Between calls the parser holds the beginning of one packet and no more, so
\* it never waits for bytes that no packet can have.
HoldsOneFrame ==
    /\ Len(_buffer) < MAX_PACKET
    /\ Len(_buffer) >= HEADER_SIZE => Len(_buffer) < PacketLength(_buffer)
    /\ _buffer # <<>> => _buffer[1] = MAGIC_0

\* However the bytes are split into chunks, the packets and the buffer are
\* those of one call with all of them.
ChunksDoNotMatter ==
    LET once == Loop[SubSeq(line.bytes, 1, read)] IN
    /\ _buffer = once.rest
    /\ delivered = Positioned(once.packets, read)

\* Only frames are returned, exactly as they stand in the stream, and no byte
\* is part of two of them.
DeliversFrames ==
    /\ \A d \in delivered :
         d[3] = SubSeq(line.bytes, d[1], d[2]) /\ IsFrame(d[3])
    /\ \A c, d \in delivered : c[1] < d[1] => c[2] < d[1]

\* A frame that arrived whole is returned unless a stray magic pair stands
\* within one packet length before it.
ClearFramesArrive ==
    \A w \in line.whole :
      w[2] <= read /\ Clear(line, w) =>
        <<w[1], w[2], SubSeq(line.bytes, w[1], w[2])>> \in delivered
=============================================================================
