---------------------------- MODULE DeviceParser ----------------------------
(***************************************************************************)
(* protocol_parser_feed of protocol.c: ota_link_task feeds it the received *)
(* bytes one by one.                                                       *)
(***************************************************************************)
EXTENDS Wire

VARIABLES
    line,        \* the stream, and its whole frames
    read,        \* how many of its bytes ota_link_task has read
    buffer,      \* parser->buffer[0 .. parser->length - 1]
    delivered    \* history: the packets handed to commands_handle_packet, and
                 \* the positions they came from

parserVars == <<line, read, buffer, delivered>>

protocol_parser_init == buffer = <<>>

ParserInit ==
    /\ line \in Lines
    /\ read = 0
    /\ protocol_parser_init
    /\ delivered = {}

-----------------------------------------------------------------------------
Next_byte == line.bytes[read + 1]
Stored == Append(buffer, Next_byte)

\* Mutant: the length field is not checked.
NeverOversize(data) == FALSE

Oversize(data) == Len(data) >= HEADER_SIZE /\ PayloadLength(data) > MAX_PAYLOAD

Complete(data) ==
    Len(data) >= HEADER_SIZE /\ ~Oversize(data) /\ Len(data) >= PacketLength(data)

\* Before the magic: the byte is dropped.
Ignore ==
    /\ buffer = <<>> /\ Next_byte # MAGIC_0
    /\ UNCHANGED <<buffer, delivered>>

\* Mutant: a second first magic byte is dropped like any other.
DropSecondMagic ==
    /\ Len(buffer) = 1 /\ Next_byte # MAGIC_1
    /\ buffer' = <<>>
    /\ UNCHANGED delivered

\* After the first magic byte: another first one may start the frame.
Realign ==
    /\ Len(buffer) = 1 /\ Next_byte # MAGIC_1
    /\ buffer' = IF Next_byte = MAGIC_0 THEN <<MAGIC_0>> ELSE <<>>
    /\ UNCHANGED delivered

\* buffer[length++] = byte.
Stores ==
    ~(buffer = <<>> /\ Next_byte # MAGIC_0) /\ ~(Len(buffer) = 1 /\ Next_byte # MAGIC_1)

Collect ==
    /\ Stores /\ ~Oversize(Stored) /\ ~Complete(Stored)
    /\ buffer' = Stored
    /\ UNCHANGED delivered

\* An impossible length or a wrong checksum: the buffer is given up.
Discard ==
    /\ Stores
    /\ Oversize(Stored) \/ (Complete(Stored) /\ ~CrcMatches(Stored))
    /\ buffer' = <<>>
    /\ UNCHANGED delivered

\* Mutant: the checksum is not compared.
DeliverUnchecked ==
    /\ Stores /\ Complete(Stored)
    /\ delivered' = delivered \cup {<<read + 2 - Len(Stored), read + 1, Stored>>}
    /\ buffer' = <<>>

Deliver ==
    /\ Stores /\ Complete(Stored) /\ CrcMatches(Stored)
    /\ delivered' = delivered \cup {<<read + 2 - Len(Stored), read + 1, Stored>>}
    /\ buffer' = <<>>

protocol_parser_feed ==
    /\ read < Len(line.bytes)
    /\ Ignore \/ Realign \/ Collect \/ Discard \/ Deliver
    /\ read' = read + 1
    /\ UNCHANGED line

ParserSpec == ParserInit /\ [][protocol_parser_feed]_parserVars

-----------------------------------------------------------------------------
\* parser->buffer is never overrun: with the next byte stored it still holds
\* no more than the largest packet, whatever length the header claims.
FitsBuffer == buffer \in Seq(Byte) /\ Len(buffer) + 1 <= MAX_PACKET

\* Only frames are delivered, exactly as they stand in the stream, and no byte
\* is part of two of them: a packet is never put together from pieces.
DeliversFrames ==
    /\ \A d \in delivered :
         /\ d[1] \in 1 .. read /\ d[2] \in d[1] .. read
         /\ d[3] = SubSeq(line.bytes, d[1], d[2]) /\ IsFrame(d[3])
    /\ \A c, d \in delivered : c[1] < d[1] => c[2] < d[1]

\* What a fault on the line can cost: a frame that arrived whole is delivered
\* unless a stray magic pair stands within one packet length before it.  So the
\* parser, which has no timeout, is back in step at most one packet length
\* after the last stray magic, and noise without the magic costs nothing.
ClearFramesArrive ==
    \A w \in line.whole :
      w[2] <= read /\ Clear(line, w) =>
        <<w[1], w[2], SubSeq(line.bytes, w[1], w[2])>> \in delivered
=============================================================================
