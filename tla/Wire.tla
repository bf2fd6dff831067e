-------------------------------- MODULE Wire --------------------------------
(***************************************************************************)
(* The bytes of the serial line: the frame around a packet, which          *)
(* protocol.c and protocol.py build alike, and the streams of bytes that   *)
(* reach a parser.  The sizes, the byte and the checksum are parameters,   *)
(* so that TLC can take small ones; on the wire they are 8, 4, 1024, 256   *)
(* and CRC-32.                                                             *)
(***************************************************************************)
EXTENDS Integers, Sequences

CONSTANTS
    Radix,                   \* number of byte values
    MAGIC_0, MAGIC_1,        \* the two bytes every frame starts with
    HEADER_SIZE,             \* magic, version, command, sequence, length
    CRC_SIZE,
    MAX_PAYLOAD,             \* PROTOCOL_MAX_PAYLOAD
    protocol_crc32(_),       \* the checksum of a sequence of bytes, as bytes
    Lines                    \* what the line may carry: streams of bytes, and
                             \* where in them a sender's frames arrived whole

Byte == 0 .. Radix - 1
MAX_PACKET == HEADER_SIZE + MAX_PAYLOAD + CRC_SIZE

read_le16(data, i) == data[i] + Radix * data[i + 1]

\* The length field closes the header.
PayloadLength(data) == read_le16(data, HEADER_SIZE - 1)
PacketLength(data) == HEADER_SIZE + PayloadLength(data) + CRC_SIZE

\* expected_crc = actual_crc, for the bytes of one packet.  The magic is not
\* part of what the checksum covers.
CrcMatches(data) ==
    SubSeq(data, Len(data) - CRC_SIZE + 1, Len(data))
      = protocol_crc32(SubSeq(data, 3, Len(data) - CRC_SIZE))

\* protocol_send_packet and build_packet; fields stands for version, command
\* and sequence.
build_packet(fields, payload) ==
    LET body == fields \o <<Len(payload) % Radix, Len(payload) \div Radix>> \o payload
    IN  <<MAGIC_0, MAGIC_1>> \o body \o protocol_crc32(body)

-----------------------------------------------------------------------------
MagicAt(bytes, i) == bytes[i] = MAGIC_0 /\ bytes[i + 1] = MAGIC_1

\* A packet that a parser may deliver.
IsFrame(data) ==
    /\ Len(data) >= HEADER_SIZE
    /\ MagicAt(data, 1)
    /\ PayloadLength(data) <= MAX_PAYLOAD
    /\ Len(data) = PacketLength(data)
    /\ CrcMatches(data)

\* A line is [bytes, whole]: whole holds the <<first, last>> positions of the
\* frames that arrived whole.  The rest is noise: bytes of damaged frames, boot
\* messages of the ROM, other programs' output.
LineOK(line) ==
    /\ line.bytes \in Seq(Byte)
    /\ \A w \in line.whole :
         /\ w \in Nat \X Nat
         /\ 1 <= w[1] /\ w[1] < w[2] /\ w[2] <= Len(line.bytes)
         /\ IsFrame(SubSeq(line.bytes, w[1], w[2]))
    /\ \A v, w \in line.whole : v[1] < w[1] => v[2] < w[1]

ASSUME WireAssumption ==
    /\ Radix \in Nat \ {0, 1} /\ MAGIC_0 \in Byte /\ MAGIC_1 \in Byte \ {MAGIC_0}
    /\ HEADER_SIZE \in Nat /\ HEADER_SIZE >= 4
    /\ CRC_SIZE \in Nat \ {0} /\ MAX_PAYLOAD \in Nat

ASSUME LinesAssumption == \A line \in Lines : LineOK(line)

\* The magic bytes where no whole frame starts.
StrayMagic(line, i) ==
    /\ i \in 1 .. Len(line.bytes) - 1
    /\ MagicAt(line.bytes, i)
    /\ \A w \in line.whole : w[1] # i

\* A whole frame with no stray magic within one packet length before it.
Clear(line, w) ==
    \A i \in w[1] - MAX_PACKET + 1 .. w[1] - 1 : ~StrayMagic(line, i)
=============================================================================
