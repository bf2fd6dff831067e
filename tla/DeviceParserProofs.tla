------------------------- MODULE DeviceParserProofs -------------------------
(***************************************************************************)
(* The device's parser keeps its buffer in bounds, delivers only frames of *)
(* the stream and misses no clear frame, for every size of header, payload *)
(* and checksum, every checksum function and every stream.                 *)
(***************************************************************************)
EXTENDS DeviceParser, TLAPS

\* data stands in the stream, from position p on.
StandsAt(data, p) ==
    \A i \in 1 .. Len(data) : data[i] = line.bytes[p + i - 1]

FrameLength(w) == w[2] - w[1] + 1

ReadInv ==
    /\ line \in Lines
    /\ read \in 0 .. Len(line.bytes)

\* The buffer holds the bytes read last, and they can still become a packet.
BufferInv ==
    /\ buffer \in Seq(Byte)
    /\ Len(buffer) <= read
    /\ StandsAt(buffer, read - Len(buffer) + 1)
    /\ Len(buffer) >= 1 => buffer[1] = MAGIC_0
    /\ Len(buffer) >= 2 => buffer[2] = MAGIC_1
    /\ Len(buffer) >= HEADER_SIZE =>
         PayloadLength(buffer) <= MAX_PAYLOAD /\ Len(buffer) < PacketLength(buffer)

\* What has been delivered lies before what the buffer holds.
DeliveredInv ==
    /\ DeliversFrames
    /\ \A d \in delivered : d[2] <= read - Len(buffer)

\* Inside a clear frame, the buffer holds that frame's bytes and no others.
InStep ==
    \A w \in line.whole :
      Clear(line, w) /\ w[1] <= read /\ read < w[2] => Len(buffer) = read - w[1] + 1

Inv == ReadInv /\ BufferInv /\ DeliveredInv /\ InStep /\ ClearFramesArrive

-----------------------------------------------------------------------------
\* The length field of at least a header's worth of bytes is a number.
LEMMA PayloadLengthIsNat ==
    ASSUME NEW data \in Seq(Byte), Len(data) >= HEADER_SIZE
    PROVE  PayloadLength(data) \in Nat
<1>1. data[HEADER_SIZE - 1] \in Nat /\ data[HEADER_SIZE] \in Nat
    BY WireAssumption DEF Byte
<1>2. Radix * data[HEADER_SIZE] \in Nat
    BY <1>1, WireAssumption
<1> QED
    BY <1>1, <1>2, WireAssumption DEF PayloadLength, read_le16

\* A byte stored behind a header leaves the length field alone.
LEMMA HeaderStays ==
    ASSUME NEW data \in Seq(Byte), Len(data) >= HEADER_SIZE, NEW x \in Byte
    PROVE  PayloadLength(Append(data, x)) = PayloadLength(data)
BY WireAssumption DEF PayloadLength, read_le16

\* What the assumption on Lines says of one whole frame.
LEMMA WholeFrame ==
    ASSUME line \in Lines, NEW w \in line.whole
    PROVE  /\ line.bytes \in Seq(Byte)
           /\ w[1] \in Nat /\ w[2] \in Nat
           /\ 1 <= w[1] /\ w[1] < w[2] /\ w[2] <= Len(line.bytes)
           /\ IsFrame(SubSeq(line.bytes, w[1], w[2]))
           /\ Len(SubSeq(line.bytes, w[1], w[2])) = FrameLength(w)
           /\ \A i \in 1 .. FrameLength(w) :
                SubSeq(line.bytes, w[1], w[2])[i] = line.bytes[w[1] + i - 1]
<1>1. /\ line.bytes \in Seq(Byte)
      /\ w \in Nat \X Nat
      /\ 1 <= w[1] /\ w[1] < w[2] /\ w[2] <= Len(line.bytes)
      /\ IsFrame(SubSeq(line.bytes, w[1], w[2]))
    BY LinesAssumption DEF LineOK
<1>2. w[1] \in Nat /\ w[2] \in Nat
    BY <1>1
<1>3. \A s \in Seq(Byte), a, b \in Nat :
        1 <= a /\ a < b /\ b <= Len(s) =>
          /\ Len(SubSeq(s, a, b)) = b - a + 1
          /\ \A i \in 1 .. b - a + 1 : SubSeq(s, a, b)[i] = s[a + i - 1]
    OBVIOUS
<1> QED
    BY <1>1, <1>2, <1>3 DEF FrameLength

\* Bytes that stand where a whole frame starts carry its header.
LEMMA FrameHeader ==
    ASSUME line \in Lines, NEW w \in line.whole,
           NEW data \in Seq(Byte), StandsAt(data, w[1])
    PROVE  /\ Len(data) >= 1 => data[1] = MAGIC_0
           /\ Len(data) >= 2 => data[2] = MAGIC_1
           /\ FrameLength(w) >= HEADER_SIZE
           /\ Len(data) >= HEADER_SIZE =>
                PayloadLength(data) <= MAX_PAYLOAD /\ PacketLength(data) = FrameLength(w)
<1> DEFINE frame == SubSeq(line.bytes, w[1], w[2])
<1>1. /\ IsFrame(frame) /\ Len(frame) = FrameLength(w)
      /\ \A i \in 1 .. FrameLength(w) : frame[i] = line.bytes[w[1] + i - 1]
    BY WholeFrame
<1>2. FrameLength(w) \in Nat
    BY WholeFrame DEF FrameLength
<1> HIDE DEF frame
<1>3. FrameLength(w) >= HEADER_SIZE
    BY <1>1 DEF IsFrame
<1>4. \A i \in 1 .. Len(data) : i <= FrameLength(w) => data[i] = frame[i]
    BY <1>1, <1>2 DEF StandsAt
<1>5. frame[1] = MAGIC_0 /\ frame[2] = MAGIC_1
    BY <1>1 DEF IsFrame, MagicAt
<1>6. ASSUME Len(data) >= HEADER_SIZE
      PROVE  PayloadLength(data) = PayloadLength(frame)
  <2>1. data[HEADER_SIZE - 1] = frame[HEADER_SIZE - 1] /\ data[HEADER_SIZE] = frame[HEADER_SIZE]
      BY <1>2, <1>3, <1>4, <1>6, WireAssumption
  <2>2. HEADER_SIZE - 1 + 1 = HEADER_SIZE
      BY WireAssumption
  <2> QED
      BY <2>1, <2>2 DEF PayloadLength, read_le16
<1>7. /\ Len(data) >= 1 => data[1] = MAGIC_0
      /\ Len(data) >= 2 => data[2] = MAGIC_1
    BY <1>2, <1>3, <1>4, <1>5, WireAssumption
<1> QED
    BY <1>1, <1>3, <1>6, <1>7 DEF IsFrame, PacketLength

\* A frame's beginning is neither oversize nor complete before its last byte,
\* and with it complete and correct.
LEMMA FramePrefix ==
    ASSUME line \in Lines, NEW w \in line.whole,
           NEW data \in Seq(Byte), StandsAt(data, w[1]), Len(data) <= FrameLength(w)
    PROVE  /\ ~Oversize(data)
           /\ Len(data) < FrameLength(w) => ~Complete(data)
           /\ Len(data) = FrameLength(w) =>
                /\ Complete(data) /\ CrcMatches(data)
                /\ data = SubSeq(line.bytes, w[1], w[2])
<1> DEFINE frame == SubSeq(line.bytes, w[1], w[2])
<1>1. ~Oversize(data)
    BY FrameHeader, PayloadLengthIsNat, WireAssumption DEF Oversize
<1>2. Len(data) < FrameLength(w) => ~Complete(data)
    BY FrameHeader, WholeFrame DEF Complete, FrameLength
<1>3. ASSUME Len(data) = FrameLength(w)
      PROVE  Complete(data) /\ CrcMatches(data) /\ data = frame
  <2>1. frame \in Seq(Byte) /\ Len(frame) = Len(data)
      BY <1>3, WholeFrame
  <2>2. \A i \in 1 .. Len(data) : data[i] = frame[i]
      BY <1>3, WholeFrame DEF StandsAt
  <2> HIDE DEF frame
  <2>3. data = frame
      BY <2>1, <2>2
  <2>4. Complete(data)
      BY <1>1, <1>3, FrameHeader, WholeFrame DEF Complete, FrameLength
  <2>5. IsFrame(frame)
      BY WholeFrame DEF frame
  <2> QED
      BY <2>3, <2>4, <2>5 DEF IsFrame
<1> QED
    BY <1>1, <1>2, <1>3

-----------------------------------------------------------------------------
\* The byte read next, stored behind the buffer, continues it in the stream.
LEMMA StoredStands ==
    ASSUME ReadInv, BufferInv, read < Len(line.bytes)
    PROVE  /\ Next_byte \in Byte
           /\ Stored \in Seq(Byte)
           /\ Len(Stored) = Len(buffer) + 1
           /\ StandsAt(Stored, read - Len(buffer) + 1)
           /\ \A i \in 1 .. Len(buffer) : Stored[i] = buffer[i]
           /\ Stored[Len(buffer) + 1] = Next_byte
<1>1. line.bytes \in Seq(Byte)
    BY LinesAssumption DEF ReadInv, LineOK
<1>2. Next_byte \in Byte
    BY <1>1 DEF Next_byte, ReadInv
<1>3. /\ Stored \in Seq(Byte)
      /\ Len(Stored) = Len(buffer) + 1
      /\ \A i \in 1 .. Len(buffer) : Stored[i] = buffer[i]
      /\ Stored[Len(buffer) + 1] = Next_byte
    BY <1>2 DEF Stored, BufferInv
<1>4. StandsAt(Stored, read - Len(buffer) + 1)
  <2>1. \A i \in 1 .. Len(buffer) : buffer[i] = line.bytes[read - Len(buffer) + 1 + i - 1]
      BY DEF BufferInv, StandsAt
  <2>2. read - Len(buffer) + 1 + (Len(buffer) + 1) - 1 = read + 1
      BY DEF ReadInv, BufferInv
  <2>3. Len(buffer) \in Nat
      BY DEF BufferInv
  <2> QED
      BY <1>3, <2>1, <2>2, <2>3 DEF StandsAt, Next_byte
<1> QED
    BY <1>2, <1>3, <1>4

\* A complete buffer is exactly as long as its header says.
LEMMA CompleteExactly ==
    ASSUME ReadInv, BufferInv, read < Len(line.bytes), Complete(Stored)
    PROVE  Len(Stored) = PacketLength(Stored)
<1>1. PayloadLength(Stored) \in Nat
    BY StoredStands, PayloadLengthIsNat DEF Complete
<1>2. CASE Len(buffer) >= HEADER_SIZE
  <2>1. PayloadLength(Stored) = PayloadLength(buffer)
      BY <1>2, StoredStands, HeaderStays DEF Stored, BufferInv
  <2> QED
      BY <1>1, <1>2, <2>1, StoredStands, WireAssumption DEF Complete, BufferInv, PacketLength
<1>3. CASE Len(buffer) < HEADER_SIZE
    BY <1>1, <1>3, StoredStands, WireAssumption DEF Complete, PacketLength, BufferInv
<1> QED
    BY <1>2, <1>3, WireAssumption DEF BufferInv

\* The buffer stays what it should be.
LEMMA BufferStep ==
    ASSUME ReadInv, BufferInv, protocol_parser_feed
    PROVE  ReadInv' /\ BufferInv'
<1>1. read < Len(line.bytes) /\ read' = read + 1 /\ line' = line
    BY DEF protocol_parser_feed
<1>2. ReadInv'
    BY <1>1, LinesAssumption DEF ReadInv, LineOK
<1>3. CASE buffer' = <<>>
    BY <1>1, <1>3, WireAssumption DEF BufferInv, StandsAt, ReadInv
<1>4. CASE Realign /\ Next_byte = MAGIC_0
  <2>1. buffer' = <<MAGIC_0>>
      BY <1>4 DEF Realign
  <2>2. MAGIC_0 = line.bytes[read + 1]
      BY <1>4 DEF Next_byte
  <2>3. <<MAGIC_0>> \in Seq(Byte) /\ Len(<<MAGIC_0>>) = 1 /\ <<MAGIC_0>>[1] = MAGIC_0
      BY WireAssumption
  <2>4. read' - Len(buffer') + 1 = read + 1
      BY <1>1, <2>1, <2>3 DEF ReadInv
  <2>5. StandsAt(buffer, read - Len(buffer) + 1)'
      BY <1>1, <2>1, <2>2, <2>3, <2>4 DEF StandsAt, ReadInv
  <2> QED
      BY <1>1, <2>1, <2>3, <2>5, WireAssumption DEF BufferInv, ReadInv
<1>5. CASE Collect
  <2>1. buffer' = Stored /\ Stores /\ ~Oversize(Stored) /\ ~Complete(Stored)
      BY <1>5 DEF Collect
  <2>2. read' - Len(buffer') + 1 = read - Len(buffer) + 1
      BY <1>1, <2>1, StoredStands DEF ReadInv, BufferInv
  <2>3. StandsAt(buffer, read - Len(buffer) + 1)'
      BY <1>1, <2>1, <2>2, StoredStands DEF StandsAt
  <2>4. Stored[1] = MAGIC_0 /\ (Len(Stored) >= 2 => Stored[2] = MAGIC_1)
    <3>1. Len(buffer) \in Nat
        BY DEF BufferInv
    <3>2. CASE Len(buffer) = 0
      <4>1. buffer = <<>>
          BY <3>2 DEF BufferInv
      <4> QED
          BY <1>1, <2>1, <3>2, <4>1, StoredStands DEF Stores
    <3>3. CASE Len(buffer) = 1
        BY <1>1, <2>1, <3>3, StoredStands DEF Stores, BufferInv
    <3>4. CASE Len(buffer) >= 2
        BY <1>1, <3>1, <3>4, StoredStands DEF BufferInv
    <3>5. \A n \in Nat : n = 0 \/ n = 1 \/ n >= 2
        OBVIOUS
    <3> QED
        BY <3>1, <3>2, <3>3, <3>4, <3>5, Zenon
  <2>5. Len(Stored) >= HEADER_SIZE =>
          PayloadLength(Stored) <= MAX_PAYLOAD /\ Len(Stored) < PacketLength(Stored)
      BY <1>1, <2>1, StoredStands, PayloadLengthIsNat, WireAssumption
         DEF Oversize, Complete, PacketLength
  <2> HIDE DEF Stored
  <2> QED
      BY <1>1, <2>1, <2>3, <2>4, <2>5, StoredStands DEF BufferInv, ReadInv, PayloadLength, PacketLength
<1>6. \/ buffer' = <<>> \/ (Realign /\ Next_byte = MAGIC_0) \/ Collect
    BY DEF protocol_parser_feed, Ignore, Realign, Discard, Deliver
<1> QED
    BY <1>2, <1>3, <1>4, <1>5, <1>6

\* The buffer has room for one more byte.
LEMMA BufferFits ==
    ASSUME ReadInv, BufferInv
    PROVE  FitsBuffer
<1>1. CASE Len(buffer) >= HEADER_SIZE
    BY <1>1, PayloadLengthIsNat, WireAssumption DEF BufferInv, PacketLength, MAX_PACKET, FitsBuffer
<1>2. CASE Len(buffer) < HEADER_SIZE
    BY <1>2, WireAssumption DEF BufferInv, MAX_PACKET, FitsBuffer
<1> QED
    BY <1>1, <1>2, WireAssumption DEF BufferInv

-----------------------------------------------------------------------------
\* A delivered packet is a frame of the stream, behind those delivered before.
LEMMA DeliveredStep ==
    ASSUME ReadInv, BufferInv, DeliveredInv, protocol_parser_feed
    PROVE  DeliveredInv'
<1>1. read < Len(line.bytes) /\ read' = read + 1 /\ line' = line
    BY DEF protocol_parser_feed
<1>2. read \in Nat /\ Len(buffer) \in Nat /\ Len(buffer) <= read
    BY DEF ReadInv, BufferInv
<1>3. read - Len(buffer) <= read' - Len(buffer') /\ Len(buffer') \in Nat
  <2>1. CASE buffer' = buffer
      BY <1>1, <1>2, <2>1
  <2>2. CASE buffer' = <<>> \/ buffer' = <<MAGIC_0>>
    <3>1. /\ Len(<<>>) \in Nat /\ Len(<<>>) <= 1
          /\ Len(<<MAGIC_0>>) \in Nat /\ Len(<<MAGIC_0>>) <= 1
        OBVIOUS
    <3>2. Len(buffer') \in Nat /\ Len(buffer') <= 1
        BY <2>2, <3>1, Zenon
    <3> QED
        BY <1>1, <1>2, <3>2
  <2>3. CASE buffer' = Stored
      BY <1>1, <1>2, <2>3, StoredStands
  <2> QED
      BY <2>1, <2>2, <2>3 DEF protocol_parser_feed, Ignore, Realign, Collect, Discard, Deliver
<1>4. \A d \in delivered :
        /\ d[1] \in 1 .. read /\ d[2] \in d[1] .. read
        /\ d[3] = SubSeq(line.bytes, d[1], d[2]) /\ IsFrame(d[3])
        /\ d[2] <= read - Len(buffer)
    BY DEF DeliveredInv, DeliversFrames
<1>5. \A c, d \in delivered : c[1] < d[1] => c[2] < d[1]
    BY DEF DeliveredInv, DeliversFrames
<1>6. CASE delivered' = delivered
    BY <1>1, <1>2, <1>3, <1>4, <1>5, <1>6, SMTT(20) DEF DeliveredInv, DeliversFrames
<1>7. CASE Deliver
  <2> DEFINE a == read + 2 - Len(Stored)
             e == <<a, read + 1, Stored>>
  <2>1. /\ delivered' = delivered \cup {e} /\ buffer' = <<>>
        /\ Stores /\ Complete(Stored) /\ CrcMatches(Stored)
      BY <1>7 DEF Deliver
  <2>2. Len(Stored) = Len(buffer) + 1 /\ Stored \in Seq(Byte)
      BY <1>1, StoredStands
  <2>3. a = read - Len(buffer) + 1 /\ a \in 1 .. read + 1
      BY <1>2, <2>2
  <2>4. Stored = SubSeq(line.bytes, a, read + 1)
    <3>1. line.bytes \in Seq(Byte)
        BY LinesAssumption DEF ReadInv, LineOK
    <3>2. StandsAt(Stored, a)
        BY <1>1, <2>3, StoredStands
    <3>3. /\ SubSeq(line.bytes, a, read + 1) \in Seq(Byte)
          /\ Len(SubSeq(line.bytes, a, read + 1)) = Len(Stored)
          /\ \A i \in 1 .. Len(Stored) : SubSeq(line.bytes, a, read + 1)[i] = line.bytes[a + i - 1]
      <4> HIDE DEF a
      <4> QED
          BY <1>1, <1>2, <2>2, <2>3, <3>1
    <3> DEFINE piece == SubSeq(line.bytes, a, read + 1)
    <3>4. \A i \in 1 .. Len(Stored) : Stored[i] = piece[i]
        BY <3>2, <3>3 DEF StandsAt
    <3>5. piece \in Seq(Byte) /\ Len(piece) = Len(Stored)
        BY <3>3
    <3> HIDE DEF piece, Stored
    <3>6. Stored = piece
        BY <2>2, <3>4, <3>5
    <3> QED
        BY <3>6 DEF piece
  <2>5. IsFrame(Stored)
    <3>1. Len(Stored) >= HEADER_SIZE /\ PayloadLength(Stored) <= MAX_PAYLOAD
        BY <1>1, <2>1, <2>2, PayloadLengthIsNat, WireAssumption DEF Complete, Oversize
    <3>2. Stored[1] = buffer[1] /\ Stored[2] = buffer[2] /\ Len(buffer) >= 2
        BY <1>1, <1>2, <2>2, <3>1, StoredStands, WireAssumption
    <3>3. MagicAt(Stored, 1)
        BY <3>2 DEF MagicAt, BufferInv
    <3>4. Len(Stored) = PacketLength(Stored)
        BY <1>1, <2>1, CompleteExactly
    <3> QED
        BY <2>1, <3>1, <3>3, <3>4 DEF IsFrame
  <2> HIDE DEF a, Stored
  <2>6. e[1] = a /\ e[2] = read + 1 /\ e[3] = Stored
      OBVIOUS
  <2> HIDE DEF e
  <2>7. \A d \in delivered : d[1] \in Nat /\ d[2] \in Nat /\ d[1] <= d[2] /\ d[2] < a
      BY <1>2, <1>4, <2>3
  <2>8. \A d \in delivered' :
        /\ d[1] \in 1 .. read' /\ d[2] \in d[1] .. read'
        /\ d[3] = SubSeq(line'.bytes, d[1], d[2]) /\ IsFrame(d[3])
        /\ d[2] <= read' - Len(buffer')
    <3> SUFFICES ASSUME NEW d \in delivered'
                 PROVE  /\ d[1] \in 1 .. read' /\ d[2] \in d[1] .. read'
                        /\ d[3] = SubSeq(line'.bytes, d[1], d[2]) /\ IsFrame(d[3])
                        /\ d[2] <= read' - Len(buffer')
        OBVIOUS
    <3>1. CASE d \in delivered
        BY <1>1, <1>2, <1>3, <1>4, <3>1, SMTT(20)
    <3>2. CASE d = e
      <4>1. Len(buffer') = 0
          BY <2>1
      <4>2. d[1] = a /\ d[2] = read + 1 /\ d[3] = Stored
          BY <2>6, <3>2
      <4> QED
          BY <1>1, <1>2, <2>3, <2>4, <2>5, <4>1, <4>2
    <3> QED
        BY <2>1, <3>1, <3>2
  <2>9. \A c, d \in delivered' : c[1] < d[1] => c[2] < d[1]
      BY <1>2, <1>5, <2>1, <2>3, <2>6, <2>7
  <2> QED
      BY <2>8, <2>9 DEF DeliveredInv, DeliversFrames
<1> QED
    BY <1>6, <1>7 DEF protocol_parser_feed, Ignore, Realign, Collect, Discard

-----------------------------------------------------------------------------
\* Where a clear frame begins, the parser is not inside another packet: only a
\* magic pair opens one, a frame that opened one has ended, and a stray pair is
\* too far back.
LEMMA NotInsideAnother ==
    ASSUME ReadInv, BufferInv, NEW w \in line.whole, Clear(line, w), read + 1 = w[1]
    PROVE  Len(buffer) <= 1
<1> DEFINE p == read - Len(buffer) + 1
<1> SUFFICES ASSUME Len(buffer) >= 2
             PROVE  FALSE
    BY DEF BufferInv
<1>1. /\ read \in Nat /\ Len(buffer) \in Nat /\ Len(buffer) <= read
      /\ read <= Len(line.bytes) /\ Len(line.bytes) \in Nat /\ line \in Lines
      /\ buffer \in Seq(Byte)
    BY LinesAssumption DEF ReadInv, BufferInv, LineOK
<1>2. Len(buffer) + 1 <= MAX_PACKET /\ MAX_PACKET \in Nat
    BY BufferFits, WireAssumption DEF FitsBuffer, MAX_PACKET
<1>3. p \in w[1] - MAX_PACKET + 1 .. w[1] - 1 /\ p \in 1 .. Len(line.bytes) - 1
    BY <1>1, <1>2
<1>4. MagicAt(line.bytes, p)
  <2>1. buffer[1] = line.bytes[p + 1 - 1] /\ buffer[2] = line.bytes[p + 2 - 1]
      BY <1>1 DEF BufferInv, StandsAt
  <2>2. p + 1 - 1 = p /\ p + 2 - 1 = p + 1
      BY <1>1
  <2> HIDE DEF p
  <2> QED
      BY <2>1, <2>2 DEF BufferInv, MagicAt
<1>5. PICK v \in line.whole : v[1] = p
    BY <1>3, <1>4 DEF Clear, StrayMagic
<1>6. v[2] < w[1]
    BY <1>1, <1>3, <1>5, LinesAssumption DEF LineOK
<1>7. StandsAt(buffer, v[1])
    BY <1>5 DEF BufferInv
<1>8. FrameLength(v) >= HEADER_SIZE /\ FrameLength(v) \in Nat /\ FrameLength(v) = v[2] - p + 1
    BY <1>1, <1>5, <1>7, FrameHeader, WholeFrame DEF FrameLength
<1>9. v[2] \in Nat
    BY <1>1, WholeFrame
<1>10. Len(buffer) >= FrameLength(v)
    BY <1>1, <1>6, <1>8, <1>9
<1>11. Len(buffer) >= HEADER_SIZE
    BY <1>1, <1>8, <1>10, WireAssumption
<1>12. PacketLength(buffer) = FrameLength(v)
    BY <1>1, <1>7, <1>11, FrameHeader
<1> QED
    BY <1>1, <1>8, <1>10, <1>11, <1>12 DEF BufferInv

\* The first byte of a clear frame opens the buffer.
LEMMA FrameOpens ==
    ASSUME Inv, protocol_parser_feed,
           NEW w \in line.whole, Clear(line, w), read + 1 = w[1]
    PROVE  Len(buffer') = 1
<1>1. read < Len(line.bytes) /\ ReadInv /\ BufferInv /\ line \in Lines
    BY DEF protocol_parser_feed, Inv, ReadInv
<1>2. Next_byte = MAGIC_0
  <2>1. IsFrame(SubSeq(line.bytes, w[1], w[2])) /\ FrameLength(w) \in Nat /\ FrameLength(w) >= 1
      BY <1>1, WholeFrame DEF FrameLength
  <2>2. SubSeq(line.bytes, w[1], w[2])[1] = line.bytes[w[1] + 1 - 1]
      BY <1>1, <2>1, WholeFrame
  <2>3. w[1] + 1 - 1 = read + 1
      BY <1>1 DEF ReadInv
  <2> QED
      BY <2>1, <2>2, <2>3 DEF IsFrame, MagicAt, Next_byte
<1>3. Len(buffer) = 0 \/ Len(buffer) = 1
  <2>1. Len(buffer) \in Nat
      BY <1>1 DEF BufferInv
  <2>2. Len(buffer) <= 1
      BY <1>1, NotInsideAnother
  <2>3. \A n \in Nat : n <= 1 => n = 0 \/ n = 1
      OBVIOUS
  <2> QED
      BY <2>1, <2>2, <2>3, Zenon
<1>4. CASE Len(buffer) = 0
  <2>1. buffer = <<>>
      BY <1>1, <1>4 DEF BufferInv
  <2>2. Len(Stored) = 1
      BY <1>1, <1>4, StoredStands
  <2>3. Collect
      BY <1>2, <1>4, <2>1, <2>2, WireAssumption
         DEF protocol_parser_feed, Ignore, Realign, Discard, Deliver, Complete, Oversize
  <2> QED
      BY <2>2, <2>3 DEF Collect
<1>5. CASE Len(buffer) = 1
  <2>1. Next_byte # MAGIC_1
      BY <1>2, WireAssumption
  <2>2. buffer # <<>>
    <3>1. buffer = <<>> => Len(buffer) = 0
        OBVIOUS
    <3> QED
        BY <1>5, <3>1
  <2>3. Realign
      BY <1>5, <2>1, <2>2 DEF protocol_parser_feed, Ignore, Collect, Discard, Deliver, Stores
  <2> QED
      BY <1>2, <2>3 DEF Realign
<1> QED
    BY <1>3, <1>4, <1>5

\* Inside a clear frame every byte is stored, and the last one delivers it.
LEMMA FrameContinues ==
    ASSUME Inv, protocol_parser_feed,
           NEW w \in line.whole, Clear(line, w), w[1] <= read, read < w[2]
    PROVE  /\ read' < w[2] => Len(buffer') = read' - w[1] + 1
           /\ read' = w[2] => <<w[1], w[2], SubSeq(line.bytes, w[1], w[2])>> \in delivered'
<1>1. read < Len(line.bytes) /\ ReadInv /\ BufferInv /\ line \in Lines
    BY DEF protocol_parser_feed, Inv, ReadInv
<1>2. /\ w[1] \in Nat /\ w[2] \in Nat /\ 1 <= w[1] /\ read \in Nat /\ read' = read + 1
      /\ FrameLength(w) = w[2] - w[1] + 1
    BY <1>1, WholeFrame DEF FrameLength, ReadInv, protocol_parser_feed
<1>3. Len(buffer) = read - w[1] + 1
    BY DEF Inv, InStep
<1>4. /\ Stored \in Seq(Byte) /\ Len(Stored) = read - w[1] + 2
      /\ StandsAt(Stored, w[1])
      /\ Stored[Len(buffer) + 1] = Next_byte
  <2>1. read - Len(buffer) + 1 = w[1]
      BY <1>2, <1>3
  <2>2. Len(Stored) = Len(buffer) + 1 /\ StandsAt(Stored, read - Len(buffer) + 1)
      BY <1>1, StoredStands
  <2>3. Stored \in Seq(Byte) /\ Stored[Len(buffer) + 1] = Next_byte
      BY <1>1, StoredStands
  <2>4. Len(Stored) = read - w[1] + 2
      BY <1>2, <1>3, <2>2
  <2>5. StandsAt(Stored, w[1])
      BY <2>1, <2>2
  <2> QED
      BY <2>3, <2>4, <2>5
<1>5. Len(Stored) <= FrameLength(w)
    BY <1>2, <1>4
<1>6. Stores
  <2>1. buffer # <<>>
      BY <1>2, <1>3
  <2>2. ASSUME Len(buffer) = 1
        PROVE  Next_byte = MAGIC_1
    <3>1. Stored[2] = Next_byte /\ Len(Stored) >= 2
      <4>1. Len(Stored) = Len(buffer) + 1
          BY <1>1, StoredStands
      <4>2. Len(buffer) + 1 = 2
          BY <2>2
      <4>3. Len(Stored) >= 2
          BY <4>1, <4>2
      <4> QED
          BY <1>4, <4>2, <4>3, Zenon
    <3>2. Len(Stored) >= 2 => Stored[2] = MAGIC_1
      <4> HIDE DEF Stored
      <4> QED
          BY <1>1, <1>4, FrameHeader
    <3> QED
        BY <3>1, <3>2
  <2> QED
      BY <2>1, <2>2 DEF Stores
<1>7. Collect \/ Discard \/ Deliver
    BY <1>6 DEF protocol_parser_feed, Stores, Ignore, Realign
<1>8. CASE read' < w[2]
  <2>1. ~Oversize(Stored) /\ ~Complete(Stored)
    <3>1. Len(Stored) < FrameLength(w)
        BY <1>2, <1>4, <1>8
    <3> HIDE DEF Stored
    <3> QED
        BY <1>1, <1>4, <1>5, <3>1, FramePrefix
  <2>2. buffer' = Stored
      BY <1>7, <2>1 DEF Collect, Discard, Deliver
  <2>3. Len(Stored) = read' - w[1] + 1
      BY <1>2, <1>4, SMTT(20)
  <2>4. Len(buffer') = read' - w[1] + 1
      BY <2>2, <2>3, Zenon
  <2>5. read' # w[2]
      BY <1>2, <1>8
  <2> QED
      BY <2>4, <2>5
<1>9. CASE read' = w[2]
  <2>1. ~Oversize(Stored) /\ Complete(Stored) /\ CrcMatches(Stored)
        /\ Stored = SubSeq(line.bytes, w[1], w[2])
    <3>1. Len(Stored) = FrameLength(w)
        BY <1>2, <1>4, <1>9, SMTT(20)
    <3> HIDE DEF Stored
    <3> QED
        BY <1>1, <1>4, <1>5, <3>1, FramePrefix
  <2>2. Deliver
      BY <1>7, <2>1 DEF Collect, Discard
  <2>3. read + 2 - Len(Stored) = w[1]
      BY <1>2, <1>4
  <2>4. <<read + 2 - Len(Stored), read + 1, Stored>> \in delivered'
      BY <2>2 DEF Deliver
  <2>5. <<w[1], w[2], SubSeq(line.bytes, w[1], w[2])>> \in delivered'
    <3> HIDE DEF Stored
    <3> QED
        BY <1>2, <1>9, <2>1, <2>3, <2>4
  <2> QED
      BY <1>2, <1>9, <2>5
<1> QED
    BY <1>2, <1>8, <1>9

\* Clear frames stay in step and arrive.
LEMMA ClearStep ==
    ASSUME Inv, protocol_parser_feed
    PROVE  InStep' /\ ClearFramesArrive'
<1>1. read' = read + 1 /\ line' = line /\ read \in Nat /\ line \in Lines
    BY DEF protocol_parser_feed, Inv, ReadInv
<1>2. delivered \subseteq delivered'
    BY DEF protocol_parser_feed, Ignore, Realign, Collect, Discard, Deliver
<1>3. \A w \in line.whole : w[1] \in Nat /\ w[2] \in Nat /\ w[1] < w[2]
    BY <1>1, WholeFrame
<1>4. ASSUME NEW w \in line.whole, Clear(line, w), w[1] <= read', read' < w[2]
      PROVE  Len(buffer') = read' - w[1] + 1
  <2>1. CASE w[1] = read + 1
    <3>1. Len(buffer') = 1
        BY <1>4, <2>1, FrameOpens
    <3>2. read' - w[1] + 1 = 1
        BY <1>1, <2>1
    <3> QED
        BY <3>1, <3>2
  <2>2. CASE w[1] <= read
    <3>1. read < w[2]
        BY <1>1, <1>3, <1>4
    <3> QED
        BY <1>4, <2>2, <3>1, FrameContinues
  <2> QED
      BY <1>1, <1>3, <1>4, <2>1, <2>2
<1>6. InStep'
  <2>1. \A w \in line'.whole :
          Clear(line', w) /\ w[1] <= read' /\ read' < w[2] => Len(buffer') = read' - w[1] + 1
    <3>1. line' = line
        BY <1>1
    <3> QED
        BY <1>4, <3>1
  <2> QED
      BY <2>1, Zenon DEF InStep
<1>5. ClearFramesArrive'
  <2> SUFFICES ASSUME NEW w \in line.whole, Clear(line, w), w[2] <= read + 1
               PROVE  <<w[1], w[2], SubSeq(line.bytes, w[1], w[2])>> \in delivered'
      BY <1>1 DEF ClearFramesArrive
  <2>1. CASE w[2] <= read
      BY <1>2, <2>1 DEF Inv, ClearFramesArrive
  <2>2. CASE w[2] = read + 1
      BY <1>1, <1>3, <2>2, FrameContinues
  <2> QED
      BY <1>1, <1>3, <2>1, <2>2
<1> QED
    BY <1>5, <1>6

-----------------------------------------------------------------------------
\* Inv holds initially: nothing has been read.
LEMMA InvInit == ParserInit => Inv
<1> SUFFICES ASSUME ParserInit
             PROVE  Inv
    OBVIOUS
<1>1. /\ line \in Lines /\ read = 0 /\ buffer = <<>> /\ delivered = {}
      /\ line.bytes \in Seq(Byte)
    BY LinesAssumption DEF ParserInit, protocol_parser_init, LineOK
<1>2. ReadInv /\ BufferInv /\ DeliveredInv
    BY <1>1, WireAssumption DEF ReadInv, BufferInv, StandsAt, DeliveredInv, DeliversFrames
<1>3. InStep /\ ClearFramesArrive
    BY <1>1, WholeFrame DEF InStep, ClearFramesArrive
<1> QED
    BY <1>2, <1>3 DEF Inv

\* Inv is inductive.
LEMMA InvNext == Inv /\ [protocol_parser_feed]_parserVars => Inv'
<1>1. ASSUME Inv, protocol_parser_feed
      PROVE  Inv'
    BY <1>1, BufferStep, DeliveredStep, ClearStep DEF Inv
<1>2. ASSUME Inv, UNCHANGED parserVars
      PROVE  Inv'
    BY <1>2 DEF parserVars, Inv, ReadInv, BufferInv, StandsAt, DeliveredInv, DeliversFrames,
                InStep, ClearFramesArrive
<1> QED
    BY <1>1, <1>2

\* The invariant behind the theorems: where the buffer stands in the stream, what
\* was delivered, and that a clear frame under way is in the buffer.
LEMMA ParserInvariant == ParserSpec => []Inv
BY InvInit, InvNext, PTL DEF ParserSpec

\* protocol_parser_feed never writes outside parser->buffer, for any payload
\* limit and any bytes on the line.
THEOREM BufferNeverOverrun == ParserSpec => []FitsBuffer
<1>1. Inv => FitsBuffer
    BY BufferFits DEF Inv
<1> QED
    BY <1>1, ParserInvariant, PTL

\* What protocol_parser_feed delivers are disjoint frames of the stream.
THEOREM OnlyFramesDelivered == ParserSpec => []DeliversFrames
<1>1. Inv => DeliversFrames
    BY DEF Inv, DeliveredInv
<1> QED
    BY <1>1, ParserInvariant, PTL

\* protocol_parser_feed is back in step one packet length after a stray magic.
THEOREM NoClearFrameMissed == ParserSpec => []ClearFramesArrive
<1>1. Inv => ClearFramesArrive
    BY DEF Inv
<1> QED
    BY <1>1, ParserInvariant, PTL
=============================================================================
