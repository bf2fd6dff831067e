-------------------------------- MODULE Info --------------------------------
(***************************************************************************)
(* GET_INFO: device_info_build_payload of device_info.c packs what the     *)
(* device knows of itself into bytes, parse_info_payload of protocol.py    *)
(* unpacks them, in the layout of this firmware or of the one before it.   *)
(* Text is a sequence of character codes.                                  *)
(***************************************************************************)
EXTENDS Integers, SequencesExt

CONSTANTS
    Capacity,        \* sizeof(s_info_payload)
    Devices,         \* what the device may have to report
    LegacyDevices    \* the same for firmware without OTA visibility

VARIABLES
    device,          \* what the device knows of itself
    legacy,          \* whether it runs the older firmware
    reply,           \* the response to GET_INFO
    shown            \* what parse_info_payload makes of it

vars == <<device, legacy, reply, shown>>

UINT8_MAX == 255
FixedSize == 16
None == <<>>
Unknown == <<117>>

-----------------------------------------------------------------------------
(***************************************************************************)
(* parse_app_version.  A component is its digits' value, if there is one   *)
(* and it fits a byte.                                                     *)
(***************************************************************************)
Digits == 48 .. 57
Dot == 46
Vees == {86, 118}

\* Mutant: only the cast to uint8_t bounds a component.
WrapDigit(parsed, digit) == (parsed * 10 + digit - 48) % 256

\* One round of the loop; past UINT8_MAX it returns false.
AddDigit(parsed, digit) == IF parsed > UINT8_MAX THEN parsed ELSE parsed * 10 + digit - 48

\* cursor counts the characters before it.
parse_version_component(version, cursor) ==
    LET rest == SubSeq(version, cursor + 1, Len(version))
        stop == SelectInSeq(rest, LAMBDA ch : ch \notin Digits)
        digits == IF stop = 0 THEN rest ELSE SubSeq(rest, 1, stop - 1)
        parsed == FoldLeft(AddDigit, 0, digits)
    IN  [ok |-> digits # <<>> /\ parsed <= UINT8_MAX, value |-> parsed,
         cursor |-> cursor + Len(digits)]

DotAt(version, cursor) == cursor < Len(version) /\ version[cursor + 1] = Dot

parse_app_version(version) ==
    LET start == IF version # <<>> /\ version[1] \in Vees THEN 1 ELSE 0
        major == parse_version_component(version, start)
        minor == parse_version_component(version, major.cursor + 1)
        patch == parse_version_component(version, minor.cursor + 1)
    IN  IF /\ major.ok /\ DotAt(version, major.cursor)
           /\ minor.ok /\ DotAt(version, minor.cursor)
           /\ patch.ok
        THEN <<major.value, minor.value, patch.value>>
        ELSE <<0, 0, 0>>

-----------------------------------------------------------------------------
(***************************************************************************)
(* device_info_build_payload.  A buffer under construction is [ok, bytes]. *)
(***************************************************************************)
put_u32_le(value) == [i \in 1 .. 4 |-> (value \div 256 ^ (i - 1)) % 256]

\* Mutant: the length byte is forgotten in the bound.
PutUnbounded(buffer, value) ==
    IF ~buffer.ok \/ Len(value) > UINT8_MAX \/ Len(buffer.bytes) + Len(value) > Capacity
    THEN [buffer EXCEPT !.ok = FALSE]
    ELSE [buffer EXCEPT !.bytes = @ \o <<Len(value)>> \o value]

put_str8(buffer, value) ==
    IF ~buffer.ok \/ Len(value) > UINT8_MAX \/ Len(buffer.bytes) + 1 + Len(value) > Capacity
    THEN [buffer EXCEPT !.ok = FALSE]
    ELSE [buffer EXCEPT !.bytes = @ \o <<Len(value)>> \o value]

OrUnknown(text) == IF text = None THEN Unknown ELSE text

\* desc is NULL when the image carries no description.
Fixed(d) ==
    <<1>> \o (IF d.described THEN parse_app_version(d.version) ELSE <<0, 0, 0>>)
      \o put_u32_le(d.uptime) \o put_u32_le(d.free_heap) \o put_u32_le(d.boot_count)

DefaultProject == <<101>>

Texts(d) ==
    << d.chip_model, OrUnknown(d.running), OrUnknown(d.boot), d.ota_state >>
      \o IF d.described THEN <<d.idf_version, d.project_name, d.build_date>>
                        ELSE <<Unknown, DefaultProject, Unknown>>

\* The subtypes of application partitions, by the names of the partition table.
Subtype == [factory |-> 0, ota_0 |-> 16, ota_1 |-> 17, ota_15 |-> 31, test |-> 32]
OTA_SUBTYPE_MIN == Subtype["ota_0"]
OTA_SUBTYPE_MAX == Subtype["ota_15"]

\* Mutant: every partition behind the factory partition is listed.
NotFactory(p) == Subtype[p.name] > Subtype["factory"]

partition_is_ota_slot(p) == Subtype[p.name] \in OTA_SUBTYPE_MIN .. OTA_SUBTYPE_MAX

Slots(d) == SelectSeq(d.partitions, partition_is_ota_slot)

PutSlot(buffer, slot) == put_str8(put_str8(buffer, slot.label), slot.state)

\* 0 bytes for a payload that does not fit.
device_info_build_payload(d) ==
    LET start == [ok |-> Capacity >= FixedSize + 1, bytes |-> Fixed(d) \o <<d.rollback>>]
        texts == FoldLeft(put_str8, start, Texts(d))
        count == [ ok |-> texts.ok /\ Len(texts.bytes) + 1 <= Capacity /\ Len(Slots(d)) <= UINT8_MAX,
                   bytes |-> Append(texts.bytes, Len(Slots(d))) ]
        done == FoldLeft(PutSlot, count, Slots(d))
    IN  IF done.ok THEN done.bytes ELSE <<>>

\* The payload of the older firmware, of which the repository keeps the parser.
LegacyPayload(d) ==
    Fixed(d) \o FlattenSeq([i \in 1 .. 5 |->
      LET text == <<d.chip_model, d.running, d.idf_version, d.project_name, d.build_date>>[i]
      IN  <<Len(text)>> \o text])

-----------------------------------------------------------------------------
(***************************************************************************)
(* parse_info_payload.  A reader is [ok, offset, texts]; ok is FALSE once  *)
(* ProtocolError was raised.                                               *)
(***************************************************************************)
read_u8_string(data, reader) ==
    IF ~reader.ok \/ reader.offset >= Len(data) THEN [reader EXCEPT !.ok = FALSE]
    ELSE LET from == reader.offset + 1
             end == from + data[from]
         IN  IF end <= Len(data)
             THEN [ok |-> TRUE, offset |-> end,
                   texts |-> Append(reader.texts, SubSeq(data, from + 1, end))]
             ELSE [reader EXCEPT !.ok = FALSE]

ReadTexts(data, reader, n) ==
    FoldLeft(LAMBDA r, i : read_u8_string(data, r), reader, [i \in 1 .. n |-> i])

From(offset) == [ok |-> TRUE, offset |-> offset, texts |-> <<>>]

\* struct.unpack_from of a little-endian uint32.
UnpackU32(data, offset) ==
    data[offset + 1] + 256 * data[offset + 2] + 256^2 * data[offset + 3] + 256^3 * data[offset + 4]

UnpackFixed(data) ==
    [ firmware |-> SubSeq(data, 2, 4), uptime |-> UnpackU32(data, 4),
      free_heap |-> UnpackU32(data, 8), boot_count |-> UnpackU32(data, 12) ]

\* The reader after the seven texts, and after the slots that may follow.
SevenTexts(data) == ReadTexts(data, From(FixedSize + 1), 7)
SlotTexts(data) ==
    LET r == SevenTexts(data) IN
    IF r.ok /\ r.offset < Len(data)
    THEN ReadTexts(data, [r EXCEPT !.offset = @ + 1, !.texts = <<>>], 2 * data[r.offset + 1])
    ELSE [r EXCEPT !.texts = <<>>]

Report(fixed, rollback, texts, slots) ==
    [fixed |-> fixed, rollback |-> rollback, texts |-> texts, slots |-> slots]

\* Mutant: the older layout is read from behind the rollback flag.
LateLegacyStart == FixedSize + 1

LegacyStart == FixedSize

\* A payload of exactly FixedSize bytes, which no firmware sends, makes Python
\* raise IndexError and is left out.
parse_info_payload(data) ==
    LET texts == SevenTexts(data)
        slots == SlotTexts(data)
        old == ReadTexts(data, From(LegacyStart), 5)
        t == old.texts
    IN  CASE Len(data) < FixedSize -> [error |-> "TOO_SHORT"]
          [] Len(data) >= FixedSize /\ texts.ok /\ slots.ok ->
               Report(UnpackFixed(data), data[FixedSize + 1] # 0, texts.texts, slots.texts)
          [] Len(data) >= FixedSize /\ ~(texts.ok /\ slots.ok) /\ old.ok ->
               Report(UnpackFixed(data), FALSE, <<t[1], t[2], t[2], Unknown, t[3], t[4], t[5]>>, <<>>)
          [] OTHER -> [error |-> "TRUNCATED"]

-----------------------------------------------------------------------------
NoReply == [kind |-> "NONE", payload |-> <<>>]
Nothing == [error |-> "NOTHING"]

Init ==
    /\ \/ device \in Devices /\ legacy = FALSE
       \/ device \in LegacyDevices /\ legacy = TRUE
    /\ reply = NoReply
    /\ shown = Nothing

\* CMD_GET_INFO of commands_handle_packet.
HandleGetInfo ==
    /\ reply = NoReply
    /\ LET payload == IF legacy THEN LegacyPayload(device) ELSE device_info_build_payload(device) IN
       reply' = [kind |-> IF payload = <<>> THEN "NACK" ELSE "INFO", payload |-> payload]
    /\ UNCHANGED <<device, legacy, shown>>

\* run_info.
RunInfo ==
    /\ reply # NoReply /\ shown = Nothing
    /\ shown' = IF reply.kind = "NACK" THEN [error |-> "REFUSED"]
                                       ELSE parse_info_payload(reply.payload)
    /\ UNCHANGED <<device, legacy, reply>>

Next == HandleGetInfo \/ RunInfo
Spec == Init /\ [][Next]_vars

-----------------------------------------------------------------------------
OtaNames == {"ota_0", "ota_1", "ota_15"}

\* What there is to tell of the slots, in the order of the partition table.
SlotReport(d) ==
    FlattenSeq([i \in 1 .. Len(d.partitions) |->
      LET p == d.partitions[i] IN IF p.name \in OtaNames THEN <<p.label, p.state>> ELSE <<>>])

Size(d) ==
    FoldLeft(LAMBDA n, text : n + 1 + Len(text), FixedSize + 2, Texts(d) \o SlotReport(d))

\* The payload never exceeds the buffer; GET_INFO is refused when the report
\* does not fit it, and only then.
SentIfItFits ==
    reply # NoReply /\ ~legacy =>
      /\ Len(reply.payload) <= Capacity
      /\ reply.kind = "INFO" <=> Size(device) <= Capacity

FixedAsKnown(d) ==
    /\ "fixed" \in DOMAIN shown
    /\ shown.fixed.uptime = d.uptime /\ shown.fixed.free_heap = d.free_heap
    /\ shown.fixed.boot_count = d.boot_count

\* The operator reads what the device reported, every text and every slot, and
\* no report of this firmware is taken for one of the older.
ReadsAsReported ==
    shown # Nothing /\ ~legacy /\ reply.kind = "INFO" =>
      /\ FixedAsKnown(device)
      /\ shown.rollback = (device.rollback = 1)
      /\ shown.texts = Texts(device)
      /\ shown.slots = SlotReport(device)

\* Reports of the older firmware are still understood: none is taken for one of
\* this firmware, and the boot partition is taken to be the running one.
LegacyUnderstood ==
    shown # Nothing /\ legacy =>
      /\ FixedAsKnown(device)
      /\ ~shown.rollback /\ shown.slots = <<>>
      /\ shown.texts = << device.chip_model, device.running, device.running, Unknown,
                          device.idf_version, device.project_name, device.build_date >>

\* The three numbers of a version, or none of them: a component that does not
\* fit a byte is never reported as another number.
Value(digits) == FoldLeft(LAMBDA n, ch : 10 * n + ch - 48, 0, digits)

VersionWholeOrZero ==
    shown # Nothing /\ "fixed" \in DOMAIN shown =>
      LET parts == device.version_parts
          right == /\ device.described /\ Len(parts) = 3
                   /\ \A i \in 1 .. 3 : parts[i] # <<>> /\ Value(parts[i]) <= UINT8_MAX
      IN  shown.fixed.firmware =
            IF right THEN [i \in 1 .. 3 |-> Value(parts[i])] ELSE <<0, 0, 0>>
=============================================================================
