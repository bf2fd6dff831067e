# esp32-ota-link in TLA+

esp32-ota-link updates the firmware of an ESP32 over a serial line. A library in
the firmware (`src/firmware/components/ota_link`) receives packets, checks who
sent them, writes the new image into the OTA slot that is not running and lets
the bootloader switch to it. A Python client (`src/host`) drives the transfer,
retries what is not answered and authenticates when the device asks for it.

This directory holds TLA+ specifications of both ends, of the line between them
and of the ESP-IDF services below the library, with the TLC runs that check them
and the TLAPS proofs: of the device's safety and of its refinement of an
abstract update, of what host and device keep between them on a lossy line and
of what the operator is told, of the upload of a file, of the packet parser and of the library's start.

## 1. Inventory

| Part | State it keeps | Operations | Talks to |
|---|---|---|---|
| OTA session manager, `ota_manager.c` | `s_ota`: active, sizes, last chunk, expected digest, slot, handle | begin, write_data, end, abort, is_active | ESP-IDF OTA calls; called by the dispatcher |
| Command dispatcher, `commands.c` | none; sleeps 100 ms inside REBOOT and ROLLBACK | one case per command | auth, session manager, ESP-IDF |
| Authentication, `auth.c` | `s_auth`: nonces, session key, pending and authenticated flags, ring of cached responses | configure, handle_packet, check_replay, unwrap, send_ack/nack | the dispatcher, before every protected command |
| Confirmation and rollback, `ota_link.c`, `main.c` | the health task's position | mark_app_valid, mark_app_invalid_and_reboot | ESP-IDF; runs beside the link task |
| Library start and link task, `ota_link.c` | `s_config`, task handle, the UART driver | start_with_config, ota_link_task | UART driver, parser, `auth.c`, `device_info.c` |
| Packet parsers, `protocol.c`, `protocol.py` | bytes of the frame being received | feed, find start, check CRC | the line |
| Device information, `device_info.c` | boot counter in NVS | init, build_payload | ESP-IDF, NVS |
| Host client, `otalink.py` | sequence number, session key, authenticated flag | request, authenticate, the `run_*` operations | the line |
| ESP-IDF OTA and bootloader (not in the repository) | slots in flash, OTA data, open handles | `esp_ota_*`, `esp_restart`, the boot | everything above |

The device runs two tasks. The *link task* takes one packet at a time and
carries it out before it looks at the next; the *health task* waits five seconds
after a boot and then confirms or rejects the image. They share the OTA data.
Host and device share nothing but the line.

What is hard here, and is hard to test on a bench:

* power may fail between any two steps, and RAM (session, replay cache, received
  bytes) is gone while flash and OTA data stay;
* an answer may be lost or late: the client sends the same bytes again, and the
  device must not do the thing twice, nor refuse what it has done;
* the acknowledgement of REBOOT and ROLLBACK comes 100 ms before the deed, and
  the health task may act in between;
* `ota_link_mark_app_valid` looks at the *running* image and confirms the
  *selected* one;
* every ESP-IDF call may fail, and OTA_END makes four of them;
* offsets and sizes come from the wire and are added in 32 bits;
* a client may be killed in the middle of an update, and its successor inherits
  its session on the device and its answers on the line;
* a cut-off frame makes the parser take the next frames for the rest of it, and
  there is no timeout;
* the start of the library is a chain of calls that may fail one by one, and it
  may be called again;
* the firmware file is read three times, and a build may finish in between.

`PROJECT.json` lists these as hazards, each at its line, with the properties that
would notice it going wrong.

## 2. Modules

| Module | Models | Notes |
|---|---|---|
| `EspOta` | ESP-IDF's OTA calls and the bootloader | external: modelled from how the library uses it |
| `OtaManager` | `ota_manager.c` | extends `EspOta` |
| `Commands` | the protected commands of `commands.c`, `ota_link_mark_app_*`, the health task, resets | extends `OtaManager` |
| `DeviceUpdate` | the device against any client: any command, any arguments, any order | extends `Commands`; the history of acknowledgements and `Promise == INSTANCE AtomicUpdate` |
| `AtomicUpdate` | what a device promises about the image it runs | abstract: four variables, no slots |
| `OtaManagerProofs` | what each ESP-IDF call and each operation of the session manager preserves | extends `OtaManager`, `TLAPS` |
| `CommandsProofs` | what each step of the device preserves, whoever sends the commands | extends `Commands`, `OtaManagerProofs` |
| `DeviceUpdateProofs` | theorems about `DeviceUpdate` | extends `DeviceUpdate`, `CommandsProofs` |
| `Packets` | packets as values | shared by both ends |
| `Auth` | `auth.c` and the gate in front of the commands | extends `Commands`, `Packets` |
| `Host` | `otalink.py` | extends `Packets` |
| `Link` | host, line and device together | extends `Auth`, `Host` |
| `LinkProofs` | theorems about `Link` | extends `Link`, `CommandsProofs` |
| `VerdictProofs` | theorems about what the operator of `Link` is told | extends `LinkProofs` |
| `Upload` | the update operation of `otalink.py` and the firmware file it reads | extends `OtaManager` |
| `UploadProofs` | theorems about `Upload` | extends `Upload`, `OtaManagerProofs` |
| `Wire` | the frame, and the streams of bytes that reach a parser | parameters: sizes, byte, checksum |
| `DeviceParser` | `protocol_parser_feed` | extends `Wire` |
| `DeviceParserProofs` | theorems about `DeviceParser` | extends `DeviceParser`, `TLAPS` |
| `HostParser` | `PacketParser` of `protocol.py` | extends `Wire` |
| `Startup` | `ota_link_start_with_config` and `device_info_init` | |
| `StartupProofs` | theorems about `Startup` | extends `Startup`, `TLAPS` |
| `Info` | GET_INFO: `device_info_build_payload` and `parse_info_payload` | |
| `MCDeviceUpdate`, `MCLink`, `MCUpload`, `MCParsers`, `MCStartup`, `MCInfo` | instances for TLC | `MCParsers` has both parsers, on the lines of `WireInstance` |

`Link` takes packets as whole values: what the line loses there is a whole
packet, and the parsers are what turns bytes that were damaged or cut off into
such a loss. `Upload` in turn reduces the line to what it can do to one request.

A property that speaks only of the device stands at the end of the module that
has the state it is about, `OtaManager` or `Commands`, so that `DeviceUpdate` and
`Link` share it and its proof.

An operation of the C code is an action that has the returned error code as a
parameter. Its early returns are one operator (`BeginError`, `WriteVerdict`,
`EndError`, `RebootVerdict`, `RollbackVerdict`) whose IFs are in the order of
the returns; every call that may fail is a disjunct of its own. Definitions that
start with the comment "Mutant:" are wrong on purpose: each is a plausible bug
in the definition after it, and is used by no specification.

### How the state corresponds to the code

* `s_ota` is the `ota_state_t`. Its handle is not a field: `open_handles` counts
  what ESP-IDF has given out, so that a leaked or doubly freed handle shows.
  `last_chunk_length` is the length of `last_chunk_data`.
* `flash[s]` is what has been programmed into slot `s` since it was erased.
  An image is a body and a digest of that body; `ImageOk` is ESP-IDF's
  verification and `ImageSha` what `esp_partition_get_sha256` reports, which is
  the digest that the client announces in OTA_BEGIN (the last 32 bytes of the
  file, `firmware_metadata`).
* `boot` and `ota_state` are the OTA data: the selected slot, and the state of
  the entries. The OTA data has two entries, so that a new one makes every slot
  other than the selected one `UNDEFINED` (`OtaDataWithNew`).
* `delayed` is where the link task sleeps before a restart, `health` where the
  health task is: `CHECKED` is between the two calls of
  `ota_link_mark_app_valid`, `FAILED` is after the warning that the image could
  not be confirmed. A health task that was never created (`app_main` ignores what
  `xTaskCreate` returns) leaves the device in the same state, so `FAILED` stands
  for that too.
* `s_auth` is the `auth_state_t`. A key is the pair of nonces it is derived
  from, and a tag is the key it is made with: HMAC and SHA-256 are perfect. The
  helper functions that compute them fail only for inputs longer than any packet.
* `h` is the `OtaLinkClient` with the call it is in: the packet being retried,
  the attempt, whether authentication was already renewed in this request.
* A client that takes over (`TakeOver`) has no session, any first sequence
  number (`time.monotonic`), and finds on the line what the other one left,
  except the responses that `reset_input_buffer` drops.
* In the parsers, `line.bytes` is everything that reaches the parser and
  `line.whole` where a sender's frames stand in it undamaged; `buffer` is
  `parser->buffer` up to `parser->length`.
* In `Startup`, `pc` is the next step of the call in progress. The two NVS steps
  are separate actions, so a reset may fall between reading and storing the
  count; a failed commit may leave either value.
* In `Info`, a text is a sequence of character codes, and `Unknown` and
  `DefaultProject` stand for the literals of the code.
* `acked`, `accepted`, `announced`, `log`, `told`, `boots`, `delivered`,
  `served`, `counts`, `counted`, `unread` and the fields `edited` and `refused`
  are histories that only the properties read.

### What is assumed of ESP-IDF

Rollback is enabled (`CONFIG_BOOTLOADER_APP_ROLLBACK_ENABLE` in
`sdkconfig.defaults`) and there is no factory partition, as in every partition
table of the repository. A call is atomic and, if it fails, leaves flash and OTA
data as they were; only a failed `esp_ota_begin` may have erased the slot.
`esp_ota_begin` is refused while the running image is unconfirmed.
`esp_ota_end` and `esp_ota_abort` free the handle whatever they report. The
bootloader gives up an image that was on trial at the reset, starts the selected
entry if it is usable, and passes over an image that does not verify: it then
tries the slots below the selected one, the nearest first, and after them those
above (`Turn`, the order of `bootloader_utility_load_boot_image`).

## 3. What is checked

### The device (`DeviceUpdate`)

| Run | Shows |
|---|---|
| `device` | the eleven properties below, two slots, any client |
| `device_three_slots` | the rules about trials for the three-slot profile, where one slot has no OTA data entry |
| `device_unverified_image` | a finding, see below |

* `TypeOK`: types; a handle freed twice would leave its type.
* `SessionAgreesWithFlash`: the counters count exactly the bytes in the slot,
  the remembered chunk is the end of it, one handle is open exactly while a
  session is, and the slot is not the running one.
* `AckedChunksInFlash`: every acknowledged chunk is in flash where the client
  put it, whatever was refused, retried or failed in between.
* `RunningSlotIntact`: what runs is never erased or overwritten.
* `TrialDiscipline`: only the selected, not yet started image is new, and no
  update is under way while the running image is on trial.
* `FallbackExists`: a reset during a trial starts a confirmed, intact image. It
  is stated for OTA data that still has a confirmed entry: finishing two updates
  in one boot overwrites the entry of the running image, and the bootloader then
  has only the image on trial.
* `ConfirmsWhatRuns`: between the two calls of `ota_link_mark_app_valid` the
  selected image stays the running one, so the right image is confirmed.
* `AckedRollbackPossible`: a ROLLBACK that was acknowledged is still possible
  when the link task wakes.
* `StagedOnlyWhenVerified`: an image is offered to the bootloader only if it is
  intact, has the announced digest, and every announced byte was acknowledged in
  this session.
* `ImplementsAtomicUpdate`: seen from outside there is one running image, one
  that a reset would start, and at most one that a rollback would start (`back`,
  mapped to `RollbackImages`). What runs changes only by a reset into the second
  or by a rollback into the third, and an image that was rejected or given up is
  never the one to go back to. Checked and proved for two slots, the default
  partition table. With the three of `esp32s3_16mb_3ota.csv` it is false: when a
  second update erases the selected slot, the bootloader's next turn may be the
  third slot, with an image older than the running one, and a reset starts that
  one once although nobody staged it.
* `TrialResolves`: an image on trial is confirmed, rejected or given up, or the
  health task has reported that it could not.

Bounds. Images are two or three bits with a parity digest, so a slot can be
intact, corrupt, incomplete or too long, and different intact images exist.
`PartitionSize = 3` and `MaxChunk = 2` give transfers of one to three chunks;
announced sizes are 0, below, at and above the partition; chunks are empty, of
legal length and one byte too long; offsets include 7, the largest value of the
eight-valued `uint32_t`, so that `offset + data_length` wraps. Nothing bounds
the number of commands, failures or resets: the state space is finite and is
explored completely. The device never stops (power can always fail), so deadlock
is checked too.

Fairness. `FairSpec` assumes only that the health task eventually runs. It is a
FreeRTOS task above idle priority that is made ready by a timer, and the link
task blocks on its driver between packets. Nothing is assumed of the client, of
resets or of flash.

### Host, line and device (`Link`)

| Run | Shows |
|---|---|
| `link_auth` | both ends require authentication; two operations, and an unasked-for reset or a killed client with another that takes over |
| `link_open` | no authentication: only the session's own state recognises a retry |
| `link_ends` | every operation ends |
| `link_repeated_reboot` | a finding, see below |

The line keeps the order, may lose the oldest packet of either direction, and
may delay any packet beyond the client's deadline, which is how duplicates
arise. A reset loses what was on its way to the device; a packet that arrived only
after the boot would be no different from the client's next attempt.

* `OnceAndInOrder`: within one boot commands take effect in the order of the
  operator's requests and none twice. It is checked in `link_open`, where there
  is no replay cache to help; the proof shows that it is not needed for this.
* `AckIsTrue`: an ACK that the client accepts stands for a command that took
  effect, although responses are matched by sequence number alone.
* `NackIsTrue`: a refusal never answers the retry of a command that took effect
  in the same boot; this is what the replay cache is for.
* `SessionsAgree`: two ends that both believe in a session have the same key,
  although a retried challenge makes the device draw a new nonce.
* `AbortFrees`: when the operator hears ACK or NACK to OTA_ABORT, no session is
  open, whoever had opened it. The device has no timeout for a session, so this
  is the way out after a client has died.
* `OperationEnds`: retries and the one renewed authentication come to an end.

Bounds. One image of one chunk, two operations, two attempts per packet, one
fault (a reset that no command asked for, or a killed client), a replay ring of
two. Two attempts are the least that give duplicates; two operations let an
answer, a cache entry or an open session of the first meet the second; a ring of
two is filled and wraps within one update. TLC does not combine a reset with a
takeover in one behaviour; the theorems have no such limit. Of the sixteen sequence numbers the
second client starts at 0, as the first did, so that its numbers meet those
still on the line, or at 13, so that the counter wraps in its first requests. A
client is killed with authentication only: without it, a new client that happens
to start at the number of an answer on the line takes that answer for its own,
which nothing in the protocol prevents. The runs do not check deadlock, because
the operator may stop asking.

A sequence number that comes back *within* a session would meet its entry in the
replay ring if fewer than eight protected commands came between. That takes some
65000 unprotected requests in one session and is outside the runs.

Fairness. `FairSpec` assumes that a wait of the client ends, by a response or by
its deadline: `SerialTransport.request` loops on a clock. Nothing is assumed of
the line or the device.

### The firmware file (`Upload`)

* `AcceptsOneVersion`: what OTA_END accepts is the version of the file whose
  digest was announced, whole: never a mixture, never a later version.
* `UneditedFileFits`: without an edit, no offset, length or size of the client is
  refused by the device, the short last chunk included.

The instance has images of three lengths, two of the same length that differ in
their first chunk, one too large for the partition, a half-written file and an
empty one; two edits and two updates. The digest tells all bodies apart, as
SHA-256 does. The device is not reset: an update does not survive a reset.

### The parsers (`DeviceParser`, `HostParser`)

* `FitsBuffer` (device): the buffer is never overrun, whatever length a header
  claims.
* `HostHoldsOneFrame` (host; `MCParsers` prefixes the host parser's properties
  with `Host`): between two calls there is the beginning of at most
  one packet in the buffer.
* `DeliversFrames`: a delivered packet stands in the stream as delivered, with
  its magic, length and checksum, and no two overlap.
* `ClearFramesArrive`: a frame that arrived whole is delivered unless a stray
  magic pair (one where no whole frame starts) stands within one packet length
  before it. It says how much a fault can cost, and that noise without the magic
  costs nothing.
* `ChunksDoNotMatter` (host): packets and buffer are those of one call with all
  the bytes, however they were split.

The header comment of the parser in `protocol.h` and the docstring of
`PacketParser` say that leading noise is ignored. `ClearFramesArrive` makes this
precise: noise with the magic in it, such as a frame that was cut off, opens a
packet whose missing bytes the next frames fill, and the failed CRC drops them.
The client's retries repair it.

Bounds. Four byte values, two of them the magic; a header of five bytes, a
checksum of one, payloads of up to two bytes: payloads contain the magic pair or
its first byte, and the length field takes values above the limit. A stream is
any three segments out of whole frames, every beginning of a frame, and single
bytes. The checksum is weak on purpose, so damaged frames that pass it occur;
they are frames to both parsers.

### Start and boot counter (`Startup`)

* `DriverOfRunningLink`: between calls, the link has a driver exactly on the
  port that its task reads.
* `ServesAsStarted`: a running link keeps the configuration, the writer and the
  key of the call that started it.
* `NeverOpenByMistake`: a link that was asked to authenticate does.
* `NoCountLost`: the stored count is the number of counts stored, as long as it
  could be read.
* `startup_counted_twice` is a finding, see below.

The application may call with any of the instance's configurations (both
transports, a broken one, keys that are missing or too long), up to three times
in a boot, and may hold drivers of its own.

### GET_INFO (`Info`)

* `SentIfItFits`: the report stays within the buffer and is refused exactly when
  it does not fit.
* `ReadsAsReported`, `LegacyUnderstood`: reports of either firmware are read as
  what they are, though nothing in them marks the layout.
* `VersionWholeOrZero`: three components that fit a byte, or zeros.

Texts have at most thirty-one characters, as in an app description, and no
character code is that small. A report of the older layout, read as one of the
newer, has a character where a length should be, and the instance includes
reports long enough for that length to fit. Lengths reach the
buffer's size from both sides, versions include 255, 256, leading zeros, missing
and surplus components. Partition tables have up to three application partitions
out of factory, the first and the last OTA slot, and test, the one whose subtype
lies beyond the range of the OTA slots.

## 4. What is proved

Eight modules hold proofs. A theorem has the form `Spec => []P` or
`Spec => [][A]_vars`, for every value of the constants that satisfies the named
assumptions, and so without any of the bounds of section 3: the caps on
operations, clients, faults, updates and edits may be any numbers. The three of
`VerdictProofs` have the form `Spec /\ Counting /\ []FewRequests => ...`, explained
below.

| Theorem | Establishes |
|---|---|
| `DeviceUpdateProofs!TypeCorrect` | `TypeOK` |
| `DeviceUpdateProofs!SessionCorrect` | `SessionAgreesWithFlash` |
| `DeviceUpdateProofs!AckedDurable` | `AckedChunksInFlash` |
| `DeviceUpdateProofs!RunningIntact` | `RunningSlotIntact` |
| `DeviceUpdateProofs!TrialsDisciplined` | `TrialDiscipline` |
| `DeviceUpdateProofs!ConfirmationSound` | `ConfirmsWhatRuns` |
| `DeviceUpdateProofs!RollbackSound` | `AckedRollbackPossible` |
| `DeviceUpdateProofs!FallbackSound` | `FallbackExists` |
| `DeviceUpdateProofs!StagingVerified` | `StagedOnlyWhenVerified` |
| `DeviceUpdateProofs!Refinement` | `ImplementsAtomicUpdate`, for at most two slots |
| `LinkProofs!LinkTypeCorrect` | `TypeOK` of `Link` |
| `LinkProofs!SessionsNeverDiffer` | `SessionsAgree` |
| `LinkProofs!EffectsOnceAndInOrder` | `OnceAndInOrder` |
| `LinkProofs!DeviceSoundOnLink` | the device's invariants, on the line |
| `VerdictProofs!AcknowledgementsTrue` | `AckIsTrue`, with authentication or with one client |
| `VerdictProofs!RefusalsTrue` | `NackIsTrue`, with authentication |
| `VerdictProofs!AbortAlwaysFrees` | `AbortFrees`, with authentication |
| `UploadProofs!OneVersion` | `AcceptsOneVersion` |
| `UploadProofs!UneditedFits` | `UneditedFileFits` |
| `DeviceParserProofs` | `FitsBuffer`, `DeliversFrames`, `ClearFramesArrive` |
| `StartupProofs` | `DriverOfRunningLink`, `ServesAsStarted`, `NeverOpenByMistake`, `NoCountLost` |

### The device

Assumptions: at least one slot; a factory image that fits its partition and
verifies; the client's offsets and sizes fit the integer width; and a partition
with one chunk after it does not fill the 32-bit range (`WidthAssumption`). The
last one is what makes `offset + data_length` safe: `ota_manager_write_data` adds
before it compares, and no overflow can occur because the offset has already been
found equal to `bytes_received`, which is at most the partition size. A retried
chunk with a wrapping sum is refused because its offset is not the remembered one.

The invariants are proved together, as `IndInv`, because no one is inductive
alone. `AckedChunksInFlash` needs `SessionAgreesWithFlash` to know that a chunk
goes to the end of the slot and that a duplicate is already there.
`SessionAgreesWithFlash` needs `TypeOK`, and `TypeOK` needs it back: the handle
count stays a natural number only because a handle is open whenever one is
freed. `RunningSlotIntact` needs the session's slot to differ from the running
one. `ConfirmsWhatRuns` needs `TrialDiscipline`: an image on trial is the
selected one, and OTA_END cannot select another because no session is open then.
`AckedRollbackPossible` needs that the sleeping link task cannot start a session
and that a confirmation only makes more images usable. `OtaManagerProofs` has one
lemma per operation (`OtaBeginInv`, ...) and one that all resets share: whatever
states the bootloader starts from, if only the selected image is new the
invariant holds afterwards. `CommandsProofs` puts them together into
`DeviceStepInv`, about any step of the device, and is used for `DeviceUpdate` and
for `Link` alike.

`FallbackExists` needs three more facts (`FallbackInv`), which the proof found one
after the other: a confirmed image is intact unless it is in the slot that the
next update takes, and there too during a trial (`ConfirmedKept`); outside the
selected slot at most one entry is usable, and none unless the selected one is
(`OneFallback`); and a confirmed, selected image that does not run, because the
bootloader passed it over, is where the next update goes (`SelectedPassedOver`). The last one
depends on the order of the bootloader's turns, which is why the order is in
`EspOta`.

`StagedOnlyWhenVerified` adds that every byte the session counts was acknowledged
in it (`AckedCoverSlot`). The refinement maps each step of the device to a step of
`AtomicUpdate` or to a stutter. `NSlots <= 2` is used where a reset that starts no
trial must leave the same image next (`RestartSettles`), and for the way back
(`WayBackOk`): with two slots the image beside the selected one is what a rollback
starts, and what a reset starts while the selected one is on trial.

### Host, line and device

`LinkProofs` needs, beside the device's assumptions, that the operator's
operations are lists of well-typed requests (`OperationsAssumption`), at least one
attempt, a ring of at least one entry and at least two sequence numbers. No
theorem of this module depends on how many sequence numbers there are: they may
wrap and collide at any moment.

The invariant `LinkInv` has five parts: the device's, types of the host and of
everything on the line, and

* `NonceInv`, for `SessionsAgree`. The client's nonces go up, also along the line.
  A key whose challenge response is on its way (`Issued`) leaves no challenge with
  an older nonce that could still reach the device; and all proofs of the newest
  nonce are for one key (`OnlyProofOf`). A retried challenge makes the device draw
  a second server nonce, and the client may answer with the first: then the device
  refuses the proof, and the two never both believe.
* `OrderInv`, for `OnceAndInOrder`. The line keeps the requests in the operator's
  order, and what took effect in this boot is no newer than anything on the line.
  The packets of one request carry the same command, and a command that took
  effect last is *spent*: a BEGIN finds a session open, a DATA is a duplicate or
  out of order, an END or ABORT finds none, a REBOOT or ROLLBACK sleeps. So its
  further copies change nothing, until a newer command has taken effect, and then
  none of its copies is left behind that one.

The second argument uses neither authentication nor the replay cache. What the
cache gives is that the *answer* to a copy stays the same, which is `NackIsTrue`.

`DeviceSoundOnLink` carries the device's invariants over: every step of `Link`
takes a step of the device as `CommandsProofs` understands it, or none.

### What the operator is told

`VerdictProofs` is about the answers. The client takes the first response with the
number it waits for; with a key, it also checks that the response is tagged with
the key of the session and names the command. Three conditions stand in its
theorems, and each is needed:

* `[]FewRequests`: a session has at most `SequenceModulus` requests (65536 in the
  code); the number of sessions, and of requests in all of them, is not limited. A
  response may be late beyond any bound and the device remembers its answers until
  they are evicted, so when a number comes back in a session nothing tells the old
  answer from the new one. With a key a session lasts from the request that the
  device consented to until the client leaves it or authenticates anew; without one
  it is the client's life. `Counting` defines the history variable `since`, the
  request in which the session began, from the steps of `h`; it restricts no
  behaviour of the link.
* `UseAuth \/ MaxClients = 1` for ACKs: without a key, a second client that starts
  at the number of an answer on the line takes it for its own.
* `UseAuth` and `AuthRequired` for NACKs and OTA_ABORT: without the replay cache the
  retry of an OTA_BEGIN that succeeded is answered OTA_ALREADY_STARTED, so that
  `NackIsTrue` is false.

`UpdatesAssumption` says of the operator's operations what `run_update_data` does:
chunks come behind OTA_BEGIN or another chunk, at ascending offsets.

*Acknowledgements.* Within a session every request draws one number, so an older
request is as far behind in numbers as it is in requests, up to one turn of the
counter (`Apart`); an answer with the awaited number, tagged for this session, is
then an answer to this request. `TrueAckInv` says that of every packet on the line
(`Sound`) and of every acknowledgement on the line or in the replay ring
(`Truthful`). It needs that nothing is tagged yet with a key under negotiation
(`Used`), since that is what a new session starts from. An ACK means that the
command took effect, with one exception in the code: `ota_manager_write_data`
acknowledges the chunk it wrote last without writing it. `ChunkInv` shows that this
chunk is never another request's: what the session wrote last lies before every
chunk that is still to come, and so does every chunk of an older request that is
still on the line.

*Refusals and OTA_ABORT.* `VerdictInv` says that the device gives one answer to a
request, and repeats it. Once the answer is given, only copies of the request are
on the line (`OnlyPkt`), so nothing can evict it from the ring, whatever the ring's
size; a copy is answered from the ring, or after a reset with AUTH_REQUIRED, which
carries no tag of the session and is never a verdict on the command. The parts follow the handshake: what is out while a challenge is
(`ChallengeInv`), while a proof is (`ProofInv`), from the moment the device has
accepted it (`EstablishedInv`), what the ring holds of a session both sides share
(`CacheInv`) and what the answers under way say (`AnswerInv`). The point that is
easy to get wrong is a renewed authentication in the middle of a request: it is
sound because AUTH_REQUIRED reaches the client only when the device has no session,
and then the request has not taken effect in this boot. `VerdictInv` was checked by
TLC, on the instance of `link_auth`, before it was proved.

### The firmware file

`UploadProofs` assumes of the digest only what `ota_manager_end` relies on
(`DigestAssumption`): an intact image with the digest of a version of the file is
that version, among the images that chunks of the versions can make up
(`Mixtures`). The invariant says that an open session holds such a mixture and was
announced with the digest of a version, and for `UneditedFileFits` how the client's
position in the file and the session's counter move together.

### The device's parser

`DeviceParserProofs` proves `BufferNeverOverrun`, `OnlyFramesDelivered` and
`NoClearFrameMissed`, that is `FitsBuffer`, `DeliversFrames` and
`ClearFramesArrive`, for every stream, number of byte values, header of at least
four bytes, payload limit and checksum function.

The inductive invariant says where the buffer stands: its bytes are the last
bytes read, they start with the magic, and they are neither oversize nor
complete. From this a completed buffer is exactly as long as its header says and
is a frame of the stream if its checksum is right. For `ClearFramesArrive` the
invariant adds that a clear frame of which some bytes have been read *is* the
buffer. The step is `NotInsideAnother`: a buffer that is still open when a clear
frame starts would have been opened by a magic pair less than a packet length
before it, which is stray, or by another whole frame, which has ended.

### The start of the library

`StartupProofs` proves `DriverNeverLeaks`, `RunningLinkKeepsConfig`,
`AuthenticationIsOn` and `CountsAreKept` for any ports, configurations, failures
and bounds. The invariant adds to the four properties, for every step of the
call, whose driver is on the port (`DriverInv`), what `s_config` and `s_auth`
hold compared with the argument (`CallInv`), and that a count that was read is
one ahead of the stored one (`CountInv`).

### What is not proved

* `TrialResolves` and `OperationEnds` are liveness under fairness, which is outside
  the prover's reach.
* `AckIsTrue`, `NackIsTrue` and `AbortFrees` once a sequence number has come back
  within a session: an old answer can then be taken for the new one.
* The same properties without authentication, beyond one client's ACKs: `NackIsTrue`
  is false, and `AbortFrees` is left to the authenticated case in runs and proofs.
* `HostParser` runs a loop that is recursive in the bytes of a chunk, and induction
  over data is outside the prover's reach; `Info` is a computation on texts for
  the same reason.

## 5. Findings

* `device_unverified_image`. `README.md` promises "Image SHA256 validation
  before boot partition switch". After a finished update the boot partition
  stays switched, and a second OTA_BEGIN in the same boot erases and rewrites
  that same slot, since the slot is chosen from the running one. A reset before
  its OTA_END, or after an OTA_END that answered OTA_HASH_MISMATCH, or after an
  OTA_ABORT, starts whatever intact image was written, though no OTA_END
  compared its digest. The image must still verify, so
  `RunningSlotIntact` holds.
* `link_repeated_reboot`. A comment in `auth.c` says that the replay cache makes
  lost-ACK recovery safe for REBOOT and ROLLBACK too. The restart empties the
  cache: the client's retry meets AUTH_REQUIRED, the client authenticates anew
  and repeats the command, and the device restarts a second time. If the first
  restart began a trial, the second one ends it before it could be confirmed.

* `startup_counted_twice`. `README.md` says that the boot count "increments once
  per ESP32 boot". A start that fails after `device_info_init` and is tried
  again counts the boot twice.
  `NoCountLost` excepts one more case: when the stored count cannot be read,
  `device_info_init` goes on with 0 and stores 1 over it.

## 6. What is not modelled, and the plan

Not modelled: argument parsing, printing and logging of the client; the
arithmetic of HMAC, SHA-256 and CRC-32, which are symbolic or parameters; calls
of `ota_link_start_with_config` from two tasks at once, which nothing in the
repository makes; the check of the packet's version, since there is only one; a
sequence number that comes back within one session. The optional
`mark_valid_task` of the library calls the same function as the example's health
task; `Startup` has its creation and its end. A payload of exactly sixteen bytes,
which no firmware sends, makes `parse_info_payload` raise IndexError instead of
ProtocolError and is left out of `Info`.

What could follow: a proof about `HostParser`, once induction over the bytes of a
chunk is in reach.

## 7. Running

    tlc -config MCDeviceUpdate.cfg MCDeviceUpdate
    tlc -config MCLinkAuth.cfg MCLink
    tlapm OtaManagerProofs.tla
    tlapm CommandsProofs.tla
    tlapm DeviceUpdateProofs.tla
    tlapm LinkProofs.tla
    tlapm VerdictProofs.tla
    tlapm UploadProofs.tla
    tlapm DeviceParserProofs.tla
    tlapm StartupProofs.tla

`PROJECT.json` lists the runs with their modules, configurations and properties, the code lines behind each definition, the
mutants that show that each property can fail, and the theorems.
