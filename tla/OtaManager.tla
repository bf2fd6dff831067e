----------------------------- MODULE OtaManager -----------------------------
(***************************************************************************)
(* ota_manager.c: the OTA session of the device.                           *)
(*                                                                         *)
(* Each operation is an action with the error code it returns as a         *)
(* parameter.  A begin payload is a record [well_formed, firmware_size,    *)
(* sha256], a data payload a record [offset, data]; empty data stands for  *)
(* a payload no longer than its header.  uint32_t sums wrap at U32.        *)
(***************************************************************************)
EXTENDS EspOta

CONSTANTS
    U32,             \* number of values of a uint32_t
    MaxChunk         \* OTA_MAX_CHUNK_DATA_SIZE

VARIABLE s_ota       \* the ota_state_t

\* A partition of the 4 GiB address space leaves room for one chunk below 2^32.
ASSUME WidthAssumption ==
    /\ U32 \in Nat
    /\ MaxChunk \in Nat \ {0}
    /\ PartitionSize + MaxChunk < U32

otaVars == <<s_ota, espVars>>

ZeroSha == CHOOSE b \in Byte : TRUE      \* thirty-two zero bytes

\* memset(&s_ota, 0, sizeof(s_ota))
ZeroOta ==
    [ active            |-> FALSE,
      firmware_size     |-> 0,
      bytes_received    |-> 0,
      last_chunk_offset |-> 0,
      last_chunk_data   |-> <<>>,
      expected_sha256   |-> ZeroSha,
      partition         |-> NoPartition ]

OtaStates ==
    [ active            : BOOLEAN,
      firmware_size     : Nat,
      bytes_received    : Nat,
      last_chunk_offset : Nat,
      last_chunk_data   : Seq(Byte),
      expected_sha256   : Byte,
      partition         : Slots \cup {NoPartition} ]

BeginPayloads ==
    [ well_formed : BOOLEAN, firmware_size : 0 .. U32 - 1, sha256 : Byte ]

DataPayloads == [ offset : 0 .. U32 - 1, data : Seq(Byte) ]

OtaTypeOK == EspTypeOK /\ s_ota \in OtaStates

OtaInit == EspInit /\ s_ota = ZeroOta

-----------------------------------------------------------------------------
\* Mutant: an open session does not stop another OTA_BEGIN.
BeginErrorUnguarded(p) ==
    IF ~p.well_formed THEN "INVALID_LENGTH"
    ELSE IF p.firmware_size = 0 THEN "OTA_SIZE_ERROR"
    ELSE IF esp_ota_get_next_update_partition = NoPartition THEN "OTA_INVALID_IMAGE"
    ELSE IF p.firmware_size > PartitionSize THEN "OTA_SIZE_ERROR"
    ELSE "OK"

\* The checks of ota_manager_begin, in the order of its early returns.
BeginError(p) ==
    IF s_ota.active THEN "OTA_ALREADY_STARTED"
    ELSE IF ~p.well_formed THEN "INVALID_LENGTH"
    ELSE IF p.firmware_size = 0 THEN "OTA_SIZE_ERROR"
    ELSE IF esp_ota_get_next_update_partition = NoPartition THEN "OTA_INVALID_IMAGE"
    ELSE IF p.firmware_size > PartitionSize THEN "OTA_SIZE_ERROR"
    ELSE "OK"

NewSession(p) ==
    [ active            |-> TRUE,
      firmware_size     |-> p.firmware_size,
      bytes_received    |-> 0,
      last_chunk_offset |-> 0,
      last_chunk_data   |-> <<>>,
      expected_sha256   |-> p.sha256,
      partition         |-> esp_ota_get_next_update_partition ]

ota_manager_begin(p, ret) ==
    \/ /\ BeginError(p) # "OK"
       /\ ret = BeginError(p)
       /\ UNCHANGED otaVars
    \/ /\ BeginError(p) = "OK"
       /\ ret = "OTA_FLASH_ERROR"
       /\ esp_ota_begin(esp_ota_get_next_update_partition, FALSE)
       /\ UNCHANGED s_ota
    \/ /\ BeginError(p) = "OK"
       /\ ret = "OK"
       /\ esp_ota_begin(esp_ota_get_next_update_partition, TRUE)
       /\ s_ota' = NewSession(p)

\* Mutant: abort without looking whether a session is open.
AbortUnguarded(ret) ==
    /\ ret \in {"OK", "OTA_FLASH_ERROR"}
    /\ HandleFreed
    /\ s_ota' = ZeroOta
    /\ UNCHANGED <<flash, ota_state, boot, running>>

\* Mutant: a failed abort returns before the session is cleared.
AbortKeepsSession(ret) ==
    \/ /\ ~s_ota.active
       /\ ret = "OTA_NOT_STARTED"
       /\ UNCHANGED otaVars
    \/ /\ s_ota.active
       /\ ret \in {"OK", "OTA_FLASH_ERROR"}
       /\ HandleFreed
       /\ s_ota' = IF ret = "OK" THEN ZeroOta ELSE s_ota
       /\ UNCHANGED <<flash, ota_state, boot, running>>

ota_manager_abort(ret) ==
    \/ /\ ~s_ota.active
       /\ ret = "OTA_NOT_STARTED"
       /\ UNCHANGED otaVars
    \/ /\ s_ota.active
       /\ ret \in {"OK", "OTA_FLASH_ERROR"}
       /\ HandleFreed
       /\ s_ota' = ZeroOta
       /\ UNCHANGED <<flash, ota_state, boot, running>>

-----------------------------------------------------------------------------
\* Mutant: the retried bytes are not compared.
DuplicateByRange(p) ==
    /\ p.offset = s_ota.last_chunk_offset
    /\ (p.offset + Len(p.data)) % U32 = s_ota.bytes_received

\* A retry of the chunk accepted last, byte for byte.
DuplicateOfLast(p) ==
    /\ p.offset = s_ota.last_chunk_offset
    /\ (p.offset + Len(p.data)) % U32 = s_ota.bytes_received
    /\ p.data = s_ota.last_chunk_data

\* What ota_manager_write_data returns before it writes; WRITE if it goes on.
WriteVerdict(p) ==
    IF ~s_ota.active THEN "OTA_NOT_STARTED"
    ELSE IF p.data = <<>> \/ Len(p.data) > MaxChunk THEN "INVALID_LENGTH"
    ELSE IF p.offset # s_ota.bytes_received
         THEN IF DuplicateOfLast(p) THEN "OK" ELSE "OTA_INVALID_OFFSET"
    ELSE IF (p.offset + Len(p.data)) % U32 > s_ota.firmware_size
         THEN "OTA_SIZE_ERROR"
    ELSE "WRITE"

\* Mutant: the offset of the last chunk is not remembered.
ChunkOffsetForgotten(p) ==
    [ active            |-> TRUE,
      firmware_size     |-> s_ota.firmware_size,
      bytes_received    |-> (s_ota.bytes_received + Len(p.data)) % U32,
      last_chunk_offset |-> s_ota.last_chunk_offset,
      last_chunk_data   |-> p.data,
      expected_sha256   |-> s_ota.expected_sha256,
      partition         |-> s_ota.partition ]

SessionWithChunk(p) ==
    [ active            |-> TRUE,
      firmware_size     |-> s_ota.firmware_size,
      bytes_received    |-> (s_ota.bytes_received + Len(p.data)) % U32,
      last_chunk_offset |-> p.offset,
      last_chunk_data   |-> p.data,
      expected_sha256   |-> s_ota.expected_sha256,
      partition         |-> s_ota.partition ]

ota_manager_write_data(p, ret) ==
    \/ /\ WriteVerdict(p) # "WRITE"
       /\ ret = WriteVerdict(p)
       /\ UNCHANGED otaVars
    \/ /\ WriteVerdict(p) = "WRITE"
       /\ ret = "OTA_FLASH_ERROR"
       /\ esp_ota_write(s_ota.partition, p.data, FALSE)
       /\ UNCHANGED s_ota
    \/ /\ WriteVerdict(p) = "WRITE"
       /\ ret = "OK"
       /\ esp_ota_write(s_ota.partition, p.data, TRUE)
       /\ s_ota' = SessionWithChunk(p)

-----------------------------------------------------------------------------
\* Mutant: an incomplete transfer may be finished.
EndErrorUncounted == IF ~s_ota.active THEN "OTA_NOT_STARTED" ELSE "OK"

\* The session must be open and complete; otherwise it is left as it is.
EndError ==
    IF ~s_ota.active THEN "OTA_NOT_STARTED"
    ELSE IF s_ota.bytes_received # s_ota.firmware_size THEN "OTA_SIZE_ERROR"
    ELSE "OK"

\* Mutant: the digest of OTA_BEGIN is not compared.
ShaUnchecked == TRUE

ShaMatches == ImageSha(flash[s_ota.partition]) = s_ota.expected_sha256

\* Any of the four calls of ota_manager_end may fail; each failure clears the
\* session.  esp_ota_end has freed the handle by then.
EndFails(ret) ==
    /\ \/ ret = "OTA_INVALID_IMAGE"      \* esp_ota_end or esp_ota_set_boot_partition
       \/ /\ ret = "OTA_HASH_MISMATCH"   \* esp_partition_get_sha256, or memcmp
          /\ ImageOk(flash[s_ota.partition])
    /\ UNCHANGED <<flash, ota_state, boot, running>>

EndSelects(ret) ==
    /\ ret = "OK"
    /\ ImageOk(flash[s_ota.partition])
    /\ ShaMatches
    /\ esp_ota_set_boot_partition(s_ota.partition)

ota_manager_end(ret) ==
    \/ /\ EndError # "OK"
       /\ ret = EndError
       /\ UNCHANGED otaVars
    \/ /\ EndError = "OK"
       /\ EndFails(ret) \/ EndSelects(ret)
       /\ HandleFreed
       /\ s_ota' = ZeroOta

-----------------------------------------------------------------------------
(***************************************************************************)
(* The bookkeeping of an open session agrees with the flash: the counters  *)
(* of ota_manager.c count exactly the bytes programmed since OTA_BEGIN, the*)
(* remembered last chunk is what ends the slot, the slot is not the one    *)
(* running, and one ESP-IDF handle is open exactly while a session is.     *)
(***************************************************************************)
SessionAgreesWithFlash ==
    /\ open_handles = IF s_ota.active THEN 1 ELSE 0
    /\ s_ota.active =>
         /\ s_ota.partition = esp_ota_get_next_update_partition
         /\ s_ota.partition \in Slots \ {running}
         /\ s_ota.bytes_received = Len(flash[s_ota.partition])
         /\ s_ota.bytes_received <= s_ota.firmware_size
         /\ s_ota.firmware_size <= PartitionSize
         /\ s_ota.last_chunk_offset + Len(s_ota.last_chunk_data) = s_ota.bytes_received
         /\ \A i \in 1 .. Len(s_ota.last_chunk_data) :
              flash[s_ota.partition][s_ota.last_chunk_offset + i] = s_ota.last_chunk_data[i]

\* The slot the program runs from always holds an intact image.
RunningSlotIntact == ImageOk(flash[running])

\* An image is new only while it is selected and waits for its first boot in
\* the slot after the running one; the running image is never new, is selected
\* if it is on trial, and no update is under way until its trial is over.
TrialDiscipline ==
    /\ \A s \in Slots : ota_state[s] = "NEW" =>
         s = boot /\ s # running /\ s = esp_ota_get_next_update_partition
    /\ ota_state[running] = "PENDING_VERIFY" => boot = running /\ ~s_ota.active
=============================================================================
