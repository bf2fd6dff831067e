---------------------------- MODULE DeviceUpdate ----------------------------
(***************************************************************************)
(* The device alone, taking protected commands from any client in any      *)
(* order with any arguments, its health task running, and power failing at *)
(* any time.                                                               *)
(***************************************************************************)
EXTENDS Commands

CONSTANTS
    Offsets,         \* offsets that clients put in OTA_DATA
    Chunks,          \* data that clients put in OTA_DATA
    Sizes            \* firmware sizes that clients announce

ASSUME ClientAssumption ==
    /\ Offsets \subseteq 0 .. U32 - 1
    /\ Chunks \subseteq Seq(Byte)
    /\ Sizes \subseteq 0 .. U32 - 1

VARIABLES
    acked,           \* history: data payloads acknowledged in this session
    accepted         \* history: slots whose content OTA_END has acknowledged

vars == <<deviceVars, acked, accepted>>

Init ==
    /\ DeviceInit
    /\ acked = {}
    /\ accepted = {0}

BeginErrors ==
    {"OTA_ALREADY_STARTED", "INVALID_LENGTH", "OTA_SIZE_ERROR", "OTA_INVALID_IMAGE",
     "OTA_FLASH_ERROR"}
DataErrors ==
    {"OTA_NOT_STARTED", "INVALID_LENGTH", "OTA_INVALID_OFFSET", "OTA_SIZE_ERROR",
     "OTA_FLASH_ERROR"}
EndErrors ==
    {"INVALID_LENGTH", "OTA_NOT_STARTED", "OTA_SIZE_ERROR", "OTA_INVALID_IMAGE",
     "OTA_HASH_MISMATCH"}
AbortErrors == {"INVALID_LENGTH", "OTA_NOT_STARTED", "OTA_FLASH_ERROR"}
RestartErrors == {"INVALID_LENGTH", "BUSY", "ROLLBACK_NOT_AVAILABLE"}

-----------------------------------------------------------------------------
LinkTaskFree == delayed = "NONE"

\* A slot that is erased or written holds nothing that OTA_END accepted.
AcceptedKept == {s \in accepted : flash'[s] = flash[s]}

\* The acknowledgements count for as long as the session is open.
AckedKept == IF s_ota.active /\ s_ota'.active THEN acked ELSE {}

Begin ==
    /\ LinkTaskFree
    /\ \E p \in [well_formed : BOOLEAN, firmware_size : Sizes, sha256 : Byte],
          ret \in BeginErrors \cup {"OK"} : CmdBegin(p, ret)
    /\ acked' = AckedKept
    /\ accepted' = AcceptedKept

Data ==
    /\ LinkTaskFree
    /\ \E p \in [offset : Offsets, data : Chunks], ret \in DataErrors \cup {"OK"} :
         /\ CmdData(p, ret)
         /\ acked' = IF ret = "OK" THEN acked \cup {p} ELSE acked
    /\ accepted' = AcceptedKept

End ==
    /\ LinkTaskFree
    /\ \E empty \in BOOLEAN, ret \in EndErrors \cup {"OK"} :
         /\ CmdEnd(empty, ret)
         /\ accepted' = IF ret = "OK" THEN accepted \cup {s_ota.partition} ELSE accepted
    /\ acked' = AckedKept

Abort ==
    /\ LinkTaskFree
    /\ \E empty \in BOOLEAN, ret \in AbortErrors \cup {"OK"} : CmdAbort(empty, ret)
    /\ acked' = AckedKept
    /\ UNCHANGED accepted

Reboot ==
    /\ LinkTaskFree
    /\ \E empty \in BOOLEAN, ret \in RestartErrors \cup {"OK"} : CmdReboot(empty, ret)
    /\ UNCHANGED <<acked, accepted>>

Rollback ==
    /\ LinkTaskFree
    /\ \E empty \in BOOLEAN, ret \in RestartErrors \cup {"OK"} : CmdRollback(empty, ret)
    /\ UNCHANGED <<acked, accepted>>

Resets == RebootNow \/ RollbackNow \/ HealthReject \/ PowerLoss

Health == HealthCheck \/ HealthConfirm \/ HealthFails \/ HealthReject

Tasks ==
    /\ Resets \/ RollbackFails \/ HealthCheck \/ HealthConfirm \/ HealthFails
    /\ acked' = AckedKept
    /\ UNCHANGED accepted

Next == Begin \/ Data \/ End \/ Abort \/ Reboot \/ Rollback \/ Tasks

Spec == Init /\ [][Next]_vars

\* FreeRTOS runs the health task once its delay is over; nothing else is owed.
Fairness == WF_vars(Health /\ acked' = AckedKept /\ UNCHANGED accepted)

FairSpec == Spec /\ Fairness

-----------------------------------------------------------------------------
\* Types of the device's state and of the histories; a handle that is freed
\* twice would take the count of open handles out of its type.
TypeOK ==
    /\ DeviceTypeOK
    /\ acked \subseteq DataPayloads
    /\ accepted \subseteq Slots

\* The intact images that fit a partition.
IntactImages ==
    {image \in Seq(Byte) : Len(image) <= PartitionSize /\ ImageOk(image)}

\* What ESP-IDF has to offer for a rollback: nothing, or one image.
RollbackImages ==
    IF esp_ota_check_rollback_is_possible
    THEN {flash[BootTarget(GiveUpTrials([ota_state EXCEPT ![boot] = "INVALID"]))]}
    ELSE {}

Promise == INSTANCE AtomicUpdate WITH
    Images  <- IntactImages,
    First   <- FactoryImage,
    current <- flash[running],
    next    <- NextBootImage,
    back    <- RollbackImages,
    trial   <- ota_state[running] = "PENDING_VERIFY"

\* The device, with its slots, OTA data, sessions and tasks, keeps the promise
\* of AtomicUpdate: no command, failure or power loss changes what runs except
\* by a reset into the intact image that was next, or by a rollback into the one
\* that ESP-IDF had to offer, after which neither is on offer any more.
ImplementsAtomicUpdate == Promise!Spec

\* Every chunk acknowledged in the open session, retried ones included, is in
\* flash at the offset the client gave, whatever was refused in between.
AckedChunksInFlash ==
    s_ota.active =>
      \A c \in acked :
        /\ c.offset + Len(c.data) <= Len(flash[s_ota.partition])
        /\ \A i \in 1 .. Len(c.data) :
             flash[s_ota.partition][c.offset + i] = c.data[i]

\* ota_manager_end puts an image on offer to the bootloader only when every
\* byte announced by OTA_BEGIN was acknowledged in this session and the image
\* carries the announced digest.
StagesVerified ==
    \A s \in Slots : ota_state[s] # "NEW" /\ ota_state'[s] = "NEW" =>
      /\ s_ota.active /\ s = s_ota.partition
      /\ ImageOk(flash[s])
      /\ ImageSha(flash[s]) = s_ota.expected_sha256
      /\ \A i \in 0 .. s_ota.firmware_size - 1 :
           \E c \in acked : c.offset <= i /\ i < c.offset + Len(c.data)

\* No step of the device stages an image that was not verified.
StagedOnlyWhenVerified == [][StagesVerified]_vars

\* Every image on trial is confirmed, rejected or given up, unless the health
\* task has reported that it could not confirm it, or could not be created.
TrialResolves ==
    (ota_state[running] = "PENDING_VERIFY")
      ~> (ota_state[running] # "PENDING_VERIFY" \/ health = "FAILED")

\* The README's "Image SHA256 validation before boot partition switch": only
\* an image that passed OTA_END ever runs.
OnlyAcceptedImagesRun == running \in accepted
=============================================================================
