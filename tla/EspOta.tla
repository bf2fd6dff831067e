------------------------------- MODULE EspOta -------------------------------
(***************************************************************************)
(* The ESP-IDF services that ota_link stands on: the OTA slots in flash,   *)
(* the OTA data that names the slot to boot with a state per slot, the OTA *)
(* write handles, and the bootloader.  None of it is in this repository;   *)
(* it is modelled by what ota_manager.c, commands.c, ota_link.c and        *)
(* device_info.c call and observe, with CONFIG_BOOTLOADER_APP_ROLLBACK     *)
(* enabled as in sdkconfig.defaults.                                       *)
(*                                                                         *)
(* Calls that can fail take their outcome as the parameter ok; a caller    *)
(* quantifies over it.                                                     *)
(***************************************************************************)
EXTENDS Integers, Sequences

CONSTANTS
    NSlots,          \* number of ota_N partitions in the partition table
    PartitionSize,   \* bytes in one OTA partition
    Byte,            \* the bytes an image is made of
    Hash(_),         \* the digest an image carries after its body
    FactoryImage     \* what ota_0 holds when the device leaves the bench

VARIABLES
    flash,           \* slot -> bytes programmed since the slot was erased
    ota_state,       \* slot -> esp_ota_img_states_t, UNDEFINED if no entry
    boot,            \* slot named by the newest OTA data entry
    running,         \* slot the current program was loaded from
    open_handles     \* OTA handles ESP-IDF has given out and not freed

espVars == <<flash, ota_state, boot, running, open_handles>>

Slots == 0 .. NSlots - 1
NoPartition == -1

ImageStates == {"NEW", "PENDING_VERIFY", "VALID", "INVALID", "ABORTED", "UNDEFINED"}

(***************************************************************************)
(* An image is a body followed by the digest of that body.  ImageOk is the *)
(* verification the bootloader, esp_ota_end and esp_ota_set_boot_partition *)
(* run; ImageSha is the digest esp_partition_get_sha256 reports.           *)
(***************************************************************************)
ImageSha(image) == image[Len(image)]

ImageOk(image) ==
    /\ Len(image) > 1
    /\ ImageSha(image) = Hash(SubSeq(image, 1, Len(image) - 1))

ASSUME NSlotsAssumption == NSlots \in Nat \ {0}
ASSUME PartitionSizeAssumption == PartitionSize \in Nat
ASSUME FactoryAssumption ==
    /\ FactoryImage \in Seq(Byte) /\ Len(FactoryImage) <= PartitionSize
    /\ ImageOk(FactoryImage)

EspTypeOK ==
    /\ flash \in [Slots -> Seq(Byte)]
    /\ ota_state \in [Slots -> ImageStates]
    /\ boot \in Slots
    /\ running \in Slots
    /\ open_handles \in Nat

\* First power-on: the bootloader writes a VALID entry for the image it found.
EspInit ==
    /\ flash = [s \in Slots |-> IF s = 0 THEN FactoryImage ELSE <<>>]
    /\ ota_state = [s \in Slots |-> IF s = 0 THEN "VALID" ELSE "UNDEFINED"]
    /\ boot = 0
    /\ running = 0
    /\ open_handles = 0

-----------------------------------------------------------------------------
(***************************************************************************)
(* esp_ota_ops                                                             *)
(***************************************************************************)

\* Mutant: the slot after the selected one.
NextAfterSelected ==
    IF NSlots = 1 THEN NoPartition ELSE IF boot + 1 < NSlots THEN boot + 1 ELSE 0

\* The slot after the running one, whatever slot is selected for boot.
esp_ota_get_next_update_partition ==
    IF NSlots = 1 THEN NoPartition
    ELSE IF running + 1 < NSlots THEN running + 1 ELSE 0

\* Mutant: an update may begin while the running image is on trial.
BeginDuringTrial(slot, ok) ==
    /\ flash' = [flash EXCEPT ![slot] = <<>>]
    /\ open_handles' = IF ok THEN open_handles + 1 ELSE open_handles
    /\ UNCHANGED <<ota_state, boot, running>>

\* Refused while the running image is unconfirmed, before flash is touched.
\* A failure after that point may leave the slot erased.
esp_ota_begin(slot, ok) ==
    /\ ok => ota_state[running] # "PENDING_VERIFY"
    /\ \/ /\ ota_state[running] # "PENDING_VERIFY"
          /\ flash' = [flash EXCEPT ![slot] = <<>>]
       \/ /\ ~ok
          /\ UNCHANGED flash
    /\ open_handles' = IF ok THEN open_handles + 1 ELSE open_handles
    /\ UNCHANGED <<ota_state, boot, running>>

\* Programs the bytes after those already written through the handle.
esp_ota_write(slot, data, ok) ==
    /\ flash' = IF ok THEN [flash EXCEPT ![slot] = @ \o data] ELSE flash
    /\ UNCHANGED <<ota_state, boot, running, open_handles>>

\* esp_ota_end and esp_ota_abort give the handle back whatever they report.
HandleFreed == open_handles' = open_handles - 1

\* An entry that the bootloader may select.
Usable(states, slot) == states[slot] \in {"NEW", "PENDING_VERIFY", "VALID"}

\* The OTA data has two entries: the new one replaces the one that is not
\* selected, so that a third slot loses its state.
OtaDataWithNew(slot) ==
    [s \in Slots |-> IF s = slot THEN "NEW"
                     ELSE IF s = boot THEN ota_state[s] ELSE "UNDEFINED"]

\* Verifies the image again, then writes an entry that selects it.
esp_ota_set_boot_partition(slot) ==
    /\ ImageOk(flash[slot])
    /\ ota_state' = OtaDataWithNew(slot)
    /\ boot' = slot
    /\ UNCHANGED <<flash, running>>

\* An image other than the selected one that a rollback would start.
esp_ota_check_rollback_is_possible ==
    /\ Usable(ota_state, boot)
    /\ \E s \in Slots \ {boot} : Usable(ota_state, s) /\ ImageOk(flash[s])

-----------------------------------------------------------------------------
(***************************************************************************)
(* The bootloader, run on the OTA data states.  An image that was on trial *)
(* and did not confirm itself is given up, the selected image is put on    *)
(* trial if it is new, and an image that does not verify is passed over    *)
(* for one that does.                                                      *)
(***************************************************************************)
\* Mutant: a reset does not end a trial.
TrialsGoOn(states) == states

GiveUpTrials(states) ==
    [s \in Slots |-> IF states[s] = "PENDING_VERIFY" THEN "ABORTED" ELSE states[s]]

Selected(states) ==
    IF Usable(states, boot) THEN boot
    ELSE IF \E s \in Slots : Usable(states, s)
         THEN CHOOSE s \in Slots : Usable(states, s)
         ELSE 0

Intact == {s \in Slots : ImageOk(flash[s])}

\* When the bootloader tries slot s: first the selected slot, then those below
\* it, the nearest first, then those above.
Turn(selected, s) == IF s <= selected THEN selected - s ELSE s

BootTarget(states) ==
    CHOOSE s \in Intact : \A t \in Intact : Turn(Selected(states), s) <= Turn(Selected(states), t)

\* The image that would run if the device were reset now.
NextBootImage == flash[BootTarget(GiveUpTrials(ota_state))]

esp_restart_from(states) ==
    LET tried == GiveUpTrials(states)
        sel   == Selected(tried)
    IN  /\ ota_state' = [tried EXCEPT ![sel] = IF @ = "NEW" THEN "PENDING_VERIFY" ELSE @]
        /\ boot' = sel
        /\ running' = BootTarget(tried)
        /\ open_handles' = 0
        /\ UNCHANGED flash

esp_restart == esp_restart_from(ota_state)

\* Confirms, or rejects, the image of the selected OTA data entry.
esp_ota_mark_app_valid_cancel_rollback ==
    /\ ota_state' = [ota_state EXCEPT ![boot] = "VALID"]
    /\ UNCHANGED <<flash, boot, running, open_handles>>

esp_ota_mark_app_invalid_rollback_and_reboot ==
    /\ esp_ota_check_rollback_is_possible
    /\ esp_restart_from([ota_state EXCEPT ![boot] = "INVALID"])
=============================================================================
