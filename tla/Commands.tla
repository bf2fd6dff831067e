------------------------------ MODULE Commands ------------------------------
(***************************************************************************)
(* commands.c, past its authentication gate, with the application's health *)
(* task of main.c and the two confirmation calls of ota_link.c.            *)
(*                                                                         *)
(* The link task runs one command at a time.  REBOOT and ROLLBACK are      *)
(* acknowledged first and carried out 100 ms later; until then the task    *)
(* sleeps and takes no other command, while the health task still runs.    *)
(***************************************************************************)
EXTENDS OtaManager

VARIABLES
    delayed,         \* the command the link task carries out after its sleep
    health           \* where the health task is since this boot

Delayed == {"NONE", "REBOOT", "ROLLBACK"}

\* WAITING: in its 5 s delay.  CHECKED: has read PENDING_VERIFY, not acted yet.
\* FAILED: has logged that it could not confirm the image, and ended, or was not
\* created: app_main does not look at what xTaskCreate returns.
HealthStates == {"WAITING", "CHECKED", "DONE", "FAILED"}

ramVars == <<s_ota, delayed, health>>
deviceVars == <<ramVars, espVars>>

DeviceTypeOK == OtaTypeOK /\ delayed \in Delayed /\ health \in HealthStates

DeviceInit == OtaInit /\ delayed = "NONE" /\ health = "WAITING"

\* What a reset does to the program: its RAM is initialised again.
RamReset == s_ota' = ZeroOta /\ delayed' = "NONE" /\ health' = "WAITING"

-----------------------------------------------------------------------------
(***************************************************************************)
(* Command handlers.  "empty" is whether the unwrapped payload has length  *)
(* zero, as these commands require.                                        *)
(***************************************************************************)
CmdBegin(p, ret) == ota_manager_begin(p, ret) /\ UNCHANGED <<delayed, health>>

CmdData(p, ret) == ota_manager_write_data(p, ret) /\ UNCHANGED <<delayed, health>>

CmdEnd(empty, ret) ==
    /\ IF empty THEN ota_manager_end(ret)
                ELSE ret = "INVALID_LENGTH" /\ UNCHANGED otaVars
    /\ UNCHANGED <<delayed, health>>

CmdAbort(empty, ret) ==
    /\ IF empty THEN ota_manager_abort(ret)
                ELSE ret = "INVALID_LENGTH" /\ UNCHANGED otaVars
    /\ UNCHANGED <<delayed, health>>

RebootVerdict(empty) ==
    IF ~empty THEN "INVALID_LENGTH"
    ELSE IF s_ota.active THEN "BUSY"
    ELSE "OK"

CmdReboot(empty, ret) ==
    /\ ret = RebootVerdict(empty)
    /\ delayed' = IF ret = "OK" THEN "REBOOT" ELSE delayed
    /\ UNCHANGED <<s_ota, health, espVars>>

\* Mutant: ROLLBACK is acknowledged without asking ESP-IDF.
RollbackUnchecked(empty) == RebootVerdict(empty)

RollbackVerdict(empty) ==
    IF RebootVerdict(empty) # "OK" THEN RebootVerdict(empty)
    ELSE IF ~esp_ota_check_rollback_is_possible THEN "ROLLBACK_NOT_AVAILABLE"
    ELSE "OK"

CmdRollback(empty, ret) ==
    /\ ret = RollbackVerdict(empty)
    /\ delayed' = IF ret = "OK" THEN "ROLLBACK" ELSE delayed
    /\ UNCHANGED <<s_ota, health, espVars>>

-----------------------------------------------------------------------------
\* vTaskDelay(100 ms) has passed.
RebootNow ==
    /\ delayed = "REBOOT"
    /\ esp_restart
    /\ RamReset

RollbackNow ==
    /\ delayed = "ROLLBACK"
    /\ esp_ota_mark_app_invalid_rollback_and_reboot
    /\ RamReset

\* ESP-IDF refuses the rollback after all, or cannot write the OTA data: the
\* call returns, its error is dropped, and the link task goes back to its loop.
RollbackFails ==
    /\ delayed = "ROLLBACK"
    /\ delayed' = "NONE"
    /\ UNCHANGED <<s_ota, health, espVars>>

-----------------------------------------------------------------------------
(***************************************************************************)
(* app_health_task, on another core or a lower priority than the link task.*)
(* ota_link_mark_app_valid reads the running image's state and confirms    *)
(* the image in a separate call.                                           *)
(***************************************************************************)
\* Mutant: the state of the running image is not looked at.
AlwaysValidate == TRUE

NeedsValidation == ota_state[running] \in {"NEW", "PENDING_VERIFY"}

\* Mutant: a task that gives up on an image that needs validation.
HealthCheckInverted ==
    /\ health = "WAITING"
    /\ health' = IF NeedsValidation THEN "DONE" ELSE "CHECKED"
    /\ UNCHANGED <<s_ota, delayed, espVars>>

HealthCheck ==
    /\ health = "WAITING"
    /\ health' = IF NeedsValidation THEN "CHECKED" ELSE "DONE"
    /\ UNCHANGED <<s_ota, delayed, espVars>>

HealthConfirm ==
    /\ health = "CHECKED"
    /\ health' = "DONE"
    /\ esp_ota_mark_app_valid_cancel_rollback
    /\ UNCHANGED <<s_ota, delayed>>

\* Either call of ota_link_mark_app_valid returns a flash error; the task does
\* not try again.  A task that was never created takes this step and no other.
HealthFails ==
    /\ health \in {"WAITING", "CHECKED"}
    /\ health' = "FAILED"
    /\ UNCHANGED <<s_ota, delayed, espVars>>

\* A build whose health check fails.  If the rollback is refused or fails,
\* ESP_ERROR_CHECK aborts the program, which also resets the chip.
HealthReject ==
    /\ health = "WAITING"
    /\ esp_ota_mark_app_invalid_rollback_and_reboot \/ esp_restart
    /\ RamReset

PowerLoss == esp_restart /\ RamReset

-----------------------------------------------------------------------------
\* While the running image is on trial and the OTA data still has a confirmed
\* image, a reset at any moment starts that one, and it is intact.
FallbackExists ==
    /\ ota_state[running] = "PENDING_VERIFY"
    /\ \E s \in Slots : ota_state[s] = "VALID"
    => LET target == BootTarget(GiveUpTrials(ota_state)) IN
         /\ target # running
         /\ ota_state[target] = "VALID"
         /\ ImageOk(flash[target])

\* A ROLLBACK that was acknowledged can still be carried out when the link task
\* wakes, whatever the health task did during the 100 ms.
AckedRollbackPossible == delayed = "ROLLBACK" => esp_ota_check_rollback_is_possible

\* ota_link_mark_app_valid reads the state of the running image and ESP-IDF
\* confirms the selected one: when it acts, they are still the same image.
ConfirmsWhatRuns ==
    health = "CHECKED" => boot = running /\ ota_state[boot] = "PENDING_VERIFY"
=============================================================================
