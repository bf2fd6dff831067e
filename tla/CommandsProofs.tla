--------------------------- MODULE CommandsProofs ---------------------------
(***************************************************************************)
(* What the device preserves whoever sends it commands: the specifications *)
(* of the device alone and of the device on the link both take its steps.  *)
(***************************************************************************)
EXTENDS Commands, OtaManagerProofs

(***************************************************************************)
(* Every step of the device: a command while the link task is free, the    *)
(* delayed half of one, the health task, a reset.                          *)
(***************************************************************************)
BeginStep ==
    \E p, ret : p.firmware_size \in Nat /\ p.sha256 \in Byte /\ CmdBegin(p, ret)
DataStep ==
    \E p, ret : p.offset \in Nat /\ p.data \in Seq(Byte) /\ CmdData(p, ret)
EndStep == \E empty \in BOOLEAN : \E ret : CmdEnd(empty, ret)
AbortStep == \E empty \in BOOLEAN : \E ret : CmdAbort(empty, ret)
RestartStep ==
    \E empty \in BOOLEAN : \E ret : CmdReboot(empty, ret) \/ CmdRollback(empty, ret)

CommandStep ==
    /\ delayed = "NONE"
    /\ BeginStep \/ DataStep \/ EndStep \/ AbortStep \/ RestartStep

ResetStep ==
    /\ esp_restart \/ esp_ota_mark_app_invalid_rollback_and_reboot
    /\ RamReset

DeviceStep ==
    CommandStep \/ ResetStep \/ RollbackFails \/ HealthCheck \/ HealthConfirm \/ HealthFails

\* The resets of Commands are reset steps.
LEMMA ResetSteps ==
    ASSUME RebootNow \/ RollbackNow \/ HealthReject \/ PowerLoss
    PROVE  ResetStep
  BY DEF RebootNow, RollbackNow, HealthReject, PowerLoss, ResetStep

DeviceInv ==
    /\ OtaInv
    /\ delayed \in Delayed
    /\ health \in HealthStates
    /\ ConfirmsWhatRuns
    /\ AckedRollbackPossible

\* The device leaves the bench with the invariant.
LEMMA DeviceInitInv == DeviceInit => DeviceInv
  BY OtaInitInv DEF DeviceInit, DeviceInv, ConfirmsWhatRuns, AckedRollbackPossible, Delayed,
                    HealthStates

\* A command that leaves the OTA data and the running slot alone.
LEMMA CommandKeeps ==
    ASSUME DeviceInv, OtaInv', delayed = "NONE", UNCHANGED <<delayed, health>>,
           UNCHANGED <<ota_state, boot, running>>
    PROVE  DeviceInv'
  BY DEF DeviceInv, ConfirmsWhatRuns, AckedRollbackPossible

\* Every command keeps the invariant.
LEMMA CommandStepInv == DeviceInv /\ CommandStep => DeviceInv'
  <1>. SUFFICES ASSUME DeviceInv, CommandStep PROVE DeviceInv'
    OBVIOUS
  <1>1. OtaInv /\ delayed = "NONE"
    BY DEF DeviceInv, CommandStep
  <1>2. CASE BeginStep
    <2>1. PICK p, ret : p.firmware_size \in Nat /\ p.sha256 \in Byte /\ CmdBegin(p, ret)
      BY <1>2 DEF BeginStep
    <2>2. ota_manager_begin(p, ret) /\ UNCHANGED <<delayed, health>>
      BY <2>1 DEF CmdBegin
    <2>3. OtaInv' /\ UNCHANGED <<ota_state, boot, running>>
      BY <1>1, <2>1, <2>2, OtaBeginInv
    <2>. QED BY <1>1, <2>2, <2>3, CommandKeeps
  <1>3. CASE DataStep
    <2>1. PICK p, ret : p.offset \in Nat /\ p.data \in Seq(Byte) /\ CmdData(p, ret)
      BY <1>3 DEF DataStep
    <2>2. ota_manager_write_data(p, ret) /\ UNCHANGED <<delayed, health>>
      BY <2>1 DEF CmdData
    <2>3. OtaInv' /\ UNCHANGED <<ota_state, boot, running>>
      BY <1>1, <2>1, <2>2, OtaDataInv
    <2>. QED BY <1>1, <2>2, <2>3, CommandKeeps
  <1>4. CASE EndStep
    <2>1. PICK empty, ret : CmdEnd(empty, ret)
      BY <1>4 DEF EndStep
    <2>2. UNCHANGED otaVars \/ ota_manager_end(ret)
      BY <2>1 DEF CmdEnd
    <2>3. UNCHANGED <<delayed, health>>
      BY <2>1 DEF CmdEnd
    <2>4. CASE UNCHANGED otaVars
      BY <1>1, <2>3, <2>4, OtaStutter, CommandKeeps DEF otaVars, espVars
    <2>5. CASE ota_manager_end(ret)
      <3>1. /\ OtaInv' /\ running' = running
            /\ \/ UNCHANGED <<ota_state, boot>>
               \/ ota_state[running] # "PENDING_VERIFY"
        BY <1>1, <2>5, OtaEndInv DEF otaVars, espVars
      <3>2. CASE UNCHANGED <<ota_state, boot>>
        BY <1>1, <2>3, <3>1, <3>2, CommandKeeps
      <3>3. CASE ota_state[running] # "PENDING_VERIFY"
        BY <1>1, <2>3, <3>1, <3>3 DEF DeviceInv, ConfirmsWhatRuns, AckedRollbackPossible
      <3>. QED BY <3>1, <3>2, <3>3
    <2>. QED BY <2>2, <2>4, <2>5
  <1>5. CASE AbortStep
    <2>1. PICK empty, ret : CmdAbort(empty, ret)
      BY <1>5 DEF AbortStep
    <2>2. UNCHANGED otaVars \/ ota_manager_abort(ret)
      BY <2>1 DEF CmdAbort
    <2>3. UNCHANGED <<delayed, health>>
      BY <2>1 DEF CmdAbort
    <2>4. OtaInv' /\ UNCHANGED <<ota_state, boot, running>>
      BY <1>1, <2>2, OtaStutter, OtaAbortInv DEF otaVars, espVars
    <2>. QED BY <1>1, <2>3, <2>4, CommandKeeps
  <1>6. CASE RestartStep
    <2>1. /\ UNCHANGED <<otaVars, health>>
          /\ delayed' \in Delayed
          /\ delayed' = "ROLLBACK" => esp_ota_check_rollback_is_possible
      BY <1>1, <1>6 DEF RestartStep, CmdReboot, CmdRollback, RollbackVerdict, RebootVerdict,
                        otaVars, espVars, Delayed
    <2>2. OtaInv'
      BY <1>1, <2>1, OtaStutter
    <2>. QED
      BY <2>1, <2>2 DEF DeviceInv, ConfirmsWhatRuns, AckedRollbackPossible, otaVars, espVars,
                        esp_ota_check_rollback_is_possible, Usable
  <1>. QED BY <1>2, <1>3, <1>4, <1>5, <1>6 DEF CommandStep

\* The two steps of ota_link_mark_app_valid keep the invariant, as does its
\* failure at either.
LEMMA HealthStepInv ==
    ASSUME DeviceInv, HealthCheck \/ HealthConfirm \/ HealthFails
    PROVE  DeviceInv'
  <1>1. OtaInv /\ EspTypeOK
    BY DEF DeviceInv, OtaInv, OtaTypeOK
  <1>2. CASE HealthCheck \/ HealthFails
    <2>1. UNCHANGED <<otaVars, delayed>> /\ health' \in HealthStates
      BY <1>2 DEF HealthCheck, HealthFails, otaVars, espVars, HealthStates
    <2>2. OtaInv'
      BY <1>1, <2>1, OtaStutter
    <2>3. AckedRollbackPossible'
      BY <2>1 DEF DeviceInv, AckedRollbackPossible, Usable, otaVars, espVars,
                  esp_ota_check_rollback_is_possible
    <2>4. ConfirmsWhatRuns'
      BY <1>1, <1>2, <2>1
         DEF OtaInv, ConfirmsWhatRuns, TrialDiscipline, HealthCheck, HealthFails,
             NeedsValidation, EspTypeOK, otaVars, espVars
    <2>. QED BY <2>1, <2>2, <2>3, <2>4 DEF DeviceInv
  <1>3. CASE HealthConfirm
    <2>1. /\ esp_ota_mark_app_valid_cancel_rollback
          /\ health' = "DONE" /\ UNCHANGED <<s_ota, delayed>>
      BY <1>3 DEF HealthConfirm
    <2>2. OtaInv' /\ \A s \in Slots : Usable(ota_state, s) => Usable(ota_state', s)
      BY <1>1, <2>1, OtaConfirmInv
    <2>3. ConfirmsWhatRuns' /\ AckedRollbackPossible'
      BY <1>1, <2>1, <2>2
         DEF DeviceInv, ConfirmsWhatRuns, AckedRollbackPossible, EspTypeOK,
             esp_ota_check_rollback_is_possible, esp_ota_mark_app_valid_cancel_rollback
    <2>. QED BY <2>1, <2>2, <2>3 DEF DeviceInv, HealthStates
  <1>. QED BY <1>2, <1>3

\* Every step of the device, and stuttering, keeps the invariant.
LEMMA DeviceStepInv == DeviceInv /\ (DeviceStep \/ UNCHANGED deviceVars) => DeviceInv'
  <1>. SUFFICES ASSUME DeviceInv, DeviceStep \/ UNCHANGED deviceVars PROVE DeviceInv'
    OBVIOUS
  <1>1. CASE CommandStep
    BY <1>1, CommandStepInv
  <1>2. CASE ResetStep
    <2>1. OtaInv'
      BY <1>2, OtaResetInv DEF DeviceInv, ResetStep, RamReset
    <2>. QED BY <1>2, <2>1 DEF ResetStep, RamReset, DeviceInv, ConfirmsWhatRuns,
                               AckedRollbackPossible, Delayed, HealthStates
  <1>3. CASE HealthCheck \/ HealthConfirm \/ HealthFails
    BY <1>3, HealthStepInv
  <1>4. CASE RollbackFails \/ UNCHANGED deviceVars
    <2>1. UNCHANGED <<otaVars, health>> /\ delayed' \in {delayed, "NONE"}
      BY <1>4 DEF RollbackFails, deviceVars, ramVars, otaVars, espVars
    <2>2. OtaInv'
      BY <2>1, OtaStutter DEF DeviceInv
    <2>. QED BY <2>1, <2>2 DEF DeviceInv, ConfirmsWhatRuns, AckedRollbackPossible, Delayed,
                               otaVars, espVars, esp_ota_check_rollback_is_possible, Usable
  <1>. QED BY <1>1, <1>2, <1>3, <1>4 DEF DeviceStep
-----------------------------------------------------------------------------
(***************************************************************************)
(* The image to fall back to.  A confirmed image is lost only by the update*)
(* that overwrites it, and that update never runs during a trial; the OTA  *)
(* data has two entries, so one other image at most is usable; and when    *)
(* the bootloader had to pass over the selected image, the slot it took    *)
(* instead leaves the next update where the last one was.                  *)
(***************************************************************************)
\* A confirmed image is intact unless it is in the slot being rewritten, and it
\* is intact in any case while the running image is on trial.
ConfirmedKept ==
    \A s \in Slots : ota_state[s] = "VALID" /\ s \notin Intact =>
      /\ s = esp_ota_get_next_update_partition
      /\ ota_state[running] # "PENDING_VERIFY"

\* One image at most is usable besides the selected one, none without it.
OneFallback ==
    /\ \A s, t \in Slots \ {boot} : Usable(ota_state, s) /\ Usable(ota_state, t) => s = t
    /\ \A s \in Slots : Usable(ota_state, s) => Usable(ota_state, boot)

\* A selected image that does not run was passed over by the bootloader.
SelectedPassedOver ==
    boot # running =>
      /\ ota_state[boot] = "VALID" =>
           /\ boot = esp_ota_get_next_update_partition
           /\ boot = 0 => Intact \subseteq {0, running}
      /\ ota_state[boot] = "PENDING_VERIFY" /\ boot # 0 /\ ota_state[0] = "VALID" =>
           running # NSlots - 1

FallbackInv == ConfirmedKept /\ OneFallback /\ SelectedPassedOver

\* Initially the only entry is that of the running image.
LEMMA FallbackInit == DeviceInit => FallbackInv
  <1>. SUFFICES ASSUME DeviceInit PROVE FallbackInv
    OBVIOUS
  <1>1. 0 \in Slots
    BY NSlotsAssumption DEF Slots
  <1>. QED
    BY <1>1, FactoryAssumption
       DEF DeviceInit, OtaInit, EspInit, FallbackInv, ConfirmedKept, OneFallback,
           SelectedPassedOver, Intact, Usable

\* A step that keeps the OTA data and writes at most the next slot, and that
\* only outside a trial, keeps the image to fall back to.
LEMMA FallbackFlash ==
    ASSUME FallbackInv, EspTypeOK, UNCHANGED <<ota_state, boot, running>>,
           \/ UNCHANGED flash
           \/ /\ ota_state[running] # "PENDING_VERIFY"
              /\ \A s \in Slots \ {esp_ota_get_next_update_partition} : flash'[s] = flash[s]
    PROVE  FallbackInv'
  <1>1. esp_ota_get_next_update_partition' = esp_ota_get_next_update_partition
    BY DEF esp_ota_get_next_update_partition
  <1>2. \A s \in Slots \ {esp_ota_get_next_update_partition} : s \in Intact <=> s \in Intact'
    BY DEF Intact
  <1>3. ConfirmedKept'
    BY <1>1, <1>2 DEF FallbackInv, ConfirmedKept, Intact
  <1>4. OneFallback'
    BY DEF FallbackInv, OneFallback, Usable
  <1>5. SelectedPassedOver'
    BY <1>1, <1>2 DEF FallbackInv, SelectedPassedOver, EspTypeOK, Intact
  <1>. QED BY <1>3, <1>4, <1>5 DEF FallbackInv

\* OTA_END leaves two entries, the new image's and that of the image selected
\* before.
LEMMA FallbackEnd ==
    ASSUME OtaInv, FallbackInv, NEW ret, ota_manager_end(ret)
    PROVE  FallbackInv'
  <1>. DEFINE slot == s_ota.partition
  <1>1. EspTypeOK
    BY DEF OtaInv, OtaTypeOK
  <1>2. UNCHANGED <<flash, running>>
    BY OtaEndInv
  <1>3. CASE UNCHANGED <<ota_state, boot>>
    BY <1>1, <1>2, <1>3, FallbackFlash
  <1>4. CASE /\ slot = esp_ota_get_next_update_partition
             /\ slot \in Slots \ {running}
             /\ ota_state[running] # "PENDING_VERIFY"
             /\ ota_state' = OtaDataWithNew(slot)
             /\ boot' = slot
    <2>1. \A s \in Slots : /\ s # slot /\ s # boot => ota_state'[s] = "UNDEFINED"
                           /\ s # slot /\ s = boot => ota_state'[s] = ota_state[s]
                           /\ s = slot => ota_state'[s] = "NEW"
      BY <1>4 DEF OtaDataWithNew
    <2>2. ConfirmedKept'
      <3>1. esp_ota_get_next_update_partition' = esp_ota_get_next_update_partition
        BY <1>2 DEF esp_ota_get_next_update_partition
      <3>2. Intact' = Intact
        BY <1>2 DEF Intact
      <3>3. \A s \in Slots : ota_state'[s] = "VALID" => ota_state[s] = "VALID"
        BY <2>1
      <3>4. ota_state'[running] # "PENDING_VERIFY"
        BY <1>1, <1>4, <2>1 DEF EspTypeOK
      <3>. QED BY <1>2, <3>1, <3>2, <3>3, <3>4 DEF FallbackInv, ConfirmedKept
    <2>3. OneFallback'
      BY <1>4, <2>1 DEF OneFallback, Usable
    <2>4. SelectedPassedOver'
      BY <1>4, <2>1 DEF SelectedPassedOver
    <2>. QED BY <2>2, <2>3, <2>4 DEF FallbackInv
  <1>. QED BY <1>3, <1>4, OtaEndInv DEF otaVars, espVars

\* Confirming the running image adds no usable entry.
LEMMA FallbackConfirm ==
    ASSUME DeviceInv, FallbackInv, HealthConfirm
    PROVE  FallbackInv'
  <1>1. /\ EspTypeOK /\ RunningSlotIntact
        /\ boot = running /\ ota_state[boot] = "PENDING_VERIFY"
    BY DEF DeviceInv, OtaInv, OtaTypeOK, ConfirmsWhatRuns, HealthConfirm
  <1>2. /\ ota_state' = [ota_state EXCEPT ![boot] = "VALID"]
        /\ UNCHANGED <<flash, boot, running>>
    BY DEF HealthConfirm, esp_ota_mark_app_valid_cancel_rollback
  <1>3. \A s \in Slots : Usable(ota_state', s) <=> Usable(ota_state, s)
    BY <1>1, <1>2 DEF EspTypeOK, Usable
  <1>4. OneFallback'
    BY <1>2, <1>3 DEF FallbackInv, OneFallback, Usable
  <1>5. ConfirmedKept'
    <2>1. Intact' = Intact /\ boot \in Intact
      BY <1>1, <1>2 DEF Intact, EspTypeOK, RunningSlotIntact
    <2>. QED BY <1>1, <1>2, <2>1 DEF FallbackInv, ConfirmedKept, EspTypeOK
  <1>6. SelectedPassedOver'
    BY <1>1, <1>2 DEF SelectedPassedOver
  <1>. QED BY <1>4, <1>5, <1>6 DEF FallbackInv

\* A reset: what the bootloader selects and starts, case by case.
LEMMA FallbackRestart ==
    ASSUME OtaInv, FallbackInv, NEW states,
           \/ states = ota_state
           \/ /\ states = [ota_state EXCEPT ![boot] = "INVALID"]
              /\ esp_ota_check_rollback_is_possible,
           esp_restart_from(states)
    PROVE  FallbackInv'
  <1>. DEFINE tried == GiveUpTrials(states)
              sel   == Selected(tried)
              nextp == esp_ota_get_next_update_partition
  <1>1. EspTypeOK /\ RunningSlotIntact /\ boot \in Slots /\ running \in Slots
    BY DEF OtaInv, OtaTypeOK, EspTypeOK
  <1>2. /\ tried \in [Slots -> ImageStates]
        /\ \A s \in Slots : /\ tried[s] # "PENDING_VERIFY"
                            /\ tried[s] = "VALID" => ota_state[s] = "VALID"
                            /\ tried[s] = "NEW" => ota_state[s] = "NEW"
                            /\ s # boot /\ ota_state[s] = "VALID" => tried[s] = "VALID"
    BY <1>1, RestartStates DEF GiveUpTrials, ImageStates, EspTypeOK
  <1>3. \A s \in Slots : tried[s] = "NEW" =>
          s = boot /\ s # running /\ s = nextp
    BY <1>2 DEF OtaInv, TrialDiscipline
  <1>4. /\ ota_state' = [tried EXCEPT ![sel] = IF @ = "NEW" THEN "PENDING_VERIFY" ELSE @]
        /\ boot' = sel
        /\ running' = BootTarget(tried)
        /\ flash' = flash
    BY DEF esp_restart_from
  <1>5. sel \in Slots /\ BootTarget(tried) \in Intact
    BY <1>1, SelectedInSlots, BootTargetFirst
  <1>6. \A t \in Intact : Turn(sel, BootTarget(tried)) <= Turn(sel, t)
    BY <1>1, BootTargetFirst
  <1>7. sel \in Intact => BootTarget(tried) = sel
    BY <1>1, SelectedFirst
  <1>8. Intact' = Intact /\ Intact \subseteq Slots /\ running \in Intact
    BY <1>1, <1>4 DEF Intact, RunningSlotIntact
  <1>9. \A s \in Slots : Usable(tried, s) => Usable(ota_state, s) /\ tried[s] \in {"NEW", "VALID"}
    BY <1>2 DEF Usable
  <1>10. \A s \in Slots : /\ Usable(ota_state', s) <=> Usable(tried, s)
                          /\ ota_state'[s] = "VALID" <=> tried[s] = "VALID"
                          /\ ota_state'[s] # "NEW"
                          /\ ota_state'[s] = "PENDING_VERIFY" => tried[s] = "NEW" /\ s = sel
    <2>1. \A s \in Slots : tried[s] = "NEW" => s = sel
      BY <1>3 DEF Selected, Usable
    <2>. HIDE DEF tried, sel
    <2>. QED BY <1>2, <1>4, <1>5, <2>1 DEF Usable
  \* Which slot is selected.
  <1>11. \/ sel = boot /\ Usable(tried, boot)
         \/ sel # boot /\ Usable(tried, sel) /\ tried[sel] = "VALID" /\ ~Usable(tried, boot)
         \/ \A s \in Slots : ~Usable(tried, s)
    <2>1. CASE Usable(tried, boot)
      BY <2>1 DEF Selected
    <2>2. CASE ~Usable(tried, boot) /\ \E s \in Slots : Usable(tried, s)
      <3>1. sel = CHOOSE s \in Slots : Usable(tried, s)
        BY <2>2 DEF Selected
      <3>2. Usable(tried, sel)
        BY <2>2, <3>1, Zenon
      <3>. HIDE DEF tried, sel
      <3>. QED BY <1>3, <1>5, <1>9, <2>2, <3>2
    <2>. QED BY <2>1, <2>2
  <1>. HIDE DEF tried, sel
  \* One usable image besides the selected one.
  <1>12. OneFallback'
    <2>1. \A s \in Slots : Usable(tried, s) => Usable(tried, sel)
      BY <1>11
    <2>2. \A s, t \in Slots \ {sel} : Usable(tried, s) /\ Usable(tried, t) => s = t
      BY <1>1, <1>5, <1>9, <1>11 DEF FallbackInv, OneFallback
    <2>. QED BY <1>4, <1>10, <2>1, <2>2 DEF OneFallback, Usable
  \* The slot just above the running one is followed by it in the bootloader's order.
  <1>13. ASSUME sel = nextp, sel # 0, sel \notin Intact
         PROVE  BootTarget(tried) = running
    <2>0. sel \in Slots /\ BootTarget(tried) \in Slots /\ running \in Slots
      BY <1>1, <1>5, <1>8
    <2>1. sel = running + 1
      BY <1>13, <2>0, NSlotsAssumption DEF esp_ota_get_next_update_partition, NoPartition, Slots
    <2>2. Turn(sel, BootTarget(tried)) <= Turn(sel, running) /\ BootTarget(tried) # sel
      BY <1>5, <1>6, <1>8, <1>13
    <2>. QED BY <1>13, <2>0, <2>1, <2>2, NSlotsAssumption DEF Turn, Slots
  \* Nothing moves if the running image starts again under a confirmed entry.
  <1>14. ASSUME BootTarget(tried) = running, tried[sel] = "VALID", sel = nextp,
                sel = 0 => Intact \subseteq {0, running}
         PROVE  ConfirmedKept' /\ SelectedPassedOver'
    <2>1. nextp' = nextp /\ running' = running
      BY <1>4, <1>14 DEF esp_ota_get_next_update_partition
    <2>2. ConfirmedKept'
      BY <1>1, <1>2, <1>8, <1>10, <1>14, <2>1 DEF FallbackInv, ConfirmedKept
    <2>3. ota_state'[boot'] = "VALID"
      BY <1>4, <1>5, <1>10, <1>14
    <2>4. SelectedPassedOver'
      BY <1>4, <1>8, <1>14, <2>1, <2>3 DEF SelectedPassedOver
    <2>. QED BY <2>2, <2>4
  \* The selected image is intact and runs.
  <1>15. CASE sel \in Intact
    <2>1. running' = sel /\ boot' = sel
      BY <1>4, <1>7, <1>15
    <2>2. SelectedPassedOver'
      BY <2>1 DEF SelectedPassedOver
    <2>3. ASSUME NEW s \in Slots, ota_state'[s] = "VALID", s \notin Intact
          PROVE  s = nextp' /\ ota_state'[running'] # "PENDING_VERIFY"
      <3>1. /\ ota_state[s] = "VALID" /\ Usable(tried, s) /\ tried[s] = "VALID"
            /\ s = nextp /\ s # sel
        BY <1>2, <1>8, <1>10, <1>15, <2>3 DEF FallbackInv, ConfirmedKept, Usable
      <3>2. sel = boot
        BY <1>1, <1>5, <1>9, <1>11, <3>1 DEF FallbackInv, OneFallback
      <3>3. tried[boot] = "VALID"
        BY <1>1, <1>3, <1>9, <1>11, <3>1, <3>2
      <3>4. boot = running
        BY <1>1, <1>2, <3>1, <3>2, <3>3 DEF FallbackInv, SelectedPassedOver
      <3>5. nextp' = nextp
        BY <2>1, <3>2, <3>4 DEF esp_ota_get_next_update_partition
      <3>. QED BY <1>1, <1>10, <2>1, <3>1, <3>2, <3>3, <3>4, <3>5
    <2>4. ConfirmedKept'
      BY <1>8, <2>3 DEF ConfirmedKept
    <2>. QED BY <1>12, <2>2, <2>4 DEF FallbackInv
  \* A new image is selected and broken: the last update destroyed it.
  <1>16. CASE sel \notin Intact /\ sel = boot /\ tried[boot] = "NEW"
    <2>1. boot = nextp /\ ota_state[boot] = "NEW"
      BY <1>1, <1>2, <1>3, <1>16
    <2>2. \A s \in Slots : ota_state'[s] = "VALID" => s \in Intact
      BY <1>2, <1>10, <2>1 DEF FallbackInv, ConfirmedKept
    <2>3. ConfirmedKept'
      BY <1>8, <2>2 DEF ConfirmedKept
    <2>4. ota_state'[boot'] # "VALID"
      BY <1>1, <1>4, <1>10, <1>16
    <2>5. ASSUME sel # 0, ota_state'[0] = "VALID"
          PROVE  BootTarget(tried) # NSlots - 1
      <3>1. 0 \in Intact
        BY <2>2, <2>5, NSlotsAssumption DEF Slots
      <3>2. Turn(sel, BootTarget(tried)) <= Turn(sel, 0) /\ BootTarget(tried) # sel
        BY <1>5, <1>6, <1>16, <3>1
      <3>. QED BY <1>5, <2>5, <3>2, NSlotsAssumption DEF Turn, Slots
    <2>6. SelectedPassedOver'
      BY <1>4, <2>4, <2>5 DEF SelectedPassedOver
    <2>. QED BY <1>12, <2>3, <2>6 DEF FallbackInv
  \* The selected image is confirmed and broken: an update is overwriting it.
  <1>17. CASE sel \notin Intact /\ sel = boot /\ tried[boot] = "VALID"
    <2>1. ota_state[boot] = "VALID" /\ boot = nextp
      BY <1>1, <1>2, <1>17 DEF FallbackInv, ConfirmedKept
    <2>2. boot # running
      BY <1>8, <1>17
    <2>3. boot = 0 => Intact \subseteq {0, running}
      BY <2>1, <2>2 DEF FallbackInv, SelectedPassedOver
    <2>4. BootTarget(tried) = running
      BY <1>5, <1>13, <1>17, <2>1, <2>3
    <2>5. ConfirmedKept' /\ SelectedPassedOver'
      BY <1>14, <1>17, <2>1, <2>3, <2>4
    <2>. QED BY <1>12, <2>5 DEF FallbackInv
  \* The image to fall back to is broken: the one selected before was passed over.
  <1>18. CASE sel \notin Intact /\ sel # boot /\ tried[sel] = "VALID" /\ ~Usable(tried, boot)
    <2>1. ota_state[sel] = "VALID" /\ sel = nextp /\ ota_state[running] # "PENDING_VERIFY"
      BY <1>2, <1>5, <1>18 DEF FallbackInv, ConfirmedKept
    <2>2. Usable(ota_state, sel) /\ Usable(ota_state, boot)
      BY <1>5, <2>1 DEF FallbackInv, OneFallback, Usable
    <2>3. ~esp_ota_check_rollback_is_possible
      <3>1. \A s \in Slots \ {boot} : Usable(ota_state, s) => s = sel
        BY <1>5, <1>18, <2>2 DEF FallbackInv, OneFallback
      <3>. QED BY <1>5, <1>18, <3>1 DEF esp_ota_check_rollback_is_possible, Intact
    <2>4. tried = GiveUpTrials(ota_state)
      BY <2>3 DEF tried
    <2>5. ota_state[boot] = "PENDING_VERIFY"
      BY <1>1, <1>18, <2>2, <2>4 DEF GiveUpTrials, Usable
    <2>6. sel # 0
      <3>1. SUFFICES ASSUME sel = 0 PROVE FALSE
        OBVIOUS
      <3>2. running # NSlots - 1
        BY <1>18, <2>1, <2>5, <3>1 DEF FallbackInv, SelectedPassedOver
      <3>. QED BY <1>1, <2>1, <3>1, <3>2, NSlotsAssumption
               DEF esp_ota_get_next_update_partition, NoPartition, Slots
    <2>7. BootTarget(tried) = running
      BY <1>13, <1>18, <2>1, <2>6
    <2>8. ConfirmedKept' /\ SelectedPassedOver'
      BY <1>14, <1>18, <2>1, <2>6, <2>7
    <2>. QED BY <1>12, <2>8 DEF FallbackInv
  \* Nothing is usable.
  <1>19. CASE \A s \in Slots : ~Usable(tried, s)
    <2>1. \A s \in Slots : ota_state'[s] \notin {"VALID", "PENDING_VERIFY"}
      BY <1>10, <1>19 DEF Usable
    <2>2. ConfirmedKept'
      BY <2>1 DEF ConfirmedKept
    <2>3. SelectedPassedOver'
      BY <1>4, <1>5, <2>1 DEF SelectedPassedOver
    <2>. QED BY <1>12, <2>2, <2>3 DEF FallbackInv
  <1>. QED BY <1>1, <1>9, <1>11, <1>15, <1>16, <1>17, <1>18, <1>19

\* Every step of the device, and stuttering, keeps an image to fall back to.
LEMMA FallbackStep ==
    DeviceInv /\ FallbackInv /\ (DeviceStep \/ UNCHANGED deviceVars) => FallbackInv'
  <1>. SUFFICES ASSUME DeviceInv, FallbackInv, DeviceStep \/ UNCHANGED deviceVars
                PROVE  FallbackInv'
    OBVIOUS
  <1>1. OtaInv /\ EspTypeOK
    BY DEF DeviceInv, OtaInv, OtaTypeOK
  <1>2. CASE CommandStep /\ BeginStep
    <2>1. PICK p, ret : /\ p.firmware_size \in Nat /\ p.sha256 \in Byte
                        /\ ota_manager_begin(p, ret)
      BY <1>2 DEF BeginStep, CmdBegin
    <2>2. /\ UNCHANGED <<ota_state, boot, running>>
          /\ \/ UNCHANGED flash
             \/ /\ ota_state[running] # "PENDING_VERIFY"
                /\ flash' = [flash EXCEPT ![esp_ota_get_next_update_partition] = <<>>]
      BY <1>1, <2>1, OtaBeginInv
    <2>3. flash \in [Slots -> Seq(Byte)]
      BY <1>1 DEF EspTypeOK
    <2>. QED BY <1>1, <2>2, <2>3, FallbackFlash
  <1>3. CASE CommandStep /\ DataStep
    <2>1. PICK p, ret : /\ p.offset \in Nat /\ p.data \in Seq(Byte)
                        /\ ota_manager_write_data(p, ret)
      BY <1>3 DEF DataStep, CmdData
    <2>2. CASE UNCHANGED otaVars
      BY <1>1, <2>2, FallbackFlash DEF otaVars, espVars
    <2>3. CASE /\ WriteVerdict(p) = "WRITE"
               /\ esp_ota_write(s_ota.partition, p.data, TRUE)
               /\ s_ota' = SessionWithChunk(p)
      <3>1. /\ UNCHANGED <<ota_state, boot, running>> /\ s_ota.active
            /\ s_ota.partition = esp_ota_get_next_update_partition
            /\ flash' = [flash EXCEPT ![s_ota.partition] = @ \o p.data]
        BY <1>1, <2>1, <2>3, OtaWrittenInv
      <3>2. ota_state[running] # "PENDING_VERIFY"
        BY <3>1 DEF DeviceInv, OtaInv, TrialDiscipline
      <3>3. \A s \in Slots \ {esp_ota_get_next_update_partition} : flash'[s] = flash[s]
        BY <1>1, <3>1 DEF EspTypeOK
      <3>. QED BY <1>1, <3>1, <3>2, <3>3, FallbackFlash
    <2>. QED BY <1>1, <2>1, <2>2, <2>3, OtaDataInv
  <1>4. CASE CommandStep /\ EndStep
    <2>1. UNCHANGED otaVars \/ \E ret : ota_manager_end(ret)
      BY <1>4 DEF EndStep, CmdEnd
    <2>. QED BY <1>1, <2>1, FallbackEnd, FallbackFlash DEF otaVars, espVars
  <1>5. CASE CommandStep /\ (AbortStep \/ RestartStep)
    <2>1. UNCHANGED <<flash, ota_state, boot, running>>
      BY <1>5 DEF AbortStep, CmdAbort, RestartStep, CmdReboot, CmdRollback, ota_manager_abort,
                  otaVars, espVars
    <2>. QED BY <1>1, <2>1, FallbackFlash
  <1>6. CASE ResetStep
    BY <1>1, <1>6, FallbackRestart
       DEF ResetStep, esp_restart, esp_ota_mark_app_invalid_rollback_and_reboot
  <1>7. CASE HealthConfirm
    BY <1>7, FallbackConfirm
  <1>8. CASE HealthCheck \/ HealthFails \/ RollbackFails \/ UNCHANGED deviceVars
    BY <1>1, <1>8, FallbackFlash DEF HealthCheck, HealthFails, RollbackFails, deviceVars, espVars
  <1>. QED BY <1>2, <1>3, <1>4, <1>5, <1>6, <1>7, <1>8 DEF DeviceStep, CommandStep

\* What the invariant is for: the image that a reset during a trial starts.
LEMMA FallbackFollows == DeviceInv /\ FallbackInv => FallbackExists
  <1>. SUFFICES ASSUME DeviceInv, FallbackInv, ota_state[running] = "PENDING_VERIFY",
                       NEW v \in Slots, ota_state[v] = "VALID"
                PROVE  LET target == BootTarget(GiveUpTrials(ota_state)) IN
                         /\ target # running
                         /\ ota_state[target] = "VALID"
                         /\ ImageOk(flash[target])
    BY DEF FallbackExists
  <1>. DEFINE tried == GiveUpTrials(ota_state)
              sel   == Selected(tried)
  <1>1. EspTypeOK /\ RunningSlotIntact /\ boot = running
    BY DEF DeviceInv, OtaInv, OtaTypeOK, TrialDiscipline
  <1>2. \A s \in Slots : /\ tried[s] # "PENDING_VERIFY"
                         /\ tried[s] = "VALID" <=> ota_state[s] = "VALID"
                         /\ tried[s] = "NEW" => s # running /\ s = boot
    BY DEF GiveUpTrials, DeviceInv, OtaInv, TrialDiscipline
  <1>3. ~Usable(tried, boot)
    BY <1>1 DEF GiveUpTrials, Usable, EspTypeOK
  <1>4. Usable(tried, v)
    BY <1>2 DEF Usable
  <1>5. sel = CHOOSE s \in Slots : Usable(tried, s)
    BY <1>3, <1>4 DEF Selected
  <1>6. sel \in Slots /\ Usable(tried, sel)
    BY <1>4, <1>5, Zenon
  <1>7. ota_state[sel] = "VALID"
    <2>. HIDE DEF tried, sel
    <2>. QED BY <1>1, <1>2, <1>6 DEF Usable
  <1>8. sel \in Intact
    BY <1>6, <1>7 DEF FallbackInv, ConfirmedKept
  <1>9. BootTarget(tried) = sel
    BY <1>1, <1>8, SelectedFirst
  <1>. QED BY <1>7, <1>8, <1>9 DEF Intact
=============================================================================
