------------------------- MODULE DeviceUpdateProofs -------------------------
(***************************************************************************)
(* Proofs about the device alone, for any number of slots, any partition   *)
(* size, any images and any arguments of the clients.                      *)
(*                                                                         *)
(* Every action of DeviceUpdate is a step of CommandsProofs, which gives   *)
(* the invariant of the device; what is left is the history of what was    *)
(* acknowledged, and the abstract promise.                                 *)
(***************************************************************************)
EXTENDS DeviceUpdate, CommandsProofs

\* Every byte that the session counts was acknowledged in it.
AckedCoverSlot ==
    s_ota.active =>
      \A i \in 0 .. s_ota.bytes_received - 1 :
        \E c \in acked : c.offset <= i /\ i < c.offset + Len(c.data)

HistoryInv ==
    /\ acked \subseteq DataPayloads
    /\ accepted \subseteq Slots
    /\ AckedChunksInFlash
    /\ AckedCoverSlot

IndInv == DeviceInv /\ FallbackInv /\ HistoryInv

\* The actions of the specification are steps of the device.
LEMMA DeviceSteps == [Next]_vars => DeviceStep \/ UNCHANGED deviceVars
  <1>. SUFFICES ASSUME [Next]_vars PROVE DeviceStep \/ UNCHANGED deviceVars
    OBVIOUS
  <1>. USE DEF LinkTaskFree, DeviceStep, CommandStep
  <1>1. CASE Begin
    <2>1. Sizes \subseteq Nat
      BY ClientAssumption, WidthAssumption
    <2>. QED BY <1>1, <2>1 DEF Begin, BeginStep
  <1>2. CASE Data
    <2>1. Offsets \subseteq Nat /\ Chunks \subseteq Seq(Byte)
      BY ClientAssumption, WidthAssumption
    <2>. QED BY <1>2, <2>1 DEF Data, DataStep
  <1>3. CASE End \/ Abort \/ Reboot \/ Rollback
    BY <1>3 DEF End, Abort, Reboot, Rollback, EndStep, AbortStep, RestartStep
  <1>4. CASE Tasks
    BY <1>4, ResetSteps DEF Tasks, Resets
  <1>5. CASE UNCHANGED vars
    BY <1>5 DEF vars
  <1>. QED BY <1>1, <1>2, <1>3, <1>4, <1>5 DEF Next

\* A step after which no session is open.
LEMMA HistoryClosed ==
    ASSUME HistoryInv, ~s_ota'.active, acked' \subseteq DataPayloads, accepted' \subseteq Slots
    PROVE  HistoryInv'
  BY DEF HistoryInv, AckedChunksInFlash, AckedCoverSlot

\* A step that leaves the session and the flash alone.
LEMMA HistoryKept ==
    ASSUME HistoryInv, UNCHANGED <<s_ota, flash>>,
           acked' = acked \/ (~s_ota.active /\ acked' = {}), accepted' \subseteq Slots
    PROVE  HistoryInv'
  BY DEF HistoryInv, AckedChunksInFlash, AckedCoverSlot

\* An OTA_BEGIN forgets what was acknowledged only if it opens a session.
LEMMA HistoryBegin == IndInv /\ Begin => HistoryInv'
  <1>. SUFFICES ASSUME IndInv, Begin PROVE HistoryInv'
    OBVIOUS
  <1>1. PICK p \in [well_formed : BOOLEAN, firmware_size : Sizes, sha256 : Byte],
               ret \in BeginErrors \cup {"OK"} :
          ota_manager_begin(p, ret)
    BY DEF Begin, CmdBegin
  <1>2. /\ acked' = AckedKept /\ accepted' = AcceptedKept
        /\ HistoryInv /\ OtaInv /\ accepted' \subseteq Slots
    BY DEF Begin, AcceptedKept, IndInv, HistoryInv, DeviceInv
  <1>3. p.firmware_size \in Nat /\ p.sha256 \in Byte
    <2>1. Sizes \subseteq Nat
      BY ClientAssumption, WidthAssumption
    <2>. QED BY <2>1
  <1>4. CASE s_ota.active
    <2>1. UNCHANGED otaVars
      BY <1>1, <1>4 DEF ota_manager_begin, BeginError
    <2>. QED BY <1>2, <1>4, <2>1, HistoryKept DEF AckedKept, otaVars, espVars
  <1>5. CASE ~s_ota.active
    <2>1. acked' = {}
      BY <1>2, <1>5 DEF AckedKept
    <2>2. s_ota' = s_ota \/ (s_ota'.active /\ s_ota'.bytes_received = 0)
      BY <1>1, <1>2, <1>3, OtaBeginInv
    <2>. QED
      BY <1>2, <1>5, <2>1, <2>2 DEF HistoryInv, AckedChunksInFlash, AckedCoverSlot
  <1>. QED BY <1>4, <1>5

\* An OTA_DATA acknowledged because it repeats the last chunk: the chunk is in
\* flash already.
LEMMA HistoryDuplicate ==
    ASSUME IndInv, NEW p \in DataPayloads, WriteVerdict(p) = "OK", UNCHANGED otaVars,
           acked' = acked \cup {p}, accepted' \subseteq Slots
    PROVE  HistoryInv'
  <1>1. /\ s_ota.active /\ p.offset = s_ota.last_chunk_offset
        /\ p.data = s_ota.last_chunk_data
    BY DEF WriteVerdict, DuplicateOfLast
  <1>2. /\ p.offset + Len(p.data) = Len(flash[s_ota.partition])
        /\ \A i \in 1 .. Len(p.data) : flash[s_ota.partition][p.offset + i] = p.data[i]
    BY <1>1 DEF IndInv, DeviceInv, OtaInv, SessionAgreesWithFlash
  <1>3. flash[s_ota.partition] \in Seq(Byte)
    BY <1>1 DEF IndInv, DeviceInv, OtaInv, OtaTypeOK, EspTypeOK, SessionAgreesWithFlash
  <1>4. p.offset + Len(p.data) <= Len(flash[s_ota.partition])
    BY <1>2, <1>3
  <1>5. UNCHANGED <<s_ota, flash>>
    BY DEF otaVars, espVars
  <1>6. AckedChunksInFlash'
    BY <1>2, <1>4, <1>5 DEF IndInv, HistoryInv, AckedChunksInFlash
  <1>7. AckedCoverSlot'
    BY <1>5 DEF IndInv, HistoryInv, AckedCoverSlot
  <1>. QED BY <1>6, <1>7 DEF IndInv, HistoryInv

\* An OTA_DATA that is written: the chunks before it stay where they were.
LEMMA HistoryWritten ==
    ASSUME IndInv, NEW p \in DataPayloads, WriteVerdict(p) = "WRITE",
           esp_ota_write(s_ota.partition, p.data, TRUE), s_ota' = SessionWithChunk(p),
           acked' = acked \cup {p}, accepted' \subseteq Slots
    PROVE  HistoryInv'
  <1>. DEFINE slot == s_ota.partition
              old  == flash[slot]
              data == p.data
  <1>1. p.offset \in Nat /\ data \in Seq(Byte) /\ acked \subseteq DataPayloads
    BY WidthAssumption DEF DataPayloads, IndInv, HistoryInv
  <1>2. /\ s_ota.active /\ s_ota'.active /\ slot \in Slots /\ s_ota'.partition = slot
        /\ p.offset = Len(old) /\ Len(data) > 0
        /\ s_ota'.bytes_received = p.offset + Len(data)
        /\ flash' = [flash EXCEPT ![slot] = old \o data]
    BY <1>1, OtaWrittenInv DEF IndInv, DeviceInv
  <1>3. /\ flash \in [Slots -> Seq(Byte)] /\ old \in Seq(Byte) /\ Len(old) \in Nat
        /\ s_ota.bytes_received = Len(old)
    BY <1>2 DEF IndInv, DeviceInv, OtaInv, OtaTypeOK, EspTypeOK, SessionAgreesWithFlash
  <1>. HIDE DEF slot, old, data
  <1>4. flash'[slot] = old \o data
    BY <1>2, <1>3
  <1>5. /\ Len(flash'[slot]) = Len(old) + Len(data)
        /\ \A i \in 1 .. Len(old) : flash'[slot][i] = old[i]
        /\ \A i \in 1 .. Len(data) : flash'[slot][Len(old) + i] = data[i]
    BY <1>1, <1>3, <1>4, Appended, SMTT(20)
  <1>6. AckedChunksInFlash'
    <2>. SUFFICES ASSUME NEW c \in acked \cup {p}
                  PROVE  /\ c.offset + Len(c.data) <= Len(flash'[slot])
                         /\ \A i \in 1 .. Len(c.data) :
                              flash'[slot][c.offset + i] = c.data[i]
      BY <1>2, ZenonT(40) DEF AckedChunksInFlash, slot
    <2>1. CASE c = p
      BY <1>1, <1>2, <1>3, <1>5, <2>1, SMTT(20) DEF data
    <2>2. CASE c \in acked
      <3>1. /\ c.offset \in Nat /\ c.data \in Seq(Byte) /\ Len(c.data) \in Nat
        BY <1>1, <2>2, WidthAssumption DEF DataPayloads
      <3>2. /\ c.offset + Len(c.data) <= Len(old)
            /\ \A i \in 1 .. Len(c.data) : old[c.offset + i] = c.data[i]
        BY <1>2, <2>2 DEF IndInv, HistoryInv, AckedChunksInFlash, slot, old
      <3>3. Len(data) \in Nat
        BY <1>1
      <3>4. c.offset + Len(c.data) <= Len(flash'[slot])
        BY <1>3, <1>5, <3>1, <3>2, <3>3
      <3>5. ASSUME NEW i \in 1 .. Len(c.data)
            PROVE  flash'[slot][c.offset + i] = c.data[i]
        <4>1. c.offset + i \in 1 .. Len(old)
          BY <1>3, <3>1, <3>2
        <4>. QED BY <1>5, <3>2, <4>1
      <3>. QED BY <3>4, <3>5
    <2>. QED BY <2>1, <2>2
  <1>7. AckedCoverSlot'
    <2>. SUFFICES ASSUME NEW i \in 0 .. Len(old) + Len(data) - 1
                  PROVE  \E c \in acked \cup {p} : c.offset <= i /\ i < c.offset + Len(c.data)
      BY <1>2 DEF AckedCoverSlot
    <2>1. CASE i < Len(old)
      <3>1. i \in 0 .. s_ota.bytes_received - 1
        BY <1>3, <2>1
      <3>. QED BY <1>2, <3>1 DEF IndInv, HistoryInv, AckedCoverSlot
    <2>2. CASE ~(i < Len(old))
      <3>1. Len(data) \in Nat
        BY <1>1
      <3>2. p.offset <= i /\ i < p.offset + Len(data)
        BY <1>2, <1>3, <2>2, <3>1
      <3>. QED BY <3>2 DEF data
    <2>. QED BY <2>1, <2>2
  <1>. QED BY <1>1, <1>6, <1>7 DEF HistoryInv

\* OTA_DATA, whatever its outcome.
LEMMA HistoryData == IndInv /\ Data => HistoryInv'
  <1>. SUFFICES ASSUME IndInv, Data PROVE HistoryInv'
    OBVIOUS
  <1>1. PICK p \in [offset : Offsets, data : Chunks], ret \in DataErrors \cup {"OK"} :
          /\ ota_manager_write_data(p, ret)
          /\ acked' = IF ret = "OK" THEN acked \cup {p} ELSE acked
    BY DEF Data, CmdData
  <1>2. p \in DataPayloads
    BY <1>1, ClientAssumption DEF DataPayloads
  <1>3. accepted' \subseteq Slots /\ HistoryInv
    BY DEF Data, AcceptedKept, IndInv, HistoryInv
  <1>4. CASE UNCHANGED otaVars /\ ret # "OK"
    BY <1>1, <1>3, <1>4, HistoryKept DEF otaVars, espVars
  <1>5. CASE WriteVerdict(p) = "OK" /\ UNCHANGED otaVars /\ ret = "OK"
    BY <1>1, <1>2, <1>3, <1>5, HistoryDuplicate
  <1>6. CASE /\ WriteVerdict(p) = "WRITE" /\ ret = "OK"
             /\ esp_ota_write(s_ota.partition, p.data, TRUE)
             /\ s_ota' = SessionWithChunk(p)
    BY <1>1, <1>2, <1>3, <1>6, HistoryWritten
  <1>. QED
    BY <1>1, <1>4, <1>5, <1>6 DEF ota_manager_write_data, esp_ota_write, otaVars, espVars

\* The other actions close the session or leave it alone.
LEMMA HistoryRest == IndInv /\ (End \/ Abort \/ Reboot \/ Rollback \/ Tasks) => HistoryInv'
  <1>. SUFFICES ASSUME IndInv, End \/ Abort \/ Reboot \/ Rollback \/ Tasks PROVE HistoryInv'
    OBVIOUS
  <1>1. HistoryInv /\ OtaInv /\ acked \subseteq DataPayloads /\ accepted \subseteq Slots
    BY DEF IndInv, HistoryInv, DeviceInv
  <1>2. acked' = acked \/ (~(s_ota.active /\ s_ota'.active) /\ acked' = {})
    BY DEF End, Abort, Reboot, Rollback, Tasks, AckedKept
  <1>3. CASE UNCHANGED <<s_ota, flash>> /\ accepted' = accepted
    BY <1>1, <1>2, <1>3, HistoryKept
  <1>4. CASE ~s_ota'.active /\ accepted' \subseteq Slots
    BY <1>1, <1>2, <1>4, HistoryClosed
  <1>5. CASE End
    <2>1. PICK empty \in BOOLEAN, ret \in EndErrors \cup {"OK"} :
            /\ CmdEnd(empty, ret)
            /\ accepted' = IF ret = "OK" THEN accepted \cup {s_ota.partition} ELSE accepted
      BY <1>5 DEF End
    <2>2. CASE ret # "OK" /\ UNCHANGED otaVars
      BY <1>3, <2>1, <2>2 DEF otaVars, espVars
    <2>3. CASE ota_manager_end(ret)
      BY <1>1, <1>3, <1>4, <2>1, <2>3, OtaEndInv, ZeroOtaType DEF otaVars, espVars
    <2>. QED BY <2>1, <2>2, <2>3 DEF CmdEnd
  <1>6. CASE Abort
    BY <1>1, <1>3, <1>4, <1>6, OtaAbortInv DEF Abort, CmdAbort, otaVars, espVars
  <1>7. CASE Reboot \/ Rollback
    BY <1>3, <1>7 DEF Reboot, Rollback, CmdReboot, CmdRollback, espVars
  <1>8. CASE Tasks
    <2>1. accepted' = accepted
      BY <1>8 DEF Tasks
    <2>2. CASE Resets
      BY <1>1, <1>4, <2>1, <2>2, ResetSteps, ZeroOtaType DEF Resets, ResetStep, RamReset
    <2>3. CASE RollbackFails \/ HealthCheck \/ HealthConfirm \/ HealthFails
      BY <1>3, <2>1, <2>3 DEF RollbackFails, HealthCheck, HealthConfirm, HealthFails, espVars,
                              esp_ota_mark_app_valid_cancel_rollback
    <2>. QED BY <1>8, <2>2, <2>3 DEF Tasks
  <1>. QED BY <1>5, <1>6, <1>7, <1>8

\* The invariant holds when the device leaves the bench.
LEMMA InitInv == Init => IndInv
  <1>. SUFFICES ASSUME Init PROVE IndInv
    OBVIOUS
  <1>1. DeviceInv /\ FallbackInv /\ ~s_ota.active
    BY DeviceInitInv, FallbackInit, ZeroOtaType DEF Init, DeviceInit, OtaInit
  <1>2. accepted \subseteq Slots
    BY NSlotsAssumption DEF Init, Slots
  <1>. QED
    BY <1>1, <1>2 DEF IndInv, HistoryInv, Init, AckedChunksInFlash, AckedCoverSlot

\* Every step of the device, and stuttering, keeps the invariant.
LEMMA NextInv == IndInv /\ [Next]_vars => IndInv'
  <1>. SUFFICES ASSUME IndInv, [Next]_vars PROVE IndInv'
    OBVIOUS
  <1>1. DeviceInv' /\ FallbackInv'
    BY DeviceSteps, DeviceStepInv, FallbackStep DEF IndInv
  <1>2. HistoryInv'
    <2>1. CASE UNCHANGED vars
      BY <2>1, HistoryKept DEF vars, deviceVars, ramVars, espVars, IndInv, HistoryInv
    <2>2. CASE Next
      BY <2>2, HistoryBegin, HistoryData, HistoryRest DEF Next
    <2>. QED BY <2>1, <2>2
  <1>. QED BY <1>1, <1>2 DEF IndInv

\* The invariant holds throughout every behaviour of the device.
THEOREM Inductive == Spec => []IndInv
  BY InitInv, NextInv, PTL DEF Spec

-----------------------------------------------------------------------------
(***************************************************************************)
(* The invariants that the runs check.                                     *)
(***************************************************************************)

\* Every variable keeps its type, the count of open handles included.
THEOREM TypeCorrect == Spec => []TypeOK
  <1>1. IndInv => TypeOK
    BY DEF IndInv, DeviceInv, OtaInv, HistoryInv, TypeOK, DeviceTypeOK
  <1>. QED BY <1>1, Inductive, PTL

\* The counters of ota_manager.c agree with the flash and the open handle, for
\* every partition size and every sequence of commands, failures and resets.
THEOREM SessionCorrect == Spec => []SessionAgreesWithFlash
  <1>1. IndInv => SessionAgreesWithFlash
    BY DEF IndInv, DeviceInv, OtaInv
  <1>. QED BY <1>1, Inductive, PTL

\* Every chunk that ota_manager_write_data acknowledged is in flash where the
\* client put it, retries and 32-bit sums included.
THEOREM AckedDurable == Spec => []AckedChunksInFlash
  <1>1. IndInv => AckedChunksInFlash
    BY DEF IndInv, HistoryInv
  <1>. QED BY <1>1, Inductive, PTL

\* The slot that runs is never erased or written, and the bootloader always
\* has an intact image to start.
THEOREM RunningIntact == Spec => []RunningSlotIntact
  <1>1. IndInv => RunningSlotIntact
    BY DEF IndInv, DeviceInv, OtaInv
  <1>. QED BY <1>1, Inductive, PTL

\* Only the selected image is new; the running one is on trial only if it is
\* selected, and then no update is under way.
THEOREM TrialsDisciplined == Spec => []TrialDiscipline
  <1>1. IndInv => TrialDiscipline
    BY DEF IndInv, DeviceInv, OtaInv
  <1>. QED BY <1>1, Inductive, PTL

\* ota_link_mark_app_valid confirms the image whose state it has read.
THEOREM ConfirmationSound == Spec => []ConfirmsWhatRuns
  <1>1. IndInv => ConfirmsWhatRuns
    BY DEF IndInv, DeviceInv
  <1>. QED BY <1>1, Inductive, PTL

\* A ROLLBACK that commands.c acknowledged can be carried out 100 ms later.
THEOREM RollbackSound == Spec => []AckedRollbackPossible
  <1>1. IndInv => AckedRollbackPossible
    BY DEF IndInv, DeviceInv
  <1>. QED BY <1>1, Inductive, PTL

\* With any number of slots, a reset during a trial starts a confirmed image
\* whenever the OTA data still has one.
THEOREM FallbackSound == Spec => []FallbackExists
  <1>1. IndInv => FallbackExists
    BY FallbackFollows DEF IndInv
  <1>. QED BY <1>1, Inductive, PTL

\* Of all the device's steps only OTA_END makes an image new.
LEMMA OnlyEndStages ==
    ASSUME IndInv, [Next]_vars, NEW s \in Slots, ota_state[s] # "NEW", ota_state'[s] = "NEW"
    PROVE  \E ret : /\ ota_manager_end(ret) /\ EndError = "OK" /\ EndSelects(ret)
                    /\ s_ota.active /\ s = s_ota.partition
  <1>1. OtaInv /\ ota_state \in [Slots -> ImageStates] /\ boot \in Slots
    BY DEF IndInv, DeviceInv, OtaInv, OtaTypeOK, EspTypeOK
  <1>2. ota_state' # ota_state
    OBVIOUS
  <1>3. CASE End
    <2>1. PICK ret : ota_manager_end(ret)
      BY <1>2, <1>3 DEF End, CmdEnd, otaVars, espVars
    <2>2. /\ EndError = "OK" /\ s_ota.active /\ EndSelects(ret)
          /\ ota_state' = OtaDataWithNew(s_ota.partition)
      BY <1>1, <1>2, <2>1, OtaEndInv DEF otaVars, espVars
    <2>3. s = s_ota.partition
      BY <1>1, <2>2 DEF OtaDataWithNew
    <2>. QED BY <2>1, <2>2, <2>3
  <1>4. CASE Resets
    <2>1. PICK states : /\ states = ota_state \/ states = [ota_state EXCEPT ![boot] = "INVALID"]
                        /\ esp_restart_from(states) /\ s_ota' = ZeroOta
      BY <1>4, ResetSteps DEF Resets, ResetStep, RamReset, esp_restart,
                              esp_ota_mark_app_invalid_rollback_and_reboot
    <2>2. ota_state'[s] # "NEW"
      BY <1>1, <2>1, RestartStates, OtaRestartInv
    <2>. QED BY <2>2
  <1>5. CASE HealthConfirm
    <2>1. ota_state' = [ota_state EXCEPT ![boot] = "VALID"]
      BY <1>5 DEF HealthConfirm, esp_ota_mark_app_valid_cancel_rollback
    <2>. QED BY <1>1, <2>1
  <1>6. ~(Begin \/ Data \/ Abort \/ Reboot \/ Rollback)
    BY <1>2 DEF Begin, CmdBegin, ota_manager_begin, esp_ota_begin, Data, CmdData,
                ota_manager_write_data, esp_ota_write, Abort, CmdAbort, ota_manager_abort,
                Reboot, CmdReboot, Rollback, CmdRollback, otaVars, espVars
  <1>7. ~(RollbackFails \/ HealthCheck \/ HealthFails \/ UNCHANGED vars)
    BY <1>2 DEF RollbackFails, HealthCheck, HealthFails, vars, deviceVars, espVars
  <1>. QED BY <1>3, <1>4, <1>5, <1>6, <1>7 DEF Next, Tasks

\* ota_manager_end is the only step that offers an image to the bootloader, and
\* it does so only when every announced byte was acknowledged in this session
\* and the image has the announced digest.
THEOREM StagingVerified == Spec => StagedOnlyWhenVerified
  <1>1. IndInv /\ [Next]_vars => [StagesVerified]_vars
    <2>. SUFFICES ASSUME IndInv, [Next]_vars PROVE StagesVerified
      OBVIOUS
    <2>. SUFFICES ASSUME NEW s \in Slots, ota_state[s] # "NEW", ota_state'[s] = "NEW"
                  PROVE  /\ s_ota.active /\ s = s_ota.partition
                         /\ ImageOk(flash[s])
                         /\ ImageSha(flash[s]) = s_ota.expected_sha256
                         /\ \A i \in 0 .. s_ota.firmware_size - 1 :
                              \E c \in acked : c.offset <= i /\ i < c.offset + Len(c.data)
      BY DEF StagesVerified
    <2>1. PICK ret : /\ ota_manager_end(ret) /\ EndError = "OK" /\ EndSelects(ret)
                     /\ s_ota.active /\ s = s_ota.partition
      BY OnlyEndStages
    <2>2. ImageOk(flash[s]) /\ ImageSha(flash[s]) = s_ota.expected_sha256
      BY <2>1 DEF EndSelects, ShaMatches
    <2>3. s_ota.bytes_received = s_ota.firmware_size
      BY <2>1 DEF EndError
    <2>. QED BY <2>1, <2>2, <2>3 DEF IndInv, HistoryInv, AckedCoverSlot
  <1>. QED BY <1>1, Inductive, PTL DEF Spec, StagedOnlyWhenVerified

-----------------------------------------------------------------------------
(***************************************************************************)
(* The refinement of AtomicUpdate, for the two slots of the default        *)
(* partition table (or one).  With three slots it is false: when the       *)
(* selected slot was being rewritten, the bootloader may start an older    *)
(* image once.                                                             *)
(***************************************************************************)
\* What a reset would start is intact, and is the selected image if that is.
NextBootOk ==
    LET tried == GiveUpTrials(ota_state) IN
      /\ BootTarget(tried) \in Intact
      /\ Selected(tried) \in Intact => BootTarget(tried) = Selected(tried)

\* It follows from the invariant.
LEMMA NextBoot == IndInv => NextBootOk
  <1>. SUFFICES ASSUME IndInv PROVE NextBootOk
    OBVIOUS
  <1>1. EspTypeOK /\ RunningSlotIntact
    BY DEF IndInv, DeviceInv, OtaInv, OtaTypeOK
  <1>. QED BY <1>1, BootTargetFirst, SelectedFirst DEF NextBootOk

\* An intact slot holds one of the images of the abstract specification.
LEMMA IntactImage ==
    ASSUME IndInv, NEW s \in Intact
    PROVE  flash[s] \in IntactImages
  <1>1. /\ flash[s] \in Seq(Byte) /\ Len(flash[s]) <= PartitionSize /\ ImageOk(flash[s])
        /\ Len(flash[s]) \in Nat
    BY DEF Intact, IndInv, DeviceInv, OtaInv, OtaTypeOK, EspTypeOK, FlashFits
  <1>. QED BY <1>1 DEF IntactImages

\* So does what a reset would start.
LEMMA NextBootImages == IndInv => NextBootImage \in IntactImages /\ flash[running] \in IntactImages
  BY NextBoot, IntactImage
     DEF NextBootOk, NextBootImage, Intact, IndInv, DeviceInv, OtaInv, OtaTypeOK, EspTypeOK,
         RunningSlotIntact

\* After a reset that starts no trial, another reset starts the same image.
LEMMA RestartSettles ==
    ASSUME NSlots <= 2, IndInv, IndInv', NextBootOk',
           NEW states \in [Slots -> ImageStates],
           \A s \in Slots : states[s] = "NEW" => s = boot,
           esp_restart_from(states),
           ota_state'[running'] # "PENDING_VERIFY"
    PROVE  NextBootImage' = flash'[running']
  <1>. DEFINE tried == GiveUpTrials(states)
              sel   == Selected(tried)
  <1>1. EspTypeOK /\ RunningSlotIntact /\ boot \in Slots
    BY DEF IndInv, DeviceInv, OtaInv, OtaTypeOK, EspTypeOK
  <1>2. sel \in Slots /\ BootTarget(tried) \in Intact /\ (sel \in Intact => BootTarget(tried) = sel)
    BY <1>1, SelectedInSlots, BootTargetFirst, SelectedFirst
  <1>3. /\ ota_state' = [tried EXCEPT ![sel] = IF @ = "NEW" THEN "PENDING_VERIFY" ELSE @]
        /\ boot' = sel
        /\ running' = BootTarget(tried)
        /\ flash' = flash
    BY DEF esp_restart_from
  <1>4. Intact' = Intact /\ Intact \subseteq Slots
    BY <1>3 DEF Intact
  <1>5. /\ BootTarget(GiveUpTrials(ota_state))' \in Intact
        /\ Selected(GiveUpTrials(ota_state))' \in Intact =>
              BootTarget(GiveUpTrials(ota_state))' = Selected(GiveUpTrials(ota_state))'
    BY <1>4 DEF NextBootOk
  <1>6. CASE sel \in Intact
    <2>1. running' = sel
      BY <1>2, <1>3, <1>6
    <2>2. tried \in [Slots -> ImageStates] /\ \A s \in Slots : tried[s] # "PENDING_VERIFY"
      BY DEF GiveUpTrials, ImageStates
    <2>3. ota_state' = tried
      BY <1>2, <1>3, <2>1, <2>2
    <2>4. GiveUpTrials(ota_state)' = tried
      BY <2>2, <2>3 DEF GiveUpTrials
    <2>5. Selected(GiveUpTrials(ota_state))' = sel
      BY <1>3, <2>4, <2>3 DEF Selected, Usable
    <2>. QED BY <1>3, <1>5, <1>6, <2>1, <2>5 DEF NextBootImage
  <1>7. CASE sel \notin Intact
    <2>. HIDE DEF tried, sel
    <2>1. \A s, t \in Intact : s = t
      BY <1>2, <1>4, <1>7, NSlotsAssumption DEF Slots
    <2>. QED BY <1>2, <1>3, <1>5, <2>1 DEF NextBootImage
  <1>. QED BY <1>6, <1>7

\* With two slots, an image besides the selected one is what a rollback starts,
\* and what a reset starts while the selected one is on trial.
WayBackOk ==
    /\ RollbackImages \subseteq IntactImages
    /\ \A s \in Slots \ {boot} :
         Usable(ota_state, boot) /\ Usable(ota_state, s) /\ ota_state[s] # "PENDING_VERIFY"
           /\ s \in Intact =>
         /\ RollbackImages = {flash[s]}
         /\ ota_state[boot] = "PENDING_VERIFY" => NextBootImage = flash[s]

\* When the selected entry is of no use, the bootloader takes the other.
LEMMA OtherSelected ==
    ASSUME NSlots <= 2, EspTypeOK, RunningSlotIntact, NEW states, NEW s \in Slots \ {boot},
           Usable(states, s), ~Usable(states, boot), s \in Intact
    PROVE  BootTarget(states) = s
  <1>1. \A t \in Slots \ {boot} : t = s
    <2>1. boot \in Slots
      BY DEF EspTypeOK
    <2>. QED BY <2>1, NSlotsAssumption DEF Slots
  <1>2. Selected(states) = CHOOSE t \in Slots : Usable(states, t)
    BY DEF Selected
  <1>3. Selected(states) \in Slots /\ Usable(states, Selected(states))
    BY <1>2, Zenon
  <1>4. Selected(states) = s
    BY <1>1, <1>3
  <1>. QED BY <1>4, SelectedFirst

\* It follows from the invariant.
LEMMA WayBack == ASSUME NSlots <= 2 PROVE IndInv => WayBackOk
  <1>. SUFFICES ASSUME IndInv PROVE WayBackOk
    OBVIOUS
  <1>. DEFINE rejected == [ota_state EXCEPT ![boot] = "INVALID"]
  <1>1. EspTypeOK /\ RunningSlotIntact
    BY DEF IndInv, DeviceInv, OtaInv, OtaTypeOK
  <1>2. RollbackImages \subseteq IntactImages
    <2>1. BootTarget(GiveUpTrials(rejected)) \in Intact
      BY <1>1, BootTargetFirst
    <2>2. flash[BootTarget(GiveUpTrials(rejected))] \in IntactImages
      BY <2>1, IntactImage
    <2>. QED BY <2>2 DEF RollbackImages
  <1>3. ASSUME NEW s \in Slots \ {boot}, Usable(ota_state, boot), Usable(ota_state, s),
               ota_state[s] # "PENDING_VERIFY", s \in Intact
        PROVE  /\ RollbackImages = {flash[s]}
               /\ ota_state[boot] = "PENDING_VERIFY" => NextBootImage = flash[s]
    <2>1. esp_ota_check_rollback_is_possible
      BY <1>3 DEF esp_ota_check_rollback_is_possible, Intact
    <2>2. /\ Usable(GiveUpTrials(rejected), s) /\ ~Usable(GiveUpTrials(rejected), boot)
          /\ Usable(GiveUpTrials(ota_state), s)
          /\ ota_state[boot] = "PENDING_VERIFY" => ~Usable(GiveUpTrials(ota_state), boot)
      BY <1>1, <1>3 DEF EspTypeOK, GiveUpTrials, Usable
    <2>3. BootTarget(GiveUpTrials(rejected)) = s
      BY <1>1, <1>3, <2>2, OtherSelected
    <2>4. ota_state[boot] = "PENDING_VERIFY" => BootTarget(GiveUpTrials(ota_state)) = s
      BY <1>1, <1>3, <2>2, OtherSelected
    <2>. QED BY <2>1, <2>3, <2>4 DEF RollbackImages, NextBootImage
  <1>. QED BY <1>2, <1>3 DEF WayBackOk

\* A reset that finds the selected entry of no use leaves no way back.
LEMMA NoWayBack ==
    ASSUME NSlots <= 2, IndInv, NEW states \in [Slots -> ImageStates],
           esp_restart_from(states), ~Usable(GiveUpTrials(states), boot)
    PROVE  RollbackImages' = {}
  <1>. DEFINE tried == GiveUpTrials(states)
              sel   == Selected(tried)
  <1>1. EspTypeOK /\ sel \in Slots /\ boot \in Slots
    BY SelectedInSlots DEF IndInv, DeviceInv, OtaInv, OtaTypeOK, EspTypeOK
  <1>2. tried \in [Slots -> ImageStates]
    BY DEF GiveUpTrials, ImageStates
  <1>3. /\ ota_state' = [tried EXCEPT ![sel] = IF @ = "NEW" THEN "PENDING_VERIFY" ELSE @]
        /\ boot' = sel
    BY DEF esp_restart_from
  <1>. HIDE DEF tried, sel
  <1>4. \A s \in Slots : Usable(ota_state', s) => Usable(tried, s) /\ s # boot
    BY <1>1, <1>2, <1>3 DEF Usable, tried
  <1>5. \A s, t \in Slots \ {boot} : s = t
    BY <1>1, NSlotsAssumption DEF Slots
  <1>6. ~esp_ota_check_rollback_is_possible'
    BY <1>1, <1>3, <1>4, <1>5 DEF esp_ota_check_rollback_is_possible, Usable
  <1>. QED BY <1>6 DEF RollbackImages

\* A reset outside a trial keeps the way back or drops it, and keeps it when it
\* starts a trial; the trial then falls back to it.
LEMMA WayBackKept ==
    ASSUME NSlots <= 2, IndInv, IndInv', WayBackOk, WayBackOk', esp_restart_from(ota_state),
           ota_state[running] # "PENDING_VERIFY"
    PROVE  /\ RollbackImages' \in {RollbackImages, {}}
           /\ ota_state'[running'] = "PENDING_VERIFY" =>
                RollbackImages' = RollbackImages /\ RollbackImages \subseteq {NextBootImage'}
  <1>. DEFINE tried == GiveUpTrials(ota_state)
              sel   == Selected(tried)
  <1>1. /\ EspTypeOK /\ boot \in Slots /\ running \in Slots /\ running' \in Slots
        /\ ota_state \in [Slots -> ImageStates] /\ sel \in Slots
        /\ \A s \in Slots : ota_state[s] = "NEW" => s = boot /\ s # running
    BY SelectedInSlots
       DEF IndInv, DeviceInv, OtaInv, OtaTypeOK, EspTypeOK, TrialDiscipline
  <1>2. /\ tried \in [Slots -> ImageStates]
        /\ \A s \in Slots : /\ tried[s] # "PENDING_VERIFY"
                            /\ Usable(tried, s) => tried[s] = ota_state[s]
                            /\ tried[s] = "NEW" => ota_state[s] = "NEW"
    BY <1>1 DEF GiveUpTrials, ImageStates, Usable
  <1>3. /\ ota_state' = [tried EXCEPT ![sel] = IF @ = "NEW" THEN "PENDING_VERIFY" ELSE @]
        /\ boot' = sel
        /\ flash' = flash
    BY DEF esp_restart_from
  <1>4. Usable(tried, boot) => sel = boot
    BY DEF Selected
  <1>5. ~Usable(tried, boot) => RollbackImages' = {}
    BY <1>1, NoWayBack
  <1>. HIDE DEF sel
  <1>6. Intact' = Intact /\ \A s, t \in Slots \ {boot} : s = t
    BY <1>1, <1>3, NSlotsAssumption DEF Intact, Slots
  <1>7. RollbackImages' \in {RollbackImages, {}}
    <2>. SUFFICES ASSUME RollbackImages' # {} PROVE RollbackImages' = RollbackImages
      OBVIOUS
    <2>1. Usable(tried, boot) /\ sel = boot /\ boot' = boot
      BY <1>3, <1>4, <1>5
    <2>2. esp_ota_check_rollback_is_possible'
      BY DEF RollbackImages
    <2>3. PICK s \in Slots \ {boot} : Usable(ota_state', s) /\ s \in Intact
      BY <1>6, <2>1, <2>2 DEF esp_ota_check_rollback_is_possible, Usable, Intact
    <2>4. ota_state'[s] = tried[s] /\ Usable(tried, s)
      BY <1>2, <1>3, <2>1, <2>3 DEF Usable
    <2>5. /\ Usable(ota_state, boot) /\ Usable(ota_state, s) /\ ota_state[s] # "PENDING_VERIFY"
          /\ Usable(ota_state', boot) /\ ota_state'[s] # "PENDING_VERIFY"
      BY <1>1, <1>2, <1>3, <2>1, <2>4 DEF Usable
    <2>6. RollbackImages = {flash[s]}
      BY <2>3, <2>5 DEF WayBackOk
    <2>7. RollbackImages' = {flash'[s]}
      BY <1>6, <2>1, <2>3, <2>5 DEF WayBackOk, Usable
    <2>. QED BY <1>3, <2>6, <2>7
  <1>8. ASSUME ota_state'[running'] = "PENDING_VERIFY"
        PROVE  RollbackImages' = RollbackImages /\ RollbackImages \subseteq {NextBootImage'}
    <2>1. tried[sel] = "NEW" /\ ota_state'[sel] = "PENDING_VERIFY"
      BY <1>1, <1>2, <1>3, <1>8
    <2>2. sel = boot /\ boot # running /\ boot' = boot /\ Usable(ota_state, boot)
      BY <1>1, <1>2, <1>3, <2>1 DEF Usable
    <2>3. ota_state'[running] = ota_state[running]
      BY <1>1, <1>3, <2>2 DEF GiveUpTrials
    <2>4. CASE Usable(ota_state, running) /\ running \in Intact
      <3>1. RollbackImages = {flash[running]}
        BY <1>1, <2>2, <2>4 DEF WayBackOk
      <3>2. RollbackImages' = {flash'[running]} /\ NextBootImage' = flash'[running]
        BY <1>1, <1>6, <2>1, <2>2, <2>3, <2>4 DEF WayBackOk, Usable
      <3>. QED BY <1>3, <3>1, <3>2
    <2>5. CASE ~(Usable(ota_state, running) /\ running \in Intact)
      <3>1. ~esp_ota_check_rollback_is_possible
        BY <1>1, <1>6, <2>2, <2>5 DEF esp_ota_check_rollback_is_possible, Intact
      <3>2. ~esp_ota_check_rollback_is_possible'
        BY <1>1, <1>3, <1>6, <2>2, <2>3, <2>5
           DEF esp_ota_check_rollback_is_possible, Intact, Usable
      <3>. QED BY <3>1, <3>2 DEF RollbackImages
    <2>. QED BY <2>4, <2>5
  <1>. QED BY <1>7, <1>8

\* A step that touches neither the slots nor the OTA data is a stuttering step
\* of the abstract specification.
LEMMA Unseen ==
    ASSUME UNCHANGED <<flash, ota_state, boot, running>>
    PROVE  UNCHANGED Promise!vars
  <1>1. GiveUpTrials(ota_state)' = GiveUpTrials(ota_state)
    BY DEF GiveUpTrials
  <1>2. \A s \in Slots : Usable(GiveUpTrials(ota_state), s)' <=> Usable(GiveUpTrials(ota_state), s)
    BY DEF GiveUpTrials, Usable
  <1>3. NextBootImage' = NextBootImage
    BY DEF NextBootImage, BootTarget, Selected, Usable, Intact, GiveUpTrials, Turn
  <1>4. RollbackImages' = RollbackImages
    BY DEF RollbackImages, esp_ota_check_rollback_is_possible, BootTarget, Selected, Usable,
           Intact, GiveUpTrials, Turn
  <1>. QED BY <1>3, <1>4 DEF Promise!vars

\* A step that leaves the running image alone outside a trial stages an image,
\* or drops one.
LEMMA Staged ==
    ASSUME IndInv, IndInv', NextBootImage' \in IntactImages, WayBackOk',
           ota_state[running] # "PENDING_VERIFY", ota_state'[running] # "PENDING_VERIFY",
           running' = running, flash'[running] = flash[running]
    PROVE  Promise!Next
  BY DEF Promise!Next, Promise!Stage, WayBackOk

\* Each action maps to the abstract step that names its effect.
LEMMA StepRefines ==
    ASSUME NSlots <= 2, IndInv, IndInv', NextBootOk', WayBackOk, WayBackOk',
           NextBootImage' \in IntactImages, flash'[running'] \in IntactImages, [Next]_vars
    PROVE  [Promise!Next]_(Promise!vars)
  <1>1. OtaInv /\ EspTypeOK /\ ota_state \in [Slots -> ImageStates] /\ boot \in Slots
        /\ running \in Slots
    BY DEF IndInv, DeviceInv, OtaInv, OtaTypeOK, EspTypeOK
  <1>2. CASE Begin
    <2>1. PICK p \in [well_formed : BOOLEAN, firmware_size : Sizes, sha256 : Byte],
               ret \in BeginErrors \cup {"OK"} :
            ota_manager_begin(p, ret)
      BY <1>2 DEF Begin, CmdBegin
    <2>2. p.firmware_size \in Nat /\ p.sha256 \in Byte
      <3>1. Sizes \subseteq Nat
        BY ClientAssumption, WidthAssumption
      <3>. QED BY <3>1
    <2>3. /\ UNCHANGED <<ota_state, boot, running>>
          /\ \/ UNCHANGED flash
             \/ /\ ota_state[running] # "PENDING_VERIFY"
                /\ esp_ota_get_next_update_partition # running
                /\ flash' = [flash EXCEPT ![esp_ota_get_next_update_partition] = <<>>]
      BY <1>1, <2>1, <2>2, OtaBeginInv
    <2>4. flash'[running] = flash[running]
      BY <1>1, <2>3 DEF EspTypeOK
    <2>. QED BY <2>3, <2>4, Unseen, Staged
  <1>3. CASE Data
    <2>1. PICK p \in [offset : Offsets, data : Chunks], ret \in DataErrors \cup {"OK"} :
            ota_manager_write_data(p, ret)
      BY <1>3 DEF Data, CmdData
    <2>2. p.offset \in Nat /\ p.data \in Seq(Byte)
      <3>1. Offsets \subseteq Nat /\ Chunks \subseteq Seq(Byte)
        BY ClientAssumption, WidthAssumption
      <3>. QED BY <3>1
    <2>3. CASE UNCHANGED otaVars
      BY <2>3, Unseen DEF otaVars, espVars
    <2>4. CASE /\ WriteVerdict(p) = "WRITE"
               /\ esp_ota_write(s_ota.partition, p.data, TRUE)
               /\ s_ota' = SessionWithChunk(p)
      <3>1. /\ UNCHANGED <<ota_state, boot, running>> /\ s_ota.active
            /\ s_ota.partition # running
            /\ flash' = [flash EXCEPT ![s_ota.partition] = @ \o p.data]
        BY <1>1, <2>2, <2>4, OtaWrittenInv
      <3>2. ota_state[running] # "PENDING_VERIFY"
        BY <1>1, <3>1 DEF OtaInv, TrialDiscipline
      <3>3. flash'[running] = flash[running]
        BY <1>1, <3>1 DEF EspTypeOK
      <3>. QED BY <3>1, <3>2, <3>3, Staged
    <2>. QED BY <1>1, <2>1, <2>2, <2>3, <2>4, OtaDataInv
  <1>4. CASE End
    <2>1. CASE UNCHANGED otaVars
      BY <2>1, Unseen DEF otaVars, espVars
    <2>2. ASSUME NEW ret, ota_manager_end(ret)
          PROVE  [Promise!Next]_(Promise!vars)
      <3>1. /\ UNCHANGED <<flash, running>>
            /\ \/ UNCHANGED <<ota_state, boot>>
               \/ /\ s_ota.partition \in Slots \ {running}
                  /\ ota_state[running] # "PENDING_VERIFY"
                  /\ ota_state' = OtaDataWithNew(s_ota.partition)
        BY <1>1, <2>2, OtaEndInv DEF otaVars, espVars
      <3>2. CASE UNCHANGED <<ota_state, boot>>
        BY <3>1, <3>2, Unseen
      <3>3. CASE /\ s_ota.partition \in Slots \ {running}
                 /\ ota_state[running] # "PENDING_VERIFY"
                 /\ ota_state' = OtaDataWithNew(s_ota.partition)
        <4>1. ota_state'[running] # "PENDING_VERIFY"
          BY <1>1, <3>3 DEF OtaDataWithNew
        <4>. QED BY <3>1, <3>3, <4>1, Staged
      <3>. QED BY <3>1, <3>2, <3>3
    <2>. QED BY <1>4, <2>1, <2>2 DEF End, CmdEnd
  <1>5. CASE Abort \/ Reboot \/ Rollback \/ UNCHANGED vars
    <2>1. UNCHANGED <<flash, ota_state, boot, running>>
      BY <1>5 DEF Abort, CmdAbort, Reboot, CmdReboot, Rollback, CmdRollback,
                  ota_manager_abort, otaVars, vars, deviceVars, espVars
    <2>. QED BY <2>1, Unseen
  <1>6. CASE RollbackFails \/ HealthCheck \/ HealthFails
    <2>1. UNCHANGED <<flash, ota_state, boot, running>>
      BY <1>6 DEF RollbackFails, HealthCheck, HealthFails, espVars
    <2>. QED BY <2>1, Unseen
  <1>7. CASE HealthConfirm
    <2>1. /\ boot = running /\ ota_state[running] = "PENDING_VERIFY" /\ ImageOk(flash[running])
      BY <1>7 DEF HealthConfirm, IndInv, DeviceInv, ConfirmsWhatRuns, OtaInv, RunningSlotIntact
    <2>2. /\ ota_state' = [ota_state EXCEPT ![boot] = "VALID"]
          /\ UNCHANGED <<flash, boot, running>>
      BY <1>7 DEF HealthConfirm, esp_ota_mark_app_valid_cancel_rollback
    <2>3. Selected(GiveUpTrials(ota_state))' = running
      BY <1>1, <2>1, <2>2 DEF Selected, GiveUpTrials, Usable
    <2>4. NextBootImage' = flash[running]
      BY <1>1, <2>1, <2>2, <2>3 DEF NextBootOk, NextBootImage, Intact
    <2>5. ota_state'[running'] # "PENDING_VERIFY"
      BY <1>1, <2>1, <2>2
    <2>6. RollbackImages' = RollbackImages
      <3>1. /\ [ota_state EXCEPT ![boot] = "INVALID"]' = [ota_state EXCEPT ![boot] = "INVALID"]
            /\ \A s \in Slots : Usable(ota_state, s)' <=> Usable(ota_state, s)
        BY <1>1, <2>1, <2>2 DEF Usable
      <3>2. esp_ota_check_rollback_is_possible' <=> esp_ota_check_rollback_is_possible
        BY <1>1, <2>2, <3>1 DEF esp_ota_check_rollback_is_possible, Usable
      <3>3. GiveUpTrials([ota_state EXCEPT ![boot] = "INVALID"])'
              = GiveUpTrials([ota_state EXCEPT ![boot] = "INVALID"])
        <4>1. [ota_state' EXCEPT ![boot'] = "INVALID"] = [ota_state EXCEPT ![boot] = "INVALID"]
          BY <3>1
        <4>2. GiveUpTrials([ota_state' EXCEPT ![boot'] = "INVALID"])
                = GiveUpTrials([ota_state EXCEPT ![boot] = "INVALID"])
          BY <4>1, Zenon
        <4>3. GiveUpTrials([ota_state EXCEPT ![boot] = "INVALID"])'
                = GiveUpTrials([ota_state' EXCEPT ![boot'] = "INVALID"])
          BY DEF GiveUpTrials
        <4>. QED BY <4>2, <4>3
      <3>4. Selected(GiveUpTrials([ota_state EXCEPT ![boot] = "INVALID"]))'
              = Selected(GiveUpTrials([ota_state EXCEPT ![boot] = "INVALID"]))
        BY <2>2, <3>3 DEF Selected, Usable
      <3>5. BootTarget(GiveUpTrials([ota_state EXCEPT ![boot] = "INVALID"]))'
              = BootTarget(GiveUpTrials([ota_state EXCEPT ![boot] = "INVALID"]))
        BY <2>2, <3>4 DEF BootTarget, Intact, Turn
      <3>. QED BY <2>2, <3>2, <3>5 DEF RollbackImages
    <2>7. Promise!Confirm
      BY <2>1, <2>2, <2>4, <2>5, <2>6 DEF Promise!Confirm
    <2>. QED BY <2>7 DEF Promise!Next
  <1>8. CASE Resets /\ esp_restart
    <2>1. esp_restart_from(ota_state) /\ s_ota' = ZeroOta
      BY <1>8, ResetSteps DEF Resets, ResetStep, RamReset, esp_restart
    <2>2. \A s \in Slots : ota_state[s] = "NEW" => s = boot
      BY <1>1 DEF OtaInv, TrialDiscipline
    <2>3. flash'[running'] = NextBootImage
      BY <2>1 DEF esp_restart_from, NextBootImage
    <2>4. ota_state[running] = "PENDING_VERIFY" => ota_state'[running'] # "PENDING_VERIFY"
      <3>1. SUFFICES ASSUME ota_state[running] = "PENDING_VERIFY"
                     PROVE  \A s \in Slots : ota_state'[s] # "PENDING_VERIFY"
        BY DEF IndInv, DeviceInv, OtaInv, OtaTypeOK, EspTypeOK
      <3>2. \A s \in Slots : GiveUpTrials(ota_state)[s] \notin {"NEW", "PENDING_VERIFY"}
        BY <1>1, <2>2, <3>1 DEF OtaInv, TrialDiscipline, GiveUpTrials
      <3>3. \A s \in Slots : ota_state'[s] \in {GiveUpTrials(ota_state)[s]}
        BY <2>1, <3>2 DEF esp_restart_from, GiveUpTrials
      <3>. QED BY <3>2, <3>3
    <2>5. ota_state'[running'] # "PENDING_VERIFY" => NextBootImage' = flash'[running']
      BY <1>1, <2>1, <2>2, RestartSettles
    <2>6. ota_state[running] = "PENDING_VERIFY" => RollbackImages' = {}
      <3>1. ota_state[running] = "PENDING_VERIFY" => ~Usable(GiveUpTrials(ota_state), boot)
        BY <1>1 DEF OtaInv, TrialDiscipline, GiveUpTrials, Usable
      <3>. QED BY <1>1, <2>1, <3>1, NoWayBack
    <2>7. ota_state[running] # "PENDING_VERIFY" =>
            /\ RollbackImages' \in {RollbackImages, {}}
            /\ ota_state'[running'] = "PENDING_VERIFY" =>
                 RollbackImages' = RollbackImages /\ RollbackImages \subseteq {NextBootImage'}
      BY <2>1, WayBackKept
    <2>8. Promise!Reset
      BY <2>3, <2>4, <2>5, <2>6, <2>7 DEF Promise!Reset
    <2>. QED BY <2>8 DEF Promise!Next
  <1>9. CASE Resets /\ esp_ota_mark_app_invalid_rollback_and_reboot
    <2>. DEFINE states == [ota_state EXCEPT ![boot] = "INVALID"]
    <2>1. esp_restart_from(states)
      BY <1>9 DEF esp_ota_mark_app_invalid_rollback_and_reboot
    <2>2. /\ states \in [Slots -> ImageStates]
          /\ \A s \in Slots : states[s] # "NEW"
      BY <1>1, RestartStates DEF OtaInv, TrialDiscipline
    <2>. ~Usable(GiveUpTrials(states), boot)
      BY <1>1 DEF GiveUpTrials, Usable
    <2>. RollbackImages = {flash'[running']}
      BY <1>9, <2>1 DEF esp_ota_mark_app_invalid_rollback_and_reboot, esp_restart_from, RollbackImages
    <2>. HIDE DEF states
    <2>3. \A s \in Slots : GiveUpTrials(states)[s] \notin {"NEW", "PENDING_VERIFY"}
      BY <2>2 DEF GiveUpTrials
    <2>4. \A s \in Slots : ota_state'[s] \in {GiveUpTrials(states)[s]}
      BY <2>1, <2>3 DEF esp_restart_from, GiveUpTrials
    <2>5. ota_state'[running'] # "PENDING_VERIFY"
      BY <2>3, <2>4 DEF IndInv, DeviceInv, OtaInv, OtaTypeOK, EspTypeOK
    <2>6. NextBootImage' = flash'[running']
      BY <2>1, <2>2, <2>5, RestartSettles
    <2>7. RollbackImages' = {}
      BY <2>1, <2>2, NoWayBack
    <2>8. Promise!Reject
      BY <2>5, <2>6, <2>7 DEF Promise!Reject
    <2>. QED BY <2>8 DEF Promise!Next
  <1>10. Resets => esp_restart \/ esp_ota_mark_app_invalid_rollback_and_reboot
    BY DEF Resets, RebootNow, RollbackNow, HealthReject, PowerLoss
  <1>. QED BY <1>2, <1>3, <1>4, <1>5, <1>6, <1>7, <1>8, <1>9, <1>10 DEF Next, Tasks

\* With at most two slots, the device with its slots, OTA data, sessions and
\* tasks implements the promise of AtomicUpdate.
THEOREM Refinement == ASSUME NSlots <= 2 PROVE Spec => ImplementsAtomicUpdate
  <1>1. Init => Promise!Init
    <2>. SUFFICES ASSUME Init PROVE Promise!Init
      OBVIOUS
    <2>1. IndInv /\ NextBootOk
      BY InitInv, NextBoot
    <2>2. 0 \in Slots /\ flash[0] = FactoryImage /\ ota_state[0] = "VALID" /\ boot = 0 /\ running = 0
      BY NSlotsAssumption DEF Init, DeviceInit, OtaInit, EspInit, Slots
    <2>3. Selected(GiveUpTrials(ota_state)) = 0 /\ 0 \in Intact
      BY <2>2, FactoryAssumption DEF Selected, GiveUpTrials, Usable, Intact
    <2>4. NextBootImage = FactoryImage
      BY <2>1, <2>2, <2>3 DEF NextBootOk, NextBootImage
    <2>5. RollbackImages = {}
      <3>1. \A s \in Slots \ {0} : ~Usable(ota_state, s)
        BY DEF Init, DeviceInit, OtaInit, EspInit, Usable
      <3>. QED BY <2>2, <3>1 DEF RollbackImages, esp_ota_check_rollback_is_possible
    <2>. QED BY <2>2, <2>4, <2>5 DEF Promise!Init
  <1>2. IndInv /\ IndInv' /\ NextBootOk' /\ WayBackOk /\ WayBackOk'
          /\ (NextBootImage \in IntactImages /\ flash[running] \in IntactImages)'
          /\ [Next]_vars => [Promise!Next]_(Promise!vars)
    BY StepRefines
  <1>. QED
    BY <1>1, <1>2, Inductive, NextBoot, WayBack, NextBootImages, PTL
       DEF Spec, ImplementsAtomicUpdate, Promise!Spec
=============================================================================
