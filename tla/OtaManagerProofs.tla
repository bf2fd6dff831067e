-------------------------- MODULE OtaManagerProofs --------------------------
(***************************************************************************)
(* What each operation of the OTA session, each call of ESP-IDF and the    *)
(* bootloader preserve, for any number of slots, any partition size and    *)
(* any digest function.  The specifications that use the session manager   *)
(* build their proofs on these lemmas.                                     *)
(***************************************************************************)
EXTENDS OtaManager, WellFoundedInduction, TLAPS

-----------------------------------------------------------------------------
(***************************************************************************)
(* Facts about the primitives.                                             *)
(***************************************************************************)

\* A uint32_t sum below the modulus does not wrap.
LEMMA NoWrap ==
    ASSUME NEW a \in Nat, NEW n \in Nat, a < n
    PROVE  a % n = a
  BY SMT

\* A set of natural numbers that is not empty has a least element.
LEMMA LeastNat ==
    ASSUME NEW T, T \subseteq Nat, T # {}
    PROVE  \E x \in T : \A y \in T : x <= y
  <1>. DEFINE R == OpToRel(<, Nat)
  <1>1. PICK x \in T : \A y \in T : ~(<<y, x>> \in R)
    <2>1. IsWellFoundedOn(R, Nat)
      BY NatLessThanWellFounded, Zenon
    <2>. HIDE DEF R
    <2>. QED BY <2>1, WFMin, Zenon
  <1>2. \A y \in T : ~(y < x)
    <2>1. \A y \in T : <<y, x>> \in Nat \X Nat
      OBVIOUS
    <2>. QED BY <1>1, <2>1 DEF OpToRel
  <1>. QED BY <1>2

\* The slot that ota_manager_begin writes to is not the one that runs.
LEMMA NextPartition ==
    ASSUME EspTypeOK, esp_ota_get_next_update_partition # NoPartition
    PROVE  esp_ota_get_next_update_partition \in Slots \ {running}
  BY NSlotsAssumption DEF EspTypeOK, esp_ota_get_next_update_partition, Slots

\* The bootloader selects a slot that exists, whatever states it finds.
LEMMA SelectedInSlots ==
    ASSUME EspTypeOK, NEW states
    PROVE  Selected(states) \in Slots
  <1>1. 0 \in Slots
    BY NSlotsAssumption DEF Slots
  <1>2. CASE \E s \in Slots : Usable(states, s)
    <2>1. (CHOOSE s \in Slots : Usable(states, s)) \in Slots
      BY <1>2, Zenon
    <2>. QED BY <2>1, <1>1 DEF Selected, EspTypeOK
  <1>. QED BY <1>1, <1>2 DEF Selected, EspTypeOK

\* The bootloader always finds an intact image, at worst the one that ran, and
\* it is the first in the order in which it tries the slots.
LEMMA BootTargetFirst ==
    ASSUME EspTypeOK, RunningSlotIntact, NEW states
    PROVE  /\ BootTarget(states) \in Intact
           /\ \A t \in Intact : Turn(Selected(states), BootTarget(states))
                                  <= Turn(Selected(states), t)
  <1>. DEFINE sel == Selected(states)
              T == {Turn(sel, s) : s \in Intact}
  <1>1. sel \in Slots /\ Intact \subseteq Slots /\ running \in Intact
    BY SelectedInSlots DEF Intact, EspTypeOK, RunningSlotIntact
  <1>. HIDE DEF sel
  <1>2. T \subseteq Nat /\ T # {}
    BY <1>1, NSlotsAssumption DEF Turn, Slots
  <1>3. PICK x \in T : \A y \in T : x <= y
    <2>. HIDE DEF T
    <2>. QED BY <1>2, LeastNat
  <1>4. \E s \in Intact : \A t \in Intact : Turn(sel, s) <= Turn(sel, t)
    BY <1>3
  <1>. DEFINE first == CHOOSE s \in Intact : \A t \in Intact : Turn(sel, s) <= Turn(sel, t)
  <1>5. first \in Intact /\ \A t \in Intact : Turn(sel, first) <= Turn(sel, t)
    BY <1>4, Zenon
  <1>6. BootTarget(states) = first
    BY Zenon DEF BootTarget, sel
  <1>. HIDE DEF first
  <1>. QED BY <1>5, <1>6, Zenon DEF sel

\* What the bootloader starts is in a slot and intact.
LEMMA BootTargetIntact ==
    ASSUME EspTypeOK, RunningSlotIntact, NEW states
    PROVE  /\ BootTarget(states) \in Slots
           /\ ImageOk(flash[BootTarget(states)])
  BY BootTargetFirst DEF Intact

\* It is the selected image if that is intact.
LEMMA SelectedFirst ==
    ASSUME EspTypeOK, RunningSlotIntact, NEW states, Selected(states) \in Intact
    PROVE  BootTarget(states) = Selected(states)
  <1>1. /\ BootTarget(states) \in Slots
        /\ Turn(Selected(states), BootTarget(states)) <= Turn(Selected(states), Selected(states))
    BY BootTargetFirst DEF Intact
  <1>2. Selected(states) \in Slots
    BY SelectedInSlots
  <1>. QED BY <1>1, <1>2, NSlotsAssumption DEF Turn, Slots

\* What memset leaves in s_ota is a session state with no session.
LEMMA ZeroOtaType == ZeroOta \in OtaStates /\ ~ZeroOta.active
  <1>1. Byte # {}
    BY FactoryAssumption DEF ImageOk
  <1>2. ZeroSha \in Byte
    BY <1>1, Zenon DEF ZeroSha
  <1>3. << >> \in Seq(Byte)
    OBVIOUS
  <1>. QED BY <1>2, <1>3 DEF ZeroOta, OtaStates

\* What appending a chunk does to the bytes of a slot.
LEMMA Appended ==
    ASSUME NEW old \in Seq(Byte), NEW data \in Seq(Byte)
    PROVE  /\ old \o data \in Seq(Byte)
           /\ Len(old \o data) = Len(old) + Len(data)
           /\ \A i \in 1 .. Len(old) : (old \o data)[i] = old[i]
           /\ \A i \in 1 .. Len(data) : (old \o data)[Len(old) + i] = data[i]
  OBVIOUS

-----------------------------------------------------------------------------
(***************************************************************************)
(* The invariant of the session manager and the services under it.  Typing *)
(* is part of it and not a step before it: that the handle count stays a   *)
(* natural number rests on the session bookkeeping, and that the           *)
(* bootloader picks a slot at all rests on the running slot being intact.  *)
(***************************************************************************)
\* No slot holds more than a partition can.
FlashFits == \A s \in Slots : Len(flash[s]) <= PartitionSize

OtaInv ==
    /\ OtaTypeOK
    /\ FlashFits
    /\ SessionAgreesWithFlash
    /\ RunningSlotIntact
    /\ TrialDiscipline

\* The device leaves the bench with the invariant.
LEMMA OtaInitInv == OtaInit => OtaInv
  <1>. SUFFICES ASSUME OtaInit PROVE OtaInv
    OBVIOUS
  <1>. USE DEF OtaInit, EspInit
  <1>1. 0 \in Slots
    BY NSlotsAssumption DEF Slots
  <1>2. EspTypeOK
    BY <1>1, FactoryAssumption DEF EspTypeOK, ImageStates
  <1>3. OtaTypeOK
    BY <1>2, ZeroOtaType DEF OtaTypeOK
  <1>4. RunningSlotIntact
    BY <1>1, FactoryAssumption DEF RunningSlotIntact
  <1>5. SessionAgreesWithFlash
    BY ZeroOtaType DEF SessionAgreesWithFlash
  <1>6. TrialDiscipline
    BY <1>1, ZeroOtaType DEF TrialDiscipline
  <1>7. FlashFits
    BY FactoryAssumption, PartitionSizeAssumption DEF FlashFits
  <1>. QED BY <1>3, <1>4, <1>5, <1>6, <1>7 DEF OtaInv

\* A call that is refused changes nothing.
LEMMA OtaStutter ==
    ASSUME OtaInv, UNCHANGED otaVars
    PROVE  OtaInv'
  BY DEF OtaInv, otaVars, espVars, OtaTypeOK, EspTypeOK, FlashFits, RunningSlotIntact,
         SessionAgreesWithFlash, TrialDiscipline, esp_ota_get_next_update_partition

-----------------------------------------------------------------------------
(***************************************************************************)
(* The operations of ota_manager.c.  Besides the invariant, each lemma     *)
(* says what the operation cannot touch.                                   *)
(***************************************************************************)

\* OTA_BEGIN, refused, failed or carried out.
LEMMA OtaBeginInv ==
    ASSUME OtaInv, NEW p, NEW ret, ota_manager_begin(p, ret),
           p.firmware_size \in Nat, p.sha256 \in Byte
    PROVE  /\ OtaInv'
           /\ UNCHANGED <<ota_state, boot, running>>
           /\ \/ UNCHANGED flash
              \/ /\ ota_state[running] # "PENDING_VERIFY"
                 /\ esp_ota_get_next_update_partition \in Slots \ {running}
                 /\ flash' = [flash EXCEPT ![esp_ota_get_next_update_partition] = <<>>]
           /\ s_ota' = s_ota \/ (~s_ota.active /\ s_ota'.active /\ s_ota'.bytes_received = 0)
  <1>. DEFINE slot == esp_ota_get_next_update_partition
  <1>1. EspTypeOK /\ s_ota \in OtaStates
    BY DEF OtaInv, OtaTypeOK
  <1>2. CASE BeginError(p) # "OK"
    <2>1. UNCHANGED otaVars
      BY <1>2 DEF ota_manager_begin
    <2>. QED BY <2>1, OtaStutter DEF otaVars, espVars
  <1>3. CASE BeginError(p) = "OK"
    <2>1. /\ ~s_ota.active /\ slot # NoPartition /\ p.firmware_size <= PartitionSize
      BY <1>3, PartitionSizeAssumption DEF BeginError
    <2>2. slot \in Slots \ {running}
      BY <1>1, <2>1, NextPartition
    <2>. HIDE DEF slot
    <2>3. /\ \/ /\ ota_state[running] # "PENDING_VERIFY"
                /\ flash' = [flash EXCEPT ![slot] = <<>>]
             \/ flash' = flash
          /\ UNCHANGED <<ota_state, boot, running>>
      BY <1>3 DEF ota_manager_begin, esp_ota_begin, slot
    <2>4. /\ flash' \in [Slots -> Seq(Byte)]
          /\ flash'[running] = flash[running]
          /\ FlashFits'
      <3>1. << >> \in Seq(Byte) /\ Len(<< >>) = 0
        OBVIOUS
      <3>2. /\ flash' \in [Slots -> Seq(Byte)]
            /\ flash'[running] = flash[running]
        BY <1>1, <2>2, <2>3, <3>1 DEF EspTypeOK
      <3>3. \A s \in Slots : flash'[s] = flash[s] \/ flash'[s] = << >>
        BY <1>1, <2>2, <2>3 DEF EspTypeOK
      <3>. QED BY <3>1, <3>2, <3>3, PartitionSizeAssumption DEF FlashFits, OtaInv
    <2>5. RunningSlotIntact'
      BY <2>3, <2>4 DEF OtaInv, RunningSlotIntact
    <2>6. CASE s_ota' = s_ota /\ open_handles' = open_handles
      <3>1. OtaTypeOK'
        BY <1>1, <2>3, <2>4, <2>6 DEF OtaTypeOK, EspTypeOK
      <3>2. SessionAgreesWithFlash'
        BY <2>1, <2>6 DEF OtaInv, SessionAgreesWithFlash
      <3>3. TrialDiscipline'
        BY <2>1, <2>3, <2>6 DEF OtaInv, TrialDiscipline, esp_ota_get_next_update_partition
      <3>. QED BY <2>2, <2>3, <2>4, <2>5, <2>6, <3>1, <3>2, <3>3 DEF OtaInv, slot
    <2>7. CASE /\ ota_state[running] # "PENDING_VERIFY"
               /\ flash' = [flash EXCEPT ![slot] = <<>>]
               /\ open_handles' = open_handles + 1
               /\ s_ota' = NewSession(p)
      <3>1. s_ota' \in OtaStates
        BY <2>1, <2>2, <2>7 DEF OtaStates, NewSession, slot
      <3>2. /\ s_ota'.active /\ s_ota'.partition = slot
            /\ s_ota'.firmware_size = p.firmware_size /\ s_ota'.bytes_received = 0
            /\ s_ota'.last_chunk_offset = 0 /\ s_ota'.last_chunk_data = <<>>
        BY <2>7 DEF NewSession, slot
      <3>3. flash'[slot] = <<>>
        BY <1>1, <2>2, <2>7 DEF EspTypeOK
      <3>4. open_handles = 0 /\ open_handles' = 1
        BY <2>1, <2>7 DEF OtaInv, SessionAgreesWithFlash
      <3>5. OtaTypeOK'
        BY <1>1, <2>3, <2>4, <3>1, <3>4 DEF OtaTypeOK, EspTypeOK
      <3>6. slot = esp_ota_get_next_update_partition'
        BY <2>3 DEF slot, esp_ota_get_next_update_partition
      <3>7. SessionAgreesWithFlash'
        BY <2>1, <2>2, <2>3, <3>2, <3>3, <3>4, <3>6 DEF SessionAgreesWithFlash
      <3>8. TrialDiscipline'
        BY <2>3, <2>7, <3>6 DEF OtaInv, TrialDiscipline, slot
      <3>. QED
        BY <2>1, <2>2, <2>3, <2>4, <2>5, <2>7, <3>2, <3>5, <3>7, <3>8 DEF OtaInv, slot
    <2>. QED
      BY <1>3, <2>6, <2>7 DEF ota_manager_begin, esp_ota_begin, slot
  <1>. QED BY <1>2, <1>3

\* OTA_DATA that writes: the chunk goes to the end of the slot, below 2^32.
LEMMA OtaWrittenInv ==
    ASSUME OtaInv, NEW p, p.offset \in Nat, p.data \in Seq(Byte),
           WriteVerdict(p) = "WRITE",
           esp_ota_write(s_ota.partition, p.data, TRUE),
           s_ota' = SessionWithChunk(p)
    PROVE  /\ OtaInv'
           /\ UNCHANGED <<ota_state, boot, running>>
           /\ s_ota.active /\ s_ota'.active
           /\ s_ota.partition = esp_ota_get_next_update_partition
           /\ s_ota.partition \in Slots \ {running}
           /\ s_ota'.partition = s_ota.partition
           /\ p.offset = Len(flash[s_ota.partition]) /\ Len(p.data) > 0
           /\ s_ota'.bytes_received = p.offset + Len(p.data)
           /\ s_ota'.firmware_size = s_ota.firmware_size
           /\ flash' = [flash EXCEPT ![s_ota.partition] = @ \o p.data]
  <1>. DEFINE slot == s_ota.partition
              old  == flash[slot]
              data == p.data
  <1>1. /\ s_ota.active /\ data # <<>> /\ ~(Len(data) > MaxChunk)
        /\ p.offset = s_ota.bytes_received
        /\ ~((p.offset + Len(data)) % U32 > s_ota.firmware_size)
    BY DEF WriteVerdict
  <1>2. EspTypeOK /\ s_ota \in OtaStates
    BY DEF OtaInv, OtaTypeOK
  <1>3. /\ slot = esp_ota_get_next_update_partition /\ slot \in Slots \ {running}
        /\ s_ota.bytes_received = Len(old)
        /\ s_ota.bytes_received <= s_ota.firmware_size
        /\ s_ota.firmware_size <= PartitionSize
        /\ open_handles = 1
    BY <1>1 DEF OtaInv, SessionAgreesWithFlash
  <1>4. /\ s_ota.bytes_received \in Nat /\ s_ota.firmware_size \in Nat
        /\ s_ota.expected_sha256 \in Byte
        /\ old \in Seq(Byte) /\ data \in Seq(Byte) /\ Len(data) \in Nat /\ Len(data) > 0
    BY <1>1, <1>2, <1>3 DEF OtaStates, EspTypeOK
  <1>5. (p.offset + Len(data)) % U32 = p.offset + Len(data)
    <2>1. p.offset \in Nat /\ Len(data) \in Nat /\ MaxChunk \in Nat /\ U32 \in Nat
      BY <1>1, <1>4, WidthAssumption
    <2>2. p.offset <= PartitionSize /\ Len(data) <= MaxChunk
      BY <1>1, <1>3, <1>4, <2>1, PartitionSizeAssumption
    <2>. HIDE DEF data
    <2>3. p.offset + Len(data) \in Nat /\ p.offset + Len(data) < U32
      BY <2>1, <2>2, WidthAssumption, PartitionSizeAssumption
    <2>. QED BY <2>1, <2>3, NoWrap
  <1>6. /\ flash' = [flash EXCEPT ![slot] = old \o data]
        /\ UNCHANGED <<ota_state, boot, running, open_handles>>
    BY DEF esp_ota_write
  <1>7. /\ flash' \in [Slots -> Seq(Byte)]
        /\ flash'[slot] = old \o data
        /\ flash'[running] = flash[running]
        /\ \A s \in Slots : s # slot => flash'[s] = flash[s]
    BY <1>2, <1>3, <1>4, <1>6, Appended DEF EspTypeOK
  <1>8. /\ s_ota'.active /\ s_ota'.partition = slot
        /\ s_ota'.firmware_size = s_ota.firmware_size
        /\ s_ota'.bytes_received = Len(old) + Len(data)
        /\ s_ota'.last_chunk_offset = Len(old) /\ s_ota'.last_chunk_data = data
    BY <1>1, <1>3, <1>5 DEF SessionWithChunk
  <1>9. s_ota' \in OtaStates
    <2>1. Len(old) + Len(data) \in Nat /\ Len(old) \in Nat
      <3>1. Len(old) \in Nat /\ Len(data) \in Nat
        BY <1>3, <1>4
      <3>. HIDE DEF old, data
      <3>. QED BY <3>1
    <2>2. slot \in Slots \cup {NoPartition}
      BY <1>3
    <2>3. s_ota' = [ active            |-> TRUE,
                     firmware_size     |-> s_ota.firmware_size,
                     bytes_received    |-> Len(old) + Len(data),
                     last_chunk_offset |-> Len(old),
                     last_chunk_data   |-> data,
                     expected_sha256   |-> s_ota.expected_sha256,
                     partition         |-> slot ]
      BY <1>1, <1>3, <1>5 DEF SessionWithChunk
    <2>. HIDE DEF old, data, slot
    <2>. QED BY <1>4, <2>1, <2>2, <2>3 DEF OtaStates
  <1>. HIDE DEF old, data, slot
  <1>10. OtaTypeOK'
    BY <1>2, <1>6, <1>7, <1>9 DEF OtaTypeOK, EspTypeOK
  <1>11. slot = esp_ota_get_next_update_partition'
    BY <1>3, <1>6 DEF esp_ota_get_next_update_partition
  <1>12. /\ Len(flash'[slot]) = Len(old) + Len(data)
         /\ Len(old) + Len(data) <= s_ota.firmware_size
    BY <1>1, <1>3, <1>4, <1>5, <1>7, Appended DEF data
  <1>13. SessionAgreesWithFlash'
    <2>1. \A i \in 1 .. Len(data) : flash'[slot][Len(old) + i] = data[i]
      BY <1>4, <1>7, Appended
    <2>. QED BY <1>3, <1>6, <1>8, <1>11, <1>12, <2>1 DEF SessionAgreesWithFlash
  <1>14. FlashFits'
    <2>1. Len(flash'[slot]) <= PartitionSize
      BY <1>3, <1>4, <1>12, PartitionSizeAssumption
    <2>. QED BY <1>7, <2>1 DEF OtaInv, FlashFits
  <1>15. RunningSlotIntact' /\ TrialDiscipline'
    BY <1>1, <1>3, <1>6, <1>7, <1>11 DEF OtaInv, RunningSlotIntact, TrialDiscipline
  <1>16. OtaInv'
    BY <1>10, <1>13, <1>14, <1>15 DEF OtaInv
  <1>17. /\ p.offset = Len(flash[s_ota.partition]) /\ Len(p.data) > 0
         /\ s_ota'.bytes_received = p.offset + Len(p.data)
         /\ flash' = [flash EXCEPT ![s_ota.partition] = @ \o p.data]
    BY <1>1, <1>3, <1>4, <1>6, <1>8 DEF old, data, slot
  <1>. QED BY <1>1, <1>3, <1>6, <1>8, <1>16, <1>17 DEF slot

\* OTA_DATA, refused, retried, failed or written.
LEMMA OtaDataInv ==
    ASSUME OtaInv, NEW p, NEW ret, ota_manager_write_data(p, ret),
           p.offset \in Nat, p.data \in Seq(Byte)
    PROVE  /\ OtaInv'
           /\ UNCHANGED <<ota_state, boot, running>>
           /\ \/ UNCHANGED otaVars
              \/ /\ WriteVerdict(p) = "WRITE" /\ ret = "OK"
                 /\ esp_ota_write(s_ota.partition, p.data, TRUE)
                 /\ s_ota' = SessionWithChunk(p)
  <1>1. \/ UNCHANGED otaVars
        \/ /\ WriteVerdict(p) = "WRITE" /\ ret = "OK"
           /\ esp_ota_write(s_ota.partition, p.data, TRUE)
           /\ s_ota' = SessionWithChunk(p)
    BY DEF ota_manager_write_data, esp_ota_write, otaVars, espVars
  <1>2. CASE UNCHANGED otaVars
    BY <1>2, OtaStutter DEF otaVars, espVars
  <1>3. CASE /\ WriteVerdict(p) = "WRITE" /\ ret = "OK"
             /\ esp_ota_write(s_ota.partition, p.data, TRUE)
             /\ s_ota' = SessionWithChunk(p)
    BY <1>3, OtaWrittenInv
  <1>. QED BY <1>1, <1>2, <1>3

\* OTA_END, whichever of its ESP-IDF calls fails.
LEMMA OtaEndInv ==
    ASSUME OtaInv, NEW ret, ota_manager_end(ret)
    PROVE  /\ OtaInv'
           /\ UNCHANGED <<flash, running>>
           /\ \/ UNCHANGED otaVars /\ ret # "OK"
              \/ /\ EndError = "OK" /\ s_ota.active /\ s_ota' = ZeroOta /\ ret # "OK"
                 /\ UNCHANGED <<ota_state, boot>>
              \/ /\ EndError = "OK" /\ s_ota.active /\ s_ota' = ZeroOta
                 /\ EndSelects(ret)
                 /\ s_ota.partition = esp_ota_get_next_update_partition
                 /\ s_ota.partition \in Slots \ {running}
                 /\ ota_state[running] # "PENDING_VERIFY"
                 /\ ota_state' = OtaDataWithNew(s_ota.partition)
                 /\ boot' = s_ota.partition
  <1>. DEFINE slot == s_ota.partition
  <1>1. EspTypeOK
    BY DEF OtaInv, OtaTypeOK
  <1>2. CASE EndError # "OK"
    <2>1. UNCHANGED otaVars /\ ret # "OK"
      BY <1>2 DEF ota_manager_end
    <2>. QED BY <2>1, OtaStutter DEF otaVars, espVars
  <1>3. CASE EndError = "OK"
    <2>0. (EndFails(ret) \/ EndSelects(ret)) /\ HandleFreed /\ s_ota' = ZeroOta
      BY <1>3 DEF ota_manager_end
    <2>1. s_ota.active
      BY <1>3 DEF EndError
    <2>2. /\ slot = esp_ota_get_next_update_partition /\ slot \in Slots \ {running}
          /\ open_handles = 1 /\ ota_state[running] # "PENDING_VERIFY"
      BY <2>1 DEF OtaInv, SessionAgreesWithFlash, TrialDiscipline
    <2>3. flash' = flash /\ running' = running /\ open_handles' = 0
      BY <2>0, <2>2 DEF EndFails, EndSelects, esp_ota_set_boot_partition, HandleFreed
    <2>4. \/ UNCHANGED <<ota_state, boot>> /\ ret # "OK"
          \/ EndSelects(ret) /\ ota_state' = OtaDataWithNew(slot) /\ boot' = slot
      BY <2>0 DEF EndFails, EndSelects, esp_ota_set_boot_partition
    <2>. HIDE DEF slot
    <2>5. ota_state' \in [Slots -> ImageStates] /\ boot' \in Slots
      BY <1>1, <2>2, <2>4 DEF EspTypeOK, OtaDataWithNew, ImageStates
    <2>6. OtaTypeOK'
      BY <1>1, <2>0, <2>2, <2>3, <2>5, ZeroOtaType DEF OtaTypeOK, EspTypeOK
    <2>7. SessionAgreesWithFlash' /\ RunningSlotIntact' /\ FlashFits'
      BY <2>0, <2>3, ZeroOtaType
         DEF OtaInv, SessionAgreesWithFlash, RunningSlotIntact, FlashFits
    <2>8. TrialDiscipline'
      <3>1. esp_ota_get_next_update_partition' = slot
        BY <2>2, <2>3 DEF esp_ota_get_next_update_partition
      <3>2. CASE UNCHANGED <<ota_state, boot>>
        BY <2>0, <2>2, <2>3, <3>1, <3>2, ZeroOtaType DEF OtaInv, TrialDiscipline
      <3>3. CASE ota_state' = OtaDataWithNew(slot) /\ boot' = slot
        <4>1. \A s \in Slots : ota_state[s] = "NEW" => s = slot
          BY <2>2 DEF OtaInv, TrialDiscipline
        <4>2. \A s \in Slots : ota_state'[s] = "NEW" => s = slot
          BY <3>3, <4>1 DEF OtaDataWithNew
        <4>3. ota_state'[running] # "PENDING_VERIFY"
          BY <1>1, <2>2, <3>3 DEF OtaDataWithNew, EspTypeOK
        <4>. QED BY <2>2, <2>3, <3>1, <3>3, <4>2, <4>3 DEF TrialDiscipline
      <3>. QED BY <2>4, <3>2, <3>3
    <2>9. OtaInv'
      BY <2>6, <2>7, <2>8 DEF OtaInv
    <2>. QED BY <1>3, <2>0, <2>1, <2>2, <2>3, <2>4, <2>9 DEF slot
  <1>. QED BY <1>2, <1>3

\* OTA_ABORT: the handle is freed with the session.
LEMMA OtaAbortInv ==
    ASSUME OtaInv, NEW ret, ota_manager_abort(ret)
    PROVE  /\ OtaInv'
           /\ UNCHANGED <<flash, ota_state, boot, running>>
           /\ ~s_ota'.active
           /\ ~s_ota.active => UNCHANGED otaVars
  <1>1. CASE ~s_ota.active /\ UNCHANGED otaVars
    BY <1>1, OtaStutter DEF otaVars, espVars
  <1>2. CASE /\ s_ota.active /\ HandleFreed /\ s_ota' = ZeroOta
             /\ UNCHANGED <<flash, ota_state, boot, running>>
    <2>1. open_handles = 1 /\ open_handles' = 0
      BY <1>2 DEF OtaInv, SessionAgreesWithFlash, HandleFreed
    <2>2. OtaTypeOK'
      BY <1>2, <2>1, ZeroOtaType DEF OtaInv, OtaTypeOK, EspTypeOK
    <2>3. SessionAgreesWithFlash' /\ RunningSlotIntact' /\ FlashFits'
      BY <1>2, <2>1, ZeroOtaType
         DEF OtaInv, SessionAgreesWithFlash, RunningSlotIntact, FlashFits
    <2>4. TrialDiscipline'
      BY <1>2, ZeroOtaType DEF OtaInv, TrialDiscipline, esp_ota_get_next_update_partition
    <2>. QED BY <1>2, <2>2, <2>3, <2>4, ZeroOtaType DEF OtaInv
  <1>. QED BY <1>1, <1>2 DEF ota_manager_abort

-----------------------------------------------------------------------------
(***************************************************************************)
(* Resets and confirmation.                                                *)
(***************************************************************************)

\* Whatever states the bootloader starts from, if only the selected image is
\* new, the invariant holds afterwards, and at most the selected image is on
\* trial.
LEMMA OtaRestartInv ==
    ASSUME OtaInv,
           NEW states \in [Slots -> ImageStates],
           \A s \in Slots : states[s] = "NEW" => s = boot,
           esp_restart_from(states), s_ota' = ZeroOta
    PROVE  /\ OtaInv'
           /\ \A s \in Slots : /\ ota_state'[s] # "NEW"
                               /\ ota_state'[s] = "PENDING_VERIFY" => s = boot'
  <1>. DEFINE tried == GiveUpTrials(states)
              sel   == Selected(tried)
  <1>1. EspTypeOK /\ RunningSlotIntact
    BY DEF OtaInv, OtaTypeOK
  <1>2. sel \in Slots
    BY <1>1, SelectedInSlots
  <1>3. BootTarget(tried) \in Slots /\ ImageOk(flash[BootTarget(tried)])
    BY <1>1, BootTargetIntact
  <1>4. /\ tried \in [Slots -> ImageStates]
        /\ \A s \in Slots : tried[s] # "PENDING_VERIFY"
        /\ \A s \in Slots : tried[s] = "NEW" => s = boot
    BY DEF GiveUpTrials, ImageStates
  <1>5. \A s \in Slots : tried[s] = "NEW" => s = sel
    BY <1>4 DEF Selected, Usable
  <1>6. /\ ota_state' = [tried EXCEPT ![sel] = IF @ = "NEW" THEN "PENDING_VERIFY" ELSE @]
        /\ boot' = sel
        /\ running' = BootTarget(tried)
        /\ open_handles' = 0
        /\ flash' = flash
    BY DEF esp_restart_from
  <1>. HIDE DEF tried, sel
  <1>7. ota_state' \in [Slots -> ImageStates]
    BY <1>2, <1>4, <1>6 DEF ImageStates
  <1>8. \A s \in Slots : /\ ota_state'[s] # "NEW"
                         /\ ota_state'[s] = "PENDING_VERIFY" => s = boot'
    BY <1>2, <1>4, <1>5, <1>6
  <1>9. OtaTypeOK'
    BY <1>1, <1>2, <1>3, <1>6, <1>7, ZeroOtaType DEF OtaTypeOK, EspTypeOK
  <1>10. RunningSlotIntact' /\ FlashFits'
    BY <1>3, <1>6 DEF OtaInv, RunningSlotIntact, FlashFits
  <1>11. SessionAgreesWithFlash'
    BY <1>6, ZeroOtaType DEF SessionAgreesWithFlash
  <1>12. TrialDiscipline'
    BY <1>3, <1>6, <1>8, ZeroOtaType DEF TrialDiscipline
  <1>. QED BY <1>8, <1>9, <1>10, <1>11, <1>12 DEF OtaInv

\* The states that a reset, or a rejection of the selected image, hands to the
\* bootloader.
LEMMA RestartStates ==
    ASSUME OtaInv, NEW states,
           states = ota_state \/ states = [ota_state EXCEPT ![boot] = "INVALID"]
    PROVE  /\ states \in [Slots -> ImageStates]
           /\ \A s \in Slots : states[s] = "NEW" => s = boot
  <1>1. ota_state \in [Slots -> ImageStates] /\ boot \in Slots
    BY DEF OtaInv, OtaTypeOK, EspTypeOK
  <1>2. \A s \in Slots : ota_state[s] = "NEW" => s = boot
    BY DEF OtaInv, TrialDiscipline
  <1>. QED BY <1>1, <1>2 DEF ImageStates

\* Every reset keeps the invariant.
LEMMA OtaResetInv ==
    ASSUME OtaInv, s_ota' = ZeroOta,
           \/ esp_restart
           \/ esp_ota_mark_app_invalid_rollback_and_reboot
    PROVE  OtaInv'
  <1>1. PICK states : /\ states = ota_state \/ states = [ota_state EXCEPT ![boot] = "INVALID"]
                      /\ esp_restart_from(states)
    BY DEF esp_restart, esp_ota_mark_app_invalid_rollback_and_reboot
  <1>2. /\ states \in [Slots -> ImageStates]
        /\ \A s \in Slots : states[s] = "NEW" => s = boot
    BY <1>1, RestartStates
  <1>. QED BY <1>1, <1>2, OtaRestartInv

\* Confirming the selected image keeps the invariant.
LEMMA OtaConfirmInv ==
    ASSUME OtaInv, esp_ota_mark_app_valid_cancel_rollback, UNCHANGED s_ota
    PROVE  /\ OtaInv'
           /\ \A s \in Slots : Usable(ota_state, s) => Usable(ota_state', s)
  <1>1. EspTypeOK /\ s_ota \in OtaStates
    BY DEF OtaInv, OtaTypeOK
  <1>2. /\ ota_state' = [ota_state EXCEPT ![boot] = "VALID"]
        /\ UNCHANGED <<s_ota, flash, boot, running, open_handles>>
    BY DEF esp_ota_mark_app_valid_cancel_rollback
  <1>3. ota_state' \in [Slots -> ImageStates]
    BY <1>1, <1>2 DEF EspTypeOK, ImageStates
  <1>4. OtaTypeOK'
    BY <1>1, <1>2, <1>3 DEF OtaTypeOK, EspTypeOK
  <1>5. /\ \A s \in Slots : ota_state'[s] = "NEW" => ota_state[s] = "NEW"
        /\ ota_state'[running] = "PENDING_VERIFY" => ota_state[running] = "PENDING_VERIFY"
        /\ \A s \in Slots : Usable(ota_state, s) => Usable(ota_state', s)
    BY <1>1, <1>2 DEF EspTypeOK, Usable
  <1>6. TrialDiscipline'
    BY <1>2, <1>5 DEF OtaInv, TrialDiscipline, esp_ota_get_next_update_partition
  <1>7. SessionAgreesWithFlash' /\ RunningSlotIntact' /\ FlashFits'
    BY <1>2 DEF OtaInv, SessionAgreesWithFlash, RunningSlotIntact, FlashFits,
                esp_ota_get_next_update_partition
  <1>. QED BY <1>4, <1>5, <1>6, <1>7 DEF OtaInv
=============================================================================
