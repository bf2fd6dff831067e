------------------------------- MODULE Upload -------------------------------
(***************************************************************************)
(* The update operation of otalink.py against the session manager of the   *)
(* device.  The client reads the firmware file three times, for its size,  *)
(* for its digest and for its bytes, and a build may put another version   *)
(* in its place between any two reads, or under the open file.             *)
(*                                                                         *)
(* The line is reduced to its outcome: a request is lost, or carried out   *)
(* and answered, or carried out while every answer is lost.  Retries are   *)
(* the subject of Link.  All of it happens in one boot of the device.      *)
(***************************************************************************)
EXTENDS OtaManager

CONSTANTS
    Files,           \* the versions of the firmware file
    ClientChunk,     \* max_ota_chunk_data_size()
    MaxUpdates,      \* bound on the updates the operator starts
    MaxEdits         \* bound on the edits of the file

ASSUME UploadAssumption ==
    /\ Files \subseteq Seq(Byte)
    /\ ClientChunk \in 1 .. MaxChunk

DigestLength == 1    \* thirty-two bytes: one digest of EspOta

\* What chunks read from the versions of the file can leave in a slot.
FileBytes == UNION {{f[i] : i \in 1 .. Len(f)} : f \in Files}
Mixtures ==
    {m \in UNION {[1 .. n -> FileBytes] : n \in 0 .. PartitionSize} :
       \A i \in 1 .. Len(m) : \E f \in Files : i <= Len(f) /\ m[i] = f[i]}

\* SHA-256 tells a version of the file from everything else that an update of
\* these files can put in its place.
ASSUME DigestAssumption ==
    \A f \in Files, m \in Mixtures :
      Len(f) >= DigestLength /\ ImageOk(m) /\ ImageSha(m) = ImageSha(f) => m = f

VARIABLES
    file,            \* the firmware file as it is now
    c,               \* the client in run_update_begin, _data and _end
    updates, edits,  \* updates started, edits made
    announced,       \* history: the version whose digest opened the session
    accepted         \* history: what the last successful OTA_END accepted,
                     \* and what had been announced

vars == <<otaVars, file, c, updates, edits, announced, accepted>>
clientOnly == <<otaVars, file, edits, announced, accepted>>

\* edited and refused are history: whether the file was edited since its size
\* was read, and the answer that ended the update.
AtPrompt ==
    [ phase |-> "PROMPT", size |-> 0, version |-> <<>>, open |-> <<>>, sent |-> 0,
      edited |-> FALSE, refused |-> "NONE" ]

Init ==
    /\ OtaInit
    /\ file \in Files
    /\ c = AtPrompt
    /\ updates = 0 /\ edits = 0
    /\ announced = <<>>
    /\ accepted = [announced |-> <<>>, image |-> <<>>]

-----------------------------------------------------------------------------
(***************************************************************************)
(* firmware_metadata, its stat and its two later opens.                    *)
(***************************************************************************)
ReadSize ==
    /\ c.phase = "PROMPT"
    /\ updates < MaxUpdates
    /\ updates' = updates + 1
    /\ Len(file) >= DigestLength
    /\ c' = [AtPrompt EXCEPT !.phase = "SIZED", !.size = Len(file)]
    /\ UNCHANGED clientOnly

\* The last bytes of the file; seek fails in a file that has become too short.
ReadDigest ==
    /\ c.phase = "SIZED"
    /\ c' = IF Len(file) < DigestLength
            THEN AtPrompt
            ELSE [c EXCEPT !.phase = "DIGESTED", !.version = file]
    /\ UNCHANGED <<clientOnly, updates>>

-----------------------------------------------------------------------------
\* ensure_ack, in a request that was answered or not; next is the client after
\* a success.
Answered(ret, next) ==
    \/ c' = IF ret = "OK" THEN next ELSE [c EXCEPT !.phase = "PROMPT", !.refused = ret]
    \/ c' = [c EXCEPT !.phase = "PROMPT"]

Begin ==
    /\ c.phase = "DIGESTED"
    /\ \E ret \in {"OK", "OTA_ALREADY_STARTED", "OTA_SIZE_ERROR", "OTA_INVALID_IMAGE",
                   "OTA_FLASH_ERROR"} :
         /\ ota_manager_begin([well_formed |-> TRUE, firmware_size |-> c.size,
                               sha256 |-> ImageSha(c.version)], ret)
         /\ announced' = IF ret = "OK" THEN c.version ELSE announced
         /\ Answered(ret, [c EXCEPT !.phase = "OPEN"])
    /\ UNCHANGED <<file, updates, edits, accepted>>

OpenFile ==
    /\ c.phase = "OPEN"
    /\ c' = [c EXCEPT !.phase = "DATA", !.open = file, !.sent = 0]
    /\ UNCHANGED <<clientOnly, updates>>

\* Mutant: every read is a full one.
FullChunk ==
    [i \in 1 .. ClientChunk |->
       IF c.sent + i <= Len(c.open) THEN c.open[c.sent + i] ELSE ZeroSha]

\* firmware.read: what is left, at most ClientChunk bytes of it.
Chunk ==
    SubSeq(c.open, c.sent + 1,
           IF c.sent + ClientChunk < Len(c.open) THEN c.sent + ClientChunk ELSE Len(c.open))

Data ==
    /\ c.phase = "DATA"
    /\ c.sent < Len(c.open)
    /\ \E ret \in {"OK", "OTA_NOT_STARTED", "INVALID_LENGTH", "OTA_INVALID_OFFSET",
                   "OTA_SIZE_ERROR", "OTA_FLASH_ERROR"} :
         /\ ota_manager_write_data([offset |-> c.sent, data |-> Chunk], ret)
         /\ Answered(ret, [c EXCEPT !.sent = @ + Len(Chunk)])
    /\ UNCHANGED <<file, updates, edits, announced, accepted>>

EndOfFile ==
    /\ c.phase = "DATA"
    /\ c.sent >= Len(c.open)
    /\ c' = [c EXCEPT !.phase = "END"]
    /\ UNCHANGED <<clientOnly, updates>>

\* run_update_end, after the data or as the shell's own command.
End ==
    /\ \E ret \in {"OK", "OTA_NOT_STARTED", "OTA_SIZE_ERROR", "OTA_INVALID_IMAGE",
                   "OTA_HASH_MISMATCH"} :
         /\ ota_manager_end(ret)
         /\ accepted' = IF ret = "OK"
                        THEN [announced |-> announced, image |-> flash[s_ota.partition]]
                        ELSE accepted
         /\ \/ c.phase = "END" /\ Answered(ret, [c EXCEPT !.phase = "PROMPT"])
            \/ c.phase = "PROMPT" /\ UNCHANGED c
    /\ UNCHANGED <<file, updates, edits, announced>>

\* run_abort.
Abort ==
    /\ c.phase = "PROMPT"
    /\ \E ret \in {"OK", "OTA_NOT_STARTED", "OTA_FLASH_ERROR"} : ota_manager_abort(ret)
    /\ UNCHANGED <<file, c, updates, edits, announced, accepted>>

\* Every copy of a request is lost.
GiveUp ==
    /\ c.phase \in {"DIGESTED", "DATA", "END"}
    /\ c' = [c EXCEPT !.phase = "PROMPT"]
    /\ UNCHANGED <<clientOnly, updates>>

\* A build replaces the file, and the open file keeps the old bytes, or
\* rewrites it in place.
EditFile ==
    /\ edits < MaxEdits
    /\ edits' = edits + 1
    /\ file' \in Files \ {file}
    /\ \E open \in {c.open, file'} :
         c' = [c EXCEPT !.edited = TRUE, !.open = IF c.phase = "DATA" THEN open ELSE @]
    /\ UNCHANGED <<otaVars, updates, announced, accepted>>

Next ==
    \/ ReadSize \/ ReadDigest \/ Begin \/ OpenFile \/ Data \/ EndOfFile \/ End
    \/ Abort \/ GiveUp \/ EditFile

Spec == Init /\ [][Next]_vars

-----------------------------------------------------------------------------
\* What OTA_END accepts is one version of the file, whole, and the version
\* whose digest the client announced: never a mixture of versions, never a
\* version that came later.  ota_manager_end compares the image in flash with
\* the digest of OTA_BEGIN, and the client does not check the file again.
AcceptsOneVersion == accepted.announced = accepted.image

\* Nothing but an edit of the file makes an update inconsistent: as long as the
\* file stays as it was, the offsets and lengths that run_update_data sends are
\* the ones that ota_manager_write_data and ota_manager_end expect, short last
\* chunk included.
UneditedFileFits ==
    c.refused \in {"INVALID_LENGTH", "OTA_INVALID_OFFSET", "OTA_SIZE_ERROR"} =>
      c.edited \/ c.size > PartitionSize
=============================================================================
