---------------------------- MODULE UploadProofs ----------------------------
(***************************************************************************)
(* Proofs about an update of a file that may change while it is read, for  *)
(* any versions of the file, any chunk and partition size, and any number  *)
(* of updates and edits.  The one assumption about the digest is the one   *)
(* ota_manager_end relies on: SHA-256 tells the versions of the file from  *)
(* what an update can mix from them.                                       *)
(***************************************************************************)
EXTENDS Upload, OtaManagerProofs, SequenceTheorems

Refusals ==
    {"NONE", "OTA_ALREADY_STARTED", "OTA_NOT_STARTED", "INVALID_LENGTH", "OTA_SIZE_ERROR",
     "OTA_INVALID_OFFSET", "OTA_INVALID_IMAGE", "OTA_HASH_MISMATCH", "OTA_FLASH_ERROR"}

Clients ==
    [ phase : {"PROMPT", "SIZED", "DIGESTED", "OPEN", "DATA", "END"}, size : Nat,
      version : Seq(Byte), open : Files \cup {<<>>}, sent : Nat, edited : BOOLEAN,
      refused : Refusals ]

\* What the client knows of its file and of the session it opened.
ClientInv ==
    /\ c.phase # "PROMPT" =>
         /\ c.refused = "NONE" /\ c.size >= DigestLength
         /\ ~c.edited => c.size = Len(file)
    /\ c.phase = "DIGESTED" => c.version \in Files /\ Len(c.version) >= DigestLength
    /\ c.phase \in {"OPEN", "DATA", "END"} => s_ota.active /\ s_ota.firmware_size = c.size
    /\ c.phase = "OPEN" => s_ota.bytes_received = 0
    /\ c.phase \in {"DATA", "END"} =>
         /\ s_ota.bytes_received = c.sent
         /\ ~c.edited => c.open = file /\ c.sent <= Len(c.open)
    /\ c.phase = "DATA" => c.open \in Files
    /\ c.phase = "END" /\ ~c.edited => c.sent = Len(c.open)

\* What an open session was announced as and has received.
SessionInv ==
    s_ota.active =>
      /\ announced \in Files /\ Len(announced) >= DigestLength
      /\ s_ota.expected_sha256 = ImageSha(announced)
      /\ flash[s_ota.partition] \in Mixtures

UploadInv ==
    /\ OtaInv
    /\ file \in Files
    /\ c \in Clients
    /\ ClientInv
    /\ SessionInv
    /\ AcceptsOneVersion
    /\ UneditedFileFits

\* The facts about lengths that every step needs.
LEMMA FileFacts ==
    ASSUME UploadInv
    PROVE  /\ file \in Seq(Byte) /\ Len(file) \in Nat
           /\ c.open \in Seq(Byte) /\ Len(c.open) \in Nat
           /\ s_ota.firmware_size \in Nat /\ s_ota.bytes_received \in Nat
           /\ ClientChunk \in Nat /\ ClientChunk > 0 /\ ClientChunk <= MaxChunk
           /\ MaxChunk \in Nat
  <1>1. file \in Seq(Byte) /\ c.open \in Seq(Byte)
    <2>1. <<>> \in Seq(Byte) /\ Files \subseteq Seq(Byte)
      BY UploadAssumption
    <2>2. file \in Files /\ c.open \in Files \cup {<<>>}
      BY DEF UploadInv, Clients
    <2>. QED BY <2>1, <2>2
  <1>2. s_ota \in OtaStates
    BY DEF UploadInv, OtaInv, OtaTypeOK
  <1>3. ClientChunk \in 1 .. MaxChunk /\ MaxChunk \in Nat
    BY UploadAssumption, WidthAssumption
  <1>. QED BY <1>1, <1>2, <1>3 DEF OtaStates

\* firmware.read returns the next bytes of the open file, at least one of them.
LEMMA ChunkFacts ==
    ASSUME UploadInv, c.sent < Len(c.open)
    PROVE  /\ Chunk \in Seq(Byte) /\ Len(Chunk) \in Nat /\ Len(Chunk) > 0
           /\ Len(Chunk) <= ClientChunk /\ c.sent + Len(Chunk) <= Len(c.open)
           /\ \A i \in 1 .. Len(Chunk) : Chunk[i] = c.open[c.sent + i]
  <1>. DEFINE last == IF c.sent + ClientChunk < Len(c.open) THEN c.sent + ClientChunk
                      ELSE Len(c.open)
  <1>1. /\ c.sent \in Nat /\ c.open \in Seq(Byte) /\ Len(c.open) \in Nat
        /\ ClientChunk \in Nat /\ ClientChunk > 0
    BY FileFacts DEF UploadInv, Clients
  <1>2. /\ c.sent + 1 \in Int /\ last \in Int /\ c.sent + 1 <= last /\ last <= Len(c.open)
        /\ last - (c.sent + 1) + 1 <= ClientChunk
        /\ last - (c.sent + 1) + 1 = last - c.sent
        /\ c.sent + (last - c.sent) = last
    BY <1>1, SMTT(20)
  <1>. HIDE DEF last
  <1>3. \A i \in c.sent + 1 .. last : c.open[i] \in Byte
    BY <1>1, <1>2
  <1>4. /\ Chunk \in Seq(Byte)
        /\ Len(Chunk) = last - (c.sent + 1) + 1
        /\ \A i \in 1 .. last - (c.sent + 1) + 1 : Chunk[i] = c.open[c.sent + 1 + i - 1]
    <2>1. Chunk = SubSeq(c.open, c.sent + 1, last)
      BY DEF Chunk, last
    <2>. QED BY <1>2, <1>3, <2>1, SubSeqProperties
  <1>5. Len(Chunk) = last - c.sent /\ last - c.sent \in Nat /\ last - c.sent > 0
    BY <1>1, <1>2, <1>4
  <1>6. ASSUME NEW i \in 1 .. Len(Chunk) PROVE Chunk[i] = c.open[c.sent + i]
    <2>1. c.sent + 1 + i - 1 = c.sent + i
      BY <1>1
    <2>. QED BY <1>2, <1>4, <2>1
  <1>. QED BY <1>2, <1>4, <1>5, <1>6

\* The next bytes of a file, put where they are in that file, keep a mixture.
LEMMA MixtureGrows ==
    ASSUME NEW m \in Mixtures, NEW f \in Files, NEW d \in Seq(Byte),
           Len(m) + Len(d) <= Len(f), Len(m) + Len(d) <= PartitionSize,
           \A i \in 1 .. Len(d) : d[i] = f[Len(m) + i]
    PROVE  m \o d \in Mixtures
  <1>1. /\ m \in Seq(FileBytes) /\ Len(m) \in Nat /\ Len(d) \in Nat
        /\ \A i \in 1 .. Len(m) : \E g \in Files : i <= Len(g) /\ m[i] = g[i]
    BY SMTT(20) DEF Mixtures
  <1>2. f \in Seq(Byte) /\ Len(f) \in Nat
    BY UploadAssumption
  <1>3. \A i \in 1 .. Len(d) : Len(m) + i \in 1 .. Len(f)
    BY <1>1, <1>2
  <1>4. \A i \in 1 .. Len(d) : d[i] \in FileBytes
    BY <1>3 DEF FileBytes
  <1>5. d \in Seq(FileBytes)
    BY <1>1, <1>4
  <1>6. /\ m \o d \in Seq(FileBytes) /\ Len(m \o d) = Len(m) + Len(d)
        /\ \A i \in 1 .. Len(m) : (m \o d)[i] = m[i]
        /\ \A i \in 1 .. Len(d) : (m \o d)[Len(m) + i] = d[i]
    BY <1>1, <1>5
  <1>7. ASSUME NEW i \in 1 .. Len(m) + Len(d)
        PROVE  \E g \in Files : i <= Len(g) /\ (m \o d)[i] = g[i]
    <2>1. CASE i <= Len(m)
      BY <1>1, <1>6, <2>1
    <2>2. CASE ~(i <= Len(m))
      <3>1. i - Len(m) \in 1 .. Len(d) /\ Len(m) + (i - Len(m)) = i
        BY <1>1, <2>2
      <3>2. (m \o d)[i] = f[i] /\ i <= Len(f)
        BY <1>3, <1>6, <3>1
      <3>. QED BY <3>2
    <2>. QED BY <2>1, <2>2
  <1>8. m \o d \in [1 .. Len(m) + Len(d) -> FileBytes] /\ Len(m) + Len(d) \in 0 .. PartitionSize
    <2>. DEFINE md == m \o d
    <2>1. md \in Seq(FileBytes) /\ Len(md) = Len(m) + Len(d) /\ Len(md) \in Nat
      BY <1>1, <1>6
    <2>. HIDE DEF md
    <2>2. md \in [1 .. Len(md) -> FileBytes]
      BY <2>1
    <2>. QED BY <1>1, <2>1, <2>2, PartitionSizeAssumption DEF md
  <1>. QED BY <1>6, <1>7, <1>8 DEF Mixtures

-----------------------------------------------------------------------------
(***************************************************************************)
(* The steps.                                                              *)
(***************************************************************************)

\* The client at its prompt is well typed.
LEMMA PromptClient == AtPrompt \in Clients
  <1>. DEFINE none == << >>
  <1>1. none \in Seq(Byte) /\ none \in Files \cup {<< >>}
    OBVIOUS
  <1>2. AtPrompt = [ phase |-> "PROMPT", size |-> 0, version |-> none, open |-> none, sent |-> 0,
                     edited |-> FALSE, refused |-> "NONE" ]
    BY DEF AtPrompt
  <1>. HIDE DEF none
  <1>. QED BY <1>1, <1>2 DEF Clients, Refusals

\* The invariant holds before the first update.
LEMMA InitUpload == Init => UploadInv
  <1>. SUFFICES ASSUME Init PROVE UploadInv
    OBVIOUS
  <1>1. OtaInv /\ ~s_ota.active
    BY OtaInitInv, ZeroOtaType DEF Init, OtaInit
  <1>3. c \in Clients
    BY PromptClient DEF Init
  <1>. QED
    BY <1>1, <1>3 DEF Init, UploadInv, ClientInv, SessionInv, AcceptsOneVersion,
                      UneditedFileFits, AtPrompt

\* A step of the client alone.
LEMMA ClientStep ==
    ASSUME UploadInv, UNCHANGED clientOnly, c' \in Clients, ClientInv', UneditedFileFits'
    PROVE  UploadInv'
  <1>1. OtaInv'
    BY OtaStutter DEF UploadInv, clientOnly
  <1>. QED
    BY <1>1 DEF UploadInv, clientOnly, otaVars, espVars, SessionInv, AcceptsOneVersion

\* The client goes back to its prompt with no answer.
LEMMA Unanswered ==
    ASSUME UploadInv, c' = [c EXCEPT !.phase = "PROMPT"]
    PROVE  c' \in Clients /\ ClientInv' /\ UneditedFileFits'
  <1>1. c' \in Clients /\ c'.phase = "PROMPT"
    BY DEF UploadInv, Clients
  <1>2. c'.refused = c.refused /\ c'.edited = c.edited /\ c'.size = c.size
    BY DEF UploadInv, Clients
  <1>. QED BY <1>1, <1>2 DEF UploadInv, ClientInv, UneditedFileFits

\* The client goes back to its prompt with an error that is not the file's
\* fault, or with one that is, after an edit or for a file too large.
LEMMA Refused ==
    ASSUME UploadInv, NEW ret \in Refusals,
           c' = [c EXCEPT !.phase = "PROMPT", !.refused = ret],
           ret \in {"INVALID_LENGTH", "OTA_INVALID_OFFSET", "OTA_SIZE_ERROR"} =>
             c.edited \/ c.size > PartitionSize
    PROVE  c' \in Clients /\ ClientInv' /\ UneditedFileFits'
  <1>1. c' \in Clients /\ c'.phase = "PROMPT"
    BY DEF UploadInv, Clients
  <1>2. c'.refused = ret /\ c'.edited = c.edited /\ c'.size = c.size
    BY DEF UploadInv, Clients
  <1>. QED BY <1>1, <1>2 DEF ClientInv, UneditedFileFits

\* The three reads of the file and the steps without a request.
LEMMA ReadSteps ==
    ASSUME UploadInv, ReadSize \/ ReadDigest \/ OpenFile \/ EndOfFile \/ GiveUp
    PROVE  UploadInv'
  <1>1. /\ file \in Files /\ c \in Clients /\ file \in Seq(Byte) /\ Len(file) \in Nat
        /\ Len(c.open) \in Nat /\ ClientInv
    BY FileFacts DEF UploadInv
  <1>2. UNCHANGED clientOnly /\ UNCHANGED <<s_ota, file>>
    BY DEF ReadSize, ReadDigest, OpenFile, EndOfFile, GiveUp, clientOnly, otaVars
  <1>3. AtPrompt \in Clients
    BY PromptClient
  <1>4. CASE ReadSize
    <2>1. c' = [AtPrompt EXCEPT !.phase = "SIZED", !.size = Len(file)] /\ Len(file) >= DigestLength
      BY <1>4 DEF ReadSize
    <2>2. c' \in Clients /\ c'.phase = "SIZED" /\ c'.size = Len(file) /\ c'.refused = "NONE"
      BY <1>1, <1>3, <2>1 DEF AtPrompt, Clients
    <2>3. ClientInv' /\ UneditedFileFits'
      BY <1>2, <2>1, <2>2 DEF ClientInv, UneditedFileFits
    <2>. QED BY <1>2, <2>2, <2>3, ClientStep
  <1>5. CASE ReadDigest
    <2>1. CASE c' = AtPrompt
      <3>1. c' \in Clients /\ ClientInv' /\ UneditedFileFits'
        BY <1>3, <2>1 DEF AtPrompt, ClientInv, UneditedFileFits
      <3>. QED BY <1>2, <3>1, ClientStep
    <2>2. CASE /\ c' = [c EXCEPT !.phase = "DIGESTED", !.version = file]
               /\ ~(Len(file) < DigestLength)
      <3>1. c.phase = "SIZED"
        BY <1>5 DEF ReadDigest
      <3>2. /\ c' \in Clients /\ c'.phase = "DIGESTED" /\ c'.version = file
            /\ c'.size = c.size /\ c'.edited = c.edited /\ c'.refused = c.refused
        BY <1>1, <2>2 DEF Clients
      <3>3. ClientInv' /\ UneditedFileFits'
        BY <1>1, <1>2, <2>2, <3>1, <3>2 DEF ClientInv, UneditedFileFits, DigestLength
      <3>. QED BY <1>2, <3>2, <3>3, ClientStep
    <2>. QED BY <1>5, <2>1, <2>2 DEF ReadDigest
  <1>6. CASE OpenFile
    <2>1. c.phase = "OPEN" /\ c' = [c EXCEPT !.phase = "DATA", !.open = file, !.sent = 0]
      BY <1>6 DEF OpenFile
    <2>2. /\ c' \in Clients /\ c'.phase = "DATA" /\ c'.open = file /\ c'.sent = 0
          /\ c'.size = c.size /\ c'.edited = c.edited /\ c'.refused = c.refused
      BY <1>1, <2>1 DEF Clients
    <2>3. ClientInv' /\ UneditedFileFits'
      BY <1>1, <1>2, <2>1, <2>2 DEF ClientInv, UneditedFileFits
    <2>. QED BY <1>2, <2>2, <2>3, ClientStep
  <1>7. CASE EndOfFile
    <2>1. c.phase = "DATA" /\ c.sent >= Len(c.open) /\ c' = [c EXCEPT !.phase = "END"]
      BY <1>7 DEF EndOfFile
    <2>2. /\ c' \in Clients /\ c'.phase = "END" /\ c'.open = c.open /\ c'.sent = c.sent
          /\ c'.size = c.size /\ c'.edited = c.edited /\ c'.refused = c.refused
          /\ c.sent \in Nat
      BY <1>1, <2>1 DEF Clients
    <2>3. ClientInv' /\ UneditedFileFits'
      BY <1>1, <1>2, <2>1, <2>2 DEF ClientInv, UneditedFileFits
    <2>. QED BY <1>2, <2>2, <2>3, ClientStep
  <1>8. CASE GiveUp
    BY <1>2, <1>8, Unanswered, ClientStep DEF GiveUp
  <1>. QED BY <1>4, <1>5, <1>6, <1>7, <1>8

\* An edit of the file, or under the open file.
LEMMA EditStep ==
    ASSUME UploadInv, EditFile
    PROVE  UploadInv'
  <1>1. c \in Clients /\ ClientInv
    BY DEF UploadInv
  <1>2. /\ file' \in Files /\ UNCHANGED <<otaVars, announced, accepted>>
    BY DEF EditFile
  <1>3. PICK open \in {c.open, file'} :
          c' = [c EXCEPT !.edited = TRUE, !.open = IF c.phase = "DATA" THEN open ELSE @]
    BY DEF EditFile
  <1>4. /\ c' \in Clients /\ c'.edited /\ c'.phase = c.phase /\ c'.size = c.size
        /\ c'.version = c.version /\ c'.sent = c.sent /\ c'.refused = c.refused
        /\ c'.open \in {c.open, file'}
    BY <1>3, <1>1, <1>2 DEF Clients
  <1>5. ClientInv' /\ UneditedFileFits'
    BY <1>1, <1>2, <1>4 DEF ClientInv, UneditedFileFits, otaVars
  <1>6. OtaInv'
    BY <1>2, OtaStutter DEF UploadInv
  <1>. QED
    BY <1>2, <1>4, <1>5, <1>6
       DEF UploadInv, otaVars, espVars, SessionInv, AcceptsOneVersion

\* OTA_BEGIN: the session is opened for the version that was digested.
LEMMA BeginUpload ==
    ASSUME UploadInv, Begin
    PROVE  UploadInv'
  <1>. DEFINE p == [well_formed |-> TRUE, firmware_size |-> c.size,
                    sha256 |-> ImageSha(c.version)]
  <1>1. PICK ret \in {"OK", "OTA_ALREADY_STARTED", "OTA_SIZE_ERROR", "OTA_INVALID_IMAGE",
                      "OTA_FLASH_ERROR"} :
          /\ ota_manager_begin(p, ret)
          /\ announced' = IF ret = "OK" THEN c.version ELSE announced
          /\ Answered(ret, [c EXCEPT !.phase = "OPEN"])
    BY DEF Begin
  <1>2. /\ c.phase = "DIGESTED" /\ UNCHANGED <<file, updates, edits, accepted>>
        /\ c \in Clients /\ ClientInv /\ OtaInv
    BY DEF Begin, UploadInv
  <1>3. /\ c.version \in Files /\ Len(c.version) >= DigestLength /\ c.refused = "NONE"
        /\ c.size \in Nat /\ c.size > 0
    BY <1>2 DEF ClientInv, Clients, DigestLength
  <1>4. c.version \in Seq(Byte) /\ Len(c.version) \in Nat /\ ImageSha(c.version) \in Byte
    BY <1>2, <1>3 DEF Clients, ImageSha, DigestLength
  <1>5. p.well_formed /\ p.firmware_size = c.size /\ p.sha256 = ImageSha(c.version)
    OBVIOUS
  <1>. HIDE DEF p
  <1>6. OtaInv'
    BY <1>1, <1>2, <1>3, <1>4, <1>5, OtaBeginInv
  <1>7. CASE ret # "OK"
    <2>1. s_ota' = s_ota /\ (s_ota.active => flash' = flash)
      BY <1>1, <1>7 DEF ota_manager_begin, BeginError, otaVars, espVars
    <2>2. SessionInv' /\ AcceptsOneVersion'
      BY <1>1, <1>2, <1>7, <2>1 DEF UploadInv, SessionInv, AcceptsOneVersion
    <2>3. ret = "OTA_SIZE_ERROR" => c.size > PartitionSize
      BY <1>1, <1>3, <1>5, <1>7 DEF ota_manager_begin, BeginError
    <2>4. c' \in Clients /\ ClientInv' /\ UneditedFileFits'
      <3>1. CASE c' = [c EXCEPT !.phase = "PROMPT"]
        BY <3>1, Unanswered
      <3>2. CASE c' = [c EXCEPT !.phase = "PROMPT", !.refused = ret]
        BY <1>1, <1>7, <2>3, <3>2, Refused DEF Refusals
      <3>. QED BY <1>1, <1>7, <3>1, <3>2 DEF Answered
    <2>. QED BY <1>2, <1>6, <2>2, <2>4 DEF UploadInv
  <1>8. CASE ret = "OK"
    <2>1. /\ BeginError(p) = "OK" /\ s_ota' = NewSession(p)
          /\ esp_ota_begin(esp_ota_get_next_update_partition, TRUE)
      BY <1>1, <1>8 DEF ota_manager_begin
    <2>2. /\ s_ota'.active /\ s_ota'.firmware_size = c.size /\ s_ota'.bytes_received = 0
          /\ s_ota'.expected_sha256 = ImageSha(c.version)
      BY <1>5, <2>1 DEF NewSession
    <2>3. /\ Len(flash'[s_ota'.partition]) = 0 /\ flash'[s_ota'.partition] \in Seq(Byte)
      BY <1>6, <2>2 DEF OtaInv, SessionAgreesWithFlash, OtaTypeOK, EspTypeOK
    <2>4. flash'[s_ota'.partition] \in Mixtures
      <3>. DEFINE m == flash'[s_ota'.partition]
      <3>1. Len(m) = 0 /\ m \in [1 .. 0 -> FileBytes]
        BY <2>3
      <3>. HIDE DEF m
      <3>2. m \in Mixtures
        BY <3>1, PartitionSizeAssumption DEF Mixtures
      <3>. QED BY <3>2 DEF m
    <2>5. SessionInv' /\ AcceptsOneVersion'
      BY <1>1, <1>2, <1>3, <1>8, <2>2, <2>4 DEF UploadInv, SessionInv, AcceptsOneVersion
    <2>6. c' \in Clients /\ ClientInv' /\ UneditedFileFits'
      <3>1. CASE c' = [c EXCEPT !.phase = "PROMPT"]
        BY <3>1, Unanswered
      <3>2. CASE c' = [c EXCEPT !.phase = "OPEN"]
        <4>1. /\ c' \in Clients /\ c'.phase = "OPEN" /\ c'.size = c.size
              /\ c'.edited = c.edited /\ c'.refused = c.refused
          BY <1>2, <3>2 DEF Clients
        <4>. QED BY <1>2, <1>3, <2>2, <4>1 DEF ClientInv, UneditedFileFits
      <3>. QED BY <1>1, <1>8, <3>1, <3>2 DEF Answered
    <2>. QED BY <1>2, <1>6, <2>5, <2>6 DEF UploadInv
  <1>. QED BY <1>7, <1>8

\* OTA_DATA: a chunk of the open file goes where it is in that file; it is
\* refused only if the file was edited.
LEMMA DataUpload ==
    ASSUME UploadInv, Data
    PROVE  UploadInv'
  <1>. DEFINE p == [offset |-> c.sent, data |-> Chunk]
              next == [c EXCEPT !.sent = @ + Len(Chunk)]
  <1>1. PICK ret \in {"OK", "OTA_NOT_STARTED", "INVALID_LENGTH", "OTA_INVALID_OFFSET",
                      "OTA_SIZE_ERROR", "OTA_FLASH_ERROR"} :
          ota_manager_write_data(p, ret) /\ Answered(ret, next)
    BY DEF Data
  <1>2. /\ c.phase = "DATA" /\ c.sent < Len(c.open)
        /\ UNCHANGED <<file, updates, edits, announced, accepted>>
        /\ c \in Clients /\ ClientInv /\ OtaInv /\ c.sent \in Nat
    BY DEF Data, UploadInv, Clients
  <1>3. /\ s_ota.active /\ s_ota.firmware_size = c.size /\ s_ota.bytes_received = c.sent
        /\ c.open \in Files
    BY <1>2 DEF ClientInv
  <1>4. /\ Chunk \in Seq(Byte) /\ Len(Chunk) \in Nat /\ Len(Chunk) > 0
        /\ Len(Chunk) <= ClientChunk /\ c.sent + Len(Chunk) <= Len(c.open)
        /\ \A i \in 1 .. Len(Chunk) : Chunk[i] = c.open[c.sent + i]
    BY <1>2, ChunkFacts
  <1>5. /\ ClientChunk \in Nat /\ MaxChunk \in Nat /\ ClientChunk <= MaxChunk
        /\ Len(c.open) \in Nat /\ s_ota.firmware_size \in Nat
        /\ s_ota.firmware_size <= PartitionSize
    BY <1>2, <1>3, FileFacts DEF OtaInv, SessionAgreesWithFlash
  <1>6. p.offset = c.sent /\ p.data = Chunk
    OBVIOUS
  <1>. HIDE DEF p
  <1>7. /\ OtaInv'
        /\ \/ UNCHANGED otaVars
           \/ /\ WriteVerdict(p) = "WRITE" /\ ret = "OK"
              /\ esp_ota_write(s_ota.partition, p.data, TRUE)
              /\ s_ota' = SessionWithChunk(p)
    BY <1>1, <1>2, <1>4, <1>6, OtaDataInv
  <1>8. WriteVerdict(p) \in {"WRITE", "OTA_SIZE_ERROR"}
    <2>1. Chunk # <<>> /\ ~(Len(Chunk) > MaxChunk)
      BY <1>4, <1>5
    <2>. QED BY <1>3, <1>6, <2>1 DEF WriteVerdict
  <1>9. WriteVerdict(p) = "OTA_SIZE_ERROR" => c.edited
    <2>. SUFFICES ASSUME ~c.edited PROVE WriteVerdict(p) # "OTA_SIZE_ERROR"
      OBVIOUS
    <2>1. Len(c.open) = c.size
      BY <1>2 DEF ClientInv
    <2>2. c.sent + Len(Chunk) \in Nat /\ c.sent + Len(Chunk) <= c.size
      BY <1>2, <1>4, <2>1
    <2>3. c.sent + Len(Chunk) < U32 /\ U32 \in Nat
      BY <1>3, <1>5, <2>2, WidthAssumption, PartitionSizeAssumption
    <2>4. (c.sent + Len(Chunk)) % U32 = c.sent + Len(Chunk)
      BY <2>2, <2>3, NoWrap
    <2>5. ~((c.sent + Len(Chunk)) % U32 > s_ota.firmware_size)
      BY <1>3, <1>5, <2>2, <2>4
    <2>. QED BY <1>3, <1>4, <1>6, <2>5 DEF WriteVerdict
  <1>10. CASE UNCHANGED otaVars
    <2>1. SessionInv' /\ AcceptsOneVersion'
      BY <1>2, <1>10 DEF UploadInv, SessionInv, AcceptsOneVersion, otaVars, espVars
    <2>2. ret # "OK"
      <3>1. SUFFICES ASSUME ret = "OK" PROVE FALSE
        OBVIOUS
      <3>2. s_ota' = SessionWithChunk(p) /\ WriteVerdict(p) = "WRITE"
            /\ esp_ota_write(s_ota.partition, p.data, TRUE)
        BY <1>1, <1>8, <3>1 DEF ota_manager_write_data
      <3>3. s_ota'.bytes_received = p.offset + Len(p.data)
        BY <1>2, <1>4, <1>6, <3>2, OtaWrittenInv
      <3>4. s_ota' = s_ota
        BY <1>10 DEF otaVars
      <3>. QED BY <1>2, <1>3, <1>4, <1>6, <3>3, <3>4
    <2>3. ret \in {"INVALID_LENGTH", "OTA_INVALID_OFFSET", "OTA_SIZE_ERROR"} => c.edited
      BY <1>1, <1>8, <1>9 DEF ota_manager_write_data
    <2>4. c' \in Clients /\ ClientInv' /\ UneditedFileFits'
      <3>1. CASE c' = [c EXCEPT !.phase = "PROMPT"]
        BY <3>1, Unanswered
      <3>2. CASE c' = [c EXCEPT !.phase = "PROMPT", !.refused = ret]
        BY <1>1, <2>2, <2>3, <3>2, Refused DEF Refusals
      <3>. QED BY <1>1, <2>2, <3>1, <3>2 DEF Answered
    <2>. QED BY <1>2, <1>7, <2>1, <2>4 DEF UploadInv
  <1>11. CASE /\ WriteVerdict(p) = "WRITE" /\ ret = "OK"
              /\ esp_ota_write(s_ota.partition, p.data, TRUE)
              /\ s_ota' = SessionWithChunk(p)
    <2>1. /\ s_ota'.active /\ s_ota'.partition = s_ota.partition
          /\ s_ota.partition \in Slots
          /\ s_ota'.bytes_received = c.sent + Len(Chunk)
          /\ s_ota'.firmware_size = s_ota.firmware_size
          /\ flash' = [flash EXCEPT ![s_ota.partition] = @ \o Chunk]
          /\ c.sent = Len(flash[s_ota.partition])
      BY <1>2, <1>4, <1>6, <1>11, OtaWrittenInv
    <2>2. s_ota'.expected_sha256 = s_ota.expected_sha256
      BY <1>11 DEF SessionWithChunk
    <2>3. flash'[s_ota.partition] = flash[s_ota.partition] \o Chunk
      BY <1>2, <2>1 DEF OtaInv, OtaTypeOK, EspTypeOK
    <2>4. c.sent + Len(Chunk) <= PartitionSize
      <3>1. s_ota'.bytes_received <= s_ota'.firmware_size
        BY <1>7, <2>1 DEF OtaInv, SessionAgreesWithFlash
      <3>. QED BY <1>2, <1>4, <1>5, <2>1, <3>1, PartitionSizeAssumption
    <2>5. flash[s_ota.partition] \in Mixtures
      BY <1>3 DEF UploadInv, SessionInv
    <2>6. flash'[s_ota.partition] \in Mixtures
      <3>. DEFINE old == flash[s_ota.partition]
      <3>1. /\ old \in Mixtures /\ c.open \in Files /\ Chunk \in Seq(Byte)
            /\ Len(old) + Len(Chunk) <= Len(c.open)
            /\ Len(old) + Len(Chunk) <= PartitionSize
            /\ \A i \in 1 .. Len(Chunk) : Chunk[i] = c.open[Len(old) + i]
        BY <1>3, <1>4, <2>1, <2>4, <2>5
      <3>. HIDE DEF old
      <3>2. old \o Chunk \in Mixtures
        BY <3>1, MixtureGrows
      <3>. QED BY <2>3, <3>2 DEF old
    <2>7. SessionInv' /\ AcceptsOneVersion'
      BY <1>2, <1>3, <2>1, <2>2, <2>6 DEF UploadInv, SessionInv, AcceptsOneVersion
    <2>8. c' \in Clients /\ ClientInv' /\ UneditedFileFits'
      <3>1. CASE c' = [c EXCEPT !.phase = "PROMPT"]
        BY <3>1, Unanswered
      <3>2. CASE c' = next
        <4>1. c.sent + Len(Chunk) \in Nat
          BY <1>2, <1>4
        <4>2. /\ c' \in Clients /\ c'.phase = "DATA" /\ c'.size = c.size /\ c'.open = c.open
              /\ c'.sent = c.sent + Len(Chunk)
              /\ c'.edited = c.edited /\ c'.refused = c.refused
          BY <1>2, <3>2, <4>1 DEF Clients
        <4>. QED BY <1>2, <1>3, <1>4, <2>1, <4>2 DEF ClientInv, UneditedFileFits
      <3>. QED BY <1>1, <1>11, <3>1, <3>2 DEF Answered
    <2>. QED BY <1>2, <1>7, <2>7, <2>8 DEF UploadInv
  <1>. QED BY <1>7, <1>10, <1>11

\* OTA_END: the digest decides, and it decides for the announced version.
LEMMA EndUpload ==
    ASSUME UploadInv, End
    PROVE  UploadInv'
  <1>1. PICK ret \in {"OK", "OTA_NOT_STARTED", "OTA_SIZE_ERROR", "OTA_INVALID_IMAGE",
                      "OTA_HASH_MISMATCH"} :
          /\ ota_manager_end(ret)
          /\ accepted' = IF ret = "OK"
                         THEN [announced |-> announced, image |-> flash[s_ota.partition]]
                         ELSE accepted
          /\ \/ c.phase = "END" /\ Answered(ret, [c EXCEPT !.phase = "PROMPT"])
             \/ c.phase = "PROMPT" /\ UNCHANGED c
    BY DEF End
  <1>2. /\ UNCHANGED <<file, updates, edits, announced>>
        /\ c \in Clients /\ ClientInv /\ OtaInv /\ UneditedFileFits
    BY DEF End, UploadInv
  <1>3. /\ OtaInv' /\ flash' = flash
        /\ \/ s_ota' = s_ota
           \/ s_ota' = ZeroOta
    BY <1>1, <1>2, OtaEndInv DEF otaVars
  <1>4. SessionInv'
    BY <1>2, <1>3, ZeroOtaType DEF UploadInv, SessionInv
  <1>5. AcceptsOneVersion'
    <2>1. CASE ret # "OK"
      BY <1>1, <2>1 DEF UploadInv, AcceptsOneVersion
    <2>2. CASE ret = "OK"
      <3>1. s_ota.active /\ EndSelects(ret)
        BY <1>1, <1>2, <2>2, OtaEndInv
      <3>2. /\ ImageOk(flash[s_ota.partition])
            /\ ImageSha(flash[s_ota.partition]) = s_ota.expected_sha256
        BY <3>1 DEF EndSelects, ShaMatches
      <3>3. /\ announced \in Files /\ Len(announced) >= DigestLength
            /\ s_ota.expected_sha256 = ImageSha(announced)
            /\ flash[s_ota.partition] \in Mixtures
        BY <3>1 DEF UploadInv, SessionInv
      <3>4. flash[s_ota.partition] = announced
        BY <3>2, <3>3, DigestAssumption
      <3>. QED BY <1>1, <2>2, <3>4 DEF AcceptsOneVersion
    <2>. QED BY <2>1, <2>2
  <1>6. c' \in Clients /\ ClientInv' /\ UneditedFileFits'
    <2>1. CASE c.phase = "PROMPT" /\ UNCHANGED c
      BY <1>2, <2>1 DEF ClientInv, UneditedFileFits
    <2>2. CASE c.phase = "END" /\ Answered(ret, [c EXCEPT !.phase = "PROMPT"])
      <3>1. CASE c' = [c EXCEPT !.phase = "PROMPT"]
        BY <3>1, Unanswered
      <3>2. CASE ret # "OK" /\ c' = [c EXCEPT !.phase = "PROMPT", !.refused = ret]
        <4>1. ret = "OTA_SIZE_ERROR" => c.edited
          <5>. SUFFICES ASSUME ~c.edited PROVE ret # "OTA_SIZE_ERROR"
            OBVIOUS
          <5>1. s_ota.active /\ s_ota.bytes_received = s_ota.firmware_size
            BY <1>2, <2>2 DEF ClientInv
          <5>2. EndError = "OK"
            BY <5>1 DEF EndError
          <5>. QED BY <1>1, <5>2 DEF ota_manager_end, EndFails, EndSelects
        <4>. QED BY <1>1, <3>2, <4>1, Refused DEF Refusals
      <3>. QED BY <2>2, <3>1, <3>2 DEF Answered
    <2>. QED BY <1>1, <2>1, <2>2
  <1>. QED BY <1>2, <1>3, <1>4, <1>5, <1>6 DEF UploadInv

\* OTA_ABORT, from the prompt.
LEMMA AbortUpload ==
    ASSUME UploadInv, Abort
    PROVE  UploadInv'
  <1>1. /\ c.phase = "PROMPT" /\ UNCHANGED <<file, c, announced, accepted>>
        /\ \E ret : ota_manager_abort(ret)
    BY DEF Abort
  <1>2. OtaInv' /\ ~s_ota'.active
    BY <1>1, OtaAbortInv DEF UploadInv
  <1>. QED
    BY <1>1, <1>2 DEF UploadInv, ClientInv, SessionInv, AcceptsOneVersion, UneditedFileFits

\* The invariant holds throughout every behaviour.
THEOREM UploadInductive == Spec => []UploadInv
  <1>1. UploadInv /\ [Next]_vars => UploadInv'
    <2>. SUFFICES ASSUME UploadInv, [Next]_vars PROVE UploadInv'
      OBVIOUS
    <2>1. CASE UNCHANGED vars
      <3>1. OtaInv'
        BY <2>1, OtaStutter DEF vars, UploadInv
      <3>. QED BY <2>1, <3>1 DEF vars, otaVars, espVars, UploadInv, ClientInv, SessionInv,
                                 AcceptsOneVersion, UneditedFileFits
    <2>2. CASE Next
      BY <2>2, ReadSteps, EditStep, BeginUpload, DataUpload, EndUpload, AbortUpload DEF Next
    <2>. QED BY <2>1, <2>2
  <1>. QED BY <1>1, InitUpload, PTL DEF Spec

\* Whatever happens to the file while the client reads it, OTA_END accepts only
\* the version whose digest was announced, whole.
THEOREM OneVersion == Spec => []AcceptsOneVersion
  <1>1. UploadInv => AcceptsOneVersion
    BY DEF UploadInv
  <1>. QED BY <1>1, UploadInductive, PTL

\* For every chunk and partition size, the offsets and lengths of
\* run_update_data are what the device expects unless the file was edited.
THEOREM UneditedFits == Spec => []UneditedFileFits
  <1>1. UploadInv => UneditedFileFits
    BY DEF UploadInv
  <1>. QED BY <1>1, UploadInductive, PTL
=============================================================================
