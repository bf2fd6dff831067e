-------------------------------- MODULE Link --------------------------------
(***************************************************************************)
(* Host and device joined by a serial line that loses packets, delays them *)
(* beyond any timeout and keeps their order, while the device may lose its *)
(* power.                                                                  *)
(***************************************************************************)
EXTENDS Auth, Host

CONSTANTS
    Operations,      \* what the operator may ask for: lists of requests
    MaxOperations,   \* bound on how many operations the operator starts
    MaxClients,      \* bound on the client processes, one after the other
    MaxFaults        \* bound on the clients killed and the resets that no
                     \* command asked for, together

\* A payload has the fields of OTA_BEGIN and those of OTA_DATA; other commands
\* use none of them.
Payloads ==
    [ well_formed : BOOLEAN, firmware_size : 0 .. U32 - 1, sha256 : Byte,
      offset : 0 .. U32 - 1, data : Seq(Byte) ]
Requests == [cmd : Protected \cup {"PING"}, payload : Payloads]

ASSUME OperationsAssumption == Operations \subseteq Seq(Requests) \ {<<>>}

\* run_update_data sends its chunks behind OTA_BEGIN, at ascending offsets.
IsChunk(request) == request.cmd = "OTA_DATA"
ChunksFollow(requests) ==
    \A k \in 2 .. Len(requests) :
      IsChunk(requests[k]) => requests[k - 1].cmd \in {"OTA_BEGIN", "OTA_DATA"}
ChunksAscend(requests) ==
    \A j, k \in 1 .. Len(requests) :
      j < k /\ IsChunk(requests[j]) /\ IsChunk(requests[k]) =>
        requests[j].payload.offset < requests[k].payload.offset

ASSUME UpdatesAssumption ==
    \A requests \in Operations :
      ~IsChunk(Head(requests)) /\ ChunksFollow(requests) /\ ChunksAscend(requests)

VARIABLES
    challenges,      \* server nonces drawn so far
    resets,          \* resets that no command asked for
    boots,           \* boots since the first
    started,         \* operations started
    clients,         \* client processes started
    log              \* history: the commands that took effect, in order, and
                     \* whether a rollback failed when its time came

linkVars == <<challenges, resets, boots, started, clients, log>>
vars == <<deviceVars, s_auth, toHost, hostVars, linkVars>>

Results ==
    {"OK", "INVALID_LENGTH", "OTA_ALREADY_STARTED", "OTA_NOT_STARTED", "OTA_SIZE_ERROR",
     "OTA_INVALID_OFFSET", "OTA_FLASH_ERROR", "OTA_INVALID_IMAGE", "OTA_HASH_MISMATCH",
     "BUSY", "ROLLBACK_NOT_AVAILABLE"}

Init ==
    /\ DeviceInit
    /\ s_auth = ConfiguredAuth
    /\ toHost = <<>>
    /\ HostInit
    /\ challenges = 0 /\ resets = 0 /\ boots = 0 /\ started = 0 /\ clients = 1
    /\ log = <<>>

FaultsLeft == resets + clients - 1 < MaxFaults

-----------------------------------------------------------------------------
\* The operator starts something at the prompt.
Operate ==
    /\ started < MaxOperations
    /\ \E requests \in Operations : StartOperation(requests)
    /\ started' = started + 1
    /\ UNCHANGED <<deviceVars, s_auth, toHost, challenges, resets, boots, clients, log>>

Timeout == HostTimeout /\ UNCHANGED <<deviceVars, s_auth, toHost, linkVars>>

Receive ==
    /\ toHost # <<>>
    /\ HostReceives(Head(toHost))
    /\ toHost' = Tail(toHost)
    /\ UNCHANGED <<deviceVars, s_auth, linkVars>>

\* A client takes over.  reset_input_buffer drops the responses that have
\* arrived; those still on the line reach the new client.
TakeOver ==
    /\ clients < MaxClients /\ FaultsLeft
    /\ ClientRestarts
    /\ clients' = clients + 1
    /\ \E arrived \in 0 .. Len(toHost) : toHost' = SubSeq(toHost, arrived + 1, Len(toHost))
    /\ UNCHANGED <<deviceVars, s_auth, challenges, resets, boots, started, log>>

\* The line loses the oldest packet of either direction.
LoseRequest ==
    /\ toDevice # <<>>
    /\ toDevice' = Tail(toDevice)
    /\ UNCHANGED <<deviceVars, s_auth, toHost, h, told, linkVars>>

LoseResponse ==
    /\ toHost # <<>>
    /\ toHost' = Tail(toHost)
    /\ UNCHANGED <<deviceVars, s_auth, hostVars, linkVars>>

-----------------------------------------------------------------------------
\* ota_link_task takes the next packet, unless it sleeps before a restart.
Taken(packet) ==
    /\ delayed = "NONE"
    /\ toDevice # <<>>
    /\ packet = Head(toDevice)
    /\ toDevice' = Tail(toDevice)
    /\ UNCHANGED <<h, told, resets, boots, started, clients>>

TakeAuth ==
    /\ toDevice # <<>>
    /\ LET packet == Head(toDevice) IN
       /\ Taken(packet)
       /\ \/ /\ packet.cmd = "AUTH_CHALLENGE"
             /\ HandleChallenge(packet, challenges + 1)
             /\ challenges' = challenges + 1
          \/ /\ packet.cmd = "AUTH_PROOF"
             /\ HandleProof(packet)
             /\ UNCHANGED challenges
    /\ UNCHANGED <<deviceVars, log>>

TakeUnadmitted ==
    /\ toDevice # <<>>
    /\ LET packet == Head(toDevice) IN
       /\ packet.cmd \in Protected
       /\ Taken(packet)
       /\ HandleUnadmitted(packet)
    /\ UNCHANGED <<challenges, log>>

\* A command takes effect if it succeeds and changes the device.
TakeAdmitted ==
    /\ toDevice # <<>>
    /\ LET packet == Head(toDevice) IN
       /\ packet.cmd \in Protected
       /\ Taken(packet)
       /\ \E ret \in Results :
            /\ HandleAdmitted(packet, ret)
            /\ log' = IF ret = "OK" /\ deviceVars' # deviceVars
                      THEN Append(log, [id |-> packet.id, boot |-> boots, failed |-> FALSE])
                      ELSE log
    /\ UNCHANGED challenges

TakeOther ==
    /\ toDevice # <<>>
    /\ LET packet == Head(toDevice) IN
       /\ packet.cmd \notin Protected \cup AuthCommands
       /\ Taken(packet)
       /\ HandleOther(packet)
    /\ UNCHANGED <<challenges, log>>

-----------------------------------------------------------------------------
\* A reset forgets the session, the replay cache and the received bytes.
LinkReset ==
    /\ s_auth' = ConfiguredAuth
    /\ toDevice' = <<>>
    /\ boots' = boots + 1
    /\ UNCHANGED <<toHost, h, told, challenges, started, clients, log>>

\* The delayed half of REBOOT or ROLLBACK.
CarryOut ==
    /\ RebootNow \/ RollbackNow
    /\ LinkReset
    /\ UNCHANGED resets

\* The ROLLBACK acknowledged last is not carried out after all.
DropRollback ==
    /\ RollbackFails
    /\ log' = [log EXCEPT ![Len(log)].failed = TRUE]
    /\ UNCHANGED <<s_auth, toHost, hostVars, challenges, resets, boots, started, clients>>

SpontaneousReset ==
    /\ FaultsLeft
    /\ PowerLoss \/ HealthReject
    /\ LinkReset
    /\ resets' = resets + 1

HealthTask ==
    /\ HealthCheck \/ HealthConfirm \/ HealthFails
    /\ UNCHANGED <<s_auth, toHost, hostVars, linkVars>>

Next ==
    \/ Operate \/ Timeout \/ Receive \/ TakeOver \/ LoseRequest \/ LoseResponse
    \/ TakeAuth \/ TakeUnadmitted \/ TakeAdmitted \/ TakeOther
    \/ CarryOut \/ DropRollback \/ SpontaneousReset \/ HealthTask

Spec == Init /\ [][Next]_vars

\* The client's wait has a deadline: it ends with a response or a timeout.
FairSpec == Spec /\ WF_vars(Timeout \/ Receive)

-----------------------------------------------------------------------------
\* Types, with the replay ring's cursor in range and one verdict for the
\* operator per finished request.
TypeOK ==
    /\ DeviceTypeOK
    /\ h.phase \in Phases
    /\ h.attempt \in 0 .. Retries
    /\ h.seq \in 0 .. SequenceModulus - 1
    /\ s_auth.next \in 1 .. CacheSize
    /\ Len(told) = IF Waiting THEN h.id - 1 ELSE h.id

\* Commands take effect in the order the operator asked for them, and none
\* twice in one boot, however often their packets are sent: the checks of
\* ota_manager.c on an open session and on the next offset see to it, and the
\* sleep before a restart; the replay cache only keeps the answers the same.
\* Only a ROLLBACK that ESP-IDF failed to carry out may be accepted again.
OnceAndInOrder ==
    \A i, j \in 1 .. Len(log) :
      i < j /\ log[i].boot = log[j].boot =>
        log[i].id < log[j].id \/ (log[i].failed /\ log[i].id = log[j].id)

TookEffect(id) == \E i \in 1 .. Len(log) : log[i].id = id

\* What the operator is told is done, is done: an ACK that the client accepts
\* for a mutating command comes from that command having taken effect.
AckIsTrue ==
    \A id \in 1 .. Len(told) :
      told[id].outcome = "ACK" /\ told[id].cmd \in Protected => TookEffect(id)

\* What the operator is told was refused did not happen behind the refusal:
\* a NACK never reports the retry of a command that took effect in this boot.
NackIsTrue ==
    [][\A id \in 1 .. Len(told') :
         id > Len(told) /\ told'[id].outcome = "NACK" =>
           ~\E i \in 1 .. Len(log) : log[i].id = id /\ log[i].boot = boots]_vars

\* Host and device never hold different session keys while both believe in
\* their session.
SessionsAgree ==
    h.authenticated /\ s_auth.authenticated => h.key = s_auth.key

\* A verdict on OTA_ABORT means that no session is open, whoever opened it: a
\* client that died in the middle of an update does not keep the device BUSY.
\* Both the success and the flash error of ota_manager_abort clear s_ota.
AbortFrees ==
    [][\A id \in 1 .. Len(told') :
         (/\ id > Len(told)
          /\ told'[id].cmd = "OTA_ABORT"
          /\ told'[id].outcome \in {"ACK", "NACK"}) => ~s_ota.active]_vars

\* Every operation comes back to the prompt, whatever the line and the device
\* do: retries and the one renewed authentication are bounded.
OperationEnds == Waiting ~> ~Waiting

\* auth.c: the replay cache "makes lost ACK recovery safe for commands such as
\* OTA_BEGIN, OTA_END, OTA_ABORT, REBOOT, and ROLLBACK": what the operator asks
\* for once takes effect at most once.
RetryNeverRepeats ==
    \A i, j \in 1 .. Len(log) : log[i].id = log[j].id => i = j
=============================================================================
