-------------------------------- MODULE Auth --------------------------------
(***************************************************************************)
(* auth.c and the authentication gate of commands.c: the challenge, the    *)
(* session, the replay cache, and the dispatch of one packet.              *)
(***************************************************************************)
EXTENDS Commands, Packets

CONSTANTS
    AuthRequired,    \* ota_link_config_t.require_authentication
    CacheSize        \* AUTH_REPLAY_CACHE_SIZE

ASSUME AuthAssumption == AuthRequired \in BOOLEAN /\ CacheSize \in Nat \ {0}

VARIABLES
    s_auth,          \* the auth_state_t
    toHost           \* packets sent to the host and not read yet

NoEntry == [valid |-> FALSE]
Entry(request, response) ==
    [valid |-> TRUE, request |-> request, response |-> response]

EmptyCache == [i \in 1 .. CacheSize |-> NoEntry]

\* auth_configure, run by ota_link_start_with_config at every boot.
ConfiguredAuth ==
    [ pending       |-> FALSE,
      authenticated |-> FALSE,
      key           |-> NoKey,
      cache         |-> EmptyCache,
      next          |-> 1 ]

Send(response) == toHost' = Append(toHost, response)

-----------------------------------------------------------------------------
(***************************************************************************)
(* auth_handle_packet.  server is the fresh nonce of esp_fill_random.      *)
(***************************************************************************)
HandleChallenge(packet, server) ==
    IF ~AuthRequired
    THEN Send(PlainResponse(packet.seq, "UNKNOWN_COMMAND")) /\ UNCHANGED s_auth
    ELSE LET key == hmac_prefixed_nonce_pair(packet.key.client, server) IN
         /\ s_auth' = [ConfiguredAuth EXCEPT !.pending = TRUE, !.key = key]
         /\ Send(Response("ACK", packet.seq, "OK", key, "AUTH_CHALLENGE"))

\* Mutant: the proof may be of an earlier challenge with the same client nonce.
ProofOfAnyChallenge(packet) ==
    /\ s_auth.pending \/ s_auth.authenticated
    /\ packet.key.client = s_auth.key.client

ProofAccepted(packet) ==
    /\ s_auth.pending \/ s_auth.authenticated
    /\ packet.key = s_auth.key

HandleProof(packet) ==
    IF ~AuthRequired
    THEN Send(PlainResponse(packet.seq, "UNKNOWN_COMMAND")) /\ UNCHANGED s_auth
    ELSE IF ~ProofAccepted(packet)
    THEN Send(PlainResponse(packet.seq, "AUTH_REQUIRED")) /\ UNCHANGED s_auth
    ELSE /\ s_auth' = [s_auth EXCEPT !.pending = FALSE, !.authenticated = TRUE]
         /\ Send(PlainResponse(packet.seq, "OK"))

-----------------------------------------------------------------------------
(***************************************************************************)
(* The replay cache: the first entry with the packet's command and         *)
(* sequence decides.                                                       *)
(***************************************************************************)
\* Mutant: the cache is never consulted.
NoHits(packet) == {}

Hits(packet) ==
    {i \in 1 .. CacheSize :
       /\ s_auth.cache[i].valid
       /\ s_auth.cache[i].request.cmd = packet.cmd
       /\ s_auth.cache[i].request.seq = packet.seq}

FirstHit(packet) == CHOOSE i \in Hits(packet) : \A j \in Hits(packet) : i <= j

auth_check_replay(packet) ==
    IF ~AuthRequired THEN "OK"
    ELSE IF ~s_auth.authenticated THEN "AUTH_REQUIRED"
    ELSE IF Hits(packet) = {} THEN "OK"
    ELSE IF SameBytes(s_auth.cache[FirstHit(packet)].request, packet) THEN "REPLAYED"
    ELSE "AUTH_REQUIRED"

auth_unwrap_packet(packet) ==
    IF ~AuthRequired THEN "OK"
    ELSE IF s_auth.authenticated /\ packet.key = s_auth.key THEN "OK"
    ELSE "AUTH_REQUIRED"

\* Mutant: the cursor of the ring is not reduced.
SendWithoutWrap(packet, error) ==
    IF AuthRequired /\ s_auth.authenticated
    THEN LET response == compute_response_tag(PlainResponse(packet.seq, error),
                                              s_auth.key, packet.cmd)
         IN  /\ s_auth' = [s_auth EXCEPT
                             !.cache[s_auth.next] = Entry(packet, response),
                             !.next = s_auth.next + 1]
             /\ Send(response)
    ELSE Send(PlainResponse(packet.seq, error)) /\ UNCHANGED s_auth

\* Tags the response and remembers it, refusals included, while a session is
\* authenticated; otherwise sends it bare.
auth_send_response(packet, error) ==
    IF AuthRequired /\ s_auth.authenticated
    THEN LET response == compute_response_tag(PlainResponse(packet.seq, error),
                                              s_auth.key, packet.cmd)
         IN  /\ s_auth' = [s_auth EXCEPT
                             !.cache[s_auth.next] = Entry(packet, response),
                             !.next = (s_auth.next % CacheSize) + 1]
             /\ Send(response)
    ELSE Send(PlainResponse(packet.seq, error)) /\ UNCHANGED s_auth

-----------------------------------------------------------------------------
(***************************************************************************)
(* commands_handle_packet.                                                 *)
(***************************************************************************)
Execute(packet, ret) ==
    \/ packet.cmd = "OTA_BEGIN" /\ CmdBegin(packet.payload, ret)
    \/ packet.cmd = "OTA_DATA"  /\ CmdData(packet.payload, ret)
    \/ packet.cmd = "OTA_END"   /\ CmdEnd(TRUE, ret)
    \/ packet.cmd = "OTA_ABORT" /\ CmdAbort(TRUE, ret)
    \/ packet.cmd = "REBOOT"    /\ CmdReboot(TRUE, ret)
    \/ packet.cmd = "ROLLBACK"  /\ CmdRollback(TRUE, ret)

\* handle_authenticated_replay and auth_unwrap_packet let the command through.
Admitted(packet) ==
    auth_check_replay(packet) = "OK" /\ auth_unwrap_packet(packet) = "OK"

\* Refused or answered from the cache, without touching the device.
HandleUnadmitted(packet) ==
    /\ ~Admitted(packet)
    /\ IF auth_check_replay(packet) = "REPLAYED"
       THEN Send(s_auth.cache[FirstHit(packet)].response) /\ UNCHANGED s_auth
       ELSE auth_send_response(packet, "AUTH_REQUIRED")
    /\ UNCHANGED deviceVars

HandleAdmitted(packet, ret) ==
    /\ Admitted(packet)
    /\ Execute(packet, ret)
    /\ auth_send_response(packet, ret)

HandleOther(packet) ==
    /\ Send(PlainResponse(packet.seq, IF packet.cmd = "PING" THEN "OK" ELSE "UNKNOWN_COMMAND"))
    /\ UNCHANGED <<s_auth, deviceVars>>
=============================================================================
