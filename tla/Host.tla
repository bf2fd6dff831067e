-------------------------------- MODULE Host --------------------------------
(***************************************************************************)
(* otalink.py: the client behind the shell and the one-shot commands.  An  *)
(* operation is a list of requests; the client works through it one        *)
(* request at a time, authenticating when it has to, and stops at the      *)
(* first request that is refused, unverified or unanswered.                *)
(*                                                                         *)
(* Everything the client does happens between two waits: it takes a        *)
(* response or a timeout, and sends at most one packet before it waits     *)
(* again.                                                                  *)
(***************************************************************************)
EXTENDS Packets, Sequences

CONSTANTS
    UseAuth,         \* whether the client was given an authentication key
    Retries,         \* --retries: attempts per packet
    SequenceModulus, \* number of sequence values
    FirstSequences   \* where the sequence of a later client may start

ASSUME HostAssumption ==
    /\ UseAuth \in BOOLEAN /\ Retries \in Nat \ {0} /\ SequenceModulus \in Nat \ {0, 1}
    /\ FirstSequences \subseteq 0 .. SequenceModulus - 1

VARIABLES
    h,               \* the OtaLinkClient and the call it is in
    toDevice,        \* packets sent to the device and not handled yet
    told             \* history: request id -> what the operator was told of it

hostVars == <<h, toDevice, told>>

Phases == {"IDLE", "CHALLENGE", "PROOF", "COMMAND"}
Outcomes == {"ACK", "NACK", "UNVERIFIED", "NO_SESSION", "TIMEOUT", "KILLED"}

NoPacket == Request("NONE", 0, <<>>, NoKey, 0)

\* OtaLinkClient(): nonce and id are not the client's, they number what is
\* drawn and asked for over all clients.
NewClient(seq, nonce, id) ==
    [ phase |-> "IDLE", todo |-> <<>>, pkt |-> NoPacket, attempt |-> 0,
      auth_retried |-> FALSE, key |-> NoKey, authenticated |-> FALSE,
      seq |-> seq, nonce |-> nonce, id |-> id ]

HostInit ==
    /\ h = NewClient(0, 0, 0)
    /\ toDevice = <<>>
    /\ told = <<>>

Waiting == h.phase # "IDLE"
\* Mutant: requests share one sequence number.
SameSequence(c) == c.seq

_next_sequence(c) == (c.seq + 1) % SequenceModulus
NeedsTag(cmd) == UseAuth /\ cmd \in Protected

-----------------------------------------------------------------------------
(***************************************************************************)
(* Sending.  c is the client as the preceding statements left it.          *)
(***************************************************************************)
SendFirst(c, phase, packet) ==
    /\ h' = [c EXCEPT !.phase = phase, !.pkt = packet, !.seq = packet.seq, !.attempt = 1]
    /\ toDevice' = Append(toDevice, packet)

\* _authenticated_payload and the first attempt of _request_packet.
SendCommand(c) ==
    LET r == Head(c.todo) IN
    SendFirst(c, "COMMAND",
              Request(r.cmd, _next_sequence(c), r.payload,
                      IF NeedsTag(r.cmd) THEN c.key ELSE NoKey, c.id))

SendChallenge(c) ==
    SendFirst([c EXCEPT !.nonce = @ + 1], "CHALLENGE",
              Request("AUTH_CHALLENGE", _next_sequence(c), <<>>,
                      hmac_prefixed_nonce_pair(c.nonce + 1, 0), c.id))

SendProof(c) ==
    SendFirst(c, "PROOF", Request("AUTH_PROOF", _next_sequence(c), <<>>, c.key, c.id))

_clear_authentication(c) == [c EXCEPT !.key = NoKey, !.authenticated = FALSE]

\* authenticate(), which returns at once in an authenticated session, and then
\* the command.
AuthenticateThenSend(c) ==
    IF NeedsTag(Head(c.todo).cmd) /\ ~c.authenticated THEN SendChallenge(c)
                                                      ELSE SendCommand(c)

\* request() for the first request of todo.
StartRequest(c) ==
    AuthenticateThenSend([c EXCEPT !.id = @ + 1, !.auth_retried = FALSE])

\* The operation ends here: SystemExit, or the prompt after the last request.
ToPrompt(c) ==
    /\ h' = [c EXCEPT !.phase = "IDLE", !.todo = <<>>, !.pkt = NoPacket, !.attempt = 0]
    /\ UNCHANGED toDevice

Tell(outcome) ==
    told' = Append(told, [cmd |-> Head(h.todo).cmd, outcome |-> outcome])

Fail(c, outcome) == ToPrompt(c) /\ Tell(outcome)

-----------------------------------------------------------------------------
\* The operator starts an operation at the prompt.
StartOperation(requests) ==
    /\ ~Waiting
    /\ StartRequest([h EXCEPT !.todo = requests])
    /\ UNCHANGED told

\* Mutant: the last timeout is not raised.
WaitForever ==
    /\ Waiting
    /\ h.attempt < Retries
    /\ h' = [h EXCEPT !.attempt = @ + 1]
    /\ toDevice' = Append(toDevice, h.pkt)
    /\ UNCHANGED told

\* The deadline of SerialTransport.request: send the same bytes again, or give up.
HostTimeout ==
    /\ Waiting
    /\ IF h.attempt < Retries
       THEN /\ h' = [h EXCEPT !.attempt = @ + 1]
            /\ toDevice' = Append(toDevice, h.pkt)
            /\ UNCHANGED told
       ELSE Fail(h, "TIMEOUT")

\* authenticate(): the device's proof is checked before the session is derived.
OnChallengeAnswer(r) ==
    /\ h.phase = "CHALLENGE"
    /\ IF r.kind = "ACK" /\ r.cmd = "AUTH_CHALLENGE" /\ r.key.client = h.pkt.key.client
       THEN SendProof([h EXCEPT !.key = r.key]) /\ UNCHANGED told
       ELSE Fail(h, "NO_SESSION")

OnProofAnswer(r) ==
    /\ h.phase = "PROOF"
    /\ IF r.kind = "ACK"
       THEN SendCommand([h EXCEPT !.authenticated = TRUE]) /\ UNCHANGED told
       ELSE Fail(h, "NO_SESSION")

_verified_response(r) == r.key = h.key /\ r.cmd = h.pkt.cmd

_is_auth_required(r) == r.kind = "NACK" /\ r.error = "AUTH_REQUIRED"

AfterAck ==
    IF h.pkt.cmd \in {"REBOOT", "ROLLBACK"} THEN _clear_authentication(h) ELSE h

\* request(), then ensure_ack in the run_* function that called it.
OnCommandAnswer(r) ==
    /\ h.phase = "COMMAND"
    /\ LET tagged == NeedsTag(h.pkt.cmd) IN
       \/ /\ tagged /\ _is_auth_required(r) /\ ~h.auth_retried
          /\ AuthenticateThenSend([_clear_authentication(h) EXCEPT !.auth_retried = TRUE])
          /\ UNCHANGED told
       \/ /\ tagged /\ ~(_is_auth_required(r) /\ ~h.auth_retried)
          /\ ~_verified_response(r)
          /\ Fail(h, "UNVERIFIED")
       \/ /\ ~tagged \/ (~(_is_auth_required(r) /\ ~h.auth_retried) /\ _verified_response(r))
          /\ r.kind = "NACK"
          /\ Fail(h, "NACK")
       \/ /\ ~tagged \/ _verified_response(r)
          /\ r.kind = "ACK"
          /\ Tell("ACK")
          /\ IF Len(h.todo) > 1
             THEN StartRequest([AfterAck EXCEPT !.todo = Tail(@)])
             ELSE ToPrompt(AfterAck)

\* The process is killed, at the prompt or inside a call, and started again.
\* Its first sequence number is the clock's; what it wrote stays written.
ClientRestarts ==
    /\ \E seq \in FirstSequences : h' = NewClient(seq, h.nonce, h.id)
    /\ IF Waiting THEN Tell("KILLED") ELSE UNCHANGED told
    /\ UNCHANGED toDevice

\* SerialTransport.request returns the first packet with the awaited sequence
\* and throws away the others.
HostReceives(r) ==
    /\ Waiting
    /\ IF r.seq = h.pkt.seq
       THEN OnChallengeAnswer(r) \/ OnProofAnswer(r) \/ OnCommandAnswer(r)
       ELSE UNCHANGED hostVars
=============================================================================
