------------------------------- MODULE Packets -------------------------------
(***************************************************************************)
(* The packets that protocol.c and protocol.py put on the wire, as values. *)
(* Framing and CRC are left to the parsers; a packet that arrives arrives  *)
(* whole.  HMACs are symbolic: a tag is the session key it was made with,  *)
(* a session key is the pair of nonces it was derived from.                *)
(***************************************************************************)
EXTENDS Integers

\* The key derived from two nonces; the proofs of both sides, which differ from
\* it by a prefix, stand for knowing it.
hmac_prefixed_nonce_pair(client, server) == [client |-> client, server |-> server]

NoKey == hmac_prefixed_nonce_pair(0, 0)

Protected == {"REBOOT", "ROLLBACK", "OTA_BEGIN", "OTA_DATA", "OTA_END", "OTA_ABORT"}

\* AUTH with sixteen bytes of payload, and with thirty-two.
AuthCommands == {"AUTH_CHALLENGE", "AUTH_PROOF"}

\* id numbers the host's calls of request(); it is not on the wire.
Request(cmd, seq, payload, key, id) ==
    [cmd |-> cmd, seq |-> seq, payload |-> payload, key |-> key, id |-> id]

\* What two requests must share to be the same bytes on the wire.
SameBytes(p, q) ==
    p.cmd = q.cmd /\ p.seq = q.seq /\ p.payload = q.payload /\ p.key = q.key

\* cmd is the request command that a response tag binds.
Response(kind, seq, error, key, cmd) ==
    [kind |-> kind, seq |-> seq, error |-> error, key |-> key, cmd |-> cmd]

\* protocol_send_ack and protocol_send_nack.
PlainResponse(seq, error) ==
    Response(IF error = "OK" THEN "ACK" ELSE "NACK", seq, error, NoKey, "NONE")

\* The tag of a response binds the session and the command it answers.
compute_response_tag(response, key, cmd) == [response EXCEPT !.key = key, !.cmd = cmd]
=============================================================================
