----------------------------- MODULE LinkProofs -----------------------------
(***************************************************************************)
(* Proofs about host and device on a lossy line, for any operations of the *)
(* operator, any number of clients, resets and retries, any cache size and *)
(* any sequence modulus.                                                   *)
(***************************************************************************)
EXTENDS Link, CommandsProofs, SequenceTheorems

(***************************************************************************)
(* Types.                                                                  *)
(***************************************************************************)
Sequence == 0 .. SequenceModulus - 1
Keys == [client : Nat, server : Nat]

SentPackets ==
    [ cmd : Protected \cup {"PING"} \cup AuthCommands, seq : Sequence,
      payload : Payloads \cup {<<>>}, key : Keys, id : Nat ]

Hosts ==
    [ phase : Phases, todo : Seq(Requests), pkt : SentPackets \cup {NoPacket},
      attempt : 0 .. Retries, auth_retried : BOOLEAN, key : Keys, authenticated : BOOLEAN,
      seq : Sequence, nonce : Nat, id : Nat ]

Errors == Results \cup {"AUTH_REQUIRED", "UNKNOWN_COMMAND"}
Responses(cmds) ==
    [kind : {"ACK", "NACK"}, seq : Sequence, error : Errors, key : Keys, cmd : cmds]
Answers == Responses(Protected \cup {"AUTH_CHALLENGE", "NONE"})

AuthStates ==
    [ pending : BOOLEAN, authenticated : BOOLEAN, key : Keys,
      cache : [1 .. CacheSize ->
                 {NoEntry} \cup
                 [valid : {TRUE}, request : SentPackets, response : Responses(Protected)]],
      next : 1 .. CacheSize ]

Entries == [id : Nat, boot : Nat, failed : BOOLEAN]

\* What is on a line.
On(line) == {line[i] : i \in 1 .. Len(line)}

HostInv ==
    /\ h \in Hosts
    /\ Waiting => h.todo # <<>> /\ h.pkt \in SentPackets /\ h.pkt.id = h.id
    /\ told \in Seq([cmd : Protected \cup {"PING"}, outcome : Outcomes])
    /\ Len(told) = IF Waiting THEN h.id - 1 ELSE h.id
    /\ h.phase = "CHALLENGE" =>
         h.pkt.cmd = "AUTH_CHALLENGE" /\ h.pkt.key.client = h.nonce /\ ~h.authenticated
    /\ h.phase = "PROOF" => h.pkt.cmd = "AUTH_PROOF" /\ h.pkt.key = h.key
    /\ h.phase = "COMMAND" => h.pkt.cmd = Head(h.todo).cmd /\ h.pkt.payload = Head(h.todo).payload

LineInv ==
    /\ toDevice \in Seq(SentPackets)
    /\ \A q \in On(toDevice) : q.cmd \in Protected => q.payload \in Payloads
    /\ toHost \in Seq(Answers)
    /\ s_auth \in AuthStates
    /\ challenges \in Nat /\ boots \in Nat
    /\ log \in Seq(Entries)

(***************************************************************************)
(* Nonces.                                                                 *)
(***************************************************************************)
IsChallenge(q) == q.cmd = "AUTH_CHALLENGE"
IsProof(q) == q.cmd = "AUTH_PROOF"

\* The nonces of clients go up, on the line too.
NoncesInOrder ==
    /\ \A q \in On(toDevice) : IsChallenge(q) \/ IsProof(q) => q.key.client <= h.nonce
    /\ \A i, j \in 1 .. Len(toDevice) :
         i < j /\ IsChallenge(toDevice[i]) /\ IsChallenge(toDevice[j]) =>
           toDevice[i].key.client <= toDevice[j].key.client
    /\ s_auth.key.client <= h.nonce

\* Whether a key made from a client's nonce is out: no challenge with an older
\* nonce is on its way to the device, or has become its session.
Issued(client) ==
    /\ client <= h.nonce
    /\ \A q \in On(toDevice) : IsChallenge(q) => q.key.client >= client
    /\ s_auth.pending \/ s_auth.authenticated => s_auth.key.client >= client

\* The proofs of the newest nonce, on the line or accepted, are all for this key.
OnlyProofOf(key) ==
    /\ \A q \in On(toDevice) : IsProof(q) /\ q.key.client = h.nonce => q.key = key
    /\ s_auth.authenticated /\ s_auth.key.client = h.nonce => s_auth.key = key

NonceInv ==
    /\ NoncesInOrder
    /\ \A r \in On(toHost) : IsChallenge(r) => Issued(r.key.client)
    /\ h.phase = "CHALLENGE" =>
         /\ \A q \in On(toDevice) : IsProof(q) => q.key.client < h.nonce
         /\ s_auth.authenticated => s_auth.key.client < h.nonce
    /\ h.phase = "PROOF" \/ h.authenticated =>
         h.key.client = h.nonce /\ Issued(h.key.client) /\ OnlyProofOf(h.key)

(***************************************************************************)
(* Order.                                                                  *)
(***************************************************************************)
\* Whether a command has nothing left to do.
Spent(r) ==
    /\ r.cmd = "OTA_BEGIN" => s_ota.active
    /\ r.cmd = "OTA_DATA" => WriteVerdict(r.payload) # "WRITE"
    /\ r.cmd \in {"OTA_END", "OTA_ABORT"} => ~s_ota.active
    /\ r.cmd \in {"REBOOT", "ROLLBACK"} => delayed # "NONE"

\* The newest command of this boot that took effect and was not dropped again.
Done(id) ==
    Len(log) > 0 /\ log[Len(log)] = [id |-> id, boot |-> boots, failed |-> FALSE]

IsCommand(q) == q.cmd \in Protected

\* Requests reach the device in the order the host made them.
LineInOrder ==
    /\ \A q \in On(toDevice) : q.id <= h.id
    /\ \A i, j \in 1 .. Len(toDevice) : i < j => toDevice[i].id <= toDevice[j].id

\* What took effect in this boot is no newer than what is on the line.
LogInOrder ==
    /\ OnceAndInOrder
    /\ \A i, j \in 1 .. Len(log) : i < j => log[i].boot <= log[j].boot
    /\ \A i \in 1 .. Len(log) :
         /\ log[i].boot <= boots
         /\ log[i].boot = boots =>
              log[i].id <= h.id /\ \A q \in On(toDevice) : log[i].id <= q.id

\* The packets of one request carry the same command.
OneCommand ==
    /\ \A q, r \in On(toDevice) :
         IsCommand(q) /\ IsCommand(r) /\ q.id = r.id => q.cmd = r.cmd /\ q.payload = r.payload
    /\ Waiting => \A q \in On(toDevice) :
         IsCommand(q) /\ q.id = h.id =>
           q.cmd = Head(h.todo).cmd /\ q.payload = Head(h.todo).payload

\* A request that took effect last has nothing left to do, however often it is
\* sent again.
NothingLeft ==
    /\ \A q \in On(toDevice) : IsCommand(q) /\ Done(q.id) => Spent(q)
    /\ Waiting /\ Done(h.id) => Spent(Head(h.todo))
    /\ delayed # "NONE" => Len(log) > 0 /\ log[Len(log)].boot = boots

OrderInv == LineInOrder /\ LogInOrder /\ OneCommand /\ NothingLeft

LinkInv == DeviceInv /\ HostInv /\ LineInv /\ NonceInv /\ OrderInv

-----------------------------------------------------------------------------
(***************************************************************************)
(* Lines.                                                                  *)
(***************************************************************************)

\* What is on a line is of the line's kind.
LEMMA OnLine ==
    ASSUME NEW S, NEW line \in Seq(S)
    PROVE  On(line) \subseteq S /\ Len(line) \in Nat
  BY DEF On

\* A packet goes to the end of a line.
LEMMA Sent ==
    ASSUME NEW S, NEW line \in Seq(S), NEW e \in S
    PROVE  /\ Append(line, e) \in Seq(S)
           /\ Len(Append(line, e)) = Len(line) + 1
           /\ \A i \in 1 .. Len(line) : Append(line, e)[i] = line[i]
           /\ Append(line, e)[Len(line) + 1] = e
           /\ On(Append(line, e)) = On(line) \cup {e}
  <1>1. /\ Append(line, e) \in Seq(S)
        /\ Len(Append(line, e)) = Len(line) + 1
        /\ \A i \in 1 .. Len(line) : Append(line, e)[i] = line[i]
        /\ Append(line, e)[Len(line) + 1] = e
    OBVIOUS
  <1>2. Len(line) \in Nat
    OBVIOUS
  <1>3. 1 .. Len(line) + 1 = (1 .. Len(line)) \cup {Len(line) + 1}
    BY <1>2
  <1>4. On(Append(line, e)) = On(line) \cup {e}
    BY <1>1, <1>3 DEF On
  <1>. QED BY <1>1, <1>4

\* A packet is taken from the front of a line.
LEMMA TakenOff ==
    ASSUME NEW S, NEW line \in Seq(S), line # <<>>
    PROVE  /\ Tail(line) \in Seq(S) /\ Len(Tail(line)) = Len(line) - 1
           /\ Len(line) \in Nat /\ Len(line) > 0
           /\ Head(line) = line[1] /\ Head(line) \in S /\ Head(line) \in On(line)
           /\ \A i \in 1 .. Len(line) - 1 : Tail(line)[i] = line[i + 1]
           /\ On(Tail(line)) \subseteq On(line)
  <1>1. /\ Tail(line) \in Seq(S) /\ Len(Tail(line)) = Len(line) - 1
        /\ Head(line) \in S
        /\ \A i \in 1 .. Len(line) - 1 : Tail(line)[i] = line[i + 1]
    BY HeadTailProperties
  <1>2. Len(line) \in Nat /\ Len(line) > 0 /\ Head(line) = line[1]
    OBVIOUS
  <1>3. Head(line) \in On(line)
    BY <1>2 DEF On
  <1>4. ASSUME NEW i \in 1 .. Len(line) - 1 PROVE Tail(line)[i] \in On(line)
    <2>1. i + 1 \in 1 .. Len(line)
      BY <1>2
    <2>. QED BY <1>1, <2>1 DEF On
  <1>5. On(Tail(line)) \subseteq On(line)
    BY <1>1, <1>4 DEF On
  <1>. QED BY <1>1, <1>2, <1>3, <1>5

\* More than one element leaves something behind the first.
LEMMA TailOfMore ==
    ASSUME NEW S, NEW line \in Seq(S), Len(line) > 1
    PROVE  Tail(line) \in Seq(S) /\ Tail(line) # <<>>
  <1>1. line # <<>>
    OBVIOUS
  <1>2. Len(Tail(line)) = Len(line) - 1 /\ Len(line) \in Nat /\ Tail(line) \in Seq(S)
    BY <1>1, TakenOff
  <1>3. Len(Tail(line)) # 0
    BY <1>2
  <1>4. ASSUME NEW t, Len(t) # 0 PROVE t # <<>>
    BY <1>4
  <1>. QED BY <1>2, <1>3, <1>4

\* The front of a line is lost.
LEMMA CutOff ==
    ASSUME NEW S, NEW line \in Seq(S), NEW n \in 0 .. Len(line)
    PROVE  /\ SubSeq(line, n + 1, Len(line)) \in Seq(S)
           /\ On(SubSeq(line, n + 1, Len(line))) \subseteq On(line)
  <1>. DEFINE cut == SubSeq(line, n + 1, Len(line))
  <1>1. Len(line) \in Nat /\ n \in Nat /\ n <= Len(line)
    OBVIOUS
  <1>2. \A i \in n + 1 .. Len(line) : line[i] \in S
    BY <1>1
  <1>3. /\ cut \in Seq(S)
        /\ Len(cut) = IF n + 1 <= Len(line) THEN Len(line) - (n + 1) + 1 ELSE 0
        /\ \A i \in 1 .. Len(line) - (n + 1) + 1 : cut[i] = line[n + 1 + i - 1]
    BY <1>1, <1>2, SubSeqProperties
  <1>. HIDE DEF cut
  <1>4. ASSUME NEW i \in 1 .. Len(cut) PROVE cut[i] \in On(line)
    <2>1. i \in 1 .. Len(line) - (n + 1) + 1 /\ n + 1 + i - 1 \in 1 .. Len(line)
      BY <1>1, <1>3
    <2>. QED BY <1>3, <2>1 DEF On
  <1>. QED BY <1>3, <1>4 DEF On, cut

-----------------------------------------------------------------------------
(***************************************************************************)
(* The host.  Whatever otalink.py does between two waits is one of five    *)
(* things: nothing, a retry, a challenge, a proof, a command.              *)
(***************************************************************************)
Sends(pkt) ==
    /\ pkt \in SentPackets /\ pkt.id = h'.id
    /\ toDevice' = Append(toDevice, pkt)

\* A fresh sequence number.
Draws == h'.seq = (h.seq + 1) % SequenceModulus /\ h'.pkt.seq = h'.seq

\* The client takes a response as the verdict on its command.
Accepts(kind) ==
    /\ h.phase = "COMMAND"
    /\ \E r \in On(toHost) :
         r.kind = kind /\ r.seq = h.pkt.seq /\ (NeedsTag(h.pkt.cmd) => _verified_response(r))

\* The device does not know the session that the command was tagged for.
Refused ==
    /\ h.phase = "COMMAND" /\ NeedsTag(h.pkt.cmd)
    /\ \E r \in On(toHost) : _is_auth_required(r)

SameRequest == Waiting /\ h'.id = h.id /\ h'.todo = h.todo
NewRequest ==
    /\ h'.id = h.id + 1
    /\ \/ ~Waiting /\ h'.todo \in Operations
       \/ Waiting /\ Len(h.todo) > 1 /\ h'.todo = Tail(h.todo) /\ Accepts("ACK")

HostQuiet ==
    /\ UNCHANGED toDevice /\ h'.nonce = h.nonce /\ h'.id = h.id
    /\ (h'.phase = "IDLE" /\ h'.pkt = NoPacket /\ h'.todo = <<>>) \/ h' = h
    /\ h'.authenticated => h.authenticated /\ h'.key = h.key
    /\ h'.seq = h.seq \/ (TakeOver /\ ~h'.authenticated)

HostRetries ==
    /\ SameRequest /\ Sends(h.pkt)
    /\ h'.phase = h.phase /\ h'.pkt = h.pkt /\ h'.nonce = h.nonce /\ h'.seq = h.seq
    /\ h'.authenticated = h.authenticated /\ h'.key = h.key

HostChallenges ==
    /\ (SameRequest /\ Refused) \/ NewRequest
    /\ Draws /\ NeedsTag(Head(h'.todo).cmd)
    /\ Sends(h'.pkt) /\ h'.phase = "CHALLENGE" /\ IsChallenge(h'.pkt)
    /\ h'.nonce = h.nonce + 1 /\ h'.pkt.key.client = h'.nonce /\ ~h'.authenticated

HostProves ==
    /\ SameRequest /\ Draws
    /\ Sends(h'.pkt) /\ h'.phase = "PROOF" /\ IsProof(h'.pkt) /\ h'.pkt.key = h'.key
    /\ h'.nonce = h.nonce /\ h.phase = "CHALLENGE" /\ ~h'.authenticated
    /\ h'.key.client = h.pkt.key.client
    /\ \E r \in On(toHost) : IsChallenge(r) /\ r.key = h'.key /\ r = Head(toHost)

\* The device has accepted the proof.
Proven ==
    /\ h.phase = "PROOF" /\ h'.authenticated
    /\ \E r \in On(toHost) : r.kind = "ACK" /\ r.seq = h.pkt.seq

HostCommands ==
    /\ (SameRequest /\ Proven) \/ (NewRequest /\ (h'.authenticated => h.authenticated))
    /\ Draws
    /\ h'.pkt.key = IF NeedsTag(h'.pkt.cmd) THEN h'.key ELSE NoKey
    /\ NeedsTag(h'.pkt.cmd) => h'.authenticated
    /\ Sends(h'.pkt) /\ h'.phase = "COMMAND"
    /\ h'.pkt.cmd = Head(h'.todo).cmd /\ h'.pkt.payload = Head(h'.todo).payload
    /\ h'.nonce = h.nonce
    /\ h'.authenticated => (h.authenticated \/ h.phase = "PROOF") /\ h'.key = h.key

HostStep == HostQuiet \/ HostRetries \/ HostChallenges \/ HostProves \/ HostCommands

\* The next sequence number is one.
LEMMA NextSequence ==
    ASSUME NEW c \in Hosts
    PROVE  _next_sequence(c) \in Sequence
  <1>1. c.seq \in Nat /\ SequenceModulus \in Nat \ {0}
    BY HostAssumption DEF Hosts, Sequence
  <1>. QED BY <1>1 DEF _next_sequence, Sequence

\* No key is a key.
LEMMA NoKeyType == NoKey \in Keys
  BY DEF NoKey, hmac_prefixed_nonce_pair, Keys

\* What a client with something to do sends, and what becomes of it.
LEMMA ClientSends ==
    ASSUME NEW c \in Hosts, NEW packet \in SentPackets, NEW phase \in Phases,
           SendFirst(c, phase, packet)
    PROVE  /\ h' \in Hosts /\ h'.phase = phase /\ h'.pkt = packet
           /\ h'.todo = c.todo /\ h'.key = c.key /\ h'.authenticated = c.authenticated
           /\ h'.nonce = c.nonce /\ h'.id = c.id /\ h'.seq = packet.seq
           /\ toDevice' = Append(toDevice, packet)
  <1>1. h' = [c EXCEPT !.phase = phase, !.pkt = packet, !.seq = packet.seq, !.attempt = 1]
    BY DEF SendFirst
  <1>2. packet.seq \in Sequence /\ 1 \in 0 .. Retries
    BY HostAssumption DEF SentPackets
  <1>3. h' \in Hosts
    BY <1>1, <1>2 DEF Hosts
  <1>. QED BY <1>1, <1>3 DEF Hosts, SendFirst

\* A command goes out with the payload of the first request.
LEMMA ClientCommands ==
    ASSUME NEW c \in Hosts, c.todo # <<>>, SendCommand(c)
    PROVE  /\ h' \in Hosts /\ h'.phase = "COMMAND"
           /\ h'.todo = c.todo /\ h'.key = c.key /\ h'.authenticated = c.authenticated
           /\ h'.nonce = c.nonce /\ h'.id = c.id
           /\ Sends(h'.pkt)
           /\ h'.pkt.cmd = Head(h'.todo).cmd /\ h'.pkt.payload = Head(h'.todo).payload
           /\ h'.seq = _next_sequence(c) /\ h'.pkt.seq = h'.seq
           /\ h'.pkt.key = IF NeedsTag(h'.pkt.cmd) THEN h'.key ELSE NoKey
  <1>. DEFINE r == Head(c.todo)
              key == IF NeedsTag(r.cmd) THEN c.key ELSE NoKey
              packet == Request(r.cmd, _next_sequence(c), r.payload, key, c.id)
  <1>1. c.todo \in Seq(Requests) /\ c.key \in Keys /\ c.id \in Nat
    BY DEF Hosts
  <1>2. r \in Requests /\ key \in Keys
    BY <1>1, NoKeyType
  <1>. HIDE DEF r, key
  <1>3. r.cmd \in Protected \cup {"PING"} /\ r.payload \in Payloads
    BY <1>2 DEF Requests
  <1>4. packet \in SentPackets /\ packet.cmd = r.cmd /\ packet.payload = r.payload
        /\ packet.id = c.id /\ packet.seq = _next_sequence(c) /\ packet.key = key
    BY <1>1, <1>2, <1>3, NextSequence DEF Request, SentPackets
  <1>. HIDE DEF packet
  <1>5. SendFirst(c, "COMMAND", packet)
    BY DEF SendCommand, r, key, packet
  <1>6. /\ h' \in Hosts /\ h'.phase = "COMMAND" /\ h'.pkt = packet
        /\ h'.todo = c.todo /\ h'.key = c.key /\ h'.authenticated = c.authenticated
        /\ h'.nonce = c.nonce /\ h'.id = c.id /\ h'.seq = packet.seq
        /\ toDevice' = Append(toDevice, packet)
    BY <1>4, <1>5, ClientSends DEF Phases
  <1>. QED BY <1>4, <1>6 DEF Sends, r, key

\* A challenge goes out with a fresh nonce.
LEMMA ClientChallenges ==
    ASSUME NEW c \in Hosts, SendChallenge(c)
    PROVE  /\ h' \in Hosts /\ h'.phase = "CHALLENGE"
           /\ h'.todo = c.todo /\ h'.authenticated = c.authenticated
           /\ h'.nonce = c.nonce + 1 /\ h'.id = c.id
           /\ Sends(h'.pkt)
           /\ IsChallenge(h'.pkt) /\ h'.pkt.key.client = h'.nonce
           /\ h'.seq = _next_sequence(c) /\ h'.pkt.seq = h'.seq
  <1>. DEFINE d == [c EXCEPT !.nonce = @ + 1]
              key == hmac_prefixed_nonce_pair(c.nonce + 1, 0)
              packet == Request("AUTH_CHALLENGE", _next_sequence(c), <<>>, key, c.id)
  <1>1. c.nonce \in Nat /\ c.id \in Nat
    BY DEF Hosts
  <1>2. /\ d \in Hosts /\ d.todo = c.todo /\ d.authenticated = c.authenticated
        /\ d.nonce = c.nonce + 1 /\ d.id = c.id
    BY <1>1 DEF Hosts
  <1>3. key \in Keys /\ key.client = c.nonce + 1
    BY <1>1 DEF Keys, hmac_prefixed_nonce_pair
  <1>. HIDE DEF d, key
  <1>4. packet \in SentPackets /\ packet.cmd = "AUTH_CHALLENGE" /\ packet.key = key
        /\ packet.id = c.id /\ packet.seq = _next_sequence(c)
    BY <1>1, <1>3, NextSequence DEF Request, SentPackets, AuthCommands
  <1>. HIDE DEF packet
  <1>5. SendFirst(d, "CHALLENGE", packet)
    BY DEF SendChallenge, d, key, packet
  <1>6. /\ h' \in Hosts /\ h'.phase = "CHALLENGE" /\ h'.pkt = packet
        /\ h'.todo = d.todo /\ h'.authenticated = d.authenticated
        /\ h'.nonce = d.nonce /\ h'.id = d.id /\ h'.seq = packet.seq
        /\ toDevice' = Append(toDevice, packet)
    BY <1>2, <1>4, <1>5, ClientSends DEF Phases
  <1>. QED BY <1>2, <1>3, <1>4, <1>6 DEF Sends, IsChallenge

\* A proof goes out with the client's key.
LEMMA ClientProves ==
    ASSUME NEW c \in Hosts, SendProof(c)
    PROVE  /\ h' \in Hosts /\ h'.phase = "PROOF"
           /\ h'.todo = c.todo /\ h'.key = c.key /\ h'.authenticated = c.authenticated
           /\ h'.nonce = c.nonce /\ h'.id = c.id
           /\ Sends(h'.pkt)
           /\ IsProof(h'.pkt) /\ h'.pkt.key = h'.key
           /\ h'.seq = _next_sequence(c) /\ h'.pkt.seq = h'.seq
  <1>. DEFINE packet == Request("AUTH_PROOF", _next_sequence(c), <<>>, c.key, c.id)
  <1>1. c.key \in Keys /\ c.id \in Nat
    BY DEF Hosts
  <1>2. packet \in SentPackets /\ packet.cmd = "AUTH_PROOF" /\ packet.key = c.key
        /\ packet.id = c.id /\ packet.seq = _next_sequence(c)
    BY <1>1, NextSequence DEF Request, SentPackets, AuthCommands
  <1>. HIDE DEF packet
  <1>3. SendFirst(c, "PROOF", packet)
    BY DEF SendProof, packet
  <1>4. /\ h' \in Hosts /\ h'.phase = "PROOF" /\ h'.pkt = packet
        /\ h'.todo = c.todo /\ h'.key = c.key /\ h'.authenticated = c.authenticated
        /\ h'.nonce = c.nonce /\ h'.id = c.id /\ h'.seq = packet.seq
        /\ toDevice' = Append(toDevice, packet)
    BY <1>2, <1>3, ClientSends DEF Phases
  <1>. QED BY <1>2, <1>4 DEF Sends, IsProof

\* The client goes back to its prompt.
LEMMA ClientStops ==
    ASSUME NEW c \in Hosts, ToPrompt(c)
    PROVE  /\ h' \in Hosts /\ h'.phase = "IDLE" /\ UNCHANGED toDevice
           /\ h'.nonce = c.nonce /\ h'.id = c.id
           /\ h'.key = c.key /\ h'.authenticated = c.authenticated
           /\ h'.seq = c.seq /\ h'.pkt = NoPacket /\ h'.todo = <<>>
  <1>1. h' = [c EXCEPT !.phase = "IDLE", !.todo = <<>>, !.pkt = NoPacket, !.attempt = 0]
    BY DEF ToPrompt
  <1>2. << >> \in Seq(Requests) /\ 0 \in 0 .. Retries
    BY HostAssumption
  <1>3. h' \in Hosts
    BY <1>1, <1>2 DEF Hosts, Phases
  <1>. QED BY <1>1, <1>3 DEF Hosts, ToPrompt

\* authenticate() and request() end in a challenge or in the command.
LEMMA ClientContinues ==
    ASSUME NEW c \in Hosts, c.todo # <<>>, AuthenticateThenSend(c)
    PROVE  /\ h' \in Hosts /\ h'.todo = c.todo /\ h'.id = c.id /\ Sends(h'.pkt)
           /\ h'.seq = _next_sequence(c) /\ h'.pkt.seq = h'.seq
           /\ \/ /\ h'.phase = "CHALLENGE" /\ IsChallenge(h'.pkt)
                 /\ h'.nonce = c.nonce + 1 /\ h'.pkt.key.client = h'.nonce
                 /\ ~h'.authenticated /\ NeedsTag(Head(h'.todo).cmd)
              \/ /\ h'.phase = "COMMAND"
                 /\ h'.pkt.cmd = Head(h'.todo).cmd /\ h'.pkt.payload = Head(h'.todo).payload
                 /\ h'.nonce = c.nonce
                 /\ h'.key = c.key /\ h'.authenticated = c.authenticated
                 /\ h'.pkt.key = IF NeedsTag(h'.pkt.cmd) THEN h'.key ELSE NoKey
                 /\ NeedsTag(h'.pkt.cmd) => h'.authenticated
  <1>1. CASE NeedsTag(Head(c.todo).cmd) /\ ~c.authenticated /\ SendChallenge(c)
    BY <1>1, ClientChallenges
  <1>2. CASE SendCommand(c) /\ ~(NeedsTag(Head(c.todo).cmd) /\ ~c.authenticated)
    BY <1>2, ClientCommands
  <1>. QED BY <1>1, <1>2 DEF AuthenticateThenSend

\* The operator hears of the request that is under way.
LEMMA OperatorTold ==
    ASSUME HostInv, Waiting, NEW outcome \in Outcomes, Tell(outcome)
    PROVE  /\ told' \in Seq([cmd : Protected \cup {"PING"}, outcome : Outcomes])
           /\ Len(told') = h.id
  <1>. DEFINE T == [cmd : Protected \cup {"PING"}, outcome : Outcomes]
              verdict == [cmd |-> Head(h.todo).cmd, outcome |-> outcome]
  <1>1. /\ h.todo \in Seq(Requests) /\ h.todo # <<>> /\ h.id \in Nat
        /\ told \in Seq(T) /\ Len(told) = h.id - 1
    BY DEF HostInv, Hosts
  <1>2. Head(h.todo) \in Requests
    BY <1>1
  <1>3. verdict \in T
    BY <1>2 DEF Requests
  <1>. HIDE DEF T, verdict
  <1>4. told' = Append(told, verdict)
    BY DEF Tell, verdict
  <1>5. told' \in Seq(T) /\ Len(told') = Len(told) + 1
    BY <1>1, <1>3, <1>4
  <1>. QED BY <1>1, <1>5 DEF T

\* The client stops, and the operator hears why.
LEMMA ClientFails ==
    ASSUME HostInv, Waiting, NEW outcome \in Outcomes, Fail(h, outcome)
    PROVE  HostInv' /\ HostQuiet
  <1>1. h \in Hosts
    BY DEF HostInv
  <1>2. /\ h' \in Hosts /\ h'.phase = "IDLE" /\ UNCHANGED toDevice
        /\ h'.nonce = h.nonce /\ h'.id = h.id
        /\ h'.key = h.key /\ h'.authenticated = h.authenticated
        /\ h'.seq = h.seq /\ h'.pkt = NoPacket /\ h'.todo = <<>>
    BY <1>1, ClientStops DEF Fail
  <1>3. /\ told' \in Seq([cmd : Protected \cup {"PING"}, outcome : Outcomes])
        /\ Len(told') = h.id
    BY OperatorTold DEF Fail
  <1>. QED BY <1>2, <1>3 DEF HostInv, HostQuiet, Waiting

\* A request begins, or begins again with a new session.
LEMMA ClientProceeds ==
    ASSUME HostInv, NEW c \in Hosts, c.todo # <<>>, AuthenticateThenSend(c),
           told' \in Seq([cmd : Protected \cup {"PING"}, outcome : Outcomes]),
           Len(told') = c.id - 1, c.nonce = h.nonce, c.seq = h.seq,
           \/ /\ c.id = h.id + 1
              /\ \/ ~Waiting /\ c.todo \in Operations
                 \/ Waiting /\ Len(h.todo) > 1 /\ c.todo = Tail(h.todo) /\ Accepts("ACK")
           \/ /\ Waiting /\ c.id = h.id /\ c.todo = h.todo /\ Refused
              /\ NeedsTag(Head(c.todo).cmd) /\ ~c.authenticated,
           c.authenticated => h.authenticated /\ c.key = h.key
    PROVE  HostInv' /\ HostStep
  <1>1. /\ h' \in Hosts /\ h'.todo = c.todo /\ h'.id = c.id /\ Sends(h'.pkt)
        /\ h'.seq = _next_sequence(c) /\ h'.pkt.seq = h'.seq
        /\ \/ /\ h'.phase = "CHALLENGE" /\ IsChallenge(h'.pkt)
              /\ h'.nonce = c.nonce + 1 /\ h'.pkt.key.client = h'.nonce
              /\ ~h'.authenticated /\ NeedsTag(Head(h'.todo).cmd)
           \/ /\ h'.phase = "COMMAND"
              /\ h'.pkt.cmd = Head(h'.todo).cmd /\ h'.pkt.payload = Head(h'.todo).payload
              /\ h'.nonce = c.nonce
              /\ h'.key = c.key /\ h'.authenticated = c.authenticated
              /\ h'.pkt.key = IF NeedsTag(h'.pkt.cmd) THEN h'.key ELSE NoKey
              /\ NeedsTag(h'.pkt.cmd) => h'.authenticated
    BY ClientContinues
  <1>2. (SameRequest /\ Refused /\ h'.phase = "CHALLENGE") \/ NewRequest
    BY <1>1 DEF SameRequest, NewRequest
  <1>3. HostInv'
    BY <1>1 DEF HostInv, Waiting, Sends, IsChallenge
  <1>4. Draws
    BY <1>1 DEF Draws, _next_sequence
  <1>5. HostChallenges \/ HostCommands
    BY <1>1, <1>2, <1>4 DEF HostChallenges, HostCommands
  <1>. QED BY <1>3, <1>5 DEF HostStep

\* A client turns to its next request.
LEMMA ClientTurns ==
    ASSUME NEW c \in Hosts, NEW todo \in Seq(Requests), todo # <<>>,
           StartRequest([c EXCEPT !.todo = todo])
    PROVE  \E d \in Hosts :
             /\ d.todo = todo /\ d.id = c.id + 1 /\ d.nonce = c.nonce
             /\ d.key = c.key /\ d.authenticated = c.authenticated /\ d.seq = c.seq
             /\ AuthenticateThenSend(d)
  <1>. DEFINE b == [c EXCEPT !.todo = todo]
              d == [b EXCEPT !.id = @ + 1, !.auth_retried = FALSE]
  <1>1. /\ b \in Hosts /\ b.todo = todo /\ b.id = c.id /\ b.nonce = c.nonce
        /\ b.key = c.key /\ b.authenticated = c.authenticated /\ b.seq = c.seq
    BY DEF Hosts
  <1>2. AuthenticateThenSend(d)
    BY DEF StartRequest
  <1>. HIDE DEF b
  <1>3. b.id + 1 \in Nat
    BY <1>1 DEF Hosts
  <1>4. /\ d \in Hosts /\ d.todo = b.todo /\ d.id = b.id + 1 /\ d.nonce = b.nonce
        /\ d.key = b.key /\ d.authenticated = b.authenticated /\ d.seq = b.seq
    BY <1>1, <1>3 DEF Hosts
  <1>. HIDE DEF d
  <1>. QED BY <1>1, <1>2, <1>4

\* The operator starts an operation.
LEMMA OperateStep ==
    ASSUME HostInv, NEW requests \in Operations, StartOperation(requests)
    PROVE  HostInv' /\ HostStep
  <1>1. requests \in Seq(Requests) /\ requests # <<>>
    BY OperationsAssumption
  <1>2. h \in Hosts /\ h.id \in Nat /\ ~Waiting /\ Len(told) = h.id
    BY DEF HostInv, Hosts, StartOperation
  <1>3. PICK c \in Hosts :
          /\ c.todo = requests /\ c.id = h.id + 1 /\ c.nonce = h.nonce
          /\ c.key = h.key /\ c.authenticated = h.authenticated /\ c.seq = h.seq
          /\ AuthenticateThenSend(c)
    BY <1>1, <1>2, ClientTurns DEF StartOperation
  <1>4. /\ told' \in Seq([cmd : Protected \cup {"PING"}, outcome : Outcomes])
        /\ Len(told') = c.id - 1
    BY <1>2, <1>3 DEF HostInv, StartOperation
  <1>. QED BY <1>1, <1>2, <1>3, <1>4, ClientProceeds

\* A wait ends without a response.
LEMMA TimeoutStep ==
    ASSUME HostInv, HostTimeout
    PROVE  HostInv' /\ HostStep
  <1>1. h \in Hosts /\ Waiting
    BY DEF HostInv, HostTimeout
  <1>2. CASE /\ h.attempt < Retries
             /\ h' = [h EXCEPT !.attempt = @ + 1]
             /\ toDevice' = Append(toDevice, h.pkt)
             /\ UNCHANGED told
    <2>1. h.attempt + 1 \in 0 .. Retries
      BY <1>1, <1>2, HostAssumption DEF Hosts
    <2>2. /\ h' \in Hosts /\ h'.phase = h.phase /\ h'.pkt = h.pkt /\ h'.todo = h.todo
          /\ h'.nonce = h.nonce /\ h'.id = h.id /\ h'.seq = h.seq
          /\ h'.key = h.key /\ h'.authenticated = h.authenticated
      BY <1>1, <1>2, <2>1 DEF Hosts
    <2>3. HostInv'
      BY <1>1, <1>2, <2>2 DEF HostInv, Waiting
    <2>. QED BY <1>1, <1>2, <2>2, <2>3 DEF HostInv, HostStep, HostRetries, SameRequest, Sends
  <1>3. CASE Fail(h, "TIMEOUT")
    BY <1>1, <1>3, ClientFails DEF Outcomes, HostStep
  <1>. QED BY <1>2, <1>3 DEF HostTimeout

\* A client takes over.
LEMMA TakeOverStep ==
    ASSUME HostInv, TakeOver, ClientRestarts
    PROVE  HostInv' /\ HostStep
  <1>1. PICK seq \in FirstSequences : h' = NewClient(seq, h.nonce, h.id)
    BY DEF ClientRestarts
  <1>2. h \in Hosts /\ seq \in Sequence
    BY HostAssumption DEF HostInv, Sequence
  <1>3. << >> \in Seq(Requests) /\ 0 \in 0 .. Retries
    BY HostAssumption
  <1>4. h' \in Hosts
    BY <1>1, <1>2, <1>3, NoKeyType DEF NewClient, Hosts, Phases
  <1>5. /\ h'.phase = "IDLE" /\ ~h'.authenticated
        /\ h'.nonce = h.nonce /\ h'.id = h.id /\ UNCHANGED toDevice
        /\ h'.pkt = NoPacket /\ h'.todo = <<>>
    BY <1>1 DEF NewClient, ClientRestarts
  <1>6. /\ told' \in Seq([cmd : Protected \cup {"PING"}, outcome : Outcomes])
        /\ Len(told') = h.id
    <2>1. CASE Waiting
      BY <2>1, OperatorTold DEF ClientRestarts, Outcomes
    <2>2. CASE ~Waiting
      BY <2>2 DEF ClientRestarts, HostInv
    <2>. QED BY <2>1, <2>2
  <1>. QED BY <1>4, <1>5, <1>6 DEF HostInv, HostStep, HostQuiet, Waiting

\* A response arrives.
LEMMA ReceiveStep ==
    ASSUME HostInv, NEW r \in Answers, r \in On(toHost), r = Head(toHost), HostReceives(r)
    PROVE  HostInv' /\ HostStep
  <1>1. h \in Hosts /\ Waiting /\ h.todo # <<>> /\ r.key \in Keys
    BY DEF HostInv, HostReceives, Answers, Responses
  <1>2. CASE UNCHANGED hostVars
    BY <1>1, <1>2 DEF HostInv, HostStep, HostQuiet, hostVars, Waiting
  <1>3. ASSUME NEW outcome \in Outcomes, Fail(h, outcome)
        PROVE  HostInv' /\ HostStep
    BY <1>1, <1>3, ClientFails DEF HostStep
  <1>4. CASE OnChallengeAnswer(r)
    <2>1. CASE Fail(h, "NO_SESSION")
      BY <1>3, <2>1 DEF Outcomes
    <2>2. CASE /\ r.cmd = "AUTH_CHALLENGE" /\ r.key.client = h.pkt.key.client
               /\ SendProof([h EXCEPT !.key = r.key]) /\ UNCHANGED told
      <3>. DEFINE c == [h EXCEPT !.key = r.key]
      <3>1. /\ c \in Hosts /\ c.key = r.key /\ c.todo = h.todo /\ c.nonce = h.nonce
            /\ c.id = h.id /\ c.authenticated = h.authenticated /\ c.seq = h.seq
        BY <1>1 DEF Hosts
      <3>. HIDE DEF c
      <3>2. /\ h' \in Hosts /\ h'.phase = "PROOF"
            /\ h'.todo = c.todo /\ h'.key = c.key /\ h'.authenticated = c.authenticated
            /\ h'.nonce = c.nonce /\ h'.id = c.id
            /\ Sends(h'.pkt)
            /\ IsProof(h'.pkt) /\ h'.pkt.key = h'.key
            /\ h'.seq = _next_sequence(c) /\ h'.pkt.seq = h'.seq
        BY <2>2, <3>1, ClientProves DEF c
      <3>3. HostInv'
        BY <1>1, <2>2, <3>1, <3>2 DEF HostInv, Waiting, Sends, IsProof
      <3>4. h.phase = "CHALLENGE" /\ ~h.authenticated
        BY <1>4 DEF OnChallengeAnswer, HostInv
      <3>5. Draws
        BY <3>1, <3>2 DEF Draws, _next_sequence
      <3>. QED BY <1>1, <2>2, <3>1, <3>2, <3>3, <3>4, <3>5
               DEF HostStep, HostProves, SameRequest, IsChallenge
    <2>. QED BY <1>4, <2>1, <2>2 DEF OnChallengeAnswer
  <1>5. CASE r.seq = h.pkt.seq /\ OnProofAnswer(r)
    <2>1. CASE Fail(h, "NO_SESSION")
      BY <1>3, <2>1 DEF Outcomes
    <2>2. CASE /\ r.kind = "ACK" /\ r.seq = h.pkt.seq
               /\ SendCommand([h EXCEPT !.authenticated = TRUE]) /\ UNCHANGED told
      <3>. DEFINE c == [h EXCEPT !.authenticated = TRUE]
      <3>1. /\ c \in Hosts /\ c.key = h.key /\ c.todo = h.todo /\ c.nonce = h.nonce
            /\ c.id = h.id /\ c.seq = h.seq /\ c.authenticated
        BY <1>1 DEF Hosts
      <3>. HIDE DEF c
      <3>2. /\ h' \in Hosts /\ h'.phase = "COMMAND"
            /\ h'.todo = c.todo /\ h'.key = c.key /\ h'.authenticated
            /\ h'.seq = _next_sequence(c) /\ h'.pkt.seq = h'.seq
            /\ h'.pkt.key = IF NeedsTag(h'.pkt.cmd) THEN h'.key ELSE NoKey
            /\ h'.nonce = c.nonce /\ h'.id = c.id
            /\ Sends(h'.pkt)
            /\ h'.pkt.cmd = Head(h'.todo).cmd /\ h'.pkt.payload = Head(h'.todo).payload
        BY <1>1, <2>2, <3>1, ClientCommands DEF c
      <3>3. HostInv'
        BY <1>1, <2>2, <3>1, <3>2 DEF HostInv, Waiting, Sends
      <3>4. h.phase = "PROOF"
        BY <1>5 DEF OnProofAnswer
      <3>5. Draws
        BY <3>1, <3>2 DEF Draws, _next_sequence
      <3>6. Proven
        BY <2>2, <3>2, <3>4 DEF Proven
      <3>. QED BY <1>1, <3>1, <3>2, <3>3, <3>4, <3>5, <3>6
               DEF HostStep, HostCommands, SameRequest
    <2>. QED BY <1>5, <2>1, <2>2 DEF OnProofAnswer
  <1>6. CASE r.seq = h.pkt.seq /\ OnCommandAnswer(r)
    <2>1. CASE Fail(h, "UNVERIFIED") \/ Fail(h, "NACK")
      BY <1>3, <2>1 DEF Outcomes
    <2>2. CASE /\ NeedsTag(h.pkt.cmd) /\ _is_auth_required(r)
               /\ AuthenticateThenSend([_clear_authentication(h) EXCEPT !.auth_retried = TRUE])
               /\ UNCHANGED told
      <3>. DEFINE c == [_clear_authentication(h) EXCEPT !.auth_retried = TRUE]
      <3>1. /\ c \in Hosts /\ c.todo = h.todo /\ c.nonce = h.nonce
            /\ c.id = h.id /\ ~c.authenticated /\ c.seq = h.seq
        BY <1>1, NoKeyType DEF Hosts, _clear_authentication
      <3>. HIDE DEF c
      <3>2. /\ told' \in Seq([cmd : Protected \cup {"PING"}, outcome : Outcomes])
            /\ Len(told') = c.id - 1
        BY <1>1, <2>2, <3>1 DEF HostInv
      <3>3. Refused /\ NeedsTag(Head(c.todo).cmd)
        BY <1>6, <2>2, <3>1 DEF Refused, OnCommandAnswer, HostInv
      <3>. QED BY <1>1, <2>2, <3>1, <3>2, <3>3, ClientProceeds DEF c
    <2>3. CASE /\ ~NeedsTag(h.pkt.cmd) \/ _verified_response(r)
               /\ r.kind = "ACK" /\ Tell("ACK")
               /\ IF Len(h.todo) > 1
                  THEN StartRequest([AfterAck EXCEPT !.todo = Tail(@)])
                  ELSE ToPrompt(AfterAck)
      <3>. DEFINE a == AfterAck
      <3>1. /\ a \in Hosts /\ a.todo = h.todo /\ a.nonce = h.nonce /\ a.id = h.id
            /\ a.seq = h.seq
            /\ a.authenticated => h.authenticated /\ a.key = h.key
        BY <1>1, NoKeyType DEF Hosts, AfterAck, _clear_authentication
      <3>2. /\ told' \in Seq([cmd : Protected \cup {"PING"}, outcome : Outcomes])
            /\ Len(told') = h.id
        BY <1>1, <2>3, OperatorTold DEF Outcomes
      <3>. HIDE DEF a
      <3>3. CASE Len(h.todo) > 1 /\ StartRequest([a EXCEPT !.todo = Tail(@)])
        <4>1. h.todo \in Seq(Requests) /\ h.id \in Nat
          BY <1>1 DEF Hosts
        <4>2. PICK rest \in Seq(Requests) : rest = Tail(h.todo) /\ rest # <<>>
          BY <3>3, <4>1, TailOfMore
        <4>3. PICK c \in Hosts :
                /\ c.todo = rest /\ c.id = a.id + 1 /\ c.nonce = a.nonce
                /\ c.key = a.key /\ c.authenticated = a.authenticated /\ c.seq = a.seq
                /\ AuthenticateThenSend(c)
          <5>1. StartRequest([a EXCEPT !.todo = rest])
            BY <3>1, <3>3, <4>2
          <5>. QED BY <3>1, <4>2, <5>1, ClientTurns
        <4>4. Len(told') = c.id - 1
          BY <3>1, <3>2, <4>1, <4>3
        <4>5. Accepts("ACK")
          BY <1>6, <2>3 DEF Accepts, OnCommandAnswer
        <4>. QED BY <1>1, <3>1, <3>2, <3>3, <4>2, <4>3, <4>4, <4>5, ClientProceeds
      <3>4. CASE ToPrompt(a)
        <4>1. /\ h' \in Hosts /\ h'.phase = "IDLE" /\ UNCHANGED toDevice
              /\ h'.nonce = a.nonce /\ h'.id = a.id
              /\ h'.key = a.key /\ h'.authenticated = a.authenticated
              /\ h'.seq = a.seq /\ h'.pkt = NoPacket /\ h'.todo = <<>>
          BY <3>1, <3>4, ClientStops
        <4>. QED BY <3>1, <3>2, <4>1 DEF HostInv, HostStep, HostQuiet, Waiting
      <3>. QED BY <2>3, <3>3, <3>4 DEF a
    <2>. QED BY <1>6, <2>1, <2>2, <2>3 DEF OnCommandAnswer
  <1>. QED BY <1>2, <1>4, <1>5, <1>6 DEF HostReceives

\* The host's steps on the link: the device does not move, and what is on its
\* way to the host was on its way before.
HostMoves == Operate \/ Timeout \/ Receive \/ TakeOver

LEMMA HostSteps ==
    ASSUME HostInv, LineInv, HostMoves
    PROVE  /\ HostInv' /\ HostStep
           /\ toHost' \in Seq(Answers) /\ On(toHost') \subseteq On(toHost)
           /\ UNCHANGED <<deviceVars, s_auth, challenges, resets, boots, log>>
  <1>1. toHost \in Seq(Answers)
    BY DEF LineInv
  <1>2. CASE Operate
    <2>1. PICK requests \in Operations : StartOperation(requests)
      BY <1>2 DEF Operate
    <2>2. HostInv' /\ HostStep
      BY <2>1, OperateStep
    <2>. QED BY <1>1, <1>2, <2>2 DEF Operate
  <1>3. CASE Timeout
    <2>1. HostInv' /\ HostStep
      BY <1>3, TimeoutStep DEF Timeout
    <2>. QED BY <1>1, <1>3, <2>1 DEF Timeout, linkVars
  <1>4. CASE Receive
    <2>1. /\ Tail(toHost) \in Seq(Answers) /\ On(Tail(toHost)) \subseteq On(toHost)
          /\ Head(toHost) \in Answers /\ Head(toHost) \in On(toHost)
      BY <1>1, <1>4, TakenOff DEF Receive
    <2>2. HostInv' /\ HostStep
      BY <1>4, <2>1, ReceiveStep DEF Receive
    <2>. QED BY <1>4, <2>1, <2>2 DEF Receive, linkVars
  <1>5. CASE TakeOver
    <2>1. PICK arrived \in 0 .. Len(toHost) :
            toHost' = SubSeq(toHost, arrived + 1, Len(toHost))
      BY <1>5 DEF TakeOver
    <2>2. toHost' \in Seq(Answers) /\ On(toHost') \subseteq On(toHost)
      BY <1>1, <2>1, CutOff
    <2>3. HostInv' /\ HostStep
      BY <1>5, TakeOverStep DEF TakeOver
    <2>. QED BY <1>5, <2>2, <2>3 DEF TakeOver
  <1>. QED BY <1>2, <1>3, <1>4, <1>5 DEF HostMoves

\* The packet of a wait is that of its phase.
PacketOfPhase ==
    /\ IsChallenge(h.pkt) =>
         h.phase = "CHALLENGE" /\ h.pkt.key.client = h.nonce /\ ~h.authenticated
    /\ IsProof(h.pkt) => h.phase = "PROOF" /\ h.pkt.key = h.key
    /\ IsCommand(h.pkt) =>
         h.pkt.cmd = Head(h.todo).cmd /\ h.pkt.payload = Head(h.todo).payload

LEMMA PhasePacket == HostInv /\ Waiting => PacketOfPhase
  <1>. SUFFICES ASSUME HostInv, Waiting PROVE PacketOfPhase
    OBVIOUS
  <1>1. h.phase \in {"CHALLENGE", "PROOF", "COMMAND"}
    BY DEF HostInv, Hosts, Phases, Waiting
  <1>2. Head(h.todo).cmd \in Protected \cup {"PING"}
    <2>1. h.todo \in Seq(Requests) /\ h.todo # <<>>
      BY DEF HostInv, Hosts
    <2>2. Head(h.todo) \in Requests
      BY <2>1
    <2>. QED BY <2>2 DEF Requests
  <1>3. h.phase = "COMMAND" => ~IsChallenge(h.pkt) /\ ~IsProof(h.pkt)
    BY <1>2 DEF HostInv, IsChallenge, IsProof, Protected
  <1>4. h.phase # "COMMAND" => ~IsCommand(h.pkt)
    BY <1>1 DEF HostInv, IsCommand, Protected
  <1>. QED BY <1>1, <1>3, <1>4 DEF PacketOfPhase, HostInv, IsChallenge, IsProof

\* The host sends the packet it waits for the answer of, or nothing.
HostSends == Waiting' /\ Sends(h'.pkt) /\ PacketOfPhase'

LEMMA HostSendsOrNot ==
    ASSUME HostInv, HostInv', HostStep
    PROVE  /\ UNCHANGED toDevice \/ HostSends
           /\ h.nonce \in Nat /\ h'.nonce \in Nat /\ h'.nonce >= h.nonce
           /\ h.id \in Nat /\ h'.id \in Nat /\ h'.id >= h.id
  <1>1. HostInv' /\ Waiting' => PacketOfPhase'
    BY PhasePacket, PTL
  <1>2. UNCHANGED toDevice \/ (Waiting' /\ Sends(h'.pkt))
    BY DEF HostStep, HostQuiet, HostRetries, HostChallenges, HostProves, HostCommands, SameRequest,
           Waiting
  <1>3. /\ h.nonce \in Nat /\ h'.nonce \in Nat /\ h.id \in Nat /\ h'.id \in Nat
    BY DEF HostInv, Hosts
  <1>4. (h'.nonce = h.nonce \/ h'.nonce = h.nonce + 1) /\ (h'.id = h.id \/ h'.id = h.id + 1)
    BY DEF HostStep, HostQuiet, HostRetries, HostChallenges, HostProves, HostCommands, SameRequest,
           NewRequest
  <1>. QED BY <1>1, <1>2, <1>3, <1>4 DEF HostSends

\* The host's steps keep the nonces in order.
LEMMA HostNonces ==
    ASSUME HostInv, HostInv', LineInv, NonceInv, HostStep,
           On(toHost') \subseteq On(toHost), UNCHANGED s_auth
    PROVE  NonceInv'
  <1>1. /\ UNCHANGED toDevice \/ HostSends
        /\ h.nonce \in Nat /\ h'.nonce \in Nat /\ h'.nonce >= h.nonce
    BY HostSendsOrNot
  <1>2. /\ toDevice \in Seq(SentPackets) /\ Len(toDevice) \in Nat
        /\ s_auth.key.client \in Nat /\ h'.key \in Keys
        /\ \A q \in On(toDevice) : q.key.client \in Nat
    <2>1. toDevice \in Seq(SentPackets) /\ s_auth.key \in Keys /\ h'.key \in Keys
      BY DEF LineInv, AuthStates, HostInv, Hosts
    <2>2. On(toDevice) \subseteq SentPackets /\ Len(toDevice) \in Nat
      BY <2>1, OnLine
    <2>3. \A q \in On(toDevice) : q.key \in Keys
      BY <2>2 DEF SentPackets
    <2>. QED BY <2>1, <2>2, <2>3 DEF Keys
  <1>3. HostSends =>
          /\ Len(toDevice') = Len(toDevice) + 1
          /\ \A i \in 1 .. Len(toDevice) : toDevice'[i] = toDevice[i]
          /\ toDevice'[Len(toDevice) + 1] = h'.pkt
          /\ On(toDevice') = On(toDevice) \cup {h'.pkt}
    BY <1>2, Sent DEF HostSends, Sends
  <1>4. HostSends => /\ IsChallenge(h'.pkt) => h'.pkt.key.client = h'.nonce
                     /\ IsProof(h'.pkt) => h'.phase = "PROOF" /\ h'.pkt.key = h'.key
                     /\ IsChallenge(h'.pkt) => h'.phase = "CHALLENGE" /\ ~h'.authenticated
    BY DEF HostSends, PacketOfPhase, IsChallenge, IsProof
  \* The key in use is of the newest nonce.
  <1>5. h'.phase = "PROOF" \/ h'.authenticated =>
          /\ h'.key.client = h'.nonce /\ h'.nonce = h.nonce
          /\ Issued(h'.key.client) /\ OnlyProofOf(h'.key)
    <2>1. CASE HostQuiet \/ HostRetries \/ HostCommands
      BY <2>1 DEF HostQuiet, HostRetries, HostCommands, NonceInv
    <2>2. CASE HostChallenges
      BY <2>2 DEF HostChallenges
    <2>3. CASE HostProves
      <3>1. PICK r \in On(toHost) : IsChallenge(r) /\ r.key = h'.key
        BY <2>3 DEF HostProves
      <3>2. /\ h.phase = "CHALLENGE" /\ h'.key.client = h.nonce /\ h'.nonce = h.nonce
        BY <2>3 DEF HostProves, HostInv
      <3>3. Issued(h'.key.client)
        BY <3>1 DEF NonceInv
      <3>4. OnlyProofOf(h'.key)
        BY <1>1, <1>2, <3>2 DEF NonceInv, OnlyProofOf
      <3>. QED BY <3>2, <3>3, <3>4
    <2>. QED BY <2>1, <2>2, <2>3 DEF HostStep
  <1>6. h'.phase = "CHALLENGE" =>
          /\ \A q \in On(toDevice) : IsProof(q) => q.key.client < h'.nonce
          /\ s_auth.authenticated => s_auth.key.client < h'.nonce
    <2>1. CASE HostQuiet \/ HostRetries
      BY <2>1 DEF HostQuiet, HostRetries, NonceInv
    <2>2. CASE HostChallenges
      BY <1>1, <1>2, <2>2 DEF HostChallenges, NonceInv, NoncesInOrder
    <2>. QED BY <2>1, <2>2 DEF HostStep, HostProves, HostCommands
  <1>7. NoncesInOrder'
    <2>1. s_auth'.key.client <= h'.nonce
      BY <1>1, <1>2 DEF NonceInv, NoncesInOrder
    <2>2. \A q \in On(toDevice') : IsChallenge(q) \/ IsProof(q) => q.key.client <= h'.nonce
      <3>1. \A q \in On(toDevice) : IsChallenge(q) \/ IsProof(q) => q.key.client <= h'.nonce
        BY <1>1, <1>2 DEF NonceInv, NoncesInOrder
      <3>2. HostSends /\ (IsChallenge(h'.pkt) \/ IsProof(h'.pkt)) => h'.pkt.key.client <= h'.nonce
        BY <1>1, <1>4, <1>5
      <3>. QED BY <1>1, <1>3, <3>1, <3>2
    <2>3. ASSUME NEW i \in 1 .. Len(toDevice'), NEW j \in 1 .. Len(toDevice'), i < j,
                 IsChallenge(toDevice'[i]), IsChallenge(toDevice'[j])
          PROVE  toDevice'[i].key.client <= toDevice'[j].key.client
      <3>1. CASE UNCHANGED toDevice
        BY <2>3, <3>1 DEF NonceInv, NoncesInOrder
      <3>2. CASE HostSends /\ j \in 1 .. Len(toDevice)
        <4>1. i \in 1 .. Len(toDevice)
          BY <1>2, <2>3, <3>2
        <4>. QED BY <1>3, <2>3, <3>2, <4>1 DEF NonceInv, NoncesInOrder
      <3>3. CASE HostSends /\ j = Len(toDevice) + 1
        <4>1. i \in 1 .. Len(toDevice) /\ toDevice'[i] \in On(toDevice)
          BY <1>2, <1>3, <2>3, <3>3 DEF On
        <4>2. toDevice'[i].key.client <= h.nonce
          BY <2>3, <4>1 DEF NonceInv, NoncesInOrder
        <4>. QED BY <1>1, <1>2, <1>3, <1>4, <2>3, <3>3, <4>1, <4>2
      <3>. QED BY <1>1, <1>2, <1>3, <3>1, <3>2, <3>3
    <2>. QED BY <2>1, <2>2, <2>3 DEF NoncesInOrder
  <1>8. ASSUME NEW client \in Nat, Issued(client)
        PROVE  Issued(client)'
    BY <1>1, <1>2, <1>3, <1>4, <1>8 DEF Issued
  <1>9. \A r \in On(toHost') : IsChallenge(r) => Issued(r.key.client)'
    <2>1. \A r \in On(toHost) : r.key.client \in Nat
      <3>1. On(toHost) \subseteq Answers
        BY OnLine DEF LineInv
      <3>. QED BY <3>1 DEF Answers, Responses, Keys
    <2>2. ASSUME NEW r \in On(toHost'), IsChallenge(r) PROVE Issued(r.key.client)'
      <3>1. PICK client \in Nat : client = r.key.client
        BY <2>1
      <3>2. Issued(client)
        BY <2>2, <3>1 DEF NonceInv
      <3>3. Issued(client)'
        BY <1>8, <3>2
      <3>. QED BY <3>1, <3>3
    <2>. QED BY <2>2
  <1>10. h'.phase = "CHALLENGE" =>
           /\ \A q \in On(toDevice') : IsProof(q) => q.key.client < h'.nonce
           /\ s_auth'.authenticated => s_auth'.key.client < h'.nonce
    BY <1>1, <1>3, <1>4, <1>6
  <1>11. h'.phase = "PROOF" \/ h'.authenticated =>
           h'.key.client = h'.nonce /\ Issued(h.key.client)' /\ OnlyProofOf(h.key)'
    <2>1. PICK key \in Keys : key = h'.key
      BY <1>2
    <2>2. key.client \in Nat
      BY DEF Keys
    <2>3. h'.phase = "PROOF" \/ h'.authenticated => Issued(key.client)'
      BY <1>5, <1>8, <2>1, <2>2
    <2>4. h'.phase = "PROOF" \/ h'.authenticated => OnlyProofOf(key)'
      BY <1>1, <1>3, <1>4, <1>5, <2>1 DEF OnlyProofOf
    <2>. QED BY <1>5, <2>1, <2>3, <2>4 DEF Issued, OnlyProofOf
  <1>. QED BY <1>7, <1>9, <1>10, <1>11 DEF NonceInv

\* The log is one of entries.
LEMMA LogEntries ==
    ASSUME LineInv
    PROVE  /\ log \in Seq(Entries) /\ Len(log) \in Nat
           /\ \A i \in 1 .. Len(log) : log[i] \in Entries /\ log[i].id \in Nat /\ log[i].boot \in Nat
  <1>1. log \in Seq(Entries)
    BY DEF LineInv
  <1>2. Len(log) \in Nat /\ \A i \in 1 .. Len(log) : log[i] \in Entries
    BY <1>1
  <1>. QED BY <1>1, <1>2 DEF Entries

\* Whether a command is spent depends on its bytes and the device's RAM.
LEMMA SpentKept ==
    ASSUME NEW r, UNCHANGED <<s_ota, delayed>>
    PROVE  Spent(r)' <=> Spent(r)
  BY DEF Spent, WriteVerdict, DuplicateOfLast

LEMMA SpentByBytes ==
    ASSUME NEW q, NEW r, q.cmd = r.cmd, q.payload = r.payload, Spent(q)
    PROVE  Spent(r)
  BY DEF Spent

\* The host's steps keep the order.
LEMMA HostOrder ==
    ASSUME HostInv, HostInv', LineInv, OrderInv, HostStep,
           UNCHANGED <<s_ota, delayed, log, boots>>
    PROVE  OrderInv'
  <1>1. /\ UNCHANGED toDevice \/ HostSends
        /\ h.id \in Nat /\ h'.id \in Nat /\ h'.id >= h.id
    BY HostSendsOrNot
  <1>2. /\ toDevice \in Seq(SentPackets) /\ Len(toDevice) \in Nat
        /\ \A q \in On(toDevice) : q.id \in Nat
    <2>1. toDevice \in Seq(SentPackets)
      BY DEF LineInv
    <2>2. On(toDevice) \subseteq SentPackets /\ Len(toDevice) \in Nat
      BY <2>1, OnLine
    <2>. QED BY <2>1, <2>2 DEF SentPackets
  <1>3. HostSends =>
          /\ Len(toDevice') = Len(toDevice) + 1
          /\ \A i \in 1 .. Len(toDevice) : toDevice'[i] = toDevice[i]
          /\ toDevice'[Len(toDevice) + 1] = h'.pkt
          /\ On(toDevice') = On(toDevice) \cup {h'.pkt}
          /\ h'.pkt.id = h'.id
    BY <1>2, Sent DEF HostSends, Sends
  <1>4. HostSends /\ IsCommand(h'.pkt) =>
          h'.pkt.cmd = Head(h'.todo).cmd /\ h'.pkt.payload = Head(h'.todo).payload
    BY DEF HostSends, PacketOfPhase, IsCommand
  <1>5. Waiting' => \/ Waiting /\ h'.id = h.id /\ h'.todo = h.todo
                    \/ h'.id = h.id + 1
    BY DEF HostStep, HostQuiet, HostRetries, HostChallenges, HostProves, HostCommands,
           SameRequest, NewRequest, Waiting
  <1>6. log \in Seq(Entries) /\ Len(log) \in Nat /\ \A i \in 1 .. Len(log) : log[i].id \in Nat
    BY LogEntries
  <1>7. LineInOrder'
    <2>1. \A q \in On(toDevice') : q.id <= h'.id
      BY <1>1, <1>2, <1>3 DEF OrderInv, LineInOrder
    <2>2. ASSUME NEW i \in 1 .. Len(toDevice'), NEW j \in 1 .. Len(toDevice'), i < j
          PROVE  toDevice'[i].id <= toDevice'[j].id
      <3>1. CASE UNCHANGED toDevice
        BY <2>2, <3>1 DEF OrderInv, LineInOrder
      <3>2. CASE HostSends /\ j \in 1 .. Len(toDevice)
        <4>1. i \in 1 .. Len(toDevice)
          BY <1>2, <2>2, <3>2
        <4>. QED BY <1>3, <2>2, <3>2, <4>1 DEF OrderInv, LineInOrder
      <3>3. CASE HostSends /\ j = Len(toDevice) + 1
        <4>1. i \in 1 .. Len(toDevice) /\ toDevice'[i] \in On(toDevice)
          BY <1>2, <1>3, <2>2, <3>3 DEF On
        <4>2. toDevice'[i].id <= h.id
          BY <4>1 DEF OrderInv, LineInOrder
        <4>. QED BY <1>1, <1>2, <1>3, <3>3, <4>1, <4>2
      <3>. QED BY <1>1, <1>2, <1>3, <3>1, <3>2, <3>3
    <2>. QED BY <2>1, <2>2 DEF LineInOrder
  <1>8. LogInOrder'
    <2>1. ASSUME NEW i \in 1 .. Len(log), log[i].boot = boots
          PROVE  log[i].id <= h'.id /\ \A q \in On(toDevice') : log[i].id <= q.id
      <3>1. log[i].id <= h.id /\ \A q \in On(toDevice) : log[i].id <= q.id
        BY <2>1 DEF OrderInv, LogInOrder
      <3>. QED BY <1>1, <1>3, <1>6, <3>1
    <2>. QED BY <2>1 DEF OrderInv, LogInOrder, OnceAndInOrder
  <1>9. Waiting' => \A q \in On(toDevice') :
          IsCommand(q) /\ q.id = h'.id =>
            q.cmd = Head(h'.todo).cmd /\ q.payload = Head(h'.todo).payload
    <2>1. ASSUME Waiting', NEW q \in On(toDevice), IsCommand(q), q.id = h'.id
          PROVE  q.cmd = Head(h'.todo).cmd /\ q.payload = Head(h'.todo).payload
      <3>1. q.id <= h.id
        BY DEF OrderInv, LineInOrder
      <3>2. Waiting /\ h'.id = h.id /\ h'.todo = h.todo
        BY <1>1, <1>5, <2>1, <3>1
      <3>. QED BY <2>1, <3>2 DEF OrderInv, OneCommand
    <2>. QED BY <1>1, <1>3, <1>4, <2>1
  <1>10. \A q, r \in On(toDevice') :
           IsCommand(q) /\ IsCommand(r) /\ q.id = r.id => q.cmd = r.cmd /\ q.payload = r.payload
    <2>1. CASE UNCHANGED toDevice
      BY <2>1 DEF OrderInv, OneCommand
    <2>2. CASE HostSends
      <3>1. Waiting' /\ h'.pkt \in On(toDevice')
        BY <1>3, <2>2 DEF HostSends
      <3>2. \A q, r \in On(toDevice) :
              IsCommand(q) /\ IsCommand(r) /\ q.id = r.id =>
                q.cmd = r.cmd /\ q.payload = r.payload
        BY DEF OrderInv, OneCommand
      <3>3. \A q \in On(toDevice') :
              IsCommand(q) /\ IsCommand(h'.pkt) /\ q.id = h'.id =>
                q.cmd = h'.pkt.cmd /\ q.payload = h'.pkt.payload
        BY <1>9, <1>4, <2>2, <3>1
      <3>. QED BY <1>3, <2>2, <3>2, <3>3
    <2>. QED BY <1>1, <2>1, <2>2
  \* A request that took effect before is not a new one.
  <1>11. ASSUME Waiting', Done(h'.id)
         PROVE  Waiting /\ h'.id = h.id /\ h'.todo = h.todo /\ Spent(Head(h'.todo))
    <2>1. Len(log) \in 1 .. Len(log) /\ log[Len(log)].boot = boots /\ log[Len(log)].id = h'.id
      BY <1>6, <1>11 DEF Done
    <2>2. h'.id <= h.id
      BY <2>1 DEF OrderInv, LogInOrder
    <2>3. Waiting /\ h'.id = h.id /\ h'.todo = h.todo
      BY <1>1, <1>5, <1>11, <2>2
    <2>. QED BY <1>11, <2>3 DEF OrderInv, NothingLeft
  <1>12. \A id : Done(id)' <=> Done(id)
    BY DEF Done
  <1>13. ASSUME NEW q \in On(toDevice'), IsCommand(q), Done(q.id)
         PROVE  Spent(q)
    <2>1. CASE q \in On(toDevice)
      BY <1>13, <2>1 DEF OrderInv, NothingLeft
    <2>2. CASE HostSends /\ q = h'.pkt
      <3>1. Waiting' /\ q.id = h'.id
        BY <1>3, <2>2 DEF HostSends
      <3>2. Spent(Head(h'.todo))
        BY <1>11, <1>13, <3>1
      <3>. QED BY <1>4, <1>13, <2>2, <3>2, SpentByBytes
    <2>. QED BY <1>1, <1>3, <2>1, <2>2
  <1>14. NothingLeft'
    <2>1. \A q \in On(toDevice') : IsCommand(q) /\ Done(q.id)' => Spent(q)'
      BY <1>12, <1>13, SpentKept
    <2>2. Waiting' /\ Done(h.id)' => Spent(Head(h.todo))'
      <3>1. PICK r, id : r = Head(h'.todo) /\ id = h'.id
        OBVIOUS
      <3>2. Waiting' /\ Done(id)' => Spent(r)'
        BY <1>11, <1>12, <3>1, SpentKept
      <3>. QED BY <3>1, <3>2 DEF Done, Spent
    <2>. QED BY <2>1, <2>2 DEF OrderInv, NothingLeft
  <1>. QED BY <1>7, <1>8, <1>9, <1>10, <1>14 DEF OrderInv, OneCommand

\* What the host sends is a packet.
LEMMA HostLine ==
    ASSUME HostInv, HostInv', LineInv, HostStep, toHost' \in Seq(Answers),
           UNCHANGED <<s_auth, challenges, boots, log>>
    PROVE  LineInv'
  <1>1. UNCHANGED toDevice \/ HostSends
    BY HostSendsOrNot
  <1>2. toDevice \in Seq(SentPackets)
    BY DEF LineInv
  <1>3. CASE UNCHANGED toDevice
    BY <1>3 DEF LineInv
  <1>4. CASE HostSends
    <2>1. Waiting' /\ toDevice' = Append(toDevice, h'.pkt) /\ h'.pkt \in SentPackets
      BY <1>4 DEF HostSends, Sends
    <2>2. toDevice' \in Seq(SentPackets) /\ On(toDevice') = On(toDevice) \cup {h'.pkt}
      BY <1>2, <2>1, Sent
    <2>3. IsCommand(h'.pkt) => h'.pkt.payload \in Payloads
      <3>1. h'.todo \in Seq(Requests) /\ h'.todo # <<>>
        BY <2>1 DEF HostInv, Hosts
      <3>2. Head(h'.todo) \in Requests
        BY <3>1
      <3>3. IsCommand(h'.pkt) => h'.pkt.payload = Head(h'.todo).payload
        BY <1>4 DEF HostSends, PacketOfPhase, IsCommand
      <3>. QED BY <3>2, <3>3 DEF Requests
    <2>. QED BY <2>2, <2>3 DEF LineInv, IsCommand
  <1>. QED BY <1>1, <1>3, <1>4

\* The host keeps the invariant.
LEMMA HostMovesInv ==
    ASSUME LinkInv, HostMoves
    PROVE  LinkInv'
  <1>1. DeviceInv /\ HostInv /\ LineInv /\ NonceInv /\ OrderInv
    BY DEF LinkInv
  <1>2. /\ HostInv' /\ HostStep
        /\ toHost' \in Seq(Answers) /\ On(toHost') \subseteq On(toHost)
        /\ UNCHANGED <<deviceVars, s_auth, challenges, resets, boots, log>>
    BY <1>1, HostSteps
  <1>3. DeviceInv'
    BY <1>1, <1>2, DeviceStepInv
  <1>4. LineInv'
    BY <1>1, <1>2, HostLine
  <1>5. NonceInv'
    BY <1>1, <1>2, HostNonces
  <1>6. OrderInv'
    BY <1>1, <1>2, HostOrder DEF deviceVars, ramVars
  <1>. QED BY <1>2, <1>3, <1>4, <1>5, <1>6 DEF LinkInv

-----------------------------------------------------------------------------
(***************************************************************************)
(* The device and the line.                                                *)
(***************************************************************************)
\* The line to the device only gets shorter, at its front or altogether.
LineShortens ==
    \E n \in {0, 1} :
      /\ Len(toDevice') <= Len(toDevice) - n \/ toDevice' = <<>>
      /\ \A i \in 1 .. Len(toDevice') : toDevice'[i] = toDevice[i + n]

LEMMA ShorterLine ==
    ASSUME LineInv,
           UNCHANGED toDevice \/ toDevice' = <<>> \/ (toDevice # <<>> /\ toDevice' = Tail(toDevice))
    PROVE  /\ toDevice' \in Seq(SentPackets) /\ On(toDevice') \subseteq On(toDevice)
           /\ LineShortens
  <1>1. toDevice \in Seq(SentPackets) /\ Len(toDevice) \in Nat
    BY OnLine DEF LineInv
  <1>2. CASE UNCHANGED toDevice
    BY <1>1, <1>2 DEF LineShortens
  <1>3. CASE toDevice' = <<>>
    <2>1. << >> \in Seq(SentPackets) /\ Len(<< >>) = 0
      OBVIOUS
    <2>. QED BY <1>1, <1>3, <2>1 DEF On, LineShortens
  <1>4. CASE toDevice # <<>> /\ toDevice' = Tail(toDevice)
    <2>. DEFINE t == Tail(toDevice)
    <2>1. /\ t \in Seq(SentPackets) /\ Len(t) = Len(toDevice) - 1
          /\ \A i \in 1 .. Len(toDevice) - 1 : t[i] = toDevice[i + 1]
          /\ On(t) \subseteq On(toDevice)
      BY <1>1, <1>4, TakenOff
    <2>2. toDevice' = t
      BY <1>4
    <2>. HIDE DEF t
    <2>3. /\ Len(toDevice') <= Len(toDevice) - 1
          /\ \A i \in 1 .. Len(toDevice') : toDevice'[i] = toDevice[i + 1]
      BY <1>1, <2>1, <2>2
    <2>4. LineShortens
      BY <2>3 DEF LineShortens
    <2>. QED BY <2>1, <2>2, <2>4
  <1>. QED BY <1>2, <1>3, <1>4

\* What is left of a line is in the order it was in.
LEMMA OrderLeft ==
    ASSUME LineInv, LineShortens, toDevice' \in Seq(SentPackets),
           NEW i \in 1 .. Len(toDevice'), NEW j \in 1 .. Len(toDevice'), i < j
    PROVE  \E k, m \in 1 .. Len(toDevice) :
             k < m /\ toDevice'[i] = toDevice[k] /\ toDevice'[j] = toDevice[m]
  <1>1. PICK n \in {0, 1} :
          /\ Len(toDevice') <= Len(toDevice) - n \/ toDevice' = <<>>
          /\ \A x \in 1 .. Len(toDevice') : toDevice'[x] = toDevice[x + n]
    BY DEF LineShortens
  <1>2. Len(toDevice') \in Nat /\ Len(toDevice) \in Nat
    BY OnLine DEF LineInv
  <1>3. Len(toDevice') <= Len(toDevice) - n
    BY <1>1, <1>2
  <1>4. i + n \in 1 .. Len(toDevice) /\ j + n \in 1 .. Len(toDevice) /\ i + n < j + n
    BY <1>2, <1>3
  <1>5. toDevice'[i] = toDevice[i + n] /\ toDevice'[j] = toDevice[j + n]
    BY <1>1
  <1>. QED BY <1>4, <1>5

\* Nothing new on the lines and the session as it was: the nonces stay in order.
LEMMA NoncesKept ==
    ASSUME LineInv, NonceInv, UNCHANGED h,
           LineShortens, toDevice' \in Seq(SentPackets), On(toDevice') \subseteq On(toDevice),
           \A r \in On(toHost') : IsChallenge(r) => r \in On(toHost),
           s_auth'.key = s_auth.key, s_auth'.pending = s_auth.pending,
           s_auth'.authenticated = s_auth.authenticated
    PROVE  NonceInv'
  <1>1. NoncesInOrder'
    <2>1. ASSUME NEW i \in 1 .. Len(toDevice'), NEW j \in 1 .. Len(toDevice'), i < j,
                 IsChallenge(toDevice'[i]), IsChallenge(toDevice'[j])
          PROVE  toDevice'[i].key.client <= toDevice'[j].key.client
      <3>1. PICK k, m \in 1 .. Len(toDevice) :
              k < m /\ toDevice'[i] = toDevice[k] /\ toDevice'[j] = toDevice[m]
        BY <2>1, OrderLeft
      <3>. QED BY <2>1, <3>1 DEF NonceInv, NoncesInOrder
    <2>. QED BY <2>1 DEF NonceInv, NoncesInOrder
  <1>2. \A client : Issued(client) => Issued(client)'
    BY DEF Issued
  <1>3. \A key : OnlyProofOf(key) => OnlyProofOf(key)'
    BY DEF OnlyProofOf
  <1>4. \A r \in On(toHost') : IsChallenge(r) => Issued(r.key.client)'
    BY <1>2 DEF NonceInv
  <1>5. h.phase = "PROOF" \/ h.authenticated =>
          h.key.client = h.nonce /\ Issued(h.key.client)' /\ OnlyProofOf(h.key)'
    <2>1. PICK key, client : key = h.key /\ client = h.key.client
      OBVIOUS
    <2>2. h.phase = "PROOF" \/ h.authenticated =>
            client = h.nonce /\ Issued(client)' /\ OnlyProofOf(key)'
      BY <1>2, <1>3, <2>1 DEF NonceInv
    <2>. QED BY <2>1, <2>2 DEF Issued, OnlyProofOf
  <1>. QED BY <1>1, <1>4, <1>5 DEF NonceInv

\* The line shorter, the host and the RAM as they were: the order stays.
LEMMA OrderShortens ==
    ASSUME OrderInv, LineInv, UNCHANGED h,
           LineShortens, toDevice' \in Seq(SentPackets), On(toDevice') \subseteq On(toDevice)
    PROVE  LineInOrder' /\ OneCommand'
  <1>1. ASSUME NEW i \in 1 .. Len(toDevice'), NEW j \in 1 .. Len(toDevice'), i < j
        PROVE  toDevice'[i].id <= toDevice'[j].id
    <2>1. PICK k, m \in 1 .. Len(toDevice) :
            k < m /\ toDevice'[i] = toDevice[k] /\ toDevice'[j] = toDevice[m]
      BY <1>1, OrderLeft
    <2>. QED BY <2>1 DEF OrderInv, LineInOrder
  <1>2. LineInOrder'
    BY <1>1 DEF OrderInv, LineInOrder
  <1>3. OneCommand'
    BY DEF OrderInv, OneCommand, Waiting
  <1>. QED BY <1>2, <1>3

LEMMA OrderKept ==
    ASSUME OrderInv, LineInv, UNCHANGED <<h, log, boots, s_ota, delayed>>,
           LineShortens, toDevice' \in Seq(SentPackets), On(toDevice') \subseteq On(toDevice)
    PROVE  OrderInv'
  <1>1. LineInOrder' /\ OneCommand'
    BY OrderShortens
  <1>2. LogInOrder'
    BY DEF OrderInv, LogInOrder, OnceAndInOrder
  <1>3. \A id : Done(id)' <=> Done(id)
    BY DEF Done
  <1>4. NothingLeft'
    <2>1. \A q \in On(toDevice') : IsCommand(q) /\ Done(q.id)' => Spent(q)'
      BY <1>3, SpentKept DEF OrderInv, NothingLeft
    <2>2. Waiting' /\ Done(h.id)' => Spent(Head(h.todo))'
      <3>1. PICK r, id : r = Head(h.todo) /\ id = h.id
        OBVIOUS
      <3>2. Waiting' /\ Done(id)' => Spent(r)'
        BY <1>3, <3>1, SpentKept DEF OrderInv, NothingLeft, Waiting
      <3>. QED BY <3>1, <3>2 DEF Done, Spent
    <2>. QED BY <2>1, <2>2 DEF OrderInv, NothingLeft
  <1>. QED BY <1>1, <1>2, <1>4 DEF OrderInv

\* The steps of the line and the device that leave the RAM and the session alone.
LEMMA LinkKept ==
    ASSUME LinkInv, DeviceInv', UNCHANGED <<h, told, log, boots, s_ota, delayed>>,
           UNCHANGED toDevice \/ (toDevice # <<>> /\ toDevice' = Tail(toDevice)),
           toHost' \in Seq(Answers),
           \A r \in On(toHost') : IsChallenge(r) => r \in On(toHost),
           s_auth' \in AuthStates, challenges' \in Nat,
           s_auth'.key = s_auth.key, s_auth'.pending = s_auth.pending,
           s_auth'.authenticated = s_auth.authenticated
    PROVE  LinkInv'
  <1>1. HostInv /\ LineInv /\ NonceInv /\ OrderInv
    BY DEF LinkInv
  <1>2. /\ toDevice' \in Seq(SentPackets) /\ On(toDevice') \subseteq On(toDevice)
        /\ LineShortens
    BY <1>1, ShorterLine
  <1>3. HostInv'
    BY <1>1 DEF HostInv, Waiting
  <1>4. LineInv'
    BY <1>1, <1>2 DEF LineInv
  <1>5. NonceInv'
    BY <1>1, <1>2, NoncesKept
  <1>6. OrderInv'
    BY <1>1, <1>2, OrderKept
  <1>. QED BY <1>3, <1>4, <1>5, <1>6 DEF LinkInv

\* The responses that no session backs.
LEMMA PlainAnswer ==
    ASSUME NEW seq \in Sequence, NEW error \in Errors
    PROVE  /\ PlainResponse(seq, error) \in Answers
           /\ PlainResponse(seq, error).seq = seq /\ PlainResponse(seq, error).error = error
           /\ ~IsChallenge(PlainResponse(seq, error))
  BY NoKeyType DEF PlainResponse, Response, Answers, Responses, IsChallenge

\* A response other than that to a challenge.
Answered ==
    /\ toHost' \in Seq(Answers)
    /\ \A r \in On(toHost') : IsChallenge(r) => r \in On(toHost)

LEMMA SendAnswers ==
    ASSUME LineInv, NEW r \in Answers, ~IsChallenge(r), Send(r)
    PROVE  Answered
  <1>1. toHost \in Seq(Answers)
    BY DEF LineInv
  <1>2. Append(toHost, r) \in Seq(Answers) /\ On(Append(toHost, r)) = On(toHost) \cup {r}
    BY <1>1, Sent
  <1>. QED BY <1>2 DEF Send, Answered

\* The session and its key as they were.
SessionKept ==
    /\ s_auth' \in AuthStates
    /\ s_auth'.key = s_auth.key /\ s_auth'.pending = s_auth.pending
    /\ s_auth'.authenticated = s_auth.authenticated

\* auth_send_response answers, and touches the replay ring alone.
LEMMA SendResponse ==
    ASSUME LineInv, NEW packet \in SentPackets, packet.cmd \in Protected, NEW error \in Errors,
           auth_send_response(packet, error)
    PROVE  Answered /\ SessionKept
  <1>. DEFINE plain == PlainResponse(packet.seq, error)
  <1>1. packet.seq \in Sequence /\ s_auth \in AuthStates
    BY DEF SentPackets, LineInv
  <1>2. plain \in Answers /\ ~IsChallenge(plain)
    BY <1>1, PlainAnswer
  <1>3. CASE AuthRequired /\ s_auth.authenticated
    <2>. DEFINE response == compute_response_tag(plain, s_auth.key, packet.cmd)
                entry == Entry(packet, response)
                next == (s_auth.next % CacheSize) + 1
                cache == [s_auth.cache EXCEPT ![s_auth.next] = entry]
    <2>1. s_auth.key \in Keys /\ s_auth.next \in 1 .. CacheSize
      BY <1>1 DEF AuthStates
    <2>2. response \in Responses(Protected)
      BY <1>2, <2>1 DEF compute_response_tag, Answers, Responses
    <2>3. response \in Answers /\ ~IsChallenge(response)
      BY <2>2 DEF Answers, Responses, IsChallenge, Protected
    <2>. HIDE DEF response
    <2>4. entry \in [valid : {TRUE}, request : SentPackets, response : Responses(Protected)]
      BY <2>2 DEF Entry
    <2>. HIDE DEF entry
    <2>5. next \in 1 .. CacheSize
      BY <2>1, AuthAssumption
    <2>6. s_auth' = [s_auth EXCEPT !.cache = cache, !.next = next] /\ Send(response)
      BY <1>1, <1>3 DEF auth_send_response, AuthStates, response, entry
    <2>7. cache \in [1 .. CacheSize -> {NoEntry} \cup
            [valid : {TRUE}, request : SentPackets, response : Responses(Protected)]]
      BY <1>1, <2>1, <2>4 DEF AuthStates
    <2>. HIDE DEF next, cache
    <2>8. SessionKept
      BY <1>1, <2>5, <2>6, <2>7 DEF AuthStates, SessionKept
    <2>. QED BY <2>3, <2>6, <2>8, SendAnswers
  <1>4. CASE Send(plain) /\ UNCHANGED s_auth
    BY <1>1, <1>2, <1>4, SendAnswers DEF SessionKept
  <1>. QED BY <1>3, <1>4 DEF auth_send_response

\* The packet the link task takes.
LEMMA HeadTaken ==
    ASSUME LinkInv, toDevice # <<>>, Taken(Head(toDevice))
    PROVE  /\ Head(toDevice) \in SentPackets /\ Head(toDevice) \in On(toDevice)
           /\ Head(toDevice) = toDevice[1] /\ Len(toDevice) \in Nat /\ Len(toDevice) > 0
           /\ Head(toDevice).seq \in Sequence
           /\ toDevice' = Tail(toDevice)
           /\ delayed = "NONE" /\ UNCHANGED <<h, told, boots>>
  <1>1. toDevice \in Seq(SentPackets)
    BY DEF LinkInv, LineInv
  <1>2. /\ Head(toDevice) \in SentPackets /\ Head(toDevice) \in On(toDevice)
        /\ Head(toDevice) = toDevice[1] /\ Len(toDevice) \in Nat /\ Len(toDevice) > 0
    BY <1>1, TakenOff
  <1>. QED BY <1>2 DEF Taken, SentPackets

\* A response from the replay cache.
LEMMA ReplayedAnswer ==
    ASSUME LineInv, NEW packet, auth_check_replay(packet) = "REPLAYED"
    PROVE  /\ s_auth.cache[FirstHit(packet)].response \in Answers
           /\ ~IsChallenge(s_auth.cache[FirstHit(packet)].response)
  <1>. DEFINE i == FirstHit(packet)
  <1>1. Hits(packet) # {} /\ Hits(packet) \subseteq Nat
    BY AuthAssumption DEF auth_check_replay, Hits
  <1>2. i \in Hits(packet)
    <2>1. \E x \in Hits(packet) : \A y \in Hits(packet) : x <= y
      BY <1>1, LeastNat
    <2>. QED BY <2>1, Zenon DEF FirstHit
  <1>. HIDE DEF i
  <1>3. i \in 1 .. CacheSize /\ s_auth.cache[i].valid
    BY <1>2 DEF Hits
  <1>4. s_auth.cache[i] \in {NoEntry} \cup
          [valid : {TRUE}, request : SentPackets, response : Responses(Protected)]
    BY <1>3 DEF LineInv, AuthStates
  <1>5. s_auth.cache[i] # NoEntry
    <2>1. ~NoEntry.valid
      BY DEF NoEntry
    <2>. QED BY <1>3, <2>1
  <1>6. s_auth.cache[i].response \in Responses(Protected)
    BY <1>4, <1>5
  <1>. QED BY <1>6 DEF i, Answers, Responses, IsChallenge, Protected

\* A command that is not admitted is answered and touches nothing else.
LEMMA UnadmittedInv ==
    ASSUME LinkInv, TakeUnadmitted
    PROVE  LinkInv'
  <1>. DEFINE packet == Head(toDevice)
  <1>1. /\ toDevice # <<>> /\ packet.cmd \in Protected /\ Taken(packet)
        /\ HandleUnadmitted(packet) /\ UNCHANGED <<challenges, log>>
    BY DEF TakeUnadmitted
  <1>2. /\ packet \in SentPackets /\ packet.seq \in Sequence /\ toDevice' = Tail(toDevice)
        /\ UNCHANGED <<h, told, boots>>
    BY <1>1, HeadTaken
  <1>3. DeviceInv /\ LineInv /\ s_auth \in AuthStates /\ challenges \in Nat
    BY DEF LinkInv, LineInv
  <1>. HIDE DEF packet
  <1>4. Answered /\ SessionKept
    <2>1. CASE auth_check_replay(packet) = "REPLAYED"
      <3>1. Send(s_auth.cache[FirstHit(packet)].response) /\ UNCHANGED s_auth
        BY <1>1, <2>1 DEF HandleUnadmitted
      <3>2. Answered
        BY <1>3, <2>1, <3>1, ReplayedAnswer, SendAnswers
      <3>. QED BY <1>3, <3>1, <3>2 DEF SessionKept
    <2>2. CASE auth_check_replay(packet) # "REPLAYED"
      <3>1. auth_send_response(packet, "AUTH_REQUIRED")
        BY <1>1, <2>2 DEF HandleUnadmitted
      <3>. QED BY <1>1, <1>2, <1>3, <3>1, SendResponse DEF Errors
    <2>. QED BY <2>1, <2>2
  <1>5. UNCHANGED deviceVars
    BY <1>1 DEF HandleUnadmitted
  <1>6. DeviceInv'
    BY <1>3, <1>5, DeviceStepInv
  <1>. QED BY <1>1, <1>2, <1>3, <1>4, <1>5, <1>6, LinkKept
           DEF Answered, SessionKept, deviceVars, ramVars

\* Commands outside the gate are answered and touch nothing else.
LEMMA OtherInv ==
    ASSUME LinkInv, TakeOther
    PROVE  LinkInv'
  <1>. DEFINE packet == Head(toDevice)
  <1>1. /\ toDevice # <<>> /\ Taken(packet)
        /\ HandleOther(packet) /\ UNCHANGED <<challenges, log>>
    BY DEF TakeOther
  <1>2. /\ packet \in SentPackets /\ packet.seq \in Sequence /\ toDevice' = Tail(toDevice)
        /\ UNCHANGED <<h, told, boots>>
    BY <1>1, HeadTaken
  <1>3. DeviceInv /\ LineInv /\ s_auth \in AuthStates /\ challenges \in Nat
    BY DEF LinkInv, LineInv
  <1>. HIDE DEF packet
  <1>4. PICK error \in Errors : Send(PlainResponse(packet.seq, error))
    BY <1>1 DEF HandleOther, Errors, Results
  <1>5. Answered
    BY <1>2, <1>3, <1>4, PlainAnswer, SendAnswers
  <1>6. UNCHANGED <<s_auth, deviceVars>>
    BY <1>1 DEF HandleOther
  <1>7. DeviceInv'
    BY <1>3, <1>6, DeviceStepInv
  <1>. QED BY <1>1, <1>2, <1>3, <1>5, <1>6, <1>7, LinkKept DEF Answered, deviceVars, ramVars

\* The line loses a packet.
LEMMA LoseInv ==
    ASSUME LinkInv, LoseRequest \/ LoseResponse
    PROVE  LinkInv'
  <1>1. /\ UNCHANGED <<deviceVars, s_auth, h, told, linkVars>>
        /\ UNCHANGED toDevice \/ (toDevice # <<>> /\ toDevice' = Tail(toDevice))
        /\ UNCHANGED toHost \/ (toHost # <<>> /\ toHost' = Tail(toHost))
    BY DEF LoseRequest, LoseResponse, hostVars
  <1>2. /\ DeviceInv /\ s_auth \in AuthStates /\ challenges \in Nat /\ toHost \in Seq(Answers)
    BY DEF LinkInv, LineInv
  <1>3. toHost' \in Seq(Answers) /\ On(toHost') \subseteq On(toHost)
    BY <1>1, <1>2, TakenOff
  <1>4. DeviceInv'
    BY <1>1, <1>2, DeviceStepInv
  <1>. QED BY <1>1, <1>2, <1>3, <1>4, LinkKept DEF deviceVars, ramVars, linkVars

\* The health task leaves the link alone.
LEMMA HealthInv ==
    ASSUME LinkInv, HealthTask
    PROVE  LinkInv'
  <1>1. /\ HealthCheck \/ HealthConfirm \/ HealthFails
        /\ UNCHANGED <<s_auth, toHost, hostVars, linkVars>>
    BY DEF HealthTask
  <1>2. UNCHANGED <<s_ota, delayed>>
    BY <1>1 DEF HealthCheck, HealthConfirm, HealthFails
  <1>3. /\ DeviceInv /\ s_auth \in AuthStates /\ challenges \in Nat /\ toHost \in Seq(Answers)
    BY DEF LinkInv, LineInv
  <1>4. DeviceInv'
    BY <1>1, <1>3, DeviceStepInv DEF DeviceStep
  <1>. QED BY <1>1, <1>2, <1>3, <1>4, LinkKept DEF hostVars, linkVars

\* auth_configure leaves a state of auth.c.
LEMMA ConfiguredType ==
    /\ ConfiguredAuth \in AuthStates
    /\ ConfiguredAuth.key = NoKey /\ ~ConfiguredAuth.pending /\ ~ConfiguredAuth.authenticated
  <1>1. EmptyCache \in [1 .. CacheSize -> {NoEntry} \cup
          [valid : {TRUE}, request : SentPackets, response : Responses(Protected)]]
    BY DEF EmptyCache
  <1>2. 1 \in 1 .. CacheSize
    BY AuthAssumption
  <1>. QED BY <1>1, <1>2, NoKeyType DEF ConfiguredAuth, AuthStates

\* The device takes a challenge for the newest nonce it has seen: the key it
\* issues is out, and no session is left.
LEMMA ChallengeNonces ==
    ASSUME HostInv, LineInv, NonceInv, UNCHANGED h, toDevice # <<>>,
           toDevice' = Tail(toDevice), IsChallenge(Head(toDevice)),
           NEW key \in Keys, key.client = Head(toDevice).key.client,
           s_auth'.key = key, s_auth'.pending, ~s_auth'.authenticated,
           \A r \in On(toHost') : r \in On(toHost) \/ r.key = key
    PROVE  NonceInv'
  <1>. DEFINE packet == Head(toDevice)
  <1>1. /\ toDevice \in Seq(SentPackets) /\ h.nonce \in Nat /\ key.client \in Nat
    BY DEF LineInv, HostInv, Hosts, Keys
  <1>2. /\ toDevice' \in Seq(SentPackets) /\ On(toDevice') \subseteq On(toDevice)
        /\ LineShortens
    BY ShorterLine
  <1>3. /\ packet \in On(toDevice) /\ packet = toDevice[1]
        /\ Len(toDevice) \in Nat /\ Len(toDevice) > 0
        /\ Len(toDevice') = Len(toDevice) - 1
        /\ \A i \in 1 .. Len(toDevice) - 1 : toDevice'[i] = toDevice[i + 1]
    BY <1>1, TakenOff
  <1>. HIDE DEF packet
  <1>4. IsChallenge(packet) /\ packet.key.client = key.client
    BY DEF packet
  <1>5. key.client <= h.nonce
    BY <1>3, <1>4 DEF NonceInv, NoncesInOrder
  <1>6. NoncesInOrder'
    <2>1. ASSUME NEW i \in 1 .. Len(toDevice'), NEW j \in 1 .. Len(toDevice'), i < j,
                 IsChallenge(toDevice'[i]), IsChallenge(toDevice'[j])
          PROVE  toDevice'[i].key.client <= toDevice'[j].key.client
      <3>1. PICK k, m \in 1 .. Len(toDevice) :
              k < m /\ toDevice'[i] = toDevice[k] /\ toDevice'[j] = toDevice[m]
        BY <1>2, <2>1, OrderLeft
      <3>. QED BY <2>1, <3>1 DEF NonceInv, NoncesInOrder
    <2>. QED BY <1>2, <1>5, <2>1 DEF NonceInv, NoncesInOrder
  <1>7. \A client : Issued(client) => Issued(client)'
    BY <1>2, <1>3, <1>4 DEF Issued
  <1>8. Issued(key.client)'
    <2>1. ASSUME NEW i \in 1 .. Len(toDevice'), IsChallenge(toDevice'[i])
          PROVE  toDevice'[i].key.client >= key.client
      <3>1. i + 1 \in 1 .. Len(toDevice) /\ 1 \in 1 .. Len(toDevice) /\ 1 < i + 1
            /\ toDevice'[i] = toDevice[i + 1]
        BY <1>3
      <3>2. toDevice[1].key.client <= toDevice[i + 1].key.client
        BY <1>3, <1>4, <2>1, <3>1 DEF NonceInv, NoncesInOrder
      <3>3. toDevice[i + 1].key.client \in Nat
        <4>1. toDevice[i + 1] \in SentPackets
          BY <1>1, <3>1
        <4>. QED BY <4>1 DEF SentPackets, Keys
      <3>. QED BY <1>1, <1>3, <1>4, <3>1, <3>2, <3>3
    <2>2. \A q \in On(toDevice') : IsChallenge(q) => q.key.client >= key.client
      BY <2>1 DEF On
    <2>. QED BY <1>1, <1>5, <2>2 DEF Issued
  <1>9. \A r \in On(toHost') : IsChallenge(r) => Issued(r.key.client)'
    BY <1>7, <1>8 DEF NonceInv
  <1>10. h.phase = "PROOF" \/ h.authenticated =>
           h.key.client = h.nonce /\ Issued(h.key.client)' /\ OnlyProofOf(h.key)'
    <2>1. PICK mine, client : mine = h.key /\ client = h.key.client
      OBVIOUS
    <2>2. h.phase = "PROOF" \/ h.authenticated => client = h.nonce /\ Issued(client)'
      BY <1>7, <2>1 DEF NonceInv
    <2>3. h.phase = "PROOF" \/ h.authenticated => OnlyProofOf(mine)'
      BY <1>2, <2>1 DEF NonceInv, OnlyProofOf
    <2>. QED BY <2>1, <2>2, <2>3 DEF Issued, OnlyProofOf
  <1>11. h.phase = "CHALLENGE" => \A q \in On(toDevice') : IsProof(q) => q.key.client < h.nonce
    BY <1>2 DEF NonceInv
  <1>. QED BY <1>6, <1>9, <1>10, <1>11 DEF NonceInv

\* The device takes a proof of its pending challenge: if it is of the newest
\* nonce, it is of the host's key.
LEMMA ProofNonces ==
    ASSUME HostInv, LineInv, NonceInv, UNCHANGED h, toDevice # <<>>,
           toDevice' = Tail(toDevice), IsProof(Head(toDevice)), ProofAccepted(Head(toDevice)),
           s_auth'.key = s_auth.key,
           \A r \in On(toHost') : IsChallenge(r) => r \in On(toHost)
    PROVE  NonceInv'
  <1>. DEFINE packet == Head(toDevice)
  <1>1. toDevice \in Seq(SentPackets)
    BY DEF LineInv
  <1>2. /\ toDevice' \in Seq(SentPackets) /\ On(toDevice') \subseteq On(toDevice)
        /\ LineShortens
    BY ShorterLine
  <1>3. packet \in On(toDevice)
    BY <1>1, TakenOff
  <1>. HIDE DEF packet
  <1>4. /\ IsProof(packet) /\ packet.key = s_auth.key
        /\ s_auth.pending \/ s_auth.authenticated
    BY DEF packet, ProofAccepted
  <1>5. NoncesInOrder'
    <2>1. ASSUME NEW i \in 1 .. Len(toDevice'), NEW j \in 1 .. Len(toDevice'), i < j,
                 IsChallenge(toDevice'[i]), IsChallenge(toDevice'[j])
          PROVE  toDevice'[i].key.client <= toDevice'[j].key.client
      <3>1. PICK k, m \in 1 .. Len(toDevice) :
              k < m /\ toDevice'[i] = toDevice[k] /\ toDevice'[j] = toDevice[m]
        BY <1>2, <2>1, OrderLeft
      <3>. QED BY <2>1, <3>1 DEF NonceInv, NoncesInOrder
    <2>. QED BY <1>2, <2>1 DEF NonceInv, NoncesInOrder
  <1>6. \A client : Issued(client) => Issued(client)'
    BY <1>2, <1>4 DEF Issued
  <1>7. \A key : OnlyProofOf(key) => OnlyProofOf(key)'
    BY <1>2, <1>3, <1>4 DEF OnlyProofOf
  <1>8. \A r \in On(toHost') : IsChallenge(r) => Issued(r.key.client)'
    BY <1>6 DEF NonceInv
  <1>9. h.phase = "PROOF" \/ h.authenticated =>
          h.key.client = h.nonce /\ Issued(h.key.client)' /\ OnlyProofOf(h.key)'
    <2>1. PICK mine, client : mine = h.key /\ client = h.key.client
      OBVIOUS
    <2>2. h.phase = "PROOF" \/ h.authenticated =>
            client = h.nonce /\ Issued(client)' /\ OnlyProofOf(mine)'
      BY <1>6, <1>7, <2>1 DEF NonceInv
    <2>. QED BY <2>1, <2>2 DEF Issued, OnlyProofOf
  <1>10. h.phase = "CHALLENGE" =>
           /\ \A q \in On(toDevice') : IsProof(q) => q.key.client < h.nonce
           /\ s_auth'.key.client < h.nonce
    BY <1>2, <1>3, <1>4 DEF NonceInv
  <1>. QED BY <1>5, <1>8, <1>9, <1>10 DEF NonceInv

\* The device answers a challenge or a proof.
LEMMA AuthInv ==
    ASSUME LinkInv, TakeAuth
    PROVE  LinkInv'
  <1>. DEFINE packet == Head(toDevice)
  <1>1. /\ toDevice # <<>> /\ Taken(packet) /\ UNCHANGED <<deviceVars, log>>
    BY DEF TakeAuth
  <1>2. /\ packet \in SentPackets /\ packet.seq \in Sequence /\ packet.key \in Keys
        /\ toDevice' = Tail(toDevice) /\ UNCHANGED <<h, told, boots>>
    BY <1>1, HeadTaken DEF SentPackets
  <1>3. /\ DeviceInv /\ HostInv /\ LineInv /\ NonceInv /\ OrderInv
        /\ s_auth \in AuthStates /\ challenges \in Nat /\ toHost \in Seq(Answers)
    BY DEF LinkInv, LineInv
  <1>4. DeviceInv'
    BY <1>1, <1>3, DeviceStepInv
  <1>5. /\ toDevice' \in Seq(SentPackets) /\ On(toDevice') \subseteq On(toDevice)
        /\ LineShortens
    BY <1>1, <1>2, <1>3, ShorterLine
  <1>6. HostInv' /\ OrderInv'
    <2>1. HostInv'
      BY <1>2, <1>3 DEF HostInv, Waiting
    <2>2. OrderInv'
      BY <1>1, <1>2, <1>3, <1>5, OrderKept DEF deviceVars, ramVars
    <2>. QED BY <2>1, <2>2
  \* A plain refusal, as of a device that needs no authentication.
  <1>7. ASSUME NEW error \in Errors, Send(PlainResponse(packet.seq, error)), UNCHANGED s_auth,
               challenges' \in Nat
        PROVE  LinkInv'
    <2>1. Answered
      BY <1>2, <1>3, <1>7, PlainAnswer, SendAnswers
    <2>. QED BY <1>1, <1>2, <1>3, <1>4, <1>7, <2>1, LinkKept DEF Answered, deviceVars, ramVars
  <1>8. CASE /\ packet.cmd = "AUTH_CHALLENGE"
             /\ HandleChallenge(packet, challenges + 1)
             /\ challenges' = challenges + 1
    <2>1. CASE ~AuthRequired
      BY <1>3, <1>7, <1>8, <2>1 DEF HandleChallenge, Errors
    <2>2. CASE AuthRequired
      <3>. DEFINE key == hmac_prefixed_nonce_pair(packet.key.client, challenges + 1)
                  r == Response("ACK", packet.seq, "OK", key, "AUTH_CHALLENGE")
      <3>1. key \in Keys /\ key.client = packet.key.client
        BY <1>2, <1>3 DEF hmac_prefixed_nonce_pair, Keys
      <3>2. s_auth' = [ConfiguredAuth EXCEPT !.pending = TRUE, !.key = key] /\ Send(r)
        BY <1>8, <2>2 DEF HandleChallenge
      <3>. HIDE DEF key
      <3>3. /\ s_auth' \in AuthStates /\ s_auth'.key = key
            /\ s_auth'.pending /\ ~s_auth'.authenticated
        BY <3>1, <3>2, ConfiguredType DEF AuthStates
      <3>4. r \in Answers /\ r.key = key
        BY <1>2, <3>1 DEF Response, Answers, Responses, Errors, Results
      <3>. HIDE DEF r
      <3>5. toHost' \in Seq(Answers) /\ On(toHost') = On(toHost) \cup {r}
        BY <1>3, <3>2, <3>4, Sent DEF Send
      <3>6. NonceInv'
        BY <1>1, <1>2, <1>3, <1>8, <3>1, <3>3, <3>4, <3>5, ChallengeNonces DEF IsChallenge
      <3>7. LineInv'
        BY <1>1, <1>2, <1>3, <1>5, <1>8, <3>3, <3>5 DEF LineInv
      <3>. QED BY <1>4, <1>6, <3>6, <3>7 DEF LinkInv
    <2>. QED BY <2>1, <2>2
  <1>9. CASE packet.cmd = "AUTH_PROOF" /\ HandleProof(packet) /\ UNCHANGED challenges
    <2>1. CASE ~AuthRequired
      BY <1>3, <1>7, <1>9, <2>1 DEF HandleProof, Errors
    <2>2. CASE AuthRequired /\ ~ProofAccepted(packet)
      BY <1>3, <1>7, <1>9, <2>2 DEF HandleProof, Errors
    <2>3. CASE AuthRequired /\ ProofAccepted(packet)
      <3>1. /\ s_auth' = [s_auth EXCEPT !.pending = FALSE, !.authenticated = TRUE]
            /\ Send(PlainResponse(packet.seq, "OK"))
        BY <1>9, <2>3 DEF HandleProof
      <3>2. s_auth' \in AuthStates /\ s_auth'.key = s_auth.key
        BY <1>3, <3>1 DEF AuthStates
      <3>3. Answered
        BY <1>2, <1>3, <3>1, PlainAnswer, SendAnswers DEF Errors, Results
      <3>4. NonceInv'
        BY <1>1, <1>2, <1>3, <1>9, <2>3, <3>2, <3>3, ProofNonces DEF IsProof, Answered
      <3>5. LineInv'
        BY <1>1, <1>2, <1>3, <1>5, <1>9, <3>2, <3>3 DEF LineInv, Answered
      <3>. QED BY <1>4, <1>6, <3>4, <3>5 DEF LinkInv
    <2>. QED BY <2>1, <2>2, <2>3
  <1>. QED BY <1>8, <1>9 DEF TakeAuth

\* A reset starts a boot without session and without packets.
LEMMA ResetInv ==
    ASSUME LinkInv, CarryOut \/ SpontaneousReset
    PROVE  LinkInv'
  <1>1. /\ DeviceInv /\ HostInv /\ LineInv /\ NonceInv /\ OrderInv
        /\ toHost \in Seq(Answers) /\ boots \in Nat
    BY DEF LinkInv, LineInv
  <1>2. RebootNow \/ RollbackNow \/ HealthReject \/ PowerLoss
    BY DEF CarryOut, SpontaneousReset
  <1>3. ResetStep
    BY <1>2, ResetSteps
  <1>4. delayed' = "NONE"
    BY <1>3 DEF ResetStep, RamReset
  <1>5. DeviceInv'
    BY <1>1, <1>3, DeviceStepInv DEF DeviceStep
  <1>6. /\ s_auth' = ConfiguredAuth /\ toDevice' = <<>> /\ boots' = boots + 1
        /\ UNCHANGED <<toHost, h, told, challenges, log>>
    BY DEF CarryOut, SpontaneousReset, LinkReset
  <1>7. toDevice' \in Seq(SentPackets) /\ On(toDevice') = {} /\ Len(toDevice') = 0
    <2>1. << >> \in Seq(SentPackets) /\ Len(<< >>) = 0
      OBVIOUS
    <2>. QED BY <1>6, <2>1 DEF On
  <1>8. HostInv'
    BY <1>1, <1>6 DEF HostInv, Waiting
  <1>9. LineInv'
    BY <1>1, <1>6, <1>7, ConfiguredType DEF LineInv
  <1>10. NonceInv'
    <2>1. h.nonce \in Nat /\ s_auth'.key.client = 0 /\ ~s_auth'.pending /\ ~s_auth'.authenticated
      BY <1>1, <1>6, ConfiguredType
         DEF HostInv, Hosts, NoKey, hmac_prefixed_nonce_pair
    <2>2. NoncesInOrder'
      BY <1>6, <1>7, <2>1 DEF NoncesInOrder
    <2>3. \A client : client <= h.nonce => Issued(client)'
      BY <1>6, <1>7, <2>1 DEF Issued
    <2>4. \A r \in On(toHost') : IsChallenge(r) => Issued(r.key.client)'
      BY <1>1, <1>6, <2>3 DEF NonceInv, Issued
    <2>5. h'.phase = "PROOF" \/ h'.authenticated =>
            h'.key.client = h'.nonce /\ Issued(h.key.client)' /\ OnlyProofOf(h.key)'
      BY <1>1, <1>6, <1>7, <2>1 DEF NonceInv, Issued, OnlyProofOf
    <2>. QED BY <1>7, <2>1, <2>2, <2>4, <2>5 DEF NonceInv
  <1>11. OrderInv'
    <2>1. /\ Len(log) \in Nat
          /\ \A i \in 1 .. Len(log) : log[i].boot \in Nat /\ log[i].boot <= boots
      BY <1>1, LogEntries DEF OrderInv, LogInOrder
    <2>2. \A i \in 1 .. Len(log) : log[i].boot < boots'
      BY <1>1, <1>6, <2>1
    <2>3. LogInOrder'
      BY <1>1, <1>6, <2>1, <2>2 DEF OrderInv, LogInOrder, OnceAndInOrder
    <2>4. \A id : ~Done(id)'
      <3>1. Len(log) > 0 => log[Len(log)].boot # boots'
        BY <1>1, <1>6, <2>1, <2>2
      <3>. QED BY <1>6, <3>1 DEF Done
    <2>5. NothingLeft'
      <3>1. PICK id : id = h'.id
        OBVIOUS
      <3>2. ~Done(id)'
        BY <2>4
      <3>3. ~Done(h.id)'
        BY <3>1, <3>2 DEF Done
      <3>. QED BY <1>4, <1>7, <3>3 DEF NothingLeft
    <2>6. LineInOrder' /\ OneCommand'
      BY <1>7 DEF LineInOrder, OneCommand
    <2>. QED BY <2>3, <2>5, <2>6 DEF OrderInv
  <1>. QED BY <1>5, <1>8, <1>9, <1>10, <1>11 DEF LinkInv

\* A rollback that fails is marked in the log.
LEMMA DroppedLog ==
    ASSUME LinkInv, DropRollback
    PROVE  /\ log' \in Seq(Entries) /\ Len(log') = Len(log) /\ Len(log) \in Nat /\ Len(log) > 0
           /\ \A i \in 1 .. Len(log) : log'[i].id = log[i].id /\ log'[i].boot = log[i].boot
           /\ \A i \in 1 .. Len(log) : i # Len(log) => log'[i] = log[i]
           /\ log'[Len(log)].failed
  <1>. DEFINE n == Len(log)
              last == [log[n] EXCEPT !.failed = TRUE]
  <1>1. delayed # "NONE" /\ log' = [log EXCEPT ![n].failed = TRUE] /\ LineInv
    BY DEF DropRollback, RollbackFails, LinkInv
  <1>2. /\ log \in Seq(Entries) /\ n \in Nat /\ n > 0
        /\ \A i \in 1 .. n : log[i] \in Entries
    BY <1>1, LogEntries DEF LinkInv, OrderInv, NothingLeft
  <1>3. /\ last \in Entries /\ last.id = log[n].id /\ last.boot = log[n].boot /\ last.failed
    <2>1. PICK e \in Entries : e = log[n]
      BY <1>2
    <2>2. last = [e EXCEPT !.failed = TRUE]
      BY <2>1
    <2>. HIDE DEF last
    <2>3. last \in Entries /\ last.id = e.id /\ last.boot = e.boot /\ last.failed
      BY <2>2 DEF Entries
    <2>. QED BY <2>1, <2>3
  <1>4. log' = [log EXCEPT ![n] = last]
    BY <1>1
  <1>. HIDE DEF last
  <1>. DEFINE marked == [log EXCEPT ![n] = last]
  <1>5. n \in 1 .. n
    BY <1>2
  <1>6. /\ marked \in Seq(Entries) /\ Len(marked) = n
        /\ \A i \in 1 .. n : marked[i] = IF i = n THEN last ELSE log[i]
    BY <1>2, <1>3, <1>5, ExceptSeq
  <1>7. log' = marked
    BY <1>4
  <1>. HIDE DEF marked, n
  <1>8. /\ log' \in Seq(Entries) /\ Len(log') = n
        /\ \A i \in 1 .. n : log'[i].id = log[i].id /\ log'[i].boot = log[i].boot
        /\ \A i \in 1 .. n : i # n => log'[i] = log[i]
        /\ log'[n].failed
    BY <1>3, <1>5, <1>6, <1>7
  <1>. QED BY <1>2, <1>8 DEF n

\* A rollback that fails is struck from the commands that took effect.
LEMMA DropInv ==
    ASSUME LinkInv, DropRollback
    PROVE  LinkInv'
  <1>. DEFINE n == Len(log)
  <1>1. /\ DeviceInv /\ HostInv /\ LineInv /\ NonceInv /\ OrderInv
    BY DEF LinkInv
  <1>2. /\ RollbackFails /\ delayed # "NONE" /\ delayed' = "NONE"
        /\ log' = [log EXCEPT ![n].failed = TRUE]
        /\ UNCHANGED <<s_auth, toHost, h, toDevice, told, challenges, boots>>
    BY DEF DropRollback, RollbackFails, hostVars
  <1>3. DeviceInv'
    BY <1>1, <1>2, DeviceStepInv DEF DeviceStep
  <1>4. /\ log \in Seq(Entries) /\ n \in Nat /\ n > 0
        /\ \A i \in 1 .. n : log[i] \in Entries /\ log[i].id \in Nat /\ log[i].boot \in Nat
    BY <1>1, <1>2, LogEntries DEF OrderInv, NothingLeft
  <1>5. /\ log' \in Seq(Entries) /\ Len(log') = n
        /\ \A i \in 1 .. n : log'[i].id = log[i].id /\ log'[i].boot = log[i].boot
        /\ \A i \in 1 .. n : i # n => log'[i] = log[i]
        /\ log'[n].failed
    BY DroppedLog
  <1>. HIDE DEF n
  <1>6. HostInv'
    BY <1>1, <1>2 DEF HostInv, Waiting
  <1>7. LineInv'
    BY <1>1, <1>2, <1>5 DEF LineInv
  <1>8. NonceInv'
    <2>1. /\ toDevice' \in Seq(SentPackets) /\ On(toDevice') \subseteq On(toDevice)
          /\ LineShortens
      BY <1>1, <1>2, ShorterLine
    <2>. QED BY <1>1, <1>2, <2>1, NoncesKept
  <1>9. LogInOrder'
    <2>1. OnceAndInOrder'
      <3>1. ASSUME NEW i \in 1 .. n, NEW j \in 1 .. n, i < j, log'[i].boot = log'[j].boot
            PROVE  log'[i].id < log'[j].id \/ (log'[i].failed /\ log'[i].id = log'[j].id)
        <4>1. i # n
          BY <1>4, <3>1
        <4>2. log[i].boot = log[j].boot
          BY <1>5, <3>1
        <4>3. log[i].id < log[j].id \/ (log[i].failed /\ log[i].id = log[j].id)
          BY <1>1, <3>1, <4>2 DEF OrderInv, LogInOrder, OnceAndInOrder, n
        <4>. QED BY <1>5, <4>1, <4>3
      <3>. QED BY <1>5, <3>1 DEF OnceAndInOrder
    <2>2. \A i, j \in 1 .. n : i < j => log[i].boot <= log[j].boot
      BY <1>1 DEF OrderInv, LogInOrder, n
    <2>3. \A i \in 1 .. n :
            /\ log[i].boot <= boots
            /\ log[i].boot = boots =>
                 log[i].id <= h.id /\ \A q \in On(toDevice) : log[i].id <= q.id
      BY <1>1 DEF OrderInv, LogInOrder, n
    <2>. QED BY <1>2, <1>5, <2>1, <2>2, <2>3 DEF LogInOrder
  <1>10. \A id : ~Done(id)'
    <2>1. log'[Len(log')].failed
      BY <1>5
    <2>. QED BY <2>1 DEF Done
  <1>11. NothingLeft'
    <2>1. PICK id : id = h'.id
      OBVIOUS
    <2>2. ~Done(id)'
      BY <1>10
    <2>3. ~Done(h.id)'
      BY <2>1, <2>2 DEF Done
    <2>. QED BY <1>2, <1>10, <2>3 DEF NothingLeft
  <1>12. LineInOrder' /\ OneCommand'
    BY <1>1, <1>2 DEF OrderInv, LineInOrder, OneCommand, Waiting
  <1>. QED BY <1>3, <1>6, <1>7, <1>8, <1>9, <1>11, <1>12 DEF LinkInv, OrderInv

-----------------------------------------------------------------------------
(***************************************************************************)
(* Commands.  A command that takes effect is spent, and a spent command    *)
(* does nothing.                                                           *)
(***************************************************************************)

\* A command of the link is a command of the device.
LEMMA ExecuteIsStep ==
    ASSUME NEW packet, packet.payload \in Payloads, NEW ret, Execute(packet, ret),
           delayed = "NONE"
    PROVE  CommandStep
  <1>1. /\ packet.payload.firmware_size \in Nat /\ packet.payload.sha256 \in Byte
        /\ packet.payload.offset \in Nat /\ packet.payload.data \in Seq(Byte)
    BY WidthAssumption DEF Payloads
  <1>. QED
    BY <1>1 DEF Execute, CommandStep, BeginStep, DataStep, EndStep, AbortStep, RestartStep

\* A spent command changes nothing.
LEMMA SpentDoesNothing ==
    ASSUME NEW packet, NEW ret, Execute(packet, ret), delayed = "NONE", Spent(packet)
    PROVE  UNCHANGED deviceVars
  <1>1. CASE packet.cmd = "OTA_BEGIN"
    <2>1. CmdBegin(packet.payload, ret) /\ s_ota.active
      BY <1>1 DEF Execute, Spent
    <2>2. BeginError(packet.payload) # "OK"
      BY <2>1 DEF BeginError
    <2>. QED BY <2>1, <2>2 DEF CmdBegin, ota_manager_begin, deviceVars, ramVars, otaVars
  <1>2. CASE packet.cmd = "OTA_DATA"
    <2>1. CmdData(packet.payload, ret) /\ WriteVerdict(packet.payload) # "WRITE"
      BY <1>2 DEF Execute, Spent
    <2>. QED BY <2>1 DEF CmdData, ota_manager_write_data, deviceVars, ramVars, otaVars
  <1>3. CASE packet.cmd = "OTA_END"
    <2>1. CmdEnd(TRUE, ret) /\ ~s_ota.active
      BY <1>3 DEF Execute, Spent
    <2>2. EndError # "OK"
      BY <2>1 DEF EndError
    <2>. QED BY <2>1, <2>2 DEF CmdEnd, ota_manager_end, deviceVars, ramVars, otaVars
  <1>4. CASE packet.cmd = "OTA_ABORT"
    <2>1. CmdAbort(TRUE, ret) /\ ~s_ota.active
      BY <1>4 DEF Execute, Spent
    <2>. QED BY <2>1 DEF CmdAbort, ota_manager_abort, deviceVars, ramVars, otaVars
  <1>. QED BY <1>1, <1>2, <1>3, <1>4 DEF Execute, Spent

\* A chunk that was written is not written again.
LEMMA ChunkSpent ==
    ASSUME OtaInv, NEW p \in Payloads, WriteVerdict(p) = "WRITE", s_ota' = SessionWithChunk(p)
    PROVE  WriteVerdict(p)' # "WRITE"
  <1>1. /\ s_ota.active /\ p.data # <<>> /\ Len(p.data) <= MaxChunk
        /\ p.offset = s_ota.bytes_received
    <2>1. p.data \in Seq(Byte)
      BY DEF Payloads
    <2>2. Len(p.data) \in Nat /\ MaxChunk \in Nat
      BY <2>1, WidthAssumption
    <2>. QED BY <2>2 DEF WriteVerdict
  <1>2. /\ p.data \in Seq(Byte) /\ s_ota.bytes_received \in Nat /\ s_ota.firmware_size \in Nat
    BY DEF OtaInv, OtaTypeOK, OtaStates, Payloads
  <1>3. Len(p.data) \in Nat /\ Len(p.data) > 0
    BY <1>1, <1>2
  <1>4. s_ota.bytes_received <= PartitionSize
    BY <1>1, <1>2, PartitionSizeAssumption DEF OtaInv, SessionAgreesWithFlash
  <1>5. s_ota.bytes_received + Len(p.data) < U32
    BY <1>1, <1>2, <1>3, <1>4, WidthAssumption, PartitionSizeAssumption
  <1>6. (s_ota.bytes_received + Len(p.data)) % U32 = s_ota.bytes_received + Len(p.data)
    <2>1. s_ota.bytes_received + Len(p.data) \in Nat /\ U32 \in Nat
      BY <1>2, <1>3, WidthAssumption
    <2>. QED BY <1>5, <2>1, NoWrap
  <1>7. s_ota'.bytes_received # p.offset
    BY <1>1, <1>2, <1>3, <1>6 DEF SessionWithChunk
  <1>. QED BY <1>7 DEF WriteVerdict

\* A command that takes effect is spent.
LEMMA EffectSpends ==
    ASSUME DeviceInv, NEW packet, packet.payload \in Payloads, packet.cmd \in Protected,
           Execute(packet, "OK"), deviceVars' # deviceVars
    PROVE  Spent(packet)'
  <1>1. CASE packet.cmd = "OTA_BEGIN"
    <2>1. CmdBegin(packet.payload, "OK")
      BY <1>1 DEF Execute
    <2>2. s_ota' = NewSession(packet.payload)
      BY <2>1 DEF CmdBegin, ota_manager_begin, deviceVars, ramVars, otaVars
    <2>. QED BY <1>1, <2>2 DEF Spent, NewSession
  <1>2. CASE packet.cmd = "OTA_DATA"
    <2>1. CmdData(packet.payload, "OK")
      BY <1>2 DEF Execute
    <2>2. WriteVerdict(packet.payload) = "WRITE" /\ s_ota' = SessionWithChunk(packet.payload)
      BY <2>1 DEF CmdData, ota_manager_write_data, deviceVars, ramVars, otaVars
    <2>3. PICK p \in Payloads : p = packet.payload
      OBVIOUS
    <2>4. WriteVerdict(p)' # "WRITE"
      BY <2>2, <2>3, ChunkSpent DEF DeviceInv
    <2>. QED BY <1>2, <2>3, <2>4 DEF Spent
  <1>3. CASE packet.cmd \in {"OTA_END", "OTA_ABORT"}
    <2>1. CmdEnd(TRUE, "OK") \/ CmdAbort(TRUE, "OK")
      BY <1>3 DEF Execute
    <2>2. EndError # "OK" => EndError \in {"OTA_NOT_STARTED", "OTA_SIZE_ERROR"}
      BY DEF EndError
    <2>3. s_ota' = ZeroOta
      BY <2>1, <2>2 DEF CmdEnd, CmdAbort, ota_manager_end, ota_manager_abort
    <2>. QED BY <1>3, <2>3, ZeroOtaType DEF Spent
  <1>4. CASE packet.cmd \in {"REBOOT", "ROLLBACK"}
    <2>1. CmdReboot(TRUE, "OK") \/ CmdRollback(TRUE, "OK")
      BY <1>4 DEF Execute
    <2>2. delayed' # "NONE"
      BY <2>1 DEF CmdReboot, CmdRollback
    <2>. QED BY <1>4, <2>2 DEF Spent
  <1>. QED BY <1>1, <1>2, <1>3, <1>4 DEF Protected

\* The head of the line is no newer than the rest, and nothing that took effect
\* in this boot is newer than it.
LEMMA HeadIsOldest ==
    ASSUME LinkInv, toDevice # <<>>, NEW packet, packet = Head(toDevice)
    PROVE  /\ packet \in SentPackets /\ packet \in On(toDevice) /\ packet.id \in Nat
           /\ packet.id <= h.id
           /\ \A q \in On(toDevice) : q.id \in Nat /\ packet.id <= q.id
           /\ \A i \in 1 .. Len(log) : log[i].boot = boots => log[i].id <= packet.id
  <1>1. toDevice \in Seq(SentPackets) /\ LineInv /\ OrderInv
    BY DEF LinkInv, LineInv
  <1>2. /\ packet \in SentPackets /\ packet \in On(toDevice)
        /\ packet = toDevice[1] /\ Len(toDevice) \in Nat /\ Len(toDevice) > 0
    BY <1>1, TakenOff
  <1>3. \A q \in On(toDevice) : q.id \in Nat
    <2>1. On(toDevice) \subseteq SentPackets
      BY <1>1, OnLine
    <2>. QED BY <2>1 DEF SentPackets
  <1>4. ASSUME NEW i \in 1 .. Len(toDevice) PROVE packet.id <= toDevice[i].id
    <2>1. CASE i = 1
      BY <1>2, <1>3, <2>1
    <2>2. CASE i # 1
      <3>1. 1 \in 1 .. Len(toDevice) /\ 1 < i
        BY <1>2, <2>2
      <3>. QED BY <1>1, <1>2, <3>1 DEF OrderInv, LineInOrder
    <2>. QED BY <2>1, <2>2
  <1>5. \A q \in On(toDevice) : packet.id <= q.id
    BY <1>4 DEF On
  <1>6. packet.id <= h.id /\ \A i \in 1 .. Len(log) : log[i].boot = boots => log[i].id <= packet.id
    BY <1>1, <1>2 DEF OrderInv, LineInOrder, LogInOrder
  <1>. QED BY <1>2, <1>3, <1>5, <1>6

\* Once a command of this boot is done, no later entry of the log is missing: a
\* command that takes effect is newer than all of them, or the last one failed.
LEMMA NewEntryInOrder ==
    ASSUME LinkInv, NEW id \in Nat, ~Done(id),
           \A i \in 1 .. Len(log) : log[i].boot = boots => log[i].id <= id,
           NEW i \in 1 .. Len(log), log[i].boot = boots
    PROVE  log[i].id < id \/ (log[i].failed /\ log[i].id = id)
  <1>1. LineInv /\ OrderInv /\ boots \in Nat
    BY DEF LinkInv, LineInv
  <1>2. /\ Len(log) \in Nat
        /\ \A j \in 1 .. Len(log) : log[j] \in Entries /\ log[j].id \in Nat /\ log[j].boot \in Nat
    BY <1>1, LogEntries
  <1>3. CASE i = Len(log)
    <2>1. PICK e \in Entries : e = log[i]
      BY <1>2
    <2>2. e # [id |-> id, boot |-> boots, failed |-> FALSE]
      BY <1>2, <1>3, <2>1 DEF Done
    <2>3. e.boot = boots /\ e.id <= id
      BY <2>1
    <2>4. e.id # id \/ e.failed
      BY <2>2, <2>3 DEF Entries
    <2>. QED BY <1>2, <2>1, <2>3, <2>4
  <1>4. CASE i # Len(log)
    <2>. DEFINE n == Len(log)
    <2>1. n \in 1 .. Len(log) /\ i < n
      BY <1>2, <1>4
    <2>2. log[n].boot = boots
      <3>1. log[i].boot <= log[n].boot /\ log[n].boot <= boots
        BY <1>1, <2>1 DEF OrderInv, LogInOrder
      <3>2. log[n].boot \in Nat
        BY <1>2, <2>1
      <3>. HIDE DEF n
      <3>. QED BY <1>1, <3>1, <3>2
    <2>3. log[i].id < log[n].id \/ (log[i].failed /\ log[i].id = log[n].id)
      BY <1>1, <2>1, <2>2 DEF OrderInv, LogInOrder, OnceAndInOrder
    <2>4. log[n].id <= id /\ log[i].id <= id /\ log[n].id \in Nat /\ log[i].id \in Nat
      BY <1>2, <2>1, <2>2
    <2>. HIDE DEF n
    <2>. QED BY <2>3, <2>4
  <1>. QED BY <1>3, <1>4

\* A command that takes effect keeps the order.
LEMMA EffectOrder ==
    ASSUME LinkInv, NEW packet, packet = Head(toDevice), toDevice # <<>>,
           packet.cmd \in Protected, Spent(packet)', ~Done(packet.id),
           toDevice' = Tail(toDevice), UNCHANGED <<h, boots>>,
           Len(log') = Len(log) + 1, \A i \in 1 .. Len(log) : log'[i] = log[i],
           log'[Len(log) + 1] = [id |-> packet.id, boot |-> boots, failed |-> FALSE]
    PROVE  OrderInv'
  <1>. DEFINE n == Len(log)
              e == [id |-> packet.id, boot |-> boots, failed |-> FALSE]
  <1>1. HostInv /\ LineInv /\ OrderInv /\ boots \in Nat /\ h.id \in Nat
    BY DEF LinkInv, LineInv, HostInv, Hosts
  <1>2. /\ packet \in SentPackets /\ packet \in On(toDevice) /\ packet.id \in Nat
        /\ packet.id <= h.id
        /\ \A q \in On(toDevice) : q.id \in Nat /\ packet.id <= q.id
        /\ \A i \in 1 .. n : log[i].boot = boots => log[i].id <= packet.id
    BY HeadIsOldest
  <1>3. /\ toDevice' \in Seq(SentPackets) /\ On(toDevice') \subseteq On(toDevice)
        /\ LineShortens
    BY <1>1, ShorterLine
  <1>4. /\ log \in Seq(Entries) /\ n \in Nat
        /\ \A i \in 1 .. n : log[i] \in Entries /\ log[i].id \in Nat /\ log[i].boot \in Nat
    BY <1>1, LogEntries
  <1>5. e.id = packet.id /\ e.boot = boots
    OBVIOUS
  <1>. HIDE DEF e
  <1>6. /\ Len(log') = n + 1 /\ log'[n + 1] = e
        /\ \A i \in 1 .. n : log'[i] = log[i]
    BY DEF e
  <1>7. LineInOrder' /\ OneCommand'
    BY <1>1, <1>3, OrderShortens
  <1>8. /\ OnceAndInOrder
        /\ \A i, j \in 1 .. n : i < j => log[i].boot <= log[j].boot
        /\ \A i \in 1 .. n :
             /\ log[i].boot <= boots
             /\ log[i].boot = boots =>
                  log[i].id <= h.id /\ \A q \in On(toDevice) : log[i].id <= q.id
    BY <1>1 DEF OrderInv, LogInOrder
  <1>9. \A i \in 1 .. n : log[i].boot = boots =>
          log[i].id < packet.id \/ (log[i].failed /\ log[i].id = packet.id)
    BY <1>2, NewEntryInOrder
  <1>10. OnceAndInOrder'
    <2>1. ASSUME NEW i \in 1 .. Len(log'), NEW j \in 1 .. Len(log'), i < j,
                 log'[i].boot = log'[j].boot
          PROVE  log'[i].id < log'[j].id \/ (log'[i].failed /\ log'[i].id = log'[j].id)
      <3>1. i \in 1 .. n /\ log'[i] = log[i]
        BY <1>4, <1>6, <2>1
      <3>2. CASE j \in 1 .. n
        <4>1. log'[j] = log[j]
          BY <1>6, <3>2
        <4>2. log[i].boot = log[j].boot
          BY <2>1, <3>1, <4>1
        <4>3. log[i].id < log[j].id \/ (log[i].failed /\ log[i].id = log[j].id)
          BY <1>8, <2>1, <3>1, <3>2, <4>2 DEF OnceAndInOrder
        <4>. QED BY <3>1, <4>1, <4>3
      <3>3. CASE j = n + 1
        <4>. HIDE DEF n
        <4>1. log'[j] = e /\ log[i].boot = boots
          BY <1>5, <1>6, <2>1, <3>1, <3>3
        <4>. QED BY <1>5, <1>9, <3>1, <4>1
      <3>. QED BY <1>4, <1>6, <3>2, <3>3
    <2>. QED BY <2>1 DEF OnceAndInOrder
  <1>11. LogInOrder'
    <2>1. ASSUME NEW i \in 1 .. n + 1, NEW j \in 1 .. n + 1, i < j
          PROVE  log'[i].boot <= log'[j].boot
      <3>1. i \in 1 .. n /\ log'[i] = log[i]
        BY <1>4, <1>6, <2>1
      <3>2. j \in 1 .. n \/ j = n + 1
        BY <1>4
      <3>. HIDE DEF n
      <3>. QED BY <1>5, <1>6, <1>8, <2>1, <3>1, <3>2
    <2>2. ASSUME NEW i \in 1 .. n + 1
          PROVE  /\ log'[i].boot <= boots
                 /\ log'[i].boot = boots =>
                      log'[i].id <= h.id /\ \A q \in On(toDevice') : log'[i].id <= q.id
      <3>1. i \in 1 .. n \/ i = n + 1
        BY <1>4
      <3>. HIDE DEF n
      <3>. QED BY <1>1, <1>2, <1>3, <1>5, <1>6, <1>8, <3>1
    <2>. HIDE DEF n
    <2>. QED BY <1>6, <1>10, <2>1, <2>2 DEF LogInOrder
  <1>12. \A id : Done(id)' => id = packet.id
    <2>1. log'[Len(log')] = e
      BY <1>6
    <2>. QED BY <1>5, <2>1 DEF Done
  <1>13. NothingLeft'
    <2>1. ASSUME NEW q \in On(toDevice'), IsCommand(q), Done(q.id)' PROVE Spent(q)'
      <3>1. q.id = packet.id /\ q \in On(toDevice)
        BY <1>3, <1>12, <2>1
      <3>2. q.cmd = packet.cmd /\ q.payload = packet.payload
        BY <1>1, <1>2, <2>1, <3>1 DEF OrderInv, OneCommand, IsCommand
      <3>. QED BY <3>2 DEF Spent
    <2>2. Waiting' /\ Done(h.id)' => Spent(Head(h.todo))'
      <3>1. PICK r, id : r = Head(h.todo) /\ id = h.id
        OBVIOUS
      <3>2. Waiting' /\ Done(id)' => r.cmd = packet.cmd /\ r.payload = packet.payload
        BY <1>1, <1>2, <1>12, <3>1 DEF OrderInv, OneCommand, IsCommand, Waiting
      <3>3. Waiting' /\ Done(id)' => Spent(r)'
        BY <3>2 DEF Spent
      <3>. QED BY <3>1, <3>3 DEF Done, Spent
    <2>3. Len(log') > 0 /\ log'[Len(log')].boot = boots'
      BY <1>4, <1>5, <1>6
    <2>. QED BY <2>1, <2>2, <2>3 DEF NothingLeft
  <1>. QED BY <1>7, <1>11, <1>13 DEF OrderInv

\* An admitted command that takes no effect leaves the order alone: if it was
\* done before it is spent, and then it changes nothing at all.
LEMMA NoEffectOrder ==
    ASSUME LinkInv, NEW packet, packet = Head(toDevice), toDevice # <<>>,
           packet.cmd \in Protected, UNCHANGED <<h, boots, log>>, toDevice' = Tail(toDevice),
           delayed = "NONE", delayed' = "NONE",
           Done(packet.id) => UNCHANGED s_ota
    PROVE  OrderInv'
  <1>1. HostInv /\ LineInv /\ OrderInv /\ h.id \in Nat
    BY DEF LinkInv, HostInv, Hosts
  <1>2. /\ packet \in On(toDevice) /\ packet.id \in Nat /\ packet.id <= h.id
        /\ \A q \in On(toDevice) : q.id \in Nat /\ packet.id <= q.id
        /\ \A i \in 1 .. Len(log) : log[i].boot = boots => log[i].id <= packet.id
    BY HeadIsOldest
  <1>3. /\ toDevice' \in Seq(SentPackets) /\ On(toDevice') \subseteq On(toDevice)
        /\ LineShortens
    BY <1>1, ShorterLine
  <1>4. CASE Done(packet.id)
    BY <1>1, <1>3, <1>4, OrderKept
  <1>5. CASE ~Done(packet.id)
    <2>1. LineInOrder' /\ OneCommand'
      BY <1>1, <1>3, OrderShortens
    <2>2. LogInOrder'
      BY <1>1, <1>3 DEF OrderInv, LogInOrder, OnceAndInOrder
    <2>3. ASSUME NEW id \in Nat, packet.id <= id PROVE ~Done(id)'
      <3>1. SUFFICES ASSUME Done(id) PROVE FALSE
        BY DEF Done
      <3>2. Len(log) \in 1 .. Len(log) /\ log[Len(log)].boot = boots /\ log[Len(log)].id = id
        BY <1>1, <3>1, LogEntries DEF Done
      <3>3. id <= packet.id
        BY <1>2, <3>2
      <3>4. id = packet.id
        BY <1>2, <2>3, <3>3
      <3>. QED BY <1>5, <3>1, <3>4
    <2>4. NothingLeft'
      <3>1. PICK id \in Nat : id = h.id
        BY <1>1
      <3>2. ~Done(id)'
        BY <1>2, <2>3, <3>1
      <3>3. ~Done(h.id)'
        BY <3>1, <3>2 DEF Done
      <3>4. \A q \in On(toDevice') : ~Done(q.id)'
        BY <1>2, <1>3, <2>3
      <3>. QED BY <3>3, <3>4 DEF NothingLeft
    <2>. QED BY <2>1, <2>2, <2>4 DEF OrderInv
  <1>. QED BY <1>4, <1>5

\* An admitted command keeps the invariant.
LEMMA AdmittedInv ==
    ASSUME LinkInv, TakeAdmitted
    PROVE  LinkInv'
  <1>1. PICK packet : packet = Head(toDevice)
    OBVIOUS
  <1>2. PICK ret \in Results :
          /\ toDevice # <<>> /\ packet.cmd \in Protected /\ Taken(packet)
          /\ HandleAdmitted(packet, ret)
          /\ log' = IF ret = "OK" /\ deviceVars' # deviceVars
                    THEN Append(log, [id |-> packet.id, boot |-> boots, failed |-> FALSE])
                    ELSE log
          /\ UNCHANGED challenges
    BY <1>1 DEF TakeAdmitted
  <1>3. /\ packet \in SentPackets /\ packet \in On(toDevice) /\ toDevice' = Tail(toDevice)
        /\ delayed = "NONE" /\ UNCHANGED <<h, told, boots>>
    BY <1>1, <1>2, HeadTaken
  <1>4. /\ DeviceInv /\ HostInv /\ LineInv /\ NonceInv /\ OrderInv
        /\ challenges \in Nat /\ boots \in Nat /\ log \in Seq(Entries)
        /\ packet.payload \in Payloads
    BY <1>2, <1>3 DEF LinkInv, LineInv
  <1>5. Execute(packet, ret) /\ auth_send_response(packet, ret)
    BY <1>2 DEF HandleAdmitted
  <1>6. DeviceInv'
    <2>1. CommandStep
      BY <1>3, <1>4, <1>5, ExecuteIsStep
    <2>. QED BY <1>4, <2>1, DeviceStepInv DEF DeviceStep
  <1>7. Answered /\ SessionKept
    BY <1>2, <1>3, <1>4, <1>5, SendResponse DEF Errors
  <1>8. /\ toDevice' \in Seq(SentPackets) /\ On(toDevice') \subseteq On(toDevice)
        /\ LineShortens
    BY <1>2, <1>3, <1>4, ShorterLine
  <1>9. HostInv'
    BY <1>3, <1>4 DEF HostInv, Waiting
  <1>10. NonceInv'
    BY <1>3, <1>4, <1>7, <1>8, NoncesKept DEF Answered, SessionKept
  <1>11. Done(packet.id) => UNCHANGED deviceVars
    <2>1. Done(packet.id) => Spent(packet)
      BY <1>2, <1>3, <1>4 DEF OrderInv, NothingLeft, IsCommand
    <2>. QED BY <1>3, <1>5, <2>1, SpentDoesNothing
  <1>12. OrderInv' /\ log' \in Seq(Entries)
    <2>1. CASE ret = "OK" /\ deviceVars' # deviceVars
      <3>1. Spent(packet)'
        BY <1>2, <1>4, <1>5, <2>1, EffectSpends
      <3>. DEFINE e == [id |-> packet.id, boot |-> boots, failed |-> FALSE]
      <3>2. e \in Entries
        BY <1>3, <1>4 DEF SentPackets, Entries
      <3>. HIDE DEF e
      <3>3. log' = Append(log, e)
        BY <1>2, <2>1 DEF e
      <3>4. /\ log' \in Seq(Entries) /\ Len(log') = Len(log) + 1
            /\ \A i \in 1 .. Len(log) : log'[i] = log[i]
            /\ log'[Len(log) + 1] = e
        BY <1>4, <3>2, <3>3, Sent
      <3>5. OrderInv'
        BY <1>1, <1>2, <1>3, <1>11, <2>1, <3>1, <3>4, EffectOrder DEF e
      <3>. QED BY <3>4, <3>5
    <2>2. CASE ~(ret = "OK" /\ deviceVars' # deviceVars)
      <3>1. log' = log
        BY <1>2, <2>2
      <3>2. delayed' = "NONE"
        <4>1. CASE UNCHANGED deviceVars
          BY <1>3, <4>1 DEF deviceVars, ramVars
        <4>2. CASE ret # "OK"
          BY <1>3, <1>5, <4>2
             DEF Execute, CmdBegin, CmdData, CmdEnd, CmdAbort, CmdReboot, CmdRollback
        <4>. QED BY <2>2, <4>1, <4>2
      <3>3. Done(packet.id) => UNCHANGED s_ota
        BY <1>11 DEF deviceVars, ramVars
      <3>. QED BY <1>1, <1>2, <1>3, <1>4, <3>1, <3>2, <3>3, NoEffectOrder
    <2>. QED BY <2>1, <2>2
  <1>13. LineInv'
    BY <1>2, <1>3, <1>4, <1>7, <1>8, <1>12 DEF LineInv, Answered, SessionKept
  <1>. QED BY <1>6, <1>9, <1>10, <1>12, <1>13 DEF LinkInv

-----------------------------------------------------------------------------
(***************************************************************************)
(* Theorems.                                                               *)
(***************************************************************************)

\* Every step of the link, and stuttering, keeps the invariant.
LEMMA LinkStep == LinkInv /\ [Next]_vars => LinkInv'
  <1>. SUFFICES ASSUME LinkInv, [Next]_vars PROVE LinkInv'
    OBVIOUS
  <1>1. CASE UNCHANGED vars
    <2>1. UNCHANGED <<deviceVars, s_auth, toHost, h, toDevice, told, challenges, boots, log>>
      BY <1>1 DEF vars, hostVars, linkVars
    <2>2. DeviceInv'
      BY <2>1, DeviceStepInv DEF LinkInv
    <2>3. s_auth \in AuthStates /\ challenges \in Nat /\ toHost \in Seq(Answers)
      BY DEF LinkInv, LineInv
    <2>. QED BY <2>1, <2>2, <2>3, LinkKept DEF deviceVars, ramVars
  <1>2. CASE Operate \/ Timeout \/ Receive \/ TakeOver
    BY <1>2, HostMovesInv DEF HostMoves
  <1>3. CASE LoseRequest \/ LoseResponse
    BY <1>3, LoseInv
  <1>4. CASE TakeAuth
    BY <1>4, AuthInv
  <1>5. CASE TakeUnadmitted
    BY <1>5, UnadmittedInv
  <1>6. CASE TakeAdmitted
    BY <1>6, AdmittedInv
  <1>7. CASE TakeOther
    BY <1>7, OtherInv
  <1>8. CASE CarryOut \/ SpontaneousReset
    BY <1>8, ResetInv
  <1>9. CASE DropRollback
    BY <1>9, DropInv
  <1>10. CASE HealthTask
    BY <1>10, HealthInv
  <1>. QED BY <1>1, <1>2, <1>3, <1>4, <1>5, <1>6, <1>7, <1>8, <1>9, <1>10 DEF Next

\* Power on: nothing sent, nothing done.
LEMMA LinkInit == Init => LinkInv
  <1>. SUFFICES ASSUME Init PROVE LinkInv
    OBVIOUS
  <1>1. DeviceInv
    BY DeviceInitInv DEF Init
  <1>2. /\ h = NewClient(0, 0, 0) /\ toDevice = <<>> /\ told = <<>> /\ toHost = <<>>
        /\ log = <<>> /\ challenges = 0 /\ boots = 0 /\ s_auth = ConfiguredAuth
        /\ delayed = "NONE"
    BY DEF Init, HostInit, DeviceInit
  <1>3. /\ h.phase = "IDLE" /\ ~h.authenticated /\ h.nonce = 0 /\ h.id = 0
    BY <1>2 DEF NewClient
  <1>4. /\ Len(told) = 0 /\ Len(log) = 0 /\ Len(toDevice) = 0 /\ Len(toHost) = 0
        /\ told \in Seq([cmd : Protected \cup {"PING"}, outcome : Outcomes])
        /\ toDevice \in Seq(SentPackets) /\ toHost \in Seq(Answers) /\ log \in Seq(Entries)
    BY <1>2
  <1>5. On(toDevice) = {} /\ On(toHost) = {}
    BY <1>4 DEF On
  <1>6. h \in Hosts
    <2>1. 0 \in 0 .. Retries /\ 0 \in Sequence /\ << >> \in Seq(Requests)
      BY HostAssumption DEF Sequence
    <2>. QED BY <1>2, <2>1, NoKeyType DEF NewClient, Hosts, Phases
  <1>7. HostInv
    BY <1>3, <1>4, <1>6 DEF HostInv, Waiting
  <1>8. LineInv
    BY <1>2, <1>4, <1>5, ConfiguredType DEF LineInv
  <1>9. NonceInv
    <2>1. s_auth.key.client = 0 /\ ~s_auth.authenticated
      BY <1>2, ConfiguredType DEF NoKey, hmac_prefixed_nonce_pair
    <2>. QED BY <1>3, <1>4, <1>5, <2>1 DEF NonceInv, NoncesInOrder
  <1>10. OrderInv
    BY <1>2, <1>3, <1>4, <1>5
       DEF OrderInv, LineInOrder, LogInOrder, OnceAndInOrder, OneCommand, NothingLeft, Waiting
  <1>. QED BY <1>1, <1>7, <1>8, <1>9, <1>10 DEF LinkInv

\* Whatever the operator asks for, and whatever the line loses or delays, the
\* invariant of otalink.py, auth.c and commands.c on one line holds.
THEOREM LinkInductive == Spec => []LinkInv
  BY LinkInit, LinkStep, PTL DEF Spec

\* The replay ring's cursor and the client's counters stay in range, and the
\* operator hears of every request exactly once.
THEOREM LinkTypeCorrect == Spec => []TypeOK
  <1>1. LinkInv => TypeOK
    <2>. SUFFICES ASSUME LinkInv PROVE TypeOK
      OBVIOUS
    <2>1. DeviceTypeOK
      BY DEF LinkInv, DeviceInv, DeviceTypeOK, OtaInv
    <2>2. h \in Hosts /\ s_auth \in AuthStates /\ Len(told) = IF Waiting THEN h.id - 1 ELSE h.id
      BY DEF LinkInv, HostInv, LineInv
    <2>. QED BY <2>1, <2>2 DEF TypeOK, Hosts, AuthStates, Sequence
  <1>. QED BY <1>1, LinkInductive, PTL

\* Challenges and proofs sent twice, delayed, lost, or left over from a client
\* that was killed never leave authenticate() and auth_handle_packet with
\* different session keys, for any number of clients and resets.
THEOREM SessionsNeverDiffer == Spec => []SessionsAgree
  <1>1. LinkInv => SessionsAgree
    <2>. SUFFICES ASSUME LinkInv, h.authenticated, s_auth.authenticated
                  PROVE  h.key = s_auth.key
      BY DEF SessionsAgree
    <2>1. /\ h.nonce \in Nat /\ s_auth.key.client \in Nat
      BY DEF LinkInv, HostInv, LineInv, Hosts, AuthStates, Keys
    <2>2. s_auth.key.client <= h.nonce /\ s_auth.key.client >= h.nonce
      BY DEF LinkInv, NonceInv, NoncesInOrder, Issued
    <2>3. s_auth.key.client = h.nonce
      BY <2>1, <2>2
    <2>. QED BY <2>3 DEF LinkInv, NonceInv, OnlyProofOf
  <1>. QED BY <1>1, LinkInductive, PTL

\* Commands take effect in the order of the operator's requests and none takes
\* effect twice in one boot, with and without authentication and for every size
\* of the replay cache.
THEOREM EffectsOnceAndInOrder == Spec => []OnceAndInOrder
  <1>1. LinkInv => OnceAndInOrder
    BY DEF LinkInv, OrderInv, LogInOrder
  <1>. QED BY <1>1, LinkInductive, PTL

\* On the link, too, the device only takes its own steps.
LEMMA LinkIsDeviceStep == LinkInv /\ [Next]_vars => DeviceStep \/ UNCHANGED deviceVars
  <1>. SUFFICES ASSUME LinkInv, [Next]_vars PROVE DeviceStep \/ UNCHANGED deviceVars
    OBVIOUS
  <1>1. CASE \/ UNCHANGED vars \/ Operate \/ Timeout \/ Receive \/ TakeOver
             \/ LoseRequest \/ LoseResponse \/ TakeAuth \/ TakeUnadmitted \/ TakeOther
    BY <1>1 DEF vars, Operate, Timeout, Receive, TakeOver, LoseRequest, LoseResponse, TakeAuth,
                TakeUnadmitted, HandleUnadmitted, TakeOther, HandleOther
  <1>2. CASE TakeAdmitted
    <2>1. PICK packet : packet = Head(toDevice)
      OBVIOUS
    <2>2. PICK ret : toDevice # <<>> /\ packet.cmd \in Protected /\ Taken(packet)
                     /\ Execute(packet, ret)
      BY <1>2, <2>1 DEF TakeAdmitted, HandleAdmitted
    <2>3. packet \in On(toDevice) /\ delayed = "NONE"
      BY <2>1, <2>2, HeadTaken
    <2>4. packet.payload \in Payloads
      BY <2>2, <2>3 DEF LinkInv, LineInv
    <2>. QED BY <2>2, <2>3, <2>4, ExecuteIsStep DEF DeviceStep
  <1>3. CASE CarryOut \/ SpontaneousReset
    BY <1>3, ResetSteps DEF CarryOut, SpontaneousReset, DeviceStep
  <1>4. CASE DropRollback \/ HealthTask
    BY <1>4 DEF DropRollback, HealthTask, DeviceStep
  <1>. QED BY <1>1, <1>2, <1>3, <1>4 DEF Next

\* Whatever the host and the line do, the device runs an intact image, keeps its
\* session's books, can carry out the rollback it acknowledged, and while an
\* image is on trial keeps the confirmed one it falls back to.
THEOREM DeviceSoundOnLink ==
    Spec => [](/\ RunningSlotIntact /\ SessionAgreesWithFlash
               /\ AckedRollbackPossible /\ FallbackExists)
  <1>1. Init => FallbackInv
    BY FallbackInit DEF Init
  <1>2. LinkInv /\ FallbackInv /\ [Next]_vars => FallbackInv'
    BY LinkIsDeviceStep, FallbackStep DEF LinkInv
  <1>3. Spec => []FallbackInv
    BY <1>1, <1>2, LinkInductive, PTL DEF Spec
  <1>4. LinkInv /\ FallbackInv =>
          RunningSlotIntact /\ SessionAgreesWithFlash /\ AckedRollbackPossible /\ FallbackExists
    BY FallbackFollows DEF LinkInv, DeviceInv, OtaInv
  <1>. QED BY <1>3, <1>4, LinkInductive, PTL
=============================================================================
