---------------------------- MODULE VerdictProofs ----------------------------
(***************************************************************************)
(* Proofs about what the operator is told: an ACK, a NACK or an answer to  *)
(* OTA_ABORT says what happened, although responses are matched by their   *)
(* sequence number alone.                                                  *)
(*                                                                         *)
(* The numbers come back after SequenceModulus requests, and a packet may  *)
(* be delayed beyond any bound; the theorems are about sessions of at most *)
(* that many requests.  A history variable counts them.                    *)
(***************************************************************************)
EXTENDS LinkProofs

\* A session is what responses tell apart: with a key from the device's consent
\* on, and without one the client's life.
InSession == UseAuth => h.authenticated

VARIABLE
    since            \* history: the request in which the client's session began

\* What the link does is not restricted by it: since follows h.
Counts == since' = IF InSession' THEN since ELSE h'.id
Counting == since = h.id /\ [][Counts]_<<h, since>>

\* The session has at most SequenceModulus requests, counting the one it began with.
FewRequests == h.id < since + SequenceModulus

(***************************************************************************)
(* Acknowledgements.  While a client keeps its session it draws one number *)
(* per request, so the number of an older request is as far behind the     *)
(* current one as the request is, up to one turn of the counter.  Without  *)
(* a key the one client's life is the session.                             *)
(***************************************************************************)
Ours(q) == UseAuth => IsCommand(q) /\ q.key = h.key
ToUs(r) == UseAuth => r.cmd \in Protected /\ r.key = h.key

Apart(id, seq) ==
    /\ since <= id
    /\ h.id - id = h.seq - seq \/ h.id - id = h.seq - seq + SequenceModulus

Cached == {s_auth.cache[i].response : i \in {k \in 1 .. CacheSize : s_auth.cache[k].valid}}

\* Nothing is tagged yet with the key under negotiation.
Authenticating == h.phase \in {"CHALLENGE", "PROOF"}
Used(key) == key.client <= h.nonce /\ (Authenticating => key.client < h.nonce)

\* What is on its way to the device.
Sound(q) ==
    /\ q.id >= 1
    /\ IsCommand(q) => Used(q.key)
    /\ InSession /\ Ours(q) => Apart(q.id, q.seq)
    /\ ~UseAuth => /\ q.cmd \in Protected \cup {"PING"}
                   /\ Waiting /\ q.id = h.id => q.cmd = Head(h.todo).cmd

\* The acknowledgements under way, and those the device may repeat, are true.
Truthful(r) ==
    r.kind = "ACK" =>
      /\ r.cmd \in Protected => Used(r.key)
      /\ InSession /\ ToUs(r) =>
           /\ \E id \in 1 .. h.id : Apart(id, r.seq)
           /\ Waiting /\ IsCommand(Head(h.todo)) /\ r.seq = h.seq => TookEffect(h.id)

\* What the client waits for, and with what key.
WaitInv ==
    /\ Waiting => h.pkt.seq = h.seq /\ h.id >= 1
    /\ h.phase = "COMMAND" => h.pkt.key = IF NeedsTag(h.pkt.cmd) THEN h.key ELSE NoKey
    /\ h.phase = "COMMAND" /\ NeedsTag(h.pkt.cmd) => h.authenticated
    /\ h.phase = "PROOF" => ~h.authenticated
    /\ Authenticating \/ h.authenticated => UseAuth
    /\ clients \in Nat \ {0}
    /\ since \in Nat /\ since <= h.id /\ (~InSession => since = h.id)

\* ota_manager_write_data acknowledges the chunk it wrote last without writing
\* it; that chunk is never another request's.
Ahead(p) ==
    s_ota.active /\ s_ota.last_chunk_data # <<>> => s_ota.last_chunk_offset < p.offset

InUpdate ==
    Waiting /\ (IsChunk(Head(h.todo)) \/ (Head(h.todo).cmd = "OTA_BEGIN" /\ TookEffect(h.id)))

ChunkInv ==
    /\ ChunksFollow(h.todo) /\ ChunksAscend(h.todo)
    /\ InUpdate => \A k \in 1 .. Len(h.todo) :
         IsChunk(h.todo[k]) =>
           /\ (k = 1 /\ TookEffect(h.id)) \/ Ahead(h.todo[k].payload)
           /\ \A q \in On(toDevice) :
                IsChunk(q) /\ q.id # h.id => q.payload.offset < h.todo[k].payload.offset

\* What took effect was asked for, in any boot.
EffectInv ==
    /\ Waiting /\ TookEffect(h.id) => IsCommand(Head(h.todo))
    /\ \A i \in 1 .. Len(log) : log[i].id <= h.id /\ \A q \in On(toDevice) : log[i].id <= q.id

TrueAckInv ==
    /\ \A q \in On(toDevice) : Sound(q)
    /\ \A r \in On(toHost) \cup Cached : Truthful(r)
    /\ WaitInv /\ ChunkInv /\ EffectInv /\ AckIsTrue

-----------------------------------------------------------------------------
(***************************************************************************)
(* Numbers and types.                                                      *)
(***************************************************************************)

\* The client's counters.
LEMMA Counters ==
    ASSUME HostInv
    PROVE  /\ h.id \in Nat /\ h.nonce \in Nat /\ h.key \in Keys /\ h.key.client \in Nat
           /\ h.seq \in Nat /\ h.seq < SequenceModulus
           /\ SequenceModulus \in Nat /\ SequenceModulus > 1
  <1>1. h.id \in Nat /\ h.nonce \in Nat /\ h.key \in Keys /\ h.seq \in Sequence
    BY DEF HostInv, Hosts
  <1>2. SequenceModulus \in Nat /\ SequenceModulus > 1
    BY HostAssumption
  <1>. QED BY <1>1, <1>2 DEF Keys, Sequence

\* The next number follows, or the counter turns over.
LEMMA NumberFollows ==
    ASSUME HostInv
    PROVE  \/ (h.seq + 1) % SequenceModulus = h.seq + 1
           \/ h.seq + 1 = SequenceModulus /\ (h.seq + 1) % SequenceModulus = 0
  <1>1. /\ h.seq \in Nat /\ h.seq < SequenceModulus
        /\ SequenceModulus \in Nat /\ SequenceModulus > 1
    BY Counters
  <1>2. CASE h.seq + 1 < SequenceModulus
    BY <1>1, <1>2, NoWrap
  <1>3. CASE h.seq + 1 = SequenceModulus
    <2>1. SequenceModulus % SequenceModulus = 0
      BY <1>1
    <2>. QED BY <1>3, <2>1
  <1>. QED BY <1>1, <1>2, <1>3

\* One number per request.
Pace ==
    \/ h'.id = h.id /\ h'.seq = h.seq
    \/ h'.id = h.id + 1 /\ h'.seq = (h.seq + 1) % SequenceModulus

\* The distance of an older request stays that of its number.
LEMMA ApartKept ==
    ASSUME HostInv, HostInv', FewRequests', Pace, since \in Nat, UNCHANGED since,
           NEW id \in 1 .. h.id, NEW seq \in Sequence, Apart(id, seq)
    PROVE  Apart(id, seq)' /\ id \in 1 .. h'.id
  <1>1. /\ h.id \in Nat /\ h.seq \in Nat /\ h.seq < SequenceModulus
        /\ SequenceModulus \in Nat /\ h'.id < since + SequenceModulus
    BY Counters DEF FewRequests
  <1>2. seq \in Nat /\ seq < SequenceModulus /\ id \in Nat /\ id >= 1 /\ id <= h.id
    BY <1>1 DEF Sequence
  <1>3. CASE h'.id = h.id /\ h'.seq = h.seq
    BY <1>1, <1>2, <1>3 DEF Apart
  <1>4. CASE h'.id = h.id + 1 /\ h'.seq = h.seq + 1
    BY <1>1, <1>2, <1>4 DEF Apart
  <1>5. CASE h'.id = h.id + 1 /\ h.seq + 1 = SequenceModulus /\ h'.seq = 0
    BY <1>1, <1>2, <1>5 DEF Apart
  <1>. QED BY <1>3, <1>4, <1>5, NumberFollows DEF Pace

\* Within one turn of the counter a number names a request.
LEMMA NumberNames ==
    ASSUME HostInv, FewRequests, since \in Nat, NEW id \in 1 .. h.id, Apart(id, h.seq)
    PROVE  id = h.id
  <1>1. /\ h.id \in Nat /\ h.seq \in Nat /\ SequenceModulus \in Nat
        /\ h.id < since + SequenceModulus
    BY Counters DEF FewRequests
  <1>. QED BY <1>1 DEF Apart

\* A packet's and a response's fields.
LEMMA Fields ==
    ASSUME LineInv
    PROVE  /\ \A q \in On(toDevice) :
                q \in SentPackets /\ q.id \in Nat /\ q.seq \in Sequence /\ q.key.client \in Nat
           /\ \A r \in On(toHost) \cup Cached :
                r \in Answers /\ r.seq \in Sequence /\ r.key.client \in Nat
  <1>1. On(toDevice) \subseteq SentPackets /\ On(toHost) \subseteq Answers
    BY OnLine DEF LineInv
  <1>2. Cached \subseteq Answers
    <2>1. ASSUME NEW i \in 1 .. CacheSize, s_auth.cache[i].valid
          PROVE  s_auth.cache[i].response \in Answers
      <3>1. s_auth.cache[i] \in {NoEntry} \cup
              [valid : {TRUE}, request : SentPackets, response : Responses(Protected)]
        BY DEF LineInv, AuthStates
      <3>2. ~NoEntry.valid
        BY DEF NoEntry
      <3>3. s_auth.cache[i].response \in Responses(Protected)
        BY <2>1, <3>1, <3>2
      <3>. QED BY <3>3 DEF Answers, Responses
    <2>. QED BY <2>1 DEF Cached
  <1>3. \A q \in SentPackets : q.id \in Nat /\ q.seq \in Sequence /\ q.key.client \in Nat
    BY DEF SentPackets, Keys
  <1>4. \A r \in Answers : r.seq \in Sequence /\ r.key.client \in Nat
    BY DEF Answers, Responses, Keys
  <1>. QED BY <1>1, <1>2, <1>3, <1>4

-----------------------------------------------------------------------------
(***************************************************************************)
(* The host.                                                               *)
(***************************************************************************)
\* One client at a time, if responses do not tell sessions apart.
OneClient == UseAuth \/ MaxClients = 1

\* A session goes on, or begins with the device's consent.
LEMMA SessionGoesOn ==
    ASSUME HostInv, WaitInv, OneClient, HostStep, InSession'
    PROVE  \/ InSession /\ (UseAuth => h'.key = h.key) /\ Pace
           \/ UseAuth /\ h.phase = "PROOF" /\ h'.key = h.key
  <1>1. CASE HostQuiet
    <2>1. TakeOver => UseAuth
      BY DEF TakeOver, OneClient, WaitInv
    <2>. QED BY <1>1, <2>1 DEF HostQuiet, InSession, Pace
  <1>2. CASE HostRetries
    BY <1>2 DEF HostRetries, SameRequest, InSession, Pace
  <1>3. CASE HostChallenges
    BY <1>3 DEF HostChallenges, NeedsTag, InSession
  <1>4. CASE HostProves
    BY <1>4 DEF HostProves, InSession, WaitInv, Authenticating
  <1>5. CASE HostCommands
    <2>1. CASE Proven
      BY <1>5, <2>1 DEF HostCommands, Proven, WaitInv, Authenticating
    <2>2. CASE NewRequest /\ (h'.authenticated => h.authenticated)
      BY <1>5, <2>2 DEF HostCommands, NewRequest, Draws, InSession, Pace
    <2>. QED BY <1>5, <2>1, <2>2 DEF HostCommands
  <1>. QED BY <1>1, <1>2, <1>3, <1>4, <1>5 DEF HostStep

\* A used key stays one.
LEMMA UsedKept ==
    ASSUME HostInv, HostInv', HostStep, NEW key, key.client \in Nat, Used(key)
    PROVE  Used(key)'
  <1>1. h.nonce \in Nat
    BY Counters
  <1>. QED BY <1>1
    DEF Used, Authenticating, HostStep, HostQuiet, HostRetries, HostChallenges, HostProves,
        HostCommands

\* The request under way is the same, or a newer one.
LEMMA SameOrNewer ==
    ASSUME HostInv, HostStep, Waiting'
    PROVE  \/ Waiting /\ h'.id = h.id /\ h'.todo = h.todo
           \/ h'.id = h.id + 1 /\ NewRequest /\ h'.seq = (h.seq + 1) % SequenceModulus
  BY DEF HostStep, HostQuiet, HostRetries, HostChallenges, HostProves, HostCommands,
         SameRequest, NewRequest, Waiting, Draws

\* What is on its way to the device stays sound.
LEMMA SoundKept ==
    ASSUME HostInv, HostInv', LineInv, NonceInv, OrderInv, WaitInv, OneClient, FewRequests',
           HostStep, Counts, NEW q \in On(toDevice), Sound(q)
    PROVE  Sound(q)'
  <1>1. q.id \in Nat /\ q.seq \in Sequence /\ q.key.client \in Nat /\ q.id >= 1 /\ q.id <= h.id
    BY Fields DEF Sound, OrderInv, LineInOrder
  <1>2. h.id \in Nat /\ h.nonce \in Nat
    BY Counters
  <1>3. IsCommand(q) => Used(q.key)'
    <2>1. PICK key : key = q.key
      OBVIOUS
    <2>2. IsCommand(q) => Used(key)'
      BY <1>1, <2>1, UsedKept DEF Sound
    <2>. QED BY <2>1, <2>2 DEF Used
  <1>4. ASSUME InSession', Ours(q)' PROVE Apart(q.id, q.seq)'
    <2>1. CASE InSession /\ (UseAuth => h'.key = h.key) /\ Pace
      <3>. UNCHANGED since /\ since \in Nat
        BY <1>4 DEF Counts, WaitInv
      <3>1. PICK id \in 1 .. h.id, seq \in Sequence : id = q.id /\ seq = q.seq
        BY <1>1, <1>2
      <3>2. Apart(id, seq)
        BY <1>4, <2>1, <3>1 DEF Sound, Ours
      <3>3. Apart(id, seq)'
        BY <2>1, <3>2, ApartKept
      <3>. QED BY <3>1, <3>3 DEF Apart
    <2>2. CASE UseAuth /\ h.phase = "PROOF" /\ h'.key = h.key
      <3>1. IsCommand(q) /\ q.key.client = h.nonce
        BY <1>4, <2>2 DEF Ours, NonceInv
      <3>2. q.key.client < h.nonce
        BY <2>2, <3>1 DEF Sound, Used, Authenticating
      <3>. QED BY <1>1, <1>2, <3>1, <3>2
    <2>. QED BY <1>4, <2>1, <2>2, SessionGoesOn
  <1>5. Waiting' /\ q.id = h'.id => Waiting /\ h'.id = h.id /\ h'.todo = h.todo
    BY <1>1, <1>2, SameOrNewer
  <1>6. ~UseAuth => /\ q.cmd \in Protected \cup {"PING"}
                    /\ Waiting' /\ q.id = h'.id => q.cmd = Head(h'.todo).cmd
    BY <1>5 DEF Sound
  <1>. QED BY <1>1, <1>3, <1>4, <1>6 DEF Sound

\* The acknowledgements under way stay true.
LEMMA TruthfulKept ==
    ASSUME HostInv, HostInv', LineInv, NonceInv, WaitInv, OneClient, FewRequests', HostStep, Counts,
           UNCHANGED log, NEW r \in On(toHost) \cup Cached, Truthful(r)
    PROVE  Truthful(r)'
  <1>. SUFFICES ASSUME r.kind = "ACK"
                PROVE  /\ r.cmd \in Protected => Used(r.key)'
                       /\ InSession' /\ ToUs(r)' =>
                            /\ \E id \in 1 .. h'.id : Apart(id, r.seq)'
                            /\ Waiting' /\ IsCommand(Head(h'.todo)) /\ r.seq = h'.seq =>
                                 TookEffect(h.id)'
    BY DEF Truthful
  <1>1. r.seq \in Sequence /\ r.key.client \in Nat
    BY Fields
  <1>2. h.id \in Nat /\ h'.id \in Nat /\ h.nonce \in Nat
    BY DEF HostInv, Hosts
  <1>3. r.cmd \in Protected => Used(r.key)'
    <2>1. PICK key : key = r.key
      OBVIOUS
    <2>2. r.cmd \in Protected => Used(key)'
      BY <1>1, <2>1, UsedKept DEF Truthful
    <2>. QED BY <2>1, <2>2 DEF Used
  <1>4. ASSUME InSession', ToUs(r)'
        PROVE  /\ \E id \in 1 .. h'.id : Apart(id, r.seq)'
               /\ Waiting' /\ IsCommand(Head(h'.todo)) /\ r.seq = h'.seq => TookEffect(h.id)'
    <2>1. CASE InSession /\ (UseAuth => h'.key = h.key) /\ Pace
      <3>. UNCHANGED since /\ since \in Nat
        BY <1>4 DEF Counts, WaitInv
      <3>1. ToUs(r)
        BY <1>4, <2>1 DEF ToUs
      <3>2. PICK id \in 1 .. h.id, seq \in Sequence : seq = r.seq /\ Apart(id, seq)
        BY <1>1, <2>1, <3>1 DEF Truthful
      <3>3. Apart(id, seq)' /\ id \in 1 .. h'.id
        BY <2>1, <3>2, ApartKept
      <3>4. ASSUME Waiting', IsCommand(Head(h'.todo)), r.seq = h'.seq
            PROVE  TookEffect(h.id)'
        <4>1. Apart(id, h.seq)'
          BY <3>2, <3>3, <3>4 DEF Apart
        <4>2. id = h'.id
          <5>1. h'.seq \in Nat /\ SequenceModulus \in Nat /\ h'.id < since' + SequenceModulus
            BY Counters, <1>1, <3>4 DEF FewRequests, Sequence
          <5>. QED BY <1>2, <3>3, <4>1, <5>1 DEF Apart
        <4>3. Waiting /\ h'.id = h.id /\ h'.todo = h.todo
          BY <1>2, <3>2, <3>4, <4>2, SameOrNewer
        <4>4. h'.seq = h.seq
          BY <1>2, <2>1, <4>3 DEF Pace
        <4>5. TookEffect(h.id)
          BY <2>1, <3>1, <3>4, <4>3, <4>4 DEF Truthful
        <4>. QED BY <4>3, <4>5 DEF TookEffect
      <3>. QED BY <3>2, <3>3, <3>4 DEF Apart
    <2>2. CASE UseAuth /\ h.phase = "PROOF" /\ h'.key = h.key
      <3>1. r.cmd \in Protected /\ r.key.client = h.nonce
        BY <1>4, <2>2 DEF ToUs, NonceInv
      <3>2. r.key.client < h.nonce
        BY <2>2, <3>1 DEF Truthful, Used, Authenticating
      <3>. QED BY <1>1, <1>2, <3>1, <3>2
    <2>. QED BY <1>4, <2>1, <2>2, SessionGoesOn
  <1>. QED BY <1>3, <1>4

\* What the host waits for, and with what key.
LEMMA WaitHost ==
    ASSUME HostInv, HostInv', WaitInv, HostStep, Counts, clients' \in Nat \ {0}
    PROVE  WaitInv'
  <1>. DEFINE SinceInv == since \in Nat /\ since <= h.id /\ (~InSession => since = h.id)
  <1>1. h.id \in Nat /\ h'.id \in Nat /\ h'.id >= h.id
    BY HostSendsOrNot
  <1>2. SinceInv'
    BY <1>1 DEF WaitInv, Counts
  <1>. HIDE DEF SinceInv
  <1>3. CASE HostQuiet
    BY <1>2, <1>3 DEF HostQuiet, WaitInv, Waiting, Authenticating, SinceInv
  <1>4. CASE HostRetries
    BY <1>2, <1>4 DEF HostRetries, SameRequest, WaitInv, Waiting, Authenticating, SinceInv
  <1>5. CASE HostChallenges
    BY <1>1, <1>2, <1>5 DEF HostChallenges, SameRequest, NewRequest, Draws, NeedsTag, WaitInv,
                            Authenticating, SinceInv
  <1>6. CASE HostProves
    BY <1>2, <1>6 DEF HostProves, SameRequest, Draws, WaitInv, Authenticating, SinceInv
  <1>7. CASE HostCommands
    BY <1>1, <1>2, <1>7
       DEF HostCommands, SameRequest, NewRequest, Proven, Draws, WaitInv, Authenticating, SinceInv
  <1>. QED BY <1>3, <1>4, <1>5, <1>6, <1>7 DEF HostStep

\* The first request of a list, and what its list holds.
LEMMA FirstRequest ==
    ASSUME HostInv, Waiting
    PROVE  /\ h.todo \in Seq(Requests) /\ h.todo # <<>> /\ Len(h.todo) \in Nat /\ Len(h.todo) > 0
           /\ Head(h.todo) = h.todo[1] /\ Head(h.todo) \in Requests
           /\ Head(h.todo).cmd \in Protected \cup {"PING"}
           /\ h.phase \in {"CHALLENGE", "PROOF", "COMMAND"}
  <1>1. h.todo \in Seq(Requests) /\ h.todo # <<>> /\ h.phase \in {"CHALLENGE", "PROOF", "COMMAND"}
    BY DEF HostInv, Hosts, Waiting, Phases
  <1>2. Len(h.todo) \in Nat /\ Len(h.todo) > 0 /\ Head(h.todo) = h.todo[1] /\ Head(h.todo) \in Requests
    BY <1>1, TakenOff
  <1>. QED BY <1>1, <1>2 DEF Requests

\* What the host sends is sound.
LEMMA SoundSent ==
    ASSUME HostInv', NonceInv', WaitInv', Waiting', h'.pkt \in SentPackets
    PROVE  Sound(h.pkt)'
  <1>1. /\ h'.phase \in {"CHALLENGE", "PROOF", "COMMAND"} /\ h'.pkt.id = h'.id
        /\ h'.nonce \in Nat /\ h'.id \in Nat /\ h'.id >= 1
        /\ h'.pkt.seq = h'.seq /\ h'.seq \in Nat
    BY HostAssumption DEF HostInv, Hosts, Waiting, Phases, WaitInv, Sequence
  <1>2. IsCommand(h'.pkt) => Used(h.pkt.key)'
    <2>1. IsCommand(h'.pkt) => h'.phase = "COMMAND"
      BY <1>1 DEF HostInv, IsCommand, Protected
    <2>2. NoKey.client = 0
      BY DEF NoKey, hmac_prefixed_nonce_pair
    <2>. QED BY <1>1, <2>1, <2>2 DEF WaitInv, NonceInv, Used, Authenticating
  <1>3. Apart(h.pkt.id, h.pkt.seq)'
    BY <1>1 DEF Apart, WaitInv
  <1>4. ~UseAuth => h'.pkt.cmd \in Protected \cup {"PING"} /\ h'.pkt.cmd = Head(h'.todo).cmd
    <2>1. h'.todo \in Seq(Requests) /\ h'.todo # <<>>
      BY DEF HostInv, Hosts
    <2>2. Head(h'.todo) \in Requests
      BY <2>1
    <2>. QED BY <1>1, <2>2 DEF HostInv, WaitInv, Authenticating, Requests
  <1>. QED BY <1>1, <1>2, <1>3, <1>4 DEF Sound

\* An acknowledgement that the client accepts for a command is true.
LEMMA AcceptedIsTrue ==
    ASSUME HostInv, WaitInv, \A r \in On(toHost) \cup Cached : Truthful(r),
           Accepts("ACK"), IsCommand(Head(h.todo))
    PROVE  TookEffect(h.id)
  <1>1. PICK r \in On(toHost) :
          r.kind = "ACK" /\ r.seq = h.pkt.seq /\ (NeedsTag(h.pkt.cmd) => _verified_response(r))
    BY DEF Accepts
  <1>2. h.phase = "COMMAND" /\ Waiting /\ h.pkt.cmd = Head(h.todo).cmd
    BY DEF Accepts, Waiting, HostInv
  <1>3. UseAuth => NeedsTag(h.pkt.cmd)
    BY <1>2 DEF NeedsTag, IsCommand
  <1>4. InSession /\ ToUs(r)
    BY <1>1, <1>2, <1>3 DEF InSession, ToUs, WaitInv, _verified_response, IsCommand
  <1>. QED BY <1>1, <1>2, <1>4 DEF Truthful, WaitInv

\* A request that took effect is no newer than the client's.
LEMMA EffectsAreOld ==
    ASSUME LineInv, EffectInv, NEW id, TookEffect(id)
    PROVE  id \in Nat /\ id <= h.id
  BY LogEntries DEF EffectInv, TookEffect

\* The chunks of the rest of an update.
LEMMA RestOfUpdate ==
    ASSUME NEW todo \in Seq(Requests), Len(todo) > 1, ChunksFollow(todo), ChunksAscend(todo)
    PROVE  /\ ChunksFollow(Tail(todo)) /\ ChunksAscend(Tail(todo))
           /\ Head(Tail(todo)) = todo[2] /\ Tail(todo) \in Seq(Requests)
           /\ \A k \in 1 .. Len(Tail(todo)) : k + 1 \in 2 .. Len(todo) /\ Tail(todo)[k] = todo[k + 1]
  <1>. DEFINE t == Tail(todo)
  <1>1. /\ t \in Seq(Requests) /\ Len(t) = Len(todo) - 1 /\ Len(todo) \in Nat
        /\ \A k \in 1 .. Len(todo) - 1 : t[k] = todo[k + 1]
    BY TakenOff
  <1>2. t # <<>>
    BY TailOfMore
  <1>. HIDE DEF t
  <1>3. Head(t) = t[1]
    BY <1>1, <1>2
  <1>4. \A k \in 1 .. Len(t) : k + 1 \in 2 .. Len(todo) /\ t[k] = todo[k + 1]
    BY <1>1
  <1>5. ChunksFollow(t)
    <2>1. ASSUME NEW k \in 2 .. Len(t), IsChunk(t[k])
          PROVE  t[k - 1].cmd \in {"OTA_BEGIN", "OTA_DATA"}
      <3>1. k - 1 \in 1 .. Len(t) /\ k \in 1 .. Len(t) /\ (k - 1) + 1 = k /\ (k + 1) - 1 = k
        BY <1>1
      <3>2. t[k] = todo[k + 1] /\ t[k - 1] = todo[k] /\ k + 1 \in 2 .. Len(todo)
        BY <1>4, <3>1
      <3>. QED BY <2>1, <3>1, <3>2 DEF ChunksFollow
    <2>. QED BY <2>1 DEF ChunksFollow
  <1>6. ChunksAscend(t)
    <2>1. ASSUME NEW j \in 1 .. Len(t), NEW k \in 1 .. Len(t), j < k, IsChunk(t[j]), IsChunk(t[k])
          PROVE  t[j].payload.offset < t[k].payload.offset
      <3>1. j + 1 \in 1 .. Len(todo) /\ k + 1 \in 1 .. Len(todo) /\ j + 1 < k + 1
        BY <1>1, <2>1
      <3>2. t[j] = todo[j + 1] /\ t[k] = todo[k + 1]
        BY <1>4
      <3>. QED BY <2>1, <3>1, <3>2 DEF ChunksAscend
    <2>. QED BY <2>1 DEF ChunksAscend
  <1>7. t[1] = todo[2]
    BY <1>1
  <1>. QED BY <1>1, <1>3, <1>4, <1>5, <1>6, <1>7 DEF t

\* The host keeps the chunks of an update ahead of the device.
LEMMA ChunksHost ==
    ASSUME HostInv, HostInv', LineInv, OrderInv, TrueAckInv, HostStep, UNCHANGED <<s_ota, log>>
    PROVE  ChunkInv'
  <1>1. /\ h.id \in Nat /\ h'.id \in Nat
        /\ \A q \in On(toDevice) : q.id \in Nat /\ q.id <= h.id
    BY Fields DEF HostInv, Hosts, OrderInv, LineInOrder
  <1>2. /\ \A q \in On(toDevice') : q \in On(toDevice) \/ q.id = h'.id
    <2>1. UNCHANGED toDevice \/ HostSends
      BY HostSendsOrNot
    <2>2. HostSends => On(toDevice') = On(toDevice) \cup {h'.pkt}
      BY Sent DEF HostSends, Sends, LineInv
    <2>. QED BY <2>1, <2>2 DEF HostSends, Sends
  <1>3. \A id : TookEffect(id)' <=> TookEffect(id)
    BY DEF TookEffect
  <1>4. \A p : Ahead(p)' <=> Ahead(p)
    BY DEF Ahead
  <1>5. ChunkInv /\ EffectInv /\ WaitInv
    BY DEF TrueAckInv
  <1>6. CASE ~Waiting'
    <2>1. h'.todo = <<>> \/ h'.todo = h.todo
      BY <1>6 DEF HostStep, HostQuiet, HostRetries, HostChallenges, HostProves, HostCommands,
                  SameRequest, Waiting
    <2>2. Len(<< >>) = 0
      OBVIOUS
    <2>3. (ChunksFollow(h.todo) /\ ChunksAscend(h.todo))'
      <3>1. CASE h'.todo = h.todo
        BY <1>5, <3>1 DEF ChunkInv, ChunksFollow, ChunksAscend
      <3>2. CASE Len(h'.todo) = 0
        BY <3>2 DEF ChunksFollow, ChunksAscend
      <3>. QED BY <2>1, <2>2, <3>1, <3>2
    <2>. QED BY <1>6, <2>3 DEF ChunkInv, InUpdate
  <1>7. CASE Waiting /\ Waiting' /\ h'.id = h.id /\ h'.todo = h.todo
    <2>1. InUpdate' => InUpdate
      BY <1>3, <1>7 DEF InUpdate, TookEffect
    <2>2. (ChunksFollow(h.todo) /\ ChunksAscend(h.todo))'
      BY <1>5, <1>7 DEF ChunkInv, ChunksFollow, ChunksAscend
    <2>3. ASSUME InUpdate', NEW k \in 1 .. Len(h'.todo), IsChunk(h'.todo[k])
          PROVE  /\ (k = 1 /\ TookEffect(h.id)') \/ Ahead(h.todo[k].payload)'
                 /\ \A q \in On(toDevice') :
                      IsChunk(q) /\ q.id # h'.id => q.payload.offset < h'.todo[k].payload.offset
      <3>1. PICK p : p = h.todo[k].payload
        OBVIOUS
      <3>2. /\ (k = 1 /\ TookEffect(h.id)) \/ Ahead(p)
            /\ \A q \in On(toDevice) :
                 IsChunk(q) /\ q.id # h.id => q.payload.offset < p.offset
        BY <1>5, <1>7, <2>1, <2>3, <3>1 DEF ChunkInv
      <3>. QED BY <1>2, <1>7, <3>1, <3>2 DEF Ahead, TookEffect
    <2>. QED BY <2>2, <2>3 DEF ChunkInv
  <1>8. CASE Waiting' /\ NewRequest /\ h'.id = h.id + 1
    <2>1. ~TookEffect(h.id)'
      <3>1. PICK id : id = h'.id
        OBVIOUS
      <3>2. ~TookEffect(id)
        BY <1>1, <1>5, <1>8, <3>1, EffectsAreOld
      <3>. QED BY <3>1, <3>2 DEF TookEffect
    <2>2. CASE ~Waiting /\ h'.todo \in Operations
      <3>1. ~IsChunk(Head(h'.todo)) /\ ChunksFollow(h'.todo) /\ ChunksAscend(h'.todo)
        BY <2>2, UpdatesAssumption
      <3>. QED BY <2>1, <3>1 DEF ChunkInv, InUpdate, ChunksFollow, ChunksAscend
    <2>3. CASE Waiting /\ Len(h.todo) > 1 /\ h'.todo = Tail(h.todo) /\ Accepts("ACK")
      <3>1. h.todo \in Seq(Requests) /\ Len(h.todo) \in Nat /\ Head(h.todo) = h.todo[1]
        BY <2>3, FirstRequest
      <3>2. /\ ChunksFollow(h'.todo) /\ ChunksAscend(h'.todo) /\ Head(h'.todo) = h.todo[2]
            /\ \A k \in 1 .. Len(h'.todo) :
                 k + 1 \in 2 .. Len(h.todo) /\ h'.todo[k] = h.todo[k + 1]
        BY <1>5, <2>3, <3>1, RestOfUpdate DEF ChunkInv
      <3>3. ASSUME InUpdate' PROVE InUpdate
        <4>1. IsChunk(h.todo[2])
          BY <2>1, <3>2, <3>3 DEF InUpdate
        <4>2. 2 \in 2 .. Len(h.todo) /\ 2 - 1 = 1
          BY <2>3, <3>1
        <4>3. h.todo[1].cmd \in {"OTA_BEGIN", "OTA_DATA"}
          BY <1>5, <4>1, <4>2 DEF ChunkInv, ChunksFollow
        <4>4. TookEffect(h.id)
          BY <2>3, <3>1, <4>3, AcceptedIsTrue DEF TrueAckInv, IsCommand, Protected
        <4>. QED BY <2>3, <3>1, <4>3, <4>4 DEF InUpdate, IsChunk
      <3>4. ASSUME InUpdate', NEW k \in 1 .. Len(h'.todo), IsChunk(h'.todo[k])
            PROVE  /\ Ahead(h.todo[k].payload)'
                   /\ \A q \in On(toDevice') :
                        IsChunk(q) /\ q.id # h'.id => q.payload.offset < h'.todo[k].payload.offset
        <4>. DEFINE j == k + 1
                    p == h.todo[j].payload
        <4>1. j \in 2 .. Len(h.todo) /\ h'.todo[k] = h.todo[j] /\ IsChunk(h.todo[j])
          BY <3>2, <3>4
        <4>2. j \in 1 .. Len(h.todo) /\ j # 1 /\ 1 < j /\ 1 \in 1 .. Len(h.todo)
          BY <3>1, <4>1
        <4>. HIDE DEF j
        <4>3. /\ Ahead(p)
              /\ \A q \in On(toDevice) : IsChunk(q) /\ q.id # h.id => q.payload.offset < p.offset
          BY <1>5, <3>3, <3>4, <4>1, <4>2 DEF ChunkInv
        <4>4. ASSUME NEW q \in On(toDevice), IsChunk(q), q.id = h.id
              PROVE  q.payload.offset < p.offset
          <5>1. q.cmd = h.todo[1].cmd /\ q.payload = h.todo[1].payload
            BY <2>3, <3>1, <4>4 DEF OrderInv, OneCommand, IsCommand, IsChunk, Protected
          <5>2. IsChunk(h.todo[1])
            BY <4>4, <5>1 DEF IsChunk
          <5>. QED BY <1>5, <4>1, <4>2, <5>1, <5>2 DEF ChunkInv, ChunksAscend
        <4>5. Ahead(h.todo[k].payload)'
          BY <4>1, <4>3 DEF Ahead
        <4>. QED BY <1>2, <4>1, <4>3, <4>4, <4>5
      <3>. QED BY <3>2, <3>4 DEF ChunkInv, ChunksFollow, ChunksAscend
    <2>. QED BY <1>8, <2>2, <2>3 DEF NewRequest
  <1>. QED BY <1>6, <1>7, <1>8, SameOrNewer

\* What the operator is told, and on what ground.
Told(outcome) ==
    /\ Waiting /\ Tell(outcome)
    /\ outcome \in {"ACK", "NACK"} => Accepts(outcome)

\* The operator hears a verdict only on the ground of an accepted answer.
LEMMA ToldWhy ==
    ASSUME LineInv, HostMoves
    PROVE  UNCHANGED told \/ \E outcome \in Outcomes : Told(outcome)
  <1>1. CASE Operate
    BY <1>1 DEF Operate, StartOperation
  <1>2. CASE Timeout
    BY <1>2 DEF Timeout, HostTimeout, Fail, Told, Outcomes
  <1>3. CASE TakeOver
    BY <1>3 DEF TakeOver, ClientRestarts, Told, Outcomes
  <1>4. CASE Receive
    <2>1. PICK r \in On(toHost) : HostReceives(r)
      BY <1>4, TakenOff DEF Receive, LineInv
    <2>2. CASE UNCHANGED told \/ Fail(h, "NO_SESSION") \/ Fail(h, "UNVERIFIED")
      BY <2>1, <2>2 DEF HostReceives, Fail, Told, Outcomes
    <2>3. ASSUME r.seq = h.pkt.seq, h.phase = "COMMAND", NEW kind \in {"ACK", "NACK"},
                 r.kind = kind, ~NeedsTag(h.pkt.cmd) \/ _verified_response(r), Tell(kind)
          PROVE  \E outcome \in Outcomes : Told(outcome)
      BY <2>1, <2>3 DEF HostReceives, Told, Accepts, Outcomes
    <2>4. CASE r.seq = h.pkt.seq /\ OnCommandAnswer(r)
      BY <2>2, <2>3, <2>4 DEF OnCommandAnswer, Fail
    <2>. QED BY <2>1, <2>2, <2>4 DEF HostReceives, OnChallengeAnswer, OnProofAnswer, hostVars
  <1>. QED BY <1>1, <1>2, <1>3, <1>4 DEF HostMoves

\* What the operator hears goes to the end of what he has heard.
LEMMA ToldLast ==
    ASSUME HostInv, NEW outcome \in Outcomes, Told(outcome)
    PROVE  /\ Len(told) \in Nat /\ Len(told') = Len(told) + 1 /\ Len(told') = h.id
           /\ \A id \in 1 .. Len(told) : told'[id] = told[id]
           /\ told'[h.id].cmd = Head(h.todo).cmd /\ told'[h.id].outcome = outcome
  <1>. DEFINE T == [cmd : Protected \cup {"PING"}, outcome : Outcomes]
              verdict == [cmd |-> Head(h.todo).cmd, outcome |-> outcome]
  <1>1. Waiting /\ told' = Append(told, verdict)
    BY DEF Told, Tell
  <1>2. told \in Seq(T) /\ Len(told) = h.id - 1 /\ h.id \in Nat
    BY <1>1 DEF HostInv, Hosts
  <1>3. verdict \in T
    BY <1>1, FirstRequest
  <1>4. verdict.cmd = Head(h.todo).cmd /\ verdict.outcome = outcome
    OBVIOUS
  <1>. HIDE DEF verdict, T
  <1>5. /\ Len(told') = Len(told) + 1 /\ told'[Len(told) + 1] = verdict
        /\ \A id \in 1 .. Len(told) : told'[id] = told[id]
    BY <1>1, <1>2, <1>3, Sent
  <1>6. Len(told) \in Nat /\ Len(told) + 1 = h.id
    BY <1>2
  <1>. QED BY <1>4, <1>5, <1>6

\* The host keeps the acknowledgements true.
LEMMA HostTrueAck ==
    ASSUME LinkInv, LinkInv', FewRequests', OneClient, TrueAckInv, Counts, HostMoves
    PROVE  TrueAckInv'
  <1>1. /\ HostInv /\ LineInv /\ NonceInv /\ OrderInv /\ WaitInv /\ EffectInv
        /\ HostInv' /\ LineInv' /\ NonceInv' /\ OrderInv'
    BY DEF LinkInv, TrueAckInv
  <1>2. /\ HostStep /\ On(toHost') \subseteq On(toHost)
        /\ UNCHANGED <<deviceVars, s_auth, log>>
    BY <1>1, HostSteps
  <1>3. clients' \in Nat \ {0}
    BY <1>1 DEF WaitInv, HostMoves, Operate, Timeout, Receive, TakeOver, linkVars
  <1>4. WaitInv'
    BY <1>1, <1>2, <1>3, WaitHost
  <1>5. UNCHANGED toDevice \/ (HostSends /\ On(toDevice') = On(toDevice) \cup {h'.pkt})
    <2>1. UNCHANGED toDevice \/ HostSends
      BY <1>1, <1>2, HostSendsOrNot
    <2>2. HostSends => On(toDevice') = On(toDevice) \cup {h'.pkt}
      BY <1>1, Sent DEF HostSends, Sends, LineInv
    <2>. QED BY <2>1, <2>2
  <1>6. \A q \in On(toDevice') : Sound(q)'
    <2>1. ASSUME NEW q \in On(toDevice) PROVE Sound(q)'
      BY <1>1, <1>2, SoundKept DEF TrueAckInv
    <2>2. HostSends => Sound(h.pkt)'
      BY <1>1, <1>4, SoundSent DEF HostSends, Sends
    <2>. QED BY <1>5, <2>1, <2>2 DEF Sound
  <1>7. \A r \in On(toHost') \cup Cached' : Truthful(r)'
    <2>1. ASSUME NEW r \in On(toHost) \cup Cached PROVE Truthful(r)'
      BY <1>1, <1>2, TruthfulKept DEF TrueAckInv
    <2>2. Cached' = Cached
      BY <1>2 DEF Cached
    <2>. QED BY <1>2, <2>1, <2>2
  <1>8. ChunkInv'
    BY <1>1, <1>2, ChunksHost DEF deviceVars, ramVars
  <1>9. \A id : TookEffect(id)' <=> TookEffect(id)
    BY <1>2 DEF TookEffect
  <1>10. EffectInv'
    <2>1. h.id \in Nat /\ h'.id \in Nat /\ h'.id >= h.id
      BY <1>1, <1>2, HostSendsOrNot
    <2>2. \A i \in 1 .. Len(log) : log[i].id \in Nat
      BY <1>1, LogEntries
    <2>3. ASSUME NEW i \in 1 .. Len(log)
          PROVE  log[i].id <= h'.id /\ \A q \in On(toDevice') : log[i].id <= q.id
      <3>1. log[i].id <= h.id /\ \A q \in On(toDevice) : log[i].id <= q.id
        BY <1>1 DEF EffectInv
      <3>2. log[i].id <= h'.id
        BY <2>1, <2>2, <3>1
      <3>. QED BY <1>5, <3>1, <3>2 DEF HostSends, Sends
    <2>4. ASSUME Waiting', TookEffect(h.id)' PROVE IsCommand(Head(h'.todo))
      <3>1. PICK id : id = h'.id
        OBVIOUS
      <3>2. TookEffect(id)
        BY <1>9, <2>4, <3>1 DEF TookEffect
      <3>3. id <= h.id
        BY <1>1, <3>2, EffectsAreOld
      <3>4. Waiting /\ h'.id = h.id /\ h'.todo = h.todo
        BY <1>1, <1>2, <2>1, <2>4, <3>1, <3>3, SameOrNewer
      <3>. QED BY <1>1, <3>1, <3>2, <3>4 DEF EffectInv
    <2>. QED BY <1>2, <2>3, <2>4 DEF EffectInv
  <1>11. AckIsTrue'
    <2>1. CASE UNCHANGED told
      BY <1>9, <2>1 DEF TrueAckInv, AckIsTrue
    <2>2. ASSUME NEW outcome \in Outcomes, Told(outcome) PROVE AckIsTrue'
      <3>1. /\ Len(told) \in Nat /\ Len(told') = Len(told) + 1 /\ Len(told') = h.id
            /\ \A id \in 1 .. Len(told) : told'[id] = told[id]
            /\ told'[h.id].cmd = Head(h.todo).cmd /\ told'[h.id].outcome = outcome
        BY <1>1, <2>2, ToldLast
      <3>2. outcome = "ACK" /\ Head(h.todo).cmd \in Protected => TookEffect(h.id)
        BY <1>1, <2>2, AcceptedIsTrue DEF Told, TrueAckInv, IsCommand
      <3>3. ASSUME NEW id \in 1 .. Len(told'), told'[id].outcome = "ACK",
                   told'[id].cmd \in Protected
            PROVE  TookEffect(id)
        <4>1. CASE id \in 1 .. Len(told)
          BY <3>1, <3>3, <4>1 DEF TrueAckInv, AckIsTrue
        <4>2. CASE id = h.id
          BY <3>1, <3>2, <3>3, <4>2
        <4>. QED BY <3>1, <4>1, <4>2
      <3>. QED BY <1>9, <3>3 DEF AckIsTrue
    <2>. QED BY <1>1, <2>1, <2>2, ToldWhy
  <1>. QED BY <1>4, <1>6, <1>7, <1>8, <1>10, <1>11 DEF TrueAckInv

-----------------------------------------------------------------------------
(***************************************************************************)
(* The device.                                                             *)
(***************************************************************************)
\* No command takes effect.
SameEffects ==
    Len(log') = Len(log) /\ \A i \in 1 .. Len(log) : log'[i].id = log[i].id

\* The chunks to come stay ahead of the device.
StayAhead == \A p : Ahead(p) => Ahead(p)'

\* Responses that are not new, or true.
TrueAnswers == \A r \in On(toHost') \cup Cached' : r \in On(toHost) \cup Cached \/ Truthful(r)'

\* The device and the line keep what stays as it was, whatever else happens.
LEMMA DeviceTrueAck ==
    ASSUME LinkInv, TrueAckInv, UNCHANGED <<h, told, clients, since>>,
           On(toDevice') \subseteq On(toDevice),
           \A id : TookEffect(id) => TookEffect(id)', TrueAnswers, ChunkInv', EffectInv'
    PROVE  TrueAckInv'
  <1>1. \A q \in On(toDevice') : Sound(q)'
    BY DEF TrueAckInv, Sound, Used, Authenticating, InSession, Ours, Apart, Waiting
  <1>2. \A r : Truthful(r) => Truthful(r)'
    <2>1. PICK id : id = h.id
      OBVIOUS
    <2>2. TookEffect(h.id) => TookEffect(h.id)'
      <3>1. TookEffect(id) => TookEffect(id)'
        OBVIOUS
      <3>. QED BY <2>1, <3>1 DEF TookEffect
    <2>. QED BY <2>2 DEF Truthful, Used, Authenticating, InSession, ToUs, Apart, Waiting
  <1>3. \A r \in On(toHost') \cup Cached' : Truthful(r)'
    BY <1>2 DEF TrueAckInv, TrueAnswers
  <1>4. WaitInv'
    BY DEF TrueAckInv, WaitInv, Waiting, Authenticating, InSession
  <1>5. AckIsTrue'
    BY DEF TrueAckInv, AckIsTrue
  <1>. QED BY <1>1, <1>3, <1>4, <1>5 DEF TrueAckInv

\* A step that leaves the client alone keeps what holds of packets and answers.
LEMMA QuietTrueAck ==
    ASSUME LinkInv, TrueAckInv, UNCHANGED <<h, told, clients, since>>,
           On(toDevice') \subseteq On(toDevice),
           SameEffects, StayAhead, TrueAnswers
    PROVE  TrueAckInv'
  <1>1. \A id : TookEffect(id)' <=> TookEffect(id)
    BY DEF SameEffects, TookEffect
  <1>2. TookEffect(h.id)' <=> TookEffect(h.id)
    <2>1. PICK id : id = h.id
      OBVIOUS
    <2>2. TookEffect(id)' <=> TookEffect(id)
      BY <1>1
    <2>. QED BY <2>1, <2>2 DEF TookEffect
  <1>3. ChunkInv'
    <2>1. (ChunksFollow(h.todo) /\ ChunksAscend(h.todo))' /\ (InUpdate' => InUpdate)
      BY <1>2 DEF TrueAckInv, ChunkInv, ChunksFollow, ChunksAscend, InUpdate, Waiting
    <2>2. ASSUME InUpdate', NEW k \in 1 .. Len(h.todo), IsChunk(h.todo[k])
          PROVE  /\ (k = 1 /\ TookEffect(h.id)') \/ Ahead(h.todo[k].payload)'
                 /\ \A q \in On(toDevice') :
                      IsChunk(q) /\ q.id # h.id => q.payload.offset < h.todo[k].payload.offset
      <3>1. PICK p : p = h.todo[k].payload
        OBVIOUS
      <3>2. /\ (k = 1 /\ TookEffect(h.id)) \/ Ahead(p)
            /\ \A q \in On(toDevice) : IsChunk(q) /\ q.id # h.id => q.payload.offset < p.offset
        BY <2>1, <2>2, <3>1 DEF TrueAckInv, ChunkInv
      <3>3. Ahead(p) => Ahead(p)'
        BY DEF StayAhead
      <3>. QED BY <1>2, <3>1, <3>2, <3>3 DEF Ahead
    <2>. QED BY <2>1, <2>2 DEF ChunkInv
  <1>4. EffectInv'
    BY <1>2 DEF TrueAckInv, EffectInv, Waiting, SameEffects
  <1>. QED BY <1>1, <1>3, <1>4, DeviceTrueAck

\* The line loses a packet, the health task runs, or nothing happens.
LEMMA IdleTrueAck ==
    ASSUME LinkInv, TrueAckInv, UNCHANGED since,
           LoseRequest \/ LoseResponse \/ HealthTask \/ UNCHANGED vars
    PROVE  TrueAckInv'
  <1>1. /\ UNCHANGED <<h, told, clients, log, s_ota, s_auth>>
        /\ UNCHANGED toDevice \/ (toDevice # <<>> /\ toDevice' = Tail(toDevice))
        /\ UNCHANGED toHost \/ (toHost # <<>> /\ toHost' = Tail(toHost))
    BY DEF LoseRequest, LoseResponse, HealthTask, HealthCheck, HealthConfirm, HealthFails,
           vars, hostVars, linkVars, deviceVars, ramVars
  <1>2. On(toDevice') \subseteq On(toDevice) /\ On(toHost') \subseteq On(toHost)
    BY <1>1, TakenOff DEF LinkInv, LineInv
  <1>3. SameEffects /\ StayAhead /\ TrueAnswers
    BY <1>1, <1>2 DEF SameEffects, StayAhead, Ahead, TrueAnswers, Cached
  <1>. QED BY <1>1, <1>2, <1>3, QuietTrueAck

\* A device without a session remembers no response.
LEMMA NothingCached ==
    ASSUME s_auth'.cache = EmptyCache
    PROVE  Cached' = {}
  BY DEF Cached, EmptyCache, NoEntry

\* A reset.
LEMMA ResetTrueAck ==
    ASSUME LinkInv, TrueAckInv, UNCHANGED since, CarryOut \/ SpontaneousReset
    PROVE  TrueAckInv'
  <1>1. /\ s_auth' = ConfiguredAuth /\ toDevice' = <<>>
        /\ UNCHANGED <<toHost, h, told, clients, log>>
    BY DEF CarryOut, SpontaneousReset, LinkReset
  <1>2. s_ota' = ZeroOta
    BY ResetSteps DEF CarryOut, SpontaneousReset, ResetStep, RamReset
  <1>3. On(toDevice') = {}
    <2>1. Len(<< >>) = 0
      OBVIOUS
    <2>. QED BY <1>1, <2>1 DEF On
  <1>4. Cached' = {}
    BY <1>1, NothingCached DEF ConfiguredAuth
  <1>5. SameEffects /\ StayAhead /\ TrueAnswers
    BY <1>1, <1>2, <1>4 DEF SameEffects, StayAhead, Ahead, ZeroOta, TrueAnswers
  <1>. QED BY <1>1, <1>3, <1>5, QuietTrueAck

\* A rollback that fails.
LEMMA DropTrueAck ==
    ASSUME LinkInv, TrueAckInv, UNCHANGED since, DropRollback
    PROVE  TrueAckInv'
  <1>1. UNCHANGED <<h, told, clients, s_ota, s_auth, toDevice, toHost>>
    BY DEF DropRollback, RollbackFails, hostVars
  <1>2. SameEffects /\ StayAhead /\ TrueAnswers
    BY <1>1, DroppedLog DEF SameEffects, StayAhead, Ahead, TrueAnswers, Cached
  <1>. QED BY <1>1, <1>2, QuietTrueAck

\* One response more.
LEMMA OneMore ==
    ASSUME LineInv, NEW r \in Answers, Send(r)
    PROVE  toHost' = Append(toHost, r) /\ On(toHost') = On(toHost) \cup {r}
  BY Sent DEF Send, LineInv

\* The device answers a challenge or a proof.
LEMMA AuthTrueAck ==
    ASSUME LinkInv, TrueAckInv, UNCHANGED since, TakeAuth
    PROVE  TrueAckInv'
  <1>1. PICK packet : packet = Head(toDevice)
    OBVIOUS
  <1>2. /\ toDevice # <<>> /\ Taken(packet) /\ UNCHANGED <<deviceVars, log>>
        /\ packet.cmd \in AuthCommands
    BY <1>1 DEF TakeAuth, AuthCommands
  <1>3. /\ packet \in SentPackets /\ packet \in On(toDevice) /\ toDevice' = Tail(toDevice)
        /\ packet.seq \in Sequence /\ UNCHANGED <<h, told, clients>> /\ packet.key \in Keys
    BY <1>1, <1>2, HeadTaken DEF Taken, SentPackets
  <1>4. UseAuth
    BY <1>2, <1>3 DEF TrueAckInv, Sound, AuthCommands, Protected
  <1>5. LineInv /\ challenges \in Nat
    BY DEF LinkInv, LineInv
  <1>6. On(toDevice') \subseteq On(toDevice)
    BY <1>2, <1>3, <1>5, TakenOff DEF LineInv
  <1>7. \E r \in Answers : r.cmd \notin Protected /\ Send(r)
    <2>1. \A error \in Errors :
            PlainResponse(packet.seq, error) \in Answers
            /\ PlainResponse(packet.seq, error).cmd \notin Protected
      BY <1>3, PlainAnswer DEF PlainResponse, Response, Protected
    <2>2. "UNKNOWN_COMMAND" \in Errors /\ "AUTH_REQUIRED" \in Errors /\ "OK" \in Errors
      BY DEF Errors, Results
    <2>. DEFINE key == hmac_prefixed_nonce_pair(packet.key.client, challenges + 1)
                r == Response("ACK", packet.seq, "OK", key, "AUTH_CHALLENGE")
    <2>3. r \in Answers /\ r.cmd \notin Protected
      <3>1. key \in Keys
        BY <1>3, <1>5 DEF Keys, hmac_prefixed_nonce_pair
      <3>. HIDE DEF key
      <3>. QED BY <1>3, <2>2, <3>1 DEF Response, Answers, Responses, Protected
    <2>4. CASE HandleChallenge(packet, challenges + 1)
      <3>1. Send(r) \/ Send(PlainResponse(packet.seq, "UNKNOWN_COMMAND"))
        BY <2>4 DEF HandleChallenge
      <3>. QED BY <2>1, <2>2, <2>3, <3>1
    <2>5. CASE HandleProof(packet)
      <3>1. \E error \in Errors : Send(PlainResponse(packet.seq, error))
        BY <2>2, <2>5 DEF HandleProof
      <3>. QED BY <2>1, <3>1
    <2>. QED BY <1>1, <2>4, <2>5 DEF TakeAuth
  <1>8. Cached' \subseteq Cached
    <2>1. s_auth'.cache = EmptyCache \/ s_auth'.cache = s_auth.cache
      <3>1. s_auth \in AuthStates
        BY <1>5 DEF LineInv
      <3>2. \/ UNCHANGED s_auth
            \/ \E key : s_auth' = [ConfiguredAuth EXCEPT !.pending = TRUE, !.key = key]
            \/ s_auth' = [s_auth EXCEPT !.pending = FALSE, !.authenticated = TRUE]
        BY <1>1 DEF TakeAuth, HandleChallenge, HandleProof
      <3>. QED BY <3>1, <3>2 DEF AuthStates, ConfiguredAuth
    <2>. QED BY <2>1, NothingCached DEF Cached
  <1>9. TrueAnswers
    <2>1. PICK r \in Answers : r.cmd \notin Protected /\ Send(r)
      BY <1>7
    <2>2. On(toHost') = On(toHost) \cup {r}
      BY <1>5, <2>1, OneMore
    <2>3. Truthful(r)'
      BY <1>4, <2>1 DEF Truthful, ToUs
    <2>. QED BY <1>8, <2>2, <2>3 DEF TrueAnswers
  <1>10. SameEffects /\ StayAhead
    BY <1>2 DEF SameEffects, StayAhead, Ahead, deviceVars, ramVars
  <1>. QED BY <1>3, <1>6, <1>9, <1>10, QuietTrueAck

\* The head of the line is a sound packet of a request no newer than the others.
LEMMA HeadIsSound ==
    ASSUME LinkInv, TrueAckInv, toDevice # <<>>, NEW packet, packet = Head(toDevice), Taken(packet)
    PROVE  /\ packet \in SentPackets /\ packet \in On(toDevice) /\ Sound(packet)
           /\ packet.seq \in Sequence /\ packet.id \in 1 .. h.id /\ h.id \in Nat
           /\ toDevice' = Tail(toDevice) /\ On(toDevice') \subseteq On(toDevice)
           /\ \A q \in On(toDevice') : q.id \in Nat /\ packet.id <= q.id /\ q.id <= h.id
           /\ delayed = "NONE" /\ UNCHANGED <<h, told, boots, clients>>
  <1>1. /\ packet \in SentPackets /\ packet \in On(toDevice) /\ packet.seq \in Sequence
        /\ toDevice' = Tail(toDevice) /\ delayed = "NONE" /\ UNCHANGED <<h, told, boots, clients>>
    BY HeadTaken DEF Taken
  <1>2. On(toDevice') \subseteq On(toDevice)
    BY <1>1, TakenOff DEF LinkInv, LineInv
  <1>3. /\ packet.id \in Nat /\ packet.id <= h.id
        /\ \A q \in On(toDevice) : q.id \in Nat /\ packet.id <= q.id
    BY HeadIsOldest
  <1>4. \A q \in On(toDevice) : q.id <= h.id
    BY DEF LinkInv, OrderInv, LineInOrder
  <1>5. Sound(packet) /\ packet.id >= 1 /\ h.id \in Nat
    BY <1>1, Counters DEF TrueAckInv, Sound, LinkInv
  <1>6. packet.id \in 1 .. h.id
    BY <1>3, <1>5
  <1>. QED BY <1>1, <1>2, <1>3, <1>4, <1>5, <1>6

\* The answer to a packet of the session, with the number the client waits for,
\* is that to the client's request.
LEMMA AnswerToOurs ==
    ASSUME LinkInv, TrueAckInv, FewRequests, NEW packet, Sound(packet), packet.id \in 1 .. h.id,
           InSession, Ours(packet)
    PROVE  /\ \E id \in 1 .. h.id : Apart(id, packet.seq)
           /\ packet.seq = h.seq => packet.id = h.id
  <1>1. Apart(packet.id, packet.seq)
    BY DEF Sound
  <1>2. HostInv /\ since \in Nat
    BY DEF LinkInv, TrueAckInv, WaitInv
  <1>3. packet.seq = h.seq => packet.id = h.id
    <2>1. PICK id \in 1 .. h.id : id = packet.id
      OBVIOUS
    <2>2. packet.seq = h.seq => Apart(id, h.seq)
      BY <1>1, <2>1 DEF Apart
    <2>. QED BY <1>2, <2>1, <2>2, NumberNames
  <1>. QED BY <1>1, <1>3

\* Commands outside the gate.
LEMMA OtherTrueAck ==
    ASSUME LinkInv, TrueAckInv, FewRequests, UNCHANGED since, TakeOther
    PROVE  TrueAckInv'
  <1>1. PICK packet : packet = Head(toDevice)
    OBVIOUS
  <1>2. /\ toDevice # <<>> /\ Taken(packet) /\ HandleOther(packet) /\ UNCHANGED log
        /\ packet.cmd \notin Protected
    BY <1>1 DEF TakeOther
  <1>3. /\ Sound(packet) /\ packet.seq \in Sequence /\ packet.id \in 1 .. h.id
        /\ On(toDevice') \subseteq On(toDevice) /\ UNCHANGED <<h, told, clients>>
    BY <1>1, <1>2, HeadIsSound
  <1>4. LineInv
    BY DEF LinkInv
  <1>5. PICK error \in Errors : Send(PlainResponse(packet.seq, error))
    BY <1>2 DEF HandleOther, Errors, Results
  <1>. DEFINE r == PlainResponse(packet.seq, error)
  <1>6. r \in Answers /\ r.cmd \notin Protected /\ r.seq = packet.seq
    BY <1>3, PlainAnswer DEF PlainResponse, Response, Protected
  <1>. HIDE DEF r
  <1>7. On(toHost') = On(toHost) \cup {r}
    BY <1>4, <1>5, <1>6, OneMore DEF r
  <1>8. Truthful(r)
    <2>1. CASE UseAuth
      BY <1>6, <2>1 DEF Truthful, ToUs
    <2>2. CASE ~UseAuth
      <3>1. InSession /\ Ours(packet)
        BY <2>2 DEF InSession, Ours
      <3>2. /\ \E id \in 1 .. h.id : Apart(id, packet.seq)
            /\ packet.seq = h.seq => packet.id = h.id
        BY <1>3, <3>1, AnswerToOurs
      <3>3. Waiting /\ packet.id = h.id => ~IsCommand(Head(h.todo))
        BY <1>2, <1>3, <2>2 DEF Sound, IsCommand
      <3>. QED BY <1>6, <3>2, <3>3 DEF Truthful
    <2>. QED BY <2>1, <2>2
  <1>9. TrueAnswers
    <2>1. Cached' = Cached
      BY <1>2 DEF HandleOther, Cached
    <2>2. Truthful(r)'
      BY <1>2, <1>3, <1>8
         DEF Truthful, Used, Authenticating, InSession, ToUs, Apart, Waiting, TookEffect
    <2>. QED BY <1>7, <2>1, <2>2 DEF TrueAnswers
  <1>10. SameEffects /\ StayAhead
    BY <1>2 DEF HandleOther, SameEffects, StayAhead, Ahead, deviceVars, ramVars
  <1>. QED BY <1>3, <1>9, <1>10, QuietTrueAck

\* What auth_send_response sends and remembers.
Responds(packet, error, r) ==
    /\ r \in Answers /\ toHost' = Append(toHost, r) /\ On(toHost') = On(toHost) \cup {r}
    /\ r.kind = (IF error = "OK" THEN "ACK" ELSE "NACK") /\ r.seq = packet.seq /\ r.error = error
    /\ \/ /\ AuthRequired /\ s_auth.authenticated
          /\ r.key = s_auth.key /\ r.cmd = packet.cmd
          /\ s_auth'.cache = [s_auth.cache EXCEPT ![s_auth.next] = Entry(packet, r)]
       \/ /\ ~(AuthRequired /\ s_auth.authenticated)
          /\ r.key = NoKey /\ r.cmd = "NONE" /\ UNCHANGED s_auth

\* auth_send_response answers with the session's tag and remembers it, or plainly.
LEMMA WhatIsSent ==
    ASSUME LineInv, NEW packet \in SentPackets, packet.cmd \in Protected, NEW error \in Errors,
           auth_send_response(packet, error)
    PROVE  \E r : Responds(packet, error, r)
  <1>. DEFINE plain == PlainResponse(packet.seq, error)
  <1>1. packet.seq \in Sequence /\ s_auth \in AuthStates /\ s_auth.key \in Keys
    BY DEF SentPackets, LineInv, AuthStates
  <1>2. /\ plain \in Answers /\ plain.seq = packet.seq /\ plain.error = error
        /\ plain.kind = (IF error = "OK" THEN "ACK" ELSE "NACK")
        /\ plain.key = NoKey /\ plain.cmd = "NONE"
    BY <1>1, PlainAnswer DEF PlainResponse, Response
  <1>. HIDE DEF plain
  <1>3. CASE AuthRequired /\ s_auth.authenticated
    <2>. DEFINE r == compute_response_tag(plain, s_auth.key, packet.cmd)
    <2>1. /\ r \in Answers /\ r.seq = plain.seq /\ r.error = plain.error /\ r.kind = plain.kind
          /\ r.key = s_auth.key /\ r.cmd = packet.cmd
      BY <1>1, <1>2 DEF compute_response_tag, Answers, Responses
    <2>2. Send(r) /\ s_auth' = [s_auth EXCEPT !.cache[s_auth.next] = Entry(packet, r),
                                              !.next = (s_auth.next % CacheSize) + 1]
      BY <1>3 DEF auth_send_response, plain
    <2>. HIDE DEF r
    <2>3. s_auth'.cache = [s_auth.cache EXCEPT ![s_auth.next] = Entry(packet, r)]
      BY <1>1, <2>2 DEF AuthStates
    <2>4. toHost' = Append(toHost, r) /\ On(toHost') = On(toHost) \cup {r}
      BY <2>1, <2>2, OneMore
    <2>. QED BY <1>2, <1>3, <2>1, <2>3, <2>4 DEF Responds
  <1>4. CASE ~(AuthRequired /\ s_auth.authenticated)
    <2>1. Send(plain) /\ UNCHANGED s_auth
      BY <1>4 DEF auth_send_response, plain
    <2>2. toHost' = Append(toHost, plain) /\ On(toHost') = On(toHost) \cup {plain}
      BY <1>2, <2>1, OneMore
    <2>. QED BY <1>2, <1>4, <2>1, <2>2 DEF Responds
  <1>. QED BY <1>3, <1>4

\* The ring gains at most the answer that is given.
LEMMA OneMoreCached ==
    ASSUME LineInv, NEW packet, NEW error, NEW r, Responds(packet, error, r)
    PROVE  Cached' \subseteq Cached \cup {r}
  <1>1. CASE UNCHANGED s_auth
    BY <1>1 DEF Cached
  <1>2. CASE s_auth'.cache = [s_auth.cache EXCEPT ![s_auth.next] = Entry(packet, r)]
    <2>1. Entry(packet, r).response = r
      BY DEF Entry
    <2>2. s_auth.cache = [i \in 1 .. CacheSize |-> s_auth.cache[i]] /\ s_auth.next \in 1 .. CacheSize
      BY DEF LineInv, AuthStates
    <2>3. \A i \in 1 .. CacheSize :
            s_auth'.cache[i] = IF i = s_auth.next THEN Entry(packet, r) ELSE s_auth.cache[i]
      BY <1>2, <2>2
    <2>. QED BY <2>1, <2>3 DEF Cached
  <1>. QED BY <1>1, <1>2 DEF Responds

\* The first entry of the cache that matches a packet.
LEMMA FirstHitHits ==
    ASSUME NEW packet, Hits(packet) # {}
    PROVE  FirstHit(packet) \in Hits(packet)
  <1>1. Hits(packet) \subseteq Nat
    BY AuthAssumption DEF Hits
  <1>2. \E x \in Hits(packet) : \A y \in Hits(packet) : x <= y
    BY <1>1, LeastNat
  <1>. QED BY <1>2, Zenon DEF FirstHit

\* A hit in the ring is one of its answers.
LEMMA HitInCache ==
    ASSUME NEW packet, auth_check_replay(packet) = "REPLAYED"
    PROVE  /\ FirstHit(packet) \in 1 .. CacheSize /\ s_auth.cache[FirstHit(packet)].valid
           /\ s_auth.cache[FirstHit(packet)].response \in Cached
  <1>1. FirstHit(packet) \in Hits(packet)
    BY FirstHitHits DEF auth_check_replay
  <1>2. FirstHit(packet) \in 1 .. CacheSize /\ s_auth.cache[FirstHit(packet)].valid
    BY <1>1 DEF Hits
  <1>. QED BY <1>2 DEF Cached

\* A command that is not admitted.
LEMMA UnadmittedTrueAck ==
    ASSUME LinkInv, TrueAckInv, UNCHANGED since, TakeUnadmitted
    PROVE  TrueAckInv'
  <1>1. PICK packet : packet = Head(toDevice)
    OBVIOUS
  <1>2. /\ toDevice # <<>> /\ Taken(packet) /\ HandleUnadmitted(packet) /\ UNCHANGED log
        /\ packet.cmd \in Protected
    BY <1>1 DEF TakeUnadmitted
  <1>3. /\ packet \in SentPackets
        /\ On(toDevice') \subseteq On(toDevice) /\ UNCHANGED <<h, told, clients>>
    BY <1>1, <1>2, HeadIsSound
  <1>4. LineInv
    BY DEF LinkInv
  <1>5. TrueAnswers
    <2>1. CASE auth_check_replay(packet) = "REPLAYED"
      <3>. DEFINE r == s_auth.cache[FirstHit(packet)].response
      <3>1. Send(r) /\ UNCHANGED s_auth
        BY <1>2, <2>1 DEF HandleUnadmitted
      <3>2. r \in Cached /\ r \in Answers
        BY <1>4, <2>1, HitInCache, Fields
      <3>. HIDE DEF r
      <3>3. On(toHost') = On(toHost) \cup {r} /\ Cached' = Cached
        BY <1>4, <3>1, <3>2, OneMore DEF Cached
      <3>. QED BY <3>2, <3>3 DEF TrueAnswers
    <2>2. CASE auth_check_replay(packet) # "REPLAYED"
      <3>1. auth_send_response(packet, "AUTH_REQUIRED")
        BY <1>2, <2>2 DEF HandleUnadmitted
      <3>2. PICK r : Responds(packet, "AUTH_REQUIRED", r)
        BY <1>2, <1>3, <1>4, <3>1, WhatIsSent DEF Errors
      <3>3. r.kind = "NACK" /\ On(toHost') = On(toHost) \cup {r}
        BY <3>2 DEF Responds
      <3>4. Truthful(r)'
        BY <3>3 DEF Truthful
      <3>5. Cached' \subseteq Cached \cup {r}
        BY <1>4, <3>2, OneMoreCached
      <3>. QED BY <3>3, <3>4, <3>5 DEF TrueAnswers
    <2>. QED BY <2>1, <2>2
  <1>6. SameEffects /\ StayAhead
    BY <1>2 DEF HandleUnadmitted, SameEffects, StayAhead, Ahead, deviceVars, ramVars
  <1>. QED BY <1>3, <1>5, <1>6, QuietTrueAck

\* What a command leaves of the OTA session.
LEMMA SessionAfter ==
    ASSUME NEW packet, NEW ret, Execute(packet, ret)
    PROVE  \/ UNCHANGED s_ota \/ s_ota' = ZeroOta
           \/ packet.cmd = "OTA_BEGIN" /\ s_ota' = NewSession(packet.payload)
           \/ /\ IsChunk(packet) /\ ret = "OK" /\ WriteVerdict(packet.payload) = "WRITE"
              /\ s_ota' = SessionWithChunk(packet.payload)
  <1>1. CASE packet.cmd = "OTA_BEGIN" /\ CmdBegin(packet.payload, ret)
    BY <1>1 DEF CmdBegin, ota_manager_begin, otaVars
  <1>2. CASE packet.cmd = "OTA_DATA" /\ CmdData(packet.payload, ret)
    BY <1>2 DEF CmdData, ota_manager_write_data, otaVars, IsChunk
  <1>3. CASE CmdEnd(TRUE, ret) \/ CmdAbort(TRUE, ret)
    BY <1>3 DEF CmdEnd, CmdAbort, ota_manager_end, ota_manager_abort, otaVars
  <1>4. CASE CmdReboot(TRUE, ret) \/ CmdRollback(TRUE, ret)
    BY <1>4 DEF CmdReboot, CmdRollback
  <1>. QED BY <1>1, <1>2, <1>3, <1>4 DEF Execute

\* Success takes effect, or repeats the chunk written last.
LEMMA SuccessTakesEffect ==
    ASSUME DeviceInv, NEW packet, packet.payload \in Payloads, Execute(packet, "OK"),
           delayed = "NONE", UNCHANGED deviceVars
    PROVE  /\ IsChunk(packet) /\ s_ota.active /\ packet.payload.data # <<>>
           /\ DuplicateOfLast(packet.payload)
  <1>1. UNCHANGED <<s_ota, delayed>>
    BY DEF deviceVars, ramVars
  <1>2. ~(packet.cmd = "OTA_BEGIN" /\ CmdBegin(packet.payload, "OK"))
    <2>1. PICK p : p = packet.payload
      OBVIOUS
    <2>2. BeginError(p) = "OK" => ~s_ota.active
      BY DEF BeginError
    <2>3. NewSession(p).active
      BY DEF NewSession
    <2>4. CmdBegin(p, "OK") => BeginError(p) = "OK" /\ s_ota' = NewSession(p)
      BY DEF CmdBegin, ota_manager_begin
    <2>. QED BY <1>1, <2>1, <2>2, <2>3, <2>4
  <1>3. ~CmdEnd(TRUE, "OK") /\ ~CmdAbort(TRUE, "OK")
    <2>1. ~ZeroOta.active
      BY DEF ZeroOta
    <2>2. EndError = "OK" => s_ota.active
      BY DEF EndError
    <2>. QED BY <1>1, <2>1, <2>2 DEF CmdEnd, CmdAbort, ota_manager_end, ota_manager_abort
  <1>4. ~CmdReboot(TRUE, "OK") /\ ~CmdRollback(TRUE, "OK")
    BY <1>1 DEF CmdReboot, CmdRollback
  <1>5. packet.cmd = "OTA_DATA" /\ CmdData(packet.payload, "OK")
    BY <1>2, <1>3, <1>4 DEF Execute
  <1>6. PICK p \in Payloads : p = packet.payload
    OBVIOUS
  <1>7. WriteVerdict(p) # "WRITE"
    <2>1. SUFFICES ASSUME WriteVerdict(p) = "WRITE" PROVE FALSE
      OBVIOUS
    <2>2. s_ota' = SessionWithChunk(p)
      BY <1>5, <1>6, <2>1 DEF CmdData, ota_manager_write_data
    <2>3. WriteVerdict(p)' # "WRITE"
      BY <2>1, <2>2, ChunkSpent DEF DeviceInv
    <2>. QED BY <1>1, <2>1, <2>3 DEF WriteVerdict, DuplicateOfLast
  <1>8. WriteVerdict(p) = "OK"
    BY <1>5, <1>6, <1>7 DEF CmdData, ota_manager_write_data
  <1>9. s_ota.active /\ p.data # <<>> /\ DuplicateOfLast(p)
    BY <1>8 DEF WriteVerdict
  <1>. QED BY <1>5, <1>6, <1>9 DEF IsChunk

\* A chunk that the device takes for the one it wrote last is no other request's.
LEMMA RepeatedChunkIsDone ==
    ASSUME LinkInv, TrueAckInv, Waiting, NEW packet \in On(toDevice), packet.id = h.id,
           IsChunk(packet), s_ota.active, packet.payload.data # <<>>,
           DuplicateOfLast(packet.payload)
    PROVE  TookEffect(h.id)
  <1>1. Head(h.todo) = h.todo[1] /\ Len(h.todo) \in Nat /\ Len(h.todo) > 0
    BY FirstRequest DEF LinkInv
  <1>2. packet.cmd = h.todo[1].cmd /\ packet.payload = h.todo[1].payload
    BY <1>1 DEF LinkInv, OrderInv, OneCommand, IsCommand, IsChunk, Protected
  <1>3. IsChunk(h.todo[1]) /\ InUpdate /\ 1 \in 1 .. Len(h.todo)
    BY <1>1, <1>2 DEF IsChunk, InUpdate
  <1>4. TookEffect(h.id) \/ Ahead(packet.payload)
    BY <1>2, <1>3 DEF TrueAckInv, ChunkInv
  <1>5. s_ota.last_chunk_offset \in Nat
    BY DEF LinkInv, DeviceInv, OtaInv, OtaTypeOK, OtaStates
  <1>. QED BY <1>4, <1>5 DEF Ahead, DuplicateOfLast

\* An admitted command that takes effect keeps the chunks to come ahead.
LEMMA ChunksAdmitted ==
    ASSUME LinkInv, TrueAckInv, toDevice # <<>>, NEW packet, packet = Head(toDevice), Taken(packet),
           packet.cmd \in Protected, NEW ret, Execute(packet, ret),
           \A id : TookEffect(id)' <=> TookEffect(id) \/ (ret = "OK" /\ id = packet.id),
           ret = "OK" => deviceVars' # deviceVars
    PROVE  ChunkInv'
  <1>1. /\ packet \in On(toDevice) /\ packet.id \in 1 .. h.id /\ h.id \in Nat
        /\ On(toDevice') \subseteq On(toDevice)
        /\ \A q \in On(toDevice') : q.id \in Nat /\ packet.id <= q.id /\ q.id <= h.id
        /\ delayed = "NONE" /\ UNCHANGED h
    BY HeadIsSound
  <1>2. TookEffect(h.id)' <=> TookEffect(h.id) \/ (ret = "OK" /\ packet.id = h.id)
    <2>1. PICK id : id = h.id
      OBVIOUS
    <2>2. TookEffect(id)' <=> TookEffect(id) \/ (ret = "OK" /\ id = packet.id)
      OBVIOUS
    <2>. QED BY <1>1, <2>1, <2>2 DEF TookEffect
  <1>3. ChunksFollow(h.todo) /\ ChunksAscend(h.todo)
    BY DEF TrueAckInv, ChunkInv
  <1>4. Waiting /\ packet.id = h.id =>
          packet.cmd = Head(h.todo).cmd /\ packet.payload = Head(h.todo).payload
    BY <1>1 DEF LinkInv, OrderInv, OneCommand, IsCommand
  <1>5. /\ s_ota' = NewSession(packet.payload) => \A p : Ahead(p)'
        /\ s_ota' = ZeroOta => \A p : Ahead(p)'
        /\ UNCHANGED s_ota => \A p : Ahead(p) => Ahead(p)'
        /\ s_ota' = SessionWithChunk(packet.payload) =>
             \A p : packet.payload.offset < p.offset => Ahead(p)'
    BY DEF Ahead, NewSession, ZeroOta, SessionWithChunk
  <1>6. ASSUME InUpdate', NEW k \in 1 .. Len(h.todo), IsChunk(h.todo[k])
        PROVE  /\ (k = 1 /\ TookEffect(h.id)') \/ Ahead(h.todo[k].payload)'
               /\ \A q \in On(toDevice') :
                    IsChunk(q) /\ q.id # h.id => q.payload.offset < h.todo[k].payload.offset
    <2>1. Waiting /\ Waiting'
      BY <1>1, <1>6 DEF InUpdate, Waiting
    <2>2. Head(h.todo) = h.todo[1] /\ Len(h.todo) \in Nat /\ 1 \in 1 .. Len(h.todo)
      BY <2>1, FirstRequest DEF LinkInv
    <2>3. PICK p : p = h.todo[k].payload
      OBVIOUS
    <2>4. InUpdate =>
            /\ (k = 1 /\ TookEffect(h.id)) \/ Ahead(p)
            /\ \A q \in On(toDevice) : IsChunk(q) /\ q.id # h.id => q.payload.offset < p.offset
      BY <1>6, <2>3 DEF TrueAckInv, ChunkInv
    <2>5. ~InUpdate => ret = "OK" /\ packet.id = h.id /\ packet.cmd = "OTA_BEGIN"
      BY <1>1, <1>2, <1>4, <1>6, <2>1 DEF InUpdate
    <2>6. \A q \in On(toDevice') : IsChunk(q) /\ q.id # h.id => q.payload.offset < p.offset
      <3>1. CASE InUpdate
        BY <1>1, <2>4, <3>1
      <3>2. CASE packet.id = h.id
        BY <1>1, <3>2
      <3>. QED BY <2>5, <3>1, <3>2
    <2>7. (k = 1 /\ TookEffect(h.id)') \/ Ahead(p)'
      <3>1. CASE ~InUpdate
        <4>1. CmdBegin(packet.payload, "OK")
          BY <2>5, <3>1 DEF Execute
        <4>2. s_ota' = NewSession(packet.payload)
          BY <2>5, <3>1, <4>1 DEF CmdBegin, ota_manager_begin, deviceVars, ramVars, otaVars
        <4>. QED BY <1>5, <4>2
      <3>2. CASE InUpdate /\ ~(s_ota' = SessionWithChunk(packet.payload) /\ IsChunk(packet) /\ ret = "OK")
        <4>1. \/ UNCHANGED s_ota \/ s_ota' = ZeroOta \/ s_ota' = NewSession(packet.payload)
          BY <3>2, SessionAfter
        <4>. QED BY <1>2, <1>5, <2>4, <3>2, <4>1
      <3>3. CASE InUpdate /\ s_ota' = SessionWithChunk(packet.payload) /\ IsChunk(packet) /\ ret = "OK"
        <4>1. CASE packet.id # h.id
          BY <1>1, <1>5, <2>4, <3>3, <4>1
        <4>2. CASE packet.id = h.id /\ k # 1
          <5>1. 1 < k /\ IsChunk(h.todo[1]) /\ packet.payload = h.todo[1].payload
            BY <1>4, <2>1, <2>2, <3>3, <4>2 DEF IsChunk
          <5>2. packet.payload.offset < p.offset
            BY <1>3, <1>6, <2>2, <2>3, <5>1 DEF ChunksAscend
          <5>. QED BY <1>5, <3>3, <5>2
        <4>3. CASE packet.id = h.id /\ k = 1
          BY <1>2, <3>3, <4>3
        <4>. QED BY <4>1, <4>2, <4>3
      <3>. QED BY <3>1, <3>2, <3>3
    <2>. QED BY <1>1, <2>3, <2>6, <2>7 DEF Ahead
  <1>. QED BY <1>1, <1>3, <1>6 DEF ChunkInv, ChunksFollow, ChunksAscend

\* The answer to an admitted command is true if what it acknowledges is done.
LEMMA AdmittedAnswer ==
    ASSUME LinkInv, TrueAckInv, FewRequests, NEW packet, Sound(packet), packet.id \in 1 .. h.id,
           packet.cmd \in Protected, auth_unwrap_packet(packet) = "OK", UNCHANGED <<h, since>>,
           NEW ret, NEW r, Responds(packet, ret, r),
           ret = "OK" /\ Waiting /\ packet.id = h.id => TookEffect(h.id)'
    PROVE  Truthful(r)'
  <1>1. CASE ret # "OK"
    BY <1>1 DEF Responds, Truthful
  <1>2. CASE ret = "OK"
    <2>1. r.seq = packet.seq /\ (r.cmd \in Protected => packet.key = r.key)
      BY DEF Responds, auth_unwrap_packet, Protected
    <2>2. r.cmd \in Protected => Used(r.key)
      BY <2>1 DEF Sound, IsCommand
    <2>3. InSession /\ ToUs(r) =>
            /\ \E id \in 1 .. h.id : Apart(id, r.seq)
            /\ Waiting /\ r.seq = h.seq => TookEffect(h.id)'
      <3>1. ToUs(r) => Ours(packet)
        BY <2>1 DEF ToUs, Ours, IsCommand
      <3>. QED BY <1>2, <2>1, <3>1, AnswerToOurs
    <2>. QED BY <2>2, <2>3
             DEF Truthful, Used, Authenticating, InSession, ToUs, Apart, Waiting
  <1>. QED BY <1>1, <1>2

\* A command that is admitted.
LEMMA AdmittedTrueAck ==
    ASSUME LinkInv, TrueAckInv, FewRequests, UNCHANGED since, TakeAdmitted
    PROVE  TrueAckInv'
  <1>1. PICK packet : packet = Head(toDevice)
    OBVIOUS
  <1>2. PICK ret \in Results :
          /\ toDevice # <<>> /\ packet.cmd \in Protected /\ Taken(packet)
          /\ HandleAdmitted(packet, ret)
          /\ log' = IF ret = "OK" /\ deviceVars' # deviceVars
                    THEN Append(log, [id |-> packet.id, boot |-> boots, failed |-> FALSE])
                    ELSE log
    BY <1>1 DEF TakeAdmitted
  <1>3. /\ packet \in SentPackets /\ packet \in On(toDevice) /\ Sound(packet)
        /\ packet.id \in 1 .. h.id /\ h.id \in Nat
        /\ On(toDevice') \subseteq On(toDevice)
        /\ \A q \in On(toDevice') : q.id \in Nat /\ packet.id <= q.id
        /\ delayed = "NONE" /\ UNCHANGED <<h, told, boots, clients>>
    BY <1>1, <1>2, HeadIsSound
  <1>4. LineInv /\ DeviceInv /\ packet.payload \in Payloads
    BY <1>2, <1>3 DEF LinkInv, LineInv
  <1>5. Execute(packet, ret) /\ auth_unwrap_packet(packet) = "OK"
    BY <1>2 DEF HandleAdmitted, Admitted
  <1>6. PICK r : Responds(packet, ret, r)
    BY <1>2, <1>3, <1>4, WhatIsSent DEF HandleAdmitted, Errors
  <1>7. On(toHost') = On(toHost) \cup {r} /\ Cached' \subseteq Cached \cup {r}
    BY <1>4, <1>6, OneMoreCached DEF Responds
  <1>8. ASSUME ret = "OK" /\ Waiting /\ packet.id = h.id => TookEffect(h.id)'
        PROVE  TrueAnswers
    <2>1. Truthful(r)'
      BY <1>2, <1>3, <1>5, <1>6, <1>8, AdmittedAnswer
    <2>. QED BY <1>7, <2>1 DEF TrueAnswers
  <1>9. CASE ret = "OK" /\ deviceVars' # deviceVars
    <2>. DEFINE e == [id |-> packet.id, boot |-> boots, failed |-> FALSE]
    <2>1. e \in Entries /\ e.id = packet.id
      BY <1>3 DEF LinkInv, LineInv, SentPackets, Entries
    <2>2. log' = Append(log, e)
      BY <1>2, <1>9
    <2>. HIDE DEF e
    <2>3. /\ Len(log) \in Nat /\ Len(log') = Len(log) + 1
          /\ \A i \in 1 .. Len(log) : log'[i] = log[i]
          /\ log'[Len(log) + 1] = e
      BY <2>1, <2>2, Sent DEF LinkInv, LineInv
    <2>4. \A i \in 1 .. Len(log') : i \in 1 .. Len(log) \/ log'[i] = e
      BY <2>3
    <2>5. \A id : TookEffect(id)' <=> TookEffect(id) \/ (ret = "OK" /\ id = packet.id)
      <3>1. Len(log) + 1 \in 1 .. Len(log')
        BY <2>3
      <3>2. \A i \in 1 .. Len(log) : i \in 1 .. Len(log')
        BY <2>3
      <3>. QED BY <1>9, <2>1, <2>3, <2>4, <3>1, <3>2 DEF TookEffect
    <2>6. ChunkInv'
      BY <1>1, <1>2, <1>5, <1>9, <2>5, ChunksAdmitted
    <2>7. PICK id : id = h.id
      OBVIOUS
    <2>8. TookEffect(h.id)' <=> TookEffect(h.id) \/ packet.id = h.id
      <3>1. TookEffect(id)' <=> TookEffect(id) \/ id = packet.id
        BY <1>9, <2>5
      <3>. QED BY <1>3, <2>7, <3>1 DEF TookEffect
    <2>9. EffectInv'
      <3>1. Waiting /\ packet.id = h.id => IsCommand(Head(h.todo))
        BY <1>2, <1>3 DEF LinkInv, OrderInv, OneCommand, IsCommand
      <3>2. Waiting' /\ TookEffect(h.id)' => IsCommand(Head(h'.todo))
        BY <1>3, <2>8, <3>1 DEF TrueAckInv, EffectInv, Waiting
      <3>3. ASSUME NEW i \in 1 .. Len(log')
            PROVE  log'[i].id <= h'.id /\ \A q \in On(toDevice') : log'[i].id <= q.id
        <4>1. CASE i \in 1 .. Len(log)
          BY <1>3, <2>3, <4>1 DEF TrueAckInv, EffectInv
        <4>2. CASE log'[i] = e
          BY <1>3, <2>1, <4>2
        <4>. QED BY <2>4, <4>1, <4>2
      <3>. QED BY <3>2, <3>3 DEF EffectInv
    <2>10. TrueAnswers
      BY <1>8, <2>8
    <2>. QED BY <1>3, <2>5, <2>6, <2>9, <2>10, DeviceTrueAck
  <1>10. CASE ~(ret = "OK" /\ deviceVars' # deviceVars)
    <2>1. log' = log
      BY <1>2, <1>10
    <2>2. SameEffects
      BY <2>1 DEF SameEffects
    <2>3. StayAhead
      <3>1. \/ UNCHANGED s_ota \/ s_ota' = ZeroOta \/ s_ota' = NewSession(packet.payload)
        <4>1. CASE ret = "OK"
          BY <1>10, <4>1 DEF deviceVars, ramVars
        <4>2. CASE ret # "OK"
          BY <1>5, <4>2, SessionAfter
        <4>. QED BY <4>1, <4>2
      <3>. QED BY <3>1 DEF StayAhead, Ahead, ZeroOta, NewSession
    <2>4. ret = "OK" /\ Waiting /\ packet.id = h.id => TookEffect(h.id)'
      <3>. SUFFICES ASSUME ret = "OK", Waiting, packet.id = h.id PROVE TookEffect(h.id)
        BY <1>3, <2>1 DEF TookEffect
      <3>1. UNCHANGED deviceVars
        BY <1>10
      <3>2. /\ IsChunk(packet) /\ s_ota.active /\ packet.payload.data # <<>>
            /\ DuplicateOfLast(packet.payload)
        BY <1>3, <1>4, <1>5, <3>1, SuccessTakesEffect
      <3>. QED BY <1>3, <3>2, RepeatedChunkIsDone
    <2>. QED BY <1>3, <1>8, <2>2, <2>3, <2>4, QuietTrueAck
  <1>. QED BY <1>9, <1>10

-----------------------------------------------------------------------------
\* The count moves with the client only.
LEMMA CountFollows ==
    ASSUME WaitInv, [Counts]_<<h, since>>
    PROVE  Counts /\ (UNCHANGED h => UNCHANGED since)
  BY DEF Counts, WaitInv, InSession

\* Every step of the link keeps the acknowledgements true.
LEMMA TrueAckStep ==
    ASSUME LinkInv, LinkInv', FewRequests, FewRequests', OneClient, TrueAckInv,
           [Next]_vars, [Counts]_<<h, since>>
    PROVE  TrueAckInv'
  <1>1. Counts /\ (UNCHANGED h => UNCHANGED since)
    BY CountFollows DEF TrueAckInv
  <1>2. CASE Operate \/ Timeout \/ Receive \/ TakeOver
    BY <1>1, <1>2, HostTrueAck DEF HostMoves
  <1>3. CASE LoseRequest \/ LoseResponse \/ HealthTask \/ UNCHANGED vars
    <2>1. UNCHANGED h
      BY <1>3 DEF LoseRequest, LoseResponse, HealthTask, vars, hostVars
    <2>. QED BY <1>1, <1>3, <2>1, IdleTrueAck
  <1>4. CASE TakeAuth \/ TakeUnadmitted \/ TakeAdmitted \/ TakeOther
    <2>1. UNCHANGED h
      BY <1>4 DEF TakeAuth, TakeUnadmitted, TakeAdmitted, TakeOther, Taken
    <2>. QED BY <1>1, <1>4, <2>1, AuthTrueAck, UnadmittedTrueAck, AdmittedTrueAck, OtherTrueAck
  <1>5. CASE CarryOut \/ SpontaneousReset
    <2>1. UNCHANGED h
      BY <1>5 DEF CarryOut, SpontaneousReset, LinkReset
    <2>. QED BY <1>1, <1>5, <2>1, ResetTrueAck
  <1>6. CASE DropRollback
    <2>1. UNCHANGED h
      BY <1>6 DEF DropRollback, hostVars
    <2>. QED BY <1>1, <1>6, <2>1, DropTrueAck
  <1>. QED BY <1>2, <1>3, <1>4, <1>5, <1>6 DEF Next

\* At the start nothing is on the line and nothing is remembered.
LEMMA TrueAckInit == Init /\ since = h.id => TrueAckInv
  <1>. SUFFICES ASSUME Init, since = h.id PROVE TrueAckInv
    OBVIOUS
  <1>1. /\ h = NewClient(0, 0, 0) /\ toDevice = <<>> /\ told = <<>> /\ toHost = <<>>
        /\ log = <<>> /\ s_auth = ConfiguredAuth /\ clients = 1
    BY DEF Init, HostInit
  <1>2. h.phase = "IDLE" /\ ~h.authenticated /\ h.todo = <<>> /\ h.id = 0
    BY <1>1 DEF NewClient
  <1>3. Len(told) = 0 /\ Len(log) = 0 /\ Len(toDevice) = 0 /\ Len(toHost) = 0 /\ Len(h.todo) = 0
    BY <1>1, <1>2
  <1>4. On(toDevice) = {} /\ On(toHost) = {}
    BY <1>3 DEF On
  <1>5. Cached = {}
    BY <1>1 DEF Cached, ConfiguredAuth, EmptyCache, NoEntry
  <1>6. WaitInv
    BY <1>1, <1>2 DEF WaitInv, Waiting, Authenticating
  <1>7. ChunkInv
    BY <1>2, <1>3 DEF ChunkInv, ChunksFollow, ChunksAscend, InUpdate, Waiting
  <1>8. EffectInv /\ AckIsTrue
    BY <1>2, <1>3 DEF EffectInv, Waiting, AckIsTrue
  <1>. QED BY <1>4, <1>5, <1>6, <1>7, <1>8 DEF TrueAckInv

\* What otalink.py reports as done, is done: an acknowledgement accepted for a
\* mutating command is never an older one that was delayed, replayed or meant
\* for another client, as long as no sequence number comes back in a session.
\* With authentication this holds for any number of clients; without, for one.
THEOREM AcknowledgementsTrue ==
    ASSUME UseAuth \/ MaxClients = 1
    PROVE  Spec /\ Counting /\ []FewRequests => []AckIsTrue
  <1>1. OneClient
    BY DEF OneClient
  <1>2. Init /\ since = h.id => TrueAckInv
    BY TrueAckInit
  <1>3. /\ LinkInv /\ LinkInv' /\ FewRequests /\ FewRequests' /\ TrueAckInv
        /\ [Next]_vars /\ [Counts]_<<h, since>>
        => TrueAckInv'
    BY <1>1, TrueAckStep
  <1>4. TrueAckInv => AckIsTrue
    BY DEF TrueAckInv
  <1>. QED BY <1>2, <1>3, <1>4, LinkInductive, PTL DEF Spec, Counting

-----------------------------------------------------------------------------
(***************************************************************************)
(* Refusals and OTA_ABORT, where both sides have the key.                  *)
(*                                                                         *)
(* A response with the awaited number, tagged with the session's key, is   *)
(* the device's only answer to the request: once it is given, nothing but  *)
(* copies of the request is on the line, and the device repeats its answer *)
(* from the cache or, after a reset, refuses the session.  Three things    *)
(* have to be known for that: that the copies of a request come last on    *)
(* the line, that a session begins with a line and a cache that hold       *)
(* nothing of it, and that the request of an AUTH_REQUIRED has not been    *)
(* executed.                                                               *)
(***************************************************************************)
Keyed == UseAuth /\ AuthRequired

\* Whether the client's request took effect in this boot.
Logged == \E i \in 1 .. Len(log) : log[i].id = h.id /\ log[i].boot = boots

NoSession == ~s_auth.pending /\ ~s_auth.authenticated
AuthRefused(r) == r.error = "AUTH_REQUIRED"
Remembered == {s_auth.cache[i] : i \in {k \in 1 .. CacheSize : s_auth.cache[k].valid}}

\* What the client sends last stays last.
AtEnd == \A i, j \in 1 .. Len(toDevice) : i < j /\ toDevice[i] = h.pkt => toDevice[j] = h.pkt
OnlyPkt == \A q \in On(toDevice) : q = h.pkt

\* The device's session, the commands on the line and the cache.
DeviceSessionInv ==
    /\ s_auth.pending => ~s_auth.authenticated /\ \A q \in On(toDevice) : ~IsCommand(q)
    /\ s_auth.authenticated => \A q \in On(toDevice) : IsCommand(q) => q.key = s_auth.key
    /\ \A i, j \in 1 .. Len(toDevice) :
         i < j => ~(IsChallenge(toDevice[i]) /\ IsCommand(toDevice[j]))
    /\ Remembered # {} => s_auth.authenticated
    /\ \A e \in Remembered :
         /\ e.response.key = s_auth.key /\ e.response.cmd = e.request.cmd
         /\ e.response.seq = e.request.seq /\ IsCommand(e.request)
    /\ \A r \in On(toHost) \cup Cached : r.cmd \in Protected => Used(r.key)

\* A challenge is out.  The device's answer ends what was under way before.
IsAnswer(r) == IsChallenge(r) /\ r.key.client = h.nonce

ChallengeInv ==
    h.phase = "CHALLENGE" =>
      /\ \A q \in On(toDevice) : IsChallenge(q) /\ q.key.client = h.nonce => q = h.pkt
      /\ \A r \in On(toHost) : IsAnswer(r) => OnlyPkt /\ r.seq = h.seq /\ ~AuthRefused(r)
      /\ \A i, j \in 1 .. Len(toHost) : i < j /\ IsAnswer(toHost[i]) => IsAnswer(toHost[j])
      /\ (\E q \in On(toDevice) : IsCommand(q) /\ q.id = h.id) => NoSession
      /\ ~Logged

\* The proof is out, behind copies of the challenge.
ProofInv ==
    h.phase = "PROOF" =>
      /\ \A q \in On(toDevice) : q = h.pkt \/ (IsChallenge(q) /\ q.seq # h.seq)
      /\ \A r \in On(toHost) : r.seq = h.seq \/ AuthRefused(r) => OnlyPkt
      /\ \A r \in On(toHost) : AuthRefused(r) => NoSession \/ s_auth.key # h.key
      /\ ~Logged

\* The device has accepted the proof; it keeps the session until a reset.
Established ==
    \/ h.authenticated
    \/ h.phase = "PROOF" /\ \E r \in On(toHost) : r.kind = "ACK" /\ r.seq = h.seq

EstablishedInv ==
    Established =>
      /\ \A q \in On(toDevice) : ~IsChallenge(q) /\ (IsProof(q) => q.key = h.key)
      /\ NoSession \/ (s_auth.authenticated /\ s_auth.key = h.key)
      /\ \A r \in On(toHost) : AuthRefused(r) => NoSession

\* What the device remembers of the session.
Joined == h.authenticated /\ s_auth.authenticated

CacheInv ==
    Joined => \A e \in Remembered :
      /\ e.request.key = h.key /\ ~AuthRefused(e.response)
      /\ e.request.id \in 1 .. h.id /\ Apart(e.request.id, e.request.seq)
      /\ \A q \in On(toDevice) :
           IsCommand(q) /\ q.id = e.request.id => q.payload = e.request.payload
      /\ Waiting /\ e.request.id = h.id => e.request = h.pkt /\ OnlyPkt

\* The answers to the client's request.
Handled == \E e \in Remembered : e.request.id = h.id
AnswersUs(r) == r.cmd \in Protected /\ r.key = h.key /\ r.seq = h.seq

RightAnswer(r) ==
    /\ r.kind = "NACK" => ~Logged
    /\ Head(h.todo).cmd = "OTA_ABORT" => ~s_ota.active

AnswerInv ==
    h.authenticated =>
      /\ \A r \in On(toHost) :
           r.cmd \in Protected /\ r.key = h.key => \E id \in 1 .. h.id : Apart(id, r.seq)
      /\ Waiting =>
           /\ \A r \in On(toHost) : AnswersUs(r) => OnlyPkt /\ (s_auth.authenticated => Handled)
           /\ Logged => s_auth.authenticated /\ Handled
           /\ \A r \in On(toHost) \cup Cached : AnswersUs(r) => RightAnswer(r)

VerdictInv ==
    AtEnd /\ DeviceSessionInv /\ ChallengeInv /\ ProofInv /\ EstablishedInv /\ CacheInv /\ AnswerInv

-----------------------------------------------------------------------------
\* What the cache holds.
LEMMA CacheFields ==
    ASSUME LineInv
    PROVE  /\ \A e \in Remembered :
                /\ e.request \in SentPackets /\ e.response \in Answers
                /\ e.response \in Cached /\ e.response.cmd \in Protected
           /\ \A r \in Cached : \E e \in Remembered : r = e.response
  <1>1. ASSUME NEW i \in 1 .. CacheSize, s_auth.cache[i].valid
        PROVE  /\ s_auth.cache[i].request \in SentPackets
               /\ s_auth.cache[i].response \in Responses(Protected)
    <2>1. s_auth.cache[i] \in {NoEntry} \cup
            [valid : {TRUE}, request : SentPackets, response : Responses(Protected)]
      BY DEF LineInv, AuthStates
    <2>2. ~NoEntry.valid
      BY DEF NoEntry
    <2>. QED BY <1>1, <2>1, <2>2
  <1>2. \A r \in Responses(Protected) : r \in Answers /\ r.cmd \in Protected
    BY DEF Responses, Answers
  <1>3. \A e \in Remembered : e.request \in SentPackets /\ e.response \in Responses(Protected)
    BY <1>1 DEF Remembered
  <1>4. \A e \in Remembered : e.response \in Cached
    BY DEF Remembered, Cached
  <1>5. \A r \in Cached : \E e \in Remembered : r = e.response
    BY DEF Remembered, Cached
  <1>. QED BY <1>2, <1>3, <1>4, <1>5

\* An emptied ring remembers nothing.
LEMMA NothingRemembered ==
    ASSUME s_auth'.cache = EmptyCache
    PROVE  Remembered' = {}
  BY DEF Remembered, EmptyCache, NoEntry

\* A request leaves the line at its front.
CommandsFirst ==
    \A i, j \in 1 .. Len(toDevice) : i < j => ~(IsChallenge(toDevice[i]) /\ IsCommand(toDevice[j]))

\* What is left on the line when its first packet is taken.
LEMMA LineTaken ==
    ASSUME LineInv, AtEnd, CommandsFirst, toDevice # <<>>, toDevice' = Tail(toDevice), UNCHANGED h
    PROVE  /\ On(toDevice') \subseteq On(toDevice) /\ Head(toDevice) \in On(toDevice)
           /\ AtEnd' /\ CommandsFirst'
           /\ OnlyPkt => OnlyPkt' /\ Head(toDevice) = h.pkt
           /\ Head(toDevice) = h.pkt => OnlyPkt'
           /\ IsChallenge(Head(toDevice)) => \A q \in On(toDevice') : ~IsCommand(q)
  <1>1. /\ Len(toDevice') = Len(toDevice) - 1 /\ Len(toDevice) \in Nat /\ Len(toDevice) > 0
        /\ Head(toDevice) = toDevice[1] /\ Head(toDevice) \in On(toDevice)
        /\ \A i \in 1 .. Len(toDevice) - 1 : toDevice'[i] = toDevice[i + 1]
        /\ On(toDevice') \subseteq On(toDevice)
    BY TakenOff DEF LineInv
  <1>2. \A i \in 1 .. Len(toDevice') :
          i + 1 \in 1 .. Len(toDevice) /\ 1 < i + 1 /\ toDevice'[i] = toDevice[i + 1]
    BY <1>1
  <1>3. 1 \in 1 .. Len(toDevice)
    BY <1>1
  <1>4. \A i, j \in 1 .. Len(toDevice') : i < j => i + 1 < j + 1
    BY <1>1
  <1>5. AtEnd'
    BY <1>2, <1>4 DEF AtEnd
  <1>6. CommandsFirst'
    BY <1>2, <1>4 DEF CommandsFirst
  <1>7. OnlyPkt => OnlyPkt' /\ Head(toDevice) = h.pkt
    BY <1>1 DEF OnlyPkt
  <1>8. Head(toDevice) = h.pkt => OnlyPkt'
    BY <1>1, <1>2, <1>3 DEF AtEnd, OnlyPkt, On
  <1>9. IsChallenge(Head(toDevice)) => \A q \in On(toDevice') : ~IsCommand(q)
    BY <1>1, <1>2, <1>3 DEF CommandsFirst, On
  <1>. QED BY <1>1, <1>5, <1>6, <1>7, <1>8, <1>9

(***************************************************************************)
(* What the device does with a packet, where both sides have the key.      *)
(***************************************************************************)
Takes(packet, r) ==
    /\ toDevice # <<>> /\ packet = Head(toDevice) /\ toDevice' = Tail(toDevice)
    /\ r \in Answers /\ r.seq = packet.seq
    /\ toHost' = Append(toHost, r) /\ On(toHost') = On(toHost) \cup {r}
    /\ UNCHANGED <<h, told, boots, since>>

TakesChallenge(packet, r) ==
    /\ IsChallenge(packet) /\ IsChallenge(r)
    /\ r.kind = "ACK" /\ r.error = "OK" /\ r.key.client = packet.key.client
    /\ s_auth'.pending /\ ~s_auth'.authenticated /\ s_auth'.key = r.key /\ Remembered' = {}
    /\ UNCHANGED <<s_ota, log>>

TakesProof(packet, r) ==
    /\ IsProof(packet) /\ r.cmd = "NONE"
    /\ \/ /\ ~NoSession /\ packet.key = s_auth.key
          /\ s_auth'.authenticated /\ ~s_auth'.pending /\ s_auth'.key = s_auth.key
          /\ Remembered' = Remembered
          /\ r.kind = "ACK" /\ r.error = "OK"
       \/ /\ NoSession \/ packet.key # s_auth.key
          /\ UNCHANGED s_auth /\ r.kind = "NACK" /\ AuthRefused(r)
    /\ UNCHANGED <<s_ota, log>>

TakesOther(packet, r) ==
    /\ packet.cmd \notin Protected \cup AuthCommands /\ r.cmd = "NONE" /\ ~AuthRefused(r)
    /\ UNCHANGED <<s_auth, s_ota, log>>

\* No session: refused in the clear.
Refuses(packet, r) ==
    /\ IsCommand(packet) /\ ~s_auth.authenticated /\ r.cmd = "NONE" /\ AuthRefused(r)
    /\ UNCHANGED <<s_auth, s_ota, log>>

\* Answered from the cache.
Repeats(packet, r) ==
    /\ IsCommand(packet) /\ s_auth.authenticated
    /\ \E e \in Remembered : SameBytes(e.request, packet) /\ r = e.response
    /\ UNCHANGED <<s_auth, s_ota, log>>

\* Answered with a tag, and remembered.
Adds(packet, r) ==
    /\ IsCommand(packet) /\ s_auth.authenticated /\ packet.key = s_auth.key
    /\ r.key = s_auth.key /\ r.cmd = packet.cmd
    /\ Entry(packet, r) \in Remembered' /\ Remembered' \subseteq Remembered \cup {Entry(packet, r)}
    /\ SessionKept

Rejects(packet, r) ==
    /\ Adds(packet, r) /\ AuthRefused(r)
    /\ \E e \in Remembered :
         e.request.cmd = packet.cmd /\ e.request.seq = packet.seq /\ ~SameBytes(e.request, packet)
    /\ UNCHANGED <<s_ota, log>>

Executes(packet, r) ==
    /\ Adds(packet, r) /\ ~AuthRefused(r)
    /\ \A e \in Remembered : ~(e.request.cmd = packet.cmd /\ e.request.seq = packet.seq)
    /\ Logged' => Logged \/ (r.kind = "ACK" /\ packet.id = h.id)
    /\ packet.cmd = "OTA_ABORT" => ~s_ota'.active

DeviceActs(packet, r) ==
    /\ Takes(packet, r)
    /\ \/ TakesChallenge(packet, r) \/ TakesProof(packet, r) \/ TakesOther(packet, r)
       \/ Refuses(packet, r) \/ Repeats(packet, r) \/ Rejects(packet, r) \/ Executes(packet, r)

\* The device takes the packet at the front of the line.
LEMMA TakesFront ==
    ASSUME LinkInv, NEW packet, packet = Head(toDevice), toDevice # <<>>, Taken(packet),
           NEW r \in Answers, r.seq = packet.seq, Send(r), UNCHANGED since
    PROVE  Takes(packet, r)
  <1>1. LineInv
    BY DEF LinkInv
  <1>. QED BY <1>1, OneMore DEF Taken, Takes

\* OTA_ABORT leaves no session.
LEMMA AbortEnds ==
    ASSUME NEW packet, NEW ret, Execute(packet, ret), packet.cmd = "OTA_ABORT"
    PROVE  ~s_ota'.active
  <1>1. ota_manager_abort(ret)
    BY DEF Execute, CmdAbort
  <1>. QED BY <1>1 DEF ota_manager_abort, otaVars, ZeroOta

\* auth_send_response in a session.
LEMMA AddsEntry ==
    ASSUME Keyed, LineInv, NEW packet \in SentPackets, IsCommand(packet), NEW error \in Errors,
           s_auth.authenticated, packet.key = s_auth.key, auth_send_response(packet, error)
    PROVE  \E r \in Answers : /\ Adds(packet, r) /\ Send(r) /\ r.seq = packet.seq
                              /\ r.error = error /\ r.kind = (IF error = "OK" THEN "ACK" ELSE "NACK")
  <1>1. PICK r : Responds(packet, error, r)
    BY WhatIsSent DEF IsCommand
  <1>2. /\ r.key = s_auth.key /\ r.cmd = packet.cmd
        /\ s_auth'.cache = [s_auth.cache EXCEPT ![s_auth.next] = Entry(packet, r)]
    BY <1>1 DEF Responds, Keyed
  <1>3. SessionKept
    BY SendResponse DEF IsCommand
  <1>4. Entry(packet, r).valid
    BY DEF Entry
  <1>5. /\ s_auth.next \in 1 .. CacheSize
        /\ \A i \in 1 .. CacheSize :
             s_auth'.cache[i] = IF i = s_auth.next THEN Entry(packet, r) ELSE s_auth.cache[i]
    <2>1. s_auth.cache = [i \in 1 .. CacheSize |-> s_auth.cache[i]] /\ s_auth.next \in 1 .. CacheSize
      BY DEF LineInv, AuthStates
    <2>. QED BY <1>2, <2>1
  <1>6. Entry(packet, r) \in Remembered' /\ Remembered' \subseteq Remembered \cup {Entry(packet, r)}
    BY <1>4, <1>5 DEF Remembered
  <1>7. /\ r \in Answers /\ Send(r) /\ r.seq = packet.seq /\ r.error = error
        /\ r.kind = (IF error = "OK" THEN "ACK" ELSE "NACK")
    BY <1>1 DEF Responds, Send
  <1>. QED BY <1>2, <1>3, <1>6, <1>7 DEF Adds

\* A challenge or a proof.
LEMMA AuthActs ==
    ASSUME Keyed, LinkInv, UNCHANGED since, TakeAuth
    PROVE  \E packet, r : DeviceActs(packet, r)
  <1>1. PICK packet : packet = Head(toDevice)
    OBVIOUS
  <1>2. toDevice # <<>> /\ Taken(packet) /\ UNCHANGED <<deviceVars, log>>
    BY <1>1 DEF TakeAuth
  <1>3. packet \in SentPackets /\ packet.seq \in Sequence /\ packet.key \in Keys
    BY <1>1, <1>2, HeadTaken DEF SentPackets
  <1>4. LineInv /\ challenges \in Nat /\ s_auth \in AuthStates
    BY DEF LinkInv, LineInv
  <1>5. "AUTH_REQUIRED" \in Errors /\ "OK" \in Errors
    BY DEF Errors, Results
  <1>6. UNCHANGED <<s_ota, log>>
    BY <1>2 DEF deviceVars, ramVars
  <1>7. CASE packet.cmd = "AUTH_CHALLENGE" /\ HandleChallenge(packet, challenges + 1)
    <2>. DEFINE key == hmac_prefixed_nonce_pair(packet.key.client, challenges + 1)
                r == Response("ACK", packet.seq, "OK", key, "AUTH_CHALLENGE")
    <2>1. key \in Keys /\ key.client = packet.key.client
      BY <1>3, <1>4 DEF Keys, hmac_prefixed_nonce_pair
    <2>2. Send(r) /\ s_auth' = [ConfiguredAuth EXCEPT !.pending = TRUE, !.key = key]
      BY <1>7 DEF HandleChallenge, Keyed
    <2>. HIDE DEF key
    <2>3. /\ r \in Answers /\ IsChallenge(r) /\ r.kind = "ACK" /\ r.error = "OK" /\ r.key = key
          /\ r.seq = packet.seq
      BY <1>3, <1>5, <2>1 DEF Response, Answers, Responses, IsChallenge
    <2>4. /\ s_auth'.pending /\ ~s_auth'.authenticated /\ s_auth'.key = key
          /\ s_auth'.cache = EmptyCache
      BY <2>2 DEF ConfiguredAuth
    <2>. HIDE DEF r
    <2>5. Takes(packet, r)
      BY <1>1, <1>2, <2>2, <2>3, TakesFront
    <2>6. TakesChallenge(packet, r)
      BY <1>6, <1>7, <2>1, <2>3, <2>4, NothingRemembered DEF TakesChallenge, IsChallenge
    <2>. QED BY <2>5, <2>6 DEF DeviceActs
  <1>8. CASE packet.cmd = "AUTH_PROOF" /\ HandleProof(packet)
    <2>1. ASSUME NEW error \in Errors, Send(PlainResponse(packet.seq, error))
          PROVE  \E r : /\ Takes(packet, r) /\ r.cmd = "NONE" /\ r.error = error
                        /\ r.kind = IF error = "OK" THEN "ACK" ELSE "NACK"
      <3>. DEFINE r == PlainResponse(packet.seq, error)
      <3>1. /\ r \in Answers /\ r.seq = packet.seq /\ r.cmd = "NONE" /\ r.error = error
            /\ r.kind = IF error = "OK" THEN "ACK" ELSE "NACK"
        BY <1>3, PlainAnswer DEF PlainResponse, Response
      <3>2. Send(r)
        BY <2>1
      <3>. HIDE DEF r
      <3>. QED BY <1>1, <1>2, <3>1, <3>2, TakesFront
    <2>2. CASE ProofAccepted(packet)
      <3>1. /\ s_auth' = [s_auth EXCEPT !.pending = FALSE, !.authenticated = TRUE]
            /\ Send(PlainResponse(packet.seq, "OK"))
        BY <1>8, <2>2 DEF HandleProof, Keyed
      <3>2. PICK r : Takes(packet, r) /\ r.cmd = "NONE" /\ r.error = "OK" /\ r.kind = "ACK"
        BY <1>5, <2>1, <3>1
      <3>3. /\ s_auth'.authenticated /\ ~s_auth'.pending /\ s_auth'.key = s_auth.key
            /\ s_auth'.cache = s_auth.cache
        BY <1>4, <3>1 DEF AuthStates
      <3>4. TakesProof(packet, r)
        BY <1>6, <1>8, <2>2, <3>2, <3>3
           DEF TakesProof, IsProof, ProofAccepted, NoSession, Remembered
      <3>. QED BY <3>2, <3>4 DEF DeviceActs
    <2>3. CASE ~ProofAccepted(packet)
      <3>1. UNCHANGED s_auth /\ Send(PlainResponse(packet.seq, "AUTH_REQUIRED"))
        BY <1>8, <2>3 DEF HandleProof, Keyed
      <3>2. PICK r : Takes(packet, r) /\ r.cmd = "NONE" /\ AuthRefused(r) /\ r.kind = "NACK"
        BY <1>5, <2>1, <3>1 DEF AuthRefused
      <3>3. TakesProof(packet, r)
        BY <1>6, <1>8, <2>3, <3>1, <3>2 DEF TakesProof, IsProof, ProofAccepted, NoSession
      <3>. QED BY <3>2, <3>3 DEF DeviceActs
    <2>. QED BY <2>2, <2>3
  <1>. QED BY <1>1, <1>7, <1>8 DEF TakeAuth

\* A command outside the gate.
LEMMA OtherActs ==
    ASSUME LinkInv, UNCHANGED since, TakeOther
    PROVE  \E packet, r : DeviceActs(packet, r)
  <1>1. PICK packet : packet = Head(toDevice)
    OBVIOUS
  <1>2. /\ toDevice # <<>> /\ Taken(packet) /\ HandleOther(packet) /\ UNCHANGED log
        /\ packet.cmd \notin Protected \cup AuthCommands
    BY <1>1 DEF TakeOther
  <1>3. packet.seq \in Sequence
    BY <1>1, <1>2, HeadTaken
  <1>4. PICK error \in {"OK", "UNKNOWN_COMMAND"} : Send(PlainResponse(packet.seq, error))
    BY <1>2 DEF HandleOther
  <1>. DEFINE r == PlainResponse(packet.seq, error)
  <1>5. r \in Answers /\ r.cmd = "NONE" /\ r.seq = packet.seq /\ ~AuthRefused(r)
    <2>1. error \in Errors /\ error # "AUTH_REQUIRED"
      BY DEF Errors, Results
    <2>. QED BY <1>3, <2>1, PlainAnswer DEF PlainResponse, Response, AuthRefused
  <1>6. Send(r)
    BY <1>4
  <1>. HIDE DEF r
  <1>7. Takes(packet, r)
    BY <1>1, <1>2, <1>5, <1>6, TakesFront
  <1>8. TakesOther(packet, r)
    BY <1>2, <1>5 DEF TakesOther, HandleOther, deviceVars, ramVars
  <1>. QED BY <1>7, <1>8 DEF DeviceActs

\* A command at the gate.
LEMMA UnadmittedActs ==
    ASSUME Keyed, LinkInv, DeviceSessionInv, UNCHANGED since, TakeUnadmitted
    PROVE  \E packet, r : DeviceActs(packet, r)
  <1>1. PICK packet : packet = Head(toDevice)
    OBVIOUS
  <1>2. /\ toDevice # <<>> /\ Taken(packet) /\ HandleUnadmitted(packet) /\ UNCHANGED log
        /\ IsCommand(packet)
    BY <1>1 DEF TakeUnadmitted, IsCommand
  <1>3. packet \in SentPackets /\ packet.seq \in Sequence /\ packet \in On(toDevice)
    BY <1>1, <1>2, HeadTaken
  <1>4. LineInv /\ UNCHANGED <<s_ota, log>> /\ "AUTH_REQUIRED" \in Errors
    BY <1>2 DEF LinkInv, HandleUnadmitted, deviceVars, ramVars, Errors
  <1>5. s_auth.authenticated => packet.key = s_auth.key
    BY <1>2, <1>3 DEF DeviceSessionInv
  <1>6. CASE ~s_auth.authenticated
    <2>. DEFINE r == PlainResponse(packet.seq, "AUTH_REQUIRED")
    <2>1. r \in Answers /\ r.cmd = "NONE" /\ r.seq = packet.seq /\ AuthRefused(r)
      BY <1>3, <1>4, PlainAnswer DEF PlainResponse, Response, AuthRefused
    <2>2. auth_check_replay(packet) # "REPLAYED"
      BY <1>6 DEF auth_check_replay, Keyed
    <2>3. Send(r) /\ UNCHANGED s_auth
      BY <1>2, <1>6, <2>2 DEF HandleUnadmitted, auth_send_response
    <2>. HIDE DEF r
    <2>4. Takes(packet, r)
      BY <1>1, <1>2, <2>1, <2>3, TakesFront
    <2>. QED BY <1>2, <1>4, <1>6, <2>1, <2>3, <2>4 DEF DeviceActs, Refuses
  <1>7. CASE auth_check_replay(packet) = "REPLAYED"
    <2>. DEFINE e == s_auth.cache[FirstHit(packet)]
    <2>1. e \in Remembered /\ SameBytes(e.request, packet)
      BY <1>7, HitInCache DEF Remembered, auth_check_replay
    <2>2. Send(e.response) /\ UNCHANGED s_auth
      BY <1>2, <1>7 DEF HandleUnadmitted
    <2>. HIDE DEF e
    <2>3. e.response \in Answers /\ e.response.seq = packet.seq
      BY <1>4, <2>1, CacheFields DEF DeviceSessionInv, SameBytes
    <2>4. Takes(packet, e.response)
      BY <1>1, <1>2, <2>2, <2>3, TakesFront
    <2>5. s_auth.authenticated
      BY <2>1 DEF DeviceSessionInv
    <2>. QED BY <1>2, <1>4, <2>1, <2>2, <2>4, <2>5 DEF DeviceActs, Repeats
  <1>8. CASE s_auth.authenticated /\ auth_check_replay(packet) # "REPLAYED"
    <2>1. auth_send_response(packet, "AUTH_REQUIRED") /\ auth_check_replay(packet) # "OK"
      BY <1>2, <1>5, <1>8 DEF HandleUnadmitted, Admitted, auth_unwrap_packet
    <2>2. PICK r \in Answers :
            Adds(packet, r) /\ Send(r) /\ r.seq = packet.seq /\ r.error = "AUTH_REQUIRED"
      BY <1>2, <1>3, <1>4, <1>5, <1>8, <2>1, AddsEntry
    <2>3. \E e \in Remembered :
            e.request.cmd = packet.cmd /\ e.request.seq = packet.seq /\ ~SameBytes(e.request, packet)
      <3>1. Hits(packet) # {} /\ ~SameBytes(s_auth.cache[FirstHit(packet)].request, packet)
        BY <1>8, <2>1 DEF auth_check_replay, Keyed
      <3>2. FirstHit(packet) \in Hits(packet)
        BY <3>1, FirstHitHits
      <3>3. s_auth.cache[FirstHit(packet)] \in Remembered
        BY <3>2 DEF Hits, Remembered
      <3>. QED BY <3>1, <3>2, <3>3 DEF Hits
    <2>4. Takes(packet, r)
      BY <1>1, <1>2, <2>2, TakesFront
    <2>. QED BY <1>4, <2>2, <2>3, <2>4 DEF DeviceActs, Rejects, AuthRefused
  <1>. QED BY <1>6, <1>7, <1>8

\* A command past the gate.
LEMMA AdmittedActs ==
    ASSUME Keyed, LinkInv, DeviceSessionInv, UNCHANGED since, TakeAdmitted
    PROVE  \E packet, r : DeviceActs(packet, r)
  <1>1. PICK packet : packet = Head(toDevice)
    OBVIOUS
  <1>2. PICK ret \in Results :
          /\ toDevice # <<>> /\ packet.cmd \in Protected /\ Taken(packet)
          /\ HandleAdmitted(packet, ret)
          /\ log' = IF ret = "OK" /\ deviceVars' # deviceVars
                    THEN Append(log, [id |-> packet.id, boot |-> boots, failed |-> FALSE])
                    ELSE log
    BY <1>1 DEF TakeAdmitted
  <1>3. packet \in SentPackets /\ packet.seq \in Sequence /\ UNCHANGED <<h, boots>>
    BY <1>1, <1>2, HeadTaken
  <1>4. LineInv /\ ret \in Errors /\ ret # "AUTH_REQUIRED" /\ IsCommand(packet)
    BY <1>2 DEF LinkInv, Errors, Results, IsCommand
  <1>5. /\ Execute(packet, ret) /\ auth_send_response(packet, ret)
        /\ s_auth.authenticated /\ packet.key = s_auth.key /\ Hits(packet) = {}
    BY <1>2 DEF HandleAdmitted, Admitted, auth_unwrap_packet, auth_check_replay, Keyed
  <1>6. PICK r \in Answers :
          /\ Adds(packet, r) /\ Send(r) /\ r.seq = packet.seq
          /\ r.error = ret /\ r.kind = (IF ret = "OK" THEN "ACK" ELSE "NACK")
    BY <1>3, <1>4, <1>5, AddsEntry
  <1>7. Takes(packet, r)
    BY <1>1, <1>2, <1>6, TakesFront
  <1>8. \A e \in Remembered : ~(e.request.cmd = packet.cmd /\ e.request.seq = packet.seq)
    BY <1>5 DEF Hits, Remembered
  <1>9. Logged' => Logged \/ (r.kind = "ACK" /\ packet.id = h.id)
    <2>1. CASE log' = log
      BY <1>3, <2>1 DEF Logged
    <2>2. CASE ret = "OK" /\ deviceVars' # deviceVars
      <3>. DEFINE e == [id |-> packet.id, boot |-> boots, failed |-> FALSE]
      <3>1. e \in Entries /\ e.id = packet.id
        BY <1>3, <1>4 DEF LineInv, SentPackets, Entries
      <3>2. log' = Append(log, e) /\ log \in Seq(Entries)
        BY <1>2, <1>4, <2>2 DEF LineInv
      <3>. HIDE DEF e
      <3>3. /\ Len(log) \in Nat /\ Len(log') = Len(log) + 1
            /\ \A i \in 1 .. Len(log) : log'[i] = log[i]
            /\ log'[Len(log) + 1] = e
        BY <3>1, <3>2, Sent
      <3>4. \A i \in 1 .. Len(log') : i \in 1 .. Len(log) \/ log'[i] = e
        BY <3>3
      <3>. QED BY <1>3, <1>6, <2>2, <3>1, <3>3, <3>4 DEF Logged
    <2>. QED BY <1>2, <2>1, <2>2
  <1>10. packet.cmd = "OTA_ABORT" => ~s_ota'.active
    BY <1>5, AbortEnds
  <1>11. ~AuthRefused(r)
    BY <1>4, <1>6 DEF AuthRefused
  <1>. QED BY <1>6, <1>7, <1>8, <1>9, <1>10, <1>11 DEF DeviceActs, Executes

-----------------------------------------------------------------------------
(***************************************************************************)
(* What the device does keeps the invariant.                               *)
(***************************************************************************)

\* A packet as the device takes it.
LEMMA Acting ==
    ASSUME LinkInv, TrueAckInv, VerdictInv, NEW packet, NEW r, DeviceActs(packet, r)
    PROVE  /\ HostInv /\ LineInv /\ NonceInv /\ OrderInv /\ WaitInv
           /\ packet \in SentPackets /\ packet \in On(toDevice) /\ Sound(packet)
           /\ packet.id \in 1 .. h.id /\ h.id \in Nat /\ packet = Head(toDevice)
           /\ On(toDevice') \subseteq On(toDevice) /\ UNCHANGED <<h, told, boots, since>>
           /\ AtEnd' /\ CommandsFirst'
           /\ OnlyPkt => OnlyPkt' /\ packet = h.pkt
           /\ packet = h.pkt => OnlyPkt'
           /\ IsChallenge(packet) => \A q \in On(toDevice') : ~IsCommand(q)
           /\ On(toHost') = On(toHost) \cup {r} /\ r.seq = packet.seq
  <1>1. HostInv /\ LineInv /\ NonceInv /\ OrderInv /\ WaitInv
    BY DEF LinkInv, TrueAckInv
  <1>2. /\ toDevice # <<>> /\ packet = Head(toDevice) /\ toDevice' = Tail(toDevice)
        /\ UNCHANGED <<h, told, boots, since>>
        /\ On(toHost') = On(toHost) \cup {r} /\ r.seq = packet.seq
    BY DEF DeviceActs, Takes
  <1>3. AtEnd /\ CommandsFirst
    BY DEF VerdictInv, DeviceSessionInv, CommandsFirst
  <1>4. packet \in On(toDevice)
    BY <1>1, <1>2, <1>3, LineTaken
  <1>5. packet \in SentPackets /\ packet.id \in Nat /\ Sound(packet) /\ packet.id <= h.id
    BY <1>1, <1>4, Fields DEF TrueAckInv, OrderInv, LineInOrder
  <1>6. packet.id \in 1 .. h.id /\ h.id \in Nat
    BY <1>1, <1>5, Counters DEF Sound
  <1>. QED BY <1>1, <1>2, <1>3, <1>4, <1>5, <1>6, LineTaken

\* What becomes of the cache, the log and the OTA session.
LEMMA Kept ==
    ASSUME NEW packet, NEW r, DeviceActs(packet, r)
    PROVE  /\ Remembered' = {} \/ Remembered' = Remembered \/ Adds(packet, r)
           /\ Cached' \subseteq Cached \cup {r}
           /\ Executes(packet, r) \/ UNCHANGED <<s_ota, log>>
           /\ Logged' => Logged \/ (Executes(packet, r) /\ r.kind = "ACK" /\ packet.id = h.id)
  <1>1. UNCHANGED s_auth => Remembered' = Remembered
    BY DEF Remembered
  <1>2. Remembered' = {} \/ Remembered' = Remembered \/ Adds(packet, r)
    BY <1>1 DEF DeviceActs, TakesChallenge, TakesProof, TakesOther, Refuses, Repeats, Rejects, Executes
  <1>3. Executes(packet, r) \/ UNCHANGED <<s_ota, log>>
    BY DEF DeviceActs, TakesChallenge, TakesProof, TakesOther, Refuses, Repeats, Rejects
  <1>4. UNCHANGED <<h, boots>>
    BY DEF DeviceActs, Takes
  <1>5. UNCHANGED log => (Logged' => Logged)
    BY <1>4 DEF Logged
  <1>6. Logged' => Logged \/ (Executes(packet, r) /\ r.kind = "ACK" /\ packet.id = h.id)
    BY <1>3, <1>5 DEF Executes
  <1>7. Cached' \subseteq Cached \cup {r}
    <2>1. Cached' = {e.response : e \in Remembered'} /\ Cached = {e.response : e \in Remembered}
      BY DEF Cached, Remembered
    <2>2. Adds(packet, r) => \A e \in Remembered' : e \in Remembered \/ e.response = r
      BY DEF Adds, Entry
    <2>. QED BY <1>2, <2>1, <2>2
  <1>. QED BY <1>2, <1>3, <1>6, <1>7

\* The device keeps its session, the commands on the line and its ring in step.
LEMMA DeviceSessionKept ==
    ASSUME LinkInv, TrueAckInv, VerdictInv, NEW packet, NEW r, DeviceActs(packet, r)
    PROVE  DeviceSessionInv'
  <1>1. /\ LineInv /\ packet \in On(toDevice) /\ Sound(packet) /\ CommandsFirst'
        /\ On(toDevice') \subseteq On(toDevice) /\ UNCHANGED h
        /\ IsChallenge(packet) => \A q \in On(toDevice') : ~IsCommand(q)
        /\ On(toHost') = On(toHost) \cup {r} /\ r.seq = packet.seq
    BY Acting
  <1>2. DeviceSessionInv
    BY DEF VerdictInv
  <1>3. \/ TakesChallenge(packet, r) \/ TakesProof(packet, r) \/ UNCHANGED s_auth
        \/ Adds(packet, r)
    BY DEF DeviceActs, TakesOther, Refuses, Repeats, Rejects, Executes
  <1>4. s_auth'.pending => ~s_auth'.authenticated /\ \A q \in On(toDevice') : ~IsCommand(q)
    BY <1>1, <1>2, <1>3
       DEF DeviceSessionInv, TakesChallenge, TakesProof, Adds, SessionKept
  <1>5. s_auth'.authenticated => \A q \in On(toDevice') : IsCommand(q) => q.key = s_auth'.key
    BY <1>1, <1>2, <1>3
       DEF DeviceSessionInv, TakesChallenge, TakesProof, NoSession, Adds, SessionKept
  <1>6. Remembered' # {} => s_auth'.authenticated
    BY <1>2, <1>3
       DEF DeviceSessionInv, TakesChallenge, TakesProof, Adds, SessionKept, Remembered
  <1>7. ASSUME NEW e \in Remembered'
        PROVE  /\ e.response.key = s_auth'.key /\ e.response.cmd = e.request.cmd
               /\ e.response.seq = e.request.seq /\ IsCommand(e.request)
    <2>1. e \in Remembered \/ (Adds(packet, r) /\ e = Entry(packet, r))
      BY Kept, <1>7 DEF Adds
    <2>2. CASE e \in Remembered
      <3>1. s_auth'.key = s_auth.key
        BY <1>3, <1>7 DEF TakesChallenge, TakesProof, Adds, SessionKept
      <3>. QED BY <1>2, <2>2, <3>1 DEF DeviceSessionInv
    <2>3. CASE Adds(packet, r) /\ e = Entry(packet, r)
      BY <1>1, <2>3 DEF Adds, Entry, SessionKept
    <2>. QED BY <2>1, <2>2, <2>3
  <1>8. ASSUME NEW x \in On(toHost') \cup Cached', x.cmd \in Protected
        PROVE  Used(x.key)
    <2>1. CASE x \in On(toHost) \cup Cached
      BY <1>2, <1>8, <2>1 DEF DeviceSessionInv
    <2>2. CASE x = r
      <3>1. Adds(packet, r) => Used(r.key)
        BY <1>1 DEF Adds, Sound
      <3>2. Repeats(packet, r) => r \in Cached
        BY <1>1, CacheFields DEF Repeats
      <3>3. Adds(packet, r) \/ Repeats(packet, r)
        BY <1>8, <2>2 DEF DeviceActs, TakesChallenge, TakesProof, TakesOther, Refuses, Rejects,
                          Executes, IsChallenge, Protected
      <3>. QED BY <1>2, <1>8, <2>2, <3>1, <3>2, <3>3 DEF DeviceSessionInv
    <2>. QED BY <1>1, <1>8, <2>1, <2>2, Kept
  <1>9. \A x \in On(toHost') \cup Cached' : x.cmd \in Protected => Used(x.key)'
    BY <1>1, <1>8 DEF Used, Authenticating
  <1>. QED BY <1>1, <1>4, <1>5, <1>6, <1>7, <1>9 DEF DeviceSessionInv, CommandsFirst

\* The device keeps what holds while a challenge is out.
LEMMA ChallengeKept ==
    ASSUME LinkInv, TrueAckInv, VerdictInv, NEW packet, NEW r, DeviceActs(packet, r)
    PROVE  ChallengeInv'
  <1>. SUFFICES ASSUME h.phase = "CHALLENGE" PROVE ChallengeInv'
    BY Acting DEF ChallengeInv
  <1>1. /\ HostInv /\ LineInv /\ packet \in On(toDevice) /\ packet.id \in 1 .. h.id
        /\ On(toDevice') \subseteq On(toDevice) /\ UNCHANGED <<h, boots>>
        /\ OnlyPkt => OnlyPkt' /\ packet = h.pkt
        /\ packet = h.pkt => OnlyPkt'
        /\ IsChallenge(packet) => \A q \in On(toDevice') : ~IsCommand(q)
        /\ On(toHost') = On(toHost) \cup {r} /\ r.seq = packet.seq
    BY Acting
  <1>2. ChallengeInv /\ WaitInv
    BY DEF VerdictInv, TrueAckInv
  <1>3. /\ h.pkt.cmd = "AUTH_CHALLENGE" /\ h.pkt.key.client = h.nonce /\ h.pkt.seq = h.seq
    BY <1>1, <1>2 DEF HostInv, WaitInv, Waiting
  <1>4. IsAnswer(r) <=> IsChallenge(packet) /\ packet.key.client = h.nonce
    <2>1. TakesChallenge(packet, r) => (IsAnswer(r) <=> packet.key.client = h.nonce)
      BY DEF TakesChallenge, IsAnswer
    <2>2. TakesChallenge(packet, r) \/ ~IsChallenge(r)
      <3>1. Repeats(packet, r) => r.cmd \in Protected
        BY <1>1, CacheFields DEF Repeats
      <3>. QED BY <3>1 DEF DeviceActs, TakesProof, TakesOther, Refuses, Rejects, Executes, Adds,
                           IsChallenge, IsCommand, Protected
    <2>3. IsChallenge(packet) => TakesChallenge(packet, r)
      BY DEF DeviceActs, TakesProof, TakesOther, Refuses, Repeats, Rejects, Executes, Adds,
             IsChallenge, IsProof, IsCommand, Protected, AuthCommands
    <2>. QED BY <2>1, <2>2, <2>3 DEF IsAnswer, TakesChallenge
  <1>5. IsAnswer(r) => OnlyPkt' /\ r.seq = h.seq /\ ~AuthRefused(r)
    <2>1. IsAnswer(r) => packet = h.pkt
      BY <1>1, <1>2, <1>4 DEF ChallengeInv
    <2>2. IsAnswer(r) => TakesChallenge(packet, r)
      BY <1>4 DEF DeviceActs, TakesProof, TakesOther, Refuses, Repeats, Rejects, Executes, Adds,
             IsChallenge, IsProof, IsCommand, Protected, AuthCommands
    <2>. QED BY <1>1, <1>3, <2>1, <2>2 DEF TakesChallenge, AuthRefused
  <1>6. \A x \in On(toHost') : IsAnswer(x) => OnlyPkt' /\ x.seq = h.seq /\ ~AuthRefused(x)
    BY <1>1, <1>2, <1>5 DEF ChallengeInv
  <1>7. \A i, j \in 1 .. Len(toHost') : i < j /\ IsAnswer(toHost'[i]) => IsAnswer(toHost'[j])
    <2>1. /\ Len(toHost) \in Nat /\ Len(toHost') = Len(toHost) + 1 /\ toHost'[Len(toHost) + 1] = r
          /\ \A i \in 1 .. Len(toHost) : toHost'[i] = toHost[i]
      BY <1>1, Sent DEF DeviceActs, Takes, LineInv
    <2>2. ASSUME NEW i \in 1 .. Len(toHost), IsAnswer(toHost[i]) PROVE IsAnswer(r)
      <3>1. OnlyPkt
        BY <1>2, <2>2 DEF ChallengeInv, On
      <3>. QED BY <1>1, <1>3, <1>4, <3>1 DEF IsChallenge
    <2>3. ASSUME NEW i \in 1 .. Len(toHost'), NEW j \in 1 .. Len(toHost'), i < j, IsAnswer(toHost'[i])
          PROVE  IsAnswer(toHost'[j])
      <3>1. i \in 1 .. Len(toHost) /\ IsAnswer(toHost[i])
        BY <2>1, <2>3
      <3>2. CASE j \in 1 .. Len(toHost)
        BY <1>2, <2>1, <2>3, <3>1, <3>2 DEF ChallengeInv
      <3>3. CASE j = Len(toHost) + 1
        BY <2>1, <2>2, <3>1, <3>3
      <3>. QED BY <2>1, <3>2, <3>3
    <2>. QED BY <2>3
  <1>8. (\E q \in On(toDevice') : IsCommand(q) /\ q.id = h.id) => NoSession'
    <2>. SUFFICES ASSUME NEW q \in On(toDevice'), IsCommand(q), q.id = h.id PROVE NoSession'
      OBVIOUS
    <2>1. NoSession /\ ~IsChallenge(packet)
      BY <1>1, <1>2 DEF ChallengeInv
    <2>. QED BY <2>1 DEF DeviceActs, TakesChallenge, TakesProof, TakesOther, Refuses, Repeats,
                         Rejects, Executes, Adds, NoSession
  <1>9. ~Logged'
    <2>1. ~Executes(packet, r) \/ packet.id # h.id
      BY <1>1, <1>2 DEF ChallengeInv, Executes, Adds, NoSession
    <2>. QED BY <1>2, <2>1, Kept DEF ChallengeInv
  <1>10. \A q \in On(toDevice') : IsChallenge(q) /\ q.key.client = h.nonce => q = h.pkt
    BY <1>1, <1>2 DEF ChallengeInv
  <1>. QED BY <1>1, <1>6, <1>7, <1>8, <1>9, <1>10 DEF ChallengeInv, IsAnswer

\* The device keeps what holds while a proof is out.
LEMMA ProofKept ==
    ASSUME LinkInv, TrueAckInv, VerdictInv, NEW packet, NEW r, DeviceActs(packet, r)
    PROVE  ProofInv'
  <1>. SUFFICES ASSUME h.phase = "PROOF" PROVE ProofInv'
    BY Acting DEF ProofInv
  <1>1. /\ HostInv /\ packet \in On(toDevice)
        /\ On(toDevice') \subseteq On(toDevice) /\ UNCHANGED <<h, boots>>
        /\ OnlyPkt => OnlyPkt' /\ packet = h.pkt
        /\ packet = h.pkt => OnlyPkt'
        /\ On(toHost') = On(toHost) \cup {r} /\ r.seq = packet.seq
    BY Acting
  <1>2. ProofInv
    BY DEF VerdictInv
  <1>3. IsProof(h.pkt) /\ h.pkt.key = h.key
    BY <1>1 DEF HostInv, IsProof
  <1>4. \/ packet = h.pkt /\ TakesProof(packet, r)
        \/ packet # h.pkt /\ TakesChallenge(packet, r) /\ r.seq # h.seq
    BY <1>1, <1>2, <1>3
       DEF ProofInv, DeviceActs, TakesChallenge, TakesProof, TakesOther, Refuses, Repeats, Rejects,
           Executes, Adds, IsChallenge, IsProof, IsCommand, Protected, AuthCommands
  <1>5. \A x \in On(toHost') : x.seq = h.seq \/ AuthRefused(x) => OnlyPkt'
    BY <1>1, <1>2, <1>4 DEF ProofInv, TakesChallenge, AuthRefused
  <1>6. \A x \in On(toHost') : AuthRefused(x) => NoSession' \/ s_auth'.key # h.key
    <2>1. CASE packet = h.pkt /\ TakesProof(packet, r)
      BY <1>1, <1>2, <1>3, <2>1 DEF ProofInv, TakesProof, AuthRefused, NoSession
    <2>2. CASE packet # h.pkt /\ TakesChallenge(packet, r)
      BY <1>1, <1>2, <2>2 DEF ProofInv, TakesChallenge, AuthRefused
    <2>. QED BY <1>4, <2>1, <2>2
  <1>7. ~Logged'
    <2>1. ~Executes(packet, r)
      BY <1>4 DEF TakesChallenge, TakesProof, Executes, Adds, IsChallenge, IsProof, IsCommand, Protected
    <2>. QED BY <1>2, <2>1, Kept DEF ProofInv
  <1>8. \A q \in On(toDevice') : q = h.pkt \/ (IsChallenge(q) /\ q.seq # h.seq)
    BY <1>1, <1>2 DEF ProofInv
  <1>. QED BY <1>1, <1>5, <1>6, <1>7, <1>8 DEF ProofInv

\* Within one turn of the counter, one request per number.
LEMMA NumberUnique ==
    ASSUME HostInv, FewRequests, since \in Nat, NEW seq \in Sequence,
           NEW id \in 1 .. h.id, NEW other \in 1 .. h.id, Apart(id, seq), Apart(other, seq)
    PROVE  id = other
  <1>1. /\ h.id \in Nat /\ h.seq \in Nat /\ SequenceModulus \in Nat
        /\ h.id < since + SequenceModulus
    BY Counters DEF FewRequests
  <1>2. seq \in Nat
    BY <1>1 DEF Sequence
  <1>. QED BY <1>1, <1>2 DEF Apart

\* A command of the session with the request's id is the client's packet.
LEMMA OursIsPkt ==
    ASSUME LinkInv, TrueAckInv, FewRequests, Keyed, h.authenticated, Waiting,
           NEW q \in On(toDevice), IsCommand(q), q.key = h.key, q.id = h.id
    PROVE  q = h.pkt
  <1>1. HostInv /\ LineInv /\ WaitInv /\ OrderInv
    BY DEF LinkInv, TrueAckInv
  <1>2. h.phase = "COMMAND"
    BY <1>1 DEF HostInv, Hosts, Phases, Waiting, WaitInv
  <1>3. q \in SentPackets /\ h.pkt \in SentPackets /\ h.pkt.id = h.id
    BY <1>1, Fields DEF HostInv
  <1>4. q.cmd = h.pkt.cmd /\ q.payload = h.pkt.payload
    BY <1>1, <1>2 DEF OrderInv, OneCommand, HostInv
  <1>5. h.pkt.key = h.key
    BY <1>1, <1>2, <1>4 DEF WaitInv, NeedsTag, Keyed, IsCommand
  <1>6. q.seq = h.pkt.seq
    <2>1. Apart(q.id, q.seq) /\ h.pkt.seq = h.seq
      BY <1>1, <1>2 DEF TrueAckInv, Sound, InSession, Ours, WaitInv, Waiting
    <2>2. /\ h.id \in Nat /\ h.seq \in Nat /\ h.seq < SequenceModulus /\ SequenceModulus \in Nat
          /\ q.seq \in Nat /\ q.seq < SequenceModulus
      BY <1>1, <1>3, Counters DEF SentPackets, Sequence
    <2>. QED BY <2>1, <2>2 DEF Apart
  <1>. QED BY <1>3, <1>4, <1>5, <1>6 DEF SentPackets

\* In a session that both sides share, the device refuses nothing.
LEMMA NoRejects ==
    ASSUME Keyed, LinkInv, TrueAckInv, FewRequests, VerdictInv, Joined,
           NEW packet, NEW r, DeviceActs(packet, r)
    PROVE  ~Rejects(packet, r)
  <1>. SUFFICES ASSUME Rejects(packet, r) PROVE FALSE
    OBVIOUS
  <1>1. /\ HostInv /\ LineInv /\ packet \in On(toDevice) /\ Sound(packet) /\ packet.id \in 1 .. h.id
        /\ packet \in SentPackets
    BY Acting
  <1>2. s_auth.key = h.key /\ h.authenticated
    BY DEF VerdictInv, EstablishedInv, Established, Joined, NoSession
  <1>3. IsCommand(packet) /\ packet.key = h.key /\ Apart(packet.id, packet.seq)
    BY <1>1, <1>2 DEF Rejects, Adds, Sound, InSession, Ours
  <1>4. PICK e \in Remembered :
          e.request.cmd = packet.cmd /\ e.request.seq = packet.seq /\ ~SameBytes(e.request, packet)
    BY DEF Rejects
  <1>5. /\ e.request.key = h.key /\ e.request.id \in 1 .. h.id
        /\ Apart(e.request.id, packet.seq)
        /\ packet.id = e.request.id => packet.payload = e.request.payload
    BY <1>1, <1>3, <1>4 DEF VerdictInv, CacheInv
  <1>6. packet.id = e.request.id
    <2>1. packet.seq \in Sequence /\ since \in Nat
      BY <1>1 DEF SentPackets, TrueAckInv, WaitInv
    <2>. QED BY <1>1, <1>3, <1>5, <2>1, NumberUnique
  <1>. QED BY <1>3, <1>4, <1>5, <1>6 DEF SameBytes

\* What answers the client from the cache is the answer to its request.
LEMMA CachedAnswer ==
    ASSUME LinkInv, TrueAckInv, FewRequests, VerdictInv, Joined, Waiting,
           NEW e \in Remembered, e.response.seq = h.seq
    PROVE  e.request.id = h.id /\ e.request = h.pkt /\ OnlyPkt /\ Handled
  <1>1. HostInv /\ since \in Nat
    BY DEF LinkInv, TrueAckInv, WaitInv
  <1>2. e.request.id \in 1 .. h.id /\ Apart(e.request.id, h.seq)
    BY DEF VerdictInv, CacheInv, DeviceSessionInv
  <1>3. e.request.id = h.id
    BY <1>1, <1>2, NumberNames
  <1>. QED BY <1>3 DEF VerdictInv, CacheInv, Handled

\* A request is executed before it is answered.
LEMMA OneAnswer ==
    ASSUME Keyed, LinkInv, TrueAckInv, FewRequests, VerdictInv, Joined, Waiting,
           NEW packet, NEW r, DeviceActs(packet, r), Executes(packet, r)
    PROVE  /\ ~Handled /\ ~Logged
           /\ \A x \in On(toHost) \cup Cached : ~AnswersUs(x)
  <1>1. LineInv /\ (OnlyPkt => packet = h.pkt)
    BY Acting
  <1>2. ~Handled
    <2>1. SUFFICES ASSUME NEW e \in Remembered, e.request.id = h.id PROVE FALSE
      BY DEF Handled
    <2>2. e.request = packet
      BY <1>1, <2>1 DEF VerdictInv, CacheInv
    <2>. QED BY <2>1, <2>2 DEF Executes
  <1>3. ~Logged
    BY <1>2 DEF VerdictInv, AnswerInv, Joined
  <1>4. \A x \in On(toHost) : ~AnswersUs(x)
    BY <1>2 DEF VerdictInv, AnswerInv, Joined
  <1>5. ASSUME NEW x \in Cached, AnswersUs(x) PROVE FALSE
    <2>1. PICK e \in Remembered : x = e.response
      BY <1>1, CacheFields
    <2>2. Handled
      BY <1>5, <2>1, CachedAnswer DEF AnswersUs
    <2>. QED BY <1>2, <2>2
  <1>. QED BY <1>2, <1>3, <1>4, <1>5

\* A session that both sides share is not a new one.
LEMMA SharedBefore ==
    ASSUME VerdictInv, NEW packet, NEW r, DeviceActs(packet, r), packet \in On(toDevice),
           UNCHANGED h, Joined'
    PROVE  Joined /\ s_auth.key = h.key
  <1>1. h.authenticated /\ ~IsChallenge(packet) /\ (NoSession \/ (s_auth.authenticated /\ s_auth.key = h.key))
    BY DEF VerdictInv, EstablishedInv, Established, Joined
  <1>2. NoSession => ~s_auth'.authenticated
    BY <1>1 DEF DeviceActs, TakesChallenge, TakesProof, TakesOther, Refuses, Repeats, Rejects,
                Executes, Adds, NoSession
  <1>. QED BY <1>1, <1>2 DEF Joined

\* The device keeps an established session until a reset.
LEMMA EstablishedKept ==
    ASSUME Keyed, LinkInv, TrueAckInv, FewRequests, VerdictInv,
           NEW packet, NEW r, DeviceActs(packet, r)
    PROVE  EstablishedInv'
  <1>1. /\ HostInv /\ LineInv /\ packet \in On(toDevice)
        /\ On(toDevice') \subseteq On(toDevice) /\ UNCHANGED <<h, boots>>
        /\ packet = h.pkt => OnlyPkt'
        /\ On(toHost') = On(toHost) \cup {r} /\ r.seq = packet.seq
    BY Acting
  <1>2. EstablishedInv /\ ProofInv /\ CacheInv
    BY DEF VerdictInv
  <1>3. h.phase = "PROOF" => IsProof(h.pkt) /\ h.pkt.key = h.key
    BY <1>1 DEF HostInv, IsProof
  <1>4. CASE Established
    <2>1. /\ \A q \in On(toDevice) : ~IsChallenge(q) /\ (IsProof(q) => q.key = h.key)
          /\ NoSession \/ (s_auth.authenticated /\ s_auth.key = h.key)
          /\ \A x \in On(toHost) : AuthRefused(x) => NoSession
      BY <1>2, <1>4 DEF EstablishedInv
    <2>2. IsCommand(packet) => h.authenticated
      <3>1. h.phase = "PROOF" => IsProof(packet) \/ IsChallenge(packet)
        BY <1>1, <1>2, <1>3 DEF ProofInv
      <3>. QED BY <1>4, <3>1 DEF Established, IsCommand, IsProof, IsChallenge, Protected
    <2>3. IsCommand(packet) /\ s_auth.authenticated => ~AuthRefused(r)
      <3>. SUFFICES ASSUME IsCommand(packet), s_auth.authenticated PROVE ~AuthRefused(r)
        OBVIOUS
      <3>1. Joined
        BY <2>2 DEF Joined
      <3>2. ~Rejects(packet, r)
        BY <3>1, NoRejects
      <3>3. Repeats(packet, r) => ~AuthRefused(r)
        BY <1>2, <3>1 DEF Repeats, CacheInv
      <3>4. Repeats(packet, r) \/ Executes(packet, r)
        BY <3>2 DEF DeviceActs, TakesChallenge, TakesProof, TakesOther, Refuses,
                    IsCommand, IsChallenge, IsProof, Protected
      <3>. QED BY <3>3, <3>4 DEF Executes
    <2>4. CASE NoSession
      <3>1. UNCHANGED s_auth
        BY <1>1, <2>1, <2>4 DEF DeviceActs, TakesChallenge, TakesProof, TakesOther, Refuses, Repeats,
                                Rejects, Executes, Adds, NoSession
      <3>. QED BY <1>1, <2>1, <2>4, <3>1 DEF EstablishedInv, NoSession
    <2>5. CASE s_auth.authenticated /\ s_auth.key = h.key
      <3>1. s_auth'.authenticated /\ s_auth'.key = h.key
        BY <1>1, <2>1, <2>5 DEF DeviceActs, TakesChallenge, TakesProof, TakesOther, Refuses, Repeats,
                                Rejects, Executes, Adds, SessionKept
      <3>2. ~AuthRefused(r)
        BY <1>1, <2>1, <2>3, <2>5 DEF DeviceActs, TakesChallenge, TakesProof, TakesOther, Refuses,
                                Repeats, Rejects, Executes, Adds, NoSession, AuthRefused
      <3>3. \A x \in On(toHost') : ~AuthRefused(x)
        BY <1>1, <2>1, <2>5, <3>2 DEF NoSession
      <3>. QED BY <1>1, <2>1, <3>1, <3>3 DEF EstablishedInv
    <2>. QED BY <2>1, <2>4, <2>5
  <1>5. CASE ~Established /\ Established'
    <2>1. h.phase = "PROOF" /\ r.kind = "ACK" /\ r.seq = h.seq
      BY <1>1, <1>5 DEF Established
    <2>2. packet = h.pkt
      BY <1>1, <1>2, <2>1 DEF ProofInv
    <2>3. TakesProof(packet, r)
      BY <1>3, <2>1, <2>2
         DEF DeviceActs, TakesChallenge, TakesOther, Refuses, Repeats, Rejects, Executes, Adds,
             IsChallenge, IsProof, IsCommand, Protected, AuthCommands
    <2>4. /\ ~NoSession /\ s_auth.key = h.key /\ s_auth'.authenticated /\ s_auth'.key = h.key
          /\ ~AuthRefused(r)
      BY <1>3, <2>1, <2>2, <2>3 DEF TakesProof, AuthRefused
    <2>5. \A x \in On(toHost') : ~AuthRefused(x)
      BY <1>1, <1>2, <2>1, <2>4 DEF ProofInv
    <2>6. \A q \in On(toDevice') : ~IsChallenge(q) /\ q.key = h.key
      BY <1>1, <1>3, <2>1, <2>2 DEF OnlyPkt, IsChallenge, IsProof
    <2>. QED BY <1>1, <2>4, <2>5, <2>6 DEF EstablishedInv
  <1>. QED BY <1>4, <1>5 DEF EstablishedInv

\* The device remembers its own answers to this session's requests.
LEMMA CacheKept ==
    ASSUME Keyed, LinkInv, TrueAckInv, FewRequests, VerdictInv,
           NEW packet, NEW r, DeviceActs(packet, r)
    PROVE  CacheInv'
  <1>1. /\ LineInv /\ OrderInv /\ packet \in On(toDevice) /\ Sound(packet) /\ packet.id \in 1 .. h.id
        /\ On(toDevice') \subseteq On(toDevice) /\ UNCHANGED <<h, boots, since>>
        /\ OnlyPkt => OnlyPkt'
        /\ packet = h.pkt => OnlyPkt'
    BY Acting
  <1>. SUFFICES ASSUME Joined', NEW e \in Remembered'
                PROVE  /\ e.request.key = h.key /\ ~AuthRefused(e.response)
                       /\ e.request.id \in 1 .. h.id /\ Apart(e.request.id, e.request.seq)
                       /\ \A q \in On(toDevice') :
                            IsCommand(q) /\ q.id = e.request.id => q.payload = e.request.payload
                       /\ Waiting /\ e.request.id = h.id => e.request = h.pkt /\ OnlyPkt'
    BY <1>1 DEF CacheInv, Apart, Waiting
  <1>2. Joined /\ s_auth.key = h.key
    BY <1>1, SharedBefore
  <1>3. e \in Remembered \/ (Adds(packet, r) /\ e = Entry(packet, r))
    BY Kept DEF Adds
  <1>4. CASE e \in Remembered
    BY <1>1, <1>2, <1>4 DEF VerdictInv, CacheInv
  <1>5. CASE Adds(packet, r) /\ e = Entry(packet, r)
    <2>1. e.request = packet /\ e.response = r
      BY <1>5 DEF Entry
    <2>2. IsCommand(packet) /\ packet.key = h.key
      BY <1>2, <1>5 DEF Adds
    <2>3. ~AuthRefused(r)
      <3>1. ~Rejects(packet, r)
        BY <1>2, NoRejects
      <3>2. Executes(packet, r) \/ Repeats(packet, r)
        BY <1>2, <2>2, <3>1
           DEF DeviceActs, TakesChallenge, TakesProof, TakesOther, Refuses, Joined,
               IsCommand, IsChallenge, IsProof, Protected
      <3>3. Repeats(packet, r) => ~AuthRefused(r)
        BY <1>2 DEF Repeats, VerdictInv, CacheInv
      <3>. QED BY <3>2, <3>3 DEF Executes
    <2>4. Apart(packet.id, packet.seq)
      BY <1>1, <1>2, <2>2 DEF Sound, InSession, Ours, Joined
    <2>5. \A q \in On(toDevice') : IsCommand(q) /\ q.id = packet.id => q.payload = packet.payload
      BY <1>1, <2>2 DEF OrderInv, OneCommand
    <2>6. Waiting /\ packet.id = h.id => packet = h.pkt
      BY <1>1, <1>2, <2>2, OursIsPkt DEF Joined
    <2>. QED BY <1>1, <2>1, <2>2, <2>3, <2>4, <2>5, <2>6
  <1>. QED BY <1>3, <1>4, <1>5

\* The device gives one answer to a request, and repeats it.
LEMMA AnswerKept ==
    ASSUME Keyed, LinkInv, TrueAckInv, FewRequests, VerdictInv,
           NEW packet, NEW r, DeviceActs(packet, r)
    PROVE  AnswerInv'
  <1>1. /\ HostInv /\ LineInv /\ packet \in On(toDevice) /\ Sound(packet)
        /\ packet.id \in 1 .. h.id
        /\ On(toDevice') \subseteq On(toDevice) /\ UNCHANGED <<h, boots, since>>
        /\ OnlyPkt => OnlyPkt' /\ packet = h.pkt
        /\ packet = h.pkt => OnlyPkt'
        /\ On(toHost') = On(toHost) \cup {r} /\ r.seq = packet.seq
    BY Acting
  <1>. SUFFICES ASSUME h.authenticated PROVE AnswerInv'
    BY <1>1 DEF AnswerInv
  <1>2. AnswerInv /\ CacheInv /\ DeviceSessionInv
    BY DEF VerdictInv
  <1>3. /\ ~IsChallenge(packet) /\ (NoSession \/ (s_auth.authenticated /\ s_auth.key = h.key))
    BY <1>1 DEF VerdictInv, EstablishedInv, Established
  <1>4. s_auth.authenticated => Joined /\ s_auth.key = h.key
    BY <1>3 DEF Joined, NoSession
  <1>5. ~Rejects(packet, r)
    BY <1>4, NoRejects DEF Rejects, Adds
  <1>6. s_auth'.authenticated <=> s_auth.authenticated
    BY <1>3 DEF DeviceActs, TakesChallenge, TakesProof, TakesOther, Refuses, Repeats, Rejects,
                Executes, Adds, SessionKept, NoSession
  <1>7. r.cmd \in Protected => Repeats(packet, r) \/ Executes(packet, r)
    BY <1>5 DEF DeviceActs, TakesChallenge, TakesProof, TakesOther, Refuses, IsChallenge, Protected
  <1>8. Executes(packet, r) \/ Remembered' = Remembered
    BY <1>3, <1>5
       DEF DeviceActs, TakesChallenge, TakesProof, TakesOther, Refuses, Repeats, Remembered
  <1>9. Executes(packet, r) =>
          /\ s_auth.authenticated /\ IsCommand(packet) /\ packet.key = h.key
          /\ \E id \in 1 .. h.id : Apart(id, packet.seq)
          /\ packet.seq = h.seq => packet.id = h.id
    <2>. SUFFICES ASSUME Executes(packet, r)
                  PROVE  /\ s_auth.authenticated /\ IsCommand(packet) /\ packet.key = h.key
                         /\ \E id \in 1 .. h.id : Apart(id, packet.seq)
                         /\ packet.seq = h.seq => packet.id = h.id
      OBVIOUS
    <2>1. s_auth.authenticated /\ IsCommand(packet) /\ packet.key = h.key
      BY <1>4 DEF Executes, Adds
    <2>2. InSession /\ Ours(packet)
      BY <2>1 DEF InSession, Ours
    <2>. QED BY <1>1, <2>1, <2>2, AnswerToOurs
  <1>10. ASSUME NEW x \in On(toHost'), x.cmd \in Protected, x.key = h.key
         PROVE  \E id \in 1 .. h.id : Apart(id, x.seq)
    <2>1. CASE x \in On(toHost)
      BY <1>2, <1>10, <2>1 DEF AnswerInv
    <2>2. CASE x = r /\ Executes(packet, r)
      BY <1>1, <1>9, <2>2
    <2>3. CASE x = r /\ Repeats(packet, r)
      <3>1. PICK e \in Remembered : r = e.response
        BY <2>3 DEF Repeats
      <3>2. e.request.id \in 1 .. h.id /\ Apart(e.request.id, r.seq)
        BY <1>2, <1>4, <2>3, <3>1 DEF CacheInv, DeviceSessionInv, Repeats
      <3>. QED BY <2>3, <3>2
    <2>. QED BY <1>1, <1>7, <1>10, <2>1, <2>2, <2>3
  <1>11. ASSUME Waiting
         PROVE  /\ \A x \in On(toHost') :
                     AnswersUs(x) => OnlyPkt' /\ (s_auth'.authenticated => Handled')
                /\ Logged' => s_auth'.authenticated /\ Handled'
                /\ \A x \in On(toHost') \cup Cached' : AnswersUs(x) => RightAnswer(x)'
    <2>1. CASE Executes(packet, r)
      <3>1. /\ ~Handled /\ ~Logged
            /\ \A x \in On(toHost) \cup Cached : ~AnswersUs(x)
        BY <1>4, <1>9, <1>11, <2>1, OneAnswer
      <3>2. packet.id = h.id => /\ packet = h.pkt /\ Handled' /\ OnlyPkt'
        <4>1. packet.id = h.id => packet = h.pkt
          BY <1>1, <1>9, <1>11, <2>1, OursIsPkt
        <4>2. Entry(packet, r) \in Remembered' /\ Entry(packet, r).request = packet
          BY <2>1 DEF Executes, Adds, Entry
        <4>. QED BY <1>1, <4>1, <4>2 DEF Handled
      <3>3. Logged' => r.kind = "ACK" /\ packet.id = h.id
        BY <2>1, <3>1 DEF Executes
      <3>4. AnswersUs(r) => packet.id = h.id
        BY <1>1, <1>9, <2>1 DEF AnswersUs
      <3>5. AnswersUs(r) => RightAnswer(r)'
        <4>1. packet.id = h.id => packet.cmd = Head(h.todo).cmd
          BY <1>1, <1>9, <1>11, <2>1 DEF LinkInv, OrderInv, OneCommand
        <4>2. Head(h.todo).cmd = "OTA_ABORT" /\ AnswersUs(r) => ~s_ota'.active
          BY <2>1, <3>4, <4>1 DEF Executes
        <4>. QED BY <1>1, <3>3, <4>2 DEF RightAnswer
      <3>6. \A x \in On(toHost') \cup Cached' : AnswersUs(x) => x = r
        BY <1>1, <3>1, Kept
      <3>. QED BY <1>6, <1>9, <2>1, <3>2, <3>3, <3>4, <3>5, <3>6
    <2>2. CASE ~Executes(packet, r)
      <3>1. Remembered' = Remembered /\ UNCHANGED s_ota /\ (Logged' => Logged)
        BY <1>8, <2>2, Kept
      <3>2. Handled => Handled'
        BY <1>1, <3>1 DEF Handled
      <3>3. r.cmd \in Protected => r \in Cached
        BY <1>1, <1>7, <2>2, CacheFields DEF Repeats
      <3>4. AnswersUs(r) => OnlyPkt /\ Handled
        <4>. SUFFICES ASSUME AnswersUs(r) PROVE OnlyPkt /\ Handled
          OBVIOUS
        <4>1. s_auth.authenticated /\ \E e \in Remembered : r = e.response
          BY <1>7, <2>2 DEF Repeats, AnswersUs
        <4>. QED BY <1>4, <1>11, <4>1, CachedAnswer DEF AnswersUs
      <3>5. \A x \in On(toHost') :
              AnswersUs(x) => OnlyPkt' /\ (s_auth'.authenticated => Handled')
        BY <1>1, <1>2, <1>6, <1>11, <3>2, <3>4 DEF AnswerInv
      <3>6. Logged' => s_auth'.authenticated /\ Handled'
        BY <1>2, <1>6, <1>11, <3>1, <3>2 DEF AnswerInv
      <3>7. ASSUME NEW x \in On(toHost') \cup Cached', AnswersUs(x) PROVE RightAnswer(x)'
        <4>1. x \in On(toHost) \cup Cached
          BY <1>1, <3>3, <3>7, Kept DEF AnswersUs
        <4>2. RightAnswer(x)
          BY <1>2, <1>11, <3>7, <4>1 DEF AnswerInv
        <4>. QED BY <1>1, <3>1, <4>2 DEF RightAnswer
      <3>. QED BY <3>5, <3>6, <3>7
    <2>. QED BY <2>1, <2>2
  <1>12. \A x \in On(toHost') : x.cmd \in Protected /\ x.key = h'.key =>
           \E id \in 1 .. h'.id : Apart(id, x.seq)'
    BY <1>1, <1>10 DEF Apart
  <1>. QED BY <1>1, <1>11, <1>12 DEF AnswerInv, AnswersUs, Waiting

\* Whatever packet the device takes.
LEMMA DeviceVerdict ==
    ASSUME Keyed, LinkInv, TrueAckInv, FewRequests, VerdictInv, UNCHANGED since,
           TakeAuth \/ TakeUnadmitted \/ TakeAdmitted \/ TakeOther
    PROVE  VerdictInv'
  <1>1. PICK packet, r : DeviceActs(packet, r)
    BY AuthActs, UnadmittedActs, AdmittedActs, OtherActs DEF VerdictInv
  <1>2. AtEnd'
    BY <1>1, Acting
  <1>. QED BY <1>1, <1>2, DeviceSessionKept, ChallengeKept, ProofKept, EstablishedKept, CacheKept,
              AnswerKept DEF VerdictInv

\* Answers to the challenge come last, whatever is taken before them.
AnswersAtEnd ==
    \A i, j \in 1 .. Len(toHost) : i < j /\ IsAnswer(toHost[i]) => IsAnswer(toHost[j])

\* A response taken from the line leaves the answers to the challenge last.
LEMMA AnswersLast ==
    ASSUME LineInv, toHost # <<>>, toHost' = Tail(toHost), h'.nonce = h.nonce, AnswersAtEnd
    PROVE  AnswersAtEnd'
  <1>1. /\ Len(toHost') = Len(toHost) - 1 /\ Len(toHost) \in Nat /\ Len(toHost) > 0
        /\ \A i \in 1 .. Len(toHost) - 1 : toHost'[i] = toHost[i + 1]
    BY TakenOff DEF LineInv
  <1>2. \A i \in 1 .. Len(toHost') :
          i + 1 \in 1 .. Len(toHost) /\ toHost'[i] = toHost[i + 1]
    BY <1>1
  <1>3. \A i, j \in 1 .. Len(toHost') : i < j => i + 1 < j + 1
    BY <1>1
  <1>4. \A x : IsAnswer(x)' <=> IsAnswer(x)
    BY DEF IsAnswer
  <1>. QED BY <1>2, <1>3, <1>4 DEF AnswersAtEnd

\* A line loses a packet, the health task runs, a rollback fails, or nothing happens.
LEMMA QuietVerdict ==
    ASSUME LinkInv, VerdictInv, UNCHANGED since,
           LoseRequest \/ LoseResponse \/ HealthTask \/ DropRollback \/ UNCHANGED vars
    PROVE  VerdictInv'
  <1>1. /\ UNCHANGED <<h, s_ota, s_auth, boots>>
        /\ UNCHANGED toDevice \/ (toDevice # <<>> /\ toDevice' = Tail(toDevice))
        /\ UNCHANGED toHost \/ (toHost # <<>> /\ toHost' = Tail(toHost))
    BY DEF LoseRequest, LoseResponse, HealthTask, HealthCheck, HealthConfirm, HealthFails,
           DropRollback, RollbackFails, vars, hostVars, linkVars, deviceVars, ramVars
  <1>2. LineInv
    BY DEF LinkInv
  <1>3. AtEnd /\ CommandsFirst
    BY DEF VerdictInv, DeviceSessionInv, CommandsFirst
  <1>4. /\ On(toDevice') \subseteq On(toDevice) /\ AtEnd' /\ CommandsFirst' /\ (OnlyPkt => OnlyPkt')
    <2>1. CASE UNCHANGED toDevice
      BY <1>1, <1>3, <2>1 DEF AtEnd, CommandsFirst, OnlyPkt
    <2>2. CASE toDevice # <<>> /\ toDevice' = Tail(toDevice)
      BY <1>1, <1>2, <1>3, <2>2, LineTaken
    <2>. QED BY <1>1, <2>1, <2>2
  <1>5. On(toHost') \subseteq On(toHost)
    BY <1>1, <1>2, TakenOff DEF LineInv
  <1>6. Logged' => Logged
    <2>1. \/ UNCHANGED log
          \/ /\ Len(log') = Len(log)
             /\ \A i \in 1 .. Len(log) : log'[i].id = log[i].id /\ log'[i].boot = log[i].boot
      <3>1. CASE DropRollback
        BY <3>1, DroppedLog
      <3>. QED BY <3>1 DEF LoseRequest, LoseResponse, HealthTask, vars, linkVars
    <2>. QED BY <1>1, <2>1 DEF Logged
  <1>7. Remembered' = Remembered /\ Cached' = Cached /\ (Handled => Handled')
    BY <1>1 DEF Remembered, Cached, Handled
  <1>8. DeviceSessionInv'
    BY <1>1, <1>4, <1>5, <1>7 DEF VerdictInv, DeviceSessionInv, CommandsFirst, Used, Authenticating
  <1>9. ChallengeInv'
    <2>. SUFFICES ASSUME h.phase = "CHALLENGE" PROVE ChallengeInv'
      BY <1>1 DEF ChallengeInv
    <2>1. ChallengeInv
      BY DEF VerdictInv
    <2>2. AnswersAtEnd'
      <3>1. CASE UNCHANGED toHost
        BY <1>1, <2>1, <3>1 DEF ChallengeInv, AnswersAtEnd, IsAnswer
      <3>2. CASE toHost # <<>> /\ toHost' = Tail(toHost)
        BY <1>2, <2>1, <1>1, <3>2, AnswersLast DEF ChallengeInv, AnswersAtEnd
      <3>. QED BY <1>1, <3>1, <3>2
    <2>. QED BY <1>1, <1>4, <1>5, <1>6, <2>1, <2>2 DEF ChallengeInv, AnswersAtEnd, IsAnswer, NoSession
  <1>10. ProofInv'
    BY <1>1, <1>4, <1>5, <1>6 DEF VerdictInv, ProofInv, NoSession
  <1>11. EstablishedInv'
    BY <1>1, <1>4, <1>5 DEF VerdictInv, EstablishedInv, Established, NoSession
  <1>12. CacheInv'
    BY <1>1, <1>4, <1>7 DEF VerdictInv, CacheInv, Joined, Apart, Waiting
  <1>13. AnswerInv'
    <2>1. \A x : RightAnswer(x) => RightAnswer(x)'
      BY <1>1, <1>6 DEF RightAnswer
    <2>. QED BY <1>1, <1>4, <1>5, <1>6, <1>7, <2>1
             DEF VerdictInv, AnswerInv, AnswersUs, Apart, Waiting
  <1>. QED BY <1>4, <1>8, <1>9, <1>10, <1>11, <1>12, <1>13 DEF VerdictInv

\* A reset.
LEMMA ResetVerdict ==
    ASSUME LinkInv, VerdictInv, UNCHANGED since, CarryOut \/ SpontaneousReset
    PROVE  VerdictInv'
  <1>1. /\ s_auth' = ConfiguredAuth /\ toDevice' = <<>> /\ boots' = boots + 1
        /\ UNCHANGED <<toHost, h, told, log>>
    BY DEF CarryOut, SpontaneousReset, LinkReset
  <1>2. ~s_ota'.active
    BY ResetSteps DEF CarryOut, SpontaneousReset, ResetStep, RamReset, ZeroOta
  <1>3. Len(toDevice') = 0
    BY <1>1
  <1>4. On(toDevice') = {}
    BY <1>3 DEF On
  <1>5. Cached' = {} /\ Remembered' = {}
    BY <1>1, NothingCached, NothingRemembered DEF ConfiguredAuth
  <1>6. NoSession'
    BY <1>1 DEF NoSession, ConfiguredAuth
  <1>7. ~Logged'
    <2>1. \A i \in 1 .. Len(log) : log[i].boot \in Nat /\ log[i].boot <= boots
      BY LogEntries DEF LinkInv, OrderInv, LogInOrder
    <2>2. boots \in Nat
      BY DEF LinkInv, LineInv
    <2>. QED BY <1>1, <2>1, <2>2 DEF Logged
  <1>8. AtEnd' /\ OnlyPkt'
    BY <1>3, <1>4 DEF AtEnd, OnlyPkt
  <1>9. DeviceSessionInv'
    BY <1>1, <1>3, <1>4, <1>5, <1>6 DEF VerdictInv, DeviceSessionInv, NoSession, Used, Authenticating
  <1>10. ChallengeInv' /\ ProofInv'
    BY <1>1, <1>4, <1>6, <1>7, <1>8 DEF VerdictInv, ChallengeInv, ProofInv, IsAnswer
  <1>11. EstablishedInv'
    BY <1>4, <1>6 DEF EstablishedInv
  <1>12. CacheInv'
    BY <1>5 DEF CacheInv
  <1>13. AnswerInv'
    BY <1>1, <1>2, <1>5, <1>6, <1>7, <1>8
       DEF VerdictInv, AnswerInv, RightAnswer, AnswersUs, Apart, Waiting, NoSession
  <1>. QED BY <1>8, <1>9, <1>10, <1>11, <1>12, <1>13 DEF VerdictInv

-----------------------------------------------------------------------------
\* What the client does, and what it leaves alone.
HostWorks ==
    /\ HostMoves /\ HostStep /\ Counts /\ On(toHost') \subseteq On(toHost)
    /\ h'.phase # "IDLE" => UNCHANGED toHost \/ (toHost # <<>> /\ toHost' = Tail(toHost))
    /\ UNCHANGED <<s_ota, s_auth, boots, log>>
    /\ Remembered' = Remembered /\ Cached' = Cached

\* A step of the client is such work.
LEMMA HostWorking ==
    ASSUME LinkInv, Counts, HostMoves
    PROVE  HostWorks
  <1>1. HostInv /\ LineInv
    BY DEF LinkInv
  <1>2. /\ HostStep /\ On(toHost') \subseteq On(toHost)
        /\ UNCHANGED <<deviceVars, s_auth, boots, log>>
    BY <1>1, HostSteps
  <1>3. TakeOver => h'.phase = "IDLE"
    BY DEF TakeOver, ClientRestarts, NewClient
  <1>4. h'.phase # "IDLE" => UNCHANGED toHost \/ (toHost # <<>> /\ toHost' = Tail(toHost))
    BY <1>3 DEF HostMoves, Operate, Timeout, Receive
  <1>5. Remembered' = Remembered /\ Cached' = Cached
    BY <1>2 DEF Remembered, Cached
  <1>. QED BY <1>2, <1>4, <1>5 DEF HostWorks, deviceVars, ramVars

\* The client waits, or is back at the prompt.
LEMMA QuietHostVerdict ==
    ASSUME LinkInv, LinkInv', TrueAckInv, VerdictInv, HostWorks, HostQuiet
    PROVE  VerdictInv'
  <1>1. HostInv /\ HostInv' /\ LineInv /\ UNCHANGED <<toDevice, s_ota, s_auth, boots, log>>
    BY DEF LinkInv, HostWorks, HostQuiet
  <1>2. /\ On(toHost') \subseteq On(toHost) /\ Remembered' = Remembered /\ Cached' = Cached
    BY DEF HostWorks
  <1>3. h'.id = h.id /\ h'.nonce = h.nonce /\ (Logged' <=> Logged)
    BY <1>1 DEF HostQuiet, Logged
  <1>. WaitInv /\ Counts
    BY DEF TrueAckInv, HostWorks
  <1>4. CASE h' = h
    <2>. UNCHANGED since
      BY <1>4 DEF WaitInv, Counts, InSession
    <2>1. AtEnd' /\ (OnlyPkt' <=> OnlyPkt)
      BY <1>1, <1>4 DEF VerdictInv, AtEnd, OnlyPkt
    <2>2. DeviceSessionInv'
      BY <1>1, <1>2, <1>4 DEF VerdictInv, DeviceSessionInv, Used, Authenticating
    <2>3. ChallengeInv'
      <3>. SUFFICES ASSUME h.phase = "CHALLENGE" PROVE ChallengeInv'
        BY <1>4 DEF ChallengeInv
      <3>1. AnswersAtEnd
        BY DEF VerdictInv, ChallengeInv, AnswersAtEnd
      <3>2. CASE UNCHANGED toHost
        BY <1>1, <1>3, <1>4, <2>1, <3>2 DEF VerdictInv, ChallengeInv, IsAnswer, NoSession
      <3>3. CASE toHost # <<>> /\ toHost' = Tail(toHost)
        <4>1. AnswersAtEnd'
          BY <1>1, <1>4, <3>1, <3>3, AnswersLast
        <4>. QED BY <1>1, <1>2, <1>3, <1>4, <2>1, <4>1
             DEF VerdictInv, ChallengeInv, AnswersAtEnd, IsAnswer, NoSession
      <3>. QED BY <1>4, <3>2, <3>3 DEF HostWorks
    <2>4. ProofInv'
      BY <1>1, <1>2, <1>3, <1>4, <2>1 DEF VerdictInv, ProofInv, NoSession
    <2>5. EstablishedInv'
      BY <1>1, <1>2, <1>4 DEF VerdictInv, EstablishedInv, Established, NoSession
    <2>6. CacheInv'
      BY <1>1, <1>2, <1>4, <2>1 DEF VerdictInv, CacheInv, Joined, Apart, Waiting
    <2>7. AnswerInv'
      BY <1>1, <1>2, <1>3, <1>4, <2>1
         DEF VerdictInv, AnswerInv, AnswersUs, RightAnswer, Apart, Waiting, Handled
    <2>. QED BY <2>1, <2>2, <2>3, <2>4, <2>5, <2>6, <2>7 DEF VerdictInv
  <1>5. CASE h'.phase = "IDLE" /\ h'.pkt = NoPacket
    <2>1. AtEnd'
      <3>1. NoPacket.cmd = "NONE"
        BY DEF NoPacket, Request
      <3>2. \A q \in SentPackets : q.cmd # "NONE"
        BY DEF SentPackets, Protected, AuthCommands
      <3>3. \A i \in 1 .. Len(toDevice) : toDevice[i] # NoPacket
        BY <1>1, <3>1, <3>2, Fields DEF On
      <3>. QED BY <1>1, <1>5, <3>3 DEF AtEnd
    <2>3. DeviceSessionInv'
      BY <1>1, <1>2, <1>3, <1>5 DEF VerdictInv, DeviceSessionInv, Used, Authenticating
    <2>4. ChallengeInv' /\ ProofInv'
      BY <1>5 DEF ChallengeInv, ProofInv
    <2>5. h'.authenticated => h.authenticated /\ h'.key = h.key /\ h'.seq = h.seq /\ since' = since
      BY DEF HostQuiet, Counts, InSession
    <2>6. EstablishedInv'
      BY <1>1, <1>2, <1>5, <2>5 DEF VerdictInv, EstablishedInv, Established, NoSession
    <2>7. CacheInv'
      BY <1>1, <1>2, <1>3, <1>5, <2>5 DEF VerdictInv, CacheInv, Joined, Apart, Waiting
    <2>8. AnswerInv'
      BY <1>1, <1>2, <1>3, <1>5, <2>5 DEF VerdictInv, AnswerInv, Apart, Waiting
    <2>. QED BY <2>1, <2>3, <2>4, <2>6, <2>7, <2>8 DEF VerdictInv
  <1>. QED BY <1>4, <1>5 DEF HostQuiet

\* A packet the client sends for the first time, or again.
LEMMA PacketSent ==
    ASSUME LineInv, AtEnd, CommandsFirst, Sends(h'.pkt),
           h'.pkt = h.pkt \/ h'.pkt \notin On(toDevice),
           IsCommand(h'.pkt) => \A q \in On(toDevice) : ~IsChallenge(q)
    PROVE  AtEnd' /\ CommandsFirst' /\ On(toDevice') = On(toDevice) \cup {h'.pkt}
  <1>1. /\ Len(toDevice') = Len(toDevice) + 1 /\ Len(toDevice) \in Nat
        /\ \A i \in 1 .. Len(toDevice) : toDevice'[i] = toDevice[i]
        /\ toDevice'[Len(toDevice) + 1] = h'.pkt
        /\ On(toDevice') = On(toDevice) \cup {h'.pkt}
    BY Sent, OnLine DEF Sends, LineInv
  <1>2. ASSUME NEW i \in 1 .. Len(toDevice'), NEW j \in 1 .. Len(toDevice'), i < j
        PROVE  /\ i \in 1 .. Len(toDevice) /\ toDevice'[i] = toDevice[i]
               /\ toDevice[i] \in On(toDevice)
               /\ \/ j \in 1 .. Len(toDevice) /\ toDevice'[j] = toDevice[j]
                  \/ toDevice'[j] = h'.pkt
    <2>1. i \in 1 .. Len(toDevice) /\ (j \in 1 .. Len(toDevice) \/ j = Len(toDevice) + 1)
      BY <1>1, <1>2
    <2>. QED BY <1>1, <2>1 DEF On
  <1>3. AtEnd'
    BY <1>2 DEF AtEnd
  <1>4. CommandsFirst'
    BY <1>2 DEF CommandsFirst
  <1>. QED BY <1>1, <1>3, <1>4

\* The client sends its packet again.
LEMMA RetryVerdict ==
    ASSUME Keyed, LinkInv, LinkInv', TrueAckInv, VerdictInv, HostWorks, HostRetries
    PROVE  VerdictInv'
  <1>1. HostInv /\ LineInv /\ WaitInv /\ UNCHANGED <<s_ota, s_auth, boots, log>>
    BY DEF LinkInv, TrueAckInv, HostWorks
  <1>2. /\ On(toHost') \subseteq On(toHost) /\ Remembered' = Remembered /\ Cached' = Cached
    BY DEF HostWorks
  <1>3. /\ Waiting /\ Waiting' /\ h'.id = h.id /\ h'.todo = h.todo /\ h'.phase = h.phase
        /\ h'.pkt = h.pkt /\ h'.nonce = h.nonce /\ h'.seq = h.seq
        /\ h'.authenticated = h.authenticated /\ h'.key = h.key /\ Sends(h'.pkt)
    BY DEF HostRetries, SameRequest, Waiting
  <1>. UNCHANGED since
    BY <1>1, <1>3 DEF HostWorks, WaitInv, Counts, InSession
  <1>4. Logged' <=> Logged
    BY <1>1, <1>3 DEF Logged
  \* What the packet is.
  <1>5. /\ h.phase \in {"CHALLENGE", "PROOF", "COMMAND"} /\ Head(h.todo).cmd \in Protected \cup {"PING"}
    BY <1>1, <1>3, FirstRequest
  <1>6. /\ IsCommand(h.pkt) => h.phase = "COMMAND"
        /\ IsChallenge(h.pkt) => h.phase = "CHALLENGE"
        /\ IsProof(h.pkt) => h.phase = "PROOF" /\ h.pkt.key = h.key
    BY <1>1, <1>5 DEF HostInv, IsCommand, IsChallenge, IsProof, Protected
  <1>7. /\ h.authenticated => h.phase = "COMMAND"
        /\ IsCommand(h.pkt) => h.authenticated /\ h.pkt.key = h.key
    BY <1>1, <1>5, <1>6 DEF HostInv, WaitInv, NeedsTag, Keyed, IsCommand
  <1>8. IsCommand(h.pkt) => /\ \A q \in On(toDevice) : ~IsChallenge(q)
                            /\ NoSession \/ (s_auth.authenticated /\ s_auth.key = h.key)
    BY <1>7 DEF VerdictInv, EstablishedInv, Established
  <1>9. AtEnd' /\ CommandsFirst' /\ On(toDevice') = On(toDevice) \cup {h.pkt}
    <2>1. AtEnd /\ CommandsFirst
      BY DEF VerdictInv, DeviceSessionInv, CommandsFirst
    <2>. QED BY <1>1, <1>3, <1>8, <2>1, PacketSent
  <1>10. OnlyPkt => OnlyPkt'
    BY <1>3, <1>9 DEF OnlyPkt
  <1>11. DeviceSessionInv'
    BY <1>1, <1>2, <1>3, <1>7, <1>8, <1>9
       DEF VerdictInv, DeviceSessionInv, CommandsFirst, NoSession, Used, Authenticating
  <1>12. ChallengeInv'
    <2>. SUFFICES ASSUME h.phase = "CHALLENGE" PROVE ChallengeInv'
      BY <1>3 DEF ChallengeInv
    <2>1. AnswersAtEnd'
      <3>1. AnswersAtEnd
        BY DEF VerdictInv, ChallengeInv, AnswersAtEnd
      <3>2. CASE UNCHANGED toHost
        BY <1>3, <3>1, <3>2 DEF AnswersAtEnd, IsAnswer
      <3>3. CASE toHost # <<>> /\ toHost' = Tail(toHost)
        BY <1>1, <1>3, <3>1, <3>3, AnswersLast
      <3>. QED BY <1>3, <3>2, <3>3 DEF HostWorks, Waiting
    <2>2. ~IsCommand(h.pkt)
      BY <1>6
    <2>. QED BY <1>1, <1>2, <1>3, <1>4, <1>9, <1>10, <2>1, <2>2
         DEF VerdictInv, ChallengeInv, AnswersAtEnd, IsAnswer, NoSession
  <1>13. ProofInv'
    BY <1>1, <1>2, <1>3, <1>4, <1>9, <1>10 DEF VerdictInv, ProofInv, NoSession
  <1>14. EstablishedInv'
    <2>. SUFFICES ASSUME Established' PROVE EstablishedInv'
      BY DEF EstablishedInv
    <2>1. Established
      BY <1>2, <1>3 DEF Established
    <2>2. ~IsChallenge(h.pkt)
      BY <1>6, <1>7, <2>1 DEF Established
    <2>. QED BY <1>1, <1>2, <1>3, <1>6, <1>9, <2>1, <2>2 DEF VerdictInv, EstablishedInv, NoSession
  <1>15. CacheInv'
    <2>. SUFFICES ASSUME Joined, NEW e \in Remembered
                  PROVE  /\ e.request.key = h.key /\ ~AuthRefused(e.response)
                         /\ e.request.id \in 1 .. h.id /\ Apart(e.request.id, e.request.seq)
                         /\ \A q \in On(toDevice') :
                              IsCommand(q) /\ q.id = e.request.id => q.payload = e.request.payload
                         /\ e.request.id = h.id => e.request = h.pkt /\ OnlyPkt'
      BY <1>1, <1>2, <1>3 DEF CacheInv, Joined, Apart
    <2>1. /\ e.request.key = h.key /\ ~AuthRefused(e.response)
          /\ e.request.id \in 1 .. h.id /\ Apart(e.request.id, e.request.seq)
          /\ \A q \in On(toDevice) :
               IsCommand(q) /\ q.id = e.request.id => q.payload = e.request.payload
          /\ e.request.id = h.id => e.request = h.pkt /\ OnlyPkt
      BY <1>3 DEF VerdictInv, CacheInv
    <2>2. h.pkt.id = h.id
      BY <1>1, <1>3 DEF HostInv
    <2>. QED BY <1>9, <1>10, <2>1, <2>2
  <1>16. AnswerInv'
    BY <1>1, <1>2, <1>3, <1>4, <1>10
       DEF VerdictInv, AnswerInv, AnswersUs, RightAnswer, Apart, Handled
  <1>. QED BY <1>9, <1>11, <1>12, <1>13, <1>14, <1>15, <1>16 DEF VerdictInv

\* The client begins a session, for a new request or for one the device does not
\* know the session of.
LEMMA ChallengeVerdict ==
    ASSUME Keyed, LinkInv, LinkInv', TrueAckInv, VerdictInv, HostWorks, HostChallenges
    PROVE  VerdictInv'
  <1>1. /\ HostInv /\ LineInv /\ NonceInv /\ OrderInv /\ WaitInv /\ EffectInv
        /\ UNCHANGED <<s_ota, s_auth, boots, log>>
    BY DEF LinkInv, TrueAckInv, HostWorks
  <1>2. On(toHost') \subseteq On(toHost) /\ Remembered' = Remembered /\ Cached' = Cached
    BY DEF HostWorks
  <1>3. /\ h'.phase = "CHALLENGE" /\ ~h'.authenticated /\ h'.nonce = h.nonce + 1
        /\ Sends(h'.pkt) /\ IsChallenge(h'.pkt) /\ h'.pkt.key.client = h'.nonce
    BY DEF HostChallenges
  <1>4. h.nonce \in Nat /\ h.id \in Nat
    BY <1>1, Counters
  <1>5. /\ \A q \in On(toDevice) : q.key.client \in Nat /\ q.id \in Nat
        /\ \A r \in On(toHost) \cup Cached : r.key.client \in Nat
    BY <1>1, Fields
  \* The nonce is new.
  <1>6. \A q \in On(toDevice) : IsChallenge(q) => q.key.client # h'.nonce
    BY <1>1, <1>3, <1>4, <1>5 DEF NonceInv, NoncesInOrder
  <1>7. \A r \in On(toHost') : ~(IsChallenge(r) /\ r.key.client = h'.nonce)
    BY <1>1, <1>2, <1>3, <1>4, <1>5 DEF NonceInv, Issued
  <1>8. /\ ~IsCommand(h'.pkt)
        /\ AtEnd' /\ CommandsFirst' /\ On(toDevice') = On(toDevice) \cup {h'.pkt}
    <2>1. AtEnd /\ CommandsFirst
      BY DEF VerdictInv, DeviceSessionInv, CommandsFirst
    <2>2. ~IsCommand(h'.pkt)
      BY <1>3 DEF IsCommand, IsChallenge, Protected
    <2>3. h'.pkt \notin On(toDevice)
      BY <1>3, <1>6
    <2>. QED BY <1>1, <1>3, <2>1, <2>2, <2>3, PacketSent
  <1>9. DeviceSessionInv'
    <2>1. \A r \in On(toHost) \cup Cached : r.cmd \in Protected => Used(r.key)'
      BY <1>3, <1>4, <1>5 DEF VerdictInv, DeviceSessionInv, Used, Authenticating
    <2>. QED BY <1>1, <1>2, <1>8, <2>1 DEF VerdictInv, DeviceSessionInv, CommandsFirst
  <1>10. /\ (\E q \in On(toDevice) : IsCommand(q) /\ q.id = h'.id) => NoSession
         /\ ~Logged'
    <2>1. CASE SameRequest /\ Refused
      <3>1. h.authenticated
        BY <1>1, <2>1 DEF Refused, WaitInv
      <3>2. NoSession
        BY <2>1, <3>1 DEF VerdictInv, EstablishedInv, Established, Refused, _is_auth_required, AuthRefused
      <3>3. ~Logged
        BY <2>1, <3>1, <3>2 DEF VerdictInv, AnswerInv, NoSession, SameRequest
      <3>. QED BY <1>1, <2>1, <3>2, <3>3 DEF Logged, SameRequest
    <2>2. CASE NewRequest
      <3>1. h'.id = h.id + 1
        BY <2>2 DEF NewRequest
      <3>2. \A q \in On(toDevice) : q.id # h'.id
        BY <1>1, <1>4, <1>5, <3>1 DEF OrderInv, LineInOrder
      <3>3. \A i \in 1 .. Len(log) : log[i].id # h'.id
        BY <1>1, <1>4, <3>1, LogEntries DEF EffectInv
      <3>. QED BY <1>1, <3>2, <3>3 DEF Logged
    <2>. QED BY <2>1, <2>2 DEF HostChallenges
  <1>11. ChallengeInv'
    <2>1. AnswersAtEnd'
      BY <1>7 DEF AnswersAtEnd, IsAnswer, On
    <2>. QED BY <1>1, <1>6, <1>7, <1>8, <1>10, <2>1 DEF ChallengeInv, AnswersAtEnd, IsAnswer, NoSession
  <1>12. ProofInv' /\ EstablishedInv' /\ CacheInv' /\ AnswerInv'
    BY <1>3 DEF ProofInv, EstablishedInv, Established, CacheInv, Joined, AnswerInv
  <1>. QED BY <1>8, <1>9, <1>11, <1>12 DEF VerdictInv

\* The client proves that it has the key.  Nothing but copies of the challenge,
\* and answers to it, are left of what was before.
LEMMA ProveVerdict ==
    ASSUME LinkInv, LinkInv', TrueAckInv, VerdictInv, HostWorks, HostProves
    PROVE  VerdictInv'
  <1>1. /\ HostInv /\ LineInv /\ WaitInv /\ UNCHANGED <<s_ota, s_auth, boots, log>>
    BY DEF LinkInv, TrueAckInv, HostWorks
  <1>2. On(toHost') \subseteq On(toHost) /\ Remembered' = Remembered /\ Cached' = Cached
    BY DEF HostWorks
  <1>3. /\ h.phase = "CHALLENGE" /\ h'.phase = "PROOF" /\ ~h'.authenticated
        /\ h'.nonce = h.nonce /\ h'.id = h.id /\ Sends(h'.pkt) /\ IsProof(h'.pkt)
        /\ IsChallenge(h.pkt) /\ h.pkt.key.client = h.nonce /\ h.pkt.seq = h.seq
    BY <1>1 DEF HostProves, SameRequest, HostInv, IsChallenge, WaitInv
  <1>4. h'.seq # h.seq
    <2>1. /\ h.seq \in Nat /\ SequenceModulus \in Nat /\ SequenceModulus > 1
      BY <1>1, Counters
    <2>. QED BY <1>1, <2>1, NumberFollows DEF HostProves, Draws
  \* The answer that came first.
  <1>5. \A r \in On(toHost) : IsAnswer(r)
    <2>1. PICK r \in On(toHost) : IsChallenge(r) /\ r.key = h'.key /\ r = Head(toHost)
      BY DEF HostProves
    <2>2. IsAnswer(r)
      BY <1>3, <2>1 DEF HostProves, IsAnswer
    <2>3. toHost # <<>> /\ Len(toHost) \in Nat /\ Head(toHost) = toHost[1]
      <3>1. toHost \in Seq(Answers)
        BY <1>1 DEF LineInv
      <3>2. toHost # <<>>
        BY <2>1 DEF On
      <3>. QED BY <3>1, <3>2
    <2>4. \A i \in 1 .. Len(toHost) : i = 1 \/ (1 < i /\ 1 \in 1 .. Len(toHost))
      BY <2>3
    <2>. QED BY <1>3, <2>1, <2>2, <2>3, <2>4 DEF VerdictInv, ChallengeInv, On
  <1>6. /\ \A q \in On(toDevice) : q = h.pkt
        /\ \A r \in On(toHost) : r.seq = h.seq /\ ~AuthRefused(r)
    <2>1. On(toHost) # {}
      BY DEF HostProves
    <2>. QED BY <1>3, <1>5, <2>1 DEF VerdictInv, ChallengeInv, OnlyPkt
  <1>7. /\ ~IsCommand(h'.pkt)
        /\ AtEnd' /\ CommandsFirst' /\ On(toDevice') = On(toDevice) \cup {h'.pkt}
    <2>1. AtEnd /\ CommandsFirst
      BY DEF VerdictInv, DeviceSessionInv, CommandsFirst
    <2>2. ~IsCommand(h'.pkt) /\ h'.pkt \notin On(toDevice)
      BY <1>3, <1>6 DEF IsCommand, IsChallenge, IsProof, Protected
    <2>. QED BY <1>1, <1>3, <2>1, <2>2, PacketSent
  <1>8. DeviceSessionInv'
    BY <1>1, <1>2, <1>3, <1>7
       DEF VerdictInv, DeviceSessionInv, CommandsFirst, Used, Authenticating
  <1>9. ProofInv'
    <2>1. ~Logged'
      BY <1>1, <1>3 DEF VerdictInv, ChallengeInv, Logged
    <2>. QED BY <1>2, <1>3, <1>4, <1>6, <1>7, <2>1 DEF ProofInv
  <1>10. EstablishedInv'
    BY <1>2, <1>3, <1>4, <1>6 DEF EstablishedInv, Established
  <1>11. ChallengeInv' /\ CacheInv' /\ AnswerInv'
    BY <1>3 DEF ChallengeInv, CacheInv, Joined, AnswerInv
  <1>. QED BY <1>7, <1>8, <1>9, <1>10, <1>11 DEF VerdictInv

\* The session is new: nothing is tagged with its key.
LEMMA NothingTagged ==
    ASSUME LinkInv, VerdictInv, h.phase = "PROOF"
    PROVE  /\ \A r \in On(toHost) \cup Cached : ~(r.cmd \in Protected /\ r.key = h.key)
           /\ s_auth.authenticated /\ s_auth.key = h.key => Remembered = {}
  <1>1. HostInv /\ LineInv /\ NonceInv
    BY DEF LinkInv
  <1>2. h.key.client = h.nonce /\ h.nonce \in Nat
    BY <1>1, Counters DEF NonceInv
  <1>3. \A r \in On(toHost) \cup Cached : r.cmd \in Protected => r.key.client < h.nonce
    BY DEF VerdictInv, DeviceSessionInv, Used, Authenticating
  <1>4. \A r \in On(toHost) \cup Cached : ~(r.cmd \in Protected /\ r.key = h.key)
    BY <1>2, <1>3
  <1>5. \A e \in Remembered :
          e.response \in Cached /\ e.response.cmd \in Protected /\ e.response.key = s_auth.key
    BY <1>1, CacheFields DEF VerdictInv, DeviceSessionInv
  <1>. QED BY <1>4, <1>5

\* What was asked before a new request does not answer it.
LEMMA OldAnswers ==
    ASSUME HostInv, HostInv', LineInv, FewRequests', VerdictInv, since \in Nat, UNCHANGED since,
           h.authenticated, NewRequest, Draws, h'.authenticated => h'.key = h.key, h'.authenticated
    PROVE  /\ \A r \in On(toHost) :
                r.cmd \in Protected /\ r.key = h.key =>
                  r.seq # h'.seq /\ \E id \in 1 .. h'.id : Apart(id, r.seq)'
           /\ s_auth.authenticated =>
                \A e \in Remembered :
                  /\ e.request.id \in 1 .. h'.id /\ e.request.id # h'.id
                  /\ Apart(e.request.id, e.request.seq)' /\ e.request.seq # h'.seq
  <1>1. Pace /\ h'.id = h.id + 1 /\ h.id \in Nat /\ h'.id \in Nat
    BY Counters DEF NewRequest, Draws, Pace, HostInv, Hosts
  <1>2. ASSUME NEW id \in 1 .. h.id, NEW seq \in Sequence, Apart(id, seq)
        PROVE  Apart(id, seq)' /\ id \in 1 .. h'.id /\ id # h'.id /\ seq # h'.seq
    <2>1. Apart(id, seq)' /\ id \in 1 .. h'.id
      BY <1>1, <1>2, ApartKept
    <2>2. id # h'.id
      BY <1>1
    <2>3. h'.seq \in Nat /\ SequenceModulus \in Nat /\ h'.id < since + SequenceModulus
      BY Counters DEF FewRequests, HostInv, Hosts, Sequence
    <2>4. seq # h'.seq
      BY <1>1, <2>1, <2>2, <2>3 DEF Apart
    <2>. QED BY <2>1, <2>2, <2>4
  <1>3. ASSUME NEW r \in On(toHost), r.cmd \in Protected, r.key = h.key
        PROVE  r.seq # h'.seq /\ \E id \in 1 .. h'.id : Apart(id, r.seq)'
    <2>1. PICK seq \in Sequence : seq = r.seq
      BY Fields
    <2>2. PICK id \in 1 .. h.id : Apart(id, seq)
      BY <1>3, <2>1 DEF VerdictInv, AnswerInv
    <2>3. Apart(id, seq)' /\ id \in 1 .. h'.id /\ seq # h'.seq
      BY <1>2, <2>2
    <2>. QED BY <2>1, <2>3 DEF Apart
  <1>4. ASSUME s_auth.authenticated, NEW e \in Remembered
        PROVE  /\ e.request.id \in 1 .. h'.id /\ e.request.id # h'.id
               /\ Apart(e.request.id, e.request.seq)' /\ e.request.seq # h'.seq
    <2>1. PICK id \in 1 .. h.id, seq \in Sequence :
            id = e.request.id /\ seq = e.request.seq /\ Apart(id, seq)
      <3>1. e.request.seq \in Sequence
        BY CacheFields DEF SentPackets
      <3>. QED BY <1>4, <3>1 DEF VerdictInv, CacheInv, Joined
    <2>2. Apart(id, seq)' /\ id \in 1 .. h'.id /\ id # h'.id /\ seq # h'.seq
      BY <1>2, <2>1
    <2>. QED BY <2>1, <2>2 DEF Apart
  <1>. QED BY <1>3, <1>4

\* The client sends a command.
LEMMA CommandVerdict ==
    ASSUME Keyed, LinkInv, LinkInv', TrueAckInv, FewRequests', VerdictInv, HostWorks, HostCommands
    PROVE  VerdictInv'
  <1>1. /\ HostInv /\ HostInv' /\ LineInv /\ OrderInv /\ WaitInv /\ EffectInv
        /\ UNCHANGED <<s_ota, s_auth, boots, log>>
    BY DEF LinkInv, TrueAckInv, HostWorks
  <1>2. On(toHost') \subseteq On(toHost) /\ Remembered' = Remembered /\ Cached' = Cached
    BY DEF HostWorks
  <1>3. /\ h'.phase = "COMMAND" /\ Waiting' /\ h'.nonce = h.nonce /\ Sends(h'.pkt)
        /\ h'.pkt.id = h'.id /\ Draws
        /\ h'.authenticated => h'.key = h.key
    BY DEF HostCommands, Sends, Waiting
  <1>4. h.id \in Nat /\ \A q \in On(toDevice) : q.id \in Nat
    BY <1>1, Counters, Fields
  <1>5. ~IsChallenge(h'.pkt) /\ ~IsProof(h'.pkt)
    <2>1. HostInv' /\ Waiting' => PacketOfPhase'
      BY PhasePacket, PTL
    <2>. QED BY <1>1, <1>3, <2>1 DEF PacketOfPhase, IsChallenge, IsProof
  \* The session is established.
  <1>6. h'.authenticated =>
          /\ Established
          /\ (SameRequest /\ h.phase = "PROOF") \/ (NewRequest /\ h.authenticated)
    <2>1. Proven => Established /\ h.phase = "PROOF"
      BY <1>1 DEF Proven, Established, WaitInv, Waiting
    <2>. QED BY <2>1 DEF HostCommands, Established
  <1>7. IsCommand(h'.pkt) => h'.authenticated /\ h'.pkt.key = h.key
    BY <1>3 DEF HostCommands, IsCommand, NeedsTag, Keyed
  <1>8. h'.authenticated =>
          /\ \A q \in On(toDevice) : ~IsChallenge(q) /\ (IsProof(q) => q.key = h.key)
          /\ NoSession \/ (s_auth.authenticated /\ s_auth.key = h.key)
          /\ \A r \in On(toHost) : AuthRefused(r) => NoSession
    BY <1>6 DEF VerdictInv, EstablishedInv
  <1>9. NewRequest => (\A q \in On(toDevice) : q.id # h'.id) /\ ~Logged'
    <2>1. NewRequest => h'.id = h.id + 1
      BY DEF NewRequest
    <2>2. NewRequest => \A q \in On(toDevice) : q.id # h'.id
      BY <1>1, <1>4, <2>1 DEF OrderInv, LineInOrder
    <2>3. NewRequest => \A i \in 1 .. Len(log) : log[i].id # h'.id
      BY <1>1, <1>4, <2>1, LogEntries DEF EffectInv
    <2>. QED BY <1>1, <2>2, <2>3 DEF Logged
  <1>10. AtEnd' /\ CommandsFirst' /\ On(toDevice') = On(toDevice) \cup {h'.pkt}
    <2>1. AtEnd /\ CommandsFirst
      BY DEF VerdictInv, DeviceSessionInv, CommandsFirst
    <2>2. h'.pkt \notin On(toDevice)
      <3>1. CASE NewRequest
        BY <1>3, <1>9, <3>1
      <3>2. CASE Proven
        BY <1>1, <1>5, <3>2 DEF Proven, VerdictInv, ProofInv, HostInv, IsProof
      <3>. QED BY <3>1, <3>2 DEF HostCommands
    <2>. QED BY <1>1, <1>3, <1>7, <1>8, <2>1, <2>2, PacketSent
  <1>11. DeviceSessionInv'
    BY <1>1, <1>2, <1>3, <1>7, <1>8, <1>10
       DEF VerdictInv, DeviceSessionInv, CommandsFirst, NoSession, Used, Authenticating
  <1>12. ChallengeInv' /\ ProofInv'
    BY <1>3 DEF ChallengeInv, ProofInv
  <1>13. EstablishedInv'
    BY <1>1, <1>2, <1>3, <1>5, <1>8, <1>10 DEF EstablishedInv, Established, NoSession
  <1>14. CacheInv' /\ AnswerInv'
    <2>. SUFFICES ASSUME h'.authenticated PROVE CacheInv' /\ AnswerInv'
      BY DEF CacheInv, Joined, AnswerInv
    <2>1. CASE SameRequest /\ h.phase = "PROOF"
      <3>1. /\ \A r \in On(toHost) \cup Cached : ~(r.cmd \in Protected /\ r.key = h.key)
            /\ s_auth.authenticated => Remembered = {}
        BY <1>8, <2>1, NothingTagged DEF NoSession
      <3>2. ~Logged'
        BY <1>1, <2>1 DEF VerdictInv, ProofInv, Logged, SameRequest
      <3>3. CacheInv'
        BY <1>1, <1>2, <3>1 DEF CacheInv, Joined
      <3>4. AnswerInv'
        BY <1>2, <1>3, <3>1, <3>2 DEF AnswerInv, AnswersUs
      <3>. QED BY <3>3, <3>4
    <2>2. CASE NewRequest /\ h.authenticated
      <3>. since \in Nat /\ UNCHANGED since
        BY <1>1 DEF HostWorks, WaitInv, Counts, InSession
      <3>1. /\ \A r \in On(toHost) :
                 r.cmd \in Protected /\ r.key = h.key =>
                   r.seq # h'.seq /\ \E id \in 1 .. h'.id : Apart(id, r.seq)'
            /\ s_auth.authenticated =>
                 \A e \in Remembered :
                   /\ e.request.id \in 1 .. h'.id /\ e.request.id # h'.id
                   /\ Apart(e.request.id, e.request.seq)' /\ e.request.seq # h'.seq
        BY <1>1, <1>3, <2>2, OldAnswers
      <3>2. CacheInv'
        BY <1>1, <1>2, <1>3, <1>10, <2>2, <3>1 DEF VerdictInv, CacheInv, Joined
      <3>3. \A r \in Cached : r.seq # h'.seq
        BY <1>1, <3>1, CacheFields DEF VerdictInv, DeviceSessionInv
      <3>4. AnswerInv'
        BY <1>2, <1>3, <1>9, <2>2, <3>1, <3>3 DEF AnswerInv, AnswersUs
      <3>. QED BY <3>2, <3>4
    <2>. QED BY <1>6, <2>1, <2>2
  <1>. QED BY <1>10, <1>11, <1>12, <1>13, <1>14 DEF VerdictInv

\* Every step of the client keeps the invariant.
LEMMA HostVerdict ==
    ASSUME Keyed, LinkInv, LinkInv', TrueAckInv, FewRequests', VerdictInv, Counts, HostMoves
    PROVE  VerdictInv'
  <1>1. HostWorks
    BY HostWorking
  <1>. QED BY <1>1, QuietHostVerdict, RetryVerdict, ChallengeVerdict, ProveVerdict, CommandVerdict
       DEF HostWorks, HostStep

-----------------------------------------------------------------------------
\* At the start nothing is on the line and no session exists.
LEMMA VerdictInit == Init => VerdictInv
  <1>. SUFFICES ASSUME Init PROVE VerdictInv
    OBVIOUS
  <1>1. /\ h = NewClient(0, 0, 0) /\ toDevice = <<>> /\ toHost = <<>> /\ s_auth = ConfiguredAuth
    BY DEF Init, HostInit
  <1>2. h.phase = "IDLE" /\ ~h.authenticated
    BY <1>1 DEF NewClient
  <1>3. Len(toDevice) = 0 /\ Len(toHost) = 0
    BY <1>1
  <1>4. On(toDevice) = {} /\ On(toHost) = {}
    BY <1>3 DEF On
  <1>5. Cached = {} /\ Remembered = {}
    BY <1>1 DEF Cached, Remembered, ConfiguredAuth, EmptyCache, NoEntry
  <1>6. AtEnd /\ DeviceSessionInv
    BY <1>1, <1>3, <1>4, <1>5 DEF AtEnd, DeviceSessionInv, ConfiguredAuth
  <1>7. ChallengeInv /\ ProofInv /\ EstablishedInv /\ CacheInv /\ AnswerInv
    BY <1>2 DEF ChallengeInv, ProofInv, EstablishedInv, Established, CacheInv, Joined, AnswerInv
  <1>. QED BY <1>6, <1>7 DEF VerdictInv

\* Every step of the link keeps the invariant.
LEMMA VerdictStep ==
    ASSUME Keyed, LinkInv, LinkInv', TrueAckInv, FewRequests, FewRequests', VerdictInv,
           [Next]_vars, [Counts]_<<h, since>>
    PROVE  VerdictInv'
  <1>1. Counts /\ (UNCHANGED h => UNCHANGED since)
    BY CountFollows DEF TrueAckInv
  <1>2. CASE Operate \/ Timeout \/ Receive \/ TakeOver
    BY <1>1, <1>2, HostVerdict DEF HostMoves
  <1>3. CASE TakeAuth \/ TakeUnadmitted \/ TakeAdmitted \/ TakeOther
    <2>1. UNCHANGED h
      BY <1>3 DEF TakeAuth, TakeUnadmitted, TakeAdmitted, TakeOther, Taken
    <2>. QED BY <1>1, <1>3, <2>1, DeviceVerdict
  <1>4. CASE LoseRequest \/ LoseResponse \/ HealthTask \/ DropRollback \/ UNCHANGED vars
    <2>1. UNCHANGED h
      BY <1>4 DEF LoseRequest, LoseResponse, HealthTask, DropRollback, vars, hostVars
    <2>. QED BY <1>1, <1>4, <2>1, QuietVerdict
  <1>5. CASE CarryOut \/ SpontaneousReset
    <2>1. UNCHANGED h
      BY <1>5 DEF CarryOut, SpontaneousReset, LinkReset
    <2>. QED BY <1>1, <1>5, <2>1, ResetVerdict
  <1>. QED BY <1>2, <1>3, <1>4, <1>5 DEF Next

\* What an accepted answer says.
LEMMA AcceptedIsRight ==
    ASSUME Keyed, LinkInv, TrueAckInv, VerdictInv, NEW kind, Accepts(kind)
    PROVE  /\ kind = "NACK" => ~Logged
           /\ Head(h.todo).cmd = "OTA_ABORT" => ~s_ota.active
  <1>1. HostInv /\ WaitInv /\ EffectInv
    BY DEF LinkInv, TrueAckInv
  <1>2. PICK r \in On(toHost) :
          r.kind = kind /\ r.seq = h.pkt.seq /\ (NeedsTag(h.pkt.cmd) => _verified_response(r))
    BY DEF Accepts
  <1>3. Waiting /\ h.phase = "COMMAND" /\ h.pkt.cmd = Head(h.todo).cmd /\ h.pkt.seq = h.seq
    BY <1>1 DEF Accepts, Waiting, HostInv, WaitInv
  <1>4. CASE IsCommand(Head(h.todo))
    <2>1. NeedsTag(h.pkt.cmd) /\ h.authenticated
      BY <1>1, <1>3, <1>4 DEF NeedsTag, Keyed, IsCommand, WaitInv
    <2>2. AnswersUs(r)
      BY <1>2, <1>3, <1>4, <2>1 DEF AnswersUs, _verified_response, IsCommand
    <2>. QED BY <1>2, <1>3, <2>1, <2>2 DEF VerdictInv, AnswerInv, RightAnswer
  <1>5. CASE ~IsCommand(Head(h.todo))
    <2>1. ~Logged
      BY <1>1, <1>3, <1>5 DEF EffectInv, TookEffect, Logged
    <2>. QED BY <1>5, <2>1 DEF IsCommand, Protected
  <1>. QED BY <1>4, <1>5

\* What the operator hears next.
LEMMA HeardIsRight ==
    ASSUME Keyed, LinkInv, TrueAckInv, VerdictInv, [Next]_vars,
           NEW id \in 1 .. Len(told'), id > Len(told)
    PROVE  /\ told'[id].outcome = "NACK" =>
                ~\E i \in 1 .. Len(log) : log[i].id = id /\ log[i].boot = boots
           /\ told'[id].cmd = "OTA_ABORT" /\ told'[id].outcome \in {"ACK", "NACK"} => ~s_ota.active
  <1>1. HostInv /\ LineInv
    BY DEF LinkInv
  <1>2. Len(told) \in Nat
    BY <1>1 DEF HostInv
  <1>3. ~UNCHANGED told
    BY <1>2
  <1>4. HostMoves
    BY <1>3 DEF Next, HostMoves, LoseRequest, LoseResponse, TakeAuth, TakeUnadmitted, TakeAdmitted,
       TakeOther, Taken, CarryOut, DropRollback, SpontaneousReset, LinkReset, HealthTask,
       hostVars, vars
  <1>5. PICK outcome \in Outcomes : Told(outcome)
    BY <1>1, <1>3, <1>4, ToldWhy
  <1>6. /\ Len(told') = Len(told) + 1 /\ Len(told') = h.id
        /\ told'[h.id].cmd = Head(h.todo).cmd /\ told'[h.id].outcome = outcome
    BY <1>1, <1>5, ToldLast
  <1>7. id = h.id
    BY <1>2, <1>6
  <1>8. outcome \in {"ACK", "NACK"} =>
          /\ outcome = "NACK" => ~Logged
          /\ Head(h.todo).cmd = "OTA_ABORT" => ~s_ota.active
    BY <1>5, AcceptedIsRight DEF Told
  <1>. QED BY <1>6, <1>7, <1>8 DEF Logged

\* The invariant behind the verdicts of a client and a device that share a key.
LEMMA VerdictInductive ==
    ASSUME UseAuth, AuthRequired
    PROVE  Spec /\ Counting /\ []FewRequests => [](LinkInv /\ TrueAckInv /\ VerdictInv)
  <1>1. OneClient /\ Keyed
    BY DEF OneClient, Keyed
  <1>2. Init /\ since = h.id => TrueAckInv /\ VerdictInv
    BY TrueAckInit, VerdictInit
  <1>3. /\ LinkInv /\ LinkInv' /\ FewRequests /\ FewRequests' /\ TrueAckInv /\ VerdictInv
        /\ [Next]_vars /\ [Counts]_<<h, since>>
        => TrueAckInv' /\ VerdictInv'
    BY <1>1, TrueAckStep, VerdictStep
  <1>. QED BY <1>2, <1>3, LinkInductive, PTL DEF Spec, Counting

\* What otalink.py reports as refused did not happen behind the refusal: the
\* retry of a command that took effect is answered from the replay cache of
\* auth.c, or with AUTH_REQUIRED, until a reset.  For any number of clients,
\* resets, losses and delays, any cache size and any retry count.
THEOREM RefusalsTrue ==
    ASSUME UseAuth, AuthRequired
    PROVE  Spec /\ Counting /\ []FewRequests => NackIsTrue
  <1>. DEFINE Refusal == \A id \in 1 .. Len(told') :
                id > Len(told) /\ told'[id].outcome = "NACK" =>
                  ~\E i \in 1 .. Len(log) : log[i].id = id /\ log[i].boot = boots
  <1>1. Keyed
    BY DEF Keyed
  <1>2. LinkInv /\ TrueAckInv /\ VerdictInv /\ [Next]_vars => Refusal
    BY <1>1, HeardIsRight
  <1>3. Spec /\ Counting /\ []FewRequests => [](LinkInv /\ TrueAckInv /\ VerdictInv)
    BY VerdictInductive
  <1>4. Spec /\ Counting /\ []FewRequests => [][Refusal]_vars
    BY <1>2, <1>3, PTL DEF Spec
  <1>. QED BY <1>4 DEF NackIsTrue

\* An answer to OTA_ABORT that otalink.py accepts, be it ACK or NACK, means that
\* the device has no update session when the operator hears of it, although the
\* session may have been opened by a client that has died.
THEOREM AbortAlwaysFrees ==
    ASSUME UseAuth, AuthRequired
    PROVE  Spec /\ Counting /\ []FewRequests => AbortFrees
  <1>. DEFINE Freed == \A id \in 1 .. Len(told') :
                (/\ id > Len(told)
                 /\ told'[id].cmd = "OTA_ABORT"
                 /\ told'[id].outcome \in {"ACK", "NACK"}) => ~s_ota.active
  <1>1. Keyed
    BY DEF Keyed
  <1>2. LinkInv /\ TrueAckInv /\ VerdictInv /\ [Next]_vars => Freed
    BY <1>1, HeardIsRight
  <1>3. Spec /\ Counting /\ []FewRequests => [](LinkInv /\ TrueAckInv /\ VerdictInv)
    BY VerdictInductive
  <1>4. Spec /\ Counting /\ []FewRequests => [][Freed]_vars
    BY <1>2, <1>3, PTL DEF Spec
  <1>. QED BY <1>4 DEF AbortFrees
=============================================================================
