----------------------------- MODULE OlmClient -----------------------------
(***************************************************************************)
(* The clients of src/src/client.rs: pre-key bundles and their             *)
(* verification, outbound and inbound Olm sessions, sealing and opening.   *)
(* Nothing of a client is persistent: a restart makes a new one. Packets   *)
(* reach a client in any order, any number of times or never, under any    *)
(* outer message id and expiry that the holder of a send capability signs. *)
(*                                                                         *)
(* Random values never repeat: each is named by who drew it and how many   *)
(* it had drawn before. Olm is ideal: two ends compute the same secret     *)
(* only from the same identities and one-time key (an identity starts at   *)
(* most one session, so that its ephemeral key is determined); a packet is *)
(* the record of what was encrypted and opens once, at the other end of    *)
(* its secret. Fewer packets are in flight than Olm keeps skipped keys     *)
(* for. Signatures over bundles and envelopes are ideal too, so altered    *)
(* ones are never verified and do not occur here.                          *)
(*                                                                         *)
(* A definition X_suffix is X with a fault in it, not used by the          *)
(* specification: the properties are tried against it.                     *)
(***************************************************************************)
EXTENDS Integers, Sequences, FiniteSets

CONSTANTS
  Client, Conversation,
  Malformed,       \* bytes that are not an Olm packet
  BundleValidity,  \* CONTACT_BUNDLE_MAX_VALIDITY_SECONDS
  MaxOneTimeKeys,  \* vodozemac's limit on the one-time keys of an account, 5000
  PayloadVersions, \* the payload versions that the clients in use write
  Deadlines,       \* the expiries that bundles and envelopes carry
  MaxClock,        \* bound: the last second of a behaviour
  MaxBundles,      \* bound: bundles that an account exports
  MaxExports,      \* bound: bundles exported in a behaviour
  MaxSeals,        \* bound: packets that a client seals
  MaxRestarts      \* bound: restarts of a client

ASSUME ClientAssumption ==
  /\ BundleValidity \in Nat /\ MaxOneTimeKeys \in Nat \ {0} /\ MaxClock \in Nat
  /\ MaxBundles \in Nat /\ MaxSeals \in Nat /\ MaxRestarts \in Nat
  /\ Deadlines \subseteq Nat

VARIABLES
  account,             \* identity and unused one-time keys of each client
  session,             \* the Olm session of each client, if it has one
  conversation_id,
  displayed_messages,
  verified,            \* the VerifiedPeerPreKeys each client holds
  bundles,             \* PeerPreKeys exported so far
  packets,             \* packets sealed so far
  shown,               \* history: the packets each client's user has seen, in order
  clock                \* Unix time in seconds

clients == <<account, session, conversation_id, displayed_messages, verified>>
vars == <<clients, bundles, packets, shown, clock>>

NoSession == [secret |-> <<>>]

Init ==
  /\ account = [c \in Client |-> [identity |-> <<c, 0>>, one_time_keys |-> <<>>, exported |-> 0]]
  /\ session = [c \in Client |-> NoSession]
  /\ conversation_id \in [Client -> Conversation]
  /\ displayed_messages = [c \in Client |-> {}]
  /\ verified = [c \in Client |-> {}]
  /\ bundles = {} /\ packets = {}
  /\ shown = [c \in Client |-> <<>>]
  /\ clock = 0

\* The process of a client ends and OlmClient::new makes another.
Restart(c, conversation) ==
  /\ account[c].identity[2] < MaxRestarts
  /\ account' = [account EXCEPT ![c] =
       [identity |-> <<c, account[c].identity[2] + 1>>, one_time_keys |-> <<>>, exported |-> 0]]
  /\ session' = [session EXCEPT ![c] = NoSession]
  /\ conversation_id' = [conversation_id EXCEPT ![c] = conversation]
  /\ displayed_messages' = [displayed_messages EXCEPT ![c] = {}]
  /\ verified' = [verified EXCEPT ![c] = {}]
  /\ UNCHANGED <<bundles, packets, shown, clock>>

-----------------------------------------------------------------------------
(* Contact exchange.                                                       *)

\* Account::generate_one_time_keys(1): a full store gives up its oldest key. It
\* returns that key as `removed', which prekey_bundle does not look at.
WithOneTimeKey(keys, key) ==
  Append(IF Len(keys) < MaxOneTimeKeys THEN keys ELSE Tail(keys), key)

PrekeyBundle(c, valid_until) ==
  LET one_time_key == <<account[c].identity, account[c].exported>> IN
    /\ account[c].exported < MaxBundles /\ Cardinality(bundles) < MaxExports
    /\ account' = [account EXCEPT ![c] =
         [identity |-> account[c].identity, exported |-> account[c].exported + 1,
          one_time_keys |-> WithOneTimeKey(account[c].one_time_keys, one_time_key)]]
    /\ bundles' = bundles \cup
         {[identity |-> account[c].identity, one_time_key |-> one_time_key,
           valid_until |-> valid_until]}
    /\ UNCHANGED <<session, conversation_id, displayed_messages, verified, packets, shown,
                   clock>>

\* PeerPreKey::verify against the identity that was pinned for the peer
Verifies(bundle, pinned, now) ==
  /\ bundle.identity = pinned
  /\ now < bundle.valid_until /\ bundle.valid_until <= now + BundleValidity

VerifyPeer(c, bundle, peer) ==
  /\ Verifies(bundle, account[peer].identity, clock)
  /\ verified' = [verified EXCEPT ![c] = @ \cup {bundle}]
  /\ UNCHANGED <<account, session, conversation_id, displayed_messages, bundles, packets,
                 shown, clock>>

-----------------------------------------------------------------------------
(* Sessions. `since' and `peer' are history: when and from which verified  *)
(* bundle a session was made.                                              *)

Session(secret, received, peer) ==
  [secret |-> secret, sent |-> 0, received |-> received, peer |-> peer, since |-> clock]

StartOutboundOutcome(c, peer, now) ==
  IF session[c] # NoSession THEN "SessionAlreadyExists"
  ELSE IF peer.valid_until <= now THEN "PeerVerificationFailed"
  ELSE "Ok"

StartOutboundSession(c, peer) ==
  /\ StartOutboundOutcome(c, peer, clock) = "Ok"
  /\ session' = [session EXCEPT ![c] =
       Session([initiator |-> account[c].identity, responder |-> peer.identity,
                one_time_key |-> peer.one_time_key], {}, peer)]
  /\ UNCHANGED <<account, conversation_id, displayed_messages, verified, bundles, packets,
                 shown, clock>>

PayloadVersion == 1

\* Olm sends pre-key messages until the initiator has heard from the other end.
Sealed_before(c, version) ==
  [secret |-> session[c].secret, from |-> account[c].identity, index |-> session[c].sent - 1,
   version |-> version,
   prekey |-> /\ session[c].secret.initiator = account[c].identity
              /\ session[c].received = {},
   conversation_id |-> conversation_id[c],
   message_id |-> <<account[c].identity, session[c].sent>>]
Sealed(c, version) ==
  [secret |-> session[c].secret, from |-> account[c].identity, index |-> session[c].sent,
   version |-> version,
   prekey |-> /\ session[c].secret.initiator = account[c].identity
              /\ session[c].received = {},
   conversation_id |-> conversation_id[c],
   message_id |-> <<account[c].identity, session[c].sent>>]

\* The present source writes PayloadVersion; a peer may run another release.
Seal(c, version) ==
  /\ session[c] # NoSession
  /\ session[c].sent < MaxSeals
  /\ packets' = packets \cup {Sealed(c, version)}
  /\ session' = [session EXCEPT ![c].sent = @ + 1]
  /\ UNCHANGED <<account, conversation_id, displayed_messages, verified, bundles, shown, clock>>

-----------------------------------------------------------------------------
(* Opening a verified envelope [packet, message_id, expires_at].            *)

\* Account::create_inbound_session on the staged account
HasOneTimeKey(c, key) ==
  \E i \in DOMAIN account[c].one_time_keys : account[c].one_time_keys[i] = key

CreatesInbound_anyone(c, packet, sender) ==
  /\ packet.secret.responder = account[c].identity
  /\ HasOneTimeKey(c, packet.secret.one_time_key)
CreatesInbound(c, packet, sender) ==
  /\ packet.secret.initiator = sender.identity
  /\ packet.secret.responder = account[c].identity
  /\ HasOneTimeKey(c, packet.secret.one_time_key)

\* Session::decrypt on the staged session
Decrypts_in_order(c, packet) ==
  /\ packet.secret = session[c].secret
  /\ packet.from # account[c].identity
  /\ \A i \in session[c].received : i < packet.index
Decrypts(c, packet) ==
  /\ packet.secret = session[c].secret
  /\ packet.from # account[c].identity
  /\ packet.index \notin session[c].received

ValidatePlaintext(c, packet, message_id) ==
  IF packet.version # PayloadVersion THEN "InvalidPayload"
  ELSE IF packet.conversation_id # conversation_id[c] THEN "WrongConversation"
  ELSE IF packet.message_id # message_id THEN "MessageIdMismatch"
  ELSE IF message_id \in displayed_messages[c] THEN "DuplicateMessage"
  ELSE "Opened"

OpenInitialOutcome_replaces(c, envelope, sender, now) ==
  IF envelope.expires_at <= now THEN "Unauthorized"
  ELSE IF envelope.packet = Malformed THEN "Encoding"
  ELSE IF ~envelope.packet.prekey THEN "ExpectedPreKey"
  ELSE IF ~CreatesInbound(c, envelope.packet, sender) THEN "Crypto"
  ELSE ValidatePlaintext(c, envelope.packet, envelope.message_id)
OpenInitialOutcome(c, envelope, sender, now) ==
  IF session[c] # NoSession THEN "SessionAlreadyExists"
  ELSE IF envelope.expires_at <= now THEN "Unauthorized"
  ELSE IF envelope.packet = Malformed THEN "Encoding"
  ELSE IF ~envelope.packet.prekey THEN "ExpectedPreKey"
  ELSE IF ~CreatesInbound(c, envelope.packet, sender) THEN "Crypto"
  ELSE ValidatePlaintext(c, envelope.packet, envelope.message_id)

OpenOutcome_unchecked(c, envelope, now) ==
  IF envelope.packet = Malformed THEN "Encoding"
  ELSE IF session[c] = NoSession THEN "MissingSession"
  ELSE IF ~Decrypts(c, envelope.packet) THEN "Crypto"
  ELSE ValidatePlaintext(c, envelope.packet, envelope.message_id)
OpenOutcome(c, envelope, now) ==
  IF envelope.expires_at <= now THEN "Unauthorized"
  ELSE IF envelope.packet = Malformed THEN "Encoding"
  ELSE IF session[c] = NoSession THEN "MissingSession"
  ELSE IF ~Decrypts(c, envelope.packet) THEN "Crypto"
  ELSE ValidatePlaintext(c, envelope.packet, envelope.message_id)

Display(c, envelope) ==
  /\ displayed_messages' =
       [displayed_messages EXCEPT ![c] = @ \cup {envelope.packet.message_id}]
  /\ shown' = [shown EXCEPT ![c] = Append(@, envelope.packet)]

Refused == UNCHANGED <<account, session, displayed_messages, shown>>

\* create_inbound_session uses the key up
WithoutKey(keys, key) ==
  LET i == CHOOSE i \in DOMAIN keys : keys[i] = key IN
    SubSeq(keys, 1, i - 1) \o SubSeq(keys, i + 1, Len(keys))

OpenInitial_unstaged(c, envelope, sender) ==
  /\ LET outcome == OpenInitialOutcome(c, envelope, sender, clock) IN
       IF outcome \in {"InvalidPayload", "WrongConversation", "MessageIdMismatch"}
       THEN /\ account' = [account EXCEPT
                 ![c].one_time_keys = WithoutKey(@, envelope.packet.secret.one_time_key)]
            /\ UNCHANGED <<session, displayed_messages, shown>>
       ELSE Refused
  /\ UNCHANGED <<conversation_id, verified, bundles, packets, clock>>
OpenInitial(c, envelope, sender) ==
  /\ IF OpenInitialOutcome(c, envelope, sender, clock) = "Opened"
     THEN /\ account' = [account EXCEPT
               ![c].one_time_keys = WithoutKey(@, envelope.packet.secret.one_time_key)]
          /\ session' = [session EXCEPT ![c] =
               Session(envelope.packet.secret, {envelope.packet.index}, sender)]
          /\ Display(c, envelope)
     ELSE Refused
  /\ UNCHANGED <<conversation_id, verified, bundles, packets, clock>>

Ratcheted(c, packet) == [session EXCEPT ![c].received = @ \cup {packet.index}]

Open_unstaged(c, envelope) ==
  /\ LET outcome == OpenOutcome(c, envelope, clock) IN
       /\ IF outcome \in {"InvalidPayload", "WrongConversation", "MessageIdMismatch", "Opened"}
          THEN session' = Ratcheted(c, envelope.packet)
          ELSE UNCHANGED session
       /\ IF outcome = "Opened" THEN Display(c, envelope)
          ELSE UNCHANGED <<displayed_messages, shown>>
  /\ UNCHANGED <<account, conversation_id, verified, bundles, packets, clock>>
Open_uncommitted(c, envelope) ==
  /\ IF OpenOutcome(c, envelope, clock) = "Opened"
     THEN /\ shown' = [shown EXCEPT ![c] = Append(@, envelope.packet)]
          /\ UNCHANGED <<session, displayed_messages>>
     ELSE Refused
  /\ UNCHANGED <<account, conversation_id, verified, bundles, packets, clock>>
Open(c, envelope) ==
  /\ IF OpenOutcome(c, envelope, clock) = "Opened"
     THEN /\ session' = Ratcheted(c, envelope.packet)
          /\ Display(c, envelope)
     ELSE UNCHANGED <<session, displayed_messages, shown>>
  /\ UNCHANGED <<account, conversation_id, verified, bundles, packets, clock>>

-----------------------------------------------------------------------------
Tick ==
  /\ clock < MaxClock
  /\ clock' = clock + 1
  /\ UNCHANGED <<clients, bundles, packets, shown>>

\* an outer message id that belongs to no packet
Unrelated == <<>>

Envelopes ==
  [packet : packets \cup {Malformed},
   message_id : {p.message_id : p \in packets} \cup {Unrelated},
   expires_at : Deadlines]

Next ==
  \/ \E c \in Client :
       \/ \E conversation \in Conversation : Restart(c, conversation)
       \/ \E valid_until \in Deadlines : PrekeyBundle(c, valid_until)
       \/ \E bundle \in bundles, peer \in Client \ {c} : VerifyPeer(c, bundle, peer)
       \/ \E peer \in verified[c] : StartOutboundSession(c, peer)
       \/ \E version \in PayloadVersions : Seal(c, version)
       \/ \E envelope \in Envelopes, sender \in verified[c] : OpenInitial(c, envelope, sender)
       \/ \E envelope \in Envelopes : Open(c, envelope)
  \/ Tick

Spec == Init /\ [][Next]_vars

-----------------------------------------------------------------------------
Identity == Client \X Nat
Random == Identity \X Nat
PeerPreKey == [identity : Identity, one_time_key : Random, valid_until : Nat]
Secret == [initiator : Identity, responder : Identity, one_time_key : Random]
Packet ==
  [secret : Secret, from : Identity, index : Nat, version : PayloadVersions,
   prekey : BOOLEAN, conversation_id : Conversation, message_id : Random]

TypeOK ==
  /\ account \in [Client -> [identity : Identity, one_time_keys : Seq(Random),
                             exported : 0..MaxBundles]]
  /\ session \in [Client -> {NoSession} \cup
       [secret : Secret, sent : Nat, received : SUBSET Nat, peer : PeerPreKey, since : Nat]]
  /\ conversation_id \in [Client -> Conversation]
  /\ displayed_messages \in [Client -> SUBSET Random]
  /\ verified \in [Client -> SUBSET PeerPreKey]
  /\ bundles \subseteq PeerPreKey
  /\ packets \subseteq Packet
  /\ shown \in [Client -> Seq(Packet)]
  /\ clock \in 0..MaxClock

\* No user sees a message twice, however often and in whatever order its packet
\* arrives, and across restarts, which forget what was displayed.
DisplayedOnce ==
  \A c \in Client : \A i, j \in DOMAIN shown[c] :
    shown[c][i].message_id = shown[c][j].message_id => i = j

\* What the user of a client sees was sealed by the contact whose bundle that
\* client verified, not by another holder of its one-time key.
SenderAuthentic ==
  \A c \in Client : session[c] # NoSession =>
    \A i \in DOMAIN shown[c] :
      shown[c][i].secret = session[c].secret => shown[c][i].from = session[c].peer.identity

\* A packet of the session that was refused, for its version, its conversation or
\* the id of its envelope, can still be opened: only displaying uses up its key.
RefusalKeepsRatchet ==
  \A c \in Client, p \in packets :
    /\ session[c] # NoSession /\ p.secret = session[c].secret
    /\ p.from # account[c].identity /\ p.message_id \notin displayed_messages[c]
    => Decrypts(c, p)

\* As long as a client has no session, each of the last MaxOneTimeKeys bundles
\* it has exported can start one: a refused first packet uses up no one-time key,
\* and a new key pushes out none but the oldest.
RefusalKeepsOneTimeKey ==
  \A c \in Client, b \in bundles :
    /\ session[c] = NoSession /\ b.identity = account[c].identity
    /\ account[c].exported <= b.one_time_key[2] + MaxOneTimeKeys
    => HasOneTimeKey(c, b.one_time_key)

\* A client has one peer: all that it shows until it restarts belongs to the one
\* session it has, and the first packet of another contact does not replace it.
SinglePeer ==
  \A c \in Client : \A i \in DOMAIN shown[c] :
    account[c].identity \in {shown[c][i].secret.initiator, shown[c][i].secret.responder}
      => session[c] # NoSession /\ shown[c][i].secret = session[c].secret

\* docs/architecture.md:46: verified pre-key bundles are rechecked against the
\* current time when a session is created. open_initial does not.
BundleFreshAtSession ==
  \A c \in Client :
    session[c] # NoSession => session[c].since < session[c].peer.valid_until
=============================================================================
