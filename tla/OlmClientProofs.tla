-------------------------- MODULE OlmClientProofs --------------------------
(***************************************************************************)
(* What the Olm clients guarantee for any number of clients, conversations,*)
(* packets and restarts. ClientInv is the inductive invariant. It rests on *)
(* three facts: a message id names one packet, because an identity counts  *)
(* what it has sealed; what a client was shown under its present identity  *)
(* is in displayed_messages and belongs to its session; and a client       *)
(* without a session has the last one-time keys it generated, in order.    *)
(***************************************************************************)
EXTENDS OlmClient, TLAPS

Account == [identity : Identity, one_time_keys : Seq(Random), exported : 0..MaxBundles]
SessionState ==
  [secret : Secret, sent : Nat, received : SUBSET Nat, peer : PeerPreKey, since : Nat]

Me(c) == account[c].identity

\* an identity that exists or has existed
Past(id) == id \in Identity /\ id[2] <= Me(id[1])[2]

Ends(secret) == {secret.initiator, secret.responder}

\* A bundle carries a key that its account generated.
BundleInv ==
  /\ \A b \in bundles :
       /\ Past(b.identity) /\ b.one_time_key[1] = b.identity
       /\ \A c \in Client : b.identity = Me(c) => b.one_time_key[2] < account[c].exported
  /\ \A c \in Client : \A b \in verified[c] : b \in bundles /\ b.identity[1] # c

\* the keys that an account generated as numbers n to m - 1
Generated(id, n, m) == [i \in 1..(m - n) |-> <<id, n + i - 1>>]

\* the number of the oldest key that is left when `exported' were generated
OldestLeft(exported) == IF exported > MaxOneTimeKeys THEN exported - MaxOneTimeKeys ELSE 0

\* Until it has a session, an account has the last keys that it generated.
KeysInv(c) ==
  session[c] = NoSession =>
    account[c].one_time_keys =
      Generated(Me(c), OldestLeft(account[c].exported), account[c].exported)

\* A session is between its client and the contact whose bundle it was made from.
SessionInv(c) ==
  LET s == session[c] IN
  s # NoSession =>
    /\ \/ s.secret.initiator = Me(c) /\ s.secret.responder = s.peer.identity
       \/ s.secret.responder = Me(c) /\ s.secret.initiator = s.peer.identity
    /\ Past(s.peer.identity) /\ s.peer.identity[1] # c
    /\ \A i \in s.received : <<s.peer.identity, i>> \in displayed_messages[c]

PacketInv(p) ==
  /\ p.message_id = <<p.from, p.index>>
  /\ p.from \in Ends(p.secret) /\ p.secret.initiator[1] # p.secret.responder[1]
  /\ Past(p.secret.initiator) /\ Past(p.secret.responder)
  /\ p.prekey => p.from = p.secret.initiator
  /\ \A c \in Client :
       p.from = Me(c) => session[c] # NoSession /\ p.index < session[c].sent

UniquePackets == \A p, q \in packets : p.message_id = q.message_id => p = q

\* What a client was shown came from somebody else; what came to its present
\* identity is in displayed_messages and belongs to its session.
ShownInv(c) ==
  \A i \in DOMAIN shown[c] :
    /\ shown[c][i] \in packets /\ shown[c][i].from[1] # c
    /\ Me(c) \in Ends(shown[c][i].secret) => shown[c][i].message_id \in displayed_messages[c]
    /\ Me(c) \in Ends(shown[c][i].secret) =>
         session[c] # NoSession /\ shown[c][i].secret = session[c].secret

ClientInv ==
  /\ TypeOK
  /\ \A c \in Client : Me(c)[1] = c
  /\ BundleInv
  /\ \A c \in Client : KeysInv(c)
  /\ \A c \in Client : SessionInv(c)
  /\ \A p \in packets : PacketInv(p)
  /\ UniquePackets
  /\ \A c \in Client : ShownInv(c)
  /\ DisplayedOnce

-----------------------------------------------------------------------------
(* Data.                                                                   *)

\* A session of a client is told from the absence of one.
LEMMA SessionIsSome ==
  ASSUME NEW s \in SessionState
  PROVE  s # NoSession
<1>1. "sent" \in DOMAIN s
  BY DEF SessionState
<1>2. "sent" \notin DOMAIN NoSession
  BY DEF NoSession
<1> QED BY <1>1, <1>2

\* Displaying adds a packet at the end and moves none.
LEMMA AppendFacts ==
  ASSUME NEW S, NEW s \in Seq(S), NEW x \in S
  PROVE  /\ Append(s, x) \in Seq(S)
         /\ DOMAIN Append(s, x) = DOMAIN s \cup {Len(s) + 1}
         /\ Len(s) + 1 \notin DOMAIN s
         /\ \A i \in DOMAIN s : Append(s, x)[i] = s[i]
         /\ Append(s, x)[Len(s) + 1] = x
OBVIOUS

\* A sealed packet is not the empty record that stands for bytes that do not parse.
LEMMA PacketNotEmpty ==
  ASSUME NEW p \in Packet
  PROVE  p # <<>>
<1>1. "secret" \in DOMAIN p /\ "secret" \notin DOMAIN <<>>
  BY DEF Packet
<1> QED
  BY <1>1

\* The id that seal gives to the next packet of a session is on none sealed before.
LEMMA NextIdFresh ==
  ASSUME ClientInv, NEW c \in Client, session[c] # NoSession, NEW p \in packets
  PROVE  p.message_id # <<Me(c), session[c].sent>>
<1>1. PacketInv(p) /\ p.index \in Nat /\ session[c].sent \in Nat
  BY DEF ClientInv, TypeOK, Packet, SessionState
<1> QED
  BY <1>1 DEF PacketInv

\* A verified envelope carries a packet that was sealed, once it is opened.
LEMMA EnvelopePacket ==
  ASSUME NEW e \in Envelopes, e.packet # Malformed
  PROVE  e.packet \in packets
BY DEF Envelopes

\* A step that leaves every identity as it is keeps the past.
LEMMA PastKept ==
  ASSUME \A d \in Client : Me(d)' = Me(d), NEW id, Past(id)
  PROVE  Past(id)'
BY DEF Past, Identity

\* What is kept when accounts and bundles are left alone,
LEMMA BundlesKept ==
  ASSUME BundleInv, \A d \in Client : Me(d)' = Me(d), bundles' = bundles, verified' = verified,
         \A d \in Client : account'[d].exported = account[d].exported
  PROVE  BundleInv'
<1>1. \A id : Past(id) => Past(id)'
  BY PastKept
<1>2. \A b \in bundles : /\ Past(b.identity)' /\ b.one_time_key[1] = b.identity
                        /\ \A d \in Client : b.identity = Me(d)'
                                             => b.one_time_key[2] < account'[d].exported
  BY <1>1, Zenon DEF BundleInv
<1>3. \A d \in Client : \A b \in verified[d] : b \in bundles /\ b.identity[1] # d
  BY Zenon DEF BundleInv
<1> QED BY <1>2, <1>3, Zenon DEF BundleInv

\* The store of an account remains one: a key is added, or used up.
LEMMA StoreKeepsType ==
  ASSUME NEW S, NEW keys \in Seq(S), NEW key \in S
  PROVE  WithOneTimeKey(keys, key) \in Seq(S)
<1>1. Len(keys) \in Nat /\ MaxOneTimeKeys \in Nat \ {0}
  BY ClientAssumption
<1>2. ~(Len(keys) < MaxOneTimeKeys) => Tail(keys) \in Seq(S)
  BY <1>1
<1> QED BY <1>2 DEF WithOneTimeKey

LEMMA UsedKeepsType ==
  ASSUME NEW S, NEW keys \in Seq(S), NEW key, \E i \in DOMAIN keys : keys[i] = key
  PROVE  WithoutKey(keys, key) \in Seq(S)
<1>1. PICK i : i = CHOOSE j \in DOMAIN keys : keys[j] = key
  OBVIOUS
<1>2. i \in 1..Len(keys)
  BY <1>1
<1>3. WithoutKey(keys, key) = SubSeq(keys, 1, i - 1) \o SubSeq(keys, i + 1, Len(keys))
  BY <1>1, Zenon DEF WithoutKey
<1>4. SubSeq(keys, 1, i - 1) \in Seq(S) /\ SubSeq(keys, i + 1, Len(keys)) \in Seq(S)
  BY <1>2
<1> QED BY <1>3, <1>4

\* when no session ends and no key is used without one,
LEMMA KeysKept ==
  ASSUME NEW d \in Client, KeysInv(d), Me(d)' = Me(d), account'[d] = account[d],
         session'[d] = NoSession => session[d] = NoSession
  PROVE  KeysInv(d)'
BY Zenon DEF KeysInv

\* and when nothing is displayed and a session keeps its secret.
LEMMA ShownKept ==
  ASSUME NEW d \in Client, ShownInv(d), Me(d)' = Me(d), shown'[d] = shown[d],
         packets \subseteq packets', displayed_messages'[d] = displayed_messages[d],
         session[d] # NoSession => /\ session'[d] # NoSession
                                   /\ session'[d].secret = session[d].secret
  PROVE  ShownInv(d)'
<1> SUFFICES ASSUME NEW i \in DOMAIN shown[d]
             PROVE  /\ shown[d][i] \in packets' /\ shown[d][i].from[1] # d
                    /\ Me(d) \in Ends(shown[d][i].secret)
                         => /\ shown[d][i].message_id \in displayed_messages[d]
                            /\ session'[d] # NoSession
                            /\ shown[d][i].secret = session'[d].secret
  BY Zenon DEF ShownInv
<1>1. /\ shown[d][i] \in packets /\ shown[d][i].from[1] # d
      /\ Me(d) \in Ends(shown[d][i].secret)
           => /\ shown[d][i].message_id \in displayed_messages[d]
              /\ session[d] # NoSession
              /\ shown[d][i].secret = session[d].secret
  BY Zenon DEF ShownInv
<1> QED BY <1>1

\* What a session was made with.
LEMMA SessionFields ==
  ASSUME NEW secret, NEW received, NEW peer
  PROVE  /\ Session(secret, received, peer).secret = secret
         /\ Session(secret, received, peer).received = received
         /\ Session(secret, received, peer).peer = peer
BY DEF Session

\* The two ends of a session are known and belong to different clients.
LEMMA SessionEnds ==
  ASSUME NEW c \in Client, Me(c) \in Identity, Me(c)[1] = c, SessionInv(c),
         session[c] # NoSession
  PROVE  /\ Past(session[c].secret.initiator) /\ Past(session[c].secret.responder)
         /\ session[c].secret.initiator[1] # session[c].secret.responder[1]
         /\ Me(c) \in Ends(session[c].secret)
<1>1. Past(Me(c))
  BY DEF Past, Identity
<1>2. /\ \/ session[c].secret.initiator = Me(c)
            /\ session[c].secret.responder = session[c].peer.identity
         \/ session[c].secret.responder = Me(c)
            /\ session[c].secret.initiator = session[c].peer.identity
      /\ Past(session[c].peer.identity) /\ session[c].peer.identity[1] # c
  BY Zenon DEF SessionInv
<1> QED BY <1>1, <1>2, Zenon DEF Ends

\* A step that leaves a session and what its client displayed alone keeps SessionInv,
LEMMA SessionKept ==
  ASSUME NEW d \in Client, SessionInv(d), \A e \in Client : Me(e)' = Me(e),
         session'[d] = session[d], displayed_messages'[d] = displayed_messages[d]
  PROVE  SessionInv(d)'
<1>1. \A id : Past(id) => Past(id)'
  BY PastKept
<1> QED BY <1>1, Zenon DEF SessionInv

\* and one that makes or forgets no count of sealed packets keeps PacketInv.
LEMMA PacketKept ==
  ASSUME NEW p, PacketInv(p), \A e \in Client : Me(e)' = Me(e),
         \A e \in Client : session[e] # NoSession => /\ session'[e] # NoSession
                                                     /\ session'[e].sent = session[e].sent
  PROVE  PacketInv(p)'
<1>1. \A id : Past(id) => Past(id)'
  BY PastKept
<1>2. \A e \in Client : p.from = Me(e)' =>
        session'[e] # NoSession /\ p.index < session'[e].sent
  BY Zenon DEF PacketInv
<1> QED BY <1>1, <1>2, Zenon DEF PacketInv

-----------------------------------------------------------------------------
(* One lemma for each action.                                              *)

\* OlmClient::new: the new identity is in no bundle and in no packet.
LEMMA RestartKeeps ==
  ASSUME ClientInv, NEW c \in Client, NEW conversation \in Conversation,
         Restart(c, conversation)
  PROVE  ClientInv'
<1> USE DEF ClientInv
<1>1. TypeOK'
  BY ClientAssumption DEF TypeOK, Restart, Identity
<1>2. /\ Me(c)' = <<c, Me(c)[2] + 1>> /\ Me(c)[2] \in Nat
      /\ \A d \in Client \ {c} : Me(d)' = Me(d)
      /\ \A d \in Client : Me(d) \in Identity
  BY DEF TypeOK, Restart, Me, Identity
<1>3. \A d \in Client : Me(d)'[1] = d
  BY <1>2
<1>4. ASSUME NEW id, Past(id)
      PROVE  Past(id)' /\ id # Me(c)'
  BY <1>2, <1>4 DEF Past, Identity
<1>5. BundleInv'
  <2>1. ASSUME NEW b \in bundles
        PROVE  /\ Past(b.identity)' /\ b.one_time_key[1] = b.identity
               /\ \A d \in Client : b.identity = Me(d)' => b.one_time_key[2] < account'[d].exported
    <3>1. Past(b.identity) /\ b.one_time_key[1] = b.identity
      BY DEF BundleInv
    <3>2. b.identity # Me(c)' /\ Past(b.identity)'
      BY <3>1, <1>4
    <3>3. \A d \in Client \ {c} : account'[d] = account[d]
      BY DEF Restart, TypeOK
    <3> QED BY <3>1, <3>2, <3>3, <1>2, Zenon DEF BundleInv
  <2>2. \A d \in Client : \A b \in verified'[d] : b \in bundles /\ b.identity[1] # d
    BY DEF BundleInv, Restart, TypeOK
  <2> QED BY <2>1, <2>2, Zenon DEF BundleInv, Restart
<1>6. ASSUME NEW d \in Client
      PROVE  KeysInv(d)'
  <2>1. CASE d = c
    <3>1. account'[c].one_time_keys = <<>> /\ account'[c].exported = 0
      BY DEF Restart, TypeOK
    <3>2. Generated(Me(c)', OldestLeft(0), 0) = <<>>
      BY ClientAssumption DEF Generated, OldestLeft
    <3> QED BY <2>1, <3>1, <3>2, Zenon DEF KeysInv
  <2>2. CASE d # c
    <3>1. account'[d] = account[d] /\ session'[d] = session[d]
      BY <2>2 DEF Restart, TypeOK
    <3> QED BY <3>1, Zenon DEF KeysInv, Me
  <2> QED BY <2>1, <2>2
<1>7. ASSUME NEW d \in Client
      PROVE  SessionInv(d)'
  <2>1. CASE d = c
    BY <2>1 DEF SessionInv, Restart, TypeOK
  <2>2. CASE d # c
    BY <2>2, <1>2, <1>4 DEF SessionInv, Restart, TypeOK
  <2> QED BY <2>1, <2>2
<1>8. ASSUME NEW p \in packets'
      PROVE  PacketInv(p)'
  <2>1. p \in packets /\ PacketInv(p)
    BY DEF Restart
  <2>2. p.from # Me(c)'
    BY <2>1, <1>4 DEF PacketInv, Ends
  <2>3. \A d \in Client : p.from = Me(d)' => session'[d] # NoSession /\ p.index < session'[d].sent
    BY <2>1, <2>2, <1>2 DEF PacketInv, Restart, TypeOK
  <2> QED BY <2>1, <2>3, <1>4 DEF PacketInv
<1>9. UniquePackets'
  BY DEF UniquePackets, Restart
<1>10. ASSUME NEW d \in Client
       PROVE  ShownInv(d)'
  <2> SUFFICES ASSUME NEW i \in DOMAIN shown[d]
               PROVE  /\ shown[d][i] \in packets /\ shown[d][i].from[1] # d
                      /\ Me(d)' \in Ends(shown[d][i].secret)
                           => /\ shown[d][i].message_id \in displayed_messages'[d]
                              /\ session'[d] # NoSession
                              /\ shown[d][i].secret = session'[d].secret
    BY Zenon DEF ShownInv, Restart
  <2>1. shown[d][i] \in packets /\ shown[d][i].from[1] # d
    BY DEF ShownInv
  <2>2. CASE d = c
    BY <2>1, <2>2, <1>4 DEF PacketInv, Ends
  <2>3. CASE d # c
    BY <2>3, <1>2 DEF ShownInv, Restart, TypeOK
  <2> QED BY <2>1, <2>2, <2>3
<1>11. DisplayedOnce'
  BY DEF DisplayedOnce, Restart
<1> QED BY <1>1, <1>3, <1>5, <1>6, <1>7, <1>8, <1>9, <1>10, <1>11

\* prekey_bundle: the new bundle carries the last key that the account generated.
\* PrekeyBundleKeys is about the keys of the account itself.
LEMMA PrekeyBundleKeeps ==
  ASSUME ClientInv, NEW c \in Client, NEW valid_until \in Deadlines,
         PrekeyBundle(c, valid_until), KeysInv(c)'
  PROVE  ClientInv'
<1> USE DEF ClientInv
<1> DEFINE otk == <<Me(c), account[c].exported>>
           b0 == [identity |-> Me(c), one_time_key |-> otk, valid_until |-> valid_until]
<1>1. account[c] \in Account /\ Me(c) \in Identity /\ otk \in Random /\ b0 \in PeerPreKey
  BY ClientAssumption DEF TypeOK, Me, Account, Random, PeerPreKey
<1>2. /\ account'[c] = [identity |-> Me(c), exported |-> account[c].exported + 1,
                       one_time_keys |-> WithOneTimeKey(account[c].one_time_keys, otk)]
      /\ \A d \in Client \ {c} : account'[d] = account[d]
      /\ DOMAIN account' = Client
  BY DEF PrekeyBundle, TypeOK, Me
<1>3. account' \in [Client -> Account]
  <2>1. account[c].exported + 1 \in 0..MaxBundles
    BY <1>1, ClientAssumption DEF PrekeyBundle, Account
  <2>2. WithOneTimeKey(account[c].one_time_keys, otk) \in Seq(Random)
    BY <1>1, StoreKeepsType, Zenon DEF Account
  <2>3. account'[c] \in Account
    BY <1>1, <1>2, <2>1, <2>2 DEF Account
  <2>4. \A d \in Client : account[d] \in Account
    BY Zenon DEF TypeOK, Account
  <2>5. \A d \in Client : account'[d] \in Account
    BY <2>3, <2>4, <1>2, Zenon
  <2> QED BY <2>5, Zenon DEF PrekeyBundle, TypeOK
<1>4. bundles' = bundles \cup {b0}
  BY DEF PrekeyBundle, Me
<1>5. TypeOK'
  BY <1>1, <1>3, <1>4, Zenon DEF TypeOK, PrekeyBundle, Account
<1>6. \A d \in Client : Me(d)' = Me(d)
  BY <1>1, <1>2 DEF Me, Account
<1>7. \A id : Past(id) => Past(id)'
  BY <1>6, PastKept
<1>8. Past(Me(c))
  BY <1>1 DEF Past, Identity
<1>9. BundleInv'
  <2>1. \A d \in Client : account[d].exported \in Nat
    BY DEF TypeOK
  <2>2. \A d \in Client : account'[d].exported \in {account[d].exported, account[d].exported + 1}
    BY <1>1, <1>2 DEF Account
  <2>3. account'[c].exported = account[c].exported + 1
    BY <1>1, <1>2 DEF Account
  <2>4. ASSUME NEW b \in bundles, NEW d \in Client, b.identity = Me(d)
        PROVE  b.one_time_key[2] < account'[d].exported
    <3>1. b.one_time_key[2] < account[d].exported /\ b.one_time_key[2] \in Nat
      BY <2>4 DEF BundleInv, TypeOK, PeerPreKey, Random
    <3> QED BY <3>1, <2>1, <2>2
  <2>5. ASSUME NEW d \in Client, Me(c) = Me(d)
        PROVE  account[c].exported < account'[d].exported
    <3>1. d = c
      BY <2>5
    <3> QED BY <3>1, <2>1, <2>3
  <2>6. ASSUME NEW b \in bundles'
        PROVE  /\ Past(b.identity)' /\ b.one_time_key[1] = b.identity
               /\ \A d \in Client : b.identity = Me(d)' => b.one_time_key[2] < account'[d].exported
    <3>1. CASE b \in bundles
      BY <3>1, <1>6, <1>7, <2>4, Zenon DEF BundleInv
    <3>2. CASE b = b0
      BY <3>2, <1>6, <1>7, <1>8, <2>5
    <3> QED BY <1>4, <3>1, <3>2
  <2> QED BY <1>4, <2>6, Zenon DEF BundleInv, PrekeyBundle
<1>10. \A d \in Client : KeysInv(d)'
  <2>1. \A d \in Client \ {c} : KeysInv(d)'
    BY <1>2, <1>6, KeysKept, Zenon DEF PrekeyBundle
  <2> QED BY <2>1, Zenon
<1>11. \A d \in Client : SessionInv(d)'
  BY <1>6, <1>7 DEF SessionInv, PrekeyBundle
<1>12. \A p \in packets' : PacketInv(p)'
  BY <1>6, <1>7 DEF PacketInv, PrekeyBundle
<1>13. \A d \in Client : ShownInv(d)'
  BY <1>6 DEF ShownInv, PrekeyBundle
<1>14. UniquePackets' /\ DisplayedOnce'
  BY DEF UniquePackets, DisplayedOnce, PrekeyBundle
<1> QED BY <1>5, <1>6, <1>9, <1>10, <1>11, <1>12, <1>13, <1>14

\* PeerPreKey::verify: the pinned identity is another client's.
LEMMA VerifyPeerKeeps ==
  ASSUME ClientInv, NEW c \in Client, NEW bundle \in bundles, NEW peer \in Client \ {c},
         VerifyPeer(c, bundle, peer)
  PROVE  ClientInv'
<1> USE DEF ClientInv
<1>1. TypeOK'
  BY DEF TypeOK, VerifyPeer
<1>2. \A d \in Client : Me(d)' = Me(d)
  BY DEF VerifyPeer, Me
<1>3. \A id : Past(id) => Past(id)'
  BY <1>2, PastKept
<1>4. bundle.identity[1] # c
  BY DEF VerifyPeer, Verifies, Me
<1>5. BundleInv'
  <2>1. \A d \in Client : \A b \in verified'[d] : b \in bundles /\ b.identity[1] # d
    BY <1>4 DEF BundleInv, VerifyPeer, TypeOK
  <2> QED BY <2>1, <1>2, <1>3, Zenon DEF BundleInv, VerifyPeer
<1>6. UniquePackets' /\ DisplayedOnce' /\ \A d \in Client : KeysInv(d)'
  BY <1>2, Zenon DEF KeysInv, UniquePackets, DisplayedOnce, VerifyPeer
<1>7. \A d \in Client : SessionInv(d)'
  BY <1>2, <1>3, Zenon DEF SessionInv, VerifyPeer
<1>8. \A p \in packets' : PacketInv(p)'
  BY <1>2, <1>3, Zenon DEF PacketInv, VerifyPeer
<1>9. \A d \in Client : ShownInv(d)'
  BY <1>2, Zenon DEF ShownInv, VerifyPeer
<1> QED BY <1>1, <1>2, <1>5, <1>6, <1>7, <1>8, <1>9

\* start_outbound_session: nothing has been sealed or shown under this identity.
LEMMA StartOutboundKeeps ==
  ASSUME ClientInv, NEW c \in Client, NEW peer \in verified[c], StartOutboundSession(c, peer)
  PROVE  ClientInv'
<1> USE DEF ClientInv
<1> DEFINE secret == [initiator |-> Me(c), responder |-> peer.identity,
                      one_time_key |-> peer.one_time_key]
           started == Session(secret, {}, peer)
<1>1. /\ session[c] = NoSession
      /\ session' = [session EXCEPT ![c] = started]
  BY Zenon DEF StartOutboundSession, StartOutboundOutcome, Me
<1>2. /\ peer \in PeerPreKey /\ Past(peer.identity) /\ peer.identity[1] # c
      /\ Me(c) \in Identity /\ clock \in Nat
  BY DEF TypeOK, BundleInv, Me
<1>3. started \in SessionState
  BY <1>2, Zenon DEF Session, SessionState, Secret, PeerPreKey
<1>4. TypeOK'
  <2>1. session' \in [Client -> {NoSession} \cup SessionState]
    BY <1>1, <1>3, Zenon DEF TypeOK, SessionState
  <2> QED BY <2>1, Zenon DEF TypeOK, StartOutboundSession, SessionState
<1>5. \A d \in Client : Me(d)' = Me(d)
  BY Zenon DEF StartOutboundSession, Me
<1>6. \A id : Past(id) => Past(id)'
  BY <1>5, PastKept
<1>7. BundleInv'
  BY <1>5, BundlesKept, Zenon DEF StartOutboundSession
<1>8. /\ session'[c] = started /\ started # NoSession
      /\ \A d \in Client \ {c} : session'[d] = session[d]
  BY <1>1, <1>3, SessionIsSome, Zenon DEF TypeOK
<1>9. \A d \in Client : KeysInv(d)'
  BY <1>1, <1>5, <1>8, KeysKept, Zenon DEF StartOutboundSession
<1>10. ASSUME NEW d \in Client
       PROVE  SessionInv(d)'
  <2>1. CASE d = c
    <3>1. /\ session'[c].secret.initiator = Me(c) /\ session'[c].secret.responder = peer.identity
          /\ session'[c].peer = peer /\ session'[c].received = {}
      BY <1>8, SessionFields
    <3> QED BY <2>1, <3>1, <1>2, <1>5, <1>6, Zenon DEF SessionInv
  <2>2. CASE d # c
    BY <2>2, <1>5, <1>8, SessionKept, Zenon DEF StartOutboundSession
  <2> QED BY <2>1, <2>2, Zenon
<1>11. \A p \in packets' : PacketInv(p)'
  BY <1>1, <1>5, <1>8, PacketKept, Zenon DEF StartOutboundSession
<1>12. \A d \in Client : ShownInv(d)'
  BY <1>1, <1>5, <1>8, ShownKept, Zenon DEF StartOutboundSession
<1>13. UniquePackets' /\ DisplayedOnce'
  BY Zenon DEF UniquePackets, DisplayedOnce, StartOutboundSession
<1> QED BY <1>4, <1>5, <1>7, <1>9, <1>10, <1>11, <1>12, <1>13

\* seal: the message id is the identity and its count, which no packet has yet.
LEMMA SealKeeps ==
  ASSUME ClientInv, NEW c \in Client, NEW version \in PayloadVersions, Seal(c, version)
  PROVE  ClientInv'
<1> USE DEF ClientInv
<1> DEFINE sealed == Sealed(c, version)
           s0 == session[c]
<1>1. s0 # NoSession /\ s0 \in SessionState /\ SessionInv(c)
  BY DEF Seal, TypeOK, SessionState
<1>2. /\ Me(c) \in Identity /\ conversation_id[c] \in Conversation
      /\ s0.secret \in Secret /\ s0.sent \in Nat
  BY <1>1 DEF TypeOK, Me, SessionState
<1>3. sealed.prekey \in BOOLEAN
  BY Zenon DEF Sealed
<1>4. /\ sealed.secret = s0.secret /\ sealed.from = Me(c) /\ sealed.index = s0.sent
      /\ sealed.message_id = <<Me(c), s0.sent>>
      /\ sealed.prekey => s0.secret.initiator = Me(c)
  BY Zenon DEF Sealed, Me
<1>5. sealed \in Packet
  BY <1>2, <1>3, Zenon DEF Sealed, Packet, Random, Me
<1>6. /\ session'[c] = [s0 EXCEPT !.sent = @ + 1]
      /\ \A d \in Client \ {c} : session'[d] = session[d]
      /\ DOMAIN session' = Client
  BY DEF Seal, TypeOK
<1>7. session'[c] \in SessionState
  BY <1>1, <1>2, <1>6 DEF SessionState
<1>8. TypeOK'
  <2>1. session' \in [Client -> {NoSession} \cup SessionState]
    BY <1>7, Zenon DEF Seal, TypeOK, SessionState
  <2> QED BY <2>1, <1>5, Zenon DEF Seal, TypeOK, SessionState
<1>9. \A d \in Client : Me(d)' = Me(d)
  BY DEF Seal, Me
<1>10. \A id : Past(id) => Past(id)'
  BY <1>9, PastKept
<1>11. /\ session'[c] # NoSession /\ session'[c].sent = s0.sent + 1
       /\ session'[c].secret = s0.secret /\ session'[c].peer = s0.peer
       /\ session'[c].received = s0.received /\ session'[c].since = s0.since
  BY <1>1, <1>6, <1>7, SessionIsSome DEF SessionState
<1>12. BundleInv' /\ DisplayedOnce'
  BY <1>9, BundlesKept, Zenon DEF DisplayedOnce, Seal
<1>13. \A d \in Client : KeysInv(d)'
  BY <1>6, <1>9, <1>11, KeysKept, Zenon DEF Seal
<1>14. ASSUME NEW d \in Client
       PROVE  SessionInv(d)'
  <2>1. CASE d = c
    BY <2>1, <1>1, <1>9, <1>10, <1>11 DEF SessionInv, Seal
  <2>2. CASE d # c
    BY <2>2, <1>6, <1>9, <1>10 DEF SessionInv, Seal
  <2> QED BY <2>1, <2>2
<1>15. ASSUME NEW p \in packets
       PROVE  PacketInv(p)' /\ p.message_id # sealed.message_id
  <2>1. PacketInv(p) /\ p.index \in Nat
    BY Zenon DEF TypeOK, Packet
  <2>2. p.message_id # sealed.message_id
    BY <2>1, <1>2, <1>4 DEF PacketInv
  <2>3. ASSUME NEW d \in Client, p.from = Me(d)'
        PROVE  session'[d] # NoSession /\ p.index < session'[d].sent
    <3>1. p.from = Me(d) /\ session[d] # NoSession /\ p.index < session[d].sent
      BY <2>1, <2>3, <1>9 DEF PacketInv
    <3>2. CASE d = c
      BY <3>1, <3>2, <2>1, <1>2, <1>11
    <3>3. CASE d # c
      BY <3>1, <3>3, <1>6, Zenon
    <3> QED BY <3>2, <3>3
  <2> QED BY <2>1, <2>2, <2>3, <1>10 DEF PacketInv
<1>16. ASSUME NEW p, p = sealed
       PROVE  PacketInv(p)'
  <2>1. /\ Past(s0.secret.initiator) /\ Past(s0.secret.responder)
        /\ s0.secret.initiator[1] # s0.secret.responder[1]
        /\ Me(c) \in Ends(s0.secret)
    BY <1>1, <1>2, SessionEnds, Zenon
  <2>2. ASSUME NEW d \in Client, Me(c) = Me(d)'
        PROVE  d = c
    BY <2>2, <1>9
  <2>3. s0.sent < session'[c].sent
    BY <1>2, <1>11
  <2> QED BY <2>1, <2>2, <2>3, <1>4, <1>10, <1>11, <1>16, Zenon DEF PacketInv
<1>17. packets' = packets \cup {sealed}
  BY DEF Seal
<1>18. \A p \in packets' : PacketInv(p)'
  BY <1>15, <1>16, <1>17
<1>19. UniquePackets'
  BY <1>15, <1>17 DEF UniquePackets
<1>20. \A d \in Client : ShownInv(d)'
  BY <1>6, <1>9, <1>11, <1>17, ShownKept, Zenon DEF Seal
<1> QED BY <1>8, <1>9, <1>12, <1>13, <1>14, <1>18, <1>19, <1>20

\* commit_display: a packet that its recipient has not displayed under its present
\* identity is new to the user, since an earlier showing would be of this packet.
LEMMA DisplayKeeps ==
  ASSUME ClientInv, NEW c \in Client, NEW envelope, envelope.packet \in packets,
         Display(c, envelope), packets' = packets,
         \A d \in Client : Me(d)' = Me(d),
         Me(c) \in Ends(envelope.packet.secret), envelope.packet.from[1] # c,
         session'[c] # NoSession, envelope.packet.secret = session'[c].secret,
         session[c] # NoSession => session'[c].secret = session[c].secret,
         \A d \in Client \ {c} : session'[d] = session[d],
         envelope.packet.message_id \notin displayed_messages[c]
  PROVE  /\ displayed_messages' \in [Client -> SUBSET Random]
         /\ shown' \in [Client -> Seq(Packet)]
         /\ \A d \in Client : ShownInv(d)'
         /\ DisplayedOnce'
<1> USE DEF ClientInv
<1> DEFINE packet == envelope.packet
           n == Len(shown[c]) + 1
<1>1. packet \in Packet /\ packet.message_id \in Random /\ shown[c] \in Seq(Packet)
  BY Zenon DEF TypeOK, Packet
<1>2. /\ shown'[c] = Append(shown[c], packet) /\ DOMAIN shown' = Client
      /\ \A d \in Client \ {c} : shown'[d] = shown[d]
      /\ displayed_messages'[c] = displayed_messages[c] \cup {packet.message_id}
      /\ \A d \in Client \ {c} : displayed_messages'[d] = displayed_messages[d]
  BY Zenon DEF Display, TypeOK
<1>3. /\ shown'[c] \in Seq(Packet) /\ DOMAIN shown'[c] = DOMAIN shown[c] \cup {n}
      /\ n \notin DOMAIN shown[c] /\ shown'[c][n] = packet
      /\ \A i \in DOMAIN shown[c] : shown'[c][i] = shown[c][i]
  BY <1>1, <1>2, AppendFacts
<1>4. shown' \in [Client -> Seq(Packet)]
  BY <1>3 DEF Display, TypeOK
<1>5. displayed_messages' \in [Client -> SUBSET Random]
  BY <1>1 DEF Display, TypeOK
<1> HIDE DEF n, packet
<1>6. ASSUME NEW i \in DOMAIN shown[c]
      PROVE  shown[c][i].message_id # packet.message_id
  <2> SUFFICES ASSUME shown[c][i].message_id = packet.message_id
               PROVE  FALSE
    OBVIOUS
  <2>1. shown[c][i] = packet
    BY DEF ShownInv, UniquePackets, packet
  <2> QED BY <2>1 DEF ShownInv, packet
<1>7. ASSUME NEW d \in Client
      PROVE  ShownInv(d)'
  <2>1. CASE d = c
    <3> SUFFICES ASSUME NEW i \in DOMAIN shown'[c]
                 PROVE  /\ shown'[c][i] \in packets /\ shown'[c][i].from[1] # c
                        /\ Me(c) \in Ends(shown'[c][i].secret)
                             => /\ shown'[c][i].message_id \in displayed_messages'[c]
                                /\ session'[c] # NoSession
                                /\ shown'[c][i].secret = session'[c].secret
      BY <2>1, Zenon DEF ShownInv
    <3>1. CASE i \in DOMAIN shown[c]
      <4>1. PICK q : q = shown[c][i]
        BY Zenon
      <4>2. /\ q \in packets /\ q.from[1] # c
            /\ Me(c) \in Ends(q.secret) => /\ q.message_id \in displayed_messages[c]
                                           /\ session[c] # NoSession /\ q.secret = session[c].secret
        BY <3>1, <4>1, Zenon DEF ShownInv
      <4>3. shown'[c][i] = q /\ displayed_messages[c] \subseteq displayed_messages'[c]
        BY <1>2, <1>3, <3>1, <4>1, Zenon
      <4> QED BY <4>2, <4>3, Zenon
    <3>2. CASE i = n
      BY <3>2, <1>2, <1>3, Zenon DEF packet
    <3> QED BY <3>1, <3>2, <1>3, Zenon
  <2>2. CASE d # c
    BY <2>2, <1>2, ShownKept, Zenon
  <2> QED BY <2>1, <2>2, Zenon
<1>8. ASSUME NEW d \in Client, NEW i \in DOMAIN shown'[d], NEW j \in DOMAIN shown'[d],
             shown'[d][i].message_id = shown'[d][j].message_id
      PROVE  i = j
  <2>1. CASE d = c
    <3>1. CASE i \in DOMAIN shown[c] /\ j \in DOMAIN shown[c]
      BY <2>1, <3>1, <1>3, <1>8 DEF DisplayedOnce
    <3>2. CASE i = n \/ j = n
      BY <2>1, <3>2, <1>3, <1>6, <1>8, Zenon
    <3> QED BY <2>1, <3>1, <3>2, <1>3, Zenon
  <2>2. CASE d # c
    BY <2>2, <1>2, <1>8 DEF DisplayedOnce
  <2> QED BY <2>1, <2>2
<1>9. DisplayedOnce'
  BY <1>8, Zenon DEF DisplayedOnce
<1> QED BY <1>4, <1>5, <1>7, <1>9

\* open_initial: the pre-key packet was sealed by the verified sender for this
\* identity, under which nothing has been sealed.
LEMMA OpenInitialKeeps ==
  ASSUME ClientInv, NEW c \in Client, NEW envelope \in Envelopes, NEW sender \in verified[c],
         OpenInitial(c, envelope, sender),
         OpenInitialOutcome(c, envelope, sender, clock) = "Opened"
  PROVE  ClientInv'
<1> USE DEF ClientInv
<1> DEFINE packet == envelope.packet
           opened == Session(packet.secret, {packet.index}, sender)
<1>1. /\ session[c] = NoSession /\ packet # Malformed /\ packet.prekey
      /\ packet.secret.initiator = sender.identity /\ packet.secret.responder = Me(c)
      /\ packet.message_id \notin displayed_messages[c]
      /\ HasOneTimeKey(c, packet.secret.one_time_key)
  BY Zenon DEF OpenInitialOutcome, CreatesInbound, ValidatePlaintext, Me
<1>2. packet \in packets /\ packet \in Packet /\ PacketInv(packet)
  BY <1>1, EnvelopePacket, Zenon DEF TypeOK
<1>3. /\ sender \in PeerPreKey /\ Past(sender.identity) /\ sender.identity[1] # c
      /\ clock \in Nat
  BY DEF TypeOK, BundleInv
<1>4. packet.from = sender.identity /\ Me(c) \in Ends(packet.secret)
  BY <1>1, <1>2, Zenon DEF PacketInv, Ends
<1>5. opened \in SessionState
  BY <1>2, <1>3, Zenon DEF Session, SessionState, Packet
<1>6. /\ account' = [account EXCEPT
           ![c].one_time_keys = WithoutKey(@, packet.secret.one_time_key)]
      /\ session' = [session EXCEPT ![c] = opened]
      /\ Display(c, envelope)
      /\ UNCHANGED <<conversation_id, verified, bundles, packets, clock>>
  BY DEF OpenInitial
<1>7. /\ session'[c] = opened /\ opened # NoSession
      /\ \A d \in Client \ {c} : session'[d] = session[d]
      /\ session' \in [Client -> {NoSession} \cup SessionState]
  BY <1>5, <1>6, SessionIsSome, Zenon DEF TypeOK, SessionState
<1>8. account' \in [Client -> Account] /\ \A d \in Client : Me(d)' = Me(d)
  <2>1. account[c] \in Account
    BY DEF TypeOK, Account
  <2>2. /\ account'[c] = [account[c] EXCEPT
             !.one_time_keys = WithoutKey(@, packet.secret.one_time_key)]
        /\ \A d \in Client \ {c} : account'[d] = account[d]
    BY <1>6 DEF TypeOK
  <2>3. account'[c] \in Account /\ account'[c].identity = account[c].identity
    <3>1. WithoutKey(account[c].one_time_keys, packet.secret.one_time_key) \in Seq(Random)
      BY <1>1, <2>1, UsedKeepsType, Zenon DEF Account, HasOneTimeKey
    <3> QED BY <2>1, <2>2, <3>1, Zenon DEF Account
  <2>4. account' \in [Client -> Account]
    BY <2>3, <1>6 DEF TypeOK, Account
  <2> QED BY <2>2, <2>3, <2>4, Zenon DEF Me
<1>9. \A id : Past(id) => Past(id)'
  BY <1>8, PastKept
<1>10. /\ displayed_messages' \in [Client -> SUBSET Random]
       /\ shown' \in [Client -> Seq(Packet)]
       /\ \A d \in Client : ShownInv(d)'
       /\ DisplayedOnce'
  <2>1. session'[c] # NoSession /\ packet.secret = session'[c].secret
    BY <1>7 DEF Session
  <2> QED BY <2>1, <1>1, <1>2, <1>3, <1>4, <1>6, <1>7, <1>8, DisplayKeeps, Zenon
<1>11. TypeOK'
  BY <1>6, <1>7, <1>8, <1>10, Zenon DEF TypeOK, Account, SessionState
<1>12. BundleInv' /\ UniquePackets'
  <2>1. \A d \in Client : account'[d].exported = account[d].exported
    BY <1>6 DEF TypeOK
  <2> QED BY <2>1, <1>6, <1>8, BundlesKept, Zenon DEF UniquePackets
<1>13. \A d \in Client : KeysInv(d)'
  <2>1. \A d \in Client \ {c} : account'[d] = account[d]
    BY <1>6 DEF TypeOK
  <2>2. KeysInv(c)'
    BY <1>7, Zenon DEF KeysInv
  <2> QED BY <2>1, <2>2, <1>7, <1>8, KeysKept, Zenon
<1>14. ASSUME NEW d \in Client
       PROVE  SessionInv(d)'
  <2>1. CASE d = c
    <3>1. <<sender.identity, packet.index>> \in displayed_messages'[c]
      BY <1>2, <1>4, <1>6, Zenon DEF Display, TypeOK, PacketInv
    <3>2. /\ session'[c].secret = packet.secret /\ session'[c].peer = sender
          /\ session'[c].received = {packet.index}
      BY <1>7, SessionFields
    <3> QED BY <2>1, <3>1, <3>2, <1>1, <1>3, <1>8, <1>9, Zenon DEF SessionInv
  <2>2. CASE d # c
    <3>1. displayed_messages'[d] = displayed_messages[d]
      BY <2>2, <1>6 DEF Display, TypeOK
    <3> QED BY <2>2, <3>1, <1>7, <1>8, <1>9, ZenonT(40) DEF SessionInv
  <2> QED BY <2>1, <2>2, Zenon
<1>15. \A p \in packets' : PacketInv(p)'
  BY <1>1, <1>6, <1>7, <1>8, <1>9 DEF PacketInv
<1> QED BY <1>8, <1>10, <1>11, <1>12, <1>13, <1>14, <1>15, Zenon

\* open: the packet comes from the other end of the session.
LEMMA OpenKeeps ==
  ASSUME ClientInv, NEW c \in Client, NEW envelope \in Envelopes, Open(c, envelope),
         OpenOutcome(c, envelope, clock) = "Opened"
  PROVE  ClientInv'
<1> USE DEF ClientInv
<1> DEFINE packet == envelope.packet
           s0 == session[c]
<1>1. /\ s0 # NoSession /\ packet # Malformed
      /\ packet.secret = s0.secret /\ packet.from # Me(c)
      /\ packet.message_id \notin displayed_messages[c]
  BY Zenon DEF OpenOutcome, Decrypts, ValidatePlaintext, Me
<1>2. packet \in packets /\ packet \in Packet /\ PacketInv(packet)
  BY <1>1, EnvelopePacket, Zenon DEF TypeOK
<1>3. s0 \in SessionState /\ SessionInv(c)
  BY <1>1, Zenon DEF TypeOK, SessionState
<1>4. packet.from = s0.peer.identity /\ packet.from[1] # c /\ Me(c) \in Ends(packet.secret)
  <2>1. /\ \/ s0.secret.initiator = Me(c) /\ s0.secret.responder = s0.peer.identity
           \/ s0.secret.responder = Me(c) /\ s0.secret.initiator = s0.peer.identity
        /\ s0.peer.identity[1] # c
    BY <1>1, <1>3, Zenon DEF SessionInv
  <2>2. packet.from \in Ends(packet.secret)
    BY <1>2, Zenon DEF PacketInv
  <2> QED
    BY <1>1, <2>1, <2>2, Zenon DEF Ends
<1>5. /\ session' = [session EXCEPT ![c].received = @ \cup {packet.index}]
      /\ Display(c, envelope)
      /\ UNCHANGED <<account, conversation_id, verified, bundles, packets, clock>>
  BY DEF Open, Ratcheted
<1>6. /\ session'[c] = [s0 EXCEPT !.received = @ \cup {packet.index}]
      /\ \A d \in Client \ {c} : session'[d] = session[d]
      /\ DOMAIN session' = Client
  BY <1>5 DEF TypeOK
<1>7. session'[c] \in SessionState
  BY <1>2, <1>3, <1>6 DEF SessionState, Packet
<1>8. session' \in [Client -> {NoSession} \cup SessionState]
  BY <1>5, <1>7 DEF TypeOK, SessionState
<1>9. /\ session'[c] # NoSession /\ session'[c].sent = s0.sent
      /\ session'[c].secret = s0.secret /\ session'[c].peer = s0.peer
      /\ session'[c].received = s0.received \cup {packet.index}
      /\ session'[c].since = s0.since
  BY <1>3, <1>6, <1>7, SessionIsSome DEF SessionState
<1>10. \A d \in Client : Me(d)' = Me(d)
  BY <1>5 DEF Me
<1>11. \A id : Past(id) => Past(id)'
  BY <1>10, PastKept
<1>12. /\ displayed_messages' \in [Client -> SUBSET Random]
       /\ shown' \in [Client -> Seq(Packet)]
       /\ \A d \in Client : ShownInv(d)'
       /\ DisplayedOnce'
  BY <1>1, <1>2, <1>4, <1>5, <1>6, <1>9, <1>10, DisplayKeeps
<1>13. TypeOK'
  BY <1>5, <1>8, <1>12 DEF TypeOK, SessionState
<1>14. BundleInv' /\ UniquePackets'
  BY <1>5, <1>10, BundlesKept, Zenon DEF UniquePackets
<1>15. \A d \in Client : KeysInv(d)'
  BY <1>5, <1>6, <1>9, <1>10, KeysKept, Zenon
<1>16. ASSUME NEW d \in Client
       PROVE  SessionInv(d)'
  <2>1. CASE d = c
    <3>1. /\ displayed_messages'[c] = displayed_messages[c] \cup {packet.message_id}
          /\ packet.message_id = <<s0.peer.identity, packet.index>>
      BY <1>2, <1>4, <1>5 DEF Display, TypeOK, PacketInv
    <3> QED BY <2>1, <3>1, <1>1, <1>3, <1>9, <1>10, <1>11, Zenon DEF SessionInv
  <2>2. CASE d # c
    <3>1. displayed_messages'[d] = displayed_messages[d]
      BY <2>2, <1>5 DEF Display, TypeOK
    <3> QED BY <2>2, <3>1, <1>6, <1>10, <1>11 DEF SessionInv
  <2> QED BY <2>1, <2>2, Zenon
<1>17. \A p \in packets' : PacketInv(p)'
  BY <1>1, <1>5, <1>6, <1>9, <1>10, <1>11 DEF PacketInv
<1> QED BY <1>10, <1>12, <1>13, <1>14, <1>15, <1>16, <1>17

\* A refused packet and a passing second leave the clients alone.
LEMMA IdleKeeps ==
  ASSUME ClientInv, UNCHANGED <<clients, bundles, packets, shown>>, clock' \in 0..MaxClock
  PROVE  ClientInv'
<1> USE DEF ClientInv, clients
<1>1. TypeOK'
  BY Zenon DEF TypeOK
<1>2. \A d \in Client : Me(d)' = Me(d)
  BY DEF Me
<1>3. \A id : Past(id) => Past(id)'
  BY <1>2, PastKept
<1>4. BundleInv' /\ UniquePackets' /\ DisplayedOnce' /\ \A d \in Client : KeysInv(d)'
  BY <1>2, BundlesKept, KeysKept, Zenon DEF UniquePackets, DisplayedOnce
<1>5. \A d \in Client : SessionInv(d)' /\ ShownInv(d)'
  BY <1>2, <1>3, ShownKept, Zenon DEF SessionInv
<1>6. \A p \in packets' : PacketInv(p)'
  BY <1>2, <1>3, Zenon DEF PacketInv
<1> QED BY <1>1, <1>2, <1>4, <1>5, <1>6

-----------------------------------------------------------------------------
(* One-time keys.                                                          *)

\* The next key of an account, and the keys without the oldest.
LEMMA GeneratedKeys ==
  ASSUME NEW id, NEW n \in Nat, NEW m \in Nat, n <= m
  PROVE  /\ Len(Generated(id, n, m)) = m - n
         /\ Append(Generated(id, n, m), <<id, m>>) = Generated(id, n, m + 1)
         /\ n < m => Tail(Generated(id, n, m)) = Generated(id, n + 1, m)
<1> DEFINE Key == {<<id, k>> : k \in Nat}
           keys == Generated(id, n, m)
<1>1. keys \in Seq(Key) /\ Len(keys) = m - n
  BY DEF Generated
<1>2. \A i \in 1..(m - n) : keys[i] = <<id, n + i - 1>>
  BY DEF Generated
<1> HIDE DEF Key, keys
<1>3. ASSUME NEW s \in Seq(Key), NEW k \in Nat, Len(s) = k
      PROVE  s \in [1..k -> Key]
  BY <1>3
<1>4. Append(keys, <<id, m>>) = Generated(id, n, m + 1)
  <2>1. PICK s : s = Append(keys, <<id, m>>)
    BY Zenon
  <2>2. s \in Seq(Key) /\ Len(s) = (m + 1) - n
    BY <1>1, <2>1 DEF Key
  <2>3. ASSUME NEW i \in 1..((m + 1) - n) PROVE s[i] = <<id, n + i - 1>>
    <3>1. CASE i <= m - n
      BY <1>1, <1>2, <2>1, <3>1
    <3>2. CASE i = m - n + 1
      <4>1. s[i] = <<id, m>>
        BY <1>1, <2>1, <3>2
      <4>2. n + i - 1 = m
        BY <3>2
      <4> QED BY <4>1, <4>2
    <3> QED BY <3>1, <3>2
  <2>4. s \in [1..((m + 1) - n) -> Key]
    BY <1>3, <2>2
  <2> QED BY <2>1, <2>3, <2>4, Zenon DEF Generated
<1>5. ASSUME n < m PROVE Tail(keys) = Generated(id, n + 1, m)
  <2>1. PICK s : s = Tail(keys)
    BY Zenon
  <2>2. s \in Seq(Key) /\ Len(s) = m - (n + 1)
    BY <1>1, <1>5, <2>1
  <2>3. ASSUME NEW i \in 1..(m - (n + 1)) PROVE s[i] = <<id, (n + 1) + i - 1>>
    <3>1. s[i] = keys[i + 1] /\ i + 1 \in 1..(m - n) /\ n + (i + 1) - 1 = (n + 1) + i - 1
      BY <1>1, <1>5, <2>1
    <3> QED BY <1>2, <3>1, Zenon
  <2>4. s \in [1..(m - (n + 1)) -> Key]
    BY <1>3, <1>5, <2>2
  <2> QED BY <2>1, <2>3, <2>4, Zenon DEF Generated
<1> QED BY <1>1, <1>4, <1>5, Zenon DEF keys

\* A new key is added to the last ones, and a full store gives up the oldest.
LEMMA KeyGenerated ==
  ASSUME NEW id, NEW e \in Nat
  PROVE  WithOneTimeKey(Generated(id, OldestLeft(e), e), <<id, e>>)
           = Generated(id, OldestLeft(e + 1), e + 1)
<1>0. PICK n : n = OldestLeft(e)
  OBVIOUS
<1>1. n \in Nat /\ n <= e /\ MaxOneTimeKeys \in Nat \ {0}
  BY <1>0, ClientAssumption DEF OldestLeft
<1>2. CASE e < MaxOneTimeKeys
  <2>1. OldestLeft(e + 1) = n /\ e - n < MaxOneTimeKeys
    BY <1>0, <1>1, <1>2 DEF OldestLeft
  <2>2. WithOneTimeKey(Generated(id, n, e), <<id, e>>) = Generated(id, n, e + 1)
    BY <1>1, <2>1, GeneratedKeys, Zenon DEF WithOneTimeKey
  <2> QED BY <1>0, <2>1, <2>2, Zenon
<1>3. CASE ~(e < MaxOneTimeKeys)
  <2>1. PICK j : j = n + 1
    BY Zenon
  <2>2. n < e /\ ~(e - n < MaxOneTimeKeys) /\ OldestLeft(e + 1) = j /\ j \in Nat /\ j <= e
    BY <1>0, <1>1, <1>3, <2>1 DEF OldestLeft
  <2>3. Len(Generated(id, n, e)) = e - n /\ Tail(Generated(id, n, e)) = Generated(id, j, e)
    <3>1. /\ Len(Generated(id, n, e)) = e - n
          /\ n < e => Tail(Generated(id, n, e)) = Generated(id, n + 1, e)
      BY <1>1, GeneratedKeys, Zenon
    <3> QED BY <2>1, <2>2, <3>1, Zenon
  <2>4. Append(Generated(id, j, e), <<id, e>>) = Generated(id, j, e + 1)
    BY <2>2, GeneratedKeys, Zenon
  <2> QED BY <1>0, <2>2, <2>3, <2>4, Zenon DEF WithOneTimeKey
<1> QED BY <1>2, <1>3

LEMMA PrekeyBundleKeys ==
  ASSUME ClientInv, NEW c \in Client, NEW valid_until, PrekeyBundle(c, valid_until)
  PROVE  KeysInv(c)'
<1> DEFINE otk == <<Me(c), account[c].exported>>
<1>1. /\ account'[c].one_time_keys = WithOneTimeKey(account[c].one_time_keys, otk)
      /\ account'[c].exported = account[c].exported + 1 /\ Me(c)' = Me(c)
      /\ session' = session /\ account[c].exported \in Nat
  BY DEF ClientInv, TypeOK, PrekeyBundle, Me
<1>2. session[c] = NoSession =>
        account'[c].one_time_keys
          = Generated(Me(c), OldestLeft(account[c].exported + 1), account[c].exported + 1)
  BY <1>1, KeyGenerated, Zenon DEF ClientInv, KeysInv
<1> QED BY <1>1, <1>2, Zenon DEF KeysInv

\* Every step keeps the invariant.
LEMMA NextKeeps ==
  ASSUME ClientInv, [Next]_vars
  PROVE  ClientInv'
<1>1. clock \in 0..MaxClock
  BY DEF ClientInv, TypeOK
<1>2. ASSUME NEW c \in Client, NEW conversation \in Conversation, Restart(c, conversation)
      PROVE  ClientInv'
  BY <1>2, RestartKeeps
<1>3. ASSUME NEW c \in Client, NEW valid_until \in Deadlines, PrekeyBundle(c, valid_until)
      PROVE  ClientInv'
  BY <1>3, PrekeyBundleKeys, PrekeyBundleKeeps
<1>4. ASSUME NEW c \in Client, NEW bundle \in bundles, NEW peer \in Client \ {c},
             VerifyPeer(c, bundle, peer)
      PROVE  ClientInv'
  BY <1>4, VerifyPeerKeeps
<1>5. ASSUME NEW c \in Client, NEW peer \in verified[c], StartOutboundSession(c, peer)
      PROVE  ClientInv'
  BY <1>5, StartOutboundKeeps
<1>6. ASSUME NEW c \in Client, NEW version \in PayloadVersions, Seal(c, version)
      PROVE  ClientInv'
  BY <1>6, SealKeeps
<1>7. ASSUME NEW c \in Client, NEW envelope \in Envelopes, NEW sender \in verified[c],
             OpenInitial(c, envelope, sender)
      PROVE  ClientInv'
  <2>1. CASE OpenInitialOutcome(c, envelope, sender, clock) = "Opened"
    BY <1>7, <2>1, OpenInitialKeeps
  <2>2. CASE OpenInitialOutcome(c, envelope, sender, clock) # "Opened"
    BY <1>1, <1>7, <2>2, IdleKeeps DEF OpenInitial, Refused, clients
  <2> QED BY <2>1, <2>2
<1>8. ASSUME NEW c \in Client, NEW envelope \in Envelopes, Open(c, envelope)
      PROVE  ClientInv'
  <2>1. CASE OpenOutcome(c, envelope, clock) = "Opened"
    BY <1>8, <2>1, OpenKeeps
  <2>2. CASE OpenOutcome(c, envelope, clock) # "Opened"
    BY <1>1, <1>8, <2>2, IdleKeeps DEF Open, clients
  <2> QED BY <2>1, <2>2
<1>9. CASE Tick
  <2>1. clock' \in 0..MaxClock
    BY <1>1, <1>9, ClientAssumption DEF Tick
  <2> QED BY <2>1, <1>9, IdleKeeps DEF Tick
<1>10. CASE UNCHANGED vars
  BY <1>1, <1>10, IdleKeeps DEF vars
<1> QED BY <1>2, <1>3, <1>4, <1>5, <1>6, <1>7, <1>8, <1>9, <1>10, Zenon DEF Next

\* Clients start with nothing exported, sealed or shown.
LEMMA InitEstablishes ==
  ASSUME Init
  PROVE  ClientInv
<1>1. TypeOK
  BY ClientAssumption DEF Init, TypeOK, Identity
<1>2. \A c \in Client : Me(c)[1] = c
  BY Zenon DEF Init, Me
<1>3. BundleInv /\ UniquePackets /\ \A c \in Client : KeysInv(c)
  <2>1. \A id : Generated(id, OldestLeft(0), 0) = <<>>
    BY ClientAssumption DEF Generated, OldestLeft
  <2>2. \A c \in Client : account[c].one_time_keys = <<>> /\ account[c].exported = 0
    BY DEF Init
  <2>3. \A c \in Client : KeysInv(c)
    BY <2>1, <2>2, Zenon DEF KeysInv
  <2> QED BY <2>3 DEF Init, BundleInv, UniquePackets
<1>4. \A c \in Client : SessionInv(c) /\ ShownInv(c)
  <2>1. \A c \in Client : session[c] = NoSession /\ shown[c] = <<>>
    BY Zenon DEF Init
  <2>2. DOMAIN <<>> = {}
    OBVIOUS
  <2> QED BY <2>1, <2>2, Zenon DEF SessionInv, ShownInv
<1>5. DisplayedOnce /\ \A p \in packets : PacketInv(p)
  BY DEF Init, DisplayedOnce
<1> QED BY <1>1, <1>2, <1>3, <1>4, <1>5 DEF ClientInv

-----------------------------------------------------------------------------
(* Theorems.                                                               *)

\* ClientInv holds in every state of the clients of client.rs.
THEOREM ClientInvariant == Spec => []ClientInv
<1>1. Init => ClientInv
  BY InitEstablishes
<1>2. ClientInv /\ [Next]_vars => ClientInv'
  BY NextKeeps
<1> QED BY <1>1, <1>2, PTL DEF Spec

\* Accounts, sessions, bundles and packets hold values of their types (TypeOK).
THEOREM TypeCorrect == Spec => []TypeOK
<1>1. ClientInv => TypeOK
  BY DEF ClientInv
<1> QED BY <1>1, ClientInvariant, PTL

\* No user of open and open_initial sees a message twice, although a restart
\* forgets displayed_messages.
THEOREM ShownOnce == Spec => []DisplayedOnce
<1>1. ClientInv => DisplayedOnce
  BY DEF ClientInv
<1> QED BY <1>1, ClientInvariant, PTL

\* What open and open_initial show was sealed by the contact whose bundle the
\* client verified: a packet of the session comes from one of its two ends.
THEOREM SenderVerified == Spec => []SenderAuthentic
<1>1. ASSUME ClientInv
      PROVE  SenderAuthentic
  <2> SUFFICES ASSUME NEW c \in Client, session[c] # NoSession, NEW i \in DOMAIN shown[c],
                      shown[c][i].secret = session[c].secret
               PROVE  shown[c][i].from = session[c].peer.identity
    BY DEF SenderAuthentic
  <2>1. PacketInv(shown[c][i]) /\ shown[c][i].from[1] # c /\ SessionInv(c) /\ Me(c)[1] = c
    BY <1>1, Zenon DEF ClientInv, ShownInv
  <2> QED BY <2>1, Zenon DEF PacketInv, SessionInv, Ends
<1> QED BY <1>1, ClientInvariant, PTL

\* The key of a packet that was not displayed has not been used.
LEMMA UndisplayedDecrypts ==
  ASSUME ClientInv
  PROVE  RefusalKeepsRatchet
<1> SUFFICES ASSUME NEW c \in Client, NEW p \in packets, session[c] # NoSession,
                    p.secret = session[c].secret, p.from # Me(c),
                    p.message_id \notin displayed_messages[c]
             PROVE  p.index \notin session[c].received
  BY DEF RefusalKeepsRatchet, Decrypts, Me
<1>1. PacketInv(p) /\ SessionInv(c)
  BY Zenon DEF ClientInv
<1>2. p.message_id = <<session[c].peer.identity, p.index>>
  BY <1>1 DEF PacketInv, SessionInv, Ends
<1> QED BY <1>1, <1>2 DEF SessionInv

\* The staged session of open: a packet that was refused can still be decrypted.
THEOREM RefusalHarmless == Spec => []RefusalKeepsRatchet
<1>1. ClientInv => RefusalKeepsRatchet
  BY UndisplayedDecrypts
<1> QED BY <1>1, ClientInvariant, PTL

\* A client without a session has the one-time keys of its last bundles.
LEMMA LastKeysKept ==
  ASSUME ClientInv
  PROVE  RefusalKeepsOneTimeKey
<1> SUFFICES ASSUME NEW c \in Client, NEW b \in bundles, session[c] = NoSession,
                    b.identity = Me(c),
                    account[c].exported <= b.one_time_key[2] + MaxOneTimeKeys
             PROVE  HasOneTimeKey(c, b.one_time_key)
  BY DEF RefusalKeepsOneTimeKey, Me
<1> DEFINE k == b.one_time_key[2]
           e == account[c].exported
<1>1. b.one_time_key \in Random /\ b.one_time_key[1] = Me(c) /\ k < e
  BY Zenon DEF ClientInv, BundleInv, TypeOK, PeerPreKey
<1>2. k \in Nat /\ e \in Nat /\ b.one_time_key = <<Me(c), k>>
  BY <1>1 DEF Random, ClientInv, TypeOK
<1>3. k \in OldestLeft(e)..(e - 1)
  BY <1>1, <1>2, ClientAssumption DEF OldestLeft
<1>4. account[c].one_time_keys = Generated(Me(c), OldestLeft(e), e)
  BY Zenon DEF ClientInv, KeysInv
<1>5. PICK n : n = OldestLeft(e)
  BY Zenon
<1>6. n \in Nat
  BY <1>2, <1>5, ClientAssumption DEF OldestLeft
<1>7. PICK i : i = k - n + 1
  BY Zenon
<1>8. i \in 1..(e - n) /\ n + i - 1 = k
  BY <1>2, <1>3, <1>5, <1>6, <1>7
<1>9. i \in DOMAIN Generated(Me(c), n, e) /\ Generated(Me(c), n, e)[i] = <<Me(c), k>>
  BY <1>8, Zenon DEF Generated
<1> QED BY <1>2, <1>4, <1>5, <1>9, Zenon DEF HasOneTimeKey

\* The staged account of open_initial and the limit of the key store: a refused
\* first packet uses up no key, and the last MaxOneTimeKeys keys are never evicted.
THEOREM OneTimeKeysKept == Spec => []RefusalKeepsOneTimeKey
<1>1. ClientInv => RefusalKeepsOneTimeKey
  BY LastKeysKept
<1> QED BY <1>1, ClientInvariant, PTL

\* `is_some' in start_outbound_session and open_initial: a session stays until the
\* client restarts, and what the client shows belongs to it.
THEOREM OnePeerShown == Spec => []SinglePeer
<1>1. ClientInv => SinglePeer
  BY Zenon DEF ClientInv, ShownInv, SinglePeer, Ends, Me
<1> QED BY <1>1, ClientInvariant, PTL
=============================================================================
