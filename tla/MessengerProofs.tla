-------------------------- MODULE MessengerProofs --------------------------
(***************************************************************************)
(* What relay and clients guarantee together, for any number of clients,   *)
(* messages, restarts and lost answers. The components keep the invariants *)
(* proved for them alone, because every step of Messenger is a step of     *)
(* Relay and of OlmClient or leaves them as they are; MessengerMail adds   *)
(* what the requests, rows and envelopes between them have to do with the  *)
(* packets the clients sealed.                                             *)
(***************************************************************************)
EXTENDS MessengerMail, FiniteSetTheorems

\* The relay and its proofs, with every well-typed request in circulation.
RP == INSTANCE RelayProofs WITH
  QueueId <- Client, MessageId <- C!Random, Packet <- C!Packet, Nonce <- Nat,
  Key <- Client \X Role, UnsendablePackets <- {}, MaxMessageTtl <- Lifetime,
  I64Max <- EndOfTime, U64Max <- EndOfTime,
  Registrations <- R!MailboxRegistration, Sends <- R!SendRequest, Fetches <- R!FetchRequest,
  Acks <- R!AckRequest, Deletes <- R!FetchRequest

MessengerInv ==
  RP!RetryInv /\ CP!ClientInv /\ MailInv /\ HeldInv /\ IsFiniteSet(fetched)

-----------------------------------------------------------------------------
(* The relay, seen from here and from its proofs.                          *)

\* Messenger uses Relay within the assumptions of its proofs.
LEMMA RelayAssumptions ==
  RP!BoundsAssumption /\ RP!TtlAssumption /\ RP!RequestAssumption
<1>1. RP!BoundsAssumption /\ RP!TtlAssumption
  BY MessengerAssumption DEF EndOfTime, RP!BoundsAssumption, RP!TtlAssumption
<1>2. RP!RequestAssumption
  BY DEF RP!RequestAssumption, RP!MailboxRegistration, RP!SendRequest, RP!FetchRequest,
         RP!AckRequest, RP!DeleteMailboxRequest, R!MailboxRegistration, R!SendRequest,
         R!FetchRequest, R!AckRequest, RP!Timestamp, R!Timestamp, RP!Digest, R!Digest
<1> QED
  BY <1>1, <1>2, Zenon

\* The invariants of relay and mail describe a state of MessengerMail.
LEMMA InvMailState ==
  ASSUME MessengerInv
  PROVE  MailState
<1>1. RP!TypeOK
  BY Zenon DEF MessengerInv, RP!RetryInv, RP!TableInv
<1>2. RP!Message = R!Message
  BY Zenon DEF RP!Message, R!Message, RP!StoredTimestamp, R!StoredTimestamp
<1>3. RelayTypes
  BY <1>1, <1>2, Zenon DEF RP!TypeOK, RelayTypes
<1> QED
  BY <1>3, Zenon DEF MessengerInv, MailState

\* What the queries of the relay return.
LEMMA SameQueries ==
  /\ \A now : /\ R!UnexpiredMessages(now) = RP!UnexpiredMessages(now)
              /\ R!UnexpiredTombstones(now) = RP!UnexpiredTombstones(now)
              /\ R!UnexpiredRequestNonces(now) = RP!UnexpiredRequestNonces(now)
              /\ R!UnexpiredRegistrationNonces(now) = RP!UnexpiredRegistrationNonces(now)
  /\ \A q : /\ R!HasMailbox(q) <=> RP!HasMailbox(q)
            /\ R!Retired(q) <=> RP!Retired(q)
            /\ R!Retire(q) = RP!Retire(q)
            /\ R!Digest(q) = RP!Digest(q)
            /\ R!MessageRow(q) = RP!MessageRow(q)
            /\ R!MailboxRow(q) = RP!MailboxRow(q)
  BY Zenon DEF R!UnexpiredMessages, R!UnexpiredTombstones, R!UnexpiredRequestNonces,
         R!UnexpiredRegistrationNonces, R!HasMailbox, R!Retired, R!Retire, R!Digest,
         R!MessageRow, R!MailboxRow,
         RP!UnexpiredMessages, RP!UnexpiredTombstones, RP!UnexpiredRequestNonces,
         RP!UnexpiredRegistrationNonces, RP!HasMailbox, RP!Retired, RP!Retire, RP!Digest,
         RP!MessageRow, RP!MailboxRow

\* enqueue as Messenger runs it is enqueue as the proofs of the relay know it.
LEMMA SameEnqueue ==
  ASSUME NEW req, NEW now
  PROVE  /\ R!EnqueueOutcome(req, now) = RP!EnqueueOutcome(req, now)
         /\ R!Enqueue(req, now) <=> RP!Enqueue(req, now)
<1>1. R!EnqueueOutcome(req, now) = RP!EnqueueOutcome(req, now)
  BY SameQueries, Zenon
  DEF R!EnqueueOutcome, R!ValidMessageExpiry, R!FitsI64, R!SendKeyVerifies, R!Tombstoned,
      R!Queued, R!SamePacket, R!SameExpiry, R!SaturatingAdd, R!SameMessageId,
      RP!EnqueueOutcome, RP!ValidMessageExpiry, RP!FitsI64, RP!SendKeyVerifies, RP!Tombstoned,
      RP!Queued, RP!SamePacket, RP!SameExpiry, RP!SaturatingAdd, RP!SameMessageId
<1> QED
  BY <1>1, SameQueries, Zenon
  DEF R!Enqueue, R!SweepOnly, R!Rollback, R!tables, R!history,
      RP!Enqueue, RP!SweepOnly, RP!Rollback, RP!tables, RP!history

\* The same of register: its answer and what it writes.
LEMMA SameRegister ==
  ASSUME NEW req, NEW now
  PROVE  /\ R!RegisterOutcome(req, now) = RP!RegisterOutcome(req, now)
         /\ R!Register(req, now) <=> RP!Register(req, now)
<1>1. R!RegisterOutcome(req, now) = RP!RegisterOutcome(req, now)
  BY SameQueries, Zenon
  DEF R!RegisterOutcome, R!ValidRequestTime, R!SaturatingAdd, R!FitsI64, R!SameKeys,
      R!RegistrationNonceRecorded, RP!RegisterOutcome, RP!ValidRequestTime, RP!SaturatingAdd,
      RP!FitsI64, RP!SameKeys, RP!RegistrationNonceRecorded
<1> QED
  BY <1>1, SameQueries, Zenon
  DEF R!Register, R!WithRegistrationNonce, R!RegistrationNonceRecorded, R!Rollback, R!tables,
      R!history, RP!Register, RP!WithRegistrationNonce, RP!RegistrationNonceRecorded,
      RP!Rollback, RP!tables, RP!history

\* The same of fetch.
LEMMA SameFetch ==
  ASSUME NEW req, NEW now
  PROVE  /\ R!FetchOutcome(req, now) = RP!FetchOutcome(req, now)
         /\ R!Fetch(req, now) <=> RP!Fetch(req, now)
<1>1. R!FetchOutcome(req, now) = RP!FetchOutcome(req, now)
  BY SameQueries, Zenon
  DEF R!FetchOutcome, R!ValidRequestTime, R!SaturatingAdd, R!FitsI64, R!ReceiveKeyVerifies,
      R!NonceRecorded, RP!FetchOutcome, RP!ValidRequestTime, RP!SaturatingAdd, RP!FitsI64,
      RP!ReceiveKeyVerifies, RP!NonceRecorded
<1> QED
  BY <1>1, SameQueries, Zenon
  DEF R!Fetch, R!Rollback, R!tables, R!history, RP!Fetch, RP!Rollback, RP!tables, RP!history

\* The same of acknowledge.
LEMMA SameAcknowledge ==
  ASSUME NEW req, NEW now
  PROVE  /\ R!AckOutcome(req, now) = RP!AckOutcome(req, now)
         /\ R!Acknowledge(req, now) <=> RP!Acknowledge(req, now)
<1>1. R!AckOutcome(req, now) = RP!AckOutcome(req, now)
  BY SameQueries, Zenon
  DEF R!AckOutcome, R!ValidRequestTime, R!SaturatingAdd, R!FitsI64, R!ReceiveKeyVerifies, R!Queued,
      R!Tombstoned, R!SameMessageId, R!DigestMatches, R!TombstoneDeadline, RP!AckOutcome,
      RP!ValidRequestTime, RP!SaturatingAdd, RP!FitsI64, RP!ReceiveKeyVerifies, RP!Queued,
      RP!Tombstoned, RP!SameMessageId, RP!DigestMatches, RP!TombstoneDeadline
<1> QED
  BY <1>1, SameQueries, Zenon
  DEF R!Acknowledge, R!Queued, R!SameMessageId, R!WithTombstone, R!TombstoneDeadline,
      R!SaturatingAdd, R!SweepOnly, R!Rollback, R!tables, R!history, RP!Acknowledge, RP!Queued,
      RP!SameMessageId, RP!WithTombstone, RP!TombstoneDeadline, RP!SaturatingAdd, RP!SweepOnly,
      RP!Rollback, RP!tables, RP!history

\* The same of delete_mailbox.
LEMMA SameDelete ==
  ASSUME NEW req, NEW now
  PROVE  /\ R!DeleteOutcome(req, now) = RP!DeleteOutcome(req, now)
         /\ R!DeleteMailbox(req, now) <=> RP!DeleteMailbox(req, now)
<1>1. R!DeleteOutcome(req, now) = RP!DeleteOutcome(req, now)
  BY SameQueries, Zenon
  DEF R!DeleteOutcome, R!ValidRequestTime, R!SaturatingAdd, R!FitsI64, R!ManageKeyVerifies,
      R!NonceRecorded, RP!DeleteOutcome, RP!ValidRequestTime, RP!SaturatingAdd, RP!FitsI64,
      RP!ManageKeyVerifies, RP!NonceRecorded
<1> QED
  BY <1>1, SameQueries, Zenon
  DEF R!DeleteMailbox, R!SurvivingRows, R!Rollback, R!tables, R!history, RP!DeleteMailbox,
      RP!SurvivingRows, RP!Rollback, RP!tables, RP!history

\* The same of purge_expired.
LEMMA SamePurge ==
  ASSUME NEW now
  PROVE  R!PurgeExpired(now) <=> RP!PurgeExpired(now)
  BY SameQueries, Zenon
  DEF R!PurgeExpired, R!FitsI64, R!SweepOnly, R!Rollback, R!tables, R!history, RP!PurgeExpired,
      RP!FitsI64, RP!SweepOnly, RP!Rollback, RP!tables, RP!history

-----------------------------------------------------------------------------
(* Every step is a step of the relay, or none.                             *)

\* Capabilities sign well-typed requests.
LEMMA RequestTypes ==
  ASSUME MessengerInv, NEW c \in Client
  PROVE  /\ Registration(c, clock + RequestWindow) \in R!MailboxRegistration
         /\ AuthorizeFetch(c, clock + RequestWindow) \in R!FetchRequest
         /\ AuthorizeDelete(c, clock + RequestWindow) \in R!FetchRequest
         /\ \A row \in R!Message :
              AuthorizeAck(c, row, clock + RequestWindow) \in R!AckRequest
<1>1. clock + RequestWindow \in R!Timestamp
  BY InvMailState, ClockType, Zenon DEF R!Timestamp
<1>2. Cardinality(fetched) \in Nat
  BY FS_CardinalityType, Zenon DEF MessengerInv
<1>3. \A role \in Role : <<c, role>> \in Client \X Role
  BY Zenon
<1>4. Registration(c, clock + RequestWindow) \in R!MailboxRegistration
  BY <1>1, <1>3, Zenon DEF Registration, R!MailboxRegistration, Role
<1>5. AuthorizeFetch(c, clock + RequestWindow) \in R!FetchRequest
  BY <1>1, <1>2, <1>3, Zenon DEF AuthorizeFetch, R!FetchRequest, Role
<1>6. AuthorizeDelete(c, clock + RequestWindow) \in R!FetchRequest
  BY <1>1, <1>3, Zenon DEF AuthorizeDelete, R!FetchRequest, Role
<1>7. ASSUME NEW row \in R!Message
      PROVE  AuthorizeAck(c, row, clock + RequestWindow) \in R!AckRequest
  <2>1. row.message_id \in C!Random /\ row.ciphertext \in C!Packet
    BY Zenon DEF R!Message
  <2> QED
    BY <1>1, <1>3, <2>1, Zenon DEF AuthorizeAck, R!AckRequest, Role
<1> QED
  BY <1>4, <1>5, <1>6, <1>7, Zenon

\* Every step is a step of the relay with the requests that capabilities sign.
LEMMA RelayStep ==
  ASSUME MessengerInv, [Next]_vars
  PROVE  [RP!Next]_(RP!vars)
<1> USE DEF relay
<1>1. ASSUME NEW c \in Client, RegisterMailbox(c) PROVE RP!Next
  BY <1>1, RequestTypes, SameRegister, Zenon DEF RegisterMailbox, RP!Next, RP!Operation
<1>2. ASSUME UNCHANGED <<relay, clock>> PROVE UNCHANGED RP!vars
  BY <1>2, Zenon DEF RP!vars, RP!tables, RP!history
<1>3. ASSUME NEW c \in Client, ExportBundle(c) \/ VerifyBundle(c) PROVE UNCHANGED RP!vars
  BY <1>2, <1>3, Zenon DEF ExportBundle, VerifyBundle, C!PrekeyBundle, C!VerifyPeer
<1>4. ASSUME NEW c \in Client, StartSession(c) \/ Compose(c) PROVE UNCHANGED RP!vars
  BY <1>2, <1>4, Zenon DEF StartSession, Compose, C!StartOutboundSession, C!Seal
<1>5. ASSUME NEW c \in Client, Sending(c) PROVE RP!Next
  <2>1. PICK req \in outbox[c] : Send(c, req)
    BY <1>5, Zenon DEF Sending
  <2>2. req \in R!SendRequest
    BY <2>1, Zenon DEF MessengerInv, MailInv, BoxInv
  <2> QED
    BY <2>1, <2>2, SameEnqueue, Zenon DEF Send, RP!Next, RP!Operation
<1>6. ASSUME NEW c \in Client, FetchMail(c) PROVE RP!Next
  BY <1>6, RequestTypes, SameFetch, Zenon DEF FetchMail, RP!Next, RP!Operation
<1>7. ASSUME NEW c \in Client, Verifying(c) \/ Opening(c) PROVE UNCHANGED RP!vars
  BY <1>2, <1>7, Zenon DEF Verifying, VerifyMail, Opening, OpenMail, C!OpenInitial, C!Open
<1>8. ASSUME NEW c \in Client, Acking(c) PROVE RP!Next
  <2>1. PICK row \in opened[c] : SendAck(c, row)
    BY <1>8 DEF Acking
  <2>2. row \in R!Message
    BY <2>1, Zenon DEF MessengerInv, MailInv, BoxInv
  <2> QED
    BY <2>1, <2>2, RequestTypes, SameAcknowledge, Zenon DEF SendAck, RP!Next, RP!Operation
<1>9. ASSUME NEW c \in Client, CloseMailbox(c) PROVE RP!Next
  BY <1>9, RequestTypes, SameDelete, Zenon DEF CloseMailbox, RP!Next, RP!Operation
<1>10. ASSUME NEW c \in Client, Restart(c) PROVE UNCHANGED RP!vars
  BY <1>2, <1>10, Zenon DEF Restart, C!Restart
<1>11. ASSUME Redeliver PROVE RP!Next
  BY <1>11, InvMailState, SameEnqueue, SameFetch, SameAcknowledge, Zenon
  DEF MailState, RelayTypes, Redeliver, RP!Next, RP!Operation
<1>12. ASSUME Purge PROVE RP!Next
  BY <1>12, SamePurge, Zenon DEF Purge, RP!Next, RP!Operation
<1>13. ASSUME Tick PROVE RP!Next
  BY <1>13, Zenon DEF Tick, C!Tick, RP!Next, RP!Tick, RP!tables, RP!history
<1>14. ASSUME UNCHANGED vars PROVE UNCHANGED RP!vars
  BY <1>2, <1>14, Zenon DEF vars
<1> QED
  BY <1>1, <1>3, <1>4, <1>5, <1>6, <1>7, <1>8, <1>9, <1>10, <1>11, <1>12, <1>13, <1>14,
     MessengerAssumption, Zenon
  DEF Next

\* A step adds one fetch at most to those the relay has answered.
LEMMA FetchedFinite ==
  ASSUME MessengerInv, [Next]_vars
  PROVE  IsFiniteSet(fetched')
<1>1. ASSUME NEW req, \/ RP!Register(req, clock) \/ RP!Enqueue(req, clock)
                      \/ RP!Acknowledge(req, clock) \/ RP!DeleteMailbox(req, clock)
                      \/ RP!PurgeExpired(clock)
      PROVE  fetched' = fetched
  BY <1>1, Zenon DEF RP!Register, RP!Enqueue, RP!Acknowledge, RP!DeleteMailbox, RP!PurgeExpired,
              RP!SweepOnly, RP!Rollback, RP!tables, RP!history
<1>2. ASSUME NEW req, RP!Fetch(req, clock)
      PROVE  fetched' = fetched \/ fetched' = fetched \cup {req}
  BY <1>2, Zenon DEF RP!Fetch, RP!Rollback, RP!tables, RP!history
<1>3. ASSUME RP!Tick \/ UNCHANGED RP!vars PROVE fetched' = fetched
  BY <1>3, Zenon DEF RP!Tick, RP!vars, RP!tables, RP!history
<1>4. fetched' = fetched \/ \E req : fetched' = fetched \cup {req}
  BY <1>1, <1>2, <1>3, RelayStep, Zenon DEF RP!Next, RP!Operation
<1> QED
  BY <1>4, FS_AddElement, Zenon DEF MessengerInv

\* Where relay and clients start.
LEMMA InitComponents ==
  ASSUME Init
  PROVE  RP!Init /\ CP!Init
<1>1. RP!Init
  BY Zenon DEF Init, R!Init, RP!Init
<1>2. CP!Init
  BY DEF Init, C!Init, CP!Init, C!NoSession, CP!NoSession
<1> QED
  BY <1>1, <1>2, Zenon

\* The invariants of the relay and of the clients hold while they are used
\* together, and every request, row and envelope is one packet signed once.
THEOREM MessengerInvariant == Spec => []MessengerInv
<1>1. Init => MessengerInv
  <2> SUFFICES ASSUME Init PROVE MessengerInv
    BY Zenon
  <2>1. RP!TableInv
    BY InitComponents, RP!InitTables, RelayAssumptions, Zenon
    DEF RP!BoundsAssumption, RP!TtlAssumption, RP!RequestAssumption
  <2>2. RP!RetryInv
    BY <2>1, InitComponents, Zenon DEF RP!Init, RP!RetryInv
  <2>3. CP!ClientInv
    BY InitComponents, CP!InitEstablishes, ClientsAssumption, Zenon DEF CP!ClientAssumption
  <2>4. IsFiniteSet(fetched)
    BY InitComponents, FS_EmptySet, Zenon DEF RP!Init
  <2> QED
    BY <2>2, <2>3, <2>4, InitMail, Zenon DEF MessengerInv
<1>2. MessengerInv /\ [Next]_vars => MessengerInv'
  <2> SUFFICES ASSUME MessengerInv, [Next]_vars PROVE MessengerInv'
    BY Zenon
  <2>1. RP!RetryInv'
    BY RelayStep, RP!RetryStep, RelayAssumptions, Zenon
    DEF MessengerInv, RP!BoundsAssumption, RP!TtlAssumption, RP!RequestAssumption
  <2>2. CP!ClientInv' /\ MailInv' /\ HeldInv'
    BY InvMailState, ClientsKept, NextKeepsMail, NextKeepsHeld, Zenon DEF MessengerInv
  <2> QED
    BY <2>1, <2>2, FetchedFinite, Zenon DEF MessengerInv
<1> QED
  BY <1>1, <1>2, PTL DEF Spec

\* The relay is used as Relay specifies it: every call is an operation with a
\* well-typed request, at the current clock. What is proved of Relay holds here.
THEOREM RelayAsSpecified == Spec => RP!Spec
<1>1. Init => RP!Init
  BY InitComponents, Zenon
<1>2. MessengerInv /\ [Next]_vars => [RP!Next]_(RP!vars)
  BY RelayStep, Zenon
<1> QED
  BY <1>1, <1>2, MessengerInvariant, PTL DEF Spec, RP!Spec

\* The clients are used as OlmClient specifies them: every envelope they open is
\* one of its Envelopes. What is proved of OlmClient holds here.
THEOREM ClientsAsSpecified == Spec => CP!Spec
<1>1. Init => CP!Init
  BY InitComponents, Zenon
<1>2. MessengerInv /\ [Next]_vars => [CP!Next]_(CP!vars)
  BY InvMailState, ClientStep, Zenon DEF MessengerInv
<1> QED
  BY <1>1, <1>2, MessengerInvariant, PTL DEF Spec, CP!Spec

\* What the components promise alone they promise together: an answered send or
\* ACK is answered the same way again, a fetch is served once, and what open and
\* open_initial show is shown once and was sealed by the verified contact.
THEOREM ComponentsSafe ==
  Spec => [](/\ RP!SendRetryStable /\ RP!AckRetryStable /\ RP!FetchServedOnce
             /\ CP!DisplayedOnce /\ CP!SenderAuthentic)
<1>1. /\ RP!Spec => []RP!SendRetryStable
      /\ RP!Spec => []RP!AckRetryStable
      /\ RP!Spec => []RP!FetchServedOnce
  BY RP!SendRetrySafe, RP!AckRetrySafe, RP!FetchReplayRefused, RelayAssumptions, Zenon
  DEF RP!BoundsAssumption, RP!TtlAssumption, RP!RequestAssumption
<1>2. /\ CP!Spec => []CP!DisplayedOnce
      /\ CP!Spec => []CP!SenderAuthentic
  BY CP!ShownOnce, CP!SenderVerified, ClientsAssumption, Zenon DEF CP!ClientAssumption
<1> QED
  BY <1>1, <1>2, RelayAsSpecified, ClientsAsSpecified, PTL

\* Every box holds requests and rows of its owner (TypeOK).
THEOREM TypeCorrect == Spec => []TypeOK
<1>1. ASSUME MessengerInv PROVE TypeOK
  <2>1. C!TypeOK
    BY <1>1, Zenon DEF MessengerInv, CP!ClientInv, CP!TypeOK, C!TypeOK, CP!Identity, C!Identity, CP!Random,
           C!Random, CP!Secret, C!Secret, CP!PeerPreKey, C!PeerPreKey, CP!Packet, C!Packet,
           CP!NoSession, C!NoSession
  <2>2. \A c \in Client : /\ inbox[c] \subseteq RowOf(c) /\ opened[c] \subseteq RowOf(c)
                          /\ envelopes[c] \subseteq inbox[c]
    BY <1>1, InvMailState, BoxTypes, Zenon
    DEF RowOf, MessengerInv, MailInv, BoxInv, RowInv, HeldInv
  <2> QED
    BY <1>1, <2>1, <2>2, InvMailState, BoxTypes, Zenon DEF MailState, RelayTypes, TypeOK
<1> QED
  BY <1>1, MessengerInvariant, PTL

-----------------------------------------------------------------------------
(* Retries.                                                                *)

\* acknowledge finds the row of a stored request, or the tombstone that took its
\* place, until the message expires.
LEMMA AckServed ==
  ASSUME MessengerInv, NEW c \in Client, NEW row \in StoredRows, row.queue_id = c,
         R!HasMailbox(c), clock < row.expires_at
  PROVE  LET ack == AuthorizeAck(c, row, clock + RequestWindow) IN
         /\ R!AckOutcome(ack, clock) \in {"Deleted", "AlreadyDeleted"}
         /\ R!Queued(ack, clock) \subseteq {row}
<1> MailState
  BY InvMailState, Zenon
<1>0. PICK ack : ack = AuthorizeAck(c, row, clock + RequestWindow)
  BY Zenon
<1>1. /\ ack.queue_id = c /\ ack.message_id = row.message_id
      /\ ack.packet_hash = R!Digest(row.ciphertext)
      /\ ack.valid_until = clock + RequestWindow /\ ack.signature = <<c, "receive">>
  BY <1>0, Zenon DEF AuthorizeAck
<1>2. /\ R!ValidRequestTime(ack.valid_until, clock) /\ R!FitsI64(clock)
      /\ R!FitsI64(R!TombstoneDeadline(clock))
  BY <1>1, ClockType, MessengerAssumption
  DEF R!ValidRequestTime, R!SaturatingAdd, R!FitsI64, R!TombstoneDeadline, EndOfTime
<1>3. R!HasMailbox(ack.queue_id) /\ R!ReceiveKeyVerifies(ack)
  BY <1>1, KeysVerify, Zenon
<1>4. PICK s \in stored : row = R!MessageRow(s)
  BY Zenon DEF StoredRows
<1>5. /\ s.queue_id = c /\ s.message_id = row.message_id /\ s.expires_at = row.expires_at
      /\ row = RP!MessageRow(s)
  BY <1>4, SameQueries, Zenon DEF R!MessageRow
<1>6. RP!StoredMark(s) /\ RP!KeysHold /\ RP!QueuedOrTombstoned /\ RP!TypeOK
  BY Zenon DEF MessengerInv, RP!RetryInv, RP!TableInv
<1>7. /\ clock \in Nat /\ row.expires_at \in Nat
      /\ \A t \in tombstones : t.delete_after \in Nat
  BY <1>6, ClockType, StoredRowFacts DEF RP!TypeOK, RP!Tombstone, RP!StoredTimestamp
<1>8. R!Queued(ack, clock) \subseteq {row}
  BY <1>1, QueuedRow, Zenon
<1>9. R!AckOutcome(ack, clock) \in {"Deleted", "AlreadyDeleted"}
  <2>1. CASE row \in messages
    <3>1. R!Queued(ack, clock) # {}
      BY <1>1, <1>7, <2>1, Zenon DEF R!Queued, R!UnexpiredMessages, R!SameMessageId
    <3>2. R!DigestMatches(ack, clock)
      BY <1>1, <1>8, Zenon DEF R!DigestMatches
    <3> QED
      BY <1>2, <1>3, <3>1, <3>2, Zenon DEF R!AckOutcome
  <2>2. CASE \E t \in tombstones : RP!SameMessageId(t, s) /\ s.expires_at <= t.delete_after
    <3>1. PICK t \in tombstones : RP!SameMessageId(t, s) /\ s.expires_at <= t.delete_after
      BY <2>2, Zenon
    <3>2. R!Tombstoned(ack, clock)
      BY <1>1, <1>5, <1>7, <3>1
      DEF R!Tombstoned, R!UnexpiredTombstones, R!SameMessageId, RP!SameMessageId
    <3>3. R!Queued(ack, clock) = {}
      BY <1>1, <1>5, <1>6, <3>1, Zenon
      DEF R!Queued, R!UnexpiredMessages, R!SameMessageId, RP!SameMessageId, RP!QueuedOrTombstoned
    <3> QED
      BY <1>2, <1>3, <3>2, <3>3, Zenon DEF R!AckOutcome
  <2>3. RP!HasMailbox(s.queue_id) /\ ~(s.expires_at <= clock)
    BY <1>5, <1>7, SameQueries
  <2> QED
    BY <1>5, <1>6, <2>1, <2>2, <2>3, Zenon DEF RP!StoredMark
<1> QED
  BY <1>0, <1>8, <1>9, Zenon

\* A client that retries enqueue or acknowledge after a lost answer is served.
THEOREM RetriesAnswered == Spec => []RetriesServed
<1>1. ASSUME MessengerInv PROVE RetriesServed
  <2>1. ASSUME NEW c \in Client, NEW req \in outbox[c]
        PROVE  R!EnqueueOutcome(req, clock) \notin {"Unauthorized", "MessageConflict", "Storage"}
    BY <1>1, InvMailState, BoxTypes, SendServed, Zenon
  <2>2. ASSUME NEW c \in Client, NEW row \in opened[c], R!HasMailbox(c), clock < row.expires_at
        PROVE  R!AckOutcome(AuthorizeAck(c, row, clock + RequestWindow), clock)
                 \in {"Deleted", "AlreadyDeleted"}
    <3>1. row \in StoredRows /\ row.queue_id = c
      BY <1>1, Zenon DEF MessengerInv, MailInv, BoxInv, RowInv
    <3> QED
      BY <1>1, <2>2, <3>1, AckServed, Zenon
  <2> QED
    BY <2>1, <2>2, Zenon DEF RetriesServed
<1> QED
  BY <1>1, MessengerInvariant, PTL

\* Whatever was refused, lost, repeated or read out of order, a queued message
\* whose recipient has the keys for it opens at the first try.
THEOREM QueuedStaysReadable == Spec => []QueuedReadable
<1>1. MessengerInv => QueuedReadable
  BY InvMailState, MailReadable, Zenon DEF MessengerInv
<1> QED
  BY <1>1, MessengerInvariant, PTL
=============================================================================
