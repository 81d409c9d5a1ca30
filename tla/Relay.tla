------------------------------- MODULE Relay -------------------------------
(***************************************************************************)
(* The store-and-forward relay of src/src/relay.rs, used through one       *)
(* handle.  The six SQLite tables are sets of rows; an operation is one    *)
(* IMMEDIATE transaction, so it is one step.  Every operation takes the    *)
(* clock value `now' it was called with: this module calls it with the     *)
(* current clock, RelayHandles calls it with a value read before the lock. *)
(*                                                                         *)
(* An operation is described by two definitions: XOutcome(req, now), the   *)
(* value it returns, with the code's checks in the code's order; and the   *)
(* action X(req, now), what its transaction leaves in the tables.  A       *)
(* returned error drops the transaction, which rolls back the expiry sweep *)
(* with everything else.                                                   *)
(*                                                                         *)
(* A definition X_suffix is X with a fault in it; none is used by the      *)
(* specification.  They are what the properties are tried against.         *)
(***************************************************************************)
EXTENDS Naturals

CONSTANTS
  QueueId, MessageId, Packet, Nonce, Key,
  UnsendablePackets,   \* the packets that are empty or above MAX_PACKET_BYTES
  RequestWindow,       \* 5 * 60 of validate_request_time
  MaxMessageTtl,       \* MAX_MESSAGE_TTL_SECONDS
  TombstoneTtl,        \* TOMBSTONE_TTL_SECONDS
  I64Max, U64Max,      \* i64::MAX and u64::MAX
  MaxClock,            \* bound: the clock stops here
  Registrations, Sends, Fetches, Acks, Deletes  \* the requests in circulation

(***************************************************************************)
(* SHA-256, taken to be free of collisions.                                *)
(***************************************************************************)
Digest(value) == <<"sha256", value>>

Timestamp == 0..U64Max
StoredTimestamp == 0..I64Max

(***************************************************************************)
(* Requests.  `signature' is the key under which the request's signature   *)
(* verifies over its canonical signing bytes: a request altered or         *)
(* retargeted after signing carries a key nobody registered.               *)
(***************************************************************************)
MailboxRegistration ==
  [queue_id : QueueId, send_key : Key, receive_key : Key, manage_key : Key,
   nonce : Nonce, valid_until : Timestamp, signature : Key]
SendRequest ==
  [queue_id : QueueId, message_id : MessageId, packet : Packet,
   expires_at : Timestamp, signature : Key]
FetchRequest ==
  [queue_id : QueueId, nonce : Nonce, valid_until : Timestamp, signature : Key]
AckRequest ==
  [queue_id : QueueId, message_id : MessageId, packet_hash : {Digest(p) : p \in Packet},
   valid_until : Timestamp, signature : Key]
DeleteMailboxRequest == FetchRequest

ASSUME BoundsAssumption ==
  /\ RequestWindow \in Nat /\ MaxMessageTtl \in Nat /\ TombstoneTtl \in Nat
  /\ I64Max \in Nat /\ U64Max \in Nat /\ MaxClock \in Nat
  /\ I64Max <= U64Max /\ MaxClock <= U64Max

\* 7 days against 7 days, and 5 minutes against 7 days.
ASSUME TtlAssumption ==
  MaxMessageTtl <= TombstoneTtl /\ RequestWindow <= TombstoneTtl

ASSUME RequestAssumption ==
  /\ Registrations \subseteq MailboxRegistration
  /\ Sends \subseteq SendRequest
  /\ Fetches \subseteq FetchRequest
  /\ Acks \subseteq AckRequest
  /\ Deletes \subseteq DeleteMailboxRequest

VARIABLES
  mailboxes, messages, tombstones, request_nonces, registration_nonces,
  retired_queues,      \* the six tables of CURRENT_SCHEMA_DDL
  clock,               \* Unix time in seconds
  stored,              \* history: send requests answered Stored
  fetched,             \* history: fetch requests answered with envelopes
  acked                \* history: [ack, row], ACKs answered Deleted and what they deleted

tables == <<mailboxes, messages, tombstones, request_nonces, registration_nonces,
            retired_queues>>
history == <<stored, fetched, acked>>
vars == <<tables, clock, history>>

Mailbox == [queue_id : QueueId, send_key : Key, receive_key : Key, manage_key : Key]
Message == [queue_id : QueueId, message_id : MessageId, ciphertext : Packet,
            expires_at : StoredTimestamp, sender_signature : Key]
Tombstone == [queue_id : QueueId, message_id : MessageId, delete_after : StoredTimestamp]
RequestNonce == [queue_id : QueueId, role : {"receive", "manage"}, nonce : Nonce,
                 delete_after : StoredTimestamp]
RegistrationNonce == [queue_id : QueueId, nonce : Nonce, delete_after : StoredTimestamp]

Init ==
  /\ mailboxes = {} /\ messages = {} /\ tombstones = {} /\ request_nonces = {}
  /\ registration_nonces = {} /\ retired_queues = {}
  /\ clock = 0
  /\ stored = {} /\ fetched = {} /\ acked = {}

-----------------------------------------------------------------------------
(* Integer conversions and time windows.                                   *)

\* u64::saturating_add
SaturatingAdd(a, b) == IF a + b > U64Max THEN U64Max ELSE a + b

\* to_i64 succeeds
FitsI64_any(value) == TRUE
FitsI64(value) == value <= I64Max

ValidRequestTime(valid_until, now) ==
  now < valid_until /\ valid_until <= SaturatingAdd(now, RequestWindow)

ValidMessageExpiry(expires_at, now) ==
  now < expires_at /\ expires_at <= SaturatingAdd(now, MaxMessageTtl)

TombstoneDeadline_window(now) == SaturatingAdd(now, RequestWindow)
TombstoneDeadline(now) == SaturatingAdd(now, TombstoneTtl)

-----------------------------------------------------------------------------
(* purge_expired_in: what the sweep at `now' leaves of four of the tables.  *)

UnexpiredMessages_early(now) == {m \in messages : m.expires_at > now + 1}
UnexpiredMessages(now) == {m \in messages : m.expires_at > now}

UnexpiredTombstones(now) == {t \in tombstones : t.delete_after > now}

UnexpiredRequestNonces_early(now) == {n \in request_nonces : n.delete_after > now + 1}
UnexpiredRequestNonces(now) == {n \in request_nonces : n.delete_after > now}

UnexpiredRegistrationNonces(now) == {n \in registration_nonces : n.delete_after > now}

-----------------------------------------------------------------------------
(* Queries.                                                                *)

HasMailbox(q) == \E mb \in mailboxes : mb.queue_id = q

\* mailbox_key(.., column) exists and verifies the request's signature
SendKeyVerifies(req) ==
  \E mb \in mailboxes : mb.queue_id = req.queue_id /\ mb.send_key = req.signature
ReceiveKeyVerifies(req) ==
  \E mb \in mailboxes : mb.queue_id = req.queue_id /\ mb.receive_key = req.signature
ManageKeyVerifies(req) ==
  \E mb \in mailboxes : mb.queue_id = req.queue_id /\ mb.manage_key = req.signature

Retired_never(q) == FALSE
Retired(q) == Digest(q) \in retired_queues

SameKeys(req) ==
  \E mb \in mailboxes :
    /\ mb.queue_id = req.queue_id
    /\ mb.send_key = req.send_key
    /\ mb.receive_key = req.receive_key
    /\ mb.manage_key = req.manage_key

RegistrationNonceRecorded(req, now) ==
  \E n \in UnexpiredRegistrationNonces(now) :
    n.queue_id = req.queue_id /\ n.nonce = req.nonce

\* the conflict that makes the INSERT OR IGNORE of record_nonce insert nothing
NonceRecorded(req, role, now) ==
  \E n \in UnexpiredRequestNonces(now) :
    n.queue_id = req.queue_id /\ n.role = role /\ n.nonce = req.nonce

SameMessageId(row, req) ==
  row.queue_id = req.queue_id /\ row.message_id = req.message_id

Tombstoned_never(req, now) == FALSE
Tombstoned(req, now) == \E t \in UnexpiredTombstones(now) : SameMessageId(t, req)

Queued(req, now) == {m \in UnexpiredMessages(now) : SameMessageId(m, req)}

DigestMatches_any(req, now) == TRUE
DigestMatches(req, now) ==
  \A m \in Queued(req, now) : Digest(m.ciphertext) = req.packet_hash

SamePacket(req, now) == \A m \in Queued(req, now) : m.ciphertext = req.packet
SameExpiry(req, now) == \A m \in Queued(req, now) : m.expires_at = req.expires_at

-----------------------------------------------------------------------------
(* What each operation returns.                                            *)

RegisterOutcome(req, now) ==
  IF ~ValidRequestTime(req.valid_until, now) THEN "RequestExpired"
  ELSE IF req.signature # req.manage_key THEN "Unauthorized"
  ELSE IF ~FitsI64(now) THEN "Storage"
  ELSE IF Retired(req.queue_id) THEN "MailboxConflict"
  ELSE IF HasMailbox(req.queue_id) /\ ~SameKeys(req) THEN "MailboxConflict"
  ELSE IF ~FitsI64(req.valid_until) THEN "Storage"
  ELSE IF HasMailbox(req.queue_id) THEN "AlreadyRegistered"
  ELSE IF RegistrationNonceRecorded(req, now) THEN "Unauthorized"
  ELSE "Registered"

EnqueueOutcome(req, now) ==
  IF req.packet \in UnsendablePackets THEN "InvalidPayload"
  ELSE IF ~ValidMessageExpiry(req.expires_at, now) THEN "InvalidExpiry"
  ELSE IF ~FitsI64(now) THEN "Storage"
  ELSE IF ~HasMailbox(req.queue_id) THEN "MailboxNotFound"
  ELSE IF ~SendKeyVerifies(req) THEN "Unauthorized"
  ELSE IF Tombstoned(req, now) THEN "MessageGone"
  ELSE IF Queued(req, now) # {} /\ ~SamePacket(req, now) THEN "MessageConflict"
  ELSE IF ~FitsI64(req.expires_at) THEN "Storage"
  ELSE IF Queued(req, now) = {} THEN "Stored"
  ELSE IF SameExpiry(req, now) THEN "Duplicate"
  ELSE "MessageConflict"

FetchOutcome(req, now) ==
  IF ~ValidRequestTime(req.valid_until, now) THEN "RequestExpired"
  ELSE IF ~FitsI64(now) THEN "Storage"
  ELSE IF ~HasMailbox(req.queue_id) THEN "MailboxNotFound"
  ELSE IF ~ReceiveKeyVerifies(req) THEN "Unauthorized"
  ELSE IF ~FitsI64(req.valid_until) THEN "Storage"
  ELSE IF NonceRecorded(req, "receive", now) THEN "Unauthorized"
  ELSE "Fetched"

AckOutcome(req, now) ==
  IF ~ValidRequestTime(req.valid_until, now) THEN "RequestExpired"
  ELSE IF ~FitsI64(now) THEN "Storage"
  ELSE IF ~HasMailbox(req.queue_id) THEN "MailboxNotFound"
  ELSE IF ~ReceiveKeyVerifies(req) THEN "Unauthorized"
  ELSE IF Queued(req, now) = {}
       THEN IF Tombstoned(req, now) THEN "AlreadyDeleted" ELSE "MessageNotFound"
  ELSE IF ~DigestMatches(req, now) THEN "Unauthorized"
  ELSE IF ~FitsI64(TombstoneDeadline(now)) THEN "Storage"
  ELSE "Deleted"

DeleteOutcome(req, now) ==
  IF ~ValidRequestTime(req.valid_until, now) THEN "RequestExpired"
  ELSE IF ~FitsI64(now) THEN "Storage"
  ELSE IF ~HasMailbox(req.queue_id) THEN "MailboxNotFound"
  ELSE IF ~ManageKeyVerifies(req) THEN "Unauthorized"
  ELSE IF ~FitsI64(req.valid_until) THEN "Storage"
  ELSE IF NonceRecorded(req, "manage", now) THEN "Unauthorized"
  ELSE "MailboxDeleted"

-----------------------------------------------------------------------------
(* What each transaction leaves in the tables.                             *)

\* INSERT OR IGNORE INTO registration_nonces
WithRegistrationNonce(req, now) ==
  IF RegistrationNonceRecorded(req, now)
  THEN UnexpiredRegistrationNonces(now)
  ELSE UnexpiredRegistrationNonces(now) \cup
         {[queue_id |-> req.queue_id, nonce |-> req.nonce, delete_after |-> req.valid_until]}

MailboxRow(req) ==
  [queue_id |-> req.queue_id, send_key |-> req.send_key,
   receive_key |-> req.receive_key, manage_key |-> req.manage_key]

MessageRow(req) ==
  [queue_id |-> req.queue_id, message_id |-> req.message_id, ciphertext |-> req.packet,
   expires_at |-> req.expires_at, sender_signature |-> req.signature]

\* INSERT .. ON CONFLICT DO UPDATE of a tombstone
WithTombstone_none(req, now) == UnexpiredTombstones(now)
WithTombstone(req, now) ==
  {t \in UnexpiredTombstones(now) : ~SameMessageId(t, req)} \cup
    {[queue_id |-> req.queue_id, message_id |-> req.message_id,
      delete_after |-> TombstoneDeadline(now)]}

\* ON DELETE CASCADE: the rows of a child table that survive their mailbox
SurvivingRows_all(rows, q) == rows
SurvivingRows(rows, q) == {r \in rows : r.queue_id # q}

Retire_forgotten(q) == retired_queues
Retire(q) == retired_queues \cup {Digest(q)}

\* the sweep and nothing else, committed
SweepOnly(now) ==
  /\ messages' = UnexpiredMessages(now)
  /\ tombstones' = UnexpiredTombstones(now)
  /\ request_nonces' = UnexpiredRequestNonces(now)
  /\ registration_nonces' = UnexpiredRegistrationNonces(now)
  /\ UNCHANGED <<mailboxes, retired_queues, history>>

Rollback == UNCHANGED <<tables, history>>

Register(req, now) ==
  LET outcome == RegisterOutcome(req, now) IN
  \/ /\ outcome \in {"Registered", "AlreadyRegistered"}
     /\ messages' = UnexpiredMessages(now)
     /\ tombstones' = UnexpiredTombstones(now)
     /\ request_nonces' = UnexpiredRequestNonces(now)
     /\ registration_nonces' = WithRegistrationNonce(req, now)
     /\ mailboxes' = IF outcome = "Registered" THEN mailboxes \cup {MailboxRow(req)}
                                               ELSE mailboxes
     /\ UNCHANGED <<retired_queues, history>>
  \/ /\ outcome \notin {"Registered", "AlreadyRegistered"}
     /\ Rollback

Enqueue(req, now) ==
  LET outcome == EnqueueOutcome(req, now) IN
  \/ /\ outcome = "Stored"
     /\ messages' = UnexpiredMessages(now) \cup {MessageRow(req)}
     /\ tombstones' = UnexpiredTombstones(now)
     /\ request_nonces' = UnexpiredRequestNonces(now)
     /\ registration_nonces' = UnexpiredRegistrationNonces(now)
     /\ stored' = stored \cup {req}
     /\ UNCHANGED <<mailboxes, retired_queues, fetched, acked>>
  \/ outcome = "Duplicate" /\ SweepOnly(now)
  \/ outcome \notin {"Stored", "Duplicate"} /\ Rollback

\* The envelopes returned, the queue's rows that the sweep left, change no table.
Fetch(req, now) ==
  LET outcome == FetchOutcome(req, now) IN
  \/ /\ outcome = "Fetched"
     /\ messages' = UnexpiredMessages(now)
     /\ tombstones' = UnexpiredTombstones(now)
     /\ request_nonces' = UnexpiredRequestNonces(now) \cup
          {[queue_id |-> req.queue_id, role |-> "receive", nonce |-> req.nonce,
            delete_after |-> req.valid_until]}
     /\ registration_nonces' = UnexpiredRegistrationNonces(now)
     /\ fetched' = fetched \cup {req}
     /\ UNCHANGED <<mailboxes, retired_queues, stored, acked>>
  \/ outcome # "Fetched" /\ Rollback

Acknowledge(req, now) ==
  LET outcome == AckOutcome(req, now) IN
  \/ /\ outcome = "Deleted"
     /\ messages' = UnexpiredMessages(now) \ Queued(req, now)
     /\ tombstones' = WithTombstone(req, now)
     /\ request_nonces' = UnexpiredRequestNonces(now)
     /\ registration_nonces' = UnexpiredRegistrationNonces(now)
     /\ acked' = acked \cup {[ack |-> req, row |-> m] : m \in Queued(req, now)}
     /\ UNCHANGED <<mailboxes, retired_queues, stored, fetched>>
  \/ outcome = "AlreadyDeleted" /\ SweepOnly(now)
  \/ outcome \notin {"Deleted", "AlreadyDeleted"} /\ Rollback

\* The nonce recorded for the request is a child row of the mailbox and goes
\* with it; registration_nonces has no foreign key and stays.
DeleteMailbox(req, now) ==
  LET outcome == DeleteOutcome(req, now) IN
  \/ /\ outcome = "MailboxDeleted"
     /\ retired_queues' = Retire(req.queue_id)
     /\ mailboxes' = {mb \in mailboxes : mb.queue_id # req.queue_id}
     /\ messages' = SurvivingRows(UnexpiredMessages(now), req.queue_id)
     /\ tombstones' = SurvivingRows(UnexpiredTombstones(now), req.queue_id)
     /\ request_nonces' = SurvivingRows(UnexpiredRequestNonces(now), req.queue_id)
     /\ registration_nonces' = UnexpiredRegistrationNonces(now)
     /\ UNCHANGED history
  \/ outcome # "MailboxDeleted" /\ Rollback

\* purge_expired, queued_message_count_at, and the reopening of a current database
PurgeExpired(now) ==
  \/ FitsI64(now) /\ SweepOnly(now)
  \/ ~FitsI64(now) /\ Rollback

-----------------------------------------------------------------------------
Tick ==
  /\ clock < MaxClock
  /\ clock' = clock + 1
  /\ UNCHANGED <<tables, history>>

Operation(now) ==
  \/ \E req \in Registrations : Register(req, now)
  \/ \E req \in Sends : Enqueue(req, now)
  \/ \E req \in Fetches : Fetch(req, now)
  \/ \E req \in Acks : Acknowledge(req, now)
  \/ \E req \in Deletes : DeleteMailbox(req, now)
  \/ PurgeExpired(now)

Next ==
  \/ Operation(clock) /\ UNCHANGED clock
  \/ Tick

Spec == Init /\ [][Next]_vars

-----------------------------------------------------------------------------
(* Properties.                                                             *)

\* Every column holds a value of its type, and every stored timestamp fits the
\* signed 64-bit column it was converted to (to_i64).
TypeOK ==
  /\ mailboxes \subseteq Mailbox
  /\ messages \subseteq Message
  /\ tombstones \subseteq Tombstone
  /\ request_nonces \subseteq RequestNonce
  /\ registration_nonces \subseteq RegistrationNonce
  /\ retired_queues \subseteq {Digest(q) : q \in QueueId}
  /\ clock \in 0..MaxClock
  /\ stored \subseteq Sends
  /\ fetched \subseteq Fetches
  /\ acked \subseteq [ack : Acks, row : Message]

\* Primary keys and foreign keys: no two rows of a table share a key, and every
\* message, tombstone and request nonce belongs to a registered mailbox.  The
\* handlers' reads (query_row .. optional) take the first row of a key.
KeysHold ==
  /\ \A a, b \in mailboxes : a.queue_id = b.queue_id => a = b
  /\ \A a, b \in messages : SameMessageId(a, b) => a = b
  /\ \A a, b \in tombstones : SameMessageId(a, b) => a = b
  /\ \A a, b \in request_nonces :
       a.queue_id = b.queue_id /\ a.role = b.role /\ a.nonce = b.nonce => a = b
  /\ \A a, b \in registration_nonces : a.queue_id = b.queue_id /\ a.nonce = b.nonce => a = b
  /\ \A r \in messages \cup tombstones \cup request_nonces : HasMailbox(r.queue_id)

\* A message id is never both queued and tombstoned in its queue, so enqueue's
\* tombstone check and acknowledge's upsert never meet a live row.
QueuedOrTombstoned ==
  \A m \in messages, t \in tombstones : ~SameMessageId(m, t)

\* A deleted mailbox never comes back: no queue is both registered and retired.
RetiredForever == \A mb \in mailboxes : Digest(mb.queue_id) \notin retired_queues

\* A recorded registration nonce belongs to a queue that is registered or
\* retired, so register's `recorded != 1' refusal is never the answer given.
RegistrationNonceBacked ==
  \A n \in registration_nonces : HasMailbox(n.queue_id) \/ Digest(n.queue_id) \in retired_queues

\* Enqueue happens once per signed request: a request that was answered Stored,
\* presented again at any later time, is a duplicate, gone or expired.  It is
\* never stored again after its ACK, and never conflicts with itself.
SendRetryStable ==
  \A req \in stored :
    EnqueueOutcome(req, clock) \in
      {"Duplicate", "MessageGone", "InvalidExpiry", "MailboxNotFound"}

\* A lost ACK response can be retried: the same ACK is answered AlreadyDeleted
\* until it expires or the mailbox goes, whatever happens in between.
AckRetryStable ==
  \A a \in acked :
    AckOutcome(a.ack, clock) \in {"AlreadyDeleted", "RequestExpired", "MailboxNotFound"}

\* A fetch request is served once: its nonce is swept away only when the
\* request itself has expired.
FetchServedOnce ==
  \A req \in fetched :
    FetchOutcome(req, clock) \in {"Unauthorized", "RequestExpired", "MailboxNotFound"}

\* A row leaves the messages table only by expiring, with its mailbox, or by an
\* ACK under the mailbox's receive key for exactly the bytes the row holds.
MessageKeptUntilDone ==
  [][\A m \in messages \ messages' :
       \/ m.expires_at <= clock
       \/ ~HasMailbox(m.queue_id)'
       \/ \E a \in acked' : /\ a.row = m
                            /\ a.ack.packet_hash = Digest(m.ciphertext)
                            /\ ReceiveKeyVerifies(a.ack)]_vars

=============================================================================
