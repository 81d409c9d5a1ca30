---------------------------- MODULE RelayProofs ----------------------------
(***************************************************************************)
(* What the relay's transactions preserve for every clock value, and what  *)
(* a relay used through one handle guarantees, proved for all constants.   *)
(***************************************************************************)
EXTENDS Relay, TLAPS

\* A committed conversion to a signed column keeps the timestamp in range.
LEMMA FitsType ==
  ASSUME NEW t \in Timestamp, FitsI64(t)
  PROVE  t \in StoredTimestamp
  BY BoundsAssumption DEF Timestamp, StoredTimestamp, FitsI64

\* A saturating sum is a timestamp.
LEMMA SaturatingAddType ==
  ASSUME NEW a \in Timestamp, NEW b \in Nat
  PROVE  SaturatingAdd(a, b) \in Timestamp
  BY BoundsAssumption DEF Timestamp, SaturatingAdd

\* Whatever `now' an operation runs with, it leaves every column well typed.
LEMMA OperationType ==
  ASSUME TypeOK, NEW now \in 0..MaxClock, Operation(now), UNCHANGED clock
  PROVE  TypeOK'
<1> USE DEF Mailbox, Message, Tombstone, RequestNonce, RegistrationNonce
<1>0. now \in Timestamp
  BY BoundsAssumption DEF Timestamp
<1>a. /\ UnexpiredMessages(now) \subseteq Message
      /\ UnexpiredTombstones(now) \subseteq Tombstone
      /\ UnexpiredRequestNonces(now) \subseteq RequestNonce
      /\ UnexpiredRegistrationNonces(now) \subseteq RegistrationNonce
  BY DEF TypeOK, UnexpiredMessages, UnexpiredTombstones, UnexpiredRequestNonces,
         UnexpiredRegistrationNonces
<1>b. CASE SweepOnly(now)
  BY <1>a, <1>b DEF TypeOK, SweepOnly, history
<1>c. CASE Rollback
  BY <1>c DEF TypeOK, Rollback, tables, history
<1>1. ASSUME NEW req \in Registrations, Register(req, now)
      PROVE  TypeOK'
  <2>1. req \in MailboxRegistration
    BY RequestAssumption
  <2>2. CASE RegisterOutcome(req, now) \in {"Registered", "AlreadyRegistered"}
    <3>1. FitsI64(req.valid_until)
      BY <2>2 DEF RegisterOutcome
    <3>2. WithRegistrationNonce(req, now) \subseteq RegistrationNonce
      BY <1>a, <2>1, <3>1, FitsType DEF WithRegistrationNonce, MailboxRegistration
    <3>3. MailboxRow(req) \in Mailbox
      BY <2>1 DEF MailboxRow, MailboxRegistration
    <3> QED
      BY <1>1, <1>a, <2>2, <3>2, <3>3 DEF Register, TypeOK, history
  <2> QED
    BY <1>1, <1>c, <2>2 DEF Register
<1>2. ASSUME NEW req \in Sends, Enqueue(req, now)
      PROVE  TypeOK'
  <2>1. req \in SendRequest
    BY RequestAssumption
  <2>2. CASE EnqueueOutcome(req, now) = "Stored"
    <3>1. FitsI64(req.expires_at)
      BY <2>2 DEF EnqueueOutcome
    <3>2. MessageRow(req) \in Message
      BY <2>1, <3>1, FitsType DEF MessageRow, SendRequest
    <3> QED
      BY <1>2, <1>a, <2>2, <3>2 DEF Enqueue, SweepOnly, TypeOK
  <2> QED
    BY <1>2, <1>b, <1>c, <2>2 DEF Enqueue
<1>3. ASSUME NEW req \in Fetches, Fetch(req, now)
      PROVE  TypeOK'
  <2>1. req \in FetchRequest
    BY RequestAssumption
  <2>2. CASE FetchOutcome(req, now) = "Fetched"
    <3>1. FitsI64(req.valid_until)
      BY <2>2 DEF FetchOutcome
    <3>2. [queue_id |-> req.queue_id, role |-> "receive", nonce |-> req.nonce,
           delete_after |-> req.valid_until] \in RequestNonce
      BY <2>1, <3>1, FitsType DEF FetchRequest
    <3> QED
      BY <1>3, <1>a, <2>2, <3>2 DEF Fetch, TypeOK
  <2> QED
    BY <1>3, <1>c, <2>2 DEF Fetch
<1>4. ASSUME NEW req \in Acks, Acknowledge(req, now)
      PROVE  TypeOK'
  <2>1. req \in AckRequest
    BY RequestAssumption
  <2>2. CASE AckOutcome(req, now) = "Deleted"
    <3>1. FitsI64(TombstoneDeadline(now))
      BY <2>2 DEF AckOutcome
    <3>2. TombstoneDeadline(now) \in StoredTimestamp
      BY <1>0, <3>1, FitsType, SaturatingAddType, BoundsAssumption, Zenon DEF TombstoneDeadline
    <3>3. WithTombstone(req, now) \subseteq Tombstone
      BY <1>a, <2>1, <3>2 DEF WithTombstone, AckRequest
    <3>4. Queued(req, now) \subseteq Message
      BY <1>a DEF Queued
    <3>5. acked' \subseteq [ack : Acks, row : Message]
      BY <1>4, <2>2, <3>4 DEF Acknowledge, TypeOK
    <3> QED
      BY <1>4, <1>a, <2>2, <3>3, <3>5 DEF Acknowledge, TypeOK
  <2> QED
    BY <1>4, <1>b, <1>c, <2>2 DEF Acknowledge
<1>5. ASSUME NEW req \in Deletes, DeleteMailbox(req, now)
      PROVE  TypeOK'
  <2>1. req \in FetchRequest
    BY RequestAssumption DEF DeleteMailboxRequest
  <2>2. CASE DeleteOutcome(req, now) = "MailboxDeleted"
    <3>1. Retire(req.queue_id) \subseteq {Digest(q) : q \in QueueId}
      BY <2>1 DEF Retire, TypeOK, FetchRequest
    <3> QED
      BY <1>5, <1>a, <2>2, <3>1 DEF DeleteMailbox, SurvivingRows, TypeOK, history
  <2> QED
    BY <1>5, <1>c, <2>2 DEF DeleteMailbox
<1>6. CASE PurgeExpired(now)
  BY <1>6, <1>b, <1>c DEF PurgeExpired
<1> QED
  BY <1>1, <1>2, <1>3, <1>4, <1>5, <1>6 DEF Operation

\* Relay's columns keep their types, and its timestamps their width.
THEOREM TypeCorrect == Spec => []TypeOK
<1>1. Init => TypeOK
  BY BoundsAssumption DEF Init, TypeOK
<1>2. TypeOK /\ [Next]_vars => TypeOK'
  <2> SUFFICES ASSUME TypeOK, [Next]_vars PROVE TypeOK'
    OBVIOUS
  <2>1. CASE Operation(clock) /\ UNCHANGED clock
    BY <2>1, OperationType DEF TypeOK
  <2>2. CASE Tick
    BY <2>2, BoundsAssumption DEF Tick, TypeOK, tables, history
  <2>3. CASE UNCHANGED vars
    BY <2>3 DEF vars, tables, history, TypeOK
  <2> QED
    BY <2>1, <2>2, <2>3 DEF Next
<1> QED
  BY <1>1, <1>2, PTL DEF Spec

-----------------------------------------------------------------------------
(***************************************************************************)
(* The facts that relate the tables to each other.  None depends on the    *)
(* clock, so they survive an operation that runs with any `now'.           *)
(***************************************************************************)
TableInv ==
  TypeOK /\ KeysHold /\ QueuedOrTombstoned /\ RetiredForever /\ RegistrationNonceBacked

\* A committed sweep only removes rows, and no row that others depend on.
LEMMA SweepKeepsTables ==
  ASSUME TableInv, NEW now, SweepOnly(now)
  PROVE  (KeysHold /\ QueuedOrTombstoned /\ RetiredForever /\ RegistrationNonceBacked)'
<1> USE DEF TableInv, SweepOnly, UnexpiredMessages, UnexpiredTombstones,
            UnexpiredRequestNonces, UnexpiredRegistrationNonces
<1>1. KeysHold'
  BY DEF KeysHold, HasMailbox, SameMessageId
<1>2. QueuedOrTombstoned'
  BY DEF QueuedOrTombstoned, SameMessageId
<1>3. RetiredForever' /\ RegistrationNonceBacked'
  BY DEF RetiredForever, RegistrationNonceBacked, Retired, HasMailbox
<1> QED
  BY <1>1, <1>2, <1>3

\* register, committed with any `now', keeps the facts between the tables.
LEMMA RegisterKeepsTables ==
  ASSUME TableInv, NEW req \in Registrations, NEW now, Register(req, now)
  PROVE  (KeysHold /\ QueuedOrTombstoned /\ RetiredForever /\ RegistrationNonceBacked)'
<1> USE DEF TableInv
<1>1. CASE RegisterOutcome(req, now) \notin {"Registered", "AlreadyRegistered"}
  BY <1>1 DEF Register, Rollback, tables, history, KeysHold, QueuedOrTombstoned,
              RetiredForever, RegistrationNonceBacked, Retired, HasMailbox
<1>2. CASE RegisterOutcome(req, now) \in {"Registered", "AlreadyRegistered"}
  <2>1. /\ messages' \subseteq messages
        /\ tombstones' \subseteq tombstones
        /\ request_nonces' \subseteq request_nonces
        /\ retired_queues' = retired_queues
    BY <1>2 DEF Register, UnexpiredMessages, UnexpiredTombstones, UnexpiredRequestNonces
  <2>2. ~Retired(req.queue_id)
    BY <1>2 DEF RegisterOutcome
  <2>3. \/ mailboxes' = mailboxes /\ HasMailbox(req.queue_id)
        \/ mailboxes' = mailboxes \cup {MailboxRow(req)} /\ ~HasMailbox(req.queue_id)
    BY <1>2 DEF Register, RegisterOutcome
  <2>4. MailboxRow(req).queue_id = req.queue_id
    BY DEF MailboxRow
  <2>5. HasMailbox(req.queue_id)' /\ \A q : HasMailbox(q) => HasMailbox(q)'
    BY <2>3, <2>4 DEF HasMailbox
  <2>6. \A n \in registration_nonces' :
          n \in registration_nonces \/ n.queue_id = req.queue_id
    BY <1>2 DEF Register, WithRegistrationNonce, UnexpiredRegistrationNonces
  <2>7. KeysHold'
    <3>1. \A a, b \in mailboxes' : a.queue_id = b.queue_id => a = b
      BY <2>3, <2>4 DEF KeysHold, HasMailbox
    <3>2. \A a, b \in registration_nonces' :
            a.queue_id = b.queue_id /\ a.nonce = b.nonce => a = b
      <4>1. registration_nonces' = WithRegistrationNonce(req, now)
        BY <1>2 DEF Register
      <4>2. CASE RegistrationNonceRecorded(req, now)
        BY <4>1, <4>2 DEF KeysHold, WithRegistrationNonce, UnexpiredRegistrationNonces
      <4>3. CASE ~RegistrationNonceRecorded(req, now)
        BY <4>1, <4>3 DEF KeysHold, WithRegistrationNonce, UnexpiredRegistrationNonces,
                          RegistrationNonceRecorded
      <4> QED
        BY <4>2, <4>3
    <3> QED
      BY <2>1, <2>5, <3>1, <3>2 DEF KeysHold, SameMessageId
  <2>8. QueuedOrTombstoned'
    BY <2>1 DEF QueuedOrTombstoned, SameMessageId
  <2>9. RetiredForever'
    BY <2>1, <2>2, <2>3, <2>4 DEF RetiredForever, Retired
  <2>10. RegistrationNonceBacked'
    BY <2>1, <2>5, <2>6 DEF RegistrationNonceBacked, Retired
  <2> QED
    BY <2>7, <2>8, <2>9, <2>10
<1> QED
  BY <1>1, <1>2

\* enqueue, committed with any `now', keeps the facts between the tables.
LEMMA EnqueueKeepsTables ==
  ASSUME TableInv, NEW req \in Sends, NEW now, Enqueue(req, now)
  PROVE  (KeysHold /\ QueuedOrTombstoned /\ RetiredForever /\ RegistrationNonceBacked)'
<1> USE DEF TableInv
<1>1. CASE EnqueueOutcome(req, now) \notin {"Stored", "Duplicate"}
  BY <1>1 DEF Enqueue, Rollback, tables, history, KeysHold, QueuedOrTombstoned,
              RetiredForever, RegistrationNonceBacked, Retired, HasMailbox
<1>2. CASE EnqueueOutcome(req, now) = "Duplicate"
  BY <1>2, SweepKeepsTables, Zenon DEF Enqueue
<1>3. CASE EnqueueOutcome(req, now) = "Stored"
  <2>1. /\ messages' = UnexpiredMessages(now) \cup {MessageRow(req)}
        /\ tombstones' = UnexpiredTombstones(now)
        /\ request_nonces' \subseteq request_nonces
        /\ registration_nonces' \subseteq registration_nonces
        /\ mailboxes' = mailboxes /\ retired_queues' = retired_queues
    BY <1>3 DEF Enqueue, UnexpiredRequestNonces, UnexpiredRegistrationNonces
  <2>2. /\ HasMailbox(req.queue_id)
        /\ ~Tombstoned(req, now)
        /\ Queued(req, now) = {}
    BY <1>3 DEF EnqueueOutcome
  <2>3. MessageRow(req).queue_id = req.queue_id /\ MessageRow(req).message_id = req.message_id
    BY DEF MessageRow
  <2>4. \A q : HasMailbox(q)' <=> HasMailbox(q)
    BY <2>1 DEF HasMailbox
  <2>5. KeysHold'
    <3>1. \A a, b \in messages' : SameMessageId(a, b) => a = b
      <4>1. \A a \in UnexpiredMessages(now) : ~SameMessageId(a, req)
        BY <2>2 DEF Queued
      <4> QED
        BY <2>1, <2>3, <4>1 DEF KeysHold, SameMessageId, UnexpiredMessages
    <3>2. \A r \in messages' \cup tombstones' \cup request_nonces' : HasMailbox(r.queue_id)'
      BY <2>1, <2>2, <2>3, <2>4 DEF KeysHold, UnexpiredMessages, UnexpiredTombstones
    <3> QED
      BY <2>1, <3>1, <3>2 DEF KeysHold, SameMessageId, UnexpiredTombstones
  <2>6. QueuedOrTombstoned'
    BY <2>1, <2>2, <2>3 DEF QueuedOrTombstoned, SameMessageId, Tombstoned,
                            UnexpiredMessages, UnexpiredTombstones
  <2>7. RetiredForever' /\ RegistrationNonceBacked'
    BY <2>1, <2>4 DEF RetiredForever, RegistrationNonceBacked, Retired
  <2> QED
    BY <2>5, <2>6, <2>7
<1> QED
  BY <1>1, <1>2, <1>3

\* fetch, committed with any `now', keeps the facts between the tables.
LEMMA FetchKeepsTables ==
  ASSUME TableInv, NEW req \in Fetches, NEW now, Fetch(req, now)
  PROVE  (KeysHold /\ QueuedOrTombstoned /\ RetiredForever /\ RegistrationNonceBacked)'
<1> USE DEF TableInv
<1>1. CASE FetchOutcome(req, now) # "Fetched"
  BY <1>1 DEF Fetch, Rollback, tables, history, KeysHold, QueuedOrTombstoned,
              RetiredForever, RegistrationNonceBacked, Retired, HasMailbox
<1>2. CASE FetchOutcome(req, now) = "Fetched"
  <2>1. /\ messages' \subseteq messages
        /\ tombstones' \subseteq tombstones
        /\ \A n \in request_nonces' : n \in request_nonces \/ n.queue_id = req.queue_id
        /\ registration_nonces' \subseteq registration_nonces
        /\ mailboxes' = mailboxes /\ retired_queues' = retired_queues
    BY <1>2 DEF Fetch, UnexpiredMessages, UnexpiredTombstones, UnexpiredRequestNonces,
                UnexpiredRegistrationNonces
  <2>2. HasMailbox(req.queue_id)
    BY <1>2 DEF FetchOutcome
  <2>3. \A q : HasMailbox(q)' <=> HasMailbox(q)
    BY <2>1 DEF HasMailbox
  <2>4. KeysHold'
    <3>1. \A a, b \in request_nonces' :
            a.queue_id = b.queue_id /\ a.role = b.role /\ a.nonce = b.nonce => a = b
      <4>1. ~NonceRecorded(req, "receive", now)
        BY <1>2 DEF FetchOutcome
      <4>2. request_nonces' = UnexpiredRequestNonces(now) \cup
              {[queue_id |-> req.queue_id, role |-> "receive", nonce |-> req.nonce,
                delete_after |-> req.valid_until]}
        BY <1>2 DEF Fetch
      <4> QED
        BY <4>1, <4>2 DEF KeysHold, UnexpiredRequestNonces, NonceRecorded
    <3> QED
      BY <2>1, <2>2, <2>3, <3>1 DEF KeysHold, SameMessageId
  <2>5. QueuedOrTombstoned' /\ RetiredForever' /\ RegistrationNonceBacked'
    BY <2>1, <2>3 DEF QueuedOrTombstoned, SameMessageId, RetiredForever,
                      RegistrationNonceBacked, Retired
  <2> QED
    BY <2>4, <2>5
<1> QED
  BY <1>1, <1>2

\* acknowledge, committed with any `now', keeps the facts between the tables.
LEMMA AcknowledgeKeepsTables ==
  ASSUME TableInv, NEW req \in Acks, NEW now, Acknowledge(req, now)
  PROVE  (KeysHold /\ QueuedOrTombstoned /\ RetiredForever /\ RegistrationNonceBacked)'
<1> USE DEF TableInv
<1>1. CASE AckOutcome(req, now) \notin {"Deleted", "AlreadyDeleted"}
  BY <1>1 DEF Acknowledge, Rollback, tables, history, KeysHold, QueuedOrTombstoned,
              RetiredForever, RegistrationNonceBacked, Retired, HasMailbox
<1>2. CASE AckOutcome(req, now) = "AlreadyDeleted"
  BY <1>2, SweepKeepsTables, Zenon DEF Acknowledge
<1>3. CASE AckOutcome(req, now) = "Deleted"
  <2> DEFINE stone == [queue_id |-> req.queue_id, message_id |-> req.message_id,
                       delete_after |-> TombstoneDeadline(now)]
  <2>1. /\ messages' = UnexpiredMessages(now) \ Queued(req, now)
        /\ tombstones' = {t \in UnexpiredTombstones(now) : ~SameMessageId(t, req)} \cup {stone}
        /\ request_nonces' \subseteq request_nonces
        /\ registration_nonces' \subseteq registration_nonces
        /\ mailboxes' = mailboxes /\ retired_queues' = retired_queues
    BY <1>3 DEF Acknowledge, WithTombstone, UnexpiredRequestNonces,
                UnexpiredRegistrationNonces
  <2>2. HasMailbox(req.queue_id)
    BY <1>3 DEF AckOutcome
  <2>3. \A r : (SameMessageId(r, stone) <=> SameMessageId(r, req)) /\ stone.queue_id = req.queue_id
    BY DEF SameMessageId
  <2> HIDE DEF stone
  <2>4. \A q : HasMailbox(q)' <=> HasMailbox(q)
    BY <2>1 DEF HasMailbox
  <2>5. messages' \subseteq messages /\ \A m \in messages' : ~SameMessageId(m, stone)
    BY <2>1, <2>3 DEF Queued, UnexpiredMessages
  <2>6. \A t \in tombstones' : t = stone \/ (t \in tombstones /\ ~SameMessageId(t, stone))
    BY <2>1, <2>3 DEF UnexpiredTombstones
  <2>7. KeysHold'
    <3>1. \A a, b \in tombstones' : SameMessageId(a, b) => a = b
      BY <2>6 DEF KeysHold, SameMessageId
    <3>2. \A r \in messages' \cup tombstones' \cup request_nonces' : HasMailbox(r.queue_id)'
      BY <2>1, <2>2, <2>3, <2>4, <2>5, <2>6 DEF KeysHold
    <3> QED
      BY <2>1, <2>5, <3>1, <3>2 DEF KeysHold, SameMessageId
  <2>8. QueuedOrTombstoned'
    BY <2>5, <2>6, Zenon DEF QueuedOrTombstoned, SameMessageId
  <2>9. RetiredForever' /\ RegistrationNonceBacked'
    BY <2>1, <2>4 DEF RetiredForever, RegistrationNonceBacked, Retired
  <2> QED
    BY <2>7, <2>8, <2>9
<1> QED
  BY <1>1, <1>2, <1>3

\* delete_mailbox, committed with any `now', keeps the facts between the tables.
LEMMA DeleteMailboxKeepsTables ==
  ASSUME TableInv, NEW req \in Deletes, NEW now, DeleteMailbox(req, now)
  PROVE  (KeysHold /\ QueuedOrTombstoned /\ RetiredForever /\ RegistrationNonceBacked)'
<1> USE DEF TableInv
<1>1. CASE DeleteOutcome(req, now) # "MailboxDeleted"
  BY <1>1 DEF DeleteMailbox, Rollback, tables, history, KeysHold, QueuedOrTombstoned,
              RetiredForever, RegistrationNonceBacked, Retired, HasMailbox
<1>2. CASE DeleteOutcome(req, now) = "MailboxDeleted"
  <2>1. /\ messages' \subseteq {m \in messages : m.queue_id # req.queue_id}
        /\ tombstones' \subseteq {t \in tombstones : t.queue_id # req.queue_id}
        /\ request_nonces' \subseteq {n \in request_nonces : n.queue_id # req.queue_id}
        /\ registration_nonces' \subseteq registration_nonces
        /\ mailboxes' = {mb \in mailboxes : mb.queue_id # req.queue_id}
        /\ retired_queues' = retired_queues \cup {Digest(req.queue_id)}
    BY <1>2 DEF DeleteMailbox, Retire, SurvivingRows, UnexpiredMessages, UnexpiredTombstones,
                UnexpiredRequestNonces, UnexpiredRegistrationNonces
  <2>2. \A q : q # req.queue_id /\ HasMailbox(q) => HasMailbox(q)'
    BY <2>1 DEF HasMailbox
  <2>3. KeysHold'
    BY <2>1, <2>2 DEF KeysHold, SameMessageId
  <2>4. QueuedOrTombstoned'
    BY <2>1 DEF QueuedOrTombstoned, SameMessageId
  <2>5. RetiredForever'
    BY <2>1, Zenon DEF RetiredForever, Retired, Digest
  <2>6. RegistrationNonceBacked'
    BY <2>1, <2>2 DEF RegistrationNonceBacked, Retired
  <2> QED
    BY <2>3, <2>4, <2>5, <2>6
<1> QED
  BY <1>1, <1>2

\* No operation disturbs the facts between the tables, whatever its `now'.
LEMMA OperationKeepsTables ==
  ASSUME TableInv, NEW now \in 0..MaxClock, Operation(now), UNCHANGED clock
  PROVE  TableInv'
<1>1. TypeOK'
  BY OperationType DEF TableInv
<1>2. CASE PurgeExpired(now)
  <2>1. CASE SweepOnly(now)
    BY <1>1, <2>1, SweepKeepsTables, Zenon DEF TableInv
  <2>2. CASE Rollback
    BY <1>1, <2>2 DEF TableInv, Rollback, tables, history, KeysHold, QueuedOrTombstoned,
                      RetiredForever, RegistrationNonceBacked, Retired, HasMailbox
  <2> QED
    BY <1>2, <2>1, <2>2 DEF PurgeExpired
<1> QED
  BY <1>1, <1>2, RegisterKeepsTables, EnqueueKeepsTables, FetchKeepsTables,
     AcknowledgeKeepsTables, DeleteMailboxKeepsTables DEF Operation, TableInv

\* Every step of the relay keeps the facts between the tables.
LEMMA StepKeepsTables ==
  ASSUME TableInv, [Next]_vars
  PROVE  TableInv'
<1>1. CASE Operation(clock) /\ UNCHANGED clock
  BY <1>1, OperationKeepsTables DEF TableInv, TypeOK
<1>2. CASE Tick \/ UNCHANGED vars
  <2>1. UNCHANGED <<tables, history>> /\ clock' \in 0..MaxClock
    BY <1>2, BoundsAssumption DEF TableInv, TypeOK, Tick, vars
  <2> QED
    BY <2>1 DEF TableInv, TypeOK, tables, history, KeysHold, QueuedOrTombstoned,
                RetiredForever, RegistrationNonceBacked, Retired, HasMailbox
<1> QED
  BY <1>1, <1>2 DEF Next

\* An empty database satisfies them.
LEMMA InitTables == Init => TableInv
  BY BoundsAssumption DEF Init, TableInv, TypeOK, KeysHold, QueuedOrTombstoned,
                          RetiredForever, RegistrationNonceBacked

\* The tables never contradict each other: keys hold, no id is both queued and
\* tombstoned, no retired queue is registered, registration nonces are backed.
THEOREM TablesConsistent ==
  Spec => [](KeysHold /\ QueuedOrTombstoned /\ RetiredForever /\ RegistrationNonceBacked)
<1>1. TableInv /\ [Next]_vars => TableInv'
  BY StepKeepsTables
<1>2. TableInv => KeysHold /\ QueuedOrTombstoned /\ RetiredForever /\ RegistrationNonceBacked
  BY DEF TableInv
<1> QED
  BY InitTables, <1>1, <1>2, PTL DEF Spec

\* No message is both queued and tombstoned (QueuedOrTombstoned): acknowledge
\* deletes the row in the transaction that writes the tombstone, and enqueue
\* looks for the tombstone first.
THEOREM QueuedXorTombstoned == Spec => []QueuedOrTombstoned
  BY TablesConsistent, PTL

\* register never brings a deleted mailbox back (RetiredForever).
THEOREM DeletedForGood == Spec => []RetiredForever
  BY TablesConsistent, PTL

\* delete_mailbox leaves the nonce of the registration behind but retires its queue
\* (RegistrationNonceBacked), so the nonce check in register refuses nobody.
THEOREM RegistrationNonceUnused == Spec => []RegistrationNonceBacked
  BY TablesConsistent, PTL

-----------------------------------------------------------------------------
(***************************************************************************)
(* Retries.  Why an answered request is recognised when it comes again:    *)
(* until the request expires or its mailbox goes, the table row that marks *)
(* it (a message, a tombstone, a nonce) outlives it.                       *)
(***************************************************************************)
Backed(q) == HasMailbox(q) \/ Retired(q)

\* the row that will answer a stored send request, should it come again
StoredMark(s) ==
  /\ s.packet \notin UnsendablePackets
  /\ FitsI64(s.expires_at)
  /\ s.expires_at <= SaturatingAdd(clock, MaxMessageTtl)
  /\ Backed(s.queue_id)
  /\ HasMailbox(s.queue_id) => SendKeyVerifies(s)
  /\ \/ s.expires_at <= clock
     \/ ~HasMailbox(s.queue_id)
     \/ MessageRow(s) \in messages
     \/ \E t \in tombstones : SameMessageId(t, s) /\ s.expires_at <= t.delete_after

\* the tombstone that will answer a completed ACK, should it come again
AckedMark(req) ==
  /\ FitsI64(req.valid_until)
  /\ req.valid_until <= SaturatingAdd(clock, RequestWindow)
  /\ Backed(req.queue_id)
  /\ HasMailbox(req.queue_id) => ReceiveKeyVerifies(req)
  /\ \/ req.valid_until <= clock
     \/ ~HasMailbox(req.queue_id)
     \/ \E t \in tombstones : SameMessageId(t, req) /\ req.valid_until <= t.delete_after

\* the nonce that will refuse a served fetch, should it come again
FetchedMark(req) ==
  /\ FitsI64(req.valid_until)
  /\ Backed(req.queue_id)
  /\ \/ req.valid_until <= clock
     \/ ~HasMailbox(req.queue_id)
     \/ \E n \in request_nonces :
          /\ n.queue_id = req.queue_id /\ n.role = "receive" /\ n.nonce = req.nonce
          /\ req.valid_until <= n.delete_after

RetryInv ==
  /\ TableInv
  /\ \A s \in stored : StoredMark(s)
  /\ \A a \in acked : AckedMark(a.ack)
  /\ \A f \in fetched : FetchedMark(f)

\* What an operation at `now' keeps: an unexpired row stays, goes with its
\* mailbox, or gives way to a fresh tombstone; a queue that was ever registered
\* gets no other mailbox.
Keeps(now) ==
  /\ \A m \in messages :
       m.expires_at > now =>
         \/ m \in messages'
         \/ ~HasMailbox(m.queue_id)'
         \/ \E t \in tombstones' : SameMessageId(t, m) /\ t.delete_after = TombstoneDeadline(now)
  /\ \A t \in tombstones :
       t.delete_after > now =>
         \/ t \in tombstones'
         \/ ~HasMailbox(t.queue_id)'
         \/ \E u \in tombstones' : SameMessageId(u, t) /\ u.delete_after = TombstoneDeadline(now)
  /\ \A n \in request_nonces :
       n.delete_after > now => n \in request_nonces' \/ ~HasMailbox(n.queue_id)'
  /\ \A q : Backed(q) =>
       /\ Backed(q)'
       /\ \A mb \in mailboxes' : mb.queue_id = q => mb \in mailboxes

\* Every operation keeps what Keeps says.
LEMMA OperationKeeps ==
  ASSUME TableInv, NEW now, Operation(now)
  PROVE  Keeps(now)
<1> USE DEF UnexpiredMessages, UnexpiredTombstones, UnexpiredRequestNonces
<1>1. CASE Rollback
  BY <1>1 DEF Rollback, tables, Keeps, Backed, HasMailbox, Retired
<1>2. CASE SweepOnly(now)
  BY <1>2 DEF SweepOnly, Keeps, Backed, HasMailbox, Retired
<1>3. ASSUME NEW req \in Registrations, Register(req, now) PROVE Keeps(now)
  <2>1. CASE RegisterOutcome(req, now) \in {"Registered", "AlreadyRegistered"}
    <3>1. \/ mailboxes' = mailboxes
          \/ /\ mailboxes' = mailboxes \cup {MailboxRow(req)}
             /\ ~Backed(req.queue_id)
      BY <1>3, <2>1, Zenon DEF Register, RegisterOutcome, Backed
    <3>2. MailboxRow(req).queue_id = req.queue_id /\ retired_queues' = retired_queues
      BY <1>3, <2>1 DEF MailboxRow, Register
    <3>3. \A q : Backed(q) =>
            Backed(q)' /\ \A mb \in mailboxes' : mb.queue_id = q => mb \in mailboxes
      BY <3>1, <3>2 DEF Backed, HasMailbox, Retired
    <3> QED
      BY <1>3, <2>1, <3>3, Zenon DEF Register, Keeps
  <2> QED
    BY <1>1, <1>3, <2>1, Zenon DEF Register
<1>4. ASSUME NEW req \in Sends, Enqueue(req, now) PROVE Keeps(now)
  <2>1. CASE EnqueueOutcome(req, now) = "Stored"
    BY <1>4, <2>1 DEF Enqueue, Keeps, Backed, HasMailbox, Retired
  <2> QED
    BY <1>1, <1>2, <1>4, <2>1, Zenon DEF Enqueue
<1>5. ASSUME NEW req \in Fetches, Fetch(req, now) PROVE Keeps(now)
  <2>1. CASE FetchOutcome(req, now) = "Fetched"
    BY <1>5, <2>1, Zenon DEF Fetch, Keeps, Backed, HasMailbox, Retired
  <2> QED
    BY <1>1, <1>5, <2>1 DEF Fetch
<1>6. ASSUME NEW req \in Acks, Acknowledge(req, now) PROVE Keeps(now)
  <2>1. CASE AckOutcome(req, now) = "Deleted"
    <3> DEFINE stone == [queue_id |-> req.queue_id, message_id |-> req.message_id,
                         delete_after |-> TombstoneDeadline(now)]
    <3>1. stone \in tombstones' /\ stone.delete_after = TombstoneDeadline(now)
      BY <1>6, <2>1 DEF Acknowledge, WithTombstone
    <3>2. \A r : SameMessageId(r, req) => SameMessageId(stone, r)
      BY DEF SameMessageId
    <3> HIDE DEF stone
    <3>3. \A m \in messages : m.expires_at > now => m \in messages' \/ SameMessageId(m, req)
      BY <1>6, <2>1, Zenon DEF Acknowledge, Queued
    <3>4. \A t \in tombstones : t.delete_after > now => t \in tombstones' \/ SameMessageId(t, req)
      BY <1>6, <2>1, Zenon DEF Acknowledge, WithTombstone
    <3> QED
      BY <1>6, <2>1, <3>1, <3>2, <3>3, <3>4, Zenon DEF Acknowledge, Keeps, Backed, HasMailbox, Retired
  <2> QED
    BY <1>1, <1>2, <1>6, <2>1, Zenon DEF Acknowledge
<1>7. ASSUME NEW req \in Deletes, DeleteMailbox(req, now) PROVE Keeps(now)
  <2>1. CASE DeleteOutcome(req, now) = "MailboxDeleted"
    BY <1>7, <2>1 DEF DeleteMailbox, SurvivingRows, Retire, Keeps, Backed, HasMailbox, Retired
  <2> QED
    BY <1>1, <1>7, <2>1, Zenon DEF DeleteMailbox
<1>8. CASE PurgeExpired(now)
  BY <1>1, <1>2, <1>8 DEF PurgeExpired
<1> QED
  BY <1>3, <1>4, <1>5, <1>6, <1>7, <1>8 DEF Operation

\* Saturating sums grow with both operands.
LEMMA SaturatingAddMonotone ==
  ASSUME NEW a \in Nat, NEW b \in Nat, NEW c \in Nat, NEW d \in Nat, a <= b, c <= d
  PROVE  SaturatingAdd(a, c) <= SaturatingAdd(b, d)
  BY BoundsAssumption DEF SaturatingAdd

\* A mailbox that still verifies requests is the one that verified them before.
LEMMA KeysStay ==
  ASSUME TableInv, NEW now, Keeps(now), NEW q, Backed(q), HasMailbox(q)'
  PROVE  /\ HasMailbox(q)
         /\ \A mb \in mailboxes : mb.queue_id = q => mb \in mailboxes'
<1>1. PICK mb \in mailboxes' : mb.queue_id = q
  BY DEF HasMailbox
<1>2. mb \in mailboxes
  BY <1>1, Zenon DEF Keeps
<1> QED
  BY <1>1, <1>2 DEF HasMailbox, TableInv, KeysHold

\* A stored request keeps its mark: its row lives as long as it does, and the
\* tombstone that may replace the row lives longer (MaxMessageTtl <= TombstoneTtl).
LEMMA StoredMarkStays ==
  ASSUME TableInv, Keeps(clock), clock' = clock, NEW s \in Sends, StoredMark(s)
  PROVE  StoredMark(s)'
<1>0. /\ clock \in Nat /\ s \in SendRequest /\ s.expires_at \in Nat
      /\ MessageRow(s).queue_id = s.queue_id /\ MessageRow(s).expires_at = s.expires_at
      /\ messages \subseteq Message /\ tombstones \subseteq Tombstone
  BY RequestAssumption, BoundsAssumption
  DEF TableInv, TypeOK, SendRequest, Timestamp, MessageRow
<1>1. s.expires_at <= TombstoneDeadline(clock)
  <2>1. SaturatingAdd(clock, MaxMessageTtl) <= SaturatingAdd(clock, TombstoneTtl)
    BY <1>0, SaturatingAddMonotone, BoundsAssumption, TtlAssumption
  <2>2. SaturatingAdd(clock, MaxMessageTtl) \in Nat /\ SaturatingAdd(clock, TombstoneTtl) \in Nat
    BY <1>0, BoundsAssumption DEF SaturatingAdd
  <2> QED
    BY <1>0, <2>1, <2>2 DEF StoredMark, TombstoneDeadline
<1>2. Backed(s.queue_id)'
  BY Zenon DEF Keeps, StoredMark
<1>3. HasMailbox(s.queue_id)' => SendKeyVerifies(s)'
  BY KeysStay, Zenon DEF StoredMark, SendKeyVerifies
<1>4. ASSUME HasMailbox(s.queue_id)', s.expires_at > clock
      PROVE  \/ MessageRow(s) \in messages'
             \/ \E t \in tombstones' : SameMessageId(t, s) /\ s.expires_at <= t.delete_after
  <2>1. HasMailbox(s.queue_id)
    BY <1>4, KeysStay, Zenon DEF StoredMark
  <2>2. CASE MessageRow(s) \in messages
    <3>1. \A t : SameMessageId(t, MessageRow(s)) => SameMessageId(t, s)
      BY DEF SameMessageId, MessageRow
    <3> QED
      BY <1>0, <1>1, <1>4, <2>2, <3>1 DEF Keeps
  <2>3. ASSUME NEW t \in tombstones, SameMessageId(t, s), s.expires_at <= t.delete_after
        PROVE  \E u \in tombstones' : SameMessageId(u, s) /\ s.expires_at <= u.delete_after
    <3>1. t.delete_after \in Nat
      BY <1>0 DEF Tombstone, StoredTimestamp
    <3>2. t.delete_after > clock /\ t.queue_id = s.queue_id
      BY <1>0, <1>4, <2>3, <3>1 DEF SameMessageId
    <3> QED
      BY <1>1, <1>4, <2>3, <3>2 DEF Keeps, SameMessageId
  <2>4. ~(s.expires_at <= clock)
    BY <1>0, <1>4
  <2> QED
    BY <2>1, <2>2, <2>3, <2>4, Zenon DEF StoredMark
<1>5. s.expires_at > clock \/ s.expires_at <= clock
  BY <1>0
<1>6. SaturatingAdd(clock, MaxMessageTtl)' = SaturatingAdd(clock, MaxMessageTtl)
  BY Zenon DEF SaturatingAdd
<1> QED
  BY <1>2, <1>3, <1>4, <1>5, <1>6, Zenon DEF StoredMark, FitsI64

\* A completed ACK keeps a tombstone until it expires (RequestWindow <= TombstoneTtl).
LEMMA AckedMarkStays ==
  ASSUME TableInv, Keeps(clock), clock' = clock, NEW req \in Acks, AckedMark(req)
  PROVE  AckedMark(req)'
<1>0. /\ clock \in Nat /\ req \in AckRequest /\ req.valid_until \in Nat
      /\ tombstones \subseteq Tombstone
  BY RequestAssumption, BoundsAssumption DEF TableInv, TypeOK, AckRequest, Timestamp
<1>1. req.valid_until <= TombstoneDeadline(clock)
  <2>1. SaturatingAdd(clock, RequestWindow) <= SaturatingAdd(clock, TombstoneTtl)
    BY <1>0, SaturatingAddMonotone, BoundsAssumption, TtlAssumption
  <2>2. SaturatingAdd(clock, RequestWindow) \in Nat /\ SaturatingAdd(clock, TombstoneTtl) \in Nat
    BY <1>0, BoundsAssumption DEF SaturatingAdd
  <2> QED
    BY <1>0, <2>1, <2>2 DEF AckedMark, TombstoneDeadline
<1>2. Backed(req.queue_id)'
  BY Zenon DEF Keeps, AckedMark
<1>3. HasMailbox(req.queue_id)' => ReceiveKeyVerifies(req)'
  BY KeysStay DEF AckedMark, ReceiveKeyVerifies
<1>4. ASSUME HasMailbox(req.queue_id)', req.valid_until > clock
      PROVE  \E u \in tombstones' : SameMessageId(u, req) /\ req.valid_until <= u.delete_after
  <2>1. PICK t \in tombstones : SameMessageId(t, req) /\ req.valid_until <= t.delete_after
    BY <1>0, <1>4, KeysStay DEF AckedMark
  <2>2. t.delete_after \in Nat
    BY <1>0 DEF Tombstone, StoredTimestamp
  <2>3. t.delete_after > clock /\ t.queue_id = req.queue_id
    BY <1>0, <1>4, <2>1, <2>2 DEF SameMessageId
  <2> QED
    BY <1>1, <1>4, <2>1, <2>3 DEF Keeps, SameMessageId
<1> QED
  BY <1>0, <1>2, <1>3, <1>4 DEF AckedMark, FitsI64

\* A served fetch keeps its nonce until it expires.
LEMMA FetchedMarkStays ==
  ASSUME TableInv, NEW now \in Nat, now <= clock, Keeps(now), clock' = clock,
         NEW req \in Fetches, FetchedMark(req)
  PROVE  FetchedMark(req)'
<1>0. /\ clock \in Nat /\ req \in FetchRequest /\ req.valid_until \in Nat
      /\ request_nonces \subseteq RequestNonce
  BY RequestAssumption, BoundsAssumption, SMTT(40) DEF TableInv, TypeOK, FetchRequest, Timestamp
<1>1. Backed(req.queue_id)'
  BY Zenon DEF Keeps, FetchedMark
<1>2. ASSUME HasMailbox(req.queue_id)', req.valid_until > clock
      PROVE  \E n \in request_nonces' :
               /\ n.queue_id = req.queue_id /\ n.role = "receive" /\ n.nonce = req.nonce
               /\ req.valid_until <= n.delete_after
  <2>1. PICK n \in request_nonces :
               /\ n.queue_id = req.queue_id /\ n.role = "receive" /\ n.nonce = req.nonce
               /\ req.valid_until <= n.delete_after
    <3>1. ~(req.valid_until <= clock)
      BY <1>0, <1>2
    <3> QED
      BY <1>2, <3>1, KeysStay, Zenon DEF FetchedMark
  <2>2. n.delete_after > now
    BY <1>0, <1>2, <2>1 DEF RequestNonce, StoredTimestamp
  <2> QED
    BY <1>2, <2>1, <2>2 DEF Keeps
<1> QED
  BY <1>0, <1>1, <1>2 DEF FetchedMark, FitsI64

\* What an operation that answers with success adds to the history.
Records(now) ==
  \/ \E req \in Sends :
       /\ Enqueue(req, now) /\ EnqueueOutcome(req, now) = "Stored"
       /\ \A s \in stored' \ stored : s = req
       /\ fetched' = fetched
       /\ acked' = acked
  \/ \E req \in Fetches :
       /\ Fetch(req, now) /\ FetchOutcome(req, now) = "Fetched"
       /\ \A f \in fetched' \ fetched : f = req
       /\ stored' = stored
       /\ acked' = acked
  \/ \E req \in Acks :
       /\ Acknowledge(req, now) /\ AckOutcome(req, now) = "Deleted"
       /\ \A a \in acked' \ acked : a.ack = req
       /\ stored' = stored
       /\ fetched' = fetched

\* An operation either leaves the history alone or records its own request: no
\* handler answers for another one's request.
LEMMA HistoryMoves ==
  ASSUME NEW now, Operation(now)
  PROVE  UNCHANGED history \/ Records(now)
<1>1. ASSUME NEW req \in Registrations, Register(req, now) PROVE UNCHANGED history
  BY <1>1 DEF Register, Rollback
<1>2. ASSUME NEW req \in Sends, Enqueue(req, now) PROVE UNCHANGED history \/ Records(now)
  <2>1. \/ UNCHANGED history
        \/ /\ EnqueueOutcome(req, now) = "Stored"
           /\ stored' = stored \cup {req} /\ fetched' = fetched /\ acked' = acked
    BY <1>2 DEF Enqueue, SweepOnly, Rollback
  <2> QED
    BY <1>2, <2>1 DEF Records
<1>3. ASSUME NEW req \in Fetches, Fetch(req, now) PROVE UNCHANGED history \/ Records(now)
  <2>1. \/ UNCHANGED history
        \/ /\ FetchOutcome(req, now) = "Fetched"
           /\ fetched' = fetched \cup {req} /\ stored' = stored /\ acked' = acked
    BY <1>3, Zenon DEF Fetch, Rollback
  <2> QED
    BY <1>3, <2>1 DEF Records
<1>4. ASSUME NEW req \in Acks, Acknowledge(req, now) PROVE UNCHANGED history \/ Records(now)
  <2>1. \/ UNCHANGED history
        \/ /\ AckOutcome(req, now) = "Deleted"
           /\ acked' = acked \cup {[ack |-> req, row |-> m] : m \in Queued(req, now)}
           /\ stored' = stored /\ fetched' = fetched
    BY <1>4, Zenon DEF Acknowledge, SweepOnly, Rollback
  <2>2. acked' = acked \cup {[ack |-> req, row |-> m] : m \in Queued(req, now)}
          => \A a \in acked' \ acked : a.ack = req
    OBVIOUS
  <2> QED
    BY <1>4, <2>1, <2>2, Zenon DEF Records
<1>5. ASSUME NEW req \in Deletes, DeleteMailbox(req, now) PROVE UNCHANGED history
  BY <1>5 DEF DeleteMailbox, Rollback
<1>6. ASSUME PurgeExpired(now) PROVE UNCHANGED history
  BY <1>6 DEF PurgeExpired, SweepOnly, Rollback
<1> QED
  BY <1>1, <1>2, <1>3, <1>4, <1>5, <1>6 DEF Operation

\* A request newly answered leaves the mark that will answer it again.
LEMMA NewMarks ==
  ASSUME TableInv, TableInv', Operation(clock), clock' = clock
  PROVE  /\ \A s \in stored' \ stored : StoredMark(s)'
         /\ \A a \in acked' \ acked : AckedMark(a.ack)'
         /\ \A f \in fetched' \ fetched : FetchedMark(f)'
<1>0. clock \in Nat
  BY BoundsAssumption, SMTT(40) DEF TableInv, TypeOK
<1>1. ASSUME NEW req \in Sends, Enqueue(req, clock), EnqueueOutcome(req, clock) = "Stored"
      PROVE  StoredMark(req)'
  <2>1. /\ req.packet \notin UnsendablePackets /\ FitsI64(req.expires_at)
        /\ ValidMessageExpiry(req.expires_at, clock)
        /\ HasMailbox(req.queue_id) /\ SendKeyVerifies(req)
    BY <1>1 DEF EnqueueOutcome
  <2>2. MessageRow(req) \in messages' /\ mailboxes' = mailboxes
    BY <1>1 DEF Enqueue
  <2> QED
    BY <2>1, <2>2, Zenon DEF StoredMark, ValidMessageExpiry, Backed, HasMailbox, SendKeyVerifies, FitsI64
<1>2. ASSUME NEW req \in Acks, Acknowledge(req, clock), AckOutcome(req, clock) = "Deleted"
      PROVE  AckedMark(req)'
  <2>1. /\ ValidRequestTime(req.valid_until, clock)
        /\ HasMailbox(req.queue_id) /\ ReceiveKeyVerifies(req)
        /\ FitsI64(TombstoneDeadline(clock))
    BY <1>2 DEF AckOutcome
  <2>2. req.valid_until \in Nat
    BY RequestAssumption, BoundsAssumption DEF AckRequest, Timestamp
  <2>3. req.valid_until <= TombstoneDeadline(clock) /\ TombstoneDeadline(clock) \in Nat
    <3>1. SaturatingAdd(clock, RequestWindow) <= SaturatingAdd(clock, TombstoneTtl)
      BY <1>0, SaturatingAddMonotone, BoundsAssumption, TtlAssumption
    <3>2. SaturatingAdd(clock, RequestWindow) \in Nat /\ SaturatingAdd(clock, TombstoneTtl) \in Nat
      BY <1>0, BoundsAssumption DEF SaturatingAdd
    <3> QED
      BY <2>1, <2>2, <3>1, <3>2 DEF ValidRequestTime, TombstoneDeadline
  <2>4. \E t \in tombstones' : SameMessageId(t, req) /\ t.delete_after = TombstoneDeadline(clock)
    <3> DEFINE stone == [queue_id |-> req.queue_id, message_id |-> req.message_id,
                         delete_after |-> TombstoneDeadline(clock)]
    <3>1. stone \in tombstones'
      BY <1>2, Zenon DEF Acknowledge, WithTombstone
    <3>2. SameMessageId(stone, req) /\ stone.delete_after = TombstoneDeadline(clock)
      BY Zenon DEF SameMessageId
    <3> QED
      BY <3>1, <3>2, Zenon
  <2>5. mailboxes' = mailboxes
    BY <1>2, Zenon DEF Acknowledge, SweepOnly
  <2>6. FitsI64(req.valid_until)
    BY <2>1, <2>2, <2>3, BoundsAssumption DEF FitsI64
  <2>7. \E t \in tombstones' : SameMessageId(t, req) /\ req.valid_until <= t.delete_after
    BY <2>3, <2>4
  <2>8. HasMailbox(req.queue_id)' /\ ReceiveKeyVerifies(req)'
    BY <2>1, <2>5 DEF HasMailbox, ReceiveKeyVerifies
  <2> QED
    BY <2>1, <2>6, <2>7, <2>8 DEF AckedMark, ValidRequestTime, Backed, SaturatingAdd, FitsI64
<1>3. ASSUME NEW req \in Fetches, Fetch(req, clock), FetchOutcome(req, clock) = "Fetched"
      PROVE  FetchedMark(req)'
  <2>1. HasMailbox(req.queue_id) /\ FitsI64(req.valid_until)
    BY <1>3 DEF FetchOutcome
  <2>2. req.valid_until \in Nat
    BY RequestAssumption, BoundsAssumption DEF FetchRequest, Timestamp
  <2>3. \E n \in request_nonces' :
          /\ n.queue_id = req.queue_id /\ n.role = "receive" /\ n.nonce = req.nonce
          /\ req.valid_until <= n.delete_after
    <3> DEFINE nonce == [queue_id |-> req.queue_id, role |-> "receive", nonce |-> req.nonce,
                         delete_after |-> req.valid_until]
    <3>1. nonce \in request_nonces'
      BY <1>3 DEF Fetch
    <3>2. /\ nonce.queue_id = req.queue_id /\ nonce.role = "receive" /\ nonce.nonce = req.nonce
          /\ req.valid_until <= nonce.delete_after
      BY <2>2, SMTT(40)
    <3> QED
      BY <3>1, <3>2
  <2>4. HasMailbox(req.queue_id)'
    BY <1>3, <2>1, Zenon DEF Fetch, HasMailbox
  <2> QED
    BY <2>1, <2>3, <2>4 DEF FetchedMark, Backed, FitsI64
<1>4. UNCHANGED history \/ Records(clock)
  BY HistoryMoves
<1>5. ASSUME NEW s \in stored' \ stored
      PROVE  s \in Sends /\ Enqueue(s, clock) /\ EnqueueOutcome(s, clock) = "Stored"
  <2>1. PICK req \in Sends : /\ Enqueue(req, clock) /\ EnqueueOutcome(req, clock) = "Stored"
                             /\ \A b \in stored' \ stored : b = req
    BY <1>4, <1>5 DEF Records, history
  <2>2. s = req
    BY <1>5, <2>1
  <2> QED
    BY <2>1, <2>2
<1>6. ASSUME NEW a \in acked' \ acked
      PROVE  a.ack \in Acks /\ Acknowledge(a.ack, clock) /\ AckOutcome(a.ack, clock) = "Deleted"
  <2>1. PICK req \in Acks : /\ Acknowledge(req, clock) /\ AckOutcome(req, clock) = "Deleted"
                            /\ \A b \in acked' \ acked : b.ack = req
    BY <1>4, <1>6 DEF Records, history
  <2>2. a.ack = req
    BY <1>6, <2>1
  <2> QED
    BY <2>1, <2>2
<1>7. ASSUME NEW f \in fetched' \ fetched
      PROVE  f \in Fetches /\ Fetch(f, clock) /\ FetchOutcome(f, clock) = "Fetched"
  <2>1. PICK req \in Fetches : /\ Fetch(req, clock) /\ FetchOutcome(req, clock) = "Fetched"
                               /\ \A b \in fetched' \ fetched : b = req
    BY <1>4, <1>7 DEF Records, history
  <2>2. f = req
    BY <1>7, <2>1
  <2> QED
    BY <2>1, <2>2
<1> QED
  BY <1>1, <1>2, <1>3, <1>5, <1>6, <1>7

\* As the clock advances, marks stay: expiry only makes them weaker.
LEMMA TickKeepsMarks ==
  ASSUME RetryInv, Tick
  PROVE  /\ \A s \in stored : StoredMark(s)'
         /\ \A a \in acked : AckedMark(a.ack)'
         /\ \A f \in fetched : FetchedMark(f)'
<1>0. /\ clock \in Nat /\ clock' = clock + 1
      /\ stored \subseteq Sends /\ fetched \subseteq Fetches /\ \A a \in acked : a.ack \in Acks
  BY BoundsAssumption DEF RetryInv, TableInv, TypeOK, Tick
<1>1. /\ mailboxes' = mailboxes /\ messages' = messages /\ tombstones' = tombstones
      /\ request_nonces' = request_nonces /\ retired_queues' = retired_queues
  BY DEF Tick, tables
<1>2. ASSUME NEW ttl \in Nat, NEW t \in Nat, t <= SaturatingAdd(clock, ttl)
      PROVE  t <= SaturatingAdd(clock, ttl)'
  BY <1>0, <1>2, BoundsAssumption DEF SaturatingAdd
<1>3. ASSUME NEW s \in stored PROVE StoredMark(s)'
  <2>1. s.expires_at \in Nat /\ StoredMark(s)
    BY <1>0, RequestAssumption, BoundsAssumption DEF SendRequest, Timestamp, RetryInv
  <2>2. s.expires_at <= SaturatingAdd(clock, MaxMessageTtl)'
    BY <1>2, <2>1, BoundsAssumption, Zenon DEF StoredMark
  <2>3. s.expires_at <= clock => s.expires_at <= clock'
    BY <1>0, <2>1
  <2> QED
    BY <1>1, <2>1, <2>2, <2>3, Zenon
    DEF StoredMark, Backed, HasMailbox, Retired, SendKeyVerifies, FitsI64
<1>4. ASSUME NEW a \in acked PROVE AckedMark(a.ack)'
  <2>0. a.ack \in AckRequest /\ AckedMark(a.ack)
    BY <1>0, RequestAssumption, Zenon DEF RetryInv
  <2>1. a.ack.valid_until \in Nat
    BY <2>0, BoundsAssumption DEF AckRequest, Timestamp
  <2>2. a.ack.valid_until <= SaturatingAdd(clock, RequestWindow)'
    BY <1>2, <2>0, <2>1, BoundsAssumption, Zenon DEF AckedMark
  <2>3. a.ack.valid_until <= clock => a.ack.valid_until <= clock'
    BY <1>0, <2>1
  <2> QED
    BY <1>1, <2>0, <2>2, <2>3, Zenon
    DEF AckedMark, Backed, HasMailbox, Retired, ReceiveKeyVerifies, FitsI64
<1>5. ASSUME NEW f \in fetched PROVE FetchedMark(f)'
  <2>0. f \in FetchRequest /\ FetchedMark(f)
    BY <1>0, RequestAssumption, Zenon DEF RetryInv
  <2>1. f.valid_until \in Nat
    BY <2>0, BoundsAssumption DEF FetchRequest, Timestamp
  <2>2. f.valid_until <= clock => f.valid_until <= clock'
    BY <1>0, <2>1
  <2> QED
    BY <1>1, <2>0, <2>2, Zenon DEF FetchedMark, Backed, HasMailbox, Retired, FitsI64
<1> QED
  BY <1>3, <1>4, <1>5

\* Every step of the relay leaves every answered request its mark.
LEMMA RetryStep ==
  ASSUME RetryInv, [Next]_vars
  PROVE  RetryInv'
<1>0. TableInv /\ TableInv'
  BY StepKeepsTables DEF RetryInv
<1>1. CASE Operation(clock) /\ UNCHANGED clock
  <2>1. Keeps(clock)
    BY <1>0, <1>1, OperationKeeps
  <2>2. stored \subseteq Sends /\ fetched \subseteq Fetches /\ \A a \in acked : a.ack \in Acks
    BY <1>0 DEF TableInv, TypeOK
  <2>3. /\ \A s \in stored : StoredMark(s)'
        /\ \A a \in acked : AckedMark(a.ack)'
        /\ \A f \in fetched : FetchedMark(f)'
    <3>1. clock \in Nat /\ clock <= clock
      BY <1>0, BoundsAssumption DEF TableInv, TypeOK
    <3> QED
      BY <1>0, <1>1, <2>1, <2>2, <3>1, StoredMarkStays, AckedMarkStays, FetchedMarkStays
      DEF RetryInv
  <2>4. /\ \A s \in stored' \ stored : StoredMark(s)'
        /\ \A a \in acked' \ acked : AckedMark(a.ack)'
        /\ \A f \in fetched' \ fetched : FetchedMark(f)'
    BY <1>0, <1>1, NewMarks
  <2> QED
    BY <1>0, <2>3, <2>4 DEF RetryInv
<1>2. CASE Tick
  BY <1>0, <1>2, TickKeepsMarks, Zenon DEF RetryInv, Tick, history
<1>3. CASE UNCHANGED vars
  BY <1>3, Zenon DEF vars, tables, history, RetryInv, TableInv, TypeOK, KeysHold, QueuedOrTombstoned,
              RetiredForever, RegistrationNonceBacked, StoredMark, AckedMark, FetchedMark,
              Backed, Retired, HasMailbox, SendKeyVerifies, ReceiveKeyVerifies
<1> QED
  BY <1>1, <1>2, <1>3 DEF Next

\* The retry invariant holds throughout: every answered request keeps its mark.
THEOREM MarksKept == Spec => []RetryInv
<1>1. Init => RetryInv
  BY InitTables DEF RetryInv, Init
<1>2. RetryInv /\ [Next]_vars => RetryInv'
  BY RetryStep
<1> QED
  BY <1>1, <1>2, PTL DEF Spec

\* What enqueue answers a stored request is read off its mark.
LEMMA SendAnswered ==
  ASSUME RetryInv
  PROVE  SendRetryStable
<1> SUFFICES ASSUME NEW s \in stored
             PROVE  EnqueueOutcome(s, clock) \in
                      {"Duplicate", "MessageGone", "InvalidExpiry", "MailboxNotFound"}
  BY DEF SendRetryStable
<1>1. StoredMark(s) /\ TypeOK /\ KeysHold /\ QueuedOrTombstoned
  BY DEF RetryInv, TableInv
<1>2. /\ s.expires_at \in Nat /\ clock \in Nat /\ I64Max \in Nat
      /\ \A t \in tombstones : t.delete_after \in Nat
  BY <1>1, RequestAssumption, BoundsAssumption
  DEF TypeOK, SendRequest, Timestamp, Tombstone, StoredTimestamp
<1>3. CASE ~ValidMessageExpiry(s.expires_at, clock) \/ ~HasMailbox(s.queue_id)
  BY <1>1, <1>2, <1>3 DEF EnqueueOutcome, StoredMark, ValidMessageExpiry, FitsI64
<1>4. CASE ValidMessageExpiry(s.expires_at, clock) /\ HasMailbox(s.queue_id)
  <2>1. clock < s.expires_at /\ FitsI64(clock) /\ FitsI64(s.expires_at)
    BY <1>1, <1>2, <1>4 DEF StoredMark, ValidMessageExpiry, FitsI64
  <2>2. CASE MessageRow(s) \in messages
    <3>1. /\ MessageRow(s).expires_at = s.expires_at /\ MessageRow(s).ciphertext = s.packet
          /\ \A m : SameMessageId(m, s) <=> SameMessageId(m, MessageRow(s))
      BY Zenon DEF MessageRow, SameMessageId
    <3>2. Queued(s, clock) = {MessageRow(s)}
      BY <1>1, <1>2, <2>1, <2>2, <3>1, Zenon
      DEF Queued, UnexpiredMessages, KeysHold, SameMessageId
    <3>3. SamePacket(s, clock) /\ SameExpiry(s, clock)
      BY <3>1, <3>2 DEF SamePacket, SameExpiry
    <3> QED
      BY <1>1, <1>4, <2>1, <3>2, <3>3, Zenon DEF EnqueueOutcome, StoredMark
  <2>3. CASE \E t \in tombstones : SameMessageId(t, s) /\ s.expires_at <= t.delete_after
    <3>1. Tombstoned(s, clock)
      BY <1>2, <2>1, <2>3 DEF Tombstoned, UnexpiredTombstones
    <3> QED
      BY <1>1, <1>4, <2>1, <3>1 DEF EnqueueOutcome, StoredMark
  <2> QED
    BY <1>1, <1>2, <1>4, <2>1, <2>2, <2>3 DEF StoredMark
<1> QED
  BY <1>3, <1>4

\* A signed send request takes effect once (SendRetryStable): until it expires,
\* its row or the tombstone that replaced the row answers for it.
THEOREM SendRetrySafe == Spec => []SendRetryStable
<1>1. RetryInv => SendRetryStable
  BY SendAnswered
<1> QED
  BY <1>1, MarksKept, PTL

\* What acknowledge answers a completed ACK is read off its tombstone.
LEMMA AckAnswered ==
  ASSUME RetryInv
  PROVE  AckRetryStable
<1> SUFFICES ASSUME NEW a \in acked
             PROVE  AckOutcome(a.ack, clock) \in
                      {"AlreadyDeleted", "RequestExpired", "MailboxNotFound"}
  BY DEF AckRetryStable
<1>1. AckedMark(a.ack) /\ TypeOK /\ QueuedOrTombstoned
  BY DEF RetryInv, TableInv
<1>2. /\ a.ack.valid_until \in Nat /\ clock \in Nat /\ I64Max \in Nat
      /\ \A t \in tombstones : t.delete_after \in Nat
  BY <1>1, RequestAssumption, BoundsAssumption, SMTT(40)
  DEF TypeOK, AckRequest, Timestamp, Tombstone, StoredTimestamp
<1>3. CASE ~ValidRequestTime(a.ack.valid_until, clock) \/ ~HasMailbox(a.ack.queue_id)
  BY <1>1, <1>2, <1>3, SMTT(90) DEF AckOutcome, AckedMark, ValidRequestTime, FitsI64
<1>4. CASE ValidRequestTime(a.ack.valid_until, clock) /\ HasMailbox(a.ack.queue_id)
  <2>1. clock < a.ack.valid_until /\ FitsI64(clock)
    BY <1>1, <1>2, <1>4, SMTT(90) DEF AckedMark, ValidRequestTime, FitsI64
  <2>2. PICK t \in tombstones :
          SameMessageId(t, a.ack) /\ a.ack.valid_until <= t.delete_after
    <3>1. ~(a.ack.valid_until <= clock)
      BY <1>2, <2>1
    <3> QED
      BY <1>1, <1>4, <3>1, Zenon DEF AckedMark
  <2>3. Tombstoned(a.ack, clock)
    BY <1>2, <2>1, <2>2 DEF Tombstoned, UnexpiredTombstones
  <2>4. Queued(a.ack, clock) = {}
    BY <1>1, <2>2 DEF Queued, UnexpiredMessages, QueuedOrTombstoned, SameMessageId
  <2> QED
    BY <1>1, <1>4, <2>1, <2>3, <2>4, Zenon DEF AckOutcome, AckedMark
<1> QED
  BY <1>3, <1>4

\* A lost ACK response can be asked for again (AckRetryStable): the tombstone of
\* a completed ACK outlives the ACK.
THEOREM AckRetrySafe == Spec => []AckRetryStable
<1>1. RetryInv => AckRetryStable
  BY AckAnswered
<1> QED
  BY <1>1, MarksKept, PTL

\* A signed fetch is served once (FetchServedOnce): its nonce outlives it.
THEOREM FetchReplayRefused == Spec => []FetchServedOnce
<1>1. RetryInv => FetchServedOnce
  <2> SUFFICES ASSUME RetryInv, NEW f \in fetched
               PROVE  FetchOutcome(f, clock) \in
                        {"Unauthorized", "RequestExpired", "MailboxNotFound"}
    BY DEF FetchServedOnce
  <2>1. FetchedMark(f) /\ TypeOK
    BY DEF RetryInv, TableInv
  <2>2. /\ f.valid_until \in Nat /\ clock \in Nat /\ I64Max \in Nat
        /\ \A n \in request_nonces : n.delete_after \in Nat
    BY <2>1, RequestAssumption, BoundsAssumption
    DEF TypeOK, FetchRequest, Timestamp, RequestNonce, StoredTimestamp
  <2>3. CASE ~ValidRequestTime(f.valid_until, clock) \/ ~HasMailbox(f.queue_id)
    BY <2>1, <2>2, <2>3 DEF FetchOutcome, FetchedMark, ValidRequestTime, FitsI64
  <2>4. CASE ValidRequestTime(f.valid_until, clock) /\ HasMailbox(f.queue_id)
    <3>1. clock < f.valid_until /\ FitsI64(clock) /\ FitsI64(f.valid_until)
      BY <2>1, <2>2, <2>4 DEF FetchedMark, ValidRequestTime, FitsI64
    <3>2. NonceRecorded(f, "receive", clock)
      BY <2>1, <2>2, <2>4, <3>1 DEF FetchedMark, NonceRecorded, UnexpiredRequestNonces
    <3> QED
      BY <2>4, <3>1, <3>2 DEF FetchOutcome
  <2> QED
    BY <2>3, <2>4
<1> QED
  BY <1>1, MarksKept, PTL

-----------------------------------------------------------------------------
\* why a row may leave the messages table: the body of MessageKeptUntilDone
Justified(m) ==
  \/ m.expires_at <= clock
  \/ ~HasMailbox(m.queue_id)'
  \/ \E a \in acked' : /\ a.row = m
                       /\ a.ack.packet_hash = Digest(m.ciphertext)
                       /\ ReceiveKeyVerifies(a.ack)

\* An operation, at the clock or before it, drops a message row for one of these
\* reasons only.
LEMMA OperationJustified ==
  ASSUME TableInv, NEW now \in Nat, now <= clock, Operation(now),
         NEW m \in messages, m \notin messages'
  PROVE  Justified(m)
<1>0. m.expires_at \in Nat /\ clock \in Nat
  BY BoundsAssumption DEF TableInv, TypeOK, Message, StoredTimestamp
<1>1. CASE m \notin UnexpiredMessages(now)
  BY <1>0, <1>1 DEF UnexpiredMessages, Justified
<1>2. CASE m \in UnexpiredMessages(now)
  <2>1. CASE \E req \in Acks : Acknowledge(req, now)
    <3>1. PICK req \in Acks : Acknowledge(req, now)
      BY <2>1, Zenon
    <3>2. AckOutcome(req, now) = "Deleted" /\ m \in Queued(req, now)
      BY <1>2, <3>1, Zenon DEF Acknowledge, SweepOnly, Rollback, tables
    <3>3. ReceiveKeyVerifies(req) /\ Digest(m.ciphertext) = req.packet_hash
      BY <3>2, Zenon DEF AckOutcome, DigestMatches
    <3>4. [ack |-> req, row |-> m] \in acked'
      BY <3>1, <3>2, Zenon DEF Acknowledge
    <3> QED
      BY <3>3, <3>4 DEF Justified
  <2>2. CASE \E req \in Deletes : DeleteMailbox(req, now)
    BY <1>2, <2>2 DEF DeleteMailbox, Rollback, tables, SurvivingRows, Justified, HasMailbox
  <2>3. CASE PurgeExpired(now)
    BY <1>2, <2>3, Zenon DEF PurgeExpired, SweepOnly, Rollback, tables
  <2>4. CASE \/ \E req \in Registrations : Register(req, now)
             \/ \E req \in Sends : Enqueue(req, now)
             \/ \E req \in Fetches : Fetch(req, now)
    BY <1>2, <2>4, Zenon DEF Register, Enqueue, Fetch, SweepOnly, Rollback, tables
  <2> QED
    BY <2>1, <2>2, <2>3, <2>4 DEF Operation
<1> QED
  BY <1>1, <1>2

\* The relay loses no message (MessageKeptUntilDone): a row leaves by expiry, with
\* its mailbox, or by an ACK under the receive key for the bytes it holds.
THEOREM MessagesKept == Spec => MessageKeptUntilDone
<1>1. TableInv /\ [Next]_vars => TableInv'
  BY StepKeepsTables
<1>2. TableInv /\ [Next]_vars => [\A m \in messages \ messages' : Justified(m)]_vars
  <2> SUFFICES ASSUME TableInv, Operation(clock), NEW m \in messages \ messages'
               PROVE  Justified(m)
    BY DEF Next, Tick, tables
  <2>1. clock \in Nat /\ clock <= clock
    BY BoundsAssumption DEF TableInv, TypeOK
  <2> QED
    BY <2>1, OperationJustified
<1>3. TableInv /\ [Next]_vars =>
        [\A m \in messages \ messages' :
           \/ m.expires_at <= clock
           \/ ~HasMailbox(m.queue_id)'
           \/ \E a \in acked' : /\ a.row = m
                                /\ a.ack.packet_hash = Digest(m.ciphertext)
                                /\ ReceiveKeyVerifies(a.ack)]_vars
  BY <1>2 DEF Justified
<1> QED
  BY InitTables, <1>1, <1>3, PTL DEF Spec, MessageKeptUntilDone

=============================================================================
