--------------------------- MODULE MessengerMail ---------------------------
(***************************************************************************)
(* What lies between relay and clients: how the requests, rows and         *)
(* envelopes of Messenger are related to the packets that clients sealed,  *)
(* and that every step keeps it so.  Of the relay only the types of its    *)
(* tables are needed here, of the clients the invariant of their proofs.   *)
(***************************************************************************)
EXTENDS Messenger, TLAPS

-----------------------------------------------------------------------------
(* The invariant.                                                          *)

\* every send request that was ever answered Stored or is still being tried
Requests == stored \cup UNION {outbox[c] : c \in Client}

EndsOf(secret) == {secret.initiator, secret.responder}

\* A request is what Compose signed: the packet goes to the other end of its
\* session.
RequestInv(req) ==
  /\ req.packet \in packets /\ req.message_id = req.packet.message_id
  /\ req.signature = <<req.queue_id, "send">>
  /\ req.expires_at <= MaxClock + Lifetime
  /\ req.queue_id # req.packet.from[1]
  /\ \E id \in EndsOf(req.packet.secret) : id[1] = req.queue_id

\* A packet is signed once.
UniqueRequests == \A r, s \in Requests : r.message_id = s.message_id => r = s

StoredRows == {R!MessageRow(req) : req \in stored}

\* Rows are stored requests wherever they have got to; opened ones were shown.
RowInv ==
  /\ messages \subseteq StoredRows
  /\ \A c \in Client : \A row \in inbox[c] \cup opened[c] :
       row \in StoredRows /\ row.queue_id = c
  /\ \A c \in Client : \A row \in opened[c] : Seen(c, row.message_id)

MailboxInv ==
  \A mb \in mailboxes :
    /\ mb.send_key = <<mb.queue_id, "send">>
    /\ mb.receive_key = <<mb.queue_id, "receive">>

\* The one-time key of a secret is from a bundle of the responder.
KeyInv(secret) ==
  \E b \in bundles : b.identity = secret.responder /\ b.one_time_key = secret.one_time_key

\* The responder has used the secret.
Answers(secret) == \E q \in packets : q.secret = secret /\ q.from = secret.responder

SessionSecret(c) ==
  session[c] # C!NoSession =>
    /\ KeyInv(session[c].secret)
    /\ session[c].secret.initiator = account[c].identity /\ session[c].received # {}
         => Answers(session[c].secret)

\* An initiator leaves off pre-key messages once the responder has answered.
SecretInv ==
  /\ \A c \in Client : SessionSecret(c)
  /\ \A p \in packets :
       /\ KeyInv(p.secret)
       /\ p.from = p.secret.initiator /\ ~p.prekey => Answers(p.secret)

BoundInv ==
  /\ \A c \in Client : account[c].identity[2] <= MaxRestarts
  /\ \A p \in packets : p.message_id \in MessageIds

\* What is on its way, on either side of the relay.
BoxInv ==
  /\ outbox \in [Client -> SUBSET R!SendRequest]
  /\ inbox \in [Client -> SUBSET R!Message] /\ opened \in [Client -> SUBSET R!Message]
  /\ losses \in 0..MaxLosses
  /\ \A req \in Requests : RequestInv(req)
  /\ UniqueRequests
  /\ RowInv /\ MailboxInv

MailInv == BoxInv /\ SecretInv /\ BoundInv

\* A client holds envelopes of rows that it has not opened.
HeldInv ==
  /\ envelopes \in [Client -> SUBSET R!Message]
  /\ \A c \in Client : envelopes[c] \subseteq inbox[c]

\* What the relay keeps and has answered is well typed.
RelayTypes ==
  /\ clock \in 0..MaxClock /\ messages \subseteq R!Message
  /\ stored \subseteq R!SendRequest /\ fetched \subseteq R!FetchRequest
  /\ \A a \in acked : a.ack \in R!AckRequest /\ a.row \in R!Message

MailState == RelayTypes /\ MailInv /\ HeldInv

-----------------------------------------------------------------------------
(* What the parts of the state are.                                        *)

\* The clock leaves room for every deadline.
LEMMA ClockType ==
  ASSUME MailState
  PROVE  /\ clock \in Nat /\ clock <= MaxClock
         /\ clock + RequestWindow \in 0..EndOfTime /\ clock + Lifetime \in 0..EndOfTime
         /\ clock + BundleValidity \in 0..EndOfTime /\ clock + TombstoneTtl \in 0..EndOfTime
<1>1. clock \in 0..MaxClock
  BY DEF MailState, RelayTypes
<1> QED
  BY <1>1, MessengerAssumption DEF EndOfTime

\* What the types of the boxes are, and what their elements are.
LEMMA BoxTypes ==
  ASSUME MailState
  PROVE  /\ outbox \in [Client -> SUBSET R!SendRequest]
         /\ inbox \in [Client -> SUBSET R!Message] /\ opened \in [Client -> SUBSET R!Message]
         /\ losses \in 0..MaxLosses /\ MaxLosses \in Nat
         /\ messages \subseteq R!Message /\ stored \subseteq Requests
         /\ \A c \in Client : outbox[c] \subseteq Requests
  BY MessengerAssumption DEF MailState, RelayTypes, MailInv, BoxInv, Requests

\* A row that was stored is the packet of a request, under the packet's own id.
LEMMA StoredRowFacts ==
  ASSUME MailState, NEW row \in StoredRows
  PROVE  /\ row.ciphertext \in packets /\ row.message_id = row.ciphertext.message_id
         /\ row.expires_at \in Nat /\ row.expires_at \in 0..EndOfTime
         /\ row.expires_at <= MaxClock + Lifetime
         /\ row.queue_id \in Client /\ row.sender_signature = <<row.queue_id, "send">>
         /\ row.queue_id # row.ciphertext.from[1]
         /\ \E id \in EndsOf(row.ciphertext.secret) : id[1] = row.queue_id
<1>1. PICK req \in stored : row = R!MessageRow(req)
  BY DEF StoredRows
<1>2. req \in R!SendRequest /\ RequestInv(req)
  BY DEF MailState, RelayTypes, MailInv, BoxInv, Requests
<1>3. /\ row.queue_id = req.queue_id /\ row.message_id = req.message_id
      /\ row.ciphertext = req.packet /\ row.expires_at = req.expires_at
      /\ row.sender_signature = req.signature
  BY <1>1 DEF R!MessageRow
<1>4. req.queue_id \in Client /\ req.expires_at \in Nat /\ req.expires_at \in 0..EndOfTime
  BY <1>2, MessengerAssumption DEF R!SendRequest, R!Timestamp, EndOfTime
<1> QED
  BY <1>2, <1>3, <1>4 DEF RequestInv

-----------------------------------------------------------------------------
(* What the operations of the relay do to the tables.                      *)

\* enqueue adds the row of a request together with the record that it did.
LEMMA EnqueueEffect ==
  ASSUME NEW req, R!Enqueue(req, clock)
  PROVE  /\ \/ messages' \subseteq messages /\ stored' = stored
            \/ messages' \subseteq messages \cup {R!MessageRow(req)}
               /\ stored' = stored \cup {req}
         /\ mailboxes' = mailboxes /\ fetched' = fetched
  BY DEF R!Enqueue, R!SweepOnly, R!Rollback, R!tables, R!history, R!UnexpiredMessages

\* fetch, acknowledge and purge_expired add no message and no mailbox.
LEMMA OtherEffects ==
  ASSUME NEW req, R!Fetch(req, clock) \/ R!Acknowledge(req, clock) \/ R!PurgeExpired(clock)
  PROVE  /\ messages' \subseteq messages /\ stored' = stored /\ mailboxes' = mailboxes
         /\ fetched' = fetched \/ fetched' = fetched \cup {req}
  BY DEF R!Fetch, R!Acknowledge, R!PurgeExpired, R!SweepOnly, R!Rollback, R!tables, R!history,
         R!UnexpiredMessages

\* register adds a mailbox, delete_mailbox takes one away with its messages.
LEMMA MailboxEffects ==
  ASSUME NEW req, R!Register(req, clock) \/ R!DeleteMailbox(req, clock)
  PROVE  /\ messages' \subseteq messages /\ stored' = stored /\ fetched' = fetched
         /\ \/ mailboxes' \subseteq mailboxes
            \/ R!Register(req, clock) /\ mailboxes' = mailboxes \cup {R!MailboxRow(req)}
  BY DEF R!Register, R!DeleteMailbox, R!SurvivingRows, R!Rollback, R!tables, R!history,
         R!UnexpiredMessages

-----------------------------------------------------------------------------
(* What is on its way.                                                     *)

\* Requests and rows stay what they are while packets are only added.
LEMMA RequestsKept ==
  ASSUME MailState, Requests' \subseteq Requests, packets \subseteq packets'
  PROVE  (\A req \in Requests : RequestInv(req))' /\ UniqueRequests'
<1>1. ASSUME NEW req \in Requests' PROVE RequestInv(req)'
  <2>1. RequestInv(req)
    BY DEF MailState, MailInv, BoxInv
  <2> QED
    BY <2>1 DEF RequestInv
<1>2. UniqueRequests'
  BY DEF MailState, MailInv, BoxInv, UniqueRequests
<1> QED
  BY <1>1, <1>2

\* A new request is the only one; without one there are no more than before.
LEMMA RequestsGrow ==
  ASSUME stored' = stored
  PROVE  /\ \A c \in Client : \A req :
              /\ outbox'[c] = outbox[c] \cup {req}
              /\ \A d \in Client \ {c} : outbox'[d] = outbox[d]
              => Requests' = Requests \cup {req}
         /\ (\A d \in Client : outbox'[d] \subseteq outbox[d]) => Requests' \subseteq Requests
<1>1. ASSUME NEW c \in Client, NEW req, outbox'[c] = outbox[c] \cup {req},
             \A d \in Client \ {c} : outbox'[d] = outbox[d]
      PROVE  Requests' = Requests \cup {req}
  BY <1>1 DEF Requests
<1>2. ASSUME \A d \in Client : outbox'[d] \subseteq outbox[d]
      PROVE  Requests' \subseteq Requests
  BY <1>2 DEF Requests
<1> QED
  BY <1>1, <1>2

\* What a box holds after one element was put in or taken out.
LEMMA BoxUpdated ==
  ASSUME NEW S, NEW f \in [Client -> SUBSET S], NEW c \in Client, NEW x \in S
  PROVE  LET more == [f EXCEPT ![c] = @ \cup {x}]
             less == [f EXCEPT ![c] = @ \ {x}]
         IN  /\ more \in [Client -> SUBSET S] /\ less \in [Client -> SUBSET S]
             /\ more[c] = f[c] \cup {x} /\ less[c] = f[c] \ {x}
             /\ \A d \in Client \ {c} : more[d] = f[d] /\ less[d] = f[d]
  OBVIOUS

\* A step of the relay alone: boxes are emptied by answers, and filled with rows
\* of the queue they belong to.
LEMMA RelayKeepsMail ==
  ASSUME MailState, UNCHANGED olm,
         outbox' \in [Client -> SUBSET R!SendRequest],
         inbox' \in [Client -> SUBSET R!Message], opened' \in [Client -> SUBSET R!Message],
         \A c \in Client : /\ outbox'[c] \subseteq outbox[c]
                           /\ inbox'[c] \subseteq inbox[c] \cup {m \in messages : m.queue_id = c}
                           /\ opened'[c] \subseteq opened[c],
         losses' \in 0..MaxLosses,
         stored \subseteq stored', stored' \subseteq Requests,
         messages' \subseteq messages \cup {R!MessageRow(req) : req \in stored'},
         \A mb \in mailboxes' \ mailboxes :
           /\ mb.send_key = <<mb.queue_id, "send">>
           /\ mb.receive_key = <<mb.queue_id, "receive">>
  PROVE  MailInv'
<1> USE DEF olm
<1>1. Requests' \subseteq Requests
  BY DEF Requests
<1>2. (\A req \in Requests : RequestInv(req))' /\ UniqueRequests'
  BY <1>1, RequestsKept
<1>4. MailboxInv'
  BY DEF MailState, MailInv, BoxInv, MailboxInv
<1>5. RowInv'
  <2>1. StoredRows \subseteq StoredRows'
    BY DEF StoredRows
  <2>2. RowInv
    BY DEF MailState, MailInv, BoxInv
  <2>3. messages' \subseteq StoredRows'
    BY <2>1, <2>2 DEF RowInv, StoredRows
  <2>4. ASSUME NEW c \in Client, NEW row \in inbox'[c] \cup opened'[c]
        PROVE  row \in StoredRows' /\ row.queue_id = c
    BY <2>1, <2>2 DEF RowInv
  <2>5. ASSUME NEW c \in Client, NEW row \in opened'[c]
        PROVE  Seen(c, row.message_id)'
    BY <2>2 DEF RowInv, Seen
  <2> QED
    BY <2>3, <2>4, <2>5 DEF RowInv
<1>6. SecretInv' /\ BoundInv'
  BY DEF MailState, MailInv, SecretInv, SessionSecret, KeyInv, Answers, BoundInv
<1> QED
  BY <1>2, <1>4, <1>5, <1>6 DEF MailInv, BoxInv

-----------------------------------------------------------------------------
(* One lemma for each action that leaves the clients alone.                *)

\* register with the keys of the mailbox's own capabilities
LEMMA RegisterMailboxKeepsMail ==
  ASSUME MailState, NEW c \in Client, RegisterMailbox(c)
  PROVE  MailInv'
<1> DEFINE reg == Registration(c, clock + RequestWindow)
<1>1. /\ messages' \subseteq messages /\ stored' = stored /\ fetched' = fetched
      /\ mailboxes' \subseteq mailboxes \/ mailboxes' = mailboxes \cup {R!MailboxRow(reg)}
  BY MailboxEffects DEF RegisterMailbox
<1>2. /\ R!MailboxRow(reg).queue_id = c /\ R!MailboxRow(reg).send_key = <<c, "send">>
      /\ R!MailboxRow(reg).receive_key = <<c, "receive">>
  BY DEF R!MailboxRow, Registration
<1>3. UNCHANGED olm /\ UNCHANGED mail /\ UNCHANGED losses
  BY DEF RegisterMailbox
<1> HIDE DEF reg
<1> QED
  BY <1>1, <1>2, <1>3, BoxTypes, RelayKeepsMail DEF mail

\* enqueue, whether its answer arrives or not
LEMMA SendKeepsMail ==
  ASSUME MailState, NEW c \in Client, NEW req \in outbox[c], Send(c, req)
  PROVE  MailInv'
<1>1. /\ \/ messages' \subseteq messages /\ stored' = stored
         \/ messages' \subseteq messages \cup {R!MessageRow(req)} /\ stored' = stored \cup {req}
      /\ mailboxes' = mailboxes /\ fetched' = fetched
  BY EnqueueEffect DEF Send
<1>2. /\ stored \subseteq stored' /\ stored' \subseteq Requests
      /\ messages' \subseteq messages \cup {R!MessageRow(r) : r \in stored'}
  BY <1>1, BoxTypes
<1>3. outbox' = [outbox EXCEPT ![c] = @ \ {req}] \/ outbox' = outbox
  BY DEF Send, Answered
<1>4. losses' \in 0..MaxLosses
  BY BoxTypes DEF Send, Answered
<1>5. outbox' \in [Client -> SUBSET R!SendRequest] /\ \A d \in Client : outbox'[d] \subseteq outbox[d]
  BY <1>3, BoxTypes
<1>6. UNCHANGED olm /\ UNCHANGED <<inbox, opened>>
  BY DEF Send
<1> QED
  BY <1>1, <1>2, <1>4, <1>5, <1>6, BoxTypes, RelayKeepsMail, Zenon

\* fetch: the rows are those of the caller's queue
LEMMA FetchMailKeepsMail ==
  ASSUME MailState, NEW c \in Client, FetchMail(c)
  PROVE  MailInv'
<1> DEFINE req == AuthorizeFetch(c, clock + RequestWindow)
           rows == FetchedRows(c, clock)
<1>1. R!Fetch(req, clock) /\ UNCHANGED olm /\ UNCHANGED <<outbox, opened>>
  BY DEF FetchMail
<1>2. /\ messages' \subseteq messages /\ stored' = stored /\ mailboxes' = mailboxes
      /\ fetched' = fetched \/ fetched' = fetched \cup {req}
  BY <1>1, OtherEffects
<1>3. rows \subseteq {m \in messages : m.queue_id = c}
  BY DEF FetchedRows, R!UnexpiredMessages
<1>4. inbox' = [inbox EXCEPT ![c] = @ \cup (rows \ opened[c])] \/ inbox' = inbox
  BY DEF FetchMail, Answered
<1>5. losses' \in 0..MaxLosses
  BY BoxTypes DEF FetchMail, Answered
<1> HIDE DEF req, rows
<1>6. /\ inbox' \in [Client -> SUBSET R!Message]
      /\ \A d \in Client : inbox'[d] \subseteq inbox[d] \cup {m \in messages : m.queue_id = d}
  BY <1>3, <1>4, BoxTypes
<1> QED
  BY <1>1, <1>2, <1>5, <1>6, BoxTypes, RelayKeepsMail, Zenon

\* acknowledge, whether its answer arrives or not
LEMMA SendAckKeepsMail ==
  ASSUME MailState, NEW c \in Client, NEW row \in opened[c], SendAck(c, row)
  PROVE  MailInv'
<1> DEFINE req == AuthorizeAck(c, row, clock + RequestWindow)
<1>1. R!Acknowledge(req, clock) /\ UNCHANGED olm /\ UNCHANGED <<outbox, inbox>>
  BY DEF SendAck
<1>2. /\ messages' \subseteq messages /\ stored' = stored /\ mailboxes' = mailboxes
      /\ fetched' = fetched \/ fetched' = fetched \cup {req}
  BY <1>1, OtherEffects
<1>3. opened' = [opened EXCEPT ![c] = @ \ {row}] \/ opened' = opened
  BY DEF SendAck, Answered
<1>4. losses' \in 0..MaxLosses
  BY BoxTypes DEF SendAck, Answered
<1>5. opened' \in [Client -> SUBSET R!Message] /\ \A d \in Client : opened'[d] \subseteq opened[d]
  BY <1>3, BoxTypes
<1> HIDE DEF req
<1> QED
  BY <1>1, <1>2, <1>4, <1>5, BoxTypes, RelayKeepsMail

\* delete_mailbox, purge_expired, and requests that reach the relay once more
LEMMA RelayAloneKeepsMail ==
  ASSUME MailState, Redeliver \/ Purge \/ \E c \in Client : CloseMailbox(c)
  PROVE  MailInv'
<1>1. UNCHANGED olm /\ UNCHANGED mail /\ UNCHANGED losses
  BY DEF Redeliver, Purge, CloseMailbox
<1>2. CASE \E c \in Client : CloseMailbox(c)
  <2>1. PICK req : R!DeleteMailbox(req, clock)
    BY <1>2 DEF CloseMailbox
  <2>2. /\ messages' \subseteq messages /\ stored' = stored /\ fetched' = fetched
        /\ mailboxes' \subseteq mailboxes
    BY <2>1 DEF R!DeleteMailbox, R!SurvivingRows, R!Rollback, R!tables, R!history,
                R!UnexpiredMessages
  <2> QED
    BY <1>1, <2>2, BoxTypes, RelayKeepsMail DEF mail
<1>3. CASE \E req \in stored : R!Enqueue(req, clock)
  <2>1. PICK req \in stored : R!Enqueue(req, clock)
    BY <1>3
  <2>2. /\ messages' \subseteq messages \cup {R!MessageRow(req)} /\ stored' = stored
        /\ fetched' = fetched /\ mailboxes' = mailboxes
    BY <2>1, EnqueueEffect
  <2> QED
    BY <1>1, <2>2, BoxTypes, RelayKeepsMail DEF mail
<1>4. CASE \/ Purge \/ \E req \in fetched : R!Fetch(req, clock)
           \/ \E a \in acked : R!Acknowledge(a.ack, clock)
  <2>1. PICK req : R!Fetch(req, clock) \/ R!Acknowledge(req, clock) \/ R!PurgeExpired(clock)
    BY <1>4 DEF Purge
  <2>2. /\ messages' \subseteq messages /\ stored' = stored /\ mailboxes' = mailboxes
        /\ fetched' = fetched \/ fetched' = fetched \cup {req}
    BY <2>1, OtherEffects
  <2> QED
    BY <1>1, <2>2, BoxTypes, RelayKeepsMail DEF mail
<1> QED
  BY <1>2, <1>3, <1>4 DEF Redeliver

-----------------------------------------------------------------------------
(* What the actions of the clients keep.                                   *)

\* A step of a client that moves no mail.
LEMMA BoxesKept ==
  ASSUME MailState, UNCHANGED <<relay, outbox, inbox, opened, losses, shown>>,
         packets \subseteq packets'
  PROVE  BoxInv'
<1> USE DEF relay
<1>1. Requests' \subseteq Requests
  BY DEF Requests
<1>2. (\A req \in Requests : RequestInv(req))' /\ UniqueRequests'
  BY <1>1, RequestsKept
<1>3. RowInv' /\ MailboxInv'
  BY DEF MailState, MailInv, BoxInv, RowInv, MailboxInv, StoredRows, Seen
<1> QED
  BY <1>2, <1>3 DEF MailState, MailInv, BoxInv

\* Secrets keep their one-time key and their answers while bundles and packets
\* are only added.
LEMMA SecretKept ==
  ASSUME NEW secret, bundles \subseteq bundles', packets \subseteq packets'
  PROVE  (KeyInv(secret) => KeyInv(secret)') /\ (Answers(secret) => Answers(secret)')
  BY DEF KeyInv, Answers

\* A step that leaves sessions, identities and packets as they are.
LEMMA SecretsKept ==
  ASSUME MailState, bundles \subseteq bundles', UNCHANGED <<packets, session>>,
         \A c \in Client : account'[c].identity = account[c].identity
  PROVE  SecretInv' /\ BoundInv'
<1>1. \A secret : (KeyInv(secret) => KeyInv(secret)') /\ (Answers(secret) => Answers(secret)')
  BY SecretKept, Zenon
<1>2. SecretInv'
  BY <1>1 DEF MailState, MailInv, SecretInv, SessionSecret
<1>3. BoundInv'
  BY DEF MailState, MailInv, BoundInv
<1> QED
  BY <1>2, <1>3

\* Before anything was sealed, the invariant holds.
LEMMA InitMail ==
  ASSUME Init
  PROVE  MailInv /\ HeldInv
<1>1. /\ mailboxes = {} /\ messages = {} /\ stored = {} /\ fetched = {} /\ packets = {}
      /\ losses = 0 /\ \A c \in Client : outbox[c] = {} /\ inbox[c] = {} /\ opened[c] = {}
      /\ \A c \in Client : session[c] = C!NoSession /\ account[c].identity = <<c, 0>>
  BY DEF Init, R!Init, C!Init
<1>2. Requests = {}
  BY <1>1 DEF Requests
<1>4. RowInv /\ MailboxInv
  BY <1>1 DEF RowInv, MailboxInv
<1>5. BoxInv
  BY <1>1, <1>2, <1>4, MessengerAssumption DEF Init, BoxInv, UniqueRequests
<1>6. SecretInv
  BY <1>1 DEF SecretInv, SessionSecret
<1>7. BoundInv
  BY <1>1, MessengerAssumption DEF BoundInv
<1>8. HeldInv
  BY <1>1, Zenon DEF Init, HeldInv
<1> QED
  BY <1>5, <1>6, <1>7, <1>8 DEF MailInv

-----------------------------------------------------------------------------
(* The relay knows a request, and the row that came of it, by the packet.  *)

\* The keys of a mailbox verify what its capabilities sign.
LEMMA KeysVerify ==
  ASSUME MailState
  PROVE  /\ \A req : R!HasMailbox(req.queue_id) /\ req.signature = <<req.queue_id, "send">>
                       => R!SendKeyVerifies(req)
         /\ \A req : R!HasMailbox(req.queue_id) /\ req.signature = <<req.queue_id, "receive">>
                       => R!ReceiveKeyVerifies(req)
  BY DEF MailState, MailInv, BoxInv, MailboxInv, R!HasMailbox, R!SendKeyVerifies,
         R!ReceiveKeyVerifies

\* A queued row is known by its message id.
LEMMA RowsById ==
  ASSUME MailState, NEW a \in StoredRows, NEW b \in StoredRows, a.message_id = b.message_id
  PROVE  a = b
<1>1. PICK r \in stored, s \in stored : a = R!MessageRow(r) /\ b = R!MessageRow(s)
  BY DEF StoredRows
<1>2. r.message_id = s.message_id /\ r \in Requests /\ s \in Requests
  BY <1>1 DEF R!MessageRow, Requests
<1> QED
  BY <1>1, <1>2 DEF MailState, MailInv, BoxInv, UniqueRequests

\* Whatever an ACK names by its message id is that one row.
LEMMA QueuedRow ==
  ASSUME MailState, NEW row \in StoredRows, NEW req, req.message_id = row.message_id
  PROVE  R!Queued(req, clock) \subseteq {row}
<1>1. \A m \in R!Queued(req, clock) : m \in StoredRows /\ m.message_id = row.message_id
  BY Zenon DEF MailState, MailInv, BoxInv, RowInv, R!Queued, R!UnexpiredMessages, R!SameMessageId
<1> QED
  BY <1>1, RowsById

\* enqueue takes no request for another: a row with its id is its own.
LEMMA SendServed ==
  ASSUME MailState, NEW req \in Requests
  PROVE  /\ R!EnqueueOutcome(req, clock) \notin {"Unauthorized", "MessageConflict", "Storage"}
         /\ \A m \in R!Queued(req, clock) : m = R!MessageRow(req)
<1>1. req \in R!SendRequest /\ RequestInv(req)
  BY DEF MailState, RelayTypes, MailInv, BoxInv, Requests
<1>2. R!FitsI64(clock) /\ R!FitsI64(req.expires_at)
  BY <1>1, ClockType, MessengerAssumption DEF R!FitsI64, R!SendRequest, R!Timestamp, EndOfTime
<1>3. R!HasMailbox(req.queue_id) => R!SendKeyVerifies(req)
  BY <1>1, KeysVerify DEF RequestInv
<1>4. ASSUME NEW m \in R!Queued(req, clock) PROVE m = R!MessageRow(req)
  <2>1. m \in messages /\ m.message_id = req.message_id
    BY DEF R!Queued, R!UnexpiredMessages, R!SameMessageId
  <2>2. PICK s \in stored : m = R!MessageRow(s)
    BY <2>1 DEF MailState, MailInv, BoxInv, RowInv, StoredRows
  <2>3. s.message_id = req.message_id /\ s \in Requests
    BY <2>1, <2>2 DEF R!MessageRow, Requests
  <2>4. s = req
    BY <2>3 DEF MailState, MailInv, BoxInv, UniqueRequests
  <2> QED
    BY <2>2, <2>4
<1>5. R!SamePacket(req, clock) /\ R!SameExpiry(req, clock)
  BY <1>4 DEF R!SamePacket, R!SameExpiry, R!MessageRow
<1> QED
  BY <1>2, <1>3, <1>4, <1>5 DEF R!EnqueueOutcome

-----------------------------------------------------------------------------
(* The clients.                                                            *)

\* The clients and their proofs.
CP == INSTANCE OlmClientProofs WITH
  Malformed <- <<>>, Deadlines <- 0..EndOfTime, PayloadVersions <- {1}, MaxBundles <- 1,
  MaxExports <- Cardinality(Client) * (MaxRestarts + 1)

\* Messenger uses OlmClient within the assumption of its proofs.
LEMMA ClientsAssumption == CP!ClientAssumption
  BY MessengerAssumption DEF EndOfTime, MaxOneTimeKeys, CP!ClientAssumption

\* What the operations of a client return and do.
LEMMA SameOutcomes ==
  ASSUME NEW c, NEW envelope, NEW sender, NEW now
  PROVE  /\ C!NoSession = CP!NoSession
         /\ C!OpenInitialOutcome(c, envelope, sender, now) =
              CP!OpenInitialOutcome(c, envelope, sender, now)
         /\ C!OpenOutcome(c, envelope, now) = CP!OpenOutcome(c, envelope, now)
  BY Zenon DEF C!NoSession, C!OpenInitialOutcome, C!OpenOutcome, C!CreatesInbound, C!Decrypts, C!HasOneTimeKey,
         C!ValidatePlaintext, C!PayloadVersion, CP!NoSession, CP!OpenInitialOutcome,
         CP!OpenOutcome, CP!CreatesInbound, CP!Decrypts, CP!HasOneTimeKey, CP!ValidatePlaintext,
         CP!PayloadVersion

\* prekey_bundle, verify_peer and a restart, here and in the proofs of the clients.
LEMMA SameContacts ==
  ASSUME NEW c, NEW x, NEW y
  PROVE  /\ C!Restart(c, x) <=> CP!Restart(c, x)
         /\ C!PrekeyBundle(c, x) <=> CP!PrekeyBundle(c, x)
         /\ C!VerifyPeer(c, x, y) <=> CP!VerifyPeer(c, x, y)
         /\ C!Tick <=> CP!Tick
<1>1. \A S : C!Cardinality(S) = CP!Cardinality(S)
  BY DEF C!Cardinality, CP!Cardinality
<1>2. C!PrekeyBundle(c, x) <=> CP!PrekeyBundle(c, x)
  BY <1>1, Zenon DEF C!PrekeyBundle, C!WithOneTimeKey, CP!PrekeyBundle, CP!WithOneTimeKey
<1>3. C!Restart(c, x) <=> CP!Restart(c, x)
  BY Zenon DEF C!NoSession, C!Restart, CP!NoSession, CP!Restart
<1> QED
  BY <1>2, <1>3, Zenon DEF C!VerifyPeer, C!Verifies, C!Tick, C!clients, CP!VerifyPeer,
                           CP!Verifies, CP!Tick, CP!clients

\* start_outbound_session, seal, open_initial and open, likewise.
LEMMA SameSessions ==
  ASSUME NEW c, NEW envelope, NEW sender, NEW version
  PROVE  /\ C!StartOutboundSession(c, sender) <=> CP!StartOutboundSession(c, sender)
         /\ C!Sealed(c, version) = CP!Sealed(c, version)
         /\ C!Seal(c, version) <=> CP!Seal(c, version)
         /\ C!OpenInitial(c, envelope, sender) <=> CP!OpenInitial(c, envelope, sender)
         /\ C!Open(c, envelope) <=> CP!Open(c, envelope)
<1>1. C!Sealed(c, version) = CP!Sealed(c, version)
  BY Zenon DEF C!Sealed, CP!Sealed
<1>2. C!StartOutboundSession(c, sender) <=> CP!StartOutboundSession(c, sender)
  BY DEF C!NoSession, C!StartOutboundSession, C!StartOutboundOutcome, C!Session, CP!NoSession,
         CP!StartOutboundSession, CP!StartOutboundOutcome, CP!Session
<1>3. C!Seal(c, version) <=> CP!Seal(c, version)
  BY <1>1 DEF C!NoSession, C!Seal, CP!NoSession, CP!Seal
<1>4. C!OpenInitial(c, envelope, sender) <=> CP!OpenInitial(c, envelope, sender)
  <2>1. PICK key : key = envelope.packet.secret.one_time_key
    BY Zenon
  <2>2. C!WithoutKey(account[c].one_time_keys, key) = CP!WithoutKey(account[c].one_time_keys, key)
    BY Zenon DEF C!WithoutKey, CP!WithoutKey
  <2> QED
    BY <2>1, <2>2, SameOutcomes
    DEF C!OpenInitial, C!Session, C!Display, C!Refused, CP!OpenInitial, CP!Session, CP!Display,
        CP!Refused
<1>5. C!Open(c, envelope) <=> CP!Open(c, envelope)
  BY SameOutcomes, Zenon DEF C!Open, C!Ratcheted, C!Display, CP!Open, CP!Ratcheted, CP!Display
<1> QED
  BY <1>1, <1>2, <1>3, <1>4, <1>5, Zenon

\* Rows carry envelopes that OlmClient knows: a packet under its own id.
LEMMA CarriedEnvelope ==
  ASSUME MailState, NEW row \in StoredRows
  PROVE  VerifiedEnvelope(row) \in CP!Envelopes
  BY StoredRowFacts, Zenon DEF VerifiedEnvelope, CP!Envelopes

\* Every step is a step of the clients, with envelopes that the relay carried.
LEMMA ClientStep ==
  ASSUME MailState, [Next]_vars
  PROVE  [CP!Next]_(CP!vars)
<1> USE DEF olm
<1>1. ASSUME UNCHANGED <<olm, clock>> PROVE UNCHANGED CP!vars
  BY <1>1, Zenon DEF CP!vars, CP!clients
<1>2. ASSUME NEW c \in Client, RegisterMailbox(c) \/ FetchMail(c) \/ CloseMailbox(c)
      PROVE UNCHANGED CP!vars
  BY <1>1, <1>2, Zenon DEF RegisterMailbox, FetchMail, CloseMailbox
<1>3. ASSUME NEW c \in Client, Sending(c) \/ Verifying(c) \/ Acking(c)
      PROVE UNCHANGED CP!vars
  BY <1>1, <1>3, Zenon DEF Sending, Send, Verifying, VerifyMail, Acking, SendAck
<1>4. ASSUME Redeliver \/ Purge \/ UNCHANGED vars PROVE UNCHANGED CP!vars
  BY <1>1, <1>4 DEF Redeliver, Purge, vars
<1>5. ASSUME NEW c \in Client, ExportBundle(c) PROVE CP!Next
  BY <1>5, ClockType, SameContacts, Zenon DEF ExportBundle, CP!Next
<1>6. ASSUME NEW c \in Client, VerifyBundle(c) PROVE CP!Next
  BY <1>6, SameContacts, Zenon DEF VerifyBundle, CP!Next
<1>7. ASSUME NEW c \in Client, StartSession(c) PROVE CP!Next
  BY <1>7, SameSessions, Zenon DEF StartSession, CP!Next
<1>8. ASSUME NEW c \in Client, Compose(c) PROVE CP!Next
  BY <1>8, SameSessions, Zenon DEF Compose, C!PayloadVersion, CP!Next
<1>9. ASSUME NEW c \in Client, Opening(c) PROVE CP!Next
  <2>1. PICK row \in envelopes[c] : OpenMail(c, row)
    BY <1>9, Zenon DEF Opening
  <2>2. VerifiedEnvelope(row) \in CP!Envelopes
    BY <2>1, CarriedEnvelope, Zenon DEF MailState, MailInv, BoxInv, RowInv, HeldInv
  <2>3. \/ \E sender \in verified[c] : CP!OpenInitial(c, VerifiedEnvelope(row), sender)
        \/ CP!Open(c, VerifiedEnvelope(row))
    BY <2>1, SameSessions, Zenon DEF OpenMail
  <2> QED
    BY <2>2, <2>3, Zenon DEF CP!Next
<1>10. ASSUME NEW c \in Client, Restart(c) PROVE CP!Next
  BY <1>10, SameContacts, Zenon DEF Restart, CP!Next
<1>11. ASSUME Tick PROVE CP!Next
  BY <1>11, SameContacts, Zenon DEF Tick, CP!Next
<1> QED
  BY <1>2, <1>3, <1>4, <1>5, <1>6, <1>7, <1>8, <1>9, <1>10, <1>11, MessengerAssumption, Zenon
  DEF Next

\* The clients keep their invariant.
LEMMA ClientsKept ==
  ASSUME MailState, CP!ClientInv, [Next]_vars
  PROVE  CP!ClientInv'
  BY ClientStep, CP!NextKeeps, ClientsAssumption, Zenon DEF CP!ClientAssumption

-----------------------------------------------------------------------------
(* One lemma for each action of the clients.                               *)

\* prekey_bundle, verify_peer and a passing second
LEMMA ContactsKeepMail ==
  ASSUME MailState, CP!ClientInv, Tick \/ \E c \in Client : ExportBundle(c) \/ VerifyBundle(c)
  PROVE  MailInv'
<1>1. /\ UNCHANGED <<relay, mail, losses, shown, packets, session>>
      /\ bundles \subseteq bundles'
  BY Zenon DEF Tick, ExportBundle, VerifyBundle, C!Tick, C!PrekeyBundle, C!VerifyPeer, C!clients
<1>2. ASSUME NEW d \in Client PROVE account'[d].identity = account[d].identity
  <2>1. DOMAIN account = Client
    BY DEF CP!ClientInv, CP!TypeOK
  <2>2. CASE UNCHANGED account
    BY <2>2, Zenon
  <2>3. ASSUME NEW c \in Client, ExportBundle(c) PROVE account'[d].identity = account[d].identity
    BY <2>1, <2>3, Zenon DEF ExportBundle, C!PrekeyBundle
  <2> QED
    BY <2>2, <2>3, Zenon DEF Tick, VerifyBundle, C!Tick, C!VerifyPeer, C!clients
<1> QED
  BY <1>1, <1>2, BoxesKept, SecretsKept, Zenon DEF MailInv, mail

\* start_outbound_session: the secret is made from a verified bundle
LEMMA StartSessionKeepsMail ==
  ASSUME MailState, CP!ClientInv, NEW c \in Client, StartSession(c)
  PROVE  MailInv'
<1>1. PICK peer \in verified[c] : C!StartOutboundSession(c, peer)
  BY DEF StartSession
<1> DEFINE secret == [initiator |-> account[c].identity, responder |-> peer.identity,
                      one_time_key |-> peer.one_time_key]
<1>2. /\ session' = [session EXCEPT ![c] = C!Session(secret, {}, peer)]
      /\ UNCHANGED <<relay, mail, losses, shown, account, packets, bundles>>
  BY <1>1, Zenon DEF StartSession, C!StartOutboundSession
<1>3. C!Session(secret, {}, peer).secret = secret /\ C!Session(secret, {}, peer).received = {}
  BY Zenon DEF C!Session
<1>4. peer \in bundles /\ DOMAIN session = Client
  BY Zenon DEF CP!ClientInv, CP!TypeOK, CP!BundleInv
<1>5. KeyInv(secret)
  BY <1>4, Zenon DEF KeyInv
<1>6. SecretInv'
  <2>1. \A s : KeyInv(s)' = KeyInv(s) /\ Answers(s)' = Answers(s)
    BY <1>2, Zenon DEF KeyInv, Answers
  <2>2. /\ session'[c].secret = secret /\ session'[c].received = {}
        /\ \A d \in Client \ {c} : session'[d] = session[d]
    BY <1>2, <1>3, <1>4, Zenon
  <2> HIDE DEF secret
  <2> QED
    BY <1>2, <1>5, <2>1, <2>2, Zenon DEF MailState, MailInv, SecretInv, SessionSecret
<1>7. BoundInv'
  BY <1>2, Zenon DEF MailState, MailInv, BoundInv
<1> QED
  BY <1>2, <1>6, <1>7, BoxesKept, Zenon DEF MailInv, mail

\* What seal makes.
LEMMA SealedFacts ==
  ASSUME MailState, CP!ClientInv, NEW c \in Client, Compose(c)
  PROVE  LET s0 == session[c]
             sealed == C!Sealed(c, C!PayloadVersion) IN
         /\ s0 \in CP!SessionState /\ CP!SessionInv(c) /\ s0 # C!NoSession
         /\ sealed \in C!Packet /\ sealed.secret = s0.secret /\ sealed.from = CP!Me(c)
         /\ sealed.message_id = <<CP!Me(c), s0.sent>>
         /\ ~sealed.prekey => s0.secret.initiator # CP!Me(c) \/ s0.received # {}
         /\ packets' = packets \cup {sealed} /\ s0.sent < MaxSeals
         /\ CP!Me(c) \in C!Identity
<1> DEFINE s0 == session[c]
           sealed == C!Sealed(c, C!PayloadVersion)
<1>0. C!NoSession = CP!NoSession
  BY DEF C!NoSession, CP!NoSession
<1>1. C!Seal(c, C!PayloadVersion)
  BY DEF Compose
<1>2. s0 # C!NoSession /\ s0 \in CP!SessionState /\ CP!SessionInv(c) /\ s0.sent < MaxSeals
      /\ packets' = packets \cup {sealed}
  BY <1>0, <1>1, Zenon DEF C!Seal, CP!ClientInv, CP!TypeOK, CP!SessionState
<1>3. /\ CP!Me(c) \in C!Identity /\ conversation_id[c] \in Conversation
      /\ s0.secret \in C!Secret /\ s0.sent \in Nat
  BY <1>2, Zenon DEF CP!ClientInv, CP!TypeOK, CP!SessionState, CP!Me, CP!Identity,
              C!Identity, C!Secret, CP!Secret, CP!Random, C!Random
<1>4. sealed.prekey \in BOOLEAN
  BY DEF C!Sealed
<1>5. /\ sealed.secret = s0.secret /\ sealed.from = CP!Me(c)
      /\ sealed.message_id = <<CP!Me(c), s0.sent>>
      /\ ~sealed.prekey => s0.secret.initiator # CP!Me(c) \/ s0.received # {}
  BY Zenon DEF C!Sealed, CP!Me
<1>6. sealed \in C!Packet
  BY <1>3, <1>4, Zenon DEF C!Sealed, C!Packet, C!Random, C!PayloadVersion, CP!Me
<1> QED
  BY <1>2, <1>3, <1>5, <1>6, Zenon

\* The request that is signed for it is new, and goes to the peer of the session.
LEMMA ComposedRequest ==
  ASSUME MailState, CP!ClientInv, NEW c \in Client, Compose(c), NEW req,
         req = Authorize(session[c].peer.identity[1], C!Sealed(c, C!PayloadVersion),
                         clock + Lifetime)
  PROVE  /\ req \in R!SendRequest /\ RequestInv(req)'
         /\ \A r \in Requests : r.message_id # req.message_id
<1>0. PICK s0, sealed, to :
        /\ s0 = session[c] /\ sealed = C!Sealed(c, C!PayloadVersion)
        /\ to = s0.peer.identity[1]
  BY Zenon
<1>1. /\ s0 \in CP!SessionState /\ CP!SessionInv(c) /\ s0 # CP!NoSession
      /\ sealed \in C!Packet /\ sealed.secret = s0.secret /\ sealed.from = CP!Me(c)
      /\ sealed.message_id = <<CP!Me(c), s0.sent>> /\ sealed \in packets'
  BY <1>0, SealedFacts, Zenon DEF C!NoSession, CP!NoSession
<1>2. /\ s0.peer.identity \in CP!Ends(s0.secret) /\ to \in Client /\ to # c /\ CP!Me(c)[1] = c
  BY <1>0, <1>1, Zenon DEF CP!SessionInv, CP!Past, CP!Identity, CP!Ends, CP!ClientInv
<1>3. /\ req.queue_id = to /\ req.packet = sealed /\ req.message_id = sealed.message_id
      /\ req.expires_at = clock + Lifetime /\ req.signature = <<to, "send">>
  BY <1>0, Zenon DEF Authorize
<1>4. sealed.message_id \in C!Random
  BY <1>1, Zenon DEF C!Packet
<1>5. <<to, "send">> \in Client \X Role
  BY <1>2 DEF Role
<1>6. req \in R!SendRequest
  BY <1>0, <1>1, <1>2, <1>4, <1>5, ClockType, Zenon DEF Authorize, R!SendRequest, R!Timestamp
<1>7. clock + Lifetime <= MaxClock + Lifetime
  BY ClockType, MessengerAssumption
<1>8. RequestInv(req)'
  BY <1>0, <1>1, <1>2, <1>3, <1>7, Zenon DEF RequestInv, EndsOf, CP!Ends
<1>9. ASSUME NEW r \in Requests PROVE r.message_id # sealed.message_id
  <2>1. r.packet \in packets /\ r.message_id = r.packet.message_id
    BY Zenon DEF MailState, MailInv, BoxInv, RequestInv
  <2> QED
    BY <1>0, <1>1, <2>1, CP!NextIdFresh, ClientsAssumption, Zenon DEF CP!ClientAssumption
<1> QED
  BY <1>3, <1>6, <1>8, <1>9, Zenon

\* seal: the packet, its secret and the request signed for it
LEMMA ComposeKeepsMail ==
  ASSUME MailState, CP!ClientInv, NEW c \in Client, Compose(c)
  PROVE  MailInv'
<1>0. PICK s0, sealed, req :
        /\ s0 = session[c] /\ sealed = C!Sealed(c, C!PayloadVersion)
        /\ req = Authorize(session[c].peer.identity[1], sealed, clock + Lifetime)
  BY Zenon
<1>1. /\ outbox' = [outbox EXCEPT ![c] = @ \cup {req}]
      /\ UNCHANGED <<relay, inbox, opened, losses, account, bundles, shown>>
      /\ session' = [session EXCEPT ![c].sent = @ + 1]
  BY <1>0 DEF Compose, C!Seal
<1>2. /\ req \in R!SendRequest /\ RequestInv(req)'
      /\ \A r \in Requests : r.message_id # req.message_id
  BY <1>0, ComposedRequest, Zenon
<1>3. /\ s0 \in CP!SessionState /\ CP!SessionInv(c) /\ s0 # C!NoSession
      /\ sealed.secret = s0.secret /\ sealed.from = CP!Me(c)
      /\ sealed.message_id = <<CP!Me(c), s0.sent>>
      /\ ~sealed.prekey => s0.secret.initiator # CP!Me(c) \/ s0.received # {}
      /\ packets' = packets \cup {sealed} /\ s0.sent < MaxSeals /\ CP!Me(c) \in C!Identity
  BY <1>0, SealedFacts, Zenon
<1>4. BoxInv'
  <2>0. /\ outbox' \in [Client -> SUBSET R!SendRequest] /\ outbox'[c] = outbox[c] \cup {req}
        /\ \A d \in Client \ {c} : outbox'[d] = outbox[d]
    BY <1>1, <1>2, BoxTypes, BoxUpdated, Zenon
  <2>1. Requests' = Requests \cup {req} /\ outbox' \in [Client -> SUBSET R!SendRequest]
    BY <1>1, <2>0, RequestsGrow, Zenon DEF relay
  <2>2. ASSUME NEW r \in Requests PROVE RequestInv(r)'
    BY <1>3, Zenon DEF MailState, MailInv, BoxInv, RequestInv
  <2>3. UniqueRequests'
    BY <1>2, <2>1, Zenon DEF MailState, MailInv, BoxInv, UniqueRequests
  <2>4. RowInv' /\ MailboxInv'
    BY <1>1 DEF MailState, MailInv, BoxInv, RowInv, MailboxInv, StoredRows, Seen, relay
  <2> QED
    BY <1>1, <1>2, <2>1, <2>2, <2>3, <2>4, Zenon DEF MailState, MailInv, BoxInv, relay
<1>5. /\ session'[c] # C!NoSession /\ session'[c].secret = s0.secret
      /\ session'[c].received = s0.received
      /\ \A d \in Client \ {c} : session'[d] = session[d]
  <2>1. /\ session'[c] = [s0 EXCEPT !.sent = @ + 1]
        /\ \A d \in Client \ {c} : session'[d] = session[d]
    BY <1>0, <1>1, Zenon DEF CP!ClientInv, CP!TypeOK
  <2>2. session'[c].secret = s0.secret /\ session'[c].received = s0.received
    BY <1>3, <2>1, Zenon DEF CP!SessionState
  <2>3. "received" \in DOMAIN session'[c] /\ "received" \notin DOMAIN C!NoSession
    BY <1>3, <2>1, Zenon DEF CP!SessionState, C!NoSession
  <2> QED
    BY <2>1, <2>2, <2>3, Zenon
<1>6. SecretInv'
  <2>1. \A s : (KeyInv(s) => KeyInv(s)') /\ (Answers(s) => Answers(s)')
    BY <1>1, <1>3, SecretKept, Zenon
  <2>2. /\ KeyInv(s0.secret)
        /\ s0.secret.initiator = CP!Me(c) /\ s0.received # {} => Answers(s0.secret)
    BY <1>0, <1>3, Zenon DEF MailState, MailInv, SecretInv, SessionSecret, CP!Me
  <2>3. ASSUME NEW p \in packets'
        PROVE  /\ KeyInv(p.secret)'
               /\ p.from = p.secret.initiator /\ ~p.prekey => Answers(p.secret)'
    <3>1. CASE p = sealed
      BY <1>3, <2>1, <2>2, <3>1, Zenon
    <3>2. CASE p \in packets
      BY <2>1, <3>2, Zenon DEF MailState, MailInv, SecretInv, SessionSecret
    <3> QED
      BY <1>3, <3>1, <3>2, Zenon
  <2>4. ASSUME NEW d \in Client PROVE SessionSecret(d)'
    <3>1. CASE d = c
      BY <1>1, <1>5, <2>1, <2>2, <3>1, Zenon DEF SessionSecret, CP!Me
    <3>2. CASE d # c
      BY <1>1, <1>5, <2>1, <3>2, Zenon DEF MailState, MailInv, SecretInv, SessionSecret
    <3> QED
      BY <3>1, <3>2, Zenon
  <2> QED
    BY <2>3, <2>4, Zenon DEF SecretInv
<1>7. BoundInv'
  <2>1. sealed.message_id \in MessageIds
    <3>1. CP!Me(c)[2] <= MaxRestarts
      BY Zenon DEF MailState, MailInv, BoundInv, CP!Me
    <3>2. CP!Me(c) \in Client \X (0..MaxRestarts)
      BY <1>3, <3>1, MessengerAssumption DEF C!Identity
    <3>3. s0.sent \in 0..(MaxSeals - 1)
      BY <1>3, MessengerAssumption DEF CP!SessionState
    <3> QED
      BY <1>3, <3>2, <3>3 DEF MessageIds
  <2> QED
    BY <1>1, <1>3, <2>1, Zenon DEF MailState, MailInv, BoundInv, MessageIds
<1> QED
  BY <1>4, <1>6, <1>7, Zenon DEF MailInv

\* commit_display adds one message to what the user has seen.
LEMMA SeenGrows ==
  ASSUME MailState, CP!ClientInv, NEW c \in Client, NEW p \in packets,
         shown' = [shown EXCEPT ![c] = Append(@, p)],
         NEW d \in Client, NEW id
  PROVE  Seen(d, id)' <=> Seen(d, id) \/ (d = c /\ id = p.message_id)
<1>1. shown \in [Client -> Seq(CP!Packet)] /\ p \in CP!Packet
  BY Zenon DEF CP!ClientInv, CP!TypeOK
<1>2. CASE d # c
  <2>1. shown'[d] = shown[d]
    BY <1>1, <1>2, Zenon
  <2> QED
    BY <1>2, <2>1, Zenon DEF Seen
<1>3. CASE d = c
  <2>1. shown'[c] = Append(shown[c], p) /\ shown[c] \in Seq(CP!Packet)
    BY <1>1, Zenon
  <2>2. /\ DOMAIN shown'[c] = DOMAIN shown[c] \cup {Len(shown[c]) + 1}
        /\ \A i \in DOMAIN shown[c] : shown'[c][i] = shown[c][i]
        /\ shown'[c][Len(shown[c]) + 1] = p
    BY <1>1, <2>1, CP!AppendFacts
  <2> QED
    BY <1>3, <2>2, Zenon DEF Seen
<1> QED
  BY <1>2, <1>3, Zenon

\* open_initial that succeeds makes the responder's end of the packet's secret.
LEMMA OpenInitialSecret ==
  ASSUME MailState, CP!ClientInv, NEW c \in Client, NEW row \in StoredRows,
         NEW sender \in verified[c],
         C!OpenInitial(c, VerifiedEnvelope(row), sender),
         C!OpenInitialOutcome(c, VerifiedEnvelope(row), sender, clock) = "Opened"
  PROVE  /\ shown' = [shown EXCEPT ![c] = Append(@, row.ciphertext)]
         /\ UNCHANGED <<bundles, packets, clock, conversation_id, verified>>
         /\ \A d \in Client : account'[d].identity = account[d].identity
         /\ SecretInv'
<1>0. PICK p : p = row.ciphertext
  BY Zenon
<1>1. VerifiedEnvelope(row).packet = p
  BY <1>0, Zenon DEF VerifiedEnvelope
<1>2. p.secret.initiator = sender.identity
  BY <1>1, Zenon DEF C!OpenInitialOutcome, C!CreatesInbound
<1>3. /\ account' = [account EXCEPT ![c].one_time_keys = C!WithoutKey(@, p.secret.one_time_key)]
      /\ session' = [session EXCEPT ![c] = C!Session(p.secret, {p.index}, sender)]
      /\ shown' = [shown EXCEPT ![c] = Append(@, p)]
      /\ UNCHANGED <<bundles, packets, clock, conversation_id, verified>>
  BY <1>1 DEF C!OpenInitial, C!Display
<1>4. /\ account \in [Client -> CP!Account] /\ DOMAIN session = Client
      /\ CP!Me(c)[1] = c /\ sender.identity[1] # c
  BY Zenon DEF CP!ClientInv, CP!TypeOK, CP!Account, CP!BundleInv
<1>5. ASSUME NEW d \in Client PROVE account'[d].identity = account[d].identity
  <2>1. CASE d = c
    <3>1. account'[c] = [account[c] EXCEPT
            !.one_time_keys = C!WithoutKey(@, p.secret.one_time_key)]
      BY <1>3, <1>4, Zenon
    <3> QED
      BY <1>4, <2>1, <3>1, Zenon DEF CP!Account
  <2>2. CASE d # c
    BY <1>3, <1>4, <2>2, Zenon
  <2> QED
    BY <2>1, <2>2, Zenon
<1>6. /\ session'[c].secret = p.secret
      /\ \A d \in Client \ {c} : session'[d] = session[d]
  BY <1>3, <1>4, Zenon DEF C!Session
<1>7. p \in packets
  BY <1>0, StoredRowFacts
<1>8. \A s : (KeyInv(s) => KeyInv(s)') /\ (Answers(s) => Answers(s)')
  BY <1>3, SecretKept, Zenon
<1>9. ASSUME NEW d \in Client PROVE SessionSecret(d)'
  <2>1. CASE d = c
    <3>1. KeyInv(p.secret)
      BY <1>7, Zenon DEF MailState, MailInv, SecretInv
    <3>2. session'[c].secret.initiator # account'[c].identity
      BY <1>2, <1>4, <1>5, <1>6, Zenon DEF CP!Me
    <3> QED
      BY <1>6, <1>8, <2>1, <3>1, <3>2, Zenon DEF SessionSecret
  <2>2. CASE d # c
    BY <1>5, <1>6, <1>8, <2>2, Zenon DEF MailState, MailInv, SecretInv, SessionSecret
  <2> QED
    BY <2>1, <2>2, Zenon
<1>10. SecretInv'
  BY <1>3, <1>8, <1>9, Zenon DEF MailState, MailInv, SecretInv
<1> QED
  BY <1>0, <1>3, <1>5, <1>10, Zenon

\* open that succeeds has heard from the other end.
LEMMA OpenSecret ==
  ASSUME MailState, CP!ClientInv, NEW c \in Client, NEW row \in StoredRows,
         C!Open(c, VerifiedEnvelope(row)),
         C!OpenOutcome(c, VerifiedEnvelope(row), clock) = "Opened"
  PROVE  /\ shown' = [shown EXCEPT ![c] = Append(@, row.ciphertext)]
         /\ UNCHANGED <<bundles, packets, clock, conversation_id, verified>>
         /\ \A d \in Client : account'[d].identity = account[d].identity
         /\ SecretInv'
<1>0. PICK p, s0 : p = row.ciphertext /\ s0 = session[c]
  BY Zenon
<1>1. VerifiedEnvelope(row).packet = p
  BY <1>0 DEF VerifiedEnvelope
<1>2. s0 # C!NoSession /\ p.secret = s0.secret /\ p.from # CP!Me(c)
  BY <1>0, <1>1, Zenon DEF C!OpenOutcome, C!Decrypts, CP!Me
<1>3. /\ session' = [session EXCEPT ![c].received = @ \cup {p.index}]
      /\ shown' = [shown EXCEPT ![c] = Append(@, p)]
      /\ UNCHANGED <<account, bundles, packets, clock, conversation_id, verified>>
  BY <1>1 DEF C!Open, C!Display, C!Ratcheted
<1>4. C!NoSession = CP!NoSession
  BY DEF C!NoSession, CP!NoSession
<1>5. s0 \in CP!SessionState
  BY <1>0, <1>2, <1>4, Zenon DEF CP!ClientInv, CP!TypeOK, CP!SessionState
<1>6. /\ session'[c] = [s0 EXCEPT !.received = @ \cup {p.index}]
      /\ \A d \in Client \ {c} : session'[d] = session[d]
  BY <1>0, <1>3 DEF CP!ClientInv, CP!TypeOK
<1>7. session'[c].secret = s0.secret
  BY <1>5, <1>6, Zenon DEF CP!SessionState
<1>8. p \in packets
  BY <1>0, StoredRowFacts, Zenon
<1>9. \A s : (KeyInv(s) => KeyInv(s)') /\ (Answers(s) => Answers(s)')
  BY <1>3, SecretKept, Zenon
<1>10. ASSUME NEW d \in Client PROVE SessionSecret(d)'
  <2>1. CASE d = c
    <3>1. KeyInv(s0.secret)
      BY <1>0, <1>2, Zenon DEF MailState, MailInv, SecretInv, SessionSecret
    <3>2. s0.secret.initiator = CP!Me(c) => Answers(s0.secret)
      <4>1. p.from \in CP!Ends(p.secret)
        BY <1>8, Zenon DEF CP!ClientInv, CP!PacketInv
      <4> QED
        BY <1>2, <1>8, <4>1, Zenon DEF CP!Ends, Answers
    <3> QED
      BY <1>3, <1>7, <1>9, <2>1, <3>1, <3>2, Zenon DEF SessionSecret, CP!Me
  <2>2. CASE d # c
    BY <1>3, <1>6, <1>9, <2>2, Zenon DEF MailState, MailInv, SecretInv, SessionSecret
  <2> QED
    BY <2>1, <2>2, Zenon
<1>11. SecretInv'
  BY <1>3, <1>9, <1>10, Zenon DEF MailState, MailInv, SecretInv
<1> QED
  BY <1>0, <1>3, <1>11, Zenon

\* verify_envelope moves no mail.
LEMMA VerifyMailKeepsMail ==
  ASSUME MailState, NEW c \in Client, NEW row \in inbox[c], VerifyMail(c, row)
  PROVE  MailInv'
  BY BoxesKept, SecretsKept, Zenon DEF VerifyMail, MailInv, olm

\* Opening either refuses the envelope, and nothing changes, or displays its
\* packet.
LEMMA OpenMailCases ==
  ASSUME MailState, CP!ClientInv, NEW c \in Client, NEW row \in envelopes[c], OpenMail(c, row)
  PROVE  /\ row \in StoredRows /\ row.queue_id = c /\ row \in inbox[c]
         /\ UNCHANGED <<relay, outbox, losses, clock>>
         /\ \/ UNCHANGED <<olm, mail>>
            \/ /\ shown' = [shown EXCEPT ![c] = Append(@, row.ciphertext)]
               /\ UNCHANGED <<bundles, packets>> /\ clock < row.expires_at
               /\ \A d \in Client : account'[d].identity = account[d].identity
               /\ SecretInv'
               /\ \/ UNCHANGED <<inbox, opened>>
                  \/ /\ inbox' = [inbox EXCEPT ![c] = @ \ {row}]
                     /\ opened' = [opened EXCEPT ![c] = @ \cup {row}]
<1>1. row \in StoredRows /\ row.queue_id = c /\ row \in inbox[c]
  BY Zenon DEF MailState, MailInv, BoxInv, RowInv, HeldInv
<1>2. /\ UNCHANGED <<relay, outbox, losses>>
      /\ \/ UNCHANGED <<inbox, envelopes, opened>>
         \/ /\ shown' # shown
            /\ inbox' = [inbox EXCEPT ![c] = @ \ {row}]
            /\ opened' = [opened EXCEPT ![c] = @ \cup {row}]
  BY Zenon DEF OpenMail
<1> clock \in Nat /\ row.expires_at \in Nat
  BY <1>1, ClockType, StoredRowFacts, Zenon
<1> VerifiedEnvelope(row).expires_at = row.expires_at
  BY Zenon DEF VerifiedEnvelope
<1>3. CASE \E sender \in verified[c] : C!OpenInitial(c, VerifiedEnvelope(row), sender)
  <2>1. PICK sender \in verified[c] : C!OpenInitial(c, VerifiedEnvelope(row), sender)
    BY <1>3, Zenon
  <2>2. CASE C!OpenInitialOutcome(c, VerifiedEnvelope(row), sender, clock) = "Opened"
    <3>1. ~(row.expires_at <= clock)
      BY <2>2, Zenon DEF C!OpenInitialOutcome
    <3>2. clock < row.expires_at
      BY <3>1
    <3> QED
      BY <1>1, <1>2, <2>1, <2>2, <3>2, OpenInitialSecret, Zenon
  <2>3. CASE C!OpenInitialOutcome(c, VerifiedEnvelope(row), sender, clock) # "Opened"
    <3>1. UNCHANGED <<olm, clock>>
      BY <2>1, <2>3, Zenon DEF C!OpenInitial, C!Refused, olm
    <3> QED
      BY <1>1, <1>2, <3>1, Zenon DEF olm, mail
  <2> QED
    BY <2>2, <2>3, Zenon
<1>4. CASE C!Open(c, VerifiedEnvelope(row))
  <2>1. CASE C!OpenOutcome(c, VerifiedEnvelope(row), clock) = "Opened"
    <3>1. ~(row.expires_at <= clock)
      BY <2>1, Zenon DEF C!OpenOutcome
    <3>2. clock < row.expires_at
      BY <3>1
    <3> QED
      BY <1>1, <1>2, <1>4, <2>1, <3>2, OpenSecret, Zenon
  <2>2. CASE C!OpenOutcome(c, VerifiedEnvelope(row), clock) # "Opened"
    <3>1. UNCHANGED <<olm, clock>>
      BY <1>4, <2>2, Zenon DEF C!Open, olm
    <3> QED
      BY <1>1, <1>2, <3>1, Zenon DEF olm, mail
  <2> QED
    BY <2>1, <2>2, Zenon
<1> QED
  BY <1>3, <1>4, Zenon DEF OpenMail

\* open and open_initial: an envelope is opened when its packet was displayed
LEMMA OpenMailKeepsMail ==
  ASSUME MailState, CP!ClientInv, NEW c \in Client, NEW row \in envelopes[c], OpenMail(c, row)
  PROVE  MailInv'
<1>1. CASE UNCHANGED <<olm, mail>>
  <2>1. UNCHANGED <<relay, outbox, inbox, opened, losses, shown>> /\ packets' = packets
    BY <1>1, OpenMailCases, Zenon DEF olm, mail
  <2> QED
    BY <1>1, <2>1, BoxesKept, SecretsKept, Zenon DEF MailInv, olm
<1>2. CASE ~UNCHANGED <<olm, mail>>
  <2>0. PICK p : p = row.ciphertext
    OBVIOUS
  <2>1. /\ shown' = [shown EXCEPT ![c] = Append(@, p)] /\ SecretInv'
        /\ UNCHANGED <<bundles, packets, relay, outbox, losses>>
        /\ \A d \in Client : account'[d].identity = account[d].identity
        /\ row \in StoredRows /\ row.queue_id = c
        /\ \/ UNCHANGED <<inbox, opened>>
           \/ /\ inbox' = [inbox EXCEPT ![c] = @ \ {row}]
              /\ opened' = [opened EXCEPT ![c] = @ \cup {row}]
    BY <1>2, <2>0, OpenMailCases, Zenon
  <2>2. p \in packets /\ row.message_id = p.message_id
    BY <2>0, <2>1, StoredRowFacts, Zenon
  <2>3. \A d \in Client : \A id :
          Seen(d, id)' <=> Seen(d, id) \/ (d = c /\ id = p.message_id)
    BY <2>1, <2>2, SeenGrows, Zenon
  <2>4. row \in R!Message
    BY OpenMailCases, BoxTypes, Zenon
  <2>5. /\ inbox' \in [Client -> SUBSET R!Message] /\ opened' \in [Client -> SUBSET R!Message]
        /\ \A d \in Client : /\ inbox'[d] \subseteq inbox[d]
                             /\ opened'[d] \subseteq opened[d] \cup {r \in {row} : d = c}
    <3>1. CASE UNCHANGED <<inbox, opened>>
      BY <3>1, BoxTypes, Zenon
    <3>2. CASE /\ inbox' = [inbox EXCEPT ![c] = @ \ {row}]
               /\ opened' = [opened EXCEPT ![c] = @ \cup {row}]
      <4>1. /\ inbox' \in [Client -> SUBSET R!Message] /\ inbox'[c] = inbox[c] \ {row}
            /\ \A d \in Client \ {c} : inbox'[d] = inbox[d]
        BY <2>4, <3>2, BoxTypes, BoxUpdated, Zenon
      <4>2. /\ opened' \in [Client -> SUBSET R!Message] /\ opened'[c] = opened[c] \cup {row}
            /\ \A d \in Client \ {c} : opened'[d] = opened[d]
        BY <2>4, <3>2, BoxTypes, BoxUpdated, Zenon
      <4> QED
        BY <4>1, <4>2, Zenon
    <3> QED
      BY <2>1, <3>1, <3>2, Zenon
  <2>6. RowInv'
    <3>1. StoredRows' = StoredRows /\ messages' = messages
      BY <2>1, Zenon DEF StoredRows, relay
    <3>2. RowInv
      BY DEF MailState, MailInv, BoxInv
    <3>3. ASSUME NEW d \in Client, NEW r \in inbox'[d] \cup opened'[d]
          PROVE  r \in StoredRows /\ r.queue_id = d
      <4>1. r \in inbox[d] \cup opened[d] \/ (r = row /\ d = c)
        BY <2>5, <3>3, Zenon
      <4> QED
        BY <2>1, <3>2, <4>1, Zenon DEF RowInv
    <3>4. ASSUME NEW d \in Client, NEW r \in opened'[d] PROVE Seen(d, r.message_id)'
      <4>1. r \in opened[d] \/ (r = row /\ d = c)
        BY <2>5, <3>4, Zenon
      <4> QED
        BY <2>2, <2>3, <3>2, <4>1, Zenon DEF RowInv
    <3>5. messages \subseteq StoredRows
      BY <3>2, Zenon DEF RowInv
    <3> QED
      BY <3>1, <3>3, <3>4, <3>5, Zenon DEF RowInv
  <2>7. Requests' \subseteq Requests
    BY <2>1, RequestsGrow, Zenon DEF relay
  <2>8. (\A req \in Requests : RequestInv(req))' /\ UniqueRequests'
    BY <2>1, <2>7, RequestsKept, Zenon
  <2>9. MailboxInv' /\ BoundInv'
    BY <2>1, Zenon DEF MailState, MailInv, BoxInv, MailboxInv, BoundInv, relay
  <2> QED
    BY <2>1, <2>5, <2>6, <2>8, <2>9, Zenon DEF MailState, MailInv, BoxInv, relay
<1> QED
  BY <1>1, <1>2, Zenon

\* A restart forgets what was under way; what was stored stays what it is.
LEMMA RestartKeepsMail ==
  ASSUME MailState, CP!ClientInv, NEW c \in Client, Restart(c)
  PROVE  MailInv'
<1>1. /\ account[c].identity[2] < MaxRestarts
      /\ account' = [account EXCEPT ![c] =
           [identity |-> <<c, account[c].identity[2] + 1>>, one_time_keys |-> <<>>, exported |-> 0]]
      /\ session' = [session EXCEPT ![c] = C!NoSession]
      /\ UNCHANGED <<relay, losses, bundles, packets, shown>>
      /\ outbox' = [outbox EXCEPT ![c] = {}] /\ inbox' = [inbox EXCEPT ![c] = {}]
      /\ opened' = [opened EXCEPT ![c] = {}]
  BY Zenon DEF Restart, C!Restart
<1>2. /\ outbox' \in [Client -> SUBSET R!SendRequest]
      /\ inbox' \in [Client -> SUBSET R!Message] /\ opened' \in [Client -> SUBSET R!Message]
      /\ \A d \in Client : /\ outbox'[d] \subseteq outbox[d] /\ inbox'[d] \subseteq inbox[d]
                           /\ opened'[d] \subseteq opened[d]
  BY <1>1, BoxTypes, Zenon
<1>3. Requests' \subseteq Requests
  BY <1>1, <1>2, RequestsGrow, Zenon DEF relay
<1>4. (\A req \in Requests : RequestInv(req))' /\ UniqueRequests'
  BY <1>1, <1>3, RequestsKept, Zenon
<1>5. RowInv' /\ MailboxInv'
  <2>1. RowInv /\ MailboxInv
    BY Zenon DEF MailState, MailInv, BoxInv
  <2>2. /\ UNCHANGED <<messages, mailboxes, StoredRows>>
        /\ \A d \in Client : \A id : Seen(d, id)' = Seen(d, id)
    BY <1>1 DEF StoredRows, Seen, relay
  <2>3. RowInv'
    BY <1>2, <2>1, <2>2, ZenonT(40) DEF RowInv
  <2>4. MailboxInv'
    BY <2>1, <2>2, Zenon DEF MailboxInv
  <2> QED
    BY <2>3, <2>4, Zenon
<1>6. BoxInv'
  BY <1>1, <1>2, <1>4, <1>5 DEF MailState, MailInv, BoxInv, relay
<1>7. /\ account \in [Client -> CP!Account] /\ DOMAIN session = Client
      /\ account[c].identity[2] \in Nat
  BY Zenon DEF CP!ClientInv, CP!TypeOK, CP!Account, CP!Identity
<1>8. /\ session'[c] = C!NoSession /\ account'[c].identity[2] = account[c].identity[2] + 1
      /\ \A d \in Client \ {c} : session'[d] = session[d] /\ account'[d] = account[d]
  BY <1>1, <1>7, Zenon
<1>9. SecretInv'
  <2>1. \A s : (KeyInv(s) => KeyInv(s)') /\ (Answers(s) => Answers(s)')
    BY <1>1, SecretKept, Zenon
  <2>2. C!NoSession' = C!NoSession
    BY DEF C!NoSession
  <2>3. ASSUME NEW d \in Client PROVE SessionSecret(d)'
    BY <1>8, <2>1, <2>2, Zenon DEF MailState, MailInv, SecretInv, SessionSecret
  <2> QED
    BY <1>1, <2>1, <2>3, Zenon DEF MailState, MailInv, SecretInv
<1>10. BoundInv'
  BY <1>1, <1>7, <1>8, MessengerAssumption DEF MailState, MailInv, BoundInv
<1> QED
  BY <1>6, <1>9, <1>10 DEF MailInv

\* Every step keeps what the mail in transit is.
LEMMA NextKeepsMail ==
  ASSUME MailState, CP!ClientInv, [Next]_vars
  PROVE  MailInv'
<1>1. ASSUME NEW c \in Client,
             \/ RegisterMailbox(c) \/ ExportBundle(c) \/ VerifyBundle(c)
             \/ Sending(c) \/ FetchMail(c) \/ Verifying(c) \/ Opening(c) \/ Acking(c)
      PROVE  MailInv'
  BY <1>1, RegisterMailboxKeepsMail, ContactsKeepMail, SendKeepsMail, FetchMailKeepsMail,
     VerifyMailKeepsMail, OpenMailKeepsMail, SendAckKeepsMail, Zenon
  DEF Sending, Verifying, Opening, Acking
<1>2. ASSUME NEW c \in Client,
             StartSession(c) \/ Compose(c) \/ Restart(c) \/ CloseMailbox(c)
      PROVE  MailInv'
  BY <1>2, StartSessionKeepsMail, ComposeKeepsMail, RestartKeepsMail, RelayAloneKeepsMail, Zenon
<1>3. CASE Redeliver \/ Purge \/ Tick
  BY <1>3, RelayAloneKeepsMail, ContactsKeepMail, Zenon
<1>4. CASE UNCHANGED vars
  <2>1. UNCHANGED <<relay, outbox, inbox, opened, losses, shown>> /\ packets' = packets
    BY <1>4 DEF vars, olm, mail
  <2> QED
    BY <1>4, <2>1, BoxesKept, SecretsKept, Zenon DEF MailInv, vars, olm
<1> QED
  BY <1>1, <1>2, <1>3, <1>4, MessengerAssumption, Zenon DEF Next

\* A client holds no envelope of a row that it has opened or forgotten.
LEMMA NextKeepsHeld ==
  ASSUME MailState, [Next]_vars
  PROVE  HeldInv'
<1>0. /\ envelopes \in [Client -> SUBSET R!Message] /\ inbox \in [Client -> SUBSET R!Message]
      /\ \A c \in Client : envelopes[c] \subseteq inbox[c]
  BY BoxTypes, Zenon DEF MailState, HeldInv
<1>1. ASSUME UNCHANGED <<inbox, envelopes>> PROVE HeldInv'
  BY <1>0, <1>1, Zenon DEF HeldInv
<1>2. ASSUME NEW c \in Client,
             \/ RegisterMailbox(c) \/ ExportBundle(c) \/ VerifyBundle(c) \/ StartSession(c)
             \/ Compose(c) \/ Sending(c) \/ Acking(c) \/ CloseMailbox(c)
      PROVE  HeldInv'
  BY <1>1, <1>2, Zenon DEF RegisterMailbox, ExportBundle, VerifyBundle, StartSession, Compose,
     Sending, Send, Acking, SendAck, CloseMailbox, mail
<1>3. ASSUME Redeliver \/ Purge \/ Tick \/ UNCHANGED vars PROVE HeldInv'
  BY <1>1, <1>3, Zenon DEF Redeliver, Purge, Tick, mail, vars
<1>4. ASSUME NEW c \in Client, FetchMail(c) PROVE HeldInv'
  <2>1. envelopes' = envelopes /\ \A d \in Client : inbox[d] \subseteq inbox'[d]
    BY <1>0, <1>4, Zenon DEF FetchMail, Answered
  <2> QED
    BY <1>0, <2>1, Zenon DEF HeldInv
<1>5. ASSUME NEW c \in Client, NEW row \in inbox[c], VerifyMail(c, row) PROVE HeldInv'
  <2>1. row \in R!Message /\ inbox' = inbox /\ envelopes' = [envelopes EXCEPT ![c] = @ \cup {row}]
    BY <1>0, <1>5, Zenon DEF VerifyMail
  <2>2. /\ envelopes' \in [Client -> SUBSET R!Message] /\ envelopes'[c] = envelopes[c] \cup {row}
        /\ \A d \in Client \ {c} : envelopes'[d] = envelopes[d]
    BY <1>0, <2>1, BoxUpdated, Zenon
  <2> QED
    BY <1>0, <2>1, <2>2, Zenon DEF HeldInv
<1>6. ASSUME NEW c \in Client, NEW row \in envelopes[c], OpenMail(c, row) PROVE HeldInv'
  <2>1. CASE UNCHANGED <<inbox, envelopes>>
    BY <1>1, <2>1, Zenon
  <2>2. CASE /\ inbox' = [inbox EXCEPT ![c] = @ \ {row}]
             /\ envelopes' = [envelopes EXCEPT ![c] = @ \ {row}]
    <3>1. /\ envelopes' \in [Client -> SUBSET R!Message] /\ envelopes'[c] = envelopes[c] \ {row}
          /\ \A d \in Client \ {c} : envelopes'[d] = envelopes[d]
      BY <1>0, <2>2, BoxUpdated, Zenon
    <3>2. /\ inbox'[c] = inbox[c] \ {row}
          /\ \A d \in Client \ {c} : inbox'[d] = inbox[d]
      BY <1>0, <2>2, BoxUpdated, Zenon
    <3> QED
      BY <1>0, <3>1, <3>2, Zenon DEF HeldInv
  <2> QED
    BY <1>6, <2>1, <2>2, Zenon DEF OpenMail
<1>7. ASSUME NEW c \in Client, Restart(c) PROVE HeldInv'
  <2>1. inbox' = [inbox EXCEPT ![c] = {}] /\ envelopes' = [envelopes EXCEPT ![c] = {}]
    BY <1>7, Zenon DEF Restart
  <2>2. /\ envelopes' \in [Client -> SUBSET R!Message]
        /\ \A d \in Client : envelopes'[d] = {} \/ (envelopes'[d] = envelopes[d] /\ d # c)
        /\ \A d \in Client \ {c} : inbox'[d] = inbox[d]
    BY <1>0, <2>1
  <2> QED
    BY <1>0, <2>2, Zenon DEF HeldInv
<1> QED
  BY <1>2, <1>3, <1>4, <1>5, <1>6, <1>7, MessengerAssumption, Zenon DEF Next, Verifying, Opening

-----------------------------------------------------------------------------
(* What is queued can be read.                                             *)

\* open_initial succeeds with the first packet of any session that a contact
\* made from one of the client's bundles.
LEMMA FirstReadable ==
  ASSUME MailState, CP!ClientInv, NEW row \in StoredRows, clock < row.expires_at,
         NEW c \in Client, row.queue_id = c, session[c] = C!NoSession,
         row.ciphertext.secret.responder = account[c].identity,
         row.ciphertext.conversation_id = conversation_id[c],
         row.message_id \notin displayed_messages[c],
         NEW sender \in Known(c, row.ciphertext.from)
  PROVE  C!OpenInitialOutcome(c, VerifiedEnvelope(row), sender, clock) = "Opened"
<1>0. PICK p, envelope : p = row.ciphertext /\ envelope = VerifiedEnvelope(row)
  BY Zenon
<1>1. /\ envelope.packet = p /\ envelope.message_id = row.message_id
      /\ envelope.expires_at = row.expires_at
  BY <1>0, Zenon DEF VerifiedEnvelope
<1>2. /\ p \in packets /\ row.message_id = p.message_id /\ p.from[1] # c
      /\ row.expires_at \in Nat /\ clock \in Nat
  BY <1>0, ClockType, StoredRowFacts, Zenon
<1>3. CP!PacketInv(p) /\ p \in CP!Packet /\ CP!Me(c)[1] = c
  BY <1>2, Zenon DEF CP!ClientInv, CP!TypeOK
<1>4. p # <<>>
  BY <1>3, CP!PacketNotEmpty, ClientsAssumption, Zenon DEF CP!ClientAssumption
<1>5. p.from = p.secret.initiator
  BY <1>0, <1>2, <1>3, Zenon DEF CP!PacketInv, CP!Ends, CP!Me
<1>6. p.prekey
  <2> SUFFICES ASSUME ~p.prekey PROVE FALSE
    BY Zenon
  <2>1. Answers(p.secret)
    BY <1>2, <1>5, Zenon DEF MailState, MailInv, SecretInv
  <2>2. PICK q \in packets : q.from = CP!Me(c)
    BY <1>0, <2>1, Zenon DEF Answers, CP!Me
  <2>3. session[c] # CP!NoSession
    BY <2>2, Zenon DEF CP!ClientInv, CP!PacketInv
  <2> QED
    BY <2>3, Zenon DEF C!NoSession, CP!NoSession
<1>7. CP!HasOneTimeKey(c, p.secret.one_time_key)
  <2>1. PICK b \in bundles : b.identity = p.secret.responder /\ b.one_time_key = p.secret.one_time_key
    BY <1>2, Zenon DEF MailState, MailInv, SecretInv, KeyInv
  <2>2. session[c] = CP!NoSession /\ b.identity = account[c].identity
    BY <1>0, <2>1, Zenon DEF C!NoSession, CP!NoSession
  <2>3. CP!RefusalKeepsOneTimeKey
    BY CP!LastKeysKept, ClientsAssumption, Zenon DEF CP!ClientAssumption
  <2>4. account[c].exported \in 0..1 /\ b.one_time_key[2] \in Nat
    <3>1. account[c] \in CP!Account /\ b \in CP!PeerPreKey
      BY Zenon DEF CP!ClientInv, CP!TypeOK, CP!Account
    <3> QED
      BY <3>1, Zenon DEF CP!Account, CP!PeerPreKey, CP!Random
  <2>5. account[c].exported <= b.one_time_key[2] + MaxOneTimeKeys
    BY <2>4 DEF MaxOneTimeKeys
  <2> QED
    BY <2>1, <2>2, <2>3, <2>5, Zenon DEF CP!RefusalKeepsOneTimeKey
<1>8. C!CreatesInbound(c, p, sender)
  BY <1>0, <1>5, <1>7, Zenon
  DEF C!CreatesInbound, C!HasOneTimeKey, CP!HasOneTimeKey, Known
<1>9. C!ValidatePlaintext(c, p, row.message_id) = "Opened"
  BY <1>0, <1>2, <1>3, Zenon DEF C!ValidatePlaintext, C!PayloadVersion, CP!Packet
<1>10. ~(row.expires_at <= clock)
  BY <1>2
<1> QED
  BY <1>0, <1>1, <1>4, <1>6, <1>8, <1>9, <1>10, Zenon DEF C!OpenInitialOutcome

\* open succeeds with every packet of the session that was not displayed.
LEMMA LaterReadable ==
  ASSUME MailState, CP!ClientInv, NEW row \in StoredRows, clock < row.expires_at,
         NEW c \in Client, row.queue_id = c, session[c] # C!NoSession,
         session[c].secret = row.ciphertext.secret,
         row.ciphertext.conversation_id = conversation_id[c],
         row.message_id \notin displayed_messages[c]
  PROVE  C!OpenOutcome(c, VerifiedEnvelope(row), clock) = "Opened"
<1>0. PICK p, envelope : p = row.ciphertext /\ envelope = VerifiedEnvelope(row)
  BY Zenon
<1>1. /\ envelope.packet = p /\ envelope.message_id = row.message_id
      /\ envelope.expires_at = row.expires_at
  BY <1>0 DEF VerifiedEnvelope
<1>2. /\ p \in packets /\ row.message_id = p.message_id /\ p.from[1] # c
      /\ row.expires_at \in Nat /\ clock \in Nat
  BY <1>0, ClockType, StoredRowFacts, Zenon
<1>3. p \in CP!Packet /\ CP!Me(c)[1] = c
  BY <1>2, Zenon DEF CP!ClientInv, CP!TypeOK
<1>4. p # <<>>
  BY <1>3, CP!PacketNotEmpty, ClientsAssumption, Zenon DEF CP!ClientAssumption
<1>5. C!Decrypts(c, p)
  <2>1. CP!RefusalKeepsRatchet
    BY CP!UndisplayedDecrypts, ClientsAssumption, Zenon DEF CP!ClientAssumption
  <2>2. p.from # account[c].identity /\ session[c] # CP!NoSession
    BY <1>2, <1>3, Zenon DEF CP!Me, C!NoSession, CP!NoSession
  <2>3. CP!Decrypts(c, p)
    BY <1>0, <1>2, <2>1, <2>2, Zenon DEF CP!RefusalKeepsRatchet
  <2> QED
    BY <2>3, Zenon DEF C!Decrypts, CP!Decrypts
<1>6. C!ValidatePlaintext(c, p, row.message_id) = "Opened"
  BY <1>0, <1>2, <1>3, Zenon DEF C!ValidatePlaintext, C!PayloadVersion, CP!Packet
<1>7. ~(row.expires_at <= clock)
  BY <1>2
<1> QED
  BY <1>0, <1>1, <1>4, <1>5, <1>6, <1>7, Zenon DEF C!OpenOutcome

\* Whatever was refused, lost, repeated or read out of order, a queued message
\* whose recipient has the keys for it opens at the first try.
LEMMA MailReadable ==
  ASSUME MailState, CP!ClientInv
  PROVE  QueuedReadable
<1> SUFFICES ASSUME NEW row \in R!UnexpiredMessages(clock),
                    Readable(row.queue_id, row.ciphertext),
                    row.ciphertext.conversation_id = conversation_id[row.queue_id],
                    row.message_id \notin displayed_messages[row.queue_id]
             PROVE  IF session[row.queue_id] = C!NoSession
                    THEN \A sender \in Known(row.queue_id, row.ciphertext.from) :
                           C!OpenInitialOutcome(row.queue_id, VerifiedEnvelope(row), sender, clock)
                             = "Opened"
                    ELSE C!OpenOutcome(row.queue_id, VerifiedEnvelope(row), clock) = "Opened"
  BY Zenon DEF QueuedReadable
<1>1. row \in StoredRows /\ row.expires_at > clock
  BY Zenon DEF R!UnexpiredMessages, MailState, MailInv, BoxInv, RowInv
<1>2. row.queue_id \in Client /\ clock < row.expires_at
  BY <1>1, StoredRowFacts, ClockType, Zenon
<1>3. CASE session[row.queue_id] = C!NoSession
  <2>1. row.ciphertext.secret.responder = account[row.queue_id].identity
    BY <1>3, Zenon DEF Readable
  <2> QED
    BY <1>1, <1>2, <1>3, <2>1, FirstReadable, Zenon
<1>4. CASE session[row.queue_id] # C!NoSession
  <2>1. session[row.queue_id].secret = row.ciphertext.secret
    BY <1>4, Zenon DEF Readable
  <2> QED
    BY <1>1, <1>2, <1>4, <2>1, LaterReadable, Zenon
<1> QED
  BY <1>3, <1>4, Zenon
=============================================================================
