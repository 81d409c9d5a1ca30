----------------------------- MODULE Messenger -----------------------------
(***************************************************************************)
(* The clients of OlmClient, the capabilities of src/src/capability.rs and *)
(* the tables of Relay, put together as run_demo of src/src/main.rs does.  *)
(* A client owns one mailbox, whose id is the client's name, and its peer  *)
(* holds the send capability.                                              *)
(*                                                                         *)
(* What run_demo does once, in order and with every call succeeding,       *)
(* happens here in any order: the answer to a call may be lost, which the  *)
(* caller can only answer by calling again, requests reach the relay again *)
(* at any later time, and a client may restart. A restart loses the Olm    *)
(* client and all that was under way, but not the mailbox capabilities     *)
(* (keeping them is the application's part). Time may pass between the     *)
(* verification of an envelope and its opening. A refused envelope stays   *)
(* where it is: the client has a clone of it, and fetching it again would  *)
(* bring the same bytes.                                                   *)
(*                                                                         *)
(* A definition X_suffix is X with a fault in it, not used by the          *)
(* specification: the properties are tried against it.                     *)
(***************************************************************************)
EXTENDS Integers, Sequences, FiniteSets

CONSTANTS
  Client, Conversation,
  Initiators,      \* the clients that start outbound sessions
  Writers,         \* the clients that write messages
  Closers,         \* the clients that delete their mailbox
  Restarters,      \* the clients that restart
  BundleValidity,  \* CONTACT_BUNDLE_MAX_VALIDITY_SECONDS
  RequestWindow,   \* how long requests are valid
  Lifetime,        \* how long messages are valid, at most MAX_MESSAGE_TTL_SECONDS
  TombstoneTtl,    \* TOMBSTONE_TTL_SECONDS
  MaxClock,        \* bound: the last second of a behaviour
  MaxSeals,        \* bound: packets that a client seals
  MaxRestarts,     \* bound: restarts of a client
  MaxLosses        \* bound: answers lost in a behaviour

ASSUME MessengerAssumption ==
  /\ Initiators \subseteq Client /\ Writers \subseteq Client
  /\ Closers \subseteq Client /\ Restarters \subseteq Client
  /\ BundleValidity \in Nat \ {0} /\ RequestWindow \in Nat \ {0} /\ Lifetime \in Nat \ {0}
  /\ TombstoneTtl \in Nat /\ Lifetime <= TombstoneTtl /\ RequestWindow <= TombstoneTtl
  /\ MaxClock \in Nat /\ MaxSeals \in Nat /\ MaxRestarts \in Nat /\ MaxLosses \in Nat

VARIABLES
  mailboxes, messages, tombstones, request_nonces, registration_nonces, retired_queues,
  stored, fetched, acked,                                    \* of Relay
  account, session, conversation_id, displayed_messages, verified, bundles, packets,
  shown,                                                     \* of OlmClient
  clock,
  outbox,    \* send requests of each client that have not been answered
  inbox,     \* rows each client has fetched and not opened
  envelopes, \* those of them that it holds as VerifiedEnvelopes
  opened,    \* rows each client has opened and whose ACK has not been answered
  losses     \* answers lost

relay == <<mailboxes, messages, tombstones, request_nonces, registration_nonces,
           retired_queues, stored, fetched, acked>>
olm == <<account, session, conversation_id, displayed_messages, verified, bundles, packets,
         shown>>
mail == <<outbox, inbox, envelopes, opened>>
vars == <<relay, olm, clock, mail, losses>>

EndOfTime == MaxClock + BundleValidity + RequestWindow + Lifetime + TombstoneTtl
Role == {"send", "receive", "manage"}
\* How many one-time keys vodozemac keeps.
MaxOneTimeKeys == 5000

C == INSTANCE OlmClient WITH
  Malformed <- <<>>, Deadlines <- 0..EndOfTime, PayloadVersions <- {1}, MaxBundles <- 1,
  MaxExports <- Cardinality(Client) * (MaxRestarts + 1)

R == INSTANCE Relay WITH
  QueueId <- Client, MessageId <- C!Random, Packet <- C!Packet, Nonce <- Nat,
  Key <- Client \X Role, UnsendablePackets <- {}, MaxMessageTtl <- Lifetime,
  I64Max <- EndOfTime, U64Max <- EndOfTime,
  Registrations <- {}, Sends <- {}, Fetches <- {}, Acks <- {}, Deletes <- {}

-----------------------------------------------------------------------------
(* Capabilities: the requests that their holders can sign.                 *)

Registration(c, valid_until) ==
  [queue_id |-> c, send_key |-> <<c, "send">>, receive_key |-> <<c, "receive">>,
   manage_key |-> <<c, "manage">>, nonce |-> 0, valid_until |-> valid_until,
   signature |-> <<c, "manage">>]

\* SendCapability::authorize, with the capability for the mailbox of `to'
Authorize(to, packet, expires_at) ==
  [queue_id |-> to, message_id |-> packet.message_id, packet |-> packet,
   expires_at |-> expires_at, signature |-> <<to, "send">>]

\* A random nonce is one that no fetch has used.
AuthorizeFetch_fixed(c, valid_until) ==
  [queue_id |-> c, nonce |-> 0, valid_until |-> valid_until, signature |-> <<c, "receive">>]
AuthorizeFetch(c, valid_until) ==
  [queue_id |-> c, nonce |-> Cardinality(fetched), valid_until |-> valid_until,
   signature |-> <<c, "receive">>]

VerifyEnvelope(c, row, now) ==
  /\ row.queue_id = c /\ now < row.expires_at
  /\ row.sender_signature = <<c, "send">>

VerifiedEnvelope(row) ==
  [packet |-> row.ciphertext, message_id |-> row.message_id, expires_at |-> row.expires_at]

AuthorizeAck_send_key(c, row, valid_until) ==
  [queue_id |-> c, message_id |-> row.message_id, packet_hash |-> R!Digest(row.ciphertext),
   valid_until |-> valid_until, signature |-> <<c, "send">>]
AuthorizeAck(c, row, valid_until) ==
  [queue_id |-> c, message_id |-> row.message_id, packet_hash |-> R!Digest(row.ciphertext),
   valid_until |-> valid_until, signature |-> <<c, "receive">>]

AuthorizeDelete(c, valid_until) ==
  [queue_id |-> c, nonce |-> 0, valid_until |-> valid_until, signature |-> <<c, "manage">>]

-----------------------------------------------------------------------------
Init ==
  /\ R!Init /\ C!Init
  /\ outbox = [c \in Client |-> {}]
  /\ inbox = [c \in Client |-> {}]
  /\ envelopes = [c \in Client |-> {}]
  /\ opened = [c \in Client |-> {}]
  /\ losses = 0

\* bound: in the first second
RegisterMailbox(c) ==
  /\ clock = 0
  /\ ~R!HasMailbox(c) /\ ~R!Retired(c)
  /\ R!Register(Registration(c, clock + RequestWindow), clock)
  /\ UNCHANGED <<olm, clock, mail, losses>>

ExportBundle(c) ==
  /\ C!PrekeyBundle(c, clock + BundleValidity)
  /\ UNCHANGED <<relay, mail, losses>>

VerifyBundle(c) ==
  /\ \E bundle \in bundles, peer \in Client \ {c} : C!VerifyPeer(c, bundle, peer)
  /\ UNCHANGED <<relay, mail, losses>>

StartSession(c) ==
  /\ \E peer \in verified[c] : C!StartOutboundSession(c, peer)
  /\ UNCHANGED <<relay, mail, losses>>

\* The request is signed as soon as the packet is sealed.
Compose(c) ==
  /\ C!Seal(c, C!PayloadVersion)
  /\ outbox' = [outbox EXCEPT ![c] = @ \cup
       {Authorize(session[c].peer.identity[1], C!Sealed(c, C!PayloadVersion),
                  clock + Lifetime)}]
  /\ UNCHANGED <<relay, inbox, envelopes, opened, losses>>

\* Whether the answer to a call arrives; `on_answer' is what the caller then does.
Answered(on_answer, box) ==
  \/ on_answer /\ UNCHANGED losses
  \/ losses < MaxLosses /\ losses' = losses + 1 /\ UNCHANGED box

\* The sender tries again until there is a mailbox; any other answer is final.
Send(c, req) ==
  /\ R!HasMailbox(req.queue_id)
  /\ R!Enqueue(req, clock)
  /\ Answered(outbox' = [outbox EXCEPT ![c] = @ \ {req}], outbox)
  /\ UNCHANGED <<olm, clock, inbox, envelopes, opened>>

\* What the SELECT of fetch returns.
FetchedRows_any_queue(c, now) == R!UnexpiredMessages(now)
FetchedRows(c, now) == {m \in R!UnexpiredMessages(now) : m.queue_id = c}

\* Polls that would bring nothing new are left out.
FetchMail(c) ==
  LET req == AuthorizeFetch(c, clock + RequestWindow)
      rows == FetchedRows(c, clock)
  IN /\ ~(rows \subseteq inbox[c] \cup opened[c])
     /\ R!Fetch(req, clock)
     /\ IF R!FetchOutcome(req, clock) = "Fetched"
        THEN Answered(inbox' = [inbox EXCEPT ![c] = @ \cup (rows \ opened[c])], inbox)
        ELSE UNCHANGED <<inbox, losses>>
     /\ UNCHANGED <<olm, clock, outbox, envelopes, opened>>

VerifyMail(c, row) ==
  /\ VerifyEnvelope(c, row, clock)
  /\ envelopes' = [envelopes EXCEPT ![c] = @ \cup {row}]
  /\ UNCHANGED <<relay, olm, clock, outbox, inbox, opened, losses>>

\* open_initial for the first envelope, open once there is a session. Only an
\* opened envelope can be acknowledged.
OpenMail_acks_refused(c, row) ==
  /\ \/ session[c] = C!NoSession
        /\ \E sender \in verified[c] : C!OpenInitial(c, VerifiedEnvelope(row), sender)
     \/ session[c] # C!NoSession /\ C!Open(c, VerifiedEnvelope(row))
  /\ inbox' = [inbox EXCEPT ![c] = @ \ {row}]
  /\ envelopes' = [envelopes EXCEPT ![c] = @ \ {row}]
  /\ opened' = [opened EXCEPT ![c] = @ \cup {row}]
  /\ UNCHANGED <<relay, outbox, losses>>
OpenMail(c, row) ==
  /\ \/ session[c] = C!NoSession
        /\ \E sender \in verified[c] : C!OpenInitial(c, VerifiedEnvelope(row), sender)
     \/ session[c] # C!NoSession /\ C!Open(c, VerifiedEnvelope(row))
  /\ IF shown' # shown
     THEN /\ inbox' = [inbox EXCEPT ![c] = @ \ {row}]
          /\ envelopes' = [envelopes EXCEPT ![c] = @ \ {row}]
          /\ opened' = [opened EXCEPT ![c] = @ \cup {row}]
     ELSE UNCHANGED <<inbox, envelopes, opened>>
  /\ UNCHANGED <<relay, outbox, losses>>

SendAck(c, row) ==
  /\ R!Acknowledge(AuthorizeAck(c, row, clock + RequestWindow), clock)
  /\ Answered(opened' = [opened EXCEPT ![c] = @ \ {row}], opened)
  /\ UNCHANGED <<olm, clock, outbox, inbox, envelopes>>

CloseMailbox(c) ==
  /\ R!DeleteMailbox(AuthorizeDelete(c, clock + RequestWindow), clock)
  /\ UNCHANGED <<olm, clock, mail, losses>>

\* A request that was served reaches the relay again, for nobody to see the answer.
Redeliver ==
  /\ \/ \E req \in stored : R!Enqueue(req, clock)
     \/ \E req \in fetched : R!Fetch(req, clock)
     \/ \E a \in acked : R!Acknowledge(a.ack, clock)
  /\ UNCHANGED <<olm, clock, mail, losses>>

Restart(c) ==
  /\ \E conversation \in Conversation : C!Restart(c, conversation)
  /\ outbox' = [outbox EXCEPT ![c] = {}]
  /\ inbox' = [inbox EXCEPT ![c] = {}]
  /\ envelopes' = [envelopes EXCEPT ![c] = {}]
  /\ opened' = [opened EXCEPT ![c] = {}]
  /\ UNCHANGED <<relay, losses>>

Purge ==
  /\ R!PurgeExpired(clock)
  /\ UNCHANGED <<olm, clock, mail, losses>>

Tick ==
  /\ C!Tick
  /\ UNCHANGED <<relay, mail, losses>>

Sending(c) == \E req \in outbox[c] : Send(c, req)
Verifying(c) == \E row \in inbox[c] : VerifyMail(c, row)
Opening(c) == \E row \in envelopes[c] : OpenMail(c, row)
Acking(c) == \E row \in opened[c] : SendAck(c, row)

Next ==
  \/ \E c \in Client :
       \/ RegisterMailbox(c) \/ ExportBundle(c) \/ VerifyBundle(c)
       \/ Sending(c) \/ FetchMail(c) \/ Verifying(c) \/ Opening(c) \/ Acking(c)
  \/ \E c \in Initiators : StartSession(c)
  \/ \E c \in Writers : Compose(c)
  \/ \E c \in Restarters : Restart(c)
  \/ \E c \in Closers : CloseMailbox(c)
  \/ Redeliver \/ Purge \/ Tick

Spec == Init /\ [][Next]_vars

\* A client that is running keeps calling: it sends again what was not answered,
\* polls with a newly signed request, verifies and opens what it has and
\* acknowledges it.
Fairness ==
  \A c \in Client :
    /\ WF_vars(Sending(c)) /\ WF_vars(FetchMail(c)) /\ WF_vars(Verifying(c))
    /\ WF_vars(Opening(c)) /\ WF_vars(Acking(c))

FairSpec == Spec /\ Fairness

-----------------------------------------------------------------------------
RowOf(c) == {m \in R!Message : m.queue_id = c}

TypeOK ==
  /\ C!TypeOK
  /\ messages \subseteq R!Message /\ stored \subseteq R!SendRequest
  /\ outbox \in [Client -> SUBSET R!SendRequest]
  /\ \A c \in Client : /\ inbox[c] \subseteq RowOf(c) /\ opened[c] \subseteq RowOf(c)
                        /\ envelopes[c] \subseteq inbox[c]
  /\ losses \in 0..MaxLosses

\* A client that retries is never told that it may not: a send is not taken for
\* another message with its id, and the ACK of an unexpired opened envelope
\* deletes it or finds it deleted, however often answers were lost.
RetriesServed ==
  \A c \in Client :
    /\ \A req \in outbox[c] :
         R!EnqueueOutcome(req, clock) \notin {"Unauthorized", "MessageConflict", "Storage"}
    /\ \A row \in opened[c] :
         R!HasMailbox(c) /\ clock < row.expires_at =>
           R!AckOutcome(AuthorizeAck(c, row, clock + RequestWindow), clock)
             \in {"Deleted", "AlreadyDeleted"}

Known(c, identity) == {b \in verified[c] : b.identity = identity}

\* The recipient of a queued message has the keys for it.
Readable(c, p) ==
  \/ session[c] # C!NoSession /\ session[c].secret = p.secret
  \/ /\ session[c] = C!NoSession
     /\ p.secret.responder = account[c].identity
     /\ Known(c, p.from) # {}

\* A queued message whose recipient still has its end of the session, or can
\* still make it, and has not displayed it can be opened at once: whatever was
\* refused, lost, repeated or read out of order before.
QueuedReadable ==
  \A row \in R!UnexpiredMessages(clock) :
    LET c == row.queue_id
        p == row.ciphertext
    IN (/\ Readable(c, p) /\ p.conversation_id = conversation_id[c]
        /\ row.message_id \notin displayed_messages[c])
       => IF session[c] = C!NoSession
          THEN \A sender \in Known(c, p.from) :
                 C!OpenInitialOutcome(c, VerifiedEnvelope(row), sender, clock) = "Opened"
          ELSE C!OpenOutcome(c, VerifiedEnvelope(row), clock) = "Opened"

-----------------------------------------------------------------------------
(* The abstract service.                                                   *)

MessageIds == (Client \X (0..MaxRestarts)) \X (0..(MaxSeals - 1))

AsMessage(r) ==
  [queue_id |-> r.queue_id, message_id |-> r.message_id, expires_at |-> r.expires_at]

Service == INSTANCE MailboxService WITH
  Message <- [queue_id : Client, message_id : MessageIds, expires_at : 0..EndOfTime],
  accepted <- {AsMessage(req) : req \in stored},
  pending <- {AsMessage(row) : row \in R!UnexpiredMessages(clock)},
  closed <- {c \in Client : R!Retired(c)},
  delivered <- [c \in Client |-> [i \in DOMAIN shown[c] |-> shown[c][i].message_id]]

\* Together, relay and clients accept a message once, keep it until it was seen,
\* its mailbox was closed or it expired, and show it at most once, never after
\* its expiry. Lost answers, repeated requests and restarts do not show.
ImplementsMailbox == Service!Spec

-----------------------------------------------------------------------------
(* Liveness.                                                               *)

Seen(c, id) == \E i \in DOMAIN shown[c] : shown[c][i].message_id = id

\* the ids of what the others write
IdsFor(c) == {id \in MessageIds : id[1][1] # c}

\* A sealed message that its recipient can read is displayed in the end, once
\* there is a mailbox for it, although answers to sends and fetches are lost:
\* unless its sender restarts, its recipient loses its end of the session, the
\* mailbox is closed or the message's lifetime is over.
MessagesArrive ==
  \A to \in Client : \A id \in IdsFor(to) :
    (\E req \in outbox[id[1][1]] :
       /\ req.queue_id = to /\ req.message_id = id
       /\ R!HasMailbox(to) /\ Readable(to, req.packet)
       /\ req.packet.conversation_id = conversation_id[to])
    ~> \/ Seen(to, id)
       \/ account[id[1][1]].identity # id[1]
       \/ \E p \in packets : p.message_id = id /\ ~Readable(to, p)
       \/ ~R!HasMailbox(to)
       \/ clock >= Lifetime

\* An opened message leaves the relay in the end, although answers to its ACK
\* are lost, unless its recipient restarts first.
QueueDrains ==
  \A c \in Client : \A id \in IdsFor(c) : \A n \in 0..MaxRestarts :
    (account[c].identity = <<c, n>> /\ \E row \in opened[c] : row.message_id = id)
    ~> \/ \A row \in messages : row.message_id # id
       \/ account[c].identity # <<c, n>>
=============================================================================
