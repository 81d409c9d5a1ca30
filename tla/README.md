# Secure Messenger Lab in TLA+

Specifications of the relay, its startup, the Olm clients, the encrypted client
state store and their composition in `secure-messenger-lab`, the TLC models that
check them on small instances, and TLAPS proofs of their invariants for all
values of the constants. Paths below are relative to the repository root;
`PROJECT.json` maps every definition to the lines it models.

## The system

| Part | Source | What it does | Module | Status |
|---|---|---|---|---|
| Relay | `src/relay.rs` | Six SQLite tables; signed requests register and delete mailboxes, store, fetch and acknowledge opaque packets; expired rows are swept | `Relay` | modelled |
| Relay handles | `src/relay.rs` | Several handles on one file; `BEGIN IMMEDIATE`, busy timeout, reopening | `RelayHandles` | modelled |
| Startup and migration | `src/relay.rs` | Preflight of an existing file, schema classification, leaving WAL mode, migration of versions 0 and 1 to 2 | `RelayStartup`, `RelayFile` | modelled |
| Companion guard | `src/companion.rs` | Refuses a non-empty `-wal` beside a rollback-mode database | `RelayStartup` | modelled |
| Capabilities | `src/capability.rs` | Signed requests; who can make which | `Relay`, `Messenger` | modelled |
| Olm client | `src/client.rs` | Pre-key verification, sessions, staged account and ratchet | `OlmClient` | modelled |
| State store | `src/persistence/sqlite.rs` | One encrypted row, replaced by compare-and-swap; a failed commit poisons the handle | `ClientStateStore`, `StateRegister` | modelled |
| Envelope | `src/persistence/envelope.rs` | AEAD of a snapshot, bound to profile, generation and wrapped key | `ClientStateStore` | modelled |
| Protector | `src/persistence/protector.rs` | Platform trait that wraps the data key | `ClientStateStore` (its contract) | partly |
| Ids, errors, library root | `src/ids.rs`, `error.rs`, `lib.rs` | Opaque identifiers, error names | constants, outcome names | partly (no state) |
| Demo | `src/main.rs` | A script over the library | `Messenger`, `MailboxService` | modelled |

A recipient creates a mailbox at the relay and hands its send capability to a
peer. The peer's Olm client encrypts, the send capability signs, the relay
stores; the recipient fetches, verifies, decrypts, and acknowledges what it
accepted, and the ACK deletes the packet. The state store keeps a client's
serialized state; nothing in the crate connects it to the Olm client yet.

## Modules

**`Relay`** — one handle. The variables `mailboxes`, `messages`, `tombstones`,
`request_nonces`, `registration_nonces` and `retired_queues` are the tables, as
sets of rows; `clock` is Unix time; `stored`, `fetched` and `acked` are history
variables that remember which requests were answered with success. A handler is
one IMMEDIATE transaction and therefore one action. It is written as two
definitions: `XOutcome(req, now)`, the answer, with the code's checks in the
code's order, and `X(req, now)`, what the transaction leaves behind. The sweep
that every handler begins with is part of its action, and a returned error
undoes it together with everything else (`Rollback`).

| Action | Code |
|---|---|
| `Register`, `Enqueue`, `Fetch`, `Acknowledge`, `DeleteMailbox` | the methods of `Relay` of those names |
| `PurgeExpired` | `purge_expired`, `queued_message_count_at`, the sweep of `initialize` |
| `Tick` | a second passes |

Abstractions: a signature is the key it verifies under, so that an altered or
retargeted request is one that verifies under no registered key; SHA-256 has no
collisions; a packet is a value, and the ones of refused size form the constant
`UnsendablePackets`; `created_at`, `retired_at`, the audit events and the order
of fetched rows are left out, since no decision of the code reads them. The
`u64` and `i64` limits are constants, and the conversions between them are kept.

**`RelayHandles`** — several handles, in one process or several. `call[h]` is
what handle `h` is doing. `Begin` reads the clock and enters an operation, `Run`
is the transaction with that clock value, `BusyTimeout` gives up the wait,
`Crash` ends the process, `HTick` moves the clock by a second. `MaxLag` bounds
how far the clock moves between `Begin` and `Run`; the code bounds the wait by
its two-second busy timeout, and nothing bounds the time a caller takes between
reading the clock and calling.

**`RelayStartup`** — `Relay::open_at` by several openers. `main`, `journal` and
`wal` are the database file and its companions, `opener[o].phase` is where an
opener stands:

| Actions | Code |
|---|---|
| `Start`, `CheckWal`, `CheckHeader` | `preflight_existing_database` up to and including `reject_anomalous_wal` |
| `CheckJournal`, `RecheckWal`, `RecheckHeader` | the three file-system reads of `has_nonempty_recovery_companion` |
| `ImmutableVersion`, `ImmutableSchema` | the rest of the preflight, with its immutable connection |
| `Connect`, `Version`, `Schema` | `Connection::open` and the validation outside the lock |
| `JournalMode`, `FlipHeader` | `PRAGMA journal_mode = DELETE` |
| `Migrate`, `WritePages`, `CommitWrite` | the transaction of `initialize`: validation again, migration, sweep |
| `Store` | a relay that serves stores a message |
| `BeginRecovery`, `EndRecovery`, `Disconnect` | what SQLite does at the first read and at the last close |
| `BusyTimeout`, `FailWrite`, `Stop`, `RemoveStrayWal` | timeout, I/O error, process end, the operator's repair |

SQLite is modelled from how the code uses it: the journal is written before the
pages, deleting it is the commit, and leaving WAL mode needs to be alone. A
schema is what `classify_schema` makes of it. A stray `-wal` is there from the
start or never, and no modelled process puts a database into WAL mode: a file
planted, or a conversion to WAL, between a check and the open is not explored.

**`RelayFile`** — what startup promises about the content of the file: it changes
only by a complete upgrade of an acceptable schema, or by a complete write of a
relay that serves it. `ImplementsFile` maps it to the content that a recovery
would leave (`Durable`).

**`OlmClient`** — the clients. `account[c]` has the identity and the unused
one-time keys, oldest first, `session[c]` the Olm session with the indexes already
received, `bundles` and `packets` what was ever exported and sealed. `Restart` is
`OlmClient::new` in a new process; `PrekeyBundle`, `VerifyPeer`,
`StartOutboundSession`, `Seal`, `OpenInitial` and `Open` are the operations.
Opening takes any packet sealed so far, under any outer message id and expiry,
so that packets are repeated, reordered, lost and misdirected. A packet carries
its payload version, and a client of another release may write another one. An
account keeps `MaxOneTimeKeys` one-time keys (5000 in vodozemac): a bundle exported
beyond that costs it the oldest key, which `prekey_bundle` does not look at and
`docs/persistence-spike-design.md:314` describes. Olm is ideal: two
ends share a secret only if made from the same identities and one-time key, and a
message key works once.

**`Messenger`** — two clients, their capabilities and the relay, as `run_demo`
composes them, with the operations of `Relay` and `OlmClient` by `INSTANCE`.
`outbox`, `inbox`, `envelopes` and `opened` are what an application must remember:
requests not answered, rows fetched, those of them it has verified, and rows opened
and not yet acknowledged. `verify_envelope` and `open` are two actions (`VerifyMail`,
`OpenMail`), each with the clock of its own call, so that an envelope may expire
between them.
The answer to a send, a fetch or an ACK may be lost (`Answered`); a lost request
needs no action of its own, because it changes nothing. `Redeliver` brings a
served request to the relay again at any time.

**`MailboxService`** — what they promise together: a message is accepted once,
stays pending until its recipient has seen it, its mailbox is closed or it
expires, and is seen at most once and never after its expiry.
`ImplementsMailbox` is the refinement.

**`ClientStateStore`** — several handles on one one-row database. Sealing and
authenticating run outside the transactions, so `create` is `CreateSeal` then
`CreateCommit` or `CreateFails`, `open` is `OpenRead` then `OpenAuthenticate`,
`commit` is `CommitSeal` then `CommitUpdate` or `CommitFails`. A COMMIT that
reports an error after the row became durable is the second disjunct of
`CreateCommit` and `CommitUpdate`. `Drop` is a dropped handle or a dead process,
`Restore` puts back an earlier complete database file, which the design document
names as a limitation. A ciphertext is the record of what was sealed and opens
only under the same key, nonce and associated data; random draws do not repeat.
The overflow check on the `u64` generation is subsumed by the `i64` check of the
seal.

**`StateRegister`** — what the store promises: a register that a client replaces
only while it still holds the value it replaces (`ImplementsRegister`).

**`RelayProofs`, `RelayHandlesProofs`, `RelayStartupProofs`, `OlmClientProofs`,
`ClientStateStoreProofs`, `MessengerMail`, `MessengerProofs` and
`MessengerRefinement`** hold the theorems and their lemmas, the modules **`MC...`**
the small instances. A definition named `X_suffix` is `X` with a fault in it. The
specification never uses it; it is there to see that a property fails on it.

## Runs

| Run | Configuration | Shows |
|---|---|---|
| `relay_messages` | `MCRelayMessages.cfg` | The life of a message with two ciphertexts under one id, two owners, one deletion, and a clock that runs past `i64::MAX`. The primary and foreign keys of all tables hold; an id is never both queued and tombstoned; a stored send is never stored again; an ACK can be retried; a message goes only by expiry, with its mailbox or by an ACK for its bytes |
| `relay_mailboxes` | `MCRelayMailboxes.cfg` | Two queues claimed by two owners, with replayed registrations, fetches and deletions. A retired queue never returns; a fetch request is served once; the `recorded != 1` refusal of `register` is unreachable |
| `handles_messages` | `MCHandlesMessages.cfg` | Two handles with clock values up to a second old. A fetch is served once while it is valid, the ACK can be retried, and a message goes only for the reasons it may |
| `handles_stale_fetch` | `MCHandlesStaleFetch.cfg` | Finding: after its last second a fetch may be served a second time |
| `handles_sweep` | `MCHandlesSweep.cfg` | Finding: an operation that fails sweeps nothing |
| `startup` | `MCStartup.cfg` | Two openers, every kind of file, two crashes or failed writes. Only a current schema with signed messages is served, in rollback mode; the `-wal` anomaly is never self-inflicted and nothing is touched beside it; the openers implement `RelayFile`; whoever keeps opening an acceptable database is served |
| `olm_contacts` | `MCOlmContacts.cfg` | Three clients, any contact, two conversations, two payload versions, bundles that expire and outnumber the keys an account keeps. Nothing is displayed twice, senders are the verified ones, a refused packet uses up neither ratchet nor one-time key, a new one-time key pushes out the oldest only, and the first packet of another contact takes over no session |
| `olm_restart` | `MCOlmRestart.cfg` | Two clients that restart, two packets from each, in any order: still nothing is displayed twice |
| `olm_stale_bundle` | `MCOlmStaleBundle.cfg` | Finding: an inbound session is made from an expired bundle |
| `messenger_mail` | `MCMessengerMail.cfg` | Two messages with two lost answers, a closed mailbox, repeated requests and time beyond the messages' life. The mailbox service is implemented, no retry is refused, and what is queued can be opened in any order |
| `messenger_live` | `MCMessengerLive.cfg` | Both clients start sessions and write, one answer is lost, one client restarts. A readable message is displayed in the end, an opened one leaves the relay |
| `state_store` | `MCClientStateStore.cfg` | Two handles, two profiles. The database is empty or opens; memory follows durability; an uncertain write is never hidden; no nonce repeats under a key; the store implements the register |

### Bounds

Time is scaled down with its order relations kept: the request window is no
longer than the retention limit, which is no longer than the tombstone lifetime,
and the clock passes a whole retention period after a message is stored. Requests
take every deadline from 1 to `LatestDeadline`, so both ends of each window and
the second on either side occur. `I64Max` lies below `U64Max` where conversions
are at stake, and the clock reaches it. One message id with two ciphertexts is
enough for every conflict, because no handler relates two ids; two queues are
enough for the same reason.

* Handles: registrations are made in the first second only. The tombstone
  lifetime (3) is the request window (2) and the lag (1) together: with less, a
  late retry of an ACK finds no tombstone. In the code the two are 5 minutes and 7
  days, so the lag would have to exceed six days.
* Startup: two openers are enough for every race between a check and its use,
  and every conflict of locks is between two. The initial files are those that
  the code tells apart: absent, empty, each acceptable and each refused schema, a
  hot or stray journal, a WAL with frames beside either header. Two faults allow
  a crash during the recovery from a crash.
* Olm: one packet in each direction, two conversations and two payload versions
  with three clients, two packets and a restart each with two. `MaxOneTimeKeys` = 2
  with `MaxExports` = 3 bundles in a behaviour lets one account export more than it
  keeps, or each of the three one. Fewer packets are in flight than Olm keeps
  skipped keys for.
* Messenger: messages and requests live one second and the clock runs to 2, so
  every request is repeated before, at and after its expiry; registration is in
  the first second. A client exports one bundle between restarts, so its store of
  one-time keys is never full. In `messenger_live` time stands still: expiry would only
  excuse the properties, and a restart can fall between any two steps without it.
* Store: `MaxDraws` = 5 allows one create and three commits, or two racing
  creates and one commit, and `I64Max` = 3 lets the generation reach its limit.

Symmetry permutes values that the modules only compare for equality, and is not
used where liveness is checked. Deadlock is checked in every run.

### Fairness

* `RelayStartup`: an opener that has begun goes on (weak fairness of its next
  step). `open_at` is sequential code whose only wait, the busy timeout, ends.
  Nobody has to open the relay, no message has to be stored, and crashes, I/O
  errors and the operator's repair are never owed. `AcceptableServed` has as
  premises that its opener keeps trying, that the database is acceptable without a
  stray `-wal`, and that the file leaves WAL mode again and again or the opener is
  alone in the end. The last one is needed: two openers of a WAL-mode database can
  each be in the other's way when it tries to leave WAL mode, again and again.
* `Messenger`: a client that runs keeps sending what was not answered, polling
  with new requests, verifying, opening and acknowledging. This is the application's loop,
  which the crate leaves to its caller and `run_demo` does once. Writing, starting
  sessions, restarting and losing answers are not fair; losses are bounded.

All other properties are safety properties.

## Findings

* **A failing operation sweeps nothing.** `docs/architecture.md:75` and
  `THREAT_MODEL.md:100` say that expiry is swept at every relay operation. An
  operation checks its request before it begins the transaction, and a returned
  error rolls the transaction back with the sweep in it (`handles_sweep`).
  Expired rows are still never served: `Fetch` returns what its own sweep left.
* **A fetch nonce can be used again by a call that waited.** `fetch` compares the
  request's expiry with a clock value read before the wait for the lock. If the
  wait crosses the last second of the request, a sweep by another handle removes
  the nonce and the waiting call is served (`handles_stale_fetch`);
  `docs/acceptance-tests.md:29` says that a reused nonce is rejected. Through one
  handle with a current clock, and through any handle until the deadline has
  passed, the statement holds, and both are proved.
* **`open_initial` does not recheck the sender's bundle.** `docs/architecture.md:46`,
  `SECURITY_STATUS.md:17` and `docs/acceptance-tests.md:13` say that a bundle
  verified earlier is rechecked when a session is created. `start_outbound_session`
  does so; `open_initial` compares only the envelope's expiry
  with the clock (`olm_stale_bundle`).

## Proofs

The assumptions are the ones the modules name: all limits are natural numbers
with `I64Max <= U64Max` and `MaxClock <= U64Max`; neither the retention limit
nor the request window exceeds the tombstone lifetime (7 days, 5 minutes and 7
days in the code); the requests in circulation have their types; the files found
at startup are ones that SQLite has written, or a stray companion
(`FilesAssumption`).

**Relay.**
* `TypeCorrect`: `TypeOK` is inductive by itself, because every value written to
  a timestamp column has passed `to_i64`.
* `TablesConsistent`: `TableInv` is `TypeOK` with `KeysHold`,
  `QueuedOrTombstoned`, `RetiredForever` and `RegistrationNonceBacked`. They need
  each other: the cascade keeps the foreign keys only because a queue has one
  mailbox row, and a recorded registration nonce stays backed because deletion
  retires the queue in the same transaction. `QueuedXorTombstoned`,
  `DeletedForGood` and `RegistrationNonceUnused` state three of them singly.
* `SendRetrySafe`, `AckRetrySafe`, `FetchReplayRefused`: the properties speak of
  answers, so they are not inductive. `RetryInv` says which row backs each
  remembered request until it expires: a stored send has its message or a
  tombstone that outlives the send's expiry, a successful ACK has a tombstone that
  outlives the ACK, a served fetch has its nonce, unless the mailbox is gone, and
  then for good because the queue is retired. `MarksKept` shows `RetryInv`
  invariant; the three theorems read the answers off it. `TtlAssumption` is used
  here: with a tombstone lifetime below the retention limit the first one fails.
* `MessagesKept` proves the action property from `TableInv`.

**Several handles.** Every `Run` is an operation of `Relay` at some clock value,
so `SharedTablesConsistent` and `HandlesTypeCorrect` follow from
`OperationKeepsTables`. For the answers, `LateInv` adds that a waiting call's clock
value is at most `MaxLag` behind (`CallsAtMostLate`).
* `PromptHandlesImplementRelay`: with `MaxLag = 0` the handles implement `Relay`,
  since every `Run` is then an operation at the present clock and every other step
  leaves the tables alone. All that several handles, busy timeouts and crashes add
  to one handle is the lag.
* `SharedMessagesKept`: a sweep at an earlier clock value removes only what has
  expired by the clock.
* `SharedFetchReplayRefused`: a nonce outlives its request at every clock value
  up to the present one.
* `SharedAckRetrySafe`: under `LagCovered` (`RequestWindow + MaxLag <=
  TombstoneTtl` and `I64Max < U64Max`, both true of the code by a wide margin) the
  tombstone of an ACK outlives the ACK by the lag, and no later ACK can shorten
  it, because a tombstoned id is never queued. The second condition keeps the
  tombstone's deadline from saturating.

**Startup.** `StartupInv` says what the three files have to do with one another
(`FilesInv`: torn pages only under a journal that holds the old ones, no journal
in WAL mode), what an opener may rely on in each phase (`OpenerInv`: past
`JournalMode` the file is in rollback mode without a `-wal`; the write of a
transaction is an upgrade or one new message of what its journal holds; whoever
was served still has a serveable file beneath, during recoveries and failed
writes too), and that at most one opener is in a journal transaction. None of the
properties is inductive without it: `ServesCurrent` speaks of the content after a
recovery, which is the journal's while a transaction is under way. One lemma per
action shows that it keeps `StartupInv` and does no more to the files than
`Advance` says; `OnlyCurrentServed`, `WalModeLeft`, `NoAnomalyOfItsOwn`,
`AnomalyLeftAlone`, `TypeCorrect` and the refinement `StartupImplementsFile` follow.
They hold for any number of openers and faults.

**Olm clients.** `ClientInv` rests on three facts. A message id names one packet,
because an identity counts what it has sealed (`PacketInv`, `UniquePackets`). What
a client was shown under its present identity is in `displayed_messages` and
belongs to its session (`ShownInv`). The one-time keys of a client without a
session are the last it has generated, in order and without a gap (`KeysInv`). A packet opened by a restarted client belongs to a session of its
new identity, which no earlier packet can name, so `DisplayedOnce` survives the
restart (`ShownOnce`). `TypeCorrect`, `SenderVerified`, `RefusalHarmless`,
`OneTimeKeysKept` and `OnePeerShown` follow from these and from what `SessionInv`
says of a session's two ends. They hold for any number of clients, packets and
restarts and any limit on the one-time keys. `OneTimeKeysKept` speaks of the last
`MaxOneTimeKeys` bundles: an older one may still be valid and can no longer start a
session.

**State store.**
* `StoreSafe`: `StoreInv` adds to the properties that every past row is
  authentic, that the row a handle is creating or committing is authentic and one
  generation further, and that no ciphertext carries a nonce not yet drawn.
  `TypeCorrect`, `OpensAfterCrash`, `MemoryFollowsDisk` and
  `UncertainWriteNotHidden` state its parts singly.
* `StoreImplementsRegister`: the initial state maps to the register's, and under
  `StoreInv` every step maps to a step of the register or to none.

**Messenger.** The proof is by composition. `MessengerMail` instantiates
`OlmClientProofs`, and `MessengerProofs` in addition `RelayProofs`, with the values
`Messenger` gives their constants; `ClientsAssumption` and `RelayAssumptions` show
that the assumptions of both hold there.
* Every step of `Messenger` is a step of `Relay` and of `OlmClient`, or leaves the
  component alone (`RelayStep` in `MessengerProofs`, `ClientStep` in
  `MessengerMail`). For the clients this needs an
  invariant: an envelope that is read is one of `OlmClient`'s envelopes only because
  its row carries a packet that was sealed, under the packet's own id. So
  `RetryInv` and `ClientInv` are kept, and `RelayAsSpecified`, `ClientsAsSpecified`
  and `ComponentsSafe` carry the component theorems over.
* `MailInv` (`MessengerMail`) says what lies between the components. `BoxInv`: every request in an
  outbox or answered `Stored`, and every row at the relay, in an inbox or opened,
  is a packet that was sealed, signed once, for the queue of the other end of its
  session; what was opened was displayed; a mailbox has the keys of its own
  capabilities. `SecretInv`: the one-time key of a secret is from a bundle of its
  responder, and an initiator that no longer sends pre-key messages has heard from
  the responder. `BoundInv`: identities and message ids stay within the bounds.
  `HeldInv`, beside it: what a client holds as verified it has fetched and not yet
  opened. There is one lemma per action, and it needs no more of the relay than the types
  of its tables. `MessengerInvariant` is `RetryInv /\ ClientInv /\ MailInv /\ HeldInv` with
  the fact that finitely many fetches were answered: the next nonce is their number.
* `RetriesAnswered`: a row or a tombstone with the id of a request is the request's
  own, by `BoxInv`, so a repeated send meets no conflict; the mark that `RetryInv`
  keeps for a stored send is the row or the tombstone that its ACK needs.
* `QueuedStaysReadable`: `ClientInv` gives every packet of the session that was not
  displayed an unused ratchet index. A packet to a client without a session can
  start one because it is a pre-key message: by `SecretInv` it would otherwise
  follow an answer of that very client, whose session would then still exist.
* `MailboxServiceImplemented` (`MessengerRefinement`): the initial state maps to the
  service's, and each action maps to its step or to none. `enqueue` is an acceptance
  when its answer is `Stored` and unseen otherwise; opening is a delivery when
  it displays and unseen when it refuses, verifying is unseen; an ACK removes only what was seen;
  `delete_mailbox` closes; a repeated request, a sweep, a fetch, and everything the
  clients do by themselves are unseen. The crucial steps are that an accepted
  request is never `Stored` again (`SendAnswered` of `RelayProofs`) and that a
  displayed packet was not seen before (`ClientInv`).

They hold for any number of clients, messages, restarts and lost answers.

The inductive invariants `RetryInv`, `LateInv`, `StartupInv`, `ClientInv`,
`StoreInv` and `MailInv` also hold under TLC on the instances above. Only
model-checked: the liveness properties `AcceptableServed`, `MessagesArrive` and
`QueueDrains`, since liveness under fairness is beyond the prover. Every safety
property that a passing run checks is proved.

## Not modelled

* Byte layouts, DDL text, the remaining PRAGMA settings, zeroization, logging
  and audit events, `secure_delete`: they do not change which answers are given.
* The cryptography itself, which is ideal, and Olm's limit on skipped message
  keys.
* A path that names a directory or a device: `open_at` refuses it before anything
  else. A symbolic link is followed (`fs::metadata`), and the companions are named
  after its target; the model has the target only.
* Tampering with or deleting the state database file; the state store's tests
  cover the refusals one by one. Its companion files: the guard is modelled on the
  relay's path.
* The state protector beyond its contract: the crate has no implementation of it.
* The client state store as part of `Messenger`: the crate does not connect them.
