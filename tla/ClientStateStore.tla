-------------------------- MODULE ClientStateStore --------------------------
(***************************************************************************)
(* The encrypted client state store of src/src/persistence/sqlite.rs:      *)
(* several handles, in one process or several, on one one-row database.    *)
(* Sealing and authenticating happen outside the transactions, so another  *)
(* handle's transaction can fall in between; a transaction is one step.    *)
(*                                                                         *)
(* A random draw (a DEK or a nonce) is the next number: draws never repeat. *)
(* An AEAD ciphertext is the record of what was sealed, and opens only     *)
(* under the same key, nonce and associated data.                          *)
(*                                                                         *)
(* A definition X_suffix is X with a fault in it, not used by the          *)
(* specification: the properties are tried against it.                     *)
(***************************************************************************)
EXTENDS Naturals

CONSTANTS
  Handle, Binding, State,
  OversizedStates,   \* the states above MAX_PLAINTEXT_BYTES
  I64Max,            \* i64::MAX
  MaxDraws           \* bound: random values drawn in a behaviour

ASSUME StoreAssumption ==
  I64Max \in Nat \ {0} /\ MaxDraws \in Nat /\ OversizedStates \subseteq State

VARIABLES
  db,      \* the database file: Empty, or the row of client_state
  store,   \* what each ClientStateStore handle is doing and holds
  drawn,   \* random values drawn so far
  sealed,  \* history: every ciphertext made
  past,    \* history: every row the database has held
  wrote    \* history: the rows a handle made durable since it was opened

vars == <<db, store, drawn, sealed, past, wrote>>

Empty == [generation |-> 0]

-----------------------------------------------------------------------------
(* The envelope and the protector.                                         *)

\* the associated data authenticated with a snapshot
Aad(binding, generation, wrapped_dek) == <<binding, generation, wrapped_dek>>

SealFits_any(generation, state) == TRUE
SealFits(generation, state) ==
  generation # 0 /\ generation <= I64Max /\ state \notin OversizedStates

Seal(binding, generation, wrapped_dek, dek, nonce, state) ==
  [dek |-> dek, nonce |-> nonce, aad |-> Aad(binding, generation, wrapped_dek),
   state |-> state]

WrapDek(binding, dek) == [binding |-> binding, dek |-> dek]

\* unwrap_dek and then open accept the row under the expected binding
Authentic(row, binding) ==
  /\ row.wrapped_dek.binding = binding
  /\ row.ciphertext.dek = row.wrapped_dek.dek
  /\ row.ciphertext.nonce = row.nonce
  /\ row.ciphertext.aad = Aad(binding, row.generation, row.wrapped_dek)

-----------------------------------------------------------------------------
(* Rows and handles.                                                       *)

SealedRow(binding, generation, wrapped_dek, nonce, state) ==
  [binding |-> binding, generation |-> generation, wrapped_dek |-> wrapped_dek,
   nonce |-> nonce,
   ciphertext |-> Seal(binding, generation, wrapped_dek, wrapped_dek.dek, nonce, state)]

Closed == [phase |-> "closed"]
Poisoned == [phase |-> "poisoned"]
Creating(row, state) == [phase |-> "creating", row |-> row, state |-> state]
Opening(binding, row) == [phase |-> "opening", binding |-> binding, row |-> row]
Usable(row, state) == [phase |-> "usable", row |-> row, state |-> state]
Committing(row, state, next, next_state) ==
  [phase |-> "committing", row |-> row, state |-> state,
   next |-> next, next_state |-> next_state]

\* validate_schema accepts: the one table, created with its row
HasSchema == db # Empty

\* read_row accepts: the row is of the expected profile and key
RowOf(binding) == db.binding = binding

\* the snapshot in memory while a handle is usable or inside commit
Holds(h) == store[h].phase \in {"usable", "committing"}

Init ==
  /\ db = Empty
  /\ store = [h \in Handle |-> Closed]
  /\ drawn = 0
  /\ sealed = {} /\ past = {}
  /\ wrote = [h \in Handle |-> {}]

-----------------------------------------------------------------------------
(* create                                                                  *)

\* Everything before the transaction: an empty database, a DEK, a nonce and the
\* sealed first generation.  Any failure leaves the database alone.
CreateSeal(h, binding, state) ==
  /\ store[h] = Closed
  /\ db = Empty
  /\ drawn + 2 <= MaxDraws
  /\ drawn' = drawn + 2
  /\ \/ /\ SealFits(1, state)
        /\ LET row == SealedRow(binding, 1, WrapDek(binding, drawn + 1), drawn + 2, state) IN
           /\ store' = [store EXCEPT ![h] = Creating(row, state)]
           /\ sealed' = sealed \cup {row.ciphertext}
     \/ ~SealFits(1, state) /\ UNCHANGED <<store, sealed>>
  /\ UNCHANGED <<db, past, wrote>>

\* The transaction finds the database still empty and inserts the row.  COMMIT
\* may report an error after the row became durable.
CreateCommit(h) ==
  /\ store[h].phase = "creating"
  /\ db = Empty
  /\ db' = store[h].row
  /\ past' = past \cup {store[h].row}
  /\ \/ /\ store' = [store EXCEPT ![h] = Usable(store[h].row, store[h].state)]
        /\ wrote' = [wrote EXCEPT ![h] = {store[h].row}]
     \/ store' = [store EXCEPT ![h] = Closed] /\ UNCHANGED wrote
  /\ UNCHANGED <<drawn, sealed>>

\* Another handle created the profile first, or the storage failed.
CreateFails(h) ==
  /\ store[h].phase = "creating"
  /\ store' = [store EXCEPT ![h] = Closed]
  /\ UNCHANGED <<db, drawn, sealed, past, wrote>>

-----------------------------------------------------------------------------
(* open                                                                    *)

\* The read transaction.  A database without the schema and its row, or of
\* another binding, is refused.
OpenRead(h, binding) ==
  /\ store[h] = Closed
  /\ \/ /\ HasSchema /\ RowOf(binding)
        /\ store' = [store EXCEPT ![h] = Opening(binding, db)]
     \/ /\ HasSchema => ~RowOf(binding)
        /\ UNCHANGED store
  /\ UNCHANGED <<db, drawn, sealed, past, wrote>>

\* Unwrap the DEK and authenticate the row that was read.
OpenAuthenticate(h) ==
  /\ store[h].phase = "opening"
  /\ store' = [store EXCEPT ![h] =
                 IF Authentic(store[h].row, store[h].binding)
                 THEN Usable(store[h].row, store[h].row.ciphertext.state)
                 ELSE Closed]
  /\ UNCHANGED <<db, drawn, sealed, past, wrote>>

-----------------------------------------------------------------------------
(* commit                                                                  *)

\* Any failure poisons the handle.
AfterFailure_usable(held) == Usable(held.row, held.state)
AfterFailure(held) == Poisoned

\* the nonce for the generation after `row': a fresh draw, not a derived value
CommitNonce_counter(row) == row.nonce + 1
CommitNonce(row) == drawn + 1

NextRow_sameAad(row, nonce, state) ==
  [SealedRow(row.binding, row.generation, row.wrapped_dek, nonce, state)
     EXCEPT !.generation = row.generation + 1]
NextRow(row, nonce, state) ==
  SealedRow(row.binding, row.generation + 1, row.wrapped_dek, nonce, state)

\* Seal the candidate.  The generation after i64::MAX is refused by the seal.
CommitSeal(h, state) ==
  /\ store[h].phase = "usable"
  /\ drawn < MaxDraws
  /\ drawn' = drawn + 1
  /\ LET held == store[h]
         next == NextRow(held.row, CommitNonce(held.row), state) IN
     \/ /\ SealFits(held.row.generation + 1, state)
        /\ store' = [store EXCEPT ![h] = Committing(held.row, held.state, next, state)]
        /\ sealed' = sealed \cup {next.ciphertext}
     \/ /\ ~SealFits(held.row.generation + 1, state)
        /\ store' = [store EXCEPT ![h] = AfterFailure(held)]
        /\ UNCHANGED sealed
  /\ UNCHANGED <<db, past, wrote>>

\* the WHERE clause of the UPDATE: the row is the one this handle holds
RowMatches_generation(held) == db.generation = held.row.generation
RowMatches(held) == db = held.row

\* the assignments after COMMIT
Installed_staleNonce(held) ==
  Usable([held.next EXCEPT !.nonce = held.row.nonce], held.next_state)
Installed(held) == Usable(held.next, held.next_state)

\* The UPDATE changed one row.  COMMIT may report an error after the row became
\* durable; the caller cannot tell, and the handle is poisoned.
CommitUpdate(h) ==
  /\ store[h].phase = "committing"
  /\ HasSchema
  /\ RowMatches(store[h])
  /\ db' = store[h].next
  /\ past' = past \cup {store[h].next}
  /\ wrote' = [wrote EXCEPT ![h] = {store[h].next}]
  /\ \/ store' = [store EXCEPT ![h] = Installed(store[h])]
     \/ store' = [store EXCEPT ![h] = AfterFailure(store[h])]
  /\ UNCHANGED <<drawn, sealed>>

\* The random source failed before the seal, or the UPDATE changed no row, or the
\* lock or the storage failed.
CommitFails(h) ==
  /\ Holds(h)
  /\ store' = [store EXCEPT ![h] = AfterFailure(store[h])]
  /\ UNCHANGED <<db, drawn, sealed, past, wrote>>

-----------------------------------------------------------------------------
\* The handle is dropped or its process dies; an open transaction rolls back.
Drop(h) ==
  /\ store[h] # Closed
  /\ store' = [store EXCEPT ![h] = Closed]
  /\ wrote' = [wrote EXCEPT ![h] = {}]
  /\ UNCHANGED <<db, drawn, sealed, past>>

\* Someone puts an earlier complete database back.
Restore ==
  /\ db' \in past
  /\ UNCHANGED <<store, drawn, sealed, past, wrote>>

Next ==
  \/ \E h \in Handle, binding \in Binding : OpenRead(h, binding)
  \/ \E h \in Handle, binding \in Binding, state \in State : CreateSeal(h, binding, state)
  \/ \E h \in Handle, state \in State : CommitSeal(h, state)
  \/ \E h \in Handle :
       \/ CreateCommit(h) \/ CreateFails(h) \/ OpenAuthenticate(h)
       \/ CommitUpdate(h) \/ CommitFails(h) \/ Drop(h)
  \/ Restore

Spec == Init /\ [][Next]_vars

-----------------------------------------------------------------------------
(* Properties.                                                             *)

WrappedDek == [binding : Binding, dek : 1..MaxDraws]
Ciphertext ==
  [dek : 1..MaxDraws, nonce : 1..MaxDraws, aad : Binding \X (1..I64Max) \X WrappedDek,
   state : State \ OversizedStates]
Row ==
  [binding : Binding, generation : 1..I64Max, wrapped_dek : WrappedDek,
   nonce : 1..MaxDraws, ciphertext : Ciphertext]

\* Every column of the row satisfies its CHECK, and every handle is in one of
\* the phases of create, open and commit.
TypeOK ==
  /\ db \in Row \cup {Empty}
  /\ store \in [Handle ->
           {Closed, Poisoned}
      \cup [phase : {"creating", "usable"}, row : Row, state : State]
      \cup [phase : {"opening"}, binding : Binding, row : Row]
      \cup [phase : {"committing"}, row : Row, state : State, next : Row, next_state : State]]
  /\ drawn \in 0..MaxDraws
  /\ sealed \subseteq Ciphertext
  /\ past \subseteq Row
  /\ wrote \in [Handle -> SUBSET Row]

\* Whatever crashes, races or failures came before, the database holds nothing
\* or one complete snapshot that open accepts under the profile's binding.
DatabaseOpens == db # Empty => Authentic(db, db.binding)

\* A snapshot is in memory as authoritative only once it is durable, and it is
\* the plaintext of the row the next compare-and-swap will expect.
HeldIsDurable ==
  \A h \in Handle :
    Holds(h) => store[h].row \in past /\ store[h].state = store[h].row.ciphertext.state

\* A handle that made a row durable either holds that row or is unusable: after
\* an uncertain commit it never serves the older snapshot.
OwnWriteKnown ==
  \A h \in Handle : Holds(h) => wrote[h] \subseteq {store[h].row}

\* No DEK seals two different messages under one nonce, also when commits
\* diverge after a restored database repeats a generation.
NonceUnique ==
  \A c, d \in sealed : c.dek = d.dek /\ c.nonce = d.nonce => c = d

(***************************************************************************)
(* The store implements StateRegister.                                     *)
(***************************************************************************)
RegisterNone == [generation |-> 0]
SnapshotOf(row) == [generation |-> row.generation, state |-> row.ciphertext.state]

Register ==
  INSTANCE StateRegister WITH
    Client <- Handle,
    register <- IF db = Empty THEN RegisterNone ELSE SnapshotOf(db),
    seen <- [h \in Handle |->
               IF Holds(h)
               THEN [generation |-> store[h].row.generation, state |-> store[h].state]
               ELSE IF store[h].phase = "opening" THEN SnapshotOf(store[h].row)
               ELSE RegisterNone],
    ever <- {SnapshotOf(row) : row \in past}

\* A commit replaces exactly the snapshot its handle holds and raises the
\* generation by one; a failed or conflicting commit leaves the handle nothing.
ImplementsRegister == Register!Spec

=============================================================================
