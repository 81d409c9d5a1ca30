----------------------- MODULE ClientStateStoreProofs -----------------------
(***************************************************************************)
(* The client state store's guarantees for any number of handles, profiles *)
(* and states.  StoreInv is the inductive invariant; each handle's part of *)
(* it, HandleInv, says what the handle may rely on in each phase.          *)
(***************************************************************************)
EXTENDS ClientStateStore, TLAPS

HandleState ==
       {Closed, Poisoned}
  \cup [phase : {"creating", "usable"}, row : Row, state : State]
  \cup [phase : {"opening"}, binding : Binding, row : Row]
  \cup [phase : {"committing"}, row : Row, state : State, next : Row, next_state : State]

\* A sealed row has its type when its generation fits, and it authenticates.
LEMMA SealedRowOpens ==
  ASSUME NEW binding \in Binding, NEW generation \in Nat, NEW wrapped_dek \in WrappedDek,
         NEW nonce \in 1..MaxDraws, NEW state \in State, SealFits(generation, state),
         wrapped_dek.binding = binding
  PROVE  LET row == SealedRow(binding, generation, wrapped_dek, nonce, state) IN
         /\ row \in Row
         /\ Authentic(row, row.binding)
         /\ row.binding = binding /\ row.generation = generation
         /\ row.ciphertext.state = state /\ row.ciphertext.nonce = nonce
<1> DEFINE row == SealedRow(binding, generation, wrapped_dek, nonce, state)
<1>1. generation \in 1..I64Max /\ state \in State \ OversizedStates
  BY StoreAssumption DEF SealFits
<1>2. row.ciphertext \in Ciphertext
  BY <1>1 DEF SealedRow, Seal, Aad, Ciphertext, WrappedDek
<1> QED
  BY <1>1, <1>2 DEF SealedRow, Seal, Aad, Row, Authentic

\* what handle h may rely on
HandleInv(h) ==
  /\ store[h].phase \in {"closed", "creating", "opening"} => wrote[h] = {}
  /\ store[h].phase = "creating" =>
       /\ Authentic(store[h].row, store[h].row.binding)
       /\ store[h].row.generation = 1
       /\ store[h].state = store[h].row.ciphertext.state
  /\ store[h].phase = "opening" =>
       store[h].row \in past /\ store[h].binding = store[h].row.binding
  /\ Holds(h) =>
       /\ store[h].row \in past
       /\ store[h].state = store[h].row.ciphertext.state
       /\ wrote[h] \subseteq {store[h].row}
  /\ store[h].phase = "committing" =>
       /\ Authentic(store[h].next, store[h].next.binding)
       /\ store[h].next.generation = store[h].row.generation + 1
       /\ store[h].next_state = store[h].next.ciphertext.state

StoreInv ==
  /\ TypeOK
  /\ db \in past \cup {Empty}
  /\ \A row \in past : Authentic(row, row.binding)
  /\ \A c \in sealed : c.nonce <= drawn
  /\ NonceUnique
  /\ \A h \in Handle : HandleInv(h)

\* Other handles: a handle that a step leaves alone keeps what it relies on.
LEMMA OthersKeep ==
  ASSUME NEW h \in Handle, HandleInv(h), store'[h] = store[h], wrote'[h] = wrote[h],
         past \subseteq past'
  PROVE  HandleInv(h)'
  BY DEF HandleInv, Holds

\* The state that a handle is in determines its fields.
LEMMA PhaseFields ==
  ASSUME TypeOK, NEW h \in Handle
  PROVE  /\ store[h] \in HandleState
         /\ store[h].phase \in {"creating", "usable"} => store[h].row \in Row /\ store[h].state \in State
         /\ store[h].phase = "opening" => store[h].row \in Row /\ store[h].binding \in Binding
         /\ store[h].phase = "committing" =>
              /\ store[h].row \in Row /\ store[h].state \in State
              /\ store[h].next \in Row /\ store[h].next_state \in State
<1>1. store[h] \in HandleState
  BY DEF TypeOK, HandleState
<1> QED
  BY <1>1 DEF HandleState, Closed, Poisoned

\* create seals a first generation that nobody can see yet.
LEMMA CreateSealKeeps ==
  ASSUME StoreInv, NEW h \in Handle, NEW binding \in Binding, NEW state \in State,
         CreateSeal(h, binding, state)
  PROVE  StoreInv'
<1> DEFINE row == SealedRow(binding, 1, WrapDek(binding, drawn + 1), drawn + 2, state)
<1>0. /\ drawn \in Nat /\ drawn + 1 \in 1..MaxDraws /\ drawn + 2 \in 1..MaxDraws
      /\ store \in [Handle -> HandleState] /\ drawn' \in 0..MaxDraws
      /\ sealed \subseteq Ciphertext /\ \A c \in sealed : c.nonce \in Nat
  BY StoreAssumption DEF StoreInv, TypeOK, CreateSeal, HandleState, Ciphertext
<1>1. CASE ~SealFits(1, state)
  <2>1. UNCHANGED <<store, sealed, db, past, wrote>> /\ drawn' = drawn + 2
    BY <1>1 DEF CreateSeal
  <2>2. \A g \in Handle : HandleInv(g)'
    BY <2>1, OthersKeep DEF StoreInv
  <2>3. TypeOK'
    BY <1>0, <2>1 DEF StoreInv, TypeOK
  <2>4. NonceUnique' /\ \A c \in sealed' : c.nonce <= drawn'
    BY <1>0, <2>1 DEF StoreInv, NonceUnique
  <2> QED
    BY <2>1, <2>2, <2>3, <2>4 DEF StoreInv
<1>2. CASE SealFits(1, state)
  <2>1. /\ WrapDek(binding, drawn + 1) \in WrappedDek
        /\ WrapDek(binding, drawn + 1).binding = binding
    BY <1>0 DEF WrapDek, WrappedDek
  <2>2. /\ row \in Row /\ Authentic(row, row.binding) /\ row.generation = 1
        /\ row.ciphertext.state = state /\ row.ciphertext.nonce = drawn + 2
    <3> DEFINE wrapped == WrapDek(binding, drawn + 1)
               nonce == drawn + 2
    <3>1. nonce \in 1..MaxDraws /\ wrapped \in WrappedDek /\ wrapped.binding = binding
      BY <1>0, <2>1
    <3>2. row = SealedRow(binding, 1, wrapped, nonce, state)
      OBVIOUS
    <3> HIDE DEF wrapped, nonce, row
    <3>3. /\ row \in Row /\ Authentic(row, row.binding) /\ row.generation = 1
          /\ row.ciphertext.state = state /\ row.ciphertext.nonce = nonce
      BY <1>2, <3>1, <3>2, SealedRowOpens
    <3> QED
      BY <3>3 DEF nonce
  <2>3. row.ciphertext \in Ciphertext
    BY <2>2 DEF Row
  <2>4. /\ store' = [store EXCEPT ![h] = Creating(row, state)]
        /\ sealed' = sealed \cup {row.ciphertext}
        /\ UNCHANGED <<db, past, wrote>> /\ drawn' = drawn + 2
    BY <1>2 DEF CreateSeal
  <2> HIDE DEF row
  <2>5. Creating(row, state) \in HandleState
    BY <2>2 DEF Creating, HandleState
  <2>6. TypeOK'
    BY <1>0, <2>3, <2>4, <2>5 DEF StoreInv, TypeOK, HandleState
  <2>7. NonceUnique' /\ \A c \in sealed' : c.nonce <= drawn'
    BY <1>0, <2>2, <2>4 DEF StoreInv, NonceUnique
  <2>8. \A g \in Handle : HandleInv(g)'
    <3>1. HandleInv(h)'
      BY <1>0, <2>2, <2>4 DEF StoreInv, HandleInv, Creating, Holds, CreateSeal, Closed
    <3>2. \A g \in Handle \ {h} : HandleInv(g)'
      BY <1>0, <2>4, OthersKeep DEF StoreInv
    <3> QED
      BY <3>1, <3>2
  <2> QED
    BY <2>4, <2>6, <2>7, <2>8 DEF StoreInv
<1> QED
  BY <1>1, <1>2

\* The row of a create becomes the database, authentic as sealed.
LEMMA CreateCommitKeeps ==
  ASSUME StoreInv, NEW h \in Handle, CreateCommit(h)
  PROVE  StoreInv'
<1> DEFINE row == store[h].row
           state == store[h].state
<1>0. /\ store \in [Handle -> HandleState] /\ row \in Row /\ state \in State
      /\ Authentic(row, row.binding) /\ state = row.ciphertext.state /\ wrote[h] = {}
      /\ wrote \in [Handle -> SUBSET Row]
  BY PhaseFields DEF StoreInv, TypeOK, CreateCommit, HandleState, HandleInv
<1>1. /\ db' = row /\ past' = past \cup {row} /\ UNCHANGED <<drawn, sealed>>
      /\ \/ /\ store' = [store EXCEPT ![h] = Usable(row, state)]
            /\ wrote' = [wrote EXCEPT ![h] = {row}]
         \/ store' = [store EXCEPT ![h] = Closed] /\ wrote' = wrote
  BY DEF CreateCommit
<1> HIDE DEF row, state
<1>2. Usable(row, state) \in HandleState /\ Closed \in HandleState
  BY <1>0 DEF Usable, HandleState
<1>3. TypeOK'
  BY <1>0, <1>1, <1>2 DEF StoreInv, TypeOK, HandleState
<1>4. HandleInv(h)'
  BY <1>0, <1>1 DEF HandleInv, Usable, Closed, Holds
<1>5. \A g \in Handle \ {h} : HandleInv(g)'
  BY <1>0, <1>1, OthersKeep DEF StoreInv
<1>6. \A r \in past' : Authentic(r, r.binding)
  BY <1>0, <1>1 DEF StoreInv
<1>7. NonceUnique' /\ \A c \in sealed' : c.nonce <= drawn'
  BY <1>1 DEF StoreInv, NonceUnique
<1> QED
  BY <1>1, <1>3, <1>4, <1>5, <1>6, <1>7 DEF StoreInv

\* A step that only moves one handle to a state it may be in keeps StoreInv.
LEMMA HandleMoves ==
  ASSUME StoreInv, NEW h \in Handle, NEW held \in HandleState,
         store' = [store EXCEPT ![h] = held], HandleInv(h)',
         UNCHANGED <<db, drawn, sealed, past>>,
         wrote' \in [Handle -> SUBSET Row], \A g \in Handle \ {h} : wrote'[g] = wrote[g]
  PROVE  StoreInv'
<1>0. store \in [Handle -> HandleState]
  BY DEF StoreInv, TypeOK, HandleState
<1>1. TypeOK'
  BY <1>0 DEF StoreInv, TypeOK, HandleState
<1>2. \A g \in Handle \ {h} : HandleInv(g)'
  BY <1>0, OthersKeep DEF StoreInv
<1>3. NonceUnique'
  BY DEF StoreInv, NonceUnique
<1> QED
  BY <1>1, <1>2, <1>3 DEF StoreInv

\* open holds a row that the database has held, and authenticates it.
LEMMA OpenKeeps ==
  ASSUME StoreInv, NEW h \in Handle,
         OpenAuthenticate(h) \/ \E binding \in Binding : OpenRead(h, binding)
  PROVE  StoreInv'
<1>0. /\ store \in [Handle -> HandleState] /\ wrote \in [Handle -> SUBSET Row]
      /\ Closed \in HandleState /\ HandleInv(h)
  BY DEF StoreInv, TypeOK, HandleState
<1>1. ASSUME NEW binding \in Binding, OpenRead(h, binding), db # Empty, db.binding = binding
      PROVE  StoreInv'
  <2>1. Opening(binding, db) \in HandleState /\ db \in past
    BY <1>1 DEF Opening, HandleState, StoreInv, TypeOK
  <2>2. store' = [store EXCEPT ![h] = Opening(binding, db)] /\ wrote[h] = {}
        /\ UNCHANGED <<db, drawn, sealed, past, wrote>>
    BY <1>0, <1>1 DEF OpenRead, HasSchema, RowOf, HandleInv, Closed
  <2>3. HandleInv(h)'
    BY <1>0, <1>1, <2>1, <2>2 DEF HandleInv, Opening, Holds
  <2> QED
    BY <1>0, <2>1, <2>2, <2>3, HandleMoves, Zenon
<1>2. ASSUME NEW binding \in Binding, OpenRead(h, binding), db # Empty => db.binding # binding
      PROVE  StoreInv'
  <2>1. UNCHANGED vars
    BY <1>2 DEF OpenRead, HasSchema, RowOf, vars
  <2>2. \A g \in Handle : HandleInv(g)'
    BY <2>1, OthersKeep DEF StoreInv, vars
  <2> QED
    BY <2>1, <2>2 DEF StoreInv, vars, TypeOK, NonceUnique
<1>3. CASE OpenAuthenticate(h)
  <2> DEFINE row == store[h].row
  <2>1. /\ row \in Row /\ row \in past /\ store[h].binding = row.binding /\ wrote[h] = {}
        /\ Authentic(row, row.binding)
    BY <1>0, <1>3, PhaseFields DEF StoreInv, OpenAuthenticate, HandleInv
  <2>2. store' = [store EXCEPT ![h] = Usable(row, row.ciphertext.state)]
        /\ UNCHANGED <<db, drawn, sealed, past, wrote>>
    BY <1>3, <2>1 DEF OpenAuthenticate
  <2> HIDE DEF row
  <2>3. Usable(row, row.ciphertext.state) \in HandleState
    BY <2>1 DEF Usable, HandleState, Row, Ciphertext
  <2>4. HandleInv(h)'
    BY <1>0, <2>1, <2>2 DEF HandleInv, Usable, Holds
  <2> QED
    BY <1>0, <2>2, <2>3, <2>4, HandleMoves, Zenon
<1> QED
  BY <1>1, <1>2, <1>3 DEF OpenRead, HasSchema, RowOf

\* commit seals a candidate for the next generation under a nonce never drawn
\* before, or poisons the handle.
LEMMA CommitSealKeeps ==
  ASSUME StoreInv, NEW h \in Handle, NEW state \in State, CommitSeal(h, state)
  PROVE  StoreInv'
<1> DEFINE held == store[h]
           nonce == CommitNonce(held.row)
           row == NextRow(held.row, nonce, state)
<1>0. /\ store \in [Handle -> HandleState] /\ wrote \in [Handle -> SUBSET Row]
      /\ drawn \in Nat /\ nonce = drawn + 1 /\ nonce \in 1..MaxDraws /\ drawn' = drawn + 1
      /\ drawn' \in 0..MaxDraws
      /\ sealed \subseteq Ciphertext /\ \A c \in sealed : c.nonce \in Nat
      /\ held.row \in Row /\ held.state \in State /\ held.row \in past
      /\ held.state = held.row.ciphertext.state /\ wrote[h] \subseteq {held.row}
      /\ Authentic(held.row, held.row.binding)
  BY PhaseFields, StoreAssumption
  DEF StoreInv, TypeOK, CommitSeal, HandleState, Ciphertext, HandleInv, Holds, CommitNonce
<1>1. CASE ~SealFits(held.row.generation + 1, state)
  <2>1. store' = [store EXCEPT ![h] = Poisoned] /\ UNCHANGED <<db, sealed, past, wrote>>
    BY <1>1, Zenon DEF CommitSeal, AfterFailure
  <2>2. HandleInv(h)' /\ \A g \in Handle \ {h} : HandleInv(g)'
    BY <1>0, <2>1, OthersKeep DEF StoreInv, HandleInv, Poisoned, Holds
  <2>3. TypeOK'
    BY <1>0, <2>1 DEF StoreInv, TypeOK, HandleState
  <2>4. NonceUnique' /\ \A c \in sealed' : c.nonce <= drawn'
    BY <1>0, <2>1 DEF StoreInv, NonceUnique
  <2> QED
    BY <2>1, <2>2, <2>3, <2>4 DEF StoreInv
<1>2. CASE SealFits(held.row.generation + 1, state)
  <2>1. /\ store' = [store EXCEPT ![h] = Committing(held.row, held.state, row, state)]
        /\ sealed' = sealed \cup {row.ciphertext}
        /\ UNCHANGED <<db, past, wrote>>
    BY <1>2 DEF CommitSeal
  <2>2. /\ held.row.binding \in Binding /\ held.row.generation + 1 \in Nat
        /\ held.row.wrapped_dek \in WrappedDek
        /\ held.row.wrapped_dek.binding = held.row.binding
    BY <1>0, StoreAssumption DEF Row, Authentic
  <2>3. row = SealedRow(held.row.binding, held.row.generation + 1, held.row.wrapped_dek, nonce, state)
    BY DEF NextRow
  <2> HIDE DEF held, nonce, row
  <2>4. /\ row \in Row /\ Authentic(row, row.binding)
        /\ row.generation = held.row.generation + 1
        /\ row.ciphertext.state = state /\ row.ciphertext.nonce = nonce
    BY <1>0, <1>2, <2>2, <2>3, SealedRowOpens
  <2>5. row.ciphertext \in Ciphertext
    BY <2>4 DEF Row
  <2>6. Committing(held.row, held.state, row, state) \in HandleState
    BY <1>0, <2>4 DEF Committing, HandleState
  <2>7. TypeOK'
    BY <1>0, <2>1, <2>5, <2>6 DEF StoreInv, TypeOK, HandleState
  <2>8. NonceUnique' /\ \A c \in sealed' : c.nonce <= drawn'
    BY <1>0, <2>1, <2>4 DEF StoreInv, NonceUnique
  <2>9. HandleInv(h)'
    BY <1>0, <2>1, <2>4 DEF HandleInv, Committing, Holds
  <2>10. \A g \in Handle \ {h} : HandleInv(g)'
    BY <1>0, <2>1, OthersKeep DEF StoreInv
  <2> QED
    BY <2>1, <2>7, <2>8, <2>9, <2>10 DEF StoreInv
<1> QED
  BY <1>1, <1>2

\* The candidate becomes the database; the handle holds it or is poisoned.
LEMMA CommitUpdateKeeps ==
  ASSUME StoreInv, NEW h \in Handle, CommitUpdate(h)
  PROVE  StoreInv'
<1> DEFINE next == store[h].next
           state == store[h].next_state
<1>0. /\ store \in [Handle -> HandleState] /\ next \in Row /\ state \in State
      /\ Authentic(next, next.binding) /\ state = next.ciphertext.state
      /\ wrote \in [Handle -> SUBSET Row]
  BY PhaseFields DEF StoreInv, TypeOK, CommitUpdate, HandleState, HandleInv
<1>1. /\ db' = next /\ past' = past \cup {next} /\ UNCHANGED <<drawn, sealed>>
      /\ wrote' = [wrote EXCEPT ![h] = {next}]
      /\ \/ store' = [store EXCEPT ![h] = Usable(next, state)]
         \/ store' = [store EXCEPT ![h] = Poisoned]
  BY DEF CommitUpdate, Installed, AfterFailure
<1> HIDE DEF next, state
<1>2. Usable(next, state) \in HandleState /\ Poisoned \in HandleState
  BY <1>0 DEF Usable, HandleState
<1>3. TypeOK'
  BY <1>0, <1>1, <1>2 DEF StoreInv, TypeOK, HandleState
<1>4. HandleInv(h)'
  BY <1>0, <1>1 DEF HandleInv, Usable, Poisoned, Holds
<1>5. \A g \in Handle \ {h} : HandleInv(g)'
  BY <1>0, <1>1, OthersKeep DEF StoreInv
<1>6. \A r \in past' : Authentic(r, r.binding)
  BY <1>0, <1>1 DEF StoreInv
<1>7. NonceUnique' /\ \A c \in sealed' : c.nonce <= drawn'
  BY <1>1 DEF StoreInv, NonceUnique
<1> QED
  BY <1>1, <1>3, <1>4, <1>5, <1>6, <1>7 DEF StoreInv

\* Every step of the store keeps StoreInv.
LEMMA StoreStep ==
  ASSUME StoreInv, [Next]_vars
  PROVE  StoreInv'
<1>0. /\ store \in [Handle -> HandleState] /\ wrote \in [Handle -> SUBSET Row]
      /\ Closed \in HandleState /\ Poisoned \in HandleState
  BY DEF StoreInv, TypeOK, HandleState
<1>1. ASSUME NEW h \in Handle, CreateFails(h) PROVE StoreInv'
  <2>1. HandleInv(h)'
    BY <1>0, <1>1 DEF CreateFails, StoreInv, HandleInv, Closed, Holds
  <2> QED
    BY <1>0, <1>1, <2>1, HandleMoves, Zenon DEF CreateFails
<1>2. ASSUME NEW h \in Handle, CommitFails(h) PROVE StoreInv'
  <2>1. HandleInv(h)'
    BY <1>0, <1>2 DEF CommitFails, AfterFailure, HandleInv, Poisoned, Holds
  <2> QED
    BY <1>0, <1>2, <2>1, HandleMoves, Zenon DEF CommitFails, AfterFailure
<1>3. ASSUME NEW h \in Handle, Drop(h) PROVE StoreInv'
  <2>1. HandleInv(h)'
    BY <1>0, <1>3 DEF Drop, HandleInv, Closed, Holds
  <2>2. wrote' \in [Handle -> SUBSET Row] /\ \A g \in Handle \ {h} : wrote'[g] = wrote[g]
    BY <1>0, <1>3 DEF Drop
  <2> QED
    BY <1>0, <1>3, <2>1, <2>2, HandleMoves, Zenon DEF Drop
<1>4. CASE Restore \/ UNCHANGED vars
  <2>1. UNCHANGED <<store, drawn, sealed, past, wrote>> /\ db' \in past \cup {db}
    BY <1>4 DEF Restore, vars
  <2>2. \A g \in Handle : HandleInv(g)'
    BY <2>1, OthersKeep DEF StoreInv
  <2>3. TypeOK' /\ db' \in past' \cup {Empty}
    BY <2>1 DEF StoreInv, TypeOK
  <2> QED
    BY <2>1, <2>2, <2>3 DEF StoreInv, NonceUnique
<1> QED
  BY <1>1, <1>2, <1>3, <1>4, CreateSealKeeps, CreateCommitKeeps, OpenKeeps, CommitSealKeeps,
     CommitUpdateKeeps DEF Next

\* An empty database and closed handles satisfy it.
LEMMA InitStore == Init => StoreInv
  BY StoreAssumption
  DEF Init, StoreInv, TypeOK, HandleInv, Holds, Closed, NonceUnique

\* The store keeps its promises whatever its handles do: the database always
\* opens (DatabaseOpens), what a handle holds is durable (HeldIsDurable), a
\* handle never forgets its own write (OwnWriteKnown), no nonce is used twice
\* under one DEK (NonceUnique).
THEOREM StoreSafe ==
  Spec => [](TypeOK /\ DatabaseOpens /\ HeldIsDurable /\ OwnWriteKnown /\ NonceUnique)
<1>1. StoreInv /\ [Next]_vars => StoreInv'
  BY StoreStep
<1>2. StoreInv => TypeOK /\ DatabaseOpens /\ HeldIsDurable /\ OwnWriteKnown /\ NonceUnique
  BY DEF StoreInv, DatabaseOpens, HeldIsDurable, OwnWriteKnown, HandleInv
<1> QED
  BY InitStore, <1>1, <1>2, PTL DEF Spec

\* Handles, rows and directories hold values of their types (TypeOK).
THEOREM TypeCorrect == Spec => []TypeOK
  BY StoreSafe, PTL

\* Whatever crashes between the writes of ClientStateStore, the database opens
\* again (DatabaseOpens).
THEOREM OpensAfterCrash == Spec => []DatabaseOpens
  BY StoreSafe, PTL

\* A handle holds only what commit has made durable (HeldIsDurable).
THEOREM MemoryFollowsDisk == Spec => []HeldIsDurable
  BY StoreSafe, PTL

\* A handle whose commit may have reached the disk does not go on without knowing
\* it (OwnWriteKnown).
THEOREM UncertainWriteNotHidden == Spec => []OwnWriteKnown
  BY StoreSafe, PTL

-----------------------------------------------------------------------------
(***************************************************************************)
(* The store implements StateRegister.  The mapped variables:              *)
(***************************************************************************)
MappedRegister == IF db = Empty THEN RegisterNone ELSE SnapshotOf(db)
SeenBy(h) ==
  IF Holds(h) THEN [generation |-> store[h].row.generation, state |-> store[h].state]
  ELSE IF store[h].phase = "opening" THEN SnapshotOf(store[h].row)
  ELSE RegisterNone
MappedSeen == [h \in Handle |-> SeenBy(h)]
MappedEver == {SnapshotOf(row) : row \in past}
mapped == <<MappedRegister, MappedSeen, MappedEver>>

\* A step that moves one handle changes one component of the mapped `seen'.
LEMMA SeenMoves ==
  ASSUME StoreInv, NEW h \in Handle, NEW held, store' = [store EXCEPT ![h] = held]
  PROVE  MappedSeen' = [MappedSeen EXCEPT ![h] = SeenBy(h)']
<1>1. \A g \in Handle \ {h} : SeenBy(g)' = SeenBy(g)
  BY DEF SeenBy, Holds, StoreInv, TypeOK
<1> QED
  BY <1>1, Zenon DEF MappedSeen

\* What is durable is a snapshot, never the abstract None.
LEMMA RowIsSnapshot ==
  ASSUME NEW row \in Row
  PROVE  row # Empty /\ SnapshotOf(row) # RegisterNone
<1>1. row.generation # 0
  BY StoreAssumption DEF Row
<1> QED
  BY <1>1 DEF Empty, SnapshotOf, RegisterNone

\* Moving a handle without touching the database is a stutter or a Forget.
LEMMA QuietStep ==
  ASSUME StoreInv, NEW h \in Handle, NEW held, store' = [store EXCEPT ![h] = held],
         UNCHANGED <<db, past>>, SeenBy(h)' \in {SeenBy(h), RegisterNone}
  PROVE  Register!Next \/ UNCHANGED mapped
<1>1. MappedRegister' = MappedRegister /\ MappedEver' = MappedEver
  BY DEF MappedRegister, MappedEver
<1>2. MappedSeen' = [MappedSeen EXCEPT ![h] = SeenBy(h)']
  BY SeenMoves, Zenon
<1>3. CASE SeenBy(h)' = SeenBy(h)
  <2>1. MappedSeen' = MappedSeen
    BY <1>2, <1>3, Zenon DEF MappedSeen
  <2> QED
    BY <1>1, <2>1 DEF mapped
<1>4. CASE SeenBy(h)' = RegisterNone
  <2>1. Register!Forget(h)
    BY <1>1, <1>2, <1>4, Zenon
    DEF Register!Forget, Register!None, RegisterNone, MappedSeen, MappedRegister, MappedEver,
        SeenBy
  <2> QED
    BY <2>1 DEF Register!Next
<1> QED
  BY <1>3, <1>4

\* Making a row durable installs its snapshot, seen or not by its writer.
LEMMA InstallStep ==
  ASSUME StoreInv, NEW h \in Handle, NEW row \in Row, NEW held,
         db' = row, past' = past \cup {row}, store' = [store EXCEPT ![h] = held],
         SeenBy(h)' \in {SnapshotOf(row), RegisterNone}
  PROVE  /\ MappedRegister' = SnapshotOf(row)
         /\ MappedEver' = MappedEver \cup {SnapshotOf(row)}
         /\ \/ MappedSeen' = [MappedSeen EXCEPT ![h] = SnapshotOf(row)]
            \/ MappedSeen' = [MappedSeen EXCEPT ![h] = RegisterNone]
<1>1. MappedRegister' = SnapshotOf(row)
  BY RowIsSnapshot DEF MappedRegister
<1>2. MappedEver' = MappedEver \cup {SnapshotOf(row)}
  BY DEF MappedEver
<1>3. MappedSeen' = [MappedSeen EXCEPT ![h] = SeenBy(h)']
  BY SeenMoves, Zenon
<1> QED
  BY <1>1, <1>2, <1>3, Zenon

\* create's transaction is the register's Create.
LEMMA CreateRefines ==
  ASSUME StoreInv, NEW h \in Handle, CreateCommit(h)
  PROVE  Register!Next
<1> DEFINE row == store[h].row
           state == store[h].state
<1>0. /\ row \in Row /\ state \in State /\ row.generation = 1 /\ state = row.ciphertext.state
      /\ store \in [Handle -> HandleState]
  BY PhaseFields DEF StoreInv, TypeOK, HandleState, CreateCommit, HandleInv
<1>1. /\ db = Empty /\ db' = row /\ past' = past \cup {row}
      /\ \/ store' = [store EXCEPT ![h] = Usable(row, state)]
         \/ store' = [store EXCEPT ![h] = Closed]
  BY DEF CreateCommit
<1> HIDE DEF row, state
<1>2. SeenBy(h)' \in {SnapshotOf(row), RegisterNone}
  BY <1>0, <1>1 DEF SeenBy, Holds, Usable, Closed, SnapshotOf
<1>3. /\ MappedRegister' = SnapshotOf(row)
      /\ MappedEver' = MappedEver \cup {SnapshotOf(row)}
      /\ \/ MappedSeen' = [MappedSeen EXCEPT ![h] = SnapshotOf(row)]
         \/ MappedSeen' = [MappedSeen EXCEPT ![h] = RegisterNone]
  BY <1>0, <1>1, <1>2, InstallStep
<1>4. SnapshotOf(row) = Register!Snapshot(1, state)
  BY <1>0 DEF SnapshotOf, Register!Snapshot
<1>5. Register!Create(h, state)
  BY <1>1, <1>3, <1>4
  DEF Register!Create, Register!Install, Register!None, RegisterNone,
      MappedRegister, MappedSeen, MappedEver, SeenBy
<1> QED
  BY <1>0, <1>5 DEF Register!Next

\* commit's transaction is the register's Write: the row it replaces is the row
\* the handle holds, so the snapshot it replaces is the one the caller saw.
LEMMA CommitRefines ==
  ASSUME StoreInv, NEW h \in Handle, CommitUpdate(h)
  PROVE  Register!Next
<1> DEFINE next == store[h].next
           state == store[h].next_state
<1>0. /\ next \in Row /\ state \in State /\ next.generation = db.generation + 1
      /\ state = next.ciphertext.state /\ store \in [Handle -> HandleState]
      /\ db \in Row /\ SeenBy(h) = SnapshotOf(db)
  BY PhaseFields
  DEF StoreInv, TypeOK, HandleState, CommitUpdate, RowMatches, HandleInv, Holds, SeenBy, SnapshotOf
<1>1. /\ db' = next /\ past' = past \cup {next}
      /\ \/ store' = [store EXCEPT ![h] = Usable(next, state)]
         \/ store' = [store EXCEPT ![h] = Poisoned]
  BY DEF CommitUpdate, Installed, AfterFailure
<1> HIDE DEF next, state
<1>2. SeenBy(h)' \in {SnapshotOf(next), RegisterNone}
  BY <1>0, <1>1 DEF SeenBy, Holds, Usable, Poisoned, SnapshotOf
<1>3. /\ MappedRegister' = SnapshotOf(next)
      /\ MappedEver' = MappedEver \cup {SnapshotOf(next)}
      /\ \/ MappedSeen' = [MappedSeen EXCEPT ![h] = SnapshotOf(next)]
         \/ MappedSeen' = [MappedSeen EXCEPT ![h] = RegisterNone]
  BY <1>0, <1>1, <1>2, InstallStep
<1>4. MappedRegister = SnapshotOf(db) /\ SnapshotOf(db) # RegisterNone
      /\ MappedSeen[h] = SnapshotOf(db)
  BY <1>0, RowIsSnapshot DEF MappedRegister, MappedSeen
<1>5. SnapshotOf(next) = Register!Snapshot(SnapshotOf(db).generation + 1, state)
  BY <1>0 DEF SnapshotOf, Register!Snapshot
<1>6. Register!Write(h, state)
  BY <1>3, <1>4, <1>5, Zenon
  DEF Register!Write, Register!Install, Register!None, RegisterNone,
      MappedRegister, MappedSeen, MappedEver, SeenBy
<1> QED
  BY <1>0, <1>6 DEF Register!Next

\* Every step of the store is a step of the register or changes nothing of it.
LEMMA StepRefines ==
  ASSUME StoreInv, [Next]_vars
  PROVE  Register!Next \/ UNCHANGED mapped
<1>0. store \in [Handle -> HandleState]
  BY DEF StoreInv, TypeOK, HandleState
<1>1. ASSUME NEW h \in Handle, NEW binding \in Binding, OpenRead(h, binding)
      PROVE  Register!Next \/ UNCHANGED mapped
  <2>1. CASE store' = store
    BY <1>1, <2>1 DEF OpenRead, HasSchema, RowOf, mapped, MappedRegister, MappedSeen, MappedEver, SeenBy, Holds
  <2>2. CASE db # Empty /\ store' = [store EXCEPT ![h] = Opening(binding, db)]
    <3>1. SeenBy(h)' = SnapshotOf(db)
      BY <1>0, <2>2 DEF SeenBy, Holds, Opening
    <3>2. MappedSeen' = [MappedSeen EXCEPT ![h] = SnapshotOf(db)]
      BY <2>2, <3>1, SeenMoves, Zenon
    <3>3. MappedRegister = SnapshotOf(db) /\ MappedRegister # RegisterNone
      BY <2>2, RowIsSnapshot DEF MappedRegister, StoreInv, TypeOK
    <3>4. MappedRegister' = MappedRegister /\ MappedEver' = MappedEver
      BY <1>1 DEF OpenRead, HasSchema, RowOf, MappedRegister, MappedEver
    <3>5. Register!Read(h)
      BY <3>2, <3>3, <3>4, Zenon
      DEF Register!Read, Register!None, RegisterNone, MappedSeen, MappedRegister, MappedEver, SeenBy
    <3> QED
      BY <3>5 DEF Register!Next
  <2> QED
    BY <1>1, <2>1, <2>2 DEF OpenRead, HasSchema, RowOf
<1>2. ASSUME NEW h \in Handle, NEW binding \in Binding, NEW state \in State,
             CreateSeal(h, binding, state)
      PROVE  Register!Next \/ UNCHANGED mapped
  <2>1. CASE store' = store
    BY <1>2, <2>1 DEF CreateSeal, mapped, MappedRegister, MappedSeen, MappedEver, SeenBy, Holds
  <2>2. ASSUME NEW row, store' = [store EXCEPT ![h] = Creating(row, state)]
        PROVE  Register!Next \/ UNCHANGED mapped
    <3>1. SeenBy(h)' = RegisterNone
      BY <1>0, <2>2 DEF SeenBy, Holds, Creating
    <3> QED
      BY <1>2, <2>2, <3>1, QuietStep, Zenon DEF CreateSeal
  <2> QED
    BY <1>2, <2>1, <2>2 DEF CreateSeal
<1>3. ASSUME NEW h \in Handle, NEW state \in State, CommitSeal(h, state)
      PROVE  Register!Next \/ UNCHANGED mapped
  <2>1. ASSUME NEW next, store' = [store EXCEPT ![h] =
                                     Committing(store[h].row, store[h].state, next, state)]
        PROVE  Register!Next \/ UNCHANGED mapped
    <3>1. SeenBy(h)' = SeenBy(h)
      BY <1>0, <1>3, <2>1 DEF CommitSeal, SeenBy, Holds, Committing
    <3> QED
      BY <1>3, <2>1, <3>1, QuietStep, Zenon DEF CommitSeal
  <2>2. CASE store' = [store EXCEPT ![h] = Poisoned]
    <3>1. SeenBy(h)' = RegisterNone
      BY <1>0, <2>2 DEF SeenBy, Holds, Poisoned
    <3> QED
      BY <1>3, <2>2, <3>1, QuietStep, Zenon DEF CommitSeal
  <2> QED
    BY <1>3, <2>1, <2>2 DEF CommitSeal, AfterFailure
<1>4. ASSUME NEW h \in Handle, CreateFails(h) \/ CommitFails(h) \/ Drop(h)
      PROVE  Register!Next \/ UNCHANGED mapped
  <2>1. PICK held \in {Closed, Poisoned} : store' = [store EXCEPT ![h] = held]
    BY <1>4 DEF CreateFails, CommitFails, Drop, AfterFailure
  <2>2. SeenBy(h)' = RegisterNone
    BY <1>0, <2>1 DEF SeenBy, Holds, Closed, Poisoned
  <2> QED
    BY <1>4, <2>1, <2>2, QuietStep, Zenon DEF CreateFails, CommitFails, Drop
<1>5. ASSUME NEW h \in Handle, OpenAuthenticate(h)
      PROVE  Register!Next \/ UNCHANGED mapped
  <2>1. store' = [store EXCEPT ![h] = Usable(store[h].row, store[h].row.ciphertext.state)]
    BY <1>5, Zenon DEF OpenAuthenticate, StoreInv, HandleInv
  <2>2. SeenBy(h)' = SeenBy(h)
    BY <1>0, <1>5, <2>1 DEF OpenAuthenticate, SeenBy, Holds, Usable, SnapshotOf
  <2> QED
    BY <1>5, <2>1, <2>2, QuietStep, Zenon DEF OpenAuthenticate
<1>6. CASE Restore
  <2>1. MappedRegister' \in MappedEver
    BY <1>6, RowIsSnapshot, Zenon DEF Restore, MappedRegister, MappedEver, StoreInv, TypeOK
  <2>2. MappedSeen' = MappedSeen /\ MappedEver' = MappedEver
    BY <1>6 DEF Restore, MappedSeen, MappedEver, SeenBy, Holds
  <2>3. Register!Restore
    BY <2>1, <2>2 DEF Register!Restore, MappedRegister, MappedSeen, MappedEver, SeenBy
  <2> QED
    BY <2>3 DEF Register!Next
<1>7. CASE UNCHANGED vars
  BY <1>7 DEF vars, mapped, MappedRegister, MappedSeen, MappedEver, SeenBy, Holds
<1> QED
  BY <1>1, <1>2, <1>3, <1>4, <1>5, <1>6, <1>7, CreateRefines, CommitRefines DEF Next

\* The store is a compare-and-swap register (ImplementsRegister): no commit
\* overwrites a snapshot its caller has not seen, even after a restored database
\* has repeated a generation.
THEOREM StoreImplementsRegister == Spec => ImplementsRegister
<1>1. StoreInv /\ [Next]_vars => StoreInv'
  BY StoreStep
<1>2. Init => Register!Init
  BY DEF Init, Register!Init, Register!None, RegisterNone, Holds, Closed
<1>3. StoreInv /\ [Next]_vars => [Register!Next]_mapped
  BY StepRefines
<1>4. StoreInv /\ [Next]_vars =>
        [Register!Next]_<<IF db = Empty THEN RegisterNone ELSE SnapshotOf(db),
                          [h \in Handle |->
                             IF Holds(h)
                             THEN [generation |-> store[h].row.generation, state |-> store[h].state]
                             ELSE IF store[h].phase = "opening" THEN SnapshotOf(store[h].row)
                             ELSE RegisterNone],
                          {SnapshotOf(row) : row \in past}>>
  BY <1>3 DEF mapped, MappedRegister, MappedSeen, MappedEver, SeenBy
<1> QED
  BY InitStore, <1>1, <1>2, <1>4, PTL DEF Spec, ImplementsRegister, Register!Spec

=============================================================================
