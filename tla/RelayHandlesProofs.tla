------------------------- MODULE RelayHandlesProofs -------------------------
(***************************************************************************)
(* The facts between the relay's tables hold whatever number of handles    *)
(* share the database and however stale the clock value of a transaction.  *)
(***************************************************************************)
EXTENDS RelayHandles, RelayProofs

HInv == TableInv /\ HTypeOK

\* A waiting call is one a caller could have made.
LEMMA WaitingCall ==
  ASSUME HTypeOK, NEW h \in Handle, Waiting(h)
  PROVE  call[h] \in Call
  BY DEF HTypeOK, Waiting

\* A transaction run by a handle is an operation of Relay at the call's `now'.
LEMMA RunIsOperation ==
  ASSUME HTypeOK, NEW h \in Handle, Run(h)
  PROVE  Operation(call[h].now) /\ call[h].now \in 0..MaxClock
<1>1. call[h] \in Call
  BY WaitingCall DEF Run
<1>2. /\ call[h].now \in 0..MaxClock
      /\ call[h].op = "register" => call[h].req \in Registrations
      /\ call[h].op = "enqueue" => call[h].req \in Sends
      /\ call[h].op = "fetch" => call[h].req \in Fetches
      /\ call[h].op = "acknowledge" => call[h].req \in Acks
      /\ call[h].op = "delete_mailbox" => call[h].req \in Deletes
  BY <1>1 DEF Call
<1> QED
  BY <1>2 DEF Run, Operation

\* Every step of every handle keeps HInv.
LEMMA HandleStep ==
  ASSUME HInv, [HNext]_hvars
  PROVE  HInv'
<1>0. HTypeOK /\ TableInv /\ TypeOK
  BY DEF HInv, HTypeOK
<1>1. ASSUME NEW h \in Handle, Run(h) PROVE HInv'
  <2>1. TableInv'
    BY <1>0, <1>1, RunIsOperation, OperationKeepsTables, Zenon DEF Run
  <2>2. call' \in [Handle -> Call \cup {Closed, Idle}]
    BY <1>0, <1>1 DEF Run, HTypeOK
  <2> QED
    BY <2>1, <2>2 DEF HInv, HTypeOK, TableInv
<1>2. ASSUME UNCHANGED vars, call' \in [Handle -> Call \cup {Closed, Idle}] PROVE HInv'
  <2>1. TableInv'
    BY <1>0, <1>2, StepKeepsTables
  <2> QED
    BY <1>2, <2>1 DEF HInv, HTypeOK, TableInv
<1>3. ASSUME NEW h \in Handle, NEW c \in Call, Begin(h, c) PROVE HInv'
  BY <1>0, <1>2, <1>3 DEF Begin, HTypeOK
<1>4. ASSUME NEW h \in Handle, BusyTimeout(h) \/ Crash(h) PROVE HInv'
  BY <1>0, <1>2, <1>4 DEF BusyTimeout, Crash, HTypeOK
<1>5. CASE HTick
  <2>1. TableInv'
    BY <1>0, <1>5, StepKeepsTables DEF HTick, Next
  <2> QED
    BY <1>0, <1>5, <2>1 DEF HInv, HTypeOK, TableInv, HTick
<1>6. CASE UNCHANGED hvars
  BY <1>0, <1>2, <1>6 DEF hvars, HTypeOK
<1> QED
  BY <1>1, <1>3, <1>4, <1>5, <1>6 DEF HNext

\* Sharing the database is safe for the tables (HTypeOK, KeysHold,
\* QueuedOrTombstoned, RetiredForever, RegistrationNonceBacked): transactions that
\* use a clock value older than an earlier sweep cannot make them disagree.
THEOREM SharedTablesConsistent ==
  HSpec => [](HTypeOK /\ KeysHold /\ QueuedOrTombstoned /\ RetiredForever
              /\ RegistrationNonceBacked)
<1>1. HInit => HInv
  BY InitTables DEF HInit, HInv, HTypeOK, TableInv
<1>2. HInv /\ [HNext]_hvars => HInv'
  BY HandleStep
<1>3. HInv => /\ HTypeOK /\ KeysHold /\ QueuedOrTombstoned /\ RetiredForever
              /\ RegistrationNonceBacked
  BY DEF HInv, TableInv
<1> QED
  BY <1>1, <1>2, <1>3, PTL DEF HSpec

\* Every handle is closed, idle or in a call that could have been made, and what
\* the handles write together is well typed (HTypeOK).
THEOREM HandlesTypeCorrect == HSpec => []HTypeOK
  BY SharedTablesConsistent, PTL

-----------------------------------------------------------------------------
(***************************************************************************)
(* Answers given to late calls.  A waiting call holds a clock value that   *)
(* is at most MaxLag behind; the rows that answer for requests already     *)
(* served must outlast that lag too.                                       *)
(***************************************************************************)
LagInv ==
  \A h \in Handle :
    Waiting(h) => call[h].now \in Nat /\ call[h].now <= clock /\ clock <= call[h].now + MaxLag

LateInv == HInv /\ LagInv

\* The clock of a call never falls further behind than MaxLag.
LEMMA LagStep ==
  ASSUME LateInv, [HNext]_hvars
  PROVE  LateInv'
<1>0. clock \in Nat /\ HTypeOK /\ HInv'
  BY HandleStep, BoundsAssumption DEF LateInv, HInv, HTypeOK, TypeOK
<1>1. ASSUME NEW g \in Handle, UNCHANGED clock, call' = [call EXCEPT ![g] = Closed]
      PROVE  LagInv'
  BY <1>0, <1>1 DEF LateInv, LagInv, Waiting, HTypeOK
<1>2. ASSUME NEW g \in Handle, UNCHANGED clock, call' = [call EXCEPT ![g] = Idle]
      PROVE  LagInv'
  BY <1>0, <1>2 DEF LateInv, LagInv, Waiting, HTypeOK
<1>3. ASSUME NEW h \in Handle, NEW c \in Call, Begin(h, c) PROVE LagInv'
  <2>1. UNCHANGED clock /\ call' = [call EXCEPT ![h] = c] /\ c.now = clock
    BY <1>3 DEF Begin, vars
  <2> QED
    BY <1>0, <2>1, LagAssumption DEF LateInv, LagInv, Waiting, HTypeOK
<1>4. ASSUME NEW h \in Handle, Run(h) \/ BusyTimeout(h) \/ Crash(h) PROVE LagInv'
  <2>1. UNCHANGED clock
    BY <1>4 DEF Run, BusyTimeout, Crash, vars
  <2>2. call' = [call EXCEPT ![h] = Closed] \/ call' = [call EXCEPT ![h] = Idle]
    BY <1>4 DEF Run, BusyTimeout, Crash
  <2> QED
    BY <1>1, <1>2, <2>1, <2>2
<1>5. ASSUME HTick PROVE LagInv'
  BY <1>0, <1>5, LagAssumption DEF LateInv, LagInv, Waiting, HTick, Tick
<1>6. ASSUME UNCHANGED hvars PROVE LagInv'
  BY <1>6 DEF LateInv, LagInv, Waiting, hvars, vars
<1>7. LagInv'
  BY <1>3, <1>4, <1>5, <1>6 DEF HNext
<1> QED
  BY <1>0, <1>7 DEF LateInv

\* Calls are at most MaxLag late in every state of every handle.
THEOREM CallsAtMostLate == HSpec => []LateInv
<1>1. HInit => LateInv
  BY InitTables DEF HInit, HInv, HTypeOK, TableInv, LateInv, LagInv, Waiting
<1>2. LateInv /\ [HNext]_hvars => LateInv'
  BY LagStep
<1> QED
  BY <1>1, <1>2, PTL DEF HSpec

\* Handles that get the lock in the second in which they read the clock are one
\* Relay: the tables behave as if a single handle ran every operation.
THEOREM PromptHandlesImplementRelay ==
  ASSUME MaxLag = 0
  PROVE  HSpec => Spec
<1>1. ASSUME LateInv, [HNext]_hvars PROVE [Next]_vars
  <2>1. HTypeOK /\ clock \in Nat
    BY <1>1, BoundsAssumption DEF LateInv, HInv, HTypeOK, TypeOK
  <2>2. ASSUME NEW h \in Handle, Run(h) PROVE Next
    <3>1. Operation(call[h].now) /\ Waiting(h) /\ UNCHANGED clock
      BY <2>1, <2>2, RunIsOperation, Zenon DEF Run
    <3>2. call[h].now = clock
      BY <1>1, <2>1, <3>1 DEF LateInv, LagInv
    <3> QED
      BY <3>1, <3>2, Zenon DEF Next
  <2>3. ASSUME NEW h \in Handle, (\E c \in Call : Begin(h, c)) \/ BusyTimeout(h) \/ Crash(h)
        PROVE  UNCHANGED vars
    BY <2>3 DEF Begin, BusyTimeout, Crash
  <2>4. ASSUME HTick PROVE Next
    BY <2>4 DEF HTick, Next
  <2> QED
    BY <1>1, <2>2, <2>3, <2>4 DEF HNext, hvars
<1>2. HInit => Init
  BY DEF HInit
<1> QED
  BY <1>1, <1>2, CallsAtMostLate, PTL DEF HSpec, Spec

\* A step of the handles is a transaction at a clock value at most MaxLag old,
\* or leaves the tables alone while the clock does not go back.
LEMMA StepShape ==
  ASSUME LateInv, [HNext]_hvars
  PROVE  \/ \E now \in Nat : /\ now <= clock /\ clock <= now + MaxLag
                             /\ Operation(now) /\ clock' = clock
         \/ UNCHANGED <<tables, history>> /\ clock' \in Nat /\ clock <= clock'
<1>0. clock \in Nat /\ HTypeOK
  BY BoundsAssumption DEF LateInv, HInv, HTypeOK, TypeOK
<1>1. ASSUME NEW h \in Handle, Run(h)
      PROVE  \E now \in Nat : /\ now <= clock /\ clock <= now + MaxLag
                              /\ Operation(now) /\ clock' = clock
  <2>1. Operation(call[h].now) /\ Waiting(h) /\ clock' = clock
    BY <1>0, <1>1, RunIsOperation, Zenon DEF Run
  <2>2. call[h].now \in Nat /\ call[h].now <= clock /\ clock <= call[h].now + MaxLag
    BY <2>1 DEF LateInv, LagInv
  <2> QED
    BY <2>1, <2>2
<1>2. ASSUME UNCHANGED vars
      PROVE  UNCHANGED <<tables, history>> /\ clock' \in Nat /\ clock <= clock'
  BY <1>0, <1>2 DEF vars
<1>3. CASE HTick
  BY <1>0, <1>3 DEF HTick, Tick
<1>4. ASSUME NEW h \in Handle, (\E c \in Call : Begin(h, c)) \/ BusyTimeout(h) \/ Crash(h)
      PROVE  UNCHANGED vars
  BY <1>4 DEF Begin, BusyTimeout, Crash
<1> QED
  BY <1>1, <1>2, <1>3, <1>4 DEF HNext, hvars

\* Sharing the database loses no message (MessageKeptUntilDone): a sweep with a
\* late clock value removes only what has expired by the clock.
THEOREM SharedMessagesKept == HSpec => MessageKeptUntilDone
<1>1. LateInv /\ [HNext]_hvars => [\A m \in messages \ messages' : Justified(m)]_vars
  <2> SUFFICES ASSUME LateInv, [HNext]_hvars, NEW m \in messages, m \notin messages'
               PROVE  Justified(m)
    OBVIOUS
  <2>1. PICK now \in Nat : now <= clock /\ Operation(now)
    BY StepShape DEF tables
  <2> QED
    BY <2>1, OperationJustified DEF LateInv, HInv
<1>2. LateInv /\ [HNext]_hvars =>
        [\A m \in messages \ messages' :
           \/ m.expires_at <= clock
           \/ ~HasMailbox(m.queue_id)'
           \/ \E a \in acked' : /\ a.row = m
                                /\ a.ack.packet_hash = Digest(m.ciphertext)
                                /\ ReceiveKeyVerifies(a.ack)]_vars
  BY <1>1 DEF Justified
<1> QED
  BY CallsAtMostLate, <1>2, PTL DEF HSpec, MessageKeptUntilDone

\* Marks of served fetches survive every step of every handle.
LEMMA FetchedStep ==
  ASSUME LateInv, [HNext]_hvars, \A f \in fetched : FetchedMark(f)
  PROVE  \A f \in fetched' : FetchedMark(f)'
<1>0. /\ TableInv /\ clock \in Nat /\ fetched \subseteq Fetches
      /\ \A f \in Fetches : f.valid_until \in Nat
  BY BoundsAssumption, RequestAssumption
  DEF LateInv, HInv, TableInv, TypeOK, FetchRequest, Timestamp
<1>1. ASSUME NEW now \in Nat, now <= clock, Operation(now), clock' = clock,
             NEW f \in fetched'
      PROVE  FetchedMark(f)'
  <2>1. Keeps(now)
    BY <1>0, <1>1, OperationKeeps
  <2>2. CASE f \in fetched
    BY <1>0, <1>1, <2>1, <2>2, FetchedMarkStays
  <2>3. CASE f \notin fetched
    <3>1. PICK req \in Fetches : /\ Fetch(req, now) /\ FetchOutcome(req, now) = "Fetched"
                                 /\ \A b \in fetched' \ fetched : b = req
      BY <1>1, <2>3, HistoryMoves DEF Records, history
    <3>2. f \in Fetches /\ Fetch(f, now) /\ FetchOutcome(f, now) = "Fetched"
      BY <1>1, <2>3, <3>1
    <3>3. HasMailbox(f.queue_id) /\ FitsI64(f.valid_until)
      BY <3>2 DEF FetchOutcome
    <3> DEFINE nonce == [queue_id |-> f.queue_id, role |-> "receive", nonce |-> f.nonce,
                         delete_after |-> f.valid_until]
    <3>4. nonce \in request_nonces' /\ mailboxes' = mailboxes
      BY <3>2 DEF Fetch
    <3>5. /\ nonce.queue_id = f.queue_id /\ nonce.role = "receive" /\ nonce.nonce = f.nonce
          /\ f.valid_until <= nonce.delete_after
      BY <1>0, <3>2
    <3>6. HasMailbox(f.queue_id)'
      BY <3>3, <3>4 DEF HasMailbox
    <3> HIDE DEF nonce
    <3> QED
      BY <3>3, <3>4, <3>5, <3>6 DEF FetchedMark, Backed, FitsI64
  <2> QED
    BY <2>2, <2>3
<1>2. ASSUME UNCHANGED <<tables, history>>, clock' \in Nat, clock <= clock', NEW f \in fetched'
      PROVE  FetchedMark(f)'
  <2>1. f \in fetched /\ FetchedMark(f) /\ f.valid_until \in Nat
    BY <1>0, <1>2 DEF history
  <2> QED
    BY <1>0, <1>2, <2>1 DEF tables, FetchedMark, Backed, HasMailbox, Retired, FitsI64
<1> QED
  BY <1>1, <1>2, StepShape

\* A fetch whose deadline has not passed is served once (FetchServedOnceWhileValid),
\* however many handles receive it and however late they run.
THEOREM SharedFetchReplayRefused == HSpec => []FetchServedOnceWhileValid
<1> DEFINE Marked == \A f \in fetched : FetchedMark(f)
<1>1. HInit => Marked
  BY DEF HInit, Init
<1>2. LateInv /\ Marked /\ [HNext]_hvars => Marked'
  BY FetchedStep
<1>3. LateInv /\ Marked => FetchServedOnceWhileValid
  <2> SUFFICES ASSUME LateInv, Marked, NEW h \in Handle, call[h].op = "fetch",
                      call[h].req \in fetched, clock < call[h].req.valid_until,
                      FetchOutcome(call[h].req, call[h].now) = "Fetched"
               PROVE  FALSE
    BY DEF FetchServedOnceWhileValid
  <2> DEFINE f == call[h].req
             now == call[h].now
  <2>1. Waiting(h)
    BY DEF Waiting, Closed, Idle
  <2>2. now \in Nat /\ now <= clock /\ clock \in Nat
    BY <2>1, BoundsAssumption DEF LateInv, LagInv, HInv, TableInv, TypeOK
  <2>3. /\ f.valid_until \in Nat /\ FetchedMark(f)
        /\ \A n \in request_nonces : n.delete_after \in Nat
    BY RequestAssumption, BoundsAssumption
    DEF LateInv, HInv, TableInv, TypeOK, FetchRequest, Timestamp, RequestNonce, StoredTimestamp
  <2>4. HasMailbox(f.queue_id) /\ ~NonceRecorded(f, "receive", now)
    BY DEF FetchOutcome
  <2> HIDE DEF f, now
  <2>5. clock < f.valid_until
    BY DEF f
  <2>6. PICK n \in request_nonces :
          /\ n.queue_id = f.queue_id /\ n.role = "receive" /\ n.nonce = f.nonce
          /\ f.valid_until <= n.delete_after
    BY <2>2, <2>3, <2>4, <2>5 DEF FetchedMark
  <2>7. n.delete_after > now
    BY <2>2, <2>3, <2>5, <2>6
  <2> QED
    BY <2>4, <2>6, <2>7 DEF NonceRecorded, UnexpiredRequestNonces
<1> HIDE DEF Marked
<1> QED
  BY <1>1, <1>2, <1>3, CallsAtMostLate, PTL DEF HSpec

-----------------------------------------------------------------------------
\* The limits of the code, by a wide margin: i64::MAX is below u64::MAX, and a
\* tombstone outlives the request window by more than a call can be late.
LagCovered == I64Max < U64Max /\ RequestWindow + MaxLag <= TombstoneTtl

\* the tombstone that will answer a completed ACK retried up to MaxLag late
LateAckedMark(req) ==
  /\ FitsI64(req.valid_until)
  /\ Backed(req.queue_id)
  /\ HasMailbox(req.queue_id) => ReceiveKeyVerifies(req)
  /\ \/ req.valid_until + MaxLag <= clock
     \/ ~HasMailbox(req.queue_id)
     \/ \E t \in tombstones : SameMessageId(t, req) /\ req.valid_until + MaxLag <= t.delete_after

\* An unexpired tombstone is never replaced: an ACK deletes only what is queued,
\* and a tombstoned id is not.
LEMMA TombstonesStay ==
  ASSUME TableInv, NEW now, Operation(now), NEW t \in tombstones, t.delete_after > now
  PROVE  t \in tombstones' \/ ~HasMailbox(t.queue_id)'
<1>1. t \in UnexpiredTombstones(now)
  BY DEF UnexpiredTombstones
<1>2. ASSUME NEW req \in Acks, Acknowledge(req, now) PROVE t \in tombstones'
  <2>1. CASE AckOutcome(req, now) = "Deleted"
    <3>1. PICK m : m \in Queued(req, now)
      BY <2>1 DEF AckOutcome
    <3>2. ~SameMessageId(t, req)
      BY <3>1 DEF Queued, UnexpiredMessages, TableInv, QueuedOrTombstoned, SameMessageId
    <3> QED
      BY <1>1, <1>2, <2>1, <3>2 DEF Acknowledge, WithTombstone
  <2> QED
    BY <1>1, <1>2, <2>1 DEF Acknowledge, SweepOnly, Rollback, tables
<1>3. ASSUME NEW req \in Deletes, DeleteMailbox(req, now)
      PROVE  t \in tombstones' \/ ~HasMailbox(t.queue_id)'
  BY <1>1, <1>3 DEF DeleteMailbox, Rollback, tables, SurvivingRows, HasMailbox
<1>4. CASE PurgeExpired(now)
  BY <1>1, <1>4 DEF PurgeExpired, SweepOnly, Rollback, tables
<1>5. CASE \/ \E req \in Registrations : Register(req, now)
           \/ \E req \in Sends : Enqueue(req, now)
           \/ \E req \in Fetches : Fetch(req, now)
  BY <1>1, <1>5 DEF Register, Enqueue, Fetch, SweepOnly, Rollback, tables
<1> QED
  BY <1>2, <1>3, <1>4, <1>5 DEF Operation

\* Marks of completed ACKs survive every step of every handle.
LEMMA AckedStep ==
  ASSUME LagCovered, LateInv, [HNext]_hvars, \A a \in acked : LateAckedMark(a.ack)
  PROVE  \A a \in acked' : LateAckedMark(a.ack)'
<1>0. /\ TableInv /\ clock \in Nat /\ MaxLag \in Nat /\ \A a \in acked : a.ack \in Acks
      /\ \A a \in Acks : a.valid_until \in Nat
      /\ \A t \in tombstones : t.delete_after \in Nat
  BY BoundsAssumption, RequestAssumption, LagAssumption
  DEF LateInv, HInv, TableInv, TypeOK, AckRequest, Timestamp, Tombstone, StoredTimestamp
<1>1. ASSUME NEW now \in Nat, now <= clock, Operation(now), clock' = clock,
             NEW a \in acked
      PROVE  LateAckedMark(a.ack)'
  <2> DEFINE req == a.ack
  <2>1. Keeps(now)
    BY <1>0, <1>1, OperationKeeps
  <2>2. req.valid_until \in Nat /\ LateAckedMark(req)
    BY <1>0, <1>1
  <2> HIDE DEF req
  <2>3. Backed(req.queue_id)' /\ FitsI64(req.valid_until)'
    BY <2>1, <2>2 DEF Keeps, LateAckedMark, FitsI64
  <2>4. HasMailbox(req.queue_id)' => ReceiveKeyVerifies(req)'
    BY <1>0, <2>1, <2>2, KeysStay DEF LateAckedMark, ReceiveKeyVerifies
  <2>5. ASSUME HasMailbox(req.queue_id)', ~(req.valid_until + MaxLag <= clock)
        PROVE  \E u \in tombstones' :
                 SameMessageId(u, req) /\ req.valid_until + MaxLag <= u.delete_after
    <3>1. PICK t \in tombstones :
            SameMessageId(t, req) /\ req.valid_until + MaxLag <= t.delete_after
      BY <1>0, <2>1, <2>2, <2>5, KeysStay DEF LateAckedMark
    <3>2. t.delete_after > now /\ t.queue_id = req.queue_id
      BY <1>0, <1>1, <2>2, <2>5, <3>1 DEF SameMessageId
    <3>3. t \in tombstones'
      BY <1>0, <1>1, <2>5, <3>2, TombstonesStay
    <3> QED
      BY <3>1, <3>3 DEF SameMessageId
  <2>6. LateAckedMark(req)'
    BY <1>1, <2>3, <2>4, <2>5 DEF LateAckedMark
  <2> QED
    BY <2>6 DEF req
<1>2. ASSUME NEW now \in Nat, now <= clock, Operation(now), NEW a \in acked' \ acked
      PROVE  LateAckedMark(a.ack)'
  <2>1. PICK req \in Acks : /\ Acknowledge(req, now) /\ AckOutcome(req, now) = "Deleted"
                            /\ \A b \in acked' \ acked : b.ack = req
    BY <1>2, HistoryMoves DEF Records, history
  <2>2. /\ ValidRequestTime(req.valid_until, now) /\ FitsI64(TombstoneDeadline(now))
        /\ HasMailbox(req.queue_id) /\ ReceiveKeyVerifies(req)
    BY <2>1 DEF AckOutcome
  <2>3. TombstoneDeadline(now) = now + TombstoneTtl
    BY <2>2, BoundsAssumption DEF TombstoneDeadline, SaturatingAdd, FitsI64, LagCovered
  <2>4. /\ req.valid_until \in Nat
        /\ req.valid_until + MaxLag <= TombstoneDeadline(now) /\ FitsI64(req.valid_until)
    BY <1>0, <2>2, <2>3, BoundsAssumption
    DEF ValidRequestTime, SaturatingAdd, FitsI64, LagCovered
  <2> DEFINE stone == [queue_id |-> req.queue_id, message_id |-> req.message_id,
                       delete_after |-> TombstoneDeadline(now)]
  <2>5. stone \in tombstones' /\ mailboxes' = mailboxes
    BY <2>1 DEF Acknowledge, WithTombstone
  <2>6. SameMessageId(stone, req) /\ stone.delete_after = TombstoneDeadline(now)
    BY DEF SameMessageId
  <2> HIDE DEF stone
  <2>7. HasMailbox(req.queue_id)' /\ ReceiveKeyVerifies(req)'
    BY <2>2, <2>5, Zenon DEF HasMailbox, ReceiveKeyVerifies
  <2>8. LateAckedMark(req)'
    BY <2>4, <2>5, <2>6, <2>7, Zenon DEF LateAckedMark, Backed, FitsI64, SameMessageId
  <2> QED
    BY <1>2, <2>1, <2>8
<1>3. ASSUME UNCHANGED <<tables, history>>, clock' \in Nat, clock <= clock', NEW a \in acked'
      PROVE  LateAckedMark(a.ack)'
  <2>1. a \in acked /\ LateAckedMark(a.ack) /\ a.ack.valid_until \in Nat
    BY <1>0, <1>3 DEF history
  <2> QED
    BY <1>0, <1>3, <2>1, SMTT(40)
    DEF tables, LateAckedMark, Backed, HasMailbox, Retired, ReceiveKeyVerifies, FitsI64
<1> QED
  BY <1>1, <1>2, <1>3, StepShape, Zenon

\* A lost ACK response can be asked for again through any handle, late or not
\* (AckRetryAcrossHandles), as long as tombstones outlive the window and the lag.
THEOREM SharedAckRetrySafe ==
  ASSUME LagCovered
  PROVE  HSpec => []AckRetryAcrossHandles
<1> DEFINE Marked == \A a \in acked : LateAckedMark(a.ack)
<1>1. HInit => Marked
  BY DEF HInit, Init
<1>2. LateInv /\ Marked /\ [HNext]_hvars => Marked'
  BY AckedStep, Zenon
<1>3. LateInv /\ Marked => AckRetryAcrossHandles
  <2> SUFFICES ASSUME LateInv, Marked, NEW h \in Handle, call[h].op = "acknowledge",
                      NEW a \in acked, a.ack = call[h].req
               PROVE  AckOutcome(call[h].req, call[h].now)
                        \in {"AlreadyDeleted", "RequestExpired", "MailboxNotFound"}
    BY DEF AckRetryAcrossHandles
  <2> DEFINE req == call[h].req
             now == call[h].now
  <2>1. Waiting(h)
    BY DEF Waiting, Closed, Idle
  <2>2. now \in Nat /\ now <= clock /\ clock <= now + MaxLag /\ clock \in Nat /\ MaxLag \in Nat
    BY <2>1, BoundsAssumption, LagAssumption DEF LateInv, LagInv, HInv, TableInv, TypeOK
  <2>3. /\ req.valid_until \in Nat /\ LateAckedMark(req) /\ QueuedOrTombstoned
        /\ \A t \in tombstones : t.delete_after \in Nat
    BY RequestAssumption, BoundsAssumption
    DEF LateInv, HInv, TableInv, TypeOK, AckRequest, Timestamp, Tombstone, StoredTimestamp
  <2> HIDE DEF req, now
  <2>4. CASE ~ValidRequestTime(req.valid_until, now)
    BY <2>4 DEF AckOutcome, req, now
  <2>5. CASE ValidRequestTime(req.valid_until, now)
    <3>1. now < req.valid_until /\ FitsI64(now)
      BY <2>2, <2>3, <2>5, BoundsAssumption DEF ValidRequestTime, LateAckedMark, FitsI64
    <3>2. CASE ~HasMailbox(req.queue_id)
      BY <2>5, <3>1, <3>2, Zenon DEF AckOutcome, req, now
    <3>3. CASE HasMailbox(req.queue_id)
      <4>1. PICK t \in tombstones :
              SameMessageId(t, req) /\ req.valid_until + MaxLag <= t.delete_after
        BY <2>2, <2>3, <3>1, <3>3 DEF LateAckedMark
      <4>2. Tombstoned(req, now)
        BY <2>2, <2>3, <3>1, <4>1 DEF Tombstoned, UnexpiredTombstones
      <4>3. Queued(req, now) = {}
        BY <2>3, <4>1 DEF Queued, UnexpiredMessages, QueuedOrTombstoned, SameMessageId
      <4>4. ReceiveKeyVerifies(req)
        BY <2>3, <3>3 DEF LateAckedMark
      <4> QED
        BY <2>5, <3>1, <3>3, <4>2, <4>3, <4>4, Zenon DEF AckOutcome, req, now
    <3> QED
      BY <3>2, <3>3
  <2> QED
    BY <2>4, <2>5, Zenon
<1> HIDE DEF Marked
<1> QED
  BY <1>1, <1>2, <1>3, CallsAtMostLate, PTL DEF HSpec

=============================================================================
