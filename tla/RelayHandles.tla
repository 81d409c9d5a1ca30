---------------------------- MODULE RelayHandles ----------------------------
(***************************************************************************)
(* Several Relay handles on one database file, in one process or several.  *)
(* A caller reads the clock and calls an operation with that `now'; the    *)
(* operation then waits for SQLite's write lock (BEGIN IMMEDIATE under a   *)
(* busy timeout) and runs its transaction with the `now' it was given,     *)
(* however far the clock has moved meanwhile.  A handle can also give up   *)
(* waiting, or its process can die, with nothing committed.                *)
(***************************************************************************)
EXTENDS Relay

CONSTANTS
  Handle,
  MaxLag      \* bound: seconds from reading the clock to holding the lock

ASSUME LagAssumption == MaxLag \in Nat

VARIABLE call   \* what each handle is doing

hvars == <<vars, call>>

(* Handle states: the process is down, the handle is idle, or a call waits. *)
Closed == [op |-> "closed"]
Idle == [op |-> "idle"]

Call ==
       [op : {"register"}, req : Registrations, now : 0..MaxClock]
  \cup [op : {"enqueue"}, req : Sends, now : 0..MaxClock]
  \cup [op : {"fetch"}, req : Fetches, now : 0..MaxClock]
  \cup [op : {"acknowledge"}, req : Acks, now : 0..MaxClock]
  \cup [op : {"delete_mailbox"}, req : Deletes, now : 0..MaxClock]
  \cup [op : {"open_at", "purge_expired"}, now : 0..MaxClock]

Waiting(h) == call[h] \notin {Closed, Idle}

HInit == Init /\ call = [h \in Handle |-> Closed]

\* The caller reads the clock and enters the operation.
Begin(h, c) ==
  /\ call[h] = IF c.op = "open_at" THEN Closed ELSE Idle
  /\ c.now = clock
  /\ call' = [call EXCEPT ![h] = c]
  /\ UNCHANGED vars

\* The lock is granted: the whole transaction, then the return to the caller.
\* A successful open_at makes the handle usable; the sweep fails, and the open
\* with it, only for a clock beyond i64.
Run(h) ==
  /\ Waiting(h)
  /\ LET c == call[h] IN
     /\ \/ c.op = "register" /\ Register(c.req, c.now)
        \/ c.op = "enqueue" /\ Enqueue(c.req, c.now)
        \/ c.op = "fetch" /\ Fetch(c.req, c.now)
        \/ c.op = "acknowledge" /\ Acknowledge(c.req, c.now)
        \/ c.op = "delete_mailbox" /\ DeleteMailbox(c.req, c.now)
        \/ c.op \in {"open_at", "purge_expired"} /\ PurgeExpired(c.now)
     /\ call' = [call EXCEPT ![h] = IF c.op = "open_at" /\ ~FitsI64(c.now)
                                    THEN Closed ELSE Idle]
  /\ UNCHANGED clock

\* SQLITE_BUSY after the busy timeout: LabError::Storage, nothing written.
BusyTimeout(h) ==
  /\ Waiting(h)
  /\ call' = [call EXCEPT ![h] = IF call[h].op = "open_at" THEN Closed ELSE Idle]
  /\ UNCHANGED vars

\* The process dies; an unfinished transaction is rolled back by SQLite.
Crash(h) ==
  /\ call[h] # Closed
  /\ call' = [call EXCEPT ![h] = Closed]
  /\ UNCHANGED vars

HTick ==
  /\ \A h \in Handle : Waiting(h) => clock < call[h].now + MaxLag
  /\ Tick
  /\ UNCHANGED call

HNext ==
  \/ \E h \in Handle, c \in Call : Begin(h, c)
  \/ \E h \in Handle : Run(h) \/ BusyTimeout(h) \/ Crash(h)
  \/ HTick

HSpec == HInit /\ [][HNext]_hvars

-----------------------------------------------------------------------------
(* Properties.                                                             *)

\* Every handle is closed, idle, or in a call that could have been made, and the
\* shared tables keep their types whichever handle wrote them.
HTypeOK ==
  /\ TypeOK
  /\ call \in [Handle -> Call \cup {Closed, Idle}]

\* Whichever handle receives it, a fetch request that was already served is
\* refused when its turn for the lock comes.
FetchServedOnceAcrossHandles ==
  \A h \in Handle :
    call[h].op = "fetch" /\ call[h].req \in fetched
      => FetchOutcome(call[h].req, call[h].now) # "Fetched"

\* A fetch request that was already served is refused by every handle that
\* receives it, as long as its deadline has not passed: a sweep with an older
\* clock value than the call's does not forget its nonce.
FetchServedOnceWhileValid ==
  \A h \in Handle :
    call[h].op = "fetch" /\ call[h].req \in fetched /\ clock < call[h].req.valid_until
      => FetchOutcome(call[h].req, call[h].now) # "Fetched"

\* An ACK retried through another handle, possibly with an older clock value
\* than the sweeps that ran meanwhile, still finds its tombstone.
AckRetryAcrossHandles ==
  \A h \in Handle :
    call[h].op = "acknowledge" /\ (\E a \in acked : a.ack = call[h].req)
      => AckOutcome(call[h].req, call[h].now)
           \in {"AlreadyDeleted", "RequestExpired", "MailboxNotFound"}

\* Expiry is swept at every operation: once an operation has returned, nothing
\* that had expired at its `now' is left.
SweptByEveryOperation ==
  [][\A h \in Handle :
       Run(h) => \A m \in messages' : m.expires_at > call[h].now]_hvars

=============================================================================
