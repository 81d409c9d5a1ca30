---------------------------- MODULE RelayStartup ----------------------------
(***************************************************************************)
(* Relay::open_at of src/src/relay.rs with the companion guard of          *)
(* src/src/companion.rs: several openers, in one process or several, on    *)
(* one path that names a regular file or nothing. The preflight looks at   *)
(* files without any lock; the normal connection validates with one read   *)
(* transaction per statement; the migration is one IMMEDIATE transaction.  *)
(*                                                                         *)
(* SQLite is modelled from how the code uses it: a rollback journal is     *)
(* written before the pages of the database are, and deleting it is the    *)
(* commit; a journal without a writer is hot and is rolled back before the *)
(* next read; a connection in WAL mode holds a shared lock until it is     *)
(* closed, and the last one to close checkpoints. A process can crash at   *)
(* any step. Schemas are compared by what classify_schema makes of them.   *)
(*                                                                         *)
(* A definition X_suffix is X with a fault in it, not used by the          *)
(* specification: the properties are tried against it.                     *)
(***************************************************************************)
EXTENDS Naturals

CONSTANTS
  Opener, Signed, Unsigned, Expired,
  InitialFiles,  \* the files found at the path: [main, journal, wal]
  MaxFaults      \* bound: processes that end and writes that fail in a behaviour

VARIABLES
  main,     \* the database file
  journal,  \* the -journal companion
  wal,      \* the -wal companion
  opener,   \* what each opener is doing
  faults    \* processes that have ended and writes that have failed

files == <<main, journal, wal>>
vars == <<main, journal, wal, opener, faults>>

\* The committed content: what a recovery would leave.
Durable ==
  IF main.length = "pages" /\ journal.kind = "pages" THEN journal.main.image
  ELSE IF main.wal_mode /\ wal.kind = "frames" THEN wal.image
  ELSE main.image

File == INSTANCE RelayFile WITH content <- Durable

EmptyImage == [kind |-> "Empty", version |-> 0, sound |-> TRUE, messages |-> {}]

Unreadable == [kind |-> "Unknown", version |-> 0, sound |-> FALSE, messages |-> {}]

\* the pages of a database of which a writer has replaced some
Torn == [kind |-> "Torn"]

NoFile == [kind |-> "none"]

Main ==
  [length : {"absent", "zero", "pages"}, wal_mode : BOOLEAN, image : File!Image \cup {Torn}]
Journal ==
  {NoFile, [kind |-> "stray"]}
    \cup [kind : {"pages"}, main : {m \in Main : m.image # Torn}]
Wal == {NoFile} \cup [kind : {"frames"}, image : File!Image]

\* What can be found at the path: files that SQLite has written, any schema and
\* user_version in them, after a crash of whoever wrote them; or a stray -wal
\* or -journal of any origin, one at a time.
WellFormed(image) == image \in File!Image /\ image.messages \subseteq File!Rows(image.kind)

ASSUME FilesAssumption ==
  \A f \in InitialFiles :
    /\ f.main \in Main /\ f.journal \in Journal /\ f.wal \in Wal
    /\ f.main.image = Torn \/ WellFormed(f.main.image)
    /\ f.main.image = Torn => f.journal.kind = "pages" /\ f.main.length = "pages"
    /\ f.main.length # "pages" => f.main.image = EmptyImage /\ ~f.main.wal_mode
    /\ f.wal.kind = "frames" => WellFormed(f.wal.image)
    /\ f.journal # NoFile => f.wal = NoFile /\ ~f.main.wal_mode
    /\ f.journal.kind = "pages" =>
         /\ WellFormed(f.journal.main.image)
         /\ ~f.journal.main.wal_mode /\ f.journal.main.length # "absent"
         /\ f.journal.main.length = "zero" => f.journal.main.image = EmptyImage

ASSUME MaxFaultsAssumption == MaxFaults \in Nat

Phase ==
  {"Closed", "CheckWal", "CheckHeader", "CheckJournal", "RecheckWal", "RecheckHeader",
   "ImmutableVersion", "ImmutableSchema", "Connect", "Version", "Schema", "JournalMode",
   "FlipHeader", "Migrate", "Recover", "Write", "Commit", "Serving", "Closing"}

NotOpen == [phase |-> "Closed", next |-> "Closed", version |-> 0, pending |-> EmptyImage]

-----------------------------------------------------------------------------
(* Locks.                                                                  *)

Others(o, phases) == \E p \in Opener \ {o} : opener[p].phase \in phases

Reserved == {"Write", "Commit"}
Exclusive == {"Recover", "FlipHeader", "Commit"}
ReadingWal == {"Schema", "JournalMode", "Closing"}

InJournalTransaction == \E p \in Opener : opener[p].phase \in Reserved \cup {"Recover"}
HotJournal == journal.kind = "pages" /\ main.length = "pages" /\ ~InJournalTransaction

\* SQLite opens a -wal because it exists, whatever the header of the database says
Content ==
  IF wal.kind = "frames" /\ main.length = "pages" THEN wal.image ELSE main.image

Goto(o, phase) == opener' = [opener EXCEPT ![o].phase = phase]
Closed(o) == opener' = [opener EXCEPT ![o] = NotOpen]

Init ==
  /\ \E f \in InitialFiles : main = f.main /\ journal = f.journal /\ wal = f.wal
  /\ opener = [o \in Opener |-> NotOpen]
  /\ faults = 0

-----------------------------------------------------------------------------
(* preflight_existing_database: no lock is taken.                          *)

Start(o) ==
  /\ opener[o].phase = "Closed"
  /\ opener' = [opener EXCEPT ![o] = [@ EXCEPT
       !.phase = IF main.length = "absent" THEN "Connect" ELSE "CheckWal",
       !.next = IF main.length = "zero" THEN "Connect" ELSE "CheckJournal"]]
  /\ UNCHANGED <<files, faults>>

\* reject_anomalous_wal looks for the -wal first, then at the header
CheckWal_skipped(o) ==
  /\ opener[o].phase = "CheckWal"
  /\ Goto(o, opener[o].next)
  /\ UNCHANGED <<files, faults>>
CheckWal(o) ==
  /\ opener[o].phase = "CheckWal"
  /\ Goto(o, IF wal = NoFile THEN opener[o].next ELSE "CheckHeader")
  /\ UNCHANGED <<files, faults>>

CheckHeader(o) ==
  /\ opener[o].phase = "CheckHeader"
  /\ IF main.wal_mode THEN Goto(o, opener[o].next) ELSE Closed(o)
  /\ UNCHANGED <<files, faults>>

\* has_nonempty_recovery_companion: three more looks at the files
CheckJournal_skipped(o) ==
  /\ opener[o].phase = "CheckJournal"
  /\ Goto(o, "RecheckWal")
  /\ UNCHANGED <<files, faults>>
CheckJournal(o) ==
  /\ opener[o].phase = "CheckJournal"
  /\ Goto(o, IF journal = NoFile THEN "RecheckWal" ELSE "Connect")
  /\ UNCHANGED <<files, faults>>

RecheckWal(o) ==
  /\ opener[o].phase = "RecheckWal"
  /\ Goto(o, IF wal = NoFile THEN "ImmutableVersion" ELSE "RecheckHeader")
  /\ UNCHANGED <<files, faults>>

RecheckHeader(o) ==
  /\ opener[o].phase = "RecheckHeader"
  /\ Goto(o, IF main.wal_mode THEN "Connect" ELSE "ImmutableVersion")
  /\ UNCHANGED <<files, faults>>

\* An immutable connection ignores locks and journals: it may meet torn pages.
ImmutableReads ==
  IF main.image = Torn THEN {EmptyImage, File!CurrentImage({}), Unreadable} ELSE {main.image}

ImmutableVersion(o) ==
  /\ opener[o].phase = "ImmutableVersion"
  /\ \E seen \in ImmutableReads :
       opener' = [opener EXCEPT ![o] =
         [@ EXCEPT !.phase = "ImmutableSchema", !.version = seen.version]]
  /\ UNCHANGED <<files, faults>>

ImmutableSchema(o) ==
  /\ opener[o].phase = "ImmutableSchema"
  /\ \E seen \in ImmutableReads :
       IF File!Accepts(opener[o].version, seen) THEN Goto(o, "Connect") ELSE Closed(o)
  /\ UNCHANGED <<files, faults>>

-----------------------------------------------------------------------------
(* Connection::open, and initialize up to its transaction.                 *)

Connect(o) ==
  /\ opener[o].phase = "Connect"
  /\ main' = IF main.length = "absent" THEN [main EXCEPT !.length = "zero"] ELSE main
  /\ Goto(o, "Version")
  /\ UNCHANGED <<journal, wal, faults>>

\* Any statement first rolls a hot journal back, under an exclusive lock.
BeginRecovery(o) ==
  /\ opener[o].phase \in {"Version", "Schema", "Migrate", "Serving"}
  /\ HotJournal /\ ~Others(o, Exclusive)
  /\ main' = [main EXCEPT !.image = Torn]
  /\ opener' = [opener EXCEPT ![o] = [@ EXCEPT !.phase = "Recover", !.next = opener[o].phase]]
  /\ UNCHANGED <<journal, wal, faults>>

EndRecovery(o) ==
  /\ opener[o].phase = "Recover"
  /\ main' = journal.main
  /\ journal' = NoFile
  /\ Goto(o, opener[o].next)
  /\ UNCHANGED <<wal, faults>>

\* A database without pages has no use for a companion, nor has any for a
\* journal that is not hot: SQLite removes them.
Version(o) ==
  /\ opener[o].phase = "Version"
  /\ ~HotJournal /\ ~Others(o, Exclusive)
  /\ opener' = [opener EXCEPT ![o] = [@ EXCEPT !.phase = "Schema", !.version = Content.version]]
  /\ journal' = IF InJournalTransaction THEN journal ELSE NoFile
  /\ wal' = IF main.length = "pages" THEN wal ELSE NoFile
  /\ UNCHANGED <<main, faults>>

Schema(o) ==
  /\ opener[o].phase = "Schema"
  /\ ~HotJournal /\ ~Others(o, Exclusive)
  /\ Goto(o, IF File!Accepts(opener[o].version, Content) THEN "JournalMode" ELSE "Closing")
  /\ UNCHANGED <<files, faults>>

\* PRAGMA journal_mode = DELETE. Leaving WAL mode takes an exclusive lock at
\* once or fails; the log is checkpointed and removed before the header changes.
JournalMode_header_first(o) ==
  /\ opener[o].phase = "JournalMode"
  /\ main' = [main EXCEPT !.wal_mode = FALSE]
  /\ Goto(o, IF main.wal_mode /\ Others(o, ReadingWal) THEN "Closing" ELSE "FlipHeader")
  /\ UNCHANGED <<journal, wal, faults>>
JournalMode_kept(o) ==
  /\ opener[o].phase = "JournalMode"
  /\ main' = [main EXCEPT !.image = Content]
  /\ wal' = NoFile
  /\ Goto(o, "Migrate")
  /\ UNCHANGED <<journal, faults>>
JournalMode(o) ==
  /\ opener[o].phase = "JournalMode"
  /\ \/ /\ ~main.wal_mode /\ wal = NoFile
        /\ Goto(o, "Migrate")
        /\ UNCHANGED files
     \/ /\ main.wal_mode \/ wal # NoFile
        /\ Others(o, ReadingWal)
        /\ Goto(o, "Closing")
        /\ UNCHANGED files
     \/ /\ main.wal_mode \/ wal # NoFile
        /\ ~Others(o, ReadingWal)
        /\ main' = [main EXCEPT !.image = Content]
        /\ wal' = NoFile
        /\ Goto(o, "FlipHeader")
        /\ UNCHANGED journal
  /\ UNCHANGED faults

FlipHeader(o) ==
  /\ opener[o].phase = "FlipHeader"
  /\ main' = [main EXCEPT !.wal_mode = FALSE]
  /\ Goto(o, "Migrate")
  /\ UNCHANGED <<journal, wal, faults>>

-----------------------------------------------------------------------------
(* Transactions. The journal holds the pages as they were.                 *)

BeginWrite_spilled(o, image, on_error) ==
  /\ opener' = [opener EXCEPT ![o] =
       [@ EXCEPT !.phase = "Write", !.next = on_error, !.pending = image]]
  /\ main' = [main EXCEPT !.image = Torn]
  /\ journal' = [kind |-> "pages", main |-> main']
  /\ UNCHANGED <<wal, faults>>
BeginWrite(o, image, on_error) ==
  /\ opener' = [opener EXCEPT ![o] =
       [@ EXCEPT !.phase = "Write", !.next = on_error, !.pending = image]]
  /\ journal' = [kind |-> "pages", main |-> main]
  /\ UNCHANGED <<main, wal, faults>>

\* The transaction of initialize, up to COMMIT. It validates again.
Migrate_trusting(o) ==
  /\ opener[o].phase = "Migrate"
  /\ ~HotJournal /\ ~Others(o, Reserved \cup Exclusive)
  /\ IF opener[o].version = File!CURRENT_SCHEMA_VERSION
     THEN Goto(o, "Serving") /\ UNCHANGED <<files, faults>>
     ELSE BeginWrite(o, File!CurrentImage({}), "Closing")
Migrate(o) ==
  /\ opener[o].phase = "Migrate"
  /\ ~HotJournal /\ ~Others(o, Reserved \cup Exclusive)
  /\ \/ /\ ~File!Accepts(Content.version, Content)
        /\ Goto(o, "Closing")
        /\ UNCHANGED <<files, faults>>
     \/ /\ File!Accepts(Content.version, Content)
        /\ File!Migrated(Content) = Content
        /\ Goto(o, "Serving")
        /\ UNCHANGED <<files, faults>>
     \/ /\ File!Accepts(Content.version, Content)
        /\ File!Migrated(Content) # Content
        /\ BeginWrite(o, File!Migrated(Content), "Closing")

\* A serving relay stores a message; Relay has the operation itself.
Store(o, m) ==
  /\ opener[o].phase = "Serving"
  /\ ~HotJournal /\ ~Others(o, Reserved \cup Exclusive)
  /\ IF m \in Content.messages
     THEN UNCHANGED vars
     ELSE BeginWrite(o, File!WithMessage(Content, m), "Serving")

\* COMMIT syncs the journal, writes the pages, and deletes the journal.
WritePages(o) ==
  /\ opener[o].phase = "Write"
  /\ main' = [main EXCEPT !.length = "pages", !.image = Torn]
  /\ Goto(o, "Commit")
  /\ UNCHANGED <<journal, wal, faults>>

CommitWrite(o) ==
  /\ opener[o].phase = "Commit"
  /\ main' = [main EXCEPT !.image = opener[o].pending]
  /\ journal' = NoFile
  /\ Goto(o, "Serving")
  /\ UNCHANGED <<wal, faults>>

\* an I/O error: SQLite rolls back and the error is returned
FailWrite(o) ==
  /\ opener[o].phase \in Reserved
  /\ faults < MaxFaults
  /\ faults' = faults + 1
  /\ main' = journal.main
  /\ journal' = NoFile
  /\ Goto(o, opener[o].next)
  /\ UNCHANGED wal

-----------------------------------------------------------------------------
\* the two-second busy timeout of initialize
BusyTimeout(o) ==
  /\ \/ opener[o].phase \in {"Version", "Schema"} /\ Others(o, Exclusive)
     \/ opener[o].phase = "Migrate" /\ Others(o, Reserved \cup Exclusive)
  /\ IF opener[o].phase = "Version" THEN Closed(o) ELSE Goto(o, "Closing")
  /\ UNCHANGED <<files, faults>>

\* A failed open drops its connection; the last one of a WAL database checkpoints.
Disconnect(o) ==
  /\ opener[o].phase = "Closing"
  /\ IF main.wal_mode /\ ~Others(o, ReadingWal)
     THEN main' = [main EXCEPT !.image = Content] /\ wal' = NoFile
     ELSE UNCHANGED <<main, wal>>
  /\ Closed(o)
  /\ UNCHANGED <<journal, faults>>

\* The process ends, at a point of its choosing or not.
Stop(o) ==
  /\ opener[o].phase # "Closed"
  /\ faults < MaxFaults
  /\ faults' = faults + 1
  /\ Closed(o)
  /\ UNCHANGED files

\* The operator removes a -wal that keeps the relay from starting.
StrayWal == wal # NoFile /\ ~main.wal_mode

RemoveStrayWal ==
  /\ StrayWal
  /\ wal' = NoFile
  /\ UNCHANGED <<main, journal, opener, faults>>

Opening(o) ==
  \/ Start(o) \/ CheckWal(o) \/ CheckHeader(o) \/ CheckJournal(o)
  \/ RecheckWal(o) \/ RecheckHeader(o) \/ ImmutableVersion(o) \/ ImmutableSchema(o)
  \/ Connect(o) \/ BeginRecovery(o) \/ EndRecovery(o) \/ Version(o) \/ Schema(o)
  \/ JournalMode(o) \/ FlipHeader(o) \/ Migrate(o) \/ WritePages(o) \/ CommitWrite(o)
  \/ Disconnect(o)

Next ==
  \/ \E o \in Opener :
       \/ Opening(o) \/ BusyTimeout(o) \/ FailWrite(o) \/ Stop(o)
       \/ \E m \in Signed \ Expired : Store(o, m)
  \/ RemoveStrayWal

Spec == Init /\ [][Next]_vars

\* An opener that has begun keeps going. Nobody has to open the relay.
Fairness == \A o \in Opener : WF_vars(opener[o].phase # "Closed" /\ Opening(o))

FairSpec == Spec /\ Fairness

-----------------------------------------------------------------------------
TypeOK ==
  /\ main \in Main /\ journal \in Journal /\ wal \in Wal
  /\ opener \in [Opener ->
       [phase : Phase, next : Phase, version : Nat, pending : File!Image]]
  /\ faults \in 0..MaxFaults

\* A handle that Relay::open_at returned works on a current, sound schema in
\* which every message has a sender signature, whatever was found at the path
\* and whoever else is opening it.
ServesCurrent ==
  \A o \in Opener : opener[o].phase = "Serving" =>
    /\ Durable.kind = "Current" /\ File!Accepts(Durable.version, Durable)
    /\ Durable.messages \subseteq Signed

\* A successful open never ends in WAL mode (companion.rs): a serving relay
\* has a rollback-mode header and no -wal.
ServesInRollbackMode ==
  \A o \in Opener : opener[o].phase = "Serving" => ~main.wal_mode /\ wal = NoFile

\* The combination reject_anomalous_wal refuses is never of the relay's own
\* making, a crash while leaving WAL mode included.
AnomalyNotSelfInflicted == [][StrayWal' => StrayWal]_vars

\* Opening beside an anomalous -wal touches no file: the database is there
\* when the operator has removed it.
AnomalyUntouched ==
  [][StrayWal /\ main.length # "absent" => UNCHANGED <<main, journal>>]_vars

\* The committed content changes only by a complete upgrade of an acceptable
\* schema or by a complete write of a serving relay: no crash, recovery,
\* checkpoint or second opener with an old view of the schema shows through,
\* and what is refused is left as it was.
ImplementsFile == File!Spec

\* Whoever keeps opening an acceptable database is served in the end, after
\* crashes, failed writes, refusals that came from racing with another opener
\* and, for a stray -wal, its removal. A database that stays in WAL mode needs
\* an opener that is alone in the end: each of two may keep the other from
\* leaving WAL mode.
AcceptableServed ==
  \A o \in Opener :
    /\ []<>(opener[o].phase # "Closed")
    /\ <>(File!Accepts(Durable.version, Durable) /\ ~StrayWal)
    /\ \/ []<>~main.wal_mode
       \/ <>[](\A p \in Opener \ {o} : opener[p].phase = "Closed")
    => []<>(opener[o].phase = "Serving")
=============================================================================
