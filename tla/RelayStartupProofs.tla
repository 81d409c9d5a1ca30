------------------------- MODULE RelayStartupProofs -------------------------
(***************************************************************************)
(* What opening a relay guarantees for any number of openers, any files    *)
(* that may be found at the path and any number of crashes. StartupInv is  *)
(* the inductive invariant: FilesInv relates the three files, OpenerInv    *)
(* says what an opener may rely on in each phase, and at most one opener   *)
(* is in a journal transaction.                                            *)
(***************************************************************************)
EXTENDS RelayStartup, TLAPS

OpenerState == [phase : Phase, next : Phase, version : Nat, pending : File!Image]

Transacting == Reserved \cup {"Recover"}

\* what a relay may serve
Serveable(image) ==
  /\ image.kind = "Current" /\ File!Accepts(image.version, image)
  /\ image.messages \subseteq Signed

\* What is assumed of the files found at the path stays true of them.
FilesInv ==
  /\ main.image = Torn \/ WellFormed(main.image)
  /\ main.image = Torn => journal.kind = "pages" /\ main.length = "pages"
  /\ main.length # "pages" => main.image = EmptyImage /\ ~main.wal_mode
  /\ wal.kind = "frames" => WellFormed(wal.image)
  /\ journal # NoFile => wal = NoFile /\ ~main.wal_mode
  /\ journal.kind = "pages" =>
       /\ WellFormed(journal.main.image)
       /\ ~journal.main.wal_mode /\ journal.main.length # "absent"
       /\ journal.main.length = "zero" => journal.main.image = EmptyImage

\* the write of a transaction is an upgrade or a new message
PendingInv(o) ==
  \/ /\ opener[o].next = "Closing"
     /\ File!Accepts(journal.main.image.version, journal.main.image)
     /\ opener[o].pending = File!Migrated(journal.main.image)
  \/ /\ opener[o].next = "Serving"
     /\ \E m \in Signed \ Expired : opener[o].pending = File!WithMessage(journal.main.image, m)

\* o has been served, and returns to that after a recovery or a failed write
Served(o) ==
  \/ opener[o].phase = "Serving"
  \/ opener[o].phase \in Transacting /\ opener[o].next = "Serving"

\* o has left WAL mode behind
PastWal(o) ==
  \/ opener[o].phase \in {"Migrate", "Write", "Commit", "Serving"}
  \/ opener[o].phase = "Recover" /\ opener[o].next \in {"Migrate", "Serving"}

\* o has a connection, and with it the file exists
Connected ==
  {"Version", "Schema", "JournalMode", "FlipHeader", "Migrate", "Recover", "Write", "Commit",
   "Serving", "Closing"}

OpenerInv(o) ==
  /\ opener[o].phase \in Connected => main.length # "absent"
  /\ PastWal(o) => ~main.wal_mode /\ wal = NoFile
  /\ opener[o].phase = "FlipHeader" => wal = NoFile
  /\ opener[o].phase = "Write" => journal = [kind |-> "pages", main |-> main]
  /\ opener[o].phase \in {"Commit", "Recover"} => journal.kind = "pages" /\ main.length = "pages"
  /\ opener[o].phase = "Recover" => opener[o].next \in {"Version", "Schema", "Migrate", "Serving"}
  /\ opener[o].phase \in Reserved => PendingInv(o)
  /\ Served(o) => Serveable(Durable)
  /\ StrayWal =>
       \/ opener[o].phase \in {"Closed", "CheckWal", "CheckHeader"}
       \/ opener[o].phase \in {"Connect", "Version"} /\ main.length # "pages"
  /\ opener[o].phase = "CheckHeader" \/ opener[o].phase = "CheckWal" =>
       opener[o].next \in {"Connect", "CheckJournal"}

OneTransaction ==
  \A o, p \in Opener :
    opener[o].phase \in Transacting /\ opener[p].phase \in Transacting => o = p

StartupInv ==
  /\ TypeOK /\ FilesInv /\ OneTransaction
  /\ \A o \in Opener : OpenerInv(o)

\* What a step of o does to the files and to the other openers.
Advance(o) ==
  /\ \A p \in Opener \ {o} : opener'[p] = opener[p]
  /\ wal' \in {wal, NoFile} /\ (main'.wal_mode => main.wal_mode)
  /\ StrayWal' => StrayWal /\ (main'.length = "pages" => main.length = "pages")
  /\ StrayWal /\ main.length # "absent" => UNCHANGED <<main, journal>>
  /\ \A p \in Opener \ {o} : opener[p].phase \in Transacting => UNCHANGED <<main, journal>>
  /\ main.length # "absent" => main'.length # "absent"
  /\ Durable' = Durable \/ File!Next

-----------------------------------------------------------------------------
(* The abstract file.                                                      *)

\* An upgrade of an acceptable schema can be served.
LEMMA MigratedServeable ==
  ASSUME NEW image, WellFormed(image), File!Accepts(image.version, image)
  PROVE  File!Migrated(image) \in File!Image /\ Serveable(File!Migrated(image))
  BY DEF WellFormed, Serveable, File!Accepts, File!Migrated, File!CurrentImage, File!Image,
         File!SchemaKind, File!Rows, File!CURRENT_SCHEMA_VERSION

\* A served image can be served with one more message.
LEMMA WithMessageServeable ==
  ASSUME NEW image \in File!Image, Serveable(image), NEW m \in Signed \ Expired
  PROVE  File!WithMessage(image, m) \in File!Image /\ Serveable(File!WithMessage(image, m))
  BY DEF Serveable, File!Accepts, File!WithMessage, File!Image, File!SchemaKind,
         File!CURRENT_SCHEMA_VERSION

\* What can be served is well-formed.
LEMMA ServeableWellFormed ==
  ASSUME NEW image \in File!Image, Serveable(image)
  PROVE  WellFormed(image)
  BY DEF Serveable, WellFormed, File!Rows

\* An image is never taken for torn pages.
LEMMA ImageNotTorn ==
  ASSUME NEW image \in File!Image
  PROVE  image # Torn
<1>1. image.kind # "Torn"
  BY DEF File!Image, File!SchemaKind
<1> QED
  BY <1>1 DEF Torn

-----------------------------------------------------------------------------
(* Steps.                                                                  *)

\* A step that sets the phase of an opener leaves its other fields and the other
\* openers alone.
LEMMA GotoKeeps ==
  ASSUME opener \in [Opener -> OpenerState], NEW o \in Opener, NEW phase \in Phase,
         Goto(o, phase)
  PROVE  /\ opener' \in [Opener -> OpenerState]
         /\ opener'[o].phase = phase /\ opener'[o].next = opener[o].next
         /\ opener'[o].pending = opener[o].pending
         /\ \A p \in Opener \ {o} : opener'[p] = opener[p]
  BY DEF Goto, OpenerState

\* The same for the steps that set other fields together with the phase.
LEMMA SetNext ==
  ASSUME opener \in [Opener -> OpenerState], NEW o \in Opener,
         NEW phase \in Phase, NEW next \in Phase,
         opener' = [opener EXCEPT ![o] = [@ EXCEPT !.phase = phase, !.next = next]]
  PROVE  /\ opener' \in [Opener -> OpenerState]
         /\ opener'[o].phase = phase /\ opener'[o].next = next
         /\ \A p \in Opener \ {o} : opener'[p] = opener[p]
<1>1. opener' \in [Opener -> OpenerState]
  BY Zenon DEF OpenerState
<1> QED
  BY <1>1 DEF OpenerState

\* A step that notes the user_version it read.
LEMMA SetVersion ==
  ASSUME opener \in [Opener -> OpenerState], NEW o \in Opener,
         NEW phase \in Phase, NEW version \in Nat,
         opener' = [opener EXCEPT ![o] = [@ EXCEPT !.phase = phase, !.version = version]]
  PROVE  /\ opener' \in [Opener -> OpenerState]
         /\ opener'[o].phase = phase /\ opener'[o].next = opener[o].next
         /\ \A p \in Opener \ {o} : opener'[p] = opener[p]
<1>1. opener' \in [Opener -> OpenerState]
  BY Zenon DEF OpenerState
<1> QED
  BY <1>1 DEF OpenerState

\* A step that begins a transaction with the content to write.
LEMMA SetPending ==
  ASSUME opener \in [Opener -> OpenerState], NEW o \in Opener,
         NEW phase \in Phase, NEW next \in Phase, NEW pending \in File!Image,
         opener' = [opener EXCEPT ![o] =
           [@ EXCEPT !.phase = phase, !.next = next, !.pending = pending]]
  PROVE  /\ opener' \in [Opener -> OpenerState]
         /\ opener'[o].phase = phase /\ opener'[o].next = next
         /\ opener'[o].pending = pending
         /\ \A p \in Opener \ {o} : opener'[p] = opener[p]
<1>1. opener' \in [Opener -> OpenerState]
  BY Zenon DEF OpenerState
<1> QED
  BY <1>1 DEF OpenerState

\* A refused open, or a process that ended, starts over.
LEMMA ClosedKeeps ==
  ASSUME opener \in [Opener -> OpenerState], NEW o \in Opener, Closed(o)
  PROVE  /\ opener' \in [Opener -> OpenerState]
         /\ opener'[o].phase = "Closed"
         /\ \A p \in Opener \ {o} : opener'[p] = opener[p]
<1>1. NotOpen \in OpenerState
  BY DEF NotOpen, OpenerState, Phase, EmptyImage, File!Image, File!SchemaKind
<1> QED
  BY <1>1 DEF Closed, NotOpen

\* A served database stays one that may be served.
LEMMA ServeableKept ==
  ASSUME Durable \in File!Image, Durable' = Durable \/ File!Next, Serveable(Durable)
  PROVE  Serveable(Durable')
<1>1. CASE Durable' = Durable
  BY <1>1
<1>2. CASE File!Upgrade
  BY <1>2, ServeableWellFormed, MigratedServeable DEF File!Upgrade
<1>3. CASE \E m \in Signed \ Expired : File!Store(m)
  BY <1>3, WithMessageServeable DEF File!Store
<1> QED
  BY <1>1, <1>2, <1>3 DEF File!Next

\* The committed content is an image, never torn pages.
LEMMA DurableWellFormed ==
  ASSUME TypeOK, FilesInv
  PROVE  Durable \in File!Image /\ WellFormed(Durable)
<1>1. ASSUME NEW image, WellFormed(image) PROVE image \in File!Image
  BY <1>1 DEF WellFormed
<1> QED
  BY <1>1 DEF FilesInv, Durable

\* What another opener relies on survives a step that advances the files.
LEMMA OthersKeep ==
  ASSUME TypeOK, FilesInv, NEW o \in Opener, NEW p \in Opener \ {o}, OpenerInv(p), Advance(o)
  PROVE  OpenerInv(p)'
<1>0. opener'[p] = opener[p]
  BY DEF Advance
<1>1. wal' \in {wal, NoFile} /\ (main'.wal_mode => main.wal_mode)
  BY DEF Advance
<1>2. (PastWal(p) => ~main.wal_mode /\ wal = NoFile)'
  BY <1>0, <1>1 DEF OpenerInv, PastWal
<1>3. /\ (opener[p].phase = "FlipHeader" => wal = NoFile)'
      /\ (opener[p].phase \in Connected => main.length # "absent")'
  BY <1>0, <1>1 DEF OpenerInv, Advance
<1>4. opener[p].phase \in Transacting => UNCHANGED <<main, journal>>
  BY DEF Advance
<1>5. /\ (opener[p].phase = "Write" => journal = [kind |-> "pages", main |-> main])'
      /\ (opener[p].phase \in {"Commit", "Recover"}
            => journal.kind = "pages" /\ main.length = "pages")'
      /\ (opener[p].phase \in Reserved => PendingInv(p))'
  BY <1>0, <1>4 DEF OpenerInv, PendingInv, Transacting, Reserved
<1>6. (Served(p) => Serveable(Durable))'
  <2>1. Served(p) => Serveable(Durable)
    BY DEF OpenerInv
  <2>2. Served(p)' <=> Served(p)
    BY <1>0 DEF Served
  <2> QED
    BY <2>1, <2>2, ServeableKept, DurableWellFormed DEF Advance
<1>7. (StrayWal =>
         \/ opener[p].phase \in {"Closed", "CheckWal", "CheckHeader"}
         \/ opener[p].phase \in {"Connect", "Version"} /\ main.length # "pages")'
  BY <1>0 DEF OpenerInv, Advance
<1> QED
  BY <1>0, <1>2, <1>3, <1>5, <1>6, <1>7 DEF OpenerInv

\* To preserve StartupInv, a step has to advance the files and to establish what
\* its own opener relies on.
LEMMA StepKeeps ==
  ASSUME StartupInv, NEW o \in Opener, Advance(o), TypeOK', FilesInv', OpenerInv(o)',
         opener'[o].phase \in Transacting =>
           opener[o].phase \in Transacting \/ ~Others(o, Transacting)
  PROVE  StartupInv'
<1>1. ASSUME NEW p \in Opener PROVE OpenerInv(p)'
  BY OthersKeep DEF StartupInv
<1>2. OneTransaction'
  BY DEF StartupInv, OneTransaction, Advance, Others
<1> QED
  BY <1>1, <1>2 DEF StartupInv

\* A step that only looks at the files.
LEMMA LookKeeps ==
  ASSUME StartupInv, NEW o \in Opener, UNCHANGED files, faults' \in 0..MaxFaults,
         opener' \in [Opener -> OpenerState],
         \A p \in Opener \ {o} : opener'[p] = opener[p],
         OpenerInv(o)', opener'[o].phase \notin Transacting
  PROVE  StartupInv' /\ Advance(o)
<1>1. TypeOK' /\ FilesInv'
  BY DEF StartupInv, TypeOK, FilesInv, files, OpenerState
<1>2. Advance(o)
  BY DEF Advance, files, StrayWal, Durable
<1> QED
  BY <1>1, <1>2, StepKeeps

\* The preflight, which takes no lock: beside a stray -wal it gets no further
\* than the header check, or it starts from no database at all.
LEMMA PreflightKeeps ==
  ASSUME StartupInv, NEW o \in Opener,
         \/ Start(o) \/ CheckWal(o) \/ CheckHeader(o) \/ CheckJournal(o)
         \/ RecheckWal(o) \/ RecheckHeader(o) \/ ImmutableVersion(o) \/ ImmutableSchema(o)
  PROVE  StartupInv' /\ Advance(o)
<1>0. opener \in [Opener -> OpenerState] /\ OpenerInv(o) /\ faults \in 0..MaxFaults
  BY DEF StartupInv, TypeOK, OpenerState
<1> SUFFICES /\ UNCHANGED <<files, faults>> /\ opener' \in [Opener -> OpenerState]
             /\ \A p \in Opener \ {o} : opener'[p] = opener[p]
             /\ OpenerInv(o)' /\ opener'[o].phase \notin Transacting
  BY <1>0, LookKeeps
<1> DEFINE Ready == {"Closed", "CheckWal", "CheckHeader", "CheckJournal", "RecheckWal",
                     "RecheckHeader", "ImmutableVersion", "ImmutableSchema", "Connect"}
<1>1. ASSUME UNCHANGED files, opener'[o].phase \in Ready,
             opener'[o].phase \in {"CheckWal", "CheckHeader"} =>
               opener'[o].next \in {"Connect", "CheckJournal"},
             StrayWal =>
               \/ opener'[o].phase \in {"Closed", "CheckWal", "CheckHeader"}
               \/ opener'[o].phase = "Connect" /\ main.length # "pages"
      PROVE  OpenerInv(o)' /\ opener'[o].phase \notin Transacting
  BY <1>1 DEF OpenerInv, PastWal, Served, StrayWal, Connected, Transacting, Reserved, files
<1>2. CASE Start(o)
  <2> DEFINE phase == IF main.length = "absent" THEN "Connect" ELSE "CheckWal"
             next == IF main.length = "zero" THEN "Connect" ELSE "CheckJournal"
  <2>0. phase \in Phase /\ next \in Phase
    BY Zenon DEF Phase
  <2>1. /\ opener' \in [Opener -> OpenerState]
        /\ \A p \in Opener \ {o} : opener'[p] = opener[p]
        /\ opener'[o].phase = phase /\ opener'[o].next = next
    <3>1. opener' = [opener EXCEPT ![o] = [@ EXCEPT !.phase = phase, !.next = next]]
      BY <1>2 DEF Start
    <3> HIDE DEF phase, next
    <3> QED
      BY <1>0, <2>0, <3>1, SetNext, Zenon
  <2> QED
    BY <1>1, <1>2, <2>1 DEF Start
<1>3. CASE CheckWal(o)
  <2> DEFINE next == IF wal = NoFile THEN opener[o].next ELSE "CheckHeader"
  <2>1. next \in {"Connect", "CheckJournal", "CheckHeader"} /\ Goto(o, next)
    BY <1>0, <1>3 DEF OpenerInv, CheckWal
  <2>2. /\ opener' \in [Opener -> OpenerState]
        /\ opener'[o].phase = next /\ opener'[o].next = opener[o].next
        /\ \A p \in Opener \ {o} : opener'[p] = opener[p]
    BY <1>0, <2>1, GotoKeeps DEF Phase
  <2> QED
    BY <1>0, <1>1, <1>3, <2>1, <2>2 DEF CheckWal, OpenerInv, StrayWal
<1>4. CASE CheckHeader(o)
  <2>1. CASE main.wal_mode
    <3>1. opener[o].next \in {"Connect", "CheckJournal"} /\ Goto(o, opener[o].next)
      BY <1>0, <1>4, <2>1 DEF OpenerInv, CheckHeader
    <3>2. /\ opener' \in [Opener -> OpenerState]
          /\ opener'[o].phase = opener[o].next
          /\ \A p \in Opener \ {o} : opener'[p] = opener[p]
      BY <1>0, <3>1, GotoKeeps DEF Phase
    <3> QED
      BY <1>1, <1>4, <2>1, <3>1, <3>2 DEF CheckHeader, StrayWal
  <2>2. CASE ~main.wal_mode
    BY <1>0, <1>1, <1>4, <2>2, ClosedKeeps DEF CheckHeader
  <2> QED
    BY <2>1, <2>2
<1>5. CASE CheckJournal(o)
  <2> DEFINE next == IF journal = NoFile THEN "RecheckWal" ELSE "Connect"
  <2>1. next \in Phase /\ Goto(o, next)
    BY <1>5 DEF CheckJournal, Phase
  <2>2. ~StrayWal
    BY <1>0, <1>5 DEF CheckJournal, OpenerInv
  <2> QED
    BY <1>0, <1>1, <1>5, <2>1, <2>2, GotoKeeps DEF CheckJournal
<1>6. CASE RecheckWal(o)
  <2> DEFINE next == IF wal = NoFile THEN "ImmutableVersion" ELSE "RecheckHeader"
  <2>1. next \in Phase /\ Goto(o, next)
    BY <1>6 DEF RecheckWal, Phase
  <2>2. ~StrayWal
    BY <1>0, <1>6 DEF RecheckWal, OpenerInv
  <2> QED
    BY <1>0, <1>1, <1>6, <2>1, <2>2, GotoKeeps DEF RecheckWal
<1>7. CASE RecheckHeader(o)
  <2> DEFINE next == IF main.wal_mode THEN "Connect" ELSE "ImmutableVersion"
  <2>1. next \in Phase /\ Goto(o, next)
    BY <1>7 DEF RecheckHeader, Phase
  <2>2. ~StrayWal
    BY <1>0, <1>7 DEF RecheckHeader, OpenerInv
  <2> QED
    BY <1>0, <1>1, <1>7, <2>1, <2>2, GotoKeeps DEF RecheckHeader
<1>8. CASE ImmutableVersion(o)
  <2>1. ~StrayWal
    BY <1>0, <1>8, Zenon DEF ImmutableVersion, OpenerInv
  <2>2. \A seen \in ImmutableReads : seen.version \in Nat
    BY SMTT(40) DEF ImmutableReads, StartupInv, FilesInv, WellFormed, EmptyImage, Unreadable,
           File!CurrentImage, File!Image, File!CURRENT_SCHEMA_VERSION
  <2>3. /\ opener' \in [Opener -> OpenerState]
        /\ \A p \in Opener \ {o} : opener'[p] = opener[p]
        /\ opener'[o].phase = "ImmutableSchema"
    BY <1>0, <1>8, <2>2, SetVersion, Zenon DEF ImmutableVersion, Phase
  <2> QED
    BY <1>1, <1>8, <2>1, <2>3, Zenon DEF ImmutableVersion
<1>9. CASE ImmutableSchema(o)
  <2>1. ~StrayWal
    BY <1>0, <1>9 DEF ImmutableSchema, OpenerInv
  <2>2. Goto(o, "Connect") \/ Closed(o)
    BY <1>9 DEF ImmutableSchema
  <2> QED
    BY <1>0, <1>1, <1>9, <2>1, <2>2, GotoKeeps, ClosedKeeps DEF ImmutableSchema, Phase
<1> QED
  BY <1>2, <1>3, <1>4, <1>5, <1>6, <1>7, <1>8, <1>9

-----------------------------------------------------------------------------
(* initialize.                                                             *)

\* A connection that holds a shared lock reads no torn pages.
LEMMA ReadsWhole ==
  ASSUME StartupInv, NEW o \in Opener, opener[o].phase \notin Transacting,
         ~HotJournal, ~Others(o, Exclusive)
  PROVE  main.image # Torn /\ WellFormed(Content) /\ Content \in File!Image
<1>1. FilesInv
  BY DEF StartupInv
<1>2. ASSUME main.image = Torn PROVE FALSE
  <2>1. journal.kind = "pages" /\ main.length = "pages"
    BY <1>1, <1>2 DEF FilesInv
  <2>2. PICK p \in Opener : opener[p].phase \in Transacting
    BY <2>1 DEF HotJournal, InJournalTransaction, Transacting
  <2>3. opener[p].phase = "Write"
    BY <2>2 DEF Others, Exclusive, Transacting, Reserved
  <2>4. journal.main = main
    BY <2>3 DEF StartupInv, OpenerInv
  <2> QED
    BY <1>1, <1>2, <2>1, <2>4, ImageNotTorn DEF FilesInv, WellFormed
<1>3. WellFormed(Content)
  BY <1>1, <1>2 DEF Content, FilesInv
<1> QED
  BY <1>2, <1>3 DEF WellFormed

\* Past WAL mode, a connection that holds the write lock reads the committed
\* content.
LEMMA ReadsDurable ==
  ASSUME StartupInv, NEW o \in Opener, opener[o].phase \in {"Migrate", "Serving"},
         ~HotJournal, ~Others(o, Reserved \cup Exclusive)
  PROVE  /\ Content = main.image /\ Durable = main.image
         /\ WellFormed(main.image) /\ main.image \in File!Image
         /\ ~InJournalTransaction
<1>1. wal = NoFile /\ ~main.wal_mode
  BY DEF StartupInv, OpenerInv, PastWal
<1>2. ~InJournalTransaction
  BY DEF InJournalTransaction, Others, Reserved, Exclusive
<1>3. Content = main.image /\ Durable = main.image
  BY <1>1, <1>2 DEF Content, Durable, HotJournal, NoFile
<1>4. opener[o].phase \notin Transacting /\ ~Others(o, Exclusive)
  BY DEF Transacting, Reserved, Others
<1> QED
  BY <1>2, <1>3, <1>4, ReadsWhole

\* Creating an empty database changes no content.
LEMMA ConnectKeeps ==
  ASSUME StartupInv, NEW o \in Opener, Connect(o)
  PROVE  StartupInv' /\ Advance(o)
<1>0. TypeOK /\ FilesInv /\ OpenerInv(o) /\ opener \in [Opener -> OpenerState]
  BY DEF StartupInv, TypeOK, OpenerState
<1>1. /\ opener' \in [Opener -> OpenerState] /\ opener'[o].phase = "Version"
      /\ \A p \in Opener \ {o} : opener'[p] = opener[p]
  BY <1>0, GotoKeeps DEF Connect, Phase
<1>2. main' \in Main /\ main'.wal_mode = main.wal_mode /\ main'.image = main.image
  BY <1>0 DEF Connect, TypeOK, Main
<1>3. /\ main'.length = "pages" <=> main.length = "pages"
      /\ main.length # "absent" => main' = main
  BY <1>0 DEF Connect, TypeOK, Main
<1>4. UNCHANGED <<journal, wal, faults>>
  BY DEF Connect
<1>5. TypeOK' /\ FilesInv'
  BY <1>0, <1>1, <1>2, <1>3, <1>4 DEF TypeOK, FilesInv, OpenerState
<1>6. Durable' = Durable
  BY <1>2, <1>3, <1>4 DEF Durable
<1>7. ASSUME NEW p \in Opener \ {o}, opener[p].phase \in Transacting
      PROVE  UNCHANGED <<main, journal>>
  <2>1. journal.kind = "pages" /\ (main.length = "pages" \/ journal.main = main)
    BY <1>7 DEF StartupInv, OpenerInv, Transacting, Reserved
  <2> QED
    BY <1>0, <1>3, <1>4, <2>1 DEF FilesInv
<1>8. Advance(o)
  BY <1>1, <1>2, <1>3, <1>4, <1>6, <1>7 DEF Advance, StrayWal
<1>9. OpenerInv(o)'
  BY <1>0, <1>1, <1>2, <1>3, <1>4
  DEF OpenerInv, PastWal, Served, StrayWal, Connected, Transacting, Reserved, Connect
<1> QED
  BY <1>1, <1>5, <1>8, <1>9, StepKeeps DEF Transacting, Reserved

\* A recovery leaves the committed content, which the hot journal holds.
LEMMA BeginRecoveryKeeps ==
  ASSUME StartupInv, NEW o \in Opener, BeginRecovery(o)
  PROVE  StartupInv' /\ Advance(o)
<1>0. TypeOK /\ FilesInv /\ OpenerInv(o) /\ opener \in [Opener -> OpenerState]
  BY DEF StartupInv, TypeOK, OpenerState
<1> DEFINE was == opener[o].phase
<1>1. was \in {"Version", "Schema", "Migrate", "Serving"} /\ was \in Phase
  BY Zenon DEF BeginRecovery, Phase
<1>2. /\ opener' \in [Opener -> OpenerState]
      /\ opener'[o].phase = "Recover" /\ opener'[o].next = was
      /\ \A p \in Opener \ {o} : opener'[p] = opener[p]
  <2>1. opener' = [opener EXCEPT ![o] = [@ EXCEPT !.phase = "Recover", !.next = was]]
    BY DEF BeginRecovery
  <2>2. "Recover" \in Phase
    BY DEF Phase
  <2> HIDE DEF was
  <2> QED
    BY <1>0, <1>1, <2>1, <2>2, SetNext, Zenon
<1>3. journal.kind = "pages" /\ main.length = "pages" /\ ~Others(o, Transacting)
  BY DEF BeginRecovery, HotJournal, InJournalTransaction, Others, Transacting
<1>4. /\ main' \in Main /\ main'.length = "pages" /\ main'.wal_mode = main.wal_mode
      /\ main'.image = Torn
  BY <1>0, <1>3 DEF BeginRecovery, TypeOK, Main
<1>5. UNCHANGED <<journal, wal, faults>>
  BY DEF BeginRecovery
<1>6. wal = NoFile /\ ~main.wal_mode
  BY <1>0, <1>3 DEF FilesInv, NoFile
<1>7. TypeOK' /\ FilesInv'
  BY <1>0, <1>2, <1>3, <1>4, <1>5, <1>6 DEF TypeOK, FilesInv, OpenerState
<1>8. Durable' = Durable
  BY <1>3, <1>4, <1>5 DEF Durable
<1>9. Advance(o)
  BY <1>2, <1>3, <1>4, <1>5, <1>6, <1>8 DEF Advance, StrayWal, Others
<1>10. OpenerInv(o)'
  <2>1. (Served(o) => Serveable(Durable))'
    BY <1>0, <1>1, <1>2, <1>8 DEF OpenerInv, Served, Serveable, Transacting
  <2> QED
    BY <1>1, <1>2, <1>3, <1>4, <1>5, <1>6, <2>1
    DEF OpenerInv, PastWal, StrayWal, Connected, Reserved
<1> QED
  BY <1>3, <1>7, <1>9, <1>10, StepKeeps

\* The end of a recovery and a failed write put back what the journal holds.
LEMMA RollbackKeeps ==
  ASSUME StartupInv, NEW o \in Opener, opener[o].phase \in Transacting,
         main' = journal.main, journal' = NoFile, wal' = wal, faults' \in 0..MaxFaults,
         Goto(o, opener[o].next)
  PROVE  StartupInv' /\ Advance(o)
<1>0. TypeOK /\ FilesInv /\ OpenerInv(o) /\ opener \in [Opener -> OpenerState]
  BY DEF StartupInv, TypeOK, OpenerState
<1> DEFINE next == opener[o].next
<1>1. next \in {"Version", "Schema", "Migrate", "Serving", "Closing"} /\ next \in Phase
  BY <1>0 DEF OpenerInv, PendingInv, Transacting, Reserved, Phase
<1>2. /\ opener' \in [Opener -> OpenerState] /\ opener'[o].phase = next
      /\ \A p \in Opener \ {o} : opener'[p] = opener[p]
  <2> HIDE DEF next
  <2> QED
    BY <1>0, <1>1, GotoKeeps DEF next
<1>3. journal.kind = "pages" /\ (main.length = "pages" \/ journal.main = main)
  BY <1>0 DEF OpenerInv, Transacting, Reserved
<1>4. wal = NoFile /\ ~main.wal_mode
  BY <1>0, <1>3 DEF FilesInv, NoFile
<1>5. journal.main \in Main /\ journal.main.image # Torn
  BY <1>0, <1>3 DEF TypeOK, Journal, NoFile
<1>6. /\ WellFormed(journal.main.image)
      /\ ~journal.main.wal_mode /\ journal.main.length # "absent"
      /\ journal.main.length # "pages" => journal.main.image = EmptyImage
  BY <1>0, <1>3, <1>5 DEF FilesInv, Main
<1>7. TypeOK'
  BY <1>0, <1>2, <1>5 DEF TypeOK, OpenerState, Journal
<1>8. FilesInv'
  BY <1>4, <1>5, <1>6 DEF FilesInv, NoFile
<1>9. Durable' = Durable
  BY <1>3, <1>4, <1>6 DEF Durable, NoFile
<1>10. Advance(o)
  <2>1. \A p \in Opener \ {o} : opener[p].phase \notin Transacting
    BY DEF StartupInv, OneTransaction
  <2> QED
    BY <1>2, <1>4, <1>6, <1>9, <2>1 DEF Advance, StrayWal
<1>11. OpenerInv(o)'
  <2>1. next = "Serving" => Serveable(Durable)
    BY <1>0 DEF OpenerInv, Served
  <2>2. (Served(o) => Serveable(Durable))'
    BY <1>1, <1>2, <1>9, <2>1 DEF Served, Serveable, Transacting, Reserved
  <2> QED
    BY <1>1, <1>2, <1>4, <1>6, <2>2 DEF OpenerInv, PastWal, StrayWal, Connected, Reserved
<1> QED
  BY <1>7, <1>8, <1>10, <1>11, StepKeeps

\* The first statement removes companions that hold nothing of the database.
LEMMA VersionKeeps ==
  ASSUME StartupInv, NEW o \in Opener, Version(o)
  PROVE  StartupInv' /\ Advance(o)
<1>0. TypeOK /\ FilesInv /\ OpenerInv(o) /\ opener \in [Opener -> OpenerState]
  BY DEF StartupInv, TypeOK, OpenerState
<1>1. Content.version \in Nat
  BY ReadsWhole, Zenon DEF Version, Transacting, Reserved, File!Image
<1>2. /\ opener' \in [Opener -> OpenerState]
      /\ opener'[o].phase = "Schema" /\ opener'[o].next = opener[o].next
      /\ \A p \in Opener \ {o} : opener'[p] = opener[p]
  <2>1. opener' = [opener EXCEPT ![o] = [@ EXCEPT !.phase = "Schema", !.version = Content.version]]
    BY DEF Version
  <2>2. "Schema" \in Phase
    BY DEF Phase
  <2> QED
    BY <1>0, <1>1, <2>1, <2>2, SetVersion, Zenon
<1>3. /\ UNCHANGED <<main, faults>> /\ wal' \in {wal, NoFile} /\ journal' \in {journal, NoFile}
      /\ main.length # "pages" => wal' = NoFile
      /\ InJournalTransaction => journal' = journal
  BY DEF Version
<1>4. TypeOK'
  BY <1>0, <1>2, <1>3 DEF TypeOK, OpenerState, Journal, Wal
<1>5. main.image # Torn
  BY ReadsWhole DEF Version, Transacting, Reserved
<1>6. FilesInv'
  BY <1>0, <1>3, <1>5 DEF FilesInv, NoFile
<1>7. Durable' = Durable
  <2>1. CASE main.length = "pages"
    BY <1>3, <2>1 DEF Version, HotJournal, Durable, NoFile
  <2>2. CASE main.length # "pages"
    BY <1>0, <1>3, <2>2 DEF Durable, FilesInv
  <2> QED
    BY <2>1, <2>2
<1>8. (StrayWal => main.length # "pages") /\ main.length # "absent"
  BY <1>0 DEF OpenerInv, Version, Connected
<1>9. Advance(o)
  <2>1. StrayWal => journal = NoFile
    BY <1>0 DEF StrayWal, FilesInv
  <2>2. \A p \in Opener \ {o} : opener[p].phase \in Transacting => InJournalTransaction
    BY DEF InJournalTransaction, Transacting
  <2> QED
    BY <1>2, <1>3, <1>7, <1>8, <2>1, <2>2 DEF Advance, StrayWal
<1>10. OpenerInv(o)'
  BY <1>2, <1>3, <1>8 DEF OpenerInv, PastWal, Served, StrayWal, Connected, Transacting, Reserved
<1> QED
  BY <1>2, <1>4, <1>6, <1>9, <1>10, StepKeeps DEF Transacting, Reserved

\* Steps that end, or that go on without touching a file.
LEMMA LeaveKeeps ==
  ASSUME StartupInv, NEW o \in Opener, Schema(o) \/ BusyTimeout(o) \/ Stop(o)
  PROVE  StartupInv' /\ Advance(o)
<1>0. TypeOK /\ OpenerInv(o) /\ opener \in [Opener -> OpenerState]
  BY DEF StartupInv, TypeOK, OpenerState
<1>1. UNCHANGED files /\ faults' \in 0..MaxFaults
  BY <1>0, MaxFaultsAssumption DEF Schema, BusyTimeout, Stop, TypeOK
<1>2. \/ Closed(o)
      \/ /\ Goto(o, "JournalMode") \/ Goto(o, "Closing")
         /\ opener[o].phase \in {"Schema", "Migrate"}
  BY DEF Schema, BusyTimeout, Stop
<1>3. CASE Closed(o)
  <2>1. OpenerInv(o)'
    BY <1>0, <1>3, ClosedKeeps DEF OpenerInv, PastWal, Served, Connected, Transacting, Reserved
  <2> QED
    BY <1>0, <1>1, <1>3, <2>1, ClosedKeeps, LookKeeps DEF Transacting, Reserved
<1>4. ASSUME NEW phase \in {"JournalMode", "Closing"}, Goto(o, phase),
             opener[o].phase \in {"Schema", "Migrate"}
      PROVE  StartupInv' /\ Advance(o)
  <2>1. /\ opener' \in [Opener -> OpenerState] /\ opener'[o].phase = phase
        /\ \A p \in Opener \ {o} : opener'[p] = opener[p]
    BY <1>0, <1>4, GotoKeeps DEF Phase
  <2>2. ~StrayWal /\ main.length # "absent"
    BY <1>0, <1>4 DEF OpenerInv, Connected
  <2>3. OpenerInv(o)'
    BY <1>1, <2>1, <2>2
    DEF OpenerInv, PastWal, Served, StrayWal, Connected, Transacting, Reserved, files
  <2> QED
    BY <1>1, <2>1, <2>3, LookKeeps DEF Transacting, Reserved
<1> QED
  BY <1>2, <1>3, <1>4

\* Leaving WAL mode moves the log into the database, then changes the header.
LEMMA JournalModeKeeps ==
  ASSUME StartupInv, NEW o \in Opener, JournalMode(o)
  PROVE  StartupInv' /\ Advance(o)
<1>0. TypeOK /\ FilesInv /\ OpenerInv(o) /\ opener \in [Opener -> OpenerState]
  BY DEF StartupInv, TypeOK, OpenerState
<1>1. /\ opener[o].phase = "JournalMode" /\ UNCHANGED faults
      /\ ~StrayWal /\ main.length # "absent"
  BY <1>0 DEF JournalMode, OpenerInv, Connected
<1>2. CASE UNCHANGED files
  <2>1. \/ Goto(o, "Migrate") /\ ~main.wal_mode /\ wal = NoFile
        \/ Goto(o, "Closing")
        \/ Goto(o, "FlipHeader") /\ wal' = NoFile
    BY DEF JournalMode
  <2>2. PICK phase \in {"Migrate", "Closing", "FlipHeader"} :
          /\ Goto(o, phase)
          /\ phase = "Migrate" => ~main.wal_mode /\ wal = NoFile
          /\ phase = "FlipHeader" => wal = NoFile
    BY <1>2, <2>1 DEF files
  <2>3. /\ opener' \in [Opener -> OpenerState] /\ opener'[o].phase = phase
        /\ \A p \in Opener \ {o} : opener'[p] = opener[p]
    BY <1>0, <2>2, GotoKeeps DEF Phase
  <2>4. OpenerInv(o)'
    BY <1>1, <1>2, <2>2, <2>3
    DEF OpenerInv, PastWal, Served, StrayWal, Connected, Transacting, Reserved, files
  <2> QED
    BY <1>0, <1>1, <1>2, <2>3, <2>4, LookKeeps DEF Transacting, Reserved, TypeOK
<1>3. CASE ~(UNCHANGED files)
  <2>1. /\ main' = [main EXCEPT !.image = Content] /\ wal' = NoFile /\ UNCHANGED journal
        /\ Goto(o, "FlipHeader") /\ main.wal_mode
    BY <1>1, <1>3 DEF JournalMode, StrayWal
  <2>2. main.length = "pages" /\ journal = NoFile /\ main.image # Torn
    BY <1>0, <2>1 DEF FilesInv, TypeOK, NoFile
  <2>3. WellFormed(Content) /\ Content \in File!Image
    BY <1>0, <2>2 DEF Content, FilesInv, WellFormed
  <2>4. /\ opener' \in [Opener -> OpenerState] /\ opener'[o].phase = "FlipHeader"
        /\ \A p \in Opener \ {o} : opener'[p] = opener[p]
    BY <1>0, <2>1, GotoKeeps DEF Phase
  <2>5. /\ main' \in Main /\ main'.length = main.length /\ main'.wal_mode = main.wal_mode
        /\ main'.image = Content
    BY <1>0, <2>1, <2>3, Zenon DEF TypeOK, Main
  <2>6. TypeOK'
    BY <1>0, <1>1, <2>1, <2>4, <2>5 DEF TypeOK, OpenerState, Wal
  <2>7. FilesInv'
    BY <2>1, <2>2, <2>3, <2>5, ImageNotTorn DEF FilesInv, NoFile
  <2>8. Durable' = Durable
    BY <2>1, <2>2, <2>5 DEF Durable, Content, NoFile
  <2>9. \A p \in Opener : opener[p].phase \notin Transacting
    BY <2>2 DEF StartupInv, OpenerInv, Transacting, Reserved, NoFile
  <2>10. Advance(o)
    BY <1>1, <2>1, <2>4, <2>5, <2>8, <2>9 DEF Advance, StrayWal
  <2>11. OpenerInv(o)'
    BY <2>1, <2>2, <2>4, <2>5
    DEF OpenerInv, PastWal, Served, StrayWal, Connected, Transacting, Reserved
  <2> QED
    BY <2>4, <2>6, <2>7, <2>10, <2>11, StepKeeps DEF Transacting, Reserved
<1> QED
  BY <1>2, <1>3

\* journal_mode = DELETE, second half: the header leaves WAL mode after the log is
\* gone.
LEMMA FlipHeaderKeeps ==
  ASSUME StartupInv, NEW o \in Opener, FlipHeader(o)
  PROVE  StartupInv' /\ Advance(o)
<1>0. TypeOK /\ FilesInv /\ OpenerInv(o) /\ opener \in [Opener -> OpenerState]
  BY DEF StartupInv, TypeOK, OpenerState
<1>1. wal = NoFile /\ main.length # "absent" /\ UNCHANGED <<journal, wal, faults>>
  BY <1>0 DEF FlipHeader, OpenerInv, Connected
<1>2. /\ opener' \in [Opener -> OpenerState] /\ opener'[o].phase = "Migrate"
      /\ \A p \in Opener \ {o} : opener'[p] = opener[p]
  BY <1>0, GotoKeeps DEF FlipHeader, Phase
<1>3. /\ main' \in Main /\ main'.length = main.length /\ main'.image = main.image
      /\ ~main'.wal_mode /\ (~main.wal_mode => main' = main)
  BY <1>0, Zenon DEF FlipHeader, TypeOK, Main
<1>4. TypeOK' /\ FilesInv'
  BY <1>0, <1>1, <1>2, <1>3 DEF TypeOK, FilesInv, OpenerState
<1>5. Durable' = Durable
  BY <1>1, <1>3 DEF Durable, NoFile
<1>6. ASSUME NEW p \in Opener \ {o}, opener[p].phase \in Transacting
      PROVE  UNCHANGED <<main, journal>>
  <2>1. journal.kind = "pages"
    BY <1>6 DEF StartupInv, OpenerInv, Transacting, Reserved
  <2> QED
    BY <1>0, <1>1, <1>3, <2>1 DEF FilesInv, NoFile
<1>7. Advance(o)
  BY <1>1, <1>2, <1>3, <1>5, <1>6 DEF Advance, StrayWal
<1>8. OpenerInv(o)'
  BY <1>1, <1>2, <1>3 DEF OpenerInv, PastWal, Served, StrayWal, Connected, Transacting, Reserved
<1> QED
  BY <1>2, <1>4, <1>7, <1>8, StepKeeps DEF Transacting, Reserved

\* A connection that is dropped after a refusal may move the log as well.
LEMMA DisconnectKeeps ==
  ASSUME StartupInv, NEW o \in Opener, Disconnect(o)
  PROVE  StartupInv' /\ Advance(o)
<1>0. TypeOK /\ FilesInv /\ OpenerInv(o) /\ opener \in [Opener -> OpenerState]
  BY DEF StartupInv, TypeOK, OpenerState
<1>1. /\ opener' \in [Opener -> OpenerState] /\ opener'[o].phase = "Closed"
      /\ \A p \in Opener \ {o} : opener'[p] = opener[p]
  BY <1>0, ClosedKeeps DEF Disconnect
<1>2. OpenerInv(o)'
  BY <1>1 DEF OpenerInv, PastWal, Served, Connected, Transacting, Reserved
<1>3. CASE UNCHANGED files
  BY <1>0, <1>1, <1>2, <1>3, LookKeeps DEF Disconnect, Transacting, Reserved, TypeOK
<1>4. CASE ~(UNCHANGED files)
  <2>1. /\ main' = [main EXCEPT !.image = Content] /\ wal' = NoFile
        /\ UNCHANGED <<journal, faults>> /\ main.wal_mode
    BY <1>4 DEF Disconnect, files
  <2>2. main.length = "pages" /\ journal = NoFile /\ main.image # Torn
    BY <1>0, <2>1 DEF FilesInv, TypeOK, NoFile
  <2>3. WellFormed(Content) /\ Content \in File!Image
    BY <1>0, <2>2 DEF Content, FilesInv, WellFormed
  <2>4. /\ main' \in Main /\ main'.length = main.length /\ main'.wal_mode = main.wal_mode
        /\ main'.image = Content
    BY <1>0, <2>1, <2>3, Zenon DEF TypeOK, Main
  <2>5. TypeOK'
    BY <1>0, <1>1, <2>1, <2>4 DEF TypeOK, OpenerState, Wal
  <2>6. FilesInv'
    BY <2>1, <2>2, <2>3, <2>4, ImageNotTorn DEF FilesInv, NoFile
  <2>7. Durable' = Durable
    BY <2>1, <2>2, <2>4 DEF Durable, Content, NoFile
  <2>8. \A p \in Opener : opener[p].phase \notin Transacting
    BY <2>2 DEF StartupInv, OpenerInv, Transacting, Reserved, NoFile
  <2>9. Advance(o)
    BY <1>1, <2>1, <2>4, <2>7, <2>8 DEF Advance, StrayWal
  <2> QED
    BY <1>1, <1>2, <2>5, <2>6, <2>9, StepKeeps DEF Transacting, Reserved
<1> QED
  BY <1>3, <1>4

-----------------------------------------------------------------------------
(* Transactions.                                                           *)

\* The journal takes the pages as they are, so the committed content stays.
LEMMA BeginWriteKeeps ==
  ASSUME StartupInv, NEW o \in Opener, opener[o].phase \in {"Migrate", "Serving"},
         ~HotJournal, ~Others(o, Reserved \cup Exclusive),
         NEW image \in File!Image, NEW next \in {"Closing", "Serving"},
         BeginWrite(o, image, next),
         \/ /\ next = "Closing" /\ File!Accepts(main.image.version, main.image)
            /\ image = File!Migrated(main.image)
         \/ /\ next = "Serving" /\ opener[o].phase = "Serving"
            /\ \E m \in Signed \ Expired : image = File!WithMessage(main.image, m)
  PROVE  StartupInv' /\ Advance(o)
<1>0. TypeOK /\ FilesInv /\ OpenerInv(o) /\ opener \in [Opener -> OpenerState]
  BY DEF StartupInv, TypeOK, OpenerState
<1>1. /\ Durable = main.image /\ WellFormed(main.image) /\ main.image \in File!Image
      /\ ~InJournalTransaction
  BY ReadsDurable
<1>2. wal = NoFile /\ ~main.wal_mode /\ main.length # "absent"
  BY <1>0 DEF OpenerInv, PastWal, Connected
<1>3. UNCHANGED <<main, wal, faults>> /\ journal' = [kind |-> "pages", main |-> main]
  BY DEF BeginWrite
<1>4. /\ opener' \in [Opener -> OpenerState]
      /\ opener'[o].phase = "Write" /\ opener'[o].next = next /\ opener'[o].pending = image
      /\ \A p \in Opener \ {o} : opener'[p] = opener[p]
  <2>1. opener' = [opener EXCEPT ![o] =
                     [@ EXCEPT !.phase = "Write", !.next = next, !.pending = image]]
    BY DEF BeginWrite
  <2>2. "Write" \in Phase /\ next \in Phase
    BY DEF Phase
  <2> QED
    BY <1>0, <2>1, <2>2, SetPending, ZenonT(40)
<1>5. TypeOK'
  <2>1. journal' \in Journal
    BY <1>0, <1>1, <1>3, ImageNotTorn, Zenon DEF TypeOK, Journal
  <2> QED
    BY <1>0, <1>3, <1>4, <2>1 DEF TypeOK, OpenerState
<1>6. FilesInv'
  BY <1>0, <1>1, <1>2, <1>3, ImageNotTorn, Zenon DEF FilesInv
<1>7. Durable' = Durable
  BY <1>1, <1>2, <1>3, Zenon DEF Durable
<1>8. Advance(o)
  BY <1>1, <1>2, <1>3, <1>4, <1>7, Zenon DEF Advance, StrayWal, InJournalTransaction, Transacting
<1>9. OpenerInv(o)'
  <2>1. PendingInv(o)'
    BY <1>3, <1>4 DEF PendingInv
  <2>2. (Served(o) => Serveable(Durable))'
    BY <1>0, <1>4, <1>7 DEF OpenerInv, Served, Serveable, Transacting, Reserved
  <2> QED
    BY <1>2, <1>3, <1>4, <2>1, <2>2, Zenon DEF OpenerInv, PastWal, StrayWal, Connected
<1>10. ~Others(o, Transacting)
  BY <1>1 DEF Others, InJournalTransaction, Transacting
<1> QED
  BY <1>5, <1>6, <1>8, <1>9, <1>10, StepKeeps

\* The migration validates again under the lock, so it upgrades nothing but an
\* acceptable schema, and goes on to serve nothing but a current one.
LEMMA MigrateKeeps ==
  ASSUME StartupInv, NEW o \in Opener, Migrate(o)
  PROVE  StartupInv' /\ Advance(o)
<1>0. TypeOK /\ FilesInv /\ OpenerInv(o) /\ opener \in [Opener -> OpenerState]
  BY DEF StartupInv, TypeOK, OpenerState
<1>1. /\ opener[o].phase = "Migrate" /\ ~HotJournal /\ ~Others(o, Reserved \cup Exclusive)
      /\ Content = main.image /\ Durable = main.image /\ WellFormed(main.image)
  BY ReadsDurable DEF Migrate
<1>2. wal = NoFile /\ ~main.wal_mode /\ main.length # "absent"
  BY <1>0, <1>1 DEF OpenerInv, PastWal, Connected
<1>3. CASE Goto(o, "Closing") /\ UNCHANGED <<files, faults>>
  <2>1. /\ opener' \in [Opener -> OpenerState] /\ opener'[o].phase = "Closing"
        /\ \A p \in Opener \ {o} : opener'[p] = opener[p]
    BY <1>0, <1>3, GotoKeeps DEF Phase
  <2>2. OpenerInv(o)'
    BY <1>2, <1>3, <2>1
    DEF OpenerInv, PastWal, Served, StrayWal, Connected, Transacting, Reserved, files
  <2> QED
    BY <1>0, <1>3, <2>1, <2>2, LookKeeps DEF Transacting, Reserved, TypeOK
<1>4. CASE /\ File!Accepts(Content.version, Content) /\ File!Migrated(Content) = Content
           /\ Goto(o, "Serving") /\ UNCHANGED <<files, faults>>
  <2>1. /\ opener' \in [Opener -> OpenerState] /\ opener'[o].phase = "Serving"
        /\ \A p \in Opener \ {o} : opener'[p] = opener[p]
    BY <1>0, <1>4, GotoKeeps, Zenon DEF Phase
  <2>2. Serveable(Durable)
    BY <1>1, <1>4, MigratedServeable, Zenon
  <2>3. Serveable(Durable)'
    BY <1>4, <2>2 DEF Serveable, Durable, files
  <2>4. OpenerInv(o)'
    BY <1>2, <1>4, <2>1, <2>3, Zenon
    DEF OpenerInv, PastWal, Served, StrayWal, Connected, Transacting, Reserved, files
  <2> QED
    BY <1>0, <1>4, <2>1, <2>4, LookKeeps DEF Transacting, Reserved, TypeOK
<1>5. CASE /\ File!Accepts(Content.version, Content)
           /\ BeginWrite(o, File!Migrated(Content), "Closing")
  <2>1. File!Migrated(main.image) \in File!Image
    BY <1>1, <1>5, MigratedServeable
  <2> QED
    BY <1>1, <1>5, <2>1, BeginWriteKeeps, Zenon
<1> QED
  BY <1>3, <1>4, <1>5 DEF Migrate

\* So does a serving relay's write.
LEMMA StoreKeeps ==
  ASSUME StartupInv, NEW o \in Opener, NEW m \in Signed \ Expired, Store(o, m)
  PROVE  StartupInv' /\ (Advance(o) \/ UNCHANGED vars)
<1>1. /\ opener[o].phase = "Serving" /\ ~HotJournal /\ ~Others(o, Reserved \cup Exclusive)
      /\ Content = main.image /\ Durable = main.image /\ main.image \in File!Image
  BY ReadsDurable, Zenon DEF Store
<1>2. CASE UNCHANGED vars
  <2>1. StartupInv'
    BY <1>2, ZenonT(40)
    DEF StartupInv, TypeOK, FilesInv, OneTransaction, OpenerInv, PastWal, Served,
                PendingInv, Serveable, Durable, StrayWal, vars
  <2> QED
    BY <1>2, <2>1
<1>3. CASE BeginWrite(o, File!WithMessage(Content, m), "Serving")
  <2>1. Serveable(main.image)
    BY <1>1 DEF StartupInv, OpenerInv, Served
  <2>2. File!WithMessage(main.image, m) \in File!Image
    BY <1>1, <2>1, WithMessageServeable
  <2> QED
    BY <1>1, <1>3, <2>2, BeginWriteKeeps, Zenon
<1> QED
  BY <1>2, <1>3 DEF Store

\* COMMIT writes pages under the journal that holds the old ones.
LEMMA WritePagesKeeps ==
  ASSUME StartupInv, NEW o \in Opener, WritePages(o)
  PROVE  StartupInv' /\ Advance(o)
<1>0. TypeOK /\ FilesInv /\ OpenerInv(o) /\ opener \in [Opener -> OpenerState]
  BY DEF StartupInv, TypeOK, OpenerState
<1>1. journal = [kind |-> "pages", main |-> main] /\ wal = NoFile /\ ~main.wal_mode
  BY <1>0 DEF WritePages, OpenerInv, PastWal
<1>2. /\ opener' \in [Opener -> OpenerState] /\ opener'[o].phase = "Commit"
      /\ opener'[o].next = opener[o].next /\ opener'[o].pending = opener[o].pending
      /\ \A p \in Opener \ {o} : opener'[p] = opener[p]
  BY <1>0, GotoKeeps DEF WritePages, Phase
<1>3. /\ main' \in Main /\ main'.length = "pages" /\ main'.image = Torn
      /\ ~main'.wal_mode /\ UNCHANGED <<journal, wal, faults>>
  BY <1>0, <1>1, Zenon DEF WritePages, TypeOK, Main
<1>4. TypeOK' /\ FilesInv'
  BY <1>0, <1>1, <1>2, <1>3 DEF TypeOK, FilesInv, OpenerState
<1>5. Durable' = Durable
  BY <1>1, <1>3 DEF Durable
<1>6. Advance(o)
  <2>1. \A p \in Opener \ {o} : opener[p].phase \notin Transacting
    BY DEF StartupInv, OneTransaction, WritePages, Transacting, Reserved
  <2> QED
    BY <1>1, <1>2, <1>3, <1>5, <2>1 DEF Advance, StrayWal
<1>7. OpenerInv(o)'
  <2>1. PendingInv(o)'
    BY <1>0, <1>2, <1>3 DEF PendingInv, OpenerInv, WritePages, Reserved
  <2>2. (Served(o) => Serveable(Durable))'
    BY <1>0, <1>2, <1>5 DEF OpenerInv, Served, Serveable, WritePages, Transacting, Reserved
  <2> QED
    BY <1>1, <1>2, <1>3, <2>1, <2>2 DEF OpenerInv, PastWal, StrayWal, Connected
<1> QED
  BY <1>4, <1>6, <1>7, StepKeeps DEF WritePages, Transacting, Reserved

\* The commit is the one step that changes the committed content: by an upgrade
\* or by a new message.
LEMMA CommitWriteKeeps ==
  ASSUME StartupInv, NEW o \in Opener, CommitWrite(o)
  PROVE  StartupInv' /\ Advance(o)
<1>0. TypeOK /\ FilesInv /\ OpenerInv(o) /\ opener \in [Opener -> OpenerState]
  BY DEF StartupInv, TypeOK, OpenerState
<1>1. /\ opener[o].phase = "Commit" /\ journal.kind = "pages" /\ main.length = "pages"
      /\ wal = NoFile /\ ~main.wal_mode /\ PendingInv(o)
  BY <1>0 DEF CommitWrite, OpenerInv, PastWal, Reserved
<1> DEFINE before == journal.main.image
           after == opener[o].pending
<1>2. Durable = before /\ WellFormed(before) /\ before \in File!Image
  BY <1>0, <1>1 DEF Durable, FilesInv, WellFormed
<1>3. after \in File!Image
  BY <1>0 DEF OpenerState
<1>4. /\ opener' \in [Opener -> OpenerState] /\ opener'[o].phase = "Serving"
      /\ \A p \in Opener \ {o} : opener'[p] = opener[p]
  BY <1>0, GotoKeeps DEF CommitWrite, Phase
<1>5. /\ main' \in Main /\ main'.length = "pages" /\ main'.image = after
      /\ ~main'.wal_mode /\ UNCHANGED <<wal, faults>> /\ journal' = NoFile
  BY <1>0, <1>1, <1>3 DEF CommitWrite, TypeOK, Main
<1>6. Durable' = after
  BY <1>1, <1>5 DEF Durable, NoFile
<1>7. File!Next /\ Serveable(after)
  <2>1. CASE File!Accepts(before.version, before) /\ after = File!Migrated(before)
    BY <1>2, <1>6, <2>1, MigratedServeable DEF File!Next, File!Upgrade
  <2>2. ASSUME opener[o].next = "Serving", NEW m \in Signed \ Expired,
               after = File!WithMessage(before, m)
        PROVE  File!Next /\ Serveable(after)
    <3>1. Serveable(before)
      BY <1>0, <1>1, <1>2, <2>2 DEF OpenerInv, Served, Transacting, Reserved
    <3>2. File!Store(m)
      BY <1>2, <1>6, <2>2, <3>1 DEF File!Store, Serveable
    <3> QED
      BY <1>2, <2>2, <3>1, <3>2, WithMessageServeable DEF File!Next
  <2> QED
    BY <1>1, <2>1, <2>2 DEF PendingInv
<1>8. TypeOK'
  BY <1>0, <1>4, <1>5 DEF TypeOK, OpenerState, Journal
<1>9. FilesInv'
  BY <1>1, <1>3, <1>5, <1>7, ServeableWellFormed, ImageNotTorn DEF FilesInv, NoFile
<1>10. Advance(o)
  <2>1. \A p \in Opener \ {o} : opener[p].phase \notin Transacting
    BY <1>1 DEF StartupInv, OneTransaction, Transacting, Reserved
  <2> QED
    BY <1>1, <1>4, <1>5, <1>7, <2>1 DEF Advance, StrayWal
<1>11. OpenerInv(o)'
  <2>1. Serveable(Durable)'
    BY <1>6, <1>7 DEF Serveable
  <2> QED
    BY <1>1, <1>4, <1>5, <2>1
    DEF OpenerInv, PastWal, Served, StrayWal, Connected, Transacting, Reserved
<1> QED
  BY <1>4, <1>8, <1>9, <1>10, <1>11, StepKeeps DEF Transacting, Reserved

-----------------------------------------------------------------------------
(* Theorems.                                                               *)

\* Files that may be found at the path satisfy the invariant while nobody has
\* opened them.
LEMMA StartupInit == Init => StartupInv
<1> SUFFICES ASSUME Init PROVE StartupInv
  OBVIOUS
<1>1. PICK f \in InitialFiles : main = f.main /\ journal = f.journal /\ wal = f.wal
  BY DEF Init
<1>2. FilesInv /\ main \in Main /\ journal \in Journal /\ wal \in Wal
  BY <1>1, FilesAssumption DEF FilesInv
<1>3. NotOpen \in OpenerState
  BY DEF NotOpen, OpenerState, Phase, EmptyImage, File!Image, File!SchemaKind
<1>4. TypeOK
  BY <1>2, <1>3, MaxFaultsAssumption DEF Init, TypeOK, OpenerState
<1>5. \A o \in Opener : opener[o].phase = "Closed"
  BY Zenon DEF Init, NotOpen
<1>6. OneTransaction /\ \A o \in Opener : OpenerInv(o)
  BY <1>5 DEF OneTransaction, OpenerInv, PastWal, Served, Connected, Transacting, Reserved
<1> QED
  BY <1>2, <1>4, <1>6 DEF StartupInv

\* The operator's removal of a stray -wal.
LEMMA RemovalKeeps ==
  ASSUME StartupInv, RemoveStrayWal
  PROVE  StartupInv' /\ Durable' = Durable
<1>1. /\ wal' = NoFile /\ ~main.wal_mode /\ UNCHANGED <<main, journal, opener, faults>>
  BY DEF RemoveStrayWal, StrayWal
<1>2. Durable' = Durable
  BY <1>1, Zenon DEF Durable
<1>3. TypeOK' /\ FilesInv' /\ OneTransaction'
  BY <1>1, Zenon DEF StartupInv, TypeOK, FilesInv, OneTransaction, Wal, NoFile
<1>4. ASSUME NEW o \in Opener PROVE OpenerInv(o)'
  <2>1. OpenerInv(o)
    BY Zenon DEF StartupInv
  <2>2. (Served(o) => Serveable(Durable))'
    BY <1>1, <1>2, <2>1, Zenon DEF OpenerInv, Served, Serveable
  <2> QED
    BY <1>1, <2>1, <2>2, Zenon DEF OpenerInv, PastWal, PendingInv, StrayWal
<1> QED
  BY <1>2, <1>3, <1>4 DEF StartupInv

\* Every step keeps the invariant, and it advances the files, leaves them alone
\* or is the operator's.
LEMMA StartupStep ==
  ASSUME StartupInv, [Next]_vars
  PROVE  /\ StartupInv'
         /\ UNCHANGED vars \/ RemoveStrayWal \/ \E o \in Opener : Advance(o)
<1>1. CASE UNCHANGED vars
  BY <1>1, ZenonT(40) DEF StartupInv, TypeOK, FilesInv, OneTransaction, OpenerInv, PastWal, Served,
              PendingInv, Serveable, Durable, StrayWal, vars
<1>2. CASE RemoveStrayWal
  BY <1>2, RemovalKeeps
<1>3. ASSUME NEW o \in Opener, Opening(o) \/ BusyTimeout(o) \/ FailWrite(o) \/ Stop(o)
      PROVE  StartupInv' /\ Advance(o)
  <2>1. CASE EndRecovery(o)
    <3>1. faults' \in 0..MaxFaults
      BY <2>1 DEF EndRecovery, StartupInv, TypeOK
    <3> QED
      BY <2>1, <3>1, RollbackKeeps DEF EndRecovery, Transacting
  <2>2. CASE FailWrite(o)
    <3>1. faults' \in 0..MaxFaults
      BY <2>2, MaxFaultsAssumption DEF FailWrite, StartupInv, TypeOK
    <3> QED
      BY <2>2, <3>1, RollbackKeeps, Zenon DEF FailWrite, Transacting
  <2> QED
    BY <1>3, <2>1, <2>2, PreflightKeeps, ConnectKeeps, BeginRecoveryKeeps, VersionKeeps,
       LeaveKeeps, JournalModeKeeps, FlipHeaderKeeps, MigrateKeeps, WritePagesKeeps,
       CommitWriteKeeps, DisconnectKeeps
    DEF Opening
<1>4. ASSUME NEW o \in Opener, NEW m \in Signed \ Expired, Store(o, m)
      PROVE  StartupInv' /\ (Advance(o) \/ UNCHANGED vars)
  BY <1>4, StoreKeeps
<1> QED
  BY <1>1, <1>2, <1>3, <1>4, Zenon DEF Next

\* StartupInv holds in every reachable state of Relay::open_at, whatever the
\* number of openers, the files found and the crashes.
THEOREM StartupInvariant == Spec => []StartupInv
<1>1. StartupInv /\ [Next]_vars => StartupInv'
  BY StartupStep
<1> QED
  BY StartupInit, <1>1, PTL DEF Spec

\* Files, schema versions and openers hold values of their types (TypeOK).
THEOREM TypeCorrect == Spec => []TypeOK
<1>1. StartupInv => TypeOK
  BY DEF StartupInv
<1> QED
  BY StartupInvariant, <1>1, PTL

\* A handle that open_at returned works on a current, sound schema in which every
\* message has a sender signature.
THEOREM OnlyCurrentServed == Spec => []ServesCurrent
<1>1. StartupInv => ServesCurrent
  BY DEF StartupInv, OpenerInv, Served, Serveable, ServesCurrent
<1> QED
  BY StartupInvariant, <1>1, PTL

\* A handle that open_at returned works in rollback mode, without a -wal.
THEOREM WalModeLeft == Spec => []ServesInRollbackMode
<1>1. StartupInv => ServesInRollbackMode
  BY DEF StartupInv, OpenerInv, PastWal, ServesInRollbackMode
<1> QED
  BY StartupInvariant, <1>1, PTL

\* The relay never produces the combination that reject_anomalous_wal refuses,
\* not even by a crash while it leaves WAL mode.
THEOREM NoAnomalyOfItsOwn == Spec => AnomalyNotSelfInflicted
<1>1. StartupInv /\ [Next]_vars => [StrayWal' => StrayWal]_vars
  BY StartupStep DEF Advance, RemoveStrayWal, StrayWal, vars
<1> QED
  BY StartupInvariant, <1>1, PTL DEF Spec, AnomalyNotSelfInflicted

\* An opener that meets a stray -wal beside a database touches neither the
\* database nor its journal.
THEOREM AnomalyLeftAlone == Spec => AnomalyUntouched
<1>1. StartupInv /\ [Next]_vars =>
        [StrayWal /\ main.length # "absent" => UNCHANGED <<main, journal>>]_vars
  BY StartupStep DEF Advance, RemoveStrayWal, vars
<1> QED
  BY StartupInvariant, <1>1, PTL DEF Spec, AnomalyUntouched

\* Opening implements the abstract file: the committed content changes only by a
\* complete upgrade of an acceptable schema or a complete write of a serving relay.
THEOREM StartupImplementsFile == Spec => ImplementsFile
<1>1. Init => File!Init
  BY StartupInit, DurableWellFormed DEF StartupInv, File!Init
<1>2. StartupInv /\ [Next]_vars => [File!Next]_Durable
  BY StartupStep, RemovalKeeps DEF Advance, Durable, vars
<1> QED
  BY StartupInvariant, <1>1, <1>2, PTL DEF Spec, ImplementsFile, File!Spec
=============================================================================
