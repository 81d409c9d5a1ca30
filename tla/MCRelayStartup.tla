--------------------------- MODULE MCRelayStartup ---------------------------
(***************************************************************************)
(* Small instances of RelayStartup.                                        *)
(***************************************************************************)
EXTENDS RelayStartup

Pages(image) == [length |-> "pages", wal_mode |-> FALSE, image |-> image]
WalPages(image) == [length |-> "pages", wal_mode |-> TRUE, image |-> image]
Absent == [length |-> "absent", wal_mode |-> FALSE, image |-> EmptyImage]
Zero == [length |-> "zero", wal_mode |-> FALSE, image |-> EmptyImage]

Alone(m) == [main |-> m, journal |-> NoFile, wal |-> NoFile]
WithStray(m) == [main |-> m, journal |-> [kind |-> "stray"], wal |-> NoFile]
WithHot(m, before) ==
  [main |-> m, journal |-> [kind |-> "pages", main |-> before], wal |-> NoFile]
WithFrames(m, image) ==
  [main |-> m, journal |-> NoFile, wal |-> [kind |-> "frames", image |-> image]]

Legacy(version) ==
  [kind |-> "Legacy", version |-> version, sound |-> TRUE, messages |-> Unsigned]
Full == File!CurrentImage(Expired \cup {CHOOSE m \in Signed \ Expired : TRUE})
Future == [Full EXCEPT !.version = 3]
Mislabelled == [Full EXCEPT !.version = 1]
Altered == [Full EXCEPT !.kind = "Unknown"]
Corrupt == [Full EXCEPT !.sound = FALSE]

AcceptableImages == {EmptyImage, [EmptyImage EXCEPT !.version = 1], Legacy(0), Legacy(1), Full}
RefusedImages == {Future, Mislabelled, Altered, Corrupt, [Legacy(1) EXCEPT !.version = 2]}

RollbackFiles ==
  {Alone(Absent), Alone(Zero), WithStray(Pages(Full)), WithHot(Absent, Pages(Full)),
   WithFrames(Absent, Full), WithHot(Pages(Torn), Pages(Legacy(1))),
   WithHot(Pages(Torn), Zero)}
    \cup {Alone(Pages(i)) : i \in AcceptableImages}

WalFiles ==
  {Alone(WalPages(Full)), WithFrames(WalPages(Legacy(0)), Full),
   WithFrames(WalPages(Full), Altered)}

RefusedFiles ==
  {Alone(Pages(i)) : i \in RefusedImages}
    \cup {WithStray(Pages(Altered)), WithHot(Pages(Full), Pages(Altered)),
          WithFrames(Zero, Full), WithFrames(Pages(Full), Legacy(0)),
          WithFrames(Pages(Full), Altered), WithFrames(Pages(Legacy(1)), Full)}

AllFiles == RollbackFiles \cup WalFiles \cup RefusedFiles
=============================================================================
