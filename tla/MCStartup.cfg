\* Two openers on every kind of file a path may hold, with two crashes or failed
\* writes.
CONSTANTS
  Opener = {o1, o2}
  Signed = {m1, m2, old}
  Unsigned = {u1}
  Expired = {old}
  InitialFiles <- AllFiles
  MaxFaults = 2
SPECIFICATION FairSpec
INVARIANTS
  TypeOK
  ServesCurrent
  ServesInRollbackMode
PROPERTIES
  AnomalyNotSelfInflicted
  AnomalyUntouched
  ImplementsFile
  AcceptableServed
