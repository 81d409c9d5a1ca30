\* Three clients that may pick any contact, any of two conversations and any of
\* two payload versions, with more bundles than an account keeps one-time keys.
CONSTANTS
  Client = {alice, bob, carol}
  Conversation = {k1, k2}
  Malformed = malformed
  BundleValidity = 1
  MaxOneTimeKeys = 2
  PayloadVersions = {1, 2}
  Deadlines = {1}
  MaxClock = 1
  MaxBundles = 3
  MaxExports = 3
  MaxSeals = 1
  MaxRestarts = 0
SPECIFICATION Spec
INVARIANTS
  TypeOK
  DisplayedOnce
  SenderAuthentic
  RefusalKeepsRatchet
  RefusalKeepsOneTimeKey
  SinglePeer
SYMMETRY ClientSymmetry
