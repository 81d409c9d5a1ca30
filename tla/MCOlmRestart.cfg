\* Two clients, two packets from each, and a restart of each.
CONSTANTS
  Client = {alice, bob}
  Conversation = {k1}
  Malformed = malformed
  BundleValidity = 1
  MaxOneTimeKeys = 1
  PayloadVersions = {1}
  Deadlines = {1}
  MaxClock = 0
  MaxBundles = 1
  MaxExports = 4
  MaxSeals = 2
  MaxRestarts = 1
SPECIFICATION Spec
INVARIANT DisplayedOnce
SYMMETRY ClientSymmetry
