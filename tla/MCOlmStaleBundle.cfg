\* Two clients and a bundle that expires between verification and use.
CONSTANTS
  Client = {alice, bob}
  Conversation = {k1}
  Malformed = malformed
  BundleValidity = 1
  MaxOneTimeKeys = 1
  PayloadVersions = {1}
  Deadlines = {1, 2}
  MaxClock = 1
  MaxBundles = 1
  MaxExports = 2
  MaxSeals = 1
  MaxRestarts = 0
SPECIFICATION Spec
INVARIANT BundleFreshAtSession
