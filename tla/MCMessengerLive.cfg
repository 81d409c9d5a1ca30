\* Clients that keep retrying. Both start sessions and write, an answer is lost
\* and one client restarts. Time stands still: a restart can fall between any two
\* steps without it.
CONSTANTS
  Client = {alice, bob}
  Conversation = {k1}
  Initiators = {alice, bob}
  Writers = {alice, bob}
  Closers = {}
  Restarters = {bob}
  BundleValidity = 1
  RequestWindow = 1
  Lifetime = 2
  TombstoneTtl = 2
  MaxClock = 0
  MaxSeals = 1
  MaxRestarts = 1
  MaxLosses = 1
SPECIFICATION FairSpec
PROPERTIES
  ImplementsMailbox
  MessagesArrive
  QueueDrains
