\* Two messages through their whole life and past it, read in either order, with
\* two lost answers, a closed mailbox and requests that come again at any time.
CONSTANTS
  Client = {alice, bob}
  Conversation = {k1}
  Initiators = {alice}
  Writers = {alice}
  Closers = {bob}
  Restarters = {}
  BundleValidity = 1
  RequestWindow = 1
  Lifetime = 1
  TombstoneTtl = 1
  MaxClock = 2
  MaxSeals = 2
  MaxRestarts = 0
  MaxLosses = 2
SPECIFICATION Spec
INVARIANTS
  TypeOK
  RetriesServed
  QueuedReadable
PROPERTY ImplementsMailbox
