\* Two handles storing, fetching and acknowledging one message, each call up to a
\* second older than the transaction it runs in.
CONSTANTS
  Handle = {h1, h2}
  MaxLag = 1
  QueueId = {q1}
  MessageId = {m1}
  Packet = {p1}
  UnsendablePackets = {}
  Nonce = {n1}
  Owners = {a}
  Key <- MCKey
  RequestWindow = 2
  MaxMessageTtl = 3
  TombstoneTtl = 3
  I64Max = 5
  U64Max = 7
  MaxClock = 5
  LatestDeadline = 4
  Registrations <- MCEarlyRegistrations
  Sends <- MCSends
  Fetches <- MCFewFetches
  Acks <- MCAcks
  Deletes <- MCDeletes
SPECIFICATION HSpec
INVARIANTS
  HTypeOK
  FetchServedOnceWhileValid
  AckRetryAcrossHandles
SYMMETRY HandleSymmetry
PROPERTY MessageKeptUntilDone
