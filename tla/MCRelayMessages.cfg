\* The life of a message: one queue, one message id with two ciphertexts, the
\* clock running past the end of the signed 64-bit range.
CONSTANTS
  QueueId = {q1}
  MessageId = {m1}
  Packet = {p1, p2, empty}
  UnsendablePackets = {empty}
  Nonce = {n1}
  Owners = {a, b}
  Key <- MCKey
  RequestWindow = 2
  MaxMessageTtl = 3
  TombstoneTtl = 3
  I64Max = 7
  U64Max = 8
  MaxClock = 8
  LatestDeadline = 8
  Registrations <- MCRegistrations
  Sends <- MCSends
  Fetches = {}
  Acks <- MCAcks
  Deletes <- MCDeletes
SPECIFICATION Spec
INVARIANTS
  TypeOK
  KeysHold
  QueuedOrTombstoned
  SendRetryStable
  AckRetryStable
SYMMETRY PacketSymmetry
PROPERTY MessageKeptUntilDone
