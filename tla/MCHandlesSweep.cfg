\* One message, looking for an operation that leaves an expired row behind.
CONSTANTS
  Handle = {h1, h2}
  MaxLag = 0
  QueueId = {q1}
  MessageId = {m1}
  Packet = {p1}
  UnsendablePackets = {}
  Nonce = {n1}
  Owners = {a}
  Key <- MCKey
  RequestWindow = 2
  MaxMessageTtl = 2
  TombstoneTtl = 2
  I64Max = 5
  U64Max = 5
  MaxClock = 4
  LatestDeadline = 5
  Registrations <- MCEarlyRegistrations
  Sends <- MCSends
  Fetches <- MCFetches
  Acks = {}
  Deletes = {}
SPECIFICATION HSpec
PROPERTY SweptByEveryOperation
