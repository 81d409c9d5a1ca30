\* Two handles serving one fetch request, with a call up to a second older than
\* its transaction.
CONSTANTS
  Handle = {h1, h2}
  MaxLag = 1
  QueueId = {q1}
  MessageId = {m1}
  Packet = {p1}
  UnsendablePackets = {}
  Nonce = {n1}
  Owners = {a}
  Key <- MCKey
  RequestWindow = 2
  MaxMessageTtl = 2
  TombstoneTtl = 2
  I64Max = 5
  U64Max = 5
  MaxClock = 4
  LatestDeadline = 5
  Registrations <- MCEarlyRegistrations
  Sends = {}
  Fetches <- MCFetches
  Acks = {}
  Deletes = {}
SPECIFICATION HSpec
INVARIANT FetchServedOnceAcrossHandles
