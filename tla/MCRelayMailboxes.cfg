\* Registration, fetching and deletion of two mailboxes that two owners claim.
CONSTANTS
  QueueId = {q1, q2}
  MessageId = {m1}
  Packet = {p1}
  UnsendablePackets = {}
  Nonce = {n1}
  Owners = {a, b}
  Key <- MCKey
  RequestWindow = 2
  MaxMessageTtl = 2
  TombstoneTtl = 2
  I64Max = 4
  U64Max = 6
  MaxClock = 5
  LatestDeadline = 6
  Registrations <- MCRegistrations
  Sends = {}
  Fetches <- MCFetches
  Acks = {}
  Deletes <- MCDeletes
SPECIFICATION Spec
INVARIANTS
  RetiredForever
  RegistrationNonceBacked
  FetchServedOnce
SYMMETRY QueueSymmetry
