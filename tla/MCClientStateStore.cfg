\* Two handles of two profiles racing to create and to commit, a restored
\* database, and the last generation i64 can hold.
CONSTANTS
  Handle = {h1, h2}
  Binding = {b1, b2}
  State = {s1, s2, huge}
  OversizedStates = {huge}
  I64Max = 3
  MaxDraws = 5
SPECIFICATION Spec
INVARIANTS
  TypeOK
  DatabaseOpens
  HeldIsDurable
  OwnWriteKnown
  NonceUnique
PROPERTY ImplementsRegister
SYMMETRY StoreSymmetry
