--------------------------- MODULE StateRegister ---------------------------
(***************************************************************************)
(* What the client state store promises: one register of snapshots that a  *)
(* client replaces only if it still holds the snapshot it is replacing,    *)
(* with the generation rising by one.  A client that is told of a failure  *)
(* no longer holds anything.  Restoring an old authentic database file is  *)
(* outside the promise (docs/persistence-spike-design.md), so the register *)
(* may also return to a snapshot it has held before.                       *)
(***************************************************************************)
EXTENDS Naturals

CONSTANTS Client, State

VARIABLES
  register,   \* the durable snapshot
  seen,       \* the snapshot each client holds
  ever        \* every snapshot the register has held

None == [generation |-> 0]
Snapshot(generation, state) == [generation |-> generation, state |-> state]

Init ==
  /\ register = None
  /\ seen = [c \in Client |-> None]
  /\ ever = {}

\* The answer may be lost: the client then holds nothing.
Install(c, snapshot) ==
  /\ register' = snapshot
  /\ ever' = ever \cup {snapshot}
  /\ \/ seen' = [seen EXCEPT ![c] = snapshot]
     \/ seen' = [seen EXCEPT ![c] = None]

Create(c, s) == register = None /\ Install(c, Snapshot(1, s))

Write(c, s) ==
  /\ register # None
  /\ seen[c] = register
  /\ Install(c, Snapshot(register.generation + 1, s))

Read(c) ==
  /\ register # None
  /\ seen' = [seen EXCEPT ![c] = register]
  /\ UNCHANGED <<register, ever>>

Forget(c) ==
  /\ seen' = [seen EXCEPT ![c] = None]
  /\ UNCHANGED <<register, ever>>

Restore ==
  /\ register' \in ever
  /\ UNCHANGED <<seen, ever>>

Next ==
  \/ \E c \in Client : Read(c) \/ Forget(c) \/ \E s \in State : Create(c, s) \/ Write(c, s)
  \/ Restore

Spec == Init /\ [][Next]_<<register, seen, ever>>

=============================================================================
