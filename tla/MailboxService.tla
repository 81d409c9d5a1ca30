--------------------------- MODULE MailboxService ---------------------------
(***************************************************************************)
(* What relay, capabilities and clients promise together. A message that   *)
(* was accepted stays pending until its recipient has seen it, its mailbox *)
(* is closed or it expires; it is accepted once and seen at most once, and *)
(* never after its expiry. Lost answers, repeated requests, crashes and    *)
(* sweeps do not show.                                                     *)
(***************************************************************************)
EXTENDS Naturals, Sequences

CONSTANTS Client, Message

VARIABLES
  accepted,   \* every [queue_id, message_id, expires_at] ever accepted
  pending,    \* those that are waiting for their recipient
  delivered,  \* the ids each client's user has seen, in order
  closed,     \* the mailboxes that have been closed, for good
  clock

vars == <<accepted, pending, delivered, closed, clock>>

Seen(c) == {delivered[c][i] : i \in DOMAIN delivered[c]}

Init ==
  /\ accepted = {} /\ pending = {}
  /\ delivered = [c \in Client |-> <<>>]
  /\ closed = {}
  /\ clock = 0

Accept(m) ==
  /\ m.expires_at > clock /\ m.queue_id \notin closed
  /\ \A a \in accepted : a.message_id # m.message_id
  /\ accepted' = accepted \cup {m}
  /\ pending' = pending \cup {m}
  /\ UNCHANGED <<delivered, closed, clock>>

Deliver(m) ==
  /\ m.expires_at > clock
  /\ m.message_id \notin Seen(m.queue_id)
  /\ delivered' = [delivered EXCEPT ![m.queue_id] = Append(@, m.message_id)]
  /\ UNCHANGED <<accepted, pending, closed, clock>>

Remove(m) ==
  /\ m.message_id \in Seen(m.queue_id)
  /\ pending' = pending \ {m}
  /\ UNCHANGED <<accepted, delivered, closed, clock>>

Close(c) ==
  /\ c \notin closed
  /\ closed' = closed \cup {c}
  /\ pending' = {m \in pending : m.queue_id # c}
  /\ UNCHANGED <<accepted, delivered, clock>>

Tick ==
  /\ clock' = clock + 1
  /\ pending' = {m \in pending : m.expires_at > clock'}
  /\ UNCHANGED <<accepted, delivered, closed>>

Next ==
  \/ \E m \in Message : Accept(m)
  \/ \E m \in accepted : Deliver(m)
  \/ \E m \in pending : Remove(m)
  \/ \E c \in Client : Close(c)
  \/ Tick

Spec == Init /\ [][Next]_vars
=============================================================================
