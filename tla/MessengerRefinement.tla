------------------------ MODULE MessengerRefinement ------------------------
(***************************************************************************)
(* Relay and clients together implement MailboxService, for any number of  *)
(* clients, messages, restarts and lost answers: each step of Messenger is *)
(* one step of the abstract service or leaves it as it is. The invariant   *)
(* of MessengerProofs says why.                                            *)
(***************************************************************************)
EXTENDS MessengerProofs

(* The variables of the service.                                           *)

Accepted == {AsMessage(req) : req \in stored}
Pending == {AsMessage(row) : row \in R!UnexpiredMessages(clock)}
Closed == {c \in Client : R!Retired(c)}
Ids(s) == [i \in DOMAIN s |-> s[i].message_id]
Delivered == [c \in Client |-> Ids(shown[c])]
Promised == [queue_id : Client, message_id : MessageIds, expires_at : 0..EndOfTime]

\* The service under the refinement mapping: its state and the passing of time.
LEMMA ServiceView ==
  /\ Service!vars = <<Accepted, Pending, Delivered, Closed, clock>>
  /\ Service!Tick <=> /\ clock' = clock + 1
                      /\ Pending' = {m \in Pending : m.expires_at > clock'}
                      /\ UNCHANGED <<Accepted, Delivered, Closed>>
  BY Zenon DEF Service!vars, Accepted, Pending, Delivered, Closed, Ids, Service!Tick

\* The service under the refinement mapping: its actions.
LEMMA ServiceActions ==
  ASSUME NEW m
  PROVE
  /\ Service!Accept(m) <=>
       /\ m.expires_at > clock /\ m.queue_id \notin Closed
       /\ \A a \in Accepted : a.message_id # m.message_id
       /\ Accepted' = Accepted \cup {m} /\ Pending' = Pending \cup {m}
       /\ UNCHANGED <<Delivered, Closed, clock>>
  /\ Service!Deliver(m) <=>
       /\ m.expires_at > clock
       /\ m.message_id \notin {Delivered[m.queue_id][i] : i \in DOMAIN Delivered[m.queue_id]}
       /\ Delivered' = [Delivered EXCEPT ![m.queue_id] = Append(@, m.message_id)]
       /\ UNCHANGED <<Accepted, Pending, Closed, clock>>
  /\ Service!Remove(m) <=>
       /\ m.message_id \in {Delivered[m.queue_id][i] : i \in DOMAIN Delivered[m.queue_id]}
       /\ Pending' = Pending \ {m}
       /\ UNCHANGED <<Accepted, Delivered, Closed, clock>>
  /\ Service!Close(m) <=>
       /\ m \notin Closed /\ Closed' = Closed \cup {m}
       /\ Pending' = {x \in Pending : x.queue_id # m}
       /\ UNCHANGED <<Accepted, Delivered, clock>>
  BY Zenon DEF Accepted, Pending, Delivered, Closed, Ids, Service!Accept, Service!Deliver,
         Service!Remove, Service!Close, Service!Seen

\* The steps of the service.
LEMMA ServiceNext ==
  Service!Next <=>
    \/ \E m \in Promised : Service!Accept(m)
    \/ \E m \in Accepted : Service!Deliver(m)
    \/ \E m \in Pending : Service!Remove(m)
    \/ \E c \in Client : Service!Close(c)
    \/ Service!Tick
  BY DEF Service!Next, Promised, Accepted, Pending

-----------------------------------------------------------------------------
(* The mapping.                                                            *)

\* A sequence with one element more is a function on one number more.
LEMMA AppendIsFunction ==
  ASSUME NEW S, NEW s \in Seq(S), NEW x \in S
  PROVE  /\ Append(s, x) \in [1..(Len(s) + 1) -> S]
         /\ \A i \in 1..Len(s) : Append(s, x)[i] = s[i]
         /\ Append(s, x)[Len(s) + 1] = x
<1>1. /\ Append(s, x) \in Seq(S) /\ Len(Append(s, x)) = Len(s) + 1
      /\ \A i \in 1..Len(s) : Append(s, x)[i] = s[i]
      /\ Append(s, x)[Len(s) + 1] = x
  OBVIOUS
<1>2. \A t \in Seq(S) : t \in [1..Len(t) -> S]
  OBVIOUS
<1> QED
  BY <1>1, <1>2, Zenon

\* What was displayed last is the last id that was delivered.
LEMMA IdsAppend ==
  ASSUME NEW s \in Seq(CP!Packet), NEW p \in CP!Packet
  PROVE  Ids(Append(s, p)) = Append(Ids(s), p.message_id)
<1>1. /\ p.message_id \in CP!Random /\ DOMAIN s = 1..Len(s) /\ Len(s) \in Nat
      /\ \A i \in 1..Len(s) : s[i].message_id \in CP!Random
  <2>1. /\ DOMAIN s = 1..Len(s) /\ Len(s) \in Nat /\ \A i \in 1..Len(s) : s[i] \in CP!Packet
    OBVIOUS
  <2>2. \A q \in CP!Packet : q.message_id \in CP!Random
    BY Zenon DEF CP!Packet
  <2> QED
    BY <2>1, <2>2, Zenon
<1>2. Ids(s) \in Seq(CP!Random) /\ Len(Ids(s)) = Len(s)
  BY <1>1 DEF Ids
<1>3. /\ Append(s, p) \in Seq(CP!Packet) /\ Len(Append(s, p)) = Len(s) + 1
      /\ DOMAIN Append(s, p) = 1..(Len(s) + 1)
      /\ \A i \in 1..Len(s) : Append(s, p)[i] = s[i]
      /\ Append(s, p)[Len(s) + 1] = p
  BY <1>1
<1> HIDE DEF Ids
<1>4. /\ Append(Ids(s), p.message_id) \in [1..(Len(s) + 1) -> CP!Random]
      /\ \A i \in 1..Len(s) : Append(Ids(s), p.message_id)[i] = Ids(s)[i]
      /\ Append(Ids(s), p.message_id)[Len(s) + 1] = p.message_id
  BY <1>1, <1>2, AppendIsFunction
<1>5. \A i \in 1..Len(s) : Ids(s)[i] = s[i].message_id
  BY <1>1, Zenon DEF Ids
<1>6. Ids(Append(s, p)) = [i \in 1..(Len(s) + 1) |-> Append(s, p)[i].message_id]
  BY <1>3, Zenon DEF Ids
<1>7. \A i \in 1..(Len(s) + 1) : i \in 1..Len(s) \/ i = Len(s) + 1
  BY <1>1
<1> QED
  BY <1>3, <1>4, <1>5, <1>6, <1>7, Zenon

\* The service has delivered an id when the client's user has seen it.
LEMMA SeenDelivered ==
  ASSUME NEW c \in Client, NEW id
  PROVE  id \in {Delivered[c][i] : i \in DOMAIN Delivered[c]} <=> Seen(c, id)
<1>1. Delivered[c] = Ids(shown[c])
  BY Zenon DEF Delivered
<1> QED
  BY <1>1, Zenon DEF Ids, Seen

\* The row of a request is the same message to the service.
LEMMA RowIsMessage ==
  ASSUME NEW req
  PROVE  AsMessage(R!MessageRow(req)) = AsMessage(req)
  BY Zenon DEF AsMessage, R!MessageRow

\* A step that the service does not see.
LEMMA Unseen ==
  ASSUME UNCHANGED <<stored, retired_queues, shown, clock>>,
         R!UnexpiredMessages(clock)' = R!UnexpiredMessages(clock)
  PROVE  UNCHANGED Service!vars
<1>1. UNCHANGED <<Accepted, Pending, Delivered, Closed>>
  BY Zenon DEF Accepted, Pending, Delivered, Closed, R!Retired
<1> QED
  BY <1>1, Zenon DEF Service!vars, Accepted, Pending, Delivered, Closed, Ids

\* A sweep takes away only what has expired for the service too.
LEMMA SweepUnseen ==
  ASSUME UNCHANGED clock, UNCHANGED messages \/ messages' = R!UnexpiredMessages(clock)
  PROVE  R!UnexpiredMessages(clock)' = R!UnexpiredMessages(clock)
  BY Zenon DEF R!UnexpiredMessages

-----------------------------------------------------------------------------
(* Operations of the relay.                                                *)

\* A request is a message that the service may accept.
LEMMA RequestPromised ==
  ASSUME MessengerInv, NEW req \in Requests
  PROVE  AsMessage(req) \in Promised
<1>1. req \in R!SendRequest /\ RequestInv(req)
  BY InvMailState, Zenon DEF MailState, RelayTypes, MailInv, BoxInv, Requests
<1>2. req.message_id \in MessageIds
  BY <1>1, Zenon DEF RequestInv, MessengerInv, MailInv, BoundInv
<1> QED
  BY <1>1, <1>2, Zenon DEF AsMessage, Promised, R!SendRequest, R!Timestamp

\* enqueue accepts a request the first time, and only then.
LEMMA EnqueueImplements ==
  ASSUME MessengerInv, NEW req \in Requests, R!Enqueue(req, clock), UNCHANGED <<olm, clock>>
  PROVE  [Service!Next]_(Service!vars)
<1> USE DEF olm
<1>1. CASE R!EnqueueOutcome(req, clock) = "Stored"
  <2>0. PICK m, row : m = AsMessage(req) /\ row = R!MessageRow(req)
    BY Zenon
  <2>1. /\ messages' = R!UnexpiredMessages(clock) \cup {row}
        /\ stored' = stored \cup {req} /\ UNCHANGED <<retired_queues, shown, clock>>
    BY <1>1, <2>0, Zenon DEF R!Enqueue, R!SweepOnly, R!Rollback
  <2>2. req.expires_at > clock /\ R!HasMailbox(req.queue_id)
    <3>1. R!ValidMessageExpiry(req.expires_at, clock) /\ R!HasMailbox(req.queue_id)
      BY <1>1, Zenon DEF R!EnqueueOutcome
    <3>2. req.expires_at \in Nat /\ clock \in Nat
      BY InvMailState, ClockType, RequestPromised DEF Promised, AsMessage
    <3> QED
      BY <3>1, <3>2, Zenon DEF R!ValidMessageExpiry
  <2>3. req \notin stored
    <3>1. RP!SendRetryStable
      BY RP!SendAnswered, RelayAssumptions, Zenon
      DEF MessengerInv, RP!BoundsAssumption, RP!TtlAssumption, RP!RequestAssumption
    <3> QED
      BY <1>1, <3>1, SameEnqueue, Zenon DEF RP!SendRetryStable
  <2>4. \A s \in stored : s.message_id # req.message_id
    BY <2>3, Zenon DEF MessengerInv, MailInv, BoxInv, UniqueRequests, Requests
  <2>5. req.queue_id \notin Closed
    <3>1. RP!RetiredForever
      BY Zenon DEF MessengerInv, RP!RetryInv, RP!TableInv
    <3> QED
      BY <2>2, <3>1, Zenon DEF Closed, R!HasMailbox, R!Retired, RP!RetiredForever, R!Digest, RP!Digest
  <2>6. /\ m.queue_id = req.queue_id /\ m.message_id = req.message_id
        /\ m.expires_at = req.expires_at /\ m = AsMessage(row) /\ row.expires_at = req.expires_at
    BY <2>0, Zenon DEF AsMessage, R!MessageRow
  <2>7. R!UnexpiredMessages(clock)' = R!UnexpiredMessages(clock) \cup {row}
    BY <2>1, <2>2, <2>6, Zenon DEF R!UnexpiredMessages
  <2>8. Accepted' = Accepted \cup {m} /\ Pending' = Pending \cup {m}
    BY <2>0, <2>1, <2>6, <2>7, Zenon DEF Accepted, Pending
  <2>9. UNCHANGED <<Delivered, Closed>>
    BY <2>1, Zenon DEF Delivered, Closed, R!Retired
  <2>10. \A a \in Accepted : a.message_id # m.message_id
    <3>1. \A s : AsMessage(s).message_id = s.message_id
      BY DEF AsMessage
    <3> QED
      BY <2>4, <2>6, <3>1, Zenon DEF Accepted
  <2>11. Service!Accept(m)
    BY <2>1, <2>2, <2>5, <2>6, <2>8, <2>9, <2>10, ServiceActions, Zenon
  <2> QED
    BY <2>0, <2>11, RequestPromised, ServiceNext, Zenon
<1>2. CASE R!EnqueueOutcome(req, clock) # "Stored"
  <2>1. /\ UNCHANGED <<stored, retired_queues, shown, clock>>
        /\ UNCHANGED messages \/ messages' = R!UnexpiredMessages(clock)
    BY <1>2, Zenon DEF R!Enqueue, R!SweepOnly, R!Rollback, R!tables, R!history
  <2> QED
    BY <2>1, SweepUnseen, Unseen, Zenon
<1> QED
  BY <1>1, <1>2, Zenon

\* register, fetch and purge_expired change nothing that the service promises.
LEMMA OthersImplement ==
  ASSUME NEW req, R!Register(req, clock) \/ R!Fetch(req, clock) \/ R!PurgeExpired(clock),
         UNCHANGED <<olm, clock>>
  PROVE  UNCHANGED Service!vars
<1>1. /\ UNCHANGED <<stored, retired_queues, shown, clock>>
      /\ UNCHANGED messages \/ messages' = R!UnexpiredMessages(clock)
  BY Zenon DEF R!Register, R!Fetch, R!PurgeExpired, R!SweepOnly, R!Rollback, R!tables, R!history, olm
<1> QED
  BY <1>1, SweepUnseen, Unseen, Zenon

\* acknowledge that deletes nothing changes nothing.
LEMMA AckUnseen ==
  ASSUME NEW req, R!Acknowledge(req, clock), R!AckOutcome(req, clock) # "Deleted",
         UNCHANGED <<olm, clock>>
  PROVE  UNCHANGED Service!vars
<1>1. /\ UNCHANGED <<stored, retired_queues, shown, clock>>
      /\ UNCHANGED messages \/ messages' = R!UnexpiredMessages(clock)
  BY Zenon DEF R!Acknowledge, R!SweepOnly, R!Rollback, R!tables, R!history, olm
<1> QED
  BY <1>1, SweepUnseen, Unseen, Zenon

\* The ACK of an opened envelope removes a message that was seen.
LEMMA SendAckImplements ==
  ASSUME MessengerInv, NEW c \in Client, NEW row \in opened[c], SendAck(c, row)
  PROVE  [Service!Next]_(Service!vars)
<1> MailState
  BY InvMailState, Zenon
<1>0. PICK ack, m : /\ ack = AuthorizeAck(c, row, clock + RequestWindow)
                    /\ m = AsMessage(row)
  BY Zenon
<1>1. R!Acknowledge(ack, clock) /\ UNCHANGED <<olm, clock>>
  BY <1>0, Zenon DEF SendAck
<1>2. CASE R!AckOutcome(ack, clock) = "Deleted"
  <2>1. /\ messages' = R!UnexpiredMessages(clock) \ R!Queued(ack, clock)
        /\ UNCHANGED <<stored, retired_queues, shown, clock>>
    BY <1>1, <1>2, Zenon DEF R!Acknowledge, olm
  <2>2. row \in StoredRows /\ row.queue_id = c /\ Seen(c, row.message_id)
    BY Zenon DEF MessengerInv, MailInv, BoxInv, RowInv
  <2>3. ack.message_id = row.message_id
    BY <1>0, Zenon DEF AuthorizeAck
  <2>4. R!Queued(ack, clock) # {}
    BY <1>2, Zenon DEF R!AckOutcome
  <2>5. R!Queued(ack, clock) = {row}
    BY <2>2, <2>3, <2>4, QueuedRow
  <2>6. row \in R!UnexpiredMessages(clock) /\ R!UnexpiredMessages(clock) \subseteq StoredRows
    BY <2>5, Zenon DEF R!Queued, R!UnexpiredMessages, MessengerInv, MailInv, BoxInv, RowInv
  <2>7. R!UnexpiredMessages(clock)' = R!UnexpiredMessages(clock) \ {row}
    BY <2>1, <2>5, Zenon DEF R!UnexpiredMessages
  <2>8. \A r \in R!UnexpiredMessages(clock) : AsMessage(r) = m => r = row
    <3>1. \A r : AsMessage(r).message_id = r.message_id
      BY Zenon DEF AsMessage
    <3> QED
      BY <1>0, <2>2, <2>6, <3>1, RowsById, Zenon
  <2>9. Pending' = Pending \ {m} /\ m \in Pending
    BY <1>0, <2>6, <2>7, <2>8, Zenon DEF Pending
  <2>10. UNCHANGED <<Accepted, Delivered, Closed>>
    BY <2>1, Zenon DEF Accepted, Delivered, Closed, R!Retired
  <2>11. m.queue_id = c /\ m.message_id = row.message_id
    BY <1>0, <2>2, Zenon DEF AsMessage
  <2>12. Service!Remove(m)
    <3>1. m.message_id \in {Delivered[m.queue_id][i] : i \in DOMAIN Delivered[m.queue_id]}
      BY <2>2, <2>11, SeenDelivered, Zenon
    <3> QED
      BY <2>1, <2>9, <2>10, <3>1, ServiceActions, Zenon
  <2> QED
    BY <2>9, <2>12, ServiceNext, Zenon
<1>3. CASE R!AckOutcome(ack, clock) # "Deleted"
  BY <1>1, <1>3, AckUnseen, Zenon
<1> QED
  BY <1>2, <1>3, Zenon

\* A completed ACK that comes again deletes nothing.
LEMMA AckAgainUnseen ==
  ASSUME MessengerInv, NEW a \in acked, R!Acknowledge(a.ack, clock), UNCHANGED <<olm, clock>>
  PROVE  UNCHANGED Service!vars
<1>1. RP!AckRetryStable
  BY RP!AckAnswered, RelayAssumptions, Zenon
  DEF MessengerInv, RP!BoundsAssumption, RP!TtlAssumption, RP!RequestAssumption
<1>2. R!AckOutcome(a.ack, clock) # "Deleted"
  BY <1>1, SameAcknowledge, Zenon DEF RP!AckRetryStable
<1> QED
  BY <1>2, AckUnseen, Zenon

\* delete_mailbox closes a mailbox that was open, and takes its messages away.
LEMMA DeleteImplements ==
  ASSUME MessengerInv, NEW c \in Client, CloseMailbox(c)
  PROVE  [Service!Next]_(Service!vars)
<1>0. PICK req : req = AuthorizeDelete(c, clock + RequestWindow)
  BY Zenon
<1>1. R!DeleteMailbox(req, clock) /\ UNCHANGED <<olm, clock>> /\ req.queue_id = c
  BY <1>0, Zenon DEF CloseMailbox, AuthorizeDelete
<1>2. CASE R!DeleteOutcome(req, clock) = "MailboxDeleted"
  <2>1. /\ messages' = {m \in R!UnexpiredMessages(clock) : m.queue_id # c}
        /\ retired_queues' = retired_queues \cup {R!Digest(c)}
        /\ UNCHANGED <<stored, shown, clock>>
    BY <1>1, <1>2, Zenon DEF R!DeleteMailbox, R!SurvivingRows, R!Retire, R!history, olm
  <2>2. c \notin Closed
    <3>1. RP!RetiredForever
      BY Zenon DEF MessengerInv, RP!RetryInv, RP!TableInv
    <3>2. R!HasMailbox(c)
      BY <1>1, <1>2, Zenon DEF R!DeleteOutcome
    <3> QED
      BY <3>1, <3>2, Zenon DEF Closed, R!HasMailbox, R!Retired, RP!RetiredForever, R!Digest, RP!Digest
  <2>3. Closed' = Closed \cup {c}
    <3>1. \A d \in Client : R!Digest(d) = R!Digest(c) => d = c
      BY Zenon DEF R!Digest
    <3>2. \A d \in Client : R!Retired(d)' <=> R!Retired(d) \/ d = c
      BY <2>1, <3>1, Zenon DEF R!Retired, R!Digest
    <3> QED
      BY <3>2, Zenon DEF Closed
  <2>4. R!UnexpiredMessages(clock)' = {m \in R!UnexpiredMessages(clock) : m.queue_id # c}
    BY <2>1, Zenon DEF R!UnexpiredMessages
  <2>5. \A r : AsMessage(r).queue_id = r.queue_id
    BY Zenon DEF AsMessage
  <2>6. Pending' = {x \in Pending : x.queue_id # c}
    BY <2>4, <2>5, Zenon DEF Pending
  <2>7. UNCHANGED <<Accepted, Delivered>>
    BY <2>1, Zenon DEF Accepted, Delivered
  <2>8. Service!Close(c)
    BY <2>1, <2>2, <2>3, <2>6, <2>7, ServiceActions, Zenon
  <2> QED
    BY <2>8, ServiceNext, Zenon
<1>3. CASE R!DeleteOutcome(req, clock) # "MailboxDeleted"
  <2>1. UNCHANGED <<stored, retired_queues, shown, clock, messages>>
    BY <1>1, <1>3, Zenon DEF R!DeleteMailbox, R!Rollback, R!tables, R!history, olm
  <2> QED
    BY <2>1, SweepUnseen, Unseen, Zenon
<1> QED
  BY <1>2, <1>3, Zenon

-----------------------------------------------------------------------------
(* Operations of a client.                                                 *)

\* Opening displays a message that was accepted, is in time and was not seen.
LEMMA OpenMailImplements ==
  ASSUME MessengerInv, [Next]_vars, NEW c \in Client, NEW row \in envelopes[c],
         OpenMail(c, row)
  PROVE  [Service!Next]_(Service!vars)
<1> MailState /\ CP!ClientInv
  BY InvMailState, Zenon DEF MessengerInv
<1>1. row \in StoredRows /\ row.queue_id = c /\ UNCHANGED <<relay, clock>>
  BY OpenMailCases, Zenon
<1>2. CASE UNCHANGED <<olm, mail>>
  <2>1. UNCHANGED <<stored, retired_queues, shown, clock, messages>>
    BY <1>1, <1>2, Zenon DEF olm, relay
  <2> QED
    BY <2>1, SweepUnseen, Unseen, Zenon
<1>3. CASE ~UNCHANGED <<olm, mail>>
  <2>0. PICK m, p : m = AsMessage(row) /\ p = row.ciphertext
    BY Zenon
  <2>1. shown' = [shown EXCEPT ![c] = Append(@, p)] /\ clock < row.expires_at
    BY <1>3, <2>0, OpenMailCases, Zenon
  <2>2. p \in packets /\ row.message_id = p.message_id /\ row.expires_at \in Nat /\ clock \in Nat
    BY <1>1, <2>0, StoredRowFacts, ClockType, Zenon
  <2>3. p \in CP!Packet /\ shown \in [Client -> Seq(CP!Packet)]
    BY <2>2, Zenon DEF MessengerInv, CP!ClientInv, CP!TypeOK
  <2>4. m.queue_id = c /\ m.message_id = p.message_id /\ m.expires_at > clock
    BY <1>1, <2>0, <2>1, <2>2, Zenon DEF AsMessage
  <2>5. m \in Accepted
    BY <1>1, <2>0, RowIsMessage, Zenon DEF StoredRows, Accepted
  <2>6. ~Seen(c, p.message_id)
    <3>1. shown'[c] = Append(shown[c], p) /\ shown[c] \in Seq(CP!Packet)
      BY <2>1, <2>3, Zenon
    <3>2. /\ DOMAIN shown'[c] = DOMAIN shown[c] \cup {Len(shown[c]) + 1}
          /\ Len(shown[c]) + 1 \notin DOMAIN shown[c]
          /\ \A i \in DOMAIN shown[c] : shown'[c][i] = shown[c][i]
          /\ shown'[c][Len(shown[c]) + 1] = p
      BY <2>3, <3>1, CP!AppendFacts
    <3>3. \A i, j \in DOMAIN shown'[c] :
            shown'[c][i].message_id = shown'[c][j].message_id => i = j
      BY ClientsKept, Zenon DEF CP!ClientInv, CP!DisplayedOnce
    <3> QED
      BY <3>2, <3>3, Zenon DEF Seen
  <2>7. Delivered' = [Delivered EXCEPT ![c] = Append(@, m.message_id)]
    <3>1. Ids(shown[c])' = Append(Ids(shown[c]), p.message_id)
      <4>1. shown'[c] = Append(shown[c], p) /\ shown[c] \in Seq(CP!Packet)
        BY <2>1, <2>3
      <4>2. Ids(Append(shown[c], p)) = Append(Ids(shown[c]), p.message_id)
        BY <2>3, <4>1, IdsAppend, Zenon
      <4>3. Ids(shown[c])' = Ids(Append(shown[c], p))
        BY <4>1, Zenon DEF Ids
      <4> QED
        BY <4>2, <4>3, Zenon
    <3>2. \A d \in Client \ {c} : Ids(shown[d])' = Ids(shown[d])
      BY <2>1, <2>3, Zenon DEF Ids
    <3> QED
      BY <2>4, <3>1, <3>2, Zenon DEF Delivered
  <2>8. UNCHANGED <<Accepted, Pending, Closed>>
    BY <1>1, Zenon DEF Accepted, Pending, Closed, R!UnexpiredMessages, R!Retired, relay
  <2>9. Service!Deliver(m)
    <3>1. m.message_id \notin {Delivered[m.queue_id][i] : i \in DOMAIN Delivered[m.queue_id]}
      BY <2>4, <2>6, SeenDelivered, Zenon
    <3> QED
      BY <1>1, <2>4, <2>7, <2>8, <3>1, ServiceActions, Zenon
  <2> QED
    BY <2>5, <2>9, ServiceNext, Zenon
<1> QED
  BY <1>2, <1>3, Zenon

\* A passing second: what expires for the relay expires for the service.
LEMMA TickImplements ==
  ASSUME MessengerInv, Tick
  PROVE  Service!Tick
<1>1. clock' = clock + 1 /\ UNCHANGED <<messages, stored, retired_queues, shown>>
  BY Zenon DEF Tick, C!Tick, relay
<1>2. \A row \in messages : row.expires_at \in Nat
  BY InvMailState, StoredRowFacts, Zenon DEF MessengerInv, MailInv, BoxInv, RowInv
<1>3. R!UnexpiredMessages(clock)' = {m \in R!UnexpiredMessages(clock) : m.expires_at > clock'}
  BY <1>1, <1>2, InvMailState, ClockType DEF R!UnexpiredMessages
<1>4. \A r : AsMessage(r).expires_at = r.expires_at
  BY Zenon DEF AsMessage
<1>5. Pending' = {m \in Pending : m.expires_at > clock'}
  BY <1>3, <1>4, Zenon DEF Pending
<1>6. UNCHANGED <<Accepted, Delivered, Closed>>
  BY <1>1, Zenon DEF Accepted, Delivered, Closed, R!Retired
<1> QED
  BY <1>1, <1>5, <1>6, ServiceView, Zenon

\* Contacts, sessions, sealing and restarts are the clients' own affair.
LEMMA ClientUnseen ==
  ASSUME NEW c \in Client,
         \/ ExportBundle(c) \/ VerifyBundle(c) \/ StartSession(c) \/ Compose(c)
         \/ Verifying(c) \/ Restart(c)
  PROVE  UNCHANGED Service!vars
<1>1. UNCHANGED <<stored, retired_queues, shown, clock, messages>>
  BY Zenon DEF ExportBundle, VerifyBundle, StartSession, Compose, Verifying, VerifyMail, Restart,
         C!PrekeyBundle, C!VerifyPeer, C!StartOutboundSession, C!Seal, C!Restart, relay, olm
<1> QED
  BY <1>1, SweepUnseen, Unseen, Zenon

-----------------------------------------------------------------------------
\* Every step of relay and clients is a step of the service, or none.
LEMMA StepImplements ==
  ASSUME MessengerInv, [Next]_vars
  PROVE  [Service!Next]_(Service!vars)
<1>1. ASSUME NEW c \in Client, RegisterMailbox(c) \/ FetchMail(c) PROVE UNCHANGED Service!vars
  BY <1>1, OthersImplement, Zenon DEF RegisterMailbox, FetchMail
<1>2. ASSUME NEW c \in Client, Sending(c) PROVE [Service!Next]_(Service!vars)
  BY <1>2, InvMailState, BoxTypes, EnqueueImplements, Zenon DEF Sending, Send
<1>3. ASSUME NEW c \in Client, Opening(c) PROVE [Service!Next]_(Service!vars)
  BY <1>3, OpenMailImplements, Zenon DEF Opening
<1>4. ASSUME NEW c \in Client, Acking(c) PROVE [Service!Next]_(Service!vars)
  BY <1>4, SendAckImplements, Zenon DEF Acking
<1>5. ASSUME NEW c \in Client,
             \/ ExportBundle(c) \/ VerifyBundle(c) \/ StartSession(c) \/ Compose(c)
             \/ Verifying(c) \/ Restart(c)
      PROVE  UNCHANGED Service!vars
  BY <1>5, ClientUnseen, Zenon
<1>6. ASSUME NEW c \in Client, CloseMailbox(c) PROVE [Service!Next]_(Service!vars)
  BY <1>6, DeleteImplements, Zenon
<1>7. CASE Redeliver
  <2>1. UNCHANGED <<olm, clock>>
    BY <1>7, Zenon DEF Redeliver
  <2>2. CASE \E req \in stored : R!Enqueue(req, clock)
    BY <2>1, <2>2, InvMailState, BoxTypes, EnqueueImplements, Zenon
  <2>3. CASE \E req \in fetched : R!Fetch(req, clock)
    BY <2>1, <2>3, OthersImplement, Zenon
  <2>4. CASE \E a \in acked : R!Acknowledge(a.ack, clock)
    BY <2>1, <2>4, AckAgainUnseen, Zenon
  <2> QED
    BY <1>7, <2>2, <2>3, <2>4, Zenon DEF Redeliver
<1>8. CASE Purge
  BY <1>8, OthersImplement, Zenon DEF Purge
<1>9. CASE Tick
  BY <1>9, TickImplements, ServiceNext, Zenon
<1>10. CASE UNCHANGED vars
  <2>1. UNCHANGED <<stored, retired_queues, shown, clock, messages>>
    BY <1>10, Zenon DEF vars, relay, olm
  <2> QED
    BY <2>1, SweepUnseen, Unseen, Zenon
<1> QED
  BY <1>1, <1>2, <1>3, <1>4, <1>5, <1>6, <1>7, <1>8, <1>9, <1>10, MessengerAssumption, Zenon DEF Next

\* Nothing is accepted, pending, delivered or closed at first.
LEMMA InitImplements ==
  ASSUME Init
  PROVE  Service!Init
<1>1. /\ stored = {} /\ messages = {} /\ retired_queues = {} /\ clock = 0
      /\ \A c \in Client : shown[c] = <<>>
  BY Zenon DEF Init, R!Init, C!Init
<1>2. Accepted = {} /\ Pending = {} /\ Closed = {}
  BY <1>1, Zenon DEF Accepted, Pending, Closed, R!UnexpiredMessages, R!Retired
<1>3. Ids(<<>>) = <<>>
  BY DEF Ids
<1>4. Delivered = [c \in Client |-> <<>>]
  BY <1>1, <1>3, Zenon DEF Delivered
<1> QED
  BY <1>1, <1>2, <1>4, Zenon DEF Service!Init, Accepted, Pending, Closed, Delivered, Ids

\* Together, relay and clients accept a message once, keep it until it was seen,
\* its mailbox was closed or it expired, and show it at most once and in time.
THEOREM MailboxServiceImplemented == Spec => ImplementsMailbox
<1>1. Init => Service!Init
  BY InitImplements, Zenon
<1>2. MessengerInv /\ [Next]_vars => [Service!Next]_(Service!vars)
  BY StepImplements, Zenon
<1> QED
  BY <1>1, <1>2, MessengerInvariant, PTL DEF Spec, ImplementsMailbox, Service!Spec
=============================================================================
