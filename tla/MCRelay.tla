------------------------------ MODULE MCRelay ------------------------------
(***************************************************************************)
(* Small instances of Relay.  Queues can be claimed by two owners, each    *)
(* with a key triple of its own; a request signed with the other owner's   *)
(* key stands for every request whose signature does not verify.           *)
(***************************************************************************)
EXTENDS Relay, TLC

CONSTANTS
  Owners,
  LatestDeadline    \* bound: the latest valid_until and expires_at in any request

MCKey == Owners \X {"send", "receive", "manage"}
Deadlines == 1..LatestDeadline

MCRegistrations ==
  {[queue_id |-> q, send_key |-> <<o, "send">>, receive_key |-> <<o, "receive">>,
    manage_key |-> <<o, "manage">>, nonce |-> n, valid_until |-> d,
    signature |-> <<o, "manage">>] :
      q \in QueueId, o \in Owners, n \in Nonce, d \in Deadlines}

MCSends ==
  [queue_id : QueueId, message_id : MessageId, packet : Packet,
   expires_at : Deadlines, signature : Owners \X {"send"}]

MCFetches ==
  [queue_id : QueueId, nonce : Nonce, valid_until : Deadlines,
   signature : Owners \X {"receive"}]

MCAcks ==
  [queue_id : QueueId, message_id : MessageId,
   packet_hash : {Digest(p) : p \in Packet \ UnsendablePackets},
   valid_until : Deadlines, signature : Owners \X {"receive"}]

MCDeletes ==
  [queue_id : QueueId, nonce : Nonce, valid_until : Deadlines,
   signature : Owners \X {"manage"}]

\* Ciphertexts of sendable size are interchangeable, and so are queues.
PacketSymmetry == Permutations(Packet \ UnsendablePackets)
QueueSymmetry == Permutations(QueueId)

=============================================================================
