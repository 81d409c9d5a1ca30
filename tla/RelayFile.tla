----------------------------- MODULE RelayFile -----------------------------
(***************************************************************************)
(* What opening a relay database promises about its content, whatever the  *)
(* openers, their crashes and the companion files of SQLite do: content    *)
(* changes only by a complete upgrade of an acceptable schema, or by a     *)
(* complete write of a relay that serves it.                               *)
(***************************************************************************)
EXTENDS Naturals

CONSTANTS
  Signed,    \* messages a relay stored: they carry a sender signature
  Unsigned,  \* messages of the legacy schema, which has no sender signatures
  Expired    \* the messages whose lifetime is over when the relay is opened

VARIABLE content

SchemaKind == {"Empty", "Legacy", "Current", "Unknown"}

CURRENT_SCHEMA_VERSION == 2

\* The messages that the tables of a schema can hold: only the current one has
\* a column for the sender's signature, and it is NOT NULL.
Rows(kind) ==
  CASE kind = "Empty" -> {}
    [] kind = "Legacy" -> Unsigned
    [] kind = "Current" -> Signed
    [] OTHER -> Signed \cup Unsigned

\* What a database file holds: its manifest as classify_schema sees it,
\* user_version, whether foreign_key_check and integrity_check pass, its messages.
Image ==
  [kind : SchemaKind, version : Nat, sound : BOOLEAN, messages : SUBSET (Signed \cup Unsigned)]

CurrentImage(messages) ==
  [kind |-> "Current", version |-> CURRENT_SCHEMA_VERSION, sound |-> TRUE,
   messages |-> messages]

\* validate_schema_for_open, given the user_version it read first
Accepts(version, image) ==
  /\ \/ version = CURRENT_SCHEMA_VERSION /\ image.kind = "Current"
     \/ version \in {0, 1} /\ image.kind \in {"Empty", "Legacy"}
  /\ image.sound

\* migrate_schema, then the startup sweep
Migrated_keeps_rows(image) == CurrentImage(image.messages \ Expired)
Migrated(image) ==
  IF image.kind = "Current"
  THEN [image EXCEPT !.messages = @ \ Expired]
  ELSE CurrentImage({})

\* an enqueue: its sweep and the new row
WithMessage(image, m) == [image EXCEPT !.messages = (@ \ Expired) \cup {m}]

-----------------------------------------------------------------------------
Init == content \in Image

Upgrade == Accepts(content.version, content) /\ content' = Migrated(content)

Store(m) ==
  /\ content.kind = "Current"
  /\ Accepts(content.version, content)
  /\ content' = WithMessage(content, m)

Next == Upgrade \/ \E m \in Signed \ Expired : Store(m)

Spec == Init /\ [][Next]_content
=============================================================================
