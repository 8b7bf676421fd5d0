---------------------------- MODULE OutboxTable ----------------------------
(***************************************************************************)
(* The SQL statements of app/services/outbox.py, as operators on the       *)
(* table.  A table is a function from the row ids inserted so far to rows; *)
(* each operator is one statement, so it is atomic.                        *)
(*                                                                         *)
(* A row id is the value derive_idempotency_key hashes: the topic, the     *)
(* source id and the fingerprint.  The hash (uuid5 of a sha256) is taken   *)
(* to be injective, so the triple stands for the uuid.                     *)
(***************************************************************************)
EXTENDS Naturals

\* derive_idempotency_key(topic, source_id, content_fingerprint)
derive_idempotency_key(topic, source, fingerprint) ==
    <<topic, source, fingerprint>>

\* A row as it is inserted: not delivered, no attempt spent.  "at" is the
\* creation time of the event, not of the insert: rows can be inserted out of
\* the order in which they will be polled.
NewRow(at) == [created |-> at, delivered |-> FALSE, attempts |-> 0]

EmptyTable == [id \in {} |-> NewRow(0)]

Rows(tbl) == DOMAIN tbl

Pending(tbl, id) == id \in DOMAIN tbl /\ ~tbl[id].delivered

Delivered(tbl, id) == id \in DOMAIN tbl /\ tbl[id].delivered

\* Variant of write_outbox_event: on conflict (id) do update.
write_outbox_event_upsert(tbl, id, at) ==
    [i \in DOMAIN tbl \cup {id} |-> IF i # id THEN tbl[i] ELSE NewRow(at)]

\* insert ... where not exists ... on conflict (id) do nothing
write_outbox_event(tbl, id, at) ==
    [i \in DOMAIN tbl \cup {id} |-> IF i \in DOMAIN tbl THEN tbl[i] ELSE NewRow(at)]

\* select ... where delivered_at is null order by created_at asc limit 1.
\* The rows the statement may return: no lock is taken, and the order among
\* rows with the same created_at is the database's choice.
poll_outbox_one(tbl) ==
    {id \in DOMAIN tbl : /\ ~tbl[id].delivered
                         /\ \A other \in DOMAIN tbl :
                               ~tbl[other].delivered => tbl[id].created <= tbl[other].created}

\* update outbox set attempts = attempts + 1 where id = .. and delivered_at is null
bump_outbox_attempts(tbl, id) ==
    IF Pending(tbl, id) THEN [tbl EXCEPT ![id].attempts = @ + 1] ELSE tbl

\* update outbox set delivered_at = now() where id = .. and delivered_at is null
ack_outbox(tbl, id) ==
    IF Pending(tbl, id) THEN [tbl EXCEPT ![id].delivered = TRUE] ELSE tbl
=============================================================================
