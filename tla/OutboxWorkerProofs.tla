------------------------- MODULE OutboxWorkerProofs -------------------------
(***************************************************************************)
(* Proofs about OutboxWorker, for any set of daemons, drains, messages and *)
(* events, any attempt cap and any number of faults: type correctness,     *)
(* what the consumers may do to the table, why no work row is acked before *)
(* its event was applied or dead-lettered, why the poison bookkeeping      *)
(* strands nothing, and that together the consumers are the at-least-once  *)
(* queue.                                                                  *)
(***************************************************************************)
EXTENDS OutboxWorker, TLAPS

Row == [created : Nat, delivered : BOOLEAN, attempts : Nat]

IsTable(tbl) == DOMAIN tbl \subseteq RowId /\ tbl \in [DOMAIN tbl -> Row]
-----------------------------------------------------------------------------
(* The statements of OutboxTable on a well-formed table. *)

\* write_outbox_event keeps every row there is and adds the new one pending.
LEMMA WriteFacts ==
    ASSUME NEW tbl, IsTable(tbl), NEW id \in RowId, NEW at \in Nat
    PROVE  LET new == write_outbox_event(tbl, id, at)
           IN  /\ IsTable(new)
               /\ DOMAIN new = DOMAIN tbl \cup {id}
               /\ \A i \in DOMAIN tbl : new[i] = tbl[i]
               /\ id \notin DOMAIN tbl => new[id] = [created |-> at, delivered |-> FALSE, attempts |-> 0]
  BY DEF write_outbox_event, NewRow, IsTable, Row

\* bump_outbox_attempts changes the attempts of one pending row, and only that.
LEMMA BumpFacts ==
    ASSUME NEW tbl, IsTable(tbl), NEW id
    PROVE  LET new == bump_outbox_attempts(tbl, id)
           IN  /\ IsTable(new)
               /\ DOMAIN new = DOMAIN tbl
               /\ \A i \in DOMAIN tbl : i # id => new[i] = tbl[i]
               /\ \A i \in DOMAIN tbl : /\ new[i].delivered = tbl[i].delivered
                                        /\ new[i].created = tbl[i].created
               /\ Pending(tbl, id) => new[id].attempts = tbl[id].attempts + 1
               /\ ~Pending(tbl, id) => new = tbl
  BY DEF bump_outbox_attempts, Pending, IsTable, Row

\* ack_outbox delivers one row, and changes nothing else.
LEMMA AckFacts ==
    ASSUME NEW tbl, IsTable(tbl), NEW id
    PROVE  LET new == ack_outbox(tbl, id)
           IN  /\ IsTable(new)
               /\ DOMAIN new = DOMAIN tbl
               /\ \A i \in DOMAIN tbl : i # id => new[i] = tbl[i]
               /\ \A i \in DOMAIN tbl : /\ new[i].attempts = tbl[i].attempts
                                        /\ new[i].created = tbl[i].created
               /\ id \in DOMAIN tbl => new[id].delivered
               /\ ~Pending(tbl, id) => new = tbl
  BY DEF ack_outbox, Pending, IsTable, Row
-----------------------------------------------------------------------------
(* Type correctness.  A consumer in the middle of a tick holds a row of the *)
(* table, and only a work row reaches the poison bookkeeping: that is what  *)
(* makes the source id of its audit row a message.                          *)

Attached ==
    \A c \in Consumer :
        /\ pc[c] # "idle" => msg[c] \in DOMAIN outbox
        /\ pc[c] \in {"failed", "audit", "settle"} => IsWork(msg[c])

TypeInv == TypeOK /\ Attached

\* A row id is a work row of a message or the audit row of a message.
LEMMA RowIdFacts ==
    ASSUME NEW id \in RowId
    PROVE  /\ id[2] \in Msg
           /\ IsWork(id) => id = WorkRow(id[2])
           /\ ~IsWork(id) => id[3] \in Nat /\ id = AuditRow(id[2], id[3])
  BY DEF RowId, IsWork, WorkRow, AuditRow, derive_idempotency_key

\* Both kinds of row id are row ids, and they never coincide.
LEMMA RowIdIntro ==
    ASSUME NEW m \in Msg, NEW n \in Nat
    PROVE  /\ WorkRow(m) \in RowId /\ IsWork(WorkRow(m)) /\ WorkRow(m)[2] = m
           /\ AuditRow(m, n) \in RowId /\ ~IsWork(AuditRow(m, n))
           /\ AuditRow(m, n)[2] = m /\ AuditRow(m, n)[3] = n
  BY DEF RowId, IsWork, WorkRow, AuditRow, derive_idempotency_key

\* Every row has an event id: its message's, or its own.
LEMMA EventIdType ==
    ASSUME NEW id \in RowId
    PROVE  event_id_from_message(id) \in Event \cup RowId
  BY RowIdFacts, EventOfAssumption DEF event_id_from_message

\* The table a dead letter leaves before its ack: the bumped table, with the
\* audit row when it is written.
LEMMA AuditFacts ==
    ASSUME TypeInv, NEW c \in Consumer, pc[c] = "settle",
           NEW tbl, IsTable(tbl), DOMAIN tbl = DOMAIN outbox, NEW at \in Nat
    PROVE  LET audit == AuditRow(msg[c][2], txn[c].attempts)
               new == AuditWritten(c, tbl, at)
           IN  /\ IsTable(new)
               /\ audit \in RowId /\ ~IsWork(audit)
               /\ DOMAIN tbl \subseteq DOMAIN new
               /\ DOMAIN new \subseteq DOMAIN tbl \cup {audit}
               /\ \A i \in DOMAIN tbl : new[i] = tbl[i]
               /\ audit \in DOMAIN new /\ audit \notin DOMAIN tbl =>
                      new[audit] = [created |-> at, delivered |-> FALSE, attempts |-> 0]
<1>1. msg[c] \in RowId /\ txn[c].attempts \in Nat
  BY DEF TypeInv, TypeOK, Attached, Txn, Rows
<1>2. msg[c][2] \in Msg
  BY <1>1, RowIdFacts
<1>3. /\ AuditRow(msg[c][2], txn[c].attempts) \in RowId
      /\ ~IsWork(AuditRow(msg[c][2], txn[c].attempts))
  BY <1>1, <1>2, RowIdIntro
<1>4. CASE txn[c].recorded
  <2> DEFINE audit == AuditRow(msg[c][2], txn[c].attempts)
             new == write_outbox_event(tbl, audit, at)
  <2>1. AuditWritten(c, tbl, at) = new
    BY <1>4 DEF AuditWritten
  <2>2. audit \in RowId /\ ~IsWork(audit)
    BY <1>3
  <2> HIDE DEF audit
  <2>3. /\ IsTable(new)
        /\ DOMAIN new = DOMAIN tbl \cup {audit}
        /\ \A i \in DOMAIN tbl : new[i] = tbl[i]
        /\ audit \notin DOMAIN tbl => new[audit] = [created |-> at, delivered |-> FALSE, attempts |-> 0]
    BY <2>2, WriteFacts
  <2> HIDE DEF new
  <2> SUFFICES /\ IsTable(new)
               /\ audit \in RowId /\ ~IsWork(audit)
               /\ DOMAIN tbl \subseteq DOMAIN new
               /\ DOMAIN new \subseteq DOMAIN tbl \cup {audit}
               /\ \A i \in DOMAIN tbl : new[i] = tbl[i]
               /\ audit \in DOMAIN new /\ audit \notin DOMAIN tbl =>
                      new[audit] = [created |-> at, delivered |-> FALSE, attempts |-> 0]
    BY <2>1, Zenon DEF audit
  <2> QED
    BY <2>2, <2>3
<1>5. CASE ~txn[c].recorded
  BY <1>5, <1>3 DEF AuditWritten
<1> QED
  BY <1>4, <1>5

\* The table after the deferred bump of a dead letter.
LEMMA BumpWrittenFacts ==
    ASSUME IsTable(outbox), NEW c
    PROVE  LET new == BumpWritten(c)
           IN  /\ IsTable(new)
               /\ DOMAIN new = DOMAIN outbox
               /\ \A i \in DOMAIN outbox : i # msg[c] => new[i] = outbox[i]
               /\ \A i \in DOMAIN outbox : /\ new[i].delivered = outbox[i].delivered
                                           /\ new[i].created = outbox[i].created
  BY BumpFacts DEF BumpWritten

\* The initial state is well typed: nobody holds a row.
LEMMA TypeInvInit == Init => TypeInv
  BY FaultsAssumption DEF Init, TypeInv, TypeOK, Attached, EmptyTable, NewRow, Rows, PC, Txn, NoTxn

\* TypeInv is inductive.
LEMMA TypeInvStep == TypeInv /\ [Next]_vars => TypeInv'
<1> SUFFICES ASSUME TypeInv, [Next]_vars
             PROVE  TypeInv'
  OBVIOUS
<1> USE DEF TypeInv, TypeOK, Attached, Rows, PC, Txn, NoTxn
<1>t. IsTable(outbox)
  BY DEF IsTable, Row
<1>n. NoRow \in RowId \cup {NoRow} /\ NoTxn \in Txn
  OBVIOUS
<1>s. Stamp \subseteq Nat /\ MaxFaults \in Nat
  BY StampAssumption, FaultsAssumption
<1>c. Daemon \subseteq Consumer
  BY DEF Consumer
<1>d. ASSUME NEW c \in Consumer, Die(c), UNCHANGED outbox
      PROVE  /\ seen' \in [Daemon -> SUBSET (Event \cup RowId)]
             /\ pc' \in [Consumer -> PC]
             /\ msg' \in [Consumer -> RowId \cup {NoRow}]
             /\ txn' \in [Consumer -> Txn]
             /\ Attached'
  BY <1>d, <1>n DEF Die, NextTick
<1>1. ASSUME NEW m \in Msg, Produce(m)
      PROVE  TypeInv'
  <2>1. PICK at \in Nat : outbox' = write_outbox_event(outbox, WorkRow(m), at)
    BY <1>1, <1>s DEF Produce
  <2>2. WorkRow(m) \in RowId
    BY RowIdIntro, 0 \in Nat
  <2>3. IsTable(outbox') /\ DOMAIN outbox \subseteq DOMAIN outbox'
    <3> DEFINE id == WorkRow(m)
    <3> HIDE DEF id, TypeInv
    <3>1. id \in RowId /\ outbox' = write_outbox_event(outbox, id, at)
      BY <2>1, <2>2 DEF id
    <3> DEFINE new == write_outbox_event(outbox, id, at)
    <3>2. IsTable(new) /\ DOMAIN new = DOMAIN outbox \cup {id}
      BY <3>1, <1>t, WriteFacts
    <3> QED
      BY <3>1, <3>2
  <2> QED
    BY <2>3, <1>1 DEF Produce, IsTable, Row
<1>2. ASSUME NEW c \in Consumer, PollDaemon(c)
      PROVE  TypeInv'
  <2>1. PICK id \in poll_outbox_one(outbox) :
            /\ msg' = [msg EXCEPT ![c] = id]
            /\ \/ pc' = [pc EXCEPT ![c] = "duplicate"] /\ seen' = seen
               \/ /\ pc' = [pc EXCEPT ![c] = "dispatch"]
                  /\ \E kept \in SeenAdd(seen[c], event_id_from_message(id)) :
                        seen' = [seen EXCEPT ![c] = kept]
    BY <1>2 DEF PollDaemon
  <2>2. id \in DOMAIN outbox /\ id \in RowId
    BY <2>1, <1>t DEF poll_outbox_one, IsTable
  <2>3. \A kept \in SeenAdd(seen[c], event_id_from_message(id)) :
            kept \in SUBSET (seen[c] \cup {event_id_from_message(id)})
    BY DEF SeenAdd
  <2>4. seen' \in [Daemon -> SUBSET (Event \cup RowId)]
    BY <2>1, <2>2, <2>3, <1>2, EventIdType DEF PollDaemon
  <2>5. /\ pc' \in [Consumer -> PC] /\ msg' \in [Consumer -> RowId \cup {NoRow}]
        /\ Attached'
    BY <2>1, <2>2, <1>2 DEF PollDaemon
  <2> QED
    BY <2>4, <2>5, <1>2 DEF PollDaemon
<1>3. ASSUME NEW c \in Consumer, PollDrain(c)
      PROVE  TypeInv'
  BY <1>3, <1>t DEF PollDrain, poll_outbox_one, IsTable
<1>4. ASSUME NEW c \in Consumer, Ack(c)
      PROVE  TypeInv'
  <2>1. IsTable(outbox') /\ DOMAIN outbox' = DOMAIN outbox
    BY <1>4, <1>t, AckFacts DEF Ack
  <2> QED
    BY <2>1, <1>4, <1>n DEF Ack, NextTick, IsTable, Row
<1>5. ASSUME NEW c \in Consumer, DispatchOk(c)
      PROVE  TypeInv'
  <2>1. event_id_from_message(msg[c]) \in Event \cup RowId
    BY <1>5, <1>t, EventIdType DEF DispatchOk, IsTable
  <2> QED
    BY <2>1, <1>5 DEF DispatchOk
<1>6. ASSUME NEW c \in Consumer, DispatchInvalid(c)
      PROVE  TypeInv'
  <2>1. txn' \in [Consumer -> Txn]
    <3>1. PICK canonical \in BOOLEAN :
              txn' = [txn EXCEPT ![c] = [NoTxn EXCEPT !.canonical = canonical]]
      BY <1>6 DEF DispatchInvalid
    <3>2. [NoTxn EXCEPT !.canonical = canonical] \in Txn
      OBVIOUS
    <3> QED
      BY <3>1, <3>2
  <2>2. Attached'
    BY <1>6 DEF DispatchInvalid
  <2> QED
    BY <2>1, <2>2, <1>6 DEF DispatchInvalid
<1>7. ASSUME NEW c \in Consumer, DispatchFail(c)
      PROVE  TypeInv'
  <2>1. CASE c \in Daemon /\ pc' = [pc EXCEPT ![c] = "failed"] /\ UNCHANGED <<seen, msg, txn>>
    BY <2>1, <1>7 DEF DispatchFail
  <2>2. CASE Die(c)
    BY <2>2, <1>d, <1>7 DEF DispatchFail
  <2> QED
    BY <2>1, <2>2, <1>7 DEF DispatchFail
<1>8. ASSUME NEW c \in Consumer, BumpNothing(c)
      PROVE  TypeInv'
  BY <1>8, <1>n DEF BumpNothing, Die, NextTick
<1>9. ASSUME NEW c \in Consumer, BumpBelowCap(c)
      PROVE  TypeInv'
  <2>1. IsTable(outbox') /\ DOMAIN outbox' = DOMAIN outbox
    BY <1>9, <1>t, BumpFacts DEF BumpBelowCap
  <2> QED
    BY <2>1, <1>9, <1>n DEF BumpBelowCap, Die, NextTick, IsTable, Row
<1>10. ASSUME NEW c \in Consumer, BumpAtCap(c)
       PROVE  TypeInv'
  <2>1. IsTable(outbox') /\ DOMAIN outbox' = DOMAIN outbox
    BY <1>10, <1>t, BumpFacts DEF BumpAtCap
  <2>2. outbox[msg[c]].attempts + 1 \in Nat
    BY <1>10, <1>t DEF BumpAtCap, IsTable, Row
  <2>3. txn' \in [Consumer -> Txn]
    <3> DEFINE attempts == outbox[msg[c]].attempts + 1
    <3>1. \/ txn' = [txn EXCEPT ![c] = [NoTxn EXCEPT !.canonical = TRUE, !.attempts = attempts]]
          \/ txn' = [txn EXCEPT ![c] = [NoTxn EXCEPT !.attempts = attempts]]
      BY <1>10 DEF BumpAtCap
    <3>2. attempts \in Nat
      BY <2>2
    <3> HIDE DEF attempts
    <3>3. /\ [NoTxn EXCEPT !.canonical = TRUE, !.attempts = attempts] \in Txn
          /\ [NoTxn EXCEPT !.attempts = attempts] \in Txn
      BY <3>2
    <3> QED
      BY <3>1, <3>3
  <2>4. Attached' /\ pc' \in [Consumer -> PC]
    BY <2>1, <1>10 DEF BumpAtCap
  <2> QED
    BY <2>1, <2>3, <2>4, <1>10 DEF BumpAtCap, IsTable, Row
<1>11. ASSUME NEW c \in Consumer, AppendAudit(c)
       PROVE  TypeInv'
  <2>1. msg[c][2] \in Msg /\ txn[c].attempts \in Nat
    BY <1>11, <1>t, RowIdFacts DEF AppendAudit, IsTable
  <2>2. jsonl' \subseteq Msg \X Nat
    BY <2>1, <1>11 DEF AppendAudit
  <2>3. txn' \in [Consumer -> Txn]
    BY <1>11 DEF AppendAudit
  <2> QED
    BY <2>2, <2>3, <1>11 DEF AppendAudit
<1>12. ASSUME NEW c \in Consumer, SettleCanonical(c)
       PROVE  TypeInv'
  <2>1. PICK at \in Nat : outbox' = ack_outbox(AuditWritten(c, BumpWritten(c), at), msg[c])
    BY <1>12, <1>s DEF SettleCanonical
  <2>2. IsTable(BumpWritten(c)) /\ DOMAIN BumpWritten(c) = DOMAIN outbox
    BY <1>t, BumpWrittenFacts
  <2>3. /\ IsTable(AuditWritten(c, BumpWritten(c), at))
        /\ DOMAIN outbox \subseteq DOMAIN AuditWritten(c, BumpWritten(c), at)
    BY <2>2, <1>12, AuditFacts DEF SettleCanonical
  <2>4. IsTable(outbox') /\ DOMAIN outbox \subseteq DOMAIN outbox'
    BY <2>1, <2>3, AckFacts
  <2> QED
    BY <2>4, <1>12, <1>n DEF SettleCanonical, NextTick, IsTable, Row
<1>13. ASSUME NEW c \in Consumer, SettleDegraded(c)
       PROVE  TypeInv'
  <2>1. IsTable(outbox') /\ DOMAIN outbox \subseteq DOMAIN outbox'
    <3>1. CASE UNCHANGED outbox
      BY <3>1, <1>t
    <3>2. CASE \E at \in Stamp : outbox' = AuditWritten(c, outbox, at)
      <4>1. PICK at \in Nat : outbox' = AuditWritten(c, outbox, at)
        BY <3>2, <1>s
      <4>2. pc[c] = "settle"
        BY <1>13 DEF SettleDegraded
      <4> HIDE DEF TypeInv
      <4> QED
        BY <4>1, <4>2, <1>t, AuditFacts
    <3> QED
      BY <3>1, <3>2, <1>13 DEF SettleDegraded
  <2>2. faults' \in 0 .. MaxFaults
    BY <1>13, <1>s DEF SettleDegraded, Fault
  <2> QED
    BY <2>1, <2>2, <1>13 DEF SettleDegraded, IsTable, Row
<1>14. ASSUME NEW c \in Consumer, DispatchTransient(c) \/ BumpError(c) \/ Crash(c)
       PROVE  TypeInv'
  <2>1. faults' \in 0 .. MaxFaults
    BY <1>14, <1>s DEF DispatchTransient, BumpError, Crash, Fault
  <2> QED
    BY <2>1, <1>14, <1>d DEF DispatchTransient, BumpError, Crash
<1>15. ASSUME NEW c \in Consumer, AppendAuditError(c)
       PROVE  TypeInv'
  <2>1. msg[c][2] \in Msg
    BY <1>15, <1>t, RowIdFacts DEF AppendAuditError, IsTable
  <2>2. faults' \in 0 .. MaxFaults
    BY <1>15, <1>s DEF AppendAuditError, Fault
  <2> QED
    BY <2>1, <2>2, <1>15 DEF AppendAuditError
<1>16. ASSUME NEW c \in Consumer, SettleWithoutAuditRow(c)
       PROVE  TypeInv'
  <2>1. IsTable(BumpWritten(c)) /\ DOMAIN BumpWritten(c) = DOMAIN outbox
    BY <1>t, BumpWrittenFacts
  <2>2. IsTable(outbox') /\ DOMAIN outbox' = DOMAIN outbox
    BY <2>1, <1>16, AckFacts DEF SettleWithoutAuditRow
  <2>3. faults' \in 0 .. MaxFaults
    BY <1>16, <1>s DEF SettleWithoutAuditRow, Fault
  <2> QED
    BY <2>2, <2>3, <1>16, <1>n DEF SettleWithoutAuditRow, NextTick, IsTable, Row
<1>17. CASE UNCHANGED vars
  BY <1>17 DEF vars
<1> QED
  BY <1>1, <1>2, <1>3, <1>4, <1>5, <1>6, <1>7, <1>8, <1>9, <1>10, <1>11,
     <1>12, <1>13, <1>14, <1>15, <1>16, <1>17 DEF Next, Tick, Disturb

\* Every reachable state of the consumers is well typed, and a consumer in the
\* middle of a tick always holds a row of the table.
THEOREM TypeCorrect == Spec => []TypeOK
<1>1. Init => TypeInv
  BY TypeInvInit
<1>2. TypeInv /\ [Next]_vars => TypeInv'
  BY TypeInvStep
<1>3. TypeInv => TypeOK
  BY DEF TypeInv
<1> QED
  BY <1>1, <1>2, <1>3, PTL DEF Spec
-----------------------------------------------------------------------------
(* What the consumers may do to the table, and why no work row is acked *)
(* before its event was applied or dead-lettered. *)

\* c is past the point where it concluded the event of the row it holds.
MayAck(c) == pc[c] \in {"ack", "duplicate", "settle"}

\* A daemon remembers an event only if it was concluded, or if the daemon is
\* still at work on it: the set is written before the dispatch.
SeenSound ==
    \A d \in Daemon : \A e \in seen[d] :
        \/ Concluded(e)
        \/ /\ pc[d] \in {"dispatch", "failed", "audit"}
           /\ event_id_from_message(msg[d]) = e

AckSound == \A c \in Consumer : MayAck(c) => Concluded(event_id_from_message(msg[c]))

DeliveredSound ==
    \A id \in DOMAIN outbox : outbox[id].delivered => Concluded(event_id_from_message(id))

LossInv == TypeInv /\ SeenSound /\ AckSound /\ DeliveredSound
-----------------------------------------------------------------------------
(* What one statement, and then one step, may do to the table. *)

\* No row is removed, taken back or touched after its delivery.
Advanced(old, new) ==
    \A id \in DOMAIN old :
        /\ id \in DOMAIN new
        /\ new[id].created = old[id].created
        /\ new[id].attempts >= old[id].attempts
        /\ old[id].delivered => new[id] = old[id]

\* Only the rows in ids are newly delivered.
DeliversOnly(old, new, ids) ==
    \A id \in DOMAIN new :
        new[id].delivered => id \in ids \/ (id \in DOMAIN old /\ old[id].delivered)

\* An insert adds a pending row and changes none.
LEMMA WriteAdvances ==
    ASSUME NEW tbl, IsTable(tbl), NEW id \in RowId, NEW at \in Nat
    PROVE  LET new == write_outbox_event(tbl, id, at)
           IN  Advanced(tbl, new) /\ DeliversOnly(tbl, new, {})
<1> DEFINE new == write_outbox_event(tbl, id, at)
<1>1. /\ DOMAIN new = DOMAIN tbl \cup {id}
      /\ \A i \in DOMAIN tbl : new[i] = tbl[i]
      /\ id \notin DOMAIN tbl => new[id] = NewRow(at)
  BY DEF write_outbox_event
<1> HIDE DEF new
<1>2. Advanced(tbl, new)
  <2>1. \A i \in DOMAIN tbl : tbl[i].attempts \in Nat
    BY DEF IsTable, Row
  <2> QED
    BY <1>1, <2>1 DEF Advanced
<1>3. DeliversOnly(tbl, new, {})
  BY <1>1 DEF DeliversOnly, NewRow
<1> QED
  BY <1>2, <1>3 DEF new

\* A bump delivers nothing, and spends no attempt of a delivered row.
LEMMA BumpAdvances ==
    ASSUME NEW tbl, IsTable(tbl), NEW id
    PROVE  LET new == bump_outbox_attempts(tbl, id)
           IN  Advanced(tbl, new) /\ DeliversOnly(tbl, new, {})
<1> DEFINE new == bump_outbox_attempts(tbl, id)
<1>1. /\ IsTable(new) /\ DOMAIN new = DOMAIN tbl
      /\ \A i \in DOMAIN tbl : i # id => new[i] = tbl[i]
      /\ \A i \in DOMAIN tbl : new[i].delivered = tbl[i].delivered /\ new[i].created = tbl[i].created
      /\ Pending(tbl, id) => new[id].attempts = tbl[id].attempts + 1
      /\ ~Pending(tbl, id) => new = tbl
  BY BumpFacts
<1> HIDE DEF new
<1>2. Advanced(tbl, new)
  BY <1>1 DEF Advanced, IsTable, Row, Pending
<1>3. DeliversOnly(tbl, new, {})
  BY <1>1 DEF DeliversOnly
<1> QED
  BY <1>2, <1>3 DEF new

\* An ack delivers at most the row it names.
LEMMA AckAdvances ==
    ASSUME NEW tbl, IsTable(tbl), NEW id
    PROVE  LET new == ack_outbox(tbl, id)
           IN  Advanced(tbl, new) /\ DeliversOnly(tbl, new, {id})
<1> DEFINE new == ack_outbox(tbl, id)
<1>1. /\ IsTable(new) /\ DOMAIN new = DOMAIN tbl
      /\ \A i \in DOMAIN tbl : i # id => new[i] = tbl[i]
      /\ \A i \in DOMAIN tbl : new[i].attempts = tbl[i].attempts /\ new[i].created = tbl[i].created
      /\ ~Pending(tbl, id) => new = tbl
  BY AckFacts
<1> HIDE DEF new
<1>2. Advanced(tbl, new)
  BY <1>1 DEF Advanced, IsTable, Row, Pending
<1>3. DeliversOnly(tbl, new, {id})
  BY <1>1 DEF DeliversOnly
<1> QED
  BY <1>2, <1>3 DEF new

\* Statements compose.
LEMMA AdvancedTrans ==
    ASSUME NEW t1, NEW t2, NEW t3, IsTable(t1), IsTable(t2), IsTable(t3),
           Advanced(t1, t2), Advanced(t2, t3)
    PROVE  Advanced(t1, t3)
<1> SUFFICES ASSUME NEW id \in DOMAIN t1
             PROVE  /\ id \in DOMAIN t3
                    /\ t3[id].created = t1[id].created
                    /\ t3[id].attempts >= t1[id].attempts
                    /\ t1[id].delivered => t3[id] = t1[id]
  BY DEF Advanced
<1>1. id \in DOMAIN t2 /\ id \in DOMAIN t3
  BY DEF Advanced
<1>2. t1[id].attempts \in Nat /\ t2[id].attempts \in Nat /\ t3[id].attempts \in Nat
  BY <1>1 DEF IsTable, Row
<1> QED
  BY <1>1, <1>2 DEF Advanced

\* ... and so do the deliveries they make.
LEMMA DeliversTrans ==
    ASSUME NEW t1, NEW t2, NEW t3, NEW ids, DeliversOnly(t1, t2, {}), DeliversOnly(t2, t3, ids)
    PROVE  DeliversOnly(t1, t3, ids)
  BY DEF DeliversOnly

\* The rows some consumer is about to ack.
Ackable == {msg[c] : c \in {d \in Consumer : MayAck(d)}}

\* Every step only advances the table, and delivers only rows that a consumer
\* holds past the point where it may ack.
LEMMA TableStep ==
    ASSUME TypeInv, [Next]_vars
    PROVE  Advanced(outbox, outbox') /\ DeliversOnly(outbox, outbox', Ackable)
<1>t. IsTable(outbox)
  BY DEF IsTable, Row, TypeInv, TypeOK, Rows
<1>s. Stamp \subseteq Nat
  BY StampAssumption
<1>u. CASE UNCHANGED outbox
  <2>1. \A id \in DOMAIN outbox : outbox[id].attempts \in Nat
    BY <1>t DEF IsTable, Row
  <2> QED
    BY <1>u, <2>1 DEF Advanced, DeliversOnly
<1>m. ASSUME NEW c \in Consumer, MayAck(c),
             DeliversOnly(outbox, outbox', {msg[c]}) \/ DeliversOnly(outbox, outbox', {})
      PROVE  DeliversOnly(outbox, outbox', Ackable)
  BY <1>m DEF DeliversOnly, Ackable
<1>e. ASSUME DeliversOnly(outbox, outbox', {})
      PROVE  DeliversOnly(outbox, outbox', Ackable)
  BY <1>e DEF DeliversOnly
<1>1. ASSUME NEW m \in Msg, Produce(m)
      PROVE  Advanced(outbox, outbox') /\ DeliversOnly(outbox, outbox', Ackable)
  <2>1. PICK at \in Nat : outbox' = write_outbox_event(outbox, WorkRow(m), at)
    BY <1>1, <1>s DEF Produce
  <2>2. WorkRow(m) \in RowId
    BY RowIdIntro, 0 \in Nat
  <2>3. Advanced(outbox, outbox') /\ DeliversOnly(outbox, outbox', {})
    <3> DEFINE id == WorkRow(m)
    <3> HIDE DEF id
    <3>1. id \in RowId /\ outbox' = write_outbox_event(outbox, id, at)
      BY <2>1, <2>2 DEF id
    <3> QED
      BY <3>1, <1>t, WriteAdvances
  <2> QED
    BY <2>3, <1>e
<1>2. ASSUME NEW c \in Consumer, Ack(c)
      PROVE  Advanced(outbox, outbox') /\ DeliversOnly(outbox, outbox', Ackable)
  <2>1. Advanced(outbox, outbox') /\ DeliversOnly(outbox, outbox', {msg[c]})
    BY <1>2, <1>t, AckAdvances DEF Ack
  <2>2. MayAck(c)
    BY <1>2 DEF Ack, MayAck
  <2> QED
    BY <2>1, <2>2, <1>m
<1>3. ASSUME NEW c \in Consumer, BumpBelowCap(c) \/ BumpAtCap(c)
      PROVE  Advanced(outbox, outbox') /\ DeliversOnly(outbox, outbox', Ackable)
  <2>1. CASE outbox' = bump_outbox_attempts(outbox, msg[c])
    BY <2>1, <1>t, <1>e, BumpAdvances
  <2> QED
    BY <2>1, <1>u, <1>3 DEF BumpBelowCap, BumpAtCap
<1>b. ASSUME NEW c \in Consumer
      PROVE  LET bumped == BumpWritten(c)
             IN  /\ IsTable(bumped) /\ DOMAIN bumped = DOMAIN outbox
                 /\ Advanced(outbox, bumped) /\ DeliversOnly(outbox, bumped, {})
  <2>1. IsTable(BumpWritten(c)) /\ DOMAIN BumpWritten(c) = DOMAIN outbox
    BY <1>t, BumpWrittenFacts
  <2>2. CASE txn[c].attempts > 0
    BY <2>1, <2>2, <1>t, BumpAdvances DEF BumpWritten
  <2>3. CASE ~(txn[c].attempts > 0)
    <3>1. BumpWritten(c) = outbox
      BY <2>3 DEF BumpWritten
    <3>2. \A id \in DOMAIN outbox : outbox[id].attempts \in Nat
      BY <1>t DEF IsTable, Row
    <3> QED
      BY <2>1, <3>1, <3>2 DEF Advanced, DeliversOnly
  <2> QED
    BY <2>2, <2>3
<1>a. ASSUME NEW c \in Consumer, pc[c] = "settle", NEW tbl, IsTable(tbl),
             DOMAIN tbl = DOMAIN outbox, NEW at \in Nat
      PROVE  LET audited == AuditWritten(c, tbl, at)
             IN  /\ IsTable(audited)
                 /\ Advanced(tbl, audited) /\ DeliversOnly(tbl, audited, {})
  <2>1. IsTable(AuditWritten(c, tbl, at)) /\ AuditRow(msg[c][2], txn[c].attempts) \in RowId
    BY <1>a, AuditFacts
  <2>2. CASE txn[c].recorded
    BY <2>1, <2>2, <1>a, WriteAdvances DEF AuditWritten
  <2>3. CASE ~txn[c].recorded
    <3>1. AuditWritten(c, tbl, at) = tbl
      BY <2>3 DEF AuditWritten
    <3>2. \A id \in DOMAIN tbl : tbl[id].attempts \in Nat
      BY <1>a DEF IsTable, Row
    <3> QED
      BY <2>1, <3>1, <3>2 DEF Advanced, DeliversOnly
  <2> QED
    BY <2>2, <2>3
<1>4. ASSUME NEW c \in Consumer, SettleCanonical(c)
      PROVE  Advanced(outbox, outbox') /\ DeliversOnly(outbox, outbox', Ackable)
  <2>1. PICK at \in Nat : outbox' = ack_outbox(AuditWritten(c, BumpWritten(c), at), msg[c])
    BY <1>4, <1>s DEF SettleCanonical
  <2>2. pc[c] = "settle" /\ MayAck(c)
    BY <1>4 DEF SettleCanonical, MayAck
  <2> DEFINE bumped == BumpWritten(c)
             audited == AuditWritten(c, bumped, at)
  <2>3. /\ IsTable(bumped) /\ DOMAIN bumped = DOMAIN outbox
        /\ Advanced(outbox, bumped) /\ DeliversOnly(outbox, bumped, {})
    BY <1>b
  <2>4. outbox' = ack_outbox(audited, msg[c])
    BY <2>1
  <2> HIDE DEF bumped
  <2>5. IsTable(audited) /\ Advanced(bumped, audited) /\ DeliversOnly(bumped, audited, {})
    BY <2>2, <2>3, <1>a
  <2> HIDE DEF audited
  <2>6. IsTable(outbox') /\ Advanced(audited, outbox') /\ DeliversOnly(audited, outbox', {msg[c]})
    BY <2>4, <2>5, AckFacts, AckAdvances
  <2>7. Advanced(outbox, audited) /\ DeliversOnly(outbox, audited, {})
    BY <2>3, <2>5, <1>t, AdvancedTrans, DeliversTrans
  <2>8. Advanced(outbox, outbox') /\ DeliversOnly(outbox, outbox', {msg[c]})
    BY <2>5, <2>6, <2>7, <1>t, AdvancedTrans, DeliversTrans
  <2> QED
    BY <2>2, <2>8, <1>m
<1>5. ASSUME NEW c \in Consumer, SettleWithoutAuditRow(c)
      PROVE  Advanced(outbox, outbox') /\ DeliversOnly(outbox, outbox', Ackable)
  <2> DEFINE bumped == BumpWritten(c)
  <2>1. /\ IsTable(bumped) /\ Advanced(outbox, bumped) /\ DeliversOnly(outbox, bumped, {})
    BY <1>b
  <2>2. MayAck(c) /\ outbox' = ack_outbox(bumped, msg[c])
    BY <1>5 DEF SettleWithoutAuditRow, MayAck
  <2> HIDE DEF bumped
  <2>3. IsTable(outbox') /\ Advanced(bumped, outbox') /\ DeliversOnly(bumped, outbox', {msg[c]})
    BY <2>1, <2>2, AckFacts, AckAdvances
  <2>4. Advanced(outbox, outbox') /\ DeliversOnly(outbox, outbox', {msg[c]})
    BY <2>1, <2>3, <1>t, AdvancedTrans, DeliversTrans
  <2> QED
    BY <2>2, <2>4, <1>m
<1>6. ASSUME NEW c \in Consumer, SettleDegraded(c)
      PROVE  Advanced(outbox, outbox') /\ DeliversOnly(outbox, outbox', Ackable)
  <2>1. CASE \E at \in Stamp : outbox' = AuditWritten(c, outbox, at)
    <3>1. PICK at \in Nat : outbox' = AuditWritten(c, outbox, at)
      BY <2>1, <1>s
    <3>2. pc[c] = "settle"
      BY <1>6 DEF SettleDegraded
    <3>3. Advanced(outbox, outbox') /\ DeliversOnly(outbox, outbox', {})
      BY <3>1, <3>2, <1>a, <1>t
    <3> QED
      BY <3>3, <1>e
  <2> QED
    BY <2>1, <1>u, <1>6 DEF SettleDegraded
<1>7. ASSUME NEW c \in Consumer,
             \/ PollDaemon(c) \/ PollDrain(c) \/ DispatchOk(c) \/ DispatchInvalid(c)
             \/ DispatchFail(c) \/ BumpNothing(c) \/ AppendAudit(c)
             \/ DispatchTransient(c) \/ BumpError(c) \/ AppendAuditError(c) \/ Crash(c)
      PROVE  UNCHANGED outbox
  BY <1>7 DEF PollDaemon, PollDrain, DispatchOk, DispatchInvalid, DispatchFail, BumpNothing,
              AppendAudit, DispatchTransient, BumpError, AppendAuditError, Crash
<1>8. CASE UNCHANGED vars
  BY <1>8, <1>u DEF vars
<1> QED
  BY <1>1, <1>2, <1>3, <1>4, <1>5, <1>6, <1>7, <1>8, <1>u DEF Next, Tick, Disturb

\* No step of any consumer, crash or producer removes a row, undoes a
\* delivery, takes attempts back or spends them after the delivery.
THEOREM TableOnlyAdvances == Spec => RowsOnlyAdvance
<1>1. Init => TypeInv
  BY TypeInvInit
<1>2. TypeInv /\ [Next]_vars => TypeInv'
  BY TypeInvStep
<1>3. TypeInv /\ [Next]_vars =>
        [\A id \in Rows(outbox) :
           /\ id \in Rows(outbox')
           /\ outbox'[id].created = outbox[id].created
           /\ outbox'[id].attempts >= outbox[id].attempts
           /\ outbox[id].delivered => outbox'[id] = outbox[id]]_vars
  BY TableStep DEF Advanced, Rows
<1> QED
  BY <1>1, <1>2, <1>3, PTL DEF Spec, RowsOnlyAdvance
-----------------------------------------------------------------------------
(* No silent loss. *)

\* What was concluded stays concluded.
LEMMA ConcludedStays ==
    ASSUME [Next]_vars
    PROVE  \A e : Concluded(e) => Concluded(e)'
<1>1. handled \subseteq handled' /\ jsonl \subseteq jsonl' /\ unaudited \subseteq unaudited'
  BY DEF Next, Tick, Disturb, vars, Produce, PollDaemon, PollDrain, Ack, DispatchOk,
         DispatchInvalid, DispatchFail, BumpNothing, BumpBelowCap, BumpAtCap, AppendAudit,
         SettleCanonical, SettleDegraded, DispatchTransient, BumpError, AppendAuditError,
         SettleWithoutAuditRow, Crash
<1> QED
  BY <1>1 DEF Concluded

\* Delivered rows stay concluded: a step delivers only rows that are.
LEMMA DeliveredSoundStep ==
    ASSUME LossInv, [Next]_vars
    PROVE  DeliveredSound'
<1> SUFFICES ASSUME NEW id \in DOMAIN outbox', outbox'[id].delivered
             PROVE  Concluded(event_id_from_message(id))'
  BY DEF DeliveredSound, event_id_from_message
<1>1. id \in Ackable \/ (id \in DOMAIN outbox /\ outbox[id].delivered)
  BY TableStep DEF LossInv, DeliversOnly
<1>2. Concluded(event_id_from_message(id))
  BY <1>1 DEF LossInv, DeliveredSound, AckSound, Ackable
<1>3. \A e : Concluded(e) => Concluded(e)'
  BY ConcludedStays
<1> QED
  BY <1>2, <1>3 DEF event_id_from_message

\* What a consumer in the middle of a tick holds, and what a daemon remembers,
\* in each of the steps of Next.
LEMMA AckSeenStep ==
    ASSUME LossInv, [Next]_vars
    PROVE  AckSound' /\ SeenSound'
<1> USE DEF MayAck
<1>k. \A e : Concluded(e) => Concluded(e)'
  BY ConcludedStays
<1>t. /\ pc \in [Consumer -> PC] /\ msg \in [Consumer -> RowId \cup {NoRow}]
      /\ seen \in [Daemon -> SUBSET (Event \cup RowId)]
      /\ Daemon \subseteq Consumer
  BY DEF LossInv, TypeInv, TypeOK, Consumer
<1>i. AckSound /\ SeenSound
  BY DEF LossInv
<1>u. CASE UNCHANGED <<seen, pc, msg>>
  BY <1>u, <1>k, <1>i DEF AckSound, SeenSound, event_id_from_message
<1>d. ASSUME NEW c \in Consumer, Die(c)
      PROVE  AckSound' /\ SeenSound'
  BY <1>d, <1>k, <1>i, <1>t DEF Die, NextTick, AckSound, SeenSound, event_id_from_message
<1>f. ASSUME NEW c \in Consumer, NextTick(c), UNCHANGED seen, MayAck(c)
      PROVE  AckSound' /\ SeenSound'
  BY <1>f, <1>k, <1>i, <1>t DEF NextTick, AckSound, SeenSound, event_id_from_message
<1>g. ASSUME NEW c \in Consumer, UNCHANGED <<seen, msg>>, NEW to,
             pc' = [pc EXCEPT ![c] = to], to \in PC,
             \/ to \in {"ack", "settle"} /\ Concluded(event_id_from_message(msg[c]))'
             \/ pc[c] \in {"dispatch", "failed"} /\ to \in {"failed", "audit"}
      PROVE  AckSound' /\ SeenSound'
  <2>1. AckSound'
    BY <1>g, <1>k, <1>i, <1>t DEF AckSound, event_id_from_message
  <2>2. SeenSound'
    BY <1>g, <1>k, <1>i, <1>t DEF SeenSound, event_id_from_message
  <2> QED
    BY <2>1, <2>2
<1>1. ASSUME NEW c \in Consumer, PollDaemon(c)
      PROVE  AckSound' /\ SeenSound'
  <2>1. PICK id \in poll_outbox_one(outbox) :
            /\ msg' = [msg EXCEPT ![c] = id]
            /\ LET e == event_id_from_message(id)
               IN  \/ e \in seen[c] /\ pc' = [pc EXCEPT ![c] = "duplicate"] /\ seen' = seen
                   \/ /\ pc' = [pc EXCEPT ![c] = "dispatch"]
                      /\ \E kept \in SeenAdd(seen[c], e) : seen' = [seen EXCEPT ![c] = kept]
    BY <1>1 DEF PollDaemon
  <2> DEFINE e == event_id_from_message(id)
  <2>2. pc[c] = "idle" /\ c \in Daemon
    BY <1>1 DEF PollDaemon
  <2>3. \A x \in seen[c] : Concluded(x)
    BY <2>2, <1>i DEF SeenSound
  <2>4. event_id_from_message(msg'[c]) = e /\ msg'[c] = id
    BY <2>1, <1>t
  <2>5. CASE e \in seen[c] /\ pc' = [pc EXCEPT ![c] = "duplicate"] /\ seen' = seen
    <3>1. AckSound'
      BY <2>1, <2>3, <2>5, <1>k, <1>i, <1>t DEF AckSound, event_id_from_message
    <3>2. SeenSound'
      BY <2>1, <2>2, <2>3, <2>5, <1>k, <1>i, <1>t DEF SeenSound, event_id_from_message
    <3> QED
      BY <3>1, <3>2
  <2>6. CASE /\ pc' = [pc EXCEPT ![c] = "dispatch"]
             /\ \E kept \in SeenAdd(seen[c], e) : seen' = [seen EXCEPT ![c] = kept]
    <3>1. AckSound'
      BY <2>1, <2>6, <1>k, <1>i, <1>t DEF AckSound, event_id_from_message
    <3>2. seen'[c] \subseteq seen[c] \cup {e} /\ \A d \in Daemon : d # c => seen'[d] = seen[d]
      BY <2>2, <2>6, <1>t DEF SeenAdd
    <3>3. ASSUME NEW d \in Daemon, NEW x \in seen'[d]
          PROVE  \/ Concluded(x)'
                 \/ pc'[d] \in {"dispatch", "failed", "audit"} /\ event_id_from_message(msg'[d]) = x
      <4>1. CASE d = c
        <5>1. x = e \/ x \in seen[c]
          BY <3>2, <3>3, <4>1
        <5>2. pc'[d] = "dispatch"
          BY <2>6, <4>1, <1>t
        <5> QED
          BY <5>1, <5>2, <4>1, <2>3, <2>4, <1>k
      <4>2. CASE d # c
        <5>1. pc'[d] = pc[d] /\ msg'[d] = msg[d] /\ x \in seen[d]
          BY <2>1, <2>6, <3>2, <3>3, <4>2, <1>t
        <5> QED
          BY <5>1, <1>k, <1>i DEF SeenSound
      <4> QED
        BY <4>1, <4>2
    <3>4. SeenSound'
      BY <3>3 DEF SeenSound, event_id_from_message
    <3> QED
      BY <3>1, <3>4
  <2> QED
    BY <2>1, <2>5, <2>6
<1>2. ASSUME NEW c \in Consumer, PollDrain(c)
      PROVE  AckSound' /\ SeenSound'
  <2>1. c \notin Daemon
    BY <1>2, ConsumersAssumption DEF PollDrain
  <2>2. /\ \A d \in Consumer : d # c => pc'[d] = pc[d] /\ msg'[d] = msg[d]
        /\ pc'[c] = "dispatch" /\ seen' = seen
    BY <1>2, <1>t DEF PollDrain
  <2>3. AckSound'
    BY <2>2, <1>k, <1>i DEF AckSound, event_id_from_message
  <2>4. SeenSound'
    BY <2>1, <2>2, <1>k, <1>i, <1>t DEF SeenSound, event_id_from_message
  <2> QED
    BY <2>3, <2>4
<1>3. ASSUME NEW c \in Consumer, Ack(c) \/ SettleCanonical(c) \/ SettleWithoutAuditRow(c)
      PROVE  AckSound' /\ SeenSound'
  BY <1>3, <1>f DEF Ack, SettleCanonical, SettleWithoutAuditRow
<1>4. ASSUME NEW c \in Consumer, DispatchOk(c)
      PROVE  AckSound' /\ SeenSound'
  <2>1. Concluded(event_id_from_message(msg[c]))'
    BY <1>4 DEF DispatchOk, Concluded, event_id_from_message
  <2> QED
    BY <2>1, <1>4, <1>g DEF DispatchOk, PC
<1>5. ASSUME NEW c \in Consumer,
             DispatchInvalid(c) \/ (DispatchFail(c) /\ c \in Daemon) \/ BumpAtCap(c)
      PROVE  AckSound' /\ SeenSound'
  <2>1. c \in Daemon => c \notin Drain
    BY ConsumersAssumption
  <2> QED
    BY <2>1, <1>5, <1>g DEF DispatchInvalid, DispatchFail, BumpAtCap, PC
<1>6. ASSUME NEW c \in Consumer, AppendAudit(c) \/ AppendAuditError(c)
      PROVE  AckSound' /\ SeenSound'
  <2>1. msg[c] \in RowId /\ IsWork(msg[c])
    BY <1>6 DEF LossInv, TypeInv, TypeOK, Attached, AppendAudit, AppendAuditError, Rows
  <2>2. msg[c][2] \in Msg /\ event_id_from_message(msg[c]) = EventOf[msg[c][2]]
    BY <2>1, RowIdFacts DEF event_id_from_message
  <2>3. Concluded(EventOf[msg[c][2]])'
    <3>1. \/ msg[c][2] \in unaudited'
          \/ <<msg[c][2], txn[c].attempts>> \in jsonl'
      BY <1>6 DEF AppendAudit, AppendAuditError
    <3> QED
      BY <2>2, <3>1, <1>6 DEF Concluded, AppendAudit, AppendAuditError
  <2>4. Concluded(event_id_from_message(msg[c]))'
    BY <2>2, <2>3, <1>6 DEF AppendAudit, AppendAuditError, event_id_from_message
  <2> QED
    BY <2>4, <1>6, <1>g DEF AppendAudit, AppendAuditError, PC
<1>7. ASSUME NEW c \in Consumer, SettleDegraded(c)
      PROVE  AckSound' /\ SeenSound'
  <2>1. Concluded(event_id_from_message(msg[c]))'
    BY <1>7, <1>i, <1>k DEF SettleDegraded, AckSound, event_id_from_message
  <2> QED
    BY <2>1, <1>7, <1>g DEF SettleDegraded, PC
<1>8. ASSUME NEW c \in Consumer,
             \/ (DispatchFail(c) /\ c \notin Daemon) \/ BumpNothing(c) \/ BumpBelowCap(c)
             \/ DispatchTransient(c) \/ BumpError(c) \/ Crash(c)
      PROVE  AckSound' /\ SeenSound'
  BY <1>8, <1>d DEF DispatchFail, BumpNothing, BumpBelowCap, DispatchTransient, BumpError, Crash
<1>9. ASSUME NEW m \in Msg, Produce(m)
      PROVE  AckSound' /\ SeenSound'
  BY <1>9, <1>u DEF Produce
<1>10. CASE UNCHANGED vars
  BY <1>10, <1>u DEF vars
<1> QED
  BY <1>1, <1>2, <1>3, <1>4, <1>5, <1>6, <1>7, <1>8, <1>9, <1>10 DEF Next, Tick, Disturb

\* LossInv is an invariant of the consumers.
LEMMA LossInvariance == Spec => []LossInv
<1>1. Init => LossInv
  BY TypeInvInit DEF Init, LossInv, SeenSound, AckSound, DeliveredSound, MayAck, EmptyTable
<1>2. LossInv /\ [Next]_vars => LossInv'
  BY TypeInvStep, DeliveredSoundStep, AckSeenStep DEF LossInv
<1> QED
  BY <1>1, <1>2, PTL DEF Spec

\* At-least-once, for every number of consumers, rows and faults and with or
\* without the canonical connection: no work row is acked unless its event was
\* applied by a handler or dead-lettered.
THEOREM NothingLostSilently == Spec => []NoSilentLoss
<1>1. LossInv => NoSilentLoss
  <2> SUFFICES ASSUME LossInv, NEW m \in Msg, Delivered(outbox, WorkRow(m))
               PROVE  Concluded(EventOf[m])
    BY DEF NoSilentLoss
  <2>1. IsWork(WorkRow(m)) /\ WorkRow(m)[2] = m
    BY RowIdIntro, 0 \in Nat
  <2> QED
    BY <2>1 DEF LossInv, DeliveredSound, Delivered, event_id_from_message
<1> QED
  BY <1>1, LossInvariance, PTL
-----------------------------------------------------------------------------
(* The poison bookkeeping on the canonical connection. *)

\* Every dead letter under way has its transaction, and no pending row is at
\* its cap.
BudgetInv ==
    /\ TypeInv
    /\ \A c \in Consumer : pc[c] \in {"audit", "settle"} => txn[c].canonical
    /\ PoisonBudget
    /\ \A id \in DOMAIN outbox : ~IsWork(id) => Delivered(outbox, WorkRow(id[2]))

\* What BudgetInv needs of a table: each row is delivered, or it has budget
\* left; and an audit row comes with the ack of its work row.
Sound(tbl) ==
    /\ \A id \in DOMAIN tbl : tbl[id].delivered \/ tbl[id].attempts < MaxDispatchAttempts
    /\ \A id \in DOMAIN tbl : ~IsWork(id) => Delivered(tbl, WorkRow(id[2]))

\* The canonical transaction as a whole: bump, audit row and ack of a work row
\* leave a sound table, although the table between them is not.
LEMMA SettledSound ==
    ASSUME NEW t1, NEW t2, NEW t3, NEW id \in DOMAIN t1, IsWork(id), id \in RowId, NEW audit,
           IsTable(t1), IsTable(t2), IsTable(t3), DOMAIN t2 \subseteq DOMAIN t1 \cup {audit},
           ~IsWork(audit) /\ audit[2] = id[2],
           Sound(t1), DOMAIN t1 \subseteq DOMAIN t2,
           \A i \in DOMAIN t1 : i # id => t2[i] = t1[i],
           audit \in DOMAIN t2 \ DOMAIN t1 => t2[audit].attempts = 0,
           DOMAIN t3 = DOMAIN t2, \A i \in DOMAIN t2 : i # id => t3[i] = t2[i],
           t3[id].delivered
    PROVE  Sound(t3)
<1>1. MaxDispatchAttempts \in Nat /\ 0 < MaxDispatchAttempts
  BY AttemptsAssumption
<1>2. id = WorkRow(id[2])
  BY RowIdFacts
<1>3. ASSUME NEW i \in DOMAIN t3
      PROVE  t3[i].delivered \/ t3[i].attempts < MaxDispatchAttempts
  <2>1. CASE i = id
    BY <2>1
  <2>2. CASE i # id /\ i \in DOMAIN t1
    BY <2>2 DEF Sound
  <2>3. CASE i # id /\ i \notin DOMAIN t1
    BY <2>3, <1>1
  <2> QED
    BY <2>1, <2>2, <2>3
<1>4. ASSUME NEW i \in DOMAIN t3, ~IsWork(i)
      PROVE  Delivered(t3, WorkRow(i[2]))
  <2>1. CASE i \in DOMAIN t1
    <3>1. WorkRow(i[2]) \in DOMAIN t1 /\ t1[WorkRow(i[2])].delivered
      BY <2>1, <1>4 DEF Sound, Delivered
    <3>2. CASE WorkRow(i[2]) = id
      BY <3>2, <3>1 DEF Delivered
    <3>3. CASE WorkRow(i[2]) # id
      BY <3>3, <3>1 DEF Delivered
    <3> QED
      BY <3>2, <3>3
  <2>2. CASE i \notin DOMAIN t1
    <3>1. i = audit
      BY <2>2
    <3> QED
      BY <3>1, <1>2 DEF Delivered
  <2> QED
    BY <2>1, <2>2
<1> QED
  BY <1>3, <1>4 DEF Sound

\* A statement on a sound table: an insert of a work row, a bump below the cap
\* and an ack leave it sound.
LEMMA StatementsSound ==
    ASSUME NEW tbl, IsTable(tbl), Sound(tbl), NEW id \in RowId
    PROVE  /\ \A at \in Nat : IsWork(id) => Sound(write_outbox_event(tbl, id, at))
           /\ tbl[id].attempts + 1 < MaxDispatchAttempts => Sound(bump_outbox_attempts(tbl, id))
           /\ Sound(ack_outbox(tbl, id))
<1>1. MaxDispatchAttempts \in Nat /\ 0 < MaxDispatchAttempts
  BY AttemptsAssumption
<1>2. ASSUME NEW at \in Nat, IsWork(id)
      PROVE  Sound(write_outbox_event(tbl, id, at))
  <2> DEFINE new == write_outbox_event(tbl, id, at)
  <2>1. /\ DOMAIN new = DOMAIN tbl \cup {id}
        /\ \A i \in DOMAIN tbl : new[i] = tbl[i]
        /\ id \notin DOMAIN tbl => new[id] = NewRow(at)
    BY DEF write_outbox_event
  <2> HIDE DEF new
  <2>2. Sound(new)
    BY <1>1, <1>2, <2>1 DEF Sound, Delivered, NewRow
  <2> QED
    BY <2>2 DEF new
<1>3. ASSUME tbl[id].attempts + 1 < MaxDispatchAttempts
      PROVE  Sound(bump_outbox_attempts(tbl, id))
  <2> DEFINE new == bump_outbox_attempts(tbl, id)
  <2>1. /\ DOMAIN new = DOMAIN tbl
        /\ \A i \in DOMAIN tbl : i # id => new[i] = tbl[i]
        /\ \A i \in DOMAIN tbl : new[i].delivered = tbl[i].delivered
        /\ Pending(tbl, id) => new[id].attempts = tbl[id].attempts + 1
        /\ ~Pending(tbl, id) => new = tbl
    BY BumpFacts
  <2> HIDE DEF new
  <2>2. ASSUME NEW i \in DOMAIN new
        PROVE  new[i].delivered \/ new[i].attempts < MaxDispatchAttempts
    <3>1. CASE i # id
      BY <3>1, <2>1 DEF Sound
    <3>2. CASE i = id /\ Pending(tbl, id)
      BY <3>2, <2>1, <1>3
    <3>3. CASE i = id /\ ~Pending(tbl, id)
      BY <3>3, <2>1 DEF Sound
    <3> QED
      BY <3>1, <3>2, <3>3
  <2>3. Sound(new)
    BY <2>1, <2>2 DEF Sound, Delivered
  <2> QED
    BY <2>3 DEF new
<1>4. Sound(ack_outbox(tbl, id))
  <2> DEFINE new == ack_outbox(tbl, id)
  <2>1. /\ DOMAIN new = DOMAIN tbl
        /\ \A i \in DOMAIN tbl : i # id => new[i] = tbl[i]
        /\ \A i \in DOMAIN tbl : new[i].attempts = tbl[i].attempts
        /\ id \in DOMAIN tbl => new[id].delivered
    BY AckFacts
  <2> HIDE DEF new
  <2>2. Sound(new)
    BY <2>1 DEF Sound, Delivered
  <2> QED
    BY <2>2 DEF new
<1> QED
  BY <1>2, <1>3, <1>4

\* BudgetInv is inductive when the canonical connection always opens.
LEMMA BudgetInvStep ==
    ASSUME ~Degraded, BudgetInv, [Next]_vars
    PROVE  BudgetInv'
<1> DEFINE Canonical == \A c \in Consumer : pc[c] \in {"audit", "settle"} => txn[c].canonical
<1>i. TypeInv /\ Canonical /\ TypeInv'
  BY TypeInvStep DEF BudgetInv
<1>t. IsTable(outbox) /\ IsTable(outbox')
  BY <1>i DEF IsTable, Row, TypeInv, TypeOK, Rows
<1>o. Sound(outbox)
  BY <1>t DEF BudgetInv, PoisonBudget, Sound, Pending, Rows, IsTable, Row
<1>s. Stamp \subseteq Nat
  BY StampAssumption
<1>y. /\ pc \in [Consumer -> PC] /\ msg \in [Consumer -> RowId \cup {NoRow}]
      /\ txn \in [Consumer -> Txn]
  BY <1>i DEF TypeInv, TypeOK
<1>m. ASSUME NEW c \in Consumer, pc[c] # "idle"
      PROVE  msg[c] \in DOMAIN outbox /\ msg[c] \in RowId
  BY <1>m, <1>i, <1>t DEF TypeInv, Attached, IsTable
<1>n. ASSUME NEW c \in Consumer, NextTick(c)
      PROVE  Canonical'
  BY <1>n, <1>i, <1>y DEF NextTick
<1>u. ASSUME NEW c \in Consumer, NEW to, to \notin {"audit", "settle"},
             pc' = [pc EXCEPT ![c] = to], txn' = txn
      PROVE  Canonical'
  BY <1>u, <1>i, <1>y
<1>1. ASSUME NEW m \in Msg, Produce(m)
      PROVE  Sound(outbox') /\ Canonical'
  <2>1. PICK at \in Nat : outbox' = write_outbox_event(outbox, WorkRow(m), at)
    BY <1>1, <1>s DEF Produce
  <2> DEFINE id == WorkRow(m)
  <2>2. id \in RowId /\ IsWork(id)
    BY RowIdIntro, 0 \in Nat
  <2>3. outbox' = write_outbox_event(outbox, id, at)
    BY <2>1
  <2> HIDE DEF id
  <2>4. Sound(outbox')
    BY <2>2, <2>3, <1>t, <1>o, StatementsSound
  <2> QED
    BY <2>4, <1>1, <1>i DEF Produce
<1>2. ASSUME NEW c \in Consumer, PollDaemon(c) \/ PollDrain(c) \/ DispatchOk(c)
      PROVE  Sound(outbox') /\ Canonical'
  BY <1>2, <1>o, <1>u DEF PollDaemon, PollDrain, DispatchOk
<1>3. ASSUME NEW c \in Consumer, Ack(c)
      PROVE  Sound(outbox') /\ Canonical'
  <2>1. Sound(outbox')
    BY <1>3, <1>m, <1>t, <1>o, StatementsSound DEF Ack
  <2> QED
    BY <2>1, <1>3, <1>n DEF Ack
<1>4. ASSUME NEW c \in Consumer, DispatchInvalid(c)
      PROVE  Sound(outbox') /\ Canonical'
  <2>1. /\ txn' = [txn EXCEPT ![c] = [NoTxn EXCEPT !.canonical = TRUE]]
        /\ pc' = [pc EXCEPT ![c] = "audit"] /\ outbox' = outbox
    BY <1>4 DEF DispatchInvalid
  <2>2. [NoTxn EXCEPT !.canonical = TRUE].canonical
    BY DEF NoTxn
  <2>3. Canonical'
    BY <2>1, <2>2, <1>i, <1>y
  <2> QED
    BY <2>1, <2>3, <1>o
<1>5. ASSUME NEW c \in Consumer, DispatchFail(c)
      PROVE  Sound(outbox') /\ Canonical'
  <2>1. CASE pc' = [pc EXCEPT ![c] = "failed"] /\ UNCHANGED <<seen, msg, txn>>
    BY <2>1, <1>5, <1>o, <1>u DEF DispatchFail
  <2>2. CASE Die(c)
    BY <2>2, <1>5, <1>o, <1>n DEF DispatchFail, Die
  <2> QED
    BY <2>1, <2>2, <1>5 DEF DispatchFail
<1>6. ASSUME NEW c \in Consumer,
             BumpNothing(c) \/ DispatchTransient(c) \/ BumpError(c) \/ Crash(c)
      PROVE  Sound(outbox') /\ Canonical'
  BY <1>6, <1>o, <1>n DEF BumpNothing, DispatchTransient, BumpError, Crash, Die
<1>7. ASSUME NEW c \in Consumer, BumpBelowCap(c)
      PROVE  Sound(outbox') /\ Canonical'
  <2>1. Sound(outbox')
    BY <1>7, <1>m, <1>t, <1>o, StatementsSound DEF BumpBelowCap
  <2> QED
    BY <2>1, <1>7, <1>n DEF BumpBelowCap, Die
<1>8. ASSUME NEW c \in Consumer, BumpAtCap(c)
      PROVE  Sound(outbox') /\ Canonical'
  <2> DEFINE attempts == outbox[msg[c]].attempts + 1
  <2>1. /\ txn' = [txn EXCEPT ![c] = [NoTxn EXCEPT !.canonical = TRUE, !.attempts = attempts]]
        /\ pc' = [pc EXCEPT ![c] = "audit"] /\ outbox' = outbox
    BY <1>8 DEF BumpAtCap
  <2> HIDE DEF attempts
  <2>2. [NoTxn EXCEPT !.canonical = TRUE, !.attempts = attempts].canonical
    BY DEF NoTxn
  <2>3. Canonical'
    BY <2>1, <2>2, <1>i, <1>y
  <2> QED
    BY <2>1, <2>3, <1>o
<1>9. ASSUME NEW c \in Consumer, AppendAudit(c) \/ AppendAuditError(c)
      PROVE  Sound(outbox') /\ Canonical'
  <2>1. pc[c] = "audit" /\ pc' = [pc EXCEPT ![c] = "settle"] /\ outbox' = outbox
    BY <1>9 DEF AppendAudit, AppendAuditError
  <2>2. \A d \in Consumer : txn'[d].canonical = txn[d].canonical
    BY <1>9, <1>y DEF AppendAudit, AppendAuditError, Txn
  <2>3. Canonical'
    BY <2>1, <2>2, <1>i, <1>y
  <2> QED
    BY <2>1, <2>3, <1>o
<1>10. ASSUME NEW c \in Consumer, SettleDegraded(c)
       PROVE  FALSE
  BY <1>10, <1>i DEF SettleDegraded
<1>b. ASSUME NEW c \in Consumer
      PROVE  LET bumped == BumpWritten(c)
             IN  /\ IsTable(bumped) /\ DOMAIN bumped = DOMAIN outbox
                 /\ \A i \in DOMAIN outbox : i # msg[c] => bumped[i] = outbox[i]
  BY <1>t, BumpWrittenFacts
<1>11. ASSUME NEW c \in Consumer, SettleCanonical(c) \/ SettleWithoutAuditRow(c)
       PROVE  Sound(outbox') /\ Canonical'
  <2> DEFINE bumped == BumpWritten(c)
             id == msg[c]
             audit == AuditRow(id[2], txn[c].attempts)
  <2>1. pc[c] = "settle" /\ id \in DOMAIN outbox /\ id \in RowId /\ IsWork(id)
    BY <1>11, <1>m, <1>i DEF SettleCanonical, SettleWithoutAuditRow, TypeInv, Attached
  <2>2. /\ IsTable(bumped) /\ DOMAIN bumped = DOMAIN outbox
        /\ \A i \in DOMAIN outbox : i # id => bumped[i] = outbox[i]
    BY <1>b
  <2>3. ~IsWork(audit) /\ audit[2] = id[2]
    <3>1. id[2] \in Msg /\ txn[c].attempts \in Nat
      BY <2>1, <1>y, RowIdFacts DEF Txn
    <3> QED
      BY <3>1, RowIdIntro
  <2>4. PICK t2 : /\ IsTable(t2) /\ DOMAIN outbox \subseteq DOMAIN t2
                  /\ DOMAIN t2 \subseteq DOMAIN outbox \cup {audit}
                  /\ \A i \in DOMAIN outbox : i # id => t2[i] = outbox[i]
                  /\ audit \in DOMAIN t2 \ DOMAIN outbox => t2[audit].attempts = 0
                  /\ outbox' = ack_outbox(t2, id)
    <3>1. CASE SettleWithoutAuditRow(c)
      <4>1. outbox' = ack_outbox(bumped, id)
        BY <3>1 DEF SettleWithoutAuditRow
      <4> HIDE DEF bumped, audit, id
      <4> QED
        BY <4>1, <2>2
    <3>2. CASE SettleCanonical(c)
      <4>1. PICK at \in Nat : outbox' = ack_outbox(AuditWritten(c, bumped, at), id)
        BY <3>2, <1>s DEF SettleCanonical
      <4> DEFINE new == AuditWritten(c, bumped, at)
      <4>2. /\ IsTable(new) /\ DOMAIN bumped \subseteq DOMAIN new
            /\ DOMAIN new \subseteq DOMAIN bumped \cup {audit}
            /\ \A i \in DOMAIN bumped : new[i] = bumped[i]
            /\ audit \in DOMAIN new /\ audit \notin DOMAIN bumped =>
                   new[audit] = [created |-> at, delivered |-> FALSE, attempts |-> 0]
        <5> HIDE DEF bumped
        <5> QED
          BY <2>1, <2>2, <1>i, AuditFacts
      <4>3. outbox' = ack_outbox(new, id)
        BY <4>1
      <4> HIDE DEF new, bumped, audit, id
      <4> QED
        BY <4>2, <4>3, <2>2
    <3> QED
      BY <3>1, <3>2, <1>11
  <2> HIDE DEF bumped, audit, id
  <2>5. /\ DOMAIN outbox' = DOMAIN t2 /\ \A i \in DOMAIN t2 : i # id => outbox'[i] = t2[i]
        /\ outbox'[id].delivered
    BY <2>1, <2>4, AckFacts
  <2>6. Sound(outbox')
    BY <2>1, <2>3, <2>4, <2>5, <1>t, <1>o, SettledSound
  <2> QED
    BY <2>6, <1>11, <1>n DEF SettleCanonical, SettleWithoutAuditRow
<1>12. ASSUME UNCHANGED vars
       PROVE  Sound(outbox') /\ Canonical'
  <2>1. outbox' = outbox /\ pc' = pc /\ txn' = txn
    BY <1>12 DEF vars
  <2> QED
    <3>1. Sound(outbox')
      BY <2>1, <1>o
    <3>2. Canonical'
      BY <2>1, <1>i
    <3> QED
      BY <3>1, <3>2
<1> HIDE DEF Canonical
<1>13. Sound(outbox') /\ Canonical'
  BY <1>1, <1>2, <1>3, <1>4, <1>5, <1>6, <1>7, <1>8, <1>9, <1>10, <1>11, <1>12
     DEF Next, Tick, Disturb
<1> QED
  BY <1>13, <1>i DEF BudgetInv, PoisonBudget, Sound, Pending, Rows, Canonical

\* BudgetInv holds initially: there is no row.
LEMMA BudgetInvInit == Init => BudgetInv
  BY TypeInvInit DEF Init, BudgetInv, PoisonBudget, EmptyTable, Rows, Pending

\* On the canonical connection no crash and no interleaving of consumers leaves
\* a row that has spent its attempts and is still pending.
THEOREM BudgetNeverStranded ==
    ASSUME ~Degraded
    PROVE  Spec => []PoisonBudget
<1>1. BudgetInv /\ [Next]_vars => BudgetInv'
  BY BudgetInvStep
<1>2. BudgetInv => PoisonBudget
  BY DEF BudgetInv
<1> QED
  BY <1>1, <1>2, BudgetInvInit, PTL DEF Spec

\* On the canonical connection a dead-letter row is never visible before the
\* ack of the row it is about.
THEOREM AuditNeverStranded ==
    ASSUME ~Degraded
    PROVE  Spec => []NoStrandedAudit
<1>1. BudgetInv /\ [Next]_vars => BudgetInv'
  BY BudgetInvStep
<1>2. BudgetInv => NoStrandedAudit
  <2> SUFFICES ASSUME BudgetInv, NEW m \in Msg, NEW n \in 0 .. MaxDispatchAttempts,
                      AuditRow(m, n) \in DOMAIN outbox
               PROVE  Delivered(outbox, WorkRow(m))
    BY DEF NoStrandedAudit, Rows
  <2>1. ~IsWork(AuditRow(m, n)) /\ AuditRow(m, n)[2] = m
    BY RowIdIntro, n \in Nat
  <2> QED
    BY <2>1 DEF BudgetInv
<1> QED
  BY <1>1, <1>2, BudgetInvInit, PTL DEF Spec
-----------------------------------------------------------------------------
(* The consumers implement the at-least-once queue. *)

\* The messages published and settled in a table.
PublishedIn(tbl) == {m \in Msg : WorkRow(m) \in Rows(tbl)}
SettledIn(tbl) == {m \in Msg : Delivered(tbl, WorkRow(m))}

\* The queue sees the same in two tables that agree on their work rows.
LEMMA SameView ==
    ASSUME NEW t1, NEW t2,
           \A id \in RowId : IsWork(id) =>
               /\ id \in DOMAIN t1 <=> id \in DOMAIN t2
               /\ id \in DOMAIN t1 => t2[id].delivered = t1[id].delivered
    PROVE  PublishedIn(t2) = PublishedIn(t1) /\ SettledIn(t2) = SettledIn(t1)
<1>1. \A m \in Msg : WorkRow(m) \in RowId /\ IsWork(WorkRow(m))
  BY RowIdIntro, 0 \in Nat
<1> QED
  BY <1>1 DEF PublishedIn, SettledIn, Delivered, Rows

\* An insert of a work row publishes its message, a bump is invisible, and an
\* ack settles the message of a work row.
LEMMA StatementViews ==
    ASSUME NEW tbl, IsTable(tbl), NEW id \in RowId
    PROVE  /\ \A at \in Nat : IsWork(id) =>
                 /\ PublishedIn(write_outbox_event(tbl, id, at)) = PublishedIn(tbl) \cup {id[2]}
                 /\ SettledIn(write_outbox_event(tbl, id, at)) = SettledIn(tbl)
           /\ /\ PublishedIn(bump_outbox_attempts(tbl, id)) = PublishedIn(tbl)
              /\ SettledIn(bump_outbox_attempts(tbl, id)) = SettledIn(tbl)
           /\ id \in DOMAIN tbl =>
                 /\ PublishedIn(ack_outbox(tbl, id)) = PublishedIn(tbl)
                 /\ SettledIn(ack_outbox(tbl, id)) =
                       IF IsWork(id) THEN SettledIn(tbl) \cup {id[2]} ELSE SettledIn(tbl)
<1>1. \A m \in Msg : WorkRow(m) \in RowId /\ IsWork(WorkRow(m)) /\ WorkRow(m)[2] = m
  BY RowIdIntro, 0 \in Nat
<1>2. id[2] \in Msg /\ (IsWork(id) => id = WorkRow(id[2]))
  BY RowIdFacts
<1>3. ASSUME NEW at \in Nat, IsWork(id)
      PROVE  /\ PublishedIn(write_outbox_event(tbl, id, at)) = PublishedIn(tbl) \cup {id[2]}
             /\ SettledIn(write_outbox_event(tbl, id, at)) = SettledIn(tbl)
  <2> DEFINE new == write_outbox_event(tbl, id, at)
  <2>1. /\ DOMAIN new = DOMAIN tbl \cup {id}
        /\ \A i \in DOMAIN tbl : new[i] = tbl[i]
        /\ id \notin DOMAIN tbl => new[id] = NewRow(at)
    BY DEF write_outbox_event
  <2>2. ~NewRow(at).delivered
    BY DEF NewRow
  <2> HIDE DEF new
  <2>3. PublishedIn(new) = PublishedIn(tbl) \cup {id[2]}
    BY <1>1, <1>2, <1>3, <2>1 DEF PublishedIn, Rows
  <2>4. \A m \in Msg : Delivered(new, WorkRow(m)) <=> Delivered(tbl, WorkRow(m))
    BY <2>1, <2>2 DEF Delivered
  <2> QED
    BY <2>3, <2>4 DEF new, SettledIn
<1>4. /\ PublishedIn(bump_outbox_attempts(tbl, id)) = PublishedIn(tbl)
      /\ SettledIn(bump_outbox_attempts(tbl, id)) = SettledIn(tbl)
  <2> DEFINE new == bump_outbox_attempts(tbl, id)
  <2>1. DOMAIN new = DOMAIN tbl /\ \A i \in DOMAIN tbl : new[i].delivered = tbl[i].delivered
    BY BumpFacts
  <2> HIDE DEF new
  <2>2. PublishedIn(new) = PublishedIn(tbl) /\ SettledIn(new) = SettledIn(tbl)
    BY <2>1, SameView
  <2> QED
    BY <2>2 DEF new
<1>5. ASSUME id \in DOMAIN tbl
      PROVE  /\ PublishedIn(ack_outbox(tbl, id)) = PublishedIn(tbl)
             /\ SettledIn(ack_outbox(tbl, id)) =
                   IF IsWork(id) THEN SettledIn(tbl) \cup {id[2]} ELSE SettledIn(tbl)
  <2> DEFINE new == ack_outbox(tbl, id)
  <2>1. /\ DOMAIN new = DOMAIN tbl /\ new[id].delivered
        /\ \A i \in DOMAIN tbl : i # id => new[i] = tbl[i]
    BY <1>5, AckFacts
  <2> HIDE DEF new
  <2>2. PublishedIn(new) = PublishedIn(tbl)
    BY <2>1 DEF PublishedIn, Rows
  <2>3. CASE IsWork(id)
    <3>1. \A m \in Msg : Delivered(new, WorkRow(m)) <=> Delivered(tbl, WorkRow(m)) \/ m = id[2]
      BY <1>1, <1>2, <1>5, <2>1, <2>3 DEF Delivered
    <3>2. SettledIn(new) = SettledIn(tbl) \cup {id[2]}
      BY <3>1, <1>2 DEF SettledIn
    <3> QED
      BY <3>2, <2>2, <2>3 DEF new
  <2>4. CASE ~IsWork(id)
    <3>1. \A m \in Msg : Delivered(new, WorkRow(m)) <=> Delivered(tbl, WorkRow(m))
      BY <1>1, <2>1, <2>4 DEF Delivered
    <3>2. SettledIn(new) = SettledIn(tbl)
      BY <3>1 DEF SettledIn
    <3> QED
      BY <3>2, <2>2, <2>4 DEF new
  <2> QED
    BY <2>3, <2>4
<1> QED
  BY <1>3, <1>4, <1>5

\* The table a dead letter leaves before its ack shows the queue nothing new:
\* its audit row is no work row.
LEMMA AuditView ==
    ASSUME TypeInv, NEW c \in Consumer, pc[c] = "settle",
           NEW tbl, IsTable(tbl), DOMAIN tbl = DOMAIN outbox, NEW at \in Nat
    PROVE  LET new == AuditWritten(c, tbl, at)
           IN  PublishedIn(new) = PublishedIn(tbl) /\ SettledIn(new) = SettledIn(tbl)
<1> DEFINE audit == AuditRow(msg[c][2], txn[c].attempts)
           new == AuditWritten(c, tbl, at)
<1>1. /\ ~IsWork(audit) /\ DOMAIN tbl \subseteq DOMAIN new
      /\ DOMAIN new \subseteq DOMAIN tbl \cup {audit}
      /\ \A i \in DOMAIN tbl : new[i] = tbl[i]
  BY AuditFacts
<1> HIDE DEF audit, new
<1>2. PublishedIn(new) = PublishedIn(tbl) /\ SettledIn(new) = SettledIn(tbl)
  BY <1>1, SameView
<1> QED
  BY <1>2 DEF new

\* Every step of a producer, consumer or crash is a step of the queue or is
\* invisible to it.
LEMMA QueueStep ==
    ASSUME LossInv, [Next]_vars
    PROVE  [Queue!Next]_(Queue!vars)
<1> DEFINE Pub == PublishedIn(outbox)
           Set == SettledIn(outbox)
           Con == {e \in Event : Concluded(e)}
<1>i. TypeInv /\ AckSound
  BY DEF LossInv
<1>t. IsTable(outbox)
  BY <1>i DEF IsTable, Row, TypeInv, TypeOK, Rows
<1>s. Stamp \subseteq Nat
  BY StampAssumption
<1>m. ASSUME NEW c \in Consumer, pc[c] # "idle"
      PROVE  /\ msg[c] \in DOMAIN outbox /\ msg[c] \in RowId /\ msg[c][2] \in Msg
             /\ IsWork(msg[c]) => msg[c][2] \in Pub /\ event_id_from_message(msg[c]) = EventOf[msg[c][2]]
  <2>1. msg[c] \in DOMAIN outbox /\ msg[c] \in RowId
    BY <1>m, <1>i, <1>t DEF TypeInv, Attached, IsTable
  <2>2. msg[c][2] \in Msg /\ (IsWork(msg[c]) => msg[c] = WorkRow(msg[c][2]))
    BY <2>1, RowIdFacts
  <2> QED
    BY <2>1, <2>2 DEF PublishedIn, Rows, event_id_from_message
<1>w. ASSUME NEW c \in Consumer, pc[c] \in {"failed", "audit", "settle"}
      PROVE  IsWork(msg[c])
  BY <1>w, <1>i DEF TypeInv, Attached
<1>v. \A m \in Msg : EventOf[m] \in Event
  BY EventOfAssumption
<1>pub. ASSUME NEW m \in Msg, Pub' = Pub \cup {m}, Set' = Set, Con' = Con
        PROVE  [Queue!Next]_(Queue!vars)
  <2>1. CASE m \in Pub
    BY <1>pub, <2>1 DEF Queue!vars, PublishedIn, SettledIn
  <2>2. CASE m \notin Pub
    BY <1>pub, <2>2 DEF Queue!Next, Queue!Publish, PublishedIn, SettledIn
  <2> QED
    BY <2>1, <2>2
<1>con. ASSUME NEW m \in Msg, m \in Pub, Pub' = Pub, Set' = Set, Con' = Con \cup {EventOf[m]}
        PROVE  [Queue!Next]_(Queue!vars)
  BY <1>con DEF Queue!Next, Queue!Conclude, PublishedIn, SettledIn
<1>set. ASSUME NEW m \in Msg, m \in Pub, EventOf[m] \in Con,
               Pub' = Pub, Set' = Set \cup {m}, Con' = Con
        PROVE  [Queue!Next]_(Queue!vars)
  <2>1. CASE m \in Set
    BY <1>set, <2>1 DEF Queue!vars, PublishedIn, SettledIn
  <2>2. CASE m \notin Set
    BY <1>set, <2>2 DEF Queue!Next, Queue!Settle, PublishedIn, SettledIn
  <2> QED
    BY <2>1, <2>2
<1>id. ASSUME Pub' = Pub, Set' = Set, Con' = Con
       PROVE  [Queue!Next]_(Queue!vars)
  BY <1>id DEF Queue!vars, PublishedIn, SettledIn
<1>same. outbox' = outbox => Pub' = Pub /\ Set' = Set
  OBVIOUS
<1>quiet. UNCHANGED <<handled, jsonl, unaudited>> => Con' = Con
  BY DEF Concluded
<1> HIDE DEF Pub, Set, Con
<1>1. ASSUME NEW m \in Msg, Produce(m)
      PROVE  [Queue!Next]_(Queue!vars)
  <2>1. PICK at \in Nat : outbox' = write_outbox_event(outbox, WorkRow(m), at)
    BY <1>1, <1>s DEF Produce
  <2> DEFINE id == WorkRow(m)
  <2>2. id \in RowId /\ IsWork(id) /\ id[2] = m
    BY RowIdIntro, 0 \in Nat
  <2>3. outbox' = write_outbox_event(outbox, id, at)
    BY <2>1
  <2> HIDE DEF id
  <2>4. Pub' = Pub \cup {m} /\ Set' = Set
    BY <2>2, <2>3, <1>t, StatementViews DEF Pub, Set
  <2> QED
    BY <2>4, <1>pub, <1>quiet, <1>1 DEF Produce
<1>a. ASSUME NEW c \in Consumer, MayAck(c), NEW tbl, IsTable(tbl), msg[c] \in DOMAIN tbl,
             PublishedIn(tbl) = Pub, SettledIn(tbl) = Set,
             outbox' = ack_outbox(tbl, msg[c]), UNCHANGED <<handled, jsonl, unaudited>>
      PROVE  [Queue!Next]_(Queue!vars)
  <2>1. /\ msg[c] \in RowId /\ msg[c][2] \in Msg
        /\ IsWork(msg[c]) => msg[c][2] \in Pub /\ event_id_from_message(msg[c]) = EventOf[msg[c][2]]
    BY <1>a, <1>m DEF MayAck
  <2>2. /\ Pub' = Pub
        /\ Set' = IF IsWork(msg[c]) THEN Set \cup {msg[c][2]} ELSE Set
    BY <1>a, <2>1, StatementViews DEF Pub, Set
  <2>3. CASE IsWork(msg[c])
    <3>1. EventOf[msg[c][2]] \in Con
      BY <2>1, <2>3, <1>a, <1>i, <1>v DEF AckSound, Con
    <3> QED
      BY <3>1, <2>1, <2>2, <2>3, <1>set, <1>quiet, <1>a
  <2>4. CASE ~IsWork(msg[c])
    BY <2>2, <2>4, <1>id, <1>quiet, <1>a
  <2> QED
    BY <2>3, <2>4
<1>2. ASSUME NEW c \in Consumer, Ack(c)
      PROVE  [Queue!Next]_(Queue!vars)
  <2>1. MayAck(c) /\ pc[c] # "idle"
    BY <1>2 DEF Ack, MayAck
  <2>2. msg[c] \in DOMAIN outbox
    BY <2>1, <1>m
  <2>3. PublishedIn(outbox) = Pub /\ SettledIn(outbox) = Set
    BY DEF Pub, Set
  <2> QED
    BY <2>1, <2>2, <2>3, <1>2, <1>a, <1>t DEF Ack
<1>3. ASSUME NEW c \in Consumer, BumpBelowCap(c) \/ BumpAtCap(c)
      PROVE  [Queue!Next]_(Queue!vars)
  <2>1. msg[c] \in RowId
    BY <1>3, <1>m DEF BumpBelowCap, BumpAtCap
  <2>2. Pub' = Pub /\ Set' = Set
    <3>1. CASE outbox' = outbox
      BY <3>1, <1>same DEF Pub, Set
    <3>2. CASE outbox' = bump_outbox_attempts(outbox, msg[c])
      BY <3>2, <2>1, <1>t, StatementViews DEF Pub, Set
    <3> QED
      BY <3>1, <3>2, <1>3 DEF BumpBelowCap, BumpAtCap
  <2> QED
    BY <2>2, <1>3, <1>id, <1>quiet DEF BumpBelowCap, BumpAtCap
<1>4. ASSUME NEW c \in Consumer, DispatchOk(c)
      PROVE  [Queue!Next]_(Queue!vars)
  <2>1. /\ pc[c] = "dispatch" /\ handled' = handled \cup {event_id_from_message(msg[c])}
        /\ UNCHANGED <<jsonl, unaudited>> /\ outbox' = outbox
    BY <1>4 DEF DispatchOk
  <2>2. \A e : Concluded(e)' <=> Concluded(e) \/ e = event_id_from_message(msg[c])
    BY <2>1 DEF Concluded
  <2>3. Pub' = Pub /\ Set' = Set
    BY <2>1, <1>same DEF Pub, Set
  <2>4. CASE IsWork(msg[c])
    <3>1. msg[c][2] \in Pub /\ msg[c][2] \in Msg /\ event_id_from_message(msg[c]) = EventOf[msg[c][2]]
      BY <2>1, <2>4, <1>m
    <3>2. Con' = Con \cup {EventOf[msg[c][2]]}
      BY <2>2, <3>1, <1>v DEF Con
    <3> QED
      BY <3>1, <3>2, <2>3, <1>con
  <2>5. CASE ~IsWork(msg[c])
    <3>1. event_id_from_message(msg[c]) \notin Event
      BY <2>1, <2>5, <1>m, EventIdAssumption DEF event_id_from_message
    <3>2. Con' = Con
      BY <2>2, <3>1 DEF Con
    <3> QED
      BY <3>2, <2>3, <1>id
  <2> QED
    BY <2>4, <2>5
<1>5. ASSUME NEW c \in Consumer, AppendAudit(c) \/ AppendAuditError(c)
      PROVE  [Queue!Next]_(Queue!vars)
  <2>1. pc[c] = "audit" /\ handled' = handled /\ outbox' = outbox
    BY <1>5 DEF AppendAudit, AppendAuditError
  <2>2. msg[c][2] \in Pub /\ msg[c][2] \in Msg
    BY <2>1, <1>m, <1>w
  <2>3. Pub' = Pub /\ Set' = Set
    BY <2>1, <1>same DEF Pub, Set
  <2>4. \A e : Concluded(e)' <=> Concluded(e) \/ e = EventOf[msg[c][2]]
    <3>1. CASE AppendAudit(c)
      <4>1. jsonl' = jsonl \cup {<<msg[c][2], txn[c].attempts>>} /\ unaudited' = unaudited
        BY <3>1 DEF AppendAudit
      <4>2. \A m \in Msg : (\E rec \in jsonl' : rec[1] = m) <=>
                               (\E rec \in jsonl : rec[1] = m) \/ m = msg[c][2]
        <5> DEFINE new == <<msg[c][2], txn[c].attempts>>
        <5>1. new[1] = msg[c][2] /\ jsonl' = jsonl \cup {new}
          BY <4>1
        <5> HIDE DEF new
        <5> QED
          BY <5>1
      <4> QED
        BY <4>1, <4>2, <2>1, <2>2 DEF Concluded
    <3>2. CASE AppendAuditError(c)
      <4>1. unaudited' = unaudited \cup {msg[c][2]} /\ jsonl' = jsonl
        BY <3>2 DEF AppendAuditError
      <4> QED
        BY <4>1, <2>1, <2>2 DEF Concluded
    <3> QED
      BY <3>1, <3>2, <1>5
  <2>5. Con' = Con \cup {EventOf[msg[c][2]]}
    BY <2>2, <2>4, <1>v DEF Con
  <2> QED
    BY <2>2, <2>3, <2>5, <1>con
<1>b. ASSUME NEW c \in Consumer, msg[c] \in RowId
      PROVE  LET bumped == BumpWritten(c)
             IN  /\ IsTable(bumped) /\ DOMAIN bumped = DOMAIN outbox
                 /\ PublishedIn(bumped) = Pub /\ SettledIn(bumped) = Set
  <2>1. IsTable(BumpWritten(c)) /\ DOMAIN BumpWritten(c) = DOMAIN outbox
    BY <1>t, BumpWrittenFacts
  <2>2. PublishedIn(BumpWritten(c)) = Pub /\ SettledIn(BumpWritten(c)) = Set
    BY <1>b, <1>t, StatementViews DEF BumpWritten, Pub, Set
  <2> QED
    BY <2>1, <2>2
<1>6. ASSUME NEW c \in Consumer, SettleCanonical(c) \/ SettleWithoutAuditRow(c)
      PROVE  [Queue!Next]_(Queue!vars)
  <2> DEFINE bumped == BumpWritten(c)
  <2>1. pc[c] = "settle" /\ MayAck(c) /\ UNCHANGED <<handled, jsonl, unaudited>>
    BY <1>6 DEF SettleCanonical, SettleWithoutAuditRow, MayAck
  <2>2. msg[c] \in DOMAIN outbox /\ msg[c] \in RowId
    BY <2>1, <1>m
  <2>3. /\ IsTable(bumped) /\ DOMAIN bumped = DOMAIN outbox
        /\ PublishedIn(bumped) = Pub /\ SettledIn(bumped) = Set
    BY <2>2, <1>b
  <2>4. CASE SettleCanonical(c)
    <3>1. PICK at \in Nat : outbox' = ack_outbox(AuditWritten(c, bumped, at), msg[c])
      BY <2>4, <1>s DEF SettleCanonical
    <3> HIDE DEF bumped
    <3> DEFINE new == AuditWritten(c, bumped, at)
    <3>2. IsTable(new) /\ DOMAIN bumped \subseteq DOMAIN new
      BY <2>1, <2>3, <1>i, AuditFacts
    <3>3. PublishedIn(new) = Pub /\ SettledIn(new) = Set
      BY <2>1, <2>3, <1>i, AuditView
    <3>4. outbox' = ack_outbox(new, msg[c])
      BY <3>1
    <3> HIDE DEF new
    <3> QED
      BY <2>1, <2>2, <2>3, <3>2, <3>3, <3>4, <1>a
  <2>5. CASE SettleWithoutAuditRow(c)
    <3>1. outbox' = ack_outbox(bumped, msg[c])
      BY <2>5 DEF SettleWithoutAuditRow
    <3> HIDE DEF bumped
    <3> QED
      BY <3>1, <2>1, <2>2, <2>3, <1>a
  <2> QED
    BY <2>4, <2>5, <1>6
<1>7. ASSUME NEW c \in Consumer, SettleDegraded(c)
      PROVE  [Queue!Next]_(Queue!vars)
  <2>1. Pub' = Pub /\ Set' = Set
    <3>1. CASE outbox' = outbox
      BY <3>1, <1>same DEF Pub, Set
    <3>2. CASE \E at \in Stamp : outbox' = AuditWritten(c, outbox, at)
      <4>1. PICK at \in Nat : outbox' = AuditWritten(c, outbox, at)
        BY <3>2, <1>s
      <4>2. pc[c] = "settle"
        BY <1>7 DEF SettleDegraded
      <4> QED
        BY <4>1, <4>2, <1>i, <1>t, AuditView DEF Pub, Set
    <3> QED
      BY <3>1, <3>2, <1>7 DEF SettleDegraded
  <2> QED
    BY <2>1, <1>7, <1>id, <1>quiet DEF SettleDegraded
<1>8. ASSUME NEW c \in Consumer,
             \/ PollDaemon(c) \/ PollDrain(c) \/ DispatchInvalid(c) \/ DispatchFail(c)
             \/ BumpNothing(c) \/ DispatchTransient(c) \/ BumpError(c) \/ Crash(c)
      PROVE  [Queue!Next]_(Queue!vars)
  <2>1. outbox' = outbox /\ UNCHANGED <<handled, jsonl, unaudited>>
    BY <1>8 DEF PollDaemon, PollDrain, DispatchInvalid, DispatchFail, BumpNothing,
                DispatchTransient, BumpError, Crash
  <2>2. Pub' = Pub /\ Set' = Set
    BY <2>1, <1>same DEF Pub, Set
  <2> QED
    BY <2>1, <2>2, <1>id, <1>quiet
<1>9. CASE UNCHANGED vars
  <2>1. outbox' = outbox /\ UNCHANGED <<handled, jsonl, unaudited>>
    BY <1>9 DEF vars
  <2>2. Pub' = Pub /\ Set' = Set
    BY <2>1, <1>same DEF Pub, Set
  <2> QED
    BY <2>1, <2>2, <1>id, <1>quiet
<1> QED
  BY <1>1, <1>2, <1>3, <1>4, <1>5, <1>6, <1>7, <1>8, <1>9 DEF Next, Tick, Disturb

\* The daemons, drains and producers together implement the at-least-once queue
\* for every number of consumers, rows and faults and in both connection modes:
\* a message is published once, its event concluded only after that, and it
\* settles only after its event was concluded.
THEOREM ConsumersImplementQueue == Spec => ImplementsAtLeastOnce
<1>1. Init => Queue!Init
  BY DEF Init, Queue!Init, EmptyTable, Rows, Delivered, Concluded
<1>2. LossInv /\ [Next]_vars => [Queue!Next]_(Queue!vars)
  BY QueueStep
<1> QED
  BY <1>1, <1>2, LossInvariance, PTL DEF Spec, ImplementsAtLeastOnce, Queue!Spec
=============================================================================
