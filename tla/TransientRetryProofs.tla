------------------------ MODULE TransientRetryProofs ------------------------
(***************************************************************************)
(* Proofs about the retry chain, for any set of consumers, events, notes   *)
(* and reasons, any retry budget and any number of faults.                 *)
(***************************************************************************)
EXTENDS TransientRetry, TLAPS

Row == [created : Nat, delivered : BOOLEAN, attempts : Nat]

IsTable(tbl) == tbl \in [DOMAIN tbl -> Row]

\* A payload has its three fields; its event id may be any event's or row's.
IsPayload(p) == p = [obs |-> p.obs, event_id |-> p.event_id, retries |-> p.retries]
-----------------------------------------------------------------------------
(* The statements and the payloads. *)

\* Write keeps every row and payload there is, and adds the new one pending.
LEMMA WriteFacts ==
    ASSUME IsTable(outbox), DOMAIN payload = DOMAIN outbox, NEW id, NEW body, Write(id, body)
    PROVE  /\ IsTable(outbox') /\ DOMAIN outbox' = DOMAIN outbox \cup {id}
           /\ DOMAIN payload' = DOMAIN outbox \cup {id}
           /\ \A i \in DOMAIN outbox : outbox'[i] = outbox[i] /\ payload'[i] = payload[i]
           /\ id \notin DOMAIN outbox => ~outbox'[id].delivered /\ payload'[id] = body
<1>1. NewRow(0) \in Row /\ ~NewRow(0).delivered
  BY DEF NewRow, Row
<1>2. /\ DOMAIN outbox' = DOMAIN outbox \cup {id}
      /\ outbox' = [i \in DOMAIN outbox \cup {id} |->
                      IF i \in DOMAIN outbox THEN outbox[i] ELSE NewRow(0)]
  BY DEF Write, write_outbox_event
<1>3. IsTable(outbox')
  BY <1>1, <1>2 DEF IsTable
<1> QED
  BY <1>1, <1>2, <1>3 DEF Write, Rows

\* ack_outbox delivers one row, and changes nothing else.
LEMMA AckFacts ==
    ASSUME NEW tbl, IsTable(tbl), NEW id \in DOMAIN tbl
    PROVE  LET new == ack_outbox(tbl, id)
           IN  /\ IsTable(new) /\ DOMAIN new = DOMAIN tbl
               /\ \A i \in DOMAIN tbl : i # id => new[i] = tbl[i]
               /\ new[id].delivered
  BY DEF ack_outbox, Pending, IsTable, Row

\* What an update of one field leaves of a payload.
LEMMA PayloadFacts ==
    ASSUME NEW p, IsPayload(p), NEW x
    PROVE  /\ [p EXCEPT !.retries = x] = [obs |-> p.obs, event_id |-> p.event_id, retries |-> x]
           /\ [p EXCEPT !.event_id = x] = [obs |-> p.obs, event_id |-> x, retries |-> p.retries]
<1> DEFINE a == p.obs
           b == p.event_id
           c == p.retries
<1>1. p = [obs |-> a, event_id |-> b, retries |-> c]
  BY DEF IsPayload
<1> HIDE DEF a, b, c
<1>2. /\ [p EXCEPT !.retries = x] = [obs |-> a, event_id |-> b, retries |-> x]
      /\ [p EXCEPT !.event_id = x] = [obs |-> a, event_id |-> x, retries |-> c]
  BY <1>1
<1> QED
  BY <1>2 DEF a, b, c
-----------------------------------------------------------------------------
(* Types and budgets. *)

\* A consumer in its handler holds the payload of its row, the event id aside.
HoldsRow ==
    \A c \in Consumer : pc[c] = "dispatch" =>
        /\ IsPayload(held[c])
        /\ held[c].obs = payload[msg[c]].obs /\ held[c].retries = payload[msg[c]].retries

\* A row that is the n-th retry was written by an n-th deferral.
RetriesPaid == \A id \in DOMAIN outbox : payload[id].retries <= tries[payload[id].obs]

TypeInv ==
    /\ TypeOK
    /\ IsTable(outbox)
    /\ \A id \in DOMAIN outbox : IsPayload(payload[id])
    /\ DOMAIN msg = Consumer /\ DOMAIN held = Consumer
    /\ HoldsRow

BudgetInv == TypeInv /\ RetriesPaid /\ ExhaustedAfterBudget

\* Nothing is in the table at first.
LEMMA BudgetInvInit == Init => BudgetInv
  BY RetryAssumption
  DEF Init, BudgetInv, TypeInv, TypeOK, IsTable, EmptyTable, Rows, HoldsRow, RetriesPaid,
      ExhaustedAfterBudget, Row

\* The table, the payloads and the consumers after a step.
LEMMA Assemble ==
    ASSUME BudgetInv,
           IsTable(outbox'), DOMAIN payload' = DOMAIN outbox', DOMAIN outbox \subseteq DOMAIN outbox',
           \A id \in DOMAIN outbox : payload'[id] = payload[id],
           tries' \in [Event -> Nat], \A e \in Event : tries'[e] >= tries[e],
           \A id \in DOMAIN outbox' \ DOMAIN outbox :
               /\ IsPayload(payload'[id]) /\ payload'[id].obs \in Event
               /\ payload'[id].retries \in 0 .. MaxTransientRetryAttempts
               /\ payload'[id].retries <= tries'[payload'[id].obs],
           pc' \in [Consumer -> {"idle", "dispatch", "ack"}],
           DOMAIN msg' = Consumer /\ DOMAIN held' = Consumer,
           \A c \in Consumer :
               \/ pc'[c] = "idle"
               \/ /\ pc[c] = pc'[c] \/ (pc[c] = "dispatch" /\ pc'[c] = "ack")
                  /\ msg'[c] = msg[c] /\ held'[c] = held[c]
               \/ /\ pc'[c] = "dispatch" /\ msg'[c] \in DOMAIN outbox /\ IsPayload(held'[c])
                  /\ held'[c].obs = payload[msg'[c]].obs
                  /\ held'[c].retries = payload[msg'[c]].retries,
           covered' \subseteq Event, faults' \in 0 .. MaxFaults,
           exhausted' \subseteq Event,
           \A e \in exhausted' : e \in exhausted \/ tries'[e] > MaxTransientRetryAttempts
    PROVE  BudgetInv'
  <1>0. /\ TypeOK /\ IsTable(outbox) /\ HoldsRow /\ RetriesPaid /\ ExhaustedAfterBudget
        /\ \A id \in DOMAIN outbox : IsPayload(payload[id])
        /\ \A id \in DOMAIN outbox : payload[id].obs \in Event
        /\ \A id \in DOMAIN outbox : payload[id].retries \in 0 .. MaxTransientRetryAttempts
        /\ \A c \in Consumer : pc[c] # "idle" => msg[c] \in DOMAIN outbox /\ held[c].obs \in Event
        /\ tries \in [Event -> Nat] /\ exhausted \subseteq Event
        /\ MaxTransientRetryAttempts \in Nat
    BY RetryAssumption DEF BudgetInv, TypeInv, TypeOK, Rows
  <1>1. \A id \in DOMAIN outbox' : /\ IsPayload(payload'[id]) /\ payload'[id].obs \in Event
                                   /\ payload'[id].retries \in 0 .. MaxTransientRetryAttempts
    BY <1>0
  <1>2. \A c \in Consumer : pc'[c] # "idle" => msg'[c] \in DOMAIN outbox' /\ held'[c].obs \in Event
    BY <1>0
  <1>3. HoldsRow'
    <2> SUFFICES ASSUME NEW c \in Consumer, pc'[c] = "dispatch"
                 PROVE  /\ IsPayload(held'[c])
                        /\ held'[c].obs = payload'[msg'[c]].obs
                        /\ held'[c].retries = payload'[msg'[c]].retries
      BY DEF HoldsRow, IsPayload
    <2>1. CASE pc[c] = "dispatch" /\ msg'[c] = msg[c] /\ held'[c] = held[c]
      BY <2>1, <1>0 DEF HoldsRow
    <2> QED
      BY <2>1
  <1>4. RetriesPaid'
    <2> SUFFICES ASSUME NEW id \in DOMAIN outbox'
                 PROVE  payload'[id].retries <= tries'[payload'[id].obs]
      BY DEF RetriesPaid
    <2>1. CASE id \in DOMAIN outbox
      <3> DEFINE e == payload[id].obs
                 n == payload[id].retries
      <3>1. /\ e \in Event /\ n \in Nat /\ n <= tries[e]
            /\ payload'[id].retries = n /\ payload'[id].obs = e
        BY <2>1, <1>0 DEF RetriesPaid
      <3> HIDE DEF e, n
      <3>2. tries[e] \in Nat /\ tries'[e] \in Nat /\ tries'[e] >= tries[e]
        BY <3>1, <1>0
      <3> QED
        BY <3>1, <3>2
    <2> QED
      BY <2>1
  <1>5. ExhaustedAfterBudget'
    <2> SUFFICES ASSUME NEW e \in exhausted'
                 PROVE  tries'[e] > MaxTransientRetryAttempts
      BY DEF ExhaustedAfterBudget
    <2>1. CASE e \in exhausted
      <3>1. e \in Event /\ tries[e] > MaxTransientRetryAttempts
        BY <2>1, <1>0 DEF ExhaustedAfterBudget
      <3>2. tries[e] \in Nat /\ tries'[e] \in Nat /\ tries'[e] >= tries[e]
        BY <3>1, <1>0
      <3> QED
        BY <3>1, <3>2, <1>0
    <2> QED
      BY <2>1
  <1>6. TypeOK'
    BY <1>1, <1>2 DEF TypeOK, Rows
  <1> QED
    BY <1>1, <1>3, <1>4, <1>5, <1>6 DEF BudgetInv, TypeInv, IsPayload

\* What the parts of BudgetInv say of one consumer in its handler.
LEMMA HeldFacts ==
    ASSUME BudgetInv, NEW c \in Consumer, pc[c] = "dispatch"
    PROVE  /\ msg[c] \in DOMAIN outbox /\ IsPayload(held[c])
           /\ held[c].obs \in Event /\ held[c].obs = payload[msg[c]].obs
           /\ held[c].retries = payload[msg[c]].retries
           /\ held[c].retries \in 0 .. MaxTransientRetryAttempts
           /\ held[c].retries <= tries[held[c].obs]
           /\ tries[held[c].obs] \in Nat
  BY DEF BudgetInv, TypeInv, TypeOK, Rows, HoldsRow, RetriesPaid

\* A dispatched payload is that of its row, with or without an event id.
LEMMA DispatchedPayload ==
    ASSUME NEW id, IsPayload(payload[id])
    PROVE  /\ IsPayload(run_payload(id)) /\ IsPayload(run_once_payload(id))
           /\ run_payload(id).obs = payload[id].obs /\ run_once_payload(id).obs = payload[id].obs
           /\ run_payload(id).retries = payload[id].retries
           /\ run_once_payload(id).retries = payload[id].retries
  <1> DEFINE p == payload[id]
             x == event_id_from_message(id)
  <1>1. [p EXCEPT !.event_id = x] = [obs |-> p.obs, event_id |-> x, retries |-> p.retries]
    BY PayloadFacts
  <1> HIDE DEF x
  <1>2. run_payload(id) \in {p, [p EXCEPT !.event_id = x]} /\ run_once_payload(id) = p
    BY DEF run_payload, run_once_payload, x
  <1> HIDE DEF p
  <1>3. IsPayload(p)
    BY DEF p
  <1>4. \A q \in {p, [p EXCEPT !.event_id = x]} : IsPayload(q) /\ q.obs = p.obs /\ q.retries = p.retries
    BY <1>1, <1>3 DEF IsPayload
  <1> QED
    BY <1>2, <1>4 DEF p

\* BudgetInv is inductive, for daemons and drains alike.
LEMMA BudgetInvStep ==
    ASSUME BudgetInv, [Next]_vars
    PROVE  BudgetInv'
<1>0. /\ IsTable(outbox) /\ DOMAIN payload = DOMAIN outbox
      /\ pc \in [Consumer -> {"idle", "dispatch", "ack"}]
      /\ DOMAIN msg = Consumer /\ DOMAIN held = Consumer
      /\ tries \in [Event -> Nat] /\ covered \subseteq Event /\ exhausted \subseteq Event
      /\ faults \in 0 .. MaxFaults
      /\ \A id \in DOMAIN outbox : IsPayload(payload[id])
  BY DEF BudgetInv, TypeInv, TypeOK, Rows
<1>n. MaxTransientRetryAttempts \in Nat /\ MaxFaults \in Nat
  BY RetryAssumption
<1>t. \A e \in Event : tries[e] \in Nat /\ tries[e] >= tries[e]
  BY <1>0
<1>tick. ASSUME NEW c \in Consumer, NextTick(c)
         PROVE  /\ pc' \in [Consumer -> {"idle", "dispatch", "ack"}]
                /\ DOMAIN msg' = Consumer /\ DOMAIN held' = Consumer
                /\ \A d \in Consumer : pc'[d] = "idle" \/ (pc'[d] = pc[d] /\ msg'[d] = msg[d] /\ held'[d] = held[d])
  BY <1>tick, <1>0 DEF NextTick
<1>ack. ASSUME NEW c \in Consumer, pc[c] = "dispatch", pc' = [pc EXCEPT ![c] = "ack"],
               UNCHANGED <<msg, held>>
        PROVE  /\ pc' \in [Consumer -> {"idle", "dispatch", "ack"}]
               /\ DOMAIN msg' = Consumer /\ DOMAIN held' = Consumer
               /\ \A d \in Consumer : /\ pc[d] = pc'[d] \/ (pc[d] = "dispatch" /\ pc'[d] = "ack")
                                      /\ msg'[d] = msg[d] /\ held'[d] = held[d]
  BY <1>ack, <1>0
<1>tries. ASSUME NEW e \in Event, tries' = [tries EXCEPT ![e] = @ + 1]
          PROVE  /\ tries' \in [Event -> Nat] /\ \A x \in Event : tries'[x] >= tries[x]
                 /\ tries'[e] = tries[e] + 1
  BY <1>tries, <1>0
<1>1. ASSUME NEW e \in Event, Observe(e)
      PROVE  BudgetInv'
  <2> DEFINE id == ObservedRow(e)
             body == [obs |-> e, event_id |-> NoId, retries |-> 0]
  <2>1. Write(id, body) /\ UNCHANGED <<pc, msg, held, covered, exhausted, tries, faults>>
    BY <1>1 DEF Observe
  <2>2. IsPayload(body) /\ body.obs = e /\ body.retries = 0
    BY DEF IsPayload
  <2> HIDE DEF id, body
  <2>3. /\ IsTable(outbox') /\ DOMAIN outbox' = DOMAIN outbox \cup {id}
        /\ DOMAIN payload' = DOMAIN outbox \cup {id}
        /\ \A i \in DOMAIN outbox : payload'[i] = payload[i]
        /\ id \notin DOMAIN outbox => payload'[id] = body
    BY <2>1, <1>0, WriteFacts
  <2>4. 0 \in 0 .. MaxTransientRetryAttempts /\ 0 <= tries'[e]
    BY <2>1, <1>n, <1>t
  <2>5. \A i \in DOMAIN outbox' \ DOMAIN outbox :
               /\ IsPayload(payload'[i]) /\ payload'[i].obs \in Event
               /\ payload'[i].retries \in 0 .. MaxTransientRetryAttempts
               /\ payload'[i].retries <= tries'[payload'[i].obs]
    BY <2>2, <2>3, <2>4
  <2> QED
    BY <2>1, <2>3, <2>5, <1>0, <1>t, Assemble
<1>2. ASSUME NEW c \in Consumer, Poll(c)
      PROVE  BudgetInv'
  <2>1. PICK id \in DOMAIN outbox :
            /\ msg' = [msg EXCEPT ![c] = id]
            /\ held' = [held EXCEPT ![c] = IF c \in Daemon THEN run_payload(id) ELSE run_once_payload(id)]
    BY <1>2 DEF Poll, poll_outbox_one
  <2>2. pc' = [pc EXCEPT ![c] = "dispatch"] /\ UNCHANGED <<outbox, payload, covered, exhausted, tries, faults>>
    BY <1>2 DEF Poll
  <2> DEFINE h == IF c \in Daemon THEN run_payload(id) ELSE run_once_payload(id)
  <2>3. IsPayload(h) /\ h.obs = payload[id].obs /\ h.retries = payload[id].retries
    BY <1>0, DispatchedPayload
  <2>4. held' = [held EXCEPT ![c] = h]
    BY <2>1
  <2> HIDE DEF h
  <2>5. /\ pc' \in [Consumer -> {"idle", "dispatch", "ack"}]
        /\ DOMAIN msg' = Consumer /\ DOMAIN held' = Consumer
        /\ pc'[c] = "dispatch" /\ msg'[c] = id /\ held'[c] = h
        /\ \A d \in Consumer \ {c} : pc'[d] = pc[d] /\ msg'[d] = msg[d] /\ held'[d] = held[d]
    BY <2>1, <2>2, <2>4, <1>0
  <2>6. \A d \in Consumer :
               \/ pc'[d] = "idle"
               \/ /\ pc[d] = pc'[d] \/ (pc[d] = "dispatch" /\ pc'[d] = "ack")
                  /\ msg'[d] = msg[d] /\ held'[d] = held[d]
               \/ /\ pc'[d] = "dispatch" /\ msg'[d] \in DOMAIN outbox /\ IsPayload(held'[d])
                  /\ held'[d].obs = payload[msg'[d]].obs
                  /\ held'[d].retries = payload[msg'[d]].retries
    BY <2>3, <2>5
  <2> QED
    BY <2>2, <2>5, <2>6, <1>0, <1>t, Assemble
<1>3. ASSUME NEW c \in Consumer, Handle(c)
      PROVE  BudgetInv'
  <2>1. /\ pc[c] = "dispatch" /\ pc' = [pc EXCEPT ![c] = "ack"]
        /\ UNCHANGED <<outbox, payload, msg, held, exhausted, tries, faults>>
        /\ covered' \subseteq Event
    BY <1>3, <1>0 DEF Handle, Observed
  <2> QED
    BY <2>1, <1>0, <1>t, <1>ack, Assemble
<1>4. ASSUME NEW c \in Consumer, QueueTransientRetry(c)
      PROVE  BudgetInv'
  <2>1. PICK reason \in Reason :
            Write(RetryRow(retry_source_id(held[c]), held[c].retries + 1, reason),
                  [held[c] EXCEPT !.retries = @ + 1])
    BY <1>4 DEF QueueTransientRetry
  <2>2. /\ pc[c] = "dispatch" /\ ~retry_exhausted(held[c]) /\ pc' = [pc EXCEPT ![c] = "ack"]
        /\ tries' = [tries EXCEPT ![held[c].obs] = @ + 1]
        /\ UNCHANGED <<msg, held, covered, exhausted, faults>>
    BY <1>4 DEF QueueTransientRetry
  <2> DEFINE e == held[c].obs
             n == held[c].retries
             id == RetryRow(retry_source_id(held[c]), n + 1, reason)
             body == [held[c] EXCEPT !.retries = n + 1]
  <2>3. /\ IsPayload(held[c]) /\ e \in Event /\ n \in 0 .. MaxTransientRetryAttempts
        /\ n <= tries[e] /\ tries[e] \in Nat
    BY <2>2, HeldFacts
  <2>4. IsPayload(body) /\ body.obs = e /\ body.retries = n + 1
    <3> DEFINE x == n + 1
    <3> HIDE DEF x
    <3>1. [held[c] EXCEPT !.retries = x] = [obs |-> e, event_id |-> held[c].event_id, retries |-> x]
      BY <2>3, PayloadFacts
    <3>2. body = [obs |-> e, event_id |-> held[c].event_id, retries |-> n + 1]
      BY <3>1 DEF x
    <3> HIDE DEF body, e, n
    <3> QED
      BY <3>2 DEF IsPayload
  <2>5. Write(id, body) /\ tries' = [tries EXCEPT ![e] = @ + 1]
    BY <2>1, <2>2
  <2>6. n < MaxTransientRetryAttempts
    BY <2>2, <2>3, <1>n DEF retry_exhausted
  <2> HIDE DEF id, body, e, n
  <2>7. /\ IsTable(outbox') /\ DOMAIN outbox' = DOMAIN outbox \cup {id}
        /\ DOMAIN payload' = DOMAIN outbox \cup {id}
        /\ \A i \in DOMAIN outbox : payload'[i] = payload[i]
        /\ id \notin DOMAIN outbox => payload'[id] = body
    BY <2>5, <1>0, WriteFacts
  <2>8. /\ tries' \in [Event -> Nat] /\ \A x \in Event : tries'[x] >= tries[x]
        /\ tries'[e] = tries[e] + 1
    BY <2>3, <2>5, <1>tries
  <2>9. n + 1 \in 0 .. MaxTransientRetryAttempts /\ n + 1 <= tries'[e]
    BY <2>3, <2>6, <2>8, <1>n
  <2>10. \A i \in DOMAIN outbox' \ DOMAIN outbox :
               /\ IsPayload(payload'[i]) /\ payload'[i].obs \in Event
               /\ payload'[i].retries \in 0 .. MaxTransientRetryAttempts
               /\ payload'[i].retries <= tries'[payload'[i].obs]
    BY <2>3, <2>4, <2>7, <2>9
  <2> QED
    BY <2>2, <2>7, <2>8, <2>10, <1>0, <1>ack, Assemble
<1>5. ASSUME NEW c \in Consumer, RetryExhausted(c)
      PROVE  BudgetInv'
  <2> DEFINE e == held[c].obs
             n == held[c].retries
  <2>1. /\ pc[c] = "dispatch" /\ pc' = [pc EXCEPT ![c] = "ack"]
        /\ n >= MaxTransientRetryAttempts
        /\ exhausted' = exhausted \cup {e} /\ tries' = [tries EXCEPT ![e] = @ + 1]
        /\ UNCHANGED <<outbox, payload, msg, held, covered, faults>>
    BY <1>5 DEF RetryExhausted, retry_exhausted
  <2>2. e \in Event /\ n \in 0 .. MaxTransientRetryAttempts /\ n <= tries[e] /\ tries[e] \in Nat
    BY <2>1, HeldFacts
  <2> HIDE DEF e, n
  <2>3. /\ tries' \in [Event -> Nat] /\ \A x \in Event : tries'[x] >= tries[x]
        /\ tries'[e] = tries[e] + 1
    BY <2>1, <2>2, <1>tries
  <2>4. tries'[e] > MaxTransientRetryAttempts
    BY <2>1, <2>2, <2>3, <1>n
  <2>5. exhausted' \subseteq Event
    BY <2>1, <2>2, <1>0
  <2> QED
    BY <2>1, <2>3, <2>4, <2>5, <1>0, <1>ack, Assemble
<1>6. ASSUME NEW c \in Consumer, Ack(c)
      PROVE  BudgetInv'
  <2>1. /\ pc[c] = "ack" /\ outbox' = ack_outbox(outbox, msg[c])
        /\ NextTick(c) /\ UNCHANGED <<payload, covered, exhausted, tries, faults>>
    BY <1>6 DEF Ack
  <2>2. msg[c] \in DOMAIN outbox
    BY <2>1 DEF BudgetInv, TypeInv, TypeOK, Rows
  <2>3. IsTable(outbox') /\ DOMAIN outbox' = DOMAIN outbox
    BY <2>1, <2>2, <1>0, AckFacts
  <2> QED
    BY <2>1, <2>3, <1>0, <1>t, <1>tick, Assemble
<1>7. ASSUME NEW c \in Consumer, Crash(c)
      PROVE  BudgetInv'
  <2>1. NextTick(c) /\ UNCHANGED <<outbox, payload, covered, exhausted, tries>>
    BY <1>7 DEF Crash
  <2>2. faults' \in 0 .. MaxFaults
    BY <1>7, <1>0, <1>n DEF Crash, Fault
  <2> QED
    BY <2>1, <2>2, <1>0, <1>t, <1>tick, Assemble
<1>8. CASE UNCHANGED vars
  BY <1>8 DEF vars, BudgetInv, TypeInv, TypeOK, HoldsRow, RetriesPaid, ExhaustedAfterBudget,
              IsTable, IsPayload, Rows
<1> QED
  BY <1>1, <1>2, <1>3, <1>4, <1>5, <1>6, <1>7, <1>8 DEF Next, Tick

\* BudgetInv in every reachable state.
LEMMA BudgetInvariance == Spec => []BudgetInv
  BY BudgetInvInit, BudgetInvStep, PTL DEF Spec

\* Every reachable state is well typed: each row has its payload, no payload
\* has more retries than the budget, and a consumer in its tick holds a row.
THEOREM RetryTypeCorrect == Spec => []TypeOK
<1>1. BudgetInv => TypeOK
  BY DEF BudgetInv, TypeInv
<1> QED
  BY <1>1, BudgetInvariance, PTL

\* No chain is dead-lettered before its observation was deferred once for the
\* original row and once for each retry it is owed, with daemons and drains on
\* the same rows and whatever was redelivered.
THEOREM BudgetIsPaid == Spec => []ExhaustedAfterBudget
<1>1. BudgetInv => ExhaustedAfterBudget
  BY DEF BudgetInv
<1> QED
  BY <1>1, BudgetInvariance, PTL
-----------------------------------------------------------------------------
(* Daemons alone lose no observation.  A row may be acked because its retry  *)
(* was queued, the retry may have been there already, and may itself be      *)
(* acked: what is kept is that some LATER row of the chain is pending.       *)

Concluded(e) == e \in covered \cup exhausted

\* The key of a row names the observation and the attempt of its payload.
KeyedByEvent ==
    \A id \in DOMAIN outbox :
        /\ id[2] = payload[id].obs /\ id[3][1] = payload[id].retries
        /\ payload[id].event_id = IF payload[id].retries = 0 THEN NoId ELSE payload[id].obs
        /\ ObservedRow(payload[id].obs) \in DOMAIN outbox

\* run() has put the original event id into every payload it dispatches.
Injected == \A c \in Consumer : pc[c] = "dispatch" => held[c].event_id = held[c].obs

\* id is a later row of the chain of row.
Later(id, row) ==
    payload[id].obs = payload[row].obs /\ payload[id].retries > payload[row].retries

DoneSound ==
    \A row \in DOMAIN outbox : outbox[row].delivered =>
        \/ Concluded(payload[row].obs)
        \/ \E id \in DOMAIN outbox : ~outbox[id].delivered /\ Later(id, row)

\* Who may ack has concluded its observation, or there is a later row.
AckSound ==
    \A c \in Consumer : pc[c] = "ack" =>
        Concluded(payload[msg[c]].obs) \/ \E id \in DOMAIN outbox : Later(id, msg[c])

ChainInv == BudgetInv /\ KeyedByEvent /\ Injected /\ DoneSound /\ AckSound

\* There is no row at first.
LEMMA ChainInvInit == Init => ChainInv
  BY BudgetInvInit
  DEF Init, ChainInv, KeyedByEvent, Injected, DoneSound, AckSound, EmptyTable

\* A write adds a pending row under the key of its payload, or nothing.
LEMMA WriteKeepsChain ==
    ASSUME ChainInv, NEW id, NEW body, Write(id, body),
           id[2] = body.obs, id[3][1] = body.retries,
           body.event_id = IF body.retries = 0 THEN NoId ELSE body.obs,
           ObservedRow(body.obs) \in DOMAIN outbox \cup {id},
           covered \subseteq covered', exhausted \subseteq exhausted'
    PROVE  /\ KeyedByEvent' /\ DoneSound'
           /\ id \in DOMAIN outbox' /\ payload'[id].obs = body.obs /\ payload'[id].retries = body.retries
           /\ \A i \in DOMAIN outbox : i \in DOMAIN outbox' /\ payload'[i] = payload[i]
<1>0. IsTable(outbox) /\ DOMAIN payload = DOMAIN outbox /\ KeyedByEvent /\ DoneSound
  BY DEF ChainInv, BudgetInv, TypeInv, TypeOK, Rows
<1>1. /\ DOMAIN outbox' = DOMAIN outbox \cup {id}
      /\ \A i \in DOMAIN outbox : outbox'[i] = outbox[i] /\ payload'[i] = payload[i]
      /\ id \notin DOMAIN outbox => ~outbox'[id].delivered /\ payload'[id] = body
  BY <1>0, WriteFacts
<1>2. KeyedByEvent'
  BY <1>0, <1>1 DEF KeyedByEvent
<1>3. DoneSound'
  <2> SUFFICES ASSUME NEW row \in DOMAIN outbox', outbox'[row].delivered
               PROVE  \/ payload'[row].obs \in covered' \cup exhausted'
                      \/ \E i \in DOMAIN outbox' :
                            /\ ~outbox'[i].delivered
                            /\ payload'[i].obs = payload'[row].obs /\ payload'[i].retries > payload'[row].retries
    BY DEF DoneSound, Concluded, Later
  <2>1. row \in DOMAIN outbox /\ outbox[row].delivered
    BY <1>1
  <2>2. CASE Concluded(payload[row].obs)
    BY <2>1, <2>2, <1>1 DEF Concluded
  <2>3. CASE \E i \in DOMAIN outbox : ~outbox[i].delivered /\ Later(i, row)
    BY <2>1, <2>3, <1>1 DEF Later
  <2> QED
    BY <2>1, <2>2, <2>3, <1>0 DEF DoneSound
<1>4. payload'[id].obs = body.obs /\ payload'[id].retries = body.retries
  BY <1>0, <1>1 DEF KeyedByEvent
<1> QED
  BY <1>1, <1>2, <1>3, <1>4

\* The other rows and consumers: what is done and what may be acked stays so
\* when rows and payloads stay and conclusions are only added.
LEMMA ChainFrame ==
    ASSUME ChainInv, UNCHANGED <<outbox, payload>>,
           covered \subseteq covered', exhausted \subseteq exhausted'
    PROVE  KeyedByEvent' /\ DoneSound'
  BY DEF ChainInv, KeyedByEvent, DoneSound, Concluded, Later

\* AckSound after a step that moves at most the consumer c.
LEMMA AckFrame ==
    ASSUME ChainInv, NEW c \in Consumer,
           covered \subseteq covered', exhausted \subseteq exhausted',
           \A i \in DOMAIN outbox : i \in DOMAIN outbox' /\ payload'[i] = payload[i],
           \A d \in Consumer \ {c} : pc'[d] = pc[d] /\ msg'[d] = msg[d],
           pc'[c] = "ack" =>
              /\ msg'[c] = msg[c] /\ msg[c] \in DOMAIN outbox
              /\ \/ payload[msg[c]].obs \in covered' \cup exhausted'
                 \/ \E i \in DOMAIN outbox' : /\ payload'[i].obs = payload[msg[c]].obs
                                              /\ payload'[i].retries > payload[msg[c]].retries
    PROVE  AckSound'
<1> SUFFICES ASSUME NEW d \in Consumer, pc'[d] = "ack"
             PROVE  \/ payload'[msg'[d]].obs \in covered' \cup exhausted'
                    \/ \E i \in DOMAIN outbox' : /\ payload'[i].obs = payload'[msg'[d]].obs
                                                 /\ payload'[i].retries > payload'[msg'[d]].retries
  BY DEF AckSound, Concluded, Later
<1>1. CASE d = c
  BY <1>1
<1>2. CASE d # c
  <2>1. pc[d] = "ack" /\ msg'[d] = msg[d] /\ msg[d] \in DOMAIN outbox
    BY <1>2 DEF ChainInv, BudgetInv, TypeInv, TypeOK, Rows
  <2>2. payload'[msg'[d]] = payload[msg[d]]
    BY <2>1
  <2>3. CASE Concluded(payload[msg[d]].obs)
    BY <2>2, <2>3 DEF Concluded
  <2>4. CASE \E i \in DOMAIN outbox : Later(i, msg[d])
    BY <2>2, <2>4 DEF Later
  <2> QED
    BY <2>1, <2>3, <2>4 DEF ChainInv, AckSound
<1> QED
  BY <1>1, <1>2

\* An ack: whoever relied on the acked row relies on what it was acked for.
LEMMA AckKeepsChain ==
    ASSUME ChainInv, NEW c \in Consumer, Ack(c)
    PROVE  KeyedByEvent' /\ DoneSound' /\ AckSound'
<1> DEFINE m == msg[c]
<1>0. /\ IsTable(outbox) /\ KeyedByEvent /\ DoneSound /\ AckSound
      /\ m \in DOMAIN outbox /\ pc[c] = "ack"
      /\ pc \in [Consumer -> {"idle", "dispatch", "ack"}] /\ DOMAIN msg = Consumer
      /\ \A i \in DOMAIN outbox : payload[i].retries \in Nat
  BY RetryAssumption DEF ChainInv, BudgetInv, TypeInv, TypeOK, Rows, Ack
<1>1. /\ outbox' = ack_outbox(outbox, m) /\ UNCHANGED <<payload, covered, exhausted>>
      /\ pc' = [pc EXCEPT ![c] = "idle"] /\ msg' = [msg EXCEPT ![c] = NoRow]
  BY DEF Ack, NextTick
<1>k. Concluded(payload[m].obs) \/ \E i \in DOMAIN outbox : Later(i, m)
  BY <1>0 DEF AckSound
<1>ack. AckSound'
  <2>1. \A d \in Consumer \ {c} : pc'[d] = pc[d] /\ msg'[d] = msg[d]
    BY <1>0, <1>1
  <2>2. pc'[c] # "ack"
    BY <1>0, <1>1
  <2>3. DOMAIN outbox' = DOMAIN outbox
    BY <1>0, <1>1, AckFacts
  <2> QED
    BY <2>1, <2>2, <2>3, <1>1, AckFrame
<1> HIDE DEF m
<1>2. /\ DOMAIN outbox' = DOMAIN outbox /\ outbox'[m].delivered
      /\ \A i \in DOMAIN outbox : i # m => outbox'[i] = outbox[i]
  BY <1>0, <1>1, AckFacts
<1>3. KeyedByEvent'
  BY <1>0, <1>1, <1>2 DEF KeyedByEvent
\* A pending row later than m, if m's observation is not concluded.
<1>4. \/ Concluded(payload[m].obs)
      \/ \E i \in DOMAIN outbox : ~outbox[i].delivered /\ Later(i, m)
  <2>1. CASE \E i \in DOMAIN outbox : Later(i, m)
    <3>1. PICK i \in DOMAIN outbox : Later(i, m)
      BY <2>1
    <3>2. CASE ~outbox[i].delivered
      BY <3>1, <3>2
    <3>3. CASE outbox[i].delivered /\ Concluded(payload[i].obs)
      BY <3>1, <3>3 DEF Later
    <3>4. CASE \E j \in DOMAIN outbox : ~outbox[j].delivered /\ Later(j, i)
      <4>1. PICK j \in DOMAIN outbox : ~outbox[j].delivered /\ Later(j, i)
        BY <3>4
      <4>2. Later(j, m)
        BY <3>1, <4>1, <1>0 DEF Later
      <4> QED
        BY <4>1, <4>2
    <3> QED
      BY <3>1, <3>2, <3>3, <3>4, <1>0 DEF DoneSound
  <2> QED
    BY <2>1, <1>k
<1>5. DoneSound'
  <2> SUFFICES ASSUME NEW row \in DOMAIN outbox, outbox'[row].delivered, ~Concluded(payload[row].obs)
               PROVE  \E i \in DOMAIN outbox : ~outbox'[i].delivered /\ Later(i, row)
    BY <1>1, <1>2 DEF DoneSound, Concluded, Later
  <2>1. ASSUME payload[row].obs = payload[m].obs, payload[m].retries >= payload[row].retries
        PROVE  \E i \in DOMAIN outbox : ~outbox'[i].delivered /\ Later(i, row)
    <3>1. PICK i \in DOMAIN outbox : ~outbox[i].delivered /\ Later(i, m)
      BY <2>1, <1>4
    <3>2. i # m
      BY <3>1, <1>0 DEF Later
    <3>3. Later(i, row)
      BY <3>1, <2>1, <1>0 DEF Later
    <3> QED
      BY <3>1, <3>2, <3>3, <1>2
  <2>2. CASE row = m
    BY <2>1, <2>2, <1>0
  <2>3. CASE row # m
    <3>1. PICK i \in DOMAIN outbox : ~outbox[i].delivered /\ Later(i, row)
      BY <2>3, <1>0, <1>2 DEF DoneSound
    <3>2. CASE i # m
      BY <3>1, <3>2, <1>2
    <3>3. CASE i = m
      BY <3>1, <3>3, <2>1, <1>0 DEF Later
    <3> QED
      BY <3>2, <3>3
  <2> QED
    BY <2>2, <2>3
<1> QED
  BY <1>3, <1>5, <1>ack

\* ChainInv is inductive when every consumer is a daemon.
LEMMA ChainInvStep ==
    ASSUME Drain = {}, ChainInv, [Next]_vars
    PROVE  ChainInv'
<1>b. BudgetInv /\ BudgetInv'
  BY BudgetInvStep DEF ChainInv
<1>0. /\ IsTable(outbox) /\ DOMAIN payload = DOMAIN outbox
      /\ pc \in [Consumer -> {"idle", "dispatch", "ack"}]
      /\ DOMAIN msg = Consumer /\ DOMAIN held = Consumer
      /\ \A id \in DOMAIN outbox : IsPayload(payload[id]) /\ payload[id].obs \in Event
      /\ \A id \in DOMAIN outbox : payload[id].retries \in Nat
      /\ KeyedByEvent /\ Injected /\ DoneSound /\ AckSound
  BY <1>b, RetryAssumption DEF ChainInv, BudgetInv, TypeInv, TypeOK, Rows
<1>d. \A c \in Consumer : c \in Daemon
  BY DEF Consumer
<1>i. ASSUME NEW c \in Consumer, NEW to, pc' = [pc EXCEPT ![c] = to], to # "dispatch",
             \A d \in Consumer \ {c} : held'[d] = held[d]
      PROVE  Injected'
  BY <1>i, <1>0 DEF Injected
<1>1. ASSUME NEW e \in Event, Observe(e)
      PROVE  KeyedByEvent' /\ Injected' /\ DoneSound' /\ AckSound'
  <2> DEFINE id == ObservedRow(e)
             body == [obs |-> e, event_id |-> NoId, retries |-> 0]
  <2>1. Write(id, body) /\ UNCHANGED <<pc, msg, held, covered, exhausted>>
    BY <1>1 DEF Observe
  <2>2. /\ id[2] = body.obs /\ id[3][1] = body.retries
        /\ body.event_id = IF body.retries = 0 THEN NoId ELSE body.obs
        /\ ObservedRow(body.obs) \in DOMAIN outbox \cup {id}
    BY DEF ObservedRow, derive_idempotency_key
  <2> HIDE DEF id, body
  <2>3. /\ KeyedByEvent' /\ DoneSound'
        /\ \A i \in DOMAIN outbox : i \in DOMAIN outbox' /\ payload'[i] = payload[i]
    BY <2>1, <2>2, WriteKeepsChain
  <2>4. Injected'
    BY <2>1, <1>0 DEF Injected
  <2>5. AckSound'
    <3>1. \A c \in Consumer : pc[c] = "ack" => msg[c] \in DOMAIN outbox
      BY <1>b DEF BudgetInv, TypeInv, TypeOK, Rows
    <3> QED
      BY <3>1, <2>1, <2>3, <1>0 DEF AckSound, Concluded, Later
  <2> QED
    BY <2>3, <2>4, <2>5
<1>2. ASSUME NEW c \in Consumer, Poll(c)
      PROVE  KeyedByEvent' /\ Injected' /\ DoneSound' /\ AckSound'
  <2>1. PICK id \in DOMAIN outbox :
            msg' = [msg EXCEPT ![c] = id] /\ held' = [held EXCEPT ![c] = run_payload(id)]
    BY <1>2, <1>d DEF Poll, poll_outbox_one
  <2>2. pc' = [pc EXCEPT ![c] = "dispatch"] /\ UNCHANGED <<outbox, payload, covered, exhausted>>
    BY <1>2 DEF Poll
  <2>3. KeyedByEvent' /\ DoneSound'
    BY <2>2, ChainFrame
  <2>4. run_payload(id).event_id = run_payload(id).obs
    <3> DEFINE p == payload[id]
               x == event_id_from_message(id)
    <3>1. /\ IsPayload(p) /\ p.obs \in Event /\ NoId \notin Event /\ p.retries \in Nat
          /\ p.event_id = IF p.retries = 0 THEN NoId ELSE p.obs
          /\ id[2] = p.obs /\ id[3][1] = p.retries
      BY <1>0, NoIdAssumption DEF KeyedByEvent
    <3>2. [p EXCEPT !.event_id = x] = [obs |-> p.obs, event_id |-> x, retries |-> p.retries]
      BY <3>1, PayloadFacts
    <3>3. CASE p.retries = 0
      <4>1. x = p.obs
        BY <3>1, <3>3 DEF event_id_from_message
      <4>2. run_payload(id) = [obs |-> p.obs, event_id |-> p.obs, retries |-> p.retries]
        BY <3>1, <3>2, <3>3, <4>1 DEF run_payload
      <4> QED
        BY <4>2
    <3>4. CASE p.retries # 0
      <4>1. run_payload(id) = p
        BY <3>1, <3>4 DEF run_payload
      <4> QED
        BY <3>1, <3>4, <4>1
    <3> QED
      BY <3>3, <3>4
  <2>5. Injected'
    <3> DEFINE h == run_payload(id)
    <3>1. h.event_id = h.obs /\ held' = [held EXCEPT ![c] = h]
      BY <2>1, <2>4
    <3> HIDE DEF h
    <3> QED
      BY <3>1, <2>2, <1>0 DEF Injected
  <2>6. AckSound'
    <3>1. \A d \in Consumer \ {c} : pc'[d] = pc[d] /\ msg'[d] = msg[d]
      BY <2>1, <2>2, <1>0
    <3>2. pc'[c] # "ack"
      BY <2>2, <1>0
    <3> QED
      BY <2>2, <3>1, <3>2, AckFrame
  <2> QED
    BY <2>3, <2>5, <2>6
<1>3. ASSUME NEW c \in Consumer, Handle(c) \/ RetryExhausted(c)
      PROVE  KeyedByEvent' /\ Injected' /\ DoneSound' /\ AckSound'
  <2>1. /\ pc[c] = "dispatch" /\ pc' = [pc EXCEPT ![c] = "ack"]
        /\ UNCHANGED <<outbox, payload, msg, held>>
        /\ covered \subseteq covered' /\ exhausted \subseteq exhausted'
    BY <1>3 DEF Handle, RetryExhausted
  <2>2. msg[c] \in DOMAIN outbox /\ held[c].obs = payload[msg[c]].obs /\ held[c].obs \in Event
    BY <2>1, <1>b, HeldFacts
  <2>3. payload[msg[c]].obs \in covered' \cup exhausted'
    <3>1. CASE RetryExhausted(c)
      BY <3>1, <2>2 DEF RetryExhausted
    <3>2. CASE Handle(c)
      <4>1. held[c].obs \in Observed
        BY <2>2, <1>0 DEF Observed, KeyedByEvent, Rows
      <4> QED
        BY <3>2, <4>1, <2>2 DEF Handle
    <3> QED
      BY <3>1, <3>2, <1>3
  <2>4. \A d \in Consumer \ {c} : pc'[d] = pc[d] /\ msg'[d] = msg[d]
    BY <2>1, <1>0
  <2>5. AckSound'
    BY <2>1, <2>2, <2>3, <2>4, AckFrame
  <2> QED
    BY <2>1, <2>5, <1>i, ChainFrame
<1>4. ASSUME NEW c \in Consumer, QueueTransientRetry(c)
      PROVE  KeyedByEvent' /\ Injected' /\ DoneSound' /\ AckSound'
  <2> DEFINE e == held[c].obs
             n == held[c].retries
             body == [held[c] EXCEPT !.retries = n + 1]
  <2>1. /\ pc[c] = "dispatch" /\ pc' = [pc EXCEPT ![c] = "ack"]
        /\ UNCHANGED <<msg, held, covered, exhausted>>
    BY <1>4 DEF QueueTransientRetry
  <2>2. /\ msg[c] \in DOMAIN outbox /\ IsPayload(held[c]) /\ e \in Event
        /\ e = payload[msg[c]].obs /\ n = payload[msg[c]].retries /\ n \in Nat
        /\ held[c].event_id = e /\ e # NoId
    BY <2>1, <1>b, <1>0, HeldFacts, NoIdAssumption DEF Injected
  <2>3. retry_source_id(held[c]) = e
    BY <2>2 DEF retry_source_id
  <2>4. PICK reason \in Reason : Write(RetryRow(e, n + 1, reason), body)
    BY <1>4, <2>3 DEF QueueTransientRetry
  <2> DEFINE id == RetryRow(e, n + 1, reason)
  <2>5. body = [obs |-> e, event_id |-> e, retries |-> n + 1]
    <3> DEFINE x == n + 1
    <3> HIDE DEF x
    <3>1. [held[c] EXCEPT !.retries = x] = [obs |-> e, event_id |-> held[c].event_id, retries |-> x]
      BY <2>2, PayloadFacts
    <3> QED
      BY <3>1, <2>2 DEF x
  <2>6. id[2] = e /\ id[3][1] = n + 1
    BY DEF RetryRow, derive_idempotency_key
  <2>7. Write(id, body)
    BY <2>4
  <2>8. ObservedRow(e) \in DOMAIN outbox
    BY <2>2, <1>0 DEF KeyedByEvent
  <2> HIDE DEF id, body, e, n
  <2>9. /\ body.obs = e /\ body.retries = n + 1 /\ n + 1 # 0 /\ body.event_id = e
    BY <2>2, <2>5
  <2>10. /\ KeyedByEvent' /\ DoneSound'
         /\ id \in DOMAIN outbox' /\ payload'[id].obs = e /\ payload'[id].retries = n + 1
         /\ \A i \in DOMAIN outbox : i \in DOMAIN outbox' /\ payload'[i] = payload[i]
    BY <2>1, <2>6, <2>7, <2>8, <2>9, WriteKeepsChain
  <2>11. \A d \in Consumer \ {c} : pc'[d] = pc[d] /\ msg'[d] = msg[d]
    BY <2>1, <1>0
  <2>12. AckSound'
    <3>1. /\ payload'[id].obs = payload[msg[c]].obs
          /\ payload'[id].retries > payload[msg[c]].retries
      BY <2>2, <2>10
    <3> QED
      BY <2>1, <2>2, <2>10, <2>11, <3>1, AckFrame
  <2> QED
    BY <2>1, <2>10, <2>12, <1>i
<1>5. ASSUME NEW c \in Consumer, Ack(c)
      PROVE  KeyedByEvent' /\ Injected' /\ DoneSound' /\ AckSound'
  <2>1. pc' = [pc EXCEPT ![c] = "idle"] /\ \A d \in Consumer \ {c} : held'[d] = held[d]
    BY <1>5, <1>0 DEF Ack, NextTick
  <2> QED
    BY <2>1, <1>5, <1>i, AckKeepsChain
<1>6. ASSUME NEW c \in Consumer, Crash(c)
      PROVE  KeyedByEvent' /\ Injected' /\ DoneSound' /\ AckSound'
  <2>1. /\ pc' = [pc EXCEPT ![c] = "idle"] /\ \A d \in Consumer \ {c} : held'[d] = held[d]
        /\ UNCHANGED <<outbox, payload, covered, exhausted>>
    BY <1>6, <1>0 DEF Crash, NextTick
  <2>2. \A d \in Consumer \ {c} : pc'[d] = pc[d] /\ msg'[d] = msg[d]
    BY <1>6, <1>0 DEF Crash, NextTick
  <2>3. pc'[c] # "ack"
    BY <2>1, <1>0
  <2>4. AckSound'
    BY <2>1, <2>2, <2>3, AckFrame
  <2> QED
    BY <2>1, <2>4, <1>i, ChainFrame
<1>7. ASSUME UNCHANGED vars
      PROVE  KeyedByEvent' /\ Injected' /\ DoneSound' /\ AckSound'
  BY <1>7, <1>0 DEF vars, KeyedByEvent, Injected, DoneSound, AckSound, Concluded, Later
<1>8. KeyedByEvent' /\ Injected' /\ DoneSound' /\ AckSound'
  BY <1>1, <1>2, <1>3, <1>4, <1>5, <1>6, <1>7 DEF Next, Tick
<1> QED
  BY <1>8, <1>b DEF ChainInv

\* Among any number of daemons no observation is lost: when its row is acked a
\* handler ran for its note afterwards, its chain was dead-lettered, or a retry
\* of it is pending, although a retry may be swallowed as a duplicate.  (With a
\* drain this is false: its retries are keyed by the note.)
THEOREM DaemonsLoseNothing ==
    ASSUME Drain = {}
    PROVE  Spec => []NoObservationLost
<1>1. ChainInv /\ [Next]_vars => ChainInv'
  BY ChainInvStep
<1>2. ChainInv => NoObservationLost
  <2> SUFFICES ASSUME ChainInv, NEW e \in Event, Delivered(outbox, ObservedRow(e))
               PROVE  \/ e \in covered \cup exhausted
                      \/ \E id \in Rows(outbox) :
                            Pending(outbox, id) /\ NoteOf[payload[id].obs] = NoteOf[e]
    BY DEF NoObservationLost
  <2> DEFINE row == ObservedRow(e)
  <2>1. row[2] = e
    BY DEF ObservedRow, derive_idempotency_key
  <2>2. row \in DOMAIN outbox /\ outbox[row].delivered
    BY DEF Delivered
  <2> HIDE DEF row
  <2>3. payload[row].obs = e
    BY <2>1, <2>2 DEF ChainInv, KeyedByEvent
  <2> QED
    BY <2>2, <2>3 DEF ChainInv, DoneSound, Concluded, Later, Pending, Rows
<1> QED
  BY <1>1, <1>2, ChainInvInit, PTL DEF Spec
=============================================================================
