---------------------- MODULE BindingEffectLeaseProofs ----------------------
(***************************************************************************)
(* Proofs about the effect lease of a binding, for any set of processes    *)
(* and holder ids and any number of crashes and failing commits.           *)
(***************************************************************************)
EXTENDS BindingEffectLease, WellFoundedInduction, TLAPS

Steps == {"idle", "enqueue", "poll", "observe", "held", "release", "discard", "closing", "ungate"}

Stages == {"none", "recover", "load", "body", "journal", "file", "registry", "unlink", "tidy"}

SectionState == [stage : Stages, prev : LeaseState, next : LeaseState,
                 then : {"none", "load", "body", "poll", "observe", "closing", "raise"}]

TypeInv == TypeOK /\ pc \in [Proc -> Steps] /\ cs \in SectionState
-----------------------------------------------------------------------------
(* The commit: where the three copies of the lease state are. *)

\* A commit has been decided on and the registry does not have it yet.
Writing == cs.stage \in {"journal", "file", "registry"}

\* The registry has it.
Written == cs.stage \in {"unlink", "tidy"}

CopiesInv ==
    /\ cs.stage = "none" => IF journal # None THEN reg \in {journal.prev, journal.next}
                            ELSE file \in {None, reg}
    /\ cs.stage \in {"recover", "unlink"} => journal # None /\ reg \in {journal.prev, journal.next}
    /\ cs.stage \in {"load", "body", "journal"} => journal = None /\ file \in {None, reg}
    /\ Writing => cs.prev = reg
    /\ cs.stage \in {"file", "registry"} => journal = [prev |-> cs.prev, next |-> cs.next]
    /\ cs.stage = "registry" => file = cs.next
    /\ cs.stage = "unlink" => file = reg
    /\ cs.stage = "tidy" => journal = None /\ file = reg

ValidInv ==
    /\ Valid(reg) /\ Valid(cs.next)
    /\ file # None => Valid(file)
    /\ journal # None => Valid(journal.prev) /\ Valid(journal.next)

\* What the holder of the state lock is doing there.
SectionInv ==
    lock # None =>
        /\ cs.stage # "none"
        /\ pc[lock] \in {"enqueue", "poll", "observe", "release", "discard"}
        /\ pc[lock] \in {"enqueue", "poll"} => owned
        /\ (Writing \/ cs.stage = "tidy") => cs.then \in {"body", "poll", "observe", "closing"}
        /\ cs.stage = "unlink" => cs.then # "none"
        /\ (Writing \/ Written) =>
               /\ cs.then = "poll" => pc[lock] = "enqueue"
               /\ cs.then = "observe" => pc[lock] = "poll"
               /\ cs.then = "closing" => pc[lock] \in {"release", "discard"}
-----------------------------------------------------------------------------
(* Holder ids. *)

IdInv ==
    /\ \A p \in Proc : pc[p] # "idle" => hid[p] # None
    /\ \A p, q \in Proc : (p # q /\ hid[p] = hid[q]) => hid[p] = None

\* A commit adds no id but that of the process that enters the queue or the window.
NextInv ==
    Writing => Referenced(cs.next) \subseteq
                   Referenced(reg) \cup (IF cs.then \in {"poll", "observe"} THEN {hid[lock]} ELSE {})

\* Who is about to join the queue is not in the lease state.
FreshInv ==
    \A p \in Proc :
        (pc[p] = "enqueue" /\ ~(lock = p /\ Written /\ cs.then = "poll")) =>
            hid[p] \notin Referenced(reg)
-----------------------------------------------------------------------------
(* The window. *)

Inside(p) == pc[p] \in {"observe", "held"}

Listed(p, s) == IF mode[p] = "shared" THEN hid[p] \in s.shared ELSE hid[p] = s.exclusive

Flocked(p) == p \in active /\ gate[p] = mode[p]

InsideInv ==
    \A p \in Proc :
        Inside(p) => Flocked(p) /\ Listed(p, reg) /\ (Writing => Listed(p, cs.next))

\* The process that is being let in.
EnteringInv ==
    (lock # None /\ cs.then = "observe") =>
        /\ Writing \/ Written => Flocked(lock)
        /\ Writing => Listed(lock, cs.next)
        /\ Written => Listed(lock, reg)

GateInv ==
    \A p, q \in Proc : (p # q /\ gate[p] = "exclusive") => gate[q] = "none"

IInv ==
    /\ TypeInv /\ CopiesInv /\ ValidInv /\ SectionInv
    /\ IdInv /\ NextInv /\ FreshInv
    /\ InsideInv /\ EnteringInv /\ GateInv
-----------------------------------------------------------------------------
(* The queue without its dead.  The library's induction theorems range over *)
(* predicates; its theorem about minimal members of a set ranges over sets  *)
(* and gives the same.                                                      *)

\* A set of naturals has a least member: induction, as a fact about sets.
LEMMA Least ==
    ASSUME NEW T, T \subseteq Nat, T # {}
    PROVE  \E x \in T : \A y \in T : x <= y
<1> DEFINE R == OpToRel(<, Nat)
<1>1. IsWellFoundedOn(R, Nat)
  BY NatLessThanWellFounded
<1>2. \A x, y \in Nat : x < y => <<x, y>> \in R
  BY DEF OpToRel
<1> HIDE DEF R
<1>3. PICK x \in T : \A y \in T : ~ (<<y, x>> \in R)
  BY <1>1, WFMin
<1>4. ASSUME NEW y \in T
      PROVE  x <= y
  <2>1. x \in Nat /\ y \in Nat /\ ~ (y < x)
    BY <1>2, <1>3
  <2> QED
    BY <2>1
<1> QED
  BY <1>4

\* f[i] is what Only leaves of the first i members.
Keeps(f, queue, S, n) ==
    f = [i \in 0 .. n |->
            IF i = 0 THEN <<>>
            ELSE IF queue[i] \in S THEN Append(f[i - 1], queue[i]) ELSE f[i - 1]]

\* The same, value by value.
Unfolds(f, queue, S, n) ==
    /\ f[0] = <<>>
    /\ \A i \in 1 .. n :
           f[i] = IF queue[i] \in S THEN Append(f[i - 1], queue[i]) ELSE f[i - 1]

LEMMA KeepsValues ==
    ASSUME NEW queue, NEW S, NEW n \in Nat, NEW f, Keeps(f, queue, S, n)
    PROVE  Unfolds(f, queue, S, n)
<1> DEFINE new(i) == IF i = 0 THEN <<>>
                     ELSE IF queue[i] \in S THEN Append(f[i - 1], queue[i]) ELSE f[i - 1]
<1>1. f = [i \in 0 .. n |-> new(i)]
  BY DEF Keeps
<1>2. new(0) = <<>> /\ 0 \in 0 .. n
  OBVIOUS
<1>3. ASSUME NEW i \in 1 .. n
      PROVE  /\ i \in 0 .. n
             /\ new(i) = IF queue[i] \in S THEN Append(f[i - 1], queue[i]) ELSE f[i - 1]
  OBVIOUS
<1> HIDE DEF new
<1>4. \A i \in 0 .. n : f[i] = new(i)
  BY <1>1
<1> QED
  BY <1>2, <1>3, <1>4 DEF Unfolds

\* There is such a function, so the recursive definition has a value.
LEMMA KeepsExists ==
    ASSUME NEW queue, NEW S, NEW n \in Nat
    PROVE  \E f : Keeps(f, queue, S, n)
<1> DEFINE T == {m \in Nat : ~ \E f : Keeps(f, queue, S, m)}
<1> SUFFICES ASSUME T # {} PROVE FALSE
  OBVIOUS
<1>1. PICK m \in T : \A k \in T : m <= k
  BY Least
<1>2. m \in Nat /\ ~ \E f : Keeps(f, queue, S, m)
  OBVIOUS
<1>3. CASE m = 0
  <2>1. Keeps([i \in 0 .. 0 |-> <<>>], queue, S, 0)
    BY DEF Keeps
  <2> QED
    BY <1>2, <1>3, <2>1
<1>4. CASE m # 0
  <2>1. m - 1 \in Nat /\ ~ (m <= m - 1)
    BY <1>2, <1>4
  <2>2. m - 1 \notin T
    BY <1>1, <2>1
  <2>3. PICK f : Keeps(f, queue, S, m - 1)
    BY <2>1, <2>2
  <2> DEFINE last == IF queue[m] \in S THEN Append(f[m - 1], queue[m]) ELSE f[m - 1]
             g == [i \in 0 .. m |-> IF i = m THEN last ELSE f[i]]
  <2> HIDE DEF T
  <2>4. Unfolds(f, queue, S, m - 1)
    BY <2>1, <2>3, KeepsValues
  <2>5. \A i \in 0 .. m : g[i] = IF i = 0 THEN <<>>
                                ELSE IF queue[i] \in S THEN Append(g[i - 1], queue[i]) ELSE g[i - 1]
    BY <1>2, <1>4, <2>1, <2>4 DEF Unfolds
  <2>6. Keeps(g, queue, S, m)
    <3>1. g = [i \in 0 .. m |-> g[i]]
      OBVIOUS
    <3> HIDE DEF g
    <3> QED
      BY <2>5, <3>1 DEF Keeps
  <2> QED
    BY <1>2, <2>6
<1> QED
  BY <1>3, <1>4

\* No id is there twice.
Distinct(s) == \A i, j \in 1 .. Len(s) : s[i] = s[j] => i = j

\* What is left of the first n members: some of them, none twice.
PartOf(r, E, queue, S, n) ==
    /\ r \in Seq(E) /\ Distinct(r)
    /\ \A i \in 1 .. Len(r) : \E k \in 1 .. n : r[i] = queue[k] /\ queue[k] \in S

LEMMA KeepsFacts ==
    ASSUME NEW E, NEW queue \in Seq(E), Distinct(queue), NEW S,
           NEW f, Keeps(f, queue, S, Len(queue))
    PROVE  \A n \in 0 .. Len(queue) : PartOf(f[n], E, queue, S, n)
<1> DEFINE Good(n) == PartOf(f[n], E, queue, S, n)
           T == {n \in Nat : n <= Len(queue) /\ ~Good(n)}
<1> SUFFICES ASSUME T # {} PROVE FALSE
  OBVIOUS
<1>1. PICK m \in T : \A k \in T : m <= k
  BY Least
<1>2. m \in Nat /\ m <= Len(queue) /\ ~Good(m) /\ Len(queue) \in Nat
  OBVIOUS
<1>3. Unfolds(f, queue, S, Len(queue))
  <2> HIDE DEF T, Good
  <2>1. Len(queue) \in Nat
    OBVIOUS
  <2> QED
    BY <2>1, KeepsValues
<1>4. m # 0
  <2>1. f[0] = <<>>
    BY <1>3 DEF Unfolds
  <2>2. <<>> \in Seq(E) /\ Len(<<>>) = 0
    OBVIOUS
  <2>3. Distinct(<<>>)
    BY <2>2 DEF Distinct
  <2>4. Good(0)
    BY <2>1, <2>2, <2>3 DEF PartOf
  <2> QED
    BY <1>2, <2>4
<1>5. m - 1 \in Nat /\ m - 1 <= Len(queue) /\ ~ (m <= m - 1)
  BY <1>2, <1>4
<1>6. Good(m - 1)
  BY <1>1, <1>5
<1> DEFINE r == f[m - 1]
<1>7. /\ r \in Seq(E) /\ Distinct(r)
      /\ \A i \in 1 .. Len(r) : \E k \in 1 .. m - 1 : r[i] = queue[k] /\ queue[k] \in S
      /\ f[m] = IF queue[m] \in S THEN Append(r, queue[m]) ELSE r
  BY <1>2, <1>3, <1>4, <1>6 DEF Unfolds, PartOf
<1> HIDE DEF r
<1>8. Good(m)
  <2>1. CASE queue[m] \notin S
    <3>1. f[m] = r
      BY <1>7, <2>1
    <3> QED
      BY <1>2, <1>5, <1>7, <3>1 DEF PartOf
  <2>2. CASE queue[m] \in S
    <3>1. f[m] = Append(r, queue[m]) /\ queue[m] \in E /\ Len(r) \in Nat
      BY <1>2, <1>4, <1>7, <2>2
    <3> DEFINE a == Append(r, queue[m])
    <3>2. /\ a \in Seq(E) /\ Len(a) = Len(r) + 1 /\ a[Len(r) + 1] = queue[m]
          /\ \A i \in 1 .. Len(r) : a[i] = r[i]
      BY <1>7, <3>1
    <3>3. ASSUME NEW i \in 1 .. Len(r)
          PROVE  r[i] # queue[m]
      <4>1. PICK k \in 1 .. m - 1 : r[i] = queue[k]
        BY <1>7
      <4>2. k \in 1 .. Len(queue) /\ m \in 1 .. Len(queue) /\ k # m
        BY <1>2, <1>4
      <4>3. queue[k] # queue[m]
        BY <4>2 DEF Distinct
      <4> QED
        BY <4>1, <4>3
    <3> HIDE DEF a
    <3>4. Distinct(a)
      <4> SUFFICES ASSUME NEW i \in 1 .. Len(r) + 1, NEW j \in 1 .. Len(r) + 1, a[i] = a[j]
                   PROVE  i = j
        BY <3>2 DEF Distinct
      <4>1. (i \in 1 .. Len(r) \/ i = Len(r) + 1) /\ (j \in 1 .. Len(r) \/ j = Len(r) + 1)
        BY <3>1
      <4> QED
        BY <1>7, <3>2, <3>3, <4>1 DEF Distinct
    <3>5. \A i \in 1 .. Len(a) : \E k \in 1 .. m : a[i] = queue[k] /\ queue[k] \in S
      <4> SUFFICES ASSUME NEW i \in 1 .. Len(r) + 1
                   PROVE  \E k \in 1 .. m : a[i] = queue[k] /\ queue[k] \in S
        BY <3>2
      <4>1. CASE i = Len(r) + 1
        BY <1>2, <1>4, <2>2, <3>2, <4>1
      <4>2. CASE i # Len(r) + 1
        BY <1>2, <1>5, <1>7, <3>1, <3>2, <4>2
      <4> QED
        BY <4>1, <4>2
    <3> QED
      BY <3>1, <3>2, <3>4, <3>5 DEF a, PartOf
  <2> QED
    BY <2>1, <2>2
<1> QED
  BY <1>2, <1>8

\* What Only leaves of a queue.
LEMMA OnlyFacts ==
    ASSUME NEW E, NEW queue \in Seq(E), Distinct(queue), NEW S
    PROVE  PartOf(Only(queue, S), E, queue, S, Len(queue))
<1>1. Len(queue) \in Nat /\ Len(queue) \in 0 .. Len(queue)
  OBVIOUS
<1>2. PICK f : Keeps(f, queue, S, Len(queue))
  BY <1>1, KeepsExists
<1>3. PICK g : Keeps(g, queue, S, Len(queue)) /\ Only(queue, S) = g[Len(queue)]
  BY <1>2 DEF Keeps, Only
<1> QED
  BY <1>1, <1>3, KeepsFacts
-----------------------------------------------------------------------------
(* Lease states. *)

LEMMA EmptyFacts ==
    EmptyState \in LeaseState /\ Valid(EmptyState) /\ NoSection \in SectionState
    /\ NoSection.stage = "none" /\ NoSection.next = EmptyState /\ NoSection.then = "none"
<1>1. <<>> \in Seq(Holder) /\ Len(<<>>) = 0
  OBVIOUS
<1>2. EmptyState \in LeaseState
  BY <1>1 DEF EmptyState, LeaseState
<1>3. Valid(EmptyState)
  BY <1>1 DEF EmptyState, Valid, ToSet
<1> QED
  BY <1>2, <1>3 DEF NoSection, SectionState, Stages

\* A valid state, part by part.
LEMMA ValidFacts ==
    ASSUME NEW s \in LeaseState
    PROVE  /\ s.shared \subseteq Holder /\ s.pending \in Seq(Holder)
           /\ s.exclusive \in Holder \cup {None} /\ ToSet(s.pending) \subseteq Holder
           /\ Referenced(s) \subseteq Holder
           /\ Valid(s) <=> /\ s.exclusive # None => s.shared = {}
                           /\ Distinct(s.pending)
                           /\ s.exclusive \notin s.shared \cup ToSet(s.pending)
                           /\ s.shared \cap ToSet(s.pending) = {}
<1>1. s.shared \subseteq Holder /\ s.pending \in Seq(Holder) /\ s.exclusive \in Holder \cup {None}
  BY DEF LeaseState
<1>2. ToSet(s.pending) \subseteq Holder
  BY <1>1 DEF ToSet
<1> QED
  BY <1>1, <1>2 DEF Referenced, Valid, Distinct

\* A part of a valid state is one: fewer holders, a shorter queue.
LEMMA PartFacts ==
    ASSUME NEW s \in LeaseState, Valid(s), NEW S, S \subseteq s.shared, NEW A,
           NEW e \in {None, s.exclusive}
    PROVE  LET t == [shared |-> S, pending |-> Only(s.pending, A), exclusive |-> e]
               u == [shared |-> S, pending |-> s.pending, exclusive |-> e]
           IN  /\ t \in LeaseState /\ Valid(t) /\ Referenced(t) \subseteq Referenced(s)
               /\ u \in LeaseState /\ Valid(u) /\ Referenced(u) \subseteq Referenced(s)
<1> DEFINE q == Only(s.pending, A)
           t == [shared |-> S, pending |-> q, exclusive |-> e]
           u == [shared |-> S, pending |-> s.pending, exclusive |-> e]
<1>1. /\ s.shared \subseteq Holder /\ s.pending \in Seq(Holder) /\ s.exclusive \in Holder \cup {None}
      /\ s.exclusive # None => s.shared = {}
      /\ Distinct(s.pending) /\ ToSet(s.pending) \subseteq Holder
      /\ s.exclusive \notin s.shared \cup ToSet(s.pending) /\ s.shared \cap ToSet(s.pending) = {}
  BY ValidFacts
<1>2. /\ q \in Seq(Holder) /\ Distinct(q)
      /\ \A i \in 1 .. Len(q) : \E k \in 1 .. Len(s.pending) : q[i] = s.pending[k]
  BY <1>1, OnlyFacts DEF PartOf
<1> HIDE DEF q
<1>3. ToSet(q) \subseteq ToSet(s.pending)
  BY <1>1, <1>2 DEF ToSet
<1>4. None \notin Holder
  BY NoneAssumption
<1>5. t \in LeaseState /\ t.shared = S /\ t.pending = q /\ t.exclusive = e
  BY <1>1, <1>2 DEF LeaseState
<1>6. u \in LeaseState /\ u.shared = S /\ u.pending = s.pending /\ u.exclusive = e
  BY <1>1 DEF LeaseState
<1> HIDE DEF t, u
<1>7. Valid(t) /\ Referenced(t) \subseteq Referenced(s)
  BY <1>1, <1>2, <1>3, <1>4, <1>5, ValidFacts DEF Referenced
<1>8. Valid(u) /\ Referenced(u) \subseteq Referenced(s)
  BY <1>1, <1>4, <1>6, ValidFacts DEF Referenced
<1> QED
  BY <1>5, <1>6, <1>7, <1>8 DEF t, u, q

\* A new id joins the queue.
LEMMA AppendFacts ==
    ASSUME NEW s \in LeaseState, Valid(s), NEW h \in Holder, h \notin Referenced(s)
    PROVE  LET t == [s EXCEPT !.pending = Append(s.pending, h)]
           IN  /\ t \in LeaseState /\ Valid(t) /\ Referenced(t) \subseteq Referenced(s) \cup {h}
               /\ t.shared = s.shared /\ t.exclusive = s.exclusive
<1> DEFINE q == Append(s.pending, h)
           t == [s EXCEPT !.pending = q]
<1>1. /\ s.shared \subseteq Holder /\ s.pending \in Seq(Holder) /\ s.exclusive \in Holder \cup {None}
      /\ s.exclusive # None => s.shared = {}
      /\ Distinct(s.pending) /\ ToSet(s.pending) \subseteq Holder
      /\ s.exclusive \notin s.shared \cup ToSet(s.pending) /\ s.shared \cap ToSet(s.pending) = {}
  BY ValidFacts
<1>2. h \notin s.shared /\ h \notin ToSet(s.pending) /\ h # s.exclusive
  BY NoneAssumption DEF Referenced
<1>3. /\ q \in Seq(Holder) /\ Len(q) = Len(s.pending) + 1 /\ q[Len(s.pending) + 1] = h
      /\ \A i \in 1 .. Len(s.pending) : q[i] = s.pending[i]
  BY <1>1
<1>4. \A i \in 1 .. Len(s.pending) : s.pending[i] # h
  BY <1>1, <1>2 DEF ToSet
<1> HIDE DEF q
<1>5. Distinct(q)
  <2> SUFFICES ASSUME NEW i \in 1 .. Len(s.pending) + 1, NEW j \in 1 .. Len(s.pending) + 1,
                      q[i] = q[j]
               PROVE  i = j
    BY <1>3 DEF Distinct
  <2>1. /\ i \in 1 .. Len(s.pending) \/ i = Len(s.pending) + 1
        /\ j \in 1 .. Len(s.pending) \/ j = Len(s.pending) + 1
    BY <1>1
  <2> QED
    BY <1>1, <1>3, <1>4, <2>1 DEF Distinct
<1>6. ToSet(q) \subseteq ToSet(s.pending) \cup {h}
  <2> SUFFICES ASSUME NEW i \in DOMAIN q
               PROVE  q[i] \in ToSet(s.pending) \cup {h}
    BY DEF ToSet
  <2>1. i \in 1 .. Len(s.pending) \/ i = Len(s.pending) + 1
    BY <1>1, <1>3
  <2> QED
    BY <1>1, <1>3, <2>1 DEF ToSet
<1>7. t \in LeaseState /\ t.shared = s.shared /\ t.pending = q /\ t.exclusive = s.exclusive
  BY <1>3 DEF LeaseState
<1> HIDE DEF t
<1>8. Valid(t)
  BY <1>1, <1>2, <1>5, <1>6, <1>7, ValidFacts
<1>9. Referenced(t) \subseteq Referenced(s) \cup {h}
  BY <1>6, <1>7 DEF Referenced
<1> QED
  BY <1>7, <1>8, <1>9 DEF t, q

\* An effect joins the others, when no change waits or is inside.
LEMMA ShareFacts ==
    ASSUME NEW s \in LeaseState, Valid(s), NEW h \in Holder, s.pending = <<>>, s.exclusive = None
    PROVE  LET t == [s EXCEPT !.shared = @ \cup {h}]
           IN  /\ t \in LeaseState /\ Valid(t) /\ Referenced(t) \subseteq Referenced(s) \cup {h}
               /\ t.shared = s.shared \cup {h} /\ t.exclusive = None
<1> DEFINE t == [s EXCEPT !.shared = @ \cup {h}]
<1>1. /\ s.shared \subseteq Holder /\ None \notin Holder /\ ToSet(<<>>) = {} /\ Distinct(<<>>)
  BY ValidFacts, NoneAssumption DEF ToSet, Distinct
<1>2. t \in LeaseState /\ t.shared = s.shared \cup {h} /\ t.pending = <<>> /\ t.exclusive = None
  BY DEF LeaseState
<1> HIDE DEF t
<1>3. Valid(t) /\ Referenced(t) \subseteq Referenced(s) \cup {h}
  BY <1>1, <1>2, ValidFacts DEF Referenced
<1> QED
  BY <1>2, <1>3 DEF t

\* The change at the head of the queue enters an empty window.
LEMMA HeadFacts ==
    ASSUME NEW s \in LeaseState, Valid(s), s.pending # <<>>, s.shared = {}, s.exclusive = None
    PROVE  LET t == [s EXCEPT !.pending = Tail(@), !.exclusive = Head(s.pending)]
           IN  /\ t \in LeaseState /\ Valid(t) /\ Referenced(t) \subseteq Referenced(s)
               /\ t.shared = {} /\ t.exclusive = Head(s.pending)
<1> DEFINE q == s.pending
           r == Tail(q)
           h == Head(q)
           t == [s EXCEPT !.pending = r, !.exclusive = h]
<1>1. q \in Seq(Holder) /\ Distinct(q) /\ q # <<>>
  BY ValidFacts
<1> HIDE DEF q
<1>2. /\ r \in Seq(Holder) /\ Len(q) \in Nat /\ Len(q) >= 1 /\ Len(r) = Len(q) - 1
      /\ \A i \in 1 .. Len(r) : r[i] = q[i + 1]
      /\ h = q[1] /\ h \in Holder
  BY <1>1
<1> HIDE DEF r, h
<1>3. Distinct(r)
  <2> SUFFICES ASSUME NEW i \in 1 .. Len(r), NEW j \in 1 .. Len(r), r[i] = r[j]
               PROVE  i = j
    BY DEF Distinct
  <2>1. q[i + 1] = q[j + 1] /\ i + 1 \in 1 .. Len(q) /\ j + 1 \in 1 .. Len(q)
    BY <1>2
  <2>2. i + 1 = j + 1
    BY <1>1, <2>1 DEF Distinct
  <2> QED
    BY <2>2
<1>4. \A i \in 1 .. Len(r) : r[i] # h
  <2> SUFFICES ASSUME NEW i \in 1 .. Len(r), q[i + 1] = q[1]
               PROVE  FALSE
    BY <1>2
  <2>1. i + 1 \in 1 .. Len(q) /\ 1 \in 1 .. Len(q)
    BY <1>2
  <2>2. i + 1 = 1
    BY <1>1, <2>1 DEF Distinct
  <2> QED
    BY <2>2
<1>5. h \notin ToSet(r) /\ ToSet(r) \subseteq ToSet(q) /\ h \in ToSet(q)
  <2>1. DOMAIN r = 1 .. Len(r) /\ DOMAIN q = 1 .. Len(q)
    BY <1>1, <1>2
  <2>2. \A i \in 1 .. Len(r) : i + 1 \in 1 .. Len(q)
    BY <1>2
  <2>3. 1 \in 1 .. Len(q)
    BY <1>2
  <2>4. h \notin ToSet(r)
    BY <1>4, <2>1 DEF ToSet
  <2>5. h \in ToSet(q)
    BY <1>2, <2>1, <2>3 DEF ToSet
  <2>6. ASSUME NEW i \in 1 .. Len(r)
        PROVE  r[i] \in ToSet(q)
    BY <1>2, <2>1, <2>2 DEF ToSet
  <2>7. ToSet(r) \subseteq ToSet(q)
    BY <2>1, <2>6 DEF ToSet
  <2> QED
    BY <2>4, <2>5, <2>7
<1>6. t \in LeaseState /\ t.shared = {} /\ t.pending = r /\ t.exclusive = h
  BY <1>2 DEF LeaseState
<1> HIDE DEF t
<1>7. Valid(t)
  BY <1>3, <1>5, <1>6, ValidFacts
<1>8. Referenced(t) \subseteq Referenced(s)
  BY <1>5, <1>6 DEF Referenced, q
<1> QED
  BY <1>6, <1>7, <1>8 DEF t, h, r, q
-----------------------------------------------------------------------------
(* What a step may do. *)

LEMMA Context ==
    ASSUME IInv
    PROVE  /\ reg \in LeaseState /\ Valid(reg) /\ file \in LeaseState \cup {None}
           /\ journal = None \/ journal \in [prev : LeaseState, next : LeaseState]
           /\ activity \subseteq Holder /\ active \subseteq Proc
           /\ lock \in Proc \cup {None} /\ cs \in SectionState
           /\ cs.next \in LeaseState /\ cs.prev \in LeaseState /\ Valid(cs.next)
           /\ lock = None <=> cs = NoSection
           /\ lock = None <=> cs.stage = "none"
           /\ hid \in [Proc -> Holder \cup {None}] /\ pc \in [Proc -> Steps]
           /\ mode \in [Proc -> {"shared", "exclusive"}]
           /\ gate \in [Proc -> {"none", "shared", "exclusive"}]
           /\ owned \in BOOLEAN
<1>1. TypeOK /\ pc \in [Proc -> Steps] /\ cs \in SectionState /\ Valid(reg) /\ Valid(cs.next)
  BY DEF IInv, TypeInv, ValidInv
<1>2. cs.next \in LeaseState /\ cs.prev \in LeaseState
  BY <1>1 DEF SectionState
<1>3. lock = None <=> cs.stage = "none"
  <2>1. lock = None => cs.stage = "none"
    BY <1>1, EmptyFacts DEF TypeOK
  <2>2. lock # None => cs.stage # "none"
    BY DEF IInv, SectionInv
  <2> QED
    BY <2>1, <2>2
<1> QED
  BY <1>1, <1>2, <1>3 DEF TypeOK

\* A process without the state lock: it may go on anywhere but into the window,
\* drop its flocks, and take an id that is in use nowhere.
LEMMA OutsideStep ==
    ASSUME IInv, NEW p \in Proc, lock # p, UNCHANGED <<state, lock, cs>>,
           pc' \in [Proc -> Steps], mode' \in [Proc -> {"shared", "exclusive"}],
           hid' \in [Proc -> Holder \cup {None}],
           gate' \in [Proc -> {"none", "shared", "exclusive"}],
           active' \subseteq Proc, owned' \in BOOLEAN,
           (lock # None /\ pc[lock] \in {"enqueue", "poll"}) => owned',
           \A q \in Proc : q # p => /\ pc'[q] = pc[q] /\ mode'[q] = mode[q] /\ hid'[q] = hid[q]
                                    /\ gate'[q] = gate[q] /\ (q \in active' <=> q \in active),
           gate'[p] \in {gate[p], "none"},
           \/ pc'[p] \notin {"observe", "held"}
           \/ UNCHANGED local,
           \/ hid'[p] = hid[p] /\ (hid[p] # None \/ pc'[p] = "idle")
           \/ hid'[p] = None /\ pc'[p] = "idle"
           \/ hid'[p] \in Holder \ InUse,
           pc'[p] = "enqueue" => hid'[p] \notin Referenced(reg)
    PROVE  IInv'
<1>1. /\ reg' = reg /\ file' = file /\ journal' = journal /\ activity' = activity
      /\ lock' = lock /\ cs' = cs
  BY DEF state
<1>2. lock # None => lock \in Proc /\ pc'[lock] = pc[lock] /\ hid'[lock] = hid[lock]
                     /\ mode'[lock] = mode[lock] /\ gate'[lock] = gate[lock]
                     /\ (lock \in active' <=> lock \in active)
  BY Context
<1>3. TypeInv' /\ CopiesInv' /\ ValidInv'
  <2>1. TypeInv'
    BY <1>1, Context DEF TypeInv, TypeOK
  <2>2. CopiesInv' /\ ValidInv'
    BY <1>1 DEF IInv, CopiesInv, ValidInv, Writing
  <2> QED
    BY <2>1, <2>2
<1>4. SectionInv' /\ NextInv'
  <2>1. SectionInv'
    BY <1>1, <1>2 DEF IInv, SectionInv, Writing, Written
  <2>2. Writing => lock # None
    BY Context DEF Writing
  <2>3. NextInv'
    BY <1>1, <1>2, <2>2 DEF IInv, NextInv, Writing
  <2> QED
    BY <2>1, <2>3
<1>5. IdInv'
  <2>1. IdInv
    BY DEF IInv
  <2>2. \A q \in Proc : pc'[q] # "idle" => hid'[q] # None
    BY <2>1, NoneAssumption DEF IdInv
  <2>3. \A q \in Proc : hid[q] \in InUse
    BY DEF InUse
  <2>4. \A q \in Proc : (q # p /\ hid'[q] = hid'[p]) => hid'[p] = None
    BY <2>1, <2>3 DEF IdInv
  <2>5. \A q, r \in Proc : (q # r /\ hid'[q] = hid'[r]) => hid'[q] = None
    BY <2>1, <2>4 DEF IdInv
  <2> QED
    BY <2>2, <2>5 DEF IdInv
<1>6. FreshInv'
  BY <1>1 DEF IInv, FreshInv, Written
<1>7. InsideInv'
  <2> SUFFICES ASSUME NEW q \in Proc, Inside(q)'
               PROVE  (Flocked(q) /\ Listed(q, reg) /\ (Writing => Listed(q, cs.next)))'
    BY DEF InsideInv
  <2>1. /\ pc'[q] = pc[q] /\ mode'[q] = mode[q] /\ hid'[q] = hid[q] /\ gate'[q] = gate[q]
        /\ (q \in active' <=> q \in active)
    BY DEF Inside, local
  <2>2. Inside(q)
    BY <2>1 DEF Inside
  <2> QED
    BY <1>1, <2>1, <2>2 DEF IInv, InsideInv, Flocked, Listed, Writing
<1>8. EnteringInv'
  BY <1>1, <1>2 DEF IInv, EnteringInv, Flocked, Listed, Writing, Written
<1>9. GateInv'
  BY DEF IInv, GateInv
<1> QED
  BY <1>3, <1>4, <1>5, <1>6, <1>7, <1>8, <1>9 DEF IInv

\* The end of a critical section.
LEMMA UnlockStep ==
    ASSUME IInv, NEW p \in Proc, lock = p, NEW to \in Steps, Unlock(p, to),
           UNCHANGED <<mode, hid, active, gate, owned>>, activity' \subseteq Holder,
           reg' \in LeaseState, Valid(reg'),
           file' \in LeaseState \cup {None}, file' # None => Valid(file'),
           journal' = None \/ journal' \in [prev : LeaseState, next : LeaseState],
           journal' # None => Valid(journal'.prev) /\ Valid(journal'.next),
           IF journal' # None THEN reg' \in {journal'.prev, journal'.next}
           ELSE file' \in {None, reg'},
           \A q \in Proc : Inside(q) => Listed(q, reg'),
           \A q \in Proc : (q # p /\ pc[q] = "enqueue") => hid[q] \notin Referenced(reg'),
           to \notin {"idle", "enqueue"},
           to \in {"observe", "held"} => Flocked(p) /\ Listed(p, reg')
    PROVE  IInv'
<1>1. /\ lock' = None /\ cs' = NoSection /\ pc' = [pc EXCEPT ![p] = to]
      /\ mode' = mode /\ hid' = hid /\ active' = active /\ gate' = gate /\ owned' = owned
  BY DEF Unlock
<1>2. cs'.stage = "none" /\ cs'.next = EmptyState /\ cs'.then = "none" /\ cs' \in SectionState
  BY <1>1, EmptyFacts
<1>3. ~Writing' /\ ~Written'
  BY <1>2 DEF Writing, Written
<1>4. pc' \in [Proc -> Steps] /\ pc'[p] = to /\ \A q \in Proc : q # p => pc'[q] = pc[q]
  BY <1>1, Context
<1>5. TypeInv' /\ CopiesInv' /\ ValidInv'
  <2>1. TypeInv'
    BY <1>1, <1>2, <1>4, Context DEF TypeInv, TypeOK
  <2>2. CopiesInv'
    BY <1>2, <1>3 DEF CopiesInv
  <2>3. ValidInv'
    BY <1>2, EmptyFacts DEF ValidInv
  <2> QED
    BY <2>1, <2>2, <2>3
<1>6. SectionInv' /\ NextInv' /\ EnteringInv' /\ GateInv'
  BY <1>1, <1>3 DEF IInv, SectionInv, NextInv, EnteringInv, GateInv
<1>7. IdInv'
  <2>1. IdInv /\ hid[p] # None
    BY Context, NoneAssumption DEF IInv, IdInv, SectionInv
  <2> QED
    BY <1>1, <1>4, <2>1 DEF IdInv
<1>8. FreshInv'
  BY <1>1, <1>4 DEF FreshInv
<1>9. InsideInv'
  <2> SUFFICES ASSUME NEW q \in Proc, Inside(q)'
               PROVE  (Flocked(q) /\ Listed(q, reg))'
    BY <1>3 DEF InsideInv
  <2>1. Flocked(q) /\ Listed(q, reg')
    BY <1>4 DEF IInv, InsideInv, Inside
  <2> QED
    BY <1>1, <2>1 DEF Flocked, Listed
<1> QED
  BY <1>5, <1>6, <1>7, <1>8, <1>9 DEF IInv

\* A step inside the critical section that decides on no commit.
LEMMA StageStep ==
    ASSUME IInv, NEW p \in Proc, lock = p, UNCHANGED <<lock, local, owned>>,
           cs' \in SectionState, cs'.stage # "none",
           activity' \subseteq Holder, reg' \in LeaseState, file' \in LeaseState \cup {None},
           journal' = None \/ journal' \in [prev : LeaseState, next : LeaseState],
           CopiesInv', ValidInv', SectionInv', NextInv', FreshInv', EnteringInv',
           reg' = reg \/ (Writing /\ reg' = cs.next),
           Writing' => Writing /\ cs'.next = cs.next
    PROVE  IInv'
<1>1. /\ lock' = lock /\ pc' = pc /\ mode' = mode /\ hid' = hid /\ active' = active
      /\ gate' = gate /\ owned' = owned
  BY DEF local
<1>2. cs' # NoSection /\ lock # None
  BY EmptyFacts, NoneAssumption
<1>3. TypeInv'
  BY <1>1, <1>2, Context DEF TypeInv, TypeOK
<1>4. IdInv' /\ GateInv'
  BY <1>1 DEF IInv, IdInv, GateInv
<1>5. InsideInv'
  <2> SUFFICES ASSUME NEW q \in Proc, Inside(q)'
               PROVE  (Flocked(q) /\ Listed(q, reg) /\ (Writing => Listed(q, cs.next)))'
    BY DEF InsideInv
  <2>1. Flocked(q) /\ Listed(q, reg) /\ (Writing => Listed(q, cs.next))
    BY <1>1 DEF IInv, InsideInv, Inside
  <2>2. Listed(q, reg') /\ (Writing' => Listed(q, cs'.next))
    BY <2>1
  <2> QED
    BY <1>1, <2>1, <2>2 DEF Flocked, Listed
<1> QED
  BY <1>3, <1>4, <1>5 DEF IInv

\* A commit is decided on.
LEMMA CommitStep ==
    ASSUME IInv, NEW p \in Proc, lock = p, cs.stage \in {"load", "body"},
           UNCHANGED <<reg, file, journal, lock, pc, mode, hid, owned>>,
           activity' \subseteq Holder, active' \subseteq Proc, active \subseteq active',
           gate' \in [Proc -> {"none", "shared", "exclusive"}], GateInv',
           \A q \in Proc : Inside(q) => gate'[q] = gate[q],
           NEW next \in LeaseState, Valid(next),
           NEW then \in {"body", "poll", "observe", "closing"}, Commit(next, then),
           then = "poll" => pc[p] = "enqueue",
           then = "observe" => pc[p] = "poll" /\ p \in active' /\ gate'[p] = mode[p] /\ Listed(p, next),
           then = "closing" => pc[p] \in {"release", "discard"},
           Referenced(next) \subseteq
               Referenced(reg) \cup (IF then \in {"poll", "observe"} THEN {hid[p]} ELSE {}),
           \A q \in Proc : Inside(q) => Listed(q, next)
    PROVE  IInv'
<1>1. /\ reg' = reg /\ file' = file /\ journal' = journal /\ lock' = lock /\ pc' = pc
      /\ mode' = mode /\ hid' = hid /\ owned' = owned
      /\ cs' = [stage |-> "journal", prev |-> reg, next |-> next, then |-> then]
  BY DEF Commit
<1>2. /\ cs'.stage = "journal" /\ cs'.prev = reg /\ cs'.next = next /\ cs'.then = then
      /\ cs' \in SectionState
  BY <1>1, Context DEF SectionState, Stages
<1>3. Writing' /\ ~Written' /\ ~Writing /\ ~Written
  BY <1>2 DEF Writing, Written
<1>4. cs' # NoSection /\ lock # None
  BY <1>2, EmptyFacts, NoneAssumption
<1>5. TypeInv'
  BY <1>1, <1>2, <1>4, Context DEF TypeInv, TypeOK
<1>6. CopiesInv' /\ ValidInv'
  BY <1>1, <1>2, <1>3 DEF IInv, CopiesInv, ValidInv
<1>7. SectionInv' /\ NextInv'
  BY <1>1, <1>2, <1>3 DEF IInv, SectionInv, NextInv
<1>8. IdInv' /\ FreshInv'
  BY <1>1, <1>3 DEF IInv, IdInv, FreshInv
<1>9. InsideInv'
  BY <1>1, <1>2 DEF IInv, InsideInv, Inside, Flocked, Listed
<1>10. EnteringInv'
  BY <1>1, <1>2, <1>3 DEF EnteringInv, Flocked, Listed
<1> QED
  BY <1>5, <1>6, <1>7, <1>8, <1>9, <1>10 DEF IInv
-----------------------------------------------------------------------------
(* The steps outside the critical section. *)

LEMMA InitInv == Init => IInv
<1> SUFFICES ASSUME Init PROVE IInv
  OBVIOUS
<1>1. /\ reg = EmptyState /\ file = None /\ journal = None /\ activity = {} /\ lock = None
      /\ cs = NoSection /\ active = {} /\ owned = TRUE
      /\ pc \in [Proc -> Steps] /\ mode \in [Proc -> {"shared", "exclusive"}]
      /\ hid \in [Proc -> Holder \cup {None}] /\ gate \in [Proc -> {"none", "shared", "exclusive"}]
      /\ \A p \in Proc : pc[p] = "idle" /\ hid[p] = None /\ gate[p] = "none"
  BY DEF Init, Steps
<1>2. cs.stage = "none" /\ cs \in SectionState /\ ~Writing /\ ~Written
  BY <1>1, EmptyFacts DEF Writing, Written
<1>3. TypeInv
  BY <1>1, <1>2, EmptyFacts DEF TypeInv, TypeOK
<1>4. CopiesInv /\ ValidInv
  BY <1>1, <1>2, EmptyFacts DEF CopiesInv, ValidInv
<1>5. SectionInv /\ IdInv /\ NextInv /\ FreshInv /\ InsideInv /\ EnteringInv /\ GateInv
  BY <1>1, <1>2 DEF SectionInv, IdInv, NextInv, FreshInv, InsideInv, Inside, EnteringInv, GateInv
<1> QED
  BY <1>3, <1>4, <1>5 DEF IInv

LEMMA StartInv ==
    ASSUME IInv, NEW p \in Proc, NEW m \in {"shared", "exclusive"}, Start(p, m)
    PROVE  IInv'
<1> DEFINE h == CHOOSE x \in Holder : x \notin InUse
           to == IF m = "exclusive" THEN "enqueue" ELSE "poll"
<1>1. /\ pc[p] = "idle" /\ hid' = [hid EXCEPT ![p] = h] /\ mode' = [mode EXCEPT ![p] = m]
      /\ pc' = [pc EXCEPT ![p] = to] /\ active' = active /\ gate' = gate /\ owned' = owned
      /\ UNCHANGED <<state, lock, cs>>
  BY DEF Start
<1>2. h \in Holder \ InUse
  BY DEF Start
<1>3. h \notin Referenced(reg)
  BY <1>2 DEF InUse
<1>4. to \in {"enqueue", "poll"} /\ to \in Steps
  BY DEF Steps
<1> HIDE DEF h, to
<1>5. lock # p
  BY <1>1, NoneAssumption DEF IInv, SectionInv
<1>6. (lock # None /\ pc[lock] \in {"enqueue", "poll"}) => owned'
  BY <1>1 DEF IInv, SectionInv
<1>7. /\ pc' \in [Proc -> Steps] /\ mode' \in [Proc -> {"shared", "exclusive"}]
      /\ hid' \in [Proc -> Holder \cup {None}]
      /\ hid'[p] = h /\ pc'[p] = to
      /\ \A q \in Proc : q # p => pc'[q] = pc[q] /\ mode'[q] = mode[q] /\ hid'[q] = hid[q]
  BY <1>1, <1>2, <1>4, Context
<1>8. /\ gate' \in [Proc -> {"none", "shared", "exclusive"}] /\ active' \subseteq Proc
      /\ owned' \in BOOLEAN
  BY <1>1, Context
<1> QED
  BY <1>1, <1>2, <1>3, <1>4, <1>5, <1>6, <1>7, <1>8, OutsideStep

\* Fenced, Finish, CloseActivity, CloseGate, Withdraw and a crash outside.
LEMMA LeavingStep ==
    ASSUME IInv, NEW p \in Proc, lock # p, UNCHANGED <<state, lock, cs>>,
           NEW to \in Steps \ {"enqueue", "observe", "held"}, pc' = [pc EXCEPT ![p] = to],
           mode' = mode \/ mode' = [mode EXCEPT ![p] = "shared"],
           \/ hid' = hid /\ pc[p] # "idle"
           \/ hid' = [hid EXCEPT ![p] = None] /\ to = "idle",
           gate' = gate \/ gate' = [gate EXCEPT ![p] = "none"],
           active' \in {active, active \ {p}}, owned' = owned
    PROVE  IInv'
<1>1. (lock # None /\ pc[lock] \in {"enqueue", "poll"}) => owned'
  BY DEF IInv, SectionInv
<1>2. pc' \in [Proc -> Steps] /\ pc'[p] = to /\ \A q \in Proc : q # p => pc'[q] = pc[q]
  BY Context
<1>3. /\ mode' \in [Proc -> {"shared", "exclusive"}]
      /\ \A q \in Proc : q # p => mode'[q] = mode[q]
  BY Context
<1>4. /\ gate' \in [Proc -> {"none", "shared", "exclusive"}]
      /\ gate'[p] \in {gate[p], "none"}
      /\ \A q \in Proc : q # p => gate'[q] = gate[q]
  BY Context
<1>5. /\ hid' \in [Proc -> Holder \cup {None}]
      /\ \A q \in Proc : q # p => hid'[q] = hid[q]
      /\ \/ hid'[p] = hid[p] /\ hid[p] # None
         \/ hid'[p] = None /\ pc'[p] = "idle"
  BY <1>2, Context DEF IInv, IdInv
<1>6. /\ active' \subseteq Proc /\ owned' \in BOOLEAN
      /\ \A q \in Proc : q # p => (q \in active' <=> q \in active)
  BY Context
<1> QED
  BY <1>1, <1>2, <1>3, <1>4, <1>5, <1>6, OutsideStep

LEMMA OutsideInv ==
    ASSUME IInv, NEW p \in Proc,
           Fenced(p) \/ Finish(p) \/ CloseActivity(p) \/ CloseGate(p)
    PROVE  IInv'
<1>1. CASE Fenced(p)
  <2> DEFINE to == IF mode[p] = "exclusive" /\ p \in active THEN "discard" ELSE "closing"
  <2>1. to \in Steps \ {"enqueue", "observe", "held"}
    BY DEF Steps
  <2>2. /\ lock # p /\ UNCHANGED <<state, lock, cs>> /\ pc' = [pc EXCEPT ![p] = to]
        /\ mode' = mode /\ hid' = hid /\ pc[p] # "idle" /\ gate' = gate
        /\ active' = active /\ owned' = owned
    BY <1>1 DEF Fenced
  <2> HIDE DEF to
  <2> QED
    BY <2>1, <2>2, LeavingStep
<1>2. lock = p => pc[p] \in {"enqueue", "poll", "observe", "release", "discard"}
  BY NoneAssumption DEF IInv, SectionInv
<1>3. "release" \in Steps /\ "ungate" \in Steps /\ "idle" \in Steps
  BY DEF Steps
<1>4. CASE Finish(p)
  <2>1. /\ lock # p /\ UNCHANGED <<state, lock, cs>> /\ pc' = [pc EXCEPT ![p] = "release"]
        /\ mode' = mode /\ hid' = hid /\ pc[p] # "idle" /\ gate' = gate
        /\ active' = active /\ owned' = owned
    BY <1>2, <1>4 DEF Finish
  <2> QED
    BY <1>3, <2>1, LeavingStep
<1>5. CASE CloseActivity(p)
  <2>1. /\ lock # p /\ UNCHANGED <<state, lock, cs>> /\ pc' = [pc EXCEPT ![p] = "ungate"]
        /\ mode' = mode /\ hid' = hid /\ pc[p] # "idle" /\ gate' = gate
        /\ active' = active \ {p} /\ owned' = owned
    BY <1>2, <1>5 DEF CloseActivity
  <2> QED
    BY <1>3, <2>1, LeavingStep
<1>6. CASE CloseGate(p)
  <2>1. /\ lock # p /\ UNCHANGED <<state, lock, cs>> /\ pc' = [pc EXCEPT ![p] = "idle"]
        /\ mode' = [mode EXCEPT ![p] = "shared"] /\ hid' = [hid EXCEPT ![p] = None]
        /\ gate' = [gate EXCEPT ![p] = "none"]
        /\ active' = active /\ owned' = owned
    BY <1>2, <1>6 DEF CloseGate
  <2> QED
    BY <1>3, <2>1, LeavingStep
<1> QED
  BY <1>1, <1>4, <1>5, <1>6

LEMMA WithdrawInv ==
    ASSUME IInv, NEW p \in Proc, Withdraw(p)
    PROVE  IInv'
<1>1. /\ pc[p] = "held" /\ UNCHANGED <<state, lock, cs, local>> /\ owned' = FALSE
      /\ lock # None => pc[lock] \notin {"enqueue", "poll"}
  BY DEF Withdraw
<1>2. lock # p
  BY <1>1, NoneAssumption DEF IInv, SectionInv
<1>3. hid[p] # None
  BY <1>1 DEF IInv, IdInv
<1>4. pc' = pc /\ mode' = mode /\ hid' = hid /\ active' = active /\ gate' = gate
  BY <1>1 DEF local
<1>5. /\ pc' \in [Proc -> Steps] /\ mode' \in [Proc -> {"shared", "exclusive"}]
      /\ hid' \in [Proc -> Holder \cup {None}] /\ active' \subseteq Proc /\ owned' \in BOOLEAN
      /\ gate' \in [Proc -> {"none", "shared", "exclusive"}]
  BY <1>1, <1>4, Context
<1>6. pc'[p] # "enqueue" /\ gate'[p] \in {gate[p], "none"} /\ hid'[p] = hid[p]
  BY <1>1, <1>4
<1>7. \A q \in Proc : q # p => /\ pc'[q] = pc[q] /\ mode'[q] = mode[q] /\ hid'[q] = hid[q]
                               /\ gate'[q] = gate[q] /\ (q \in active' <=> q \in active)
  BY <1>4
<1> QED
  BY <1>1, <1>2, <1>3, <1>5, <1>6, <1>7, OutsideStep

\* A crash outside the critical section, or in it: the copies of the lease state
\* are where the section left them.
LEMMA CrashInv ==
    ASSUME IInv, NEW p \in Proc, Crash(p)
    PROVE  IInv'
<1>1. /\ pc' = [pc EXCEPT ![p] = "idle"] /\ hid' = [hid EXCEPT ![p] = None]
      /\ active' = active \ {p} /\ gate' = [gate EXCEPT ![p] = "none"]
      /\ mode' = [mode EXCEPT ![p] = "shared"] /\ owned' = owned
      /\ reg' = reg /\ file' = file /\ journal' = journal /\ activity' = activity
  BY DEF Crash, state
<1>2. CASE lock # p
  <2>1. UNCHANGED <<state, lock, cs>> /\ "idle" \in Steps
    BY <1>1, <1>2 DEF Crash, state, Steps
  <2> QED
    BY <1>1, <1>2, <2>1, LeavingStep
<1>3. CASE lock = p
  <2>1. lock' = None /\ cs' = NoSection
    BY <1>3 DEF Crash
  <2>2. cs'.stage = "none" /\ cs'.next = EmptyState /\ cs' \in SectionState
    BY <2>1, EmptyFacts
  <2>3. ~Writing' /\ ~Written'
    BY <2>2 DEF Writing, Written
  <2>4. /\ pc' \in [Proc -> Steps] /\ mode' \in [Proc -> {"shared", "exclusive"}]
        /\ hid' \in [Proc -> Holder \cup {None}]
        /\ gate' \in [Proc -> {"none", "shared", "exclusive"}]
        /\ pc'[p] = "idle" /\ hid'[p] = None /\ gate'[p] = "none"
        /\ \A q \in Proc : q # p => /\ pc'[q] = pc[q] /\ mode'[q] = mode[q] /\ hid'[q] = hid[q]
                                    /\ gate'[q] = gate[q] /\ (q \in active' <=> q \in active)
    BY <1>1, Context DEF Steps
  <2>5. TypeInv'
    BY <1>1, <2>1, <2>2, <2>4, Context DEF TypeInv, TypeOK
  <2>6. IF journal # None THEN reg \in {journal.prev, journal.next} ELSE file \in {None, reg}
    <3>1. CopiesInv /\ cs.stage \in Stages /\ cs.stage # "none"
      BY <1>3, Context, NoneAssumption DEF IInv, SectionState
    <3>2. CASE cs.stage \in {"recover", "load", "body", "journal", "tidy"}
      BY <3>1, <3>2 DEF CopiesInv
    <3>3. CASE cs.stage \in {"file", "registry"}
      <4>1. journal = [prev |-> cs.prev, next |-> cs.next] /\ cs.prev = reg
        BY <3>1, <3>3 DEF CopiesInv, Writing
      <4>2. journal.prev = reg
        BY <4>1
      <4>3. journal # None
        BY <4>1, Context, NoStateAssumption
      <4> QED
        BY <4>2, <4>3
    <3>4. CASE cs.stage = "unlink"
      BY <3>1, <3>4 DEF CopiesInv
    <3> QED
      BY <3>1, <3>2, <3>3, <3>4 DEF Stages
  <2>7. CopiesInv' /\ ValidInv'
    BY <1>1, <2>2, <2>3, <2>6, EmptyFacts DEF IInv, CopiesInv, ValidInv
  <2>8. SectionInv' /\ NextInv' /\ EnteringInv'
    BY <2>1, <2>3 DEF SectionInv, NextInv, EnteringInv
  <2>9. IdInv' /\ GateInv'
    BY <2>4 DEF IInv, IdInv, GateInv
  <2>10. FreshInv'
    BY <1>1, <1>3, <2>4 DEF IInv, FreshInv
  <2>11. InsideInv'
    BY <1>1, <2>3, <2>4 DEF IInv, InsideInv, Inside, Flocked, Listed
  <2> QED
    BY <2>5, <2>7, <2>8, <2>9, <2>10, <2>11 DEF IInv
<1> QED
  BY <1>2, <1>3
-----------------------------------------------------------------------------
(* The critical section: taking the state lock, and the commit. *)

LEMMA LockInv ==
    ASSUME IInv, NEW p \in Proc, Lock(p)
    PROVE  IInv'
<1> DEFINE st == IF journal = None THEN "load" ELSE "recover"
<1>1. /\ lock = None /\ lock' = p /\ cs' = [NoSection EXCEPT !.stage = st]
      /\ pc[p] \in {"enqueue", "poll", "observe", "release", "discard"}
      /\ pc[p] \in {"enqueue", "poll"} => owned
      /\ reg' = reg /\ file' = file /\ journal' = journal /\ activity' = activity
      /\ pc' = pc /\ mode' = mode /\ hid' = hid /\ active' = active /\ gate' = gate
      /\ owned' = owned
  BY DEF Lock, state, local
<1>2. st \in {"load", "recover"} /\ st \in Stages /\ (st = "load" <=> journal = None)
  BY DEF Stages
<1> HIDE DEF st
<1>3. /\ cs' \in SectionState /\ cs'.stage = st /\ cs'.next = EmptyState /\ cs'.then = "none"
  BY <1>1, <1>2, EmptyFacts DEF NoSection, SectionState
<1>4. ~Writing /\ ~Written /\ ~Writing' /\ ~Written' /\ cs.stage = "none"
  BY <1>1, <1>2, <1>3, Context DEF Writing, Written
<1>5. cs' # NoSection /\ p # None
  BY <1>2, <1>3, EmptyFacts, NoneAssumption
<1>6. TypeInv'
  BY <1>1, <1>3, <1>5, Context DEF TypeInv, TypeOK
<1>7. CopiesInv' /\ ValidInv'
  <2>1. CopiesInv'
    BY <1>1, <1>2, <1>3, <1>4 DEF IInv, CopiesInv
  <2>2. ValidInv'
    BY <1>1, <1>3, EmptyFacts DEF IInv, ValidInv
  <2> QED
    BY <2>1, <2>2
<1>8. SectionInv' /\ NextInv' /\ EnteringInv'
  BY <1>1, <1>2, <1>3, <1>4 DEF SectionInv, NextInv, EnteringInv
<1>9. IdInv' /\ FreshInv' /\ InsideInv' /\ GateInv'
  BY <1>1, <1>4 DEF IInv, IdInv, FreshInv, InsideInv, Inside, Flocked, Listed, GateInv
<1> QED
  BY <1>6, <1>7, <1>8, <1>9 DEF IInv

\* Where the process goes after an exception.
LEMMA RaiseFacts ==
    ASSUME NEW p, Raise(p)
    PROVE  \E to \in {"release", "discard", "closing"} : to \in Steps /\ Unlock(p, to)
BY DEF Raise, Steps

\* The critical section moves on to a stage.
LEMMA StageFacts ==
    ASSUME cs \in SectionState, NEW st \in Stages
    PROVE  LET t == [cs EXCEPT !.stage = st]
           IN  t \in SectionState /\ t.stage = st /\ t.prev = cs.prev /\ t.next = cs.next
               /\ t.then = cs.then
BY DEF SectionState

LEMMA StageThenFacts ==
    ASSUME cs \in SectionState, NEW st \in Stages, NEW th \in {"load", "raise"}
    PROVE  LET t == [cs EXCEPT !.stage = st, !.then = th]
           IN  t \in SectionState /\ t.stage = st /\ t.prev = cs.prev /\ t.next = cs.next
               /\ t.then = th
BY DEF SectionState

\* Other processes' ids are not in what is being committed, either.
LEMMA OthersFresh ==
    ASSUME IInv, NEW p \in Proc, lock = p, Writing, NEW q \in Proc, q # p, pc[q] = "enqueue"
    PROVE  hid[q] \notin Referenced(reg) /\ hid[q] \notin Referenced(cs.next)
<1>1. hid[q] # None /\ hid[q] # hid[p]
  BY DEF IInv, IdInv
<1>2. hid[q] \notin Referenced(reg)
  BY DEF IInv, FreshInv
<1> QED
  BY <1>1, <1>2 DEF IInv, NextInv

LEMMA WriteJournalInv ==
    ASSUME IInv, NEW p \in Proc, WriteJournal(p)
    PROVE  IInv'
<1>1. /\ lock = p /\ cs.stage = "journal" /\ journal' = [prev |-> cs.prev, next |-> cs.next]
      /\ cs' = [cs EXCEPT !.stage = "file"] /\ lock' = lock /\ owned' = owned
      /\ reg' = reg /\ file' = file /\ activity' = activity /\ UNCHANGED local
      /\ pc' = pc /\ mode' = mode /\ hid' = hid /\ active' = active /\ gate' = gate
  BY DEF WriteJournal, local
<1>2. /\ cs' \in SectionState /\ cs'.stage = "file" /\ cs'.prev = cs.prev /\ cs'.next = cs.next
      /\ cs'.then = cs.then
  BY <1>1, Context, StageFacts DEF Stages
<1>3. Writing /\ Writing' /\ ~Written /\ ~Written'
  BY <1>1, <1>2 DEF Writing, Written
<1>4. /\ journal' \in [prev : LeaseState, next : LeaseState]
      /\ journal'.prev = cs.prev /\ journal'.next = cs.next /\ cs.prev = reg
  BY <1>1, <1>3, Context DEF IInv, CopiesInv
<1>5. CopiesInv' /\ ValidInv'
  BY <1>1, <1>2, <1>3, <1>4, Context DEF IInv, CopiesInv, ValidInv
<1>6. SectionInv' /\ NextInv' /\ FreshInv' /\ EnteringInv'
  BY <1>1, <1>2, <1>3 DEF IInv, SectionInv, NextInv, FreshInv, EnteringInv, Flocked, Listed
<1> QED
  BY <1>1, <1>2, <1>3, <1>4, <1>5, <1>6, Context, StageStep

LEMMA WriteFileInv ==
    ASSUME IInv, NEW p \in Proc, WriteFile(p)
    PROVE  IInv'
<1>1. /\ lock = p /\ cs.stage = "file" /\ journal' = journal
      /\ cs' = [cs EXCEPT !.stage = "registry"] /\ lock' = lock /\ owned' = owned
      /\ reg' = reg /\ file' = cs.next /\ activity' = activity /\ UNCHANGED local
      /\ pc' = pc /\ mode' = mode /\ hid' = hid /\ active' = active /\ gate' = gate
  BY DEF WriteFile, local
<1>2. /\ cs' \in SectionState /\ cs'.stage = "registry" /\ cs'.prev = cs.prev
      /\ cs'.next = cs.next /\ cs'.then = cs.then
  BY <1>1, Context, StageFacts DEF Stages
<1>3. Writing /\ Writing' /\ ~Written /\ ~Written'
  BY <1>1, <1>2 DEF Writing, Written
<1>4. CopiesInv' /\ ValidInv'
  BY <1>1, <1>2, <1>3, Context DEF IInv, CopiesInv, ValidInv
<1>5. SectionInv' /\ NextInv' /\ FreshInv' /\ EnteringInv'
  BY <1>1, <1>2, <1>3 DEF IInv, SectionInv, NextInv, FreshInv, EnteringInv, Flocked, Listed
<1> QED
  BY <1>1, <1>2, <1>3, <1>4, <1>5, Context, StageStep

\* The journal that is there while the registry is written.
LEMMA RegistryStage ==
    ASSUME IInv, cs.stage = "registry"
    PROVE  /\ journal # None /\ journal.prev = cs.prev /\ journal.next = cs.next
           /\ cs.prev = reg /\ file = cs.next /\ Writing /\ ~Written
<1>1. /\ journal = [prev |-> cs.prev, next |-> cs.next] /\ cs.prev = reg /\ file = cs.next
      /\ Writing /\ ~Written
  BY DEF IInv, CopiesInv, Writing, Written
<1>2. journal # None
  BY <1>1, Context, NoStateAssumption
<1> QED
  BY <1>1, <1>2

LEMMA WriteRegistryInv ==
    ASSUME IInv, NEW p \in Proc, WriteRegistry(p)
    PROVE  IInv'
<1>1. /\ lock = p /\ cs.stage = "registry" /\ journal' = journal
      /\ cs' = [cs EXCEPT !.stage = "unlink"] /\ lock' = lock /\ owned' = owned
      /\ reg' = cs.next /\ file' = file /\ activity' = activity /\ UNCHANGED local
      /\ pc' = pc /\ mode' = mode /\ hid' = hid /\ active' = active /\ gate' = gate
  BY DEF WriteRegistry, local
<1>2. /\ cs' \in SectionState /\ cs'.stage = "unlink" /\ cs'.prev = cs.prev
      /\ cs'.next = cs.next /\ cs'.then = cs.then
  BY <1>1, Context, StageFacts DEF Stages
<1>3. Writing /\ ~Writing' /\ ~Written /\ Written'
  BY <1>1, <1>2 DEF Writing, Written
<1>4. CopiesInv' /\ ValidInv'
  BY <1>1, <1>2, <1>3, Context, RegistryStage DEF IInv, CopiesInv, ValidInv
<1>5. SectionInv' /\ NextInv' /\ EnteringInv'
  BY <1>1, <1>2, <1>3 DEF IInv, SectionInv, NextInv, EnteringInv, Flocked, Listed
<1>6. FreshInv'
  <2> SUFFICES ASSUME NEW q \in Proc, pc[q] = "enqueue", ~(p = q /\ cs.then = "poll")
               PROVE  hid[q] \notin Referenced(cs.next)
    BY <1>1, <1>2, <1>3 DEF FreshInv
  <2>1. CASE q # p
    BY <1>1, <1>3, <2>1, OthersFresh
  <2>2. CASE q = p
    <3>1. cs.then \notin {"poll", "observe"} /\ hid[p] \notin Referenced(reg)
      BY <1>1, <1>3, <2>2, NoneAssumption DEF IInv, SectionInv, FreshInv
    <3> QED
      BY <1>3, <2>2, <3>1 DEF IInv, NextInv
  <2> QED
    BY <2>1, <2>2
<1> QED
  BY <1>1, <1>2, <1>3, <1>4, <1>5, <1>6, Context, StageStep

LEMMA RegistryFailsInv ==
    ASSUME IInv, NEW p \in Proc, RegistryFails(p)
    PROVE  IInv'
<1>1. /\ lock = p /\ cs.stage = "registry" /\ journal' = journal
      /\ cs' = [cs EXCEPT !.stage = "unlink", !.then = "raise"] /\ lock' = lock /\ owned' = owned
      /\ reg' = reg /\ file' = cs.prev /\ activity' = activity /\ UNCHANGED local
      /\ pc' = pc /\ mode' = mode /\ hid' = hid /\ active' = active /\ gate' = gate
  BY DEF RegistryFails, local
<1>2. /\ cs' \in SectionState /\ cs'.stage = "unlink" /\ cs'.prev = cs.prev
      /\ cs'.next = cs.next /\ cs'.then = "raise"
  BY <1>1, Context, StageThenFacts DEF Stages
<1>3. Writing /\ ~Writing' /\ ~Written /\ Written'
  BY <1>1, <1>2 DEF Writing, Written
<1>4. CopiesInv' /\ ValidInv'
  BY <1>1, <1>2, <1>3, Context, RegistryStage DEF IInv, CopiesInv, ValidInv
<1>5. SectionInv' /\ NextInv' /\ FreshInv' /\ EnteringInv'
  BY <1>1, <1>2, <1>3 DEF IInv, SectionInv, NextInv, FreshInv, EnteringInv
<1> QED
  BY <1>1, <1>2, <1>3, <1>4, <1>5, Context, StageStep

LEMMA RegistryUnreadableInv ==
    ASSUME IInv, NEW p \in Proc, RegistryUnreadable(p)
    PROVE  IInv'
<1>1. /\ lock = p /\ cs.stage = "registry" /\ journal' = journal /\ reg' \in {cs.prev, cs.next}
      /\ file' = file /\ activity' = activity /\ Raise(p)
      /\ UNCHANGED <<mode, hid, active, gate, owned>>
  BY DEF RegistryUnreadable
<1>2. PICK to \in {"release", "discard", "closing"} : to \in Steps /\ Unlock(p, to)
  BY <1>1, RaiseFacts
<1>3. /\ journal # None /\ journal.prev = cs.prev /\ journal.next = cs.next
      /\ cs.prev = reg /\ file = cs.next /\ Writing
  BY <1>1, RegistryStage
<1>4. /\ reg' \in LeaseState /\ Valid(reg') /\ file' \in LeaseState \cup {None} /\ Valid(file')
      /\ journal' # None /\ journal' \in [prev : LeaseState, next : LeaseState]
      /\ Valid(journal'.prev) /\ Valid(journal'.next)
      /\ reg' \in {journal'.prev, journal'.next} /\ activity' \subseteq Holder
  BY <1>1, <1>3, Context
<1>5. \A q \in Proc : Inside(q) => Listed(q, reg')
  <2> SUFFICES ASSUME NEW q \in Proc, Inside(q) PROVE Listed(q, reg')
    OBVIOUS
  <2>1. Listed(q, reg) /\ Listed(q, cs.next)
    BY <1>3 DEF IInv, InsideInv
  <2> QED
    BY <1>1, <1>3, <2>1
<1>6. \A q \in Proc : (q # p /\ pc[q] = "enqueue") => hid[q] \notin Referenced(reg')
  <2> SUFFICES ASSUME NEW q \in Proc, q # p, pc[q] = "enqueue"
               PROVE  hid[q] \notin Referenced(reg')
    OBVIOUS
  <2>1. hid[q] \notin Referenced(reg) /\ hid[q] \notin Referenced(cs.next)
    BY <1>1, <1>3, OthersFresh
  <2> QED
    BY <1>1, <1>3, <2>1
<1> QED
  BY <1>1, <1>2, <1>4, <1>5, <1>6, UnlockStep

\* The end of a critical section that leaves the registry and the local file.
LEMMA QuietUnlock ==
    ASSUME IInv, NEW p \in Proc, lock = p, NEW to \in Steps, Unlock(p, to),
           UNCHANGED <<reg, file, mode, hid, active, gate, owned>>, activity' \subseteq Holder,
           \/ journal' = journal /\ journal # None /\ reg \in {journal.prev, journal.next}
           \/ journal' = None /\ file \in {None, reg},
           ~Writing, to \notin {"idle", "enqueue"},
           to \in {"observe", "held"} => Flocked(p) /\ Listed(p, reg)
    PROVE  IInv'
<1>1. reg' \in LeaseState /\ Valid(reg') /\ file' \in LeaseState \cup {None}
  BY Context
<1>2. /\ file' # None => Valid(file')
      /\ journal' = None \/ journal' \in [prev : LeaseState, next : LeaseState]
      /\ journal' # None => Valid(journal'.prev) /\ Valid(journal'.next)
      /\ IF journal' # None THEN reg' \in {journal'.prev, journal'.next}
         ELSE file' \in {None, reg'}
  BY Context DEF IInv, ValidInv
<1>3. \A q \in Proc : Inside(q) => Listed(q, reg')
  BY DEF IInv, InsideInv
<1>4. \A q \in Proc : (q # p /\ pc[q] = "enqueue") => hid[q] \notin Referenced(reg')
  BY DEF IInv, FreshInv
<1> QED
  BY <1>1, <1>2, <1>3, <1>4, UnlockStep

LEMMA UnlinkJournalInv ==
    ASSUME IInv, NEW p \in Proc, UnlinkJournal(p)
    PROVE  IInv'
<1>1. /\ lock = p /\ cs.stage = "unlink" /\ journal' = None
      /\ reg' = reg /\ file' = file /\ activity' = activity
      /\ UNCHANGED <<mode, hid, active, gate, owned>>
  BY DEF UnlinkJournal
<1>2. file = reg /\ Written /\ ~Writing /\ activity' \subseteq Holder
  BY <1>1, Context DEF IInv, CopiesInv, Writing, Written
<1>3. CASE cs.then = "raise"
  <2>1. PICK to \in {"release", "discard", "closing"} : to \in Steps /\ Unlock(p, to)
    BY <1>3, RaiseFacts DEF UnlinkJournal
  <2> QED
    BY <1>1, <1>2, <2>1, QuietUnlock
<1>4. CASE cs.then # "raise"
  <2> DEFINE st == IF cs.then = "load" THEN "load" ELSE "tidy"
  <2>1. cs' = [cs EXCEPT !.stage = st] /\ pc' = pc /\ lock' = lock
    BY <1>4 DEF UnlinkJournal
  <2>2. st \in {"load", "tidy"} /\ st \in Stages /\ (st = "load" <=> cs.then = "load")
    BY DEF Stages
  <2> HIDE DEF st
  <2>3. /\ cs' \in SectionState /\ cs'.stage = st /\ cs'.next = cs.next /\ cs'.then = cs.then
    BY <2>1, <2>2, Context, StageFacts
  <2>4. ~Writing' /\ (Written' <=> st = "tidy") /\ cs.then \in {"none", "load", "body", "poll", "observe", "closing", "raise"}
    BY <2>2, <2>3 DEF Writing, Written, SectionState
  <2>5. CopiesInv' /\ ValidInv'
    BY <1>1, <1>2, <2>2, <2>3, <2>4 DEF IInv, CopiesInv, ValidInv
  <2>6. SectionInv' /\ NextInv' /\ FreshInv' /\ EnteringInv'
    <3>1. SectionInv'
      BY <1>1, <1>2, <1>4, <2>1, <2>2, <2>3, <2>4 DEF IInv, SectionInv
    <3>2. NextInv' /\ FreshInv' /\ EnteringInv'
      BY <1>1, <1>2, <1>4, <2>1, <2>2, <2>3, <2>4
         DEF IInv, NextInv, FreshInv, EnteringInv, Flocked, Listed
    <3> QED
      BY <3>1, <3>2
  <2>7. UNCHANGED <<lock, local, owned>>
    BY <1>1, <2>1 DEF local
  <2> QED
    BY <1>1, <1>2, <2>2, <2>3, <2>4, <2>5, <2>6, <2>7, Context, StageStep
<1> QED
  BY <1>3, <1>4

LEMMA TidyInv ==
    ASSUME IInv, NEW p \in Proc, Tidy(p)
    PROVE  IInv'
<1>1. /\ lock = p /\ cs.stage = "tidy" /\ journal' = journal /\ reg' = reg /\ file' = file
      /\ UNCHANGED <<mode, hid, active, gate, owned>>
  BY DEF Tidy
<1>2. journal = None /\ file = reg /\ Written /\ ~Writing
  BY <1>1 DEF IInv, CopiesInv, Writing, Written
<1>3. activity' \subseteq activity
  BY DEF Tidy, Scavenged
<1>4. activity' \subseteq Holder
  BY <1>3, Context
<1>5. p # None /\ cs.then \in {"body", "poll", "observe", "closing"}
  BY <1>1, NoneAssumption DEF IInv, SectionInv
<1>6. CASE cs.then = "body"
  <2>1. cs' = [cs EXCEPT !.stage = "body"] /\ pc' = pc /\ lock' = lock
    BY <1>6 DEF Tidy
  <2>2. cs' \in SectionState /\ cs'.stage = "body" /\ cs'.next = cs.next /\ cs'.then = "body"
    BY <1>6, <2>1, Context, StageFacts DEF Stages
  <2>3. ~Writing' /\ ~Written'
    BY <2>2 DEF Writing, Written
  <2>4. CopiesInv' /\ ValidInv'
    BY <1>1, <1>2, <2>2, <2>3 DEF IInv, CopiesInv, ValidInv
  <2>5. SectionInv' /\ NextInv' /\ FreshInv' /\ EnteringInv'
    BY <1>1, <1>6, <2>1, <2>2, <2>3 DEF IInv, SectionInv, NextInv, FreshInv, EnteringInv
  <2>6. UNCHANGED <<lock, local, owned>>
    BY <1>1, <2>1 DEF local
  <2> QED
    BY <1>1, <1>4, <2>2, <2>3, <2>4, <2>5, <2>6, Context, StageStep
<1>7. CASE cs.then # "body"
  <2>1. Unlock(p, cs.then) /\ cs.then \in Steps
    BY <1>5, <1>7 DEF Tidy, Steps
  <2>2. cs.then \in {"observe", "held"} => Flocked(p) /\ Listed(p, reg)
    BY <1>1, <1>2, <1>5 DEF IInv, EnteringInv
  <2> QED
    BY <1>1, <1>2, <1>4, <1>5, <2>1, <2>2, QuietUnlock
<1> QED
  BY <1>6, <1>7
-----------------------------------------------------------------------------
(* The critical section: recovery, reconciliation and its purpose. *)

LEMMA RecoverJournalInv ==
    ASSUME IInv, NEW p \in Proc, RecoverJournal(p)
    PROVE  IInv'
<1>1. lock = p /\ cs.stage = "recover"
  BY DEF RecoverJournal
<1>2. journal # None /\ reg \in {journal.prev, journal.next} /\ Recovered = reg
  BY <1>1 DEF IInv, CopiesInv, Recovered
<1>3. /\ file' = reg /\ cs' = [cs EXCEPT !.stage = "unlink", !.then = "load"]
      /\ reg' = reg /\ journal' = journal /\ activity' = activity /\ lock' = lock
      /\ pc' = pc /\ mode' = mode /\ hid' = hid /\ active' = active /\ gate' = gate
      /\ owned' = owned
  BY <1>2 DEF RecoverJournal
<1>4. cs' \in SectionState /\ cs'.stage = "unlink" /\ cs'.next = cs.next /\ cs'.then = "load"
  BY <1>3, Context, StageThenFacts DEF Stages
<1>5. ~Writing /\ ~Writing' /\ ~Written /\ Written'
  BY <1>1, <1>4 DEF Writing, Written
<1>6. CopiesInv' /\ ValidInv'
  BY <1>2, <1>3, <1>4, <1>5 DEF IInv, CopiesInv, ValidInv
<1>7. SectionInv' /\ NextInv' /\ FreshInv' /\ EnteringInv'
  BY <1>3, <1>4, <1>5 DEF IInv, SectionInv, NextInv, FreshInv, EnteringInv
<1>8. UNCHANGED <<lock, local, owned>>
  BY <1>3 DEF local
<1> QED
  BY <1>1, <1>3, <1>4, <1>5, <1>6, <1>7, <1>8, Context, StageStep

\* Reconciliation keeps a valid state, and everyone who is inside.
LEMMA ReconciledFacts ==
    ASSUME IInv
    PROVE  /\ Reconciled(reg) \in LeaseState /\ Valid(Reconciled(reg))
           /\ Referenced(Reconciled(reg)) \subseteq Referenced(reg)
           /\ \A q \in Proc : Inside(q) => Listed(q, Reconciled(reg))
<1> DEFINE S == IF GateFree THEN {} ELSE reg.shared \cap Alive
           e == IF GateFree \/ reg.exclusive \notin Alive THEN None ELSE reg.exclusive
           t == [shared |-> S, pending |-> Only(reg.pending, Alive), exclusive |-> e]
<1>1. Reconciled(reg) = t
  BY DEF Reconciled
<1>2. S \subseteq reg.shared /\ e \in {None, reg.exclusive}
  OBVIOUS
<1>3. t.shared = S /\ t.exclusive = e
  OBVIOUS
<1>4. ASSUME NEW q \in Proc, Inside(q)
      PROVE  Listed(q, t)
  <2>1. /\ q \in active /\ gate[q] = mode[q] /\ mode[q] \in {"shared", "exclusive"}
        /\ Listed(q, reg)
    BY <1>4, Context DEF IInv, InsideInv, Flocked
  <2>2. ~GateFree /\ hid[q] \in Alive
    BY <2>1 DEF GateFree, Alive
  <2> HIDE DEF t
  <2> QED
    BY <1>3, <2>1, <2>2 DEF Listed
<1> HIDE DEF S, e
<1>5. t \in LeaseState /\ Valid(t) /\ Referenced(t) \subseteq Referenced(reg)
  BY <1>2, Context, PartFacts
<1> QED
  BY <1>1, <1>4, <1>5

LEMMA LoadInv ==
    ASSUME IInv, NEW p \in Proc, Load(p)
    PROVE  IInv'
<1>1. lock = p /\ cs.stage = "load"
  BY DEF Load
<1>2. journal = None /\ file \in {None, reg} /\ ~Writing /\ ~Written
  BY <1>1 DEF IInv, CopiesInv, Writing, Written
<1>3. /\ activity' = Scavenged(reg) /\ reg' = reg /\ file' = file /\ journal' = journal
      /\ lock' = lock /\ pc' = pc /\ mode' = mode /\ hid' = hid /\ active' = active
      /\ gate' = gate /\ owned' = owned
  BY <1>2 DEF Load
<1>4. activity' \subseteq Holder
  BY <1>3, Context DEF Scavenged
<1>5. CASE Reconciled(reg) = reg
  <2>1. cs' = [cs EXCEPT !.stage = "body"]
    BY <1>2, <1>5 DEF Load
  <2>2. cs' \in SectionState /\ cs'.stage = "body" /\ cs'.next = cs.next
    BY <2>1, Context, StageFacts DEF Stages
  <2>3. ~Writing' /\ ~Written'
    BY <2>2 DEF Writing, Written
  <2>4. CopiesInv' /\ ValidInv'
    BY <1>2, <1>3, <2>2, <2>3 DEF IInv, CopiesInv, ValidInv
  <2>5. SectionInv' /\ NextInv' /\ FreshInv' /\ EnteringInv'
    BY <1>1, <1>2, <1>3, <2>2, <2>3 DEF IInv, SectionInv, NextInv, FreshInv, EnteringInv
  <2>6. UNCHANGED <<lock, local, owned>>
    BY <1>3 DEF local
  <2> QED
    BY <1>1, <1>3, <1>4, <2>2, <2>3, <2>4, <2>5, <2>6, Context, StageStep
<1>6. CASE Reconciled(reg) # reg
  <2> DEFINE next == Reconciled(reg)
  <2>1. Commit(next, "body")
    BY <1>2, <1>6 DEF Load, Commit
  <2>2. /\ next \in LeaseState /\ Valid(next) /\ Referenced(next) \subseteq Referenced(reg)
        /\ \A q \in Proc : Inside(q) => Listed(q, next)
    BY ReconciledFacts
  <2> HIDE DEF next
  <2>3. /\ active' \subseteq Proc /\ active \subseteq active'
        /\ gate' \in [Proc -> {"none", "shared", "exclusive"}] /\ GateInv'
    BY <1>3, Context DEF IInv, GateInv
  <2> QED
    BY <1>1, <1>3, <1>4, <2>1, <2>2, <2>3, CommitStep
<1> QED
  BY <1>5, <1>6

\* Where the copies are when the body of the section runs.
LEMMA BodyFacts ==
    ASSUME IInv, NEW p \in Proc, lock = p, cs.stage = "body"
    PROVE  /\ journal = None /\ file \in {None, reg} /\ ~Writing /\ ~Written /\ p # None
           /\ pc[p] \in {"enqueue", "poll", "observe", "release", "discard"}
           /\ hid[p] \in Holder
<1>1. journal = None /\ file \in {None, reg} /\ ~Writing /\ ~Written
  BY DEF IInv, CopiesInv, Writing, Written
<1>2. p # None /\ pc[p] \in {"enqueue", "poll", "observe", "release", "discard"}
  BY NoneAssumption DEF IInv, SectionInv
<1>3. hid[p] \in Holder
  BY <1>2, Context DEF IInv, IdInv
<1> QED
  BY <1>1, <1>2, <1>3

LEMMA EnqueueInv ==
    ASSUME IInv, NEW p \in Proc, Enqueue(p)
    PROVE  IInv'
<1> DEFINE next == [reg EXCEPT !.pending = Append(reg.pending, hid[p])]
<1>1. /\ lock = p /\ cs.stage = "body" /\ pc[p] = "enqueue"
      /\ activity' = activity \cup {hid[p]} /\ active' = active \cup {p} /\ gate' = gate
      /\ UNCHANGED <<reg, file, journal, lock, pc, mode, hid, owned>>
      /\ Commit(next, "poll")
  BY DEF Enqueue
<1>2. hid[p] \in Holder /\ hid[p] \notin Referenced(reg)
  BY <1>1, BodyFacts DEF IInv, FreshInv
<1>3. /\ next \in LeaseState /\ Valid(next) /\ Referenced(next) \subseteq Referenced(reg) \cup {hid[p]}
      /\ next.shared = reg.shared /\ next.exclusive = reg.exclusive
  BY <1>2, Context, AppendFacts
<1> HIDE DEF next
<1>4. \A q \in Proc : Inside(q) => Listed(q, next)
  BY <1>3 DEF IInv, InsideInv, Listed
<1>5. /\ activity' \subseteq Holder /\ active' \subseteq Proc /\ active \subseteq active'
      /\ gate' \in [Proc -> {"none", "shared", "exclusive"}] /\ GateInv'
  BY <1>1, <1>2, Context DEF IInv, GateInv
<1> QED
  BY <1>1, <1>3, <1>4, <1>5, CommitStep

\* The lease state with p inside.
LEMMA GrantedFacts ==
    ASSUME IInv, NEW p \in Proc, hid[p] \in Holder, Available(p)
    PROVE  /\ Granted(p) \in LeaseState /\ Valid(Granted(p))
           /\ Referenced(Granted(p)) \subseteq Referenced(reg) \cup {hid[p]}
           /\ Listed(p, Granted(p))
<1>1. reg \in LeaseState /\ Valid(reg)
  BY Context
<1>2. CASE mode[p] = "shared"
  <2> DEFINE t == [reg EXCEPT !.shared = @ \cup {hid[p]}]
  <2>1. Granted(p) = t /\ reg.pending = <<>> /\ reg.exclusive = None
    BY <1>2 DEF Granted, Available
  <2>2. /\ t \in LeaseState /\ Valid(t) /\ Referenced(t) \subseteq Referenced(reg) \cup {hid[p]}
        /\ t.shared = reg.shared \cup {hid[p]}
    BY <1>1, <2>1, ShareFacts
  <2> HIDE DEF t
  <2> QED
    BY <1>2, <2>1, <2>2 DEF Listed
<1>3. CASE mode[p] # "shared"
  <2> DEFINE t == [reg EXCEPT !.pending = Tail(@), !.exclusive = Head(reg.pending)]
  <2>1. /\ Granted(p) = t /\ reg.pending # <<>> /\ reg.exclusive = None /\ reg.shared = {}
        /\ Head(reg.pending) = hid[p]
    BY <1>3 DEF Granted, Available
  <2>2. /\ t \in LeaseState /\ Valid(t) /\ Referenced(t) \subseteq Referenced(reg)
        /\ t.exclusive = Head(reg.pending)
    BY <1>1, <2>1, HeadFacts
  <2> HIDE DEF t
  <2> QED
    BY <1>3, <2>1, <2>2 DEF Listed
<1> QED
  BY <1>2, <1>3

LEMMA GrantInv ==
    ASSUME IInv, NEW p \in Proc, Grant(p)
    PROVE  IInv'
<1> DEFINE next == Granted(p)
<1>1. /\ lock = p /\ cs.stage = "body" /\ pc[p] = "poll" /\ Available(p) /\ GateLockable(p)
      /\ gate' = [gate EXCEPT ![p] = mode[p]]
      /\ activity' = activity \cup {hid[p]} /\ active' = active \cup {p}
      /\ UNCHANGED <<reg, file, journal, lock, pc, mode, hid, owned>>
      /\ Commit(next, "observe")
  BY DEF Grant
<1>2. hid[p] \in Holder
  BY <1>1, BodyFacts
<1>3. /\ next \in LeaseState /\ Valid(next) /\ Referenced(next) \subseteq Referenced(reg) \cup {hid[p]}
      /\ Listed(p, next)
  BY <1>1, <1>2, GrantedFacts
<1>4. ASSUME NEW q \in Proc, Inside(q)
      PROVE  Listed(q, next) /\ gate'[q] = gate[q]
  <2>1. q # p /\ hid[q] # None /\ Listed(q, reg) /\ pc[q] # "idle"
    BY <1>1, <1>4 DEF IInv, InsideInv, Inside, IdInv
  <2>2. mode[q] = "shared" /\ hid[q] \in reg.shared /\ mode[p] = "shared"
    BY <1>1, <2>1 DEF Listed, Available
  <2>3. next.shared = reg.shared \cup {hid[p]}
    BY <2>2, Context DEF Granted, LeaseState
  <2>4. gate'[q] = gate[q]
    BY <1>1, <2>1, Context
  <2> HIDE DEF next
  <2> QED
    BY <2>2, <2>3, <2>4 DEF Listed
<1> HIDE DEF next
<1>5. gate' \in [Proc -> {"none", "shared", "exclusive"}] /\ gate'[p] = mode[p]
  BY <1>1, Context
<1>6. GateInv'
  <2> SUFFICES ASSUME NEW q \in Proc, NEW r \in Proc, q # r, gate'[q] = "exclusive"
               PROVE  gate'[r] = "none"
    BY DEF GateInv
  <2>1. \A x \in Proc : gate[x] = "none" \/ (mode[p] = "shared" /\ gate[x] = "shared")
    BY <1>1 DEF GateLockable
  <2>2. \A x \in Proc : x # p => gate'[x] = gate[x]
    BY <1>1, Context
  <2> QED
    BY <1>5, <2>1, <2>2
<1>7. activity' \subseteq Holder /\ active' \subseteq Proc /\ active \subseteq active'
  BY <1>1, <1>2, Context
<1>8. p \in active'
  BY <1>1
<1> QED
  BY <1>1, <1>3, <1>4, <1>5, <1>6, <1>7, <1>8, CommitStep

LEMMA WaitInv ==
    ASSUME IInv, NEW p \in Proc, Wait(p)
    PROVE  IInv'
<1>1. /\ lock = p /\ cs.stage = "body" /\ reg' = reg /\ file' = file /\ journal' = journal
      /\ activity' = activity /\ UNCHANGED <<mode, hid, active, gate, owned>>
      /\ Unlock(p, "poll") \/ Raise(p)
  BY DEF Wait, state
<1>2. journal = None /\ file \in {None, reg} /\ ~Writing /\ activity' \subseteq Holder
  BY <1>1, BodyFacts, Context
<1>3. PICK to \in {"poll", "release", "discard", "closing"} : to \in Steps /\ Unlock(p, to)
  BY <1>1, RaiseFacts DEF Steps
<1> QED
  BY <1>1, <1>2, <1>3, QuietUnlock

LEMMA ObserveInv ==
    ASSUME IInv, NEW p \in Proc, Observe(p)
    PROVE  IInv'
<1>1. /\ lock = p /\ cs.stage = "body" /\ reg' = reg /\ file' = file /\ journal' = journal
      /\ activity' = activity /\ UNCHANGED <<mode, hid, active, gate, owned>>
      /\ Unlock(p, "held") /\ pc[p] = "observe"
  BY DEF Observe, state
<1>2. journal = None /\ file \in {None, reg} /\ ~Writing /\ activity' \subseteq Holder
  BY <1>1, BodyFacts, Context
<1>3. Flocked(p) /\ Listed(p, reg) /\ "held" \in Steps
  BY <1>1 DEF IInv, InsideInv, Inside, Steps
<1> QED
  BY <1>1, <1>2, <1>3, QuietUnlock

LEMMA ReleaseInv ==
    ASSUME IInv, NEW p \in Proc, Release(p)
    PROVE  IInv'
<1> DEFINE next == Without(reg, hid[p])
<1>1. /\ lock = p /\ cs.stage = "body" /\ reg' = reg /\ file' = file /\ journal' = journal
      /\ activity' = activity /\ UNCHANGED <<mode, hid, active, gate, owned>>
      /\ pc[p] = "release"
      /\ IF next = reg THEN Raise(p) ELSE Commit(next, "closing") /\ UNCHANGED <<pc, lock>>
  BY DEF Release, state
<1>2. journal = None /\ file \in {None, reg} /\ ~Writing /\ activity' \subseteq Holder
  BY <1>1, BodyFacts, Context
<1>3. CASE next = reg
  <2>1. PICK to \in {"release", "discard", "closing"} : to \in Steps /\ Unlock(p, to)
    BY <1>1, <1>3, RaiseFacts
  <2> QED
    BY <1>1, <1>2, <2>1, QuietUnlock
<1>4. CASE next # reg
  <2> DEFINE S == reg.shared \ {hid[p]}
             e == IF reg.exclusive = hid[p] THEN None ELSE reg.exclusive
  <2>1. S \subseteq reg.shared /\ e \in {None, reg.exclusive}
    OBVIOUS
  <2>2. next = [shared |-> S, pending |-> reg.pending, exclusive |-> e]
    BY DEF Without
  <2>3. next.shared = S /\ next.exclusive = e
    BY <2>2
  <2>4. ASSUME NEW q \in Proc, Inside(q)
        PROVE  Listed(q, next)
    <3>1. q # p /\ hid[q] # None /\ hid[q] # hid[p] /\ Listed(q, reg)
      BY <1>1, <2>4 DEF IInv, InsideInv, Inside, IdInv
    <3> HIDE DEF next
    <3> QED
      BY <2>3, <3>1 DEF Listed
  <2> HIDE DEF S, e
  <2>5. next \in LeaseState /\ Valid(next) /\ Referenced(next) \subseteq Referenced(reg)
    <3> DEFINE t == [shared |-> S, pending |-> Only(reg.pending, {}), exclusive |-> e]
               u == [shared |-> S, pending |-> reg.pending, exclusive |-> e]
    <3>1. /\ t \in LeaseState /\ Valid(t) /\ Referenced(t) \subseteq Referenced(reg)
          /\ u \in LeaseState /\ Valid(u) /\ Referenced(u) \subseteq Referenced(reg)
      BY <2>1, Context, PartFacts
    <3> QED
      BY <2>2, <3>1
  <2> HIDE DEF next
  <2>6. /\ active' \subseteq Proc /\ active \subseteq active'
        /\ gate' \in [Proc -> {"none", "shared", "exclusive"}] /\ GateInv'
    BY <1>1, Context DEF IInv, GateInv
  <2> QED
    BY <1>1, <1>2, <1>4, <2>4, <2>5, <2>6, CommitStep
<1> QED
  BY <1>3, <1>4

LEMMA DiscardInv ==
    ASSUME IInv, NEW p \in Proc, Discard(p)
    PROVE  IInv'
<1> DEFINE left == Only(reg.pending, Holder \ {hid[p]})
           next == [reg EXCEPT !.pending = left]
<1>1. /\ lock = p /\ cs.stage = "body" /\ reg' = reg /\ file' = file /\ journal' = journal
      /\ activity' = activity /\ UNCHANGED <<mode, hid, active, gate, owned>>
      /\ pc[p] = "discard"
      /\ Unlock(p, "closing") \/ (Commit(next, "closing") /\ UNCHANGED <<pc, lock>>)
  BY DEF Discard, state
<1>2. journal = None /\ file \in {None, reg} /\ ~Writing /\ activity' \subseteq Holder
  BY <1>1, BodyFacts, Context
<1>3. CASE Unlock(p, "closing")
  BY <1>1, <1>2, <1>3, QuietUnlock DEF Steps
<1>4. CASE Commit(next, "closing") /\ UNCHANGED <<pc, lock>>
  <2> DEFINE t == [shared |-> reg.shared, pending |-> left, exclusive |-> reg.exclusive]
  <2>1. t \in LeaseState /\ Valid(t) /\ Referenced(t) \subseteq Referenced(reg)
    BY Context, PartFacts
  <2> HIDE DEF left
  <2>2. next = t /\ t.shared = reg.shared /\ t.exclusive = reg.exclusive
    BY Context DEF LeaseState
  <2> HIDE DEF next, t
  <2>3. \A q \in Proc : Inside(q) => Listed(q, next)
    BY <2>2 DEF IInv, InsideInv, Listed
  <2>4. /\ active' \subseteq Proc /\ active \subseteq active'
        /\ gate' \in [Proc -> {"none", "shared", "exclusive"}] /\ GateInv'
    BY <1>1, Context DEF IInv, GateInv
  <2> QED
    BY <1>1, <1>2, <1>4, <2>1, <2>2, <2>3, <2>4, CommitStep
<1> QED
  BY <1>1, <1>3, <1>4
-----------------------------------------------------------------------------
(* The invariant, and what it says. *)

LEMMA NextStepInv == IInv /\ [Next]_vars => IInv'
<1> SUFFICES ASSUME IInv, [Next]_vars PROVE IInv'
  OBVIOUS
<1>1. CASE UNCHANGED vars
  <2>1. /\ reg' = reg /\ file' = file /\ journal' = journal /\ activity' = activity
        /\ lock' = lock /\ cs' = cs /\ pc' = pc /\ mode' = mode /\ hid' = hid
        /\ active' = active /\ gate' = gate /\ owned' = owned
    BY <1>1 DEF vars, state, local
  <2>2. TypeInv' /\ CopiesInv' /\ ValidInv' /\ SectionInv'
    BY <2>1 DEF IInv, TypeInv, TypeOK, CopiesInv, ValidInv, SectionInv, Writing, Written
  <2>3. IdInv' /\ NextInv' /\ FreshInv' /\ InsideInv' /\ EnteringInv' /\ GateInv'
    BY <2>1 DEF IInv, IdInv, NextInv, FreshInv, InsideInv, Inside, EnteringInv, GateInv,
                Flocked, Listed, Writing, Written
  <2> QED
    BY <2>2, <2>3 DEF IInv
<1>2. CASE Next
  <2>1. PICK p \in Proc : \/ \E m \in {"shared", "exclusive"} : Start(p, m)
                          \/ Lock(p) \/ Progress(p) \/ Withdraw(p) \/ Crash(p)
    BY <1>2 DEF Next
  <2>2. CASE \E m \in {"shared", "exclusive"} : Start(p, m)
    BY <2>2, StartInv
  <2>3. CASE Lock(p)
    BY <2>3, LockInv
  <2>4. CASE Withdraw(p)
    BY <2>4, WithdrawInv
  <2>5. CASE Crash(p)
    BY <2>5, CrashInv
  <2>6. CASE Fenced(p) \/ Finish(p) \/ CloseActivity(p) \/ CloseGate(p)
    BY <2>6, OutsideInv
  <2>7. CASE RecoverJournal(p) \/ Load(p)
    BY <2>7, RecoverJournalInv, LoadInv
  <2>8. CASE WriteJournal(p) \/ WriteFile(p) \/ WriteRegistry(p) \/ UnlinkJournal(p) \/ Tidy(p)
    BY <2>8, WriteJournalInv, WriteFileInv, WriteRegistryInv, UnlinkJournalInv, TidyInv
  <2>9. CASE RegistryFails(p) \/ RegistryUnreadable(p)
    BY <2>9, RegistryFailsInv, RegistryUnreadableInv
  <2>10. CASE Enqueue(p) \/ Grant(p) \/ Wait(p) \/ Observe(p) \/ Release(p) \/ Discard(p)
    BY <2>10, EnqueueInv, GrantInv, WaitInv, ObserveInv, ReleaseInv, DiscardInv
  <2> QED
    BY <2>1, <2>2, <2>3, <2>4, <2>5, <2>6, <2>7, <2>8, <2>9, <2>10 DEF Progress, Section
<1> QED
  BY <1>1, <1>2

LEMMA Invariance == Spec => []IInv
BY InitInv, NextStepInv, PTL DEF Spec

\* TypeOK holds for any processes, holder ids and bounds: in particular the
\* state lock is held exactly while a critical section is under way.
THEOREM LeaseTypeCorrect == Spec => []TypeOK
<1>1. IInv => TypeOK
  BY DEF IInv, TypeInv
<1> QED
  BY <1>1, Invariance, PTL

\* Every lease state the module writes is valid, and whenever the state lock is
\* free the next process can recover and load, whichever writes of however many
\* commits a crash or a failing registry cut short.
THEOREM AlwaysRecoverable == Spec => []Recoverable
<1>1. IInv => Recoverable
  <2> SUFFICES ASSUME IInv PROVE Recoverable
    OBVIOUS
  <2>1. lock = None => cs.stage = "none"
    BY Context
  <2>2. lock = None => IF journal # None THEN reg \in {journal.prev, journal.next}
                       ELSE file \in {None, reg}
    BY <2>1 DEF IInv, CopiesInv
  <2> QED
    BY <2>2 DEF IInv, ValidInv, Recoverable
<1> QED
  BY <1>1, Invariance, PTL

\* The entry of a living holder stays in the registry until the holder takes it
\* out: no reconciliation, recovery or roll-back of another process drops it.
THEOREM HoldersStayListed == Spec => []HolderListed
<1>1. IInv => HolderListed
  BY DEF IInv, InsideInv, Inside, Listed, HolderListed
<1> QED
  BY <1>1, Invariance, PTL
-----------------------------------------------------------------------------
(* The effect window. *)

\* The refinement mapping.
Seen == [p \in Proc |-> IF pc[p] \in {"observe", "held"} THEN mode[p] ELSE "out"]

\* What p does to the window: nobody else moves, and p is let in only as an owner.
Moves(p) ==
    /\ owned' = owned
    /\ \A q \in Proc : q # p => pc'[q] = pc[q] /\ mode'[q] = mode[q]
    /\ Inside(p)' => (Inside(p) \/ owned) /\ mode'[p] = mode[p]

\* Such a step is a step of the abstract window, or changes nothing there: the
\* flocks of those who are inside exclude one another, so that p is let in as a
\* change only alone, and as an effect only among effects.
LEMMA MovesStep ==
    ASSUME IInv, IInv', NEW p \in Proc, Moves(p)
    PROVE  [Window!Next]_(Window!vars)
<1>1. /\ \A q \in Proc : q # p => Seen'[q] = Seen[q]
      /\ \A q \in Proc : Seen[q] = IF Inside(q) THEN mode[q] ELSE "out"
      /\ \A q \in Proc : Seen'[q] = IF Inside(q)' THEN mode'[q] ELSE "out"
      /\ Seen = [q \in Proc |-> Seen[q]] /\ Seen' = [q \in Proc |-> Seen'[q]]
  BY DEF Moves, Seen, Inside
<1>2. owned' = owned /\ mode[p] \in {"shared", "exclusive"} /\ mode'[p] \in {"shared", "exclusive"}
  <2>1. mode[p] \in {"shared", "exclusive"}
    BY Context
  <2>2. mode' \in [Proc -> {"shared", "exclusive"}]
    BY DEF IInv, TypeInv, TypeOK
  <2> QED
    BY <2>1, <2>2 DEF Moves
<1>3. CASE Seen'[p] = Seen[p]
  <2>1. Seen' = Seen
    BY <1>1, <1>3
  <2> QED
    BY <1>2, <2>1 DEF Window!vars, Seen
<1>4. Seen' = [Seen EXCEPT ![p] = Seen'[p]]
  BY <1>1
<1>5. CASE Seen'[p] # Seen[p] /\ ~Inside(p)'
  <2>1. Seen[p] # "out" /\ Seen' = [Seen EXCEPT ![p] = "out"]
    BY <1>1, <1>4, <1>5
  <2>2. Window!Leave(p)
    BY <1>2, <2>1 DEF Window!Leave, Seen
  <2> QED
    BY <2>2 DEF Window!Next
<1>6. CASE Seen'[p] # Seen[p] /\ Inside(p)'
  <2>1. ~Inside(p) /\ owned /\ Seen[p] = "out" /\ Seen'[p] = mode[p] /\ mode'[p] = mode[p]
    BY <1>1, <1>6 DEF Moves
  <2>2. ASSUME NEW q \in Proc, Inside(q)
        PROVE  mode[q] = "shared" /\ mode[p] = "shared"
    <3>1. q # p /\ pc'[q] = pc[q] /\ mode'[q] = mode[q]
      BY <2>1, <2>2 DEF Moves
    <3>2. Inside(q)'
      BY <2>2, <3>1 DEF Inside
    <3>3. mode'[p] = "shared" /\ mode'[q] = "shared"
      <4>1. InsideInv' /\ GateInv'
        BY DEF IInv
      <4>2. gate'[p] = mode'[p] /\ gate'[q] = mode'[q]
        BY <1>6, <3>2, <4>1 DEF InsideInv, Flocked
      <4>3. mode'[q] \in {"shared", "exclusive"}
        BY <3>1, Context
      <4> QED
        BY <1>2, <3>1, <4>1, <4>2, <4>3 DEF GateInv
    <3> QED
      BY <2>1, <3>1, <3>3
  <2>3. CASE mode[p] = "shared"
    <3>1. \A q \in Proc : Seen[q] # "exclusive"
      BY <1>1, <2>2
    <3>2. Seen' = [Seen EXCEPT ![p] = "shared"]
      BY <1>4, <2>1, <2>3
    <3>3. Window!EnterShared(p)
      BY <1>2, <2>1, <3>1, <3>2 DEF Window!EnterShared, Seen
    <3> QED
      BY <3>3 DEF Window!Next
  <2>4. CASE mode[p] = "exclusive"
    <3>1. \A q \in Proc : Seen[q] = "out"
      BY <1>1, <2>2, <2>4
    <3>2. Seen' = [Seen EXCEPT ![p] = "exclusive"]
      BY <1>4, <2>1, <2>4
    <3>3. Window!EnterExclusive(p)
      BY <1>2, <2>1, <3>1, <3>2 DEF Window!EnterExclusive, Seen
    <3> QED
      BY <3>3 DEF Window!Next
  <2> QED
    BY <1>2, <2>3, <2>4
<1> QED
  BY <1>3, <1>5, <1>6

\* A critical section that ends elsewhere than in the window.
LEMMA UnlockMoves ==
    ASSUME IInv, NEW p \in Proc, NEW to, Unlock(p, to), UNCHANGED <<mode, owned>>,
           to \in {"observe", "held"} => Inside(p) \/ owned
    PROVE  Moves(p)
<1>1. /\ pc' = [pc EXCEPT ![p] = to] /\ mode' = mode /\ owned' = owned
  BY DEF Unlock
<1>2. pc'[p] = to /\ \A q \in Proc : q # p => pc'[q] = pc[q]
  BY <1>1, Context
<1> QED
  BY <1>1, <1>2 DEF Moves, Inside

LEMMA RaiseMoves ==
    ASSUME IInv, NEW p \in Proc, Raise(p), UNCHANGED <<mode, owned>>
    PROVE  Moves(p)
<1>1. PICK to \in {"release", "discard", "closing"} : Unlock(p, to)
  BY RaiseFacts
<1> QED
  BY <1>1, UnlockMoves

\* Steps that move no process.
LEMMA StillMoves ==
    ASSUME NEW p \in Proc, UNCHANGED <<pc, mode, owned>>
    PROVE  Moves(p)
BY DEF Moves, Inside

LEMMA OutsideMoves ==
    ASSUME IInv, NEW p \in Proc,
           \/ \E m \in {"shared", "exclusive"} : Start(p, m)
           \/ Lock(p) \/ Fenced(p) \/ Finish(p) \/ CloseActivity(p) \/ CloseGate(p) \/ Crash(p)
    PROVE  Moves(p)
<1>1. CASE Lock(p)
  BY <1>1, StillMoves DEF Lock, local
<1>2. CASE ~Lock(p)
  <2>1. /\ owned' = owned
        /\ \E m \in {"shared", "exclusive"} : mode' = mode \/ mode' = [mode EXCEPT ![p] = m]
        /\ \E to \in {"enqueue", "poll", "discard", "closing", "release", "ungate", "idle"} :
               pc' = [pc EXCEPT ![p] = to]
    BY <1>2 DEF Start, Fenced, Finish, CloseActivity, CloseGate, Crash
  <2>2. \A q \in Proc : q # p => pc'[q] = pc[q] /\ mode'[q] = mode[q]
    BY <2>1, Context
  <2>3. pc'[p] \notin {"observe", "held"}
    BY <2>1, Context
  <2> QED
    BY <2>1, <2>2, <2>3 DEF Moves, Inside
<1> QED
  BY <1>1, <1>2

LEMMA SectionMoves ==
    ASSUME IInv, NEW p \in Proc, Section(p)
    PROVE  Moves(p)
<1>1. CASE WriteJournal(p) \/ WriteFile(p) \/ WriteRegistry(p) \/ RegistryFails(p)
  BY <1>1, StillMoves DEF WriteJournal, WriteFile, WriteRegistry, RegistryFails, local
<1>2. CASE Enqueue(p) \/ Grant(p)
  BY <1>2, StillMoves DEF Enqueue, Grant
<1>3. CASE RecoverJournal(p)
  BY <1>3, StillMoves, RaiseMoves DEF RecoverJournal
<1>4. CASE Load(p)
  BY <1>4, StillMoves, RaiseMoves DEF Load
<1>5. CASE RegistryUnreadable(p)
  BY <1>5, RaiseMoves DEF RegistryUnreadable
<1>6. CASE UnlinkJournal(p)
  BY <1>6, StillMoves, RaiseMoves DEF UnlinkJournal
<1>7. CASE Wait(p)
  <2>1. Unlock(p, "poll") \/ Raise(p)
    BY <1>7 DEF Wait
  <2>2. mode' = mode /\ owned' = owned
    BY <1>7 DEF Wait
  <2> QED
    BY <2>1, <2>2, UnlockMoves, RaiseMoves
<1>8. CASE Observe(p)
  <2>1. Inside(p) /\ Unlock(p, "held") /\ mode' = mode /\ owned' = owned
    BY <1>8 DEF Observe, Inside
  <2> QED
    BY <2>1, UnlockMoves
<1>9. CASE Release(p)
  BY <1>9, StillMoves, RaiseMoves DEF Release
<1>10. CASE Discard(p)
  <2>1. Unlock(p, "closing") \/ UNCHANGED <<pc, lock>>
    BY <1>10 DEF Discard
  <2>2. mode' = mode /\ owned' = owned
    BY <1>10 DEF Discard
  <2> QED
    BY <2>1, <2>2, UnlockMoves, StillMoves
<1>11. CASE Tidy(p)
  <2>1. /\ lock = p /\ cs.stage = "tidy" /\ mode' = mode /\ owned' = owned
        /\ Unlock(p, cs.then) \/ UNCHANGED <<pc, lock>>
    BY <1>11 DEF Tidy
  <2>2. cs.then \in {"observe", "held"} => owned
    BY <2>1, NoneAssumption DEF IInv, SectionInv, Written
  <2> QED
    BY <2>1, <2>2, UnlockMoves, StillMoves
<1> QED
  BY <1>1, <1>2, <1>3, <1>4, <1>5, <1>6, <1>7, <1>8, <1>9, <1>10, <1>11 DEF Section

LEMMA WindowStep == IInv /\ IInv' /\ [Next]_vars => [Window!Next]_(Window!vars)
<1> SUFFICES ASSUME IInv, IInv', [Next]_vars PROVE [Window!Next]_(Window!vars)
  OBVIOUS
<1>1. CASE UNCHANGED vars
  BY <1>1 DEF vars, local, Window!vars
<1>2. CASE Next
  <2>1. PICK p \in Proc : \/ \E m \in {"shared", "exclusive"} : Start(p, m)
                          \/ Lock(p) \/ Progress(p) \/ Withdraw(p) \/ Crash(p)
    BY <1>2 DEF Next
  <2>2. CASE Withdraw(p)
    <3>1. /\ pc[p] = "held" /\ mode[p] = "exclusive" /\ owned' = FALSE
          /\ pc' = pc /\ mode' = mode
      BY <2>2 DEF Withdraw, local
    <3>2. Seen[p] = "exclusive" /\ Seen' = Seen
      BY <3>1 DEF Seen
    <3>3. Window!Withdraw(p)
      BY <3>1, <3>2 DEF Window!Withdraw, Seen
    <3> QED
      BY <3>3 DEF Window!Next
  <2>3. CASE ~Withdraw(p)
    <3>1. Moves(p)
      BY <2>1, <2>3, OutsideMoves, SectionMoves DEF Progress
    <3> QED
      BY <3>1, MovesStep
  <2> QED
    BY <2>2, <2>3
<1> QED
  BY <1>1, <1>2

\* The two flocks, the queue and the journal implement the effect window: a change
\* is inside alone, nobody is let in after ownership was withdrawn, and only a
\* change that is inside withdraws it, whatever crashes and whatever commit fails.
THEOREM LeaseImplementsWindow == Spec => ImplementsWindow
<1>1. Init => Window!Init
  BY DEF Init, Window!Init
<1>2. IInv /\ IInv' /\ [Next]_vars => [Window!Next]_(Window!vars)
  BY WindowStep
<1> QED
  BY <1>1, <1>2, Invariance, PTL DEF Spec, ImplementsWindow, Window!Spec
=============================================================================
