----------------------- MODULE ChannelTransferProofs -----------------------
(***************************************************************************)
(* Proofs about ChannelTransfer and the StoppedWindow it works in, for any *)
(* set of controllers, consumers, commands and row slots and any number of *)
(* windows and crashes.                                                    *)
(***************************************************************************)
EXTENDS ChannelTransfer, SequenceTheorems, TLAPS

-----------------------------------------------------------------------------
(* The writes a command decides on *)

AWrite == [file : File, to : Claim \cup {None}]

Proving(v) == v # None /\ v.phase = "proved"

\* s writes no tombstone, or nothing that says "proved".
NoNone(s) == \A i \in 1 .. Len(s) : s[i].to # None
NoProof(s) == \A i \in 1 .. Len(s) : ~Proving(s[i].to)

\* No service runs; a worker started by hand may.
Quiet == \A x \in Consumer \ Command : cons[x] # "up"

\* A file is removed only after everything that says "proved" was written, and
\* a command that will write such a thing found a lease and every service down.
GoodTodo(s) ==
    /\ s \in Seq(AWrite)
    /\ \A i \in 1 .. Len(s) : Proving(s[i].to) => \A k \in 1 .. i : s[k].to # None
    /\ NoProof(s) \/ (files.lease # None /\ Quiet)

LEMMA WriteFacts ==
    ASSUME NEW f \in File, NEW v \in Claim \cup {None}
    PROVE  Write(f, v) \in AWrite /\ Write(f, v).to = v /\ Write(f, v).file = f
  BY DEF Write, AWrite

\* A sequence of one write.
LEMMA OneWrite ==
    ASSUME NEW f \in File, NEW v \in Claim \cup {None}
    PROVE  /\ <<Write(f, v)>> \in Seq(AWrite) /\ Len(<<Write(f, v)>>) = 1
           /\ v # None => NoNone(<<Write(f, v)>>)
           /\ ~Proving(v) => NoProof(<<Write(f, v)>>)
  BY WriteFacts DEF NoNone, NoProof

LEMMA NoWrite ==
    <<>> \in Seq(AWrite) /\ Len(<<>>) = 0 /\ NoNone(<<>>) /\ NoProof(<<>>)
  BY EmptySeq DEF NoNone, NoProof

LEMMA ConcatWrites ==
    ASSUME NEW s \in Seq(AWrite), NEW t \in Seq(AWrite)
    PROVE  /\ s \o t \in Seq(AWrite) /\ Len(s \o t) = Len(s) + Len(t)
           /\ NoNone(s) /\ NoNone(t) => NoNone(s \o t)
           /\ NoProof(s) /\ NoProof(t) => NoProof(s \o t)
  <1>1. Len(s) \in Nat /\ Len(t) \in Nat
    BY LenProperties
  <1>2. /\ s \o t \in Seq(AWrite) /\ Len(s \o t) = Len(s) + Len(t)
        /\ \A i \in 1 .. Len(s) + Len(t) : (s \o t)[i] =
                     IF i <= Len(s) THEN s[i] ELSE t[i - Len(s)]
    BY ConcatProperties
  <1>3. \A i \in 1 .. Len(s \o t) : i > Len(s) => i - Len(s) \in 1 .. Len(t)
    BY <1>1, <1>2
  <1>4. \A i \in 1 .. Len(s \o t) : i <= Len(s) => i \in 1 .. Len(s)
    BY <1>1, <1>2
  <1>5. NoNone(s) /\ NoNone(t) => NoNone(s \o t)
    BY <1>1, <1>2, <1>3, <1>4 DEF NoNone
  <1>6. NoProof(s) /\ NoProof(t) => NoProof(s \o t)
    BY <1>1, <1>2, <1>3, <1>4 DEF NoProof
  <1> QED
    BY <1>2, <1>5, <1>6

LEMMA SmallSum ==
    ASSUME NEW a \in 0 .. 4, NEW b \in 0 .. 6, NEW n, n = a + b
    PROVE  n \in 0 .. 10
  OBVIOUS

\* A command that proves and then removes is good.
LEMMA GoodConcat ==
    ASSUME NEW s \in Seq(AWrite), NEW t \in Seq(AWrite), NoNone(s), NoProof(t),
           NoProof(s) \/ (files.lease # None /\ Quiet)
    PROVE  GoodTodo(s \o t)
  <1>1. Len(s) \in Nat /\ Len(t) \in Nat
    BY LenProperties
  <1>2. /\ s \o t \in Seq(AWrite) /\ Len(s \o t) = Len(s) + Len(t)
        /\ \A i \in 1 .. Len(s) + Len(t) : (s \o t)[i] =
                     IF i <= Len(s) THEN s[i] ELSE t[i - Len(s)]
    BY ConcatProperties
  <1>3. ASSUME NEW i \in 1 .. Len(s \o t), Proving((s \o t)[i].to)
        PROVE  i \in 1 .. Len(s)
    <2>1. CASE i > Len(s)
      <3>1. i - Len(s) \in 1 .. Len(t) /\ (s \o t)[i] = t[i - Len(s)]
        BY <2>1, <1>1, <1>2
      <3> QED
        BY <3>1, <1>3 DEF NoProof
    <2> QED
      BY <2>1, <1>1, <1>2
  <1>4. ASSUME NEW i \in 1 .. Len(s), NEW k \in 1 .. i PROVE (s \o t)[k].to # None
    <2>1. k \in 1 .. Len(s) /\ (s \o t)[k] = s[k]
      BY <1>1, <1>2
    <2> QED
      BY <2>1 DEF NoNone
  <1>5. NoProof(s) => NoProof(s \o t)
    BY ConcatWrites
  <1> QED
    BY <1>2, <1>3, <1>4, <1>5 DEF GoodTodo

LEMMA GoodNoProof ==
    ASSUME NEW s \in Seq(AWrite), NoProof(s)
    PROVE  GoodTodo(s)
  BY DEF GoodTodo, NoProof

LEMMA GoodNoNone ==
    ASSUME NEW s \in Seq(AWrite), NoNone(s), NoProof(s) \/ (files.lease # None /\ Quiet)
    PROVE  GoodTodo(s)
  <1>1. Len(s) \in Nat
    BY LenProperties
  <1> QED
    BY <1>1 DEF GoodTodo, NoNone

\* What is left of a good command after its first write is good.
LEMMA GoodTail ==
    ASSUME NEW s, GoodTodo(s), s # <<>>
    PROVE  /\ Tail(s) \in Seq(AWrite) /\ Len(Tail(s)) = Len(s) - 1 /\ Len(s) \in Nat
           /\ Head(s) \in AWrite /\ Head(s) = s[1] /\ 1 \in 1 .. Len(s)
           /\ \A i \in 1 .. Len(Tail(s)) :
                 Proving(Tail(s)[i].to) => \A k \in 1 .. i : Tail(s)[k].to # None
           /\ NoProof(s) => NoProof(Tail(s))
           /\ Proving(Head(s).to) => ~NoProof(s)
           /\ Head(s).to # None \/ NoProof(Tail(s))
  <1>1. s \in Seq(AWrite) /\ Len(s) \in Nat /\ Len(s) # 0
    BY LenProperties, EmptySeq DEF GoodTodo
  <1>2. /\ Head(s) \in AWrite /\ Tail(s) \in Seq(AWrite) /\ Len(Tail(s)) = Len(s) - 1
        /\ \A i \in 1 .. Len(Tail(s)) : Tail(s)[i] = s[i + 1]
    BY <1>1, HeadTailProperties
  <1>3. Head(s) = s[1] /\ 1 \in 1 .. Len(s)
    BY <1>1
  <1>4. \A i \in 1 .. Len(Tail(s)) : i + 1 \in 1 .. Len(s) /\ \A k \in 1 .. i : k + 1 \in 1 .. i + 1
    BY <1>1, <1>2
  <1>5. \A i \in 1 .. Len(Tail(s)) :
            Proving(Tail(s)[i].to) => \A k \in 1 .. i : Tail(s)[k].to # None
    <2> SUFFICES ASSUME NEW i \in 1 .. Len(Tail(s)), Proving(Tail(s)[i].to), NEW k \in 1 .. i
                 PROVE  Tail(s)[k].to # None
      OBVIOUS
    <2>1. k \in 1 .. Len(Tail(s)) /\ Tail(s)[i] = s[i + 1] /\ Tail(s)[k] = s[k + 1]
      BY <1>1, <1>2
    <2> QED
      BY <2>1, <1>4 DEF GoodTodo
  <1>6. NoProof(s) => NoProof(Tail(s))
    BY <1>2, <1>4 DEF NoProof
  <1>7. Proving(Head(s).to) => ~NoProof(s)
    BY <1>3 DEF NoProof
  <1>8. Head(s).to # None \/ NoProof(Tail(s))
    <2>1. \A i \in 1 .. Len(Tail(s)) : 1 \in 1 .. i + 1
      BY <1>1, <1>2
    <2> QED
      BY <2>1, <1>2, <1>3, <1>4 DEF GoodTodo, NoProof
  <1> QED
    BY <1>1, <1>2, <1>3, <1>5, <1>6, <1>7, <1>8
-----------------------------------------------------------------------------
(* What each command of StoppedWindow decides to write *)

Step == {"new", "begun", "proved", "bound", "failed", "done"}

IsJob(j) ==
    /\ j \in [by : Controller \cup {Coordinator}, todo : Seq(AWrite), then : Step]
    /\ Len(j.todo) \in 0 .. 10
    /\ GoodTodo(j.todo)

\* The window's part of the invariant: as long as a file says "proved", or will,
\* no service is up.
WindowInv ==
    /\ WindowTypeOK
    /\ job = None \/ IsJob(job)
    /\ Proving(files.lease) \/ Proving(files.block) => Quiet

LEMMA ClaimFacts ==
    ASSUME NEW c \in Claim
    PROVE  /\ c # None
           /\ c.nonce \in 1 .. MaxWindows /\ c.by \in Controller
           /\ [c EXCEPT !.phase = "proved"] \in Claim
           /\ [c EXCEPT !.phase = "proved"].phase = "proved"
           /\ [[c EXCEPT !.phase = "proved"] EXCEPT !.bound = FALSE] \in Claim
           /\ [c EXCEPT !.bound = TRUE] \in Claim
           /\ [c EXCEPT !.bound = TRUE].phase = c.phase
           /\ \A r \in {"aborted", "finished", "transfer"} :
                 LET d == [c EXCEPT !.phase = "cleanup", !.result = r]
                 IN  d \in Claim /\ d.phase = "cleanup" /\ ~Proving(d)
  BY NoClaimAssumption DEF Claim, Proving

LEMMA NewClaimFacts ==
    ASSUME NEW c \in Controller, NEW n \in 1 .. MaxWindows
    PROVE  NewClaim(c, n) \in Claim /\ ~Proving(NewClaim(c, n)) /\ NewClaim(c, n) # None
  <1>1. NewClaim(c, n) \in Claim
    BY WindowsAssumption DEF NewClaim, Claim
  <1>2. NewClaim(c, n).phase = "claimed"
    BY DEF NewClaim
  <1> QED
    BY <1>1, <1>2, NoClaimAssumption DEF Proving

LEMMA FilesFacts ==
    ASSUME WindowTypeOK
    PROVE  /\ \A f \in File : files[f] \in Claim \cup {None}
           /\ files.lease \in Claim \cup {None} /\ files.block \in Claim \cup {None}
           /\ files.fence \in Claim \cup {None} /\ files.proof \in Claim \cup {None}
  BY DEF WindowTypeOK, File

LEMMA FileNames == "block" \in File /\ "lease" \in File /\ "fence" \in File /\ "proof" \in File
  BY DEF File

\* Bringing the block in line writes what the lease says.
LEMMA SyncWrites ==
    ASSUME WindowTypeOK, files.lease # None
    PROVE  /\ Sync \in Seq(AWrite) /\ Len(Sync) \in 0 .. 1 /\ NoNone(Sync)
           /\ ~Proving(files.lease) => NoProof(Sync)
  <1>1. CASE files.block = files.lease
    BY <1>1, NoWrite DEF Sync
  <1>2. CASE files.block # files.lease
    BY <1>2, FilesFacts, OneWrite, FileNames DEF Sync
  <1> QED
    BY <1>1, <1>2

LEMMA CleanupFacts ==
    Cleanup \in Seq(AWrite) /\ Len(Cleanup) = 4 /\ NoProof(Cleanup)
  <1>1. \A f \in File : Write(f, None) \in AWrite /\ ~Proving(Write(f, None).to)
    BY WriteFacts DEF Proving
  <1>2. Cleanup \in Seq(AWrite) /\ Len(Cleanup) = 4
    BY <1>1, FileNames DEF Cleanup
  <1> QED
    BY <1>1, <1>2, FileNames DEF Cleanup, NoProof

LEMMA CleanupTodo ==
    ASSUME WindowInv
    PROVE  GoodTodo(CleanupWrites) /\ Len(CleanupWrites) \in 0 .. 5
  <1> DEFINE s == IF files.lease # None THEN Sync ELSE <<>>
  <1>1. s \in Seq(AWrite) /\ Len(s) \in 0 .. 1 /\ NoNone(s)
    BY SyncWrites, NoWrite DEF WindowInv
  <1>2. NoProof(s) \/ (files.lease # None /\ Quiet)
    BY SyncWrites, NoWrite DEF WindowInv
  <1>3. CleanupWrites = s \o Cleanup
    BY DEF CleanupWrites
  <1> HIDE DEF s
  <1>4. GoodTodo(s \o Cleanup)
    BY <1>1, <1>2, CleanupFacts, GoodConcat
  <1>5. Len(s \o Cleanup) = Len(s) + Len(Cleanup)
    BY <1>1, CleanupFacts, ConcatWrites
  <1>6. Len(s \o Cleanup) \in 0 .. 5
    <2> DEFINE n == Len(s)
    <2>1. Len(s \o Cleanup) = n + 4 /\ n \in 0 .. 1
      BY <1>1, <1>5, CleanupFacts
    <2> HIDE DEF n
    <2> QED
      BY <2>1
  <1> QED
    BY <1>3, <1>4, <1>6, Zenon

LEMMA EndWrites ==
    ASSUME NEW lease \in Claim, NEW result \in {"aborted", "finished", "transfer"}
    PROVE  End(lease, result) \in Seq(AWrite) /\ Len(End(lease, result)) = 6 /\ NoProof(End(lease, result))
  <1> DEFINE ended == [lease EXCEPT !.phase = "cleanup", !.result = result]
             two == <<Write("lease", ended), Write("block", ended)>>
  <1>1. ended \in Claim /\ ~Proving(ended)
    BY ClaimFacts
  <1> HIDE DEF ended
  <1>2. /\ Write("lease", ended) \in AWrite /\ Write("block", ended) \in AWrite
        /\ Write("lease", ended).to = ended /\ Write("block", ended).to = ended
    BY <1>1, FileNames, WriteFacts
  <1>3. two \in Seq(AWrite) /\ Len(two) = 2
    BY <1>2
  <1>4. NoProof(two)
    BY <1>1, <1>2, <1>3 DEF NoProof
  <1>5. End(lease, result) = two \o Cleanup
    BY DEF End, ended
  <1> HIDE DEF two
  <1>6. /\ two \o Cleanup \in Seq(AWrite) /\ Len(two \o Cleanup) = Len(two) + Len(Cleanup)
        /\ NoProof(two \o Cleanup)
    BY <1>3, <1>4, CleanupFacts, ConcatWrites
  <1> QED
    BY <1>3, <1>5, <1>6, CleanupFacts

LEMMA EndTodo ==
    ASSUME NEW lease \in Claim, NEW result \in {"aborted", "finished", "transfer"}
    PROVE  GoodTodo(End(lease, result)) /\ Len(End(lease, result)) = 6
  BY EndWrites, GoodNoProof

\* A new claim is written to the block, the lease and the fence.
LEMMA ClaimTodo ==
    ASSUME WindowTypeOK, NEW claim \in Claim, ~Proving(claim)
    PROVE  /\ ClaimWrites(claim) \in Seq(AWrite) /\ Len(ClaimWrites(claim)) \in 0 .. 4
           /\ NoNone(ClaimWrites(claim)) /\ NoProof(ClaimWrites(claim))
  <1> DEFINE s == IF files.block = None THEN <<Write("block", claim)>> ELSE <<>>
             t == <<Write("lease", claim), Write("fence", claim), Write("block", claim)>>
  <1>1. claim # None /\ claim \in Claim \cup {None}
    BY ClaimFacts
  <1>2. s \in Seq(AWrite) /\ Len(s) \in 0 .. 1 /\ NoNone(s) /\ NoProof(s)
    BY <1>1, OneWrite, NoWrite, FileNames
  <1>3. \A f \in File : Write(f, claim) \in AWrite /\ Write(f, claim).to = claim
    BY <1>1, WriteFacts
  <1>4. t \in Seq(AWrite) /\ Len(t) = 3
    BY <1>3, FileNames
  <1>5. NoNone(t) /\ NoProof(t)
    BY <1>1, <1>3, <1>4, FileNames DEF NoNone, NoProof
  <1>6. ClaimWrites(claim) = s \o t
    BY DEF ClaimWrites
  <1> HIDE DEF s, t
  <1>7. /\ s \o t \in Seq(AWrite) /\ Len(s \o t) = Len(s) + Len(t)
        /\ NoNone(s \o t) /\ NoProof(s \o t)
    BY <1>2, <1>4, <1>5, ConcatWrites
  <1>8. Len(s \o t) \in 0 .. 4
    <2> DEFINE n == Len(s)
    <2>1. Len(s \o t) = n + 3 /\ n \in 0 .. 1
      BY <1>2, <1>4, <1>7
    <2> HIDE DEF n
    <2> QED
      BY <2>1
  <1> QED
    BY <1>6, <1>7, <1>8, Zenon

\* The proof and the receipt are written over a lease that is there.
LEMMA ThreeWrites ==
    ASSUME NEW a \in Claim, NEW b \in Claim
    PROVE  LET t == <<Write("lease", a), Write("block", a), Write("proof", b)>>
           IN  t \in Seq(AWrite) /\ Len(t) = 3 /\ NoNone(t)
  <1> DEFINE t == <<Write("lease", a), Write("block", a), Write("proof", b)>>
  <1>1. a # None /\ b # None /\ a \in Claim \cup {None} /\ b \in Claim \cup {None}
    BY ClaimFacts
  <1>2. \A f \in File : /\ Write(f, a) \in AWrite /\ Write(f, a).to = a
                        /\ Write(f, b) \in AWrite /\ Write(f, b).to = b
    BY <1>1, WriteFacts
  <1>3. t \in Seq(AWrite) /\ Len(t) = 3
    BY <1>2, FileNames
  <1> QED
    BY <1>1, <1>2, <1>3, FileNames DEF NoNone

LEMMA BindTodo ==
    ASSUME WindowInv, Proved
    PROVE  /\ BindWrites \in Seq(AWrite) /\ Len(BindWrites) \in 0 .. 4 /\ NoNone(BindWrites)
           /\ files.lease # None /\ Quiet /\ BoundLease \in Claim
  <1>1. files.lease # None /\ files.lease \in Claim /\ Proving(files.lease)
    <2>1. files.lease # None /\ files.lease.phase = "proved"
      BY FileNames DEF Proved
    <2>2. files.lease \in Claim \cup {None}
      BY FilesFacts, Zenon DEF WindowInv
    <2> QED
      BY <2>1, <2>2 DEF Proving
  <1>2. BoundLease \in Claim
    BY <1>1, ClaimFacts DEF BoundLease
  <1> DEFINE t == <<Write("lease", BoundLease), Write("block", BoundLease), Write("proof", BoundLease)>>
  <1>3. t \in Seq(AWrite) /\ Len(t) = 3 /\ NoNone(t)
    BY <1>2, ThreeWrites
  <1>4. Sync \in Seq(AWrite) /\ Len(Sync) \in 0 .. 1 /\ NoNone(Sync)
    BY <1>1, SyncWrites DEF WindowInv
  <1>5. BindWrites = Sync \o t
    BY DEF BindWrites
  <1> HIDE DEF t
  <1>6. /\ Sync \o t \in Seq(AWrite) /\ Len(Sync \o t) = Len(Sync) + Len(t)
        /\ NoNone(Sync \o t)
    BY <1>3, <1>4, ConcatWrites
  <1>7. Len(Sync \o t) \in 0 .. 4
    <2> DEFINE n == Len(Sync)
    <2>1. Len(Sync \o t) = n + 3 /\ n \in 0 .. 1
      BY <1>3, <1>4, <1>6
    <2> HIDE DEF n
    <2> QED
      BY <2>1
  <1>8. Quiet
    BY <1>1 DEF WindowInv
  <1> QED
    BY <1>1, <1>2, <1>5, <1>6, <1>7, <1>8, Zenon
-----------------------------------------------------------------------------
(* The window's part of the invariant is kept by every step of a deployment *)

LEMMA AdmitStep ==
    ASSUME WindowInv, NEW who \in Controller \cup {Coordinator}, NEW then \in Step,
           NEW todo, GoodTodo(todo), Len(todo) \in 0 .. 10, Admit(who, todo, then),
           UNCHANGED <<files, pc, alive, cons>>, issued' \in 0 .. MaxWindows
    PROVE  WindowInv'
  <1>1. job' = [by |-> who, todo |-> todo, then |-> then]
    BY DEF Admit
  <1>2. todo \in Seq(AWrite)
    BY DEF GoodTodo
  <1>3. /\ job' \in [by : Controller \cup {Coordinator}, todo : Seq(AWrite), then : Step]
        /\ job'.todo = todo /\ job'.by = who
    BY <1>1, <1>2
  <1>4. GoodTodo(todo)'
    BY DEF GoodTodo, NoProof, Quiet
  <1>5. IsJob(job)'
    BY <1>3, <1>4 DEF IsJob, GoodTodo, NoProof, Quiet
  <1>6. WindowTypeOK'
    BY <1>3 DEF WindowInv, WindowTypeOK
  <1> QED
    BY <1>5, <1>6 DEF WindowInv, Quiet

LEMMA BeginStep ==
    ASSUME WindowInv, NEW c \in Controller, Begin(c)
    PROVE  WindowInv'
  <1>0. /\ UNCHANGED <<files, pc, alive, cons>> /\ WindowTypeOK
        /\ issued \in 0 .. MaxWindows /\ MaxWindows \in Nat
        /\ "begun" \in Step /\ "new" \in Step
    BY WindowsAssumption DEF Begin, WindowInv, WindowTypeOK, Step
  <1>1. CASE BeginFresh(c)
    <2> DEFINE claim == NewClaim(c, issued + 1)
    <2>1. issued + 1 \in 1 .. MaxWindows /\ issued' \in 0 .. MaxWindows
      BY <1>0, <1>1 DEF BeginFresh
    <2>2. claim \in Claim /\ ~Proving(claim)
      BY <2>1, NewClaimFacts
    <2> HIDE DEF claim
    <2>3. GoodTodo(ClaimWrites(claim)) /\ Len(ClaimWrites(claim)) \in 0 .. 10
      BY <2>2, <1>0, ClaimTodo, GoodNoProof
    <2>4. Admit(c, ClaimWrites(claim), "begun")
      BY <1>1 DEF BeginFresh, claim
    <2> QED
      BY <1>0, <2>1, <2>3, <2>4, AdmitStep
  <1>2. CASE BeginRootOnly(c)
    <2> DEFINE claim == NewClaim(c, files.block.nonce)
               s == IF files.block.by = c THEN <<>> ELSE <<Write("block", claim)>>
    <2>1. files.block \in Claim
      BY <1>0, <1>2, FilesFacts DEF BeginRootOnly
    <2>2. claim \in Claim /\ ~Proving(claim) /\ claim \in Claim \cup {None}
      BY <2>1, ClaimFacts, NewClaimFacts
    <2>3. Admit(c, s \o ClaimWrites(claim), "begun") /\ issued' \in 0 .. MaxWindows
      BY <1>0, <1>2 DEF BeginRootOnly
    <2> HIDE DEF claim
    <2>4. s \in Seq(AWrite) /\ Len(s) \in 0 .. 1 /\ NoProof(s)
      BY <2>2, OneWrite, NoWrite, FileNames
    <2> HIDE DEF s
    <2>5. /\ ClaimWrites(claim) \in Seq(AWrite) /\ Len(ClaimWrites(claim)) \in 0 .. 4
          /\ NoProof(ClaimWrites(claim))
      BY <2>2, <1>0, ClaimTodo
    <2>6. /\ s \o ClaimWrites(claim) \in Seq(AWrite) /\ NoProof(s \o ClaimWrites(claim))
          /\ Len(s \o ClaimWrites(claim)) = Len(s) + Len(ClaimWrites(claim))
      BY <2>4, <2>5, ConcatWrites
    <2>7. Len(s \o ClaimWrites(claim)) \in 0 .. 10
      <3>1. Len(s) \in 0 .. 4 /\ Len(ClaimWrites(claim)) \in 0 .. 6
        BY <2>4, <2>5
      <3>2. Len(s \o ClaimWrites(claim)) = Len(s) + Len(ClaimWrites(claim))
        BY <2>6
      <3> QED
        BY <3>1, <3>2, SmallSum
    <2>8. GoodTodo(s \o ClaimWrites(claim))
      BY <2>6, GoodNoProof
    <2> QED
      BY <1>0, <2>3, <2>7, <2>8, AdmitStep
  <1>3. CASE BeginClaimed(c)
    <2> DEFINE claim == NewClaim(c, files.lease.nonce)
    <2>1. files.lease \in Claim /\ files.lease # None /\ ~Proving(files.lease)
      BY <1>0, <1>3, FilesFacts DEF BeginClaimed, Proving
    <2>2. claim \in Claim /\ ~Proving(claim) /\ files.lease \in Claim \cup {None}
      BY <2>1, ClaimFacts, NewClaimFacts
    <2>3. PICK t \in {<<Write("block", files.lease)>>, ClaimWrites(claim)} :
                Admit(c, Sync \o t, "begun")
      BY <1>3 DEF BeginClaimed
    <2> HIDE DEF claim
    <2>4. t \in Seq(AWrite) /\ Len(t) \in 0 .. 4 /\ NoProof(t)
      <3>1. CASE t = ClaimWrites(claim)
        BY <3>1, <2>2, <1>0, ClaimTodo
      <3>2. CASE t = <<Write("block", files.lease)>>
        <4>1. t \in Seq(AWrite) /\ Len(t) = 1 /\ NoProof(t)
          BY <3>2, <2>1, <2>2, OneWrite, FileNames
        <4> QED
          BY <4>1
      <3> QED
        BY <3>1, <3>2
    <2>5. Sync \in Seq(AWrite) /\ Len(Sync) \in 0 .. 1 /\ NoProof(Sync)
      BY <2>1, <1>0, SyncWrites
    <2>6. Sync \o t \in Seq(AWrite) /\ NoProof(Sync \o t) /\ Len(Sync \o t) = Len(Sync) + Len(t)
      BY <2>4, <2>5, ConcatWrites
    <2>7. Len(Sync \o t) \in 0 .. 10
      <3>1. Len(Sync) \in 0 .. 4 /\ Len(t) \in 0 .. 6
        BY <2>4, <2>5
      <3>2. Len(Sync \o t) = Len(Sync) + Len(t)
        BY <2>6
      <3> QED
        BY <3>1, <3>2, SmallSum
    <2>8. GoodTodo(Sync \o t)
      BY <2>6, GoodNoProof
    <2>9. issued' \in 0 .. MaxWindows
      BY <1>0, <1>3 DEF BeginClaimed
    <2> QED
      BY <1>0, <2>3, <2>7, <2>8, <2>9, AdmitStep
  <1>4. CASE BeginCleanup(c)
    <2>1. Admit(c, CleanupWrites, "new") /\ issued' \in 0 .. MaxWindows
      BY <1>0, <1>4 DEF BeginCleanup
    <2>2. GoodTodo(CleanupWrites) /\ Len(CleanupWrites) \in 0 .. 10
      BY CleanupTodo
    <2> QED
      BY <1>0, <2>1, <2>2, AdmitStep
  <1>5. CASE BeginRefused(c)
    <2>1. Admit(c, Sync, "new") /\ issued' \in 0 .. MaxWindows /\ files.lease # None
      BY <1>0, <1>5 DEF BeginRefused
    <2>2. Sync \in Seq(AWrite) /\ Len(Sync) \in 0 .. 10 /\ NoNone(Sync)
      BY <2>1, <1>0, SyncWrites
    <2>3. NoProof(Sync) \/ (files.lease # None /\ Quiet)
      BY <2>1, <1>0, SyncWrites DEF WindowInv
    <2>4. GoodTodo(Sync)
      BY <2>2, <2>3, GoodNoNone
    <2> QED
      BY <1>0, <2>1, <2>2, <2>4, AdmitStep
  <1> QED
    BY <1>1, <1>2, <1>3, <1>4, <1>5 DEF Begin

LEMMA ProveStep ==
    ASSUME WindowInv, NEW c \in Controller, Prove(c) \/ ProveAgain(c)
    PROVE  WindowInv'
  <1> DEFINE proved == [files.lease EXCEPT !.phase = "proved"]
             unbound == [proved EXCEPT !.bound = FALSE]
             t == <<Write("lease", proved), Write("block", proved), Write("proof", unbound)>>
  <1>0. /\ UNCHANGED <<files, pc, alive, cons>> /\ WindowTypeOK
        /\ issued' \in 0 .. MaxWindows /\ {"proved", "done"} \subseteq Step
    BY DEF Prove, ProveAgain, WindowInv, WindowTypeOK, Step
  <1>1. files.lease \in Claim /\ files.lease # None
    BY <1>0, FilesFacts DEF Prove, ProveAgain
  <1>2. Quiet
    BY <1>1 DEF Prove, ProveAgain, Quiet, WindowInv, Proving
  <1>3. proved \in Claim /\ unbound \in Claim
    BY <1>1, ClaimFacts
  <1>4. PICK then \in Step : Admit(c, Sync \o t, then)
    BY <1>0 DEF Prove, ProveAgain, ProofWrites
  <1> HIDE DEF proved, unbound
  <1>5. t \in Seq(AWrite) /\ Len(t) = 3 /\ NoNone(t)
    BY <1>3, ThreeWrites
  <1> HIDE DEF t
  <1>6. Sync \in Seq(AWrite) /\ Len(Sync) \in 0 .. 1 /\ NoNone(Sync)
    BY <1>0, <1>1, SyncWrites
  <1>7. Sync \o t \in Seq(AWrite) /\ NoNone(Sync \o t) /\ Len(Sync \o t) = Len(Sync) + Len(t)
    BY <1>5, <1>6, ConcatWrites
  <1>8. Len(Sync \o t) \in 0 .. 10
    BY <1>5, <1>6, <1>7
  <1>9. GoodTodo(Sync \o t)
    BY <1>1, <1>2, <1>7, GoodNoNone
  <1> QED
    BY <1>0, <1>4, <1>8, <1>9, AdmitStep

LEMMA BindStep ==
    ASSUME WindowInv, NEW c \in Controller, Bind(c)
    PROVE  WindowInv'
  <1>0. /\ UNCHANGED <<files, pc, alive, cons>> /\ Proved /\ Admit(c, BindWrites, "bound")
        /\ issued' \in 0 .. MaxWindows /\ "bound" \in Step
    BY DEF Bind, WindowInv, WindowTypeOK, Step
  <1>1. BindWrites \in Seq(AWrite) /\ Len(BindWrites) \in 0 .. 10
    BY <1>0, BindTodo
  <1>2. GoodTodo(BindWrites)
    BY <1>0, BindTodo, GoodNoNone
  <1> QED
    BY <1>0, <1>1, <1>2, AdmitStep

LEMMA FinishStep ==
    ASSUME WindowInv, NEW c \in Controller, Finish(c)
    PROVE  WindowInv'
  <1> DEFINE then == IF pc[c] = "new" THEN "new" ELSE "done"
  <1>0. /\ UNCHANGED <<files, pc, alive, cons>>
        /\ issued' \in 0 .. MaxWindows /\ then \in Step
    BY DEF Finish, WindowInv, WindowTypeOK, Step
  <1>1. CASE InCleanup
    <2>1. Admit(c, CleanupWrites, then)
      BY <1>1 DEF Finish
    <2>2. GoodTodo(CleanupWrites) /\ Len(CleanupWrites) \in 0 .. 10
      BY CleanupTodo
    <2> QED
      BY <1>0, <2>1, <2>2, AdmitStep
  <1>2. CASE ~InCleanup
    <2> DEFINE e == End(BoundLease, "finished")
    <2>1. Admit(c, BindWrites \o e, then) /\ Proved
      BY <1>2 DEF Finish
    <2>2. /\ BindWrites \in Seq(AWrite) /\ Len(BindWrites) \in 0 .. 4 /\ NoNone(BindWrites)
          /\ files.lease # None /\ Quiet /\ BoundLease \in Claim
      BY <2>1, BindTodo
    <2>3. e \in Seq(AWrite) /\ Len(e) = 6 /\ NoProof(e)
      BY <2>2, EndWrites
    <2> HIDE DEF e
    <2>4. GoodTodo(BindWrites \o e) /\ Len(BindWrites \o e) = Len(BindWrites) + Len(e)
      BY <2>2, <2>3, GoodConcat, ConcatWrites
    <2>5. Len(BindWrites \o e) \in 0 .. 10
      <3>1. Len(BindWrites) \in 0 .. 4 /\ Len(e) \in 0 .. 6
        BY <2>2, <2>3
      <3>2. Len(BindWrites \o e) = Len(BindWrites) + Len(e)
        BY <2>4
      <3> QED
        BY <3>1, <3>2, SmallSum
    <2> QED
      BY <1>0, <2>1, <2>4, <2>5, AdmitStep
  <1> QED
    BY <1>1, <1>2

LEMMA ReleaseStep ==
    ASSUME WindowInv, NEW c \in Controller, Release(c)
    PROVE  WindowInv'
  <1>0. /\ UNCHANGED <<files, pc, alive, cons>> /\ ReleaseOwn(c)
        /\ issued' \in 0 .. MaxWindows /\ "done" \in Step
    BY DEF Release, WindowInv, WindowTypeOK, Step
  <1>1. CASE Admit(c, CleanupWrites, "done")
    <2>1. GoodTodo(CleanupWrites) /\ Len(CleanupWrites) \in 0 .. 10
      BY CleanupTodo
    <2> QED
      BY <1>0, <1>1, <2>1, AdmitStep
  <1>2. CASE files.lease # None /\ Admit(c, End(files.lease, "aborted"), "done")
    <2>1. files.lease \in Claim
      BY <1>2, FilesFacts DEF WindowInv
    <2>2. GoodTodo(End(files.lease, "aborted")) /\ Len(End(files.lease, "aborted")) \in 0 .. 10
      BY <2>1, EndTodo
    <2> QED
      BY <1>0, <1>2, <2>2, AdmitStep
  <1> QED
    BY <1>0, <1>1, <1>2 DEF ReleaseOwn

LEMMA WriteNextStep ==
    ASSUME WindowInv, WriteNext
    PROVE  WindowInv'
  <1>0. job # None /\ IsJob(job) /\ UNCHANGED <<alive, issued, cons>>
    BY DEF WindowInv, WriteNext
  <1>1. CASE job.todo = <<>>
    <2>1. job' = None /\ UNCHANGED files
      BY <1>1 DEF WriteNext
    <2>2. pc' \in [Controller -> Step]
      BY <1>0, <1>1 DEF WriteNext, WindowInv, WindowTypeOK, IsJob, Step
    <2> QED
      BY <1>0, <2>1, <2>2 DEF WindowInv, WindowTypeOK, Quiet, Step
  <1>2. CASE job.todo # <<>>
    <2> DEFINE h == Head(job.todo)
               s == Tail(job.todo)
    <2>1. /\ files' = [files EXCEPT ![h.file] = h.to]
          /\ job' = [job EXCEPT !.todo = s] /\ UNCHANGED <<pc, cons>>
      BY <1>0, <1>2 DEF WriteNext
    <2>2. /\ s \in Seq(AWrite) /\ Len(s) = Len(job.todo) - 1 /\ Len(job.todo) \in Nat
          /\ h \in AWrite /\ h = job.todo[1] /\ 1 \in 1 .. Len(job.todo)
          /\ \A i \in 1 .. Len(s) : Proving(s[i].to) => \A k \in 1 .. i : s[k].to # None
          /\ NoProof(job.todo) => NoProof(s)
          /\ Proving(h.to) => ~NoProof(job.todo)
          /\ h.to # None \/ NoProof(s)
      BY <1>0, <1>2, GoodTail DEF IsJob
    <2> HIDE DEF h, s
    <2>3. NoProof(job.todo) \/ (files.lease # None /\ Quiet)
      BY <1>0 DEF IsJob, GoodTodo
    <2>4. /\ h.file \in File /\ h.to \in Claim \cup {None}
          /\ files' \in [File -> Claim \cup {None}]
          /\ files'.lease \in {files.lease, h.to} /\ files'.block \in {files.block, h.to}
      BY <2>1, <2>2 DEF AWrite, WindowInv, WindowTypeOK, File
    <2>5. NoProof(s) \/ (files'.lease # None /\ Quiet)
      BY <2>2, <2>3, <2>4
    <2>6. /\ job' \in [by : Controller \cup {Coordinator}, todo : Seq(AWrite), then : Step]
          /\ job'.todo = s /\ job'.by = job.by
      BY <1>0, <2>1, <2>2 DEF IsJob
    <2>7. Len(s) \in 0 .. 10 /\ Len(job'.todo) \in 0 .. 10
      <3>1. Len(job.todo) \in 1 .. 10 /\ Len(s) = Len(job.todo) - 1
        BY <1>0, <2>2 DEF IsJob
      <3>2. Len(s) \in 0 .. 10
        BY <3>1
      <3> QED
        BY <3>2, <2>6
    <2>8. Quiet' <=> Quiet
      BY <2>1 DEF Quiet
    <2>9. GoodTodo(job.todo)'
      BY <2>2, <2>5, <2>6, <2>8 DEF GoodTodo, NoProof
    <2>10. IsJob(job)'
      BY <2>6, <2>7, <2>9 DEF IsJob
    <2>11. WindowTypeOK'
      BY <1>0, <2>1, <2>4, <2>6, <2>7 DEF WindowInv, WindowTypeOK, IsJob
    <2>12. (Proving(files.lease) \/ Proving(files.block) => Quiet)'
      BY <2>2, <2>3, <2>4, <2>8 DEF WindowInv, Proving
    <2> QED
      BY <2>10, <2>11, <2>12 DEF WindowInv
  <1> QED
    BY <1>1, <1>2

\* A step that ends the running command or leaves it, and touches no file and
\* no consumer.
LEMMA EndJobStep ==
    ASSUME WindowInv, UNCHANGED <<files, issued, cons>>, job' \in {job, None},
           pc' \in [Controller -> Step], alive' \in [Controller -> BOOLEAN]
    PROVE  WindowInv'
  <1>1. WindowTypeOK'
    BY DEF WindowInv, WindowTypeOK, Step
  <1>2. job = None \/ IsJob(job) => (job = None \/ IsJob(job))'
    BY DEF IsJob, GoodTodo, NoProof, Quiet
  <1> QED
    BY <1>1, <1>2 DEF WindowInv, Quiet

LEMMA DeploymentStep ==
    ASSUME WindowInv, Deployment
    PROVE  WindowInv'
  <1>0. pc \in [Controller -> Step] /\ alive \in [Controller -> BOOLEAN]
    BY DEF WindowInv, WindowTypeOK, Step
  <1>1. ASSUME NEW c \in Controller, Fail(c) PROVE WindowInv'
    BY <1>0, <1>1, EndJobStep DEF Fail, Step
  <1>2. ASSUME NEW c \in Controller, Die(c) PROVE WindowInv'
    BY <1>0, <1>2, EndJobStep DEF Die, Step
  <1>3. CASE Interrupt
    BY <1>0, <1>3, EndJobStep DEF Interrupt, Step
  <1> QED
    BY <1>1, <1>2, <1>3, BeginStep, ProveStep, BindStep, FinishStep, ReleaseStep, WriteNextStep
    DEF Deployment
-----------------------------------------------------------------------------
(* The journal *)

SinceRegistered == {"destination_registered", "ownership_activated", "control_released", "complete"}
SinceRetired    == SinceRegistered \cup {"source_retired"}
SinceReserved   == SinceRetired \cup {"ownership_reserved"}
SinceFloor      == SinceReserved \cup {"floor_advanced"}
SinceStopped    == SinceFloor \cup {"producers_stopped"}
SinceRepaired   == SinceStopped \cup {"compatibility_repaired"}
Phase           == SinceRepaired \cup {"none", "intent", "ingress_closed", "rows_drained"}

LEMMA PhaseSet == ToSet(PHASES) \cup {"none"} = Phase
  <1>1. DOMAIN PHASES = 1 .. 12
    BY DEF PHASES
  <1>2. \A i \in 1 .. 12 : i \in {1, 2, 3, 4, 5, 6, 7, 8, 9, 10, 11, 12}
    OBVIOUS
  <1>3. ToSet(PHASES) \cup {"none"} \subseteq Phase
    BY <1>1, <1>2 DEF ToSet, PHASES, Phase, SinceRepaired, SinceStopped, SinceFloor, SinceReserved,
       SinceRetired, SinceRegistered
  <1>4. Phase \subseteq ToSet(PHASES) \cup {"none"}
    <2>1. \A i \in 1 .. 12 : PHASES[i] \in ToSet(PHASES)
      BY <1>1 DEF ToSet
    <2>2. /\ PHASES[1] \in ToSet(PHASES) /\ PHASES[2] \in ToSet(PHASES) /\ PHASES[3] \in ToSet(PHASES)
          /\ PHASES[4] \in ToSet(PHASES) /\ PHASES[5] \in ToSet(PHASES) /\ PHASES[6] \in ToSet(PHASES)
          /\ PHASES[7] \in ToSet(PHASES) /\ PHASES[8] \in ToSet(PHASES) /\ PHASES[9] \in ToSet(PHASES)
          /\ PHASES[10] \in ToSet(PHASES) /\ PHASES[11] \in ToSet(PHASES) /\ PHASES[12] \in ToSet(PHASES)
      BY <2>1
    <2> HIDE DEF ToSet
    <2> QED
      BY <2>2 DEF PHASES, Phase, SinceRepaired, SinceStopped, SinceFloor, SinceReserved,
         SinceRetired, SinceRegistered
  <1> QED
    BY <1>3, <1>4

\* Index is the position of a phase in PHASES.
LEMMA IndexFacts ==
    /\ Index("none") = 0 /\ Index("intent") = 1 /\ Index("ingress_closed") = 2
    /\ Index("rows_drained") = 3 /\ Index("compatibility_repaired") = 4
    /\ Index("producers_stopped") = 5 /\ Index("floor_advanced") = 6
    /\ Index("ownership_reserved") = 7 /\ Index("source_retired") = 8
    /\ Index("destination_registered") = 9 /\ Index("ownership_activated") = 10
    /\ Index("control_released") = 11 /\ Index("complete") = 12
  <1>1. DOMAIN PHASES = 1 .. 12
    BY DEF PHASES
  <1>2. \A i \in 1 .. 12 : i \in {1, 2, 3, 4, 5, 6, 7, 8, 9, 10, 11, 12}
    OBVIOUS
  <1>3. ASSUME NEW k \in 1 .. 12 PROVE Index(PHASES[k]) = k
    <2>1. PHASES[k] # "none"
      BY <1>2 DEF PHASES
    <2>2. \A i \in 1 .. 12 : PHASES[i] = PHASES[k] => i = k
      BY <1>2 DEF PHASES
    <2>3. Index(PHASES[k]) = CHOOSE i \in 1 .. 12 : PHASES[i] = PHASES[k]
      BY <2>1, <1>1 DEF Index
    <2> HIDE DEF PHASES
    <2> QED
      BY <2>2, <2>3
  <1>4. /\ Index(PHASES[1]) = 1 /\ Index(PHASES[2]) = 2 /\ Index(PHASES[3]) = 3
        /\ Index(PHASES[4]) = 4 /\ Index(PHASES[5]) = 5 /\ Index(PHASES[6]) = 6
        /\ Index(PHASES[7]) = 7 /\ Index(PHASES[8]) = 8 /\ Index(PHASES[9]) = 9
        /\ Index(PHASES[10]) = 10 /\ Index(PHASES[11]) = 11 /\ Index(PHASES[12]) = 12
    BY <1>3
  <1>5. /\ PHASES[1] = "intent" /\ PHASES[2] = "ingress_closed" /\ PHASES[3] = "rows_drained"
        /\ PHASES[4] = "compatibility_repaired" /\ PHASES[5] = "producers_stopped"
        /\ PHASES[6] = "floor_advanced" /\ PHASES[7] = "ownership_reserved"
        /\ PHASES[8] = "source_retired" /\ PHASES[9] = "destination_registered"
        /\ PHASES[10] = "ownership_activated" /\ PHASES[11] = "control_released"
        /\ PHASES[12] = "complete"
    BY DEF PHASES
  <1>6. Index("none") = 0
    BY DEF Index
  <1> QED
    BY <1>4, <1>5, <1>6

\* What _save writes after each phase.
LEMMA SavedPhase ==
    /\ PHASES[Index("intent") + 1] = "ingress_closed"
    /\ PHASES[Index("ingress_closed") + 1] = "rows_drained"
    /\ PHASES[Index("rows_drained") + 1] = "compatibility_repaired"
    /\ PHASES[Index("compatibility_repaired") + 1] = "producers_stopped"
    /\ PHASES[Index("producers_stopped") + 1] = "floor_advanced"
    /\ PHASES[Index("floor_advanced") + 1] = "ownership_reserved"
    /\ PHASES[Index("ownership_reserved") + 1] = "source_retired"
    /\ PHASES[Index("source_retired") + 1] = "destination_registered"
    /\ PHASES[Index("destination_registered") + 1] = "ownership_activated"
    /\ PHASES[Index("ownership_activated") + 1] = "control_released"
    /\ PHASES[Index("control_released") + 1] = "complete"
  BY IndexFacts DEF PHASES

LEMMA BeforeFacts ==
    ASSUME phase \in Phase
    PROVE  /\ ~Before("producers_stopped") <=> phase \in SinceStopped
           /\ Before("ownership_activated") => phase # "complete"
  BY IndexFacts DEF Before, Phase, SinceRepaired, SinceStopped, SinceFloor, SinceReserved,
     SinceRetired, SinceRegistered
-----------------------------------------------------------------------------
(* The inductive invariant of the transfer *)

\* The variables of the transfer stay in their domains.
TransferTypeOK ==
    /\ phase \in Phase
    /\ nonce \in 0..MaxWindows
    /\ at \in {"off", "run", "held", "releasing", "save"}
    /\ valid \in BOOLEAN /\ ingress \in BOOLEAN
    /\ rebind \in {"source", "cleared"}
    /\ floors \subseteq {"source", "destination"}
    /\ src \in {"registered", "retired"} /\ dst \in {"absent", "registered"}
    /\ ledger \in {"source", "reserved", "destination"}
    /\ rows \in [Row -> {"none", "pending", "followup"}]
    /\ inside \in [Party -> {"out", "shared", "exclusive"}]
    /\ crashes \in 0..MaxCrashes

\* Where the coordinator can be in each phase of the journal.
JournalInv ==
    /\ at \in {"run", "save"} => phase \notin {"none", "complete"}
    /\ at = "held" => phase = "floor_advanced"
    /\ at = "releasing" => phase = "ownership_activated"
    /\ valid => phase \in SinceRepaired
    /\ phase = "compatibility_repaired" /\ at = "save" => valid

\* The journal and the effects: an effect is done before its phase is saved,
\* and not before the phase that precedes it was saved.
MoveInv ==
    /\ phase \in SinceRepaired \/ (phase = "rows_drained" /\ at = "save") => rebind = "cleared"
    /\ ledger # "source" => phase \in SinceFloor
    /\ phase \in SinceReserved \/ (phase = "floor_advanced" /\ at = "save") => ledger # "source"
    /\ src = "retired" => phase \in SinceReserved
    /\ phase \in SinceRetired \/ (phase = "ownership_reserved" /\ at = "save") => src = "retired"
    /\ dst = "registered" => phase \in SinceRetired
    /\ phase \in SinceRegistered \/ (phase = "source_retired" /\ at = "save") => dst = "registered"
    /\ ledger = "destination" => phase \in SinceRegistered

\* The coordinator is alone inside the effect lease when it withdraws ownership.
LeaseInv ==
    /\ at = "held" => /\ inside[Coordinator] = "exclusive"
                      /\ \A x \in Consumer : inside[x] = "out"
    /\ \A x \in Consumer : inside[x] # "out" => ledger = "source"

\* From the final drain on no service is up and none of their rows is pending.
QuietInv ==
    /\ (phase = "compatibility_repaired" /\ valid) \/ phase \in SinceStopped => Quiet
    /\ (phase = "compatibility_repaired" /\ at = "save") \/ phase \in SinceStopped =>
           \A r \in Row : rows[r] # "pending"

TransferInv == TransferTypeOK /\ JournalInv /\ MoveInv /\ LeaseInv /\ QuietInv

IInv == WindowInv /\ TransferInv

LEMMA CoordinatorFacts ==
    /\ Coordinator \in Party /\ Coordinator \notin Consumer
    /\ Consumer \subseteq Party /\ Command \subseteq Consumer
  BY CoordinatorAssumption, CommandAssumption DEF Party

LEMMA InitIInv == Init => IInv
  <1> SUFFICES ASSUME Init PROVE IInv
    OBVIOUS
  <1>1. WindowInv
    BY WindowsAssumption DEF Init, WindowInit, WindowInv, WindowTypeOK, Proving, File
  <1>2. TransferTypeOK
    <2>1. 0 \in 0 .. MaxWindows /\ 0 \in 0 .. MaxCrashes
      BY WindowsAssumption, CrashAssumption
    <2>2. phase \in Phase
      BY DEF Init, Phase
    <2> QED
      BY <2>1, <2>2 DEF Init, TransferTypeOK
  <1>3. JournalInv /\ MoveInv /\ LeaseInv /\ QuietInv
    BY CoordinatorFacts DEF Init, JournalInv, MoveInv, LeaseInv, QuietInv, SinceRepaired, SinceStopped,
       SinceFloor, SinceReserved, SinceRetired, SinceRegistered
  <1> QED
    BY <1>1, <1>2, <1>3 DEF IInv, TransferInv

LEMMA WindowKept ==
    ASSUME WindowInv, UNCHANGED window
    PROVE  WindowInv' /\ (Quiet' <=> Quiet)
  BY DEF window, WindowInv, WindowTypeOK, IsJob, GoodTodo, NoProof, Quiet, Proving

\* _save
LEMMA SaveStep ==
    ASSUME IInv, Save
    PROVE  IInv'
  <1> USE DEF IInv, TransferInv
  <1>1. WindowInv' /\ (Quiet' <=> Quiet)
    BY WindowKept DEF Save
  <1>2. phase \in Phase \ {"none", "complete"}
    BY DEF Save, TransferTypeOK, JournalInv
  <1> DEFINE next == PHASES[Index(phase) + 1]
  <1>3. \/ phase = "intent" /\ next = "ingress_closed"
        \/ phase = "ingress_closed" /\ next = "rows_drained"
        \/ phase = "rows_drained" /\ next = "compatibility_repaired"
        \/ phase = "compatibility_repaired" /\ next = "producers_stopped"
        \/ phase = "producers_stopped" /\ next = "floor_advanced"
        \/ phase = "floor_advanced" /\ next = "ownership_reserved"
        \/ phase = "ownership_reserved" /\ next = "source_retired"
        \/ phase = "source_retired" /\ next = "destination_registered"
        \/ phase = "destination_registered" /\ next = "ownership_activated"
        \/ phase = "ownership_activated" /\ next = "control_released"
        \/ phase = "control_released" /\ next = "complete"
    BY <1>2, SavedPhase DEF Phase, SinceRepaired, SinceStopped, SinceFloor, SinceReserved,
       SinceRetired, SinceRegistered
  <1>4. phase' = next
    BY DEF Save
  <1> HIDE DEF next
  <1> USE DEF Phase, SinceRepaired, SinceStopped, SinceFloor, SinceReserved, SinceRetired, SinceRegistered
  <1>5. TransferTypeOK'
    BY <1>3, <1>4 DEF Save, TransferTypeOK, registries
  <1>6. JournalInv'
    BY <1>3, <1>4 DEF Save, JournalInv, TransferTypeOK, registries
  <1>7. MoveInv'
    BY <1>3, <1>4 DEF Save, MoveInv, registries
  <1>8. LeaseInv'
    BY DEF Save, LeaseInv, registries
  <1>9. QuietInv'
    BY <1>1, <1>3, <1>4 DEF Save, QuietInv, JournalInv
  <1> QED
    BY <1>1, <1>5, <1>6, <1>7, <1>8, <1>9

LEMMA StartStep ==
    ASSUME IInv, Start
    PROVE  IInv'
  <1> USE DEF IInv, TransferInv, Phase, SinceRepaired, SinceStopped, SinceFloor, SinceReserved,
              SinceRetired, SinceRegistered
  <1>1. WindowInv' /\ (Quiet' <=> Quiet)
    BY WindowKept DEF Start
  <1>2. TransferTypeOK'
    BY DEF Start, After, registries, TransferTypeOK
  <1>3. JournalInv'
    BY DEF Start, After, registries, JournalInv, TransferTypeOK
  <1>4. MoveInv'
    BY DEF Start, After, registries, MoveInv, JournalInv
  <1>5. LeaseInv'
    BY DEF Start, After, registries, LeaseInv, JournalInv
  <1>6. QuietInv'
    BY <1>1 DEF Start, After, registries, QuietInv, JournalInv
  <1> QED
    BY <1>1, <1>2, <1>3, <1>4, <1>5, <1>6

LEMMA CloseIngressStep ==
    ASSUME IInv, CloseIngress
    PROVE  IInv'
  <1> USE DEF IInv, TransferInv, Phase, SinceRepaired, SinceStopped, SinceFloor, SinceReserved,
              SinceRetired, SinceRegistered
  <1>1. WindowInv' /\ (Quiet' <=> Quiet)
    BY WindowKept DEF CloseIngress
  <1>2. TransferTypeOK'
    BY DEF CloseIngress, After, registries, TransferTypeOK
  <1>3. JournalInv'
    BY DEF CloseIngress, After, registries, JournalInv
  <1>4. MoveInv'
    BY DEF CloseIngress, After, registries, MoveInv
  <1>5. LeaseInv'
    BY DEF CloseIngress, After, registries, LeaseInv
  <1>6. QuietInv'
    BY <1>1 DEF CloseIngress, After, registries, QuietInv, JournalInv
  <1> QED
    BY <1>1, <1>2, <1>3, <1>4, <1>5, <1>6

LEMMA DrainedStep ==
    ASSUME IInv, Drained
    PROVE  IInv'
  <1> USE DEF IInv, TransferInv, Phase, SinceRepaired, SinceStopped, SinceFloor, SinceReserved,
              SinceRetired, SinceRegistered
  <1>1. WindowInv' /\ (Quiet' <=> Quiet)
    BY WindowKept DEF Drained
  <1>2. TransferTypeOK'
    BY DEF Drained, After, registries, TransferTypeOK
  <1>3. JournalInv'
    BY DEF Drained, After, registries, JournalInv
  <1>4. MoveInv'
    BY DEF Drained, After, registries, MoveInv
  <1>5. LeaseInv'
    BY DEF Drained, After, registries, LeaseInv
  <1>6. QuietInv'
    BY <1>1 DEF Drained, After, registries, QuietInv, JournalInv, Pending, Canonical, TransferTypeOK
  <1> QED
    BY <1>1, <1>2, <1>3, <1>4, <1>5, <1>6

LEMMA RepairCompatibilityStep ==
    ASSUME IInv, RepairCompatibility
    PROVE  IInv'
  <1> USE DEF IInv, TransferInv, Phase, SinceRepaired, SinceStopped, SinceFloor, SinceReserved,
              SinceRetired, SinceRegistered
  <1>1. WindowInv' /\ (Quiet' <=> Quiet)
    BY WindowKept DEF RepairCompatibility
  <1>2. TransferTypeOK'
    BY DEF RepairCompatibility, After, registries, TransferTypeOK
  <1>3. JournalInv'
    BY DEF RepairCompatibility, After, registries, JournalInv
  <1>4. MoveInv'
    BY DEF RepairCompatibility, After, registries, MoveInv
  <1>5. LeaseInv'
    BY DEF RepairCompatibility, After, registries, LeaseInv
  <1>6. QuietInv'
    BY <1>1 DEF RepairCompatibility, After, registries, QuietInv, JournalInv
  <1> QED
    BY <1>1, <1>2, <1>3, <1>4, <1>5, <1>6

LEMMA RevalidateStep ==
    ASSUME IInv, Revalidate
    PROVE  IInv'
  <1> USE DEF IInv, TransferInv, Phase, SinceRepaired, SinceStopped, SinceFloor, SinceReserved,
              SinceRetired, SinceRegistered
  <1>1. WindowInv' /\ (Quiet' <=> Quiet)
    BY WindowKept DEF Revalidate
  <1>2. TransferTypeOK'
    BY DEF Revalidate, After, registries, TransferTypeOK
  <1>3. JournalInv'
    BY BeforeFacts DEF Revalidate, After, registries, JournalInv, TransferTypeOK
  <1>4. MoveInv'
    BY DEF Revalidate, After, registries, MoveInv
  <1>5. LeaseInv'
    BY DEF Revalidate, After, registries, LeaseInv
  <1>6. QuietInv'
    BY <1>1, BeforeFacts DEF Revalidate, After, registries, QuietInv, JournalInv
  <1> QED
    BY <1>1, <1>2, <1>3, <1>4, <1>5, <1>6

LEMMA AdvanceFloorStep ==
    ASSUME IInv, AdvanceFloor
    PROVE  IInv'
  <1> USE DEF IInv, TransferInv, Phase, SinceRepaired, SinceStopped, SinceFloor, SinceReserved,
              SinceRetired, SinceRegistered
  <1>1. WindowInv' /\ (Quiet' <=> Quiet)
    BY WindowKept DEF AdvanceFloor
  <1>2. TransferTypeOK'
    BY DEF AdvanceFloor, After, registries, TransferTypeOK
  <1>3. JournalInv'
    BY DEF AdvanceFloor, After, registries, JournalInv
  <1>4. MoveInv'
    BY DEF AdvanceFloor, After, registries, MoveInv
  <1>5. LeaseInv'
    BY DEF AdvanceFloor, After, registries, LeaseInv
  <1>6. QuietInv'
    BY <1>1 DEF AdvanceFloor, After, registries, QuietInv, JournalInv
  <1> QED
    BY <1>1, <1>2, <1>3, <1>4, <1>5, <1>6

LEMMA FindReservationStep ==
    ASSUME IInv, FindReservation
    PROVE  IInv'
  <1> USE DEF IInv, TransferInv, Phase, SinceRepaired, SinceStopped, SinceFloor, SinceReserved,
              SinceRetired, SinceRegistered
  <1>1. WindowInv' /\ (Quiet' <=> Quiet)
    BY WindowKept DEF FindReservation
  <1>2. TransferTypeOK'
    BY DEF FindReservation, After, registries, TransferTypeOK
  <1>3. JournalInv'
    BY DEF FindReservation, After, registries, JournalInv
  <1>4. MoveInv'
    BY DEF FindReservation, After, registries, MoveInv
  <1>5. LeaseInv'
    BY DEF FindReservation, After, registries, LeaseInv
  <1>6. QuietInv'
    BY <1>1 DEF FindReservation, After, registries, QuietInv, JournalInv
  <1> QED
    BY <1>1, <1>2, <1>3, <1>4, <1>5, <1>6

LEMMA BeginTransferStep ==
    ASSUME IInv, BeginTransfer
    PROVE  IInv'
  <1> USE DEF IInv, TransferInv, Phase, SinceRepaired, SinceStopped, SinceFloor, SinceReserved,
              SinceRetired, SinceRegistered
  <1>1. WindowInv' /\ (Quiet' <=> Quiet)
    BY WindowKept DEF BeginTransfer
  <1>2. TransferTypeOK'
    BY DEF BeginTransfer, After, registries, TransferTypeOK
  <1>3. JournalInv'
    BY DEF BeginTransfer, After, registries, JournalInv
  <1>4. MoveInv'
    BY DEF BeginTransfer, After, registries, MoveInv, JournalInv
  <1>5. LeaseInv'
    BY DEF BeginTransfer, After, registries, LeaseInv
  <1>6. QuietInv'
    BY <1>1 DEF BeginTransfer, After, registries, QuietInv, JournalInv
  <1> QED
    BY <1>1, <1>2, <1>3, <1>4, <1>5, <1>6

LEMMA LeaveChangeStep ==
    ASSUME IInv, LeaveChange
    PROVE  IInv'
  <1> USE DEF IInv, TransferInv, Phase, SinceRepaired, SinceStopped, SinceFloor, SinceReserved,
              SinceRetired, SinceRegistered
  <1>1. WindowInv' /\ (Quiet' <=> Quiet)
    BY WindowKept DEF LeaveChange
  <1>2. TransferTypeOK'
    BY CoordinatorFacts DEF LeaveChange, After, registries, TransferTypeOK
  <1>3. JournalInv'
    BY DEF LeaveChange, After, registries, JournalInv
  <1>4. MoveInv'
    BY DEF LeaveChange, After, registries, MoveInv, JournalInv
  <1>5. LeaseInv'
    BY CoordinatorFacts DEF LeaveChange, After, registries, LeaseInv, TransferTypeOK
  <1>6. QuietInv'
    BY <1>1 DEF LeaveChange, After, registries, QuietInv, JournalInv
  <1> QED
    BY <1>1, <1>2, <1>3, <1>4, <1>5, <1>6

LEMMA RetireSourceStep ==
    ASSUME IInv, RetireSource
    PROVE  IInv'
  <1> USE DEF IInv, TransferInv, Phase, SinceRepaired, SinceStopped, SinceFloor, SinceReserved,
              SinceRetired, SinceRegistered
  <1>1. WindowInv' /\ (Quiet' <=> Quiet)
    BY WindowKept DEF RetireSource
  <1>2. TransferTypeOK'
    BY DEF RetireSource, After, registries, TransferTypeOK
  <1>3. JournalInv'
    BY DEF RetireSource, After, registries, JournalInv
  <1>4. MoveInv'
    BY DEF RetireSource, After, registries, MoveInv
  <1>5. LeaseInv'
    BY DEF RetireSource, After, registries, LeaseInv
  <1>6. QuietInv'
    BY <1>1 DEF RetireSource, After, registries, QuietInv, JournalInv
  <1> QED
    BY <1>1, <1>2, <1>3, <1>4, <1>5, <1>6

LEMMA RegisterDestinationStep ==
    ASSUME IInv, RegisterDestination
    PROVE  IInv'
  <1> USE DEF IInv, TransferInv, Phase, SinceRepaired, SinceStopped, SinceFloor, SinceReserved,
              SinceRetired, SinceRegistered
  <1>1. WindowInv' /\ (Quiet' <=> Quiet)
    BY WindowKept DEF RegisterDestination
  <1>2. TransferTypeOK'
    BY DEF RegisterDestination, After, registries, TransferTypeOK
  <1>3. JournalInv'
    BY DEF RegisterDestination, After, registries, JournalInv
  <1>4. MoveInv'
    BY DEF RegisterDestination, After, registries, MoveInv
  <1>5. LeaseInv'
    BY DEF RegisterDestination, After, registries, LeaseInv
  <1>6. QuietInv'
    BY <1>1 DEF RegisterDestination, After, registries, QuietInv, JournalInv
  <1> QED
    BY <1>1, <1>2, <1>3, <1>4, <1>5, <1>6

LEMMA ActivateOwnershipStep ==
    ASSUME IInv, ActivateOwnership
    PROVE  IInv'
  <1> USE DEF IInv, TransferInv, Phase, SinceRepaired, SinceStopped, SinceFloor, SinceReserved,
              SinceRetired, SinceRegistered
  <1>1. WindowInv' /\ (Quiet' <=> Quiet)
    BY WindowKept DEF ActivateOwnership
  <1>2. TransferTypeOK'
    BY DEF ActivateOwnership, After, registries, TransferTypeOK
  <1>3. JournalInv'
    BY DEF ActivateOwnership, After, registries, JournalInv
  <1>4. MoveInv'
    BY DEF ActivateOwnership, After, registries, MoveInv, TransferTypeOK
  <1>5. LeaseInv'
    BY DEF ActivateOwnership, After, registries, LeaseInv, MoveInv
  <1>6. QuietInv'
    BY <1>1 DEF ActivateOwnership, After, registries, QuietInv, JournalInv
  <1> QED
    BY <1>1, <1>2, <1>3, <1>4, <1>5, <1>6

LEMMA NothingToReleaseStep ==
    ASSUME IInv, NothingToRelease
    PROVE  IInv'
  <1> USE DEF IInv, TransferInv, Phase, SinceRepaired, SinceStopped, SinceFloor, SinceReserved,
              SinceRetired, SinceRegistered
  <1>1. WindowInv' /\ (Quiet' <=> Quiet)
    BY WindowKept DEF NothingToRelease
  <1>2. TransferTypeOK'
    BY DEF NothingToRelease, After, registries, TransferTypeOK
  <1>3. JournalInv'
    BY DEF NothingToRelease, After, registries, JournalInv
  <1>4. MoveInv'
    BY DEF NothingToRelease, After, registries, MoveInv
  <1>5. LeaseInv'
    BY DEF NothingToRelease, After, registries, LeaseInv
  <1>6. QuietInv'
    BY <1>1 DEF NothingToRelease, After, registries, QuietInv, JournalInv
  <1> QED
    BY <1>1, <1>2, <1>3, <1>4, <1>5, <1>6

LEMMA ReleasedStep ==
    ASSUME IInv, Released
    PROVE  IInv'
  <1> USE DEF IInv, TransferInv, Phase, SinceRepaired, SinceStopped, SinceFloor, SinceReserved,
              SinceRetired, SinceRegistered
  <1>1. WindowInv' /\ (Quiet' <=> Quiet)
    BY WindowKept DEF Released
  <1>2. TransferTypeOK'
    BY DEF Released, After, registries, TransferTypeOK
  <1>3. JournalInv'
    BY DEF Released, After, registries, JournalInv
  <1>4. MoveInv'
    BY DEF Released, After, registries, MoveInv, JournalInv
  <1>5. LeaseInv'
    BY DEF Released, After, registries, LeaseInv
  <1>6. QuietInv'
    BY <1>1 DEF Released, After, registries, QuietInv, JournalInv
  <1> QED
    BY <1>1, <1>2, <1>3, <1>4, <1>5, <1>6

LEMMA CompleteStep ==
    ASSUME IInv, Complete
    PROVE  IInv'
  <1> USE DEF IInv, TransferInv, Phase, SinceRepaired, SinceStopped, SinceFloor, SinceReserved,
              SinceRetired, SinceRegistered
  <1>1. WindowInv' /\ (Quiet' <=> Quiet)
    BY WindowKept DEF Complete
  <1>2. TransferTypeOK'
    BY DEF Complete, After, registries, TransferTypeOK
  <1>3. JournalInv'
    BY DEF Complete, After, registries, JournalInv
  <1>4. MoveInv'
    BY DEF Complete, After, registries, MoveInv
  <1>5. LeaseInv'
    BY DEF Complete, After, registries, LeaseInv
  <1>6. QuietInv'
    BY <1>1 DEF Complete, After, registries, QuietInv, JournalInv
  <1> QED
    BY <1>1, <1>2, <1>3, <1>4, <1>5, <1>6

\* drain_binding_outbox settles one row: no row becomes pending.
LEMMA DrainRowStep ==
    ASSUME IInv, NEW r \in Row, DrainRow(r)
    PROVE  IInv'
  <1> USE DEF IInv, TransferInv
  <1>1. WindowInv' /\ (Quiet' <=> Quiet)
    BY WindowKept DEF DrainRow
  <1>2. TransferTypeOK'
    BY DEF DrainRow, registries, TransferTypeOK
  <1>3. JournalInv' /\ MoveInv' /\ LeaseInv'
    BY DEF DrainRow, registries, JournalInv, MoveInv, LeaseInv
  <1>4. QuietInv'
    BY <1>1 DEF DrainRow, registries, QuietInv, TransferTypeOK
  <1> QED
    BY <1>1, <1>2, <1>3, <1>4

\* quiesce accepts only the proof of an open window, during which no service is up.
LEMMA QuiesceStep ==
    ASSUME IInv, Quiesce
    PROVE  IInv'
  <1> USE DEF IInv, TransferInv
  <1>1. WindowInv' /\ (Quiet' <=> Quiet)
    BY WindowKept DEF Quiesce
  <1>2. files.lease \in Claim /\ files.lease # None /\ files.lease.phase = "proved"
    BY FilesFacts, FileNames DEF Quiesce, Canonical, WindowInv
  <1>3. Quiet
    BY <1>2 DEF WindowInv, Proving
  <1>4. nonce' \in 0 .. MaxWindows
    <2>1. files.lease.nonce \in 1 .. MaxWindows
      BY <1>2, ClaimFacts
    <2>2. nonce' = files.lease.nonce
      BY DEF Quiesce
    <2>3. \A k \in 1 .. MaxWindows : k \in 0 .. MaxWindows
      BY WindowsAssumption
    <2> HIDE DEF IInv, TransferInv
    <2> QED
      BY <2>1, <2>2, <2>3, Zenon
  <1>5. TransferTypeOK'
    BY <1>4 DEF Quiesce, registries, TransferTypeOK
  <1>6. JournalInv'
    BY DEF Quiesce, After, JournalInv, SinceRepaired
  <1>7. MoveInv' /\ LeaseInv'
    BY DEF Quiesce, registries, MoveInv, LeaseInv
  <1>8. QuietInv'
    BY <1>1, <1>3 DEF Quiesce, QuietInv
  <1> QED
    BY <1>1, <1>5, <1>6, <1>7, <1>8

\* exclusive_change is entered when nobody is inside the effect lease.
LEMMA EnterChangeStep ==
    ASSUME IInv, EnterChange
    PROVE  IInv'
  <1> USE DEF IInv, TransferInv
  <1>1. WindowInv' /\ (Quiet' <=> Quiet)
    BY WindowKept DEF EnterChange
  <1>2. \A q \in Party : inside[q] = "out"
    BY DEF EnterChange, SourceWindow!EnterExclusive
  <1>3. TransferTypeOK'
    BY CoordinatorFacts DEF EnterChange, registries, TransferTypeOK
  <1>4. JournalInv'
    BY DEF EnterChange, After, JournalInv
  <1>5. MoveInv'
    BY DEF EnterChange, After, registries, MoveInv
  <1>6. LeaseInv'
    BY <1>2, CoordinatorFacts DEF EnterChange, registries, LeaseInv, TransferTypeOK
  <1>7. QuietInv'
    BY <1>1 DEF EnterChange, After, QuietInv
  <1> QED
    BY <1>1, <1>3, <1>4, <1>5, <1>6, <1>7

transferButAt == <<phase, nonce, valid, registries, rows, inside, crashes>>

LEMMA ReleaseWindowStep ==
    ASSUME IInv, ReleaseWindow
    PROVE  IInv'
  <1> USE DEF IInv, TransferInv
  <1>0. /\ UNCHANGED <<files, pc, alive, cons>> /\ issued' \in 0 .. MaxWindows
        /\ "done" \in Step /\ Coordinator \in Controller \cup {Coordinator}
    BY DEF ReleaseWindow, WindowInv, WindowTypeOK, Step
  <1>1. WindowInv'
    <2>1. CASE Canonical /\ Admit(Coordinator, End(files.lease, "transfer"), "done")
      <3>1. files.lease \in Claim
        BY <2>1, FilesFacts, FileNames DEF Canonical, WindowInv
      <3>2. GoodTodo(End(files.lease, "transfer")) /\ Len(End(files.lease, "transfer")) \in 0 .. 10
        BY <3>1, EndTodo
      <3> QED
        BY <1>0, <2>1, <3>2, AdmitStep
    <2>2. CASE Admit(Coordinator, CleanupWrites, "done")
      <3>1. GoodTodo(CleanupWrites) /\ Len(CleanupWrites) \in 0 .. 10
        BY CleanupTodo
      <3> QED
        BY <1>0, <2>2, <3>1, AdmitStep
    <2> QED
      BY <2>1, <2>2 DEF ReleaseWindow
  <1>2. at' = "releasing" /\ phase = "ownership_activated" /\ UNCHANGED transferButAt
    BY DEF ReleaseWindow, After, transferButAt, registries
  <1>3. TransferTypeOK'
    BY <1>2 DEF transferButAt, registries, TransferTypeOK
  <1>4. JournalInv' /\ MoveInv' /\ LeaseInv'
    BY <1>2 DEF transferButAt, registries, JournalInv, MoveInv, LeaseInv
  <1>5. QuietInv'
    BY <1>0, <1>2 DEF transferButAt, QuietInv, Quiet
  <1> QED
    BY <1>1, <1>3, <1>4, <1>5

\* The coordinator dies anywhere; its command and its lease go with it.
LEMMA CrashStep ==
    ASSUME IInv, Crash
    PROVE  IInv'
  <1> USE DEF IInv, TransferInv
  <1>1. WindowInv'
    <2>1. pc' \in [Controller -> Step] /\ alive' \in [Controller -> BOOLEAN]
      BY DEF Crash, WindowInv, WindowTypeOK, Step
    <2> QED
      BY <2>1, EndJobStep DEF Crash
  <1>2. crashes' \in 0 .. MaxCrashes
    BY CrashAssumption DEF Crash, TransferTypeOK
  <1>3. TransferTypeOK'
    BY <1>2, CoordinatorFacts DEF Crash, registries, TransferTypeOK
  <1>4. JournalInv' /\ MoveInv'
    BY DEF Crash, registries, JournalInv, MoveInv
  <1>5. LeaseInv'
    BY CoordinatorFacts DEF Crash, registries, LeaseInv, TransferTypeOK
  <1>6. QuietInv'
    BY DEF Crash, QuietInv, Quiet
  <1> QED
    BY <1>1, <1>3, <1>4, <1>5, <1>6

\* A deployment command changes nothing of the transfer, nor a consumer.
LEMMA DeploymentKeeps ==
    ASSUME IInv, Deployment, UNCHANGED transfer
    PROVE  IInv'
  <1> USE DEF IInv, TransferInv
  <1>1. WindowInv'
    BY DeploymentStep
  <1>2. cons' = cons
    BY DEF Deployment, Begin, Prove, ProveAgain, Bind, Finish, Fail, Release, Die, WriteNext, Interrupt
  <1>3. TransferTypeOK' /\ JournalInv' /\ MoveInv' /\ LeaseInv'
    BY DEF transfer, registries, TransferTypeOK, JournalInv, MoveInv, LeaseInv
  <1>4. QuietInv'
    BY <1>2 DEF transfer, QuietInv, Quiet
  <1> QED
    BY <1>1, <1>3, <1>4
-----------------------------------------------------------------------------
(* Consumers *)

\* A consumer that stops or starts leaves the window's part of the invariant,
\* when a service comes up only where there is no deployment.
LEMMA ConsumerWindow ==
    ASSUME WindowInv, UNCHANGED <<files, job, pc, alive, issued>>,
           cons' \in [Consumer -> {"down", "starting", "up"}],
           (Quiet => Quiet') \/ NoDeployment
    PROVE  WindowInv'
  <1>1. WindowTypeOK'
    BY DEF WindowInv, WindowTypeOK
  <1>2. CASE Quiet => Quiet'
    BY <1>1, <1>2 DEF WindowInv, IsJob, GoodTodo, NoProof, Proving
  <1>3. CASE NoDeployment
    BY <1>1, <1>3 DEF WindowInv, IsJob, GoodTodo, NoProof, Proving, NoDeployment
  <1> QED
    BY <1>2, <1>3

LEMMA StartConsumerStep ==
    ASSUME IInv, NEW x \in Consumer, StartConsumer(x)
    PROVE  IInv'
  <1> USE DEF IInv, TransferInv
  <1>0. UNCHANGED <<files, job, pc, alive, issued, transfer>>
    BY DEF StartConsumer, Launch, Preflight
  <1>1. cons' \in [Consumer -> {"down", "starting", "up"}]
    BY DEF StartConsumer, Launch, Preflight, WindowInv, WindowTypeOK
  <1>2. (Quiet => Quiet') \/ (NoDeployment /\ phase = "none")
    BY DEF StartConsumer, Launch, Preflight, Quiet, WindowInv, WindowTypeOK, Admissible
  <1>3. WindowInv'
    BY <1>0, <1>1, <1>2, ConsumerWindow
  <1>4. TransferTypeOK' /\ JournalInv' /\ MoveInv' /\ LeaseInv'
    BY <1>0 DEF transfer, registries, TransferTypeOK, JournalInv, MoveInv, LeaseInv
  <1>5. QuietInv'
    BY <1>0, <1>2 DEF transfer, QuietInv, SinceStopped, SinceFloor, SinceReserved, SinceRetired,
       SinceRegistered
  <1> QED
    BY <1>3, <1>4, <1>5

LEMMA StartCommandStep ==
    ASSUME IInv, NEW x \in Command, StartCommand(x)
    PROVE  IInv'
  <1> USE DEF IInv, TransferInv
  <1>0. UNCHANGED <<files, job, pc, alive, issued, transfer>>
    BY DEF StartCommand
  <1>1. cons' \in [Consumer -> {"down", "starting", "up"}]
    BY DEF StartCommand, WindowInv, WindowTypeOK
  <1>2. Quiet => Quiet'
    BY CoordinatorFacts DEF StartCommand, Quiet, WindowInv, WindowTypeOK
  <1>3. WindowInv'
    BY <1>0, <1>1, <1>2, ConsumerWindow
  <1>4. TransferTypeOK' /\ JournalInv' /\ MoveInv' /\ LeaseInv'
    BY <1>0 DEF transfer, registries, TransferTypeOK, JournalInv, MoveInv, LeaseInv
  <1>5. QuietInv'
    BY <1>0, <1>2 DEF transfer, QuietInv
  <1> QED
    BY <1>3, <1>4, <1>5

LEMMA StopConsumerStep ==
    ASSUME IInv, NEW x \in Consumer, StopConsumer(x)
    PROVE  IInv'
  <1> USE DEF IInv, TransferInv
  <1>0. UNCHANGED <<files, job, pc, alive, issued>>
    BY DEF StopConsumer, Stop
  <1>1. cons' \in [Consumer -> {"down", "starting", "up"}]
    BY DEF StopConsumer, Stop, WindowInv, WindowTypeOK
  <1>2. Quiet => Quiet'
    BY DEF StopConsumer, Stop, Quiet, WindowInv, WindowTypeOK
  <1>3. WindowInv'
    BY <1>0, <1>1, <1>2, ConsumerWindow
  <1>4. TransferTypeOK'
    BY CoordinatorFacts DEF StopConsumer, registries, TransferTypeOK
  <1>5. JournalInv' /\ MoveInv'
    BY DEF StopConsumer, registries, JournalInv, MoveInv
  <1>6. LeaseInv'
    BY CoordinatorFacts DEF StopConsumer, registries, LeaseInv, TransferTypeOK
  <1>7. QuietInv'
    BY <1>2 DEF StopConsumer, QuietInv
  <1> QED
    BY <1>3, <1>4, <1>5, <1>6, <1>7

\* A service that is up may write rows; none is once they must be drained.
LEMMA ProduceStep ==
    ASSUME IInv, NEW x \in Consumer, NEW r \in Row, Produce(x, r)
    PROVE  IInv'
  <1> USE DEF IInv, TransferInv
  <1>1. WindowInv' /\ (Quiet' <=> Quiet)
    BY WindowKept DEF Produce
  <1>2. TransferTypeOK'
    BY DEF Produce, registries, TransferTypeOK
  <1>3. JournalInv' /\ MoveInv' /\ LeaseInv'
    BY DEF Produce, registries, JournalInv, MoveInv, LeaseInv
  <1>4. QuietInv'
    <2>1. Quiet => rows'[r] # "pending"
      BY DEF Produce, Quiet, TransferTypeOK
    <2>2. \A q \in Row : q # r => rows'[q] = rows[q]
      BY DEF Produce, TransferTypeOK
    <2> QED
      BY <1>1, <2>1, <2>2 DEF Produce, QuietInv, JournalInv
  <1> QED
    BY <1>1, <1>2, <1>3, <1>4

\* The shared effect lease is not had while the coordinator is alone inside, nor
\* once ownership is withdrawn.
LEMMA EnterSourceStep ==
    ASSUME IInv, NEW x \in Consumer, EnterSource(x)
    PROVE  IInv'
  <1> USE DEF IInv, TransferInv
  <1>1. WindowInv' /\ (Quiet' <=> Quiet)
    BY WindowKept DEF EnterSource
  <1>2. ledger = "source" /\ \A q \in Party : inside[q] # "exclusive"
    BY DEF EnterSource, SourceWindow!EnterShared
  <1>3. TransferTypeOK'
    BY CoordinatorFacts DEF EnterSource, registries, TransferTypeOK
  <1>4. JournalInv' /\ MoveInv'
    BY DEF EnterSource, registries, JournalInv, MoveInv
  <1>5. LeaseInv'
    BY <1>2, CoordinatorFacts DEF EnterSource, registries, LeaseInv, TransferTypeOK
  <1>6. QuietInv'
    BY <1>1 DEF EnterSource, QuietInv
  <1> QED
    BY <1>1, <1>3, <1>4, <1>5, <1>6

LEMMA LeaveStep ==
    ASSUME IInv, NEW x \in Consumer, Leave(x)
    PROVE  IInv'
  <1> USE DEF IInv, TransferInv
  <1>1. WindowInv' /\ (Quiet' <=> Quiet)
    BY WindowKept DEF Leave
  <1>2. TransferTypeOK'
    BY CoordinatorFacts DEF Leave, registries, TransferTypeOK
  <1>3. JournalInv' /\ MoveInv'
    BY DEF Leave, registries, JournalInv, MoveInv
  <1>4. LeaseInv'
    BY CoordinatorFacts DEF Leave, registries, LeaseInv, TransferTypeOK
  <1>5. QuietInv'
    BY <1>1 DEF Leave, QuietInv
  <1> QED
    BY <1>1, <1>2, <1>3, <1>4, <1>5

LEMMA SettleStep ==
    ASSUME IInv, NEW x \in Consumer, NEW r \in Row, Settle(x, r)
    PROVE  IInv'
  <1> USE DEF IInv, TransferInv
  <1>1. WindowInv' /\ (Quiet' <=> Quiet)
    BY WindowKept DEF Settle
  <1>2. TransferTypeOK'
    BY CoordinatorFacts DEF Settle, registries, TransferTypeOK
  <1>3. JournalInv' /\ MoveInv'
    BY DEF Settle, registries, JournalInv, MoveInv
  <1>4. LeaseInv'
    BY CoordinatorFacts DEF Settle, registries, LeaseInv, TransferTypeOK
  <1>5. QuietInv'
    BY <1>1 DEF Settle, QuietInv, TransferTypeOK
  <1> QED
    BY <1>1, <1>2, <1>3, <1>4, <1>5
-----------------------------------------------------------------------------
(* The theorems *)

LEMMA CoordinateStep ==
    ASSUME IInv, Coordinate
    PROVE  IInv'
  BY StartStep, SaveStep, CloseIngressStep, DrainedStep, RepairCompatibilityStep, QuiesceStep,
     RevalidateStep, AdvanceFloorStep, FindReservationStep, EnterChangeStep, BeginTransferStep,
     LeaveChangeStep, RetireSourceStep, RegisterDestinationStep, ActivateOwnershipStep,
     NothingToReleaseStep, ReleaseWindowStep, ReleasedStep, CompleteStep, DrainRowStep
  DEF Coordinate

LEMMA ConsumeStep ==
    ASSUME IInv, Consume
    PROVE  IInv'
  BY LeaveStep, StartConsumerStep, StopConsumerStep, ProduceStep, SettleStep, EnterSourceStep,
     StartCommandStep
  DEF Consume

LEMMA NextIInv == IInv /\ [Next]_vars => IInv'
  <1> SUFFICES ASSUME IInv, [Next]_vars PROVE IInv'
    OBVIOUS
  <1>1. CASE UNCHANGED vars
    <2>1. UNCHANGED window /\ UNCHANGED transfer
      BY <1>1 DEF vars
    <2>2. WindowInv' /\ (Quiet' <=> Quiet)
      BY <2>1, WindowKept DEF IInv
    <2>3. TransferInv'
      BY <2>1, <2>2 DEF transfer, registries, IInv, TransferInv, TransferTypeOK, JournalInv, MoveInv,
         LeaseInv, QuietInv
    <2> QED
      BY <2>2, <2>3 DEF IInv
  <1> QED
    BY <1>1, CoordinateStep, ConsumeStep, CrashStep, DeploymentKeeps DEF Next

\* The invariant holds in every reachable state of the transfer.
THEOREM Invariance == Spec => []IInv
  BY InitIInv, NextIInv, PTL DEF Spec

\* Every reachable state of the transfer and of its window is well typed.
THEOREM TransferTypeCorrect == Spec => []TypeOK
  <1>1. IInv => TypeOK
    BY PhaseSet DEF IInv, WindowInv, TransferInv, TransferTypeOK, TypeOK
  <1> QED
    BY <1>1, Invariance, PTL

\* begin_transfer withdraws ownership only when no effect of the source is under
\* way, and none starts afterwards: the root never has two writers.
THEOREM NeverTwoWriters == Spec => []OneWriter
  <1>1. IInv => OneWriter
    BY DEF IInv, TransferInv, LeaseInv, OneWriter
  <1> QED
    BY <1>1, Invariance, PTL

\* The final drain of quiesce leaves no row of a service behind.
THEOREM NoRowLeftBehind == Spec => []DrainedBeforeMove
  <1>1. IInv => DrainedBeforeMove
    BY DEF IInv, TransferInv, MoveInv, QuietInv, DrainedBeforeMove, SinceStopped
  <1> QED
    BY <1>1, Invariance, PTL

\* Whatever was interrupted and recovered, ledger and registries agree on who
\* owns the root.
THEOREM OneRegisteredOwner == Spec => []RegistriesFollow
  <1>1. IInv => RegistriesFollow
    BY DEF IInv, TransferInv, MoveInv, RegistriesFollow, SinceRepaired, SinceStopped, SinceFloor,
       SinceReserved, SinceRetired, SinceRegistered, TransferTypeOK
  <1> QED
    BY <1>1, Invariance, PTL

\* No service is up while the proof of quiescence is accepted, nor once the
\* journal records that the producers are stopped.
THEOREM ServicesAreDown == Spec => []ServicesStayDown
  <1>1. IInv => ServicesStayDown
    <2> SUFFICES ASSUME IInv, Canonical \/ ~Before("producers_stopped") PROVE Quiet
      BY DEF ServicesStayDown, Quiet
    <2>1. CASE Canonical
      BY <2>1, FileNames DEF Canonical, IInv, WindowInv, Proving
    <2>2. CASE ~Before("producers_stopped")
      BY <2>2, BeforeFacts DEF IInv, TransferInv, TransferTypeOK, QuietInv
    <2> QED
      BY <2>1, <2>2
  <1> QED
    BY <1>1, Invariance, PTL
-----------------------------------------------------------------------------
(* The transfer and its consumers keep to the effect window of the source *)

\* A party leaves the window, or was not inside.
LEMMA OutStep ==
    ASSUME TransferTypeOK, NEW p \in Party, inside' = [inside EXCEPT ![p] = "out"], UNCHANGED ledger
    PROVE  [SourceWindow!Next]_(SourceWindow!vars)
  <1>1. CASE inside[p] = "out"
    <2>1. inside' = inside
      BY <1>1 DEF TransferTypeOK
    <2> QED
      BY <2>1 DEF SourceWindow!vars
  <1>2. CASE inside[p] # "out"
    BY <1>2 DEF SourceWindow!Next, SourceWindow!Leave
  <1> QED
    BY <1>1, <1>2

LEMMA SourceWindowStep ==
    ASSUME IInv, [Next]_vars
    PROVE  [SourceWindow!Next]_(SourceWindow!vars)
  <1>0. TransferTypeOK /\ JournalInv /\ MoveInv /\ LeaseInv
    BY DEF IInv, TransferInv
  <1>1. CASE UNCHANGED <<inside, ledger>>
    BY <1>1 DEF SourceWindow!vars
  <1>2. CASE EnterChange
    BY <1>2, CoordinatorFacts DEF EnterChange, SourceWindow!Next
  <1>3. CASE BeginTransfer
    <2>1. inside[Coordinator] = "exclusive" /\ inside' = inside /\ ledger' = "reserved"
      BY <1>0, <1>3 DEF BeginTransfer, LeaseInv
    <2>2. SourceWindow!Withdraw(Coordinator)
      BY <2>1 DEF SourceWindow!Withdraw
    <2> QED
      BY <2>2, CoordinatorFacts DEF SourceWindow!Next
  <1>4. CASE LeaveChange \/ Crash
    BY <1>0, <1>4, CoordinatorFacts, OutStep DEF LeaveChange, Crash, registries
  <1>5. CASE ActivateOwnership
    <2>1. ledger # "source" /\ ledger' # "source" /\ inside' = inside
      BY <1>0, <1>5 DEF ActivateOwnership, After, MoveInv, SinceReserved, SinceRetired, SinceRegistered
    <2> QED
      BY <2>1 DEF SourceWindow!vars
  <1>6. CASE Coordinate /\ ~EnterChange /\ ~BeginTransfer /\ ~LeaveChange /\ ~ActivateOwnership
    <2>1. UNCHANGED <<inside, ledger>>
      BY <1>6 DEF Coordinate, Start, Save, CloseIngress, Drained, RepairCompatibility, Quiesce, Revalidate,
         AdvanceFloor, FindReservation, RetireSource, RegisterDestination, NothingToRelease, ReleaseWindow,
         Released, Complete, DrainRow, registries
    <2> QED
      BY <1>1, <2>1
  <1>7. ASSUME NEW x \in Consumer, Leave(x) \/ StopConsumer(x)
        PROVE  [SourceWindow!Next]_(SourceWindow!vars)
    BY <1>0, <1>7, CoordinatorFacts, OutStep DEF Leave, StopConsumer, registries
  <1>8. ASSUME NEW x \in Consumer, NEW r \in Row, Settle(x, r)
        PROVE  [SourceWindow!Next]_(SourceWindow!vars)
    BY <1>0, <1>8, CoordinatorFacts, OutStep DEF Settle, registries
  <1>9. ASSUME NEW x \in Consumer, EnterSource(x)
        PROVE  [SourceWindow!Next]_(SourceWindow!vars)
    BY <1>9, CoordinatorFacts DEF EnterSource, SourceWindow!Next
  <1>10. ASSUME NEW x \in Consumer, NEW r \in Row, Produce(x, r)
         PROVE  UNCHANGED <<inside, ledger>>
    BY <1>10 DEF Produce, registries
  <1>11. ASSUME NEW x \in Consumer, StartConsumer(x) PROVE UNCHANGED <<inside, ledger>>
    BY <1>11 DEF StartConsumer, transfer, registries
  <1>12. ASSUME NEW x \in Command, StartCommand(x) PROVE UNCHANGED <<inside, ledger>>
    BY <1>12 DEF StartCommand, transfer, registries
  <1>13. CASE Consume
    BY <1>1, <1>7, <1>8, <1>9, <1>10, <1>11, <1>12, <1>13 DEF Consume
  <1>14. CASE (Deployment /\ UNCHANGED transfer) \/ UNCHANGED vars
    <2>1. UNCHANGED transfer
      BY <1>14 DEF vars
    <2> QED
      BY <1>1, <2>1 DEF transfer, registries
  <1> QED
    BY <1>2, <1>3, <1>4, <1>5, <1>6, <1>13, <1>14 DEF Next

\* The transfer uses the source's effect lease as EffectWindow promises it to be
\* used: the coordinator withdraws ownership only from inside, alone, ownership
\* never comes back to the source, and no consumer enters after it is gone,
\* whatever crashes.  So the transfer composes with any lease that implements
\* EffectWindow, as BindingEffectLease does.
THEOREM TransferKeepsToWindow == Spec => SourceWindow!Spec
  <1>1. Init => SourceWindow!Init
    BY DEF Init, SourceWindow!Init
  <1>2. IInv /\ [Next]_vars => [SourceWindow!Next]_(SourceWindow!vars)
    BY SourceWindowStep
  <1> QED
    BY <1>1, <1>2, Invariance, PTL DEF Spec, SourceWindow!Spec
=============================================================================
