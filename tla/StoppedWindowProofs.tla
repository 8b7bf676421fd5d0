------------------------ MODULE StoppedWindowProofs ------------------------
(***************************************************************************)
(* Proofs that what is left of a stopped window can be taken up again, and *)
(* that no controller loses a live claim, wherever a command or its        *)
(* controller dies.                                                        *)
(***************************************************************************)
EXTENDS ChannelTransferProofs

-----------------------------------------------------------------------------
(* Running a list of writes from a state of the files *)

FileState == [File -> Claim \cup {None}]

Put(F, w) == [F EXCEPT ![w.file] = w.to]

\* The block is the lease, or what a writer of the lease that was cut off left.
BlockFollows(b, l, live) ==
    \/ b = l
    \/ /\ b.phase = "claimed"
       /\ l.phase = "claimed" => ~live[b.by]
       /\ l.phase = "proved" => SameWindow(b, l)
    \/ /\ b.phase = "proved" /\ SameWindow(b, l)
       /\ l.phase = "cleanup" \/ (l.phase = "proved" /\ ~b.bound /\ l.bound)

\* A claim carries nothing beyond who made it and in which window.
Plain(v) == v # None /\ v.phase = "claimed" => v = NewClaim(v.by, v.nonce)

\* What the four files may say after any write, live telling who lives.
Sound(F, live) ==
    /\ F.fence # None => F.lease # None /\ F.fence.nonce = F.lease.nonce
    /\ F.proof # None => F.lease # None /\ F.proof.nonce = F.lease.nonce
    /\ F.lease # None => /\ F.block # None /\ F.block.nonce = F.lease.nonce
                         /\ BlockFollows(F.block, F.lease, live)
    /\ F.lease # None /\ F.lease.phase = "claimed" /\ F.fence # None =>
           F.fence.by = F.lease.by \/ ~live[F.fence.by]
    /\ Plain(F.block) /\ Plain(F.lease)

\* The command of by does not take or drop the claim of another that lives.
Kept(old, new, by, live) ==
    old # None /\ old # new /\ live[old.by] /\ old.phase # "cleanup"
        => /\ new # None /\ SameWindow(old, new)
           /\ new.phase = "cleanup" => by = old.by \/ new.result \in {"finished", "transfer"}

Good(F, w, by, live) == Sound(Put(F, w), live) /\ Kept(F.lease, Put(F, w).lease, by, live)

\* st is what the files go through when s is written from F on.
Trace(st, F, s) ==
    /\ st \in [0 .. Len(s) -> FileState]
    /\ st[0] = F
    /\ \A i \in 1 .. Len(s) : st[i] = Put(st[i - 1], s[i])

\* Every write of s is good: it may be cut off anywhere.
Safe(F, s, by, live) ==
    \E st : Trace(st, F, s) /\ \A i \in 1 .. Len(s) : Good(st[i - 1], s[i], by, live)

LEMMA PutType ==
    ASSUME NEW F \in FileState, NEW w \in AWrite
    PROVE  Put(F, w) \in FileState
  BY DEF FileState, Put, AWrite

LEMMA SafeNil ==
    ASSUME NEW F \in FileState, NEW by, NEW live
    PROVE  Safe(F, <<>>, by, live)
  <1> DEFINE st == [i \in 0 .. 0 |-> F]
  <1>1. Len(<<>>) = 0 /\ 1 .. 0 = {}
    BY EmptySeq
  <1>2. Trace(st, F, <<>>)
    BY <1>1 DEF Trace
  <1> QED
    BY <1>1, <1>2 DEF Safe

LEMMA ConsFacts ==
    ASSUME NEW w \in AWrite, NEW s \in Seq(AWrite)
    PROVE  /\ <<w>> \o s \in Seq(AWrite) /\ Len(<<w>> \o s) = Len(s) + 1 /\ Len(s) \in Nat
           /\ (<<w>> \o s)[1] = w
           /\ \A i \in 2 .. Len(s) + 1 : (<<w>> \o s)[i] = s[i - 1] /\ i - 1 \in 1 .. Len(s)
  <1>1. <<w>> \in Seq(AWrite) /\ Len(<<w>>) = 1 /\ Len(s) \in Nat
    BY LenProperties
  <1>2. <<w>>[1] = w
    OBVIOUS
  <1>3. /\ <<w>> \o s \in Seq(AWrite) /\ Len(<<w>> \o s) = 1 + Len(s)
        /\ \A i \in 1 .. 1 + Len(s) : (<<w>> \o s)[i] = IF i <= 1 THEN <<w>>[i] ELSE s[i - 1]
    BY <1>1, ConcatProperties
  <1> QED
    BY <1>1, <1>2, <1>3

LEMMA SafeCons ==
    ASSUME NEW F \in FileState, NEW w \in AWrite, NEW s \in Seq(AWrite), NEW by, NEW live,
           Good(F, w, by, live), Safe(Put(F, w), s, by, live)
    PROVE  Safe(F, <<w>> \o s, by, live)
  <1>1. PICK st : Trace(st, Put(F, w), s) /\ \A i \in 1 .. Len(s) : Good(st[i - 1], s[i], by, live)
    BY DEF Safe
  <1> DEFINE n == Len(s)
             q == <<w>> \o s
             sq == [i \in 0 .. n + 1 |-> IF i = 0 THEN F ELSE st[i - 1]]
  <1>2. n \in Nat /\ Len(q) = n + 1 /\ q[1] = w /\ \A i \in 2 .. n + 1 : q[i] = s[i - 1] /\ i - 1 \in 1 .. n
    BY ConsFacts
  <1>3. st \in [0 .. n -> FileState] /\ st[0] = Put(F, w) /\ \A i \in 1 .. n : st[i] = Put(st[i - 1], s[i])
    BY <1>1 DEF Trace
  <1>4. \A i \in 1 .. n : Good(st[i - 1], s[i], by, live)
    BY <1>1
  <1> HIDE DEF n, q
  <1>5. sq \in [0 .. n + 1 -> FileState] /\ sq[0] = F /\ sq[1] = st[0]
    BY <1>2, <1>3
  <1>6. \A i \in 2 .. n + 1 : sq[i] = st[i - 1] /\ sq[i - 1] = st[i - 2] /\ i - 1 \in 1 .. n
    BY <1>2
  <1> HIDE DEF sq
  <1>7. ASSUME NEW i \in 1 .. n + 1 PROVE sq[i] = Put(sq[i - 1], q[i]) /\ Good(sq[i - 1], q[i], by, live)
    <2>1. CASE i = 1
      BY <2>1, <1>2, <1>3, <1>5
    <2>2. CASE i # 1
      <3> DEFINE j == i - 1
      <3>1. i \in 2 .. n + 1 /\ j \in 1 .. n /\ i - 2 = j - 1
        BY <2>2, <1>2
      <3>2. sq[i] = st[j] /\ sq[i - 1] = st[j - 1] /\ q[i] = s[j]
        BY <3>1, <1>2, <1>6
      <3> HIDE DEF j
      <3> QED
        BY <3>1, <3>2, <1>3, <1>4
    <2> QED
      BY <2>1, <2>2
  <1>8. Trace(sq, F, q)
    BY <1>2, <1>5, <1>7 DEF Trace
  <1>9. Safe(F, q, by, live)
    BY <1>2, <1>7, <1>8 DEF Safe
  <1> QED
    BY <1>9 DEF q

LEMMA SafeHead ==
    ASSUME NEW F \in FileState, NEW s \in Seq(AWrite), s # <<>>, NEW by, NEW live,
           Safe(F, s, by, live)
    PROVE  /\ Good(F, Head(s), by, live)
           /\ Safe(Put(F, Head(s)), Tail(s), by, live)
  <1>1. PICK st : Trace(st, F, s) /\ \A i \in 1 .. Len(s) : Good(st[i - 1], s[i], by, live)
    BY DEF Safe
  <1> DEFINE n == Len(s) - 1
             q == Tail(s)
             sq == [i \in 0 .. n |-> st[i + 1]]
  <1>2. Len(s) \in Nat /\ Len(s) # 0
    BY LenProperties, EmptySeq
  <1>3. n \in Nat /\ Len(s) = n + 1 /\ Len(q) = n /\ \A i \in 1 .. n : q[i] = s[i + 1]
    BY <1>2, HeadTailProperties
  <1>4. Head(s) = s[1]
    BY <1>2
  <1> HIDE DEF n, q
  <1>5. /\ st \in [0 .. n + 1 -> FileState] /\ st[0] = F
        /\ \A i \in 1 .. n + 1 : st[i] = Put(st[i - 1], s[i]) /\ Good(st[i - 1], s[i], by, live)
    BY <1>1, <1>3 DEF Trace
  <1>6. st[1] = Put(F, Head(s)) /\ Good(F, Head(s), by, live)
    <2>1. 1 \in 1 .. n + 1 /\ 1 - 1 = 0
      BY <1>3
    <2> QED
      BY <2>1, <1>4, <1>5
  <1>7. sq \in [0 .. n -> FileState] /\ sq[0] = st[1]
    BY <1>3, <1>5
  <1>8. \A i \in 1 .. n : sq[i] = st[i + 1] /\ sq[i - 1] = st[i] /\ i + 1 \in 1 .. n + 1 /\ (i + 1) - 1 = i
    BY <1>3
  <1> HIDE DEF sq
  <1>9. ASSUME NEW i \in 1 .. n PROVE sq[i] = Put(sq[i - 1], q[i]) /\ Good(sq[i - 1], q[i], by, live)
    <2>1. q[i] = s[i + 1]
      BY <1>3
    <2> QED
      BY <2>1, <1>5, <1>8
  <1>10. Trace(sq, Put(F, Head(s)), q)
    BY <1>3, <1>6, <1>7, <1>9 DEF Trace
  <1>11. Safe(Put(F, Head(s)), q, by, live)
    BY <1>3, <1>9, <1>10 DEF Safe
  <1> QED
    BY <1>6, <1>11 DEF q

LEMMA Pair ==
    ASSUME NEW a \in AWrite, NEW b \in AWrite
    PROVE  <<a, b>> = <<a>> \o <<b>> /\ <<b>> \in Seq(AWrite) /\ <<a, b>> \in Seq(AWrite)
  <1>1. /\ <<a>> \in Seq(AWrite) /\ Len(<<a>>) = 1 /\ <<a>>[1] = a
        /\ <<b>> \in Seq(AWrite) /\ Len(<<b>>) = 1 /\ <<b>>[1] = b
    OBVIOUS
  <1>2. <<a, b>> \in Seq(AWrite) /\ Len(<<a, b>>) = 2 /\ <<a, b>>[1] = a /\ <<a, b>>[2] = b
    OBVIOUS
  <1>3. /\ <<a>> \o <<b>> \in Seq(AWrite) /\ Len(<<a>> \o <<b>>) = 2
        /\ (<<a>> \o <<b>>)[1] = a /\ (<<a>> \o <<b>>)[2] = b
    BY <1>1, ConcatProperties
  <1>4. \A i \in 1 .. 2 : i = 1 \/ i = 2
    OBVIOUS
  <1> QED
    BY <1>1, <1>2, <1>3, <1>4, SeqEqual

LEMMA Triple ==
    ASSUME NEW a \in AWrite, NEW b \in AWrite, NEW c \in AWrite
    PROVE  <<a, b, c>> = <<a>> \o <<b, c>> /\ <<a, b, c>> \in Seq(AWrite)
  <1> DEFINE s == <<a>>
             t == <<b, c>>
             u == <<a, b, c>>
  <1>1. /\ s \in Seq(AWrite) /\ Len(s) = 1 /\ s[1] = a
        /\ t \in Seq(AWrite) /\ Len(t) = 2 /\ t[1] = b /\ t[2] = c
    OBVIOUS
  <1>2. u \in Seq(AWrite) /\ Len(u) = 3 /\ u[1] = a /\ u[2] = b /\ u[3] = c
    OBVIOUS
  <1> HIDE DEF s, t, u
  <1>3. /\ s \o t \in Seq(AWrite) /\ Len(s \o t) = 3
        /\ (s \o t)[1] = a /\ (s \o t)[2] = b /\ (s \o t)[3] = c
    <2>1. /\ s \o t \in Seq(AWrite) /\ Len(s \o t) = Len(s) + Len(t)
          /\ \A i \in 1 .. Len(s) + Len(t) :
                (s \o t)[i] = IF i <= Len(s) THEN s[i] ELSE t[i - Len(s)]
      BY <1>1, ConcatProperties
    <2> QED
      BY <1>1, <2>1
  <1>4. \A i \in 1 .. 3 : i = 1 \/ i = 2 \/ i = 3
    OBVIOUS
  <1>5. s \o t = u
    BY <1>2, <1>3, <1>4, SeqEqual
  <1> QED
    BY <1>2, <1>5 DEF s, t, u

LEMMA Quadruple ==
    ASSUME NEW a \in AWrite, NEW b \in AWrite, NEW c \in AWrite, NEW d \in AWrite
    PROVE  <<a, b, c, d>> = <<a>> \o <<b, c, d>>
  <1> DEFINE s == <<a>>
             t == <<b, c, d>>
             u == <<a, b, c, d>>
  <1>1. /\ s \in Seq(AWrite) /\ Len(s) = 1 /\ s[1] = a
        /\ t \in Seq(AWrite) /\ Len(t) = 3 /\ t[1] = b /\ t[2] = c /\ t[3] = d
    OBVIOUS
  <1>2. u \in Seq(AWrite) /\ Len(u) = 4 /\ u[1] = a /\ u[2] = b /\ u[3] = c /\ u[4] = d
    OBVIOUS
  <1> HIDE DEF s, t, u
  <1>3. /\ s \o t \in Seq(AWrite) /\ Len(s \o t) = 4
        /\ (s \o t)[1] = a /\ (s \o t)[2] = b /\ (s \o t)[3] = c /\ (s \o t)[4] = d
    <2>1. /\ s \o t \in Seq(AWrite) /\ Len(s \o t) = Len(s) + Len(t)
          /\ \A i \in 1 .. Len(s) + Len(t) :
                (s \o t)[i] = IF i <= Len(s) THEN s[i] ELSE t[i - Len(s)]
      BY <1>1, ConcatProperties
    <2> QED
      BY <1>1, <2>1
  <1>4. \A i \in 1 .. 4 : i = 1 \/ i = 2 \/ i = 3 \/ i = 4
    OBVIOUS
  <1>5. s \o t = u
    BY <1>2, <1>3, <1>4, SeqEqual
  <1> QED
    BY <1>5 DEF s, t, u

LEMMA Regroup ==
    ASSUME NEW a \in AWrite, NEW s \in Seq(AWrite), NEW t \in Seq(AWrite)
    PROVE  (<<a>> \o s) \o t = <<a>> \o (s \o t) /\ s \o t \in Seq(AWrite)
  <1>1. <<a>> \in Seq(AWrite)
    OBVIOUS
  <1> QED
    BY <1>1, ConcatAssociative, ConcatProperties

LEMMA SafeTwo ==
    ASSUME NEW F \in FileState, NEW a \in AWrite, NEW b \in AWrite, NEW t \in Seq(AWrite),
           NEW by, NEW live, NEW F1, F1 = Put(F, a),
           Good(F, a, by, live), Good(F1, b, by, live), Safe(Put(F1, b), t, by, live)
    PROVE  Safe(F, <<a, b>> \o t, by, live)
  <1>1. F1 \in FileState
    BY PutType
  <1>2. Safe(F1, <<b>> \o t, by, live)
    BY <1>1, SafeCons
  <1>3. <<a, b>> \o t = <<a>> \o (<<b>> \o t) /\ <<b>> \o t \in Seq(AWrite)
    BY Pair, Regroup
  <1>4. Safe(F, <<a>> \o (<<b>> \o t), by, live)
    BY <1>2, <1>3, SafeCons
  <1> QED
    BY <1>3, <1>4

LEMMA SafeThree ==
    ASSUME NEW F \in FileState, NEW a \in AWrite, NEW b \in AWrite, NEW c \in AWrite,
           NEW t \in Seq(AWrite), NEW by, NEW live,
           NEW F1, F1 = Put(F, a), NEW F2, F2 = Put(F1, b),
           Good(F, a, by, live), Good(F1, b, by, live), Good(F2, c, by, live),
           Safe(Put(F2, c), t, by, live)
    PROVE  Safe(F, <<a, b, c>> \o t, by, live)
  <1>1. F1 \in FileState
    BY PutType
  <1>2. Safe(F1, <<b, c>> \o t, by, live)
    BY <1>1, SafeTwo
  <1>3. /\ <<b, c>> \in Seq(AWrite) /\ <<b, c>> \o t \in Seq(AWrite)
        /\ <<a, b, c>> \o t = <<a>> \o (<<b, c>> \o t)
    <2>1. <<b, c>> \in Seq(AWrite)
      BY Pair
    <2>2. <<a, b, c>> = <<a>> \o <<b, c>>
      BY Triple
    <2> DEFINE s == <<b, c>>
    <2> HIDE DEF s
    <2>3. s \o t \in Seq(AWrite) /\ (<<a>> \o s) \o t = <<a>> \o (s \o t)
      BY <2>1, Regroup DEF s
    <2> QED
      BY <2>1, <2>2, <2>3, Zenon DEF s
  <1>4. Safe(F, <<a>> \o (<<b, c>> \o t), by, live)
    BY <1>2, <1>3, SafeCons
  <1> QED
    BY <1>3, <1>4

\* The state of the files after one write.
LEMMA PutBlock ==
    ASSUME NEW F \in FileState, NEW v \in Claim \cup {None}, NEW G, G = Put(F, Write("block", v))
    PROVE  /\ Write("block", v) \in AWrite /\ G \in FileState
           /\ G.block = v /\ G.lease = F.lease /\ G.fence = F.fence /\ G.proof = F.proof
  <1>1. "block" \in File
    BY FileNames
  <1>2. Write("block", v) \in AWrite /\ Write("block", v).file = "block" /\ Write("block", v).to = v
    BY <1>1, WriteFacts
  <1>3. G = [F EXCEPT !["block"] = v]
    BY <1>2 DEF Put
  <1> QED
    BY <1>2, <1>3, FileNames DEF FileState

LEMMA PutLease ==
    ASSUME NEW F \in FileState, NEW v \in Claim \cup {None}, NEW G, G = Put(F, Write("lease", v))
    PROVE  /\ Write("lease", v) \in AWrite /\ G \in FileState
           /\ G.block = F.block /\ G.lease = v /\ G.fence = F.fence /\ G.proof = F.proof
  <1>1. "lease" \in File
    BY FileNames
  <1>2. Write("lease", v) \in AWrite /\ Write("lease", v).file = "lease" /\ Write("lease", v).to = v
    BY <1>1, WriteFacts
  <1>3. G = [F EXCEPT !["lease"] = v]
    BY <1>2 DEF Put
  <1> QED
    BY <1>2, <1>3, FileNames DEF FileState

LEMMA PutFence ==
    ASSUME NEW F \in FileState, NEW v \in Claim \cup {None}, NEW G, G = Put(F, Write("fence", v))
    PROVE  /\ Write("fence", v) \in AWrite /\ G \in FileState
           /\ G.block = F.block /\ G.lease = F.lease /\ G.fence = v /\ G.proof = F.proof
  <1>1. "fence" \in File
    BY FileNames
  <1>2. Write("fence", v) \in AWrite /\ Write("fence", v).file = "fence" /\ Write("fence", v).to = v
    BY <1>1, WriteFacts
  <1>3. G = [F EXCEPT !["fence"] = v]
    BY <1>2 DEF Put
  <1> QED
    BY <1>2, <1>3, FileNames DEF FileState

LEMMA PutProof ==
    ASSUME NEW F \in FileState, NEW v \in Claim \cup {None}, NEW G, G = Put(F, Write("proof", v))
    PROVE  /\ Write("proof", v) \in AWrite /\ G \in FileState
           /\ G.block = F.block /\ G.lease = F.lease /\ G.fence = F.fence /\ G.proof = v
  <1>1. "proof" \in File
    BY FileNames
  <1>2. Write("proof", v) \in AWrite /\ Write("proof", v).file = "proof" /\ Write("proof", v).to = v
    BY <1>1, WriteFacts
  <1>3. G = [F EXCEPT !["proof"] = v]
    BY <1>2 DEF Put
  <1> QED
    BY <1>2, <1>3, FileNames DEF FileState
-----------------------------------------------------------------------------
(* The lists of writes the commands are made of *)

LEMMA FileTypes ==
    ASSUME NEW F \in FileState
    PROVE  /\ F.block \in Claim \cup {None} /\ F.lease \in Claim \cup {None}
           /\ F.fence \in Claim \cup {None} /\ F.proof \in Claim \cup {None}
  BY FileNames DEF FileState

\* A cleanup that was recorded removes fence, proof, lease and block.
LEMMA CleanupSafe ==
    ASSUME NEW F \in FileState, NEW by, NEW live, Sound(F, live),
           F.lease = None \/ F.lease.phase = "cleanup"
    PROVE  Safe(F, Cleanup, by, live)
  <1> DEFINE a == Write("fence", None)
             b == Write("proof", None)
             c == Write("lease", None)
             d == Write("block", None)
             F1 == Put(F, a)
             F2 == Put(F1, b)
             F3 == Put(F2, c)
             F4 == Put(F3, d)
  <1>1. /\ a \in AWrite /\ F1 \in FileState /\ F1.block = F.block /\ F1.lease = F.lease
        /\ F1.fence = None /\ F1.proof = F.proof
    BY PutFence
  <1> HIDE DEF F1
  <1>2. /\ b \in AWrite /\ F2 \in FileState /\ F2.block = F.block /\ F2.lease = F.lease
        /\ F2.fence = None /\ F2.proof = None
    BY <1>1, PutProof
  <1> HIDE DEF F2
  <1>3. /\ c \in AWrite /\ F3 \in FileState /\ F3.block = F.block /\ F3.lease = None
        /\ F3.fence = None /\ F3.proof = None
    BY <1>2, PutLease
  <1> HIDE DEF F3
  <1>4. /\ d \in AWrite /\ F4 \in FileState /\ F4.block = None /\ F4.lease = None
        /\ F4.fence = None /\ F4.proof = None
    BY <1>3, PutBlock
  <1> HIDE DEF F4
  <1>5. Sound(F1, live) /\ Kept(F.lease, F1.lease, by, live)
    BY <1>1 DEF Sound, Kept
  <1>6. Sound(F2, live) /\ Kept(F1.lease, F2.lease, by, live)
    BY <1>1, <1>2 DEF Sound, Kept
  <1>7. Sound(F3, live) /\ Kept(F2.lease, F3.lease, by, live)
    BY <1>2, <1>3 DEF Sound, Kept, Plain
  <1>8. Sound(F4, live) /\ Kept(F3.lease, F4.lease, by, live)
    BY <1>3, <1>4 DEF Sound, Kept, Plain
  <1>9. Good(F, a, by, live) /\ Good(F1, b, by, live) /\ Good(F2, c, by, live) /\ Good(F3, d, by, live)
    BY <1>5, <1>6, <1>7, <1>8 DEF Good, F1, F2, F3, F4
  <1>10. Safe(F4, <<>>, by, live) /\ <<>> \in Seq(AWrite)
    BY <1>4, SafeNil, EmptySeq
  <1> HIDE DEF a, b, c, d
  <1>11. Safe(F1, <<b, c, d>> \o <<>>, by, live)
    BY <1>1, <1>2, <1>3, <1>4, <1>9, <1>10, SafeThree DEF F2, F3, F4
  <1>12. <<b, c, d>> \o <<>> = <<b, c, d>> /\ <<b, c, d>> \in Seq(AWrite)
    BY <1>2, <1>3, <1>4, Triple, ConcatEmptySeq
  <1>13. Safe(F, <<a>> \o <<b, c, d>>, by, live)
    BY <1>1, <1>9, <1>11, <1>12, SafeCons DEF F1
  <1>14. Cleanup = <<a>> \o <<b, c, d>>
    <2>1. <<a, b, c, d>> = <<a>> \o <<b, c, d>>
      <3>1. a \in AWrite /\ b \in AWrite /\ c \in AWrite /\ d \in AWrite
        BY <1>1, <1>2, <1>3, <1>4
      <3> QED
        BY <3>1, Quadruple, SMTT(30)
    <2>2. Cleanup = <<a, b, c, d>>
      BY DEF Cleanup, a, b, c, d
    <2> QED
      BY <2>1, <2>2
  <1> QED
    BY <1>13, <1>14

\* The window of the lease is ended: by its own controller, or with its proof.
LEMMA EndSafe ==
    ASSUME NEW F \in FileState, NEW by, NEW live, Sound(F, live),
           NEW lease \in Claim, F.lease # None, F.lease.phase # "cleanup", SameWindow(F.lease, lease),
           NEW result \in {"aborted", "finished", "transfer"},
           by = lease.by \/ result \in {"finished", "transfer"}
    PROVE  Safe(F, End(lease, result), by, live)
  <1> DEFINE e == [lease EXCEPT !.phase = "cleanup", !.result = result]
             a == Write("lease", e)
             b == Write("block", e)
             F1 == Put(F, a)
             F2 == Put(F1, b)
  <1>0. e \in Claim \cup {None} /\ e # None /\ e.phase = "cleanup"
    BY ClaimFacts, Zenon
  <1>1. e.nonce = lease.nonce /\ e.by = lease.by /\ e.result = result
    BY DEF Claim
  <1>2. End(lease, result) = <<a, b>> \o Cleanup
    BY DEF End
  <1> HIDE DEF e
  <1>3. /\ a \in AWrite /\ F1 \in FileState /\ F1.block = F.block /\ F1.lease = e
        /\ F1.fence = F.fence /\ F1.proof = F.proof
    BY <1>0, PutLease
  <1> HIDE DEF F1
  <1>4. /\ b \in AWrite /\ F2 \in FileState /\ F2.block = e /\ F2.lease = e
        /\ F2.fence = F.fence /\ F2.proof = F.proof
    BY <1>0, <1>3, PutBlock
  <1> HIDE DEF F2
  <1>5. Sound(F1, live)
    <2>1. F.lease.phase \in {"claimed", "proved"}
      BY FileTypes DEF Claim
    <2>2. BlockFollows(F.block, F.lease, live)
      BY DEF Sound
    <2>3. BlockFollows(F.block, e, live)
      BY <2>1, <2>2, <1>0, <1>1 DEF BlockFollows, SameWindow
    <2> QED
      BY <2>3, <1>0, <1>1, <1>3 DEF Sound, Plain, SameWindow
  <1>6. Kept(F.lease, F1.lease, by, live)
    BY <1>0, <1>1, <1>3 DEF Kept, SameWindow
  <1>7. Sound(F2, live) /\ Kept(F1.lease, F2.lease, by, live)
    <2>1. BlockFollows(e, e, live)
      BY DEF BlockFollows
    <2> QED
      BY <2>1, <1>0, <1>1, <1>3, <1>4 DEF Sound, Kept, Plain, SameWindow
  <1>8. Good(F, a, by, live) /\ Good(F1, b, by, live)
    BY <1>5, <1>6, <1>7 DEF Good, F1, F2
  <1>9. Safe(F2, Cleanup, by, live)
    BY <1>0, <1>4, <1>7, CleanupSafe
  <1> HIDE DEF a, b
  <1>10. Safe(F, <<a, b>> \o Cleanup, by, live)
    BY <1>3, <1>4, <1>8, <1>9, CleanupFacts, SafeTwo DEF F1, F2
  <1> QED
    BY <1>2, <1>10

\* A claim by c is written over a block that is c's or that of a dead controller.
LEMMA ClaimSafe ==
    ASSUME NEW F \in FileState, NEW by, NEW live, Sound(F, live),
           NEW c \in Controller, NEW n \in 1 .. MaxWindows,
           F.block # None, F.block.phase = "claimed", F.block.nonce = n,
           F.block.by = c \/ ~live[F.block.by],
           F.lease # None => F.lease.phase = "claimed" /\ (F.lease.by = c \/ ~live[F.lease.by]),
           F.fence # None => F.fence.by = c \/ ~live[F.fence.by]
    PROVE  LET k == NewClaim(c, n)
           IN  Safe(F, <<Write("lease", k), Write("fence", k), Write("block", k)>>, by, live)
  <1> DEFINE k == NewClaim(c, n)
             x == Write("lease", k)
             y == Write("fence", k)
             z == Write("block", k)
             F1 == Put(F, x)
             F2 == Put(F1, y)
             F3 == Put(F2, z)
  <1>0. k \in Claim \cup {None} /\ k # None /\ k.nonce = n /\ k.by = c /\ k.phase = "claimed"
    BY NewClaimFacts DEF NewClaim
  <1>1. Plain(k)
    BY <1>0 DEF Plain
  <1>2. F.block.by = c => F.block = k
    BY DEF Sound, Plain
  <1>3. F.lease # None /\ F.lease.by = c => F.lease = k
    BY DEF Sound, Plain
  <1> HIDE DEF k
  <1>4. /\ x \in AWrite /\ F1 \in FileState /\ F1.block = F.block /\ F1.lease = k
        /\ F1.fence = F.fence /\ F1.proof = F.proof
    BY <1>0, PutLease
  <1> HIDE DEF F1
  <1>5. /\ y \in AWrite /\ F2 \in FileState /\ F2.block = F.block /\ F2.lease = k
        /\ F2.fence = k /\ F2.proof = F.proof
    BY <1>0, <1>4, PutFence
  <1> HIDE DEF F2
  <1>6. /\ z \in AWrite /\ F3 \in FileState /\ F3.block = k /\ F3.lease = k
        /\ F3.fence = k /\ F3.proof = F.proof
    BY <1>0, <1>5, PutBlock
  <1> HIDE DEF F3
  <1>7. BlockFollows(F.block, k, live) /\ BlockFollows(k, k, live)
    BY <1>0, <1>2 DEF BlockFollows
  <1>8. Sound(F1, live)
    BY <1>0, <1>1, <1>4, <1>7 DEF Sound
  <1>9. Kept(F.lease, F1.lease, by, live)
    BY <1>3, <1>4 DEF Kept
  <1>10. Sound(F2, live) /\ Kept(F1.lease, F2.lease, by, live)
    BY <1>0, <1>1, <1>4, <1>5, <1>7 DEF Sound, Kept
  <1>11. Sound(F3, live) /\ Kept(F2.lease, F3.lease, by, live)
    BY <1>0, <1>1, <1>5, <1>6, <1>7 DEF Sound, Kept
  <1>12. Good(F, x, by, live) /\ Good(F1, y, by, live) /\ Good(F2, z, by, live)
    BY <1>8, <1>9, <1>10, <1>11 DEF Good, F1, F2, F3
  <1>13. Safe(F3, <<>>, by, live) /\ <<>> \in Seq(AWrite)
    BY <1>6, SafeNil, EmptySeq
  <1> HIDE DEF x, y, z
  <1>14. Safe(F, <<x, y, z>> \o <<>>, by, live)
    BY <1>4, <1>5, <1>6, <1>12, <1>13, SafeThree DEF F1, F2, F3
  <1>15. <<x, y, z>> \o <<>> = <<x, y, z>>
    BY <1>4, <1>5, <1>6, Triple, ConcatEmptySeq
  <1>16. Safe(F, <<x, y, z>>, by, live)
    BY <1>14, <1>15
  <1> QED
    BY <1>16 DEF x, y, z, k

\* Lease, block and proof are written in a window whose block is in line.
LEMMA ProofSafe ==
    ASSUME NEW F \in FileState, NEW by, NEW live, Sound(F, live),
           F.lease # None, F.block = F.lease, F.lease.phase \in {"claimed", "proved"},
           NEW v \in Claim, SameWindow(F.lease, v), v.phase = "proved",
           F.lease.phase = "proved" => v = F.lease \/ (~F.lease.bound /\ v.bound),
           NEW u \in Claim, u.nonce = v.nonce,
           NEW t \in Seq(AWrite),
           \A G \in FileState : /\ Sound(G, live) /\ G.lease = v /\ G.block = v
                                => Safe(G, t, by, live)
    PROVE  Safe(F, <<Write("lease", v), Write("block", v), Write("proof", u)>> \o t, by, live)
  <1> DEFINE x == Write("lease", v)
             y == Write("block", v)
             z == Write("proof", u)
             F1 == Put(F, x)
             F2 == Put(F1, y)
             F3 == Put(F2, z)
  <1>0. v \in Claim \cup {None} /\ v # None /\ u \in Claim \cup {None} /\ u # None
    BY ClaimFacts, Zenon
  <1>1. /\ x \in AWrite /\ F1 \in FileState /\ F1.block = F.block /\ F1.lease = v
        /\ F1.fence = F.fence /\ F1.proof = F.proof
    BY <1>0, PutLease
  <1> HIDE DEF F1
  <1>2. /\ y \in AWrite /\ F2 \in FileState /\ F2.block = v /\ F2.lease = v
        /\ F2.fence = F.fence /\ F2.proof = F.proof
    BY <1>0, <1>1, PutBlock
  <1> HIDE DEF F2
  <1>3. /\ z \in AWrite /\ F3 \in FileState /\ F3.block = v /\ F3.lease = v
        /\ F3.fence = F.fence /\ F3.proof = u
    BY <1>0, <1>2, PutProof
  <1> HIDE DEF F3
  <1>4. BlockFollows(F.block, v, live) /\ BlockFollows(v, v, live)
    BY DEF BlockFollows, SameWindow
  <1>5. Sound(F1, live)
    BY <1>0, <1>1, <1>4 DEF Sound, Plain, SameWindow
  <1>6. Kept(F.lease, F1.lease, by, live)
    BY <1>0, <1>1 DEF Kept
  <1>7. Sound(F2, live) /\ Kept(F1.lease, F2.lease, by, live)
    BY <1>0, <1>1, <1>2, <1>4 DEF Sound, Kept, Plain, SameWindow
  <1>8. Sound(F3, live) /\ Kept(F2.lease, F3.lease, by, live)
    BY <1>0, <1>2, <1>3, <1>4 DEF Sound, Kept, Plain, SameWindow
  <1>9. Good(F, x, by, live) /\ Good(F1, y, by, live) /\ Good(F2, z, by, live)
    BY <1>5, <1>6, <1>7, <1>8 DEF Good, F1, F2, F3
  <1>10. Safe(F3, t, by, live)
    BY <1>3, <1>8
  <1> HIDE DEF x, y, z
  <1>11. Safe(F, <<x, y, z>> \o t, by, live)
    BY <1>1, <1>2, <1>3, <1>9, <1>10, SafeThree DEF F1, F2, F3
  <1> QED
    BY <1>11 DEF x, y, z

\* The files once the block is in line with the lease.
Synced == [files EXCEPT !.block = files.lease]

LEMMA SyncedFacts ==
    ASSUME files \in FileState, NEW live, Sound(files, live), files.lease # None
    PROVE  /\ Synced \in FileState /\ Sound(Synced, live)
           /\ Synced.block = files.lease /\ Synced.lease = files.lease
           /\ Synced.fence = files.fence /\ Synced.proof = files.proof
  <1> DEFINE l == files.lease
  <1>1. l \in Claim \cup {None}
    BY FileTypes
  <1>2. /\ Synced \in FileState /\ Synced.block = l /\ Synced.lease = l
        /\ Synced.fence = files.fence /\ Synced.proof = files.proof
    BY <1>1, FileNames DEF Synced, FileState
  <1>3. BlockFollows(l, l, live)
    BY DEF BlockFollows
  <1> QED
    BY <1>2, <1>3 DEF Sound

\* A command brings the block in line before it writes t.
LEMMA SyncSafe ==
    ASSUME files \in FileState, NEW by, NEW live, Sound(files, live), files.lease # None,
           NEW t \in Seq(AWrite), Safe(Synced, t, by, live)
    PROVE  Safe(files, Sync \o t, by, live)
  <1>1. CASE files.block = files.lease
    <2>1. Synced = files
      BY <1>1, FileNames DEF Synced, FileState
    <2>2. Sync = <<>>
      BY <1>1 DEF Sync
    <2>3. <<>> \o t = t
      BY ConcatEmptySeq
    <2> QED
      BY <2>1, <2>2, <2>3
  <1>2. CASE files.block # files.lease
    <2> DEFINE l == files.lease
               w == Write("block", l)
    <2>1. Sync = <<w>>
      BY <1>2 DEF Sync
    <2>2. l \in Claim \cup {None}
      BY FileTypes
    <2>3. w \in AWrite /\ w.file = "block" /\ w.to = l
      BY <2>2, FileNames, WriteFacts
    <2>4. Put(files, w) = Synced
      BY <2>3 DEF Put, Synced
    <2>5. Sound(Synced, live) /\ Synced.lease = files.lease
      BY SyncedFacts
    <2>6. Good(files, w, by, live)
      BY <2>4, <2>5 DEF Good, Kept
    <2> HIDE DEF w
    <2>7. Safe(files, <<w>> \o t, by, live)
      BY <2>3, <2>4, <2>6, SafeCons
    <2> QED
      BY <2>1, <2>7
  <1> QED
    BY <1>1, <1>2
-----------------------------------------------------------------------------
(* Every command is made of safe lists *)

\* Where the lock is free the files are sound, and a command that has it writes
\* a list that may be cut off anywhere.
RecoveryInv ==
    /\ Sound(files, alive)
    /\ job # None => Safe(files, job.todo, job.by, alive)

LEMMA CleanupWritesSafe ==
    ASSUME files \in FileState, NEW by, NEW live, Sound(files, live),
           files.lease = None \/ files.lease.phase = "cleanup"
    PROVE  Safe(files, CleanupWrites, by, live)
  <1>1. CASE files.lease = None
    <2>1. CleanupWrites = <<>> \o Cleanup
      BY <1>1 DEF CleanupWrites
    <2>2. <<>> \o Cleanup = Cleanup
      BY CleanupFacts, ConcatEmptySeq
    <2> QED
      BY <2>1, <2>2, CleanupSafe
  <1>2. CASE files.lease # None
    <2>1. CleanupWrites = Sync \o Cleanup
      BY <1>2 DEF CleanupWrites
    <2>2. Safe(Synced, Cleanup, by, live)
      BY <1>2, SyncedFacts, CleanupSafe
    <2>3. Safe(files, Sync \o Cleanup, by, live)
      BY <1>2, <2>2, CleanupFacts, SyncSafe
    <2> QED
      BY <2>1, <2>3
  <1> QED
    BY <1>1, <1>2

LEMMA AdmitSafe ==
    ASSUME RecoveryInv, NEW who, NEW todo, NEW then, Admit(who, todo, then),
           UNCHANGED <<files, alive>>, Safe(files, todo, who, alive)
    PROVE  RecoveryInv'
  <1>1. job' = [by |-> who, todo |-> todo, then |-> then] /\ files' = files /\ alive' = alive
    BY DEF Admit
  <1>2. job'.todo = todo /\ job'.by = who
    BY <1>1
  <1>3. Sound(files', alive') /\ Safe(files', job'.todo, job'.by, alive')
    BY <1>1, <1>2 DEF RecoveryInv
  <1> QED
    BY <1>3 DEF RecoveryInv

\* The state a command finds: files, lease and block are typed and sound.
LEMMA Found ==
    ASSUME WindowTypeOK, RecoveryInv
    PROVE  /\ files \in FileState /\ Sound(files, alive)
           /\ files.lease \in Claim \cup {None} /\ files.block \in Claim \cup {None}
  BY FilesFacts DEF WindowTypeOK, RecoveryInv, FileState

LEMMA BeginFreshSafe ==
    ASSUME WindowTypeOK, RecoveryInv, NEW c \in Controller, BeginFresh(c),
           UNCHANGED <<files, alive>>
    PROVE  RecoveryInv'
  <1> DEFINE k == NewClaim(c, issued + 1)
             w == Write("block", k)
             t == <<Write("lease", k), Write("fence", k), Write("block", k)>>
             F1 == Put(files, w)
  <1>1. issued + 1 \in 1 .. MaxWindows
    BY WindowsAssumption DEF BeginFresh, WindowTypeOK
  <1>2. k \in Claim \cup {None} /\ k # None /\ k.nonce = issued + 1 /\ k.by = c /\ k.phase = "claimed"
    BY <1>1, NewClaimFacts DEF NewClaim
  <1>3. Plain(k)
    BY <1>2 DEF Plain
  <1>4. files.block = None /\ files.lease = None /\ files.fence = None /\ files.proof = None
    BY DEF BeginFresh, RecoveryInv, Sound
  <1>5. Admit(c, <<w>> \o t, "begun")
    BY <1>4 DEF BeginFresh, ClaimWrites
  <1>6. files \in FileState
    BY Found
  <1>7. k \in Claim \cup {None} /\ Safe(files, <<w>> \o t, c, alive)
    <2> HIDE DEF k
    <2>1. /\ w \in AWrite /\ F1 \in FileState /\ F1.block = k /\ F1.lease = None
          /\ F1.fence = None /\ F1.proof = None
      BY <1>2, <1>4, <1>6, PutBlock
    <2> HIDE DEF F1
    <2>2. Sound(F1, alive) /\ Kept(files.lease, F1.lease, c, alive)
      BY <1>3, <1>4, <2>1 DEF Sound, Kept, Plain
    <2>3. Safe(F1, t, c, alive)
      BY <1>1, <1>2, <2>1, <2>2, ClaimSafe DEF k
    <2>4. Good(files, w, c, alive)
      BY <2>2 DEF Good, F1
    <2>5. t \in Seq(AWrite)
      BY <1>2, FileNames, WriteFacts, Triple
    <2> HIDE DEF w, t
    <2> QED
      BY <1>2, <1>6, <2>1, <2>3, <2>4, <2>5, SafeCons DEF F1
  <1> HIDE DEF w, t
  <1> QED
    BY <1>5, <1>7, AdmitSafe

LEMMA BeginRootOnlySafe ==
    ASSUME WindowTypeOK, RecoveryInv, NEW c \in Controller, BeginRootOnly(c),
           UNCHANGED <<files, alive>>
    PROVE  RecoveryInv'
  <1> DEFINE n == files.block.nonce
             k == NewClaim(c, n)
             w == Write("block", k)
             t == <<Write("lease", k), Write("fence", k), Write("block", k)>>
             F1 == Put(files, w)
  <1>1. files.block \in Claim /\ n \in 1 .. MaxWindows /\ files \in FileState
    <2>1. files.block \in Claim /\ files \in FileState
      BY Found DEF BeginRootOnly
    <2>2. files.block.nonce \in 1 .. MaxWindows
      BY <2>1, ClaimFacts, Zenon
    <2> QED
      BY <2>1, <2>2
  <1>2. k \in Claim \cup {None} /\ k # None /\ k.nonce = n /\ k.by = c /\ k.phase = "claimed"
    BY <1>1, NewClaimFacts DEF NewClaim
  <1>3. Plain(k)
    BY <1>2 DEF Plain
  <1>4. /\ files.block # None /\ files.block.phase = "claimed"
        /\ files.lease = None /\ files.fence = None /\ files.proof = None
        /\ Sound(files, alive)
    BY DEF BeginRootOnly, RecoveryInv, Sound
  <1>5. t \in Seq(AWrite) /\ w \in AWrite
    BY <1>2, FileNames, WriteFacts, Triple
  <1>6. ClaimWrites(k) = t
    <2>1. ClaimWrites(k) = <<>> \o t
      BY <1>4 DEF ClaimWrites
    <2> HIDE DEF t
    <2> QED
      BY <1>5, <2>1, ConcatEmptySeq
  <1>7. CASE files.block.by = c
    <2>1. Safe(files, t, c, alive)
      BY <1>1, <1>4, <1>7, ClaimSafe
    <2>2. Admit(c, <<>> \o ClaimWrites(k), "begun")
      BY <1>7 DEF BeginRootOnly
    <2> HIDE DEF t, k
    <2>3. <<>> \o ClaimWrites(k) = t
      BY <1>5, <1>6, ConcatEmptySeq
    <2> QED
      BY <2>1, <2>2, <2>3, AdmitSafe
  <1>8. CASE files.block.by # c
    <2>1. Admit(c, <<w>> \o ClaimWrites(k), "begun")
      BY <1>8 DEF BeginRootOnly
    <2>2. /\ F1 \in FileState /\ F1.block = k /\ F1.lease = None
          /\ F1.fence = None /\ F1.proof = None
      <3> HIDE DEF k
      <3> QED
        BY <1>1, <1>2, <1>4, PutBlock
    <2> HIDE DEF F1
    <2>3. Sound(F1, alive) /\ Kept(files.lease, F1.lease, c, alive)
      BY <1>3, <1>4, <2>2 DEF Sound, Kept, Plain
    <2>4. Safe(F1, t, c, alive)
      BY <1>1, <1>2, <2>2, <2>3, ClaimSafe
    <2>5. Good(files, w, c, alive)
      BY <2>3 DEF Good, F1
    <2> HIDE DEF w, t, k
    <2>6. Safe(files, <<w>> \o t, c, alive)
      BY <1>1, <1>5, <2>4, <2>5, SafeCons DEF F1
    <2> QED
      BY <1>6, <2>1, <2>6, AdmitSafe
  <1> QED
    BY <1>7, <1>8, Zenon

LEMMA BeginClaimedSafe ==
    ASSUME WindowTypeOK, RecoveryInv, NEW c \in Controller, BeginClaimed(c),
           UNCHANGED <<files, alive>>
    PROVE  RecoveryInv'
  <1> DEFINE l == files.lease
             n == l.nonce
             k == NewClaim(c, n)
             w == Write("block", l)
             t == <<Write("lease", k), Write("fence", k), Write("block", k)>>
  <1>1. /\ l \in Claim /\ l # None /\ l.phase = "claimed" /\ n \in 1 .. MaxWindows
        /\ files \in FileState /\ Sound(files, alive)
    <2>1. files.lease # None /\ files.lease.phase = "claimed"
      BY DEF BeginClaimed
    <2>2. l \in Claim /\ files \in FileState /\ Sound(files, alive)
      BY <2>1, Found
    <2>3. l.nonce \in 1 .. MaxWindows
      BY <2>2, ClaimFacts, Zenon
    <2> QED
      BY <2>1, <2>2, <2>3
  <1>2. files.block # None /\ MayTakeClaim(c)
    BY DEF BeginClaimed, MatchesForBegin, Matches
  <1>3. /\ Synced \in FileState /\ Sound(Synced, alive) /\ Synced.block = l /\ Synced.lease = l
        /\ Synced.fence = files.fence /\ Synced.proof = files.proof
    BY <1>1, SyncedFacts
  <1>4. k \in Claim \cup {None}
    BY <1>1, NewClaimFacts
  <1>5. t \in Seq(AWrite) /\ w \in AWrite /\ <<w>> \in Seq(AWrite)
    BY <1>1, <1>4, FileNames, WriteFacts, Triple
  <1>6. ClaimWrites(k) = t
    <2>1. ClaimWrites(k) = <<>> \o t
      BY <1>2 DEF ClaimWrites
    <2> HIDE DEF t
    <2> QED
      BY <1>5, <2>1, ConcatEmptySeq
  <1>7. Admit(c, Sync \o <<w>>, "begun") \/ Admit(c, Sync \o ClaimWrites(k), "begun")
    BY DEF BeginClaimed
  <1>8. Safe(Synced, t, c, alive)
    <2>1. l.by = c \/ ~alive[l.by]
      BY <1>2 DEF MayTakeClaim
    <2>2. files.fence # None => files.fence.by = c \/ ~alive[files.fence.by]
      BY <1>1, <1>2 DEF MayTakeClaim, SameWindow, Sound
    <2> QED
      BY <1>1, <1>3, <2>1, <2>2, ClaimSafe
  <1>9. Safe(Synced, <<w>>, c, alive)
    <2> DEFINE F1 == Put(Synced, w)
    <2>1. /\ F1 \in FileState /\ F1.block = l /\ F1.lease = l
          /\ F1.fence = files.fence /\ F1.proof = files.proof
      BY <1>1, <1>3, PutBlock
    <2> HIDE DEF F1
    <2>2. Sound(F1, alive) /\ Kept(Synced.lease, F1.lease, c, alive)
      BY <1>3, <2>1 DEF Sound, Kept
    <2>3. Good(Synced, w, c, alive)
      BY <2>2 DEF Good, F1
    <2>4. Safe(F1, <<>>, c, alive) /\ <<>> \in Seq(AWrite)
      BY <2>1, SafeNil, EmptySeq
    <2> HIDE DEF w
    <2>5. Safe(Synced, <<w>> \o <<>>, c, alive)
      BY <1>3, <1>5, <2>3, <2>4, SafeCons DEF F1
    <2>6. <<w>> \o <<>> = <<w>>
      BY <1>5, ConcatEmptySeq
    <2> QED
      BY <2>5, <2>6
  <1>10. Safe(files, Sync \o <<w>>, c, alive)
    BY <1>1, <1>5, <1>9, SyncSafe
  <1> HIDE DEF w, t, k
  <1>11. Safe(files, Sync \o t, c, alive)
    BY <1>1, <1>5, <1>8, SyncSafe
  <1>12. CASE Admit(c, Sync \o <<w>>, "begun")
    BY <1>10, <1>12, AdmitSafe
  <1>13. CASE Admit(c, Sync \o t, "begun")
    BY <1>11, <1>13, AdmitSafe
  <1> QED
    BY <1>6, <1>7, <1>12, <1>13, Zenon

\* Bringing the block in line is all a refused command does.
LEMMA BeginRefusedSafe ==
    ASSUME WindowTypeOK, RecoveryInv, NEW c \in Controller, BeginRefused(c),
           UNCHANGED <<files, alive>>
    PROVE  RecoveryInv'
  <1>1. files.lease # None /\ Admit(c, Sync, "new") /\ files \in FileState /\ Sound(files, alive)
    BY Found DEF BeginRefused
  <1>2. Safe(Synced, <<>>, c, alive) /\ <<>> \in Seq(AWrite)
    BY <1>1, SyncedFacts, SafeNil, EmptySeq
  <1>3. Safe(files, Sync \o <<>>, c, alive)
    BY <1>1, <1>2, SyncSafe
  <1>4. Sync \o <<>> = Sync
    BY <1>1, SyncWrites, ConcatEmptySeq
  <1> QED
    BY <1>1, <1>3, <1>4, AdmitSafe

\* A cleanup is taken up by any command that finds it.
LEMMA InCleanupSafe ==
    ASSUME WindowTypeOK, RecoveryInv, InCleanup, NEW by
    PROVE  Safe(files, CleanupWrites, by, alive)
  <1>1. files.lease = None \/ files.lease.phase = "cleanup"
    BY DEF InCleanup
  <1> QED
    BY <1>1, Found, CleanupWritesSafe

LEMMA BeginSafe ==
    ASSUME WindowTypeOK, RecoveryInv, NEW c \in Controller, Begin(c)
    PROVE  RecoveryInv'
  <1>1. UNCHANGED <<files, alive>>
    BY DEF Begin
  <1>2. CASE BeginCleanup(c)
    <2>1. Admit(c, CleanupWrites, "new") /\ InCleanup
      BY <1>2 DEF BeginCleanup
    <2>2. Safe(files, CleanupWrites, c, alive)
      BY <2>1, InCleanupSafe
    <2> QED
      BY <1>1, <2>1, <2>2, AdmitSafe
  <1> QED
    BY <1>1, <1>2, BeginFreshSafe, BeginRootOnlySafe, BeginClaimedSafe, BeginRefusedSafe DEF Begin

LEMMA ProveSafe ==
    ASSUME WindowTypeOK, RecoveryInv, NEW c \in Controller, Prove(c) \/ ProveAgain(c)
    PROVE  RecoveryInv'
  <1> DEFINE l == files.lease
             v == [l EXCEPT !.phase = "proved"]
             u == [v EXCEPT !.bound = FALSE]
             t == <<Write("lease", v), Write("block", v), Write("proof", u)>>
  <1>1. /\ l \in Claim /\ l # None /\ l.phase \in {"claimed", "proved"}
        /\ files \in FileState /\ Sound(files, alive)
    <2>1. files.lease # None /\ files.lease.phase \in {"claimed", "proved"}
      BY DEF Prove, ProveAgain
    <2> QED
      BY <2>1, Found
  <1>2. v \in Claim /\ v.phase = "proved" /\ u \in Claim
    BY <1>1, ClaimFacts, Zenon
  <1>3. v.nonce = l.nonce /\ v.by = l.by /\ u.nonce = v.nonce
    BY <1>1 DEF Claim
  <1>4. (\E then : Admit(c, Sync \o t, then)) /\ UNCHANGED <<files, alive>>
    BY DEF Prove, ProveAgain, ProofWrites
  <1>5. l.phase = "proved" => v = l
    BY <1>1 DEF Claim
  <1> HIDE DEF v, u
  <1>6. /\ Synced \in FileState /\ Sound(Synced, alive) /\ Synced.block = l /\ Synced.lease = l
    BY <1>1, SyncedFacts
  <1>7. SameWindow(l, v)
    BY <1>3 DEF SameWindow
  <1>8. /\ <<>> \in Seq(AWrite)
        /\ \A G \in FileState : Sound(G, alive) /\ G.lease = v /\ G.block = v => Safe(G, <<>>, c, alive)
    BY SafeNil, EmptySeq
  <1>9. Safe(Synced, t \o <<>>, c, alive)
    BY <1>1, <1>2, <1>3, <1>5, <1>6, <1>7, <1>8, ProofSafe
  <1>10. t \in Seq(AWrite)
    BY <1>2, ThreeWrites
  <1> HIDE DEF t
  <1>11. t \o <<>> = t
    BY <1>10, ConcatEmptySeq
  <1>12. Safe(files, Sync \o t, c, alive)
    BY <1>1, <1>9, <1>10, <1>11, SyncSafe
  <1> QED
    BY <1>4, <1>12, AdmitSafe

\* The receipt is bound to the proof, and what follows finds it so.
LEMMA BindSafe ==
    ASSUME WindowTypeOK, RecoveryInv, Proved, NEW by, NEW t \in Seq(AWrite),
           \A G \in FileState : Sound(G, alive) /\ G.lease = BoundLease /\ G.block = BoundLease
                                => Safe(G, t, by, alive)
    PROVE  Safe(files, BindWrites \o t, by, alive)
  <1> DEFINE l == files.lease
             v == BoundLease
             s == <<Write("lease", v), Write("block", v), Write("proof", v)>>
  <1>1. /\ l \in Claim /\ l # None /\ l.phase = "proved"
        /\ files \in FileState /\ Sound(files, alive)
    <2>1. files.lease # None /\ files.lease.phase = "proved"
      BY FileNames DEF Proved
    <2> QED
      BY <2>1, Found
  <1>2. v \in Claim /\ v.phase = "proved"
    BY <1>1, ClaimFacts, Zenon DEF BoundLease
  <1>3. SameWindow(l, v) /\ (v = l \/ (~l.bound /\ v.bound))
    BY <1>1 DEF BoundLease, Claim, SameWindow
  <1>4. Synced \in FileState /\ Sound(Synced, alive) /\ Synced.block = l /\ Synced.lease = l
    BY <1>1, SyncedFacts
  <1>5. s \in Seq(AWrite) /\ BindWrites = Sync \o s
    BY <1>2, ThreeWrites DEF BindWrites
  <1> HIDE DEF v
  <1>6. Safe(Synced, s \o t, by, alive)
    <2>1. \A G \in FileState : Sound(G, alive) /\ G.lease = v /\ G.block = v => Safe(G, t, by, alive)
      BY DEF v
    <2> QED
      BY <1>1, <1>2, <1>3, <1>4, <2>1, ProofSafe
  <1> HIDE DEF s
  <1>7. Sync \in Seq(AWrite) /\ s \o t \in Seq(AWrite)
    BY <1>1, <1>5, SyncWrites, ConcatProperties
  <1>8. (Sync \o s) \o t = Sync \o (s \o t)
    <2> DEFINE r == Sync
    <2>1. r \in Seq(AWrite)
      BY <1>7
    <2> HIDE DEF r
    <2>2. (r \o s) \o t = r \o (s \o t)
      BY <1>5, <2>1, ConcatAssociative
    <2> QED
      BY <2>2 DEF r
  <1>9. Safe(files, Sync \o (s \o t), by, alive)
    BY <1>1, <1>6, <1>7, SyncSafe
  <1> QED
    BY <1>5, <1>8, <1>9

LEMMA BindCommandSafe ==
    ASSUME WindowInv, RecoveryInv, NEW c \in Controller, Bind(c)
    PROVE  RecoveryInv'
  <1>1. WindowTypeOK /\ Proved /\ Admit(c, BindWrites, "bound") /\ UNCHANGED <<files, alive>>
    BY DEF Bind, WindowInv
  <1>2. /\ <<>> \in Seq(AWrite)
        /\ \A G \in FileState : Sound(G, alive) /\ G.lease = BoundLease /\ G.block = BoundLease
                                => Safe(G, <<>>, c, alive)
    BY SafeNil, EmptySeq
  <1>3. Safe(files, BindWrites \o <<>>, c, alive)
    BY <1>1, <1>2, BindSafe
  <1>4. BindWrites \o <<>> = BindWrites
    BY <1>1, BindTodo, ConcatEmptySeq
  <1> QED
    BY <1>1, <1>3, <1>4, AdmitSafe

LEMMA FinishSafe ==
    ASSUME WindowInv, RecoveryInv, NEW c \in Controller, Finish(c)
    PROVE  RecoveryInv'
  <1> DEFINE then == IF pc[c] = "new" THEN "new" ELSE "done"
             e == End(BoundLease, "finished")
  <1>1. WindowTypeOK /\ UNCHANGED <<files, alive>>
    BY DEF Finish, WindowInv
  <1>2. CASE InCleanup
    <2>1. Admit(c, CleanupWrites, then)
      BY <1>2 DEF Finish
    <2> HIDE DEF then
    <2>2. Safe(files, CleanupWrites, c, alive)
      BY <1>1, <1>2, InCleanupSafe
    <2> QED
      BY <1>1, <2>1, <2>2, AdmitSafe
  <1>3. CASE ~InCleanup
    <2>1. Admit(c, BindWrites \o e, then) /\ Proved
      BY <1>3, Zenon DEF Finish
    <2> HIDE DEF then
    <2>2. BoundLease \in Claim /\ BoundLease.phase = "proved"
      <3>1. files.lease \in Claim /\ files.lease.phase = "proved"
        BY <1>1, <2>1, Found, FileNames DEF Proved
      <3> QED
        BY <3>1, ClaimFacts, Zenon DEF BoundLease
    <2>3. e \in Seq(AWrite)
      BY <2>2, EndWrites
    <2>4. ASSUME NEW G \in FileState, Sound(G, alive), G.lease = BoundLease, G.block = BoundLease
          PROVE  Safe(G, e, c, alive)
      <3> DEFINE v == BoundLease
      <3>1. v # None /\ SameWindow(v, v)
        BY <2>2, ClaimFacts, Zenon DEF SameWindow
      <3> QED
        BY <2>2, <2>4, <3>1, EndSafe
    <2> HIDE DEF e
    <2>5. Safe(files, BindWrites \o e, c, alive)
      BY <1>1, <2>1, <2>3, <2>4, BindSafe
    <2> QED
      BY <1>1, <2>1, <2>5, AdmitSafe
  <1> QED
    BY <1>2, <1>3

LEMMA ReleaseSafe ==
    ASSUME WindowTypeOK, RecoveryInv, NEW c \in Controller, Release(c)
    PROVE  RecoveryInv'
  <1> DEFINE own == IF files.lease # None THEN files.lease ELSE files.block
             e == End(files.lease, "aborted")
  <1>1. UNCHANGED <<files, alive>> /\ own.by = c
    BY DEF Release, ReleaseOwn
  <1>2. CASE own.phase = "cleanup"
    <2>1. Admit(c, CleanupWrites, "done") /\ InCleanup
      BY <1>2 DEF Release, ReleaseOwn, InCleanup
    <2>2. Safe(files, CleanupWrites, c, alive)
      BY <2>1, InCleanupSafe
    <2> QED
      BY <1>1, <2>1, <2>2, AdmitSafe
  <1>3. CASE own.phase # "cleanup"
    <2>1. files.lease # None /\ Admit(c, e, "done")
      BY <1>3 DEF Release, ReleaseOwn
    <2>2. files.lease \in Claim /\ files \in FileState /\ Sound(files, alive)
      BY <2>1, Found
    <2>3. files.lease.phase # "cleanup" /\ files.lease.by = c /\ SameWindow(files.lease, files.lease)
      BY <1>1, <1>3, <2>1 DEF SameWindow
    <2>4. Safe(files, e, c, alive)
      BY <2>1, <2>2, <2>3, EndSafe
    <2> HIDE DEF e
    <2> QED
      BY <1>1, <2>1, <2>4, AdmitSafe
  <1> QED
    BY <1>2, <1>3

\* The coordinator ends the window it was given.
LEMMA ReleaseWindowSafe ==
    ASSUME WindowTypeOK, RecoveryInv, ReleaseWindow
    PROVE  RecoveryInv'
  <1> DEFINE own == IF files.lease # None THEN files.lease ELSE files.block
             e == End(files.lease, "transfer")
  <1>1. UNCHANGED <<files, alive>>
    BY DEF ReleaseWindow
  <1>2. CASE own.phase = "cleanup"
    <2>1. Admit(Coordinator, CleanupWrites, "done") /\ InCleanup
      BY <1>2 DEF ReleaseWindow, InCleanup
    <2>2. Safe(files, CleanupWrites, Coordinator, alive)
      BY <2>1, InCleanupSafe
    <2> QED
      BY <1>1, <2>1, <2>2, AdmitSafe
  <1>3. CASE own.phase # "cleanup"
    <2>1. Canonical /\ Admit(Coordinator, e, "done")
      BY <1>3 DEF ReleaseWindow
    <2>2. files.lease # None /\ files.lease.phase # "cleanup" /\ SameWindow(files.lease, files.lease)
      BY <2>1, FileNames DEF Canonical, SameWindow
    <2>3. files.lease \in Claim /\ files \in FileState /\ Sound(files, alive)
      BY <2>2, Found
    <2>4. Safe(files, e, Coordinator, alive)
      BY <2>2, <2>3, EndSafe
    <2> HIDE DEF e
    <2> QED
      BY <1>1, <2>1, <2>4, AdmitSafe
  <1> QED
    BY <1>2, <1>3
-----------------------------------------------------------------------------
(* The invariant is kept by every step *)

\* Fewer live controllers: what was sound or safe stays so.
Fewer(live, less) == \A c \in Controller : less[c] => live[c]

LEMMA SoundFewer ==
    ASSUME NEW F \in FileState, NEW live, NEW less, Fewer(live, less), Sound(F, live)
    PROVE  Sound(F, less)
  <1>1. \A f \in File : F[f] # None => F[f].by \in Controller
    BY DEF FileState, Claim
  <1>2. /\ F.block # None => F.block.by \in Controller
        /\ F.fence # None => F.fence.by \in Controller
    BY <1>1, FileNames
  <1> QED
    BY <1>2 DEF Sound, BlockFollows, Fewer

LEMMA SafeFewer ==
    ASSUME NEW F \in FileState, NEW s \in Seq(AWrite), NEW by, NEW live, NEW less,
           Fewer(live, less), Safe(F, s, by, live)
    PROVE  Safe(F, s, by, less)
  <1>1. PICK st : Trace(st, F, s) /\ \A i \in 1 .. Len(s) : Good(st[i - 1], s[i], by, live)
    BY DEF Safe
  <1>2. Len(s) \in Nat
    BY LenProperties
  <1>3. ASSUME NEW i \in 1 .. Len(s) PROVE Good(st[i - 1], s[i], by, less)
    <2> DEFINE E == st[i - 1]
               G == Put(E, s[i])
    <2>1. i - 1 \in 0 .. Len(s) /\ i \in 0 .. Len(s)
      BY <1>2
    <2>2. E \in FileState /\ G \in FileState /\ st[i] = G
      BY <1>1, <2>1 DEF Trace
    <2>3. Sound(G, live) /\ Kept(E.lease, G.lease, by, live)
      BY <1>1 DEF Good
    <2>4. E.lease # None => E.lease.by \in Controller
      BY <2>2, FileTypes DEF Claim
    <2> HIDE DEF E, G
    <2>5. Sound(G, less)
      BY <2>2, <2>3, SoundFewer
    <2>6. Kept(E.lease, G.lease, by, less)
      BY <2>3, <2>4 DEF Kept, Fewer
    <2> QED
      BY <2>5, <2>6 DEF Good, E, G
  <1> QED
    BY <1>1, <1>3 DEF Safe

\* A command ends, or a controller dies: nothing is written.
LEMMA NoWriteKeeps ==
    ASSUME WindowInv, RecoveryInv, UNCHANGED files, Fewer(alive, alive'),
           job' = job \/ job' = None
    PROVE  RecoveryInv'
  <1>1. files \in FileState
    BY DEF WindowInv, WindowTypeOK, FileState
  <1>2. Sound(files, alive')
    BY <1>1, SoundFewer DEF RecoveryInv
  <1>3. CASE job' = None
    BY <1>2, <1>3 DEF RecoveryInv
  <1>4. CASE job' = job /\ job # None
    <2> DEFINE s == job.todo
               by == job.by
    <2>1. s \in Seq(AWrite) /\ Safe(files, s, by, alive)
      BY <1>4 DEF WindowInv, IsJob, RecoveryInv
    <2> HIDE DEF s, by
    <2>2. Safe(files, s, by, alive')
      BY <1>1, <2>1, SafeFewer
    <2>3. Safe(files', job'.todo, job'.by, alive')
      BY <1>4, <2>2 DEF s, by
    <2> QED
      BY <1>2, <2>3 DEF RecoveryInv
  <1> QED
    BY <1>3, <1>4

\* The next write of a command is one of those that were found good.
LEMMA WriteSafe ==
    ASSUME WindowInv, RecoveryInv, WriteNext, job.todo # <<>>
    PROVE  RecoveryInv' /\ Kept(files.lease, files'.lease, job.by, alive)
  <1> DEFINE s == job.todo
             by == job.by
  <1>1. /\ files \in FileState /\ s \in Seq(AWrite) /\ s # <<>>
        /\ Safe(files, s, by, alive)
    BY DEF WriteNext, WindowInv, WindowTypeOK, FileState, IsJob, RecoveryInv
  <1>2. files' = Put(files, Head(s)) /\ alive' = alive
    BY DEF WriteNext, Put
  <1>3. job'.todo = Tail(s) /\ job'.by = by
    <2>1. job \in [by : Controller \cup {Coordinator}, todo : Seq(AWrite), then : Step]
      BY DEF WriteNext, WindowInv, IsJob
    <2>2. job' = [job EXCEPT !.todo = Tail(s)]
      BY DEF WriteNext
    <2> QED
      BY <2>1, <2>2
  <1> HIDE DEF s, by
  <1>4. Good(files, Head(s), by, alive) /\ Safe(Put(files, Head(s)), Tail(s), by, alive)
    BY <1>1, SafeHead
  <1>5. Sound(files', alive') /\ Kept(files.lease, files'.lease, by, alive)
    BY <1>2, <1>4 DEF Good
  <1>6. Safe(files', job'.todo, job'.by, alive')
    BY <1>2, <1>3, <1>4
  <1> QED
    BY <1>5, <1>6 DEF RecoveryInv, by

LEMMA DeploymentSafe ==
    ASSUME WindowInv, RecoveryInv, Deployment
    PROVE  RecoveryInv' /\ (files' = files \/ Kept(files.lease, files'.lease, job.by, alive))
  <1>0. WindowTypeOK /\ alive \in [Controller -> BOOLEAN]
    BY DEF WindowInv, WindowTypeOK
  <1>1. ASSUME NEW c \in Controller,
               Begin(c) \/ Prove(c) \/ ProveAgain(c) \/ Bind(c) \/ Finish(c) \/ Release(c)
        PROVE  RecoveryInv' /\ files' = files
    <2>1. files' = files
      BY <1>1 DEF Begin, Prove, ProveAgain, Bind, Finish, Release
    <2> QED
      BY <1>0, <1>1, <2>1, BeginSafe, ProveSafe, BindCommandSafe, FinishSafe, ReleaseSafe
  <1>2. ASSUME NEW c \in Controller, Fail(c) PROVE RecoveryInv' /\ files' = files
    BY <1>2, NoWriteKeeps DEF Fail, Fewer
  <1>3. ASSUME NEW c \in Controller, Die(c) PROVE RecoveryInv' /\ files' = files
    <2>1. Fewer(alive, alive')
      BY <1>0, <1>3 DEF Die, Fewer
    <2> QED
      BY <1>3, <2>1, NoWriteKeeps DEF Die
  <1>4. CASE WriteNext /\ job.todo # <<>>
    BY <1>4, WriteSafe
  <1>5. CASE WriteNext /\ job.todo = <<>>
    BY <1>5, NoWriteKeeps DEF WriteNext, Fewer
  <1>6. CASE Interrupt
    BY <1>6, NoWriteKeeps DEF Interrupt, Fewer
  <1> QED
    BY <1>1, <1>2, <1>3, <1>4, <1>5, <1>6 DEF Deployment

\* The files, the lock and who lives are left alone by the rest of the transfer.
LEMMA OthersKeep ==
    ASSUME WindowInv, RecoveryInv, Coordinate \/ Crash \/ Consume \/ UNCHANGED vars
    PROVE  RecoveryInv' /\ files' = files
  <1>0. WindowTypeOK
    BY DEF WindowInv
  <1>1. CASE UNCHANGED <<files, job, alive>>
    BY <1>1, NoWriteKeeps DEF Fewer
  <1>2. CASE Crash
    BY <1>2, NoWriteKeeps DEF Crash, Fewer
  <1>3. CASE ReleaseWindow
    <2>1. files' = files
      BY <1>3 DEF ReleaseWindow
    <2> QED
      BY <1>0, <1>3, <2>1, ReleaseWindowSafe
  <1>4. CASE Coordinate /\ ~ReleaseWindow
    <2>1. UNCHANGED <<files, job, alive>>
      BY <1>4 DEF Coordinate, Start, Save, CloseIngress, Drained, RepairCompatibility, Quiesce, Revalidate,
         AdvanceFloor, FindReservation, EnterChange, BeginTransfer, LeaveChange, RetireSource,
         RegisterDestination, ActivateOwnership, NothingToRelease, Released, Complete, DrainRow, window
    <2> QED
      BY <1>1, <2>1
  <1>5. CASE Consume
    <2>1. UNCHANGED <<files, job, alive>>
      BY <1>5 DEF Consume, Leave, StartConsumer, StopConsumer, Produce, Settle, EnterSource, StartCommand,
         Launch, Preflight, Stop, window
    <2> QED
      BY <1>1, <2>1
  <1>6. CASE UNCHANGED vars
    <2>1. UNCHANGED <<files, job, alive>>
      BY <1>6 DEF vars, window
    <2> QED
      BY <1>1, <2>1
  <1> QED
    BY <1>2, <1>3, <1>4, <1>5, <1>6

LEMMA InitRecovery == Init => RecoveryInv
  <1> SUFFICES ASSUME Init PROVE RecoveryInv
    OBVIOUS
  <1>1. files = [f \in File |-> None] /\ job = None
    BY DEF Init, WindowInit
  <1>2. files.block = None /\ files.lease = None /\ files.fence = None /\ files.proof = None
    BY <1>1, FileNames
  <1> QED
    BY <1>1, <1>2 DEF RecoveryInv, Sound, Plain

LEMMA NextRecovery ==
    ASSUME IInv, RecoveryInv, [Next]_vars
    PROVE  RecoveryInv' /\ (files' = files \/ Kept(files.lease, files'.lease, job.by, alive))
  <1>1. WindowInv
    BY DEF IInv
  <1> QED
    BY <1>1, DeploymentSafe, OthersKeep DEF Next

\* In every reachable state the files are sound, and every list of writes that a
\* command still has to do may be cut off anywhere.
THEOREM RecoveryInvariance == Spec => []RecoveryInv
  <1>1. IInv /\ RecoveryInv /\ [Next]_vars => RecoveryInv'
    BY NextRecovery
  <1> QED
    BY <1>1, InitRecovery, Invariance, PTL DEF Spec

\* Whatever command or controller is cut off, between any two writes, the files
\* never mix two windows, no restart fence is left without its claim, a recorded
\* cleanup can be completed, a proved window proved again and the claim of a dead
\* controller adopted.
THEOREM WindowsAreResumable == Spec => []Resumable
  <1>1. IInv /\ RecoveryInv => Resumable
    <2> SUFFICES ASSUME IInv, RecoveryInv PROVE Resumable
      OBVIOUS
    <2> DEFINE b == files.block
               l == files.lease
               g == files.fence
               p == files.proof
    <2>0. /\ Sound(files, alive) /\ WindowTypeOK
          /\ b \in Claim \cup {None} /\ l \in Claim \cup {None}
      BY Found DEF IInv, WindowInv, RecoveryInv
    <2>1. \A f, h \in File : files[f] # None /\ files[h] # None => files[f].nonce = files[h].nonce
      <3>1. ASSUME NEW f \in File, files[f] # None PROVE b # None /\ files[f].nonce = b.nonce
        BY <2>0, <3>1 DEF Sound, File
      <3> QED
        BY <3>1
    <2>2. g # None => l # None \/ b # None
      BY <2>0 DEF Sound
    <2>3. l # None /\ l.phase = "cleanup" => CleanupAllowed \/ b.phase = "claimed"
      BY <2>0 DEF Sound, BlockFollows, CleanupAllowed, Matches, Lags
    <2>4. ASSUME l # None, l.phase = "claimed", ~alive[l.by]
          PROVE  /\ MatchesForBegin
                 /\ \A c \in Controller : MayTakeClaim(c) \/ (g # None /\ ~alive[g.by])
      <3>1. /\ b # None /\ b.nonce = l.nonce /\ BlockFollows(b, l, alive) /\ Plain(b) /\ Plain(l)
            /\ g # None => g.nonce = l.nonce /\ (g.by = l.by \/ ~alive[g.by])
        BY <2>0, <2>4 DEF Sound
      <3>2. b = l \/ (b.phase = "claimed" /\ ~alive[b.by])
        BY <2>4, <3>1 DEF BlockFollows
      <3>3. b.phase = "claimed" /\ b.by = l.by => b = l
        BY <2>4, <3>1 DEF Plain
      <3>4. MatchesForBegin
        BY <2>4, <3>1, <3>2, <3>3 DEF MatchesForBegin, Matches, LagsAdoption
      <3>5. \A c \in Controller : MayTakeClaim(c) \/ (g # None /\ ~alive[g.by])
        BY <2>4, <3>1 DEF MayTakeClaim, SameWindow
      <3> QED
        BY <3>4, <3>5
    <2>5. l # None /\ l.phase = "proved" => Matches
      BY <2>0 DEF Sound, BlockFollows, Matches, Lags
    <2> QED
      BY <2>1, <2>2, <2>3, <2>4, <2>5 DEF Resumable
  <1> QED
    BY <1>1, Invariance, RecoveryInvariance, PTL

\* No write of any command takes or drops the claim of a controller that lives,
\* save its own release, a finish with its proof and the transfer's release.
THEOREM LiveClaimsAreKept == Spec => LiveClaimKept
  <1> DEFINE KeptStep ==
         LET old == files.lease  new == files'.lease
         IN  old # None /\ old # new /\ alive[old.by] /\ old.phase # "cleanup"
                 => /\ new # None /\ SameWindow(old, new)
                    /\ new.phase = "cleanup" =>
                         job.by = old.by \/ new.result \in {"finished", "transfer"}
  <1>1. IInv /\ RecoveryInv /\ [Next]_vars => [KeptStep]_window
    <2> SUFFICES ASSUME IInv, RecoveryInv, [Next]_vars PROVE KeptStep
      OBVIOUS
    <2>1. files' = files \/ Kept(files.lease, files'.lease, job.by, alive)
      BY NextRecovery
    <2> QED
      BY <2>1 DEF Kept
  <1>2. Spec => [][KeptStep]_window
    BY <1>1, Invariance, RecoveryInvariance, PTL DEF Spec
  <1> QED
    BY <1>2 DEF LiveClaimKept
=============================================================================
