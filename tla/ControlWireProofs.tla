-------------------------- MODULE ControlWireProofs --------------------------
(***************************************************************************)
(* What holds of ControlWire for every command, every body and every size  *)
(* of its buffers: the types, that arguments arrive as they were given,    *)
(* and that what termctl prints is the beginning of one answer.            *)
(*                                                                         *)
(* The three loops over bytes are folds, and the joined line is a          *)
(* flattened sequence. The first part turns all four into runs: a state    *)
(* before each byte, which the byte's step leads to the next.  Runs can be *)
(* cut and put together where the reads cut the bytes.                     *)
(***************************************************************************)
EXTENDS ControlWire, SequenceTheorems, WellFoundedInduction, TLAPS

StepOf(loop, s, b) ==
  CASE loop = "split" -> SplitByte(s, b)
    [] loop = "copy"  -> CopyByte(s, b)
    [] loop = "read"  -> ReadByte(s, b)
    [] OTHER          -> s \o b

IsRun(loop, s, seq, r) ==
  /\ r[0] = s
  /\ \A i \in 1 .. Len(seq) : r[i] = StepOf(loop, r[i - 1], seq[i])

\* The loop leads from s over seq to t.
Runs(loop, s, seq, t) == \E r : IsRun(loop, s, seq, r) /\ r[Len(seq)] = t

-----------------------------------------------------------------------------
(***************************************************************************)
(* Climbing to n                                                           *)
(***************************************************************************)

LEMMA LeastExists ==
  ASSUME NEW S \in SUBSET Nat, S # {}
  PROVE  \E m \in S : \A n \in S : m <= n
<1> DEFINE R == {ss \in Nat \X Nat : ss[1] < ss[2]}
<1>1. IsWellFoundedOn(R, Nat)
  BY NatLessThanWellFounded DEF OpToRel
<1>2. \E m \in S : \A n \in S : ~(<<n, m>> \in R)
  <2> HIDE DEF R
  <2> QED
    BY <1>1, WFMin
<1>3. PICK m \in S : \A n \in S : ~(<<n, m>> \in R)
  BY <1>2
<1>4. ASSUME NEW n \in S PROVE m <= n
  <2>1. m \in Nat /\ n \in Nat /\ <<n, m>> \in Nat \X Nat
    OBVIOUS
  <2>2. ~(n < m)
    BY <1>3, <2>1
  <2> QED
    BY <2>1, <2>2
<1> QED
  BY <1>4

\* A set that has 0, and with each number below n the next, has all up to n.
LEMMA Climb ==
  ASSUME NEW n \in Nat, NEW S, 0 \in S, \A i \in 0 .. (n - 1) : i \in S => i + 1 \in S
  PROVE  \A i \in 0 .. n : i \in S
<1> DEFINE Missing == {i \in 0 .. n : i \notin S}
<1>1. ASSUME Missing # {} PROVE FALSE
  <2>1. Missing \in SUBSET Nat
    OBVIOUS
  <2>2. PICK m \in Missing : \A i \in Missing : m <= i
    <3> HIDE DEF Missing
    <3> QED BY <1>1, <2>1, LeastExists
  <2>3. m \in 0 .. n /\ m \notin S /\ m # 0
    OBVIOUS
  <2>4. m - 1 \in 0 .. (n - 1) /\ m - 1 \notin Missing
    BY <2>2, <2>3
  <2>5. m - 1 \in S
    BY <2>4
  <2>6. (m - 1) + 1 \in S
    BY <2>4, <2>5
  <2> QED BY <2>3, <2>6
<1> QED BY <1>1

-----------------------------------------------------------------------------
(***************************************************************************)
(* Folds are runs                                                          *)
(***************************************************************************)

LEMMA GreatestOfRange ==
  ASSUME NEW n \in Nat, NEW s \in SUBSET (1 .. n), n \in s
  PROVE  Max(s) = n
<1>1. \A y \in s : n >= y
  OBVIOUS
<1>2. \A x \in s : (\A y \in s : x >= y) => x = n
  OBVIOUS
<1>3. (CHOOSE x \in s : \A y \in s : x >= y) = n
  BY <1>1, <1>2
<1> QED BY <1>3 DEF Max

\* it[s] is base with the elements of seq at the places of s taken in.
Folds(it, loop, base, seq, n) ==
  \A s \in SUBSET (1 .. n) :
    it[s] = IF s = {} THEN base ELSE StepOf(loop, it[s \ {Max(s)}], seq[Max(s)])

LEMMA FoldGoesOn ==
  ASSUME NEW loop, NEW base, NEW seq, NEW n \in Nat, NEW it, Folds(it, loop, base, seq, n)
  PROVE  \E more : more = [s \in SUBSET (1 .. n + 1) |-> more[s]]
                   /\ Folds(more, loop, base, seq, n + 1)
<1> DEFINE more == [s \in SUBSET (1 .. n + 1) |->
                      IF n + 1 \in s THEN StepOf(loop, it[s \ {n + 1}], seq[n + 1]) ELSE it[s]]
<1>1. ASSUME NEW s \in SUBSET (1 .. n + 1)
      PROVE  more[s] = IF s = {} THEN base ELSE StepOf(loop, more[s \ {Max(s)}], seq[Max(s)])
  <2>1. CASE n + 1 \in s
    <3>1. Max(s) = n + 1
      BY <2>1, GreatestOfRange
    <3>2. s \ {n + 1} \in SUBSET (1 .. n + 1) /\ n + 1 \notin s \ {n + 1}
      OBVIOUS
    <3>3. more[s \ {n + 1}] = it[s \ {n + 1}]
      BY <3>2
    <3>4. more[s] = StepOf(loop, it[s \ {n + 1}], seq[n + 1])
      BY <2>1
    <3> HIDE DEF more
    <3> QED BY <2>1, <3>1, <3>3, <3>4
  <2>2. CASE n + 1 \notin s
    <3>0. \A x \in s : x \in 1 .. n
      BY <2>2
    <3>1. s \in SUBSET (1 .. n) /\ s \ {Max(s)} \in SUBSET (1 .. n + 1) /\ n + 1 \notin s \ {Max(s)}
      BY <2>2, <3>0
    <3>2. more[s] = it[s] /\ more[s \ {Max(s)}] = it[s \ {Max(s)}]
      BY <2>2, <3>1
    <3>3. it[s] = IF s = {} THEN base ELSE StepOf(loop, it[s \ {Max(s)}], seq[Max(s)])
      BY <3>1 DEF Folds
    <3> HIDE DEF more
    <3> QED BY <3>2, <3>3
  <2> QED BY <2>1, <2>2
<1>2. more = [s \in SUBSET (1 .. n + 1) |-> more[s]]
  OBVIOUS
<1> HIDE DEF more
<1> QED BY <1>1, <1>2 DEF Folds

LEMMA FoldExists ==
  ASSUME NEW loop, NEW base, NEW seq, NEW n \in Nat
  PROVE  \E it : it = [s \in SUBSET (1 .. n) |-> it[s]] /\ Folds(it, loop, base, seq, n)
<1> DEFINE Has(k) == \E it : it = [s \in SUBSET (1 .. k) |-> it[s]] /\ Folds(it, loop, base, seq, k)
           S == {k \in Nat : Has(k)}
<1>1. Has(0)
  <2> DEFINE it == [s \in SUBSET (1 .. 0) |-> base]
  <2>1. Folds(it, loop, base, seq, 0)
    BY DEF Folds
  <2> QED BY <2>1
<1>2. ASSUME NEW k \in Nat, Has(k) PROVE Has(k + 1)
  BY <1>2, FoldGoesOn
<1> HIDE DEF Has
<1>3. 0 \in S /\ \A i \in 0 .. (n - 1) : i \in S => i + 1 \in S
  BY <1>1, <1>2
<1>4. n \in S
  <2> HIDE DEF S
  <2> QED BY <1>3, Climb
<1> QED BY <1>4 DEF Has

\* The states at the initial segments are a run.
LEMMA FoldsAreRuns ==
  ASSUME NEW loop, NEW base, NEW seq, Len(seq) \in Nat, NEW it,
         Folds(it, loop, base, seq, Len(seq))
  PROVE  Runs(loop, base, seq, it[1 .. Len(seq)])
<1> DEFINE n == Len(seq)
           r == [i \in 0 .. n |-> it[1 .. i]]
<1>1. r[0] = base
  <2>1. 1 .. 0 = {} /\ {} \in SUBSET (1 .. n) /\ 0 \in 0 .. n
    OBVIOUS
  <2> QED BY <2>1 DEF Folds
<1>2. ASSUME NEW i \in 1 .. n PROVE r[i] = StepOf(loop, r[i - 1], seq[i])
  <2>1. 1 .. i \in SUBSET (1 .. n) /\ 1 .. i # {} /\ i \in 1 .. i /\ i \in Nat
    OBVIOUS
  <2>2. Max(1 .. i) = i
    BY <2>1, GreatestOfRange
  <2>3. (1 .. i) \ {i} = 1 .. (i - 1)
    OBVIOUS
  <2>4. it[1 .. i] = StepOf(loop, it[1 .. (i - 1)], seq[i])
    BY <2>1, <2>2, <2>3 DEF Folds
  <2> QED BY <2>4
<1>3. r[n] = it[1 .. n]
  OBVIOUS
<1> HIDE DEF r
<1> QED BY <1>1, <1>2, <1>3 DEF Runs, IsRun

LEMMA SplitRuns ==
  ASSUME NEW base, NEW seq, Len(seq) \in Nat, DOMAIN seq = 1 .. Len(seq)
  PROVE  Runs("split", base, seq, FoldLeft(SplitByte, base, seq))
<1> DEFINE n == Len(seq)
           iter == CHOOSE it : it = [s \in SUBSET (1 .. n) |->
                     IF s = {} THEN base ELSE SplitByte(it[s \ {Max(s)}], seq[Max(s)])]
<1>1. FoldLeft(SplitByte, base, seq) = iter[1 .. n]
  BY DEF FoldLeft, MapThenFoldSet
<1>2. PICK it : it = [s \in SUBSET (1 .. n) |-> it[s]] /\ Folds(it, "split", base, seq, n)
  BY FoldExists
<1>3. \A s, b : StepOf("split", s, b) = SplitByte(s, b)
  BY DEF StepOf
<1>4. it = [s \in SUBSET (1 .. n) |->
              IF s = {} THEN base ELSE SplitByte(it[s \ {Max(s)}], seq[Max(s)])]
  BY <1>2, <1>3, Zenon DEF Folds
<1>5. iter = [s \in SUBSET (1 .. n) |->
                IF s = {} THEN base ELSE SplitByte(iter[s \ {Max(s)}], seq[Max(s)])]
  BY <1>4
<1>6. Folds(iter, "split", base, seq, n)
  <2> HIDE DEF iter
  <2> QED BY <1>3, <1>5 DEF Folds
<1> HIDE DEF iter
<1> QED BY <1>1, <1>6, FoldsAreRuns

LEMMA CopyRuns ==
  ASSUME NEW base, NEW seq, Len(seq) \in Nat, DOMAIN seq = 1 .. Len(seq)
  PROVE  Runs("copy", base, seq, FoldLeft(CopyByte, base, seq))
<1> DEFINE n == Len(seq)
           iter == CHOOSE it : it = [s \in SUBSET (1 .. n) |->
                     IF s = {} THEN base ELSE CopyByte(it[s \ {Max(s)}], seq[Max(s)])]
<1>1. FoldLeft(CopyByte, base, seq) = iter[1 .. n]
  BY DEF FoldLeft, MapThenFoldSet
<1>2. PICK it : it = [s \in SUBSET (1 .. n) |-> it[s]] /\ Folds(it, "copy", base, seq, n)
  BY FoldExists
<1>3. \A s, b : StepOf("copy", s, b) = CopyByte(s, b)
  BY DEF StepOf
<1>4. it = [s \in SUBSET (1 .. n) |->
              IF s = {} THEN base ELSE CopyByte(it[s \ {Max(s)}], seq[Max(s)])]
  BY <1>2, <1>3, Zenon DEF Folds
<1>5. iter = [s \in SUBSET (1 .. n) |->
                IF s = {} THEN base ELSE CopyByte(iter[s \ {Max(s)}], seq[Max(s)])]
  BY <1>4
<1>6. Folds(iter, "copy", base, seq, n)
  <2> HIDE DEF iter
  <2> QED BY <1>3, <1>5 DEF Folds
<1> HIDE DEF iter
<1> QED BY <1>1, <1>6, FoldsAreRuns

LEMMA ReadRuns ==
  ASSUME NEW base, NEW seq, Len(seq) \in Nat, DOMAIN seq = 1 .. Len(seq)
  PROVE  Runs("read", base, seq, FoldLeft(ReadByte, base, seq))
<1> DEFINE n == Len(seq)
           iter == CHOOSE it : it = [s \in SUBSET (1 .. n) |->
                     IF s = {} THEN base ELSE ReadByte(it[s \ {Max(s)}], seq[Max(s)])]
<1>1. FoldLeft(ReadByte, base, seq) = iter[1 .. n]
  BY DEF FoldLeft, MapThenFoldSet
<1>2. PICK it : it = [s \in SUBSET (1 .. n) |-> it[s]] /\ Folds(it, "read", base, seq, n)
  BY FoldExists
<1>3. \A s, b : StepOf("read", s, b) = ReadByte(s, b)
  BY DEF StepOf
<1>4. it = [s \in SUBSET (1 .. n) |->
              IF s = {} THEN base ELSE ReadByte(it[s \ {Max(s)}], seq[Max(s)])]
  BY <1>2, <1>3, Zenon DEF Folds
<1>5. iter = [s \in SUBSET (1 .. n) |->
                IF s = {} THEN base ELSE ReadByte(iter[s \ {Max(s)}], seq[Max(s)])]
  BY <1>4
<1>6. Folds(iter, "read", base, seq, n)
  <2> HIDE DEF iter
  <2> QED BY <1>3, <1>5 DEF Folds
<1> HIDE DEF iter
<1> QED BY <1>1, <1>6, FoldsAreRuns

LEMMA FlattenRuns ==
  ASSUME NEW seqs, NEW n \in Nat \ {0}, Len(seqs) = n, NEW S, \A i \in 1 .. n : seqs[i] \in Seq(S)
  PROVE  Runs("flatten", <<>>, seqs, FlattenSeq(seqs))
<1> DEFINE flatten == CHOOSE f : f = [i \in 1 .. n |-> IF i = 1 THEN seqs[i] ELSE f[i - 1] \o seqs[i]]
<1>1. PICK it : it = [s \in SUBSET (1 .. n) |-> it[s]] /\ Folds(it, "flatten", <<>>, seqs, n)
  BY FoldExists
<1>2. PICK r : IsRun("flatten", <<>>, seqs, r)
  BY <1>1, FoldsAreRuns DEF Runs
<1>3. \A s, b : StepOf("flatten", s, b) = s \o b
  BY DEF StepOf
<1>4. r[0] = <<>> /\ \A i \in 1 .. n : r[i] = r[i - 1] \o seqs[i]
  <2> HIDE DEF flatten
  <2>1. r[0] = <<>> /\ \A i \in 1 .. n : r[i] = StepOf("flatten", r[i - 1], seqs[i])
    BY <1>2 DEF IsRun
  <2> QED BY <1>3, <2>1, Zenon
<1>10. \E f : f = [i \in 1 .. n |-> IF i = 1 THEN seqs[i] ELSE f[i - 1] \o seqs[i]]
  <2> DEFINE f == [i \in 1 .. n |-> r[i]]
  <2>1. r[1] = seqs[1]
    <3>0. 1 \in 1 .. n /\ 1 - 1 = 0
      OBVIOUS
    <3>1. r[1] = r[1 - 1] \o seqs[1] /\ seqs[1] \in Seq(S)
      BY <1>4, <3>0, Zenon
    <3>2. <<>> \o seqs[1] = seqs[1]
      BY <3>1, ConcatEmptySeq
    <3> QED BY <1>4, <3>0, <3>1, <3>2
  <2>2. \A i \in 1 .. n : i # 1 => i - 1 \in 1 .. n
    OBVIOUS
  <2>3. f = [i \in 1 .. n |-> IF i = 1 THEN seqs[i] ELSE f[i - 1] \o seqs[i]]
    BY <1>4, <2>1, <2>2
  <2> HIDE DEF f
  <2> QED BY <2>3
<1>5. flatten = [i \in 1 .. n |-> IF i = 1 THEN seqs[i] ELSE flatten[i - 1] \o seqs[i]]
  BY <1>10
<1>6. FlattenSeq(seqs) = flatten[n]
  BY DEF FlattenSeq
<1> HIDE DEF flatten
<1> DEFINE g == [i \in 0 .. n |-> IF i = 0 THEN <<>> ELSE flatten[i]]
<1>7. g[0] = <<>> /\ g[n] = flatten[n]
  OBVIOUS
<1>8. ASSUME NEW i \in 1 .. n PROVE g[i] = g[i - 1] \o seqs[i]
  <2>1. CASE i = 1
    <3>1. g[1] = seqs[1] /\ g[1 - 1] = <<>>
      BY <1>5
    <3>2. <<>> \o seqs[1] = seqs[1]
      BY ConcatEmptySeq
    <3> QED BY <2>1, <3>1, <3>2
  <2>2. CASE i # 1
    <3>1. g[i] = flatten[i] /\ g[i - 1] = flatten[i - 1]
      BY <2>2
    <3>2. flatten[i] = flatten[i - 1] \o seqs[i]
      BY <1>5, <2>2
    <3> QED BY <3>1, <3>2
  <2> QED BY <2>1, <2>2
<1> HIDE DEF g
<1>11. ASSUME NEW i \in 1 .. n PROVE g[i] = StepOf("flatten", g[i - 1], seqs[i])
  <2>1. StepOf("flatten", g[i - 1], seqs[i]) = g[i - 1] \o seqs[i]
    BY <1>3
  <2> QED BY <1>8, <2>1
<1>9. IsRun("flatten", <<>>, seqs, g)
  BY <1>7, <1>11 DEF IsRun
<1> QED BY <1>6, <1>7, <1>9 DEF Runs

-----------------------------------------------------------------------------
(***************************************************************************)
(* Runs                                                                    *)
(***************************************************************************)

LEMMA RunsUnique ==
  ASSUME NEW loop, NEW s, NEW seq, Len(seq) \in Nat, NEW t, NEW u,
         Runs(loop, s, seq, t), Runs(loop, s, seq, u)
  PROVE  t = u
<1>1. PICK r : IsRun(loop, s, seq, r) /\ r[Len(seq)] = t
  BY DEF Runs
<1>2. PICK q : IsRun(loop, s, seq, q) /\ q[Len(seq)] = u
  BY DEF Runs
<1> DEFINE S == {i \in 0 .. Len(seq) : r[i] = q[i]}
<1>3. 0 \in S
  BY <1>1, <1>2 DEF IsRun
<1>4. ASSUME NEW i \in 0 .. (Len(seq) - 1), i \in S PROVE i + 1 \in S
  <2>1. i + 1 \in 1 .. Len(seq) /\ (i + 1) - 1 = i /\ i + 1 \in 0 .. Len(seq) /\ r[i] = q[i]
    BY <1>4
  <2>2. /\ r[i + 1] = StepOf(loop, r[(i + 1) - 1], seq[i + 1])
        /\ q[i + 1] = StepOf(loop, q[(i + 1) - 1], seq[i + 1])
    BY <1>1, <1>2, <2>1 DEF IsRun
  <2> QED BY <2>1, <2>2
<1> HIDE DEF S
<1>5. \A i \in 0 .. Len(seq) : i \in S
  BY <1>3, <1>4, Climb
<1> QED BY <1>1, <1>2, <1>5 DEF S

LEMMA RunsEmpty == \A loop, s : Runs(loop, s, <<>>, s)
<1> SUFFICES ASSUME NEW loop, NEW s PROVE Runs(loop, s, <<>>, s)
  OBVIOUS
<1> DEFINE r == [i \in {0} |-> s]
<1>1. r[0] = s /\ Len(<<>>) = 0 /\ 1 .. 0 = {}
  OBVIOUS
<1> HIDE DEF r
<1> QED BY <1>1 DEF Runs, IsRun

LEMMA RunsOne == \A loop, s, b : Runs(loop, s, <<b>>, StepOf(loop, s, b))
<1> SUFFICES ASSUME NEW loop, NEW s, NEW b PROVE Runs(loop, s, <<b>>, StepOf(loop, s, b))
  OBVIOUS
<1> DEFINE r == [i \in 0 .. 1 |-> IF i = 0 THEN s ELSE StepOf(loop, s, b)]
<1>1. r[0] = s /\ r[1] = StepOf(loop, s, b) /\ Len(<<b>>) = 1 /\ <<b>>[1] = b
  OBVIOUS
<1>2. \A i \in 1 .. 1 : i = 1 /\ i - 1 = 0
  OBVIOUS
<1> HIDE DEF r
<1> QED BY <1>1, <1>2 DEF Runs, IsRun

LEMMA RunsConcat ==
  ASSUME NEW loop, NEW S, NEW x \in Seq(S), NEW y \in Seq(S), NEW s, NEW t, NEW u,
         Runs(loop, s, x, t), Runs(loop, t, y, u)
  PROVE  Runs(loop, s, x \o y, u)
<1>1. PICK r : IsRun(loop, s, x, r) /\ r[Len(x)] = t
  BY DEF Runs
<1>2. PICK q : IsRun(loop, t, y, q) /\ q[Len(y)] = u
  BY DEF Runs
<1> DEFINE n == Len(x)
           m == Len(y)
           z == x \o y
           p == [i \in 0 .. (n + m) |-> IF i <= n THEN r[i] ELSE q[i - n]]
<1>3. n \in Nat /\ m \in Nat /\ Len(z) = n + m
  BY LenProperties, ConcatProperties
<1>4. \A i \in 1 .. (n + m) : z[i] = IF i <= n THEN x[i] ELSE y[i - n]
  BY ConcatProperties
<1> HIDE DEF n, m, z
<1>5. p[0] = s
  BY <1>1, <1>3 DEF IsRun
<1>6. p[n + m] = u
  <2>1. CASE m = 0
    <3>1. p[n + m] = r[n] /\ r[n] = t /\ q[0] = t /\ q[0] = u
      BY <1>1, <1>2, <1>3, <2>1 DEF IsRun, n, m
    <3> QED BY <3>1
  <2>2. CASE m # 0
    <3>1. p[n + m] = q[m]
      BY <1>3, <2>2
    <3> QED BY <1>2, <3>1 DEF m
  <2> QED BY <2>1, <2>2
<1>7. ASSUME NEW i \in 1 .. (n + m) PROVE p[i] = StepOf(loop, p[i - 1], z[i])
  <2>0. i \in 0 .. (n + m) /\ i - 1 \in 0 .. (n + m)
    BY <1>3
  <2>1. CASE i <= n
    <3>1. i \in 1 .. n /\ p[i] = r[i] /\ p[i - 1] = r[i - 1] /\ z[i] = x[i]
      BY <1>3, <1>4, <2>0, <2>1
    <3>2. r[i] = StepOf(loop, r[i - 1], x[i])
      BY <1>1, <3>1 DEF IsRun, n
    <3> QED BY <3>1, <3>2
  <2>2. CASE i > n
    <3>1. i - n \in 1 .. m /\ p[i] = q[i - n] /\ z[i] = y[i - n]
      BY <1>3, <1>4, <2>0, <2>2
    <3>2. q[i - n] = StepOf(loop, q[(i - n) - 1], y[i - n])
      BY <1>2, <3>1 DEF IsRun, m
    <3>3. p[i - 1] = q[(i - n) - 1]
      <4>1. CASE i - 1 = n
        <5>1. p[i - 1] = r[n] /\ r[n] = t /\ q[0] = t /\ (i - n) - 1 = 0
          BY <1>1, <1>2, <1>3, <2>0, <4>1 DEF IsRun, n
        <5> QED BY <5>1
      <4>2. CASE i - 1 # n
        <5>1. ~(i - 1 <= n) /\ (i - 1) - n = (i - n) - 1
          BY <1>3, <2>2, <4>2
        <5> QED BY <2>0, <5>1
      <4> QED BY <4>1, <4>2
    <3> QED BY <3>1, <3>2, <3>3
  <2> QED BY <1>3, <2>1, <2>2
<1> HIDE DEF p
<1>8. IsRun(loop, s, z, p) /\ p[Len(z)] = u
  BY <1>3, <1>5, <1>6, <1>7 DEF IsRun
<1> QED BY <1>8 DEF Runs, z

LEMMA RunsAppend ==
  ASSUME NEW loop, NEW S, NEW x \in Seq(S), NEW b \in S, NEW s, NEW t,
         Runs(loop, s, x, t)
  PROVE  Runs(loop, s, Append(x, b), StepOf(loop, t, b))
<1>1. <<b>> \in Seq(S) /\ Append(x, b) = x \o <<b>>
  OBVIOUS
<1>2. Runs(loop, t, <<b>>, StepOf(loop, t, b))
  BY RunsOne
<1> QED BY <1>1, <1>2, RunsConcat

-----------------------------------------------------------------------------
(***************************************************************************)
(* termctl's reader                                                        *)
(***************************************************************************)

ReadState == [line : Seq(Byte), inFrame : BOOLEAN, out : Seq(Byte), flag : {-1, 0, 1}]

ReadStart == [line |-> <<>>, inFrame |-> FALSE, out |-> <<>>, flag |-> -1]

\* A state of the reader by its fields, and what is before or in a frame.
Rd(l, f, o, g) == [line |-> l, inFrame |-> f, out |-> o, flag |-> g]
Framed(l, o, g) == [line |-> l, inFrame |-> TRUE, out |-> o, flag |-> g]
Unframed(l, o, g) == [line |-> l, inFrame |-> FALSE, out |-> o, flag |-> g]

LEMMA ReadFields ==
  \A s \in ReadState :
    /\ s = Rd(s.line, s.inFrame, s.out, s.flag)
    /\ s = Framed(s.line, s.out, s.flag) \/ s = Unframed(s.line, s.out, s.flag)
BY DEF ReadState, Rd, Framed, Unframed

Plain(line) == ~Starts(line, "begin") /\ ~Starts(line, "end0") /\ ~Starts(line, "end1")

LEMMA MarkerEnds ==
  ASSUME NEW l, NEW f, NEW o, NEW g
  PROVE  /\ Starts(l, "begin") => EndOfLine(Rd(l, f, o, g)) = Framed(<<>>, o, g)
         /\ Starts(l, "end0") => EndOfLine(Rd(l, f, o, g)) = Rd(<<>>, f, o, 0)
         /\ Starts(l, "end1") => EndOfLine(Rd(l, f, o, g)) = Rd(<<>>, f, o, 1)
<1>1. CASE Starts(l, "begin")
  <2>1. ~Starts(l, "end0") /\ ~Starts(l, "end1")
    BY <1>1 DEF Starts
  <2> QED BY <1>1, <2>1 DEF EndOfLine, Rd, Framed
<1>2. CASE Starts(l, "end0")
  <2>1. ~Starts(l, "begin") /\ ~Starts(l, "end1")
    BY <1>2 DEF Starts
  <2> QED BY <1>2, <2>1 DEF EndOfLine, Rd
<1>3. CASE Starts(l, "end1")
  <2>1. ~Starts(l, "begin") /\ ~Starts(l, "end0")
    BY <1>3 DEF Starts
  <2> QED BY <1>3, <2>1 DEF EndOfLine, Rd
<1> QED BY <1>1, <1>2, <1>3

LEMMA PlainEnds ==
  ASSUME NEW l, NEW o, NEW g, Plain(l)
  PROVE  /\ EndOfLine(Framed(l, o, g)) = Framed(<<>>, o \o Append(UnescapeLine(l), "\n"), g)
         /\ EndOfLine(Unframed(l, o, g)) = Unframed(<<>>, o, g)
BY DEF EndOfLine, Plain, Framed, Unframed

LEMMA ByteRead ==
  ASSUME NEW l, NEW f, NEW o, NEW g, NEW b
  PROVE  /\ g >= 0 => ReadByte(Rd(l, f, o, g), b) = Rd(l, f, o, g)
         /\ ~(g >= 0) /\ b = "\n" => ReadByte(Rd(l, f, o, g), b) = EndOfLine(Rd(l, f, o, g))
         /\ ~(g >= 0) /\ b # "\n" => ReadByte(Rd(l, f, o, g), b) = Rd(Append(l, b), f, o, g)
BY DEF ReadByte, Rd

Extends(a, b) == \E rest \in Seq(Byte) : b = a \o rest

LEMMA ExtendsItself == \A a \in Seq(Byte) : Extends(a, a)
<1> SUFFICES ASSUME NEW a \in Seq(Byte) PROVE Extends(a, a)
  OBVIOUS
<1>1. <<>> \in Seq(Byte) /\ a \o <<>> = a
  BY ConcatEmptySeq
<1> QED BY <1>1 DEF Extends

LEMMA ExtendsOnward ==
  ASSUME NEW a \in Seq(Byte), NEW b, NEW c, Extends(a, b), Extends(b, c)
  PROVE  Extends(a, c)
<1>1. PICK x \in Seq(Byte) : b = a \o x
  BY DEF Extends
<1>2. PICK y \in Seq(Byte) : c = b \o y
  BY DEF Extends
<1>3. c = a \o (x \o y)
  BY <1>1, <1>2, ConcatAssociative
<1>4. x \o y \in Seq(Byte)
  BY ConcatProperties
<1> QED BY <1>3, <1>4 DEF Extends

LEMMA ExtendsIsPrefix ==
  ASSUME NEW a \in Seq(Byte), NEW b, Extends(a, b)
  PROVE  IsPrefix(a, b)
<1>1. PICK x \in Seq(Byte) : b = a \o x
  BY DEF Extends
<1>2. /\ Len(a) \in Nat /\ Len(x) \in Nat
      /\ Len(a \o x) = Len(a) + Len(x)
      /\ \A i \in 1 .. Len(a) + Len(x) : (a \o x)[i] = IF i <= Len(a) THEN a[i] ELSE x[i - Len(a)]
      /\ a \o x \in Seq(Byte)
  BY LenProperties, ConcatProperties
<1>3. SubSeq(a, 1, Len(a)) = a
  BY SubSeqFull
<1>4. SubSeq(a \o x, 1, Len(a)) = a
  <2> DEFINE z == a \o x
  <2>1. \A i \in 1 .. Len(a) : z[i] = a[i] /\ a[i] \in Byte
    BY <1>2, ElementOfSeq
  <2> HIDE DEF z
  <2>2. SubSeq(z, 1, Len(a)) \in Seq(Byte) /\ Len(SubSeq(z, 1, Len(a))) = Len(a)
    BY <1>2, <2>1, SubSeqProperties
  <2>3. \A i \in 1 .. Len(a) : SubSeq(z, 1, Len(a))[i] = a[i]
    BY <1>2, <2>1
  <2>4. SubSeq(z, 1, Len(a)) = a
    BY <2>2, <2>3, SeqEqual
  <2> QED BY <2>4 DEF z
<1> QED BY <1>1, <1>2, <1>3, <1>4 DEF IsPrefix

LEMMA UnescapeType == \A line \in Seq(Byte) : UnescapeLine(line) \in Seq(Byte)
BY DEF UnescapeLine

LEMMA EndOfLineKeeps ==
  ASSUME NEW s \in ReadState
  PROVE  /\ EndOfLine(s) \in ReadState /\ EndOfLine(s).line = <<>>
         /\ Extends(s.out, EndOfLine(s).out)
<1> DEFINE l == s.line
           f == s.inFrame
           o == s.out
           g == s.flag
           more == o \o Append(UnescapeLine(l), "\n")
<1>0. l \in Seq(Byte) /\ f \in BOOLEAN /\ o \in Seq(Byte) /\ g \in {-1, 0, 1} /\ "\n" \in Byte
  BY DEF ReadState, Byte
<1>1. s = Rd(l, f, o, g) /\ (s = Framed(l, o, g) \/ s = Unframed(l, o, g))
  BY ReadFields
<1>2. UnescapeLine(l) \in Seq(Byte)
  BY <1>0, UnescapeType
<1> HIDE DEF l, f, o, g
<1>3. Append(UnescapeLine(l), "\n") \in Seq(Byte)
  BY <1>0, <1>2
<1>4. more \in Seq(Byte) /\ Extends(o, more)
  BY <1>0, <1>3, ConcatProperties DEF Extends
<1>5. Extends(o, o)
  BY <1>0, ExtendsItself
<1> HIDE DEF more
<1>6. \E e \in BOOLEAN, text \in {o, more}, flag \in {-1, 0, 1} : EndOfLine(s) = Rd(<<>>, e, text, flag)
  <2>1. CASE Starts(l, "begin")
    <3>1. EndOfLine(s) = Framed(<<>>, o, g)
      BY <1>1, <2>1, MarkerEnds
    <3> QED BY <1>0, <3>1 DEF Framed, Rd
  <2>2. CASE Starts(l, "end0")
    <3>1. EndOfLine(s) = Rd(<<>>, f, o, 0)
      BY <1>1, <2>2, MarkerEnds
    <3> QED BY <1>0, <3>1
  <2>3. CASE Starts(l, "end1")
    <3>1. EndOfLine(s) = Rd(<<>>, f, o, 1)
      BY <1>1, <2>3, MarkerEnds
    <3> QED BY <1>0, <3>1
  <2>4. CASE Plain(l)
    <3>1. EndOfLine(s) = Framed(<<>>, more, g) \/ EndOfLine(s) = Unframed(<<>>, o, g)
      BY <1>1, <2>4, PlainEnds DEF more
    <3> QED BY <1>0, <3>1 DEF Framed, Unframed, Rd
  <2> QED BY <2>1, <2>2, <2>3, <2>4 DEF Plain
<1>7. PICK e \in BOOLEAN, text \in {o, more}, flag \in {-1, 0, 1} : EndOfLine(s) = Rd(<<>>, e, text, flag)
  BY <1>6
<1>8. text \in Seq(Byte) /\ Extends(o, text)
  BY <1>0, <1>4, <1>5
<1>9. Rd(<<>>, e, text, flag) \in ReadState
  BY <1>8 DEF Rd, ReadState
<1>10. Rd(<<>>, e, text, flag).line = <<>> /\ Rd(<<>>, e, text, flag).out = text
  BY DEF Rd
<1> QED BY <1>7, <1>8, <1>9, <1>10 DEF o

LEMMA ReadByteKeeps ==
  ASSUME NEW s \in ReadState, NEW b \in Byte
  PROVE  /\ ReadByte(s, b) \in ReadState
         /\ Len(ReadByte(s, b).line) <= Len(s.line) + 1
         /\ Extends(s.out, ReadByte(s, b).out)
         /\ s.flag >= 0 => ReadByte(s, b) = s
<1>0. /\ s.line \in Seq(Byte) /\ s.inFrame \in BOOLEAN /\ s.out \in Seq(Byte)
      /\ s.flag \in {-1, 0, 1} /\ Len(s.line) \in Nat
  BY DEF ReadState
<1>1. Extends(s.out, s.out)
  BY <1>0, ExtendsItself
<1>2. s = Rd(s.line, s.inFrame, s.out, s.flag)
  BY ReadFields
<1>3. CASE s.flag >= 0
  <2>1. ReadByte(s, b) = s
    BY <1>2, <1>3, ByteRead
  <2> QED BY <1>0, <1>1, <2>1
<1>4. CASE ~(s.flag >= 0) /\ b = "\n"
  <2>1. ReadByte(s, b) = EndOfLine(s)
    BY <1>2, <1>4, ByteRead
  <2>2. Len(<<>>) = 0
    OBVIOUS
  <2> QED BY <1>0, <1>4, <2>1, <2>2, EndOfLineKeeps
<1>5. CASE ~(s.flag >= 0) /\ b # "\n"
  <2>1. ReadByte(s, b) = Rd(Append(s.line, b), s.inFrame, s.out, s.flag)
    BY <1>2, <1>5, ByteRead
  <2>2. Append(s.line, b) \in Seq(Byte) /\ Len(Append(s.line, b)) = Len(s.line) + 1
    BY <1>0
  <2> DEFINE v == Rd(Append(s.line, b), s.inFrame, s.out, s.flag)
  <2>3. v \in ReadState /\ v.line = Append(s.line, b) /\ v.out = s.out
    BY <1>0, <2>2 DEF Rd, ReadState
  <2> HIDE DEF v
  <2>4. ReadByte(s, b) = v
    BY <2>1 DEF v
  <2> QED BY <1>0, <1>1, <1>5, <2>2, <2>3, <2>4
<1> QED BY <1>3, <1>4, <1>5

\* Whatever is read, output only grows, and nothing is read after an end line.
LEMMA ReadKeeps ==
  ASSUME NEW s \in ReadState, NEW seq \in Seq(Byte), NEW t, Runs("read", s, seq, t)
  PROVE  /\ t \in ReadState
         /\ Len(t.line) <= Len(s.line) + Len(seq)
         /\ Extends(s.out, t.out)
         /\ s.flag >= 0 => t = s
<1>0. Len(seq) \in Nat /\ s.line \in Seq(Byte) /\ s.out \in Seq(Byte) /\ Len(s.line) \in Nat
  BY DEF ReadState
<1>1. PICK r : IsRun("read", s, seq, r) /\ r[Len(seq)] = t
  BY DEF Runs
<1>2. r[0] = s /\ \A i \in 1 .. Len(seq) : r[i] = ReadByte(r[i - 1], seq[i])
  BY <1>1 DEF IsRun, StepOf
<1> DEFINE Good(i) == /\ r[i] \in ReadState /\ Len(r[i].line) <= Len(s.line) + i
                      /\ Extends(s.out, r[i].out) /\ (s.flag >= 0 => r[i] = s)
           S == {i \in 0 .. Len(seq) : Good(i)}
<1>3. 0 \in S
  BY <1>0, <1>2, ExtendsItself
<1>4. ASSUME NEW i \in 0 .. (Len(seq) - 1), i \in S PROVE i + 1 \in S
  <2> DEFINE b == seq[i + 1]
             u == r[i]
             v == r[i + 1]
  <2>1. i + 1 \in 1 .. Len(seq) /\ (i + 1) - 1 = i /\ i + 1 \in 0 .. Len(seq)
    BY <1>0
  <2>2. v = ReadByte(u, b) /\ b \in Byte
    BY <1>2, <2>1, ElementOfSeq
  <2>3. /\ u \in ReadState /\ Len(u.line) <= Len(s.line) + i
        /\ Extends(s.out, u.out) /\ (s.flag >= 0 => u = s)
    BY <1>4
  <2> HIDE DEF u, v, b
  <2>4. /\ v \in ReadState /\ Len(v.line) <= Len(u.line) + 1 /\ Extends(u.out, v.out)
        /\ u.flag >= 0 => v = u
    BY <2>2, <2>3, ReadByteKeeps
  <2>5. u.line \in Seq(Byte) /\ v.line \in Seq(Byte)
    BY <2>3, <2>4 DEF ReadState
  <2>6. Len(u.line) \in Nat /\ Len(v.line) \in Nat
    BY <2>5
  <2>7. Len(v.line) <= Len(s.line) + (i + 1)
    <3>1. \A a, c, d, j \in Nat : a <= c + 1 /\ c <= d + j => a <= d + (j + 1)
      OBVIOUS
    <3>2. i \in Nat
      OBVIOUS
    <3> QED BY <1>0, <2>3, <2>4, <2>6, <3>1, <3>2
  <2>8. Extends(s.out, v.out)
    BY <1>0, <2>3, <2>4, ExtendsOnward
  <2> QED BY <2>1, <2>3, <2>4, <2>7, <2>8 DEF v
<1> HIDE DEF S
<1>5. \A i \in 0 .. Len(seq) : i \in S
  BY <1>0, <1>3, <1>4, Climb
<1>6. Len(seq) \in S
  BY <1>0, <1>5
<1>7. Good(Len(seq))
  BY <1>6 DEF S
<1> QED BY <1>1, <1>7

-----------------------------------------------------------------------------
(***************************************************************************)
(* Flattening                                                              *)
(***************************************************************************)

Parts(seqs, n) == Len(seqs) = n /\ seqs = [i \in 1 .. n |-> seqs[i]]

Grows(r, seqs, n, S) ==
  /\ r[0] = <<>>
  /\ \A i \in 0 .. n : r[i] \in Seq(S)
  /\ \A i \in 1 .. n : r[i] = r[i - 1] \o seqs[i]

LEMMA Flattened ==
  ASSUME NEW n \in Nat, NEW seqs, Parts(seqs, n),
         NEW S, \A i \in 1 .. n : seqs[i] \in Seq(S)
  PROVE  \E r : Grows(r, seqs, n, S) /\ r[n] = FlattenSeq(seqs)
<1>1. CASE n = 0
  <2>1. seqs = <<>> /\ Len(seqs) = 0
    BY <1>1 DEF Parts
  <2>2. FlattenSeq(seqs) = <<>>
    BY <2>1 DEF FlattenSeq
  <2> DEFINE r == [i \in {0} |-> <<>>]
  <2>3. r[0] = <<>> /\ <<>> \in Seq(S)
    OBVIOUS
  <2>4. \A i \in 0 .. n : i = 0
    BY <1>1
  <2>5. 1 .. n = {}
    BY <1>1
  <2> HIDE DEF r
  <2>6. Grows(r, seqs, n, S) /\ r[n] = <<>>
    BY <1>1, <2>3, <2>4, <2>5 DEF Grows
  <2> QED BY <2>2, <2>6
<1>2. CASE n # 0
  <2>0. n \in Nat \ {0}
    BY <1>2
  <2>1. PICK r : IsRun("flatten", <<>>, seqs, r) /\ r[n] = FlattenSeq(seqs)
    <3>1. Len(seqs) = n
      BY DEF Parts
    <3> QED BY <2>0, <3>1, FlattenRuns DEF Runs
  <2>2. r[0] = <<>> /\ \A i \in 1 .. n : r[i] = StepOf("flatten", r[i - 1], seqs[i])
    BY <2>1 DEF IsRun, Parts
  <2>3. \A s, b : StepOf("flatten", s, b) = s \o b
    BY DEF StepOf
  <2>4. \A i \in 1 .. n : r[i] = r[i - 1] \o seqs[i]
    BY <2>2, <2>3, Zenon
  <2> DEFINE P == {i \in 0 .. n : r[i] \in Seq(S)}
  <2>5. 0 \in P
    <3>1. <<>> \in Seq(S) /\ 0 \in 0 .. n
      OBVIOUS
    <3>2. r[0] \in Seq(S)
      BY <2>2, <3>1, Zenon
    <3> QED BY <3>1, <3>2
  <2>6. ASSUME NEW i \in 0 .. (n - 1), i \in P PROVE i + 1 \in P
    <3> DEFINE x == r[i]
               y == seqs[i + 1]
               z == r[i + 1]
    <3>1. i + 1 \in 1 .. n /\ (i + 1) - 1 = i /\ i + 1 \in 0 .. n
      OBVIOUS
    <3>2. z = x \o y /\ x \in Seq(S) /\ y \in Seq(S)
      BY <2>4, <2>6, <3>1
    <3> HIDE DEF x, y, z
    <3>3. z \in Seq(S)
      BY <3>2, ConcatProperties
    <3> QED BY <3>1, <3>3 DEF z
  <2> HIDE DEF P
  <2>7. \A i \in 0 .. n : i \in P
    BY <2>5, <2>6, Climb
  <2>8. \A i \in 0 .. n : r[i] \in Seq(S)
    BY <2>7 DEF P
  <2>9. Grows(r, seqs, n, S)
    BY <2>2, <2>4, <2>8 DEF Grows
  <2> QED BY <2>1, <2>9
<1> QED BY <1>1, <1>2

LEMMA FlattenedSeq ==
  ASSUME NEW n \in Nat, NEW seqs, Parts(seqs, n),
         NEW S, \A i \in 1 .. n : seqs[i] \in Seq(S)
  PROVE  /\ FlattenSeq(seqs) \in Seq(S)
         /\ n > 0 => \E front \in Seq(S) : FlattenSeq(seqs) = front \o seqs[n]
<1>1. PICK r : Grows(r, seqs, n, S) /\ r[n] = FlattenSeq(seqs)
  BY Flattened
<1>2. n \in 0 .. n /\ r[n] \in Seq(S)
  BY <1>1 DEF Grows
<1>3. ASSUME n > 0 PROVE n \in 1 .. n /\ n - 1 \in 0 .. n
  BY <1>3
<1> QED BY <1>1, <1>2, <1>3 DEF Grows

\* A loop over a flattened sequence goes over its parts one by one.
LEMMA FlattenedRuns ==
  ASSUME NEW loop, NEW n \in Nat, NEW seqs, Parts(seqs, n),
         NEW S, \A i \in 1 .. n : seqs[i] \in Seq(S),
         NEW st, \A i \in 1 .. n : Runs(loop, st[i - 1], seqs[i], st[i])
  PROVE  Runs(loop, st[0], FlattenSeq(seqs), st[n])
<1>1. PICK r : Grows(r, seqs, n, S) /\ r[n] = FlattenSeq(seqs)
  BY Flattened
<1> DEFINE P == {i \in 0 .. n : Runs(loop, st[0], r[i], st[i])}
<1>2. 0 \in P
  <2>1. Runs(loop, st[0], <<>>, st[0])
    BY RunsEmpty
  <2>2. Runs(loop, st[0], r[0], st[0])
    BY <1>1, <2>1, Zenon DEF Grows
  <2> QED BY <2>2
<1>3. ASSUME NEW i \in 0 .. (n - 1), i \in P PROVE i + 1 \in P
  <2> DEFINE x == r[i]
             y == seqs[i + 1]
             z == r[i + 1]
  <2>1. i + 1 \in 1 .. n /\ (i + 1) - 1 = i /\ i + 1 \in 0 .. n /\ i \in 0 .. n
    OBVIOUS
  <2>2. z = x \o y /\ x \in Seq(S) /\ y \in Seq(S) /\ Runs(loop, st[i], y, st[i + 1])
    BY <1>1, <2>1 DEF Grows
  <2>3. Runs(loop, st[0], x, st[i])
    BY <1>3
  <2> HIDE DEF x, y, z
  <2>4. Runs(loop, st[0], z, st[i + 1])
    BY <2>2, <2>3, RunsConcat
  <2> QED BY <2>1, <2>4 DEF z
<1> HIDE DEF P
<1>4. \A i \in 0 .. n : i \in P
  BY <1>2, <1>3, Climb
<1>5. n \in P
  BY <1>4
<1> QED BY <1>1, <1>5 DEF P

-----------------------------------------------------------------------------
(***************************************************************************)
(* Joining and splitting                                                   *)
(***************************************************************************)

\* Where proto_argv_split may be: between two tokens, in the last one, behind
\* a backslash.
Between(a) == [argv |-> a, open |-> FALSE, escaped |-> FALSE]
Within(a)  == [argv |-> a, open |-> TRUE, escaped |-> FALSE]
Escaped(a) == [argv |-> a, open |-> TRUE, escaped |-> TRUE]

\* The bytes of a line, which ends with the only newline.
InLine == Byte \ {"\n"}

Longer(a, b) == [a EXCEPT ![Len(a)] = Append(@, b)]

LEMMA LongerLast ==
  ASSUME NEW a \in Seq(Seq(Byte)), NEW w \in Seq(Byte), NEW b \in Byte
  PROVE  Longer(Append(a, w), b) = Append(a, Append(w, b))
<1> DEFINE x == Append(a, w)
           y == Append(a, Append(w, b))
           n == Len(a) + 1
<1>1. /\ x \in Seq(Seq(Byte)) /\ y \in Seq(Seq(Byte)) /\ Len(x) = n /\ Len(y) = n /\ n \in 1 .. n
      /\ x[n] = w /\ y[n] = Append(w, b) /\ \A i \in 1 .. n : i # n => x[i] = y[i]
  OBVIOUS
<1>2. Append(w, b) \in Seq(Byte)
  OBVIOUS
<1> HIDE DEF x, y
<1>3. Longer(x, b) = [x EXCEPT ![n] = Append(w, b)]
  BY <1>1 DEF Longer
<1> DEFINE z == [x EXCEPT ![n] = Append(w, b)]
<1>4. /\ z \in Seq(Seq(Byte)) /\ Len(z) = n
      /\ \A i \in 1 .. n : z[i] = IF i = n THEN Append(w, b) ELSE x[i]
  BY <1>1, <1>2, ExceptSeq
<1> HIDE DEF z
<1>5. \A i \in 1 .. n : z[i] = y[i]
  BY <1>1, <1>4
<1>6. z = y
  BY <1>1, <1>4, <1>5, SeqEqual
<1> QED BY <1>3, <1>6 DEF x, y, z

LEMMA SplitSteps ==
  ASSUME NEW a, NEW b
  PROVE  /\ SplitByte(Within(a), " ") = Between(a)
         /\ SplitByte(Between(a), "\\") = Escaped(Append(a, <<>>))
         /\ SplitByte(Within(a), "\\") = Escaped(a)
         /\ SplitByte(Escaped(a), b) = Within(Longer(a, Unescape(b)))
         /\ b \notin {" ", "\\"} => /\ SplitByte(Within(a), b) = Within(Longer(a, b))
                                    /\ SplitByte(Between(a), b) = Within(Longer(Append(a, <<>>), b))
BY DEF SplitByte, StartToken, Put, Within, Between, Escaped, Longer

LEMMA EscapeType ==
  ASSUME NEW b \in Byte
  PROVE  /\ Escape(b) \in Seq(InLine) /\ Escape(b) # <<>>
         /\ Escape(b)[Len(Escape(b))] = "\r" => b = "\r"
<1>1. "\\" \in InLine /\ "n" \in InLine /\ (b # "\n" => b \in InLine)
  BY DEF InLine, Byte
<1>2. CASE b \in {"\\", " "}
  <2>1. Escape(b) = <<"\\", b>> /\ b # "\n"
    BY <1>2 DEF Escape
  <2> QED BY <1>1, <2>1
<1>3. CASE b = "\n"
  <2>1. Escape(b) = <<"\\", "n">>
    BY <1>3 DEF Escape
  <2> QED BY <1>1, <2>1
<1>4. CASE b \notin {"\\", " ", "\n"}
  <2>1. Escape(b) = <<b>> /\ b # "\n"
    BY <1>4 DEF Escape
  <2> QED BY <1>1, <2>1
<1> QED BY <1>2, <1>3, <1>4

\* The splitter takes one byte.
LEMMA SplitsOne ==
  ASSUME NEW s, NEW c, NEW t, t = SplitByte(s, c)
  PROVE  Runs("split", s, <<c>>, t)
<1>1. StepOf("split", s, c) = t
  BY DEF StepOf
<1> QED BY <1>1, RunsOne

\* An escaped byte comes out as it went in, at the start of a token or in it.
LEMMA EscapedSplits ==
  ASSUME NEW a \in Seq(Seq(Byte)), NEW w \in Seq(Byte), NEW b \in Byte, NEW empty, empty = <<>>
  PROVE  /\ Runs("split", Between(a), Escape(b), Within(Append(a, Append(empty, b))))
         /\ Runs("split", Within(Append(a, w)), Escape(b), Within(Append(a, Append(w, b))))
<1>0. empty \in Seq(Byte)
  OBVIOUS
<1> DEFINE s == Append(a, empty)
           t == Append(a, w)
<1>2. /\ Longer(s, b) = Append(a, Append(empty, b))
      /\ Longer(t, b) = Append(a, Append(w, b))
  BY <1>0, LongerLast
<1>7. SplitByte(Between(a), "\\") = Escaped(s)
  BY SplitSteps
<1>8. b \notin {" ", "\\"} => SplitByte(Between(a), b) = Within(Longer(s, b))
  BY SplitSteps
<1> HIDE DEF s, t
<1>3. ASSUME NEW c, Escape(b) = <<"\\", c>>, Unescape(c) = b
      PROVE  /\ Runs("split", Between(a), Escape(b), Within(Longer(s, b)))
             /\ Runs("split", Within(t), Escape(b), Within(Longer(t, b)))
  <2> DEFINE S == {"\\", c}
             x == <<"\\">>
             y == <<c>>
  <2>1. x \in Seq(S) /\ y \in Seq(S) /\ Escape(b) = x \o y
    BY <1>3
  <2>2. Runs("split", Between(a), x, Escaped(s))
    BY <1>7, SplitsOne
  <2>3. Runs("split", Within(t), x, Escaped(t))
    <3>1. SplitByte(Within(t), "\\") = Escaped(t)
      BY SplitSteps
    <3> QED BY <3>1, SplitsOne
  <2>4. ASSUME NEW d PROVE Runs("split", Escaped(d), y, Within(Longer(d, b)))
    <3>1. SplitByte(Escaped(d), c) = Within(Longer(d, b))
      BY <1>3, SplitSteps
    <3> QED BY <3>1, SplitsOne
  <2> HIDE DEF x, y, S
  <2>5. /\ Runs("split", Between(a), x \o y, Within(Longer(s, b)))
        /\ Runs("split", Within(t), x \o y, Within(Longer(t, b)))
    BY <2>1, <2>2, <2>3, <2>4, RunsConcat
  <2> QED BY <2>1, <2>5
<1> SUFFICES /\ Runs("split", Between(a), Escape(b), Within(Longer(s, b)))
             /\ Runs("split", Within(t), Escape(b), Within(Longer(t, b)))
  BY <1>2 DEF t
<1>4. CASE b \in {"\\", " "}
  <2>1. Escape(b) = <<"\\", b>> /\ Unescape(b) = b
    BY <1>4 DEF Escape, Unescape
  <2> QED BY <1>3, <2>1
<1>5. CASE b = "\n"
  <2>1. Escape(b) = <<"\\", "n">> /\ Unescape("n") = b
    BY <1>5 DEF Escape, Unescape
  <2> QED BY <1>3, <2>1
<1>6. CASE b \notin {"\\", " ", "\n"}
  <2>1. Escape(b) = <<b>>
    BY <1>6 DEF Escape
  <2>2. SplitByte(Within(t), b) = Within(Longer(t, b))
    BY <1>6, SplitSteps
  <2>3. /\ Runs("split", Between(a), <<b>>, Within(Longer(s, b)))
        /\ Runs("split", Within(t), <<b>>, Within(Longer(t, b)))
    BY <1>6, <1>8, <2>2, SplitsOne
  <2> QED BY <2>1, <2>3
<1> QED BY <1>4, <1>5, <1>6

\* The initial segments of a sequence, one element at a time.
LEMMA Segments ==
  ASSUME NEW S, NEW x \in Seq(S)
  PROVE  /\ SubSeq(x, 1, 0) = <<>> /\ SubSeq(x, 1, Len(x)) = x
         /\ \A i \in 0 .. Len(x) : SubSeq(x, 1, i) \in Seq(S) /\ Len(SubSeq(x, 1, i)) = i
         /\ \A i \in 1 .. Len(x) : SubSeq(x, 1, i) = Append(SubSeq(x, 1, i - 1), x[i])
<1>1. Len(x) \in Nat /\ \A i \in 1 .. Len(x) : x[i] \in S
  BY LenProperties, ElementOfSeq
<1>2. \A i \in 0 .. Len(x) : SubSeq(x, 1, i) \in Seq(S) /\ Len(SubSeq(x, 1, i)) = i
                             /\ \A k \in 1 .. i : SubSeq(x, 1, i)[k] = x[k]
  <2> SUFFICES ASSUME NEW i \in 0 .. Len(x)
               PROVE  SubSeq(x, 1, i) \in Seq(S) /\ Len(SubSeq(x, 1, i)) = i
                      /\ \A k \in 1 .. i : SubSeq(x, 1, i)[k] = x[k]
    OBVIOUS
  <2>1. \A k \in 1 .. i : x[k] \in S
    BY <1>1
  <2> QED BY <1>1, <2>1, SubSeqProperties
<1>3. SubSeq(x, 1, 0) = <<>>
  OBVIOUS
<1>4. SubSeq(x, 1, Len(x)) = x
  BY SubSeqFull
<1>5. ASSUME NEW i \in 1 .. Len(x)
      PROVE  SubSeq(x, 1, i) = Append(SubSeq(x, 1, i - 1), x[i])
  <2> DEFINE u == SubSeq(x, 1, i)
             v == SubSeq(x, 1, i - 1)
             w == Append(v, x[i])
  <2>1. /\ u \in Seq(S) /\ Len(u) = i /\ \A k \in 1 .. i : u[k] = x[k]
        /\ v \in Seq(S) /\ Len(v) = i - 1 /\ \A k \in 1 .. i - 1 : v[k] = x[k]
    BY <1>1, <1>2
  <2> HIDE DEF u, v
  <2>2. w \in Seq(S) /\ Len(w) = i
    BY <1>1, <2>1
  <2>3. \A k \in 1 .. i : w[k] = x[k]
    BY <1>1, <2>1
  <2> HIDE DEF w
  <2>4. u = w
    BY <2>1, <2>2, <2>3, SeqEqual
  <2> QED BY <2>4 DEF u, v, w
<1> QED BY <1>2, <1>3, <1>4, <1>5

Escapes(arg) == [i \in DOMAIN arg |-> Escape(arg[i])]

LEMMA EscapesParts ==
  ASSUME NEW arg \in Seq(Byte)
  PROVE  /\ EscapeAll(arg) = FlattenSeq(Escapes(arg)) /\ Parts(Escapes(arg), Len(arg))
         /\ \A i \in 1 .. Len(arg) : Escapes(arg)[i] = Escape(arg[i]) /\ Escapes(arg)[i] \in Seq(InLine)
         /\ EscapeAll(arg) \in Seq(InLine)
<1>1. Len(arg) \in Nat /\ DOMAIN arg = 1 .. Len(arg) /\ \A i \in 1 .. Len(arg) : arg[i] \in Byte
  BY LenProperties, ElementOfSeq
<1>2. \A i \in 1 .. Len(arg) : Escapes(arg)[i] = Escape(arg[i]) /\ Escapes(arg)[i] \in Seq(InLine)
  BY <1>1, EscapeType DEF Escapes
<1>3. Parts(Escapes(arg), Len(arg))
  <2>1. Escapes(arg) = [i \in 1 .. Len(arg) |-> Escapes(arg)[i]]
    BY <1>1 DEF Escapes
  <2>2. Len(Escapes(arg)) = Len(arg)
    <3>1. Escapes(arg) \in [1 .. Len(arg) -> Seq(InLine)]
      BY <1>2, <2>1
    <3> HIDE DEF Escapes
    <3> QED BY <1>1, <3>1, LenProperties
  <2> QED BY <2>1, <2>2 DEF Parts
<1>4. EscapeAll(arg) = FlattenSeq(Escapes(arg))
  BY DEF EscapeAll, Escapes
<1>5. EscapeAll(arg) \in Seq(InLine)
  BY <1>1, <1>2, <1>3, <1>4, FlattenedSeq
<1> QED BY <1>2, <1>3, <1>4, <1>5

LEMMA ArgSplits ==
  ASSUME NEW a \in Seq(Seq(Byte)), NEW arg \in Seq(Byte), arg # <<>>
  PROVE  Runs("split", Between(a), EscapeAll(arg), Within(Append(a, arg)))
<1> DEFINE n == Len(arg)
           seg(i) == SubSeq(arg, 1, i)
           st == [i \in 0 .. n |-> IF i = 0 THEN Between(a) ELSE Within(Append(a, seg(i)))]
<1>1. n \in Nat /\ n > 0 /\ \A i \in 1 .. n : arg[i] \in Byte
  BY LenProperties, ElementOfSeq, EmptySeq
<1>2. /\ seg(0) = <<>> /\ seg(n) = arg /\ \A i \in 0 .. n : seg(i) \in Seq(Byte)
      /\ \A i \in 1 .. n : seg(i) = Append(seg(i - 1), arg[i])
  BY Segments
<1>3. st[0] = Between(a) /\ st[n] = Within(Append(a, seg(n)))
  BY <1>1
<1>4. ASSUME NEW i \in 1 .. n PROVE Runs("split", st[i - 1], Escape(arg[i]), st[i])
  <2>1. st[i] = Within(Append(a, seg(i))) /\ seg(i) = Append(seg(i - 1), arg[i])
    BY <1>1, <1>2
  <2>2. CASE i = 1
    <3>1. st[i - 1] = Between(a) /\ seg(i - 1) = <<>>
      BY <1>2, <1>3, <2>2
    <3> HIDE DEF st, seg
    <3>2. Runs("split", Between(a), Escape(arg[i]), Within(Append(a, Append(seg(i - 1), arg[i]))))
      BY <1>1, <3>1, EscapedSplits
    <3> QED BY <2>1, <3>1, <3>2
  <2>3. CASE i # 1
    <3>1. st[i - 1] = Within(Append(a, seg(i - 1))) /\ seg(i - 1) \in Seq(Byte)
      BY <1>1, <1>2, <2>3
    <3> HIDE DEF st, seg
    <3>2. Runs("split", Within(Append(a, seg(i - 1))), Escape(arg[i]),
               Within(Append(a, Append(seg(i - 1), arg[i]))))
      BY <1>1, <3>1, EscapedSplits
    <3> QED BY <2>1, <3>1, <3>2
  <2> QED BY <2>2, <2>3
<1> HIDE DEF st, seg
<1>5. \A i \in 1 .. n : Runs("split", st[i - 1], Escapes(arg)[i], st[i])
  BY <1>4, EscapesParts
<1>6. Runs("split", st[0], FlattenSeq(Escapes(arg)), st[n])
  BY <1>1, <1>5, EscapesParts, FlattenedRuns
<1> QED BY <1>2, <1>3, <1>6, EscapesParts

LEMMA SpaceInLine == " " \in InLine /\ <<" ">> \in Seq(InLine)
<1>1. " " \in InLine
  BY DEF InLine, Byte
<1>2. \A S, b : b \in S => <<b>> \in Seq(S)
  OBVIOUS
<1> QED BY <1>1, <1>2, Zenon

Pieces(argv) == [i \in DOMAIN argv |-> (IF i = 1 THEN <<>> ELSE <<" ">>) \o EscapeAll(argv[i])]

LEMMA PiecesParts ==
  ASSUME NEW argv \in Seq(Seq(Byte))
  PROVE  /\ Join(argv) = FlattenSeq(Pieces(argv)) /\ Parts(Pieces(argv), Len(argv))
         /\ \A i \in 1 .. Len(argv) : Pieces(argv)[i] \in Seq(InLine)
         /\ 1 <= Len(argv) => Pieces(argv)[1] = EscapeAll(argv[1])
         /\ \A i \in 2 .. Len(argv) : Pieces(argv)[i] = <<" ">> \o EscapeAll(argv[i])
         /\ Join(argv) \in Seq(InLine)
<1>1. Len(argv) \in Nat /\ DOMAIN argv = 1 .. Len(argv) /\ \A i \in 1 .. Len(argv) : argv[i] \in Seq(Byte)
  BY LenProperties, ElementOfSeq
<1>2. \A i \in 1 .. Len(argv) : EscapeAll(argv[i]) \in Seq(InLine)
  BY <1>1, EscapesParts
<1>3. ASSUME 1 <= Len(argv) PROVE Pieces(argv)[1] = EscapeAll(argv[1])
  <2>1. 1 \in 1 .. Len(argv)
    BY <1>1, <1>3
  <2>2. Pieces(argv)[1] = <<>> \o EscapeAll(argv[1])
    BY <1>1, <2>1 DEF Pieces
  <2> QED BY <1>2, <2>1, <2>2, ConcatEmptySeq
<1>4. \A i \in 2 .. Len(argv) : Pieces(argv)[i] = <<" ">> \o EscapeAll(argv[i])
  <2>1. \A i \in 2 .. Len(argv) : i \in 1 .. Len(argv) /\ i # 1
    BY <1>1
  <2> QED BY <1>1, <2>1 DEF Pieces
<1>5. ASSUME NEW i \in 1 .. Len(argv) PROVE Pieces(argv)[i] \in Seq(InLine)
  <2>1. EscapeAll(argv[i]) \in Seq(InLine) /\ <<" ">> \in Seq(InLine)
    BY <1>2, SpaceInLine
  <2>2. <<" ">> \o EscapeAll(argv[i]) \in Seq(InLine)
    BY <2>1, ConcatProperties
  <2>3. CASE i = 1
    <3>1. 1 <= Len(argv)
      BY <1>1, <2>3
    <3>2. Pieces(argv)[i] = EscapeAll(argv[i])
      BY <1>3, <2>3, <3>1
    <3> QED BY <2>1, <3>2
  <2>4. CASE i # 1
    <3>1. i \in 2 .. Len(argv)
      BY <1>1, <2>4
    <3>2. Pieces(argv)[i] = <<" ">> \o EscapeAll(argv[i])
      BY <1>4, <3>1
    <3> QED BY <2>2, <3>2
  <2> QED BY <2>3, <2>4
<1>6. Parts(Pieces(argv), Len(argv))
  <2>1. Pieces(argv) = [i \in 1 .. Len(argv) |-> Pieces(argv)[i]]
    BY <1>1 DEF Pieces
  <2>2. Pieces(argv) \in [1 .. Len(argv) -> Seq(InLine)]
    BY <1>5, <2>1
  <2>3. Len(Pieces(argv)) = Len(argv)
    BY <1>1, <2>2, LenProperties
  <2> QED BY <2>1, <2>3 DEF Parts
<1>7. Join(argv) = FlattenSeq(Pieces(argv))
  BY DEF Join, Pieces
<1>8. Join(argv) \in Seq(InLine)
  BY <1>1, <1>5, <1>6, <1>7, FlattenedSeq
<1> QED BY <1>3, <1>4, <1>5, <1>6, <1>7, <1>8

\* What is joined is split into what it was, if no argument is empty.
LEMMA JoinSplits ==
  ASSUME NEW argv \in Seq(Seq(Byte)), argv # <<>>, \A i \in DOMAIN argv : argv[i] # <<>>
  PROVE  Runs("split", Between(<<>>), Join(argv), Within(argv))
<1> DEFINE n == Len(argv)
           seg(i) == SubSeq(argv, 1, i)
           st == [i \in 0 .. n |-> IF i = 0 THEN Between(seg(0)) ELSE Within(seg(i))]
<1>1. n \in Nat /\ n > 0 /\ \A i \in 1 .. n : argv[i] \in Seq(Byte) /\ argv[i] # <<>>
  BY LenProperties, ElementOfSeq, EmptySeq
<1>2. /\ seg(0) = <<>> /\ seg(n) = argv /\ \A i \in 0 .. n : seg(i) \in Seq(Seq(Byte))
      /\ \A i \in 1 .. n : seg(i) = Append(seg(i - 1), argv[i])
  BY Segments
<1>3. st[0] = Between(seg(0)) /\ st[n] = Within(seg(n))
  BY <1>1
<1>4. ASSUME NEW i \in 1 .. n PROVE Runs("split", st[i - 1], Pieces(argv)[i], st[i])
  <2>1. st[i] = Within(seg(i)) /\ seg(i) = Append(seg(i - 1), argv[i]) /\ seg(i - 1) \in Seq(Seq(Byte))
    BY <1>1, <1>2
  <2>2. Runs("split", Between(seg(i - 1)), EscapeAll(argv[i]), st[i])
    <3> HIDE DEF seg, st
    <3> QED BY <1>1, <2>1, ArgSplits
  <2>3. CASE i = 1
    <3>1. st[i - 1] = Between(seg(i - 1))
      BY <1>3, <2>3
    <3>2. Pieces(argv)[i] = EscapeAll(argv[i])
      <4>1. 1 <= Len(argv)
        BY <1>1
      <4>2. Pieces(argv)[1] = EscapeAll(argv[1])
        BY <4>1, PiecesParts
      <4> QED BY <2>3, <4>2
    <3> HIDE DEF seg, st
    <3> QED BY <2>2, <3>1, <3>2
  <2>4. CASE i # 1
    <3>1. st[i - 1] = Within(seg(i - 1)) /\ i \in 2 .. n
      BY <1>1, <2>4
    <3> HIDE DEF seg, st
    <3> DEFINE x == <<" ">>
               y == EscapeAll(argv[i])
    <3>2. Pieces(argv)[i] = x \o y
      BY <3>1, PiecesParts
    <3>3. SplitByte(Within(seg(i - 1)), " ") = Between(seg(i - 1))
      BY SplitSteps
    <3>4. Runs("split", Within(seg(i - 1)), x, Between(seg(i - 1)))
      BY <3>3, SplitsOne
    <3>5. x \in Seq(InLine) /\ y \in Seq(InLine)
      BY <1>1, EscapesParts, SpaceInLine
    <3> HIDE DEF x
    <3>6. Runs("split", Within(seg(i - 1)), x \o y, st[i])
      BY <2>2, <3>4, <3>5, RunsConcat
    <3> QED BY <3>1, <3>2, <3>6
  <2> QED BY <2>3, <2>4
<1>6. Runs("split", st[0], FlattenSeq(Pieces(argv)), st[n])
  <2> HIDE DEF st, seg
  <2> QED BY <1>1, <1>4, PiecesParts, FlattenedRuns
<1>7. st[0] = Between(<<>>) /\ st[n] = Within(argv)
  BY <1>2, <1>3
<1> HIDE DEF st, seg
<1> QED BY <1>6, <1>7, PiecesParts

LEMMA SplitOfJoin ==
  ASSUME NEW argv \in Seq(Seq(Byte)), argv # <<>>, \A i \in DOMAIN argv : argv[i] # <<>>
  PROVE  Split(Join(argv)) = argv
<1> DEFINE line == Join(argv)
           s == FoldLeft(SplitByte, Between(<<>>), line)
<1>1. line \in Seq(InLine)
  BY PiecesParts
<1>2. Len(line) \in Nat /\ DOMAIN line = 1 .. Len(line)
  BY <1>1, LenProperties
<1>3. Runs("split", Between(<<>>), line, Within(argv))
  BY JoinSplits
<1>4. Split(line) = SplitEnd(s).argv
  BY DEF Split, Between
<1>5. Runs("split", Between(<<>>), line, s)
  <2> HIDE DEF line
  <2> QED BY <1>2, SplitRuns
<1> HIDE DEF line, s
<1>6. s = Within(argv)
  BY <1>2, <1>3, <1>5, RunsUnique
<1>7. SplitEnd(Within(argv)).argv = argv
  BY DEF SplitEnd, Within
<1> QED BY <1>4, <1>6, <1>7 DEF line

\* Three sequences one after another, however they are put together; and a
\* byte appended to the second of two.
Regroups(x, y, z) == (x \o y) \o z = x \o (y \o z)
Carries(x, y, b)  == x \o Append(y, b) = Append(x \o y, b)

LEMMA Associates ==
  ASSUME NEW S, NEW x \in Seq(S), NEW y \in Seq(S), NEW z \in Seq(S)
  PROVE  Regroups(x, y, z)
BY ConcatAssociative DEF Regroups

LEMMA AppendOnward ==
  ASSUME NEW S, NEW x \in Seq(S), NEW y \in Seq(S), NEW b \in S
  PROVE  Carries(x, y, b)
<1>1. <<b>> \in Seq(S) /\ x \o y \in Seq(S)
  BY ConcatProperties
<1>2. Append(y, b) = y \o <<b>>
  BY AppendIsConcat
<1>3. Append(x \o y, b) = (x \o y) \o <<b>>
  BY <1>1, AppendIsConcat
<1>4. (x \o y) \o <<b>> = x \o (y \o <<b>>)
  BY <1>1, Associates DEF Regroups
<1> QED BY <1>2, <1>3, <1>4 DEF Carries

\* A line ends with what the last argument ends with.
LEMMA LineEnd ==
  ASSUME NEW argv \in Seq(Seq(Byte)), argv # <<>>, Faithful(argv)
  PROVE  StripCr(Join(argv)) = Join(argv)
<1> DEFINE n == Len(argv)
           arg == argv[n]
           m == Len(arg)
           line == Join(argv)
<1>1. n \in Nat /\ n \in 1 .. n /\ n > 0 /\ arg \in Seq(Byte) /\ arg # <<>>
  BY LenProperties, ElementOfSeq, EmptySeq DEF Faithful
<1>2. m \in Nat /\ m \in 1 .. m /\ m > 0 /\ arg[m] \in Byte
  <2> HIDE DEF arg
  <2> QED BY <1>1, LenProperties, ElementOfSeq, EmptySeq
<1>3. arg[m] # "\r"
  BY <1>1 DEF Faithful, Last
<1>4. PICK front \in Seq(InLine) : line = front \o Pieces(argv)[n]
  BY <1>1, PiecesParts, FlattenedSeq
<1>5. PICK inner \in Seq(InLine) : EscapeAll(arg) = inner \o Escape(arg[m])
  <2>1. Escapes(arg)[m] = Escape(arg[m]) /\ Parts(Escapes(arg), m) /\ \A i \in 1 .. m : Escapes(arg)[i] \in Seq(InLine)
    BY <1>1, <1>2, EscapesParts
  <2>2. EscapeAll(arg) = FlattenSeq(Escapes(arg))
    BY <1>1, EscapesParts
  <2> HIDE DEF arg, m
  <2> QED BY <1>2, <2>1, <2>2, FlattenedSeq
<1>6. \E before \in Seq(InLine) : Pieces(argv)[n] = before \o EscapeAll(arg)
  <2>1. CASE n = 1
    <3>0. EscapeAll(arg) \in Seq(InLine)
      <4> HIDE DEF arg
      <4> QED BY <1>1, EscapesParts
    <3>1. Pieces(argv)[n] = EscapeAll(arg) /\ EscapeAll(arg) \in Seq(InLine)
      <4>1. 1 <= Len(argv)
        BY <1>1
      <4>2. Pieces(argv)[1] = EscapeAll(argv[1])
        BY <4>1, PiecesParts
      <4> QED BY <2>1, <3>0, <4>2
    <3>2. <<>> \in Seq(InLine) /\ <<>> \o EscapeAll(arg) = EscapeAll(arg)
      BY <3>1, ConcatEmptySeq
    <3> QED BY <3>1, <3>2
  <2>2. CASE n # 1
    <3>0. \A k \in Nat : k > 0 /\ k # 1 => k \in 2 .. k
      OBVIOUS
    <3>1. n \in 2 .. Len(argv)
      BY <1>1, <2>2, <3>0, Zenon
    <3>2. Pieces(argv)[n] = <<" ">> \o EscapeAll(argv[n])
      BY <3>1, PiecesParts
    <3> QED BY <3>2, SpaceInLine, Zenon
  <2> QED BY <2>1, <2>2
<1>7. PICK before \in Seq(InLine) : Pieces(argv)[n] = before \o EscapeAll(arg)
  BY <1>6
<1> DEFINE last == Escape(arg[m])
<1>8. last \in Seq(InLine) /\ last # <<>> /\ last[Len(last)] # "\r"
  BY <1>2, <1>3, EscapeType
<1> HIDE DEF line, last, arg
<1>9. line = (front \o (before \o inner)) \o last /\ front \o (before \o inner) \in Seq(InLine)
  <2>1. line = front \o (before \o (inner \o last))
    BY <1>4, <1>5, <1>7 DEF last
  <2>2. before \o inner \in Seq(InLine) /\ front \o (before \o inner) \in Seq(InLine)
    BY ConcatProperties
  <2>3. Regroups(before, inner, last)
    BY <1>8, Associates
  <2>4. Regroups(front, before \o inner, last)
    BY <1>8, <2>2, Associates
  <2>5. before \o (inner \o last) = (before \o inner) \o last
    BY <2>3 DEF Regroups
  <2>6. front \o ((before \o inner) \o last) = (front \o (before \o inner)) \o last
    BY <2>4 DEF Regroups
  <2> QED BY <2>1, <2>2, <2>5, <2>6
<1> DEFINE first == front \o (before \o inner)
<1>10. first \in Seq(InLine) /\ line = first \o last
  BY <1>9
<1> HIDE DEF first
<1>11. line # <<>> /\ Last(line) # "\r"
  <2>1. Len(first) \in Nat /\ Len(last) \in Nat /\ Len(last) > 0
    BY <1>8, <1>10, LenProperties, EmptySeq
  <2>2. Len(line) = Len(first) + Len(last) /\ line[Len(line)] = last[Len(last)]
    BY <1>8, <1>10, <2>1, ConcatProperties
  <2> QED BY <1>8, <2>1, <2>2 DEF Last
<1>12. StripCr(line) = line
  BY <1>11 DEF StripCr
<1> QED BY <1>12 DEF line

-----------------------------------------------------------------------------
(***************************************************************************)
(* The frame, written and read                                             *)
(***************************************************************************)

\* What the reader of a frame is between two lines, in one, and at its end.
Started(o)    == [line |-> <<>>, inFrame |-> TRUE, out |-> o, flag |-> -1]
Amid(line, o) == [line |-> line, inFrame |-> TRUE, out |-> o, flag |-> -1]
Over(o, flag) == [line |-> <<>>, inFrame |-> TRUE, out |-> o, flag |-> flag]

\* A line of a body that has begun, its percent sign doubled.
Begun(line) == line # <<>> /\ (line[1] = "%" => Len(line) >= 2 /\ line[2] = "%")

LEMMA BegunLine ==
  ASSUME NEW line \in Seq(Byte), Begun(line)
  PROVE  /\ Plain(line) /\ UnescapeLine(line) \in Seq(Byte)
         /\ \A b \in Byte : /\ Begun(Append(line, b)) /\ Append(line, b) \in Seq(Byte)
                            /\ UnescapeLine(Append(line, b)) = Append(UnescapeLine(line), b)
<1>1. Len(line) \in Nat /\ Len(line) > 0 /\ line # <<>>
  BY EmptySeq, LenProperties DEF Begun
<1>2. Plain(line)
  BY DEF Begun, Plain, Starts
<1>3. UnescapeLine(line) \in Seq(Byte)
  BY UnescapeType
<1>4. ASSUME NEW b \in Byte
      PROVE  /\ Begun(Append(line, b)) /\ Append(line, b) \in Seq(Byte)
             /\ UnescapeLine(Append(line, b)) = Append(UnescapeLine(line), b)
  <2> DEFINE more == Append(line, b)
  <2>1. /\ more \in Seq(Byte) /\ Len(more) = Len(line) + 1 /\ more # <<>>
        /\ more[1] = line[1] /\ (Len(line) >= 2 => more[2] = line[2])
    BY <1>1
  <2>2. Tail(more) = Append(Tail(line), b)
    BY <1>1, HeadTailAppend
  <2> HIDE DEF more
  <2>3. Begun(more)
    BY <1>1, <2>1 DEF Begun
  <2>4. UnescapeLine(more) = Append(UnescapeLine(line), b)
    <3>1. CASE line[1] = "%"
      BY <1>1, <2>1, <2>2, <3>1 DEF UnescapeLine
    <3>2. CASE line[1] # "%"
      <4>1. UnescapeLine(more) = more /\ UnescapeLine(line) = line
        BY <1>1, <2>1, <3>2 DEF UnescapeLine
      <4> QED BY <4>1 DEF more
    <3> QED BY <3>1, <3>2
  <2> QED BY <2>1, <2>3, <2>4 DEF more
<1> QED BY <1>2, <1>3, <1>4

LEMMA ReadSteps ==
  ASSUME NEW o \in Seq(Byte), NEW line, NEW b
  PROVE  /\ ReadByte(Started(o), "\n") = Started(Append(o, "\n"))
         /\ b # "\n" => /\ ReadByte(Started(o), b) = Amid(<<b>>, o)
                        /\ ReadByte(Amid(line, o), b) = Amid(Append(line, b), o)
         /\ Plain(line) => ReadByte(Amid(line, o), "\n") = Started(o \o Append(UnescapeLine(line), "\n"))
<1>1. ReadByte(Started(o), "\n") = Started(Append(o, "\n"))
  <2>1. ReadByte(Started(o), "\n") = EndOfLine(Started(o))
    BY DEF ReadByte, Started
  <2>2. Plain(<<>>) /\ UnescapeLine(<<>>) = <<>> /\ Append(<<>>, "\n") = <<"\n">> /\ o \o <<"\n">> = Append(o, "\n")
    BY DEF Plain, Starts, UnescapeLine
  <2>3. EndOfLine(Started(o)) = Started(o \o Append(UnescapeLine(<<>>), "\n"))
    BY <2>2 DEF EndOfLine, Started, Plain
  <2> QED BY <2>1, <2>2, <2>3
<1>2. ASSUME b # "\n"
      PROVE  /\ ReadByte(Started(o), b) = Amid(<<b>>, o)
             /\ ReadByte(Amid(line, o), b) = Amid(Append(line, b), o)
  <2>1. PICK f, g, empty, one : f = TRUE /\ g = -1 /\ empty = <<>> /\ one = Append(empty, b)
    OBVIOUS
  <2>2. ~(g >= 0) /\ one = <<b>>
    BY <2>1
  <2>3. \A l : Amid(l, o) = Rd(l, f, o, g)
    BY <2>1 DEF Amid, Rd
  <2>4. Started(o) = Rd(empty, f, o, g)
    BY <2>1 DEF Started, Rd
  <2>5. \A l : ReadByte(Rd(l, f, o, g), b) = Rd(Append(l, b), f, o, g)
    BY <1>2, <2>2, ByteRead
  <2>6. ReadByte(Amid(line, o), b) = Amid(Append(line, b), o)
    BY <2>3, <2>5
  <2>7. ReadByte(Started(o), b) = Amid(one, o)
    <3>1. Append(empty, b) = one
      BY <2>1
    <3> QED BY <2>3, <2>4, <2>5, <3>1
  <2> QED BY <2>2, <2>6, <2>7
<1>3. ASSUME Plain(line)
      PROVE  ReadByte(Amid(line, o), "\n") = Started(o \o Append(UnescapeLine(line), "\n"))
  <2>1. ReadByte(Amid(line, o), "\n") = EndOfLine(Amid(line, o))
    BY DEF ReadByte, Amid
  <2>2. EndOfLine(Amid(line, o)) = Started(o \o Append(UnescapeLine(line), "\n"))
    BY <1>3 DEF EndOfLine, Amid, Started, Plain
  <2> QED BY <2>1, <2>2
<1> QED BY <1>1, <1>2, <1>3

\* The reader takes one byte.
LEMMA ReadsOne ==
  ASSUME NEW x \in Seq(Byte), NEW b \in Byte, NEW s, NEW t, NEW u,
         Runs("read", s, x, t), u = ReadByte(t, b)
  PROVE  Runs("read", s, Append(x, b), u)
<1>1. StepOf("read", t, b) = u
  BY DEF StepOf
<1> QED BY <1>1, RunsAppend

\* ctl_reply_fd's copy loop at the start of a line and in it, with room.
AtStart(l) == [buf |-> l, atStart |-> TRUE, full |-> FALSE]
Inside(l)  == [buf |-> l, atStart |-> FALSE, full |-> FALSE]

LEMMA CopySteps ==
  ASSUME NEW l \in Seq(Byte), NEW b \in Byte, Len(l) + 1 < Cap, Cap \in Int
  PROVE  /\ b = "%" => CopyByte(AtStart(l), b) = Inside(Append(Append(l, "%"), b))
         /\ b = "\n" => CopyByte(AtStart(l), b) = AtStart(Append(l, b))
         /\ b \notin {"%", "\n"} => CopyByte(AtStart(l), b) = Inside(Append(l, b))
         /\ b = "\n" => CopyByte(Inside(l), b) = AtStart(Append(l, b))
         /\ b # "\n" => CopyByte(Inside(l), b) = Inside(Append(l, b))
<1>1. Len(l) \in Nat /\ Len(l) < Cap
  BY LenProperties
<1>2. l \o <<b>> = Append(l, b) /\ l \o <<"%", b>> = Append(Append(l, "%"), b)
  OBVIOUS
<1>3. ASSUME b = "%" PROVE CopyByte(AtStart(l), b) = Inside(l \o <<"%", b>>)
  BY <1>1, <1>3 DEF CopyByte, AtStart, Inside
<1>4. ASSUME b # "%" PROVE CopyByte(AtStart(l), b) = [buf |-> l \o <<b>>, atStart |-> (b = "\n"), full |-> FALSE]
  BY <1>1, <1>4 DEF CopyByte, AtStart
<1>5. CopyByte(Inside(l), b) = [buf |-> l \o <<b>>, atStart |-> (b = "\n"), full |-> FALSE]
  BY <1>1 DEF CopyByte, Inside
<1>6. b = "\n" => [buf |-> l \o <<b>>, atStart |-> (b = "\n"), full |-> FALSE] = AtStart(l \o <<b>>)
  BY DEF AtStart
<1>7. b # "\n" => [buf |-> l \o <<b>>, atStart |-> (b = "\n"), full |-> FALSE] = Inside(l \o <<b>>)
  BY DEF Inside
<1>8. b = "\n" => b # "%"
  OBVIOUS
<1>9. b = "%" => CopyByte(AtStart(l), b) = Inside(Append(Append(l, "%"), b))
  BY <1>2, <1>3
<1>10. b = "\n" => CopyByte(AtStart(l), b) = AtStart(Append(l, b))
  BY <1>2, <1>4, <1>6, <1>8
<1>11. b \notin {"%", "\n"} => CopyByte(AtStart(l), b) = Inside(Append(l, b))
  BY <1>2, <1>4, <1>7
<1>12. b = "\n" => CopyByte(Inside(l), b) = AtStart(Append(l, b))
  BY <1>2, <1>5, <1>6
<1>13. b # "\n" => CopyByte(Inside(l), b) = Inside(Append(l, b))
  BY <1>2, <1>5, <1>7
<1> QED BY <1>9, <1>10, <1>11, <1>12, <1>13

\* What was copied reads as the part of the body that was.
Reads(l, t) == l \in Seq(Byte) /\ Runs("read", ReadStart, l, t)

CopiedLines(s, part, i) ==
  \E l : s = AtStart(l) /\ 2 * Len(l) <= 6 + 3 * i /\ Reads(l, Started(part))
CopiedInLine(s, part, i) ==
  \E l, line, o : /\ s = Inside(l) /\ 2 * Len(l) <= 7 + 3 * i /\ Reads(l, Amid(line, o))
                  /\ line \in Seq(Byte) /\ o \in Seq(Byte) /\ Begun(line)
                  /\ part = o \o UnescapeLine(line)

\* The reserve leaves the copy room for any body that fits half a reply.
LEMMA Room ==
  ASSUME WireAssumption, NEW l, NEW i \in Nat, NEW k \in Nat, Len(l) \in Nat,
         2 * Len(l) <= 7 + 3 * i, i < k, 2 * k < ReplyMax
  PROVE  Len(l) + 1 < Cap /\ Cap \in Int
<1>1. Len(Header) = 3
  BY DEF Header
<1>2. TailReserve \in Nat /\ ReplyMax \in Nat /\ 4 * (3 + TailReserve + 1) <= ReplyMax
  BY <1>1 DEF WireAssumption
<1> QED BY <1>2 DEF Cap

\* A sequence with one more at its end.
Lengthens(S, x, b) ==
  /\ Append(x, b) \in Seq(S) /\ Len(Append(x, b)) = Len(x) + 1
  /\ Append(x, b)[Len(x) + 1] = b
  /\ \A i \in 1 .. Len(x) : Append(x, b)[i] = x[i]

LEMMA Lengthened ==
  ASSUME NEW S, NEW x \in Seq(S), NEW b \in S
  PROVE  Lengthens(S, x, b)
BY AppendProperties DEF Lengthens

LEMMA Pair == \A a, b : Append(<<a>>, b) = <<a, b>>
<1> SUFFICES ASSUME NEW a, NEW b PROVE Append(<<a>>, b) = <<a, b>>
  OBVIOUS
<1> DEFINE S == {a, b}
           x == <<a>>
           y == Append(x, b)
           z == <<a, b>>
<1>1. x \in Seq(S) /\ Len(x) = 1 /\ x[1] = a /\ b \in S
  OBVIOUS
<1>2. z \in Seq(S) /\ Len(z) = 2 /\ z[1] = a /\ z[2] = b
  OBVIOUS
<1> HIDE DEF S, x, z
<1>3. y \in Seq(S) /\ Len(y) = 2 /\ y[1] = a /\ y[2] = b
  <2>3. Lengthens(S, x, b)
    BY <1>1, Lengthened
  <2>0. y \in Seq(S) /\ Len(y) = Len(x) + 1 /\ y[Len(x) + 1] = b
    BY <2>3 DEF Lengthens
  <2>1. \A i \in 1 .. Len(x) : y[i] = x[i]
    BY <2>3 DEF Lengthens
  <2> HIDE DEF y
  <2>2. 1 \in 1 .. Len(x) /\ Len(x) + 1 = 2
    BY <1>1
  <2> QED BY <1>1, <2>0, <2>1, <2>2
<1> HIDE DEF y
<1>4. \A i \in 1 .. 2 : y[i] = z[i]
  BY <1>2, <1>3
<1>5. y = z
  BY <1>2, <1>3, <1>4, SeqEqual
<1> QED BY <1>5 DEF x, y, z

LEMMA LineCopied ==
  ASSUME WireAssumption, NEW s, NEW part \in Seq(Byte), NEW b \in Byte,
         NEW i \in Nat, NEW k \in Nat, i < k, 2 * k < ReplyMax,
         CopiedLines(s, part, i)
  PROVE  CopiedLines(CopyByte(s, b), Append(part, b), i + 1) \/ CopiedInLine(CopyByte(s, b), Append(part, b), i + 1)
<1>1. PICK l : s = AtStart(l) /\ 2 * Len(l) <= 6 + 3 * i /\ l \in Seq(Byte) /\ Runs("read", ReadStart, l, Started(part))
  BY DEF CopiedLines, Reads
<1>2. Len(l) \in Nat
  BY <1>1, LenProperties
<1>3. Len(l) + 1 < Cap /\ Cap \in Int
  <2>1. 2 * Len(l) <= 7 + 3 * i
    BY <1>1, <1>2
  <2> QED BY <1>2, <2>1, Room
<1> DEFINE more == Append(l, b)
           twice == Append(Append(l, "%"), b)
<1>4. more \in Seq(Byte) /\ Len(more) = Len(l) + 1 /\ twice \in Seq(Byte) /\ Len(twice) = Len(l) + 2
  <2>1. "%" \in Byte
    BY DEF Byte
  <2>2. \A x \in Seq(Byte), c \in Byte : Append(x, c) \in Seq(Byte) /\ Len(Append(x, c)) = Len(x) + 1
    OBVIOUS
  <2>3. Append(l, "%") \in Seq(Byte) /\ Len(Append(l, "%")) = Len(l) + 1
    BY <1>1, <2>1, <2>2
  <2> QED BY <1>1, <1>2, <2>2, <2>3
<1>5. /\ b = "%" => CopyByte(s, b) = Inside(twice)
      /\ b = "\n" => CopyByte(s, b) = AtStart(more)
      /\ b \notin {"%", "\n"} => CopyByte(s, b) = Inside(more)
  BY <1>1, <1>3, CopySteps
<1>6. <<b>> \in Seq(Byte) /\ part \o <<b>> = Append(part, b)
  OBVIOUS
<1>7. CASE b = "\n"
  <2>1. ReadByte(Started(part), b) = Started(Append(part, b))
    BY <1>7, ReadSteps
  <2>2. Reads(more, Started(Append(part, b)))
    BY <1>1, <1>4, <2>1, ReadsOne DEF Reads
  <2>3. 2 * Len(more) <= 6 + 3 * (i + 1)
    BY <1>1, <1>2, <1>4
  <2> HIDE DEF more
  <2> QED BY <1>5, <1>7, <2>2, <2>3 DEF CopiedLines
<1>8. CASE b \notin {"%", "\n"}
  <2> DEFINE line == <<b>>
  <2>1. ReadByte(Started(part), b) = Amid(line, part)
    BY <1>8, ReadSteps
  <2>2. Reads(more, Amid(line, part))
    <3> HIDE DEF line
    <3> QED BY <1>1, <1>4, <2>1, ReadsOne DEF Reads
  <2>3. 2 * Len(more) <= 7 + 3 * (i + 1)
    BY <1>1, <1>2, <1>4
  <2>4. line \in Seq(Byte) /\ Begun(line)
    BY <1>8 DEF Begun
  <2>5. Append(part, b) = part \o UnescapeLine(line)
    BY <1>6, <1>8 DEF UnescapeLine
  <2> HIDE DEF more, line
  <2> QED BY <1>5, <1>8, <2>2, <2>3, <2>4, <2>5 DEF CopiedInLine
<1>9. CASE b = "%"
  <2> DEFINE one == <<"%">>
             line == <<"%", b>>
             first == Append(l, "%")
  <2>1. "%" \in Byte /\ "%" # "\n" /\ first \in Seq(Byte) /\ Append(one, b) = line
    <3>1. "%" \in Byte /\ "%" # "\n"
      BY DEF Byte
    <3>2. first \in Seq(Byte)
      BY <1>1, <3>1, AppendProperties
    <3>3. Append(one, b) = line
      BY Pair
    <3> QED BY <3>1, <3>2, <3>3
  <2>2. ReadByte(Started(part), "%") = Amid(one, part)
    BY <2>1, ReadSteps
  <2>3. ReadByte(Amid(one, part), b) = Amid(line, part)
    <3>1. ReadByte(Amid(one, part), b) = Amid(Append(one, b), part)
      BY <1>9, <2>1, ReadSteps
    <3> QED BY <2>1, <3>1
  <2>4. Runs("read", ReadStart, first, Amid(one, part))
    <3> HIDE DEF one
    <3> QED BY <1>1, <2>1, <2>2, ReadsOne
  <2>5. Reads(twice, Amid(line, part))
    <3> HIDE DEF one, line
    <3> QED BY <1>4, <2>1, <2>3, <2>4, ReadsOne DEF Reads
  <2>6. 2 * Len(twice) <= 7 + 3 * (i + 1)
    BY <1>1, <1>2, <1>4
  <2>7. line \in Seq(Byte) /\ Begun(line)
    <3>1. line # <<>> /\ Len(line) = 2 /\ line[2] = b
      OBVIOUS
    <3>2. line \in Seq(Byte)
      BY <2>1
    <3> QED BY <1>9, <3>1, <3>2 DEF Begun
  <2>8. Append(part, b) = part \o UnescapeLine(line)
    <3>1. UnescapeLine(line) = <<b>>
      BY DEF UnescapeLine
    <3> QED BY <1>6, <3>1
  <2> HIDE DEF twice, line
  <2> QED BY <1>5, <1>9, <2>5, <2>6, <2>7, <2>8 DEF CopiedInLine
<1> QED BY <1>7, <1>8, <1>9

LEMMA InLineCopied ==
  ASSUME WireAssumption, NEW s, NEW part \in Seq(Byte), NEW b \in Byte,
         NEW i \in Nat, NEW k \in Nat, i < k, 2 * k < ReplyMax,
         CopiedInLine(s, part, i)
  PROVE  CopiedLines(CopyByte(s, b), Append(part, b), i + 1) \/ CopiedInLine(CopyByte(s, b), Append(part, b), i + 1)
<1>1. PICK l, line, o : /\ s = Inside(l) /\ 2 * Len(l) <= 7 + 3 * i
                        /\ l \in Seq(Byte) /\ Runs("read", ReadStart, l, Amid(line, o))
                        /\ line \in Seq(Byte) /\ o \in Seq(Byte) /\ Begun(line)
                        /\ part = o \o UnescapeLine(line)
  BY DEF CopiedInLine, Reads
<1>2. Len(l) \in Nat
  BY <1>1, LenProperties
<1>3. Len(l) + 1 < Cap /\ Cap \in Int
  BY <1>1, <1>2, Room
<1> DEFINE more == Append(l, b)
           longer == Append(line, b)
           plain == UnescapeLine(line)
<1>4. more \in Seq(Byte) /\ Len(more) = Len(l) + 1
  BY <1>1
<1>5. /\ b = "\n" => CopyByte(s, b) = AtStart(more)
      /\ b # "\n" => CopyByte(s, b) = Inside(more)
  BY <1>1, <1>3, CopySteps
<1>6. /\ Plain(line) /\ plain \in Seq(Byte) /\ Begun(longer) /\ longer \in Seq(Byte)
      /\ UnescapeLine(longer) = Append(plain, b)
  BY <1>1, BegunLine
<1>7. o \o Append(plain, b) = Append(part, b)
  <2> HIDE DEF plain
  <2>1. part = o \o plain /\ o \in Seq(Byte) /\ plain \in Seq(Byte)
    BY <1>1, <1>6 DEF plain
  <2>2. Carries(o, plain, b)
    BY <2>1, AppendOnward
  <2>3. o \o Append(plain, b) = Append(o \o plain, b)
    BY <2>2 DEF Carries
  <2> QED BY <2>1, <2>3
<1>8. CASE b = "\n"
  <2>1. ReadByte(Amid(line, o), b) = Started(Append(part, b))
    <3>1. ReadByte(Amid(line, o), "\n") = Started(o \o Append(UnescapeLine(line), "\n"))
      BY <1>1, <1>6, ReadSteps
    <3> QED BY <1>7, <1>8, <3>1
  <2>2. Reads(more, Started(Append(part, b)))
    BY <1>1, <1>4, <2>1, ReadsOne DEF Reads
  <2>3. 2 * Len(more) <= 6 + 3 * (i + 1)
    BY <1>1, <1>2, <1>4
  <2> HIDE DEF more
  <2> QED BY <1>5, <1>8, <2>2, <2>3 DEF CopiedLines
<1>9. CASE b # "\n"
  <2>1. ReadByte(Amid(line, o), b) = Amid(longer, o)
    BY <1>1, <1>9, ReadSteps
  <2>2. Reads(more, Amid(longer, o))
    <3> HIDE DEF longer
    <3> QED BY <1>1, <1>4, <2>1, ReadsOne DEF Reads
  <2>3. 2 * Len(more) <= 7 + 3 * (i + 1)
    BY <1>1, <1>2, <1>4
  <2>5. Append(part, b) = o \o UnescapeLine(longer)
    BY <1>6, <1>7
  <2> HIDE DEF more, longer
  <2> QED BY <1>1, <1>5, <1>6, <1>9, <2>2, <2>3, <2>5 DEF CopiedInLine
<1> QED BY <1>8, <1>9

LEMMA Triple == \A a, b, d : Append(<<a, b>>, d) = <<a, b, d>>
<1> SUFFICES ASSUME NEW a, NEW b, NEW d PROVE Append(<<a, b>>, d) = <<a, b, d>>
  OBVIOUS
<1> DEFINE S == {a, b, d}
           x == <<a, b>>
           y == Append(x, d)
           z == <<a, b, d>>
<1>1. x \in Seq(S) /\ Len(x) = 2 /\ x[1] = a /\ x[2] = b /\ d \in S
  OBVIOUS
<1>2. z \in Seq(S) /\ Len(z) = 3 /\ z[1] = a /\ z[2] = b /\ z[3] = d
  OBVIOUS
<1> HIDE DEF S, x, z
<1>3. y \in Seq(S) /\ Len(y) = 3 /\ y[1] = a /\ y[2] = b /\ y[3] = d
  <2>3. Lengthens(S, x, d)
    BY <1>1, Lengthened
  <2>0. y \in Seq(S) /\ Len(y) = Len(x) + 1 /\ y[Len(x) + 1] = d
    BY <2>3 DEF Lengthens
  <2>1. \A i \in 1 .. Len(x) : y[i] = x[i]
    BY <2>3 DEF Lengthens
  <2> HIDE DEF y
  <2>2. 1 \in 1 .. Len(x) /\ 2 \in 1 .. Len(x) /\ Len(x) + 1 = 3
    BY <1>1
  <2> QED BY <1>1, <2>0, <2>1, <2>2
<1> HIDE DEF y
<1>4. \A i \in 1 .. 3 : y[i] = z[i]
  BY <1>2, <1>3
<1>5. y = z
  BY <1>2, <1>3, <1>4, SeqEqual
<1> QED BY <1>5 DEF x, y, z

LEMMA RoomAtEnd ==
  ASSUME WireAssumption, NEW l, NEW n \in Nat, Len(l) \in Nat,
         2 * Len(l) <= 7 + 3 * n, 2 * n < ReplyMax
  PROVE  Len(l) < Cap
<1>1. Len(Header) = 3
  BY DEF Header
<1>2. TailReserve \in Nat /\ ReplyMax \in Nat /\ 4 * (3 + TailReserve + 1) <= ReplyMax
  BY <1>1 DEF WireAssumption
<1> QED BY <1>2 DEF Cap

LEMMA HeaderReads == Header \in Seq(Byte) /\ Reads(Header, Started(<<>>))
<1> DEFINE one == <<"%">>
           two == <<"%", "begin">>
           all == <<"%", "begin", "\n">>
<1>1. "%" \in Byte /\ "begin" \in Byte /\ "\n" \in Byte
  BY DEF Byte
<1>2. one \in Seq(Byte) /\ two \in Seq(Byte) /\ all \in Seq(Byte)
  BY <1>1
<1>3. Append(one, "begin") = two /\ Append(two, "\n") = all
  BY Pair, Triple
<1>4. PICK f, g, o : f = FALSE /\ g = -1 /\ o = <<>>
  OBVIOUS
<1>5. ~(g >= 0) /\ Append(o, "%") = one
  BY <1>4
<1>6. ReadStart = Rd(o, f, o, g) /\ Started(<<>>) = Framed(o, o, g)
  BY <1>4 DEF ReadStart, Rd, Started, Framed
<1>7. ReadByte(ReadStart, "%") = Rd(one, f, o, g)
  <2>1. ReadByte(Rd(o, f, o, g), "%") = Rd(Append(o, "%"), f, o, g)
    BY <1>5, ByteRead
  <2> QED BY <1>5, <1>6, <2>1
<1>8. ReadByte(Rd(one, f, o, g), "begin") = Rd(two, f, o, g)
  <2>1. ReadByte(Rd(one, f, o, g), "begin") = Rd(Append(one, "begin"), f, o, g)
    BY <1>5, ByteRead
  <2> QED BY <1>3, <2>1
<1>9. ReadByte(Rd(two, f, o, g), "\n") = Started(<<>>)
  <2>1. Starts(two, "begin")
    BY DEF Starts
  <2> HIDE DEF two
  <2>2. EndOfLine(Rd(two, f, o, g)) = Framed(<<>>, o, g)
    BY <2>1, MarkerEnds
  <2>3. ReadByte(Rd(two, f, o, g), "\n") = EndOfLine(Rd(two, f, o, g))
    BY <1>5, ByteRead
  <2> QED BY <1>4, <1>6, <2>2, <2>3
<1> HIDE DEF one, two, all
<1>10. Runs("read", ReadStart, one, Rd(one, f, o, g))
  <2>1. StepOf("read", ReadStart, "%") = Rd(one, f, o, g)
    BY <1>7 DEF StepOf
  <2> QED BY <2>1, RunsOne DEF one
<1>11. Runs("read", ReadStart, two, Rd(two, f, o, g))
  BY <1>1, <1>2, <1>3, <1>8, <1>10, ReadsOne
<1>12. Runs("read", ReadStart, all, Started(<<>>))
  BY <1>1, <1>2, <1>3, <1>9, <1>11, ReadsOne
<1>13. Header = all
  BY DEF Header, all
<1> QED BY <1>2, <1>12, <1>13 DEF Reads

\* Copying starts after the header, and never fills the reply.
LEMMA BodyCopied ==
  ASSUME WireAssumption, NEW body \in Seq(Byte), 2 * Len(body) < ReplyMax,
         NEW s, s = FoldLeft(CopyByte, AtStart(Header), body)
  PROVE  CopiedLines(s, body, Len(body)) \/ CopiedInLine(s, body, Len(body))
<1> DEFINE n == Len(body)
           seg(i) == SubSeq(body, 1, i)
           Good(c, i) == CopiedLines(c, seg(i), i) \/ CopiedInLine(c, seg(i), i)
<1>1. n \in Nat /\ DOMAIN body = 1 .. n /\ \A i \in 1 .. n : body[i] \in Byte
  BY LenProperties, ElementOfSeq
<1>2. PICK c : IsRun("copy", AtStart(Header), body, c) /\ c[n] = s
  BY <1>1, CopyRuns DEF Runs
<1>3. c[0] = AtStart(Header) /\ \A i \in 1 .. n : c[i] = CopyByte(c[i - 1], body[i])
  BY <1>2 DEF IsRun, StepOf
<1>4. /\ seg(0) = <<>> /\ seg(n) = body /\ \A i \in 0 .. n : seg(i) \in Seq(Byte)
      /\ \A i \in 1 .. n : seg(i) = Append(seg(i - 1), body[i])
  BY Segments
<1> HIDE DEF seg
<1> DEFINE P == {i \in 0 .. n : Good(c[i], i)}
<1>5. 0 \in P
  <2>1. Reads(Header, Started(seg(0)))
    BY <1>4, HeaderReads
  <2>0. c[0] = AtStart(Header)
    BY <1>3
  <2>2. 2 * Len(Header) <= 6 + 3 * 0
    BY DEF Header
  <2>3. CopiedLines(c[0], seg(0), 0)
    BY <2>0, <2>1, <2>2 DEF CopiedLines
  <2> QED BY <1>1, <2>3
<1>6. ASSUME NEW i \in 0 .. (n - 1), i \in P PROVE i + 1 \in P
  <2>1. i + 1 \in 1 .. n /\ (i + 1) - 1 = i /\ i + 1 \in 0 .. n /\ i \in Nat /\ i \in 0 .. n /\ i < n
    BY <1>1
  <2>2. c[i + 1] = CopyByte(c[i], body[i + 1]) /\ seg(i + 1) = Append(seg(i), body[i + 1])
    BY <1>3, <1>4, <2>1
  <2>3. body[i + 1] \in Byte /\ seg(i) \in Seq(Byte)
    BY <1>1, <1>4, <2>1
  <2>4. CopiedLines(c[i], seg(i), i) \/ CopiedInLine(c[i], seg(i), i)
    BY <1>6
  <2> HIDE DEF n
  <2>5. 2 * n < ReplyMax
    BY DEF n
  <2>6. CopiedLines(c[i + 1], seg(i + 1), i + 1) \/ CopiedInLine(c[i + 1], seg(i + 1), i + 1)
    <3> DEFINE u == c[i]
               part == seg(i)
               b == body[i + 1]
    <3>0. part \in Seq(Byte) /\ b \in Byte /\ i \in Nat /\ n \in Nat /\ i < n /\ 2 * n < ReplyMax
      BY <1>1, <2>1, <2>3, <2>5
    <3>1. c[i + 1] = CopyByte(u, b) /\ seg(i + 1) = Append(part, b)
      BY <2>2
    <3>2. CopiedLines(u, part, i) \/ CopiedInLine(u, part, i)
      BY <2>4
    <3> HIDE DEF u, part, b
    <3>3. CASE CopiedLines(u, part, i)
      BY <3>0, <3>1, <3>3, LineCopied
    <3>4. CASE CopiedInLine(u, part, i)
      BY <3>0, <3>1, <3>4, InLineCopied
    <3> QED BY <3>2, <3>3, <3>4
  <2> QED BY <2>1, <2>6
<1> HIDE DEF P
<1>7. \A i \in 0 .. n : i \in P
  BY <1>1, <1>5, <1>6, Climb
<1>8. n \in P
  BY <1>1, <1>7
<1>9. Good(c[n], n)
  BY <1>8 DEF P
<1> QED BY <1>2, <1>4, <1>9

\* What termctl prints for a body.
Text(body) == IF body = <<>> THEN <<>> ELSE Append(body, "\n")

LEMMA TextType == \A body \in Seq(Byte) : Text(body) \in Seq(Byte)
<1>1. "\n" \in Byte
  BY DEF Byte
<1>2. \A body \in Seq(Byte) : Append(body, "\n") \in Seq(Byte)
  BY <1>1, AppendProperties
<1> QED BY <1>2 DEF Text

\* The lines of a body and their end, copied.
LEMMA TextReads ==
  ASSUME WireAssumption, NEW body \in Seq(Byte), 2 * Len(body) < ReplyMax, body # <<>>,
         NEW s, s = FoldLeft(CopyByte, AtStart(Header), body)
  PROVE  /\ s.buf \in Seq(Byte) /\ Len(s.buf) < Cap
         /\ Reads(Append(s.buf, "\n"), Started(Append(body, "\n")))
<1>1. Len(body) \in Nat /\ Len(body) > 0
  BY LenProperties, EmptySeq
<1>0. "\n" \in Byte
  BY DEF Byte
<1>2. CASE CopiedLines(s, body, Len(body))
  <2>1. PICK l : s = AtStart(l) /\ 2 * Len(l) <= 6 + 3 * Len(body) /\ l \in Seq(Byte)
                 /\ Runs("read", ReadStart, l, Started(body))
    BY <1>2 DEF CopiedLines, Reads
  <2>2. s.buf = l /\ Len(l) \in Nat
    BY <2>1, LenProperties DEF AtStart
  <2>3. ReadByte(Started(body), "\n") = Started(Append(body, "\n"))
    BY ReadSteps
  <2>4. Reads(Append(l, "\n"), Started(Append(body, "\n")))
    BY <1>0, <2>1, <2>3, ReadsOne DEF Reads
  <2>5. Len(l) < Cap
    BY <1>1, <2>1, <2>2, RoomAtEnd
  <2> QED BY <2>1, <2>2, <2>4, <2>5
<1>3. CASE CopiedInLine(s, body, Len(body))
  <2>1. PICK l, line, o : /\ s = Inside(l) /\ 2 * Len(l) <= 7 + 3 * Len(body)
                          /\ l \in Seq(Byte) /\ Runs("read", ReadStart, l, Amid(line, o))
                          /\ line \in Seq(Byte) /\ o \in Seq(Byte) /\ Begun(line)
                          /\ body = o \o UnescapeLine(line)
    BY <1>3 DEF CopiedInLine, Reads
  <2>2. s.buf = l /\ Len(l) \in Nat
    BY <2>1, LenProperties DEF Inside
  <2>3. Plain(line) /\ UnescapeLine(line) \in Seq(Byte)
    BY <2>1, BegunLine
  <2>4. ReadByte(Amid(line, o), "\n") = Started(o \o Append(UnescapeLine(line), "\n"))
    BY <2>1, <2>3, ReadSteps
  <2>5. o \o Append(UnescapeLine(line), "\n") = Append(body, "\n")
    <3>1. Carries(o, UnescapeLine(line), "\n")
      BY <1>0, <2>1, <2>3, AppendOnward
    <3>2. o \o Append(UnescapeLine(line), "\n") = Append(o \o UnescapeLine(line), "\n")
      BY <3>1 DEF Carries
    <3> QED BY <2>1, <3>2
  <2>6. Reads(Append(l, "\n"), Started(Append(body, "\n")))
    <3>1. ReadByte(Amid(line, o), "\n") = Started(Append(body, "\n"))
      BY <2>4, <2>5
    <3> QED BY <1>0, <2>1, <3>1, ReadsOne DEF Reads
  <2>7. Len(l) < Cap
    BY <1>1, <2>1, <2>2, RoomAtEnd
  <2> QED BY <2>1, <2>2, <2>6, <2>7
<1> QED BY <1>2, <1>3, BodyCopied

LEMMA MarkerReads ==
  ASSUME NEW o \in Seq(Byte), NEW flag \in {0, 1}
  PROVE  Marker(flag) \in Seq(Byte) /\ Len(Marker(flag)) = 3
         /\ Runs("read", Started(o), Marker(flag), Over(o, flag))
<1> DEFINE word == IF flag = 0 THEN "end0" ELSE "end1"
           one == <<"%">>
           two == <<"%", word>>
           all == <<"%", word, "\n">>
<1>1. "%" \in Byte /\ word \in Byte /\ "\n" \in Byte /\ "%" # "\n" /\ word # "\n"
  BY DEF Byte
<1>2. Marker(flag) = all /\ all \in Seq(Byte) /\ Len(all) = 3
  BY <1>1 DEF Marker
<1>3. Append(one, word) = two /\ Append(two, "\n") = all
  BY Pair, Triple
<1>4. one \in Seq(Byte) /\ two \in Seq(Byte)
  BY <1>1
<1>5. ReadByte(Started(o), "%") = Amid(one, o)
  BY <1>1, ReadSteps
<1>6. ReadByte(Amid(one, o), word) = Amid(two, o)
  <2>1. ReadByte(Amid(one, o), word) = Amid(Append(one, word), o)
    BY <1>1, ReadSteps
  <2> QED BY <1>3, <2>1
<1>7. ReadByte(Amid(two, o), "\n") = Over(o, flag)
  <2>1. ReadByte(Amid(two, o), "\n") = EndOfLine(Amid(two, o))
    BY DEF ReadByte, Amid
  <2>2. PICK f, g : f = TRUE /\ g = -1
    OBVIOUS
  <2>3. Amid(two, o) = Rd(two, f, o, g)
    BY <2>2 DEF Amid, Rd
  <2>4. Starts(two, word)
    BY DEF Starts
  <2>5. \A h : Rd(<<>>, f, o, h) = Over(o, h)
    BY <2>2 DEF Rd, Over
  <2> HIDE DEF two
  <2>6. CASE flag = 0
    BY <2>1, <2>3, <2>4, <2>5, <2>6, MarkerEnds
  <2>7. CASE flag = 1
    BY <2>1, <2>3, <2>4, <2>5, <2>7, MarkerEnds
  <2> QED BY <2>6, <2>7
<1> HIDE DEF one, two, all, word
<1>8. Runs("read", Started(o), one, Amid(one, o))
  <2>1. StepOf("read", Started(o), "%") = Amid(one, o)
    BY <1>5 DEF StepOf
  <2> QED BY <2>1, RunsOne DEF one
<1>9. Runs("read", Started(o), two, Amid(two, o))
  BY <1>1, <1>3, <1>4, <1>6, <1>8, ReadsOne
<1>10. Runs("read", Started(o), all, Over(o, flag))
  BY <1>1, <1>3, <1>4, <1>7, <1>9, ReadsOne
<1> QED BY <1>2, <1>10

\* The whole of an answer: all of the text, and then the flag.
LEMMA FrameReads ==
  ASSUME WireAssumption, NEW body \in Seq(Byte), 2 * Len(body) < ReplyMax, NEW flag \in {0, 1}
  PROVE  Frame(body, flag) # <<>> /\ Reads(Frame(body, flag), Over(Text(body), flag))
<1> DEFINE s == FoldLeft(CopyByte, AtStart(Header), body)
           text == IF body = <<>> THEN Header ELSE Closed(s.buf)
           mark == Marker(flag)
<1>1. Text(body) \in Seq(Byte)
  BY TextType
<1>2. Reads(text, Started(Text(body))) /\ Len(text) <= Cap /\ Cap \in Int
  <2>0. Cap \in Int /\ Len(Header) = 3 /\ 3 <= Cap
    <3>1. Len(Header) = 3
      BY DEF Header
    <3>2. TailReserve \in Nat /\ ReplyMax \in Nat /\ 4 * (3 + TailReserve + 1) <= ReplyMax
      BY <3>1 DEF WireAssumption
    <3> QED BY <3>1, <3>2 DEF Cap
  <2>1. CASE body = <<>>
    <3>1. Reads(Header, Started(Text(body)))
      BY <2>1, HeaderReads DEF Text
    <3> QED BY <2>0, <2>1, <3>1
  <2>2. CASE body # <<>>
    <3>0. /\ s.buf \in Seq(Byte) /\ Len(s.buf) < Cap
          /\ Reads(Append(s.buf, "\n"), Started(Append(body, "\n")))
      BY <2>2, TextReads
    <3> HIDE DEF s
    <3>1. Closed(s.buf) = Append(s.buf, "\n")
      BY <3>0 DEF Closed
    <3>2. Text(body) = Append(body, "\n")
      BY <2>2 DEF Text
    <3>3. Len(Append(s.buf, "\n")) = Len(s.buf) + 1 /\ Len(s.buf) \in Nat
      BY <3>0, LenProperties
    <3> QED BY <2>0, <2>2, <3>0, <3>1, <3>2, <3>3
  <2> QED BY <2>1, <2>2
<1>3. mark \in Seq(Byte) /\ Len(mark) = 3 /\ Runs("read", Started(Text(body)), mark, Over(Text(body), flag))
  BY <1>1, MarkerReads
<1>4. Frame(body, flag) = IF Len(text) + Len(mark) >= ReplyMax THEN <<>> ELSE text \o mark
  BY DEF Frame, AtStart
<1>5. Len(Marker(0)) = 3
  BY DEF Marker
<1> HIDE DEF text, mark
<1>6. text \in Seq(Byte) /\ Runs("read", ReadStart, text, Started(Text(body))) /\ Len(text) \in Nat
  BY <1>2, LenProperties DEF Reads
<1>7. Len(text) + Len(mark) < ReplyMax
  <2>1. TailReserve \in Nat /\ ReplyMax \in Nat /\ 3 < TailReserve
    BY <1>5 DEF WireAssumption
  <2> QED BY <1>2, <1>3, <1>6, <2>1 DEF Cap
<1>8. Frame(body, flag) = text \o mark
  BY <1>3, <1>4, <1>6, <1>7, WireAssumption DEF WireAssumption
<1>9. text \o mark \in Seq(Byte) /\ Len(text \o mark) = Len(text) + Len(mark)
  BY <1>3, <1>6, ConcatProperties
<1>10. Runs("read", ReadStart, text \o mark, Over(Text(body), flag))
  BY <1>3, <1>6, RunsConcat
<1>11. text \o mark # <<>>
  BY <1>3, <1>6, <1>9, EmptySeq
<1> QED BY <1>8, <1>9, <1>10, <1>11 DEF Reads

-----------------------------------------------------------------------------
(***************************************************************************)
(* Types                                                                   *)
(***************************************************************************)

\* The first answer is of a body that fits half a reply.
AnswerOK ==
  answer = <<>> \/ \E b \in Seq(Byte), g \in {0, 1} :
                     answer = <<[body |-> b, flag |-> g]>> /\ 2 * Len(b) < ReplyMax

TypeInv == TypeOK /\ AnswerOK

\* A reply is the first or changes no answer, and part of a frame is written.
LEMMA ReplyWrites ==
  ASSUME WireAssumption, TypeInv, NEW b \in Bodies \cup {TooMany, TooLong}, NEW g \in {0, 1}, Reply(b, g)
  PROVE  /\ AnswerOK' /\ Len(answer') <= 1 /\ toClient' \in Seq(Byte) /\ whole' \in BOOLEAN
         /\ b \in Seq(Byte) /\ 2 * Len(b) < ReplyMax
         /\ answer = <<>> => answer' = <<[body |-> b, flag |-> g]>>
         /\ answer' # <<>>
         /\ \E n \in 0 .. Len(Frame(b, g)) : toClient' = toClient \o SubSeq(Frame(b, g), 1, n)
<1> DEFINE first == <<[body |-> b, flag |-> g]>>
           frame == Frame(b, g)
<1>1. b \in Seq(Byte) /\ 2 * Len(b) < ReplyMax
  BY DEF WireAssumption
<1>2. frame \in Seq(Byte)
  BY <1>1, FrameReads DEF Reads
<1>3. Len(frame) \in Nat
  BY <1>2, LenProperties
<1>4. answer' = IF answer = <<>> THEN first ELSE answer
  BY DEF Reply
<1>5. Len(first) = 1 /\ first # <<>> /\ Len(<<>>) = 0
  OBVIOUS
<1> HIDE DEF frame
<1>6. PICK n \in IF WriteMayBlock THEN 0 .. Len(frame) ELSE {Len(frame)} :
        toClient' = toClient \o SubSeq(frame, 1, n) /\ whole' = (whole \/ n = Len(frame))
  BY DEF Reply, frame
<1>7. n \in 0 .. Len(frame)
  BY <1>3, <1>6
<1>8. toClient' \in Seq(Byte)
  <2>1. SubSeq(frame, 1, n) \in Seq(Byte)
    BY <1>2, <1>7, Segments
  <2>2. toClient \in Seq(Byte)
    BY DEF TypeInv, TypeOK
  <2> QED BY <1>6, <2>1, <2>2, ConcatProperties
<1>9. whole' \in BOOLEAN
  BY <1>6
<1>10. AnswerOK' /\ Len(answer') <= 1 /\ answer' # <<>>
  <2>1. CASE answer = <<>>
    <3>1. answer' = first
      BY <1>4, <2>1
    <3> QED BY <1>1, <1>5, <3>1 DEF AnswerOK
  <2>2. CASE answer # <<>>
    <3>1. answer' = answer
      BY <1>4, <2>2
    <3> QED BY <2>2, <3>1 DEF AnswerOK, TypeInv, TypeOK
  <2> QED BY <2>1, <2>2
<1>11. answer = <<>> => answer' = first
  BY <1>4
<1> QED BY <1>1, <1>6, <1>7, <1>8, <1>9, <1>10, <1>11 DEF frame

\* What a read of the server writes back is at most one reply.
Writes == \E b \in Bodies \cup {TooMany, TooLong}, g \in {0, 1} : Reply(b, g)

LEMMA LineWrites ==
  ASSUME NEW line, TakeLine(line)
  PROVE  (Writes \/ NoReply) /\ (got' = got \/ got' = Split(StripCr(line)))
<1> DEFINE argv == Split(StripCr(line))
<1>1. CASE Len(argv) > MaxArgv
  <2>1. Reply(TooMany, 1) /\ got' = got
    BY <1>1 DEF TakeLine
  <2> QED BY <2>1 DEF Writes
<1>2. CASE ~(Len(argv) > MaxArgv) /\ argv = <<>>
  BY <1>2 DEF TakeLine
<1>3. CASE ~(Len(argv) > MaxArgv) /\ argv # <<>>
  <2>1. got' = argv /\ \E b \in Bodies, flag \in {0, 1} : Reply(b, flag)
    BY <1>3 DEF TakeLine
  <2> QED BY <2>1 DEF Writes
<1> QED BY <1>1, <1>2, <1>3

LEMMA WritesTypes ==
  ASSUME WireAssumption, TypeInv, Writes \/ NoReply
  PROVE  AnswerOK' /\ Len(answer') <= 1 /\ toClient' \in Seq(Byte) /\ whole' \in BOOLEAN
<1>1. CASE Writes
  <2>1. PICK b \in Bodies \cup {TooMany, TooLong}, g \in {0, 1} : Reply(b, g)
    BY <1>1 DEF Writes
  <2> QED BY <2>1, ReplyWrites
<1>2. CASE NoReply
  BY <1>2 DEF NoReply, TypeInv, TypeOK, AnswerOK
<1> QED BY <1>1, <1>2

\* One read of control_client_handler, by what it leaves in the buffer.
LEMMA ServerReadCases ==
  ASSUME WireAssumption, TypeInv, ServerRead
  PROVE  \E n \in 1 .. Len(toServer), text \in Seq(Byte) :
           /\ text = inbuf \o SubSeq(toServer, 1, n)
           /\ SubSeq(toServer, 1, n) \in Seq(Byte) /\ Len(text) = Len(inbuf) + n
           /\ Len(text) <= LineMax
           /\ toServer' = SubSeq(toServer, n + 1, Len(toServer))
           /\ \/ /\ Last(text) = "\n" /\ inbuf' = <<>> /\ oversize' = FALSE
                 /\ IF oversize THEN NoReply /\ UNCHANGED got ELSE TakeLine(Front(text))
              \/ /\ Last(text) # "\n" /\ Len(text) = LineMax
                 /\ inbuf' = <<>> /\ oversize' = TRUE /\ Reply(TooLong, 1) /\ UNCHANGED got
              \/ /\ Last(text) # "\n" /\ Len(text) < LineMax
                 /\ inbuf' = text /\ NoReply /\ UNCHANGED <<oversize, got>>
<1>1. /\ toServer \in Seq(Byte) /\ inbuf \in Seq(Byte) /\ Len(toServer) \in Nat
      /\ Len(inbuf) \in Nat /\ LineMax \in Nat
  BY LenProperties DEF TypeInv, TypeOK, WireAssumption
<1>2. PICK n \in 1 .. Len(toServer) :
        LET text == inbuf \o SubSeq(toServer, 1, n)
        IN /\ Len(text) <= LineMax
           /\ toServer' = SubSeq(toServer, n + 1, Len(toServer))
           /\ IF Last(text) = "\n"
                THEN /\ inbuf' = <<>> /\ oversize' = FALSE
                     /\ IF oversize THEN NoReply /\ UNCHANGED got ELSE TakeLine(Front(text))
              ELSE IF Filled(text)
                THEN inbuf' = <<>> /\ oversize' = TRUE /\ Reply(TooLong, 1) /\ UNCHANGED got
              ELSE inbuf' = text /\ NoReply /\ UNCHANGED <<oversize, got>>
  BY DEF ServerRead
<1> DEFINE piece == SubSeq(toServer, 1, n)
           text == inbuf \o piece
<1>3. n \in 0 .. Len(toServer)
  BY <1>1
<1>4. piece \in Seq(Byte) /\ Len(piece) = n
  BY <1>1, <1>3, Segments
<1>5. text \in Seq(Byte) /\ Len(text) = Len(inbuf) + n
  <2> HIDE DEF piece
  <2> QED BY <1>1, <1>4, ConcatProperties
<1>6. /\ Len(text) <= LineMax
      /\ toServer' = SubSeq(toServer, n + 1, Len(toServer))
      /\ IF Last(text) = "\n"
           THEN /\ inbuf' = <<>> /\ oversize' = FALSE
                /\ IF oversize THEN NoReply /\ UNCHANGED got ELSE TakeLine(Front(text))
         ELSE IF Filled(text)
           THEN inbuf' = <<>> /\ oversize' = TRUE /\ Reply(TooLong, 1) /\ UNCHANGED got
         ELSE inbuf' = text /\ NoReply /\ UNCHANGED <<oversize, got>>
  BY <1>2
<1>7. text = inbuf \o SubSeq(toServer, 1, n) /\ SubSeq(toServer, 1, n) \in Seq(Byte)
  BY <1>4
<1> HIDE DEF text, piece
<1>8. Len(text) < LineMax \/ Len(text) = LineMax
  <2>1. Len(text) \in Nat /\ Len(text) <= LineMax
    BY <1>5, <1>6, LenProperties
  <2> QED BY <1>1, <2>1
<1> USE <1>5
<1> WITNESS n \in 1 .. Len(toServer), text \in Seq(Byte)
<1>9. CASE Last(text) = "\n"
  BY <1>5, <1>6, <1>7, <1>9
<1>10. CASE Last(text) # "\n" /\ Len(text) = LineMax
  BY <1>5, <1>6, <1>7, <1>10 DEF Filled
<1>11. CASE Last(text) # "\n" /\ Len(text) < LineMax
  <2>1. Len(text) # LineMax
    BY <1>1, <1>5, <1>11
  <2> QED BY <1>5, <1>6, <1>7, <1>11, <2>1 DEF Filled
<1> QED BY <1>8, <1>9, <1>10, <1>11

LEMMA CutInTwo ==
  ASSUME NEW S, NEW x \in Seq(S), NEW n \in 0 .. Len(x)
  PROVE  /\ SubSeq(x, 1, n) \in Seq(S) /\ SubSeq(x, n + 1, Len(x)) \in Seq(S)
         /\ Len(SubSeq(x, n + 1, Len(x))) = Len(x) - n
         /\ x = SubSeq(x, 1, n) \o SubSeq(x, n + 1, Len(x))
<1> DEFINE u == SubSeq(x, 1, n)
           v == SubSeq(x, n + 1, Len(x))
           w == u \o v
           m == Len(x)
<1>1. m \in Nat /\ n \in Nat /\ n <= m /\ \A i \in 1 .. m : x[i] \in S
  BY LenProperties, ElementOfSeq
<1>2. u \in Seq(S) /\ Len(u) = n /\ \A i \in 1 .. n : u[i] = x[i]
  <2>1. \A i \in 1 .. n : x[i] \in S
    BY <1>1
  <2>2. u \in Seq(S) /\ Len(u) = n
    BY Segments
  <2>3. \A i \in 1 .. n - 1 + 1 : u[i] = x[1 + i - 1]
    BY <1>1, <2>1, SubSeqProperties
  <2>4. \A i \in 1 .. n : i \in 1 .. n - 1 + 1 /\ 1 + i - 1 = i
    BY <1>1
  <2> QED BY <2>2, <2>3, <2>4
<1>3. v \in Seq(S) /\ Len(v) = m - n /\ \A i \in 1 .. m - n : v[i] = x[n + i]
  <2>1. \A i \in n + 1 .. m : x[i] \in S
    BY <1>1
  <2>2. /\ v \in Seq(S) /\ Len(v) = IF n + 1 <= m THEN m - (n + 1) + 1 ELSE 0
        /\ \A i \in 1 .. m - (n + 1) + 1 : v[i] = x[(n + 1) + i - 1]
    BY <1>1, <2>1, SubSeqProperties
  <2>3. \A i \in 1 .. m - n : i \in 1 .. m - (n + 1) + 1 /\ (n + 1) + i - 1 = n + i
    BY <1>1
  <2>4. Len(v) = m - n
    BY <1>1, <2>2
  <2> QED BY <2>2, <2>3, <2>4
<1> HIDE DEF u, v, m
<1>4. w \in Seq(S) /\ Len(w) = m /\ \A i \in 1 .. m : w[i] = IF i <= n THEN u[i] ELSE v[i - n]
  <2>1. /\ w \in Seq(S) /\ Len(w) = Len(u) + Len(v)
        /\ \A i \in 1 .. Len(u) + Len(v) : w[i] = IF i <= Len(u) THEN u[i] ELSE v[i - Len(u)]
    BY <1>2, <1>3, ConcatProperties
  <2> HIDE DEF w
  <2>2. Len(u) + Len(v) = m
    BY <1>1, <1>2, <1>3
  <2> QED BY <1>2, <2>1, <2>2
<1> HIDE DEF w
<1>5. ASSUME NEW i \in 1 .. m PROVE w[i] = x[i]
  <2>1. CASE i <= n
    <3>1. i \in 1 .. n
      BY <1>1, <2>1
    <3> QED BY <1>2, <1>4, <2>1, <3>1
  <2>2. CASE ~(i <= n)
    <3>1. i - n \in 1 .. m - n /\ n + (i - n) = i
      BY <1>1, <2>2
    <3>2. w[i] = v[i - n] /\ v[i - n] = x[n + (i - n)]
      BY <1>3, <1>4, <2>2, <3>1
    <3> QED BY <3>1, <3>2
  <2> QED BY <2>1, <2>2
<1>6. w = x
  BY <1>4, <1>5, SeqEqual DEF m
<1> QED BY <1>2, <1>3, <1>6 DEF u, v, w, m

Types ==
  /\ command \in Commands /\ status \in -2 .. 2
  /\ toServer \in Seq(Byte) /\ toClient \in Seq(Byte) /\ inbuf \in Seq(Byte)
  /\ buf \in Seq(Byte) /\ out \in Seq(Byte)
  /\ Len(inbuf) < LineMax /\ Len(buf) <= ClientMax
  /\ oversize \in BOOLEAN /\ whole \in BOOLEAN /\ closed \in BOOLEAN /\ inFrame \in BOOLEAN
  /\ Len(answer) <= 1

LEMMA TypesAre == TypeOK <=> Types
BY DEF TypeOK, Types

LEMMA JoinType ==
  ASSUME WireAssumption, command \in Commands
  PROVE  /\ command \in Seq(Seq(Byte)) /\ command # <<>>
         /\ Join(command) \in Seq(InLine) /\ Join(command) \in Seq(Byte)
         /\ Append(Join(command), "\n") \in Seq(Byte)
<1>1. command \in Seq(Seq(Byte)) /\ command # <<>>
  BY DEF WireAssumption
<1>2. Join(command) \in Seq(InLine)
  BY <1>1, PiecesParts
<1>3. \A x \in Seq(InLine) : x \in Seq(Byte)
  <2>1. InLine \subseteq Byte
    BY DEF InLine
  <2> QED BY <2>1, SeqMonotonic
<1>4. "\n" \in Byte
  BY DEF Byte
<1>5. Append(Join(command), "\n") \in Seq(Byte)
  BY <1>2, <1>3, <1>4, AppendProperties
<1> QED BY <1>1, <1>2, <1>3, <1>5

\* What termctl has read of an answer: its variables as a state of the reader.
Flag  == IF status \in {0, 1} THEN status ELSE -1
Shown == [line |-> buf, inFrame |-> inFrame, out |-> out, flag |-> Flag]

\* One read of read_response.
LEMMA ClientReads ==
  ASSUME WireAssumption, TypeInv, ClientRead
  PROVE  \E x \in Seq(Byte) :
           /\ toClient' \in Seq(Byte) /\ toClient = x \o toClient' /\ Runs("read", Shown, x, Shown')
           /\ Shown' \in ReadState /\ Len(buf') <= ClientMax /\ status' \in {0, 1, 2, Waiting}
<1>0. Types
  BY TypesAre DEF TypeInv
<1>1. /\ toClient \in Seq(Byte) /\ buf \in Seq(Byte) /\ out \in Seq(Byte) /\ inFrame \in BOOLEAN
      /\ Len(toClient) \in Nat /\ Len(buf) \in Nat /\ ClientMax \in Nat
  BY <1>0, LenProperties DEF Types, WireAssumption
<1>2. status = Waiting /\ Flag = -1
  BY DEF ClientRead, Waiting, Flag
<1> DEFINE start == [line |-> buf, inFrame |-> inFrame, out |-> out, flag |-> -1]
           read(x) == FoldLeft(ReadByte, start, x)
<1>3. PICK n \in 1 .. Len(toClient) :
        /\ Len(buf) + n <= ClientMax
        /\ buf' = read(SubSeq(toClient, 1, n)).line
        /\ inFrame' = read(SubSeq(toClient, 1, n)).inFrame
        /\ out' = read(SubSeq(toClient, 1, n)).out
        /\ status' = IF read(SubSeq(toClient, 1, n)).flag >= 0 THEN read(SubSeq(toClient, 1, n)).flag
                     ELSE IF Len(read(SubSeq(toClient, 1, n)).line) = ClientMax THEN 2 ELSE Waiting
        /\ toClient' = SubSeq(toClient, n + 1, Len(toClient))
  BY DEF ClientRead
<1>4. toClient' = SubSeq(toClient, n + 1, Len(toClient))
  BY <1>3
<1> DEFINE x == SubSeq(toClient, 1, n)
           s == read(x)
<1>5. n \in 0 .. Len(toClient) /\ n \in Nat
  BY <1>1
<1>6. x \in Seq(Byte) /\ Len(x) = n
  BY <1>1, <1>5, Segments
<1>7. start \in ReadState /\ start.line = buf
  BY <1>1 DEF ReadState
<1>8. Shown = start
  BY <1>2 DEF Shown
<1> HIDE DEF x, start
<1>9. Len(x) \in Nat /\ DOMAIN x = 1 .. Len(x)
  BY <1>6, LenProperties
<1>10. Runs("read", start, x, s)
  BY <1>9, ReadRuns
<1>11. /\ buf' = s.line /\ inFrame' = s.inFrame /\ out' = s.out
       /\ status' = IF s.flag >= 0 THEN s.flag ELSE IF Len(s.line) = ClientMax THEN 2 ELSE Waiting
  BY <1>3 DEF x
<1> HIDE DEF s
<1>12. s \in ReadState /\ Len(s.line) <= Len(buf) + n
  BY <1>6, <1>7, <1>10, ReadKeeps
<1>13. Shown' = s /\ status' \in {0, 1, 2, Waiting}
  <2>1. s = [line |-> s.line, inFrame |-> s.inFrame, out |-> s.out, flag |-> s.flag] /\ s.flag \in {-1, 0, 1}
    BY <1>12 DEF ReadState
  <2>2. CASE s.flag = -1
    <3>1. status' \in {2, -1}
      BY <1>11, <2>2 DEF Waiting
    <3>2. Flag' = -1
      BY <3>1 DEF Flag
    <3> QED BY <1>11, <2>1, <2>2, <3>1, <3>2 DEF Shown, Waiting
  <2>3. CASE s.flag \in {0, 1}
    <3>1. status' = s.flag
      BY <1>11, <2>3
    <3>2. Flag' = s.flag
      BY <2>3, <3>1 DEF Flag
    <3> QED BY <1>11, <2>1, <2>3, <3>1, <3>2 DEF Shown
  <2> QED BY <2>1, <2>2, <2>3
<1>14. Len(buf') <= ClientMax
  <2>1. Len(s.line) \in Nat
    BY <1>12, LenProperties DEF ReadState
  <2> QED BY <1>1, <1>3, <1>5, <1>11, <1>12, <2>1
<1>15. toClient' \in Seq(Byte) /\ toClient = x \o toClient'
  BY <1>1, <1>4, <1>5, CutInTwo DEF x
<1> QED BY <1>6, <1>8, <1>10, <1>12, <1>13, <1>14, <1>15

LEMMA TypeStep ==
  ASSUME WireAssumption, TypeInv, Next
  PROVE  TypeInv'
<1>0. Types /\ AnswerOK
  BY TypesAre DEF TypeInv
<1> SUFFICES Types' /\ AnswerOK'
  BY DEF TypeInv, TypeOK, Types
<1>1. CASE Send
  <2>1. Append(Join(command), "\n") \in Seq(Byte)
    BY <1>0, JoinType DEF Types
  <2>2. toServer' \in Seq(Byte) /\ status' \in -2 .. 2
    <3>1. status' = 2 \/ status' = -1
      BY <1>1 DEF Send, Waiting
    <3>2. toServer' = toServer \/ toServer' = Append(Join(command), "\n")
      BY <1>1 DEF Send
    <3>3. toServer \in Seq(Byte)
      BY <1>0 DEF Types
    <3>4. toServer' \in Seq(Byte)
      BY <2>1, <3>2, <3>3, Zenon
    <3> QED BY <3>1, <3>4
  <2> QED BY <1>0, <1>1, <2>2 DEF Send, Types, AnswerOK, clientVars, serverVars
<1>2. CASE ClientRead
  <2>1. Shown' \in ReadState /\ Len(buf') <= ClientMax /\ status' \in {0, 1, 2, Waiting} /\ toClient' \in Seq(Byte)
    BY <1>2, ClientReads
  <2>2. buf' \in Seq(Byte) /\ out' \in Seq(Byte) /\ inFrame' \in BOOLEAN
    BY <2>1 DEF Shown, ReadState
  <2>3. status' \in -2 .. 2
    BY <2>1 DEF Waiting
  <2>4. UNCHANGED <<command, toServer, inbuf, oversize, got, answer, whole, closed>>
    BY <1>2 DEF ClientRead, serverVars
  <2> QED BY <1>0, <2>1, <2>2, <2>3, <2>4 DEF Types, AnswerOK
<1>3. CASE ClientEof
  BY <1>0, <1>3 DEF ClientEof, Types, AnswerOK, clientVars, serverVars
<1>4. CASE ServerRead
  <2>1. PICK n \in 1 .. Len(toServer), text \in Seq(Byte) :
           /\ toServer' = SubSeq(toServer, n + 1, Len(toServer))
           /\ \/ /\ inbuf' = <<>> /\ oversize' = FALSE
                 /\ IF oversize THEN NoReply /\ UNCHANGED got ELSE TakeLine(Front(text))
              \/ /\ inbuf' = <<>> /\ oversize' = TRUE /\ Reply(TooLong, 1)
              \/ /\ Len(text) < LineMax
                 /\ inbuf' = text /\ NoReply /\ UNCHANGED <<oversize, got>>
    BY <1>4, ServerReadCases
  <2>2. toServer' \in Seq(Byte)
    <3>1. toServer \in Seq(Byte) /\ Len(toServer) \in Nat
      BY <1>0, LenProperties DEF Types
    <3>2. n \in 0 .. Len(toServer)
      BY <3>1
    <3> QED BY <2>1, <3>1, <3>2, CutInTwo
  <2>3. Writes \/ NoReply
    <3>1. TooLong \in Bodies \cup {TooMany, TooLong} /\ 1 \in {0, 1}
      OBVIOUS
    <3>2. Reply(TooLong, 1) => Writes
      BY <3>1 DEF Writes
    <3> QED BY <2>1, <3>2, LineWrites
  <2>4. AnswerOK' /\ Len(answer') <= 1 /\ toClient' \in Seq(Byte) /\ whole' \in BOOLEAN
    BY <2>3, WritesTypes
  <2>5. inbuf' \in Seq(Byte) /\ Len(inbuf') < LineMax /\ oversize' \in BOOLEAN
    <3>1. <<>> \in Seq(Byte) /\ Len(<<>>) < LineMax
      BY DEF WireAssumption
    <3> QED BY <1>0, <2>1, <3>1 DEF Types
  <2>6. UNCHANGED <<command, status, buf, inFrame, out, closed>>
    BY <1>4 DEF ServerRead, clientVars
  <2> QED BY <1>0, <2>2, <2>4, <2>5, <2>6 DEF Types
<1>5. CASE ServerCloses
  BY <1>0, <1>5 DEF ServerCloses, Types, AnswerOK, clientVars
<1> QED BY <1>1, <1>2, <1>3, <1>4, <1>5 DEF Next, Client

LEMMA TypeInit == ASSUME WireAssumption, Init PROVE TypeInv
<1>1. LineMax \in Nat \ {0} /\ ClientMax \in Nat
  BY DEF WireAssumption
<1>2. PICK empty : empty = <<>>
  OBVIOUS
<1>3. empty \in Seq(Byte) /\ Len(empty) < LineMax /\ Len(empty) <= ClientMax /\ Len(empty) <= 1
  BY <1>1, <1>2
<1>4. /\ command \in Commands /\ status = -2 /\ toServer = empty /\ toClient = empty /\ inbuf = empty
      /\ oversize = FALSE /\ answer = empty /\ whole = FALSE /\ closed \in BOOLEAN
      /\ buf = empty /\ inFrame = FALSE /\ out = empty
  BY <1>2 DEF Init, Fresh
<1>5. status \in -2 .. 2 /\ FALSE \in BOOLEAN
  BY <1>4
<1>6. Types
  BY <1>3, <1>4, <1>5, Zenon DEF Types
<1>7. AnswerOK
  BY DEF Init, AnswerOK
<1> QED BY <1>6, <1>7, TypesAre DEF TypeInv

LEMMA TypeSameKeeps == ASSUME TypeInv, UNCHANGED vars PROVE TypeInv'
<1>1. Types' <=> Types
  BY DEF vars, clientVars, serverVars, Types
<1>2. AnswerOK' <=> AnswerOK
  BY DEF vars, clientVars, serverVars, AnswerOK
<1> QED BY <1>1, <1>2 DEF TypeInv, TypeOK, Types

\* The type invariant of one command of termctl.
THEOREM TypeCorrect == Spec => []TypeOK
<1>1. WireAssumption /\ Init => TypeInv
  BY TypeInit
<1>2. WireAssumption /\ TypeInv /\ [Next]_vars => TypeInv'
  BY TypeStep, TypeSameKeeps
<1>3. TypeInv => TypeOK
  BY DEF TypeInv
<1> QED BY <1>1, <1>2, <1>3, WireAssumption, PTL DEF Spec

-----------------------------------------------------------------------------
(***************************************************************************)
(* The line on its way                                                     *)
(***************************************************************************)

Sent == Append(Join(command), "\n")

Fits == Len(Join(command)) < ClientMax - 1

\* The server has read n bytes of the line.
Delivered(n) ==
  /\ toServer = SubSeq(Sent, n + 1, Len(Sent))
  /\ n < Len(Sent) => got = None /\ (oversize = FALSE => inbuf = SubSeq(Sent, 1, n))
  /\ n = Len(Sent) => got = None \/ got = Split(StripCr(Join(command)))

\* What it has answered by then: nothing, or that the line is too long.
Answered(n) ==
  n < Len(Sent) => /\ oversize = FALSE => answer = <<>>
                   /\ oversize = TRUE => n = LineMax + Len(inbuf)

\* Nothing was sent and nothing done.
Untouched ==
  /\ toServer = <<>> /\ inbuf = <<>> /\ oversize = FALSE /\ got = None /\ answer = <<>>

ServerInv ==
  /\ status = Fresh => Untouched
  /\ Untouched \/ (Fits /\ \E n \in 0 .. Len(Sent) : Delivered(n) /\ Answered(n))

LEMMA SentFacts ==
  ASSUME WireAssumption, command \in Commands
  PROVE  /\ Sent \in Seq(Byte) /\ Len(Join(command)) \in Nat /\ Len(Sent) = Len(Join(command)) + 1
         /\ Sent[Len(Sent)] = "\n" /\ \A i \in 1 .. Len(Join(command)) : Sent[i] # "\n"
         /\ Front(Sent) = Join(command)
<1> DEFINE line == Join(command)
           m == Len(line)
<1>1. line \in Seq(InLine) /\ line \in Seq(Byte)
  BY JoinType
<1>2. m \in Nat /\ \A i \in 1 .. m : line[i] \in InLine
  <2> HIDE DEF line
  <2> QED BY <1>1, LenProperties, ElementOfSeq
<1>3. "\n" \in Byte
  BY DEF Byte
<1>4. Sent = Append(line, "\n")
  BY DEF Sent
<1> HIDE DEF line, m
<1>5. Sent \in Seq(Byte) /\ Len(Sent) = Len(line) + 1
      /\ (\A i \in 1 .. Len(line) : Sent[i] = line[i]) /\ Sent[Len(line) + 1] = "\n"
  BY <1>1, <1>3, <1>4
<1>6. \A i \in 1 .. m : Sent[i] # "\n"
  <2>1. \A c \in InLine : c # "\n"
    BY DEF InLine
  <2> QED BY <1>2, <1>5, <2>1 DEF m
<1>7. Front(Sent) = line
  <2>1. Front(Sent) = SubSeq(Sent, 1, Len(Sent) - 1)
    BY DEF Front
  <2>2. Len(Sent) - 1 = m /\ m \in 0 .. Len(Sent)
    BY <1>2, <1>5 DEF m
  <2>3. SubSeq(Sent, 1, m) \in Seq(Byte) /\ Len(SubSeq(Sent, 1, m)) = m
    BY <1>5, <2>2, Segments
  <2>4. \A i \in 1 .. m : SubSeq(Sent, 1, m)[i] = line[i]
    BY <1>2, <1>5 DEF m
  <2>5. SubSeq(Sent, 1, m) = line
    BY <1>1, <2>3, <2>4, SeqEqual DEF m
  <2> QED BY <2>1, <2>2, <2>5
<1> QED BY <1>2, <1>5, <1>6, <1>7 DEF line, m

LEMMA SplitSame ==
  ASSUME NEW S, NEW a \in Seq(S), NEW b \in Seq(S), NEW c \in Seq(S), NEW d \in Seq(S),
         a \o b = c \o d, Len(a) = Len(c), Len(b) = Len(d)
  PROVE  a = c /\ b = d
<1> DEFINE x == a \o b
           n == Len(a)
           m == Len(b)
<1>1. n \in Nat /\ m \in Nat
  BY LenProperties
<1>2. /\ \A i \in 1 .. n + m : x[i] = IF i <= n THEN a[i] ELSE b[i - n]
      /\ \A i \in 1 .. n + m : x[i] = IF i <= n THEN c[i] ELSE d[i - n]
  <2>1. \A i \in 1 .. Len(c) + Len(d) : (c \o d)[i] = IF i <= Len(c) THEN c[i] ELSE d[i - Len(c)]
    BY ConcatProperties
  <2> QED BY <2>1, ConcatProperties
<1> HIDE DEF x
<1>3. ASSUME NEW i \in 1 .. n PROVE a[i] = c[i]
  <2>1. i \in 1 .. n + m /\ i <= n
    BY <1>1
  <2> QED BY <1>2, <2>1
<1>4. ASSUME NEW i \in 1 .. m PROVE b[i] = d[i]
  <2>1. i + n \in 1 .. n + m /\ ~(i + n <= n) /\ (i + n) - n = i
    BY <1>1
  <2> QED BY <1>2, <2>1
<1>5. a = c
  BY <1>3, SeqEqual
<1>6. b = d
  BY <1>4, SeqEqual
<1> QED BY <1>5, <1>6

\* The next piece of what is left.
Onward(x, n, rest, k) ==
  /\ n + k \in 1 .. Len(x)
  /\ SubSeq(rest, k + 1, Len(rest)) = SubSeq(x, (n + k) + 1, Len(x))
  /\ SubSeq(rest, 1, k) \in Seq(Byte) /\ Len(SubSeq(rest, 1, k)) = k
  /\ SubSeq(rest, 1, k)[k] = x[n + k]
  /\ SubSeq(x, 1, n) \o SubSeq(rest, 1, k) = SubSeq(x, 1, n + k)

LEMMA NextPiece ==
  ASSUME NEW x \in Seq(Byte), NEW n \in 0 .. Len(x), NEW rest, rest = SubSeq(x, n + 1, Len(x)),
         NEW k \in 1 .. Len(rest)
  PROVE  Onward(x, n, rest, k)
<1> DEFINE m == Len(x)
           u == SubSeq(x, 1, n)
           p == SubSeq(rest, 1, k)
           q == SubSeq(rest, k + 1, Len(rest))
<1>1. m \in Nat /\ n \in Nat /\ n <= m /\ \A i \in 1 .. m : x[i] \in Byte
  BY LenProperties, ElementOfSeq
<1>2. rest \in Seq(Byte) /\ Len(rest) = m - n /\ u \in Seq(Byte) /\ Len(u) = n
  BY CutInTwo, Segments
<1>3. \A i \in 1 .. m - n : rest[i] = x[n + i]
  <2>1. \A i \in n + 1 .. m : x[i] \in Byte
    BY <1>1
  <2>2. \A i \in 1 .. m - (n + 1) + 1 : rest[i] = x[(n + 1) + i - 1]
    BY <1>1, <2>1, SubSeqProperties
  <2>3. \A i \in 1 .. m - n : i \in 1 .. m - (n + 1) + 1 /\ (n + 1) + i - 1 = n + i
    BY <1>1
  <2> QED BY <2>2, <2>3
<1>4. k \in Nat /\ k >= 1 /\ k \in 0 .. Len(rest) /\ n + k \in 1 .. m /\ n + k \in 0 .. m /\ k \in 1 .. m - n
  BY <1>1, <1>2
<1>5. p \in Seq(Byte) /\ Len(p) = k /\ q \in Seq(Byte) /\ Len(q) = m - (n + k) /\ rest = p \o q
  <2>1. Len(q) = Len(rest) - k
    BY <1>2, <1>4, CutInTwo
  <2>2. Len(q) = m - (n + k)
    BY <1>1, <1>2, <1>4, <2>1
  <2> QED BY <1>2, <1>4, <2>2, CutInTwo, Segments
<1>6. p[k] = x[n + k]
  <2>1. p[k] = rest[k]
    <3> HIDE DEF p, q
    <3>0. Len(q) \in Nat
      BY <1>5, LenProperties
    <3>1. \A i \in 1 .. Len(p) + Len(q) : (p \o q)[i] = IF i <= Len(p) THEN p[i] ELSE q[i - Len(p)]
      BY <1>5, ConcatProperties
    <3>2. k \in 1 .. Len(p) + Len(q) /\ k <= Len(p)
      BY <1>4, <1>5, <3>0
    <3>3. (p \o q)[k] = p[k]
      BY <3>1, <3>2
    <3> QED BY <1>5, <3>3
  <2> QED BY <1>3, <1>4, <2>1
<1> DEFINE y == SubSeq(x, 1, n + k)
           z == SubSeq(x, (n + k) + 1, m)
<1>7. y \in Seq(Byte) /\ Len(y) = n + k /\ z \in Seq(Byte) /\ Len(z) = m - (n + k) /\ x = y \o z
  BY <1>4, CutInTwo, Segments
<1>8. x = u \o rest
  BY CutInTwo
<1> HIDE DEF u, p, q, y, z
<1>9. x = (u \o p) \o q /\ u \o p \in Seq(Byte) /\ Len(u \o p) = n + k
  <2>0. u \o p \in Seq(Byte) /\ Len(u \o p) = Len(u) + Len(p)
    BY <1>2, <1>5, ConcatProperties
  <2>1. u \o p \in Seq(Byte) /\ Len(u \o p) = n + k
    BY <1>2, <1>5, <2>0
  <2>3. Regroups(u, p, q)
    BY <1>2, <1>5, Associates
  <2>2. (u \o p) \o q = u \o (p \o q)
    BY <2>3 DEF Regroups
  <2> QED BY <1>2, <1>5, <1>8, <2>1, <2>2
<1>10. u \o p = y /\ q = z
  BY <1>5, <1>7, <1>9, SplitSame
<1> QED BY <1>4, <1>5, <1>6, <1>10 DEF Onward, m, u, p, q, y, z

\* One read of the server on the line: it is at the end of it, or in it with
\* the buffer full or not.
LEMMA LineRead ==
  ASSUME WireAssumption, TypeInv, ServerRead, NEW n \in 0 .. Len(Sent), Delivered(n)
  PROVE  \E m \in n + 1 .. Len(Sent) :
           /\ toServer' = SubSeq(Sent, m + 1, Len(Sent))
           /\ \/ /\ m = Len(Sent) /\ inbuf' = <<>> /\ oversize' = FALSE
                 /\ IF oversize THEN NoReply /\ UNCHANGED got ELSE TakeLine(Join(command))
              \/ /\ m < Len(Sent) /\ Len(inbuf) + (m - n) = LineMax
                 /\ inbuf' = <<>> /\ oversize' = TRUE /\ Reply(TooLong, 1) /\ UNCHANGED got
              \/ /\ m < Len(Sent) /\ Len(inbuf') = Len(inbuf) + (m - n)
                 /\ (oversize = FALSE => inbuf' = SubSeq(Sent, 1, m))
                 /\ NoReply /\ UNCHANGED <<oversize, got>>
<1>1. PICK k \in 1 .. Len(toServer), text \in Seq(Byte) :
           /\ text = inbuf \o SubSeq(toServer, 1, k)
           /\ SubSeq(toServer, 1, k) \in Seq(Byte) /\ Len(text) = Len(inbuf) + k
           /\ Len(text) <= LineMax
           /\ toServer' = SubSeq(toServer, k + 1, Len(toServer))
           /\ \/ /\ Last(text) = "\n" /\ inbuf' = <<>> /\ oversize' = FALSE
                 /\ IF oversize THEN NoReply /\ UNCHANGED got ELSE TakeLine(Front(text))
              \/ /\ Last(text) # "\n" /\ Len(text) = LineMax
                 /\ inbuf' = <<>> /\ oversize' = TRUE /\ Reply(TooLong, 1) /\ UNCHANGED got
              \/ /\ Last(text) # "\n" /\ Len(text) < LineMax
                 /\ inbuf' = text /\ NoReply /\ UNCHANGED <<oversize, got>>
  BY ServerReadCases
<1> DEFINE piece == SubSeq(toServer, 1, k)
           m == n + k
<1>2. Types
  BY TypesAre DEF TypeInv
<1>3. /\ Sent \in Seq(Byte) /\ Len(Join(command)) \in Nat /\ Len(Sent) = Len(Join(command)) + 1
      /\ Sent[Len(Sent)] = "\n" /\ (\A i \in 1 .. Len(Join(command)) : Sent[i] # "\n")
      /\ Front(Sent) = Join(command)
  BY <1>2, SentFacts DEF Types
<1>4. toServer = SubSeq(Sent, n + 1, Len(Sent))
  BY DEF Delivered
<1>5. /\ m \in 1 .. Len(Sent) /\ toServer' = SubSeq(Sent, m + 1, Len(Sent))
      /\ piece \in Seq(Byte) /\ Len(piece) = k /\ piece[k] = Sent[m]
      /\ SubSeq(Sent, 1, n) \o piece = SubSeq(Sent, 1, m)
  <2>1. toServer' = SubSeq(toServer, k + 1, Len(toServer))
    BY <1>1
  <2>2. /\ n + k \in 1 .. Len(Sent)
        /\ SubSeq(toServer, k + 1, Len(toServer)) = SubSeq(Sent, (n + k) + 1, Len(Sent))
        /\ SubSeq(toServer, 1, k) \in Seq(Byte) /\ Len(SubSeq(toServer, 1, k)) = k
        /\ SubSeq(toServer, 1, k)[k] = Sent[n + k]
        /\ SubSeq(Sent, 1, n) \o SubSeq(toServer, 1, k) = SubSeq(Sent, 1, n + k)
    <3> DEFINE x == Sent
               rest == toServer
    <3>1. x \in Seq(Byte) /\ n \in 0 .. Len(x) /\ rest = SubSeq(x, n + 1, Len(x)) /\ k \in 1 .. Len(rest)
      BY <1>3, <1>4
    <3> HIDE DEF x, rest
    <3>3. Onward(x, n, rest, k)
      BY <3>1, NextPiece
    <3>2. /\ n + k \in 1 .. Len(x)
          /\ SubSeq(rest, k + 1, Len(rest)) = SubSeq(x, (n + k) + 1, Len(x))
          /\ SubSeq(rest, 1, k) \in Seq(Byte) /\ Len(SubSeq(rest, 1, k)) = k
          /\ SubSeq(rest, 1, k)[k] = x[n + k]
          /\ SubSeq(x, 1, n) \o SubSeq(rest, 1, k) = SubSeq(x, 1, n + k)
      BY <3>3 DEF Onward
    <3> QED BY <3>2 DEF x, rest
  <2> QED BY <2>1, <2>2
<1>6. /\ inbuf \in Seq(Byte) /\ Len(inbuf) \in Nat /\ k \in Nat /\ k >= 1 /\ text = inbuf \o piece
      /\ Len(text) = Len(inbuf) + k /\ n \in Nat /\ Len(Sent) \in Nat
  BY <1>1, <1>2, <1>3, LenProperties DEF Types
<1>7. m \in n + 1 .. Len(Sent) /\ m - n = k /\ m \in Nat
  <2>1. n + k <= Len(Sent)
    BY <1>5, <1>6
  <2> QED BY <1>6, <2>1
<1> HIDE DEF piece, m
<1>8. Last(text) = Sent[m]
  <2>1. Last(text) = text[Len(inbuf) + k]
    BY <1>6 DEF Last
  <2>2. text[Len(inbuf) + k] = piece[k]
    <3>1. \A i \in 1 .. Len(inbuf) + Len(piece) :
             (inbuf \o piece)[i] = IF i <= Len(inbuf) THEN inbuf[i] ELSE piece[i - Len(inbuf)]
      BY <1>5, <1>6, ConcatProperties
    <3>2. /\ Len(inbuf) + k \in 1 .. Len(inbuf) + Len(piece) /\ ~(Len(inbuf) + k <= Len(inbuf))
          /\ (Len(inbuf) + k) - Len(inbuf) = k
      BY <1>5, <1>6
    <3>3. (inbuf \o piece)[Len(inbuf) + k] = piece[k]
      BY <3>1, <3>2
    <3> QED BY <1>6, <3>3
  <2> QED BY <1>5, <2>1, <2>2
<1>9. m = Len(Sent) => Last(text) = "\n"
  BY <1>3, <1>8
<1>10. m < Len(Sent) => Last(text) # "\n"
  <2>1. m < Len(Sent) => m \in 1 .. Len(Join(command))
    BY <1>3, <1>5, <1>6, <1>7
  <2> QED BY <1>3, <1>8, <2>1
<1>11. ASSUME oversize = FALSE, n < Len(Sent) PROVE text = SubSeq(Sent, 1, m)
  <2>1. inbuf = SubSeq(Sent, 1, n)
    BY <1>11 DEF Delivered
  <2> QED BY <1>5, <1>6, <2>1
<1>12. n < Len(Sent) /\ (m = Len(Sent) \/ m < Len(Sent))
  BY <1>6, <1>7
<1>13. CASE m = Len(Sent)
  <2>1. SubSeq(Sent, 1, Len(Sent)) = Sent
    BY <1>3, Segments
  <2>2. oversize = FALSE => Front(text) = Join(command)
    BY <1>3, <1>11, <1>12, <1>13, <2>1
  <2>3. /\ inbuf' = <<>> /\ oversize' = FALSE
        /\ IF oversize THEN NoReply /\ UNCHANGED got ELSE TakeLine(Front(text))
    BY <1>1, <1>9, <1>13
  <2>4. CASE oversize = FALSE
    BY <1>5, <1>7, <1>13, <2>2, <2>3, <2>4
  <2>5. CASE oversize = TRUE
    BY <1>5, <1>7, <1>13, <2>3, <2>5
  <2> QED BY <1>2, <2>4, <2>5 DEF Types
<1>14. CASE m < Len(Sent)
  <2>1. Last(text) # "\n"
    BY <1>10, <1>14
  <2>2. Len(text) = Len(inbuf) + (m - n)
    BY <1>6, <1>7
  <2>3. CASE Len(text) = LineMax /\ inbuf' = <<>> /\ oversize' = TRUE /\ Reply(TooLong, 1) /\ UNCHANGED got
    BY <1>5, <1>7, <1>14, <2>2, <2>3
  <2>4. CASE inbuf' = text /\ NoReply /\ UNCHANGED <<oversize, got>>
    BY <1>5, <1>7, <1>11, <1>12, <1>14, <2>2, <2>4
  <2> QED BY <1>1, <2>1, <2>3, <2>4
<1> QED BY <1>12, <1>13, <1>14

\* The server's buffer is filled once at most.
LEMMA OneOverflow ==
  ASSUME WireAssumption, OneRejection, Types, Fits, NEW n \in Nat, NEW m \in Nat,
         oversize = TRUE => n = LineMax + Len(inbuf), Len(inbuf) \in Nat, LineMax \in Nat,
         m < Len(Sent), Len(inbuf) + (m - n) = LineMax
  PROVE  oversize = FALSE
<1>1. /\ Len(Join(command)) \in Nat /\ Len(Sent) = Len(Join(command)) + 1 /\ command \in Commands
  BY SentFacts DEF Types
<1>2. ClientMax \in Nat
  BY DEF WireAssumption
<1>3. Len(Join(command)) < 2 * LineMax
  BY <1>1, <1>2 DEF OneRejection, Fits
<1>4. ASSUME oversize = TRUE PROVE FALSE
  <2>1. n = LineMax + Len(inbuf)
    BY <1>4
  <2> QED BY <1>1, <1>3, <2>1
<1> QED BY <1>4 DEF Types

LEMMA ServerStep ==
  ASSUME WireAssumption, OneRejection, TypeInv, ServerInv, ServerRead
  PROVE  \E n \in 0 .. Len(Sent) : (Delivered(n) /\ Answered(n))'
<1>1. toServer # <<>> /\ UNCHANGED command
  BY DEF ServerRead
<1>2. PICK n \in 0 .. Len(Sent) : Delivered(n) /\ Answered(n)
  BY <1>1 DEF ServerInv, Untouched
<1>11. Fits
  BY <1>1 DEF ServerInv, Untouched
<1>3. Sent' = Sent /\ Join(command') = Join(command)
  BY <1>1 DEF Sent
<1>0. Types
  BY TypesAre DEF TypeInv
<1>4. PICK m \in n + 1 .. Len(Sent) :
           /\ toServer' = SubSeq(Sent, m + 1, Len(Sent))
           /\ \/ /\ m = Len(Sent) /\ inbuf' = <<>> /\ oversize' = FALSE
                 /\ IF oversize THEN NoReply /\ UNCHANGED got ELSE TakeLine(Join(command))
              \/ /\ m < Len(Sent) /\ Len(inbuf) + (m - n) = LineMax
                 /\ inbuf' = <<>> /\ oversize' = TRUE /\ Reply(TooLong, 1) /\ UNCHANGED got
              \/ /\ m < Len(Sent) /\ Len(inbuf') = Len(inbuf) + (m - n)
                 /\ (oversize = FALSE => inbuf' = SubSeq(Sent, 1, m))
                 /\ NoReply /\ UNCHANGED <<oversize, got>>
  BY <1>2, LineRead
<1>5. Len(Sent) \in Nat /\ n \in Nat /\ m \in Nat /\ n < Len(Sent) /\ m \in 0 .. Len(Sent)
  <2>1. Len(Sent) \in Nat
    BY <1>0, SentFacts DEF Types
  <2> QED BY <2>1
<1>6. got = None /\ (oversize = FALSE => answer = <<>>) /\ (oversize = TRUE => n = LineMax + Len(inbuf))
  BY <1>2, <1>5 DEF Delivered, Answered
<1>7. Len(inbuf) \in Nat /\ LineMax \in Nat /\ oversize \in BOOLEAN
  BY <1>0, LenProperties DEF Types, WireAssumption
<1>8. CASE /\ m = Len(Sent) /\ inbuf' = <<>> /\ oversize' = FALSE
           /\ IF oversize THEN NoReply /\ UNCHANGED got ELSE TakeLine(Join(command))
  <2>1. got' = got \/ got' = Split(StripCr(Join(command)))
    BY <1>7, <1>8, LineWrites
  <2>2. ~(m < Len(Sent))
    BY <1>5, <1>8
  <2>3. Delivered(m)'
    BY <1>3, <1>4, <1>6, <2>1, <2>2 DEF Delivered
  <2>4. Answered(m)'
    BY <1>3, <2>2 DEF Answered
  <2> QED BY <1>3, <1>5, <2>3, <2>4
<1>9. CASE /\ m < Len(Sent) /\ Len(inbuf) + (m - n) = LineMax
           /\ inbuf' = <<>> /\ oversize' = TRUE /\ Reply(TooLong, 1) /\ UNCHANGED got
  <2>1. m # Len(Sent)
    BY <1>5, <1>9
  <2>2. Delivered(m)'
    BY <1>3, <1>4, <1>6, <1>9, <2>1 DEF Delivered
  <2>3. oversize = FALSE
    BY <1>0, <1>5, <1>6, <1>7, <1>9, <1>11, OneOverflow
  <2>4. m = LineMax + Len(inbuf')
    <3>1. Len(inbuf) = n
      <4>1. inbuf = SubSeq(Sent, 1, n) /\ Sent \in Seq(Byte)
        BY <1>0, <1>2, <1>5, <2>3, SentFacts DEF Delivered, Types
      <4> QED BY <4>1, Segments
    <3>2. Len(inbuf') = 0 /\ Len(inbuf) + (m - n) = LineMax
      BY <1>9
    <3> QED BY <1>5, <1>7, <3>1, <3>2
  <2>5. Answered(m)'
    BY <1>9, <2>4 DEF Answered
  <2> QED BY <1>3, <1>5, <2>2, <2>5
<1>10. CASE /\ m < Len(Sent) /\ Len(inbuf') = Len(inbuf) + (m - n)
            /\ (oversize = FALSE => inbuf' = SubSeq(Sent, 1, m))
            /\ NoReply /\ UNCHANGED <<oversize, got>>
  <2>1. m # Len(Sent)
    BY <1>5, <1>10
  <2>2. Delivered(m)'
    BY <1>3, <1>4, <1>6, <1>10, <2>1 DEF Delivered
  <2>3. Answered(m)'
    <3>1. UNCHANGED <<oversize, answer>> /\ Len(inbuf') = Len(inbuf) + (m - n)
      BY <1>10 DEF NoReply
    <3>2. oversize' = FALSE => answer' = <<>>
      BY <1>6, <3>1
    <3>3. oversize' = TRUE => m = LineMax + Len(inbuf')
      BY <1>5, <1>6, <1>7, <3>1
    <3> QED BY <3>2, <3>3 DEF Answered
  <2> QED BY <1>3, <1>5, <2>2, <2>3
<1> QED BY <1>4, <1>8, <1>9, <1>10

WireInv == TypeInv /\ ServerInv

\* The server's part does not change.
ServerSame ==
  UNCHANGED <<command, toServer, inbuf, oversize, got, answer>>

LEMMA ServerSameKeeps ==
  ASSUME ServerInv, ServerSame, status' = Fresh => status = Fresh
  PROVE  ServerInv'
<1>1. (Untouched' <=> Untouched) /\ (Fits' <=> Fits) /\ Sent' = Sent
  BY DEF ServerSame, Untouched, Fits, Sent
<1>2. ASSUME NEW n, Delivered(n) /\ Answered(n) PROVE Delivered(n)' /\ Answered(n)'
  BY <1>1, <1>2 DEF ServerSame, Delivered, Answered
<1> QED BY <1>1, <1>2 DEF ServerInv

LEMMA WireStep ==
  ASSUME WireAssumption, OneRejection, WireInv, Next
  PROVE  WireInv'
<1>0. TypeInv /\ ServerInv /\ Types
  BY TypesAre DEF WireInv, TypeInv
<1>1. TypeInv'
  BY <1>0, TypeStep
<1>2. CASE Send
  <2>1. Untouched /\ status = Fresh
    BY <1>0, <1>2 DEF Send, ServerInv
  <2>2. UNCHANGED <<command, inbuf, oversize, got, answer>> /\ status' # Fresh
    BY <1>2 DEF Send, serverVars, Fresh, Waiting
  <2>3. CASE toServer' = toServer
    <3>1. Untouched'
      BY <2>1, <2>2, <2>3 DEF Untouched
    <3> QED BY <1>1, <2>2, <3>1 DEF WireInv, ServerInv
  <2>4. CASE ~(Len(Join(command)) >= ClientMax - 1) /\ toServer' = Append(Join(command), "\n")
    <3>1. Sent \in Seq(Byte) /\ Len(Sent) \in Nat /\ Len(Sent) > 0 /\ Len(Join(command)) \in Nat /\ ClientMax \in Nat
      <4>1. Sent \in Seq(Byte) /\ Len(Join(command)) \in Nat /\ Len(Sent) = Len(Join(command)) + 1
        BY <1>0, SentFacts DEF Types
      <4>2. ClientMax \in Nat
        BY DEF WireAssumption
      <4> QED BY <4>1, <4>2
    <3>2. Sent' = Sent /\ Join(command') = Join(command)
      BY <2>2 DEF Sent
    <3>3. Fits'
      BY <2>4, <3>1, <3>2 DEF Fits
    <3>4. 0 < Len(Sent) /\ 0 # Len(Sent) /\ 0 \in 0 .. Len(Sent) /\ 0 + 1 = 1
      BY <3>1
    <3>5. toServer' = SubSeq(Sent, 0 + 1, Len(Sent)) /\ SubSeq(Sent, 1, 0) = <<>>
      BY <2>4, <3>1, <3>4, Segments DEF Sent
    <3>6. got' = None /\ inbuf' = <<>> /\ oversize' = FALSE /\ answer' = <<>>
      BY <2>1, <2>2 DEF Untouched
    <3>7. Delivered(0)'
      BY <3>2, <3>4, <3>5, <3>6 DEF Delivered
    <3>8. Answered(0)'
      BY <3>6 DEF Answered
    <3> QED BY <1>1, <2>2, <3>2, <3>3, <3>4, <3>7, <3>8 DEF WireInv, ServerInv
  <2> QED BY <1>2, <2>3, <2>4 DEF Send
<1>3. CASE ClientRead
  <2>1. ServerSame
    BY <1>3 DEF ClientRead, ServerSame, serverVars
  <2>2. status' \in {0, 1, 2, Waiting}
    BY <1>0, <1>3, ClientReads
  <2>3. status' # Fresh
    BY <2>2 DEF Waiting, Fresh
  <2> QED BY <1>0, <1>1, <2>1, <2>3, ServerSameKeeps DEF WireInv
<1>4. CASE ClientEof
  <2>1. ServerSame /\ status' # Fresh
    BY <1>4 DEF ClientEof, ServerSame, serverVars, Fresh
  <2> QED BY <1>0, <1>1, <2>1, ServerSameKeeps DEF WireInv
<1>5. CASE ServerRead
  <2>1. toServer # <<>> /\ UNCHANGED <<command, status>>
    BY <1>5 DEF ServerRead
  <2>2. status' # Fresh /\ Fits
    BY <1>0, <2>1 DEF ServerInv, Untouched
  <2>3. Fits' /\ Sent' = Sent
    BY <2>1, <2>2 DEF Fits, Sent
  <2>4. \E n \in 0 .. Len(Sent) : (Delivered(n) /\ Answered(n))'
    BY <1>0, <1>5, ServerStep
  <2> QED BY <1>1, <2>2, <2>3, <2>4 DEF WireInv, ServerInv
<1>6. CASE ServerCloses
  <2>1. ServerSame /\ status' = status
    BY <1>6 DEF ServerCloses, ServerSame
  <2> QED BY <1>0, <1>1, <2>1, ServerSameKeeps DEF WireInv
<1> QED BY <1>2, <1>3, <1>4, <1>5, <1>6 DEF Next, Client

LEMMA WireInvInit == WireAssumption /\ Init => WireInv
<1> SUFFICES ASSUME WireAssumption, Init PROVE WireInv
  OBVIOUS
<1>1. TypeInv
  BY TypeInit
<1>2. Untouched
  BY DEF Init, Untouched
<1> QED BY <1>1, <1>2 DEF WireInv, ServerInv

LEMMA WireHolds == Spec => []WireInv
<1>1. WireAssumption /\ OneRejection /\ WireInv /\ [Next]_vars => WireInv'
  <2>1. ASSUME WireInv, UNCHANGED vars PROVE WireInv'
    <3>1. ServerSame /\ status' = status
      BY <2>1 DEF vars, serverVars, ServerSame
    <3>2. ServerInv'
      BY <2>1, <3>1, ServerSameKeeps DEF WireInv
    <3>3. TypeInv'
      BY <2>1, TypeSameKeeps DEF WireInv
    <3> QED BY <3>2, <3>3 DEF WireInv
  <2> QED BY <2>1, WireStep
<1> QED BY <1>1, WireInvInit, WireAssumption, OneRejection, PTL DEF Spec

\* What is called is what is dispatched.
THEOREM ArgumentsCorrect == Spec => []ArgumentsArrive
<1>1. WireAssumption /\ WireInv => ArgumentsArrive
  <2> SUFFICES ASSUME WireAssumption, WireInv, got # None, Faithful(command) PROVE got = command
    BY DEF ArgumentsArrive
  <2>1. TypeInv /\ Types
    BY TypesAre DEF WireInv, TypeInv
  <2>2. PICK n \in 0 .. Len(Sent) : Delivered(n)
    BY DEF WireInv, ServerInv, Untouched
  <2>3. Len(Sent) \in Nat
    BY <2>1, SentFacts DEF Types
  <2>4. n < Len(Sent) \/ n = Len(Sent)
    BY <2>2, <2>3
  <2>5. got = Split(StripCr(Join(command)))
    BY <2>2, <2>4 DEF Delivered
  <2>6. command \in Seq(Seq(Byte)) /\ command # <<>>
    BY <2>1, JoinType DEF Types
  <2>7. StripCr(Join(command)) = Join(command)
    BY <2>6, LineEnd
  <2>8. Split(Join(command)) = command
    BY <2>6, SplitOfJoin DEF Faithful
  <2> QED BY <2>5, <2>7, <2>8
<1> QED BY <1>1, WireHolds, WireAssumption, PTL

-----------------------------------------------------------------------------
(***************************************************************************)
(* The answer on its way                                                   *)
(***************************************************************************)

\* All that is written back is one frame: what termctl has read, what is on
\* its way and what was not written.
Stream == IF answer = <<>> THEN <<>> ELSE Frame(answer[1].body, answer[1].flag)

StreamIs(x, z) == Stream = x \o (toClient \o z)

ClientInv ==
  \E x, z \in Seq(Byte) : StreamIs(x, z) /\ Runs("read", ReadStart, x, Shown)

AllInv == WireInv /\ ClientInv

\* The server answers once at most.
LEMMA OneAnswer ==
  ASSUME WireAssumption, OneRejection, WireInv, ServerRead
  PROVE  NoReply \/ (answer = <<>> /\ Writes)
<1>0. TypeInv /\ ServerInv /\ Types
  BY TypesAre DEF WireInv, TypeInv
<1>1. toServer # <<>>
  BY DEF ServerRead
<1>2. Fits /\ \E n \in 0 .. Len(Sent) : Delivered(n) /\ Answered(n)
  BY <1>0, <1>1 DEF ServerInv, Untouched
<1>3. PICK n \in 0 .. Len(Sent) : Delivered(n) /\ Answered(n)
  BY <1>2
<1>4. PICK m \in n + 1 .. Len(Sent) :
           \/ IF oversize THEN NoReply /\ UNCHANGED got ELSE TakeLine(Join(command))
           \/ /\ m < Len(Sent) /\ Len(inbuf) + (m - n) = LineMax /\ Reply(TooLong, 1)
           \/ NoReply
  BY <1>0, <1>3, LineRead
<1>5. Len(Sent) \in Nat /\ n \in Nat /\ m \in Nat /\ n < Len(Sent)
  <2>1. Len(Sent) \in Nat
    BY <1>0, SentFacts DEF Types
  <2> QED BY <2>1
<1>6. (oversize = FALSE => answer = <<>>) /\ (oversize = TRUE => n = LineMax + Len(inbuf))
  BY <1>3, <1>5 DEF Answered
<1>7. Len(inbuf) \in Nat /\ LineMax \in Nat /\ oversize \in BOOLEAN
  BY <1>0, LenProperties DEF Types, WireAssumption
<1>8. CASE IF oversize THEN NoReply /\ UNCHANGED got ELSE TakeLine(Join(command))
  BY <1>6, <1>7, <1>8, LineWrites
<1>9. CASE m < Len(Sent) /\ Len(inbuf) + (m - n) = LineMax /\ Reply(TooLong, 1)
  <2>1. oversize = FALSE
    BY <1>0, <1>2, <1>5, <1>6, <1>7, <1>9, OneOverflow
  <2>2. TooLong \in Bodies \cup {TooMany, TooLong} /\ 1 \in {0, 1}
    OBVIOUS
  <2> QED BY <1>6, <1>9, <2>1, <2>2 DEF Writes
<1> QED BY <1>4, <1>8, <1>9

\* More of a stream is read.
LEMMA MoreRead ==
  ASSUME NEW x \in Seq(Byte), NEW y \in Seq(Byte), NEW u \in Seq(Byte), NEW z \in Seq(Byte)
  PROVE  x \o ((y \o u) \o z) = (x \o y) \o (u \o z) /\ x \o y \in Seq(Byte)
<1>1. x \o y \in Seq(Byte) /\ u \o z \in Seq(Byte)
  BY ConcatProperties
<1>2. Regroups(y, u, z)
  BY Associates
<1>3. Regroups(x, y, u \o z)
  BY <1>1, Associates
<1>4. (y \o u) \o z = y \o (u \o z)
  BY <1>2 DEF Regroups
<1>5. x \o (y \o (u \o z)) = (x \o y) \o (u \o z)
  BY <1>3 DEF Regroups
<1> QED BY <1>1, <1>4, <1>5

\* The stream, and what is on its way and read of it, do not change.
LEMMA ClientSameKeeps ==
  ASSUME ClientInv, Stream' = Stream, toClient' = toClient, Shown' = Shown
  PROVE  ClientInv'
BY DEF ClientInv, StreamIs

LEMMA ShownSame ==
  ASSUME UNCHANGED <<buf, inFrame, out>>, Flag' = Flag
  PROVE  Shown' = Shown
BY DEF Shown

LEMMA ReplyKeeps ==
  ASSUME WireAssumption, WireInv, ClientInv, answer = <<>>, Writes,
         UNCHANGED <<status, buf, inFrame, out>>
  PROVE  ClientInv'
<1>0. TypeInv /\ Types
  BY TypesAre DEF WireInv, TypeInv
<1>1. PICK x, z \in Seq(Byte) : StreamIs(x, z) /\ Runs("read", ReadStart, x, Shown)
  BY DEF ClientInv
<1>2. x = <<>> /\ toClient = <<>>
  <2>1. toClient \in Seq(Byte) /\ toClient \o z \in Seq(Byte)
    BY <1>0, ConcatProperties DEF Types
  <2>2. x \o (toClient \o z) = <<>>
    BY <1>1 DEF StreamIs, Stream
  <2>3. x = <<>> /\ toClient \o z = <<>>
    BY <2>1, <2>2, ConcatEqualIffEmpty
  <2>4. toClient = <<>>
    BY <2>1, <2>3, ConcatEqualIffEmpty
  <2> QED BY <2>3, <2>4
<1>3. PICK b \in Bodies \cup {TooMany, TooLong}, g \in {0, 1} : Reply(b, g)
  BY DEF Writes
<1> DEFINE frame == Frame(b, g)
<1>4. /\ b \in Seq(Byte) /\ 2 * Len(b) < ReplyMax
      /\ answer' = <<[body |-> b, flag |-> g]>>
      /\ \E n \in 0 .. Len(frame) : toClient' = toClient \o SubSeq(frame, 1, n)
  BY <1>0, <1>3, ReplyWrites
<1>5. frame \in Seq(Byte)
  BY <1>4, FrameReads DEF Reads
<1>6. Stream' = frame
  BY <1>4 DEF Stream
<1> HIDE DEF frame
<1>7. PICK n \in 0 .. Len(frame) : toClient' = toClient \o SubSeq(frame, 1, n)
  BY <1>4
<1> DEFINE y == SubSeq(frame, 1, n)
           rest == SubSeq(frame, n + 1, Len(frame))
<1>8. y \in Seq(Byte) /\ rest \in Seq(Byte) /\ frame = y \o rest
  BY <1>5, CutInTwo
<1>9. toClient' = toClient \o y
  BY <1>7
<1> HIDE DEF y, rest
<1>10. toClient' = y
  BY <1>2, <1>8, <1>9, ConcatEmptySeq
<1>11. x \o (toClient' \o rest) = frame
  <2>1. x \o frame = frame
    BY <1>2, <1>5, ConcatEmptySeq
  <2> QED BY <1>8, <1>10, <2>1
<1>12. StreamIs(x, rest)'
  BY <1>6, <1>11 DEF StreamIs
<1>13. Shown' = Shown
  BY ShownSame DEF Flag
<1> QED BY <1>1, <1>8, <1>12, <1>13 DEF ClientInv

LEMMA ClientStep ==
  ASSUME WireAssumption, OneRejection, AllInv, Next
  PROVE  ClientInv'
<1>0. WireInv /\ ClientInv /\ TypeInv /\ Types
  BY TypesAre DEF AllInv, WireInv, TypeInv
<1>1. CASE Send
  <2>1. UNCHANGED <<answer, toClient, buf, inFrame, out>>
    BY <1>1 DEF Send, clientVars, serverVars
  <2>2. status = -2 /\ (status' = 2 \/ status' = -1)
    BY <1>1 DEF Send, Fresh, Waiting
  <2>3. Flag' = Flag
    BY <2>2 DEF Flag
  <2> QED BY <1>0, <2>1, <2>3, ShownSame, ClientSameKeeps DEF Stream
<1>2. CASE ClientRead
  <2>1. PICK y \in Seq(Byte) :
          toClient' \in Seq(Byte) /\ toClient = y \o toClient' /\ Runs("read", Shown, y, Shown')
    BY <1>0, <1>2, ClientReads
  <2>2. PICK x, z \in Seq(Byte) : StreamIs(x, z) /\ Runs("read", ReadStart, x, Shown)
    BY <1>0 DEF ClientInv
  <2>3. Stream' = Stream
    BY <1>2 DEF ClientRead, serverVars, Stream
  <2> DEFINE u == toClient'
             w == x \o y
             s == Shown
             t == Shown'
  <2>4. Stream = x \o ((y \o u) \o z) /\ u \in Seq(Byte)
    BY <2>1, <2>2 DEF StreamIs
  <2> HIDE DEF u
  <2>5. Stream = w \o (u \o z) /\ w \in Seq(Byte)
    <3>1. x \o ((y \o u) \o z) = (x \o y) \o (u \o z) /\ x \o y \in Seq(Byte)
      BY <2>4, MoreRead
    <3> QED BY <2>4, <3>1
  <2>6. StreamIs(w, z)'
    BY <2>3, <2>5 DEF StreamIs, u
  <2>7. Runs("read", ReadStart, x, s) /\ Runs("read", s, y, t)
    BY <2>1, <2>2
  <2> HIDE DEF s, t
  <2>8. Runs("read", ReadStart, w, t)
    BY <2>7, RunsConcat
  <2> HIDE DEF w
  <2> QED BY <2>5, <2>6, <2>8 DEF ClientInv, t
<1>3. CASE ClientEof
  <2>1. UNCHANGED <<answer, toClient, buf, inFrame, out>>
    BY <1>3 DEF ClientEof, clientVars, serverVars
  <2>2. status = -1 /\ status' = 2
    BY <1>3 DEF ClientEof, Waiting
  <2>3. Flag' = Flag
    BY <2>2 DEF Flag
  <2> QED BY <1>0, <2>1, <2>3, ShownSame, ClientSameKeeps DEF Stream
<1>4. CASE ServerRead
  <2>1. UNCHANGED <<status, buf, inFrame, out>>
    BY <1>4 DEF ServerRead, clientVars
  <2>2. CASE NoReply
    <3>1. UNCHANGED <<answer, toClient>> /\ Flag' = Flag
      BY <2>1, <2>2 DEF NoReply, Flag
    <3> QED BY <1>0, <2>1, <3>1, ShownSame, ClientSameKeeps DEF Stream
  <2>3. CASE answer = <<>> /\ Writes
    BY <1>0, <2>1, <2>3, ReplyKeeps
  <2> QED BY <1>0, <1>4, <2>2, <2>3, OneAnswer
<1>5. CASE ServerCloses
  <2>1. UNCHANGED <<answer, toClient, buf, inFrame, out, status>>
    BY <1>5 DEF ServerCloses, clientVars
  <2>2. Flag' = Flag
    BY <2>1 DEF Flag
  <2> QED BY <1>0, <2>1, <2>2, ShownSame, ClientSameKeeps DEF Stream
<1> QED BY <1>1, <1>2, <1>3, <1>4, <1>5 DEF Next, Client

LEMMA ClientInit == ASSUME Init PROVE ClientInv
<1> DEFINE empty == <<>>
<1>1. empty \in Seq(Byte) /\ empty \o (empty \o empty) = empty
  OBVIOUS
<1>2. toClient = empty /\ Stream = empty
  BY DEF Init, Stream
<1>3. Shown = ReadStart
  <2>1. status = -2 /\ buf = empty /\ inFrame = FALSE /\ out = empty
    BY DEF Init, Fresh
  <2>2. Flag = -1
    BY <2>1 DEF Flag
  <2> QED BY <2>1, <2>2 DEF Shown, ReadStart
<1>4. Runs("read", ReadStart, empty, ReadStart)
  BY RunsEmpty
<1> HIDE DEF empty
<1> QED BY <1>1, <1>2, <1>3, <1>4 DEF ClientInv, StreamIs

\* What is read after x of a frame is the rest of the run over it.
LEMMA PartRead ==
  ASSUME NEW x \in Seq(Byte), NEW y \in Seq(Byte), NEW s \in ReadState, NEW t,
         Runs("read", ReadStart, x, s), Runs("read", ReadStart, x \o y, t)
  PROVE  Extends(s.out, t.out) /\ (s.flag >= 0 => t = s)
<1> DEFINE u == FoldLeft(ReadByte, s, y)
           w == x \o y
<1>1. Len(y) \in Nat /\ DOMAIN y = 1 .. Len(y)
  BY LenProperties
<1>2. Runs("read", s, y, u)
  BY <1>1, ReadRuns
<1> HIDE DEF u
<1>3. Runs("read", ReadStart, w, u)
  BY <1>2, RunsConcat
<1>4. w \in Seq(Byte)
  BY ConcatProperties
<1>5. Len(w) \in Nat /\ Runs("read", ReadStart, w, t)
  BY <1>4, LenProperties
<1> HIDE DEF w
<1>6. u = t
  BY <1>3, <1>5, RunsUnique
<1> QED BY <1>2, <1>6, ReadKeeps

\* What termctl prints is the beginning of one answer, and its status the
\* answer's only with all of it.
THEOREM OutputCorrect == Spec => []OutputIsReply
<1>1. WireAssumption /\ OneRejection /\ AllInv /\ [Next]_vars => ClientInv'
  <2>1. ASSUME AllInv, UNCHANGED vars PROVE ClientInv'
    <3>1. UNCHANGED <<answer, toClient, buf, inFrame, out, status>> /\ ClientInv
      BY <2>1 DEF vars, clientVars, serverVars, AllInv
    <3>2. Flag' = Flag /\ Stream' = Stream
      BY <3>1 DEF Flag, Stream
    <3> QED BY <3>1, <3>2, ShownSame, ClientSameKeeps
  <2> QED BY <2>1, ClientStep
<1>2. WireAssumption /\ AllInv => OutputIsReply
  <2> SUFFICES ASSUME WireAssumption, AllInv PROVE OutputIsReply
    OBVIOUS
  <2>0. TypeInv /\ Types /\ ClientInv /\ AnswerOK
    BY TypesAre DEF AllInv, WireInv, TypeInv
  <2>1. PICK x, z \in Seq(Byte) : StreamIs(x, z) /\ Runs("read", ReadStart, x, Shown)
    BY <2>0 DEF ClientInv
  <2>2. toClient \o z \in Seq(Byte)
    BY <2>0, ConcatProperties DEF Types
  <2>3. Shown \in ReadState /\ Shown.out = out /\ Shown.flag = Flag
    <3>1. Flag \in {-1, 0, 1}
      BY DEF Flag
    <3> QED BY <2>0, <3>1 DEF Shown, ReadState, Types
  <2>4. status \in {0, 1} <=> Flag >= 0
    BY DEF Flag
  <2>5. ASSUME answer = <<>> PROVE out = <<>> /\ status \notin {0, 1}
    <3>1. x \o (toClient \o z) = <<>>
      BY <2>1, <2>5 DEF StreamIs, Stream
    <3>2. x = <<>>
      BY <2>2, <3>1, ConcatEqualIffEmpty
    <3>3. Runs("read", ReadStart, x, ReadStart)
      BY <3>2, RunsEmpty
    <3>4. Len(x) \in Nat
      BY LenProperties
    <3>5. Shown = ReadStart
      BY <2>1, <3>3, <3>4, RunsUnique
    <3>6. ReadStart.out = <<>> /\ ReadStart.flag = -1
      BY DEF ReadStart
    <3> QED BY <2>3, <2>4, <3>5, <3>6
  <2>6. ASSUME answer # <<>>
        PROVE  LET text == IF answer[1].body = <<>> THEN <<>> ELSE Append(answer[1].body, "\n")
               IN /\ IsPrefix(out, text)
                  /\ status \in {0, 1} => out = text /\ status = answer[1].flag
    <3>1. PICK b \in Seq(Byte), g \in {0, 1} : answer = <<[body |-> b, flag |-> g]>> /\ 2 * Len(b) < ReplyMax
      BY <2>0, <2>6 DEF AnswerOK
    <3>2. answer[1].body = b /\ answer[1].flag = g
      BY <3>1
    <3> DEFINE t == Over(Text(b), g)
               y == toClient \o z
    <3>3. Runs("read", ReadStart, Frame(b, g), t)
      BY <3>1, FrameReads DEF Reads
    <3>4. Frame(b, g) = x \o y
      BY <2>1, <2>6, <3>2 DEF StreamIs, Stream
    <3>5. t.out = Text(b) /\ t.flag = g
      BY DEF Over
    <3>6. Extends(out, t.out) /\ (Shown.flag >= 0 => t = Shown)
      <4> HIDE DEF t, y
      <4>1. Runs("read", ReadStart, x \o y, t)
        BY <3>3, <3>4
      <4>2. y \in Seq(Byte)
        BY <2>2 DEF y
      <4> QED BY <2>1, <2>3, <4>1, <4>2, PartRead
    <3> HIDE DEF t, y
    <3>7. out \in Seq(Byte)
      BY <2>0 DEF Types
    <3>8. IsPrefix(out, Text(b))
      BY <3>5, <3>6, <3>7, ExtendsIsPrefix
    <3>9. ASSUME status \in {0, 1} PROVE out = Text(b) /\ status = g
      <4>1. t = Shown /\ Flag = status
        BY <2>3, <2>4, <3>6, <3>9 DEF Flag
      <4> QED BY <2>3, <3>5, <4>1
    <3>10. Text(b) = IF answer[1].body = <<>> THEN <<>> ELSE Append(answer[1].body, "\n")
      BY <3>2 DEF Text
    <3> QED BY <3>2, <3>8, <3>9, <3>10
  <2> QED BY <2>5, <2>6 DEF OutputIsReply
<1>3. Init => ClientInv
  BY ClientInit
<1>4. AllInv <=> WireInv /\ ClientInv
  BY DEF AllInv
<1> QED BY <1>1, <1>2, <1>3, <1>4, WireHolds, WireAssumption, OneRejection, PTL DEF Spec

=============================================================================
