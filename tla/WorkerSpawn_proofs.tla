--------------------------- MODULE WorkerSpawn_proofs ---------------------------
(* One worker run, for any limits, any chunks and any worker: a worker that   *)
(* prints more than the model's runs let it print included.                   *)
EXTENDS WorkerSpawn, SumLemmas

\* The frame reader as the recursion the library folds it with: over sets of
\* indices of the chunk, the last one first.
Greatest(s) == Max(s)
FoldStep(g, base, chunk, s) ==
    IF s = {} THEN base ELSE ReadUnit(g[s \ {Greatest(s)}], chunk[Greatest(s)])
IsFold(g, base, chunk) == g = [s \in SUBSET DOMAIN chunk |-> FoldStep(g, base, chunk, s)]
Folded(base, chunk) == CHOOSE g : IsFold(g, base, chunk)

LEMMA GreatestFacts ==
    ASSUME NEW n \in Nat, NEW s \in SUBSET (1..n), s # {}
    PROVE  Greatest(s) \in s /\ \A y \in s : Greatest(s) >= y
<1> DEFINE T == {n - x : x \in s}
<1>0. \A x \in s : x \in Nat /\ n - x \in Nat
  OBVIOUS
<1>1. T \in SUBSET Nat /\ T # {}
  BY <1>0
<1>2. PICK m \in T : \A k \in T : m <= k
  BY <1>1, LeastNumber
<1>3. PICK x \in s : m = n - x
  BY <1>2
<1>4. \A y \in s : x >= y
  <2> SUFFICES ASSUME NEW y \in s PROVE x >= y
    OBVIOUS
  <2>1. n - x <= n - y
    BY <1>2, <1>3
  <2> QED BY <1>0, <2>1
<1> QED
  BY <1>3, <1>4 DEF Greatest, Max

LEMMA GreatestOf == ASSUME NEW n \in Nat, n > 0 PROVE Greatest(1..n) = n /\ (1..n) \ {n} = 1..(n - 1)
<1>1. 1..n \in SUBSET (1..n) /\ 1..n # {} /\ n \in 1..n
  OBVIOUS
<1>2. Greatest(1..n) \in 1..n /\ Greatest(1..n) >= n
  BY <1>1, GreatestFacts
<1> QED BY <1>2

LEMMA FoldExists ==
    ASSUME NEW base, NEW chunk \in Seq(Units)
    PROVE  \E g : IsFold(g, base, chunk)
<1> DEFINE S == DOMAIN chunk
           Small(n) == {s \in SUBSET S : Cardinality(s) <= n}
           Good(n) == \E g : g = [s \in Small(n) |-> FoldStep(g, base, chunk, s)]
           Bad == {n \in Nat : ~Good(n)}
<1>0. /\ S = 1..Len(chunk) /\ Len(chunk) \in Nat /\ IsFiniteSet(S)
      /\ \A s \in SUBSET S : IsFiniteSet(s) /\ Cardinality(s) \in Nat
  <2>1. S = 1..Len(chunk) /\ Len(chunk) \in Nat
    OBVIOUS
  <2>2. IsFiniteSet(S)
    BY <2>1, FS_Interval
  <2> QED BY <2>1, <2>2, FS_Subset, FS_CardinalityType
<1>00. \A s \in SUBSET S : s # {} => /\ Greatest(s) \in s /\ Cardinality(s) > 0
                                     /\ Cardinality(s \ {Greatest(s)}) = Cardinality(s) - 1
  <2> SUFFICES ASSUME NEW s \in SUBSET S, s # {}
               PROVE  /\ Greatest(s) \in s /\ Cardinality(s) > 0
                      /\ Cardinality(s \ {Greatest(s)}) = Cardinality(s) - 1
    OBVIOUS
  <2>1. Greatest(s) \in s
    BY <1>0, GreatestFacts
  <2>2. IsFiniteSet(s) /\ Cardinality(s) \in Nat /\ Cardinality(s) # 0
    BY <1>0, FS_EmptySet
  <2>3. Cardinality(s \ {Greatest(s)}) = Cardinality(s) - 1
    BY <2>1, <2>2, FS_RemoveElement
  <2>4. Cardinality(s) > 0
    BY ONLY <2>2
  <2> QED BY <2>1, <2>3, <2>4
<1>1. Good(0)
  <2>1. \A s \in Small(0) : s = {}
    BY <1>0, FS_EmptySet
  <2> DEFINE g == [s \in Small(0) |-> base]
  <2>2. g = [s \in Small(0) |-> FoldStep(g, base, chunk, s)]
    BY <2>1 DEF FoldStep
  <2> QED BY <2>2
<1>2. ASSUME NEW n \in Nat, n > 0, Good(n - 1) PROVE Good(n)
  <2>1. PICK g : g = [s \in Small(n - 1) |-> FoldStep(g, base, chunk, s)]
    BY <1>2
  <2> DEFINE h == [s \in Small(n) |-> FoldStep(g, base, chunk, s)]
  <2>2. \A s \in Small(n - 1) : h[s] = g[s]
    <3> SUFFICES ASSUME NEW s \in Small(n - 1) PROVE h[s] = g[s]
      OBVIOUS
    <3>1. s \in Small(n)
      BY <1>0
    <3>2. g[s] = FoldStep(g, base, chunk, s)
      <4> HIDE DEF Small
      <4> QED BY <2>1
    <3> QED BY <3>1, <3>2
  <2>3. ASSUME NEW s \in Small(n), s # {} PROVE s \ {Greatest(s)} \in Small(n - 1)
    <3>1. s \ {Greatest(s)} \in SUBSET S /\ Cardinality(s) \in Nat /\ Cardinality(s) <= n
      BY <1>0
    <3>2. Cardinality(s \ {Greatest(s)}) = Cardinality(s) - 1
      BY <1>00, <2>3
    <3> QED BY <3>1, <3>2
  <2>4. \A s \in Small(n) : FoldStep(g, base, chunk, s) = FoldStep(h, base, chunk, s)
    <3> HIDE DEF h, Small
    <3> QED BY <2>2, <2>3 DEF FoldStep
  <2>5. h = [s \in Small(n) |-> FoldStep(h, base, chunk, s)]
    <3> SUFFICES [s \in Small(n) |-> FoldStep(g, base, chunk, s)]
                 = [s \in Small(n) |-> FoldStep(h, base, chunk, s)]
      OBVIOUS
    <3> HIDE DEF h, Small
    <3> QED BY <2>4
  <2> HIDE DEF h
  <2> QED BY <2>5
<1>3. Bad = {}
  <2> SUFFICES ASSUME Bad # {} PROVE FALSE
    OBVIOUS
  <2> HIDE DEF Good
  <2>1. PICK n \in Bad : \A m \in Bad : n <= m
    BY LeastNumber
  <2>2. n > 0 /\ n - 1 \in Nat /\ n - 1 \notin Bad
    BY <1>1, <2>1
  <2> QED BY <1>2, <2>1, <2>2
<1>4. Good(Cardinality(S))
  <2> HIDE DEF Good
  <2> QED BY <1>0, <1>3, FS_CardinalityType
<1>5. Small(Cardinality(S)) = SUBSET S
  BY <1>0, FS_Subset
<1>6. PICK g : g = [s \in Small(Cardinality(S)) |-> FoldStep(g, base, chunk, s)]
  BY <1>4
<1>7. g = [s \in SUBSET S |-> FoldStep(g, base, chunk, s)]
  <2> HIDE DEF Small
  <2> QED BY <1>5, <1>6
<1> QED
  BY <1>7 DEF IsFold

\* So the fold of a chunk is the last of a chain of readers, one per unit.
LEMMA ChunkIsRead ==
    ASSUME NEW base, NEW chunk \in Seq(Units)
    PROVE  \E r : /\ r[0] = base
                  /\ \A k \in 1..Len(chunk) : r[k] = ReadUnit(r[k - 1], chunk[k])
                  /\ FoldLeft(ReadUnit, base, chunk) = r[Len(chunk)]
<1> DEFINE g == Folded(base, chunk)
           r == [k \in 0..Len(chunk) |-> g[1..k]]
<1>1. IsFold(g, base, chunk)
  BY FoldExists DEF Folded
<1>2. FoldLeft(ReadUnit, base, chunk) = g[DOMAIN chunk]
  BY DEF FoldLeft, MapThenFoldSet, Folded, IsFold, FoldStep, Greatest
<1>3. DOMAIN chunk = 1..Len(chunk) /\ Len(chunk) \in Nat
  OBVIOUS
<1>4. \A s \in SUBSET DOMAIN chunk : g[s] = FoldStep(g, base, chunk, s)
  <2> HIDE DEF g
  <2> QED BY <1>1 DEF IsFold
<1>5. \A k \in 0..Len(chunk) : 1..k \in SUBSET DOMAIN chunk
  BY <1>3
<1>6. g[1..0] = base
  BY <1>4, <1>5, <1>3 DEF FoldStep
<1>7. \A k \in 1..Len(chunk) : g[1..k] = ReadUnit(g[1..(k - 1)], chunk[k])
  <2> SUFFICES ASSUME NEW k \in 1..Len(chunk) PROVE g[1..k] = ReadUnit(g[1..(k - 1)], chunk[k])
    OBVIOUS
  <2>1. Greatest(1..k) = k /\ (1..k) \ {k} = 1..(k - 1) /\ 1..k # {}
    BY GreatestOf, <1>3
  <2>2. g[1..k] = FoldStep(g, base, chunk, 1..k)
    BY <1>4, <1>5, <1>3
  <2> HIDE DEF g
  <2> QED BY <2>1, <2>2 DEF FoldStep
<1> HIDE DEF g
<1>8. /\ r[0] = base
      /\ \A k \in 1..Len(chunk) : r[k] = ReadUnit(r[k - 1], chunk[k])
      /\ r[Len(chunk)] = g[DOMAIN chunk]
  BY <1>3, <1>6, <1>7
<1> QED
  BY <1>2, <1>8

------------------------------------------------------------------------------
(* What the frame reader knows of the units it has read. *)

\* The first n units of S can no longer become one answer.
Hopeless(S, n) == /\ n > 0
                  /\ ~(n = 1 /\ S[1] \in {"head", "answer"})
                  /\ ~(n = 2 /\ S[1] = "head" /\ S[2] = "tail")

\* A reader that has refused nothing: so far halves of answers only, or one
\* whole answer and what came after it.
Frames(r, S, n) ==
    /\ ~r.seen => /\ ~r.response /\ Len(r.buf) = n
                  /\ \A i \in 1..n : S[i] = "head" /\ r.buf[i] = "head"
    /\ r.seen => /\ r.response
                 /\ \/ n = Len(r.buf) + 1 /\ S[1] = "answer"
                    \/ n = Len(r.buf) + 2 /\ S[1] = "head" /\ S[2] = "tail"

Verdicts == {"none", "IPC_PROTOCOL_ERROR", "CANCELLED"}
Readers  == [buf : Seq(Units), seen : BOOLEAN, response : BOOLEAN, bytes : Nat, verdict : Verdicts]

Reader(r, S, n) ==
    /\ r \in Readers
    /\ r.verdict = "none" => Frames(r, S, n)
    /\ r.verdict = "IPC_PROTOCOL_ERROR" => (FrameLimit >= 2 => Hopeless(S, n))
    /\ r.verdict = "CANCELLED" => \E i \in 1..n : S[i] = "cancelled"

LEMMA HopelessStays ==
    ASSUME NEW S, NEW n \in Nat, Hopeless(S, n) PROVE Hopeless(S, n + 1)
  BY DEF Hopeless

LEMMA AppendUnit ==
    ASSUME NEW b \in Seq(Units), NEW u \in Units
    PROVE  /\ Append(b, u) \in Seq(Units) /\ Len(Append(b, u)) = Len(b) + 1 /\ Len(b) \in Nat
           /\ \A i \in 1..Len(b) : Append(b, u)[i] = b[i]
           /\ Append(b, u)[Len(b) + 1] = u
  OBVIOUS

\* One unit more.
LEMMA UnitIsRead ==
    ASSUME NEW S \in Seq(Units), NEW n \in Nat, n < Len(S), NEW r, Reader(r, S, n)
    PROVE  Reader(ReadUnit(r, S[n + 1]), S, n + 1) /\ ReadUnit(r, S[n + 1]).bytes = r.bytes
<1> DEFINE u == S[n + 1]
           line == Append(r.buf, u)
           next == ReadUnit(r, u)
<1>0. n + 1 \in Nat /\ n + 1 \in 1..Len(S)
  OBVIOUS
<1>1. u \in Units /\ r \in Readers
  BY <1>0 DEF Reader
<1>2. /\ line \in Seq(Units) /\ Len(line) = Len(r.buf) + 1 /\ Len(r.buf) \in Nat
      /\ \A i \in 1..Len(r.buf) : line[i] = r.buf[i]
      /\ line[Len(r.buf) + 1] = u
  BY <1>1, AppendUnit DEF Readers
<1> HIDE DEF u, line
<1>3. CASE r.verdict # "none"
  <2>1. next = r
    BY <1>3 DEF ReadUnit
  <2>2. r.verdict = "CANCELLED" => \E i \in 1..(n + 1) : S[i] = "cancelled"
    <3>1. 1..n \subseteq 1..(n + 1)
      OBVIOUS
    <3> QED BY <3>1 DEF Reader
  <2>3. r.verdict = "IPC_PROTOCOL_ERROR" => (FrameLimit >= 2 => Hopeless(S, n + 1))
    BY HopelessStays DEF Reader
  <2> QED BY <1>1, <1>3, <2>1, <2>2, <2>3 DEF Reader, u
<1>4. CASE r.verdict = "none" /\ u \notin Lines
  <2>1. u = "head"
    BY <1>1, <1>4 DEF Units
  <2>2. next = [r EXCEPT !.buf = line]
    BY <1>4 DEF ReadUnit, line
  <2>3. /\ next \in Readers /\ next.buf = line /\ next.seen = r.seen /\ next.response = r.response
        /\ next.bytes = r.bytes /\ next.verdict = "none"
    BY <1>1, <1>2, <1>4, <2>2 DEF Readers
  <2>4. Frames(r, S, n)
    BY <1>4 DEF Reader
  <2>5. Frames(next, S, n + 1)
    <3>1. CASE r.seen
      BY <1>2, <2>3, <2>4, <3>1 DEF Frames
    <3>2. CASE ~r.seen
      <4>1. Len(line) = n + 1 /\ ~r.response
        BY <1>2, <2>4, <3>2 DEF Frames
      <4>2. ASSUME NEW i \in 1..(n + 1) PROVE S[i] = "head" /\ line[i] = "head"
        <5>1. CASE i = n + 1
          BY <1>2, <2>1, <2>4, <3>2, <5>1 DEF Frames, u
        <5>2. CASE i # n + 1
          <6>1. i \in 1..n /\ Len(r.buf) = n
            BY <2>4, <3>2, <5>2 DEF Frames
          <6> QED BY <1>2, <2>4, <3>2, <6>1 DEF Frames
        <5> QED BY <5>1, <5>2
      <4> QED BY <2>3, <3>2, <4>1, <4>2 DEF Frames
    <3> QED BY <3>1, <3>2
  <2> QED BY <2>3, <2>5 DEF Reader, u
<1>5. CASE r.verdict = "none" /\ u \in Lines
  <2> DEFINE frame == Judge(line)
  <2>0. Frames(r, S, n)
    BY <1>5 DEF Reader
  <2>1. /\ u # "head"
        /\ line = <<"head", "tail">> => Len(line) = 2 /\ line[1] = "head" /\ line[2] = "tail"
    BY <1>5 DEF Lines
  <2>2. CASE frame = "bad" \/ r.seen
    <3>1. next = [r EXCEPT !.verdict = "IPC_PROTOCOL_ERROR"]
      BY <1>5, <2>2 DEF ReadUnit, line
    <3>2. /\ next \in Readers /\ next.bytes = r.bytes /\ next.verdict = "IPC_PROTOCOL_ERROR"
      BY <1>1, <3>1 DEF Readers, Verdicts
    <3>3. FrameLimit >= 2 => Hopeless(S, n + 1)
      <4> SUFFICES ASSUME FrameLimit >= 2 PROVE Hopeless(S, n + 1)
        OBVIOUS
      <4>1. CASE r.seen
        BY <1>2, <2>0, <2>1, <4>1 DEF Frames, Hopeless, u
      <4>2. CASE ~r.seen
        <5>1. Len(r.buf) = n /\ \A i \in 1..n : S[i] = "head" /\ r.buf[i] = "head"
          BY <2>0, <4>2 DEF Frames
        <5>2. frame = "bad" /\ Len(line) = n + 1
          BY <1>2, <2>2, <4>2, <5>1
        <5>3. CASE n + 1 = 1
          <6>1. line[1] = u /\ Len(line) = 1 /\ ~(Len(line) > FrameLimit)
            BY <1>2, <5>1, <5>2, <5>3, LimitsAssumption
          <6>2. line[1] = "bad" \/ line[1] = "tail"
            BY <5>2, <6>1 DEF Judge
          <6> QED BY <5>3, <6>1, <6>2 DEF Hopeless, u
        <5>4. CASE n + 1 = 2
          <6>1. line[1] = "head" /\ line[2] = u /\ Len(line) = 2
            BY <1>2, <5>1, <5>2, <5>4
          <6>2. u # "tail"
            <7> SUFFICES ASSUME u = "tail" PROVE FALSE
              OBVIOUS
            <7>1. line = <<"head", "tail">>
              BY <1>2, <6>1
            <7>2. ~(Len(line) > FrameLimit)
              BY <6>1, LimitsAssumption
            <7> QED BY <5>2, <7>1, <7>2 DEF Judge
          <6> QED BY <5>4, <6>2 DEF Hopeless, u
        <5>5. CASE n + 1 > 2
          BY <5>5 DEF Hopeless
        <5> QED BY <5>3, <5>4, <5>5
      <4> QED BY <4>1, <4>2
    <3> QED BY <3>2, <3>3 DEF Reader, u
  <2>3. CASE frame # "bad" /\ ~r.seen
    <3>1. Len(r.buf) = n /\ (\A i \in 1..n : S[i] = "head" /\ r.buf[i] = "head") /\ ~r.response
      BY <2>0, <2>3 DEF Frames
    <3>2. \/ Len(line) = 2 /\ line[1] = "head" /\ line[2] = "tail" /\ frame = "answer"
          \/ Len(line) = 1 /\ frame = line[1] /\ line[1] # "tail"
      BY <2>1, <2>3 DEF Judge
    <3>3. \/ n = 1 /\ S[1] = "head" /\ S[2] = "tail" /\ frame = "answer"
          \/ n = 0 /\ frame = u /\ u # "tail"
      BY <1>2, <3>1, <3>2 DEF u
    <3>4. CASE frame = "cancelled"
      <4>1. next = [r EXCEPT !.buf = <<>>, !.seen = TRUE, !.verdict = "CANCELLED"]
        BY <1>5, <2>3, <3>4 DEF ReadUnit, line
      <4>2. <<>> \in Seq(Units)
        OBVIOUS
      <4>3. next \in Readers /\ next.bytes = r.bytes /\ next.verdict = "CANCELLED"
        BY <1>1, <4>1, <4>2 DEF Readers, Verdicts
      <4>4. S[n + 1] = "cancelled" /\ n + 1 \in 1..(n + 1)
        BY <3>3, <3>4 DEF u
      <4> QED BY <4>3, <4>4 DEF Reader, u
    <3>5. CASE frame # "cancelled"
      <4>1. next = [r EXCEPT !.buf = <<>>, !.seen = TRUE, !.response = TRUE]
        BY <1>5, <2>3, <3>5 DEF ReadUnit, line
      <4>2. <<>> \in Seq(Units) /\ Len(<<>>) = 0
        OBVIOUS
      <4>3. /\ next \in Readers /\ next.bytes = r.bytes /\ next.verdict = "none"
            /\ next.seen /\ next.response /\ next.buf = <<>>
        BY <1>1, <1>5, <4>1, <4>2 DEF Readers, Verdicts
      <4>4. n = 0 => S[1] = "answer"
        BY <1>5, <2>3, <3>3, <3>5 DEF u, Lines
      <4>5. Frames(next, S, n + 1)
        BY <3>3, <4>2, <4>3, <4>4 DEF Frames
      <4> QED BY <4>3, <4>5 DEF Reader, u
    <3> QED BY <3>4, <3>5
  <2> QED BY <2>2, <2>3
<1> QED
  BY <1>3, <1>4, <1>5

\* A chunk more.
LEMMA UnitsAreRead ==
    ASSUME NEW S \in Seq(Units), NEW n \in Nat, NEW base, Reader(base, S, n),
           NEW chunk \in Seq(Units), n + Len(chunk) <= Len(S),
           \A k \in 1..Len(chunk) : chunk[k] = S[n + k]
    PROVE  /\ Reader(FoldLeft(ReadUnit, base, chunk), S, n + Len(chunk))
           /\ FoldLeft(ReadUnit, base, chunk).bytes = base.bytes
<1>1. PICK r : /\ r[0] = base
               /\ \A k \in 1..Len(chunk) : r[k] = ReadUnit(r[k - 1], chunk[k])
               /\ FoldLeft(ReadUnit, base, chunk) = r[Len(chunk)]
  BY ChunkIsRead
<1> DEFINE Right(k) == Reader(r[k], S, n + k) /\ r[k].bytes = base.bytes
           Bad == {k \in 0..Len(chunk) : ~Right(k)}
<1>0. Len(chunk) \in Nat /\ Len(S) \in Nat /\ Bad \in SUBSET Nat
  OBVIOUS
<1>2. Right(0)
  <2>1. n + 0 = n
    OBVIOUS
  <2> QED BY <1>1, <2>1
<1>3. ASSUME NEW k \in 1..Len(chunk), Right(k - 1) PROVE Right(k)
  <2>1. n + (k - 1) \in Nat /\ n + (k - 1) < Len(S) /\ (n + (k - 1)) + 1 = n + k
    BY <1>0
  <2>2. Reader(r[k - 1], S, n + (k - 1)) /\ r[k - 1].bytes = base.bytes
    BY <1>3
  <2>3. /\ Reader(ReadUnit(r[k - 1], S[(n + (k - 1)) + 1]), S, (n + (k - 1)) + 1)
        /\ ReadUnit(r[k - 1], S[(n + (k - 1)) + 1]).bytes = r[k - 1].bytes
    BY <2>1, <2>2, UnitIsRead
  <2>4. r[k] = ReadUnit(r[k - 1], S[n + k])
    BY <1>1
  <2> QED BY <2>1, <2>2, <2>3, <2>4
<1>4. Bad = {}
  <2> SUFFICES ASSUME Bad # {} PROVE FALSE
    OBVIOUS
  <2> HIDE DEF Right
  <2>1. PICK k \in Bad : \A m \in Bad : k <= m
    BY <1>0, LeastNumber
  <2>2. k \in 1..Len(chunk) /\ k - 1 \in 0..Len(chunk) /\ k - 1 \notin Bad
    BY <1>0, <1>2, <2>1
  <2> QED BY <1>3, <2>1, <2>2
<1>5. Right(Len(chunk))
  <2> HIDE DEF Right
  <2> QED BY <1>0, <1>4
<1> QED
  BY <1>1, <1>5

\* The whole handler on the first n units of the pipe.
LEMMA ChunkVerdict ==
    ASSUME NEW S \in Seq(Units), NEW m \in Nat, NEW chunk \in Seq(Units),
           m + Len(chunk) <= Len(S), \A k \in 1..Len(chunk) : chunk[k] = S[m + k],
           stdout \in [buf : Seq(Units), seen : BOOLEAN, response : BOOLEAN, bytes : Nat],
           Frames(stdout, S, m), stdout.bytes = m
    PROVE  LET read == ReadChunk(chunk)
           IN  /\ read \in Readers /\ read.bytes = m + Len(chunk)
               /\ read.verdict = "none" => Frames(read, S, m + Len(chunk)) /\ Len(read.buf) <= FrameLimit
               /\ read.verdict = "IPC_PROTOCOL_ERROR" =>
                     \/ 1 + (m + Len(chunk)) > TotalLimit
                     \/ FrameLimit >= 2 => Hopeless(S, m + Len(chunk))
               /\ read.verdict = "CANCELLED" => \E i \in 1..(m + Len(chunk)) : S[i] = "cancelled"
<1> DEFINE start == [buf |-> stdout.buf, seen |-> stdout.seen, response |-> stdout.response,
                     bytes |-> stdout.bytes + Len(chunk), verdict |-> "none"]
           read == FoldLeft(ReadUnit, start, chunk)
           n == m + Len(chunk)
<1>0. Len(chunk) \in Nat /\ n \in Nat
  OBVIOUS
<1>1. start \in Readers
  BY <1>0 DEF Readers, Verdicts
<1>2. Reader(start, S, m)
  BY <1>1 DEF Reader, Frames
<1>3. Reader(read, S, n) /\ read.bytes = start.bytes /\ start.bytes = n
  <2> HIDE DEF start
  <2>1. Reader(read, S, n) /\ read.bytes = start.bytes
    BY <1>2, UnitsAreRead
  <2>2. start.bytes = n
    BY DEF start
  <2> QED BY <2>1, <2>2
<1> HIDE DEF start, read
<1>4. CASE 1 + start.bytes > TotalLimit
  <2>1. ReadChunk(chunk) = [start EXCEPT !.verdict = "IPC_PROTOCOL_ERROR"]
    BY <1>4 DEF ReadChunk, start
  <2>2. /\ [start EXCEPT !.verdict = "IPC_PROTOCOL_ERROR"] \in Readers
        /\ [start EXCEPT !.verdict = "IPC_PROTOCOL_ERROR"].bytes = start.bytes
        /\ [start EXCEPT !.verdict = "IPC_PROTOCOL_ERROR"].verdict = "IPC_PROTOCOL_ERROR"
    BY <1>1 DEF Readers, Verdicts
  <2> QED BY <1>3, <1>4, <2>1, <2>2
<1>5. CASE ~(1 + start.bytes > TotalLimit) /\ read.verdict = "none" /\ Len(read.buf) > FrameLimit
  <2>1. ReadChunk(chunk) = [read EXCEPT !.verdict = "IPC_PROTOCOL_ERROR"]
    BY <1>5 DEF ReadChunk, start, read
  <2>2. /\ [read EXCEPT !.verdict = "IPC_PROTOCOL_ERROR"] \in Readers
        /\ [read EXCEPT !.verdict = "IPC_PROTOCOL_ERROR"].bytes = read.bytes
        /\ [read EXCEPT !.verdict = "IPC_PROTOCOL_ERROR"].verdict = "IPC_PROTOCOL_ERROR"
    BY <1>3 DEF Reader, Readers, Verdicts
  <2>3. FrameLimit >= 2 => Hopeless(S, n)
    <3>1. Frames(read, S, n) /\ Len(read.buf) \in Nat
      BY <1>3, <1>5 DEF Reader, Readers
    <3> QED BY <1>0, <1>5, <3>1, LimitsAssumption DEF Frames, Hopeless
  <2> QED BY <1>3, <2>1, <2>2, <2>3
<1>6. CASE ~(1 + start.bytes > TotalLimit) /\ ~(read.verdict = "none" /\ Len(read.buf) > FrameLimit)
  <2>1. ReadChunk(chunk) = read
    BY <1>6 DEF ReadChunk, start, read
  <2>2. read.verdict = "none" => Len(read.buf) <= FrameLimit
    <3>1. Len(read.buf) \in Nat /\ FrameLimit \in Nat
      BY <1>3, LimitsAssumption DEF Reader, Readers
    <3> QED BY <1>6, <3>1
  <2> QED BY <1>3, <2>1, <2>2 DEF Reader
<1> QED
  BY <1>4, <1>5, <1>6

LEMMA ShortOutputs ==
    ASSUME NEW R \in Seq(Units)
    PROVE  /\ R = <<"answer">> <=> Len(R) = 1 /\ R[1] = "answer"
           /\ R = <<"head">> <=> Len(R) = 1 /\ R[1] = "head"
           /\ R = <<"head", "tail">> <=> Len(R) = 2 /\ R[1] = "head" /\ R[2] = "tail"
<1>1. R = <<"answer">> <=> Len(R) = 1 /\ R[1] = "answer"
  OBVIOUS
<1>2. R = <<"head">> <=> Len(R) = 1 /\ R[1] = "head"
  OBVIOUS
<1>3. R = <<"head", "tail">> <=> Len(R) = 2 /\ R[1] = "head" /\ R[2] = "tail"
  OBVIOUS
<1> QED
  BY <1>1, <1>2, <1>3

\* What was read is no answer, nor its beginning.
LEMMA HopelessRead ==
    ASSUME NEW S \in Seq(Units), NEW n \in 0..Len(S), Hopeless(S, n)
    PROVE  SubSeq(S, 1, n) \notin OneAnswer \cup {<<>>, <<"head">>}
<1> DEFINE R == SubSeq(S, 1, n)
<1>1. R \in Seq(Units) /\ Len(R) = n /\ \A i \in 1..n : R[i] = S[i]
  OBVIOUS
<1> HIDE DEF R
<1>2. R # <<>>
  <2>1. Len(<<>>) = 0
    OBVIOUS
  <2> QED BY <1>1, <2>1 DEF Hopeless
<1>3. R # <<"head">> /\ R # <<"answer">> /\ R # <<"head", "tail">>
  <2>1. /\ n = 1 => R[1] = S[1]
        /\ n = 2 => R[1] = S[1] /\ R[2] = S[2]
    BY <1>1
  <2> QED BY <1>1, <2>1, ShortOutputs DEF Hopeless
<1> QED
  BY <1>2, <1>3 DEF OneAnswer, R

\* What was read is one answer exactly when the reader has its response and
\* nothing behind it.
LEMMA AnswerRead ==
    ASSUME NEW S \in Seq(Units), NEW n \in 0..Len(S), NEW r, r.buf \in Seq(Units), r.seen \in BOOLEAN,
           Frames(r, S, n)
    PROVE  SubSeq(S, 1, n) \in OneAnswer <=> r.buf = <<>> /\ r.response
<1> DEFINE R == SubSeq(S, 1, n)
<1>1. R \in Seq(Units) /\ Len(R) = n /\ \A i \in 1..n : R[i] = S[i]
  OBVIOUS
<1>2. Len(r.buf) \in Nat /\ (Len(r.buf) = 0 <=> r.buf = <<>>)
  OBVIOUS
<1> HIDE DEF R
<1>3. R \in OneAnswer <=> \/ n = 1 /\ S[1] = "answer"
                          \/ n = 2 /\ S[1] = "head" /\ S[2] = "tail"
  <2>1. /\ n = 1 => R[1] = S[1]
        /\ n = 2 => R[1] = S[1] /\ R[2] = S[2]
    BY <1>1
  <2>2. R = <<"answer">> <=> n = 1 /\ S[1] = "answer"
    BY <1>1, <2>1, ShortOutputs
  <2>3. R = <<"head", "tail">> <=> n = 2 /\ S[1] = "head" /\ S[2] = "tail"
    BY <1>1, <2>1, ShortOutputs
  <2> QED BY <2>2, <2>3 DEF OneAnswer
<1>4. CASE r.seen
  BY <1>2, <1>3, <1>4 DEF Frames, R
<1>5. CASE ~r.seen
  <2>1. ~r.response /\ \A i \in 1..n : S[i] = "head"
    BY <1>5 DEF Frames
  <2>2. ~(n = 1 /\ S[1] = "answer") /\ ~(n = 2 /\ S[2] = "tail")
    BY <2>1
  <2> QED BY <1>3, <2>1, <2>2 DEF R
<1> QED
  BY <1>4, <1>5

------------------------------------------------------------------------------
(* The run. *)

Consumed == Len(printed) - Len(pipe)

\* The promise, the timers and the kill: a run in progress has sent none, and
\* its deadline ticks; a settled one has no deadline.
Control ==
    /\ ~settled => ~killed /\ ~asked /\ grace = "none"
    /\ settled => timer = "cleared" /\ promise \in {"resolved", "rejected"}
    /\ settled /\ promise = "rejected" => killed \/ grace = "armed"
    /\ grace = "fired" => killed
    /\ promise = "resolved" => settled /\ ~killed /\ ~asked /\ grace = "none"
    /\ promise = "pending" => ~settled

\* There is a process once run() has got as far as launching it, and a run in
\* progress listens to it.
Begun ==
    /\ promise = "idle" => proc = "none"
    /\ proc = "none" => /\ promise \in {"idle", "rejected"} /\ ~settled
                        /\ timer = "none" /\ ~listening /\ ~sent
    /\ proc # "none" /\ ~settled => promise = "pending" /\ listening

\* What the run has seen of the end of its worker is so.
Ends ==
    /\ proc = "exited" => closed /\ status \in Statuses
    /\ proc # "exited" => status = "none" /\ exitCode = "none"
    /\ exitCode # "none" => exitCode = status
    /\ stdoutEnded => closed /\ pipe = <<>>
    /\ stderrEnded => closed /\ stderrBytes = Len(errPrinted) /\ ~stderrOpen
    /\ stderrBytes <= Len(errPrinted)
    /\ ~settled => /\ stderrBytes <= StderrLimit
                   /\ BeginsText(errPrinted, stderrBytes)
                   /\ stderrOpen <=> stderrBytes > 0 /\ errPrinted[stderrBytes] = "lead"

\* The pipe holds the last units printed, and the reader knows of the others.
Wire ==
    /\ Len(pipe) <= Len(printed)
    /\ \A k \in 1..Len(pipe) : pipe[k] = printed[Consumed + k]
    /\ ~settled => Frames(stdout, printed, Consumed) /\ stdout.bytes = Consumed

IInv == /\ TypeOK /\ Control /\ Begun /\ Ends /\ Wire
        /\ ResolvedMeansComplete
        /\ FrameLimit >= 2 => BlameIsTrue

LEMMA InitIInv == Init => IInv
<1> SUFFICES ASSUME Init PROVE IInv
  OBVIOUS
<1>1. <<>> \in Seq(Units) /\ <<>> \in Seq(ErrUnits) /\ Len(<<>>) = 0
  OBVIOUS
<1>2. TypeOK
  <2>1. stdout \in [buf : Seq(Units), seen : BOOLEAN, response : BOOLEAN, bytes : Nat]
    BY <1>1 DEF Init, NoFrames
  <2>2. Len(stdout.buf) <= FrameLimit
    BY <1>1, LimitsAssumption DEF Init, NoFrames
  <2>3. pipe \in Seq(Units) /\ printed \in Seq(Units) /\ stderrBytes \in Nat
        /\ stderrOpen \in BOOLEAN /\ errPrinted \in Seq(ErrUnits)
    BY <1>1 DEF Init
  <2>4. {exitCode, status} \subseteq Statuses \cup {"none"}
    BY DEF Init
  <2> QED BY <2>1, <2>2, <2>3, <2>4 DEF Init, TypeOK, Codes
<1>3. Control /\ Begun /\ Ends
  BY <1>1, LimitsAssumption DEF Init, Control, Begun, Ends, BeginsText
<1>4. Wire
  BY <1>1 DEF Init, Wire, Consumed, Frames, NoFrames
<1>5. ResolvedMeansComplete /\ BlameIsTrue
  BY DEF Init, ResolvedMeansComplete, BlameIsTrue
<1> QED
  BY <1>2, <1>3, <1>4, <1>5 DEF IInv

\* A run that fails is settled, has no deadline, and has its worker killed or
\* its kill timed.
LEMMA FailStep ==
    ASSUME IInv, ~settled, NEW c \in Codes, NEW b, Fail(c, b), proc' # "none"
    PROVE  /\ settled' /\ promise' = "rejected" /\ code' = c /\ timer' = "cleared"
           /\ settled' \in BOOLEAN /\ killed' \in BOOLEAN /\ asked' \in BOOLEAN
           /\ grace' \in {"none", "armed"}
           /\ Control' /\ Begun' /\ ResolvedMeansComplete'
<1>1. /\ killed \in BOOLEAN /\ asked \in BOOLEAN /\ grace = "none" /\ ~killed /\ ~asked
  BY DEF IInv, TypeOK, Control
<1>2. /\ settled' = TRUE /\ promise' = "rejected" /\ code' = c /\ timer' = "cleared"
      /\ killed' \in BOOLEAN /\ asked' \in BOOLEAN
      /\ grace' \in {"none", "armed"} /\ (killed' \/ grace' = "armed")
  BY <1>1 DEF Fail
<1> QED
  BY <1>2 DEF Control, Begun, ResolvedMeansComplete

\* What a rejection has to show for its code.
LEMMA BlameOf ==
    ASSUME code' = "IPC_PROTOCOL_ERROR" =>
               \/ request' \in {"oversized", "malformed"}
               \/ stderrBytes' > StderrLimit
               \/ ~BeginsText(errPrinted', stderrBytes')
               \/ ErrRead' /\ ~WholeText(errPrinted', stderrBytes')
               \/ 1 + Len(Read') > TotalLimit
               \/ Read' \notin OneAnswer \cup {<<>>, <<"head">>}
               \/ closed' /\ pipe' = <<>> /\ Read' \notin OneAnswer,
           code' = "CANCELLED" => signalled' \/ \E i \in 1..Len(printed') : printed'[i] = "cancelled",
           code' = "WORKER_EXECUTION_ERROR" => proc' = "none" \/ ~sent' \/ status' = "other"
    PROVE  BlameIsTrue'
<1>1. CASE code' = "IPC_PROTOCOL_ERROR"
  BY <1>1 DEF BlameIsTrue, Read, Unread, ErrRead
<1>2. CASE code' = "CANCELLED"
  BY <1>2 DEF BlameIsTrue
<1>3. CASE code' = "WORKER_EXECUTION_ERROR"
  BY <1>3 DEF BlameIsTrue
<1>4. CASE code' \notin {"IPC_PROTOCOL_ERROR", "CANCELLED", "WORKER_EXECUTION_ERROR"}
  BY <1>4 DEF BlameIsTrue
<1> QED
  BY <1>1, <1>2, <1>3, <1>4

\* What was true when a run settled stays true: no output is read or counted
\* any more, and a worker can only end.
LEMMA SettledStays ==
    ASSUME IInv, promise \in {"resolved", "rejected"},
           UNCHANGED <<promise, code, request, sent, printed, pipe, errPrinted, stderrBytes>>,
           signalled => signalled', closed => closed',
           (proc' = proc /\ status' = status) \/ proc = "alive"
    PROVE  ResolvedMeansComplete' /\ (FrameLimit >= 2 => BlameIsTrue')
<1>1. ResolvedMeansComplete'
  BY DEF IInv, ResolvedMeansComplete
<1>2. ASSUME FrameLimit >= 2, promise = "rejected" PROVE BlameIsTrue'
  <2>1. BlameIsTrue /\ Read' = Read
    BY <1>2 DEF IInv, Read, Unread
  <2>2. code' = "IPC_PROTOCOL_ERROR" =>
               \/ request' \in {"oversized", "malformed"}
               \/ stderrBytes' > StderrLimit
               \/ ~BeginsText(errPrinted', stderrBytes')
               \/ ErrRead' /\ ~WholeText(errPrinted', stderrBytes')
               \/ 1 + Len(Read') > TotalLimit
               \/ Read' \notin OneAnswer \cup {<<>>, <<"head">>}
               \/ closed' /\ pipe' = <<>> /\ Read' \notin OneAnswer
    BY <1>2, <2>1 DEF BlameIsTrue, ErrRead
  <2>3. code' = "CANCELLED" => signalled' \/ \E i \in 1..Len(printed') : printed'[i] = "cancelled"
    BY <1>2, <2>1 DEF BlameIsTrue
  <2>4. code' = "WORKER_EXECUTION_ERROR" => proc' = "none" \/ ~sent' \/ status' = "other"
    <3>1. code = "WORKER_EXECUTION_ERROR" => proc = "none" \/ ~sent \/ status = "other"
      BY <1>2, <2>1 DEF BlameIsTrue
    <3>2. status = "other" => proc = "exited"
      BY DEF IInv, Ends
    <3> QED BY <3>1, <3>2
  <2> QED BY <2>2, <2>3, <2>4, BlameOf
<1>3. promise # "rejected" => BlameIsTrue'
  BY DEF BlameIsTrue
<1> QED
  BY <1>1, <1>2, <1>3

LEMMA CompleteFacts ==
    ASSUME NEW e, NEW o \in BOOLEAN, NEW r \in BOOLEAN, Complete(e, o, r)
    PROVE  \/ UNCHANGED control
           \/ /\ e \notin {"none", "zero"}
              /\ Fail("WORKER_EXECUTION_ERROR", FALSE)
           \/ /\ e = "zero" /\ o /\ r /\ (stdout.buf # <<>> \/ ~stdout.response)
              /\ Fail("IPC_PROTOCOL_ERROR", FALSE)
           \/ /\ e = "zero" /\ o /\ r /\ stdout.buf = <<>> /\ stdout.response
              /\ Succeed
  BY DEF Complete

\* An EOF or the exit is noted, and the run completed if it was the last of the
\* three.
LEMMA CompleteStep ==
    ASSUME IInv, listening, ~settled, Complete(exitCode', stdoutEnded', stderrEnded'),
           UNCHANGED <<caller, worker, listening, stdout, stderrBytes, stderrOpen>>,
           exitCode' \in Statuses \cup {"none"}, stdoutEnded' \in BOOLEAN, stderrEnded' \in BOOLEAN,
           /\ exitCode' # "none" => exitCode' = status /\ proc = "exited"
           /\ stdoutEnded' => closed /\ pipe = <<>>
           /\ stderrEnded' => closed /\ stderrBytes = Len(errPrinted) /\ ~stderrOpen
    PROVE  IInv'
<1> USE DEF caller, worker
<1>0. /\ proc # "none" /\ promise = "pending" /\ stderrBytes <= StderrLimit
      /\ printed \in Seq(Units) /\ pipe \in Seq(Units)
      /\ stdout \in [buf : Seq(Units), seen : BOOLEAN, response : BOOLEAN, bytes : Nat]
      /\ Len(stdout.buf) <= FrameLimit
      /\ Frames(stdout, printed, Consumed) /\ stdout.bytes = Consumed
      /\ UNCHANGED <<request, signalled, sent, proc, closed, pipe, status, printed, errPrinted>>
  BY DEF IInv, TypeOK, Begun, Ends, Wire
<1>1. Ends'
  BY <1>0 DEF IInv, Ends
<1>2. Wire'
  BY <1>0 DEF IInv, Wire, Consumed, Frames
<1>3. /\ pipe = <<>> => Consumed = Len(printed) /\ SubSeq(printed, 1, Consumed) = printed
      /\ Consumed \in 0..Len(printed)
      /\ Read' = SubSeq(printed, 1, Consumed)
  <2>1. Len(printed) \in Nat /\ Len(pipe) \in Nat /\ Len(pipe) <= Len(printed)
    BY <1>0 DEF IInv, Wire
  <2>2. SubSeq(printed, 1, Len(printed)) = printed
    BY <1>0
  <2>3. Read' = SubSeq(printed, 1, Consumed)
    BY <1>0 DEF Read, Unread, Consumed
  <2>4. Consumed \in 0..Len(printed)
    BY ONLY <2>1 DEF Consumed
  <2>5. pipe = <<>> => Len(pipe) = 0
    OBVIOUS
  <2>6. pipe = <<>> => Consumed = Len(printed)
    BY ONLY <2>1, <2>5 DEF Consumed
  <2> QED BY <2>2, <2>3, <2>4, <2>6
<1>4. CASE UNCHANGED control
  <2>1. TypeOK' /\ Control' /\ Begun'
    BY <1>0, <1>4 DEF control, IInv, TypeOK, Control, Begun
  <2>2. ResolvedMeansComplete' /\ BlameIsTrue'
    BY <1>0, <1>4 DEF control, ResolvedMeansComplete, BlameIsTrue
  <2> QED BY <1>1, <1>2, <2>1, <2>2 DEF IInv
<1>5. ASSUME NEW c \in Codes, Fail(c, FALSE),
             /\ c = "WORKER_EXECUTION_ERROR" => exitCode' \notin {"none", "zero"}
             /\ c = "IPC_PROTOCOL_ERROR" => stdoutEnded' /\ (stdout.buf # <<>> \/ ~stdout.response)
             /\ c \in {"WORKER_EXECUTION_ERROR", "IPC_PROTOCOL_ERROR"}
      PROVE  IInv'
  <2>1. /\ settled' /\ promise' = "rejected" /\ code' = c /\ timer' = "cleared"
        /\ settled' \in BOOLEAN /\ killed' \in BOOLEAN /\ asked' \in BOOLEAN
        /\ grace' \in {"none", "armed"} /\ Control' /\ Begun' /\ ResolvedMeansComplete'
    BY <1>0, <1>5, FailStep
  <2>2. TypeOK'
    BY <1>0, <2>1 DEF IInv, TypeOK
  <2>3. BlameIsTrue'
    <3>1. c = "WORKER_EXECUTION_ERROR" => status' = "other"
      BY <1>0, <1>5 DEF Statuses
    <3>2. c = "IPC_PROTOCOL_ERROR" => closed' /\ pipe' = <<>> /\ Read' \notin OneAnswer
      BY <1>0, <1>3, <1>5, AnswerRead
    <3> QED BY <1>5, <2>1, <3>1, <3>2, BlameOf
  <2> QED BY <1>1, <1>2, <2>1, <2>2, <2>3 DEF IInv
<1>6. ASSUME Succeed, exitCode' = "zero", stdoutEnded', stderrEnded', stdout.buf = <<>>, stdout.response
      PROVE  IInv'
  <2>1. /\ settled' = TRUE /\ promise' = "resolved" /\ timer' = "cleared"
        /\ UNCHANGED <<code, grace, killed, asked>>
    BY <1>6 DEF Succeed
  <2>2. TypeOK' /\ Control' /\ Begun'
    BY <1>0, <2>1 DEF IInv, TypeOK, Control, Begun
  <2>3. ResolvedMeansComplete'
    <3>1. printed \in OneAnswer
      BY <1>0, <1>3, <1>6, AnswerRead
    <3>2. stderrBytes = Len(errPrinted) /\ ~stderrOpen /\ WholeText(errPrinted, stderrBytes)
      BY <1>0, <1>6 DEF IInv, Ends, WholeText
    <3> QED BY <1>0, <1>6, <3>1, <3>2 DEF ResolvedMeansComplete
  <2>4. BlameIsTrue'
    BY <2>1 DEF BlameIsTrue
  <2> QED BY <1>1, <1>2, <2>2, <2>3, <2>4 DEF IInv
<1> QED
  <2>1. {"WORKER_EXECUTION_ERROR", "IPC_PROTOCOL_ERROR"} \subseteq Codes
    BY DEF Codes
  <2> QED BY <1>4, <1>5, <1>6, <2>1, CompleteFacts

------------------------------------------------------------------------------
(* One lemma per step. *)

LEMMA RefuseStep ==
    ASSUME IInv, RefuseRun \/ LaunchFails PROVE IInv'
<1>1. /\ promise = "idle" /\ proc = "none" /\ ~settled
      /\ promise' = "rejected" /\ code' \in Codes
      /\ UNCHANGED <<caller, reader, worker, settled, timer, grace, killed, asked, listening>>
  BY DEF IInv, Begun, RefuseRun, LaunchFails, Refusal, Codes
<1>2. TypeOK'
  BY <1>1 DEF IInv, TypeOK, caller, reader, worker
<1>3. Control' /\ Begun'
  BY <1>1 DEF IInv, Control, Begun, worker
<1>4. Ends' /\ Wire'
  BY <1>1 DEF IInv, Ends, Wire, Consumed, Frames, reader, worker
<1>5. ResolvedMeansComplete'
  BY <1>1 DEF ResolvedMeansComplete
<1>6. BlameIsTrue'
  <2>1. RefuseRun => code' = Refusal /\ request' = request
    BY DEF RefuseRun, caller
  <2>2. LaunchFails => code' = "WORKER_EXECUTION_ERROR" /\ proc' = "none"
    BY <1>1 DEF LaunchFails, worker
  <2>3. code' = "IPC_PROTOCOL_ERROR" => request' \in {"oversized", "malformed"}
    BY <2>1, <2>2 DEF Refusal
  <2>4. code' # "CANCELLED" /\ (code' = "WORKER_EXECUTION_ERROR" => proc' = "none")
    BY <1>1, <2>1, <2>2 DEF Refusal, worker
  <2> QED BY <2>3, <2>4, BlameOf
<1> QED
  BY <1>2, <1>3, <1>4, <1>5, <1>6 DEF IInv

\* Launching: the pipes are new and nothing was read.
LEMMA RunStep ==
    ASSUME IInv, RunAborted \/ Run PROVE IInv'
<1>1. /\ promise = "idle" /\ proc = "none" /\ ~settled /\ ~listening /\ ~sent
      /\ proc' = "alive" /\ listening' \in BOOLEAN
      /\ UNCHANGED <<caller, reader, closed, pipe, status, printed, errPrinted>>
  BY DEF IInv, TypeOK, Begun, RunAborted, Run
<1>2. Ends' /\ Wire'
  BY <1>1 DEF IInv, Ends, Wire, Consumed, Frames, reader
<1>3. CASE RunAborted
  <2>1. Fail("CANCELLED", TRUE) /\ signalled' /\ sent' = sent
    BY <1>3 DEF RunAborted, caller
  <2>2. /\ settled' /\ promise' = "rejected" /\ code' = "CANCELLED" /\ timer' = "cleared"
        /\ settled' \in BOOLEAN /\ killed' \in BOOLEAN /\ asked' \in BOOLEAN
        /\ grace' \in {"none", "armed"} /\ Control' /\ Begun' /\ ResolvedMeansComplete'
    BY <1>1, <2>1, FailStep DEF Codes
  <2>3. TypeOK'
    BY <1>1, <2>1, <2>2 DEF IInv, TypeOK, Codes, caller, reader
  <2>4. BlameIsTrue'
    BY <2>1, <2>2, BlameOf
  <2> QED BY <1>2, <2>2, <2>3, <2>4 DEF IInv
<1>4. CASE Run /\ ~sent'
  <2>1. Fail("WORKER_EXECUTION_ERROR", FALSE) /\ sent' = sent
    BY <1>4 DEF Run
  <2>2. /\ settled' /\ promise' = "rejected" /\ code' = "WORKER_EXECUTION_ERROR" /\ timer' = "cleared"
        /\ settled' \in BOOLEAN /\ killed' \in BOOLEAN /\ asked' \in BOOLEAN
        /\ grace' \in {"none", "armed"} /\ Control' /\ Begun' /\ ResolvedMeansComplete'
    BY <1>1, <2>1, FailStep DEF Codes
  <2>3. TypeOK'
    BY <1>1, <2>1, <2>2 DEF IInv, TypeOK, Codes, caller, reader
  <2>4. BlameIsTrue'
    BY <1>4, <2>2, BlameOf
  <2> QED BY <1>2, <2>2, <2>3, <2>4 DEF IInv
<1>5. CASE Run /\ sent'
  <2>1. /\ listening' = TRUE /\ sent' = TRUE /\ promise' = "pending" /\ timer' = "armed"
        /\ UNCHANGED <<code, settled, grace, killed, asked>>
    BY <1>1, <1>5 DEF Run
  <2>2. TypeOK'
    BY <1>1, <2>1 DEF IInv, TypeOK, caller, reader
  <2>3. Control' /\ Begun'
    BY <1>1, <2>1 DEF IInv, Control, Begun
  <2>4. ResolvedMeansComplete' /\ BlameIsTrue'
    BY <2>1 DEF ResolvedMeansComplete, BlameIsTrue
  <2> QED BY <1>2, <2>2, <2>3, <2>4 DEF IInv
<1> QED
  BY <1>3, <1>4, <1>5

LEMMA AbortStep ==
    ASSUME IInv, Abort PROVE IInv'
<1>1. /\ signalled' = TRUE
      /\ UNCHANGED <<request, stdout, stderrBytes, stderrOpen, exitCode, stdoutEnded, stderrEnded, sent, proc,
                     closed, pipe, status, printed, errPrinted, listening>>
  BY DEF Abort, reader, worker
<1>2. Wire'
  <2>1. settled => settled'
    BY DEF Abort, Fail, control
  <2> QED BY <1>1, <2>1 DEF IInv, Wire, Consumed, Frames
<1>3. CASE listening /\ ~settled
  <2>1. Fail("CANCELLED", TRUE) /\ proc' # "none"
    BY <1>1, <1>3 DEF Abort, IInv, Begun
  <2>2. /\ settled' /\ promise' = "rejected" /\ code' = "CANCELLED" /\ timer' = "cleared"
        /\ settled' \in BOOLEAN /\ killed' \in BOOLEAN /\ asked' \in BOOLEAN
        /\ grace' \in {"none", "armed"} /\ Control' /\ Begun' /\ ResolvedMeansComplete'
    BY <1>3, <2>1, FailStep DEF Codes
  <2>3. TypeOK'
    BY <1>1, <2>2 DEF IInv, TypeOK, Codes
  <2>4. Ends'
    BY <1>1, <1>3 DEF IInv, Ends
  <2>5. BlameIsTrue'
    BY <1>1, <2>2, BlameOf
  <2> QED BY <1>2, <2>2, <2>3, <2>4, <2>5 DEF IInv
<1>4. CASE ~(listening /\ ~settled)
  <2>1. UNCHANGED <<promise, code, settled, timer, grace, killed, asked>>
    BY <1>4 DEF Abort, control
  <2>2. TypeOK'
    BY <1>1, <2>1 DEF IInv, TypeOK
  <2>3. Control' /\ Begun' /\ Ends'
    BY <1>1, <2>1 DEF IInv, Control, Begun, Ends
  <2>4. ResolvedMeansComplete' /\ (FrameLimit >= 2 => BlameIsTrue')
    <3>1. CASE promise \in {"resolved", "rejected"}
      BY <1>1, <2>1, <3>1, SettledStays
    <3>2. CASE promise \notin {"resolved", "rejected"}
      BY <2>1, <3>2 DEF ResolvedMeansComplete, BlameIsTrue
    <3> QED BY <3>1, <3>2
  <2> QED BY <1>2, <2>2, <2>3, <2>4 DEF IInv
<1> QED
  BY <1>3, <1>4

LEMMA TimeoutStep ==
    ASSUME IInv, Timeout PROVE IInv'
<1>1. /\ ~settled /\ timer = "armed" /\ Fail("WORKER_TIMEOUT", TRUE)
      /\ UNCHANGED <<request, signalled, stdout, stderrBytes, stderrOpen, exitCode, stdoutEnded, stderrEnded,
                     sent, proc, closed, pipe, status, printed, errPrinted, listening>>
  BY DEF Timeout, caller, reader, worker
<1>2. proc' # "none"
  BY <1>1 DEF IInv, Begun
<1>3. /\ settled' /\ promise' = "rejected" /\ code' = "WORKER_TIMEOUT" /\ timer' = "cleared"
      /\ settled' \in BOOLEAN /\ killed' \in BOOLEAN /\ asked' \in BOOLEAN
      /\ grace' \in {"none", "armed"} /\ Control' /\ Begun' /\ ResolvedMeansComplete'
  BY <1>1, <1>2, FailStep DEF Codes
<1>4. TypeOK'
  BY <1>1, <1>3 DEF IInv, TypeOK, Codes
<1>5. Ends' /\ Wire'
  BY <1>1, <1>3 DEF IInv, Ends, Wire, Consumed
<1>6. BlameIsTrue'
  BY <1>3, BlameOf
<1> QED
  BY <1>3, <1>4, <1>5, <1>6 DEF IInv

LEMMA GraceStep ==
    ASSUME IInv, GraceEnds PROVE IInv'
<1>1. /\ grace = "armed" /\ grace' = "fired" /\ killed' = TRUE
      /\ UNCHANGED <<request, signalled, stdout, stderrBytes, stderrOpen, exitCode, stdoutEnded, stderrEnded,
                     sent, proc, closed, pipe, status, printed, errPrinted, listening,
                     promise, code, settled, timer, asked>>
  BY DEF GraceEnds, caller, reader, worker
<1>2. settled /\ promise = "rejected"
  BY <1>1 DEF IInv, Control
<1>3. TypeOK'
  BY <1>1 DEF IInv, TypeOK
<1>4. Control' /\ Begun' /\ Ends'
  BY <1>1, <1>2 DEF IInv, Control, Begun, Ends
<1>5. Wire'
  BY <1>1 DEF IInv, Wire, Consumed, Frames
<1>6. ResolvedMeansComplete' /\ (FrameLimit >= 2 => BlameIsTrue')
  BY <1>1, <1>2, SettledStays
<1> QED
  BY <1>3, <1>4, <1>5, <1>6 DEF IInv

\* A chunk is read: what is left of the pipe, and what the reader then knows.
LEMMA StdoutStep ==
    ASSUME IInv, OnStdout PROVE IInv'
<1> PICK n \in 1..Len(pipe) :
      LET read == ReadChunk(SubSeq(pipe, 1, n))
      IN  /\ listening /\ ~settled /\ n <= ChunkBound
          /\ pipe' = SubSeq(pipe, n + 1, Len(pipe))
          /\ stdout' = Kept(read)
          /\ IF read.verdict = "none" THEN UNCHANGED control
             ELSE Fail(read.verdict, read.verdict = "CANCELLED")
          /\ UNCHANGED <<caller, listening, stderrBytes, stderrOpen, exitCode, stdoutEnded, stderrEnded,
                         sent, proc, closed, status, printed, errPrinted>>
  BY DEF OnStdout
<1> DEFINE chunk == SubSeq(pipe, 1, n)
           read == ReadChunk(chunk)
           m == Consumed
<1>1. /\ ~settled /\ listening /\ proc # "none" /\ promise = "pending" /\ stderrBytes <= StderrLimit
      /\ printed \in Seq(Units) /\ pipe \in Seq(Units)
      /\ stdout \in [buf : Seq(Units), seen : BOOLEAN, response : BOOLEAN, bytes : Nat]
      /\ Frames(stdout, printed, Consumed) /\ stdout.bytes = Consumed
      /\ Len(pipe) <= Len(printed)
      /\ \A k \in 1..Len(pipe) : pipe[k] = printed[Consumed + k]
      /\ UNCHANGED <<request, signalled, listening, stderrBytes, stderrOpen, exitCode, stdoutEnded, stderrEnded,
                     sent, proc, closed, status, printed, errPrinted>>
  BY DEF IInv, TypeOK, Begun, Ends, Wire, caller
<1>2. /\ chunk \in Seq(Units) /\ Len(chunk) = n /\ \A k \in 1..n : chunk[k] = pipe[k]
      /\ pipe' \in Seq(Units) /\ Len(pipe') = Len(pipe) - n
      /\ \A k \in 1..(Len(pipe) - n) : pipe'[k] = pipe[n + k]
  BY <1>1
<1>3. /\ m \in Nat /\ m + n \in 0..Len(printed) /\ n \in Nat
      /\ Len(pipe) \in Nat /\ Len(printed) \in Nat
  <2>1. Len(pipe) \in Nat /\ Len(printed) \in Nat /\ n \in 1..Len(pipe) /\ Len(pipe) <= Len(printed)
    BY <1>1
  <2> QED BY ONLY <2>1 DEF Consumed
<1>4. \A k \in 1..Len(chunk) : chunk[k] = printed[m + k]
  BY <1>1, <1>2
<1>5. Consumed' = m + n
  <2>1. Len(pipe') = Len(pipe) - n /\ Len(printed') = Len(printed)
    BY <1>1, <1>2
  <2> QED BY ONLY <1>3, <2>1 DEF Consumed
<1>6. /\ Len(pipe') <= Len(printed')
      /\ \A k \in 1..Len(pipe') : pipe'[k] = printed'[Consumed' + k]
  <2>1. ASSUME NEW k \in 1..Len(pipe') PROVE pipe'[k] = printed'[Consumed' + k]
    <3>1. k \in 1..(Len(pipe) - n) /\ pipe'[k] = pipe[n + k]
      BY <1>2, <2>1
    <3>2. n + k \in 1..Len(pipe)
      BY ONLY <1>3, <3>1
    <3>3. pipe[n + k] = printed[Consumed + (n + k)]
      BY <1>1, <3>2
    <3>4. Consumed + (n + k) = (m + n) + k
      BY ONLY <1>3, <3>1 DEF m
    <3> QED BY <1>1, <1>5, <3>1, <3>3, <3>4
  <2>2. Len(pipe') <= Len(printed')
    BY <1>1, <1>2, <1>3
  <2> QED BY <2>1, <2>2
<1>7. /\ read \in Readers /\ read.bytes = m + n
      /\ read.verdict = "none" => Frames(read, printed, m + n) /\ Len(read.buf) <= FrameLimit
      /\ read.verdict = "IPC_PROTOCOL_ERROR" =>
            \/ 1 + (m + n) > TotalLimit
            \/ FrameLimit >= 2 => Hopeless(printed, m + n)
      /\ read.verdict = "CANCELLED" => \E i \in 1..(m + n) : printed[i] = "cancelled"
  <2>1. m + Len(chunk) <= Len(printed)
    BY <1>2, <1>3
  <2>2. Frames(stdout, printed, m) /\ stdout.bytes = m
    BY <1>1
  <2> HIDE DEF chunk, m
  <2>3. /\ read \in Readers /\ read.bytes = m + Len(chunk)
        /\ read.verdict = "none" => Frames(read, printed, m + Len(chunk)) /\ Len(read.buf) <= FrameLimit
        /\ read.verdict = "IPC_PROTOCOL_ERROR" =>
              \/ 1 + (m + Len(chunk)) > TotalLimit
              \/ FrameLimit >= 2 => Hopeless(printed, m + Len(chunk))
        /\ read.verdict = "CANCELLED" => \E i \in 1..(m + Len(chunk)) : printed[i] = "cancelled"
    <3>1. m \in Nat /\ chunk \in Seq(Units) /\ printed \in Seq(Units)
          /\ stdout \in [buf : Seq(Units), seen : BOOLEAN, response : BOOLEAN, bytes : Nat]
      BY <1>1, <1>2, <1>3
    <3> QED BY ONLY <3>1, <1>4, <2>1, <2>2, ChunkVerdict
  <2> HIDE DEF read
  <2> QED BY <1>2, <2>3
<1> HIDE DEF read, chunk, m
<1>8. /\ stdout' = Kept(read)
      /\ read.verdict = "none" => UNCHANGED control
      /\ read.verdict # "none" => Fail(read.verdict, read.verdict = "CANCELLED")
  BY DEF read, chunk
<1>9. /\ stdout' \in [buf : Seq(Units), seen : BOOLEAN, response : BOOLEAN, bytes : Nat]
      /\ stdout'.buf = read.buf /\ stdout'.seen = read.seen /\ stdout'.response = read.response
      /\ stdout'.bytes = m + n
  BY <1>7, <1>8 DEF Kept, Readers
<1>10. Ends'
  <2>1. ~stdoutEnded
    <3>1. stdoutEnded => Len(pipe) = 0
      BY DEF IInv, Ends
    <3> QED BY <1>3, <3>1
  <2> QED BY <1>1, <2>1 DEF IInv, Ends
<1>11. CASE read.verdict = "none"
  <2>1. UNCHANGED <<promise, code, settled, timer, grace, killed, asked>>
    BY <1>8, <1>11 DEF control
  <2>2. TypeOK'
    BY <1>1, <1>2, <1>7, <1>9, <1>11, <2>1 DEF IInv, TypeOK
  <2>3. Control' /\ Begun'
    BY <1>1, <2>1 DEF IInv, Control, Begun
  <2>4. Frames(stdout', printed', Consumed') /\ stdout'.bytes = Consumed'
    BY <1>1, <1>5, <1>7, <1>9, <1>11 DEF Frames
  <2>5. Wire'
    BY <1>6, <2>4 DEF Wire
  <2>6. ResolvedMeansComplete' /\ BlameIsTrue'
    BY <1>1, <2>1 DEF ResolvedMeansComplete, BlameIsTrue
  <2> QED BY <1>10, <2>2, <2>3, <2>5, <2>6 DEF IInv
<1>12. CASE read.verdict # "none"
  <2>1. Fail(read.verdict, read.verdict = "CANCELLED") /\ proc' # "none"
    BY <1>1, <1>8, <1>12
  <2>2. read.verdict \in {"IPC_PROTOCOL_ERROR", "CANCELLED"} /\ read.verdict \in Codes
    BY <1>7, <1>12 DEF Readers, Verdicts, Codes
  <2>3. /\ settled' /\ promise' = "rejected" /\ code' = read.verdict /\ timer' = "cleared"
        /\ settled' \in BOOLEAN /\ killed' \in BOOLEAN /\ asked' \in BOOLEAN
        /\ grace' \in {"none", "armed"} /\ Control' /\ Begun' /\ ResolvedMeansComplete'
    <3> DEFINE v == read.verdict
    <3>1. v \in Codes /\ Fail(v, v = "CANCELLED")
      BY <2>1, <2>2
    <3> HIDE DEF v
    <3>2. /\ settled' /\ promise' = "rejected" /\ code' = v /\ timer' = "cleared"
          /\ settled' \in BOOLEAN /\ killed' \in BOOLEAN /\ asked' \in BOOLEAN
          /\ grace' \in {"none", "armed"} /\ Control' /\ Begun' /\ ResolvedMeansComplete'
      BY <1>1, <2>1, <3>1, FailStep
    <3> QED BY <3>2 DEF v
  <2>4. TypeOK'
    BY <1>1, <1>2, <1>9, <2>2, <2>3 DEF IInv, TypeOK
  <2>5. Wire'
    BY <1>6, <2>3 DEF Wire
  <2>6. FrameLimit >= 2 => BlameIsTrue'
    <3>1. SUFFICES ASSUME FrameLimit >= 2 PROVE BlameIsTrue'
      OBVIOUS
    <3>2. Len(Read') = m + n /\ Read' = SubSeq(printed, 1, m + n)
      <4>1. Read' = SubSeq(printed, 1, m + n)
        BY <1>1, <1>5 DEF Read, Unread, Consumed
      <4>2. Len(SubSeq(printed, 1, m + n)) = m + n
        BY <1>1, <1>3
      <4> QED BY <4>1, <4>2
    <3>3. read.verdict = "IPC_PROTOCOL_ERROR" =>
              \/ 1 + Len(Read') > TotalLimit
              \/ Read' \notin OneAnswer \cup {<<>>, <<"head">>}
      BY <1>1, <1>3, <1>7, <3>1, <3>2, HopelessRead
    <3>4. ASSUME read.verdict = "CANCELLED"
          PROVE  \E i \in 1..Len(printed') : printed'[i] = "cancelled"
      <4>1. PICK i \in 1..(m + n) : printed[i] = "cancelled"
        BY <1>7, <3>4
      <4>2. i \in 1..Len(printed)
        BY ONLY <1>3, <4>1
      <4> QED BY <1>1, <4>1, <4>2
    <3> QED BY <2>2, <2>3, <3>3, <3>4, BlameOf
  <2> QED BY <1>10, <2>3, <2>4, <2>5, <2>6 DEF IInv
<1> QED
  BY <1>11, <1>12

LEMMA StderrStep ==
    ASSUME IInv, OnStderr PROVE IInv'
<1> DEFINE n    == stderrBytes + 1
           unit == errPrinted[n]
           open == stderrBytes > 0 /\ errPrinted[stderrBytes] = "lead"
<1>1. /\ ~settled /\ listening /\ proc # "none" /\ promise = "pending" /\ stderrBytes < Len(errPrinted)
      /\ stderrBytes' = n /\ stderrOpen' = (unit = "lead")
      /\ stderrBytes \in Nat /\ stderrBytes <= StderrLimit
      /\ BeginsText(errPrinted, stderrBytes)
      /\ stderrOpen <=> stderrBytes > 0 /\ errPrinted[stderrBytes] = "lead"
      /\ UNCHANGED <<request, signalled, listening, stdout, exitCode, stdoutEnded, stderrEnded,
                     sent, proc, closed, pipe, status, printed, errPrinted>>
  BY DEF OnStderr, IInv, TypeOK, Begun, Ends, caller, worker
<1>2. /\ n \in Nat /\ n <= Len(errPrinted) /\ stderrOpen' \in BOOLEAN /\ ~stderrEnded
  <2>1. Len(errPrinted) \in Nat
    BY DEF IInv, TypeOK
  <2>2. ~stderrEnded
    BY <1>1, <2>1 DEF IInv, Ends
  <2> QED BY <1>1, <2>1, <2>2
<1>5. BeginsText(errPrinted, n) <=> (open <=> unit = "rest")
  <2>1. CASE stderrBytes = 0
    <3>1. n = 1 /\ ~open /\ 1..(n - 1) = {}
      BY <1>1, <2>1
    <3>2. BeginsText(errPrinted, n) <=> errPrinted[1] # "rest"
      BY <3>1 DEF BeginsText
    <3> QED BY <3>1, <3>2
  <2>2. CASE stderrBytes > 0
    <3>1. /\ n > 0 /\ n - 1 = stderrBytes
          /\ 1..stderrBytes = 1..(stderrBytes - 1) \cup {stderrBytes}
          /\ open <=> errPrinted[stderrBytes] = "lead"
      BY <1>1, <2>2
    <3>2. BeginsText(errPrinted, n) <=>
             /\ errPrinted[1] # "rest"
             /\ \A i \in 1..stderrBytes : errPrinted[i] = "lead" <=> errPrinted[i + 1] = "rest"
      BY <3>1 DEF BeginsText
    <3>3. /\ errPrinted[1] # "rest"
          /\ \A i \in 1..(stderrBytes - 1) : errPrinted[i] = "lead" <=> errPrinted[i + 1] = "rest"
      BY <1>1, <2>2 DEF BeginsText
    <3> QED BY <3>1, <3>2, <3>3
  <2> QED BY <1>1, <2>1, <2>2
<1>6. stderrOpen # (unit = "rest") <=> ~BeginsText(errPrinted, n)
  <2>1. stderrOpen \in BOOLEAN /\ (stderrOpen <=> open)
    BY <1>1 DEF IInv, TypeOK
  <2> HIDE DEF open, unit, n
  <2> QED BY <1>5, <2>1
<1>3. CASE stderrOpen # (unit = "rest") \/ n > StderrLimit
  <2>1. Fail("IPC_PROTOCOL_ERROR", FALSE) /\ proc' # "none"
    BY <1>1, <1>3 DEF OnStderr
  <2>2. /\ settled' /\ promise' = "rejected" /\ code' = "IPC_PROTOCOL_ERROR" /\ timer' = "cleared"
        /\ settled' \in BOOLEAN /\ killed' \in BOOLEAN /\ asked' \in BOOLEAN
        /\ grace' \in {"none", "armed"} /\ Control' /\ Begun' /\ ResolvedMeansComplete'
    BY <1>1, <2>1, FailStep DEF Codes
  <2>3. TypeOK'
    BY <1>1, <1>2, <2>2 DEF IInv, TypeOK, Codes
  <2>4. Ends' /\ Wire'
    BY <1>1, <1>2, <2>2 DEF IInv, Ends, Wire, Consumed
  <2>6. BlameIsTrue'
    <3>1. ~BeginsText(errPrinted', stderrBytes') \/ stderrBytes' > StderrLimit
      BY <1>1, <1>3, <1>6
    <3> QED BY <2>2, <3>1, BlameOf
  <2> QED BY <2>2, <2>3, <2>4, <2>6 DEF IInv
<1>4. CASE stderrOpen = (unit = "rest") /\ ~(n > StderrLimit)
  <2>1. UNCHANGED <<promise, code, settled, timer, grace, killed, asked>>
    BY <1>1, <1>4 DEF OnStderr, control
  <2>2. TypeOK'
    BY <1>1, <1>2, <2>1 DEF IInv, TypeOK
  <2>3. Control' /\ Begun'
    BY <1>1, <2>1 DEF IInv, Control, Begun
  <2>4. BeginsText(errPrinted, n)
    <3> HIDE DEF n, unit
    <3> QED BY <1>4, <1>6
  <2>5. Ends'
    <3>1. n <= StderrLimit /\ n > 0
      BY <1>1, <1>2, <1>4, LimitsAssumption
    <3> HIDE DEF n
    <3> QED BY <1>1, <1>2, <2>4, <3>1 DEF IInv, Ends
  <2>6. Wire'
    BY <1>1, <2>1 DEF IInv, Wire, Consumed, Frames
  <2>7. ResolvedMeansComplete' /\ BlameIsTrue'
    BY <1>1, <2>1 DEF ResolvedMeansComplete, BlameIsTrue
  <2> QED BY <2>2, <2>3, <2>5, <2>6, <2>7 DEF IInv
<1> QED
  BY <1>3, <1>4

LEMMA StdoutEofStep ==
    ASSUME IInv, OnStdoutEof PROVE IInv'
<1>1. /\ ~settled /\ listening /\ closed /\ pipe = <<>>
      /\ UNCHANGED <<caller, worker, listening, stdout, stderrBytes, stderrOpen, exitCode, stderrEnded>>
      /\ exitCode \in Statuses \cup {"none"} /\ stderrEnded \in BOOLEAN
  BY DEF OnStdoutEof, IInv, TypeOK
<1>2. CASE stdoutEnded' = TRUE /\ Complete(exitCode, TRUE, stderrEnded)
  <2>1. Complete(exitCode', stdoutEnded', stderrEnded')
    BY <1>1, <1>2
  <2>2. exitCode' # "none" => exitCode' = status /\ proc = "exited"
    BY <1>1 DEF IInv, Ends
  <2>3. stderrEnded' => closed /\ stderrBytes = Len(errPrinted) /\ ~stderrOpen
    BY <1>1 DEF IInv, Ends
  <2> QED BY <1>1, <1>2, <2>1, <2>2, <2>3, CompleteStep
<1>3. CASE stdout.buf # <<>> /\ Fail("IPC_PROTOCOL_ERROR", FALSE) /\ UNCHANGED stdoutEnded
  <2>1. /\ UNCHANGED <<request, signalled, sent, proc, closed, pipe, status, printed, errPrinted,
                       listening, stdout, stderrBytes, stderrOpen, exitCode, stdoutEnded, stderrEnded>>
        /\ proc' # "none"
    BY <1>1, <1>3 DEF caller, worker, IInv, Begun
  <2>2. /\ settled' /\ promise' = "rejected" /\ code' = "IPC_PROTOCOL_ERROR" /\ timer' = "cleared"
        /\ settled' \in BOOLEAN /\ killed' \in BOOLEAN /\ asked' \in BOOLEAN
        /\ grace' \in {"none", "armed"} /\ Control' /\ Begun' /\ ResolvedMeansComplete'
    BY <1>1, <1>3, <2>1, FailStep DEF Codes
  <2>3. TypeOK'
    BY <2>1, <2>2 DEF IInv, TypeOK, Codes
  <2>4. Ends' /\ Wire'
    BY <2>1, <2>2 DEF IInv, Ends, Wire, Consumed
  <2>5. closed' /\ pipe' = <<>> /\ Read' \notin OneAnswer
    <3>1. /\ printed \in Seq(Units) /\ Frames(stdout, printed, Consumed)
          /\ stdout.buf \in Seq(Units) /\ stdout.seen \in BOOLEAN
      BY <1>1 DEF IInv, TypeOK, Wire
    <3>2. Consumed \in 0..Len(printed)
      <4>1. Len(printed) \in Nat /\ Len(pipe) \in Nat /\ Len(pipe) <= Len(printed)
        BY DEF IInv, TypeOK, Wire
      <4> QED BY ONLY <4>1 DEF Consumed
    <3>3. Read' = SubSeq(printed, 1, Consumed)
      BY <2>1 DEF Read, Unread, Consumed
    <3> QED BY <1>1, <1>3, <2>1, <3>1, <3>2, <3>3, AnswerRead
  <2>6. BlameIsTrue'
    BY <2>2, <2>5, BlameOf
  <2> QED BY <2>2, <2>3, <2>4, <2>6 DEF IInv
<1> QED
  BY <1>2, <1>3 DEF OnStdoutEof

LEMMA StderrEofStep ==
    ASSUME IInv, OnStderrEof PROVE IInv'
<1>1. /\ ~settled /\ listening /\ closed /\ stderrBytes = Len(errPrinted)
      /\ UNCHANGED <<caller, worker, listening, stdout, stderrBytes, stderrOpen, exitCode, stdoutEnded>>
      /\ exitCode \in Statuses \cup {"none"} /\ stdoutEnded \in BOOLEAN
  BY DEF OnStderrEof, IInv, TypeOK
<1>2. CASE ~stderrOpen /\ stderrEnded' = TRUE /\ Complete(exitCode, stdoutEnded, TRUE)
  <2>1. Complete(exitCode', stdoutEnded', stderrEnded')
    BY <1>1, <1>2
  <2>2. exitCode' # "none" => exitCode' = status /\ proc = "exited"
    BY <1>1 DEF IInv, Ends
  <2>3. stdoutEnded' => closed /\ pipe = <<>>
    BY <1>1 DEF IInv, Ends
  <2> QED BY <1>1, <1>2, <2>1, <2>2, <2>3, CompleteStep
<1>3. CASE stderrOpen /\ Fail("IPC_PROTOCOL_ERROR", FALSE) /\ UNCHANGED stderrEnded
  <2>1. /\ UNCHANGED <<request, signalled, sent, proc, closed, pipe, status, printed, errPrinted,
                       listening, stdout, stderrBytes, stderrOpen, exitCode, stdoutEnded, stderrEnded>>
        /\ proc' # "none"
    BY <1>1, <1>3 DEF caller, worker, IInv, Begun
  <2>2. /\ settled' /\ promise' = "rejected" /\ code' = "IPC_PROTOCOL_ERROR" /\ timer' = "cleared"
        /\ settled' \in BOOLEAN /\ killed' \in BOOLEAN /\ asked' \in BOOLEAN
        /\ grace' \in {"none", "armed"} /\ Control' /\ Begun' /\ ResolvedMeansComplete'
    BY <1>1, <1>3, <2>1, FailStep DEF Codes
  <2>3. TypeOK'
    BY <2>1, <2>2 DEF IInv, TypeOK, Codes
  <2>4. Ends' /\ Wire'
    BY <2>1, <2>2 DEF IInv, Ends, Wire, Consumed
  <2>5. ErrRead' /\ ~WholeText(errPrinted', stderrBytes')
    BY <1>1, <1>3, <2>1 DEF IInv, Ends, ErrRead, WholeText
  <2>6. BlameIsTrue'
    BY <2>2, <2>5, BlameOf
  <2> QED BY <2>2, <2>3, <2>4, <2>6 DEF IInv
<1> QED
  BY <1>2, <1>3 DEF OnStderrEof

LEMMA ExitSeenStep ==
    ASSUME IInv, OnExit PROVE IInv'
<1>1. /\ ~settled /\ listening /\ proc = "exited" /\ exitCode' = status
      /\ UNCHANGED <<caller, worker, listening, stdout, stderrBytes, stderrOpen, stdoutEnded, stderrEnded>>
      /\ exitCode' \in Statuses \cup {"none"} /\ stdoutEnded \in BOOLEAN /\ stderrEnded \in BOOLEAN
      /\ Complete(exitCode', stdoutEnded', stderrEnded')
  BY DEF OnExit, IInv, TypeOK
<1>2. /\ stdoutEnded' => closed /\ pipe = <<>>
      /\ stderrEnded' => closed /\ stderrBytes = Len(errPrinted) /\ ~stderrOpen
  BY <1>1 DEF IInv, Ends
<1> QED
  BY <1>1, <1>2, CompleteStep

\* What the worker does while its run is in progress.
LEMMA WorkerStep ==
    ASSUME IInv, (\E unit \in Units : WriteOut(unit)) \/ (\E unit \in ErrUnits : WriteErr(unit)) \/ CloseOutputs
    PROVE IInv'
<1>1. /\ proc = "alive" /\ ~closed /\ closed = FALSE /\ ~settled /\ promise = "pending" /\ listening
      /\ UNCHANGED <<request, signalled, stdout, stderrBytes, stderrOpen, exitCode, stdoutEnded, stderrEnded,
                     promise, code, settled, timer, grace, killed, asked, listening,
                     sent, proc, status>>
  BY DEF WriteOut, WriteErr, CloseOutputs, IInv, TypeOK, Begun, caller, reader, control
<1>2. Control' /\ Begun'
  BY <1>1 DEF IInv, Control, Begun
<1>3. ResolvedMeansComplete' /\ BlameIsTrue'
  BY <1>1 DEF ResolvedMeansComplete, BlameIsTrue
<1>4. /\ printed \in Seq(Units) /\ pipe \in Seq(Units) /\ errPrinted \in Seq(ErrUnits)
      /\ Len(pipe) \in Nat /\ Len(printed) \in Nat /\ Len(pipe) <= Len(printed)
      /\ \A k \in 1..Len(pipe) : pipe[k] = printed[Consumed + k]
      /\ Frames(stdout, printed, Consumed) /\ stdout.bytes = Consumed
      /\ ~stdoutEnded /\ ~stderrEnded
  BY <1>1 DEF IInv, TypeOK, Wire, Ends
<1>5. CASE (\E unit \in ErrUnits : WriteErr(unit)) \/ CloseOutputs
  <2>1. /\ printed' = printed /\ pipe' = pipe /\ closed' \in BOOLEAN
        /\ errPrinted' \in Seq(ErrUnits) /\ Len(errPrinted) <= Len(errPrinted')
        /\ \A i \in 1..Len(errPrinted) : errPrinted'[i] = errPrinted[i]
    <3>1. ASSUME NEW unit \in ErrUnits, WriteErr(unit)
          PROVE  /\ errPrinted' = Append(errPrinted, unit)
                 /\ closed' = closed /\ printed' = printed /\ pipe' = pipe
      BY <3>1 DEF WriteErr
    <3>2. ASSUME NEW unit \in ErrUnits, errPrinted' = Append(errPrinted, unit)
          PROVE  /\ errPrinted' \in Seq(ErrUnits) /\ Len(errPrinted) <= Len(errPrinted')
                 /\ \A i \in 1..Len(errPrinted) : errPrinted'[i] = errPrinted[i]
      BY <1>4, <3>2
    <3>3. CASE CloseOutputs
      <4>1. errPrinted' = errPrinted /\ closed' = TRUE /\ printed' = printed /\ pipe' = pipe
        BY <3>3 DEF CloseOutputs
      <4> QED BY <1>4, <4>1
    <3> QED BY <1>1, <1>5, <3>1, <3>2, <3>3
  <2>2. TypeOK'
    BY <1>1, <2>1 DEF IInv, TypeOK
  <2>3. Ends'
    <3>1. /\ stderrBytes \in Nat /\ stderrBytes <= Len(errPrinted) /\ BeginsText(errPrinted, stderrBytes)
          /\ stderrOpen <=> stderrBytes > 0 /\ errPrinted[stderrBytes] = "lead"
      BY <1>1 DEF IInv, TypeOK, Ends
    <3>2. Len(errPrinted) \in Nat /\ Len(errPrinted') \in Nat
      BY <1>4, <2>1
    <3>3. stderrBytes <= Len(errPrinted') /\ (stderrBytes > 0 => errPrinted'[stderrBytes] = errPrinted[stderrBytes])
      BY <2>1, <3>1, <3>2
    <3>4. BeginsText(errPrinted', stderrBytes)
      <4>1. ASSUME NEW i \in 1..(stderrBytes - 1)
            PROVE  errPrinted'[i] = errPrinted[i] /\ errPrinted'[i + 1] = errPrinted[i + 1]
        <5>1. i \in 1..Len(errPrinted) /\ i + 1 \in 1..Len(errPrinted)
          BY ONLY <3>1, <3>2, <4>1
        <5> QED BY <2>1, <5>1
      <4>2. stderrBytes > 0 => errPrinted'[1] = errPrinted[1]
        BY <2>1, <3>1, <3>2
      <4> QED BY <3>1, <4>1, <4>2 DEF BeginsText
    <3> QED BY <1>1, <1>4, <2>1, <3>1, <3>3, <3>4 DEF IInv, Ends
  <2>4. Wire'
    BY <1>1, <1>4, <2>1 DEF Wire, Consumed, Frames
  <2> QED BY <1>2, <1>3, <2>2, <2>3, <2>4 DEF IInv
<1>6. ASSUME NEW unit \in Units, WriteOut(unit) PROVE IInv'
  <2>1. printed' = Append(printed, unit) /\ pipe' = Append(pipe, unit) /\ closed' = closed /\ errPrinted' = errPrinted
    BY <1>6 DEF WriteOut
  <2>2. /\ printed' \in Seq(Units) /\ Len(printed') = Len(printed) + 1
        /\ \A i \in 1..Len(printed) : printed'[i] = printed[i]
        /\ printed'[Len(printed) + 1] = unit
    BY <1>4, <1>6, <2>1, AppendUnit
  <2>3. /\ pipe' \in Seq(Units) /\ Len(pipe') = Len(pipe) + 1
        /\ \A i \in 1..Len(pipe) : pipe'[i] = pipe[i]
        /\ pipe'[Len(pipe) + 1] = unit
    BY <1>4, <1>6, <2>1, AppendUnit
  <2>4. TypeOK'
    BY <1>1, <2>1, <2>2, <2>3 DEF IInv, TypeOK
  <2>5. Ends'
    BY <1>1, <1>4, <2>1 DEF IInv, Ends
  <2>6. Consumed' = Consumed /\ Consumed \in 0..Len(printed) /\ Consumed + Len(pipe) = Len(printed)
    BY ONLY <1>4, <2>2, <2>3 DEF Consumed
  <2>7. ASSUME NEW k \in 1..Len(pipe') PROVE pipe'[k] = printed'[Consumed' + k]
    <3>1. CASE k \in 1..Len(pipe)
      <4>1. Consumed + k \in 1..Len(printed)
        BY ONLY <1>4, <2>6, <3>1
      <4> QED BY <1>4, <2>2, <2>3, <2>6, <3>1, <4>1
    <3>2. CASE k = Len(pipe) + 1
      <4>1. Consumed + k = Len(printed) + 1
        BY ONLY <1>4, <2>6, <3>2
      <4> QED BY <2>2, <2>3, <2>6, <3>2, <4>1
    <3>3. k \in 1..Len(pipe) \/ k = Len(pipe) + 1
      BY ONLY <1>4, <2>3, <2>7
    <3> QED BY <3>1, <3>2, <3>3
  <2>8. Frames(stdout', printed', Consumed')
    <3>1. \A i \in 1..Consumed : printed'[i] = printed[i]
      BY <1>4, <2>2, <2>6
    <3>2. /\ Consumed >= 1 => printed'[1] = printed[1]
          /\ Consumed >= 2 => printed'[2] = printed[2]
      BY <2>6, <3>1
    <3>3. Len(stdout.buf) \in Nat
      BY DEF IInv, TypeOK
    <3> QED BY <1>1, <1>4, <2>6, <3>1, <3>2, <3>3 DEF Frames
  <2>9. Wire'
    BY <1>1, <1>4, <2>2, <2>3, <2>6, <2>7, <2>8 DEF Wire
  <2> QED BY <1>2, <1>3, <2>4, <2>5, <2>9 DEF IInv
<1> QED
  BY <1>5, <1>6

LEMMA ExitStep ==
    ASSUME IInv, \E s \in Statuses : Exit(s) PROVE IInv'
<1>1. /\ proc = "alive" /\ proc' = "exited" /\ closed' = TRUE /\ status' \in Statuses
      /\ UNCHANGED <<request, signalled, stdout, stderrBytes, stderrOpen, exitCode, stdoutEnded, stderrEnded,
                     promise, code, settled, timer, grace, killed, asked, listening,
                     sent, pipe, printed, errPrinted>>
  BY DEF Exit, caller, reader, control
<1>2. TypeOK'
  BY <1>1 DEF IInv, TypeOK
<1>3. Control' /\ Begun' /\ Ends'
  BY <1>1 DEF IInv, Control, Begun, Ends
<1>4. Wire'
  BY <1>1 DEF IInv, Wire, Consumed, Frames
<1>5. ResolvedMeansComplete' /\ (FrameLimit >= 2 => BlameIsTrue')
  <2>1. CASE promise \in {"resolved", "rejected"}
    BY <1>1, <2>1, SettledStays
  <2>2. CASE promise \notin {"resolved", "rejected"}
    BY <1>1, <2>2 DEF ResolvedMeansComplete, BlameIsTrue
  <2> QED BY <2>1, <2>2
<1> QED
  BY <1>2, <1>3, <1>4, <1>5 DEF IInv

LEMMA StutterKeepsIInv == IInv /\ UNCHANGED vars => IInv'
<1> SUFFICES ASSUME IInv, UNCHANGED vars PROVE IInv'
  OBVIOUS
<1> USE DEF vars, caller, reader, control, worker
<1>1. TypeOK' /\ Control' /\ Begun' /\ Ends'
  BY DEF IInv, TypeOK, Control, Begun, Ends
<1>2. Wire'
  BY DEF IInv, Wire, Consumed, Frames
<1>3. ResolvedMeansComplete' /\ (FrameLimit >= 2 => BlameIsTrue')
  BY DEF IInv, ResolvedMeansComplete, BlameIsTrue, Read, Unread, ErrRead
<1> QED
  BY <1>1, <1>2, <1>3 DEF IInv

LEMMA NextIInv == IInv /\ [Next]_vars => IInv'
  BY RefuseStep, RunStep, AbortStep, TimeoutStep, GraceStep, StdoutStep, StderrStep, StdoutEofStep,
     StderrEofStep, ExitSeenStep, WorkerStep, ExitStep, StutterKeepsIInv DEF Next

\* The inductive invariant of a run.
THEOREM RunInvariantHolds == SafetySpec => []IInv
<1>1. Init => IInv
  BY InitIInv
<1>2. IInv /\ [Next]_vars => IInv'
  BY NextIInv
<1> QED
  BY <1>1, <1>2, PTL DEF SafetySpec

------------------------------------------------------------------------------
(* The theorems. *)

\* Every variable keeps its type, and an unsettled run never holds more than a
\* frame of unfinished output.
THEOREM RunTypeCorrect == SafetySpec => []TypeOK
<1>1. IInv => TypeOK
  BY DEF IInv
<1> QED
  BY <1>1, RunInvariantHolds, PTL

\* Whatever the worker prints, however it is cut into chunks, and whatever the
\* order of its exit and of the two EOFs, run() resolves only on one complete
\* answer, of a worker that ended with status zero.
THEOREM OnlyCompleteAnswersResolve == SafetySpec => []ResolvedMeansComplete
<1>1. IInv => ResolvedMeansComplete
  BY DEF IInv
<1> QED
  BY <1>1, RunInvariantHolds, PTL

\* Where the frame limit leaves room for an answer, here of at most two units, a
\* rejection's code says what happened: a worker is never accused of breaking
\* the protocol by output that is one answer or may still become one.
THEOREM RejectionsBlameTruly ==
    ASSUME FrameLimit >= 2 PROVE SafetySpec => []BlameIsTrue
<1>1. IInv => BlameIsTrue
  BY DEF IInv
<1> QED
  BY <1>1, RunInvariantHolds, PTL

\* No run leaves a live worker without a kill sent or timed, nor touches one
\* whose answer it has taken.
THEOREM RunsLeaveNothingBehind == SafetySpec => []NothingLeftBehind
<1>1. IInv => NothingLeftBehind
  BY DEF IInv, Control, Begun, NothingLeftBehind, NoOrphanWorker, QuietAfterSuccess
<1> QED
  BY <1>1, RunInvariantHolds, PTL

------------------------------------------------------------------------------
(* The run is a lease. *)

LEMMA FailIsGiveUp ==
    ASSUME IInv, promise = "pending", NEW c, NEW b, Fail(c, b), proc' = proc
    PROVE  Lease!GiveUp
<1>1. promise' = "rejected" /\ (killed' = TRUE \/ grace' = "armed")
  BY DEF Fail
<1> QED
  BY <1>1 DEF Lease!GiveUp

LEMMA CompleteIsLease ==
    ASSUME IInv, listening, ~settled, NEW e, NEW o \in BOOLEAN, NEW r \in BOOLEAN, Complete(e, o, r),
           e # "none" => proc = "exited", proc' = proc
    PROVE  [Lease!LeaseNext]_(Lease!leaseVars)
<1>1. promise = "pending"
  BY DEF IInv, Begun
<1>2. CASE UNCHANGED control
  BY <1>2 DEF control, Lease!leaseVars
<1>3. ASSUME NEW c, Fail(c, FALSE) PROVE Lease!GiveUp
  BY <1>1, <1>3, FailIsGiveUp
<1>4. CASE e = "zero" /\ Succeed
  <2>1. proc = "exited" /\ promise' = "resolved" /\ UNCHANGED <<grace, killed>>
    BY <1>4 DEF Succeed
  <2>2. Lease!Deliver
    BY <1>1, <2>1 DEF Lease!Deliver
  <2> QED BY <2>2 DEF Lease!LeaseNext
<1> QED
  BY <1>2, <1>3, <1>4, CompleteFacts DEF Lease!LeaseNext

LEMMA StepLease ==
    ASSUME IInv, [Next]_vars PROVE [Lease!LeaseNext]_(Lease!leaseVars)
<1>1. /\ promise = "idle" => proc = "none" /\ killed = FALSE /\ grace = "none"
      /\ listening /\ ~settled => promise = "pending"
      /\ exitCode # "none" => proc = "exited"
      /\ killed \in BOOLEAN
      /\ stdoutEnded \in BOOLEAN /\ stderrEnded \in BOOLEAN
  BY DEF IInv, TypeOK, Control, Begun, Ends
<1>2. CASE RefuseRun \/ LaunchFails
  <2>1. Lease!Decline
    BY <1>2 DEF RefuseRun, LaunchFails, worker, Lease!Decline
  <2> QED BY <2>1 DEF Lease!LeaseNext
<1>3. CASE RunAborted \/ (Run /\ promise' # "pending")
  <2>1. promise = "idle" /\ proc' = "alive" /\ promise' = "rejected" /\ (killed' = TRUE \/ grace' = "armed")
    BY <1>3 DEF RunAborted, Run, Fail
  <2>2. Lease!BeginDoomed
    BY <2>1 DEF Lease!BeginDoomed
  <2> QED BY <2>2 DEF Lease!LeaseNext
<1>4. CASE Run /\ promise' = "pending"
  <2>1. promise = "idle" /\ proc' = "alive" /\ UNCHANGED <<grace, killed>>
    BY <1>4 DEF Run, Fail
  <2>2. Lease!Begin
    BY <1>4, <2>1 DEF Lease!Begin
  <2> QED BY <2>2 DEF Lease!LeaseNext
<1>5. CASE Abort
  <2>1. CASE listening /\ ~settled
    <3>1. Fail("CANCELLED", TRUE) /\ proc' = proc
      BY <1>5, <2>1 DEF Abort, worker
    <3> QED BY <1>1, <2>1, <3>1, FailIsGiveUp DEF Lease!LeaseNext
  <2>2. CASE ~(listening /\ ~settled)
    BY <1>5, <2>2 DEF Abort, control, worker, Lease!leaseVars
  <2> QED BY <2>1, <2>2
<1>6. CASE Timeout
  <2>1. Fail("WORKER_TIMEOUT", TRUE) /\ proc' = proc /\ promise = "pending"
    BY <1>6 DEF Timeout, worker, IInv, Begun
  <2> QED BY <2>1, FailIsGiveUp DEF Lease!LeaseNext
<1>7. CASE GraceEnds
  BY <1>7 DEF GraceEnds, worker, Lease!leaseVars
<1>8. CASE OnStdout
  <2> PICK n \in 1..Len(pipe) :
        LET read == ReadChunk(SubSeq(pipe, 1, n))
        IN  /\ listening /\ ~settled
            /\ IF read.verdict = "none" THEN UNCHANGED control
               ELSE Fail(read.verdict, read.verdict = "CANCELLED")
            /\ UNCHANGED proc
    BY <1>8 DEF OnStdout
  <2> DEFINE v == ReadChunk(SubSeq(pipe, 1, n)).verdict
  <2>1. CASE v = "none"
    BY <2>1 DEF control, Lease!leaseVars
  <2>2. CASE v # "none"
    <3>1. Fail(v, v = "CANCELLED") /\ promise = "pending" /\ proc' = proc
      BY <1>1, <2>2
    <3> HIDE DEF v
    <3> QED BY <3>1, FailIsGiveUp DEF Lease!LeaseNext
  <2> QED BY <2>1, <2>2
<1>9. CASE OnStderr
  <2>1. CASE UNCHANGED control
    BY <1>9, <2>1 DEF OnStderr, control, worker, Lease!leaseVars
  <2>2. CASE Fail("IPC_PROTOCOL_ERROR", FALSE)
    <3>1. promise = "pending" /\ proc' = proc
      BY <1>1, <1>9 DEF OnStderr, worker
    <3> QED BY <2>2, <3>1, FailIsGiveUp DEF Lease!LeaseNext
  <2> QED BY <1>9, <2>1, <2>2 DEF OnStderr
<1>10. CASE OnStdoutEof
  <2>1. CASE Fail("IPC_PROTOCOL_ERROR", FALSE)
    <3>1. promise = "pending" /\ proc' = proc
      BY <1>1, <1>10 DEF OnStdoutEof, worker
    <3> QED BY <2>1, <3>1, FailIsGiveUp DEF Lease!LeaseNext
  <2>2. CASE Complete(exitCode, TRUE, stderrEnded)
    BY <1>1, <1>10, <2>2, CompleteIsLease DEF OnStdoutEof, worker
  <2> QED BY <1>10, <2>1, <2>2 DEF OnStdoutEof
<1>11. CASE OnStderrEof
  <2>1. CASE Fail("IPC_PROTOCOL_ERROR", FALSE)
    <3>1. promise = "pending" /\ proc' = proc
      BY <1>1, <1>11 DEF OnStderrEof, worker
    <3> QED BY <2>1, <3>1, FailIsGiveUp DEF Lease!LeaseNext
  <2>2. CASE Complete(exitCode, stdoutEnded, TRUE)
    BY <1>1, <1>11, <2>2, CompleteIsLease DEF OnStderrEof, worker
  <2> QED BY <1>11, <2>1, <2>2 DEF OnStderrEof
<1>12. CASE OnExit
  BY <1>1, <1>12, CompleteIsLease DEF OnExit, worker
<1>13. CASE (\E unit \in Units : WriteOut(unit)) \/ (\E unit \in ErrUnits : WriteErr(unit)) \/ CloseOutputs
  BY <1>13 DEF WriteOut, WriteErr, CloseOutputs, control, Lease!leaseVars
<1>14. CASE \E s \in Statuses : Exit(s)
  <2>1. Lease!Die
    BY <1>14 DEF Exit, control, Lease!Die
  <2> QED BY <2>1 DEF Lease!LeaseNext
<1>15. CASE UNCHANGED vars
  BY <1>15 DEF vars, control, worker, Lease!leaseVars
<1> QED
  BY <1>2, <1>3, <1>4, <1>5, <1>6, <1>7, <1>8, <1>9, <1>10, <1>11, <1>12, <1>13, <1>14, <1>15 DEF Next

\* A run keeps what WorkerLease promises the code that calls it: it is settled
\* once, its worker has ended if it resolved and is doomed if it was rejected.
THEOREM RunIsALease == SafetySpec => Lease!LeaseSafety
<1>1. Init => Lease!LeaseInit
  BY DEF Init, Lease!LeaseInit
<1>2. IInv /\ [Next]_vars => [Lease!LeaseNext]_(Lease!leaseVars)
  BY StepLease
<1> QED
  BY <1>1, <1>2, RunInvariantHolds, PTL DEF SafetySpec, Lease!LeaseSafety

==============================================================================
