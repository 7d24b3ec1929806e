----------------------------- MODULE PipelineProofs ----------------------------
(***************************************************************************)
(* Proofs about Pipeline and about the pools its segments come from, for   *)
(* every buffer size, every pair of thresholds, any sizes of writes and    *)
(* reads, any threads that cancel or complete, and every pool size.        *)
(***************************************************************************)
EXTENDS Pipeline, SegmentPools, SequenceInduction, FiniteSetTheorems

-------------------------------------------------------------------------------
(***************************************************************************)
(* The two pools: each operation keeps the pool in step with the buffers   *)
(* its user holds, when the user returns its oldest buffer first, as a     *)
(* pipeline does; and a pool in step shares no buffer.                     *)
(***************************************************************************)
Arenas == [kind : {"arena"}, m_head : Nat, m_tail : Nat, m_active_buffers : Nat]
FixedPools == [kind : {"fixed"}, m_available_buffers : Seq(Nat), heap : SUBSET Nat]

\* The slots of the ring, counted from any tail.
LEMMA SlotSteps ==
  ASSUME NEW N \in Nat \ {0}, NEW tail \in 0..(N - 1), NEW i \in 1..N
  PROVE  /\ Slot(tail, i, N) \in 0..(N - 1)
         /\ arena_advance(Slot(tail, i, N), N) = Slot(tail, i + 1, N)
         /\ arena_advance(tail, N) \in 0..(N - 1)
         /\ Slot(arena_advance(tail, N), i, N) = Slot(tail, i + 1, N)
BY DEF Slot, arena_advance

\* No two of the buffers held are in the same slot of the ring.
LEMMA SlotsDiffer ==
  ASSUME NEW N \in Nat \ {0}, NEW tail \in 0..(N - 1), NEW i \in 1..N, NEW j \in 1..N,
         Slot(tail, i, N) = Slot(tail, j, N)
  PROVE  i = j
BY DEF Slot

\* arena_pool_resource::do_allocate hands out the buffer at m_head: if the ring
\* is not full, the counters go on describing the buffers held.
THEOREM ArenaAllocates ==
  ASSUME NEW N \in Nat \ {0}, NEW pool \in Arenas, NEW held \in Seq(Nat),
         ArenaInStep(pool, held, N), Len(held) < N
  PROVE  ArenaInStep(allocate(pool, N), Append(held, NextBuffer(pool)), N)
<1> DEFINE more == Append(held, pool.m_head)
           p == arena_allocate(pool, N)
<1>1. NextBuffer(pool) = pool.m_head /\ allocate(pool, N) = p
  BY DEF NextBuffer, allocate, Arenas
<1>2. /\ Len(more) = Len(held) + 1 /\ Len(held) \in Nat
      /\ \A i \in 1..Len(held) : more[i] = held[i]
      /\ more[Len(held) + 1] = pool.m_head
  BY AppendProperties, LenProperties DEF Arenas
<1>3. /\ p.m_tail = pool.m_tail /\ p.m_active_buffers = Len(held) + 1
      /\ p.m_head = arena_advance(pool.m_head, N)
  BY DEF arena_allocate, Arenas, ArenaInStep
<1>4. p.m_head = Slot(p.m_tail, Len(more) + 1, N)
  <2>1. pool.m_tail \in 0..(N - 1) /\ Len(held) + 1 \in 1..N
    BY <1>2 DEF ArenaInStep
  <2>2. arena_advance(Slot(pool.m_tail, Len(held) + 1, N), N)
          = Slot(pool.m_tail, (Len(held) + 1) + 1, N)
    BY <2>1, SlotSteps, Zenon
  <2> QED
    BY <1>2, <1>3, <2>2 DEF ArenaInStep
<1>5. \A i \in 1..Len(more) : more[i] = Slot(p.m_tail, i, N)
  BY <1>2, <1>3 DEF ArenaInStep
<1> QED
  BY <1>1, <1>2, <1>3, <1>4, <1>5 DEF ArenaInStep

\* arena_pool_resource::do_deallocate does not look at the buffer: it stays in
\* step if the user returns its oldest one.
THEOREM ArenaDeallocates ==
  ASSUME NEW N \in Nat \ {0}, NEW pool \in Arenas, NEW held \in Seq(Nat),
         ArenaInStep(pool, held, N), held # <<>>
  PROVE  ArenaInStep(deallocate(pool, Head(held), N), Tail(held), N)
<1> DEFINE rest == Tail(held)
           p == arena_deallocate(pool, N)
<1>1. deallocate(pool, Head(held), N) = p
  BY DEF deallocate, Arenas
<1>2. /\ Len(held) \in Nat \ {0} /\ Len(rest) = Len(held) - 1
      /\ \A i \in 1..Len(rest) : rest[i] = held[i + 1]
  BY HeadTailProperties, LenProperties, EmptySeq
<1>3. /\ p.m_tail = arena_advance(pool.m_tail, N) /\ p.m_head = pool.m_head
      /\ p.m_active_buffers = Len(held) - 1
  BY DEF arena_deallocate, Arenas, ArenaInStep
<1>4. /\ p.m_tail \in 0..(N - 1)
      /\ \A i \in 1..N : Slot(p.m_tail, i, N) = Slot(pool.m_tail, i + 1, N)
  <2>1. pool.m_tail \in 0..(N - 1) /\ Len(held) \in 1..N
    BY <1>2 DEF ArenaInStep
  <2> QED
    BY <2>1, <1>3, SlotSteps, Zenon
<1>5. p.m_head = Slot(p.m_tail, Len(rest) + 1, N)
  <2>1. Len(rest) + 1 = Len(held) /\ Len(held) \in 1..N
    BY <1>2 DEF ArenaInStep
  <2> QED
    BY <2>1, <1>3, <1>4 DEF ArenaInStep
<1>6. \A i \in 1..Len(rest) : rest[i] = Slot(p.m_tail, i, N)
  <2> SUFFICES ASSUME NEW i \in 1..Len(rest) PROVE rest[i] = Slot(p.m_tail, i, N)
    OBVIOUS
  <2>1. i \in 1..N /\ i + 1 \in 1..Len(held) /\ rest[i] = held[i + 1]
    BY <1>2 DEF ArenaInStep
  <2> QED
    BY <2>1, <1>4 DEF ArenaInStep
<1> QED
  BY <1>1, <1>2, <1>3, <1>4, <1>5, <1>6 DEF ArenaInStep

\* An arena in step never has a buffer out twice.
THEOREM ArenaNotShared ==
  ASSUME NEW N \in Nat \ {0}, NEW pool \in Arenas, NEW held \in Seq(Nat),
         ArenaInStep(pool, held, N)
  PROVE  NotShared(pool, held)
<1>1. DOMAIN held = 1..Len(held) /\ Len(held) \in Nat
  BY LenProperties
<1>2. ASSUME NEW i \in DOMAIN held, NEW j \in DOMAIN held, held[i] = held[j]
      PROVE  i = j
  BY <1>1, <1>2, SlotsDiffer, SMTT(30) DEF ArenaInStep
<1> QED
  BY <1>2 DEF NotShared, NoRepeats, Arenas

-------------------------------------------------------------------------------
\* ::operator new returns a block that is not in use.
LEMMA NewBlockIsNew ==
  ASSUME NEW heap \in SUBSET Nat, IsFiniteSet(heap)
  PROVE  NewBlock(heap) \in Nat /\ NewBlock(heap) \notin heap
<1> DEFINE n == Cardinality(heap)
<1>1. n \in Nat
  BY FS_CardinalityType
<1>2. Cardinality(0..n) = n + 1
  <2>1. Cardinality(0..n) = IF 0 > n THEN 0 ELSE n - 0 + 1
    BY <1>1, FS_Interval
  <2> QED
    BY <1>1, <2>1
<1>3. ~(0..n \subseteq heap)
  <2>1. 0..n \in SUBSET heap => Cardinality(0..n) <= n
    BY FS_Subset, Zenon
  <2> QED
    BY <1>1, <1>2, <2>1
<1>4. \E b \in 0..n : b \notin heap
  BY <1>3
<1> QED
  BY <1>1, <1>4 DEF NewBlock

\* a is s, of length h, followed by t, of length n.
IsJoin(a, s, t, h, n) ==
  /\ DOMAIN a = 1..(h + n)
  /\ \A i \in 1..(h + n) : a[i] = IF i <= h THEN s[i] ELSE t[i - h]

\* The elements of a concatenation, by their index.
LEMMA Joined ==
  ASSUME NEW s \in Seq(Nat), NEW t \in Seq(Nat)
  PROVE  s \o t \in Seq(Nat) /\ IsJoin(s \o t, s, t, Len(s), Len(t))
<1>1. s \o t \in Seq(Nat) /\ Len(s \o t) = Len(s) + Len(t)
  BY ConcatProperties
<1>2. DOMAIN (s \o t) = 1..(Len(s) + Len(t))
  BY <1>1, LenProperties
<1> QED
  BY <1>1, <1>2, ConcatProperties DEF IsJoin

Elements(s) == {s[i] : i \in DOMAIN s}

\* t is s with a new element at the end.
Extended(s, t, h) ==
  /\ DOMAIN s = 1..h /\ DOMAIN t = 1..(h + 1)
  /\ \A i \in 1..h : t[i] = s[i] /\ s[i] # t[h + 1]

\* t has the elements of s, in the order that f gives them.
Permuted(s, t, D, f, g) ==
  /\ DOMAIN s = D /\ DOMAIN t = D
  /\ f \in [D -> D] /\ g \in [D -> D]
  /\ \A i \in D : f[g[i]] = i /\ g[f[i]] = i /\ t[i] = s[f[i]]

\* The last element of s, of h + n, moves to the place h + 1.
LastMoved(s, t, h, n) ==
  /\ DOMAIN s = 1..(h + n) /\ DOMAIN t = 1..(h + n)
  /\ \A i \in 1..h : t[i] = s[i]
  /\ t[h + 1] = s[h + n]
  /\ \A i \in (h + 2)..(h + n) : t[i] = s[i - 1]

\* The first element of s moves to the end.
FirstMoved(s, t, m) ==
  /\ DOMAIN s = 1..m /\ DOMAIN t = 1..m
  /\ \A i \in 1..(m - 1) : t[i] = s[i + 1]
  /\ t[m] = s[1]

\* The first element of s, x, is taken away.
FirstRemoved(s, t, m, x) ==
  /\ s[1] = x
  /\ DOMAIN s = 1..m /\ DOMAIN t = 1..(m - 1)
  /\ \A i \in 1..(m - 1) : t[i] = s[i + 1]

\* A new element at the end is the only one added, and repeats none.
LEMMA ExtendedElements ==
  ASSUME NEW h \in Nat, NEW s, NEW t, Extended(s, t, h), NoRepeats(s)
  PROVE  NoRepeats(t) /\ Elements(t) = Elements(s) \union {t[h + 1]}
<1>1. \A i \in 1..(h + 1) : i \in 1..h \/ i = h + 1
  OBVIOUS
<1>2. 1..h \subseteq 1..(h + 1) /\ h + 1 \in 1..(h + 1)
  OBVIOUS
<1>3. NoRepeats(t)
  BY <1>1 DEF NoRepeats, Extended
<1> QED
  BY <1>1, <1>2, <1>3 DEF Extended, Elements

\* A permutation neither adds nor repeats an element.
LEMMA PermutedElements ==
  ASSUME NEW D, NEW s, NEW t, NEW f, NEW g, Permuted(s, t, D, f, g), NoRepeats(s)
  PROVE  NoRepeats(t) /\ Elements(t) = Elements(s)
<1>1. NoRepeats(t)
  BY DEF NoRepeats, Permuted
<1>2. \A i \in D : s[i] = t[g[i]] /\ g[i] \in D /\ t[i] = s[f[i]] /\ f[i] \in D
  BY DEF Permuted
<1>3. \A x : x \in Elements(t) <=> x \in Elements(s)
  BY <1>2 DEF Elements, Permuted
<1> QED
  BY <1>1, <1>3

\* Nor does moving the last element forward, which is allocating from the pool.
LEMMA LastMovedElements ==
  ASSUME NEW h \in Nat, NEW n \in Nat \ {0}, NEW s, NEW t, LastMoved(s, t, h, n),
         NoRepeats(s)
  PROVE  NoRepeats(t) /\ Elements(t) = Elements(s)
<1> DEFINE D == 1..(h + n)
           f == [i \in D |-> IF i <= h THEN i ELSE IF i = h + 1 THEN h + n ELSE i - 1]
           g == [i \in D |-> IF i <= h THEN i ELSE IF i = h + n THEN h + 1 ELSE i + 1]
<1>1. f \in [D -> D] /\ g \in [D -> D] /\ \A i \in D : f[g[i]] = i /\ g[f[i]] = i
  OBVIOUS
<1>2. \A i \in D : t[i] = s[f[i]]
  BY SMTT(30) DEF LastMoved
<1>3. Permuted(s, t, D, f, g)
  BY <1>1, <1>2 DEF Permuted, LastMoved
<1> QED
  BY <1>3, PermutedElements

\* Nor does moving the first element to the end, which is returning to the pool.
LEMMA FirstMovedElements ==
  ASSUME NEW m \in Nat \ {0}, NEW s, NEW t, FirstMoved(s, t, m), NoRepeats(s)
  PROVE  NoRepeats(t) /\ Elements(t) = Elements(s)
<1> DEFINE D == 1..m
           f == [i \in D |-> IF i = m THEN 1 ELSE i + 1]
           g == [i \in D |-> IF i = 1 THEN m ELSE i - 1]
<1>1. f \in [D -> D] /\ g \in [D -> D] /\ \A i \in D : f[g[i]] = i /\ g[f[i]] = i
  OBVIOUS
<1>2. \A i \in D : t[i] = s[f[i]]
  BY DEF FirstMoved
<1>3. Permuted(s, t, D, f, g)
  BY <1>1, <1>2 DEF Permuted, FirstMoved
<1> QED
  BY <1>3, PermutedElements

\* Without its first element a sequence loses that element and no other.
LEMMA FirstRemovedElements ==
  ASSUME NEW m \in Nat \ {0}, NEW s, NEW t, NEW x, FirstRemoved(s, t, m, x), NoRepeats(s)
  PROVE  NoRepeats(t) /\ Elements(t) = Elements(s) \ {x}
<1>1. \A i \in 1..(m - 1) : t[i] = s[i + 1] /\ i + 1 \in 1..m
  BY DEF FirstRemoved
<1>2. NoRepeats(t)
  <2> SUFFICES ASSUME NEW i \in 1..(m - 1), NEW j \in 1..(m - 1), t[i] = t[j] PROVE i = j
    BY DEF NoRepeats, FirstRemoved
  <2>1. i + 1 = j + 1
    BY <1>1 DEF NoRepeats, FirstRemoved
  <2> QED
    BY <2>1
<1>3. ASSUME NEW y \in Elements(t) PROVE y \in Elements(s) \ {x}
  <2>1. PICK i \in 1..(m - 1) : y = s[i + 1] /\ i + 1 \in 1..m
    BY <1>1, <1>3 DEF Elements, FirstRemoved
  <2>2. s[i + 1] # s[1]
    BY <2>1 DEF NoRepeats, FirstRemoved
  <2> QED
    BY <2>1, <2>2 DEF Elements, FirstRemoved
<1>4. ASSUME NEW y \in Elements(s), y # x PROVE y \in Elements(t)
  <2>1. PICK i \in 1..m : y = s[i]
    BY <1>4 DEF Elements, FirstRemoved
  <2>2. i - 1 \in 1..(m - 1) /\ t[i - 1] = s[i]
    BY <1>4, <2>1 DEF FirstRemoved
  <2> QED
    BY <2>1, <2>2 DEF Elements, FirstRemoved
<1> QED
  BY <1>2, <1>3, <1>4

\* The last of t, of length n, has become the last of m; the others are l.
TookLast(s, t, m, l, h, n) ==
  /\ \A i \in 1..h : m[i] = s[i]
  /\ m[h + 1] = t[n]
  /\ \A i \in 1..(n - 1) : l[i] = t[i]

\* r is s, of length h, without its first.
IsTail(r, s, h) == \A i \in 1..(h - 1) : r[i] = s[i + 1]

\* m is t, of length n, with x at its end.
IsAppend(m, t, n, x) == m[n + 1] = x /\ \A i \in 1..n : m[i] = t[i]

\* The last of t moves behind s.
LEMMA LastToFirst ==
  ASSUME NEW h \in Nat, NEW n \in Nat \ {0}, NEW s, NEW t, NEW m, NEW l, NEW a, NEW b,
         IsJoin(a, s, t, h, n), IsJoin(b, m, l, h + 1, n - 1),
         TookLast(s, t, m, l, h, n)
  PROVE  LastMoved(a, b, h, n)
<1>1. DOMAIN a = 1..(h + n) /\ DOMAIN b = 1..(h + n)
  BY DEF IsJoin
<1>2. ASSUME NEW i \in 1..h PROVE b[i] = a[i]
  BY DEF IsJoin, TookLast
<1>3. b[h + 1] = a[h + n]
  <2>1. b[h + 1] = m[h + 1]
    BY DEF IsJoin
  <2>2. a[h + n] = t[h + n - h] /\ h + n - h = n
    BY DEF IsJoin
  <2> QED
    BY <2>1, <2>2 DEF TookLast
<1>4. ASSUME NEW i \in (h + 2)..(h + n) PROVE b[i] = a[i - 1]
  <2>1. b[i] = l[i - (h + 1)] /\ i - (h + 1) \in 1..(n - 1)
    BY DEF IsJoin
  <2>2. a[i - 1] = t[i - 1 - h] /\ i - 1 - h = i - (h + 1)
    BY DEF IsJoin
  <2> QED
    BY <2>1, <2>2 DEF TookLast
<1> QED
  BY <1>1, <1>2, <1>3, <1>4 DEF LastMoved

\* The first of s moves behind t.
LEMMA FirstToLast ==
  ASSUME NEW h \in Nat \ {0}, NEW n \in Nat, NEW s, NEW t, NEW r, NEW m, NEW a, NEW b,
         IsJoin(a, s, t, h, n), IsJoin(b, r, m, h - 1, n + 1),
         IsTail(r, s, h), IsAppend(m, t, n, s[1])
  PROVE  FirstMoved(a, b, h + n)
<1>1. DOMAIN a = 1..(h + n) /\ DOMAIN b = 1..(h + n)
  BY DEF IsJoin
<1>2. ASSUME NEW i \in 1..(h + n - 1) PROVE b[i] = a[i + 1]
  <2>1. CASE i <= h - 1
    <3>1. b[i] = r[i] /\ i \in 1..(h - 1)
      BY <2>1 DEF IsJoin
    <3>2. a[i + 1] = s[i + 1]
      BY <2>1 DEF IsJoin
    <3> QED
      BY <3>1, <3>2 DEF IsTail
  <2>2. CASE i > h - 1
    <3>1. b[i] = m[i - (h - 1)] /\ i - (h - 1) \in 1..n
      BY <2>2 DEF IsJoin
    <3>2. a[i + 1] = t[i + 1 - h] /\ i + 1 - h = i - (h - 1)
      BY <2>2 DEF IsJoin
    <3> QED
      BY <3>1, <3>2 DEF IsAppend
  <2> QED
    BY <2>1, <2>2
<1>3. b[h + n] = a[1]
  <2>1. b[h + n] = m[h + n - (h - 1)] /\ h + n - (h - 1) = n + 1
    BY DEF IsJoin
  <2>2. a[1] = s[1]
    BY DEF IsJoin
  <2> QED
    BY <2>1, <2>2 DEF IsAppend
<1> QED
  BY <1>1, <1>2, <1>3 DEF FirstMoved

\* The first of s goes away.
LEMMA FirstAway ==
  ASSUME NEW h \in Nat \ {0}, NEW n \in Nat, NEW s, NEW t, NEW r, NEW a, NEW b,
         IsJoin(a, s, t, h, n), IsJoin(b, r, t, h - 1, n),
         IsTail(r, s, h)
  PROVE  FirstRemoved(a, b, h + n, s[1])
<1>1. DOMAIN a = 1..(h + n) /\ DOMAIN b = 1..(h + n - 1) /\ a[1] = s[1]
  BY DEF IsJoin
<1>2. ASSUME NEW i \in 1..(h + n - 1) PROVE b[i] = a[i + 1]
  <2>1. CASE i <= h - 1
    <3>1. b[i] = r[i] /\ i \in 1..(h - 1)
      BY <2>1 DEF IsJoin
    <3>2. a[i + 1] = s[i + 1]
      BY <2>1 DEF IsJoin
    <3> QED
      BY <3>1, <3>2 DEF IsTail
  <2>2. CASE i > h - 1
    <3>1. b[i] = t[i - (h - 1)]
      BY <2>2 DEF IsJoin
    <3>2. a[i + 1] = t[i + 1 - h] /\ i + 1 - h = i - (h - 1)
      BY <2>2 DEF IsJoin
    <3> QED
      BY <3>1, <3>2
  <2> QED
    BY <2>1, <2>2
<1> QED
  BY <1>1, <1>2 DEF FirstRemoved

\* There are finitely many buffers.
LEMMA HeapIsFinite ==
  ASSUME NEW pool \in FixedPools, NEW held \in Seq(Nat), FixedInStep(pool, held)
  PROVE  IsFiniteSet(pool.heap)
<1> DEFINE all == held \o pool.m_available_buffers
           n == Len(held) + Len(pool.m_available_buffers)
<1>1. DOMAIN all = 1..n /\ all \in Seq(Nat) /\ n \in Nat
  BY Joined, LenProperties DEF FixedPools, IsJoin
<1>2. IsFiniteSet(1..n)
  BY <1>1, FS_Interval
<1>3. pool.heap = {all[i] : i \in 1..n}
  BY <1>1 DEF FixedInStep
<1>4. [i \in 1..n |-> all[i]] \in Surjection(1..n, pool.heap)
  BY <1>3 DEF Surjection
<1> QED
  BY <1>2, <1>4, FS_Surjection

\* fixed_pool_resource::do_allocate takes the last buffer returned, or a new
\* block: every block stays accounted for, exactly once.
THEOREM FixedAllocates ==
  ASSUME NEW N \in Nat, NEW pool \in FixedPools, NEW held \in Seq(Nat),
         FixedInStep(pool, held)
  PROVE  FixedInStep(allocate(pool, N), Append(held, NextBuffer(pool)))
<1> DEFINE avail == pool.m_available_buffers
           h == Len(held)
           n == Len(avail)
           all == held \o avail
<1>1. /\ avail \in Seq(Nat) /\ h \in Nat /\ n \in Nat /\ pool.heap \in SUBSET Nat
      /\ allocate(pool, N) = fixed_allocate(pool)
  BY LenProperties DEF FixedPools, allocate
<1>2. IsJoin(all, held, avail, h, n) /\ NoRepeats(all) /\ Elements(all) = pool.heap
  BY <1>1, Joined DEF FixedInStep, Elements
<1>3. CASE avail = <<>>
  <2> DEFINE new == NewBlock(pool.heap)
             more == Append(held, new)
  <2>1. new \in Nat /\ new \notin pool.heap
    BY <1>1, HeapIsFinite, NewBlockIsNew
  <2>2. /\ more \in Seq(Nat) /\ DOMAIN more = 1..(h + 1) /\ more[h + 1] = new
        /\ \A i \in 1..h : more[i] = held[i]
    BY <2>1, AppendProperties, LenProperties
  <2>3. all = held /\ DOMAIN held = 1..h
    BY <1>3, ConcatEmptySeq, LenProperties
  <2>4. NoRepeats(held) /\ pool.heap = {held[i] : i \in DOMAIN held}
    BY <2>3 DEF FixedInStep
  <2>5. NoRepeats(more) /\ Elements(more) = pool.heap \union {new}
    <3>1. \A i \in 1..h : held[i] # more[h + 1]
      BY <2>1, <2>2, <2>3, <2>4, Zenon
    <3>2. Extended(held, more, h)
      BY <2>2, <2>3, <3>1 DEF Extended
    <3>3. NoRepeats(more) /\ Elements(more) = Elements(held) \union {more[h + 1]}
      BY <1>1, <2>4, <3>2, ExtendedElements, Zenon
    <3> QED
      BY <2>2, <2>4, <3>3, Zenon DEF Elements
  <2>6. /\ NextBuffer(pool) = new
        /\ fixed_allocate(pool).heap = pool.heap \union {new}
        /\ fixed_allocate(pool).m_available_buffers = <<>>
    BY <1>3 DEF NextBuffer, fixed_allocate, FixedPools
  <2>7. more \o <<>> = more
    BY <2>2, ConcatEmptySeq
  <2> QED
    BY <1>1, <2>5, <2>6, <2>7, Zenon DEF FixedInStep, Elements
<1>4. CASE avail # <<>>
  <2> DEFINE more == Append(held, avail[n])
             less == SubSeq(avail, 1, n - 1)
             new == more \o less
  <2>1. n \in Nat \ {0} /\ avail[n] \in Nat /\ \A i \in 1..n : avail[i] \in Nat
    BY <1>1, <1>4, EmptySeq, LenProperties
  <2>2. /\ more \in Seq(Nat) /\ Len(more) = h + 1 /\ more[h + 1] = avail[n]
        /\ \A i \in 1..h : more[i] = held[i]
    BY <2>1, AppendProperties
  <2>3. /\ less \in Seq(Nat) /\ Len(less) = n - 1
        /\ \A i \in 1..(n - 1) : less[i] = avail[i]
    <3>1. \A i \in 1..(n - 1) : avail[i] \in Nat
      BY <2>1
    <3>2. /\ less \in Seq(Nat)
          /\ Len(less) = IF 1 <= n - 1 THEN n - 1 - 1 + 1 ELSE 0
          /\ \A i \in 1..(n - 1 - 1 + 1) : less[i] = avail[1 + i - 1]
      BY <2>1, <3>1, SubSeqProperties
    <3> QED
      BY <2>1, <3>2
  <2>4. IsJoin(new, more, less, h + 1, n - 1)
    BY <2>2, <2>3, Joined, Zenon
  <2>5. LastMoved(all, new, h, n)
    <3>1. TookLast(held, avail, more, less, h, n)
      BY <2>2, <2>3 DEF TookLast
    <3> QED
      BY <1>1, <1>2, <2>1, <2>4, <3>1, LastToFirst
  <2>6. NoRepeats(new) /\ Elements(new) = pool.heap
    BY <1>1, <1>2, <2>1, <2>5, LastMovedElements
  <2>7. /\ NextBuffer(pool) = avail[n]
        /\ fixed_allocate(pool).heap = pool.heap
        /\ fixed_allocate(pool).m_available_buffers = less
    BY <1>4 DEF NextBuffer, fixed_allocate, FixedPools
  <2> QED
    BY <1>1, <2>6, <2>7, Zenon DEF FixedInStep, Elements
<1> QED
  BY <1>3, <1>4

\* fixed_pool_resource::do_deallocate keeps the buffer, or deletes it when the
\* pool is full: no block is lost and none is kept twice.
THEOREM FixedDeallocates ==
  ASSUME NEW N \in Nat, NEW pool \in FixedPools, NEW held \in Seq(Nat),
         FixedInStep(pool, held), held # <<>>
  PROVE  FixedInStep(deallocate(pool, Head(held), N), Tail(held))
<1> DEFINE avail == pool.m_available_buffers
           rest == Tail(held)
           h == Len(held)
           n == Len(avail)
           all == held \o avail
<1>1. /\ avail \in Seq(Nat) /\ h \in Nat \ {0} /\ n \in Nat
      /\ deallocate(pool, Head(held), N) = fixed_deallocate(pool, Head(held), N)
  BY LenProperties, EmptySeq DEF FixedPools, deallocate
<1>2. IsJoin(all, held, avail, h, n) /\ NoRepeats(all) /\ Elements(all) = pool.heap
  BY <1>1, Joined DEF FixedInStep, Elements
<1>3. /\ rest \in Seq(Nat) /\ Len(rest) = h - 1 /\ Head(held) = held[1] /\ held[1] \in Nat
      /\ \A i \in 1..(h - 1) : rest[i] = held[i + 1]
  BY <1>1, HeadTailProperties
<1>4. CASE n < N
  <2> DEFINE more == Append(avail, Head(held))
             new == rest \o more
  <2>1. /\ more \in Seq(Nat) /\ Len(more) = n + 1 /\ more[n + 1] = held[1]
        /\ \A i \in 1..n : more[i] = avail[i]
    BY <1>1, <1>3, AppendProperties
  <2>2. IsJoin(new, rest, more, h - 1, n + 1)
    BY <1>3, <2>1, Joined, Zenon
  <2>3. FirstMoved(all, new, h + n)
    <3>1. IsTail(rest, held, h) /\ IsAppend(more, avail, n, held[1])
      BY <1>3, <2>1 DEF IsTail, IsAppend
    <3> QED
      BY <1>1, <1>2, <2>2, <3>1, FirstToLast
  <2>4. NoRepeats(new) /\ Elements(new) = pool.heap
    <3>1. h + n \in Nat \ {0}
      BY <1>1
    <3> QED
      BY <1>2, <2>3, <3>1, FirstMovedElements
  <2>5. /\ fixed_deallocate(pool, Head(held), N).heap = pool.heap
        /\ fixed_deallocate(pool, Head(held), N).m_available_buffers = more
    BY <1>4 DEF fixed_deallocate, FixedPools
  <2> QED
    BY <1>1, <2>4, <2>5, Zenon DEF FixedInStep, Elements
<1>5. CASE ~(n < N)
  <2> DEFINE new == rest \o avail
  <2>1. IsJoin(new, rest, avail, h - 1, n)
    BY <1>1, <1>3, Joined, Zenon
  <2>2. FirstRemoved(all, new, h + n, held[1])
    <3>1. IsTail(rest, held, h)
      BY <1>3 DEF IsTail
    <3> QED
      BY <1>1, <1>2, <2>1, <3>1, FirstAway
  <2>3. NoRepeats(new) /\ Elements(new) = pool.heap \ {held[1]}
    <3>1. h + n \in Nat \ {0}
      BY <1>1
    <3> QED
      BY <1>2, <2>2, <3>1, FirstRemovedElements
  <2>4. /\ fixed_deallocate(pool, Head(held), N).heap = pool.heap \ {held[1]}
        /\ fixed_deallocate(pool, Head(held), N).m_available_buffers = avail
    BY <1>3, <1>5 DEF fixed_deallocate, FixedPools
  <2>5. ASSUME NEW p, p.heap = pool.heap \ {held[1]}, p.m_available_buffers = avail
        PROVE  FixedInStep(p, rest)
    <3>1. rest \o p.m_available_buffers = new
      BY <2>5
    <3>2. FixedInStep(p, rest) <=>
            LET joined == rest \o p.m_available_buffers
            IN  NoRepeats(joined) /\ p.heap = Elements(joined)
      BY DEF FixedInStep, Elements
    <3> HIDE DEF new
    <3> QED
      BY <2>3, <2>5, <3>1, <3>2, Zenon
  <2> QED
    BY <1>1, <2>4, <2>5
<1> QED
  BY <1>4, <1>5

-------------------------------------------------------------------------------
(***************************************************************************)
(* The threads: where they are, and why none that could go on stays asleep. *)
(***************************************************************************)
\* Where the threads are, who keeps the mutex, who may be asleep.
Control ==
  /\ pc \in [Threads -> PCs]
  /\ result = [t \in Threads |-> result[t]]
  /\ pc["writer"] = "write_loop" => m_mutex = {"writer"}
  /\ pc["reader"] = "read_finish" => m_mutex = {"reader"}
  /\ m_space_available \subseteq {"writer"}
  /\ m_space_available # {} => pc["writer"] = "write_wait"
  /\ m_data_available \subseteq {"reader"}
  /\ m_data_available # {} => pc["reader"] = "read_wait"

\* Why a reader asleep is told of new data: the flag by which write decides to
\* notify is up while the reader waits, what a write has appended it has noted
\* by the time it has nothing left to copy, and completion leaves no other
\* reason to wake up than completion itself.
ReaderTold ==
  /\ pc["reader"] = "read_wait" => m_reader_waiting
  /\ notify => pc["writer"] \in {"write_loop", "write_notify"}
  /\ pc["writer"] \in {"write_lock", "write_wait"} => data # 0
  /\ pc["writer"] = "write_loop" /\ data = 0 /\ m_reader_waiting => notify
  /\ m_reader_completed => m_buffered_size = 0 /\ m_examined_size = 0
  /\ m_writer_completed /\ m_data_available # {} =>
       \E t \in Threads : pc[t] = "writer_completed"
  /\ ReaderNotForgotten

Wakeups == Control /\ WriterNotForgotten /\ ReaderTold

-------------------------------------------------------------------------------
\* Every step keeps Control.
LEMMA ControlStep == Control /\ [Next]_vars => Control'
<1> SUFFICES ASSUME Control, [Next]_vars PROVE Control'
  OBVIOUS
<1> USE DEF counters, pending, completed, locals, calls, sleepers, Threads
<1>1. ASSUME NEW n \in WriteSizes, write(n) PROVE Control'
  BY <1>1 DEF write, Goto, Control, PCs
<1>2. ASSUME NEW min \in MinSizes, read_at_least(min) PROVE Control'
  BY <1>2 DEF read_at_least, Goto, Control, PCs
<1>3. ASSUME NEW e, NEW c, advance(c, e) PROVE Control'
  BY <1>3 DEF advance, Goto, Control, PCs
<1>4. ASSUME NEW t \in Threads, complete_writer(t) \/ complete_reader(t) PROVE Control'
  BY <1>4 DEF complete_writer, complete_reader, Goto, Control, PCs
<1>5. ASSUME WriteLock \/ WriteWaitReturns PROVE Control'
  BY <1>5 DEF WriteLock, WriteWaitReturns, Return, Goto, Control, PCs
<1>6. ASSUME ReadWaitReturns PROVE Control'
  BY <1>6 DEF ReadWaitReturns, Goto, Control, PCs
<1>7. ASSUME WriteLoop PROVE Control'
  BY <1>7 DEF WriteLoop, Return, Goto, Control, PCs
<1>8. ASSUME WriteNotify \/ AdvanceNotify PROVE Control'
  BY <1>8 DEF WriteNotify, AdvanceNotify, Return, Goto, Control, PCs
<1>9. ASSUME ReadFinish PROVE Control'
  BY <1>9 DEF ReadFinish, Return, Goto, Control, PCs
<1>10. ASSUME NEW t \in Threads, CompleteNotify(t) PROVE Control'
  BY <1>10 DEF CompleteNotify, Goto, Control, PCs
<1>11. ASSUME NEW t \in Threads, RequestStop(t) \/ SpuriousWakeup(t) PROVE Control'
  BY <1>11 DEF RequestStop, SpuriousWakeup, Control
<1>12. CASE UNCHANGED vars
  BY <1>12 DEF vars, Control
<1> QED
  BY <1>1, <1>2, <1>3, <1>4, <1>5, <1>6, <1>7, <1>8, <1>9, <1>10, <1>11, <1>12
  DEF Next, Relock, Continue

\* A writer asleep stays asleep or is notified; whoever clears m_writer_paused
\* goes on to notify it.
LEMMA WriterStep ==
  Control /\ WriterNotForgotten /\ [Next]_vars => WriterNotForgotten'
<1> SUFFICES ASSUME Control, WriterNotForgotten, [Next]_vars PROVE WriterNotForgotten'
  OBVIOUS
<1> USE DEF counters, pending, completed, locals, calls, sleepers, Threads
<1>1. ASSUME NEW n \in WriteSizes, write(n) PROVE WriterNotForgotten'
  BY <1>1 DEF write, Goto, Control, WriterNotForgotten
<1>2. ASSUME NEW min \in MinSizes, read_at_least(min) PROVE WriterNotForgotten'
  BY <1>2 DEF read_at_least, Goto, Control, WriterNotForgotten
<1>3. ASSUME NEW e, NEW c, advance(c, e) PROVE WriterNotForgotten'
  BY <1>3, Zenon DEF advance, Goto, Control, WriterNotForgotten
<1>4. ASSUME NEW t \in Threads, complete_writer(t) \/ complete_reader(t)
      PROVE  WriterNotForgotten'
  BY <1>4 DEF complete_writer, complete_reader, Goto, Control, WriterNotForgotten
<1>5. ASSUME WriteLock \/ WriteWaitReturns PROVE WriterNotForgotten'
  BY <1>5 DEF WriteLock, WriteWaitReturns, space_available_predicate, Return, Goto,
     Control, WriterNotForgotten
<1>6. ASSUME ReadWaitReturns PROVE WriterNotForgotten'
  BY <1>6 DEF ReadWaitReturns, Goto, Control, WriterNotForgotten
<1>7. ASSUME WriteLoop PROVE WriterNotForgotten'
  BY <1>7 DEF WriteLoop, Control, WriterNotForgotten
<1>8. ASSUME WriteNotify \/ AdvanceNotify PROVE WriterNotForgotten'
  BY <1>8 DEF WriteNotify, AdvanceNotify, Return, Goto, Control, WriterNotForgotten
<1>9. ASSUME ReadFinish PROVE WriterNotForgotten'
  BY <1>9 DEF ReadFinish, Return, Goto, Control, WriterNotForgotten
<1>10. ASSUME NEW t \in Threads, CompleteNotify(t) PROVE WriterNotForgotten'
  BY <1>10 DEF CompleteNotify, Goto, Control, WriterNotForgotten
<1>11. ASSUME NEW t \in Threads, RequestStop(t) \/ SpuriousWakeup(t)
       PROVE  WriterNotForgotten'
  BY <1>11 DEF RequestStop, SpuriousWakeup, Control, WriterNotForgotten
<1>12. CASE UNCHANGED vars
  BY <1>12 DEF vars, WriterNotForgotten
<1> QED
  BY <1>1, <1>2, <1>3, <1>4, <1>5, <1>6, <1>7, <1>8, <1>9, <1>10, <1>11, <1>12
  DEF Next, Relock, Continue

\* The same for the reader.
LEMMA ReaderStep == Control /\ ReaderTold /\ [Next]_vars => ReaderTold'
<1> SUFFICES ASSUME Control, ReaderTold, [Next]_vars PROVE ReaderTold'
  OBVIOUS
<1> USE DEF counters, pending, completed, locals, calls, sleepers, Threads,
            ReaderTold, ReaderNotForgotten, data_available_predicate
<1>1. ASSUME NEW n \in WriteSizes, write(n) PROVE ReaderTold'
  BY <1>1, PipelineAssumption DEF write, Goto, Control
<1>2. ASSUME NEW min \in MinSizes, read_at_least(min) PROVE ReaderTold'
  BY <1>2 DEF read_at_least, Goto, Control
<1>3. ASSUME NEW e, NEW c, advance(c, e) PROVE ReaderTold'
  BY <1>3 DEF advance, Goto, Control
<1>4. ASSUME NEW t \in Threads, complete_writer(t) \/ complete_reader(t) PROVE ReaderTold'
  BY <1>4 DEF complete_writer, complete_reader, Goto, Control
<1>5. ASSUME WriteLock \/ WriteWaitReturns PROVE ReaderTold'
  BY <1>5 DEF WriteLock, WriteWaitReturns, is_any_completed, Return, Goto, Control
<1>6. ASSUME ReadWaitReturns PROVE ReaderTold'
  BY <1>6, Zenon DEF ReadWaitReturns, Goto, Control
<1>7. ASSUME WriteLoop PROVE ReaderTold'
  <2>1. CASE CopyToTail /\ ~is_any_completed /\ UNCHANGED <<pc, calls>>
    <3>1. m_reader_waiting => notify'
      BY <2>1, Zenon DEF CopyToTail
    <3>2. UNCHANGED <<pc, result, m_reader_waiting, m_data_available, m_writer_completed,
                      m_reader_completed, m_examined_size, min_size>>
      BY <1>7, <2>1 DEF WriteLoop
    <3> QED
      BY <1>7, <2>1, <3>1, <3>2 DEF WriteLoop, is_any_completed, Control
  <2>2. CASE ~(CopyToTail /\ ~is_any_completed /\ UNCHANGED <<pc, calls>>)
    BY <1>7, <2>2 DEF WriteLoop, is_any_completed, Return, Goto, Control
  <2> QED
    BY <2>1, <2>2
<1>8. ASSUME WriteNotify \/ AdvanceNotify PROVE ReaderTold'
  BY <1>8 DEF WriteNotify, AdvanceNotify, Return, Goto, Control
<1>9. ASSUME ReadFinish PROVE ReaderTold'
  BY <1>9 DEF ReadFinish, Return, Goto, Control
<1>10. ASSUME NEW t \in Threads, CompleteNotify(t) PROVE ReaderTold'
  BY <1>10 DEF CompleteNotify, Goto, Control
<1>11. ASSUME NEW t \in Threads, RequestStop(t) \/ SpuriousWakeup(t) PROVE ReaderTold'
  BY <1>11 DEF RequestStop, SpuriousWakeup, Control
<1>12. CASE UNCHANGED vars
  BY <1>12 DEF vars
<1> QED
  BY <1>1, <1>2, <1>3, <1>4, <1>5, <1>6, <1>7, <1>8, <1>9, <1>10, <1>11, <1>12, Zenon
  DEF Next, Relock, Continue

-------------------------------------------------------------------------------
\* Nobody waits in the beginning.
LEMMA WakeupsInit == Init => Wakeups
BY DEF Init, Wakeups, Control, PCs, Threads, WriterNotForgotten, ReaderTold,
       ReaderNotForgotten, data_available_predicate

\* Wakeups is inductive.
LEMMA WakeupsInvariant == Spec => []Wakeups
<1>1. Wakeups /\ [Next]_vars => Wakeups'
  BY ControlStep, WriterStep, ReaderStep DEF Wakeups
<1> QED
  BY WakeupsInit, <1>1, PTL DEF Spec

\* pipeline::advance and the completions clear m_writer_paused under the mutex
\* and notify after it: whatever the sizes, the thresholds and the threads that
\* complete or cancel, a writer asleep that is not paused is about to be
\* notified.
THEOREM WritersWoken == Spec => []WriterNotForgotten
<1>1. Wakeups => WriterNotForgotten
  BY DEF Wakeups
<1> QED
  BY <1>1, WakeupsInvariant, PTL

\* pipeline::write decides whether to notify by a flag that the reader raises
\* before it waits: a reader asleep on data it asked for is about to be
\* notified, unless the last write was cancelled.
THEOREM ReadersWoken == Spec => []ReaderNotForgotten
<1>1. Wakeups => ReaderNotForgotten
  BY DEF Wakeups, ReaderTold
<1> QED
  BY <1>1, WakeupsInvariant, PTL

-------------------------------------------------------------------------------
(***************************************************************************)
(* How much storage the pipeline holds.                                    *)
(***************************************************************************)

\* A sequence, whatever its elements are.
IsSequence(s) == Len(s) \in Nat /\ s = [i \in 1..Len(s) |-> s[i]]

\* The storage is counted until the reader completes, and never exceeds what
\* the pool was made for.
Storage ==
  /\ IsSequence(m_segments)
  /\ ~m_reader_completed => m_actual_buffered_size = BufferSize * Len(m_segments)
  /\ StorageBounded

\* A sequence is a sequence over the set of its elements.
LEMMA SequenceOfItsElements ==
  ASSUME NEW s, IsSequence(s)
  PROVE  s \in Seq({s[i] : i \in 1..Len(s)})
<1> DEFINE S == {s[i] : i \in 1..Len(s)}
<1>1. s \in [1..Len(s) -> S]
  BY DEF IsSequence
<1> QED
  BY <1>1, SeqDef DEF IsSequence

\* A function on 1..n is a sequence of length n.
LEMMA FunctionOnInterval ==
  ASSUME NEW n \in Nat, NEW f, f = [i \in 1..n |-> f[i]]
  PROVE  IsSequence(f) /\ Len(f) = n
<1> DEFINE S == {f[i] : i \in 1..n}
<1>1. f \in [1..n -> S]
  OBVIOUS
<1>2. f \in Seq(S) /\ DOMAIN f = 1..n
  BY <1>1, SeqDef
<1>3. Len(f) = n
  BY <1>2, LenProperties
<1> QED
  BY <1>3 DEF IsSequence

\* get_segment makes the list of segments longer by one.
LEMMA AppendOne ==
  ASSUME NEW s, NEW e, IsSequence(s)
  PROVE  IsSequence(Append(s, e)) /\ Len(Append(s, e)) = Len(s) + 1
<1> DEFINE S == {s[i] : i \in 1..Len(s)} \union {e}
<1>1. s \in Seq(S)
  <2>1. s \in [1..Len(s) -> S]
    BY DEF IsSequence
  <2> QED
    BY <2>1, SeqDef DEF IsSequence
<1>2. Append(s, e) \in Seq(S) /\ Len(Append(s, e)) = Len(s) + 1
  BY <1>1, AppendProperties
<1>3. Append(s, e) = [i \in 1..Len(Append(s, e)) |-> Append(s, e)[i]]
  BY <1>2, LenProperties, SeqDef, Zenon
<1> QED
  BY <1>2, <1>3 DEF IsSequence

\* advance makes it shorter by the segments it pops.
LEMMA DropFirst ==
  ASSUME NEW s, IsSequence(s), NEW p \in 0..Len(s)
  PROVE  /\ IsSequence(SubSeq(s, p + 1, Len(s)))
         /\ Len(SubSeq(s, p + 1, Len(s))) = Len(s) - p
<1> DEFINE S == {s[i] : i \in 1..Len(s)}
           r == SubSeq(s, p + 1, Len(s))
<1>1. s \in Seq(S) /\ Len(s) \in Nat
  BY SequenceOfItsElements DEF IsSequence
<1>2. r \in Seq(S) /\ Len(r) = Len(s) - p
  BY <1>1, SubSeqProperties, SMTT(30)
<1>3. r = [i \in 1..Len(r) |-> r[i]]
  BY <1>2, LenProperties, SeqDef
<1> QED
  BY <1>2, <1>3, SMTT(30) DEF IsSequence

\* A segment more fits below the pause threshold: it fits in the pool.
LEMMA OneMoreFits ==
  ASSUME NEW B \in Nat \ {0}, NEW P \in Nat, NEW n \in Nat, B * n + B <= P
  PROVE  n + 1 <= P \div B
OBVIOUS

\* get_segment appends a segment only if the pool has one left.
LEMMA CopyKeepsStorage ==
  ASSUME Storage, ~is_any_completed, writer_available_capacity # 0, CopyToTail,
         UNCHANGED completed
  PROVE  Storage'
<1> DEFINE segments == get_segment
           n == Len(m_segments)
<1> USE PipelineAssumption
<1>1. m_actual_buffered_size = BufferSize * n /\ n \in Nat
  BY DEF Storage, IsSequence, is_any_completed
<1>2. /\ IsSequence(segments) /\ Len(segments) \in {n, n + 1}
      /\ Len(segments) <= max_pooled_segments
  <2>1. CASE has_writable_tail(m_segments)
    BY <2>1, <1>1 DEF get_segment, Storage, StorageBounded
  <2>2. CASE ~has_writable_tail(m_segments)
    <3>1. IsSequence(segments) /\ Len(segments) = n + 1
      BY <2>2, AppendOne DEF get_segment, Storage
    <3>2. BufferSize * n + BufferSize <= PauseThreshold
      BY <2>2, <1>1 DEF writer_available_capacity, segment_allocation_capacity
    <3>3. n + 1 <= PauseThreshold \div BufferSize
      BY <3>2, <1>1, OneMoreFits, Zenon
    <3> QED
      BY <3>1, <3>3, <1>1 DEF max_pooled_segments
  <2> QED
    BY <2>1, <2>2
<1>3. /\ m_segments' = [i \in 1..Len(segments) |-> m_segments'[i]]
      /\ m_actual_buffered_size' = BufferSize * n + BufferSize * (Len(segments) - n)
  <2>1. PICK size : m_segments' = [segments EXCEPT ![Len(segments)] =
                                     copy_from(@, Committed + 1, size)]
    BY Zenon DEF CopyToTail
  <2>2. m_actual_buffered_size' =
          m_actual_buffered_size + BufferSize * (Len(segments) - Len(m_segments))
    BY DEF CopyToTail
  <2>3. m_segments' = [i \in 1..Len(segments) |-> m_segments'[i]]
    BY <2>1, <1>2, Zenon DEF IsSequence
  <2> QED
    BY <2>2, <2>3, <1>1
<1>4. IsSequence(m_segments') /\ Len(m_segments') = Len(segments)
  BY <1>2, <1>3, FunctionOnInterval, Zenon DEF IsSequence
<1>5. m_actual_buffered_size' = BufferSize * Len(m_segments')
  <2>1. \A k \in {n, n + 1} : BufferSize * n + BufferSize * (k - n) = BufferSize * k
    BY <1>1
  <2> QED
    BY <2>1, <1>2, <1>3, <1>4, Zenon
<1> QED
  BY <1>2, <1>4, <1>5, Zenon DEF Storage, StorageBounded, max_pooled_segments, IsSequence

\* advance gives back one segment of storage for each it pops.
LEMMA AdvanceKeepsStorage ==
  ASSUME Storage, NEW c, NEW e, advance(c, e)
  PROVE  Storage'
<1> DEFINE n == Len(m_segments)
           p == Popped(c)
           rest == SubSeq(m_segments, p + 1, n)
<1> USE PipelineAssumption
<1>1. n \in Nat /\ DOMAIN m_segments = 1..n
  BY DEF Storage, IsSequence
<1>2. p \in 0..n
  <2>1. IsFiniteSet(1..n) /\ Cardinality(1..n) = n
    <3>1. IsFiniteSet(1..n) /\ Cardinality(1..n) = IF 1 > n THEN 0 ELSE n - 1 + 1
      BY <1>1, FS_Interval, SMTT(30)
    <3> QED
      BY <1>1, <3>1
  <2>2. \A T \in SUBSET (1..n) : Cardinality(T) \in Nat /\ Cardinality(T) <= n
    BY <2>1, FS_Subset, FS_CardinalityType, Zenon
  <2> QED
    BY <1>1, <2>2 DEF Popped
<1>3. IsSequence(rest) /\ Len(rest) = n - p
  BY <1>2, DropFirst DEF Storage
<1>4. m_segments' = [i \in 1..(n - p) |-> m_segments'[i]]
  BY <1>3, Zenon DEF advance, Left, IsSequence
<1>5. IsSequence(m_segments') /\ Len(m_segments') = n - p
  BY <1>1, <1>2, <1>4, FunctionOnInterval
<1>6. m_actual_buffered_size' = BufferSize * n - BufferSize * p
  BY DEF advance, Storage
<1>7. m_actual_buffered_size' = BufferSize * Len(m_segments')
  BY <1>1, <1>2, <1>5, <1>6
<1>8. Len(m_segments') <= max_pooled_segments
  BY <1>1, <1>2, <1>5 DEF Storage, StorageBounded, max_pooled_segments
<1> QED
  BY <1>5, <1>7, <1>8 DEF Storage, StorageBounded, max_pooled_segments

\* Every step keeps the segments within the pool.
LEMMA StorageStep == Storage /\ [Next]_vars => Storage'
<1> SUFFICES ASSUME Storage, [Next]_vars PROVE Storage'
  OBVIOUS
<1>1. CASE UNCHANGED <<m_segments, m_actual_buffered_size, m_reader_completed>>
  BY <1>1 DEF Storage, IsSequence, StorageBounded, max_pooled_segments
<1>2. ASSUME NEW t \in Threads, complete_reader(t) PROVE Storage'
  BY <1>2 DEF complete_reader, Storage, IsSequence, StorageBounded, max_pooled_segments
<1>3. ASSUME WriteLoop PROVE Storage'
  <2>1. \/ UNCHANGED <<m_segments, m_actual_buffered_size, m_reader_completed>>
        \/ /\ ~is_any_completed /\ writer_available_capacity # 0 /\ CopyToTail
           /\ UNCHANGED completed
    BY <1>3 DEF WriteLoop, completed
  <2> QED
    BY <2>1, <1>1, CopyKeepsStorage
<1>4. ASSUME NEW e, NEW c, advance(c, e) PROVE Storage'
  BY <1>4, AdvanceKeepsStorage
<1>5. \/ UNCHANGED <<m_segments, m_actual_buffered_size, m_reader_completed>>
      \/ \E t \in Threads : complete_reader(t)
      \/ WriteLoop
      \/ \E e, c : advance(c, e)
  BY DEF Next, vars, Relock, Continue, write, read_at_least, complete_writer, WriteLock,
         WriteWaitReturns, ReadWaitReturns, WriteNotify, ReadFinish, AdvanceNotify,
         CompleteNotify, RequestStop, SpuriousWakeup, counters, completed
<1> QED
  BY <1>1, <1>2, <1>3, <1>4, <1>5

\* There is no segment in the beginning.
LEMMA StorageFitsInit == Init => Storage
<1> SUFFICES ASSUME Init PROVE Storage
  OBVIOUS
<1>1. IsSequence(m_segments) /\ Len(m_segments) = 0
  BY DEF Init, IsSequence
<1>2. 0 <= max_pooled_segments /\ BufferSize * 0 = 0
  BY PipelineAssumption DEF max_pooled_segments
<1> QED
  BY <1>1, <1>2 DEF Init, Storage, StorageBounded

\* segment_allocation_capacity and should_pause_writer bound what write
\* allocates: for every buffer size and threshold, the pipeline never holds
\* more segments than the pool that validate_options sized for it.
THEOREM StorageFits == Spec => []StorageBounded
<1>1. Storage => StorageBounded
  BY DEF Storage
<1> QED
  BY StorageFitsInit, <1>1, StorageStep, PTL DEF Spec

-------------------------------------------------------------------------------
(***************************************************************************)
(* The bytes: none is lost, duplicated or reordered, the counters agree    *)
(* with the segments, and a snapshot stays as it was read.                 *)
(***************************************************************************)
\* The segments behind the first are filled from their start, none is empty,
\* and only the last has room.
Filled(segments) ==
  \A i \in 1..Len(segments) :
    /\ Len(segments[i].bytes) \in 1..(BufferSize - segments[i].free)
    /\ i > 1 => Len(segments[i].bytes) = BufferSize - segments[i].free
    /\ segments[i].free > 0 => i = Len(segments)

\* readableBefore counts the bytes up to a segment.
LEMMA ReadableUpTo ==
  ASSUME m_segments \in Seq(Segment), NEW i \in 0..Len(m_segments)
  PROVE  readableBefore(i) = Len(UpTo(BytesOf(m_segments), i))
<1> DEFINE b == BytesOf(m_segments)
           n == Len(m_segments)
           l == [j \in 1..i |-> m_segments[j].bytes]
           r == SubSeq(b, 1, i)
<1>1. /\ b \in Seq(Seq(Nat)) /\ Len(b) = n /\ n \in Nat
      /\ \A j \in 1..n : b[j] = m_segments[j].bytes
  BY BytesOfType, LenProperties
<1>2. r \in [1..i -> Seq(Nat)] /\ \A j \in 1..i : r[j] = b[j]
  <2> HIDE DEF b, n
  <2>1. r \in Seq(Seq(Nat)) /\ Len(r) = i /\ \A j \in 1..i : r[j] = b[j]
    BY <1>1 DEF n
  <2> QED
    BY <2>1, LenProperties, Zenon
<1>3. \A j \in 1..i : r[j] = m_segments[j].bytes
  BY <1>1, <1>2
<1> HIDE DEF r
<1>4. l = r
  BY <1>2, <1>3
<1> QED
  BY <1>4, Zenon DEF readableBefore, UpTo, r

-------------------------------------------------------------------------------
(***************************************************************************)
(* The inductive invariant: the segments, the counters, the stream.        *)
(***************************************************************************)

\* Until the reader completes, the counters agree with the segments.
Counted ==
  ~m_reader_completed =>
    /\ m_buffered_size = Len(Buffered)
    /\ m_actual_buffered_size = BufferSize * Len(m_segments)
    /\ m_examined_size <= m_buffered_size
    /\ m_pending_read_size <= m_buffered_size

Sizes ==
  /\ m_buffered_size \in Nat /\ m_actual_buffered_size \in Nat
  /\ m_examined_size \in Nat /\ m_pending_read_size \in Nat /\ data \in Nat

Stream ==
  /\ m_segments \in Seq(Segment) /\ consumed \in Seq(Nat)
  /\ Filled(m_segments) /\ Counted /\ Sizes /\ StreamIntact

\* Buffered is what the segments have, flattened.
LEMMA BufferedIs ==
  ASSUME m_segments \in Seq(Segment)
  PROVE  Buffered = FlattenSeq(BytesOf(m_segments)) /\ Buffered \in Seq(Nat)
<1>1. Buffered = FlattenSeq(BytesOf(m_segments))
  BY DEF Buffered, BytesOf
<1>2. BytesOf(m_segments) \in Seq(Seq(Nat))
  BY BytesOfType
<1> QED
  BY <1>1, <1>2, FlattenType

\* The bytes of the stream behind those committed.
NextBytes(size) == [i \in 1..size |-> Len(consumed) + Len(Buffered) + 1 + i - 1]

\* get_segment returns segments whose last one has the capacity that write
\* computed, and adds no bytes.
LEMMA GetSegment ==
  ASSUME m_segments \in Seq(Segment), Filled(m_segments), writer_available_capacity # 0
  PROVE  /\ get_segment \in Seq(Segment) /\ Len(get_segment) # 0
         /\ get_segment[Len(get_segment)].free = writer_available_capacity
         /\ writer_available_capacity \in 1..BufferSize
         /\ FlattenSeq(BytesOf(get_segment)) = Buffered
<1> USE PipelineAssumption
<1> DEFINE n == Len(m_segments)
<1>1. n \in Nat /\ DOMAIN m_segments = 1..n
  BY LenProperties
<1>2. CASE has_writable_tail(m_segments)
  <2>1. n # 0 /\ n \in 1..n /\ m_segments[n].free > 0
    BY <1>1, <1>2, EmptySeq DEF has_writable_tail
  <2>2. get_segment = m_segments /\ writer_available_capacity = m_segments[n].free
    BY <1>2 DEF get_segment, writer_available_capacity
  <2>3. m_segments[n] \in Segment
    BY <2>1, ElementOfSeq
  <2>4. m_segments[n].free \in Nat /\ m_segments[n].bytes \in Seq(Nat)
    BY <2>3 DEF Segment
  <2>5. Len(m_segments[n].bytes) \in 1..(BufferSize - m_segments[n].free)
    BY <2>1 DEF Filled
  <2>6. m_segments[n].free \in 1..BufferSize
    <3> DEFINE f == m_segments[n].free
               l == Len(m_segments[n].bytes)
    <3>1. f \in Nat /\ f > 0 /\ l \in 1..(BufferSize - f)
      BY <2>1, <2>4, <2>5
    <3> HIDE DEF f, l
    <3>2. f \in 1..BufferSize
      BY <3>1
    <3> QED
      BY <3>2 DEF f
  <2> QED
    BY <2>1, <2>2, <2>6, BufferedIs
<1>3. CASE ~has_writable_tail(m_segments)
  <2> DEFINE e == [bytes |-> <<>>, free |-> BufferSize]
  <2>1. get_segment = Append(m_segments, e) /\ writer_available_capacity = BufferSize
    BY <1>3 DEF get_segment, writer_available_capacity
  <2>2. /\ Append(m_segments, e) \in Seq(Segment)
        /\ FlattenSeq(BytesOf(Append(m_segments, e))) = FlattenSeq(BytesOf(m_segments))
    BY NewTail
  <2>3. e \in Segment /\ e.free = BufferSize
    BY EmptySeq DEF Segment
  <2> HIDE DEF e
  <2>4. Len(Append(m_segments, e)) = n + 1 /\ Append(m_segments, e)[n + 1] = e
    BY <2>3, AppendProperties
  <2>5. FlattenSeq(BytesOf(get_segment)) = Buffered
    BY <2>1, <2>2, BufferedIs
  <2>6. get_segment[Len(get_segment)].free = BufferSize /\ Len(get_segment) # 0
    BY <1>1, <2>1, <2>3, <2>4
  <2> QED
    BY <2>1, <2>2, <2>5, <2>6
<1> QED
  BY <1>2, <1>3

\* What CopyToTail does to the stream: it appends the next bytes of the stream,
\* as many as fit, and nothing else.
LEMMA CopyAppends ==
  ASSUME Stream, data # 0, writer_available_capacity # 0, CopyToTail
  PROVE  \E size \in 1..writer_available_capacity :
           \E w \in Seq(Nat) :
           /\ size <= data /\ Len(w) = size
           /\ w = NextBytes(size)
           /\ LastFilled(m_segments', get_segment, w, writer_available_capacity - size)
           /\ m_segments' \in Seq(Segment) /\ Len(m_segments') = Len(get_segment)
           /\ Joins(Buffered', Buffered, w)
           /\ m_buffered_size' = m_buffered_size + size /\ data' = data - size
           /\ m_actual_buffered_size' = m_actual_buffered_size
                  + BufferSize * (Len(get_segment) - Len(m_segments))
<1> DEFINE cap == writer_available_capacity
           size == Min({data, cap})
           g == get_segment
           n == Len(g)
           w == NextBytes(size)
           new == [bytes |-> g[n].bytes \o w, free |-> cap - size]
<1> USE PipelineAssumption
<1>1. /\ g \in Seq(Segment) /\ n # 0 /\ g[n].free = cap /\ cap \in 1..BufferSize
      /\ FlattenSeq(BytesOf(g)) = Buffered
  BY GetSegment DEF Stream
<1>2. data \in Nat /\ cap \in Nat
  BY <1>1 DEF Stream, Sizes
<1>3. size \in 1..cap /\ size <= data /\ size \in Nat
  <2>1. size \in {data, cap} /\ size <= data /\ size <= cap
    BY <1>2, MinOfTwo
  <2> HIDE DEF size, cap
  <2> QED
    BY <1>2, <2>1 DEF cap
<1>4. /\ consumed \in Seq(Nat) /\ Buffered \in Seq(Nat)
      /\ \A i \in 1..(Len(consumed) + Len(Buffered)) : (consumed \o Buffered)[i] = i
  BY BufferedIs DEF Stream, StreamIntact, Committed
<1>5. w \in Seq(Nat) /\ Len(w) = size
  <2> DEFINE B == Buffered
             sz == size
  <2>1. B \in Seq(Nat) /\ sz \in Nat
    BY <1>3, <1>4
  <2>2. \A i \in 1..(Len(consumed) + Len(B)) : (consumed \o B)[i] = i
    BY <1>4
  <2> HIDE DEF B, sz
  <2> DEFINE v == [i \in 1..sz |-> Len(consumed) + Len(B) + 1 + i - 1]
  <2>3. v \in Seq(Nat) /\ Len(v) = sz
    BY <1>4, <2>1, <2>2, StreamGrows
  <2> QED
    BY <2>3, Zenon DEF B, sz, NextBytes
<1>6. LastFilled(m_segments', g, w, cap - size)
  <2>1. m_segments' = [g EXCEPT ![n] = copy_from(g[n], Committed + 1, size)]
    BY DEF CopyToTail
  <2>2. copy_from(g[n], Committed + 1, size) = new
    BY <1>1 DEF copy_from, Committed, NextBytes
  <2> QED
    BY <2>1, <2>2, Zenon DEF LastFilled
<1>7. /\ m_segments' \in Seq(Segment) /\ Len(m_segments') = n
      /\ Joins(FlattenSeq(BytesOf(m_segments')), FlattenSeq(BytesOf(g)), w)
  <2>1. cap - size \in Nat
    BY <1>2, <1>3
  <2> HIDE DEF cap, size, g, w
  <2> QED
    BY <1>1, <1>5, <1>6, <2>1, FillTail
<1>8. Joins(Buffered', Buffered, w)
  <2>1. Buffered' = FlattenSeq(BytesOf(m_segments'))
    BY DEF Buffered, BytesOf
  <2> QED
    BY <1>1, <1>7, <2>1, Zenon
<1>9. /\ m_buffered_size' = m_buffered_size + size /\ data' = data - size
      /\ m_actual_buffered_size' = m_actual_buffered_size + BufferSize * (n - Len(m_segments))
  BY DEF CopyToTail
<1>10. w = NextBytes(size)
  OBVIOUS
<1> HIDE DEF size, w
<1> QED
  BY <1>3, <1>5, <1>6, <1>7, <1>8, <1>9, <1>10

\* The segments that get_segment returns are filled up to the last one.
LEMMA GetSegmentFilled ==
  ASSUME m_segments \in Seq(Segment), Filled(m_segments), writer_available_capacity # 0
  PROVE  LET g == get_segment
             n == Len(g)
         IN  /\ \A i \in 1..(n - 1) :
                  /\ g[i].free = 0 /\ Len(g[i].bytes) \in 1..BufferSize
                  /\ i > 1 => Len(g[i].bytes) = BufferSize
             /\ Len(g[n].bytes) \in 0..(BufferSize - writer_available_capacity)
             /\ n > 1 => Len(g[n].bytes) = BufferSize - writer_available_capacity
<1> USE PipelineAssumption
<1> DEFINE s == m_segments
           k == Len(s)
           B == BufferSize
<1>1. k \in Nat /\ \A i \in 1..k : s[i].free \in Nat /\ s[i].bytes \in Seq(Nat)
  <2>1. k \in Nat /\ \A i \in 1..k : s[i] \in Segment
    BY LenProperties, ElementOfSeq
  <2> QED
    BY <2>1 DEF Segment
<1>2. ASSUME NEW i \in 1..k
      PROVE  /\ Len(s[i].bytes) \in 1..(B - s[i].free)
             /\ i > 1 => Len(s[i].bytes) = B - s[i].free
             /\ s[i].free > 0 => i = k
  BY DEF Filled
<1>3. ASSUME NEW i \in 1..k, s[i].free = 0
      PROVE  Len(s[i].bytes) \in 1..B /\ (i > 1 => Len(s[i].bytes) = B)
  <2>1. B - s[i].free = B
    BY <1>3
  <2> QED
    BY <2>1, <1>2
<1>4. CASE has_writable_tail(m_segments)
  <2>1. k # 0 /\ k \in 1..k /\ s[k].free > 0
    BY <1>1, <1>4, EmptySeq DEF has_writable_tail
  <2>2. get_segment = s /\ writer_available_capacity = s[k].free
    BY <1>4 DEF get_segment, writer_available_capacity
  <2>3. ASSUME NEW i \in 1..(k - 1) PROVE i \in 1..k /\ s[i].free = 0
    <3>1. i \in 1..k /\ i # k
      BY <1>1
    <3>2. s[i].free \in Nat /\ (s[i].free > 0 => i = k)
      BY <1>1, <1>2, <3>1
    <3> HIDE DEF s, k
    <3> QED
      BY <3>1, <3>2
  <2>4. /\ Len(s[k].bytes) \in 0..(B - s[k].free)
        /\ k > 1 => Len(s[k].bytes) = B - s[k].free
    <3>1. /\ Len(s[k].bytes) \in 1..(B - s[k].free)
          /\ k > 1 => Len(s[k].bytes) = B - s[k].free
      BY <1>2, <2>1
    <3> QED
      BY <3>1
  <2> HIDE DEF s, k
  <2>5. Len(get_segment) = k
    BY <2>2 DEF k
  <2> QED
    BY <1>3, <2>2, <2>3, <2>4, <2>5
<1>5. CASE ~has_writable_tail(m_segments)
  <2> DEFINE e == [bytes |-> <<>>, free |-> BufferSize]
  <2>1. get_segment = Append(s, e) /\ writer_available_capacity = B
    BY <1>5 DEF get_segment, writer_available_capacity
  <2>2. e \in Segment /\ e.bytes = <<>> /\ Len(<<>>) = 0
    BY EmptySeq DEF Segment
  <2> HIDE DEF e
  <2>3. /\ Len(get_segment) = k + 1 /\ get_segment[k + 1] = e
        /\ \A i \in 1..k : get_segment[i] = s[i]
    BY <2>1, <2>2, AppendProperties
  <2>4. ASSUME NEW i \in 1..k PROVE s[i].free = 0
    <3>1. s # <<>>
      BY EmptySeq
    <3>2. ~ (s[k].free > 0)
      BY <1>5, <3>1 DEF has_writable_tail
    <3> QED
      BY <1>1, <1>2, <3>2
  <2>5. k + 1 > 1 => k >= 1
    BY <1>1
  <2>6. B - B = 0 /\ Len(get_segment[k + 1].bytes) = 0
    BY <2>2, <2>3
  <2>7. \A i \in 1..k : /\ get_segment[i].free = 0 /\ Len(get_segment[i].bytes) \in 1..B
                        /\ i > 1 => Len(get_segment[i].bytes) = B
    BY <1>3, <2>3, <2>4
  <2>8. (k + 1) - 1 = k
    BY <1>1
  <2> QED
    BY <2>1, <2>3, <2>6, <2>7, <2>8
<1> QED
  BY <1>4, <1>5

\* A copy keeps all but the last segment full.
LEMMA CopyFills ==
  ASSUME NEW g \in Seq(Segment), NEW cap \in 1..BufferSize, NEW size \in 1..cap,
         NEW w \in Seq(Nat), Len(w) = size, NEW t, LastFilled(t, g, w, cap - size),
         Len(g) # 0, Len(t) = Len(g),
         \A i \in 1..(Len(g) - 1) :
           /\ g[i].free = 0 /\ Len(g[i].bytes) \in 1..BufferSize
           /\ i > 1 => Len(g[i].bytes) = BufferSize,
         Len(g[Len(g)].bytes) \in 0..(BufferSize - cap),
         Len(g) > 1 => Len(g[Len(g)].bytes) = BufferSize - cap
  PROVE  Filled(t)
<1> USE PipelineAssumption
<1> DEFINE n == Len(g)
           l == Len(g[n].bytes)
<1>1. n \in Nat /\ n \in 1..n /\ DOMAIN g = 1..n /\ g[n].bytes \in Seq(Nat)
  <2>1. n \in Nat /\ n \in 1..n /\ DOMAIN g = 1..n
    BY LenProperties
  <2>2. g[n] \in Segment
    BY <2>1, ElementOfSeq
  <2> QED
    BY <2>1, <2>2 DEF Segment
<1>2. t[n].free = cap - size /\ t[n].bytes = g[n].bytes \o w
  <2> DEFINE e == [bytes |-> g[n].bytes \o w, free |-> cap - size]
  <2>1. t = [g EXCEPT ![n] = e]
    BY DEF LastFilled
  <2>2. e.free = cap - size /\ e.bytes = g[n].bytes \o w
    BY Zenon
  <2> HIDE DEF e
  <2>3. t[n] = e
    BY <1>1, <2>1
  <2> QED
    BY <2>2, <2>3
<1>3. ASSUME NEW i \in 1..(n - 1) PROVE t[i] = g[i]
  <2>1. i \in DOMAIN g /\ i # n
    BY <1>1
  <2> QED
    BY <2>1, Zenon DEF LastFilled
<1>4. Len(t[n].bytes) = l + size
  <2>1. Len(g[n].bytes \o w) = Len(g[n].bytes) + Len(w)
    <3> DEFINE h == g[n].bytes
    <3>1. h \in Seq(Nat)
      BY <1>1
    <3> HIDE DEF h
    <3> DEFINE z == h \o w
    <3>2. Joins(z, h, w)
      BY Zenon DEF Joins
    <3> HIDE DEF z
    <3>3. Len(z) = Len(h) + Len(w)
      BY <3>1, <3>2, JoinsLength, SMTT(30)
    <3> QED
      BY <3>3, Zenon DEF z, h
  <2> QED
    BY <1>2, <2>1, Zenon
<1>5. /\ l + size \in 1..(BufferSize - (cap - size))
      /\ n > 1 => l + size = BufferSize - (cap - size)
  <2>1. l \in 0..(BufferSize - cap) /\ (n > 1 => l = BufferSize - cap)
    OBVIOUS
  <2> HIDE DEF l, n
  <2> QED
    BY <2>1
<1> HIDE DEF l
<1>6. ASSUME NEW i \in 1..n
      PROVE  /\ Len(t[i].bytes) \in 1..(BufferSize - t[i].free)
             /\ i > 1 => Len(t[i].bytes) = BufferSize - t[i].free
             /\ t[i].free > 0 => i = n
  <2>1. CASE i = n
    BY <1>2, <1>4, <1>5, <2>1, SMTT(30)
  <2>2. CASE i # n
    <3>1. i \in 1..(n - 1) /\ t[i] = g[i]
      BY <1>1, <1>3, <2>2
    <3>2. /\ g[i].free = 0 /\ Len(g[i].bytes) \in 1..BufferSize
          /\ i > 1 => Len(g[i].bytes) = BufferSize
      BY <3>1
    <3>3. t[i].free = 0 /\ BufferSize - t[i].free = BufferSize
      BY <3>1, <3>2
    <3> QED
      BY <3>1, <3>2, <3>3
  <2> QED
    BY <2>1, <2>2
<1> QED
  BY <1>6 DEF Filled

\* What is behind the stream that a copy extends is the stream it extends.
LEMMA CopyKeepsStream ==
  ASSUME Stream, data # 0, writer_available_capacity # 0, CopyToTail,
         ~m_reader_completed,
         UNCHANGED <<consumed, m_examined_size, m_pending_read_size, m_reader_completed>>
  PROVE  Stream' /\ \E w \in Seq(Nat) : Joins(Buffered', Buffered, w)
<1> USE PipelineAssumption
<1> DEFINE cap == writer_available_capacity
           g == get_segment
<1>1. PICK size \in 1..cap : \E w \in Seq(Nat) :
           /\ size <= data /\ Len(w) = size
           /\ w = NextBytes(size)
           /\ LastFilled(m_segments', g, w, cap - size)
           /\ m_segments' \in Seq(Segment) /\ Len(m_segments') = Len(g)
           /\ Joins(Buffered', Buffered, w)
           /\ m_buffered_size' = m_buffered_size + size /\ data' = data - size
           /\ m_actual_buffered_size' = m_actual_buffered_size
                  + BufferSize * (Len(g) - Len(m_segments))
  BY CopyAppends
<1>2. PICK w \in Seq(Nat) :
           /\ size <= data /\ Len(w) = size
           /\ w = NextBytes(size)
           /\ LastFilled(m_segments', g, w, cap - size)
           /\ m_segments' \in Seq(Segment) /\ Len(m_segments') = Len(g)
           /\ Joins(Buffered', Buffered, w)
           /\ m_buffered_size' = m_buffered_size + size /\ data' = data - size
           /\ m_actual_buffered_size' = m_actual_buffered_size
                  + BufferSize * (Len(g) - Len(m_segments))
  BY <1>1
<1>3. /\ g \in Seq(Segment) /\ Len(g) # 0 /\ cap \in 1..BufferSize
  BY GetSegment DEF Stream
<1>4. Filled(m_segments')
  <2>1. /\ \A i \in 1..(Len(g) - 1) :
             /\ g[i].free = 0 /\ Len(g[i].bytes) \in 1..BufferSize
             /\ i > 1 => Len(g[i].bytes) = BufferSize
        /\ Len(g[Len(g)].bytes) \in 0..(BufferSize - cap)
        /\ Len(g) > 1 => Len(g[Len(g)].bytes) = BufferSize - cap
    BY GetSegmentFilled, Zenon DEF Stream
  <2>2. w \in Seq(Nat) /\ Len(w) = size /\ LastFilled(m_segments', g, w, cap - size)
        /\ Len(m_segments') = Len(g)
    BY <1>2
  <2> HIDE DEF g, cap
  <2> QED
    BY <1>3, <2>1, <2>2, CopyFills, Zenon
<1>5. Filled(m_segments)' = Filled(m_segments')
  BY DEF Filled
<1>6. Buffered \in Seq(Nat) /\ Buffered' \in Seq(Nat) /\ Len(Buffered') = Len(Buffered) + size
  <2> DEFINE B == Buffered
             C == Buffered'
  <2>1. B \in Seq(Nat)
    BY BufferedIs DEF Stream
  <2>2. Joins(C, B, w) /\ w \in Seq(Nat) /\ Len(w) = size
    BY <1>2
  <2> HIDE DEF B, C
  <2>4. C \in Seq(Nat) /\ Len(C) = Len(B) + Len(w)
    BY <2>1, <2>2, JoinsLength
  <2> QED
    BY <2>1, <2>2, <2>4 DEF B, C
<1>7. StreamIntact'
  <2> DEFINE B == Buffered
             C == Buffered'
  <2>1. /\ consumed \in Seq(Nat) /\ B \in Seq(Nat) /\ size \in Nat
        /\ \A i \in 1..(Len(consumed) + Len(B)) : (consumed \o B)[i] = i
    BY <1>3, <1>6 DEF Stream, StreamIntact, Committed
  <2>2. w = [i \in 1..size |-> Len(consumed) + Len(B) + 1 + i - 1]
    BY <1>2 DEF NextBytes
  <2>3. Joins(C, B, w)
    BY <1>2
  <2> HIDE DEF B, C
  <2>4. \A i \in 1..(Len(consumed) + Len(B \o w)) : (consumed \o (B \o w))[i] = i
    BY <2>1, <2>2, StreamGrows, SMTT(30)
  <2>5. \A i \in 1..(Len(consumed) + Len(C)) : (consumed \o C)[i] = i
    BY <2>3, <2>4, Zenon DEF Joins
  <2>6. consumed' = consumed
    OBVIOUS
  <2> QED
    BY <2>5, <2>6, Zenon DEF StreamIntact, Committed, C
<1>8. Len(m_segments) \in Nat /\ Len(g) \in Nat /\ size \in Nat
  BY <1>3, LenProperties DEF Stream
<1>9. Sizes' /\ Counted'
  <2> DEFINE L == Len(m_segments)
             G == Len(g)
             b == Len(Buffered)
  <2>1. /\ m_buffered_size' = m_buffered_size + size /\ data' = data - size
        /\ size <= data /\ Len(m_segments') = G
        /\ m_actual_buffered_size' = m_actual_buffered_size + BufferSize * (G - L)
        /\ m_examined_size' = m_examined_size
        /\ m_pending_read_size' = m_pending_read_size
    BY <1>2
  <2>2. Len(Buffered') = b + size /\ L \in Nat /\ G \in Nat /\ size \in Nat
    BY <1>6, <1>8
  <2>3. /\ m_buffered_size = b
        /\ m_actual_buffered_size = BufferSize * L
        /\ m_examined_size <= m_buffered_size
        /\ m_pending_read_size <= m_buffered_size
        /\ m_buffered_size \in Nat /\ m_actual_buffered_size \in Nat
        /\ m_examined_size \in Nat /\ m_pending_read_size \in Nat /\ data \in Nat
    BY DEF Stream, Counted, Sizes
  <2> HIDE DEF L, G, b, g, cap
  <2>4. BufferSize * L + BufferSize * (G - L) = BufferSize * G /\ BufferSize * G \in Nat
    BY <2>2
  <2>5. m_actual_buffered_size' = BufferSize * G /\ m_actual_buffered_size' \in Nat
    BY <2>1, <2>3, <2>4
  <2>6. Sizes'
    BY <2>1, <2>2, <2>3, <2>5 DEF Sizes
  <2>7. Counted'
    BY <2>1, <2>2, <2>3, <2>5 DEF Counted
  <2> QED
    BY <2>6, <2>7
<1>10. m_segments' \in Seq(Segment) /\ consumed' \in Seq(Nat)
  BY <1>2 DEF Stream
<1>11. Stream'
  BY <1>4, <1>5, <1>7, <1>9, <1>10 DEF Stream
<1> QED
  BY <1>2, <1>11

-------------------------------------------------------------------------------
\* The segments that advance pops are those that end at c or before it.
LEMMA PoppedIs ==
  ASSUME m_segments \in Seq(Segment), Filled(m_segments), NEW c \in 0..Len(Buffered)
  PROVE  LET b == BytesOf(m_segments)
             n == Len(m_segments)
         IN  /\ Popped(c) \in 0..n
             /\ Len(UpTo(b, Popped(c))) <= c
             /\ Popped(c) < n => c < Len(UpTo(b, Popped(c) + 1))
<1> USE PipelineAssumption
<1> DEFINE b == BytesOf(m_segments)
           n == Len(m_segments)
           R(i) == Len(UpTo(b, i))
<1>1. n \in Nat /\ DOMAIN m_segments = 1..n
  BY LenProperties
<1>2. /\ b \in Seq(Seq(Nat)) /\ Len(b) = n
      /\ \A i \in 1..n : b[i] = m_segments[i].bytes
  BY BytesOfType
<1>3. ASSUME NEW i \in 1..n PROVE Len(b[i]) > 0
  <2>1. Len(m_segments[i].bytes) \in 1..(BufferSize - m_segments[i].free)
    BY DEF Filled
  <2>2. Len(m_segments[i].bytes) > 0
    BY <2>1
  <2> QED
    BY <1>2, <2>2
<1>4. c \in 0..Len(FlattenSeq(b))
  BY BufferedIs
<1>5. \A i \in 0..n : readableBefore(i) = R(i)
  BY ReadableUpTo
<1> HIDE DEF b
<1>6. PICK p \in 0..n :
           /\ R(p) <= c
           /\ p < n => c < R(p + 1)
           /\ \A i \in 1..n : R(i - 1) < c /\ R(i) <= c <=> i <= p
  <2>1. \A i \in 1..Len(b) : Len(b[i]) > 0
    BY <1>2, <1>3
  <2>2. \E p \in 0..Len(b) :
           /\ R(p) <= c
           /\ p < Len(b) => c < R(p + 1)
           /\ \A i \in 1..Len(b) : R(i - 1) < c /\ R(i) <= c <=> i <= p
    BY <1>2, <1>4, <2>1, CutPoint, Zenon
  <2> QED
    BY <1>2, <2>2
<1> HIDE DEF R, n
<1>7. {i \in DOMAIN m_segments : readableBefore(i - 1) < c /\ readableBefore(i) <= c} = 1..p
  <2>1. ASSUME NEW i \in 1..n
        PROVE  readableBefore(i - 1) = R(i - 1) /\ readableBefore(i) = R(i)
    <3>1. i - 1 \in 0..n /\ i \in 0..n
      BY <1>1
    <3> QED
      BY <1>5, <3>1
  <2>2. \A i \in 1..n : i <= p <=> readableBefore(i - 1) < c /\ readableBefore(i) <= c
    BY <1>6, <2>1
  <2>3. \A i : i \in 1..p <=> i \in 1..n /\ i <= p
    BY <1>1
  <2> QED
    BY <1>1, <2>2, <2>3
<1>8. Popped(c) = p
  <2>1. Cardinality(1..p) = IF 1 > p THEN 0 ELSE p - 1 + 1
    BY FS_Interval
  <2>2. Cardinality(1..p) = p
    BY <1>1, <2>1
  <2> QED
    BY <1>7, <2>2, Zenon DEF Popped
<1> QED
  BY <1>6, <1>8 DEF R, n, b

\* What advance leaves is the stream without its first c bytes, in segments
\* that are still filled.
LEMMA LeftBytes ==
  ASSUME m_segments \in Seq(Segment), Filled(m_segments), NEW c \in 0..Len(Buffered)
  PROVE  /\ Left(c) \in Seq(Segment) /\ Filled(Left(c))
         /\ Popped(c) \in 0..Len(m_segments)
         /\ Len(Left(c)) = Len(m_segments) - Popped(c)
         /\ FlattenSeq(BytesOf(Left(c))) \in Seq(Nat)
         /\ \E x \in Seq(Nat) :
              Len(x) = c /\ Joins(Buffered, x, FlattenSeq(BytesOf(Left(c))))
<1> USE PipelineAssumption
<1> DEFINE s == m_segments
           n == Len(s)
           b == BytesOf(s)
           p == Popped(c)
           r == SubSeq(s, p + 1, n)
           q == SubSeq(b, p + 1, n)
           front == UpTo(b, p)
           used == c - Len(front)
           rest == FlattenSeq(q)
<1>1. n \in Nat /\ DOMAIN s = 1..n
  BY LenProperties
<1>2. /\ p \in 0..n /\ Len(front) <= c
      /\ p < n => c < Len(UpTo(b, p + 1))
  BY PoppedIs
<1>3. /\ b \in Seq(Seq(Nat)) /\ Len(b) = n
      /\ \A i \in 1..n : b[i] = s[i].bytes /\ s[i].bytes \in Seq(Nat)
  BY BytesOfType
<1>4. readableBefore(p) = Len(front)
  BY <1>2, ReadableUpTo
<1>5. Left(c) = IF used = 0 THEN r
                ELSE [r EXCEPT ![1].bytes = SubSeq(@, used + 1, Len(@))]
  BY <1>4, Zenon DEF Left
<1>6. Buffered = FlattenSeq(b) /\ Buffered \in Seq(Nat)
  BY BufferedIs
<1>7. /\ r \in Seq(Segment) /\ Len(r) = n - p
      /\ \A i \in 1..(n - p) : r[i] = s[p + i]
      /\ BytesOf(r) = q
  <2> HIDE DEF p
  <2> QED
    BY <1>2, BytesOfRest
<1>8. ASSUME NEW i \in 1..n
      PROVE  /\ Len(s[i].bytes) \in 1..(BufferSize - s[i].free)
             /\ i > 1 => Len(s[i].bytes) = BufferSize - s[i].free
             /\ s[i].free > 0 => i = n
  BY DEF Filled
<1> HIDE DEF p, b, r, q, front, n, s, rest
<1>9. Joins(FlattenSeq(b), front, rest) /\ front \in Seq(Nat) /\ rest \in Seq(Nat)
  <2>1. /\ FlattenSeq(b) = UpTo(b, p) \o FlattenSeq(SubSeq(b, p + 1, Len(b)))
        /\ UpTo(b, p) \in Seq(Nat) /\ FlattenSeq(SubSeq(b, p + 1, Len(b))) \in Seq(Nat)
    BY <1>2, <1>3, FlattenSplit, Zenon
  <2> QED
    BY <2>1, <1>3, Zenon DEF front, rest, q, Joins
<1>10. Filled(r)
  <2> SUFFICES ASSUME NEW i \in 1..(n - p)
               PROVE  /\ Len(r[i].bytes) \in 1..(BufferSize - r[i].free)
                      /\ i > 1 => Len(r[i].bytes) = BufferSize - r[i].free
                      /\ r[i].free > 0 => i = n - p
    BY <1>7, Zenon DEF Filled
  <2>1. p + i \in 1..n /\ r[i] = s[p + i]
    BY <1>1, <1>2, <1>7
  <2>2. /\ Len(s[p + i].bytes) \in 1..(BufferSize - s[p + i].free)
        /\ p + i > 1 => Len(s[p + i].bytes) = BufferSize - s[p + i].free
        /\ s[p + i].free > 0 => p + i = n
    BY <1>8, <2>1
  <2>3. (i > 1 => p + i > 1) /\ (p + i = n => i = n - p)
    BY <1>1, <1>2
  <2> QED
    BY <2>1, <2>2, <2>3, Zenon
<1>11. CASE used = 0
  <2>1. Left(c) = r /\ FlattenSeq(BytesOf(r)) = rest
    BY <1>5, <1>7, <1>11 DEF rest
  <2>2. Len(front) = c
    BY <1>9, <1>11, LenProperties
  <2>3. Joins(Buffered, front, rest)
    BY <1>6, <1>9, Zenon
  <2> QED
    BY <1>2, <1>7, <1>9, <1>10, <2>1, <2>2, <2>3 DEF p, n, s
<1>12. CASE used # 0
  <2> DEFINE l == Left(c)
             h == r[1].bytes
             y == FlattenSeq(BytesOf(l))
  <2>1. used \in Nat \ {0} /\ Len(front) \in Nat
    BY <1>2, <1>9, <1>12, LenProperties
  <2>2. p < n /\ p + 1 \in 1..n /\ 1 \in 1..(n - p) /\ Len(r) # 0
    <3>1. CASE p = n
      <4>1. front = FlattenSeq(b)
        BY <1>3, <3>1, UpToEnds DEF front
      <4> QED
        BY <1>2, <1>6, <4>1, <2>1, LenProperties
    <3>2. CASE p # n
      BY <1>1, <1>2, <1>7, <3>2
    <3> QED
      BY <3>1, <3>2
  <2>3. r[1] = s[p + 1] /\ h = b[p + 1] /\ h \in Seq(Nat)
    BY <1>3, <1>7, <2>2
  <2>4. Len(UpTo(b, p + 1)) = Len(front) + Len(h)
    <3>1. p \in 0..(Len(b) - 1)
      BY <1>1, <1>2, <1>3, <2>2
    <3>2. Len(UpTo(b, p + 1)) = Len(UpTo(b, p)) + Len(b[p + 1])
      BY <1>3, <3>1, UpToNext
    <3> QED
      BY <2>3, <3>2, Zenon DEF front
  <2>5. used \in 0..Len(h) /\ used < Len(h) /\ Len(h) \in Nat
    BY <1>2, <2>1, <2>2, <2>3, <2>4, LenProperties
  <2>6. l = [r EXCEPT ![1].bytes = SubSeq(@, used + 1, Len(@))]
    BY <1>5, <1>12
  <2> HIDE DEF used, l, h
  <2>7. /\ l \in Seq(Segment) /\ Len(l) = Len(r)
        /\ FlattenSeq(BytesOf(r)) = SubSeq(h, 1, used) \o y
        /\ y \in Seq(Nat)
    BY <1>7, <2>2, <2>5, <2>6, TrimHead, Zenon DEF h
  <2> DEFINE a == SubSeq(h, 1, used)
             x == front \o a
  <2>8. a \in Seq(Nat) /\ Len(a) = used
    BY <2>3, <2>5
  <2>9. Joins(rest, a, y)
    BY <1>7, <2>7, Zenon DEF Joins, rest
  <2> HIDE DEF a, y
  <2>10. Joins(x, front, a)
    BY Zenon DEF Joins
  <2> HIDE DEF x
  <2>11. x \in Seq(Nat) /\ Len(x) = Len(front) + used
    BY <1>9, <2>8, <2>10, JoinsLength
  <2>12. Joins(Buffered, x, y)
    <3>1. Joins(Buffered, front, rest)
      BY <1>6, <1>9, Zenon
    <3> QED
      BY <1>9, <2>7, <2>8, <2>9, <2>10, <3>1, JoinsMoves
  <2>13. Len(x) = c
    BY <2>1, <2>11, <1>2 DEF used
  <2>14. Filled(l)
    <3> DEFINE H == [r[1] EXCEPT !.bytes = SubSeq(h, used + 1, Len(h))]
    <3>1. r[1] \in Segment /\ Len(r) \in Nat /\ DOMAIN r = 1..Len(r)
      BY <1>7, <2>2, ElementOfSeq, LenProperties
    <3>2. H.free = r[1].free /\ H.bytes = SubSeq(h, used + 1, Len(h)) /\ r[1].free \in Nat
      <4> DEFINE v == SubSeq(h, used + 1, Len(h))
      <4> HIDE DEF v
      <4>1. ASSUME NEW seg \in Segment
            PROVE  /\ [seg EXCEPT !.bytes = v].free = seg.free
                   /\ [seg EXCEPT !.bytes = v].bytes = v /\ seg.free \in Nat
        BY DEF Segment
      <4> QED
        BY <3>1, <4>1, Zenon DEF v
    <3>3. Len(SubSeq(h, used + 1, Len(h))) = Len(h) - used
      <4>1. \A i \in (used + 1)..Len(h) : i \in 1..Len(h)
        BY <2>5
      <4> QED
        BY <2>3, <2>5, <4>1, SubSeqProperties
    <3> HIDE DEF H
    <3>4. l = [r EXCEPT ![1] = H]
      BY <2>6 DEF H, h
    <3>5. l[1] = H /\ \A i \in 2..Len(r) : l[i] = r[i]
      BY <2>2, <3>1, <3>4
    <3>6. ASSUME NEW i \in 1..Len(r)
          PROVE  /\ Len(r[i].bytes) \in 1..(BufferSize - r[i].free)
                 /\ i > 1 => Len(r[i].bytes) = BufferSize - r[i].free
                 /\ r[i].free > 0 => i = Len(r)
      BY <1>10 DEF Filled
    <3>7. /\ Len(l[1].bytes) = Len(h) - used /\ l[1].free = r[1].free
      BY <3>2, <3>3, <3>5, Zenon
    <3>8. 1 \in 1..Len(r)
      BY <2>2, <3>1
    <3>9. ASSUME NEW i \in 1..Len(l)
          PROVE  /\ Len(l[i].bytes) \in 1..(BufferSize - l[i].free)
                 /\ i > 1 => Len(l[i].bytes) = BufferSize - l[i].free
                 /\ l[i].free > 0 => i = Len(l)
      <4>1. Len(l) = Len(r)
        BY <2>7
      <4>2. CASE i = 1
        <5>1. Len(h) \in 1..(BufferSize - r[1].free) /\ (r[1].free > 0 => 1 = Len(r))
          BY <3>6, <3>8, Zenon DEF h
        <5>2. Len(h) - used \in 1..(BufferSize - r[1].free)
          BY <2>1, <2>5, <3>2, <5>1
        <5> QED
          BY <3>7, <4>1, <4>2, <5>1, <5>2
      <4>3. CASE i # 1
        <5>1. i \in 2..Len(r) /\ i \in 1..Len(r)
          BY <3>1, <4>1, <4>3
        <5>2. l[i] = r[i]
          BY <3>5, <5>1
        <5>3. /\ Len(r[i].bytes) \in 1..(BufferSize - r[i].free)
              /\ i > 1 => Len(r[i].bytes) = BufferSize - r[i].free
              /\ r[i].free > 0 => i = Len(r)
          BY <3>6, <5>1
        <5> QED
          BY <4>1, <5>2, <5>3, Zenon
      <4> QED
        BY <4>2, <4>3
    <3> QED
      BY <3>9, Zenon DEF Filled
  <2> QED
    BY <1>2, <1>7, <2>7, <2>11, <2>12, <2>13, <2>14 DEF p, n, s, l, y
<1> QED
  BY <1>11, <1>12

\* advance moves the first c bytes from the segments to what is consumed.
LEMMA AdvanceKeepsStream ==
  ASSUME Stream, NEW e \in 0..m_pending_read_size, NEW c \in 0..e, advance(c, e)
  PROVE  Stream'
<1> USE PipelineAssumption
<1> DEFINE B == Buffered
           C == Buffered'
           p == Popped(c)
           n == Len(m_segments)
<1>1. /\ m_segments' = Left(c)
      /\ m_buffered_size' = m_buffered_size - c
      /\ m_actual_buffered_size' = m_actual_buffered_size - BufferSize * p
      /\ consumed' = consumed \o SubSeq(B, 1, c)
      /\ m_examined_size' = e - c /\ m_pending_read_size' = 0
      /\ m_reader_completed' = m_reader_completed /\ ~m_reader_completed /\ data' = data
  BY DEF advance, completed, locals
<1>2. /\ m_segments \in Seq(Segment) /\ Filled(m_segments) /\ consumed \in Seq(Nat)
      /\ \A i \in 1..(Len(consumed) + Len(B)) : (consumed \o B)[i] = i
  BY DEF Stream, StreamIntact, Committed
<1>3. /\ m_buffered_size = Len(B)
      /\ m_actual_buffered_size = BufferSize * n
      /\ m_pending_read_size <= m_buffered_size
      /\ m_buffered_size \in Nat /\ m_pending_read_size \in Nat /\ data \in Nat
  BY <1>1 DEF Stream, Counted, Sizes
<1>4. B \in Seq(Nat) /\ Len(B) \in Nat /\ n \in Nat
  BY <1>2, BufferedIs, LenProperties
<1>5. c \in 0..Len(B) /\ c \in Nat /\ e \in Nat /\ c <= e /\ e <= Len(B)
  <2> HIDE DEF B, n
  <2> QED
    BY <1>3, <1>4
<1>6. /\ Left(c) \in Seq(Segment) /\ Filled(Left(c))
      /\ p \in 0..n /\ Len(Left(c)) = n - p
      /\ FlattenSeq(BytesOf(Left(c))) \in Seq(Nat)
      /\ \E x \in Seq(Nat) : Len(x) = c /\ Joins(B, x, FlattenSeq(BytesOf(Left(c))))
  BY <1>2, <1>5, LeftBytes
<1>7. C = FlattenSeq(BytesOf(Left(c)))
  BY <1>1 DEF Buffered, BytesOf
<1> HIDE DEF B, C, p, n
<1>8. PICK x \in Seq(Nat) : Len(x) = c /\ Joins(B, x, C)
  BY <1>6, <1>7
<1>9. C \in Seq(Nat)
  BY <1>6, <1>7
<1>10. SubSeq(B, 1, c) = x
  <2>1. SubSeq(B, 1, c) = SubSeq(x, 1, c)
    BY <1>5, <1>8, <1>9, JoinsPrefix
  <2>2. SubSeq(x, 1, c) = x
    BY <1>8, SubSeqFull
  <2> QED
    BY <2>1, <2>2
<1>11. Joins(consumed', consumed, x)
  BY <1>1, <1>10, Zenon DEF Joins
<1>12. consumed' \in Seq(Nat) /\ Len(consumed') = Len(consumed) + c
  BY <1>2, <1>8, <1>11, JoinsLength
<1>13. Len(B) = c + Len(C) /\ Len(C) \in Nat
  BY <1>8, <1>9, JoinsLength, LenProperties
<1>14. \A i \in 1..(Len(consumed') + Len(C)) : (consumed' \o C)[i] = i
  <2> DEFINE all == consumed \o B
  <2>1. Joins(all, consumed, B)
    BY Zenon DEF Joins
  <2>2. Joins(all, consumed', C)
    <3> HIDE DEF all
    <3> QED
      BY <1>2, <1>8, <1>9, <1>11, <2>1, JoinsMoves
  <2>3. \A i \in 1..(Len(consumed) + Len(B)) : all[i] = i
    BY <1>2
  <2> HIDE DEF all
  <2>4. Len(consumed') + Len(C) = Len(consumed) + Len(B)
    BY <1>2, <1>5, <1>12, <1>13, LenProperties
  <2> QED
    BY <2>2, <2>3, <2>4, Zenon DEF Joins
<1>15. StreamIntact'
  BY <1>14, Zenon DEF StreamIntact, Committed, C
<1>16. Len(m_segments') = n - p /\ n - p \in Nat
  BY <1>1, <1>4, <1>6
<1>17. m_actual_buffered_size' = BufferSize * (n - p) /\ BufferSize * (n - p) \in Nat
  <2>1. BufferSize * n - BufferSize * p = BufferSize * (n - p) /\ BufferSize * (n - p) \in Nat
    BY <1>4, <1>6
  <2> QED
    BY <1>1, <1>3, <2>1
<1>18. m_buffered_size' = Len(C) /\ m_buffered_size' \in Nat
  BY <1>1, <1>3, <1>5, <1>13
<1>19. e - c \in Nat /\ e - c <= Len(C)
  BY <1>5, <1>13
<1>20. Sizes'
  BY <1>1, <1>3, <1>17, <1>18, <1>19 DEF Sizes
<1>21. Counted'
  <2>1. /\ m_examined_size' <= m_buffered_size' /\ m_pending_read_size' <= m_buffered_size'
        /\ m_actual_buffered_size' = BufferSize * Len(m_segments')
    BY <1>1, <1>16, <1>17, <1>18, <1>19
  <2> QED
    BY <1>18, <2>1 DEF Counted, C
<1>22. Filled(m_segments)'
  BY <1>1, <1>6, Zenon DEF Filled
<1>23. m_segments' \in Seq(Segment)
  BY <1>1, <1>6
<1> QED
  BY <1>12, <1>15, <1>20, <1>21, <1>22, <1>23 DEF Stream

\* A step that leaves the segments, the counters and what is consumed alone.
LEMMA StreamUntouched ==
  ASSUME Stream, UNCHANGED <<m_segments, counters, consumed, m_reader_completed>>,
         data' \in Nat,
         m_pending_read_size' \in {m_pending_read_size, Len(Buffered), 0}
  PROVE  Stream'
<1>1. Buffered' = Buffered
  BY DEF Buffered
<1>2. Filled(m_segments)'
  BY DEF Filled, Stream
<1>3. StreamIntact'
  BY <1>1, Zenon DEF Stream, StreamIntact, Committed
<1>4. Len(Buffered) \in Nat
  BY BufferedIs, LenProperties DEF Stream
<1>5. Sizes' /\ Counted'
  <2> DEFINE b == Len(Buffered)
  <2>1. Len(Buffered') = b /\ Len(m_segments') = Len(m_segments) /\ b \in Nat
    BY <1>1, <1>4
  <2>2. m_pending_read_size' \in {m_pending_read_size, b, 0}
    OBVIOUS
  <2> HIDE DEF b
  <2>3. Counted => (~m_reader_completed => m_buffered_size = b)
    BY DEF Counted, b
  <2> QED
    BY <2>1, <2>2, <2>3 DEF Stream, Sizes, Counted, counters, b
<1> QED
  BY <1>2, <1>3, <1>5 DEF Stream

\* complete_reader zeroes the counters and leaves the segments.
LEMMA CompleteReaderKeepsStream ==
  ASSUME Stream, NEW t \in Threads, complete_reader(t)
  PROVE  Stream'
<1>1. /\ m_segments' = m_segments /\ consumed' = consumed /\ data' = data
      /\ m_reader_completed' /\ m_pending_read_size' = 0
      /\ m_buffered_size' = 0 /\ m_actual_buffered_size' = 0 /\ m_examined_size' = 0
  BY DEF complete_reader, locals
<1>2. Buffered' = Buffered
  BY <1>1 DEF Buffered
<1>3. Filled(m_segments)' /\ StreamIntact'
  BY <1>1, <1>2, Zenon DEF Filled, Stream, StreamIntact, Committed
<1>4. Sizes' /\ Counted'
  BY <1>1 DEF Stream, Sizes, Counted
<1> QED
  BY <1>1, <1>3, <1>4 DEF Stream

\* What WriteLoop does to the stream.
LEMMA WriteLoopKeepsStream ==
  ASSUME Stream, WriteLoop
  PROVE  Stream' /\ (m_reader_completed => m_segments' = m_segments)
         /\ (m_segments' = m_segments \/ \E w \in Seq(Nat) : Joins(Buffered', Buffered, w))
<1>1. /\ consumed' = consumed /\ m_examined_size' = m_examined_size
      /\ m_pending_read_size' = m_pending_read_size
      /\ m_reader_completed' = m_reader_completed
  BY DEF WriteLoop, pending, completed
<1>2. \/ /\ UNCHANGED <<m_segments, m_buffered_size, m_actual_buffered_size, data>>
      \/ /\ data # 0 /\ ~m_reader_completed /\ writer_available_capacity # 0
         /\ CopyToTail
  BY DEF WriteLoop, is_any_completed
<1>3. CASE UNCHANGED <<m_segments, m_buffered_size, m_actual_buffered_size, data>>
  <2>1. data' \in Nat
    BY <1>3 DEF Stream, Sizes
  <2>2. Stream'
    BY <1>1, <1>3, <2>1, StreamUntouched DEF counters
  <2> QED
    BY <1>3, <2>2
<1>4. CASE /\ data # 0 /\ ~m_reader_completed /\ writer_available_capacity # 0
           /\ CopyToTail
  <2>1. UNCHANGED <<consumed, m_examined_size, m_pending_read_size, m_reader_completed>>
    BY <1>1
  <2>2. Stream' /\ \E w \in Seq(Nat) : Joins(Buffered', Buffered, w)
    BY <1>4, <2>1, CopyKeepsStream
  <2> QED
    BY <1>4, <2>2
<1> QED
  BY <1>2, <1>3, <1>4

\* Every step keeps the invariant.  Only write, advance and complete_reader
\* touch the segments or the counters.
LEMMA StreamStep ==
  ASSUME Stream, [Next]_vars
  PROVE  Stream'
<1> USE PipelineAssumption
<1> DEFINE quiet == /\ UNCHANGED <<m_segments, counters, consumed, m_reader_completed>>
                    /\ data' \in Nat
                    /\ m_pending_read_size' \in {m_pending_read_size, Len(Buffered), 0}
<1>0. data \in Nat
  BY DEF Stream, Sizes
<1>1. ASSUME NEW n \in WriteSizes, write(n) PROVE quiet
  BY <1>1 DEF write, pending, completed
<1>2. ASSUME NEW min \in MinSizes, read_at_least(min) PROVE quiet
  BY <1>0, <1>2 DEF read_at_least, pending, completed
<1>3. ASSUME NEW t \in Threads, complete_writer(t) PROVE quiet
  BY <1>0, <1>3 DEF complete_writer, pending, locals
<1>4. ASSUME WriteLock \/ WriteWaitReturns PROVE quiet
  BY <1>0, <1>4, ZenonT(40) DEF WriteLock, WriteWaitReturns, pending, completed
<1>5. ASSUME ReadWaitReturns \/ WriteNotify \/ AdvanceNotify PROVE quiet
  BY <1>0, <1>5, Zenon DEF ReadWaitReturns, WriteNotify, AdvanceNotify, pending, completed, locals
<1>6. ASSUME ReadFinish PROVE quiet
  BY <1>0, <1>6 DEF ReadFinish, pending, completed, locals
<1>7. ASSUME NEW t \in Threads, CompleteNotify(t) PROVE quiet
  BY <1>0, <1>7 DEF CompleteNotify, pending, completed, locals
<1>8. ASSUME NEW t \in Threads, RequestStop(t) \/ SpuriousWakeup(t) PROVE quiet
  BY <1>0, <1>8 DEF RequestStop, SpuriousWakeup, pending, completed, locals
<1>9. ASSUME UNCHANGED vars PROVE quiet
  BY <1>0, <1>9 DEF vars, pending, completed, locals
<1>10. quiet => Stream'
  BY StreamUntouched
<1> HIDE DEF quiet
<1>11. CASE \E e \in 0..m_pending_read_size : \E c \in 0..e : advance(c, e)
  BY <1>11, AdvanceKeepsStream
<1>12. CASE \E t \in Threads : complete_writer(t) \/ complete_reader(t)
  BY <1>3, <1>10, <1>12, CompleteReaderKeepsStream
<1>13. CASE \E t \in Threads : Relock(t) \/ Continue(t)
  BY <1>4, <1>5, <1>6, <1>7, <1>10, <1>13, WriteLoopKeepsStream DEF Relock, Continue
<1>14. CASE \E t \in Threads : RequestStop(t) \/ SpuriousWakeup(t)
  BY <1>8, <1>10, <1>14
<1> QED
  BY <1>1, <1>2, <1>9, <1>10, <1>11, <1>12, <1>13, <1>14 DEF Next

\* The invariant holds at the start: nothing is written, nothing is held.
LEMMA StreamInit == Init => Stream
<1> SUFFICES ASSUME Init PROVE Stream
  OBVIOUS
<1> USE PipelineAssumption
<1>1. m_segments = <<>> /\ consumed = <<>>
  BY DEF Init
<1>2. m_segments \in Seq(Segment) /\ consumed \in Seq(Nat) /\ Len(m_segments) = 0
  BY <1>1, EmptySeq
<1>3. BytesOf(m_segments) = <<>>
  <2>1. /\ BytesOf(m_segments) \in Seq(Seq(Nat)) /\ Len(BytesOf(m_segments)) = 0
    BY <1>2, BytesOfType, Zenon
  <2> QED
    BY <2>1, EmptySeq
<1>4. Buffered = <<>>
  BY <1>2, <1>3, BufferedIs, FlattenEmpty
<1>5. Len(Buffered) = 0 /\ Len(consumed) = 0
  BY <1>1, <1>4, EmptySeq
<1>6. StreamIntact
  BY <1>5 DEF StreamIntact, Committed
<1>7. Filled(m_segments)
  BY <1>2 DEF Filled
<1>8. Sizes /\ Counted
  BY <1>2, <1>5 DEF Init, Sizes, Counted
<1> QED
  BY <1>2, <1>6, <1>7, <1>8 DEF Stream

\* The inductive invariant holds in every reachable state.
THEOREM StreamInvariant == Spec => []Stream
<1>1. Stream /\ [Next]_vars => Stream'
  BY StreamStep
<1> QED
  BY StreamInit, <1>1, PTL DEF Spec

\* No byte is lost, duplicated or reordered between write and advance, for
\* every buffer size, thresholds, sizes of writes and of reads: the bytes
\* consumed followed by those buffered are the bytes sent, in order.
THEOREM NoByteLost == Spec => []StreamIntact
<1>1. Stream => StreamIntact
  BY DEF Stream
<1> QED
  BY StreamInvariant, <1>1, PTL

\* The inductive invariant covers the accounting.
LEMMA StreamCounts == Stream => Accounting
<1> SUFFICES ASSUME Stream, ~m_reader_completed PROVE Accounting
  BY DEF Accounting
<1>1. DOMAIN m_segments = 1..Len(m_segments)
  BY LenProperties DEF Stream
<1> QED
  BY <1>1, Zenon DEF Stream, Counted, Filled, Accounting

\* The counters that write, read_at_least and advance maintain separately agree
\* with the segments until the reader completes.
THEOREM CountersAgree == Spec => []Accounting
BY StreamInvariant, StreamCounts, PTL

\* What a step leaves of a snapshot that is pending before and after it.
Kept == m_has_pending_read /\ m_has_pending_read' =>
          SubSeq(Buffered', 1, m_pending_read_size)
            = SubSeq(Buffered, 1, m_pending_read_size)

\* Every step keeps a pending snapshot.
LEMMA SnapshotStep == Stream /\ Next => Kept
<1> SUFFICES ASSUME Stream, Next, m_has_pending_read, m_has_pending_read'
             PROVE  SubSeq(Buffered', 1, m_pending_read_size)
                      = SubSeq(Buffered, 1, m_pending_read_size)
  BY Zenon DEF Kept
<1>1. m_segments' = m_segments \/ WriteLoop
  <2>1. ASSUME NEW e, NEW c, advance(c, e) PROVE FALSE
    BY <2>1 DEF advance
  <2>2. ASSUME NEW n, write(n) PROVE m_segments' = m_segments
    BY <2>2 DEF write
  <2>3. ASSUME NEW m, read_at_least(m) PROVE m_segments' = m_segments
    BY <2>3 DEF read_at_least
  <2>4. ASSUME NEW t, \/ complete_writer(t) \/ complete_reader(t) \/ CompleteNotify(t)
                     \/ RequestStop(t) \/ SpuriousWakeup(t)
        PROVE  m_segments' = m_segments
    BY <2>4 DEF complete_writer, complete_reader, CompleteNotify, RequestStop, SpuriousWakeup
  <2>5. ASSUME \/ WriteLock \/ WriteWaitReturns \/ ReadWaitReturns \/ WriteNotify
               \/ ReadFinish \/ AdvanceNotify
        PROVE  m_segments' = m_segments
    BY <2>5 DEF WriteLock, WriteWaitReturns, ReadWaitReturns, WriteNotify, ReadFinish,
                AdvanceNotify
  <2> QED
    BY <2>1, <2>2, <2>3, <2>4, <2>5 DEF Next, Relock, Continue
<1>2. CASE m_segments' = m_segments
  BY <1>2 DEF Buffered
<1>3. CASE WriteLoop /\ m_segments' # m_segments
  <2> DEFINE B == Buffered
             C == Buffered'
  <2>1. ~m_reader_completed /\ \E w \in Seq(Nat) : Joins(C, B, w)
    BY <1>3, WriteLoopKeepsStream
  <2>2. PICK w \in Seq(Nat) : Joins(C, B, w)
    BY <2>1
  <2>3. B \in Seq(Nat) /\ Len(B) \in Nat
    BY BufferedIs, LenProperties DEF Stream
  <2>4. m_pending_read_size \in 0..Len(B)
    <3>1. /\ m_pending_read_size <= m_buffered_size /\ m_buffered_size = Len(B)
          /\ m_pending_read_size \in Nat
      BY <2>1 DEF Stream, Counted, Sizes
    <3> HIDE DEF B
    <3> QED
      BY <2>3, <3>1
  <2> HIDE DEF B, C
  <2>5. SubSeq(C, 1, m_pending_read_size) = SubSeq(B, 1, m_pending_read_size)
    BY <2>2, <2>3, <2>4, JoinsPrefix
  <2> QED
    BY <2>5, Zenon DEF B, C
<1> QED
  BY <1>1, <1>2, <1>3, Zenon

\* A snapshot stays as it was read: a copy only adds bytes behind it, and
\* advance, the only operation that removes bytes, ends the pending read.
THEOREM SnapshotKept == Spec => SnapshotStable
<1>1. Stream /\ [Next]_vars => [Kept]_vars
  BY SnapshotStep
<1> QED
  BY StreamInvariant, <1>1, PTL DEF Spec, SnapshotStable, Kept
===============================================================================
