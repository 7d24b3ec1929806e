----------------------------- MODULE StorageProofs -----------------------------
(***************************************************************************)
(* Proofs about a pipeline with the pool its segments live in.             *)
(***************************************************************************)
EXTENDS PipelineStorage, PipelineProofs

-------------------------------------------------------------------------------
(***************************************************************************)
(* The fields have their declared types.                                   *)
(***************************************************************************)

Flags ==
  /\ m_reader_waiting \in BOOLEAN /\ m_has_pending_read \in BOOLEAN
  /\ m_writer_completed \in BOOLEAN /\ m_reader_completed \in BOOLEAN
  /\ m_writer_paused \in BOOLEAN /\ notify \in BOOLEAN

Calls ==
  /\ m_mutex \in {{}, {"writer"}, {"reader"}}
  /\ "writer" \in m_mutex => pc["writer"] = "write_loop"
  /\ "reader" \in m_mutex => pc["reader"] = "read_finish"
  /\ min_size \in Nat
  /\ stop \in [Threads -> BOOLEAN] /\ result \in [Threads -> Outcomes]

\* Every step keeps the flags Boolean.
LEMMA FlagsStep == Flags /\ [Next]_vars => Flags'
<1> SUFFICES ASSUME Flags, [Next]_vars PROVE Flags'
  OBVIOUS
<1> USE DEF counters, pending, completed, locals, Flags
<1>1. ASSUME NEW n \in WriteSizes, write(n) PROVE Flags'
  BY <1>1, Zenon DEF write
<1>2. ASSUME NEW min \in MinSizes, read_at_least(min) PROVE Flags'
  BY <1>2, Zenon DEF read_at_least
<1>3. ASSUME NEW e, NEW c, advance(c, e) PROVE Flags'
  BY <1>3, Zenon DEF advance
<1>4. ASSUME NEW t \in Threads, complete_writer(t) \/ complete_reader(t) PROVE Flags'
  BY <1>4, Zenon DEF complete_writer, complete_reader
<1>5. ASSUME WriteLock \/ WriteWaitReturns PROVE Flags'
  BY <1>5, Zenon DEF WriteLock, WriteWaitReturns
<1>6. ASSUME ReadWaitReturns PROVE Flags'
  BY <1>6, Zenon DEF ReadWaitReturns
<1>7. ASSUME WriteLoop PROVE Flags'
  <2>1. CopyToTail => notify' \in BOOLEAN /\ m_writer_paused' \in BOOLEAN
    BY Zenon DEF CopyToTail, should_pause_writer
  <2> QED
    BY <1>7, <2>1, Zenon DEF WriteLoop
<1>8. ASSUME WriteNotify \/ AdvanceNotify PROVE Flags'
  BY <1>8, Zenon DEF WriteNotify, AdvanceNotify
<1>9. ASSUME ReadFinish PROVE Flags'
  BY <1>9, Zenon DEF ReadFinish
<1>10. ASSUME NEW t \in Threads, CompleteNotify(t) PROVE Flags'
  BY <1>10, Zenon DEF CompleteNotify
<1>11. ASSUME NEW t \in Threads, RequestStop(t) \/ SpuriousWakeup(t) PROVE Flags'
  BY <1>11, Zenon DEF RequestStop, SpuriousWakeup
<1>12. CASE UNCHANGED vars
  BY <1>12, Zenon DEF vars
<1> QED
  BY <1>1, <1>2, <1>3, <1>4, <1>5, <1>6, <1>7, <1>8, <1>9, <1>10, <1>11, <1>12
  DEF Next, Relock, Continue

\* A call ends with one of the outcomes, and a new token for the next.
LEMMA ResultsStep ==
  ASSUME stop \in [Threads -> BOOLEAN], result \in [Threads -> Outcomes], [Next]_vars
  PROVE  stop' \in [Threads -> BOOLEAN] /\ result' \in [Threads -> Outcomes]
<1>1. ASSUME NEW t \in Threads, NEW outcome \in Outcomes, Return(t, outcome)
      PROVE  stop' \in [Threads -> BOOLEAN] /\ result' \in [Threads -> Outcomes]
  BY <1>1 DEF Return
<1>2. ASSUME NEW t \in Threads, RequestStop(t)
      PROVE  stop' \in [Threads -> BOOLEAN] /\ result' \in [Threads -> Outcomes]
  BY <1>2 DEF RequestStop
<1>3. CASE UNCHANGED calls
  BY <1>3 DEF calls
<1> DEFINE Ends(t) == \/ UNCHANGED calls \/ Return(t, "threw") \/ Return(t, "cancelled")
                      \/ Return(t, "written") \/ Return(t, "completed") \/ Return(t, "data")
<1>4. WriteLock \/ WriteWaitReturns \/ WriteLoop \/ WriteNotify => Ends("writer")
  <2>1. WriteLoop => Ends("writer")
    BY Zenon DEF WriteLoop
  <2>2. WriteLock \/ WriteWaitReturns \/ WriteNotify => Ends("writer")
    BY Zenon DEF WriteLock, WriteWaitReturns, WriteNotify
  <2> QED
    BY <2>1, <2>2
<1>5. ReadFinish => Ends("reader")
  BY Zenon DEF ReadFinish
<1>6. "writer" \in Threads /\ "reader" \in Threads
  BY DEF Threads
<1>7. ASSUME NEW t \in Threads, Ends(t)
      PROVE  stop' \in [Threads -> BOOLEAN] /\ result' \in [Threads -> Outcomes]
  <2>1. /\ "threw" \in Outcomes /\ "cancelled" \in Outcomes /\ "written" \in Outcomes
        /\ "completed" \in Outcomes /\ "data" \in Outcomes
    BY DEF Outcomes
  <2> QED
    BY <1>1, <1>3, <1>7, <2>1, Zenon
<1> HIDE DEF Ends
<1>8. \/ UNCHANGED calls \/ Ends("writer") \/ Ends("reader")
      \/ \E t \in Threads : RequestStop(t)
  BY <1>4, <1>5
  DEF Next, Relock, Continue, write, read_at_least, advance, complete_writer,
      complete_reader, ReadWaitReturns, AdvanceNotify, CompleteNotify, SpuriousWakeup, vars
<1> QED
  BY <1>2, <1>3, <1>6, <1>7, <1>8

\* Every step keeps the mutex with its owner, and the types of the calls.
LEMMA CallsStep == Control /\ Calls /\ [Next]_vars => Calls'
<1> SUFFICES ASSUME Control, Calls, [Next]_vars PROVE Calls'
  OBVIOUS
<1> DEFINE Owner == /\ m_mutex \in {{}, {"writer"}, {"reader"}}
                    /\ "writer" \in m_mutex => pc["writer"] = "write_loop"
                    /\ "reader" \in m_mutex => pc["reader"] = "read_finish"
                    /\ min_size \in Nat
<1>0. Owner
  BY DEF Calls
<1> USE DEF counters, pending, completed, locals, Threads
<1>1. ASSUME NEW n \in WriteSizes, write(n) PROVE Owner'
  BY <1>0, <1>1 DEF write, Goto, Control, PCs
<1>2. ASSUME NEW min \in MinSizes, read_at_least(min) PROVE Owner'
  BY <1>0, <1>2, PipelineAssumption DEF read_at_least, Goto, Control, PCs
<1>3. ASSUME NEW e, NEW c, advance(c, e) PROVE Owner'
  BY <1>0, <1>3 DEF advance, Goto, Control, PCs
<1>4. ASSUME NEW t \in Threads, complete_writer(t) \/ complete_reader(t) PROVE Owner'
  BY <1>0, <1>4 DEF complete_writer, complete_reader, Goto, Control, PCs
<1>5. ASSUME WriteLock \/ WriteWaitReturns PROVE Owner'
  BY <1>0, <1>5 DEF WriteLock, WriteWaitReturns, Return, Goto, Control, PCs
<1>6. ASSUME ReadWaitReturns PROVE Owner'
  BY <1>0, <1>6 DEF ReadWaitReturns, Goto, Control, PCs
<1>7. ASSUME WriteLoop PROVE Owner'
  BY <1>0, <1>7 DEF WriteLoop, Return, Goto, Control, PCs
<1>8. ASSUME WriteNotify \/ AdvanceNotify PROVE Owner'
  BY <1>0, <1>8 DEF WriteNotify, AdvanceNotify, Return, Goto, Control, PCs
<1>9. ASSUME ReadFinish PROVE Owner'
  BY <1>0, <1>9 DEF ReadFinish, Return, Goto, Control, PCs
<1>10. ASSUME NEW t \in Threads, CompleteNotify(t) PROVE Owner'
  BY <1>0, <1>10 DEF CompleteNotify, Goto, Control, PCs
<1>11. ASSUME NEW t \in Threads, RequestStop(t) \/ SpuriousWakeup(t) PROVE Owner'
  BY <1>0, <1>11 DEF RequestStop, SpuriousWakeup, Control
<1>12. ASSUME UNCHANGED vars PROVE Owner'
  BY <1>0, <1>12 DEF vars, Control
<1> HIDE DEF Owner
<1>13. Owner'
  BY <1>1, <1>2, <1>3, <1>4, <1>5, <1>6, <1>7, <1>8, <1>9, <1>10, <1>11, <1>12
  DEF Next, Relock, Continue
<1>14. stop' \in [Threads -> BOOLEAN] /\ result' \in [Threads -> Outcomes]
  BY ResultsStep DEF Calls
<1> QED
  BY <1>13, <1>14 DEF Calls, Owner

\* The flags, the outcomes and the mutex in the beginning.
LEMMA TypesInit == Init => Flags /\ Calls
<1>1. Init => Flags
  BY Zenon DEF Init, Flags
<1>2. Init => stop \in [Threads -> BOOLEAN] /\ result \in [Threads -> Outcomes]
  BY DEF Init, Outcomes
<1>3. Init => Calls
  BY <1>2 DEF Init, Calls
<1> QED
  BY <1>1, <1>3

\* The type invariant follows from the inductive ones.
LEMMA TypesFollow == Flags /\ Calls /\ Wakeups /\ Stream => TypeOK
<1> SUFFICES ASSUME Flags, Calls, Control, Stream PROVE TypeOK
  BY DEF Wakeups
<1>1. /\ "writer" \in m_mutex <=> pc["writer"] = "write_loop"
      /\ "reader" \in m_mutex <=> pc["reader"] = "read_finish"
      /\ m_data_available \subseteq {t \in {"reader"} : pc[t] = "read_wait"}
      /\ m_space_available \subseteq {t \in {"writer"} : pc[t] = "write_wait"}
  BY DEF Calls, Control
<1>2. /\ m_segments \in Seq([bytes : Seq(Nat), free : Nat])
      /\ m_buffered_size \in Nat /\ m_actual_buffered_size \in Nat
      /\ m_examined_size \in Nat /\ m_pending_read_size \in Nat
      /\ data \in Nat /\ consumed \in Seq(Nat)
  BY DEF Stream, Sizes, Segment
<1> QED
  BY <1>1, <1>2, Zenon DEF TypeOK, Flags, Calls, Control

\* The fields of a pipeline have their declared types: no size goes below zero,
\* the mutex has the owner that the program counters say, and only a thread
\* inside a wait is asleep.
THEOREM PipelineTypes == Spec => []TypeOK
<1>1. Wakeups => Control
  BY DEF Wakeups
<1> QED
  BY <1>1, TypesInit, TypesFollow, FlagsStep, CallsStep, WakeupsInvariant, StreamInvariant,
     PTL DEF Spec

-------------------------------------------------------------------------------
(***************************************************************************)
(* What happens to the pool when several segments are destroyed at once.   *)
(***************************************************************************)

Pools == Arenas \union FixedPools

\* The pool after the first k of the n buffers came back.
AfterOne(left, pool, buffers, k, N) ==
  IF k = 0 THEN pool ELSE deallocate(left, buffers[k], N)

LeftBy(f, pool, buffers, n, N) ==
  f = [k \in 0..n |-> AfterOne(f[k - 1], pool, buffers, k, N)]

\* The recursion of ReleaseFirst defines a function.
LEMMA LeftDefined ==
  ASSUME NEW pool, NEW buffers, NEW n \in Nat, NEW N
  PROVE  \E f : LeftBy(f, pool, buffers, n, N)
<1> DEFINE G == {k \in Nat : \E f : LeftBy(f, pool, buffers, k, N)}
<1>1. 0 \in G
  <2> DEFINE g == [k \in 0..0 |-> pool]
  <2>1. LeftBy(g, pool, buffers, 0, N)
    BY DEF LeftBy, AfterOne
  <2> QED
    BY <2>1
<1>2. ASSUME NEW k \in Nat, k \in G PROVE k + 1 \in G
  <2>1. PICK f : LeftBy(f, pool, buffers, k, N)
    BY <1>2
  <2> DEFINE g == [i \in 0..(k + 1) |-> AfterOne(f[i - 1], pool, buffers, i, N)]
  <2>2. \A i \in 0..k : g[i] = f[i]
    BY <2>1 DEF LeftBy
  <2>3. \A i \in 0..(k + 1) : g[i] = AfterOne(f[i - 1], pool, buffers, i, N)
    OBVIOUS
  <2>4. g = [i \in 0..(k + 1) |-> g[i]]
    OBVIOUS
  <2> HIDE DEF g
  <2>5. ASSUME NEW i \in 0..(k + 1) PROVE g[i] = AfterOne(g[i - 1], pool, buffers, i, N)
    <3>1. CASE i = 0
      BY <3>1, <2>3 DEF AfterOne
    <3>2. CASE i # 0
      <4>1. i - 1 \in 0..k
        BY <3>2
      <4> QED
        BY <4>1, <2>2, <2>3
    <3> QED
      BY <3>1, <3>2
  <2>6. LeftBy(g, pool, buffers, k + 1, N)
    BY <2>4, <2>5, Zenon DEF LeftBy
  <2> QED
    BY <2>6
<1>3. n \in G
  <2> HIDE DEF G
  <2> QED
    BY <1>1, <1>2, SetInduction
<1> QED
  BY <1>3

\* ReleaseFirst is the last value of that function.
LEMMA ReleaseUnfolded ==
  ASSUME NEW pool, NEW n \in Nat
  PROVE  \E f : LeftBy(f, pool, m_buffers, n, max_pooled_segments) /\ ReleaseFirst(pool, n) = f[n]
<1> DEFINE N == max_pooled_segments
           f == CHOOSE g : g = [k \in 0..n |->
                  IF k = 0 THEN pool ELSE deallocate(g[k - 1], m_buffers[k], N)]
<1>1. ReleaseFirst(pool, n) = f[n]
  BY Zenon DEF ReleaseFirst
<1>2. \E g : g = [k \in 0..n |-> IF k = 0 THEN pool ELSE deallocate(g[k - 1], m_buffers[k], N)]
  <2>1. \E g : LeftBy(g, pool, m_buffers, n, N)
    BY LeftDefined, Zenon
  <2> QED
    BY <2>1, Zenon DEF LeftBy, AfterOne
<1>3. LeftBy(f, pool, m_buffers, n, N)
  BY <1>2, Zenon DEF LeftBy, AfterOne
<1> QED
  BY <1>1, <1>3, Zenon

\* A pool that gets a buffer back is still a pool.
LEMMA DeallocateType ==
  ASSUME NEW N \in Nat \ {0}, NEW pool \in Pools, NEW held \in Seq(Nat),
         InStep(pool, held, N), held # <<>>
  PROVE  /\ deallocate(pool, Head(held), N) \in Pools
         /\ deallocate(pool, Head(held), N).kind = pool.kind
         /\ InStep(deallocate(pool, Head(held), N), Tail(held), N)
<1>1. Len(held) \in Nat \ {0} /\ Head(held) \in Nat
  BY HeadTailProperties, LenProperties, EmptySeq
<1>2. CASE pool \in Arenas
  <2>1. pool.kind = "arena" /\ ArenaInStep(pool, held, N)
    BY <1>2 DEF Arenas, InStep
  <2>2. deallocate(pool, Head(held), N) = arena_deallocate(pool, N)
    BY <2>1 DEF deallocate
  <2>3. arena_deallocate(pool, N) \in Arenas /\ arena_deallocate(pool, N).kind = "arena"
    <3>1. pool.m_active_buffers - 1 \in Nat /\ arena_advance(pool.m_tail, N) \in Nat
      BY <1>1, <1>2, <2>1 DEF ArenaInStep, arena_advance, Arenas
    <3> QED
      BY <1>2, <3>1, Zenon DEF arena_deallocate, Arenas
  <2>4. ArenaInStep(deallocate(pool, Head(held), N), Tail(held), N)
    BY <1>2, <2>1, ArenaDeallocates
  <2> QED
    BY <2>1, <2>2, <2>3, <2>4 DEF Pools, InStep
<1>3. CASE pool \in FixedPools
  <2>1. pool.kind = "fixed" /\ FixedInStep(pool, held)
    BY <1>3 DEF FixedPools, InStep
  <2>2. deallocate(pool, Head(held), N) = fixed_deallocate(pool, Head(held), N)
    BY <2>1 DEF deallocate
  <2>3. fixed_deallocate(pool, Head(held), N) \in FixedPools
        /\ fixed_deallocate(pool, Head(held), N).kind = "fixed"
    <3>1. /\ Append(pool.m_available_buffers, Head(held)) \in Seq(Nat)
          /\ pool.heap \ {Head(held)} \in SUBSET Nat
      BY <1>1, <1>3, AppendProperties DEF FixedPools
    <3> QED
      BY <1>3, <3>1, Zenon DEF fixed_deallocate, FixedPools
  <2>4. FixedInStep(deallocate(pool, Head(held), N), Tail(held))
    BY <1>3, <2>1, FixedDeallocates
  <2> QED
    BY <2>1, <2>2, <2>3, <2>4 DEF Pools, InStep
<1> QED
  BY <1>2, <1>3 DEF Pools

\* What is left of a sequence behind its first k elements, one more taken away.
LEMMA TailOfRest ==
  ASSUME NEW S, NEW s \in Seq(S), NEW k \in Nat, k + 1 \in 1..Len(s)
  PROVE  LET r == SubSeq(s, k + 1, Len(s))
         IN  /\ r \in Seq(S) /\ r # <<>> /\ Head(r) = s[k + 1]
             /\ Tail(r) = SubSeq(s, k + 1 + 1, Len(s))
<1> DEFINE m == Len(s)
           r == SubSeq(s, k + 1, m)
<1>1. m \in Nat /\ k + 1 \in 1..m /\ m \in (k + 1)..m
  BY LenProperties
<1>2. r \in Seq(S) /\ Len(r) = m - k
  BY <1>1
<1>3. r # <<>>
  <2> HIDE DEF r, m
  <2>1. Len(r) # 0
    BY <1>1, <1>2
  <2> QED
    BY <2>1, EmptySeq
<1>4. Head(r) = s[k + 1] /\ Tail(r) = SubSeq(s, k + 1 + 1, m)
  BY <1>1, HeadTailOfSubSeq
<1> QED
  BY <1>2, <1>3, <1>4

\* Giving back the first n buffers, oldest first, keeps the pool in step with
\* the others.
LEMMA ReleaseInStep ==
  ASSUME NEW pool \in Pools, m_buffers \in Seq(Nat), max_pooled_segments \in Nat \ {0},
         InStep(pool, m_buffers, max_pooled_segments), NEW n \in 0..Len(m_buffers)
  PROVE  /\ ReleaseFirst(pool, n) \in Pools /\ ReleaseFirst(pool, n).kind = pool.kind
         /\ InStep(ReleaseFirst(pool, n), SubSeq(m_buffers, n + 1, Len(m_buffers)),
                   max_pooled_segments)
<1> DEFINE N == max_pooled_segments
           m == Len(m_buffers)
           Rest(k) == SubSeq(m_buffers, k + 1, m)
<1>0. m \in Nat /\ n \in Nat
  BY LenProperties
<1>1. PICK f : LeftBy(f, pool, m_buffers, n, N) /\ ReleaseFirst(pool, n) = f[n]
  BY <1>0, ReleaseUnfolded
<1> DEFINE Good(k) == /\ f[k] \in Pools /\ f[k].kind = pool.kind
                      /\ InStep(f[k], Rest(k), N)
           G == {k \in Nat : k <= n => Good(k)}
<1>2. 0 \in G
  <2>1. f[0] = pool
    BY <1>0, <1>1 DEF LeftBy, AfterOne
  <2>2. Rest(0) = m_buffers
    BY SubSeqFull
  <2> QED
    BY <2>1, <2>2, Zenon
<1>3. ASSUME NEW k \in Nat, k \in G PROVE k + 1 \in G
  <2> SUFFICES ASSUME k + 1 <= n PROVE Good(k + 1)
    OBVIOUS
  <2>1. Good(k)
    BY <1>0, <1>3
  <2>2. k + 1 \in 0..n /\ k + 1 # 0 /\ (k + 1) - 1 = k /\ k + 1 \in 1..m
    BY <1>0
  <2>3. f[k + 1] = deallocate(f[k], m_buffers[k + 1], N)
    <3>1. f[k + 1] = AfterOne(f[(k + 1) - 1], pool, m_buffers, k + 1, N)
      BY <1>1, <2>2, Zenon DEF LeftBy
    <3> QED
      BY <2>2, <3>1 DEF AfterOne
  <2>4. /\ Rest(k) \in Seq(Nat) /\ Rest(k) # <<>> /\ Head(Rest(k)) = m_buffers[k + 1]
        /\ Tail(Rest(k)) = Rest(k + 1)
    BY <1>0, <2>2, TailOfRest, Zenon
  <2> DEFINE held == Rest(k)
  <2> HIDE DEF Rest, N
  <2>5. /\ deallocate(f[k], Head(held), N) \in Pools
        /\ deallocate(f[k], Head(held), N).kind = f[k].kind
        /\ InStep(deallocate(f[k], Head(held), N), Tail(held), N)
    BY <2>1, <2>4, DeallocateType DEF N
  <2> QED
    BY <2>1, <2>3, <2>4, <2>5, Zenon
<1>4. n \in G
  <2> HIDE DEF G
  <2> QED
    BY <1>0, <1>2, <1>3, SetInduction, Zenon
<1>5. Good(n)
  BY <1>0, <1>4
<1> QED
  BY <1>1, <1>5, Zenon

-------------------------------------------------------------------------------
(***************************************************************************)
(* The pool follows the segments.                                          *)
(***************************************************************************)

\* validate_options makes room for a segment at least.
LEMMA PoolNotEmpty == max_pooled_segments \in Nat \ {0}
<1> USE PipelineAssumption
<1> DEFINE q == PauseThreshold \div BufferSize
           r == PauseThreshold % BufferSize
<1>1. q \in Nat /\ r \in Nat /\ PauseThreshold = BufferSize * q + r
  OBVIOUS
<1>2. ~ (q = 0 /\ r = 0)
  <2> SUFFICES ASSUME q = 0, r = 0 PROVE FALSE
    OBVIOUS
  <2> HIDE DEF q, r
  <2>1. BufferSize * 0 + 0 = 0
    OBVIOUS
  <2> QED
    BY <1>1, <2>1
<1> HIDE DEF q, r
<1> QED
  BY <1>1, <1>2 DEF max_pooled_segments, q, r

\* The pool is in step with the buffers of the segments.
PoolFollows ==
  /\ m_buffers \in Seq(Nat) /\ m_allocator \in Pools
  /\ InStep(m_allocator, m_buffers, max_pooled_segments)
  /\ Len(m_buffers) = Len(m_segments)
  /\ ~alive => m_buffers = <<>> /\ (m_allocator.kind = "fixed" => m_allocator.heap = {})

\* Allocating keeps the pool in step if the pool has a buffer left.
LEMMA AllocateInStep ==
  ASSUME NEW N \in Nat \ {0}, NEW pool \in Pools, NEW held \in Seq(Nat),
         InStep(pool, held, N), Len(held) < N
  PROVE  /\ allocate(pool, N) \in Pools /\ NextBuffer(pool) \in Nat
         /\ InStep(allocate(pool, N), Append(held, NextBuffer(pool)), N)
<1>1. CASE pool \in Arenas
  <2>1. pool.kind = "arena" /\ ArenaInStep(pool, held, N)
    BY <1>1 DEF Arenas, InStep
  <2>2. allocate(pool, N) = arena_allocate(pool, N) /\ NextBuffer(pool) = pool.m_head
    BY <2>1 DEF allocate, NextBuffer
  <2>3. arena_allocate(pool, N) \in Arenas /\ arena_allocate(pool, N).kind = "arena"
    <3>1. pool.m_active_buffers + 1 \in Nat /\ arena_advance(pool.m_head, N) \in Nat
      BY <1>1 DEF arena_advance, Arenas
    <3> QED
      BY <1>1, <3>1, Zenon DEF arena_allocate, Arenas
  <2>4. ArenaInStep(allocate(pool, N), Append(held, NextBuffer(pool)), N)
    BY <1>1, <2>1, ArenaAllocates
  <2>5. pool.m_head \in Nat
    BY <1>1 DEF Arenas
  <2> QED
    BY <2>2, <2>3, <2>4, <2>5 DEF Pools, InStep
<1>2. CASE pool \in FixedPools
  <2>1. pool.kind = "fixed" /\ FixedInStep(pool, held)
    BY <1>2 DEF FixedPools, InStep
  <2> DEFINE avail == pool.m_available_buffers
  <2>2. avail \in Seq(Nat) /\ pool.heap \in SUBSET Nat /\ Len(avail) \in Nat
    BY <1>2, LenProperties DEF FixedPools
  <2>3. IsFiniteSet(pool.heap)
    BY <1>2, <2>1, HeapIsFinite
  <2>4. NewBlock(pool.heap) \in Nat
    BY <2>2, <2>3, NewBlockIsNew
  <2>5. NextBuffer(pool) \in Nat
    <3>1. avail # <<>> => avail[Len(avail)] \in Nat
      BY <2>2, EmptySeq, ElementOfSeq
    <3> QED
      BY <2>1, <2>4, <3>1 DEF NextBuffer
  <2>6. allocate(pool, N) = fixed_allocate(pool)
    BY <2>1 DEF allocate
  <2>7. fixed_allocate(pool) \in FixedPools /\ fixed_allocate(pool).kind = "fixed"
    <3>1. pool.heap \union {NewBlock(pool.heap)} \in SUBSET Nat
      BY <2>2, <2>4
    <3>2. avail # <<>> => SubSeq(avail, 1, Len(avail) - 1) \in Seq(Nat)
      BY <2>2
    <3> QED
      BY <1>2, <3>1, <3>2, Zenon DEF fixed_allocate, FixedPools
  <2>8. FixedInStep(allocate(pool, N), Append(held, NextBuffer(pool)))
    BY <1>2, <2>1, FixedAllocates
  <2> QED
    BY <2>5, <2>6, <2>7, <2>8 DEF Pools, InStep
<1> QED
  BY <1>1, <1>2 DEF Pools

\* A pool without buffers is in step with a pipeline without segments.
LEMMA PoolInit == StorageInit => PoolFollows
<1> SUFFICES ASSUME StorageInit PROVE PoolFollows
  OBVIOUS
<1> DEFINE N == max_pooled_segments
<1>1. m_buffers = <<>> /\ m_segments = <<>> /\ alive = TRUE
  BY DEF StorageInit, Init
<1>2. m_buffers \in Seq(Nat) /\ Len(m_buffers) = 0 /\ Len(m_segments) = 0
  BY <1>1, EmptySeq
<1>3. PICK kind \in AllocatorKinds : m_allocator = make_pool(kind)
  BY DEF StorageInit
<1>4. kind \in {"fixed", "arena"}
  BY <1>3, StorageAssumption
<1>5. N \in Nat \ {0}
  BY PoolNotEmpty
<1> HIDE DEF N
<1>6. CASE kind = "arena"
  <2>1. /\ m_allocator \in Arenas /\ m_allocator.kind = "arena"
        /\ m_allocator.m_head = 0 /\ m_allocator.m_tail = 0
        /\ m_allocator.m_active_buffers = 0
    BY <1>3, <1>6 DEF make_pool, Arenas
  <2>2. Slot(0, 1, N) = 0
    BY <1>5 DEF Slot
  <2>3. ArenaInStep(m_allocator, m_buffers, N)
    BY <1>2, <1>5, <2>1, <2>2 DEF ArenaInStep
  <2> QED
    BY <1>1, <1>2, <2>1, <2>3 DEF PoolFollows, Pools, InStep, N
<1>7. CASE kind = "fixed"
  <2>1. /\ m_allocator \in FixedPools /\ m_allocator.kind = "fixed"
        /\ m_allocator.m_available_buffers = <<>> /\ m_allocator.heap = {}
    BY <1>3, <1>7, EmptySeq DEF make_pool, FixedPools
  <2>2. FixedInStep(m_allocator, m_buffers)
    <3> DEFINE all == m_buffers \o m_allocator.m_available_buffers
    <3>1. all = <<>>
      BY <1>1, <2>1, EmptySeq, ConcatEmptySeq
    <3>2. DOMAIN all = {}
      BY <3>1
    <3> HIDE DEF all
    <3>3. NoRepeats(all) /\ m_allocator.heap = {all[i] : i \in DOMAIN all}
      BY <2>1, <3>2 DEF NoRepeats
    <3> QED
      BY <3>3 DEF FixedInStep, all
  <2> QED
    BY <1>1, <1>2, <2>1, <2>2 DEF PoolFollows, Pools, InStep
<1> QED
  BY <1>4, <1>6, <1>7

\* A step makes the list of segments longer by at most one.
LEMMA SegmentsStep ==
  ASSUME Stream, Next
  PROVE  Len(m_segments') \in 0..(Len(m_segments) + 1)
<1> DEFINE n == Len(m_segments)
<1>1. m_segments \in Seq(Segment) /\ Filled(m_segments) /\ n \in Nat
  BY LenProperties DEF Stream
<1>2. CASE m_segments' = m_segments
  BY <1>1, <1>2
<1>3. ASSUME data # 0, writer_available_capacity # 0, CopyToTail
      PROVE  Len(m_segments') \in 0..(n + 1)
  <2>1. Len(m_segments') = Len(get_segment)
    BY <1>3, CopyAppends
  <2>2. Len(get_segment) \in {n, n + 1}
    <3> DEFINE e == [bytes |-> <<>>, free |-> BufferSize]
    <3>1. e \in Segment
      BY EmptySeq, PipelineAssumption DEF Segment
    <3>2. get_segment = m_segments \/ get_segment = Append(m_segments, e)
      BY DEF get_segment
    <3> HIDE DEF e
    <3> QED
      BY <1>1, <3>1, <3>2, AppendProperties
  <2> QED
    BY <1>1, <2>1, <2>2
<1>4. ASSUME NEW e \in 0..m_pending_read_size, NEW c \in 0..e, advance(c, e)
      PROVE  Len(m_segments') \in 0..(n + 1)
  <2>1. m_segments' = Left(c) /\ ~m_reader_completed
    BY <1>4 DEF advance
  <2>2. /\ m_pending_read_size <= m_buffered_size /\ m_buffered_size = Len(Buffered)
        /\ m_pending_read_size \in Nat /\ m_buffered_size \in Nat
    BY <2>1 DEF Stream, Counted, Sizes
  <2>3. c \in 0..Len(Buffered)
    <3> DEFINE l == Len(Buffered)
    <3> HIDE DEF l
    <3>1. m_buffered_size = l
      BY <2>2 DEF l
    <3>2. c \in 0..l
      BY <2>2, <3>1
    <3> QED
      BY <3>2 DEF l
  <2>4. Popped(c) \in 0..n /\ Len(Left(c)) = n - Popped(c)
    BY <1>1, <2>3, LeftBytes
  <2> QED
    BY <1>1, <2>1, <2>4
<1>5. \/ m_segments' = m_segments
      \/ data # 0 /\ writer_available_capacity # 0 /\ CopyToTail
      \/ \E e \in 0..m_pending_read_size : \E c \in 0..e : advance(c, e)
  BY Zenon DEF Next, Relock, Continue, write, read_at_least, complete_writer, complete_reader,
         WriteLock, WriteWaitReturns, WriteLoop, ReadWaitReturns, WriteNotify, ReadFinish,
         AdvanceNotify, CompleteNotify, RequestStop, SpuriousWakeup
<1> QED
  BY <1>2, <1>3, <1>4, <1>5

\* The pool follows a step of the pipeline.
LEMMA PoolStep ==
  ASSUME PoolFollows, alive, StorageFollows, Len(m_segments) \in Nat,
         Len(m_segments') \in 0..(Len(m_segments) + 1), StorageBounded'
  PROVE  PoolFollows'
<1> DEFINE n == Len(m_segments)
           k == Len(m_segments')
           N == max_pooled_segments
           b == m_buffers
<1>1. /\ b \in Seq(Nat) /\ m_allocator \in Pools /\ InStep(m_allocator, b, N)
      /\ Len(b) = n
  BY DEF PoolFollows
<1>2. n \in Nat /\ k \in 0..(n + 1) /\ N \in Nat \ {0} /\ alive'
  BY PoolNotEmpty DEF StorageFollows
<1>3. N' = N
  BY DEF max_pooled_segments
<1>4. k <= N
  BY <1>3 DEF StorageBounded
<1>5. CASE k - n > 0
  <2>1. /\ m_buffers' = Append(b, NextBuffer(m_allocator))
        /\ m_allocator' = allocate(m_allocator, N)
    BY <1>5 DEF StorageFollows
  <2>2. k = n + 1 /\ n < N
    BY <1>2, <1>4, <1>5
  <2> HIDE DEF N, n, k
  <2>3. /\ allocate(m_allocator, N) \in Pools /\ NextBuffer(m_allocator) \in Nat
        /\ InStep(allocate(m_allocator, N), Append(b, NextBuffer(m_allocator)), N)
    BY <1>1, <1>2, <2>2, AllocateInStep
  <2>4. m_buffers' \in Seq(Nat) /\ Len(m_buffers') = n + 1
    BY <1>1, <2>1, <2>3, AppendProperties
  <2>5. InStep(m_allocator', m_buffers', N')
    BY <1>3, <2>1, <2>3, Zenon
  <2> QED
    BY <1>2, <2>1, <2>2, <2>3, <2>4, <2>5 DEF PoolFollows, N, k
<1>6. CASE ~ (k - n > 0)
  <2> DEFINE gone == n - k
  <2>1. gone \in 0..n /\ 1 - (k - n) = gone + 1 /\ -(k - n) = gone
    BY <1>2, <1>6
  <2>2. /\ m_buffers' = SubSeq(b, gone + 1, Len(b))
        /\ m_allocator' = ReleaseFirst(m_allocator, gone)
    BY <1>6, <2>1 DEF StorageFollows
  <2> HIDE DEF N, n, k, gone
  <2>3. /\ ReleaseFirst(m_allocator, gone) \in Pools
        /\ InStep(ReleaseFirst(m_allocator, gone), SubSeq(b, gone + 1, Len(b)), N)
    BY <1>1, <1>2, <2>1, ReleaseInStep DEF N
  <2>4. m_buffers' \in Seq(Nat) /\ Len(m_buffers') = n - gone
    BY <1>1, <1>2, <2>1, <2>2
  <2>5. n - gone = k
    BY <1>2 DEF gone
  <2>6. InStep(m_allocator', m_buffers', N')
    BY <1>3, <2>2, <2>3, Zenon
  <2> QED
    BY <1>2, <2>2, <2>3, <2>4, <2>5, <2>6 DEF PoolFollows, N, k
<1> QED
  BY <1>5, <1>6

\* ~pipeline leaves no buffer behind: the segments give theirs back to the pool,
\* and the fixed pool deletes all it has.
LEMMA PoolDestroyed ==
  ASSUME PoolFollows, Destroy
  PROVE  PoolFollows'
<1> DEFINE N == max_pooled_segments
           b == m_buffers
           p == ReleaseFirst(m_allocator, Len(b))
<1>1. /\ m_segments' = <<>> /\ m_buffers' = <<>> /\ m_allocator' = destroy(p) /\ ~alive'
  BY DEF Destroy
<1>2. /\ b \in Seq(Nat) /\ m_allocator \in Pools /\ InStep(m_allocator, b, N)
      /\ Len(b) \in Nat
  BY LenProperties DEF PoolFollows
<1>3. N \in Nat \ {0} /\ N' = N
  BY PoolNotEmpty DEF max_pooled_segments
<1>4. p \in Pools /\ InStep(p, <<>>, N)
  <2>1. Len(b) \in 0..Len(b) /\ SubSeq(b, Len(b) + 1, Len(b)) = <<>>
    BY <1>2, SubSeqEmpty
  <2> QED
    BY <1>2, <1>3, <2>1, ReleaseInStep, Zenon
<1> HIDE DEF p, N
<1>5. <<>> \in Seq(Nat) /\ Len(<<>>) = 0
  BY EmptySeq
<1>6. CASE p \in Arenas
  <2>1. p.kind = "arena" /\ destroy(p) = p
    BY <1>6 DEF Arenas, destroy
  <2> QED
    BY <1>1, <1>3, <1>4, <1>5, <2>1 DEF PoolFollows, N
<1>7. CASE p \in FixedPools
  <2> DEFINE avail == p.m_available_buffers
             q == destroy(p)
  <2>1. p.kind = "fixed" /\ FixedInStep(p, <<>>) /\ avail \in Seq(Nat)
    BY <1>4, <1>7 DEF FixedPools, InStep
  <2>2. <<>> \o avail = avail
    BY <2>1, ConcatEmptySeq
  <2>3. p.heap = {avail[i] : i \in DOMAIN avail}
    BY <2>1, <2>2, Zenon DEF FixedInStep
  <2>4. /\ q \in FixedPools /\ q.kind = "fixed" /\ q.m_available_buffers = <<>>
        /\ q.heap = p.heap \ {avail[i] : i \in DOMAIN avail}
    BY <1>5, <1>7, Zenon DEF FixedPools, destroy
  <2>5. q.heap = {}
    BY <2>3, <2>4
  <2>6. <<>> \o q.m_available_buffers = <<>>
    BY <2>4, <1>5, ConcatEmptySeq
  <2> HIDE DEF q
  <2>7. FixedInStep(q, <<>>)
    <3> DEFINE all == <<>> \o q.m_available_buffers
    <3>1. DOMAIN all = {}
      BY <2>6
    <3> HIDE DEF all
    <3>2. NoRepeats(all) /\ q.heap = {all[i] : i \in DOMAIN all}
      BY <2>5, <3>1 DEF NoRepeats
    <3> QED
      BY <3>2 DEF FixedInStep, all
  <2> QED
    BY <1>1, <1>3, <1>5, <2>4, <2>5, <2>7 DEF PoolFollows, Pools, InStep, q, N
<1> QED
  BY <1>4, <1>6, <1>7 DEF Pools

-------------------------------------------------------------------------------
(***************************************************************************)
(* What a paused writer leaves to the reader.                              *)
(***************************************************************************)

\* Where a paused writer can be resumed at all, it is paused because there is
\* no room, neither in the last segment nor for another one.
PausedFull ==
  m_writer_paused /\ BufferSize <= ResumeThreshold =>
    /\ ~is_any_completed /\ ~has_writable_tail(m_segments)
    /\ segment_allocation_capacity(m_actual_buffered_size) < BufferSize

\* advance makes no room in the last segment.
LEMMA LeftTail ==
  ASSUME m_segments \in Seq(Segment), Filled(m_segments), NEW c \in 0..Len(Buffered),
         has_writable_tail(Left(c))
  PROVE  has_writable_tail(m_segments)
<1> DEFINE s == m_segments
           n == Len(s)
           p == Popped(c)
           r == SubSeq(s, p + 1, n)
           l == Left(c)
           k == n - p
<1>1. n \in Nat /\ p \in 0..n /\ l \in Seq(Segment) /\ Len(l) = k
  BY LenProperties, LeftBytes
<1>2. k \in Nat /\ k # 0 /\ k \in 1..k /\ l[k].free > 0
  <2>1. l # <<>> /\ l[Len(l)].free > 0
    BY DEF has_writable_tail
  <2>2. k \in Nat
    BY <1>1
  <2> HIDE DEF l, k
  <2>3. k # 0
    BY <1>1, <2>1, EmptySeq
  <2> QED
    BY <1>1, <2>1, <2>2, <2>3
<1>3. r \in Seq(Segment) /\ Len(r) = k /\ \A i \in 1..k : r[i] = s[p + i]
  <2> HIDE DEF p
  <2> QED
    BY <1>1, BytesOfRest, Zenon
<1>4. \E v : l = r \/ l = [r EXCEPT ![1].bytes = v]
  BY Zenon DEF Left
<1> HIDE DEF l, r, k
<1>5. l[k].free = r[k].free
  <2>1. \A i \in 1..k : r[i] \in Segment
    BY <1>3, ElementOfSeq
  <2>2. DOMAIN r = 1..k
    BY <1>3, LenProperties
  <2>3. ASSUME NEW v, l = [r EXCEPT ![1].bytes = v] PROVE l[k].free = r[k].free
    <3>1. CASE k = 1
      <4>1. ASSUME NEW seg \in Segment PROVE [seg EXCEPT !.bytes = v].free = seg.free
        BY DEF Segment
      <4>2. l[1] = [r[1] EXCEPT !.bytes = v]
        BY <1>2, <2>2, <2>3, <3>1
      <4>3. r[1] \in Segment
        BY <1>2, <2>1, <3>1
      <4> QED
        BY <3>1, <4>1, <4>2, <4>3, Zenon
    <3>2. CASE k # 1
      BY <1>2, <2>2, <2>3, <3>2
    <3> QED
      BY <3>1, <3>2
  <2> QED
    BY <1>4, <2>3
<1>6. r[k] = s[n]
  <2>1. p + k = n
    BY <1>1 DEF k
  <2> QED
    BY <1>2, <1>3, <2>1
<1>7. s # <<>>
  <2>1. n # 0
    BY <1>1, <1>2 DEF k
  <2> QED
    BY <2>1, EmptySeq
<1> QED
  BY <1>2, <1>5, <1>6, <1>7 DEF has_writable_tail

\* The writer pauses for lack of room, and a step that makes room resumes it.
LEMMA PausedStep ==
  ASSUME Stream, PausedFull, [Next]_vars
  PROVE  PausedFull'
<1> USE PipelineAssumption
<1>1. CASE UNCHANGED <<m_writer_paused, m_segments, m_actual_buffered_size, completed>>
  BY <1>1 DEF PausedFull, has_writable_tail, segment_allocation_capacity, is_any_completed,
              completed
<1>2. CASE m_writer_paused' = FALSE
  BY <1>2 DEF PausedFull
<1>3. ASSUME WriteLoop PROVE PausedFull'
  <2>1. completed' = completed
    BY <1>3 DEF WriteLoop
  <2>2. CASE UNCHANGED <<m_writer_paused, m_segments, m_actual_buffered_size>>
    BY <1>1, <2>1, <2>2
  <2>3. CASE /\ ~is_any_completed /\ writer_available_capacity = 0
             /\ UNCHANGED <<m_segments, m_actual_buffered_size>>
    <3>1. /\ ~has_writable_tail(m_segments)
          /\ segment_allocation_capacity(m_actual_buffered_size) < BufferSize
      <4>1. has_writable_tail(m_segments) => m_segments[Len(m_segments)].free > 0
        BY DEF has_writable_tail
      <4>2. m_actual_buffered_size \in Nat
        BY DEF Stream, Sizes
      <4>3. segment_allocation_capacity(m_actual_buffered_size) \in Nat
        BY <4>2 DEF segment_allocation_capacity
      <4>4. ~has_writable_tail(m_segments)
        BY <2>3, <4>1 DEF writer_available_capacity
      <4> QED
        BY <2>3, <4>3, <4>4 DEF writer_available_capacity
    <3> QED
      BY <2>1, <2>3, <3>1 DEF PausedFull, has_writable_tail, segment_allocation_capacity,
                              is_any_completed, completed
  <2>4. CASE ~is_any_completed /\ CopyToTail
    <3>1. m_writer_paused' = should_pause_writer(m_segments', m_actual_buffered_size')
      BY <2>4 DEF CopyToTail
    <3>2. m_writer_paused' =>
            /\ ~has_writable_tail(m_segments')
            /\ segment_allocation_capacity(m_actual_buffered_size') < BufferSize
      BY <3>1, Zenon DEF should_pause_writer
    <3>3. ~is_any_completed'
      BY <2>1, <2>4 DEF is_any_completed, completed
    <3>4. m_writer_paused' /\ BufferSize <= ResumeThreshold =>
            /\ ~is_any_completed' /\ ~has_writable_tail(m_segments')
            /\ segment_allocation_capacity(m_actual_buffered_size') < BufferSize
      BY <3>2, <3>3, Zenon
    <3> QED
      BY <3>4 DEF PausedFull, has_writable_tail, segment_allocation_capacity
  <2> QED
    BY <1>3, <2>2, <2>3, <2>4 DEF WriteLoop
<1>4. ASSUME NEW e \in 0..m_pending_read_size, NEW c \in 0..e, advance(c, e)
      PROVE  PausedFull'
  <2> SUFFICES ASSUME m_writer_paused', BufferSize <= ResumeThreshold
               PROVE  /\ ~is_any_completed' /\ ~has_writable_tail(m_segments')
                      /\ segment_allocation_capacity(m_actual_buffered_size') < BufferSize
    BY DEF PausedFull, has_writable_tail, segment_allocation_capacity
  <2>1. /\ m_segments' = Left(c) /\ completed' = completed /\ ~m_reader_completed
        /\ m_writer_paused /\ ~should_resume_writer(m_actual_buffered_size')
    BY <1>4, Zenon DEF advance
  <2>2. ~is_any_completed /\ ~has_writable_tail(m_segments)
    BY <2>1 DEF PausedFull
  <2>3. /\ m_pending_read_size <= m_buffered_size /\ m_buffered_size = Len(Buffered)
        /\ m_pending_read_size \in Nat /\ m_buffered_size \in Nat
    BY <2>1 DEF Stream, Counted, Sizes
  <2>4. c \in 0..Len(Buffered)
    <3> DEFINE l == Len(Buffered)
    <3> HIDE DEF l
    <3>1. m_buffered_size = l
      BY <2>3 DEF l
    <3>2. c \in 0..l
      BY <2>3, <3>1
    <3> QED
      BY <3>2 DEF l
  <2>5. ~has_writable_tail(Left(c))
    BY <2>2, <2>4, LeftTail DEF Stream
  <2>6. ~ (m_actual_buffered_size' < PauseThreshold)
    BY <2>1 DEF should_resume_writer
  <2> QED
    BY <2>1, <2>2, <2>5, <2>6 DEF is_any_completed, completed, segment_allocation_capacity
<1>5. \/ UNCHANGED <<m_writer_paused, m_segments, m_actual_buffered_size, completed>>
      \/ m_writer_paused' = FALSE \/ WriteLoop
      \/ \E e \in 0..m_pending_read_size : \E c \in 0..e : advance(c, e)
  BY Zenon DEF Next, Relock, Continue, write, read_at_least, complete_writer, complete_reader,
         WriteLock, WriteWaitReturns, ReadWaitReturns, WriteNotify, ReadFinish,
         AdvanceNotify, CompleteNotify, RequestStop, SpuriousWakeup, vars, counters
<1> QED
  BY <1>1, <1>2, <1>3, <1>4, <1>5, Zenon

\* Segments without room hold BufferSize bytes each, the first at least one.
LEMMA FullSegments ==
  ASSUME NEW s \in Seq(Segment), Filled(s), ~has_writable_tail(s), s # <<>>
  PROVE  Len(FlattenSeq(BytesOf(s))) >= BufferSize * (Len(s) - 1) + 1
<1> USE PipelineAssumption
<1> DEFINE n == Len(s)
           b == BytesOf(s)
           G == {k \in Nat : k + 1 <= n => Len(UpTo(b, k + 1)) >= BufferSize * k + 1}
<1>1. /\ n \in Nat /\ n # 0 /\ b \in Seq(Seq(Nat)) /\ Len(b) = n
      /\ \A i \in 1..n : b[i] = s[i].bytes /\ s[i] \in Segment
  BY LenProperties, EmptySeq, ElementOfSeq, BytesOfType
<1>2. ~ (s[n].free > 0)
  BY DEF has_writable_tail
<1>3. ASSUME NEW i \in 1..n
      PROVE  Len(b[i]) \in Nat /\ Len(b[i]) >= 1 /\ (i > 1 => Len(b[i]) = BufferSize)
  <2>1. s[i].free \in Nat /\ s[i].bytes \in Seq(Nat)
    BY <1>1 DEF Segment
  <2>2. /\ Len(s[i].bytes) \in 1..(BufferSize - s[i].free)
        /\ i > 1 => Len(s[i].bytes) = BufferSize - s[i].free
        /\ s[i].free > 0 => i = n
    BY DEF Filled
  <2>3. s[i].free = 0
    BY <1>2, <2>1, <2>2
  <2> QED
    BY <1>1, <2>2, <2>3
<1>4. 0 \in G
  <2>1. UpTo(b, 0) = <<>>
    BY <1>1, UpToEnds
  <2>2. Len(UpTo(b, 0 + 1)) = Len(UpTo(b, 0)) + Len(b[0 + 1])
    <3> HIDE DEF b, n
    <3>1. 0 \in 0..(Len(b) - 1)
      BY <1>1
    <3> QED
      BY <1>1, <3>1, UpToNext, Zenon
  <2>3. 1 \in 1..n
    BY <1>1
  <2> HIDE DEF b, n
  <2>4. Len(UpTo(b, 0)) = 0
    BY <2>1
  <2> QED
    BY <1>3, <2>2, <2>3, <2>4
<1>5. ASSUME NEW k \in Nat, k \in G PROVE k + 1 \in G
  <2> SUFFICES ASSUME k + 1 + 1 <= n
               PROVE  Len(UpTo(b, k + 1 + 1)) >= BufferSize * (k + 1) + 1
    OBVIOUS
  <2> HIDE DEF b, n
  <2>1. k + 1 \in 0..(Len(b) - 1)
    BY <1>1
  <2>2. /\ Len(UpTo(b, k + 1 + 1)) = Len(UpTo(b, k + 1)) + Len(b[k + 1 + 1])
        /\ UpTo(b, k + 1) \in Seq(Nat)
    BY <1>1, <2>1, UpToNext, Zenon
  <2>3. Len(b[k + 1 + 1]) = BufferSize
    <3>1. k + 1 + 1 \in 1..n /\ k + 1 + 1 > 1
      BY <1>1
    <3> QED
      BY <1>3, <3>1
  <2>4. Len(UpTo(b, k + 1)) \in Nat
    BY <2>2, LenProperties
  <2>5. Len(UpTo(b, k + 1)) >= BufferSize * k + 1
    BY <1>1, <1>5
  <2>6. BufferSize * (k + 1) = BufferSize * k + BufferSize /\ BufferSize * k \in Nat
    OBVIOUS
  <2> HIDE DEF G
  <2> DEFINE x == Len(UpTo(b, k + 1))
             y == BufferSize * k
             z == BufferSize * (k + 1)
  <2>7. x \in Nat /\ y \in Nat /\ z = y + BufferSize /\ x >= y + 1
    BY <2>4, <2>5, <2>6
  <2> HIDE DEF x, y, z
  <2>8. x + BufferSize >= z + 1
    BY <2>7
  <2> QED
    BY <2>2, <2>3, <2>8 DEF x, y, z
<1>6. n - 1 \in G
  <2> HIDE DEF G, n
  <2>1. n - 1 \in Nat
    BY <1>1
  <2> QED
    BY <1>4, <1>5, <2>1, SetInduction
<1>7. UpTo(b, n) = FlattenSeq(b)
  BY <1>1, UpToEnds
<1> HIDE DEF b, n
<1>8. n - 1 + 1 = n /\ n - 1 + 1 <= n
  BY <1>1
<1> QED
  BY <1>6, <1>7, <1>8 DEF b, n

\* What the bounds on the storage and on its room come to.
LEMMA EnoughLeft ==
  ASSUME NEW B \in Nat \ {0}, NEW P \in Nat, NEW n \in Nat, NEW l \in Nat,
         n # 0 => l >= B * (n - 1) + 1,
         (IF B * n < P THEN P - B * n ELSE 0) < B
  PROVE  l >= B * (P \div B - 1) + 1
<1> DEFINE q == P \div B
           r == P % B
           m == B * n
           w == B * q
<1>1. q \in Nat /\ r \in Nat /\ P = w + r
  OBVIOUS
<1> HIDE DEF q, r
<1>2. /\ m \in Nat /\ B * (n - 1) = m - B /\ (n = 0 => m = 0)
      /\ w \in Nat /\ B * (q - 1) = w - B
  BY <1>1
<1>3. n # 0 => l >= m - B + 1
  BY <1>2
<1>4. (IF m < P THEN P - m ELSE 0) < B
  OBVIOUS
<1>5. m >= w
  <2> SUFFICES ASSUME n < q PROVE FALSE
    <3>1. q <= n => B * q <= B * n
      BY <1>1
    <3> QED
      BY <1>1, <3>1
  <2>1. B * (n + 1) <= B * q /\ B * (n + 1) = m + B
    BY <1>1
  <2> HIDE DEF m, w
  <2>2. m + B <= w
    BY <2>1 DEF w
  <2> QED
    BY <1>1, <1>2, <1>4, <2>2
<1> HIDE DEF m, w
<1>6. l >= w - B + 1
  BY <1>2, <1>3, <1>5
<1> QED
  BY <1>2, <1>6 DEF q

\* A writer asleep for good is paused, hence leaves what the threshold admits.
LEMMA PausedLeaves ==
  ASSUME Stream, Wakeups, PausedFull
  PROVE  PausedWriterLeavesEnough
<1> SUFFICES ASSUME Quiescent, m_space_available # {}, BufferSize <= ResumeThreshold
             PROVE  m_buffered_size >= BufferSize * (PauseThreshold \div BufferSize - 1) + 1
  BY DEF PausedWriterLeavesEnough
<1> USE PipelineAssumption
<1>1. m_writer_paused
  <2> SUFFICES ASSUME ~m_writer_paused PROVE FALSE
    OBVIOUS
  <2>1. PICK t \in Threads : pc[t] \in {"advance_notify", "writer_completed",
                                       "writer_completed_2", "reader_completed"}
    BY DEF Wakeups, WriterNotForgotten
  <2>2. /\ \A u \in m_space_available : u = "writer"
        /\ \A u \in m_data_available : u = "reader"
        /\ m_space_available # {} => pc["writer"] = "write_wait"
        /\ m_data_available # {} => pc["reader"] = "read_wait"
    BY DEF Wakeups, Control
  <2>3. CASE pc[t] = "idle"
    BY <2>1, <2>3
  <2>4. CASE t \in m_space_available
    <3>1. t = "writer" /\ pc["writer"] = "write_wait"
      BY <2>2, <2>4
    <3>2. pc[t] = "write_wait"
      BY <3>1, Zenon
    <3> QED
      BY <2>1, <3>2
  <2>5. CASE t \in m_data_available
    <3>1. t = "reader" /\ pc["reader"] = "read_wait"
      BY <2>2, <2>5
    <3>2. pc[t] = "read_wait"
      BY <3>1, Zenon
    <3> QED
      BY <2>1, <3>2
  <2> QED
    BY <2>3, <2>4, <2>5 DEF Quiescent
<1>2. /\ ~is_any_completed /\ ~has_writable_tail(m_segments)
      /\ segment_allocation_capacity(m_actual_buffered_size) < BufferSize
  BY <1>1 DEF PausedFull
<1> DEFINE n == Len(m_segments)
           l == Len(Buffered)
<1>3. /\ m_buffered_size = l /\ m_actual_buffered_size = BufferSize * n
      /\ m_buffered_size \in Nat
  BY <1>2 DEF Stream, Counted, Sizes, is_any_completed
<1>4. n \in Nat /\ m_segments \in Seq(Segment) /\ Filled(m_segments)
  BY LenProperties DEF Stream
<1>5. n # 0 => l >= BufferSize * (n - 1) + 1
  <2>1. n # 0 => m_segments # <<>>
    BY <1>4, EmptySeq
  <2> QED
    BY <1>2, <1>4, <2>1, FullSegments, BufferedIs
<1>6. (IF BufferSize * n < PauseThreshold THEN PauseThreshold - BufferSize * n ELSE 0)
        < BufferSize
  BY <1>2, <1>3 DEF segment_allocation_capacity
<1> HIDE DEF n, l
<1>7. l \in Nat
  BY <1>3
<1>8. l >= BufferSize * (PauseThreshold \div BufferSize - 1) + 1
  BY <1>4, <1>5, <1>6, <1>7, EnoughLeft, Zenon
<1> QED
  BY <1>3, <1>8

-------------------------------------------------------------------------------
(***************************************************************************)
(* The pipeline with its storage, ~pipeline included.                      *)
(***************************************************************************)

\* ~pipeline drops what was buffered, and nothing that was consumed.
LEMMA DestroyKeepsStream ==
  ASSUME Stream, Destroy
  PROVE  Stream'
<1>1. /\ m_segments' = <<>> /\ consumed' = consumed /\ data' = data
      /\ m_reader_completed' = TRUE /\ m_pending_read_size' = 0
      /\ m_buffered_size' = 0 /\ m_actual_buffered_size' = 0 /\ m_examined_size' = 0
  BY DEF Destroy, locals
<1>2. m_segments' \in Seq(Segment) /\ Len(m_segments') = 0
  BY <1>1, EmptySeq
<1>3. Filled(m_segments)'
  BY <1>2 DEF Filled
<1>4. Sizes' /\ Counted'
  BY <1>1 DEF Stream, Sizes, Counted
<1>5. Buffered' = <<>>
  <2>1. BytesOf(m_segments') \in Seq(Seq(Nat)) /\ Len(BytesOf(m_segments')) = 0
    BY <1>2, BytesOfType, Zenon
  <2>2. BytesOf(m_segments') = <<>>
    BY <2>1, EmptySeq
  <2>3. Buffered' = FlattenSeq(BytesOf(m_segments'))
    BY DEF Buffered, BytesOf
  <2> QED
    BY <2>2, <2>3, FlattenEmpty
<1>6. StreamIntact'
  <2> DEFINE k == Len(consumed)
             B == Buffered
             z == consumed \o B
  <2>1. consumed \in Seq(Nat) /\ k \in Nat /\ B \in Seq(Nat) /\ Len(B) \in Nat
    BY BufferedIs, LenProperties DEF Stream
  <2>2. \A i \in 1..(k + Len(B)) : z[i] = i
    BY DEF Stream, StreamIntact, Committed
  <2>3. \A i \in 1..k : z[i] = consumed[i]
    <3> HIDE DEF B
    <3> QED
      BY <2>1, ConcatProperties
  <2>4. \A i \in 1..k : consumed[i] = i
    <3> HIDE DEF z, k, B
    <3> QED
      BY <2>1, <2>2, <2>3
  <2>5. consumed' \o Buffered' = consumed /\ Len(consumed') + Len(Buffered') = k
    <3>1. consumed \o <<>> = consumed /\ Len(<<>>) = 0
      BY <2>1, ConcatEmptySeq, EmptySeq
    <3> HIDE DEF B
    <3> QED
      BY <1>1, <1>5, <2>1, <3>1
  <2> HIDE DEF z, k, B
  <2> QED
    BY <2>4, <2>5, Zenon DEF StreamIntact, Committed
<1> QED
  BY <1>1, <1>2, <1>3, <1>4, <1>6 DEF Stream

\* Nobody is asleep when ~pipeline runs.
LEMMA DestroyKeepsWakeups ==
  ASSUME Wakeups, Destroy
  PROVE  Wakeups'
<1>1. /\ UNCHANGED <<m_reader_waiting, m_mutex, m_data_available, m_space_available, pc,
                     data, notify, min_size, stop, result>>
      /\ \A t \in Threads : pc[t] = "idle"
      /\ m_buffered_size' = 0 /\ m_examined_size' = 0
  BY DEF Destroy, sleepers, locals, calls
<1>2. pc["writer"] = "idle" /\ pc["reader"] = "idle"
  BY <1>1 DEF Threads
<1>3. Control'
  BY <1>1 DEF Wakeups, Control
<1>4. m_space_available = {} /\ m_data_available = {}
  BY <1>2 DEF Wakeups, Control
<1>5. WriterNotForgotten' /\ ReaderNotForgotten'
  BY <1>1, <1>4 DEF WriterNotForgotten, ReaderNotForgotten
<1>6. ReaderTold'
  BY <1>1, <1>2, <1>4, <1>5 DEF Wakeups, ReaderTold
<1> QED
  BY <1>3, <1>5, <1>6 DEF Wakeups

\* The types that are not in the invariants of the stream and of the calls.
LEMMA DestroyKeepsTypes ==
  ASSUME Flags, Calls, Destroy
  PROVE  Flags' /\ Calls'
<1>1. Flags'
  BY Zenon DEF Flags, Destroy, locals
<1>2. Calls'
  BY DEF Calls, Destroy, sleepers, locals, calls
<1> QED
  BY <1>1, <1>2

\* The inductive invariant of the pipeline with its storage.
StorageInvariant ==
  /\ Stream /\ Wakeups /\ Storage /\ Flags /\ Calls
  /\ PausedFull /\ PoolFollows

\* The invariant holds in every reachable state.
LEMMA StorageInvariantHolds == StorageSpec => []StorageInvariant
<1>1. StorageInit => StorageInvariant
  <2> SUFFICES ASSUME StorageInit PROVE StorageInvariant
    OBVIOUS
  <2>1. Init
    BY DEF StorageInit
  <2>2. Stream /\ Wakeups /\ Storage /\ Flags /\ Calls
    BY <2>1, StreamInit, WakeupsInit, StorageFitsInit, TypesInit
  <2>3. PausedFull
    BY <2>1 DEF Init, PausedFull
  <2> QED
    BY <2>2, <2>3, PoolInit DEF StorageInvariant
<1>2. StorageInvariant /\ [StorageNext]_all_vars => StorageInvariant'
  <2> SUFFICES ASSUME StorageInvariant, [StorageNext]_all_vars PROVE StorageInvariant'
    OBVIOUS
  <2> USE DEF StorageInvariant
  <2>1. ASSUME [Next]_vars
        PROVE  /\ Stream' /\ Wakeups' /\ Storage' /\ Flags' /\ Calls' /\ PausedFull'
    BY <2>1, StreamStep, ControlStep, WriterStep, ReaderStep, StorageStep, FlagsStep,
       CallsStep, PausedStep DEF Wakeups
  <2>2. CASE alive /\ Next /\ StorageFollows
    <3>1. Len(m_segments) \in Nat
      BY LenProperties DEF Stream
    <3>2. StorageBounded'
      BY <2>1, <2>2 DEF Storage
    <3> QED
      BY <2>1, <2>2, <3>1, <3>2, SegmentsStep, PoolStep
  <2>3. CASE Destroy
    <3>1. Storage'
      BY <2>3, PoolNotEmpty DEF Destroy, Storage, IsSequence, StorageBounded
    <3>2. PausedFull'
      BY <2>3 DEF Destroy, PausedFull
    <3> QED
      BY <2>3, <3>1, <3>2, DestroyKeepsStream, DestroyKeepsWakeups, DestroyKeepsTypes,
         PoolDestroyed
  <2>4. CASE UNCHANGED all_vars
    <3>1. UNCHANGED vars /\ UNCHANGED <<m_allocator, m_buffers, alive, m_segments>>
      BY <2>4 DEF all_vars, storage, vars
    <3> QED
      BY <2>1, <3>1 DEF PoolFollows
  <2> QED
    BY <2>2, <2>3, <2>4 DEF StorageNext
<1> QED
  BY <1>1, <1>2, PTL DEF StorageSpec

\* No two live segments share a buffer, for every kind of pool, every buffer
\* size and thresholds: however often the arena's ring wraps, m_head never
\* catches up with m_tail, because the pause threshold stops the writer before
\* the pool has handed out its last buffer twice; and ~pipeline returns all.
THEOREM SegmentsNotShared == StorageSpec => []BuffersNotShared
<1>1. StorageInvariant => BuffersNotShared
  <2> SUFFICES ASSUME PoolFollows PROVE BuffersNotShared
    BY DEF StorageInvariant
  <2>1. /\ m_buffers \in Seq(Nat) /\ m_allocator \in Pools
        /\ InStep(m_allocator, m_buffers, max_pooled_segments)
        /\ max_pooled_segments \in Nat \ {0}
    BY PoolNotEmpty DEF PoolFollows
  <2>2. NotShared(m_allocator, m_buffers)
    <3>1. CASE m_allocator \in Arenas
      <4>1. m_allocator.kind = "arena"
        BY <3>1 DEF Arenas
      <4>2. ArenaInStep(m_allocator, m_buffers, max_pooled_segments)
        BY <2>1, <4>1 DEF InStep
      <4> QED
        BY <2>1, <3>1, <4>2, ArenaNotShared
    <3>2. CASE m_allocator \in FixedPools
      <4>1. m_allocator.kind # "arena"
        BY <3>2 DEF FixedPools
      <4> QED
        BY <2>1, <4>1, Zenon DEF InStep, FixedInStep, NotShared
    <3> QED
      BY <2>1, <3>1, <3>2 DEF Pools
  <2> QED
    BY <2>1, <2>2 DEF PoolFollows, BuffersNotShared
<1> QED
  BY <1>1, StorageInvariantHolds, PTL

\* A writer asleep for good leaves the reader all the segments that the pause
\* threshold admits, but for bytes consumed of the first one, for every buffer
\* size and all thresholds: write pauses only without room for a segment, and
\* every segment is full by then.
THEOREM PausedWriterFull == StorageSpec => []PausedWriterLeavesEnough
<1>1. StorageInvariant => PausedWriterLeavesEnough
  BY PausedLeaves DEF StorageInvariant
<1> QED
  BY <1>1, StorageInvariantHolds, PTL

\* What holds of the pipeline alone holds of it with its storage, until and
\* after ~pipeline.
THEOREM StorageKeepsPipeline ==
  StorageSpec => /\ [](TypeOK /\ Accounting /\ StreamIntact /\ StorageBounded)
                 /\ [](WriterNotForgotten /\ ReaderNotForgotten)
                 /\ SnapshotStable
<1>1. StorageInvariant => /\ TypeOK /\ Accounting /\ StreamIntact /\ StorageBounded
                          /\ WriterNotForgotten /\ ReaderNotForgotten
  BY TypesFollow, StreamCounts
  DEF StorageInvariant, Stream, Wakeups, Storage, ReaderTold
<1>2. StorageInvariant /\ [StorageNext]_all_vars => [Kept]_vars
  <2> SUFFICES ASSUME StorageInvariant, [StorageNext]_all_vars PROVE [Kept]_vars
    OBVIOUS
  <2>1. CASE Next
    BY <2>1, SnapshotStep DEF StorageInvariant
  <2>2. CASE Destroy
    BY <2>2 DEF Destroy, Kept
  <2>3. CASE UNCHANGED all_vars
    BY <2>3 DEF all_vars
  <2> QED
    BY <2>1, <2>2, <2>3 DEF StorageNext
<1> QED
  BY <1>1, <1>2, StorageInvariantHolds, PTL DEF StorageSpec, SnapshotStable, Kept
===============================================================================
