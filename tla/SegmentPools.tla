----------------------------- MODULE SegmentPools ------------------------------
(***************************************************************************)
(* The memory resources a pipeline takes its segments' buffers from:       *)
(* xtd::fixed_pool_resource (a stack of returned buffers in front of       *)
(* operator new) and xtd::arena_pool_resource (a ring of N buffers handed  *)
(* out in turn), in pipeline/custom_allocators.                            *)
(*                                                                         *)
(* A pool is a value and its operations are operators on it; N is          *)
(* m_max_pool_size.  A buffer is a number: its index in the arena, or the  *)
(* name of a block of operator new, whose addresses are interchangeable.   *)
(* held is the sequence of buffers the pool's user has, oldest first.      *)
(***************************************************************************)
EXTENDS Integers, Sequences, FiniteSets

\* ::operator new and ::operator delete: heap is the set of blocks in use.
NewBlock(heap) == CHOOSE b \in 0..Cardinality(heap) : b \notin heap

\* make_allocator with one of the two constructors
make_pool(kind) ==
  IF kind = "arena"
  THEN [kind |-> kind, m_head |-> 0, m_tail |-> 0, m_active_buffers |-> 0]
  ELSE [kind |-> kind, m_available_buffers |-> <<>>, heap |-> {}]

-------------------------------------------------------------------------------
\* arena_pool_resource

\* Wraps one buffer before the end.
arena_advance_WrapsEarly(p, N) == IF p + 2 >= N THEN 0 ELSE p + 1

\* advance: the next buffer of the ring.
arena_advance(p, N) == IF p + 1 = N THEN 0 ELSE p + 1

\* do_allocate asserts that a buffer is left and hands out the one at m_head.
arena_allocate(pool, N) ==
  [pool EXCEPT !.m_head = arena_advance(@, N), !.m_active_buffers = @ + 1]

\* do_deallocate ignores which buffer comes back: it takes it for the oldest.
arena_deallocate(pool, N) ==
  [pool EXCEPT !.m_tail = arena_advance(@, N), !.m_active_buffers = @ - 1]

-------------------------------------------------------------------------------
\* fixed_pool_resource

fixed_allocate(pool) ==
  IF pool.m_available_buffers = <<>>
  THEN [pool EXCEPT !.heap = @ \union {NewBlock(@)}]
  ELSE [pool EXCEPT !.m_available_buffers = SubSeq(@, 1, Len(@) - 1)]

fixed_deallocate(pool, buffer, N) ==
  IF Len(pool.m_available_buffers) < N
  THEN [pool EXCEPT !.m_available_buffers = Append(@, buffer)]
  ELSE [pool EXCEPT !.heap = @ \ {buffer}]

-------------------------------------------------------------------------------
\* The buffer that allocate returns, and the pool after it.
NextBuffer(pool) ==
  CASE pool.kind = "arena" -> pool.m_head
    [] pool.kind = "fixed" ->
         IF pool.m_available_buffers = <<>> THEN NewBlock(pool.heap)
         ELSE pool.m_available_buffers[Len(pool.m_available_buffers)]

allocate(pool, N) ==
  IF pool.kind = "arena" THEN arena_allocate(pool, N) ELSE fixed_allocate(pool)

deallocate(pool, buffer, N) ==
  IF pool.kind = "arena" THEN arena_deallocate(pool, N)
  ELSE fixed_deallocate(pool, buffer, N)

\* The destructors: the arena is one block; the fixed pool deletes the buffers
\* it has.
destroy(pool) ==
  IF pool.kind = "arena" THEN pool
  ELSE [pool EXCEPT !.m_available_buffers = <<>>,
          !.heap = @ \ {pool.m_available_buffers[i] :
                          i \in DOMAIN pool.m_available_buffers}]

-------------------------------------------------------------------------------
(* What the pools promise a user that returns its oldest buffer first *)

NoRepeats(s) == \A i, j \in DOMAIN s : s[i] = s[j] => i = j

\* No two of the buffers handed out are the same storage, and none of them is
\* waiting in the pool to be handed out again.
NotShared(pool, held) ==
  NoRepeats(IF pool.kind = "arena" THEN held
            ELSE held \o pool.m_available_buffers)

\* The i-th buffer of the ring from m_tail on.
Slot(tail, i, N) == IF tail + i - 1 < N THEN tail + i - 1 ELSE tail + i - 1 - N

\* The arena's counters describe the buffers handed out: the held ones follow
\* each other around the ring from m_tail, m_head comes after the last of them.
ArenaInStep(pool, held, N) ==
  /\ pool.m_active_buffers = Len(held) /\ Len(held) <= N
  /\ pool.m_tail \in 0..(N - 1)
  /\ pool.m_head = Slot(pool.m_tail, Len(held) + 1, N)
  /\ \A i \in 1..Len(held) : held[i] = Slot(pool.m_tail, i, N)

\* Every block of operator new is held or in the stack, exactly once.
FixedInStep(pool, held) ==
  LET all == held \o pool.m_available_buffers
  IN NoRepeats(all) /\ pool.heap = {all[i] : i \in DOMAIN all}

InStep(pool, held, N) ==
  IF pool.kind = "arena" THEN ArenaInStep(pool, held, N) ELSE FixedInStep(pool, held)
===============================================================================
