---------------------------- MODULE PipelineStorage ----------------------------
(***************************************************************************)
(* A pipeline together with the pool its segments live in: a data_segment  *)
(* allocates its buffer when it is constructed and gives it back when it   *)
(* is destroyed, all under the pipeline's mutex.  Ends with ~pipeline.     *)
(***************************************************************************)
EXTENDS Pipeline, SegmentPools

CONSTANT AllocatorKinds   \* the values of pipe_options::allocator, of
                          \* {"fixed", "arena"}
ASSUME StorageAssumption == AllocatorKinds \subseteq {"fixed", "arena"}

VARIABLES m_allocator,    \* the pool
          m_buffers,      \* m_buffer of each of m_segments
          alive           \* FALSE once ~pipeline has run

storage == <<m_allocator, m_buffers, alive>>
all_vars == <<vars, storage>>

\* make_allocator with the options validate_options returns
StorageInit ==
  /\ Init
  /\ m_allocator \in {make_pool(kind) : kind \in AllocatorKinds}
  /\ m_buffers = <<>> /\ alive = TRUE

\* ~data_segment of the first n segments, one after the other.
ReleaseFirst(pool, n) ==
  LET left[k \in 0..n] ==
        IF k = 0 THEN pool
        ELSE deallocate(left[k - 1], m_buffers[k], max_pooled_segments)
  IN left[n]

\* emplace_back constructs a data_segment on a buffer of the pool, pop_front
\* destroys the first one.  No step of a pipeline does both.
StorageFollows ==
  LET grown == Len(m_segments') - Len(m_segments)
  IN /\ IF grown > 0
        THEN /\ m_buffers' = Append(m_buffers, NextBuffer(m_allocator))
             /\ m_allocator' = allocate(m_allocator, max_pooled_segments)
        ELSE /\ m_buffers' = SubSeq(m_buffers, 1 - grown, Len(m_buffers))
             /\ m_allocator' = ReleaseFirst(m_allocator, -grown)
     /\ UNCHANGED alive

\* ~pipeline, once nobody is inside a call: the two completions, then the
\* segments, then the pool.
Destroy ==
  /\ alive /\ \A t \in Threads : pc[t] = "idle"
  /\ alive' = FALSE
  /\ m_writer_completed' = TRUE /\ m_reader_completed' = TRUE
  /\ m_writer_paused' = FALSE /\ m_has_pending_read' = FALSE
  /\ m_pending_read_size' = 0 /\ m_buffered_size' = 0
  /\ m_actual_buffered_size' = 0 /\ m_examined_size' = 0
  /\ m_segments' = <<>> /\ m_buffers' = <<>>
  /\ m_allocator' = destroy(ReleaseFirst(m_allocator, Len(m_buffers)))
  /\ UNCHANGED <<m_reader_waiting, m_mutex, sleepers, pc, locals, calls, consumed>>

StorageNext == (alive /\ Next /\ StorageFollows) \/ Destroy

StorageSpec == StorageInit /\ [][StorageNext]_all_vars

-------------------------------------------------------------------------------
(* Properties *)

\* Two live segments never write to the same buffer, and neither the ring of the
\* arena nor the stack of the fixed pool hands one out again before it came back.
\* The pool's own bookkeeping agrees with the segments, although the arena never
\* looks at the pointer it gets back: it stays in step through every wrap, its
\* three assertions hold, and after ~pipeline nothing is left allocated.
BuffersNotShared ==
  /\ NotShared(m_allocator, m_buffers)
  /\ InStep(m_allocator, m_buffers, max_pooled_segments)
  /\ ~alive => m_buffers = <<>> /\ (m_allocator.kind = "fixed" => m_allocator.heap = {})

\* A writer asleep for good leaves the reader all the segments that the pause
\* threshold admits, full except for what was consumed of the first one: a byte
\* of that one at least.  So a reader that keeps fewer bytes than this examined
\* and unconsumed, and asks read_at_least for no more than this, cannot end up
\* waiting for the writer while the writer waits for it.  (Where a segment is
\* larger than the resume threshold nothing resumes a paused writer at all.)
PausedWriterLeavesEnough ==
  Quiescent /\ m_space_available # {} /\ BufferSize <= ResumeThreshold =>
    m_buffered_size >= BufferSize * (PauseThreshold \div BufferSize - 1) + 1
===============================================================================
