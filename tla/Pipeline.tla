------------------------------- MODULE Pipeline --------------------------------
(***************************************************************************)
(* xtd::pipeline (pipeline/pipeline_impl.h): a byte stream from one writer *)
(* to one reader, kept in segments of BufferSize bytes, with backpressure  *)
(* on the writer and a read/advance protocol for the reader.               *)
(*                                                                         *)
(* Bytes are their own positions in the stream: the writer sends 1, 2, 3...*)
(* A critical section of m_mutex is one step up to the next look at a stop *)
(* token, which the mutex does not guard; a thread that goes on from there *)
(* keeps the mutex.  Notifications are issued with the mutex released and  *)
(* are steps of their own.                                                 *)
(***************************************************************************)
EXTENDS Integers, Sequences, FiniteSets, FiniteSetsExt, Flattening

CONSTANTS BufferSize, PauseThreshold, ResumeThreshold,  \* pipe_options
          WriteSizes,         \* lengths of the spans passed to write
          MinSizes,           \* arguments of read_at_least; 0 is read
          Cancellable,        \* threads whose calls carry a stoppable token
          WriterCompleters,   \* threads that may complete the writer ...
          ReaderCompleters,   \* ... and the reader
          MaxBytes            \* bound: bytes committed in a behaviour

\* The single writer and the single reader that the pipeline supports, and a
\* thread that only completes endpoints.
Threads == {"writer", "reader", "other"}

\* pipeline::validate_options
ASSUME PipelineAssumption ==
  /\ BufferSize \in Nat \ {0} /\ PauseThreshold \in Nat \ {0}
  /\ ResumeThreshold \in 0..PauseThreshold
  /\ WriteSizes \subseteq Nat \ {0} /\ MinSizes \subseteq Nat
  /\ Cancellable \subseteq {"writer", "reader"}
  /\ WriterCompleters \subseteq Threads /\ ReaderCompleters \subseteq Threads
  /\ MaxBytes \in Nat

VARIABLES m_segments,   \* sequence of [bytes: the readable ones, free: how many
                        \* can still be written]
          m_buffered_size, m_actual_buffered_size,
          m_examined_size, m_pending_read_size,
          m_reader_waiting, m_has_pending_read,
          m_writer_completed, m_reader_completed, m_writer_paused,
          m_mutex,            \* {t} if t keeps the mutex, else {}
          m_data_available, m_space_available,  \* threads asleep on each
          pc,
          data,         \* how many bytes the current write still has to copy
                        \* (write returns the others as copied)
          notify,       \* write's local notify_data_available
          min_size,     \* the argument of the current read_at_least
          stop,         \* stop[t]: the token of t's call has been stopped
          result,       \* result[t]: how the last write or read of t ended
          consumed      \* history: the bytes consumed by the reader, in order

counters == <<m_buffered_size, m_actual_buffered_size, m_examined_size>>
pending == <<m_pending_read_size, m_has_pending_read>>
completed == <<m_writer_completed, m_reader_completed>>
locals == <<data, notify, min_size>>
calls == <<stop, result>>
sleepers == <<m_data_available, m_space_available>>

vars == <<m_segments, counters, pending, m_reader_waiting, completed,
          m_writer_paused, m_mutex, sleepers, pc, locals, calls, consumed>>

PCs == {"idle", "write_lock", "write_wait", "write_loop", "write_notify",
        "read_wait", "read_finish", "advance_notify",
        "writer_completed", "writer_completed_2",
        "reader_completed", "reader_completed_2"}

\* How a call ended: it threw, its token was stopped, its bytes are written, or
\* it returned a view, of a stream that goes on or of a completed one.
Outcomes == {"none", "threw", "cancelled", "written", "data", "completed"}

Init ==
  /\ m_segments = <<>> /\ consumed = <<>>
  /\ m_buffered_size = 0 /\ m_actual_buffered_size = 0
  /\ m_examined_size = 0 /\ m_pending_read_size = 0
  /\ m_reader_waiting = FALSE /\ m_has_pending_read = FALSE
  /\ m_writer_completed = FALSE /\ m_reader_completed = FALSE
  /\ m_writer_paused = FALSE
  /\ m_mutex = {} /\ m_data_available = {} /\ m_space_available = {}
  /\ pc = [t \in Threads |-> "idle"]
  /\ data = 0 /\ notify = FALSE /\ min_size = 0
  /\ stop = [t \in Threads |-> FALSE]
  /\ result = [t \in Threads |-> "none"]

Goto(t, label) == pc' = [pc EXCEPT ![t] = label]

\* A call of t is over; its next call is given a token of its own.
Return(t, outcome) ==
  /\ Goto(t, "idle")
  /\ result' = [result EXCEPT ![t] = outcome]
  /\ stop' = [stop EXCEPT ![t] = FALSE]

-------------------------------------------------------------------------------
\* The bytes in the segments, in the order the reader sees them.
Buffered == FlattenSeq([i \in DOMAIN m_segments |-> m_segments[i].bytes])

\* Faulty variants stand before the definition they vary.
\* A predicate that forgets completion.
data_available_predicate_Uncompleted(min) ==
  m_buffered_size > m_examined_size /\ (min = 0 \/ m_buffered_size >= min)

data_available_predicate(min) ==
  \/ m_writer_completed
  \/ /\ m_buffered_size > m_examined_size
     /\ min = 0 \/ m_buffered_size >= min

space_available_predicate == ~m_writer_paused

\* Resumes only once all storage has been given back.
should_resume_writer_WhenEmpty(actual) == actual = 0

\* The code compares the constant m_buffer_size with the resume threshold.
should_resume_writer(actual) ==
  BufferSize <= ResumeThreshold /\ actual < PauseThreshold

has_writable_tail(segments) == segments # <<>> /\ segments[Len(segments)].free > 0

\* One segment too many at the threshold.
segment_allocation_capacity_Inclusive(actual) ==
  IF actual <= PauseThreshold THEN BufferSize ELSE 0

segment_allocation_capacity(actual) ==
  IF actual < PauseThreshold THEN PauseThreshold - actual ELSE 0

writer_available_capacity ==
  IF has_writable_tail(m_segments) THEN m_segments[Len(m_segments)].free
  ELSE IF segment_allocation_capacity(m_actual_buffered_size) >= BufferSize
       THEN BufferSize ELSE 0

should_pause_writer(segments, actual) ==
  ~has_writable_tail(segments) /\ segment_allocation_capacity(actual) < BufferSize

is_any_completed == m_writer_completed \/ m_reader_completed

\* get_segment: the tail to write to, appended when there is none.
get_segment ==
  IF has_writable_tail(m_segments) THEN m_segments
  ELSE Append(m_segments, [bytes |-> <<>>, free |-> BufferSize])

\* Advances the writable span by one byte too many.
copy_from_SkipsByte(segment, first, size) ==
  [bytes |-> segment.bytes \o [i \in 1..size |-> first + i - 1],
   free |-> segment.free - size - 1]

\* Restarts the readable span at each copy.
copy_from_Restarts(segment, first, size) ==
  [bytes |-> [i \in 1..size |-> first + i - 1], free |-> segment.free - size]

\* data_segment::copy_from on the tail
copy_from(segment, first, size) ==
  [bytes |-> segment.bytes \o [i \in 1..size |-> first + i - 1],
   free |-> segment.free - size]

Committed == Len(consumed) + Len(Buffered)

-------------------------------------------------------------------------------
\* write is called with n bytes that continue the stream.
write(n) ==
  /\ pc["writer"] = "idle" /\ n + Committed <= MaxBytes
  /\ data' = n /\ notify' = FALSE
  /\ Goto("writer", "write_lock")
  /\ UNCHANGED <<m_segments, counters, pending, m_reader_waiting, completed,
                 m_writer_paused, m_mutex, sleepers, min_size, calls, consumed>>

\* An iteration of write's outer loop takes the mutex and waits for space.
\* With its token stopped and the writer paused the wait returns at once, the
\* inner loop is skipped, and the outer loop starts over: a busy wait.
WriteLock ==
  /\ pc["writer"] = "write_lock" /\ m_mutex = {}
  /\ \/ /\ is_any_completed                      \* throws logic_error
        /\ Return("writer", "threw") /\ UNCHANGED <<m_mutex, m_space_available, notify>>
     \/ /\ ~is_any_completed /\ space_available_predicate
        /\ m_mutex' = {"writer"} /\ notify' = FALSE
        /\ Goto("writer", "write_loop") /\ UNCHANGED <<m_space_available, calls>>
     \/ /\ ~is_any_completed /\ ~space_available_predicate /\ ~stop["writer"]
        /\ m_space_available' = {"writer"}
        /\ Goto("writer", "write_wait") /\ UNCHANGED <<m_mutex, calls, notify>>
     \/ /\ ~is_any_completed /\ ~space_available_predicate /\ stop["writer"]
        /\ UNCHANGED <<m_mutex, m_space_available, pc, calls, notify>>
  /\ UNCHANGED <<m_segments, counters, pending, m_reader_waiting, completed,
                 m_writer_paused, m_data_available, data, min_size,
                 consumed>>

\* The writer, off m_space_available, has the mutex again.
WriteWaitReturns ==
  /\ pc["writer"] = "write_wait" /\ "writer" \notin m_space_available
  /\ m_mutex = {}
  /\ \/ /\ space_available_predicate
        /\ m_mutex' = {"writer"} /\ notify' = FALSE
        /\ Goto("writer", "write_loop") /\ UNCHANGED m_space_available
     \/ /\ ~space_available_predicate /\ stop["writer"]
        /\ Goto("writer", "write_lock")
        /\ UNCHANGED <<m_mutex, m_space_available, notify>>
     \/ /\ ~space_available_predicate /\ ~stop["writer"]
        /\ m_space_available' = {"writer"} /\ UNCHANGED <<m_mutex, pc, notify>>
  /\ UNCHANGED <<m_segments, counters, pending, m_reader_waiting, completed,
                 m_writer_paused, m_data_available, data, min_size,
                 calls, consumed>>

\* The copy of an iteration of the inner loop, and what follows it there.
CopyToTail ==
  LET size == Min({data, writer_available_capacity})
      segments == get_segment
      filled == [segments EXCEPT ![Len(segments)] =
                   copy_from(@, Committed + 1, size)]
      actual == m_actual_buffered_size
                  + BufferSize * (Len(segments) - Len(m_segments))
  IN /\ m_segments' = filled
     /\ m_actual_buffered_size' = actual
     /\ m_buffered_size' = m_buffered_size + size
     /\ data' = data - size
     /\ notify' = (notify \/ m_reader_waiting)
     /\ m_writer_paused' = should_pause_writer(filled, actual)

\* An iteration of the inner loop, or the loop's end.  The returns out of it
\* (a completed endpoint, a stopped token) skip the notification.
WriteLoop ==
  /\ pc["writer"] = "write_loop"
  /\ \/ /\ data = 0 \/ m_writer_paused
        /\ m_mutex' = {}
        /\ IF notify THEN Goto("writer", "write_notify") /\ UNCHANGED calls
           ELSE IF data = 0 THEN Return("writer", "written")
           ELSE Goto("writer", "write_lock") /\ UNCHANGED calls
        /\ UNCHANGED <<m_segments, m_buffered_size, m_actual_buffered_size,
                       m_writer_paused, data, notify>>
     \/ /\ data # 0 /\ ~m_writer_paused
        /\ is_any_completed \/ stop["writer"]
        /\ m_mutex' = {}
        /\ Return("writer", IF is_any_completed THEN "threw" ELSE "cancelled")
        /\ notify' = FALSE
        /\ UNCHANGED <<m_segments, m_buffered_size, m_actual_buffered_size,
                       m_writer_paused, data>>
     \/ /\ data # 0 /\ ~m_writer_paused /\ ~is_any_completed /\ ~stop["writer"]
        /\ writer_available_capacity = 0
        /\ m_writer_paused' = TRUE
        /\ UNCHANGED <<m_segments, m_buffered_size, m_actual_buffered_size,
                       m_mutex, pc, calls, data, notify>>
     \/ /\ data # 0 /\ ~m_writer_paused /\ ~is_any_completed /\ ~stop["writer"]
        /\ writer_available_capacity # 0
        /\ CopyToTail
        /\ UNCHANGED <<m_mutex, pc, calls>>
  /\ UNCHANGED <<m_examined_size, pending, m_reader_waiting, completed,
                 sleepers, min_size, consumed>>

\* notify_one after the inner loop.  Only the reader sleeps on m_data_available.
WriteNotify ==
  /\ pc["writer"] = "write_notify"
  /\ m_data_available' = {}
  /\ notify' = FALSE
  /\ IF data = 0 THEN Return("writer", "written")
     ELSE Goto("writer", "write_lock") /\ UNCHANGED calls
  /\ UNCHANGED <<m_segments, counters, pending, m_reader_waiting, completed,
                 m_writer_paused, m_mutex, m_space_available, data, min_size,
                 consumed>>

-------------------------------------------------------------------------------
\* read_at_least(min) up to its wait, or to the look at the token after it.
\* On a pending read or a completed reader it throws and changes nothing.
read_at_least(min) ==
  /\ pc["reader"] = "idle" /\ m_mutex = {}
  /\ ~m_has_pending_read /\ ~m_reader_completed
  /\ min_size' = min
  /\ IF data_available_predicate(min) \/ stop["reader"]
     THEN /\ m_mutex' = {"reader"} /\ Goto("reader", "read_finish")
          /\ UNCHANGED <<m_reader_waiting, m_data_available>>
     ELSE /\ m_reader_waiting' = TRUE
          /\ m_data_available' = {"reader"} /\ Goto("reader", "read_wait")
          /\ UNCHANGED m_mutex
  /\ UNCHANGED <<m_segments, counters, pending, completed, m_writer_paused,
                 m_space_available, data, notify, calls, consumed>>

\* Clears m_reader_waiting even when the wait goes on.
ReadWaitReturns_ClearsFlag ==
  /\ pc["reader"] = "read_wait" /\ "reader" \notin m_data_available
  /\ m_mutex = {}
  /\ m_reader_waiting' = FALSE
  /\ IF data_available_predicate(min_size) \/ stop["reader"]
     THEN /\ m_mutex' = {"reader"} /\ Goto("reader", "read_finish")
          /\ UNCHANGED m_data_available
     ELSE m_data_available' = {"reader"} /\ UNCHANGED <<m_mutex, pc>>
  /\ UNCHANGED <<m_segments, counters, pending, completed, m_writer_paused,
                 m_space_available, locals, calls, consumed>>

\* The reader, off m_data_available, has the mutex again.
ReadWaitReturns ==
  /\ pc["reader"] = "read_wait" /\ "reader" \notin m_data_available
  /\ m_mutex = {}
  /\ IF data_available_predicate(min_size) \/ stop["reader"]
     THEN /\ m_reader_waiting' = FALSE
          /\ m_mutex' = {"reader"} /\ Goto("reader", "read_finish")
          /\ UNCHANGED m_data_available
     ELSE /\ m_data_available' = {"reader"}
          /\ UNCHANGED <<m_reader_waiting, m_mutex, pc>>
  /\ UNCHANGED <<m_segments, counters, pending, completed, m_writer_paused,
                 m_space_available, locals, calls, consumed>>

\* The rest of read_at_least: cancelled, or a view of all readable bytes.
ReadFinish ==
  /\ pc["reader"] = "read_finish"
  /\ m_mutex' = {}
  /\ IF stop["reader"]
     THEN Return("reader", "cancelled") /\ UNCHANGED pending
     ELSE /\ Return("reader", IF m_writer_completed THEN "completed" ELSE "data")
          /\ m_has_pending_read' = TRUE
          /\ m_pending_read_size' = Len(Buffered)
  /\ UNCHANGED <<m_segments, counters, m_reader_waiting, completed,
                 m_writer_paused, sleepers, locals, consumed>>

\* readableBefore(i): the readable bytes of the first i segments.
readableBefore(i) ==
  Len(FlattenSeq([j \in 1..i |-> m_segments[j].bytes]))

\* The segments advance pops while it consumes c bytes, and those it leaves,
\* the first of them without the bytes consumed from it.
Popped(c) ==
  Cardinality({i \in DOMAIN m_segments :
                 readableBefore(i - 1) < c /\ readableBefore(i) <= c})

\* Leaves the consumed bytes in a segment that is not used up.
Left_Untrimmed(c) == SubSeq(m_segments, Popped(c) + 1, Len(m_segments))

Left(c) ==
  LET p == Popped(c)
      rest == SubSeq(m_segments, p + 1, Len(m_segments))
      used == c - readableBefore(p)
  IN IF used = 0 THEN rest
     ELSE [rest EXCEPT ![1].bytes = SubSeq(@, used + 1, Len(@))]

\* advance(c, e), with offsets of the pending view.  (With any other offsets,
\* without a pending read or after completion it throws and changes nothing.)
advance(c, e) ==
  /\ pc["reader"] = "idle" /\ m_mutex = {}
  /\ ~m_reader_completed /\ m_has_pending_read
  /\ c <= e /\ e <= m_pending_read_size
  /\ LET actual == m_actual_buffered_size - BufferSize * Popped(c)
         resume == m_writer_paused /\ should_resume_writer(actual)
     IN /\ m_segments' = Left(c)
        /\ m_buffered_size' = m_buffered_size - c
        /\ m_actual_buffered_size' = actual
        /\ m_writer_paused' = (m_writer_paused /\ ~resume)
        /\ Goto("reader", IF resume THEN "advance_notify" ELSE "idle")
  /\ consumed' = consumed \o SubSeq(Buffered, 1, c)
  /\ m_examined_size' = e - c
  /\ m_pending_read_size' = 0 /\ m_has_pending_read' = FALSE
  /\ UNCHANGED <<m_reader_waiting, completed, m_mutex, sleepers, locals, calls>>

\* Notifies the wrong condition variable.
AdvanceNotify_WrongCondition ==
  /\ pc["reader"] = "advance_notify"
  /\ m_data_available' = {}
  /\ Goto("reader", "idle")
  /\ UNCHANGED <<m_segments, counters, pending, m_reader_waiting, completed,
                 m_writer_paused, m_mutex, m_space_available, locals, calls,
                 consumed>>

\* notify_one after advance.  Only the writer sleeps on m_space_available.
AdvanceNotify ==
  /\ pc["reader"] = "advance_notify"
  /\ m_space_available' = {}
  /\ Goto("reader", "idle")
  /\ UNCHANGED <<m_segments, counters, pending, m_reader_waiting, completed,
                 m_writer_paused, m_mutex, m_data_available, locals, calls,
                 consumed>>

-------------------------------------------------------------------------------
\* complete_writer: flags under the mutex, then notify_all twice.
complete_writer(t) ==
  /\ t \in WriterCompleters
  /\ pc[t] = "idle" /\ m_mutex = {}
  /\ m_writer_paused' = FALSE /\ m_writer_completed' = TRUE
  /\ Goto(t, "writer_completed")
  /\ UNCHANGED <<m_segments, counters, pending, m_reader_waiting,
                 m_reader_completed, m_mutex, sleepers, locals, calls, consumed>>

\* complete_reader forgets the sizes but keeps the segments.
complete_reader(t) ==
  /\ t \in ReaderCompleters
  /\ pc[t] = "idle" /\ m_mutex = {}
  /\ m_reader_completed' = TRUE /\ m_has_pending_read' = FALSE
  /\ m_writer_paused' = FALSE /\ m_pending_read_size' = 0
  /\ m_buffered_size' = 0 /\ m_actual_buffered_size' = 0 /\ m_examined_size' = 0
  /\ Goto(t, "reader_completed")
  /\ UNCHANGED <<m_segments, m_reader_waiting, m_writer_completed, m_mutex,
                 sleepers, locals, calls, consumed>>

\* The two notify_all of a completion, in the order of each function.
CompleteNotify(t) ==
  /\ \/ /\ pc[t] \in {"writer_completed", "reader_completed_2"}
        /\ m_data_available' = {} /\ UNCHANGED m_space_available
     \/ /\ pc[t] \in {"writer_completed_2", "reader_completed"}
        /\ m_space_available' = {} /\ UNCHANGED m_data_available
  /\ Goto(t, CASE pc[t] = "writer_completed" -> "writer_completed_2"
              [] pc[t] = "reader_completed" -> "reader_completed_2"
              [] OTHER -> "idle")
  /\ UNCHANGED <<m_segments, counters, pending, m_reader_waiting, completed,
                 m_writer_paused, m_mutex, locals, calls, consumed>>

\* Somebody stops the token of t's call.  A wait still in progress has a
\* callback registered that notifies its condition variable.
RequestStop(t) ==
  /\ t \in Cancellable /\ ~stop[t]
  /\ stop' = [stop EXCEPT ![t] = TRUE]
  /\ m_data_available' = IF t = "reader" THEN {} ELSE m_data_available
  /\ m_space_available' = IF t = "writer" THEN {} ELSE m_space_available
  /\ UNCHANGED <<m_segments, counters, pending, m_reader_waiting, completed,
                 m_writer_paused, m_mutex, pc, locals, result, consumed>>

\* A condition variable may release a thread nobody notified.
SpuriousWakeup(t) ==
  /\ t \in m_data_available \union m_space_available
  /\ m_data_available' = m_data_available \ {t}
  /\ m_space_available' = m_space_available \ {t}
  /\ UNCHANGED <<m_segments, counters, pending, m_reader_waiting, completed,
                 m_writer_paused, m_mutex, pc, locals, calls, consumed>>

-------------------------------------------------------------------------------
\* What a thread inside a call does, when it needs the mutex and when not.
Relock(t) ==
  \/ t = "writer" /\ (WriteLock \/ WriteWaitReturns)
  \/ t = "reader" /\ ReadWaitReturns

Continue(t) ==
  \/ t = "writer" /\ (WriteLoop \/ WriteNotify)
  \/ t = "reader" /\ (ReadFinish \/ AdvanceNotify)
  \/ CompleteNotify(t)

Next ==
  \/ \E n \in WriteSizes : write(n)
  \/ \E min \in MinSizes : read_at_least(min)
  \/ \E e \in 0..m_pending_read_size : \E c \in 0..e : advance(c, e)
  \/ \E t \in Threads : complete_writer(t) \/ complete_reader(t)
  \/ \E t \in Threads : Relock(t) \/ Continue(t)
  \/ \E t \in Threads : RequestStop(t) \/ SpuriousWakeup(t)

Spec == Init /\ [][Next]_vars

\* A thread inside a call keeps running, and one that competes for the mutex
\* forever gets it.  Nobody is obliged to make a call, to complete an endpoint
\* or to stop a token.
Fairness ==
  \A t \in Threads : WF_vars(Continue(t)) /\ SF_vars(Relock(t))

FairSpec == Spec /\ Fairness

-------------------------------------------------------------------------------
(* Properties *)

Writing == pc["writer"] \in {"write_lock", "write_wait", "write_loop", "write_notify"}
Reading == pc["reader"] \in {"read_wait", "read_finish"}

\* The fields have their declared types; a size never goes below zero, where
\* std::size_t would wrap around; only a thread inside a wait is asleep.
TypeOK ==
  /\ m_segments \in Seq([bytes : Seq(Nat), free : Nat])
  /\ m_buffered_size \in Nat /\ m_actual_buffered_size \in Nat
  /\ m_examined_size \in Nat /\ m_pending_read_size \in Nat
  /\ m_reader_waiting \in BOOLEAN /\ m_has_pending_read \in BOOLEAN
  /\ m_writer_completed \in BOOLEAN /\ m_reader_completed \in BOOLEAN
  /\ m_writer_paused \in BOOLEAN
  /\ m_mutex \in {{}, {"writer"}, {"reader"}}
  /\ "writer" \in m_mutex <=> pc["writer"] = "write_loop"
  /\ "reader" \in m_mutex <=> pc["reader"] = "read_finish"
  /\ m_data_available \subseteq {t \in {"reader"} : pc[t] = "read_wait"}
  /\ m_space_available \subseteq {t \in {"writer"} : pc[t] = "write_wait"}
  /\ pc \in [Threads -> PCs]
  /\ data \in Nat /\ notify \in BOOLEAN /\ min_size \in Nat
  /\ stop \in [Threads -> BOOLEAN] /\ result \in [Threads -> Outcomes]
  /\ consumed \in Seq(Nat)

\* Until the reader completes, the three counters that write, read_at_least
\* and advance maintain separately agree with the segments: m_buffered_size
\* with the readable bytes, m_actual_buffered_size with the storage held,
\* m_examined_size and m_pending_read_size with a prefix of those bytes.  Each
\* segment has something to read and fits its buffer; only the last can grow.
Accounting ==
  ~m_reader_completed =>
    /\ m_buffered_size = Len(Buffered)
    /\ m_actual_buffered_size = BufferSize * Len(m_segments)
    /\ m_examined_size <= m_buffered_size
    /\ m_pending_read_size <= m_buffered_size
    /\ \A i \in DOMAIN m_segments :
         /\ Len(m_segments[i].bytes) \in 1..(BufferSize - m_segments[i].free)
         /\ m_segments[i].free > 0 => i = Len(m_segments)

\* No byte is lost, duplicated or reordered between write and advance, whatever
\* is cancelled and however the writes and reads are cut across segments.
StreamIntact == \A i \in 1..Committed : (consumed \o Buffered)[i] = i

\* pipeline::validate_options
max_pooled_segments ==
  PauseThreshold \div BufferSize + (IF PauseThreshold % BufferSize # 0 THEN 1 ELSE 0)

\* Backpressure bounds the storage: the segments held never exceed the number
\* of buffers that the pool of the pipeline was made for, even though the
\* writer checks its capacity before it allocates and pauses after it.
StorageBounded == Len(m_segments) <= max_pooled_segments

\* advance un-pauses the writer under the mutex and notifies it afterwards, as
\* the completions do: a writer asleep while it is not paused has a
\* notification on its way, whatever is cancelled.
WriterNotForgotten ==
  m_space_available # {} /\ ~m_writer_paused =>
    \E t \in Threads : pc[t] \in {"advance_notify", "writer_completed",
                                 "writer_completed_2", "reader_completed"}

\* A reader asleep although it could read has a notification on its way, unless
\* the last write to return was cancelled: what that one had appended before it
\* looked at its token may go unnotified until the next write returns.
ReaderNotForgotten ==
  m_data_available # {} /\ data_available_predicate(min_size) =>
    \/ notify \/ result["writer"] = "cancelled"
    \/ \E t \in Threads : pc[t] = "writer_completed"

\* A snapshot that read returned stays as it was, byte for byte and in place,
\* while the writer goes on, until the reader advances past it or completes.
SnapshotStable ==
  [][m_has_pending_read /\ m_has_pending_read' =>
       SubSeq(Buffered', 1, m_pending_read_size)
         = SubSeq(Buffered, 1, m_pending_read_size)]_vars

\* Nothing is on its way to anybody: every thread is asleep or outside a call.
Quiescent ==
  \A t \in Threads : pc[t] = "idle" \/ t \in m_data_available \union m_space_available

\* pipeline.md:918 "It resumes at: buffered_size <= resume_writer_threshold":
\* no writer sleeps forever, paused, with that little buffered.
ResumesBelowThreshold ==
  Quiescent /\ m_space_available # {} => m_buffered_size > ResumeThreshold

\* pipeline.md:240 "cancellation returns the number of bytes already committed":
\* a write whose token is stopped returns.
CancelledWriteReturns == (Writing /\ stop["writer"]) ~> ~Writing

\* pipeline.md:465, of complete() on the reader: it "wakes blocked readers and
\* writers"; and :973, "A writer notifies a waiting reader after appending
\* data".  A read asleep for good has neither data nor a completed reader.
ReaderBlockedForAReason ==
  Quiescent /\ m_data_available # {} =>
    ~m_reader_completed /\ ~data_available_predicate(min_size)
===============================================================================
