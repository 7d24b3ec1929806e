-------------------------------- MODULE Channel --------------------------------
(***************************************************************************)
(* xtd::channel (channel/channel_impl.h): a queue shared by any number of  *)
(* readers and writers, guarded by one mutex, with the condition variables *)
(* m_not_empty and m_not_full.                                             *)
(*                                                                         *)
(* A critical section of m_mutex is one step, except where a wait returns: *)
(* from there the thread holds the mutex for a second step, because stop   *)
(* tokens are not guarded by it and a stop request may come in between.    *)
(* What the code does after releasing the mutex (notify_one, notify_all)   *)
(* is a step of its own, and so is leaving a condition variable, after     *)
(* which the thread competes for the mutex again.                          *)
(***************************************************************************)
EXTENDS Naturals, Sequences, FiniteSets

CONSTANTS Readers, Writers,  \* threads calling the reader, the writer side
          Items,             \* values sent through the channel
          Capacity,          \* m_capacity; 0 is unbounded
          ReadOps,           \* the operations readers call
          Cancellable,       \* threads whose calls carry a stoppable token
          Throwing,          \* threads for which a constructor of T may throw
          MaxSent            \* bound: items accepted in a behaviour

Threads == Readers \union Writers

ASSUME ChannelAssumption ==
  /\ IsFiniteSet(Readers) /\ IsFiniteSet(Writers)
  /\ Capacity \in Nat /\ MaxSent \in Nat
  /\ ReadOps \subseteq {"read", "try_read", "wait_to_read"}
  /\ Cancellable \subseteq Threads /\ Throwing \subseteq Threads

VARIABLES m_queue, m_writer_completed,
          m_mutex,                          \* {t} if t keeps the mutex, else {}
          m_read_waiters, m_write_waiters,  \* the counters
          m_not_empty, m_not_full,          \* threads asleep on each condition
          pc,        \* where each thread is between two steps
          stop,      \* stop[t]: stop_requested() of the token of t's call
          ret,       \* <<thread, operation, outcome>> of the last call that returned
          delivered  \* history: the items removed, in order of removal

vars == <<m_queue, m_writer_completed, m_mutex, m_read_waiters, m_write_waiters,
          m_not_empty, m_not_full, pc, stop, ret, delivered>>

conditions == <<m_mutex, m_read_waiters, m_write_waiters, m_not_empty, m_not_full>>

\* The program counters of a thread inside one of the two waits, and of one
\* that has released the mutex with a notification still to issue.
ReadWaits == {"read", "wait_to_read"}
PCs == {"idle", "emplace", "notify_not_empty", "notify_not_full",
        "complete_not_empty", "complete_not_full"} \union ReadWaits

\* The operations, and how they end.
Calls == {"emplace", "try_emplace", "read", "try_read", "wait_to_read"}
Outcomes == {"ok", "false", "empty", "cancelled", "threw"}

\* channel::full
full == Capacity > 0 /\ Len(m_queue) >= Capacity

\* Faulty variants stand before the definition they vary.
\* A predicate that forgets completion.
can_read_predicate_Uncompleted == m_queue # <<>>

can_read_predicate == m_writer_completed \/ m_queue # <<>>

\* A predicate that forgets completion.
can_write_predicate_Uncompleted == ~full

can_write_predicate == m_writer_completed \/ ~full

Init ==
  /\ m_queue = <<>> /\ m_writer_completed = FALSE
  /\ m_mutex = {}
  /\ m_read_waiters = 0 /\ m_write_waiters = 0
  /\ m_not_empty = {} /\ m_not_full = {}
  /\ pc = [t \in Threads |-> "idle"]
  /\ stop = [t \in Threads |-> FALSE]
  /\ ret = <<>>
  /\ delivered = <<>>

-------------------------------------------------------------------------------
\* The call of t returns; its next call is given a token of its own.
Return(t, op, outcome, next) ==
  /\ pc' = [pc EXCEPT ![t] = next]
  /\ ret' = <<t, op, outcome>>
  /\ stop' = IF op \in {"try_emplace", "try_read"} THEN stop
             ELSE [stop EXCEPT ![t] = FALSE]

\* Notifies only when the queue was empty.
Enqueue_NotifiesFirst(t, op, v) ==
  /\ m_queue' = Append(m_queue, v)
  /\ Return(t, op, "ok", IF m_read_waiters # 0 /\ m_queue = <<>>
                         THEN "notify_not_empty" ELSE "idle")

\* emplace once the item fits: it is constructed in the queue, and whether to
\* notify a reader is decided before the mutex is released.
Enqueue(t, op, v) ==
  \/ /\ m_queue' = Append(m_queue, v)
     /\ Return(t, op, "ok", IF m_read_waiters # 0 THEN "notify_not_empty"
                            ELSE "idle")
  \/ /\ t \in Throwing
     /\ Return(t, op, "threw", "idle")
     /\ UNCHANGED m_queue

\* What emplace(WAIT) does after the wait, or when it need not wait.
AfterWaitToWrite(t, v) ==
  LET writable == ~stop[t] /\ ~m_writer_completed /\ ~full IN
  /\ \/ writable /\ Enqueue(t, "emplace", v)
     \/ ~writable /\ Return(t, "emplace", "false", "idle") /\ UNCHANGED m_queue
  /\ UNCHANGED <<m_writer_completed, delivered>>

\* The bound on the items accepted counts the blocked writers' items.
BelowMaxSent ==
  Len(delivered) + Len(m_queue) + Cardinality({t \in Threads : pc[t] = "emplace"})
    < MaxSent

\* emplace(stop_token, WAIT, v) up to the wait, or to its end.
emplace(t, v) ==
  /\ pc[t] = "idle" /\ m_mutex = {} /\ BelowMaxSent
  /\ IF ~stop[t] /\ ~m_writer_completed /\ full
     THEN /\ m_write_waiters' = m_write_waiters + 1
          /\ m_not_full' = m_not_full \union {t}
          /\ pc' = [pc EXCEPT ![t] = "emplace"]
          /\ UNCHANGED <<m_queue, m_writer_completed, m_mutex, m_read_waiters,
                         m_not_empty, stop, ret, delivered>>
     ELSE AfterWaitToWrite(t, v) /\ UNCHANGED conditions

\* The writer t, off the condition variable, has the mutex again: its wait
\* returns, or goes on.
WriteWaitReturns(t) ==
  /\ pc[t] = "emplace" /\ t \notin m_not_full /\ m_mutex = {}
  /\ IF can_write_predicate \/ stop[t]
     THEN /\ m_write_waiters' = m_write_waiters - 1
          /\ m_mutex' = {t}
          /\ UNCHANGED m_not_full
     ELSE /\ m_not_full' = m_not_full \union {t}
          /\ UNCHANGED <<m_write_waiters, m_mutex>>
  /\ UNCHANGED <<m_queue, m_writer_completed, m_read_waiters, m_not_empty, pc,
                 stop, ret, delivered>>

\* The rest of t's emplace.  Its item is chosen here because nothing looks at
\* it while the call is blocked.
FinishEmplace(t) ==
  /\ pc[t] = "emplace" /\ m_mutex = {t}
  /\ m_mutex' = {}
  /\ \E v \in Items : AfterWaitToWrite(t, v)
  /\ UNCHANGED <<m_read_waiters, m_write_waiters, m_not_empty, m_not_full>>

\* emplace(TRY, v): no token, no wait.
try_emplace(t, v) ==
  /\ pc[t] = "idle" /\ m_mutex = {} /\ BelowMaxSent
  /\ IF m_writer_completed \/ full
     THEN Return(t, "try_emplace", "false", "idle") /\ UNCHANGED m_queue
     ELSE Enqueue(t, "try_emplace", v)
  /\ UNCHANGED <<m_writer_completed, conditions, delivered>>

-------------------------------------------------------------------------------
\* Pops the front before a move that may throw.
Dequeue_PopsFirst(t, op) ==
  \/ /\ m_queue' = Tail(m_queue)
     /\ delivered' = Append(delivered, Head(m_queue))
     /\ Return(t, op, "ok", IF m_write_waiters # 0 THEN "notify_not_full"
                            ELSE "idle")
  \/ /\ t \in Throwing
     /\ Return(t, op, "threw", "idle")
     /\ m_queue' = Tail(m_queue) /\ UNCHANGED delivered

\* read once an item is there: the front is moved out, then popped.
Dequeue(t, op) ==
  \/ /\ m_queue' = Tail(m_queue)
     /\ delivered' = Append(delivered, Head(m_queue))
     /\ Return(t, op, "ok", IF m_write_waiters # 0 THEN "notify_not_full"
                            ELSE "idle")
  \/ /\ t \in Throwing
     /\ Return(t, op, "threw", "idle")
     /\ UNCHANGED <<m_queue, delivered>>

\* What internal_wait_to_read and its caller (read or wait_to_read) do after
\* the wait, or when there is no need to wait.
AfterWaitToRead(t, op) ==
  /\ \/ /\ stop[t]
        /\ Return(t, op, "cancelled", "idle")
        /\ UNCHANGED <<m_queue, delivered>>
     \/ /\ ~stop[t] /\ m_queue = <<>>
        /\ Return(t, op, "empty", "idle")
        /\ UNCHANGED <<m_queue, delivered>>
     \/ /\ ~stop[t] /\ m_queue # <<>> /\ op = "wait_to_read"
        /\ Return(t, op, "ok", "idle")
        /\ UNCHANGED <<m_queue, delivered>>
     \/ /\ ~stop[t] /\ m_queue # <<>> /\ op = "read"
        /\ Dequeue(t, op)
  /\ UNCHANGED m_writer_completed

\* read(stop_token, WAIT) and wait_to_read up to the wait, or to their end.
internal_wait_to_read(t, op) ==
  /\ pc[t] = "idle" /\ m_mutex = {} /\ op \in ReadOps
  /\ IF ~stop[t] /\ ~m_writer_completed /\ m_queue = <<>>
     THEN /\ m_read_waiters' = m_read_waiters + 1
          /\ m_not_empty' = m_not_empty \union {t}
          /\ pc' = [pc EXCEPT ![t] = op]
          /\ UNCHANGED <<m_queue, m_writer_completed, m_mutex, m_write_waiters,
                         m_not_full, stop, ret, delivered>>
     ELSE AfterWaitToRead(t, op) /\ UNCHANGED conditions

\* Decrements the counter each time the wait looks at its predicate.
ReadWaitReturns_RecountsEachTime(t) ==
  /\ pc[t] \in ReadWaits /\ t \notin m_not_empty /\ m_mutex = {}
  /\ m_read_waiters' = m_read_waiters - 1
  /\ IF can_read_predicate \/ stop[t]
     THEN m_mutex' = {t} /\ UNCHANGED m_not_empty
     ELSE m_not_empty' = m_not_empty \union {t} /\ UNCHANGED m_mutex
  /\ UNCHANGED <<m_queue, m_writer_completed, m_write_waiters, m_not_full, pc,
                 stop, ret, delivered>>

\* A wait without a predicate, which any wakeup ends.
ReadWaitReturns_AnyWakeup(t) ==
  /\ pc[t] \in ReadWaits /\ t \notin m_not_empty /\ m_mutex = {}
  /\ m_read_waiters' = m_read_waiters - 1
  /\ m_mutex' = {t}
  /\ UNCHANGED <<m_queue, m_writer_completed, m_write_waiters, m_not_empty,
                 m_not_full, pc, stop, ret, delivered>>

\* The reader t, off the condition variable, has the mutex again: its wait
\* returns, or goes on.
ReadWaitReturns(t) ==
  /\ pc[t] \in ReadWaits /\ t \notin m_not_empty /\ m_mutex = {}
  /\ IF can_read_predicate \/ stop[t]
     THEN /\ m_read_waiters' = m_read_waiters - 1
          /\ m_mutex' = {t}
          /\ UNCHANGED m_not_empty
     ELSE /\ m_not_empty' = m_not_empty \union {t}
          /\ UNCHANGED <<m_read_waiters, m_mutex>>
  /\ UNCHANGED <<m_queue, m_writer_completed, m_write_waiters, m_not_full, pc,
                 stop, ret, delivered>>

\* The rest of t's read or wait_to_read.
FinishRead(t) ==
  /\ pc[t] \in ReadWaits /\ m_mutex = {t}
  /\ m_mutex' = {}
  /\ AfterWaitToRead(t, pc[t])
  /\ UNCHANGED <<m_read_waiters, m_write_waiters, m_not_empty, m_not_full>>

\* read(TRY)
try_read(t) ==
  /\ pc[t] = "idle" /\ m_mutex = {} /\ "try_read" \in ReadOps
  /\ IF m_queue = <<>>
     THEN Return(t, "try_read", "empty", "idle") /\ UNCHANGED <<m_queue, delivered>>
     ELSE Dequeue(t, "try_read")
  /\ UNCHANGED <<m_writer_completed, conditions>>

-------------------------------------------------------------------------------
\* complete_writer: the flag under the mutex; the notifications follow it.
complete_writer(t) ==
  /\ pc[t] = "idle" /\ m_mutex = {}
  /\ m_writer_completed' = TRUE
  /\ pc' = [pc EXCEPT ![t] = "complete_not_empty"]
  /\ UNCHANGED <<m_queue, conditions, stop, ret, delivered>>

\* notify_one takes some thread, if there is one, off a condition variable.
NotifyOne(cv, cvNext) ==
  IF cv = {} THEN cvNext = {} ELSE \E w \in cv : cvNext = cv \ {w}

\* The notifications issued with the mutex released.
Notify(t) ==
  /\ \/ /\ pc[t] = "notify_not_empty"
        /\ NotifyOne(m_not_empty, m_not_empty') /\ UNCHANGED m_not_full
        /\ pc' = [pc EXCEPT ![t] = "idle"]
     \/ /\ pc[t] = "notify_not_full"
        /\ NotifyOne(m_not_full, m_not_full') /\ UNCHANGED m_not_empty
        /\ pc' = [pc EXCEPT ![t] = "idle"]
     \/ /\ pc[t] = "complete_not_empty"
        /\ m_not_empty' = {} /\ UNCHANGED m_not_full
        /\ pc' = [pc EXCEPT ![t] = "complete_not_full"]
     \/ /\ pc[t] = "complete_not_full"
        /\ m_not_full' = {} /\ UNCHANGED m_not_empty
        /\ pc' = [pc EXCEPT ![t] = "idle"]
  /\ UNCHANGED <<m_queue, m_writer_completed, m_mutex, m_read_waiters,
                 m_write_waiters, stop, ret, delivered>>

\* A wait that is not given the token.
RequestStop_WakesNobody(t) ==
  /\ t \in Cancellable /\ ~stop[t]
  /\ stop' = [stop EXCEPT ![t] = TRUE]
  /\ UNCHANGED <<m_queue, m_writer_completed, conditions, pc, ret, delivered>>

\* Somebody stops the token of t's call, be it blocked, about to be made or
\* about to return.  The callback that a blocked call registered for this is
\* notify_all; it is gone once the wait has returned.
RequestStop(t) ==
  /\ t \in Cancellable /\ ~stop[t]
  /\ stop' = [stop EXCEPT ![t] = TRUE]
  /\ m_not_empty' = IF pc[t] \in ReadWaits /\ t \notin m_mutex THEN {}
                    ELSE m_not_empty
  /\ m_not_full' = IF pc[t] = "emplace" /\ t \notin m_mutex THEN {} ELSE m_not_full
  /\ UNCHANGED <<m_queue, m_writer_completed, m_mutex, m_read_waiters,
                 m_write_waiters, pc, ret, delivered>>

\* A condition variable may release a thread nobody notified.
SpuriousWakeup(t) ==
  /\ t \in m_not_empty \union m_not_full
  /\ m_not_empty' = m_not_empty \ {t}
  /\ m_not_full' = m_not_full \ {t}
  /\ UNCHANGED <<m_queue, m_writer_completed, m_mutex, m_read_waiters,
                 m_write_waiters, pc, stop, ret, delivered>>

-------------------------------------------------------------------------------
WriterCall(t) ==
  \/ \E v \in Items : emplace(t, v) \/ try_emplace(t, v)
  \/ complete_writer(t)

ReaderCall(t) ==
  \/ \E op \in ReadWaits : internal_wait_to_read(t, op)
  \/ try_read(t)

\* A thread inside a call takes the mutex, and does what needs no mutex or one
\* it has already.
Relock(t) == WriteWaitReturns(t) \/ ReadWaitReturns(t)
Continue(t) == FinishEmplace(t) \/ FinishRead(t) \/ Notify(t)

Next ==
  \/ \E t \in Writers : WriterCall(t)
  \/ \E t \in Readers : ReaderCall(t)
  \/ \E t \in Threads : Relock(t) \/ Continue(t)
  \/ \E t \in Threads : RequestStop(t) \/ SpuriousWakeup(t)

Spec == Init /\ [][Next]_vars

\* A thread inside a call keeps running, and one that competes for the mutex
\* forever gets it.  Nobody is obliged to make a call, to stop a token or to
\* wake up spuriously.
Fairness ==
  \A t \in Threads : WF_vars(Continue(t)) /\ SF_vars(Relock(t))

FairSpec == Spec /\ Fairness
-------------------------------------------------------------------------------
(* Properties *)

\* The threads inside an operation that had to wait.
BlockedReads == {t \in Threads : pc[t] \in ReadWaits}
BlockedWrites == {t \in Threads : pc[t] = "emplace"}

\* The fields have the types channel_impl.h declares, and only a thread inside
\* the wait of a read or of an emplace sleeps on m_not_empty or m_not_full;
\* a thread keeps the mutex from one step to the next only out of such a wait,
\* readers and writers being inside the waits of their own side.
TypeOK ==
  /\ m_queue \in Seq(Items) /\ delivered \in Seq(Items)
  /\ m_writer_completed \in BOOLEAN
  /\ m_read_waiters \in Nat /\ m_write_waiters \in Nat
  /\ pc \in [Threads -> PCs]
  /\ stop \in [Threads -> BOOLEAN]
  /\ ret = <<>> \/ ret \in Threads \X Calls \X Outcomes
  /\ m_mutex = {} \/ \E t \in BlockedReads \union BlockedWrites : m_mutex = {t}
  /\ m_not_empty \subseteq BlockedReads \ m_mutex
  /\ m_not_full \subseteq BlockedWrites \ m_mutex
  /\ BlockedReads \subseteq Readers /\ BlockedWrites \subseteq Writers

\* m_read_waiters and m_write_waiters, by which emplace and read decide whether
\* to notify at all, count the blocked calls exactly, however these end
\* (item, completion, cancellation, exception, spurious wakeup).
WaiterCounts ==
  /\ m_read_waiters = Cardinality(BlockedReads \ m_mutex)
  /\ m_write_waiters = Cardinality(BlockedWrites \ m_mutex)

\* What ended a wait still holds when the call goes on: a woken call that has
\* the mutex finds an item (room), the channel completed, or its token stopped,
\* so that a blocking call never comes back empty-handed for no reason.
WaitHonoured ==
  /\ \A t \in BlockedReads : m_mutex = {t} => can_read_predicate \/ stop[t]
  /\ \A t \in BlockedWrites : m_mutex = {t} => can_write_predicate \/ stop[t]

\* complete_writer notifies after it has released the mutex, yet no call stays
\* asleep on a completed channel without a notify_all still on its way to it.
CompletionReachesAll ==
  m_writer_completed =>
    /\ m_not_empty # {} => \E t \in Threads : pc[t] = "complete_not_empty"
    /\ m_not_full # {} =>
         \E t \in Threads : pc[t] \in {"complete_not_empty", "complete_not_full"}

\* A call whose token is stopped never falls asleep again: whatever wakes it or
\* lets it in, it looks at the token before it waits.
StoppedStaysAwake ==
  \A t \in m_not_empty \union m_not_full : ~stop[t]

\* The threads that will look at the queue, or wake one that will, because of
\* an item (because of room for one).
ReadWakeups ==
  {t \in Threads : pc[t] = "notify_not_empty"} \union (BlockedReads \ m_not_empty)
WriteWakeups ==
  {t \in Threads : pc[t] = "notify_not_full"} \union (BlockedWrites \ m_not_full)

\* One notify_one per item is enough: as long as a read sleeps, every queued
\* item has a notification on its way or a woken read of its own; as long as an
\* emplace sleeps on an open channel, so has every free slot.  The code
\* guarantees this only when every woken call takes an item or a slot, which one
\* that is cancelled, that throws, or that is a wait_to_read does not.
NoLostWakeup ==
  /\ m_not_empty # {} => Len(m_queue) <= Cardinality(ReadWakeups)
  /\ m_not_full # {} /\ ~m_writer_completed =>
       Capacity - Len(m_queue) <= Cardinality(WriteWakeups)

\* When every thread is asleep or outside the channel, a call still blocked has
\* a reason to be: a read waits "while the queue is empty and the writer is not
\* completed" (channel.md:396), an emplace while there is no room.
BlockedForAReason ==
  (\A t \in Threads : pc[t] = "idle" \/ t \in m_not_empty \union m_not_full)
    => /\ m_not_empty # {} => m_queue = <<>> /\ ~m_writer_completed
       /\ m_not_full # {} => full /\ ~m_writer_completed

\* complete() releases every blocked call, and none blocks afterwards.
CompletionReleases ==
  m_writer_completed ~>
    [](\A t \in Threads : pc[t] \notin ReadWaits \union {"emplace"})

\* No call sleeps on, next to what it waits for: items queued while a read
\* sleeps are taken, or the read wakes up, and so for room and emplace.  Like
\* NoLostWakeup, this needs every woken call to take what it was woken for.
SleepersServed ==
  /\ m_not_empty # {} /\ m_queue # <<>> ~> m_not_empty = {} \/ m_queue = <<>>
  /\ m_not_full # {} /\ ~full ~> m_not_full = {} \/ full

\* The channel keeps the promise of FifoChannel: every accepted item is handed
\* out once and in order, none is lost to a cancelled or throwing call, the
\* capacity is respected, and each returned value means what it says.
Promised == INSTANCE FifoChannel WITH
  sent <- delivered \o m_queue, received <- delivered,
  closed <- m_writer_completed

KeepsPromise == Promised!Spec
===============================================================================
