----------------------------- MODULE ChannelProofs -----------------------------
(***************************************************************************)
(* Proofs about Channel, for any sets of readers, writers and items, any   *)
(* capacity and any choice of cancellable and throwing threads.            *)
(***************************************************************************)
EXTENDS Channel, FiniteSetTheorems, SequenceTheorems, TLAPS

\* What every step preserves: the counters stay natural numbers only because
\* they count the blocked calls, and a call ends as promised only because what
\* ended its wait still holds.
Inductive == TypeOK /\ WaiterCounts /\ WaitHonoured

\* Any set of threads is finite, and so has a cardinality that grows and
\* shrinks by one.
LEMMA ThreadSets ==
  ASSUME NEW S \in SUBSET Threads, NEW t \in Threads
  PROVE  /\ IsFiniteSet(S) /\ Cardinality(S) \in Nat
         /\ t \notin S => Cardinality(S \union {t}) = Cardinality(S) + 1
         /\ t \in S => Cardinality(S \ {t}) = Cardinality(S) - 1
         /\ Cardinality(S) = 0 <=> S = {}
         /\ \A T \in SUBSET S : Cardinality(T) <= Cardinality(S)
<1>1. IsFiniteSet(Threads)
  BY ChannelAssumption, FS_Union, Zenon DEF Threads
<1>2. IsFiniteSet(S)
  BY <1>1, FS_Subset
<1>3. Cardinality(S) \in Nat
  BY <1>2, FS_CardinalityType
<1>4. t \notin S => Cardinality(S \union {t}) = Cardinality(S) + 1
  BY <1>2, FS_AddElement
<1>5. t \in S => Cardinality(S \ {t}) = Cardinality(S) - 1
  BY <1>2, FS_RemoveElement
<1>6. Cardinality(S) = 0 <=> S = {}
  BY <1>2, FS_EmptySet
<1>7. \A T \in SUBSET S : Cardinality(T) <= Cardinality(S)
  BY <1>2, FS_Subset
<1> QED
  BY <1>2, <1>3, <1>4, <1>5, <1>6, <1>7

\* How the sets of blocked calls follow the program counter of one thread.
LEMMA BlockedSets ==
  ASSUME pc \in [Threads -> PCs], NEW t \in Threads, NEW next \in PCs,
         pc' = [pc EXCEPT ![t] = next]
  PROVE  /\ pc' \in [Threads -> PCs]
         /\ BlockedReads' = IF next \in ReadWaits THEN BlockedReads \union {t}
                            ELSE BlockedReads \ {t}
         /\ BlockedWrites' = IF next = "emplace" THEN BlockedWrites \union {t}
                             ELSE BlockedWrites \ {t}
BY DEF BlockedReads, BlockedWrites, ReadWaits, PCs

\* A channel just constructed satisfies it.
LEMMA InitInductive == Init => Inductive
<1> SUFFICES ASSUME Init PROVE Inductive
  OBVIOUS
<1>1. BlockedReads = {} /\ BlockedWrites = {}
  BY DEF Init, BlockedReads, BlockedWrites, ReadWaits
<1>2. TypeOK
  <2>1. pc \in [Threads -> PCs] /\ stop \in [Threads -> BOOLEAN]
    BY DEF Init, PCs
  <2>2. m_queue \in Seq(Items) /\ delivered \in Seq(Items)
    BY DEF Init
  <2> QED
    BY <1>1, <2>1, <2>2, Zenon DEF Init, TypeOK
<1>3. WaiterCounts
  BY <1>1, FS_EmptySet DEF Init, WaiterCounts
<1> QED
  BY <1>1, <1>2, <1>3 DEF Inductive, WaitHonoured
-------------------------------------------------------------------------------
\* The label at which a call that returns leaves its thread.
Released == {"idle", "notify_not_empty", "notify_not_full"}

\* What all the ways to return have in common.
Returns(t) ==
  /\ \E next \in Released : pc' = [pc EXCEPT ![t] = next]
  /\ m_queue' \in Seq(Items) /\ delivered' \in Seq(Items)
  /\ ret' \in Threads \X Calls \X Outcomes
  /\ stop' \in [Threads -> BOOLEAN]
  /\ UNCHANGED m_writer_completed

\* Every call that does not have to wait, or has waited, returns like that.
LEMMA CallReturns ==
  ASSUME TypeOK, NEW t \in Threads
  PROVE  /\ \A v \in Items : AfterWaitToWrite(t, v) \/ try_emplace(t, v) => Returns(t)
         /\ \A op \in ReadWaits : AfterWaitToRead(t, op) => Returns(t)
         /\ try_read(t) => Returns(t)
<1> DEFINE Kept == m_queue' \in Seq(Items) /\ delivered' \in Seq(Items)
<1>1. ASSUME NEW op \in Calls, NEW outcome \in Outcomes, NEW next \in Released,
             Return(t, op, outcome, next), Kept, UNCHANGED m_writer_completed
      PROVE  Returns(t)
  BY <1>1, Zenon DEF Return, Returns, TypeOK
<1>2. ASSUME NEW op \in Calls, NEW v \in Items, Enqueue(t, op, v),
             UNCHANGED <<m_writer_completed, delivered>>
      PROVE  Returns(t)
  <2>1. Kept
    BY <1>2 DEF Enqueue, TypeOK
  <2>2. \E outcome \in Outcomes, next \in Released : Return(t, op, outcome, next)
    BY <1>2 DEF Enqueue, Released, Outcomes
  <2> QED
    BY <1>1, <1>2, <2>1, <2>2
<1>3. ASSUME NEW op \in Calls, Dequeue(t, op), m_queue # <<>>,
             UNCHANGED m_writer_completed
      PROVE  Returns(t)
  <2>1. Tail(m_queue) \in Seq(Items) /\ Append(delivered, Head(m_queue)) \in Seq(Items)
    BY <1>3, HeadTailProperties DEF TypeOK
  <2>2. Kept
    BY <1>3, <2>1, Zenon DEF Dequeue, TypeOK
  <2>3. \E outcome \in Outcomes, next \in Released : Return(t, op, outcome, next)
    BY <1>3 DEF Dequeue, Released, Outcomes
  <2> QED
    BY <1>1, <1>3, <2>2, <2>3
<1>4. UNCHANGED <<m_queue, delivered>> => Kept
  BY DEF TypeOK
<1>5. "idle" \in Released /\ ReadWaits \subseteq Calls
  BY DEF Released, ReadWaits, Calls
<1>6. ASSUME NEW v \in Items, AfterWaitToWrite(t, v) PROVE Returns(t)
  BY <1>1, <1>2, <1>4, <1>5, <1>6 DEF AfterWaitToWrite, Calls, Outcomes
<1>7. ASSUME NEW op \in ReadWaits, AfterWaitToRead(t, op) PROVE Returns(t)
  <2>1. CASE /\ \E outcome \in Outcomes : Return(t, op, outcome, "idle")
             /\ UNCHANGED <<m_queue, delivered>>
    BY <1>1, <1>4, <1>5, <1>7, <2>1 DEF AfterWaitToRead
  <2>2. CASE m_queue # <<>> /\ Dequeue(t, op)
    BY <1>3, <1>5, <1>7, <2>2 DEF AfterWaitToRead
  <2> QED
    BY <1>7, <2>1, <2>2 DEF AfterWaitToRead, Outcomes
<1>8. ASSUME NEW v \in Items, try_emplace(t, v) PROVE Returns(t)
  BY <1>1, <1>2, <1>4, <1>5, <1>8 DEF try_emplace, Calls, Outcomes
<1>9. try_read(t) => Returns(t)
  BY <1>1, <1>3, <1>4, <1>5 DEF try_read, Calls, Outcomes
<1> QED
  BY <1>6, <1>7, <1>8, <1>9

\* A call that returns without having waited changes no set of blocked calls.
LEMMA ReturnsAtOnce ==
  ASSUME Inductive, NEW t \in Threads, pc[t] = "idle", m_mutex = {},
         Returns(t), UNCHANGED conditions
  PROVE  Inductive'
<1>1. PICK next \in Released : pc' = [pc EXCEPT ![t] = next]
  BY Zenon DEF Returns
<1>2. /\ pc' \in [Threads -> PCs]
      /\ BlockedReads' = BlockedReads /\ BlockedWrites' = BlockedWrites
  BY <1>1, BlockedSets, Zenon DEF Inductive, TypeOK, Released, PCs, ReadWaits,
     BlockedReads, BlockedWrites
<1>3. TypeOK'
  BY <1>2 DEF Inductive, TypeOK, Returns, conditions
<1>4. WaiterCounts'
  BY <1>2 DEF Inductive, WaiterCounts, conditions
<1>5. WaitHonoured'
  BY DEF WaitHonoured, conditions
<1> QED
  BY <1>3, <1>4, <1>5 DEF Inductive

\* A call that returns after its wait was no longer counted.
LEMMA ReturnsFromWait ==
  ASSUME Inductive, NEW t \in Threads, m_mutex = {t}, m_mutex' = {}, Returns(t),
         UNCHANGED <<m_read_waiters, m_write_waiters, m_not_empty, m_not_full>>
  PROVE  Inductive'
<1>1. PICK next \in Released : pc' = [pc EXCEPT ![t] = next]
  BY Zenon DEF Returns
<1>2. /\ pc' \in [Threads -> PCs]
      /\ BlockedReads' = BlockedReads \ {t} /\ BlockedWrites' = BlockedWrites \ {t}
  BY <1>1, BlockedSets, Zenon DEF Inductive, TypeOK, Released, PCs, ReadWaits
<1>3. TypeOK'
  BY <1>2 DEF Inductive, TypeOK, Returns
<1>4. WaiterCounts'
  <2>1. /\ BlockedReads' \ m_mutex' = BlockedReads \ m_mutex
        /\ BlockedWrites' \ m_mutex' = BlockedWrites \ m_mutex
    BY <1>2
  <2> QED
    BY <2>1 DEF Inductive, WaiterCounts
<1>5. WaitHonoured'
  BY DEF WaitHonoured
<1> QED
  BY <1>3, <1>4, <1>5 DEF Inductive
\* A read that goes to sleep is counted.
LEMMA ReadSleeps ==
  ASSUME Inductive, NEW t \in Readers, NEW op \in ReadWaits,
         pc[t] = "idle", m_mutex = {}, pc' = [pc EXCEPT ![t] = op],
         m_read_waiters' = m_read_waiters + 1,
         m_not_empty' = m_not_empty \union {t},
         UNCHANGED <<m_queue, m_writer_completed, m_mutex, m_write_waiters,
                     m_not_full, stop, ret, delivered>>
  PROVE  Inductive'
<1>1. t \in Threads /\ op \in PCs /\ op # "emplace"
  BY DEF Threads, PCs, ReadWaits
<1>2. /\ pc' \in [Threads -> PCs] /\ t \notin BlockedReads
      /\ BlockedReads' = BlockedReads \union {t} /\ BlockedWrites' = BlockedWrites
  BY <1>1, BlockedSets DEF Inductive, TypeOK, ReadWaits, BlockedReads, BlockedWrites
<1>3. TypeOK'
  BY <1>2 DEF Inductive, TypeOK
<1>4. Cardinality(BlockedReads \union {t}) = Cardinality(BlockedReads) + 1
  BY <1>1, <1>2, ThreadSets DEF BlockedReads
<1>5. WaiterCounts'
  BY <1>2, <1>4 DEF Inductive, WaiterCounts
<1>6. WaitHonoured'
  BY DEF WaitHonoured
<1> QED
  BY <1>3, <1>5, <1>6 DEF Inductive

\* And so is an emplace.
LEMMA WriteSleeps ==
  ASSUME Inductive, NEW t \in Writers,
         pc[t] = "idle", m_mutex = {}, pc' = [pc EXCEPT ![t] = "emplace"],
         m_write_waiters' = m_write_waiters + 1,
         m_not_full' = m_not_full \union {t},
         UNCHANGED <<m_queue, m_writer_completed, m_mutex, m_read_waiters,
                     m_not_empty, stop, ret, delivered>>
  PROVE  Inductive'
<1>1. t \in Threads /\ "emplace" \in PCs /\ "emplace" \notin ReadWaits
  BY DEF Threads, PCs, ReadWaits
<1>2. /\ pc' \in [Threads -> PCs] /\ t \notin BlockedWrites
      /\ BlockedReads' = BlockedReads /\ BlockedWrites' = BlockedWrites \union {t}
  BY <1>1, BlockedSets DEF Inductive, TypeOK, ReadWaits, BlockedReads, BlockedWrites
<1>3. TypeOK'
  BY <1>2 DEF Inductive, TypeOK
<1>4. Cardinality(BlockedWrites \union {t}) = Cardinality(BlockedWrites) + 1
  BY <1>1, <1>2, ThreadSets DEF BlockedWrites
<1>5. WaiterCounts'
  BY <1>2, <1>4, Zenon DEF Inductive, WaiterCounts
<1>6. WaitHonoured'
  BY DEF WaitHonoured
<1> QED
  BY <1>3, <1>5, <1>6 DEF Inductive

\* A wait that returns is no longer counted; one that goes on still is.
LEMMA RelockInductive ==
  ASSUME Inductive, NEW t \in Threads, Relock(t)
  PROVE  Inductive'
<1>1. /\ UNCHANGED <<pc, m_queue, m_writer_completed, stop, ret, delivered>>
      /\ BlockedReads' = BlockedReads /\ BlockedWrites' = BlockedWrites
      /\ m_mutex = {}
  BY DEF Relock, ReadWaitReturns, WriteWaitReturns, BlockedReads, BlockedWrites
<1>2. t \in BlockedReads => t \notin BlockedWrites
  BY DEF BlockedReads, BlockedWrites, ReadWaits
<1>3. CASE ReadWaitReturns(t)
  <2>1. t \in BlockedReads /\ t \notin m_not_empty
    BY <1>3 DEF ReadWaitReturns, BlockedReads
  <2>2. /\ m_read_waiters = Cardinality(BlockedReads)
        /\ Cardinality(BlockedReads \ {t}) = Cardinality(BlockedReads) - 1
        /\ Cardinality(BlockedReads \ {t}) \in Nat
    BY <1>1, <2>1, ThreadSets DEF Inductive, WaiterCounts, BlockedReads
  <2>3. TypeOK'
    BY <1>1, <1>2, <1>3, <2>1, <2>2 DEF ReadWaitReturns, Inductive, TypeOK
  <2>4. WaiterCounts'
    BY <1>1, <1>2, <1>3, <2>1, <2>2, Zenon DEF ReadWaitReturns, Inductive, WaiterCounts
  <2>5. WaitHonoured'
    BY <1>1, <1>2, <1>3, <2>1 DEF ReadWaitReturns, WaitHonoured, can_read_predicate
  <2> QED
    BY <2>3, <2>4, <2>5 DEF Inductive
<1>4. CASE WriteWaitReturns(t)
  <2>1. t \in BlockedWrites /\ t \notin m_not_full
    BY <1>4 DEF WriteWaitReturns, BlockedWrites
  <2>2. /\ m_write_waiters = Cardinality(BlockedWrites)
        /\ Cardinality(BlockedWrites \ {t}) = Cardinality(BlockedWrites) - 1
        /\ Cardinality(BlockedWrites \ {t}) \in Nat
    BY <1>1, <2>1, ThreadSets DEF Inductive, WaiterCounts, BlockedWrites
  <2>3. TypeOK'
    BY <1>1, <1>2, <1>4, <2>1, <2>2 DEF WriteWaitReturns, Inductive, TypeOK
  <2>4. WaiterCounts'
    BY <1>1, <1>2, <1>4, <2>1, <2>2, Zenon DEF WriteWaitReturns, Inductive, WaiterCounts
  <2>5. can_write_predicate => can_write_predicate'
    BY <1>1 DEF can_write_predicate, full
  <2>6. WaitHonoured'
    BY <1>1, <1>2, <1>4, <2>1, <2>5 DEF WriteWaitReturns, WaitHonoured
  <2> QED
    BY <2>3, <2>4, <2>6 DEF Inductive
<1> QED
  BY <1>3, <1>4 DEF Relock

\* Completion, notifications, stop requests and spurious wakeups block nobody.
LEMMA NotifyInductive ==
  ASSUME Inductive, NEW t \in Threads,
         complete_writer(t) \/ Notify(t) \/ RequestStop(t) \/ SpuriousWakeup(t)
  PROVE  Inductive'
<1>1. /\ UNCHANGED <<m_queue, m_mutex, m_read_waiters, m_write_waiters, ret, delivered>>
      /\ m_writer_completed' \in BOOLEAN
      /\ m_writer_completed => m_writer_completed'
      /\ m_not_empty' \subseteq m_not_empty /\ m_not_full' \subseteq m_not_full
  BY Zenon DEF Inductive, TypeOK, complete_writer, Notify, NotifyOne, RequestStop,
     SpuriousWakeup, conditions
<1>2. stop' \in [Threads -> BOOLEAN] /\ \A u \in Threads : stop[u] => stop'[u]
  BY Zenon DEF Inductive, TypeOK, complete_writer, Notify, RequestStop, SpuriousWakeup
<1>3. /\ pc' \in [Threads -> PCs]
      /\ BlockedReads' = BlockedReads /\ BlockedWrites' = BlockedWrites
  <2>1. CASE UNCHANGED pc
    BY <2>1 DEF Inductive, TypeOK, BlockedReads, BlockedWrites
  <2>2. CASE complete_writer(t) \/ Notify(t)
    <3>1. PICK next \in PCs \ (ReadWaits \union {"emplace"}) :
            pc' = [pc EXCEPT ![t] = next]
      BY <2>2 DEF complete_writer, Notify, PCs, ReadWaits
    <3>2. t \notin BlockedReads /\ t \notin BlockedWrites
      BY <2>2 DEF complete_writer, Notify, BlockedReads, BlockedWrites, ReadWaits
    <3>3. /\ pc' \in [Threads -> PCs]
          /\ BlockedReads' = BlockedReads \ {t}
          /\ BlockedWrites' = BlockedWrites \ {t}
      BY <3>1, BlockedSets, Zenon DEF Inductive, TypeOK
    <3> QED
      BY <3>2, <3>3
  <2> QED
    BY <2>1, <2>2 DEF RequestStop, SpuriousWakeup
<1>4. TypeOK'
  <2>1. \/ m_mutex' = {}
        \/ \E u \in BlockedReads' \union BlockedWrites' : m_mutex' = {u}
    BY <1>1, <1>3 DEF Inductive, TypeOK
  <2> QED
    BY <1>1, <1>2, <1>3, <2>1 DEF Inductive, TypeOK
<1>5. WaiterCounts'
  BY <1>1, <1>3 DEF Inductive, WaiterCounts
<1>6. /\ can_read_predicate => can_read_predicate'
      /\ can_write_predicate => can_write_predicate'
  BY <1>1 DEF can_read_predicate, can_write_predicate, full
<1>7. WaitHonoured'
  <2>1. BlockedReads \subseteq Threads /\ BlockedWrites \subseteq Threads
    BY DEF BlockedReads, BlockedWrites
  <2> QED
    BY <1>1, <1>2, <1>3, <1>6, <2>1 DEF Inductive, WaitHonoured
<1> QED
  BY <1>4, <1>5, <1>7 DEF Inductive

\* Every step of every thread keeps it.
LEMMA NextInductive == Inductive /\ [Next]_vars => Inductive'
<1> SUFFICES ASSUME Inductive, [Next]_vars PROVE Inductive'
  OBVIOUS
<1>1. TypeOK /\ Readers \subseteq Threads /\ Writers \subseteq Threads
  BY DEF Inductive, Threads
<1>2. ASSUME NEW t \in Writers, NEW v \in Items, emplace(t, v) PROVE Inductive'
  <2>1. CASE AfterWaitToWrite(t, v) /\ UNCHANGED conditions
    <3>1. Returns(t)
      BY <1>1, <2>1, CallReturns
    <3> QED
      BY <1>1, <1>2, <2>1, <3>1, ReturnsAtOnce DEF emplace
  <2>2. CASE ~stop[t] /\ ~m_writer_completed /\ full
    BY <1>2, <2>2, WriteSleeps DEF emplace
  <2> QED
    BY <1>2, <2>1, <2>2 DEF emplace
<1>3. ASSUME NEW t \in Writers, NEW v \in Items, try_emplace(t, v) PROVE Inductive'
  <2>1. Returns(t)
    BY <1>1, <1>3, CallReturns
  <2> QED
    BY <1>1, <1>3, <2>1, ReturnsAtOnce DEF try_emplace
<1>4. ASSUME NEW t \in Readers, NEW op \in ReadWaits, internal_wait_to_read(t, op)
      PROVE  Inductive'
  <2>1. CASE AfterWaitToRead(t, op) /\ UNCHANGED conditions
    <3>1. Returns(t)
      BY <1>1, <2>1, CallReturns
    <3> QED
      BY <1>1, <1>4, <2>1, <3>1, ReturnsAtOnce DEF internal_wait_to_read
  <2>2. CASE ~stop[t] /\ ~m_writer_completed /\ m_queue = <<>>
    BY <1>4, <2>2, ReadSleeps DEF internal_wait_to_read
  <2> QED
    BY <1>4, <2>1, <2>2 DEF internal_wait_to_read
<1>5. ASSUME NEW t \in Readers, try_read(t) PROVE Inductive'
  <2>1. Returns(t)
    BY <1>1, <1>5, CallReturns
  <2> QED
    BY <1>1, <1>5, <2>1, ReturnsAtOnce DEF try_read
<1>6. ASSUME NEW t \in Threads, FinishEmplace(t) PROVE Inductive'
  BY <1>1, <1>6, CallReturns, ReturnsFromWait DEF FinishEmplace
<1>7. ASSUME NEW t \in Threads, FinishRead(t) PROVE Inductive'
  BY <1>1, <1>7, CallReturns, ReturnsFromWait DEF FinishRead
<1>8. CASE UNCHANGED vars
  BY <1>8 DEF vars, Inductive, TypeOK, WaiterCounts, WaitHonoured, BlockedReads,
     BlockedWrites, can_read_predicate, can_write_predicate, full
<1> QED
  BY <1>1, <1>2, <1>3, <1>4, <1>5, <1>6, <1>7, <1>8, RelockInductive, NotifyInductive
  DEF Next, WriterCall, ReaderCall, Continue

\* The inductive invariant: types, exact waiter counters, and waits that ended
\* for a reason, however the calls of channel_impl.h interleave.
THEOREM ChannelInvariant == Spec => []Inductive
BY InitInductive, NextInductive, PTL DEF Spec

\* The fields of the channel keep their types; in particular the counters never
\* wrap below zero, and only one thread at a time is past a wait.
THEOREM TypeCorrect == Spec => []TypeOK
BY ChannelInvariant, PTL DEF Inductive

\* m_read_waiters and m_write_waiters count the blocked calls exactly.
THEOREM WaitersCounted == Spec => []WaiterCounts
BY ChannelInvariant, PTL DEF Inductive

\* What ended a wait holds until the call returns.
THEOREM WaitsHonoured == Spec => []WaitHonoured
BY ChannelInvariant, PTL DEF Inductive
-------------------------------------------------------------------------------
\* A step that completes nothing, puts nobody to sleep and disturbs no
\* complete_writer under way keeps CompletionReachesAll.
LEMMA NobodyFallsAsleep ==
  ASSUME CompletionReachesAll, m_writer_completed' => m_writer_completed,
         m_not_empty' \subseteq m_not_empty, m_not_full' \subseteq m_not_full,
         \A u \in Threads : pc[u] \in {"complete_not_empty", "complete_not_full"}
                              => pc'[u] = pc[u]
  PROVE  CompletionReachesAll'
BY DEF CompletionReachesAll

\* Every step keeps CompletionReachesAll.
LEMMA CompletionStep ==
  Inductive /\ CompletionReachesAll /\ [Next]_vars => CompletionReachesAll'
<1> SUFFICES ASSUME Inductive, CompletionReachesAll, [Next]_vars
             PROVE  CompletionReachesAll'
  OBVIOUS
<1>1. TypeOK /\ Readers \subseteq Threads /\ Writers \subseteq Threads
  BY DEF Inductive, Threads
<1>2. ASSUME NEW t \in Threads, Returns(t), UNCHANGED <<m_not_empty, m_not_full>>,
             pc[t] \notin {"complete_not_empty", "complete_not_full"}
      PROVE  CompletionReachesAll'
  BY <1>1, <1>2, NobodyFallsAsleep DEF Returns, TypeOK
<1>3. ASSUME NEW t \in Writers, NEW v \in Items, emplace(t, v)
      PROVE  CompletionReachesAll'
  <2>1. CASE AfterWaitToWrite(t, v) /\ UNCHANGED conditions
    BY <1>1, <1>2, <1>3, <2>1, CallReturns DEF emplace, conditions
  <2>2. CASE ~m_writer_completed /\ UNCHANGED m_writer_completed
    BY <2>2 DEF CompletionReachesAll
  <2> QED
    BY <1>3, <2>1, <2>2 DEF emplace
<1>4. ASSUME NEW t \in Writers, NEW v \in Items, try_emplace(t, v)
      PROVE  CompletionReachesAll'
  BY <1>1, <1>2, <1>4, CallReturns DEF try_emplace, conditions
<1>5. ASSUME NEW t \in Readers, NEW op \in ReadWaits, internal_wait_to_read(t, op)
      PROVE  CompletionReachesAll'
  <2>1. CASE AfterWaitToRead(t, op) /\ UNCHANGED conditions
    BY <1>1, <1>2, <1>5, <2>1, CallReturns DEF internal_wait_to_read, conditions
  <2>2. CASE ~m_writer_completed /\ UNCHANGED m_writer_completed
    BY <2>2 DEF CompletionReachesAll
  <2> QED
    BY <1>5, <2>1, <2>2 DEF internal_wait_to_read
<1>6. ASSUME NEW t \in Readers, try_read(t) PROVE CompletionReachesAll'
  BY <1>1, <1>2, <1>6, CallReturns DEF try_read, conditions
<1>7. ASSUME NEW t \in Threads, FinishEmplace(t) \/ FinishRead(t)
      PROVE  CompletionReachesAll'
  <2>1. Returns(t)
    BY <1>1, <1>7, CallReturns DEF FinishEmplace, FinishRead
  <2> QED
    BY <1>2, <1>7, <2>1 DEF FinishEmplace, FinishRead, ReadWaits
<1>8. ASSUME NEW t \in Threads, Relock(t) PROVE CompletionReachesAll'
  <2>1. CASE UNCHANGED <<m_not_empty, m_not_full>>
    BY <1>8, <2>1, NobodyFallsAsleep DEF Relock, ReadWaitReturns, WriteWaitReturns
  <2>2. CASE ~m_writer_completed
    BY <1>8, <2>2, Zenon DEF Relock, ReadWaitReturns, WriteWaitReturns, CompletionReachesAll
  <2> QED
    BY <1>8, <2>1, <2>2 DEF Relock, ReadWaitReturns, WriteWaitReturns,
       can_read_predicate, can_write_predicate
<1>9. ASSUME NEW t \in Threads, complete_writer(t) PROVE CompletionReachesAll'
  BY <1>1, <1>9 DEF complete_writer, CompletionReachesAll, TypeOK
<1>10. ASSUME NEW t \in Threads, Notify(t) PROVE CompletionReachesAll'
  <2>1. CASE pc[t] = "notify_not_empty" \/ pc[t] = "notify_not_full"
    BY <1>1, <1>10, <2>1, NobodyFallsAsleep DEF Notify, NotifyOne, TypeOK
  <2>2. CASE pc[t] = "complete_not_empty" \/ pc[t] = "complete_not_full"
    BY <1>1, <1>10, <2>2 DEF Notify, CompletionReachesAll, TypeOK
  <2> QED
    BY <1>10, <2>1, <2>2 DEF Notify
<1>11. ASSUME NEW t \in Threads, RequestStop(t) \/ SpuriousWakeup(t)
       PROVE  CompletionReachesAll'
  BY <1>11, NobodyFallsAsleep DEF RequestStop, SpuriousWakeup
<1>12. CASE UNCHANGED vars
  BY <1>12, NobodyFallsAsleep DEF vars
<1> QED
  BY <1>1, <1>3, <1>4, <1>5, <1>6, <1>7, <1>8, <1>9, <1>10, <1>11, <1>12
  DEF Next, WriterCall, ReaderCall, Continue

\* However complete_writer interleaves with calls that go to sleep, wake up or
\* are cancelled, its two notify_all reach everybody asleep.
THEOREM CompletionReaches == Spec => []CompletionReachesAll
<1>1. Init => CompletionReachesAll
  BY DEF Init, CompletionReachesAll
<1> QED
  BY <1>1, CompletionStep, ChannelInvariant, PTL DEF Spec
-------------------------------------------------------------------------------
\* A step that puts nobody to sleep and stops no token keeps StoppedStaysAwake.
LEMMA NobodyStopped ==
  ASSUME TypeOK, StoppedStaysAwake,
         m_not_empty' \subseteq m_not_empty, m_not_full' \subseteq m_not_full,
         \A u \in Threads : stop'[u] => stop[u]
  PROVE  StoppedStaysAwake'
BY DEF StoppedStaysAwake, TypeOK, BlockedReads, BlockedWrites

\* No call stops a token by returning.
LEMMA ReturnStopsNothing ==
  ASSUME TypeOK, NEW t \in Threads
  PROVE  /\ \A v \in Items : AfterWaitToWrite(t, v) \/ try_emplace(t, v)
              => \A u \in Threads : stop'[u] => stop[u]
         /\ \A op \in ReadWaits : AfterWaitToRead(t, op)
              => \A u \in Threads : stop'[u] => stop[u]
         /\ try_read(t) => \A u \in Threads : stop'[u] => stop[u]
<1>1. ASSUME NEW op, NEW outcome, NEW next, Return(t, op, outcome, next)
      PROVE  \A u \in Threads : stop'[u] => stop[u]
  BY <1>1 DEF Return, TypeOK
<1>2. ASSUME NEW v \in Items, AfterWaitToWrite(t, v) \/ try_emplace(t, v)
      PROVE  \A u \in Threads : stop'[u] => stop[u]
  BY <1>1, <1>2 DEF AfterWaitToWrite, try_emplace, Enqueue
<1>3. ASSUME NEW op \in ReadWaits, AfterWaitToRead(t, op)
      PROVE  \A u \in Threads : stop'[u] => stop[u]
  BY <1>1, <1>3 DEF AfterWaitToRead, Dequeue
<1>4. try_read(t) => \A u \in Threads : stop'[u] => stop[u]
  BY <1>1 DEF try_read, Dequeue
<1> QED
  BY <1>2, <1>3, <1>4

\* Every step keeps StoppedStaysAwake.
LEMMA StoppedStep ==
  Inductive /\ StoppedStaysAwake /\ [Next]_vars => StoppedStaysAwake'
<1> SUFFICES ASSUME Inductive, StoppedStaysAwake, [Next]_vars
             PROVE  StoppedStaysAwake'
  OBVIOUS
<1>1. TypeOK /\ Readers \subseteq Threads /\ Writers \subseteq Threads
  BY DEF Inductive, Threads
<1>2. ASSUME NEW t \in Writers, NEW v \in Items, emplace(t, v)
      PROVE  StoppedStaysAwake'
  <2>1. CASE AfterWaitToWrite(t, v) /\ UNCHANGED conditions
    BY <1>1, <2>1, NobodyStopped, ReturnStopsNothing DEF conditions
  <2>2. CASE ~stop[t] /\ ~m_writer_completed /\ full
    BY <1>2, <2>2 DEF emplace, StoppedStaysAwake
  <2> QED
    BY <1>2, <2>1, <2>2 DEF emplace
<1>3. ASSUME NEW t \in Writers, NEW v \in Items, try_emplace(t, v)
      PROVE  StoppedStaysAwake'
  BY <1>1, <1>3, NobodyStopped, ReturnStopsNothing DEF try_emplace, conditions
<1>4. ASSUME NEW t \in Readers, NEW op \in ReadWaits, internal_wait_to_read(t, op)
      PROVE  StoppedStaysAwake'
  <2>1. CASE AfterWaitToRead(t, op) /\ UNCHANGED conditions
    BY <1>1, <2>1, NobodyStopped, ReturnStopsNothing DEF conditions
  <2>2. CASE ~stop[t] /\ ~m_writer_completed /\ m_queue = <<>>
    BY <1>4, <2>2 DEF internal_wait_to_read, StoppedStaysAwake
  <2> QED
    BY <1>4, <2>1, <2>2 DEF internal_wait_to_read
<1>5. ASSUME NEW t \in Readers, try_read(t) PROVE StoppedStaysAwake'
  BY <1>1, <1>5, NobodyStopped, ReturnStopsNothing DEF try_read, conditions
<1>6. ASSUME NEW t \in Threads, FinishEmplace(t) \/ FinishRead(t)
      PROVE  StoppedStaysAwake'
  BY <1>1, <1>6, NobodyStopped, ReturnStopsNothing DEF FinishEmplace, FinishRead
<1>7. ASSUME NEW t \in Threads, Relock(t) PROVE StoppedStaysAwake'
  BY <1>7 DEF Relock, ReadWaitReturns, WriteWaitReturns, StoppedStaysAwake
<1>8. ASSUME NEW t \in Threads, complete_writer(t) \/ Notify(t) \/ SpuriousWakeup(t)
      PROVE  StoppedStaysAwake'
  BY <1>1, <1>8, NobodyStopped DEF complete_writer, Notify, NotifyOne, SpuriousWakeup,
     conditions
<1>9. ASSUME NEW t \in Threads, RequestStop(t) PROVE StoppedStaysAwake'
  <2>1. /\ t \in m_not_empty => pc[t] \in ReadWaits /\ t \notin m_mutex
        /\ t \in m_not_full => pc[t] = "emplace" /\ t \notin m_mutex
    BY <1>1 DEF TypeOK, BlockedReads, BlockedWrites
  <2>2. t \notin m_not_empty' \union m_not_full'
    BY <1>9, <2>1 DEF RequestStop
  <2> QED
    BY <1>1, <1>9, <2>2 DEF RequestStop, StoppedStaysAwake, TypeOK, BlockedReads,
       BlockedWrites
<1>10. CASE UNCHANGED vars
  BY <1>10 DEF vars, StoppedStaysAwake
<1> QED
  BY <1>1, <1>2, <1>3, <1>4, <1>5, <1>6, <1>7, <1>8, <1>9, <1>10
  DEF Next, WriterCall, ReaderCall, Continue

\* No call of channel_impl.h sleeps with its token stopped, whenever the stop
\* request comes.
THEOREM StopsHonoured == Spec => []StoppedStaysAwake
<1>1. Init => StoppedStaysAwake
  BY DEF Init, StoppedStaysAwake
<1> QED
  BY <1>1, StoppedStep, ChannelInvariant, PTL DEF Spec

-------------------------------------------------------------------------------
(***************************************************************************)
(* Channel implements FifoChannel: with its mutex, its two condition       *)
(* variables, its waiter counts and its late notifications, the channel    *)
(* keeps the promise it makes about items and results.                     *)
(***************************************************************************)

\* The queue is the part of the sent items that was not handed out: adding at
\* its back sends, removing its front hands out the oldest item.
LEMMA QueueIsUndelivered ==
  ASSUME NEW S, NEW d \in Seq(S), NEW q \in Seq(S)
  PROVE  /\ Len(d \o q) - Len(d) = Len(q)
         /\ \A v \in S : d \o Append(q, v) = Append(d \o q, v)
         /\ q # <<>> => /\ Len(q) > 0
                        /\ (d \o q)[Len(d) + 1] = Head(q)
                        /\ Append(d, Head(q)) \o Tail(q) = d \o q
<1>1. Len(d \o q) - Len(d) = Len(q)
  OBVIOUS
<1>2. \A v \in S : d \o Append(q, v) = Append(d \o q, v)
  OBVIOUS
<1>3. ASSUME q # <<>>
      PROVE  Len(q) > 0 /\ (d \o q)[Len(d) + 1] = Head(q)
  BY <1>3, EmptySeq
<1>4. ASSUME q # <<>> PROVE Append(d, Head(q)) \o Tail(q) = d \o q
  <2>1. Head(q) \in S /\ Tail(q) \in Seq(S) /\ Len(Tail(q)) = Len(q) - 1
    BY <1>4, HeadTailProperties
  <2>2. \A i \in 1..Len(Tail(q)) : Tail(q)[i] = q[i + 1]
    BY <1>4, HeadTailProperties
  <2> DEFINE a == Append(d, Head(q))
  <2>3. a \in Seq(S) /\ Len(a) = Len(d) + 1
    BY <2>1
  <2>4. Len(a \o Tail(q)) = Len(d \o q)
    BY <2>1, <2>3
  <2>5. \A i \in 1..Len(d \o q) : (a \o Tail(q))[i] = (d \o q)[i]
    BY <1>3, <1>4, <2>1, <2>2, <2>3
  <2> QED
    BY <2>1, <2>3, <2>4, <2>5, SeqEqual, ConcatProperties
<1> QED
  BY <1>1, <1>2, <1>3, <1>4, Zenon
-------------------------------------------------------------------------------
\* The mapping of Promised, applied to the queue.
LEMMA MappedQueue ==
  ASSUME TypeOK
  PROVE  /\ Promised!Pending = Len(m_queue)
         /\ ~full <=> Promised!Room
         /\ m_queue # <<>> <=> Len(m_queue) > 0
         /\ m_queue = <<>> <=> Len(m_queue) = 0
<1>1. Len(m_queue) \in Nat /\ (m_queue # <<>> => Len(m_queue) > 0)
  BY EmptySeq DEF TypeOK
<1>2. Promised!Pending = Len(m_queue)
  BY QueueIsUndelivered DEF Promised!Pending, TypeOK
<1>3. ~full <=> Promised!Room
  BY <1>1, <1>2, ChannelAssumption DEF full, Promised!Room
<1> QED
  BY <1>1, <1>2, <1>3, EmptySeq

\* How a call returns is what the promise calls a return.
LEMMA MappedReturn ==
  ASSUME NEW t, NEW op, NEW outcome, NEW next, Return(t, op, outcome, next)
  PROVE  IF op \in {"try_emplace", "try_read"} THEN Promised!TryReturn(t, op, outcome)
         ELSE Promised!Return(t, op, outcome)
BY DEF Return, Promised!Return, Promised!TryReturn

\* Putting an item into the queue accepts it, unless its constructor throws.
LEMMA EnqueueRefines ==
  ASSUME TypeOK, NEW t \in Writers, NEW v \in Items,
         NEW op \in {"emplace", "try_emplace"}, Enqueue(t, op, v),
         ~m_writer_completed, ~full, op = "emplace" => ~stop[t],
         UNCHANGED <<m_writer_completed, delivered>>
  PROVE  Promised!Next
<1>1. CASE \E next : m_queue' = Append(m_queue, v) /\ Return(t, op, "ok", next)
  <2>1. (delivered \o m_queue)' = Append(delivered \o m_queue, v)
    BY <1>1, QueueIsUndelivered DEF TypeOK
  <2>2. Promised!Accept(t, v)
    BY <1>1, <2>1, MappedReturn, MappedQueue DEF Promised!Accept
  <2> QED
    BY <2>2 DEF Promised!Next
<1>2. CASE \E next : Return(t, op, "threw", next) /\ UNCHANGED m_queue
  <2>1. Promised!Throw(t)
    BY <1>2, MappedReturn DEF Promised!Throw
  <2> QED
    BY <2>1 DEF Promised!Next, Promised!Threads
<1> QED
  BY <1>1, <1>2 DEF Enqueue

\* Taking the front hands out the oldest item, unless its constructor throws.
LEMMA DequeueRefines ==
  ASSUME TypeOK, NEW t \in Readers, NEW op \in {"read", "try_read"},
         Dequeue(t, op), m_queue # <<>>, op = "read" => ~stop[t],
         UNCHANGED m_writer_completed
  PROVE  Promised!Next
<1>1. CASE \E next : /\ m_queue' = Tail(m_queue) /\ Return(t, op, "ok", next)
                     /\ delivered' = Append(delivered, Head(m_queue))
  <2>1. /\ (delivered \o m_queue)' = delivered \o m_queue
        /\ delivered' = Append(delivered, (delivered \o m_queue)[Len(delivered) + 1])
    BY <1>1, QueueIsUndelivered DEF TypeOK
  <2>2. Promised!Deliver(t)
    BY <1>1, <2>1, MappedReturn, MappedQueue DEF Promised!Deliver
  <2> QED
    BY <2>2 DEF Promised!Next
<1>2. CASE \E next : Return(t, op, "threw", next) /\ UNCHANGED <<m_queue, delivered>>
  <2>1. Promised!Throw(t)
    BY <1>2, MappedReturn DEF Promised!Throw
  <2> QED
    BY <2>1 DEF Promised!Next, Promised!Threads
<1> QED
  BY <1>1, <1>2 DEF Dequeue

\* A blocking emplace gives up only on completion or cancellation, provided
\* that one of these or room is why it is not waiting.
LEMMA EmplaceRefines ==
  ASSUME TypeOK, NEW t \in Writers, NEW v \in Items, AfterWaitToWrite(t, v),
         can_write_predicate \/ stop[t]
  PROVE  Promised!Next
<1>1. CASE ~stop[t] /\ ~m_writer_completed /\ ~full
  BY <1>1, EnqueueRefines DEF AfterWaitToWrite
<1>2. CASE stop[t] \/ m_writer_completed \/ full
  <2>1. Promised!Refuse(t)
    BY <1>2, MappedReturn DEF AfterWaitToWrite, can_write_predicate, Promised!Refuse
  <2> QED
    BY <2>1 DEF Promised!Next
<1> QED
  BY <1>1, <1>2

\* The same of read and wait_to_read.
LEMMA ReadRefines ==
  ASSUME TypeOK, NEW t \in Readers, NEW op \in ReadWaits, AfterWaitToRead(t, op),
         can_read_predicate \/ stop[t]
  PROVE  Promised!Next
<1>1. CASE ~stop[t] /\ m_queue # <<>> /\ op = "read"
  BY <1>1, DequeueRefines DEF AfterWaitToRead
<1>2. CASE ~stop[t] /\ m_queue # <<>> /\ op = "wait_to_read"
  <2>1. Promised!Ready(t)
    BY <1>2, MappedReturn, MappedQueue DEF AfterWaitToRead, Promised!Ready
  <2> QED
    BY <2>1 DEF Promised!Next
<1>3. CASE ~stop[t] /\ m_queue = <<>>
  <2>1. Promised!Empty(t)
    BY <1>3, MappedReturn, MappedQueue, Zenon
    DEF AfterWaitToRead, Promised!Empty, can_read_predicate, ReadWaits
  <2> QED
    BY <2>1 DEF Promised!Next
<1>4. CASE stop[t]
  <2>1. Promised!Cancelled(t)
    BY <1>4, MappedReturn DEF AfterWaitToRead, Promised!Cancelled, ReadWaits
  <2> QED
    BY <2>1 DEF Promised!Next
<1> QED
  BY <1>1, <1>2, <1>3, <1>4 DEF ReadWaits
\* Every step of the channel is a step of its promise, or changes nothing that
\* the promise speaks of.
LEMMA StepRefines ==
  Inductive /\ [Next]_vars => [Promised!Next]_(Promised!fifoVars)
<1> SUFFICES ASSUME Inductive, [Next]_vars
             PROVE  Promised!Next \/ UNCHANGED Promised!fifoVars
  OBVIOUS
<1>1. TypeOK /\ WaitHonoured /\ Promised!Threads = Threads
  BY DEF Inductive, Promised!Threads, Threads
<1>2. ASSUME UNCHANGED <<m_queue, delivered, m_writer_completed, stop, ret>>
      PROVE  UNCHANGED Promised!fifoVars
  BY <1>2 DEF Promised!fifoVars
<1>3. ASSUME NEW t \in Writers, NEW v \in Items, emplace(t, v)
      PROVE  Promised!Next \/ UNCHANGED Promised!fifoVars
  <2>1. CASE ~stop[t] /\ ~m_writer_completed /\ full
    BY <1>2, <1>3, <2>1 DEF emplace
  <2>2. CASE AfterWaitToWrite(t, v) /\ (can_write_predicate \/ stop[t])
    BY <1>1, <2>2, EmplaceRefines
  <2> QED
    BY <1>3, <2>1, <2>2 DEF emplace, can_write_predicate
<1>4. ASSUME NEW t \in Writers, NEW v \in Items, try_emplace(t, v)
      PROVE  Promised!Next
  <2>1. CASE m_writer_completed \/ full
    <3>1. Promised!Refuse(t)
      BY <1>1, <1>4, <2>1, MappedReturn, MappedQueue DEF try_emplace, Promised!Refuse
    <3> QED
      BY <3>1 DEF Promised!Next
  <2>2. CASE ~m_writer_completed /\ ~full
    BY <1>1, <1>4, <2>2, EnqueueRefines DEF try_emplace
  <2> QED
    BY <2>1, <2>2
<1>5. ASSUME NEW t \in Readers, NEW op \in ReadWaits, internal_wait_to_read(t, op)
      PROVE  Promised!Next \/ UNCHANGED Promised!fifoVars
  <2>1. CASE ~stop[t] /\ ~m_writer_completed /\ m_queue = <<>>
    BY <1>2, <1>5, <2>1 DEF internal_wait_to_read
  <2>2. CASE AfterWaitToRead(t, op) /\ (can_read_predicate \/ stop[t])
    BY <1>1, <2>2, ReadRefines
  <2> QED
    BY <1>5, <2>1, <2>2 DEF internal_wait_to_read, can_read_predicate
<1>6. ASSUME NEW t \in Readers, try_read(t) PROVE Promised!Next
  <2>1. CASE m_queue = <<>>
    <3>1. Promised!Empty(t)
      BY <1>1, <1>6, <2>1, MappedReturn, MappedQueue, Zenon DEF try_read, Promised!Empty
    <3> QED
      BY <3>1 DEF Promised!Next
  <2>2. CASE m_queue # <<>>
    BY <1>1, <1>6, <2>2, DequeueRefines DEF try_read
  <2> QED
    BY <2>1, <2>2
<1>7. ASSUME NEW t \in Threads, FinishEmplace(t) PROVE Promised!Next
  <2>1. t \in Writers /\ (can_write_predicate \/ stop[t])
    BY <1>1, <1>7 DEF FinishEmplace, TypeOK, WaitHonoured, BlockedWrites
  <2> QED
    BY <1>1, <1>7, <2>1, EmplaceRefines DEF FinishEmplace
<1>8. ASSUME NEW t \in Threads, FinishRead(t) PROVE Promised!Next
  <2>1. t \in Readers /\ (can_read_predicate \/ stop[t])
    BY <1>1, <1>8 DEF FinishRead, TypeOK, WaitHonoured, BlockedReads
  <2> QED
    BY <1>1, <1>8, <2>1, ReadRefines DEF FinishRead
<1>9. ASSUME NEW t \in Threads, complete_writer(t) PROVE Promised!Next
  BY <1>9, SMTT(30) DEF complete_writer, Promised!Next, Promised!Close
<1>10. ASSUME NEW t \in Threads, RequestStop(t) PROVE Promised!Next
  BY <1>1, <1>10, Zenon DEF RequestStop, Promised!Next, Promised!RequestStop
<1>11. ASSUME NEW t \in Threads, Relock(t) \/ Notify(t) \/ SpuriousWakeup(t)
       PROVE  UNCHANGED Promised!fifoVars
  BY <1>2, <1>11, SMTT(30) DEF Relock, ReadWaitReturns, WriteWaitReturns, Notify, SpuriousWakeup
<1>12. CASE UNCHANGED vars
  BY <1>2, <1>12 DEF vars
<1>13. Writers \subseteq Threads
  BY DEF Threads
<1> QED
  BY <1>3, <1>4, <1>5, <1>6, <1>7, <1>8, <1>9, <1>10, <1>11, <1>12, <1>13
  DEF Next, WriterCall, ReaderCall, Continue

\* Whatever the interleaving of calls, stop requests, exceptions, completion and
\* spurious wakeups, the channel hands out every accepted item once and in
\* order, within its capacity, and each result is the promised one.
THEOREM Refinement == Spec => KeepsPromise
<1>1. Init => Promised!Init
  <2>1. <<>> \o <<>> = <<>>
    OBVIOUS
  <2> QED
    BY <2>1 DEF Init, Promised!Init, Promised!Threads, Threads
<1> QED
  BY <1>1, StepRefines, ChannelInvariant, PTL DEF Spec, KeepsPromise, Promised!Spec

-------------------------------------------------------------------------------
(***************************************************************************)
(* One notify_one per item, and per slot, suffices on a channel on which   *)
(* every woken call takes what it was woken for: no call is cancelled,     *)
(* nothing throws, and nobody calls wait_to_read.  (The run                *)
(* channel_lost_wakeup shows that a cancelled call does lose a wakeup.)    *)
(***************************************************************************)

\* The assumptions, and what they say of a state.
TakersOnly ==
  Cancellable = {} /\ Throwing = {} /\ "wait_to_read" \notin ReadOps

OnlyTakers == \A t \in Threads : ~stop[t] /\ pc[t] # "wait_to_read"

\* Every step keeps OnlyTakers.
LEMMA OnlyTakersStep ==
  ASSUME TakersOnly, TypeOK, OnlyTakers, [Next]_vars
  PROVE  OnlyTakers'
<1>1. Readers \subseteq Threads /\ Writers \subseteq Threads
  BY DEF Threads
<1>2. ASSUME NEW t \in Threads, NEW op, NEW outcome, NEW next \in Released,
             Return(t, op, outcome, next)
      PROVE  OnlyTakers'
  BY <1>2 DEF Return, Released, OnlyTakers, TypeOK
<1>3. "idle" \in Released /\ "notify_not_empty" \in Released
      /\ "notify_not_full" \in Released
  BY DEF Released
<1>4. ASSUME NEW t \in Writers, NEW v \in Items, emplace(t, v) PROVE OnlyTakers'
  <2>1. CASE AfterWaitToWrite(t, v)
    BY <1>1, <1>2, <1>3, <2>1 DEF AfterWaitToWrite, Enqueue
  <2>2. CASE UNCHANGED stop /\ pc' = [pc EXCEPT ![t] = "emplace"]
    BY <2>2 DEF OnlyTakers, TypeOK
  <2> QED
    BY <1>4, <2>1, <2>2 DEF emplace
<1>5. ASSUME NEW t \in Writers, NEW v \in Items, try_emplace(t, v) PROVE OnlyTakers'
  BY <1>1, <1>2, <1>3, <1>5 DEF try_emplace, Enqueue
<1>6. ASSUME NEW t \in Readers, NEW op \in ReadWaits, internal_wait_to_read(t, op)
      PROVE  OnlyTakers'
  <2>1. CASE AfterWaitToRead(t, op)
    BY <1>1, <1>2, <1>3, <2>1 DEF AfterWaitToRead, Dequeue
  <2>2. CASE UNCHANGED stop /\ pc' = [pc EXCEPT ![t] = op]
    BY <1>6, <2>2 DEF internal_wait_to_read, TakersOnly, OnlyTakers, TypeOK
  <2> QED
    BY <1>6, <2>1, <2>2 DEF internal_wait_to_read
<1>7. ASSUME NEW t \in Readers, try_read(t) PROVE OnlyTakers'
  BY <1>1, <1>2, <1>3, <1>7, SMTT(30) DEF try_read, Dequeue
<1>8. ASSUME NEW t \in Threads, FinishEmplace(t) \/ FinishRead(t) PROVE OnlyTakers'
  BY <1>2, <1>3, <1>8
  DEF FinishEmplace, FinishRead, AfterWaitToWrite, AfterWaitToRead, Enqueue, Dequeue
<1>9. ASSUME NEW t \in Threads, complete_writer(t) \/ Notify(t) PROVE OnlyTakers'
  BY <1>9, SMTT(30) DEF complete_writer, Notify, OnlyTakers, TypeOK
<1>10. ASSUME NEW t \in Threads, Relock(t) \/ SpuriousWakeup(t) PROVE OnlyTakers'
  BY <1>10 DEF Relock, ReadWaitReturns, WriteWaitReturns, SpuriousWakeup, OnlyTakers
<1>11. ASSUME NEW t \in Threads, RequestStop(t) PROVE FALSE
  BY <1>11 DEF RequestStop, TakersOnly
<1>12. CASE UNCHANGED vars
  BY <1>12 DEF vars, OnlyTakers
<1> QED
  BY <1>1, <1>4, <1>5, <1>6, <1>7, <1>8, <1>9, <1>10, <1>11, <1>12
  DEF Next, WriterCall, ReaderCall, Continue

-------------------------------------------------------------------------------
\* What the wakeups gain or lose when one thread moves and nobody falls asleep.
LEMMA WakeupsMove ==
  ASSUME TypeOK, NEW t \in Threads, NEW next \in PCs, pc' = [pc EXCEPT ![t] = next],
         UNCHANGED <<m_not_empty, m_not_full>>
  PROVE  /\ Cardinality(ReadWakeups') >= Cardinality(ReadWakeups) - 1
         /\ Cardinality(WriteWakeups') >= Cardinality(WriteWakeups) - 1
         /\ t \notin ReadWakeups => /\ Cardinality(ReadWakeups') >= Cardinality(ReadWakeups)
                                    /\ next = "notify_not_empty" =>
                                         Cardinality(ReadWakeups') = Cardinality(ReadWakeups) + 1
         /\ t \notin WriteWakeups => /\ Cardinality(WriteWakeups') >= Cardinality(WriteWakeups)
                                     /\ next = "notify_not_full" =>
                                          Cardinality(WriteWakeups') = Cardinality(WriteWakeups) + 1
         /\ Cardinality(ReadWakeups) \in Nat /\ Cardinality(ReadWakeups') \in Nat
         /\ Cardinality(WriteWakeups) \in Nat /\ Cardinality(WriteWakeups') \in Nat
<1>1. /\ ReadWakeups \in SUBSET Threads /\ ReadWakeups' \in SUBSET Threads
      /\ WriteWakeups \in SUBSET Threads /\ WriteWakeups' \in SUBSET Threads
  BY DEF ReadWakeups, WriteWakeups, BlockedReads, BlockedWrites
<1>2. /\ ReadWakeups \ {t} \subseteq ReadWakeups'
      /\ next = "notify_not_empty" => ReadWakeups' = ReadWakeups \union {t}
  BY DEF ReadWakeups, BlockedReads, TypeOK, PCs, ReadWaits
<1>3. /\ WriteWakeups \ {t} \subseteq WriteWakeups'
      /\ next = "notify_not_full" => WriteWakeups' = WriteWakeups \union {t}
  BY DEF WriteWakeups, BlockedWrites, TypeOK, PCs, ReadWaits
<1>4. ASSUME NEW S \in SUBSET Threads, NEW T \in SUBSET Threads, S \ {t} \subseteq T
      PROVE  /\ Cardinality(T) >= Cardinality(S) - 1
             /\ t \notin S => Cardinality(T) >= Cardinality(S)
             /\ t \notin S /\ T = S \union {t} => Cardinality(T) = Cardinality(S) + 1
             /\ Cardinality(S) \in Nat /\ Cardinality(T) \in Nat
  <2>1. Cardinality(S \ {t}) <= Cardinality(T) /\ Cardinality(T) \in Nat
    BY <1>4, ThreadSets, Zenon
  <2>2. /\ t \in S => Cardinality(S \ {t}) = Cardinality(S) - 1
        /\ t \notin S => Cardinality(S \union {t}) = Cardinality(S) + 1
        /\ Cardinality(S) \in Nat
    BY ThreadSets, Zenon
  <2>3. CASE t \in S
    BY <2>1, <2>2, <2>3
  <2>4. CASE t \notin S
    <3>1. Cardinality(S) <= Cardinality(T)
      BY <1>4, <2>4, ThreadSets, Zenon
    <3>2. T = S \union {t} => Cardinality(T) = Cardinality(S) + 1
      BY <2>2, <2>4, Zenon
    <3> QED
      BY <2>1, <2>2, <2>4, <3>1, <3>2
  <2> QED
    BY <2>3, <2>4
<1> QED
  BY <1>1, <1>2, <1>3, <1>4

\* What a step may do to NoLostWakeup, once for each side: more readers are on
\* their way than before, or there is one item less to read.
LEMMA ReadSide ==
  ASSUME TypeOK, NEW t \in Threads, NEW next \in Released,
         pc' = [pc EXCEPT ![t] = next], UNCHANGED <<m_not_empty, m_not_full>>,
         m_not_empty # {} => Len(m_queue) <= Cardinality(ReadWakeups),
         \/ UNCHANGED m_queue /\ t \notin ReadWakeups
         \/ m_queue' = <<>>
         \/ m_queue # <<>> /\ m_queue' = Tail(m_queue)
         \/ /\ \E v \in Items : m_queue' = Append(m_queue, v)
            /\ m_not_empty # {} => next = "notify_not_empty"
            /\ t \notin ReadWakeups
  PROVE  m_not_empty' # {} => Len(m_queue') <= Cardinality(ReadWakeups')
<1>1. next \in PCs
  BY DEF Released, PCs
<1>2. /\ Len(m_queue) \in Nat /\ Len(<<>>) = 0
      /\ m_queue # <<>> => Len(Tail(m_queue)) = Len(m_queue) - 1
      /\ \A v \in Items : Len(Append(m_queue, v)) = Len(m_queue) + 1
  BY EmptySeq, HeadTailProperties DEF TypeOK
<1>3. /\ Cardinality(ReadWakeups) \in Nat /\ Cardinality(ReadWakeups') \in Nat
      /\ Cardinality(ReadWakeups') >= Cardinality(ReadWakeups) - 1
      /\ t \notin ReadWakeups => Cardinality(ReadWakeups') >= Cardinality(ReadWakeups)
      /\ t \notin ReadWakeups /\ next = "notify_not_empty" =>
           Cardinality(ReadWakeups') = Cardinality(ReadWakeups) + 1
  BY <1>1, WakeupsMove, Zenon
<1>4. CASE UNCHANGED m_queue /\ t \notin ReadWakeups
  BY <1>2, <1>3, <1>4
<1>5. CASE m_queue' = <<>>
  BY <1>2, <1>3, <1>5
<1>6. CASE m_queue # <<>> /\ m_queue' = Tail(m_queue)
  BY <1>2, <1>3, <1>6
<1>7. CASE /\ \E v \in Items : m_queue' = Append(m_queue, v)
           /\ m_not_empty # {} => next = "notify_not_empty"
           /\ t \notin ReadWakeups
  BY <1>2, <1>3, <1>7
<1> QED
  BY <1>4, <1>5, <1>6, <1>7

\* More writers are on their way than before, or there is one slot less.
LEMMA WriteSide ==
  ASSUME TypeOK, NEW t \in Threads, NEW next \in Released,
         pc' = [pc EXCEPT ![t] = next], UNCHANGED <<m_not_empty, m_not_full>>,
         m_not_full # {} => Capacity - Len(m_queue) <= Cardinality(WriteWakeups),
         \/ UNCHANGED m_queue /\ (t \notin WriteWakeups \/ full)
         \/ \E v \in Items : m_queue' = Append(m_queue, v)
         \/ /\ m_queue # <<>> /\ m_queue' = Tail(m_queue)
            /\ m_not_full # {} => next = "notify_not_full"
            /\ t \notin WriteWakeups
  PROVE  m_not_full' # {} => Capacity - Len(m_queue') <= Cardinality(WriteWakeups')
<1>1. next \in PCs
  BY DEF Released, PCs
<1>2. /\ Len(m_queue) \in Nat /\ Capacity \in Nat
      /\ m_queue # <<>> => Len(Tail(m_queue)) = Len(m_queue) - 1
      /\ \A v \in Items : Len(Append(m_queue, v)) = Len(m_queue) + 1
      /\ full => Capacity - Len(m_queue) <= 0
  BY EmptySeq, HeadTailProperties, ChannelAssumption DEF TypeOK, full
<1>3. /\ Cardinality(WriteWakeups) \in Nat /\ Cardinality(WriteWakeups') \in Nat
      /\ Cardinality(WriteWakeups') >= Cardinality(WriteWakeups) - 1
      /\ t \notin WriteWakeups => Cardinality(WriteWakeups') >= Cardinality(WriteWakeups)
      /\ t \notin WriteWakeups /\ next = "notify_not_full" =>
           Cardinality(WriteWakeups') = Cardinality(WriteWakeups) + 1
  BY <1>1, WakeupsMove, Zenon
<1>4. CASE UNCHANGED m_queue /\ (t \notin WriteWakeups \/ full)
  BY <1>2, <1>3, <1>4
<1>5. CASE \E v \in Items : m_queue' = Append(m_queue, v)
  BY <1>2, <1>3, <1>5
<1>6. CASE /\ m_queue # <<>> /\ m_queue' = Tail(m_queue)
           /\ m_not_full # {} => next = "notify_not_full"
           /\ t \notin WriteWakeups
  BY <1>2, <1>3, <1>6
<1> QED
  BY <1>4, <1>5, <1>6
-------------------------------------------------------------------------------
\* Somebody asleep is counted, so that the next emplace or read notifies.
LEMMA SleepersCounted ==
  ASSUME Inductive
  PROVE  /\ m_not_empty # {} => m_read_waiters # 0
         /\ m_not_full # {} => m_write_waiters # 0
<1>1. /\ BlockedReads \ m_mutex \in SUBSET Threads
      /\ BlockedWrites \ m_mutex \in SUBSET Threads
  BY DEF BlockedReads, BlockedWrites
<1>2. m_not_empty # {} => m_read_waiters # 0
  <2> SUFFICES ASSUME NEW u \in m_not_empty PROVE m_read_waiters # 0
    OBVIOUS
  <2>1. u \in BlockedReads \ m_mutex /\ u \in Threads
    BY DEF Inductive, TypeOK, BlockedReads
  <2>2. Cardinality(BlockedReads \ m_mutex) # 0
    BY <1>1, <2>1, ThreadSets, Zenon
  <2> QED
    BY <2>2 DEF Inductive, WaiterCounts
<1>3. m_not_full # {} => m_write_waiters # 0
  <2> SUFFICES ASSUME NEW u \in m_not_full PROVE m_write_waiters # 0
    OBVIOUS
  <2>1. u \in BlockedWrites \ m_mutex /\ u \in Threads
    BY DEF Inductive, TypeOK, BlockedWrites
  <2>2. Cardinality(BlockedWrites \ m_mutex) # 0
    BY <1>1, <2>1, ThreadSets, Zenon
  <2> QED
    BY <2>2 DEF Inductive, WaiterCounts
<1> QED
  BY <1>2, <1>3

\* An item added is an item notified of.
LEMMA EnqueueKeeps ==
  ASSUME TakersOnly, Inductive, NoLostWakeup, NEW t \in Threads, NEW v \in Items,
         NEW op, Enqueue(t, op, v), pc[t] \in {"idle", "emplace"},
         UNCHANGED <<m_not_empty, m_not_full, m_writer_completed>>
  PROVE  NoLostWakeup'
<1>1. TypeOK /\ t \notin ReadWakeups
  BY DEF Inductive, ReadWakeups, BlockedReads, ReadWaits
<1>2. PICK next \in Released :
        /\ m_queue' = Append(m_queue, v) /\ pc' = [pc EXCEPT ![t] = next]
        /\ m_read_waiters # 0 => next = "notify_not_empty"
  BY DEF Enqueue, Return, TakersOnly, Released
<1>3. m_not_empty' # {} => Len(m_queue') <= Cardinality(ReadWakeups')
  BY <1>1, <1>2, ReadSide, SleepersCounted, Zenon DEF NoLostWakeup
<1>4. ASSUME ~m_writer_completed
      PROVE  m_not_full' # {} => Capacity - Len(m_queue') <= Cardinality(WriteWakeups')
  BY <1>1, <1>2, <1>4, WriteSide, Zenon DEF NoLostWakeup
<1> QED
  BY <1>3, <1>4 DEF NoLostWakeup

\* A slot freed is a slot notified of.
LEMMA DequeueKeeps ==
  ASSUME TakersOnly, Inductive, NoLostWakeup, NEW t \in Threads,
         NEW op, Dequeue(t, op), m_queue # <<>>, pc[t] \in {"idle", "read"},
         UNCHANGED <<m_not_empty, m_not_full, m_writer_completed>>
  PROVE  NoLostWakeup'
<1>1. TypeOK /\ t \notin WriteWakeups
  BY DEF Inductive, WriteWakeups, BlockedWrites
<1>2. PICK next \in Released :
        /\ m_queue' = Tail(m_queue) /\ pc' = [pc EXCEPT ![t] = next]
        /\ m_write_waiters # 0 => next = "notify_not_full"
  BY DEF Dequeue, Return, TakersOnly, Released
<1>3. m_not_empty' # {} => Len(m_queue') <= Cardinality(ReadWakeups')
  BY <1>1, <1>2, ReadSide, Zenon DEF NoLostWakeup
<1>4. ASSUME ~m_writer_completed
      PROVE  m_not_full' # {} => Capacity - Len(m_queue') <= Cardinality(WriteWakeups')
  BY <1>1, <1>2, <1>4, WriteSide, SleepersCounted, Zenon DEF NoLostWakeup
<1> QED
  BY <1>3, <1>4 DEF NoLostWakeup

\* A call that comes back with nothing leaves a wakeup behind only if there is
\* nothing to be woken for.
LEMMA EmptyHanded ==
  ASSUME Inductive, NoLostWakeup, NEW t \in Threads, pc' = [pc EXCEPT ![t] = "idle"],
         UNCHANGED <<m_queue, m_not_empty, m_not_full, m_writer_completed>>,
         \/ pc[t] = "idle"
         \/ pc[t] = "read" /\ m_queue = <<>>
         \/ pc[t] = "emplace" /\ (m_writer_completed \/ full)
  PROVE  NoLostWakeup'
<1>1. TypeOK /\ "idle" \in Released
  BY DEF Inductive, Released
<1>2. /\ t \in ReadWakeups => m_queue = <<>>
      /\ t \in WriteWakeups => m_writer_completed \/ full
  BY DEF ReadWakeups, WriteWakeups, BlockedReads, BlockedWrites, ReadWaits
<1>3. m_not_empty' # {} => Len(m_queue') <= Cardinality(ReadWakeups')
  BY <1>1, <1>2, ReadSide, Zenon DEF NoLostWakeup
<1>4. ASSUME ~m_writer_completed
      PROVE  m_not_full' # {} => Capacity - Len(m_queue') <= Cardinality(WriteWakeups')
  BY <1>1, <1>2, <1>4, WriteSide, Zenon DEF NoLostWakeup
<1> QED
  BY <1>3, <1>4 DEF NoLostWakeup

\* A step that leaves the queue alone: on each side nobody sleeps after it, or
\* there is nothing to be woken for, or nobody on the way to it is lost.
LEMMA QueueAlone ==
  ASSUME TypeOK, NoLostWakeup, UNCHANGED m_queue,
         m_writer_completed => m_writer_completed',
         \/ m_not_empty' = {}
         \/ m_queue = <<>>
         \/ m_not_empty # {} /\ Cardinality(ReadWakeups) <= Cardinality(ReadWakeups'),
         \/ m_not_full' = {}
         \/ full \/ m_writer_completed'
         \/ m_not_full # {} /\ Cardinality(WriteWakeups) <= Cardinality(WriteWakeups')
  PROVE  NoLostWakeup'
<1>1. /\ Len(m_queue) \in Nat /\ Len(<<>>) = 0 /\ Capacity \in Nat
      /\ full => Capacity - Len(m_queue) <= 0
  BY EmptySeq, ChannelAssumption DEF TypeOK, full
<1>2. /\ ReadWakeups \in SUBSET Threads /\ ReadWakeups' \in SUBSET Threads
      /\ WriteWakeups \in SUBSET Threads /\ WriteWakeups' \in SUBSET Threads
  BY DEF ReadWakeups, WriteWakeups, BlockedReads, BlockedWrites
<1>3. CASE Threads = {}
  <2>1. /\ Cardinality(ReadWakeups) = 0 /\ Cardinality(ReadWakeups') = 0
        /\ Cardinality(WriteWakeups) = 0 /\ Cardinality(WriteWakeups') = 0
    BY <1>2, <1>3, FS_EmptySet, Zenon
  <2> QED
    BY <1>1, <2>1 DEF NoLostWakeup
<1>4. CASE Threads # {}
  <2>1. /\ Cardinality(ReadWakeups) \in Nat /\ Cardinality(ReadWakeups') \in Nat
        /\ Cardinality(WriteWakeups) \in Nat /\ Cardinality(WriteWakeups') \in Nat
    BY <1>2, <1>4, ThreadSets, Zenon
  <2> QED
    BY <1>1, <2>1 DEF NoLostWakeup
<1> QED
  BY <1>3, <1>4

\* notify_one passes the wakeup on: the notifier has done its part, and the
\* call it took off the condition variable is now on its way.
LEMMA NotifyKeeps ==
  ASSUME Inductive, NoLostWakeup, NEW t \in Threads, Notify(t)
  PROVE  NoLostWakeup'
<1>1. TypeOK /\ UNCHANGED <<m_queue, m_writer_completed>>
  BY DEF Inductive, Notify
<1>2. /\ ReadWakeups \in SUBSET Threads /\ WriteWakeups \in SUBSET Threads
      /\ m_not_empty \subseteq BlockedReads /\ m_not_full \subseteq BlockedWrites
  BY <1>1 DEF TypeOK, ReadWakeups, WriteWakeups, BlockedReads, BlockedWrites
<1>3. ASSUME NEW S \in SUBSET Threads, NEW w \in Threads \ S, t \in S
      PROVE  Cardinality((S \ {t}) \union {w}) = Cardinality(S)
  <2>1. Cardinality(S \ {t}) = Cardinality(S) - 1 /\ Cardinality(S) \in Nat
    BY <1>3, ThreadSets
  <2>2. Cardinality((S \ {t}) \union {w}) = Cardinality(S \ {t}) + 1
    BY ThreadSets, SMTT(30)
  <2> QED
    BY <2>1, <2>2
<1>4. /\ pc[t] \notin {"notify_not_full"} \union ReadWaits => WriteWakeups \subseteq WriteWakeups'
      /\ pc[t] \notin {"notify_not_empty"} \union ReadWaits => ReadWakeups \subseteq ReadWakeups'
  BY <1>1, <1>2 DEF Notify, NotifyOne, ReadWakeups, WriteWakeups, BlockedReads,
     BlockedWrites, TypeOK, ReadWaits
<1>5. /\ WriteWakeups \subseteq WriteWakeups' => Cardinality(WriteWakeups) <= Cardinality(WriteWakeups')
      /\ ReadWakeups \subseteq ReadWakeups' => Cardinality(ReadWakeups) <= Cardinality(ReadWakeups')
  <2>1. ReadWakeups' \in SUBSET Threads /\ WriteWakeups' \in SUBSET Threads
    BY DEF ReadWakeups, WriteWakeups, BlockedReads, BlockedWrites
  <2> QED
    BY <2>1, ThreadSets, Zenon
<1>6. CASE pc[t] = "notify_not_empty"
  <2>1. CASE m_not_empty = {}
    BY <1>1, <1>4, <1>5, <1>6, <2>1, QueueAlone DEF Notify, NotifyOne, ReadWaits
  <2>2. CASE m_not_empty # {}
    <3>1. PICK w \in m_not_empty : m_not_empty' = m_not_empty \ {w}
      BY <1>6, <2>2 DEF Notify, NotifyOne
    <3>2. w \in Threads \ ReadWakeups /\ t \in ReadWakeups
      BY <1>2, <1>6, SMTT(30) DEF ReadWakeups, BlockedReads, ReadWaits
    <3>3. ReadWakeups' = (ReadWakeups \ {t}) \union {w}
      BY <1>1, <1>2, <1>6, <3>1 DEF Notify, ReadWakeups, BlockedReads, ReadWaits, TypeOK
    <3>4. Cardinality(ReadWakeups') = Cardinality(ReadWakeups)
      BY <1>2, <1>3, <3>2, <3>3
    <3>5. Cardinality(ReadWakeups) <= Cardinality(ReadWakeups')
      BY <1>2, <3>2, <3>4, ThreadSets, Zenon
    <3> QED
      BY <1>1, <1>4, <1>5, <1>6, <2>2, <3>5, QueueAlone DEF Notify, ReadWaits
  <2> QED
    BY <2>1, <2>2
<1>7. CASE pc[t] = "notify_not_full"
  <2>1. CASE m_not_full = {}
    BY <1>1, <1>4, <1>5, <1>7, <2>1, QueueAlone DEF Notify, NotifyOne, ReadWaits
  <2>2. CASE m_not_full # {}
    <3>1. PICK w \in m_not_full : m_not_full' = m_not_full \ {w}
      BY <1>7, <2>2 DEF Notify, NotifyOne
    <3>2. w \in Threads \ WriteWakeups /\ t \in WriteWakeups
      BY <1>2, <1>7, SMTT(30) DEF WriteWakeups, BlockedWrites
    <3>3. WriteWakeups' = (WriteWakeups \ {t}) \union {w}
      BY <1>1, <1>2, <1>7, <3>1 DEF Notify, WriteWakeups, BlockedWrites, TypeOK
    <3>4. Cardinality(WriteWakeups') = Cardinality(WriteWakeups)
      BY <1>2, <1>3, <3>2, <3>3
    <3>5. Cardinality(WriteWakeups) <= Cardinality(WriteWakeups')
      BY <1>2, <3>2, <3>4, ThreadSets, Zenon
    <3> QED
      BY <1>1, <1>4, <1>5, <1>7, <2>2, <3>5, QueueAlone DEF Notify, ReadWaits
  <2> QED
    BY <2>1, <2>2
<1>8. CASE pc[t] = "complete_not_empty"
  <2>1. m_not_empty' = {} /\ m_not_full' = m_not_full
    BY <1>8 DEF Notify
  <2>2. Cardinality(WriteWakeups) <= Cardinality(WriteWakeups')
    BY <1>4, <1>5, <1>8 DEF ReadWaits
  <2> QED
    BY <1>1, <2>1, <2>2, QueueAlone
<1>9. CASE pc[t] = "complete_not_full"
  <2>1. m_not_full' = {} /\ m_not_empty' = m_not_empty
    BY <1>9 DEF Notify
  <2>2. Cardinality(ReadWakeups) <= Cardinality(ReadWakeups')
    BY <1>4, <1>5, <1>9 DEF ReadWaits
  <2> QED
    BY <1>1, <2>1, <2>2, QueueAlone
<1> QED
  BY <1>6, <1>7, <1>8, <1>9 DEF Notify
\* More threads on their way are no fewer.
LEMMA MoreWakeups ==
  ASSUME NEW t \in Threads
  PROVE  /\ ReadWakeups \subseteq ReadWakeups' =>
              Cardinality(ReadWakeups) <= Cardinality(ReadWakeups')
         /\ WriteWakeups \subseteq WriteWakeups' =>
              Cardinality(WriteWakeups) <= Cardinality(WriteWakeups')
<1>1. ReadWakeups' \in SUBSET Threads /\ WriteWakeups' \in SUBSET Threads
  BY DEF ReadWakeups, WriteWakeups, BlockedReads, BlockedWrites
<1> QED
  BY <1>1, ThreadSets, Zenon

\* One step of a channel on which woken calls take what they were woken for.
LEMMA WakeupStep ==
  ASSUME TakersOnly, Inductive, OnlyTakers, NoLostWakeup, [Next]_vars
  PROVE  NoLostWakeup'
<1>1. TypeOK /\ Readers \subseteq Threads /\ Writers \subseteq Threads
  BY DEF Threads, Inductive
<1>2. ASSUME NEW t \in Threads, NEW v \in Items, AfterWaitToWrite(t, v),
             pc[t] \in {"idle", "emplace"}, UNCHANGED <<m_not_empty, m_not_full>>
      PROVE  NoLostWakeup'
  <2>1. CASE Enqueue(t, "emplace", v)
    BY <1>2, <2>1, EnqueueKeeps DEF AfterWaitToWrite
  <2>2. CASE Return(t, "emplace", "false", "idle") /\ (m_writer_completed \/ full)
    BY <1>2, <2>2, EmptyHanded, Zenon DEF AfterWaitToWrite, Return, Enqueue
  <2>3. /\ ~stop[t] /\ UNCHANGED m_writer_completed
        /\ ~Enqueue(t, "emplace", v) => UNCHANGED m_queue
    BY <1>2, SMTT(30) DEF OnlyTakers, AfterWaitToWrite
  <2> QED
    BY <1>2, <2>1, <2>2, <2>3 DEF AfterWaitToWrite
<1>3. ASSUME NEW t \in Threads, AfterWaitToRead(t, "read"),
             pc[t] \in {"idle", "read"}, UNCHANGED <<m_not_empty, m_not_full>>
      PROVE  NoLostWakeup'
  <2>1. CASE m_queue # <<>> /\ Dequeue(t, "read")
    BY <1>3, <2>1, DequeueKeeps DEF AfterWaitToRead
  <2>2. CASE /\ m_queue = <<>> /\ Return(t, "read", "empty", "idle")
             /\ UNCHANGED <<m_queue, m_writer_completed>>
    BY <1>3, <2>2, EmptyHanded, Zenon DEF Return
  <2> QED
    BY <1>3, <2>1, <2>2 DEF AfterWaitToRead, OnlyTakers
<1>4. ASSUME NEW t \in Writers, NEW v \in Items, emplace(t, v) PROVE NoLostWakeup'
  <2>1. CASE AfterWaitToWrite(t, v) /\ UNCHANGED conditions
    BY <1>1, <1>2, <1>4, <2>1 DEF emplace, conditions
  <2>2. CASE /\ full /\ pc' = [pc EXCEPT ![t] = "emplace"]
             /\ UNCHANGED <<m_queue, m_writer_completed, m_not_empty>>
    <3>1. ReadWakeups \subseteq ReadWakeups'
      BY <1>1, <1>4, <2>2 DEF emplace, ReadWakeups, BlockedReads, ReadWaits, TypeOK
    <3> QED
      BY <1>1, <2>2, <3>1, MoreWakeups, QueueAlone
  <2> QED
    BY <1>4, <2>1, <2>2 DEF emplace
<1>5. ASSUME NEW t \in Writers, NEW v \in Items, try_emplace(t, v) PROVE NoLostWakeup'
  <2>1. CASE Enqueue(t, "try_emplace", v)
    BY <1>1, <1>5, <2>1, EnqueueKeeps DEF try_emplace, conditions
  <2>2. CASE Return(t, "try_emplace", "false", "idle") /\ UNCHANGED m_queue
    BY <1>1, <1>5, <2>2, EmptyHanded, ZenonT(40) DEF try_emplace, conditions, Return
  <2> QED
    BY <1>5, <2>1, <2>2 DEF try_emplace
<1>6. ASSUME NEW t \in Readers, NEW op \in ReadWaits, internal_wait_to_read(t, op)
      PROVE  NoLostWakeup'
  <2>1. op = "read"
    BY <1>6 DEF internal_wait_to_read, TakersOnly, ReadWaits
  <2>2. CASE AfterWaitToRead(t, op) /\ UNCHANGED conditions
    BY <1>1, <1>3, <1>6, <2>1, <2>2 DEF internal_wait_to_read, conditions
  <2>3. CASE /\ m_queue = <<>> /\ pc' = [pc EXCEPT ![t] = op]
             /\ UNCHANGED <<m_queue, m_writer_completed, m_not_full>>
    <3>1. WriteWakeups \subseteq WriteWakeups'
      BY <1>1, <1>6, <2>3 DEF internal_wait_to_read, WriteWakeups, BlockedWrites, TypeOK
    <3> QED
      BY <1>1, <2>3, <3>1, MoreWakeups, QueueAlone
  <2> QED
    BY <1>6, <2>2, <2>3 DEF internal_wait_to_read
<1>7. ASSUME NEW t \in Readers, try_read(t) PROVE NoLostWakeup'
  <2>1. CASE m_queue # <<>> /\ Dequeue(t, "try_read")
    BY <1>1, <1>7, <2>1, DequeueKeeps DEF try_read, conditions
  <2>2. CASE Return(t, "try_read", "empty", "idle") /\ UNCHANGED m_queue
    BY <1>1, <1>7, <2>2, EmptyHanded, Zenon DEF try_read, conditions, Return
  <2> QED
    BY <1>7, <2>1, <2>2 DEF try_read
<1>8. ASSUME NEW t \in Threads, FinishEmplace(t) PROVE NoLostWakeup'
  BY <1>2, <1>8 DEF FinishEmplace
<1>9. ASSUME NEW t \in Threads, FinishRead(t) PROVE NoLostWakeup'
  <2>1. pc[t] = "read"
    BY <1>9 DEF FinishRead, OnlyTakers, ReadWaits
  <2> QED
    BY <1>3, <1>9, <2>1 DEF FinishRead
<1>10. ASSUME NEW t \in Threads, complete_writer(t) PROVE NoLostWakeup'
  <2>1. ReadWakeups \subseteq ReadWakeups'
    BY <1>1, <1>10 DEF complete_writer, conditions, ReadWakeups, BlockedReads,
       ReadWaits, TypeOK
  <2> QED
    BY <1>1, <1>10, <2>1, MoreWakeups, QueueAlone DEF complete_writer, conditions
<1>11. ASSUME NEW t \in Threads, Relock(t) PROVE NoLostWakeup'
  <2>1. UNCHANGED <<m_queue, m_writer_completed, pc>>
    BY <1>11 DEF Relock, ReadWaitReturns, WriteWaitReturns
  <2>2. /\ UNCHANGED m_not_empty => ReadWakeups \subseteq ReadWakeups'
        /\ UNCHANGED m_not_full => WriteWakeups \subseteq WriteWakeups'
    BY <2>1 DEF ReadWakeups, WriteWakeups, BlockedReads, BlockedWrites
  <2>3. /\ UNCHANGED m_not_empty \/ m_queue = <<>>
        /\ UNCHANGED m_not_full \/ full
    BY <1>11 DEF Relock, ReadWaitReturns, WriteWaitReturns, can_read_predicate,
       can_write_predicate
  <2> QED
    BY <1>1, <2>1, <2>2, <2>3, MoreWakeups, QueueAlone
<1>12. ASSUME NEW t \in Threads, SpuriousWakeup(t) PROVE NoLostWakeup'
  <2>1. UNCHANGED <<m_queue, m_writer_completed, pc>>
    BY <1>12 DEF SpuriousWakeup
  <2>2. ReadWakeups \subseteq ReadWakeups' /\ WriteWakeups \subseteq WriteWakeups'
    BY <1>12, <2>1 DEF SpuriousWakeup, ReadWakeups, WriteWakeups, BlockedReads,
       BlockedWrites
  <2>3. /\ m_not_empty' # {} => m_not_empty # {}
        /\ m_not_full' # {} => m_not_full # {}
    BY <1>12 DEF SpuriousWakeup
  <2> QED
    BY <1>1, <2>1, <2>2, <2>3, MoreWakeups, QueueAlone
<1>13. ASSUME NEW t \in Threads, RequestStop(t) PROVE FALSE
  BY <1>13 DEF RequestStop, TakersOnly
<1>14. CASE UNCHANGED vars
  BY <1>14 DEF vars, NoLostWakeup, ReadWakeups, WriteWakeups, BlockedReads, BlockedWrites
<1> QED
  BY <1>1, <1>4, <1>5, <1>6, <1>7, <1>8, <1>9, <1>10, <1>11, <1>12, <1>13, <1>14,
     NotifyKeeps
  DEF Next, WriterCall, ReaderCall, Continue

\* As long as a read sleeps, every queued item has a notification on its way or
\* a woken read of its own, and likewise every free slot while an emplace
\* sleeps: emplace's and read's notify_one, issued after the mutex is released
\* and only if the waiter counter was not zero, lose no wakeup among any number
\* of readers and writers, provided no call is cancelled, throws or is a
\* wait_to_read.
THEOREM NoWakeupLost == ASSUME TakersOnly PROVE Spec => []NoLostWakeup
<1>1. Init => OnlyTakers /\ NoLostWakeup
  BY DEF Init, OnlyTakers, NoLostWakeup
<1>2. Inductive => TypeOK
  BY DEF Inductive
<1>3. OnlyTakers /\ TypeOK /\ [Next]_vars => OnlyTakers'
  BY OnlyTakersStep
<1>4. OnlyTakers /\ Inductive /\ NoLostWakeup /\ [Next]_vars => NoLostWakeup'
  BY WakeupStep
<1> QED
  BY <1>1, <1>2, <1>3, <1>4, ChannelInvariant, PTL DEF Spec
===============================================================================
