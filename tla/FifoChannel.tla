------------------------------ MODULE FifoChannel ------------------------------
(***************************************************************************)
(* What xtd::channel promises its callers, with no mutex, condition        *)
(* variable, waiter count or notification in sight.  A channel is the      *)
(* sequence of items it ever accepted, the prefix of it that was handed    *)
(* out, and a closed flag.  Every action but Close and RequestStop is one  *)
(* call returning to thread t, and its guard is the promise that goes with *)
(* the value returned.                                                     *)
(***************************************************************************)
EXTENDS Naturals, Sequences

CONSTANTS Readers, Writers,   \* the threads that read, and those that write
          Items,              \* what is sent
          Capacity            \* 0 for an unbounded channel

VARIABLES sent,       \* every item accepted, in the order of acceptance
          received,   \* every item handed out, in the order of removal
          closed,     \* the writer has completed
          stop,       \* stop[t]: the token of t's call has been stopped
          ret         \* the last return: <<thread, operation, outcome>>

fifoVars == <<sent, received, closed, stop, ret>>

Threads == Readers \union Writers

Pending == Len(sent) - Len(received)

Room == Capacity = 0 \/ Pending < Capacity

\* A call that takes a stop token returns; the next call has its own token.
Return(t, op, outcome) ==
  /\ ret'  = <<t, op, outcome>>
  /\ stop' = [stop EXCEPT ![t] = FALSE]

\* A non-blocking call, which takes no token, returns.
TryReturn(t, op, outcome) ==
  /\ ret' = <<t, op, outcome>>
  /\ UNCHANGED stop

Init ==
  /\ sent = <<>>
  /\ received = <<>>
  /\ closed = FALSE
  /\ stop = [t \in Threads |-> FALSE]
  /\ ret = <<>>

\* push, emplace, try_push or try_emplace takes the item.
Accept(t, v) ==
  /\ ~closed /\ Room
  /\ sent' = Append(sent, v)
  /\ \/ ~stop[t] /\ Return(t, "emplace", "ok")
     \/ TryReturn(t, "try_emplace", "ok")
  /\ UNCHANGED <<received, closed>>

\* A blocking call gives up only on completion or cancellation, a
\* non-blocking one only on completion or a full channel.
Refuse(t) ==
  /\ \/ (closed \/ stop[t]) /\ Return(t, "emplace", "false")
     \/ (closed \/ ~Room) /\ TryReturn(t, "try_emplace", "false")
  /\ UNCHANGED <<sent, received, closed>>

\* The oldest undelivered item is handed to exactly one reader.
Deliver(t) ==
  /\ Pending > 0
  /\ received' = Append(received, sent[Len(received) + 1])
  /\ \/ ~stop[t] /\ Return(t, "read", "ok")
     \/ TryReturn(t, "try_read", "ok")
  /\ UNCHANGED <<sent, closed>>

\* wait_to_read finds an item.
Ready(t) ==
  /\ Pending > 0 /\ ~stop[t]
  /\ Return(t, "wait_to_read", "ok")
  /\ UNCHANGED <<sent, received, closed>>

\* CHANNEL_EMPTY: from a blocking call it means completed and drained.
Empty(t) ==
  /\ Pending = 0
  /\ \/ closed /\ \E op \in {"read", "wait_to_read"} : Return(t, op, "empty")
     \/ TryReturn(t, "try_read", "empty")
  /\ UNCHANGED <<sent, received, closed>>

\* REQUEST_CANCELLED, and the false of a cancelled wait_to_read.
Cancelled(t) ==
  /\ stop[t]
  /\ \E op \in {"read", "wait_to_read"} : Return(t, op, "cancelled")
  /\ UNCHANGED <<sent, received, closed>>

\* A constructor of the item throws: the call has no effect.
Throw(t) ==
  /\ \/ \E op \in {"emplace", "read"} : Return(t, op, "threw")
     \/ \E op \in {"try_emplace", "try_read"} : TryReturn(t, op, "threw")
  /\ UNCHANGED <<sent, received, closed>>

Close ==
  /\ closed' = TRUE
  /\ UNCHANGED <<sent, received, stop, ret>>

RequestStop(t) ==
  /\ stop' = [stop EXCEPT ![t] = TRUE]
  /\ UNCHANGED <<sent, received, closed, ret>>

Next ==
  \/ \E t \in Writers : (\E v \in Items : Accept(t, v)) \/ Refuse(t)
  \/ \E t \in Readers : Deliver(t) \/ Ready(t) \/ Empty(t) \/ Cancelled(t)
  \/ \E t \in Threads : Throw(t) \/ RequestStop(t)
  \/ Close

Spec == Init /\ [][Next]_fifoVars
===============================================================================
