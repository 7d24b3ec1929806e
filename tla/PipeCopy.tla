------------------------------- MODULE PipeCopy --------------------------------
(***************************************************************************)
(* The copy threads of pipeline/pipe_utils.h feeding a pipeline, with a    *)
(* consumer at its other end.  threaded_copy_file_from_path and            *)
(* threaded_copy_from_socket share their loop: take a chunk from the       *)
(* source, write it, and complete the writer at the end of the source.     *)
(* The consumer parses messages of MessageSize bytes as pipeline.md shows: *)
(* it examines all it is given and consumes the whole messages.            *)
(***************************************************************************)
EXTENDS Pipeline

CONSTANTS SourceSize,    \* bytes of the file, or sent on the socket
          ChunkSize,     \* the size of the copy buffer
          MessageSize    \* what the consumer waits for

ASSUME PipeCopyAssumption ==
  /\ SourceSize \in 0..MaxBytes /\ ChunkSize \in Nat \ {0}
  /\ MessageSize \in Nat \ {0}

VARIABLES source,   \* bytes not yet taken from the source
          copier    \* "running", "done" or, by an uncaught exception, "terminated"

copyVars == <<vars, source, copier>>

CopyInit == Init /\ source = SourceSize /\ copier = "running"

CopierIdle == copier = "running" /\ pc["writer"] = "idle"

\* A read of the source gives between one byte and a chunk; it is written
\* without a token.
CopyChunk ==
  /\ CopierIdle /\ result["writer"] # "threw"
  /\ \E n \in 1..Min({ChunkSize, source}) : write(n) /\ source' = source - n
  /\ UNCHANGED copier

\* The source ends: end of file or a connection closed by the peer or, with
\* bytes left in it, a failure to open, read or receive.
CopyEnd ==
  /\ CopierIdle /\ result["writer"] # "threw"
  /\ complete_writer("writer")
  /\ copier' = "done" /\ UNCHANGED source

\* The exception of write leaves the thread function, which is the end of the
\* process (std::terminate).
CopyTerminates ==
  /\ CopierIdle /\ result["writer"] = "threw"
  /\ copier' = "terminated" /\ UNCHANGED <<vars, source>>

ConsumerDone == result["reader"] = "completed" /\ ~m_has_pending_read

\* The consumer reads until it is told of the end; when it is cancelled, it
\* completes the reader.
Consume ==
  \/ ~ConsumerDone /\ result["reader"] # "cancelled" /\ read_at_least(0)
  \/ LET whole == IF result["reader"] = "completed" THEN m_pending_read_size
                  ELSE (m_pending_read_size \div MessageSize) * MessageSize
     IN advance(whole, m_pending_read_size)
  \/ result["reader"] = "cancelled" /\ ~m_reader_completed /\ complete_reader("reader")

\* Anybody may lose interest in the stream at any time.
GiveUp ==
  \/ ~m_reader_completed /\ \E t \in Threads : complete_reader(t)
  \/ RequestStop("reader")

CopyFinished ==
  /\ \/ copier = "terminated"
     \/ /\ copier = "done" /\ pc = [t \in Threads |-> "idle"]
        /\ ConsumerDone \/ m_reader_completed
  /\ UNCHANGED copyVars

CopyNext ==
  \/ CopyChunk \/ CopyEnd \/ CopyTerminates
  \/ /\ copier # "terminated"
     /\ \/ Consume \/ GiveUp
        \/ \E t \in Threads : Relock(t) \/ Continue(t) \/ SpuriousWakeup(t)
     /\ UNCHANGED <<source, copier>>
  \/ CopyFinished

\* The copier and the consumer keep going, and nobody waits forever for a mutex
\* that keeps being released, as long as the process lives.
Alive == copier # "terminated" /\ UNCHANGED <<source, copier>>

CopyFairness ==
  /\ SF_copyVars(CopyChunk \/ CopyEnd \/ CopyTerminates)
  /\ SF_copyVars(Consume /\ Alive)
  /\ \A t \in Threads : /\ WF_copyVars(Continue(t) /\ Alive)
                        /\ SF_copyVars(Relock(t) /\ Alive)

CopySpec == CopyInit /\ [][CopyNext]_copyVars /\ CopyFairness

-------------------------------------------------------------------------------
\* The copy thread comes to an end, and unless the consumer has given up every
\* byte taken from the source has then reached it, through all pauses and
\* resumptions of the writer, and it has been told of the end.
CopyDelivers ==
  <>(/\ copier # "running"
     /\ m_reader_completed \/ (Len(consumed) = SourceSize - source /\ ConsumerDone))

\* A write that is blocked when an endpoint completes returns, and so does a
\* read when the writer completes or its token is stopped.
BlockedCallsReturn ==
  /\ (Writing /\ is_any_completed) ~> (~Writing \/ copier = "terminated")
  /\ (Reading /\ (m_writer_completed \/ stop["reader"]))
       ~> (~Reading \/ copier = "terminated")
===============================================================================
