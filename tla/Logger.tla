--------------------------------- MODULE Logger ---------------------------------
(***************************************************************************)
(* xtd::logger (logging/logging.h) with its sinks: log_sink, which writes  *)
(* to standard output, file_sink, and otel_sink, which has a channel and a *)
(* thread of its own and sends batches through a transport.                *)
(*                                                                         *)
(* Callers log; "worker" is the logger's m_worker, "otel" the sink's, and  *)
(* "main" adds the sinks, and destroys the logger when no call of log is   *)
(* in progress and none will follow.  Sinks are added before the first     *)
(* call of log, because add_sink and log share the lists without a lock.   *)
(* The two channels are unbounded, and do what FifoChannel promises.       *)
(*                                                                         *)
(* A message is <<caller, n>>: the n-th that this caller logs.             *)
(***************************************************************************)
EXTENDS OtelTransport

CONSTANTS Callers,          \* threads that log
          Levels,           \* Levels[c][n]: the level of c's n-th message
          min_log_level,    \* of each sink
          batch_size,       \* otel_sink_opts::batch_size
          LineLength,       \* units of data in a formatted line
          MaxErrors         \* bound: failed ::write calls

Shared == {"console", "file"}   \* sinks served by m_worker
Sinks == Shared \union {"otel"}
Messages == UNION {{<<c, n>> : n \in 1..Len(Levels[c])} : c \in Callers}

ASSUME LoggerAssumption ==
  /\ batch_size \in Nat \ {0} /\ LineLength \in Nat \ {0} /\ MaxErrors \in Nat
  /\ Callers \intersect {"main", "worker", "otel", "prefix", "length"} = {}
  /\ \A c \in Callers : Levels[c] \in Seq(Int)
  /\ min_log_level \in [Sinks -> Int]

VARIABLES todo,                  \* sinks that main has not tried to add
          m_sinks,               \* the shared sinks, in the order they are asked
          m_own_channel_sinks,
          open_files,            \* file sinks whose m_fd is open
          m_channel,             \* the logger's channel
          otel_channel,          \* the OpenTelemetry sink's channel
          pc,                    \* where each thread is
          logged,                \* logged[c]: calls of log by c, the current one included
          text,                  \* m_formatted_message of each message
          work,                  \* worker: the message, the sinks it has yet to go to,
                                 \* and what the first of them got of the line
          output,                \* output[s]: <<message, line>> for each line s got
          errors,                \* failed ::write calls
          batch,                 \* otel: the message being serialized, if any
          m_body,                \* otel: the records of the request
          requests               \* history: the bodies handed to the transport

loggerVars == <<todo, m_sinks, m_own_channel_sinks, open_files, m_channel, otel_channel,
                pc, logged, text, work, output, errors, batch, m_body, requests>>
vars == <<loggerVars, transportVars>>

sinkVars == <<todo, m_sinks, m_own_channel_sinks, open_files>>
workerVars == <<work, output, errors>>
otelVars == <<batch, m_body, requests>>

Empty == [queue |-> <<>>, completed |-> FALSE]
Idle == [msg |-> <<>>, sinks |-> <<>>, line |-> <<>>]

Threads == Callers \union {"main", "worker", "otel"}

Init ==
  /\ todo = Sinks
  /\ m_sinks = <<>> /\ m_own_channel_sinks = {} /\ open_files = {}
  /\ m_channel = Empty /\ otel_channel = Empty
  /\ pc = [t \in Threads |-> CASE t = "main" -> "setup"
                               [] t = "worker" -> "read"
                               [] t = "otel" -> "none"
                               [] OTHER -> "idle"]
  /\ logged = [c \in Callers |-> 0]
  /\ text = [m \in Messages |-> "none"]
  /\ work = Idle
  /\ output = [s \in Shared |-> <<>>]
  /\ errors = 0
  /\ batch = <<>> /\ m_body = <<>> /\ requests = <<>>
  /\ TransportInit

TypeOK ==
  /\ TransportTypeOK
  /\ todo \subseteq Sinks /\ open_files \subseteq {"file"}
  /\ Range(m_sinks) \subseteq Shared /\ m_own_channel_sinks \subseteq {"otel"}
  /\ \A ch \in {m_channel, otel_channel} :
       Range(ch.queue) \subseteq Messages /\ ch.completed \in BOOLEAN
  /\ pc["main"] \in {"setup", "construct", "run", "join", "join_otel", "destroyed"}
  /\ pc["worker"] \in {"read", "sinks", "format", "formatting", "write", "done"}
  /\ pc["otel"] \in {"none", "read", "format", "formatting", "collect", "send", "done"}
  /\ \A c \in Callers : pc[c] \in {"idle", "shared"} /\ logged[c] \in 0..Len(Levels[c])
  /\ text \in [Messages -> {"none", "forming", "formed"}]
  /\ Range(work.sinks) \subseteq Shared
  /\ errors \in 0..MaxErrors
  /\ Range(batch \o m_body) \subseteq Messages

Goto(t, where) == pc' = [pc EXCEPT ![t] = where]

\* The level test of log_sink::write and otel_sink::write
admits(s, m) == Levels[m[1]][m[2]] >= min_log_level[s]

\* try_push on an unbounded channel: refused only once it is completed
try_push(channel, m) ==
  IF channel.completed THEN channel ELSE [channel EXCEPT !.queue = Append(@, m)]

-------------------------------------------------------------------------------
(***************************************************************************)
(* main sets the logger up.                                                *)
(***************************************************************************)

\* add_sink of a log_sink, or of a file_sink, whose constructor throws if the
\* file cannot be opened
add_sink(s) ==
  /\ pc["main"] = "setup" /\ s \in todo \intersect Shared
  /\ todo' = todo \ {s}
  /\ \/ /\ m_sinks' = Append(m_sinks, s)
        /\ open_files' = open_files \union ({s} \intersect {"file"})
     \/ s = "file" /\ UNCHANGED <<m_sinks, open_files>>
  /\ UNCHANGED <<m_own_channel_sinks, m_channel, otel_channel, pc, logged, text,
                 workerVars, otelVars, transportVars>>

\* add_sink of an otel_sink: its constructor makes the transport ...
add_otel_sink ==
  /\ pc["main"] = "setup" /\ "otel" \in todo
  /\ todo' = todo \ {"otel"}
  /\ Goto("main", "construct")
  /\ Construct
  /\ UNCHANGED <<m_sinks, m_own_channel_sinks, open_files, m_channel, otel_channel,
                 logged, text, workerVars, otelVars>>

\* ... and starts the thread, unless the transport's constructor has thrown.
OtelSinkAdded ==
  /\ pc["main"] = "construct" /\ tpc \in {"idle", "threw"}
  /\ IF tpc = "idle"
       THEN /\ m_own_channel_sinks' = {"otel"}
            /\ pc' = [pc EXCEPT !["main"] = "setup", !["otel"] = "read"]
       ELSE /\ Goto("main", "setup")
            /\ UNCHANGED m_own_channel_sinks
  /\ UNCHANGED <<todo, m_sinks, open_files, m_channel, otel_channel, logged, text,
                 workerVars, otelVars, transportVars>>

\* The set-up is over; sinks not tried by now are never added.
Run ==
  /\ pc["main"] = "setup"
  /\ todo' = {}
  /\ Goto("main", "run")
  /\ UNCHANGED <<m_sinks, m_own_channel_sinks, open_files, m_channel, otel_channel,
                 logged, text, workerVars, otelVars, transportVars>>

-------------------------------------------------------------------------------
(***************************************************************************)
(* logger::log: first the sinks with a channel of their own, then the      *)
(* shared channel.                                                         *)
(***************************************************************************)
log(c) ==
  LET m == <<c, logged[c] + 1>> IN
  /\ pc["main"] = "run" /\ pc[c] = "idle" /\ logged[c] < Len(Levels[c])
  /\ logged' = [logged EXCEPT ![c] = @ + 1]
  /\ otel_channel' = IF "otel" \in m_own_channel_sinks /\ admits("otel", m)
                       THEN try_push(otel_channel, m) ELSE otel_channel
  /\ Goto(c, "shared")
  /\ UNCHANGED <<sinkVars, m_channel, text, workerVars, otelVars, transportVars>>

LogToShared(c) ==
  /\ pc[c] = "shared"
  /\ m_channel' = IF m_sinks # <<>> THEN try_push(m_channel, <<c, logged[c]>>) ELSE m_channel
  /\ Goto(c, "idle")
  /\ UNCHANGED <<sinkVars, otel_channel, logged, text, workerVars, otelVars, transportVars>>

-------------------------------------------------------------------------------
(***************************************************************************)
(* log_message::get_formatted_message: std::call_once lets one thread      *)
(* format the message while the others that need it wait.                  *)
(***************************************************************************)

\* Tests the string that is being built instead of a once_flag.
MayUse_NotEmpty(m) == text[m] # "none"

MayUse(m) == text[m] = "formed"

\* Thread t, which needs the text of m, begins to format it.
BeginFormat(t, m) ==
  /\ pc[t] = "format" /\ text[m] = "none"
  /\ text' = [text EXCEPT ![m] = "forming"]
  /\ Goto(t, "formatting")
  /\ UNCHANGED <<sinkVars, m_channel, otel_channel, logged, workerVars, otelVars, transportVars>>

\* get_formatted_message returns to t, which goes on at where.
get_formatted_message(t, m, where) ==
  /\ \/ pc[t] = "formatting" /\ text' = [text EXCEPT ![m] = "formed"]
     \/ pc[t] = "format" /\ MayUse(m) /\ UNCHANGED text
  /\ Goto(t, where)

-------------------------------------------------------------------------------
(***************************************************************************)
(* process_logs: every message goes to every shared sink, one after the    *)
(* other.                                                                  *)
(***************************************************************************)

\* reader.read_all() yields a message, or ends once completed and drained.
ProcessLog ==
  /\ pc["worker"] = "read"
  /\ \/ /\ m_channel.queue # <<>>
        /\ work' = [msg |-> Head(m_channel.queue), sinks |-> m_sinks, line |-> <<>>]
        /\ m_channel' = [m_channel EXCEPT !.queue = Tail(@)]
        /\ Goto("worker", "sinks")
     \/ /\ m_channel.queue = <<>> /\ m_channel.completed
        /\ Goto("worker", "done")
        /\ UNCHANGED <<work, m_channel>>
  /\ UNCHANGED <<sinkVars, otel_channel, logged, text, output, errors, otelVars, transportVars>>

\* The inner loop: write of the next sink, which returns at once below its
\* level, or the end of the loop.
WriteToSink ==
  /\ pc["worker"] = "sinks"
  /\ \/ /\ work.sinks = <<>>
        /\ work' = Idle
        /\ Goto("worker", "read")
     \/ /\ work.sinks # <<>> /\ ~admits(Head(work.sinks), work.msg)
        /\ work' = [work EXCEPT !.sinks = Tail(@)]
        /\ UNCHANGED pc
     \/ /\ work.sinks # <<>> /\ admits(Head(work.sinks), work.msg)
        /\ Goto("worker", "format")
        /\ UNCHANGED work
  /\ UNCHANGED <<sinkVars, m_channel, otel_channel, logged, text, output, errors, otelVars,
                 transportVars>>

\* write_message_log has the text of the message.
write_message_log ==
  /\ get_formatted_message("worker", work.msg, "write")
  /\ UNCHANGED <<sinkVars, m_channel, otel_channel, logged, workerVars, otelVars, transportVars>>

\* The worker is done with its first sink, which got this line.
NextSink(line) ==
  /\ output' = [output EXCEPT ![Head(work.sinks)] = Append(@, <<work.msg, line>>)]
  /\ work' = [work EXCEPT !.sinks = Tail(@), !.line = <<>>]
  /\ Goto("worker", "sinks")

\* What one ::write of n units, the offset being where it is, adds to a line
Written_FromStart(n) == work.line \o [i \in 1..n |-> i]

Written(n) == work.line \o [i \in 1..n |-> Len(work.line) + i]

\* One ::write of write_to_output: all that is left, some of it, or an error,
\* after which the rest of the line is given up.  (A call that takes nothing is
\* made again.)
write_to_output ==
  /\ pc["worker"] = "write"
  /\ \/ \E n \in 1..(LineLength - Len(work.line)) :
          /\ IF Len(work.line) + n = LineLength
               THEN NextSink(Written(n))
               ELSE work' = [work EXCEPT !.line = Written(n)] /\ UNCHANGED <<output, pc>>
          /\ UNCHANGED errors
     \/ /\ errors < MaxErrors
        /\ errors' = errors + 1
        /\ NextSink(work.line)
  /\ UNCHANGED <<sinkVars, m_channel, otel_channel, logged, text, otelVars, transportVars>>

-------------------------------------------------------------------------------
(***************************************************************************)
(* otel_sink::process_messages: a request has the message that read waited *)
(* for, and those that try_read finds, up to batch_size.                   *)
(***************************************************************************)

\* reader.read() returns a message, or nothing once completed and drained.
ReadFirst ==
  /\ pc["otel"] = "read"
  /\ \/ /\ otel_channel.queue # <<>>
        /\ batch' = <<Head(otel_channel.queue)>>
        /\ otel_channel' = [otel_channel EXCEPT !.queue = Tail(@)]
        /\ Goto("otel", "format")
     \/ /\ otel_channel.queue = <<>> /\ otel_channel.completed
        /\ Goto("otel", "done")
        /\ UNCHANGED <<batch, otel_channel>>
  /\ UNCHANGED <<sinkVars, m_channel, logged, text, workerVars, m_body, requests, transportVars>>

\* serialize_record, whose result is appended to the body
serialize_record ==
  /\ batch # <<>>
  /\ get_formatted_message("otel", batch[1], "collect")
  /\ m_body' = m_body \o batch
  /\ batch' = <<>>
  /\ UNCHANGED <<sinkVars, m_channel, otel_channel, logged, workerVars, requests, transportVars>>

BatchFull == Len(m_body) >= batch_size

\* The inner loop: another message, or the request is sent.
Collect ==
  /\ pc["otel"] = "collect"
  /\ IF ~BatchFull /\ otel_channel.queue # <<>>
       THEN /\ batch' = <<Head(otel_channel.queue)>>
            /\ otel_channel' = [otel_channel EXCEPT !.queue = Tail(@)]
            /\ Goto("otel", "format")
            /\ UNCHANGED <<requests, transportVars>>
       ELSE /\ send(m_body)
            /\ requests' = Append(requests, m_body)
            /\ Goto("otel", "send")
            /\ UNCHANGED <<batch, otel_channel>>
  /\ UNCHANGED <<sinkVars, m_channel, logged, text, workerVars, m_body>>

\* send returns without the body being cleared.
Sent_NotCleared ==
  /\ pc["otel"] = "send" /\ tpc = "idle"
  /\ Goto("otel", "read")
  /\ UNCHANGED <<sinkVars, m_channel, otel_channel, logged, text, workerVars, otelVars,
                 transportVars>>

\* send returns, whether or not the request has arrived, and the body is cleared.
Sent ==
  /\ pc["otel"] = "send" /\ tpc = "idle"
  /\ m_body' = <<>>
  /\ Goto("otel", "read")
  /\ UNCHANGED <<sinkVars, m_channel, otel_channel, logged, text, workerVars, batch, requests,
                 transportVars>>

-------------------------------------------------------------------------------
(***************************************************************************)
(* ~logger, and the members destroyed after it in the reverse of the order *)
(* of declaration: m_worker, m_own_channel_sinks, m_sinks.                 *)
(***************************************************************************)
DestroyLogger ==
  /\ pc["main"] = "run" /\ \A c \in Callers : pc[c] = "idle"
  /\ m_channel' = [m_channel EXCEPT !.completed = TRUE]
  /\ Goto("main", "join")
  /\ UNCHANGED <<sinkVars, otel_channel, logged, text, workerVars, otelVars, transportVars>>

\* ~file_sink
CloseFiles == open_files' = {}

\* A destructor that detaches the worker.
WorkerJoined_Detached == TRUE

WorkerJoined == pc["worker"] = "done"

\* A destructor of otel_sink that joins without completing the channel.
complete_otel_Omitted == otel_channel

\* m_writer.complete() of ~otel_sink
complete_otel == [otel_channel EXCEPT !.completed = TRUE]

\* m_worker.join() returns; the OpenTelemetry sink, if there is one, is
\* destroyed next, and after it the others.
Joined ==
  /\ pc["main"] = "join" /\ WorkerJoined
  /\ IF m_own_channel_sinks = {}
       THEN /\ CloseFiles
            /\ Goto("main", "destroyed")
            /\ UNCHANGED otel_channel
       ELSE /\ otel_channel' = complete_otel
            /\ Goto("main", "join_otel")
            /\ UNCHANGED open_files
  /\ UNCHANGED <<todo, m_sinks, m_own_channel_sinks, m_channel, logged, text, workerVars,
                 otelVars, transportVars>>

OtelJoined ==
  /\ pc["main"] = "join_otel" /\ pc["otel"] = "done"
  /\ DestroyTransport
  /\ CloseFiles
  /\ Goto("main", "destroyed")
  /\ UNCHANGED <<todo, m_sinks, m_own_channel_sinks, m_channel, otel_channel, logged, text,
                 workerVars, otelVars>>

-------------------------------------------------------------------------------
Worker ==
  \/ ProcessLog \/ WriteToSink \/ write_message_log \/ write_to_output
  \/ work.sinks # <<>> /\ BeginFormat("worker", work.msg)

Otel ==
  \/ ReadFirst \/ serialize_record \/ Collect \/ Sent
  \/ batch # <<>> /\ BeginFormat("otel", batch[1])

InTransport == TransportStep /\ UNCHANGED loggerVars
PeerDone == discard_response /\ UNCHANGED loggerVars

Destructor == Joined \/ OtelJoined

Next ==
  \/ \E s \in Shared : add_sink(s)
  \/ add_otel_sink \/ OtelSinkAdded \/ Run
  \/ \E c \in Callers : log(c) \/ LogToShared(c)
  \/ Worker \/ Otel \/ InTransport \/ PeerDone
  \/ DestroyLogger \/ Destructor

\* The threads run, and the calls of the transport return, having timeouts (a
\* thread in the transport takes no other step).  Nothing makes the peer stop
\* sending its response, or ::write return, which has no timeout and blocks on
\* a pipe that nobody reads.
Spec ==
  /\ Init /\ [][Next]_vars
  /\ WF_vars(Worker /\ pc["worker"] # "write")
  /\ WF_vars(Otel \/ InTransport) /\ WF_vars(Destructor)

-------------------------------------------------------------------------------
\* The messages that sink s got, oldest first, and those on their way to it
Got(s) ==
  IF s = "otel" THEN FlattenSeq(requests)
  ELSE [i \in DOMAIN output[s] |-> output[s][i][1]]

Coming(s) ==
  IF s = "otel"
    THEN (IF pc["otel"] = "send" THEN <<>> ELSE m_body) \o batch \o otel_channel.queue
    ELSE (IF s \in Range(work.sinks) THEN <<work.msg>> ELSE <<>>) \o m_channel.queue

\* How many of c's messages log has handed to the channel of sink s
Handed(c, s) == IF s \in Shared /\ pc[c] = "shared" THEN logged[c] - 1 ELSE logged[c]

\* Every sink gets each message that it admits of each thread exactly once and
\* in the order in which that thread logged them, and no other, whichever way
\* the threads, the worker and the batches of the OpenTelemetry sink interleave.
EachOnceInOrder ==
  \A s \in Range(m_sinks) \union m_own_channel_sinks :
    LET through == Got(s) \o Coming(s)
    IN /\ \A m \in Range(Got(s)) : admits(s, m)
       /\ {m \in Range(through) : admits(s, m)}
            = {m \in Messages : m[2] <= Handed(m[1], s) /\ admits(s, m)}
       /\ \A i, j \in DOMAIN through :
            i < j /\ through[i][1] = through[j][1] => through[i][2] < through[j][2]

\* The destructor of the logger drains: when it returns both threads have
\* ended, and nothing that was logged is still waiting for a sink.
DrainedAtExit ==
  pc["main"] = "destroyed" =>
    /\ pc["worker"] = "done" /\ pc["otel"] \in {"none", "done"}
    /\ m_channel.queue = <<>> /\ otel_channel.queue = <<>>
    /\ work.sinks = <<>> /\ batch = <<>> /\ m_body = <<>>

\* Partial writes put a line together without a gap or a repetition, and a line
\* is shorter than its record only if a ::write failed.
LinesWhole ==
  LET IsStart(line) == line = [i \in 1..Len(line) |-> i]
      Short(s) == {i \in DOMAIN output[s] : Len(output[s][i][2]) < LineLength}
  IN /\ \A s \in Shared : \A i \in DOMAIN output[s] : IsStart(output[s][i][2])
     /\ IsStart(work.line)
     /\ Cardinality(Short("console")) + Cardinality(Short("file")) = errors

\* A message shared by the logger's worker and the OpenTelemetry sink's is
\* never put out by one while the other is still formatting it.
TextWhole ==
  /\ pc["worker"] = "write" => text[work.msg] = "formed"
  /\ \A m \in Range(m_body) : text[m] = "formed"

\* A request has at least one record and at most batch_size.  Partial sends
\* deliver a prefix of it, and all of it before the response is awaited; its
\* Content-Length is that of the body that follows.
RequestExact ==
  /\ \A i \in DOMAIN requests : Len(requests[i]) \in 1..batch_size
  /\ wire # <<>> => /\ Len(wire) <= Len(Request(m_body))
                    /\ wire = SubSeq(Request(m_body), 1, Len(wire))
  /\ tpc = "discard" => wire = Request(m_body)

\* Whatever fails, nothing stays allocated: the only open socket is the one in
\* use, it is in blocking mode (so that its timeouts apply) when data is sent,
\* the address list is freed, a constructor that throws releases curl's handle
\* and headers, and after the destructor no file is open.  Nothing is released
\* while a thread still uses it, either.
ResourcesBalanced ==
  /\ DOMAIN sockets = {fd} \ {-1}
  /\ tpc \in {"send", "discard"} => sockets[fd] = "blocking"
  /\ tpc \notin {"socket", "nonblock", "connect", "poll", "restore"} => addresses = 0
  /\ tpc \in {"none", "threw"} => ~m_curl /\ m_headers = 0
  /\ pc["main"] = "destroyed" => open_files = {}
  /\ pc["worker"] = "write" /\ Head(work.sinks) = "file" => "file" \in open_files
  /\ pc["otel"] \in {"collect", "send"} => tpc # "none"

\* The destructor ends, unless the peer of the native transport goes on
\* sending a response for ever, or a ::write of a sink never returns.
ShutdownEnds ==
  \/ <>[](tpc = "discard") \/ <>[](pc["worker"] = "write")
  \/ (pc["main"] = "join" ~> pc["main"] = "destroyed")

===============================================================================
