------------------------------ MODULE LoggerProofs ------------------------------
(***************************************************************************)
(* Proofs about Logger and OtelTransport, for any threads that log, any    *)
(* messages and levels, any batch size and line length, and any failures   *)
(* of the files, of the connection and of the construction.                *)
(***************************************************************************)
EXTENDS Logger, FiniteSetTheorems, SequenceTheorems, TLAPS

MainPlaces == {"setup", "construct", "run", "join", "join_otel", "destroyed"}
WorkerPlaces == {"read", "sinks", "format", "formatting", "write", "done"}
OtelPlaces == {"none", "read", "format", "formatting", "collect", "send", "done"}
Places == MainPlaces \union WorkerPlaces \union OtelPlaces \union {"idle", "shared"}

SettingUp == {"setup", "construct"}

\* The transport's steps that are part of its constructor, of send, and of send
\* with a socket open
Constructing == {"headers", "options"}
SocketOpen == {"nonblock", "connect", "poll", "restore", "send", "discard"}
Sending == {"resolve", "socket", "perform"} \union SocketOpen

\* The names of the threads are different.
LEMMA OtherThreads ==
  /\ "main" \in Threads /\ "worker" \in Threads /\ "otel" \in Threads
  /\ \A c \in Callers : c \in Threads /\ c # "main" /\ c # "worker" /\ c # "otel"
BY LoggerAssumption DEF Threads

\* How the places of main, of the two workers, of the callers and of the
\* transport are related.
Lifecycle ==
  /\ pc \in [Threads -> Places]
  /\ pc["main"] \in MainPlaces /\ pc["worker"] \in WorkerPlaces
  /\ pc["otel"] \in OtelPlaces
  /\ \A c \in Callers : /\ pc[c] \in {"idle", "shared"}
                        /\ pc[c] = "shared" => pc["main"] = "run"
  /\ m_own_channel_sinks = (IF pc["otel"] = "none" THEN {} ELSE {"otel"})
  /\ todo \subseteq Sinks /\ (todo # {} => pc["main"] \in SettingUp)
  /\ "otel" \in todo => tpc = "none" /\ pc["otel"] = "none" /\ pc["main"] = "setup"
  /\ pc["main"] = "construct" =>
       pc["otel"] = "none" /\ tpc \in Constructing \union {"idle", "threw"}
  /\ tpc \in Constructing => pc["main"] = "construct"
  /\ pc["otel"] \notin {"none", "done"} =>
       tpc \notin Constructing \union {"none", "threw"}
  /\ tpc \in Sending => pc["otel"] = "send"
  /\ pc["main"] \in SettingUp => pc["otel"] \in {"none", "read"}
  /\ pc["main"] = "join_otel" => pc["otel"] # "none"
  /\ pc["main"] \in {"join_otel", "destroyed"} => pc["worker"] = "done"
  /\ pc["main"] = "destroyed" => pc["otel"] \in {"none", "done"}

\* The channels: who completes them, and that a worker that has ended, or a
\* logger that is being set up, has left them empty.
Channel == [queue : Seq(Messages), completed : BOOLEAN]

Queues ==
  /\ m_channel \in Channel /\ otel_channel \in Channel
  /\ m_channel.completed => pc["main"] \in {"join", "join_otel", "destroyed"}
  /\ otel_channel.completed => pc["main"] \in {"join_otel", "destroyed"}
  /\ pc["worker"] = "done" => m_channel.completed /\ m_channel.queue = <<>>
  /\ pc["otel"] = "done" => otel_channel.completed /\ otel_channel.queue = <<>>
  /\ pc["otel"] = "none" => otel_channel.queue = <<>>
  /\ logged \in [Callers -> Nat]
  /\ \A c \in Callers : /\ logged[c] <= Len(Levels[c])
                        /\ pc[c] = "shared" => logged[c] >= 1
  /\ pc["main"] \in SettingUp =>
       /\ pc["worker"] = "read" /\ m_channel.queue = <<>> /\ otel_channel.queue = <<>>
       /\ \A c \in Callers : logged[c] = 0

\* A message is a thread and a number.
LEMMA MessageIs ==
  /\ \A c \in Callers : Len(Levels[c]) \in Nat
  /\ \A c \in Callers : \A n \in 1..Len(Levels[c]) : <<c, n>> \in Messages
  /\ \A m \in Messages : m[1] \in Callers /\ m[2] \in 1..Len(Levels[m[1]])
                         /\ m = <<m[1], m[2]>>
<1>1. \A c \in Callers : Len(Levels[c]) \in Nat
  BY LoggerAssumption, LenProperties
<1> QED
  BY <1>1 DEF Messages

-------------------------------------------------------------------------------
\* The places of the threads in the beginning.
LEMMA LifecycleInit == Init => Lifecycle
<1> SUFFICES ASSUME Init PROVE Lifecycle
  OBVIOUS
<1>1. /\ pc["main"] = "setup" /\ pc["worker"] = "read" /\ pc["otel"] = "none"
      /\ \A c \in Callers : pc[c] = "idle"
  BY OtherThreads DEF Init
<1>2. pc \in [Threads -> Places]
  <2>1. \A t \in Threads : t \in Callers \/ t = "main" \/ t = "worker" \/ t = "otel"
    BY DEF Threads
  <2>2. \A t \in Threads : pc[t] \in Places
    BY <1>1, <2>1 DEF Places, MainPlaces, WorkerPlaces, OtelPlaces
  <2> QED
    BY <2>2 DEF Init
<1>3. tpc = "none" /\ todo = Sinks /\ m_own_channel_sinks = {}
  BY DEF Init, TransportInit
<1> QED
  BY <1>1, <1>2, <1>3
  DEF Lifecycle, MainPlaces, WorkerPlaces, OtelPlaces, SettingUp, Constructing, Sending,
      SocketOpen

\* What a step of one thread does to pc.
LEMMA Moves ==
  ASSUME pc \in [Threads -> Places], NEW t \in Threads, NEW where \in Places,
         Goto(t, where)
  PROVE  /\ pc' \in [Threads -> Places] /\ pc'[t] = where
         /\ \A u \in Threads : u # t => pc'[u] = pc[u]
BY DEF Goto

\* The transport, left alone, goes from place to place inside a call.
LEMMA TransportMoves ==
  ASSUME TransportStep \/ discard_response
  PROVE  \/ tpc \in Constructing /\ tpc' \in Constructing \union {"idle", "threw"}
         \/ tpc \in Sending /\ tpc' \in Sending \union {"idle"}
<1> USE DEF Constructing, Sending, SocketOpen
<1>1. ASSUME AppendHeader \/ SetOptions
      PROVE  tpc \in Constructing /\ tpc' \in Constructing \union {"idle", "threw"}
  BY <1>1 DEF AppendHeader, SetOptions, Catch
<1>2. ASSUME Resolve \/ Socket \/ ConnectStep \/ send_all \/ Perform \/ discard_response
      PROVE  tpc \in Sending /\ tpc' \in Sending \union {"idle"}
  BY <1>2 DEF Resolve, Socket, ConnectStep, SetFlags, Connected, GiveUpAddress, NextAddress,
              send_all, Perform, discard_response, Return
<1> QED
  BY <1>1, <1>2 DEF TransportStep

\* Every step keeps the places of the threads together.
LEMMA LifecycleStep == Lifecycle /\ Queues /\ [Next]_vars => Lifecycle'
<1> SUFFICES ASSUME Lifecycle, Queues, [Next]_vars PROVE Lifecycle'
  OBVIOUS
<1> USE OtherThreads
    DEF Lifecycle, MainPlaces, WorkerPlaces, OtelPlaces, SettingUp, Constructing, Sending,
        SocketOpen
<1> DEFINE Same == UNCHANGED <<todo, m_own_channel_sinks, tpc>>
<1>1. ASSUME NEW s \in Shared, add_sink(s) PROVE Lifecycle'
  BY <1>1 DEF add_sink, transportVars, Shared
<1>2. ASSUME add_otel_sink PROVE Lifecycle'
  <2>1. tpc' \in {"headers", "idle", "threw"} /\ UNCHANGED m_own_channel_sinks
    BY <1>2 DEF add_otel_sink, Construct, ConstructNative, ConstructCurl
  <2>2. /\ pc["main"] = "setup" /\ pc["otel"] = "none" /\ todo' = todo \ {"otel"}
        /\ Goto("main", "construct")
    BY <1>2 DEF add_otel_sink
  <2>3. /\ pc' \in [Threads -> Places] /\ pc'["main"] = "construct"
        /\ \A u \in Threads : u # "main" => pc'[u] = pc[u]
    BY <2>2, Moves DEF Places
  <2> QED
    BY <2>1, <2>2, <2>3
<1>3. ASSUME OtelSinkAdded PROVE Lifecycle'
  <2>1. /\ pc["main"] = "construct" /\ tpc \in {"idle", "threw"} /\ tpc' = tpc
        /\ todo' = todo
    BY <1>3 DEF OtelSinkAdded, transportVars
  <2>2. CASE tpc = "idle"
    <3>1. /\ m_own_channel_sinks' = {"otel"}
          /\ pc' = [pc EXCEPT !["main"] = "setup", !["otel"] = "read"]
      BY <1>3, <2>2 DEF OtelSinkAdded
    <3>2. /\ pc' \in [Threads -> Places] /\ pc'["main"] = "setup" /\ pc'["otel"] = "read"
          /\ \A u \in Threads : u # "main" /\ u # "otel" => pc'[u] = pc[u]
      BY <3>1 DEF Places
    <3> QED
      BY <2>1, <2>2, <3>1, <3>2
  <2>3. CASE tpc # "idle"
    <3>1. Goto("main", "setup") /\ UNCHANGED m_own_channel_sinks
      BY <1>3, <2>3 DEF OtelSinkAdded
    <3>2. /\ pc' \in [Threads -> Places] /\ pc'["main"] = "setup"
          /\ \A u \in Threads : u # "main" => pc'[u] = pc[u]
      BY <3>1, Moves DEF Places
    <3> QED
      BY <2>1, <2>3, <3>1, <3>2
  <2> QED
    BY <2>2, <2>3
<1>4. ASSUME NEW t \in {"worker", "otel"} \union Callers, NEW where \in Places,
             Goto(t, where), Same,
             t = "worker" => pc[t] # "done" /\ where \in WorkerPlaces,
             t = "otel" => /\ pc[t] \notin {"none", "done"} /\ where \in OtelPlaces \ {"none"}
                           /\ tpc \notin Sending,
             t \in Callers => where \in {"idle", "shared"} /\ pc["main"] = "run",
             pc["main"] \in SettingUp => t \notin {"otel"}
      PROVE  Lifecycle'
  <2>1. /\ pc' \in [Threads -> Places] /\ pc'[t] = where
        /\ \A u \in Threads : u # t => pc'[u] = pc[u]
    BY <1>4, Moves DEF Threads
  <2> QED
    BY <1>4, <2>1
<1>5. ASSUME NEW where \in {"run", "join", "join_otel", "destroyed"}, Goto("main", where),
             UNCHANGED <<m_own_channel_sinks>>, todo' \subseteq todo,
             pc["main"] # "construct", todo' = {},
             \A c \in Callers : pc[c] = "shared" => where = "run",
             tpc' = tpc \/ (tpc = "idle" /\ tpc' = "none" /\ pc["otel"] \in {"none", "done"}),
             where = "join_otel" => pc["otel"] # "none" /\ pc["worker"] = "done",
             where = "destroyed" => pc["otel"] \in {"none", "done"} /\ pc["worker"] = "done"
      PROVE  Lifecycle'
  <2>1. /\ pc' \in [Threads -> Places] /\ pc'["main"] = where
        /\ \A u \in Threads : u # "main" => pc'[u] = pc[u]
    BY <1>5, Moves DEF Places
  <2> QED
    BY <1>5, <2>1
<1>6. ASSUME NEW c \in Callers, log(c) \/ LogToShared(c) PROVE Lifecycle'
  <2>1. /\ pc["main"] = "run" /\ Same /\ (Goto(c, "idle") \/ Goto(c, "shared"))
    BY <1>6 DEF log, LogToShared, sinkVars, transportVars
  <2> QED
    BY <1>4, <2>1, ZenonT(40) DEF Places
<1>7. ASSUME ProcessLog PROVE Lifecycle'
  <2>1. /\ pc["worker"] = "read" /\ Same /\ (Goto("worker", "sinks") \/ Goto("worker", "done"))
    BY <1>7 DEF ProcessLog, sinkVars, transportVars
  <2> QED
    BY <1>4, <2>1 DEF Places
<1>8. ASSUME WriteToSink PROVE Lifecycle'
  <2>1. /\ pc["worker"] = "sinks" /\ Same
        /\ Goto("worker", "read") \/ Goto("worker", "format") \/ UNCHANGED pc
    BY <1>8 DEF WriteToSink, sinkVars, transportVars
  <2>2. CASE UNCHANGED pc
    BY <2>1, <2>2
  <2> QED
    BY <1>4, <2>1, <2>2 DEF Places
<1>9. ASSUME write_message_log \/ BeginFormat("worker", work.msg) PROVE Lifecycle'
  <2>1. /\ pc["worker"] \in {"format", "formatting"} /\ Same
        /\ Goto("worker", "write") \/ Goto("worker", "formatting")
    BY <1>9 DEF write_message_log, get_formatted_message, BeginFormat, sinkVars, transportVars
  <2> QED
    BY <1>4, <2>1 DEF Places
<1>10. ASSUME write_to_output PROVE Lifecycle'
  <2>1. /\ pc["worker"] = "write" /\ Same /\ (Goto("worker", "sinks") \/ UNCHANGED pc)
    BY <1>10, Zenon DEF write_to_output, NextSink, sinkVars, transportVars
  <2>2. CASE UNCHANGED pc
    BY <2>1, <2>2
  <2> QED
    BY <1>4, <2>1, <2>2 DEF Places
<1>11. ASSUME ReadFirst PROVE Lifecycle'
  <2>1. /\ pc["otel"] = "read" /\ Same /\ (Goto("otel", "format") \/ Goto("otel", "done"))
        /\ otel_channel.queue # <<>> \/ otel_channel.completed
    BY <1>11 DEF ReadFirst, sinkVars, transportVars
  <2>2. pc["main"] \notin SettingUp
    BY <2>1 DEF Queues
  <2> QED
    BY <1>4, <2>1, <2>2 DEF Places
<1>12. ASSUME serialize_record \/ BeginFormat("otel", batch[1]) PROVE Lifecycle'
  <2>1. /\ pc["otel"] \in {"format", "formatting"} /\ Same
        /\ Goto("otel", "collect") \/ Goto("otel", "formatting")
    BY <1>12 DEF serialize_record, get_formatted_message, BeginFormat, sinkVars, transportVars
  <2> QED
    BY <1>4, <2>1 DEF Places
<1>13. ASSUME Collect PROVE Lifecycle'
  <2>1. CASE Goto("otel", "format") /\ Same /\ pc["otel"] = "collect"
    BY <1>4, <2>1 DEF Places
  <2>2. CASE /\ Goto("otel", "send") /\ pc["otel"] = "collect" /\ tpc' \in Sending
             /\ UNCHANGED <<todo, m_own_channel_sinks>>
    <3>1. /\ pc' \in [Threads -> Places] /\ pc'["otel"] = "send"
          /\ \A u \in Threads : u # "otel" => pc'[u] = pc[u]
      BY <2>2, Moves DEF Places
    <3> QED
      BY <2>2, <3>1
  <2> QED
    BY <1>13, <2>1, <2>2 DEF Collect, send, sinkVars, transportVars
<1>14. ASSUME Sent PROVE Lifecycle'
  <2>1. pc["otel"] = "send" /\ tpc = "idle" /\ Same /\ Goto("otel", "read")
    BY <1>14 DEF Sent, sinkVars, transportVars
  <2> QED
    BY <1>4, <2>1 DEF Places
<1>15. ASSUME InTransport \/ PeerDone PROVE Lifecycle'
  <2>1. UNCHANGED <<pc, todo, m_own_channel_sinks>>
    BY <1>15 DEF InTransport, PeerDone, loggerVars
  <2>2. \/ tpc \in Constructing /\ tpc' \in Constructing \union {"idle", "threw"}
        \/ tpc \in Sending /\ tpc' \in Sending \union {"idle"}
    BY <1>15, TransportMoves DEF InTransport, PeerDone
  <2> QED
    BY <2>1, <2>2
<1>16. ASSUME Run \/ DestroyLogger \/ Joined \/ OtelJoined PROVE Lifecycle'
  <2>1. CASE Run
    BY <1>5, <2>1 DEF Run, transportVars
  <2>2. CASE DestroyLogger
    BY <1>5, <2>2 DEF DestroyLogger, sinkVars, transportVars
  <2>3. CASE Joined
    BY <1>5, <2>3 DEF Joined, WorkerJoined, transportVars
  <2>4. CASE OtelJoined
    BY <1>5, <2>4 DEF OtelJoined, DestroyTransport
  <2> QED
    BY <1>16, <2>1, <2>2, <2>3, <2>4
<1>17. CASE UNCHANGED vars
  BY <1>17 DEF vars, loggerVars, transportVars
<1> QED
  BY <1>1, <1>2, <1>3, <1>6, <1>7, <1>8, <1>9, <1>10, <1>11, <1>12, <1>13, <1>14, <1>15,
     <1>16, <1>17, Zenon
  DEF Next, Worker, Otel, Destructor

-------------------------------------------------------------------------------
\* What try_push, read and complete do to a channel.
LEMMA ChannelOps ==
  ASSUME NEW ch \in Channel
  PROVE  /\ \A m \in Messages : /\ try_push(ch, m) \in Channel
                                /\ try_push(ch, m).completed = ch.completed
                                /\ ~ch.completed => try_push(ch, m).queue = Append(ch.queue, m)
         /\ ch.queue # <<>> =>
              /\ [ch EXCEPT !.queue = Tail(@)] \in Channel /\ Head(ch.queue) \in Messages
              /\ [ch EXCEPT !.queue = Tail(@)].completed = ch.completed
              /\ [ch EXCEPT !.queue = Tail(@)].queue = Tail(ch.queue)
         /\ [ch EXCEPT !.completed = TRUE] \in Channel
         /\ [ch EXCEPT !.completed = TRUE].completed = TRUE
         /\ [ch EXCEPT !.completed = TRUE].queue = ch.queue
<1>1. ch.queue \in Seq(Messages) /\ ch.completed \in BOOLEAN
  BY DEF Channel
<1>2. ASSUME NEW q \in Seq(Messages)
      PROVE  /\ [ch EXCEPT !.queue = q] \in Channel
             /\ [ch EXCEPT !.queue = q].completed = ch.completed
             /\ [ch EXCEPT !.queue = q].queue = q
  BY DEF Channel
<1>3. ASSUME NEW m \in Messages
      PROVE  /\ try_push(ch, m) \in Channel /\ try_push(ch, m).completed = ch.completed
             /\ ~ch.completed => try_push(ch, m).queue = Append(ch.queue, m)
  <2>1. Append(ch.queue, m) \in Seq(Messages)
    BY <1>1
  <2> QED
    BY <1>2, <2>1, Zenon DEF try_push
<1>4. ASSUME ch.queue # <<>>
      PROVE  /\ [ch EXCEPT !.queue = Tail(@)] \in Channel /\ Head(ch.queue) \in Messages
             /\ [ch EXCEPT !.queue = Tail(@)].completed = ch.completed
             /\ [ch EXCEPT !.queue = Tail(@)].queue = Tail(ch.queue)
  <2>1. Tail(ch.queue) \in Seq(Messages) /\ Head(ch.queue) \in Messages
    BY <1>1, <1>4, HeadTailProperties
  <2> QED
    BY <1>2, <2>1, Zenon
<1>5. /\ [ch EXCEPT !.completed = TRUE] \in Channel
      /\ [ch EXCEPT !.completed = TRUE].completed = TRUE
      /\ [ch EXCEPT !.completed = TRUE].queue = ch.queue
  BY Zenon DEF Channel
<1> QED
  BY <1>3, <1>4, <1>5

\* The channels in the beginning.
LEMMA QueuesInit == Init => Queues
<1> SUFFICES ASSUME Init PROVE Queues
  OBVIOUS
<1>1. Empty \in Channel /\ Empty.queue = <<>> /\ Empty.completed = FALSE
  BY DEF Empty, Channel
<1>2. m_channel = Empty /\ otel_channel = Empty /\ logged = [c \in Callers |-> 0]
  BY DEF Init
<1>3. /\ pc["main"] = "setup" /\ pc["worker"] = "read" /\ pc["otel"] = "none"
      /\ \A c \in Callers : pc[c] = "idle"
  BY OtherThreads DEF Init
<1> QED
  BY <1>1, <1>2, <1>3, MessageIs DEF Queues

\* Nothing is pushed before the set-up is over, nor once a channel is completed,
\* and the worker of a channel ends only when it is drained.
LEMMA QueuesStep == Lifecycle /\ Queues /\ [Next]_vars => Queues'
<1> SUFFICES ASSUME Lifecycle, Queues, [Next]_vars PROVE Queues'
  OBVIOUS
<1> USE OtherThreads DEF SettingUp
<1>a. /\ pc \in [Threads -> Places]
      /\ \A t \in {"worker", "otel", "main"} \union Callers : t \in Threads
  BY DEF Lifecycle
<1> DEFINE Same == UNCHANGED <<m_channel, otel_channel, logged>>
<1>1. ASSUME Same, UNCHANGED pc PROVE Queues'
  BY <1>1 DEF Queues
\* A step of main.
<1>2. ASSUME Same, NEW where \in {"setup", "construct", "run"}, Goto("main", where),
             pc["main"] \in SettingUp
      PROVE  Queues'
  <2>1. pc'["main"] = where /\ \A u \in Threads : u # "main" => pc'[u] = pc[u]
    BY <1>2, <1>a, Moves DEF Places, MainPlaces
  <2> QED
    BY <1>2, <2>1 DEF Queues
<1>3. ASSUME OtelSinkAdded PROVE Queues'
  <2>1. /\ pc["main"] = "construct" /\ Same /\ pc["otel"] = "none"
    BY <1>3 DEF OtelSinkAdded, Lifecycle
  <2>2. CASE Goto("main", "setup")
    BY <1>2, <2>1, <2>2
  <2>3. CASE pc' = [pc EXCEPT !["main"] = "setup", !["otel"] = "read"]
    <3>1. /\ pc'["main"] = "setup" /\ pc'["otel"] = "read"
          /\ \A u \in Threads : u # "main" /\ u # "otel" => pc'[u] = pc[u]
      BY <1>a, <2>3
    <3> QED
      BY <2>1, <3>1 DEF Queues
  <2> QED
    BY <1>3, <2>2, <2>3 DEF OtelSinkAdded
<1>4. ASSUME DestroyLogger PROVE Queues'
  <2>1. /\ m_channel' = [m_channel EXCEPT !.completed = TRUE]
        /\ UNCHANGED <<otel_channel, logged>> /\ Goto("main", "join")
        /\ pc["main"] = "run" /\ \A c \in Callers : pc[c] = "idle"
    BY <1>4 DEF DestroyLogger
  <2>2. pc'["main"] = "join" /\ \A u \in Threads : u # "main" => pc'[u] = pc[u]
    BY <1>a, <2>1, Moves DEF Places, MainPlaces
  <2>3. m_channel' \in Channel /\ m_channel'.completed /\ m_channel'.queue = m_channel.queue
    BY <2>1, ChannelOps, Zenon DEF Queues
  <2> QED
    BY <2>1, <2>2, <2>3 DEF Queues
<1>5. ASSUME Joined PROVE Queues'
  <2>1. /\ UNCHANGED <<m_channel, logged>> /\ pc["main"] = "join"
    BY <1>5 DEF Joined
  <2>2. CASE UNCHANGED otel_channel /\ Goto("main", "destroyed")
    <3>1. pc'["main"] = "destroyed" /\ \A u \in Threads : u # "main" => pc'[u] = pc[u]
      BY <1>a, <2>2, Moves DEF Places, MainPlaces
    <3> QED
      BY <2>1, <2>2, <3>1 DEF Queues
  <2>3. CASE otel_channel' = complete_otel /\ Goto("main", "join_otel")
    <3>1. pc'["main"] = "join_otel" /\ \A u \in Threads : u # "main" => pc'[u] = pc[u]
      BY <1>a, <2>3, Moves DEF Places, MainPlaces
    <3>2. /\ otel_channel' \in Channel /\ otel_channel'.completed
          /\ otel_channel'.queue = otel_channel.queue
      BY <2>3, ChannelOps, Zenon DEF Queues, complete_otel
    <3> QED
      BY <2>1, <3>1, <3>2 DEF Queues
  <2> QED
    BY <1>5, <2>2, <2>3 DEF Joined
<1>6. ASSUME OtelJoined PROVE Queues'
  <2>1. Same /\ Goto("main", "destroyed") /\ pc["main"] = "join_otel"
    BY <1>6 DEF OtelJoined
  <2>2. pc'["main"] = "destroyed" /\ \A u \in Threads : u # "main" => pc'[u] = pc[u]
    BY <1>a, <2>1, Moves DEF Places, MainPlaces
  <2> QED
    BY <2>1, <2>2 DEF Queues
\* A call of log.
<1>7. ASSUME NEW c \in Callers, log(c) PROVE Queues'
  <2> DEFINE m == <<c, logged[c] + 1>>
  <2>1. /\ pc["main"] = "run" /\ logged[c] < Len(Levels[c]) /\ Goto(c, "shared")
        /\ logged' = [logged EXCEPT ![c] = @ + 1] /\ UNCHANGED m_channel
        /\ \/ otel_channel' = otel_channel
           \/ "otel" \in m_own_channel_sinks /\ otel_channel' = try_push(otel_channel, m)
    BY <1>7 DEF log
  <2>2. pc'[c] = "shared" /\ \A u \in Threads : u # c => pc'[u] = pc[u]
    BY <1>a, <2>1, Moves DEF Places
  <2>3. logged \in [Callers -> Nat] /\ Len(Levels[c]) \in Nat /\ logged[c] \in Nat
    BY MessageIs DEF Queues
  <2>4. /\ logged' \in [Callers -> Nat] /\ logged'[c] = logged[c] + 1
        /\ \A d \in Callers : d # c => logged'[d] = logged[d]
    BY <2>1, <2>3
  <2>5. \A d \in Callers : /\ logged'[d] <= Len(Levels[d])
                          /\ pc'[d] = "shared" => logged'[d] >= 1
    BY <2>1, <2>2, <2>3, <2>4 DEF Queues
  <2>6. /\ otel_channel' \in Channel /\ otel_channel'.completed = otel_channel.completed
        /\ otel_channel'.queue = otel_channel.queue \/ "otel" \in m_own_channel_sinks
    <3>1. m \in Messages
      <4>1. logged[c] + 1 \in 1..Len(Levels[c])
        BY <2>1, <2>3
      <4> QED
        BY <4>1, MessageIs
    <3>2. otel_channel \in Channel
      BY DEF Queues
    <3>3. /\ try_push(otel_channel, m) \in Channel
          /\ try_push(otel_channel, m).completed = otel_channel.completed
      BY <3>1, <3>2, ChannelOps, Zenon
    <3> HIDE DEF m
    <3> QED
      BY <2>1, <3>2, <3>3
  <2>7. pc["otel"] # "done"
    BY <2>1 DEF Queues
  <2>8. "otel" \in m_own_channel_sinks => pc["otel"] # "none"
    BY DEF Lifecycle
  <2> HIDE DEF m
  <2> QED
    BY <2>1, <2>2, <2>4, <2>5, <2>6, <2>7, <2>8 DEF Queues
<1>8. ASSUME NEW c \in Callers, LogToShared(c) PROVE Queues'
  <2> DEFINE m == <<c, logged[c]>>
  <2>1. /\ pc[c] = "shared" /\ Goto(c, "idle") /\ UNCHANGED <<otel_channel, logged>>
        /\ m_channel' = m_channel \/ m_channel' = try_push(m_channel, m)
    BY <1>8 DEF LogToShared
  <2>2. pc'[c] = "idle" /\ \A u \in Threads : u # c => pc'[u] = pc[u]
    BY <1>a, <2>1, Moves DEF Places
  <2>3. pc["main"] = "run"
    BY <2>1 DEF Lifecycle
  <2>4. m_channel' \in Channel /\ m_channel'.completed = m_channel.completed
    <3>1. m \in Messages
      <4>1. logged[c] \in 1..Len(Levels[c])
        BY <2>1, MessageIs DEF Queues
      <4> QED
        BY <4>1, MessageIs
    <3>2. m_channel \in Channel
      BY DEF Queues
    <3>3. /\ try_push(m_channel, m) \in Channel
          /\ try_push(m_channel, m).completed = m_channel.completed
      BY <3>1, <3>2, ChannelOps, Zenon
    <3> HIDE DEF m
    <3> QED
      BY <2>1, <3>2, <3>3
  <2>5. pc["worker"] # "done"
    BY <2>3 DEF Queues
  <2> HIDE DEF m
  <2> QED
    BY <2>1, <2>2, <2>3, <2>4, <2>5 DEF Queues
\* A step of a worker that reads, or goes on.
<1>9. ASSUME NEW where \in WorkerPlaces \ {"done"}, Goto("worker", where),
             UNCHANGED <<otel_channel, logged>>, pc["worker"] # "done",
             pc["main"] \notin SettingUp,
             \/ UNCHANGED m_channel
             \/ /\ m_channel' = [m_channel EXCEPT !.queue = Tail(@)]
                /\ m_channel.queue # <<>>
      PROVE  Queues'
  <2>1. pc'["worker"] = where /\ \A u \in Threads : u # "worker" => pc'[u] = pc[u]
    BY <1>9, <1>a, Moves DEF Places
  <2>2. m_channel' \in Channel /\ m_channel'.completed = m_channel.completed
    BY <1>9, ChannelOps, Zenon DEF Queues
  <2> QED
    BY <1>9, <2>1, <2>2 DEF Queues
<1>10. ASSUME NEW where \in OtelPlaces \ {"none", "done"}, Goto("otel", where),
             UNCHANGED <<m_channel, logged>>, pc["otel"] \notin {"none", "done"},
             pc["main"] \notin SettingUp,
             \/ UNCHANGED otel_channel
             \/ /\ otel_channel' = [otel_channel EXCEPT !.queue = Tail(@)]
                /\ otel_channel.queue # <<>>
      PROVE  Queues'
  <2>1. pc'["otel"] = where /\ \A u \in Threads : u # "otel" => pc'[u] = pc[u]
    BY <1>10, <1>a, Moves DEF Places
  <2>2. otel_channel' \in Channel /\ otel_channel'.completed = otel_channel.completed
    BY <1>10, ChannelOps, Zenon DEF Queues
  <2> QED
    BY <1>10, <2>1, <2>2 DEF Queues
<1>11. ASSUME NEW t \in {"worker", "otel"}, Goto(t, "done"), Same,
              t = "worker" => m_channel.completed /\ m_channel.queue = <<>>,
              t = "otel" => otel_channel.completed /\ otel_channel.queue = <<>>
       PROVE  Queues'
  <2>1. pc'[t] = "done" /\ \A u \in Threads : u # t => pc'[u] = pc[u]
    BY <1>11, <1>a, Moves DEF Places, WorkerPlaces
  <2>2. pc["main"] \notin SettingUp
    BY <1>11 DEF Queues
  <2>3. t = "worker" \/ t = "otel"
    OBVIOUS
  <2>4. CASE t = "worker"
    BY <1>11, <2>1, <2>2, <2>4 DEF Queues
  <2>5. CASE t = "otel"
    BY <1>11, <2>1, <2>2, <2>5 DEF Queues
  <2> QED
    BY <2>3, <2>4, <2>5
<1>12. ASSUME ProcessLog PROVE Queues'
  <2>1. pc["worker"] = "read" /\ UNCHANGED <<otel_channel, logged>>
    BY <1>12 DEF ProcessLog
  <2>2. CASE /\ m_channel.queue # <<>> /\ Goto("worker", "sinks")
             /\ m_channel' = [m_channel EXCEPT !.queue = Tail(@)]
    <3>1. pc["main"] \notin SettingUp
      BY <2>2 DEF Queues
    <3> QED
      BY <1>9, <2>1, <2>2, <3>1 DEF WorkerPlaces
  <2>3. CASE /\ m_channel.queue = <<>> /\ m_channel.completed /\ Goto("worker", "done")
             /\ UNCHANGED m_channel
    BY <1>11, <2>1, <2>3
  <2> QED
    BY <1>12, <2>2, <2>3 DEF ProcessLog
<1>13. ASSUME \/ WriteToSink \/ write_message_log \/ write_to_output
              \/ BeginFormat("worker", work.msg)
       PROVE  Queues'
  <2>1. /\ Same /\ pc["worker"] \in {"sinks", "format", "formatting", "write"}
        /\ UNCHANGED pc \/ \E where \in WorkerPlaces \ {"done"} : Goto("worker", where)
    BY <1>13, Zenon DEF WriteToSink, write_message_log, write_to_output, NextSink, BeginFormat,
                 get_formatted_message, WorkerPlaces
  <2>2. pc["main"] \notin SettingUp
    BY <2>1 DEF Queues
  <2> QED
    BY <1>1, <1>9, <2>1, <2>2
<1>14. ASSUME ReadFirst PROVE Queues'
  <2>1. pc["otel"] = "read" /\ UNCHANGED <<m_channel, logged>>
    BY <1>14 DEF ReadFirst
  <2>2. CASE /\ otel_channel.queue # <<>> /\ Goto("otel", "format")
             /\ otel_channel' = [otel_channel EXCEPT !.queue = Tail(@)]
    <3>1. pc["main"] \notin SettingUp
      BY <2>2 DEF Queues
    <3> QED
      BY <1>10, <2>1, <2>2, <3>1 DEF OtelPlaces
  <2>3. CASE /\ otel_channel.queue = <<>> /\ otel_channel.completed /\ Goto("otel", "done")
             /\ UNCHANGED otel_channel
    BY <1>11, <2>1, <2>3
  <2> QED
    BY <1>14, <2>2, <2>3 DEF ReadFirst
<1>15. ASSUME serialize_record \/ Collect \/ Sent \/ BeginFormat("otel", batch[1])
       PROVE  Queues'
  <2>1. /\ UNCHANGED <<m_channel, logged>>
        /\ pc["otel"] \in {"format", "formatting", "collect", "send"}
        /\ \E where \in OtelPlaces \ {"none", "done"} : Goto("otel", where)
        /\ \/ UNCHANGED otel_channel
           \/ /\ otel_channel' = [otel_channel EXCEPT !.queue = Tail(@)]
              /\ otel_channel.queue # <<>>
    BY <1>15 DEF serialize_record, Collect, Sent, BeginFormat, get_formatted_message,
                 OtelPlaces
  <2>2. pc["main"] \notin SettingUp
    BY <2>1 DEF Lifecycle
  <2> QED
    BY <1>10, <2>1, <2>2
<1>16. ASSUME add_otel_sink \/ Run \/ \E s \in Shared : add_sink(s) PROVE Queues'
  <2>1. CASE add_otel_sink \/ Run
    BY <1>2, <2>1 DEF add_otel_sink, Run
  <2>2. CASE \E s \in Shared : add_sink(s)
    BY <1>1, <2>2 DEF add_sink
  <2> QED
    BY <1>16, <2>1, <2>2
<1>17. CASE InTransport \/ PeerDone \/ UNCHANGED vars
  BY <1>1, <1>17 DEF InTransport, PeerDone, vars, loggerVars
<1> QED
  BY <1>3, <1>4, <1>5, <1>6, <1>7, <1>8, <1>12, <1>13, <1>14, <1>15, <1>16, <1>17
  DEF Next, Worker, Otel, Destructor

-------------------------------------------------------------------------------
(***************************************************************************)
(* The transport: what it has acquired at each place.                      *)
(***************************************************************************)
Flags == {"blocking", "nonblocking"}

Handle == m_curl \in BOOLEAN /\ (tpc \in {"none", "threw"} => ~m_curl)

Transport ==
  /\ transport_impl \in Transports
  /\ tpc \in {"none", "threw", "idle"} \union Constructing \union Sending
  /\ m_headers \in 0..Headers
  /\ tpc = "headers" => m_headers < Headers
  /\ tpc \in {"none", "threw"} => m_headers = 0
  /\ IF tpc \in SocketOpen THEN fd = 0 /\ sockets \in [{0} -> Flags]
     ELSE fd = -1 /\ DOMAIN sockets = {}
  /\ tpc \in {"send", "discard"} => sockets[0] = "blocking"
  /\ IF tpc \in {"socket", "nonblock", "connect", "poll", "restore"}
     THEN addresses \in 1..MaxAddresses ELSE addresses = 0

\* There is no transport in the beginning.
LEMMA TransportInitially == TransportInit => Transport /\ Handle
<1>1. TransportInit => Handle
  BY Zenon DEF TransportInit, Handle
<1>2. TransportInit => DOMAIN sockets = {}
  BY DEF TransportInit
<1> QED
  BY <1>1, <1>2
  DEF TransportInit, Transport, Constructing, Sending, SocketOpen, Headers

\* Only the constructor and the destructor of the curl transport touch its handle.
LEMMA HandleKept ==
  ASSUME Handle, Transport,
         \/ TransportStep \/ discard_response \/ Construct \/ DestroyTransport
         \/ (\E body : send(body)) \/ UNCHANGED transportVars
  PROVE  Handle'
<1>1. ASSUME UNCHANGED m_curl, tpc' \notin {"none", "threw"} \/ tpc' = tpc \/ ~m_curl
      PROVE  Handle'
  BY <1>1, Zenon DEF Handle
<1>2. ASSUME m_curl' = FALSE PROVE Handle'
  BY <1>2, Zenon DEF Handle
<1>3. ASSUME m_curl' = TRUE, tpc' = "headers" PROVE Handle'
  <2>1. tpc' \notin {"none", "threw"}
    BY <1>3
  <2> QED
    BY <1>3, <2>1, Zenon DEF Handle
<1>4. ASSUME Construct PROVE Handle'
  <2>1. tpc = "none" /\ ~m_curl
    BY <1>4, Zenon DEF Construct, Handle
  <2>2. UNCHANGED m_curl \/ (m_curl' = TRUE /\ tpc' = "headers")
    <3>1. CASE ConstructNative
      BY <3>1 DEF ConstructNative, curlVars
    <3>2. CASE ConstructCurl
      BY <3>2, Zenon DEF ConstructCurl
    <3> QED
      BY <1>4, <3>1, <3>2, Zenon DEF Construct
  <2> QED
    BY <1>1, <1>3, <2>1, <2>2, Zenon
<1>5. ASSUME AppendHeader \/ SetOptions PROVE Handle'
  <2>1. CASE Catch
    BY <1>2, <2>1, Zenon DEF Catch
  <2>2. CASE ~Catch
    <3>1. UNCHANGED m_curl
      BY <1>5, <2>2 DEF AppendHeader, SetOptions, curlVars
    <3>2. tpc' \in {"headers", "options", "idle"}
      BY <1>5, <2>2 DEF AppendHeader, SetOptions
    <3>3. tpc' \notin {"none", "threw"}
      BY <3>2
    <3> QED
      BY <1>1, <3>1, <3>3, Zenon
  <2> QED
    BY <2>1, <2>2
<1>6. ASSUME DestroyTransport PROVE Handle'
  BY <1>2, <1>6, Zenon DEF DestroyTransport
<1>7. ASSUME \/ Resolve \/ Socket \/ ConnectStep \/ send_all \/ Perform \/ discard_response
             \/ \E body : send(body)
      PROVE  Handle'
  <2>1. UNCHANGED m_curl /\ tpc' \notin {"none", "threw"}
    BY <1>7 DEF Resolve, Socket, ConnectStep, send_all, Perform, discard_response, send,
                SetFlags, Connected, GiveUpAddress, NextAddress, Return, curlVars
  <2> QED
    BY <1>1, <2>1
<1>8. ASSUME UNCHANGED transportVars PROVE Handle'
  BY <1>1, <1>8 DEF transportVars, curlVars
<1> QED
  BY <1>4, <1>5, <1>6, <1>7, <1>8 DEF TransportStep

\* Every call of the transport, whether it succeeds or fails, acquires and
\* releases what its place says.
LEMMA TransportKept ==
  ASSUME Transport,
         \/ TransportStep \/ discard_response \/ Construct \/ DestroyTransport
         \/ (\E body : send(body)) \/ UNCHANGED transportVars
  PROVE  Transport'
<1> USE TransportAssumption DEF nativeVars, curlVars, Constructing, Sending, SocketOpen, Flags,
        Headers
<1>1. ASSUME UNCHANGED transportVars PROVE Transport'
  BY <1>1 DEF transportVars, Transport
<1>2. ASSUME Construct \/ DestroyTransport \/ \E body : send(body) PROVE Transport'
  <2>1. /\ UNCHANGED <<transport_impl, addresses, sockets, fd>>
        /\ \/ tpc = "none" /\ tpc' \in {"idle", "threw", "headers"} /\ m_headers' = m_headers
           \/ tpc = "idle" /\ tpc' = "none" /\ m_headers' = 0
           \/ tpc = "idle" /\ tpc' \in {"resolve", "perform"} /\ m_headers' = m_headers
    BY <1>2 DEF Construct, ConstructNative, ConstructCurl, DestroyTransport, send
  <2> QED
    BY <2>1 DEF Transport
<1>3. ASSUME AppendHeader \/ SetOptions PROVE Transport'
  <2>1. /\ UNCHANGED <<transport_impl, addresses, sockets, fd>>
        /\ \/ tpc' = "threw" /\ m_headers' = 0
           \/ tpc = "options" /\ tpc' = "idle" /\ m_headers' = m_headers
           \/ /\ tpc = "headers" /\ m_headers' = m_headers + 1
              /\ (tpc' = "headers" /\ m_headers' < Headers) \/ tpc' = "options"
        /\ tpc \in {"headers", "options"}
    BY <1>3 DEF AppendHeader, SetOptions, Catch
  <2> QED
    BY <2>1 DEF Transport
<1>4. ASSUME Return, tpc \in SocketOpen => sockets' = Without(fd),
             tpc \in {"resolve", "socket"} => sockets' = sockets,
             tpc \in SocketOpen \union {"resolve", "socket"},
             UNCHANGED <<transport_impl, curlVars>>
      PROVE  Transport'
  <2>1. DOMAIN sockets' = {}
    BY <1>4, Zenon DEF Without, Transport
  <2> QED
    BY <1>4, <2>1 DEF Return, Transport
<1>5. ASSUME NextAddress, tpc \in SocketOpen => sockets' = Without(fd),
             tpc = "socket" => sockets' = sockets,
             tpc \in {"socket", "nonblock", "connect", "poll", "restore"},
             UNCHANGED <<transport_impl, curlVars>>
      PROVE  Transport'
  <2>1. CASE addresses > 1
    <3>1. DOMAIN sockets' = {}
      BY <1>5, Zenon DEF Without, Transport
    <3> QED
      BY <1>5, <2>1, <3>1 DEF NextAddress, Transport
  <2>2. CASE ~(addresses > 1)
    BY <1>4, <1>5, <2>2 DEF NextAddress
  <2> QED
    BY <2>1, <2>2
<1>6. ASSUME Resolve PROVE Transport'
  <2>1. CASE Return
    BY <1>4, <1>6, <2>1 DEF Resolve
  <2>2. CASE ~Return
    BY <1>6, <2>2 DEF Resolve, Transport
  <2> QED
    BY <2>1, <2>2
<1>7. ASSUME Socket PROVE Transport'
  <2>1. CASE NextAddress /\ UNCHANGED sockets
    BY <1>5, <1>7, <2>1 DEF Socket
  <2>2. CASE /\ fd' = NewFd /\ tpc' = "nonblock"
             /\ sockets' = [f \in DOMAIN sockets \union {fd'} |->
                              IF f = fd' THEN "blocking" ELSE sockets[f]]
             /\ UNCHANGED <<addresses, data, wire>>
    <3>1. DOMAIN sockets = {} /\ tpc = "socket" /\ UNCHANGED <<transport_impl, curlVars>>
      BY <1>7 DEF Socket, Transport
    <3>2. NewFd = 0
      <4>1. Cardinality(DOMAIN sockets) = 0
        BY <3>1, FS_EmptySet
      <4>2. 0..0 = {0} /\ 0..(0 - 1) = {}
        OBVIOUS
      <4>3. NewFd = CHOOSE f \in {0} : f \notin {} /\ \A g \in 0..(f - 1) : g \in {}
        BY <3>1, <4>1, <4>2 DEF NewFd
      <4>4. \E f \in {0} : f \notin {} /\ \A g \in 0..(f - 1) : g \in {}
        BY <4>2
      <4> QED
        BY <4>3, <4>4
    <3>3. sockets' = [f \in {0} |-> "blocking"]
      BY <2>2, <3>1, <3>2
    <3> QED
      BY <2>2, <3>1, <3>2, <3>3 DEF Transport
  <2> QED
    BY <1>7, <2>1, <2>2 DEF Socket
<1>8. ASSUME ConnectStep PROVE Transport'
  <2>1. CASE GiveUpAddress
    BY <1>5, <1>8, <2>1 DEF ConnectStep, GiveUpAddress
  <2>2. CASE SetFlags
    BY <1>8, <2>2 DEF ConnectStep, SetFlags, Transport
  <2>3. CASE Connected
    BY <1>8, <2>3 DEF ConnectStep, Connected, Transport
  <2> QED
    BY <1>8, <2>1, <2>2, <2>3 DEF ConnectStep
<1>9. ASSUME send_all PROVE Transport'
  <2>1. CASE Return /\ sockets' = Without(fd)
    BY <1>4, <1>9, <2>1 DEF send_all
  <2>2. CASE ~(Return /\ sockets' = Without(fd))
    <3>1. /\ tpc = "send" /\ tpc' \in {"send", "discard"}
          /\ UNCHANGED <<addresses, sockets, fd, transport_impl, m_curl, m_headers>>
      BY <1>9, <2>2 DEF send_all
    <3> QED
      BY <3>1 DEF Transport
  <2> QED
    BY <2>1, <2>2
<1>10. ASSUME Perform PROVE Transport'
  BY <1>10 DEF Perform, Transport
<1>11. ASSUME discard_response PROVE Transport'
  BY <1>4, <1>11 DEF discard_response
<1> QED
  BY <1>1, <1>2, <1>3, <1>6, <1>7, <1>8, <1>9, <1>10, <1>11 DEF TransportStep

-------------------------------------------------------------------------------
(***************************************************************************)
(* The shared sinks, and what the worker has of its message.               *)
(***************************************************************************)
NoRepeats(s) == \A i, j \in 1..Len(s) : s[i] = s[j] => i = j

SinksAdded ==
  /\ m_sinks \in Seq(Shared) /\ NoRepeats(m_sinks)
  /\ Range(m_sinks) \intersect todo = {}
  /\ open_files \subseteq {"file"}
  /\ "file" \in Range(m_sinks) /\ pc["main"] # "destroyed" => "file" \in open_files
  /\ pc["main"] = "destroyed" => open_files = {}

Work == [msg : Messages, sinks : Seq(Shared), line : Seq(Nat)]
IsStart(line) == line = [i \in 1..Len(line) |-> i]

WorkAt(w, where, sinks) ==
  /\ where \in {"read", "done"} => w = Idle
  /\ where \notin {"read", "done"} =>
       /\ w \in Work /\ NoRepeats(w.sinks) /\ Range(w.sinks) \subseteq Range(sinks)
       /\ IsStart(w.line) /\ Len(w.line) < LineLength
  /\ where \in {"format", "formatting", "write"} =>
       w.sinks # <<>> /\ admits(Head(w.sinks), w.msg)
  /\ where # "write" => w.line = <<>>

AtWork == WorkAt(work, pc["worker"], m_sinks)

\* The elements of a sequence that grows or shrinks by one.
LEMMA GrowsByOne ==
  ASSUME NEW S, NEW s \in Seq(S), NEW e \in S, NoRepeats(s), e \notin Range(s)
  PROVE  NoRepeats(Append(s, e)) /\ Range(Append(s, e)) = Range(s) \union {e}
<1>1. /\ Append(s, e) \in Seq(S) /\ Len(Append(s, e)) = Len(s) + 1 /\ Len(s) \in Nat
      /\ Append(s, e)[Len(s) + 1] = e /\ \A i \in 1..Len(s) : Append(s, e)[i] = s[i]
  BY AppendProperties, LenProperties
<1> DEFINE a == Append(s, e)
           n == Len(s)
<1>2. DOMAIN a = 1..(n + 1) /\ DOMAIN s = 1..n
  BY <1>1, LenProperties
<1> HIDE DEF a
<1>3. /\ Len(a) = n + 1 /\ a[n + 1] = e /\ \A i \in 1..n : a[i] = s[i]
      /\ n \in Nat /\ \A i \in 1..n : s[i] # e
  BY <1>1, <1>2 DEF a, Range
<1>4. NoRepeats(a)
  <2> SUFFICES ASSUME NEW i \in 1..(n + 1), NEW j \in 1..(n + 1), a[i] = a[j] PROVE i = j
    BY <1>3 DEF NoRepeats
  <2>1. (i \in 1..n \/ i = n + 1) /\ (j \in 1..n \/ j = n + 1)
    BY <1>3
  <2>2. CASE i \in 1..n /\ j \in 1..n
    BY <1>3, <2>2 DEF NoRepeats
  <2> QED
    BY <1>3, <2>1, <2>2
<1>5. Range(a) = Range(s) \union {e}
  <2>1. \A i \in 1..(n + 1) : i \in 1..n \/ i = n + 1
    BY <1>3
  <2>2. 1..n \subseteq 1..(n + 1) /\ n + 1 \in 1..(n + 1)
    BY <1>3
  <2> QED
    BY <1>2, <1>3, <2>1, <2>2 DEF Range
<1> QED
  BY <1>4, <1>5 DEF a

\* The tail of a sequence without repetitions has all but the head.
LEMMA ShrinksByOne ==
  ASSUME NEW S, NEW s \in Seq(S), s # <<>>, NoRepeats(s)
  PROVE  /\ Tail(s) \in Seq(S) /\ Head(s) \in S
         /\ NoRepeats(Tail(s)) /\ Range(Tail(s)) = Range(s) \ {Head(s)}
         /\ Head(s) \in Range(s)
<1> DEFINE r == Tail(s)
           n == Len(s)
<1>1. /\ r \in Seq(S) /\ Head(s) \in S /\ Head(s) = s[1] /\ Len(r) = n - 1
      /\ \A i \in 1..Len(r) : r[i] = s[i + 1]
  BY HeadTailProperties
<1>2. n \in Nat /\ n # 0 /\ DOMAIN s = 1..n /\ DOMAIN r = 1..Len(r)
  BY <1>1, LenProperties, EmptySeq
<1> HIDE DEF r, n
<1>3. /\ \A i \in 1..(n - 1) : r[i] = s[i + 1] /\ i + 1 \in 1..n /\ i + 1 # 1
      /\ DOMAIN r = 1..(n - 1) /\ Len(r) = n - 1 /\ 1 \in 1..n
  BY <1>1, <1>2 DEF n
<1>4. NoRepeats(r)
  <2> SUFFICES ASSUME NEW i \in 1..(n - 1), NEW j \in 1..(n - 1), r[i] = r[j] PROVE i = j
    BY <1>3 DEF NoRepeats
  <2>1. i + 1 = j + 1
    BY <1>3 DEF NoRepeats, n
  <2> QED
    BY <2>1
<1>5. Range(r) = Range(s) \ {Head(s)}
  <2>1. ASSUME NEW i \in 1..(n - 1) PROVE r[i] \in Range(s) \ {Head(s)}
    BY <1>1, <1>2, <1>3, SMTT(30) DEF NoRepeats, n, Range
  <2>2. ASSUME NEW i \in 1..n, s[i] # Head(s) PROVE s[i] \in Range(r)
    <3>1. i - 1 \in 1..(n - 1) /\ i - 1 + 1 = i
      BY <1>1, <1>2, <2>2
    <3>2. r[i - 1] = s[i]
      BY <1>3, <3>1
    <3> QED
      BY <1>3, <3>1, <3>2, Zenon DEF Range
  <2>3. \A x \in Range(s) : x # Head(s) => x \in Range(r)
    BY <1>2, <2>2 DEF Range
  <2>4. \A x \in Range(r) : x \in Range(s) \ {Head(s)}
    BY <1>3, <2>1 DEF Range
  <2> QED
    BY <2>3, <2>4
<1>6. Head(s) \in Range(s)
  BY <1>1, <1>2, <1>3 DEF Range
<1> QED
  BY <1>1, <1>4, <1>5, <1>6 DEF r

\* add_sink adds a sink once, and opens its file; the files are closed after
\* the last use of the sinks.
LEMMA SinksStep ==
  ASSUME SinksAdded, Lifecycle, [Next]_vars
  PROVE  SinksAdded'
<1> USE OtherThreads
<1>0. pc \in [Threads -> Places]
  BY DEF Lifecycle
<1>1. ASSUME UNCHANGED <<m_sinks, open_files>>, todo' \subseteq todo,
             pc["main"] # "destroyed", pc'["main"] # "destroyed"
      PROVE  SinksAdded'
  BY <1>1 DEF SinksAdded, NoRepeats, Range
<1>2. ASSUME NEW s \in Shared, add_sink(s) PROVE SinksAdded'
  <2>1. /\ s \in todo /\ todo' = todo \ {s} /\ UNCHANGED pc /\ pc["main"] = "setup"
    BY <1>2 DEF add_sink
  <2>2. CASE UNCHANGED <<m_sinks, open_files>>
    BY <1>1, <2>1, <2>2
  <2>3. CASE /\ m_sinks' = Append(m_sinks, s)
             /\ open_files' = open_files \union ({s} \intersect {"file"})
    <3>1. s \notin Range(m_sinks) /\ m_sinks \in Seq(Shared) /\ NoRepeats(m_sinks)
      BY <2>1 DEF SinksAdded
    <3>2. NoRepeats(m_sinks') /\ Range(m_sinks') = Range(m_sinks) \union {s}
      BY <2>3, <3>1, GrowsByOne
    <3>3. m_sinks' \in Seq(Shared)
      BY <2>3, <3>1, AppendProperties
    <3>4. /\ NoRepeats(m_sinks)' /\ Range(m_sinks)' = Range(m_sinks) \union {s}
      BY <3>2 DEF NoRepeats, Range
    <3> QED
      BY <2>1, <2>3, <3>3, <3>4, Zenon DEF SinksAdded
  <2> QED
    BY <1>2, <2>2, <2>3 DEF add_sink
<1>3. ASSUME Joined \/ OtelJoined PROVE SinksAdded'
  <2>1. CASE UNCHANGED open_files /\ Goto("main", "join_otel") /\ Joined
    <3>1. pc'["main"] = "join_otel" /\ pc["main"] = "join"
      BY <1>0, <2>1, Moves DEF Places, MainPlaces, Joined
    <3> QED
      BY <1>1, <2>1, <3>1 DEF Joined
  <2>2. CASE CloseFiles /\ Goto("main", "destroyed") /\ (Joined \/ OtelJoined)
    <3>1. pc'["main"] = "destroyed" /\ open_files' = {} /\ UNCHANGED <<m_sinks, todo>>
      BY <1>0, <2>2, Moves DEF Places, MainPlaces, Joined, OtelJoined, CloseFiles
    <3> QED
      BY <3>1 DEF SinksAdded, NoRepeats, Range
  <2> QED
    BY <1>3, <2>1, <2>2 DEF Joined, OtelJoined
<1>4. ASSUME add_otel_sink \/ OtelSinkAdded \/ Run \/ DestroyLogger PROVE SinksAdded'
  <2>1. /\ UNCHANGED <<m_sinks, open_files>> /\ todo' \subseteq todo
        /\ pc["main"] # "destroyed"
    BY <1>4 DEF add_otel_sink, OtelSinkAdded, Run, DestroyLogger, sinkVars
  <2>2. pc'["main"] \in {"construct", "setup", "run", "join"}
    BY <1>0, <1>4 DEF add_otel_sink, OtelSinkAdded, Run, DestroyLogger, Goto
  <2> QED
    BY <1>1, <2>1, <2>2
<1>5. ASSUME UNCHANGED <<m_sinks, open_files, todo>>, pc'["main"] = pc["main"] PROVE SinksAdded'
  BY <1>5 DEF SinksAdded, NoRepeats, Range
<1>6. ASSUME \/ \E c \in Callers : log(c) \/ LogToShared(c)
             \/ Worker \/ Otel \/ InTransport \/ PeerDone \/ UNCHANGED vars
      PROVE  SinksAdded'
  <2>1. UNCHANGED <<m_sinks, open_files, todo>>
    BY <1>6, Zenon DEF log, LogToShared, Worker, ProcessLog, WriteToSink, write_message_log,
       write_to_output, BeginFormat, Otel, ReadFirst, serialize_record, Collect, Sent,
       InTransport, PeerDone, vars, loggerVars, sinkVars
  <2>2. pc'["main"] = pc["main"]
    <3>1. ASSUME NEW t \in Threads, NEW where, t # "main", Goto(t, where)
          PROVE  pc'["main"] = pc["main"]
      BY <1>0, <3>1 DEF Goto
    <3>2. ASSUME NEW c \in Callers, log(c) \/ LogToShared(c) PROVE pc'["main"] = pc["main"]
      BY <3>1, <3>2 DEF log, LogToShared
    <3>3. ASSUME Worker PROVE pc'["main"] = pc["main"]
      BY <3>1, <3>3, Zenon DEF Worker, ProcessLog, WriteToSink, write_message_log, write_to_output,
         BeginFormat, get_formatted_message, NextSink
    <3>4. ASSUME Otel PROVE pc'["main"] = pc["main"]
      BY <3>1, <3>4 DEF Otel, ReadFirst, serialize_record, Collect, Sent, BeginFormat,
         get_formatted_message
    <3>5. ASSUME InTransport \/ PeerDone \/ UNCHANGED vars PROVE pc'["main"] = pc["main"]
      BY <3>5 DEF InTransport, PeerDone, vars, loggerVars
    <3> QED
      BY <1>6, <3>2, <3>3, <3>4, <3>5
  <2> QED
    BY <1>5, <2>1, <2>2
<1> QED
  BY <1>2, <1>3, <1>4, <1>6 DEF Next, Destructor

\* A line that is written from its offset on has no gap and no repetition.
LEMMA StartGrows ==
  ASSUME work.line \in Seq(Nat), IsStart(work.line), NEW n \in Nat
  PROVE  /\ Written(n) \in Seq(Nat) /\ IsStart(Written(n))
         /\ Len(Written(n)) = Len(work.line) + n
<1> DEFINE s == work.line
           l == Len(s)
           t == [i \in 1..n |-> l + i]
           w == s \o t
<1>1. l \in Nat /\ s \in Seq(Nat) /\ \A i \in 1..l : s[i] = i
  BY LenProperties DEF IsStart
<1> HIDE DEF s, l
<1>2. t \in Seq(Nat) /\ Len(t) = n /\ \A i \in 1..n : t[i] = l + i
  BY <1>1, IsASeq
<1> HIDE DEF t
<1>3. /\ w \in Seq(Nat) /\ Len(w) = l + n
      /\ \A i \in 1..(l + n) : w[i] = IF i <= l THEN s[i] ELSE t[i - l]
  BY <1>1, <1>2, ConcatProperties, Zenon DEF l
<1> HIDE DEF w
<1>4. \A i \in 1..(l + n) : w[i] = i
  <2> TAKE i \in 1..(l + n)
  <2>1. CASE i <= l
    <3>1. i \in 1..l
      BY <1>1, <2>1
    <3> QED
      BY <1>1, <1>3, <2>1, <3>1, Zenon
  <2>2. CASE ~(i <= l)
    <3>1. i - l \in 1..n /\ l + (i - l) = i
      BY <1>1, <2>2
    <3> QED
      BY <1>2, <1>3, <2>2, <3>1
  <2> QED
    BY <2>1, <2>2
<1>5. w = [i \in 1..(l + n) |-> w[i]]
  BY <1>3
<1>6. w = [i \in 1..Len(w) |-> i]
  BY <1>3, <1>4, <1>5
<1>7. Written(n) = w
  BY DEF Written, w, t, s, l
<1> QED
  BY <1>3, <1>6, <1>7 DEF IsStart, l, s

\* The worker hands a message to the sinks one after the other, skips those that
\* do not admit it, and begins each line at its start.
LEMMA AtWorkStep ==
  ASSUME AtWork, SinksAdded, SinksAdded', Lifecycle, Queues, [Next]_vars
  PROVE  AtWork'
<1> USE OtherThreads
<1>0. /\ pc \in [Threads -> Places] /\ pc["worker"] \in WorkerPlaces
      /\ m_sinks \in Seq(Shared) /\ NoRepeats(m_sinks)
      /\ Idle.sinks = <<>> /\ Idle.line = <<>>
  BY DEF Lifecycle, SinksAdded, Idle
<1>1. ASSUME UNCHANGED <<work, m_sinks>>, pc'["worker"] = pc["worker"] PROVE AtWork'
  BY <1>1 DEF AtWork
\* The message of a worker that is neither idle nor gone
<1>2. ASSUME NEW w \in Work, NEW where \in WorkerPlaces \ {"read", "done"},
             Goto("worker", where), work' = w, UNCHANGED m_sinks,
             NoRepeats(w.sinks), Range(w.sinks) \subseteq Range(m_sinks),
             IsStart(w.line), Len(w.line) < LineLength,
             where # "sinks" => w.sinks # <<>> /\ admits(Head(w.sinks), w.msg),
             where # "write" => w.line = <<>>
      PROVE  AtWork'
  <2>1. pc'["worker"] = where
    BY <1>0, <1>2, Moves, ZenonT(40) DEF Places
  <2>2. WorkAt(w, where, m_sinks)
    BY <1>2, ZenonT(40) DEF WorkAt, WorkerPlaces
  <2> QED
    BY <1>2, <2>1, <2>2, Zenon DEF AtWork
<1>3. ASSUME NEW where \in {"read", "done"}, Goto("worker", where), work' = Idle,
             UNCHANGED m_sinks
      PROVE  AtWork'
  <2>1. pc'["worker"] = where
    BY <1>0, <1>3, Moves DEF Places, WorkerPlaces
  <2> QED
    BY <1>0, <1>3, <2>1 DEF AtWork, WorkAt
<1>4. <<>> \in Seq(Nat) /\ Len(<<>>) = 0 /\ IsStart(<<>>) /\ 0 < LineLength
  BY LoggerAssumption, EmptySeq DEF IsStart
<1>5. ASSUME ProcessLog PROVE AtWork'
  <2>1. pc["worker"] = "read" /\ work = Idle /\ UNCHANGED m_sinks
    BY <1>5 DEF ProcessLog, AtWork, WorkAt, sinkVars
  <2>2. CASE /\ m_channel.queue # <<>> /\ Goto("worker", "sinks")
             /\ work' = [msg |-> Head(m_channel.queue), sinks |-> m_sinks, line |-> <<>>]
    <3>1. Head(m_channel.queue) \in Messages
      BY <2>2, ChannelOps, Zenon DEF Queues
    <3> DEFINE w == [msg |-> Head(m_channel.queue), sinks |-> m_sinks, line |-> <<>>]
    <3>2. w \in Work /\ w.sinks = m_sinks /\ w.line = <<>>
      BY <1>0, <1>4, <3>1 DEF Work
    <3>3. work' = w
      BY <2>2
    <3> HIDE DEF w
    <3> QED
      BY <1>0, <1>2, <1>4, <2>1, <2>2, <3>2, <3>3 DEF WorkerPlaces
  <2>3. CASE Goto("worker", "done") /\ UNCHANGED work
    BY <1>3, <2>1, <2>3
  <2> QED
    BY <1>5, <2>2, <2>3 DEF ProcessLog
<1>6. ASSUME WriteToSink PROVE AtWork'
  <2>1. pc["worker"] = "sinks" /\ UNCHANGED m_sinks
    BY <1>6 DEF WriteToSink, sinkVars
  <2>2. CASE work' = Idle /\ Goto("worker", "read")
    BY <1>3, <2>1, <2>2
  <2>3. /\ work \in Work /\ work.sinks \in Seq(Shared) /\ NoRepeats(work.sinks)
        /\ Range(work.sinks) \subseteq Range(m_sinks) /\ IsStart(work.line)
        /\ work.line = <<>>
    BY <2>1 DEF AtWork, WorkAt, Work
  <2>4. CASE /\ work.sinks # <<>> /\ work' = [work EXCEPT !.sinks = Tail(@)] /\ UNCHANGED pc
    <3>1. /\ Tail(work.sinks) \in Seq(Shared) /\ NoRepeats(Tail(work.sinks))
          /\ Range(Tail(work.sinks)) \subseteq Range(m_sinks)
      BY <2>3, <2>4, ShrinksByOne
    <3>2. work' \in Work /\ work'.sinks = Tail(work.sinks) /\ work'.line = <<>>
      BY <2>3, <2>4, <3>1, ZenonT(40) DEF Work
    <3>3. Goto("worker", "sinks")
      BY <1>0, <2>1, <2>4 DEF Goto
    <3> QED
      BY <1>2, <1>4, <2>1, <3>1, <3>2, <3>3 DEF WorkerPlaces
  <2>5. CASE /\ work.sinks # <<>> /\ admits(Head(work.sinks), work.msg)
             /\ Goto("worker", "format") /\ UNCHANGED work
    BY <1>2, <1>4, <2>1, <2>3, <2>5 DEF WorkerPlaces
  <2> QED
    BY <1>6, <2>2, <2>4, <2>5 DEF WriteToSink
<1>7. ASSUME write_message_log \/ BeginFormat("worker", work.msg) PROVE AtWork'
  <2>1. /\ pc["worker"] \in {"format", "formatting"} /\ UNCHANGED <<m_sinks, work>>
        /\ Goto("worker", "write") \/ Goto("worker", "formatting")
    BY <1>7 DEF write_message_log, get_formatted_message, BeginFormat, sinkVars, workerVars
  <2>2. /\ work \in Work /\ NoRepeats(work.sinks)
        /\ Range(work.sinks) \subseteq Range(m_sinks) /\ IsStart(work.line)
        /\ work.line = <<>> /\ work.sinks # <<>> /\ admits(Head(work.sinks), work.msg)
    BY <2>1 DEF AtWork, WorkAt
  <2> QED
    BY <1>2, <1>4, <2>1, <2>2 DEF WorkerPlaces
<1>8. ASSUME write_to_output PROVE AtWork'
  <2>1. pc["worker"] = "write" /\ UNCHANGED m_sinks
    BY <1>8 DEF write_to_output, sinkVars
  <2>2. /\ work \in Work /\ work.sinks \in Seq(Shared) /\ NoRepeats(work.sinks)
        /\ Range(work.sinks) \subseteq Range(m_sinks) /\ IsStart(work.line)
        /\ work.line \in Seq(Nat) /\ work.sinks # <<>> /\ admits(Head(work.sinks), work.msg)
        /\ Len(work.line) < LineLength
    BY <2>1 DEF AtWork, WorkAt, Work
  <2>3. ASSUME NEW line, NextSink(line) PROVE AtWork'
    <3>1. /\ Tail(work.sinks) \in Seq(Shared) /\ NoRepeats(Tail(work.sinks))
          /\ Range(Tail(work.sinks)) \subseteq Range(m_sinks)
      BY <2>2, ShrinksByOne
    <3>2. work' = [work EXCEPT !.sinks = Tail(@), !.line = <<>>] /\ Goto("worker", "sinks")
      BY <2>3 DEF NextSink
    <3>3. work' \in Work /\ work'.sinks = Tail(work.sinks) /\ work'.line = <<>>
      BY <1>4, <2>2, <3>1, <3>2, Zenon DEF Work
    <3> QED
      BY <1>2, <1>4, <2>1, <3>1, <3>2, <3>3, ZenonT(40) DEF WorkerPlaces
  <2>4. ASSUME NEW n \in 1..(LineLength - Len(work.line)), Len(work.line) + n # LineLength,
               work' = [work EXCEPT !.line = Written(n)], UNCHANGED pc
        PROVE  AtWork'
    <3>1. n \in Nat /\ Len(work.line) + n < LineLength
      <4> DEFINE l == Len(work.line)
      <4>1. l \in Nat /\ l + n # LineLength /\ n \in 1..(LineLength - l) /\ LineLength \in Nat
        BY <2>2, <2>4, LoggerAssumption, LenProperties
      <4> HIDE DEF l
      <4>2. n \in Nat /\ l + n < LineLength
        BY <4>1
      <4> QED
        BY <4>2 DEF l
    <3>2. /\ Written(n) \in Seq(Nat) /\ IsStart(Written(n)) /\ Len(Written(n)) < LineLength
      BY <2>2, <3>1, StartGrows, Zenon
    <3>3. /\ work' \in Work /\ work'.sinks = work.sinks /\ work'.msg = work.msg
          /\ work'.line = Written(n)
      BY <2>2, <2>4, <3>2, ZenonT(40) DEF Work
    <3>4. Goto("worker", "write")
      BY <1>0, <2>1, <2>4 DEF Goto
    <3> QED
      BY <1>2, <2>1, <2>2, <3>2, <3>3, <3>4, Zenon DEF WorkerPlaces
  <2> QED
    BY <1>8, <2>3, <2>4 DEF write_to_output
<1>9. ASSUME \/ \E s \in Shared : add_sink(s)
             \/ add_otel_sink \/ OtelSinkAdded \/ Run
      PROVE  AtWork'
  <2>1. pc["main"] \in SettingUp /\ UNCHANGED work
    BY <1>9 DEF add_sink, add_otel_sink, OtelSinkAdded, Run, SettingUp, workerVars
  <2>2. pc["worker"] = "read" /\ work = Idle
    BY <2>1, ZenonT(40) DEF Queues, AtWork, WorkAt
  <2>3. pc'["worker"] = pc["worker"]
    BY <1>0, <1>9 DEF add_sink, add_otel_sink, OtelSinkAdded, Run, Goto
  <2> QED
    BY <1>0, <2>1, <2>2, <2>3, ZenonT(40) DEF AtWork, WorkAt
<1>10. ASSUME \/ \E c \in Callers : log(c) \/ LogToShared(c)
              \/ Otel \/ InTransport \/ PeerDone \/ DestroyLogger \/ Destructor
              \/ UNCHANGED vars
       PROVE  AtWork'
  <2>1. UNCHANGED <<work, m_sinks>>
    BY <1>10, Zenon DEF log, LogToShared, Otel, ReadFirst, serialize_record, Collect, Sent, BeginFormat,
       InTransport, PeerDone, DestroyLogger, Destructor, Joined, OtelJoined, vars, loggerVars,
       sinkVars, workerVars
  <2>2. ASSUME NEW t \in Threads, NEW where, t # "worker", Goto(t, where)
        PROVE  pc'["worker"] = pc["worker"]
    BY <1>0, <2>2 DEF Goto
  <2>3. ASSUME Otel PROVE pc'["worker"] = pc["worker"]
    BY <2>2, <2>3 DEF Otel, ReadFirst, serialize_record, Collect, Sent, BeginFormat,
       get_formatted_message
  <2>4. ASSUME NEW c \in Callers, log(c) \/ LogToShared(c) PROVE pc'["worker"] = pc["worker"]
    BY <2>2, <2>4 DEF log, LogToShared
  <2>5. ASSUME DestroyLogger \/ Destructor PROVE pc'["worker"] = pc["worker"]
    BY <2>2, <2>5 DEF DestroyLogger, Destructor, Joined, OtelJoined
  <2>6. ASSUME InTransport \/ PeerDone \/ UNCHANGED vars PROVE pc'["worker"] = pc["worker"]
    BY <2>6 DEF InTransport, PeerDone, vars, loggerVars
  <2>7. pc'["worker"] = pc["worker"]
    BY <1>10, <2>3, <2>4, <2>5, <2>6
  <2> QED
    BY <1>1, <2>1, <2>7
<1> QED
  BY <1>5, <1>6, <1>7, <1>8, <1>9, <1>10 DEF Next, Worker

-------------------------------------------------------------------------------
(***************************************************************************)
(* What the OpenTelemetry sink's thread has of its request.                *)
(***************************************************************************)
BatchAt(b, body, where) ==
  /\ body \in Seq(Messages)
  /\ where \in {"none", "read", "done"} => b = <<>> /\ body = <<>>
  /\ where \in {"format", "formatting"} =>
       (\E m \in Messages : b = <<m>>) /\ Len(body) < batch_size
  /\ where \in {"collect", "send"} => b = <<>> /\ Len(body) \in 1..batch_size

Requests(r) == r \in Seq(Seq(Messages)) /\ \A i \in DOMAIN r : Len(r[i]) \in 1..batch_size

Batches == BatchAt(batch, m_body, pc["otel"]) /\ Requests(requests)

\* A body grows by one record, while it has fewer than batch_size.
LEMMA BodyGrows ==
  ASSUME NEW body \in Seq(Messages), Len(body) < batch_size, NEW m \in Messages
  PROVE  /\ body \o <<m>> \in Seq(Messages) /\ Len(body \o <<m>>) \in 1..batch_size
         /\ Range(body \o <<m>>) = Range(body) \union {m}
<1>1. body \o <<m>> = Append(body, m)
  BY AppendIsConcat
<1> DEFINE a == Append(body, m)
           n == Len(body)
<1>2. /\ a \in Seq(Messages) /\ Len(a) = n + 1 /\ a[n + 1] = m /\ \A i \in 1..n : a[i] = body[i]
      /\ n \in Nat /\ DOMAIN body = 1..n /\ n < batch_size /\ batch_size \in Nat
  BY AppendProperties, LenProperties, LoggerAssumption
<1>3. DOMAIN a = 1..(n + 1)
  BY <1>2, LenProperties
<1> HIDE DEF a, n
<1>4. n + 1 \in 1..batch_size /\ 1..(n + 1) = 1..n \union {n + 1}
  BY <1>2
<1>5. Range(a) = Range(body) \union {m}
  BY <1>2, <1>3, <1>4 DEF Range
<1> QED
  BY <1>1, <1>2, <1>4, <1>5, Zenon DEF a

\* A request is handed to the transport with one record at least and batch_size
\* at most, and the next one starts from an empty body.
LEMMA BatchesStep ==
  ASSUME Batches, Lifecycle, Queues, [Next]_vars
  PROVE  Batches'
<1> USE OtherThreads
<1>0. pc \in [Threads -> Places] /\ pc["otel"] \in OtelPlaces
  BY DEF Lifecycle
<1>1. ASSUME UNCHANGED <<batch, m_body, requests>>, pc'["otel"] = pc["otel"] PROVE Batches'
  BY <1>1 DEF Batches
<1>2. ASSUME NEW where \in OtelPlaces, Goto("otel", where), BatchAt(batch', m_body', where),
             Requests(requests')
      PROVE  Batches'
  <2>1. pc'["otel"] = where
    BY <1>0, <1>2, Moves DEF Places
  <2> QED
    BY <1>2, <2>1 DEF Batches
<1>3. ASSUME otel_channel.queue # <<>>, batch' = <<Head(otel_channel.queue)>>,
             UNCHANGED <<m_body, requests>>, Goto("otel", "format"), Len(m_body) < batch_size
      PROVE  Batches'
  <2>1. Head(otel_channel.queue) \in Messages /\ m_body \in Seq(Messages) /\ Requests(requests)
    BY <1>3, ChannelOps, ZenonT(40) DEF Queues, Batches, BatchAt
  <2>2. BatchAt(batch', m_body', "format")
    BY <1>3, <2>1 DEF BatchAt
  <2> QED
    BY <1>2, <1>3, <2>1, <2>2, Zenon DEF OtelPlaces
<1>4. <<>> \in Seq(Messages) /\ Len(<<>>) = 0 /\ 0 < batch_size
  BY LoggerAssumption, EmptySeq
<1>5. ASSUME ReadFirst PROVE Batches'
  <2>1. pc["otel"] = "read" /\ UNCHANGED <<m_body, requests>> /\ batch = <<>> /\ m_body = <<>>
    BY <1>5 DEF ReadFirst, Batches, BatchAt
  <2>2. CASE Goto("otel", "done") /\ UNCHANGED batch
    <3>1. BatchAt(batch', m_body', "done") /\ Requests(requests')
      BY <1>4, <2>1, <2>2 DEF BatchAt, Batches
    <3> QED
      BY <1>2, <2>2, <3>1 DEF OtelPlaces
  <2> QED
    BY <1>3, <1>4, <1>5, <2>1, <2>2 DEF ReadFirst
<1>6. ASSUME batch # <<>> /\ BeginFormat("otel", batch[1]) PROVE Batches'
  <2>1. /\ pc["otel"] = "format" /\ UNCHANGED <<batch, m_body, requests>>
        /\ Goto("otel", "formatting")
    BY <1>6 DEF BeginFormat, otelVars
  <2>2. BatchAt(batch', m_body', "formatting") /\ Requests(requests')
    BY <2>1 DEF BatchAt, Batches
  <2> QED
    BY <1>2, <2>1, <2>2 DEF OtelPlaces
<1>7. ASSUME serialize_record PROVE Batches'
  <2>1. /\ pc["otel"] \in {"format", "formatting"} /\ m_body' = m_body \o batch
        /\ batch' = <<>> /\ UNCHANGED requests /\ Goto("otel", "collect")
    BY <1>7 DEF serialize_record, get_formatted_message
  <2>2. PICK m \in Messages : batch = <<m>>
    BY <2>1 DEF Batches, BatchAt
  <2>3. m_body \in Seq(Messages) /\ Len(m_body) < batch_size /\ Requests(requests)
    BY <2>1 DEF Batches, BatchAt
  <2>4. m_body' \in Seq(Messages) /\ Len(m_body') \in 1..batch_size
    BY <2>1, <2>2, <2>3, BodyGrows
  <2>5. BatchAt(batch', m_body', "collect")
    BY <2>1, <2>4 DEF BatchAt
  <2> QED
    BY <1>2, <2>1, <2>3, <2>5 DEF OtelPlaces
<1>8. ASSUME Collect PROVE Batches'
  <2>1. /\ pc["otel"] = "collect" /\ UNCHANGED m_body /\ batch = <<>>
        /\ Len(m_body) \in 1..batch_size /\ m_body \in Seq(Messages)
    BY <1>8 DEF Collect, Batches, BatchAt
  <2>2. CASE ~BatchFull /\ otel_channel.queue # <<>>
    <3>1. Len(m_body) < batch_size
      BY <2>1, <2>2, LoggerAssumption DEF BatchFull
    <3> QED
      BY <1>3, <1>8, <2>1, <2>2, <3>1 DEF Collect
  <2>3. CASE ~(~BatchFull /\ otel_channel.queue # <<>>)
    <3>1. /\ requests' = Append(requests, m_body) /\ Goto("otel", "send") /\ UNCHANGED batch
      BY <1>8, <2>3 DEF Collect
    <3>2. BatchAt(batch', m_body', "send")
      BY <2>1, <3>1 DEF BatchAt
    <3>3. Requests(requests')
      <4>1. requests \in Seq(Seq(Messages)) /\ \A i \in DOMAIN requests : Len(requests[i]) \in 1..batch_size
        BY DEF Batches, Requests
      <4> DEFINE n == Len(requests)
                 a == Append(requests, m_body)
      <4>2. /\ a \in Seq(Seq(Messages)) /\ Len(a) = n + 1 /\ a[n + 1] = m_body
            /\ \A i \in 1..n : a[i] = requests[i]
            /\ n \in Nat /\ DOMAIN requests = 1..n
        BY <2>1, <4>1, AppendProperties, LenProperties
      <4>3. DOMAIN a = 1..(n + 1)
        BY <4>2, LenProperties
      <4> HIDE DEF a, n
      <4>4. 1..(n + 1) = 1..n \union {n + 1}
        BY <4>2
      <4>5. \A i \in DOMAIN a : Len(a[i]) \in 1..batch_size
        BY <2>1, <4>1, <4>2, <4>3, <4>4, Zenon
      <4> QED
        BY <3>1, <4>2, <4>5, Zenon DEF Requests, a
    <3> QED
      BY <1>2, <3>1, <3>2, <3>3 DEF OtelPlaces
  <2> QED
    BY <2>2, <2>3
<1>9. ASSUME Sent PROVE Batches'
  <2>1. /\ m_body' = <<>> /\ UNCHANGED <<batch, requests>> /\ Goto("otel", "read")
        /\ batch = <<>> /\ Requests(requests)
    BY <1>9 DEF Sent, Batches, BatchAt
  <2>2. BatchAt(batch', m_body', "read") /\ Requests(requests')
    BY <1>4, <2>1 DEF BatchAt
  <2> QED
    BY <1>2, <2>1, <2>2 DEF OtelPlaces
<1>10. ASSUME OtelSinkAdded PROVE Batches'
  <2>1. UNCHANGED <<batch, m_body, requests>> /\ pc["otel"] = "none"
    BY <1>10 DEF OtelSinkAdded, otelVars, Lifecycle
  <2>2. pc'["otel"] \in {"none", "read"}
    BY <1>0, <1>10, <2>1 DEF OtelSinkAdded, Goto
  <2> QED
    BY <2>1, <2>2 DEF Batches, BatchAt
<1>11. ASSUME \/ \E s \in Shared : add_sink(s)
              \/ add_otel_sink \/ Run \/ DestroyLogger \/ Destructor
              \/ \E c \in Callers : log(c) \/ LogToShared(c)
              \/ Worker \/ InTransport \/ PeerDone \/ UNCHANGED vars
       PROVE  Batches'
  <2>1. UNCHANGED <<batch, m_body, requests>>
    BY <1>11, Zenon DEF add_sink, add_otel_sink, Run, DestroyLogger, Destructor, Joined, OtelJoined,
       log, LogToShared, Worker, ProcessLog, WriteToSink, write_message_log, write_to_output,
       BeginFormat, InTransport, PeerDone, vars, loggerVars, otelVars
  <2>2. ASSUME NEW t \in Threads, NEW where, t # "otel", Goto(t, where)
        PROVE  pc'["otel"] = pc["otel"]
    BY <1>0, <2>2 DEF Goto
  <2>3. ASSUME Worker PROVE pc'["otel"] = pc["otel"]
    BY <2>2, <2>3, Zenon DEF Worker, ProcessLog, WriteToSink, write_message_log, write_to_output,
       NextSink, BeginFormat, get_formatted_message
  <2>4. ASSUME NEW c \in Callers, log(c) \/ LogToShared(c) PROVE pc'["otel"] = pc["otel"]
    BY <2>2, <2>4 DEF log, LogToShared
  <2>5. ASSUME \/ \E s \in Shared : add_sink(s)
               \/ add_otel_sink \/ Run \/ DestroyLogger \/ Destructor
               \/ InTransport \/ PeerDone \/ UNCHANGED vars
        PROVE  pc'["otel"] = pc["otel"]
    BY <2>2, <2>5 DEF add_sink, add_otel_sink, Run, DestroyLogger, Destructor, Joined,
       OtelJoined, InTransport, PeerDone, vars, loggerVars
  <2>7. pc'["otel"] = pc["otel"]
    BY <1>11, <2>3, <2>4, <2>5
  <2> QED
    BY <1>1, <2>1, <2>7
<1> QED
  BY <1>5, <1>6, <1>7, <1>8, <1>9, <1>10, <1>11 DEF Next, Otel

-------------------------------------------------------------------------------
(***************************************************************************)
(* The text of a message, once formed, stays, and it is formed before it   *)
(* is used.                                                                *)
(***************************************************************************)
Texts ==
  /\ text \in [Messages -> {"none", "forming", "formed"}]
  /\ pc["worker"] = "write" => text[work.msg] = "formed"
  /\ \A m \in Range(m_body) : text[m] = "formed"

\* std::call_once forms a text before anybody goes on with it, and formed it stays.
LEMMA TextsStep ==
  ASSUME Texts, AtWork, Batches, Lifecycle, [Next]_vars
  PROVE  Texts'
<1> USE OtherThreads
<1>0. pc \in [Threads -> Places] /\ text \in [Messages -> {"none", "forming", "formed"}]
  BY DEF Lifecycle, Texts
<1>1. ASSUME NEW m \in Messages, BeginFormat("worker", m) \/ BeginFormat("otel", m) PROVE Texts'
  <2>1. /\ text[m] = "none" /\ text' = [text EXCEPT ![m] = "forming"]
        /\ UNCHANGED <<work, m_body>>
        /\ Goto("worker", "formatting") \/ Goto("otel", "formatting")
    BY <1>1 DEF BeginFormat, workerVars, otelVars
  <2>2. pc'["worker"] = "write" => pc["worker"] = "write"
    BY <1>0, <2>1 DEF Goto
  <2>3. text' \in [Messages -> {"none", "forming", "formed"}]
    BY <1>0, <2>1
  <2>4. \A k : text[k] = "formed" => text'[k] = "formed"
    BY <1>0, <2>1
  <2> QED
    BY <2>1, <2>2, <2>3, <2>4 DEF Texts
<1>2. ASSUME NEW t \in {"worker", "otel"}, NEW m \in Messages, NEW where,
             get_formatted_message(t, m, where)
      PROVE  /\ text' \in [Messages -> {"none", "forming", "formed"}] /\ text'[m] = "formed"
             /\ \A k \in Messages : text[k] = "formed" => text'[k] = "formed"
  BY <1>0, <1>2 DEF get_formatted_message, MayUse
<1>3. ASSUME write_message_log PROVE Texts'
  <2>1. /\ get_formatted_message("worker", work.msg, "write") /\ UNCHANGED <<work, m_body>>
        /\ pc["worker"] \in {"format", "formatting"}
    BY <1>3 DEF write_message_log, get_formatted_message, workerVars, otelVars
  <2>2. work.msg \in Messages /\ m_body \in Seq(Messages)
    BY <2>1 DEF AtWork, WorkAt, Work, Batches, BatchAt
  <2>3. \A k \in Range(m_body) : k \in Messages
    BY <2>2 DEF Range
  <2>4. /\ text' \in [Messages -> {"none", "forming", "formed"}] /\ text'[work.msg] = "formed"
        /\ \A k \in Messages : text[k] = "formed" => text'[k] = "formed"
    BY <1>2, <2>1, <2>2
  <2> QED
    BY <2>1, <2>3, <2>4 DEF Texts
<1>4. ASSUME serialize_record PROVE Texts'
  <2>1. /\ get_formatted_message("otel", batch[1], "collect") /\ UNCHANGED work
        /\ pc["otel"] \in {"format", "formatting"} /\ m_body' = m_body \o batch
        /\ Goto("otel", "collect")
    BY <1>4 DEF serialize_record, get_formatted_message, workerVars
  <2>2. PICK m \in Messages : batch = <<m>>
    BY <2>1 DEF Batches, BatchAt
  <2>3. m_body \in Seq(Messages) /\ Len(m_body) < batch_size
    BY <2>1 DEF Batches, BatchAt
  <2>4. Range(m_body') = Range(m_body) \union {m} /\ batch[1] = m
    BY <2>1, <2>2, <2>3, BodyGrows
  <2>5. /\ text' \in [Messages -> {"none", "forming", "formed"}] /\ text'[m] = "formed"
        /\ \A k \in Messages : text[k] = "formed" => text'[k] = "formed"
    BY <1>2, <2>1, <2>4
  <2>6. pc'["worker"] = pc["worker"]
    BY <1>0, <2>1 DEF Goto
  <2>7. pc["worker"] = "write" => work.msg \in Messages
    BY DEF AtWork, WorkAt, Work
  <2>8. \A k \in Range(m_body) : k \in Messages
    BY <2>3 DEF Range
  <2>9. Range(m_body)' = Range(m_body')
    BY DEF Range
  <2>10. \A k \in Range(m_body') : text'[k] = "formed"
    BY <2>4, <2>5, <2>8 DEF Texts
  <2>11. pc'["worker"] = "write" => text'[work'.msg] = "formed"
    BY <2>1, <2>5, <2>6, <2>7 DEF Texts
  <2> QED
    BY <2>5, <2>9, <2>10, <2>11 DEF Texts
<1>5. ASSUME UNCHANGED text, Range(m_body') \subseteq Range(m_body),
             pc'["worker"] = "write" => pc["worker"] = "write" /\ work'.msg = work.msg
      PROVE  Texts'
  BY <1>5, Range(m_body)' = Range(m_body') DEF Texts
<1>6. ASSUME ProcessLog \/ WriteToSink \/ write_to_output PROVE Texts'
  <2>1. UNCHANGED <<text, m_body>>
    BY <1>6 DEF ProcessLog, WriteToSink, write_to_output, otelVars
  <2>2. CASE write_to_output
    <3>1. work \in Work
      BY <2>2 DEF write_to_output, AtWork, WorkAt
    <3>2. work'.msg = work.msg
      BY <2>2, <3>1, Zenon DEF write_to_output, NextSink, Work
    <3> QED
      BY <1>5, <2>1, <2>2, <3>2 DEF write_to_output
  <2>3. CASE ProcessLog \/ WriteToSink
    <3>1. pc'["worker"] # "write"
      BY <1>0, <2>3 DEF ProcessLog, WriteToSink, Goto
    <3> QED
      BY <1>5, <2>1, <3>1
  <2> QED
    BY <1>6, <2>2, <2>3
<1>7. ASSUME \/ \E s \in Shared : add_sink(s)
             \/ add_otel_sink \/ OtelSinkAdded \/ Run \/ DestroyLogger \/ Destructor
             \/ \E c \in Callers : log(c) \/ LogToShared(c)
             \/ ReadFirst \/ Collect \/ Sent
             \/ InTransport \/ PeerDone \/ UNCHANGED vars
       PROVE  Texts'
  <2>1. UNCHANGED <<text, work>> /\ (m_body' = m_body \/ m_body' = <<>>)
    BY <1>7, Zenon DEF add_sink, add_otel_sink, OtelSinkAdded, Run, DestroyLogger, Destructor, Joined,
       OtelJoined, log, LogToShared, ReadFirst, Collect, Sent, InTransport, PeerDone, vars,
       loggerVars, otelVars, workerVars
  <2>2. Range(<<>>) = {}
    BY DEF Range
  <2>3. ASSUME NEW t \in Threads, NEW where, t # "worker", Goto(t, where)
        PROVE  pc'["worker"] = pc["worker"]
    BY <1>0, <2>3 DEF Goto
  <2>4. ASSUME NEW c \in Callers, log(c) \/ LogToShared(c) PROVE pc'["worker"] = pc["worker"]
    BY <2>3, <2>4 DEF log, LogToShared
  <2>5. ASSUME OtelSinkAdded PROVE pc'["worker"] = pc["worker"]
    BY <1>0, <2>5 DEF OtelSinkAdded, Goto
  <2>6. ASSUME \/ \E s \in Shared : add_sink(s)
               \/ add_otel_sink \/ Run \/ DestroyLogger \/ Destructor
               \/ ReadFirst \/ Collect \/ Sent
               \/ InTransport \/ PeerDone \/ UNCHANGED vars
        PROVE  pc'["worker"] = pc["worker"]
    BY <2>3, <2>6 DEF add_sink, add_otel_sink, Run, DestroyLogger, Destructor, Joined,
       OtelJoined, ReadFirst, Collect, Sent, InTransport, PeerDone, vars, loggerVars
  <2>7. pc'["worker"] = pc["worker"]
    BY <1>7, <2>4, <2>5, <2>6
  <2> QED
    BY <1>5, <2>1, <2>2, <2>7
<1>8. ASSUME work.sinks # <<>>, BeginFormat("worker", work.msg) PROVE Texts'
  <2>1. work.msg \in Messages
    BY <1>8 DEF BeginFormat, AtWork, WorkAt, Work
  <2> QED
    BY <1>1, <1>8, <2>1
<1>9. ASSUME batch # <<>>, BeginFormat("otel", batch[1]) PROVE Texts'
  <2>1. batch[1] \in Messages
    BY <1>9 DEF BeginFormat, Batches, BatchAt
  <2> QED
    BY <1>1, <1>9, <2>1
<1> QED
  BY <1>3, <1>4, <1>6, <1>7, <1>8, <1>9 DEF Next, Worker, Otel

-------------------------------------------------------------------------------
(***************************************************************************)
(* The inductive invariant, and what it says.                              *)
(***************************************************************************)
ErrorsBounded == errors \in 0..MaxErrors

LoggerInvariant ==
  /\ Lifecycle /\ Queues /\ Handle /\ Transport
  /\ SinksAdded /\ AtWork /\ Batches /\ Texts /\ ErrorsBounded

\* The invariant holds before the first sink is added.
LEMMA LoggerInvariantInit == Init => LoggerInvariant
<1> SUFFICES ASSUME Init PROVE LoggerInvariant
  OBVIOUS
<1>1. Lifecycle /\ Queues /\ Handle /\ Transport
  BY LifecycleInit, QueuesInit, TransportInitially DEF Init
<1>2. /\ pc["main"] = "setup" /\ pc["worker"] = "read" /\ pc["otel"] = "none"
  BY OtherThreads DEF Init
<1>3. <<>> \in Seq(Shared) /\ <<>> \in Seq(Messages) /\ <<>> \in Seq(Seq(Messages))
      /\ Len(<<>>) = 0 /\ Range(<<>>) = {} /\ DOMAIN <<>> = {}
  BY EmptySeq DEF Range
<1>4. SinksAdded
  BY <1>2, <1>3 DEF SinksAdded, NoRepeats, Init
<1>5. AtWork
  <2>1. Idle.line = <<>>
    BY DEF Idle
  <2> QED
    BY <1>2, <2>1 DEF AtWork, WorkAt, Init
<1>6. Batches
  BY <1>2, <1>3 DEF Batches, BatchAt, Requests, Init
<1>7. Texts
  <2>1. text = [m \in Messages |-> "none"] /\ m_body = <<>>
    BY DEF Init
  <2> QED
    BY <1>2, <1>3, <2>1 DEF Texts
<1>8. ErrorsBounded
  BY LoggerAssumption DEF ErrorsBounded, Init
<1> QED
  BY <1>1, <1>4, <1>5, <1>6, <1>7, <1>8 DEF LoggerInvariant

\* Each of its parts is kept by a step, given the others.
LEMMA LoggerInvariantStep == LoggerInvariant /\ [Next]_vars => LoggerInvariant'
<1> SUFFICES ASSUME LoggerInvariant, [Next]_vars PROVE LoggerInvariant'
  OBVIOUS
<1>1. /\ Lifecycle /\ Queues /\ Handle /\ Transport
      /\ SinksAdded /\ AtWork /\ Batches /\ Texts /\ ErrorsBounded
  BY DEF LoggerInvariant
<1>2. Lifecycle' /\ Queues'
  BY <1>1, LifecycleStep, QueuesStep
<1>3. \/ TransportStep \/ discard_response \/ Construct \/ DestroyTransport
      \/ (\E body : send(body)) \/ UNCHANGED transportVars
  <2>1. ASSUME \/ \E s \in Shared : add_sink(s)
               \/ OtelSinkAdded \/ Run \/ DestroyLogger \/ Joined
               \/ \E c \in Callers : log(c) \/ LogToShared(c)
               \/ Worker \/ ReadFirst \/ serialize_record \/ Sent
               \/ BeginFormat("otel", batch[1]) \/ UNCHANGED vars
        PROVE  UNCHANGED transportVars
    BY <2>1, Zenon DEF add_sink, OtelSinkAdded, Run, DestroyLogger, Joined, log, LogToShared, Worker,
       ProcessLog, WriteToSink, write_message_log, write_to_output, BeginFormat, ReadFirst,
       serialize_record, Sent, vars
  <2>2. ASSUME Collect PROVE (\E body : send(body)) \/ UNCHANGED transportVars
    BY <2>2 DEF Collect
  <2>3. ASSUME add_otel_sink PROVE Construct
    BY <2>3 DEF add_otel_sink
  <2>4. ASSUME OtelJoined PROVE DestroyTransport
    BY <2>4 DEF OtelJoined
  <2> QED
    BY <2>1, <2>2, <2>3, <2>4 DEF Next, Otel, InTransport, PeerDone, Destructor
<1>4. Handle' /\ Transport'
  BY <1>1, <1>3, HandleKept, TransportKept
<1>5. SinksAdded'
  BY <1>1, SinksStep
<1>6. AtWork'
  BY <1>1, <1>5, AtWorkStep
<1>7. Batches' /\ Texts'
  BY <1>1, BatchesStep, TextsStep
<1>8. ErrorsBounded'
  <2>1. CASE write_to_output
    BY <1>1, <2>1, LoggerAssumption DEF write_to_output, ErrorsBounded
  <2>2. CASE ~write_to_output
    <3>1. UNCHANGED errors
      BY <2>2, Zenon DEF Next, Otel, Destructor, add_sink, add_otel_sink, OtelSinkAdded, Run,
         DestroyLogger, Joined, OtelJoined, log, LogToShared, Worker, ProcessLog, WriteToSink,
         write_message_log, BeginFormat, ReadFirst, serialize_record, Collect, Sent,
         InTransport, PeerDone, vars, loggerVars, workerVars
    <3> QED
      BY <1>1, <3>1 DEF ErrorsBounded
  <2> QED
    BY <2>1, <2>2
<1> QED
  BY <1>2, <1>4, <1>5, <1>6, <1>7, <1>8 DEF LoggerInvariant

\* So it holds in every reachable state.
LEMMA LoggerInvariantHolds == Spec => []LoggerInvariant
BY LoggerInvariantInit, LoggerInvariantStep, PTL DEF Spec

\* Types, for any threads, messages and levels.
THEOREM LoggerTypes == Spec => []TypeOK
<1>1. ASSUME LoggerInvariant PROVE TypeOK
  <2>1. TransportTypeOK
    <3>1. m_curl \in BOOLEAN
      BY <1>1, Zenon DEF LoggerInvariant, Handle
    <3>2. \A f \in DOMAIN sockets : sockets[f] \in {"blocking", "nonblocking"}
      BY <1>1 DEF LoggerInvariant, Transport, Flags
    <3>3. /\ transport_impl \in Transports /\ m_headers \in 0..Headers
          /\ addresses \in 0..MaxAddresses /\ fd \in -1..MaxAddresses
      BY <1>1, TransportAssumption DEF LoggerInvariant, Transport
    <3>4. tpc \in {"none", "headers", "options", "threw", "idle", "resolve",
                   "socket", "nonblock", "connect", "poll", "restore", "send",
                   "discard", "perform"}
      BY <1>1 DEF LoggerInvariant, Transport, Constructing, Sending, SocketOpen
    <3> QED
      BY <3>1, <3>2, <3>3, <3>4 DEF TransportTypeOK
  <2>2. \A S : \A s \in Seq(S) : Range(s) \subseteq S
    BY DEF Range
  <2>3. /\ todo \subseteq Sinks /\ open_files \subseteq {"file"}
        /\ m_own_channel_sinks \subseteq {"otel"} /\ Range(m_sinks) \subseteq Shared
    BY <1>1, <2>2 DEF LoggerInvariant, Lifecycle, SinksAdded
  <2>4. \A ch \in {m_channel, otel_channel} :
          Range(ch.queue) \subseteq Messages /\ ch.completed \in BOOLEAN
    <3>1. ASSUME NEW ch \in Channel
          PROVE  Range(ch.queue) \subseteq Messages /\ ch.completed \in BOOLEAN
      BY <2>2 DEF Channel
    <3> QED
      BY <1>1, <3>1 DEF LoggerInvariant, Queues
  <2>5. /\ pc["main"] \in MainPlaces /\ pc["worker"] \in WorkerPlaces
        /\ pc["otel"] \in OtelPlaces /\ \A c \in Callers : pc[c] \in {"idle", "shared"}
    BY <1>1 DEF LoggerInvariant, Lifecycle
  <2>6. \A c \in Callers : logged[c] \in 0..Len(Levels[c])
    BY <1>1, MessageIs DEF LoggerInvariant, Queues
  <2>7. text \in [Messages -> {"none", "forming", "formed"}] /\ errors \in 0..MaxErrors
    BY <1>1 DEF LoggerInvariant, Texts, ErrorsBounded
  <2>8. Range(work.sinks) \subseteq Shared
    <3>1. work = Idle \/ work \in Work
      BY <1>1, Zenon DEF LoggerInvariant, AtWork, WorkAt
    <3>2. Range(Idle.sinks) = {}
      BY DEF Idle, Range
    <3> QED
      BY <2>2, <3>1, <3>2 DEF Work
  <2>9. Range(batch \o m_body) \subseteq Messages
    <3>1. m_body \in Seq(Messages) /\ (batch = <<>> \/ \E m \in Messages : batch = <<m>>)
      BY <1>1, <2>5 DEF LoggerInvariant, Batches, BatchAt, OtelPlaces
    <3>2. batch \in Seq(Messages)
      <4>1. <<>> \in Seq(Messages) /\ \A m \in Messages : <<m>> \in Seq(Messages)
        BY EmptySeq
      <4> QED
        BY <3>1, <4>1, Zenon
    <3>3. batch \o m_body \in Seq(Messages)
      BY <3>1, <3>2, ConcatProperties
    <3> QED
      BY <2>2, <3>3, Zenon
  <2> QED
    BY <2>1, <2>3, <2>4, <2>5, <2>6, <2>7, <2>8, <2>9
    DEF TypeOK, MainPlaces, WorkerPlaces, OtelPlaces
<1> QED
  BY <1>1, LoggerInvariantHolds, PTL

\* ~logger drains: when it has returned both threads have ended and nothing that
\* was logged is still on its way to a sink.
THEOREM DestructorDrains == Spec => []DrainedAtExit
<1>1. ASSUME LoggerInvariant PROVE DrainedAtExit
  <2> SUFFICES ASSUME pc["main"] = "destroyed" 
               PROVE  /\ pc["worker"] = "done" /\ pc["otel"] \in {"none", "done"}
                      /\ m_channel.queue = <<>> /\ otel_channel.queue = <<>>
                      /\ work.sinks = <<>> /\ batch = <<>> /\ m_body = <<>>
    BY DEF DrainedAtExit
  <2>1. pc["worker"] = "done" /\ pc["otel"] \in {"none", "done"}
    BY <1>1 DEF LoggerInvariant, Lifecycle
  <2>2. m_channel.queue = <<>> /\ otel_channel.queue = <<>>
    BY <1>1, <2>1 DEF LoggerInvariant, Queues
  <2>3. work = Idle /\ batch = <<>> /\ m_body = <<>>
    BY <1>1, <2>1 DEF LoggerInvariant, AtWork, WorkAt, Batches, BatchAt
  <2> QED
    BY <2>1, <2>2, <2>3 DEF Idle
<1> QED
  BY <1>1, LoggerInvariantHolds, PTL

\* std::call_once: neither thread puts out a message that the other one is
\* still formatting.
THEOREM TextFormedOnce == Spec => []TextWhole
<1>1. LoggerInvariant => TextWhole
  BY DEF LoggerInvariant, Texts, TextWhole
<1> QED
  BY <1>1, LoggerInvariantHolds, PTL

\* Whatever fails, the transport and the sinks release what they acquired, and
\* nothing that a thread still uses.
THEOREM NothingLeaks == Spec => []ResourcesBalanced
<1>1. ASSUME LoggerInvariant PROVE ResourcesBalanced
  <2> USE DEF Constructing, Sending, SocketOpen, Flags
  <2>1. DOMAIN sockets = {fd} \ {-1}
    <3>1. \/ fd = 0 /\ DOMAIN sockets = {0}
          \/ fd = -1 /\ DOMAIN sockets = {}
      BY <1>1 DEF LoggerInvariant, Transport
    <3>2. {0} \ {-1} = {0} /\ {-1} \ {-1} = {}
      OBVIOUS
    <3> QED
      BY <3>1, <3>2, Zenon
  <2>2. /\ tpc \in {"send", "discard"} => sockets[fd] = "blocking"
        /\ tpc \notin {"socket", "nonblock", "connect", "poll", "restore"} => addresses = 0
        /\ tpc \in {"none", "threw"} => m_headers = 0
    BY <1>1 DEF LoggerInvariant, Transport
  <2>3. tpc \in {"none", "threw"} => ~m_curl
    BY <1>1, Zenon DEF LoggerInvariant, Handle
  <2>4. pc["main"] = "destroyed" => open_files = {}
    BY <1>1 DEF LoggerInvariant, SinksAdded
  <2>5. ASSUME pc["worker"] = "write", Head(work.sinks) = "file" PROVE "file" \in open_files
    <3>1. /\ work \in Work /\ NoRepeats(work.sinks) /\ work.sinks # <<>>
          /\ Range(work.sinks) \subseteq Range(m_sinks)
      BY <1>1, <2>5 DEF LoggerInvariant, AtWork, WorkAt
    <3>2. "file" \in Range(m_sinks)
      BY <2>5, <3>1, ShrinksByOne DEF Work
    <3>3. pc["main"] # "destroyed"
      BY <1>1, <2>5 DEF LoggerInvariant, Lifecycle
    <3> QED
      BY <1>1, <3>2, <3>3 DEF LoggerInvariant, SinksAdded
  <2>6. pc["otel"] \in {"collect", "send"} => tpc # "none"
    BY <1>1 DEF LoggerInvariant, Lifecycle
  <2> QED
    BY <2>1, <2>2, <2>3, <2>4, <2>5, <2>6 DEF ResourcesBalanced
<1> QED
  BY <1>1, LoggerInvariantHolds, PTL

-------------------------------------------------------------------------------
(***************************************************************************)
(* The lines of the shared sinks.                                          *)
(***************************************************************************)
Line == Messages \X Seq(Nat)
ShortIn(lines) == {i \in DOMAIN lines : Len(lines[i][2]) < LineLength}

Lines ==
  /\ output \in [Shared -> Seq(Line)]
  /\ \A s \in Shared : \A i \in DOMAIN output[s] : IsStart(output[s][i][2])
  /\ Cardinality(ShortIn(output["console"])) + Cardinality(ShortIn(output["file"])) = errors

\* What the lines of a sink are with one more.
LEMMA OneMoreLine ==
  ASSUME NEW o \in Seq(Line), NEW e \in Line
  PROVE  /\ Append(o, e) \in Seq(Line) /\ Len(Append(o, e)) = Len(o) + 1
         /\ Append(o, e)[Len(o) + 1] = e /\ \A i \in 1..Len(o) : Append(o, e)[i] = o[i]
BY AppendProperties

\* A sink gets one more line.
LEMMA LineAdded ==
  ASSUME NEW o \in Seq(Line), \A i \in DOMAIN o : IsStart(o[i][2]),
         NEW m \in Messages, NEW line \in Seq(Nat), IsStart(line)
  PROVE  /\ Append(o, <<m, line>>) \in Seq(Line)
         /\ \A i \in DOMAIN Append(o, <<m, line>>) : IsStart(Append(o, <<m, line>>)[i][2])
         /\ Cardinality(ShortIn(o)) \in Nat
         /\ Cardinality(ShortIn(Append(o, <<m, line>>)))
              = Cardinality(ShortIn(o)) + (IF Len(line) < LineLength THEN 1 ELSE 0)
<1> DEFINE e == <<m, line>>
           a == Append(o, e)
           n == Len(o)
<1>1. e \in Line /\ e[2] = line
  BY DEF Line
<1> HIDE DEF e
<1>2. /\ a \in Seq(Line) /\ Len(a) = n + 1 /\ a[n + 1] = e /\ \A i \in 1..n : a[i] = o[i]
      /\ n \in Nat /\ DOMAIN o = 1..n
  <2>1. n \in Nat /\ DOMAIN o = 1..n
    BY LenProperties, Zenon DEF n
  <2>2. /\ Append(o, e) \in Seq(Line) /\ Len(Append(o, e)) = Len(o) + 1
        /\ Append(o, e)[Len(o) + 1] = e /\ \A i \in 1..Len(o) : Append(o, e)[i] = o[i]
    <3>1. o \in Seq(Line) /\ e \in Line
      BY <1>1, Zenon
    <3> QED
      BY <3>1, OneMoreLine, Zenon
  <2> QED
    BY <2>1, <2>2, Zenon DEF a, n
<1>3. DOMAIN a = 1..(n + 1)
  BY <1>2, LenProperties
<1> HIDE DEF a, n
<1>4. 1..(n + 1) = 1..n \union {n + 1} /\ n + 1 \notin 1..n
  BY <1>2
<1>5. \A i \in DOMAIN a : IsStart(a[i][2])
  BY <1>1, <1>2, <1>3, <1>4, ZenonT(40)
<1>6. ShortIn(a) = ShortIn(o) \union (IF Len(line) < LineLength THEN {n + 1} ELSE {})
  <2>1. \A i \in 1..n : i \in ShortIn(a) <=> i \in ShortIn(o)
    BY <1>2, <1>3, <1>4 DEF ShortIn
  <2>2. n + 1 \in ShortIn(a) <=> Len(line) < LineLength
    BY <1>1, <1>2, <1>3, <1>4 DEF ShortIn
  <2>3. ShortIn(a) \subseteq 1..n \union {n + 1} /\ ShortIn(o) \subseteq 1..n
    BY <1>2, <1>3, <1>4 DEF ShortIn
  <2> QED
    BY <2>1, <2>2, <2>3
<1>7. IsFiniteSet(ShortIn(o)) /\ n + 1 \notin ShortIn(o)
  <2>1. ShortIn(o) \subseteq 1..n
    BY <1>2, Zenon DEF ShortIn
  <2>2. 1 \in Int /\ n \in Int
    BY <1>2
  <2>3. IsFiniteSet(1..n)
    BY <2>2, FS_Interval, Zenon
  <2> QED
    BY <1>4, <2>1, <2>3, FS_Subset, Zenon
<1>8. /\ Cardinality(ShortIn(o)) \in Nat
      /\ Cardinality(ShortIn(o) \union {n + 1}) = Cardinality(ShortIn(o)) + 1
  BY <1>7, FS_CardinalityType, FS_AddElement
<1>9. Cardinality(ShortIn(a))
        = Cardinality(ShortIn(o)) + (IF Len(line) < LineLength THEN 1 ELSE 0)
  <2>1. CASE Len(line) < LineLength
    BY <1>6, <1>8, <2>1
  <2>2. CASE ~(Len(line) < LineLength)
    <3>1. ShortIn(a) = ShortIn(o)
      BY <1>6, <2>2
    <3> QED
      BY <1>8, <2>2, <3>1
  <2> QED
    BY <2>1, <2>2
<1> QED
  BY <1>2, <1>5, <1>8, <1>9, Zenon DEF a, e

\* The sink at the head of the worker's list gets a line.
LEMMA NextSinkLine ==
  ASSUME Lines, work \in Work, work.sinks # <<>>, NEW line \in Seq(Nat), IsStart(line),
         NextSink(line), errors' = errors + (IF Len(line) < LineLength THEN 1 ELSE 0)
  PROVE  Lines'
<1> DEFINE s == Head(work.sinks)
           a == Append(output[s], <<work.msg, line>>)
<1>1. s \in Shared /\ work.msg \in Messages
  BY HeadTailProperties DEF Work
<1>2. /\ output \in [Shared -> Seq(Line)] /\ output' = [output EXCEPT ![s] = a]
      /\ output[s] \in Seq(Line) /\ \A i \in DOMAIN output[s] : IsStart(output[s][i][2])
  BY <1>1 DEF NextSink, Lines
<1> HIDE DEF s
<1>3. /\ a \in Seq(Line) /\ \A i \in DOMAIN a : IsStart(a[i][2])
      /\ Cardinality(ShortIn(a))
           = Cardinality(ShortIn(output[s])) + (IF Len(line) < LineLength THEN 1 ELSE 0)
  BY <1>1, <1>2, LineAdded, ZenonT(40)
<1> HIDE DEF a
<1>4. /\ output' \in [Shared -> Seq(Line)] /\ output'[s] = a
      /\ \A r \in Shared : r # s => output'[r] = output[r]
  BY <1>1, <1>2, <1>3
<1>5. \A r \in Shared : \A i \in DOMAIN output'[r] : IsStart(output'[r][i][2])
  <2> TAKE r \in Shared
  <2>1. CASE r = s
    BY <1>3, <1>4, <2>1
  <2>2. CASE r # s
    <3>1. output'[r] = output[r]
      BY <1>4, <2>2
    <3> QED
      BY <3>1 DEF Lines
  <2> QED
    BY <2>1, <2>2
<1>6. /\ Cardinality(ShortIn(output["console"])) \in Nat
      /\ Cardinality(ShortIn(output["file"])) \in Nat
  <2>1. ASSUME NEW r \in Shared PROVE Cardinality(ShortIn(output[r])) \in Nat
    <3>1. DOMAIN output[r] = 1..Len(output[r]) /\ Len(output[r]) \in Nat
      BY <1>2, LenProperties
    <3>2. ShortIn(output[r]) \subseteq 1..Len(output[r]) /\ IsFiniteSet(1..Len(output[r]))
      BY <3>1, FS_Interval DEF ShortIn
    <3> QED
      BY <3>2, FS_Subset, FS_CardinalityType
  <2> QED
    BY <2>1 DEF Shared
<1>7. Cardinality(ShortIn(output'["console"])) + Cardinality(ShortIn(output'["file"])) = errors'
  <2> DEFINE x == Cardinality(ShortIn(output["console"]))
             y == Cardinality(ShortIn(output["file"]))
             k == IF Len(line) < LineLength THEN 1 ELSE 0
  <2>1. x \in Nat /\ y \in Nat /\ k \in Nat /\ x + y = errors /\ errors' = errors + k
    BY <1>6, Zenon DEF Lines
  <2>2. Cardinality(ShortIn(a)) = Cardinality(ShortIn(output[s])) + k
    BY <1>3, ZenonT(40)
  <2>3. CASE s = "console"
    <3>1. output'["console"] = a /\ output'["file"] = output["file"]
      BY <1>4, <2>3 DEF Shared
    <3>2. Cardinality(ShortIn(output'["console"])) = x + k
          /\ Cardinality(ShortIn(output'["file"])) = y
      BY <2>2, <2>3, <3>1
    <3> HIDE DEF x, y, k
    <3> QED
      BY <2>1, <3>2
  <2>4. CASE s = "file"
    <3>1. output'["file"] = a /\ output'["console"] = output["console"]
      BY <1>4, <2>4 DEF Shared
    <3>2. Cardinality(ShortIn(output'["file"])) = y + k
          /\ Cardinality(ShortIn(output'["console"])) = x
      BY <2>2, <2>4, <3>1
    <3> HIDE DEF x, y, k
    <3> QED
      BY <2>1, <3>2
  <2> QED
    BY <1>1, <2>3, <2>4 DEF Shared
<1> QED
  BY <1>4, <1>5, <1>7 DEF Lines, ShortIn

\* Partial writes make whole lines, and each short line is one failed ::write.
LEMMA LinesStep ==
  ASSUME Lines, AtWork, ErrorsBounded, [Next]_vars
  PROVE  Lines'
<1>1. CASE write_to_output
  <2>1. pc["worker"] = "write"
    BY <1>1 DEF write_to_output
  <2>2. /\ work \in Work /\ IsStart(work.line) /\ work.line \in Seq(Nat) /\ work.sinks # <<>>
        /\ Len(work.line) < LineLength
    BY <2>1 DEF AtWork, WorkAt, Work
  <2>3. Len(work.line) \in Nat /\ LineLength \in Nat /\ errors \in Int
    BY <2>2, LenProperties, LoggerAssumption DEF ErrorsBounded
  <2>4. CASE NextSink(work.line) /\ errors' = errors + 1
    BY <2>2, <2>4, NextSinkLine
  <2>5. ASSUME NEW n \in 1..(LineLength - Len(work.line)), Len(work.line) + n = LineLength,
               NextSink(Written(n)), UNCHANGED errors
        PROVE  Lines'
    <3>1. n \in Nat
      BY <2>3
    <3>2. /\ Written(n) \in Seq(Nat) /\ IsStart(Written(n)) /\ Len(Written(n)) = LineLength
      BY <2>2, <2>5, <3>1, StartGrows, Zenon
    <3>3. errors' = errors + (IF Len(Written(n)) < LineLength THEN 1 ELSE 0)
      BY <2>3, <2>5, <3>2
    <3> QED
      BY <2>2, <2>5, <3>2, <3>3, NextSinkLine
  <2>6. CASE UNCHANGED <<output, errors>>
    BY <2>6 DEF Lines, ShortIn, IsStart
  <2> QED
    BY <1>1, <2>4, <2>5, <2>6 DEF write_to_output
<1>2. CASE ~write_to_output
  <2>1. UNCHANGED <<output, errors>>
    BY <1>2, Zenon DEF Next, Otel, Destructor, add_sink, add_otel_sink, OtelSinkAdded, Run,
       DestroyLogger, Joined, OtelJoined, log, LogToShared, Worker, ProcessLog, WriteToSink,
       write_message_log, BeginFormat, ReadFirst, serialize_record, Collect, Sent,
       InTransport, PeerDone, vars, loggerVars, workerVars
  <2> QED
    BY <2>1 DEF Lines, ShortIn, IsStart
<1> QED
  BY <1>1, <1>2

\* No sink has a line in the beginning.
LEMMA LinesInit == Init => Lines
<1> SUFFICES ASSUME Init PROVE Lines
  OBVIOUS
<1>1. output = [s \in Shared |-> <<>>] /\ errors = 0
  BY DEF Init
<1>2. output["console"] = <<>> /\ output["file"] = <<>> /\ \A s \in Shared : output[s] = <<>>
  BY <1>1 DEF Shared
<1>3. ShortIn(<<>>) = {} /\ DOMAIN <<>> = {} /\ <<>> \in Seq(Line)
  BY EmptySeq DEF ShortIn
<1>4. Cardinality(ShortIn(output["console"])) + Cardinality(ShortIn(output["file"])) = errors
  <2>1. Cardinality({}) = 0
    BY FS_EmptySet
  <2> QED
    BY <1>1, <1>2, <1>3, <2>1
<1>5. output \in [Shared -> Seq(Line)]
  BY <1>1, <1>3, Zenon
<1>6. \A s \in Shared : \A i \in DOMAIN output[s] : IsStart(output[s][i][2])
  BY <1>2, <1>3, Zenon
<1> QED
  BY <1>4, <1>5, <1>6, Zenon DEF Lines

\* write_to_output puts a line together without a gap or a repetition out of
\* any partial writes, and a line is short only where a ::write failed.
THEOREM LinesAreWhole == Spec => []LinesWhole
<1>1. LoggerInvariant /\ Lines /\ [Next]_vars => Lines'
  BY LinesStep DEF LoggerInvariant
<1>2. ASSUME LoggerInvariant, Lines PROVE LinesWhole
  <2>1. IsStart(work.line)
    <3>1. CASE pc["worker"] \in {"read", "done"}
      <4>1. work.line = <<>>
        BY <1>2, <3>1 DEF LoggerInvariant, AtWork, WorkAt, Idle
      <4>2. IsStart(<<>>)
        BY EmptySeq DEF IsStart
      <4> QED
        BY <4>1, <4>2
    <3>2. CASE pc["worker"] \notin {"read", "done"}
      BY <1>2, <3>2 DEF LoggerInvariant, AtWork, WorkAt
    <3> QED
      BY <3>1, <3>2
  <2> QED
    BY <1>2, <2>1 DEF Lines, LinesWhole, IsStart, ShortIn
<1> QED
  BY <1>1, <1>2, LinesInit, LoggerInvariantHolds, PTL DEF Spec
===============================================================================
