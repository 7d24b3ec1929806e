----------------------------- MODULE LoggerDelivery -----------------------------
(***************************************************************************)
(* Proofs about what Logger delivers: the bytes of a request, and the      *)
(* messages that each sink gets.                                           *)
(***************************************************************************)
EXTENDS LoggerProofs, SequenceInduction

-------------------------------------------------------------------------------
(***************************************************************************)
(* The request: what the peer has received, followed by what send_all has  *)
(* still to send, is the request.                                          *)
(***************************************************************************)
Units == Messages \union {<<"prefix", 0>>} \union ({"length"} \X Nat)

Connecting == {"resolve", "socket", "nonblock", "connect", "poll", "restore"}

LeftToSend(d, w, body) ==
  /\ d \in Seq(Seq(Units)) /\ d # <<>> /\ \A i \in 1..Len(d) : d[i] # <<>>
  /\ w \in Seq(Units) /\ Joins(Request(body), w, FlattenSeq(d))

WireAt(where, d, w, body) ==
  /\ where \in Connecting => d = Parts(body)
  /\ where = "send" => LeftToSend(d, w, body)
  /\ where = "discard" => w = Request(body)
  /\ where \notin {"send", "discard"} => w = <<>>

Wire == WireAt(tpc, data, wire, m_body)

\* The three parts of a request, none of which is empty.
LEMMA PartsWhole ==
  ASSUME NEW body \in Seq(Messages), body # <<>>
  PROVE  LeftToSend(Parts(body), <<>>, body) /\ Request(body) \in Seq(Units)
<1> DEFINE p == m_request_prefix
           c == content_length(body)
<1>1. p \in Seq(Units) /\ p # <<>>
  BY DEF m_request_prefix, Units
<1>2. c \in Seq(Units) /\ c # <<>>
  <2>1. Len(body) \in Nat
    BY LenProperties
  <2>2. <<"length", Len(body)>> \in Units
    BY <2>1 DEF Units
  <2> QED
    BY <2>2 DEF content_length
<1>3. body \in Seq(Units)
  <2>1. Messages \subseteq Units
    BY DEF Units
  <2> QED
    BY <2>1
<1>4. Parts(body) = <<p, c, body>>
  BY DEF Parts
<1> HIDE DEF p, c
<1> DEFINE d == <<p, c, body>>
<1>5. d \in Seq(Seq(Units)) /\ Len(d) = 3 /\ d[1] = p /\ d[2] = c /\ d[3] = body /\ d # <<>>
  BY <1>1, <1>2, <1>3
<1> HIDE DEF d
<1>6. \A i \in 1..Len(d) : d[i] # <<>>
  <2>1. \A i \in 1..3 : i = 1 \/ i = 2 \/ i = 3
    OBVIOUS
  <2> QED
    BY <1>1, <1>2, <1>5, <2>1
<1>7. FlattenSeq(d) \in Seq(Units)
  BY <1>5, FlattenType
<1>8. Request(body) = FlattenSeq(d)
  BY <1>4 DEF Request, d
<1>9. Joins(FlattenSeq(d), <<>>, FlattenSeq(d)) /\ <<>> \in Seq(Units)
  <2> DEFINE f == FlattenSeq(d)
  <2>1. f \in Seq(Units)
    BY <1>7
  <2> HIDE DEF f
  <2>2. <<>> \o f = f
    BY <2>1, ConcatEmptySeq
  <2> QED
    BY <2>2, EmptySeq DEF Joins, f
<1> QED
  BY <1>4, <1>5, <1>6, <1>7, <1>8, <1>9 DEF LeftToSend, d

\* One ::send takes some of the first part, and moves on.
LEMMA SendSome ==
  ASSUME NEW body, LeftToSend(data, wire, body), NEW n \in 1..Len(Head(data))
  PROVE  /\ wire \o SubSeq(Head(data), 1, n) \in Seq(Units)
         /\ IF remove_prefix(n) = <<>>
            THEN wire \o SubSeq(Head(data), 1, n) = Request(body)
            ELSE LeftToSend(remove_prefix(n), wire \o SubSeq(Head(data), 1, n), body)
<1> DEFINE h == Head(data)
           s == Tail(data)
           a == SubSeq(h, 1, n)
           b == SubSeq(h, n + 1, Len(h))
           w == wire \o a
           r == Request(body)
<1>1. /\ data \in Seq(Seq(Units)) /\ data # <<>> /\ \A i \in 1..Len(data) : data[i] # <<>>
      /\ wire \in Seq(Units) /\ Joins(r, wire, FlattenSeq(data))
  BY DEF LeftToSend
<1> HIDE DEF r
<1>2. /\ h \in Seq(Units) /\ s \in Seq(Seq(Units)) /\ h = data[1] /\ Len(s) = Len(data) - 1
      /\ \A i \in 1..Len(s) : s[i] = data[i + 1]
  BY <1>1, HeadTailProperties
<1>3. Len(data) \in Nat /\ Len(data) # 0
  BY <1>1, LenProperties, EmptySeq
<1>4. \A i \in 1..Len(s) : s[i] # <<>>
  <2>1. \A i \in 1..(Len(data) - 1) : i + 1 \in 1..Len(data)
    BY <1>3
  <2> QED
    BY <1>1, <1>2, <2>1
<1>5. Joins(data, <<h>>, s)
  <2>1. Len(data) = Len(s) + 1
    BY <1>2, <1>3
  <2> QED
    BY <1>1, <1>2, <2>1, RecognisePrepend DEF Joins
<1>6. n \in 1..Len(h) /\ Len(h) \in Nat
  BY <1>2, LenProperties
<1> HIDE DEF h, s
<1>7. /\ a \in Seq(Units) /\ b \in Seq(Units) /\ Joins(h, a, b)
      /\ (n = Len(h) => a = h) /\ (n # Len(h) => b # <<>>)
  <2>1. n \in 0..Len(h) /\ n \in Nat
    BY <1>6
  <2>2. h = a \o b
    BY <1>2, <2>1, SplitAt
  <2>3. a \in Seq(Units) /\ b \in Seq(Units)
    <3>1. \A i \in 1..n : i \in 1..Len(h)
      BY <1>6
    <3>2. \A i \in (n + 1)..Len(h) : i \in 1..Len(h)
      BY <1>6
    <3>3. \A i \in 1..Len(h) : h[i] \in Units
      BY <1>2, ElementOfSeq
    <3> QED
      BY <1>6, <2>1, <3>1, <3>2, <3>3, SubSeqProperties, <1>2
  <2>4. n = Len(h) => a = h
    BY <1>2, SubSeqFull
  <2>5. n # Len(h) => b # <<>>
    <3> SUFFICES ASSUME n # Len(h), b = <<>> PROVE FALSE
      OBVIOUS
    <3>1. h = a
      BY <2>2, <2>3, ConcatEmptySeq, Zenon
    <3>2. Len(a) = n
      BY <1>2, <1>6, SubSeqProperties
    <3> QED
      BY <3>1, <3>2
  <2> QED
    BY <2>2, <2>3, <2>4, <2>5, Zenon DEF Joins
<1> HIDE DEF a, b
<1>8. w \in Seq(Units) /\ Joins(w, wire, a)
  BY <1>1, <1>7, ConcatProperties DEF Joins
<1> HIDE DEF w
<1>9. ASSUME NEW y \in Seq(Seq(Units)), Joins(FlattenSeq(data), a, FlattenSeq(y)),
             \A i \in 1..Len(y) : y[i] # <<>>
      PROVE  IF y = <<>> THEN w = r ELSE LeftToSend(y, w, body)
  <2>1. FlattenSeq(y) \in Seq(Units)
    BY FlattenType
  <2> DEFINE f == FlattenSeq(y)
             g == FlattenSeq(data)
  <2>2. f \in Seq(Units) /\ Joins(g, a, f) /\ Joins(r, wire, g)
    BY <1>1, <1>9, <2>1
  <2> HIDE DEF f, g
  <2>3. Joins(r, w, f)
    BY <1>1, <1>7, <1>8, <2>2, JoinsMoves
  <2>4. CASE y = <<>>
    <3>1. f = <<>>
      BY <2>4, FlattenEmpty DEF f
    <3> QED
      BY <1>8, <2>3, <2>4, <3>1, ConcatEmptySeq DEF Joins
  <2>5. CASE y # <<>>
    BY <1>8, <1>9, <2>3, <2>5 DEF LeftToSend, f, r
  <2> QED
    BY <2>4, <2>5
<1>10. CASE n = Len(h)
  <2>1. remove_prefix(n) = s
    BY <1>10 DEF remove_prefix, h, s
  <2>2. Joins(FlattenSeq(data), a, FlattenSeq(s))
    <3>1. <<h>> \in Seq(Seq(Units)) /\ data = <<h>> \o s
      BY <1>2, <1>5 DEF Joins
    <3>2. FlattenSeq(<<h>> \o s) = FlattenSeq(<<h>>) \o FlattenSeq(s)
      BY <1>2, <3>1, FlattenConcat, Zenon
    <3>3. FlattenSeq(<<h>>) = h
      BY <1>2, FlattenOne
    <3> QED
      BY <1>7, <1>10, <3>1, <3>2, <3>3, Zenon DEF Joins
  <2>3. IF s = <<>> THEN w = r ELSE LeftToSend(s, w, body)
    BY <1>2, <1>4, <1>9, <2>2
  <2> QED
    BY <1>8, <2>1, <2>3 DEF w, a, h, r
<1>11. CASE n # Len(h)
  <2> DEFINE y == <<b>> \o s
  <2>1. remove_prefix(n) = y
    BY <1>11 DEF remove_prefix, h, s, b
  <2>2. Joins(y, <<b>>, s)
    BY DEF Joins
  <2>3. /\ y \in Seq(Seq(Units)) /\ Len(y) = 1 + Len(s)
        /\ \A i \in 1..(1 + Len(s)) : y[i] = IF i <= 1 THEN <<b>>[i] ELSE s[i - 1]
    <3>1. <<b>> \in Seq(Seq(Units)) /\ Len(<<b>>) = 1
      BY <1>7
    <3> QED
      BY <1>2, <3>1, ConcatProperties
  <2> HIDE DEF y
  <2>4. Joins(FlattenSeq(data), a, FlattenSeq(y))
    BY <1>2, <1>5, <1>7, <2>2, FlattenHead
  <2>5. Len(s) \in Nat /\ <<b>>[1] = b
    BY <1>2, LenProperties
  <2>6. \A i \in 1..Len(y) : y[i] # <<>>
    <3> SUFFICES ASSUME NEW i \in 1..(1 + Len(s)) PROVE y[i] # <<>>
      BY <2>3
    <3>1. CASE i = 1
      BY <1>7, <1>11, <2>3, <2>5, <3>1
    <3>2. CASE i # 1
      <4>1. i - 1 \in 1..Len(s) /\ ~(i <= 1)
        BY <2>5, <3>2
      <4> QED
        BY <1>4, <2>3, <4>1, Zenon
    <3> QED
      BY <3>1, <3>2
  <2>7. IF y = <<>> THEN w = r ELSE LeftToSend(y, w, body)
    BY <1>9, <2>3, <2>4, <2>6
  <2> QED
    BY <1>8, <2>1, <2>7 DEF w, a, h, r
<1> QED
  BY <1>10, <1>11

\* What a step of the transport does to the connection's data.
LEMMA WireMoves ==
  ASSUME TransportStep \/ discard_response, tpc \notin {"send", "discard"} => wire = <<>>
  PROVE  \/ tpc' \notin Connecting \union {"send", "discard"} /\ wire' = <<>>
         \/ /\ tpc \in Connecting /\ tpc' \in Connecting \union {"send"}
            /\ UNCHANGED <<data, wire>>
         \/ /\ tpc = "send"
            /\ \E n \in 1..Len(Head(data)) :
                 /\ wire' = wire \o SubSeq(Head(data), 1, n) /\ data' = remove_prefix(n)
                 /\ tpc' = IF data' = <<>> THEN "discard" ELSE "send"
<1> USE DEF Connecting
<1>1. ASSUME AppendHeader \/ SetOptions \/ Perform
      PROVE  tpc' \notin Connecting \union {"send", "discard"} /\ wire' = <<>>
  BY <1>1 DEF AppendHeader, SetOptions, Perform, Catch, nativeVars
<1>2. ASSUME Return PROVE tpc' \notin Connecting \union {"send", "discard"} /\ wire' = <<>>
  BY <1>2 DEF Return
<1>3. ASSUME Resolve \/ Socket \/ ConnectStep, ~Return
      PROVE  /\ tpc \in Connecting /\ tpc' \in Connecting \union {"send"}
             /\ UNCHANGED <<data, wire>>
  BY <1>3 DEF Resolve, Socket, ConnectStep, SetFlags, Connected, GiveUpAddress, NextAddress,
     nativeVars
<1>4. ASSUME send_all \/ discard_response, ~Return
      PROVE  /\ tpc = "send"
             /\ \E n \in 1..Len(Head(data)) :
                  /\ wire' = wire \o SubSeq(Head(data), 1, n) /\ data' = remove_prefix(n)
                  /\ tpc' = IF data' = <<>> THEN "discard" ELSE "send"
  BY <1>4, Zenon DEF send_all, discard_response
<1> QED
  BY <1>1, <1>2, <1>3, <1>4 DEF TransportStep

\* While the transport sends, the body does not change, and the peer has its
\* beginning.
LEMMA WireStep ==
  ASSUME Wire, Lifecycle, Batches, [Next]_vars
  PROVE  Wire'
<1>0. /\ m_body \in Seq(Messages)
      /\ tpc \in Connecting \union {"send", "discard"} => pc["otel"] = "send" /\ m_body # <<>>
  <2>1. m_body \in Seq(Messages) /\ (pc["otel"] = "send" => Len(m_body) \in 1..batch_size)
    BY DEF Batches, BatchAt
  <2>2. pc["otel"] = "send" => m_body # <<>>
    BY <2>1, EmptySeq
  <2>3. tpc \in Connecting \union {"send", "discard"} => pc["otel"] = "send"
    BY DEF Lifecycle, Sending, SocketOpen, Connecting
  <2> QED
    BY <2>1, <2>2, <2>3
<1>1. ASSUME InTransport \/ PeerDone PROVE Wire'
  <2>1. (TransportStep \/ discard_response) /\ m_body' = m_body
    BY <1>1 DEF InTransport, PeerDone, loggerVars
  <2>2. tpc \notin {"send", "discard"} => wire = <<>>
    BY DEF Wire, WireAt
  <2>3. CASE tpc' \notin Connecting \union {"send", "discard"} /\ wire' = <<>>
    BY <2>3 DEF Wire, WireAt
  <2>4. CASE /\ tpc \in Connecting /\ tpc' \in Connecting \union {"send"}
             /\ UNCHANGED <<data, wire>>
    <3>1. tpc \notin {"send", "discard"} /\ tpc' # "discard"
      BY <2>4 DEF Connecting
    <3>2. data = Parts(m_body) /\ wire = <<>>
      BY <2>4, <3>1 DEF Wire, WireAt
    <3>3. LeftToSend(Parts(m_body), <<>>, m_body)
      BY <1>0, <2>4, PartsWhole
    <3> QED
      BY <2>1, <2>4, <3>1, <3>2, <3>3 DEF Wire, WireAt
  <2>5. ASSUME tpc = "send", NEW n \in 1..Len(Head(data)),
               wire' = wire \o SubSeq(Head(data), 1, n), data' = remove_prefix(n),
               tpc' = IF data' = <<>> THEN "discard" ELSE "send"
        PROVE  Wire'
    <3>1. LeftToSend(data, wire, m_body)
      BY <2>5 DEF Wire, WireAt
    <3>2. IF data' = <<>> THEN wire' = Request(m_body) ELSE LeftToSend(data', wire', m_body)
      BY <2>5, <3>1, SendSome
    <3>3. tpc' \notin Connecting
      BY <2>5 DEF Connecting
    <3> QED
      BY <2>1, <2>5, <3>2, <3>3 DEF Wire, WireAt
  <2> QED
    BY <2>1, <2>2, <2>3, <2>4, <2>5, WireMoves
<1>2. ASSUME UNCHANGED <<tpc, data, wire>>, m_body' = m_body PROVE Wire'
  BY <1>2 DEF Wire
<1>3. ASSUME UNCHANGED <<tpc, data, wire>>, tpc \notin Connecting \union {"send", "discard"}
      PROVE  Wire'
  BY <1>3 DEF Wire, WireAt
<1>4. ASSUME tpc' \notin Connecting \union {"send", "discard"}, UNCHANGED wire,
             tpc \notin Connecting \union {"send", "discard"}
      PROVE  Wire'
  BY <1>4 DEF Wire, WireAt
<1>5. ASSUME Collect PROVE Wire'
  <2>1. CASE UNCHANGED transportVars
    BY <1>2, <1>5, <2>1 DEF Collect, transportVars, nativeVars
  <2>2. CASE send(m_body)
    <3>1. tpc = "idle" /\ UNCHANGED <<wire, m_body>>
      BY <1>5, <2>2 DEF Collect, send
    <3>2. wire = <<>>
      BY <3>1 DEF Wire, WireAt
    <3>3. (tpc' = "resolve" /\ data' = Parts(m_body)) \/ tpc' = "perform"
      BY <2>2 DEF send
    <3> QED
      BY <3>1, <3>2, <3>3 DEF Wire, WireAt, Connecting
  <2> QED
    BY <1>5, <2>1, <2>2 DEF Collect
<1>6. ASSUME add_otel_sink \/ OtelJoined PROVE Wire'
  <2>1. /\ tpc \in {"none", "idle"} /\ tpc' \in {"headers", "idle", "threw", "none"}
        /\ UNCHANGED wire
    BY <1>6 DEF add_otel_sink, OtelJoined, Construct, ConstructNative, ConstructCurl,
       DestroyTransport, nativeVars
  <2> QED
    BY <1>4, <2>1 DEF Connecting
<1>7. ASSUME serialize_record \/ Sent PROVE Wire'
  <2>1. /\ UNCHANGED <<tpc, data, wire>>
        /\ pc["otel"] \in {"format", "formatting"} \/ tpc = "idle"
    BY <1>7 DEF serialize_record, get_formatted_message, Sent, transportVars, nativeVars
  <2>2. tpc \notin Connecting \union {"send", "discard"}
    BY <1>0, <2>1 DEF Connecting
  <2> QED
    BY <1>3, <2>1, <2>2
<1>8. ASSUME \/ \E s \in Shared : add_sink(s)
             \/ OtelSinkAdded \/ Run \/ DestroyLogger \/ Joined
             \/ \E c \in Callers : log(c) \/ LogToShared(c)
             \/ Worker \/ ReadFirst \/ BeginFormat("otel", batch[1]) \/ UNCHANGED vars
      PROVE  Wire'
  <2>1. UNCHANGED <<tpc, data, wire>> /\ m_body' = m_body
    BY <1>8, Zenon DEF add_sink, OtelSinkAdded, Run, DestroyLogger, Joined, log, LogToShared, Worker,
       ProcessLog, WriteToSink, write_message_log, write_to_output, BeginFormat, ReadFirst,
       vars, loggerVars, otelVars, transportVars, nativeVars
  <2> QED
    BY <1>2, <2>1
<1> QED
  BY <1>1, <1>5, <1>6, <1>7, <1>8 DEF Next, Otel, Destructor

\* Whatever ::send takes of the data, and wherever the connection fails, the
\* peer receives a beginning of the request, and all of it before the response
\* is awaited; a request has from one to batch_size records.
THEOREM RequestsExact == Spec => []RequestExact
<1>1. Init => Wire
  <2> SUFFICES ASSUME Init PROVE Wire
    OBVIOUS
  <2>1. tpc = "none" /\ wire = <<>>
    BY DEF Init, TransportInit
  <2> QED
    BY <2>1 DEF Wire, WireAt, Connecting
<1>2. LoggerInvariant /\ Wire /\ [Next]_vars => Wire'
  BY WireStep DEF LoggerInvariant
<1>3. ASSUME LoggerInvariant, Wire PROVE RequestExact
  <2>1. \A i \in DOMAIN requests : Len(requests[i]) \in 1..batch_size
    BY <1>3 DEF LoggerInvariant, Batches, Requests
  <2>2. tpc = "discard" => wire = Request(m_body)
    BY <1>3 DEF Wire, WireAt
  <2>3. ASSUME wire # <<>>
        PROVE  /\ Len(wire) <= Len(Request(m_body))
               /\ wire = SubSeq(Request(m_body), 1, Len(wire))
    <3>1. tpc \in {"send", "discard"}
      BY <1>3, <2>3 DEF Wire, WireAt
    <3>2. m_body \in Seq(Messages) /\ m_body # <<>>
      <4>1. pc["otel"] = "send"
        BY <1>3, <3>1 DEF LoggerInvariant, Lifecycle, Sending, SocketOpen
      <4>2. m_body \in Seq(Messages) /\ Len(m_body) \in 1..batch_size
        BY <1>3, <4>1 DEF LoggerInvariant, Batches, BatchAt
      <4> QED
        BY <4>2, EmptySeq
    <3> DEFINE r == Request(m_body)
    <3>3. r \in Seq(Units)
      BY <3>2, PartsWhole
    <3>4. PICK f \in Seq(Units) : wire \in Seq(Units) /\ Joins(r, wire, f)
      <4>1. CASE tpc = "send"
        <5>1. LeftToSend(data, wire, m_body)
          BY <1>3, <4>1 DEF Wire, WireAt
        <5>2. FlattenSeq(data) \in Seq(Units)
          BY <5>1, FlattenType DEF LeftToSend
        <5> QED
          BY <5>1, <5>2 DEF LeftToSend
      <4>2. CASE tpc = "discard"
        <5>1. wire = r
          BY <2>2, <4>2
        <5> HIDE DEF r
        <5>2. r \o <<>> = r /\ <<>> \in Seq(Units)
          BY <3>3, ConcatEmptySeq, EmptySeq
        <5> QED
          BY <3>3, <5>1, <5>2, Zenon DEF Joins
      <4> QED
        BY <3>1, <4>1, <4>2
    <3> HIDE DEF r
    <3>5. Len(r) = Len(wire) + Len(f) /\ Len(wire) \in Nat /\ Len(f) \in Nat
      BY <3>4, JoinsLength, LenProperties
    <3>6. Len(wire) \in 0..Len(wire)
      BY <3>5
    <3>7. SubSeq(r, 1, Len(wire)) = SubSeq(wire, 1, Len(wire))
      BY <3>4, <3>6, JoinsPrefix
    <3>8. Len(wire) <= Len(r)
      BY <3>5
    <3>9. SubSeq(wire, 1, Len(wire)) = wire
      BY <3>4, SubSeqFull
    <3> QED
      BY <3>7, <3>8, <3>9 DEF r
  <2> QED
    BY <2>1, <2>2, <2>3 DEF RequestExact
<1> QED
  BY <1>1, <1>2, <1>3, LoggerInvariantHolds, PTL DEF Spec

-------------------------------------------------------------------------------
(***************************************************************************)
(* The messages of a sink: those it got, followed by those on their way to *)
(* it, in the order of each thread that logs.                              *)
(***************************************************************************)
Increasing(t) ==
  \A i, j \in DOMAIN t : i < j /\ t[i][1] = t[j][1] => t[i][2] < t[j][2]

\* t has, in order, every message that s admits among the first h[c] of each
\* thread c, and none that was not handed on.
InOrder(t, s, h) ==
  /\ t \in Seq(Messages) /\ Increasing(t)
  /\ \A m \in Range(t) : m[2] <= h[m[1]]
  /\ \A m \in Messages : m[2] <= h[m[1]] /\ admits(s, m) => m \in Range(t)

\* The next message of a thread is handed on.
LEMMA OrderPush ==
  ASSUME NEW t, NEW s, NEW h \in [Callers -> Int], InOrder(t, s, h), NEW c \in Callers,
         NEW k \in Int, k = h[c] + 1, <<c, k>> \in Messages,
         NEW h2, h2 = [h EXCEPT ![c] = k]
  PROVE  InOrder(Append(t, <<c, k>>), s, h2)
<1> DEFINE e == <<c, k>>
           a == Append(t, e)
           n == Len(t)
<1>1. e \in Messages /\ e[1] = c /\ e[2] = k /\ \A m \in Messages : m[1] = c /\ m[2] = k => m = e
  BY MessageIs
<1> HIDE DEF e
<1>2. /\ t \in Seq(Messages) /\ Increasing(t)
      /\ \A m \in Range(t) : m[2] <= h[m[1]]
      /\ \A m \in Messages : m[2] <= h[m[1]] /\ admits(s, m) => m \in Range(t)
  BY DEF InOrder
<1>3. /\ a \in Seq(Messages) /\ Len(a) = n + 1 /\ a[n + 1] = e /\ \A i \in 1..n : a[i] = t[i]
      /\ n \in Nat /\ DOMAIN t = 1..n
  BY <1>1, <1>2, AppendProperties, LenProperties
<1>4. DOMAIN a = 1..(n + 1)
  BY <1>3, LenProperties
<1>5. Range(a) = Range(t) \union {e}
  BY <1>1, <1>2, AppendSet
<1> HIDE DEF a, n
<1>7. /\ h2[c] = k /\ \A d \in Callers : d # c => h2[d] = h[d]
      /\ h[c] \in Int /\ k = h[c] + 1
  OBVIOUS
<1>8. \A m \in Messages : m[1] \in Callers /\ m[2] \in Int
  BY MessageIs
<1>9. \A m \in Range(t) : m \in Messages
  BY <1>2 DEF Range
<1>10. \A m \in Range(a) : m[2] <= h2[m[1]]
  <2>1. ASSUME NEW m \in Range(t) PROVE m[2] <= h2[m[1]]
    <3>1. m[1] \in Callers /\ m[2] \in Int /\ m[2] <= h[m[1]]
      BY <1>2, <1>8, <1>9
    <3>2. CASE m[1] = c
      BY <1>7, <3>1, <3>2
    <3>3. CASE m[1] # c
      BY <1>7, <3>1, <3>3
    <3> QED
      BY <3>2, <3>3
  <2>2. e[2] <= h2[e[1]]
    BY <1>1, <1>7
  <2> QED
    BY <1>5, <2>1, <2>2
<1>11. ASSUME NEW m \in Messages, m[2] <= h2[m[1]], admits(s, m) PROVE m \in Range(a)
  <2>1. CASE m[1] = c /\ m[2] = k
    BY <1>1, <1>5, <2>1
  <2>2. CASE m[1] = c /\ m[2] # k
    <3>1. m[2] <= h[c]
      BY <1>7, <1>8, <1>11, <2>2
    <3> QED
      BY <1>2, <1>5, <1>11, <2>2, <3>1
  <2>3. CASE m[1] # c
    <3>1. m[2] <= h[m[1]]
      BY <1>7, <1>8, <1>11, <2>3
    <3> QED
      BY <1>2, <1>5, <1>11, <3>1
  <2> QED
    BY <2>1, <2>2, <2>3
<1>12. Increasing(a)
  <2> SUFFICES ASSUME NEW i \in 1..(n + 1), NEW j \in 1..(n + 1), i < j, a[i][1] = a[j][1]
               PROVE  a[i][2] < a[j][2]
    BY <1>4 DEF Increasing
  <2>1. i \in 1..n /\ (j \in 1..n \/ j = n + 1)
    BY <1>3
  <2>2. CASE j \in 1..n
    <3>1. a[i] = t[i] /\ a[j] = t[j]
      BY <1>3, <2>1, <2>2
    <3> QED
      BY <1>2, <1>3, <2>1, <2>2, <3>1 DEF Increasing
  <2>3. CASE j = n + 1
    <3>1. a[i] = t[i] /\ a[j] = e /\ t[i] \in Range(t)
      BY <1>3, <2>1, <2>3 DEF Range
    <3>2. t[i][1] = c /\ t[i][2] <= h[c] /\ t[i][2] \in Int
      BY <1>1, <1>2, <1>8, <1>9, <3>1
    <3> QED
      BY <1>1, <1>7, <3>1, <3>2
  <2> QED
    BY <2>1, <2>2, <2>3
<1> QED
  BY <1>3, <1>5, <1>10, <1>11, <1>12, Zenon DEF InOrder, a, e

\* The next message of a thread is not handed on to a sink that does not admit it.
LEMMA OrderSkip ==
  ASSUME NEW t, NEW s, NEW h \in [Callers -> Int], InOrder(t, s, h), NEW c \in Callers,
         NEW k \in Int, k = h[c] + 1, ~admits(s, <<c, k>>),
         NEW h2, h2 = [h EXCEPT ![c] = k]
  PROVE  InOrder(t, s, h2)
<1>1. /\ t \in Seq(Messages) /\ Increasing(t)
      /\ \A m \in Range(t) : m[2] <= h[m[1]]
      /\ \A m \in Messages : m[2] <= h[m[1]] /\ admits(s, m) => m \in Range(t)
  BY DEF InOrder
<1>2. /\ h2[c] = k /\ \A d \in Callers : d # c => h2[d] = h[d]
      /\ h[c] \in Int /\ k = h[c] + 1
  OBVIOUS
<1>3. \A m \in Messages : m[1] \in Callers /\ m[2] \in Int /\ m = <<m[1], m[2]>>
  BY MessageIs
<1>4. ASSUME NEW m \in Range(t) PROVE m[2] <= h2[m[1]]
  <2>1. m \in Messages
    BY <1>1 DEF Range
  <2>2. m[1] \in Callers /\ m[2] \in Int /\ m[2] <= h[m[1]]
    BY <1>1, <1>3, <2>1
  <2> QED
    BY <1>2, <2>2
<1>5. ASSUME NEW m \in Messages, m[2] <= h2[m[1]], admits(s, m) PROVE m \in Range(t)
  <2>1. m[1] # c \/ m[2] # k
    <3> SUFFICES ASSUME m[1] = c, m[2] = k PROVE FALSE
      OBVIOUS
    <3>1. m = <<c, k>>
      BY <1>3
    <3> QED
      BY <1>5, <3>1
  <2>2. m[2] <= h[m[1]]
    BY <1>2, <1>3, <1>5, <2>1
  <2> QED
    BY <1>1, <1>5, <2>2
<1> QED
  BY <1>1, <1>4, <1>5 DEF InOrder

\* A message that the sink does not admit is dropped.
LEMMA OrderDrop ==
  ASSUME NEW s, NEW h, NEW g \in Seq(Messages), NEW m \in Messages, NEW q \in Seq(Messages),
         InOrder(g \o (<<m>> \o q), s, h), ~admits(s, m)
  PROVE  InOrder(g \o q, s, h)
<1> DEFINE t == g \o (<<m>> \o q)
           u == g \o q
           n == Len(g)
           l == Len(q)
<1>1. <<m>> \in Seq(Messages) /\ Len(<<m>>) = 1 /\ Range(<<m>>) = {m}
  BY DEF Range
<1>2. /\ <<m>> \o q \in Seq(Messages) /\ Len(<<m>> \o q) = 1 + l
      /\ \A i \in 1..(1 + l) : (<<m>> \o q)[i] = IF i <= 1 THEN <<m>>[i] ELSE q[i - 1]
      /\ n \in Nat /\ l \in Nat
  BY <1>1, ConcatProperties, LenProperties
<1> DEFINE r == <<m>> \o q
<1> HIDE DEF r
<1>3. /\ g \o r \in Seq(Messages) /\ Len(g \o r) = n + (1 + l)
      /\ \A i \in 1..(n + (1 + l)) : (g \o r)[i] = IF i <= n THEN g[i] ELSE r[i - n]
  BY <1>2, ConcatProperties DEF r
<1>4. /\ u \in Seq(Messages) /\ Len(u) = n + l
      /\ \A i \in 1..(n + l) : u[i] = IF i <= n THEN g[i] ELSE q[i - n]
  BY ConcatProperties
<1>5. t = g \o r
  BY DEF r
<1>6. DOMAIN t = 1..(n + 1 + l) /\ DOMAIN u = 1..(n + l)
  <2>1. n + (1 + l) = n + 1 + l
    BY <1>2
  <2> QED
    BY <1>3, <1>4, <1>5, <2>1, LenProperties
<1>7. /\ Increasing(t) /\ \A k \in Range(t) : k[2] <= h[k[1]]
      /\ \A k \in Messages : k[2] <= h[k[1]] /\ admits(s, k) => k \in Range(t)
  BY DEF InOrder
<1>a. r = <<m>> \o q /\ u = g \o q
  BY DEF r
<1>c. \A i \in 1..(1 + l) : ~(i <= 1) => r[i] = q[i - 1]
  BY <1>2 DEF r
<1>d. r \in Seq(Messages)
  BY <1>2 DEF r
<1>e. <<m>> \in Seq(Messages)
  BY <1>1
<1> HIDE DEF t, u, n, l
<1>b. \A i \in 1..(n + (1 + l)) : t[i] = IF i <= n THEN g[i] ELSE r[i - n]
  BY <1>3, <1>5, Zenon
<1>8. Range(t) = Range(u) \union {m}
  <2>1. Range(g \o r) = Range(g) \union Range(r)
    BY <1>d, ConcatSet
  <2>2. Range(g \o q) = Range(g) \union Range(q)
    BY ConcatSet
  <2>3. Range(<<m>> \o q) = Range(<<m>>) \union Range(q)
    BY <1>e, ConcatSet, Zenon
  <2>4. /\ Range(t) = Range(g) \union Range(r) /\ Range(u) = Range(g) \union Range(q)
        /\ Range(r) = {m} \union Range(q)
    BY <1>1, <1>5, <1>a, <2>1, <2>2, <2>3, Zenon
  <2> QED
    BY <2>4
<1>9. \A i \in 1..(n + l) : u[i] = t[IF i <= n THEN i ELSE i + 1]
  <2> TAKE i \in 1..(n + l)
  <2>1. CASE i <= n
    <3>1. i \in 1..(n + (1 + l))
      BY <1>2, <2>1
    <3> QED
      BY <1>4, <1>b, <2>1, <3>1
  <2>2. CASE ~(i <= n)
    <3> DEFINE j == i + 1
               z == j - n
    <3>1. j \in 1..(n + (1 + l)) /\ ~(j <= n)
      BY <1>2, <2>2
    <3>2. z \in 1..(1 + l) /\ ~(z <= 1) /\ z - 1 = i - n
      BY <1>2, <2>2
    <3> HIDE DEF j
    <3>3. t[j] = r[z]
      BY <1>b, <3>1, Zenon
    <3> HIDE DEF z
    <3>4. r[z] = q[z - 1]
      BY <1>c, <3>2, Zenon
    <3>5. u[i] = q[i - n]
      BY <1>4, <2>2
    <3> QED
      BY <2>2, <3>2, <3>3, <3>4, <3>5 DEF j
  <2> QED
    BY <2>1, <2>2
<1>10. Increasing(u)
  <2> SUFFICES ASSUME NEW i \in 1..(n + l), NEW j \in 1..(n + l), i < j, u[i][1] = u[j][1]
               PROVE  u[i][2] < u[j][2]
    BY <1>6 DEF Increasing
  <2> DEFINE x == IF i <= n THEN i ELSE i + 1
             y == IF j <= n THEN j ELSE j + 1
  <2>1. x \in 1..(n + 1 + l) /\ y \in 1..(n + 1 + l) /\ x < y
    BY <1>2
  <2>2. u[i] = t[x] /\ u[j] = t[y]
    BY <1>9
  <2> HIDE DEF x, y
  <2> QED
    BY <1>6, <1>7, <2>1, <2>2, SMTT(30) DEF Increasing
<1>11. InOrder(u, s, h)
  BY <1>4, <1>7, <1>8, <1>10 DEF InOrder
<1> QED
  BY <1>11 DEF u

-------------------------------------------------------------------------------
\* The way to a sink: the messages it got, those in the hands of the thread that
\* serves it, and those in the channel.
Way(g, w, q) == g \o (w \o q)

\* With nothing in hand.
LEMMA WayEmpty ==
  ASSUME NEW S, NEW g \in Seq(S), NEW q \in Seq(S)
  PROVE  Way(g, <<>>, q) = g \o q
BY ConcatEmptySeq DEF Way

\* A message enters the channel.
LEMMA WayPush ==
  ASSUME NEW S, NEW g \in Seq(S), NEW w \in Seq(S), NEW q \in Seq(S), NEW e \in S
  PROVE  Way(g, w, Append(q, e)) = Append(Way(g, w, q), e)
<1>1. Append(q, e) = q \o <<e>> /\ <<e>> \in Seq(S)
  BY AppendIsConcat
<1>2. w \o (q \o <<e>>) = (w \o q) \o <<e>>
  BY <1>1, ConcatAssociative
<1> DEFINE x == w \o q
<1>3. x \in Seq(S)
  BY ConcatProperties
<1> HIDE DEF x
<1>4. g \o (x \o <<e>>) = (g \o x) \o <<e>>
  BY <1>1, <1>3, ConcatAssociative
<1> DEFINE y == g \o x
<1>5. y \in Seq(S)
  BY <1>3, ConcatProperties
<1> HIDE DEF y
<1>6. Append(y, e) = y \o <<e>>
  BY <1>5, AppendIsConcat
<1> QED
  BY <1>1, <1>2, <1>4, <1>6, Zenon DEF Way, x, y

\* The worker takes a message from the channel.
LEMMA WayTake ==
  ASSUME NEW S, NEW g \in Seq(S), NEW q \in Seq(S), q # <<>>
  PROVE  Way(g, <<>>, q) = Way(g, <<Head(q)>>, Tail(q))
<1>1. <<Head(q)>> \o Tail(q) = q /\ <<>> \o q = q
  BY HeadAndTail, ConcatEmptySeq
<1> QED
  BY <1>1, Zenon DEF Way

\* The worker hands the message it has to the sink.
LEMMA WayGet ==
  ASSUME NEW S, NEW g \in Seq(S), NEW q \in Seq(S), NEW e \in S
  PROVE  Way(Append(g, e), <<>>, q) = Way(g, <<e>>, q)
<1>1. Append(g, e) = g \o <<e>> /\ <<>> \o q = q /\ <<e>> \in Seq(S)
  BY AppendIsConcat, ConcatEmptySeq
<1>2. (g \o <<e>>) \o q = g \o (<<e>> \o q)
  BY <1>1, ConcatAssociative
<1> QED
  BY <1>1, <1>2, Zenon DEF Way

\* What is in hand goes to the sink.
LEMMA HandsOver ==
  ASSUME NEW S, NEW g \in Seq(S), NEW w \in Seq(S), NEW q \in Seq(S)
  PROVE  /\ Way(g \o w, <<>>, q) = Way(g, w, q)
         /\ q # <<>> => Way(g, w, q) = Way(g, Append(w, Head(q)), Tail(q))
<1>1. <<>> \o q = q
  BY ConcatEmptySeq
<1>2. (g \o w) \o q = g \o (w \o q)
  BY ConcatAssociative
<1>3. q # <<>> => Append(w, Head(q)) \o Tail(q) = w \o q
  BY Takes
<1> QED
  BY <1>1, <1>2, <1>3, Zenon DEF Way

\* The messages of the lines.
Names(lines) == [i \in DOMAIN lines |-> lines[i][1]]

\* A line added to a sink adds its message.
LEMMA NamesOf ==
  ASSUME NEW o \in Seq(Line)
  PROVE  /\ Names(o) \in Seq(Messages)
         /\ \A m \in Messages : \A l \in Seq(Nat) :
              Names(Append(o, <<m, l>>)) = Append(Names(o), m)
<1> DEFINE n == Len(o)
<1>1. n \in Nat /\ DOMAIN o = 1..n /\ \A i \in 1..n : o[i] \in Line
  BY LenProperties, ElementOfSeq
<1>2. \A i \in 1..n : o[i][1] \in Messages
  BY <1>1 DEF Line
<1> HIDE DEF n
<1>3. /\ Names(o) \in Seq(Messages) /\ Len(Names(o)) = n
      /\ \A i \in 1..n : Names(o)[i] = o[i][1]
  <2>1. Names(o) = [i \in 1..n |-> o[i][1]]
    BY <1>1 DEF Names
  <2>2. [i \in 1..n |-> o[i][1]] \in Seq(Messages)
    BY <1>1, <1>2, IsASeq
  <2>3. Len(Names(o)) = n
    BY <1>1, <2>1, <2>2
  <2> QED
    BY <2>1, <2>2, <2>3, Zenon
<1>4. ASSUME NEW m \in Messages, NEW l \in Seq(Nat)
      PROVE  Names(Append(o, <<m, l>>)) = Append(Names(o), m)
  <2> DEFINE e == <<m, l>>
             a == Append(o, e)
  <2>1. e \in Line /\ e[1] = m
    BY DEF Line
  <2> HIDE DEF e
  <2>2. a \in Seq(Line) /\ Len(a) = n + 1 /\ a[n + 1] = e /\ \A i \in 1..n : a[i] = o[i]
    BY <2>1, AppendProperties DEF n
  <2>3. DOMAIN a = 1..(n + 1)
    BY <2>2, LenProperties
  <2> HIDE DEF a
  <2>4. Names(a) = [i \in 1..(n + 1) |-> a[i][1]]
    BY <2>3 DEF Names
  <2>5. \A i \in 1..(n + 1) : a[i][1] \in Messages
    <3> TAKE i \in 1..(n + 1)
    <3>1. i \in 1..n \/ i = n + 1
      BY <1>1
    <3> QED
      BY <1>2, <2>1, <2>2, <3>1
  <2>6. [i \in 1..(n + 1) |-> a[i][1]] \in Seq(Messages)
    BY <1>1, <2>5, IsASeq
  <2>7. /\ Names(a) \in Seq(Messages) /\ Len(Names(a)) = n + 1
        /\ \A i \in 1..n : Names(a)[i] = Names(o)[i]
        /\ Names(a)[n + 1] = m
    <3>1. Len(Names(a)) = n + 1
      BY <1>1, <2>4, <2>6
    <3>2. \A i \in 1..(n + 1) : Names(a)[i] = a[i][1]
      BY <2>4
    <3>3. 1..n \subseteq 1..(n + 1) /\ n + 1 \in 1..(n + 1)
      BY <1>1
    <3>4. Names(a)[n + 1] = m
      BY <2>1, <2>2, <3>2, <3>3, Zenon
    <3>5. \A i \in 1..n : Names(a)[i] = Names(o)[i]
      <4> TAKE i \in 1..n
      <4>1. i \in 1..(n + 1)
        BY <3>3, Zenon
      <4>2. Names(a)[i] = a[i][1]
        BY <3>2, <4>1, Zenon
      <4>3. a[i] = o[i]
        BY <2>2, Zenon
      <4>4. Names(o)[i] = o[i][1]
        BY <1>3, Zenon
      <4> QED
        BY <4>2, <4>3, <4>4, Zenon
    <3>6. Names(a) \in Seq(Messages)
      BY <2>4, <2>6, Zenon
    <3> QED
      BY <3>1, <3>4, <3>5, <3>6
  <2>8. Names(a) = Append(Names(o), m)
    BY <1>3, <2>7, RecogniseAppend
  <2> QED
    BY <2>8 DEF a, e
<1> QED
  BY <1>3, <1>4

\* The messages that the worker has for shared sink s, and that the sink's own
\* thread has for the OpenTelemetry sink
InHand(w, s) == IF s \in Range(w.sinks) THEN <<w.msg>> ELSE <<>>
InBatch(where, body, b) == (IF where = "send" THEN <<>> ELSE body) \o b

HandedTo(s) == [c \in Callers |-> Handed(c, s)]

OrderAt(s, g, w, q, h) ==
  InOrder(Way(g, w, q), s, h) /\ \A m \in Range(g) : admits(s, m)

SharedOrder(s) ==
  OrderAt(s, Names(output[s]), InHand(work, s), m_channel.queue, HandedTo(s))

\* What is refused never enters the OpenTelemetry sink's channel.
OtelAt(f, w, q, h) ==
  InOrder(Way(f, w, q), "otel", h) /\ \A m \in Range(Way(f, w, q)) : admits("otel", m)

OtelOrder ==
  OtelAt(FlattenSeq(requests), InBatch(pc["otel"], m_body, batch), otel_channel.queue,
         HandedTo("otel"))

Order ==
  /\ \A s \in Shared : s \in Range(m_sinks) \/ pc["main"] \in SettingUp => SharedOrder(s)
  /\ "otel" \in m_own_channel_sinks \/ pc["main"] \in SettingUp => OtelOrder

\* What was handed on changes only with a call of log.
LEMMA HandedStays ==
  ASSUME Lifecycle, [Next]_vars, ~(\E c \in Callers : log(c) \/ LogToShared(c)), NEW s
  PROVE  HandedTo(s)' = HandedTo(s)
<1> USE OtherThreads
<1>0. pc \in [Threads -> Places]
  BY DEF Lifecycle
<1>1. UNCHANGED logged
  BY Zenon DEF Next, Otel, Destructor, add_sink, add_otel_sink, OtelSinkAdded, Run, DestroyLogger,
     Joined, OtelJoined, Worker, ProcessLog, WriteToSink, write_message_log, write_to_output,
     BeginFormat, ReadFirst, serialize_record, Collect, Sent, InTransport, PeerDone, vars,
     loggerVars
<1>2. ASSUME NEW t \in {"main", "worker", "otel"}, NEW where, Goto(t, where)
      PROVE  \A c \in Callers : pc'[c] = pc[c]
  BY <1>0, <1>2 DEF Goto
<1>3. \A c \in Callers : pc'[c] = pc[c]
  <2>1. ASSUME UNCHANGED pc PROVE \A c \in Callers : pc'[c] = pc[c]
    BY <2>1
  <2>2. CASE Worker \/ Otel
    <3>1. UNCHANGED pc \/ \E t \in {"worker", "otel"} : \E where : Goto(t, where)
      BY <2>2, Zenon DEF Worker, Otel, ProcessLog, WriteToSink, write_message_log, write_to_output,
         NextSink, get_formatted_message, BeginFormat, ReadFirst, serialize_record, Collect, Sent
    <3> QED
      BY <1>2, <2>1, <3>1
  <2>3. CASE OtelSinkAdded
    BY <1>0, <1>2, <2>3 DEF OtelSinkAdded
  <2>4. CASE \/ \E r \in Shared : add_sink(r)
             \/ add_otel_sink \/ Run \/ InTransport \/ PeerDone \/ DestroyLogger \/ Destructor
             \/ UNCHANGED vars
    <3>1. UNCHANGED pc \/ \E where : Goto("main", where)
      BY <2>4 DEF add_sink, add_otel_sink, Run, InTransport, PeerDone, DestroyLogger, Destructor,
         Joined, OtelJoined, vars, loggerVars
    <3> QED
      BY <1>2, <2>1, <3>1
  <2> QED
    BY <2>2, <2>3, <2>4 DEF Next
<1> QED
  BY <1>1, <1>3 DEF HandedTo, Handed

\* The types of the parts of the way to a shared sink.
LEMMA SharedParts ==
  ASSUME Queues, AtWork, Lines, NEW s \in Shared
  PROVE  /\ Names(output[s]) \in Seq(Messages) /\ m_channel.queue \in Seq(Messages)
         /\ InHand(work, s) \in Seq(Messages)
         /\ pc["worker"] \in {"read", "done"} => InHand(work, s) = <<>>
         /\ HandedTo(s) \in [Callers -> Int]
<1>1. Names(output[s]) \in Seq(Messages)
  BY NamesOf DEF Lines
<1>2. m_channel.queue \in Seq(Messages)
  BY DEF Queues, Channel
<1>3. pc["worker"] \in {"read", "done"} => InHand(work, s) = <<>>
  <2>1. Idle.sinks = <<>> /\ Range(<<>>) = {}
    BY DEF Idle, Range
  <2>2. pc["worker"] \in {"read", "done"} => work = Idle
    BY DEF AtWork, WorkAt
  <2> QED
    BY <2>1, <2>2 DEF InHand
<1>4. pc["worker"] \notin {"read", "done"} => InHand(work, s) \in Seq(Messages)
  <2>1. pc["worker"] \notin {"read", "done"} => work.msg \in Messages
    BY DEF AtWork, WorkAt, Work
  <2> QED
    BY <2>1 DEF InHand
<1>5. \A c \in Callers : Handed(c, s) \in Int
  BY DEF Queues, Handed
<1>6. HandedTo(s) \in [Callers -> Int]
  BY <1>5 DEF HandedTo
<1>7. <<>> \in Seq(Messages)
  OBVIOUS
<1> QED
  BY <1>1, <1>2, <1>3, <1>4, <1>6, <1>7, Zenon

\* A step of a caller or of the worker keeps the order of a shared sink.
LEMMA SharedOrderStep ==
  ASSUME Lifecycle, Queues, SinksAdded, AtWork, Lines, [Next]_vars, NEW s \in Shared,
         SharedOrder(s), s \in Range(m_sinks) \/ pc["main"] \in SettingUp
  PROVE  SharedOrder(s)'
<1> USE OtherThreads
<1> DEFINE g == Names(output[s])
           w == InHand(work, s)
           q == m_channel.queue
           h == HandedTo(s)
<1>0. /\ g \in Seq(Messages) /\ w \in Seq(Messages) /\ q \in Seq(Messages)
      /\ h \in [Callers -> Int]
      /\ pc["worker"] \in {"read", "done"} => w = <<>>
  BY SharedParts
<1>e. g \in Seq(Messages) /\ w \in Seq(Messages) /\ q \in Seq(Messages)
  BY <1>0
<1>a. OrderAt(s, g, w, q, h)
  BY DEF SharedOrder
<1>b. ASSUME OrderAt(s, Names(output'[s]), InHand(work', s), m_channel'.queue, HandedTo(s)')
      PROVE  SharedOrder(s)'
  BY <1>b DEF SharedOrder
<1>c. s # "otel" /\ pc \in [Threads -> Places] /\ m_channel \in Channel
  BY DEF Shared, Lifecycle, Queues
<1>d. ASSUME output'[s] = output[s], InHand(work', s) = w, m_channel'.queue = q, HandedTo(s)' = h
      PROVE  SharedOrder(s)'
  BY <1>a, <1>b, <1>d
<1>1. ASSUME NEW c \in Callers, log(c) PROVE SharedOrder(s)'
  <2>1. /\ UNCHANGED <<output, work, m_channel>> /\ pc[c] = "idle" /\ Goto(c, "shared")
        /\ logged' = [logged EXCEPT ![c] = @ + 1]
    BY <1>1 DEF log, workerVars
  <2>2. pc'[c] = "shared" /\ \A d \in Callers : d # c => pc'[d] = pc[d]
    BY <1>c, <2>1, Moves DEF Places
  <2>3. logged \in [Callers -> Nat]
    BY DEF Queues
  <2>4. \A d \in Callers : Handed(d, s)' = Handed(d, s)
    BY <2>1, <2>2, <2>3 DEF Handed
  <2>5. HandedTo(s)' = h
    BY <2>4 DEF HandedTo
  <2> QED
    BY <1>d, <2>1, <2>5
<1>2. ASSUME NEW c \in Callers, LogToShared(c) PROVE SharedOrder(s)'
  <2> DEFINE k == logged[c]
             m == <<c, k>>
  <2>1. /\ pc[c] = "shared" /\ Goto(c, "idle") /\ UNCHANGED <<output, work, logged>>
        /\ m_channel' = IF m_sinks # <<>> THEN try_push(m_channel, m) ELSE m_channel
    BY <1>2 DEF LogToShared, workerVars
  <2>2. pc["main"] = "run"
    BY <2>1 DEF Lifecycle
  <2>3. m_sinks # <<>> /\ ~m_channel.completed
    BY <2>2 DEF Range, SettingUp, Queues
  <2>4. m \in Messages /\ k \in Int
    <3>1. k \in 1..Len(Levels[c])
      BY <2>1, MessageIs DEF Queues
    <3> QED
      BY <3>1, MessageIs
  <2>5. pc'[c] = "idle" /\ \A d \in Callers : d # c => pc'[d] = pc[d]
    BY <1>c, <2>1, Moves DEF Places
  <2>6. h[c] = k - 1 /\ HandedTo(s)' = [h EXCEPT ![c] = k]
    BY <2>1, <2>5, Zenon DEF HandedTo, Handed
  <2> HIDE DEF m, k, g, w, q, h
  <2>7. m_channel'.queue = Append(q, m)
    BY <1>c, <2>1, <2>3, <2>4, ChannelOps, Zenon DEF q
  <2>8. Way(g, w, Append(q, m)) = Append(Way(g, w, q), m)
    BY <1>e, <2>4, WayPush
  <2>9. k = h[c] + 1 /\ h[c] \in Int
    BY <1>0, <2>4, <2>6
  <2> DEFINE x == Way(g, w, q)
             y == HandedTo(s)'
  <2>a. InOrder(x, s, h) /\ y = [h EXCEPT ![c] = k] /\ h \in [Callers -> Int]
    BY <1>0, <1>a, <2>6 DEF OrderAt, x
  <2>b. <<c, k>> \in Messages /\ m = <<c, k>>
    BY <2>4 DEF m
  <2> HIDE DEF x, y
  <2>c. InOrder(Append(x, <<c, k>>), s, y)
    BY <2>4, <2>9, <2>a, <2>b, OrderPush, Zenon
  <2>10. InOrder(Append(Way(g, w, q), m), s, HandedTo(s)')
    BY <2>b, <2>c DEF x, y
  <2>11. OrderAt(s, g, w, Append(q, m), HandedTo(s)')
    BY <1>a, <2>8, <2>10 DEF OrderAt
  <2>12. output'[s] = output[s] /\ InHand(work', s) = w
    BY <2>1 DEF w
  <2> QED
    BY <1>b, <2>7, <2>11, <2>12, Zenon DEF g
<1>3. ASSUME ProcessLog, HandedTo(s)' = h PROVE SharedOrder(s)'
  <2>1. CASE UNCHANGED <<work, m_channel>>
    BY <1>3, <1>d, <2>1 DEF ProcessLog
  <2>2. CASE /\ q # <<>> /\ m_channel' = [m_channel EXCEPT !.queue = Tail(@)]
             /\ work' = [msg |-> Head(q), sinks |-> m_sinks, line |-> <<>>]
    <3>1. pc["worker"] = "read" /\ UNCHANGED output
      BY <1>3 DEF ProcessLog
    <3>2. s \in Range(m_sinks)
      BY <2>2 DEF Queues
    <3>3. InHand(work', s) = <<Head(q)>>
      BY <2>2, <3>2 DEF InHand
    <3>4. m_channel'.queue = Tail(q)
      BY <1>c, <2>2, ChannelOps
    <3> HIDE DEF g, w, q, h
    <3>5. w = <<>> /\ Head(q) \in Messages
      <4>1. w = <<>>
        BY <1>0, <3>1
      <4>2. Head(q) \in Messages
        BY <1>e, <2>2, HeadTailProperties
      <4> QED
        BY <4>1, <4>2
    <3>6. Way(g, <<>>, q) = Way(g, <<Head(q)>>, Tail(q))
      BY <1>e, <2>2, WayTake
    <3>7. OrderAt(s, g, <<Head(q)>>, Tail(q), h)
      BY <1>a, <3>5, <3>6 DEF OrderAt
    <3> QED
      BY <1>3, <1>b, <3>1, <3>3, <3>4, <3>7 DEF g
  <2> QED
    BY <1>3, <2>1, <2>2 DEF ProcessLog
<1>4. ASSUME work \in Work, NoRepeats(work.sinks), work.sinks # <<>>, work' \in Work,
             work'.msg = work.msg, work'.sinks = Tail(work.sinks)
      PROVE  /\ s = Head(work.sinks) =>
                  w = <<work.msg>> /\ InHand(work', s) = <<>> /\ work.msg \in Messages
             /\ s # Head(work.sinks) => InHand(work', s) = w
  <2>1. work.sinks \in Seq(Shared) /\ work.msg \in Messages
    BY <1>4 DEF Work
  <2>2. /\ Range(Tail(work.sinks)) = Range(work.sinks) \ {Head(work.sinks)}
        /\ Head(work.sinks) \in Range(work.sinks)
    BY <1>4, <2>1, ShrinksByOne
  <2> QED
    BY <1>4, <2>1, <2>2 DEF InHand
<1>5. ASSUME WriteToSink, HandedTo(s)' = h PROVE SharedOrder(s)'
  <2>1. UNCHANGED <<output, m_channel>> /\ pc["worker"] = "sinks"
    BY <1>5 DEF WriteToSink
  <2>2. work \in Work /\ NoRepeats(work.sinks)
    BY <2>1 DEF AtWork, WorkAt
  <2>3. CASE UNCHANGED work
    BY <1>5, <1>d, <2>1, <2>3
  <2>4. CASE work.sinks = <<>> /\ work' = Idle
    <3>1. Range(<<>>) = {} /\ Idle.sinks = <<>>
      BY DEF Range, Idle
    <3>2. InHand(work', s) = w
      BY <2>4, <3>1 DEF InHand
    <3> QED
      BY <1>5, <1>d, <2>1, <3>2
  <2>5. CASE /\ work.sinks # <<>> /\ ~admits(Head(work.sinks), work.msg)
             /\ work' = [work EXCEPT !.sinks = Tail(@)]
    <3>1. work' \in Work /\ work'.msg = work.msg /\ work'.sinks = Tail(work.sinks)
      BY <2>2, <2>5, HeadTailProperties, Zenon DEF Work
    <3>2. CASE s # Head(work.sinks)
      <4>1. InHand(work', s) = w
        BY <1>4, <2>2, <2>5, <3>1, <3>2
      <4> QED
        BY <1>5, <1>d, <2>1, <4>1
    <3>3. CASE s = Head(work.sinks)
      <4> DEFINE m == work.msg
      <4>1. w = <<m>> /\ InHand(work', s) = <<>> /\ m \in Messages
        BY <1>4, <2>2, <2>5, <3>1, <3>3
      <4>2. ~admits(s, m)
        BY <2>5, <3>3
      <4> HIDE DEF g, w, q, h, m
      <4>3. InOrder(g \o (<<m>> \o q), s, h)
        BY <1>a, <4>1 DEF OrderAt, Way
      <4>4. InOrder(g \o q, s, h)
        BY <1>0, <4>1, <4>2, <4>3, OrderDrop
      <4>5. Way(g, <<>>, q) = g \o q
        BY <1>e, WayEmpty
      <4>6. OrderAt(s, g, <<>>, q, h)
        BY <1>a, <4>4, <4>5, Zenon DEF OrderAt
      <4> QED
        BY <1>5, <1>b, <2>1, <4>1, <4>6 DEF g, q
    <3> QED
      BY <3>2, <3>3
  <2> QED
    BY <1>5, <2>3, <2>4, <2>5 DEF WriteToSink
<1>6. ASSUME NEW line \in Seq(Nat), NextSink(line), pc["worker"] = "write", UNCHANGED m_channel,
             HandedTo(s)' = h
      PROVE  SharedOrder(s)'
  <2>1. /\ work \in Work /\ NoRepeats(work.sinks) /\ work.sinks # <<>>
        /\ admits(Head(work.sinks), work.msg)
    BY <1>6, Zenon DEF AtWork, WorkAt
  <2>2. work' \in Work /\ work'.msg = work.msg /\ work'.sinks = Tail(work.sinks)
    <3>1. work' = [work EXCEPT !.sinks = Tail(@), !.line = <<>>]
      BY <1>6 DEF NextSink
    <3>2. Tail(work.sinks) \in Seq(Shared) /\ <<>> \in Seq(Nat)
      BY <2>1, HeadTailProperties DEF Work
    <3> QED
      BY <2>1, <3>1, <3>2, Zenon DEF Work
  <2>3. /\ output \in [Shared -> Seq(Line)] /\ Head(work.sinks) \in Shared
        /\ output' = [output EXCEPT ![Head(work.sinks)] = Append(@, <<work.msg, line>>)]
    BY <1>6, <2>1, HeadTailProperties DEF Lines, NextSink, Work
  <2>4. CASE s # Head(work.sinks)
    <3>1. InHand(work', s) = w
      BY <1>4, <2>1, <2>2, <2>4
    <3>2. output'[s] = output[s]
      BY <2>3, <2>4
    <3> QED
      BY <1>6, <1>d, <3>1, <3>2
  <2>5. CASE s = Head(work.sinks)
    <3> DEFINE m == work.msg
    <3>1. w = <<m>> /\ InHand(work', s) = <<>> /\ m \in Messages /\ admits(s, m)
      BY <1>4, <2>1, <2>2, <2>5, Zenon
    <3>2. output'[s] = Append(output[s], <<m, line>>) /\ output[s] \in Seq(Line)
      BY <2>3, <2>5
    <3>3. Names(output'[s]) = Append(g, m)
      BY <1>6, <3>1, <3>2, NamesOf
    <3> HIDE DEF g, w, q, h, m
    <3>a. Way(Append(g, m), <<>>, q) = Way(g, <<m>>, q)
      BY <1>e, <3>1, WayGet
    <3>4. Way(Append(g, m), <<>>, q) = Way(g, w, q)
      BY <3>1, <3>a
    <3>5. Range(Append(g, m)) = Range(g) \union {m}
      BY <1>0, <3>1, AppendSet
    <3>6. OrderAt(s, Append(g, m), <<>>, q, h)
      BY <1>a, <3>1, <3>4, <3>5 DEF OrderAt
    <3> QED
      BY <1>6, <1>b, <3>1, <3>3, <3>6 DEF q
  <2> QED
    BY <2>4, <2>5
<1>7. ASSUME write_to_output, HandedTo(s)' = h PROVE SharedOrder(s)'
  <2>1. UNCHANGED m_channel /\ pc["worker"] = "write"
    BY <1>7 DEF write_to_output
  <2>2. work.line \in Seq(Nat) /\ IsStart(work.line) /\ work \in Work
    BY <2>1 DEF AtWork, WorkAt, Work
  <2>3. \A n \in 1..(LineLength - Len(work.line)) : Written(n) \in Seq(Nat)
    <3>1. Len(work.line) \in Nat /\ LineLength \in Nat
      BY <2>2, LenProperties, LoggerAssumption
    <3>2. \A n \in 1..(LineLength - Len(work.line)) : n \in Nat
      BY <3>1
    <3> QED
      BY <2>2, <3>2, StartGrows
  <2>4. ASSUME NEW l, work' = [work EXCEPT !.line = l], UNCHANGED output PROVE SharedOrder(s)'
    <3>1. work'.sinks = work.sinks /\ work'.msg = work.msg
      BY <2>2, <2>4 DEF Work
    <3>2. InHand(work', s) = w
      BY <3>1 DEF InHand
    <3> QED
      BY <1>7, <1>d, <2>1, <2>4, <3>2
  <2>5. \/ \E l \in Seq(Nat) : NextSink(l)
        \/ \E l : work' = [work EXCEPT !.line = l] /\ UNCHANGED output
    BY <1>7, <2>2, <2>3 DEF write_to_output
  <2> QED
    BY <1>6, <1>7, <2>1, <2>4, <2>5
<1>8. ASSUME ~(ProcessLog \/ WriteToSink \/ write_to_output),
             ~(\E c \in Callers : log(c) \/ LogToShared(c)), HandedTo(s)' = h
      PROVE  SharedOrder(s)'
  <2>1. /\ UNCHANGED <<output, work>>
        /\ UNCHANGED m_channel \/ m_channel' = [m_channel EXCEPT !.completed = TRUE]
    BY <1>8, Zenon DEF Next, Otel, Destructor, add_sink, add_otel_sink, OtelSinkAdded, Run,
       DestroyLogger, Joined, OtelJoined, Worker, write_message_log, BeginFormat, ReadFirst,
       serialize_record, Collect, Sent, InTransport, PeerDone, vars, loggerVars, workerVars
  <2>2. m_channel'.queue = q
    BY <1>c, <2>1, ChannelOps, Zenon
  <2> QED
    BY <1>8, <1>d, <2>1, <2>2
<1> QED
  BY <1>1, <1>2, <1>3, <1>5, <1>7, <1>8, HandedStays

\* The types of the parts of the way to the OpenTelemetry sink.
LEMMA OtelParts ==
  ASSUME Lifecycle, Queues, Batches
  PROVE  /\ FlattenSeq(requests) \in Seq(Messages) /\ otel_channel.queue \in Seq(Messages)
         /\ InBatch(pc["otel"], m_body, batch) \in Seq(Messages)
         /\ batch = <<>> =>
              InBatch(pc["otel"], m_body, batch) = IF pc["otel"] = "send" THEN <<>> ELSE m_body
         /\ m_body \in Seq(Messages) /\ batch \in Seq(Messages)
         /\ HandedTo("otel") = logged /\ logged \in [Callers -> Int]
<1>1. m_body \in Seq(Messages) /\ requests \in Seq(Seq(Messages))
  BY DEF Batches, BatchAt, Requests
<1>2. batch \in Seq(Messages)
  <2>1. pc["otel"] \in {"format", "formatting"} => \E m \in Messages : batch = <<m>>
    BY DEF Batches, BatchAt
  <2>2. pc["otel"] \notin {"format", "formatting"} => batch = <<>>
    BY DEF Batches, BatchAt, Lifecycle, OtelPlaces
  <2>3. <<>> \in Seq(Messages) /\ \A m \in Messages : <<m>> \in Seq(Messages)
    OBVIOUS
  <2> QED
    BY <2>1, <2>2, <2>3, Zenon
<1>3. FlattenSeq(requests) \in Seq(Messages)
  BY <1>1, FlattenType
<1>4. otel_channel.queue \in Seq(Messages)
  BY DEF Queues, Channel
<1>5. logged \in [Callers -> Nat]
  BY DEF Queues
<1>6. logged \in [Callers -> Int] /\ HandedTo("otel") = logged
  BY <1>5 DEF HandedTo, Handed, Shared
<1> DEFINE x == IF pc["otel"] = "send" THEN <<>> ELSE m_body
<1>7. x \in Seq(Messages) /\ InBatch(pc["otel"], m_body, batch) = x \o batch
  BY <1>1 DEF InBatch
<1> HIDE DEF x
<1>8. x \o batch \in Seq(Messages) /\ x \o <<>> = x
  BY <1>2, <1>7, ConcatProperties, ConcatEmptySeq
<1>9. batch = <<>> => InBatch(pc["otel"], m_body, batch) = x
  BY <1>7, <1>8
<1> QED
  BY <1>1, <1>2, <1>3, <1>4, <1>6, <1>7, <1>8, <1>9 DEF x

\* A call of log hands the message on, or drops it if the sink does not admit it.
LEMMA OtelLogs ==
  ASSUME Lifecycle, Queues, Batches, OtelOrder, NEW c \in Callers, log(c),
         "otel" \in m_own_channel_sinks
  PROVE  OtelOrder'
<1> USE OtherThreads
<1> DEFINE f == FlattenSeq(requests)
           w == InBatch(pc["otel"], m_body, batch)
           q == otel_channel.queue
           k == logged[c] + 1
           m == <<c, k>>
<1>1. f \in Seq(Messages) /\ w \in Seq(Messages) /\ q \in Seq(Messages)
  BY OtelParts
<1>2. HandedTo("otel") = logged /\ logged \in [Callers -> Int]
  BY OtelParts
<1>3. /\ pc["main"] = "run" /\ logged[c] < Len(Levels[c]) /\ Goto(c, "shared")
      /\ logged' = [logged EXCEPT ![c] = k] /\ UNCHANGED <<batch, m_body, requests>>
      /\ otel_channel' = IF admits("otel", m) THEN try_push(otel_channel, m) ELSE otel_channel
  BY DEF log, otelVars
<1>4. pc'["otel"] = pc["otel"]
  BY <1>3, Moves DEF Lifecycle, Places
<1>5. HandedTo("otel")' = logged'
  BY <1>2, <1>3, Zenon DEF HandedTo, Handed, Shared
<1>6. m \in Messages /\ k \in Int /\ k = logged[c] + 1
  <2>1. logged[c] \in Nat /\ Len(Levels[c]) \in Nat
    BY MessageIs DEF Queues
  <2>2. k \in 1..Len(Levels[c])
    BY <1>3, <2>1
  <2> QED
    BY <2>1, <2>2, MessageIs
<1>7. OtelAt(f, w, q, logged)
  BY <1>2 DEF OtelOrder
<1>8. ASSUME OtelAt(f, w, otel_channel'.queue, logged') PROVE OtelOrder'
  BY <1>3, <1>4, <1>5, <1>8, ZenonT(40) DEF OtelOrder
<1>9. otel_channel \in Channel /\ ~otel_channel.completed
  BY <1>3 DEF Queues
<1>10. admits("otel", m) => otel_channel'.queue = Append(q, m)
  BY <1>3, <1>6, <1>9, ChannelOps, Zenon
<1>11. ~admits("otel", m) => otel_channel'.queue = q
  BY <1>3
<1> DEFINE x == Way(f, w, q)
<1>12. InOrder(x, "otel", logged) /\ \A e \in Range(x) : admits("otel", e)
  BY <1>7 DEF OtelAt
<1>13. OtelAt(f, w, q, logged') <=> InOrder(x, "otel", logged')
  BY <1>12 DEF OtelAt
<1>17. m = <<c, k>>
  OBVIOUS
<1> HIDE DEF f, w, q, k, m
<1>14. Way(f, w, Append(q, m)) = Append(x, m)
  BY <1>1, <1>6, WayPush
<1> HIDE DEF x
<1>15. CASE admits("otel", m)
  <2> DEFINE h == logged
             y == logged'
  <2>a. <<c, k>> \in Messages
    BY <1>6, <1>17
  <2>d. k \in Int /\ k = h[c] + 1
    BY <1>6
  <2>e. InOrder(x, "otel", h) /\ y = [h EXCEPT ![c] = k] /\ h \in [Callers -> Int]
    BY <1>2, <1>3, <1>12
  <2> HIDE DEF h, y
  <2>b. InOrder(Append(x, <<c, k>>), "otel", y)
    BY <2>a, <2>d, <2>e, OrderPush, Zenon
  <2>c. x \in Seq(Messages)
    BY <1>12 DEF InOrder
  <2>1. /\ InOrder(Append(x, m), "otel", logged')
        /\ Range(Append(x, m)) = Range(x) \union {m}
    BY <1>6, <1>17, <2>b, <2>c, AppendSet DEF y
  <2>2. \A e \in Range(Append(x, m)) : admits("otel", e)
    BY <1>12, <1>15, <2>1
  <2> QED
    BY <1>8, <1>10, <1>14, <1>15, <2>1, <2>2, Zenon DEF OtelAt
<1>16. CASE ~admits("otel", m)
  <2>1. InOrder(x, "otel", logged')
    BY <1>2, <1>3, <1>6, <1>12, <1>16, <1>17, OrderSkip, Zenon
  <2> QED
    BY <1>8, <1>11, <1>13, <1>16, <2>1
<1> QED
  BY <1>15, <1>16

\* No other step changes what is on the way to the OpenTelemetry sink, or its
\* order: the sink's thread only moves messages from one part to the next.
LEMMA OtelOrderStep ==
  ASSUME Lifecycle, Queues, Batches, [Next]_vars, OtelOrder,
         "otel" \in m_own_channel_sinks \/ pc["main"] \in SettingUp
  PROVE  OtelOrder'
<1> USE OtherThreads
<1> DEFINE f == FlattenSeq(requests)
           w == InBatch(pc["otel"], m_body, batch)
           q == otel_channel.queue
           f2 == FlattenSeq(requests')
           w2 == InBatch(pc'["otel"], m_body', batch')
           q2 == otel_channel'.queue
<1>1. /\ f \in Seq(Messages) /\ w \in Seq(Messages) /\ q \in Seq(Messages)
      /\ m_body \in Seq(Messages) /\ batch \in Seq(Messages)
  BY OtelParts
<1>2. batch = <<>> => w = IF pc["otel"] = "send" THEN <<>> ELSE m_body
  BY OtelParts
<1>3. otel_channel \in Channel /\ pc \in [Threads -> Places]
  BY DEF Queues, Lifecycle
<1>4. ASSUME Way(f2, w2, q2) = Way(f, w, q), HandedTo("otel")' = HandedTo("otel")
      PROVE  OtelOrder'
  BY <1>4, ZenonT(40) DEF OtelOrder, OtelAt
<1>5. ASSUME UNCHANGED <<m_body, batch, requests>>, q2 = q, HandedTo("otel")' = HandedTo("otel"),
             pc'["otel"] = pc["otel"] \/ (pc["otel"] # "send" /\ pc'["otel"] # "send")
      PROVE  OtelOrder'
  <2>1. w2 = w
    BY <1>5, Zenon DEF InBatch
  <2> QED
    BY <1>4, <1>5, <2>1, Zenon
<1>6. ASSUME NEW c \in Callers, log(c) PROVE OtelOrder'
  <2>1. "otel" \in m_own_channel_sinks
    BY <1>6 DEF log, SettingUp
  <2> QED
    BY <1>6, <2>1, OtelLogs
<1>7. ASSUME NEW c \in Callers, LogToShared(c) PROVE OtelOrder'
  <2>1. UNCHANGED <<m_body, batch, requests, otel_channel, logged>> /\ Goto(c, "idle")
    BY <1>7 DEF LogToShared, otelVars
  <2>2. pc'["otel"] = pc["otel"]
    BY <1>3, <2>1, Moves DEF Places
  <2>3. HandedTo("otel")' = HandedTo("otel")
    BY <2>1 DEF HandedTo, Handed, Shared
  <2> QED
    BY <1>5, <2>1, <2>2, <2>3
\* The sink's thread takes a message.
<1>8. ASSUME pc["otel"] \in {"read", "collect"}, q # <<>>, batch' = <<Head(q)>>,
             otel_channel' = [otel_channel EXCEPT !.queue = Tail(@)], Goto("otel", "format"),
             UNCHANGED <<m_body, requests>>, HandedTo("otel")' = HandedTo("otel")
      PROVE  OtelOrder'
  <2>1. batch = <<>>
    BY <1>8 DEF Batches, BatchAt
  <2>2. w = m_body
    BY <1>2, <1>8, <2>1
  <2>3. q2 = Tail(q) /\ Head(q) \in Messages
    BY <1>3, <1>8, ChannelOps, Zenon
  <2>4. pc'["otel"] = "format"
    BY <1>3, <1>8, Moves DEF Places, OtelPlaces
  <2>5. w2 = m_body \o <<Head(q)>>
    BY <1>8, <2>4 DEF InBatch
  <2>6. f2 = f
    BY <1>8
  <2>7. q # <<>>
    BY <1>8
  <2> HIDE DEF f, w, q, f2, w2, q2
  <2>8. m_body \o <<Head(q)>> = Append(m_body, Head(q))
    BY <1>1, <2>3, AppendIsConcat
  <2>9. Way(f, m_body, q) = Way(f, Append(m_body, Head(q)), Tail(q))
    BY <1>1, <2>7, HandsOver
  <2> QED
    BY <1>4, <1>8, <2>2, <2>3, <2>5, <2>6, <2>8, <2>9, Zenon
\* serialize_record
<1>9. ASSUME pc["otel"] # "send", m_body' = m_body \o batch, batch' = <<>>,
             Goto("otel", "collect"), UNCHANGED <<otel_channel, requests>>,
             HandedTo("otel")' = HandedTo("otel")
      PROVE  OtelOrder'
  <2>1. pc'["otel"] = "collect"
    BY <1>3, <1>9, Moves DEF Places, OtelPlaces
  <2>2. w = m_body \o batch /\ w2 = (m_body \o batch) \o <<>>
    BY <1>9, <2>1 DEF InBatch
  <2>3. f2 = f /\ q2 = q
    BY <1>9
  <2> HIDE DEF f, w, q, f2, w2, q2
  <2>4. w2 = w \o <<>> /\ w \o <<>> = w
    BY <1>1, <2>2, ConcatEmptySeq
  <2> QED
    BY <1>4, <1>9, <2>3, <2>4
\* The request is sent.
<1>10. ASSUME pc["otel"] = "collect", requests' = Append(requests, m_body), Goto("otel", "send"),
              UNCHANGED <<m_body, batch, otel_channel>>, HandedTo("otel")' = HandedTo("otel")
       PROVE  OtelOrder'
  <2>1. batch = <<>> /\ requests \in Seq(Seq(Messages))
    BY <1>10 DEF Batches, BatchAt, Requests
  <2>2. w = m_body
    BY <1>2, <1>10, <2>1
  <2>3. pc'["otel"] = "send"
    BY <1>3, <1>10, Moves DEF Places, OtelPlaces
  <2>4. w2 = <<>>
    BY <1>10, <2>1, <2>3, ConcatEmptySeq DEF InBatch
  <2>5. f2 = f \o m_body
    BY <1>1, <1>10, <2>1, FlattenAppend
  <2>6. q2 = q
    BY <1>10
  <2> HIDE DEF f, w, q, f2, w2, q2
  <2>7. Way(f \o m_body, <<>>, q) = Way(f, m_body, q)
    BY <1>1, HandsOver
  <2> QED
    BY <1>4, <1>10, <2>2, <2>4, <2>5, <2>6, <2>7
\* send returns.
<1>11. ASSUME Sent, HandedTo("otel")' = HandedTo("otel") PROVE OtelOrder'
  <2>1. /\ pc["otel"] = "send" /\ m_body' = <<>> /\ Goto("otel", "read")
        /\ UNCHANGED <<batch, requests, otel_channel>>
    BY <1>11 DEF Sent
  <2>2. pc'["otel"] = "read"
    BY <1>3, <2>1, Moves DEF Places, OtelPlaces
  <2>3. w2 = w
    BY <2>1, <2>2 DEF InBatch
  <2> QED
    BY <1>4, <1>11, <2>1, <2>3
<1>12. ASSUME ReadFirst \/ serialize_record \/ Collect, HandedTo("otel")' = HandedTo("otel")
       PROVE  OtelOrder'
  <2>1. CASE ReadFirst
    <3>1. CASE otel_channel.queue = <<>>
      <4>1. /\ UNCHANGED <<m_body, batch, requests, otel_channel>> /\ Goto("otel", "done")
            /\ pc["otel"] = "read"
        BY <2>1, <3>1 DEF ReadFirst
      <4>2. pc'["otel"] = "done"
        BY <1>3, <4>1, Moves DEF Places, OtelPlaces
      <4> QED
        BY <1>5, <1>12, <4>1, <4>2
    <3>2. CASE otel_channel.queue # <<>>
      BY <1>8, <1>12, <2>1, <3>2 DEF ReadFirst
    <3> QED
      BY <3>1, <3>2
  <2>2. CASE serialize_record
    <3>1. pc["otel"] # "send"
      BY <2>2 DEF serialize_record, get_formatted_message
    <3> QED
      BY <1>9, <1>12, <2>2, <3>1 DEF serialize_record, get_formatted_message
  <2>3. CASE Collect
    <3>1. CASE ~BatchFull /\ otel_channel.queue # <<>>
      BY <1>8, <1>12, <2>3, <3>1 DEF Collect
    <3>2. CASE ~(~BatchFull /\ otel_channel.queue # <<>>)
      BY <1>10, <1>12, <2>3, <3>2 DEF Collect
    <3> QED
      BY <3>1, <3>2
  <2> QED
    BY <1>12, <2>1, <2>2, <2>3
<1>13. ASSUME NEW m, BeginFormat("otel", m), HandedTo("otel")' = HandedTo("otel") PROVE OtelOrder'
  <2>1. /\ UNCHANGED <<m_body, batch, requests, otel_channel>> /\ Goto("otel", "formatting")
        /\ pc["otel"] = "format"
    BY <1>13 DEF BeginFormat, otelVars
  <2>2. pc'["otel"] = "formatting"
    BY <1>3, <2>1, Moves DEF Places, OtelPlaces
  <2> QED
    BY <1>5, <1>13, <2>1, <2>2
<1>14. ASSUME OtelSinkAdded, HandedTo("otel")' = HandedTo("otel") PROVE OtelOrder'
  <2>1. UNCHANGED <<m_body, batch, requests, otel_channel>> /\ pc["otel"] = "none"
    BY <1>14 DEF OtelSinkAdded, otelVars, Lifecycle
  <2>2. pc'["otel"] \in {"none", "read"}
    BY <1>3, <1>14, <2>1 DEF OtelSinkAdded, Goto
  <2> QED
    BY <1>5, <1>14, <2>1, <2>2
\* The others leave the sink's thread alone.
<1>15. ASSUME NEW t \in {"main", "worker"}, UNCHANGED pc \/ \E where : Goto(t, where),
              UNCHANGED otelVars, HandedTo("otel")' = HandedTo("otel"),
              UNCHANGED otel_channel \/ otel_channel' = [otel_channel EXCEPT !.completed = TRUE]
       PROVE  OtelOrder'
  <2>1. pc'["otel"] = pc["otel"]
    BY <1>3, <1>15 DEF Goto
  <2>2. q2 = q
    BY <1>3, <1>15, ChannelOps, Zenon
  <2> QED
    BY <1>5, <1>15, <2>1, <2>2 DEF otelVars
<1>16. ASSUME Worker, HandedTo("otel")' = HandedTo("otel") PROVE OtelOrder'
  <2>1. UNCHANGED otelVars /\ UNCHANGED otel_channel
    BY <1>16 DEF Worker, ProcessLog, WriteToSink, write_message_log, write_to_output, BeginFormat
  <2>2. UNCHANGED pc \/ \E where : Goto("worker", where)
    BY <1>16, Zenon DEF Worker, ProcessLog, WriteToSink, write_message_log, write_to_output, NextSink,
       get_formatted_message, BeginFormat
  <2> QED
    BY <1>15, <1>16, <2>1, <2>2
<1>17. ASSUME \/ \E s \in Shared : add_sink(s)
              \/ add_otel_sink \/ Run \/ InTransport \/ PeerDone \/ DestroyLogger \/ Destructor
              \/ UNCHANGED vars,
              HandedTo("otel")' = HandedTo("otel")
       PROVE  OtelOrder'
  <2>1. /\ UNCHANGED otelVars
        /\ UNCHANGED otel_channel \/ otel_channel' = [otel_channel EXCEPT !.completed = TRUE]
    BY <1>17 DEF add_sink, add_otel_sink, Run, InTransport, PeerDone, DestroyLogger, Destructor,
       Joined, OtelJoined, complete_otel, vars, loggerVars, otelVars
  <2>2. UNCHANGED pc \/ \E where : Goto("main", where)
    BY <1>17 DEF add_sink, add_otel_sink, Run, InTransport, PeerDone, DestroyLogger, Destructor,
       Joined, OtelJoined, vars, loggerVars
  <2> QED
    BY <1>15, <1>17, <2>1, <2>2
<1>18. CASE \E c \in Callers : log(c) \/ LogToShared(c)
  BY <1>6, <1>7, <1>18
<1>19. CASE ~(\E c \in Callers : log(c) \/ LogToShared(c))
  <2>1. HandedTo("otel")' = HandedTo("otel")
    BY <1>19, HandedStays
  <2> QED
    BY <1>11, <1>12, <1>13, <1>14, <1>16, <1>17, <1>19, <2>1 DEF Next, Otel
<1> QED
  BY <1>18, <1>19

\* The lists of sinks change only while main sets the logger up.
LEMMA ListsStay ==
  ASSUME Lifecycle, [Next]_vars
  PROVE  /\ pc'["main"] \in SettingUp => pc["main"] \in SettingUp
         /\ pc["main"] \in SettingUp \/ UNCHANGED <<m_sinks, m_own_channel_sinks>>
<1> USE OtherThreads
<1>1. pc \in [Threads -> Places]
  BY DEF Lifecycle
<1>2. CASE \/ \E s \in Shared : add_sink(s)
           \/ add_otel_sink \/ OtelSinkAdded \/ Run
  BY <1>2 DEF add_sink, add_otel_sink, OtelSinkAdded, Run, SettingUp
<1>3. CASE ~(\/ \E s \in Shared : add_sink(s)
             \/ add_otel_sink \/ OtelSinkAdded \/ Run)
  <2>1. UNCHANGED <<m_sinks, m_own_channel_sinks>>
    BY <1>3, Zenon DEF Next, Otel, Destructor, DestroyLogger, Joined, OtelJoined, log, LogToShared,
       Worker, ProcessLog, WriteToSink, write_message_log, write_to_output, BeginFormat,
       ReadFirst, serialize_record, Collect, Sent, InTransport, PeerDone, vars, loggerVars,
       sinkVars
  <2>2. \/ UNCHANGED pc
        \/ \E t \in Callers \union {"worker", "otel"} : \E where : Goto(t, where)
        \/ \E where \in {"join", "join_otel", "destroyed"} : Goto("main", where)
    BY <1>3, Zenon DEF Next, Otel, Destructor, DestroyLogger, Joined, OtelJoined, log, LogToShared,
       Worker, ProcessLog, WriteToSink, write_message_log, write_to_output, NextSink,
       get_formatted_message, BeginFormat, ReadFirst, serialize_record, Collect, Sent,
       InTransport, PeerDone, vars, loggerVars
  <2>3. pc'["main"] \in SettingUp => pc["main"] \in SettingUp
    BY <1>1, <2>2 DEF Goto, SettingUp
  <2> QED
    BY <2>1, <2>3
<1> QED
  BY <1>2, <1>3

\* Order is kept by every step.
LEMMA OrderStep ==
  ASSUME LoggerInvariant, Lines, Order, [Next]_vars
  PROVE  Order'
<1>1. Lifecycle /\ Queues /\ SinksAdded /\ AtWork /\ Batches
  BY DEF LoggerInvariant
<1>2. /\ pc'["main"] \in SettingUp => pc["main"] \in SettingUp
      /\ pc["main"] \in SettingUp \/ UNCHANGED <<m_sinks, m_own_channel_sinks>>
  BY <1>1, ListsStay
<1>3. ASSUME NEW s \in Shared, s \in Range(m_sinks') \/ pc'["main"] \in SettingUp
      PROVE  SharedOrder(s)'
  <2>1. s \in Range(m_sinks) \/ pc["main"] \in SettingUp
    BY <1>2, <1>3
  <2>2. SharedOrder(s)
    BY <2>1 DEF Order
  <2> QED
    BY <1>1, <2>1, <2>2, SharedOrderStep
<1>4. ASSUME "otel" \in m_own_channel_sinks' \/ pc'["main"] \in SettingUp PROVE OtelOrder'
  <2>1. "otel" \in m_own_channel_sinks \/ pc["main"] \in SettingUp
    BY <1>2, <1>4
  <2>2. OtelOrder
    BY <2>1 DEF Order
  <2> QED
    BY <1>1, <2>1, <2>2, OtelOrderStep
<1> QED
  BY <1>3, <1>4 DEF Order

\* Nothing is on its way in the beginning.
LEMMA OrderInit == Init => Order
<1> SUFFICES ASSUME Init PROVE Order
  OBVIOUS
<1>1. /\ output = [s \in Shared |-> <<>>] /\ work = Idle /\ m_channel = Empty
      /\ otel_channel = Empty /\ batch = <<>> /\ m_body = <<>> /\ requests = <<>>
      /\ logged = [c \in Callers |-> 0] /\ \A c \in Callers : pc[c] = "idle"
      /\ pc["otel"] = "none"
  BY OtherThreads DEF Init
<1>2. \A s : \A c \in Callers : HandedTo(s)[c] = 0
  BY <1>1 DEF HandedTo, Handed
<1>3. Names(<<>>) = <<>> /\ Range(<<>>) = {} /\ <<>> \o <<>> = <<>> /\ <<>> \in Seq(Messages)
  BY DEF Names, Range
<1>4. Way(<<>>, <<>>, <<>>) = <<>>
  BY <1>3 DEF Way
<1>5. ASSUME NEW s, NEW h, \A c \in Callers : h[c] = 0 PROVE InOrder(<<>>, s, h)
  <2>1. Increasing(<<>>)
    BY DEF Increasing
  <2>2. \A m \in Messages : ~(m[2] <= h[m[1]])
    <3> TAKE m \in Messages
    <3>1. m[1] \in Callers /\ m[2] \in 1..Len(Levels[m[1]]) /\ Len(Levels[m[1]]) \in Nat
      BY MessageIs
    <3> QED
      BY <1>5, <3>1
  <2> QED
    BY <1>3, <2>1, <2>2 DEF InOrder
<1>6. Idle.sinks = <<>> /\ Empty.queue = <<>>
  BY DEF Idle, Empty
<1>7. ASSUME NEW s \in Shared PROVE SharedOrder(s)
  <2>1. Names(output[s]) = <<>> /\ InHand(work, s) = <<>> /\ m_channel.queue = <<>>
    BY <1>1, <1>3, <1>6 DEF InHand
  <2>2. InOrder(<<>>, s, HandedTo(s))
    BY <1>2, <1>5
  <2> QED
    BY <1>3, <1>4, <2>1, <2>2, ZenonT(40) DEF SharedOrder, OrderAt
<1>8. OtelOrder
  <2>1. /\ FlattenSeq(requests) = <<>> /\ InBatch(pc["otel"], m_body, batch) = <<>>
        /\ otel_channel.queue = <<>>
    BY <1>1, <1>3, <1>6, FlattenEmpty DEF InBatch
  <2>2. InOrder(<<>>, "otel", HandedTo("otel"))
    BY <1>2, <1>5
  <2> QED
    BY <1>3, <1>4, <2>1, <2>2, ZenonT(40) DEF OtelOrder, OtelAt
<1> QED
  BY <1>7, <1>8 DEF Order

\* In order and complete, in the words of EachOnceInOrder.
LEMMA InOrderMeans ==
  ASSUME NEW s, NEW t, InOrder(t, s, HandedTo(s))
  PROVE  /\ {m \in Range(t) : admits(s, m)}
              = {m \in Messages : m[2] <= Handed(m[1], s) /\ admits(s, m)}
         /\ \A i, j \in DOMAIN t : i < j /\ t[i][1] = t[j][1] => t[i][2] < t[j][2]
<1>1. \A m \in Messages : HandedTo(s)[m[1]] = Handed(m[1], s)
  BY MessageIs DEF HandedTo
<1>2. \A m \in Range(t) : m \in Messages
  <2>1. t \in Seq(Messages)
    BY DEF InOrder
  <2> QED
    BY <2>1, RangeOfSeq, Zenon
<1> QED
  BY <1>1, <1>2 DEF InOrder, Increasing

\* log, process_logs and otel_sink::process_messages deliver to every sink each
\* message that it admits exactly once, in the order in which its thread logged
\* them, for any number of threads and messages and any batch size.
THEOREM DeliveredOnceInOrder == Spec => []EachOnceInOrder
<1>1. LoggerInvariant /\ Lines /\ [Next]_vars => Lines'
  BY LinesStep DEF LoggerInvariant
<1>2. LoggerInvariant /\ Lines /\ Order /\ [Next]_vars => Order'
  BY OrderStep
<1>3. ASSUME LoggerInvariant, Lines, Order PROVE EachOnceInOrder
  <2>1. Lifecycle /\ Queues /\ SinksAdded /\ AtWork /\ Batches /\ Lines
    BY <1>3 DEF LoggerInvariant
  <2>2. ASSUME NEW s \in Range(m_sinks)
        PROVE  /\ \A m \in Range(Got(s)) : admits(s, m)
               /\ InOrder(Got(s) \o Coming(s), s, HandedTo(s))
    <3>1. s \in Shared /\ s # "otel"
      BY <2>1 DEF SinksAdded, Range, Shared
    <3>2. SharedOrder(s)
      BY <1>3, <3>1 DEF Order
    <3>3. /\ Got(s) = Names(output[s])
          /\ Got(s) \o Coming(s) = Way(Names(output[s]), InHand(work, s), m_channel.queue)
      BY <3>1, Zenon DEF Got, Coming, Names, Way, InHand
    <3> QED
      BY <3>2, <3>3 DEF SharedOrder, OrderAt
  <2>3. ASSUME "otel" \in m_own_channel_sinks
        PROVE  /\ \A m \in Range(Got("otel")) : admits("otel", m)
               /\ InOrder(Got("otel") \o Coming("otel"), "otel", HandedTo("otel"))
    <3>1. OtelOrder
      BY <1>3, <2>3 DEF Order
    <3> DEFINE f == FlattenSeq(requests)
               w == InBatch(pc["otel"], m_body, batch)
               q == otel_channel.queue
    <3>2. Got("otel") = f /\ Got("otel") \o Coming("otel") = f \o (w \o q)
      BY DEF Got, Coming, InBatch
    <3>3. f \in Seq(Messages) /\ w \in Seq(Messages) /\ q \in Seq(Messages)
      BY <2>1, OtelParts
    <3>4. InOrder(f \o (w \o q), "otel", HandedTo("otel"))
          /\ \A m \in Range(f \o (w \o q)) : admits("otel", m)
      BY <3>1 DEF OtelOrder, OtelAt, Way
    <3> HIDE DEF f, w, q
    <3>5. w \o q \in Seq(Messages)
      BY <3>3, ConcatProperties
    <3> DEFINE x == w \o q
    <3>6. x \in Seq(Messages) /\ f \o (w \o q) = f \o x
      BY <3>5
    <3> HIDE DEF x
    <3>7. Range(f \o x) = Range(f) \union Range(x)
      BY <3>3, <3>6, ConcatSet
    <3> QED
      BY <3>2, <3>4, <3>6, <3>7, Zenon
  <2>4. \A s \in m_own_channel_sinks : s = "otel"
    BY <2>1 DEF Lifecycle
  <2>5. ASSUME NEW s \in Range(m_sinks) \union m_own_channel_sinks
        PROVE  /\ \A m \in Range(Got(s)) : admits(s, m)
               /\ InOrder(Got(s) \o Coming(s), s, HandedTo(s))
    BY <2>2, <2>3, <2>4
  <2> QED
    BY <2>5, InOrderMeans, Zenon DEF EachOnceInOrder
<1> QED
  BY <1>1, <1>2, <1>3, LinesInit, OrderInit, LoggerInvariantHolds, PTL DEF Spec
===============================================================================
