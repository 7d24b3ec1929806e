----------------------------- MODULE OtelTransport -----------------------------
(***************************************************************************)
(* The two transports of the OpenTelemetry sink (logging/sinks/            *)
(* otel_transports): native.h, one blocking TCP connection per request,    *)
(* and curl.h.  A program is built with one of them.                       *)
(*                                                                         *)
(* Every system call that can fail is a step, with every outcome the code  *)
(* tells apart.  A call interrupted by a signal is made again and changes  *)
(* nothing, so it is no step; nor is a recv that returns data, which       *)
(* discard_response throws away.  A record of a request is one unit of     *)
(* data, and so are the request prefix and the Content-Length line.        *)
(***************************************************************************)
EXTENDS Integers, Sequences, FiniteSets, Functions, Flattening

CONSTANTS Transports,     \* the transports a program may be built with
          MaxAddresses    \* bound: addresses that getaddrinfo returns

ASSUME TransportAssumption ==
  /\ Transports \subseteq {"native", "curl"} /\ Transports # {}
  /\ MaxAddresses \in Nat \ {0}

VARIABLES transport_impl,     \* the transport of this build
          tpc,                \* where the transport is; "idle" between calls
          addresses,          \* native: addresses not yet tried, the current one included
          sockets,            \* native: fd -> "blocking" or "nonblocking", the open ones
          fd,                 \* native: connect_to_host's local fd
          data,               \* native: what each send_all of send has still to send
          wire,               \* native: what the peer received on this connection
          m_curl, m_headers   \* curl: the handle exists; the headers in the list

nativeVars == <<addresses, sockets, fd, data, wire>>
curlVars == <<m_curl, m_headers>>
transportVars == <<transport_impl, tpc, nativeVars, curlVars>>

Headers == 3    \* Content-Type, Authorization, stream-name

TransportTypeOK ==
  /\ transport_impl \in Transports
  /\ tpc \in {"none", "headers", "options", "threw", "idle", "resolve",
              "socket", "nonblock", "connect", "poll", "restore", "send",
              "discard", "perform"}
  /\ addresses \in 0..MaxAddresses
  /\ fd \in -1..MaxAddresses
  /\ \A f \in DOMAIN sockets : sockets[f] \in {"blocking", "nonblocking"}
  /\ m_curl \in BOOLEAN /\ m_headers \in 0..Headers

TransportInit ==
  /\ transport_impl \in Transports
  /\ tpc = "none"
  /\ addresses = 0 /\ sockets = <<>> /\ fd = -1 /\ data = <<>> /\ wire = <<>>
  /\ m_curl = FALSE /\ m_headers = 0

-------------------------------------------------------------------------------
(***************************************************************************)
(* Construction.  The native constructor parses the endpoint, which throws *)
(* if it is no http URL, and holds nothing.  The curl constructor          *)
(* acquires a handle and a list of headers, and sets the options.          *)
(***************************************************************************)
ConstructNative ==
  /\ tpc' \in {"idle", "threw"}
  /\ UNCHANGED <<transport_impl, nativeVars, curlVars>>

\* curl_easy_init
ConstructCurl ==
  /\ \/ tpc' = "headers" /\ m_curl' = TRUE
     \/ tpc' = "threw" /\ UNCHANGED m_curl
  /\ UNCHANGED <<transport_impl, nativeVars, m_headers>>

\* A handler that forgets the list of headers.
Catch_KeepsHeaders ==
  /\ tpc' = "threw"
  /\ m_curl' = FALSE
  /\ UNCHANGED m_headers

\* The catch (...) of the constructor
Catch ==
  /\ tpc' = "threw"
  /\ m_curl' = FALSE /\ m_headers' = 0

\* append_header, for each header; without an auth_token there are two.
AppendHeader ==
  /\ tpc = "headers"
  /\ \/ /\ m_headers' = m_headers + 1
        /\ \/ m_headers' < Headers /\ tpc' = "headers"
           \/ m_headers' >= Headers - 1 /\ tpc' = "options"
        /\ UNCHANGED m_curl
     \/ Catch
  /\ UNCHANGED <<transport_impl, nativeVars>>

\* The calls of check_setopt
SetOptions ==
  /\ tpc = "options"
  /\ \/ tpc' = "idle" /\ UNCHANGED curlVars
     \/ Catch
  /\ UNCHANGED <<transport_impl, nativeVars>>

\* The constructor of the transport is entered.
Construct ==
  /\ tpc = "none"
  /\ IF transport_impl = "native" THEN ConstructNative ELSE ConstructCurl

\* ~otel_curl_transport; the native transport has nothing to release.
DestroyTransport ==
  /\ tpc = "idle"
  /\ tpc' = "none"
  /\ m_curl' = FALSE /\ m_headers' = 0
  /\ UNCHANGED <<transport_impl, nativeVars>>

-------------------------------------------------------------------------------
(***************************************************************************)
(* otel_native_transport::send.                                            *)
(***************************************************************************)

\* The three arguments of send_all; a record in the body is a pair as well.
m_request_prefix == <<<<"prefix", 0>>>>
content_length(json_body) == <<<<"length", Len(json_body)>>>>
Parts(json_body) == <<m_request_prefix, content_length(json_body), json_body>>
Request(json_body) == FlattenSeq(Parts(json_body))

\* The file descriptor that socket() gives: the lowest that is free
NewFd == CHOOSE f \in 0..Cardinality(DOMAIN sockets) :
           /\ f \notin DOMAIN sockets
           /\ \A g \in 0..(f - 1) : g \in DOMAIN sockets

Without(f) == [g \in DOMAIN sockets \ {f} |-> sockets[g]]

\* send with this body: it starts to connect, or, with curl, to perform.
send(json_body) ==
  /\ tpc = "idle"
  /\ IF transport_impl = "native"
       THEN tpc' = "resolve" /\ data' = Parts(json_body)
       ELSE tpc' = "perform" /\ UNCHANGED data
  /\ UNCHANGED <<transport_impl, addresses, sockets, fd, wire, curlVars>>

\* send returns.
Return ==
  /\ tpc' = "idle"
  /\ fd' = -1 /\ data' = <<>> /\ addresses' = 0 /\ wire' = <<>>

\* getaddrinfo
Resolve ==
  /\ tpc = "resolve"
  /\ \/ \E n \in 1..MaxAddresses : addresses' = n
        /\ tpc' = "socket"
        /\ UNCHANGED <<fd, data, wire>>
     \/ Return
  /\ UNCHANGED <<transport_impl, sockets, curlVars>>

\* The loop goes on to the next address; after the last one connect_to_host
\* returns -1 and send returns.
NextAddress ==
  IF addresses > 1
    THEN /\ tpc' = "socket" /\ addresses' = addresses - 1 /\ fd' = -1
         /\ UNCHANGED <<data, wire>>
    ELSE Return

\* A timeout of poll that leaves the socket open.
GiveUpAddress_KeepsSocket ==
  /\ sockets' = IF tpc = "poll" THEN sockets ELSE Without(fd)
  /\ NextAddress

\* close(fd); fd = -1; continue
GiveUpAddress ==
  /\ sockets' = Without(fd)
  /\ NextAddress

Socket ==
  /\ tpc = "socket"
  /\ \/ /\ fd' = NewFd
        /\ sockets' = [f \in DOMAIN sockets \union {fd'} |->
                         IF f = fd' THEN "blocking" ELSE sockets[f]]
        /\ tpc' = "nonblock"
        /\ UNCHANGED <<addresses, data, wire>>
     \/ NextAddress /\ UNCHANGED sockets
  /\ UNCHANGED <<transport_impl, curlVars>>

\* fcntl with O_NONBLOCK, and later with the original flags (then come the
\* timeouts, and break)
SetFlags ==
  /\ \/ tpc = "nonblock" /\ tpc' = "connect" /\ addresses' = addresses
        /\ sockets' = [sockets EXCEPT ![fd] = "nonblocking"]
     \/ tpc = "restore" /\ tpc' = "send" /\ addresses' = 0
        /\ sockets' = [sockets EXCEPT ![fd] = "blocking"]
  /\ UNCHANGED <<fd, data, wire>>

\* connect: established at once, or in progress; poll and getsockopt: connected
Connected ==
  /\ \/ tpc = "connect" /\ tpc' \in {"restore", "poll"}
     \/ tpc = "poll" /\ tpc' = "restore"
  /\ UNCHANGED nativeVars

\* A step of connect_to_host with an open socket.  Each of its calls may fail,
\* and poll may time out.
ConnectStep ==
  /\ tpc \in {"nonblock", "connect", "poll", "restore"}
  /\ SetFlags \/ Connected \/ GiveUpAddress
  /\ UNCHANGED <<transport_impl, curlVars>>

\* Forgets to move on after a partial send.
remove_prefix_Restarts(n) == IF n = Len(Head(data)) THEN Tail(data) ELSE data

\* What is left to send when n units of the current part have gone out
remove_prefix(n) ==
  IF n = Len(Head(data))
    THEN Tail(data)
    ELSE <<SubSeq(Head(data), n + 1, Len(Head(data)))>> \o Tail(data)

\* One call of ::send in send_all: it takes some of the data, or fails (a
\* timeout is a failure), and then send closes the socket and returns.
send_all ==
  /\ tpc = "send"
  /\ \/ \E n \in 1..Len(Head(data)) :
          /\ wire' = wire \o SubSeq(Head(data), 1, n)
          /\ data' = remove_prefix(n)
          /\ tpc' = IF data' = <<>> THEN "discard" ELSE "send"
          /\ UNCHANGED <<addresses, sockets, fd>>
     \/ Return /\ sockets' = Without(fd)
  /\ UNCHANGED <<transport_impl, curlVars>>

\* discard_response sees the end of the response, an error or a timeout.
discard_response ==
  /\ tpc = "discard"
  /\ Return /\ sockets' = Without(fd)
  /\ UNCHANGED <<transport_impl, curlVars>>

\* otel_curl_transport::send sets the body, or fails to; libcurl's own total
\* timeout bounds curl_easy_perform, whose result is ignored.
Perform ==
  /\ tpc = "perform"
  /\ tpc' = "idle"
  /\ UNCHANGED <<transport_impl, nativeVars, curlVars>>

\* The steps of the thread that is inside the transport, without the one that
\* waits for the peer to stop talking
TransportStep ==
  \/ AppendHeader \/ SetOptions
  \/ Resolve \/ Socket \/ ConnectStep \/ send_all \/ Perform

===============================================================================
