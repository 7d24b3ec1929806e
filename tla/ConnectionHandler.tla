--------------------------- MODULE ConnectionHandler ---------------------------
(***************************************************************************)
(* A client of the pipeline and of segmented_byte_view: the thread of      *)
(* samples/chat/connection_handler.h that cuts the byte stream of one      *)
(* connection into lines and parses them (commands_parser.h), while the    *)
(* server's thread writes to the pipeline and may close the handler.       *)
(*                                                                         *)
(* The pipeline is its contract (module Pipeline shows it): appended bytes *)
(* lie in segments cut anywhere, read returns all of them once some are    *)
(* unexamined or the writer is completed, advance drops the consumed ones. *)
(* read is called without a stop token.  Thresholds are not reached.       *)
(***************************************************************************)
EXTENDS ByteView

CONSTANTS Texts,      \* bound: what a peer sends, sequences of the bytes below
          Patterns    \* the sequences searched for in every view

Bytes == {"/", "Q", " ", "CR", "LF"}

\* The beginnings of the texts.
Received == UNION {{SubSeq(t, 1, n) : n \in 0..Len(t)} : t \in Texts}

VARIABLES m_segments, m_examined_size, m_writer_completed,  \* the pipeline
          writing,            \* the server's thread has found m_closed unset
          stop_requested,     \* of m_thread
          m_closed,
          pc,                 \* of the handler's thread
          data, completed,    \* its view, and result.completed()
          commands,           \* history: what process_command was called with
          text, consumed      \* history: the bytes received, how many advance
                              \* has consumed

pipeline == <<m_segments, m_examined_size, m_writer_completed>>
closing == <<stop_requested, m_closed>>
handler == <<pc, data, completed, commands, consumed>>
vars == <<pipeline, writing, closing, handler, text>>

Init ==
  /\ m_segments = <<>> /\ m_examined_size = 0 /\ m_writer_completed = FALSE
  /\ writing = FALSE /\ stop_requested = FALSE /\ m_closed = FALSE
  /\ pc = "read" /\ data = View(<<>>) /\ completed = FALSE
  /\ commands = <<>> /\ text = <<>> /\ consumed = 0

-------------------------------------------------------------------------------
\* commands_parser.  A command's name is abstracted to its first letter.
whitespaces == {" ", "CR", "LF"}

tolower(b) == IF b = "Q" THEN "q" ELSE b

parse_command_type(name) ==
  CASE [i \in DOMAIN name |-> tolower(name[i])] = <<"q">> -> "quit"
    [] [i \in DOMAIN name |-> tolower(name[i])] = <<"h">> -> "help"
    [] [i \in DOMAIN name |-> tolower(name[i])] = <<"n">> -> "name"
    [] OTHER -> "unknown"

trim(s) ==
  LET kept == {i \in DOMAIN s : s[i] \notin whitespaces}
  IN IF kept = {} THEN <<>> ELSE SubSeq(s, Min(kept), Max(kept))

\* parse_command of a non-empty line: the singleton of its result.
parse_command(line) ==
  LET separator == position_of_any(line, whitespaces)
      name_end == IF separator.found THEN separator ELSE End(line)
  IN IF at_index(line, 0) # {"/"} THEN {<<"message", to_string(line)>>}
     ELSE {<<parse_command_type(to_string(name)),
             IF separator.found THEN trim(to_string(rest)) ELSE <<>>>> :
             name \in slice(line, range_from(line, 1, name_end)),
             rest \in IF separator.found
                      THEN slice(line, range_between(line, Forward(separator, 1), End(line)))
                      ELSE {line}}

-------------------------------------------------------------------------------
\* receive_data looks at m_closed, which another thread may set right after.
\* There is a byte to receive as long as it makes a text of the instance.
receive_data ==
  /\ \E byte \in Bytes : Append(text, byte) \in Received
  /\ ~writing /\ ~m_closed
  /\ writing' = TRUE
  /\ UNCHANGED <<pipeline, closing, handler, text>>

\* m_writer.write, of one byte at a time, into the segment at the tail or a
\* fresh one.
Write(byte, fresh) ==
  /\ writing /\ ~m_writer_completed /\ pc # "done"
  /\ m_segments = <<>> => fresh
  /\ m_segments' =
       IF fresh THEN Append(m_segments, <<byte>>)
       ELSE [m_segments EXCEPT ![Len(m_segments)] = Append(@, byte)]
  /\ text' = Append(text, byte) /\ text' \in Received
  /\ writing' = FALSE
  /\ UNCHANGED <<m_examined_size, m_writer_completed, closing, handler>>

\* The write throws once either endpoint is completed.
WriteThrows ==
  /\ writing /\ (m_writer_completed \/ pc = "done")
  /\ writing' = FALSE
  /\ UNCHANGED <<pipeline, closing, handler, text>>

\* close: the exchange of m_closed and the stop request, then the completion.
close ==
  /\ ~m_closed
  /\ m_closed' = TRUE /\ stop_requested' = TRUE
  /\ UNCHANGED <<pipeline, writing, handler, text>>

\* Only requests the stop.
CloseCompletes_Forgotten == m_closed /\ ~m_writer_completed /\ UNCHANGED vars

CloseCompletes ==
  /\ m_closed /\ ~m_writer_completed
  /\ m_writer_completed' = TRUE
  /\ UNCHANGED <<m_segments, m_examined_size, writing, closing, handler, text>>

-------------------------------------------------------------------------------
\* process_incoming_data, step by step

\* reader.read()
Read ==
  /\ pc = "read"
  /\ Size(m_segments) > m_examined_size \/ m_writer_completed
  /\ data' = View(m_segments) /\ completed' = m_writer_completed
  /\ pc' = "line"
  /\ UNCHANGED <<pipeline, writing, closing, commands, text, consumed>>

newLine == position_of(data, "LF")

\* Looks for the CR at the end of the whole view.
WithoutCR_OfView(line) ==
  IF line.m_size # 0 /\ at_from_end(data, 1) = {"CR"}
  THEN slice(line, range_to(line, Back(newLine, 1))) ELSE {line}

\* The bytes of the line with a CR at its end cut off.
WithoutCR(line) ==
  IF line.m_size # 0 /\ at_from_end(line, 1) = {"CR"}
  THEN slice(line, range_to(line, Back(newLine, 1))) ELSE {line}

\* An iteration of the inner loop: a line is processed and cut off the view.  If
\* an operation on a view threw here, the thread would be stuck in the model.
ProcessLine ==
  /\ pc = "line" /\ newLine.found /\ ~stop_requested
  /\ \E line \in slice(data, range_to(data, newLine)) :
     \E line_bytes \in WithoutCR(line) :
       \E command \in IF line_bytes.m_size = 0 THEN {<<>>}
                      ELSE parse_command(line_bytes) :
         commands' = IF command = <<>> THEN commands ELSE Append(commands, command)
  /\ data' \in slice(data, range_between(data, Forward(newLine, 1), End(data)))
  /\ UNCHANGED <<pipeline, writing, closing, pc, completed, text, consumed>>

\* The segments without their first n bytes.
Drop(segments, n) ==
  LET upto[i \in 0..Len(segments)] ==
        IF i = 0 THEN 0 ELSE upto[i - 1] + Len(segments[i])
      gone == Cardinality({i \in DOMAIN segments : upto[i] <= n})
  IN [i \in 1..(Len(segments) - gone) |->
        IF i = 1 THEN SubSeq(segments[gone + 1], n - upto[gone] + 1, Len(segments[gone + 1]))
        ELSE segments[gone + i]]

\* Leaves the inner loop after any line.
Advance_AnyTime ==
  /\ pc = "line"
  /\ m_segments' = Drop(m_segments, data.m_begin_offset)
  /\ m_examined_size' = data.m_size
  /\ consumed' = consumed + data.m_begin_offset
  /\ pc' = IF completed \/ stop_requested THEN "done" ELSE "read"
  /\ data' = View(<<>>) /\ completed' = FALSE
  /\ UNCHANGED <<m_writer_completed, writing, closing, commands, text>>

\* The inner loop ends: advance(data.begin(), data.end()), and the outer loop
\* goes on or ends with reader.complete().
Advance ==
  /\ pc = "line" /\ (~newLine.found \/ stop_requested)
  /\ m_segments' = Drop(m_segments, data.m_begin_offset)
  /\ m_examined_size' = data.m_size
  /\ consumed' = consumed + data.m_begin_offset
  /\ pc' = IF completed \/ stop_requested THEN "done" ELSE "read"
  /\ data' = View(<<>>) /\ completed' = FALSE
  /\ UNCHANGED <<m_writer_completed, writing, closing, commands, text>>

Handler == Read \/ ProcessLine \/ Advance

Next ==
  \/ receive_data \/ WriteThrows
  \/ \E byte \in Bytes, fresh \in BOOLEAN : Write(byte, fresh)
  \/ close \/ CloseCompletes
  \/ Handler

\* The handler's thread runs, and a call of close that has begun goes on.
Spec == Init /\ [][Next]_vars /\ WF_vars(Handler) /\ WF_vars(CloseCompletes)
-------------------------------------------------------------------------------
(* Properties *)

Viewing == pc = "line"
Whole == FlattenSeq(m_segments)
Shown == FlattenSeq(data.m_segments)

\* Offsets inside and just outside any view, and one from which adding wraps.
Offsets == 0..(Len(text) + 1) \union {Modulus - 1}

\* However the bytes are cut into segments and however often the view has been
\* sliced in place while the writer appended, every overload of slice is defined
\* exactly for the ranges within the view, throws for the others (also where
\* begin_offset + size would overflow), and shows exactly those bytes of the
\* pipeline, at unchanged absolute positions and without empty segments.
SlicesExact ==
  Viewing =>
    /\ Shows(data, Whole)
    /\ \A b, e \in Offsets :
         LET exact(ranges, begin, end) ==
               SliceExact(slice(data, ranges), data, begin, end, Whole)
             base == data.m_begin_offset
         IN /\ exact(range_between(data, At(b), At(e)), b, e)
            /\ exact(range_to(data, At(e)), base, e)
            /\ exact(range_from(data, b, At(e)), base + b, e)
            /\ exact(range_of(data, b, e), base + b, base + b + e)

\* position_of, position_of_any and position_of_sequence find the first match in
\* the view, wherever segment boundaries fall (also when a match spans several
\* segments), and report not found only when there is none or nothing is sought.
SearchesExact ==
  Viewing =>
    /\ \A values \in SUBSET Bytes :
         position_of_any(data, values)
           = FirstOf(data, {k - 1 : k \in {k \in DOMAIN Shown : Shown[k] \in values}})
    /\ \A pattern \in Patterns :
         position_of_sequence(data, pattern)
           = FirstOf(data, IF pattern = <<>> THEN {} ELSE Occurrences(Shown, pattern))

\* operator[] (by index, by position, from the end), copy_to, to_string and
\* as_string_view agree with the bytes in one piece, for every argument, and
\* as_string_view throws only for a view that is not of one segment.
ReadsExact ==
  Viewing =>
    /\ \A o \in Offsets :
         /\ at_index(data, o) = {Shown[i] : i \in {o + 1} \intersect DOMAIN Shown}
         /\ at_position(data, At(o))
              = {Shown[i] : i \in {o - data.m_begin_offset + 1} \intersect DOMAIN Shown}
         /\ at_from_end(data, o)
              = {Shown[i] : i \in {Len(Shown) - o + 1} \intersect DOMAIN Shown}
         /\ copy_to(data, o) = SubSeq(Shown, 1, Min({o, Len(Shown)}))
    /\ to_string(data) = Shown
    /\ as_string_view(data) = IF Len(data.m_segments) = 1 THEN {Shown} ELSE {}

\* The command a line without its end stands for, if any.
CommandOf(line) ==
  LET l == IF line # <<>> /\ Last(line) = "CR" THEN Front(line) ELSE line
      spaces == {i \in DOMAIN l : l[i] \in whitespaces}
      last == IF spaces = {} THEN Len(l) ELSE Min(spaces) - 1
  IN IF l = <<>> THEN <<>>
     ELSE IF l[1] # "/" THEN << <<"message", l>> >>
     ELSE << <<parse_command_type(SubSeq(l, 2, last)),
               trim(SubSeq(l, last + 2, Len(l)))>> >>

\* The commands of the complete lines of s, read byte by byte.
CommandsOf(s) ==
  FoldLeft(LAMBDA acc, b :
             IF b = "LF" THEN [line |-> <<>>, commands |-> acc.commands \o CommandOf(acc.line)]
             ELSE [acc EXCEPT !.line = Append(@, b)],
           [line |-> <<>>, commands |-> <<>>], s).commands

\* process_command has been called exactly for the lines of the bytes the
\* handler has moved past, once each, in order and parsed right: whichever way
\* the text was cut by writes, segments and reads, where a line was left partial
\* by one read and completed by the next, with and without CR, and when the
\* handler is stopped between two lines.
LinesExact ==
  LET passed == consumed + (IF Viewing THEN data.m_begin_offset ELSE 0)
  IN commands = CommandsOf(SubSeq(text, 1, passed))

\* A handler that waits for more bytes has left no complete line behind: what
\* it reports to advance as examined holds no line end.
NoLineForgotten ==
  pc = "read" /\ Size(m_segments) <= m_examined_size => "LF" \notin ToSet(Whole)

\* Once close is called the handler's thread ends, even if it sleeps in read,
\* which has no stop token: ~connection_handler joins it.
HandlerEnds == m_closed ~> pc = "done"
===============================================================================
