------------------------------- MODULE ByteView --------------------------------
(***************************************************************************)
(* xtd::segmented_byte_view and xtd::position: a read-only window on the   *)
(* segments of a pipeline, its slices, its element access, its searches    *)
(* and its copies, as operators.  Next to each stands what it should       *)
(* return for the same bytes in one piece.                                 *)
(*                                                                         *)
(* A view is [m_segments, m_begin_offset, m_size], m_segments a sequence   *)
(* of non-empty sequences of bytes.  What may throw returns a set: empty   *)
(* if it throws, else the singleton of its result.                         *)
(***************************************************************************)
EXTENDS Integers, Sequences, SequencesExt, FiniteSets

CONSTANT Modulus   \* std::size_t counts modulo Modulus

\* Arithmetic of std::size_t
Plus(a, b) == (a + b) % Modulus
Minus(a, b) == (a - b) % Modulus

-------------------------------------------------------------------------------
\* position
At(offset) == [m_offset |-> offset, found |-> TRUE]
NotFound == [m_offset |-> 0, found |-> FALSE]

\* operator+ and operator-: the result counts as found.
Forward(pos, n) == At(Plus(pos.m_offset, n))
Back(pos, n) == At(Minus(pos.m_offset, n))

-------------------------------------------------------------------------------
Size(segments) == Len(FlattenSeq(segments))

\* The view over all of segments, as read_result makes it.
View(segments) ==
  [m_segments |-> segments, m_begin_offset |-> 0, m_size |-> Size(segments)]

end_offset(v) == Plus(v.m_begin_offset, v.m_size)
Begin(v) == At(v.m_begin_offset)
End(v) == At(end_offset(v))
is_single_segment(v) == Len(v.m_segments) = 1

\* Where segment i of v starts, counted from the start of v; with i one more
\* than the number of segments, where the last one ends.
Before(v, i) == Size(SubSeq(v.m_segments, 1, i - 1))

validate_slice_range(v, begin, end) ==
  /\ begin <= end
  /\ begin >= v.m_begin_offset /\ begin <= end_offset(v)
  /\ end >= v.m_begin_offset /\ end <= end_offset(v)

validate_relative_slice(v, begin_offset, size) ==
  begin_offset <= v.m_size /\ size <= Minus(v.m_size, begin_offset)

\* The four overloads of resolve_slice_range, by the types of their arguments
range_to(v, end) == {<<v.m_begin_offset, end.m_offset>>}

range_between(v, begin, end) == {<<begin.m_offset, end.m_offset>>}

range_from(v, begin_offset, end) ==
  {<<Plus(v.m_begin_offset, b), end.m_offset>> :
     b \in {b \in {begin_offset} : b <= v.m_size}}

range_of(v, begin_offset, size) ==
  {<<Plus(v.m_begin_offset, b), Plus(Plus(v.m_begin_offset, b), size)>> :
     b \in {b \in {begin_offset} : validate_relative_slice(v, b, size)}}

\* Takes every overlap to the end of its segment.
make_slice_segments_Overrun(v, begin, end) ==
  LET first(i) == v.m_begin_offset + Before(v, i)
      hits == {i \in DOMAIN v.m_segments : first(i + 1) > begin /\ first(i) < end}
      overlap(i) == SubSeq(v.m_segments[i], Max({first(i), begin}) - first(i) + 1,
                           Len(v.m_segments[i]))
  IN IF begin = end THEN <<>>
     ELSE [k \in 1..Cardinality(hits) |-> overlap(Min(hits) + k - 1)]

\* make_slice_segments: the overlap of each segment with the range.
make_slice_segments(v, begin, end) ==
  LET first(i) == v.m_begin_offset + Before(v, i)
      hits == {i \in DOMAIN v.m_segments : first(i + 1) > begin /\ first(i) < end}
      overlap(i) == SubSeq(v.m_segments[i], Max({first(i), begin}) - first(i) + 1,
                           Min({first(i + 1), end}) - first(i))
  IN IF begin = end THEN <<>>
     ELSE [k \in 1..Cardinality(hits) |-> overlap(Min(hits) + k - 1)]

\* slice and slice_in_place, of a range that one of the overloads resolved.
slice(v, ranges) ==
  {[m_segments |-> make_slice_segments(v, r[1], r[2]),
    m_begin_offset |-> r[1], m_size |-> Minus(r[2], r[1])] :
     r \in {r \in ranges : validate_slice_range(v, r[1], r[2])}}

-------------------------------------------------------------------------------
\* operator[] with an index: the first segment that ends after it has it.
at_index(v, index) ==
  LET i == Min({i \in DOMAIN v.m_segments : index < Before(v, i + 1)})
  IN IF index >= v.m_size THEN {}
     ELSE {v.m_segments[i][index - Before(v, i) + 1]}

\* operator[] with a position
at_position(v, pos) ==
  IF ~(pos.m_offset >= v.m_begin_offset /\ pos.m_offset < end_offset(v)) THEN {}
  ELSE at_index(v, pos.m_offset - v.m_begin_offset)

\* operator[] with from_end(offset): counts back from the last segment.
at_from_end(v, offset) ==
  LET behind(i) == Before(v, Len(v.m_segments) + 1) - Before(v, i + 1)
      i == Max({i \in DOMAIN v.m_segments :
                  offset - 1 - behind(i) < Len(v.m_segments[i])
                    /\ offset - 1 >= behind(i)})
  IN IF ~(offset > 0 /\ offset <= v.m_size) THEN {}
     ELSE {v.m_segments[i][Len(v.m_segments[i]) - (offset - 1 - behind(i))]}

-------------------------------------------------------------------------------
\* Indices at which pattern occurs in s, counted from 0: memchr,
\* find_first_of and search return the least.
Occurrences(s, pattern) ==
  {k \in 0..(Len(s) - Len(pattern)) : SubSeq(s, k + 1, k + Len(pattern)) = pattern}

\* position_of(value), and position_of_any(values) for several of them: the
\* first hit of the first segment that has one.
position_of_any(v, values) ==
  LET hits(i) == {k \in DOMAIN v.m_segments[i] : v.m_segments[i][k] \in values}
      hit == {i \in DOMAIN v.m_segments : hits(i) # {}}
  IN IF hit = {} THEN NotFound
     ELSE At(v.m_begin_offset + Before(v, Min(hit)) + Min(hits(Min(hit))) - 1)

position_of(v, value) == position_of_any(v, {value})

\* The window around the end of segment i in which a match that starts in that
\* segment and leaves it must lie: as much of the segment's tail as such a match
\* can use, and as many of the following bytes.  One following byte too few.
Boundary_Short(v, i, n) ==
  LET tail_size == Min({Len(v.m_segments[i]), n - 1})
      offset == Before(v, i + 1) - tail_size
  IN [offset |-> offset,
      bytes |-> SubSeq(FlattenSeq(v.m_segments), offset + 1,
                       Min({offset + tail_size + n - 2, Size(v.m_segments)}))]

Boundary(v, i, n) ==
  LET tail_size == Min({Len(v.m_segments[i]), n - 1})
      offset == Before(v, i + 1) - tail_size
  IN [offset |-> offset,
      bytes |-> SubSeq(FlattenSeq(v.m_segments), offset + 1,
                       Min({offset + tail_size + n - 1, Size(v.m_segments)}))]

\* An iteration of position_of_sequence: first inside segment i, then around
\* its end.  The offset found, or none.
SearchFrom(v, i, sequence) ==
  LET inside == Occurrences(v.m_segments[i], sequence)
      boundary == Boundary(v, i, Len(sequence))
      across == Occurrences(boundary.bytes, sequence)
  IN IF inside # {} THEN {Before(v, i) + Min(inside)}
     ELSE IF is_single_segment(v) \/ across = {} THEN {}
     ELSE {boundary.offset + Min(across)}

position_of_sequence(v, sequence) ==
  LET hit == {i \in DOMAIN v.m_segments : SearchFrom(v, i, sequence) # {}}
  IN IF sequence = <<>> \/ Len(sequence) > v.m_size THEN NotFound
     ELSE IF Len(sequence) = 1 THEN position_of(v, sequence[1])
     ELSE IF hit = {} THEN NotFound
     ELSE At(v.m_begin_offset + Min(SearchFrom(v, Min(hit), sequence)))

-------------------------------------------------------------------------------
\* Copies whole segments while there is room.
copy_to_Whole(v, n) ==
  FoldLeft(LAMBDA copied, s : IF Len(copied) < n THEN copied \o s ELSE copied,
           <<>>, v.m_segments)

\* copy_to a destination of n bytes: what it holds afterwards.
copy_to(v, n) ==
  LET target_size == Min({n, v.m_size})
  IN IF target_size = 0 THEN <<>>
     ELSE IF is_single_segment(v) THEN SubSeq(v.m_segments[1], 1, target_size)
     ELSE FoldLeft(LAMBDA copied, s :
                     copied \o SubSeq(s, 1, Min({Len(s), target_size - Len(copied)})),
                   <<>>, v.m_segments)

to_string(v) ==
  IF v.m_size = 0 THEN <<>>
  ELSE IF is_single_segment(v) THEN SubSeq(v.m_segments[1], 1, v.m_size)
  ELSE FoldLeft(LAMBDA result, s : result \o s, <<>>, v.m_segments)

as_string_view(v) ==
  IF is_single_segment(v) THEN {SubSeq(v.m_segments[1], 1, v.m_size)} ELSE {}

-------------------------------------------------------------------------------
(* The same operations on the bytes in one piece, and what v promises *)

\* v shows exactly the bytes of whole in its range, in non-empty segments.
Shows(v, whole) ==
  /\ v.m_begin_offset + v.m_size <= Len(whole)
  /\ FlattenSeq(v.m_segments)
       = SubSeq(whole, v.m_begin_offset + 1, v.m_begin_offset + v.m_size)
  /\ \A i \in DOMAIN v.m_segments : v.m_segments[i] # <<>>

\* A slice is defined exactly for the ranges within v, shows them, and its
\* positions are those of the same bytes in v.
SliceExact(result, v, begin, end, whole) ==
  IF v.m_begin_offset <= begin /\ begin <= end /\ end <= v.m_begin_offset + v.m_size
  THEN \E s \in result : /\ result = {s} /\ Shows(s, whole)
                         /\ s.m_begin_offset = begin /\ s.m_size = end - begin
  ELSE result = {}

\* The first of the given offsets into v, as a position.
FirstOf(v, offsets) ==
  IF offsets = {} THEN NotFound ELSE At(v.m_begin_offset + Min(offsets))
===============================================================================
