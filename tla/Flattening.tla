------------------------------- MODULE Flattening ------------------------------
(***************************************************************************)
(* A sequence of sequences in one piece: the bytes of a chain of segments, *)
(* the parts of a request.  This is FlattenSeq of SequencesExt in a module *)
(* of its own, because a proof obligation carries the definitions of every *)
(* module in scope and the provers reason about this one only.             *)
(***************************************************************************)
EXTENDS Integers, Sequences

FlattenSeq(seqs) ==
  LET upto[i \in 1..Len(seqs)] ==
        IF i = 1 THEN seqs[i] ELSE upto[i - 1] \o seqs[i]
  IN IF Len(seqs) = 0 THEN <<>> ELSE upto[Len(seqs)]
===============================================================================
