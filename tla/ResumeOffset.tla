---------------------------- MODULE ResumeOffset ----------------------------
(***************************************************************************)
(* Manifest::resume_offset (src/src/storage/manifest.rs): the search for   *)
(* the end of the contiguous prefix among the completed ranges of a        *)
(* manifest, in whatever order and number a manifest on the disk has them. *)
(* One step is one turn of its loop.                                       *)
(***************************************************************************)
EXTENDS Integers, Sequences

CONSTANT MaxRanges, MaxByte     \* bounds on the manifests considered

ASSUME BoundAssumption == MaxRanges \in Nat /\ MaxByte \in Nat

VARIABLES
    ranges,     \* Manifest::completed_ranges
    offset,
    done        \* the loop has ended

vars == <<ranges, offset, done>>

ByteRange == [start : 0..MaxByte, end : 0..MaxByte]

\* set_contiguous(written).
SetContiguousInclusive(n) == IF n > 1 THEN <<[start |-> 0, end |-> n - 1]>> ELSE <<>>
SetContiguous(n)          == IF n > 0 THEN <<[start |-> 0, end |-> n]>> ELSE <<>>

Init ==
    /\ ranges \in UNION {[1..n -> ByteRange] : n \in 0..MaxRanges}
    /\ offset = 0
    /\ done = FALSE

\* The test of `find`.
MatchesEmpty(r)    == r.start = offset /\ r.end >= offset
MatchesPastGap(r)  == r.start >= offset /\ r.end > offset
MatchesLonger(r)   == r.start = offset /\ r.end > offset + 1
Matches(r)         == r.start = offset /\ r.end > offset

\* `find` takes the first range that passes it.
Extend ==
    /\ ~done
    /\ \E i \in DOMAIN ranges :
          /\ Matches(ranges[i]) /\ \A k \in 1..i - 1 : ~Matches(ranges[k])
          /\ offset' = ranges[i].end
    /\ UNCHANGED <<ranges, done>>

Return ==
    /\ ~done
    /\ \A i \in DOMAIN ranges : ~Matches(ranges[i])
    /\ done' = TRUE
    /\ UNCHANGED <<ranges, offset>>

Next == Extend \/ Return

Spec == Init /\ [][Next]_vars /\ WF_vars(Next)

----------------------------------------------------------------------------
(* Properties *)

In(b, r) == r.start <= b /\ b < r.end

\* Every byte before the offset is in a completed range, so a resume at the
\* offset skips nothing that is missing, whatever gaps, overlaps, empty or
\* reversed ranges the manifest has.
Covered ==
    \A b \in 0..offset - 1 : \E i \in DOMAIN ranges : In(b, ranges[i])

\* If the ranges are disjoint, in any order, the search returns the whole
\* prefix: the byte it ends at is in no range.
Disjoint ==
    \A i, k \in DOMAIN ranges :
        i # k => ranges[i].end <= ranges[k].start \/ ranges[k].end <= ranges[i].start

WholePrefix ==
    done /\ Disjoint => \A i \in DOMAIN ranges : ~In(offset, ranges[i])

\* What a checkpoint records is what the next run reads back.
RoundTrip ==
    \A n \in 0..MaxByte : done /\ ranges = SetContiguous(n) => offset = n

\* The search ends for every manifest, also one with empty ranges, or with
\* ranges that lead back to where they came from.
Terminates == <>done

=============================================================================
