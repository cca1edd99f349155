------------------------- MODULE ResumeOffsetProofs -------------------------
(***************************************************************************)
(* The search for the prefix is right for manifests of any length over     *)
(* any bytes.  That it ends is left to TLC: it is a liveness property.     *)
(***************************************************************************)
EXTENDS ResumeOffset, SequenceTheorems, TLAPS

TypeInv ==
    /\ ranges \in Seq(ByteRange)
    /\ offset \in Nat
    /\ done \in BOOLEAN

\* The offset is where some range that starts before it ends.
EndsARange ==
    offset = 0 \/ \E i \in DOMAIN ranges : ranges[i].start < offset /\ ranges[i].end = offset

NothingFound == done => \A i \in DOMAIN ranges : ~Matches(ranges[i])

IInv == TypeInv /\ Covered /\ EndsARange /\ NothingFound

\* Both ends of a range are numbers.
LEMMA RangesFacts ==
    ASSUME TypeInv, NEW i \in DOMAIN ranges
    PROVE  ranges[i].start \in Nat /\ ranges[i].end \in Nat
<1>1. ranges[i] \in ByteRange
  BY DEF TypeInv
<1> QED BY <1>1, BoundAssumption DEF ByteRange

\* Whatever list of ranges the search starts with.
LEMMA InitIInv == ASSUME Init PROVE IInv
<1>1. TypeInv
  <2>1. PICK n \in 0..MaxRanges : ranges \in [1..n -> ByteRange]
    BY DEF Init
  <2>2. n \in Nat
    BY BoundAssumption
  <2>3. ranges \in Seq(ByteRange)
    BY <2>1, <2>2, SeqDef
  <2> QED BY <2>3 DEF Init, TypeInv
<1>2. Covered /\ EndsARange /\ NothingFound
  BY DEF Init, Covered, EndsARange, NothingFound
<1> QED BY <1>1, <1>2 DEF IInv

\* Extend moves the offset from the start of a range to its end, over bytes
\* that are all in it; Return says that no range continues.
LEMMA StepIInv == ASSUME IInv, [Next]_vars PROVE IInv'
<1> USE DEF IInv
<1>1. CASE Extend
  <2>1. PICK i \in DOMAIN ranges : Matches(ranges[i]) /\ offset' = ranges[i].end
    BY <1>1 DEF Extend
  <2>2. ranges' = ranges /\ done' = done /\ ~done
    BY <1>1 DEF Extend
  <2>3. /\ ranges[i].start \in Nat /\ ranges[i].end \in Nat
        /\ ranges[i].start = offset /\ offset < offset'
    BY <2>1, RangesFacts DEF Matches, TypeInv
  <2>4. TypeInv'
    BY <2>1, <2>2, <2>3 DEF TypeInv
  <2>5. Covered'
    <3> SUFFICES ASSUME NEW b \in 0..offset' - 1
                 PROVE  \E k \in DOMAIN ranges : In(b, ranges[k])
      BY <2>2 DEF Covered, In
    <3>1. CASE b < offset
      BY <3>1, <2>1, <2>3 DEF Covered, TypeInv
    <3>2. CASE b >= offset
      BY <3>2, <2>1, <2>3 DEF In, TypeInv
    <3> QED BY <3>1, <3>2, <2>3 DEF TypeInv
  <2>6. EndsARange'
    BY <2>1, <2>2, <2>3 DEF EndsARange
  <2>7. NothingFound'
    BY <2>2 DEF NothingFound
  <2> QED BY <2>4, <2>5, <2>6, <2>7
<1>2. CASE Return
  BY <1>2 DEF Return, TypeInv, Covered, EndsARange, NothingFound, In, Matches
<1>3. CASE UNCHANGED vars
  BY <1>3 DEF vars, TypeInv, Covered, EndsARange, NothingFound, In, Matches
<1> QED BY <1>1, <1>2, <1>3 DEF Next

\* The inductive invariant of the search (resume_offset).
THEOREM Invariance == Spec => []IInv
BY InitIInv, StepIInv, PTL DEF Spec

\* A resume at the offset skips no byte that is missing (resume_offset), for
\* every manifest.
THEOREM PrefixCovered == Spec => []Covered
<1>1. IInv => Covered
  BY DEF IInv
<1> QED BY <1>1, Invariance, PTL

\* The search stops at the first gap of disjoint ranges and not before.
THEOREM PrefixWhole == Spec => []WholePrefix
<1>1. IInv => WholePrefix
  <2> SUFFICES ASSUME IInv, done, Disjoint,
                      NEW i \in DOMAIN ranges, In(offset, ranges[i])
               PROVE  FALSE
    BY DEF WholePrefix
  <2>1. TypeInv /\ ranges[i].start < offset /\ offset < ranges[i].end
    BY RangesFacts DEF IInv, TypeInv, NothingFound, Matches, In
  <2>2. PICK k \in DOMAIN ranges : ranges[k].start < offset /\ ranges[k].end = offset
    BY <2>1, RangesFacts DEF IInv, TypeInv, EndsARange
  <2>3. i # k
    BY <2>1, <2>2, RangesFacts
  <2> QED BY <2>1, <2>2, <2>3, RangesFacts DEF Disjoint, TypeInv
<1> QED BY <1>1, Invariance, PTL

\* What set_contiguous records is what resume_offset returns.
THEOREM CheckpointReadBack == Spec => []RoundTrip
<1>1. IInv => RoundTrip
  <2> SUFFICES ASSUME IInv, done, NEW n \in 0..MaxByte, ranges = SetContiguous(n)
               PROVE  offset = n
    BY DEF RoundTrip
  <2>1. CASE n = 0
    BY <2>1, BoundAssumption DEF SetContiguous, IInv, TypeInv, EndsARange
  <2>2. CASE n > 0
    <3>1. DOMAIN ranges = {1} /\ ranges[1].start = 0 /\ ranges[1].end = n
      BY <2>2 DEF SetContiguous
    <3> QED BY <3>1, <2>2, BoundAssumption
            DEF IInv, TypeInv, EndsARange, NothingFound, Matches
  <2> QED BY <2>1, <2>2, BoundAssumption
<1> QED BY <1>1, Invariance, PTL

=============================================================================
