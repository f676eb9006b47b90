--------------------------- MODULE Anonymizer_proofs ---------------------------
(***************************************************************************)
(* The two halves of Anonymizer: merge_spans chooses the mentions of a      *)
(* text, and _resolve gives them labels.                                    *)
(*                                                                          *)
(* MergeSpans: CleanList, LocalBestKept and DropsHaveReason for lists of    *)
(* any length, any positions, scores and ranks.  The argument is the one    *)
(* the comments of merge_spans hint at: because spans come in order of      *)
(* their start and the kept ones do not overlap, only the last kept span    *)
(* can overlap the new one.  So the scan looks at one span at most, and     *)
(* neither of the sorts ever moves anything.                                *)
(*                                                                          *)
(* LabelBook: SameValueSameLabel, RestartKeepsLabels and ExactWhenUnique    *)
(* for any names, texts, threads and bounds.  Until a request has           *)
(* overlapped another the cache says of numbers, births and normal forms    *)
(* what the tables say (InStep), no normal form belongs to two entities     *)
(* (OneClaim), and a request in progress finds what it looked up unchanged  *)
(* (AtWork).  A document is right for as long as its entities live: a       *)
(* number that is given again comes with a new birth (Grows, Sound).        *)
(***************************************************************************)
EXTENDS MergeSpans, LabelBook, FiniteSetTheorems, Sequence_proofs

-----------------------------------------------------------------------------
(* MergeSpans: the invariant of the loop *)

MergeTyped ==
    /\ spans \in Seq(Span)
    /\ todo \subseteq DOMAIN spans
    /\ kept \in Seq(DOMAIN spans)
    /\ Kept \cap todo = {}
    /\ done \in BOOLEAN /\ (done => todo = {})

\* Spans are taken in sort order.
InOrder == \A i \in DOMAIN spans \ todo, j \in todo : Before(i, j)

MergeInv == MergeTyped /\ InOrder /\ CleanList /\ DropsHaveReason

-----------------------------------------------------------------------------
(* The orders *)

\* The fields of a span are numbers, and it is not empty.
LEMMA SpanIs ==
    ASSUME NEW s \in Span
    PROVE  /\ s.start \in Int /\ s.end \in Int /\ s.score \in Int /\ s.rank \in Int
           /\ s.start < s.end
  BY SpanAssumption DEF Span

\* One of two spans is at least as good as the other.
LEMMA BetterIsTotal ==
    ASSUME NEW a \in Span, NEW b \in Span
    PROVE  BetterOrEqual(a, b) \/ BetterOrEqual(b, a)
<1>1. a.score \in Int /\ b.score \in Int /\ a.rank \in Int /\ b.rank \in Int
  BY SpanIs
<1>2. Length(a) \in Int /\ Length(b) \in Int
  BY SpanIs DEF Length
<1> QED BY <1>1, <1>2 DEF BetterOrEqual

\* Two spans do not come before each other.
LEMMA BeforeIsStrict ==
    ASSUME spans \in Seq(Span), NEW i \in DOMAIN spans, NEW j \in DOMAIN spans, Before(i, j), Before(j, i)
    PROVE  i = j
<1> DEFINE a == spans[i]
           b == spans[j]
<1>1. a \in Span /\ b \in Span /\ i \in Int /\ j \in Int
  OBVIOUS
<1>2. a.start \in Int /\ b.start \in Int
  BY <1>1, SpanIs
<1>3. \/ a.start < b.start
      \/ a.start = b.start /\ BetterOrEqual(a, b) /\ ~BetterOrEqual(b, a)
      \/ a.start = b.start /\ BetterOrEqual(a, b) /\ BetterOrEqual(b, a) /\ i <= j
  BY DEF Before
<1>4. \/ b.start < a.start
      \/ b.start = a.start /\ BetterOrEqual(b, a) /\ ~BetterOrEqual(a, b)
      \/ b.start = a.start /\ BetterOrEqual(b, a) /\ BetterOrEqual(a, b) /\ j <= i
  BY DEF Before
<1> HIDE DEF a, b
<1> QED BY <1>1, <1>2, <1>3, <1>4

\* What comes before does not start later.
LEMMA BeforeStarts ==
    ASSUME spans \in Seq(Span), NEW i \in DOMAIN spans, NEW j \in DOMAIN spans, Before(i, j)
    PROVE  spans[i].start <= spans[j].start
  BY SpanIs DEF Before

-----------------------------------------------------------------------------
(* The sorts and the scan *)

\* The first i positions of a list.
LEMMA Firsts ==
    ASSUME NEW n \in Nat, NEW i \in 1 .. n
    PROVE  Cardinality(1 .. i) = i
<1>1. i \in Int /\ 1 \in Int /\ i >= 1 /\ (i - 1) + 1 = i
  OBVIOUS
<1> QED BY <1>1, FS_Interval

\* A sort leaves a list that is in order as it is.
LEMMA SortedByStart ==
    ASSUME spans \in Seq(Span), NEW list \in Seq(DOMAIN spans),
           \A j, k \in DOMAIN list : j < k => spans[list[j]].start < spans[list[k]].start
    PROVE  /\ Sorted(list, ByStart) = list
           /\ Sorted(list, ByStartAndEnd) = list
<1> DEFINE n == Len(list)
           st(k) == spans[list[k]].start
<1>1. n \in Nat /\ DOMAIN list = 1 .. n /\ list = [k \in 1 .. n |-> list[k]]
  OBVIOUS
<1>2. \A k \in 1 .. n : st(k) \in Int
  BY SpanIs
<1>3. \A j, k \in 1 .. n : ByStart(list[j], list[k]) <=> j < k
  <2> SUFFICES ASSUME NEW j \in 1 .. n, NEW k \in 1 .. n PROVE ByStart(list[j], list[k]) <=> j < k
    OBVIOUS
  <2>1. ByStart(list[j], list[k]) <=> st(j) < st(k)
    BY DEF ByStart
  <2>2. (j < k => st(j) < st(k)) /\ (k < j => st(k) < st(j))
    BY SMTT(30)
  <2>3. st(j) \in Int /\ st(k) \in Int
    BY <1>2
  <2> HIDE DEF st
  <2> QED BY <2>1, <2>2, <2>3
<1>4. \A j, k \in 1 .. n : ByStartAndEnd(list[j], list[k]) <=> j < k
  <2> SUFFICES ASSUME NEW j \in 1 .. n, NEW k \in 1 .. n PROVE ByStartAndEnd(list[j], list[k]) <=> j < k
    OBVIOUS
  <2>1. spans[list[j]].start = spans[list[k]].start => j = k
    <3>1. (j < k => st(j) < st(k)) /\ (k < j => st(k) < st(j))
      BY SMTT(30)
    <3>2. st(j) \in Int /\ st(k) \in Int
      BY <1>2
    <3> QED BY <3>1, <3>2
  <2>2. j = k => ~(spans[list[j]].end < spans[list[k]].end)
    BY SpanIs
  <2> QED BY <1>3, <2>1, <2>2 DEF ByStartAndEnd
<1> HIDE DEF n, st
<1>5. \A i \in 1 .. n : {j \in 1 .. n : j < i \/ (j <= i /\ ~(i < j))} = 1 .. i
  BY <1>1
<1>6. \A p \in 1 .. n : (CHOOSE i \in 1 .. n : Cardinality(1 .. i) = p) = p
  BY <1>1, Firsts
<1>7. Sorted(list, ByStart) = list
  <2> DEFINE rank(i) == Cardinality({j \in 1 .. n : ByStart(list[j], list[i]) \/ (j <= i /\ ~ByStart(list[i], list[j]))})
  <2>1. Sorted(list, ByStart) = [p \in 1 .. n |-> list[CHOOSE i \in 1 .. n : rank(i) = p]]
    BY <1>1 DEF Sorted
  <2>2. ASSUME NEW i \in 1 .. n PROVE rank(i) = Cardinality(1 .. i)
    <3>1. {j \in 1 .. n : ByStart(list[j], list[i]) \/ (j <= i /\ ~ByStart(list[i], list[j]))}
            = {j \in 1 .. n : j < i \/ (j <= i /\ ~(i < j))}
      BY <1>3
    <3> QED BY <1>5, <3>1
  <2> HIDE DEF rank
  <2>3. \A p \in 1 .. n : (CHOOSE i \in 1 .. n : rank(i) = p) = p
    BY <1>1, <2>2, Firsts
  <2> QED BY <1>1, <2>1, <2>3
<1>8. Sorted(list, ByStartAndEnd) = list
  <2> DEFINE rank(i) == Cardinality({j \in 1 .. n :
                            ByStartAndEnd(list[j], list[i]) \/ (j <= i /\ ~ByStartAndEnd(list[i], list[j]))})
  <2>1. Sorted(list, ByStartAndEnd) = [p \in 1 .. n |-> list[CHOOSE i \in 1 .. n : rank(i) = p]]
    BY <1>1 DEF Sorted
  <2>2. ASSUME NEW i \in 1 .. n PROVE rank(i) = Cardinality(1 .. i)
    <3>1. {j \in 1 .. n : ByStartAndEnd(list[j], list[i]) \/ (j <= i /\ ~ByStartAndEnd(list[i], list[j]))}
            = {j \in 1 .. n : j < i \/ (j <= i /\ ~(i < j))}
      BY <1>4
    <3> QED BY <1>5, <3>1
  <2> HIDE DEF rank
  <2>3. \A p \in 1 .. n : (CHOOSE i \in 1 .. n : rank(i) = p) = p
    BY <1>1, <2>2, Firsts
  <2> QED BY <1>1, <2>1, <2>3
<1> QED BY <1>7, <1>8

\* The first m elements stay where the later ones are left out one by one.
LEMMA FlattenFirsts ==
    ASSUME NEW S, NEW s \in Seq(S), NEW m \in Nat, m <= Len(s)
    PROVE  FlattenSeq([k \in 1 .. Len(s) |-> IF k <= m THEN <<s[k]>> ELSE << >>]) = SubSeq(s, 1, m)
<1> DEFINE n == Len(s)
           ss == [k \in 1 .. n |-> IF k <= m THEN <<s[k]>> ELSE << >>]
           upto(k) == SubSeq(ss, 1, k)
           least(k) == IF k <= m THEN k ELSE m
           T == {k \in Nat : k <= n => FlattenSeq(upto(k)) = SubSeq(s, 1, least(k))}
<1>0. n \in Nat /\ m <= n
  OBVIOUS
<1>1. \A k \in 1 .. n : ss[k] = (IF k <= m THEN <<s[k]>> ELSE << >>) /\ ss[k] \in Seq(S)
  OBVIOUS
<1>2. ss \in Seq(Seq(S)) /\ Len(ss) = n
  OBVIOUS
<1> HIDE DEF ss
<1>3. 0 \in T
  <2>1. upto(0) = << >> /\ least(0) = 0
    BY <1>2, SubSeqEmpty
  <2>2. SubSeq(s, 1, 0) = << >>
    BY SubSeqEmpty
  <2> QED BY <2>1, <2>2, FlattenSeqType
<1>4. ASSUME NEW k \in Nat, k \in T PROVE k + 1 \in T
  <2> SUFFICES ASSUME k + 1 <= n
               PROVE  FlattenSeq(upto(k + 1)) = SubSeq(s, 1, least(k + 1))
    OBVIOUS
  <2>1. upto(k) \in Seq(Seq(S)) /\ ss[k + 1] \in Seq(S)
    BY <1>0, <1>1, <1>2
  <2>2. upto(k + 1) = Append(upto(k), ss[k + 1])
    BY <1>0, <1>2
  <2>3. FlattenSeq(upto(k)) = SubSeq(s, 1, least(k))
    BY <1>0, <1>4
  <2> HIDE DEF upto
  <2>4. FlattenSeq(upto(k + 1)) = SubSeq(s, 1, least(k)) \o ss[k + 1]
    BY <2>1, <2>2, <2>3, FlattenSeqAppend
  <2>5. CASE k + 1 <= m
    <3>0. least(k) = k /\ least(k + 1) = k + 1 /\ k + 1 \in 1 .. n
      BY <1>0, <2>5
    <3>1. ss[k + 1] = <<s[k + 1]>>
      BY <1>1, <2>5, <3>0, Zenon
    <3>2. SubSeq(s, 1, k) \o <<s[k + 1]>> = SubSeq(s, 1, k + 1)
      BY <1>0
    <3> QED BY <2>4, <3>0, <3>1, <3>2
  <2>6. CASE k + 1 > m
    <3>0. least(k) = m /\ least(k + 1) = m /\ k + 1 \in 1 .. n /\ ~(k + 1 <= m)
      BY <1>0, <2>6
    <3>1. ss[k + 1] = << >>
      BY <1>1, <3>0, Zenon
    <3>2. SubSeq(s, 1, m) \o << >> = SubSeq(s, 1, m)
      BY <1>0, ConcatEmptySeq
    <3> QED BY <2>4, <3>0, <3>1, <3>2
  <2> QED BY <1>0, <2>5, <2>6
<1> HIDE DEF T
<1>5. Nat \subseteq T
  BY <1>3, <1>4, SetInduction
<1>6. upto(n) = ss /\ least(n) = m
  BY <1>0, <1>2, SubSeqFull
<1>7. FlattenSeq(upto(n)) = SubSeq(s, 1, least(n))
  BY <1>0, <1>5 DEF T
<1> QED BY <1>6, <1>7 DEF ss

\* The greatest element of a set of numbers.
LEMMA MaxIs ==
    ASSUME NEW S, S \subseteq Int, NEW x \in S, \A y \in S : y <= x
    PROVE  Max(S) = x
<1> DEFINE P(z) == z \in S /\ \A y \in S : z >= y
           c == CHOOSE z \in S : \A y \in S : z >= y
<1>1. P(x)
  OBVIOUS
<1>2. c \in S /\ \A y \in S : c >= y
  BY <1>1
<1>3. Max(S) = c
  BY DEF Max
<1> HIDE DEF c
<1>4. c \in Int /\ x \in Int /\ c >= x /\ c <= x
  BY <1>2
<1> QED BY <1>3, <1>4

-----------------------------------------------------------------------------
(* One iteration of the loop *)

\* The spans kept so far start no later than the next one, and only the last of
\* them can overlap it.
LEMMA OnlyLastOverlaps ==
    ASSUME MergeTyped, InOrder, CleanList, NEW i \in todo
    PROVE  /\ \A k \in 1 .. Len(kept) :
                  /\ kept[k] \in DOMAIN spans /\ kept[k] # i /\ Before(kept[k], i)
                  /\ spans[kept[k]].start <= spans[i].start
           /\ \A k \in 1 .. Len(kept) : k < Len(kept) => spans[kept[k]].end <= spans[i].start
<1>0. spans \in Seq(Span) /\ i \in DOMAIN spans /\ Len(kept) \in Nat /\ DOMAIN kept = 1 .. Len(kept)
  BY DEF MergeTyped
<1>1. \A k \in 1 .. Len(kept) :
          kept[k] \in DOMAIN spans /\ kept[k] \notin todo /\ kept[k] # i /\ Before(kept[k], i)
  <2> TAKE k \in 1 .. Len(kept)
  <2>1. kept[k] \in DOMAIN spans
    BY <1>0 DEF MergeTyped
  <2>2. kept[k] \notin todo
    BY <1>0 DEF MergeTyped, Kept
  <2> QED BY <2>1, <2>2 DEF InOrder
<1>2. \A k \in 1 .. Len(kept) : spans[kept[k]].start <= spans[i].start
  BY <1>0, <1>1, BeforeStarts
<1>3. ASSUME NEW k \in 1 .. Len(kept), k < Len(kept) PROVE spans[kept[k]].end <= spans[i].start
  <2> DEFINE a == spans[kept[k]]
             b == spans[kept[Len(kept)]]
  <2>1. Len(kept) \in 1 .. Len(kept)
    BY <1>0, <1>3
  <2>2. a \in Span /\ b \in Span /\ spans[i] \in Span
    BY <1>0, <1>1, <2>1
  <2>3. a.end <= b.start
    BY <1>0, <1>3, <2>1 DEF CleanList
  <2>4. b.start <= spans[i].start
    BY <1>2, <2>1
  <2>5. a.end \in Int /\ b.start \in Int /\ spans[i].start \in Int
    BY <2>2, SpanIs
  <2> QED BY <2>3, <2>4, <2>5
<1> QED BY <1>1, <1>2, <1>3

\* The scan leaves m spans: all, when the last one ends in time or wins, and
\* all but the last, when that one loses.
Leaves(i, m) ==
    LET n == Len(kept)
    IN  /\ m \in 0 .. n
        /\ m < n => /\ m = n - 1
                    /\ overlaps(spans[kept[n]], spans[i])
                    /\ ~BetterOrEqual(spans[kept[n]], spans[i])
        /\ m = n /\ n > 0 => \/ spans[kept[n]].end <= spans[i].start
                             \/ /\ overlaps(spans[kept[n]], spans[i])
                                /\ BetterOrEqual(spans[kept[n]], spans[i])

\* Where the scan stops.
LEMMA StopIs ==
    ASSUME MergeTyped, InOrder, CleanList, NEW i \in todo, NEW m, Leaves(i, m)
    PROVE  Stop(spans[i]) = m
<1> DEFINE n == Len(kept)
           s == spans[i]
           halts(k) == \/ spans[kept[k]].end <= s.start
                       \/ overlaps(spans[kept[k]], s) /\ BetterOrEqual(spans[kept[k]], s)
           S == {0} \cup {k \in 1 .. n : halts(k)}
<1>0. n \in Nat /\ DOMAIN kept = 1 .. n
  BY DEF MergeTyped
<1>1. m \in 0 .. n /\ (m < n => m = n - 1) /\ (m = n /\ n > 0 => halts(n))
  BY DEF Leaves
<1>2. m < n => ~halts(n)
  <2> SUFFICES ASSUME m < n PROVE ~halts(n)
    OBVIOUS
  <2>1. n \in 1 .. n
    <3>1. n \in Nat /\ m \in 0 .. n
      BY <1>0, <1>1
    <3> HIDE DEF n
    <3> QED BY <3>1
  <2>2. spans[kept[n]] \in Span /\ s \in Span
    BY <2>1, OnlyLastOverlaps DEF MergeTyped
  <2>3. spans[kept[n]].end \in Int /\ s.start \in Int
    BY <2>2, SpanIs
  <2>4. overlaps(spans[kept[n]], s) /\ ~BetterOrEqual(spans[kept[n]], s)
    BY DEF Leaves
  <2> QED BY <2>3, <2>4 DEF overlaps
<1>3. \A k \in 1 .. n : k < n => halts(k)
  BY OnlyLastOverlaps
<1>4. Stop(s) = Max(S)
  BY <1>0 DEF Stop
<1> HIDE DEF n, s, halts
<1>5. S \subseteq Int /\ m \in S /\ \A y \in S : y <= m
  BY <1>0, <1>1, <1>2, <1>3
<1> HIDE DEF S
<1>6. Max(S) = m
  BY <1>5, MaxIs
<1> QED BY <1>4, <1>6 DEF s

\* What survives the scan.
LEMMA SurvivorsAre ==
    ASSUME MergeTyped, InOrder, CleanList, NEW i \in todo, NEW m, Leaves(i, m)
    PROVE  Survivors(spans[i]) = SubSeq(kept, 1, m)
<1> DEFINE n == Len(kept)
           meets(k) == overlaps(spans[kept[k]], spans[i])
<1>0. n \in Nat /\ DOMAIN kept = 1 .. n /\ kept \in Seq(DOMAIN spans)
  BY DEF MergeTyped
<1>1. m \in 0 .. n /\ (m < n => m = n - 1 /\ meets(n))
  BY DEF Leaves
<1>2. Survivors(spans[i])
        = FlattenSeq([k \in 1 .. n |-> IF k <= m \/ ~meets(k) THEN <<kept[k]>> ELSE << >>])
  <2>1. Stop(spans[i]) = m
    BY StopIs
  <2> QED BY <1>0, <2>1, Zenon DEF Survivors
<1>3. FlattenSeq([k \in 1 .. n |-> IF k <= m THEN <<kept[k]>> ELSE << >>]) = SubSeq(kept, 1, m)
  <2>1. m \in Nat /\ m <= n
    BY <1>0, <1>1
  <2> QED BY <1>0, <2>1, FlattenFirsts
<1> HIDE DEF n, meets
<1>4. \A k \in 1 .. n : (k <= m \/ ~meets(k)) <=> k <= m
  BY <1>0, <1>1
<1>5. [k \in 1 .. n |-> IF k <= m \/ ~meets(k) THEN <<kept[k]>> ELSE << >>]
        = [k \in 1 .. n |-> IF k <= m THEN <<kept[k]>> ELSE << >>]
  BY <1>4, Zenon
<1> QED BY <1>2, <1>3, <1>5, Zenon

\* Every scan leaves all spans or all but the last.
LEMMA ScanLeaves ==
    ASSUME MergeTyped, InOrder, CleanList, NEW i \in todo
    PROVE  \E m : Leaves(i, m)
<1> DEFINE n == Len(kept)
           last == spans[kept[n]]
           s == spans[i]
<1>0. n \in Nat
  BY DEF MergeTyped
<1>1. CASE n = 0
  <2>1. Leaves(i, n)
    BY <1>0, <1>1 DEF Leaves
  <2> QED BY <2>1
<1>2. CASE n > 0
  <2>1. n \in 1 .. n
    BY <1>0, <1>2
  <2>2. last \in Span /\ s \in Span /\ last.start <= s.start
    BY <2>1, OnlyLastOverlaps DEF MergeTyped
  <2>3. last.end <= s.start \/ overlaps(last, s)
    BY <2>2, SpanIs DEF overlaps
  <2>4. CASE overlaps(last, s) /\ ~BetterOrEqual(last, s)
    <3>1. n - 1 \in 0 .. n /\ n - 1 # n
      BY <1>0, <1>2
    <3>2. Leaves(i, n - 1)
      BY <2>4, <3>1 DEF Leaves
    <3> QED BY <3>2
  <2>5. CASE last.end <= s.start \/ (overlaps(last, s) /\ BetterOrEqual(last, s))
    <3>1. n \in 0 .. n /\ ~(n < n)
      BY <1>0, <1>2
    <3>2. Leaves(i, n)
      BY <2>5, <3>1 DEF Leaves
    <3> QED BY <3>2
  <2> QED BY <2>3, <2>4, <2>5
<1> QED BY <1>0, <1>1, <1>2

\* What an iteration does: the new span loses to the last one kept, or it comes
\* after the first m of them, and the one it replaces loses to it.
Loses(i) ==
    LET n == Len(kept)
    IN  /\ kept' = kept /\ n > 0
        /\ overlaps(spans[kept[n]], spans[i]) /\ BetterOrEqual(spans[kept[n]], spans[i])

ComesAfter(i, m) ==
    LET n == Len(kept)
    IN  /\ m \in 0 .. n /\ kept' = Append(SubSeq(kept, 1, m), i)
        /\ \A k \in 1 .. m : spans[kept[k]].end <= spans[i].start
        /\ m < n => /\ m = n - 1
                    /\ overlaps(spans[kept[n]], spans[i]) /\ ~BetterOrEqual(spans[kept[n]], spans[i])

\* A kept list to which a later span is added is in order, so that a sort by start
\* leaves it as it is.
LEMMA ExtendedIsSorted ==
    ASSUME MergeTyped, CleanList, NEW i \in todo, NEW m \in 0 .. Len(kept),
           \A k \in 1 .. m : spans[kept[k]].end <= spans[i].start
    PROVE  Sorted(Append(SubSeq(kept, 1, m), i), ByStart) = Append(SubSeq(kept, 1, m), i)
<1> DEFINE list == Append(SubSeq(kept, 1, m), i)
<1>0. spans \in Seq(Span) /\ i \in DOMAIN spans /\ kept \in Seq(DOMAIN spans) /\ DOMAIN kept = 1 .. Len(kept)
  BY DEF MergeTyped
<1>1. /\ list \in Seq(DOMAIN spans) /\ DOMAIN list = 1 .. m + 1 /\ m \in Nat
      /\ list[m + 1] = i
      /\ \A k \in 1 .. m : list[k] = kept[k] /\ k \in 1 .. Len(kept)
  BY <1>0
<1> HIDE DEF list
<1>2. ASSUME NEW j \in DOMAIN list, NEW k \in DOMAIN list, j < k
      PROVE  spans[list[j]].start < spans[list[k]].start
  <2>1. j \in 1 .. m
    BY <1>1, <1>2
  <2>2. spans[list[j]] \in Span /\ spans[list[k]] \in Span
    BY <1>0, <1>1
  <2>3. spans[list[j]].end <= spans[list[k]].start
    <3>1. CASE k = m + 1
      BY <1>1, <2>1, <3>1
    <3>2. CASE k # m + 1
      <4>1. k \in 1 .. m
        BY <1>1, <3>2
      <4>2. j \in DOMAIN kept /\ k \in DOMAIN kept
        BY <1>0, <1>1, <2>1, <4>1
      <4> QED BY <1>1, <1>2, <2>1, <4>1, <4>2 DEF CleanList
    <3> QED BY <3>1, <3>2
  <2> QED BY <2>2, <2>3, SpanIs
<1>3. Sorted(list, ByStart) = list
  BY <1>0, <1>1, <1>2, SortedByStart
<1> QED BY <1>3 DEF list

LEMMA TakeIs ==
    ASSUME MergeTyped, InOrder, CleanList, NEW i \in todo, Take(i)
    PROVE  Loses(i) \/ \E m : ComesAfter(i, m)
<1> DEFINE n == Len(kept)
           s == spans[i]
<1>0. n \in Nat /\ kept \in Seq(DOMAIN spans)
  BY DEF MergeTyped
<1>1. PICK m : Leaves(i, m)
  BY ScanLeaves
<1>2. Stop(s) = m /\ Survivors(s) = SubSeq(kept, 1, m)
  BY <1>1, StopIs, SurvivorsAre
<1>3. m \in 0 .. n
  BY <1>1 DEF Leaves
<1>4. kept' = IF Dropped(s) THEN Survivors(s)
              ELSE IF Survivors(s) # kept THEN Sorted(Append(Survivors(s), i), ByStart)
              ELSE Append(kept, i)
  BY DEF Take
<1>5. Dropped(s) <=> m > 0 /\ spans[kept[m]].end > s.start
  BY <1>2 DEF Dropped
<1>6. m = n => SubSeq(kept, 1, m) = kept
  BY <1>0
<1>7. CASE m = n /\ n > 0 /\ overlaps(spans[kept[n]], s) /\ BetterOrEqual(spans[kept[n]], s)
  <2>1. spans[kept[n]].end > s.start
    BY <1>7 DEF overlaps
  <2>2. kept' = kept
    BY <1>2, <1>4, <1>5, <1>6, <1>7, <2>1
  <2>3. Loses(i)
    BY <1>7, <2>2 DEF Loses
  <2> QED BY <2>3
<1>8. CASE ~(m = n /\ n > 0 /\ overlaps(spans[kept[n]], s) /\ BetterOrEqual(spans[kept[n]], s))
  <2>0. m = n /\ n > 0 => spans[kept[n]].end <= s.start
    BY <1>1, <1>8 DEF Leaves
  <2>1. ASSUME NEW k \in 1 .. m PROVE spans[kept[k]].end <= s.start
    <3>1. CASE k < n
      <4>1. k \in 1 .. n
        BY <1>0, <1>3
      <4> QED BY <3>1, <4>1, OnlyLastOverlaps
    <3>2. CASE k >= n
      <4>1. k = n /\ m = n /\ n > 0
        BY <1>0, <1>3, <3>2
      <4> QED BY <2>0, <4>1
    <3> QED BY <1>0, <1>3, <3>1, <3>2
  <2>2. ~Dropped(s)
    <3> SUFFICES ASSUME m > 0 PROVE ~(spans[kept[m]].end > s.start)
      BY <1>5
    <3>1. m \in 1 .. m /\ m \in 1 .. n
      BY <1>0, <1>3
    <3>2. spans[kept[m]] \in Span /\ s \in Span
      BY <3>1, OnlyLastOverlaps DEF MergeTyped
    <3>3. spans[kept[m]].end \in Int /\ s.start \in Int
      BY <3>2, SpanIs
    <3> QED BY <2>1, <3>1, <3>3
  <2>3. kept' = Append(SubSeq(kept, 1, m), i)
    <3>1. CASE Survivors(s) = kept
      BY <1>2, <1>4, <2>2, <3>1
    <3>2. CASE Survivors(s) # kept
      BY <1>2, <1>3, <1>4, <2>1, <2>2, <3>2, ExtendedIsSorted
    <3> QED BY <3>1, <3>2
  <2>4. m < n => m = n - 1 /\ overlaps(spans[kept[n]], s) /\ ~BetterOrEqual(spans[kept[n]], s)
    BY <1>1 DEF Leaves
  <2>5. ComesAfter(i, m)
    BY <1>3, <2>1, <2>3, <2>4, Zenon DEF ComesAfter
  <2> QED BY <2>5
<1> QED BY <1>7, <1>8

-----------------------------------------------------------------------------
(* The invariant *)

\* Before, Beats and the fields of spans do not change.
LEMMA SpansStay ==
    ASSUME UNCHANGED spans, NEW i, NEW j
    PROVE  /\ Before(i, j)' <=> Before(i, j)
           /\ Beats(i, j)' <=> Beats(i, j)
  BY DEF Before, Beats

LEMMA InitMergeInv ==
    MergeInit => MergeInv
<1> SUFFICES ASSUME MergeInit PROVE MergeInv
  OBVIOUS
<1>1. spans \in Seq(Span)
  <2>1. PICK n \in 0 .. MaxSpans : spans \in [1 .. n -> Span]
    BY DEF MergeInit
  <2>2. n \in Nat
    BY <2>1, SpanAssumption
  <2> QED BY <2>1, <2>2
<1>2. kept = << >> /\ todo = DOMAIN spans /\ done = FALSE
  BY DEF MergeInit
<1>3. DOMAIN kept = {} /\ Kept = {}
  BY <1>2 DEF Kept
<1>4. MergeTyped
  <2>1. kept \in Seq(DOMAIN spans)
    BY <1>2
  <2> QED BY <1>1, <1>2, <1>3, <2>1, Zenon DEF MergeTyped
<1>5. InOrder /\ CleanList /\ DropsHaveReason
  BY <1>2, <1>3 DEF InOrder, CleanList, DropsHaveReason
<1> QED BY <1>4, <1>5 DEF MergeInv

\* What an iteration leaves alone, and what is still to do.
LEMMA TakeInOrder ==
    ASSUME MergeTyped, InOrder, NEW i \in todo, Take(i)
    PROVE  /\ InOrder'
           /\ UNCHANGED <<spans, done>> /\ todo' = todo \ {i} /\ i \in DOMAIN spans /\ done' \in BOOLEAN
           /\ (done' => todo' = {})
<1>1. UNCHANGED <<spans, done>> /\ todo' = todo \ {i} /\ i \in DOMAIN spans /\ \A j \in todo : Before(i, j)
  BY DEF Take, MergeTyped
<1>2. InOrder'
  <2> SUFFICES ASSUME NEW a \in DOMAIN spans \ todo', NEW b \in todo' PROVE Before(a, b)'
    BY <1>1 DEF InOrder
  <2>1. Before(a, b)
    BY <1>1 DEF InOrder
  <2> QED BY <1>1, <2>1, SpansStay
<1> QED BY <1>1, <1>2 DEF MergeTyped

\* The iteration that drops the new span.
LEMMA TakeDrops ==
    ASSUME MergeInv, NEW i \in todo, Take(i), Loses(i)
    PROVE  MergeInv'
<1> DEFINE j == kept[Len(kept)]
<1> USE DEF MergeInv
<1>0. kept' = kept /\ Len(kept) > 0 /\ overlaps(spans[j], spans[i]) /\ BetterOrEqual(spans[j], spans[i])
  BY DEF Loses
<1>1. /\ InOrder' /\ UNCHANGED <<spans, done>> /\ todo' = todo \ {i} /\ i \in DOMAIN spans /\ done' \in BOOLEAN
      /\ (done' => todo' = {})
  BY TakeInOrder
<1>2. Kept' = Kept
  BY <1>0 DEF Kept
<1>3. MergeTyped'
  BY <1>0, <1>1, <1>2 DEF MergeTyped
<1>4. CleanList'
  BY <1>0, <1>1 DEF CleanList
<1>5. j \in DOMAIN spans \ {i} /\ Before(j, i)
  <2>1. Len(kept) \in 1 .. Len(kept)
    BY <1>0 DEF MergeTyped
  <2> QED BY <2>1, OnlyLastOverlaps
<1>6. Beats(j, i) /\ overlaps(spans[i], spans[j])
  BY <1>0, <1>5 DEF Beats, overlaps
<1> HIDE DEF j
<1>7. DropsHaveReason'
  <2> SUFFICES ASSUME NEW x \in DOMAIN spans \ (todo' \cup Kept')
               PROVE  \E y \in DOMAIN spans \ {x} : overlaps(spans[x], spans[y]) /\ Beats(y, x)
    BY <1>1, SpansStay DEF DropsHaveReason
  <2>1. CASE x = i
    BY <1>5, <1>6, <2>1
  <2>2. CASE x # i
    <3>1. x \in DOMAIN spans \ (todo \cup Kept)
      BY <1>1, <1>2, <2>2
    <3> QED BY <3>1 DEF DropsHaveReason
  <2> QED BY <2>1, <2>2
<1> QED BY <1>1, <1>3, <1>4, <1>7

\* The iteration that adds the new span.
LEMMA TakeAdds ==
    ASSUME MergeInv, NEW i \in todo, Take(i), NEW m, ComesAfter(i, m)
    PROVE  MergeInv'
<1> USE DEF MergeInv
<1>0. spans \in Seq(Span) /\ kept \in Seq(DOMAIN spans) /\ DOMAIN kept = 1 .. Len(kept) /\ Len(kept) \in Nat
  BY DEF MergeTyped
<1>1. /\ InOrder' /\ UNCHANGED <<spans, done>> /\ todo' = todo \ {i} /\ i \in DOMAIN spans /\ done' \in BOOLEAN
      /\ (done' => todo' = {})
  BY TakeInOrder
<1>2. /\ kept' \in Seq(DOMAIN spans) /\ DOMAIN kept' = 1 .. m + 1 /\ m \in Nat
      /\ kept'[m + 1] = i
      /\ \A k \in 1 .. m : kept'[k] = kept[k] /\ k \in 1 .. Len(kept)
  <2>1. m \in 0 .. Len(kept) /\ kept' = Append(SubSeq(kept, 1, m), i)
    BY DEF ComesAfter
  <2> QED BY <1>0, <1>1, <2>1
<1>3. Kept' = {kept[k] : k \in 1 .. m} \cup {i}
  <2>1. Kept' = {kept'[k] : k \in 1 .. m + 1}
    BY <1>2 DEF Kept
  <2>2. \A k \in 1 .. m + 1 : k = m + 1 \/ k \in 1 .. m
    BY <1>2
  <2>3. m + 1 \in 1 .. m + 1 /\ \A k \in 1 .. m : k \in 1 .. m + 1
    BY <1>2
  <2> QED BY <1>2, <2>1, <2>2, <2>3
<1>4. MergeTyped'
  <2>1. Kept' \cap todo' = {}
    <3>1. {kept[k] : k \in 1 .. m} \subseteq Kept
      BY <1>0, <1>2 DEF Kept
    <3> QED BY <1>1, <1>3, <3>1 DEF MergeTyped
  <2>2. spans' \in Seq(Span) /\ todo' \subseteq DOMAIN spans'
    BY <1>0, <1>1 DEF MergeTyped
  <2> QED BY <1>1, <1>2, <2>1, <2>2 DEF MergeTyped
<1>5. CleanList'
  <2> SUFFICES ASSUME NEW k \in DOMAIN kept', NEW l \in DOMAIN kept', k < l
               PROVE  spans[kept'[k]].end <= spans[kept'[l]].start
    BY <1>1 DEF CleanList
  <2>1. k \in 1 .. m
    BY <1>2
  <2>2. CASE l = m + 1
    BY <1>2, <2>1, <2>2 DEF ComesAfter
  <2>3. CASE l # m + 1
    <3>1. l \in 1 .. m
      BY <1>2, <2>3
    <3>2. k \in DOMAIN kept /\ l \in DOMAIN kept
      BY <1>0, <1>2, <2>1, <3>1
    <3> QED BY <1>2, <2>1, <3>1, <3>2 DEF CleanList
  <2> QED BY <2>2, <2>3
<1>6. DropsHaveReason'
  <2> SUFFICES ASSUME NEW x \in DOMAIN spans \ (todo' \cup Kept')
               PROVE  \E y \in DOMAIN spans \ {x} : overlaps(spans[x], spans[y]) /\ Beats(y, x)
    BY <1>1, SpansStay DEF DropsHaveReason
  <2>1. x # i /\ x \notin todo /\ \A k \in 1 .. m : x # kept[k]
    BY <1>1, <1>3
  <2>2. CASE x \notin Kept
    <3>1. x \in DOMAIN spans \ (todo \cup Kept)
      BY <2>1, <2>2
    <3> QED BY <3>1 DEF DropsHaveReason
  <2>3. CASE x \in Kept
    <3>1. PICK k \in 1 .. Len(kept) : x = kept[k]
      BY <1>0, <2>3 DEF Kept
    <3>2. k \notin 1 .. m
      BY <2>1, <3>1
    <3>3. m < Len(kept) /\ k = Len(kept)
      <4> DEFINE n == Len(kept)
      <4>1. m < n => m = n - 1
        BY DEF ComesAfter
      <4>2. n \in Nat /\ m \in Nat /\ k \in 1 .. n /\ k \notin 1 .. m
        BY <1>0, <1>2, <3>1, <3>2
      <4> HIDE DEF n
      <4>3. m < n /\ k = n
        BY <4>1, <4>2
      <4> QED BY <4>3 DEF n
    <3>4. overlaps(spans[x], spans[i]) /\ ~BetterOrEqual(spans[x], spans[i])
      BY <3>1, <3>3, Zenon DEF ComesAfter
    <3>5. spans[x] \in Span /\ spans[i] \in Span
      BY <1>0, <1>1
    <3>6. BetterOrEqual(spans[i], spans[x])
      BY <3>4, <3>5, BetterIsTotal
    <3>7. Beats(i, x)
      BY <3>4, <3>6 DEF Beats
    <3> QED BY <1>1, <2>1, <3>4, <3>7
  <2> QED BY <2>2, <2>3
<1> QED BY <1>1, <1>4, <1>5, <1>6

LEMMA TakeIInv ==
    ASSUME MergeInv, NEW i \in todo, Take(i)
    PROVE  MergeInv'
<1>1. Loses(i) \/ \E m : ComesAfter(i, m)
  BY TakeIs DEF MergeInv
<1>2. CASE Loses(i)
  BY <1>2, TakeDrops
<1>3. CASE \E m : ComesAfter(i, m)
  BY <1>3, TakeAdds
<1> QED BY <1>1, <1>2, <1>3

\* The last sort changes nothing.
LEMMA ReturnIInv ==
    ASSUME MergeInv, Return
    PROVE  MergeInv' /\ kept' = kept
<1> USE DEF MergeInv
<1>0. spans \in Seq(Span) /\ kept \in Seq(DOMAIN spans)
  BY DEF MergeTyped
<1>1. kept' = Sorted(kept, ByStartAndEnd) /\ todo = {} /\ todo' = todo /\ spans' = spans /\ done' = TRUE
  BY DEF Return
<1>2. ASSUME NEW j \in DOMAIN kept, NEW k \in DOMAIN kept, j < k
      PROVE  spans[kept[j]].start < spans[kept[k]].start
  <2>1. spans[kept[j]] \in Span /\ spans[kept[k]] \in Span
    BY <1>0
  <2>2. spans[kept[j]].end <= spans[kept[k]].start
    BY <1>2 DEF CleanList
  <2> QED BY <2>1, <2>2, SpanIs
<1>3. kept' = kept
  BY <1>0, <1>1, <1>2, SortedByStart
<1>4. Kept' = Kept
  BY <1>3 DEF Kept
<1>5. MergeTyped'
  BY <1>1, <1>3, <1>4 DEF MergeTyped
<1>6. InOrder' /\ CleanList'
  BY <1>1, <1>3 DEF InOrder, CleanList
<1>7. DropsHaveReason'
  BY <1>1, <1>4, SpansStay DEF DropsHaveReason
<1> QED BY <1>3, <1>5, <1>6, <1>7

\* The induction.
LEMMA MergeInvStays ==
    MergeInv /\ [MergeNext]_mergeVars => MergeInv'
<1> SUFFICES ASSUME MergeInv, [MergeNext]_mergeVars PROVE MergeInv'
  OBVIOUS
<1>1. CASE \E i \in todo : Take(i)
  BY <1>1, TakeIInv
<1>2. CASE Return
  BY <1>2, ReturnIInv
<1>3. CASE UNCHANGED mergeVars
  <2>1. spans' = spans /\ todo' = todo /\ kept' = kept /\ done' = done
    BY <1>3 DEF mergeVars
  <2>2. Kept' = Kept
    BY <2>1 DEF Kept
  <2>3. MergeTyped'
    BY <2>1, <2>2 DEF MergeTyped, MergeInv
  <2>4. InOrder' /\ CleanList'
    BY <2>1 DEF InOrder, CleanList, Before, MergeInv
  <2>5. DropsHaveReason'
    BY <2>1, <2>2, SpansStay DEF DropsHaveReason, MergeInv
  <2> QED BY <2>3, <2>4, <2>5 DEF MergeInv
<1> QED BY <1>1, <1>2, <1>3 DEF MergeNext

\* The kept spans are typed, in order, free of overlaps, and every span that is
\* missing was beaten: throughout merge_spans, for any input.
THEOREM Invariance ==
    MergeSpec => []MergeInv
  BY InitMergeInv, MergeInvStays, PTL DEF MergeSpec

\* The list of kept spans is sorted and free of overlaps before and after every
\* iteration, which is what lets the scan of merge_spans break off early.
THEOREM KeptStaysClean ==
    MergeSpec => []CleanList
<1>1. MergeInv => CleanList
  BY DEF MergeInv
<1> QED BY <1>1, Invariance, PTL

\* A span that merge_spans leaves out overlaps a span of the input that beats it.
THEOREM LossesAreLosses ==
    MergeSpec => []DropsHaveReason
<1>1. MergeInv => DropsHaveReason
  BY DEF MergeInv
<1> QED BY <1>1, Invariance, PTL

\* What beats everything it overlaps is in the result of merge_spans: a span that
\* is missing at the end lost to one it overlaps, and two spans do not beat each
\* other.
THEOREM LocalBestStays ==
    MergeSpec => []LocalBestKept
<1>1. MergeInv => LocalBestKept
  <2> SUFFICES ASSUME MergeInv, done, NEW i \in DOMAIN spans,
                      \A j \in DOMAIN spans \ {i} : overlaps(spans[i], spans[j]) => Beats(i, j),
                      i \notin Kept
               PROVE  FALSE
    BY DEF LocalBestKept
  <2>1. spans \in Seq(Span) /\ i \in DOMAIN spans \ (todo \cup Kept)
    BY DEF MergeInv, MergeTyped
  <2>2. PICK j \in DOMAIN spans \ {i} : overlaps(spans[i], spans[j]) /\ Beats(j, i)
    BY <2>1 DEF MergeInv, DropsHaveReason
  <2>3. Beats(i, j)
    BY <2>2
  <2>4. Before(i, j) /\ Before(j, i)
    BY <2>2, <2>3 DEF Beats
  <2> QED BY <2>1, <2>2, <2>4, BeforeIsStrict
<1> QED BY <1>1, Invariance, PTL

-----------------------------------------------------------------------------
(* LabelBook: what holds while requests are served one at a time *)

Prints == Norms \cup Surfaces
Metas  == [NameParts -> Parts]
Stages == {"idle", "lookup", "candidates", "link", "canonical", "spelling", "add", "record"}

Row       == [fp : Norms, value : Surfaces, meta : Metas, excluded : BOOLEAN, birth : Nat]
Named     == [n : Nat, surface : Surfaces]
Spellings == UNION {[S -> Surfaces] : S \in SUBSET Prints}
Object    == [n : Nat, fp : Norms, value : Surfaces, meta : Metas, excluded : BOOLEAN, birth : Nat,
              variants : Spellings]

BookTyped ==
    /\ pc \in [Threads -> Stages] /\ text \in [Threads -> Seq(Surfaces)]
    /\ DOMAIN out = Threads /\ DOMAIN target = Threads /\ DOMAIN old = Threads
    /\ births \in Nat /\ load \in Nat

\* Numbers and births are drawn from counters; a variant has an entity.
Rows ==
    /\ DOMAIN entity \subseteq 1 .. births /\ entity \in [DOMAIN entity -> Row]
    /\ \A n \in DOMAIN entity : entity[n].birth \in 1 .. births
    /\ DOMAIN variant \subseteq Prints /\ variant \in [DOMAIN variant -> Named]
    /\ \A x \in DOMAIN variant : variant[x].n \in DOMAIN entity

\* No normal form belongs to two entities.
OneClaim == \A x \in Norms : \A n, m \in Claims(x) : n = m

\* The objects, of this load or an earlier one.
Objects(l, h) ==
    /\ DOMAIN h \subseteq Nat \X Nat /\ h \in [DOMAIN h -> Object]
    /\ \A id \in DOMAIN h : id[1] <= l

\* The cache says of numbers, births and normal forms what the tables say.
Mirrors(o, n) ==
    /\ o.n = n /\ o.fp = entity[n].fp /\ o.birth = entity[n].birth
    /\ \A x \in Norms : x \in DOMAIN o.variants <=> x \in VariantsOf(n)

InStep(l, h, f) ==
    /\ {id \in DOMAIN h : id[1] = l} = {<<l, n>> : n \in DOMAIN entity}
    /\ \A n \in DOMAIN entity : Mirrors(h[<<l, n>>], n)
    /\ \A x \in Norms : Claims(x) = IF x \in DOMAIN f THEN {f[x][2]} ELSE {}
    /\ \A x \in Norms \cap DOMAIN f : f[x] = <<l, f[x][2]>>

Memory == Objects(load, heap) /\ (cached => InStep(load, heap, index))

\* What a mention was resolved to has its normal form, for as long as it lives.
Sound(n, b, s) ==
    b \in 1 .. births /\ (n \in DOMAIN entity /\ entity[n].birth = b => n \in Claims(norm[s]))

Said == {o \in [n : Nat, birth : Nat, surface : Surfaces, kept : BOOLEAN] :
            Sound(o.n, o.birth, o.surface)}

\* What a request in progress may rely on.
AtWork(t) ==
    /\ cached
    /\ pc[t] # "record" => Len(out[t]) < Len(text[t])
    /\ pc[t] \in {"candidates", "link", "add"} => Claims(norm[Mention(t)]) = {}
    /\ pc[t] \in {"link", "canonical", "spelling"} =>
           \E n \in DOMAIN entity : target[t] = <<load, n>>
    /\ pc[t] \in {"canonical", "spelling"} => target[t][2] \in Claims(norm[Mention(t)])

Alone ==
    /\ \A t, u \in Threads : pc[t] # "idle" /\ pc[u] # "idle" => t = u
    /\ \A t \in Threads :
        /\ pc[t] = "idle" => out[t] = << >>
        /\ pc[t] # "idle" => AtWork(t)
        /\ old[t] \in Surfaces \cup {None}
        /\ out[t] \in Seq(Said)

\* The documents as they were recorded.
Recorded ==
    \A k \in DOMAIN documents : \A i \in DOMAIN documents[k].surfaces :
        /\ documents[k].surfaces[i] \in Surfaces
        /\ Sound(documents[k].labels[i], documents[k].births[i], documents[k].surfaces[i])

Undisturbed == BookTyped /\ Rows /\ OneClaim /\ Memory /\ Alone /\ Recorded

-----------------------------------------------------------------------------
(* Functions and claims *)

\* What Put makes of a function.
LEMMA PutIs ==
    ASSUME NEW f, NEW x, NEW y
    PROVE  /\ DOMAIN Put(f, x, y) = DOMAIN f \cup {x}
           /\ Put(f, x, y)[x] = y
           /\ \A z \in DOMAIN f : z # x => Put(f, x, y)[z] = f[z]
           /\ \A D, R : DOMAIN f \subseteq D /\ f \in [DOMAIN f -> R] /\ x \in D /\ y \in R =>
                  /\ DOMAIN Put(f, x, y) \subseteq D
                  /\ Put(f, x, y) \in [DOMAIN Put(f, x, y) -> R]
  BY DEF Put

\* A function restricted to S.
LEMMA OnlyIs ==
    ASSUME NEW f, NEW S
    PROVE  /\ DOMAIN Only(f, S) = DOMAIN f \cap S
           /\ \A z \in DOMAIN f \cap S : Only(f, S)[z] = f[z]
           /\ \A R : f \in [DOMAIN f -> R] => Only(f, S) \in [DOMAIN Only(f, S) -> R]
  BY DEF Only

\* The spellings of an object: any function from fingerprints to spellings.
LEMMA SpellingsAre ==
    ASSUME NEW v
    PROVE  v \in Spellings <=> DOMAIN v \subseteq Prints /\ v \in [DOMAIN v -> Surfaces]
<1>1. ASSUME v \in Spellings PROVE DOMAIN v \subseteq Prints /\ v \in [DOMAIN v -> Surfaces]
  BY <1>1 DEF Spellings
<1>2. ASSUME DOMAIN v \subseteq Prints, v \in [DOMAIN v -> Surfaces] PROVE v \in Spellings
  BY <1>2 DEF Spellings
<1> QED BY <1>1, <1>2

\* A spelling is the fingerprint of no normal form.
LEMMA NormOf ==
    ASSUME NEW s \in Surfaces
    PROVE  norm[s] \in Norms /\ norm[s] \in Prints /\ s \in Prints /\ s \notin Norms
  BY BookAssumption DEF Norms, Prints

-----------------------------------------------------------------------------
(* Loading *)

\* The objects _load makes of the rows.
LEMMA LoadedObjects ==
    ASSUME Rows, births \in Nat, NEW l \in Nat, NEW id \in {<<l, n>> : n \in DOMAIN entity}
    PROVE  /\ id \in Nat \X Nat /\ id[1] = l /\ id[2] \in DOMAIN entity
           /\ FromRows(l)[id] \in Object /\ Mirrors(FromRows(l)[id], id[2])
<1>1. PICK n \in DOMAIN entity : id = <<l, n>>
  OBVIOUS
<1>2. id \in Nat \X Nat /\ id[1] = l /\ id[2] = n /\ n \in Nat
  BY <1>1 DEF Rows
<1> DEFINE v == [x \in VariantsOf(n) |-> variant[x].surface]
           o == [n |-> n, fp |-> entity[n].fp, value |-> entity[n].value, meta |-> entity[n].meta,
                 excluded |-> entity[n].excluded, birth |-> entity[n].birth, variants |-> v]
<1>3. FromRows(l)[id] = o
  BY <1>2, Zenon DEF FromRows
<1>4. v \in Spellings /\ DOMAIN v = VariantsOf(n)
  <2>1. VariantsOf(n) \subseteq DOMAIN variant /\ VariantsOf(n) \subseteq Prints
    BY DEF VariantsOf, Rows
  <2>2. \A x \in VariantsOf(n) : variant[x].surface \in Surfaces
    BY <2>1 DEF Rows, Named
  <2>3. DOMAIN v = VariantsOf(n) /\ v \in [VariantsOf(n) -> Surfaces]
    BY <2>2
  <2> QED BY <2>1, <2>3, SpellingsAre
<1> HIDE DEF v
<1>5. entity[n] \in Row
  BY DEF Rows
<1>6. o \in Object
  BY <1>2, <1>4, <1>5 DEF Row, Object
<1>7. Mirrors(o, n)
  BY <1>4 DEF Mirrors
<1> QED BY <1>2, <1>3, <1>6, <1>7

\* What _load puts into memory mirrors the tables.
LEMMA LoadInStep ==
    ASSUME Rows, OneClaim, Memory, load \in Nat, births \in Nat, NEW m \in Memories
    PROVE  m.load \in Nat /\ Objects(m.load, m.heap) /\ InStep(m.load, m.heap, m.index)
<1>1. CASE cached
  BY <1>1 DEF Memories, Memory
<1>2. CASE ~cached
  <2> DEFINE l == load + 1
             a == Only(heap, Range(target))
             b == FromRows(l)
             h == Union(a, b)
             D == {<<l, n>> : n \in DOMAIN entity}
  <2>1. PICK f \in Indexes(l) : m = [load |-> l, heap |-> h, index |-> f]
    BY <1>2 DEF Memories
  <2>2. l \in Nat /\ l > load
    OBVIOUS
  <2>3. /\ DOMAIN a \subseteq DOMAIN heap /\ a \in [DOMAIN a -> Object]
        /\ DOMAIN a \subseteq Nat \X Nat /\ \A id \in DOMAIN a : id[1] <= load
    <3>1. heap \in [DOMAIN heap -> Object] /\ DOMAIN heap \subseteq Nat \X Nat /\ \A id \in DOMAIN heap : id[1] <= load
      BY DEF Memory, Objects
    <3>2. DOMAIN a = DOMAIN heap \cap Range(target)
      BY OnlyIs, Zenon
    <3>3. a \in [DOMAIN a -> Object]
      BY <3>1, OnlyIs, Zenon
    <3> HIDE DEF a
    <3> QED BY <3>1, <3>2, <3>3
  <2>4. DOMAIN b = D
    BY DEF FromRows
  <2>5. \A id \in D : /\ id \in Nat \X Nat /\ id[1] = l /\ id[2] \in DOMAIN entity
                      /\ b[id] \in Object /\ Mirrors(b[id], id[2])
    BY <2>2, LoadedObjects
  <2> HIDE DEF a, b, l
  <2>6. /\ DOMAIN h = DOMAIN a \cup D /\ \A id \in D : h[id] = b[id]
        /\ \A id \in DOMAIN a : id \notin D => h[id] = a[id]
    BY <2>4 DEF Union
  <2>7. h = [id \in DOMAIN h |-> h[id]]
    BY DEF Union
  <2> HIDE DEF h
  <2>8. Objects(l, h)
    <3>1. DOMAIN h \subseteq Nat \X Nat
      BY <2>3, <2>5, <2>6
    <3>2. \A id \in DOMAIN h : h[id] \in Object
      BY <2>3, <2>5, <2>6
    <3>3. \A id \in DOMAIN h : id[1] <= l
      <4> TAKE id \in DOMAIN h
      <4>1. CASE id \in D
        BY <2>2, <2>5, <4>1
      <4>2. CASE id \in DOMAIN a
        <5>1. id[1] \in Nat /\ id[1] <= load
          BY <2>3, <4>2
        <5> QED BY <2>2, <5>1
      <4> QED BY <2>6, <4>1, <4>2
    <3>4. h \in [DOMAIN h -> Object]
      BY <2>7, <3>2
    <3> QED BY <3>1, <3>3, <3>4 DEF Objects
  <2>9. InStep(l, h, f)
    <3>1. {id \in DOMAIN h : id[1] = l} = D
      <4>1. \A id \in DOMAIN a : id[1] # l
        <5> TAKE id \in DOMAIN a
        <5>1. id[1] \in Nat /\ id[1] <= load
          BY <2>3
        <5> QED BY <2>2, <5>1
      <4> QED BY <2>5, <2>6, <4>1
    <3>2. \A n \in DOMAIN entity : Mirrors(h[<<l, n>>], n)
      <4> TAKE n \in DOMAIN entity
      <4>1. <<l, n>> \in D /\ <<l, n>>[2] = n
        OBVIOUS
      <4> QED BY <2>5, <2>6, <4>1
    <3> DEFINE known == {x \in Norms \cup Surfaces : Claims(x) # {}}
    <3>3. f \in [known -> D] /\ \A x \in known : f[x][2] \in Claims(x)
      BY DEF Indexes, l
    <3>4. \A x \in Norms : x \in DOMAIN f <=> Claims(x) # {}
      BY <3>3
    <3>5. \A x \in Norms : Claims(x) = IF x \in DOMAIN f THEN {f[x][2]} ELSE {}
      BY <3>3, <3>4 DEF OneClaim
    <3>6. \A x \in Norms \cap DOMAIN f : f[x] = <<l, f[x][2]>>
      <4> TAKE x \in Norms \cap DOMAIN f
      <4>1. f[x] \in D
        BY <3>3
      <4> QED BY <4>1
    <3> QED BY <3>1, <3>2, <3>5, <3>6 DEF InStep
  <2> QED BY <2>1, <2>2, <2>8, <2>9
<1> QED BY <1>1, <1>2

\* A request in progress finds the cache in place.
LEMMA CacheStays ==
    ASSUME cached, NEW m \in Memories
    PROVE  m.load = load /\ m.heap = heap /\ m.index = index
  BY DEF Memories

-----------------------------------------------------------------------------
(* Requests *)

\* A mention that was sound stays sound: entities keep their births and normal forms, and
\* a number that is given again has a new birth.
Grows ==
    /\ births' \in Nat /\ births <= births'
    /\ \A n \in DOMAIN entity' :
        \/ /\ n \in DOMAIN entity /\ entity'[n].birth = entity[n].birth
           /\ \A x \in Norms : n \in Claims(x) => n \in Claims(x)'
        \/ entity'[n].birth = births + 1

\* What was said of a mention goes on to hold.
LEMMA SoundStays ==
    ASSUME births \in Nat, Grows, NEW n, NEW b, NEW s \in Surfaces, Sound(n, b, s)
    PROVE  Sound(n, b, s)'
<1>1. norm[s] \in Norms
  BY NormOf
<1>2. b \in 1 .. births /\ b \in 1 .. births' /\ b # births + 1
  BY DEF Sound, Grows
<1>3. ASSUME n \in DOMAIN entity', entity'[n].birth = b PROVE n \in Claims(norm[s])'
  BY <1>1, <1>2, <1>3 DEF Grows, Sound
<1> QED BY <1>2, <1>3 DEF Sound

\* The mentions resolved so far stay sound.
LEMMA SaidStays ==
    ASSUME births \in Nat, Grows
    PROVE  Said \subseteq Said'
<1> SUFFICES ASSUME NEW o \in Said PROVE o \in Said'
  OBVIOUS
<1>1. o \in [n : Nat, birth : Nat, surface : Surfaces, kept : BOOLEAN] /\ Sound(o.n, o.birth, o.surface)
  BY DEF Said
<1>2. o.surface \in Surfaces
  BY <1>1
<1>3. Sound(o.n, o.birth, o.surface)'
  BY <1>1, <1>2, SoundStays
<1> QED BY <1>1, <1>3 DEF Said

\* So do the documents.
LEMMA RecordedStays ==
    ASSUME births \in Nat, Grows, Recorded, UNCHANGED documents
    PROVE  Recorded'
  BY SoundStays DEF Recorded

\* With the tables as they were everything stays.
LEMMA TablesStay ==
    ASSUME births \in Nat, UNCHANGED <<entity, variant, births>>
    PROVE  /\ Rows => Rows' /\ Grows
           /\ OneClaim => OneClaim'
           /\ \A x : Claims(x)' = Claims(x)
<1>1. Rows => Rows'
  BY DEF Rows
<1>2. (\A n : VariantsOf(n)' = VariantsOf(n)) /\ \A x : Claims(x)' = Claims(x)
  BY DEF Claims, VariantsOf
<1>3. OneClaim => OneClaim'
  BY <1>2 DEF OneClaim
<1>4. Grows
  BY <1>2 DEF Grows
<1> QED BY <1>1, <1>2, <1>3, <1>4

\* A request that resolves has a mention left to resolve.
LEMMA MentionIs ==
    ASSUME BookTyped, Alone, NEW t \in Threads, pc[t] \notin {"idle", "record"}
    PROVE  /\ Mention(t) \in Surfaces /\ Len(out[t]) \in Nat /\ Len(text[t]) \in Nat
           /\ Len(out[t]) < Len(text[t]) /\ out[t] \in Seq(Said)
<1>1. AtWork(t) /\ out[t] \in Seq(Said) /\ text[t] \in Seq(Surfaces)
  BY DEF Alone, BookTyped
<1>2. Len(out[t]) \in Nat /\ Len(text[t]) \in Nat /\ Len(out[t]) < Len(text[t])
  BY <1>1 DEF AtWork
<1>3. Len(out[t]) + 1 \in 1 .. Len(text[t])
  BY <1>2
<1> QED BY <1>1, <1>2, <1>3 DEF Mention

\* One request moves, and no other is in progress.
LEMMA AloneStays ==
    ASSUME Alone, NEW t \in Threads, \A u \in Threads \ {t} : pc[u] = "idle",
           \A u \in Threads \ {t} : pc'[u] = pc[u] /\ out'[u] = out[u] /\ old'[u] = old[u],
           pc'[t] = "idle" => out'[t] = << >>, pc'[t] # "idle" => AtWork(t)',
           old'[t] \in Surfaces \cup {None}, out'[t] \in Seq(Said')
    PROVE  Alone'
<1>1. \A u \in Threads \ {t} : pc'[u] = "idle" /\ out'[u] = << >> /\ old'[u] \in Surfaces \cup {None}
  BY DEF Alone
<1>2. \A u, v \in Threads : pc'[u] # "idle" /\ pc'[v] # "idle" => u = v
  BY <1>1
<1>3. << >> \in Seq(Said')
  OBVIOUS
<1>4. ASSUME NEW u \in Threads
      PROVE  /\ pc'[u] = "idle" => out'[u] = << >>
             /\ pc'[u] # "idle" => AtWork(u)'
             /\ old'[u] \in Surfaces \cup {None}
             /\ out'[u] \in Seq(Said')
  <2>1. CASE u = t
    BY <2>1
  <2>2. CASE u # t
    BY <1>1, <1>3, <2>2
  <2> QED BY <2>1, <2>2
<1> QED BY <1>2, <1>4 DEF Alone

\* Requests are served one at a time.
LEMMA OthersIdle ==
    ASSUME Alone, NEW t \in Threads, pc[t] # "idle"
    PROVE  \A u \in Threads \ {t} : pc[u] = "idle"
  BY DEF Alone

\* A mention is resolved.
LEMMA ResolvedKeeps ==
    ASSUME BookTyped, Alone, NEW t \in Threads, pc[t] \notin {"idle", "record"}, NEW e, Resolved(t, e),
           Grows, cached', load' \in Nat, e.n \in Nat, e.excluded \in BOOLEAN,
           NEW x, x = Mention(t), e.birth \in 1 .. births', e.n \in Claims(norm[x])'
    PROVE  BookTyped' /\ Alone'
<1> DEFINE o == [n |-> e.n, birth |-> e.birth, surface |-> x, kept |-> ~e.excluded]
           l == IF Len(out[t]) + 1 = Len(text[t]) THEN "record" ELSE "lookup"
<1>0. /\ DOMAIN out = Threads /\ DOMAIN old = Threads /\ DOMAIN target = Threads /\ pc \in [Threads -> Stages]
      /\ births \in Nat /\ text \in [Threads -> Seq(Surfaces)]
  BY DEF BookTyped
<1>1. /\ x \in Surfaces /\ Len(out[t]) \in Nat /\ Len(text[t]) \in Nat
      /\ Len(out[t]) < Len(text[t]) /\ out[t] \in Seq(Said)
  BY MentionIs
<1>2. /\ out' = [out EXCEPT ![t] = Append(@, o)] /\ target' = [target EXCEPT ![t] = None]
      /\ old' = [old EXCEPT ![t] = None] /\ pc' = [pc EXCEPT ![t] = l] /\ text' = text
  BY DEF Resolved, Goto
<1>3. o \in Said'
  <2>1. e.birth \in Nat
    BY DEF Sound, Grows
  <2> QED BY <1>1, <2>1 DEF Said, Sound
<1> HIDE DEF o
<1>4. out[t] \in Seq(Said')
  BY <1>0, <1>1, SaidStays
<1>5. out'[t] = Append(out[t], o) /\ pc'[t] = l /\ old'[t] = None
  BY <1>0, <1>2
<1>6. out'[t] \in Seq(Said') /\ Len(out'[t]) = Len(out[t]) + 1
  <2> DEFINE S == Said'
  <2>1. out[t] \in Seq(S) /\ o \in S
    BY <1>3, <1>4
  <2> HIDE DEF S
  <2>2. Append(out[t], o) \in Seq(S) /\ Len(Append(out[t], o)) = Len(out[t]) + 1
    BY <2>1
  <2> QED BY <1>5, <2>2 DEF S
<1>7. l \in {"record", "lookup"}
  OBVIOUS
<1>8. l # "record" => Len(out'[t]) < Len(text'[t])
  BY <1>1, <1>2, <1>6
<1>9. AtWork(t)'
  BY <1>5, <1>7, <1>8 DEF AtWork
<1>10. BookTyped'
  <2>1. l \in Stages
    BY <1>7 DEF Stages
  <2> HIDE DEF l
  <2>2. /\ pc' \in [Threads -> Stages] /\ DOMAIN out' = Threads /\ DOMAIN target' = Threads
        /\ DOMAIN old' = Threads
    BY <1>0, <1>2, <2>1
  <2> QED BY <1>0, <1>2, <2>2 DEF BookTyped, Grows
<1>11. \A u \in Threads \ {t} : pc'[u] = pc[u] /\ out'[u] = out[u] /\ old'[u] = old[u]
  <2> HIDE DEF l
  <2> QED BY <1>0, <1>2
<1>12. \A u \in Threads \ {t} : pc[u] = "idle"
  BY OthersIdle
<1>13. pc'[t] # "idle"
  BY <1>5, <1>7
<1> QED BY <1>5, <1>6, <1>9, <1>10, <1>11, <1>12, <1>13, AloneStays

\* A request is over.
LEMMA LeaveKeeps ==
    ASSUME BookTyped, Alone, NEW t \in Threads, pc[t] # "idle", Leave(t), Grows, load' \in Nat
    PROVE  BookTyped' /\ Alone'
<1>0. /\ DOMAIN out = Threads /\ DOMAIN old = Threads /\ DOMAIN target = Threads /\ pc \in [Threads -> Stages]
      /\ text \in [Threads -> Seq(Surfaces)]
  BY DEF BookTyped
<1>1. /\ out' = [out EXCEPT ![t] = << >>] /\ target' = [target EXCEPT ![t] = None]
      /\ old' = [old EXCEPT ![t] = None] /\ pc' = [pc EXCEPT ![t] = "idle"]
      /\ text' = [text EXCEPT ![t] = << >>]
  BY DEF Leave, Goto
<1>2. /\ pc'[t] = "idle" /\ out'[t] = << >> /\ old'[t] = None
      /\ \A u \in Threads \ {t} : pc'[u] = pc[u] /\ out'[u] = out[u] /\ old'[u] = old[u]
  BY <1>0, <1>1
<1>3. BookTyped'
  <2>1. "idle" \in Stages /\ << >> \in Seq(Surfaces)
    BY DEF Stages
  <2>2. /\ pc' \in [Threads -> Stages] /\ text' \in [Threads -> Seq(Surfaces)]
        /\ DOMAIN out' = Threads /\ DOMAIN target' = Threads /\ DOMAIN old' = Threads
    BY <1>0, <1>1, <2>1
  <2> QED BY <2>2 DEF BookTyped, Grows
<1>4. \A u \in Threads \ {t} : pc[u] = "idle"
  BY OthersIdle
<1>5. << >> \in Seq(Said')
  OBVIOUS
<1> QED BY <1>2, <1>3, <1>4, <1>5, AloneStays

\* A request goes on to another step with the same mention.
LEMMA MoveKeeps ==
    ASSUME BookTyped, Alone, NEW t \in Threads, pc[t] \notin {"idle", "record"}, NEW l \in Stages, Goto(t, l),
           UNCHANGED <<text, out>>, DOMAIN target' = Threads, DOMAIN old' = Threads,
           Grows, load' \in Nat, cached', l \notin {"idle", "record"},
           l \in {"candidates", "link", "add"} => Claims(norm[Mention(t)])' = {},
           l \in {"link", "canonical", "spelling"} => \E n \in DOMAIN entity' : target'[t] = <<load', n>>,
           l \in {"canonical", "spelling"} => target'[t][2] \in Claims(norm[Mention(t)])',
           old'[t] \in Surfaces \cup {None}, \A u \in Threads \ {t} : old'[u] = old[u]
    PROVE  BookTyped' /\ Alone'
<1>0. /\ DOMAIN out = Threads /\ pc \in [Threads -> Stages] /\ text \in [Threads -> Seq(Surfaces)] /\ births \in Nat
  BY DEF BookTyped
<1>1. pc' = [pc EXCEPT ![t] = l]
  BY DEF Goto
<1>2. pc'[t] = l /\ \A u \in Threads \ {t} : pc'[u] = pc[u] /\ out'[u] = out[u]
  BY <1>0, <1>1
<1>3. Len(out[t]) < Len(text[t]) /\ out[t] \in Seq(Said)
  BY MentionIs
<1>4. BookTyped'
  <2>1. pc' \in [Threads -> Stages]
    BY <1>0, <1>1
  <2> QED BY <1>0, <2>1 DEF BookTyped, Grows
<1>5. AtWork(t)'
  BY <1>2, <1>3 DEF AtWork
<1>6. out'[t] \in Seq(Said')
  BY <1>0, <1>3, SaidStays
<1>7. \A u \in Threads \ {t} : pc[u] = "idle"
  BY OthersIdle
<1> QED BY <1>2, <1>4, <1>5, <1>6, <1>7, AloneStays

-----------------------------------------------------------------------------
(* Steps that read *)

\* A call that only loads.
LEMMA LoadKeeps ==
    ASSUME BookTyped, Rows, OneClaim, Memory, Recorded, NEW m \in Memories, Keep(m),
           UNCHANGED <<entity, variant, births, documents>>
    PROVE  /\ Rows' /\ OneClaim' /\ Memory' /\ Recorded' /\ Grows /\ load' \in Nat /\ cached'
           /\ \A x : Claims(x)' = Claims(x)
<1>0. births \in Nat /\ load \in Nat
  BY DEF BookTyped
<1>1. /\ m.load \in Nat /\ Objects(m.load, m.heap) /\ InStep(m.load, m.heap, m.index)
  BY <1>0, LoadInStep
<1>2. load' = m.load /\ heap' = m.heap /\ index' = m.index /\ cached' = TRUE
  BY DEF Keep
<1>3. Rows' /\ OneClaim' /\ Grows /\ \A x : Claims(x)' = Claims(x)
  BY <1>0, TablesStay
<1>4. \A n : VariantsOf(n)' = VariantsOf(n)
  BY DEF VariantsOf
<1>5. InStep(load, heap, index)'
  BY <1>1, <1>2, <1>3, <1>4 DEF InStep, Mirrors
<1>6. Memory'
  <2>1. Objects(load, heap)'
    BY <1>1, <1>2 DEF Objects
  <2> QED BY <1>5, <2>1 DEF Memory
<1>7. Recorded'
  BY <1>0, <1>3, RecordedStays
<1> QED BY <1>1, <1>2, <1>3, <1>6, <1>7

\* A request starts while no other is in progress.
LEMMA StartKeeps ==
    ASSUME Undisturbed, NEW t \in Threads, NEW d \in Texts, Start(t, d), ~disturbed'
    PROVE  Undisturbed'
<1>0. BookTyped /\ Rows /\ OneClaim /\ Memory /\ Alone /\ Recorded
  BY DEF Undisturbed
<1>1. PICK m \in Memories : Keep(m)
  BY DEF Start
<1>2. Rows' /\ OneClaim' /\ Memory' /\ Recorded' /\ Grows /\ load' \in Nat /\ cached'
  BY <1>0, <1>1, LoadKeeps DEF Start, tables
<1>3. /\ DOMAIN out = Threads /\ DOMAIN old = Threads /\ DOMAIN target = Threads /\ pc \in [Threads -> Stages]
      /\ text \in [Threads -> Seq(Surfaces)] /\ births \in Nat
  BY <1>0 DEF BookTyped
<1>4. /\ pc' = [pc EXCEPT ![t] = "lookup"] /\ text' = [text EXCEPT ![t] = d]
      /\ UNCHANGED <<out, target, old>> /\ pc[t] = "idle"
  BY DEF Start, Goto
<1>5. \A u \in Threads \ {t} : pc[u] = "idle"
  BY DEF Start, Busy
<1>6. d \in Seq(Surfaces) /\ d # << >>
  BY BookAssumption
<1>7. Len(d) \in Nat /\ Len(d) > 0
  BY <1>6
<1>8. pc'[t] = "lookup" /\ text'[t] = d /\ \A u \in Threads \ {t} : pc'[u] = pc[u]
  BY <1>3, <1>4
<1>9. BookTyped'
  <2>1. "lookup" \in Stages
    BY DEF Stages
  <2>2. pc' \in [Threads -> Stages] /\ text' \in [Threads -> Seq(Surfaces)]
    BY <1>3, <1>4, <1>6, <2>1
  <2> QED BY <1>2, <1>3, <1>4, <2>2 DEF BookTyped, Grows
<1>10. out[t] = << >> /\ old[t] \in Surfaces \cup {None} /\ out[t] \in Seq(Said)
  BY <1>0, <1>4 DEF Alone
<1>11. Len(out'[t]) < Len(text'[t])
  <2>1. Len(out'[t]) = 0
    BY <1>4, <1>10
  <2> QED BY <1>7, <1>8, <2>1
<1>12. AtWork(t)'
  BY <1>2, <1>8, <1>11 DEF AtWork
<1>13. out'[t] \in Seq(Said')
  BY <1>4, <1>10
<1>14. Alone'
  BY <1>0, <1>4, <1>5, <1>8, <1>10, <1>12, <1>13, AloneStays
<1> QED BY <1>2, <1>9, <1>14 DEF Undisturbed

\* by_fingerprint finds nothing: no entity has the normal form.
LEMMA MissedKeeps ==
    ASSUME Undisturbed, NEW t \in Threads, Missed(t)
    PROVE  Undisturbed'
<1>0. BookTyped /\ Rows /\ OneClaim /\ Memory /\ Alone /\ Recorded /\ pc[t] = "lookup"
  BY DEF Undisturbed, Missed
<1>1. PICK m \in Memories : Keep(m) /\ norm[Mention(t)] \notin DOMAIN m.index
  BY DEF Missed
<1>2. /\ Rows' /\ OneClaim' /\ Memory' /\ Recorded' /\ Grows /\ load' \in Nat /\ cached'
      /\ \A x : Claims(x)' = Claims(x)
  BY <1>0, <1>1, LoadKeeps DEF Missed, tables
<1>3. Mention(t) \in Surfaces /\ norm[Mention(t)] \in Norms
  BY <1>0, MentionIs, NormOf
<1>4. Claims(norm[Mention(t)]) = {}
  <2>1. cached
    BY <1>0 DEF Alone, AtWork
  <2>2. norm[Mention(t)] \notin DOMAIN index
    BY <1>1, <2>1, CacheStays
  <2> QED BY <1>0, <1>3, <2>1, <2>2 DEF Memory, InStep
<1>5. Mention(t)' = Mention(t) /\ Claims(norm[Mention(t)])' = {}
  <2>1. Mention(t)' = Mention(t)
    BY DEF Missed, Mention
  <2>2. Claims(norm[Mention(t)])' = Claims(norm[Mention(t)])
    BY <2>1, <1>2 DEF Missed, Claims, VariantsOf, tables
  <2> QED BY <1>4, <2>1, <2>2
<1> DEFINE l == IF meta[Mention(t)]["s"] = None THEN "add" ELSE "candidates"
<1>6. l \in {"add", "candidates"} /\ l \in Stages
  BY DEF Stages
<1>7. Goto(t, l) /\ UNCHANGED <<text, out, target, old>>
  BY DEF Missed
<1> HIDE DEF l
<1>8. DOMAIN target = Threads /\ DOMAIN old = Threads /\ old[t] \in Surfaces \cup {None}
  BY <1>0 DEF BookTyped, Alone
<1>9. BookTyped' /\ Alone'
  BY <1>0, <1>2, <1>5, <1>6, <1>7, <1>8, MoveKeeps
<1> QED BY <1>2, <1>9 DEF Undisturbed

\* by_fingerprint answers with the entity that has the normal form.
LEMMA FoundKeeps ==
    ASSUME Undisturbed, NEW t \in Threads, Found(t)
    PROVE  Undisturbed'
<1>0. BookTyped /\ Rows /\ OneClaim /\ Memory /\ Alone /\ Recorded /\ pc[t] = "lookup"
  BY DEF Undisturbed, Found
<1> DEFINE x == norm[Mention(t)]
           id == index[x]
           n == id[2]
           e == heap[id]
<1>1. PICK m \in Memories :
        /\ Keep(m) /\ x \in DOMAIN m.index
        /\ LET i == m.index[x]
               o == m.heap[i]
           IN  IF Mention(t) \in {o.value} \cup Range(o.variants) THEN Resolved(t, o)
               ELSE target' = [target EXCEPT ![t] = i] /\ Goto(t, "spelling") /\ UNCHANGED <<text, out, old>>
  BY DEF Found
<1>2. /\ Rows' /\ OneClaim' /\ Memory' /\ Recorded' /\ Grows /\ load' \in Nat /\ cached'
      /\ \A y : Claims(y)' = Claims(y)
  BY <1>0, <1>1, LoadKeeps DEF Found, tables
<1>3. Mention(t) \in Surfaces /\ x \in Norms
  BY <1>0, MentionIs, NormOf
<1>4. cached
  BY <1>0 DEF Alone, AtWork
<1>5. m.load = load /\ m.heap = heap /\ m.index = index
  BY <1>4, CacheStays
<1>6. load' = load /\ UNCHANGED <<entity, births>>
  BY <1>1, <1>5 DEF Keep, Found, tables
<1>7. x \in DOMAIN index /\ Claims(x) = {n} /\ id = <<load, n>> /\ n \in DOMAIN entity /\ Mirrors(e, n)
  <2>1. x \in DOMAIN index /\ InStep(load, heap, index)
    BY <1>0, <1>1, <1>4, <1>5 DEF Memory
  <2>2. Claims(x) = {n} /\ id = <<load, n>>
    BY <1>3, <2>1 DEF InStep
  <2>3. n \in DOMAIN entity
    BY <2>2 DEF Claims
  <2> QED BY <2>1, <2>2, <2>3 DEF InStep
<1>8. e.n = n /\ e.birth = entity[n].birth /\ e.n \in Nat /\ e.excluded \in BOOLEAN /\ e.birth \in 1 .. births
  <2>1. id \in DOMAIN heap
    <3>1. InStep(load, heap, index)
      BY <1>0, <1>4 DEF Memory
    <3> QED BY <1>7, <3>1 DEF InStep
  <2>2. e \in Object
    BY <1>0, <2>1 DEF Memory, Objects
  <2> QED BY <1>0, <1>7, <2>2 DEF Mirrors, Object, Rows
<1> HIDE DEF x, id, n, e
<1>9. CASE Resolved(t, e)
  <2>1. PICK s : s = Mention(t)
    OBVIOUS
  <2>2. e.n \in Claims(norm[s])'
    BY <1>2, <1>7, <1>8, <2>1 DEF x
  <2>3. BookTyped' /\ Alone'
    BY <1>0, <1>2, <1>6, <1>8, <1>9, <2>1, <2>2, ResolvedKeeps
  <2> QED BY <1>2, <2>3 DEF Undisturbed
<1>10. CASE target' = [target EXCEPT ![t] = id] /\ Goto(t, "spelling") /\ UNCHANGED <<text, out, old>>
  <2>1. DOMAIN target = Threads /\ DOMAIN old = Threads /\ old[t] \in Surfaces \cup {None}
    BY <1>0 DEF BookTyped, Alone
  <2>2. target'[t] = <<load', n>> /\ n \in DOMAIN entity' /\ DOMAIN target' = Threads
    BY <1>6, <1>7, <1>10, <2>1
  <2>3. target'[t][2] \in Claims(norm[Mention(t)])'
    <3>1. Mention(t)' = Mention(t)
      BY <1>10 DEF Mention
    <3>2. Claims(norm[Mention(t)])' = Claims(norm[Mention(t)])
      BY <3>1 DEF Found, Claims, VariantsOf, tables
    <3> QED BY <1>7, <2>2, <3>2 DEF x
  <2>4. "spelling" \in Stages
    BY DEF Stages
  <2>5. BookTyped' /\ Alone'
    BY <1>0, <1>2, <1>10, <2>1, <2>2, <2>3, <2>4, MoveKeeps
  <2> QED BY <1>2, <2>5 DEF Undisturbed
<1> QED BY <1>1, <1>5, <1>9, <1>10 DEF x, id, e

\* The one compatible entity is one of the cache.
LEMMA CandidatesKeep ==
    ASSUME Undisturbed, NEW t \in Threads, Candidates(t)
    PROVE  Undisturbed'
<1>0. BookTyped /\ Rows /\ OneClaim /\ Memory /\ Alone /\ Recorded /\ pc[t] = "candidates"
  BY DEF Undisturbed, Candidates
<1> DEFINE cands(m) == {id \in Cache(m) : Compatible(meta[Mention(t)], m.heap[id].meta)}
<1>1. PICK m \in Memories :
        /\ Keep(m)
        /\ IF Cardinality(cands(m)) = 1
           THEN target' = [target EXCEPT ![t] = CHOOSE id \in cands(m) : TRUE] /\ Goto(t, "link")
           ELSE Goto(t, "add") /\ UNCHANGED target
  BY DEF Candidates
<1>2. /\ Rows' /\ OneClaim' /\ Memory' /\ Recorded' /\ Grows /\ load' \in Nat /\ cached'
  BY <1>0, <1>1, LoadKeeps DEF Candidates, tables
<1>3. cached /\ Claims(norm[Mention(t)]) = {}
  BY <1>0 DEF Alone, AtWork
<1>4. m.load = load /\ m.heap = heap /\ load' = load
  BY <1>1, <1>3, CacheStays DEF Keep
<1>5. Claims(norm[Mention(t)])' = {}
  BY <1>3 DEF Candidates, Claims, VariantsOf, Mention, tables
<1>6. /\ DOMAIN target = Threads /\ DOMAIN old = Threads /\ old[t] \in Surfaces \cup {None}
      /\ UNCHANGED <<text, out, old, entity>>
  BY <1>0 DEF BookTyped, Alone, Candidates, tables
<1>7. CASE Cardinality(cands(m)) = 1
  <2> DEFINE id == CHOOSE i \in cands(m) : TRUE
  <2>1. cands(m) # {}
    <3>1. PICK C : C = cands(m)
      OBVIOUS
    <3>2. Cardinality(C) = 1
      BY <1>7, <3>1, Zenon
    <3>3. C # {}
      <4> SUFFICES ASSUME C = {} PROVE FALSE
        OBVIOUS
      <4>1. Cardinality(C) = 0
        BY FS_EmptySet
      <4> QED BY <3>2, <4>1
    <3> QED BY <3>1, <3>3, Zenon
  <2>2. id \in cands(m)
    BY <2>1
  <2>3. id \in {i \in DOMAIN heap : i[1] = load}
    BY <1>4, <2>2 DEF Cache
  <2>4. PICK n \in DOMAIN entity : id = <<load, n>>
    BY <1>0, <1>3, <2>3 DEF Memory, InStep
  <2>5. target' = [target EXCEPT ![t] = id] /\ Goto(t, "link")
    BY <1>1, <1>7
  <2> HIDE DEF id
  <2>6. target'[t] = <<load', n>> /\ n \in DOMAIN entity' /\ DOMAIN target' = Threads
    BY <1>4, <1>6, <2>4, <2>5
  <2>7. "link" \in Stages
    BY DEF Stages
  <2>8. BookTyped' /\ Alone'
    BY <1>0, <1>2, <1>5, <1>6, <2>5, <2>6, <2>7, MoveKeeps
  <2> QED BY <1>2, <2>8 DEF Undisturbed
<1>8. CASE Cardinality(cands(m)) # 1
  <2>1. "add" \in Stages /\ Goto(t, "add") /\ UNCHANGED target
    BY <1>1, <1>8 DEF Stages
  <2>2. BookTyped' /\ Alone'
    BY <1>0, <1>2, <1>5, <1>6, <2>1, MoveKeeps
  <2> QED BY <1>2, <2>2 DEF Undisturbed
<1> QED BY <1>7, <1>8

\* A row that the unique index refuses.
LEMMA AddRefusedKeeps ==
    ASSUME Undisturbed, NEW t \in Threads, AddRefused(t)
    PROVE  Undisturbed'
<1>0. BookTyped /\ Rows /\ OneClaim /\ Memory /\ Alone /\ Recorded /\ pc[t] = "add" /\ Leave(t)
  BY DEF Undisturbed, AddRefused
<1>1. PICK m \in Memories : Keep(m)
  BY DEF AddRefused
<1>2. /\ Rows' /\ OneClaim' /\ Memory' /\ Recorded' /\ Grows /\ load' \in Nat
  BY <1>0, <1>1, LoadKeeps DEF AddRefused, tables
<1>3. BookTyped' /\ Alone'
  BY <1>0, <1>2, LeaveKeeps
<1> QED BY <1>2, <1>3 DEF Undisturbed

-----------------------------------------------------------------------------
(* Documents *)

\* A list of mentions is a sequence, and the three columns of a document have one length.
Columns(d, n) ==
    /\ d.surfaces = [i \in 1 .. n |-> d.surfaces[i]]
    /\ DOMAIN d.labels = 1 .. n /\ DOMAIN d.births = 1 .. n

Listed ==
    /\ DOMAIN out = Threads /\ \A t \in Threads : \E S : out[t] \in Seq(S)
    /\ \E D : documents \in Seq(D)
    /\ \A k \in DOMAIN documents : \E n \in Nat : Columns(documents[k], n)

\* The mentions of a finished request that got a label.
Labelled(t) == FlattenSeq([i \in DOMAIN out[t] |-> IF out[t][i].kept THEN <<out[t][i]>> ELSE << >>])

\* The mentions with a label are some of the mentions.
LEMMA LabelledIs ==
    ASSUME NEW t, NEW S, out[t] \in Seq(S)
    PROVE  Labelled(t) \in Seq(S)
<1> DEFINE ss == [i \in DOMAIN out[t] |-> IF out[t][i].kept THEN <<out[t][i]>> ELSE << >>]
<1>1. ss \in Seq(Seq(S))
  <2>1. \A i \in 1 .. Len(out[t]) : out[t][i] \in S
    OBVIOUS
  <2>2. \A i \in 1 .. Len(out[t]) : (IF out[t][i].kept THEN <<out[t][i]>> ELSE << >>) \in Seq(S)
    BY <2>1
  <2>3. DOMAIN out[t] = 1 .. Len(out[t]) /\ Len(out[t]) \in Nat
    OBVIOUS
  <2> QED BY <2>2, <2>3
<1> HIDE DEF ss
<1>2. FlattenSeq(ss) \in Seq(S)
  BY <1>1, FlattenSeqType
<1> QED BY <1>2 DEF Labelled, ss

\* record_document appends a row of three columns.
LEMMA RecordAppends ==
    ASSUME NEW t \in Threads, Record(t), NEW S, out[t] \in Seq(S), NEW D, documents \in Seq(D)
    PROVE  \E d : \E n \in Nat :
               /\ documents' = Append(documents, d) /\ Columns(d, n)
               /\ \A i \in 1 .. n : /\ Labelled(t)[i] \in S /\ d.surfaces[i] = Labelled(t)[i].surface
                                    /\ d.labels[i] = Labelled(t)[i].n /\ d.births[i] = Labelled(t)[i].birth
<1> DEFINE s == Labelled(t)
           d == [surfaces |-> [i \in DOMAIN s |-> s[i].surface],
                 labels   |-> [i \in DOMAIN s |-> s[i].n],
                 births   |-> [i \in DOMAIN s |-> s[i].birth]]
<1>1. documents' = Append(documents, d)
  BY DEF Record, Labelled
<1>2. s \in Seq(S)
  BY LabelledIs
<1> HIDE DEF s
<1>3. PICK n \in Nat : n = Len(s)
  BY <1>2
<1>4. DOMAIN s = 1 .. n /\ \A i \in 1 .. n : s[i] \in S
  BY <1>2, <1>3
<1>5. Columns(d, n)
  BY <1>4 DEF Columns
<1>6. \A i \in 1 .. n : d.surfaces[i] = s[i].surface /\ d.labels[i] = s[i].n /\ d.births[i] = s[i].birth
  BY <1>4
<1> HIDE DEF d
<1> QED BY <1>1, <1>4, <1>5, <1>6 DEF s

\* A step other than record_document adds a mention to a list, or empties it.
LEMMA ListsGrow ==
    ASSUME Listed, NEW t \in Threads, UNCHANGED documents,
           \/ UNCHANGED out
           \/ out' = [out EXCEPT ![t] = << >>]
           \/ \E o : out' = [out EXCEPT ![t] = Append(@, o)]
    PROVE  Listed'
<1>1. /\ DOMAIN out = Threads /\ \A u \in Threads : \E S : out[u] \in Seq(S)
      /\ \E D : documents \in Seq(D)
      /\ \A k \in DOMAIN documents : \E n \in Nat : Columns(documents[k], n)
  BY DEF Listed
<1>2. CASE UNCHANGED out
  BY <1>1, <1>2 DEF Listed
<1>3. ASSUME NEW y, out' = [out EXCEPT ![t] = y], NEW T, y \in Seq(T)
      PROVE  Listed'
  <2>1. DOMAIN out' = Threads
    BY <1>1, <1>3
  <2>2. ASSUME NEW u \in Threads PROVE \E S : out'[u] \in Seq(S)
    <3>1. CASE u = t
      BY <1>1, <1>3, <3>1
    <3>2. CASE u # t
      BY <1>1, <1>3, <3>2
    <3> QED BY <3>1, <3>2
  <2> QED BY <1>1, <2>1, <2>2 DEF Listed
<1>4. CASE out' = [out EXCEPT ![t] = << >>]
  <2>1. << >> \in Seq({})
    OBVIOUS
  <2> QED BY <1>3, <1>4, <2>1
<1>5. ASSUME NEW o, out' = [out EXCEPT ![t] = Append(@, o)] PROVE Listed'
  <2>1. PICK S : out[t] \in Seq(S)
    BY <1>1
  <2>2. out[t] \in Seq(S \cup {o})
    BY <2>1
  <2>3. Append(out[t], o) \in Seq(S \cup {o})
    BY <2>2
  <2>4. out' = [out EXCEPT ![t] = Append(out[t], o)]
    BY <1>5
  <2> QED BY <1>3, <2>3, <2>4
<1> QED BY <1>2, <1>4, <1>5

\* The row keeps the shape of the table.
LEMMA RecordLists ==
    ASSUME Listed, NEW t \in Threads, Record(t)
    PROVE  Listed'
<1>1. PICK S : out[t] \in Seq(S)
  BY DEF Listed
<1>2. PICK D : documents \in Seq(D)
  BY DEF Listed
<1>3. PICK d : \E n \in Nat : documents' = Append(documents, d) /\ Columns(d, n)
  BY <1>1, <1>2, RecordAppends
<1>4. documents \in Seq(D \cup {d})
  BY <1>2
<1>5. documents' \in Seq(D \cup {d})
  BY <1>3, <1>4
<1>6. ASSUME NEW k \in DOMAIN documents' PROVE \E n \in Nat : Columns(documents'[k], n)
  <2>1. /\ DOMAIN documents' = 1 .. Len(documents) + 1 /\ documents'[Len(documents) + 1] = d
        /\ \A i \in 1 .. Len(documents) : documents'[i] = documents[i]
        /\ Len(documents) \in Nat /\ DOMAIN documents = 1 .. Len(documents)
    BY <1>2, <1>3
  <2>2. CASE k = Len(documents) + 1
    BY <1>3, <2>1, <2>2
  <2>3. CASE k \in 1 .. Len(documents)
    BY <2>1, <2>3 DEF Listed
  <2> QED BY <2>1, <2>2, <2>3
<1>7. out' = [out EXCEPT ![t] = << >>]
  BY DEF Record, Leave
<1>8. DOMAIN out' = Threads /\ \A u \in Threads : \E T : out'[u] \in Seq(T)
  <2>1. << >> \in Seq({}) /\ DOMAIN out = Threads
    BY DEF Listed
  <2>2. DOMAIN out' = Threads
    BY <1>7, <2>1
  <2>3. ASSUME NEW u \in Threads PROVE \E T : out'[u] \in Seq(T)
    <3>1. CASE u = t
      BY <1>7, <2>1, <3>1
    <3>2. CASE u # t
      BY <1>7, <3>2 DEF Listed
    <3> QED BY <3>1, <3>2
  <2> QED BY <2>2, <2>3
<1> QED BY <1>5, <1>6, <1>8 DEF Listed

\* A resolved mention is added at the end.
LEMMA ResolvedLists ==
    ASSUME NEW t, NEW e, Resolved(t, e)
    PROVE  \E o : out' = [out EXCEPT ![t] = Append(@, o)]
  BY DEF Resolved

\* The shape of lists and documents is kept by every step.
LEMMA ListedStays ==
    ASSUME Listed, [Next]_vars
    PROVE  Listed'
<1>1. ASSUME NEW t \in Threads, NEW d \in Texts, Start(t, d) PROVE Listed'
  BY <1>1, ListsGrow DEF Start
<1>2. ASSUME NEW t \in Threads, Found(t) PROVE Listed'
  <2>1. UNCHANGED documents /\ (UNCHANGED out \/ \E e : Resolved(t, e))
    BY <1>2 DEF Found
  <2> QED BY <2>1, ResolvedLists, ListsGrow
<1>3. ASSUME NEW t \in Threads, Missed(t) PROVE Listed'
  BY <1>3, ListsGrow DEF Missed
<1>4. ASSUME NEW t \in Threads, Candidates(t) PROVE Listed'
  BY <1>4, ListsGrow DEF Candidates
<1>5. ASSUME NEW t \in Threads, Link(t) PROVE Listed'
  <2>1. UNCHANGED documents /\ (UNCHANGED out \/ Leave(t) \/ \E e : Resolved(t, e))
    BY <1>5 DEF Link
  <2> QED BY <2>1, ResolvedLists, ListsGrow DEF Leave
<1>6. ASSUME NEW t \in Threads, SetCanonical(t) PROVE Listed'
  BY <1>6, ListsGrow DEF SetCanonical
<1>7. ASSUME NEW t \in Threads, AddSpelling(t) PROVE Listed'
  <2>1. UNCHANGED documents /\ (Leave(t) \/ \E e : Resolved(t, e))
    BY <1>7 DEF AddSpelling
  <2> QED BY <2>1, ResolvedLists, ListsGrow DEF Leave
<1>8. ASSUME NEW t \in Threads, AddEntity(t) PROVE Listed'
  <2>1. UNCHANGED documents /\ \E e : Resolved(t, e)
    BY <1>8 DEF AddEntity, NewEntity
  <2> QED BY <2>1, ResolvedLists, ListsGrow
<1>9. ASSUME NEW t \in Threads, AddRefused(t) PROVE Listed'
  BY <1>9, ListsGrow DEF AddRefused, Leave
<1>10. ASSUME NEW t \in Threads, Record(t) PROVE Listed'
  BY <1>10, RecordLists
<1>11. ASSUME UNCHANGED <<out, documents>> PROVE Listed'
  BY <1>11 DEF Listed
<1>12. ASSUME Restarted PROVE Listed'
  <2>1. out' = [t \in Threads |-> << >>] /\ UNCHANGED documents /\ << >> \in Seq({})
    BY <1>12 DEF Restarted
  <2>2. DOMAIN out' = Threads /\ \A t \in Threads : out'[t] \in Seq({})
    BY <2>1
  <2> QED BY <2>1, <2>2 DEF Listed
<1>13. ASSUME NEW n \in DOMAIN entity, SetExcluded(n) \/ DeleteEntity(n) \/ DeleteTorn(n) PROVE Listed'
  BY <1>11, <1>12, <1>13 DEF SetExcluded, DeleteEntity, DeleteTorn, request
<1>14. CASE UNCHANGED vars
  BY <1>11, <1>14 DEF vars
<1>15. CASE Restart
  BY <1>12, <1>15 DEF Restart
<1> QED BY <1>1, <1>2, <1>3, <1>4, <1>5, <1>6, <1>7, <1>8, <1>9, <1>10, <1>13, <1>14, <1>15 DEF Next

\* A bounded set of numbers has a greatest element.
LEMMA HighestIs ==
    ASSUME NEW n \in Nat, NEW S, S \subseteq 0 .. n, S # {}
    PROVE  Max(S) \in S /\ \A y \in S : y <= Max(S)
<1> DEFINE T == {z \in Nat : n - z \in S}
<1>0. \A y \in S : y \in Nat /\ n - y \in Nat /\ n - (n - y) = y
  OBVIOUS
<1>1. T \subseteq Nat /\ T # {} /\ \A y \in S : n - y \in T
  BY <1>0
<1>2. PICK d \in T : \A z \in T : d <= z
  BY <1>1, LeastElement
<1>3. PICK x \in S : x = n - d /\ d \in Nat
  BY <1>2
<1>4. \A y \in S : x >= y
  <2> TAKE y \in S
  <2>1. d <= n - y
    BY <1>1, <1>2
  <2> QED BY <1>0, <1>3, <2>1
<1>5. Max(S) \in S /\ \A y \in S : Max(S) >= y
  BY <1>4 DEF Max
<1> QED BY <1>5

\* At the start there are no documents.
LEMMA InitLists == Init => Listed
<1> SUFFICES ASSUME Init PROVE Listed
  OBVIOUS
<1>1. out = [t \in Threads |-> << >>] /\ documents = << >> /\ << >> \in Seq({})
  BY DEF Init
<1>2. DOMAIN out = Threads /\ \A t \in Threads : out[t] \in Seq({})
  BY <1>1
<1>3. DOMAIN documents = {} /\ documents \in Seq({})
  BY <1>1
<1> QED BY <1>2, <1>3 DEF Listed

\* exact_map finds a document with these labels, and the cursor of restore_unit is at i for
\* the i-th label.
LEMMA ListsRestore ==
    ASSUME Listed
    PROVE  ExactWhenUnique
<1> SUFFICES ASSUME NEW k \in DOMAIN documents, Live(k),
                    \A l \in DOMAIN documents : documents[l].labels = documents[k].labels
                                                  => documents[l].surfaces = documents[k].surfaces
             PROVE  restore(documents[k].labels) = documents[k].surfaces
  BY DEF ExactWhenUnique
<1>1. PICK D : documents \in Seq(D)
  BY DEF Listed
<1>2. PICK n \in Nat : Columns(documents[k], n)
  BY DEF Listed
<1> DEFINE labels == documents[k].labels
           spelt == documents[k].surfaces
           same == {l \in DOMAIN documents : documents[l].labels = labels}
           exact == documents[exact_map(labels)]
           cursor(i) == Cardinality({j \in 1 .. i - 1 : labels[j] \in DOMAIN entity}) + 1
<1>3. exact_map(labels) \in same
  <2>1. PICK z \in Nat : z = Len(documents)
    BY <1>1
  <2>2. DOMAIN documents = 1 .. z
    BY <1>1, <2>1
  <2>3. {0} \cup same \subseteq 0 .. z /\ {0} \cup same # {} /\ k \in same
    BY <2>2
  <2>4. exact_map(labels) = Max({0} \cup same)
    BY DEF exact_map
  <2> HIDE DEF same
  <2>5. Max({0} \cup same) \in {0} \cup same /\ k <= Max({0} \cup same)
    BY <2>3, HighestIs
  <2>6. k # 0 /\ k \in Nat
    BY <2>2
  <2> QED BY <2>4, <2>5, <2>6
<1>4. exact.labels = labels /\ exact.surfaces = spelt
  BY <1>3
<1>5. DOMAIN labels = 1 .. n /\ spelt = [i \in 1 .. n |-> spelt[i]]
  BY <1>2 DEF Columns
<1>6. \A i \in 1 .. n : labels[i] \in DOMAIN entity
  BY <1>5 DEF Live
<1>7. ASSUME NEW i \in 1 .. n PROVE cursor(i) = i
  <2> DEFINE S == {j \in 1 .. i - 1 : labels[j] \in DOMAIN entity}
  <2>1. S = 1 .. i - 1
    BY <1>6
  <2>2. Cardinality(1 .. i - 1) = i - 1
    BY FS_Interval
  <2> HIDE DEF S
  <2>3. Cardinality(S) + 1 = i
    BY <2>1, <2>2
  <2> QED BY <2>3 DEF S
<1>8. restore(labels) = [i \in DOMAIN labels |->
            IF labels[i] \notin DOMAIN entity THEN None
            ELSE IF exact.labels[cursor(i)] = labels[i] THEN exact.surfaces[cursor(i)]
            ELSE ValueOf(labels[i])]
  BY Zenon DEF restore
<1> HIDE DEF labels, spelt, exact, cursor
<1>9. restore(labels) = [i \in 1 .. n |-> spelt[i]]
  <2>1. \A i \in 1 .. n : (IF labels[i] \notin DOMAIN entity THEN None
                           ELSE IF exact.labels[cursor(i)] = labels[i] THEN exact.surfaces[cursor(i)]
                           ELSE ValueOf(labels[i])) = spelt[i]
    BY <1>4, <1>6, <1>7
  <2> QED BY <1>5, <1>8, <2>1
<1> QED BY <1>5, <1>9 DEF labels, spelt

\* ExactWhenUnique: a document that comes back unchanged is restored to the spelling of
\* every mention, when its labels are live and no other text has the same labels
\* (exact_map, restore_unit), however requests, deletions and restarts interleave.
THEOREM UnchangedIsRestored == Spec => []ExactWhenUnique
<1>1. Init => Listed
  BY InitLists
<1>2. Listed /\ [Next]_vars => Listed'
  BY ListedStays
<1>3. Listed => ExactWhenUnique
  BY ListsRestore
<1> QED BY <1>1, <1>2, <1>3, PTL DEF Spec

-----------------------------------------------------------------------------
(* Steps that write *)

\* record_document: each label that is recorded is sound.
LEMMA RecordKeeps ==
    ASSUME Undisturbed, Listed, NEW t \in Threads, Record(t)
    PROVE  Undisturbed'
<1>0. BookTyped /\ Rows /\ OneClaim /\ Memory /\ Alone /\ Recorded /\ pc[t] = "record" /\ Leave(t)
  BY DEF Undisturbed, Record
<1>1. births \in Nat /\ load \in Nat /\ UNCHANGED <<entity, variant, births, load, cached, heap, index>>
  BY <1>0 DEF BookTyped, Record, tables, memory
<1>2. Rows' /\ OneClaim' /\ Grows /\ \A x : Claims(x)' = Claims(x)
  BY <1>0, <1>1, TablesStay
<1>3. Memory'
  BY <1>0, <1>1 DEF Memory, Objects, InStep, Mirrors, Claims, VariantsOf
<1>4. BookTyped' /\ Alone'
  BY <1>0, <1>1, <1>2, LeaveKeeps
<1>5. Recorded'
  <2>1. out[t] \in Seq(Said)
    BY <1>0 DEF Alone
  <2>2. PICK D : documents \in Seq(D)
    BY DEF Listed
  <2>3. PICK d : \E n \in Nat :
            /\ documents' = Append(documents, d) /\ Columns(d, n)
            /\ \A i \in 1 .. n : /\ Labelled(t)[i] \in Said /\ d.surfaces[i] = Labelled(t)[i].surface
                                 /\ d.labels[i] = Labelled(t)[i].n /\ d.births[i] = Labelled(t)[i].birth
    BY <2>1, <2>2, RecordAppends
  <2>4. /\ DOMAIN documents' = 1 .. Len(documents) + 1 /\ documents'[Len(documents) + 1] = d
        /\ \A i \in 1 .. Len(documents) : documents'[i] = documents[i]
        /\ Len(documents) \in Nat /\ DOMAIN documents = 1 .. Len(documents)
    BY <2>2, <2>3
  <2>5. ASSUME NEW k \in DOMAIN documents', NEW i \in DOMAIN documents'[k].surfaces
        PROVE  /\ documents'[k].surfaces[i] \in Surfaces
               /\ Sound(documents'[k].labels[i], documents'[k].births[i], documents'[k].surfaces[i])
    <3>1. CASE k = Len(documents) + 1
      <4>1. documents'[k] = d
        BY <2>4, <3>1
      <4>2. DOMAIN d.surfaces = DOMAIN d.labels
        BY <2>3 DEF Columns
      <4>3. PICK o \in Said : d.surfaces[i] = o.surface /\ d.labels[i] = o.n /\ d.births[i] = o.birth
        BY <2>3, <2>5, <4>1 DEF Columns
      <4>4. o.surface \in Surfaces /\ Sound(o.n, o.birth, o.surface)
        BY DEF Said
      <4> QED BY <4>1, <4>3, <4>4
    <3>2. CASE k \in 1 .. Len(documents)
      BY <1>0, <2>4, <2>5, <3>2 DEF Recorded
    <3> QED BY <2>4, <3>1, <3>2
  <2> QED BY <1>1, <2>5 DEF Recorded, Sound, Claims, VariantsOf
<1> QED BY <1>2, <1>3, <1>4, <1>5 DEF Undisturbed

\* A restart, with the tables whole.
LEMMA RestartKeeps ==
    ASSUME Undisturbed, Restart
    PROVE  Undisturbed'
<1>0. BookTyped /\ Rows /\ OneClaim /\ Memory /\ Alone /\ Recorded
  BY DEF Undisturbed
<1>1. /\ births \in Nat /\ UNCHANGED <<entity, variant, births, documents>> /\ load' = 0 /\ cached' = FALSE
      /\ heap' = << >> /\ pc' = [t \in Threads |-> "idle"] /\ text' = [t \in Threads |-> << >>]
      /\ out' = [t \in Threads |-> << >>] /\ target' = [t \in Threads |-> None]
      /\ old' = [t \in Threads |-> None]
  BY <1>0 DEF BookTyped, Restart, Restarted, tables
<1>2. Rows' /\ OneClaim' /\ Grows
  BY <1>0, <1>1, TablesStay
<1>3. Recorded'
  BY <1>0, <1>1, <1>2, RecordedStays
<1>4. Memory'
  <2>1. DOMAIN heap' = {} /\ heap' \in [DOMAIN heap' -> Object']
    BY <1>1
  <2> QED BY <1>1, <2>1 DEF Memory, Objects
<1>5. BookTyped'
  <2>1. "idle" \in Stages /\ << >> \in Seq(Surfaces)
    BY DEF Stages
  <2> QED BY <1>1, <2>1 DEF BookTyped
<1>6. Alone'
  <2>1. << >> \in Seq(Said')
    OBVIOUS
  <2> QED BY <1>1, <2>1 DEF Alone
<1> QED BY <1>2, <1>3, <1>4, <1>5, <1>6 DEF Undisturbed

\* No request is in progress when a change of the user does not overlap any.
LEMMA ServedAlone ==
    ASSUME NEW b, Served(b), ~disturbed'
    PROVE  ~b /\ \A u \in Threads : pc[u] = "idle"
  BY DEF Served, Busy

\* A change of the tables between requests.
LEMMA QuietAlone ==
    ASSUME BookTyped, Alone, \A u \in Threads : pc[u] = "idle", Grows, UNCHANGED request, load' \in Nat
    PROVE  BookTyped' /\ Alone'
<1>1. UNCHANGED <<pc, text, out, target, old>>
  BY DEF request
<1>2. BookTyped'
  BY <1>1 DEF BookTyped, Grows
<1>3. << >> \in Seq(Said')
  OBVIOUS
<1>4. Alone'
  BY <1>1, <1>3 DEF Alone
<1> QED BY <1>2, <1>4

\* A row and its object change, but not in number, birth or normal forms.
LEMMA RowChanged ==
    ASSUME Rows, OneClaim, births \in Nat, NEW n \in DOMAIN entity, NEW r \in Row,
           r.fp = entity[n].fp, r.birth = entity[n].birth, entity' = [entity EXCEPT ![n] = r],
           UNCHANGED <<variant, births>>,
           NEW l, NEW h, NEW f, Objects(l, h), InStep(l, h, f), NEW o \in Object,
           o.n = h[<<l, n>>].n, o.fp = h[<<l, n>>].fp, o.birth = h[<<l, n>>].birth,
           o.variants = h[<<l, n>>].variants,
           load' = l, heap' = [h EXCEPT ![<<l, n>>] = o], index' = f
    PROVE  Rows' /\ OneClaim' /\ Grows /\ Memory' /\ \A x : Claims(x)' = Claims(x)
<1>1. entity \in [DOMAIN entity -> Row]
  BY DEF Rows
<1>2. /\ DOMAIN entity' = DOMAIN entity /\ entity' \in [DOMAIN entity' -> Row]
      /\ \A k \in DOMAIN entity : entity'[k].fp = entity[k].fp /\ entity'[k].birth = entity[k].birth
  BY <1>1
<1>3. Rows'
  BY <1>2 DEF Rows
<1>4. (\A k : VariantsOf(k)' = VariantsOf(k)) /\ \A x : Claims(x)' = Claims(x)
  <2>1. \A k : VariantsOf(k)' = VariantsOf(k)
    BY DEF VariantsOf
  <2> QED BY <1>2, <2>1 DEF Claims
<1>5. OneClaim' /\ Grows
  <2>1. OneClaim'
    BY <1>4 DEF OneClaim
  <2>2. Grows
    BY <1>2, <1>4 DEF Grows
  <2> QED BY <2>1, <2>2
<1>6. /\ DOMAIN h \subseteq Nat \X Nat /\ h \in [DOMAIN h -> Object] /\ \A id \in DOMAIN h : id[1] <= l
      /\ <<l, n>> \in DOMAIN h
  BY DEF Objects, InStep
<1>7. /\ DOMAIN heap' = DOMAIN h /\ heap' \in [DOMAIN heap' -> Object] /\ heap'[<<l, n>>] = o
      /\ \A id \in DOMAIN h : id # <<l, n>> => heap'[id] = h[id]
  BY <1>6
<1>8. Objects(load, heap)'
  BY <1>6, <1>7 DEF Objects
<1>9. InStep(load, heap, index)'
  <2>1. {id \in DOMAIN heap' : id[1] = load'} = {<<load', k>> : k \in DOMAIN entity'}
    BY <1>2, <1>7 DEF InStep
  <2>2. ASSUME NEW k \in DOMAIN entity' PROVE Mirrors(heap[<<load, k>>], k)'
    <3>1. Mirrors(h[<<l, k>>], k) /\ k \in DOMAIN entity
      BY <1>2 DEF InStep
    <3>2. <<l, k>> \in DOMAIN h
      BY <3>1 DEF InStep
    <3>3. /\ heap'[<<load', k>>].n = h[<<l, k>>].n /\ heap'[<<load', k>>].fp = h[<<l, k>>].fp
          /\ heap'[<<load', k>>].birth = h[<<l, k>>].birth
          /\ heap'[<<load', k>>].variants = h[<<l, k>>].variants
      BY <1>7, <3>2
    <3> QED BY <1>2, <1>4, <3>1, <3>3 DEF Mirrors
  <2>3. \A x \in Norms : Claims(x)' = IF x \in DOMAIN index' THEN {index'[x][2]} ELSE {}
    BY <1>4 DEF InStep
  <2>4. \A x \in Norms \cap DOMAIN index' : index'[x] = <<load', index'[x][2]>>
    BY DEF InStep
  <2> QED BY <2>1, <2>2, <2>3, <2>4 DEF InStep
<1> QED BY <1>3, <1>4, <1>5, <1>8, <1>9 DEF Memory

\* set_excluded, between requests.
LEMMA ExcludedKeeps ==
    ASSUME Undisturbed, NEW n \in DOMAIN entity, SetExcluded(n), ~disturbed'
    PROVE  Undisturbed'
<1>0. BookTyped /\ Rows /\ OneClaim /\ Memory /\ Alone /\ Recorded /\ births \in Nat /\ load \in Nat
  BY DEF Undisturbed, BookTyped
<1>1. PICK m \in Memories :
        /\ heap' = [m.heap EXCEPT ![<<m.load, n>>].excluded = ~@]
        /\ load' = m.load /\ index' = m.index
  BY Zenon DEF SetExcluded
<1>2. m.load \in Nat /\ Objects(m.load, m.heap) /\ InStep(m.load, m.heap, m.index)
  BY <1>0, LoadInStep
<1>3. entity' = [entity EXCEPT ![n].excluded = ~@] /\ UNCHANGED <<request, variant, documents, births>>
  BY Zenon DEF SetExcluded
<1> DEFINE r == [entity[n] EXCEPT !.excluded = ~@]
           id == <<m.load, n>>
           o == [m.heap[id] EXCEPT !.excluded = ~@]
<1>4. entity' = [entity EXCEPT ![n] = r]
  BY <1>3, Zenon
<1>5. heap' = [m.heap EXCEPT ![id] = o]
  BY <1>1, Zenon
<1>6. r \in Row /\ r.fp = entity[n].fp /\ r.birth = entity[n].birth
  <2>1. entity[n] \in Row
    BY <1>0 DEF Rows
  <2>2. r.fp = entity[n].fp /\ r.birth = entity[n].birth
    BY <2>1 DEF Row
  <2>3. r \in Row
    BY <2>1 DEF Row
  <2> QED BY <2>2, <2>3
<1>7. /\ o \in Object /\ o.n = m.heap[id].n /\ o.fp = m.heap[id].fp /\ o.birth = m.heap[id].birth
      /\ o.variants = m.heap[id].variants
  <2>1. m.heap[id] \in Object
    BY <1>2 DEF Objects, InStep
  <2>2. o.n = m.heap[id].n /\ o.fp = m.heap[id].fp /\ o.birth = m.heap[id].birth
    BY <2>1 DEF Object
  <2>3. o.variants = m.heap[id].variants
    BY <2>1 DEF Object
  <2>4. o \in Object
    BY <2>1 DEF Object
  <2> QED BY <2>2, <2>3, <2>4
<1>8. load' = m.load /\ index' = m.index /\ UNCHANGED <<request, variant, documents, births>>
  BY <1>1, <1>3, Zenon
<1> HIDE DEF r, o
<1>9. Rows' /\ OneClaim' /\ Grows /\ Memory'
  BY <1>0, <1>2, <1>4, <1>5, <1>6, <1>7, <1>8, RowChanged
<1>10. \A u \in Threads : pc[u] = "idle"
  BY ServedAlone, Zenon DEF SetExcluded
<1>11. BookTyped' /\ Alone'
  BY <1>0, <1>2, <1>8, <1>9, <1>10, QuietAlone
<1>12. Recorded'
  BY <1>0, <1>8, <1>9, RecordedStays
<1> QED BY <1>9, <1>11, <1>12 DEF Undisturbed

\* set_canonical changes the value and the parsed name, nothing else.
LEMMA CanonicalKeeps ==
    ASSUME Undisturbed, NEW t \in Threads, SetCanonical(t)
    PROVE  Undisturbed'
<1> DEFINE id == target[t]
           e == heap[id]
           x == Mention(t)
           now == Merged(meta[x], e.meta)
           r == [entity[e.n] EXCEPT !.value = x, !.meta = now]
           o == [e EXCEPT !.value = x, !.meta = now]
<1>0. /\ BookTyped /\ Rows /\ OneClaim /\ Memory /\ Alone /\ Recorded /\ births \in Nat /\ load \in Nat
      /\ pc[t] = "canonical"
  BY DEF Undisturbed, BookTyped, SetCanonical
<1>1. /\ heap' = [heap EXCEPT ![id] = o]
      /\ entity' = IF e.n \notin DOMAIN entity THEN entity ELSE [entity EXCEPT ![e.n] = r]
  BY Zenon DEF SetCanonical
<1>2. /\ old' = [old EXCEPT ![t] = e.value] /\ Goto(t, "spelling")
      /\ UNCHANGED <<text, out, target, variant, load, cached, index, documents, births>>
  BY Zenon DEF SetCanonical
<1>3. cached /\ InStep(load, heap, index) /\ Objects(load, heap)
  BY <1>0 DEF Alone, AtWork, Memory
<1>4. PICK n \in DOMAIN entity : id = <<load, n>> /\ n \in Claims(norm[x])
  BY <1>0 DEF Alone, AtWork
<1>5. e \in Object /\ e.n = n
  <2>1. id \in DOMAIN heap /\ Mirrors(e, n)
    BY <1>3, <1>4 DEF InStep
  <2> QED BY <1>3, <2>1 DEF Objects, Mirrors
<1>6. x \in Surfaces
  BY <1>0, MentionIs
<1>7. now \in Metas
  <2>1. meta[x] \in Metas /\ e.meta \in Metas
    BY <1>5, <1>6, BookAssumption DEF Object, Metas
  <2> QED BY <2>1 DEF Merged, Metas
<1>8. r \in Row /\ r.fp = entity[n].fp /\ r.birth = entity[n].birth
  <2> HIDE DEF now, x, e, id
  <2>1. entity[n] \in Row
    BY <1>0 DEF Rows
  <2>2. r = [entity[n] EXCEPT !.value = x, !.meta = now]
    BY <1>5, Zenon
  <2>3. r.fp = entity[n].fp /\ r.birth = entity[n].birth
    BY <2>1, <2>2, Zenon DEF Row
  <2>4. r \in Row
    BY <1>6, <1>7, <2>1, <2>2, Zenon DEF Row
  <2> QED BY <2>3, <2>4
<1>9. /\ o \in Object /\ o.n = e.n /\ o.fp = e.fp /\ o.birth = e.birth /\ o.variants = e.variants
  <2> HIDE DEF now, x, e, id
  <2>1. o.n = e.n /\ o.fp = e.fp /\ o.birth = e.birth
    BY <1>5, Zenon DEF Object
  <2>2. o.variants = e.variants
    BY <1>5, Zenon DEF Object
  <2>3. o \in Object
    BY <1>5, <1>6, <1>7, Zenon DEF Object
  <2> QED BY <2>1, <2>2, <2>3
<1> HIDE DEF r, o, now
<1>10. entity' = [entity EXCEPT ![n] = r]
  BY <1>1, <1>5
<1>11. Rows' /\ OneClaim' /\ Grows /\ Memory' /\ \A y : Claims(y)' = Claims(y)
  <2>1. /\ heap' = [heap EXCEPT ![<<load, n>>] = o] /\ o \in Object
        /\ o.n = heap[<<load, n>>].n /\ o.fp = heap[<<load, n>>].fp /\ o.birth = heap[<<load, n>>].birth
        /\ o.variants = heap[<<load, n>>].variants
    BY <1>1, <1>4, <1>9
  <2>2. load' = load /\ index' = index /\ UNCHANGED <<variant, births>>
    BY <1>2
  <2> HIDE DEF id, e, x
  <2> QED BY <1>0, <1>3, <1>8, <1>10, <2>1, <2>2, RowChanged
<1>12. Recorded'
  BY <1>0, <1>2, <1>11, RecordedStays
<1>13. Mention(t)' = x /\ n \in Claims(norm[x])'
  BY <1>2, <1>4, <1>11 DEF Mention
<1>14. /\ DOMAIN target' = Threads /\ DOMAIN old' = Threads /\ old'[t] \in Surfaces \cup {None}
       /\ \A u \in Threads \ {t} : old'[u] = old[u]
  BY <1>0, <1>2, <1>5 DEF BookTyped, Object
<1>15. target'[t] = <<load', n>> /\ target'[t][2] = n /\ n \in DOMAIN entity'
  BY <1>2, <1>4, <1>10
<1>16. target'[t][2] \in Claims(norm[Mention(t)])'
  BY <1>13, <1>15 DEF Claims, VariantsOf
<1>17. "spelling" \in Stages
  BY DEF Stages
<1>18. BookTyped' /\ Alone'
  BY <1>0, <1>2, <1>3, <1>11, <1>14, <1>15, <1>16, <1>17, MoveKeeps
<1> QED BY <1>11, <1>12, <1>18 DEF Undisturbed

\* add_variant of a new normal form, or of a spelling, for an entity of the cache.
LEMMA VariantAdded ==
    ASSUME Rows, OneClaim, Memory, cached, births \in Nat, load \in Nat, NEW n \in DOMAIN entity,
           NEW x \in Prints, NEW s \in Surfaces, x \in Norms => Claims(x) = {},
           AddVariant(<<load, n>>, x, s), UNCHANGED <<entity, births>>
    PROVE  /\ Rows' /\ OneClaim' /\ Grows /\ Memory' /\ load' = load /\ cached'
           /\ x \in Norms => n \in Claims(x)'
           /\ \A y \in Norms : Claims(y) \subseteq Claims(y)'
<1> DEFINE id == <<load, n>>
           e == heap[id]
           new == x # e.fp /\ x \notin DOMAIN e.variants
<1>1. /\ variant' = IF new /\ x \notin DOMAIN variant THEN Put(variant, x, [n |-> e.n, surface |-> s]) ELSE variant
      /\ heap' = IF new THEN [heap EXCEPT ![id].variants = Put(@, x, s)] ELSE heap
      /\ index' = IF new /\ cached THEN Put(index, x, id) ELSE index
      /\ load' = load /\ cached' = cached
  BY Zenon DEF AddVariant
<1>2. InStep(load, heap, index) /\ Objects(load, heap)
  BY DEF Memory
<1>3. id \in DOMAIN heap /\ Mirrors(e, n) /\ e \in Object
  BY <1>2 DEF InStep, Objects
<1>4. e.n = n /\ e.fp = entity[n].fp /\ \A y \in Norms : y \in DOMAIN e.variants <=> y \in VariantsOf(n)
  BY <1>3 DEF Mirrors
<1>5. x \in Norms => new /\ x \notin DOMAIN variant
  <2> SUFFICES ASSUME x \in Norms PROVE new /\ x \notin DOMAIN variant
    OBVIOUS
  <2>1. entity[n].fp # x /\ x \notin VariantsOf(n)
    BY DEF Claims
  <2>2. x \notin DOMAIN variant
    BY DEF Rows, Claims, VariantsOf
  <2> QED BY <1>4, <2>1, <2>2
<1> DEFINE v == Put(e.variants, x, s)
           o == [e EXCEPT !.variants = v]
<1>6. /\ o \in Object /\ o.n = e.n /\ o.fp = e.fp /\ o.birth = e.birth /\ o.variants = v
      /\ DOMAIN v = DOMAIN e.variants \cup {x}
  <2>1. e.variants \in Spellings
    BY <1>3 DEF Object
  <2>2. DOMAIN e.variants \subseteq Prints /\ e.variants \in [DOMAIN e.variants -> Surfaces]
    BY <2>1, SpellingsAre
  <2>3. DOMAIN v = DOMAIN e.variants \cup {x} /\ DOMAIN v \subseteq Prints /\ v \in [DOMAIN v -> Surfaces]
    BY <2>2 DEF Put
  <2> HIDE DEF v
  <2>4. v \in Spellings
    BY <2>3, SpellingsAre
  <2> HIDE DEF e
  <2>5. o.n = e.n /\ o.fp = e.fp /\ o.birth = e.birth
    BY <1>3, Zenon DEF Object
  <2>6. o.variants = v
    BY <1>3, Zenon DEF Object
  <2>7. o \in Object
    BY <1>3, <2>4, Zenon DEF Object
  <2> QED BY <2>3, <2>5, <2>6, <2>7
<1>7. heap' = IF new THEN [heap EXCEPT ![id] = o] ELSE heap
  BY <1>1, Zenon
<1> HIDE DEF o, v, new
<1>8. /\ DOMAIN variant' \subseteq Prints /\ variant' \in [DOMAIN variant' -> Named]
      /\ \A y \in DOMAIN variant : y \in DOMAIN variant' /\ variant'[y] = variant[y]
      /\ \A y \in DOMAIN variant' : y \in DOMAIN variant \/ (y = x /\ variant'[y].n = n)
      /\ x \in Norms => x \in DOMAIN variant' /\ variant'[x].n = n
  <2>0. DOMAIN variant \subseteq Prints /\ variant \in [DOMAIN variant -> Named]
    BY DEF Rows
  <2>1. CASE new /\ x \notin DOMAIN variant
    <3> DEFINE row == [n |-> e.n, surface |-> s]
    <3>1. row \in Named /\ row.n = n
      BY <1>4 DEF Named, Rows
    <3>2. variant' = Put(variant, x, row)
      BY <1>1, <2>1
    <3> HIDE DEF row
    <3>3. /\ DOMAIN variant' = DOMAIN variant \cup {x} /\ variant'[x] = row
          /\ \A z \in DOMAIN variant : z # x => variant'[z] = variant[z]
      BY <3>2 DEF Put
    <3>4. DOMAIN variant' \subseteq Prints /\ variant' \in [DOMAIN variant' -> Named]
      BY <2>0, <3>1, <3>2, PutIs
    <3> QED BY <2>1, <3>1, <3>3, <3>4
  <2>2. CASE ~(new /\ x \notin DOMAIN variant)
    BY <1>1, <1>5, <2>0, <2>2
  <2> QED BY <2>1, <2>2
<1>9. \A y \in Norms : \A k : y \in VariantsOf(k)' <=> y \in VariantsOf(k) \/ (y = x /\ k = n)
  BY <1>5, <1>8 DEF VariantsOf
<1>10. \A y \in Norms : \A k : k \in Claims(y)' <=> k \in Claims(y) \/ (y = x /\ k = n)
  BY <1>9 DEF Claims
<1>11. Rows'
  <2>1. \A y \in DOMAIN variant' : variant'[y].n \in DOMAIN entity'
    BY <1>8 DEF Rows
  <2> QED BY <1>8, <2>1 DEF Rows
<1>12. OneClaim' /\ Grows
  <2>1. OneClaim'
    BY <1>10 DEF OneClaim
  <2>2. Grows
    BY <1>10 DEF Grows
  <2> QED BY <2>1, <2>2
<1>13. /\ DOMAIN heap' = DOMAIN heap /\ heap' \in [DOMAIN heap -> Object]
       /\ \A k \in DOMAIN heap : k # id => heap'[k] = heap[k]
       /\ heap'[id] = IF new THEN o ELSE e
  BY <1>2, <1>3, <1>6, <1>7 DEF Objects
<1>14. Objects(load, heap)'
  BY <1>1, <1>2, <1>13 DEF Objects
<1>15. InStep(load, heap, index)'
  <2>1. {k \in DOMAIN heap' : k[1] = load'} = {<<load', k>> : k \in DOMAIN entity'}
    BY <1>1, <1>2, <1>13 DEF InStep
  <2>2. ASSUME NEW k \in DOMAIN entity' PROVE Mirrors(heap[<<load, k>>], k)'
    <3>1. Mirrors(heap[<<load, k>>], k) /\ <<load, k>> \in DOMAIN heap
      BY <1>2 DEF InStep
    <3>2. CASE k = n
      <4>1. \A y \in Norms : y \in VariantsOf(n)' <=> y \in DOMAIN heap'[id].variants
        <5>1. CASE new
          <6>1. DOMAIN heap'[id].variants = DOMAIN e.variants \cup {x}
            BY <1>6, <1>13, <5>1
          <6> QED BY <1>4, <1>9, <6>1
        <5>2. CASE ~new
          <6>1. heap'[id] = e /\ x \notin Norms
            BY <1>5, <1>13, <5>2
          <6> QED BY <1>4, <1>9, <6>1
        <5> QED BY <5>1, <5>2
      <4>2. heap'[id].n = n /\ heap'[id].fp = entity[n].fp /\ heap'[id].birth = entity[n].birth
        BY <1>3, <1>6, <1>13 DEF Mirrors
      <4> QED BY <1>1, <3>2, <4>1, <4>2 DEF Mirrors
    <3>3. CASE k # n
      <4>1. <<load, k>> # id
        BY <3>3
      <4>2. heap'[<<load, k>>] = heap[<<load, k>>]
        BY <1>13, <3>1, <4>1
      <4>3. \A y \in Norms : y \in VariantsOf(k)' <=> y \in VariantsOf(k)
        BY <1>9, <3>3
      <4> QED BY <1>1, <3>1, <4>2, <4>3 DEF Mirrors
    <3> QED BY <3>2, <3>3
  <2>3. \A y \in Norms : /\ y \in DOMAIN index' <=> y \in DOMAIN index \/ y = x
                         /\ y \in DOMAIN index' => index'[y] = IF y = x THEN id ELSE index[y]
    <3>1. CASE new
      <4>1. index' = Put(index, x, id)
        BY <1>1, <3>1, Zenon
      <4> QED BY <4>1 DEF Put
    <3>2. CASE ~new
      BY <1>1, <1>5, <3>2
    <3> QED BY <3>1, <3>2
  <2>4. ASSUME NEW y \in Norms PROVE Claims(y)' = IF y \in DOMAIN index' THEN {index'[y][2]} ELSE {}
    <3>0. Claims(y) = IF y \in DOMAIN index THEN {index[y][2]} ELSE {}
      BY <1>2 DEF InStep
    <3>1. CASE y = x
      <4>1. index'[y][2] = n /\ y \in DOMAIN index'
        BY <2>3, <3>1
      <4>2. \A k : k \in Claims(y)' <=> k = n
        BY <1>10, <3>1
      <4> QED BY <4>1, <4>2
    <3>2. CASE y # x
      <4>1. \A k : k \in Claims(y)' <=> k \in Claims(y)
        BY <1>10, <3>2
      <4> QED BY <2>3, <3>0, <3>2, <4>1
    <3> QED BY <3>1, <3>2
  <2>5. \A y \in Norms \cap DOMAIN index' : index'[y] = <<load', index'[y][2]>>
    BY <1>1, <1>2, <2>3 DEF InStep
  <2> QED BY <2>1, <2>2, <2>4, <2>5 DEF InStep
<1>16. Memory'
  BY <1>14, <1>15 DEF Memory
<1> QED BY <1>1, <1>10, <1>11, <1>12, <1>16

\* The entity a request works on.
LEMMA TargetIs ==
    ASSUME Undisturbed, NEW t \in Threads, pc[t] \in {"link", "canonical", "spelling"}
    PROVE  \E n \in DOMAIN entity :
               /\ target[t] = <<load, n>> /\ heap[target[t]].n = n /\ heap[target[t]].n \in Nat
               /\ heap[target[t]].excluded \in BOOLEAN /\ heap[target[t]].birth \in 1 .. births
               /\ pc[t] \in {"canonical", "spelling"} => n \in Claims(norm[Mention(t)])
<1>1. AtWork(t) /\ Memory /\ Rows
  BY DEF Undisturbed, Alone
<1>2. PICK n \in DOMAIN entity : target[t] = <<load, n>>
  BY <1>1 DEF AtWork
<1>3. <<load, n>> \in DOMAIN heap /\ Mirrors(heap[<<load, n>>], n) /\ heap[<<load, n>>] \in Object
  BY <1>1 DEF AtWork, Memory, InStep, Objects
<1>4. heap[<<load, n>>].excluded \in BOOLEAN /\ heap[<<load, n>>].n \in Nat
  BY <1>3 DEF Object
<1>5. heap[<<load, n>>].n = n /\ heap[<<load, n>>].birth \in 1 .. births
  BY <1>1, <1>3 DEF Mirrors, Rows
<1>6. pc[t] \in {"canonical", "spelling"} => n \in Claims(norm[Mention(t)])
  BY <1>1, <1>2 DEF AtWork
<1> QED BY <1>2, <1>4, <1>5, <1>6

\* The mention becomes an alias of the entity.
LEMMA LinkKeeps ==
    ASSUME Undisturbed, NEW t \in Threads, Link(t)
    PROVE  Undisturbed'
<1>0. /\ BookTyped /\ Rows /\ OneClaim /\ Memory /\ Alone /\ Recorded /\ births \in Nat /\ load \in Nat
      /\ pc[t] = "link" /\ cached /\ Claims(norm[Mention(t)]) = {}
  BY DEF Undisturbed, BookTyped, Link, Alone, AtWork
<1> DEFINE e == heap[target[t]]
<1>1. PICK n \in DOMAIN entity :
        /\ target[t] = <<load, n>> /\ e.n = n /\ e.n \in Nat /\ e.excluded \in BOOLEAN
        /\ e.birth \in 1 .. births
  BY <1>0, TargetIs
<1>2. PICK s \in Surfaces : s = Mention(t)
  BY <1>0, MentionIs
<1>3. AddVariant(<<load, n>>, norm[s], s) /\ UNCHANGED <<entity, documents, births>>
  BY <1>1, <1>2, Zenon DEF Link
<1>4. norm[s] \in Norms /\ norm[s] \in Prints
  BY NormOf
<1>5. /\ Rows' /\ OneClaim' /\ Grows /\ Memory' /\ load' = load /\ cached' /\ n \in Claims(norm[s])'
  BY <1>0, <1>2, <1>3, <1>4, VariantAdded
<1>6. Recorded'
  BY <1>0, <1>3, <1>5, RecordedStays
<1>7. \/ Goto(t, "canonical") /\ UNCHANGED <<text, out, target, old>>
      \/ Resolved(t, e)
  BY <1>0, Zenon DEF Link, VariantFails
<1> HIDE DEF e
<1>8. CASE Resolved(t, e)
  <2>1. e.n \in Claims(norm[s])' /\ e.birth \in 1 .. births'
    BY <1>1, <1>3, <1>5
  <2>2. BookTyped' /\ Alone'
    BY <1>0, <1>1, <1>2, <1>5, <1>8, <2>1, ResolvedKeeps
  <2> QED BY <1>5, <1>6, <2>2 DEF Undisturbed
<1>9. CASE Goto(t, "canonical") /\ UNCHANGED <<text, out, target, old>>
  <2>1. DOMAIN target = Threads /\ DOMAIN old = Threads /\ old[t] \in Surfaces \cup {None}
    BY <1>0 DEF BookTyped, Alone
  <2>2. target'[t] = <<load', n>> /\ n \in DOMAIN entity' /\ target'[t][2] = n
    BY <1>1, <1>3, <1>5, <1>9
  <2>3. Mention(t)' = s
    BY <1>2, <1>9 DEF Mention
  <2>4. target'[t][2] \in Claims(norm[Mention(t)])'
    BY <1>5, <2>2, <2>3 DEF Claims, VariantsOf
  <2>5. "canonical" \in Stages
    BY DEF Stages
  <2>6. BookTyped' /\ Alone'
    BY <1>0, <1>5, <1>9, <2>1, <2>2, <2>4, <2>5, MoveKeeps
  <2> QED BY <1>5, <1>6, <2>6 DEF Undisturbed
<1> QED BY <1>7, <1>8, <1>9

\* A spelling becomes a variant: no normal form changes hands.
LEMMA SpellingKeeps ==
    ASSUME Undisturbed, NEW t \in Threads, AddSpelling(t)
    PROVE  Undisturbed'
<1>0. /\ BookTyped /\ Rows /\ OneClaim /\ Memory /\ Alone /\ Recorded /\ births \in Nat /\ load \in Nat
      /\ pc[t] = "spelling" /\ cached /\ old[t] \in Surfaces \cup {None}
  BY DEF Undisturbed, BookTyped, AddSpelling, Alone, AtWork
<1> DEFINE e == heap[target[t]]
<1>1. PICK n \in DOMAIN entity :
        /\ target[t] = <<load, n>> /\ e.n = n /\ e.n \in Nat /\ e.excluded \in BOOLEAN
        /\ e.birth \in 1 .. births /\ n \in Claims(norm[Mention(t)])
  BY <1>0, TargetIs
<1>2. PICK x \in Surfaces : x = Mention(t)
  BY <1>0, MentionIs
<1>3. PICK s \in Surfaces : s = IF old[t] # None THEN old[t] ELSE Mention(t)
  BY <1>0, <1>2
<1>4. AddVariant(<<load, n>>, s, s) /\ UNCHANGED <<entity, documents, births>>
  BY <1>1, <1>3, Zenon DEF AddSpelling
<1>5. s \in Prints /\ s \notin Norms /\ norm[x] \in Norms
  BY NormOf
<1>6. /\ Rows' /\ OneClaim' /\ Grows /\ Memory' /\ load' = load /\ cached' /\ n \in Claims(norm[x])'
  BY <1>0, <1>1, <1>2, <1>4, <1>5, VariantAdded
<1>7. Recorded'
  BY <1>0, <1>4, <1>6, RecordedStays
<1>8. Resolved(t, e)
  BY <1>0, Zenon DEF AddSpelling, VariantFails
<1> HIDE DEF e
<1>9. e.n \in Claims(norm[x])' /\ e.birth \in 1 .. births'
  BY <1>1, <1>4, <1>6
<1>10. BookTyped' /\ Alone'
  BY <1>0, <1>1, <1>2, <1>6, <1>8, <1>9, ResolvedKeeps
<1> QED BY <1>6, <1>7, <1>10 DEF Undisturbed

\* add_entity: the number is free, and so is the normal form.
LEMMA EntityKeeps ==
    ASSUME Undisturbed, NEW t \in Threads, AddEntity(t)
    PROVE  Undisturbed'
<1>0. /\ BookTyped /\ Rows /\ OneClaim /\ Memory /\ Alone /\ Recorded /\ births \in Nat /\ load \in Nat
      /\ pc[t] = "add" /\ cached /\ Claims(norm[Mention(t)]) = {}
      /\ UNCHANGED <<variant, documents>>
  BY DEF Undisturbed, BookTyped, AddEntity, Alone, AtWork
<1>1. PICK s \in Surfaces : s = Mention(t)
  BY <1>0, MentionIs
<1>2. PICK x \in Norms : x = norm[s]
  BY NormOf
<1>3. PICK n : n = Max({0} \cup DOMAIN entity) + 1
  OBVIOUS
<1>4. n \in 1 .. births + 1 /\ n \in Nat /\ n \notin DOMAIN entity
  <2> DEFINE S == {0} \cup DOMAIN entity
  <2>1. S \subseteq 0 .. births /\ S # {}
    BY <1>0 DEF Rows
  <2>2. n = Max(S) + 1
    BY <1>3
  <2>3. DOMAIN entity \subseteq S
    OBVIOUS
  <2> HIDE DEF S
  <2>4. Max(S) \in S /\ \A y \in S : y <= Max(S)
    BY <1>0, <2>1, HighestIs
  <2>5. PICK h : h = Max(S)
    OBVIOUS
  <2>6. h \in 0 .. births /\ n = h + 1 /\ \A y \in DOMAIN entity : y <= h
    BY <2>1, <2>2, <2>3, <2>4, <2>5
  <2>7. n \notin DOMAIN entity
    BY <2>6
  <2> QED BY <1>0, <2>6, <2>7
<1> DEFINE r == [fp |-> x, value |-> s, meta |-> meta[s], excluded |-> FALSE, birth |-> births + 1]
           o == [n |-> n, fp |-> x, value |-> s, meta |-> meta[s], excluded |-> FALSE, birth |-> births + 1,
                 variants |-> << >>]
           id == <<load, n>>
<1>5. /\ entity' = Put(entity, n, r) /\ heap' = Put(heap, id, o) /\ index' = Put(index, x, id)
      /\ load' = load /\ cached' = TRUE /\ births' = births + 1 /\ Resolved(t, o)
  <2>1. PICK m \in Memories : NewEntity(t, n, m)
    BY <1>3, Zenon DEF AddEntity
  <2>2. m.load = load /\ m.heap = heap /\ m.index = index
    BY <1>0, CacheStays
  <2> QED BY <1>1, <1>2, <2>1, <2>2, Zenon DEF NewEntity
<1>6. r \in Row /\ r.fp = x /\ r.birth = births + 1
  BY <1>0, BookAssumption DEF Row, Metas
<1>7. o \in Object /\ o.n = n /\ o.fp = x /\ o.birth = births + 1 /\ DOMAIN o.variants = {} /\ o.excluded = FALSE
  <2>1. << >> \in Spellings
    <3>1. DOMAIN << >> = {} /\ << >> \in [{} -> Surfaces]
      OBVIOUS
    <3> QED BY <3>1, SpellingsAre
  <2> QED BY <1>0, <1>4, <2>1, BookAssumption DEF Object, Metas
<1> HIDE DEF r, o
<1>8. /\ DOMAIN entity' = DOMAIN entity \cup {n} /\ entity'[n] = r
      /\ \A k \in DOMAIN entity : entity'[k] = entity[k]
      /\ entity' \in [DOMAIN entity' -> Row]
  <2>1. entity \in [DOMAIN entity -> Row]
    BY <1>0 DEF Rows
  <2> QED BY <1>4, <1>5, <1>6, <2>1 DEF Put
<1>9. VariantsOf(n) = {} /\ \A k : VariantsOf(k)' = VariantsOf(k)
  BY <1>0, <1>4 DEF VariantsOf, Rows
<1>10. \A y \in Norms : \A k : k \in Claims(y)' <=> k \in Claims(y) \/ (y = x /\ k = n)
  BY <1>4, <1>6, <1>8, <1>9 DEF Claims
<1>11. Rows'
  <2>1. DOMAIN entity' \subseteq 1 .. births'
    BY <1>0, <1>4, <1>5, <1>8 DEF Rows
  <2>2. \A k \in DOMAIN entity' : entity'[k].birth \in 1 .. births'
    BY <1>0, <1>5, <1>6, <1>8 DEF Rows
  <2> QED BY <1>0, <1>8, <2>1, <2>2 DEF Rows
<1>12. OneClaim' /\ Grows
  <2>1. Claims(x) = {}
    BY <1>0, <1>1, <1>2
  <2>2. OneClaim'
    BY <1>0, <1>10, <2>1 DEF OneClaim
  <2>3. \A k \in DOMAIN entity : entity'[k].birth = entity[k].birth
    BY <1>8
  <2>4. Grows
    BY <1>0, <1>5, <1>6, <1>8, <1>10, <2>3 DEF Grows
  <2> QED BY <2>2, <2>4
<1>13. Objects(load, heap) /\ InStep(load, heap, index)
  BY <1>0 DEF Memory
<1>14. /\ DOMAIN heap' = DOMAIN heap \cup {id} /\ heap'[id] = o /\ id \notin DOMAIN heap
       /\ \A k \in DOMAIN heap : heap'[k] = heap[k]
       /\ heap' \in [DOMAIN heap' -> Object]
  <2>1. id \notin DOMAIN heap
    <3> SUFFICES ASSUME id \in DOMAIN heap PROVE FALSE
      OBVIOUS
    <3>1. id \in {<<load, k>> : k \in DOMAIN entity}
      BY <1>13 DEF InStep
    <3> QED BY <1>4, <3>1
  <2>2. heap \in [DOMAIN heap -> Object]
    BY <1>13 DEF Objects
  <2> QED BY <1>5, <1>7, <2>1, <2>2 DEF Put
<1>15. Objects(load, heap)'
  BY <1>0, <1>4, <1>5, <1>13, <1>14 DEF Objects
<1>16. InStep(load, heap, index)'
  <2>1. {k \in DOMAIN heap' : k[1] = load'} = {<<load', k>> : k \in DOMAIN entity'}
    BY <1>5, <1>8, <1>13, <1>14 DEF InStep
  <2>2. ASSUME NEW k \in DOMAIN entity' PROVE Mirrors(heap[<<load, k>>], k)'
    <3>1. CASE k = n
      <4>1. heap'[<<load', k>>] = o
        BY <1>5, <1>14, <3>1
      <4> QED BY <1>6, <1>7, <1>8, <1>9, <3>1, <4>1 DEF Mirrors
    <3>2. CASE k \in DOMAIN entity
      <4>1. Mirrors(heap[<<load, k>>], k) /\ <<load, k>> \in DOMAIN heap
        BY <1>13, <3>2 DEF InStep
      <4>2. heap'[<<load', k>>] = heap[<<load, k>>] /\ entity'[k] = entity[k]
        BY <1>5, <1>8, <1>14, <3>2, <4>1
      <4> QED BY <1>9, <4>1, <4>2 DEF Mirrors
    <3> QED BY <1>8, <3>1, <3>2
  <2>3. \A y \in Norms : /\ y \in DOMAIN index' <=> y \in DOMAIN index \/ y = x
                         /\ y \in DOMAIN index' => index'[y] = IF y = x THEN id ELSE index[y]
    BY <1>5 DEF Put
  <2>4. ASSUME NEW y \in Norms PROVE Claims(y)' = IF y \in DOMAIN index' THEN {index'[y][2]} ELSE {}
    <3>0. Claims(y) = IF y \in DOMAIN index THEN {index[y][2]} ELSE {}
      BY <1>13 DEF InStep
    <3>1. CASE y = x
      <4>1. index'[y][2] = n /\ y \in DOMAIN index'
        BY <2>3, <3>1
      <4>2. \A k : k \in Claims(y)' <=> k = n
        BY <1>0, <1>1, <1>2, <1>10, <3>1
      <4> QED BY <4>1, <4>2
    <3>2. CASE y # x
      <4>1. \A k : k \in Claims(y)' <=> k \in Claims(y)
        BY <1>10, <3>2
      <4> QED BY <2>3, <3>0, <3>2, <4>1
    <3> QED BY <3>1, <3>2
  <2>5. \A y \in Norms \cap DOMAIN index' : index'[y] = <<load', index'[y][2]>>
    BY <1>5, <1>13, <2>3 DEF InStep
  <2> QED BY <2>1, <2>2, <2>4, <2>5 DEF InStep
<1>17. Memory'
  BY <1>15, <1>16 DEF Memory
<1>18. Recorded'
  BY <1>0, <1>12, RecordedStays
<1>19. o.n \in Claims(norm[s])' /\ o.birth \in 1 .. births' /\ o.n \in Nat /\ o.excluded \in BOOLEAN
  <2>1. n \in Claims(x)'
    BY <1>10
  <2>2. n \in Claims(norm[s])'
    BY <1>2, <2>1
  <2>3. births + 1 \in 1 .. births'
    BY <1>0, <1>5
  <2> QED BY <1>4, <1>7, <2>2, <2>3
<1>20. load' \in Nat /\ cached'
  BY <1>0, <1>5
<1>21. BookTyped' /\ Alone'
  BY <1>0, <1>1, <1>5, <1>12, <1>19, <1>20, ResolvedKeeps
<1> QED BY <1>11, <1>12, <1>17, <1>18, <1>21 DEF Undisturbed

\* delete_entity, between requests.
LEMMA DeleteKeeps ==
    ASSUME Undisturbed, NEW n \in DOMAIN entity, DeleteEntity(n), ~disturbed'
    PROVE  Undisturbed'
<1>0. BookTyped /\ Rows /\ OneClaim /\ Memory /\ Alone /\ Recorded /\ births \in Nat /\ load \in Nat
  BY DEF Undisturbed, BookTyped
<1>1. /\ entity' = Without(entity, {n}) /\ variant' = Without(variant, VariantsOf(n)) /\ cached' = FALSE
      /\ heap' = Only(heap, Range(target)) /\ load' = IF DOMAIN heap' = {} THEN 0 ELSE load
      /\ UNCHANGED <<request, documents, births>>
  BY DEF DeleteEntity
<1>2. /\ DOMAIN entity' = DOMAIN entity \ {n} /\ (\A k \in DOMAIN entity' : entity'[k] = entity[k])
      /\ entity' \in [DOMAIN entity' -> Row]
  <2>1. entity \in [DOMAIN entity -> Row]
    BY <1>0 DEF Rows
  <2> QED BY <1>1, <2>1 DEF Without, Only
<1>3. /\ DOMAIN variant' = DOMAIN variant \ VariantsOf(n)
      /\ (\A y \in DOMAIN variant' : variant'[y] = variant[y])
      /\ variant' \in [DOMAIN variant' -> Named]
  <2>1. variant \in [DOMAIN variant -> Named]
    BY <1>0 DEF Rows
  <2> QED BY <1>1, <2>1 DEF Without, Only
<1>4. \A k \in DOMAIN entity' : VariantsOf(k)' = VariantsOf(k)
  BY <1>2, <1>3 DEF VariantsOf
<1>5. \A y, k : k \in Claims(y)' <=> k \in Claims(y) /\ k # n
  BY <1>2, <1>4 DEF Claims
<1>6. Rows'
  <2>1. \A y \in DOMAIN variant' : variant'[y].n \in DOMAIN entity'
    BY <1>0, <1>2, <1>3 DEF Rows, VariantsOf
  <2> QED BY <1>0, <1>1, <1>2, <1>3, <2>1 DEF Rows
<1>7. OneClaim' /\ Grows
  <2>1. OneClaim'
    BY <1>0, <1>5 DEF OneClaim
  <2>2. Grows
    <3>1. births' \in Nat /\ births <= births'
      BY <1>0, <1>1
    <3>2. ASSUME NEW k \in DOMAIN entity'
          PROVE  /\ k \in DOMAIN entity /\ entity'[k].birth = entity[k].birth
                 /\ \A y \in Norms : k \in Claims(y) => k \in Claims(y)'
      BY <1>2, <1>5
    <3> QED BY <3>1, <3>2 DEF Grows
  <2> QED BY <2>1, <2>2
<1>8. load' \in Nat /\ Memory'
  <2>1. /\ heap \in [DOMAIN heap -> Object] /\ DOMAIN heap \subseteq Nat \X Nat
        /\ \A id \in DOMAIN heap : id[1] <= load
    BY <1>0 DEF Memory, Objects
  <2>2. heap' \in [DOMAIN heap' -> Object] /\ DOMAIN heap' \subseteq DOMAIN heap
    BY <1>1, <2>1 DEF Only
  <2>3. DOMAIN heap' = {} \/ load' = load
    BY <1>1
  <2>4. load' \in Nat
    BY <1>0, <1>1
  <2>5. Objects(load, heap)'
    BY <2>1, <2>2, <2>3 DEF Objects
  <2> QED BY <1>1, <2>4, <2>5 DEF Memory
<1>9. \A u \in Threads : pc[u] = "idle"
  BY ServedAlone DEF DeleteEntity
<1>10. BookTyped' /\ Alone'
  BY <1>0, <1>1, <1>7, <1>8, <1>9, QuietAlone
<1>11. Recorded'
  BY <1>0, <1>1, <1>7, RecordedStays
<1> QED BY <1>6, <1>7, <1>8, <1>10, <1>11 DEF Undisturbed

-----------------------------------------------------------------------------
(* The labels of a project *)

BookInv == Listed /\ disturbed \in BOOLEAN /\ (~disturbed => Undisturbed)

\* At the start the tables and the memory are empty.
LEMMA InitUndisturbed == Init => BookInv
<1> SUFFICES ASSUME Init PROVE BookInv
  OBVIOUS
<1>1. /\ pc = [t \in Threads |-> "idle"] /\ text = [t \in Threads |-> << >>]
      /\ out = [t \in Threads |-> << >>] /\ target = [t \in Threads |-> None]
      /\ old = [t \in Threads |-> None] /\ entity = << >> /\ variant = << >> /\ load = 0
      /\ cached = FALSE /\ heap = << >> /\ documents = << >> /\ births = 0 /\ disturbed = FALSE
  BY DEF Init
<1>2. BookTyped
  <2>1. "idle" \in Stages /\ << >> \in Seq(Surfaces)
    BY DEF Stages
  <2> QED BY <1>1, <2>1 DEF BookTyped
<1>3. DOMAIN entity = {} /\ DOMAIN variant = {} /\ DOMAIN heap = {} /\ DOMAIN documents = {}
  BY <1>1
<1>4. Rows
  <2>1. entity \in [DOMAIN entity -> Row] /\ variant \in [DOMAIN variant -> Named]
    BY <1>1, <1>3
  <2> QED BY <1>3, <2>1 DEF Rows
<1>5. OneClaim
  BY <1>3 DEF OneClaim, Claims
<1>6. Memory
  <2>1. heap \in [DOMAIN heap -> Object]
    BY <1>1, <1>3
  <2> QED BY <1>1, <1>3, <2>1 DEF Memory, Objects
<1>7. Alone
  <2>1. << >> \in Seq(Said)
    OBVIOUS
  <2> QED BY <1>1, <2>1 DEF Alone
<1>8. Recorded
  BY <1>3 DEF Recorded
<1> QED BY <1>1, <1>2, <1>4, <1>5, <1>6, <1>7, <1>8, InitLists DEF BookInv, Undisturbed

\* Once requests have overlapped, or a deletion was cut short, this is remembered.
LEMMA StaysDisturbed ==
    ASSUME [Next]_vars, disturbed \in BOOLEAN
    PROVE  disturbed' \in BOOLEAN /\ (disturbed => disturbed')
<1>1. UNCHANGED disturbed \/ \E b \in BOOLEAN : disturbed' = (disturbed \/ b)
  <2>1. ASSUME NEW t \in Threads, NEW d \in Texts, Start(t, d)
        PROVE  \E b \in BOOLEAN : disturbed' = (disturbed \/ b)
    <3>1. disturbed' = (disturbed \/ Busy(t)) /\ Busy(t) \in BOOLEAN
      BY <2>1, Zenon DEF Start, Busy
    <3> QED BY <3>1, Zenon
  <2>2. ASSUME NEW b \in BOOLEAN, Served(b) PROVE \E c \in BOOLEAN : disturbed' = (disturbed \/ c)
    <3>1. PICK t \in Threads : disturbed' = (disturbed \/ b \/ Busy(t))
      BY <2>2, Zenon DEF Served
    <3>2. (b \/ Busy(t)) \in BOOLEAN /\ disturbed' = (disturbed \/ (b \/ Busy(t)))
      BY <3>1, Zenon DEF Busy
    <3> QED BY <3>2, Zenon
  <2>3. ASSUME NEW n \in DOMAIN entity, SetExcluded(n) \/ DeleteEntity(n) \/ DeleteTorn(n)
        PROVE  Served(FALSE) \/ Served(TRUE)
    BY <2>3, Zenon DEF SetExcluded, DeleteEntity, DeleteTorn
  <2>4. CASE UNCHANGED vars
    BY <2>4 DEF vars
  <2>5. CASE Restart
    BY <2>5 DEF Restart
  <2>6. ASSUME NEW t \in Threads,
               \/ Found(t) \/ Missed(t) \/ Candidates(t) \/ Link(t) \/ SetCanonical(t)
               \/ AddSpelling(t) \/ AddEntity(t) \/ AddRefused(t) \/ Record(t)
        PROVE  UNCHANGED disturbed
    BY <2>6, Zenon DEF Found, Missed, Candidates, Link, SetCanonical, AddSpelling, AddEntity, AddRefused, Record
  <2> QED BY <2>1, <2>2, <2>3, <2>4, <2>5, <2>6, Zenon DEF Next
<1> QED BY <1>1, Zenon

\* Nothing happens.
LEMMA StutterKeeps ==
    ASSUME Undisturbed, UNCHANGED vars
    PROVE  Undisturbed'
<1>0. /\ BookTyped /\ Rows /\ OneClaim /\ Memory /\ Alone /\ Recorded /\ births \in Nat
      /\ UNCHANGED <<pc, text, out, target, old>> /\ UNCHANGED <<entity, variant, births, documents>>
      /\ UNCHANGED <<load, cached, heap, index>>
  BY DEF Undisturbed, BookTyped, vars
<1>1. Rows' /\ OneClaim' /\ Grows /\ \A x : Claims(x)' = Claims(x)
  BY <1>0, TablesStay
<1>2. BookTyped' /\ Recorded'
  BY <1>0, <1>1, RecordedStays DEF BookTyped
<1>3. Memory'
  BY <1>0 DEF Memory, Objects, InStep, Mirrors, Claims, VariantsOf
<1>4. \A t \in Threads : AtWork(t)' <=> AtWork(t)
  BY <1>0 DEF AtWork, Mention, Claims, VariantsOf
<1>5. \A t \in Threads : out'[t] \in Seq(Said')
  <2>1. \A t \in Threads : out[t] \in Seq(Said)
    BY <1>0 DEF Alone
  <2>2. Said \subseteq Said'
    BY <1>0, <1>1, SaidStays
  <2> QED BY <1>0, <2>1, <2>2
<1>6. Alone'
  BY <1>0, <1>4, <1>5 DEF Alone
<1> QED BY <1>1, <1>2, <1>3, <1>6 DEF Undisturbed

\* The invariant is inductive: one step per action.
LEMMA BookInvStays ==
    ASSUME BookInv, [Next]_vars
    PROVE  BookInv'
<1>1. Listed' /\ disturbed' \in BOOLEAN /\ (disturbed => disturbed')
  BY ListedStays, StaysDisturbed DEF BookInv
<1>2. ASSUME ~disturbed' PROVE Undisturbed'
  <2>0. Undisturbed /\ Listed /\ ~disturbed'
    BY <1>1, <1>2, Zenon DEF BookInv
  <2>1. ASSUME NEW t \in Threads, NEW d \in Texts, Start(t, d) PROVE Undisturbed'
    BY <2>0, <2>1, StartKeeps
  <2>2. ASSUME NEW t \in Threads, Found(t) PROVE Undisturbed'
    BY <2>0, <2>2, FoundKeeps
  <2>3. ASSUME NEW t \in Threads, Missed(t) PROVE Undisturbed'
    BY <2>0, <2>3, MissedKeeps
  <2>4. ASSUME NEW t \in Threads, Candidates(t) PROVE Undisturbed'
    BY <2>0, <2>4, CandidatesKeep
  <2>5. ASSUME NEW t \in Threads, Link(t) PROVE Undisturbed'
    BY <2>0, <2>5, LinkKeeps
  <2>6. ASSUME NEW t \in Threads, SetCanonical(t) PROVE Undisturbed'
    BY <2>0, <2>6, CanonicalKeeps
  <2>7. ASSUME NEW t \in Threads, AddSpelling(t) PROVE Undisturbed'
    BY <2>0, <2>7, SpellingKeeps
  <2>8. ASSUME NEW t \in Threads, AddEntity(t) PROVE Undisturbed'
    BY <2>0, <2>8, EntityKeeps
  <2>9. ASSUME NEW t \in Threads, AddRefused(t) PROVE Undisturbed'
    BY <2>0, <2>9, AddRefusedKeeps
  <2>10. ASSUME NEW t \in Threads, Record(t) PROVE Undisturbed'
    BY <2>0, <2>10, RecordKeeps
  <2>11. ASSUME NEW n \in DOMAIN entity, SetExcluded(n) PROVE Undisturbed'
    BY <2>0, <2>11, ExcludedKeeps
  <2>12. ASSUME NEW n \in DOMAIN entity, DeleteEntity(n) PROVE Undisturbed'
    BY <2>0, <2>12, DeleteKeeps
  <2>13. ASSUME NEW n \in DOMAIN entity, DeleteTorn(n) PROVE Undisturbed'
    BY <2>0, <2>13, ServedAlone, Zenon DEF DeleteTorn
  <2>14. CASE Restart
    BY <2>0, <2>14, RestartKeeps
  <2>15. CASE UNCHANGED vars
    BY <2>0, <2>15, StutterKeeps
  <2> QED BY <2>1, <2>2, <2>3, <2>4, <2>5, <2>6, <2>7, <2>8, <2>9, <2>10, <2>11, <2>12, <2>13, <2>14, <2>15
          DEF Next
<1> QED BY <1>1, <1>2, Zenon DEF BookInv

\* A label of a document that is live belongs to the entity that has the normal form.
LEMMA LiveClaims ==
    ASSUME Listed, Recorded, NEW k \in DOMAIN documents, Live(k), NEW i \in DOMAIN documents[k].surfaces
    PROVE  /\ documents[k].surfaces[i] \in Surfaces
           /\ documents[k].labels[i] \in Claims(norm[documents[k].surfaces[i]])
<1>1. i \in DOMAIN documents[k].labels
  BY DEF Listed, Columns
<1>2. /\ documents[k].labels[i] \in DOMAIN entity
      /\ entity[documents[k].labels[i]].birth = documents[k].births[i]
  BY <1>1 DEF Live
<1> QED BY <1>2 DEF Recorded, Sound

\* SameValueSameLabel: while requests are served one at a time, two mentions with one normal
\* form have one label in any two documents whose labels are live (_resolve), through aliases,
\* better spellings, exclusions, deletions and restarts.
THEOREM OneValueOneLabel == Spec => []SameValueSameLabel
<1>1. Init => BookInv
  BY InitUndisturbed
<1>2. BookInv /\ [Next]_vars => BookInv'
  BY BookInvStays
<1>3. BookInv => SameValueSameLabel
  <2> SUFFICES ASSUME BookInv, ~disturbed, NEW k \in DOMAIN documents, NEW l \in DOMAIN documents,
                      Live(k), Live(l), NEW i \in DOMAIN documents[k].surfaces,
                      NEW j \in DOMAIN documents[l].surfaces,
                      norm[documents[k].surfaces[i]] = norm[documents[l].surfaces[j]]
               PROVE  documents[k].labels[i] = documents[l].labels[j]
    BY DEF SameValueSameLabel
  <2>1. Listed /\ Recorded /\ OneClaim
    BY DEF BookInv, Undisturbed
  <2>2. /\ documents[k].surfaces[i] \in Surfaces
        /\ documents[k].labels[i] \in Claims(norm[documents[k].surfaces[i]])
        /\ documents[l].labels[j] \in Claims(norm[documents[l].surfaces[j]])
    BY <2>1, LiveClaims
  <2>3. norm[documents[k].surfaces[i]] \in Norms
    BY <2>2, NormOf
  <2> QED BY <2>1, <2>2, <2>3 DEF OneClaim
<1> QED BY <1>1, <1>2, <1>3, PTL DEF Spec

\* RestartKeepsLabels: while requests are served one at a time, the index that add_entity and
\* add_variant keep up in memory answers as the one _load would build from the tables.
THEOREM IndexIsTables == Spec => []RestartKeepsLabels
<1>1. Init => BookInv
  BY InitUndisturbed
<1>2. BookInv /\ [Next]_vars => BookInv'
  BY BookInvStays
<1>3. BookInv => RestartKeepsLabels
  BY DEF BookInv, Undisturbed, Memory, InStep, RestartKeepsLabels
<1> QED BY <1>1, <1>2, <1>3, PTL DEF Spec
=============================================================================
