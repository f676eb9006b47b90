------------------------------ MODULE MergeSpans ------------------------------
(***************************************************************************)
(* Overlap resolution between detection passes: merge_spans of              *)
(* redaction/merge.py.                                                      *)
(*                                                                          *)
(* The input is a list of spans; one step takes the next span in sort order *)
(* through the loop over the spans kept so far.  A span is known by its     *)
(* index in the input, so duplicates stay apart; its score and the rank of  *)
(* its source are small naturals.                                           *)
(***************************************************************************)
EXTENDS Integers, Sequences, FiniteSets, SequencesExt

CONSTANTS
    Positions,   \* offsets into the text, consecutive naturals
    Scores,      \* values of EntitySpan.score
    Ranks,       \* values of _source_rank
    MaxSpans     \* bound on the length of the input

ASSUME SpanAssumption ==
    Positions \subseteq Int /\ Scores \subseteq Int /\ Ranks \subseteq Int /\ MaxSpans \in Nat

Span == {s \in [start : Positions, end : Positions, score : Scores, rank : Ranks] : s.start < s.end}

VARIABLES
    spans,   \* the input
    todo,    \* indices not yet processed
    kept,    \* indices accepted so far
    done     \* the result has been returned

mergeVars == <<spans, todo, kept, done>>

Length(s) == s.end - s.start
overlaps(a, b) == a.start < b.end /\ b.start < a.end

\* Lexicographic >= on the key of _better.
BetterOrEqual(a, b) ==
    \/ a.score > b.score
    \/ a.score = b.score /\ Length(a) > Length(b)
    \/ a.score = b.score /\ Length(a) = Length(b) /\ a.rank >= b.rank

\* The sort of the input is stable: by start, then best first, then in input order.
Before(i, j) ==
    LET a == spans[i]
        b == spans[j]
    IN  \/ a.start < b.start
        \/ a.start = b.start /\ BetterOrEqual(a, b) /\ ~BetterOrEqual(b, a)
        \/ a.start = b.start /\ BetterOrEqual(a, b) /\ BetterOrEqual(b, a) /\ i <= j

MergeInit ==
    /\ spans \in UNION {[1 .. n -> Span] : n \in 0 .. MaxSpans}
    /\ todo = DOMAIN spans
    /\ kept = << >>
    /\ done = FALSE

\* The scan from the tail stops at a kept span that ends before s (break) or
\* that s does not beat (drop); every overlapping span it passes is popped.
Stop(s) ==
    Max({0} \cup {k \in DOMAIN kept :
                     \/ spans[kept[k]].end <= s.start
                     \/ overlaps(spans[kept[k]], s) /\ BetterOrEqual(spans[kept[k]], s)})

\* Mutant: a scan that breaks off counts as lost.
DroppedAtBreak(s) == Stop(s) > 0

Dropped(s) == Stop(s) > 0 /\ spans[kept[Stop(s)]].end > s.start

Survivors(s) ==
    FlattenSeq([k \in DOMAIN kept |->
        IF k <= Stop(s) \/ ~overlaps(spans[kept[k]], s) THEN <<kept[k]>> ELSE << >>])

\* list.sort, which is stable.
Sorted(list, Less(_, _)) ==
    LET rank(i) == Cardinality({j \in DOMAIN list :
                       Less(list[j], list[i]) \/ (j <= i /\ ~Less(list[i], list[j]))})
    IN  [p \in DOMAIN list |-> list[CHOOSE i \in DOMAIN list : rank(i) = p]]

\* Its keys: start, and start and end.
ByStart(a, b) == spans[a].start < spans[b].start
ByStartAndEnd(a, b) ==
    ByStart(a, b) \/ (spans[a].start = spans[b].start /\ spans[a].end < spans[b].end)

\* Mutant: the first overlapping span kept decides, whether or not it wins.
TakeFirstCome(i) ==
    /\ i \in todo /\ \A j \in todo : Before(i, j)
    /\ todo' = todo \ {i}
    /\ kept' = IF \E k \in DOMAIN kept : overlaps(spans[kept[k]], spans[i]) THEN kept
               ELSE Append(kept, i)
    /\ UNCHANGED <<spans, done>>

\* Mutant: the span it beats is left in the list.
TakeWithoutPop(i) ==
    /\ i \in todo /\ \A j \in todo : Before(i, j)
    /\ todo' = todo \ {i}
    /\ kept' = IF Dropped(spans[i]) THEN kept ELSE Append(kept, i)
    /\ UNCHANGED <<spans, done>>

\* One iteration of the loop over the sorted input.
Take(i) ==
    LET s == spans[i]
    IN  /\ i \in todo /\ \A j \in todo : Before(i, j)
        /\ todo' = todo \ {i}
        /\ kept' = IF Dropped(s) THEN Survivors(s)
                   ELSE IF Survivors(s) # kept THEN Sorted(Append(Survivors(s), i), ByStart)
                   ELSE Append(kept, i)
        /\ UNCHANGED <<spans, done>>

Return ==
    /\ todo = {} /\ ~done
    /\ kept' = Sorted(kept, ByStartAndEnd)
    /\ done' = TRUE
    /\ UNCHANGED <<spans, todo>>

MergeNext == (\E i \in todo : Take(i)) \/ Return

MergeSpec == MergeInit /\ [][MergeNext]_mergeVars

-----------------------------------------------------------------------------
(* Properties *)

\* i wins against j: better, or equal and met first.
Beats(i, j) ==
    /\ BetterOrEqual(spans[i], spans[j])
    /\ BetterOrEqual(spans[j], spans[i]) => Before(i, j)

Kept == {kept[k] : k \in DOMAIN kept}

\* At every step, not only at the end, the list is sorted and free of overlaps:
\* the scan relies on it when it breaks off at the first span that ends before
\* the new one (merge_spans: "because kept stays start-sorted and end-bounded").
CleanList ==
    \A k, l \in DOMAIN kept : k < l => spans[kept[k]].end <= spans[kept[l]].start

\* A span that wins against everything it overlaps is in the result, whatever
\* became of the spans that lost to it and in whichever order they came.
LocalBestKept ==
    done => \A i \in DOMAIN spans :
                (\A j \in DOMAIN spans \ {i} :
                     overlaps(spans[i], spans[j]) => Beats(i, j)) => i \in Kept

\* No span is lost but to an overlapping one that beats it.
DropsHaveReason ==
    \A i \in DOMAIN spans \ (todo \cup Kept) :
        \E j \in DOMAIN spans \ {i} : overlaps(spans[i], spans[j]) /\ Beats(j, i)
===============================================================================
