------------------------------ MODULE TextUnits ------------------------------
(***************************************************************************)
(* What desktop/engine.py and desktop/formats.py compute about one piece of *)
(* text: the replacements of a text, the same replacements on the separate  *)
(* runs of a paragraph, and the cells of a CSV file.                        *)
(*                                                                          *)
(* A text is a sequence of characters; positions count from 0, as in the    *)
(* code, and a span is [start, end).  The rendered form of a label is one   *)
(* character.                                                               *)
(***************************************************************************)
EXTENDS Integers, Sequences, SequencesExt, FiniteSets, FiniteSetsExt

Newline == "\n"
Return  == "\r"
Quote   == "\""
Comma   == ","

None == "none"

Blanks == {" ", Newline, Return}

\* t[i:j] of the code.
Cut(t, i, j) == SubSeq(t, i + 1, j)

Strip(t) ==
    LET solid == {i \in DOMAIN t : t[i] \notin Blanks}
    IN  IF solid = {} THEN << >> ELSE SubSeq(t, Min(solid), Max(solid))

-----------------------------------------------------------------------------
(* Replacements *)

RightToLeft(reps) == SetToSortSeq(reps, LAMBDA r, s : r.start > s.start)

LeftToRight(reps) == SetToSortSeq(reps, LAMBDA r, s : r.start < s.start)

apply_replacements(text, reps) ==
    FoldLeft(LAMBDA out, r : Cut(out, 0, r.start) \o r.new \o Cut(out, r.end, Len(out)),
             text, RightToLeft(reps))

\* Where node i begins in the joined text.
NodeStart(texts, i) == Len(FlattenSeq(SubSeq(texts, 1, i - 1)))

\* One replacement on the nodes: the new text goes to the node the span starts
\* in, and the rest of the span is cut from the nodes after it.
PutInNodes(texts, r) ==
    LET start == [i \in DOMAIN texts |-> NodeStart(texts, i)]
        holds == {i \in DOMAIN texts : start[i] <= r.start /\ r.start < start[i] + Len(texts[i])}
        first == Min(holds)
        keep(i) == Cut(texts[i], Min({r.end - start[i], Len(texts[i])}), Len(texts[i]))
    IN  IF holds = {} THEN texts
        ELSE [i \in DOMAIN texts |->
                 CASE i < first \/ start[i] >= r.end -> texts[i]
                   [] i = first -> Cut(texts[i], 0, r.start - start[i]) \o r.new \o keep(i)
                   [] OTHER     -> keep(i)]

\* The mutant of apply_to_nodes that writes the whole new text into the first node.
AllInFirst(texts, reps) ==
    [i \in DOMAIN texts |-> IF i = 1 THEN apply_replacements(FlattenSeq(texts), reps) ELSE << >>]

apply_to_nodes(texts, reps) == FoldLeft(PutInNodes, texts, RightToLeft(reps))

-----------------------------------------------------------------------------
(* CSV *)

Stops(delim) == {delim, Newline, Return}

\* The first position from i on at which a cell ends.
CellStop(text, i, delim) ==
    Min({j \in i .. Len(text) : j < Len(text) => text[j + 1] \in Stops(delim)} \cup {Max({i, Len(text)})})

\* The closing quote of a cell whose content begins at i: doubled quotes are
\* content, and a cell that is never closed ends with the text.
ClosingQuote(text, i) ==
    LET n == Len(text)
        close[j \in i .. n] ==
            CASE j = n -> n
              [] j < n /\ text[j + 1] # Quote -> close[j + 1]
              [] OTHER -> IF j + 1 < n /\ text[j + 2] = Quote THEN close[j + 2] ELSE j
    IN  close[i]

\* The cell that begins at i, and where the scanner is after it.
CellAt(text, i, delim) ==
    IF i < Len(text) /\ text[i + 1] = Quote
    THEN LET j == ClosingQuote(text, i + 1)
         IN  [start |-> i + 1, end |-> j, quoted |-> TRUE, stop |-> CellStop(text, j + 1, delim)]
    ELSE LET j == CellStop(text, i, delim)
         IN  [start |-> i, end |-> j, quoted |-> FALSE, stop |-> j]

\* The scanner after the separator at i: a delimiter, or a line break of one or two characters.
AfterStop(text, i) ==
    IF text[i + 1] = Return /\ i + 1 < Len(text) /\ text[i + 2] = Newline THEN i + 2 ELSE i + 1

\* Rows that begin with cell c and go on with the rows after it.
AddCell(c, rows, sameRow) ==
    IF sameRow THEN <<<<c>> \o Head(rows)>> \o Tail(rows) ELSE << <<c>> >> \o rows

\* _csv_cells: the rows of a text.
csv_rows(text, delim) ==
    LET n == Len(text)
        cell == [i \in 0 .. n |-> CellAt(text, i, delim)]
        from[i \in 0 .. n] ==
            LET stop == cell[i].stop
            IN  IF stop >= n \/ (text[stop + 1] # delim /\ AfterStop(text, stop) = n) THEN << <<cell[i]>> >>
                ELSE AddCell(cell[i], from[AfterStop(text, stop)], text[stop + 1] = delim)
    IN  from[0]

\* s.replace('""', '"').
Unquoted(s) ==
    LET n == Len(s)
        from[i \in 1 .. n + 1] ==
            IF i > n THEN << >>
            ELSE <<s[i]>> \o from[IF s[i] = Quote /\ i < n /\ s[i + 1] = Quote THEN i + 2 ELSE i + 1]
    IN  from[1]

\* s.replace('"', '""').
Doubled(s) == FlattenSeq([i \in DOMAIN s |-> IF s[i] = Quote THEN <<Quote, Quote>> ELSE <<s[i]>>])

CellValue(text, c) ==
    LET s == Cut(text, c.start, c.end) IN IF c.quoted THEN Unquoted(s) ELSE s

\* The mutant of CellText that forgets a line break in a value of an unquoted cell.
BreaksRow(c, val, new) ==
    IF c.quoted THEN Doubled(new)
    ELSE IF Quote \in ToSet(new) \/ (Comma \in ToSet(new) /\ Comma \notin ToSet(val))
         THEN <<Quote>> \o Doubled(new) \o <<Quote>>
         ELSE new

\* The raw text of a cell whose value val becomes new.
CellText(c, val, new) ==
    IF c.quoted THEN Doubled(new)
    ELSE IF \/ \E ch \in {Quote, Newline, Return} : ch \in ToSet(new)
            \/ Comma \in ToSet(new) /\ Comma \notin ToSet(val)
         THEN <<Quote>> \o Doubled(new) \o <<Quote>>
         ELSE new
===============================================================================
