------------------------------ MODULE Documents ------------------------------
(***************************************************************************)
(* One document through the desktop app: anonymize_file and restore_file of *)
(* desktop/pipeline.py over the handlers of desktop/formats.py.             *)
(*                                                                          *)
(* A handler walks the text units of a file (a text, a table cell, a        *)
(* paragraph, a page, a metadata field) in a fixed order, calls a function  *)
(* for each and writes the replacements it returns back into the file.      *)
(* Anonymizing records the spellings it replaced, in that order; restoring  *)
(* walks the returned file and consumes the record with a cursor.           *)
(*                                                                          *)
(* What a recognizer finds is given: every longest run of Letters, which may *)
(* go over a line break.  What a column with a header adds to it is modelled *)
(* (forced); the extra tests of the categories VAT and DOB are not.          *)
(*                                                                          *)
(* A file is                                                                *)
(*   "text"  [enc, text]      "csv"  [enc, text, delim]                     *)
(*   "ooxml" [parts]          (see OoxmlParts)                              *)
(*   "pdf"   [pages, meta]                                                  *)
(*   "image" the same, as converted by _to_pdf.                             *)
(* The bytes of a text are the text and the encoding it was written in; what *)
(* a pass reads in them is decode_text.  A page has the lines of its text    *)
(* layer, each a list of spans [text, color, over] (a block ends with an     *)
(* empty line), and, if it has a picture, the text that can be read on the   *)
(* page when it is rendered.  On such a page a span lies over the same text  *)
(* of the picture, from position over on, or over nothing readable (Nowhere).*)
(***************************************************************************)
EXTENDS OoxmlParts

CONSTANTS
    Files,       \* files to anonymize, as they were written
    Answers,     \* other files with labels that may be given to restore
    Letters,     \* characters of values
    Digits,      \* digits
    WordChars,   \* letters, digits and labels: \w of a regular expression
    Hyphens,     \* _HYPHEN
    LegalForms,  \* "LLC" and the like, one character each
    TraderMarks, \* what stands before the name of a sole trader
    NonAscii,    \* characters outside of ASCII
    CharsOf,     \* CharsOf[e]: those the 8-bit encoding e has
    AsCp1251,    \* what the bytes of cp1252 mean in cp1251, where they mean something
    Delimiters,  \* what csv.Sniffer may find, beside the comma
    Labels,      \* rendered labels
    LabelOf(_,_),\* the label of the entity a spelling of a category belongs to
    Categories,  \* the categories the user wants replaced
    TaxCode,     \* TaxCode[n]: what a tax code with n digits is
    NeedsDigits, \* NeedsDigits[c]: digits a cell of category c must have
    Excluded,    \* labels of the entities the user has excluded
    ValueOf,     \* ValueOf[l]: the canonical value of the entity of label l
    Deletable,   \* labels whose entity may be deleted before a file is given back
    MIN_TEXT     \* a page with less text and a picture is a scan: 20 in the code

Nowhere == -1

ASSUME DocumentAssumption ==
    /\ MIN_TEXT \in Nat /\ HEADER_ROWS \in Nat
    /\ Deletable \subseteq DOMAIN ValueOf /\ DOMAIN ValueOf \subseteq Labels
    /\ Letters \cup Digits \cup Labels \subseteq WordChars

VARIABLES
    file,      \* the file that was anonymized
    data,      \* the file the pass reads
    out,       \* the file it writes
    raw,       \* replacements in the raw text of a CSV file, applied at its end
    pass,      \* "anonymize", "delivered", "units", "restore", "done", "refused"
    todo,      \* units of data the pass has still to visit
    recorded,  \* labels and the spellings they replaced: the restore map of the document
    known,     \* labels that have an entity
    exact,     \* the restore map the file was recognised by, or << >>
    cursor,    \* entries of it that are used up
    wanted,    \* observed: what each visited unit shall read, in order
    sent       \* observed: the anonymized file

vars == <<file, data, out, raw, pass, todo, recorded, known, exact, cursor, wanted, sent>>

-----------------------------------------------------------------------------
(* Detection and labels *)

HasLabel(text) == \E i \in DOMAIN text : text[i] \in Labels

\* A label is not one after a word character or a hyphen, nor before a word character.
find_labels(text) ==
    SelectSeq([i \in DOMAIN text |-> i],
        LAMBDA i : /\ text[i] \in Labels
                   /\ i > 1 => text[i - 1] \notin WordChars \cup Hyphens
                   /\ i < Len(text) => text[i + 1] \notin WordChars)

Span(s, e, cat) == [start |-> s, end |-> e, cat |-> cat]

Overlap(s, t) == s.start < t.end /\ t.start < s.end

Mentions(text) ==
    LET n == Len(text)
        solid(s, e) == /\ text[s + 1] \in Letters /\ text[e] \in Letters
                       /\ \A i \in s + 1 .. e : text[i] \in Letters \cup {Newline}
        runs == {p \in (0 .. n) \X (0 .. n) : p[1] < p[2] /\ solid(p[1], p[2])}
    IN  {Span(p[1], p[2], "PERSON") :
            p \in {q \in runs : ~\E r \in runs : r # q /\ r[1] <= q[1] /\ q[2] <= r[2]}}

Count(text, S) == Cardinality({i \in DOMAIN text : text[i] \in S})

\* detect_companies: names with a blank and a legal form after them.
Companies(text) ==
    {Span(m.start, m.end, "ORG") : m \in {q \in Mentions(text) :
        q.end + 2 <= Len(text) /\ text[q.end + 1] = " " /\ text[q.end + 2] \in LegalForms}}

\* _SOLE_TRADER.search: the first name with a mark before it.
Traders(text) ==
    LET marked == {m \in Mentions(text) : /\ m.start >= 2
                                          /\ text[m.start] = " " /\ text[m.start - 1] \in TraderMarks}
    IN  {m \in marked : \A q \in marked : m.start <= q.start}

classify_party(text) ==
    IF Count(text, LegalForms) > 0 \/ (Traders(text) = {} /\ ~ToSet(text) \subseteq Letters \cup Blanks)
    THEN "ORG" ELSE "PERSON"

\* _forced: the whole cell without the blanks around it, unless its category
\* says otherwise.  Of a party with a legal form only the name is taken.
forced(text, force) ==
    LET solid == {i \in DOMAIN text : text[i] \notin Blanks}
        whole(cat) == {Span(Min(solid) - 1, Max(solid), cat)}
        party == IF classify_party(text) = "ORG" THEN Companies(text) ELSE Traders(text)
        digits == Count(text, Digits)
    IN  CASE force = None -> {}
          [] force = "PARTY" -> IF party # {} THEN party ELSE whole(classify_party(text))
          [] force = "TAXCODE" -> IF digits \in DOMAIN TaxCode THEN whole(TaxCode[digits]) ELSE {}
          [] force \in DOMAIN NeedsDigits -> IF digits >= NeedsDigits[force] THEN whole(force) ELSE {}
          [] OTHER -> whole(force)

\* The span without the blanks before it and the blanks and punctuation after it.
Trimmed(text, s) ==
    LET first == {i \in s.start + 1 .. s.end : text[i] \notin Blanks}
        last == {i \in first : text[i] \notin {Comma, ";", ":"}}
    IN  IF last = {} THEN {} ELSE {Span(Min(first) - 1, Max(last), s.cat)}

\* Categories the user has not asked for, and spans that overlap a label, are
\* dropped; merge_spans then prefers what the column says.
detect(text, force) ==
    LET mine == {s \in forced(text, force) :
                    /\ s.cat \in Categories
                    /\ \A i \in ToSet(find_labels(text)) : ~(s.start < i /\ i <= s.end)}
        column == UNION {Trimmed(text, s) : s \in mine}
    IN  IF Strip(text) = << >> THEN {}
        ELSE column \cup {m \in Mentions(text) : /\ m.cat \in Categories
                                                 /\ \A s \in column : ~Overlap(m, s)}

LabelAt(text, s) == LabelOf(s.cat, Cut(text, s.start, s.end))

\* anonymize_unit.
AnonymizeReps(text, force) ==
    {[start |-> s.start, end |-> s.end, new |-> <<LabelAt(text, s)>>,
      surface |-> Cut(text, s.start, s.end)] :
        s \in {d \in detect(text, force) : LabelAt(text, d) \notin Excluded}}

LabelSequence(texts) ==
    FlattenSeq([i \in DOMAIN texts |-> LET at == find_labels(texts[i])
                                       IN  [k \in DOMAIN at |-> texts[i][at[k]]]])

RecordedLabels == [i \in DOMAIN recorded |-> recorded[i].label]

\* The replacements of the known labels of a text, given the value of each.
PutBack(text, value(_, _)) ==
    LET hits == SelectSeq(find_labels(text), LAMBDA i : text[i] \in known)
    IN  {[start |-> hits[k] - 1, end |-> hits[k], new |-> value(k, text[hits[k]]), surface |-> <<text[hits[k]]>>] :
            k \in DOMAIN hits}

\* The mutant of RestoreReps that looks at the record from its beginning for each unit.
RestoreFromStart(text) ==
    PutBack(text, LAMBDA k, l : IF k <= Len(exact) /\ exact[k].label = l THEN exact[k].surface ELSE ValueOf[l])

\* restore_unit: known labels in order, each with the recorded spelling if the
\* record at the cursor is about that label.
RestoreReps(text) ==
    PutBack(text, LAMBDA k, l : IF cursor + k <= Len(exact) /\ exact[cursor + k].label = l
                                THEN exact[cursor + k].surface ELSE ValueOf[l])

-----------------------------------------------------------------------------
(* Plain text and CSV *)

\* encode_text: UTF-16 is written in the byte order of the machine, and a text
\* the encoding has no characters for as UTF-8 with a mark.
encode_text(text, enc) ==
    CASE enc = "utf-16-be" -> "utf-16-le"
      [] enc \in DOMAIN CharsOf /\ ~(ToSet(text) \cap NonAscii \subseteq CharsOf[enc]) -> "utf-8-sig"
      [] OTHER -> enc

\* decode_text: what the bytes look like.  ASCII is UTF-8 whatever it was written
\* as, and cp1252 is taken for cp1251 unless a byte has no meaning there.
decode_text(text, enc) ==
    LET high == ToSet(text) \cap NonAscii
    IN  CASE enc \in DOMAIN CharsOf /\ high = {} -> [text |-> text, enc |-> "utf-8"]
          [] enc = "cp1252" /\ high # {} /\ high \subseteq DOMAIN AsCp1251 ->
                [text |-> [i \in DOMAIN text |-> IF text[i] \in high THEN AsCp1251[text[i]] ELSE text[i]],
                 enc |-> "cp1251"]
          [] OTHER -> [text |-> text, enc |-> enc]

\* What csv.Sniffer may make of a text: a delimiter that occurs in it, or it
\* gives up and the comma is taken.
Sniffed(text) == {Comma} \cup (Delimiters \cap ToSet(text))

\* The file a pass may read in the bytes of f.
AsRead(f) ==
    LET seen == decode_text(f.text, f.enc)
    IN  CASE f.kind = "text" -> {[f EXCEPT !.text = seen.text, !.enc = seen.enc]}
          [] f.kind = "csv" -> {[f EXCEPT !.text = seen.text, !.enc = seen.enc, !.delim = d] : d \in Sniffed(seen.text)}
          [] OTHER -> {f}

CsvHeaders(f, rows) ==
    {r \in 1 .. Min({HEADER_ROWS, Len(rows)}) :
        Len(rows[r]) >= 2 /\ \E c \in DOMAIN rows[r] : CellValue(f.text, rows[r][c]) \in HeaderTexts}

\* The category of a cell below the first header.
CsvCategory(f, rows, r, c) ==
    LET headers == CsvHeaders(f, rows)
        head == CellValue(f.text, rows[Min(headers)][c])
    IN  IF headers # {} /\ r > Min(headers) /\ c \in DOMAIN rows[Min(headers)] /\ head \in HeaderTexts
        THEN HeaderCat[head] ELSE None

CsvUnits(f) ==
    LET rows == csv_rows(f.text, f.delim)
    IN  FlattenSeq([r \in DOMAIN rows |-> [c \in DOMAIN rows[r] |->
            [cell |-> rows[r][c], force |-> CsvCategory(f, rows, r, c)]]])

-----------------------------------------------------------------------------
(* PDF *)

Text(spans) == FlattenSeq([i \in DOMAIN spans |-> spans[i].text])

\* _spans: the spans of a page with a separator after every line.
Nodes(page) ==
    FlattenSeq([l \in DOMAIN page.lines |->
        [s \in DOMAIN page.lines[l] |-> [text |-> page.lines[l][s].text, color |-> page.lines[l][s].color, line |-> l]]
          \o <<[text |-> <<Newline>>, color |-> None, line |-> l]>>])

PageText(page) == Text(Nodes(page))

IsScan(f, page) == f.kind = "image" \/ (Len(Strip(PageText(page))) < MIN_TEXT /\ page.image # << >>)

UnitText(f, page) == IF IsScan(f, page) THEN page.image ELSE PageText(page)

Flat(text) == SelectSeq(text, LAMBDA c : c # Newline)

\* rewrite: spans are written again with one writer per color, and the writers
\* one after the other, in the order in which the colors first occur.
RewritePage(page, reps) ==
    LET nodes == Nodes(page)
        new == apply_to_nodes([i \in DOMAIN nodes |-> nodes[i].text], reps)
        kept == SelectSeq([i \in DOMAIN nodes |-> i], LAMBDA i : nodes[i].color # None /\ new[i] # << >>)
        First(c) == Min({i \in ToSet(kept) : nodes[i].color = c})
        order == SetToSortSeq({nodes[i].color : i \in ToSet(kept)}, LAMBDA c, d : First(c) < First(d))
        written(c, l) == LET mine == SelectSeq(kept, LAMBDA i : nodes[i].color = c /\ nodes[i].line = l)
                         IN  [j \in DOMAIN mine |-> [text |-> new[mine[j]], color |-> c, over |-> Nowhere]]
        all == FlattenSeq([c \in DOMAIN order |-> [l \in DOMAIN page.lines |-> written(order[c], l)]])
    IN  [page EXCEPT !.lines = SelectSeq(all, LAMBDA l : l # << >>)]

Split(text) ==
    LET ends == {0, Len(text) + 1} \cup {i \in DOMAIN text : text[i] = Newline}
        at == SetToSortSeq(ends, LAMBDA i, j : i < j)
    IN  [k \in 1 .. Len(at) - 1 |-> SubSeq(text, at[k] + 1, at[k + 1] - 1)]

\* The picture after values are painted over and labels drawn where they began;
\* a line stays a line.
Paint(reps, image) ==
    {[r EXCEPT !.new = Flat(@) \o SelectSeq(Cut(image, r.start, r.end), LAMBDA c : c = Newline)] : r \in reps}

\* Where something that stood at position p of the picture stands then.
Moved(p, reps) ==
    FoldSet(LAMBDA r, at : IF r.end <= p THEN at + Len(r.new) - (r.end - r.start) ELSE at, p, reps)

\* What is left of a line of the text layer: nothing that lies under a box.
Uncovered(line, paint) ==
    FlattenSeq([s \in DOMAIN line |->
        IF line[s].over = Nowhere THEN <<line[s]>>
        ELSE LET at(k) == line[s].over + k - 1
                 kept == SelectSeq([k \in DOMAIN line[s].text |-> k],
                                   LAMBDA k : ~\E r \in paint : r.start <= at(k) /\ at(k) < r.end)
             IN  [j \in DOMAIN kept |-> [text |-> <<line[s].text[kept[j]]>>, color |-> line[s].color,
                                         over |-> Moved(at(kept[j]), paint)]]])

\* _rewrite_scan: if there is anything to replace, the values are painted over and
\* the text under the boxes is removed; a label is drawn where each began, and the
\* new text is added as an invisible layer, one line for each line of the picture.
RewriteScan(page, reps) ==
    LET labels == LeftToRight(Paint(reps, page.image))
        image == apply_replacements(page.image, Paint(reps, page.image))
        anon == Split(apply_replacements(page.image, reps))
        boxes == SelectSeq(Split(page.image), LAMBDA l : Strip(l) # << >>)
        lineStart(i) == NodeStart([l \in DOMAIN Split(image) |-> Append(Split(image)[l], Newline)], i)
        span(text, color, over) == [text |-> text, color |-> color, over |-> over]
    IN  [lines |-> SelectSeq([l \in DOMAIN page.lines |-> Uncovered(page.lines[l], Paint(reps, page.image))],
                               LAMBDA l : l # << >>)
                     \o [i \in DOMAIN labels |->
                            <<span(Flat(labels[i].new), "label", Moved(labels[i].start, Paint(reps, page.image)))>>]
                     \o SelectSeq([i \in 1 .. Min({Len(anon), Len(boxes)}) |-> <<span(anon[i], "hidden", lineStart(i))>>],
                                  LAMBDA l : Strip(l[1].text) # << >>),
         image |-> image]

PdfUnits(f) ==
    [p \in DOMAIN f.pages |-> [page |-> p, force |-> None]]
      \o LET filled == SelectSeq([m \in DOMAIN f.meta |-> m], LAMBDA m : f.meta[m] # << >>)
         IN  [i \in DOMAIN filled |-> [page |-> 0, meta |-> filled[i], force |-> IF filled[i] = 1 THEN "PERSON" ELSE None]]

-----------------------------------------------------------------------------
(* The handlers *)

Paged(f) == f.kind \in {"pdf", "image"}

Units(f) ==
    CASE f.kind = "text"  -> <<[force |-> None]>>
      [] f.kind = "csv"   -> CsvUnits(f)
      [] f.kind = "ooxml" -> OoxmlUnits(f.parts)
      [] OTHER            -> PdfUnits(f)

\* The text of unit u.  The nodes of an XML tree are read from the tree that is
\* being rewritten, everything else from the original.
Reads(f, tree, u) ==
    CASE f.kind = "text"  -> f.text
      [] f.kind = "csv"   -> CellValue(f.text, u.cell)
      [] f.kind = "ooxml" -> Joined(tree.parts, u)
      [] OTHER            -> IF u.page = 0 THEN f.meta[u.meta] ELSE UnitText(f, f.pages[u.page])

TextsOf(f, units) == [i \in DOMAIN units |-> Reads(f, f, units[i])]

Texts(f) == TextsOf(f, Units(f))

NeedsOcr(f, u) == Paged(f) /\ u.page # 0 /\ IsScan(f, f.pages[u.page])

\* What rewriting unit u does to the file at once.
Write(u, text, reps) ==
    CASE data.kind = "text"  -> LET new == apply_replacements(text, reps)
                                IN  [out EXCEPT !.text = new, !.enc = encode_text(new, data.enc)]
      [] data.kind = "csv"   -> out
      [] data.kind = "ooxml" -> IF reps = {} THEN out ELSE [out EXCEPT !.parts = SetGroup(@, u, reps)]
      [] OTHER -> IF u.page = 0 THEN [out EXCEPT !.meta[u.meta] = apply_replacements(text, reps)]
                  ELSE IF NeedsOcr(data, u) THEN [out EXCEPT !.pages[u.page] = RewriteScan(@, reps)]
                  ELSE IF reps = {} THEN out
                  ELSE [out EXCEPT !.pages[u.page] = RewritePage(@, reps)]

\* What it leaves for the end.
RawReps(u, text, reps) ==
    IF data.kind # "csv" \/ reps = {} THEN {}
    ELSE {[start |-> u.cell.start, end |-> u.cell.end,
           new |-> CellText(u.cell, text, apply_replacements(text, reps))]}

Closed ==
    IF data.kind # "csv" THEN out
    ELSE LET new == apply_replacements(data.text, raw)
         IN  [out EXCEPT !.text = new, !.enc = encode_text(new, data.enc)]

\* An image is converted before anything else and comes out as a PDF.
Opened(f) == IF f.kind = "image" THEN [f EXCEPT !.kind = "pdf"] ELSE f

-----------------------------------------------------------------------------
(* anonymize_file and restore_file *)

Init ==
    /\ \E f \in Files : file \in AsRead(f)
    /\ data = file /\ out = Opened(file)
    /\ pass = "anonymize"
    /\ todo = Units(file)
    /\ raw = {} /\ recorded = << >> /\ exact = << >> /\ cursor = 0
    /\ known = DOMAIN ValueOf
    /\ wanted = << >> /\ sent = file

\* The next unit is visited, with the replacements its text asks for.
Visit(text, reps) ==
    /\ out' = Write(Head(todo), text, reps)
    /\ raw' = raw \cup RawReps(Head(todo), text, reps)
    /\ todo' = Tail(todo)
    /\ wanted' = Append(wanted, apply_replacements(text, reps))

AnonymizeUnit ==
    /\ pass = "anonymize" /\ todo # << >>
    /\ LET text == Reads(data, out, Head(todo))
           reps == AnonymizeReps(text, Head(todo).force)
           ordered == LeftToRight(reps)
       IN  /\ Visit(text, reps)
           /\ recorded' = recorded \o [i \in DOMAIN ordered |-> [label |-> ordered[i].new[1],
                                                                          surface |-> ordered[i].surface]]
    /\ UNCHANGED <<file, data, pass, known, exact, cursor, sent>>

\* The output is complete and the document is recorded.
FinishAnonymize ==
    /\ pass = "anonymize" /\ todo = << >>
    /\ out' = Closed /\ sent' = Closed
    /\ pass' = "delivered"
    /\ UNCHANGED <<file, data, raw, todo, recorded, known, exact, cursor, wanted>>

\* The user brings the anonymized file back, or another file with labels; what
\* it is is guessed again.  An entity may have been deleted in the meantime.
GiveBack(f, deleted) ==
    /\ pass = "delivered"
    /\ data' \in AsRead(f) /\ out' = Opened(data')
    /\ known' = known \ deleted
    /\ raw' = {} /\ wanted' = << >>
    /\ pass' = "units"
    /\ UNCHANGED <<file, todo, recorded, exact, cursor, sent>>

\* exact_map: the record is used if it has the label sequence of the file.
ReadUnits ==
    /\ pass = "units"
    /\ todo' = Units(data)
    /\ LET labels == LabelSequence(Texts(data))
       IN  exact' = IF labels # << >> /\ labels = RecordedLabels THEN recorded ELSE << >>
    /\ pass' = "restore"
    /\ UNCHANGED <<file, data, out, raw, recorded, known, cursor, wanted, sent>>

RestoreUnit ==
    /\ pass = "restore" /\ todo # << >>
    /\ LET text == Reads(data, out, Head(todo))
           reps == RestoreReps(text)
       IN  /\ Visit(text, reps)
           /\ cursor' = IF exact = << >> THEN cursor ELSE cursor + Cardinality(reps)
    /\ UNCHANGED <<file, data, pass, recorded, known, exact, sent>>

FinishRestore ==
    /\ pass = "restore" /\ todo = << >>
    /\ out' = Closed
    /\ pass' = "done"
    /\ UNCHANGED <<file, data, raw, todo, recorded, known, exact, cursor, wanted, sent>>

\* The mutant of OcrFails that leaves the page as it is and goes on.
OcrSkipped ==
    /\ pass \in {"anonymize", "restore"} /\ todo # << >>
    /\ NeedsOcr(data, Head(todo))
    /\ todo' = Tail(todo) /\ wanted' = Append(wanted, Reads(data, out, Head(todo)))
    /\ UNCHANGED <<file, data, out, raw, pass, recorded, known, exact, cursor, sent>>

\* Tesseract is missing, fails or times out: OcrUnavailable, and there is no output.
OcrFails ==
    /\ \/ pass \in {"anonymize", "restore"} /\ todo # << >> /\ NeedsOcr(data, Head(todo))
       \/ pass = "units" /\ \E u \in ToSet(Units(data)) : NeedsOcr(data, u)
    /\ pass' = "refused"
    /\ UNCHANGED <<file, data, out, raw, todo, recorded, known, exact, cursor, wanted, sent>>

Next ==
    \/ AnonymizeUnit \/ FinishAnonymize
    \/ \E f \in Answers \cup {sent}, deleted \in {{}, Deletable} : GiveBack(f, deleted)
    \/ ReadUnits \/ RestoreUnit \/ FinishRestore
    \/ OcrFails

Spec == Init /\ [][Next]_vars

-----------------------------------------------------------------------------
(* Properties *)

Written == pass \in {"delivered", "done"}

Colors(page) == LET spans == FlattenSeq(page.lines) IN [i \in DOMAIN spans |-> spans[i].color]

\* A color comes back after another one.
Interleaved(page) ==
    \E i, j, k \in DOMAIN Colors(page) :
        i < j /\ j < k /\ Colors(page)[i] = Colors(page)[k] /\ Colors(page)[j] # Colors(page)[i]

\* A value with the delimiter of the file goes into a cell without quotes: only
\* a comma is looked for.
Splits(f) ==
    /\ f.kind = "csv" /\ f.delim # Comma
    /\ \E i \in DOMAIN wanted : /\ ~CsvUnits(f)[i].cell.quoted
                                /\ f.delim \in ToSet(wanted[i])

\* More lines than the image has room for: a value with a line break is restored.
Overflows(f, p) == IsScan(f, f.pages[p]) /\ Len(Split(wanted[p])) > Len(Split(f.pages[p].image))

\* A file whose pass is over reads, unit by unit, as the replacements asked for:
\* no cell is split or joined by a quote, a line break or a comma in a value, no
\* run loses text, a page keeps its text.  Pages are compared without their line
\* breaks, and the text of a scan is the end of what the page now holds.  Not
\* covered, because the code does not do it: a delimiter other than the comma in
\* a restored value, pages whose colors interleave, and lines a scan has no room for.
WrittenAsAsked ==
    Written =>
        IF ~Paged(data) THEN ~Splits(data) => Texts(out) = wanted
        ELSE /\ \A p \in DOMAIN data.pages :
                    ~Interleaved(data.pages[p]) /\ ~Overflows(data, p) =>
                        LET now == Flat(PageText(out.pages[p]))
                        IN  IF IsScan(data, data.pages[p]) THEN IsSuffix(Flat(wanted[p]), now)
                            ELSE now = Flat(wanted[p])
             /\ \A i \in DOMAIN PdfUnits(data) :
                    PdfUnits(data)[i].page = 0 => out.meta[PdfUnits(data)[i].meta] = wanted[i]

\* Values in a text that are not excluded.
Shown(text) == {s \in Mentions(text) : LabelAt(text, s) \notin Excluded}

\* The text layer of a page without what lies over nothing that can be read.
Visible(page) ==
    [page EXCEPT !.lines = [l \in DOMAIN @ |-> SelectSeq(@[l], LAMBDA s : s.over # Nowhere)]]

\* An anonymized file shows no value any more, neither in the text of a unit nor
\* in the picture of a scan nor in the text that lies over it, be it visible or
\* not: a scan that could not be read is refused, never passed on.  Not covered,
\* because the code does not do it: the short text layer of a scan where the
\* picture does not show the same text.
NothingDetectedLeft ==
    pass = "delivered" =>
        IF ~Paged(file) THEN \A text \in ToSet(Texts(sent)) : Shown(text) = {}
        ELSE /\ \A p \in DOMAIN file.pages :
                    IF IsScan(file, file.pages[p])
                    THEN Shown(sent.pages[p].image) = {} /\ Shown(PageText(Visible(sent.pages[p]))) = {}
                    ELSE Shown(PageText(sent.pages[p])) = {}
             /\ \A text \in ToSet(sent.meta) : Shown(text) = {}

\* The cells below a header, with the category of their column.  Dates, Booleans
\* and errors (t = "d", "b", "e") are never units.
Announced ==
    IF file.kind = "ooxml"
    THEN UNION {{<<k, i>> : i \in {j \in DOMAIN file.parts[k].nodes :
                    /\ file.parts[k].nodes[j].t \in {"s", "inlineStr", "str", "n"}
                    /\ Category(file.parts, k, file.parts[k].nodes[j]) # None}} : k \in Sheets(file.parts)}
    ELSE {}

\* A shared string that a cell before this one shows in a column of another
\* category.
ClaimedBefore(k, c) ==
    c.t = "s" /\ \E m \in Sheets(file.parts) : \E j \in Claims(file.parts, m, c.ref) :
        LET other == file.parts[m].nodes[j]
        IN  /\ m < k \/ (m = k /\ \E i \in DOMAIN file.parts[k].nodes : file.parts[k].nodes[i] = c /\ j < i)
            /\ Category(file.parts, m, other) # Category(file.parts, k, c)

\* The text of a cell that is rewritten: without phonetic hints.
Spelled(parts, c) ==
    IF c.t # "s" THEN c.text
    ELSE LET nodes == parts[Min(SstParts(parts))].nodes
             own == SelectSeq(nodes, LAMBDA n : n.owner = c.ref /\ ~n.phonetic)
         IN  FlattenSeq([j \in DOMAIN own |-> own[j].text])

Only(text, S) == SelectSeq(text, LAMBDA c : c \in S)

\* A cell with text before reads after, as a column of category cat wants it: of a
\* party with a legal form or a mark the name alone is gone; an amount that is not
\* asked for and a number that is no tax code keep their digits; of everything
\* else one label is left, with the blanks and the punctuation around it.
ReplacedAs(cat, before, after) ==
    CASE cat = "PARTY" /\ Companies(before) \cup Traders(before) # {} ->
            /\ Only(after, Letters) = << >>
            /\ Only(after, LegalForms \cup TraderMarks) = Only(before, LegalForms \cup TraderMarks)
      [] cat = "TAXCODE" /\ Count(before, Digits) \notin DOMAIN TaxCode -> Only(after, Digits) = Only(before, Digits)
      [] cat \in DOMAIN NeedsDigits \ Categories -> Only(after, Digits) = Only(before, Digits)
      [] OTHER -> Len(SelectSeq(after, LAMBDA c : c \notin Blanks \cup {Comma, ";", ":"})) = 1 /\ HasLabel(after)


\* An unquoted cell that is quoted when it is rewritten, and stays so: it holds a
\* quote, or a comma that does not separate cells in this file.
Requoted ==
    file.kind = "csv" /\ \E u \in ToSet(CsvUnits(file)) :
        LET value == ToSet(Cut(file.text, u.cell.start, u.cell.end))
        IN  ~u.cell.quoted /\ (Quote \in value \/ (Comma \in value /\ file.delim # Comma))

\* A value next to a character that keeps its label from being found again.
Glued(text, force) ==
    \E r \in AnonymizeReps(text, force) :
        \/ r.start > 0 /\ text[r.start] \in WordChars \cup Hyphens
        \/ r.end < Len(text) /\ text[r.end + 1] \in WordChars

\* The spellings of the entity of label l that the vault or the record knows.
Spellings(l) == {ValueOf[l]} \cup {recorded[k].surface : k \in {j \in DOMAIN recorded : recorded[j].label = l}}

\* The labels of a text each in one of its own spellings.
OwnSpellings(text) ==
    LET at == SelectSeq(find_labels(text), LAMBDA i : text[i] \in known)
        choices == {f \in [DOMAIN at -> UNION {Spellings(text[at[k]]) : k \in DOMAIN at}] :
                        \A k \in DOMAIN at : f[k] \in Spellings(text[at[k]])}
    IN  {apply_replacements(text, {[start |-> at[k] - 1, end |-> at[k], new |-> f[k]] : k \in DOMAIN at}) : f \in choices}

\* The bytes that were sent are read as the text that was sent.
ReadBack == decode_text(sent.text, sent.enc).text = sent.text

\* The encoding is guessed to be that of the file again, and can be written.
KeepsEncoding == data.enc = file.enc /\ encode_text(file.text, file.enc) = file.enc

\* An anonymized file that comes back unchanged, with its entities, is restored as
\* it was: the text of a text or CSV file, and its bytes if its encoding is
\* recognised again; every paragraph and cell of an office file, every page of a
\* PDF with a text layer; each mention in its own spelling.  And whatever file
\* comes back, edited or not, and whatever was deleted, a label only ever becomes
\* a spelling of its own entity.  Not covered by the first part: files with labels
\* of their own, values glued to a word or a hyphen, cells that are quoted anew,
\* a delimiter that is guessed differently, and cp1252 that is taken for cp1251.
RoundTrip ==
    pass = "done" =>
        /\ LET given == Texts(data) IN \A i \in DOMAIN wanted : wanted[i] \in OwnSpellings(given[i])
        /\ LET units == Units(file)
               texts == Texts(file)
           IN  /\ data \in AsRead(sent) /\ known = DOMAIN ValueOf
               /\ \A i \in DOMAIN units : ~HasLabel(texts[i]) /\ ~Glued(texts[i], units[i].force)
               => CASE file.kind \in {"text", "csv"} ->
                          ReadBack /\ ~Requoted /\ (file.kind = "csv" => data.delim = file.delim) =>
                              /\ out.text = file.text
                              /\ KeepsEncoding => out = file
                    [] file.kind = "ooxml" -> Texts(out) = texts
                    [] OTHER -> (\A p \in DOMAIN file.pages :
                                    ~IsScan(file, file.pages[p]) /\ ~Interleaved(file.pages[p])) =>
                                  \A i \in DOMAIN texts : Flat(Texts(out)[i]) = Flat(texts[i])

\* The characters of node i of group g that no replacement touches.
Untouched(g, i) ==
    LET texts == NodeTexts(file.parts, g)
        reps == AnonymizeReps(Joined(file.parts, g), g.force)
        free == {c \in DOMAIN texts[i] : ~\E r \in reps : LET at == NodeStart(texts, i) + c
                                                         IN  r.start < at /\ at <= r.end}
        order == SetToSortSeq(free, LAMBDA c, d : c < d)
    IN  [c \in DOMAIN order |-> texts[i][order[c]]]

\* In an office file every run keeps the text it had outside the values, so its
\* formatting stays on that text; only labels are added.
RunsKeepTheirText ==
    pass = "delivered" /\ file.kind = "ooxml" =>
        \A u \in ToSet(OoxmlUnits(file.parts)) : ~HasLabel(Joined(file.parts, u)) =>
            \A i \in DOMAIN u.nodes :
                SelectSeq(NodeTexts(sent.parts, u)[i], LAMBDA c : c \notin Labels) = Untouched(u, i)
===============================================================================
