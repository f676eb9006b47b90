----------------------------- MODULE OoxmlParts -----------------------------
(***************************************************************************)
(* The text units of a DOCX, XLSX or PPTX file: OoxmlHandler of             *)
(* desktop/formats.py.                                                      *)
(*                                                                          *)
(* A file is a sequence of parts in the order of the zip directory.  The    *)
(* text-bearing elements of a part are its nodes, in document order:        *)
(*   "props"  docProps/*.xml: [tag, text];                                  *)
(*   "body"   a document, header, slide, comment...: [tag, owner, text],    *)
(*            where owner is the innermost paragraph around the element.    *)
(*            Paragraphs are numbers in document order; under[p] is the     *)
(*            paragraph p is nested in (a text box), or 0;                  *)
(*   "sst"    xl/sharedStrings.xml: [owner, phonetic, text], owner being    *)
(*            the number of the shared string;                              *)
(*   "sheet"  xl/worksheets/*.xml: cells [t, row, col, text, ref], ref      *)
(*            being the shared string of a cell with t = "s".               *)
(* A group is the list of nodes that make up one unit.                      *)
(***************************************************************************)
EXTENDS TextUnits

CONSTANTS
    HEADER_ROWS,  \* rows in which a header is looked for: 10 in the code
    HeaderCat     \* header_category: the category of each text it recognises as a header

HeaderTexts == DOMAIN HeaderCat

\* The order of _parts: metadata last, otherwise by name.
PartOrder(parts) ==
    SetToSortSeq(DOMAIN parts,
        LAMBDA i, j : LET p == parts[i].type = "props"
                          q == parts[j].type = "props"
                      IN  (~p /\ q) \/ (p = q /\ parts[i].name < parts[j].name))

SstParts(parts) == {k \in DOMAIN parts : parts[k].type = "sst"}

Sheets(parts) == {k \in DOMAIN parts : parts[k].type = "sheet"}

\* The text of shared string i; itertext() reads phonetic hints too.
SharedText(parts, i) ==
    LET nodes == IF SstParts(parts) = {} THEN << >> ELSE parts[Min(SstParts(parts))].nodes
        own == SelectSeq(nodes, LAMBDA n : n.owner = i)
    IN  FlattenSeq([j \in DOMAIN own |-> own[j].text])

\* What a cell shows.
cell_text(parts, c) == IF c.t = "s" THEN SharedText(parts, c.ref) ELSE c.text

Row(sheet, r) == {i \in DOMAIN sheet.nodes : sheet.nodes[i].row = r}

RowNumbers(sheet) == {sheet.nodes[i].row : i \in DOMAIN sheet.nodes}

\* The first rows of a sheet that have a header in them and more than one cell.
HeaderRowsOf(parts, k) ==
    {r \in RowNumbers(parts[k]) :
        /\ Cardinality({q \in RowNumbers(parts[k]) : q < r}) < HEADER_ROWS
        /\ Cardinality(Row(parts[k], r)) >= 2
        /\ \E i \in Row(parts[k], r) : cell_text(parts, parts[k].nodes[i]) \in HeaderTexts}

\* The category of the column of cell c of sheet k, if it is below the header.
Category(parts, k, c) ==
    LET hr == Min(HeaderRowsOf(parts, k))
        heads == {i \in Row(parts[k], hr) : /\ parts[k].nodes[i].col = c.col
                                            /\ cell_text(parts, parts[k].nodes[i]) \in HeaderTexts}
    IN  IF HeaderRowsOf(parts, k) = {} \/ c.row <= hr \/ heads = {} THEN None
        ELSE HeaderCat[cell_text(parts, parts[k].nodes[Max(heads)])]

\* The cells of sheet k that show shared string i below a header.
Claims(parts, k, i) ==
    {j \in DOMAIN parts[k].nodes :
        LET c == parts[k].nodes[j] IN c.t = "s" /\ c.ref = i /\ Category(parts, k, c) # None}

FirstClaim(parts, k, i) == Category(parts, k, parts[k].nodes[Min(Claims(parts, k, i))])


\* The category of shared string i: that of the first cell, in the order of the
\* zip directory and then of the sheet, that shows it below a header; setdefault
\* keeps it whatever the cells after it say.
sst_force(parts, i) ==
    LET sheets == {k \in Sheets(parts) : Claims(parts, k, i) # {}}
    IN  IF sheets = {} THEN None ELSE FirstClaim(parts, Min(sheets), i)

-----------------------------------------------------------------------------
(* _groups *)

Group(k, nodes, force, kind) == [part |-> k, nodes |-> nodes, force |-> force, kind |-> kind]

\* Indices of the nodes of a part that satisfy Test, in document order.
Where(part, Test(_)) == SelectSeq([i \in DOMAIN part.nodes |-> i], LAMBDA i : Test(part.nodes[i]))

Each(k, nodes, ForceOf(_)) ==
    [i \in DOMAIN nodes |-> Group(k, <<nodes[i]>>, ForceOf(nodes[i]), "text")]

NonEmpty(groups) == SelectSeq(groups, LAMBDA g : g.nodes # << >>)

\* The elements of one tag that belong to paragraph p itself (_owner_p).
Below(part, p, tag) == Where(part, LAMBDA n : n.tag = tag /\ n.owner = p)

BodyGroups(k, part) ==
    FlattenSeq([p \in 1 .. Len(part.under) |->
        NonEmpty([t \in 1 .. 3 |-> Group(k, Below(part, p, <<"t", "delText", "instrText">>[t]), None, "text")])])
      \o Each(k, Where(part, LAMBDA n : n.tag \in {"author", "initials"}),
              LAMBDA i : IF part.nodes[i].tag = "author" THEN "PERSON" ELSE None)

PropsGroups(k, part) ==
    Each(k, Where(part, LAMBDA n : n.tag \in {"person", "text", "org"} /\ n.text # << >>),
         LAMBDA i : CASE part.nodes[i].tag = "person" -> "PERSON"
                      [] part.nodes[i].tag = "org"    -> "PARTY"
                      [] OTHER -> None)

SstGroups(k, parts) ==
    LET strings == {parts[k].nodes[i].owner : i \in DOMAIN parts[k].nodes}
    IN  NonEmpty([i \in 1 .. (IF strings = {} THEN 0 ELSE Max(strings)) |->
            Group(k, Where(parts[k], LAMBDA n : n.owner = i /\ ~n.phonetic),
                  sst_force(parts, i), "text")])

SheetGroups(k, parts) ==
    LET cell(i) == parts[k].nodes[i]
        cells == Where(parts[k], LAMBDA c : c.text # << >> /\
                           \/ c.t \in {"inlineStr", "str"}
                           \/ c.t = "n" /\ Category(parts, k, c) # None)
    IN  [i \in DOMAIN cells |->
            Group(k, <<cells[i]>>, Category(parts, k, cell(cells[i])),
                  IF cell(cells[i]).t = "n" THEN "num" ELSE "text")]

Groups(k, parts) ==
    CASE parts[k].type = "props" -> PropsGroups(k, parts[k])
      [] parts[k].type = "body"  -> BodyGroups(k, parts[k])
      [] parts[k].type = "sst"   -> SstGroups(k, parts)
      [] OTHER                   -> SheetGroups(k, parts)

\* _get: the texts of a group.
NodeTexts(parts, g) == [i \in DOMAIN g.nodes |-> parts[g.part].nodes[g.nodes[i]].text]

Joined(parts, g) == FlattenSeq(NodeTexts(parts, g))

\* _walk: the units of a file, in order; blank ones are passed over.
OoxmlUnits(parts) ==
    SelectSeq(FlattenSeq([i \in DOMAIN PartOrder(parts) |-> Groups(PartOrder(parts)[i], parts)]),
              LAMBDA g : Strip(Joined(parts, g)) # << >>)

\* _set: a numeric cell becomes a cell with an inline string.
SetGroup(parts, g, reps) ==
    LET new == IF g.kind = "num" THEN <<apply_replacements(Joined(parts, g), reps)>>
               ELSE apply_to_nodes(NodeTexts(parts, g), reps)
        changed(n, text) == IF g.kind = "num" THEN [n EXCEPT !.t = "inlineStr", !.text = text]
                            ELSE [n EXCEPT !.text = text]
    IN  [parts EXCEPT ![g.part].nodes =
            [i \in DOMAIN @ |-> IF \E j \in DOMAIN g.nodes : g.nodes[j] = i
                                THEN changed(@[i], new[CHOOSE j \in DOMAIN g.nodes : g.nodes[j] = i])
                                ELSE @[i]]]
===============================================================================
