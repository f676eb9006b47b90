---------------------------- MODULE MCDocuments ----------------------------
(* Files of every kind, small ones that have the awkward cases in them.     *)
EXTENDS Documents, TLC

MCLetters == {"a", "b", "zh", "tilde"}
MCLabels == {"P", "Q", "R", "Z"}   \* R is excluded, Z is the label of no entity
MCWordChars == MCLetters \cup MCLabels \cup {"H", "x", "7", "L", "F"}
MCNonAscii == {"zh", "tilde", "e1", "P"}   \* of the labels, P is Cyrillic
MCCharsOf == ("cp1251" :> {"zh", "P"}) @@ ("cp1252" :> {"e1", "tilde"})
MCAsCp1251 == "e1" :> "zh"
MCHeaderCat == (<<"H">> :> "PERSON") @@ (<<"H", "p">> :> "PARTY") @@ (<<"H", "t">> :> "TAXCODE") @@ (<<"H", "m">> :> "AMOUNT")
MCCategories == {"PERSON", "ORG", "IPN"}
MCTaxCode == 2 :> "IPN"
MCNeedsDigits == "AMOUNT" :> 1
MCValueOf == ("P" :> <<"a">>) @@ ("Q" :> <<"a", Comma, Quote, Newline, "b">>) @@ ("R" :> <<"b", "b">>)

\* Single letters of one alphabet are two spellings of one entity.
MCLabelOf(cat, s) == CASE s \in {<<"a">>, <<"b">>} -> "P" [] s = <<"b", "b">> -> "R" [] OTHER -> "Q"

Plain(enc, text) == [kind |-> "text", enc |-> enc, text |-> text]
Table(text) == [kind |-> "csv", enc |-> "utf-8", delim |-> None, text |-> text]
Office(parts) == [kind |-> "ooxml", parts |-> parts]

TextFiles ==
    {Plain(e, <<"b", ".", "a", Newline, "b">>) : e \in {"utf-8", "utf-16-le", "utf-16-be", "cp1252"}}
      \cup {Plain("utf-8", <<"P", ".", "b">>),
            Plain("utf-8", <<"a", ".", "-", "b", " ", "a">>), Plain("utf-8", <<"b", "x", "a", "b">>),
            \* the only characters outside of ASCII are in a value with an ASCII label, or not
            Plain("cp1251", <<"zh", ".", "zh", "b">>), Plain("cp1251", <<"zh", ".", "b">>),
            Plain("cp1252", <<"tilde", ".", "e1">>), Plain("cp1252", <<"e1", ".", "b">>),
            Plain("cp1252", <<"tilde", ".", "b", ".", "b">>), Plain("utf-8-sig", <<"zh", ".">>)}

Tables ==
    { \* H,. / "a,b",b / -,"a""b"
      Table(<<"H", Comma, ".", Newline, Quote, "a", Comma, "b", Quote, Comma, "b", Newline,
              "-", Comma, Quote, "a", Quote, Quote, "b", Quote>>),
      \* a line break in a quoted cell, blanks and punctuation around a forced value
      Table(<<"H", Comma, "H", Return, Newline, Quote, "b", Newline, "a", Quote, Comma, " ", "b", ";", " ", Return, Newline>>),
      \* H;. / a,b;a and a stray quote: cells that are quoted when they come back
      Table(<<"H", ";", ".", Newline, "a", Comma, "b", ";", "a", Quote, ".">>),
      \* a party with a legal form, a sole trader, neither; tax codes and amounts
      Table(<<"H", "p", Comma, "H", "t", Newline, "a", "b", " ", "L", Comma, "7", "7", Newline,
              "F", " ", "b", Comma, "7", Newline, "x", " ", "a", Comma, "x">>),
      \* a single column has no header
      Table(<<"H", Newline, "b", ".">>) }

\* Every short table, with and without a header line.
ShortTables ==
    {Table(t) : t \in BoundedSeq({"a", " ", Comma, Quote, Newline}, 4)}
      \cup {Table(<<"H", d, ".", Newline>> \o t) : d \in {Comma, ";"}, t \in BoundedSeq({"a", Comma, Quote, ";"}, 3)}

Run(tag, owner, text) == [tag |-> tag, owner |-> owner, text |-> text]
Cell(t, row, col, text, ref) == [t |-> t, row |-> row, col |-> col, text |-> text, ref |-> ref]
String(owner, phonetic, text) == [owner |-> owner, phonetic |-> phonetic, text |-> text]

Letter ==
    Office(<<
        [type |-> "props", name |-> 1, nodes |-> <<[tag |-> "person", text |-> <<".", "x">>], [tag |-> "text", text |-> <<"b">>],
                                                    [tag |-> "other", text |-> <<"x">>]>>],
        \* paragraph 2 stands in a text box of paragraph 1; values run over runs
        [type |-> "body", name |-> 2, under |-> <<0, 1, 0>>,
         nodes |-> <<Run("t", 1, <<".", "a">>), Run("t", 2, <<"b">>), Run("t", 1, <<"b", "b", ".">>), Run("t", 1, <<"b">>),
                     Run("delText", 1, <<"a">>), Run("t", 3, <<" ">>), Run("author", 0, <<"x">>), Run("initials", 0, <<"a", ".">>)>>]>>)

\* String 2 is a value in both sheets, string 5 an amount before it is a party and
\* string 6 a tax code that is none before it is a party; string 4 has a hint.
Book ==
    Office(<<
        [type |-> "sst", name |-> 1,
         nodes |-> <<String(1, FALSE, <<"H">>), String(2, FALSE, <<"x", "x">>), String(3, FALSE, <<".", "b">>), String(3, FALSE, <<"a">>),
                     String(4, FALSE, <<"b">>), String(4, TRUE, <<"x">>), String(5, FALSE, <<"x", " ", "7">>),
                     String(6, FALSE, <<"a", "b", " ", "L">>)>>],
        [type |-> "sheet", name |-> 3,
         nodes |-> <<Cell("n", 1, "A", <<"7">>, 0), Cell("s", 2, "A", << >>, 1), Cell("str", 2, "B", <<".">>, 0),
                     Cell("inlineStr", 2, "C", <<"H", "m">>, 0), Cell("inlineStr", 2, "D", <<"H", "t">>, 0),
                     Cell("n", 3, "A", <<"7">>, 0), Cell("s", 3, "B", << >>, 2), Cell("s", 3, "C", << >>, 5), Cell("n", 3, "D", <<"7">>, 0),
                     Cell("s", 4, "A", << >>, 3), Cell("n", 4, "C", <<"7">>, 0), Cell("n", 4, "D", <<"7", "7">>, 0),
                     Cell("str", 5, "A", <<".", "a", ";">>, 0), Cell("n", 5, "B", <<"7">>, 0), Cell("d", 6, "A", <<"7">>, 0),
                     Cell("s", 7, "A", << >>, 1), Cell("inlineStr", 7, "B", <<"H">>, 0)>>],
        [type |-> "sheet", name |-> 2,
         nodes |-> <<Cell("s", 1, "A", << >>, 4), Cell("inlineStr", 1, "B", <<"H", "p">>, 0),
                     Cell("inlineStr", 2, "A", <<"b">>, 0), Cell("s", 2, "B", << >>, 2), Cell("inlineStr", 3, "B", <<"-">>, 0),
                     Cell("s", 4, "B", << >>, 5), Cell("s", 5, "B", << >>, 6), Cell("inlineStr", 6, "B", <<"F", " ", "b">>, 0),
                     Cell("str", 7, "B", <<"x", "a">>, 0)>>]>>)

\* Every way a short text may be spread over three runs of a paragraph and of one
\* nested in it.
Letters3 ==
    {Office(<<[type |-> "body", name |-> 1, under |-> <<0, 1>>, nodes |-> [i \in 1 .. 3 |-> Run("t", owner[i], text[i])]]>>) :
        owner \in {<<1, 1, 1>>, <<1, 2, 1>>},
        text \in [1 .. 3 -> {<< >>, <<"a">>, <<"b", "b">>, <<".", "a">>, <<"b", ".">>}]}

Line(color, text) == <<[text |-> text, color |-> color, over |-> Nowhere]>>
Under(text, over) == <<[text |-> text, color |-> "hidden", over |-> over]>>
TextPage(lines) == [lines |-> lines, image |-> << >>]
Pdf(pages, meta) == [kind |-> "pdf", pages |-> pages, meta |-> meta]

Scan(lines) == [lines |-> lines, image |-> <<".", "a", Newline, "b", ".", "b">>]

\* Scans with no text layer, with a short one over the picture (a value, and what
\* stands beside one), and with one that the picture does not show.
Pdfs ==
    {Pdf(<<TextPage(<<Line("black", <<".", "b">>) \o Line("black", <<"a", ".">>), Line("red", <<"b">>)>>)>>,
         <<<<".">>, << >>, <<"b">>>>),
     Pdf(<<TextPage(<<Line("black", <<".">>), << >>, Line("red", <<"b">>) \o Line("black", <<".", "x">>)>>), Scan(<< >>)>>, << >>),
     Pdf(<<Scan(<<Under(<<".", "a">>, 0)>>)>>, << >>), Pdf(<<Scan(<<Under(<<"b">>, 3)>>), Scan(<<Under(<<".", "b">>, 4)>>)>>, << >>),
     Pdf(<<Scan(<<Under(<<"b">>, Nowhere)>>)>>, << >>),
     Pdf(<<[Scan(<<Under(<<"b">>, 1)>>) EXCEPT !.image = <<".", "b">>]>>, << >>)}

Images == {[kind |-> "image", pages |-> <<[Scan(<< >>) EXCEPT !.image = <<"b", Newline, ".">>]>>, meta |-> << >>]}

MCFiles == TextFiles \cup Tables \cup ShortTables \cup Letters3 \cup {Letter, Book} \cup Pdfs \cup Images

\* What a model or another program may give back.
MCAnswers ==
    {Plain("utf-8", <<"Q", ".", "P", " ", "Z">>), Plain("utf-8", <<"Q", ".", "P">>), Plain("utf-8", <<"P", "-", "Q">>),
     Table(<<"P", Comma, "Q", Newline, Quote, "Q", Quote, Comma, "Z">>),
     Table(<<"Q", ";", "P">>),
     Office(<<[type |-> "body", name |-> 1, under |-> <<0>>, nodes |-> <<Run("t", 1, <<"P", ".">>), Run("t", 1, <<"Q">>)>>]>>),
     Pdf(<<[lines |-> << >>, image |-> <<"P", Newline, "Q">>]>>, << >>)}
=============================================================================
