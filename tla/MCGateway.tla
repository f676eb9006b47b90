------------------------------ MODULE MCGateway ------------------------------
(* TLC instances of Gateway. *)
EXTENDS Gateway, TLC

CONSTANTS r1, r2, v1, v2, v3, person, account, custom, pack, llm

\* The pack knows two values of one type.  The model knows one of them too, by a
\* type of its own making, and another value by a type with a long name.
MCRecognises == pack :> {<<person, v1>>, <<person, v3>>} @@ llm :> {<<custom, v1>>, <<account, v2>>}

Occ(n, v) == [text |-> n, value |-> v]

\* A value in two texts, and another one of its type.
Ordinary == [auth |-> TRUE, allowed |-> TRUE, json |-> TRUE, texts |-> TRUE,
             spans |-> <<Occ(1, v3), Occ(1, v1), Occ(2, v1)>>, stream |-> FALSE,
             llm_ner |-> FALSE, mode |-> "tokenize", blocked_types |-> {}]
Streamed == [Ordinary EXCEPT !.stream = TRUE, !.spans = <<Occ(1, v1), Occ(2, v3)>>]

\* The same value found by different passes in two texts, with LLM-NER on.
Asked == [Ordinary EXCEPT !.spans = <<Occ(1, v1), Occ(2, v1)>>, !.llm_ner = TRUE]
AskedStream == [Asked EXCEPT !.spans = <<Occ(1, v1), Occ(1, v2)>>, !.stream = TRUE]

\* A value of a blocked type in a later text; the two ways hard_block mode meets.
BlockedType == [Asked EXCEPT !.spans = <<Occ(1, v1), Occ(2, v2)>>,
                             !.blocked_types = {account}, !.mode = "mask"]
BlockedMode == [Streamed EXCEPT !.mode = "hard_block"]
BlockedNoText == [BlockedMode EXCEPT !.spans = << >>, !.texts = FALSE, !.stream = FALSE]

\* Refused at the gates.
NoKey == [Asked EXCEPT !.auth = FALSE]
WrongProvider == [Asked EXCEPT !.allowed = FALSE]
BadBody == [Asked EXCEPT !.json = FALSE, !.texts = FALSE, !.spans = << >>]

AllCalls == {Ordinary, Streamed, Asked, AskedStream, BlockedType, BlockedMode, BlockedNoText,
             NoKey, WrongProvider, BadBody}

\* A request of any kind that anything may go wrong with, beside one that
\* replaces a value of the same type and gets an empty stream.
PairCalls == r1 :> AllCalls @@ r2 :> {[Streamed EXCEPT !.spans = <<Occ(1, v3)>>]}
PairChunks == r1 :> 1 @@ r2 :> 0
PairFaults == r1 :> FaultKinds @@ r2 :> {}
===============================================================================
