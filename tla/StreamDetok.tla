----------------------------- MODULE StreamDetok -----------------------------
(***************************************************************************)
(* Re-inflation of a streamed answer: StreamDetokenizer of                  *)
(* redaction/vault.py, the placeholder grammar of redaction/placeholders.py *)
(* and the generator _stream_response of routes/proxy.py.                   *)
(*                                                                          *)
(* The upstream sends deltas that may cut a placeholder anywhere.  The      *)
(* generator pushes each delta through one buffer, sends what push returns  *)
(* in place of the delta, and flushes the buffer at the end.  A text is a   *)
(* sequence of characters; a character stands for the class the two regular *)
(* expressions put it in, and a re-inflated value is one opaque character.  *)
(***************************************************************************)
EXTENDS Integers, Sequences, SequencesExt

CONSTANTS
    Alternatives,         \* indices of the alternatives the client asked for (n)
    First,                \* the index the flushed tail is sent under (0)
    Chunks,               \* the deltas the upstream may send
    resolved,             \* the session's token map: placeholder -> value
    MinHex, MaxHex,       \* length of the hex suffix: 4 and 12 in the code
    MAX_PLACEHOLDER_LEN,  \* 64 in the code
    MaxText               \* bound on the length of an upstream text

Upper     == {"A"}        \* upper-case letters
Digit     == {"0"}        \* in [A-Z0-9_] and in [0-9a-f]
HexLetter == {"f"}        \* in [0-9a-f] only
Newline   == "\n"         \* $ also matches before a final newline
TypeChar  == Upper \cup Digit \cup {"_"}
HexChar   == Digit \cup HexLetter

\* PLACEHOLDER_RE matches the whole of s.
IsPlaceholder(s) ==
    \E type \in {i \in 3 .. Len(s) : s[i] = "_"} :
        /\ SubSeq(s, 1, 2) = <<"[", "[">>
        /\ type > 3 /\ s[3] \in Upper
        /\ \A i \in 3 .. type - 1 : s[i] \in TypeChar
        /\ \A i \in type + 1 .. Len(s) - 2 : s[i] \in HexChar
        /\ Len(s) - 2 - type \in MinHex .. MaxHex
        /\ SubSeq(s, Len(s) - 1, Len(s)) = <<"]", "]">>

Known == DOMAIN resolved

ASSUME StreamAssumption ==
    /\ First \in Alternatives
    /\ Known \subseteq Seq(STRING)
    /\ \A p \in Known : IsPlaceholder(p) /\ Len(p) <= MAX_PLACEHOLDER_LEN
    /\ Chunks \subseteq Seq(STRING) \ {<< >>}
    /\ MinHex \in Nat /\ MaxHex \in Nat /\ MAX_PLACEHOLDER_LEN \in Nat /\ MaxText \in Nat

\* Every placeholder of the map is replaced.  Two matches cannot overlap, since
\* a placeholder has brackets only at its ends.
detokenize(t) ==
    LET starts(i, p) == i \in 1 .. Len(t) - Len(p) + 1 /\ SubSeq(t, i, i + Len(p) - 1) = p
        inside(i, p) == \E j \in i - Len(p) + 1 .. i : starts(j, p)
        piece(i) ==
            IF \E p \in Known : starts(i, p)
            THEN << resolved[CHOOSE p \in Known : starts(i, p)] >>
            ELSE IF \E p \in Known : inside(i, p) THEN << >> ELSE << t[i] >>
    IN  FlattenSeq([i \in 1 .. Len(t) |-> piece(i)])

\* _PARTIAL_TAIL_RE matches s up to its end: "[" alone, or "[[", a type, a hex
\* suffix and one "]", each of them possibly missing.
IsPartial(s) ==
    \/ s = <<"[">>
    \/ /\ Len(s) >= 2 /\ SubSeq(s, 1, 2) = <<"[", "[">>
       /\ LET last == IF s[Len(s)] = "]" THEN Len(s) - 1 ELSE Len(s)
          IN  \/ \A i \in 3 .. last : s[i] \in TypeChar
              \/ \E k \in 3 .. last :
                    /\ s[k] = "_"
                    /\ \A i \in 3 .. k - 1 : s[i] \in TypeChar
                    /\ \A i \in k + 1 .. last : s[i] \in HexChar

\* The longest suffix that is partial, or partial before a final newline.
trailing_partial_len(t) ==
    LET tail(i) == SubSeq(t, i, Len(t))
        hits == {i \in 1 .. Len(t) :
                    \/ IsPartial(tail(i))
                    \/ Last(t) = Newline /\ IsPartial(Front(tail(i)))}
    IN  IF hits = {} THEN 0 ELSE Len(t) - Min(hits) + 1

\* Mutant: the limit on what is held back is gone.
HoldUnlimited(t) == trailing_partial_len(t)

hold_len(t) ==
    IF trailing_partial_len(t) < MAX_PLACEHOLDER_LEN
    THEN trailing_partial_len(t) ELSE MAX_PLACEHOLDER_LEN

-----------------------------------------------------------------------------
VARIABLES
    full,     \* full[c]: the text the upstream has sent for alternative c
    seen,     \* seen[c]: the text the client has been sent for it
    buffer,   \* what the de-tokenizer holds back
    phase     \* "streaming", "done", or "failed" after a ProviderError

detokVars == <<full, seen, buffer, phase>>

DetokInit ==
    /\ full = [c \in Alternatives |-> << >>]
    /\ seen = [c \in Alternatives |-> << >>]
    /\ buffer = << >>
    /\ phase = "streaming"

\* Mutant: a delta is emitted whole.
PushWithoutHold(c, chunk) ==
    /\ phase = "streaming"
    /\ Len(full[c]) + Len(chunk) <= MaxText
    /\ full' = [full EXCEPT ![c] = @ \o chunk]
    /\ seen' = [seen EXCEPT ![c] = @ \o detokenize(buffer \o chunk)]
    /\ UNCHANGED <<buffer, phase>>

\* A delta of alternative c goes through push, and what push returns is sent in
\* its place.  There is one buffer for all alternatives.
Push(c, chunk) ==
    LET text == buffer \o chunk
        emitted == Len(text) - hold_len(text)
    IN  /\ phase = "streaming"
        /\ Len(full[c]) + Len(chunk) <= MaxText
        /\ full' = [full EXCEPT ![c] = @ \o chunk]
        /\ seen' = [seen EXCEPT ![c] = @ \o detokenize(SubSeq(text, 1, emitted))]
        /\ buffer' = SubSeq(text, emitted + 1, Len(text))
        /\ UNCHANGED phase

\* The stream ends: flush, and its tail in a chunk of its own.
FlushTail ==
    /\ phase = "streaming"
    /\ seen' = [seen EXCEPT ![First] = @ \o detokenize(buffer)]
    /\ buffer' = << >>
    /\ phase' = "done"
    /\ UNCHANGED full

\* ProviderError: an error chunk; the buffer is not flushed.
Fail ==
    /\ phase = "streaming"
    /\ phase' = "failed"
    /\ UNCHANGED <<full, seen, buffer>>

DetokNext ==
    \/ \E c \in Alternatives, chunk \in Chunks : Push(c, chunk)
    \/ FlushTail
    \/ Fail

DetokSpec == DetokInit /\ [][DetokNext]_detokVars

-----------------------------------------------------------------------------
(* Properties *)

\* With one alternative, what was sent and what is held back always make up the
\* re-inflated text, wherever the deltas cut it: no placeholder is missed, none
\* is sent in pieces, nothing is lost, also when the limit on the buffer cuts
\* text that only looks like a placeholder (StreamDetokenizer's docstring:
\* "".join(all push() returns) + flush() == vault.detokenize(full_text)).
Lossless ==
    Alternatives = {First} => seen[First] \o detokenize(buffer) = detokenize(full[First])

\* Text is not withheld without need: at most MAX_PLACEHOLDER_LEN characters,
\* and never a placeholder that is already complete (_hold_len's docstring: "so
\* a complete placeholder is always emitted").
HoldIsBounded ==
    /\ Len(buffer) <= MAX_PLACEHOLDER_LEN
    /\ \A p \in Known : \A i \in 1 .. Len(buffer) : ~IsPrefix(p, SubSeq(buffer, i, Len(buffer)))
===============================================================================
