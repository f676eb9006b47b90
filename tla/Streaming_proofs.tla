--------------------------- MODULE Streaming_proofs ---------------------------
(***************************************************************************)
(* Proofs about the streamed answer, of its two ends.                       *)
(*                                                                          *)
(* StreamDetok.  For every token map, every cut of the text into deltas and *)
(* every limit on the buffer that fits the longest placeholder, nothing is  *)
(* lost and no placeholder is held when complete.  A placeholder has        *)
(* brackets at its ends only, and what _PARTIAL_TAIL_RE matches has none    *)
(* inside either.  So no placeholder that is complete reaches into the      *)
(* matched tail, and one that is cut off at the end of the text lies in it  *)
(* as a whole: the cut of push never goes through a placeholder, now or     *)
(* after any further delta.  De-tokenizing the two sides of such a cut is   *)
(* de-tokenizing the whole.                                                 *)
(*                                                                          *)
(* ProviderStream.  For every number of lines and blocks, the client of any *)
(* adapter gets the upstream's text in order, one error for a call that was *)
(* not served, and the reason that was given.  Whatever the adapter, a step *)
(* has one of seven effects on what the client sees; the invariants are     *)
(* shown for the effects.  What the provider gets is a matter of sequences: *)
(* messages chosen by role and then read are messages read in their places. *)
(***************************************************************************)
EXTENDS StreamDetok, ProviderStream, Sequence_proofs, FiniteSetTheorems

Char == STRING
Text == Seq(Char)
USE DEF Text
Out == Char \cup {resolved[p] : p \in Known}

\* p stands at position i of t, as a whole.
Starts(t, i, p) ==
    /\ i \in 1 .. Len(t) - Len(p) + 1
    /\ \A k \in 1 .. Len(p) : t[i + k - 1] = p[k]

\* What detokenize puts in the place of the character at position i.
Piece(t, i) ==
    IF \E p \in Known : Starts(t, i, p)
    THEN << resolved[CHOOSE p \in Known : Starts(t, i, p)] >>
    ELSE IF \E p \in Known : \E j \in i - Len(p) + 1 .. i : Starts(t, j, p) THEN << >> ELSE << t[i] >>

Pieces(t) == [i \in 1 .. Len(t) |-> Piece(t, i)]

\* t and p agree from position i on, as far as t goes: p may be cut off at its end.
Begins(t, i, p) ==
    /\ i \in 1 .. Len(t)
    /\ \A k \in 1 .. Len(p) : i + k - 1 <= Len(t) => t[i + k - 1] = p[k]

\* No placeholder of the map goes through the cut after position a, not even one
\* that only further text would complete.
CleanCut(t, a) == \A p \in Known : \A i \in 1 .. a : Begins(t, i, p) => i + Len(p) - 1 <= a

-----------------------------------------------------------------------------
(* The shape of what the two regular expressions match *)

\* The characters inside a placeholder are neither brackets nor ends of lines.
Inner == TypeChar \cup HexChar

LEMMA InnerChars == "[" \notin Inner /\ "]" \notin Inner /\ Newline \notin Inner
BY DEF Inner, TypeChar, HexChar, Upper, Digit, HexLetter, Newline


\* A placeholder is a word in double brackets: a type, "_", a hex suffix.
LEMMA PlaceholderType ==
    ASSUME NEW p \in Text, IsPlaceholder(p)
    PROVE  /\ Len(p) \in Nat /\ Len(p) >= 6
           /\ p[1] = "[" /\ p[2] = "[" /\ p[Len(p) - 1] = "]" /\ p[Len(p)] = "]"
           /\ \E type \in 4 .. Len(p) - 2 :
                 /\ p[type] = "_"
                 /\ \A i \in 3 .. type - 1 : p[i] \in TypeChar
                 /\ \A i \in type + 1 .. Len(p) - 2 : p[i] \in HexChar
<1>0. MinHex \in Nat /\ MaxHex \in Nat /\ Len(p) \in Nat
  BY StreamAssumption DEF Text
<1>1. \E type \in 3 .. Len(p) :
        /\ type > 3 /\ Len(p) - 2 - type \in MinHex .. MaxHex
        /\ p[type] = "_"
        /\ \A i \in 3 .. type - 1 : p[i] \in TypeChar
        /\ \A i \in type + 1 .. Len(p) - 2 : p[i] \in HexChar
  BY DEF IsPlaceholder
<1>2. PICK type \in 3 .. Len(p) :
        /\ type > 3 /\ Len(p) - 2 - type \in MinHex .. MaxHex
        /\ p[type] = "_"
        /\ \A i \in 3 .. type - 1 : p[i] \in TypeChar
        /\ \A i \in type + 1 .. Len(p) - 2 : p[i] \in HexChar
  BY <1>1
<1>3. type \in 4 .. Len(p) - 2 /\ Len(p) >= 6
  <2>1. type > 3 /\ Len(p) - 2 - type \in MinHex .. MaxHex
    BY <1>2
  <2> QED BY <1>0, <2>1
<1>a. Len(p) >= 6
  BY <1>3
<1>4. SubSeq(p, 1, 2) = <<"[", "[">> /\ SubSeq(p, Len(p) - 1, Len(p)) = <<"]", "]">>
  BY DEF IsPlaceholder
<1>5. p[1] = "[" /\ p[2] = "["
  BY <1>a, <1>4, FirstTwo
<1>6. p[Len(p) - 1] = "]" /\ p[Len(p)] = "]"
  BY <1>a, <1>4, LastTwo
<1> QED BY <1>0, <1>2, <1>3, <1>5, <1>6

\* What _PARTIAL_TAIL_RE matches starts like a placeholder and has no bracket inside:
\* only its last character may close.
LEMMA PartialShape ==
    ASSUME NEW s \in Text, IsPartial(s)
    PROVE  Len(s) >= 1 /\ s[1] = "[" /\ \A i \in 2 .. Len(s) - 1 : s[i] # "]"
<1>0. Len(s) \in Nat
  BY DEF Text
<1>1. CASE s = <<"[">>
  BY <1>1
<1>2. CASE s # <<"[">>
  <2> DEFINE last == IF s[Len(s)] = "]" THEN Len(s) - 1 ELSE Len(s)
  <2>1. Len(s) >= 2 /\ SubSeq(s, 1, 2) = <<"[", "[">>
    BY <1>2 DEF IsPartial
  <2>2. s[1] = "[" /\ s[2] = "["
    BY <2>1, FirstTwo
  <2>3. last \in Int /\ Len(s) - 1 <= last
    BY <1>0
  <2>4. \/ \A i \in 3 .. last : s[i] \in TypeChar
        \/ \E k \in 3 .. last :
              /\ s[k] = "_"
              /\ \A i \in 3 .. k - 1 : s[i] \in TypeChar
              /\ \A i \in k + 1 .. last : s[i] \in HexChar
    BY <1>2 DEF IsPartial
  <2> HIDE DEF last
  <2>5. \A i \in 3 .. Len(s) - 1 : s[i] \in Inner
    <3>1. CASE \A i \in 3 .. last : s[i] \in TypeChar
      BY <1>0, <2>3, <3>1 DEF Inner
    <3>2. ASSUME NEW k \in 3 .. last, s[k] = "_",
                 \A i \in 3 .. k - 1 : s[i] \in TypeChar, \A i \in k + 1 .. last : s[i] \in HexChar
          PROVE  \A i \in 3 .. Len(s) - 1 : s[i] \in Inner
      <4> TAKE i \in 3 .. Len(s) - 1
      <4>1. i \in 3 .. k - 1 \/ i = k \/ i \in k + 1 .. last
        BY <1>0, <2>3
      <4> QED BY <4>1, <3>2 DEF Inner, TypeChar
    <3> QED BY <2>4, <3>1, <3>2
  <2>6. ASSUME NEW i \in 2 .. Len(s) - 1 PROVE s[i] # "]"
    <3>1. i = 2 \/ i \in 3 .. Len(s) - 1
      BY <1>0
    <3> QED BY <3>1, <2>2, <2>5, InnerChars
  <2> QED BY <2>1, <2>2, <2>6
<1> QED BY <1>1, <1>2

\* A placeholder that is cut off is matched.
LEMMA PrefixIsPartial ==
    ASSUME NEW p \in Text, IsPlaceholder(p), NEW s \in Text,
           Len(s) >= 1, Len(s) < Len(p), \A k \in 1 .. Len(s) : s[k] = p[k]
    PROVE  IsPartial(s)
<1>0. Len(s) \in Nat /\ Len(p) \in Nat /\ Len(p) >= 6
  <2>1. Len(s) \in Nat
    OBVIOUS
  <2> QED BY <2>1, PlaceholderType
<1>1. p[1] = "[" /\ p[2] = "[" /\ p[Len(p) - 1] = "]"
  BY PlaceholderType
<1>2. PICK type \in 4 .. Len(p) - 2 :
        /\ p[type] = "_"
        /\ \A i \in 3 .. type - 1 : p[i] \in TypeChar
        /\ \A i \in type + 1 .. Len(p) - 2 : p[i] \in HexChar
  BY PlaceholderType
<1>3. CASE Len(s) <= 1
  <2>1. s = <<"[">>
    <3>1. s[1] = "[" /\ Len(s) <= 1
      BY <1>0, <1>1, <1>3
    <3> QED BY <3>1, OneElement
  <2> QED BY <2>1 DEF IsPartial
<1>4. CASE Len(s) >= 2
  <2> DEFINE last == IF s[Len(s)] = "]" THEN Len(s) - 1 ELSE Len(s)
  <2>1. SubSeq(s, 1, 2) = <<"[", "[">>
    <3>1. s[1] = "[" /\ s[2] = "["
      BY <1>0, <1>1, <1>4
    <3> QED BY <3>1, <1>4, FirstTwo
  <2>2. last \in Int /\ last <= Len(s) /\ last <= Len(p) - 2
    <3>1. CASE Len(s) = Len(p) - 1
      <4>1. s[Len(s)] = "]"
        BY <3>1, <1>0, <1>1
      <4> QED BY <4>1, <3>1, <1>0
    <3>2. CASE Len(s) < Len(p) - 1
      BY <3>2, <1>0
    <3> QED BY <3>1, <3>2, <1>0
  <2> HIDE DEF last
  <2>3. \/ \A i \in 3 .. last : s[i] \in TypeChar
        \/ \E k \in 3 .. last :
              /\ s[k] = "_"
              /\ \A i \in 3 .. k - 1 : s[i] \in TypeChar
              /\ \A i \in k + 1 .. last : s[i] \in HexChar
    <3>1. \A i \in 3 .. last : s[i] = p[i]
      BY <1>0, <2>2
    <3>2. CASE last < type
      <4>1. \A i \in 3 .. last : i \in 3 .. type - 1
        BY <2>2, <3>2
      <4> QED BY <4>1, <3>1, <1>2
    <3>3. CASE last >= type
      <4>1. type \in 3 .. last
        BY <1>0, <2>2, <3>3
      <4>2. s[type] = "_"
        BY <4>1, <3>1, <1>2
      <4>3. \A i \in 3 .. type - 1 : i \in 3 .. last
        BY <4>1, <2>2
      <4>4. \A i \in type + 1 .. last : i \in 3 .. last /\ i \in type + 1 .. Len(p) - 2
        BY <4>1, <1>0, <2>2
      <4>5. /\ \A i \in 3 .. type - 1 : s[i] \in TypeChar
            /\ \A i \in type + 1 .. last : s[i] \in HexChar
        BY <4>3, <4>4, <3>1, <1>2
      <4> QED BY <4>1, <4>2, <4>5
    <3>4. last < type \/ last >= type
      BY <2>2
    <3> QED BY <3>2, <3>3, <3>4
  <2> QED BY <1>4, <2>1, <2>3 DEF IsPartial, last
<1>5. Len(s) <= 1 \/ Len(s) >= 2
  BY <1>0
<1> QED BY <1>3, <1>4, <1>5

-----------------------------------------------------------------------------
(* What is held back *)

\* The tail of t from position m on is matched, perhaps before a final newline.
Hit(t, m) ==
    \/ IsPartial(SubSeq(t, m, Len(t)))
    \/ Last(t) = Newline /\ IsPartial(Front(SubSeq(t, m, Len(t))))

\* A stretch of a text, character by character.
LEMMA Stretch ==
    ASSUME NEW t \in Text, NEW m \in 1 .. Len(t) + 1, NEW n \in 0 .. Len(t), m <= n + 1
    PROVE  /\ SubSeq(t, m, n) \in Text
           /\ Len(SubSeq(t, m, n)) = n - m + 1
           /\ \A k \in 1 .. n - m + 1 : SubSeq(t, m, n)[k] = t[m + k - 1]
<1>1. \A i \in m .. n : t[i] \in Char
  OBVIOUS
<1>2. m \in Int /\ n \in Int
  OBVIOUS
<1>3. (IF m <= n THEN n - m + 1 ELSE 0) = n - m + 1
  OBVIOUS
<1> QED BY <1>1, <1>2, <1>3, SubSeqProperties

\* A matched tail opens with a bracket; none closes but at its end.
LEMMA HitShape ==
    ASSUME NEW t \in Text, NEW m \in 1 .. Len(t), Hit(t, m)
    PROVE  \E n \in m .. Len(t) :
              /\ t[m] = "[" /\ \A k \in m + 1 .. n - 1 : t[k] # "]"
              /\ n = Len(t) \/ (n = Len(t) - 1 /\ t[Len(t)] = Newline)
<1>0. Len(t) \in Nat
  OBVIOUS
<1>1. ASSUME NEW n \in m - 1 .. Len(t), IsPartial(SubSeq(t, m, n))
      PROVE  n \in m .. Len(t) /\ t[m] = "[" /\ \A k \in m + 1 .. n - 1 : t[k] # "]"
  <2> DEFINE u == SubSeq(t, m, n)
  <2>1. u \in Text /\ Len(u) = n - m + 1 /\ \A k \in 1 .. n - m + 1 : u[k] = t[m + k - 1]
    <3>1. m \in 1 .. Len(t) + 1 /\ n \in 0 .. Len(t) /\ m <= n + 1
      BY <1>0
    <3> QED BY <3>1, Stretch
  <2>2. Len(u) >= 1 /\ u[1] = "[" /\ \A i \in 2 .. Len(u) - 1 : u[i] # "]"
    BY <1>1, <2>1, PartialShape
  <2> HIDE DEF u
  <2>3. n >= m
    BY <1>0, <2>1, <2>2
  <2>4. t[m] = "["
    <3>1. u[1] = t[m + 1 - 1] /\ m + 1 - 1 = m
      BY <2>1, <2>3
    <3>2. u[1] = "["
      BY <2>2
    <3> QED BY <3>1, <3>2
  <2>5. ASSUME NEW k \in m + 1 .. n - 1 PROVE t[k] # "]"
    <3>1. k - m + 1 \in 2 .. n - m /\ k - m + 1 \in 1 .. n - m + 1 /\ m + (k - m + 1) - 1 = k
      BY <1>0
    <3>2. u[k - m + 1] = t[m + (k - m + 1) - 1]
      BY <3>1, <2>1
    <3>3. u[k - m + 1] # "]"
      BY <3>1, <2>1, <2>2
    <3> QED BY <3>1, <3>2, <3>3
  <2> QED BY <1>0, <2>3, <2>4, <2>5
<1>2. CASE IsPartial(SubSeq(t, m, Len(t)))
  <2>1. Len(t) \in m - 1 .. Len(t)
    BY <1>0
  <2> QED BY <1>1, <1>2, <2>1
<1>3. CASE Last(t) = Newline /\ IsPartial(Front(SubSeq(t, m, Len(t))))
  <2> DEFINE u == SubSeq(t, m, Len(t))
             v == SubSeq(t, m, Len(t) - 1)
  <2>1. u \in Text /\ Len(u) = Len(t) - m + 1 /\ \A k \in 1 .. Len(t) - m + 1 : u[k] = t[m + k - 1]
    <3>1. m \in 1 .. Len(t) + 1 /\ Len(t) \in 0 .. Len(t) /\ m <= Len(t) + 1
      BY <1>0
    <3> QED BY <3>1, Stretch
  <2>2. v \in Text /\ Len(v) = Len(t) - m /\ \A k \in 1 .. Len(t) - m : v[k] = t[m + k - 1]
    <3>1. /\ m \in 1 .. Len(t) + 1 /\ Len(t) - 1 \in 0 .. Len(t) /\ m <= (Len(t) - 1) + 1
          /\ (Len(t) - 1) - m + 1 = Len(t) - m
      BY <1>0
    <3> QED BY <3>1, Stretch
  <2> HIDE DEF u, v
  <2>3. /\ Front(u) \in Text /\ Len(Front(u)) = Len(t) - m
        /\ \A k \in 1 .. Len(t) - m : Front(u)[k] = u[k]
    <3> DEFINE l == Len(t) - m
    <3>1. l \in Nat /\ l \in 0 .. Len(u) /\ 1 \in 1 .. Len(u) + 1 /\ 1 <= l + 1 /\ Len(u) - 1 = l
      BY <1>0, <2>1
    <3>2. Front(u) = SubSeq(u, 1, l)
      BY <3>1 DEF Front
    <3> HIDE DEF l
    <3>3. /\ SubSeq(u, 1, l) \in Text /\ Len(SubSeq(u, 1, l)) = l - 1 + 1
          /\ \A k \in 1 .. l - 1 + 1 : SubSeq(u, 1, l)[k] = u[1 + k - 1]
      BY <2>1, <3>1, Stretch
    <3>4. l - 1 + 1 = l /\ \A k \in 1 .. l : 1 + k - 1 = k
      BY <3>1
    <3> QED BY <3>2, <3>3, <3>4 DEF l
  <2>4. Front(u) = v
    <3>1. \A k \in 1 .. Len(t) - m : Front(u)[k] = v[k]
      BY <1>0, <2>1, <2>2, <2>3
    <3> QED BY <2>2, <2>3, <3>1, SeqEqual
  <2>5. IsPartial(SubSeq(t, m, Len(t) - 1)) /\ Len(t) - 1 \in m - 1 .. Len(t)
    BY <1>0, <1>3, <2>4 DEF u, v
  <2>6. t[Len(t)] = Newline
    BY <1>3 DEF Last
  <2> QED BY <1>0, <1>1, <2>5, <2>6
<1> QED BY <1>2, <1>3 DEF Hit

\* No complete placeholder reaches into a matched tail.
LEMMA CompleteBeforeHit ==
    ASSUME NEW t \in Text, NEW p \in Text, IsPlaceholder(p), NEW i, Starts(t, i, p),
           NEW m \in 1 .. Len(t), Hit(t, m)
    PROVE  i + Len(p) - 1 < m
<1>0. Len(t) \in Nat /\ Len(p) \in Nat /\ Len(p) >= 6
  <2>1. Len(t) \in Nat
    OBVIOUS
  <2> QED BY <2>1, PlaceholderType
<1>1. i \in 1 .. Len(t) - Len(p) + 1
  BY DEF Starts
<1>2. t[i + Len(p) - 2] = "]" /\ t[i + Len(p) - 1] = "]"
  <2>1. p[Len(p) - 1] = "]" /\ p[Len(p)] = "]"
    BY PlaceholderType
  <2>2. /\ Len(p) - 1 \in 1 .. Len(p) /\ Len(p) \in 1 .. Len(p)
        /\ i + (Len(p) - 1) - 1 = i + Len(p) - 2
    BY <1>0, <1>1
  <2>3. t[i + (Len(p) - 1) - 1] = p[Len(p) - 1] /\ t[i + Len(p) - 1] = p[Len(p)]
    BY <2>2 DEF Starts
  <2> QED BY <2>1, <2>2, <2>3
<1>3. PICK n \in m .. Len(t) :
        /\ t[m] = "[" /\ \A k \in m + 1 .. n - 1 : t[k] # "]"
        /\ n = Len(t) \/ (n = Len(t) - 1 /\ t[Len(t)] = Newline)
  BY HitShape
<1> DEFINE e == i + Len(p) - 1
<1>4. e \in 1 .. Len(t) /\ e - 1 = i + Len(p) - 2
  BY <1>0, <1>1
<1>5. t[e] = "]" /\ t[e - 1] = "]"
  BY <1>2, <1>4
<1> HIDE DEF e
<1> SUFFICES ASSUME e >= m PROVE FALSE
  BY <1>0, <1>1, <1>4 DEF e
<1>6. e # m /\ e - 1 # m
  BY <1>3, <1>5
<1>7. e - 1 \in m + 1 .. Len(t) - 1
  BY <1>0, <1>4, <1>6
<1>8. ~(e - 1 \in m + 1 .. n - 1)
  BY <1>3, <1>5
<1>9. n = Len(t) - 1 /\ e = Len(t)
  BY <1>0, <1>3, <1>4, <1>7, <1>8
<1> QED BY <1>3, <1>5, <1>9, <1>0 DEF Newline

\* trailing_partial_len is the length of the longest matched tail.
LEMMA TrailingIs ==
    ASSUME NEW t \in Text
    PROVE  /\ trailing_partial_len(t) \in 0 .. Len(t)
           /\ trailing_partial_len(t) > 0 => Hit(t, Len(t) - trailing_partial_len(t) + 1)
           /\ \A m \in 1 .. Len(t) : Hit(t, m) => Len(t) - m + 1 <= trailing_partial_len(t)
<1> DEFINE hits == {i \in 1 .. Len(t) : Hit(t, i)}
<1>0. Len(t) \in Nat
  OBVIOUS
<1>1. trailing_partial_len(t) = IF hits = {} THEN 0 ELSE Len(t) - Min(hits) + 1
  BY DEF trailing_partial_len, Hit
<1>2. CASE hits = {}
  BY <1>0, <1>1, <1>2
<1>3. CASE hits # {}
  <2>1. hits \subseteq Nat
    OBVIOUS
  <2>2. \E x \in hits : \A y \in hits : x <= y
    BY <1>3, <2>1, LeastElement
  <2>3. Min(hits) \in hits /\ \A y \in hits : Min(hits) <= y
    BY <2>2 DEF Min
  <2>4. Min(hits) \in 1 .. Len(t) /\ Hit(t, Min(hits))
    BY <2>3
  <2>5. trailing_partial_len(t) = Len(t) - Min(hits) + 1
    BY <1>1, <1>3
  <2>6. Len(t) - (Len(t) - Min(hits) + 1) + 1 = Min(hits)
    BY <1>0, <2>4
  <2>7. \A m \in 1 .. Len(t) : Hit(t, m) => Min(hits) <= m
    BY <2>3
  <2> HIDE DEF hits
  <2> QED BY <1>0, <2>4, <2>5, <2>6, <2>7
<1> QED BY <1>2, <1>3

\* The placeholders of the map are texts, no longer than the limit.
LEMMA KnownIs ==
    ASSUME NEW p \in Known
    PROVE  p \in Text /\ IsPlaceholder(p) /\ Len(p) <= MAX_PLACEHOLDER_LEN /\ Len(p) \in Nat /\ Len(p) >= 6
<1>1. p \in Text /\ IsPlaceholder(p) /\ Len(p) <= MAX_PLACEHOLDER_LEN
  BY StreamAssumption DEF Char
<1> QED BY <1>1, PlaceholderType

\* The buffer is never longer than the limit or than the text.
LEMMA HoldIs ==
    ASSUME NEW t \in Text
    PROVE  /\ hold_len(t) \in 0 .. Len(t) /\ hold_len(t) <= MAX_PLACEHOLDER_LEN
           /\ hold_len(t) <= trailing_partial_len(t)
           /\ hold_len(t) = trailing_partial_len(t) \/ hold_len(t) = MAX_PLACEHOLDER_LEN
<1>1. trailing_partial_len(t) \in 0 .. Len(t) /\ Len(t) \in Nat
  BY TrailingIs
<1>2. MAX_PLACEHOLDER_LEN \in Nat
  BY StreamAssumption
<1> QED BY <1>1, <1>2 DEF hold_len

\* Every placeholder that is complete is sent.
LEMMA CompleteIsSent ==
    ASSUME NEW t \in Text, NEW p \in Known, NEW i, Starts(t, i, p)
    PROVE  i + Len(p) - 1 <= Len(t) - hold_len(t)
<1>0. Len(t) \in Nat /\ p \in Text /\ IsPlaceholder(p) /\ Len(p) \in Nat /\ Len(p) >= 6
  <2>1. Len(t) \in Nat
    OBVIOUS
  <2> QED BY <2>1, KnownIs
<1>1. i \in 1 .. Len(t) - Len(p) + 1
  BY DEF Starts
<1> DEFINE h == trailing_partial_len(t)
<1>2. hold_len(t) \in 0 .. Len(t) /\ hold_len(t) <= h /\ h \in 0 .. Len(t)
  BY HoldIs, TrailingIs
<1>3. CASE h > 0
  <2>1. Hit(t, Len(t) - h + 1) /\ Len(t) - h + 1 \in 1 .. Len(t)
    BY <1>0, <1>2, <1>3, TrailingIs
  <2>2. i + Len(p) - 1 < Len(t) - h + 1
    BY <1>0, <2>1, CompleteBeforeHit
  <2> QED BY <1>0, <1>1, <1>2, <2>2
<1>4. CASE h = 0
  BY <1>0, <1>1, <1>2, <1>4
<1> QED BY <1>2, <1>3, <1>4

\* The cut of push goes through no placeholder, whatever text follows.
LEMMA CutIsClean ==
    ASSUME NEW t \in Text
    PROVE  CleanCut(t, Len(t) - hold_len(t))
<1> DEFINE c == Len(t) - hold_len(t)
<1>0. Len(t) \in Nat /\ hold_len(t) \in 0 .. Len(t) /\ c \in 0 .. Len(t)
  <2>1. Len(t) \in Nat
    OBVIOUS
  <2>2. hold_len(t) \in 0 .. Len(t)
    BY HoldIs
  <2> QED BY <2>1, <2>2
<1> SUFFICES ASSUME NEW p \in Known, NEW i \in 1 .. c, Begins(t, i, p), ~(i + Len(p) - 1 <= c)
             PROVE  FALSE
  BY DEF CleanCut
<1>1. p \in Text /\ IsPlaceholder(p) /\ Len(p) <= MAX_PLACEHOLDER_LEN /\ Len(p) \in Nat /\ Len(p) >= 6
  BY KnownIs
<1>2. CASE i + Len(p) - 1 <= Len(t)
  <2>1. \A k \in 1 .. Len(p) : i + k - 1 <= Len(t)
    BY <1>0, <1>1, <1>2
  <2>2. Starts(t, i, p)
    BY <1>0, <1>1, <1>2, <2>1 DEF Starts, Begins
  <2> QED BY <2>2, CompleteIsSent
<1>3. CASE i + Len(p) - 1 > Len(t)
  <2> DEFINE u == SubSeq(t, i, Len(t))
  <2>1. u \in Text /\ Len(u) = Len(t) - i + 1 /\ \A k \in 1 .. Len(t) - i + 1 : u[k] = t[i + k - 1]
    <3>1. i \in 1 .. Len(t) + 1 /\ Len(t) \in 0 .. Len(t) /\ i <= Len(t) + 1
      BY <1>0
    <3> QED BY <3>1, Stretch
  <2> HIDE DEF u
  <2>2. \A k \in 1 .. Len(t) - i + 1 : k \in 1 .. Len(p) /\ i + k - 1 <= Len(t)
    BY <1>0, <1>1, <1>3
  <2>3. \A k \in 1 .. Len(u) : u[k] = p[k]
    BY <2>1, <2>2 DEF Begins
  <2>4. Len(u) >= 1 /\ Len(u) < Len(p)
    BY <1>0, <1>1, <1>3, <2>1
  <2>5. IsPartial(u)
    BY <1>1, <2>1, <2>3, <2>4, PrefixIsPartial
  <2>6. Hit(t, i) /\ i \in 1 .. Len(t)
    BY <2>5, <1>0 DEF Hit, u
  <2>7. Len(t) - i + 1 <= trailing_partial_len(t)
    BY <2>6, TrailingIs
  <2>8. hold_len(t) = trailing_partial_len(t) \/ hold_len(t) = MAX_PLACEHOLDER_LEN
    BY HoldIs
  <2>9. MAX_PLACEHOLDER_LEN \in Nat /\ trailing_partial_len(t) \in Nat
    BY StreamAssumption, TrailingIs
  <2> QED BY <1>0, <1>1, <2>1, <2>4, <2>7, <2>8, <2>9
<1> QED BY <1>0, <1>1, <1>2, <1>3

-----------------------------------------------------------------------------
(* De-tokenizing the two sides of a cut *)

LEMMA detokenizeIs ==
    ASSUME NEW t \in Text
    PROVE  detokenize(t) = FlattenSeq(Pieces(t))
<1> DEFINE starts(i, p) == i \in 1 .. Len(t) - Len(p) + 1 /\ SubSeq(t, i, i + Len(p) - 1) = p
           inside(i, p) == \E j \in i - Len(p) + 1 .. i : starts(j, p)
           piece(i) ==
               IF \E p \in Known : starts(i, p)
               THEN << resolved[CHOOSE p \in Known : starts(i, p)] >>
               ELSE IF \E p \in Known : inside(i, p) THEN << >> ELSE << t[i] >>
<1>0. Len(t) \in Nat
  OBVIOUS
<1>1. detokenize(t) = FlattenSeq([i \in 1 .. Len(t) |-> piece(i)])
  BY DEF detokenize
<1>2. ASSUME NEW i, NEW p \in Known PROVE starts(i, p) <=> Starts(t, i, p)
  <2>0. p \in Text /\ Len(p) \in Nat /\ Len(p) >= 6
    BY KnownIs
  <2>1. CASE i \in 1 .. Len(t) - Len(p) + 1
    <3> DEFINE e == i + Len(p) - 1
               u == SubSeq(t, i, e)
    <3>1. i \in 1 .. Len(t) + 1 /\ e \in 0 .. Len(t) /\ i <= e + 1 /\ e - i + 1 = Len(p)
      BY <1>0, <2>0, <2>1
    <3> HIDE DEF e
    <3>2. u \in Text /\ Len(u) = e - i + 1 /\ \A k \in 1 .. e - i + 1 : u[k] = t[i + k - 1]
      BY <3>1, Stretch
    <3> HIDE DEF u
    <3>3. u = p <=> \A k \in 1 .. Len(p) : u[k] = p[k]
      BY <2>0, <3>1, <3>2, SeqEqual
    <3>4. u = p <=> \A k \in 1 .. Len(p) : t[i + k - 1] = p[k]
      BY <3>1, <3>2, <3>3
    <3> QED BY <2>1, <3>4 DEF Starts, u, e
  <2>2. CASE ~(i \in 1 .. Len(t) - Len(p) + 1)
    BY <2>2 DEF Starts
  <2> QED BY <2>1, <2>2
<1> HIDE DEF starts
<1>3. ASSUME NEW i \in 1 .. Len(t) PROVE piece(i) = Piece(t, i)
  <2>1. (\E p \in Known : starts(i, p)) <=> (\E p \in Known : Starts(t, i, p))
    BY <1>2
  <2>2. (CHOOSE p \in Known : starts(i, p)) = (CHOOSE p \in Known : Starts(t, i, p))
    BY <1>2
  <2>3. (\E p \in Known : inside(i, p))
            <=> (\E p \in Known : \E j \in i - Len(p) + 1 .. i : Starts(t, j, p))
    BY <1>2
  <2> QED BY <2>1, <2>2, <2>3 DEF Piece
<1> HIDE DEF piece
<1>4. [i \in 1 .. Len(t) |-> piece(i)] = Pieces(t)
  BY <1>3 DEF Pieces
<1> QED BY <1>1, <1>4

LEMMA PiecesType ==
    ASSUME NEW t \in Text
    PROVE  /\ Pieces(t) \in Seq(Seq(Out)) /\ Len(Pieces(t)) = Len(t)
           /\ \A i \in 1 .. Len(t) : Pieces(t)[i] = Piece(t, i)
<1>0. Len(t) \in Nat
  OBVIOUS
<1>1. ASSUME NEW i \in 1 .. Len(t) PROVE Piece(t, i) \in Seq(Out)
  <2>1. t[i] \in Out
    <3>1. t[i] \in Char
      OBVIOUS
    <3> QED BY <3>1 DEF Out
  <2>2. CASE \E p \in Known : Starts(t, i, p)
    <3> DEFINE q == CHOOSE p \in Known : Starts(t, i, p)
    <3>1. q \in Known
      BY <2>2
    <3>2. resolved[q] \in Out
      BY <3>1 DEF Out
    <3>3. Piece(t, i) = << resolved[q] >>
      BY <2>2 DEF Piece
    <3> HIDE DEF q
    <3> QED BY <3>2, <3>3
  <2>3. CASE ~ \E p \in Known : Starts(t, i, p)
    BY <2>1, <2>3 DEF Piece
  <2> QED BY <2>2, <2>3
<1>2. Pieces(t) \in [1 .. Len(t) -> Seq(Out)]
  BY <1>1 DEF Pieces
<1> QED BY <1>0, <1>2 DEF Pieces

\* De-tokenizing gives a text in which values stand for placeholders.
LEMMA detokenizeType ==
    /\ \A t \in Text : detokenize(t) \in Seq(Out)
    /\ detokenize(<< >>) = << >>
<1>1. ASSUME NEW t \in Text PROVE detokenize(t) \in Seq(Out)
  BY PiecesType, detokenizeIs, FlattenSeqType
<1>2. << >> \in Text /\ Len(<< >>) = 0
  OBVIOUS
<1>3. Pieces(<< >>) = << >>
  <2>1. Pieces(<< >>) \in Seq(Seq(Out)) /\ Len(Pieces(<< >>)) = 0
    BY <1>2, PiecesType
  <2> QED BY <2>1, EmptySeq
<1>4. detokenize(<< >>) = << >>
  BY <1>2, <1>3, detokenizeIs, FlattenSeqType
<1> QED BY <1>1, <1>4

\* A cut that goes through no placeholder leaves every piece as it is.
LEMMA SplitPieces ==
    ASSUME NEW x \in Text, NEW y \in Text,
           \A p \in Known : \A i \in 1 .. Len(x) : Starts(x \o y, i, p) => i + Len(p) - 1 <= Len(x)
    PROVE  Pieces(x \o y) = Pieces(x) \o Pieces(y)
<1> DEFINE t == x \o y
           n == Len(x)
<1>0. /\ t \in Text /\ n \in Nat /\ Len(y) \in Nat /\ Len(t) = n + Len(y)
      /\ \A k \in 1 .. n : t[k] = x[k]
      /\ \A k \in 1 .. Len(y) : t[n + k] = y[k]
  OBVIOUS
<1> HIDE DEF t
<1>1. ASSUME NEW p \in Known, NEW i \in Int, i <= n PROVE Starts(t, i, p) <=> Starts(x, i, p)
  <2>0. Len(p) \in Nat /\ Len(p) >= 6
    BY KnownIs
  <2>1. ASSUME Starts(t, i, p) PROVE Starts(x, i, p)
    <3>1. i \in 1 .. n
      BY <1>0, <1>1, <2>0, <2>1 DEF Starts
    <3>2. i + Len(p) - 1 <= n
      BY <2>1, <3>1 DEF t
    <3>3. \A k \in 1 .. Len(p) : i + k - 1 \in 1 .. n
      BY <2>0, <3>1, <3>2, <1>0
    <3>4. \A k \in 1 .. Len(p) : x[i + k - 1] = p[k]
      BY <1>0, <2>1, <3>3 DEF Starts
    <3> QED BY <3>1, <3>2, <3>4, <1>0, <2>0 DEF Starts
  <2>2. ASSUME Starts(x, i, p) PROVE Starts(t, i, p)
    <3>1. i \in 1 .. n - Len(p) + 1
      BY <2>2 DEF Starts
    <3>2. i \in 1 .. Len(t) - Len(p) + 1
      BY <1>0, <2>0, <3>1
    <3>3. \A k \in 1 .. Len(p) : i + k - 1 \in 1 .. n
      BY <1>0, <2>0, <3>1
    <3>4. \A k \in 1 .. Len(p) : t[i + k - 1] = p[k]
      BY <1>0, <2>2, <3>3 DEF Starts
    <3> QED BY <3>2, <3>4 DEF Starts
  <2> QED BY <2>1, <2>2
<1>2. ASSUME NEW p \in Known, NEW i \in Int, i > n PROVE Starts(t, i, p) <=> Starts(y, i - n, p)
  <2>0. Len(p) \in Nat /\ Len(p) >= 6
    BY KnownIs
  <2>1. i \in 1 .. Len(t) - Len(p) + 1 <=> i - n \in 1 .. Len(y) - Len(p) + 1
    BY <1>0, <1>2, <2>0
  <2>2. ASSUME i - n \in 1 .. Len(y) - Len(p) + 1, NEW k \in 1 .. Len(p)
        PROVE  t[i + k - 1] = y[(i - n) + k - 1]
    <3>1. (i - n) + k - 1 \in 1 .. Len(y) /\ n + ((i - n) + k - 1) = i + k - 1
      BY <1>0, <2>0, <2>2
    <3> QED BY <1>0, <3>1
  <2> QED BY <2>1, <2>2 DEF Starts
<1>3. ASSUME NEW p \in Known, NEW j \in Int, j <= n, Starts(t, j, p) PROVE j + Len(p) - 1 <= n
  <2>1. j \in 1 .. n
    BY <1>0, <1>3 DEF Starts
  <2> QED BY <1>3, <2>1 DEF t
<1> HIDE DEF n
<1>4. ASSUME NEW i \in 1 .. n PROVE Piece(t, i) = Piece(x, i)
  <2>1. i \in Int /\ i <= n
    BY <1>0
  <2>2. \A p \in Known : Starts(t, i, p) <=> Starts(x, i, p)
    BY <1>1, <2>1
  <2>3. ASSUME NEW p \in Known, NEW j \in i - Len(p) + 1 .. i
        PROVE  Starts(t, j, p) <=> Starts(x, j, p)
    <3>1. Len(p) \in Nat
      BY KnownIs
    <3>2. j \in Int /\ j <= n
      BY <1>0, <3>1
    <3> QED BY <1>1, <3>2
  <2>4. (\E p \in Known : Starts(t, i, p)) <=> (\E p \in Known : Starts(x, i, p))
    BY <2>2
  <2>5. (CHOOSE p \in Known : Starts(t, i, p)) = (CHOOSE p \in Known : Starts(x, i, p))
    BY <2>2
  <2>6. (\E p \in Known : \E j \in i - Len(p) + 1 .. i : Starts(t, j, p))
            <=> (\E p \in Known : \E j \in i - Len(p) + 1 .. i : Starts(x, j, p))
    BY <2>3
  <2>7. t[i] = x[i]
    BY <1>0
  <2> QED BY <2>4, <2>5, <2>6, <2>7 DEF Piece
<1>5. ASSUME NEW i \in 1 .. Len(y) PROVE Piece(t, n + i) = Piece(y, i)
  <2>1. n + i \in Int /\ n + i > n /\ (n + i) - n = i
    BY <1>0
  <2>2. \A p \in Known : Starts(t, n + i, p) <=> Starts(y, i, p)
    BY <1>2, <2>1
  <2>3. ASSUME NEW p \in Known
        PROVE  (\E j \in (n + i) - Len(p) + 1 .. n + i : Starts(t, j, p))
                  <=> (\E j \in i - Len(p) + 1 .. i : Starts(y, j, p))
    <3>0. Len(p) \in Nat
      BY KnownIs
    <3>1. ASSUME NEW j \in (n + i) - Len(p) + 1 .. n + i, Starts(t, j, p)
          PROVE  \E k \in i - Len(p) + 1 .. i : Starts(y, k, p)
      <4>0. n \in Nat /\ i \in Nat /\ i >= 1 /\ j \in Int /\ j >= (n + i) - Len(p) + 1
        BY <1>0, <3>0
      <4>1. j \in Int /\ j > n
        <5>1. j <= n => j + Len(p) - 1 <= n
          BY <1>3, <3>1, <4>0
        <5> QED BY <3>0, <4>0, <5>1
      <4>2. Starts(y, j - n, p)
        BY <1>2, <3>1, <4>1
      <4>3. j - n \in i - Len(p) + 1 .. i
        BY <1>0, <3>0
      <4> QED BY <4>2, <4>3
    <3>2. ASSUME NEW k \in i - Len(p) + 1 .. i, Starts(y, k, p)
          PROVE  \E j \in (n + i) - Len(p) + 1 .. n + i : Starts(t, j, p)
      <4>1. k \in 1 .. Len(y) - Len(p) + 1
        BY <3>2 DEF Starts
      <4>2. n + k \in Int /\ n + k > n /\ (n + k) - n = k
        BY <1>0, <4>1
      <4>3. Starts(t, n + k, p)
        BY <1>2, <3>2, <4>2
      <4>4. n + k \in (n + i) - Len(p) + 1 .. n + i
        BY <1>0, <3>0
      <4> QED BY <4>3, <4>4
    <3> QED BY <3>1, <3>2
  <2>4. (\E p \in Known : Starts(t, n + i, p)) <=> (\E p \in Known : Starts(y, i, p))
    BY <2>2
  <2>5. (CHOOSE p \in Known : Starts(t, n + i, p)) = (CHOOSE p \in Known : Starts(y, i, p))
    BY <2>2
  <2>6. (\E p \in Known : \E j \in (n + i) - Len(p) + 1 .. n + i : Starts(t, j, p))
            <=> (\E p \in Known : \E j \in i - Len(p) + 1 .. i : Starts(y, j, p))
    BY <2>3
  <2>7. t[n + i] = y[i]
    BY <1>0
  <2> QED BY <2>4, <2>5, <2>6, <2>7 DEF Piece
<1>6. /\ Pieces(t) \in Seq(Seq(Out)) /\ Len(Pieces(t)) = Len(t)
      /\ \A i \in 1 .. Len(t) : Pieces(t)[i] = Piece(t, i)
  BY <1>0, PiecesType
<1>7. /\ Pieces(x) \in Seq(Seq(Out)) /\ Len(Pieces(x)) = n
      /\ \A i \in 1 .. n : Pieces(x)[i] = Piece(x, i)
  BY PiecesType DEF n
<1>8. /\ Pieces(y) \in Seq(Seq(Out)) /\ Len(Pieces(y)) = Len(y)
      /\ \A i \in 1 .. Len(y) : Pieces(y)[i] = Piece(y, i)
  BY PiecesType
<1> DEFINE u == Pieces(t)
           v == Pieces(x)
           w == Pieces(y)
           W == Seq(Out)
<1>9. /\ u \in Seq(W) /\ v \in Seq(W) /\ w \in Seq(W)
      /\ Len(u) = n + Len(y) /\ Len(v) = n /\ Len(w) = Len(y)
      /\ \A i \in 1 .. n : u[i] = v[i]
      /\ \A i \in 1 .. Len(y) : u[n + i] = w[i]
  <2>1. \A i \in 1 .. n : i \in 1 .. Len(t)
    BY <1>0
  <2>2. \A i \in 1 .. Len(y) : n + i \in 1 .. Len(t)
    BY <1>0
  <2> QED BY <1>0, <1>4, <1>5, <1>6, <1>7, <1>8, <2>1, <2>2
<1> HIDE DEF u, v, w, W
<1>10. u = v \o w
  <2>1. /\ v \o w \in Seq(W) /\ Len(v \o w) = n + Len(y)
        /\ \A i \in 1 .. n + Len(y) : (v \o w)[i] = IF i <= n THEN v[i] ELSE w[i - n]
    BY <1>9, ConcatProperties
  <2>2. ASSUME NEW i \in 1 .. n + Len(y) PROVE u[i] = (v \o w)[i]
    <3>1. CASE i <= n
      BY <1>0, <1>9, <2>1, <3>1
    <3>2. CASE i > n
      <4>1. i - n \in 1 .. Len(y) /\ n + (i - n) = i
        BY <1>0, <3>2
      <4>2. (v \o w)[i] = w[i - n]
        <5>1. ~(i <= n)
          BY <1>0, <3>2
        <5> QED BY <2>1, <5>1, Zenon
      <4>3. u[n + (i - n)] = w[i - n]
        BY <1>9, <4>1, Zenon
      <4> QED BY <4>1, <4>2, <4>3
    <3>3. i <= n \/ i > n
      BY <1>0
    <3> QED BY <3>1, <3>2, <3>3
  <2> QED BY <1>9, <2>1, <2>2, SeqEqual
<1> QED BY <1>10 DEF t, u, v, w

\* So the two sides can be de-tokenized one by one.
LEMMA SplitDetokenize ==
    ASSUME NEW x \in Text, NEW y \in Text,
           \A p \in Known : \A i \in 1 .. Len(x) : Starts(x \o y, i, p) => i + Len(p) - 1 <= Len(x)
    PROVE  detokenize(x \o y) = detokenize(x) \o detokenize(y)
<1>1. x \o y \in Text
  OBVIOUS
<1>2. Pieces(x) \in Seq(Seq(Out)) /\ Pieces(y) \in Seq(Seq(Out))
  BY PiecesType
<1>3. Pieces(x \o y) = Pieces(x) \o Pieces(y)
  BY SplitPieces
<1>4. /\ detokenize(x \o y) = FlattenSeq(Pieces(x \o y))
      /\ detokenize(x) = FlattenSeq(Pieces(x)) /\ detokenize(y) = FlattenSeq(Pieces(y))
  BY <1>1, detokenizeIs
<1>5. FlattenSeq(Pieces(x) \o Pieces(y)) = FlattenSeq(Pieces(x)) \o FlattenSeq(Pieces(y))
  BY <1>2, FlattenSeqConcat
<1> QED BY <1>3, <1>4, <1>5

-----------------------------------------------------------------------------
(* One delta *)

\* A clean cut of f stays one when text is added, and what lies behind it is the
\* text that push looks at.
LEMMA TextBehindCut ==
    ASSUME NEW f \in Text, NEW a \in 0 .. Len(f), NEW chunk \in Text
    PROVE  LET g == f \o chunk
               t == SubSeq(f, a + 1, Len(f)) \o chunk
           IN  /\ g \in Text /\ t \in Text /\ Len(g) = Len(f) + Len(chunk) /\ Len(t) = Len(g) - a
               /\ \A k \in 1 .. Len(f) : g[k] = f[k]
               /\ \A k \in 1 .. Len(t) : t[k] = g[a + k]
<1> DEFINE g == f \o chunk
           b == SubSeq(f, a + 1, Len(f))
           t == b \o chunk
<1>0. Len(f) \in Nat /\ Len(chunk) \in Nat /\ a \in Nat
  OBVIOUS
<1>1. b \in Text /\ Len(b) = Len(f) - a /\ \A k \in 1 .. Len(f) - a : b[k] = f[a + k]
  <2>1. /\ a + 1 \in 1 .. Len(f) + 1 /\ Len(f) \in 0 .. Len(f) /\ a + 1 <= Len(f) + 1
        /\ Len(f) - (a + 1) + 1 = Len(f) - a /\ \A k \in Int : (a + 1) + k - 1 = a + k
    BY <1>0
  <2> HIDE DEF b
  <2>2. /\ b \in Text /\ Len(b) = Len(f) - (a + 1) + 1
        /\ \A k \in 1 .. Len(f) - (a + 1) + 1 : b[k] = f[(a + 1) + k - 1]
    BY <2>1, Stretch DEF b
  <2>3. ASSUME NEW k \in 1 .. Len(f) - a PROVE b[k] = f[a + k]
    <3>1. k \in 1 .. Len(f) - (a + 1) + 1 /\ (a + 1) + k - 1 = a + k
      BY <2>1
    <3>2. b[k] = f[(a + 1) + k - 1]
      BY <2>2, <3>1, Zenon
    <3> QED BY <3>1, <3>2
  <2> QED BY <2>1, <2>2, <2>3
<1> HIDE DEF b
<1>2. /\ t \in Text /\ Len(t) = Len(b) + Len(chunk)
      /\ \A k \in 1 .. Len(b) + Len(chunk) : t[k] = IF k <= Len(b) THEN b[k] ELSE chunk[k - Len(b)]
  BY <1>1, ConcatProperties
<1>3. /\ g \in Text /\ Len(g) = Len(f) + Len(chunk)
      /\ \A k \in 1 .. Len(f) + Len(chunk) : g[k] = IF k <= Len(f) THEN f[k] ELSE chunk[k - Len(f)]
  BY ConcatProperties
<1> HIDE DEF g, t
<1>4. \A k \in 1 .. Len(f) : g[k] = f[k]
  BY <1>0, <1>3
<1>5. ASSUME NEW k \in 1 .. Len(t) PROVE t[k] = g[a + k]
  <2>0. k \in Int /\ k \in 1 .. Len(b) + Len(chunk) /\ a + k \in 1 .. Len(f) + Len(chunk)
    BY <1>0, <1>1, <1>2
  <2>1. CASE k <= Len(f) - a
    <3>1. t[k] = b[k] /\ b[k] = f[a + k]
      BY <1>0, <1>1, <1>2, <2>0, <2>1
    <3>2. g[a + k] = f[a + k]
      BY <1>0, <1>3, <2>0, <2>1
    <3> QED BY <3>1, <3>2
  <2>2. CASE k > Len(f) - a
    <3>1. t[k] = chunk[k - (Len(f) - a)]
      BY <1>0, <1>1, <1>2, <2>0, <2>2
    <3>2. g[a + k] = chunk[(a + k) - Len(f)]
      BY <1>0, <1>3, <2>0, <2>2
    <3>3. k - (Len(f) - a) = (a + k) - Len(f)
      BY <1>0, <2>0
    <3> QED BY <3>1, <3>2, <3>3
  <2> QED BY <1>0, <2>0, <2>1, <2>2
<1>6. Len(t) = Len(g) - a
  BY <1>0, <1>1, <1>2, <1>3
<1> QED BY <1>2, <1>3, <1>4, <1>5, <1>6 DEF g, t, b

\* The cut after position a of f, which g continues, and the cut after position c of
\* the text t behind it, are clean.
TwoCuts(f, g, t, a, c) ==
    /\ f \in Text /\ g \in Text /\ t \in Text /\ a \in Nat /\ c \in Nat
    /\ a <= Len(f) /\ Len(f) <= Len(g) /\ Len(t) = Len(g) - a /\ c <= Len(t)
    /\ \A k \in 1 .. Len(f) : g[k] = f[k]
    /\ \A k \in 1 .. Len(t) : t[k] = g[a + k]
    /\ CleanCut(f, a) /\ CleanCut(t, c)

\* Then the second one is a clean cut of the whole, and what lies before it can be
\* de-tokenized in two parts.
OneCut(f, g, t, a, c) ==
    /\ SubSeq(t, c + 1, Len(t)) = SubSeq(g, a + c + 1, Len(g))
    /\ CleanCut(g, a + c)
    /\ detokenize(SubSeq(f, 1, a)) \o detokenize(SubSeq(t, 1, c)) = detokenize(SubSeq(g, 1, a + c))

LEMMA CutsCompose ==
    ASSUME NEW f, NEW g, NEW t, NEW a, NEW c, TwoCuts(f, g, t, a, c)
    PROVE  OneCut(f, g, t, a, c)
<1> SUFFICES ASSUME f \in Text, g \in Text, t \in Text, a \in Nat, c \in Nat,
                    a <= Len(f), Len(f) <= Len(g), Len(t) = Len(g) - a, c <= Len(t),
                    \A k \in 1 .. Len(f) : g[k] = f[k],
                    \A k \in 1 .. Len(t) : t[k] = g[a + k],
                    CleanCut(f, a), CleanCut(t, c)
             PROVE  OneCut(f, g, t, a, c)
  BY DEF TwoCuts
<1>0. Len(f) \in Nat /\ Len(g) \in Nat /\ Len(t) \in Nat
  OBVIOUS
<1>1. a + c \in Nat /\ a + c <= Len(g)
  BY <1>0
<1>2. CleanCut(t, c)
  OBVIOUS
<1>3. ASSUME NEW p \in Known, NEW i \in 1 .. a, Begins(g, i, p) PROVE i + Len(p) - 1 <= a
  <2>0. Len(p) \in Nat
    BY KnownIs
  <2>1. i \in 1 .. Len(f)
    BY <1>0
  <2>2. ASSUME NEW k \in 1 .. Len(p), i + k - 1 <= Len(f) PROVE f[i + k - 1] = p[k]
    <3>1. i + k - 1 \in 1 .. Len(f) /\ i + k - 1 <= Len(g)
      BY <1>0, <2>0, <2>1, <2>2
    <3>2. g[i + k - 1] = p[k]
      BY <1>3, <3>1 DEF Begins
    <3> QED BY <1>0, <3>1, <3>2
  <2>3. Begins(f, i, p)
    BY <2>1, <2>2 DEF Begins
  <2> QED BY <2>3 DEF CleanCut
<1>4. CleanCut(g, a + c)
  <2> SUFFICES ASSUME NEW p \in Known, NEW i \in 1 .. a + c, Begins(g, i, p)
               PROVE  i + Len(p) - 1 <= a + c
    BY DEF CleanCut
  <2>0. Len(p) \in Nat /\ i \in Int
    BY KnownIs, <1>0, <1>1
  <2>1. CASE i <= a
    <3>1. i \in 1 .. a
      BY <1>0, <1>1, <2>1
    <3>2. i + Len(p) - 1 <= a
      BY <1>3, <3>1
    <3> QED BY <1>0, <1>1, <2>0, <3>2
  <2>2. CASE i > a
    <3>1. i - a \in 1 .. c /\ i - a \in 1 .. Len(t)
      BY <1>0, <1>1, <2>2
    <3>2. ASSUME NEW k \in 1 .. Len(p), (i - a) + k - 1 <= Len(t) PROVE t[(i - a) + k - 1] = p[k]
      <4>1. /\ (i - a) + k - 1 \in 1 .. Len(t) /\ a + ((i - a) + k - 1) = i + k - 1
            /\ i + k - 1 <= Len(g)
        BY <1>0, <2>0, <3>1, <3>2
      <4>2. g[i + k - 1] = p[k]
        BY <4>1 DEF Begins
      <4> QED BY <1>0, <4>1, <4>2
    <3>3. Begins(t, i - a, p)
      BY <3>1, <3>2 DEF Begins
    <3>4. (i - a) + Len(p) - 1 <= c
      BY <1>2, <3>1, <3>3 DEF CleanCut
    <3> QED BY <1>0, <1>1, <2>0, <3>4
  <2> QED BY <1>0, <2>0, <2>1, <2>2
<1> DEFINE x == SubSeq(g, 1, a)
           y == SubSeq(g, a + 1, a + c)
<1>5. x \in Text /\ Len(x) = a /\ \A k \in 1 .. a : x[k] = g[k]
  <2>1. /\ 1 \in 1 .. Len(g) + 1 /\ a \in 0 .. Len(g) /\ 1 <= a + 1 /\ a - 1 + 1 = a
        /\ \A k \in Int : 1 + k - 1 = k
    BY <1>0
  <2> HIDE DEF x
  <2>2. x \in Text /\ Len(x) = a - 1 + 1 /\ \A k \in 1 .. a - 1 + 1 : x[k] = g[1 + k - 1]
    BY <1>0, <2>1, Stretch DEF x
  <2>3. \A k \in 1 .. a : x[k] = g[k]
    BY <2>1, <2>2
  <2> QED BY <2>1, <2>2, <2>3
<1>6. y \in Text /\ Len(y) = c /\ \A k \in 1 .. c : y[k] = g[a + k]
  <2>1. /\ a + 1 \in 1 .. Len(g) + 1 /\ a + c \in 0 .. Len(g) /\ a + 1 <= (a + c) + 1
        /\ (a + c) - (a + 1) + 1 = c
        /\ \A k \in Int : (a + 1) + k - 1 = a + k
    BY <1>0, <1>1
  <2> HIDE DEF y
  <2>2. /\ y \in Text /\ Len(y) = (a + c) - (a + 1) + 1
        /\ \A k \in 1 .. (a + c) - (a + 1) + 1 : y[k] = g[(a + 1) + k - 1]
    BY <1>0, <2>1, Stretch DEF y
  <2>3. \A k \in 1 .. c : y[k] = g[a + k]
    BY <2>1, <2>2
  <2> QED BY <2>1, <2>2, <2>3
<1>7. x \o y = SubSeq(g, 1, a + c)
  <2>1. 1 \in 1 .. Len(g) + 1 /\ a \in 1 - 1 .. Len(g) /\ a + c \in a .. Len(g)
    BY <1>0, <1>1
  <2> QED BY <1>0, <2>1, ConcatAdjacentSubSeq
<1>8. SubSeq(f, 1, a) = x
  <2> DEFINE v == SubSeq(f, 1, a)
  <2>1. /\ 1 \in 1 .. Len(f) + 1 /\ a \in 0 .. Len(f) /\ 1 <= a + 1 /\ a - 1 + 1 = a
        /\ \A k \in Int : 1 + k - 1 = k
    BY <1>0
  <2> HIDE DEF v
  <2>2. v \in Text /\ Len(v) = a - 1 + 1 /\ \A k \in 1 .. a - 1 + 1 : v[k] = f[1 + k - 1]
    BY <1>0, <2>1, Stretch DEF v
  <2>3. \A k \in 1 .. a : v[k] = f[k] /\ f[k] = g[k]
    BY <1>0, <2>1, <2>2
  <2>4. v = x
    BY <1>5, <2>1, <2>2, <2>3, SeqEqual
  <2> QED BY <2>4 DEF v
<1>9. SubSeq(t, 1, c) = y
  <2> DEFINE v == SubSeq(t, 1, c)
  <2>1. /\ 1 \in 1 .. Len(t) + 1 /\ c \in 0 .. Len(t) /\ 1 <= c + 1 /\ c - 1 + 1 = c
        /\ \A k \in Int : 1 + k - 1 = k
    BY <1>0, <1>1
  <2> HIDE DEF v
  <2>2. v \in Text /\ Len(v) = c - 1 + 1 /\ \A k \in 1 .. c - 1 + 1 : v[k] = t[1 + k - 1]
    BY <1>0, <2>1, Stretch DEF v
  <2>3. \A k \in 1 .. c : v[k] = t[k] /\ t[k] = g[a + k]
    BY <1>0, <1>1, <2>1, <2>2
  <2>4. v = y
    BY <1>6, <2>1, <2>2, <2>3, SeqEqual, SMTT(30)
  <2> QED BY <2>4 DEF v
<1>10. SubSeq(t, c + 1, Len(t)) = SubSeq(g, a + c + 1, Len(g))
  <2> DEFINE v == SubSeq(t, c + 1, Len(t))
             w == SubSeq(g, a + c + 1, Len(g))
             l == Len(t) - c
  <2>0. l \in Nat
    BY <1>0, <1>1
  <2>1. /\ c + 1 \in 1 .. Len(t) + 1 /\ Len(t) \in 0 .. Len(t) /\ c + 1 <= Len(t) + 1
        /\ Len(t) - (c + 1) + 1 = l
        /\ a + c + 1 \in 1 .. Len(g) + 1 /\ Len(g) \in 0 .. Len(g) /\ a + c + 1 <= Len(g) + 1
        /\ Len(g) - (a + c + 1) + 1 = l
        /\ \A k \in 1 .. l : (c + 1) + k - 1 = c + k /\ c + k \in 1 .. Len(t)
        /\ \A k \in 1 .. l : (a + c + 1) + k - 1 = a + (c + k)
    BY <1>0, <1>1
  <2> HIDE DEF v, w, l
  <2>2. /\ v \in Text /\ Len(v) = Len(t) - (c + 1) + 1
        /\ \A k \in 1 .. Len(t) - (c + 1) + 1 : v[k] = t[(c + 1) + k - 1]
    BY <1>0, <2>1, Stretch DEF v
  <2>3. /\ w \in Text /\ Len(w) = Len(g) - (a + c + 1) + 1
        /\ \A k \in 1 .. Len(g) - (a + c + 1) + 1 : w[k] = g[(a + c + 1) + k - 1]
    BY <1>0, <2>1, Stretch DEF w
  <2>4. \A k \in 1 .. l : v[k] = t[c + k] /\ t[c + k] = g[a + (c + k)] /\ w[k] = g[a + (c + k)]
    BY <1>0, <2>1, <2>2, <2>3
  <2>5. v = w
    BY <2>1, <2>2, <2>3, <2>4, SeqEqual, SMTT(30)
  <2> QED BY <2>5 DEF v, w
<1> HIDE DEF x, y
<1>11. ASSUME NEW p \in Known, NEW i \in 1 .. Len(x), Starts(x \o y, i, p)
       PROVE  i + Len(p) - 1 <= Len(x)
  <2>0. Len(p) \in Nat
    BY KnownIs
  <2>1. /\ Len(x \o y) = a + c
        /\ \A k \in 1 .. a + c : (x \o y)[k] = IF k <= a THEN x[k] ELSE y[k - a]
    <3>1. /\ Len(x \o y) = Len(x) + Len(y)
          /\ \A k \in 1 .. Len(x) + Len(y) : (x \o y)[k] = IF k <= Len(x) THEN x[k] ELSE y[k - Len(x)]
      <4>1. x \in Text /\ y \in Text
        BY <1>5, <1>6
      <4> QED BY <4>1, ConcatProperties
    <3> QED BY <3>1, <1>5, <1>6
  <2>2. ASSUME NEW k \in 1 .. a + c PROVE (x \o y)[k] = g[k]
    <3>1. CASE k <= a
      BY <1>0, <1>1, <1>5, <2>1, <3>1
    <3>2. CASE k > a
      <4>1. k - a \in 1 .. c /\ a + (k - a) = k
        BY <1>0, <1>1, <3>2
      <4> QED BY <1>0, <1>6, <2>1, <3>2, <4>1
    <3>3. k <= a \/ k > a
      BY <1>0, <1>1
    <3> QED BY <3>1, <3>2, <3>3
  <2>3. i \in 1 .. (a + c) - Len(p) + 1
    BY <1>11, <2>1 DEF Starts
  <2>4. i \in 1 .. Len(g)
    BY <1>0, <1>1, <1>5
  <2>5. ASSUME NEW k \in 1 .. Len(p) PROVE g[i + k - 1] = p[k]
    <3>1. i + k - 1 \in 1 .. a + c
      BY <1>0, <1>1, <2>0, <2>3, SMTT(30)
    <3> QED BY <1>11, <2>2, <3>1 DEF Starts
  <2>6. Begins(g, i, p)
    BY <2>4, <2>5 DEF Begins
  <2> QED BY <1>3, <1>5, <2>6
<1>12. detokenize(x \o y) = detokenize(x) \o detokenize(y)
  BY <1>5, <1>6, <1>11, SplitDetokenize
<1> QED BY <1>4, <1>7, <1>8, <1>9, <1>10, <1>12 DEF OneCut

\* push moves the cut on: from one clean cut to the next, and what it sends is what
\* lies between them.
LEMMA PushMovesCut ==
    ASSUME NEW f \in Text, NEW a \in 0 .. Len(f), CleanCut(f, a), NEW chunk \in Text
    PROVE  LET t == SubSeq(f, a + 1, Len(f)) \o chunk
               g == f \o chunk
               c == Len(t) - hold_len(t)
           IN  /\ t \in Text /\ g \in Text /\ c \in 0 .. Len(t) /\ a + c \in 0 .. Len(g)
               /\ SubSeq(t, c + 1, Len(t)) = SubSeq(g, a + c + 1, Len(g))
               /\ CleanCut(g, a + c)
               /\ detokenize(SubSeq(f, 1, a)) \o detokenize(SubSeq(t, 1, c))
                     = detokenize(SubSeq(g, 1, a + c))
<1> DEFINE t == SubSeq(f, a + 1, Len(f)) \o chunk
           g == f \o chunk
           c == Len(t) - hold_len(t)
<1>1. /\ g \in Text /\ t \in Text /\ Len(g) = Len(f) + Len(chunk) /\ Len(t) = Len(g) - a
      /\ \A k \in 1 .. Len(f) : g[k] = f[k]
      /\ \A k \in 1 .. Len(t) : t[k] = g[a + k]
  BY TextBehindCut
<1> HIDE DEF t, g
<1>2. Len(f) \in Nat /\ Len(chunk) \in Nat /\ Len(g) \in Nat /\ Len(t) \in Nat /\ a \in Nat /\ a <= Len(f)
  BY <1>1
<1>3. hold_len(t) \in 0 .. Len(t) /\ CleanCut(t, c)
  BY <1>1, HoldIs, CutIsClean
<1>4. c \in Nat /\ c <= Len(t) /\ Len(f) <= Len(g) /\ c \in 0 .. Len(t) /\ a + c \in 0 .. Len(g)
  BY <1>1, <1>2, <1>3
<1> HIDE DEF c
<1>5. TwoCuts(f, g, t, a, c)
  BY <1>1, <1>2, <1>3, <1>4 DEF TwoCuts
<1>6. OneCut(f, g, t, a, c)
  BY <1>5, CutsCompose
<1> QED BY <1>1, <1>4, <1>6 DEF t, g, c, OneCut

-----------------------------------------------------------------------------
(* The buffer *)

\* What push leaves in the buffer fits the limit and holds no complete placeholder.
LEMMA BufferIsBounded ==
    ASSUME NEW t \in Text, NEW b, b = SubSeq(t, Len(t) - hold_len(t) + 1, Len(t))
    PROVE  /\ b \in Text /\ Len(b) <= MAX_PLACEHOLDER_LEN
           /\ \A p \in Known : \A i \in 1 .. Len(b) : ~IsPrefix(p, SubSeq(b, i, Len(b)))
<1> DEFINE c == Len(t) - hold_len(t)
<1>0. /\ Len(t) \in Nat /\ hold_len(t) \in 0 .. Len(t) /\ hold_len(t) <= MAX_PLACEHOLDER_LEN
      /\ c \in Nat /\ c <= Len(t) /\ hold_len(t) = Len(t) - c
  <2>1. Len(t) \in Nat
    OBVIOUS
  <2>2. hold_len(t) \in 0 .. Len(t) /\ hold_len(t) <= MAX_PLACEHOLDER_LEN
    BY HoldIs
  <2> QED BY <2>1, <2>2
<1>1. b = SubSeq(t, c + 1, Len(t))
  OBVIOUS
<1>c. \A p \in Known : \A i : Starts(t, i, p) => i + Len(p) - 1 <= c
  BY CompleteIsSent
<1> HIDE DEF c
<1>2. b \in Text /\ Len(b) = Len(t) - c /\ \A k \in 1 .. Len(t) - c : b[k] = t[c + k]
  <2>1. /\ c + 1 \in 1 .. Len(t) + 1 /\ Len(t) \in 0 .. Len(t) /\ c + 1 <= Len(t) + 1
        /\ Len(t) - (c + 1) + 1 = Len(t) - c
        /\ \A k \in Int : (c + 1) + k - 1 = c + k
    BY <1>0
  <2> DEFINE v == SubSeq(t, c + 1, Len(t))
  <2>2. /\ v \in Text /\ Len(v) = Len(t) - (c + 1) + 1
        /\ \A k \in 1 .. Len(t) - (c + 1) + 1 : v[k] = t[(c + 1) + k - 1]
    BY <1>0, <2>1, Stretch
  <2> HIDE DEF v
  <2>3. ASSUME NEW k \in 1 .. Len(t) - c PROVE v[k] = t[c + k]
    <3>1. k \in 1 .. Len(t) - (c + 1) + 1 /\ k \in Int
      BY <2>1
    <3>2. (c + 1) + k - 1 = c + k
      BY <2>1, <3>1
    <3> QED BY <2>2, <3>1, <3>2
  <2>4. b = v
    BY <1>1 DEF v
  <2> QED BY <2>1, <2>2, <2>3, <2>4
<1>3. Len(b) <= MAX_PLACEHOLDER_LEN
  BY <1>0, <1>2
<1>4. ASSUME NEW p \in Known, NEW i \in 1 .. Len(b), IsPrefix(p, SubSeq(b, i, Len(b)))
      PROVE  FALSE
  <2>0. p \in Text /\ Len(p) \in Nat /\ Len(p) >= 6
    BY KnownIs
  <2> DEFINE u == SubSeq(b, i, Len(b))
             m == Len(b)
  <2>1. m \in Nat /\ i \in 1 .. m + 1 /\ m \in 0 .. m /\ i <= m + 1 /\ m = Len(t) - c
    BY <1>0, <1>2
  <2>2. u \in Text /\ Len(u) = m - i + 1 /\ \A k \in 1 .. m - i + 1 : u[k] = b[i + k - 1]
    BY <1>2, <2>1, Stretch
  <2>3. Len(p) <= Len(u) /\ SubSeq(p, 1, Len(p)) = SubSeq(u, 1, Len(p))
    BY <1>4 DEF IsPrefix
  <2> HIDE DEF u, m
  <2>4. SubSeq(p, 1, Len(p)) = p
    BY <2>0, SubSeqFull
  <2> DEFINE v == SubSeq(u, 1, Len(p))
             l == Len(p)
  <2>5. l \in 0 .. Len(u) /\ 1 \in 1 .. Len(u) + 1 /\ 1 <= l + 1 /\ l - 1 + 1 = l
        /\ \A k \in Int : 1 + k - 1 = k
    BY <2>0, <2>2, <2>3
  <2>6. \A k \in 1 .. l - 1 + 1 : SubSeq(u, 1, l)[k] = u[1 + k - 1]
    <3> HIDE DEF l
    <3> QED BY <2>2, <2>5, Stretch
  <2>7. \A k \in 1 .. l : SubSeq(u, 1, l)[k] = u[k]
    BY <2>5, <2>6
  <2>8. ASSUME NEW k \in 1 .. Len(p)
        PROVE  p[k] = t[(c + i) + k - 1]
    <3>1. p[k] = u[k]
      BY <2>3, <2>4, <2>7
    <3>2. k \in 1 .. m - i + 1 /\ i + k - 1 \in 1 .. Len(t) - c /\ c + (i + k - 1) = (c + i) + k - 1
      BY <1>0, <2>0, <2>1, <2>2, <2>3
    <3>3. u[k] = b[i + k - 1] /\ b[i + k - 1] = t[c + (i + k - 1)]
      BY <3>2, <2>2, <1>2
    <3> QED BY <3>1, <3>2, <3>3
  <2>9. c + i \in 1 .. Len(t) - Len(p) + 1
    <3>1. Len(p) <= m - i + 1 /\ i \in Int /\ i >= 1 /\ m \in Int
      BY <2>1, <2>2, <2>3
    <3> DEFINE n == Len(t)
               x == Len(p)
    <3>2. n \in Nat /\ x \in Nat /\ c \in Nat /\ m = n - c /\ x <= m - i + 1
      BY <1>0, <2>0, <2>1, <3>1
    <3> HIDE DEF n, x
    <3>3. c + i \in 1 .. n - x + 1
      BY <3>1, <3>2
    <3> QED BY <3>3 DEF n, x
  <2>10. Starts(t, c + i, p)
    BY <2>8, <2>9 DEF Starts
  <2>11. (c + i) + Len(p) - 1 <= c
    BY <1>c, <2>10
  <2> QED BY <1>0, <2>0, <2>9, <2>11
<1> QED BY <1>2, <1>3, <1>4

\* The raw text f is cut in two: what was sent, and what is in the buffer b.
Aligned(f, s, b) ==
    \E a \in 0 .. Len(f) :
        /\ b = SubSeq(f, a + 1, Len(f))
        /\ s = detokenize(SubSeq(f, 1, a))
        /\ CleanCut(f, a)

LEMMA AlignedAtStart == Aligned(<< >>, << >>, << >>)
<1>1. Len(<< >>) = 0 /\ SubSeq(<< >>, 1, 0) = << >> /\ SubSeq(<< >>, 0 + 1, Len(<< >>)) = << >>
  OBVIOUS
<1>2. CleanCut(<< >>, 0)
  BY DEF CleanCut
<1>3. detokenize(SubSeq(<< >>, 1, 0)) = << >>
  BY <1>1, detokenizeType
<1>4. 0 \in 0 .. Len(<< >>)
  BY <1>1
<1> QED BY <1>1, <1>2, <1>3, <1>4 DEF Aligned

LEMMA AlignedAfterPush ==
    ASSUME NEW f \in Text, NEW s, NEW b, Aligned(f, s, b), NEW chunk \in Text
    PROVE  LET t == b \o chunk
               c == Len(t) - hold_len(t)
           IN  Aligned(f \o chunk, s \o detokenize(SubSeq(t, 1, c)), SubSeq(t, c + 1, Len(t)))
<1>1. PICK a \in 0 .. Len(f) :
        /\ b = SubSeq(f, a + 1, Len(f))
        /\ s = detokenize(SubSeq(f, 1, a))
        /\ CleanCut(f, a)
  BY DEF Aligned
<1> DEFINE t == SubSeq(f, a + 1, Len(f)) \o chunk
           g == f \o chunk
           c == Len(t) - hold_len(t)
<1>2. /\ a + c \in 0 .. Len(g)
      /\ SubSeq(t, c + 1, Len(t)) = SubSeq(g, (a + c) + 1, Len(g))
      /\ CleanCut(g, a + c)
      /\ detokenize(SubSeq(f, 1, a)) \o detokenize(SubSeq(t, 1, c)) = detokenize(SubSeq(g, 1, a + c))
  BY <1>1, PushMovesCut
<1>3. t = b \o chunk
  BY <1>1
<1> HIDE DEF t, g, c
<1>4. s \o detokenize(SubSeq(t, 1, c)) = detokenize(SubSeq(g, 1, a + c))
  BY <1>1, <1>2
<1>5. Aligned(g, s \o detokenize(SubSeq(t, 1, c)), SubSeq(t, c + 1, Len(t)))
  BY <1>2, <1>4 DEF Aligned
<1> QED BY <1>3, <1>5 DEF g, c

LEMMA AlignedIsLossless ==
    ASSUME NEW f \in Text, NEW s, NEW b, Aligned(f, s, b)
    PROVE  s \o detokenize(b) = detokenize(f)
<1>1. PICK a \in 0 .. Len(f) :
        /\ b = SubSeq(f, a + 1, Len(f))
        /\ s = detokenize(SubSeq(f, 1, a))
        /\ CleanCut(f, a)
  BY DEF Aligned
<1>0. Len(f) \in Nat /\ a \in Nat
  OBVIOUS
<1> DEFINE x == SubSeq(f, 1, a)
           y == SubSeq(f, a + 1, Len(f))
<1>2. x \in Text /\ Len(x) = a /\ y \in Text
  OBVIOUS
<1>3. x \o y = f
  <2>1. /\ 1 \in 1 .. Len(f) + 1 /\ a \in 1 - 1 .. Len(f) /\ Len(f) \in a .. Len(f)
    BY <1>0
  <2>2. x \o y = SubSeq(f, 1, Len(f))
    BY <2>1, ConcatAdjacentSubSeq
  <2> QED BY <2>2, SubSeqFull
<1> HIDE DEF x, y
<1>4. ASSUME NEW p \in Known, NEW i \in 1 .. Len(x), Starts(x \o y, i, p)
      PROVE  i + Len(p) - 1 <= Len(x)
  <2>1. Starts(f, i, p)
    BY <1>3, <1>4
  <2>2. Len(p) \in Nat
    BY KnownIs
  <2>3. Begins(f, i, p)
    BY <1>0, <1>2, <2>1, <2>2 DEF Starts, Begins
  <2> QED BY <1>1, <1>2, <2>3 DEF CleanCut
<1>5. detokenize(x \o y) = detokenize(x) \o detokenize(y)
  BY <1>2, <1>4, SplitDetokenize
<1> QED BY <1>1, <1>3, <1>5 DEF x, y

-----------------------------------------------------------------------------
(* The inductive invariant *)

TypeOK ==
    /\ full \in [Alternatives -> Text]
    /\ seen \in [Alternatives -> Seq(Out)]
    /\ buffer \in Text
    /\ phase \in {"streaming", "done", "failed"}

\* While a single alternative is streamed, what was sent ends at a clean cut.
SentUpToCut ==
    Alternatives = {First} /\ phase = "streaming" => Aligned(full[First], seen[First], buffer)

IInv == TypeOK /\ HoldIsBounded /\ SentUpToCut /\ Lossless

LEMMA InitHolds == DetokInit => IInv
<1> SUFFICES ASSUME DetokInit PROVE IInv
  OBVIOUS
<1>0. First \in Alternatives /\ MAX_PLACEHOLDER_LEN \in Nat
  BY StreamAssumption
<1>1. TypeOK
  <2>1. << >> \in Text /\ << >> \in Seq(Out)
    OBVIOUS
  <2> QED BY <2>1 DEF DetokInit, TypeOK
<1>2. HoldIsBounded
  <2>1. buffer = << >> /\ Len(buffer) = 0
    BY DEF DetokInit
  <2> QED BY <2>1, <1>0 DEF HoldIsBounded
<1>3. full[First] = << >> /\ seen[First] = << >> /\ buffer = << >>
  BY <1>0 DEF DetokInit
<1>4. SentUpToCut
  BY <1>3, AlignedAtStart DEF SentUpToCut
<1>5. Lossless
  <2>1. << >> \in Text
    OBVIOUS
  <2>2. << >> \o detokenize(<< >>) = detokenize(<< >>)
    BY <2>1, AlignedAtStart, AlignedIsLossless
  <2> QED BY <1>3, <2>2 DEF Lossless
<1> QED BY <1>1, <1>2, <1>4, <1>5 DEF IInv

\* A delta is pushed.
LEMMA PushKeeps ==
    ASSUME IInv, NEW c \in Alternatives, NEW chunk \in Chunks, Push(c, chunk)
    PROVE  IInv'
<1> DEFINE t == buffer \o chunk
           e == Len(t) - hold_len(t)
<1>0. chunk \in Text /\ First \in Alternatives
  BY StreamAssumption DEF Char
<1>1. /\ phase = "streaming" /\ phase' = "streaming"
      /\ full' = [full EXCEPT ![c] = @ \o chunk]
      /\ seen' = [seen EXCEPT ![c] = @ \o detokenize(SubSeq(t, 1, e))]
      /\ buffer' = SubSeq(t, e + 1, Len(t))
  BY DEF Push
<1>2. /\ full \in [Alternatives -> Text] /\ seen \in [Alternatives -> Seq(Out)] /\ buffer \in Text
  BY DEF IInv, TypeOK
<1>3. t \in Text
  BY <1>0, <1>2
<1>4. e \in Nat /\ e <= Len(t) /\ Len(t) \in Nat
  <2>1. Len(t) \in Nat
    BY <1>3
  <2>2. hold_len(t) \in 0 .. Len(t)
    BY <1>3, HoldIs
  <2> HIDE DEF t
  <2> QED BY <2>1, <2>2
<1>5. buffer' \in Text /\ HoldIsBounded'
  <2>1. buffer' = SubSeq(t, Len(t) - hold_len(t) + 1, Len(t))
    BY <1>1
  <2> HIDE DEF t
  <2>2. /\ buffer' \in Text /\ Len(buffer') <= MAX_PLACEHOLDER_LEN
        /\ \A p \in Known : \A i \in 1 .. Len(buffer') : ~IsPrefix(p, SubSeq(buffer', i, Len(buffer')))
    BY <1>3, <2>1, BufferIsBounded
  <2> QED BY <2>2 DEF HoldIsBounded
<1>6. detokenize(SubSeq(t, 1, e)) \in Seq(Out)
  <2> HIDE DEF t, e
  <2>1. SubSeq(t, 1, e) \in Text
    BY <1>3, <1>4
  <2> QED BY <2>1, detokenizeType
<1>7. TypeOK'
  <2> DEFINE d == detokenize(SubSeq(t, 1, e))
  <2>1. full[c] \o chunk \in Text /\ seen[c] \o d \in Seq(Out)
    <3> HIDE DEF d
    <3>1. full[c] \in Text /\ seen[c] \in Seq(Out) /\ d \in Seq(Out)
      BY <1>2, <1>6 DEF d
    <3> QED BY <1>0, <3>1, ConcatProperties
  <2> HIDE DEF d
  <2>2. seen' = [seen EXCEPT ![c] = seen[c] \o d] /\ full' = [full EXCEPT ![c] = full[c] \o chunk]
    BY <1>1 DEF d
  <2>3. full' \in [Alternatives -> Text] /\ seen' \in [Alternatives -> Seq(Out)]
    BY <1>2, <2>1, <2>2
  <2> QED BY <1>1, <1>5, <2>3 DEF TypeOK
<1>8. ASSUME Alternatives = {First} PROVE Aligned(full[First], seen[First], buffer)'
  <2>1. c = First
    BY <1>8
  <2>2. Aligned(full[First], seen[First], buffer) /\ full[First] \in Text
    BY <1>0, <1>1, <1>2, <1>8 DEF IInv, SentUpToCut
  <2>3. Aligned(full[First] \o chunk, seen[First] \o detokenize(SubSeq(t, 1, e)), SubSeq(t, e + 1, Len(t)))
    BY <1>0, <2>2, AlignedAfterPush
  <2> HIDE DEF t, e
  <2>4. full'[First] = full[First] \o chunk /\ seen'[First] = seen[First] \o detokenize(SubSeq(t, 1, e))
    BY <1>0, <1>1, <1>2, <2>1
  <2> QED BY <1>1, <2>3, <2>4
<1>9. SentUpToCut'
  BY <1>8 DEF SentUpToCut
<1>10. Lossless'
  <2> SUFFICES ASSUME Alternatives = {First}
               PROVE  seen'[First] \o detokenize(buffer') = detokenize(full'[First])
    BY DEF Lossless
  <2>1. Aligned(full'[First], seen'[First], buffer')
    BY <1>8
  <2>2. full'[First] \in Text
    BY <1>0, <1>7 DEF TypeOK
  <2> QED BY <2>1, <2>2, AlignedIsLossless
<1> QED BY <1>5, <1>7, <1>9, <1>10 DEF IInv

\* The buffer is flushed.
LEMMA FinishKeeps == ASSUME IInv, FlushTail PROVE IInv'
<1>0. First \in Alternatives /\ MAX_PLACEHOLDER_LEN \in Nat
  BY StreamAssumption
<1>1. /\ seen' = [seen EXCEPT ![First] = @ \o detokenize(buffer)]
      /\ buffer' = << >> /\ phase' = "done" /\ full' = full
  BY DEF FlushTail
<1>2. full \in [Alternatives -> Text] /\ seen \in [Alternatives -> Seq(Out)] /\ buffer \in Text
  BY DEF IInv, TypeOK
<1>3. detokenize(buffer) \in Seq(Out)
  BY <1>2, detokenizeType
<1>4. seen[First] \o detokenize(buffer) \in Seq(Out)
  BY <1>0, <1>2, <1>3, ConcatProperties
<1>5. TypeOK'
  <2>1. << >> \in Text
    OBVIOUS
  <2>2. seen' = [seen EXCEPT ![First] = seen[First] \o detokenize(buffer)]
    BY <1>1
  <2>3. seen' \in [Alternatives -> Seq(Out)]
    BY <1>2, <1>4, <2>2
  <2> QED BY <1>1, <1>2, <2>1, <2>3 DEF TypeOK
<1>6. HoldIsBounded'
  <2>1. Len(buffer') = 0
    BY <1>1
  <2> QED BY <1>0, <2>1 DEF HoldIsBounded
<1>7. SentUpToCut'
  BY <1>1 DEF SentUpToCut
<1>8. Lossless'
  <2> SUFFICES ASSUME Alternatives = {First}
               PROVE  seen'[First] \o detokenize(buffer') = detokenize(full'[First])
    BY DEF Lossless
  <2>1. seen'[First] = seen[First] \o detokenize(buffer) /\ full'[First] = full[First]
    BY <1>0, <1>1, <1>2
  <2>2. seen[First] \o detokenize(buffer) = detokenize(full[First])
    BY DEF IInv, Lossless
  <2>3. detokenize(buffer') = << >>
    BY <1>1, detokenizeType
  <2>4. seen'[First] \in Seq(Out)
    BY <1>0, <1>5 DEF TypeOK
  <2>5. seen'[First] \o << >> = seen'[First]
    BY <2>4, ConcatEmptySeq
  <2> QED BY <2>1, <2>2, <2>3, <2>5
<1> QED BY <1>5, <1>6, <1>7, <1>8 DEF IInv

\* The provider fails, or nothing happens.
LEMMA FailKeeps == ASSUME IInv, Fail \/ UNCHANGED detokVars PROVE IInv'
<1>1. full' = full /\ seen' = seen /\ buffer' = buffer /\ (phase' = phase \/ phase' = "failed")
  BY DEF Fail, detokVars
<1>2. TypeOK' /\ HoldIsBounded' /\ Lossless'
  BY <1>1 DEF IInv, TypeOK, HoldIsBounded, Lossless
<1>3. SentUpToCut'
  BY <1>1 DEF IInv, SentUpToCut
<1> QED BY <1>2, <1>3 DEF IInv

\* The inductive invariant holds throughout the stream.
THEOREM Invariance == DetokSpec => []IInv
<1>1. ASSUME IInv, [DetokNext]_detokVars PROVE IInv'
  BY <1>1, PushKeeps, FinishKeeps, FailKeeps DEF DetokNext
<1> QED BY <1>1, InitHolds, PTL DEF DetokSpec

\* Wherever the upstream cuts its deltas, whatever the token map, what was sent and
\* what is held back make up the re-inflated text (StreamDetokenizer's docstring).
THEOREM NothingLost == DetokSpec => []Lossless
<1>1. IInv => Lossless
  BY DEF IInv
<1> QED BY <1>1, Invariance, PTL

\* The buffer never exceeds the limit and never withholds a complete placeholder, for
\* any number of alternatives (_hold_len).
THEOREM HeldWithinLimit == DetokSpec => []HoldIsBounded
<1>1. IInv => HoldIsBounded
  BY DEF IInv
<1> QED BY <1>1, Invariance, PTL

-----------------------------------------------------------------------------
(* The adapters *)

\* What the client is sent.
LineReasons == UNION {{l.reason : l \in Lines(p)} : p \in Providers}
Reasons ==
    {None} \cup FinishReasons \cup LineReasons \cup UNION {NativeReasons[p] : p \in Providers}
Kinds == {"answer", "chunk", "event", "odd", "failure", "tail", "error", "DONE"}
Plain == [kind : Kinds, text : Seq(Nat), finish : Reasons]
Coded == [kind : Kinds, text : Seq(Nat), finish : Reasons, status : Nat]
Item == Plain \cup Coded

LEMMA ItemHas ==
    ASSUME NEW x \in Item
    PROVE  x.kind \in Kinds /\ x.text \in Seq(Nat) /\ x.finish \in Reasons
  BY DEF Item, Plain, Coded

LEMMA ItemsSent ==
    ASSUME NEW f \in Reasons, NEW t \in Seq(Nat), NEW s \in Nat, NEW k \in Kinds, held \in Seq(Nat)
    PROVE  /\ Chunk(t, f) \in Item /\ Completion(t, f) \in Item /\ Relayed(k) \in Item
           /\ LastDelta \in Item /\ Error(s) \in Item /\ DONE \in Item
<1> DEFINE e == << >>
<1>1. e \in Seq(Nat) /\ None \in Reasons
  BY DEF Reasons
<1>2. Relayed(k) = [kind |-> k, text |-> e, finish |-> None]
  BY DEF Relayed
<1>3. DONE = [kind |-> "DONE", text |-> e, finish |-> None]
  BY DEF DONE
<1>4. Error(s) = [kind |-> "error", text |-> e, finish |-> None, status |-> s]
  BY DEF Error
<1> HIDE DEF e
<1>5. Chunk(t, f) \in Plain
  BY DEF Chunk, Plain, Kinds
<1>6. Completion(t, f) \in Plain
  BY DEF Completion, Plain, Kinds
<1>7. LastDelta \in Plain
  BY <1>1 DEF LastDelta, Plain, Kinds
<1>8. Relayed(k) \in Plain
  BY <1>1, <1>2 DEF Plain
<1>9. DONE \in Plain
  BY <1>1, <1>3 DEF Plain, Kinds
<1>10. Error(s) \in Coded
  BY <1>1, <1>4 DEF Coded, Kinds
<1> QED BY <1>5, <1>6, <1>7, <1>8, <1>9, <1>10 DEF Item

\* The texts of no items, of one item, and of items after others.
Texts(s) == [i \in DOMAIN s |-> s[i].text]

LEMMA TextsOfIs ==
    ASSUME NEW s
    PROVE  TextsOf(s) = FlattenSeq(Texts(s))
  BY DEF TextsOf, Texts, FlattenSeq, FlattenSeq

LEMMA TextsOfNone ==
    TextsOf(<< >>) = << >>
<1>1. Texts(<< >>) = << >>
  BY DEF Texts
<1> QED BY <1>1, FlattenSeqType, TextsOfIs

LEMMA TextsTyped ==
    ASSUME NEW c \in Seq(Item)
    PROVE  /\ Texts(c) \in Seq(Seq(Nat)) /\ Len(Texts(c)) = Len(c)
           /\ \A i \in 1 .. Len(c) : Texts(c)[i] = c[i].text
<1>1. \A i \in 1 .. Len(c) : c[i].text \in Seq(Nat)
  BY ItemHas
<1>2. DOMAIN c = 1 .. Len(c) /\ Len(c) \in Nat
  OBVIOUS
<1>3. Texts(c) = [i \in 1 .. Len(c) |-> c[i].text]
  BY <1>2 DEF Texts
<1>4. Texts(c) \in [1 .. Len(c) -> Seq(Nat)]
  BY <1>1, <1>3
<1> QED BY <1>2, <1>3, <1>4

LEMMA TextsOfConcat ==
    ASSUME NEW c \in Seq(Item), NEW d \in Seq(Item)
    PROVE  /\ TextsOf(c) \in Seq(Nat) /\ c \o d \in Seq(Item)
           /\ TextsOf(c \o d) = TextsOf(c) \o TextsOf(d)
<1>1. c \o d \in Seq(Item) /\ Len(c \o d) = Len(c) + Len(d) /\ Len(c) \in Nat /\ Len(d) \in Nat
  OBVIOUS
<1>2. /\ \A i \in 1 .. Len(c) : (c \o d)[i] = c[i]
      /\ \A i \in 1 .. Len(c) + Len(d) : i > Len(c) => (c \o d)[i] = d[i - Len(c)]
  OBVIOUS
<1>3. Texts(c \o d) = Texts(c) \o Texts(d)
  <2> DEFINE a == Texts(c \o d)
             b == Texts(c) \o Texts(d)
  <2>1. /\ a \in Seq(Seq(Nat)) /\ Len(a) = Len(c) + Len(d)
        /\ \A i \in 1 .. Len(c) + Len(d) : a[i] = (c \o d)[i].text
    BY <1>1, TextsTyped
  <2>2. /\ Texts(c) \in Seq(Seq(Nat)) /\ Texts(d) \in Seq(Seq(Nat))
        /\ Len(Texts(c)) = Len(c) /\ Len(Texts(d)) = Len(d)
        /\ \A i \in 1 .. Len(c) : Texts(c)[i] = c[i].text
        /\ \A i \in 1 .. Len(d) : Texts(d)[i] = d[i].text
    BY TextsTyped
  <2>3. b \in Seq(Seq(Nat)) /\ Len(b) = Len(c) + Len(d)
    <3>1. b \in Seq(Seq(Nat)) /\ Len(b) = Len(Texts(c)) + Len(Texts(d))
      BY <2>2, ConcatProperties
    <3> QED BY <2>2, <3>1
  <2>4. ASSUME NEW i \in 1 .. Len(c) + Len(d) PROVE a[i] = b[i]
    <3>1. CASE i <= Len(c)
      <4>1. b[i] = Texts(c)[i] /\ i \in 1 .. Len(c)
        BY <1>1, <2>2, <3>1
      <4> QED BY <1>2, <2>1, <2>2, <4>1
    <3>2. CASE i > Len(c)
      <4>1. b[i] = Texts(d)[i - Len(c)] /\ i - Len(c) \in 1 .. Len(d)
        BY <1>1, <2>2, <3>2
      <4> QED BY <1>2, <2>1, <2>2, <3>2, <4>1
    <3>3. i <= Len(c) \/ i > Len(c)
      BY <1>1
    <3> QED BY <3>1, <3>2, <3>3
  <2> HIDE DEF a, b
  <2>5. a = b
    BY <2>1, <2>3, <2>4, SeqEqual
  <2> QED BY <2>5 DEF a, b
<1>4. Texts(c) \in Seq(Seq(Nat)) /\ Texts(d) \in Seq(Seq(Nat))
  BY TextsTyped
<1>5. FlattenSeq(Texts(c)) \in Seq(Nat)
  BY <1>4, FlattenSeqType
<1>6. FlattenSeq(Texts(c) \o Texts(d)) = FlattenSeq(Texts(c)) \o FlattenSeq(Texts(d))
  BY <1>4, FlattenSeqConcat
<1> QED BY <1>1, <1>3, <1>5, <1>6, TextsOfIs

LEMMA TextsOfOne ==
    ASSUME NEW x \in Item
    PROVE  <<x>> \in Seq(Item) /\ TextsOf(<<x>>) = x.text
<1>1. x.text \in Seq(Nat) /\ <<x>> \in Seq(Item)
  BY ItemHas
<1>2. Texts(<<x>>) = Append(<< >>, x.text)
  BY DEF Texts
<1>3. << >> \in Seq(Seq(Nat))
  OBVIOUS
<1>4. FlattenSeq(Append(<< >>, x.text)) = FlattenSeq(<< >>) \o x.text
  BY <1>1, <1>3, FlattenSeqAppend
<1>5. FlattenSeq(<< >>) = << >>
  BY FlattenSeqType
<1>6. << >> \o x.text = x.text
  BY <1>1
<1> QED BY <1>1, <1>2, <1>4, <1>5, <1>6, TextsOfIs

-----------------------------------------------------------------------------
(* What a step does *)

NotError == {x \in Item : x.kind # "error"}
Open     == {x \in Item : x.finish = None /\ x.kind # "error"}

AdapterTyped ==
    /\ provider \in Providers /\ mode \in {"complete", "stream"}
    /\ pc \in {"start", "waiting", "lines", "finish", "flush", "done"}
    /\ lines \in Nat /\ held \in Seq(Nat) /\ said \in Seq(Nat)
    /\ client \in Seq(Item) /\ finish \in FinishReasons /\ given \in Seq(FinishReasons)
    /\ broke \in Breaks \cup {None}

\* Before the answer nothing is held or sent.
NothingYet ==
    pc \in {"start", "waiting"} =>
        held = << >> /\ client = << >> /\ said = << >> /\ given = << >> /\ finish = "stop"

Quietly ==
    /\ UNCHANGED <<client, held, said, given, broke, finish, lines>>
    /\ \/ pc = "start" /\ pc' = "waiting"
       \/ pc = "waiting" /\ pc' = "lines" /\ provider # "bedrock"
       \/ pc = "lines" /\ pc' = "finish"
       \/ pc = "lines" /\ pc' = "flush" /\ provider \notin {"anthropic", "gemini"}

\* The items that tell of a failure.
Failed(s) == IF mode = "stream" THEN <<Error(s), DONE>> ELSE <<Error(s)>>
Closed    == IF mode = "stream" THEN <<DONE>> ELSE << >>

Fails ==
    /\ pc # "done" /\ pc' = "done" /\ UNCHANGED <<held, said, given, finish>> /\ lines' \in Nat
    /\ \/ /\ broke' \in {"refused", "transport", "status"}
          /\ \E s \in Nat : client' = client \o Failed(s)
       \/ broke' = "raised" /\ client' = client \o Closed

\* The reason is noted, and given.
Noted == \E l : NoteReason(l) /\ given' = given \o Reason(l)

Reads ==
    /\ pc = "lines" /\ pc' \in {"lines", "finish"} /\ broke' = broke /\ lines' \in Nat
    /\ given' \in Seq(FinishReasons) /\ finish' \in FinishReasons
    /\ \E t \in Seq(Nat), r \in Reasons, after \in Seq(NotError) :
        /\ said' = said \o t /\ TextsOf(after) = << >> /\ Deliver(t, r, after)
        /\ provider \in Translating => r = None /\ after = << >> /\ Noted

Answers ==
    /\ pc = "waiting" /\ pc' = "done" /\ UNCHANGED <<held, broke, finish, lines>>
    /\ given' \in Seq(FinishReasons)
    /\ \/ /\ mode = "complete"
          /\ \E t \in Seq(Nat), f \in Reasons : client' = client \o <<Completion(t, f)>> /\ said' = t
       \/ provider \in Passthrough /\ client' = client \o <<Relayed("odd")>> /\ said' = said

Whole ==
    /\ pc = "waiting" /\ pc' = "flush" /\ UNCHANGED <<broke, finish, lines>>
    /\ \E t \in Seq(Nat), f \in FinishReasons :
        said' = t /\ given' = <<f>> /\ Deliver(t, None, <<Chunk(<< >>, f)>>)

Ends ==
    /\ pc = "finish" /\ pc' = "flush" /\ UNCHANGED <<held, said, given, broke, finish, lines>>
    /\ client' = client \o <<Chunk(<< >>, finish)>>

Flushes ==
    /\ pc = "flush" /\ pc' = "done" /\ UNCHANGED <<said, given, broke, finish, lines>> /\ held' = << >>
    /\ client' = client \o ((IF held = << >> THEN << >> ELSE <<LastDelta>>) \o <<DONE>>)

Stays == UNCHANGED <<pc, lines, finish, held, client, said, given, broke>>

LEMMA ReasonKnown ==
    ASSUME NEW r
    PROVE  OpenAIReason(r) \in FinishReasons
  BY Zenon DEF OpenAIReason, FinishReasons


\* Actions before the answer, and failures.
LEMMA RaiseFails ==
    ASSUME AdapterTyped, pc # "done", NEW s \in Nat, NEW w \in {"refused", "transport", "status"},
           RaiseProviderError(s, w), UNCHANGED <<held, said, given, finish>>, lines' \in Nat
    PROVE  Fails
  BY DEF Fails, Failed, RaiseProviderError, Send

LEMMA OtherFails ==
    ASSUME AdapterTyped, pc # "done", RaiseOther, UNCHANGED <<held, said, given, finish>>, lines' \in Nat
    PROVE  Fails
  BY DEF Fails, Closed, RaiseOther, Send

LEMMA EarlySteps ==
    ASSUME AdapterTyped,
           \/ AzureRefuses \/ GeminiRefuses \/ BedrockRefuses
           \/ TransportFails \/ UpstreamRefuses \/ AnswerNotJson
    PROVE  Fails /\ UNCHANGED <<provider, mode, prompt, body>>
<1>0. 400 \in Nat /\ 502 \in Nat /\ 429 \in Nat /\ lines \in Nat
  BY DEF AdapterTyped
<1>1. ASSUME NEW p, Refuse(p) PROVE Fails /\ UNCHANGED <<provider, mode, prompt, body>>
  BY <1>0, <1>1, RaiseFails DEF Refuse
<1>2. CASE AzureRefuses \/ GeminiRefuses \/ BedrockRefuses
  BY <1>1, <1>2 DEF AzureRefuses, GeminiRefuses, BedrockRefuses
<1>3. CASE TransportFails
  BY <1>0, <1>3, RaiseFails DEF TransportFails
<1>4. CASE UpstreamRefuses
  BY <1>0, <1>4, RaiseFails DEF UpstreamRefuses
<1>5. CASE AnswerNotJson
  BY <1>0, <1>5, RaiseFails DEF AnswerNotJson
<1> QED BY <1>2, <1>3, <1>4, <1>5

LEMMA QuietSteps ==
    ASSUME SendRequest \/ OpenStream \/ EndOfStream
    PROVE  Quietly /\ UNCHANGED <<provider, mode, prompt>>
<1>1. CASE SendRequest
  BY <1>1 DEF SendRequest, Quietly, observed
<1>2. CASE OpenStream
  BY <1>2 DEF OpenStream, Quietly, observed
<1>3. CASE EndOfStream
  BY <1>3 DEF EndOfStream, Quietly, observed
<1> QED BY <1>1, <1>2, <1>3

\* The answer as a whole.
LEMMA AnswerSteps ==
    ASSUME AdapterTyped, NothingYet, NEW n \in 0 .. MaxBlocks,
           NEW r \in NativeReasons[provider] \cup {None}, Answer(n, r)
    PROVE  Answers /\ UNCHANGED <<provider, mode, prompt, body>>
<1> DEFINE t == [i \in 1 .. n |-> i]
           f == IF provider \in Passthrough THEN r ELSE OpenAIReason(r)
<1>1. t \in Seq(Nat)
  OBVIOUS
<1>2. OpenAIReason(r) \in FinishReasons
  BY ReasonKnown
<1>3. f \in Reasons
  BY <1>2 DEF Reasons, AdapterTyped
<1>4. given' = <<OpenAIReason(r)>> /\ said' = t /\ client' = client \o <<Completion(t, f)>>
  BY DEF Answer, Send
<1>5. given' \in Seq(FinishReasons)
  BY <1>2, <1>4
<1>6. /\ pc = "waiting" /\ mode = "complete" /\ pc' = "done"
      /\ UNCHANGED <<provider, mode, prompt, body, held, broke, finish, lines>>
  BY DEF Answer
<1> HIDE DEF t, f
<1> QED BY <1>1, <1>3, <1>4, <1>5, <1>6 DEF Answers

LEMMA OddAnswerSteps ==
    ASSUME AdapterTyped, NothingYet, AnswerOdd
    PROVE  (Answers \/ Fails) /\ UNCHANGED <<provider, mode, prompt, body>>
<1>1. UNCHANGED <<provider, mode, prompt, body, lines, finish, held, said, given>> /\ pc = "waiting"
  BY DEF AnswerOdd
<1>2. CASE provider \in Passthrough
  BY <1>1, <1>2 DEF AnswerOdd, Send, Answers, AdapterTyped
<1>3. CASE provider \notin Passthrough
  <2>1. RaiseOther /\ lines' \in Nat
    BY <1>1, <1>3 DEF AnswerOdd, AdapterTyped
  <2> QED BY <1>1, <2>1, OtherFails
<1> QED BY <1>2, <1>3

LEMMA WholeSteps ==
    ASSUME AdapterTyped, NEW n \in 0 .. MaxBlocks, NEW r, AnswerAsStream(n, r)
    PROVE  Whole /\ UNCHANGED <<provider, mode, prompt, body>>
<1> DEFINE t == [i \in 1 .. n |-> i]
           f == OpenAIReason(r)
<1>1. t \in Seq(Nat)
  OBVIOUS
<1>2. f \in FinishReasons
  BY ReasonKnown
<1>3. given' = <<f>> /\ said' = t /\ Deliver(t, None, <<Chunk(<< >>, f)>>)
  BY DEF AnswerAsStream
<1>4. pc = "waiting" /\ pc' = "flush" /\ UNCHANGED <<provider, mode, prompt, body, broke, finish, lines>>
  BY DEF AnswerAsStream
<1> HIDE DEF t, f
<1> QED BY <1>1, <1>2, <1>3, <1>4 DEF Whole

LEMMA LastSteps ==
    ASSUME Finish \/ Flush
    PROVE  (Ends \/ Flushes) /\ UNCHANGED <<provider, mode, prompt, body>>
<1>1. CASE Finish
  BY <1>1 DEF Finish, Ends, Send, observed
<1>2. CASE Flush
  BY <1>2 DEF Flush, Flushes, Send, observed
<1> QED BY <1>1, <1>2

\* A line that is read.
LEMMA LineParts ==
    ASSUME AdapterTyped, NEW l
    PROVE  /\ TextOf(l) \in Seq(Nat)
           /\ Reason(l) \in Seq(FinishReasons)
           /\ given \o Reason(l) \in Seq(FinishReasons)
           /\ NoteReason(l) => finish' \in FinishReasons
<1>1. OpenAIReason(l.reason) \in FinishReasons
  BY ReasonKnown
<1>2. lines + 1 \in Nat
  BY DEF AdapterTyped
<1>3. TextOf(l) \in Seq(Nat)
  BY <1>2 DEF TextOf
<1>4. Reason(l) \in Seq(FinishReasons)
  BY <1>1 DEF Reason
<1>5. given \o Reason(l) \in Seq(FinishReasons)
  BY <1>4, ConcatProperties DEF AdapterTyped
<1>6. NoteReason(l) => finish' \in FinishReasons
  BY <1>1 DEF NoteReason, AdapterTyped
<1> QED BY <1>3, <1>4, <1>5, <1>6

LEMMA ArrivesIs ==
    ASSUME AdapterTyped, NEW ps, NEW l, Arrives(ps, l)
    PROVE  /\ pc = "lines" /\ provider \in ps /\ said' = said \o TextOf(l) /\ lines' \in Nat
           /\ UNCHANGED <<provider, mode, prompt, body>>
  BY DEF Arrives, AdapterTyped

LEMMA RelaySteps ==
    ASSUME AdapterTyped, NEW l \in Lines(provider), RelayLine(l)
    PROVE  Reads /\ UNCHANGED <<provider, mode, prompt, body>>
<1> DEFINE after == IF l.kind \in {"odd", "failure"} THEN <<Relayed(l.kind)>>
                    ELSE IF l = Event(FALSE, None) THEN <<Relayed("event")>> ELSE << >>
<1>1. /\ pc = "lines" /\ provider \in Passthrough /\ said' = said \o TextOf(l) /\ lines' \in Nat
      /\ UNCHANGED <<provider, mode, prompt, body>>
  BY ArrivesIs DEF RelayLine
<1>2. /\ Deliver(TextOf(l), l.reason, after) /\ given' = given \o Reason(l)
      /\ UNCHANGED <<pc, finish, broke>>
  BY DEF RelayLine
<1>3. TextOf(l) \in Seq(Nat) /\ given' \in Seq(FinishReasons) /\ finish' \in FinishReasons
  BY <1>2, LineParts DEF AdapterTyped
<1>4. l.reason \in Reasons
  <2>1. l.reason \in {m.reason : m \in Lines(provider)}
    OBVIOUS
  <2>2. {m.reason : m \in Lines(provider)} \in {{m.reason : m \in Lines(p)} : p \in Providers}
    BY DEF AdapterTyped
  <2>3. l.reason \in LineReasons
    BY <2>1, <2>2, Zenon DEF LineReasons
  <2> QED BY <2>3 DEF Reasons
<1>5. after \in Seq(NotError) /\ TextsOf(after) = << >>
  <2>1. ASSUME NEW k \in {"odd", "failure", "event"}
        PROVE  <<Relayed(k)>> \in Seq(NotError) /\ TextsOf(<<Relayed(k)>>) = << >>
    <3>1. k \in Kinds /\ None \in Reasons /\ << >> \in Seq(Nat) /\ 0 \in Nat /\ held \in Seq(Nat)
      BY DEF Kinds, Reasons, AdapterTyped
    <3>2. Relayed(k) \in Item
      BY <3>1, ItemsSent
    <3>3. Relayed(k).text = << >> /\ Relayed(k).kind # "error"
      BY DEF Relayed
    <3>4. Relayed(k) \in NotError
      BY <3>2, <3>3 DEF NotError
    <3> QED BY <3>2, <3>3, <3>4, TextsOfOne
  <2>2. CASE l.kind \in {"odd", "failure"}
    BY <2>1, <2>2
  <2>3. CASE l.kind \notin {"odd", "failure"} /\ l = Event(FALSE, None)
    BY <2>1, <2>3
  <2>4. CASE l.kind \notin {"odd", "failure"} /\ l # Event(FALSE, None)
    <3>1. << >> \in Seq(NotError)
      OBVIOUS
    <3> QED BY <2>4, <3>1, TextsOfNone
  <2> QED BY <2>2, <2>3, <2>4
<1>6. provider \notin Translating
  BY <1>1 DEF Passthrough, Translating
<1> HIDE DEF after
<1> QED BY <1>1, <1>2, <1>3, <1>4, <1>5, <1>6 DEF Reads

LEMMA TranslatedSteps ==
    ASSUME AdapterTyped, NEW l, AnthropicLine(l) \/ GeminiLine(l)
    PROVE  Reads /\ UNCHANGED <<provider, mode, prompt, body>>
<1> DEFINE none == << >>
<1>1. /\ pc = "lines" /\ said' = said \o TextOf(l) /\ lines' \in Nat
      /\ UNCHANGED <<provider, mode, prompt, body>>
  BY ArrivesIs DEF AnthropicLine, GeminiLine
<1>2. /\ Deliver(TextOf(l), None, none) /\ NoteReason(l)
      /\ given' = given \o Reason(l) /\ pc' \in {"lines", "finish"} /\ UNCHANGED broke
  BY <1>1 DEF AnthropicLine, GeminiLine
<1>3. TextOf(l) \in Seq(Nat) /\ given' \in Seq(FinishReasons) /\ finish' \in FinishReasons
  BY <1>2, LineParts
<1>4. None \in Reasons /\ none \in Seq(NotError) /\ TextsOf(none) = none /\ none = << >>
  BY TextsOfNone DEF Reasons
<1>5. Noted
  BY <1>2 DEF Noted
<1> HIDE DEF none
<1> QED BY <1>1, <1>2, <1>3, <1>4, <1>5 DEF Reads

LEMMA OllamaSteps ==
    ASSUME AdapterTyped, NEW l, OllamaLine(l)
    PROVE  Reads /\ UNCHANGED <<provider, mode, prompt, body>>
<1> DEFINE after == IF l.kind = "end" THEN <<Chunk(<< >>, "stop")>> ELSE << >>
<1>1. /\ pc = "lines" /\ provider \in {"ollama"} /\ said' = said \o TextOf(l) /\ lines' \in Nat
      /\ UNCHANGED <<provider, mode, prompt, body>>
  BY ArrivesIs DEF OllamaLine
<1>2. /\ Deliver(TextOf(l), None, after) /\ UNCHANGED <<pc, finish, broke>>
      /\ given' = IF l.kind = "end" THEN Append(given, "stop") ELSE given
  BY DEF OllamaLine
<1>3. TextOf(l) \in Seq(Nat) /\ finish' \in FinishReasons
  BY <1>2, LineParts DEF AdapterTyped
<1>4. given' \in Seq(FinishReasons)
  BY <1>2 DEF AdapterTyped, FinishReasons
<1>5. after \in Seq(NotError) /\ TextsOf(after) = << >>
  <2>1. None \in Reasons /\ "stop" \in Reasons /\ << >> \in Seq(Nat) /\ 0 \in Nat /\ held \in Seq(Nat) /\ "odd" \in Kinds
    BY DEF Reasons, FinishReasons, AdapterTyped, Kinds
  <2>2. Chunk(<< >>, "stop") \in Item
    BY <2>1, ItemsSent
  <2>3. Chunk(<< >>, "stop").text = << >> /\ Chunk(<< >>, "stop").kind # "error"
    BY DEF Chunk
  <2>4. Chunk(<< >>, "stop") \in NotError
    BY <2>2, <2>3 DEF NotError
  <2>5. CASE l.kind = "end"
    BY <2>2, <2>3, <2>4, <2>5, TextsOfOne
  <2>6. CASE l.kind # "end"
    BY <2>6, TextsOfNone
  <2> QED BY <2>5, <2>6
<1>6. provider \notin Translating /\ None \in Reasons
  BY <1>1 DEF Translating, Reasons
<1> HIDE DEF after
<1> QED BY <1>1, <1>2, <1>3, <1>4, <1>5, <1>6 DEF Reads

LEMMA OddSteps ==
    ASSUME AdapterTyped, OddLine
    PROVE  Fails /\ UNCHANGED <<provider, mode, prompt, body>>
<1>1. /\ pc = "lines" /\ said' = said \o TextOf(Odd) /\ lines' \in Nat
      /\ UNCHANGED <<provider, mode, prompt, body>>
  BY ArrivesIs DEF OddLine
<1>2. TextOf(Odd) = << >>
  BY DEF TextOf, Odd
<1>3. said' = said
  BY <1>1, <1>2, ConcatEmptySeq DEF AdapterTyped
<1>4. RaiseOther /\ UNCHANGED <<finish, held, given>>
  BY DEF OddLine
<1> QED BY <1>1, <1>3, <1>4, OtherFails

\* Every step is one of these.
Effect == Quietly \/ Fails \/ Reads \/ Answers \/ Whole \/ Ends \/ Flushes

LEMMA StepHasEffect ==
    ASSUME AdapterTyped, NothingYet, Next
    PROVE  Effect /\ UNCHANGED <<provider, mode, prompt>>
<1>1. CASE \/ AzureRefuses \/ GeminiRefuses \/ BedrockRefuses
           \/ TransportFails \/ UpstreamRefuses \/ AnswerNotJson
  BY <1>1, EarlySteps DEF Effect
<1>2. CASE SendRequest \/ OpenStream \/ EndOfStream
  BY <1>2, QuietSteps DEF Effect
<1>3. CASE AnswerOdd
  BY <1>3, OddAnswerSteps DEF Effect
<1>4. CASE \E n \in 0 .. MaxBlocks, r \in NativeReasons[provider] \cup {None} :
              Answer(n, r) \/ AnswerAsStream(n, r)
  BY <1>4, AnswerSteps, WholeSteps DEF Effect
<1>5. CASE \E l \in Lines(provider) :
              RelayLine(l) \/ AnthropicLine(l) \/ GeminiLine(l) \/ OllamaLine(l)
  BY <1>5, RelaySteps, TranslatedSteps, OllamaSteps DEF Effect
<1>6. CASE OddLine
  BY <1>6, OddSteps DEF Effect
<1>7. CASE Finish \/ Flush
  BY <1>7, LastSteps DEF Effect
<1> QED BY <1>1, <1>2, <1>3, <1>4, <1>5, <1>6, <1>7 DEF Next

-----------------------------------------------------------------------------
(* Text in order *)

\* What is delivered and what is held are what was held and what came.
LEMMA DeliverKeeps ==
    ASSUME held \in Seq(Nat), client \in Seq(Item), NEW t \in Seq(Nat), NEW r \in Reasons,
           NEW after \in Seq(Item), Deliver(t, r, after)
    PROVE  /\ held' \in Seq(Nat) /\ client' \in Seq(Item)
           /\ \E x \in Seq(Nat) :
                /\ client' = client \o ((IF t = << >> /\ r = None THEN << >> ELSE <<Chunk(x, r)>>) \o after)
                /\ x \o held' = held \o t
                /\ t = << >> => x = << >>
<1> DEFINE all == held \o t
<1>1. all \in Seq(Nat) /\ Len(all) \in Nat
  BY ConcatProperties
<1>2. PICK out \in IF t = << >> THEN {0} ELSE 0 .. Len(all) :
          /\ held' = SubSeq(all, out + 1, Len(all))
          /\ client' = client \o ((IF t = << >> /\ r = None THEN << >>
                                   ELSE <<Chunk(SubSeq(all, 1, out), r)>>) \o after)
  BY DEF Deliver, Send
<1> DEFINE x == SubSeq(all, 1, out)
           items == (IF t = << >> /\ r = None THEN << >> ELSE <<Chunk(x, r)>>) \o after
<1>3. out \in 0 .. Len(all)
  BY <1>1, <1>2
<1>4. t = << >> => out = 0
  BY <1>2
<1> HIDE DEF all
<1>5. x \in Seq(Nat) /\ held' \in Seq(Nat) /\ x \o held' = all
  <2> DEFINE n == Len(all)
  <2>1. n \in Nat /\ out \in 0 .. n
    BY <1>1, <1>3
  <2>2. held' = SubSeq(all, out + 1, n)
    BY <1>2
  <2>3. SubSeq(all, 1, out) \in Seq(Nat) /\ SubSeq(all, out + 1, n) \in Seq(Nat)
    BY <1>1, <1>3, SMTT(30)
  <2>4. SubSeq(all, 1, out) \o SubSeq(all, out + 1, n) = all
    <3>1. /\ 1 \in 1 .. n + 1 /\ out \in 1 - 1 .. n /\ n \in 1 - 1 .. n /\ n \in out .. n
          /\ SubSeq(all, 1, n) = all
      BY <1>1, <1>3, SubSeqFull
    <3> QED BY <1>1, <3>1, ConcatAdjacentSubSeq
  <2> QED BY <2>2, <2>3, <2>4
<1>6. t = << >> => x = << >>
  BY <1>1, <1>4, SubSeqEmpty
<1>7. Chunk(x, r) \in Item
  <2>1. 0 \in Nat /\ "odd" \in Kinds
    BY DEF Kinds
  <2> QED BY <1>5, <2>1, ItemsSent
<1> HIDE DEF x
<1>8. items \in Seq(Item)
  <2>1. CASE t = << >> /\ r = None
    BY <2>1
  <2>2. CASE ~(t = << >> /\ r = None)
    BY <1>7, <2>2
  <2> QED BY <2>1, <2>2
<1>9. client' = client \o items
  BY <1>2 DEF x
<1> HIDE DEF items
<1>10. client' \in Seq(Item)
  BY <1>8, <1>9
<1> QED BY <1>5, <1>6, <1>9, <1>10 DEF items, all

LEMMA Assoc ==
    ASSUME NEW a \in Seq(Nat), NEW b \in Seq(Nat), NEW c \in Seq(Nat)
    PROVE  (a \o b) \o c = a \o (b \o c)
  OBVIOUS

LEMMA ItemsAdd ==
    ASSUME client \in Seq(Item), NEW d \in Seq(Item), client' = client \o d
    PROVE  /\ client' \in Seq(Item) /\ ClientText \in Seq(Nat) /\ TextsOf(d) \in Seq(Nat)
           /\ ClientText' = ClientText \o TextsOf(d)
<1>1. ClientText = TextsOf(client) /\ ClientText' = TextsOf(client')
  BY DEF ClientText
<1>2. client' \in Seq(Item) /\ TextsOf(client) \in Seq(Nat) /\ TextsOf(d) \in Seq(Nat)
  BY TextsOfConcat
<1>3. TextsOf(client \o d) = TextsOf(client) \o TextsOf(d)
  BY TextsOfConcat
<1> QED BY <1>1, <1>2, <1>3

LEMMA DeliverText ==
    ASSUME held \in Seq(Nat), client \in Seq(Item), NEW t \in Seq(Nat), NEW r \in Reasons,
           NEW after \in Seq(Item), TextsOf(after) = << >>, Deliver(t, r, after)
    PROVE  /\ held' \in Seq(Nat) /\ client' \in Seq(Item)
           /\ ClientText' \o held' = (ClientText \o held) \o t
<1>1. held' \in Seq(Nat) /\ client' \in Seq(Item)
  BY DeliverKeeps
<1>2. PICK x \in Seq(Nat) :
          /\ client' = client \o ((IF t = << >> /\ r = None THEN << >> ELSE <<Chunk(x, r)>>) \o after)
          /\ x \o held' = held \o t
          /\ t = << >> => x = << >>
  BY DeliverKeeps
<1> DEFINE pre == IF t = << >> /\ r = None THEN << >> ELSE <<Chunk(x, r)>>
<1>3. pre \in Seq(Item) /\ TextsOf(pre) = x
  <2>1. CASE t = << >> /\ r = None
    BY <1>2, <2>1, TextsOfNone
  <2>2. CASE ~(t = << >> /\ r = None)
    <3>1. 0 \in Nat /\ "odd" \in Kinds
      BY DEF Kinds
    <3>2. Chunk(x, r) \in Item
      BY <3>1, ItemsSent
    <3>3. Chunk(x, r).text = x
      BY DEF Chunk
    <3> QED BY <2>2, <3>2, <3>3, TextsOfOne
  <2> QED BY <2>1, <2>2
<1>4. client' = client \o (pre \o after)
  BY <1>2
<1> HIDE DEF pre
<1>5. pre \o after \in Seq(Item) /\ TextsOf(pre \o after) = x \o << >>
  BY <1>3, TextsOfConcat
<1>6. x \o << >> = x
  BY ConcatEmptySeq
<1>7. ClientText' = ClientText \o x /\ ClientText \in Seq(Nat)
  BY <1>4, <1>5, <1>6, ItemsAdd
<1> DEFINE c == ClientText
<1>8. (c \o x) \o held' = c \o (x \o held') /\ (c \o held) \o t = c \o (held \o t)
  <2>1. c \in Seq(Nat)
    BY <1>7
  <2> HIDE DEF c
  <2>2. held' \in Seq(Nat) /\ x \in Seq(Nat) /\ held \in Seq(Nat) /\ t \in Seq(Nat)
    BY <1>1
  <2>3. (c \o x) \o held' = c \o (x \o held')
    BY <2>1, <2>2, Assoc, Zenon
  <2>4. (c \o held) \o t = c \o (held \o t)
    BY <2>1, <2>2, Assoc, Zenon
  <2> QED BY <2>3, <2>4
<1> QED BY <1>1, <1>2, <1>7, <1>8

-----------------------------------------------------------------------------
TextInv == AdapterTyped /\ NothingYet /\ TextInOrder

\* None is told apart from what a variable may hold instead.

LEMMA TextInit ==
    ASSUME Init
    PROVE  TextInv
<1>1. /\ provider \in Providers /\ mode \in {"complete", "stream"} /\ pc = "start" /\ lines = 0
      /\ finish = "stop" /\ held = << >> /\ client = << >> /\ said = << >> /\ given = << >> /\ broke = None
  BY DEF Init
<1>2. /\ held \in Seq(Nat) /\ client \in Seq(Item) /\ said \in Seq(Nat) /\ given \in Seq(FinishReasons)
      /\ finish \in FinishReasons
  BY <1>1 DEF FinishReasons
<1>3. AdapterTyped
  BY <1>1, <1>2, Zenon DEF AdapterTyped
<1>4. TextInOrder
  <2>1. ClientText = << >>
    BY <1>1, TextsOfNone DEF ClientText
  <2>2. << >> \o << >> = << >>
    OBVIOUS
  <2> QED BY <1>1, <2>1, <2>2, Zenon DEF TextInOrder
<1> QED BY <1>1, <1>3, <1>4 DEF TextInv, NothingYet

LEMMA TextQuietly ==
    ASSUME TextInv, Quietly, UNCHANGED <<provider, mode>>
    PROVE  TextInv'
<1>1. AdapterTyped'
  BY DEF TextInv, AdapterTyped, Quietly
<1>2. NothingYet'
  BY DEF TextInv, NothingYet, Quietly
<1>3. ClientText' = ClientText
  BY DEF Quietly, ClientText
<1>4. TextInOrder'
  BY <1>3 DEF TextInv, Quietly, TextInOrder
<1> QED BY <1>1, <1>2, <1>4 DEF TextInv

\* Items without text.
LEMMA NoTextOf ==
    ASSUME NEW c \in Seq(Item), NEW d \in Seq(Item), TextsOf(c) = << >>, TextsOf(d) = << >>
    PROVE  c \o d \in Seq(Item) /\ TextsOf(c \o d) = << >>
<1>1. << >> \o << >> = << >>
  OBVIOUS
<1> QED BY <1>1, TextsOfConcat

LEMMA SilentItems ==
    ASSUME held \in Seq(Nat), NEW s \in Nat, NEW f \in Reasons
    PROVE  /\ \A x \in {Error(s), DONE, Chunk(<< >>, f), Relayed("odd")} :
                  x \in Item /\ <<x>> \in Seq(Item) /\ TextsOf(<<x>>) = << >>
           /\ Failed(s) \in Seq(Item) /\ TextsOf(Failed(s)) = << >>
           /\ Closed \in Seq(Item) /\ TextsOf(Closed) = << >>
<1>0. << >> \in Seq(Nat) /\ "odd" \in Kinds
  BY DEF Kinds
<1>1. Error(s) \in Item /\ DONE \in Item /\ Chunk(<< >>, f) \in Item /\ Relayed("odd") \in Item
  BY <1>0, ItemsSent
<1>2. Error(s).text = << >> /\ DONE.text = << >> /\ Chunk(<< >>, f).text = << >> /\ Relayed("odd").text = << >>
  BY DEF Error, DONE, Chunk, Relayed
<1>3. \A x \in {Error(s), DONE, Chunk(<< >>, f), Relayed("odd")} :
          x \in Item /\ <<x>> \in Seq(Item) /\ TextsOf(<<x>>) = << >>
  BY <1>1, <1>2, TextsOfOne
<1>4. <<Error(s), DONE>> = <<Error(s)>> \o <<DONE>>
  OBVIOUS
<1>5. <<Error(s), DONE>> \in Seq(Item) /\ TextsOf(<<Error(s), DONE>>) = << >>
  <2> DEFINE a == <<Error(s)>>
             b == <<DONE>>
  <2>1. a \in Seq(Item) /\ b \in Seq(Item) /\ TextsOf(a) = << >> /\ TextsOf(b) = << >>
    BY <1>3
  <2>2. <<Error(s), DONE>> = a \o b
    BY <1>4
  <2> HIDE DEF a, b
  <2>3. a \o b \in Seq(Item) /\ TextsOf(a \o b) = << >>
    BY <2>1, NoTextOf
  <2> QED BY <2>2, <2>3, Zenon
<1>6. Failed(s) \in Seq(Item) /\ TextsOf(Failed(s)) = << >>
  BY <1>3, <1>5 DEF Failed
<1>7. << >> \in Seq(Item)
  OBVIOUS
<1>8. Closed \in Seq(Item) /\ TextsOf(Closed) = << >>
  BY <1>3, <1>7, TextsOfNone DEF Closed
<1> QED BY <1>3, <1>6, <1>8

\* Items without text leave the text as it is.
LEMMA SilentAdd ==
    ASSUME client \in Seq(Item), NEW d \in Seq(Item), TextsOf(d) = << >>, client' = client \o d
    PROVE  client' \in Seq(Item) /\ ClientText' = ClientText
<1>1. client' \in Seq(Item) /\ ClientText \in Seq(Nat) /\ ClientText' = ClientText \o << >>
  BY ItemsAdd
<1>2. ClientText \o << >> = ClientText
  BY <1>1, ConcatEmptySeq
<1> QED BY <1>1, <1>2

LEMMA TextFails ==
    ASSUME TextInv, Fails, UNCHANGED <<provider, mode>>
    PROVE  TextInv'
<1>1. PICK d \in Seq(Item) : client' = client \o d /\ TextsOf(d) = << >>
  <2>1. held \in Seq(Nat) /\ None \in Reasons /\ 0 \in Nat
    BY DEF TextInv, AdapterTyped, Reasons
  <2>2. CASE \E s \in Nat : client' = client \o Failed(s)
    BY <2>1, <2>2, SilentItems
  <2>3. CASE client' = client \o Closed
    BY <2>1, <2>3, SilentItems
  <2> QED BY <2>2, <2>3 DEF Fails
<1>2. client' \in Seq(Item) /\ ClientText' = ClientText
  BY <1>1, SilentAdd DEF TextInv, AdapterTyped
<1>3. pc' = "done" /\ UNCHANGED <<held, said, given, finish>> /\ lines' \in Nat /\ broke' \in Breaks
  BY DEF Fails, Breaks
<1>4. AdapterTyped'
  BY <1>2, <1>3 DEF TextInv, AdapterTyped
<1>5. NothingYet'
  BY <1>3 DEF NothingYet
<1>6. broke' # None
  BY <1>3, ProviderAssumption DEF NoneIsApart
<1>7. TextInOrder'
  BY <1>2, <1>3, <1>6 DEF TextInv, TextInOrder
<1> QED BY <1>4, <1>5, <1>7 DEF TextInv

LEMMA TextReads ==
    ASSUME TextInv, Reads, UNCHANGED <<provider, mode>>
    PROVE  TextInv'
<1>1. PICK t \in Seq(Nat), r \in Reasons, after \in Seq(NotError) :
          said' = said \o t /\ TextsOf(after) = << >> /\ Deliver(t, r, after)
  BY DEF Reads
<1>2. held \in Seq(Nat) /\ client \in Seq(Item) /\ said \in Seq(Nat) /\ ClientText \o held = said
  BY DEF TextInv, AdapterTyped, TextInOrder
<1>3. after \in Seq(Item)
  BY DEF NotError
<1>4. /\ held' \in Seq(Nat) /\ client' \in Seq(Item)
      /\ ClientText' \o held' = (ClientText \o held) \o t
  BY <1>1, <1>2, <1>3, DeliverText
<1>5. said' \in Seq(Nat)
  BY <1>1, <1>2
<1>6. AdapterTyped'
  BY <1>4, <1>5 DEF TextInv, AdapterTyped, Reads
<1>7. NothingYet'
  BY DEF NothingYet, Reads
<1>8. ClientText' \o held' = said'
  BY <1>1, <1>2, <1>4
<1>9. pc' # "done"
  BY DEF Reads
<1> QED BY <1>6, <1>7, <1>8, <1>9, Zenon DEF TextInv, TextInOrder

LEMMA TextAnswers ==
    ASSUME TextInv, Answers, UNCHANGED <<provider, mode>>
    PROVE  TextInv'
<1>1. /\ pc = "waiting" /\ pc' = "done" /\ UNCHANGED <<held, broke, finish, lines>>
      /\ given' \in Seq(FinishReasons)
  BY DEF Answers
<1>2. held = << >> /\ client = << >> /\ said = << >> /\ held \in Seq(Nat) /\ client \in Seq(Item)
  BY <1>1 DEF TextInv, NothingYet, AdapterTyped
<1>3. client' \in Seq(Item) /\ said' \in Seq(Nat) /\ ClientText' = said'
  <2>1. ClientText = << >>
    BY <1>2, TextsOfNone DEF ClientText
  <2>2. CASE \E t \in Seq(Nat), f \in Reasons : client' = client \o <<Completion(t, f)>> /\ said' = t
    <3>1. PICK t \in Seq(Nat), f \in Reasons : client' = client \o <<Completion(t, f)>> /\ said' = t
      BY <2>2
    <3>2. Completion(t, f) \in Item /\ Completion(t, f).text = t
      <4>1. 0 \in Nat /\ "odd" \in Kinds
        BY DEF Kinds
      <4>2. Completion(t, f) \in Item
        BY <1>2, <4>1, ItemsSent
      <4> QED BY <4>2 DEF Completion
    <3>3. <<Completion(t, f)>> \in Seq(Item) /\ TextsOf(<<Completion(t, f)>>) = t
      BY <3>2, TextsOfOne
    <3>4. client' \in Seq(Item) /\ ClientText' = << >> \o t
      BY <1>2, <2>1, <3>1, <3>3, ItemsAdd
    <3>5. << >> \o t = t
      OBVIOUS
    <3> QED BY <3>1, <3>4, <3>5
  <2>3. CASE client' = client \o <<Relayed("odd")>> /\ said' = said
    <3>1. None \in Reasons /\ 0 \in Nat
      BY DEF Reasons
    <3>2. <<Relayed("odd")>> \in Seq(Item) /\ TextsOf(<<Relayed("odd")>>) = << >>
      BY <1>2, <3>1, SilentItems
    <3>3. client' \in Seq(Item) /\ ClientText' = ClientText
      BY <1>2, <2>3, <3>2, SilentAdd
    <3> QED BY <1>2, <2>1, <2>3, <3>3
  <2> QED BY <2>2, <2>3 DEF Answers
<1>4. AdapterTyped'
  BY <1>1, <1>3 DEF TextInv, AdapterTyped
<1>5. NothingYet'
  BY <1>1 DEF NothingYet
<1>6. ClientText' \o held' = said' /\ held' = << >>
  <2>1. said' \o << >> = said'
    BY <1>3, ConcatEmptySeq
  <2> QED BY <1>1, <1>2, <1>3, <2>1
<1>7. TextInOrder'
  BY <1>6, Zenon DEF TextInOrder
<1> QED BY <1>4, <1>5, <1>7 DEF TextInv

LEMMA TextWhole ==
    ASSUME TextInv, Whole, UNCHANGED <<provider, mode>>
    PROVE  TextInv'
<1>1. PICK t \in Seq(Nat), f \in FinishReasons :
          said' = t /\ given' = <<f>> /\ Deliver(t, None, <<Chunk(<< >>, f)>>)
  BY DEF Whole
<1>2. pc = "waiting" /\ pc' = "flush" /\ UNCHANGED <<broke, finish, lines>>
  BY DEF Whole
<1>3. held = << >> /\ said = << >> /\ held \in Seq(Nat) /\ client \in Seq(Item) /\ ClientText \o held = said
  BY <1>2 DEF TextInv, NothingYet, AdapterTyped, TextInOrder
<1>4. <<Chunk(<< >>, f)>> \in Seq(Item) /\ TextsOf(<<Chunk(<< >>, f)>>) = << >>
  <2>1. f \in Reasons /\ 0 \in Nat
    BY DEF Reasons
  <2> QED BY <1>3, <2>1, SilentItems
<1>5. /\ held' \in Seq(Nat) /\ client' \in Seq(Item)
      /\ ClientText' \o held' = (ClientText \o held) \o t
  <2>1. None \in Reasons
    BY DEF Reasons
  <2> QED BY <1>1, <1>3, <1>4, <2>1, DeliverText
<1>6. ClientText' \o held' = said'
  <2>1. << >> \o t = t
    OBVIOUS
  <2> QED BY <1>1, <1>3, <1>5, <2>1
<1>7. given' \in Seq(FinishReasons)
  BY <1>1
<1>8. AdapterTyped'
  BY <1>1, <1>2, <1>5, <1>7 DEF TextInv, AdapterTyped
<1>9. NothingYet'
  BY <1>2 DEF NothingYet
<1>10. pc' # "done"
  BY <1>2
<1> QED BY <1>6, <1>8, <1>9, <1>10, Zenon DEF TextInv, TextInOrder

LEMMA TextEnds ==
    ASSUME TextInv, Ends, UNCHANGED <<provider, mode>>
    PROVE  TextInv'
<1>1. <<Chunk(<< >>, finish)>> \in Seq(Item) /\ TextsOf(<<Chunk(<< >>, finish)>>) = << >>
  <2>1. finish \in Reasons /\ 0 \in Nat /\ held \in Seq(Nat)
    BY DEF TextInv, AdapterTyped, Reasons
  <2> QED BY <2>1, SilentItems
<1>2. client' \in Seq(Item) /\ ClientText' = ClientText
  BY <1>1, SilentAdd DEF TextInv, AdapterTyped, Ends
<1>3. AdapterTyped'
  BY <1>2 DEF TextInv, AdapterTyped, Ends
<1>4. NothingYet'
  BY DEF NothingYet, Ends
<1>5. TextInOrder'
  BY <1>2 DEF TextInv, TextInOrder, Ends
<1> QED BY <1>3, <1>4, <1>5 DEF TextInv

LEMMA TextFlushes ==
    ASSUME TextInv, Flushes, UNCHANGED <<provider, mode>>
    PROVE  TextInv'
<1> DEFINE pre == IF held = << >> THEN << >> ELSE <<LastDelta>>
<1>1. /\ pc' = "done" /\ UNCHANGED <<said, given, broke, finish, lines>> /\ held' = << >>
      /\ client' = client \o (pre \o <<DONE>>)
  BY DEF Flushes
<1>2. held \in Seq(Nat) /\ client \in Seq(Item) /\ ClientText \o held = said /\ said \in Seq(Nat)
  BY DEF TextInv, AdapterTyped, TextInOrder
<1>3. pre \in Seq(Item) /\ TextsOf(pre) = held
  <2>1. CASE held = << >>
    <3>1. << >> \in Seq(Item)
      OBVIOUS
    <3> QED BY <2>1, <3>1, TextsOfNone
  <2>2. CASE held # << >>
    <3>1. 0 \in Nat /\ "odd" \in Kinds /\ None \in Reasons
      BY DEF Kinds, Reasons
    <3>2. LastDelta \in Item
      BY <1>2, <3>1, ItemsSent
    <3>3. LastDelta.text = held
      BY DEF LastDelta
    <3> QED BY <2>2, <3>2, <3>3, TextsOfOne
  <2> QED BY <2>1, <2>2
<1>4. <<DONE>> \in Seq(Item) /\ TextsOf(<<DONE>>) = << >>
  <2>1. None \in Reasons /\ 0 \in Nat
    BY DEF Reasons
  <2> QED BY <1>2, <2>1, SilentItems
<1> HIDE DEF pre
<1>5. pre \o <<DONE>> \in Seq(Item) /\ TextsOf(pre \o <<DONE>>) = held \o << >>
  BY <1>3, <1>4, TextsOfConcat
<1>6. held \o << >> = held
  BY <1>2, ConcatEmptySeq
<1>7. client' \in Seq(Item) /\ ClientText' = ClientText \o held
  BY <1>1, <1>2, <1>5, <1>6, ItemsAdd
<1>8. ClientText' \o held' = said' /\ held' \in Seq(Nat)
  <2>1. said \o << >> = said
    BY <1>2, ConcatEmptySeq
  <2> QED BY <1>1, <1>2, <1>7, <2>1
<1>9. AdapterTyped'
  BY <1>1, <1>7, <1>8 DEF TextInv, AdapterTyped
<1>10. NothingYet'
  BY <1>1 DEF NothingYet
<1>11. TextInOrder'
  BY <1>1, <1>8, Zenon DEF TextInOrder
<1> QED BY <1>9, <1>10, <1>11 DEF TextInv

LEMMA TextStep ==
    TextInv /\ [Next]_vars => TextInv'
<1> SUFFICES ASSUME TextInv, [Next]_vars PROVE TextInv'
  OBVIOUS
<1>1. CASE Next
  <2>1. Effect /\ UNCHANGED <<provider, mode>>
    BY <1>1, StepHasEffect DEF TextInv
  <2> QED BY <2>1, TextQuietly, TextFails, TextReads, TextAnswers, TextWhole, TextEnds, TextFlushes DEF Effect
<1>2. CASE UNCHANGED vars
  <2>1. UNCHANGED <<provider, mode, pc, lines, finish, held, client, said, given, broke>>
    BY <1>2 DEF vars
  <2>2. ClientText' = ClientText
    BY <2>1 DEF ClientText
  <2> QED BY <2>1, <2>2 DEF TextInv, AdapterTyped, NothingYet, TextInOrder
<1> QED BY <1>1, <1>2

\* The client of any adapter gets the text of the upstream, all of it and in order.
THEOREM AdaptersKeepTheText ==
    Spec => []TextInOrder
<1>1. Init => TextInv
  BY TextInit
<1>2. TextInv /\ [Next]_vars => TextInv'
  BY TextStep
<1>3. TextInv => TextInOrder
  BY DEF TextInv
<1> QED BY <1>1, <1>2, <1>3, PTL DEF Spec

-----------------------------------------------------------------------------
(* Failures are shown *)

Errors(c) == {i \in DOMAIN c : c[i].kind = "error"}

LEMMA CountIs ==
    /\ Count("error") = Cardinality(Errors(client))
    /\ Count("error")' = Cardinality(Errors(client'))
  BY DEF Count, Cardinality, Cardinality, Errors

LEMMA NoErrors ==
    ASSUME NEW c \in Seq(NotError)
    PROVE  Errors(c) = {} /\ Cardinality(Errors(c)) = 0
<1>1. \A i \in DOMAIN c : c[i] \in NotError
  OBVIOUS
<1>2. Errors(c) = {}
  BY <1>1 DEF Errors, NotError
<1> QED BY <1>2, FS_EmptySet

\* An error after other items, and perhaps before the end of the stream.
LEMMA OneError ==
    ASSUME NEW c \in Seq(NotError), NEW e \in Item, e.kind = "error",
           NEW z \in Seq(NotError), TextsOf(z) = << >>
    PROVE  LET d == (c \o <<e>>) \o z
           IN  /\ Cardinality(Errors(d)) = 1
               /\ \A i \in Errors(d) : TextsOf(d) = TextsOf(SubSeq(d, 1, i))
<1> DEFINE b == c \o <<e>>
           d == b \o z
           n == Len(c)
<1>1. c \in Seq(Item) /\ z \in Seq(Item) /\ <<e>> \in Seq(Item) /\ n \in Nat
  BY DEF NotError
<1>2. /\ b \in Seq(Item) /\ Len(b) = n + 1 /\ b[n + 1] = e
      /\ \A i \in 1 .. n : b[i] = c[i]
  BY <1>1
<1> HIDE DEF b
<1>3. /\ d \in Seq(Item) /\ Len(d) = n + 1 + Len(z) /\ d[n + 1] = e /\ n + 1 \in 1 .. Len(d)
      /\ \A i \in 1 .. Len(d) : i <= n => d[i] = c[i] /\ i \in 1 .. n
      /\ \A i \in 1 .. Len(d) : i > n + 1 => d[i] = z[i - n - 1] /\ i - n - 1 \in 1 .. Len(z)
  <2>1. d \in Seq(Item) /\ Len(d) = n + 1 + Len(z) /\ Len(z) \in Nat
    BY <1>1, <1>2, SMTT(30)
  <2>2. /\ \A i \in 1 .. n + 1 : d[i] = b[i]
        /\ \A i \in 1 .. n + 1 + Len(z) : i > n + 1 => d[i] = z[i - (n + 1)]
    BY <1>1, <1>2
  <2> HIDE DEF d, n
  <2>3. d[n + 1] = e /\ n + 1 \in 1 .. Len(d)
    BY <1>1, <1>2, <2>1, <2>2
  <2>4. ASSUME NEW i \in 1 .. Len(d), i <= n PROVE d[i] = c[i] /\ i \in 1 .. n
    <3>1. i \in 1 .. n /\ i \in 1 .. n + 1
      BY <1>1, <2>1, <2>4
    <3> QED BY <1>2, <2>2, <3>1, Zenon
  <2>5. ASSUME NEW i \in 1 .. Len(d), i > n + 1
        PROVE  d[i] = z[i - n - 1] /\ i - n - 1 \in 1 .. Len(z)
    <3>1. i \in 1 .. n + 1 + Len(z) /\ i - (n + 1) = i - n - 1 /\ i - n - 1 \in 1 .. Len(z)
      BY <1>1, <2>1, <2>5
    <3> QED BY <2>2, <2>5, <3>1
  <2> QED BY <2>1, <2>3, <2>4, <2>5
<1>4. SubSeq(d, 1, n + 1) = b
  <2>1. 1 \in 1 .. Len(b) + 1 /\ n + 1 \in 1 - 1 .. Len(b)
    BY <1>1, <1>2
  <2>2. SubSeq(b \o z, 1, n + 1) = SubSeq(b, 1, n + 1)
    BY <1>1, <1>2, <2>1, SubSeqOfConcat1
  <2>3. SubSeq(b, 1, n + 1) = b
    BY <1>2, SubSeqFull
  <2> QED BY <2>2, <2>3
<1>5. TextsOf(d) = TextsOf(b)
  <2>1. TextsOf(b \o z) = TextsOf(b) \o TextsOf(z) /\ TextsOf(b) \in Seq(Nat)
    BY <1>1, <1>2, TextsOfConcat
  <2> QED BY <2>1, ConcatEmptySeq
<1>6. \A i \in 1 .. n : c[i].kind # "error"
  BY DEF NotError
<1>7. \A i \in 1 .. Len(z) : z[i].kind # "error"
  BY DEF NotError
<1>8. DOMAIN d = 1 .. Len(d)
  BY <1>3
<1> HIDE DEF d, n
<1>9. Errors(d) = {n + 1}
  <2>1. \A i \in 1 .. Len(d) : d[i].kind = "error" <=> i = n + 1
    <3> TAKE i \in 1 .. Len(d)
    <3>1. CASE i <= n
      BY <1>1, <1>3, <1>6, <3>1
    <3>2. CASE i > n + 1
      BY <1>1, <1>3, <1>7, <3>2
    <3>3. CASE i = n + 1
      BY <1>3, <3>3
    <3> QED BY <1>1, <3>1, <3>2, <3>3
  <2> QED BY <1>3, <1>8, <2>1 DEF Errors
<1>10. Cardinality(Errors(d)) = 1
  BY <1>9, FS_Singleton
<1> QED BY <1>4, <1>5, <1>9, <1>10 DEF d, b

ErrorInv == TextInv /\ (pc # "done" => broke = None /\ client \in Seq(NotError)) /\ FailureShown

\* The items of a delivery are no errors.
LEMMA DeliverQuiet ==
    ASSUME held \in Seq(Nat), NEW X, X \subseteq Item, client \in Seq(X), NEW t \in Seq(Nat),
           NEW r \in Reasons, \A x \in Seq(Nat) : Chunk(x, r) \in X,
           NEW after \in Seq(X), Deliver(t, r, after)
    PROVE  client' \in Seq(X)
<1>0. client \in Seq(Item) /\ after \in Seq(Item)
  OBVIOUS
<1>1. \E x \in Seq(Nat) :
          /\ client' = client \o ((IF t = << >> /\ r = None THEN << >> ELSE <<Chunk(x, r)>>) \o after)
          /\ x \o held' = held \o t
          /\ t = << >> => x = << >>
  BY <1>0, DeliverKeeps, Zenon
<1> PICK x \in Seq(Nat) :
          client' = client \o ((IF t = << >> /\ r = None THEN << >> ELSE <<Chunk(x, r)>>) \o after)
  BY <1>1, Zenon
<1> DEFINE pre == IF t = << >> /\ r = None THEN << >> ELSE <<Chunk(x, r)>>
<1>2. pre \in Seq(X)
  <2>1. Chunk(x, r) \in X
    OBVIOUS
  <2>2. << >> \in Seq(X) /\ <<Chunk(x, r)>> \in Seq(X)
    BY <2>1
  <2> QED BY <2>2
<1>3. client' = client \o (pre \o after)
  OBVIOUS
<1> HIDE DEF pre
<1>4. pre \o after \in Seq(X)
  BY <1>2, ConcatProperties
<1> QED BY <1>3, <1>4, ConcatProperties

\* Every item but an error.
LEMMA NotErrors ==
    ASSUME held \in Seq(Nat), NEW t \in Seq(Nat), NEW f \in Reasons
    PROVE  {Chunk(t, f), Completion(t, f), Relayed("odd"), LastDelta, DONE} \subseteq NotError
<1>1. 0 \in Nat /\ "odd" \in Kinds
  BY DEF Kinds
<1>2. Chunk(t, f) \in Item /\ Completion(t, f) \in Item /\ Relayed("odd") \in Item /\ LastDelta \in Item /\ DONE \in Item
  BY <1>1, ItemsSent
<1>3. Chunk(t, f).kind # "error" /\ Completion(t, f).kind # "error" /\ Relayed("odd").kind # "error"
  BY DEF Chunk, Completion, Relayed
<1>4. LastDelta.kind # "error" /\ DONE.kind # "error"
  BY DEF LastDelta, DONE
<1> QED BY <1>2, <1>3, <1>4 DEF NotError

\* A step that breaks nothing.
LEMMA ErrorFree ==
    ASSUME TextInv', client' \in Seq(NotError), broke' = None \/ broke' = "raised",
           pc' # "done" => broke' = None
    PROVE  ErrorInv'
<1>1. Count("error")' = 0
  BY CountIs, NoErrors
<1>2. broke' \notin {"refused", "transport", "status"}
  BY ProviderAssumption DEF NoneIsApart, Breaks
<1> QED BY <1>1, <1>2 DEF ErrorInv, FailureShown

LEMMA ErrorFails ==
    ASSUME ErrorInv, Fails, TextInv', UNCHANGED mode
    PROVE  ErrorInv'
<1>0. client \in Seq(NotError) /\ held \in Seq(Nat) /\ None \in Reasons /\ << >> \in Seq(Nat) /\ pc' = "done"
  BY DEF ErrorInv, TextInv, AdapterTyped, Fails, Reasons
<1>1. DONE \in NotError
  BY <1>0, NotErrors
<1>2. CASE broke' \in {"refused", "transport", "status"} /\ \E s \in Nat : client' = client \o Failed(s)
  <2>1. PICK s \in Nat : client' = client \o Failed(s)
    BY <1>2
  <2> DEFINE e == Error(s)
             z == IF mode = "stream" THEN <<DONE>> ELSE << >>
  <2>2. e \in Item /\ e.kind = "error"
    <3>1. "odd" \in Kinds
      BY DEF Kinds
    <3>2. e \in Item
      BY <1>0, <3>1, ItemsSent
    <3> QED BY <3>2 DEF Error
  <2>3. z \in Seq(NotError) /\ TextsOf(z) = << >>
    <3>1. <<DONE>> \in Seq(NotError) /\ << >> \in Seq(NotError)
      BY <1>1
    <3>2. TextsOf(<<DONE>>) = << >>
      BY <1>0, SilentItems
    <3> QED BY <3>1, <3>2, TextsOfNone
  <2>4. client' = (client \o <<e>>) \o z
    <3>1. CASE mode = "stream"
      <4>1. Failed(s) = <<e, DONE>> /\ z = <<DONE>>
        BY <3>1 DEF Failed
      <4>2. client \o <<e, DONE>> = (client \o <<e>>) \o <<DONE>>
        <5>1. client \in Seq(Item) /\ DONE \in Item
          BY <1>0, <1>1 DEF NotError
        <5> HIDE DEF e
        <5> QED BY <2>2, <5>1, SMTT(30)
      <4> QED BY <2>1, <4>1, <4>2
    <3>2. CASE mode # "stream"
      <4>1. Failed(s) = <<e>> /\ z = << >>
        BY <3>2 DEF Failed
      <4>2. (client \o <<e>>) \o << >> = client \o <<e>>
        <5>1. client \in Seq(Item)
          BY <1>0 DEF NotError
        <5>2. client \o <<e>> \in Seq(Item)
          BY <2>2, <5>1
        <5> QED BY <5>2, ConcatEmptySeq
      <4> QED BY <2>1, <4>1, <4>2
    <3> QED BY <3>1, <3>2
  <2> HIDE DEF e, z
  <2>5. /\ Cardinality(Errors(client')) = 1
        /\ \A i \in Errors(client') : TextsOf(client') = TextsOf(SubSeq(client', 1, i))
    BY <1>0, <2>2, <2>3, <2>4, OneError
  <2>6. FailureShown'
    <3>1. ClientText' = TextsOf(client')
      BY DEF ClientText
    <3>2. Count("error")' = 1
      BY <2>5, CountIs
    <3>3. \A i \in DOMAIN client' : client'[i].kind = "error" => ClientText' = TextsOf(SubSeq(client', 1, i))
      BY <2>5, <3>1 DEF Errors
    <3> QED BY <1>2, <3>2, <3>3 DEF FailureShown
  <2> QED BY <1>0, <2>6 DEF ErrorInv
<1>3. CASE broke' = "raised" /\ client' = client \o Closed
  <2>1. Closed \in Seq(NotError)
    BY <1>1 DEF Closed
  <2>2. client' \in Seq(NotError)
    BY <1>0, <1>3, <2>1, ConcatProperties
  <2> QED BY <1>0, <1>3, <2>2, ErrorFree
<1> QED BY <1>2, <1>3 DEF Fails

\* The steps that fail nothing send no error.
LEMMA OthersSendNoError ==
    ASSUME ErrorInv, Quietly \/ Reads \/ Answers \/ Whole \/ Ends \/ Flushes
    PROVE  client' \in Seq(NotError) /\ broke' = None
<1>1. /\ held \in Seq(Nat) /\ client \in Seq(NotError) /\ broke = None /\ finish \in Reasons
      /\ None \in Reasons /\ << >> \in Seq(Nat) /\ NotError \subseteq Item
  BY DEF ErrorInv, TextInv, AdapterTyped, Reasons, NotError, Quietly, Reads, Answers, Whole, Ends, Flushes
<1>2. broke' = None
  BY <1>1 DEF Quietly, Reads, Answers, Whole, Ends, Flushes
<1>3. CASE Quietly
  BY <1>1, <1>3 DEF Quietly
<1>4. CASE Reads
  <2>1. PICK t \in Seq(Nat), r \in Reasons, after \in Seq(NotError) : Deliver(t, r, after)
    BY <1>4 DEF Reads
  <2>2. \A x \in Seq(Nat) : Chunk(x, r) \in NotError
    BY <1>1, NotErrors
  <2> QED BY <1>1, <1>2, <2>1, <2>2, DeliverQuiet
<1>5. CASE Answers
  <2>1. PICK i \in NotError : client' = client \o <<i>>
    <3>1. CASE \E t \in Seq(Nat), f \in Reasons : client' = client \o <<Completion(t, f)>>
      <4>1. PICK t \in Seq(Nat), f \in Reasons : client' = client \o <<Completion(t, f)>>
        BY <3>1
      <4>2. Completion(t, f) \in NotError
        BY <1>1, NotErrors
      <4> QED BY <4>1, <4>2
    <3>2. CASE client' = client \o <<Relayed("odd")>>
      <4>1. Relayed("odd") \in NotError
        BY <1>1, NotErrors
      <4> QED BY <3>2, <4>1
    <3> QED BY <1>5, <3>1, <3>2 DEF Answers
  <2>2. <<i>> \in Seq(NotError)
    OBVIOUS
  <2> QED BY <1>1, <1>2, <2>1, <2>2, ConcatProperties
<1>6. CASE Whole
  <2>1. PICK t \in Seq(Nat), f \in FinishReasons : Deliver(t, None, <<Chunk(<< >>, f)>>)
    BY <1>6 DEF Whole
  <2>2. \A x \in Seq(Nat), g \in Reasons : Chunk(x, g) \in NotError
    BY <1>1, NotErrors
  <2>3. f \in Reasons
    BY DEF Reasons
  <2>4. Chunk(<< >>, f) \in NotError
    BY <1>1, <2>2, <2>3
  <2>5. <<Chunk(<< >>, f)>> \in Seq(NotError)
    BY <2>4
  <2> QED BY <1>1, <1>2, <2>1, <2>2, <2>5, DeliverQuiet
<1>7. CASE Ends
  <2>1. Chunk(<< >>, finish) \in NotError
    BY <1>1, NotErrors
  <2>2. <<Chunk(<< >>, finish)>> \in Seq(NotError)
    BY <2>1
  <2> QED BY <1>1, <1>7, <2>2, ConcatProperties DEF Ends
<1>8. CASE Flushes
  <2> DEFINE pre == IF held = << >> THEN << >> ELSE <<LastDelta>>
  <2>1. LastDelta \in NotError /\ DONE \in NotError
    BY <1>1, NotErrors
  <2>2. pre \in Seq(NotError) /\ <<DONE>> \in Seq(NotError)
    BY <2>1
  <2>3. client' = client \o (pre \o <<DONE>>)
    BY <1>8 DEF Flushes
  <2> HIDE DEF pre
  <2>4. pre \o <<DONE>> \in Seq(NotError)
    BY <2>2, ConcatProperties
  <2> QED BY <1>1, <1>2, <2>3, <2>4, ConcatProperties
<1> QED BY <1>2, <1>3, <1>4, <1>5, <1>6, <1>7, <1>8

LEMMA ErrorStep ==
    ErrorInv /\ [Next]_vars => ErrorInv'
<1> SUFFICES ASSUME ErrorInv, [Next]_vars PROVE ErrorInv'
  OBVIOUS
<1>1. TextInv'
  BY TextStep DEF ErrorInv
<1>2. CASE Next
  <2>1. Effect /\ UNCHANGED <<provider, mode>>
    BY <1>2, StepHasEffect DEF ErrorInv, TextInv
  <2>2. CASE Fails
    BY <1>1, <2>1, <2>2, ErrorFails
  <2>3. CASE Quietly \/ Reads \/ Answers \/ Whole \/ Ends \/ Flushes
    <3>1. client' \in Seq(NotError) /\ broke' = None
      BY <2>3, OthersSendNoError
    <3> QED BY <1>1, <3>1, ErrorFree
  <2> QED BY <2>1, <2>2, <2>3 DEF Effect
<1>3. CASE UNCHANGED vars
  <2>1. UNCHANGED <<pc, client, broke>>
    BY <1>3 DEF vars
  <2>2. FailureShown'
    BY <2>1 DEF ErrorInv, FailureShown, Count, ClientText
  <2> QED BY <1>1, <2>1, <2>2 DEF ErrorInv
<1> QED BY <1>2, <1>3

\* A call the provider did not serve shows the client one error, after everything
\* else; no other call shows one (ProviderError of the adapters, as the route
\* answers it).
THEOREM FailuresShowOnce ==
    Spec => []FailureShown
<1>1. Init => ErrorInv
  <2> SUFFICES ASSUME Init PROVE ErrorInv
    OBVIOUS
  <2>1. TextInv
    BY TextInit
  <2>2. pc = "start" /\ broke = None /\ client = << >>
    BY DEF Init
  <2>3. client \in Seq(NotError)
    BY <2>2
  <2> QED BY <2>1, <2>2, <2>3 DEF ErrorInv, FailureShown
<1>2. ErrorInv /\ [Next]_vars => ErrorInv'
  BY ErrorStep
<1>3. ErrorInv => FailureShown
  BY DEF ErrorInv
<1> QED BY <1>1, <1>2, <1>3, PTL DEF Spec

-----------------------------------------------------------------------------
(* The end of an answer *)

Rest == {x \in Open : x.kind \in {"tail", "DONE"}}

\* What the provider said of the end of its answer, and the chunk that tells the client.
Told == IF given = << >> THEN "stop" ELSE Last(given)
Concluded == \E o \in Seq(Open) : client = o \o <<Chunk(<< >>, Told)>>

FinishInv ==
    /\ TextInv
    /\ provider \in Translating /\ mode = "stream" =>
        /\ pc \in {"start", "waiting", "lines", "finish"} => client \in Seq(Open)
        /\ pc \in {"lines", "finish"} => finish = Told /\ provider # "bedrock"
        /\ pc = "flush" => Concluded
    /\ FinishFaithful

\* One item that ends the answer, before items that only close the stream.
LEMMA OneFinish ==
    ASSUME NEW o \in Seq(Open), NEW e \in Item, e.finish # None, NEW z \in Seq(Rest)
    PROVE  LET d == (o \o <<e>>) \o z
           IN  \E i \in DOMAIN d :
                /\ {j \in DOMAIN d : d[j].finish # None} = {i}
                /\ d[i].finish = e.finish
                /\ \A j \in i + 1 .. Len(d) : d[j].kind \in {"tail", "DONE"}
<1> DEFINE b == o \o <<e>>
           d == b \o z
           n == Len(o)
<1>1. o \in Seq(Item) /\ z \in Seq(Item) /\ <<e>> \in Seq(Item) /\ n \in Nat
  BY DEF Open, Rest
<1>2. /\ b \in Seq(Item) /\ Len(b) = n + 1 /\ b[n + 1] = e
      /\ \A i \in 1 .. n : b[i] = o[i]
  BY <1>1
<1> HIDE DEF b
<1>3. /\ d \in Seq(Item) /\ Len(d) = n + 1 + Len(z) /\ d[n + 1] = e /\ n + 1 \in 1 .. Len(d)
      /\ \A i \in 1 .. Len(d) : i <= n => d[i] = o[i] /\ i \in 1 .. n
      /\ \A i \in 1 .. Len(d) : i > n + 1 => d[i] = z[i - n - 1] /\ i - n - 1 \in 1 .. Len(z)
  <2>1. d \in Seq(Item) /\ Len(d) = n + 1 + Len(z) /\ Len(z) \in Nat
    BY <1>1, <1>2
  <2>2. /\ \A i \in 1 .. n + 1 : d[i] = b[i]
        /\ \A i \in 1 .. n + 1 + Len(z) : i > n + 1 => d[i] = z[i - (n + 1)]
    BY <1>1, <1>2
  <2> HIDE DEF d, n
  <2>3. d[n + 1] = e /\ n + 1 \in 1 .. Len(d)
    BY <1>1, <1>2, <2>1, <2>2
  <2>4. ASSUME NEW i \in 1 .. Len(d), i <= n PROVE d[i] = o[i] /\ i \in 1 .. n
    <3>1. i \in 1 .. n /\ i \in 1 .. n + 1
      BY <1>1, <2>1, <2>4
    <3> QED BY <1>2, <2>2, <3>1, Zenon
  <2>5. ASSUME NEW i \in 1 .. Len(d), i > n + 1
        PROVE  d[i] = z[i - n - 1] /\ i - n - 1 \in 1 .. Len(z)
    <3>1. i \in 1 .. n + 1 + Len(z) /\ i - (n + 1) = i - n - 1 /\ i - n - 1 \in 1 .. Len(z)
      BY <1>1, <2>1, <2>5
    <3> QED BY <2>2, <2>5, <3>1
  <2> QED BY <2>1, <2>3, <2>4, <2>5
<1>4. \A i \in 1 .. n : o[i].finish = None
  BY DEF Open
<1>5. \A i \in 1 .. Len(z) : z[i].finish = None /\ z[i].kind \in {"tail", "DONE"}
  BY DEF Rest, Open
<1>6. DOMAIN d = 1 .. Len(d)
  BY <1>3
<1> HIDE DEF d, n
<1>7. \A i \in 1 .. Len(d) : d[i].finish # None <=> i = n + 1
  <2> TAKE i \in 1 .. Len(d)
  <2>1. CASE i <= n
    BY <1>1, <1>3, <1>4, <2>1
  <2>2. CASE i > n + 1
    BY <1>1, <1>3, <1>5, <2>2
  <2>3. CASE i = n + 1
    BY <1>3, <2>3
  <2> QED BY <1>1, <2>1, <2>2, <2>3
<1>8. {j \in DOMAIN d : d[j].finish # None} = {n + 1}
  BY <1>3, <1>6, <1>7
<1>9. \A j \in n + 1 + 1 .. Len(d) : d[j].kind \in {"tail", "DONE"}
  <2> TAKE j \in n + 1 + 1 .. Len(d)
  <2>1. j \in 1 .. Len(d) /\ j > n + 1
    BY <1>1, <1>3
  <2> QED BY <1>3, <1>5, <2>1
<1>10. d[n + 1].finish = e.finish /\ n + 1 \in DOMAIN d
  BY <1>3, <1>6
<1>11. \E i \in DOMAIN d :
                /\ {j \in DOMAIN d : d[j].finish # None} = {i}
                /\ d[i].finish = e.finish
                /\ \A j \in i + 1 .. Len(d) : d[j].kind \in {"tail", "DONE"}
  BY <1>8, <1>9, <1>10
<1> QED BY <1>11 DEF d, b

\* The adapters note the last reason.
LEMMA NoteIsTold ==
    ASSUME AdapterTyped, finish = Told, Noted
    PROVE  finish' = Told'
<1>1. PICK l : NoteReason(l) /\ given' = given \o Reason(l)
  BY DEF Noted
<1>2. given \in Seq(FinishReasons)
  BY DEF AdapterTyped
<1>3. CASE l.reason = None
  <2>1. given' = given \o << >> /\ finish' = finish
    BY <1>1, <1>3 DEF Reason, NoteReason
  <2>2. given' = given
    BY <1>2, <2>1, ConcatEmptySeq
  <2> QED BY <2>1, <2>2 DEF Told
<1>4. CASE l.reason # None
  <2> DEFINE r == OpenAIReason(l.reason)
  <2>1. given' = given \o <<r>> /\ finish' = r
    BY <1>1, <1>4 DEF Reason, NoteReason
  <2>2. r \in FinishReasons
    BY ReasonKnown
  <2> HIDE DEF r
  <2>3. given' \in Seq(FinishReasons) /\ Len(given') = Len(given) + 1 /\ given'[Len(given) + 1] = r
    BY <1>2, <2>1, <2>2
  <2>4. given' # << >> /\ given'[Len(given')] = r
    BY <1>2, <2>3
  <2> QED BY <2>1, <2>4 DEF Told, Last
<1> QED BY <1>3, <1>4

LEMMA FinishReads ==
    ASSUME FinishInv, Reads, TextInv', UNCHANGED <<provider, mode>>
    PROVE  FinishInv'
<1>1. pc = "lines" /\ pc' \in {"lines", "finish"}
  BY DEF Reads
<1>2. ASSUME provider \in Translating, mode = "stream"
      PROVE  client' \in Seq(Open) /\ finish' = Told' /\ provider # "bedrock"
  <2>1. client \in Seq(Open) /\ finish = Told /\ provider # "bedrock" /\ held \in Seq(Nat) /\ AdapterTyped
    BY <1>1, <1>2 DEF FinishInv, TextInv, AdapterTyped
  <2>2. PICK t \in Seq(Nat) : Deliver(t, None, << >>) /\ Noted
    BY <1>2 DEF Reads
  <2>3. finish' = Told'
    BY <2>1, <2>2, NoteIsTold
  <2>4. None \in Reasons /\ Open \subseteq Item /\ << >> \in Seq(Open)
    BY DEF Reasons, Open
  <2>5. \A x \in Seq(Nat) : Chunk(x, None) \in Open
    <3> TAKE x \in Seq(Nat)
    <3>1. Chunk(x, None) \in NotError
      BY <2>1, <2>4, NotErrors
    <3>2. Chunk(x, None).finish = None
      BY DEF Chunk
    <3> QED BY <3>1, <3>2 DEF NotError, Open
  <2>6. client' \in Seq(Open)
    BY <2>1, <2>2, <2>4, <2>5, DeliverQuiet
  <2> QED BY <2>1, <2>3, <2>6
<1>3. FinishFaithful'
  BY <1>1 DEF FinishFaithful
<1> QED BY <1>1, <1>2, <1>3 DEF FinishInv

LEMMA FinishWhole ==
    ASSUME FinishInv, Whole, TextInv', UNCHANGED <<provider, mode>>
    PROVE  FinishInv'
<1>1. pc = "waiting" /\ pc' = "flush"
  BY DEF Whole
<1>2. client = << >> /\ held \in Seq(Nat) /\ None \in Reasons /\ Open \subseteq Item
  BY <1>1 DEF FinishInv, TextInv, NothingYet, AdapterTyped, Reasons, Open
<1>3. PICK t \in Seq(Nat), f \in FinishReasons :
          given' = <<f>> /\ Deliver(t, None, <<Chunk(<< >>, f)>>)
  BY DEF Whole
<1>4. Told' = f
  <2>1. given' # << >> /\ given'[Len(given')] = f
    BY <1>3
  <2> QED BY <2>1 DEF Told, Last
<1> DEFINE c == Chunk(<< >>, f)
<1>5. c \in Item /\ client \in Seq(Item) /\ <<c>> \in Seq(Item)
  <2>1. f \in Reasons /\ << >> \in Seq(Nat)
    BY DEF Reasons
  <2>2. c \in NotError
    BY <1>2, <2>1, NotErrors
  <2> QED BY <1>2, <2>2 DEF NotError
<1>6. PICK x \in Seq(Nat) :
          client' = client \o ((IF t = << >> /\ None = None THEN << >> ELSE <<Chunk(x, None)>>) \o <<c>>)
  <2>1. \E x \in Seq(Nat) :
          /\ client' = client \o ((IF t = << >> /\ None = None THEN << >> ELSE <<Chunk(x, None)>>) \o <<c>>)
          /\ x \o held' = held \o t
          /\ t = << >> => x = << >>
    BY <1>2, <1>3, <1>5, DeliverKeeps, Zenon
  <2> QED BY <2>1, Zenon
<1> DEFINE pre == IF t = << >> /\ None = None THEN << >> ELSE <<Chunk(x, None)>>
<1>7. pre \in Seq(Open)
  <2>1. Chunk(x, None) \in NotError
    BY <1>2, NotErrors
  <2>2. Chunk(x, None) \in Open
    BY <2>1 DEF Chunk, NotError, Open
  <2>3. << >> \in Seq(Open) /\ <<Chunk(x, None)>> \in Seq(Open)
    BY <2>2
  <2> QED BY <2>3
<1>8. client' = << >> \o (pre \o <<c>>)
  BY <1>2, <1>6
<1> HIDE DEF pre, c
<1>9. pre \o <<c>> \in Seq(Item)
  BY <1>2, <1>5, <1>7, ConcatProperties
<1>10. client' = pre \o <<c>>
  BY <1>8, <1>9, ConcatEmptySeq
<1>11. Concluded'
  BY <1>4, <1>7, <1>10 DEF Concluded, c
<1>12. FinishFaithful'
  BY <1>1 DEF FinishFaithful
<1> QED BY <1>1, <1>11, <1>12 DEF FinishInv

LEMMA FinishFlushes ==
    ASSUME FinishInv, Flushes, TextInv', UNCHANGED <<provider, mode>>
    PROVE  FinishInv'
<1> DEFINE pre == IF held = << >> THEN << >> ELSE <<LastDelta>>
<1>1. pc = "flush" /\ pc' = "done" /\ given' = given /\ client' = client \o (pre \o <<DONE>>)
  BY DEF Flushes
<1>2. ASSUME provider \in Translating, mode = "stream"
      PROVE  FinishFaithful'
  <2>1. held \in Seq(Nat) /\ None \in Reasons /\ << >> \in Seq(Nat) /\ given \in Seq(FinishReasons)
    BY DEF FinishInv, TextInv, AdapterTyped, Reasons
  <2>2. PICK o \in Seq(Open) : client = o \o <<Chunk(<< >>, Told)>>
    BY <1>1, <1>2 DEF FinishInv, Concluded
  <2> DEFINE e == Chunk(<< >>, Told)
             z == pre \o <<DONE>>
  <2>3. Told \in FinishReasons
    <3>1. CASE given = << >>
      BY <3>1 DEF Told, FinishReasons
    <3>2. CASE given # << >>
      <4>1. given[Len(given)] \in FinishReasons
        BY <2>1, <3>2
      <4> QED BY <3>2, <4>1 DEF Told, Last
    <3> QED BY <3>1, <3>2
  <2>4. e \in Item /\ e.finish = Told /\ Told # None
    <3>1. Told \in Reasons
      BY <2>3 DEF Reasons
    <3>2. e \in NotError
      BY <2>1, <3>1, NotErrors
    <3> QED BY <2>3, <3>2, ProviderAssumption DEF NotError, Chunk, NoneIsApart
  <2>5. z \in Seq(Rest)
    <3>1. LastDelta \in NotError /\ DONE \in NotError
      BY <2>1, NotErrors
    <3>2. LastDelta \in Rest /\ DONE \in Rest
      BY <3>1 DEF LastDelta, DONE, NotError, Open, Rest
    <3>3. pre \in Seq(Rest) /\ <<DONE>> \in Seq(Rest)
      BY <3>2
    <3> HIDE DEF pre
    <3> QED BY <3>3, ConcatProperties
  <2>6. client' = (o \o <<e>>) \o z
    BY <1>1, <2>2
  <2> HIDE DEF e, z, pre
  <2>7. \E i \in DOMAIN client' :
                /\ {j \in DOMAIN client' : client'[j].finish # None} = {i}
                /\ client'[i].finish = e.finish
                /\ \A j \in i + 1 .. Len(client') : client'[j].kind \in {"tail", "DONE"}
    BY <2>4, <2>5, <2>6, OneFinish, ZenonT(30)
  <2>8. e.finish = IF given' = << >> THEN "stop" ELSE Last(given')
    BY <1>1, <2>4 DEF Told
  <2> QED BY <2>7, <2>8, Zenon DEF FinishFaithful
<1>3. FinishFaithful'
  <2>1. CASE provider \in Translating /\ mode = "stream"
    BY <1>2, <2>1
  <2>2. CASE ~(provider \in Translating /\ mode = "stream")
    BY <2>2 DEF FinishFaithful
  <2> QED BY <2>1, <2>2
<1> QED BY <1>1, <1>3 DEF FinishInv

\* The steps that are neither a line, a whole answer nor the flush.
LEMMA FinishOthers ==
    ASSUME FinishInv, Quietly \/ Fails \/ Answers \/ Ends, TextInv',
           UNCHANGED <<provider, mode>>
    PROVE  FinishInv'
<1>1. CASE Quietly
  <2>1. UNCHANGED <<client, given, finish, Told>> /\ pc' # "done"
    BY <1>1 DEF Quietly, Told
  <2>2. pc = "waiting" => finish = Told
    BY DEF FinishInv, TextInv, NothingYet, Told
  <2>3. FinishFaithful'
    BY <2>1 DEF FinishFaithful
  <2>4. provider \in Translating => provider \in {"anthropic", "gemini", "bedrock"}
    BY DEF Translating
  <2> QED BY <1>1, <2>1, <2>2, <2>3, <2>4 DEF FinishInv, Quietly
<1>2. CASE Fails
  <2>1. pc' = "done" /\ broke' # None
    BY <1>2, ProviderAssumption DEF Fails, NoneIsApart, Breaks
  <2>2. FinishFaithful'
    BY <2>1 DEF FinishFaithful
  <2> QED BY <2>1, <2>2 DEF FinishInv
<1>3. CASE Answers
  <2>1. pc' = "done" /\ ~(provider \in Translating /\ mode = "stream")
    BY <1>3 DEF Answers, Passthrough, Translating
  <2>2. FinishFaithful'
    BY <2>1 DEF FinishFaithful
  <2> QED BY <2>1, <2>2 DEF FinishInv
<1>4. CASE Ends
  <2>1. pc = "finish" /\ pc' = "flush" /\ UNCHANGED <<given, Told>>
    BY <1>4 DEF Ends, Told
  <2>2. client' = client \o <<Chunk(<< >>, finish)>>
    BY <1>4 DEF Ends
  <2>3. provider \in Translating /\ mode = "stream" => Concluded'
    BY <2>1, <2>2 DEF FinishInv, Concluded
  <2>4. FinishFaithful'
    BY <2>1 DEF FinishFaithful
  <2> QED BY <2>1, <2>3, <2>4 DEF FinishInv
<1> QED BY <1>1, <1>2, <1>3, <1>4

LEMMA FinishStep ==
    FinishInv /\ [Next]_vars => FinishInv'
<1> SUFFICES ASSUME FinishInv, [Next]_vars PROVE FinishInv'
  OBVIOUS
<1>1. TextInv'
  BY TextStep DEF FinishInv
<1>2. CASE Next
  <2>1. Effect /\ UNCHANGED <<provider, mode>>
    BY <1>2, StepHasEffect DEF FinishInv, TextInv
  <2> QED BY <1>1, <2>1, FinishReads, FinishWhole, FinishFlushes, FinishOthers DEF Effect
<1>3. CASE UNCHANGED vars
  <2>1. UNCHANGED <<provider, mode, pc, finish, client, given, broke>>
    BY <1>3 DEF vars
  <2>2. FinishFaithful'
    BY <2>1 DEF FinishInv, FinishFaithful
  <2> QED BY <1>1, <2>1, <2>2 DEF FinishInv, Told, Concluded
<1> QED BY <1>2, <1>3

\* An undisturbed stream of an adapter that translates ends in one finish_reason,
\* the last one the provider gave or "stop"; only the flushed tail follows it
\* (stream of the Anthropic, Gemini and Bedrock adapters).
THEOREM AnswersEndAsTold ==
    Spec => []FinishFaithful
<1>1. Init => FinishInv
  <2> SUFFICES ASSUME Init PROVE FinishInv
    OBVIOUS
  <2>1. TextInv
    BY TextInit
  <2>2. pc = "start" /\ client = << >>
    BY DEF Init
  <2>3. client \in Seq(Open)
    BY <2>2
  <2> QED BY <2>1, <2>2, <2>3 DEF FinishInv, FinishFaithful
<1>2. FinishInv /\ [Next]_vars => FinishInv'
  BY FinishStep
<1>3. FinishInv => FinishFaithful
  BY DEF FinishInv
<1> QED BY <1>1, <1>2, <1>3, PTL DEF Spec
-----------------------------------------------------------------------------
(* The prompt *)

Part == [type : STRING, text : STRING]
SystemMessage == {m \in Message : m.role = "system"}
OtherMessage  == {m \in Message : m.role # "system"}

\* What the lemmas on sequences are about: the texts of a message, the message itself
\* if it is of the chosen kind, and its texts if it is.
TextsIn == [m \in Message |-> content_to_text(m.parts)]
Chosen(K) == Picked(Message, K)
ChosenTexts(K) == PickedFor(TextsIn, Message, K)

LEMMA PartTexts ==
    ASSUME NEW parts \in Seq(Part)
    PROVE  content_to_text(parts) \in Seq(STRING)
<1> DEFINE one(x) == IF x.type \in TextTypes THEN <<x.text>> ELSE << >>
           ss == [i \in DOMAIN parts |-> one(parts[i])]
<1>1. PICK n \in Nat : DOMAIN parts = 1 .. n /\ n = Len(parts)
  OBVIOUS
<1>2. ASSUME NEW x \in Part PROVE one(x) \in Seq(STRING)
  <2>1. PICK y \in STRING : y = x.text
    BY DEF Part
  <2>2. <<y>> \in Seq(STRING) /\ << >> \in Seq(STRING)
    BY Singleton
  <2>3. one(x) = <<y>> \/ one(x) = << >>
    BY <2>1, Zenon
  <2> QED BY <2>2, <2>3
<1>3. \A i \in 1 .. n : parts[i] \in Part
  BY <1>1
<1> HIDE DEF one
<1>4. \A i \in 1 .. n : one(parts[i]) \in Seq(STRING)
  BY <1>2, <1>3
<1>5. ss \in Seq(Seq(STRING))
  BY <1>1, <1>4
<1>6. FlattenSeq(ss) \in Seq(STRING)
  BY <1>5, FlattenSeqType
<1> QED BY <1>6 DEF content_to_text, one

LEMMA MessageTexts == Maps(TextsIn, Message, STRING)
<1> SUFFICES ASSUME NEW m \in Message PROVE TextsIn[m] \in Seq(STRING)
  BY DEF Maps
<1>1. m.parts \in Seq(Part)
  BY DEF Message, Part
<1>2. content_to_text(m.parts) \in Seq(STRING)
  BY <1>1, PartTexts
<1> QED BY <1>2 DEF TextsIn

\* The texts of the chosen messages, put together, are the texts in their places.
LEMMA ChosenArrive ==
    ASSUME NEW K, NEW p \in Seq(Message)
    PROVE  /\ FlattenSeq(Mapped(Chosen(K), p)) \in Seq(Message)
           /\ FlattenSeq(Mapped(TextsIn, FlattenSeq(Mapped(Chosen(K), p))))
                  = FlattenSeq(Mapped(ChosenTexts(K), p))
  BY MessageTexts, ChosenThenMapped DEF Chosen, ChosenTexts

\* The model's two lists are the chosen messages.
LEMMA ListsAreChosen ==
    ASSUME NEW p \in Seq(Message)
    PROVE  /\ Systems(p) = FlattenSeq(Mapped(Chosen(SystemMessage), p))
           /\ Others(p) = FlattenSeq(Mapped(Chosen(OtherMessage), p))
<1>1. \A i \in DOMAIN p : p[i] \in Message
  OBVIOUS
<1>2. \A m \in Message : /\ Chosen(SystemMessage)[m] = IF m.role = "system" THEN <<m>> ELSE << >>
                         /\ Chosen(OtherMessage)[m] = IF m.role = "system" THEN << >> ELSE <<m>>
  BY DEF Chosen, Picked, SystemMessage, OtherMessage
<1>3. Mapped(Chosen(SystemMessage), p) = [i \in DOMAIN p |-> IF p[i].role = "system" THEN <<p[i]>> ELSE << >>]
  BY <1>1, <1>2 DEF Mapped
<1>4. Mapped(Chosen(OtherMessage), p) = [i \in DOMAIN p |-> IF p[i].role = "system" THEN << >> ELSE <<p[i]>>]
  BY <1>1, <1>2 DEF Mapped
<1> QED BY <1>3, <1>4 DEF Systems, Others

\* The texts that should arrive.
SystemTexts(p) ==
    FlattenSeq([i \in DOMAIN p |-> IF p[i].role = "system" THEN content_to_text(p[i].parts) ELSE << >>])
OtherTexts(p) ==
    FlattenSeq([i \in DOMAIN p |-> IF p[i].role = "system" THEN << >> ELSE content_to_text(p[i].parts)])

LEMMA TextsAreChosen ==
    ASSUME NEW p \in Seq(Message)
    PROVE  /\ SystemTexts(p) = FlattenSeq(Mapped(ChosenTexts(SystemMessage), p))
           /\ OtherTexts(p) = FlattenSeq(Mapped(ChosenTexts(OtherMessage), p))
<1>1. \A i \in DOMAIN p : p[i] \in Message
  OBVIOUS
<1>2. \A m \in Message :
        /\ ChosenTexts(SystemMessage)[m] = IF m.role = "system" THEN content_to_text(m.parts) ELSE << >>
        /\ ChosenTexts(OtherMessage)[m] = IF m.role = "system" THEN << >> ELSE content_to_text(m.parts)
  BY DEF ChosenTexts, PickedFor, TextsIn, SystemMessage, OtherMessage
<1>3. Mapped(ChosenTexts(SystemMessage), p)
        = [i \in DOMAIN p |-> IF p[i].role = "system" THEN content_to_text(p[i].parts) ELSE << >>]
  BY <1>1, <1>2 DEF Mapped
<1>4. Mapped(ChosenTexts(OtherMessage), p)
        = [i \in DOMAIN p |-> IF p[i].role = "system" THEN << >> ELSE content_to_text(p[i].parts)]
  BY <1>1, <1>2 DEF Mapped
<1> QED BY <1>3, <1>4 DEF SystemTexts, OtherTexts

\* A list of messages, and the texts in it.
LEMMA ListTexts ==
    ASSUME NEW q \in Seq(Message)
    PROVE  Mapped(TextsIn, q) = [i \in DOMAIN q |-> content_to_text(q[i].parts)]
<1>1. \A i \in DOMAIN q : q[i] \in Message
  OBVIOUS
<1>2. \A m \in Message : TextsIn[m] = content_to_text(m.parts)
  BY DEF TextsIn
<1> QED BY <1>1, <1>2 DEF Mapped

\* _translate, whatever it calls the assistant.
LEMMA TranslationArrives ==
    ASSUME NEW p \in Seq(Message), NEW assistant
    PROVE  /\ system(p) = SystemTexts(p)
           /\ FlattenSeq([i \in DOMAIN messages(p, assistant) |-> messages(p, assistant)[i].text]) = OtherTexts(p)
<1>1. PICK s : s = Systems(p)
  OBVIOUS
<1>2. s \in Seq(Message) /\ FlattenSeq(Mapped(TextsIn, s)) = SystemTexts(p)
  BY <1>1, ChosenArrive, ListsAreChosen, TextsAreChosen
<1>3. PICK o : o = Others(p)
  OBVIOUS
<1>4. o \in Seq(Message) /\ FlattenSeq(Mapped(TextsIn, o)) = OtherTexts(p)
  BY <1>3, ChosenArrive, ListsAreChosen, TextsAreChosen
<1>5. system(p) = FlattenSeq([i \in DOMAIN s |-> content_to_text(s[i].parts)])
  BY <1>1 DEF system
<1>6. system(p) = SystemTexts(p)
  BY <1>2, <1>5, ListTexts
<1> DEFINE role(i) == IF o[i].role = "assistant" THEN assistant ELSE "user"
           text(i) == content_to_text(o[i].parts)
           m == [i \in DOMAIN o |-> [role |-> role(i), text |-> text(i)]]
<1>7. messages(p, assistant) = m
  BY <1>3 DEF messages
<1> HIDE DEF role, text
<1>8. [i \in DOMAIN m |-> m[i].text] = [i \in DOMAIN o |-> text(i)]
  OBVIOUS
<1>9. [i \in DOMAIN o |-> text(i)] = Mapped(TextsIn, o)
  BY <1>4, ListTexts DEF text
<1> QED BY <1>4, <1>6, <1>7, <1>8, <1>9

\* The request that Body makes for a translating adapter.
LEMMA TranslatedBody ==
    ASSUME NEW p, provider \in Translating
    PROVE  \E a : Body(p) = [system |-> system(p), messages |-> messages(p, a)]
<1>1. provider = "anthropic" \/ provider = "gemini" \/ provider = "bedrock"
  BY DEF Translating
<1>2. CASE provider = "anthropic"
  <2>1. Body(p) = AnthropicBody(p)
    BY <1>2, Zenon DEF Body
  <2> QED BY <2>1 DEF AnthropicBody
<1>3. CASE provider = "gemini"
  <2>1. Body(p) = GeminiBody(p)
    BY <1>3, Zenon DEF Body
  <2> QED BY <2>1 DEF GeminiBody
<1>4. CASE provider = "bedrock"
  <2>1. Body(p) = BedrockBody(p)
    BY <1>4, Zenon DEF Body
  <2> QED BY <2>1 DEF BedrockBody
<1> QED BY <1>1, <1>2, <1>3, <1>4

\* What a request holds.
BodyHolds(b, p) ==
    /\ b.system = SystemTexts(p)
    /\ FlattenSeq([i \in DOMAIN b.messages |-> b.messages[i].text]) = OtherTexts(p)

LEMMA BodyArrives ==
    ASSUME NEW p \in Seq(Message), provider \in Translating
    PROVE  BodyHolds(Body(p), p)
<1>1. PICK a : Body(p) = [system |-> system(p), messages |-> messages(p, a)]
  BY TranslatedBody
<1>2. PICK s : s = system(p)
  OBVIOUS
<1>3. PICK m : m = messages(p, a)
  OBVIOUS
<1>4. PICK b : b = Body(p)
  OBVIOUS
<1>5. b.system = s /\ b.messages = m
  BY <1>1, <1>2, <1>3, <1>4
<1>6. s = SystemTexts(p) /\ FlattenSeq([i \in DOMAIN m |-> m[i].text]) = OtherTexts(p)
  BY <1>2, <1>3, TranslationArrives
<1>7. BodyHolds(b, p)
  BY <1>5, <1>6 DEF BodyHolds
<1> QED BY <1>4, <1>7

\* A request is made of the prompt, which does not change.
PromptInv ==
    /\ prompt \in Prompts
    /\ body # None /\ provider \in Translating => BodyHolds(body, prompt)

\* Only SendRequest makes a request, and nothing changes prompt or provider.
LEMMA BodyMadeOnce ==
    ASSUME Next
    PROVE  UNCHANGED <<provider, prompt>> /\ (SendRequest \/ UNCHANGED body)
<1>1. CASE \/ AzureRefuses \/ GeminiRefuses \/ BedrockRefuses
           \/ TransportFails \/ UpstreamRefuses \/ AnswerNotJson \/ AnswerOdd
  BY <1>1 DEF AzureRefuses, GeminiRefuses, BedrockRefuses, Refuse, TransportFails, UpstreamRefuses,
              AnswerNotJson, AnswerOdd
<1>2. CASE SendRequest \/ OpenStream \/ EndOfStream \/ Finish \/ Flush
  BY <1>2 DEF SendRequest, OpenStream, EndOfStream, Finish, Flush
<1>3. CASE \E n \in 0 .. MaxBlocks, r \in NativeReasons[provider] \cup {None} :
              Answer(n, r) \/ AnswerAsStream(n, r)
  BY <1>3 DEF Answer, AnswerAsStream
<1>4. CASE \E l \in Lines(provider) :
              RelayLine(l) \/ AnthropicLine(l) \/ GeminiLine(l) \/ OllamaLine(l)
  BY <1>4 DEF RelayLine, AnthropicLine, GeminiLine, OllamaLine, Arrives
<1>5. CASE OddLine
  BY <1>5 DEF OddLine, Arrives
<1> QED BY <1>1, <1>2, <1>3, <1>4, <1>5 DEF Next

LEMMA PromptStep ==
    ASSUME PromptInv, [Next]_vars
    PROVE  PromptInv'
<1>1. prompt \in Seq(Message)
  BY ProviderAssumption DEF PromptInv
<1>2. CASE UNCHANGED <<provider, prompt, body>>
  BY <1>2 DEF PromptInv
<1>3. CASE SendRequest
  <2>1. provider' = provider /\ prompt' = prompt /\ body' = Body(prompt)
    BY <1>3 DEF SendRequest
  <2>2. provider \in Translating => BodyHolds(Body(prompt), prompt)
    BY <1>1, BodyArrives
  <2>3. provider' \in Translating => BodyHolds(body', prompt')
    BY <2>1, <2>2
  <2> QED BY <2>1, <2>3 DEF PromptInv
<1>4. UNCHANGED vars => UNCHANGED <<provider, prompt, body>>
  BY DEF vars
<1> QED BY <1>2, <1>3, <1>4, BodyMadeOnce

\* Every text of the prompt that the adapters know how to read reaches the provider in
\* its place, for every prompt of whatever length: the texts of the system messages in
\* one, those of the others in their order (_translate of the translating adapters).
THEOREM PromptsArrive ==
    Spec => []PromptArrives
<1>1. Init => PromptInv
  BY DEF Init, PromptInv
<1>2. PromptInv /\ [Next]_vars => PromptInv'
  BY PromptStep
<1>3. PromptInv => PromptArrives
  BY DEF PromptInv, PromptArrives, BodyHolds, SystemTexts, OtherTexts
<1> QED BY <1>1, <1>2, <1>3, PTL DEF Spec
===============================================================================
