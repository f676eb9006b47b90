---------------------------- MODULE Sequence_proofs ----------------------------
(***************************************************************************)
(* Facts about finite sequences that several proofs of the project need:    *)
(* induction over the naturals, what FlattenSeq computes, and what it gives *)
(* for the values of a function.  The induction is stated for a set instead *)
(* of a predicate, and rests on the well-foundedness of < on Nat.           *)
(***************************************************************************)
EXTENDS Integers, Sequences, SequencesExt, WellFoundedInduction, SequenceTheorems, TLAPS

\* A set of naturals that is not empty has a least element.
LEMMA LeastElement ==
    ASSUME NEW T, T \subseteq Nat, T # {}
    PROVE  \E x \in T : \A y \in T : x <= y
<1>1. PICK x \in T : \A y \in T : ~(<<y, x>> \in OpToRel(<, Nat))
  BY NatLessThanWellFounded, WFMin
<1>2. \A y \in T : ~(y < x)
  BY <1>1 DEF OpToRel
<1> QED BY <1>2

\* A set that holds 0 and the successor of each natural it holds, holds all of them.
LEMMA SetInduction ==
    ASSUME NEW T, 0 \in T, \A n \in Nat : n \in T => n + 1 \in T
    PROVE  Nat \subseteq T
<1> SUFFICES ASSUME Nat \ T # {} PROVE FALSE
  OBVIOUS
<1>1. PICK x \in Nat \ T : \A y \in Nat \ T : x <= y
  BY LeastElement
<1>2. x - 1 \in Nat /\ x - 1 \in T
  BY <1>1
<1>3. (x - 1) + 1 \in T
  BY <1>2
<1> QED BY <1>3

\* A sequence of one or of two elements is known by its elements.
LEMMA OneElement ==
    ASSUME NEW S, NEW u \in Seq(S), Len(u) <= 1, Len(u) >= 1, NEW a, u[1] = a
    PROVE  u = <<a>>
<1>1. PICK n \in Nat : n = Len(u)
  OBVIOUS
<1>2. n = 1
  BY <1>1
<1>3. Len(u) = 1
  BY <1>1, <1>2
<1> QED BY <1>3

LEMMA TwoElements ==
    ASSUME NEW S, NEW u \in Seq(S), Len(u) = 2, NEW a, NEW b
    PROVE  u = <<a, b>> <=> u[1] = a /\ u[2] = b
<1>1. ASSUME u[1] = a, u[2] = b PROVE u = <<a, b>>
  BY <1>1
<1>2. ASSUME u = <<a, b>> PROVE u[1] = a /\ u[2] = b
  BY <1>2
<1> QED BY <1>1, <1>2

\* The first two and the last two elements of a sequence.
LEMMA FirstTwo ==
    ASSUME NEW S, NEW s \in Seq(S), Len(s) >= 2, NEW a, NEW b
    PROVE  SubSeq(s, 1, 2) = <<a, b>> <=> s[1] = a /\ s[2] = b
<1> DEFINE u == SubSeq(s, 1, 2)
<1>1. \A i \in 1 .. 2 : s[i] \in S
  OBVIOUS
<1>2. u \in Seq(S) /\ Len(u) = 2
  OBVIOUS
<1>3. \A i \in 1 .. 2 - 1 + 1 : u[i] = s[1 + i - 1]
  BY <1>1, SubSeqProperties
<1>4. u[1] = s[1] /\ u[2] = s[2]
  BY <1>3
<1> HIDE DEF u
<1>5. u = <<a, b>> <=> u[1] = a /\ u[2] = b
  BY <1>2, TwoElements
<1> QED BY <1>4, <1>5 DEF u

LEMMA LastTwo ==
    ASSUME NEW S, NEW s \in Seq(S), Len(s) >= 2, NEW a, NEW b
    PROVE  SubSeq(s, Len(s) - 1, Len(s)) = <<a, b>> <=> s[Len(s) - 1] = a /\ s[Len(s)] = b
<1> DEFINE u == SubSeq(s, Len(s) - 1, Len(s))
<1>1. \A i \in Len(s) - 1 .. Len(s) : s[i] \in S
  OBVIOUS
<1>2. u \in Seq(S) /\ Len(u) = 2
  OBVIOUS
<1>3. \A i \in 1 .. Len(s) - (Len(s) - 1) + 1 : u[i] = s[(Len(s) - 1) + i - 1]
  BY <1>1, SubSeqProperties
<1>4. u[1] = s[(Len(s) - 1) + 1 - 1] /\ u[2] = s[(Len(s) - 1) + 2 - 1]
  BY <1>3
<1>5. u[1] = s[Len(s) - 1] /\ u[2] = s[Len(s)]
  BY <1>4
<1> HIDE DEF u
<1>6. u = <<a, b>> <=> u[1] = a /\ u[2] = b
  BY <1>2, TwoElements
<1> QED BY <1>5, <1>6 DEF u

-----------------------------------------------------------------------------
(* FlattenSeq *)

\* f is the function that FlattenSeq builds up, over the first n sequences of ss.
Flattens(f, ss, n) ==
    f = [i \in 1 .. n |-> IF i = 1 THEN ss[i] ELSE f[i - 1] \o ss[i]]

\* Two of them agree where the sequences they flatten do.
LEMMA FlattensAgree ==
    ASSUME NEW f, NEW g, NEW ss, NEW tt, NEW n \in Nat, NEW m \in Nat, n <= m,
           Flattens(f, ss, n), Flattens(g, tt, m), \A i \in 1 .. n : ss[i] = tt[i]
    PROVE  \A i \in 1 .. n : f[i] = g[i]
<1> DEFINE T == {k \in Nat : k \in 1 .. n => f[k] = g[k]}
<1>0. /\ \A i \in 1 .. n : f[i] = IF i = 1 THEN ss[i] ELSE f[i - 1] \o ss[i]
      /\ \A i \in 1 .. m : g[i] = IF i = 1 THEN tt[i] ELSE g[i - 1] \o tt[i]
  BY DEF Flattens
<1>1. 0 \in T
  OBVIOUS
<1>2. ASSUME NEW k \in Nat, k \in T PROVE k + 1 \in T
  <2> SUFFICES ASSUME k + 1 \in 1 .. n PROVE f[k + 1] = g[k + 1]
    OBVIOUS
  <2>1. /\ f[k + 1] = IF k + 1 = 1 THEN ss[k + 1] ELSE f[(k + 1) - 1] \o ss[k + 1]
        /\ g[k + 1] = IF k + 1 = 1 THEN tt[k + 1] ELSE g[(k + 1) - 1] \o tt[k + 1]
    BY <1>0
  <2>2. CASE k = 0
    BY <2>1, <2>2
  <2>3. CASE k # 0
    <3>1. k \in 1 .. n /\ (k + 1) - 1 = k /\ k + 1 # 1
      BY <2>3
    <3> QED BY <2>1, <3>1, <1>2
  <2> QED BY <2>2, <2>3
<1> HIDE DEF T
<1>3. Nat \subseteq T
  BY <1>1, <1>2, SetInduction
<1> QED BY <1>3 DEF T

\* There is one for every sequence of sequences, and its values are sequences.
LEMMA FlattensExists ==
    ASSUME NEW S, NEW ss \in Seq(Seq(S)), NEW n \in 0 .. Len(ss)
    PROVE  \E f : Flattens(f, ss, n) /\ \A i \in 1 .. n : f[i] \in Seq(S)
<1> DEFINE T == {k \in Nat : k <= Len(ss) =>
                    \E f : Flattens(f, ss, k) /\ \A i \in 1 .. k : f[i] \in Seq(S)}
<1>1. 0 \in T
  <2> DEFINE f == [i \in 1 .. 0 |-> << >>]
  <2>1. Flattens(f, ss, 0) /\ \A i \in 1 .. 0 : f[i] \in Seq(S)
    BY DEF Flattens
  <2> QED BY <2>1
<1>2. ASSUME NEW k \in Nat, k \in T PROVE k + 1 \in T
  <2> SUFFICES ASSUME k + 1 <= Len(ss)
               PROVE  \E f : Flattens(f, ss, k + 1) /\ \A i \in 1 .. k + 1 : f[i] \in Seq(S)
    OBVIOUS
  <2>1. PICK f : Flattens(f, ss, k) /\ \A i \in 1 .. k : f[i] \in Seq(S)
    BY <1>2
  <2> DEFINE g == [i \in 1 .. k + 1 |-> IF i = 1 THEN ss[i] ELSE f[i - 1] \o ss[i]]
  <2>2. \A i \in 1 .. k + 1 : ss[i] \in Seq(S)
    OBVIOUS
  <2>3. \A i \in 1 .. k : f[i] = IF i = 1 THEN ss[i] ELSE f[i - 1] \o ss[i]
    BY <2>1 DEF Flattens
  <2>4. \A i \in 1 .. k : g[i] = f[i]
    BY <2>3
  <2>5. g = [i \in 1 .. k + 1 |-> IF i = 1 THEN ss[i] ELSE g[i - 1] \o ss[i]]
    <3>1. \A i \in 1 .. k + 1 : i # 1 => i - 1 \in 1 .. k
      OBVIOUS
    <3> QED BY <2>4, <3>1
  <2>6. \A i \in 1 .. k + 1 : g[i] \in Seq(S)
    <3> TAKE i \in 1 .. k + 1
    <3>1. CASE i = 1
      BY <3>1, <2>2
    <3>2. CASE i # 1
      <4>1. i - 1 \in 1 .. k
        BY <3>2
      <4>2. f[i - 1] \in Seq(S) /\ ss[i] \in Seq(S)
        BY <4>1, <2>1, <2>2
      <4>3. f[i - 1] \o ss[i] \in Seq(S)
        BY <4>2, ConcatProperties
      <4> QED BY <3>2, <4>3
    <3> QED BY <3>1, <3>2
  <2> QED BY <2>5, <2>6 DEF Flattens
<1> HIDE DEF T
<1>3. Nat \subseteq T
  BY <1>1, <1>2, SetInduction
<1> QED BY <1>3 DEF T

\* What FlattenSeq returns is the last value of such a function.
LEMMA FlattenSeqIs ==
    ASSUME NEW S, NEW ss \in Seq(Seq(S)), ss # << >>
    PROVE  \E f : /\ Flattens(f, ss, Len(ss)) /\ FlattenSeq(ss) = f[Len(ss)]
                  /\ \A i \in 1 .. Len(ss) : f[i] \in Seq(S)
<1> DEFINE F == CHOOSE f : Flattens(f, ss, Len(ss))
<1>1. Len(ss) \in Nat \ {0}
  BY EmptySeq
<1>2. PICK g : Flattens(g, ss, Len(ss)) /\ \A i \in 1 .. Len(ss) : g[i] \in Seq(S)
  BY <1>1, FlattensExists
<1>3. Flattens(F, ss, Len(ss))
  BY <1>2
<1>4. FlattenSeq(ss) = F[Len(ss)]
  BY <1>1 DEF FlattenSeq, Flattens
<1> HIDE DEF F
<1>5. \A i \in 1 .. Len(ss) : F[i] = g[i]
  BY <1>1, <1>2, <1>3, FlattensAgree
<1> QED BY <1>2, <1>3, <1>4, <1>5

\* Flattening nothing gives nothing; a sequence of sequences gives a sequence.
LEMMA FlattenSeqType ==
    ASSUME NEW S
    PROVE  /\ FlattenSeq(<< >>) = << >>
           /\ \A ss \in Seq(Seq(S)) : FlattenSeq(ss) \in Seq(S)
<1>1. FlattenSeq(<< >>) = << >>
  BY DEF FlattenSeq
<1>2. ASSUME NEW ss \in Seq(Seq(S)) PROVE FlattenSeq(ss) \in Seq(S)
  <2>1. CASE ss = << >>
    BY <1>1, <2>1, EmptySeq
  <2>2. CASE ss # << >>
    <3>1. PICK f : /\ Flattens(f, ss, Len(ss)) /\ FlattenSeq(ss) = f[Len(ss)]
                   /\ \A i \in 1 .. Len(ss) : f[i] \in Seq(S)
      BY <2>2, FlattenSeqIs
    <3>2. Len(ss) \in 1 .. Len(ss)
      BY <2>2, EmptySeq
    <3> QED BY <3>1, <3>2
  <2> QED BY <2>1, <2>2
<1> QED BY <1>1, <1>2

\* One more sequence is put at the end.
LEMMA FlattenSeqAppend ==
    ASSUME NEW S, NEW ss \in Seq(Seq(S)), NEW s \in Seq(S)
    PROVE  FlattenSeq(Append(ss, s)) = FlattenSeq(ss) \o s
<1> DEFINE tt == Append(ss, s)
<1>0. /\ tt \in Seq(Seq(S)) /\ tt # << >> /\ Len(ss) \in Nat /\ Len(tt) = Len(ss) + 1
      /\ \A i \in 1 .. Len(ss) : tt[i] = ss[i]
      /\ tt[Len(ss) + 1] = s
  BY AppendProperties
<1> HIDE DEF tt
<1>1. PICK g : /\ Flattens(g, tt, Len(tt)) /\ FlattenSeq(tt) = g[Len(tt)]
               /\ \A i \in 1 .. Len(tt) : g[i] \in Seq(S)
  BY <1>0, FlattenSeqIs
<1>2. \A i \in 1 .. Len(ss) + 1 : g[i] = IF i = 1 THEN tt[i] ELSE g[i - 1] \o tt[i]
  BY <1>0, <1>1 DEF Flattens
<1>3. CASE ss = << >>
  <2>1. FlattenSeq(ss) = << >> /\ Len(ss) = 0
    BY <1>3, FlattenSeqType, EmptySeq
  <2>2. FlattenSeq(tt) = s
    BY <2>1, <1>0, <1>1, <1>2
  <2> QED BY <2>1, <2>2, ConcatEmptySeq DEF tt
<1>4. CASE ss # << >>
  <2>1. PICK f : /\ Flattens(f, ss, Len(ss)) /\ FlattenSeq(ss) = f[Len(ss)]
                 /\ \A i \in 1 .. Len(ss) : f[i] \in Seq(S)
    BY <1>4, FlattenSeqIs
  <2>2. Len(ss) \in 1 .. Len(ss)
    BY <1>4, EmptySeq
  <2>3. \A i \in 1 .. Len(ss) : f[i] = g[i]
    <3>1. Len(tt) \in Nat /\ Len(ss) <= Len(tt) /\ \A i \in 1 .. Len(ss) : ss[i] = tt[i]
      BY <1>0
    <3> QED BY <1>0, <1>1, <2>1, <3>1, FlattensAgree
  <2>4. g[Len(ss) + 1] = g[Len(ss)] \o s
    <3>1. Len(ss) + 1 \in 1 .. Len(ss) + 1 /\ Len(ss) + 1 # 1 /\ (Len(ss) + 1) - 1 = Len(ss)
      BY <1>0, <2>2
    <3> QED BY <1>0, <1>2, <3>1
  <2> QED BY <1>0, <1>1, <2>1, <2>2, <2>3, <2>4 DEF tt
<1> QED BY <1>3, <1>4

\* Flattening goes over a concatenation piece by piece.
LEMMA FlattenSeqConcat ==
    ASSUME NEW S, NEW ss \in Seq(Seq(S)), NEW tt \in Seq(Seq(S))
    PROVE  FlattenSeq(ss \o tt) = FlattenSeq(ss) \o FlattenSeq(tt)
<1> DEFINE upto(k) == SubSeq(tt, 1, k)
           T == {k \in Nat : k <= Len(tt) =>
                    FlattenSeq(ss \o upto(k)) = FlattenSeq(ss) \o FlattenSeq(upto(k))}
<1>0. FlattenSeq(ss) \in Seq(S)
  BY FlattenSeqType
<1>1. 0 \in T
  <2>1. upto(0) = << >> /\ ss \o << >> = ss
    BY SubSeqEmpty, ConcatEmptySeq
  <2> QED BY <2>1, <1>0, FlattenSeqType, ConcatEmptySeq
<1>2. ASSUME NEW k \in Nat, k \in T PROVE k + 1 \in T
  <2> SUFFICES ASSUME k + 1 <= Len(tt)
               PROVE  FlattenSeq(ss \o upto(k + 1)) = FlattenSeq(ss) \o FlattenSeq(upto(k + 1))
    OBVIOUS
  <2>1. upto(k) \in Seq(Seq(S)) /\ tt[k + 1] \in Seq(S)
    OBVIOUS
  <2>2. upto(k + 1) = Append(upto(k), tt[k + 1])
    OBVIOUS
  <2>3. ss \o Append(upto(k), tt[k + 1]) = Append(ss \o upto(k), tt[k + 1])
    BY <2>1
  <2>4. ss \o upto(k) \in Seq(Seq(S))
    BY <2>1, ConcatProperties
  <2> HIDE DEF upto
  <2>5. FlattenSeq(upto(k)) \in Seq(S)
    BY <2>1, FlattenSeqType
  <2>6. FlattenSeq(Append(ss \o upto(k), tt[k + 1])) = FlattenSeq(ss \o upto(k)) \o tt[k + 1]
    BY <2>1, <2>4, FlattenSeqAppend
  <2>7. FlattenSeq(Append(upto(k), tt[k + 1])) = FlattenSeq(upto(k)) \o tt[k + 1]
    BY <2>1, FlattenSeqAppend
  <2>8. FlattenSeq(ss \o upto(k)) = FlattenSeq(ss) \o FlattenSeq(upto(k))
    BY <1>2
  <2>9. (FlattenSeq(ss) \o FlattenSeq(upto(k))) \o tt[k + 1]
            = FlattenSeq(ss) \o (FlattenSeq(upto(k)) \o tt[k + 1])
    <3> DEFINE a == FlattenSeq(ss)
               b == FlattenSeq(upto(k))
               c == tt[k + 1]
    <3>1. a \in Seq(S) /\ b \in Seq(S) /\ c \in Seq(S)
      BY <1>0, <2>1, <2>5
    <3> HIDE DEF a, b, c
    <3>2. (a \o b) \o c = a \o (b \o c)
      BY <3>1, SMTT(30)
    <3> QED BY <3>2 DEF a, b, c
  <2> QED BY <2>2, <2>3, <2>6, <2>7, <2>8, <2>9
<1> HIDE DEF T
<1>3. Nat \subseteq T
  BY <1>1, <1>2, SetInduction
<1>4. Len(tt) \in Nat /\ upto(Len(tt)) = tt
  BY SubSeqFull
<1>5. Len(tt) \in T /\ Len(tt) <= Len(tt)
  BY <1>3, <1>4
<1>6. FlattenSeq(ss \o upto(Len(tt))) = FlattenSeq(ss) \o FlattenSeq(upto(Len(tt)))
  BY <1>5 DEF T
<1> QED BY <1>4, <1>6

-----------------------------------------------------------------------------
(* Flattening what a function gives for each element *)

Mapped(h, s) == [i \in DOMAIN s |-> h[s[i]]]

\* h gives a sequence for each element.
Maps(h, M, S) == \A m \in M : h[m] \in Seq(S)

LEMMA MappedType ==
    ASSUME NEW M, NEW S, NEW h, Maps(h, M, S), NEW s \in Seq(M)
    PROVE  /\ Mapped(h, s) \in Seq(Seq(S)) /\ Len(Mapped(h, s)) = Len(s)
           /\ \A i \in 1 .. Len(s) : Mapped(h, s)[i] = h[s[i]]
           /\ FlattenSeq(Mapped(h, s)) \in Seq(S)
<1>1. PICK n \in Nat : n = Len(s) /\ DOMAIN s = 1 .. n
  OBVIOUS
<1>2. \A i \in 1 .. n : s[i] \in M
  BY <1>1
<1>3. \A i \in 1 .. n : h[s[i]] \in Seq(S)
  BY <1>2 DEF Maps
<1>4. Mapped(h, s) = [i \in 1 .. n |-> h[s[i]]]
  BY <1>1 DEF Mapped
<1>5. [i \in 1 .. n |-> h[s[i]]] \in Seq(Seq(S))
  BY <1>3
<1>6. Mapped(h, s) \in Seq(Seq(S)) /\ Len(Mapped(h, s)) = n /\ \A i \in 1 .. n : Mapped(h, s)[i] = h[s[i]]
  BY <1>4, <1>5
<1> QED BY <1>1, <1>6, FlattenSeqType

LEMMA MappedNone ==
    ASSUME NEW h
    PROVE  FlattenSeq(Mapped(h, << >>)) = << >>
<1>1. Mapped(h, << >>) = << >>
  BY DEF Mapped
<1> QED BY <1>1, FlattenSeqType

LEMMA MappedAppend ==
    ASSUME NEW M, NEW S, NEW h, Maps(h, M, S), NEW s \in Seq(M), NEW x \in M
    PROVE  FlattenSeq(Mapped(h, Append(s, x))) = FlattenSeq(Mapped(h, s)) \o h[x]
<1>1. PICK q : q = Append(s, x)
  OBVIOUS
<1>2. PICK n \in Nat : n = Len(s)
  OBVIOUS
<1>3. q \in Seq(M) /\ Len(q) = n + 1 /\ q[n + 1] = x /\ \A i \in 1 .. n : q[i] = s[i]
  BY <1>1, <1>2, AppendProperties
<1>4. PICK v : v = Mapped(h, q)
  OBVIOUS
<1>5. v \in Seq(Seq(S)) /\ Len(v) = n + 1 /\ \A i \in 1 .. n + 1 : v[i] = h[q[i]]
  <2>0. q \in Seq(M)
    BY <1>3
  <2>1. /\ Mapped(h, q) \in Seq(Seq(S)) /\ Len(Mapped(h, q)) = Len(q)
        /\ \A i \in 1 .. Len(q) : Mapped(h, q)[i] = h[q[i]]
    BY <2>0, MappedType
  <2> QED BY <1>3, <1>4, <2>1
<1>6. PICK w : w = Mapped(h, s)
  OBVIOUS
<1>7. w \in Seq(Seq(S)) /\ Len(w) = n /\ \A i \in 1 .. n : w[i] = h[s[i]]
  <2>1. /\ Mapped(h, s) \in Seq(Seq(S)) /\ Len(Mapped(h, s)) = Len(s)
        /\ \A i \in 1 .. Len(s) : Mapped(h, s)[i] = h[s[i]]
    BY MappedType
  <2> QED BY <1>2, <1>6, <2>1
<1>8. PICK y \in Seq(S) : y = h[x]
  BY DEF Maps
<1>9. PICK u : u = Append(w, y)
  OBVIOUS
<1>10. u \in Seq(Seq(S)) /\ Len(u) = n + 1 /\ u[n + 1] = y /\ \A i \in 1 .. n : u[i] = w[i]
  BY <1>7, <1>9, AppendProperties
<1>11. \A i \in 1 .. n + 1 : v[i] = u[i]
  <2> TAKE i \in 1 .. n + 1
  <2>1. CASE i = n + 1
    BY <1>3, <1>5, <1>8, <1>10, <2>1
  <2>2. CASE i # n + 1
    <3>1. i \in 1 .. n
      BY <2>2
    <3>2. v[i] = h[q[i]] /\ q[i] = s[i]
      BY <1>3, <1>5, <3>1
    <3>3. u[i] = w[i] /\ w[i] = h[s[i]]
      BY <1>7, <1>10, <3>1
    <3> QED BY <3>2, <3>3
  <2> QED BY <2>1, <2>2
<1>12. v = u
  <2>1. v = [i \in 1 .. n + 1 |-> v[i]]
    BY <1>5
  <2>2. u = [i \in 1 .. n + 1 |-> u[i]]
    BY <1>10
  <2>3. [i \in 1 .. n + 1 |-> v[i]] = [i \in 1 .. n + 1 |-> u[i]]
    BY <1>11
  <2> QED BY <2>1, <2>2, <2>3
<1>13. FlattenSeq(Append(w, y)) = FlattenSeq(w) \o y
  BY <1>7, FlattenSeqAppend
<1> QED BY <1>1, <1>4, <1>6, <1>8, <1>9, <1>12, <1>13

LEMMA Singleton ==
    ASSUME NEW S
    PROVE  << >> \in Seq(S) /\ \A y \in S : <<y>> \in Seq(S)
  OBVIOUS

\* The elements of K one by one, and what c gives for them.
Picked(M, K) == [m \in M |-> IF m \in K THEN <<m>> ELSE << >>]
PickedFor(c, M, K) == [m \in M |-> IF m \in K THEN c[m] ELSE << >>]

\* Choosing elements first and mapping them then is mapping the chosen ones in place.
LEMMA ChosenThenMapped ==
    ASSUME NEW M, NEW S, NEW K, NEW c, Maps(c, M, S), NEW p \in Seq(M)
    PROVE  /\ FlattenSeq(Mapped(Picked(M, K), p)) \in Seq(M)
           /\ FlattenSeq(Mapped(c, FlattenSeq(Mapped(Picked(M, K), p)))) = FlattenSeq(Mapped(PickedFor(c, M, K), p))
<1>1. PICK take : take = Picked(M, K)
  OBVIOUS
<1>2. PICK both : both = PickedFor(c, M, K)
  OBVIOUS
<1>3. \A m \in M : take[m] = (IF m \in K THEN <<m>> ELSE << >>) /\ both[m] = (IF m \in K THEN c[m] ELSE << >>)
  BY <1>1, <1>2 DEF Picked, PickedFor
<1>4. Maps(take, M, M) /\ Maps(both, M, S)
  <2> SUFFICES ASSUME NEW m \in M PROVE take[m] \in Seq(M) /\ both[m] \in Seq(S)
    BY DEF Maps
  <2>1. <<m>> \in Seq(M) /\ << >> \in Seq(M) /\ << >> \in Seq(S) /\ c[m] \in Seq(S)
    BY Singleton DEF Maps
  <2> QED BY <1>3, <2>1, Zenon
<1> DEFINE upto(k) == SubSeq(p, 1, k)
           Q(k) == FlattenSeq(Mapped(take, upto(k)))
           R(k) == FlattenSeq(Mapped(both, upto(k)))
           T == {k \in Nat : k <= Len(p) => FlattenSeq(Mapped(c, Q(k))) = R(k)}
<1>5. 0 \in T
  <2>1. upto(0) = << >>
    BY SubSeqEmpty
  <2>2. Q(0) = << >> /\ R(0) = << >>
    BY <2>1, MappedNone
  <2> QED BY <2>2, MappedNone
<1>6. ASSUME NEW k \in Nat, k \in T PROVE k + 1 \in T
  <2> SUFFICES ASSUME k + 1 <= Len(p) PROVE FlattenSeq(Mapped(c, Q(k + 1))) = R(k + 1)
    OBVIOUS
  <2>1. PICK x \in M : x = p[k + 1]
    OBVIOUS
  <2>2. upto(k) \in Seq(M) /\ upto(k + 1) = Append(upto(k), x)
    BY <2>1
  <2>3. PICK q \in Seq(M) : q = upto(k)
    BY <2>2
  <2> HIDE DEF upto
  <2>4. ASSUME NEW V, NEW h, Maps(h, M, V)
        PROVE  FlattenSeq(Mapped(h, upto(k + 1))) = FlattenSeq(Mapped(h, upto(k))) \o h[x]
    <3>1. FlattenSeq(Mapped(h, Append(q, x))) = FlattenSeq(Mapped(h, q)) \o h[x]
      BY <2>4, MappedAppend
    <3> QED BY <3>1, <2>2, <2>3
  <2>5. /\ Q(k) \in Seq(M) /\ Q(k + 1) = Q(k) \o take[x]
        /\ R(k) \in Seq(S) /\ R(k + 1) = R(k) \o both[x]
    <3>1. Q(k) \in Seq(M) /\ R(k) \in Seq(S)
      BY <1>4, <2>2, MappedType
    <3>2. FlattenSeq(Mapped(take, upto(k + 1))) = FlattenSeq(Mapped(take, upto(k))) \o take[x]
      BY <1>4, <2>4
    <3>3. FlattenSeq(Mapped(both, upto(k + 1))) = FlattenSeq(Mapped(both, upto(k))) \o both[x]
      BY <1>4, <2>4
    <3> QED BY <2>2, <3>1, <3>2, <3>3
  <2>6. FlattenSeq(Mapped(c, Q(k))) = R(k)
    BY <1>6
  <2> HIDE DEF Q, R
  <2>7. CASE x \in K
    <3>1. take[x] = <<x>> /\ both[x] = c[x]
      BY <1>3, <2>7
    <3>2. Q(k + 1) = Append(Q(k), x)
      BY <2>5, <3>1
    <3>3. FlattenSeq(Mapped(c, Append(Q(k), x))) = FlattenSeq(Mapped(c, Q(k))) \o c[x]
      BY <2>5, MappedAppend
    <3> QED BY <2>5, <2>6, <3>1, <3>2, <3>3
  <2>8. CASE x \notin K
    <3>1. take[x] = << >> /\ both[x] = << >>
      BY <1>3, <2>8
    <3>2. Q(k + 1) = Q(k) /\ R(k + 1) = R(k)
      BY <2>5, <3>1, ConcatEmptySeq
    <3> QED BY <2>6, <3>2
  <2> QED BY <2>7, <2>8
<1>7. Nat \subseteq T
  <2> HIDE DEF T
  <2> QED BY <1>5, <1>6, SetInduction
<1>8. Len(p) \in Nat /\ upto(Len(p)) = p
  BY SubSeqFull
<1>9. FlattenSeq(Mapped(c, Q(Len(p)))) = R(Len(p))
  BY <1>7, <1>8
<1>10. FlattenSeq(Mapped(take, p)) \in Seq(M)
  BY <1>4, MappedType
<1> QED BY <1>1, <1>2, <1>8, <1>9, <1>10
===============================================================================
