---------------------------- MODULE MCDictionary ----------------------------
(* Two spellings of one value and one of another.                           *)
EXTENDS Dictionary, TLC

CONSTANTS a1, a2, b

MCNorm == [s \in {a1, a2, b} |-> IF s = b THEN "B" ELSE "A"]

ThreadSymmetry == Permutations(Threads)
=============================================================================
