----------------------------- MODULE MCLabelBook -----------------------------
(* TLC instances of LabelBook. *)
EXTENDS LabelBook, TLC

CONSTANTS ivan, ivana, petrenko, olena

\* A full name and its genitive, with one normal form; the surname alone; and
\* another person of that surname.
MCNorm == ivan :> "ivan petrenko" @@ ivana :> "ivan petrenko"
              @@ petrenko :> "petrenko" @@ olena :> "olena petrenko"

Name(given) == [k \in NameParts |-> IF k = "s" THEN "petrenko" ELSE IF k = "p" THEN None ELSE given]
MCMeta == ivan :> Name("ivan") @@ ivana :> Name("ivan") @@ petrenko :> Name(None) @@ olena :> Name("olena")
MCScore == ivan :> 4 @@ ivana :> 0 @@ petrenko :> 1 @@ olena :> 4

MCTexts == { <<ivana>>, <<ivan, petrenko>>, <<olena, petrenko>> }

ThreadSymmetry == Permutations(Threads)
===============================================================================
