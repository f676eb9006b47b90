---------------------------- MODULE MCStreamDetok ----------------------------
(* TLC instances of StreamDetok. *)
EXTENDS StreamDetok, TLC

\* One placeholder of the token map, as long as the limit on the buffer.  Its
\* suffix could also belong to the type.
MCResolved == <<"[", "[", "A", "_", "0", "]", "]">> :> "value"

Characters == {"[", "]", "_", "A", "0"}

\* Every text, character by character, and deltas that hold several characters:
\* two halves of different placeholders, one the map does not hold, line ends.
CutAnywhere ==
    {<<c>> : c \in Characters}
        \cup { <<"[", "[", "A">>, <<"0", "]", "]", "[">>, <<"[", "[", "A", "_", "0", "]", "]">>,
               <<"_", "f", "]", "]">>, <<"]", "\n">>, <<"0", "\n">> }
===============================================================================
