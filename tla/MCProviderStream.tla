-------------------------- MODULE MCProviderStream --------------------------
(* TLC instance of ProviderStream. *)
EXTENDS ProviderStream

Part(type, text) == [type |-> type, text |-> text]

\* No message; system messages around the others; parts of several types.
MCPrompts == {
    << >>,
    << [role |-> "user", parts |-> <<Part("text", "a")>>],
       [role |-> "system", parts |-> <<Part("text", "b")>>],
       [role |-> "assistant", parts |-> << >>],
       [role |-> "system", parts |-> <<Part("input_text", "c"), Part("text", "d")>>] >>,
    << [role |-> "tool", parts |-> <<Part("text", "a"), Part("image_url", "b"), Part("text", "c")>>],
       [role |-> "assistant", parts |-> <<Part("text", "d")>>] >> }
===============================================================================
