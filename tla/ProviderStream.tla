---------------------------- MODULE ProviderStream ----------------------------
(***************************************************************************)
(* The provider adapters of gateway/*.py and what the route makes of their  *)
(* output: complete() answers with one completion, stream() is driven by    *)
(* _stream_response of routes/proxy.py until the stream ends.               *)
(*                                                                          *)
(* One call of one adapter.  The upstream is free: it refuses, breaks off   *)
(* at any point, sends lines that are not JSON, JSON that is no object, or  *)
(* an object that tells of a failure.  The text of a line is the number of  *)
(* the line, so that no two are equal.  What the detokenizer holds back is  *)
(* a suffix of what it was given (module StreamDetok says which).           *)
(***************************************************************************)
EXTENDS Naturals, Sequences, FiniteSets, SequencesExt

CONSTANTS
    Prompts,    \* payloads: sequences of [role, parts], parts of [type, text]
    MaxLines,   \* bound on the lines of an answer
    MaxBlocks,  \* bound on the blocks of text of a completion
    None        \* no value

\* register_provider: the three that speak the OpenAI schema, and the others.
Passthrough == {"openai", "azure", "do-genai"}
Translating == {"anthropic", "gemini", "bedrock"}
Providers   == Passthrough \cup Translating \cup {"ollama"}

VARIABLES
    provider,  \* the adapter
    mode,      \* "complete" or "stream"
    prompt,    \* the sanitized payload
    body,      \* what is sent upstream, or None
    pc,        \* where the call is
    lines,     \* lines read so far
    finish,    \* finish_reason of the adapter's generator
    held,      \* what the detokenizer holds back
    client,    \* what the client has been sent
    said,      \* observed: the text the upstream sent
    given,     \* observed: the reasons the upstream gave, in OpenAI's words
    ended,     \* observed: the upstream sent its terminator
    broke      \* observed: how the call broke, or None

observed == <<said, given, ended, broke>>
vars == <<provider, mode, prompt, body, pc, lines, finish, held, client,
          said, given, ended, broke>>

-----------------------------------------------------------------------------
(* Requests *)

TextTypes == {"text", "input_text"}

Message == [role : STRING, parts : Seq([type : STRING, text : STRING])]

\* _content_to_text: a plain string is one part of type "text".
content_to_text(parts) ==
    FlattenSeq([i \in DOMAIN parts |->
        IF parts[i].type \in TextTypes THEN <<parts[i].text>> ELSE << >>])

\* _translate takes the messages one by one to one of two lists.
Systems(p) == FlattenSeq([i \in DOMAIN p |-> IF p[i].role = "system" THEN <<p[i]>> ELSE << >>])
Others(p)  == FlattenSeq([i \in DOMAIN p |-> IF p[i].role = "system" THEN << >> ELSE <<p[i]>>])

\* Mutant: the last system message wins.
LastSystem(p) ==
    IF Systems(p) = << >> THEN << >> ELSE content_to_text(Last(Systems(p)).parts)

\* The system messages are put together.
system(p) ==
    FlattenSeq([i \in DOMAIN Systems(p) |-> content_to_text(Systems(p)[i].parts)])

\* The others stay in order; a role that is not the assistant's becomes the user's.
messages(p, assistant) ==
    [i \in DOMAIN Others(p) |->
        [role |-> IF Others(p)[i].role = "assistant" THEN assistant ELSE "user",
         text |-> content_to_text(Others(p)[i].parts)]]

AnthropicBody(p) == [system |-> system(p), messages |-> messages(p, "assistant")]
BedrockBody(p)   == [system |-> system(p), messages |-> messages(p, "assistant")]
GeminiBody(p)    == [system |-> system(p), messages |-> messages(p, "model")]

\* The payload itself, but for the model; Ollama gets its messages.
OpenAIBody(p) == p
OllamaBody(p) == p

Body(p) ==
    CASE provider = "anthropic" -> AnthropicBody(p)
      [] provider = "bedrock"   -> BedrockBody(p)
      [] provider = "gemini"    -> GeminiBody(p)
      [] provider = "ollama"    -> OllamaBody(p)
      [] OTHER                  -> OpenAIBody(p)

-----------------------------------------------------------------------------
(* Answers *)

\* Reasons a provider gives for the end of an answer.
NativeReasons ==
    [p \in Providers |->
        CASE p \in Passthrough -> {"stop", "length"}
          [] p \in {"anthropic", "bedrock"} -> {"end_turn", "max_tokens", "refusal"}
          [] p = "gemini" -> {"STOP", "MAX_TOKENS", "SAFETY", "OTHER"}
          [] p = "ollama" -> {"unfinished"}]

FinishReasons == {"stop", "length", "content_filter", "tool_calls"}

\* How a call may break.
Breaks == {"refused", "transport", "status", "raised"}

\* None is neither a reason nor a failure.
NoneIsApart == None \notin FinishReasons \cup Breaks

ASSUME ProviderAssumption ==
    NoneIsApart /\ MaxLines \in Nat /\ MaxBlocks \in Nat /\ Prompts \subseteq Seq(Message)

\* _STOP_MAP and _FINISH_MAP, and Ollama's "done": what they do not hold is "stop".
OpenAIReason(r) ==
    CASE r \in {"max_tokens", "MAX_TOKENS", "length", "unfinished"} -> "length"
      [] r \in {"SAFETY", "RECITATION"} -> "content_filter"
      [] r = "tool_use" -> "tool_calls"
      [] OTHER -> "stop"

Noise   == [kind |-> "noise",   text |-> FALSE, reason |-> None]  \* blank, comment, not JSON
Odd     == [kind |-> "odd",     text |-> FALSE, reason |-> None]  \* JSON, but no object
Failure == [kind |-> "failure", text |-> FALSE, reason |-> None]  \* an object with an error
Event(t, r) == [kind |-> "event", text |-> t, reason |-> r]
End(t)      == [kind |-> "end", text |-> t, reason |-> None]

\* The lines a provider may send.  Anthropic gives the reason in an event of its
\* own; Gemini has no terminator; the last object of Ollama may have text.
Lines(p) ==
    {Noise, Odd, Failure} \cup
    CASE p = "anthropic" -> {Event(TRUE, None), End(FALSE)}
                                \cup {Event(FALSE, r) : r \in NativeReasons[p]}
      [] p = "ollama"    -> {Event(TRUE, None), Event(FALSE, None), End(TRUE), End(FALSE)}
      [] p = "gemini"    -> {Event(t, r) : t \in BOOLEAN, r \in NativeReasons[p] \cup {None}}
      [] OTHER           -> {Event(t, r) : t \in BOOLEAN, r \in NativeReasons[p] \cup {None}}
                                \cup {End(FALSE)}

\* What the client is sent.
Chunk(t, f)  == [kind |-> "chunk", text |-> t, finish |-> f]
Completion(t, f) == [kind |-> "answer", text |-> t, finish |-> f]
Relayed(k)   == [kind |-> k, text |-> << >>, finish |-> None]
LastDelta    == [kind |-> "tail", text |-> held, finish |-> None]
Error(s)     == [kind |-> "error", text |-> << >>, finish |-> None, status |-> s]
DONE         == [kind |-> "DONE", text |-> << >>, finish |-> None]

Init ==
    /\ provider \in Providers /\ mode \in {"complete", "stream"} /\ prompt \in Prompts
    /\ body = None
    /\ pc = "start"
    /\ lines = 0
    /\ finish = "stop"
    /\ held = << >>
    /\ client = << >>
    /\ said = << >> /\ given = << >> /\ ended = FALSE /\ broke = None

Send(items) == client' = client \o items

\* ProviderError reaches the route: a status of its own, or an event of the stream,
\* which is then closed.
RaiseProviderError(status, why) ==
    /\ Send(IF mode = "stream" THEN <<Error(status), DONE>> ELSE <<Error(status)>>)
    /\ pc' = "done"
    /\ broke' = why

\* Any other exception: the finally clause closes the stream, and that is all.
RaiseOther ==
    /\ Send(IF mode = "stream" THEN <<DONE>> ELSE << >>)
    /\ pc' = "done"
    /\ broke' = "raised"

-----------------------------------------------------------------------------
(* Before the answer *)

Refuse(p) ==
    /\ pc = "start" /\ provider = p
    /\ RaiseProviderError(400, "refused")
    /\ UNCHANGED <<provider, mode, prompt, body, lines, finish, held, said, given, ended>>

\* Azure is not configured; the name of the model is not fit for Gemini's URL; boto3
\* is missing, or the model is none that Bedrock's adapter knows.
AzureRefuses   == Refuse("azure")
GeminiRefuses  == Refuse("gemini")
BedrockRefuses == Refuse("bedrock")

SendRequest ==
    /\ pc = "start"
    /\ body' = Body(prompt)
    /\ pc' = "waiting"
    /\ UNCHANGED <<provider, mode, prompt, lines, finish, held, client, observed>>

\* Mutant: a connection that breaks off ends the answer like one that is closed.
TransportEnds ==
    /\ pc = "waiting" \/ pc = "lines"
    /\ IF pc = "waiting" THEN RaiseProviderError(502, "transport")
       ELSE pc' = "flush" /\ broke' = "transport" /\ UNCHANGED client
    /\ UNCHANGED <<provider, mode, prompt, body, lines, finish, held, said, given, ended>>

\* httpx.HTTPError, a timeout among them; for Bedrock every exception of boto3.
TransportFails ==
    /\ pc \in {"waiting", "lines"}
    /\ RaiseProviderError(502, "transport")
    /\ UNCHANGED <<provider, mode, prompt, body, lines, finish, held, said, given, ended>>

\* An answer of status 400 or more.  Bedrock's is an exception of boto3.
UpstreamRefuses ==
    /\ pc = "waiting" /\ provider # "bedrock"
    /\ RaiseProviderError(429, "status")
    /\ UNCHANGED <<provider, mode, prompt, body, lines, finish, held, said, given, ended>>

-----------------------------------------------------------------------------
(* complete(): one answer.  Bedrock's stream() is made of one, too. *)

\* The body of the answer is not JSON.
AnswerNotJson ==
    /\ pc = "waiting"
    /\ mode = "complete" \/ provider = "bedrock"
    /\ RaiseProviderError(502, "transport")
    /\ UNCHANGED <<provider, mode, prompt, body, lines, finish, held, said, given, ended>>

\* JSON that is no object: relayed, or an AttributeError of the translation.
AnswerOdd ==
    /\ pc = "waiting"
    /\ mode = "complete" \/ provider = "bedrock"
    /\ IF provider \in Passthrough
       THEN Send(<<Relayed("odd")>>) /\ pc' = "done" /\ UNCHANGED broke
       ELSE RaiseOther
    /\ UNCHANGED <<provider, mode, prompt, body, lines, finish, held, said, given, ended>>

\* The texts of the blocks put together, and the reason or its default; an answer in
\* the OpenAI schema is relayed as it is.
Answer(n, r) ==
    /\ pc = "waiting" /\ mode = "complete"
    /\ Send(<<Completion([i \in 1 .. n |-> i],
                         IF provider \in Passthrough THEN r ELSE OpenAIReason(r))>>)
    /\ said' = [i \in 1 .. n |-> i]
    /\ given' = <<OpenAIReason(r)>>
    /\ pc' = "done"
    /\ UNCHANGED <<provider, mode, prompt, body, lines, finish, held, ended, broke>>

\* The detokenizer gets text and gives out what it does not hold back; the chunk
\* that brought the text carries what it gives out.
Deliver(text, reason, after) ==
    \E out \in IF text = << >> THEN {0} ELSE 0 .. Len(held \o text) :
        /\ held' = SubSeq(held \o text, out + 1, Len(held \o text))
        /\ Send((IF text = << >> /\ reason = None THEN << >>
                 ELSE <<Chunk(SubSeq(held \o text, 1, out), reason)>>) \o after)

\* Bedrock: the whole completion as one chunk, and a chunk that ends it.
AnswerAsStream(n, r) ==
    /\ pc = "waiting" /\ mode = "stream" /\ provider = "bedrock"
    /\ Deliver([i \in 1 .. n |-> i], None, <<Chunk(<< >>, OpenAIReason(r))>>)
    /\ said' = [i \in 1 .. n |-> i]
    /\ given' = <<OpenAIReason(r)>>
    /\ pc' = "flush"
    /\ UNCHANGED <<provider, mode, prompt, body, lines, finish, ended, broke>>

-----------------------------------------------------------------------------
(* stream(): lines *)

OpenStream ==
    /\ pc = "waiting" /\ mode = "stream" /\ provider # "bedrock"
    /\ pc' = "lines"
    /\ UNCHANGED <<provider, mode, prompt, body, lines, finish, held, client, observed>>

TextOf(l) == IF l.text THEN <<lines + 1>> ELSE << >>

Reason(l) == IF l.reason = None THEN << >> ELSE <<OpenAIReason(l.reason)>>

\* The upstream sends a line, and nothing but noise after its terminator.
Arrives(ps, l) ==
    /\ pc = "lines" /\ provider \in ps
    /\ lines < MaxLines
    /\ ended => l = Noise
    /\ lines' = lines + 1
    /\ said' = said \o TextOf(l)
    /\ ended' = (ended \/ l.kind = "end")
    /\ UNCHANGED <<provider, mode, prompt, body>>

\* iter_sse_data: every object is relayed, with or without text; [DONE] is not.
RelayLine(l) ==
    /\ Arrives(Passthrough, l)
    /\ Deliver(TextOf(l), l.reason,
               IF l.kind \in {"odd", "failure"} THEN <<Relayed(l.kind)>>
               ELSE IF l = Event(FALSE, None) THEN <<Relayed("event")>> ELSE << >>)
    /\ given' = given \o Reason(l)
    /\ UNCHANGED <<pc, finish, broke>>

\* Mutant: the first reason stays.
KeepReason(l) ==
    finish' = IF l.reason = None \/ given # << >> THEN finish ELSE OpenAIReason(l.reason)

\* The reason is kept for the chunk that ends the answer.
NoteReason(l) ==
    finish' = IF l.reason = None THEN finish ELSE OpenAIReason(l.reason)

\* Anthropic: text_delta, stop_reason, message_stop.  Other events are skipped, an
\* error among them.
AnthropicLine(l) ==
    /\ Arrives({"anthropic"}, l)
    /\ l.kind # "odd"
    /\ Deliver(TextOf(l), None, << >>)
    /\ NoteReason(l)
    /\ given' = given \o Reason(l)
    /\ pc' = IF l.kind = "end" THEN "finish" ELSE "lines"
    /\ UNCHANGED broke

\* Mutant: an object with a reason is taken for one without text.
GeminiTextOrReason(l) ==
    /\ Arrives({"gemini"}, l)
    /\ l.kind # "odd"
    /\ Deliver(IF l.reason = None THEN TextOf(l) ELSE << >>, None, << >>)
    /\ NoteReason(l)
    /\ given' = given \o Reason(l)
    /\ UNCHANGED <<pc, broke>>

\* Gemini: the first candidate, its text and its reason.  Without a candidate the
\* line is skipped.
GeminiLine(l) ==
    /\ Arrives({"gemini"}, l)
    /\ l.kind # "odd"
    /\ Deliver(TextOf(l), None, << >>)
    /\ NoteReason(l)
    /\ given' = given \o Reason(l)
    /\ UNCHANGED <<pc, broke>>

\* Ollama: newline-delimited objects; the one that is done also ends the answer.
OllamaLine(l) ==
    /\ Arrives({"ollama"}, l)
    /\ l.kind # "odd"
    /\ Deliver(TextOf(l), None, IF l.kind = "end" THEN <<Chunk(<< >>, "stop")>> ELSE << >>)
    /\ given' = IF l.kind = "end" THEN Append(given, "stop") ELSE given
    /\ UNCHANGED <<pc, finish, broke>>

\* An AttributeError of a translating adapter.
OddLine ==
    /\ Arrives({"anthropic", "gemini", "ollama"}, Odd)
    /\ RaiseOther
    /\ UNCHANGED <<finish, held, given>>

\* The connection is closed in good order, whatever was sent before.
EndOfStream ==
    /\ pc = "lines"
    /\ pc' = IF provider \in {"anthropic", "gemini"} THEN "finish" ELSE "flush"
    /\ UNCHANGED <<provider, mode, prompt, body, lines, finish, held, client, observed>>

\* The chunk that ends the answer.
Finish ==
    /\ pc = "finish"
    /\ Send(<<Chunk(<< >>, finish)>>)
    /\ pc' = "flush"
    /\ UNCHANGED <<provider, mode, prompt, body, lines, finish, held, observed>>

\* The route flushes the detokenizer and closes the stream.
Flush ==
    /\ pc = "flush"
    /\ Send((IF held = << >> THEN << >> ELSE <<LastDelta>>) \o <<DONE>>)
    /\ held' = << >>
    /\ pc' = "done"
    /\ UNCHANGED <<provider, mode, prompt, body, lines, finish, observed>>

Next ==
    \/ AzureRefuses
    \/ GeminiRefuses
    \/ BedrockRefuses
    \/ SendRequest
    \/ TransportFails
    \/ UpstreamRefuses
    \/ AnswerNotJson
    \/ AnswerOdd
    \/ \E n \in 0 .. MaxBlocks, r \in NativeReasons[provider] \cup {None} :
        Answer(n, r) \/ AnswerAsStream(n, r)
    \/ OpenStream
    \/ \E l \in Lines(provider) :
        RelayLine(l) \/ AnthropicLine(l) \/ GeminiLine(l) \/ OllamaLine(l)
    \/ OddLine
    \/ EndOfStream
    \/ Finish
    \/ Flush

Spec == Init /\ [][Next]_vars

-----------------------------------------------------------------------------
(* Properties *)

Count(kind) == Cardinality({i \in DOMAIN client : client[i].kind = kind})

TextsOf(items) == FlattenSeq([i \in DOMAIN items |-> items[i].text])
ClientText == TextsOf(client)

\* The client gets the text of the upstream, all of it and in order; what the
\* detokenizer still holds is sent before an undisturbed stream is closed
\* (stream and complete of the adapters, _stream_response).
TextInOrder ==
    /\ ClientText \o held = said
    /\ pc = "done" /\ broke = None => held = << >>

\* A call the provider did not serve shows the client one error, and no other call
\* does; an error comes after everything else (ProviderError).
FailureShown ==
    pc = "done" =>
        IF broke \in {"refused", "transport", "status"}
        THEN Count("error") = 1 /\ \A i \in DOMAIN client :
                client[i].kind = "error" => ClientText = TextsOf(SubSeq(client, 1, i))
        ELSE Count("error") = 0

\* An undisturbed stream of a translating adapter ends in one finish_reason: the last
\* one the provider gave, or "stop".  No text follows but the flushed tail.
FinishFaithful ==
    LET ends == {i \in DOMAIN client : client[i].finish # None}
    IN  pc = "done" /\ mode = "stream" /\ broke = None /\ provider \in Translating =>
            \E i \in DOMAIN client :
                /\ ends = {i}
                /\ client[i].finish = IF given = << >> THEN "stop" ELSE Last(given)
                /\ \A j \in i + 1 .. Len(client) : client[j].kind \in {"tail", "DONE"}

\* Every text of the prompt that the adapters know how to read reaches the provider
\* in its place: the system's in one, the others' in order (_translate).
PromptArrives ==
    LET systems == FlattenSeq([i \in DOMAIN prompt |->
                        IF prompt[i].role = "system" THEN content_to_text(prompt[i].parts) ELSE << >>])
        others == FlattenSeq([i \in DOMAIN prompt |->
                        IF prompt[i].role = "system" THEN << >> ELSE content_to_text(prompt[i].parts)])
    IN  body # None /\ provider \in Translating =>
            /\ body.system = systems
            /\ FlattenSeq([i \in DOMAIN body.messages |-> body.messages[i].text]) = others
===============================================================================
