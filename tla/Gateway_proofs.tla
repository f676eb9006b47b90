---------------------------- MODULE Gateway_proofs ----------------------------
(***************************************************************************)
(* The safety of the gateway for any number of requests, entities, suffixes *)
(* and chunks and for every combination of faults.                          *)
(*                                                                          *)
(* A request shares nothing with the others but the tables, and there it    *)
(* only touches rows of its own session: the invariant speaks of one        *)
(* request at a time, by the stage it has reached.                          *)
(***************************************************************************)
EXTENDS Gateway, TLAPS

Labels == {"start", "ask", "detect", "tokenize", "dispatch", "upstream", "audit", "commit",
           "stream", "audit_linked", "audit_unlinked", "closed"}

\* The generator of a stream is running.
Generating == {"stream", "audit_linked", "audit_unlinked"}

Shape ==
    /\ DOMAIN pc = Requests /\ DOMAIN call = Requests /\ DOMAIN found = Requests
    /\ DOMAIN disclosed = Requests /\ DOMAIN missed = Requests
    /\ DOMAIN tokens = Requests /\ DOMAIN sent = Requests /\ DOMAIN forwarded = Requests
    /\ DOMAIN resolved = Requests /\ DOMAIN chunks = Requests /\ DOMAIN got = Requests
    /\ DOMAIN status = Requests /\ DOMAIN txn = Requests /\ DOMAIN draft = Requests
    /\ DOMAIN token_map = Requests /\ DOMAIN events = Requests /\ DOMAIN faults = Requests

IsMap(m) == DOMAIN m \subseteq Entities /\ m \in [DOMAIN m -> Placeholders]

Typed(r) ==
    /\ pc[r] \in Labels
    /\ call[r] \in CallType /\ (~call[r].texts => call[r].spans = << >>)
    /\ DOMAIN found[r] \subseteq Occurrences(call[r])
    /\ \A i \in DOMAIN found[r] : found[r][i] \in Types
    /\ IsMap(tokens[r])
    /\ sent[r] \in Seq(Placeholders \cup Values)
    /\ forwarded[r] \in BOOLEAN

\* The entity at occurrence i of call c when f was found in it.
At(c, f, i) == <<f[i], c.spans[i].value>>

\* The text so far, s: a detected value stands as its placeholder, another one as
\* it is; every placeholder given out is in the text, has the type it stands for,
\* and stands for one value.
TextOf(c, f, t, s) ==
    /\ Len(s) <= Len(c.spans)
    /\ \A i \in 1 .. Len(s) :
           IF i \in DOMAIN f
           THEN At(c, f, i) \in DOMAIN t /\ s[i] = t[At(c, f, i)]
           ELSE s[i] = c.spans[i].value
    /\ \A e \in DOMAIN t : \E i \in 1 .. Len(s) : i \in DOMAIN f /\ At(c, f, i) = e
    /\ \A e \in DOMAIN t : t[e][1] = e[1]
    /\ \A e, f2 \in DOMAIN t : t[e] = t[f2] => e = f2

Text(r) == TextOf(call[r], found[r], tokens[r], sent[r])

\* What no pass reported every pass that knows it has missed.
Overlooked(r) ==
    \A i \in Occurrences(call[r]) \ DOMAIN found[r] :
        \A p \in Enabled(call[r]) : TypesBy(call[r], p, i) # {} => <<p, i>> \in missed[r]

\* What the gates and the policy have let through.
Permitted(r) ==
    /\ Admitted(call[r])
    /\ call[r].texts => call[r].mode # "hard_block"
    /\ \A i \in DOMAIN found[r] : found[r][i] \notin call[r].blocked_types
    /\ Overlooked(r)

\* A placeholder of an answer is read as the token map says, where it is read.
Faithful(r, answer) ==
    /\ answer.placeholder \in Placeholders
    /\ answer.read = IF IsRead(answer.place, answer.placeholder)
                     THEN Resolve(tokens[r], answer.placeholder) ELSE answer.placeholder

Stage(r) ==
    /\ pc[r] \in {"start", "ask", "detect"} => sent[r] = << >> /\ tokens[r] = NoTokens /\ found[r] = NoTokens
    /\ pc[r] \in {"start", "ask", "detect", "tokenize", "dispatch"} =>
           ~forwarded[r] /\ got[r] = {} /\ resolved[r] = None /\ status[r] = "none"
    /\ pc[r] \in {"ask", "detect"} => Admitted(call[r])
    /\ disclosed[r] # {} => Admitted(call[r]) /\ call[r].llm_ner
    /\ pc[r] = "tokenize" => Permitted(r) /\ Len(sent[r]) < Len(call[r].spans)
    /\ pc[r] \in {"dispatch", "upstream"} \/ forwarded[r] \/ resolved[r] # None =>
           Permitted(r) /\ Len(sent[r]) = Len(call[r].spans)
    /\ pc[r] = "upstream" => forwarded[r] /\ ~call[r].stream /\ resolved[r] = None
    /\ resolved[r] # None => resolved[r] = tokens[r] /\ call[r].stream /\ draft[r] = None
    /\ pc[r] \in Generating => resolved[r] # None /\ r \in sessions /\ status[r] = "200"
    /\ pc[r] \in {"audit", "commit"} /\ resolved[r] = None =>
           (status[r] = "422") = ~forwarded[r]
    /\ pc[r] = "audit" => resolved[r] = None
    /\ pc[r] = "commit" /\ resolved[r] # None => status[r] = "200" /\ ~forwarded[r]
    /\ forwarded[r] /\ call[r].stream => r \in sessions
    /\ \A answer \in got[r] : Faithful(r, answer)

Expected(r) == IF status[r] = "422" THEN Event(TRUE, None) ELSE Event(FALSE, r)

Records(r) ==
    /\ r \in sessions => token_map[r] = tokens[r] /\ pc[r] \in Generating \cup {"closed"}
    /\ r \notin sessions => token_map[r] = NoTokens /\ events[r] = << >>
    /\ r \in sessions /\ resolved[r] = None => Len(events[r]) = 1
    /\ events[r] \in Seq(Events)
    /\ \A i \in 1 .. Len(events[r]) : events[r][i].session \in {r, None}
    /\ pc[r] \notin {"commit", "closed"} => draft[r] = None
    /\ pc[r] = "commit" /\ txn[r] # "aborted" /\ resolved[r] = None => draft[r] = Expected(r)

Audited(r) ==
    /\ txn[r] = "aborted" => faults[r] # {}
    /\ pc[r] \in {"stream", "audit_linked"} /\ faults[r] = {} => events[r] = << >>
    /\ pc[r] = "audit_unlinked" => faults[r] # {}
    /\ pc[r] = "audit_linked" => forwarded[r]
    /\ pc[r] = "closed" /\ faults[r] = {} =>
           /\ forwarded[r] => events[r] = << Event(FALSE, r) >>
           /\ status[r] = "422" => events[r] = << Event(TRUE, None) >> /\ ~forwarded[r]

InvOf(r) == Typed(r) /\ Text(r) /\ Stage(r) /\ Records(r) /\ Audited(r)

IInv == Shape /\ \A r \in Requests : InvOf(r)

-----------------------------------------------------------------------------
(* What the invariant says of a request *)

\* None is not a token map, nor an event.
LEMMA MapIsSomething == ASSUME NEW m, IsMap(m) PROVE m # None
BY GatewayAssumption DEF IsMap

\* Nor is an event None.
LEMMA EventIsSomething ==
    ASSUME NEW b \in BOOLEAN, NEW l \in Requests \cup {None}
    PROVE  Event(b, l) \in Events /\ Event(b, l) # None
<1>1. Event(b, l) \in Events
  BY DEF Event, Events
<1> QED BY <1>1, GatewayAssumption

\* Appending an event linked to r, or to nothing.
LEMMA AppendKeeps ==
    ASSUME NEW r, NEW s \in Seq(Events), \A i \in 1 .. Len(s) : s[i].session \in {r, None},
           NEW e \in Events, e.session \in {r, None}
    PROVE  Append(s, e) \in Seq(Events)
           /\ \A i \in 1 .. Len(Append(s, e)) : Append(s, e)[i].session \in {r, None}
<1>1. \A i \in 1 .. Len(Append(s, e)) : Append(s, e)[i] = IF i = Len(s) + 1 THEN e ELSE s[i]
  OBVIOUS
<1> QED BY <1>1

\* The event that is due.
LEMMA ExpectedIsEvent ==
    ASSUME NEW r \in Requests
    PROVE  Expected(r) \in Events /\ Expected(r) # None /\ Expected(r).session \in {r, None}
BY EventIsSomething DEF Expected, Event

\* The values of the texts, and the entities detected.
LEMMA SpansAreTyped ==
    ASSUME NEW r \in Requests, Typed(r)
    PROVE  /\ Len(call[r].spans) \in Nat
           /\ \A i \in Occurrences(call[r]) : call[r].spans[i].value \in Values
           /\ \A i \in DOMAIN found[r] : At(call[r], found[r], i) \in Entities
<1> DEFINE R == [text : Nat, value : Values]
<1>1. call[r].spans \in Seq(R)
  BY DEF Typed, CallType
<1>2. \A i \in Occurrences(call[r]) : call[r].spans[i] \in R
  <2> HIDE DEF R
  <2> QED BY <1>1 DEF Occurrences
<1>3. \A i \in Occurrences(call[r]) : call[r].spans[i].value \in Values
  BY <1>2
<1> QED BY <1>1, <1>3 DEF Typed, At, Entities

\* A detected occurrence stands as a placeholder of its type.
LEMMA TextIsSanitized ==
    ASSUME NEW r \in Requests, Typed(r), Text(r), NEW i \in 1 .. Len(sent[r]), i \in DOMAIN found[r]
    PROVE  sent[r][i] \in {found[r][i]} \X Tokens
<1> DEFINE e == At(call[r], found[r], i)
<1>1. e \in DOMAIN tokens[r] /\ sent[r][i] = tokens[r][e] /\ tokens[r][e][1] = e[1]
  BY DEF Text, TextOf
<1>2. tokens[r][e] \in Placeholders
  BY <1>1 DEF Typed, IsMap
<1>3. e[1] = found[r][i]
  BY DEF At
<1> HIDE DEF e
<1> QED BY <1>1, <1>2, <1>3 DEF Placeholders

\* Looking a placeholder up gives the value it stands for in the text.
LEMMA LookupIsExact ==
    ASSUME NEW r \in Requests, Typed(r), Text(r), NEW i \in 1 .. Len(sent[r]), sent[r][i] \in Placeholders
    PROVE  Resolve(tokens[r], sent[r][i]) = call[r].spans[i].value /\ call[r].spans[i].value \in Values
<1> DEFINE e == At(call[r], found[r], i)
<1>1. i \in Occurrences(call[r]) /\ call[r].spans[i].value \in Values
  <2>1. i \in Occurrences(call[r])
    BY SpansAreTyped DEF Text, TextOf, Occurrences, Typed
  <2> QED BY <2>1, SpansAreTyped
<1>2. i \in DOMAIN found[r]
  BY <1>1, GatewayAssumption DEF Text, TextOf
<1>3. e \in DOMAIN tokens[r] /\ tokens[r][e] = sent[r][i] /\ e[2] = call[r].spans[i].value
  BY <1>2 DEF Text, TextOf, At
<1>4. \A f \in DOMAIN tokens[r] : tokens[r][f] = sent[r][i] => f = e
  BY <1>3 DEF Text, TextOf
<1> HIDE DEF e
<1> QED BY <1>1, <1>3, <1>4 DEF Resolve

\* A placeholder that is not in the text stands for nothing.
LEMMA ForeignIsLeftAlone ==
    ASSUME NEW r \in Requests, Typed(r), Text(r), NEW p, \A i \in 1 .. Len(sent[r]) : sent[r][i] # p
    PROVE  Resolve(tokens[r], p) = p
<1>1. ASSUME NEW e \in DOMAIN tokens[r], tokens[r][e] = p PROVE FALSE
  <2>1. PICK i \in 1 .. Len(sent[r]) : i \in DOMAIN found[r] /\ At(call[r], found[r], i) = e
    BY DEF Text, TextOf
  <2>2. sent[r][i] = p
    BY <1>1, <2>1 DEF Text, TextOf
  <2> QED BY <2>2
<1> QED BY <1>1 DEF Resolve

\* The gateway's promises follow, request by request.
LEMMA InvariantImplies ==
    ASSUME IInv
    PROVE  UpstreamIsSanitized /\ ReinflationExact /\ SentIsRecoverable /\ RecordedTogether /\ AuditedOnce
<1>1. UpstreamIsSanitized
  <2>1. ASSUME NEW r \in Requests, forwarded[r]
        PROVE  /\ Admitted(call[r])
               /\ call[r].mode = "hard_block" => ~HasTexts(call[r])
               /\ \A i \in DOMAIN found[r] : found[r][i] \notin call[r].blocked_types
               /\ Len(sent[r]) = Len(call[r].spans)
    BY <2>1 DEF IInv, InvOf, Stage, Permitted, HasTexts
  <2>2. ASSUME NEW r \in Requests, forwarded[r], NEW i \in Occurrences(call[r])
        PROVE  \/ i \in DOMAIN found[r] /\ sent[r][i] \in {found[r][i]} \X Tokens
               \/ /\ sent[r][i] = call[r].spans[i].value
                  /\ \A p \in Enabled(call[r]) : TypesBy(call[r], p, i) # {} => <<p, i>> \in missed[r]
    <3>1. Typed(r) /\ Text(r) /\ Overlooked(r) /\ i \in 1 .. Len(sent[r])
      BY <2>1, <2>2 DEF IInv, InvOf, Stage, Permitted, Occurrences
    <3>2. CASE i \in DOMAIN found[r]
      BY <3>1, <3>2, TextIsSanitized
    <3>3. CASE i \notin DOMAIN found[r]
      BY <3>1, <3>3 DEF Text, TextOf, Overlooked
    <3> QED BY <3>2, <3>3
  <2>3. \A r \in Requests : disclosed[r] # {} => Admitted(call[r]) /\ call[r].llm_ner
    BY DEF IInv, InvOf, Stage
  <2> QED BY <2>1, <2>2, <2>3 DEF UpstreamIsSanitized
<1>2. ReinflationExact
  <2> SUFFICES ASSUME NEW r \in Requests, NEW answer \in got[r]
               PROVE  LET p == answer.placeholder
                          places == {i \in 1 .. Len(sent[r]) : sent[r][i] = p}
                      IN  /\ answer.read # p =>
                                 /\ IsRead(answer.place, p) /\ places # {}
                                 /\ \A i \in places : answer.read = call[r].spans[i].value
                          /\ IsRead(answer.place, p) /\ places # {} => answer.read # p
    BY DEF ReinflationExact
  <2> DEFINE p == answer.placeholder
  <2>1. Faithful(r, answer) /\ Typed(r) /\ Text(r)
    BY DEF IInv, InvOf, Stage
  <2>2. p \in Placeholders /\ answer.read = IF IsRead(answer.place, p) THEN Resolve(tokens[r], p) ELSE p
    BY <2>1 DEF Faithful
  <2>3. \A i \in 1 .. Len(sent[r]) : sent[r][i] = p =>
            Resolve(tokens[r], p) = call[r].spans[i].value /\ call[r].spans[i].value # p
    <3> HIDE DEF p
    <3>1. ASSUME NEW i \in 1 .. Len(sent[r]), sent[r][i] = p
          PROVE  Resolve(tokens[r], p) = call[r].spans[i].value /\ call[r].spans[i].value \in Values
      BY <2>1, <2>2, <3>1, LookupIsExact
    <3> QED BY <2>2, <3>1, GatewayAssumption
  <2>4. (\A i \in 1 .. Len(sent[r]) : sent[r][i] # p) => Resolve(tokens[r], p) = p
    BY <2>1, ForeignIsLeftAlone
  <2> HIDE DEF p
  <2> QED BY <2>2, <2>3, <2>4 DEF p
<1>3. SentIsRecoverable
  <2>1. ASSUME NEW r \in Requests, r \in sessions, NEW i \in 1 .. Len(sent[r]), i \in DOMAIN found[r]
        PROVE  Resolve(token_map[r], sent[r][i]) = call[r].spans[i].value
    <3>1. Typed(r) /\ Text(r) /\ token_map[r] = tokens[r]
      BY <2>1 DEF IInv, InvOf, Records
    <3>2. sent[r][i] \in Placeholders
      BY <2>1, <3>1 DEF Text, TextOf, Typed, IsMap
    <3> QED BY <3>1, <3>2, LookupIsExact
  <2> QED BY <2>1 DEF IInv, InvOf, Stage, SentIsRecoverable
<1>4. RecordedTogether
  BY DEF IInv, InvOf, Records, RecordedTogether
<1>5. AuditedOnce
  BY DEF IInv, InvOf, Audited, AuditedOnce
<1> QED BY <1>1, <1>2, <1>3, <1>4, <1>5

-----------------------------------------------------------------------------
(* A step of one request *)

\* Nothing about request u changes.
Same(u) ==
    /\ pc'[u] = pc[u] /\ call'[u] = call[u] /\ disclosed'[u] = disclosed[u]
    /\ missed'[u] = missed[u] /\ found'[u] = found[u] /\ tokens'[u] = tokens[u]
    /\ sent'[u] = sent[u] /\ forwarded'[u] = forwarded[u] /\ resolved'[u] = resolved[u]
    /\ chunks'[u] = chunks[u] /\ got'[u] = got[u] /\ status'[u] = status[u] /\ txn'[u] = txn[u]
    /\ draft'[u] = draft[u] /\ token_map'[u] = token_map[u] /\ events'[u] = events[u]
    /\ faults'[u] = faults[u] /\ (u \in sessions' <=> u \in sessions)

\* Its part of the invariant then stays.
LEMMA SameKeeps == ASSUME NEW u \in Requests, InvOf(u), Same(u) PROVE InvOf(u)'
<1>1. Typed(u)'
  BY DEF InvOf, Same, Typed
<1>2. Text(u)'
  <2>1. TextOf(call'[u], found'[u], tokens'[u], sent'[u])
    BY DEF InvOf, Same, Text
  <2> QED BY <2>1 DEF Text
<1>3. Permitted(u)' <=> Permitted(u)
  BY DEF Same, Permitted, Overlooked
<1>4. Stage(u)'
  BY <1>3 DEF InvOf, Same, Stage, Faithful
<1>5. Records(u)'
  BY DEF InvOf, Same, Records, Expected
<1>6. Audited(u)'
  BY DEF InvOf, Same, Audited
<1> QED BY <1>1, <1>2, <1>4, <1>5, <1>6 DEF InvOf

\* A request writes nothing of another: no action reaches beyond its own session.
LEMMA Frame ==
    ASSUME Shape, NEW r \in Requests, Proceed(r) \/ Disturb(r)
    PROVE  Shape' /\ \A u \in Requests \ {r} : Same(u)
<1> USE DEF Shape, Same, Goto, Fault, Raise, Emit, Persist, AppendFresh, reqVars, dbVars
<1>1. CASE Refuse(r) \/ CreateSession(r) \/ AskLlm(r) \/ Detect(r)
  BY <1>1, ZenonT(40) DEF Refuse, CreateSession, AskLlm, Detect
<1>2. CASE KeepSpan(r) \/ ReuseToken(r)
  BY <1>2 DEF KeepSpan, ReuseToken
<1>3. CASE \E tok \in Tokens : AllocateToken(r, tok)
  BY <1>3 DEF AllocateToken
<1>4. CASE Forward(r) \/ (\E p \in Placeholders, place \in Places : Complete(r, p, place)) \/ ProviderFails(r)
  BY <1>4 DEF Forward, Complete, ProviderFails
<1>5. CASE SafeAudit(r) \/ Commit(r) \/ PrepareStream(r)
  BY <1>5 DEF SafeAudit, Commit, PrepareStream
<1>6. CASE (\E p \in Placeholders, place \in Places, cut \in BOOLEAN : StreamChunk(r, p, place, cut)) \/ StreamEnds(r) \/ SafeAuditFresh(r)
  BY <1>6 DEF StreamChunk, StreamEnds, SafeAuditFresh
<1>7. CASE (\E tok \in Tokens : AllocationFails(r, tok)) \/ DatabaseFails(r) \/ ProviderRaises(r) \/ SafeAuditFails(r)
  BY <1>7 DEF AllocationFails, DatabaseFails, ProviderRaises, SafeAuditFails
<1>8. CASE CommitRollsBack(r) \/ CommitRefused(r) \/ CommitFails(r)
  BY <1>8 DEF CommitRollsBack, CommitRefused, CommitFails
<1>9. CASE StreamRaises(r) \/ Disconnect(r) \/ SafeAuditFreshFails(r) \/ WorkerDies(r)
  BY <1>9 DEF StreamRaises, Disconnect, SafeAuditFreshFails, WorkerDies
<1> QED BY <1>1, <1>2, <1>3, <1>4, <1>5, <1>6, <1>7, <1>8, <1>9 DEF Proceed, Disturb

-----------------------------------------------------------------------------
(* The stepping request: actions that leave its text alone *)

\* The text of r and the policy's verdict on it stay.
LEMMA ContentKept ==
    ASSUME NEW r \in Requests, Typed(r), Text(r), call'[r] = call[r], missed'[r] = missed[r], found'[r] = found[r],
           tokens'[r] = tokens[r], sent'[r] = sent[r], pc'[r] \in Labels, forwarded'[r] \in BOOLEAN
    PROVE  Typed(r)' /\ Text(r)' /\ (Permitted(r)' <=> Permitted(r))
<1>1. Typed(r)'
  BY DEF Typed
<1>2. TextOf(call'[r], found'[r], tokens'[r], sent'[r])
  BY DEF Text
<1>3. Permitted(r)' <=> Permitted(r)
  BY DEF Permitted, Overlooked
<1> QED BY <1>1, <1>2, <1>3 DEF Text

\* A refused request has done nothing but to answer.
LEMMA RefuseKeeps ==
    ASSUME Shape, NEW r \in Requests, InvOf(r), Refuse(r)
    PROVE  InvOf(r)'
<1> USE DEF Shape, InvOf, Refuse, Goto, reqVars, dbVars
<1>1. Typed(r)' /\ Text(r)' /\ (Permitted(r)' <=> Permitted(r))
  BY ContentKept DEF Typed, Labels
<1>2. Stage(r)'
  BY <1>1 DEF Typed, Stage, Generating, Faithful
<1>3. Records(r)'
  BY DEF Records, Stage, Generating, Expected, Event
<1>4. Audited(r)'
  BY DEF Audited, Stage, Records, Generating, Expected, Event
<1> QED BY <1>1, <1>2, <1>3, <1>4

\* A request without text is permitted: nothing is found in it.
LEMMA CreateSessionKeeps ==
    ASSUME Shape, NEW r \in Requests, InvOf(r), CreateSession(r)
    PROVE  InvOf(r)'
<1> USE DEF Shape, InvOf, CreateSession, Goto, reqVars, dbVars, HasTexts
<1>1. Typed(r)' /\ Text(r)' /\ (Permitted(r)' <=> Permitted(r))
  BY ContentKept DEF Typed, Labels
<1>2. Stage(r)'
  BY <1>1 DEF Typed, Stage, Generating, Faithful, Permitted, Overlooked, Occurrences, NoTokens
<1>3. Records(r)'
  BY DEF Records, Stage, Generating, Expected, Event
<1>4. Audited(r)'
  BY DEF Audited, Stage, Records, Generating, Expected, Event
<1> QED BY <1>1, <1>2, <1>3, <1>4

\* What the LLM-NER pass sends is admitted and asked for by the configuration.
LEMMA AskLlmKeeps ==
    ASSUME Shape, NEW r \in Requests, InvOf(r), AskLlm(r)
    PROVE  InvOf(r)'
<1> USE DEF Shape, InvOf, AskLlm, Goto, dbVars
<1>1. Typed(r)' /\ Text(r)' /\ (Permitted(r)' <=> Permitted(r))
  BY ContentKept DEF Typed, Labels
<1>2. Stage(r)'
  <2>1. disclosed'[r] # {} => Admitted(call[r]) /\ call[r].llm_ner
    BY DEF Enabled, Stage
  <2> QED BY <1>1, <2>1 DEF Typed, Stage, Generating, Faithful
<1>3. Records(r)'
  BY DEF Records, Stage, Generating, Expected, Event
<1>4. Audited(r)'
  BY DEF Audited, Stage, Records, Generating, Expected, Event
<1> QED BY <1>1, <1>2, <1>3, <1>4

\* No suffix is free: the request ends unrecorded.
LEMMA AllocationFailsKeeps ==
    ASSUME Shape, NEW r \in Requests, InvOf(r), NEW tok \in Tokens, AllocationFails(r, tok)
    PROVE  InvOf(r)'
<1> USE DEF Shape, InvOf, AllocationFails, Raise, Goto, reqVars
<1>1. Typed(r)' /\ Text(r)' /\ (Permitted(r)' <=> Permitted(r))
  BY ContentKept DEF Typed, Labels
<1>2. Stage(r)'
  BY <1>1 DEF Typed, Stage, Generating, Faithful
<1>3. Records(r)'
  BY DEF Records, Stage, Generating, Expected, Event
<1>4. Audited(r)'
  BY DEF Audited, Stage, Records, Generating, Expected, Event
<1> QED BY <1>1, <1>2, <1>3, <1>4

\* A failed statement ends the request unrecorded.
LEMMA DatabaseFailsKeeps ==
    ASSUME Shape, NEW r \in Requests, InvOf(r), DatabaseFails(r)
    PROVE  InvOf(r)'
<1> USE DEF Shape, InvOf, DatabaseFails, Raise, Fault, Goto, reqVars
<1>1. Typed(r)' /\ Text(r)' /\ (Permitted(r)' <=> Permitted(r))
  BY ContentKept DEF Typed, Labels
<1>2. Stage(r)'
  BY <1>1 DEF Typed, Stage, Generating, Faithful
<1>3. Records(r)'
  BY DEF Records, Stage, Generating, Expected, Event
<1>4. Audited(r)'
  BY DEF Audited, Stage, Records, Generating, Expected, Event
<1> QED BY <1>1, <1>2, <1>3, <1>4

\* So does an unexpected failure upstream.
LEMMA ProviderRaisesKeeps ==
    ASSUME Shape, NEW r \in Requests, InvOf(r), ProviderRaises(r)
    PROVE  InvOf(r)'
<1> USE DEF Shape, InvOf, ProviderRaises, Raise, Fault, Goto, reqVars
<1>1. Typed(r)' /\ Text(r)' /\ (Permitted(r)' <=> Permitted(r))
  BY ContentKept DEF Typed, Labels
<1>2. Stage(r)'
  BY <1>1 DEF Typed, Stage, Generating, Faithful
<1>3. Records(r)'
  BY DEF Records, Stage, Generating, Expected, Event
<1>4. Audited(r)'
  BY DEF Audited, Stage, Records, Generating, Expected, Event
<1> QED BY <1>1, <1>2, <1>3, <1>4

\* What goes upstream was permitted and is complete.
LEMMA ForwardKeeps ==
    ASSUME Shape, NEW r \in Requests, InvOf(r), Forward(r)
    PROVE  InvOf(r)'
<1> USE DEF Shape, InvOf, Forward, Goto, dbVars
<1>1. Typed(r)' /\ Text(r)' /\ (Permitted(r)' <=> Permitted(r))
  BY ContentKept DEF Typed, Labels
<1>2. Stage(r)'
  BY <1>1 DEF Typed, Stage, Generating, Faithful
<1>3. Records(r)'
  BY DEF Records, Stage, Generating, Expected, Event
<1>4. Audited(r)'
  BY DEF Audited, Stage, Records, Generating, Expected, Event
<1> QED BY <1>1, <1>2, <1>3, <1>4

\* A provider that fails leaves the request forwarded.
LEMMA ProviderFailsKeeps ==
    ASSUME Shape, NEW r \in Requests, InvOf(r), ProviderFails(r)
    PROVE  InvOf(r)'
<1> USE DEF Shape, InvOf, ProviderFails, Goto, reqVars, dbVars
<1>1. Typed(r)' /\ Text(r)' /\ (Permitted(r)' <=> Permitted(r))
  BY ContentKept DEF Typed, Labels
<1>2. Stage(r)'
  BY <1>1 DEF Typed, Stage, Generating, Faithful
<1>3. Records(r)'
  BY DEF Records, Stage, Generating, Expected, Event
<1>4. Audited(r)'
  BY DEF Audited, Stage, Records, Generating, Expected, Event
<1> QED BY <1>1, <1>2, <1>3, <1>4

\* The draft says what happened.
LEMMA SafeAuditKeeps ==
    ASSUME Shape, NEW r \in Requests, InvOf(r), SafeAudit(r)
    PROVE  InvOf(r)'
<1> USE DEF Shape, InvOf, SafeAudit, Goto, dbVars
<1>1. Typed(r)' /\ Text(r)' /\ (Permitted(r)' <=> Permitted(r))
  BY ContentKept DEF Typed, Labels
<1>2. Stage(r)'
  BY <1>1 DEF Typed, Stage, Generating, Faithful
<1>3. Records(r)'
  BY DEF Records, Stage, Generating, Expected, Event
<1>4. Audited(r)'
  BY DEF Audited, Stage, Records, Generating, Expected, Event
<1> QED BY <1>1, <1>2, <1>3, <1>4

\* An audit that fails is a fault.
LEMMA SafeAuditFailsKeeps ==
    ASSUME Shape, NEW r \in Requests, InvOf(r), SafeAuditFails(r)
    PROVE  InvOf(r)'
<1> USE DEF Shape, InvOf, SafeAuditFails, Fault, Goto, reqVars, dbVars
<1>1. Typed(r)' /\ Text(r)' /\ (Permitted(r)' <=> Permitted(r))
  BY ContentKept DEF Typed, Labels
<1>2. Stage(r)'
  BY <1>1 DEF Typed, Stage, Generating, Faithful
<1>3. Records(r)'
  BY DEF Records, Stage, Generating, Expected, Event
<1>4. Audited(r)'
  BY DEF Audited, Stage, Records, Generating, Expected, Event
<1> QED BY <1>1, <1>2, <1>3, <1>4

\* A commit records the session, its tokens and the draft at once.
LEMMA CommitKeeps ==
    ASSUME Shape, NEW r \in Requests, InvOf(r), Commit(r)
    PROVE  InvOf(r)'
<1> USE DEF Shape, InvOf, Commit, Persist, Goto, reqVars
<1>b. /\ r \notin sessions /\ events[r] = << >>
      /\ resolved[r] = None => draft[r] = Expected(r)
      /\ resolved[r] # None => draft[r] = None
  BY DEF Records, Stage, Generating
<1>c. Expected(r) \in Events /\ Expected(r) # None /\ Expected(r).session \in {r, None}
  BY ExpectedIsEvent
<1>d. /\ r \in sessions' /\ token_map'[r] = tokens[r]
      /\ events'[r] = IF resolved[r] = None THEN << Expected(r) >> ELSE << >>
  <2>1. Append(<< >>, Expected(r)) = << Expected(r) >>
    OBVIOUS
  <2> QED BY <1>b, <1>c, <2>1
<1>1. Typed(r)' /\ Text(r)' /\ (Permitted(r)' <=> Permitted(r))
  BY ContentKept DEF Typed, Labels
<1>2. Stage(r)'
  BY <1>1 DEF Typed, Stage, Generating, Faithful
<1>3. Records(r)'
  BY <1>c, <1>d DEF Records, Stage, Generating
<1>4. Audited(r)'
  BY <1>b, <1>d DEF Audited, Stage, Expected
<1> QED BY <1>1, <1>2, <1>3, <1>4

\* A transaction that was aborted records nothing.
LEMMA RollBackKeeps ==
    ASSUME Shape, NEW r \in Requests, InvOf(r), CommitRollsBack(r) \/ CommitRefused(r)
    PROVE  InvOf(r)'
<1> USE DEF Shape, InvOf, CommitRollsBack, CommitRefused, Raise, Goto, reqVars, dbVars
<1>1. Typed(r)' /\ Text(r)' /\ (Permitted(r)' <=> Permitted(r))
  BY ContentKept DEF Typed, Labels
<1>2. Stage(r)'
  BY <1>1 DEF Typed, Stage, Generating, Faithful
<1>3. Records(r)'
  BY DEF Records, Stage, Generating, Expected, Event
<1>4. Audited(r)'
  BY DEF Audited, Stage, Records, Generating, Expected, Event
<1> QED BY <1>1, <1>2, <1>3, <1>4

\* A commit whose connection fails records all or nothing.
LEMMA CommitFailsKeeps ==
    ASSUME Shape, NEW r \in Requests, InvOf(r), CommitFails(r)
    PROVE  InvOf(r)'
<1> USE DEF Shape, InvOf, CommitFails, Fault, Persist, Goto, reqVars, dbVars
<1>b. /\ r \notin sessions /\ events[r] = << >>
      /\ resolved[r] = None => draft[r] = Expected(r)
      /\ resolved[r] # None => draft[r] = None
  BY DEF Records, Stage, Generating
<1>c. Expected(r) \in Events /\ Expected(r) # None /\ Expected(r).session \in {r, None}
  BY ExpectedIsEvent
<1>d. \/ UNCHANGED dbVars
      \/ /\ r \in sessions' /\ token_map'[r] = tokens[r]
         /\ events'[r] = IF resolved[r] = None THEN << Expected(r) >> ELSE << >>
  <2>1. Append(<< >>, Expected(r)) = << Expected(r) >>
    OBVIOUS
  <2> QED BY <1>b, <1>c, <2>1
<1>1. Typed(r)' /\ Text(r)' /\ (Permitted(r)' <=> Permitted(r))
  BY ContentKept DEF Typed, Labels
<1>2. Stage(r)'
  BY <1>1 DEF Typed, Stage, Generating, Faithful
<1>3. Records(r)'
  <2>1. CASE UNCHANGED dbVars
    BY <1>b, <2>1 DEF Records, Stage, Generating
  <2>2. CASE ~ UNCHANGED dbVars
    BY <1>c, <1>d, <2>2 DEF Records, Stage, Generating
  <2> QED BY <2>1, <2>2
<1>4. Audited(r)'
  BY DEF Audited, Stage, Records, Generating, Expected, Event
<1> QED BY <1>1, <1>2, <1>3, <1>4

\* The snapshot of a stream is the token map of its session.
LEMMA PrepareStreamKeeps ==
    ASSUME Shape, NEW r \in Requests, InvOf(r), PrepareStream(r)
    PROVE  InvOf(r)'
<1> USE DEF Shape, InvOf, PrepareStream, Goto, dbVars
<1>a. tokens[r] # None
  BY MapIsSomething DEF Typed
<1>1. Typed(r)' /\ Text(r)' /\ (Permitted(r)' <=> Permitted(r))
  BY ContentKept DEF Typed, Labels
<1>2. Stage(r)'
  BY <1>1, <1>a DEF Typed, Stage, Generating, Faithful, Records
<1>3. Records(r)'
  BY <1>a DEF Records, Stage, Generating, Expected
<1>4. Audited(r)'
  BY DEF Audited, Stage, Records, Generating, Expected, Event
<1> QED BY <1>1, <1>2, <1>3, <1>4

\* A stream that ends was forwarded.
LEMMA StreamEndsKeeps ==
    ASSUME Shape, NEW r \in Requests, InvOf(r), StreamEnds(r)
    PROVE  InvOf(r)'
<1> USE DEF Shape, InvOf, StreamEnds, Goto, dbVars
<1>1. Typed(r)' /\ Text(r)' /\ (Permitted(r)' <=> Permitted(r))
  BY ContentKept DEF Typed, Labels
<1>2. Stage(r)'
  BY <1>1 DEF Typed, Stage, Generating, Faithful
<1>3. Records(r)'
  BY DEF Records, Stage, Generating, Expected, Event
<1>4. Audited(r)'
  BY DEF Audited, Stage, Records, Generating, Expected, Event
<1> QED BY <1>1, <1>2, <1>3, <1>4

\* A stream that breaks off ends the request.
LEMMA StreamBreaksKeeps ==
    ASSUME Shape, NEW r \in Requests, InvOf(r), StreamRaises(r) \/ Disconnect(r)
    PROVE  InvOf(r)'
<1> USE DEF Shape, InvOf, StreamRaises, Disconnect, Fault, Goto, dbVars
<1>1. Typed(r)' /\ Text(r)' /\ (Permitted(r)' <=> Permitted(r))
  BY ContentKept DEF Typed, Labels
<1>2. Stage(r)'
  BY <1>1 DEF Typed, Stage, Generating, Faithful
<1>3. Records(r)'
  BY DEF Records, Stage, Generating, Expected, Event
<1>4. Audited(r)'
  <2>1. pc'[r] = "closed" /\ faults'[r] # {} /\ txn'[r] = txn[r]
    OBVIOUS
  <2> QED BY <2>1 DEF Audited
<1> QED BY <1>1, <1>2, <1>3, <1>4

\* The event of a stream is linked to its session.
LEMMA SafeAuditFreshKeeps ==
    ASSUME Shape, NEW r \in Requests, InvOf(r), SafeAuditFresh(r)
    PROVE  InvOf(r)'
<1> USE DEF Shape, InvOf, SafeAuditFresh, AppendFresh, Goto, reqVars
<1>a. Link(r) \in {r, None} /\ Event(FALSE, Link(r)) \in Events /\ Event(FALSE, Link(r)).session = Link(r)
  BY EventIsSomething DEF Link, Event
<1>b. resolved[r] # None /\ r \in sessions /\ status[r] = "200"
  BY DEF Stage, Generating
<1>1. Typed(r)' /\ Text(r)' /\ (Permitted(r)' <=> Permitted(r))
  BY ContentKept DEF Typed, Labels
<1>2. Stage(r)'
  BY <1>1 DEF Typed, Stage, Generating, Faithful
<1>3. Records(r)'
  BY <1>a, <1>b DEF Records, Stage, Generating, Event
<1>4. Audited(r)'
  <2>1. faults[r] = {} => events[r] = << >> /\ Link(r) = r
    BY DEF Audited, Link
  <2>2. faults[r] = {} => events'[r] = << Event(FALSE, r) >>
    <3>1. Append(<< >>, Event(FALSE, r)) = << Event(FALSE, r) >>
      OBVIOUS
    <3> QED BY <2>1, <3>1 DEF Records
  <2> QED BY <1>b, <2>2 DEF Audited
<1> QED BY <1>1, <1>2, <1>3, <1>4

\* An attempt that fails is a fault.
LEMMA SafeAuditFreshFailsKeeps ==
    ASSUME Shape, NEW r \in Requests, InvOf(r), SafeAuditFreshFails(r)
    PROVE  InvOf(r)'
<1> USE DEF Shape, InvOf, SafeAuditFreshFails, AppendFresh, Fault, Goto, reqVars, dbVars
<1>a. Link(r) \in {r, None} /\ Event(FALSE, Link(r)) \in Events /\ Event(FALSE, Link(r)).session = Link(r)
  BY EventIsSomething DEF Link, Event
<1>b. resolved[r] # None /\ r \in sessions /\ status[r] = "200"
  BY DEF Stage, Generating
<1>1. Typed(r)' /\ Text(r)' /\ (Permitted(r)' <=> Permitted(r))
  BY ContentKept DEF Typed, Labels
<1>2. Stage(r)'
  BY <1>1 DEF Typed, Stage, Generating, Faithful
<1>3. Records(r)'
  <2>1. CASE UNCHANGED dbVars
    BY <1>b, <2>1 DEF Records, Stage, Generating
  <2>2. CASE AppendFresh(r)
    <3>1. /\ events'[r] = Append(events[r], Event(FALSE, Link(r)))
          /\ sessions' = sessions /\ token_map' = token_map
      BY <2>2 DEF Records
    <3>2. events[r] \in Seq(Events) /\ \A i \in 1 .. Len(events[r]) : events[r][i].session \in {r, None}
      BY DEF Records
    <3>3. events'[r] \in Seq(Events) /\ \A i \in 1 .. Len(events'[r]) : events'[r][i].session \in {r, None}
      <4> DEFINE e == Event(FALSE, Link(r))
      <4>1. e \in Events /\ e.session \in {r, None} /\ events'[r] = Append(events[r], e)
        BY <1>a, <3>1
      <4> HIDE DEF e, SafeAuditFreshFails, AppendFresh, InvOf, Goto, Fault, reqVars, Shape
      <4>2. /\ Append(events[r], e) \in Seq(Events)
            /\ \A i \in 1 .. Len(Append(events[r], e)) : Append(events[r], e)[i].session \in {r, None}
        BY <3>2, <4>1, AppendKeeps
      <4> QED BY <4>1, <4>2
    <3>4. /\ pc'[r] \in {"audit_unlinked", "closed"} /\ tokens' = tokens /\ draft' = draft
          /\ resolved'[r] # None /\ r \in sessions' /\ token_map'[r] = tokens[r]
      BY <1>b, <3>1 DEF Records
    <3>5. pc'[r] = "audit_unlinked" => draft[r] = None
      BY DEF Records
    <3> HIDE DEF SafeAuditFreshFails, AppendFresh, InvOf, Goto, Fault, reqVars, Shape
    <3> QED BY <3>3, <3>4, <3>5 DEF Records, Generating
  <2> QED BY <2>1, <2>2
<1>4. Audited(r)'
  BY DEF Audited, Stage, Records, Generating, Expected, Event
<1> QED BY <1>1, <1>2, <1>3, <1>4

\* A worker that dies leaves what was committed.
LEMMA WorkerDiesKeeps ==
    ASSUME Shape, NEW r \in Requests, InvOf(r), WorkerDies(r)
    PROVE  InvOf(r)'
<1> USE DEF Shape, InvOf, WorkerDies, Fault, Goto, reqVars, dbVars
<1>1. Typed(r)' /\ Text(r)' /\ (Permitted(r)' <=> Permitted(r))
  BY ContentKept DEF Typed, Labels
<1>2. Stage(r)'
  BY <1>1 DEF Typed, Stage, Generating, Faithful
<1>3. Records(r)'
  BY DEF Records, Stage, Generating, Expected, Event
<1>4. Audited(r)'
  BY DEF Audited, Stage, Records, Generating, Expected, Event
<1> QED BY <1>1, <1>2, <1>3, <1>4

\* What an answer shows for a placeholder is what the token map says.
LEMMA CompleteKeeps ==
    ASSUME Shape, NEW r \in Requests, InvOf(r), NEW p \in Placeholders, NEW place \in Places, Complete(r, p, place)
    PROVE  InvOf(r)'
<1> USE DEF Shape, InvOf, Complete, Goto, dbVars, Answer
<1>1. Typed(r)' /\ Text(r)' /\ (Permitted(r)' <=> Permitted(r))
  BY ContentKept DEF Typed, Labels
<1>2. Stage(r)'
  <2>1. \A answer \in got'[r] : Faithful(r, answer)'
    BY DEF Stage, Faithful
  <2> QED BY <1>1, <2>1 DEF Typed, Stage, Generating, Faithful
<1>3. Records(r)'
  BY DEF Records, Stage, Generating, Expected, Event
<1>4. Audited(r)'
  BY DEF Audited, Stage, Records, Generating, Expected, Event
<1> QED BY <1>1, <1>2, <1>3, <1>4

\* In a stream it is what the snapshot says, which is the token map.
LEMMA StreamChunkKeeps ==
    ASSUME Shape, NEW r \in Requests, InvOf(r), NEW p \in Placeholders, NEW place \in Places,
           NEW cut \in BOOLEAN, StreamChunk(r, p, place, cut)
    PROVE  InvOf(r)'
<1> USE DEF Shape, InvOf, StreamChunk, dbVars, Answer
<1>1. Typed(r)' /\ Text(r)' /\ (Permitted(r)' <=> Permitted(r))
  BY ContentKept DEF Typed, Labels
<1>2. Stage(r)'
  <2>0. \A a \in got[r] : Faithful(r, a)
    BY DEF Stage
  <2>a. resolved[r] = tokens[r]
    BY DEF Stage, Generating
  <2>1. \A a \in got'[r] : Faithful(r, a)'
    BY <2>0, <2>a DEF Faithful, IsRead
  <2> QED BY <1>1, <2>1 DEF Typed, Stage, Generating, Faithful
<1>3. Records(r)'
  BY DEF Records, Stage, Generating, Expected, Event
<1>4. Audited(r)'
  BY DEF Audited, Stage, Records, Generating, Expected, Event
<1> QED BY <1>1, <1>2, <1>3, <1>4

-----------------------------------------------------------------------------
(* The stepping request: detection and tokenisation *)

\* What detection found, and what it missed.
LEMMA DetectionIsTyped ==
    ASSUME NEW c, NEW m, NEW f \in Detected(c, m)
    PROVE  /\ DOMAIN f \subseteq Occurrences(c) /\ \A i \in DOMAIN f : f[i] \in Types
           /\ \A i \in Occurrences(c) \ DOMAIN f :
                  \A p \in Enabled(c) : TypesBy(c, p, i) # {} => <<p, i>> \in m
<1>1. f \in [{i \in Occurrences(c) : Reports(c, m, i) # {}} -> Types]
  BY DEF Detected
<1>2. DOMAIN f = {i \in Occurrences(c) : Reports(c, m, i) # {}} /\ \A i \in DOMAIN f : f[i] \in Types
  BY <1>1
<1>3. ASSUME NEW i \in Occurrences(c), Reports(c, m, i) = {}, NEW p \in Enabled(c), TypesBy(c, p, i) # {}
      PROVE  <<p, i>> \in m
  BY <1>3, Zenon DEF Reports
<1> QED BY <1>2, <1>3

\* A request that is not blocked has passed every gate.
LEMMA DetectKeeps ==
    ASSUME Shape, NEW r \in Requests, InvOf(r), Detect(r)
    PROVE  InvOf(r)'
<1> USE DEF Shape, InvOf, Goto, dbVars
<1>1. /\ sent[r] = << >> /\ tokens[r] = << >> /\ Admitted(call[r]) /\ r \notin sessions
      /\ ~forwarded[r] /\ got[r] = {} /\ resolved[r] = None /\ status[r] = "none"
      /\ pc[r] = "detect" /\ (disclosed[r] # {} => call[r].llm_ner)
  BY DEF Detect, Stage, NoTokens, Records, Generating
<1>2. PICK m \in Misses(call[r]) : \E f \in Detected(call[r], m) :
        /\ missed' = [missed EXCEPT ![r] = m]
        /\ found' = [found EXCEPT ![r] = f]
        /\ IF HardBlocked(call[r], {f[i] : i \in DOMAIN f})
           THEN /\ status' = [status EXCEPT ![r] = "422"]
                /\ Goto(r, "audit")
           ELSE /\ Goto(r, IF call[r].spans = << >> THEN "dispatch" ELSE "tokenize")
                /\ UNCHANGED status
  BY DEF Detect
<1>3. PICK f \in Detected(call[r], m) :
        /\ missed' = [missed EXCEPT ![r] = m]
        /\ found' = [found EXCEPT ![r] = f]
        /\ IF HardBlocked(call[r], {f[i] : i \in DOMAIN f})
           THEN /\ status' = [status EXCEPT ![r] = "422"]
                /\ Goto(r, "audit")
           ELSE /\ Goto(r, IF call[r].spans = << >> THEN "dispatch" ELSE "tokenize")
                /\ UNCHANGED status
  BY <1>2
<1>4. /\ call' = call /\ disclosed' = disclosed /\ tokens' = tokens /\ sent' = sent /\ forwarded' = forwarded
      /\ resolved' = resolved /\ got' = got /\ draft' = draft /\ txn' = txn
      /\ sessions' = sessions /\ token_map' = token_map /\ events' = events /\ faults' = faults
  BY DEF Detect
<1>5. /\ found'[r] = f /\ missed'[r] = m /\ pc'[r] \in {"audit", "dispatch", "tokenize"}
      /\ DOMAIN f \subseteq Occurrences(call[r]) /\ \A i \in DOMAIN f : f[i] \in Types
      /\ \A i \in Occurrences(call[r]) \ DOMAIN f :
             \A p \in Enabled(call[r]) : TypesBy(call[r], p, i) # {} => <<p, i>> \in m
  BY <1>3, DetectionIsTyped
<1>6. Typed(r)'
  BY <1>4, <1>5 DEF Typed, Labels
<1>7. Text(r)'
  <2>1. Len(call[r].spans) \in Nat
    BY SpansAreTyped
  <2>2. TextOf(call'[r], found'[r], tokens'[r], sent'[r])
    BY <1>1, <1>4, <2>1 DEF TextOf
  <2> QED BY <2>2 DEF Text
<1>8. Stage(r)'
  <2>1. ~HardBlocked(call[r], {f[i] : i \in DOMAIN f}) => Permitted(r)'
    BY <1>1, <1>4, <1>5 DEF HardBlocked, Permitted, Overlooked, Admitted, Authenticated, ProviderAllowed, ReadPayload
  <2>2. call[r].spans = << >> \/ 0 < Len(call[r].spans)
    <3>1. call[r].spans \in Seq([text : Nat, value : Values])
      BY DEF Typed, CallType
    <3> QED BY <3>1
  <2>3. \/ pc'[r] = "audit" /\ status'[r] = "422"
        \/ /\ pc'[r] \in {"dispatch", "tokenize"} /\ status'[r] = "none" /\ Permitted(r)'
           /\ pc'[r] = "dispatch" <=> call[r].spans = << >>
    BY <1>1, <1>3, <2>1
  <2> QED BY <1>1, <1>4, <1>5, <2>2, <2>3 DEF Stage, Generating
<1>9. Records(r)'
  BY <1>1, <1>4, <1>5 DEF Records, Generating
<1>10. Audited(r)'
  BY <1>1, <1>4, <1>5 DEF Audited
<1> QED BY <1>6, <1>7, <1>8, <1>9, <1>10

\* The text grows by the next occurrence, k: one that was not found as it is.
LEMMA TextGrowsRaw ==
    ASSUME NEW c, NEW f, NEW t, NEW X, NEW s \in Seq(X), NEW x, NEW k,
           TextOf(c, f, t, s), Len(c.spans) \in Nat, Len(s) < Len(c.spans),
           k = Len(s) + 1, k \notin DOMAIN f, x = c.spans[k].value
    PROVE  TextOf(c, f, t, Append(s, x))
<1>1. /\ Len(Append(s, x)) = Len(s) + 1
      /\ \A i \in 1 .. Len(s) + 1 : Append(s, x)[i] = IF i = Len(s) + 1 THEN x ELSE s[i]
  OBVIOUS
<1>2. ASSUME NEW i \in 1 .. Len(s) + 1
      PROVE  IF i \in DOMAIN f
             THEN At(c, f, i) \in DOMAIN t /\ Append(s, x)[i] = t[At(c, f, i)]
             ELSE Append(s, x)[i] = c.spans[i].value
  <2>1. CASE i = Len(s) + 1
    BY <1>1, <2>1
  <2>2. CASE i # Len(s) + 1
    <3>1. i \in 1 .. Len(s)
      BY <2>2
    <3> QED BY <1>1, <2>2, <3>1 DEF TextOf
  <2> QED BY <2>1, <2>2
<1>3. ASSUME NEW y \in DOMAIN t
      PROVE  \E i \in 1 .. Len(s) + 1 : i \in DOMAIN f /\ At(c, f, i) = y
  <2>1. PICK i \in 1 .. Len(s) : i \in DOMAIN f /\ At(c, f, i) = y
    BY DEF TextOf
  <2> QED BY <2>1
<1> QED BY <1>1, <1>2, <1>3 DEF TextOf

\* One that was found as the placeholder of its entity e, an old one or a new one
\* that stands for nothing else.
LEMMA TextGrows ==
    ASSUME NEW c, NEW f, NEW t, NEW u, NEW X, NEW s \in Seq(X), NEW e, NEW k,
           TextOf(c, f, t, s), Len(c.spans) \in Nat, Len(s) < Len(c.spans),
           k = Len(s) + 1, k \in DOMAIN f, e = At(c, f, k),
           DOMAIN u = DOMAIN t \cup {e}, \A y \in DOMAIN t : u[y] = t[y], u[e][1] = e[1],
           e \in DOMAIN t \/ (\A y \in DOMAIN t : t[y] # u[e])
    PROVE  TextOf(c, f, u, Append(s, u[e]))
<1> DEFINE x == u[e]
<1>1. /\ Len(Append(s, x)) = Len(s) + 1
      /\ \A i \in 1 .. Len(s) + 1 : Append(s, x)[i] = IF i = Len(s) + 1 THEN x ELSE s[i]
  OBVIOUS
<1>2. ASSUME NEW i \in 1 .. Len(s) + 1
      PROVE  IF i \in DOMAIN f
             THEN At(c, f, i) \in DOMAIN u /\ Append(s, x)[i] = u[At(c, f, i)]
             ELSE Append(s, x)[i] = c.spans[i].value
  <2>1. CASE i = Len(s) + 1
    BY <1>1, <2>1
  <2>2. CASE i # Len(s) + 1
    <3>1. i \in 1 .. Len(s)
      BY <2>2
    <3> HIDE DEF x
    <3> QED BY <1>1, <2>2, <3>1 DEF TextOf
  <2> QED BY <2>1, <2>2
<1>3. ASSUME NEW y \in DOMAIN u PROVE \E i \in 1 .. Len(s) + 1 : i \in DOMAIN f /\ At(c, f, i) = y
  <2>1. CASE y \in DOMAIN t
    <3>1. PICK i \in 1 .. Len(s) : i \in DOMAIN f /\ At(c, f, i) = y
      BY <2>1 DEF TextOf
    <3> QED BY <3>1
  <2>2. CASE y = e
    BY <2>2
  <2> QED BY <2>1, <2>2
<1>4. ASSUME NEW y \in DOMAIN u, NEW z \in DOMAIN u, u[y] = u[z] PROVE y = z
  BY <1>4 DEF TextOf
<1>5. \A y \in DOMAIN u : u[y][1] = y[1]
  BY DEF TextOf
<1> HIDE DEF x
<1>6. TextOf(c, f, u, Append(s, x))
  BY <1>1, <1>2, <1>3, <1>4, <1>5 DEF TextOf
<1> QED BY <1>6 DEF x

\* A value no pass found in its text stays as it is.
LEMMA KeepSpanKeeps ==
    ASSUME Shape, NEW r \in Requests, InvOf(r), KeepSpan(r)
    PROVE  InvOf(r)'
<1> USE DEF Shape, InvOf, KeepSpan, Emit, Goto, dbVars
<1> DEFINE k == NextPlace(r)
<1> DEFINE e == NextEntity(r)
<1>1. /\ Permitted(r) /\ Len(sent[r]) < Len(call[r].spans) /\ r \notin sessions
      /\ ~forwarded[r] /\ got[r] = {} /\ resolved[r] = None /\ status[r] = "none"
      /\ (disclosed[r] # {} => Admitted(call[r]) /\ call[r].llm_ner)
  BY DEF Stage, Records, Generating
<1>2. sent[r] \in Seq(Placeholders \cup Values) /\ Len(call[r].spans) \in Nat
  BY SpansAreTyped DEF Typed
<1>3. k = Len(sent[r]) + 1 /\ k \in Occurrences(call[r]) /\ call[r].spans[k].value \in Values
  <2>1. k = Len(sent[r]) + 1 /\ k \in Occurrences(call[r])
    BY <1>1, <1>2 DEF NextPlace, Occurrences
  <2> QED BY <2>1, SpansAreTyped
<1>4. /\ call'[r] = call[r] /\ found'[r] = found[r] /\ sent'[r] = Append(sent[r], call[r].spans[k].value)
      /\ k \notin DOMAIN found[r] /\ tokens'[r] = tokens[r]
  OBVIOUS
<1>5. Typed(r)'
  <2>1. pc'[r] \in Labels /\ forwarded'[r] = forwarded[r]
    BY DEF Labels, Typed
  <2> HIDE DEF k, e, Shape, KeepSpan, Emit, Goto
  <2>2. IsMap(tokens'[r])
    BY <1>3, <1>4 DEF Typed, IsMap
  <2>3. sent'[r] \in Seq(Placeholders \cup Values)
    BY <1>2, <1>3, <1>4 DEF Typed, IsMap
  <2> QED BY <1>4, <2>1, <2>2, <2>3 DEF Typed
<1>6. Text(r)'
  <2>1. TextOf(call[r], found[r], tokens[r], sent[r])
    BY DEF Text
  <2> HIDE DEF k, e, Shape, InvOf, KeepSpan, Emit, Goto
  <2>2. TextOf(call[r], found[r], tokens'[r], Append(sent[r], call[r].spans[k].value))
    BY <1>1, <1>2, <1>3, <1>4, <2>1, TextGrowsRaw
  <2>3. call'[r] = call[r] /\ found'[r] = found[r] /\ sent'[r] = Append(sent[r], call[r].spans[k].value)
    BY <1>4
  <2> QED BY <2>2, <2>3 DEF Text
<1>7. Stage(r)'
  <2>1. Permitted(r)'
    BY <1>1 DEF Permitted, Overlooked
  <2>2. Len(sent'[r]) = Len(sent[r]) + 1
    BY <1>2, <1>4
  <2> QED BY <1>1, <1>2, <2>1, <2>2 DEF Stage, Generating
<1>8. Records(r)'
  BY <1>1 DEF Records, Generating
<1>9. Audited(r)'
  BY <1>1 DEF Audited
<1> QED BY <1>5, <1>6, <1>7, <1>8, <1>9

\* A value seen before gets its placeholder again.
LEMMA ReuseTokenKeeps ==
    ASSUME Shape, NEW r \in Requests, InvOf(r), ReuseToken(r)
    PROVE  InvOf(r)'
<1> USE DEF Shape, InvOf, ReuseToken, Emit, Goto, dbVars
<1> DEFINE k == NextPlace(r)
<1> DEFINE e == NextEntity(r)
<1>1. /\ Permitted(r) /\ Len(sent[r]) < Len(call[r].spans) /\ r \notin sessions
      /\ ~forwarded[r] /\ got[r] = {} /\ resolved[r] = None /\ status[r] = "none"
      /\ (disclosed[r] # {} => Admitted(call[r]) /\ call[r].llm_ner)
  BY DEF Stage, Records, Generating
<1>2. sent[r] \in Seq(Placeholders \cup Values) /\ Len(call[r].spans) \in Nat
  BY SpansAreTyped DEF Typed
<1>3. k = Len(sent[r]) + 1 /\ k \in Occurrences(call[r]) /\ call[r].spans[k].value \in Values
  <2>1. k = Len(sent[r]) + 1 /\ k \in Occurrences(call[r])
    BY <1>1, <1>2 DEF NextPlace, Occurrences
  <2> QED BY <2>1, SpansAreTyped
<1>a. e = At(call[r], found[r], k)
  BY DEF NextEntity, EntityAt, At
<1>b. k \in DOMAIN found[r] => e \in Entities
  BY <1>a, SpansAreTyped
<1>4. /\ call'[r] = call[r] /\ found'[r] = found[r] /\ sent'[r] = Append(sent[r], tokens'[r][e])
      /\ k \in DOMAIN found[r] /\ e \in DOMAIN tokens[r] /\ tokens'[r] = tokens[r]
  OBVIOUS
<1>5. Typed(r)'
  <2>1. pc'[r] \in Labels /\ forwarded'[r] = forwarded[r]
    BY DEF Labels, Typed
  <2> HIDE DEF k, e, Shape, ReuseToken, Emit, Goto
  <2>2. IsMap(tokens'[r])
    BY <1>3, <1>4 DEF Typed, IsMap
  <2>3. sent'[r] \in Seq(Placeholders \cup Values)
    BY <1>2, <1>3, <1>4 DEF Typed, IsMap
  <2> QED BY <1>4, <2>1, <2>2, <2>3 DEF Typed
<1>6. Text(r)'
  <2>1. TextOf(call[r], found[r], tokens[r], sent[r])
    BY DEF Text
  <2> HIDE DEF k, e, Shape, InvOf, ReuseToken, Emit, Goto
  <2>2. TextOf(call[r], found[r], tokens'[r], Append(sent[r], tokens'[r][e]))
    <3>1. tokens'[r][e][1] = e[1] /\ DOMAIN tokens'[r] = DOMAIN tokens[r] \cup {e}
      BY <1>4, <2>1 DEF TextOf
    <3> QED BY <1>1, <1>2, <1>3, <1>a, <1>4, <2>1, <3>1, TextGrows
  <2>3. call'[r] = call[r] /\ found'[r] = found[r] /\ sent'[r] = Append(sent[r], tokens'[r][e])
    BY <1>4
  <2> QED BY <2>2, <2>3 DEF Text
<1>7. Stage(r)'
  <2>1. Permitted(r)'
    BY <1>1 DEF Permitted, Overlooked
  <2>2. Len(sent'[r]) = Len(sent[r]) + 1
    BY <1>2, <1>4
  <2> QED BY <1>1, <1>2, <2>1, <2>2 DEF Stage, Generating
<1>8. Records(r)'
  BY <1>1 DEF Records, Generating
<1>9. Audited(r)'
  BY <1>1 DEF Audited
<1> QED BY <1>5, <1>6, <1>7, <1>8, <1>9

\* A new placeholder stands for nothing else.
LEMMA AllocateTokenKeeps ==
    ASSUME Shape, NEW r \in Requests, InvOf(r), NEW tok \in Tokens, AllocateToken(r, tok)
    PROVE  InvOf(r)'
<1> USE DEF Shape, InvOf, AllocateToken, Emit, Goto, dbVars
<1> DEFINE k == NextPlace(r)
<1> DEFINE e == NextEntity(r)
<1>1. /\ Permitted(r) /\ Len(sent[r]) < Len(call[r].spans) /\ r \notin sessions
      /\ ~forwarded[r] /\ got[r] = {} /\ resolved[r] = None /\ status[r] = "none"
      /\ (disclosed[r] # {} => Admitted(call[r]) /\ call[r].llm_ner)
  BY DEF Stage, Records, Generating
<1>2. sent[r] \in Seq(Placeholders \cup Values) /\ Len(call[r].spans) \in Nat
  BY SpansAreTyped DEF Typed
<1>3. k = Len(sent[r]) + 1 /\ k \in Occurrences(call[r]) /\ call[r].spans[k].value \in Values
  <2>1. k = Len(sent[r]) + 1 /\ k \in Occurrences(call[r])
    BY <1>1, <1>2 DEF NextPlace, Occurrences
  <2> QED BY <2>1, SpansAreTyped
<1>a. e = At(call[r], found[r], k)
  BY DEF NextEntity, EntityAt, At
<1>b. k \in DOMAIN found[r] => e \in Entities
  BY <1>a, SpansAreTyped
<1> DEFINE p == <<e[1], tok>>
<1>c. k \in DOMAIN found[r] /\ e \notin DOMAIN tokens[r] /\ p \notin Used(r)
  OBVIOUS
<1>d. p \in Placeholders /\ p[1] = e[1] /\ e \in Entities
  <2> HIDE DEF e
  <2>1. e[1] \in Types /\ e \in Entities
    BY <1>b, <1>c DEF Entities
  <2> QED BY <2>1 DEF Placeholders
<1>4. /\ call'[r] = call[r] /\ found'[r] = found[r] /\ sent'[r] = Append(sent[r], tokens'[r][e])
      /\ DOMAIN tokens'[r] = DOMAIN tokens[r] \cup {e} /\ tokens'[r][e] = p
      /\ \A y \in DOMAIN tokens[r] : tokens'[r][y] = tokens[r][y] /\ tokens[r][y] # p
      /\ tokens'[r] \in [DOMAIN tokens'[r] -> Placeholders] /\ DOMAIN tokens'[r] \subseteq Entities
  <2>1. /\ call'[r] = call[r] /\ found'[r] = found[r] /\ sent'[r] = Append(sent[r], p)
        /\ tokens'[r] = [x \in DOMAIN tokens[r] \cup {e} |-> IF x = e THEN p ELSE tokens[r][x]]
    BY Zenon
  <2>2. IsMap(tokens[r])
    BY DEF Typed
  <2> HIDE DEF e, p, Shape, InvOf, AllocateToken, Emit, Goto
  <2> QED BY <2>1, <2>2, <1>c, <1>d DEF Used, IsMap
<1>5. Typed(r)'
  <2>1. pc'[r] \in Labels /\ forwarded'[r] = forwarded[r]
    BY DEF Labels, Typed
  <2> HIDE DEF k, e, p, Shape, AllocateToken, Emit, Goto
  <2>2. IsMap(tokens'[r])
    BY <1>3, <1>4 DEF Typed, IsMap
  <2>3. sent'[r] \in Seq(Placeholders \cup Values)
    BY <1>2, <1>3, <1>4 DEF Typed, IsMap
  <2> QED BY <1>4, <2>1, <2>2, <2>3 DEF Typed
<1>6. Text(r)'
  <2>1. TextOf(call[r], found[r], tokens[r], sent[r])
    BY DEF Text
  <2> HIDE DEF k, e, p, Shape, InvOf, AllocateToken, Emit, Goto
  <2>2. TextOf(call[r], found[r], tokens'[r], Append(sent[r], tokens'[r][e]))
    <3>1. tokens'[r][e][1] = e[1] /\ \A y \in DOMAIN tokens[r] : tokens[r][y] # tokens'[r][e]
      BY <1>4, <1>d
    <3> QED BY <1>1, <1>2, <1>3, <1>a, <1>c, <1>4, <2>1, <3>1, TextGrows
  <2>3. call'[r] = call[r] /\ found'[r] = found[r] /\ sent'[r] = Append(sent[r], tokens'[r][e])
    BY <1>4
  <2> QED BY <2>2, <2>3 DEF Text
<1>7. Stage(r)'
  <2>1. Permitted(r)'
    BY <1>1 DEF Permitted, Overlooked
  <2>2. Len(sent'[r]) = Len(sent[r]) + 1
    BY <1>2, <1>4
  <2> QED BY <1>1, <1>2, <2>1, <2>2 DEF Stage, Generating
<1>8. Records(r)'
  BY <1>1 DEF Records, Generating
<1>9. Audited(r)'
  BY <1>1 DEF Audited
<1> QED BY <1>5, <1>6, <1>7, <1>8, <1>9

-----------------------------------------------------------------------------
(* The theorems *)

LEMMA InitEstablishes == Init => IInv
<1> SUFFICES ASSUME Init PROVE IInv
  OBVIOUS
<1>1. Shape
  BY DEF Init, Shape
<1>2. ASSUME NEW r \in Requests PROVE InvOf(r)
  <2>1. call[r] \in CallType /\ (~call[r].texts => call[r].spans = << >>)
    BY GatewayAssumption DEF Init
  <2>2. Len(call[r].spans) \in Nat
    BY <2>1 DEF CallType
  <2>3. /\ pc[r] = "start" /\ disclosed[r] = {} /\ found[r] = << >> /\ tokens[r] = << >> /\ sent[r] = << >>
        /\ forwarded[r] = FALSE /\ resolved[r] = None /\ got[r] = {} /\ status[r] = "none"
        /\ txn[r] = "closed" /\ draft[r] = None /\ sessions = {} /\ token_map[r] = << >>
        /\ events[r] = << >> /\ faults[r] = {}
    BY DEF Init, NoTokens
  <2>4. Typed(r)
    <3>1. DOMAIN tokens[r] = {}
      BY <2>3
    <3>2. tokens[r] \in [{} -> Placeholders]
      BY <2>3
    <3>3. IsMap(tokens[r])
      BY <3>1, <3>2 DEF IsMap
    <3>4. sent[r] \in Seq(Placeholders \cup Values)
      BY <2>3
    <3>5. DOMAIN found[r] = {}
      BY <2>3
    <3> QED BY <2>1, <2>3, <3>3, <3>4, <3>5 DEF Typed, Labels
  <2>5. Text(r)
    BY <2>2, <2>3 DEF Text, TextOf
  <2>6. Stage(r) /\ Records(r) /\ Audited(r)
    BY <2>3 DEF Stage, Records, Audited, Generating, NoTokens
  <2> QED BY <2>4, <2>5, <2>6 DEF InvOf
<1> QED BY <1>1, <1>2 DEF IInv

LEMMA StepKeeps == IInv /\ [Next]_vars => IInv'
<1>1. ASSUME IInv, NEW r \in Requests, Proceed(r) \/ Disturb(r) PROVE IInv'
  <2> USE <1>1 DEF IInv
  <2>1. Shape' /\ \A u \in Requests \ {r} : Same(u)
    BY Frame
  <2>2. \A u \in Requests \ {r} : InvOf(u)'
    BY <2>1, SameKeeps
  <2>3. InvOf(r)'
    <3>1. CASE Proceed(r)
      BY <3>1, RefuseKeeps, CreateSessionKeeps, AskLlmKeeps, DetectKeeps, KeepSpanKeeps, ReuseTokenKeeps,
         AllocateTokenKeeps, ForwardKeeps, CompleteKeeps, ProviderFailsKeeps, SafeAuditKeeps,
         CommitKeeps, PrepareStreamKeeps, StreamChunkKeeps, StreamEndsKeeps, SafeAuditFreshKeeps
         DEF Proceed
    <3>2. CASE Disturb(r)
      BY <3>2, AllocationFailsKeeps, DatabaseFailsKeeps, ProviderRaisesKeeps,
         SafeAuditFailsKeeps, RollBackKeeps, CommitFailsKeeps, StreamBreaksKeeps,
         SafeAuditFreshFailsKeeps, WorkerDiesKeeps
         DEF Disturb
    <3> QED BY <3>1, <3>2
  <2> QED BY <2>1, <2>2, <2>3
<1>2. ASSUME IInv, UNCHANGED vars PROVE IInv'
  <2>1. Shape' /\ \A u \in Requests : Same(u)
    BY <1>2 DEF IInv, Shape, Same, vars
  <2> QED BY <1>2, <2>1, SameKeeps DEF IInv
<1> QED BY <1>1, <1>2 DEF Next

\* The invariant of the gateway, request by request.
THEOREM Invariance == Spec => []IInv
BY InitEstablishes, StepKeeps, PTL DEF Spec

\* Whatever fails, nothing goes upstream that the policy forbids and no detected
\* value stands in it (_handle, sanitize_request).
THEOREM SanitizedUpstream == Spec => []UpstreamIsSanitized
<1>1. IInv => UpstreamIsSanitized
  BY InvariantImplies
<1> QED BY <1>1, Invariance, PTL

\* A client reads for a placeholder exactly the value its own request replaced
\* by it (detokenize, prepare_stream_reinflation).
THEOREM ReinflatedExactly == Spec => []ReinflationExact
<1>1. IInv => ReinflationExact
  BY InvariantImplies
<1> QED BY <1>1, Invariance, PTL

\* What upstream saw of a recorded session can be read again from the recorded
\* token map (pg_store.py).
THEOREM SentCanBeRead == Spec => []SentIsRecoverable
<1>1. IInv => SentIsRecoverable
  BY InvariantImplies
<1> QED BY <1>1, Invariance, PTL

\* Session, tokens and event of a request are recorded together or not at all
\* (get_session, _safe_audit).
THEOREM RecordedAsOne == Spec => []RecordedTogether
<1>1. IInv => RecordedTogether
  BY InvariantImplies
<1> QED BY <1>1, Invariance, PTL

\* A request that nothing disturbed leaves the one event that is true of it
\* (_safe_audit, _safe_audit_fresh).
THEOREM EventsAreTrue == Spec => []AuditedOnce
<1>1. IInv => AuditedOnce
  BY InvariantImplies
<1> QED BY <1>1, Invariance, PTL
===============================================================================
