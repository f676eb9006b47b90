------------------------------- MODULE Gateway -------------------------------
(***************************************************************************)
(* The life of proxied requests: routes/proxy.py over redaction/pipeline.py, *)
(* redaction/policy.py, redaction/vault.py, redaction/pg_store.py and db.py. *)
(*                                                                          *)
(* A request authenticates, is checked against the policy, opens one        *)
(* redaction session, has its entities replaced by placeholders, is sent    *)
(* upstream, and has the placeholders of the answer replaced back.  All its *)
(* database writes are one transaction, which the dependency get_session    *)
(* ends after the handler has returned and before the response is sent.  A  *)
(* streamed answer is produced after that, by a generator that works from a *)
(* snapshot of the token map and writes its audit event in a transaction of *)
(* its own.                                                                  *)
(*                                                                          *)
(* Data is abstract.  The texts of a request are the values that occur in    *)
(* them, text after text, in the order tokenize visits them.  Detection runs *)
(* on every text by itself, and a pass may fail on one and succeed on        *)
(* another: what is found is a type for some of the occurrences.  An entity  *)
(* is a (type, value) pair, and a keyed fingerprint is the pair (session,    *)
(* entity) itself.  A session id is a fresh UUID, so the session of request  *)
(* r is called r.  The audit log is the abstract one of AuditLog: an event   *)
(* is in the log once its transaction commits (AuditChain implements this).  *)
(***************************************************************************)
EXTENDS Naturals, Sequences, Functions

CONSTANTS
    Requests,      \* requests in flight; also the ids of their sessions
    Values,        \* strings of the texts that some detection pass may report
    Types,         \* entity types
    ReadableTypes, \* those whose placeholders PLACEHOLDER_RE matches
    ShortTypes,    \* those of them whose placeholders fit MAX_PLACEHOLDER_LEN
    Passes,        \* detection passes: regex packs, Presidio, LLM-NER
    Packs,         \* the regex packs among them
    LlmPass,       \* the LLM-NER pass
    Recognises,    \* Recognises[p]: the entities pass p knows
    Tokens,        \* values of the hex suffix of a placeholder
    Calls,         \* Calls[r]: what request r may be, see CallType
    MaxChunks,     \* MaxChunks[r]: bound on the chunks of its stream
    Faults,        \* Faults[r]: the kinds of fault that may hit request r
    None           \* absent placeholder, session link or event

FaultKinds == {"database", "audit", "upstream", "client", "worker"}

\* auth: the key is valid (or none is required); allowed: the policy permits the
\* active provider; json: the body is a JSON object; texts: it holds redactable
\* text; spans: the values in the texts, with the number of their text; stream:
\* it asks for a stream; llm_ner: the LLM-NER pass is switched on.
CallType == [auth : BOOLEAN, allowed : BOOLEAN, json : BOOLEAN, texts : BOOLEAN,
             spans : Seq([text : Nat, value : Values]), stream : BOOLEAN, llm_ner : BOOLEAN,
             mode : {"tokenize", "mask", "hard_block"}, blocked_types : SUBSET Types]

Entities     == Types \X Values
Placeholders == Types \X Tokens

\* Where an answer can mention a placeholder: in the content of its first choice,
\* or in tool calls, function calls, content that is not a string, other choices.
Places == {"content", "elsewhere"}

\* The audit events about a request.
Events == [blocked : BOOLEAN, session : Requests \cup {None}]

ASSUME GatewayAssumption ==
    /\ ShortTypes \subseteq ReadableTypes /\ ReadableTypes \subseteq Types
    /\ Packs \subseteq Passes /\ LlmPass \notin Packs
    /\ Recognises \in [Passes -> SUBSET Entities]
    /\ DOMAIN Calls = Requests
    /\ \A r \in Requests : \A c \in Calls[r] : c \in CallType /\ (~c.texts => c.spans = << >>)
    /\ MaxChunks \in [Requests -> Nat]
    /\ Faults \in [Requests -> SUBSET FaultKinds]
    /\ None \notin Requests \cup Placeholders \cup Values \cup Events
    /\ \A D \in SUBSET Entities : None \notin [D -> Placeholders]
    /\ Values \cap Placeholders = {}

VARIABLES
    pc,          \* pc[r]: where request r is
    call,        \* call[r]: the request itself
    disclosed,   \* disclosed[r]: values the LLM-NER pass has sent to the provider
    missed,      \* missed[r]: <<pass, occurrence>> that detection overlooked
    found,       \* found[r]: occurrence -> type, of what was detected
    tokens,      \* tokens[r]: entity -> placeholder rows its transaction sees
    sent,        \* sent[r]: the sanitized texts so far, values or placeholders
    forwarded,   \* forwarded[r]: the sanitized text has gone upstream
    resolved,    \* resolved[r]: token map snapshot of a stream, None before it
    chunks,      \* chunks[r]: chunks streamed so far
    got,         \* got[r]: placeholders of the answer and what the client reads
    status,      \* status[r]: the response status, "none" before there is one
    txn,         \* txn[r]: its transaction: "open", "aborted" or "closed"
    draft,       \* draft[r]: audit event written in its transaction, or None
    sessions,    \* committed redaction_session rows
    token_map,   \* token_map[r]: committed rows of session r
    events,      \* events[r]: committed audit events about request r
    faults       \* faults[r]: the kinds of fault that hit request r so far

dbVars  == <<sessions, token_map, events>>
reqVars == <<call, disclosed, missed, found, tokens, sent, forwarded, resolved, chunks, got, draft>>
vars    == <<pc, call, disclosed, missed, found, tokens, sent, forwarded, resolved,
             chunks, got, status, txn, draft, sessions, token_map, events, faults>>

-----------------------------------------------------------------------------
(* Policy, placeholders, audit events *)

\* evaluate(): HARD_BLOCK mode refuses everything, otherwise a blocked type.
HardBlocked(c, types) ==
    c.mode = "hard_block" \/ types \cap c.blocked_types # {}

Occurrences(c) == 1 .. Len(c.spans)

\* The passes that run on request c.
Enabled(c) == {p \in Passes : p = LlmPass => c.llm_ner}

\* The types that pass p knows the value of occurrence i by.
TypesBy(c, p, i) == {ty \in Types : <<ty, c.spans[i].value>> \in Recognises[p]}

\* What detection may overlook.  A pass that raises reports nothing of that text;
\* short of it a regex pack reports all it knows, Presidio and LLM-NER what they
\* judge or remember to report.
Misses(c) ==
    {m \in SUBSET {x \in Enabled(c) \X Occurrences(c) : TypesBy(c, x[1], x[2]) # {}} :
        \A p \in Packs : \A i, j \in Occurrences(c) :
            c.spans[i].text = c.spans[j].text /\ <<p, i>> \in m /\ TypesBy(c, p, j) # {} => <<p, j>> \in m}

\* The types reported for an occurrence.
Reports(c, m, i) == UNION {TypesBy(c, p, i) : p \in {q \in Enabled(c) : <<q, i>> \notin m}}

\* Detector.detect on every text: of the reports on one place merge_spans keeps one
\* (MergeSpans says which).  filter_spans keeps all: resolve_policy always sets
\* redact_types to None.
Detected(c, m) ==
    {f \in [{i \in Occurrences(c) : Reports(c, m, i) # {}} -> Types] :
        \A i \in DOMAIN f : f[i] \in Reports(c, m, i)}

\* The fingerprint of a detected occurrence.
EntityAt(r, i) == <<found[r][i], call[r].spans[i].value>>

Used(r) == {tokens[r][e] : e \in DOMAIN tokens[r]}

\* detokenize and _resolve: a placeholder the map does not hold is left alone.
Resolve(map, p) ==
    IF \E e \in DOMAIN map : map[e] = p
    THEN (CHOOSE e \in DOMAIN map : map[e] = p)[2]
    ELSE p

\* reinflate and the generator look at the content of the first choice alone, and
\* there at what PLACEHOLDER_RE matches.
IsRead(place, p) == place = "content" /\ p[1] \in ReadableTypes

Answer(place, p, map) ==
    [place |-> place, placeholder |-> p, read |-> IF IsRead(place, p) THEN Resolve(map, p) ELSE p]

Event(isBlocked, link) == [blocked |-> isBlocked, session |-> link]

NoTokens == << >>

-----------------------------------------------------------------------------
Init ==
    /\ pc = [r \in Requests |-> "start"]
    /\ call \in {f \in [Requests -> UNION Range(Calls)] : \A r \in Requests : f[r] \in Calls[r]}
    /\ disclosed = [r \in Requests |-> {}]
    /\ missed = [r \in Requests |-> {}]
    /\ found = [r \in Requests |-> NoTokens]
    /\ tokens = [r \in Requests |-> NoTokens]
    /\ sent = [r \in Requests |-> << >>]
    /\ forwarded = [r \in Requests |-> FALSE]
    /\ resolved = [r \in Requests |-> None]
    /\ chunks = [r \in Requests |-> 0]
    /\ got = [r \in Requests |-> {}]
    /\ status = [r \in Requests |-> "none"]
    /\ txn = [r \in Requests |-> "closed"]
    /\ draft = [r \in Requests |-> None]
    /\ sessions = {}
    /\ token_map = [r \in Requests |-> NoTokens]
    /\ events = [r \in Requests |-> << >>]
    /\ faults = [r \in Requests |-> {}]

Goto(r, l) == pc' = [pc EXCEPT ![r] = l]
Fault(r, kind) == kind \in Faults[r] /\ faults' = [faults EXCEPT ![r] = @ \cup {kind}]

\* An exception leaves the handler: get_session rolls back, the client gets 500.
Raise(r) ==
    /\ Goto(r, "closed")
    /\ status' = [status EXCEPT ![r] = "500"]
    /\ txn' = [txn EXCEPT ![r] = "closed"]
    /\ UNCHANGED <<sessions, token_map, events>>

-----------------------------------------------------------------------------
(* Gates and sanitisation *)

\* authenticate: no key is required, or the bearer token is that of a live key.
Authenticated(c) == c.auth

\* The allow-list of the policy is empty or names the provider.
ProviderAllowed(c) == c.allowed

\* _read_payload: the body is a JSON object.
ReadPayload(c) == c.json

\* extract_texts finds something to redact.
HasTexts(c) == c.texts

Admitted(c) == Authenticated(c) /\ ProviderAllowed(c) /\ ReadPayload(c)

\* authenticate raises; _handle refuses the provider or the body.
Refuse(r) ==
    /\ pc[r] = "start"
    /\ ~Admitted(call[r])
    /\ Goto(r, "closed")
    /\ status' = [status EXCEPT ![r] = IF Authenticated(call[r]) THEN "400" ELSE "500"]
    /\ UNCHANGED <<reqVars, dbVars, txn, faults>>

\* sanitize_request opens the session.  Without redactable text it returns here,
\* before the policy is evaluated.
CreateSession(r) ==
    /\ pc[r] = "start"
    /\ Admitted(call[r])
    /\ txn' = [txn EXCEPT ![r] = "open"]
    /\ Goto(r, IF HasTexts(call[r]) THEN "ask" ELSE "dispatch")
    /\ UNCHANGED <<reqVars, dbVars, status, faults>>

\* With LLM-NER switched on, detection begins with the texts as they are going to
\* the provider, before the policy has been evaluated.
AskLlm(r) ==
    /\ pc[r] = "ask"
    /\ disclosed' = [disclosed EXCEPT ![r] =
                        IF LlmPass \in Enabled(call[r])
                        THEN {call[r].spans[i].value : i \in Occurrences(call[r])}
                        ELSE {}]
    /\ Goto(r, "detect")
    /\ UNCHANGED <<call, missed, found, tokens, sent, forwarded, resolved, chunks, got,
                   draft, status, txn, dbVars, faults>>

\* Mutant: the types of the first text alone are evaluated.
DetectFirstText(r) ==
    /\ pc[r] = "detect"
    /\ \E m \in Misses(call[r]) : \E f \in Detected(call[r], m) :
        /\ missed' = [missed EXCEPT ![r] = m]
        /\ found' = [found EXCEPT ![r] = f]
        /\ IF HardBlocked(call[r], {f[i] : i \in {j \in DOMAIN f : call[r].spans[j].text = 1}})
           THEN /\ status' = [status EXCEPT ![r] = "422"]
                /\ Goto(r, "audit")
           ELSE /\ Goto(r, IF call[r].spans = << >> THEN "dispatch" ELSE "tokenize")
                /\ UNCHANGED status
    /\ UNCHANGED <<call, disclosed, tokens, sent, forwarded, resolved, chunks, got, draft,
                   txn, dbVars, faults>>

\* Detection of all texts, then evaluate over the union of the types found.
Detect(r) ==
    /\ pc[r] = "detect"
    /\ \E m \in Misses(call[r]) : \E f \in Detected(call[r], m) :
        /\ missed' = [missed EXCEPT ![r] = m]
        /\ found' = [found EXCEPT ![r] = f]
        /\ IF HardBlocked(call[r], {f[i] : i \in DOMAIN f})
           THEN /\ status' = [status EXCEPT ![r] = "422"]
                /\ Goto(r, "audit")
           ELSE /\ Goto(r, IF call[r].spans = << >> THEN "dispatch" ELSE "tokenize")
                /\ UNCHANGED status
    /\ UNCHANGED <<call, disclosed, tokens, sent, forwarded, resolved, chunks, got, draft,
                   txn, dbVars, faults>>

\* The next span of tokenize becomes x.
Emit(r, x) ==
    /\ sent' = [sent EXCEPT ![r] = Append(@, x)]
    /\ Goto(r, IF Len(sent[r]) + 1 = Len(call[r].spans) THEN "dispatch" ELSE "tokenize")

\* The occurrence that comes next, and its entity when it was detected.
NextPlace(r) == Len(sent[r]) + 1
NextEntity(r) == EntityAt(r, NextPlace(r))

\* No pass found it in this text: it stays as it is, found elsewhere or not.
KeepSpan(r) ==
    /\ pc[r] = "tokenize"
    /\ NextPlace(r) \notin DOMAIN found[r]
    /\ Emit(r, call[r].spans[NextPlace(r)].value)
    /\ UNCHANGED <<call, disclosed, missed, found, tokens, forwarded, resolved, chunks, got, draft,
                   status, txn, dbVars, faults>>

\* get_by_fingerprint finds the value: the same placeholder again.
ReuseToken(r) ==
    /\ pc[r] = "tokenize"
    /\ NextPlace(r) \in DOMAIN found[r]
    /\ NextEntity(r) \in DOMAIN tokens[r]
    /\ Emit(r, tokens[r][NextEntity(r)])
    /\ UNCHANGED <<call, disclosed, missed, found, tokens, forwarded, resolved, chunks, got, draft,
                   status, txn, dbVars, faults>>

\* Mutant: a drawn suffix is not looked up before it is used.
AllocateUnchecked(r, tok) ==
    LET e == NextEntity(r)
        p == <<e[1], tok>>
    IN  /\ pc[r] = "tokenize"
        /\ NextPlace(r) \in DOMAIN found[r]
        /\ e \notin DOMAIN tokens[r]
        /\ tokens' = [tokens EXCEPT ![r] =
                         [x \in DOMAIN tokens[r] \cup {e} |-> IF x = e THEN p ELSE tokens[r][x]]]
        /\ Emit(r, p)
        /\ UNCHANGED <<call, disclosed, missed, found, forwarded, resolved, chunks, got, draft,
                       status, txn, dbVars, faults>>

\* _allocate_placeholder draws a suffix get_by_placeholder does not know, and
\* put stores it.
AllocateToken(r, tok) ==
    LET e == NextEntity(r)
        p == <<e[1], tok>>
    IN  /\ pc[r] = "tokenize"
        /\ NextPlace(r) \in DOMAIN found[r]
        /\ e \notin DOMAIN tokens[r]
        /\ p \notin Used(r)
        /\ tokens' = [tokens EXCEPT ![r] =
                         [x \in DOMAIN tokens[r] \cup {e} |-> IF x = e THEN p ELSE tokens[r][x]]]
        /\ Emit(r, p)
        /\ UNCHANGED <<call, disclosed, missed, found, forwarded, resolved, chunks, got, draft,
                       status, txn, dbVars, faults>>

\* Every draw collided and the fallback suffix does too: the INSERT violates
\* UNIQUE(session_id, placeholder), which ON CONFLICT does not cover.
AllocationFails(r, tok) ==
    /\ pc[r] = "tokenize"
    /\ NextPlace(r) \in DOMAIN found[r]
    /\ NextEntity(r) \notin DOMAIN tokens[r]
    /\ <<NextEntity(r)[1], tok>> \in Used(r)
    /\ Raise(r)
    /\ UNCHANGED <<reqVars, faults>>

\* A statement of the session, the vault or the re-inflation fails.
DatabaseFails(r) ==
    /\ \/ pc[r] \in {"start", "tokenize", "upstream"}
       \/ pc[r] = "dispatch" /\ call[r].stream
    /\ Admitted(call[r])
    /\ Fault(r, "database")
    /\ Raise(r)
    /\ UNCHANGED reqVars

-----------------------------------------------------------------------------
(* Non-streaming answers *)

\* provider.complete is called with the sanitized payload.
Forward(r) ==
    /\ pc[r] = "dispatch"
    /\ ~call[r].stream
    /\ forwarded' = [forwarded EXCEPT ![r] = TRUE]
    /\ Goto(r, "upstream")
    /\ UNCHANGED <<call, disclosed, missed, found, tokens, sent, resolved, chunks, got, draft, status,
                   txn, dbVars, faults>>

\* Mutant: the lookup is not restricted to the session of the request.
CompleteUnscoped(r, p, place) ==
    /\ pc[r] = "upstream"
    /\ \E q \in Requests : got' = [got EXCEPT ![r] = @ \cup {Answer(place, p, tokens[q])}]
    /\ status' = [status EXCEPT ![r] = "200"]
    /\ Goto(r, "audit")
    /\ UNCHANGED <<call, disclosed, missed, found, tokens, sent, forwarded, resolved, chunks,
                   draft, txn, dbVars, faults>>

\* The completion mentions placeholder p; reinflate looks those of the content up in
\* the session and passes the rest of the completion on.
Complete(r, p, place) ==
    /\ pc[r] = "upstream"
    /\ got' = [got EXCEPT ![r] = @ \cup {Answer(place, p, tokens[r])}]
    /\ status' = [status EXCEPT ![r] = "200"]
    /\ Goto(r, "audit")
    /\ UNCHANGED <<call, disclosed, missed, found, tokens, sent, forwarded, resolved, chunks,
                   draft, txn, dbVars, faults>>

\* ProviderError: network failure, timeout, error status, invalid JSON.
ProviderFails(r) ==
    /\ pc[r] = "upstream"
    /\ status' = [status EXCEPT ![r] = "provider_error"]
    /\ Goto(r, "audit")
    /\ UNCHANGED <<reqVars, txn, dbVars, faults>>

\* Any other exception of an adapter is not caught by _handle.
ProviderRaises(r) ==
    /\ pc[r] = "upstream"
    /\ Fault(r, "upstream")
    /\ Raise(r)
    /\ UNCHANGED reqVars

\* _safe_audit writes the event in the request's own transaction.  A blocked
\* event has no session link.
SafeAudit(r) ==
    /\ pc[r] = "audit"
    /\ draft' = [draft EXCEPT ![r] =
                    IF status[r] = "422" THEN Event(TRUE, None) ELSE Event(FALSE, r)]
    /\ Goto(r, "commit")
    /\ UNCHANGED <<call, disclosed, missed, found, tokens, sent, forwarded, resolved, chunks, got, status,
                   txn, dbVars, faults>>

\* Mutant: the failed statement is undone alone and the transaction goes on.
SafeAuditFailsAlone(r) ==
    /\ pc[r] = "audit"
    /\ Fault(r, "audit")
    /\ Goto(r, "commit")
    /\ UNCHANGED <<reqVars, status, txn, dbVars>>

\* _safe_audit swallows the exception, but the transaction it shares with the
\* request is aborted.
SafeAuditFails(r) ==
    /\ pc[r] = "audit"
    /\ Fault(r, "audit")
    /\ txn' = [txn EXCEPT ![r] = "aborted"]
    /\ Goto(r, "commit")
    /\ UNCHANGED <<reqVars, status, dbVars>>

-----------------------------------------------------------------------------
(* The end of the request's transaction: get_session after the handler *)

Persist(r) ==
    /\ sessions' = sessions \cup {r}
    /\ token_map' = [token_map EXCEPT ![r] = tokens[r]]
    /\ events' = [events EXCEPT ![r] = IF draft[r] = None THEN @ ELSE Append(@, draft[r])]

\* The commit succeeds; then the response is sent, or the stream started.
Commit(r) ==
    /\ pc[r] = "commit"
    /\ txn[r] = "open"
    /\ Persist(r)
    /\ txn' = [txn EXCEPT ![r] = "closed"]
    /\ Goto(r, IF resolved[r] = None THEN "closed" ELSE "stream")
    /\ UNCHANGED <<reqVars, status, faults>>

\* COMMIT of a transaction a statement of which failed is a ROLLBACK that
\* PostgreSQL does not report as an error: the response goes out.
CommitRollsBack(r) ==
    /\ pc[r] = "commit"
    /\ txn[r] = "aborted"
    /\ txn' = [txn EXCEPT ![r] = "closed"]
    /\ Goto(r, "closed")
    /\ UNCHANGED <<reqVars, status, dbVars, faults>>

\* After a failed flush SQLAlchemy refuses to commit: the client gets 500.
CommitRefused(r) ==
    /\ pc[r] = "commit"
    /\ txn[r] = "aborted"
    /\ Raise(r)
    /\ UNCHANGED <<reqVars, faults>>

\* The connection fails during the commit, before or after it took effect.
CommitFails(r) ==
    /\ pc[r] = "commit"
    /\ txn[r] = "open"
    /\ Fault(r, "database")
    /\ Goto(r, "closed")
    /\ status' = [status EXCEPT ![r] = "500"]
    /\ txn' = [txn EXCEPT ![r] = "closed"]
    /\ Persist(r) \/ UNCHANGED dbVars
    /\ UNCHANGED reqVars

-----------------------------------------------------------------------------
(* Streamed answers *)

\* prepare_stream_reinflation takes the snapshot while the session is alive, and
\* the handler returns a StreamingResponse.
PrepareStream(r) ==
    /\ pc[r] = "dispatch"
    /\ call[r].stream
    /\ resolved' = [resolved EXCEPT ![r] = tokens[r]]
    /\ status' = [status EXCEPT ![r] = "200"]
    /\ Goto(r, "commit")
    /\ UNCHANGED <<call, disclosed, missed, found, tokens, sent, forwarded, chunks, got, draft, txn,
                   dbVars, faults>>

\* The generator calls provider.stream; a chunk mentions placeholder p.  One longer
\* than the hold limit may be cut, and is then passed on in pieces.
StreamChunk(r, p, place, cut) ==
    /\ pc[r] = "stream"
    /\ cut => p[1] \notin ShortTypes
    /\ chunks[r] < MaxChunks[r]
    /\ forwarded' = [forwarded EXCEPT ![r] = TRUE]
    /\ chunks' = [chunks EXCEPT ![r] = @ + 1]
    /\ got' = [got EXCEPT ![r] = @ \cup {Answer(IF cut THEN "elsewhere" ELSE place, p, resolved[r])}]
    /\ UNCHANGED <<pc, call, disclosed, missed, found, tokens, sent, resolved, draft, status, txn, dbVars, faults>>

\* Mutant: the generator returns after [DONE].
StreamEndsUnaudited(r) ==
    /\ pc[r] = "stream"
    /\ forwarded' = [forwarded EXCEPT ![r] = TRUE]
    /\ Goto(r, "closed")
    /\ UNCHANGED <<call, disclosed, missed, found, tokens, sent, resolved, chunks, got, draft, status,
                   txn, dbVars, faults>>

\* The stream ends or fails with ProviderError: [DONE], then the audit.
StreamEnds(r) ==
    /\ pc[r] = "stream"
    /\ forwarded' = [forwarded EXCEPT ![r] = TRUE]
    /\ Goto(r, "audit_linked")
    /\ UNCHANGED <<call, disclosed, missed, found, tokens, sent, resolved, chunks, got, draft, status,
                   txn, dbVars, faults>>

\* Any other exception passes through the finally clause and ends the generator
\* before the audit.
StreamRaises(r) ==
    /\ pc[r] = "stream"
    /\ Fault(r, "upstream")
    /\ forwarded' = [forwarded EXCEPT ![r] = TRUE]
    /\ Goto(r, "closed")
    /\ UNCHANGED <<call, disclosed, missed, found, tokens, sent, resolved, chunks, got, draft, status,
                   txn, dbVars>>

\* The client goes away: the task that runs the generator is cancelled, at a
\* chunk, at [DONE] or during the audit.
Disconnect(r) ==
    /\ pc[r] \in {"stream", "audit_linked", "audit_unlinked"}
    /\ Fault(r, "client")
    /\ forwarded' = [forwarded EXCEPT ![r] = TRUE]
    /\ Goto(r, "closed")
    /\ UNCHANGED <<call, disclosed, missed, found, tokens, sent, resolved, chunks, got, draft, status,
                   txn, dbVars>>

\* _safe_audit_fresh: first linked to the session, then unlinked.
Link(r) == IF pc[r] = "audit_linked" THEN r ELSE None

\* The foreign key of audit_event.session_id.
LinkExists(r) == Link(r) = None \/ Link(r) \in sessions

AppendFresh(r) ==
    /\ LinkExists(r)
    /\ events' = [events EXCEPT ![r] = Append(@, Event(FALSE, Link(r)))]
    /\ UNCHANGED <<sessions, token_map>>

\* Mutant: the loop does not return after the attempt that succeeded.
SafeAuditFreshTwice(r) ==
    /\ pc[r] \in {"audit_linked", "audit_unlinked"}
    /\ AppendFresh(r)
    /\ Goto(r, IF pc[r] = "audit_linked" THEN "audit_unlinked" ELSE "closed")
    /\ UNCHANGED <<reqVars, status, txn, faults>>

\* An attempt commits, and the loop returns.
SafeAuditFresh(r) ==
    /\ pc[r] \in {"audit_linked", "audit_unlinked"}
    /\ AppendFresh(r)
    /\ Goto(r, "closed")
    /\ UNCHANGED <<reqVars, status, txn, faults>>

\* An attempt fails, possibly after its commit took effect.
SafeAuditFreshFails(r) ==
    /\ pc[r] \in {"audit_linked", "audit_unlinked"}
    /\ Fault(r, "audit")
    /\ UNCHANGED dbVars \/ AppendFresh(r)
    /\ Goto(r, IF pc[r] = "audit_linked" THEN "audit_unlinked" ELSE "closed")
    /\ UNCHANGED <<reqVars, status, txn>>

-----------------------------------------------------------------------------
\* The worker process dies; the server rolls its transaction back.
WorkerDies(r) ==
    /\ pc[r] # "closed"
    /\ Fault(r, "worker")
    /\ txn' = [txn EXCEPT ![r] = "closed"]
    /\ Goto(r, "closed")
    /\ UNCHANGED <<reqVars, status, dbVars>>

\* The steps of the handler and of the generator when nothing fails.
Proceed(r) ==
    \/ Refuse(r)
    \/ CreateSession(r)
    \/ AskLlm(r)
    \/ Detect(r)
    \/ KeepSpan(r)
    \/ ReuseToken(r)
    \/ \E tok \in Tokens : AllocateToken(r, tok)
    \/ Forward(r)
    \/ \E p \in Placeholders, place \in Places : Complete(r, p, place)
    \/ ProviderFails(r)
    \/ SafeAudit(r)
    \/ Commit(r)
    \/ PrepareStream(r)
    \/ \E p \in Placeholders, place \in Places, cut \in BOOLEAN : StreamChunk(r, p, place, cut)
    \/ StreamEnds(r)
    \/ SafeAuditFresh(r)

Disturb(r) ==
    \/ \E tok \in Tokens : AllocationFails(r, tok)
    \/ DatabaseFails(r)
    \/ ProviderRaises(r)
    \/ SafeAuditFails(r)
    \/ CommitRollsBack(r)
    \/ CommitRefused(r)
    \/ CommitFails(r)
    \/ StreamRaises(r)
    \/ Disconnect(r)
    \/ SafeAuditFreshFails(r)
    \/ WorkerDies(r)

Next == \E r \in Requests : Proceed(r) \/ Disturb(r)

\* Handlers and generators are scheduled by the event loop, and upstream calls
\* have a timeout (upstream_timeout_seconds): a request that is not disturbed
\* goes on.
Fairness == \A r \in Requests : WF_vars(Proceed(r) \/ CommitRollsBack(r) \/ CommitRefused(r))

Spec == Init /\ [][Next]_vars

FairSpec == Spec /\ Fairness

-----------------------------------------------------------------------------
(* Properties *)

\* What leaves.  The proxied request was admitted by key and provider; hard_block
\* mode lets through only what has no redactable text, and no detected type is a
\* blocked one.  Every detected occurrence is a placeholder of its type, and one
\* that stands there as it is was overlooked in its own text by every enabled pass
\* that knows it - being found in another text does not help it.  Raw text leaves
\* beside the request only with LLM-NER switched on, but then also of a request
\* the policy goes on to block (_handle, Detector.detect, llm_ner, evaluate,
\* tokenize).
UpstreamIsSanitized ==
    \A r \in Requests :
        /\ forwarded[r] =>
            /\ Admitted(call[r])
            /\ call[r].mode = "hard_block" => ~HasTexts(call[r])
            /\ \A i \in DOMAIN found[r] : found[r][i] \notin call[r].blocked_types
            /\ Len(sent[r]) = Len(call[r].spans)
            /\ \A i \in Occurrences(call[r]) :
                \/ i \in DOMAIN found[r] /\ sent[r][i] \in {found[r][i]} \X Tokens
                \/ /\ sent[r][i] = call[r].spans[i].value
                   /\ \A p \in Enabled(call[r]) : TypesBy(call[r], p, i) # {} => <<p, i>> \in missed[r]
        /\ disclosed[r] # {} => Admitted(call[r]) /\ call[r].llm_ner

\* What the client reads for a placeholder.  In the content it is the value that
\* this very request replaced by it, also in a stream that outlives the
\* transaction; it stays the placeholder if the request replaced nothing by it
\* (one of another session), if PLACEHOLDER_RE does not match its type, or if it
\* stands anywhere else in the answer, tool-call arguments included, although those
\* of the request were tokenized.  In a stream one longer than the hold limit is
\* read right or not at all (detokenize, resolution_map, reinflate,
\* StreamDetokenizer._resolve).
ReinflationExact ==
    \A r \in Requests : \A answer \in got[r] :
        LET p == answer.placeholder
            places == {i \in 1 .. Len(sent[r]) : sent[r][i] = p}
        IN  /\ answer.read # p =>
                   /\ IsRead(answer.place, p) /\ places # {}
                   /\ \A i \in places : answer.read = call[r].spans[i].value
            /\ IsRead(answer.place, p) /\ places # {} => answer.read # p

\* What upstream saw of a committed session can be re-inflated from the
\* committed token map alone, and equal placeholders mean equal values
\* (referential consistency).  A streamed answer is only produced from a
\* committed session.
SentIsRecoverable ==
    \A r \in Requests :
        /\ r \in sessions =>
               \A i \in 1 .. Len(sent[r]) : i \in DOMAIN found[r] =>
                   Resolve(token_map[r], sent[r][i]) = call[r].spans[i].value
        /\ forwarded[r] /\ call[r].stream => r \in sessions

\* The session, its tokens and the audit event of an answer that is not
\* streamed are recorded together or not at all, whatever fails (get_session);
\* an event is linked only to a recorded session.
RecordedTogether ==
    \A r \in Requests :
        /\ r \in sessions /\ resolved[r] = None => Len(events[r]) = 1
        /\ r \notin sessions => events[r] = << >> /\ token_map[r] = NoTokens
        /\ \A i \in 1 .. Len(events[r]) : events[r][i].session \in sessions \cup {None}

\* An undisturbed request that ended left exactly one event, that says what
\* happened: forwarded and linked to its session, or blocked and unlinked.
AuditedOnce ==
    \A r \in Requests : pc[r] = "closed" /\ faults[r] = {} =>
        /\ forwarded[r] => events[r] = << Event(FALSE, r) >>
        /\ status[r] = "422" => events[r] = << Event(TRUE, None) >> /\ ~forwarded[r]

\* Every call that left the perimeter is eventually in the audit log, unless
\* the database, the upstream adapter, the client or the worker failed.
ForwardedIsAudited ==
    \A r \in Requests : forwarded[r] ~> (events[r] # << >> \/ faults[r] # {})
===============================================================================
