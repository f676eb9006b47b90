SPECIFICATION FairSpec
CONSTANTS
    r1 = r1
    r2 = r2
    v1 = v1
    v2 = v2
    v3 = v3
    person = person
    account = account
    custom = custom
    pack = pack
    llm = llm
    Requests = {r1, r2}
    Values = {v1, v2, v3}
    Types = {person, account, custom}
    ReadableTypes = {person, account}
    ShortTypes = {person}
    Passes = {pack, llm}
    Packs = {pack}
    LlmPass = llm
    Recognises <- MCRecognises
    Tokens = {x1, x2}
    Calls <- PairCalls
    MaxChunks <- PairChunks
    Faults <- PairFaults
    None = None
INVARIANTS UpstreamIsSanitized ReinflationExact SentIsRecoverable RecordedTogether AuditedOnce
PROPERTIES ForwardedIsAudited
CHECK_DEADLOCK FALSE
