------------------------------- MODULE LabelBook -------------------------------
(***************************************************************************)
(* The labels of one desktop project: Anonymizer of desktop/engine.py over  *)
(* the entity, variant and document tables of desktop/vaultdb.py.           *)
(*                                                                          *)
(* A document is the sequence of the person mentions detected in it.  Each  *)
(* mention is resolved to an entity, by the fingerprint of its normal form  *)
(* or by linking it to the one entity it is compatible with, and is         *)
(* replaced by the entity's number, unless the entity is excluded.  The     *)
(* list of mentions is recorded under a digest of the sequence of labels,   *)
(* and is looked up there when the document comes back.                     *)
(*                                                                          *)
(* Requests run in threads; each call of the vault holds its lock, a        *)
(* request does not.  The tables are cached as Entity objects that requests *)
(* keep references to, so the model has a heap: an object is named by the   *)
(* load that made it and its number.  A fingerprint is modelled by what it  *)
(* is the keyed hash of: a normal form, or (prefix "surface:") a spelling.  *)
(***************************************************************************)
EXTENDS Naturals, Sequences, SequencesExt, FiniteSetsExt

CONSTANTS
    Threads,     \* request threads
    Surfaces,    \* spellings of person names
    norm,        \* [Surfaces -> normal forms]: normalize()
    meta,        \* [Surfaces -> parsed names]: parse_person()
    score,       \* [Surfaces -> Nat]: nominative_score()
    Texts,       \* the documents: sequences of spellings
    Events,      \* what else happens: "delete", "torn_delete", "exclude", "restart"
    MaxDocs,     \* bound on the documents recorded
    MaxBirths,   \* bound on the entities created
    MaxChanges,  \* bound on the user's changes
    None         \* absent part of a parsed name, no object

NameParts == {"s", "g", "p", "gs"}   \* surname stem, initials, given name stem

Norms == {norm[x] : x \in Surfaces}

\* The parts of the parsed names.
Parts == {meta[x][k] : x \in Surfaces, k \in NameParts}

\* A normal form has letters and blanks only, and a spelling is hashed with the prefix
\* "surface:", so no fingerprint is that of both.
ASSUME BookAssumption ==
    /\ norm \in [Surfaces -> Norms] /\ Norms \cap Surfaces = {}
    /\ meta \in [Surfaces -> [NameParts -> Parts]]
    /\ score \in [Surfaces -> Nat]
    /\ Texts \subseteq Seq(Surfaces) \ {<< >>}
    /\ Events \subseteq {"delete", "torn_delete", "exclude", "restart"}
    /\ MaxDocs \in Nat /\ MaxBirths \in Nat /\ MaxChanges \in Nat

VARIABLES
    pc,          \* pc[t]: where request t is in _resolve
    text,        \* text[t]: the document it anonymizes
    out,         \* out[t]: the mentions resolved so far: [n, birth, surface, kept]
    target,      \* target[t]: the object its mention is resolved to, or None
    old,         \* old[t]: the spelling it has replaced as canonical value
    entity,      \* entity rows by number: [fp, value, meta, excluded, birth]
    variant,     \* variant rows by fingerprint: [n, surface]
    load,        \* number of the last _load; its cache is present iff cached
    cached,
    heap,        \* the Entity objects, by <<load, number>>
    index,       \* _fp_index: fingerprint -> object
    documents,   \* document rows in order of creation: [surfaces, labels, births]
    births,      \* observed: entities created so far
    changes,     \* observed: the user's changes so far
    disturbed    \* observed: two requests overlapped, or a deletion was cut short

tables  == <<entity, variant>>
memory  == <<load, cached, heap, index>>
request == <<pc, text, out, target, old>>
vars    == <<pc, text, out, target, old, entity, variant, load, cached, heap, index, documents, births, changes, disturbed>>

Put(f, x, y)  == [z \in DOMAIN f \cup {x} |-> IF z = x THEN y ELSE f[z]]
Only(f, S)    == [z \in DOMAIN f \cap S |-> f[z]]
Without(f, S) == Only(f, DOMAIN f \ S)

\* _compatible: the same surname, and nothing that tells the two apart.
Compatible(a, b) ==
    /\ a["s"] # None /\ a["s"] = b["s"]
    /\ \A k \in NameParts : a[k] = None \/ b[k] = None \/ a[k] = b[k]

Merged(new, was) == [k \in NameParts |-> IF new[k] # None THEN new[k] ELSE was[k]]

-----------------------------------------------------------------------------
(* The vault's cache *)

VariantsOf(n) == {x \in DOMAIN variant : variant[x].n = n}

\* The objects _load makes of the rows; variants of a number that has no entity
\* are passed over.
FromRows(l) ==
    [id \in {<<l, n>> : n \in DOMAIN entity} |->
        LET n == id[2]
        IN  [n |-> n, fp |-> entity[n].fp, value |-> entity[n].value, meta |-> entity[n].meta,
             excluded |-> entity[n].excluded, birth |-> entity[n].birth,
             variants |-> [x \in VariantsOf(n) |-> variant[x].surface]]]

Union(f, g) == [x \in DOMAIN f \cup DOMAIN g |-> IF x \in DOMAIN g THEN g[x] ELSE f[x]]

\* The numbers whose entity has a fingerprint, as its own or as a variant's.
Claims(x) == {n \in DOMAIN entity : entity[n].fp = x \/ x \in VariantsOf(n)}

\* The indexes _load can make.  The rows come in the order of the fingerprint
\* index, that is of keyed hashes: any claim may be the one written last.
Indexes(l) ==
    LET known == {x \in Norms \cup Surfaces : Claims(x) # {}}
    IN  {f \in [known -> {<<l, n>> : n \in DOMAIN entity}] : \A x \in known : f[x][2] \in Claims(x)}

\* What is in memory once a call that begins with _load has loaded.  Objects that
\* no request refers to are gone.
Memories ==
    IF cached THEN {[load |-> load, heap |-> heap, index |-> index]}
    ELSE {[load  |-> load + 1,
           heap  |-> Union(Only(heap, Range(target)), FromRows(load + 1)),
           index |-> f] : f \in Indexes(load + 1)}

Keep(m) ==
    /\ load' = m.load
    /\ heap' = m.heap
    /\ index' = m.index
    /\ cached' = TRUE

\* The objects of the cache.
Cache(m) == {id \in DOMAIN m.heap : id[1] = m.load}

\* add_variant: INSERT OR IGNORE into the table, the object, and the index.
AddVariant(id, x, s) ==
    LET e   == heap[id]
        new == x # e.fp /\ x \notin DOMAIN e.variants
    IN  /\ variant' = IF new /\ x \notin DOMAIN variant THEN Put(variant, x, [n |-> e.n, surface |-> s])
                     ELSE variant
        /\ heap' = IF new THEN [heap EXCEPT ![id].variants = Put(@, x, s)] ELSE heap
        /\ index' = IF new /\ cached THEN Put(index, x, id) ELSE index
        /\ UNCHANGED <<load, cached>>

\* Its KeyError, when a deletion has dropped the project's index meanwhile.
VariantFails(id, x) == ~cached /\ x # heap[id].fp /\ x \notin DOMAIN heap[id].variants

-----------------------------------------------------------------------------
Init ==
    /\ pc = [t \in Threads |-> "idle"]
    /\ text = [t \in Threads |-> << >>]
    /\ out = [t \in Threads |-> << >>]
    /\ target = [t \in Threads |-> None]
    /\ old = [t \in Threads |-> None]
    /\ entity = << >>
    /\ variant = << >>
    /\ load = 0
    /\ cached = FALSE
    /\ heap = << >>
    /\ index = << >>
    /\ documents = << >>
    /\ births = 0
    /\ changes = 0
    /\ disturbed = FALSE

Mention(t) == text[t][Len(out[t]) + 1]

\* Some request other than t is in progress.
Busy(t) == \E u \in Threads \ {t} : pc[u] # "idle"

Goto(t, l) == pc' = [pc EXCEPT ![t] = l]

\* _resolve has returned an entity: the mention is replaced by its label, or left
\* alone when the entity is excluded.
Resolved(t, e) ==
    /\ out' = [out EXCEPT ![t] = Append(@, [n |-> e.n, birth |-> e.birth, surface |-> Mention(t),
                                            kept |-> ~e.excluded])]
    /\ target' = [target EXCEPT ![t] = None]
    /\ old' = [old EXCEPT ![t] = None]
    /\ Goto(t, IF Len(out[t]) + 1 = Len(text[t]) THEN "record" ELSE "lookup")
    /\ UNCHANGED text

\* The request is over, with an answer or with an error.
Leave(t) ==
    /\ Goto(t, "idle")
    /\ text' = [text EXCEPT ![t] = << >>]
    /\ out' = [out EXCEPT ![t] = << >>]
    /\ target' = [target EXCEPT ![t] = None]
    /\ old' = [old EXCEPT ![t] = None]

\* The detector reads the dictionary of the project, then finds the mentions.
Start(t, d) ==
    /\ pc[t] = "idle"
    /\ Len(documents) < MaxDocs
    /\ \E m \in Memories : Keep(m)
    /\ Goto(t, "lookup")
    /\ text' = [text EXCEPT ![t] = d]
    /\ disturbed' = (disturbed \/ Busy(t))
    /\ UNCHANGED <<out, target, old, tables, documents, births, changes>>

-----------------------------------------------------------------------------
(* _resolve *)

\* by_fingerprint finds the normal form.  A new spelling becomes a variant.
Found(t) ==
    /\ pc[t] = "lookup"
    /\ \E m \in Memories :
        /\ Keep(m)
        /\ norm[Mention(t)] \in DOMAIN m.index
        /\ LET id == m.index[norm[Mention(t)]]
               e  == m.heap[id]
           IN  IF Mention(t) \in {e.value} \cup Range(e.variants)
               THEN Resolved(t, e)
               ELSE /\ target' = [target EXCEPT ![t] = id]
                    /\ Goto(t, "spelling")
                    /\ UNCHANGED <<text, out, old>>
    /\ UNCHANGED <<tables, documents, births, changes, disturbed>>

\* Mutant: the lookup does not see the aliases.
MissedAlias(t) ==
    /\ pc[t] = "lookup"
    /\ \E m \in Memories :
        /\ Keep(m)
        /\ \A id \in Cache(m) : m.heap[id].fp # norm[Mention(t)]
    /\ Goto(t, IF meta[Mention(t)]["s"] = None THEN "add" ELSE "candidates")
    /\ UNCHANGED <<text, out, target, old, tables, documents, births, changes, disturbed>>

Missed(t) ==
    /\ pc[t] = "lookup"
    /\ \E m \in Memories : Keep(m) /\ norm[Mention(t)] \notin DOMAIN m.index
    /\ Goto(t, IF meta[Mention(t)]["s"] = None THEN "add" ELSE "candidates")
    /\ UNCHANGED <<text, out, target, old, tables, documents, births, changes, disturbed>>

\* Exactly one compatible person: the mention is an alias of it.
Candidates(t) ==
    /\ pc[t] = "candidates"
    /\ \E m \in Memories :
        LET cands == {id \in Cache(m) : Compatible(meta[Mention(t)], m.heap[id].meta)}
        IN  /\ Keep(m)
            /\ IF Cardinality(cands) = 1
               THEN target' = [target EXCEPT ![t] = CHOOSE id \in cands : TRUE] /\ Goto(t, "link")
               ELSE Goto(t, "add") /\ UNCHANGED target
    /\ UNCHANGED <<text, out, old, tables, documents, births, changes, disturbed>>

\* Mutant: an alias is remembered in memory only.
LinkInMemory(t) ==
    LET id == target[t]
    IN  /\ pc[t] = "link"
        /\ index' = Put(index, norm[Mention(t)], id)
        /\ Resolved(t, heap[id])
        /\ UNCHANGED <<tables, load, cached, heap, documents, births, changes, disturbed>>

\* The alias becomes a variant; only a better spelling goes on to set_canonical.
Link(t) ==
    LET id == target[t]
        e  == heap[id]
    IN  /\ pc[t] = "link"
        /\ AddVariant(id, norm[Mention(t)], Mention(t))
        /\ IF VariantFails(id, norm[Mention(t)]) THEN Leave(t)
           ELSE IF score[Mention(t)] > score[e.value]
                THEN Goto(t, "canonical") /\ UNCHANGED <<text, out, target, old>>
                ELSE Resolved(t, e)
        /\ UNCHANGED <<entity, documents, births, changes, disturbed>>

\* set_canonical: the object, and an UPDATE by number whatever entity has it now.
SetCanonical(t) ==
    LET id  == target[t]
        e   == heap[id]
        now == Merged(meta[Mention(t)], e.meta)
    IN  /\ pc[t] = "canonical"
        /\ heap' = [heap EXCEPT ![id].value = Mention(t), ![id].meta = now]
        /\ entity' = IF e.n \notin DOMAIN entity THEN entity
                     ELSE [entity EXCEPT ![e.n].value = Mention(t), ![e.n].meta = now]
        /\ old' = [old EXCEPT ![t] = e.value]
        /\ Goto(t, "spelling")
        /\ UNCHANGED <<text, out, target, variant, load, cached, index, documents, births, changes, disturbed>>

\* The new spelling, or the one that is no longer canonical, becomes a variant.
AddSpelling(t) ==
    LET id == target[t]
        s  == IF old[t] # None THEN old[t] ELSE Mention(t)
    IN  /\ pc[t] = "spelling"
        /\ AddVariant(id, s, s)
        /\ IF VariantFails(id, s) THEN Leave(t) ELSE Resolved(t, heap[id])
        /\ UNCHANGED <<entity, documents, births, changes, disturbed>>

\* The entity add_entity makes of a mention, under number n.
NewEntity(t, n, m) ==
    LET x == Mention(t)
        e == [fp |-> norm[x], value |-> x, meta |-> meta[x], excluded |-> FALSE, birth |-> births + 1]
        o == [n |-> n, fp |-> e.fp, value |-> x, meta |-> e.meta, excluded |-> FALSE, birth |-> e.birth,
              variants |-> << >>]
    IN  /\ entity' = Put(entity, n, e)
        /\ heap' = Put(m.heap, <<m.load, n>>, o)
        /\ index' = Put(m.index, e.fp, <<m.load, n>>)
        /\ load' = m.load
        /\ cached' = TRUE
        /\ births' = births + 1
        /\ Resolved(t, o)

\* add_entity: the number after the highest one in the table.
AddEntity(t) ==
    /\ pc[t] = "add"
    /\ births < MaxBirths
    /\ \A k \in DOMAIN entity : entity[k].fp # norm[Mention(t)]
    /\ \E m \in Memories : NewEntity(t, Max({0} \cup DOMAIN entity) + 1, m)
    /\ UNCHANGED <<variant, documents, changes, disturbed>>

\* Another request has added the value meanwhile: the unique index entity_fp
\* refuses the row, and the request fails.
AddRefused(t) ==
    /\ pc[t] = "add"
    /\ \E k \in DOMAIN entity : entity[k].fp = norm[Mention(t)]
    /\ \E m \in Memories : Keep(m)
    /\ Leave(t)
    /\ UNCHANGED <<tables, documents, births, changes, disturbed>>

\* record_document with the mentions that got a label, and the labelled copy goes
\* to the user.
Record(t) ==
    LET labelled == FlattenSeq([i \in DOMAIN out[t] |-> IF out[t][i].kept THEN <<out[t][i]>> ELSE << >>])
    IN  /\ pc[t] = "record"
        /\ documents' = Append(documents,
               [surfaces |-> [i \in DOMAIN labelled |-> labelled[i].surface],
                labels   |-> [i \in DOMAIN labelled |-> labelled[i].n],
                births   |-> [i \in DOMAIN labelled |-> labelled[i].birth]])
        /\ Leave(t)
        /\ UNCHANGED <<tables, memory, births, changes, disturbed>>

-----------------------------------------------------------------------------
(* The user's changes, and restarts *)

\* The user's changes are requests too: an idle thread serves them.
Served(torn) ==
    /\ changes < MaxChanges
    /\ changes' = changes + 1
    /\ \E t \in Threads : pc[t] = "idle" /\ disturbed' = (disturbed \/ torn \/ Busy(t))

SetExcluded(n) ==
    /\ "exclude" \in Events
    /\ Served(FALSE)
    /\ n \in DOMAIN entity
    /\ \E m \in Memories :
        /\ heap' = [m.heap EXCEPT ![<<m.load, n>>].excluded = ~@]
        /\ load' = m.load
        /\ index' = m.index
    /\ cached' = TRUE
    /\ entity' = [entity EXCEPT ![n].excluded = ~@]
    /\ UNCHANGED <<request, variant, documents, births>>

\* delete_entity drops the entity, then its variants, then the cache.
DeleteEntity(n) ==
    /\ "delete" \in Events
    /\ Served(FALSE)
    /\ n \in DOMAIN entity
    /\ entity' = Without(entity, {n})
    /\ variant' = Without(variant, VariantsOf(n))
    /\ cached' = FALSE
    /\ heap' = Only(heap, Range(target))
    /\ load' = IF DOMAIN heap' = {} THEN 0 ELSE load     \* loads are told apart only by the objects left
    /\ index' = << >>
    /\ UNCHANGED <<request, documents, births>>

\* The application ends and is started again; requests in progress are gone.
Restarted ==
    /\ pc' = [t \in Threads |-> "idle"]
    /\ text' = [t \in Threads |-> << >>]
    /\ out' = [t \in Threads |-> << >>]
    /\ target' = [t \in Threads |-> None]
    /\ old' = [t \in Threads |-> None]
    /\ load' = 0
    /\ cached' = FALSE
    /\ heap' = << >>
    /\ index' = << >>
    /\ UNCHANGED <<documents, births>>

Restart ==
    /\ "restart" \in Events
    /\ UNCHANGED <<tables, changes, disturbed>>
    /\ Restarted

\* It dies between the two statements of delete_entity.
DeleteTorn(n) ==
    /\ "torn_delete" \in Events
    /\ Served(TRUE)
    /\ n \in DOMAIN entity
    /\ entity' = Without(entity, {n})
    /\ UNCHANGED variant
    /\ Restarted

Next ==
    \/ \E t \in Threads :
        \/ \E d \in Texts : Start(t, d)
        \/ Found(t)
        \/ Missed(t)
        \/ Candidates(t)
        \/ Link(t)
        \/ SetCanonical(t)
        \/ AddSpelling(t)
        \/ AddEntity(t)
        \/ AddRefused(t)
        \/ Record(t)
    \/ \E n \in DOMAIN entity : SetExcluded(n) \/ DeleteEntity(n) \/ DeleteTorn(n)
    \/ Restart

Spec == Init /\ [][Next]_vars

-----------------------------------------------------------------------------
(* Restoring a document that comes back unchanged: exact_map and restore_unit *)

\* The latest document with this sequence of labels, or 0.
exact_map(labels) == Max({0} \cup {k \in DOMAIN documents : documents[k].labels = labels})

ValueOf(n) == IF cached THEN heap[<<load, n>>].value ELSE entity[n].value

\* Mutant: the cursor into the list of mentions stays at its head.
RestoreStuck(labels) ==
    LET exact == documents[exact_map(labels)]
    IN  [i \in DOMAIN labels |->
            IF labels[i] \notin DOMAIN entity THEN None
            ELSE IF exact.labels[1] = labels[i] THEN exact.surfaces[1]
            ELSE ValueOf(labels[i])]

\* A label that is not known is left alone (None) and does not move the cursor.
restore(labels) ==
    LET exact == documents[exact_map(labels)]
        cursor(i) == Cardinality({j \in 1 .. i - 1 : labels[j] \in DOMAIN entity}) + 1
    IN  [i \in DOMAIN labels |->
            IF labels[i] \notin DOMAIN entity THEN None
            ELSE IF exact.labels[cursor(i)] = labels[i] THEN exact.surfaces[cursor(i)]
            ELSE ValueOf(labels[i])]

-----------------------------------------------------------------------------
(* Properties *)

\* Every label of document k still stands for the entity it was given for.
Live(k) ==
    \A i \in DOMAIN documents[k].labels :
        LET n == documents[k].labels[i]
        IN  n \in DOMAIN entity /\ entity[n].birth = documents[k].births[i]

\* docs/DESKTOP.md:8: "Same value = same label across the whole project".  Two
\* mentions with one normal form have one label, in any two documents whose
\* labels are live, through aliases, better spellings, exclusions, deletions and
\* restarts, as long as requests are served one at a time (_resolve).
SameValueSameLabel ==
    ~disturbed => \A k, l \in DOMAIN documents : Live(k) /\ Live(l) =>
        \A i \in DOMAIN documents[k].surfaces, j \in DOMAIN documents[l].surfaces :
            norm[documents[k].surfaces[i]] = norm[documents[l].surfaces[j]]
                => documents[k].labels[i] = documents[l].labels[j]

\* A restart changes no label: the index that was built up in memory by add_entity
\* and add_variant answers as the one that _load would build from the tables, as
\* long as requests are served one at a time.
RestartKeepsLabels ==
    cached /\ ~disturbed =>
        \A x \in Norms : Claims(x) = IF x \in DOMAIN index THEN {index[x][2]} ELSE {}

\* A document that comes back unchanged is restored to the original spelling of
\* every mention (exact_map, restore_unit), when its labels are live and no other
\* text was given the same sequence of labels: exact_map takes the latest of them.
ExactWhenUnique ==
    \A k \in DOMAIN documents :
        /\ Live(k)
        /\ \A l \in DOMAIN documents :
               documents[l].labels = documents[k].labels => documents[l].surfaces = documents[k].surfaces
        => restore(documents[k].labels) = documents[k].surfaces
===============================================================================
