------------------------------ MODULE Dictionary ------------------------------
(***************************************************************************)
(* The dictionary of a desktop project: Detector of desktop/engine.py.      *)
(*                                                                          *)
(* A scan looks for every spelling the vault knows ("every value already    *)
(* labelled in this project").  The spellings are compiled once and kept    *)
(* with a version number, a weighted count of entities and variants; a      *)
(* request that changes an entity calls invalidate() afterwards, except the *)
(* one that adds a spelling while it scans, which relies on the count.      *)
(*                                                                          *)
(* Requests run in threads: between reading the entities and storing the    *)
(* compiled dictionary, and between a change and its invalidate(), others   *)
(* run.  The list of entities a scan holds is a list of live objects; a     *)
(* deletion drops the vault's cache, so that later requests get new ones    *)
(* (see LabelBook).  An object is named by the load that made it and its    *)
(* number.  Linking a person to an entity is in LabelBook; what it does to  *)
(* the dictionary is what PATCH does.                                       *)
(***************************************************************************)
EXTENDS Naturals, FiniteSets, FiniteSetsExt, Functions

CONSTANTS
    Threads,     \* request threads
    Surfaces,    \* spellings
    norm,        \* [Surfaces -> normal forms]: normalize()
    Listed,      \* the spellings long enough for the dictionary
    MaxChanges,  \* bound on the requests that change an entity, and on locks
    None         \* no object, no dictionary

ASSUME DictionaryAssumption ==
    DOMAIN norm = Surfaces /\ Listed \subseteq Surfaces /\ MaxChanges \in Nat

VARIABLES
    at,        \* at[t]: what request t does next
    ents,      \* ents[t]: the objects its scan has read
    version,   \* version[t]: their weighted count
    got,       \* got[t]: the dictionary it uses
    arg,       \* arg[t]: the spelling it resolves or sets
    target,    \* target[t]: the object it changes, or None
    old,       \* old[t]: the value it replaces, or None
    manual,    \* manual[t]: it is add_manual
    entity,    \* entity rows by number: [fp, value]
    variant,   \* variant rows by spelling: the number
    load,      \* number of the vault's last load; its cache is present iff cached
    cached,
    heap,      \* the Entity objects: [n, fp, value, variants]
    dict,      \* _dict_cache: [version, surfaces, crossed] or None
    changes,   \* observed: changes begun
    crossed,   \* observed: an invalidate() came since the scan of t read the entities
    late,      \* observed: t was given a dictionary that was stored after such a one, or
               \* while a deletion and another change waited for their invalidate()
    withdrawn, \* withdrawn[t]: observed: spellings the change of t in progress took away
    known,     \* known[t]: observed: spellings that an entity has had ever since the scan of t began
    seen,      \* seen[t]: observed: spellings that some entity has had since then
    apart      \* observed: the tables and the cache have come apart

request == <<at, ents, version, got, arg, target, old, manual>>
vault   == <<entity, variant, load, cached, heap>>
dictVars    == <<at, ents, version, got, arg, target, old, manual, entity, variant, load, cached, heap, dict,
             changes, crossed, late, withdrawn, known, seen, apart>>

Put(f, x, y)  == [z \in DOMAIN f \cup {x} |-> IF z = x THEN y ELSE f[z]]
Only(f, S)    == [z \in DOMAIN f \cap S |-> f[z]]

-----------------------------------------------------------------------------
(* The vault *)

Entity(n, fp, value, variants) == [n |-> n, fp |-> fp, value |-> value, variants |-> variants]

\* The objects _load makes of the rows.
FromRows(l) ==
    [id \in {<<l, n>> : n \in DOMAIN entity} |->
        Entity(id[2], entity[id[2]].fp, entity[id[2]].value, {s \in DOMAIN variant : variant[s] = id[2]})]

\* What is in memory after a call that begins with _load.
Memory ==
    IF cached THEN [load |-> load, heap |-> heap]
    ELSE LET fresh == FromRows(load + 1)
             held  == Only(heap, Range(target) \cup UNION Range(ents))
         IN  [load |-> load + 1,
              heap |-> [id \in DOMAIN fresh \cup DOMAIN held |-> IF id \in DOMAIN fresh THEN fresh[id] ELSE held[id]]]

Keep(m) == load' = m.load /\ heap' = m.heap /\ cached' = TRUE

Objects(m) == {id \in DOMAIN m.heap : id[1] = m.load}

Spellings(e) == {e.value} \cup e.variants

\* What entities() returns, as spellings, each with the entity it belongs to.
Holdings == UNION {{<<e.fp, s>> : s \in Spellings(e)} : e \in {Memory.heap[id] : id \in Objects(Memory)}}

Second(pairs) == {p[2] : p \in pairs}
Current == Second(Holdings)

\* add_variant: INSERT OR IGNORE, then the object.  Its last statement fails if a
\* deletion has dropped the index meanwhile.
AddVariant(id, s) ==
    LET e   == heap[id]
        new == s \notin e.variants
    IN  /\ variant' = IF new /\ s \notin DOMAIN variant THEN Put(variant, s, e.n) ELSE variant
        /\ heap' = IF new THEN [heap EXCEPT ![id] = Entity(e.n, e.fp, e.value, e.variants \cup {s})] ELSE heap
        /\ UNCHANGED <<entity, load, cached>>

VariantFails(id, s) == ~cached /\ s \notin heap[id].variants

-----------------------------------------------------------------------------
DictInit ==
    /\ at = [t \in Threads |-> "idle"]
    /\ ents = [t \in Threads |-> {}] /\ version = [t \in Threads |-> 0] /\ got = [t \in Threads |-> {}]
    /\ arg = [t \in Threads |-> None] /\ target = [t \in Threads |-> None]
    /\ old = [t \in Threads |-> None] /\ manual = [t \in Threads |-> FALSE]
    /\ entity = << >> /\ variant = << >> /\ load = 0 /\ cached = FALSE /\ heap = << >>
    /\ dict = None
    /\ changes = 0
    /\ crossed = [t \in Threads |-> FALSE] /\ late = [t \in Threads |-> FALSE]
    /\ withdrawn = [t \in Threads |-> {}]
    /\ known = [t \in Threads |-> {}] /\ seen = [t \in Threads |-> {}]
    /\ apart = FALSE

Goto(t, l) == at' = [at EXCEPT ![t] = l]

\* The request is over.
Leave(t) ==
    /\ Goto(t, "idle")
    /\ ents' = [ents EXCEPT ![t] = {}] /\ version' = [version EXCEPT ![t] = 0] /\ got' = [got EXCEPT ![t] = {}]
    /\ arg' = [arg EXCEPT ![t] = None] /\ target' = [target EXCEPT ![t] = None]
    /\ old' = [old EXCEPT ![t] = None] /\ manual' = [manual EXCEPT ![t] = FALSE]
    /\ crossed' = [crossed EXCEPT ![t] = FALSE] /\ late' = [late EXCEPT ![t] = FALSE]
    /\ withdrawn' = [withdrawn EXCEPT ![t] = {}]

-----------------------------------------------------------------------------
(* _dictionary *)

ReadEntities(t) ==
    /\ at[t] = "idle"
    /\ Keep(Memory)
    /\ ents' = [ents EXCEPT ![t] = Objects(Memory)]
    /\ Goto(t, "version")
    /\ UNCHANGED <<version, got, arg, target, old, manual, entity, variant, dict, changes, crossed, late, withdrawn>>

\* Mutant: the version does not count variants.
EntityCount(ids) == Cardinality(ids)

Variants(ids) == UNION {{<<id, s>> : s \in heap[id].variants} : id \in ids}

Version(ids) == 7 * (Cardinality(ids) + Cardinality(Variants(ids))) + Cardinality(ids)

\* A change is made and its invalidate() is to come.
Awaiting == {t \in Threads : at[t] \in {"old", "invalidate", "deleted", "again"}}

\* A deletion and another change are.
Colliding == \E t \in Awaiting : at[t] = "deleted" /\ Awaiting # {t}

\* The version is computed and the kept dictionary is taken if it has that version.
CheckVersion(t) ==
    LET v   == Version(ents[t])
        hit == dict # None /\ dict.version = v
    IN  /\ at[t] = "version"
        /\ version' = [version EXCEPT ![t] = v]
        /\ IF hit THEN /\ got' = [got EXCEPT ![t] = dict.surfaces]
                       /\ late' = [late EXCEPT ![t] = dict.crossed \/ Colliding]
                       /\ Goto(t, "use")
           ELSE Goto(t, "build") /\ UNCHANGED <<got, late>>
        /\ UNCHANGED <<ents, arg, target, old, manual, vault, dict, changes, crossed, withdrawn>>

Build(t) ==
    /\ at[t] = "build"
    /\ got' = [got EXCEPT ![t] = Listed \cap UNION {Spellings(heap[id]) : id \in ents[t]}]
    /\ Goto(t, "store")
    /\ UNCHANGED <<ents, version, arg, target, old, manual, vault, dict, changes, crossed, late, withdrawn>>

Store(t) ==
    /\ at[t] = "store"
    /\ dict' = [version |-> version[t], surfaces |-> got[t], crossed |-> crossed[t]]
    /\ Goto(t, "use")
    /\ UNCHANGED <<ents, version, got, arg, target, old, manual, vault, changes, crossed, late, withdrawn>>

\* The text is searched: a spelling of the dictionary, or one the rules find, is
\* resolved, or there is nothing in it.
Use(t) ==
    /\ at[t] = "use"
    /\ \/ Leave(t) /\ UNCHANGED changes
       \/ \E s \in Surfaces :
            /\ changes < MaxChanges /\ changes' = changes + 1
            /\ Goto(t, "resolve")
            /\ arg' = [arg EXCEPT ![t] = s]
            /\ ents' = [ents EXCEPT ![t] = {}] /\ version' = [version EXCEPT ![t] = 0] /\ got' = [got EXCEPT ![t] = {}]
            /\ crossed' = [crossed EXCEPT ![t] = FALSE] /\ late' = [late EXCEPT ![t] = FALSE]
            /\ UNCHANGED <<target, old, manual, withdrawn>>
    /\ UNCHANGED <<vault, dict>>

-----------------------------------------------------------------------------
(* _resolve, and the requests that change an entity *)

BeginChange(t) == at[t] = "idle" /\ changes < MaxChanges /\ changes' = changes + 1

AddManual(t, s) ==
    /\ BeginChange(t)
    /\ Goto(t, "resolve")
    /\ arg' = [arg EXCEPT ![t] = s] /\ manual' = [manual EXCEPT ![t] = TRUE]
    /\ UNCHANGED <<ents, version, got, target, old, vault, dict, crossed, late, withdrawn>>

\* by_fingerprint.
Resolve(t) ==
    LET hits == {id \in Objects(Memory) : Memory.heap[id].fp = norm[arg[t]]}
        id   == CHOOSE i \in hits : TRUE
    IN  /\ at[t] = "resolve"
        /\ Keep(Memory)
        /\ \/ /\ hits = {}
              /\ Goto(t, "add")
              /\ UNCHANGED <<ents, version, got, arg, target, old, manual, crossed, late, withdrawn>>
           \/ /\ hits # {} /\ arg[t] \notin Spellings(Memory.heap[id])
              /\ Goto(t, "spelling")
              /\ target' = [target EXCEPT ![t] = id]
              /\ UNCHANGED <<ents, version, got, arg, old, manual, crossed, late, withdrawn>>
           \/ /\ hits # {} /\ arg[t] \in Spellings(Memory.heap[id])
              /\ IF manual[t] THEN /\ Goto(t, "again")
                                   /\ UNCHANGED <<ents, version, got, arg, target, old, manual, crossed, late, withdrawn>>
                 ELSE Leave(t)
        /\ UNCHANGED <<entity, variant, dict, changes>>

\* The new spelling becomes a variant.  Nothing is invalidated, but by add_manual.
AddSpelling(t) ==
    /\ at[t] = "spelling"
    /\ AddVariant(target[t], arg[t])
    /\ IF manual[t] /\ ~VariantFails(target[t], arg[t])
       THEN /\ Goto(t, "again")
            /\ UNCHANGED <<ents, version, got, arg, target, old, manual, crossed, late, withdrawn>>
       ELSE Leave(t)
    /\ UNCHANGED <<dict, changes>>

\* add_entity; the unique index refuses a value that another request has added meanwhile.
AddEntity(t) ==
    LET n == Max({0} \cup DOMAIN entity) + 1
        m == Memory
        e == Entity(n, norm[arg[t]], arg[t], {})
    IN  /\ at[t] = "add"
        /\ IF \E k \in DOMAIN entity : entity[k].fp = e.fp
           THEN Keep(m) /\ Leave(t) /\ UNCHANGED entity
           ELSE /\ entity' = Put(entity, n, [fp |-> e.fp, value |-> e.value])
                /\ heap' = Put(m.heap, <<m.load, n>>, e) /\ load' = m.load /\ cached' = TRUE
                /\ Goto(t, "invalidate")
                /\ UNCHANGED <<ents, version, got, arg, target, old, manual, crossed, late, withdrawn>>
        /\ UNCHANGED <<variant, dict, changes>>

\* PATCH with a value: the object is looked up and its value read, the value
\* replaced, the one that was read kept as a variant.
Patch(t, n, s) ==
    /\ BeginChange(t)
    /\ n \in DOMAIN entity
    /\ Keep(Memory)
    /\ target' = [target EXCEPT ![t] = <<Memory.load, n>>]
    /\ old' = [old EXCEPT ![t] = Memory.heap[<<Memory.load, n>>].value]
    /\ arg' = [arg EXCEPT ![t] = s]
    /\ Goto(t, "canonical")
    /\ UNCHANGED <<ents, version, got, manual, entity, variant, dict, crossed, late, withdrawn>>

SetCanonical(t) ==
    LET e == heap[target[t]]
    IN  /\ at[t] = "canonical"
        /\ heap' = [heap EXCEPT ![target[t]] = Entity(e.n, e.fp, arg[t], e.variants)]
        /\ entity' = IF e.n \in DOMAIN entity THEN Put(entity, e.n, [fp |-> entity[e.n].fp, value |-> arg[t]])
                     ELSE entity
        /\ withdrawn' = [withdrawn EXCEPT ![t] = {e.value}]
        /\ Goto(t, "old")
        /\ UNCHANGED <<ents, version, got, arg, target, old, manual, variant, load, cached, dict, changes, crossed, late>>

AddOld(t) ==
    /\ at[t] = "old"
    /\ AddVariant(target[t], old[t])
    /\ IF VariantFails(target[t], old[t]) THEN Leave(t)
       ELSE Goto(t, "invalidate") /\ UNCHANGED <<ents, version, got, arg, target, old, manual, crossed, late, withdrawn>>
    /\ UNCHANGED <<dict, changes>>

Delete(t, n) ==
    /\ BeginChange(t)
    /\ n \in DOMAIN entity
    /\ withdrawn' = [withdrawn EXCEPT ![t] = Current]
    /\ entity' = Only(entity, DOMAIN entity \ {n})
    /\ variant' = Only(variant, {s \in DOMAIN variant : variant[s] # n})
    /\ cached' = FALSE
    /\ Goto(t, "deleted")
    /\ UNCHANGED <<ents, version, got, arg, target, old, manual, load, heap, dict, crossed, late>>

\* The vault is locked and opened again: its cache is new, the dictionary is not.
Relock ==
    /\ \A t \in Threads : at[t] = "idle"
    /\ changes < MaxChanges /\ changes' = changes + 1
    /\ cached' = FALSE /\ heap' = << >>
    /\ UNCHANGED <<request, entity, variant, load, dict, crossed, late, withdrawn>>

Scanning == {"version", "build", "store"}

Invalidate(t) ==
    /\ at[t] \in {"invalidate", "deleted", "again"}
    /\ dict' = None
    /\ IF at[t] = "invalidate" /\ manual[t]
       THEN /\ Goto(t, "again")
            /\ crossed' = [u \in Threads |-> crossed[u] \/ at[u] \in Scanning]
            /\ UNCHANGED <<ents, version, got, arg, target, old, manual, late, withdrawn>>
       ELSE /\ Goto(t, "idle")
            /\ arg' = [arg EXCEPT ![t] = None] /\ target' = [target EXCEPT ![t] = None]
            /\ old' = [old EXCEPT ![t] = None] /\ manual' = [manual EXCEPT ![t] = FALSE]
            /\ withdrawn' = [withdrawn EXCEPT ![t] = {}]
            /\ crossed' = [u \in Threads |-> crossed[u] \/ at[u] \in Scanning]
            /\ UNCHANGED <<ents, version, got, late>>
    /\ UNCHANGED <<vault, changes>>

\* The cache has what the tables have.
InStep == cached => Only(heap, Objects(Memory)) = FromRows(load)

\* A request writes to an object that a deletion has dropped from the cache.
Stray(t) ==
    /\ at[t] \in {"spelling", "canonical", "old"} /\ at'[t] # at[t]
    /\ ~(cached /\ target[t][1] = load)

\* Follows what each scan must find and may find.  A change counts once its
\* request is over.
Observe ==
    LET begun(t)   == at[t] = "idle" /\ at'[t] = "version"
        scanning(t) == at'[t] \in Scanning \cup {"use"}
    IN  /\ known' = [t \in Threads |->
                        IF begun(t) THEN {p \in Holdings' : p[2] \notin Range(arg')}
                        ELSE IF scanning(t) THEN known[t] \cap Holdings' ELSE {}]
        /\ seen' = [t \in Threads |->
                        IF begun(t) THEN Current' \cup UNION Range(withdrawn')
                        ELSE IF scanning(t) THEN seen[t] \cup Current' ELSE {}]
        /\ apart' = (apart \/ ~InStep' \/ \E t \in Threads : Stray(t))

Step(t) ==
    \/ ReadEntities(t) \/ CheckVersion(t) \/ Build(t) \/ Store(t) \/ Use(t)
    \/ Resolve(t) \/ AddSpelling(t) \/ AddEntity(t)
    \/ SetCanonical(t) \/ AddOld(t) \/ Invalidate(t)

DictNext ==
    /\ \/ \E t \in Threads : \/ Step(t)
                             \/ \E s \in Surfaces : AddManual(t, s)
                             \/ \E n \in DOMAIN entity : Delete(t, n) \/ \E s \in Surfaces : Patch(t, n, s)
       \/ Relock
    /\ Observe

DictSpec == DictInit /\ [][DictNext]_dictVars

-----------------------------------------------------------------------------
\* A scan uses every spelling that an entity has had since before the scan began,
\* and none that the vault did not have while it ran: not a deleted one, not only those of an
\* older state of the project.  Three gaps are left (engine.py:198, :214): a
\* dictionary that was stored after an invalidate() that came while it was being
\* compiled, and whose version has come about again; one whose version has come
\* about again because an entity was deleted and another one added, before
\* either invalidate(); and whatever a cache holds that has come apart from the
\* tables, after a write to an object that a deletion had dropped or of a
\* spelling that is another entity's variant.
DictionaryIsCurrent ==
    \A t \in Threads : at[t] = "use" /\ ~late[t] /\ ~apart =>
        Second(known[t]) \cap Listed \subseteq got[t] /\ got[t] \subseteq seen[t]
===============================================================================
