-------------------------- MODULE SharedState_proofs --------------------------
(***************************************************************************)
(* Proofs about state that concurrent requests share: the audit chain in    *)
(* the database (AuditChain, for any number of writers, teams and lock      *)
(* keys) and the desktop dictionary in memory (Dictionary, for any number   *)
(* of threads, spellings and changes).                                      *)
(*                                                                          *)
(* The first inductive invariant says what the advisory lock buys: while a  *)
(* writer is past its lock, no other transaction of its team is, so the     *)
(* hash it read stays the newest one and the id it drew stays the largest   *)
(* of the team until it commits.                                            *)
(*                                                                          *)
(* The second one, DictInv, says what the version number buys without a     *)
(* lock: as long as no invalidate() has come, what a scan compiles or has   *)
(* left in the cache either has a lower version than every scan that may    *)
(* still take it, or another remainder by 7 (an entity was deleted), or the *)
(* spellings such a scan must find.                                         *)
(***************************************************************************)
EXTENDS AuditChain, Dictionary, Sequence_proofs, FiniteSetTheorems, SequenceTheorems, TLAPS

Holding == {"locked", "linked", "flushed"}

\* A writer past its lock statement owns the lock of its team.
LockHeld == \A w \in Writers : pc[w] \in Holding => lock[Key(w)] = w

\* The hash a writer links to is still the newest committed one of its team.
PrevIsLast ==
    \A w \in Writers : pc[w] \in {"linked", "flushed"} =>
        prev[w] = last_hash(audit_event, Team(w))

\* A flushed row is the writer's own, and newer than all committed rows of
\* the team.
PendingIsNewest ==
    \A w \in Writers : pc[w] = "flushed" =>
        /\ event[w] \in DOMAIN pending
        /\ pending[event[w]] = Row(Team(w), Body(w), prev[w])
        /\ event[w] \notin DOMAIN audit_event
        /\ \A i \in IdsOf(audit_event, Team(w)) : i < event[w]

\* Only a flushed writer has an uncommitted row, and no two share one.
PendingOwned ==
    /\ \A w \in Writers : pc[w] # "flushed" => event[w] = 0
    /\ \A v, w \in Writers : event[v] = event[w] /\ event[v] # 0 => v = w

\* The events of a team have a newest one, when there are any.
HasLast ==
    \A t \in Teams : IdsOf(audit_event, t) # {} =>
        \E i \in IdsOf(audit_event, t) : IsLast(audit_event, t, i)

IInv ==
    /\ TypeOK
    /\ LockHeld
    /\ PrevIsLast
    /\ PendingIsNewest
    /\ PendingOwned
    /\ HasLast
    /\ ChainVerifies

-----------------------------------------------------------------------------
\* last_hash returns the hash of the newest event.
LEMMA LastHashOfLast ==
    ASSUME NEW rows, NEW t, NEW i \in IdsOf(rows, t),
           DOMAIN rows \subseteq Nat, IsLast(rows, t, i)
    PROVE  last_hash(rows, t) = rows[i].event_hash
<1>1. \A j \in IdsOf(rows, t) : IsLast(rows, t, j) => j = i
  BY DEF IsLast, IdsOf
<1>2. (CHOOSE j \in IdsOf(rows, t) : IsLast(rows, t, j)) = i
  BY <1>1
<1> QED
  BY <1>2 DEF last_hash

\* The hash of a hash and a payload is a hash, and never the one it extends.
LEMMA HashType ==
    ASSUME NEW h \in Hashes, NEW p \in Payloads
    PROVE  compute_event_hash(h, p) \in Hashes
  BY DEF compute_event_hash, Hashes

\* n is newer than every row of team t in a table of valid chains.
CanAppend(rows, t, n) ==
    /\ DOMAIN rows \subseteq Nat
    /\ \A i \in DOMAIN rows : rows[i].team \in Teams
    /\ n \notin DOMAIN rows
    /\ \A i \in IdsOf(rows, t) : i < n
    /\ \A u \in Teams : IdsOf(rows, u) # {} =>
           \E i \in IdsOf(rows, u) : IsLast(rows, u, i)
    /\ \A u \in Teams : verify_chain(rows, u)

\* new extends the chain of team t, and no other, by one event.
Extends(new, rows, t, b, n) ==
    /\ \A u \in Teams : verify_chain(new, u)
    /\ IsLast(new, t, n)
    /\ last_hash(new, t) = Append(last_hash(rows, t), <<t, b>>)
    /\ \A u \in Teams \ {t} : /\ IdsOf(new, u) = IdsOf(rows, u)
                              /\ last_hash(new, u) = last_hash(rows, u)

\* Appending a row newer than all others of its team, linked to the newest of
\* them, keeps every chain valid and makes the row the newest of its team.
LEMMA AppendKeepsChains ==
    ASSUME NEW rows, NEW t \in Teams, NEW b, NEW n \in Nat, CanAppend(rows, t, n)
    PROVE  Extends(Insert(rows, n, Row(t, b, last_hash(rows, t))), rows, t, b, n)
<1> DEFINE new == Insert(rows, n, Row(t, b, last_hash(rows, t)))
<1> SUFFICES ASSUME DOMAIN rows \subseteq Nat,
               \A i \in DOMAIN rows : rows[i].team \in Teams,
               n \notin DOMAIN rows,
               \A i \in IdsOf(rows, t) : i < n,
               \A u \in Teams : IdsOf(rows, u) # {} =>
                   \E i \in IdsOf(rows, u) : IsLast(rows, u, i),
               \A u \in Teams : verify_chain(rows, u)
        PROVE  Extends(new, rows, t, b, n)
  BY DEF CanAppend
<1> DEFINE r == Row(t, b, last_hash(rows, t))
<1>1. /\ DOMAIN new = DOMAIN rows \cup {n}
      /\ new[n] = r
      /\ \A i \in DOMAIN rows : new[i] = rows[i]
  BY DEF Insert
<1>2. /\ r.team = t /\ r.body = b /\ r.prev_hash = last_hash(rows, t)
      /\ r.event_hash = compute_event_hash(last_hash(rows, t), event_payload(t, b))
  BY DEF Row
<1> HIDE DEF r, new
<1>3. IdsOf(new, t) = IdsOf(rows, t) \cup {n}
  BY <1>1, <1>2 DEF IdsOf
<1>4. \A u \in Teams \ {t} : IdsOf(new, u) = IdsOf(rows, u)
  BY <1>1, <1>2 DEF IdsOf
<1>5. IsLast(new, t, n)
  BY <1>3 DEF IsLast, IdsOf
<1>6. last_hash(new, t) = Append(last_hash(rows, t), <<t, b>>)
  <2>1. last_hash(new, t) = new[n].event_hash
    BY <1>1, <1>3, <1>5, LastHashOfLast
  <2> QED
    BY <2>1, <1>1, <1>2 DEF compute_event_hash, event_payload
<1>7. \A u \in Teams \ {t} : last_hash(new, u) = last_hash(rows, u)
  <2> SUFFICES ASSUME NEW u \in Teams \ {t} PROVE last_hash(new, u) = last_hash(rows, u)
    OBVIOUS
  <2>1. IdsOf(new, u) = IdsOf(rows, u)
    BY <1>4
  <2>2. CASE IdsOf(rows, u) = {}
    BY <2>1, <2>2 DEF last_hash
  <2>3. CASE IdsOf(rows, u) # {}
    <3>1. PICK i \in IdsOf(rows, u) : IsLast(rows, u, i)
      BY <2>3
    <3>2. IsLast(new, u, i) /\ new[i] = rows[i] /\ DOMAIN new \subseteq Nat
      BY <2>1, <3>1, <1>1 DEF IsLast, IdsOf
    <3>3. last_hash(rows, u) = rows[i].event_hash
      BY <3>1, LastHashOfLast
    <3>4. last_hash(new, u) = new[i].event_hash
      BY <2>1, <3>2, LastHashOfLast
    <3> QED
      BY <3>2, <3>3, <3>4
  <2> QED
    BY <2>2, <2>3
<1>8. \A u \in Teams \ {t} : verify_chain(new, u)
  <2> SUFFICES ASSUME NEW u \in Teams \ {t} PROVE verify_chain(new, u)
    OBVIOUS
  <2>1. IdsOf(new, u) = IdsOf(rows, u) /\ \A i \in IdsOf(rows, u) : new[i] = rows[i]
    BY <1>1, <1>4 DEF IdsOf
  <2>2. verify_chain(rows, u)
    OBVIOUS
  <2> QED
    BY <2>1, <2>2 DEF verify_chain, IsFirst, Adjacent
<1>9. verify_chain(new, t)
  <2>1. \A i \in IdsOf(rows, t) : new[i] = rows[i] /\ i \in Nat /\ i < n
    BY <1>1 DEF IdsOf
  <2>2. verify_chain(rows, t)
    OBVIOUS
  <2>3. ASSUME NEW i \in IdsOf(new, t)
        PROVE  /\ IsFirst(new, t, i) => new[i].prev_hash = GENESIS_HASH
               /\ new[i].event_hash =
                     compute_event_hash(new[i].prev_hash,
                                        event_payload(new[i].team, new[i].body))
    <3>1. CASE i = n
      <4>1. IsFirst(new, t, n) => IdsOf(rows, t) = {}
        BY <1>3, <2>1 DEF IsFirst
      <4> QED
        BY <3>1, <4>1, <1>1, <1>2 DEF last_hash
    <3>2. CASE i \in IdsOf(rows, t)
      <4>1. IsFirst(new, t, i) => IsFirst(rows, t, i)
        BY <3>2, <1>3 DEF IsFirst
      <4> QED
        BY <3>2, <4>1, <2>1, <2>2 DEF verify_chain
    <3> QED
      BY <1>3, <3>1, <3>2
  <2>4. ASSUME NEW i \in IdsOf(new, t), NEW j \in IdsOf(new, t), Adjacent(new, t, i, j)
        PROVE  new[j].prev_hash = new[i].event_hash
    <3>1. CASE j \in IdsOf(rows, t)
      <4>1. i \in IdsOf(rows, t)
        BY <2>1, <2>4, <3>1, <1>3 DEF Adjacent
      <4>2. Adjacent(rows, t, i, j)
        BY <2>4, <3>1, <4>1, <1>3 DEF Adjacent
      <4> QED
        BY <2>1, <2>2, <3>1, <4>1, <4>2 DEF verify_chain
    <3>2. CASE j = n
      <4>1. i \in IdsOf(rows, t) /\ i # n
        BY <2>4, <3>2, <1>3 DEF Adjacent
      <4>2. IsLast(rows, t, i)
        BY <2>1, <2>4, <3>2, <4>1, <1>3 DEF Adjacent, IsLast
      <4>3. last_hash(rows, t) = rows[i].event_hash
        BY <4>1, <4>2, LastHashOfLast
      <4> QED
        BY <2>1, <3>2, <4>1, <4>3, <1>1, <1>2
    <3> QED
      BY <1>3, <3>1, <3>2
  <2> QED
    BY <2>3, <2>4 DEF verify_chain
<1> QED
  BY <1>4, <1>5, <1>6, <1>7, <1>8, <1>9 DEF Extends

-----------------------------------------------------------------------------
(* The inductive invariant *)

LEMMA InitIInv == Init => IInv
<1> SUFFICES ASSUME Init PROVE IInv
  OBVIOUS
<1> USE DEF Init
<1>1. DOMAIN audit_event = {} /\ DOMAIN pending = {}
  BY DEF NoRows
<1>2. TypeOK
  <2>1. audit_event \in [DOMAIN audit_event -> Rows] /\ pending \in [DOMAIN pending -> Rows]
    BY <1>1 DEF NoRows
  <2>2. GENESIS_HASH \in Hashes
    BY DEF GENESIS_HASH, Hashes
  <2> QED
    BY <1>1, <2>1, <2>2, ConstantsAssumption DEF TypeOK
<1>3. \A t \in Teams : IdsOf(audit_event, t) = {}
  BY <1>1 DEF IdsOf
<1>4. HasLast /\ ChainVerifies
  BY <1>3 DEF HasLast, ChainVerifies, verify_chain
<1>5. LockHeld /\ PrevIsLast /\ PendingIsNewest /\ PendingOwned
  BY DEF LockHeld, PrevIsLast, PendingIsNewest, PendingOwned, Holding
<1> QED
  BY <1>2, <1>4, <1>5 DEF IInv

\* While a writer is past its lock, no other writer of its team is.
LEMMA Exclusion ==
    ASSUME TypeOK, LockHeld, NEW v \in Writers, NEW w \in Writers,
           pc[v] \in Holding, pc[w] \in Holding, Team(v) = Team(w)
    PROVE  v = w
  BY DEF LockHeld, Key

\* Steps that leave the tables alone, and move only writer w.
LEMMA BeginIInv ==
    ASSUME IInv, NEW w \in Writers, NEW payload \in Payloads, Begin(w, payload)
    PROVE  IInv'
<1> USE DEF IInv, Begin
<1>1. \A v \in Writers \ {w} : pc'[v] = pc[v] /\ call'[v] = call[v]
  BY DEF TypeOK
<1>2. pc'[w] = "locking" /\ call'[w] = payload
  BY DEF TypeOK
<1>3. TypeOK'
  BY <1>1, <1>2 DEF TypeOK
<1>4. LockHeld'
  BY <1>1, <1>2 DEF LockHeld, Holding, Key, Team
<1>5. PrevIsLast'
  BY <1>1, <1>2 DEF PrevIsLast, Team
<1>6. PendingIsNewest'
  BY <1>1, <1>2 DEF PendingIsNewest, Team, Body
<1>7. PendingOwned'
  BY <1>1, <1>2 DEF PendingOwned
<1>8. HasLast' /\ ChainVerifies'
  BY DEF HasLast, ChainVerifies
<1> QED
  BY <1>3, <1>4, <1>5, <1>6, <1>7, <1>8

LEMMA LockIInv ==
    ASSUME IInv, NEW w \in Writers, Lock(w)
    PROVE  IInv'
<1> USE DEF IInv, Lock
<1>1. \A v \in Writers \ {w} : pc'[v] = pc[v]
  BY DEF TypeOK
<1>2. pc'[w] = "locked" /\ Key(w) \in LockKeys
  BY ConstantsAssumption DEF TypeOK, Key, Team, Payloads
<1>3. TypeOK'
  BY <1>1, <1>2 DEF TypeOK
<1>4. LockHeld'
  <2> SUFFICES ASSUME NEW v \in Writers, pc'[v] \in Holding PROVE lock'[Key(v)] = v
    BY DEF LockHeld, Key, Team
  <2>1. CASE v = w
    BY <1>2, <2>1 DEF TypeOK
  <2>2. CASE v # w
    <3>1. lock[Key(v)] = v
      BY <1>1, <2>2 DEF LockHeld
    <3>2. Key(v) # Key(w)
      BY <3>1, ConstantsAssumption
    <3> QED
      BY <3>1, <3>2, <1>2 DEF TypeOK
  <2> QED
    BY <2>1, <2>2
<1>5. PrevIsLast'
  BY <1>1, <1>2 DEF PrevIsLast, Team
<1>6. PendingIsNewest'
  BY <1>1, <1>2 DEF PendingIsNewest, Team, Body
<1>7. PendingOwned'
  BY <1>1, <1>2 DEF PendingOwned
<1>8. HasLast' /\ ChainVerifies'
  BY DEF HasLast, ChainVerifies
<1> QED
  BY <1>3, <1>4, <1>5, <1>6, <1>7, <1>8

LEMMA LockFailsIInv ==
    ASSUME IInv, NEW w \in Writers, LockFails(w)
    PROVE  IInv'
<1> USE DEF IInv, LockFails
<1>1. pc'[w] = "aborted" /\ \A v \in Writers \ {w} : pc'[v] = pc[v]
  BY DEF TypeOK
<1>2. TypeOK'
  BY <1>1 DEF TypeOK
<1>3. LockHeld'
  BY <1>1 DEF LockHeld, Holding, Key, Team
<1>4. PrevIsLast'
  BY <1>1 DEF PrevIsLast, Team
<1>5. PendingIsNewest'
  BY <1>1 DEF PendingIsNewest, Team, Body
<1>6. PendingOwned' /\ HasLast' /\ ChainVerifies'
  BY <1>1 DEF PendingOwned, HasLast, ChainVerifies
<1> QED
  BY <1>2, <1>3, <1>4, <1>5, <1>6

\* last_hash of a well-typed table with a newest row is a hash.
LEMMA LastHashType ==
    ASSUME TypeOK, HasLast, NEW t \in Teams
    PROVE  last_hash(audit_event, t) \in Hashes
<1>1. CASE IdsOf(audit_event, t) = {}
  BY <1>1 DEF last_hash, GENESIS_HASH, Hashes
<1>2. CASE IdsOf(audit_event, t) # {}
  <2>1. PICK i \in IdsOf(audit_event, t) : IsLast(audit_event, t, i)
    BY <1>2 DEF HasLast
  <2>2. last_hash(audit_event, t) = audit_event[i].event_hash
    BY <2>1, LastHashOfLast DEF TypeOK
  <2> QED
    BY <2>1, <2>2 DEF TypeOK, IdsOf, Rows
<1> QED
  BY <1>1, <1>2

LEMMA ReadLastIInv ==
    ASSUME IInv, NEW w \in Writers, ReadLast(w)
    PROVE  IInv'
<1> USE DEF IInv, ReadLast
<1>1. /\ pc'[w] = "linked" /\ prev'[w] = last_hash(audit_event, Team(w))
      /\ \A v \in Writers \ {w} : pc'[v] = pc[v] /\ prev'[v] = prev[v]
  BY DEF TypeOK
<1>2. prev'[w] \in Hashes
  <2>1. Team(w) \in Teams
    BY DEF TypeOK, Team, Payloads
  <2> QED
    BY <1>1, <2>1, LastHashType
<1>3. TypeOK'
  BY <1>1, <1>2 DEF TypeOK
<1>4. LockHeld'
  BY <1>1 DEF LockHeld, Holding, Key, Team
<1>5. PrevIsLast'
  BY <1>1 DEF PrevIsLast, Team
<1>6. PendingIsNewest'
  BY <1>1 DEF PendingIsNewest, Team, Body
<1>7. PendingOwned' /\ HasLast' /\ ChainVerifies'
  BY <1>1 DEF PendingOwned, HasLast, ChainVerifies
<1> QED
  BY <1>3, <1>4, <1>5, <1>6, <1>7

LEMMA FlushIInv ==
    ASSUME IInv, NEW w \in Writers, Flush(w)
    PROVE  IInv'
<1> USE DEF IInv, Flush
<1>1. /\ pc'[w] = "flushed" /\ event'[w] = nextId
      /\ \A v \in Writers \ {w} : pc'[v] = pc[v] /\ event'[v] = event[v]
  BY DEF TypeOK
<1>2. /\ call[w] \in Payloads /\ Team(w) \in Teams /\ Body(w) \in Bodies
      /\ nextId \in Nat /\ nextId >= 1 /\ nextId <= MaxId /\ nextId' = nextId + 1
      /\ MaxId \in Nat
  BY ConstantsAssumption DEF TypeOK, Team, Body, Payloads
<1>3. Row(Team(w), Body(w), prev[w]) \in Rows
  <2>1. compute_event_hash(prev[w], event_payload(Team(w), Body(w))) \in Hashes
    BY <1>2, HashType DEF TypeOK, event_payload, Payloads
  <2> QED
    BY <1>2, <2>1 DEF Row, Rows, TypeOK
<1>4. /\ DOMAIN pending' = DOMAIN pending \cup {nextId}
      /\ pending'[nextId] = Row(Team(w), Body(w), prev[w])
      /\ \A i \in DOMAIN pending : i # nextId => pending'[i] = pending[i]
  BY DEF Insert
<1>5. nextId \notin DOMAIN pending /\ nextId \notin DOMAIN audit_event
  BY <1>2 DEF TypeOK
<1>6. TypeOK'
  <2>1. pending' \in [DOMAIN pending' -> Rows]
    BY <1>3, <1>4 DEF Insert, TypeOK
  <2>2. DOMAIN audit_event' \subseteq 1 .. (nextId' - 1) /\ DOMAIN pending' \subseteq 1 .. (nextId' - 1)
    BY <1>2, <1>4 DEF TypeOK
  <2>3. event' \in [Writers -> 0 .. MaxId] /\ nextId' \in 1 .. (MaxId + 1)
    BY <1>2 DEF TypeOK
  <2>4. pc' \in [Writers -> {"idle", "locking", "locked", "linked", "flushed", "aborted"}]
    BY DEF TypeOK
  <2>5. \A v \in Writers : pc'[v] # "idle" => call'[v] \in Payloads
    BY <1>1 DEF TypeOK
  <2> QED
    BY <2>1, <2>2, <2>3, <2>4, <2>5 DEF TypeOK
<1>7. LockHeld'
  BY <1>1 DEF LockHeld, Holding, Key, Team
<1>8. PrevIsLast'
  BY <1>1 DEF PrevIsLast, Team
<1>9. PendingIsNewest'
  <2> SUFFICES ASSUME NEW v \in Writers, pc'[v] = "flushed"
               PROVE  /\ event'[v] \in DOMAIN pending'
                      /\ pending'[event'[v]] = Row(Team(v), Body(v), prev[v])
                      /\ event'[v] \notin DOMAIN audit_event
                      /\ \A i \in IdsOf(audit_event, Team(v)) : i < event'[v]
    BY DEF PendingIsNewest, Team, Body
  <2>1. CASE v = w
    <3>1. \A i \in IdsOf(audit_event, Team(w)) : i < nextId
      BY <1>2 DEF TypeOK, IdsOf
    <3> QED
      BY <2>1, <3>1, <1>1, <1>4, <1>5
  <2>2. CASE v # w
    BY <2>2, <1>1, <1>4, <1>5 DEF PendingIsNewest
  <2> QED
    BY <2>1, <2>2
<1>10. PendingOwned'
  <2>1. \A v \in Writers \ {w} : event[v] # nextId
    BY <1>2, <1>5 DEF PendingOwned, PendingIsNewest
  <2> QED
    BY <1>1, <2>1 DEF PendingOwned
<1>11. HasLast' /\ ChainVerifies'
  BY DEF HasLast, ChainVerifies
<1> QED
  BY <1>6, <1>7, <1>8, <1>9, <1>10, <1>11

LEMMA StatementFailsIInv ==
    ASSUME IInv, NEW w \in Writers, StatementFails(w)
    PROVE  IInv'
<1> USE DEF IInv, StatementFails
<1>1. pc'[w] = "aborted" /\ \A v \in Writers \ {w} : pc'[v] = pc[v]
  BY DEF TypeOK
<1>2. TypeOK'
  <2>1. nextId' \in 1 .. (MaxId + 1) /\ nextId <= nextId' /\ nextId \in Nat
    BY ConstantsAssumption DEF TypeOK
  <2>2. DOMAIN audit_event \subseteq 1 .. (nextId' - 1) /\ DOMAIN pending \subseteq 1 .. (nextId' - 1)
    BY <2>1 DEF TypeOK
  <2>3. \A v \in Writers : pc'[v] # "idle" => call[v] \in Payloads
    BY <1>1 DEF TypeOK
  <2>4. pc' \in [Writers -> {"idle", "locking", "locked", "linked", "flushed", "aborted"}]
    BY DEF TypeOK
  <2> QED
    BY <2>1, <2>2, <2>3, <2>4 DEF TypeOK
<1>3. LockHeld'
  BY <1>1 DEF LockHeld, Holding, Key, Team
<1>4. PrevIsLast'
  BY <1>1 DEF PrevIsLast, Team
<1>5. PendingIsNewest'
  BY <1>1 DEF PendingIsNewest, Team, Body
<1>6. PendingOwned' /\ HasLast' /\ ChainVerifies'
  BY <1>1 DEF PendingOwned, HasLast, ChainVerifies
<1> QED
  BY <1>2, <1>3, <1>4, <1>5, <1>6

\* What the end of a transaction does to the writers and to the uncommitted
\* rows: the other transactions keep theirs.
LEMMA EndEffect ==
    ASSUME IInv, NEW w \in Writers, End(w)
    PROVE  /\ pc'[w] = "idle" /\ event'[w] = 0
           /\ \A v \in Writers \ {w} :
                 /\ pc'[v] = pc[v] /\ call'[v] = call[v]
                 /\ prev'[v] = prev[v] /\ event'[v] = event[v]
           /\ \A k \in LockKeys : lock[k] # w => lock'[k] = lock[k]
           /\ DOMAIN pending' = DOMAIN pending \ {event[w]}
           /\ \A i \in DOMAIN pending' : pending'[i] = pending[i]
           /\ LockHeld'
           /\ PendingOwned'
<1> USE DEF IInv, End
<1>1. /\ pc'[w] = "idle" /\ event'[w] = 0
      /\ \A v \in Writers \ {w} :
            /\ pc'[v] = pc[v] /\ call'[v] = call[v]
            /\ prev'[v] = prev[v] /\ event'[v] = event[v]
  BY DEF TypeOK
<1>2. \A k \in LockKeys : lock[k] # w => lock'[k] = lock[k]
  BY DEF Release
<1>3. /\ DOMAIN pending' = DOMAIN pending \ {event[w]}
      /\ \A i \in DOMAIN pending' : pending'[i] = pending[i]
  BY DEF Removed
<1>4. LockHeld'
  <2> SUFFICES ASSUME NEW v \in Writers, pc'[v] \in Holding PROVE lock'[Key(v)'] = v
    BY DEF LockHeld
  <2>1. v # w /\ pc[v] \in Holding
    BY <1>1 DEF Holding
  <2>2. Key(v)' = Key(v) /\ Key(v) \in LockKeys
    BY <1>1, <2>1, ConstantsAssumption DEF Key, Team, Holding, TypeOK, Payloads
  <2>3. lock[Key(v)] = v
    BY <2>1 DEF LockHeld
  <2> QED
    BY <1>2, <2>1, <2>2, <2>3
<1>5. PendingOwned'
  BY <1>1 DEF PendingOwned
<1> QED
  BY <1>1, <1>2, <1>3, <1>4, <1>5

\* The type invariant after the end of a transaction that changes the table of
\* committed rows to a well-typed one.
LEMMA EndType ==
    ASSUME IInv, NEW w \in Writers, End(w),
           audit_event' \in [DOMAIN audit_event' -> Rows],
           DOMAIN audit_event' \subseteq 1 .. (nextId - 1)
    PROVE  TypeOK'
<1> USE DEF IInv, End
<1>1. pending' \in [DOMAIN pending' -> Rows] /\ DOMAIN pending' \subseteq 1 .. (nextId - 1)
  BY EndEffect DEF TypeOK, Removed
<1>2. lock' \in [LockKeys -> Writers \cup {NoWriter}]
  BY DEF TypeOK, Release
<1>3. /\ pc' \in [Writers -> {"idle", "locking", "locked", "linked", "flushed", "aborted"}]
      /\ call' \in [Writers -> Payloads \cup {NoCall}]
  BY DEF TypeOK
<1>4. prev' \in [Writers -> Hashes]
  <2>1. GENESIS_HASH \in Hashes
    BY DEF GENESIS_HASH, Hashes
  <2> QED
    BY <2>1 DEF TypeOK
<1>5. event' \in [Writers -> 0 .. MaxId]
  BY ConstantsAssumption DEF TypeOK
<1>6. \A v \in Writers : pc'[v] # "idle" => call'[v] \in Payloads
  BY EndEffect DEF TypeOK
<1> QED
  BY <1>1, <1>2, <1>3, <1>4, <1>5, <1>6 DEF TypeOK

LEMMA RollbackIInv ==
    ASSUME IInv, NEW w \in Writers, Rollback(w)
    PROVE  IInv'
<1> USE DEF Rollback
<1>1. TypeOK'
  BY EndType DEF IInv, TypeOK
<1>2. LockHeld' /\ PendingOwned'
  BY EndEffect
<1>3. PrevIsLast'
  BY EndEffect, ZenonT(40) DEF IInv, PrevIsLast, Team
<1>4. PendingIsNewest'
  <2> SUFFICES ASSUME NEW v \in Writers, pc'[v] = "flushed"
               PROVE  /\ event'[v] \in DOMAIN pending'
                      /\ pending'[event'[v]] = Row(Team(v)', Body(v)', prev'[v])
                      /\ event'[v] \notin DOMAIN audit_event
                      /\ \A i \in IdsOf(audit_event, Team(v)') : i < event'[v]
    BY DEF PendingIsNewest
  <2>1. v # w /\ pc[v] = "flushed"
    BY EndEffect
  <2>2. event[v] # event[w]
    BY <2>1 DEF IInv, PendingOwned, PendingIsNewest, TypeOK
  <2>3. Team(v)' = Team(v) /\ Body(v)' = Body(v) /\ prev'[v] = prev[v] /\ event'[v] = event[v]
    BY <2>1, EndEffect DEF Team, Body
  <2>4. event[v] \in DOMAIN pending' /\ pending'[event[v]] = pending[event[v]]
    BY <2>1, <2>2, EndEffect DEF IInv, PendingIsNewest
  <2> QED
    BY <2>1, <2>3, <2>4 DEF IInv, PendingIsNewest
<1>5. HasLast' /\ ChainVerifies'
  BY DEF IInv, HasLast, ChainVerifies
<1> QED
  BY <1>1, <1>2, <1>3, <1>4, <1>5 DEF IInv

\* What a commit does to the table of committed rows.
LEMMA CommitEffect ==
    ASSUME IInv, NEW w \in Writers, Commit(w)
    PROVE  /\ Team(w) \in Teams /\ Body(w) \in Bodies
           /\ DOMAIN audit_event' = DOMAIN audit_event \cup {event[w]}
           /\ \A i \in DOMAIN audit_event : audit_event'[i] = audit_event[i]
           /\ audit_event'[event[w]].team = Team(w)
           /\ \A t \in Teams : verify_chain(audit_event', t)
           /\ IsLast(audit_event', Team(w), event[w])
           /\ last_hash(audit_event', Team(w))
                = Append(last_hash(audit_event, Team(w)), <<Team(w), Body(w)>>)
           /\ \A u \in Teams \ {Team(w)} :
                  /\ IdsOf(audit_event', u) = IdsOf(audit_event, u)
                  /\ last_hash(audit_event', u) = last_hash(audit_event, u)
<1> DEFINE t == Team(w)
<1>1. t \in Teams /\ Body(w) \in Bodies
  BY DEF Commit, IInv, TypeOK, Team, Body, Payloads
<1>2. /\ event[w] \in Nat /\ event[w] \notin DOMAIN audit_event
      /\ \A i \in IdsOf(audit_event, t) : i < event[w]
      /\ pending[event[w]] = Row(t, Body(w), last_hash(audit_event, t))
  BY DEF Commit, IInv, PendingIsNewest, PrevIsLast, TypeOK
<1>3. DOMAIN audit_event \subseteq Nat /\ \A i \in DOMAIN audit_event : audit_event[i].team \in Teams
  BY DEF IInv, TypeOK, Rows
<1>4. audit_event' = Insert(audit_event, event[w], Row(t, Body(w), last_hash(audit_event, t)))
  BY <1>2 DEF Commit
<1>5. /\ \A u \in Teams : IdsOf(audit_event, u) # {} =>
               \E i \in IdsOf(audit_event, u) : IsLast(audit_event, u, i)
      /\ \A u \in Teams : verify_chain(audit_event, u)
  BY DEF IInv, HasLast, ChainVerifies
<1>6. /\ DOMAIN audit_event' = DOMAIN audit_event \cup {event[w]}
      /\ \A i \in DOMAIN audit_event : audit_event'[i] = audit_event[i]
      /\ audit_event'[event[w]].team = t
  BY <1>2, <1>4 DEF Insert, Row
<1>7. CanAppend(audit_event, t, event[w])
  BY <1>2, <1>3, <1>5 DEF CanAppend
<1>8. Extends(audit_event', audit_event, t, Body(w), event[w])
  BY <1>1, <1>2, <1>4, <1>7, AppendKeepsChains
<1> QED
  BY <1>1, <1>6, <1>8 DEF Extends

LEMMA CommitIInv ==
    ASSUME IInv, NEW w \in Writers, Commit(w)
    PROVE  IInv'
<1>0. End(w) /\ pc[w] = "flushed"
  BY DEF Commit
<1>1. TypeOK'
  <2>1. event[w] \in 1 .. (nextId - 1) /\ pending[event[w]] \in Rows
    BY <1>0 DEF IInv, PendingIsNewest, TypeOK
  <2>2. audit_event' \in [DOMAIN audit_event' -> Rows]
    BY <2>1 DEF Commit, Insert, IInv, TypeOK
  <2>3. DOMAIN audit_event' \subseteq 1 .. (nextId - 1)
    BY <2>1, CommitEffect DEF IInv, TypeOK
  <2> QED
    BY <1>0, <2>2, <2>3, EndType
<1>2. LockHeld' /\ PendingOwned'
  BY <1>0, EndEffect
<1>3. ASSUME NEW v \in Writers, v # w, pc[v] \in Holding
      PROVE  Team(v) \in Teams \ {Team(w)}
  <2>1. Team(v) \in Teams
    BY <1>3 DEF IInv, TypeOK, Holding, Team, Payloads
  <2>2. Team(v) # Team(w)
    BY <1>0, <1>3, Exclusion DEF IInv, Holding
  <2> QED
    BY <2>1, <2>2
<1>4. PrevIsLast'
  <2> SUFFICES ASSUME NEW v \in Writers, pc'[v] \in {"linked", "flushed"}
               PROVE  prev'[v] = last_hash(audit_event', Team(v)')
    BY DEF PrevIsLast
  <2>1. v # w /\ pc[v] \in {"linked", "flushed"} /\ prev'[v] = prev[v] /\ Team(v)' = Team(v)
    BY <1>0, EndEffect DEF Team
  <2>2. prev[v] = last_hash(audit_event, Team(v))
    BY <2>1 DEF IInv, PrevIsLast
  <2>3. Team(v) \in Teams \ {Team(w)}
    BY <1>3, <2>1 DEF Holding
  <2> QED
    BY <2>1, <2>2, <2>3, CommitEffect
<1>5. PendingIsNewest'
  <2> SUFFICES ASSUME NEW v \in Writers, pc'[v] = "flushed"
               PROVE  /\ event'[v] \in DOMAIN pending'
                      /\ pending'[event'[v]] = Row(Team(v)', Body(v)', prev'[v])
                      /\ event'[v] \notin DOMAIN audit_event'
                      /\ \A i \in IdsOf(audit_event', Team(v)') : i < event'[v]
    BY DEF PendingIsNewest
  <2>1. v # w /\ pc[v] = "flushed"
    BY <1>0, EndEffect
  <2>2. event[v] # event[w]
    BY <1>0, <2>1 DEF IInv, PendingOwned, PendingIsNewest, TypeOK
  <2>3. Team(v)' = Team(v) /\ Body(v)' = Body(v) /\ prev'[v] = prev[v] /\ event'[v] = event[v]
    BY <1>0, <2>1, EndEffect DEF Team, Body
  <2>4. event[v] \in DOMAIN pending' /\ pending'[event[v]] = pending[event[v]]
    BY <1>0, <2>1, <2>2, EndEffect DEF IInv, PendingIsNewest
  <2>5. event[v] \notin DOMAIN audit_event'
    BY <2>1, <2>2, CommitEffect DEF IInv, PendingIsNewest
  <2>6. IdsOf(audit_event', Team(v)) = IdsOf(audit_event, Team(v))
    BY <1>3, <2>1, CommitEffect DEF Holding
  <2> QED
    BY <2>1, <2>3, <2>4, <2>5, <2>6 DEF IInv, PendingIsNewest
<1>6. HasLast'
  <2> SUFFICES ASSUME NEW t \in Teams, IdsOf(audit_event', t) # {}
               PROVE  \E i \in IdsOf(audit_event', t) : IsLast(audit_event', t, i)
    BY DEF HasLast
  <2>1. CASE t = Team(w)
    BY <2>1, CommitEffect DEF IsLast
  <2>2. CASE t # Team(w)
    BY <2>2, CommitEffect DEF IInv, HasLast, IsLast
  <2> QED
    BY <2>1, <2>2
<1>7. ChainVerifies'
  BY CommitEffect DEF ChainVerifies
<1> QED
  BY <1>1, <1>2, <1>4, <1>5, <1>6, <1>7 DEF IInv

LEMMA NextIInv == IInv /\ [Next]_vars => IInv'
<1> SUFFICES ASSUME IInv, [Next]_vars PROVE IInv'
  OBVIOUS
<1>1. ASSUME NEW w \in Writers, NEW payload \in Payloads, Begin(w, payload) PROVE IInv'
  BY <1>1, BeginIInv
<1>2. ASSUME NEW w \in Writers, Lock(w) PROVE IInv'
  BY <1>2, LockIInv
<1>3. ASSUME NEW w \in Writers, LockFails(w) PROVE IInv'
  BY <1>3, LockFailsIInv
<1>4. ASSUME NEW w \in Writers, ReadLast(w) PROVE IInv'
  BY <1>4, ReadLastIInv
<1>5. ASSUME NEW w \in Writers, Flush(w) PROVE IInv'
  BY <1>5, FlushIInv
<1>6. ASSUME NEW w \in Writers, StatementFails(w) PROVE IInv'
  BY <1>6, StatementFailsIInv
<1>7. ASSUME NEW w \in Writers, Commit(w) PROVE IInv'
  BY <1>7, CommitIInv
<1>8. ASSUME NEW w \in Writers, Rollback(w) PROVE IInv'
  BY <1>8, RollbackIInv
<1>9. CASE UNCHANGED vars
  BY <1>9 DEF vars, IInv, TypeOK, LockHeld, PrevIsLast, PendingIsNewest, PendingOwned,
              HasLast, ChainVerifies, Key, Team, Body
<1> QED
  BY <1>1, <1>2, <1>3, <1>4, <1>5, <1>6, <1>7, <1>8, <1>9 DEF Next, Proceed

\* The invariant of concurrent record_event transactions.
THEOREM Invariance == Spec => []IInv
  BY InitIInv, NextIInv, PTL DEF Spec

\* Tables hold well-formed rows under ids already drawn, for every instance.
THEOREM TypeCorrect == Spec => []TypeOK
<1>1. IInv => TypeOK
  BY DEF IInv
<1> QED
  BY <1>1, Invariance, PTL

\* verify_chain accepts whatever record_event has written: concurrent
\* transactions of any number of writers and teams cannot fork a chain.
THEOREM ChainNeverForks == Spec => []ChainVerifies
<1>1. IInv => ChainVerifies
  BY DEF IInv
<1> QED
  BY <1>1, Invariance, PTL

-----------------------------------------------------------------------------
(* The chain implements the abstract log *)

\* A commit appends one event to the log of the writer's team.
LEMMA CommitAppends ==
    ASSUME IInv, NEW w \in Writers, Commit(w)
    PROVE  Log!AppendEvent(Team(w), call[w]) /\ Team(w) \in Teams /\ call[w] \in Payloads
<1>1. call[w] \in Payloads /\ call[w] = <<Team(w), Body(w)>>
  BY DEF Commit, IInv, TypeOK, Payloads, Team, Body
<1>2. \A t \in Teams : last_hash(audit_event', t) =
          IF t = Team(w) THEN Append(last_hash(audit_event, t), call[w])
                         ELSE last_hash(audit_event, t)
  BY <1>1, CommitEffect
<1>3. Team(w) \in Teams
  BY CommitEffect
<1> QED
  BY <1>1, <1>2, <1>3 DEF Log!AppendEvent

\* Every other step leaves the committed rows, and so the log, as they are.
LEMMA OtherStepsStutter ==
    ASSUME UNCHANGED audit_event
    PROVE  UNCHANGED [t \in Teams |-> last_hash(audit_event, t)]
  OBVIOUS

\* Seen through the newest hash of each team, concurrent transactions are an
\* append-only log: a detailed behaviour of record_event is a behaviour of
\* AuditLog.
THEOREM Refinement == Spec => ImplementsAuditLog
<1>1. Init => Log!Init
  BY DEF Init, Log!Init, last_hash, IdsOf, NoRows, GENESIS_HASH
<1>2. IInv /\ [Next]_vars => [Log!Next]_([t \in Teams |-> last_hash(audit_event, t)])
  <2> SUFFICES ASSUME IInv, [Next]_vars
               PROVE  Log!Next \/ UNCHANGED [t \in Teams |-> last_hash(audit_event, t)]
    OBVIOUS
  <2>1. ASSUME NEW w \in Writers, Commit(w) PROVE Log!Next
    BY <2>1, CommitAppends DEF Log!Next
  <2>2. ASSUME UNCHANGED audit_event
        PROVE  UNCHANGED [t \in Teams |-> last_hash(audit_event, t)]
    BY <2>2, OtherStepsStutter
  <2>3. (\E w \in Writers : Commit(w)) \/ UNCHANGED audit_event
    BY DEF Next, Proceed, Begin, Lock, LockFails, ReadLast, Flush, StatementFails,
           Rollback, vars
  <2> QED
    BY <2>1, <2>2, <2>3
<1> QED
  BY <1>1, <1>2, Invariance, PTL DEF Spec, ImplementsAuditLog, Log!Spec

-----------------------------------------------------------------------------
(* Tampering.  Every log that record_event can have written is one in which     *)
(* verify_chain notices an edit, a deletion, an exchange or a replay.  Links    *)
(* alone say something of neighbours.  To compare distant events, the invariant *)
(* adds that hashes grow with the ids of a team (a hash stands for the history  *)
(* it covers), and to speak of neighbours at all, that every id has them.       *)

Size(rows, i) == Len(rows[i].event_hash)

Growing(rows, t) == \A i, j \in IdsOf(rows, t) : i < j => Size(rows, i) < Size(rows, j)

IsPred(rows, t, p, k) == p \in IdsOf(rows, t) /\ p < k /\ \A i \in IdsOf(rows, t) : i < k => i <= p
IsSucc(rows, t, s, k) == s \in IdsOf(rows, t) /\ k < s /\ \A i \in IdsOf(rows, t) : k < i => s <= i

Neighbours(rows, t) ==
    \A k \in Nat :
        /\ (\E i \in IdsOf(rows, t) : i < k) => \E p \in IdsOf(rows, t) : IsPred(rows, t, p, k)
        /\ (\E i \in IdsOf(rows, t) : k < i) => \E s \in IdsOf(rows, t) : IsSucc(rows, t, s, k)

\* A table that record_event may have left, as far as team t goes.
Sound(rows, t) ==
    /\ rows \in [DOMAIN rows -> Rows] /\ DOMAIN rows \subseteq Nat
    /\ verify_chain(rows, t)
    /\ Growing(rows, t) /\ Neighbours(rows, t)

-----------------------------------------------------------------------------
(* Hashes *)

\* A hash is longer than the one it extends, and tells what it was extended by.
LEMMA HashGrows ==
    ASSUME NEW h \in Hashes, NEW p \in Payloads
    PROVE  /\ Len(h) \in Nat
           /\ Len(compute_event_hash(h, p)) = Len(h) + 1
           /\ \A q \in Payloads : compute_event_hash(h, p) = compute_event_hash(h, q) => p = q
<1>1. h \in Seq(Payloads)
  BY DEF Hashes
<1>2. Len(h) \in Nat /\ Len(Append(h, p)) = Len(h) + 1 /\ Append(h, p)[Len(h) + 1] = p
  BY <1>1
<1>3. \A q \in Payloads : Append(h, q)[Len(h) + 1] = q
  BY <1>1
<1> QED BY <1>2, <1>3 DEF compute_event_hash

\* What a sound table says of an event and of its neighbours.
LEMMA EventFacts ==
    ASSUME NEW rows, NEW t \in Teams, Sound(rows, t), NEW i \in IdsOf(rows, t)
    PROVE  /\ i \in Nat /\ i \in DOMAIN rows /\ rows[i] \in Rows /\ rows[i].team = t
           /\ Len(rows[i].prev_hash) \in Nat /\ Size(rows, i) = Len(rows[i].prev_hash) + 1
           /\ \A p \in IdsOf(rows, t) : IsPred(rows, t, p, i) => rows[i].prev_hash = rows[p].event_hash
<1>1. i \in Nat /\ i \in DOMAIN rows /\ rows[i] \in Rows /\ rows[i].team = t
  BY DEF Sound, IdsOf
<1>2. rows[i].prev_hash \in Hashes /\ event_payload(rows[i].team, rows[i].body) \in Payloads
  BY <1>1 DEF Rows, event_payload, Payloads
<1>3. rows[i].event_hash = compute_event_hash(rows[i].prev_hash, event_payload(rows[i].team, rows[i].body))
  BY DEF Sound, verify_chain
<1>4. Len(rows[i].prev_hash) \in Nat /\ Size(rows, i) = Len(rows[i].prev_hash) + 1
  BY <1>2, <1>3, HashGrows DEF Size
<1>5. ASSUME NEW p \in IdsOf(rows, t), IsPred(rows, t, p, i)
      PROVE  rows[i].prev_hash = rows[p].event_hash
  <2>1. Adjacent(rows, t, p, i)
    BY <1>5 DEF IsPred, Adjacent, Sound, IdsOf
  <2> QED BY <2>1 DEF Sound, verify_chain
<1> QED BY <1>1, <1>4, <1>5

-----------------------------------------------------------------------------
(* Tampering *)

\* "altered": the event no longer has the hash of its fields.
LEMMA EditShows ==
    ASSUME NEW rows, NEW t \in Teams, Sound(rows, t), NEW i \in IdsOf(rows, t),
           NEW u \in Teams, NEW b \in Bodies, <<u, b>> # <<t, rows[i].body>>
    PROVE  ~verify_chain(Edited(rows, i, u, b), u)
<1> DEFINE new == Edited(rows, i, u, b)
<1>1. i \in DOMAIN rows /\ rows[i] \in Rows /\ rows[i].team = t
  BY EventFacts
<1>2. /\ i \in DOMAIN new /\ new[i].team = u /\ new[i].body = b
      /\ new[i].prev_hash = rows[i].prev_hash /\ new[i].event_hash = rows[i].event_hash
  BY <1>1 DEF Edited, Rows, Sound
<1>3. rows[i].event_hash = compute_event_hash(rows[i].prev_hash, event_payload(t, rows[i].body))
  BY <1>1 DEF Sound, verify_chain
<1>4. /\ rows[i].prev_hash \in Hashes
      /\ event_payload(t, rows[i].body) \in Payloads /\ event_payload(u, b) \in Payloads
      /\ event_payload(t, rows[i].body) # event_payload(u, b)
  BY <1>1 DEF Rows, event_payload, Payloads
<1>5. new[i].event_hash # compute_event_hash(new[i].prev_hash, event_payload(new[i].team, new[i].body))
  BY <1>2, <1>3, <1>4, HashGrows
<1>6. i \in IdsOf(new, u)
  BY <1>2 DEF IdsOf
<1> QED BY <1>5, <1>6 DEF verify_chain

\* "deleted": the next event links to what is gone.
LEMMA DeletionShows ==
    ASSUME NEW rows, NEW t \in Teams, Sound(rows, t), NEW i \in IdsOf(rows, t), ~IsLast(rows, t, i)
    PROVE  ~verify_chain(Removed(rows, i), t)
<1> DEFINE new == Removed(rows, i)
<1>1. DOMAIN new = DOMAIN rows \ {i} /\ \A j \in DOMAIN new : new[j] = rows[j]
  BY DEF Removed
<1>2. IdsOf(new, t) = IdsOf(rows, t) \ {i}
  BY <1>1 DEF IdsOf
<1>3. \A j \in IdsOf(rows, t) : j \in Nat
  BY EventFacts
<1>4. PICK s \in IdsOf(rows, t) : IsSucc(rows, t, s, i)
  BY <1>3 DEF IsLast, Sound, Neighbours
<1>5. IsPred(rows, t, i, s)
  BY <1>3, <1>4 DEF IsSucc, IsPred
<1>6. rows[s].prev_hash = rows[i].event_hash /\ Size(rows, i) > 0 /\ Size(rows, i) \in Nat
  BY <1>5, EventFacts
<1>7. s \in IdsOf(new, t) /\ new[s] = rows[s]
  BY <1>1, <1>2, <1>3, <1>4 DEF IsSucc, IdsOf
<1>8. CASE \E j \in IdsOf(rows, t) : j < i
  <2>1. PICK p \in IdsOf(rows, t) : IsPred(rows, t, p, i)
    BY <1>3, <1>8 DEF Sound, Neighbours
  <2>2. Adjacent(new, t, p, s) /\ new[p] = rows[p]
    BY <1>1, <1>2, <1>3, <1>4, <1>7, <2>1 DEF IsSucc, IsPred, Adjacent, IdsOf
  <2>3. Size(rows, p) < Size(rows, i)
    BY <2>1 DEF IsPred, Sound, Growing
  <2>4. Size(rows, p) \in Nat
    BY EventFacts
  <2>5. new[s].prev_hash # new[p].event_hash
    BY <1>6, <1>7, <2>2, <2>3, <2>4 DEF Size
  <2> QED BY <1>7, <2>2, <2>5 DEF verify_chain, Adjacent
<1>9. CASE ~\E j \in IdsOf(rows, t) : j < i
  <2>1. IsFirst(new, t, s)
    BY <1>2, <1>3, <1>4, <1>7, <1>9 DEF IsSucc, IsFirst
  <2>2. new[s].prev_hash # GENESIS_HASH
    BY <1>6, <1>7 DEF GENESIS_HASH, Size
  <2> QED BY <1>7, <2>1, <2>2 DEF verify_chain
<1> QED BY <1>8, <1>9

\* "reordered": the later of the two is too long a history for its new place.
LEMMA ExchangeShows ==
    ASSUME NEW rows, NEW t \in Teams, Sound(rows, t),
           NEW a \in IdsOf(rows, t), NEW b \in IdsOf(rows, t), a < b,
           NEW new, DOMAIN new = DOMAIN rows, new[a] = rows[b], new[b] = rows[a],
           \A j \in DOMAIN rows \ {a, b} : new[j] = rows[j]
    PROVE  ~verify_chain(new, t)
<1>1. IdsOf(new, t) = IdsOf(rows, t)
  BY DEF IdsOf
<1>2. \A j \in IdsOf(rows, t) : j \in Nat /\ j \in DOMAIN rows /\ Size(rows, j) \in Nat /\ Size(rows, j) > 0
  BY EventFacts
<1>3. PICK q \in IdsOf(rows, t) : IsPred(rows, t, q, b)
  BY <1>2 DEF Sound, Neighbours
<1>4. rows[b].prev_hash = rows[q].event_hash
  BY <1>3, EventFacts
<1>5. q = a \/ a < q
  BY <1>2, <1>3 DEF IsPred
<1>6. Size(rows, a) <= Size(rows, q)
  BY <1>2, <1>5 DEF Sound, Growing
<1>7. CASE \E j \in IdsOf(rows, t) : j < a
  <2>1. PICK p \in IdsOf(rows, t) : IsPred(rows, t, p, a)
    BY <1>2, <1>7 DEF Sound, Neighbours
  <2>2. p < a /\ p # a /\ p # b
    BY <1>2, <2>1 DEF IsPred
  <2>3. Adjacent(new, t, p, a)
    BY <1>1, <1>2, <2>1 DEF IsPred, Adjacent
  <2>4. new[p] = rows[p]
    BY <1>2, <2>2
  <2>5. Size(rows, p) < Size(rows, a)
    BY <2>2 DEF Sound, Growing
  <2>6. new[a].prev_hash # new[p].event_hash
    BY <1>2, <1>4, <1>6, <2>4, <2>5 DEF Size
  <2> QED BY <1>1, <2>3, <2>6 DEF verify_chain
<1>8. CASE ~\E j \in IdsOf(rows, t) : j < a
  <2>1. IsFirst(new, t, a)
    BY <1>1, <1>2, <1>8 DEF IsFirst
  <2>2. new[a].prev_hash # GENESIS_HASH
    BY <1>2, <1>4 DEF GENESIS_HASH, Size
  <2> QED BY <1>1, <2>1, <2>2 DEF verify_chain
<1> QED BY <1>7, <1>8

\* "inserted": a copy does not fit between the events of its new place.
LEMMA ReplayShows ==
    ASSUME NEW rows, NEW t \in Teams, Sound(rows, t), NEW i \in IdsOf(rows, t),
           NEW k \in Nat, k \notin DOMAIN rows
    PROVE  ~verify_chain(Insert(rows, k, rows[i]), t)
<1> DEFINE new == Insert(rows, k, rows[i])
<1>1. DOMAIN new = DOMAIN rows \cup {k} /\ new[k] = rows[i] /\ \A j \in DOMAIN rows : new[j] = rows[j]
  BY DEF Insert
<1>2. \A j \in IdsOf(rows, t) : j \in Nat /\ j \in DOMAIN rows /\ Size(rows, j) \in Nat
  BY EventFacts
<1>3. IdsOf(new, t) = IdsOf(rows, t) \cup {k} /\ rows[i].team = t
  BY <1>1 DEF IdsOf
<1>4. k < i \/ i < k
  BY <1>2
<1>5. CASE i < k
  <2>1. PICK p \in IdsOf(rows, t) : IsPred(rows, t, p, k)
    BY <1>5 DEF Sound, Neighbours
  <2>2. Adjacent(new, t, p, k)
    BY <1>2, <1>3, <2>1 DEF IsPred, Adjacent
  <2>3. i = p \/ i < p
    BY <1>2, <1>5, <2>1 DEF IsPred
  <2>4. Size(rows, i) <= Size(rows, p)
    BY <1>2, <2>3 DEF Sound, Growing
  <2>5. Len(rows[i].prev_hash) \in Nat /\ Size(rows, i) = Len(rows[i].prev_hash) + 1
    BY EventFacts
  <2>6. new[k].prev_hash # new[p].event_hash
    BY <1>1, <1>2, <2>4, <2>5 DEF Size
  <2> QED BY <1>3, <2>2, <2>6 DEF verify_chain
<1>6. CASE k < i
  <2>1. PICK s \in IdsOf(rows, t) : IsSucc(rows, t, s, k)
    BY <1>6 DEF Sound, Neighbours
  <2>2. Adjacent(new, t, k, s)
    BY <1>2, <1>3, <2>1 DEF IsSucc, Adjacent
  <2>3. s = i \/ s < i
    BY <1>2, <1>6, <2>1 DEF IsSucc
  <2>4. Size(rows, s) <= Size(rows, i)
    BY <1>2, <2>3 DEF Sound, Growing
  <2>5. Len(rows[s].prev_hash) \in Nat /\ Size(rows, s) = Len(rows[s].prev_hash) + 1
    BY EventFacts
  <2>6. new[s].prev_hash # new[k].event_hash
    BY <1>1, <1>2, <2>4, <2>5 DEF Size
  <2> QED BY <1>3, <2>2, <2>6 DEF verify_chain
<1> QED BY <1>4, <1>5, <1>6

\* A sound table shows every tampering that TamperEvident speaks of.
LEMMA SoundShowsTampering ==
    ASSUME IInv, \A t \in Teams : Sound(audit_event, t)
    PROVE  TamperEvident
<1> SUFFICES ASSUME NEW t \in Teams, NEW i \in IdsOf(audit_event, t)
             PROVE  /\ \A u \in Teams, b \in Bodies :
                           <<u, b>> # <<t, audit_event[i].body>>
                               => ~verify_chain(Edited(audit_event, i, u, b), u)
                    /\ ~IsLast(audit_event, t, i) => ~verify_chain(Removed(audit_event, i), t)
                    /\ \A j \in IdsOf(audit_event, t) \ {i} : ~verify_chain(Swapped(audit_event, i, j), t)
                    /\ \A k \in (1 .. MaxId + 1) \ DOMAIN audit_event :
                           ~verify_chain(Insert(audit_event, k, audit_event[i]), t)
  BY DEF TamperEvident
<1>1. \A u \in Teams, b \in Bodies :
          <<u, b>> # <<t, audit_event[i].body>> => ~verify_chain(Edited(audit_event, i, u, b), u)
  BY EditShows
<1>2. ~IsLast(audit_event, t, i) => ~verify_chain(Removed(audit_event, i), t)
  BY DeletionShows
<1>3. ASSUME NEW j \in IdsOf(audit_event, t) \ {i} PROVE ~verify_chain(Swapped(audit_event, i, j), t)
  <2> DEFINE new == Swapped(audit_event, i, j)
  <2>1. i \in Nat /\ j \in Nat /\ i \in DOMAIN audit_event /\ j \in DOMAIN audit_event
    BY EventFacts
  <2>2. /\ DOMAIN new = DOMAIN audit_event /\ new[i] = audit_event[j] /\ new[j] = audit_event[i]
        /\ \A k \in DOMAIN audit_event \ {i, j} : new[k] = audit_event[k]
    BY <2>1, <1>3 DEF Swapped, Sound
  <2>3. CASE i < j
    <3> HIDE DEF new
    <3> QED BY <2>2, <2>3, ExchangeShows DEF new
  <2>4. CASE j < i
    <3>1. \A k \in DOMAIN audit_event \ {j, i} : new[k] = audit_event[k]
      BY <2>2
    <3> HIDE DEF new
    <3> QED BY <2>2, <2>4, <3>1, ExchangeShows DEF new
  <2> QED BY <1>3, <2>1, <2>3, <2>4
<1>4. \A k \in (1 .. MaxId + 1) \ DOMAIN audit_event :
          ~verify_chain(Insert(audit_event, k, audit_event[i]), t)
  BY ReplayShows, ConstantsAssumption
<1> QED BY <1>1, <1>2, <1>3, <1>4

-----------------------------------------------------------------------------
(* The tables of record_event are sound *)

Histories == \A t \in Teams : Growing(audit_event, t) /\ Neighbours(audit_event, t)

\* The invariant makes every table sound.
LEMMA InvariantIsSound == IInv /\ Histories => \A t \in Teams : Sound(audit_event, t)
  BY DEF IInv, TypeOK, ChainVerifies, Histories, Sound

\* No hash of a team is longer than the newest.
LEMMA NewestIsLongest ==
    ASSUME IInv, Histories, NEW t \in Teams, NEW i \in IdsOf(audit_event, t)
    PROVE  Size(audit_event, i) <= Len(last_hash(audit_event, t)) /\ Size(audit_event, i) \in Nat
<1>1. Sound(audit_event, t)
  BY InvariantIsSound
<1>2. PICK l \in IdsOf(audit_event, t) : IsLast(audit_event, t, l)
  BY DEF IInv, HasLast
<1>3. last_hash(audit_event, t) = audit_event[l].event_hash
  BY <1>1, <1>2, LastHashOfLast DEF Sound
<1>4. l \in Nat /\ i \in Nat /\ Size(audit_event, l) \in Nat /\ Size(audit_event, i) \in Nat
  BY <1>1, EventFacts
<1>5. i = l \/ i < l
  BY <1>2, <1>4 DEF IsLast
<1> QED BY <1>1, <1>3, <1>4, <1>5 DEF Sound, Growing, Size

\* A commit appends the longest hash, after all other events of its team.
LEMMA CommitKeepsHistories ==
    ASSUME IInv, Histories, NEW w \in Writers, Commit(w)
    PROVE  Histories'
<1> DEFINE n == event[w]
<1>1. /\ Team(w) \in Teams
      /\ DOMAIN audit_event' = DOMAIN audit_event \cup {n}
      /\ \A i \in DOMAIN audit_event : audit_event'[i] = audit_event[i]
      /\ audit_event'[n].team = Team(w)
      /\ \A u \in Teams \ {Team(w)} : IdsOf(audit_event', u) = IdsOf(audit_event, u)
  BY CommitEffect
<1>2. n \in Nat /\ n \notin DOMAIN audit_event /\ \A i \in IdsOf(audit_event, Team(w)) : i < n
  BY DEF Commit, IInv, PendingIsNewest, TypeOK
<1>3. \A t \in Teams : \A i \in IdsOf(audit_event, t) :
          i \in Nat /\ i \in DOMAIN audit_event /\ Size(audit_event', i) = Size(audit_event, i)
  BY <1>1, InvariantIsSound, EventFacts DEF Size
<1>4. ASSUME NEW t \in Teams, t # Team(w) PROVE Growing(audit_event', t) /\ Neighbours(audit_event', t)
  BY <1>1, <1>3, <1>4 DEF Histories, Growing, Neighbours, IsPred, IsSucc
<1>5. IdsOf(audit_event', Team(w)) = IdsOf(audit_event, Team(w)) \cup {n}
  BY <1>1, <1>2 DEF IdsOf
<1>6. Size(audit_event', n) = Len(last_hash(audit_event, Team(w))) + 1 /\ Len(last_hash(audit_event, Team(w))) \in Nat
  <2>1. IsLast(audit_event', Team(w), n) /\ n \in IdsOf(audit_event', Team(w)) /\ DOMAIN audit_event' \subseteq Nat
    BY <1>1, <1>2, CommitEffect DEF IsLast, IInv, TypeOK
  <2>2. last_hash(audit_event', Team(w)) = audit_event'[n].event_hash
    BY <2>1, LastHashOfLast
  <2>3. Body(w) \in Bodies /\ last_hash(audit_event, Team(w)) \in Hashes
    BY <1>1, CommitEffect, LastHashType DEF IInv
  <2>4. last_hash(audit_event', Team(w)) = compute_event_hash(last_hash(audit_event, Team(w)), <<Team(w), Body(w)>>)
    BY CommitEffect DEF compute_event_hash
  <2>5. <<Team(w), Body(w)>> \in Payloads
    BY <1>1, <2>3 DEF Payloads
  <2> QED BY <2>2, <2>3, <2>4, <2>5, HashGrows DEF Size
<1>7. Growing(audit_event', Team(w))
  <2>1. \A i \in IdsOf(audit_event, Team(w)) : Size(audit_event', i) < Size(audit_event', n)
    BY <1>1, <1>3, <1>6, NewestIsLongest
  <2> QED BY <1>1, <1>2, <1>3, <1>5, <2>1 DEF Histories, Growing
<1>8. Neighbours(audit_event', Team(w))
  <2> SUFFICES ASSUME NEW k \in Nat
               PROVE  /\ (\E i \in IdsOf(audit_event', Team(w)) : i < k) =>
                             \E p \in IdsOf(audit_event', Team(w)) : IsPred(audit_event', Team(w), p, k)
                      /\ (\E i \in IdsOf(audit_event', Team(w)) : k < i) =>
                             \E s \in IdsOf(audit_event', Team(w)) : IsSucc(audit_event', Team(w), s, k)
    BY DEF Neighbours
  <2>1. CASE n < k
    <3>1. IsPred(audit_event', Team(w), n, k)
      BY <1>1, <1>2, <1>3, <1>5, <2>1 DEF IsPred
    <3>2. ~\E i \in IdsOf(audit_event', Team(w)) : k < i
      BY <1>1, <1>2, <1>3, <1>5, <2>1
    <3> QED BY <1>5, <3>1, <3>2
  <2>2. CASE ~(n < k)
    <3>1. ASSUME NEW i \in IdsOf(audit_event', Team(w)), i < k
          PROVE  \E p \in IdsOf(audit_event', Team(w)) : IsPred(audit_event', Team(w), p, k)
      <4>1. i \in IdsOf(audit_event, Team(w))
        BY <1>5, <2>2, <3>1
      <4>2. PICK p \in IdsOf(audit_event, Team(w)) : IsPred(audit_event, Team(w), p, k)
        BY <1>1, <3>1, <4>1 DEF Histories, Neighbours
      <4> QED BY <1>5, <2>2, <4>2 DEF IsPred
    <3>2. ASSUME NEW i \in IdsOf(audit_event', Team(w)), k < i
          PROVE  \E s \in IdsOf(audit_event', Team(w)) : IsSucc(audit_event', Team(w), s, k)
      <4>1. CASE \E j \in IdsOf(audit_event, Team(w)) : k < j
        <5>1. PICK s \in IdsOf(audit_event, Team(w)) : IsSucc(audit_event, Team(w), s, k)
          BY <1>1, <4>1 DEF Histories, Neighbours
        <5>2. s < n /\ s \in Nat
          BY <1>1, <1>2, <1>3
        <5> QED BY <1>2, <1>5, <5>1, <5>2 DEF IsSucc
      <4>2. CASE ~\E j \in IdsOf(audit_event, Team(w)) : k < j
        <5>1. i = n
          BY <1>5, <3>2, <4>2
        <5>2. IsSucc(audit_event', Team(w), n, k)
          BY <1>2, <1>5, <3>2, <4>2, <5>1 DEF IsSucc
        <5> QED BY <1>5, <5>2
      <4> QED BY <4>1, <4>2
    <3> QED BY <3>1, <3>2
  <2> QED BY <2>1, <2>2
<1> QED BY <1>4, <1>7, <1>8 DEF Histories

\* Every log that concurrent record_event transactions write is one that cannot
\* be edited, thinned, reordered or padded unnoticed (verify_chain).
THEOREM TamperingShows == Spec => []TamperEvident
<1>1. Init => Histories
  BY DEF Init, Histories, Growing, Neighbours, IdsOf, NoRows
<1>2. IInv /\ Histories /\ [Next]_vars => Histories'
  <2> SUFFICES ASSUME IInv, Histories, [Next]_vars PROVE Histories'
    OBVIOUS
  <2>1. ASSUME UNCHANGED audit_event PROVE Histories'
    BY <2>1 DEF Histories, Growing, Neighbours, IdsOf, Size, IsPred, IsSucc
  <2>2. (\E w \in Writers : Commit(w)) \/ UNCHANGED audit_event
    BY DEF Next, Proceed, Begin, Lock, LockFails, ReadLast, Flush, StatementFails, Rollback, vars
  <2> QED BY <2>1, <2>2, CommitKeepsHistories
<1>3. IInv /\ Histories => TamperEvident
  BY InvariantIsSound, SoundShowsTampering
<1> QED BY <1>1, <1>2, <1>3, Invariance, PTL DEF Spec

-----------------------------------------------------------------------------
(* The dictionary of a desktop project *)

\* What the tables hold, as spellings with their entities.
RowSpellings(n) == {entity[n].value} \cup {s \in DOMAIN variant : variant[s] = n}

Stocks(f, s) == \E n \in DOMAIN entity : entity[n].fp = f /\ s \in RowSpellings(n)

Stocked(s) == \E n \in DOMAIN entity : s \in RowSpellings(n)

\* The version of a dictionary that is compiled now.
Weight == 8 * Cardinality(DOMAIN entity) + 7 * Cardinality(DOMAIN variant)

\* The objects of the cache.
Cached == {<<load, n>> : n \in DOMAIN entity}

\* Objects that the cache still has.
Live(ids) == cached /\ \A id \in ids : id[1] = load

Deleting == \E u \in Threads : at[u] = "deleted"

Compiling == {t \in Threads : at[t] \in {"version", "build"}}
Checking  == {t \in Threads : at[t] = "version"}

Tables ==
    /\ \E k \in Nat : DOMAIN entity \subseteq 0 .. k
    /\ IsFiniteSet(DOMAIN variant)
    /\ \A s \in DOMAIN variant : variant[s] \in DOMAIN entity
    /\ \A m, n \in DOMAIN entity : entity[m].fp = entity[n].fp => m = n

Cache ==
    /\ load \in Nat /\ cached \in BOOLEAN
    /\ \A id \in DOMAIN heap : id = <<id[1], id[2]>> /\ id[1] \in Nat /\ id[1] <= load
    /\ InStep

Shape ==
    /\ DOMAIN at = Threads /\ DOMAIN ents = Threads /\ DOMAIN version = Threads /\ DOMAIN got = Threads
    /\ DOMAIN arg = Threads /\ DOMAIN target = Threads /\ DOMAIN old = Threads
    /\ DOMAIN crossed = Threads /\ DOMAIN late = Threads /\ DOMAIN withdrawn = Threads
    /\ DOMAIN known = Threads /\ DOMAIN seen = Threads

Requests ==
    /\ \A t \in Threads : at[t] \notin Scanning \cup {"use"} => ents[t] = {}
    /\ \A t \in Threads : at[t] \in {"spelling", "canonical", "old"} => target[t] \in DOMAIN heap
    /\ \A t \in Compiling : /\ ents[t] \subseteq DOMAIN heap /\ IsFiniteSet(ents[t])
                            /\ \E F : IsFiniteSet(F) /\ \A id \in ents[t] : heap[id].variants \subseteq F

Watching ==
    \A t \in Threads : at[t] \in Scanning \cup {"use"} =>
        /\ \A p \in known[t] : Stocks(p[1], p[2])
        /\ \A s : Stocked(s) => s \in seen[t]

\* The objects have what scan t must find, and nothing that it must not.
Fits(t, ids) ==
    /\ \A p \in known[t] : \E id \in ids : heap[id].fp = p[1] /\ p[2] \in Spellings(heap[id])
    /\ \A id \in ids : Spellings(heap[id]) \subseteq seen[t]

Suits(t, S) == Second(known[t]) \cap Listed \subseteq S /\ S \subseteq seen[t]

Own ==
    /\ \A t \in Compiling : Fits(t, ents[t])
    /\ \A t \in Threads : at[t] = "store" => Suits(t, got[t])
    /\ \A t \in Threads : at[t] = "use" /\ ~late[t] => Suits(t, got[t])

Moving(b) ==
    /\ Awaiting = {} => Live(ents[b]) /\ ents[b] = Cached
    /\ at[b] = "build" => /\ version[b] \in Nat /\ version[b] <= Version(ents[b])
                          /\ version[b] % 7 = Cardinality(ents[b]) % 7
    /\ ~Colliding =>
        /\ Live(ents[b]) \/ (Cardinality(ents[b]) = Cardinality(DOMAIN entity) + 1 /\ Deleting)
        /\ \A t \in Checking :
            \/ Fits(t, ents[b])
            \/ ents[b] \subseteq ents[t]
            \/ Cardinality(ents[b]) % 7 # Cardinality(ents[t]) % 7

Args == {arg[u] : u \in Awaiting}
Withdrawn == UNION {withdrawn[u] : u \in Awaiting}

Recent(v, S) ==
    \/ /\ v <= Weight
       /\ v = Weight => \A s \in Listed \ Args : Stocked(s) => s \in S
       /\ \A s \in S : Stocked(s) \/ s \in Withdrawn
       /\ Awaiting = {} => v % 7 = Cardinality(DOMAIN entity) % 7
    \/ /\ v % 7 = (Cardinality(DOMAIN entity) + 1) % 7
       /\ Deleting

Usable(v, S) ==
    \A t \in Checking :
        \/ Suits(t, S)
        \/ v < Version(ents[t])
        \/ v % 7 # Cardinality(ents[t]) % 7

Fixed(v, S) == v \in Nat /\ (~Colliding => Recent(v, S) /\ Usable(v, S))

Scans == \A b \in Compiling : ~crossed[b] => Moving(b)
Stores == \A b \in Threads : at[b] = "store" /\ ~crossed[b] => Fixed(version[b], got[b])
Kept == dict # None /\ ~dict.crossed => Fixed(dict.version, dict.surfaces)

DictInv == ~apart => Shape /\ Tables /\ Cache /\ Requests /\ Watching /\ Own /\ Scans /\ Stores /\ Kept

-----------------------------------------------------------------------------
(* Counting *)

LEMMA SmallerOrSame ==
    ASSUME NEW S, NEW T, S \subseteq T, IsFiniteSet(T)
    PROVE  /\ IsFiniteSet(S) /\ Cardinality(S) \in Nat /\ Cardinality(T) \in Nat
           /\ Cardinality(S) <= Cardinality(T)
           /\ S # T => Cardinality(S) < Cardinality(T)
BY FS_Subset, FS_CardinalityType

LEMMA BoundedIsFinite ==
    ASSUME NEW S, NEW k \in Nat, S \subseteq 0 .. k
    PROVE  IsFiniteSet(S) /\ Cardinality(S) \in Nat
<1>1. IsFiniteSet(0 .. k)
  BY FS_Interval
<1> QED BY <1>1, SmallerOrSame

\* As many pairs as numbers.
LEMMA PairsCounted ==
    ASSUME NEW S, NEW l, IsFiniteSet(S)
    PROVE  /\ IsFiniteSet({<<l, n>> : n \in S})
           /\ Cardinality({<<l, n>> : n \in S}) = Cardinality(S)
<1> DEFINE T == {<<l, n>> : n \in S}
           f == [n \in S |-> <<l, n>>]
<1>1. f \in Bijection(S, T)
  BY DEF Bijection, Injection, Surjection, IsInjective
<1> QED BY <1>1, FS_Bijection DEF ExistsBijection

\* As many variants as spellings in the table.
LEMMA VariantsCounted ==
    ASSUME NEW l, NEW v, IsFiniteSet(DOMAIN v)
    PROVE  /\ IsFiniteSet({<<<<l, v[s]>>, s>> : s \in DOMAIN v})
           /\ Cardinality({<<<<l, v[s]>>, s>> : s \in DOMAIN v}) = Cardinality(DOMAIN v)
<1> DEFINE S == DOMAIN v
           T == {<<<<l, v[s]>>, s>> : s \in S}
           f == [s \in S |-> <<<<l, v[s]>>, s>>]
<1>1. f \in Bijection(S, T)
  BY DEF Bijection, Injection, Surjection, IsInjective
<1> QED BY <1>1, FS_Bijection DEF ExistsBijection

\* The number that is added is new.
LEMMA NewNumber ==
    ASSUME NEW D, NEW k \in Nat, D \subseteq 0 .. k
    PROVE  /\ Max({0} \cup D) + 1 \notin D
           /\ \E j \in Nat : D \cup {Max({0} \cup D) + 1} \subseteq 0 .. j
<1> DEFINE S == {0} \cup D
           T == {z \in Nat : k - z \in S}
<1>0. \A y \in S : y \in Nat /\ k - y \in Nat /\ k - (k - y) = y
  OBVIOUS
<1>1. T \subseteq Nat /\ T # {} /\ \A y \in S : k - y \in T
  BY <1>0
<1>2. PICK d \in T : \A z \in T : d <= z
  BY <1>1, LeastElement
<1>3. PICK x \in S : x = k - d /\ d \in Nat
  BY <1>2
<1>4. \A y \in S : x >= y
  <2> TAKE y \in S
  <2>1. d <= k - y
    BY <1>1, <1>2
  <2> QED BY <1>0, <1>3, <2>1
<1>5. Max(S) \in S /\ \A y \in S : Max(S) >= y
  BY <1>4 DEF Max
<1>6. Max(S) \in Nat /\ Max(S) <= k
  <2>1. \A y \in S : y \in Nat /\ y <= k
    OBVIOUS
  <2> QED BY <1>5, <2>1
<1>7. D \cup {Max(S) + 1} \subseteq 0 .. (k + 1)
  <2>1. PICK m : m = Max(S)
    OBVIOUS
  <2>2. m \in Nat /\ m <= k /\ m + 1 \in 0 .. (k + 1)
    BY <1>6, <2>1
  <2>3. \A y \in D : y \in 0 .. (k + 1)
    OBVIOUS
  <2> QED BY <2>1, <2>2, <2>3
<1>8. \A y \in D : y \in Nat /\ Max(S) >= y
  BY <1>5
<1> QED BY <1>6, <1>7, <1>8

-----------------------------------------------------------------------------
(* The cache *)

\* The object that _load makes of entity n.
RowObject(n) == Entity(n, entity[n].fp, entity[n].value, {s \in DOMAIN variant : variant[s] = n})

LEMMA ObjectSpellings ==
    ASSUME NEW n
    PROVE  /\ Spellings(RowObject(n)) = RowSpellings(n)
           /\ RowObject(n).fp = entity[n].fp /\ RowObject(n).n = n /\ RowObject(n).value = entity[n].value
           /\ RowObject(n).variants = {s \in DOMAIN variant : variant[s] = n}
BY DEF RowObject, Entity, Spellings, RowSpellings

LEMMA FromRowsIs ==
    ASSUME NEW l
    PROVE  /\ DOMAIN FromRows(l) = {<<l, n>> : n \in DOMAIN entity}
           /\ \A n \in DOMAIN entity : FromRows(l)[<<l, n>>] = RowObject(n)
<1>1. DOMAIN FromRows(l) = {<<l, n>> : n \in DOMAIN entity}
  BY DEF FromRows
<1>2. ASSUME NEW n \in DOMAIN entity
      PROVE  FromRows(l)[<<l, n>>] = RowObject(n)
  <2>1. <<l, n>> \in {<<l, m>> : m \in DOMAIN entity} /\ <<l, n>>[2] = n
    BY <1>2
  <2> QED BY <2>1 DEF FromRows, RowObject
<1> QED BY <1>1, <1>2

\* While they are in step the cache holds one object for each row, and no other.
LEMMA CacheIs ==
    ASSUME Cache, cached
    PROVE  /\ Memory.load = load /\ Memory.heap = heap
           /\ \A id \in DOMAIN heap : id[1] = load => id \in Cached
           /\ \A n \in DOMAIN entity : <<load, n>> \in DOMAIN heap /\ heap[<<load, n>>] = RowObject(n)
<1>1. Memory.load = load /\ Memory.heap = heap
  BY DEF Memory
<1> DEFINE O == {id \in DOMAIN heap : id[1] = load}
<1>2. Objects(Memory) = O
  BY <1>1 DEF Objects
<1>3. Only(heap, O) = FromRows(load)
  BY <1>2 DEF Cache, InStep
<1>4. DOMAIN Only(heap, O) = O /\ \A id \in O : Only(heap, O)[id] = heap[id]
  BY DEF Only
<1>5. O = Cached
  BY <1>3, <1>4, FromRowsIs DEF Cached
<1>6. ASSUME NEW n \in DOMAIN entity
      PROVE  <<load, n>> \in DOMAIN heap /\ heap[<<load, n>>] = RowObject(n)
  <2>1. <<load, n>> \in O
    BY <1>5, <1>6 DEF Cached
  <2> QED BY <2>1, <1>3, <1>4, <1>6, FromRowsIs
<1> QED BY <1>1, <1>5, <1>6

\* What _load leaves in memory.
LEMMA MemoryIs ==
    ASSUME Cache, Tables
    PROVE  /\ Memory.load \in Nat /\ Memory.load = IF cached THEN load ELSE load + 1
           /\ Objects(Memory) = {<<Memory.load, n>> : n \in DOMAIN entity}
           /\ \A n \in DOMAIN entity : /\ <<Memory.load, n>> \in DOMAIN Memory.heap
                                       /\ Memory.heap[<<Memory.load, n>>] = RowObject(n)
           /\ \A id \in DOMAIN Memory.heap : id = <<id[1], id[2]>> /\ id[1] \in Nat /\ id[1] <= Memory.load
           /\ \A id \in DOMAIN heap : id \in Range(target) \cup UNION Range(ents) =>
                id \in DOMAIN Memory.heap /\ Memory.heap[id] = heap[id]
<1>1. CASE cached
  <2>1. Memory.load = load /\ Memory.heap = heap
    BY <1>1, CacheIs
  <2>2. Objects(Memory) = {<<load, n>> : n \in DOMAIN entity}
    BY <1>1, <2>1, CacheIs DEF Objects, Cached
  <2> QED BY <1>1, <2>1, <2>2, CacheIs DEF Cache
<1>2. CASE ~cached
  <2> DEFINE fresh == FromRows(load + 1)
             H == Range(target) \cup UNION Range(ents)
             held == Only(heap, H)
             h == [id \in DOMAIN fresh \cup DOMAIN held |-> IF id \in DOMAIN fresh THEN fresh[id] ELSE held[id]]
  <2>1. Memory.load = load + 1 /\ Memory.heap = h
    BY <1>2 DEF Memory
  <2>2. DOMAIN held = DOMAIN heap \cap H /\ \A id \in DOMAIN held : held[id] = heap[id]
    BY DEF Only
  <2>3. DOMAIN fresh = {<<load + 1, n>> : n \in DOMAIN entity}
    BY FromRowsIs
  <2>4. \A n \in DOMAIN entity : fresh[<<load + 1, n>>] = RowObject(n)
    BY FromRowsIs
  <2>5. load \in Nat /\ \A id \in DOMAIN heap : id = <<id[1], id[2]>> /\ id[1] \in Nat /\ id[1] <= load
    BY DEF Cache
  <2> HIDE DEF fresh, held, H
  <2>6. \A id \in DOMAIN fresh : id \notin DOMAIN heap /\ id = <<id[1], id[2]>> /\ id[1] = load + 1
    BY <2>3, <2>5
  <2>7. DOMAIN h = DOMAIN fresh \cup DOMAIN held
    OBVIOUS
  <2>8. \A id \in DOMAIN fresh : h[id] = fresh[id]
    OBVIOUS
  <2>9. \A id \in DOMAIN held : h[id] = heap[id]
    BY <2>2, <2>6
  <2> HIDE DEF h
  <2>10. {id \in DOMAIN h : id[1] = load + 1} = DOMAIN fresh
    <3>1. \A id \in DOMAIN held : id[1] # load + 1
      BY <2>2, <2>5
    <3> QED BY <2>6, <2>7, <3>1
  <2>11. Objects(Memory) = DOMAIN fresh
    BY <2>1, <2>10 DEF Objects
  <2>12. \A n \in DOMAIN entity : <<load + 1, n>> \in DOMAIN h /\ h[<<load + 1, n>>] = RowObject(n)
    BY <2>3, <2>4, <2>7, <2>8
  <2>13. \A id \in DOMAIN h : id = <<id[1], id[2]>> /\ id[1] \in Nat /\ id[1] <= load + 1
    BY <2>2, <2>5, <2>6, <2>7
  <2>14. \A id \in DOMAIN heap : id \in H => id \in DOMAIN h /\ h[id] = heap[id]
    BY <2>2, <2>7, <2>9
  <2> QED BY <1>2, <2>1, <2>3, <2>5, <2>11, <2>12, <2>13, <2>14 DEF H
<1> QED BY <1>1, <1>2

\* So entities() answers from the tables.
LEMMA HoldingsIs ==
    ASSUME Cache, Tables
    PROVE  /\ \A p \in Holdings : p = <<p[1], p[2]>> /\ Stocks(p[1], p[2])
           /\ \A f, s : Stocks(f, s) => <<f, s>> \in Holdings
           /\ \A s : s \in Current <=> Stocked(s)
<1> DEFINE E == {Memory.heap[id] : id \in Objects(Memory)}
<1>1. \A e : e \in E <=> \E n \in DOMAIN entity : e = RowObject(n)
  <2>1. PICK O : O = Objects(Memory)
    OBVIOUS
  <2>2. PICK l : l = Memory.load
    OBVIOUS
  <2>3. O = {<<l, n>> : n \in DOMAIN entity} /\ \A n \in DOMAIN entity : Memory.heap[<<l, n>>] = RowObject(n)
    BY <2>1, <2>2, MemoryIs
  <2>4. E = {Memory.heap[id] : id \in O}
    BY <2>1
  <2> HIDE DEF E
  <2> QED BY <2>3, <2>4
<1>2. Holdings = UNION {{<<e.fp, s>> : s \in Spellings(e)} : e \in E}
  BY DEF Holdings
<1> HIDE DEF E
<1>3. \A p : p \in Holdings <=> \E e \in E : \E s \in Spellings(e) : p = <<e.fp, s>>
  BY <1>2
<1>4. \A p : p \in Holdings <=> \E n \in DOMAIN entity : \E s \in RowSpellings(n) : p = <<entity[n].fp, s>>
  BY <1>1, <1>3, ObjectSpellings
<1>5. \A p \in Holdings : p = <<p[1], p[2]>> /\ Stocks(p[1], p[2])
  BY <1>4 DEF Stocks
<1>6. \A f, s : Stocks(f, s) => <<f, s>> \in Holdings
  BY <1>4 DEF Stocks
<1>7. \A s : s \in Current <=> \E p \in Holdings : s = p[2]
  BY DEF Current, Second
<1>8. \A s : s \in Current <=> Stocked(s)
  <2>1. ASSUME NEW s, s \in Current PROVE Stocked(s)
    BY <1>4, <1>7, <2>1 DEF Stocked
  <2>2. ASSUME NEW s, Stocked(s) PROVE s \in Current
    <3>1. PICK n \in DOMAIN entity : s \in RowSpellings(n)
      BY <2>2 DEF Stocked
    <3>2. <<entity[n].fp, s>> \in Holdings
      BY <1>4, <3>1
    <3>3. <<entity[n].fp, s>>[2] = s
      OBVIOUS
    <3> QED BY <1>7, <3>2, <3>3
  <2> QED BY <2>1, <2>2
<1> QED BY <1>5, <1>6, <1>8

-----------------------------------------------------------------------------
(* What a step does to the vault *)

Writing == {t \in Threads : at[t] \in {"spelling", "canonical", "old"}}

\* The objects that a request is going to read or to write.
Busy == {target[t] : t \in Writing} \cup UNION {ents[t] : t \in Compiling}

\* They stay.  A variant may be added to one; and one that changes is in the cache.
Evolves ==
    \E x : \A id \in Busy :
        /\ id \in DOMAIN heap'
        /\ heap'[id].fp = heap[id].fp
        /\ heap[id].variants \subseteq heap'[id].variants
        /\ heap'[id].variants \subseteq heap[id].variants \cup {x}
        /\ heap'[id] = heap[id] \/ (cached' /\ id[1] = load')

\* Six kinds of steps.
Loads == UNCHANGED <<entity, variant>> /\ (UNCHANGED <<load, cached, heap>> \/ Keep(Memory))

Spells == cached /\ \E id \in Cached : \E s : AddVariant(id, s) /\ s \notin heap[id].variants

Corrects(n, v) ==
    /\ cached
    /\ n \in DOMAIN entity
    /\ heap' = [heap EXCEPT ![<<load, n>>] = Entity(n, entity[n].fp, v, heap[<<load, n>>].variants)]
    /\ entity' = Put(entity, n, [fp |-> entity[n].fp, value |-> v])
    /\ UNCHANGED <<variant, load, cached>>

Adds(n, f, v) ==
    /\ n = Max({0} \cup DOMAIN entity) + 1
    /\ \A k \in DOMAIN entity : entity[k].fp # f
    /\ entity' = Put(entity, n, [fp |-> f, value |-> v])
    /\ heap' = Put(Memory.heap, <<Memory.load, n>>, Entity(n, f, v, {}))
    /\ load' = Memory.load /\ cached' = TRUE
    /\ UNCHANGED variant

Deletes(n) ==
    /\ n \in DOMAIN entity
    /\ entity' = Only(entity, DOMAIN entity \ {n})
    /\ variant' = Only(variant, {s \in DOMAIN variant : variant[s] # n})
    /\ cached' = FALSE
    /\ UNCHANGED <<load, heap>>

Relocks ==
    /\ Busy = {} /\ Compiling = {}
    /\ UNCHANGED <<entity, variant, load>>
    /\ cached' = FALSE /\ heap' = << >>

\* The parts of the invariant that are about the vault.
Vault == Shape /\ Tables /\ Cache /\ Requests

\* What such a step keeps.
VaultKept ==
    /\ Tables'
    /\ load' \in Nat /\ cached' \in BOOLEAN
    /\ \A id \in DOMAIN heap' : id = <<id[1], id[2]>> /\ id[1] \in Nat /\ id[1] <= load'
    /\ Evolves

LEMMA BusyInHeap ==
    ASSUME Shape, Requests
    PROVE  Busy \subseteq DOMAIN heap /\ Busy \subseteq Range(target) \cup UNION Range(ents)
<1> SUFFICES ASSUME NEW id \in Busy
             PROVE  id \in DOMAIN heap /\ id \in Range(target) \cup UNION Range(ents)
  OBVIOUS
<1>1. CASE \E t \in Compiling : id \in ents[t]
  <2>1. PICK t \in Compiling : id \in ents[t]
    BY <1>1
  <2>2. t \in DOMAIN ents
    BY DEF Compiling, Shape
  <2>3. ents[t] \in Range(ents)
    BY <2>2 DEF Range
  <2> QED BY <2>1, <2>3 DEF Requests
<1>2. CASE \E t \in Writing : id = target[t]
  BY <1>2 DEF Writing, Requests, Shape, Range
<1>3. (\E t \in Compiling : id \in ents[t]) \/ (\E t \in Writing : id = target[t])
  <2>1. id \in UNION {ents[t] : t \in Compiling} \/ id \in {target[t] : t \in Writing}
    BY DEF Busy
  <2> QED BY <2>1
<1> QED BY <1>1, <1>2, <1>3

LEMMA LoadsKeep ==
    ASSUME Vault, Loads
    PROVE  VaultKept
<1>1. Tables'
  BY DEF Vault, Loads, Tables
<1>2. CASE UNCHANGED <<load, cached, heap>>
  <2>1. load' \in Nat /\ cached' \in BOOLEAN
        /\ \A id \in DOMAIN heap' : id = <<id[1], id[2]>> /\ id[1] \in Nat /\ id[1] <= load'
    BY <1>2 DEF Vault, Cache
  <2>2. Evolves
    BY <1>2, BusyInHeap DEF Vault, Evolves
  <2> QED BY <1>1, <2>1, <2>2 DEF VaultKept
<1>3. CASE Keep(Memory)
  <2>1. load' = Memory.load /\ heap' = Memory.heap /\ cached' = TRUE
    BY <1>3 DEF Keep
  <2>2. load' \in Nat /\ cached' \in BOOLEAN
        /\ \A id \in DOMAIN heap' : id = <<id[1], id[2]>> /\ id[1] \in Nat /\ id[1] <= load'
    BY <2>1, MemoryIs DEF Vault
  <2>3. \A id \in Busy : id \in DOMAIN heap' /\ heap'[id] = heap[id]
    BY <2>1, MemoryIs, BusyInHeap DEF Vault
  <2>4. Evolves
    BY <2>3 DEF Evolves
  <2> QED BY <1>1, <2>2, <2>4 DEF VaultKept
<1> QED BY <1>2, <1>3 DEF Loads

LEMMA CachedObject ==
    ASSUME Cache, cached, NEW n \in DOMAIN entity
    PROVE  /\ <<load, n>> \in DOMAIN heap /\ heap[<<load, n>>].n = n
           /\ heap[<<load, n>>].fp = entity[n].fp /\ heap[<<load, n>>].value = entity[n].value
           /\ heap[<<load, n>>].variants = {s \in DOMAIN variant : variant[s] = n}
           /\ Spellings(heap[<<load, n>>]) = RowSpellings(n)
BY CacheIs, ObjectSpellings

\* A variant is added to an object of the cache: to the table too, if they stay in step.
SpellsAt(n, s) ==
    /\ s \notin DOMAIN variant
    /\ variant' = Put(variant, s, n)
    /\ heap' = [heap EXCEPT ![<<load, n>>] =
                  Entity(n, entity[n].fp, entity[n].value, heap[<<load, n>>].variants \cup {s})]
    /\ cached /\ UNCHANGED <<entity, load, cached>>

LEMMA SpellsIs ==
    ASSUME Vault, Spells, InStep'
    PROVE  \E n \in DOMAIN entity : \E s : SpellsAt(n, s)
<1>0. PICK id \in Cached : \E x : AddVariant(id, x) /\ x \notin heap[id].variants
  BY DEF Spells
<1>1. PICK s : AddVariant(id, s) /\ s \notin heap[id].variants
  BY <1>0
<1>2. PICK n \in DOMAIN entity : id = <<load, n>>
  BY <1>1 DEF Cached
<1>3. cached
  BY DEF Spells
<1>4. heap[id].n = n /\ heap[id].fp = entity[n].fp /\ heap[id].value = entity[n].value /\ id \in DOMAIN heap
  BY <1>2, <1>3, CachedObject DEF Vault
<1>5. /\ variant' = IF s \notin DOMAIN variant THEN Put(variant, s, n) ELSE variant
      /\ heap' = [heap EXCEPT ![id] = Entity(n, entity[n].fp, entity[n].value, heap[id].variants \cup {s})]
      /\ UNCHANGED <<entity, load, cached>>
  BY <1>1, <1>4 DEF AddVariant
<1>6. s \notin DOMAIN variant
  <2> SUFFICES ASSUME s \in DOMAIN variant PROVE FALSE
    OBVIOUS
  <2>1. variant' = variant
    BY <1>5
  <2>2. FromRows(load)' = FromRows(load)
    BY <1>5, <2>1 DEF FromRows
  <2>3. Memory' = [load |-> load, heap |-> heap']
    BY <1>3, <1>5 DEF Memory
  <2>4. Objects(Memory)' = {i \in DOMAIN heap' : i[1] = load}
    BY <2>3 DEF Objects
  <2>5. id \in DOMAIN heap' /\ id[1] = load /\ heap'[id].variants = heap[id].variants \cup {s}
    BY <1>2, <1>4, <1>5 DEF Entity
  <2>6. Only(heap, Objects(Memory))' = FromRows(load)
    BY <1>3, <1>5, <2>2 DEF InStep
  <2>7. id \in Objects(Memory)' /\ id \in DOMAIN heap'
    BY <2>4, <2>5
  <2>8. Only(heap, Objects(Memory))'[id] = heap'[id]
    BY <2>7 DEF Only
  <2>9. FromRows(load)[id] = RowObject(n)
    BY <1>2, FromRowsIs
  <2>10. RowObject(n) = heap[id]
    BY <1>2, <1>3, CacheIs DEF Vault
  <2> QED BY <1>1, <2>5, <2>6, <2>8, <2>9, <2>10
<1> QED BY <1>2, <1>3, <1>5, <1>6 DEF SpellsAt

LEMMA SpellsKeep ==
    ASSUME Vault, Spells, InStep'
    PROVE  VaultKept
<1>0. PICK n \in DOMAIN entity : \E s : SpellsAt(n, s)
  BY SpellsIs
<1>1. PICK s : SpellsAt(n, s)
  BY <1>0
<1>a. /\ s \notin DOMAIN variant
      /\ variant' = Put(variant, s, n)
      /\ heap' = [heap EXCEPT ![<<load, n>>] =
                    Entity(n, entity[n].fp, entity[n].value, heap[<<load, n>>].variants \cup {s})]
      /\ cached /\ UNCHANGED <<entity, load, cached>>
  BY <1>1 DEF SpellsAt
<1>2. DOMAIN variant' = DOMAIN variant \cup {s} /\ variant'[s] = n
      /\ \A x \in DOMAIN variant : variant'[x] = variant[x]
  BY <1>a DEF Put
<1>3. IsFiniteSet(DOMAIN variant')
  BY <1>2, FS_AddElement DEF Vault, Tables
<1>4. Tables'
  BY <1>a, <1>2, <1>3 DEF Vault, Tables
<1>5. <<load, n>> \in DOMAIN heap /\ heap[<<load, n>>].fp = entity[n].fp
  BY <1>a, CachedObject DEF Vault
<1>6. DOMAIN heap' = DOMAIN heap /\ \A id \in DOMAIN heap : id # <<load, n>> => heap'[id] = heap[id]
  BY <1>a
<1>7. heap'[<<load, n>>].fp = entity[n].fp /\ heap'[<<load, n>>].variants = heap[<<load, n>>].variants \cup {s}
  BY <1>a, <1>5 DEF Entity
<1>8. Evolves
  <2>1. ASSUME NEW id \in Busy
        PROVE  /\ id \in DOMAIN heap'
               /\ heap'[id].fp = heap[id].fp
               /\ heap[id].variants \subseteq heap'[id].variants
               /\ heap'[id].variants \subseteq heap[id].variants \cup {s}
               /\ heap'[id] = heap[id] \/ (cached' /\ id[1] = load')
    <3>1. id \in DOMAIN heap
      BY BusyInHeap DEF Vault
    <3>2. CASE id # <<load, n>>
      BY <1>6, <3>1, <3>2
    <3>3. CASE id = <<load, n>>
      BY <1>a, <1>5, <1>6, <1>7, <3>1, <3>3
    <3> QED BY <3>2, <3>3
  <2> QED BY <2>1 DEF Evolves
<1>9. /\ load' \in Nat /\ cached' \in BOOLEAN
      /\ \A id \in DOMAIN heap' : id = <<id[1], id[2]>> /\ id[1] \in Nat /\ id[1] <= load'
  BY <1>a, <1>6 DEF Vault, Cache
<1> QED BY <1>4, <1>8, <1>9 DEF VaultKept

LEMMA CorrectsKeep ==
    ASSUME Vault, NEW n, NEW v, Corrects(n, v)
    PROVE  VaultKept
<1>1. /\ n \in DOMAIN entity
      /\ heap' = [heap EXCEPT ![<<load, n>>] = Entity(n, entity[n].fp, v, heap[<<load, n>>].variants)]
      /\ entity' = Put(entity, n, [fp |-> entity[n].fp, value |-> v])
  BY DEF Corrects
<1>2. cached /\ UNCHANGED <<variant, load, cached>>
  BY DEF Corrects
<1>3. DOMAIN entity' = DOMAIN entity /\ \A m \in DOMAIN entity : entity'[m].fp = entity[m].fp
  BY <1>1 DEF Put
<1>4. Tables'
  BY <1>2, <1>3 DEF Vault, Tables
<1>5. <<load, n>> \in DOMAIN heap /\ heap[<<load, n>>].fp = entity[n].fp
  BY <1>1, <1>2, CachedObject DEF Vault
<1>6. DOMAIN heap' = DOMAIN heap /\ \A id \in DOMAIN heap : id # <<load, n>> => heap'[id] = heap[id]
  BY <1>1
<1>7. heap'[<<load, n>>].fp = entity[n].fp /\ heap'[<<load, n>>].variants = heap[<<load, n>>].variants
  BY <1>1, <1>5 DEF Entity
<1>8. Evolves
  <2>1. ASSUME NEW id \in Busy
        PROVE  /\ id \in DOMAIN heap'
               /\ heap'[id].fp = heap[id].fp
               /\ heap[id].variants \subseteq heap'[id].variants
               /\ heap'[id].variants \subseteq heap[id].variants \cup {v}
               /\ heap'[id] = heap[id] \/ (cached' /\ id[1] = load')
    <3>1. id \in DOMAIN heap
      BY BusyInHeap DEF Vault
    <3>2. CASE id # <<load, n>>
      BY <1>6, <3>1, <3>2
    <3>3. CASE id = <<load, n>>
      BY <1>2, <1>5, <1>6, <1>7, <3>1, <3>3
    <3> QED BY <3>2, <3>3
  <2> QED BY <2>1 DEF Evolves
<1>9. /\ load' \in Nat /\ cached' \in BOOLEAN
      /\ \A id \in DOMAIN heap' : id = <<id[1], id[2]>> /\ id[1] \in Nat /\ id[1] <= load'
  BY <1>2, <1>6 DEF Vault, Cache
<1> QED BY <1>4, <1>8, <1>9 DEF VaultKept

LEMMA AddsIs ==
    ASSUME Vault, NEW n, NEW f, NEW v, Adds(n, f, v)
    PROVE  /\ n \notin DOMAIN entity /\ DOMAIN entity' = DOMAIN entity \cup {n}
           /\ entity'[n].fp = f /\ entity'[n].value = v
           /\ \A m \in DOMAIN entity : entity'[m] = entity[m]
           /\ \E k \in Nat : DOMAIN entity' \subseteq 0 .. k
<1>1. PICK k \in Nat : DOMAIN entity \subseteq 0 .. k
  BY DEF Vault, Tables
<1>2. n \notin DOMAIN entity /\ \E j \in Nat : DOMAIN entity \cup {n} \subseteq 0 .. j
  BY <1>1, NewNumber DEF Adds
<1>3. entity' = Put(entity, n, [fp |-> f, value |-> v])
  BY DEF Adds
<1>4. DOMAIN entity' = DOMAIN entity \cup {n} /\ entity'[n] = [fp |-> f, value |-> v]
      /\ \A m \in DOMAIN entity : entity'[m] = entity[m]
  BY <1>2, <1>3 DEF Put
<1> QED BY <1>2, <1>4

LEMMA AddsKeep ==
    ASSUME Vault, NEW n, NEW f, NEW v, Adds(n, f, v)
    PROVE  VaultKept
<1>1. /\ n \notin DOMAIN entity /\ DOMAIN entity' = DOMAIN entity \cup {n}
      /\ entity'[n].fp = f
      /\ \A m \in DOMAIN entity : entity'[m] = entity[m]
      /\ \E k \in Nat : DOMAIN entity' \subseteq 0 .. k
  BY AddsIs
<1>2. variant' = variant /\ \A k \in DOMAIN entity : entity[k].fp # f
  BY DEF Adds
<1>3. Tables'
  BY <1>1, <1>2 DEF Vault, Tables
<1>4. load' = Memory.load /\ cached' = TRUE /\ heap' = Put(Memory.heap, <<Memory.load, n>>, Entity(n, f, v, {}))
  BY DEF Adds
<1>5. PICK l : l = Memory.load
  OBVIOUS
<1>6. PICK h : h = Memory.heap
  OBVIOUS
<1>7. /\ l \in Nat /\ l = IF cached THEN load ELSE load + 1
      /\ \A id \in DOMAIN h : id = <<id[1], id[2]>> /\ id[1] \in Nat /\ id[1] <= l
      /\ \A id \in DOMAIN heap : id \in Range(target) \cup UNION Range(ents) => id \in DOMAIN h /\ h[id] = heap[id]
  BY <1>5, <1>6, MemoryIs DEF Vault
<1>8. DOMAIN heap' = DOMAIN h \cup {<<l, n>>} /\ \A id \in DOMAIN h : id # <<l, n>> => heap'[id] = h[id]
  BY <1>4, <1>5, <1>6 DEF Put
<1>9. \A id \in DOMAIN heap' : id = <<id[1], id[2]>> /\ id[1] \in Nat /\ id[1] <= l
  BY <1>7, <1>8
<1>10. <<l, n>> \notin DOMAIN heap
  <2>1. CASE cached
    <3>1. \A id \in DOMAIN heap : id[1] = load => id \in Cached
      BY <2>1, CacheIs DEF Vault
    <3> QED BY <1>1, <1>7, <2>1, <3>1 DEF Cached
  <2>2. CASE ~cached
    <3>1. \A id \in DOMAIN heap : id[1] <= load /\ load \in Nat
      BY DEF Vault, Cache
    <3> QED BY <1>7, <2>2, <3>1
  <2> QED BY <2>1, <2>2
<1>11. \A id \in Busy : id \in DOMAIN heap' /\ heap'[id] = heap[id]
  BY <1>7, <1>8, <1>10, BusyInHeap DEF Vault
<1>12. Evolves
  BY <1>11 DEF Evolves
<1> QED BY <1>3, <1>4, <1>5, <1>7, <1>9, <1>12 DEF VaultKept

LEMMA DeletesIs ==
    ASSUME NEW n, Deletes(n)
    PROVE  /\ n \in DOMAIN entity /\ DOMAIN entity' = DOMAIN entity \ {n}
           /\ \A m \in DOMAIN entity' : entity'[m] = entity[m]
           /\ DOMAIN variant' \subseteq DOMAIN variant
           /\ \A s \in DOMAIN variant' : variant'[s] = variant[s] /\ variant[s] # n
BY DEF Deletes, Only

LEMMA DeletesKeep ==
    ASSUME Vault, NEW n, Deletes(n)
    PROVE  VaultKept
<1>1. IsFiniteSet(DOMAIN variant')
  BY DeletesIs, FS_Subset DEF Vault, Tables
<1>2. Tables'
  <2>1. \E k \in Nat : DOMAIN entity' \subseteq 0 .. k
    BY DeletesIs DEF Vault, Tables
  <2>2. \A s \in DOMAIN variant' : variant'[s] \in DOMAIN entity'
    <3>1. ASSUME NEW s \in DOMAIN variant'
          PROVE  variant'[s] \in DOMAIN entity'
      <4>1. s \in DOMAIN variant /\ variant'[s] = variant[s] /\ variant[s] # n
        BY DeletesIs
      <4>2. variant[s] \in DOMAIN entity
        BY <4>1 DEF Vault, Tables
      <4> QED BY <4>1, <4>2, DeletesIs
    <3> QED BY <3>1
  <2>3. \A m, k \in DOMAIN entity' : entity'[m].fp = entity'[k].fp => m = k
    <3>1. \A m \in DOMAIN entity' : m \in DOMAIN entity /\ entity'[m].fp = entity[m].fp
      BY DeletesIs
    <3> QED BY <3>1 DEF Vault, Tables
  <2> QED BY <1>1, <2>1, <2>2, <2>3 DEF Tables
<1>3. cached' = FALSE /\ UNCHANGED <<load, heap>>
  BY DEF Deletes
<1>4. Evolves
  BY <1>3, BusyInHeap DEF Vault, Evolves
<1> QED BY <1>2, <1>3, <1>4 DEF VaultKept, Vault, Cache

LEMMA RelocksKeep ==
    ASSUME Vault, Relocks
    PROVE  VaultKept
<1>1. Tables'
  BY DEF Relocks, Vault, Tables
<1>2. DOMAIN heap' = {}
  BY DEF Relocks
<1> QED BY <1>1, <1>2 DEF Relocks, VaultKept, Evolves, Vault, Cache

-----------------------------------------------------------------------------
(* What a step does to the requests *)

\* The turns a request may take in a step.
Stays(u) ==
    /\ at'[u] = at[u] /\ ents'[u] = ents[u] /\ version'[u] = version[u] /\ got'[u] = got[u]
    /\ target'[u] = target[u] /\ late'[u] = late[u] /\ (crossed[u] => crossed'[u])

Begins(u) ==
    /\ at[u] = "idle" /\ at'[u] = "version" /\ ents'[u] = Objects(Memory)
    /\ Keep(Memory) /\ UNCHANGED <<entity, variant>>

Misses(u) ==
    /\ at[u] = "version" /\ at'[u] = "build" /\ ents'[u] = ents[u]
    /\ version'[u] = Version(ents[u]) /\ crossed'[u] = crossed[u]

Hits(u) ==
    /\ at[u] = "version" /\ at'[u] = "use"
    /\ dict # None /\ dict.version = Version(ents[u]) /\ got'[u] = dict.surfaces
    /\ ~late'[u] => ~dict.crossed /\ ~Colliding

Builds(u) ==
    /\ at[u] = "build" /\ at'[u] = "store" /\ version'[u] = version[u] /\ crossed'[u] = crossed[u]
    /\ got'[u] = Listed \cap UNION {Spellings(heap[id]) : id \in ents[u]}

Uses(u) == at[u] = "store" /\ at'[u] = "use" /\ got'[u] = got[u]

Aims(u) ==
    /\ at'[u] \in {"spelling", "canonical"} /\ ents'[u] = {}
    /\ target'[u] \in Objects(Memory) /\ Keep(Memory)

Follows(u) == at[u] = "canonical" /\ at'[u] = "old" /\ ents'[u] = {} /\ target'[u] = target[u]

Turns(u) == at'[u] \in {"idle", "resolve", "add", "invalidate", "deleted", "again"} /\ ents'[u] = {}

Proceeds(u) ==
    \/ Stays(u) \/ Begins(u) \/ Misses(u) \/ Hits(u) \/ Builds(u) \/ Uses(u)
    \/ Aims(u) \/ Follows(u) \/ Turns(u)

\* No change in progress is done with.
Onward ==
    /\ Awaiting \subseteq Awaiting'
    /\ \A u \in Awaiting : arg'[u] = arg[u] /\ withdrawn'[u] = withdrawn[u]
    /\ \A u \in Threads : at[u] = "deleted" => at'[u] = "deleted"

\* One is, and the dictionary is gone.
Invalidates ==
    /\ dict' = None
    /\ \A u \in Threads : at'[u] \in Scanning => crossed'[u]

\* The dictionary is the one a scan has compiled.
Stored == \E b \in Threads : at[b] = "store"
            /\ dict' = [version |-> version[b], surfaces |-> got[b], crossed |-> crossed[b]]

Changed ==
    \/ Loads \/ Relocks \/ Spells
    \/ \E t \in Threads, n \in DOMAIN entity :
        /\ Corrects(n, arg[t]) /\ entity[n].value \in withdrawn'[t]
        /\ t \in Awaiting' /\ arg'[t] = arg[t]
    \/ \E t \in Threads : \E n, f, v : Adds(n, f, v) /\ t \in Awaiting' /\ at'[t] # "deleted"
    \/ \E t \in Threads, n \in DOMAIN entity :
        /\ Deletes(n) /\ at[t] = "idle" /\ at'[t] = "deleted" /\ withdrawn'[t] = Current

Advances ==
    /\ Shape'
    /\ \A u \in Threads : Proceeds(u)
    /\ \/ Loads /\ Invalidates
       \/ Onward /\ Changed /\ (dict' = dict \/ Stored)

LEMMA LeaveIs ==
    ASSUME Shape, NEW t \in Threads, Leave(t)
    PROVE  /\ at'[t] = "idle" /\ ents'[t] = {} 
           /\ \A u \in Threads \ {t} :
                /\ at'[u] = at[u] /\ ents'[u] = ents[u] /\ version'[u] = version[u] /\ got'[u] = got[u]
                /\ arg'[u] = arg[u] /\ target'[u] = target[u] /\ late'[u] = late[u] /\ crossed'[u] = crossed[u]
                /\ withdrawn'[u] = withdrawn[u]
           /\ DOMAIN at' = Threads /\ DOMAIN ents' = Threads /\ DOMAIN version' = Threads /\ DOMAIN got' = Threads
           /\ DOMAIN arg' = Threads /\ DOMAIN target' = Threads /\ DOMAIN old' = Threads
           /\ DOMAIN crossed' = Threads /\ DOMAIN late' = Threads /\ DOMAIN withdrawn' = Threads
BY DEF Leave, Goto, Shape

LEMMA ReadEntitiesAdvances ==
    ASSUME Vault, NEW t \in Threads, ReadEntities(t), Observe
    PROVE  Advances
<1>1. Shape'
  BY DEF Vault, Shape, ReadEntities, Goto, Observe
<1>2. \A u \in Threads \ {t} : Stays(u)
  BY DEF Vault, Shape, ReadEntities, Goto, Stays
<1>3. Begins(t)
  BY DEF Vault, Shape, ReadEntities, Goto, Begins
<1>4. Onward
  BY DEF Vault, Shape, ReadEntities, Goto, Onward, Awaiting
<1>5. Loads /\ dict' = dict
  BY DEF ReadEntities, Loads
<1> QED BY <1>1, <1>2, <1>3, <1>4, <1>5 DEF Advances, Proceeds, Changed

LEMMA CheckVersionAdvances ==
    ASSUME Vault, NEW t \in Threads, CheckVersion(t), Observe
    PROVE  Advances
<1>1. Shape'
  BY DEF Vault, Shape, CheckVersion, Goto, Observe
<1>2. \A u \in Threads \ {t} : Stays(u)
  BY DEF Vault, Shape, CheckVersion, Goto, Stays
<1>3. Misses(t) \/ Hits(t)
  <2>1. CASE dict # None /\ dict.version = Version(ents[t])
    <3>1. /\ at[t] = "version" /\ Goto(t, "use") /\ got' = [got EXCEPT ![t] = dict.surfaces]
          /\ late' = [late EXCEPT ![t] = dict.crossed \/ Colliding]
      BY <2>1 DEF CheckVersion
    <3>2. at'[t] = "use" /\ got'[t] = dict.surfaces /\ late'[t] = (dict.crossed \/ Colliding)
      BY <3>1 DEF Vault, Shape, Goto
    <3> QED BY <2>1, <3>1, <3>2 DEF Hits
  <2>2. CASE ~(dict # None /\ dict.version = Version(ents[t]))
    BY <2>2 DEF Vault, Shape, CheckVersion, Goto, Misses
  <2> QED BY <2>1, <2>2
<1>4. Onward
  BY DEF Vault, Shape, CheckVersion, Goto, Onward, Awaiting
<1>5. Loads /\ dict' = dict
  BY DEF CheckVersion, Loads, vault
<1> QED BY <1>1, <1>2, <1>3, <1>4, <1>5 DEF Advances, Proceeds, Changed

LEMMA BuildAdvances ==
    ASSUME Vault, NEW t \in Threads, Build(t), Observe
    PROVE  Advances
<1>1. Shape'
  BY DEF Vault, Shape, Build, Goto, Observe
<1>2. \A u \in Threads \ {t} : Stays(u)
  BY DEF Vault, Shape, Build, Goto, Stays
<1>3. Builds(t)
  BY DEF Vault, Shape, Build, Goto, Builds
<1>4. Onward
  BY DEF Vault, Shape, Build, Goto, Onward, Awaiting
<1>5. Loads /\ dict' = dict
  BY DEF Build, Loads, vault
<1> QED BY <1>1, <1>2, <1>3, <1>4, <1>5 DEF Advances, Proceeds, Changed

LEMMA StoreAdvances ==
    ASSUME Vault, NEW t \in Threads, Store(t), Observe
    PROVE  Advances
<1>1. Shape'
  BY DEF Vault, Shape, Store, Goto, Observe
<1>2. \A u \in Threads \ {t} : Stays(u)
  BY DEF Vault, Shape, Store, Goto, Stays
<1>3. Uses(t)
  BY DEF Vault, Shape, Store, Goto, Uses
<1>4. Onward
  BY DEF Vault, Shape, Store, Goto, Onward, Awaiting
<1>5. Loads /\ Stored
  BY DEF Store, Loads, vault, Stored
<1> QED BY <1>1, <1>2, <1>3, <1>4, <1>5 DEF Advances, Proceeds, Changed

LEMMA UseAdvances ==
    ASSUME Vault, NEW t \in Threads, Use(t), Observe
    PROVE  Advances
<1>1. Loads /\ dict' = dict /\ at[t] = "use"
  BY DEF Use, Loads, vault
<1>2. CASE Leave(t)
  <2>1. Shape'
    BY <1>2, LeaveIs DEF Vault, Shape, Observe
  <2>2. \A u \in Threads \ {t} : Stays(u)
    BY <1>2, LeaveIs DEF Vault, Stays
  <2>3. Turns(t)
    BY <1>2, LeaveIs DEF Vault, Turns
  <2>4. Onward
    BY <1>1, <1>2, LeaveIs DEF Vault, Onward, Awaiting
  <2> QED BY <1>1, <2>1, <2>2, <2>3, <2>4 DEF Advances, Proceeds, Changed
<1>3. CASE ~Leave(t)
  <2>1. Shape'
    BY <1>3 DEF Vault, Shape, Use, Goto, Observe
  <2>2. \A u \in Threads \ {t} : Stays(u)
    BY <1>3 DEF Vault, Shape, Use, Goto, Stays
  <2>3. Turns(t)
    BY <1>3 DEF Vault, Shape, Use, Goto, Turns
  <2>4. Onward
    BY <1>3 DEF Vault, Shape, Use, Goto, Onward, Awaiting
  <2> QED BY <1>1, <2>1, <2>2, <2>3, <2>4 DEF Advances, Proceeds, Changed
<1> QED BY <1>2, <1>3

LEMMA AddManualAdvances ==
    ASSUME Vault, NEW t \in Threads, NEW s, AddManual(t, s), Observe
    PROVE  Advances
<1>1. Shape'
  BY DEF Vault, Shape, AddManual, BeginChange, Goto, Observe
<1>2. \A u \in Threads \ {t} : Stays(u)
  BY DEF Vault, Shape, AddManual, BeginChange, Goto, Stays
<1>3. Turns(t)
  BY DEF Vault, Shape, Requests, AddManual, BeginChange, Goto, Turns, Scanning
<1>4. Onward
  BY DEF Vault, Shape, AddManual, BeginChange, Goto, Onward, Awaiting
<1>5. Loads /\ dict' = dict
  BY DEF AddManual, Loads, vault
<1> QED BY <1>1, <1>2, <1>3, <1>4, <1>5 DEF Advances, Proceeds, Changed

\* A request that is not scanning holds no objects.
LEMMA NoObjects ==
    ASSUME Requests, NEW t \in Threads, at[t] \notin {"version", "build", "store", "use"}
    PROVE  ents[t] = {}
BY DEF Requests, Scanning

LEMMA ResolveAdvances ==
    ASSUME Vault, NEW t \in Threads, Resolve(t), Observe
    PROVE  Advances
<1> DEFINE hits == {id \in Objects(Memory) : Memory.heap[id].fp = norm[arg[t]]}
           i == CHOOSE j \in hits : TRUE
<1>1. Loads /\ dict' = dict /\ at[t] = "resolve"
  BY DEF Resolve, Loads
<1>2. ents[t] = {}
  BY <1>1, NoObjects DEF Vault
<1>3. \/ Goto(t, "add") /\ UNCHANGED <<ents, version, got, arg, target, old, manual, crossed, late, withdrawn>>
      \/ Goto(t, "again") /\ UNCHANGED <<ents, version, got, arg, target, old, manual, crossed, late, withdrawn>>
      \/ /\ hits # {} /\ Goto(t, "spelling") /\ target' = [target EXCEPT ![t] = i] /\ Keep(Memory)
         /\ UNCHANGED <<ents, version, got, arg, old, manual, crossed, late, withdrawn>>
      \/ Leave(t)
  BY DEF Resolve
<1> HIDE DEF i
<1>4. CASE Leave(t)
  <2>1. Shape'
    BY <1>4, LeaveIs DEF Vault, Shape, Observe
  <2>2. \A u \in Threads \ {t} : Stays(u)
    BY <1>4, LeaveIs DEF Vault, Stays
  <2>3. Turns(t)
    BY <1>4, LeaveIs DEF Vault, Turns
  <2>4. Onward
    BY <1>1, <1>4, LeaveIs DEF Vault, Onward, Awaiting
  <2> QED BY <1>1, <2>1, <2>2, <2>3, <2>4 DEF Advances, Proceeds, Changed
<1>5. CASE \/ Goto(t, "add") /\ UNCHANGED <<ents, version, got, arg, target, old, manual, crossed, late, withdrawn>>
           \/ Goto(t, "again") /\ UNCHANGED <<ents, version, got, arg, target, old, manual, crossed, late, withdrawn>>
  <2>1. Shape'
    BY <1>5 DEF Vault, Shape, Goto, Observe
  <2>2. \A u \in Threads \ {t} : Stays(u)
    BY <1>5 DEF Vault, Shape, Goto, Stays
  <2>3. Turns(t)
    BY <1>2, <1>5 DEF Vault, Shape, Goto, Turns
  <2>4. Onward
    BY <1>1, <1>5 DEF Vault, Shape, Goto, Onward, Awaiting
  <2> QED BY <1>1, <2>1, <2>2, <2>3, <2>4 DEF Advances, Proceeds, Changed
<1>6. CASE /\ hits # {} /\ Goto(t, "spelling") /\ target' = [target EXCEPT ![t] = i] /\ Keep(Memory)
           /\ UNCHANGED <<ents, version, got, arg, old, manual, crossed, late, withdrawn>>
  <2>1. Shape'
    BY <1>6 DEF Vault, Shape, Goto, Observe
  <2>2. \A u \in Threads \ {t} : Stays(u)
    BY <1>6 DEF Vault, Shape, Goto, Stays
  <2>3. i \in Objects(Memory)
    BY <1>6 DEF i
  <2>4. Aims(t)
    BY <1>2, <1>6, <2>3 DEF Vault, Shape, Goto, Aims
  <2>5. Onward
    BY <1>1, <1>6 DEF Vault, Shape, Goto, Onward, Awaiting
  <2> QED BY <1>1, <2>1, <2>2, <2>4, <2>5 DEF Advances, Proceeds, Changed
<1> QED BY <1>3, <1>4, <1>5, <1>6

\* A write goes to an object of the cache, or the two come apart.
LEMMA TargetIsCached ==
    ASSUME Vault, NEW t \in Threads, at[t] \in {"spelling", "canonical", "old"}, at'[t] # at[t], ~Stray(t)
    PROVE  cached /\ target[t] \in Cached
<1>1. cached /\ target[t][1] = load
  BY DEF Stray
<1>2. target[t] \in DOMAIN heap
  BY DEF Vault, Requests
<1> QED BY <1>1, <1>2, CacheIs DEF Vault

\* A variant that the object has already changes nothing.
LEMMA AddVariantIs ==
    ASSUME Vault, NEW t \in Threads, cached, target[t] \in Cached, NEW s, AddVariant(target[t], s)
    PROVE  Loads \/ Spells
<1>1. CASE s \in heap[target[t]].variants
  <2>1. variant' = variant /\ heap' = heap /\ UNCHANGED <<entity, load, cached>>
    BY <1>1 DEF AddVariant
  <2> QED BY <2>1 DEF Loads
<1>2. CASE s \notin heap[target[t]].variants
  BY <1>2 DEF Spells
<1> QED BY <1>1, <1>2

LEMMA AddSpellingAdvances ==
    ASSUME Vault, NEW t \in Threads, AddSpelling(t), Observe, ~Stray(t)
    PROVE  Advances
<1>1. AddVariant(target[t], arg[t]) /\ dict' = dict /\ at[t] = "spelling"
  BY DEF AddSpelling
<1>2. ents[t] = {}
  BY <1>1, NoObjects DEF Vault
<1>3. \/ Leave(t)
      \/ Goto(t, "again") /\ UNCHANGED <<ents, version, got, arg, target, old, manual, crossed, late, withdrawn>>
  BY DEF AddSpelling
<1>4. at'[t] # at[t]
  BY <1>1, <1>3, LeaveIs DEF Vault, Shape, Goto
<1>5. Loads \/ Spells
  BY <1>1, <1>4, TargetIsCached, AddVariantIs
<1>6. CASE Leave(t)
  <2>1. Shape'
    BY <1>6, LeaveIs DEF Vault, Shape, Observe
  <2>2. \A u \in Threads \ {t} : Stays(u)
    BY <1>6, LeaveIs DEF Vault, Stays
  <2>3. Turns(t)
    BY <1>6, LeaveIs DEF Vault, Turns
  <2>4. Onward
    BY <1>1, <1>6, LeaveIs DEF Vault, Onward, Awaiting
  <2> QED BY <1>1, <1>5, <2>1, <2>2, <2>3, <2>4 DEF Advances, Proceeds, Changed
<1>7. CASE Goto(t, "again") /\ UNCHANGED <<ents, version, got, arg, target, old, manual, crossed, late, withdrawn>>
  <2>1. Shape'
    BY <1>7 DEF Vault, Shape, Goto, Observe
  <2>2. \A u \in Threads \ {t} : Stays(u)
    BY <1>7 DEF Vault, Shape, Goto, Stays
  <2>3. Turns(t)
    BY <1>2, <1>7 DEF Vault, Shape, Goto, Turns
  <2>4. Onward
    BY <1>1, <1>7 DEF Vault, Shape, Goto, Onward, Awaiting
  <2> QED BY <1>1, <1>5, <2>1, <2>2, <2>3, <2>4 DEF Advances, Proceeds, Changed
<1> QED BY <1>3, <1>6, <1>7

LEMMA AddOldAdvances ==
    ASSUME Vault, NEW t \in Threads, AddOld(t), Observe, ~Stray(t)
    PROVE  Advances
<1>1. AddVariant(target[t], old[t]) /\ dict' = dict /\ at[t] = "old"
  BY DEF AddOld
<1>2. ents[t] = {}
  BY <1>1, NoObjects DEF Vault
<1>3. at'[t] # at[t]
  BY <1>1, LeaveIs DEF AddOld, Vault, Shape, Goto
<1>4. cached /\ target[t] \in Cached
  BY <1>1, <1>3, TargetIsCached
<1>5. Loads \/ Spells
  BY <1>1, <1>4, AddVariantIs
<1>6. Goto(t, "invalidate") /\ UNCHANGED <<ents, version, got, arg, target, old, manual, crossed, late, withdrawn>>
  BY <1>4 DEF AddOld, VariantFails
<1>7. Shape'
  BY <1>6 DEF Vault, Shape, Goto, Observe
<1>8. \A u \in Threads \ {t} : Stays(u)
  BY <1>6 DEF Vault, Shape, Goto, Stays
<1>9. Turns(t)
  BY <1>2, <1>6 DEF Vault, Shape, Goto, Turns
<1>10. Onward
  BY <1>1, <1>6 DEF Vault, Shape, Goto, Onward, Awaiting
<1> QED BY <1>1, <1>5, <1>7, <1>8, <1>9, <1>10 DEF Advances, Proceeds, Changed

LEMMA AddEntityAdvances ==
    ASSUME Vault, NEW t \in Threads, AddEntity(t), Observe
    PROVE  Advances
<1>1. dict' = dict /\ at[t] = "add" /\ variant' = variant
  BY DEF AddEntity
<1>2. ents[t] = {}
  BY <1>1, NoObjects DEF Vault
<1>3. CASE \E k \in DOMAIN entity : entity[k].fp = norm[arg[t]]
  <2>1. Keep(Memory) /\ Leave(t) /\ entity' = entity
    BY <1>3 DEF AddEntity, Entity
  <2>2. Loads
    BY <1>1, <2>1 DEF Loads
  <2>3. Shape'
    BY <2>1, LeaveIs DEF Vault, Shape, Observe
  <2>4. \A u \in Threads \ {t} : Stays(u)
    BY <2>1, LeaveIs DEF Vault, Stays
  <2>5. Turns(t)
    BY <2>1, LeaveIs DEF Vault, Turns
  <2>6. Onward
    BY <1>1, <2>1, LeaveIs DEF Vault, Onward, Awaiting
  <2> QED BY <1>1, <2>2, <2>3, <2>4, <2>5, <2>6 DEF Advances, Proceeds, Changed
<1>4. CASE ~\E k \in DOMAIN entity : entity[k].fp = norm[arg[t]]
  <2>1. Goto(t, "invalidate") /\ UNCHANGED <<ents, version, got, arg, target, old, manual, crossed, late, withdrawn>>
    BY <1>4 DEF AddEntity, Entity
  <2>2. PICK f : f = norm[arg[t]]
    OBVIOUS
  <2>3. PICK n : n = Max({0} \cup DOMAIN entity) + 1
    OBVIOUS
  <2>4. Entity(n, f, arg[t], {}).fp = f /\ Entity(n, f, arg[t], {}).value = arg[t]
    BY DEF Entity
  <2>5. /\ entity' = Put(entity, n, [fp |-> f, value |-> arg[t]])
        /\ heap' = Put(Memory.heap, <<Memory.load, n>>, Entity(n, f, arg[t], {}))
        /\ load' = Memory.load /\ cached' = TRUE
    BY <1>4, <2>2, <2>3, <2>4 DEF AddEntity
  <2>6. Adds(n, f, arg[t])
    BY <1>1, <1>4, <2>2, <2>3, <2>5 DEF Adds
  <2>7. Shape'
    BY <2>1 DEF Vault, Shape, Goto, Observe
  <2>8. \A u \in Threads \ {t} : Stays(u)
    BY <2>1 DEF Vault, Shape, Goto, Stays
  <2>9. Turns(t)
    BY <1>2, <2>1 DEF Vault, Shape, Goto, Turns
  <2>10. Onward
    BY <1>1, <2>1 DEF Vault, Shape, Goto, Onward, Awaiting
  <2>11. t \in Awaiting' /\ at'[t] # "deleted"
    BY <2>1 DEF Vault, Shape, Goto, Awaiting
  <2>12. Changed
    BY <2>6, <2>11 DEF Changed
  <2> QED BY <1>1, <2>7, <2>8, <2>9, <2>10, <2>12 DEF Advances, Proceeds
<1> QED BY <1>3, <1>4

LEMMA PatchAdvances ==
    ASSUME Vault, NEW t \in Threads, NEW n \in DOMAIN entity, NEW s, Patch(t, n, s), Observe
    PROVE  Advances
<1>1. Loads /\ dict' = dict /\ at[t] = "idle" /\ Keep(Memory)
  BY DEF Patch, BeginChange, Loads
<1>2. ents[t] = {}
  BY <1>1, NoObjects DEF Vault
<1>3. <<Memory.load, n>> \in Objects(Memory)
  BY MemoryIs DEF Vault
<1>4. PICK x : x = <<Memory.load, n>>
  OBVIOUS
<1>5. /\ Goto(t, "canonical") /\ target' = [target EXCEPT ![t] = x]
      /\ arg' = [arg EXCEPT ![t] = s]
      /\ UNCHANGED <<ents, version, got, manual, crossed, late, withdrawn>>
  BY <1>4 DEF Patch
<1>6. DOMAIN old' = DOMAIN old
  BY DEF Patch
<1>7. Shape'
  BY <1>5, <1>6 DEF Vault, Shape, Goto, Observe
<1>8. \A u \in Threads \ {t} : Stays(u)
  BY <1>5 DEF Vault, Shape, Goto, Stays
<1>9. at'[t] = "canonical" /\ ents'[t] = {} /\ target'[t] = x
  BY <1>2, <1>5 DEF Vault, Shape, Goto
<1>10. Aims(t)
  BY <1>1, <1>3, <1>4, <1>9 DEF Aims
<1>11. Onward
  BY <1>1, <1>5 DEF Vault, Shape, Goto, Onward, Awaiting
<1> QED BY <1>1, <1>7, <1>8, <1>10, <1>11 DEF Advances, Proceeds, Changed

LEMMA SetCanonicalAdvances ==
    ASSUME Vault, NEW t \in Threads, SetCanonical(t), Observe, ~Stray(t)
    PROVE  Advances
<1>1. /\ at[t] = "canonical" /\ dict' = dict
      /\ Goto(t, "old") /\ withdrawn' = [withdrawn EXCEPT ![t] = {heap[target[t]].value}]
      /\ UNCHANGED <<ents, version, got, arg, target, old, manual, variant, load, cached, crossed, late>>
  BY DEF SetCanonical
<1>2. ents[t] = {}
  BY <1>1, NoObjects DEF Vault
<1>3. at'[t] = "old" /\ at'[t] # at[t]
  BY <1>1 DEF Vault, Shape, Goto
<1>4. cached /\ target[t] \in Cached
  BY <1>1, <1>3, TargetIsCached
<1>5. PICK n \in DOMAIN entity : target[t] = <<load, n>>
  BY <1>4 DEF Cached
<1>6. heap[target[t]].n = n /\ heap[target[t]].fp = entity[n].fp /\ heap[target[t]].value = entity[n].value
  BY <1>4, <1>5, CachedObject DEF Vault
<1>7. /\ heap' = [heap EXCEPT ![target[t]] = Entity(n, entity[n].fp, arg[t], heap[target[t]].variants)]
      /\ entity' = Put(entity, n, [fp |-> entity[n].fp, value |-> arg[t]])
  BY <1>5, <1>6 DEF SetCanonical
<1>8. Corrects(n, arg[t])
  BY <1>1, <1>4, <1>5, <1>7 DEF Corrects
<1>9. Shape'
  BY <1>1 DEF Vault, Shape, Goto, Observe
<1>10. \A u \in Threads \ {t} : Stays(u)
  BY <1>1 DEF Vault, Shape, Goto, Stays
<1>11. Follows(t)
  BY <1>1, <1>2, <1>3 DEF Vault, Shape, Follows
<1>12. Onward
  BY <1>1 DEF Vault, Shape, Goto, Onward, Awaiting
<1>13. entity[n].value \in withdrawn'[t] /\ t \in Awaiting' /\ arg'[t] = arg[t]
  BY <1>1, <1>3, <1>6 DEF Vault, Shape, Awaiting
<1>14. Changed
  BY <1>8, <1>13 DEF Changed
<1> QED BY <1>1, <1>9, <1>10, <1>11, <1>12, <1>14 DEF Advances, Proceeds

LEMMA DeleteAdvances ==
    ASSUME Vault, NEW t \in Threads, NEW n \in DOMAIN entity, Delete(t, n), Observe
    PROVE  Advances
<1>1. PICK c : c = Current
  OBVIOUS
<1>2. /\ at[t] = "idle" /\ dict' = dict
      /\ Goto(t, "deleted") /\ withdrawn' = [withdrawn EXCEPT ![t] = c]
      /\ UNCHANGED <<ents, version, got, arg, target, old, manual, load, heap, crossed, late>>
  BY <1>1 DEF Delete, BeginChange
<1>3. ents[t] = {}
  BY <1>2, NoObjects DEF Vault
<1>4. Deletes(n)
  BY DEF Delete, Deletes
<1>5. Shape'
  BY <1>2 DEF Vault, Shape, Goto, Observe
<1>6. \A u \in Threads \ {t} : Stays(u)
  BY <1>2 DEF Vault, Shape, Goto, Stays
<1>7. at'[t] = "deleted" /\ withdrawn'[t] = c
  BY <1>2 DEF Vault, Shape, Goto
<1>8. Turns(t)
  BY <1>2, <1>3, <1>7 DEF Turns
<1>9. Onward
  BY <1>2 DEF Vault, Shape, Goto, Onward, Awaiting
<1>10. Changed
  BY <1>1, <1>2, <1>4, <1>7 DEF Changed
<1> QED BY <1>2, <1>5, <1>6, <1>8, <1>9, <1>10 DEF Advances, Proceeds

LEMMA RelockAdvances ==
    ASSUME Vault, Relock, Observe
    PROVE  Advances
<1>1. \A t \in Threads : at[t] = "idle"
  BY DEF Relock
<1>2. Busy = {} /\ Compiling = {}
  BY <1>1 DEF Busy, Writing, Compiling
<1>3. UNCHANGED <<at, ents, version, got, arg, target, old, manual, crossed, late, withdrawn, dict>>
  BY DEF Relock, request
<1>4. Relocks
  BY <1>2 DEF Relock, Relocks
<1>5. Shape'
  BY <1>3 DEF Vault, Shape, Observe
<1>6. \A u \in Threads : Stays(u)
  BY <1>3 DEF Stays
<1>7. Onward
  BY <1>3 DEF Onward, Awaiting
<1> QED BY <1>3, <1>4, <1>5, <1>6, <1>7 DEF Advances, Proceeds, Changed

LEMMA InvalidateAdvances ==
    ASSUME Vault, NEW t \in Threads, Invalidate(t), Observe
    PROVE  Advances
<1>1. dict' = None /\ Loads /\ at[t] \in {"invalidate", "deleted", "again"}
  BY DEF Invalidate, Loads, vault
<1>2. ents[t] = {}
  BY <1>1, NoObjects DEF Vault
<1>3. crossed' = [u \in Threads |-> crossed[u] \/ at[u] \in Scanning]
  BY DEF Invalidate
<1>4. UNCHANGED <<ents, version, got, late>>
  BY DEF Invalidate
<1>5. (Goto(t, "again") \/ Goto(t, "idle"))
      /\ (target' = target \/ target' = [target EXCEPT ![t] = None])
  BY DEF Invalidate
<1>6. Shape'
  BY DEF Vault, Shape, Goto, Observe, Invalidate
<1>7. \A u \in Threads \ {t} : at'[u] = at[u] /\ target'[u] = target[u]
  BY <1>5 DEF Vault, Shape, Goto
<1>8. \A u \in Threads \ {t} : Stays(u)
  <2> TAKE u \in Threads \ {t}
  <2>1. crossed[u] => crossed'[u]
    BY <1>3
  <2> QED BY <1>4, <1>7, <2>1 DEF Stays
<1>9. Turns(t)
  BY <1>2, <1>4, <1>5 DEF Vault, Shape, Goto, Turns
<1>10. ASSUME NEW u \in Threads, at'[u] \in Scanning
       PROVE  crossed'[u]
  <2>1. u # t
    BY <1>5, <1>10 DEF Vault, Shape, Goto, Scanning
  <2>2. at[u] \in Scanning
    BY <1>7, <1>10, <2>1
  <2> QED BY <1>3, <2>2
<1>11. Invalidates
  BY <1>1, <1>10 DEF Invalidates
<1> QED BY <1>1, <1>6, <1>8, <1>9, <1>11 DEF Advances, Proceeds

\* Every step advances the requests, while the tables and the cache are in step.
LEMMA StepAdvances ==
    ASSUME Vault, DictNext, ~apart'
    PROVE  Advances /\ InStep'
<1>1. Observe
  BY DEF DictNext
<1>2. InStep' /\ \A t \in Threads : ~Stray(t)
  BY <1>1 DEF Observe
<1>3. CASE Relock
  BY <1>1, <1>2, <1>3, RelockAdvances
<1>4. ASSUME NEW t \in Threads, Step(t)
      PROVE  Advances
  BY <1>1, <1>2, <1>4, ReadEntitiesAdvances, CheckVersionAdvances, BuildAdvances, StoreAdvances, UseAdvances,
     ResolveAdvances, AddSpellingAdvances, AddEntityAdvances, SetCanonicalAdvances, AddOldAdvances,
     InvalidateAdvances DEF Step
<1>5. ASSUME NEW t \in Threads, NEW s \in Surfaces, AddManual(t, s)
      PROVE  Advances
  BY <1>1, <1>5, AddManualAdvances
<1>6. ASSUME NEW t \in Threads, NEW n \in DOMAIN entity, Delete(t, n) \/ \E s \in Surfaces : Patch(t, n, s)
      PROVE  Advances
  BY <1>1, <1>6, DeleteAdvances, PatchAdvances
<1> QED BY <1>2, <1>3, <1>4, <1>5, <1>6 DEF DictNext

\* And keeps the vault.
LEMMA AdvancesKeep ==
    ASSUME Vault, Advances, InStep'
    PROVE  VaultKept
BY LoadsKeep, RelocksKeep, SpellsKeep, CorrectsKeep, AddsKeep, DeletesKeep DEF Advances, Changed

-----------------------------------------------------------------------------
(* The invariant is kept: the cache, the requests and what is observed *)

LEMMA CacheKept ==
    ASSUME VaultKept, InStep'
    PROVE  Cache' /\ Tables'
BY DEF VaultKept, Cache

\* What a scan that begins reads.
LEMMA BeginsIs ==
    ASSUME Vault, NEW u \in Threads, Begins(u)
    PROVE  /\ cached' /\ ents'[u] = Cached' /\ ents'[u] \subseteq DOMAIN heap'
           /\ IsFiniteSet(ents'[u]) /\ Cardinality(ents'[u]) = Cardinality(DOMAIN entity)
           /\ IsFiniteSet(DOMAIN entity) /\ Cardinality(DOMAIN entity) \in Nat
           /\ \A id \in ents'[u] : heap'[id].variants \subseteq DOMAIN variant
           /\ cached => load' = load /\ heap' = heap
<1>1. PICK l : l = Memory.load
  OBVIOUS
<1>2. load' = l /\ heap' = Memory.heap /\ cached' /\ entity' = entity /\ ents'[u] = Objects(Memory)
  BY <1>1 DEF Begins, Keep
<1>3. ents'[u] = {<<l, n>> : n \in DOMAIN entity}
  BY <1>1, <1>2, MemoryIs DEF Vault
<1>4. Cached' = {<<l, n>> : n \in DOMAIN entity}
  BY <1>2 DEF Cached
<1>5. \A n \in DOMAIN entity : <<l, n>> \in DOMAIN heap' /\ heap'[<<l, n>>] = RowObject(n)
  BY <1>1, <1>2, MemoryIs DEF Vault
<1>6. IsFiniteSet(DOMAIN entity) /\ Cardinality(DOMAIN entity) \in Nat
  BY BoundedIsFinite DEF Vault, Tables
<1>7. IsFiniteSet({<<l, n>> : n \in DOMAIN entity})
      /\ Cardinality({<<l, n>> : n \in DOMAIN entity}) = Cardinality(DOMAIN entity)
  BY <1>6, PairsCounted
<1>8. \A n \in DOMAIN entity : heap'[<<l, n>>].variants \subseteq DOMAIN variant
  BY <1>5, ObjectSpellings
<1>9. \A id \in ents'[u] : id \in DOMAIN heap' /\ heap'[id].variants \subseteq DOMAIN variant
  BY <1>3, <1>5, <1>8
<1>10. cached => load' = load /\ heap' = heap
  BY <1>1, <1>2, CacheIs DEF Vault
<1> QED BY <1>2, <1>3, <1>4, <1>6, <1>7, <1>9, <1>10

\* A scan that goes on keeps its objects.
LEMMA EntsKept ==
    ASSUME Vault, VaultKept, NEW t \in Compiling
    PROVE  /\ ents[t] \subseteq Busy /\ ents[t] \subseteq DOMAIN heap' /\ IsFiniteSet(ents[t])
           /\ \E F : IsFiniteSet(F) /\ \A id \in ents[t] : heap[id].variants \subseteq F /\ heap'[id].variants \subseteq F
<1>1. ents[t] \subseteq Busy
  <2>1. ents[t] \subseteq UNION {ents[b] : b \in Compiling}
    OBVIOUS
  <2> QED BY <2>1 DEF Busy
<1>2. PICK x : \A id \in Busy : id \in DOMAIN heap' /\ heap'[id].variants \subseteq heap[id].variants \cup {x}
  BY DEF VaultKept, Evolves
<1>3. PICK F : IsFiniteSet(F) /\ \A id \in ents[t] : heap[id].variants \subseteq F
  BY DEF Vault, Requests
<1>4. IsFiniteSet(F \cup {x})
  BY <1>3, FS_AddElement
<1>5. \A id \in ents[t] : heap[id].variants \subseteq F \cup {x} /\ heap'[id].variants \subseteq F \cup {x}
  BY <1>1, <1>2, <1>3
<1>6. IsFiniteSet(ents[t])
  BY DEF Vault, Requests
<1> QED BY <1>1, <1>2, <1>4, <1>5, <1>6

\* Where a scan that compiles, or compares versions, comes from.
LEMMA ScanComesFrom ==
    ASSUME NEW u \in Threads, Proceeds(u)
    PROVE  /\ u \in Compiling' => \/ Begins(u)
                                  \/ u \in Compiling /\ ents'[u] = ents[u] /\ (crossed[u] => crossed'[u])
           /\ u \in Checking' => Begins(u) \/ (u \in Checking /\ ents'[u] = ents[u])
           /\ at'[u] \in Scanning \cup {"use"} => Begins(u) \/ (at[u] \in Scanning \cup {"use"} /\ ~Begins(u))
           /\ at[u] = "idle" /\ at'[u] = "version" => Begins(u)
BY DEF Proceeds, Compiling, Checking, Scanning, Stays, Begins, Misses, Hits, Builds, Uses, Aims, Follows, Turns

LEMMA RequestsKept ==
    ASSUME Vault, Advances, VaultKept
    PROVE  Requests'
<1>1. ASSUME NEW t \in Threads, at'[t] \notin Scanning \cup {"use"}
      PROVE  ents'[t] = {}
  <2>1. Proceeds(t)
    BY DEF Advances
  <2>2. CASE Stays(t)
    BY <1>1, <2>2 DEF Stays, Vault, Requests
  <2>3. CASE ~Stays(t)
    BY <1>1, <2>1, <2>3 DEF Proceeds, Begins, Misses, Hits, Builds, Uses, Aims, Follows, Turns, Scanning
  <2> QED BY <2>2, <2>3
<1>2. ASSUME NEW t \in Threads, at'[t] \in {"spelling", "canonical", "old"}
      PROVE  target'[t] \in DOMAIN heap'
  <2>1. Proceeds(t)
    BY DEF Advances
  <2>2. (at[t] \in {"spelling", "canonical", "old"} /\ target'[t] = target[t]) \/ Aims(t)
    BY <1>2, <2>1 DEF Proceeds, Stays, Begins, Misses, Hits, Builds, Uses, Follows, Turns
  <2>3. CASE at[t] \in {"spelling", "canonical", "old"} /\ target'[t] = target[t]
    <3>1. target[t] \in Busy
      BY <2>3 DEF Busy, Writing
    <3> QED BY <2>3, <3>1 DEF VaultKept, Evolves
  <2>4. CASE Aims(t)
    BY <2>4 DEF Aims, Keep, Objects
  <2> QED BY <2>2, <2>3, <2>4
<1>3. ASSUME NEW t \in Compiling'
      PROVE  /\ ents'[t] \subseteq DOMAIN heap' /\ IsFiniteSet(ents'[t])
             /\ \E F : IsFiniteSet(F) /\ \A id \in ents'[t] : heap'[id].variants \subseteq F
  <2>1. t \in Threads
    BY DEF Compiling
  <2>2. CASE Begins(t)
    <3>1. IsFiniteSet(DOMAIN variant)
      BY DEF Vault, Tables
    <3> QED BY <2>1, <2>2, <3>1, BeginsIs
  <2>3. CASE t \in Compiling /\ ents'[t] = ents[t]
    BY <2>3, EntsKept
  <2> QED BY <2>1, <2>2, <2>3, ScanComesFrom DEF Advances
<1> QED BY <1>1, <1>2, <1>3 DEF Requests

\* entities() answers from the tables, as one fact.
HoldingsFacts ==
    /\ \A p \in Holdings : Stocks(p[1], p[2])
    /\ \A f, s : Stocks(f, s) => <<f, s>> \in Holdings
    /\ \A s : s \in Current <=> Stocked(s)

LEMMA HoldingsAre == Cache /\ Tables => HoldingsFacts
BY HoldingsIs DEF HoldingsFacts

\* What a step observes: a scan that begins, and one that goes on.
LEMMA Observed ==
    ASSUME Observe, Cache', Tables', NEW t \in Threads, at'[t] \in Scanning \cup {"use"}
    PROVE  /\ \A p \in known'[t] : Stocks(p[1], p[2])'
           /\ \A s : Stocked(s)' => s \in seen'[t]
           /\ at[t] = "idle" /\ at'[t] = "version" =>
                /\ \A p \in known'[t] : p[2] \notin Range(arg')
                /\ UNION Range(withdrawn') \subseteq seen'[t]
           /\ ~(at[t] = "idle" /\ at'[t] = "version") => known'[t] \subseteq known[t] /\ seen[t] \subseteq seen'[t]
<1>1. HoldingsFacts'
  BY HoldingsAre, PTL
<1>2. /\ \A p \in Holdings' : Stocks(p[1], p[2])'
      /\ \A s : Stocked(s)' => s \in Current'
  BY <1>1 DEF HoldingsFacts
<1>3. CASE at[t] = "idle" /\ at'[t] = "version"
  <2>1. known'[t] = {p \in Holdings' : p[2] \notin Range(arg')}
    BY <1>3 DEF Observe
  <2>2. seen'[t] = Current' \cup UNION Range(withdrawn')
    BY <1>3 DEF Observe
  <2> QED BY <1>2, <1>3, <2>1, <2>2
<1>4. CASE ~(at[t] = "idle" /\ at'[t] = "version")
  <2>1. known'[t] = known[t] \cap Holdings'
    BY <1>4 DEF Observe
  <2>2. seen'[t] = seen[t] \cup Current'
    BY <1>4 DEF Observe
  <2> QED BY <1>2, <1>4, <2>1, <2>2
<1> QED BY <1>3, <1>4

LEMMA WatchingKept ==
    ASSUME Observe, Cache', Tables'
    PROVE  Watching'
BY Observed DEF Watching

-----------------------------------------------------------------------------
(* The version of a set of objects *)

LEMMA VariantsFinite ==
    ASSUME NEW ids, IsFiniteSet(ids), NEW F, IsFiniteSet(F), NEW V, V \subseteq ids \X F
    PROVE  IsFiniteSet(V) /\ Cardinality(V) \in Nat /\ Cardinality(ids) \in Nat
<1>1. IsFiniteSet(ids \X F)
  BY FS_Product
<1> QED BY <1>1, FS_Subset, FS_CardinalityType

LEMMA VariantsIn ==
    ASSUME NEW ids, NEW F, \A id \in ids : heap[id].variants \subseteq F
    PROVE  /\ Variants(ids) \subseteq ids \X F
           /\ \A id \in ids : \A s \in heap[id].variants : <<id, s>> \in Variants(ids)
           /\ \A p \in Variants(ids) : \E id \in ids : \E s \in heap[id].variants : p = <<id, s>>
<1>1. \A p : p \in Variants(ids) <=> \E id \in ids : \E s \in heap[id].variants : p = <<id, s>>
  BY DEF Variants
<1> QED BY <1>1

\* The count modulo 7 is that of the objects.
LEMMA VersionOf ==
    ASSUME NEW ids, IsFiniteSet(ids), NEW F, IsFiniteSet(F), \A id \in ids : heap[id].variants \subseteq F
    PROVE  /\ Version(ids) \in Nat /\ Cardinality(ids) \in Nat
           /\ Version(ids) % 7 = Cardinality(ids) % 7
<1>1. Cardinality(Variants(ids)) \in Nat /\ Cardinality(ids) \in Nat
  BY VariantsIn, VariantsFinite
<1>2. PICK c \in Nat : c = Cardinality(ids)
  BY <1>1
<1>3. PICK d \in Nat : d = Cardinality(Variants(ids))
  BY <1>1
<1>4. Version(ids) = 7 * (c + d) + c
  BY <1>2, <1>3 DEF Version
<1>5. (7 * (c + d) + c) % 7 = c % 7 /\ 7 * (c + d) + c \in Nat
  OBVIOUS
<1> QED BY <1>2, <1>4, <1>5

LEMMA Weighs ==
    ASSUME NEW c \in Nat, NEW d \in Nat, NEW e \in Nat, NEW f \in Nat, c <= e, d <= f
    PROVE  /\ 7 * (c + d) + c <= 7 * (e + f) + e
           /\ c < e => 7 * (c + d) + c < 7 * (e + f) + e
OBVIOUS

\* More objects have a higher version.
LEMMA VersionGrows ==
    ASSUME NEW all, IsFiniteSet(all), NEW F, IsFiniteSet(F), \A id \in all : heap[id].variants \subseteq F,
           NEW ids, ids \subseteq all
    PROVE  /\ Version(ids) <= Version(all)
           /\ ids # all => Version(ids) < Version(all)
<1>1. IsFiniteSet(ids) /\ IsFiniteSet(Variants(all))
  BY VariantsIn, VariantsFinite, FS_Subset
<1>2. Variants(ids) \subseteq Variants(all)
  BY DEF Variants
<1>3. /\ Cardinality(ids) \in Nat /\ Cardinality(all) \in Nat
      /\ Cardinality(Variants(ids)) \in Nat /\ Cardinality(Variants(all)) \in Nat
      /\ Cardinality(ids) <= Cardinality(all) /\ Cardinality(Variants(ids)) <= Cardinality(Variants(all))
      /\ ids # all => Cardinality(ids) < Cardinality(all)
  BY <1>1, <1>2, SmallerOrSame
<1> QED BY <1>3, Weighs DEF Version

\* The same objects have a higher version later, if any.
LEMMA VersionKept ==
    ASSUME Vault, VaultKept, NEW t \in Compiling, NEW ids, ids = ents[t]
    PROVE  /\ Version(ids) \in Nat /\ Version(ids)' \in Nat /\ Version(ids) <= Version(ids)'
           /\ Cardinality(ids) \in Nat /\ Version(ids) % 7 = Cardinality(ids) % 7
<1>1. ids \subseteq Busy /\ IsFiniteSet(ids)
  BY EntsKept
<1>2. PICK F : IsFiniteSet(F) /\ \A id \in ids : heap[id].variants \subseteq F /\ heap'[id].variants \subseteq F
  BY EntsKept
<1>3. /\ Version(ids) \in Nat /\ Cardinality(ids) \in Nat
      /\ Version(ids) % 7 = Cardinality(ids) % 7
  BY <1>1, <1>2, VersionOf
<1>4. \A id \in ids : heap[id].variants \subseteq heap'[id].variants
  BY <1>1 DEF VaultKept, Evolves
<1>5. \A p : p \in Variants(ids) <=> \E id \in ids : \E s \in heap[id].variants : p = <<id, s>>
  BY DEF Variants
<1>6. \A p : p \in Variants(ids)' <=> \E id \in ids : \E s \in heap'[id].variants : p = <<id, s>>
  BY DEF Variants
<1>7. Variants(ids) \subseteq Variants(ids)' /\ Variants(ids)' \subseteq ids \X F
  BY <1>2, <1>4, <1>5, <1>6
<1>8. IsFiniteSet(Variants(ids)') /\ Cardinality(Variants(ids)') \in Nat
  BY <1>1, <1>2, <1>7, VariantsFinite
<1>9. Cardinality(Variants(ids)) \in Nat /\ Cardinality(Variants(ids)) <= Cardinality(Variants(ids)')
  BY <1>7, <1>8, SmallerOrSame
<1>10. Version(ids) = 7 * (Cardinality(ids) + Cardinality(Variants(ids))) + Cardinality(ids)
  BY DEF Version
<1>11. Version(ids)' = 7 * (Cardinality(ids) + Cardinality(Variants(ids)')) + Cardinality(ids)
  BY DEF Version
<1>12. Version(ids) <= Version(ids)' /\ Version(ids)' \in Nat
  BY <1>3, <1>8, <1>9, <1>10, <1>11, Weighs
<1> QED BY <1>3, <1>12

\* The version of the whole cache is counted from the tables.
Counted ==
    /\ IsFiniteSet(DOMAIN entity) /\ Cardinality(DOMAIN entity) \in Nat
    /\ IsFiniteSet(DOMAIN variant) /\ Cardinality(DOMAIN variant) \in Nat
    /\ Weight \in Nat
    /\ cached =>
        /\ Version(Cached) = Weight /\ IsFiniteSet(Cached) /\ Cardinality(Cached) = Cardinality(DOMAIN entity)
        /\ Cached \subseteq DOMAIN heap
        /\ \A id \in Cached : heap[id].variants \subseteq DOMAIN variant

LEMMA CacheCounted == Cache /\ Tables => Counted
<1> SUFFICES ASSUME Cache, Tables PROVE Counted
  OBVIOUS
<1>1. /\ IsFiniteSet(DOMAIN entity) /\ Cardinality(DOMAIN entity) \in Nat
      /\ IsFiniteSet(DOMAIN variant) /\ Cardinality(DOMAIN variant) \in Nat
  BY BoundedIsFinite, FS_CardinalityType DEF Tables
<1>2. Weight \in Nat
  BY <1>1 DEF Weight
<1>3. ASSUME cached
      PROVE  /\ Version(Cached) = Weight /\ IsFiniteSet(Cached) /\ Cardinality(Cached) = Cardinality(DOMAIN entity)
             /\ Cached \subseteq DOMAIN heap
             /\ \A id \in Cached : heap[id].variants \subseteq DOMAIN variant
  <2>1. IsFiniteSet(Cached) /\ Cardinality(Cached) = Cardinality(DOMAIN entity)
    BY <1>1, PairsCounted DEF Cached
  <2>2. \A n \in DOMAIN entity : heap[<<load, n>>].variants = {s \in DOMAIN variant : variant[s] = n}
    BY <1>3, CachedObject
  <2>3. \A n \in DOMAIN entity : <<load, n>> \in DOMAIN heap
    BY <1>3, CachedObject
  <2>4. \A p : p \in Variants(Cached) <=> \E id \in Cached : \E s \in heap[id].variants : p = <<id, s>>
    BY DEF Variants
  <2>5. PICK v : v = variant
    OBVIOUS
  <2>6. PICK l : l = load
    OBVIOUS
  <2>7. Variants(Cached) = {<<<<l, v[s]>>, s>> : s \in DOMAIN v}
    <3>1. ASSUME NEW p \in Variants(Cached)
          PROVE  \E s \in DOMAIN v : p = <<<<l, v[s]>>, s>>
      <4>1. PICK id \in Cached : \E s \in heap[id].variants : p = <<id, s>>
        BY <2>4
      <4>2. PICK n \in DOMAIN entity : id = <<load, n>>
        BY DEF Cached
      <4>3. PICK s \in heap[id].variants : p = <<id, s>>
        BY <4>1
      <4>4. s \in DOMAIN variant /\ variant[s] = n
        BY <2>2, <4>2, <4>3
      <4> QED BY <2>5, <2>6, <4>2, <4>3, <4>4
    <3>2. ASSUME NEW s \in DOMAIN v
          PROVE  <<<<l, v[s]>>, s>> \in Variants(Cached)
      <4>1. v[s] \in DOMAIN entity
        BY <2>5 DEF Tables
      <4>2. <<l, v[s]>> \in Cached
        BY <2>6, <4>1 DEF Cached
      <4>3. s \in heap[<<l, v[s]>>].variants
        BY <2>2, <2>5, <2>6, <4>1
      <4> QED BY <2>4, <4>2, <4>3
    <3> QED BY <3>1, <3>2
  <2>10. Cardinality(Variants(Cached)) = Cardinality(DOMAIN variant)
    <3>1. IsFiniteSet(DOMAIN v)
      BY <1>1, <2>5
    <3>2. Cardinality({<<<<l, v[s]>>, s>> : s \in DOMAIN v}) = Cardinality(DOMAIN v)
      BY <3>1, VariantsCounted, Zenon
    <3> QED BY <2>5, <2>7, <3>2, Zenon
  <2>8. Version(Cached) = Weight
    BY <1>1, <2>1, <2>10 DEF Version, Weight
  <2>9. Cached \subseteq DOMAIN heap /\ \A id \in Cached : heap[id].variants \subseteq DOMAIN variant
    BY <2>2, <2>3 DEF Cached
  <2> QED BY <2>1, <2>8, <2>9
<1> QED BY <1>1, <1>2, <1>3 DEF Counted

-----------------------------------------------------------------------------
(* The invariant is kept: what each scan has *)

\* The parts of the invariant that hold before and after a step.
Before == Vault /\ Watching /\ Own /\ Scans /\ Stores /\ Kept
After  == Advances /\ VaultKept /\ Observe /\ Cache' /\ Tables' /\ Watching'

\* The cache as it is now fits every scan.
CacheFits == cached => \A t \in Checking : Fits(t, Cached)

LEMMA CacheDoesFit == Cache /\ Tables /\ Watching => CacheFits
<1> SUFFICES ASSUME Cache, Tables, Watching, cached, NEW t \in Checking
             PROVE  Fits(t, Cached)
  BY DEF CacheFits
<1>1. \A n \in DOMAIN entity : heap[<<load, n>>].fp = entity[n].fp /\ Spellings(heap[<<load, n>>]) = RowSpellings(n)
  BY CachedObject
<1>2. \A p \in known[t] : Stocks(p[1], p[2])
  BY DEF Watching, Checking, Scanning
<1>3. \A s : Stocked(s) => s \in seen[t]
  BY DEF Watching, Checking, Scanning
<1>4. ASSUME NEW p \in known[t]
      PROVE  \E id \in Cached : heap[id].fp = p[1] /\ p[2] \in Spellings(heap[id])
  <2>1. PICK n \in DOMAIN entity : entity[n].fp = p[1] /\ p[2] \in RowSpellings(n)
    BY <1>2, <1>4 DEF Stocks
  <2>2. <<load, n>> \in Cached
    BY <2>1 DEF Cached
  <2> QED BY <1>1, <2>1, <2>2
<1>5. ASSUME NEW id \in Cached
      PROVE  Spellings(heap[id]) \subseteq seen[t]
  <2>1. PICK n \in DOMAIN entity : id = <<load, n>>
    BY <1>5 DEF Cached
  <2>2. \A s \in RowSpellings(n) : s \in seen[t]
    BY <1>3, <2>1 DEF Stocked
  <2> QED BY <1>1, <2>1, <2>2
<1> QED BY <1>4, <1>5 DEF Fits

\* Objects of the cache are made of rows, as one fact.
CacheFacts ==
    cached => /\ \A id \in DOMAIN heap : id[1] = load => id \in Cached
              /\ \A n \in DOMAIN entity : /\ <<load, n>> \in DOMAIN heap
                                          /\ heap[<<load, n>>].fp = entity[n].fp
                                          /\ Spellings(heap[<<load, n>>]) = RowSpellings(n)

LEMMA CacheHas == Cache => CacheFacts
BY CacheIs, CachedObject DEF CacheFacts

\* What fits a scan still does after a step.
LEMMA FitsKept ==
    ASSUME After, NEW t \in Threads, NEW ids, ids \subseteq Busy, Fits(t, ids),
           at'[t] \in Scanning, known'[t] \subseteq known[t], seen[t] \subseteq seen'[t]
    PROVE  Fits(t, ids)'
<1>1. /\ \A p \in known'[t] : Stocks(p[1], p[2])'
      /\ \A s : Stocked(s)' => s \in seen'[t]
  BY DEF After, Watching
<1>2. CacheFacts'
  BY CacheHas, PTL DEF After
<1>3. PICK x : \A id \in Busy : /\ id \in DOMAIN heap' /\ heap'[id].fp = heap[id].fp
                                /\ heap'[id] = heap[id] \/ (cached' /\ id[1] = load')
  BY DEF After, VaultKept, Evolves
<1>4. ASSUME NEW id \in ids, heap'[id] # heap[id]
      PROVE  \E n \in DOMAIN entity' : heap[id].fp = entity'[n].fp /\ Spellings(heap'[id]) = RowSpellings(n)'
  <2>1. cached' /\ id[1] = load' /\ id \in DOMAIN heap' /\ heap'[id].fp = heap[id].fp
    BY <1>3, <1>4
  <2>2. id \in Cached'
    BY <1>2, <2>1 DEF CacheFacts
  <2>3. PICK n \in DOMAIN entity' : id = <<load', n>>
    BY <2>2 DEF Cached
  <2>4. heap'[<<load', n>>].fp = entity'[n].fp /\ Spellings(heap'[<<load', n>>]) = RowSpellings(n)'
    BY <1>2, <2>1, <2>3 DEF CacheFacts
  <2> QED BY <2>1, <2>3, <2>4
<1>5. ASSUME NEW p \in known'[t]
      PROVE  \E id \in ids : heap'[id].fp = p[1] /\ p[2] \in Spellings(heap'[id])
  <2>1. PICK id \in ids : heap[id].fp = p[1] /\ p[2] \in Spellings(heap[id])
    BY <1>5 DEF Fits
  <2>2. CASE heap'[id] = heap[id]
    BY <2>1, <2>2
  <2>3. CASE heap'[id] # heap[id]
    <3>1. PICK n \in DOMAIN entity' : heap[id].fp = entity'[n].fp /\ Spellings(heap'[id]) = RowSpellings(n)'
      BY <1>4, <2>3
    <3>2. PICK m \in DOMAIN entity' : entity'[m].fp = p[1] /\ p[2] \in RowSpellings(m)'
      BY <1>1, <1>5 DEF Stocks
    <3>3. m = n
      BY <2>1, <3>1, <3>2 DEF After, Tables
    <3>4. heap'[id].fp = p[1]
      BY <1>3, <2>1
    <3> QED BY <3>1, <3>2, <3>3, <3>4
  <2> QED BY <2>2, <2>3
<1>6. ASSUME NEW id \in ids
      PROVE  Spellings(heap'[id]) \subseteq seen'[t]
  <2>1. CASE heap'[id] = heap[id]
    BY <1>6, <2>1 DEF Fits
  <2>2. CASE heap'[id] # heap[id]
    <3>1. PICK n \in DOMAIN entity' : Spellings(heap'[id]) = RowSpellings(n)'
      BY <1>4, <2>2
    <3>2. \A s \in RowSpellings(n)' : Stocked(s)'
      BY <3>1 DEF Stocked
    <3> QED BY <1>1, <3>1, <3>2
  <2> QED BY <2>1, <2>2
<1> QED BY <1>5, <1>6 DEF Fits, Spellings

\* Objects that fit a scan compile to a dictionary that suits it.
LEMMA CompiledSuits ==
    ASSUME NEW t, NEW ids, Fits(t, ids)
    PROVE  Suits(t, Listed \cap UNION {Spellings(heap[id]) : id \in ids})
<1> DEFINE U == UNION {Spellings(heap[id]) : id \in ids}
<1>1. \A s : s \in U <=> \E id \in ids : s \in Spellings(heap[id])
  OBVIOUS
<1> HIDE DEF U
<1>2. \A p \in known[t] : p[2] \in U
  BY <1>1 DEF Fits
<1>3. U \subseteq seen[t]
  BY <1>1 DEF Fits
<1> QED BY <1>2, <1>3 DEF Suits, Second, U

LEMMA SuitsKept ==
    ASSUME NEW t, NEW S, Suits(t, S), known'[t] \subseteq known[t], seen[t] \subseteq seen'[t]
    PROVE  Suits(t, S)'
BY DEF Suits, Second

\* A scan that goes on must find no more than before, and may find no less.
LEMMA GoesOn ==
    ASSUME After, NEW t \in Threads, at'[t] \in Scanning \cup {"use"}, at[t] # "idle"
    PROVE  known'[t] \subseteq known[t] /\ seen[t] \subseteq seen'[t]
BY Observed DEF After

\* A dictionary that is taken suits the scan.
LEMMA HitSuits ==
    ASSUME Before, VaultKept, NEW t \in Threads, Hits(t), ~late'[t]
    PROVE  Suits(t, dict.surfaces)
<1>1. Fixed(dict.version, dict.surfaces) /\ ~Colliding /\ at[t] = "version" /\ dict.version = Version(ents[t])
  BY DEF Hits, Before, Kept
<1>2. t \in Checking /\ t \in Compiling
  BY <1>1 DEF Checking, Compiling
<1>3. PICK ids : ids = ents[t]
  OBVIOUS
<1>4. Version(ids) \in Nat /\ Version(ids) % 7 = Cardinality(ids) % 7
  BY <1>2, <1>3, VersionKept DEF Before
<1>5. \/ Suits(t, dict.surfaces)
      \/ dict.version < Version(ents[t])
      \/ dict.version % 7 # Cardinality(ents[t]) % 7
  BY <1>1, <1>2 DEF Fixed, Usable
<1> QED BY <1>1, <1>3, <1>4, <1>5

LEMMA OwnKept ==
    ASSUME Before, After
    PROVE  Own'
<1>1. ASSUME NEW t \in Compiling'
      PROVE  Fits(t, ents[t])'
  <2>1. t \in Threads /\ Proceeds(t) /\ at'[t] \in Scanning \cup {"use"}
    BY DEF Compiling, Scanning, After, Advances
  <2>2. CASE Begins(t)
    <3>1. CacheFits'
      BY CacheDoesFit, PTL DEF After
    <3>2. cached' /\ ents'[t] = Cached'
      BY <2>1, <2>2, BeginsIs DEF Before
    <3>3. t \in Checking'
      BY <2>1, <2>2 DEF Checking, Begins
    <3>4. Fits(t, Cached)'
      BY <3>1, <3>2, <3>3 DEF CacheFits
    <3> QED BY <3>2, <3>4 DEF Fits
  <2>3. CASE t \in Compiling /\ ents'[t] = ents[t]
    <3>1. PICK ids : ids = ents[t]
      OBVIOUS
    <3>2. Fits(t, ids)
      BY <2>3, <3>1 DEF Before, Own
    <3>3. at[t] # "idle" /\ at'[t] \in Scanning
      BY <2>3 DEF Compiling, Scanning
    <3>4. ids \subseteq Busy
      BY <2>3, <3>1, EntsKept DEF Before, After
    <3>5. Fits(t, ids)'
      BY <2>1, <3>2, <3>3, <3>4, GoesOn, FitsKept
    <3> QED BY <2>3, <3>1, <3>5 DEF Fits
  <2> QED BY <2>1, <2>2, <2>3, ScanComesFrom
<1>2. ASSUME NEW t \in Threads, at'[t] = "store"
      PROVE  Suits(t, got[t])'
  <2>1. Proceeds(t)
    BY DEF After, Advances
  <2>2. (at[t] = "store" /\ got'[t] = got[t]) \/ Builds(t)
    BY <1>2, <2>1 DEF Proceeds, Stays, Begins, Misses, Hits, Uses, Aims, Follows, Turns
  <2>3. PICK S : S = got'[t]
    OBVIOUS
  <2>4. Suits(t, S)
    <3>1. CASE at[t] = "store" /\ got'[t] = got[t]
      BY <2>3, <3>1 DEF Before, Own
    <3>2. CASE Builds(t)
      <4>1. t \in Compiling /\ S = Listed \cap UNION {Spellings(heap[id]) : id \in ents[t]}
        BY <2>3, <3>2 DEF Builds, Compiling
      <4> QED BY <4>1, CompiledSuits DEF Before, Own
    <3> QED BY <2>2, <3>1, <3>2
  <2>5. at[t] # "idle" /\ at'[t] \in Scanning
    BY <1>2, <2>2 DEF Builds, Scanning
  <2>6. Suits(t, S)'
    BY <2>4, <2>5, GoesOn, SuitsKept
  <2> QED BY <2>3, <2>6 DEF Suits
<1>3. ASSUME NEW t \in Threads, at'[t] = "use", ~late'[t]
      PROVE  Suits(t, got[t])'
  <2>1. Proceeds(t)
    BY DEF After, Advances
  <2>2. (at[t] = "use" /\ got'[t] = got[t] /\ ~late[t]) \/ Hits(t) \/ Uses(t)
    BY <1>3, <2>1 DEF Proceeds, Stays, Begins, Misses, Builds, Aims, Follows, Turns
  <2>3. PICK S : S = got'[t]
    OBVIOUS
  <2>4. Suits(t, S)
    <3>1. CASE at[t] = "use" /\ got'[t] = got[t] /\ ~late[t]
      BY <2>3, <3>1 DEF Before, Own
    <3>2. CASE Hits(t)
      <4>1. S = dict.surfaces
        BY <2>3, <3>2 DEF Hits
      <4> QED BY <1>3, <3>2, <4>1, HitSuits DEF After
    <3>3. CASE Uses(t)
      BY <2>3, <3>3 DEF Before, Own, Uses
    <3> QED BY <2>2, <3>1, <3>2, <3>3
  <2>5. at[t] # "idle" /\ at'[t] \in Scanning \cup {"use"}
    BY <1>3, <2>2 DEF Hits, Uses
  <2>6. Suits(t, S)'
    BY <2>4, <2>5, GoesOn, SuitsKept
  <2> QED BY <2>3, <2>6 DEF Suits
<1> QED BY <1>1, <1>2, <1>3 DEF Own

-----------------------------------------------------------------------------
(* The invariant is kept: what scans compile and the dictionary that is kept *)

LEMMA OnwardIs ==
    ASSUME Onward
    PROVE  /\ Colliding => Colliding'
           /\ Deleting => Deleting'
           /\ Awaiting' = {} => Awaiting = {}
           /\ Args \subseteq Args' /\ Withdrawn \subseteq Withdrawn'
<1>1. ASSUME Colliding
      PROVE  Colliding'
  <2>1. PICK t \in Awaiting : at[t] = "deleted" /\ Awaiting # {t}
    BY <1>1 DEF Colliding
  <2>2. PICK u \in Awaiting : u # t
    BY <2>1
  <2>3. t \in Awaiting' /\ u \in Awaiting' /\ at'[t] = "deleted"
    BY <2>1, <2>2 DEF Onward, Awaiting
  <2> QED BY <2>2, <2>3 DEF Colliding
<1>2. Deleting => Deleting'
  BY DEF Deleting, Onward
<1>3. Awaiting' = {} => Awaiting = {}
  BY DEF Onward
<1>4. Args \subseteq Args'
  <2>1. \A u \in Awaiting : u \in Awaiting' /\ arg'[u] = arg[u]
    BY DEF Onward
  <2>2. PICK A : A = Awaiting'
    OBVIOUS
  <2>3. Args' = {arg'[u] : u \in A}
    BY <2>2 DEF Args
  <2> QED BY <2>1, <2>2, <2>3 DEF Args
<1>5. Withdrawn \subseteq Withdrawn'
  <2>1. \A u \in Awaiting : u \in Awaiting' /\ withdrawn'[u] = withdrawn[u]
    BY DEF Onward
  <2>2. \A s : s \in Withdrawn <=> \E u \in Awaiting : s \in withdrawn[u]
    BY DEF Withdrawn
  <2>3. \A s : s \in Withdrawn' <=> \E u \in Awaiting' : s \in withdrawn'[u]
    BY DEF Withdrawn
  <2> QED BY <2>1, <2>2, <2>3
<1> QED BY <1>1, <1>2, <1>3, <1>4, <1>5

\* An entity is added or deleted by a change that then awaits its invalidate().
LEMMA AddsAlone ==
    ASSUME NEW t \in Awaiting', at'[t] # "deleted", Deleting', ~Colliding'
    PROVE  FALSE
<1>1. PICK d \in Threads : at'[d] = "deleted"
  BY DEF Deleting
<1>2. d \in Awaiting' /\ d # t
  BY <1>1 DEF Awaiting
<1> QED BY <1>1, <1>2 DEF Colliding

LEMMA DeletesAlone ==
    ASSUME Onward, NEW t \in Threads, at[t] = "idle", at'[t] = "deleted", ~Colliding'
    PROVE  Awaiting = {} /\ ~Deleting /\ Deleting'
<1>1. t \in Awaiting' /\ t \notin Awaiting
  BY DEF Awaiting
<1>2. Awaiting' = {t}
  BY <1>1 DEF Colliding
<1>3. Awaiting = {}
  BY <1>1, <1>2 DEF Onward
<1>4. \A u \in Threads : at[u] = "deleted" => u \in Awaiting
  BY DEF Awaiting
<1> QED BY <1>3, <1>4 DEF Deleting

\* What the kinds of steps do to the size of the tables and to the spellings in them.
LEMMA SpellsCounted ==
    ASSUME Before, After, Spells
    PROVE  /\ Weight < Weight' /\ \A s : Stocked(s) => Stocked(s)'
           /\ Weight \in Nat /\ Weight' \in Nat
           /\ UNCHANGED <<entity, load, cached>>
<1>1. PICK n \in DOMAIN entity : \E s : SpellsAt(n, s)
  BY SpellsIs DEF Before, After, Cache
<1>2. PICK s : SpellsAt(n, s)
  BY <1>1
<1>3. s \notin DOMAIN variant /\ variant' = Put(variant, s, n) /\ UNCHANGED <<entity, load, cached>>
  BY <1>2 DEF SpellsAt
<1>4. DOMAIN variant' = DOMAIN variant \cup {s} /\ \A x \in DOMAIN variant : variant'[x] = variant[x]
  BY <1>3 DEF Put
<1>5. Counted
  BY CacheCounted DEF Before, Vault
<1>6. Cardinality(DOMAIN variant') = Cardinality(DOMAIN variant) + 1
  <2>1. IsFiniteSet(DOMAIN variant)
    BY <1>5 DEF Counted
  <2>2. Cardinality(DOMAIN variant \cup {s}) = Cardinality(DOMAIN variant) + 1
    BY <1>3, <2>1, FS_AddElement
  <2> QED BY <1>4, <2>2
<1>7. Weight < Weight' /\ Weight \in Nat /\ Weight' \in Nat
  BY <1>3, <1>5, <1>6 DEF Weight, Counted
<1>8. \A x : Stocked(x) => Stocked(x)'
  BY <1>3, <1>4 DEF Stocked, RowSpellings
<1> QED BY <1>3, <1>7, <1>8

LEMMA CorrectsCounted ==
    ASSUME NEW n, NEW v, Corrects(n, v)
    PROVE  /\ Weight' = Weight /\ DOMAIN entity' = DOMAIN entity /\ UNCHANGED <<load, cached>>
           /\ \A s : Stocked(s)' => Stocked(s) \/ s = v
           /\ \A s : Stocked(s) => Stocked(s)' \/ s = entity[n].value
<1>1. n \in DOMAIN entity /\ entity' = Put(entity, n, [fp |-> entity[n].fp, value |-> v])
      /\ UNCHANGED <<variant, load, cached>>
  BY DEF Corrects
<1>2. DOMAIN entity' = DOMAIN entity /\ entity'[n].value = v
      /\ \A m \in DOMAIN entity : m # n => entity'[m] = entity[m]
  BY <1>1 DEF Put
<1>3. Weight' = Weight
  BY <1>1, <1>2 DEF Weight
<1>4. \A s : Stocked(s)' => Stocked(s) \/ s = v
  BY <1>1, <1>2 DEF Stocked, RowSpellings
<1>5. \A s : Stocked(s) => Stocked(s)' \/ s = entity[n].value
  BY <1>1, <1>2 DEF Stocked, RowSpellings
<1> QED BY <1>1, <1>2, <1>3, <1>4, <1>5

LEMMA AddsCounted ==
    ASSUME Before, NEW n, NEW f, NEW v, Adds(n, f, v)
    PROVE  /\ Weight < Weight' /\ \A s : Stocked(s) => Stocked(s)'
           /\ Weight \in Nat /\ Weight' \in Nat
           /\ cached' /\ (cached => load' = load)
<1>1. /\ n \notin DOMAIN entity /\ DOMAIN entity' = DOMAIN entity \cup {n}
      /\ \A m \in DOMAIN entity : entity'[m] = entity[m]
  BY AddsIs DEF Before
<1>2. variant' = variant /\ load' = Memory.load /\ cached'
  BY DEF Adds
<1>3. Counted
  BY CacheCounted DEF Before, Vault
<1>4. Cardinality(DOMAIN entity') = Cardinality(DOMAIN entity) + 1
  BY <1>1, <1>3, FS_AddElement DEF Counted
<1>5. Weight < Weight' /\ Weight \in Nat /\ Weight' \in Nat
  BY <1>2, <1>3, <1>4 DEF Weight, Counted
<1>6. \A s : Stocked(s) => Stocked(s)'
  BY <1>1, <1>2 DEF Stocked, RowSpellings
<1>7. cached => Memory.load = load
  BY CacheIs DEF Before, Vault
<1> QED BY <1>2, <1>5, <1>6, <1>7

LEMMA DeletesCounted ==
    ASSUME Before, NEW n, Deletes(n)
    PROVE  Cardinality(DOMAIN entity) = Cardinality(DOMAIN entity') + 1 /\ Cardinality(DOMAIN entity') \in Nat
<1>1. n \in DOMAIN entity /\ DOMAIN entity' = DOMAIN entity \ {n}
  BY DeletesIs
<1>2. Counted
  BY CacheCounted DEF Before, Vault
<1>3. IsFiniteSet(DOMAIN entity') /\ Cardinality(DOMAIN entity') = Cardinality(DOMAIN entity) - 1
      /\ Cardinality(DOMAIN entity') \in Nat
  BY <1>1, <1>2, FS_RemoveElement, FS_CardinalityType DEF Counted
<1> QED BY <1>2, <1>3 DEF Counted

\* A dictionary stays recent as long as no change is done with: another one has a
\* higher version, or the deletion that takes from the count is known.
LEMMA RecentKept ==
    ASSUME Before, After, Onward, Changed, ~Colliding', NEW v \in Nat, NEW S, Recent(v, S)
    PROVE  Recent(v, S)'
<1>1. /\ Deleting => Deleting'
      /\ Awaiting' = {} => Awaiting = {}
      /\ Args \subseteq Args' /\ Withdrawn \subseteq Withdrawn'
  BY OnwardIs
<1>2. CASE UNCHANGED <<entity, variant>>
  <2>1. Weight' = Weight
    BY <1>2 DEF Weight
  <2>2. \A s : Stocked(s)' <=> Stocked(s)
    BY <1>2 DEF Stocked, RowSpellings
  <2> QED BY <1>1, <1>2, <2>1, <2>2 DEF Recent
<1>3. CASE Spells
  <2>1. Weight < Weight' /\ (\A s : Stocked(s) => Stocked(s)') /\ Weight \in Nat /\ Weight' \in Nat /\ entity' = entity
    BY <1>3, SpellsCounted
  <2> QED BY <1>1, <2>1 DEF Recent
<1>4. ASSUME NEW t \in Threads, NEW n \in DOMAIN entity, Corrects(n, arg[t]), entity[n].value \in withdrawn'[t],
             t \in Awaiting', arg'[t] = arg[t]
      PROVE  Recent(v, S)'
  <2>1. PICK a : a = arg[t]
    OBVIOUS
  <2>2. Corrects(n, a)
    BY <1>4, <2>1
  <2>3. Weight' = Weight /\ DOMAIN entity' = DOMAIN entity
    BY <2>2, CorrectsCounted
  <2>4. \A s : Stocked(s)' => Stocked(s) \/ s = a
    BY <2>2, CorrectsCounted
  <2>5. \A s : Stocked(s) => Stocked(s)' \/ s = entity[n].value
    BY <2>2, CorrectsCounted
  <2>6. a \in Args'
    BY <1>4, <2>1 DEF Args
  <2>7. entity[n].value \in Withdrawn'
    BY <1>4 DEF Withdrawn
  <2>8. CASE v % 7 = (Cardinality(DOMAIN entity) + 1) % 7 /\ Deleting
    BY <1>1, <2>3, <2>8 DEF Recent
  <2>9. CASE ~(v % 7 = (Cardinality(DOMAIN entity) + 1) % 7 /\ Deleting)
    <3>1. /\ v <= Weight
          /\ v = Weight => \A s \in Listed \ Args : Stocked(s) => s \in S
          /\ \A s \in S : Stocked(s) \/ s \in Withdrawn
      BY <2>9 DEF Recent
    <3>2. v = Weight' => \A s \in Listed \ Args' : Stocked(s)' => s \in S
      BY <1>1, <2>3, <2>4, <2>6, <3>1
    <3>3. \A s \in S : Stocked(s)' \/ s \in Withdrawn'
      BY <1>1, <2>5, <2>7, <3>1
    <3> QED BY <1>4, <2>3, <3>1, <3>2, <3>3 DEF Recent
  <2> QED BY <2>8, <2>9
<1>5. ASSUME NEW t \in Threads, NEW n, NEW f, NEW w, Adds(n, f, w), t \in Awaiting', at'[t] # "deleted"
      PROVE  Recent(v, S)'
  <2>1. Weight < Weight' /\ (\A s : Stocked(s) => Stocked(s)') /\ Weight \in Nat /\ Weight' \in Nat
    BY <1>5, AddsCounted
  <2>2. ~Deleting
    BY <1>1, <1>5, AddsAlone
  <2>3. v <= Weight /\ \A s \in S : Stocked(s) \/ s \in Withdrawn
    BY <2>2 DEF Recent
  <2> QED BY <1>1, <1>5, <2>1, <2>3 DEF Recent
<1>6. ASSUME NEW t \in Threads, NEW n \in DOMAIN entity, Deletes(n), at[t] = "idle", at'[t] = "deleted"
      PROVE  Recent(v, S)'
  <2>1. Awaiting = {} /\ ~Deleting /\ Deleting'
    BY <1>6, DeletesAlone
  <2>2. v % 7 = Cardinality(DOMAIN entity) % 7
    BY <2>1 DEF Recent
  <2>3. Cardinality(DOMAIN entity) = Cardinality(DOMAIN entity') + 1
    BY <1>6, DeletesCounted
  <2> QED BY <2>1, <2>2, <2>3 DEF Recent
<1> QED BY <1>2, <1>3, <1>4, <1>5, <1>6 DEF Changed, Loads, Relocks

LEMMA OneApart ==
    ASSUME NEW c \in Nat, NEW v \in Nat, v % 7 = (c + 1) % 7
    PROVE  v % 7 # c % 7
OBVIOUS

\* A recent dictionary may be taken by a scan that begins, if the versions agree.
LEMMA RecentIsUsable ==
    ASSUME Before, After, NEW v \in Nat, NEW S, Recent(v, S)', NEW t \in Threads, Begins(t), t \in Checking'
    PROVE  Suits(t, S)' \/ v < Version(ents[t])' \/ v % 7 # Cardinality(ents'[t]) % 7
<1>1. cached' /\ ents'[t] = Cached' /\ Cardinality(ents'[t]) = Cardinality(DOMAIN entity)
      /\ Cardinality(DOMAIN entity) \in Nat /\ entity' = entity
  BY BeginsIs DEF Before, Begins
<1>2. Counted'
  BY CacheCounted, PTL DEF After
<1>3. Version(Cached)' = Weight' /\ Weight' \in Nat
  BY <1>1, <1>2 DEF Counted
<1>4. Version(ents[t])' = Weight'
  BY <1>1, <1>3 DEF Version, Variants
<1>5. CASE v % 7 = (Cardinality(DOMAIN entity) + 1) % 7
  BY <1>1, <1>5, OneApart
<1>6. CASE /\ v <= Weight'
           /\ v = Weight' => \A s \in Listed \ Args' : Stocked(s)' => s \in S
           /\ \A s \in S : Stocked(s)' \/ s \in Withdrawn'
  <2>1. CASE v < Weight'
    BY <1>4, <2>1
  <2>2. CASE ~(v < Weight')
    <3>1. v = Weight'
      BY <1>3, <1>6, <2>2
    <3>2. at[t] = "idle" /\ at'[t] = "version" /\ at'[t] \in Scanning \cup {"use"}
      BY DEF Begins, Scanning
    <3>3. /\ \A p \in known'[t] : Stocks(p[1], p[2])' /\ p[2] \notin Range(arg')
          /\ \A s : Stocked(s)' => s \in seen'[t]
          /\ UNION Range(withdrawn') \subseteq seen'[t]
      BY <3>2, Observed DEF After
    <3>4. DOMAIN arg' = Threads /\ DOMAIN withdrawn' = Threads /\ Awaiting' \subseteq Threads
      BY DEF After, Advances, Shape, Awaiting
    <3>5. Args' \subseteq Range(arg')
      BY <3>4 DEF Args, Range
    <3>6. Withdrawn' \subseteq UNION Range(withdrawn')
      <4>1. ASSUME NEW s \in Withdrawn'
            PROVE  s \in UNION Range(withdrawn')
        <5>1. PICK u \in Awaiting' : s \in withdrawn'[u]
          BY DEF Withdrawn
        <5>2. withdrawn'[u] \in Range(withdrawn')
          BY <3>4 DEF Range
        <5> QED BY <5>1, <5>2
      <4> QED BY <4>1
    <3>7. \A p \in known'[t] : p[2] \in Listed => p[2] \in S
      <4>1. \A p \in known'[t] : Stocked(p[2])'
        BY <3>3 DEF Stocks, Stocked
      <4> QED BY <1>6, <3>1, <3>3, <3>5, <4>1
    <3>8. S \subseteq seen'[t]
      BY <1>6, <3>3, <3>6
    <3> QED BY <3>7, <3>8 DEF Suits, Second
  <2> QED BY <2>1, <2>2
<1> QED BY <1>1, <1>5, <1>6 DEF Recent

LEMMA FixedKept ==
    ASSUME Before, After, Onward, Changed, NEW v, NEW S, Fixed(v, S)
    PROVE  Fixed(v, S)'
<1> SUFFICES ASSUME ~Colliding'
             PROVE  Recent(v, S)' /\ Usable(v, S)'
  BY DEF Fixed
<1>1. v \in Nat /\ Recent(v, S) /\ Usable(v, S)
  BY OnwardIs DEF Fixed
<1>2. Recent(v, S)'
  BY <1>1, RecentKept
<1>3. ASSUME NEW t \in Checking'
      PROVE  Suits(t, S)' \/ v < Version(ents[t])' \/ v % 7 # Cardinality(ents'[t]) % 7
  <2>1. t \in Threads /\ Proceeds(t) /\ at'[t] \in Scanning \cup {"use"}
    BY DEF Checking, Scanning, After, Advances
  <2>2. CASE Begins(t)
    BY <1>1, <1>2, <1>3, <2>1, <2>2, RecentIsUsable
  <2>3. CASE t \in Checking /\ ents'[t] = ents[t]
    <3>1. PICK ids : ids = ents[t]
      OBVIOUS
    <3>2. t \in Compiling /\ at[t] # "idle"
      BY <2>3 DEF Compiling, Checking
    <3>3. Version(ids) \in Nat /\ Version(ids)' \in Nat /\ Version(ids) <= Version(ids)'
      BY <3>1, <3>2, VersionKept DEF Before, After
    <3>4. Version(ids)' = Version(ents[t])'
      BY <2>3, <3>1 DEF Version, Variants
    <3>5. Suits(t, S) => Suits(t, S)'
      BY <2>1, <3>2, GoesOn, SuitsKept
    <3>6. Suits(t, S) \/ v < Version(ids) \/ v % 7 # Cardinality(ids) % 7
      BY <1>1, <2>3, <3>1 DEF Usable
    <3> QED BY <1>1, <2>3, <3>1, <3>3, <3>4, <3>5, <3>6
  <2> QED BY <2>1, <2>2, <2>3, ScanComesFrom
<1> QED BY <1>2, <1>3 DEF Usable

\* What a scan compiles is recent, and usable for the others, if no invalidate()
\* has come since it read the entities.
LEMMA BuiltIsFixed ==
    ASSUME Before, NEW b \in Threads, at[b] = "build", ~crossed[b],
           NEW S, S = Listed \cap UNION {Spellings(heap[id]) : id \in ents[b]}
    PROVE  Fixed(version[b], S)
<1>1. PICK v : v = version[b]
  OBVIOUS
<1>2. PICK ids : ids = ents[b]
  OBVIOUS
<1>3. b \in Compiling /\ Moving(b)
  BY DEF Before, Scans, Compiling
<1>4. v \in Nat /\ v <= Version(ids) /\ v % 7 = Cardinality(ids) % 7
  BY <1>1, <1>2, <1>3 DEF Moving
<1>5. IsFiniteSet(ids) /\ ids \subseteq DOMAIN heap
      /\ \E F : IsFiniteSet(F) /\ \A id \in ids : heap[id].variants \subseteq F
  BY <1>2, <1>3 DEF Before, Vault, Requests
<1>6. Version(ids) \in Nat /\ Cardinality(ids) \in Nat
  BY <1>5, VersionOf
<1>7. Counted /\ CacheFacts
  BY CacheCounted, CacheHas DEF Before, Vault
<1>8. \A s : s \in S <=> s \in Listed /\ \E id \in ids : s \in Spellings(heap[id])
  BY <1>2
<1>9. ASSUME ~Colliding
      PROVE  Recent(v, S)
  <2>1. CASE Live(ids)
    <3>1. cached /\ ids \subseteq Cached
      BY <1>5, <1>7, <2>1 DEF Live, CacheFacts
    <3>2. /\ Version(Cached) = Weight /\ IsFiniteSet(Cached) /\ Cardinality(Cached) = Cardinality(DOMAIN entity)
          /\ IsFiniteSet(DOMAIN variant) /\ Weight \in Nat
          /\ \A id \in Cached : heap[id].variants \subseteq DOMAIN variant
      BY <1>7, <3>1 DEF Counted
    <3>3. Version(ids) <= Version(Cached) /\ (ids # Cached => Version(ids) < Version(Cached))
      BY <3>1, <3>2, VersionGrows
    <3>4. v <= Weight /\ (v = Weight => ids = Cached)
      BY <1>4, <1>6, <3>2, <3>3
    <3>5. \A n \in DOMAIN entity : Spellings(heap[<<load, n>>]) = RowSpellings(n)
      BY <1>7, <3>1 DEF CacheFacts
    <3>6. ASSUME ids = Cached, NEW s \in Listed, Stocked(s)
          PROVE  s \in S
      <4>1. PICK n \in DOMAIN entity : s \in RowSpellings(n)
        BY <3>6 DEF Stocked
      <4>2. <<load, n>> \in ids /\ s \in Spellings(heap[<<load, n>>])
        BY <3>5, <3>6, <4>1 DEF Cached
      <4> QED BY <1>8, <3>6, <4>2
    <3>7. ASSUME NEW s \in S
          PROVE  Stocked(s)
      <4>1. PICK id \in ids : s \in Spellings(heap[id])
        BY <1>8, <3>7
      <4>2. PICK n \in DOMAIN entity : id = <<load, n>>
        BY <3>1, <4>1 DEF Cached
      <4> QED BY <3>5, <4>1, <4>2 DEF Stocked
    <3>8. Awaiting = {} => v % 7 = Cardinality(DOMAIN entity) % 7
      BY <1>2, <1>3, <1>4, <3>2 DEF Moving
    <3> QED BY <3>4, <3>6, <3>7, <3>8 DEF Recent
  <2>2. CASE Cardinality(ids) = Cardinality(DOMAIN entity) + 1 /\ Deleting
    BY <1>4, <2>2 DEF Recent
  <2> QED BY <1>2, <1>3, <1>9, <2>1, <2>2 DEF Moving
<1>10. ASSUME ~Colliding, NEW t \in Checking
       PROVE  Suits(t, S) \/ v < Version(ents[t]) \/ v % 7 # Cardinality(ents[t]) % 7
  <2>1. \/ Fits(t, ids)
        \/ ids \subseteq ents[t]
        \/ Cardinality(ids) % 7 # Cardinality(ents[t]) % 7
    BY <1>2, <1>3, <1>10 DEF Moving
  <2>2. ASSUME Fits(t, ids)
        PROVE  Suits(t, S)
    BY <1>2, <2>2, CompiledSuits
  <2>3. t \in Compiling
    BY DEF Checking, Compiling
  <2>4. CASE ids = ents[t]
    <3>1. Fits(t, ids)
      BY <2>3, <2>4 DEF Before, Own
    <3> QED BY <2>2, <3>1
  <2>5. CASE ids \subseteq ents[t] /\ ids # ents[t]
    <3>1. PICK all : all = ents[t]
      OBVIOUS
    <3>2. IsFiniteSet(all) /\ \E F : IsFiniteSet(F) /\ \A id \in all : heap[id].variants \subseteq F
      BY <2>3, <3>1 DEF Before, Vault, Requests
    <3>3. Version(ids) < Version(all) /\ Version(all) \in Nat
      BY <2>5, <3>1, <3>2, VersionGrows, VersionOf
    <3> QED BY <1>4, <1>6, <3>1, <3>3
  <2> QED BY <1>4, <2>1, <2>2, <2>4, <2>5
<1> QED BY <1>1, <1>4, <1>9, <1>10 DEF Fixed, Usable

\* A scan that has just begun has the whole cache.
LEMMA BegunMoves ==
    ASSUME Before, After, NEW b \in Threads, Begins(b)
    PROVE  Moving(b)'
<1>1. cached' /\ ents'[b] = Cached' /\ at'[b] = "version"
  BY BeginsIs DEF Before, Begins
<1>2. Live(ents[b])'
  BY <1>1 DEF Live, Cached
<1>3. CacheFits'
  BY CacheDoesFit, PTL DEF After
<1>4. \A t \in Checking' : Fits(t, ents[b])'
  BY <1>1, <1>3 DEF CacheFits, Fits
<1> QED BY <1>1, <1>2, <1>4 DEF Moving

\* One that goes on has objects of the cache, or one too many.
LEMMA LiveKept ==
    ASSUME Before, After, Onward, Changed, NEW b \in Compiling, NEW ids, ids = ents[b],
           Awaiting = {} => Live(ids) /\ ids = Cached
    PROVE  /\ Awaiting' = {} => Live(ids)' /\ ids = Cached'
           /\ ~Colliding' /\ (Live(ids) \/ (Cardinality(ids) = Cardinality(DOMAIN entity) + 1 /\ Deleting)) =>
                Live(ids)' \/ (Cardinality(ids) = Cardinality(DOMAIN entity') + 1 /\ Deleting')
<1>1. /\ Deleting => Deleting'
      /\ Awaiting' = {} => Awaiting = {}
  BY OnwardIs
<1>2. ~Relocks
  BY DEF Relocks
<1>3. CASE Loads
  <2>1. entity' = entity /\ (cached => cached' /\ load' = load)
    BY <1>3, CacheIs DEF Loads, Keep, Before, Vault
  <2> QED BY <1>1, <2>1 DEF Live, Cached
<1>4. CASE Spells
  <2>1. UNCHANGED <<entity, load, cached>>
    BY <1>4, SpellsCounted
  <2> QED BY <1>1, <2>1 DEF Live, Cached
<1>5. ASSUME NEW t \in Threads, NEW n \in DOMAIN entity, Corrects(n, arg[t]), t \in Awaiting'
      PROVE  /\ Awaiting' # {}
             /\ Live(ids) => Live(ids)'
             /\ DOMAIN entity' = DOMAIN entity
  <2>1. UNCHANGED <<load, cached>> /\ DOMAIN entity' = DOMAIN entity
    BY <1>5, CorrectsCounted
  <2> QED BY <1>5, <2>1 DEF Live
<1>6. ASSUME NEW t \in Threads, NEW n, NEW f, NEW w, Adds(n, f, w), t \in Awaiting', at'[t] # "deleted"
      PROVE  /\ Awaiting' # {}
             /\ Live(ids) => Live(ids)'
             /\ ~Colliding' => ~Deleting
  <2>1. cached' /\ (cached => load' = load)
    BY <1>6, AddsCounted
  <2> QED BY <1>1, <1>6, <2>1, AddsAlone DEF Live
<1>7. ASSUME NEW t \in Threads, NEW n \in DOMAIN entity, Deletes(n), at[t] = "idle", at'[t] = "deleted"
      PROVE  /\ Awaiting' # {}
             /\ ~Colliding' => Cardinality(ids) = Cardinality(DOMAIN entity') + 1 /\ Deleting'
  <2>1. t \in Awaiting'
    BY <1>7 DEF Awaiting
  <2>2. ASSUME ~Colliding'
        PROVE  Cardinality(ids) = Cardinality(DOMAIN entity') + 1 /\ Deleting'
    <3>1. Awaiting = {} /\ Deleting'
      BY <1>7, <2>2, DeletesAlone
    <3>2. cached /\ ids = Cached
      BY <3>1 DEF Live
    <3>3. Counted
      BY CacheCounted DEF Before, Vault
    <3>4. Cardinality(ids) = Cardinality(DOMAIN entity)
      BY <3>2, <3>3 DEF Counted
    <3> QED BY <1>7, <3>1, <3>4, DeletesCounted
  <2> QED BY <2>1, <2>2
<1> QED BY <1>1, <1>2, <1>3, <1>4, <1>5, <1>6, <1>7 DEF Changed

LEMMA MovingKept ==
    ASSUME Before, After, Onward, Changed, NEW b \in Compiling, b \in Compiling', Moving(b), ents'[b] = ents[b]
    PROVE  Moving(b)'
<1>1. PICK ids : ids = ents[b]
  OBVIOUS
<1>2. b \in Threads /\ Proceeds(b)
  BY DEF Compiling, After, Advances
<1>3. /\ Version(ids) \in Nat /\ Version(ids)' \in Nat /\ Version(ids) <= Version(ids)'
      /\ Cardinality(ids) \in Nat /\ Version(ids) % 7 = Cardinality(ids) % 7
  BY <1>1, VersionKept DEF Before, After
<1>4. Awaiting = {} => Live(ids) /\ ids = Cached
  BY <1>1 DEF Moving
<1>5. Awaiting' = {} => Live(ids)' /\ ids = Cached'
  BY <1>1, <1>4, LiveKept
<1>6. ASSUME at'[b] = "build"
      PROVE  version'[b] \in Nat /\ version'[b] <= Version(ids)' /\ version'[b] % 7 = Cardinality(ids) % 7
  <2>1. Misses(b) \/ (at[b] = "build" /\ version'[b] = version[b])
    BY <1>2, <1>6 DEF Proceeds, Stays, Begins, Hits, Builds, Uses, Aims, Follows, Turns
  <2>2. CASE Misses(b)
    BY <1>1, <1>3, <2>2 DEF Misses
  <2>3. CASE at[b] = "build" /\ version'[b] = version[b]
    <3>1. version[b] \in Nat /\ version[b] <= Version(ids) /\ version[b] % 7 = Cardinality(ids) % 7
      BY <1>1, <2>3 DEF Moving
    <3> QED BY <1>3, <2>3, <3>1
  <2> QED BY <2>1, <2>2, <2>3
<1>7. ASSUME ~Colliding'
      PROVE  /\ Live(ids) \/ (Cardinality(ids) = Cardinality(DOMAIN entity) + 1 /\ Deleting)
             /\ \A t \in Checking : \/ Fits(t, ids)
                                    \/ ids \subseteq ents[t]
                                    \/ Cardinality(ids) % 7 # Cardinality(ents[t]) % 7
  BY <1>1, <1>7, OnwardIs DEF Moving
<1>8. ASSUME ~Colliding'
      PROVE  Live(ids)' \/ (Cardinality(ids) = Cardinality(DOMAIN entity') + 1 /\ Deleting')
  BY <1>1, <1>4, <1>7, <1>8, LiveKept
<1>9. ASSUME ~Colliding', NEW t \in Checking'
      PROVE  \/ Fits(t, ids)'
             \/ ids \subseteq ents'[t]
             \/ Cardinality(ids) % 7 # Cardinality(ents'[t]) % 7
  <2>1. t \in Threads /\ Proceeds(t) /\ at'[t] \in Scanning
    BY DEF Checking, Scanning, After, Advances
  <2>2. CASE Begins(t)
    <3>1. /\ ents'[t] = Cached' /\ Cardinality(ents'[t]) = Cardinality(DOMAIN entity) /\ entity' = entity
          /\ Cardinality(DOMAIN entity) \in Nat /\ (cached => load' = load)
      BY <2>1, <2>2, BeginsIs DEF Before, Begins
    <3>2. CASE Live(ids)
      <4>1. ids \subseteq DOMAIN heap
        BY <1>1 DEF Before, Vault, Requests
      <4>2. CacheFacts
        BY CacheHas DEF Before, Vault
      <4>3. cached /\ ids \subseteq Cached
        BY <3>2, <4>1, <4>2 DEF Live, CacheFacts
      <4> QED BY <3>1, <4>3 DEF Cached
    <3>3. CASE Cardinality(ids) = Cardinality(DOMAIN entity) + 1
      <4>1. Cardinality(ids) % 7 # Cardinality(DOMAIN entity) % 7
        BY <1>3, <3>1, <3>3, OneApart
      <4> QED BY <3>1, <4>1
    <3> QED BY <1>7, <1>9, <3>2, <3>3
  <2>3. CASE t \in Checking /\ ents'[t] = ents[t]
    <3>1. ids \subseteq Busy
      BY <1>1, EntsKept DEF Before, After
    <3>2. at[t] # "idle"
      BY <2>3 DEF Checking
    <3>3. Fits(t, ids) => Fits(t, ids)'
      BY <2>1, <3>1, <3>2, GoesOn, FitsKept
    <3> QED BY <1>7, <1>9, <2>3, <3>3
  <2> QED BY <2>1, <2>2, <2>3, <1>9, ScanComesFrom
<1>10. ents'[b] = ids
  BY <1>1
<1>11. Version(ents[b])' = Version(ids)'
  BY <1>10 DEF Version, Variants
<1>12. Live(ents[b])' <=> Live(ids)'
  BY <1>10 DEF Live
<1>13. \A t \in Checking' : Fits(t, ents[b])' <=> Fits(t, ids)'
  BY <1>10 DEF Fits
<1> QED BY <1>5, <1>6, <1>8, <1>9, <1>10, <1>11, <1>12, <1>13 DEF Moving

LEMMA ScansKept ==
    ASSUME Before, After
    PROVE  Scans'
<1> SUFFICES ASSUME NEW b \in Compiling', ~crossed'[b]
             PROVE  Moving(b)'
  BY DEF Scans
<1>1. b \in Threads /\ at'[b] \in Scanning /\ Proceeds(b)
  BY DEF Compiling, Scanning, After, Advances
<1>2. Onward /\ Changed
  BY <1>1 DEF After, Advances, Invalidates
<1>3. CASE Begins(b)
  BY <1>1, <1>3, BegunMoves
<1>4. CASE b \in Compiling /\ ents'[b] = ents[b] /\ (crossed[b] => crossed'[b])
  <2>1. Moving(b)
    BY <1>4 DEF Before, Scans
  <2> QED BY <1>2, <1>4, <2>1, MovingKept
<1> QED BY <1>1, <1>3, <1>4, ScanComesFrom

LEMMA StoresKept ==
    ASSUME Before, After
    PROVE  Stores'
<1> SUFFICES ASSUME NEW b \in Threads, at'[b] = "store", ~crossed'[b]
             PROVE  Fixed(version[b], got[b])'
  BY DEF Stores
<1>1. at'[b] \in Scanning /\ Proceeds(b)
  BY DEF Scanning, After, Advances
<1>2. Onward /\ Changed
  BY <1>1 DEF After, Advances, Invalidates
<1>3. PICK v : v = version'[b]
  OBVIOUS
<1>4. PICK S : S = got'[b]
  OBVIOUS
<1>5. Stays(b) \/ Builds(b)
  BY <1>1 DEF Proceeds, Begins, Misses, Hits, Uses, Aims, Follows, Turns
<1>6. CASE Stays(b)
  <2>1. Fixed(v, S)
    BY <1>3, <1>4, <1>6 DEF Stays, Before, Stores
  <2> QED BY <1>2, <1>3, <1>4, <2>1, FixedKept
<1>7. CASE Builds(b)
  <2>1. Fixed(v, S)
    BY <1>3, <1>4, <1>7, BuiltIsFixed DEF Builds
  <2> QED BY <1>2, <1>3, <1>4, <2>1, FixedKept
<1> QED BY <1>5, <1>6, <1>7

LEMMA KeptKept ==
    ASSUME Before, After
    PROVE  Kept'
<1> SUFFICES ASSUME dict' # None, ~dict'.crossed
             PROVE  Fixed(dict.version, dict.surfaces)'
  BY DEF Kept
<1>1. Onward /\ Changed /\ (dict' = dict \/ Stored)
  BY DEF After, Advances, Invalidates
<1>2. PICK v : v = dict'.version
  OBVIOUS
<1>3. PICK S : S = dict'.surfaces
  OBVIOUS
<1>4. Fixed(v, S)
  <2>1. CASE dict' = dict
    BY <1>2, <1>3, <2>1 DEF Before, Kept
  <2>2. CASE Stored
    <3>1. PICK b \in Threads : at[b] = "store"
            /\ dict' = [version |-> version[b], surfaces |-> got[b], crossed |-> crossed[b]]
      BY <2>2 DEF Stored
    <3>2. v = version[b] /\ S = got[b] /\ ~crossed[b]
      BY <1>2, <1>3, <3>1
    <3> QED BY <3>1, <3>2 DEF Before, Stores
  <2> QED BY <1>1, <2>1, <2>2
<1> QED BY <1>1, <1>2, <1>3, <1>4, FixedKept

-----------------------------------------------------------------------------
(* The theorem *)

LEMMA DictInitInv == DictInit => DictInv
<1> SUFFICES ASSUME DictInit PROVE DictInv
  OBVIOUS
<1>1. Shape /\ \A t \in Threads : at[t] = "idle" /\ ents[t] = {}
  BY DEF DictInit, Shape
<1>2. DOMAIN entity = {} /\ DOMAIN variant = {} /\ DOMAIN heap = {} /\ load = 0 /\ cached = FALSE /\ dict = None
  BY DEF DictInit
<1>3. Tables
  <2>1. DOMAIN entity \subseteq 0 .. 0 /\ IsFiniteSet(DOMAIN variant)
    BY <1>2, FS_EmptySet
  <2> QED BY <1>2, <2>1 DEF Tables
<1>4. Cache
  BY <1>2 DEF Cache, InStep
<1>5. Requests /\ Watching
  BY <1>1 DEF Requests, Watching, Compiling, Scanning
<1>6. Own /\ Scans /\ Stores /\ Kept
  BY <1>1, <1>2 DEF Own, Scans, Stores, Kept, Compiling
<1> QED BY <1>1, <1>3, <1>4, <1>5, <1>6 DEF DictInv

LEMMA DictStepInv == DictInv /\ [DictNext]_dictVars => DictInv'
<1>1. ASSUME DictInv, DictNext, ~apart'
      PROVE  DictInv'
  <2>1. Observe /\ ~apart
    BY <1>1 DEF DictNext, Observe
  <2>2. Before
    BY <1>1, <2>1 DEF DictInv, Before, Vault
  <2>3. Advances /\ InStep'
    BY <1>1, <2>2, StepAdvances DEF Before
  <2>4. VaultKept
    BY <2>2, <2>3, AdvancesKeep DEF Before
  <2>5. Cache' /\ Tables'
    BY <2>3, <2>4, CacheKept
  <2>6. Watching'
    BY <2>1, <2>5, WatchingKept
  <2>7. After
    BY <2>1, <2>3, <2>4, <2>5, <2>6 DEF After
  <2>8. Shape' /\ Requests'
    BY <2>2, <2>3, <2>4, RequestsKept DEF Before, Advances
  <2>9. Own' /\ Scans' /\ Stores' /\ Kept'
    BY <2>2, <2>7, OwnKept, ScansKept, StoresKept, KeptKept
  <2> QED BY <2>5, <2>6, <2>8, <2>9 DEF DictInv
<1>2. ASSUME apart'
      PROVE  DictInv'
  BY <1>2 DEF DictInv
<1>3. ASSUME DictInv, UNCHANGED dictVars
      PROVE  DictInv'
  <2> USE DEF dictVars
  <2>1. Shape' = Shape /\ Tables' = Tables /\ apart' = apart
    BY <1>3 DEF Shape, Tables
  <2>2. FromRows(load)' = FromRows(load) /\ Memory' = Memory
    BY <1>3 DEF Memory, FromRows
  <2>3. InStep' = InStep
    BY <1>3, <2>2 DEF InStep, Objects, Only
  <2>4. Cache' = Cache
    BY <1>3, <2>3 DEF Cache
  <2>5. Compiling' = Compiling /\ Checking' = Checking /\ Awaiting' = Awaiting
    BY <1>3 DEF Compiling, Checking, Awaiting
  <2>6. Requests' = Requests
    BY <1>3, <2>5 DEF Requests
  <2>7. (\A f, s : Stocks(f, s)' = Stocks(f, s)) /\ (\A s : Stocked(s)' = Stocked(s))
    BY <1>3 DEF Stocks, Stocked, RowSpellings
  <2>8. Watching' = Watching
    BY <1>3, <2>7 DEF Watching
  <2>9. \A t, ids : Fits(t, ids)' = Fits(t, ids)
    BY <1>3 DEF Fits, Spellings
  <2>10. \A t, S : Suits(t, S)' = Suits(t, S)
    BY <1>3 DEF Suits, Second
  <2>11. Own' = Own
    BY <1>3, <2>5, <2>9, <2>10 DEF Own
  <2>12. \A ids : Version(ids)' = Version(ids) /\ Live(ids)' = Live(ids)
    BY <1>3 DEF Version, Variants, Live
  <2>13. Cached' = Cached /\ Weight' = Weight /\ Deleting' = Deleting /\ Colliding' = Colliding
    BY <1>3, <2>5 DEF Cached, Weight, Deleting, Colliding
  <2>14. Args' = Args /\ Withdrawn' = Withdrawn
    BY <1>3, <2>5 DEF Args, Withdrawn
  <2>15. \A b : Moving(b)' = Moving(b)
    BY <1>3, <2>5, <2>9, <2>12, <2>13 DEF Moving
  <2>16. \A v, S : Recent(v, S)' = Recent(v, S)
    BY <1>3, <2>5, <2>7, <2>13, <2>14 DEF Recent
  <2>17. \A v, S : Usable(v, S)' = Usable(v, S)
    BY <1>3, <2>5, <2>10, <2>12 DEF Usable
  <2>18. \A v, S : Fixed(v, S)' = Fixed(v, S)
    BY <1>3, <2>13, <2>16, <2>17 DEF Fixed
  <2>19. Scans' = Scans /\ Stores' = Stores /\ Kept' = Kept
    BY <1>3, <2>5, <2>15, <2>18 DEF Scans, Stores, Kept
  <2> QED BY <1>3, <2>1, <2>4, <2>6, <2>8, <2>11, <2>19 DEF DictInv
<1> QED BY <1>1, <1>2, <1>3

\* DictionaryIsCurrent, for any number of threads, spellings and changes.
THEOREM DictionaryCurrent == DictSpec => []DictionaryIsCurrent
<1>1. DictInv => DictionaryIsCurrent
  BY DEF DictInv, Own, Suits, DictionaryIsCurrent
<1> QED BY <1>1, DictInitInv, DictStepInv, PTL DEF DictSpec
===============================================================================
