------------------------------ MODULE AuditChain ------------------------------
(***************************************************************************)
(* The hash-chained audit log of app/audit.py on PostgreSQL.                *)
(*                                                                          *)
(* A writer is one database transaction that calls record_event: it takes   *)
(* the advisory lock of its team, reads the hash of the newest event of the *)
(* team, inserts an event linked to it, and commits or rolls back.  Row ids *)
(* come from a BIGSERIAL sequence: they are drawn when the row is inserted, *)
(* not when it is committed, and a rolled-back id is never used again.      *)
(* Under READ COMMITTED a statement sees exactly the rows that were         *)
(* committed when it started.                                               *)
(*                                                                          *)
(* HMAC-SHA256 is modelled symbolically: the hash of (prev, payload) is the *)
(* sequence prev extended by the payload, so that two hashes are equal only *)
(* when both arguments are.  The genesis hash is the empty sequence.        *)
(***************************************************************************)
EXTENDS Naturals, Sequences

CONSTANTS
    Writers,     \* transactions that record an event
    Teams,       \* values of audit_event.team_id
    Bodies,      \* the other business fields of an event, as opaque values
    LockKeys,    \* 32-bit values of hashtext()
    hashtext,    \* [Teams -> LockKeys]; need not be injective
    NoWriter,    \* owner of a free lock
    MaxId        \* bound on the ids drawn from the sequence

ASSUME ConstantsAssumption ==
    /\ hashtext \in [Teams -> LockKeys]
    /\ NoWriter \notin Writers
    /\ MaxId \in Nat

VARIABLES
    pc,           \* pc[w]: where transaction w is inside record_event
    call,         \* call[w]: the team and body it is recording, NoCall when idle
    prev,         \* prev[w]: result of its last_hash query
    event,        \* event[w]: id of its uncommitted row, 0 when there is none
    lock,         \* lock[k]: the transaction that holds advisory lock k
    audit_event,  \* committed rows, a function from ids to rows
    pending,      \* inserted but uncommitted rows, a function from ids to rows
    nextId        \* next value of the id sequence

vars == <<pc, call, prev, event, lock, audit_event, pending, nextId>>

-----------------------------------------------------------------------------
(* Hashing *)

\* The payload of an event includes its team (_event_payload in the code).
Payloads == Teams \X Bodies

event_payload(team, body) == <<team, body>>

NoCall == << >>

GENESIS_HASH == << >>

\* Mutant: the previous hash is not folded into the HMAC.
HashWithoutPrev(prevHash, payload) == << payload >>

compute_event_hash(prevHash, payload) == Append(prevHash, payload)

Hashes == Seq(Payloads)

Row(team, body, prevHash) ==
    [team |-> team, body |-> body, prev_hash |-> prevHash,
     event_hash |-> compute_event_hash(prevHash, event_payload(team, body))]

Rows == [team : Teams, body : Bodies, prev_hash : Hashes, event_hash : Hashes]

-----------------------------------------------------------------------------
(* Queries.  rows is a function from ids to rows. *)

IdsOf(rows, t) == {i \in DOMAIN rows : rows[i].team = t}

\* The newest id of team t: ORDER BY id DESC LIMIT 1.
IsLast(rows, t, i) == i \in IdsOf(rows, t) /\ \A j \in IdsOf(rows, t) : j <= i

\* The ids of one team in the order of verify_chain's loop.
IsFirst(rows, t, i) == i \in IdsOf(rows, t) /\ \A j \in IdsOf(rows, t) : i <= j

Adjacent(rows, t, i, j) ==
    /\ i \in IdsOf(rows, t) /\ j \in IdsOf(rows, t) /\ i < j
    /\ \A k \in IdsOf(rows, t) : k <= i \/ j <= k

last_hash(rows, t) ==
    IF IdsOf(rows, t) = {} THEN GENESIS_HASH
    ELSE rows[CHOOSE i \in IdsOf(rows, t) : IsLast(rows, t, i)].event_hash

\* One pass over the team's events in id order: every event links to its
\* predecessor (the first to the genesis hash) and carries the hash of its
\* own fields.
verify_chain(rows, t) ==
    /\ \A i \in IdsOf(rows, t) :
           /\ IsFirst(rows, t, i) => rows[i].prev_hash = GENESIS_HASH
           /\ rows[i].event_hash =
                 compute_event_hash(rows[i].prev_hash,
                                    event_payload(rows[i].team, rows[i].body))
    /\ \A i, j \in IdsOf(rows, t) :
           Adjacent(rows, t, i, j) => rows[j].prev_hash = rows[i].event_hash

-----------------------------------------------------------------------------
(* A table is a function from the ids it holds to rows. *)

NoRows          == << >>
Insert(f, i, x) == [j \in DOMAIN f \cup {i} |-> IF j = i THEN x ELSE f[j]]
Removed(f, i)   == [j \in DOMAIN f \ {i} |-> f[j]]

-----------------------------------------------------------------------------
Init ==
    /\ pc = [w \in Writers |-> "idle"]
    /\ call = [w \in Writers |-> NoCall]
    /\ prev = [w \in Writers |-> GENESIS_HASH]
    /\ event = [w \in Writers |-> 0]
    /\ lock = [k \in LockKeys |-> NoWriter]
    /\ audit_event = NoRows
    /\ pending = NoRows
    /\ nextId = 1

Team(w) == call[w][1]
Body(w) == call[w][2]
Key(w)  == hashtext[Team(w)]

\* record_event is called in a transaction that has no event yet.
Begin(w, payload) ==
    /\ pc[w] = "idle"
    /\ pc' = [pc EXCEPT ![w] = "locking"]
    /\ call' = [call EXCEPT ![w] = payload]
    /\ UNCHANGED <<prev, event, lock, audit_event, pending, nextId>>

\* Mutant: the lock does not exclude anybody.
LockWithoutWaiting(w) ==
    /\ pc[w] = "locking"
    /\ pc' = [pc EXCEPT ![w] = "locked"]
    /\ UNCHANGED <<call, prev, event, lock, audit_event, pending, nextId>>

\* pg_advisory_xact_lock returns: nobody else holds the key.
Lock(w) ==
    /\ pc[w] = "locking"
    /\ lock[Key(w)] = NoWriter
    /\ lock' = [lock EXCEPT ![Key(w)] = w]
    /\ pc' = [pc EXCEPT ![w] = "locked"]
    /\ UNCHANGED <<call, prev, event, audit_event, pending, nextId>>

\* Mutant: a failed lock statement leaves the transaction usable, and
\* record_event goes on without the lock.
LockFailsSilently(w) ==
    /\ pc[w] = "locking"
    /\ pc' = [pc EXCEPT ![w] = "locked"]
    /\ UNCHANGED <<call, prev, event, lock, audit_event, pending, nextId>>

\* The lock statement fails (timeout, deadlock detection, lost connection).
\* record_event swallows the exception, but PostgreSQL refuses every further
\* statement of the transaction until it is rolled back.
LockFails(w) ==
    /\ pc[w] = "locking"
    /\ pc' = [pc EXCEPT ![w] = "aborted"]
    /\ UNCHANGED <<call, prev, event, lock, audit_event, pending, nextId>>

\* last_hash and compute_event_hash.
ReadLast(w) ==
    /\ pc[w] = "locked"
    /\ prev' = [prev EXCEPT ![w] = last_hash(audit_event, Team(w))]
    /\ pc' = [pc EXCEPT ![w] = "linked"]
    /\ UNCHANGED <<call, event, lock, audit_event, pending, nextId>>

\* Mutant: the id is not drawn from the sequence.
FlushKeepsId(w) ==
    /\ pc[w] = "linked"
    /\ nextId <= MaxId
    /\ pending' = Insert(pending, nextId, Row(Team(w), Body(w), prev[w]))
    /\ event' = [event EXCEPT ![w] = nextId]
    /\ pc' = [pc EXCEPT ![w] = "flushed"]
    /\ UNCHANGED <<call, prev, lock, audit_event, nextId>>

\* session.add and flush: the row gets its id and is written, uncommitted.
Flush(w) ==
    /\ pc[w] = "linked"
    /\ nextId <= MaxId
    /\ pending' = Insert(pending, nextId, Row(Team(w), Body(w), prev[w]))
    /\ event' = [event EXCEPT ![w] = nextId]
    /\ nextId' = nextId + 1
    /\ pc' = [pc EXCEPT ![w] = "flushed"]
    /\ UNCHANGED <<call, prev, lock, audit_event>>

\* The SELECT or the INSERT raises.  A failed INSERT may have drawn its id from
\* the sequence all the same; an exhausted sequence always fails it.
StatementFails(w) ==
    /\ pc[w] \in {"locked", "linked"}
    /\ pc' = [pc EXCEPT ![w] = "aborted"]
    /\ \/ nextId' = nextId
       \/ pc[w] = "linked" /\ nextId <= MaxId /\ nextId' = nextId + 1
    /\ UNCHANGED <<call, prev, event, lock, audit_event, pending>>

\* Transaction-scoped advisory locks go with the transaction.
Release(w) ==
    lock' = [k \in LockKeys |-> IF lock[k] = w THEN NoWriter ELSE lock[k]]

\* Mutant: the lock outlives the transaction, as a session-level one would.
EndKeepsLock(w) ==
    /\ pc' = [pc EXCEPT ![w] = "idle"]
    /\ call' = [call EXCEPT ![w] = NoCall]
    /\ prev' = [prev EXCEPT ![w] = GENESIS_HASH]
    /\ event' = [event EXCEPT ![w] = 0]
    /\ pending' = Removed(pending, event[w])
    /\ UNCHANGED <<lock, nextId>>

\* The transaction is over: nothing of it is left in the writer.
End(w) ==
    /\ pc' = [pc EXCEPT ![w] = "idle"]
    /\ call' = [call EXCEPT ![w] = NoCall]
    /\ prev' = [prev EXCEPT ![w] = GENESIS_HASH]
    /\ event' = [event EXCEPT ![w] = 0]
    /\ pending' = Removed(pending, event[w])
    /\ Release(w)
    /\ UNCHANGED nextId

\* COMMIT: the row becomes visible and the lock is released.
Commit(w) ==
    /\ pc[w] = "flushed"
    /\ audit_event' = Insert(audit_event, event[w], pending[event[w]])
    /\ End(w)

\* ROLLBACK, by the code or by the server when the connection dies.
Rollback(w) ==
    /\ pc[w] # "idle"
    /\ UNCHANGED audit_event
    /\ End(w)

\* The statements a writer that is not waiting for the lock goes on with.
Proceed(w) ==
    \/ ReadLast(w)
    \/ Flush(w)
    \/ StatementFails(w)
    \/ Commit(w)
    \/ pc[w] = "aborted" /\ Rollback(w)

Next ==
    \E w \in Writers :
        \/ \E payload \in Payloads : Begin(w, payload)
        \/ Lock(w)
        \/ LockFails(w)
        \/ Proceed(w)
        \/ Rollback(w)

\* PostgreSQL serves the waiters of an advisory lock in the order they came,
\* and a transaction that does not wait is always ended: get_session and
\* session_scope commit or roll back on every exit, and the server rolls back
\* what a dead connection leaves behind.  Nothing obliges a lock request or a
\* statement to fail.
Fairness ==
    \A w \in Writers : SF_vars(Lock(w)) /\ WF_vars(Proceed(w))

Spec == Init /\ [][Next]_vars

FairSpec == Spec /\ Fairness

-----------------------------------------------------------------------------
(* Properties *)

\* Type invariant: tables hold rows under ids already drawn from the sequence.
TypeOK ==
    /\ pc \in [Writers -> {"idle", "locking", "locked", "linked", "flushed", "aborted"}]
    /\ call \in [Writers -> Payloads \cup {NoCall}]
    /\ \A w \in Writers : pc[w] # "idle" => call[w] \in Payloads
    /\ prev \in [Writers -> Hashes]
    /\ event \in [Writers -> 0 .. MaxId]
    /\ lock \in [LockKeys -> Writers \cup {NoWriter}]
    /\ nextId \in 1 .. (MaxId + 1)
    /\ audit_event \in [DOMAIN audit_event -> Rows]
    /\ pending \in [DOMAIN pending -> Rows]
    /\ DOMAIN audit_event \subseteq 1 .. (nextId - 1)
    /\ DOMAIN pending \subseteq 1 .. (nextId - 1)

\* verify_chain accepts what record_event wrote, at every moment and whatever
\* the interleaving of transactions, failures and rollbacks: a mismatch means
\* tampering (verify_chain's docstring), never a race of honest writers.
ChainVerifies == \A t \in Teams : verify_chain(audit_event, t)

\* The ways the docstrings name of touching the log behind the gateway's back,
\* without the HMAC key: rows are edited, removed, exchanged or replayed with
\* the hashes they have.
Edited(rows, i, team, body) == [rows EXCEPT ![i].team = team, ![i].body = body]
Swapped(rows, i, j) == [rows EXCEPT ![i] = rows[j], ![j] = rows[i]]

\* verify_chain rejects every such log (verify_chain's docstring: "altered,
\* deleted, reordered, or inserted out of band").  The newest event is the
\* exception for deletion: no later link depends on it.
TamperEvident ==
    \A t \in Teams : \A i \in IdsOf(audit_event, t) :
        /\ \A u \in Teams, b \in Bodies :
               <<u, b>> # <<t, audit_event[i].body>>
                   => ~verify_chain(Edited(audit_event, i, u, b), u)
        /\ ~IsLast(audit_event, t, i) => ~verify_chain(Removed(audit_event, i), t)
        /\ \A j \in IdsOf(audit_event, t) \ {i} :
               ~verify_chain(Swapped(audit_event, i, j), t)
        /\ \A k \in (1 .. MaxId + 1) \ DOMAIN audit_event :
               ~verify_chain(Insert(audit_event, k, audit_event[i]), t)

\* The chain implements the abstract log: seen through the newest committed
\* hash of each team, the log only grows, one event at a time, and no event is
\* ever replaced by one that was linked to the same predecessor.
Log == INSTANCE AuditLog WITH
           log <- [t \in Teams |-> last_hash(audit_event, t)]

ImplementsAuditLog == Log!Spec

\* No writer waits for ever: the per-team locks cannot leak or deadlock, so a
\* record_event call ends in a commit or in a rollback.
EveryTransactionEnds == \A w \in Writers : pc[w] # "idle" ~> pc[w] = "idle"
===============================================================================
