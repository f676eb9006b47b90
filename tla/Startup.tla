------------------------------- MODULE Startup -------------------------------
(***************************************************************************)
(* Start-up of the gateway's workers: lifespan of main.py, the migration    *)
(* runner migrate.py, the default API key of auth.py, packs_loader.py.      *)
(*                                                                          *)
(* Every gunicorn worker runs all of it, each time it boots, beside workers *)
(* that boot too and beside requests that other workers already serve.      *)
(* The lifespan catches every failure: the worker then serves with what     *)
(* there is.                                                                *)
(*                                                                          *)
(* External, by Postgres' documented behaviour: a script sent as one simple *)
(* query is one transaction; the locks a transaction takes are held to its  *)
(* end; a lock waits for the holders it clashes with and does not overtake  *)
(* a waiter it clashes with; a cycle of waits is broken by failing one of   *)
(* its members; a session that ends gives up its advisory locks.            *)
(***************************************************************************)
EXTENDS Naturals, Sequences

CONSTANTS
    Workers,   \* worker processes, under the names gunicorn restarts them
    Requests,  \* request transactions that may be open at once, all of one team
    Plain,     \* those with nothing to redact
    Packs,     \* number of jurisdiction packs shipped
    None       \* nobody

ASSUME StartupAssumption ==
    Packs \in Nat /\ Plain \subseteq Requests /\ Workers \cap Requests = {} /\ None \notin Workers

VARIABLES
    pc,        \* pc[p]: what a worker does next, or whether a request is open
    file,      \* file[w]: the migration file it runs
    fresh,     \* fresh[w]: it runs that file on a database that did not have it
    at,        \* at[p]: how many locks of its script p holds
    by,        \* by[r]: the worker that serves the request
    failed,    \* failed[w]: apply_migrations is raising
    holder,    \* who has the migration advisory lock
    schema,    \* the migration files that are committed
    keys,      \* keys[w]: default API keys made by w and committed
    synced,    \* the packs are in the database
    hit        \* hit[w]: observed: a fault or a broken deadlock met this start-up

vars == <<pc, file, fresh, at, by, failed, holder, schema, keys, synced, hit>>

-----------------------------------------------------------------------------
(* Transactions and the locks they take, in order *)

Lock(of, mode) == [of |-> of, mode |-> mode]

\* 001: CREATE INDEX IF NOT EXISTS on two tables, then DROP TRIGGER.  002: only inserts.
\* 003: DROP TRIGGER.
Migration == << <<Lock(<<"token_map", 0>>, "share"), Lock(<<"audit_event", 0>>, "share"),
                  Lock(<<"audit_event", 0>>, "alone")>>,
                << >>,
                <<Lock(<<"audit_event", 0>>, "alone")>> >>
Files == 1..3

\* A request: its placeholders, then record_event: the team's lock, the last hash, the row.
RequestScript(r) ==
    (IF r \in Plain THEN << >> ELSE <<Lock(<<"token_map", 0>>, "write")>>)
      \o <<Lock(<<"team", 0>>, "alone"), Lock(<<"audit_event", 0>>, "read"), Lock(<<"audit_event", 0>>, "write")>>

\* sync_packs_to_db upserts the rows in the order of their codes.
PackScript(w) == [i \in 1..Packs |-> Lock(<<"pack", i>>, "alone")]

Script(p) ==
    CASE p \in Requests -> IF pc[p] = "open" THEN RequestScript(p) ELSE << >>
      [] p \in Workers /\ pc[p] = "file"  -> Migration[file[p]]
      [] p \in Workers /\ pc[p] = "packs" -> PackScript(p)
      [] OTHER -> << >>

Processes   == Workers \cup Requests
Held(p)     == {Script(p)[i] : i \in 1..at[p]}
Wants(p)    == at[p] < Len(Script(p))
Wanted(p)   == Script(p)[at[p] + 1]
Clash(a, b) == a.of = b.of /\ (a.mode = "alone" \/ b.mode = "alone" \/ {a.mode, b.mode} = {"share", "write"})

WaitsFor(p, q) == p # q /\ Wants(p) /\ \E h \in Held(q) : Clash(h, Wanted(p))
Blocked(p)     == \E q \in Processes : WaitsFor(p, q)

\* A lock does not overtake a clashing waiter, but for one whose object it already has a lock on.
Queued(p) ==
    \E q \in Processes \ {p} :
        /\ Blocked(q) /\ Clash(Wanted(q), Wanted(p))
        /\ \A h \in Held(p) : h.of # Wanted(p).of

\* p is on a cycle of waits, and on no larger set that merely waits for one.
Cycle(D)      == D # {} /\ \A p \in D : \E q \in D : WaitsFor(p, q)
Deadlocked(p) ==
    /\ Blocked(p)
    /\ \E D \in SUBSET {q \in Processes : Blocked(q)} :
        p \in D /\ Cycle(D) /\ \A E \in SUBSET D : Cycle(E) => E = D

-----------------------------------------------------------------------------
Init ==
    /\ pc = [p \in Processes |-> IF p \in Workers THEN "down" ELSE "idle"]
    /\ file = [w \in Workers |-> 1] /\ fresh = [w \in Workers |-> FALSE]
    /\ at = [p \in Processes |-> 0]
    /\ by = [r \in Requests |-> None]
    /\ failed = [w \in Workers |-> FALSE] /\ hit = [w \in Workers |-> FALSE]
    /\ holder = None
    /\ schema = {}
    /\ keys = [w \in Workers |-> 0]
    /\ synced = FALSE

Goto(p, l) == pc' = [pc EXCEPT ![p] = l]
Hit(w)     == hit' = [hit EXCEPT ![w] = TRUE]
Release(p) == at' = [at EXCEPT ![p] = 0]

\* The next statement of p gets its lock.
Acquire(p) ==
    /\ Wants(p) /\ ~Blocked(p) /\ ~Queued(p)
    /\ at' = [at EXCEPT ![p] = @ + 1]
    /\ UNCHANGED <<pc, file, fresh, by, failed, holder, schema, keys, synced, hit>>

Boot(w) ==
    /\ pc[w] = "down"
    /\ Goto(w, "lock")
    /\ UNCHANGED <<file, fresh, at, by, failed, holder, schema, keys, synced, hit>>

-----------------------------------------------------------------------------
(* apply_migrations *)

StartFile(w, f) ==
    /\ Goto(w, "file")
    /\ file' = [file EXCEPT ![w] = f]
    /\ fresh' = [fresh EXCEPT ![w] = f \notin schema']

EndFiles(w) ==
    /\ Goto(w, "unlock")
    /\ file' = [file EXCEPT ![w] = 1]
    /\ fresh' = [fresh EXCEPT ![w] = FALSE]

\* Mutant: the advisory lock is not waited for.
LockNotAwaited(w) ==
    /\ pc[w] = "lock"
    /\ UNCHANGED <<at, by, failed, holder, schema, keys, synced, hit>>
    /\ StartFile(w, 1)

TakeLock(w) ==
    /\ pc[w] = "lock" /\ holder = None
    /\ holder' = w
    /\ UNCHANGED <<at, by, failed, schema, keys, synced, hit>>
    /\ StartFile(w, 1)

\* No connection: the outer except, and the worker serves.
LockFails(w) ==
    /\ pc[w] = "lock"
    /\ Goto(w, "serve")
    /\ failed' = [failed EXCEPT ![w] = TRUE]
    /\ Hit(w)
    /\ UNCHANGED <<file, fresh, at, by, holder, schema, keys, synced>>

\* The script ends.  What it was to create and another has created since makes it fail.
FileEnds(w) ==
    LET f     == file[w]
        fails == fresh[w] /\ f \in schema
    IN  /\ pc[w] = "file" /\ ~Wants(w)
        /\ Release(w)
        /\ schema' = schema \cup {f}
        /\ failed' = [failed EXCEPT ![w] = fails]
        /\ IF ~fails /\ f + 1 \in Files THEN StartFile(w, f + 1)
           ELSE EndFiles(w)
        /\ UNCHANGED <<by, holder, keys, synced, hit>>

\* An error or a lost connection; the answer to the commit may be what is lost.
FileFails(w) ==
    /\ pc[w] = "file"
    /\ schema' \in {schema} \cup (IF Wants(w) THEN {} ELSE {schema \cup {file[w]}})
    /\ holder' \in {holder, None}
    /\ Release(w)
    /\ EndFiles(w)
    /\ failed' = [failed EXCEPT ![w] = TRUE]
    /\ Hit(w)
    /\ UNCHANGED <<by, keys, synced>>

\* Mutant: the lock is given back only after success (no finally).
UnlockOnSuccess(w) ==
    /\ pc[w] = "unlock"
    /\ holder' = IF holder = w /\ ~failed[w] THEN None ELSE holder
    /\ Goto(w, IF failed[w] THEN "serve" ELSE "check")
    /\ UNCHANGED <<file, fresh, at, by, failed, schema, keys, synced, hit>>

\* The finally clause, then the rest of the lifespan or its outer except.
Unlock(w) ==
    /\ pc[w] = "unlock"
    /\ holder' = IF holder = w THEN None ELSE holder
    /\ Goto(w, IF failed[w] THEN "serve" ELSE "check")
    /\ UNCHANGED <<file, fresh, at, by, failed, schema, keys, synced, hit>>

UnlockFails(w) ==
    /\ pc[w] = "unlock"
    /\ holder' = IF holder = w THEN None ELSE holder
    /\ Goto(w, "serve")
    /\ failed' = [failed EXCEPT ![w] = TRUE]
    /\ Hit(w)
    /\ UNCHANGED <<file, fresh, at, by, schema, keys, synced>>

-----------------------------------------------------------------------------
(* ensure_default_api_key and sync_packs_to_db, each with an except of its own *)

\* Mutant: an existing key does not stop the worker from making one.
CheckNothing(w) ==
    /\ pc[w] = "check"
    /\ Goto(w, "insert")
    /\ UNCHANGED <<file, fresh, at, by, failed, holder, schema, keys, synced, hit>>

CheckKey(w) ==
    /\ pc[w] = "check"
    /\ Goto(w, IF \E v \in Workers : keys[v] > 0 THEN "packs" ELSE "insert")
    /\ UNCHANGED <<file, fresh, at, by, failed, holder, schema, keys, synced, hit>>

InsertKey(w) ==
    /\ pc[w] = "insert"
    /\ keys' = [keys EXCEPT ![w] = @ + 1]
    /\ Goto(w, "packs")
    /\ UNCHANGED <<file, fresh, at, by, failed, holder, schema, synced, hit>>

\* The key is skipped, or it is stored and the answer lost.
KeyFails(w) ==
    /\ \/ pc[w] \in {"check", "insert"} /\ UNCHANGED keys
       \/ pc[w] = "insert" /\ keys' = [keys EXCEPT ![w] = @ + 1]
    /\ Goto(w, "packs")
    /\ Hit(w)
    /\ UNCHANGED <<file, fresh, at, by, failed, holder, schema, synced>>

PacksEnd(w) ==
    /\ pc[w] = "packs" /\ ~Wants(w)
    /\ Release(w)
    /\ synced' = TRUE
    /\ Goto(w, "serve")
    /\ UNCHANGED <<file, fresh, by, failed, holder, schema, keys, hit>>

PacksFail(w) ==
    /\ pc[w] = "packs"
    /\ Release(w)
    /\ Goto(w, "serve")
    /\ Hit(w)
    /\ UNCHANGED <<file, fresh, by, failed, holder, schema, keys, synced>>

-----------------------------------------------------------------------------
(* Requests, deadlocks, crashes *)

\* Without the tables and the seeded team a request fails at once.
RequestBegins(r, w) ==
    /\ pc[r] = "idle" /\ pc[w] = "serve" /\ {1, 2} \subseteq schema
    /\ Goto(r, "open")
    /\ by' = [by EXCEPT ![r] = w]
    /\ UNCHANGED <<file, fresh, at, failed, holder, schema, keys, synced, hit>>

\* It commits; or it fails and is rolled back, at any point.
RequestEnds(r) ==
    /\ pc[r] = "open" /\ ~Wants(r)
    /\ Goto(r, "idle") /\ Release(r)
    /\ by' = [by EXCEPT ![r] = None]
    /\ UNCHANGED <<file, fresh, failed, holder, schema, keys, synced, hit>>

RequestFails(r) ==
    /\ pc[r] = "open" /\ Wants(r)
    /\ Goto(r, "idle") /\ Release(r)
    /\ by' = [by EXCEPT ![r] = None]
    /\ UNCHANGED <<file, fresh, failed, holder, schema, keys, synced, hit>>

\* One member of a cycle of waits is failed.  No pack row is ever in one: all take
\* them in one order.
BreakDeadlock(p) ==
    /\ Deadlocked(p)
    /\ Release(p)
    /\ \/ /\ p \in Requests /\ Goto(p, "idle")
          /\ by' = [by EXCEPT ![p] = None]
          /\ UNCHANGED <<file, fresh, failed, hit>>
       \/ /\ p \in Workers /\ pc[p] = "file" /\ EndFiles(p)
          /\ failed' = [failed EXCEPT ![p] = TRUE] /\ Hit(p)
          /\ UNCHANGED by
    /\ UNCHANGED <<holder, schema, keys, synced>>

\* The process dies, or is stopped, with its connections and its requests.
Crash(w) ==
    LET gone == {w} \cup {r \in Requests : by[r] = w}
    IN  /\ pc[w] # "down"
        /\ pc' = [p \in Processes |-> IF p \notin gone THEN pc[p] ELSE IF p = w THEN "down" ELSE "idle"]
        /\ at' = [p \in Processes |-> IF p \in gone THEN 0 ELSE at[p]]
        /\ by' = [r \in Requests |-> IF r \in gone THEN None ELSE by[r]]
        /\ holder' = IF holder = w THEN None ELSE holder
        /\ file' = [file EXCEPT ![w] = 1] /\ fresh' = [fresh EXCEPT ![w] = FALSE]
        /\ failed' = [failed EXCEPT ![w] = FALSE] /\ hit' = [hit EXCEPT ![w] = FALSE]
        /\ UNCHANGED <<schema, keys, synced>>

Step(w)  == TakeLock(w) \/ FileEnds(w) \/ Unlock(w) \/ CheckKey(w) \/ InsertKey(w) \/ PacksEnd(w)
Fault(w) == LockFails(w) \/ FileFails(w) \/ UnlockFails(w) \/ KeyFails(w) \/ PacksFail(w) \/ Crash(w)

Next ==
    \/ \E w \in Workers : Boot(w) \/ Step(w) \/ Fault(w)
    \/ \E r \in Requests : RequestEnds(r) \/ RequestFails(r) \/ \E w \in Workers : RequestBegins(r, w)
    \/ \E p \in Processes : Acquire(p) \/ BreakDeadlock(p)

\* The server goes on with what it can do; its lock queues keep their order, so that
\* a waiter whose lock is free again and again gets it; the deadlock check runs.
Fairness ==
    /\ \A w \in Workers : SF_vars(TakeLock(w)) /\ WF_vars(Step(w))
    /\ \A r \in Requests : WF_vars(RequestEnds(r))
    /\ \A p \in Processes : SF_vars(Acquire(p)) /\ WF_vars(BreakDeadlock(p))

Spec     == Init /\ [][Next]_vars
FairSpec == Spec /\ Fairness

-----------------------------------------------------------------------------
\* Concurrency alone never degrades a start-up: a worker that serves and that no
\* fault and no broken deadlock has met has applied every migration, and leaves a
\* default key and the packs in the database (migrate.py:32, main.py:32).
CleanStartUp ==
    \A w \in Workers : pc[w] = "serve" /\ ~hit[w] =>
        ~failed[w] /\ schema = Files /\ synced /\ \E v \in Workers : keys[v] > 0

\* Check and insert of the default key are not one step, and a lost answer hides a
\* stored key.  Still no worker ever makes a second one, over all its restarts
\* (auth.py:103).
OneKeyPerWorker == \A w \in Workers : keys[w] <= 1

\* Every start-up comes to serving, whatever fails around it, and every request's
\* transaction ends: nobody waits for ever for the migration lock, a table or a row
\* (migrate.py:46, packs_loader.py:31).
EveryoneProceeds ==
    /\ \A w \in Workers : pc[w] = "lock" ~> pc[w] \in {"serve", "down"}
    /\ \A r \in Requests : pc[r] = "open" ~> pc[r] = "idle"
===============================================================================
