---------------------------- MODULE Startup_proofs ----------------------------
(***************************************************************************)
(* CleanStartUp and OneKeyPerWorker, for any set of workers, requests and   *)
(* packs.  The migration lock is what the first rests on: while a worker    *)
(* runs a file no other does, so what the file finds absent is absent when  *)
(* it commits, and the files before it are there.                           *)
(***************************************************************************)
EXTENDS Startup, TLAPS

States == {"down", "lock", "file", "unlock", "check", "insert", "packs", "serve"}

TypeOK ==
    /\ pc \in [Processes -> States \cup {"idle", "open"}]
    /\ \A w \in Workers : pc[w] \in States
    /\ file \in [Workers -> Files] /\ fresh \in [Workers -> BOOLEAN]
    /\ failed \in [Workers -> BOOLEAN] /\ hit \in [Workers -> BOOLEAN]
    /\ schema \subseteq Files
    /\ keys \in [Workers -> {0, 1}]

\* A worker that runs a file has the lock, and finds what the earlier files made.
Exclusive == \A w \in Workers : pc[w] = "file" => holder = w
FreshIsAbsent == \A w \in Workers : pc[w] = "file" /\ fresh[w] => file[w] \notin schema
InOrder == \A w \in Workers : pc[w] = "file" => \A f \in Files : f < file[w] => f \in schema

\* What a worker has behind it.
Migrated ==
    \A w \in Workers :
        /\ pc[w] = "unlock" /\ ~failed[w] => schema = Files
        /\ pc[w] = "unlock" /\ failed[w] => hit[w]
        /\ pc[w] \in {"check", "insert", "packs"} => ~failed[w] /\ schema = Files

KeyExists == \E v \in Workers : keys[v] > 0

HasKey == \A w \in Workers : pc[w] = "packs" /\ ~hit[w] => KeyExists

\* Who is about to make a key has made none.
FirstKey == \A w \in Workers : pc[w] = "insert" => keys[w] = 0

IInv ==
    TypeOK /\ Exclusive /\ FreshIsAbsent /\ InOrder /\ Migrated /\ HasKey /\ FirstKey /\ CleanStartUp

-----------------------------------------------------------------------------
\* Going to a label moves one process only (pc has one entry for each).
LEMMA GotoMoves ==
    ASSUME TypeOK, NEW p \in Processes, NEW l \in States \cup {"idle", "open"}, Goto(p, l),
           p \in Workers => l \in States
    PROVE  /\ pc' \in [Processes -> States \cup {"idle", "open"}]
           /\ \A w \in Workers : pc'[w] \in States
           /\ pc'[p] = l
           /\ \A q \in Processes : q # p => pc'[q] = pc[q]
  BY DEF TypeOK, Goto, Processes, States

\* The initial state: nobody runs, the database is empty.
LEMMA InitHolds == Init => IInv
  BY StartupAssumption DEF Init, IInv, TypeOK, Exclusive, FreshIsAbsent, InOrder, Migrated, HasKey,
        FirstKey, CleanStartUp, KeyExists, Processes, States, Files

\* Steps that only move locks.
LEMMA AcquireKeeps == ASSUME IInv, NEW p \in Processes, Acquire(p) PROVE IInv'
  BY DEF Acquire, IInv, TypeOK, Exclusive, FreshIsAbsent, InOrder, Migrated, HasKey, FirstKey,
         CleanStartUp, KeyExists

\* A boot, and requests that come and go, leave every worker's migrations alone.
LEMMA BootKeeps == ASSUME IInv, NEW w \in Workers, Boot(w) PROVE IInv'
<1>1. /\ pc' \in [Processes -> States \cup {"idle", "open"}]
      /\ \A v \in Workers : pc'[v] \in States
      /\ pc'[w] = "lock"
      /\ \A q \in Processes : q # w => pc'[q] = pc[q]
  BY GotoMoves DEF Boot, IInv, Processes, States
<1>2. QED
  BY <1>1 DEF Boot, IInv, TypeOK, Exclusive, FreshIsAbsent, InOrder, Migrated, HasKey, FirstKey,
         CleanStartUp, KeyExists, Processes

LEMMA RequestKeeps ==
    ASSUME IInv, NEW r \in Requests,
           RequestEnds(r) \/ RequestFails(r) \/ \E w \in Workers : RequestBegins(r, w)
    PROVE  IInv'
<1>1. PICK l \in {"idle", "open"} : Goto(r, l)
  BY DEF RequestEnds, RequestFails, RequestBegins
<1>2. r \notin Workers /\ r \in Processes
  BY StartupAssumption DEF Processes
<1>3. /\ pc' \in [Processes -> States \cup {"idle", "open"}]
      /\ \A w \in Workers : pc'[w] = pc[w]
  BY <1>1, <1>2, GotoMoves DEF IInv, Processes
<1>4. UNCHANGED <<file, fresh, failed, holder, schema, keys, synced, hit>>
  BY DEF RequestEnds, RequestFails, RequestBegins
<1>5. QED
  BY <1>3, <1>4 DEF IInv, TypeOK, Exclusive, FreshIsAbsent, InOrder, Migrated, HasKey, FirstKey,
         CleanStartUp, KeyExists

-----------------------------------------------------------------------------
(* apply_migrations *)

\* With the lock free nobody else is in a file.
LEMMA TakeLockKeeps == ASSUME IInv, NEW w \in Workers, TakeLock(w) PROVE IInv'
<1>1. /\ pc' \in [Processes -> States \cup {"idle", "open"}]
      /\ \A v \in Workers : pc'[v] \in States
      /\ pc'[w] = "file"
      /\ \A q \in Processes : q # w => pc'[q] = pc[q]
  BY GotoMoves DEF TakeLock, StartFile, IInv, Processes, States
<1>2. \A v \in Workers : pc[v] # "file"
  BY StartupAssumption DEF TakeLock, IInv, Exclusive
<1>3. /\ file' \in [Workers -> Files] /\ file'[w] = 1
      /\ fresh' \in [Workers -> BOOLEAN] /\ fresh'[w] = (1 \notin schema)
  BY DEF TakeLock, StartFile, IInv, TypeOK, Files
<1>4. holder' = w /\ UNCHANGED <<failed, schema, keys, synced, hit>>
  BY DEF TakeLock
<1>5. \A v \in Workers : pc'[v] = "file" => v = w
  BY <1>1, <1>2 DEF Processes
<1>6. QED
  BY <1>1, <1>3, <1>4, <1>5 DEF IInv, TypeOK, Exclusive, FreshIsAbsent, InOrder, Migrated, HasKey,
         FirstKey, CleanStartUp, KeyExists, Processes, Files

\* A worker that moves on from its files, or never gets to them.
LEMMA LockFailsKeeps == ASSUME IInv, NEW w \in Workers, LockFails(w) PROVE IInv'
<1>1. /\ pc' \in [Processes -> States \cup {"idle", "open"}]
      /\ \A v \in Workers : pc'[v] \in States
      /\ pc'[w] = "serve"
      /\ \A q \in Processes : q # w => pc'[q] = pc[q]
  BY GotoMoves DEF LockFails, IInv, Processes, States
<1>2. QED
  BY <1>1 DEF LockFails, Hit, IInv, TypeOK, Exclusive, FreshIsAbsent, InOrder, Migrated, HasKey, FirstKey,
         CleanStartUp, KeyExists, Processes

\* The files are left behind: whoever else runs one, nothing of his is touched.
LEMMA EndFilesMoves ==
    ASSUME IInv, NEW w \in Workers, EndFiles(w)
    PROVE  /\ pc' \in [Processes -> States \cup {"idle", "open"}]
           /\ \A v \in Workers : pc'[v] \in States
           /\ pc'[w] = "unlock"
           /\ \A v \in Workers : v # w => pc'[v] = pc[v] /\ file'[v] = file[v] /\ fresh'[v] = fresh[v]
           /\ file' \in [Workers -> Files] /\ fresh' \in [Workers -> BOOLEAN]
<1>1. /\ pc' \in [Processes -> States \cup {"idle", "open"}]
      /\ \A v \in Workers : pc'[v] \in States
      /\ pc'[w] = "unlock"
      /\ \A q \in Processes : q # w => pc'[q] = pc[q]
  BY GotoMoves DEF EndFiles, IInv, Processes, States
<1>2. file' \in [Workers -> Files] /\ \A v \in Workers : v # w => file'[v] = file[v]
  BY DEF EndFiles, IInv, TypeOK, Files
<1>3. fresh' = [fresh EXCEPT ![w] = FALSE] /\ fresh \in [Workers -> BOOLEAN]
  BY DEF EndFiles, IInv, TypeOK
<1>4. fresh' \in [Workers -> BOOLEAN]
  BY <1>3
<1>5. \A v \in Workers : v # w => fresh'[v] = fresh[v]
  BY <1>3
<1>6. \A v \in Workers : v # w => pc'[v] = pc[v]
  BY <1>1 DEF Processes
<1> QED
  BY <1>1, <1>2, <1>4, <1>5, <1>6

\* A file that ends was run alone: it does not fail, and the last one completes the schema.
LEMMA FileEndsKeeps == ASSUME IInv, NEW w \in Workers, FileEnds(w) PROVE IInv'
<1>0. w \in Processes /\ pc[w] = "file" /\ holder = w
  BY DEF FileEnds, IInv, Exclusive, Processes
<1>1. \A v \in Workers : v # w => pc[v] # "file"
  BY <1>0 DEF IInv, Exclusive
<1>2. ~(fresh[w] /\ file[w] \in schema)
  BY <1>0 DEF IInv, FreshIsAbsent
<1>3. /\ schema' = schema \cup {file[w]}
      /\ failed' = [failed EXCEPT ![w] = FALSE]
      /\ UNCHANGED <<holder, keys, synced, hit>>
  BY <1>2 DEF FileEnds
<1>4. failed' \in [Workers -> BOOLEAN] /\ ~failed'[w] /\ \A v \in Workers : v # w => failed'[v] = failed[v]
  <2>1. failed \in [Workers -> BOOLEAN]
    BY DEF IInv, TypeOK
  <2>2. failed' \in [Workers -> BOOLEAN] /\ ~failed'[w]
    BY <1>3, <2>1
  <2>3. \A v \in Workers : v # w => failed'[v] = failed[v]
    BY <1>3, <2>1
  <2> QED BY <2>2, <2>3
<1>5. schema' \subseteq Files /\ (schema = Files => schema' = Files)
      /\ \A f \in Files : f <= file[w] => f \in schema'
  <2>1. file[w] \in Files /\ schema \subseteq Files
    BY DEF IInv, TypeOK
  <2>2. \A f \in Files : f < file[w] => f \in schema
    BY <1>0 DEF IInv, InOrder
  <2>3. \A f \in Files : f <= file[w] => f < file[w] \/ f = file[w]
    BY <2>1 DEF Files
  <2> QED BY <1>3, <2>1, <2>2, <2>3
<1>6. CASE file[w] + 1 \in Files
  <2>1. StartFile(w, file[w] + 1)
    BY <1>2, <1>6 DEF FileEnds
  <2>2. /\ pc' \in [Processes -> States \cup {"idle", "open"}]
        /\ \A v \in Workers : pc'[v] \in States
        /\ pc'[w] = "file"
        /\ \A q \in Processes : q # w => pc'[q] = pc[q]
    BY <2>1, GotoMoves DEF StartFile, IInv, Processes, States
  <2>3. /\ file' \in [Workers -> Files] /\ file'[w] = file[w] + 1
        /\ fresh' \in [Workers -> BOOLEAN] /\ fresh'[w] = (file'[w] \notin schema')
    BY <2>1, <1>6 DEF StartFile, IInv, TypeOK
  <2>4. \A f \in Files : f < file'[w] => f \in schema'
    BY <2>3, <1>5 DEF IInv, TypeOK, Files
  <2>5. \A v \in Workers : pc'[v] = "file" => v = w
    BY <1>1, <2>2 DEF Processes
  <2>6. TypeOK'
    BY <1>3, <1>4, <1>5, <2>2, <2>3 DEF IInv, TypeOK
  <2>7. FreshIsAbsent'
    BY <2>3, <2>5 DEF FreshIsAbsent
  <2>8. Exclusive' /\ InOrder'
    BY <1>0, <1>3, <2>4, <2>5 DEF Exclusive, InOrder
  <2>9. Migrated' /\ HasKey' /\ FirstKey' /\ CleanStartUp'
    BY <1>3, <1>4, <1>5, <2>2 DEF IInv, Migrated, HasKey, FirstKey, CleanStartUp, KeyExists, Processes
  <2> QED BY <2>6, <2>7, <2>8, <2>9 DEF IInv
<1>7. CASE file[w] + 1 \notin Files
  <2>1. EndFiles(w)
    BY <1>2, <1>7 DEF FileEnds
  <2>2. schema' = Files
    <3>1. file[w] \in Files
      BY DEF IInv, TypeOK
    <3>2. \A f \in Files : f <= file[w]
      BY <3>1, <1>7 DEF Files
    <3> QED BY <3>2, <1>5
  <2>3. TypeOK' /\ Exclusive' /\ FreshIsAbsent' /\ InOrder'
    BY <1>1, <1>3, <1>4, <1>5, <2>1, EndFilesMoves DEF IInv, TypeOK, Exclusive, FreshIsAbsent, InOrder
  <2>4. Migrated' /\ HasKey' /\ FirstKey' /\ CleanStartUp'
    BY <1>3, <1>4, <2>1, <2>2, EndFilesMoves DEF IInv, Migrated, HasKey, FirstKey, CleanStartUp, KeyExists
  <2> QED BY <2>3, <2>4 DEF IInv
<1> QED BY <1>6, <1>7
\* A file that fails is left for the finally clause, with what it may have committed.
LEMMA FileFailsKeeps ==
    ASSUME IInv, NEW w \in Workers, pc[w] = "file", EndFiles(w),
           schema' \in {schema, schema \cup {file[w]}},
           holder' \in {holder, None},
           failed' = [failed EXCEPT ![w] = TRUE], Hit(w), UNCHANGED <<keys, synced>>
    PROVE  IInv'
<1>1. \A v \in Workers : v # w => pc[v] # "file"
  BY DEF IInv, Exclusive
<1>2. schema' \subseteq Files /\ schema \subseteq schema'
  BY DEF IInv, TypeOK
<1>3. failed' \in [Workers -> BOOLEAN] /\ hit' \in [Workers -> BOOLEAN]
  BY DEF Hit, IInv, TypeOK
<1>4. failed'[w] /\ hit'[w]
  BY DEF Hit, IInv, TypeOK
<1>5. \A v \in Workers : v # w => failed'[v] = failed[v]
  BY DEF IInv, TypeOK
<1>6. \A v \in Workers : v # w => hit'[v] = hit[v]
  BY DEF Hit, IInv, TypeOK
<1>7. TypeOK' /\ Exclusive' /\ FreshIsAbsent' /\ InOrder'
  BY <1>1, <1>2, <1>3, EndFilesMoves DEF IInv, TypeOK, Exclusive, FreshIsAbsent, InOrder
<1>8. Migrated'
  <2>1. schema = Files => schema' = Files
    BY <1>2
  <2> QED BY <2>1, <1>4, <1>5, <1>6, EndFilesMoves DEF IInv, Migrated
<1>9. HasKey' /\ FirstKey'
  BY <1>6, EndFilesMoves DEF IInv, HasKey, FirstKey, KeyExists
<1>10. CleanStartUp'
  BY <1>2, <1>5, <1>6, EndFilesMoves, ZenonT(40) DEF IInv, CleanStartUp
<1> QED BY <1>7, <1>8, <1>9, <1>10 DEF IInv

\* The finally clause, whether the statement succeeds or not.
LEMMA UnlockKeeps == ASSUME IInv, NEW w \in Workers, Unlock(w) \/ UnlockFails(w) PROVE IInv'
<1>0. pc[w] = "unlock" /\ UNCHANGED <<file, fresh, schema, keys, synced>>
  BY DEF Unlock, UnlockFails
<1>1. failed' \in [Workers -> BOOLEAN] /\ hit' \in [Workers -> BOOLEAN]
  BY DEF Unlock, UnlockFails, Hit, IInv, TypeOK
<1>2. \A v \in Workers : v # w => (failed'[v] <=> failed[v]) /\ (hit'[v] <=> hit[v])
  BY DEF Unlock, UnlockFails, Hit, IInv, TypeOK
<1>3. \/ Goto(w, "check") /\ ~failed'[w] /\ schema = Files
      \/ Goto(w, "serve") /\ hit'[w]
  <2>1. CASE Unlock(w) /\ failed[w]
    BY <1>0, <2>1 DEF Unlock, IInv, Migrated
  <2>2. CASE Unlock(w) /\ ~failed[w]
    BY <1>0, <2>2 DEF Unlock, IInv, Migrated
  <2>3. CASE UnlockFails(w)
    BY <2>3 DEF UnlockFails, Hit, IInv, TypeOK
  <2> QED BY <2>1, <2>2, <2>3
<1>4. /\ pc' \in [Processes -> States \cup {"idle", "open"}]
      /\ \A v \in Workers : pc'[v] \in States
      /\ \A q \in Processes : q # w => pc'[q] = pc[q]
      /\ (pc'[w] = "check" /\ ~failed'[w] /\ schema = Files) \/ (pc'[w] = "serve" /\ hit'[w])
  <2>0. TypeOK /\ w \in Processes /\ "check" \in States /\ "serve" \in States
    BY DEF IInv, Processes, States
  <2>1. CASE Goto(w, "check") /\ ~failed'[w] /\ schema = Files
    BY <2>0, <2>1, GotoMoves
  <2>2. CASE Goto(w, "serve") /\ hit'[w]
    BY <2>0, <2>2, GotoMoves
  <2> QED BY <1>3, <2>1, <2>2
<1>5. \A v \in Workers : pc[v] = "file" => holder' = holder
  BY <1>0 DEF Unlock, UnlockFails, IInv, Exclusive
<1>6. TypeOK' /\ Exclusive' /\ FreshIsAbsent' /\ InOrder'
  BY <1>0, <1>1, <1>4, <1>5 DEF IInv, TypeOK, Exclusive, FreshIsAbsent, InOrder, Processes
<1>7. Migrated'
  BY <1>0, <1>2, <1>4 DEF IInv, Migrated, Processes
<1>8. HasKey' /\ FirstKey'
  BY <1>0, <1>2, <1>4 DEF IInv, HasKey, FirstKey, KeyExists, Processes
<1>9. CleanStartUp'
  BY <1>0, <1>2, <1>4 DEF IInv, CleanStartUp, Processes
<1> QED BY <1>6, <1>7, <1>8, <1>9 DEF IInv

-----------------------------------------------------------------------------
(* The default key and the packs *)

\* Check, insert and failure of the key: the schema is there, and a key is made by who
\* has made none.
LEMMA KeyKeeps ==
    ASSUME IInv, NEW w \in Workers, CheckKey(w) \/ InsertKey(w) \/ KeyFails(w) PROVE IInv'
<1>1. PICK l \in {"insert", "packs"} : Goto(w, l)
  BY DEF CheckKey, InsertKey, KeyFails
<1>2. /\ pc' \in [Processes -> States \cup {"idle", "open"}]
      /\ \A v \in Workers : pc'[v] \in States
      /\ pc'[w] = l
      /\ \A q \in Processes : q # w => pc'[q] = pc[q]
  BY <1>1, GotoMoves DEF IInv, Processes, States
<1>3. pc[w] \in {"check", "insert"} /\ UNCHANGED <<file, fresh, failed, holder, schema, synced>>
  BY DEF CheckKey, InsertKey, KeyFails
<1>4. /\ keys' \in [Workers -> {0, 1}]
      /\ \A v \in Workers : v # w => keys'[v] = keys[v]
      /\ \A v \in Workers : keys'[v] >= keys[v]
      /\ l = "insert" => keys'[w] = 0
  <2>1. CASE CheckKey(w)
    BY <2>1, <1>2 DEF CheckKey, Goto, IInv, TypeOK, Processes
  <2>2. CASE InsertKey(w)
    BY <2>2, <1>2 DEF InsertKey, Goto, IInv, TypeOK, FirstKey, Processes
  <2>3. CASE KeyFails(w)
    BY <2>3, <1>2 DEF KeyFails, Goto, IInv, TypeOK, FirstKey, Processes
  <2> QED BY <2>1, <2>2, <2>3
<1>5. l = "packs" => hit'[w] \/ \E v \in Workers : keys'[v] > 0
  <2>1. CASE CheckKey(w)
    BY <2>1, <1>2 DEF CheckKey, Goto, IInv, TypeOK, Processes
  <2>2. CASE InsertKey(w)
    BY <2>2 DEF InsertKey, IInv, TypeOK, FirstKey
  <2>3. CASE KeyFails(w)
    BY <2>3 DEF KeyFails, Hit, IInv, TypeOK
  <2> QED BY <2>1, <2>2, <2>3
<1>6. hit' \in [Workers -> BOOLEAN] /\ \A v \in Workers : v # w => (hit'[v] <=> hit[v])
  BY DEF CheckKey, InsertKey, KeyFails, Hit, IInv, TypeOK
<1>7. KeyExists => KeyExists'
  <2>1. SUFFICES ASSUME NEW v \in Workers, keys[v] > 0 PROVE \E u \in Workers : keys'[u] > 0
    BY DEF KeyExists
  <2>2. keys[v] \in {0, 1} /\ keys'[v] \in {0, 1} /\ keys'[v] >= keys[v]
    BY <1>4 DEF IInv, TypeOK
  <2> QED BY <2>1, <2>2
<1>8. TypeOK' /\ Exclusive' /\ FreshIsAbsent' /\ InOrder'
  BY <1>2, <1>3, <1>4, <1>6 DEF IInv, TypeOK, Exclusive, FreshIsAbsent, InOrder, Processes
<1>9. Migrated' /\ HasKey' /\ FirstKey'
  BY <1>2, <1>3, <1>4, <1>5, <1>6, <1>7 DEF IInv, Migrated, HasKey, FirstKey, KeyExists, Processes
<1>10. CleanStartUp'
  BY <1>2, <1>3, <1>6, <1>7 DEF IInv, CleanStartUp, KeyExists, Processes
<1> QED BY <1>8, <1>9, <1>10 DEF IInv

LEMMA PacksKeep == ASSUME IInv, NEW w \in Workers, PacksEnd(w) \/ PacksFail(w) PROVE IInv'
<1>1. pc[w] = "packs" /\ Goto(w, "serve") /\ UNCHANGED <<file, fresh, failed, holder, schema, keys>>
  BY DEF PacksEnd, PacksFail
<1>2. /\ pc' \in [Processes -> States \cup {"idle", "open"}]
      /\ \A v \in Workers : pc'[v] \in States
      /\ pc'[w] = "serve"
      /\ \A q \in Processes : q # w => pc'[q] = pc[q]
  BY <1>1, GotoMoves DEF IInv, Processes, States
<1>3. hit' \in [Workers -> BOOLEAN] /\ \A v \in Workers : v # w => (hit'[v] <=> hit[v])
  BY DEF PacksEnd, PacksFail, Hit, IInv, TypeOK
<1>4. (hit[w] => hit'[w]) /\ (synced => synced') /\ (hit'[w] \/ synced')
  BY DEF PacksEnd, PacksFail, Hit, IInv, TypeOK
<1>5. TypeOK' /\ Exclusive' /\ FreshIsAbsent' /\ InOrder'
  BY <1>1, <1>2, <1>3 DEF IInv, TypeOK, Exclusive, FreshIsAbsent, InOrder, Processes
<1>6. Migrated' /\ HasKey' /\ FirstKey'
  BY <1>1, <1>2, <1>3 DEF IInv, Migrated, HasKey, FirstKey, KeyExists, Processes
<1>7. CleanStartUp'
  BY <1>1, <1>2, <1>3, <1>4 DEF IInv, CleanStartUp, Migrated, HasKey, KeyExists, Processes
<1> QED BY <1>5, <1>6, <1>7 DEF IInv

-----------------------------------------------------------------------------
(* Deadlocks, crashes, and the theorems *)

\* A deadlock fails a request, which is none of a worker's start-up, or a file.
LEMMA BreakKeeps == ASSUME IInv, NEW p \in Processes, BreakDeadlock(p) PROVE IInv'
<1>1. CASE p \in Requests /\ Goto(p, "idle") /\ UNCHANGED <<file, fresh, failed, hit>>
  <2>1. p \notin Workers
    BY <1>1, StartupAssumption
  <2>2. /\ pc' \in [Processes -> States \cup {"idle", "open"}]
        /\ \A w \in Workers : pc'[w] = pc[w]
    BY <1>1, <2>1, GotoMoves DEF IInv, Processes
  <2>3. UNCHANGED <<holder, schema, keys, synced>>
    BY DEF BreakDeadlock
  <2> QED
    BY <1>1, <2>2, <2>3 DEF IInv, TypeOK, Exclusive, FreshIsAbsent, InOrder, Migrated, HasKey, FirstKey,
         CleanStartUp, KeyExists
<1>2. CASE /\ p \in Workers /\ pc[p] = "file" /\ EndFiles(p)
           /\ failed' = [failed EXCEPT ![p] = TRUE] /\ Hit(p)
  BY <1>2, FileFailsKeeps DEF BreakDeadlock
<1> QED BY <1>1, <1>2 DEF BreakDeadlock

\* A crash keeps what is committed, and frees the lock of the worker that had it.
LEMMA CrashKeeps == ASSUME IInv, NEW w \in Workers, Crash(w) PROVE IInv'
<1>1. /\ pc' \in [Processes -> States \cup {"idle", "open"}]
      /\ pc'[w] = "down"
      /\ \A v \in Workers : v # w => pc'[v] = pc[v]
  BY StartupAssumption DEF Crash, IInv, TypeOK, Processes, States
<1>2. \A v \in Workers : v # w /\ holder = v => holder' = v
  BY DEF Crash
<1>3. UNCHANGED <<schema, keys, synced>>
  BY DEF Crash
<1>4. file' \in [Workers -> Files] /\ \A v \in Workers : v # w => file'[v] = file[v]
  BY DEF Crash, IInv, TypeOK, Files
<1>5. fresh' \in [Workers -> BOOLEAN] /\ failed' \in [Workers -> BOOLEAN] /\ hit' \in [Workers -> BOOLEAN]
  BY DEF Crash, IInv, TypeOK
<1>6. \A v \in Workers : v # w => (fresh'[v] <=> fresh[v]) /\ (failed'[v] <=> failed[v]) /\ (hit'[v] <=> hit[v])
  BY DEF Crash, IInv, TypeOK
<1>7. TypeOK'
  BY <1>1, <1>3, <1>4, <1>5 DEF IInv, TypeOK, States
<1>8. Exclusive' /\ FreshIsAbsent' /\ InOrder'
  BY <1>1, <1>2, <1>3, <1>4, <1>6 DEF IInv, Exclusive, FreshIsAbsent, InOrder
<1>9. Migrated' /\ HasKey' /\ FirstKey'
  BY <1>1, <1>3, <1>6 DEF IInv, Migrated, HasKey, FirstKey, KeyExists
<1>10. CleanStartUp'
  BY <1>1, <1>3, <1>6 DEF IInv, CleanStartUp
<1> QED BY <1>7, <1>8, <1>9, <1>10 DEF IInv

\* The invariant of the start-up, with one step for each kind of action.
THEOREM Invariance == Spec => []IInv
<1>1. Init => IInv
  BY InitHolds
<1>2. ASSUME IInv, [Next]_vars PROVE IInv'
  <2>1. CASE \E w \in Workers : Boot(w) \/ Step(w) \/ Fault(w)
    <3>1. PICK w \in Workers : Boot(w) \/ Step(w) \/ Fault(w)
      BY <2>1
    <3>2. CASE Boot(w) \/ LockFails(w) \/ TakeLock(w) \/ FileEnds(w)
      BY <1>2, <3>2, BootKeeps, LockFailsKeeps, TakeLockKeeps, FileEndsKeeps
    <3>3. CASE FileFails(w)
      <4>1. schema' \in {schema, schema \cup {file[w]}}
        BY <3>3 DEF FileFails
      <4> QED BY <1>2, <3>3, <4>1, FileFailsKeeps DEF FileFails
    <3>4. CASE Unlock(w) \/ UnlockFails(w) \/ CheckKey(w) \/ InsertKey(w) \/ KeyFails(w)
      BY <1>2, <3>4, UnlockKeeps, KeyKeeps
    <3>5. CASE PacksEnd(w) \/ PacksFail(w) \/ Crash(w)
      BY <1>2, <3>5, PacksKeep, CrashKeeps
    <3> QED BY <3>1, <3>2, <3>3, <3>4, <3>5 DEF Step, Fault
  <2>2. CASE \E r \in Requests : RequestEnds(r) \/ RequestFails(r) \/ \E w \in Workers : RequestBegins(r, w)
    BY <1>2, <2>2, RequestKeeps
  <2>3. CASE \E p \in Processes : Acquire(p) \/ BreakDeadlock(p)
    BY <1>2, <2>3, AcquireKeeps, BreakKeeps
  <2>4. CASE UNCHANGED vars
    BY <1>2, <2>4 DEF vars, IInv, TypeOK, Exclusive, FreshIsAbsent, InOrder, Migrated, HasKey, FirstKey,
         CleanStartUp, KeyExists
  <2> QED BY <1>2, <2>1, <2>2, <2>3, <2>4 DEF Next
<1> QED BY <1>1, <1>2, PTL DEF Spec

\* No start-up is degraded by other start-ups or by requests, for any number of workers:
\* without a fault or a broken deadlock lifespan completes and leaves the schema, a key and the packs.
THEOREM StartUpsDoNotDisturb == Spec => []CleanStartUp
<1>1. IInv => CleanStartUp
  BY DEF IInv
<1> QED BY <1>1, Invariance, PTL

\* However often workers crash and boot, ensure_default_api_key makes at most one key per worker.
THEOREM KeysAreBounded == Spec => []OneKeyPerWorker
<1>1. IInv => OneKeyPerWorker
  <2>1. SUFFICES ASSUME IInv, NEW w \in Workers PROVE keys[w] <= 1
    BY DEF OneKeyPerWorker
  <2>2. keys[w] \in {0, 1}
    BY <2>1 DEF IInv, TypeOK
  <2> QED BY <2>2
<1> QED BY <1>1, Invariance, PTL
===============================================================================
