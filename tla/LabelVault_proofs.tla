-------------------------- MODULE LabelVault_proofs --------------------------
(***************************************************************************)
(* KeyMatchesFlag, PasswordOpens and RowsReadable for any number of threads,*)
(* passwords and random draws.  Whoever is inside the lock is at one of the *)
(* stages of initialize, unlock, lock or change_password; the invariant     *)
(* says of each stage what already holds and what the next step restores.   *)
(***************************************************************************)
EXTENDS LabelVault, TLAPS

Inner  == {"init_wrap", "init_verify", "unlock_verify", "lock", "rewrap"}
Labels == Inner \cup {"idle", "init", "write"}

TypeOK ==
    /\ pc \in [Threads -> Labels]
    /\ typed \in [Threads -> Passwords \cup {None}]
    /\ holder \in Threads \cup {None}
    /\ key \in Nat /\ unlocked \in BOOLEAN
    /\ salt \in Nat \cup {None} /\ wrapped \in Wrap \cup {None} /\ verifier \in Nat \cup {None}
    /\ draws \in Nat
    /\ torn \in BOOLEAN /\ raced \in BOOLEAN

\* The lock excludes: its holder, and nobody else, is at an inner stage.
Exclusive == \A t \in Threads : pc[t] \in Inner <=> holder = t

Stage == IF holder = None THEN "free" ELSE pc[holder]

\* Who is about to wrap a key has a password and a salt for it.
Prepared ==
    /\ \A t \in Threads : pc[t] \in {"init", "init_wrap", "init_verify", "rewrap"} => typed[t] \in Passwords
    /\ Stage \in {"init_wrap", "init_verify", "rewrap"} => salt \in Nat
    /\ Stage \in {"init_verify", "unlock_verify", "rewrap"} \/ unlocked => wrapped \in Wrap

\* The key in memory, at each stage; lock() blanks it before it resets the flag.
InMemory ==
    /\ Stage # "lock" => key = IF unlocked THEN wrapped.key ELSE Blank
    /\ Stage = "lock" => key = Blank
    /\ Stage \in {"init_verify", "unlock_verify"} => unlocked
    /\ unlocked /\ ~initialized => Stage \in {"init_verify", "unlock_verify"}

\* What is on disk opens with the last password, but while it is being rewritten.
OnDisk ==
    /\ initialized /\ ~torn /\ Stage \notin {"init_wrap", "init_verify", "rewrap"} =>
           Opens(password) /\ verifier = wrapped.key
    /\ initialized /\ ~torn /\ Stage = "rewrap" => verifier = wrapped.key
    /\ Stage = "init_verify" => wrapped.kek = Kek(typed[holder], salt)
    /\ initialized /\ Stage \in {"init_wrap", "init_verify"} => raced
    /\ torn => initialized

\* A request that has passed its check writes with the vault's key, or the race is on record.
Written ==
    /\ ~raced => \A t \in Threads : pc[t] = "write" => unlocked
    /\ ~torn /\ ~raced => rows \subseteq (IF initialized THEN {wrapped.key} ELSE {})

IInv == TypeOK /\ Exclusive /\ Prepared /\ InMemory /\ OnDisk /\ Written

-----------------------------------------------------------------------------
\* The empty vault.
LEMMA InitHolds == ASSUME Init PROVE IInv
<1>1. Stage = "free" /\ ~initialized
  BY DEF Init, Stage, initialized
<1>2. TypeOK
  BY DEF Init, TypeOK, Labels, Blank
<1>3. Exclusive
  BY VaultAssumption DEF Init, Exclusive, Inner
<1>4. Prepared /\ InMemory /\ OnDisk /\ Written
  BY <1>1 DEF Init, Prepared, InMemory, OnDisk, Written
<1> QED BY <1>2, <1>3, <1>4 DEF IInv

\* Threads that move between labels outside the lock leave the vault as it is.
LEMMA OutsideKeeps ==
    ASSUME IInv, NEW t \in Threads, (\E pw \in Passwords : CheckInitialize(t, pw)) \/ Need(t) \/ FetchEntity(t)
    PROVE  IInv'
<1>1. PICK l \in {"init", "write"} : Goto(t, "idle", l) /\ (l = "write" => unlocked)
  BY DEF CheckInitialize, Need, FetchEntity
<1>2. UNCHANGED <<holder, mem, disk, draws, password, torn, raced>>
  BY DEF CheckInitialize, Need, FetchEntity, Briefly
<1>3. \A u \in Threads : u # t => pc'[u] = pc[u] /\ typed'[u] = typed[u]
  BY DEF CheckInitialize, Need, FetchEntity, Goto, IInv, TypeOK
<1>4. pc' \in [Threads -> Labels] /\ typed' \in [Threads -> Passwords \cup {None}] /\ pc'[t] = l /\ holder # t
  BY <1>1 DEF CheckInitialize, Need, FetchEntity, Goto, IInv, TypeOK, Exclusive, Labels, Inner
<1>5. l = "init" => typed'[t] \in Passwords
  BY <1>1 DEF CheckInitialize, Need, FetchEntity, Goto, IInv, TypeOK
<1>6. TypeOK' /\ Exclusive'
  BY <1>1, <1>2, <1>3, <1>4 DEF IInv, TypeOK, Exclusive, mem, disk, Inner
<1>7. Stage' = Stage
  BY <1>2, <1>3, <1>4 DEF Stage, IInv, TypeOK
<1>8. Prepared'
  BY <1>2, <1>3, <1>4, <1>5, <1>7 DEF IInv, Prepared, mem, disk
<1>9. InMemory' /\ OnDisk'
  BY <1>2, <1>3, <1>4, <1>7, VaultAssumption DEF IInv, InMemory, OnDisk, mem, disk, initialized, Opens, Stage, TypeOK
<1>10. Written'
  BY <1>1, <1>2, <1>3, <1>4 DEF IInv, Written, mem, disk, initialized
<1> QED BY <1>6, <1>8, <1>9, <1>10 DEF IInv

-----------------------------------------------------------------------------
(* Taking the lock, moving inside it, giving it back *)

\* Only the thread that moves changes its label.
LEMMA GotoMoves ==
    ASSUME TypeOK, NEW t \in Threads, NEW a, NEW b \in Labels, Goto(t, a, b)
    PROVE  /\ pc' \in [Threads -> Labels]
           /\ pc[t] = a /\ pc'[t] = b
           /\ \A u \in Threads : u # t => pc'[u] = pc[u]
  BY DEF TypeOK, Goto

\* Whoever takes the lock finds the vault at rest.
LEMMA Enter ==
    ASSUME IInv, NEW t \in Threads, NEW a, NEW b \in Inner, Goto(t, a, b), Acquire(t)
    PROVE  Stage = "free" /\ Stage' = b /\ holder' = t /\ Exclusive'
<1>1. pc[t] = a /\ pc'[t] = b /\ \A u \in Threads : u # t => pc'[u] = pc[u]
  BY GotoMoves DEF IInv, Labels
<1>2. holder = None /\ holder' = t /\ t # None /\ \A u \in Threads : u # None
  BY VaultAssumption DEF Acquire
<1> QED BY <1>1, <1>2 DEF Stage, IInv, Exclusive

\* From one inner stage to the next.
LEMMA Stay ==
    ASSUME IInv, NEW t \in Threads, NEW a \in Inner, NEW b \in Inner, Goto(t, a, b), UNCHANGED holder
    PROVE  Stage = a /\ Stage' = b /\ holder = t /\ Exclusive'
<1>1. pc[t] = a /\ pc'[t] = b /\ \A u \in Threads : u # t => pc'[u] = pc[u]
  BY GotoMoves DEF IInv, Labels
<1>2. holder = t /\ t # None
  BY <1>1, VaultAssumption DEF IInv, Exclusive
<1> QED BY <1>1, <1>2 DEF Stage, IInv, Exclusive

\* The lock is given back.
LEMMA Leave ==
    ASSUME IInv, NEW t \in Threads, NEW a \in Inner, Goto(t, a, "idle"), Release(t)
    PROVE  Stage = a /\ Stage' = "free" /\ holder = t /\ holder' = None /\ Exclusive'
<1>1. pc[t] = a /\ pc'[t] = "idle" /\ \A u \in Threads : u # t => pc'[u] = pc[u]
  BY GotoMoves DEF IInv, Labels
<1>2. holder = t /\ holder' = None /\ t # None /\ \A u \in Threads : u # None
  BY VaultAssumption DEF Release
<1>3. "idle" \notin Inner
  BY DEF Inner
<1> QED BY <1>1, <1>2, <1>3 DEF Stage, IInv, Exclusive

-----------------------------------------------------------------------------
(* initialize *)

\* A new salt; a second initialisation is recorded as a race.
LEMMA InitializeSaltKeeps == ASSUME IInv, NEW t \in Threads, InitializeSalt(t) PROVE IInv'
<1>1. Stage = "free" /\ Stage' = "init_wrap" /\ holder' = t /\ Exclusive'
  BY Enter DEF InitializeSalt, Inner
<1>2. /\ pc' \in [Threads -> Labels] /\ pc[t] = "init" /\ pc'[t] = "init_wrap"
      /\ \A u \in Threads : u # t => pc'[u] = pc[u]
  BY GotoMoves DEF InitializeSalt, IInv, Labels, Inner
<1>3. /\ salt' = draws + 1 /\ salt' \in Nat /\ draws' \in Nat
      /\ raced' = (raced \/ initialized)
      /\ UNCHANGED <<typed, key, unlocked, wrapped, verifier, rows, password, torn>>
  BY DEF InitializeSalt, Draw, mem, IInv, TypeOK
<1>4. initialized' = initialized
  BY <1>3 DEF initialized
<1>5. TypeOK'
  BY <1>1, <1>2, <1>3 DEF IInv, TypeOK, initialized
<1>6. Prepared'
  BY <1>1, <1>2, <1>3 DEF IInv, Prepared
<1>7. InMemory'
  BY <1>1, <1>3, <1>4 DEF IInv, InMemory
<1>8. OnDisk'
  BY <1>1, <1>3, <1>4 DEF IInv, OnDisk
<1>9. Written'
  BY <1>2, <1>3, <1>4 DEF IInv, Written
<1> QED BY <1>1, <1>5, <1>6, <1>7, <1>8, <1>9 DEF IInv

\* The new key is wrapped and installed together.
LEMMA InitializeWrapKeeps == ASSUME IInv, NEW t \in Threads, InitializeWrap(t) PROVE IInv'
<1>1. Stage = "init_wrap" /\ Stage' = "init_verify" /\ holder = t /\ Exclusive'
  BY Stay DEF InitializeWrap, Inner
<1>2. /\ pc' \in [Threads -> Labels] /\ pc[t] = "init_wrap" /\ pc'[t] = "init_verify"
      /\ \A u \in Threads : u # t => pc'[u] = pc[u]
  BY GotoMoves DEF InitializeWrap, IInv, Labels, Inner
<1>3. salt \in Nat /\ typed[t] \in Passwords
  BY <1>1, <1>2 DEF IInv, Prepared
<1>4. /\ wrapped' \in Wrap /\ wrapped'.kek = Kek(typed[t], salt) /\ wrapped'.key = salt + 1
      /\ key' = wrapped'.key /\ key' \in Nat /\ unlocked' = TRUE
      /\ UNCHANGED <<typed, holder, salt, verifier, rows, draws, password, torn, raced>>
  BY <1>3 DEF InitializeWrap, install_keys, Wrap, Kek
<1>5. initialized' = initialized
  BY <1>4 DEF initialized
<1>6. TypeOK'
  BY <1>2, <1>4 DEF IInv, TypeOK
<1>7. Prepared'
  BY <1>1, <1>2, <1>3, <1>4 DEF IInv, Prepared
<1>8. InMemory'
  BY <1>1, <1>4 DEF InMemory
<1>9. OnDisk'
  BY <1>1, <1>4, <1>5 DEF IInv, OnDisk, Kek
<1>10. Written'
  BY <1>1, <1>2, <1>4, <1>5 DEF IInv, Written, OnDisk
<1> QED BY <1>1, <1>6, <1>7, <1>8, <1>9, <1>10 DEF IInv

\* The verifier is written last, with the key that is wrapped.
LEMMA InitializeVerifyKeeps == ASSUME IInv, NEW t \in Threads, InitializeVerify(t) PROVE IInv'
<1>1. Stage = "init_verify" /\ Stage' = "free" /\ holder = t /\ holder' = None /\ Exclusive'
  BY Leave DEF InitializeVerify, Inner
<1>2. /\ pc' \in [Threads -> Labels] /\ pc[t] = "init_verify" /\ pc'[t] = "idle"
      /\ \A u \in Threads : u # t => pc'[u] = pc[u]
  BY GotoMoves DEF InitializeVerify, IInv, Labels
<1>3. /\ verifier' = key /\ password' = typed[t]
      /\ UNCHANGED <<key, unlocked, salt, wrapped, rows, draws, torn, raced>>
  BY DEF InitializeVerify, mem
<1>4. /\ typed' \in [Threads -> Passwords \cup {None}]
      /\ \A u \in Threads : u # t => typed'[u] = typed[u]
  BY DEF InitializeVerify, IInv, TypeOK
<1>5. initialized' /\ key = wrapped.key /\ wrapped \in Wrap /\ salt \in Nat /\ unlocked
  BY <1>1, <1>3, VaultAssumption DEF IInv, InMemory, Prepared, initialized, TypeOK
<1>6. TypeOK'
  BY <1>1, <1>2, <1>3, <1>4 DEF IInv, TypeOK
<1>7. Prepared'
  BY <1>1, <1>2, <1>3, <1>4, <1>5 DEF IInv, Prepared
<1>8. InMemory'
  BY <1>1, <1>3, <1>5 DEF InMemory
<1>9. OnDisk'
  <2>1. wrapped.kek = Kek(typed[t], salt)
    BY <1>1 DEF IInv, OnDisk
  <2>2. Opens(password)' /\ verifier' = wrapped'.key
    BY <1>3, <1>5, <2>1, VaultAssumption DEF Opens, Kek
  <2> QED BY <1>1, <1>5, <2>2 DEF OnDisk
<1>10. Written'
  BY <1>1, <1>2, <1>3, <1>5 DEF IInv, Written, OnDisk
<1> QED BY <1>1, <1>6, <1>7, <1>8, <1>9, <1>10 DEF IInv
-----------------------------------------------------------------------------
(* unlock and lock *)

\* The unwrapped key is installed.
LEMMA UnlockKeeps == ASSUME IInv, NEW t \in Threads, NEW pw \in Passwords, Unlock(t, pw) PROVE IInv'
<1>1. Stage = "free" /\ Stage' = "unlock_verify" /\ Exclusive' /\ holder' = t
  BY Enter DEF Unlock, Inner
<1>2. /\ pc' \in [Threads -> Labels] /\ pc[t] = "idle" /\ pc'[t] = "unlock_verify"
      /\ \A u \in Threads : u # t => pc'[u] = pc[u]
  BY GotoMoves DEF Unlock, IInv, Labels, Inner
<1>3. /\ key' = wrapped.key /\ unlocked' = TRUE /\ wrapped \in Wrap /\ key' \in Nat
      /\ UNCHANGED <<typed, salt, wrapped, verifier, rows, draws, password, torn, raced>>
  BY DEF Unlock, install_keys, disk, Opens, Wrap, IInv, TypeOK
<1>4. initialized' = initialized /\ (Opens(password)' <=> Opens(password))
  BY <1>3 DEF initialized, Opens
<1>5. TypeOK'
  BY <1>1, <1>2, <1>3 DEF IInv, TypeOK
<1>6. Prepared'
  BY <1>1, <1>2, <1>3 DEF IInv, Prepared
<1>7. InMemory'
  BY <1>1, <1>3 DEF InMemory
<1>8. OnDisk'
  BY <1>1, <1>3, <1>4 DEF IInv, OnDisk
<1>9. Written'
  BY <1>2, <1>3, <1>4 DEF IInv, Written
<1> QED BY <1>1, <1>5, <1>6, <1>7, <1>8, <1>9 DEF IInv

\* Without a verifier the keys are dropped again.
LEMMA UnlockVerifyKeeps == ASSUME IInv, NEW t \in Threads, UnlockVerify(t) PROVE IInv'
<1>1. Stage = "unlock_verify" /\ Stage' = "free" /\ Exclusive' /\ holder' = None
  BY Leave DEF UnlockVerify, Inner
<1>2. /\ pc' \in [Threads -> Labels] /\ pc[t] = "unlock_verify" /\ pc'[t] = "idle"
      /\ \A u \in Threads : u # t => pc'[u] = pc[u]
  BY GotoMoves DEF UnlockVerify, IInv, Labels, Inner
<1>3. /\ UNCHANGED <<typed, salt, wrapped, verifier, rows, draws, password, torn>>
      /\ raced' = (raced \/ (~initialized /\ Writing))
      /\ IF initialized THEN UNCHANGED <<key, unlocked>> ELSE key' = Blank /\ unlocked' = FALSE
  BY DEF UnlockVerify, disk, mem
<1>4. initialized' = initialized /\ (Opens(password)' <=> Opens(password))
  BY <1>3 DEF initialized, Opens
<1>5. CASE initialized
  <2>1. UNCHANGED <<key, unlocked>> /\ raced' = raced
    BY <1>3, <1>5 DEF IInv, TypeOK
  <2>2. TypeOK' /\ Prepared'
    BY <1>1, <1>2, <1>3, <2>1 DEF IInv, TypeOK, Prepared
  <2>3. InMemory' /\ OnDisk'
    BY <1>1, <1>3, <1>4, <1>5, <2>1 DEF IInv, InMemory, OnDisk
  <2>4. Written'
    BY <1>2, <1>3, <1>4, <2>1 DEF IInv, Written
  <2> QED BY <1>1, <2>2, <2>3, <2>4 DEF IInv
<1>6. CASE ~initialized
  <2>1. key' = Blank /\ key' \in Nat /\ unlocked' = FALSE /\ raced' = (raced \/ Writing)
    BY <1>3, <1>6 DEF Blank
  <2>2. TypeOK'
    BY <1>1, <1>2, <1>3, <2>1 DEF IInv, TypeOK, Writing
  <2>3. Prepared'
    BY <1>1, <1>2, <1>3, <2>1 DEF IInv, Prepared
  <2>4. InMemory' /\ OnDisk'
    BY <1>1, <1>3, <1>4, <1>6, <2>1 DEF IInv, InMemory, OnDisk
  <2>5. Written'
    BY <1>2, <1>3, <1>4, <1>6, <2>1 DEF IInv, Written, Writing
  <2> QED BY <1>1, <2>2, <2>3, <2>4, <2>5 DEF IInv
<1> QED BY <1>5, <1>6

\* The key is blanked first ...
LEMMA LockKeysKeeps == ASSUME IInv, NEW t \in Threads, LockKeys(t) PROVE IInv'
<1>1. Stage = "free" /\ Stage' = "lock" /\ Exclusive' /\ holder' = t
  BY Enter DEF LockKeys, Inner
<1>2. /\ pc' \in [Threads -> Labels] /\ pc[t] = "idle" /\ pc'[t] = "lock"
      /\ \A u \in Threads : u # t => pc'[u] = pc[u]
  BY GotoMoves DEF LockKeys, IInv, Labels, Inner
<1>3. /\ key' = Blank /\ key' \in Nat
      /\ UNCHANGED <<typed, unlocked, salt, wrapped, verifier, rows, draws, password, torn, raced>>
  BY DEF LockKeys, disk, Blank
<1>4. initialized' = initialized /\ (Opens(password)' <=> Opens(password))
  BY <1>3 DEF initialized, Opens
<1>5. TypeOK'
  BY <1>1, <1>2, <1>3 DEF IInv, TypeOK
<1>6. Prepared'
  BY <1>1, <1>2, <1>3 DEF IInv, Prepared
<1>7. InMemory'
  BY <1>1, <1>3, <1>4 DEF IInv, InMemory
<1>8. OnDisk'
  BY <1>1, <1>3, <1>4 DEF IInv, OnDisk
<1>9. Written'
  BY <1>2, <1>3, <1>4 DEF IInv, Written
<1> QED BY <1>1, <1>5, <1>6, <1>7, <1>8, <1>9 DEF IInv

\* ... and the flag last; a request between its check and its write is recorded.
LEMMA LockFlagKeeps == ASSUME IInv, NEW t \in Threads, LockFlag(t) PROVE IInv'
<1>1. Stage = "lock" /\ Stage' = "free" /\ Exclusive' /\ holder' = None
  BY Leave DEF LockFlag, Inner
<1>2. /\ pc' \in [Threads -> Labels] /\ pc[t] = "lock" /\ pc'[t] = "idle"
      /\ \A u \in Threads : u # t => pc'[u] = pc[u]
  BY GotoMoves DEF LockFlag, IInv, Labels, Inner
<1>3. /\ unlocked' = FALSE /\ raced' = (raced \/ Writing)
      /\ UNCHANGED <<typed, key, salt, wrapped, verifier, rows, draws, password, torn>>
  BY DEF LockFlag, disk
<1>4. initialized' = initialized /\ (Opens(password)' <=> Opens(password))
  BY <1>3 DEF initialized, Opens
<1>5. TypeOK'
  BY <1>1, <1>2, <1>3 DEF IInv, TypeOK, Writing
<1>6. Prepared'
  BY <1>1, <1>2, <1>3 DEF IInv, Prepared
<1>7. InMemory'
  BY <1>1, <1>3 DEF IInv, InMemory
<1>8. OnDisk'
  BY <1>1, <1>3, <1>4 DEF IInv, OnDisk
<1>9. Written'
  BY <1>2, <1>3, <1>4 DEF IInv, Written, Writing
<1> QED BY <1>1, <1>5, <1>6, <1>7, <1>8, <1>9 DEF IInv

-----------------------------------------------------------------------------
(* change_password *)

\* The new salt is on disk, the key still wrapped with the old one.
LEMMA ChangeSaltKeeps ==
    ASSUME IInv, NEW t \in Threads, NEW old \in Passwords, NEW new \in Passwords, ChangeSalt(t, old, new)
    PROVE  IInv'
<1>1. Stage = "free" /\ Stage' = "rewrap" /\ Exclusive' /\ holder' = t
  BY Enter DEF ChangeSalt, Inner
<1>2. /\ pc' \in [Threads -> Labels] /\ pc[t] = "idle" /\ pc'[t] = "rewrap"
      /\ \A u \in Threads : u # t => pc'[u] = pc[u]
  BY GotoMoves DEF ChangeSalt, IInv, Labels, Inner
<1>3. /\ salt' \in Nat /\ draws' \in Nat /\ wrapped \in Wrap
      /\ UNCHANGED <<key, unlocked, wrapped, verifier, rows, password, torn, raced>>
  BY DEF ChangeSalt, Draw, mem, Opens, IInv, TypeOK
<1>4. /\ typed' \in [Threads -> Passwords \cup {None}] /\ typed'[t] \in Passwords
      /\ \A u \in Threads : u # t => typed'[u] = typed[u]
  BY DEF ChangeSalt, IInv, TypeOK
<1>5. initialized' = initialized
  BY <1>3 DEF initialized
<1>6. TypeOK'
  BY <1>1, <1>2, <1>3, <1>4 DEF IInv, TypeOK
<1>7. Prepared'
  BY <1>1, <1>2, <1>3, <1>4 DEF IInv, Prepared
<1>8. InMemory'
  BY <1>1, <1>3, <1>5 DEF IInv, InMemory
<1>9. OnDisk'
  BY <1>1, <1>3, <1>5 DEF IInv, OnDisk
<1>10. Written'
  BY <1>2, <1>3, <1>5 DEF IInv, Written
<1> QED BY <1>1, <1>6, <1>7, <1>8, <1>9, <1>10 DEF IInv

\* The same data key, wrapped with the new password and the new salt.
LEMMA ChangeWrapKeeps == ASSUME IInv, NEW t \in Threads, ChangeWrap(t) PROVE IInv'
<1>1. Stage = "rewrap" /\ Stage' = "free" /\ Exclusive' /\ holder' = None
  BY Leave DEF ChangeWrap, Inner
<1>2. /\ pc' \in [Threads -> Labels] /\ pc[t] = "rewrap" /\ pc'[t] = "idle"
      /\ \A u \in Threads : u # t => pc'[u] = pc[u]
  BY GotoMoves DEF ChangeWrap, IInv, Labels, Inner
<1>3. wrapped \in Wrap /\ salt \in Nat /\ typed[t] \in Passwords
  BY <1>1, <1>2 DEF IInv, Prepared
<1>4. /\ wrapped' \in Wrap /\ wrapped'.kek = Kek(typed[t], salt) /\ wrapped'.key = wrapped.key
      /\ password' = typed[t]
      /\ UNCHANGED <<key, unlocked, salt, verifier, rows, draws, torn, raced>>
  BY <1>3 DEF ChangeWrap, mem, Wrap, Kek
<1>5. /\ typed' \in [Threads -> Passwords \cup {None}]
      /\ \A u \in Threads : u # t => typed'[u] = typed[u]
  BY DEF ChangeWrap, IInv, TypeOK
<1>6. initialized' = initialized /\ Opens(password)'
  BY <1>3, <1>4, VaultAssumption DEF initialized, Opens, Kek
<1>7. TypeOK'
  BY <1>1, <1>2, <1>4, <1>5 DEF IInv, TypeOK
<1>8. Prepared'
  BY <1>1, <1>2, <1>4, <1>5 DEF IInv, Prepared
<1>9. InMemory'
  BY <1>1, <1>4, <1>6 DEF IInv, InMemory
<1>10. OnDisk'
  BY <1>1, <1>4, <1>6 DEF IInv, OnDisk
<1>11. Written'
  BY <1>2, <1>4, <1>6 DEF IInv, Written
<1> QED BY <1>1, <1>7, <1>8, <1>9, <1>10, <1>11 DEF IInv

-----------------------------------------------------------------------------
(* Stored values, and the death of the process *)

\* A value is stored while nobody is inside the lock, with the key in memory.
LEMMA StoreKeeps ==
    ASSUME IInv, NEW t \in Threads, Write(t) \/ AddEntity(t)
    PROVE  IInv'
<1>1. /\ holder = None /\ holder' = None /\ rows' = rows \cup {key}
      /\ UNCHANGED <<typed, key, unlocked, salt, wrapped, verifier, draws, password, torn, raced>>
  BY DEF Write, AddEntity, Briefly, Store, mem
<1>2. Stage = "free" /\ Stage' = "free" /\ initialized' = initialized /\ (Opens(password)' <=> Opens(password))
  BY <1>1 DEF Stage, initialized, Opens
<1>3. /\ pc' \in [Threads -> Labels]
      /\ \A u \in Threads : pc'[u] = pc[u] \/ (pc'[u] = "idle" /\ pc[u] \notin Inner)
  BY DEF Write, AddEntity, Goto, IInv, TypeOK, Labels, Inner
<1>4. ~raced => unlocked
  BY DEF Write, AddEntity, Goto, IInv, Written
<1>5. TypeOK' /\ Exclusive'
  BY <1>1, <1>3 DEF IInv, TypeOK, Exclusive, Inner
<1>6. Prepared'
  BY <1>1, <1>2, <1>3 DEF IInv, Prepared
<1>7. InMemory' /\ OnDisk'
  BY <1>1, <1>2 DEF IInv, InMemory, OnDisk
<1>8. Written'
  <2>1. ~raced => initialized /\ key = wrapped.key
    BY <1>2, <1>4 DEF IInv, InMemory
  <2> QED BY <1>1, <1>2, <1>3, <2>1 DEF IInv, Written
<1> QED BY <1>5, <1>6, <1>7, <1>8 DEF IInv

\* Memory is gone; between two writes to meta, the tear is on record.
LEMMA CrashKeeps == ASSUME IInv, Crash PROVE IInv'
<1>1. /\ pc' = [t \in Threads |-> "idle"] /\ typed' = [t \in Threads |-> None]
      /\ holder' = None /\ key' = Blank /\ key' \in Nat /\ unlocked' = FALSE
      /\ UNCHANGED <<salt, wrapped, verifier, rows, draws, password, raced>>
  BY DEF Crash, disk, Blank
<1>2. torn' = (torn \/ (initialized /\ \E t \in Threads : pc[t] \in {"rewrap", "init_wrap", "init_verify"}))
  BY DEF Crash
<1>3. Stage' = "free" /\ initialized' = initialized /\ (Opens(password)' <=> Opens(password))
  BY <1>1 DEF Stage, initialized, Opens
<1>4. initialized /\ ~torn' => ~torn /\ Stage \notin {"rewrap", "init_wrap", "init_verify"}
  BY <1>2 DEF Stage, IInv, TypeOK
<1>5. torn' \in BOOLEAN /\ (torn' => initialized) /\ (torn => torn')
  BY <1>2 DEF IInv, TypeOK, OnDisk
<1>6. TypeOK'
  BY <1>1, <1>5 DEF IInv, TypeOK, Labels
<1>7. Exclusive'
  BY <1>1, VaultAssumption DEF Exclusive, Inner
<1>8. Prepared' /\ InMemory'
  BY <1>1, <1>3 DEF Prepared, InMemory
<1>9. OnDisk'
  BY <1>1, <1>3, <1>4, <1>5 DEF IInv, OnDisk
<1>10. Written'
  BY <1>1, <1>3, <1>5 DEF IInv, Written
<1> QED BY <1>6, <1>7, <1>8, <1>9, <1>10 DEF IInv

\* Nothing happens.
LEMMA StutterKeeps == ASSUME IInv, UNCHANGED vars PROVE IInv'
  BY DEF vars, IInv, TypeOK, Exclusive, Prepared, InMemory, OnDisk, Written, Stage, initialized, Opens

\* Every step of initialize, unlock, lock, change_password and of the writers
\* keeps the invariant, and so does the death of the process.
LEMMA StepKeeps == ASSUME IInv, [Next]_vars PROVE IInv'
<1>1. ASSUME NEW t \in Threads, NEW pw \in Passwords, CheckInitialize(t, pw) \/ Unlock(t, pw) PROVE IInv'
  BY <1>1, OutsideKeeps, UnlockKeeps
<1>2. ASSUME NEW t \in Threads, NEW old \in Passwords, NEW new \in Passwords, ChangeSalt(t, old, new) PROVE IInv'
  BY <1>2, ChangeSaltKeeps
<1>3. ASSUME NEW t \in Threads, InitializeSalt(t) \/ InitializeWrap(t) \/ InitializeVerify(t) PROVE IInv'
  BY <1>3, InitializeSaltKeeps, InitializeWrapKeeps, InitializeVerifyKeeps
<1>4. ASSUME NEW t \in Threads, UnlockVerify(t) \/ LockKeys(t) \/ LockFlag(t) \/ ChangeWrap(t) PROVE IInv'
  BY <1>4, UnlockVerifyKeeps, LockKeysKeeps, LockFlagKeeps, ChangeWrapKeeps
<1>5. ASSUME NEW t \in Threads, Need(t) \/ FetchEntity(t) \/ Write(t) \/ AddEntity(t) PROVE IInv'
  BY <1>5, OutsideKeeps, StoreKeeps
<1> QED BY <1>1, <1>2, <1>3, <1>4, <1>5, CrashKeeps, StutterKeeps DEF Next

\* The stages of the lock's holder explain every reachable state of the vault.
THEOREM Invariance == Spec => []IInv
<1>1. Init => IInv
  BY InitHolds
<1>2. IInv /\ [Next]_vars => IInv'
  BY StepKeeps
<1> QED BY <1>1, <1>2, PTL DEF Spec

-----------------------------------------------------------------------------
\* lock() and unlock() leave the key and the flag in step, whoever races them.
THEOREM FlagAndKeyAgree == Spec => []KeyMatchesFlag
<1>1. IInv => KeyMatchesFlag
  BY DEF IInv, InMemory, Stage, KeyMatchesFlag
<1> QED BY <1>1, Invariance, PTL

\* initialize() and change_password() leave a vault that the accepted password
\* opens, unless the process dies between their two writes.
THEOREM AcceptedPasswordOpens == Spec => []PasswordOpens
<1>1. IInv => PasswordOpens
  BY DEF IInv, OnDisk, Stage, PasswordOpens
<1> QED BY <1>1, Invariance, PTL

\* What create_project, record_document, add_entity and the others store stays
\* readable, for any number of threads, locks and password changes.
THEOREM StoredIsReadable == Spec => []RowsReadable
<1>1. IInv => RowsReadable
  BY DEF IInv, Written, RowsReadable
<1> QED BY <1>1, Invariance, PTL
===============================================================================
