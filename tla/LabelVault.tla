------------------------------ MODULE LabelVault ------------------------------
(***************************************************************************)
(* Keys and password of the desktop vault: LabelVault of desktop/vaultdb.py *)
(* under the threads of desktop/server.py, one per HTTP request.            *)
(*                                                                          *)
(* The vault file holds a salt, the data key wrapped by a key derived from  *)
(* the password and the salt, a verifier encrypted with the data key, and   *)
(* rows encrypted with whatever key is in memory when they are written.     *)
(* Every SQL statement commits on its own (isolation_level=None).  A        *)
(* ciphertext is modelled by the key it was made with.                      *)
(***************************************************************************)
EXTENDS Naturals

CONSTANTS
    Threads,     \* request threads
    Passwords,   \* passwords the user may type
    None,        \* absent meta entry, no holder of the lock
    MaxDraws     \* bound on the random salts and data keys drawn

\* What "wrapped" holds: the key it is wrapped with, of a password and a salt, and the data key.
Wrap == [kek : Passwords \X Nat, key : Nat]

ASSUME VaultAssumption ==
    MaxDraws \in Nat /\ None \notin Threads \cup Passwords /\ None \notin Nat /\ None \notin Wrap

Blank == 0       \* the all-zero key that lock() leaves in memory

VARIABLES
    pc,          \* pc[t]: what thread t is in the middle of
    typed,       \* typed[t]: the password its call will install, None otherwise
    holder,      \* the thread inside the RLock, None when it is free
    key,         \* the key in memory
    unlocked,    \* _unlocked
    salt,        \* on disk: meta "salt"
    wrapped,     \* on disk: meta "wrapped", the wrapping key and the data key
    verifier,    \* on disk: meta "verifier", the key it is encrypted with
    rows,        \* on disk: the keys that stored values are encrypted with
    draws,       \* random values drawn so far
    password,    \* observed: the password that init or change accepted last
    torn,        \* observed: the process died between two writes to meta
    raced        \* observed: the key was changed under a write in progress

disk == <<salt, wrapped, verifier, rows>>
mem  == <<key, unlocked>>
vars == <<pc, typed, holder, key, unlocked, salt, wrapped, verifier, rows, draws, password, torn, raced>>

Keys == 0 .. MaxDraws
Kek(pw, s) == <<pw, s>>
initialized == verifier # None

Init ==
    /\ pc = [t \in Threads |-> "idle"]
    /\ typed = [t \in Threads |-> None]
    /\ holder = None
    /\ key = Blank /\ unlocked = FALSE
    /\ salt = None /\ wrapped = None /\ verifier = None
    /\ rows = {}
    /\ draws = 0
    /\ password = None
    /\ torn = FALSE /\ raced = FALSE

Goto(t, from, to) == pc[t] = from /\ pc' = [pc EXCEPT ![t] = to]
Acquire(t) == holder = None /\ holder' = t
Release(t) == holder = t /\ holder' = None

\* Holding the lock for one step: taken and released at once.
Briefly == holder = None /\ UNCHANGED holder

\* Some thread has passed its check and not yet written.
Writing == \E t \in Threads : pc[t] = "write"

Draw(n) == draws + n <= MaxDraws /\ draws' = draws + n
install_keys(k) == key' = k /\ unlocked' = TRUE

-----------------------------------------------------------------------------
(* initialize: the test for an existing vault is outside the lock *)

CheckInitialize(t, pw) ==
    /\ Goto(t, "idle", "init")
    /\ ~initialized
    /\ typed' = [typed EXCEPT ![t] = pw]
    /\ UNCHANGED <<holder, mem, disk, draws, password, torn, raced>>

\* Both the salt and the data key are drawn before the first write.
InitializeSalt(t) ==
    /\ Goto(t, "init", "init_wrap")
    /\ Acquire(t)
    /\ Draw(2)
    /\ salt' = draws + 1
    /\ raced' = (raced \/ initialized)
    /\ UNCHANGED <<typed, mem, wrapped, verifier, rows, password, torn>>

\* The thread holds the lock, so salt is still the one it drew.
InitializeWrap(t) ==
    /\ Goto(t, "init_wrap", "init_verify")
    /\ wrapped' = [kek |-> Kek(typed[t], salt), key |-> salt + 1]
    /\ install_keys(salt + 1)
    /\ UNCHANGED <<typed, holder, salt, verifier, rows, draws, password, torn, raced>>

InitializeVerify(t) ==
    /\ Goto(t, "init_verify", "idle")
    /\ Release(t)
    /\ verifier' = key
    /\ password' = typed[t]
    /\ typed' = [typed EXCEPT ![t] = None]
    /\ UNCHANGED <<mem, salt, wrapped, rows, draws, torn, raced>>

-----------------------------------------------------------------------------
(* unlock and lock *)

Opens(pw) == salt # None /\ wrapped # None /\ wrapped.kek = Kek(pw, salt)

\* The data key is unwrapped and installed; a wrong password changes nothing.
Unlock(t, pw) ==
    /\ Goto(t, "idle", "unlock_verify")
    /\ Acquire(t)
    /\ Opens(pw)
    /\ install_keys(wrapped.key)
    /\ UNCHANGED <<typed, disk, draws, password, torn, raced>>

\* The verifier decrypts, or it fails to: then InvalidTag leaves unlock, and the
\* keys stay.  A missing verifier locks the vault again.
UnlockVerify(t) ==
    /\ Goto(t, "unlock_verify", "idle")
    /\ Release(t)
    /\ IF initialized THEN UNCHANGED mem ELSE key' = Blank /\ unlocked' = FALSE
    /\ raced' = (raced \/ (~initialized /\ Writing))
    /\ UNCHANGED <<typed, disk, draws, password, torn>>

\* lock(): the keys go first, the flag last.
LockKeys(t) ==
    /\ Goto(t, "idle", "lock")
    /\ Acquire(t)
    /\ key' = Blank
    /\ UNCHANGED <<typed, unlocked, disk, draws, password, torn, raced>>

\* Mutant: the flag is not reset.
LockFlagKept(t) ==
    /\ Goto(t, "lock", "idle")
    /\ Release(t)
    /\ raced' = (raced \/ Writing)
    /\ UNCHANGED <<typed, mem, disk, draws, password, torn>>

LockFlag(t) ==
    /\ Goto(t, "lock", "idle")
    /\ Release(t)
    /\ unlocked' = FALSE
    /\ raced' = (raced \/ Writing)
    /\ UNCHANGED <<typed, key, disk, draws, password, torn>>

-----------------------------------------------------------------------------
(* change_password: works on a locked vault too *)

ChangeSalt(t, old, new) ==
    /\ Goto(t, "idle", "rewrap")
    /\ Acquire(t)
    /\ Opens(old)
    /\ Draw(1)
    /\ salt' = draws + 1
    /\ typed' = [typed EXCEPT ![t] = new]
    /\ UNCHANGED <<mem, wrapped, verifier, rows, password, torn, raced>>

\* Mutant: the data key is wrapped with the salt of the old password.
ChangeWrapStale(t) ==
    /\ Goto(t, "rewrap", "idle")
    /\ Release(t)
    /\ wrapped' = [wrapped EXCEPT !.kek = Kek(typed[t], wrapped.kek[2])]
    /\ password' = typed[t]
    /\ typed' = [typed EXCEPT ![t] = None]
    /\ UNCHANGED <<mem, salt, verifier, rows, draws, torn, raced>>

ChangeWrap(t) ==
    /\ Goto(t, "rewrap", "idle")
    /\ Release(t)
    /\ wrapped' = [wrapped EXCEPT !.kek = Kek(typed[t], salt)]
    /\ password' = typed[t]
    /\ typed' = [typed EXCEPT ![t] = None]
    /\ UNCHANGED <<mem, salt, verifier, rows, draws, torn, raced>>

-----------------------------------------------------------------------------
(* Writes of encrypted values *)

Store == rows' = rows \cup {key}

\* Mutant: the vault is not asked whether it is locked.
NeedNothing(t) ==
    /\ Goto(t, "idle", "write")
    /\ UNCHANGED <<typed, holder, mem, disk, draws, password, torn, raced>>

\* create_project, update_project, record_document: _need() comes before the
\* lock is taken.
Need(t) ==
    /\ Goto(t, "idle", "write")
    /\ unlocked
    /\ UNCHANGED <<typed, holder, mem, disk, draws, password, torn, raced>>

\* add_variant and set_canonical of an entity that was fetched before; they have
\* no _need() at all.
FetchEntity(t) ==
    /\ Goto(t, "idle", "write")
    /\ Briefly
    /\ unlocked
    /\ UNCHANGED <<typed, mem, disk, draws, password, torn, raced>>

\* The second half of either.
Write(t) ==
    /\ Goto(t, "write", "idle")
    /\ Briefly
    /\ Store
    /\ UNCHANGED <<typed, mem, salt, wrapped, verifier, draws, password, torn, raced>>

\* add_entity: _load calls _need() under the lock.
AddEntity(t) ==
    /\ pc[t] = "idle"
    /\ Briefly
    /\ unlocked
    /\ Store
    /\ UNCHANGED <<pc, typed, mem, salt, wrapped, verifier, draws, password, torn, raced>>

-----------------------------------------------------------------------------
\* The process dies and is started again: what is on disk is left.
Crash ==
    /\ \E t \in Threads : pc[t] # "idle" \/ unlocked
    /\ pc' = [t \in Threads |-> "idle"]
    /\ typed' = [t \in Threads |-> None]
    /\ holder' = None
    /\ key' = Blank /\ unlocked' = FALSE
    /\ torn' = \/ torn
               \/ initialized /\ \E t \in Threads : pc[t] \in {"rewrap", "init_wrap", "init_verify"}
    /\ UNCHANGED <<disk, draws, password, raced>>

Next ==
    \/ \E t \in Threads :
        \/ \E pw \in Passwords : CheckInitialize(t, pw) \/ Unlock(t, pw)
        \/ \E old, new \in Passwords : ChangeSalt(t, old, new)
        \/ InitializeSalt(t)
        \/ InitializeWrap(t)
        \/ InitializeVerify(t)
        \/ UnlockVerify(t)
        \/ LockKeys(t)
        \/ LockFlag(t)
        \/ ChangeWrap(t)
        \/ Need(t)
        \/ FetchEntity(t)
        \/ Write(t)
        \/ AddEntity(t)
    \/ Crash

Spec == Init /\ [][Next]_vars

-----------------------------------------------------------------------------
(* Properties *)

\* While nobody is inside the lock, the vault is unlocked exactly when the data
\* key it wraps is in memory, and locked exactly when no key is: whichever
\* initialisations, unlocks, password changes and locks have raced.
KeyMatchesFlag ==
    holder = None => key = IF unlocked THEN wrapped.key ELSE Blank

\* The password that was accepted last opens the vault, and it opens it to the
\* key the verifier was made with, unless the process died between two writes of
\* a password change or of a second initialisation.
PasswordOpens ==
    holder = None /\ initialized /\ ~torn => Opens(password) /\ verifier = wrapped.key

\* Every stored value can be decrypted with the vault's own key, across locks,
\* password changes and restarts, unless the vault was locked while a request was
\* between its check and its write, or was initialised twice.
RowsReadable == ~torn /\ ~raced /\ initialized => rows \subseteq {wrapped.key}

\* vaultdb.py:14: "project names, file names, real values and per-document
\* restore maps are all encrypted".  Nothing is stored under the blank key that
\* lock() leaves behind.
NothingUnderBlankKey == Blank \notin rows
===============================================================================
