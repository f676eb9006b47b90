---------------------------- MODULE DesktopServer ----------------------------
(***************************************************************************)
(* The memory of the desktop server: AppState and the routes of             *)
(* desktop/server.py, run_batch over desktop/pipeline.py, and the watchdog  *)
(* of desktop/__main__.py.                                                  *)
(*                                                                          *)
(* Every HTTP request has a thread.  The dictionaries of AppState are       *)
(* shared without a lock: a single dictionary operation is atomic, a test   *)
(* and the operation that follows it are not.  A batch is the list object   *)
(* that uploads append to; run_batch takes it out of the dictionary and     *)
(* iterates over the very same object.  A file is its position in the list, *)
(* and its result is named by the batch and that position.                  *)
(***************************************************************************)
EXTENDS Naturals, Sequences, SequencesExt, FiniteSets, FiniteSetsExt

CONSTANTS
    Threads,      \* request threads
    MAX_RESULTS,  \* results kept in memory: 400 in the code
    IdleExit,     \* --idle-exit was not 0: the watchdog runs
    MaxBatches,   \* bound on the batches created
    MaxFiles,     \* bound on the files uploaded
    MaxLocks,     \* bound on the locks of the vault
    None          \* no batch, no result

ASSUME ServerAssumption ==
    /\ IsFiniteSet(Threads)
    /\ MAX_RESULTS \in Nat /\ IdleExit \in BOOLEAN
    /\ MaxBatches \in Nat /\ MaxFiles \in Nat /\ MaxLocks \in Nat

VARIABLES
    pc,        \* pc[t]: where request t is
    job,       \* job[t]: the batch it works on, or None
    turn,      \* turn[t]: files of the batch it has iterated over
    victim,    \* victim[t]: the result it is about to drop, or None
    made,      \* batches created so far; a batch is its number
    lists,     \* lists[b]: length of the list object of batch b
    batches,   \* keys of app.batches
    results,   \* keys of app.results, oldest first
    unlocked,  \* the vault is unlocked
    window,    \* the window is "open" or "closed"
    seen,      \* seen_ui
    silent,    \* last_seen is longer ago than --idle-exit
    server,    \* "up", "stopping" after httpd.shutdown(), "down"
    locks,     \* observed: locks so far
    acked,     \* observed: acked[b]: uploads answered 200
    replied,   \* observed: replied[b]: files iterated over when run_batch answered, or None
    stored,    \* observed: results stored since memory was last cleared
    overlap    \* observed: a lock met a batch that was running

Batches == 1 .. MaxBatches

request  == <<pc, job, turn, victim>>
uploads  == <<made, lists, batches>>
life     == <<window, seen, silent, server>>
observed == <<locks, acked, replied, stored, overlap>>
vars     == <<pc, job, turn, victim, made, lists, batches, results, unlocked,
              window, seen, silent, server, locks, acked, replied, stored, overlap>>

Init ==
    /\ pc = [t \in Threads |-> "idle"]
    /\ job = [t \in Threads |-> None]
    /\ turn = [t \in Threads |-> 0]
    /\ victim = [t \in Threads |-> None]
    /\ made = 0
    /\ lists = [b \in Batches |-> 0]
    /\ batches = {}
    /\ results = << >>
    /\ unlocked = FALSE
    /\ window = "open" /\ seen = FALSE /\ silent = FALSE
    /\ server = "up"
    /\ locks = 0
    /\ acked = [b \in Batches |-> {}]
    /\ replied = [b \in Batches |-> None]
    /\ stored = << >>
    /\ overlap = FALSE

\* Files uploaded so far.
Uploaded == MapThenSumSet(LAMBDA b : lists[b], Batches)

Goto(t, l) == pc' = [pc EXCEPT ![t] = l]

\* The request is over, with an answer or with an error.
Leave(t) ==
    /\ Goto(t, "idle")
    /\ job' = [job EXCEPT ![t] = None]
    /\ turn' = [turn EXCEPT ![t] = 0]
    /\ victim' = [victim EXCEPT ![t] = None]

\* _dispatch: a request of the window arrives, and last_seen is renewed.
Dispatch(t) ==
    /\ pc[t] = "idle"
    /\ window = "open" /\ server = "up"
    /\ seen' = TRUE /\ silent' = FALSE
    /\ UNCHANGED <<window, server>>

\* Some thread is inside run_batch.
Running == \E t \in Threads : pc[t] \in {"prescan", "files", "store", "trim", "drop"}

-----------------------------------------------------------------------------
(* Uploads: they do not ask whether the vault is unlocked *)

NewBatch(t) ==
    /\ Dispatch(t)
    /\ made < MaxBatches
    /\ made' = made + 1
    /\ batches' = batches \cup {made + 1}
    /\ UNCHANGED <<request, lists, results, unlocked, observed>>

\* The batch is known, and app.batches[bid] has been looked up; the body of the
\* file is then read from the connection.
PutFile(t, b) ==
    /\ Dispatch(t)
    /\ b \in batches
    /\ Uploaded < MaxFiles
    /\ Goto(t, "append")
    /\ job' = [job EXCEPT ![t] = b]
    /\ UNCHANGED <<turn, victim, uploads, results, unlocked, observed>>

\* The list object grows, whoever has it now.
AppendFile(t) ==
    /\ pc[t] = "append"
    /\ Uploaded < MaxFiles
    /\ lists' = [lists EXCEPT ![job[t]] = @ + 1]
    /\ Goto(t, "ack")
    /\ turn' = [turn EXCEPT ![t] = lists[job[t]] + 1]
    /\ UNCHANGED <<job, victim, made, batches, results, unlocked, life, observed>>

\* The connection breaks off, or two uploads have met the bound.
UploadFails(t) ==
    /\ pc[t] = "append"
    /\ Leave(t)
    /\ UNCHANGED <<uploads, results, unlocked, life, observed>>

\* Mutant: the answer does not look at the batch again.
AckAlways(t) ==
    /\ pc[t] = "ack"
    /\ acked' = [acked EXCEPT ![job[t]] = @ \cup {turn[t]}]
    /\ Leave(t)
    /\ UNCHANGED <<uploads, results, unlocked, life, locks, replied, stored, overlap>>

\* The answer counts the files of app.batches[bid]: a KeyError when the batch has
\* been taken meanwhile.
Ack(t) ==
    /\ pc[t] = "ack"
    /\ acked' = IF job[t] \in batches THEN [acked EXCEPT ![job[t]] = @ \cup {turn[t]}] ELSE acked
    /\ Leave(t)
    /\ UNCHANGED <<uploads, results, unlocked, life, locks, replied, stored, overlap>>

-----------------------------------------------------------------------------
(* run_batch *)

\* get_project needs the vault; then the batch is taken, once.  An empty one is an
\* error, and is gone all the same.
TakeBatch(t, b, direction) ==
    /\ Dispatch(t)
    /\ unlocked
    /\ b \in batches
    /\ batches' = batches \ {b}
    /\ IF lists[b] = 0 THEN UNCHANGED <<pc, job>>
       ELSE /\ Goto(t, IF direction = "anonymize" THEN "prescan" ELSE "files")
            /\ job' = [job EXCEPT ![t] = b]
    /\ UNCHANGED <<turn, victim, made, lists, results, unlocked, observed>>

\* make_demo: run_batch over the files of the demonstration, in a new project.
Demo(t) ==
    /\ Dispatch(t)
    /\ unlocked
    /\ made < MaxBatches
    /\ made' = made + 1
    /\ \E n \in 1 .. MaxFiles : Uploaded + n = MaxFiles /\ lists' = [lists EXCEPT ![made + 1] = n]
    /\ Goto(t, "prescan")
    /\ job' = [job EXCEPT ![t] = made + 1]
    /\ UNCHANGED <<turn, victim, batches, results, unlocked, observed>>

\* prescan_files over the whole batch.  Only OcrUnavailable is caught: a locked
\* vault or a broken file ends the request, and the batch is lost.
Prescan(t) ==
    /\ pc[t] = "prescan"
    /\ \/ unlocked /\ Goto(t, "files") /\ UNCHANGED <<job, turn, victim>>
       \/ Leave(t)
    /\ UNCHANGED <<uploads, results, unlocked, life, observed>>

\* anonymize_file or restore_file of the next file.  It succeeds only if the vault
\* is unlocked when it records the document; every exception is caught.
ProcessFile(t) ==
    /\ pc[t] = "files"
    /\ turn[t] < lists[job[t]]
    /\ turn' = [turn EXCEPT ![t] = @ + 1]
    /\ \/ unlocked /\ Goto(t, "store")
       \/ UNCHANGED pc
    /\ UNCHANGED <<job, victim, uploads, results, unlocked, life, observed>>

\* app.results[rid] = ...
StoreResult(t) ==
    /\ pc[t] = "store"
    /\ results' = Append(results, <<job[t], turn[t]>>)
    /\ stored' = Append(stored, <<job[t], turn[t]>>)
    /\ Goto(t, "files")
    /\ UNCHANGED <<job, turn, victim, uploads, unlocked, life, locks, acked, replied, overlap>>

EndOfList(t) ==
    /\ pc[t] = "files"
    /\ turn[t] >= lists[job[t]]
    /\ Goto(t, "trim")
    /\ UNCHANGED <<job, turn, victim, uploads, results, unlocked, life, observed>>

\* Mutant: one result too many is taken to fit.
TooManyButOne == Len(results) > MAX_RESULTS + 1

\* Mutant: the limit is taken for a number that must not be reached.
AtLimit == Len(results) >= MAX_RESULTS

TooMany == Len(results) > MAX_RESULTS

\* The test of the while loop.
Trim(t) ==
    /\ pc[t] = "trim"
    /\ TooMany
    /\ Goto(t, "drop")
    /\ UNCHANGED <<job, turn, victim, uploads, results, unlocked, life, observed>>

\* next(iter(app.results)): the oldest.  StopIteration when memory was cleared.
PickOldest(t) ==
    /\ pc[t] = "drop" /\ victim[t] = None
    /\ IF results = << >> THEN Leave(t)
       ELSE victim' = [victim EXCEPT ![t] = Head(results)] /\ UNCHANGED <<pc, job, turn>>
    /\ UNCHANGED <<uploads, results, unlocked, life, observed>>

\* app.results.pop: a KeyError ends the request when another one has dropped it.
DropOldest(t) ==
    /\ pc[t] = "drop" /\ victim[t] # None
    /\ results' = RemoveFirst(results, victim[t])
    /\ IF results' = results THEN Leave(t)
       ELSE /\ victim' = [victim EXCEPT ![t] = None]
            /\ Goto(t, "trim")
            /\ UNCHANGED <<job, turn>>
    /\ UNCHANGED <<uploads, unlocked, life, observed>>

\* The answer, with the project: an error when the vault is locked by now.
Reply(t) ==
    /\ pc[t] = "trim"
    /\ ~TooMany
    /\ replied' = IF unlocked THEN [replied EXCEPT ![job[t]] = turn[t]] ELSE replied
    /\ Leave(t)
    /\ UNCHANGED <<uploads, results, unlocked, life, locks, acked, stored, overlap>>

-----------------------------------------------------------------------------
(* Unlocking and locking *)

Unlock(t) ==
    /\ Dispatch(t)
    /\ unlocked' = TRUE
    /\ UNCHANGED <<request, uploads, results, observed>>

\* v.lock(), then clear_memory, which clears one dictionary after the other.
LockVault(t) ==
    /\ Dispatch(t)
    /\ locks < MaxLocks
    /\ locks' = locks + 1
    /\ unlocked' = FALSE
    /\ Goto(t, "clear_batches")
    /\ overlap' = (overlap \/ Running)
    /\ UNCHANGED <<job, turn, victim, uploads, results, acked, replied, stored>>

ClearBatches(t) ==
    /\ pc[t] = "clear_batches"
    /\ batches' = {}
    /\ Goto(t, "clear_results")
    /\ UNCHANGED <<job, turn, victim, made, lists, results, unlocked, life, observed>>

\* Mutant: only the uploads are cleared.
ClearNoResults(t) ==
    /\ pc[t] = "clear_results"
    /\ Leave(t)
    /\ UNCHANGED <<uploads, results, unlocked, life, observed>>

ClearResults(t) ==
    /\ pc[t] = "clear_results"
    /\ results' = << >>
    /\ stored' = << >>
    /\ Leave(t)
    /\ UNCHANGED <<uploads, unlocked, life, locks, acked, replied, overlap>>

-----------------------------------------------------------------------------
(* The end *)

CloseWindow ==
    /\ window = "open"
    /\ window' = "closed"
    /\ UNCHANGED <<request, uploads, results, unlocked, seen, silent, server, observed>>

\* Heartbeats keep an open window from being silent; a closed one sends none.
Silence ==
    /\ window = "closed" /\ server = "up"
    /\ ~silent
    /\ silent' = TRUE
    /\ UNCHANGED <<request, uploads, results, unlocked, window, seen, server, observed>>

\* Mutant: the watchdog locks the vault and goes on.
WatchdogLocks ==
    /\ server = "up"
    /\ IdleExit /\ seen /\ silent
    /\ unlocked
    /\ unlocked' = FALSE
    /\ UNCHANGED <<request, uploads, results, life, observed>>

\* The watchdog locks the vault and stops the server.
Watchdog ==
    /\ server = "up"
    /\ IdleExit /\ seen /\ silent
    /\ unlocked' = FALSE
    /\ server' = "stopping"
    /\ UNCHANGED <<request, uploads, results, window, seen, silent, observed>>

\* POST quit: _shutdown_later does the same a moment later, and the window closes.
Quit ==
    /\ server = "up" /\ window = "open" /\ seen
    /\ window' = "closed"
    /\ unlocked' = FALSE
    /\ server' = "stopping"
    /\ UNCHANGED <<request, uploads, results, seen, silent, observed>>

\* serve_forever returns, main locks the vault and ends.  Request threads are
\* daemons: they end with the process, and its memory with them.
Exit ==
    /\ server = "stopping"
    /\ server' = "down"
    /\ pc' = [t \in Threads |-> "idle"]
    /\ job' = [t \in Threads |-> None]
    /\ turn' = [t \in Threads |-> 0]
    /\ victim' = [t \in Threads |-> None]
    /\ lists' = [b \in Batches |-> 0]
    /\ batches' = {}
    /\ results' = << >>
    /\ unlocked' = FALSE
    /\ acked' = [b \in Batches |-> {}]
    /\ replied' = [b \in Batches |-> None]
    /\ stored' = << >>
    /\ UNCHANGED <<made, window, seen, silent, locks, overlap>>

Next ==
    \/ \E t \in Threads :
        \/ NewBatch(t)
        \/ \E b \in Batches : PutFile(t, b)
        \/ AppendFile(t)
        \/ UploadFails(t)
        \/ Ack(t)
        \/ \E b \in Batches, d \in {"anonymize", "restore"} : TakeBatch(t, b, d)
        \/ Demo(t)
        \/ Prescan(t)
        \/ ProcessFile(t)
        \/ StoreResult(t)
        \/ EndOfList(t)
        \/ Trim(t)
        \/ PickOldest(t)
        \/ DropOldest(t)
        \/ Reply(t)
        \/ Unlock(t)
        \/ LockVault(t)
        \/ ClearBatches(t)
        \/ ClearResults(t)
    \/ CloseWindow
    \/ Silence
    \/ Watchdog
    \/ Quit
    \/ Exit

\* Time passes, the watchdog thread wakes up every five seconds, and
\* httpd.shutdown() ends the loop of serve_forever.
Fairness == WF_vars(Silence) /\ WF_vars(Watchdog) /\ WF_vars(Exit)

Spec == Init /\ [][Next]_vars /\ Fairness

-----------------------------------------------------------------------------
(* Properties *)

Labels == {"idle", "append", "ack", "prescan", "files", "store", "trim", "drop",
           "clear_batches", "clear_results"}

Quiet == \A t \in Threads : pc[t] = "idle"

\* An upload that was answered 200 is not forgotten: when the batch has been run
\* and answered, the file was among those iterated over, also when it arrived
\* while the batch was being taken (the PUT and anonymize routes).
AckedIsProcessed ==
    \A b \in Batches : replied[b] # None => \A i \in acked[b] : i <= replied[b]

\* When no request is in progress, memory holds no more than MAX_RESULTS results,
\* although a request that loses the race for the oldest one gives up trimming
\* (run_batch: "keep memory bounded").
ResultsBounded == Quiet => Len(results) <= MAX_RESULTS

\* Trimming drops the oldest results only, and leaves MAX_RESULTS of them, less one
\* for each other request that trims at the same time.  A request that had found too
\* many results when the vault was locked goes on to drop the oldest of what was
\* stored since, however few they are: one each is lost (run_batch, clear_memory).
NewestKept ==
    /\ IsSuffix(results, stored)
    /\ \/ Len(results) + Cardinality(Threads) > MAX_RESULTS
       \/ IF locks = 0 THEN results = stored
          ELSE Len(stored) <= Len(results) + Cardinality(Threads)

\* A locked vault leaves no result in memory, unless a batch was running when it was
\* locked (clear_memory).
LockedIsEmpty == ~unlocked /\ server = "up" /\ Quiet /\ ~overlap => results = << >>

\* Once the window is closed the process ends, whatever requests are in progress
\* (watchdog).
IdleServerStops == (IdleExit /\ window = "closed" /\ seen) ~> (server = "down")
===============================================================================
