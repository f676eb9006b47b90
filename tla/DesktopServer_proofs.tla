------------------------- MODULE DesktopServer_proofs -------------------------
(***************************************************************************)
(* AckedIsProcessed, LockedIsEmpty, ResultsBounded and NewestKept for any   *)
(* number of threads, batches, files and locks.  Uploads and run_batch      *)
(* share a list object without a lock; what keeps an answered file from     *)
(* being forgotten is that the answer looks the batch up once more, and a   *)
(* batch is taken only once.  Requests trim the results without a lock,     *)
(* too: each drops what it has found to be too many.                        *)
(***************************************************************************)
EXTENDS DesktopServer, FiniteSetTheorems, SequenceTheorems, TLAPS

InRun == {"prescan", "files", "store", "trim", "drop"}

TypeOK ==
    /\ pc \in [Threads -> Labels]
    /\ job \in [Threads -> Batches \cup {None}]
    /\ turn \in [Threads -> Nat]
    /\ made \in 0 .. MaxBatches
    /\ lists \in [Batches -> Nat]
    /\ batches \in SUBSET (1 .. made)
    /\ acked \in [Batches -> SUBSET Nat]
    /\ replied \in [Batches -> Nat \cup {None}]

\* A request works on a batch that exists; one that runs a batch has taken it.
Taken ==
    \A t \in Threads :
        /\ pc[t] \in InRun \cup {"append", "ack"} => job[t] \in 1 .. made
        /\ pc[t] \in InRun => job[t] \notin batches

\* An answer is about a file that is in the list, and the loop over the list ends
\* after every file that was answered.
Listed ==
    /\ \A t \in Threads : pc[t] = "ack" => turn[t] <= lists[job[t]]
    /\ \A b \in Batches : \A i \in acked[b] : i <= lists[b] /\ b <= made
    /\ \A t \in Threads : pc[t] \in {"trim", "drop"} => \A i \in acked[job[t]] : i <= turn[t]

\* A batch that can still be answered for has not been run.
Open == \A b \in Batches : b \in batches \/ b > made => replied[b] = None

IInv == TypeOK /\ Taken /\ Listed /\ Open /\ AckedIsProcessed

\* The empty server.
LEMMA InitHolds == Init => IInv
  BY ServerAssumption DEF Init, IInv, TypeOK, Taken, Listed, Open, AckedIsProcessed, Labels, InRun, Batches

-----------------------------------------------------------------------------
(* Uploads *)

\* A batch nobody works on yet.
LEMMA NewBatchKeeps == ASSUME IInv, NEW t \in Threads, NewBatch(t) PROVE IInv'
<1>1. /\ made' = made + 1 /\ made' \in 0 .. MaxBatches /\ batches' = batches \cup {made'}
      /\ UNCHANGED <<pc, job, turn, lists, acked, replied>>
  BY ServerAssumption DEF NewBatch, request, observed, IInv, TypeOK
<1>2. TypeOK'
  BY <1>1 DEF IInv, TypeOK
<1>3. Taken' /\ Listed'
  BY <1>1 DEF IInv, TypeOK, Taken, Listed, Batches
<1>4. Open' /\ AckedIsProcessed'
  BY <1>1, ServerAssumption DEF IInv, TypeOK, Open, AckedIsProcessed, Batches
<1> QED BY <1>2, <1>3, <1>4 DEF IInv

\* The batch is looked up, nothing has changed yet.
LEMMA PutFileKeeps == ASSUME IInv, NEW t \in Threads, NEW b \in Batches, PutFile(t, b) PROVE IInv'
<1>1. /\ b \in 1 .. made
      /\ pc' = [pc EXCEPT ![t] = "append"] /\ job' = [job EXCEPT ![t] = b]
      /\ UNCHANGED <<turn, made, lists, batches, acked, replied>>
  BY DEF PutFile, Goto, uploads, observed, IInv, TypeOK
<1>2. TypeOK'
  BY <1>1 DEF IInv, TypeOK, Labels
<1>3. Taken'
  BY <1>1 DEF IInv, TypeOK, Taken, InRun
<1>4. Listed'
  BY <1>1 DEF IInv, TypeOK, Listed
<1>5. Open' /\ AckedIsProcessed'
  BY <1>1 DEF IInv, Open, AckedIsProcessed
<1> QED BY <1>2, <1>3, <1>4, <1>5 DEF IInv

\* The list object only grows, whoever iterates over it.
LEMMA AppendFileKeeps == ASSUME IInv, NEW t \in Threads, AppendFile(t) PROVE IInv'
<1>1. /\ pc[t] = "append" /\ job[t] \in Batches
      /\ pc' = [pc EXCEPT ![t] = "ack"] /\ lists' = [lists EXCEPT ![job[t]] = lists[job[t]] + 1]
      /\ turn' = [turn EXCEPT ![t] = lists[job[t]] + 1]
      /\ UNCHANGED <<job, made, batches, acked, replied>>
  BY ServerAssumption DEF AppendFile, Goto, observed, IInv, TypeOK, Taken, Batches
<1>2. TypeOK'
  BY <1>1 DEF IInv, TypeOK, Labels
<1>3. Taken'
  BY <1>1 DEF IInv, TypeOK, Taken, InRun
<1>4. Listed'
  <2>1. \A b \in Batches : lists[b] \in Nat /\ lists'[b] \in Nat /\ lists[b] <= lists'[b]
    BY <1>1 DEF IInv, TypeOK
  <2>2. lists'[job[t]] = lists[job[t]] + 1
    BY <1>1 DEF IInv, TypeOK
  <2>3. ASSUME NEW u \in Threads, pc'[u] = "ack" PROVE turn'[u] <= lists'[job'[u]]
    <3>1. CASE u = t
      BY <1>1, <2>1, <2>2, <3>1 DEF IInv, TypeOK
    <3>2. CASE u # t
      <4>1. pc[u] = "ack" /\ turn'[u] = turn[u] /\ job'[u] = job[u] /\ turn[u] \in Nat
        BY <1>1, <2>3, <3>2 DEF IInv, TypeOK
      <4>2. job[u] \in Batches /\ turn[u] <= lists[job[u]]
        BY <4>1, ServerAssumption DEF IInv, TypeOK, Taken, Listed, Batches
      <4> QED BY <2>1, <4>1, <4>2
    <3> QED BY <3>1, <3>2
  <2>4. \A b \in Batches : \A i \in acked'[b] : i <= lists'[b] /\ b <= made'
    BY <1>1, <2>1 DEF IInv, TypeOK, Listed
  <2>5. \A u \in Threads : pc'[u] \in {"trim", "drop"} => \A i \in acked'[job'[u]] : i <= turn'[u]
    BY <1>1 DEF IInv, TypeOK, Listed
  <2> QED BY <2>3, <2>4, <2>5 DEF Listed
<1>5. Open' /\ AckedIsProcessed'
  BY <1>1 DEF IInv, Open, AckedIsProcessed
<1> QED BY <1>2, <1>3, <1>4, <1>5 DEF IInv

\* The answer counts only while the batch is still there to be taken.
LEMMA AckKeeps == ASSUME IInv, NEW t \in Threads, Ack(t) PROVE IInv'
<1>1. /\ pc[t] = "ack" /\ job[t] \in Batches /\ job[t] \in 1 .. made /\ turn[t] <= lists[job[t]] /\ turn[t] \in Nat
      /\ acked' = IF job[t] \in batches THEN [acked EXCEPT ![job[t]] = acked[job[t]] \cup {turn[t]}] ELSE acked
      /\ pc' = [pc EXCEPT ![t] = "idle"] /\ job' = [job EXCEPT ![t] = None] /\ turn' = [turn EXCEPT ![t] = 0]
      /\ UNCHANGED <<made, lists, batches, replied>>
  BY ServerAssumption DEF Ack, Leave, Goto, uploads, IInv, TypeOK, Taken, Listed, Batches
<1>2. TypeOK'
  BY <1>1 DEF IInv, TypeOK, Labels
<1>3. Taken'
  BY <1>1 DEF IInv, TypeOK, Taken, InRun
<1>4. \A b \in Batches \ batches : acked'[b] = acked[b]
  BY <1>1 DEF IInv, TypeOK
<1>5. Listed'
  <2>1. \A u \in Threads : pc'[u] = "ack" => turn'[u] <= lists'[job'[u]]
    BY <1>1 DEF IInv, TypeOK, Listed
  <2>2. \A b \in Batches : \A i \in acked'[b] : i <= lists'[b] /\ b <= made'
    BY <1>1 DEF IInv, TypeOK, Listed
  <2>3. ASSUME NEW u \in Threads, pc'[u] \in {"trim", "drop"} PROVE \A i \in acked'[job'[u]] : i <= turn'[u]
    <3>1. u # t /\ pc[u] \in {"trim", "drop"} /\ job'[u] = job[u] /\ turn'[u] = turn[u]
      BY <1>1, <2>3 DEF IInv, TypeOK
    <3>2. job[u] \in Batches \ batches
      BY <3>1, ServerAssumption DEF IInv, TypeOK, Taken, InRun, Batches
    <3> QED BY <1>4, <3>1, <3>2 DEF IInv, Listed
  <2> QED BY <2>1, <2>2, <2>3 DEF Listed
<1>6. Open'
  BY <1>1 DEF IInv, Open
<1>7. AckedIsProcessed'
  BY <1>1, <1>4 DEF IInv, Open, AckedIsProcessed
<1> QED BY <1>2, <1>3, <1>5, <1>6, <1>7 DEF IInv

-----------------------------------------------------------------------------
(* run_batch *)

\* Only one request gets a batch, and from then on no answer counts for it.
LEMMA TakeBatchKeeps ==
    ASSUME IInv, NEW t \in Threads, NEW b \in Batches, NEW d, TakeBatch(t, b, d)
    PROVE  IInv'
<1>1. /\ b \in 1 .. made /\ batches' = batches \ {b}
      /\ UNCHANGED <<turn, made, lists, acked, replied>>
  BY DEF TakeBatch, observed, IInv, TypeOK
<1>2. \/ UNCHANGED <<pc, job>>
      \/ \E l \in {"prescan", "files"} : pc' = [pc EXCEPT ![t] = l] /\ job' = [job EXCEPT ![t] = b]
  BY DEF TakeBatch, Goto
<1>3. TypeOK'
  BY <1>1, <1>2 DEF IInv, TypeOK, Labels
<1>4. Taken'
  BY <1>1, <1>2 DEF IInv, TypeOK, Taken, InRun
<1>5. Listed'
  BY <1>1, <1>2 DEF IInv, TypeOK, Listed
<1>6. Open' /\ AckedIsProcessed'
  BY <1>1 DEF IInv, Open, AckedIsProcessed
<1> QED BY <1>3, <1>4, <1>5, <1>6 DEF IInv

\* The demonstration has a batch of its own, which nobody can upload to.
LEMMA DemoKeeps == ASSUME IInv, NEW t \in Threads, Demo(t) PROVE IInv'
<1>1. /\ made' = made + 1 /\ made' \in 0 .. MaxBatches /\ made' \in Batches
      /\ pc' = [pc EXCEPT ![t] = "prescan"] /\ job' = [job EXCEPT ![t] = made']
      /\ UNCHANGED <<turn, batches, acked, replied>>
  BY ServerAssumption DEF Demo, Goto, observed, IInv, TypeOK, Batches
<1>2. PICK n \in Nat : lists' = [lists EXCEPT ![made'] = n]
  <2>1. PICK n \in 1 .. MaxFiles : lists' = [lists EXCEPT ![made + 1] = n]
    BY Zenon DEF Demo
  <2>2. n \in Nat
    BY ServerAssumption
  <2> QED BY <1>1, <2>1, <2>2
<1>3. TypeOK'
  BY <1>1, <1>2 DEF IInv, TypeOK, Labels
<1>4. Taken'
  BY <1>1 DEF IInv, TypeOK, Taken, InRun
<1>5. Listed'
  <2>1. \A u \in Threads : pc'[u] = "ack" => u # t /\ pc[u] = "ack" /\ job'[u] = job[u] /\ job[u] \in 1 .. made
    BY <1>1 DEF IInv, TypeOK, Taken
  <2>2. \A u \in Threads : pc'[u] = "ack" => turn'[u] <= lists'[job'[u]]
    BY <1>1, <1>2, <2>1, ServerAssumption DEF IInv, TypeOK, Listed, Batches
  <2>3. \A b \in Batches : \A i \in acked'[b] : i <= lists'[b] /\ b <= made'
    BY <1>1, <1>2 DEF IInv, TypeOK, Listed, Batches
  <2>4. \A u \in Threads : pc'[u] \in {"trim", "drop"} => \A i \in acked'[job'[u]] : i <= turn'[u]
    BY <1>1 DEF IInv, TypeOK, Listed
  <2> QED BY <2>2, <2>3, <2>4 DEF Listed
<1>6. Open' /\ AckedIsProcessed'
  BY <1>1 DEF IInv, TypeOK, Open, AckedIsProcessed, Batches
<1> QED BY <1>3, <1>4, <1>5, <1>6 DEF IInv

\* A request goes on with its batch, or is over.
LEMMA MoveKeeps ==
    ASSUME IInv, NEW t \in Threads, NEW l \in Labels, NEW n \in Nat,
           pc' = [pc EXCEPT ![t] = l], turn' = [turn EXCEPT ![t] = n],
           \/ l \notin InRun \cup {"append", "ack"} /\ job' = [job EXCEPT ![t] = None]
           \/ l \in InRun /\ pc[t] \in InRun /\ job' = job,
           l \in {"trim", "drop"} => \A i \in acked[job[t]] : i <= n,
           UNCHANGED <<made, lists, batches, acked, replied>>
    PROVE  IInv'
<1>1. TypeOK'
  BY DEF IInv, TypeOK
<1>2. Taken'
  BY DEF IInv, TypeOK, Taken, InRun
<1>3. Listed'
  BY DEF IInv, TypeOK, Listed, InRun
<1>4. Open' /\ AckedIsProcessed'
  BY DEF IInv, Open, AckedIsProcessed
<1> QED BY <1>1, <1>2, <1>3, <1>4 DEF IInv

\* The request ends, with an error.
LEMMA LeaveKeeps ==
    ASSUME IInv, NEW t \in Threads, Leave(t), UNCHANGED <<made, lists, batches, acked, replied>>
    PROVE  IInv'
<1>1. /\ pc' = [pc EXCEPT ![t] = "idle"] /\ turn' = [turn EXCEPT ![t] = 0] /\ job' = [job EXCEPT ![t] = None]
      /\ "idle" \in Labels /\ "idle" \notin InRun \cup {"append", "ack"} /\ "idle" \notin {"trim", "drop"} /\ 0 \in Nat
  BY DEF Leave, Goto, Labels, InRun
<1> QED BY <1>1, MoveKeeps

\* Steps of the loop over the files.
LEMMA LoopKeeps ==
    ASSUME IInv, NEW t \in Threads, Prescan(t) \/ ProcessFile(t) \/ StoreResult(t) \/ EndOfList(t)
    PROVE  IInv'
<1>1. UNCHANGED <<made, lists, batches, acked, replied>>
  BY DEF Prescan, ProcessFile, StoreResult, EndOfList, uploads, observed
<1>2. CASE Leave(t)
  BY <1>1, <1>2, LeaveKeeps
<1>3. CASE ~Leave(t)
  <2>1. /\ pc[t] \in InRun /\ job' = job /\ turn[t] \in Nat
        /\ pc[t] \in Labels /\ turn = [turn EXCEPT ![t] = turn[t]] /\ pc = [pc EXCEPT ![t] = pc[t]]
    BY <1>3 DEF Prescan, ProcessFile, StoreResult, EndOfList, InRun, IInv, TypeOK
  <2>2. CASE Prescan(t) \/ StoreResult(t)
    <3>1. pc' = [pc EXCEPT ![t] = "files"] /\ turn' = turn
      BY <1>3, <2>2 DEF Prescan, StoreResult, Goto
    <3>2. "files" \in Labels /\ "files" \in InRun /\ "files" \notin {"trim", "drop"}
      BY DEF Labels, InRun
    <3> QED BY <1>1, <2>1, <3>1, <3>2, MoveKeeps
  <2>3. CASE ProcessFile(t)
    <3>1. PICK l \in {"files", "store"} : pc' = [pc EXCEPT ![t] = l]
      BY <2>1, <2>3 DEF ProcessFile, Goto
    <3>2. turn' = [turn EXCEPT ![t] = turn[t] + 1] /\ turn[t] + 1 \in Nat
      BY <2>1, <2>3 DEF ProcessFile
    <3>3. l \in Labels /\ l \in InRun /\ l \notin {"trim", "drop"}
      BY DEF Labels, InRun
    <3> QED BY <1>1, <2>1, <3>1, <3>2, <3>3, MoveKeeps
  <2>4. CASE EndOfList(t)
    <3>1. pc' = [pc EXCEPT ![t] = "trim"] /\ turn' = turn /\ turn[t] >= lists[job[t]]
      BY <2>4 DEF EndOfList, Goto
    <3>2. job[t] \in Batches
      BY <2>1, ServerAssumption DEF IInv, TypeOK, Taken, Batches
    <3>3. \A i \in acked[job[t]] : i <= turn[t]
      BY <2>1, <3>1, <3>2 DEF IInv, TypeOK, Listed
    <3>4. "trim" \in Labels /\ "trim" \in InRun
      BY DEF Labels, InRun
    <3> QED BY <1>1, <2>1, <3>1, <3>3, <3>4, MoveKeeps
  <2> QED BY <2>2, <2>3, <2>4
<1> QED BY <1>2, <1>3

\* Steps of the loop that trims the results.
LEMMA TrimKeeps ==
    ASSUME IInv, NEW t \in Threads, Trim(t) \/ PickOldest(t) \/ DropOldest(t)
    PROVE  IInv'
<1>1. UNCHANGED <<made, lists, batches, acked, replied>>
  BY DEF Trim, PickOldest, DropOldest, uploads, observed
<1>2. CASE Leave(t)
  BY <1>1, <1>2, LeaveKeeps
<1>3. CASE ~Leave(t)
  <2>1. /\ pc[t] \in {"trim", "drop"} /\ job' = job /\ turn' = turn /\ turn[t] \in Nat
        /\ turn = [turn EXCEPT ![t] = turn[t]] /\ pc = [pc EXCEPT ![t] = pc[t]]
    BY <1>3 DEF Trim, PickOldest, DropOldest, IInv, TypeOK
  <2>2. PICK l \in {"trim", "drop"} : pc' = [pc EXCEPT ![t] = l]
    BY <1>3, <2>1 DEF Trim, PickOldest, DropOldest, Goto
  <2>3. \A i \in acked[job[t]] : i <= turn[t]
    BY <2>1 DEF IInv, Listed
  <2>4. l \in Labels /\ l \in InRun /\ pc[t] \in InRun
    BY <2>1 DEF Labels, InRun
  <2> QED BY <1>1, <2>1, <2>2, <2>3, <2>4, MoveKeeps
<1> QED BY <1>2, <1>3

\* The answer names as many files as the loop has met.
LEMMA ReplyKeeps == ASSUME IInv, NEW t \in Threads, Reply(t) PROVE IInv'
<1>1. /\ pc[t] = "trim" /\ turn[t] \in Nat /\ job[t] \in Batches /\ job[t] \in 1 .. made /\ job[t] \notin batches
      /\ \A i \in acked[job[t]] : i <= turn[t]
  BY ServerAssumption DEF Reply, IInv, TypeOK, Taken, Listed, InRun, Batches
<1>2. /\ replied' = replied \/ replied' = [replied EXCEPT ![job[t]] = turn[t]]
      /\ pc' = [pc EXCEPT ![t] = "idle"] /\ turn' = [turn EXCEPT ![t] = 0] /\ job' = [job EXCEPT ![t] = None]
      /\ UNCHANGED <<made, lists, batches, acked>>
  BY DEF Reply, Leave, Goto, uploads
<1>3. TypeOK'
  BY <1>1, <1>2 DEF IInv, TypeOK, Labels
<1>4. Taken' /\ Listed'
  BY <1>2 DEF IInv, TypeOK, Taken, Listed, InRun
<1>5. Open'
  BY <1>1, <1>2 DEF IInv, TypeOK, Open
<1>6. AckedIsProcessed'
  BY <1>1, <1>2 DEF IInv, TypeOK, AckedIsProcessed
<1> QED BY <1>3, <1>4, <1>5, <1>6 DEF IInv

-----------------------------------------------------------------------------
\* Locking and unlocking; a lock forgets the uploads.
LEMMA LockingKeeps ==
    ASSUME IInv, NEW t \in Threads, Unlock(t) \/ LockVault(t) \/ ClearBatches(t) \/ ClearResults(t) \/ UploadFails(t)
    PROVE  IInv'
<1>1. CASE Unlock(t)
  BY <1>1 DEF Unlock, request, uploads, observed, IInv, TypeOK, Taken, Listed, Open, AckedIsProcessed
<1>2. CASE LockVault(t)
  <2>1. pc[t] = "idle" /\ pc' = [pc EXCEPT ![t] = "clear_batches"] /\ UNCHANGED <<job, turn, made, lists, batches, acked, replied>>
    BY <1>2 DEF LockVault, Dispatch, Goto, uploads
  <2>2. TypeOK' /\ Taken'
    BY <2>1 DEF IInv, TypeOK, Taken, Labels, InRun
  <2>3. Listed' /\ Open' /\ AckedIsProcessed'
    BY <2>1 DEF IInv, TypeOK, Listed, Open, AckedIsProcessed
  <2> QED BY <2>2, <2>3 DEF IInv
<1>3. CASE ClearBatches(t)
  <2>1. batches' = {} /\ pc' = [pc EXCEPT ![t] = "clear_results"] /\ UNCHANGED <<job, turn, made, lists, acked, replied>>
    BY <1>3 DEF ClearBatches, Goto, observed
  <2>2. TypeOK' /\ Taken'
    BY <2>1 DEF IInv, TypeOK, Taken, Labels, InRun
  <2>3. Listed' /\ Open' /\ AckedIsProcessed'
    BY <2>1 DEF IInv, TypeOK, Listed, Open, AckedIsProcessed
  <2> QED BY <2>2, <2>3 DEF IInv
<1>4. CASE ClearResults(t) \/ UploadFails(t)
  BY <1>4, LeaveKeeps DEF ClearResults, UploadFails, uploads, observed
<1> QED BY <1>1, <1>2, <1>3, <1>4

\* The end of the process, and steps that no request takes.
LEMMA LifeKeeps ==
    ASSUME IInv, CloseWindow \/ Silence \/ Watchdog \/ Quit \/ Exit \/ UNCHANGED vars
    PROVE  IInv'
<1>1. CASE Exit
  <2>1. /\ pc' = [t \in Threads |-> "idle"] /\ job' = [t \in Threads |-> None] /\ turn' = [t \in Threads |-> 0]
        /\ made' = made /\ lists' = [b \in Batches |-> 0] /\ batches' = {}
        /\ acked' = [b \in Batches |-> {}] /\ replied' = [b \in Batches |-> None]
    BY <1>1 DEF Exit
  <2>2. TypeOK' /\ Taken'
    BY <2>1 DEF IInv, TypeOK, Taken, Labels, InRun
  <2>3. Listed' /\ Open' /\ AckedIsProcessed'
    BY <2>1 DEF Listed, Open, AckedIsProcessed
  <2> QED BY <2>2, <2>3 DEF IInv
<1>2. CASE ~Exit
  <2>1. UNCHANGED <<pc, job, turn, made, lists, batches, acked, replied>>
    BY <1>2 DEF CloseWindow, Silence, Watchdog, Quit, vars, request, uploads, observed
  <2> QED BY <2>1 DEF IInv, TypeOK, Taken, Listed, Open, AckedIsProcessed
<1> QED BY <1>1, <1>2

\* Every step of every route keeps the invariant.
LEMMA StepKeeps == ASSUME IInv, [Next]_vars PROVE IInv'
<1>1. ASSUME NEW t \in Threads, NewBatch(t) \/ AppendFile(t) \/ Ack(t) \/ Demo(t) \/ Reply(t) PROVE IInv'
  BY <1>1, NewBatchKeeps, AppendFileKeeps, AckKeeps, DemoKeeps, ReplyKeeps
<1>2. ASSUME NEW t \in Threads, NEW b \in Batches, PutFile(t, b) PROVE IInv'
  BY <1>2, PutFileKeeps
<1>3. ASSUME NEW t \in Threads, NEW b \in Batches, NEW d \in {"anonymize", "restore"}, TakeBatch(t, b, d) PROVE IInv'
  BY <1>3, TakeBatchKeeps
<1>4. ASSUME NEW t \in Threads, Prescan(t) \/ ProcessFile(t) \/ StoreResult(t) \/ EndOfList(t) PROVE IInv'
  BY <1>4, LoopKeeps
<1>5. ASSUME NEW t \in Threads, Trim(t) \/ PickOldest(t) \/ DropOldest(t) PROVE IInv'
  BY <1>5, TrimKeeps
<1>6. ASSUME NEW t \in Threads, Unlock(t) \/ LockVault(t) \/ ClearBatches(t) \/ ClearResults(t) \/ UploadFails(t)
      PROVE  IInv'
  BY <1>6, LockingKeeps
<1>7. ASSUME CloseWindow \/ Silence \/ Watchdog \/ Quit \/ Exit \/ UNCHANGED vars PROVE IInv'
  BY <1>7, LifeKeeps
<1> QED BY <1>1, <1>2, <1>3, <1>4, <1>5, <1>6, <1>7 DEF Next

\* What uploads and run_batch rely on, in every reachable state.
THEOREM Invariance == Spec => []IInv
<1>1. IInv /\ [Next]_vars => IInv'
  BY StepKeeps
<1> QED BY InitHolds, <1>1, PTL DEF Spec

\* A file whose upload was answered is run with its batch, for any number of
\* threads and batches (the PUT and anonymize routes).
THEOREM AnsweredFilesAreRun == Spec => []AckedIsProcessed
<1>1. IInv => AckedIsProcessed
  BY DEF IInv
<1> QED BY <1>1, Invariance, PTL

-----------------------------------------------------------------------------
(* Locking *)

\* While the vault is locked, no batch runs, and what is left in memory is about to
\* be cleared by the request that locked it.
Cleared ==
    ~unlocked /\ server = "up" /\ ~overlap =>
        /\ ~Running
        /\ results = << >> \/ \E t \in Threads : pc[t] \in {"clear_batches", "clear_results"}

LInv == pc \in [Threads -> Labels] /\ unlocked \in BOOLEAN /\ overlap \in BOOLEAN /\ Cleared

\* Requests that do not run a batch leave a locked vault's memory as it is.
LEMMA QuietStepKeeps ==
    ASSUME LInv, NEW t \in Threads, NEW l \in Labels, pc' = [pc EXCEPT ![t] = l],
           pc[t] \notin {"clear_batches", "clear_results"} \/ l = "clear_results",
           l \in InRun => unlocked \/ pc[t] \in InRun,
           UNCHANGED <<unlocked, server, overlap>>,
           pc[t] \in InRun \/ UNCHANGED results
    PROVE  LInv'
<1>1. pc' \in [Threads -> Labels] /\ \A u \in Threads : u # t => pc'[u] = pc[u]
  BY DEF LInv
<1>2. pc'[t] = l
  BY DEF LInv
<1>3. ASSUME ~unlocked, server = "up", ~overlap PROVE ~Running' /\ UNCHANGED results
  BY <1>1, <1>2, <1>3 DEF LInv, Cleared, Running, InRun
<1>4. ASSUME \E u \in Threads : pc[u] \in {"clear_batches", "clear_results"}
      PROVE  \E u \in Threads : pc'[u] \in {"clear_batches", "clear_results"}
  BY <1>1, <1>2, <1>4
<1> QED BY <1>1, <1>3, <1>4 DEF LInv, Cleared

\* Nothing that matters to a lock changes.
LEMMA SameKeeps ==
    ASSUME LInv, UNCHANGED <<pc, results, unlocked, server, overlap>>
    PROVE  LInv'
  BY DEF LInv, Cleared, Running

\* Uploads do not run a batch.
LEMMA UploadsKeepCleared ==
    ASSUME LInv, NEW t \in Threads,
           \/ NewBatch(t) \/ AppendFile(t) \/ UploadFails(t) \/ Ack(t)
           \/ \E b \in Batches : PutFile(t, b)
    PROVE  LInv'
<1>1. UNCHANGED <<results, unlocked, server, overlap>>
  BY DEF NewBatch, AppendFile, UploadFails, Ack, PutFile, Dispatch, life, observed
<1>2. CASE NewBatch(t)
  <2>1. UNCHANGED pc
    BY <1>2 DEF NewBatch, request
  <2> QED BY <1>1, <2>1, SameKeeps
<1>3. CASE ~NewBatch(t)
  <2>1. PICK l \in {"append", "ack", "idle"} : pc' = [pc EXCEPT ![t] = l]
    BY <1>3 DEF AppendFile, UploadFails, Ack, PutFile, Leave, Goto
  <2>2. pc[t] \in {"idle", "append", "ack"}
    BY <1>3 DEF AppendFile, UploadFails, Ack, PutFile, Dispatch
  <2>3. l \in Labels /\ l \notin InRun /\ pc[t] \notin {"clear_batches", "clear_results"}
    BY <2>2 DEF Labels, InRun
  <2> QED BY <1>1, <2>1, <2>3, QuietStepKeeps
<1> QED BY <1>2, <1>3

\* A batch is taken only from an unlocked vault.
LEMMA TakingKeepsCleared ==
    ASSUME LInv, NEW t \in Threads,
           Demo(t) \/ \E b \in Batches, d \in {"anonymize", "restore"} : TakeBatch(t, b, d)
    PROVE  LInv'
<1>1. UNCHANGED <<results, unlocked, server, overlap>> /\ unlocked /\ pc[t] = "idle"
  BY DEF Demo, TakeBatch, Dispatch, observed
<1>2. UNCHANGED pc \/ \E l \in {"prescan", "files"} : pc' = [pc EXCEPT ![t] = l]
  BY DEF Demo, TakeBatch, Goto
<1>3. ASSUME NEW l \in {"prescan", "files"}, pc' = [pc EXCEPT ![t] = l] PROVE LInv'
  <2>1. l \in Labels /\ pc[t] \notin {"clear_batches", "clear_results"}
    BY <1>1 DEF Labels
  <2> QED BY <1>1, <1>3, <2>1, QuietStepKeeps
<1> QED BY <1>1, <1>2, <1>3, SameKeeps

\* A batch that runs has met no lock, or the overlap is on record.
LEMMA RunningKeepsCleared ==
    ASSUME LInv, NEW t \in Threads,
           \/ Prescan(t) \/ ProcessFile(t) \/ StoreResult(t) \/ EndOfList(t)
           \/ Trim(t) \/ PickOldest(t) \/ DropOldest(t) \/ Reply(t)
    PROVE  LInv'
<1>1. UNCHANGED <<unlocked, server, overlap>> /\ pc[t] \in InRun
  BY DEF Prescan, ProcessFile, StoreResult, EndOfList, Trim, PickOldest, DropOldest, Reply, InRun, life, observed
<1>2. PICK l \in InRun \cup {"idle"} : pc' = [pc EXCEPT ![t] = l]
  <2>1. pc = [pc EXCEPT ![t] = pc[t]] /\ pc[t] \in InRun
    BY <1>1 DEF LInv
  <2> QED
    BY <2>1 DEF Prescan, ProcessFile, StoreResult, EndOfList, Trim, PickOldest, DropOldest, Reply, Leave, Goto, InRun
<1>3. l \in Labels /\ pc[t] \notin {"clear_batches", "clear_results"}
  BY <1>1 DEF Labels, InRun
<1> QED BY <1>1, <1>2, <1>3, QuietStepKeeps

\* A lock finds no batch running, or records the overlap; memory is cleared next.
LEMMA LocksKeepCleared ==
    ASSUME LInv, NEW t \in Threads, Unlock(t) \/ LockVault(t) \/ ClearBatches(t) \/ ClearResults(t)
    PROVE  LInv'
<1>1. CASE Unlock(t)
  BY <1>1 DEF Unlock, Dispatch, request, observed, LInv, Cleared
<1>2. CASE LockVault(t)
  <2>1. /\ pc' = [pc EXCEPT ![t] = "clear_batches"] /\ pc'[t] = "clear_batches" /\ pc' \in [Threads -> Labels]
        /\ unlocked' = FALSE /\ overlap' = (overlap \/ Running) /\ UNCHANGED <<results, server>>
    BY <1>2 DEF LockVault, Dispatch, Goto, LInv, Labels
  <2>2. ~Running => ~Running'
    BY <2>1 DEF Running, LInv
  <2>3. overlap' \in BOOLEAN
    BY <2>1 DEF LInv, Running
  <2> QED BY <2>1, <2>2, <2>3 DEF LInv, Cleared
<1>3. CASE ClearBatches(t)
  <2>1. pc' = [pc EXCEPT ![t] = "clear_results"] /\ UNCHANGED <<results, unlocked, server, overlap>>
    BY <1>3 DEF ClearBatches, Goto, life, observed
  <2>2. "clear_results" \in Labels /\ "clear_results" \notin InRun
    BY DEF Labels, InRun
  <2> QED BY <2>1, <2>2, QuietStepKeeps
<1>4. CASE ClearResults(t)
  <2>1. /\ pc' = [pc EXCEPT ![t] = "idle"] /\ results' = << >> /\ UNCHANGED <<unlocked, server, overlap>>
    BY <1>4 DEF ClearResults, Leave, Goto, life
  <2>2. pc' \in [Threads -> Labels] /\ (~Running => ~Running')
    BY <2>1 DEF Running, LInv, Labels
  <2> QED BY <2>1, <2>2 DEF LInv, Cleared
<1> QED BY <1>1, <1>2, <1>3, <1>4

\* The watchdog, quitting and the end leave no server that is up and locked.
LEMMA LifeKeepsCleared ==
    ASSUME LInv, CloseWindow \/ Silence \/ Watchdog \/ Quit \/ Exit \/ UNCHANGED vars
    PROVE  LInv'
<1>1. CASE CloseWindow \/ Silence \/ UNCHANGED vars
  BY <1>1, SameKeeps DEF CloseWindow, Silence, vars, request, observed
<1>2. CASE Watchdog \/ Quit
  BY <1>2 DEF Watchdog, Quit, request, observed, LInv, Cleared
<1>3. CASE Exit
  BY <1>3 DEF Exit, LInv, Cleared, Labels
<1> QED BY <1>1, <1>2, <1>3

\* A lock leaves nothing in memory that a batch did not put there while the vault
\* was being locked, for any number of threads and locks (clear_memory).
THEOREM LockLeavesNothing == Spec => []LockedIsEmpty
<1>1. Init => LInv
  BY DEF Init, LInv, Cleared, Running, Labels
<1>2. LInv /\ [Next]_vars => LInv'
  <2> SUFFICES ASSUME LInv, [Next]_vars PROVE LInv'
    OBVIOUS
  <2>1. ASSUME NEW t \in Threads,
               \/ NewBatch(t) \/ AppendFile(t) \/ UploadFails(t) \/ Ack(t)
               \/ \E b \in Batches : PutFile(t, b)
        PROVE  LInv'
    BY <2>1, UploadsKeepCleared
  <2>2. ASSUME NEW t \in Threads,
               Demo(t) \/ \E b \in Batches, d \in {"anonymize", "restore"} : TakeBatch(t, b, d)
        PROVE  LInv'
    BY <2>2, TakingKeepsCleared
  <2>3. ASSUME NEW t \in Threads,
               \/ Prescan(t) \/ ProcessFile(t) \/ StoreResult(t) \/ EndOfList(t)
               \/ Trim(t) \/ PickOldest(t) \/ DropOldest(t) \/ Reply(t)
        PROVE  LInv'
    BY <2>3, RunningKeepsCleared
  <2>4. ASSUME NEW t \in Threads, Unlock(t) \/ LockVault(t) \/ ClearBatches(t) \/ ClearResults(t) PROVE LInv'
    BY <2>4, LocksKeepCleared
  <2> QED BY <2>1, <2>2, <2>3, <2>4, LifeKeepsCleared DEF Next
<1>3. LInv => LockedIsEmpty
  BY DEF LInv, Cleared, LockedIsEmpty, Quiet
<1> QED BY <1>1, <1>2, <1>3, PTL DEF Spec

-----------------------------------------------------------------------------
(* Memory: what is stored, and what is trimmed *)

Keys == Batches \X Nat

\* The loop over batch b has put the result of file i behind it: nobody will store
\* that result any more.
Past(b, i) ==
    /\ b \in 1 .. made /\ b \notin batches
    /\ \A u \in Threads :
        pc[u] \in InRun /\ job[u] = b => i <= turn[u] /\ (pc[u] = "store" => i < turn[u])

Old(k) == \E b \in Batches, i \in Nat : k = <<b, i>> /\ Past(b, i)

\* A batch is run by one request.
Alone ==
    \A t, u \in Threads : t # u /\ pc[t] \in InRun /\ pc[u] \in InRun => job[t] # job[u]

MemoryType ==
    /\ results \in Seq(Keys) /\ stored \in Seq(Keys)
    /\ victim \in [Threads -> Keys \cup {None}]
    /\ locks \in Nat

\* No result is stored twice.
Fresh ==
    /\ \A k \in 1 .. Len(results) : Old(results[k])
    /\ \A j, k \in 1 .. Len(results) : results[j] = results[k] => j = k

\* What a request is about to drop is the oldest result, or it is gone for good.
Victims ==
    \A t \in Threads : victim[t] # None =>
        /\ pc[t] = "drop"
        /\ Old(victim[t])
        /\ \A k \in 1 .. Len(results) : results[k] = victim[t] => k = 1

MInv == IInv /\ Alone /\ MemoryType /\ Fresh /\ Victims

\* The last results of those stored, in the same order.
Newest ==
    /\ Len(results) <= Len(stored)
    /\ \A k \in 1 .. Len(results) : results[k] = stored[(Len(stored) - Len(results)) + k]

\* As long as there are too many results, some request is going to trim them, and
\* will not lose the race for the oldest.
Trimmer(t) ==
    \/ pc[t] \in {"files", "store", "trim"}
    \/ pc[t] = "drop" /\ (victim[t] = None \/ \E k \in 1 .. Len(results) : results[k] = victim[t])

Trimmed == Len(results) > MAX_RESULTS => \E t \in Threads : Trimmer(t)

\* Requests that have found too many results and have not dropped one yet.
Dropping == {t \in Threads : pc[t] = "drop"}

Waiting == Cardinality(Threads) - Cardinality(Dropping)

\* Each request that is dropping takes one result more.
Kept ==
    /\ \/ Len(results) + Waiting > MAX_RESULTS
       \/ Len(stored) <= Len(results) + Waiting
    /\ locks = 0 =>
        /\ \A t \in Threads : pc[t] \notin {"clear_batches", "clear_results"}
        /\ \/ Len(results) + Waiting > MAX_RESULTS
           \/ results = stored /\ Dropping = {}

RInv == MInv /\ Newest /\ Trimmed /\ Kept

-----------------------------------------------------------------------------
(* The operators on sequences *)

\* pop takes the oldest result away, or finds nothing.
LEMMA RemoveFirstIs ==
    ASSUME NEW S, NEW s \in Seq(S), NEW e, \A k \in 1 .. Len(s) : s[k] = e => k = 1
    PROVE  /\ (\E k \in 1 .. Len(s) : s[k] = e) => RemoveFirst(s, e) = Tail(s) /\ s # << >>
           /\ ~(\E k \in 1 .. Len(s) : s[k] = e) => RemoveFirst(s, e) = s
<1>1. CASE \E k \in 1 .. Len(s) : s[k] = e
  <2> DEFINE I == {k \in 1 .. Len(s) : s[k] = e}
  <2>1. Len(s) \in Nat /\ Len(s) >= 1 /\ s # << >>
    BY <1>1
  <2>2. I = {1}
    BY <1>1
  <2>3. Min(I) = 1
    <3>1. \A x \in I : x = 1
      BY <2>2
    <3>2. \E x \in I : \A y \in I : x =< y
      BY <2>2
    <3> HIDE DEF I
    <3> QED BY <3>1, <3>2 DEF Min
  <2>4. SelectInSeq(s, LAMBDA v : v = e) = 1
    BY <2>2, <2>3 DEF SelectInSeq
  <2>5. RemoveFirst(s, e) = RemoveAt(s, 1)
    BY <1>1, <2>4 DEF RemoveFirst
  <2>6. RemoveAt(s, 1) = SubSeq(s, 1, 0) \o SubSeq(s, 2, Len(s))
    BY DEF RemoveAt
  <2>7. SubSeq(s, 1, 0) = << >> /\ SubSeq(s, 2, Len(s)) = Tail(s) /\ Tail(s) \in Seq(S)
    BY <2>1, EmptySeq
  <2>8. << >> \o Tail(s) = Tail(s)
    BY <2>7
  <2> QED BY <1>1, <2>1, <2>5, <2>6, <2>7, <2>8
<1>2. CASE ~(\E k \in 1 .. Len(s) : s[k] = e)
  BY <1>2 DEF RemoveFirst
<1> QED BY <1>1, <1>2

\* A sequence read from its end.
LEMMA SuffixIs ==
    ASSUME NEW S, NEW s \in Seq(S), NEW u \in Seq(S), Len(s) <= Len(u),
           \A k \in 1 .. Len(s) : s[k] = u[(Len(u) - Len(s)) + k]
    PROVE  IsSuffix(s, u)
<1> DEFINE n == Len(s)
           m == Len(u)
           rs == Reverse(s)
           ru == Reverse(u)
<1>1. n \in Nat /\ m \in Nat /\ n <= m
  OBVIOUS
<1>2. rs \in Seq(S) /\ Len(rs) = n /\ \A k \in 1 .. n : rs[k] = s[(n - k) + 1]
  BY DEF Reverse
<1>3. ru \in Seq(S) /\ Len(ru) = m /\ \A k \in 1 .. m : ru[k] = u[(m - k) + 1]
  BY DEF Reverse
<1>4. \A k \in 1 .. n : s[k] = u[(m - n) + k]
  OBVIOUS
<1> HIDE DEF n, m, rs, ru
<1>5. ASSUME NEW k \in 1 .. n PROVE rs[k] = ru[k]
  <2>1. k \in 1 .. m /\ (n - k) + 1 \in 1 .. n /\ (m - n) + ((n - k) + 1) = (m - k) + 1
    BY <1>1
  <2>2. rs[k] = s[(n - k) + 1]
    BY <1>2
  <2>3. s[(n - k) + 1] = u[(m - n) + ((n - k) + 1)]
    <3> DEFINE j == (n - k) + 1
    <3>1. j \in 1 .. n
      BY <2>1
    <3> HIDE DEF j
    <3>2. s[j] = u[(m - n) + j]
      BY <1>4, <3>1
    <3> QED BY <3>2 DEF j
  <2>4. ru[k] = u[(m - k) + 1]
    BY <1>3, <2>1
  <2> QED BY <2>1, <2>2, <2>3, <2>4
<1>6. SubSeq(rs, 1, n) = SubSeq(ru, 1, n)
  <2>1. SubSeq(rs, 1, n) \in Seq(S) /\ SubSeq(ru, 1, n) \in Seq(S)
    BY <1>1, <1>2, <1>3, SubSeqProperties
  <2>2. Len(SubSeq(rs, 1, n)) = n /\ Len(SubSeq(ru, 1, n)) = n
    BY <1>1, <1>2, <1>3, SubSeqProperties
  <2>3. \A k \in 1 .. n : SubSeq(rs, 1, n)[k] = rs[k] /\ SubSeq(ru, 1, n)[k] = ru[k]
    BY <1>1, <1>2, <1>3, SubSeqProperties
  <2> QED BY <1>5, <2>1, <2>2, <2>3, SeqEqual
<1>7. IsPrefix(rs, ru)
  BY <1>1, <1>2, <1>3, <1>6 DEF IsPrefix
<1> QED BY <1>7 DEF rs, ru, IsSuffix

-----------------------------------------------------------------------------
(* A result that is behind the loop stays behind it, and a batch has one runner *)

KeepsPast ==
    /\ \A b \in Batches, i \in Nat : Past(b, i) => Past(b, i)'
    /\ Alone => Alone'

\* One request moves, within its batch or out of it.
LEMMA MoveKeepsPast ==
    ASSUME IInv, NEW t \in Threads, NEW l \in Labels, NEW n \in Nat,
           pc' = [pc EXCEPT ![t] = l], turn' = [turn EXCEPT ![t] = n],
           \/ l \notin InRun /\ (job' = job \/ \E j : job' = [job EXCEPT ![t] = j])
           \/ l \in InRun /\ pc[t] \in InRun /\ job' = job /\ turn[t] <= n
              /\ (l = "store" => pc[t] # "store" /\ turn[t] < n),
           made' = made, batches' \in SUBSET batches
    PROVE  KeepsPast
<1>1. pc'[t] = l /\ turn'[t] = n /\ turn[t] \in Nat
  BY DEF IInv, TypeOK
<1>2. \A u \in Threads : u # t => pc'[u] = pc[u] /\ turn'[u] = turn[u] /\ job'[u] = job[u]
  BY DEF IInv, TypeOK
<1>3. l \in InRun => job'[t] = job[t] /\ pc[t] \in InRun
  OBVIOUS
<1>4. ASSUME NEW b \in Batches, NEW i \in Nat, Past(b, i) PROVE Past(b, i)'
  <2>1. b \in 1 .. made' /\ b \notin batches'
    BY <1>4 DEF Past
  <2>2. ASSUME NEW u \in Threads, pc'[u] \in InRun, job'[u] = b
        PROVE  i <= turn'[u] /\ (pc'[u] = "store" => i < turn'[u])
    <3>1. CASE u # t
      BY <1>2, <1>4, <2>2, <3>1 DEF Past
    <3>2. CASE u = t
      <4>1. l \in InRun /\ pc[t] \in InRun /\ job[t] = b /\ turn[t] <= n /\ (l = "store" => turn[t] < n)
        BY <1>1, <1>3, <2>2, <3>2
      <4>2. i <= turn[t]
        BY <1>4, <4>1 DEF Past
      <4> QED BY <1>1, <3>2, <4>1, <4>2
    <3> QED BY <3>1, <3>2
  <2> QED BY <2>1, <2>2 DEF Past
<1>5. ASSUME Alone PROVE Alone'
  <2> SUFFICES ASSUME NEW u \in Threads, NEW v \in Threads, u # v, pc'[u] \in InRun, pc'[v] \in InRun
               PROVE  job'[u] # job'[v]
    BY DEF Alone
  <2>1. \A w \in Threads : pc'[w] \in InRun => pc[w] \in InRun /\ job'[w] = job[w]
    BY <1>1, <1>2, <1>3
  <2> QED BY <1>5, <2>1 DEF Alone
<1> QED BY <1>4, <1>5 DEF KeepsPast

\* A batch that nobody runs is taken.
LEMMA TakeKeepsPast ==
    ASSUME IInv, NEW t \in Threads, NEW l \in Labels, NEW c \in Batches, pc[t] \notin InRun,
           pc' = [pc EXCEPT ![t] = l], job' = [job EXCEPT ![t] = c], UNCHANGED turn,
           \/ c \in batches /\ made' = made /\ batches' = batches \ {c}
           \/ c = made + 1 /\ made' = made + 1 /\ batches' = batches
    PROVE  KeepsPast
<1>0. pc'[t] = l /\ job'[t] = c /\ made \in Nat /\ made' \in Nat /\ made <= made'
  BY ServerAssumption DEF IInv, TypeOK
<1>1. \A u \in Threads : u # t => pc'[u] = pc[u] /\ job'[u] = job[u]
  BY DEF IInv, TypeOK
<1>2. \A u \in Threads : pc[u] \in InRun => job[u] # c
  BY <1>0 DEF IInv, Taken
<1>3. ASSUME NEW b \in Batches, NEW i \in Nat, Past(b, i) PROVE Past(b, i)'
  <2>1. b \in 1 .. made /\ b \notin batches /\ b # c
    BY <1>0, <1>3 DEF Past
  <2>2. b \in 1 .. made' /\ b \notin batches'
    BY <1>0, <2>1
  <2>3. \A u \in Threads : pc'[u] \in InRun /\ job'[u] = b => pc'[u] = pc[u] /\ job[u] = b
    BY <1>0, <1>1, <2>1
  <2> QED BY <1>3, <2>2, <2>3 DEF Past
<1>4. ASSUME Alone PROVE Alone'
  <2> SUFFICES ASSUME NEW u \in Threads, NEW v \in Threads, u # v, pc'[u] \in InRun, pc'[v] \in InRun
               PROVE  job'[u] # job'[v]
    BY DEF Alone
  <2>1. CASE u # t /\ v # t
    BY <1>1, <1>4, <2>1 DEF Alone
  <2>2. CASE u = t
    BY <1>0, <1>1, <1>2, <2>2
  <2>3. CASE v = t
    BY <1>0, <1>1, <1>2, <2>3
  <2> QED BY <2>1, <2>2, <2>3
<1> QED BY <1>3, <1>4 DEF KeepsPast

\* The request ends.
LEMMA LeaveKeepsPast ==
    ASSUME IInv, NEW t \in Threads, Leave(t), made' = made, batches' \in SUBSET batches
    PROVE  KeepsPast
<1>1. pc' = [pc EXCEPT ![t] = "idle"] /\ turn' = [turn EXCEPT ![t] = 0] /\ job' = [job EXCEPT ![t] = None]
  BY DEF Leave, Goto
<1>2. "idle" \in Labels /\ "idle" \notin InRun /\ 0 \in Nat
  BY DEF Labels, InRun
<1> QED BY <1>1, <1>2, MoveKeepsPast

\* Uploads, locks and the watchdog do not run a batch.
LEMMA OthersKeepPast ==
    ASSUME IInv, NEW t \in Threads,
           \/ NewBatch(t) \/ AppendFile(t) \/ UploadFails(t) \/ Ack(t) \/ \E b \in Batches : PutFile(t, b)
           \/ Unlock(t) \/ LockVault(t) \/ ClearBatches(t) \/ ClearResults(t)
    PROVE  KeepsPast
<1>1. CASE NewBatch(t)
  <2>1. made' = made + 1 /\ batches' = batches \cup {made + 1} /\ UNCHANGED <<pc, job, turn>> /\ made \in Nat
    BY <1>1, ServerAssumption DEF NewBatch, request, IInv, TypeOK
  <2>2. \A b \in 1 .. made : b \in 1 .. made' /\ (b \notin batches => b \notin batches')
    BY <2>1
  <2> QED BY <2>1, <2>2 DEF KeepsPast, Past, Alone
<1>2. CASE Unlock(t)
  <2>1. UNCHANGED <<pc, job, turn, made, batches>>
    BY <1>2 DEF Unlock, request, uploads
  <2> QED BY <2>1 DEF KeepsPast, Past, Alone
<1>3. CASE UploadFails(t) \/ Ack(t) \/ ClearResults(t)
  <2>1. Leave(t) /\ UNCHANGED <<made, batches>>
    BY <1>3 DEF UploadFails, Ack, ClearResults, uploads
  <2> QED BY <2>1, LeaveKeepsPast
<1>4. CASE AppendFile(t) \/ LockVault(t) \/ ClearBatches(t) \/ \E b \in Batches : PutFile(t, b)
  <2>1. PICK l \in {"append", "ack", "clear_batches", "clear_results"} : pc' = [pc EXCEPT ![t] = l]
    BY <1>4 DEF AppendFile, LockVault, ClearBatches, PutFile, Goto
  <2>2. PICK n \in Nat : turn' = [turn EXCEPT ![t] = n]
    <3>1. turn = [turn EXCEPT ![t] = turn[t]] /\ turn[t] \in Nat
      BY DEF IInv, TypeOK
    <3>2. AppendFile(t) => lists[job[t]] + 1 \in Nat
      BY ServerAssumption DEF AppendFile, IInv, TypeOK, Taken, Batches
    <3> QED BY <1>4, <3>1, <3>2 DEF AppendFile, LockVault, ClearBatches, PutFile
  <2>3. job' = job \/ \E j : job' = [job EXCEPT ![t] = j]
    BY <1>4 DEF AppendFile, LockVault, ClearBatches, PutFile
  <2>4. made' = made /\ batches' \in SUBSET batches
    BY <1>4 DEF AppendFile, LockVault, ClearBatches, PutFile, uploads
  <2>5. l \in Labels /\ l \notin InRun
    BY DEF Labels, InRun
  <2> QED BY <2>1, <2>2, <2>3, <2>4, <2>5, MoveKeepsPast
<1> QED BY <1>1, <1>2, <1>3, <1>4

\* A batch is taken, or the demonstration gets one.
LEMMA TakingKeepsPast ==
    ASSUME IInv, NEW t \in Threads,
           Demo(t) \/ \E b \in Batches, d \in {"anonymize", "restore"} : TakeBatch(t, b, d)
    PROVE  KeepsPast
<1>0. pc[t] \notin InRun
  BY DEF Demo, TakeBatch, Dispatch, InRun
<1>1. CASE Demo(t)
  <2>1. /\ pc' = [pc EXCEPT ![t] = "prescan"] /\ job' = [job EXCEPT ![t] = made + 1] /\ turn' = turn
        /\ made' = made + 1 /\ batches' = batches /\ made + 1 \in Batches /\ "prescan" \in Labels
    BY <1>1, ServerAssumption DEF Demo, Goto, Batches, Labels, IInv, TypeOK
  <2> QED BY <1>0, <2>1, TakeKeepsPast
<1>2. ASSUME NEW b \in Batches, NEW d \in {"anonymize", "restore"}, TakeBatch(t, b, d) PROVE KeepsPast
  <2>1. b \in batches /\ made' = made /\ batches' = batches \ {b} /\ turn' = turn
    BY <1>2 DEF TakeBatch
  <2>2. CASE UNCHANGED <<pc, job>>
    BY <2>1, <2>2 DEF KeepsPast, Past, Alone
  <2>3. CASE \E l \in {"prescan", "files"} : pc' = [pc EXCEPT ![t] = l] /\ job' = [job EXCEPT ![t] = b]
    <3>1. PICK l \in {"prescan", "files"} : pc' = [pc EXCEPT ![t] = l] /\ job' = [job EXCEPT ![t] = b]
      BY <2>3
    <3>2. l \in Labels
      BY DEF Labels
    <3> QED BY <1>0, <2>1, <3>1, <3>2, TakeKeepsPast
  <2> QED BY <1>2, <2>2, <2>3 DEF TakeBatch, Goto
<1> QED BY <1>1, <1>2

\* The loop over the files goes forward, and a result is stored after its turn.
LEMMA RunningKeepsPast ==
    ASSUME IInv, NEW t \in Threads,
           \/ Prescan(t) \/ ProcessFile(t) \/ StoreResult(t) \/ EndOfList(t)
           \/ Trim(t) \/ PickOldest(t) \/ DropOldest(t) \/ Reply(t)
    PROVE  KeepsPast
<1>1. UNCHANGED <<made, batches>> /\ pc[t] \in InRun
  BY DEF Prescan, ProcessFile, StoreResult, EndOfList, Trim, PickOldest, DropOldest, Reply, uploads, InRun
<1>2. CASE Leave(t)
  BY <1>1, <1>2, LeaveKeepsPast
<1>3. CASE ~Leave(t)
  <2>1. /\ job' = job /\ turn[t] \in Nat
        /\ turn = [turn EXCEPT ![t] = turn[t]] /\ pc = [pc EXCEPT ![t] = pc[t]]
    BY <1>3 DEF Prescan, ProcessFile, StoreResult, EndOfList, Trim, PickOldest, DropOldest, Reply, IInv, TypeOK
  <2>2. CASE ProcessFile(t)
    <3>1. PICK l \in {"files", "store"} : pc' = [pc EXCEPT ![t] = l]
      BY <2>1, <2>2 DEF ProcessFile, Goto
    <3>2. turn' = [turn EXCEPT ![t] = turn[t] + 1] /\ turn[t] + 1 \in Nat /\ turn[t] < turn[t] + 1
          /\ turn[t] <= turn[t] + 1 /\ pc[t] # "store"
      BY <2>1, <2>2 DEF ProcessFile
    <3>3. l \in Labels /\ l \in InRun
      BY DEF Labels, InRun
    <3> QED BY <1>1, <2>1, <3>1, <3>2, <3>3, MoveKeepsPast
  <2>3. CASE ~ProcessFile(t)
    <3>1. turn' = turn
      BY <1>3, <2>3 DEF Prescan, StoreResult, EndOfList, Trim, PickOldest, DropOldest, Reply
    <3>2. PICK l \in {"files", "trim", "drop"} : pc' = [pc EXCEPT ![t] = l]
      BY <1>3, <2>1, <2>3 DEF Prescan, StoreResult, EndOfList, Trim, PickOldest, DropOldest, Reply, Goto
    <3>3. l \in Labels /\ l \in InRun /\ l # "store" /\ turn[t] <= turn[t]
      BY <2>1 DEF Labels, InRun
    <3> QED BY <1>1, <2>1, <3>1, <3>2, <3>3, MoveKeepsPast
  <2> QED BY <2>2, <2>3
<1> QED BY <1>2, <1>3

\* Every step.
LEMMA PastStays == ASSUME IInv, [Next]_vars PROVE KeepsPast
<1>1. ASSUME NEW t \in Threads,
             \/ NewBatch(t) \/ AppendFile(t) \/ UploadFails(t) \/ Ack(t) \/ \E b \in Batches : PutFile(t, b)
             \/ Unlock(t) \/ LockVault(t) \/ ClearBatches(t) \/ ClearResults(t)
      PROVE  KeepsPast
  BY <1>1, OthersKeepPast
<1>2. ASSUME NEW t \in Threads,
             Demo(t) \/ \E b \in Batches, d \in {"anonymize", "restore"} : TakeBatch(t, b, d)
      PROVE  KeepsPast
  BY <1>2, TakingKeepsPast
<1>3. ASSUME NEW t \in Threads,
             \/ Prescan(t) \/ ProcessFile(t) \/ StoreResult(t) \/ EndOfList(t)
             \/ Trim(t) \/ PickOldest(t) \/ DropOldest(t) \/ Reply(t)
      PROVE  KeepsPast
  BY <1>3, RunningKeepsPast
<1>4. CASE Exit
  <2>1. pc' = [t \in Threads |-> "idle"] /\ made' = made /\ batches' = {} /\ "idle" \notin InRun
    BY <1>4 DEF Exit, InRun
  <2> QED BY <2>1 DEF KeepsPast, Past, Alone
<1>5. CASE CloseWindow \/ Silence \/ Watchdog \/ Quit \/ UNCHANGED vars
  <2>1. UNCHANGED <<pc, job, turn, made, batches>>
    BY <1>5 DEF CloseWindow, Silence, Watchdog, Quit, vars, request, uploads
  <2> QED BY <2>1 DEF KeepsPast, Past, Alone
<1> QED BY <1>1, <1>2, <1>3, <1>4, <1>5 DEF Next

-----------------------------------------------------------------------------
(* What a step does to the results *)

\* The results stay, and a request forgets its victim or waits with it.
Same ==
    /\ UNCHANGED <<results, stored>>
    /\ victim' \in [Threads -> Keys \cup {None}]
    /\ \A u \in Threads : victim'[u] = None \/ (victim'[u] = victim[u] /\ pc'[u] = pc[u])

\* The result of the file that t has just processed is stored.
Stored(t) ==
    /\ pc[t] = "store" /\ victim' = victim
    /\ results' = Append(results, <<job[t], turn[t]>>)
    /\ stored' = Append(stored, <<job[t], turn[t]>>)
    /\ pc' = [pc EXCEPT ![t] = "files"] /\ UNCHANGED <<job, turn, made, batches>>

\* t looks up the oldest result.
Picked(t) ==
    /\ pc[t] = "drop" /\ results # << >> /\ pc' = pc
    /\ victim' = [victim EXCEPT ![t] = Head(results)]
    /\ UNCHANGED <<results, stored>>

\* t drops it.
Dropped(t) ==
    /\ pc[t] = "drop" /\ victim[t] # None
    /\ results # << >> /\ results' = Tail(results) /\ stored' = stored
    /\ pc' = [pc EXCEPT ![t] = "trim"] /\ victim' = [victim EXCEPT ![t] = None]

\* Memory is cleared.
Emptied ==
    /\ results' = << >> /\ stored' = << >>
    /\ victim' \in [Threads -> Keys \cup {None}]
    /\ \A u \in Threads : victim'[u] = None \/ (victim'[u] = victim[u] /\ pc'[u] = pc[u])

\* A request that ends has no victim any more.
LEMMA LeaveVictims ==
    ASSUME MInv, NEW t \in Threads, Leave(t)
    PROVE  /\ victim' \in [Threads -> Keys \cup {None}]
           /\ \A u \in Threads : victim'[u] = None \/ (victim'[u] = victim[u] /\ pc'[u] = pc[u])
  BY DEF Leave, Goto, MInv, MemoryType, IInv, TypeOK

\* A request that is not dropping moves without a victim.
LEMMA MoveVictims ==
    ASSUME MInv, NEW t \in Threads, NEW l, pc' = [pc EXCEPT ![t] = l], pc[t] # "drop", UNCHANGED victim
    PROVE  /\ victim' \in [Threads -> Keys \cup {None}]
           /\ \A u \in Threads : victim'[u] = None \/ (victim'[u] = victim[u] /\ pc'[u] = pc[u])
  BY DEF MInv, MemoryType, Victims, IInv, TypeOK

\* The oldest result is taken away, or it was gone.
LEMMA DropIs == ASSUME MInv, NEW t \in Threads, DropOldest(t) PROVE Same \/ Dropped(t)
<1>1. /\ results \in Seq(Keys) /\ victim[t] # None /\ pc[t] = "drop" /\ stored' = stored
      /\ \A k \in 1 .. Len(results) : results[k] = victim[t] => k = 1
  BY DEF DropOldest, observed, MInv, MemoryType, Victims
<1>2. CASE \E k \in 1 .. Len(results) : results[k] = victim[t]
  <2>1. results' = Tail(results) /\ results # << >>
    BY <1>1, <1>2, RemoveFirstIs DEF DropOldest
  <2>2. results' # results
    BY <1>1, <2>1
  <2> QED BY <1>1, <2>1, <2>2 DEF DropOldest, Goto, Dropped
<1>3. CASE ~(\E k \in 1 .. Len(results) : results[k] = victim[t])
  <2>1. results' = results
    BY <1>1, <1>3, RemoveFirstIs DEF DropOldest
  <2>2. Leave(t)
    BY <2>1 DEF DropOldest
  <2> QED BY <1>1, <2>1, <2>2, LeaveVictims DEF Same
<1> QED BY <1>2, <1>3

\* Every step is one of these.
LEMMA StepIs ==
    ASSUME MInv, [Next]_vars
    PROVE  \/ Same
           \/ \E t \in Threads : Stored(t) \/ Picked(t) \/ Dropped(t)
           \/ Emptied
<1>1. ASSUME NEW t \in Threads, NewBatch(t) \/ Unlock(t) PROVE Same
  BY <1>1 DEF NewBatch, Unlock, request, observed, Same, MInv, MemoryType
<1>2. ASSUME NEW t \in Threads, UploadFails(t) \/ Ack(t) \/ Reply(t) PROVE Same
  <2>1. Leave(t) /\ UNCHANGED <<results, stored>>
    BY <1>2 DEF UploadFails, Ack, Reply, observed
  <2> QED BY <2>1, LeaveVictims DEF Same
<1>3. ASSUME NEW t \in Threads,
             \/ AppendFile(t) \/ LockVault(t) \/ ClearBatches(t) \/ Demo(t)
             \/ EndOfList(t) \/ Trim(t) \/ \E b \in Batches : PutFile(t, b)
      PROVE  Same
  <2>1. PICK l \in Labels : pc' = [pc EXCEPT ![t] = l]
    BY <1>3 DEF AppendFile, LockVault, ClearBatches, Demo, EndOfList, Trim, PutFile, Goto, Labels
  <2>2. pc[t] # "drop" /\ UNCHANGED <<victim, results, stored>> /\ victim \in [Threads -> Keys \cup {None}]
    BY <1>3 DEF AppendFile, LockVault, ClearBatches, Demo, EndOfList, Trim, PutFile, Dispatch, observed, MInv, MemoryType
  <2> QED BY <2>1, <2>2, MoveVictims DEF Same
<1>4. ASSUME NEW t \in Threads, NEW b \in Batches, NEW d \in {"anonymize", "restore"}, TakeBatch(t, b, d) PROVE Same
  <2>1. pc[t] # "drop" /\ UNCHANGED <<victim, results, stored>> /\ victim \in [Threads -> Keys \cup {None}]
    BY <1>4 DEF TakeBatch, Dispatch, observed, MInv, MemoryType
  <2>2. pc' = pc \/ \E l \in Labels : pc' = [pc EXCEPT ![t] = l]
    BY <1>4 DEF TakeBatch, Goto, Labels
  <2> QED BY <2>1, <2>2, MoveVictims DEF Same
<1>5. ASSUME NEW t \in Threads, Prescan(t) \/ ProcessFile(t) PROVE Same
  <2>1. pc[t] # "drop" /\ UNCHANGED <<results, stored>>
    BY <1>5 DEF Prescan, ProcessFile, observed
  <2>2. \/ Leave(t)
        \/ UNCHANGED victim /\ (pc' = pc \/ \E l \in Labels : pc' = [pc EXCEPT ![t] = l])
    BY <1>5 DEF Prescan, ProcessFile, Goto, Labels
  <2>3. CASE Leave(t)
    BY <2>1, <2>3, LeaveVictims DEF Same
  <2>4. CASE UNCHANGED victim /\ pc' = pc
    BY <2>1, <2>4 DEF Same, MInv, MemoryType
  <2>5. ASSUME NEW l \in Labels, pc' = [pc EXCEPT ![t] = l], UNCHANGED victim PROVE Same
    BY <2>1, <2>5, MoveVictims DEF Same
  <2> QED BY <2>2, <2>3, <2>4, <2>5
<1>6. ASSUME NEW t \in Threads, StoreResult(t) PROVE Stored(t)
  BY <1>6 DEF StoreResult, Goto, uploads, Stored
<1>7. ASSUME NEW t \in Threads, PickOldest(t) PROVE Same \/ Picked(t)
  <2>1. UNCHANGED <<results, stored>> /\ pc[t] = "drop"
    BY <1>7 DEF PickOldest, observed
  <2>2. CASE results = << >>
    BY <1>7, <2>1, <2>2, LeaveVictims DEF PickOldest, Same
  <2>3. CASE results # << >>
    BY <1>7, <2>1, <2>3 DEF PickOldest, Picked
  <2> QED BY <2>2, <2>3
<1>8. ASSUME NEW t \in Threads, ClearResults(t) PROVE Emptied
  BY <1>8, LeaveVictims DEF ClearResults, Emptied
<1>9. CASE Exit
  BY <1>9 DEF Exit, Emptied
<1>10. CASE CloseWindow \/ Silence \/ Watchdog \/ Quit \/ UNCHANGED vars
  BY <1>10 DEF CloseWindow, Silence, Watchdog, Quit, vars, request, observed, Same, MInv, MemoryType
<1> QED BY <1>1, <1>2, <1>3, <1>4, <1>5, <1>6, <1>7, <1>8, <1>9, <1>10, DropIs DEF Next

\* The lock counter only counts up.
LEMMA LocksGrow == ASSUME MInv, [Next]_vars PROVE locks' \in Nat /\ (locks' = 0 => locks = 0)
<1>1. locks \in Nat
  BY DEF MInv, MemoryType
<1>2. ASSUME NEW t \in Threads, LockVault(t) PROVE locks' = locks + 1
  BY <1>2 DEF LockVault
<1>3. ASSUME NEW t \in Threads,
             \/ NewBatch(t) \/ AppendFile(t) \/ UploadFails(t) \/ Ack(t) \/ Demo(t) \/ Prescan(t)
             \/ ProcessFile(t) \/ StoreResult(t) \/ EndOfList(t) \/ Trim(t) \/ PickOldest(t)
             \/ DropOldest(t) \/ Reply(t) \/ Unlock(t) \/ ClearBatches(t) \/ ClearResults(t)
             \/ \E b \in Batches : PutFile(t, b)
             \/ \E b \in Batches, d \in {"anonymize", "restore"} : TakeBatch(t, b, d)
      PROVE  locks' = locks
  BY <1>3 DEF NewBatch, AppendFile, UploadFails, Ack, Demo, Prescan, ProcessFile, StoreResult, EndOfList, Trim,
              PickOldest, DropOldest, Reply, Unlock, ClearBatches, ClearResults, PutFile, TakeBatch, observed
<1>4. ASSUME CloseWindow \/ Silence \/ Watchdog \/ Quit \/ Exit \/ UNCHANGED vars PROVE locks' = locks
  BY <1>4 DEF CloseWindow, Silence, Watchdog, Quit, Exit, vars, observed
<1>5. locks' = locks \/ locks' = locks + 1
  BY <1>2, <1>3, <1>4 DEF Next
<1> QED BY <1>1, <1>5

\* Old results stay old.
StillOld(k) == \E b \in Batches, i \in Nat : k = <<b, i>> /\ Past(b, i)'

LEMMA OldStays == ASSUME KeepsPast PROVE \A k : Old(k) => StillOld(k)
  BY DEF KeepsPast, Old, StillOld

\* What is old in the new state.
LEMMA FreshNext ==
    ASSUME \A k \in 1 .. Len(results') : StillOld(results'[k]),
           \A j, k \in 1 .. Len(results') : results'[j] = results'[k] => j = k
    PROVE  Fresh'
  BY DEF Fresh, Old, StillOld

LEMMA VictimsNext ==
    ASSUME \A t \in Threads : victim'[t] # None =>
               /\ pc'[t] = "drop"
               /\ StillOld(victim'[t])
               /\ \A k \in 1 .. Len(results') : results'[k] = victim'[t] => k = 1
    PROVE  Victims'
  BY DEF Victims, Old, StillOld

\* Results and victims in the new state, one kind of step after the other.
LEMMA MemoryStays == ASSUME MInv, [Next]_vars PROVE MInv'
<1>0. /\ KeepsPast /\ IInv' /\ Alone' /\ locks' \in Nat
      /\ results \in Seq(Keys) /\ stored \in Seq(Keys) /\ victim \in [Threads -> Keys \cup {None}]
      /\ pc \in [Threads -> Labels] /\ Len(results) \in Nat
  <2>1. KeepsPast /\ IInv' /\ locks' \in Nat
    BY PastStays, StepKeeps, LocksGrow DEF MInv
  <2>2. Alone'
    BY <2>1 DEF MInv, KeepsPast
  <2> QED BY <2>1, <2>2 DEF MInv, MemoryType, IInv, TypeOK
<1>e. << >> \in Seq(Keys) /\ Len(<< >>) = 0
  BY EmptySeq
<1>o. /\ \A k \in 1 .. Len(results) : StillOld(results[k])
      /\ \A u \in Threads : victim[u] # None => StillOld(victim[u])
  BY <1>0, OldStays DEF MInv, Fresh, Victims
<1>1. CASE Same \/ Emptied
  <2>1. /\ results' = results \/ results' = << >>
        /\ stored' = stored \/ stored' = << >>
        /\ victim' \in [Threads -> Keys \cup {None}]
        /\ \A u \in Threads : victim'[u] = None \/ (victim'[u] = victim[u] /\ pc'[u] = pc[u])
    BY <1>1 DEF Same, Emptied
  <2>2. MemoryType'
    BY <1>0, <1>e, <2>1 DEF MemoryType
  <2>3. Fresh'
    <3>1. CASE results' = results
      BY <1>o, <3>1, FreshNext DEF MInv, Fresh
    <3>2. CASE results' = << >>
      BY <3>2, FreshNext
    <3> QED BY <2>1, <3>1, <3>2
  <2>4. Victims'
    <3>1. \A u \in Threads : victim'[u] # None => victim'[u] = victim[u] /\ pc'[u] = "drop" /\ StillOld(victim'[u])
      BY <1>o, <2>1 DEF MInv, Victims
    <3>2. ASSUME NEW u \in Threads, victim'[u] # None, NEW k \in 1 .. Len(results'), results'[k] = victim'[u]
          PROVE  k = 1
      <4>1. results' = results
        BY <2>1, <3>2
      <4> QED BY <3>1, <3>2, <4>1 DEF MInv, Victims
    <3> QED BY <3>1, <3>2, VictimsNext
  <2> QED BY <1>0, <2>2, <2>3, <2>4 DEF MInv
<1>2. ASSUME NEW t \in Threads, Stored(t) PROVE MInv'
  <2> DEFINE key == <<job[t], turn[t]>>
             n == Len(results)
  <2>1. job[t] \in Batches /\ turn[t] \in Nat /\ pc[t] = "store" /\ pc'[t] = "files" /\ pc[t] \in InRun
    BY <1>0, <1>2, ServerAssumption DEF Stored, MInv, IInv, TypeOK, Taken, InRun, Batches
  <2>2. key \in Keys /\ ~Old(key)
    <3>1. key \in Keys
      BY <2>1 DEF Keys
    <3>2. ~Past(job[t], turn[t])
      BY <2>1 DEF Past
    <3> QED BY <3>1, <3>2 DEF Old
  <2>3. StillOld(key)
    <3>1. job[t] \in 1 .. made /\ job[t] \notin batches
      BY <2>1 DEF MInv, IInv, Taken
    <3>2. \A u \in Threads : pc'[u] \in InRun /\ job'[u] = job[t] => u = t
      <4>1. pc'[t] \in InRun /\ job'[t] = job[t]
        BY <1>2, <2>1 DEF Stored, InRun
      <4> QED BY <1>0, <4>1 DEF Alone
    <3>3. ASSUME NEW b, NEW i, b = job[t], i = turn[t] PROVE Past(b, i)'
      BY <1>2, <2>1, <3>1, <3>2, <3>3 DEF Stored, Past
    <3> QED BY <2>1, <3>3 DEF StillOld
  <2>4. \A k \in 1 .. n : results[k] # key
    BY <2>2 DEF MInv, Fresh
  <2>5. \A u \in Threads : victim[u] # None => victim[u] # key
    BY <2>2 DEF MInv, Victims
  <2>6. results' = Append(results, key) /\ stored' = Append(stored, key) /\ n \in Nat
    BY <1>0, <1>2 DEF Stored
  <2> HIDE DEF key
  <2>7. /\ results' \in Seq(Keys) /\ Len(results') = n + 1
        /\ results'[n + 1] = key /\ \A k \in 1 .. n : results'[k] = results[k]
    BY <1>0, <2>2, <2>6, AppendProperties
  <2>8. MemoryType'
    BY <1>0, <1>2, <2>2, <2>6, <2>7, AppendProperties DEF Stored, MemoryType
  <2>9. \A k \in 1 .. Len(results') : k \in 1 .. n \/ k = n + 1
    BY <2>6, <2>7
  <2> HIDE DEF n
  <2>10. Fresh'
    <3>1. \A k \in 1 .. Len(results') : StillOld(results'[k])
      BY <1>o, <2>3, <2>7, <2>9 DEF n
    <3>2. \A j, k \in 1 .. n : results[j] = results[k] => j = k
      BY DEF MInv, Fresh, n
    <3>3. ASSUME NEW j \in 1 .. Len(results'), NEW k \in 1 .. Len(results'), results'[j] = results'[k] PROVE j = k
      BY <2>4, <2>7, <2>9, <3>2, <3>3
    <3> QED BY <3>1, <3>3, FreshNext
  <2>11. Victims'
    <3>1. ASSUME NEW u \in Threads, victim'[u] # None
          PROVE  /\ pc'[u] = "drop" /\ StillOld(victim'[u])
                 /\ \A k \in 1 .. Len(results') : results'[k] = victim'[u] => k = 1
      <4>1. victim'[u] = victim[u] /\ pc[u] = "drop" /\ u # t /\ pc'[u] = pc[u]
        BY <1>0, <1>2, <2>1, <3>1 DEF Stored, MInv, Victims
      <4>2. \A k \in 1 .. n : results[k] = victim[u] => k = 1
        BY <3>1, <4>1 DEF MInv, Victims, n
      <4> QED BY <1>o, <2>5, <2>7, <2>9, <3>1, <4>1, <4>2
    <3> QED BY <3>1, VictimsNext
  <2> QED BY <1>0, <2>8, <2>10, <2>11 DEF MInv
<1>3. ASSUME NEW t \in Threads, Picked(t) PROVE MInv'
  <2>1. /\ results' = results /\ stored' = stored /\ pc' = pc /\ pc[t] = "drop" /\ results # << >>
        /\ victim' = [victim EXCEPT ![t] = Head(results)]
    BY <1>3 DEF Picked
  <2>2. Head(results) = results[1] /\ 1 \in 1 .. Len(results) /\ results[1] \in Keys
    BY <1>0, <2>1
  <2>3. MemoryType'
    BY <1>0, <2>1, <2>2 DEF MemoryType
  <2>4. Fresh'
    BY <1>o, <2>1, FreshNext DEF MInv, Fresh
  <2>5. Victims'
    <3>1. ASSUME NEW u \in Threads, victim'[u] # None
          PROVE  /\ pc'[u] = "drop" /\ StillOld(victim'[u])
                 /\ \A k \in 1 .. Len(results') : results'[k] = victim'[u] => k = 1
      <4>1. CASE u = t
        BY <1>0, <1>o, <2>1, <2>2, <4>1 DEF MInv, Fresh
      <4>2. CASE u # t
        BY <1>0, <1>o, <2>1, <3>1, <4>2 DEF MInv, Victims
      <4> QED BY <4>1, <4>2
    <3> QED BY <3>1, VictimsNext
  <2> QED BY <1>0, <2>3, <2>4, <2>5 DEF MInv
<1>4. ASSUME NEW t \in Threads, Dropped(t) PROVE MInv'
  <2> DEFINE n == Len(results)
  <2>1. /\ results' = Tail(results) /\ stored' = stored /\ results # << >>
        /\ pc' = [pc EXCEPT ![t] = "trim"] /\ victim' = [victim EXCEPT ![t] = None]
    BY <1>4 DEF Dropped
  <2>2. /\ results' \in Seq(Keys) /\ Len(results') = n - 1 /\ n \in Nat /\ n >= 1
        /\ \A k \in 1 .. n - 1 : results'[k] = results[k + 1]
    BY <1>0, <2>1, HeadTailProperties
  <2>3. MemoryType'
    BY <1>0, <2>1, <2>2 DEF MemoryType
  <2>o. /\ \A k \in 1 .. n : StillOld(results[k])
        /\ \A j, k \in 1 .. n : results[j] = results[k] => j = k
        /\ \A u \in Threads : victim[u] # None =>
              pc[u] = "drop" /\ \A k \in 1 .. n : results[k] = victim[u] => k = 1
    BY <1>o DEF MInv, Fresh, Victims
  <2> HIDE DEF n
  <2>4. \A k \in 1 .. Len(results') : k \in 1 .. n - 1 /\ k + 1 \in 1 .. n /\ k + 1 # 1 /\ results'[k] = results[k + 1]
    BY <2>2
  <2>5. Fresh'
    <3>1. ASSUME NEW j \in 1 .. Len(results'), NEW k \in 1 .. Len(results'), results'[j] = results'[k] PROVE j = k
      <4>1. j + 1 = k + 1
        BY <2>4, <2>o, <3>1
      <4> QED BY <2>2, <4>1
    <3>2. \A k \in 1 .. Len(results') : StillOld(results'[k])
      BY <2>4, <2>o
    <3> QED BY <3>1, <3>2, FreshNext
  <2>6. Victims'
    <3>1. ASSUME NEW u \in Threads, victim'[u] # None
          PROVE  /\ pc'[u] = "drop" /\ StillOld(victim'[u])
                 /\ \A k \in 1 .. Len(results') : results'[k] = victim'[u] => k = 1
      <4>1. u # t /\ victim'[u] = victim[u] /\ pc'[u] = pc[u]
        BY <1>0, <2>1, <3>1
      <4> QED BY <1>o, <2>4, <2>o, <3>1, <4>1
    <3> QED BY <3>1, VictimsNext
  <2> QED BY <1>0, <2>3, <2>5, <2>6 DEF MInv
<1> QED BY <1>1, <1>2, <1>3, <1>4, StepIs

-----------------------------------------------------------------------------
(* Trimming *)

Clearing == {"clear_batches", "clear_results"}

\* The request t moves: how it gets to the loop that trims, through it and out of it.
Moves(t) ==
    /\ \A u \in Threads \ {t} : pc'[u] = pc[u] /\ victim'[u] = victim[u]
    /\ \/ /\ pc[t] \notin {"files", "store", "trim", "drop"} /\ pc'[t] # "drop"
          /\ pc'[t] \in Clearing => locks' # 0 \/ pc[t] \in Clearing
          /\ UNCHANGED <<results, stored>>
       \/ pc[t] = "clear_results" /\ pc'[t] = "idle" /\ results' = << >> /\ stored' = << >>
       \/ pc[t] = "files" /\ pc'[t] \in {"files", "store", "trim"} /\ UNCHANGED <<results, stored>>
       \/ Stored(t)
       \/ /\ pc[t] = "trim" /\ Len(results) > MAX_RESULTS /\ pc'[t] = "drop"
          /\ UNCHANGED <<results, stored, victim>>
       \/ pc[t] = "trim" /\ Len(results) <= MAX_RESULTS /\ pc'[t] = "idle" /\ UNCHANGED <<results, stored>>
       \/ /\ pc[t] = "drop" /\ (results = << >> \/ ~Trimmer(t)) /\ pc'[t] = "idle"
          /\ UNCHANGED <<results, stored>>
       \/ Picked(t)
       \/ Dropped(t)

\* Only t moves.
LEMMA OneMoves ==
    ASSUME MInv, NEW t \in Threads, NEW l,
           \/ Leave(t)
           \/ /\ pc' = pc \/ pc' = [pc EXCEPT ![t] = l]
              /\ victim' = victim \/ \E v : victim' = [victim EXCEPT ![t] = v]
    PROVE  \A u \in Threads \ {t} : pc'[u] = pc[u] /\ victim'[u] = victim[u]
  BY DEF Leave, Goto, MInv, MemoryType, IInv, TypeOK

\* Requests that do not trim.
LEMMA OutsideMoves ==
    ASSUME MInv, NEW t \in Threads,
           \/ NewBatch(t) \/ AppendFile(t) \/ UploadFails(t) \/ Ack(t) \/ \E b \in Batches : PutFile(t, b)
           \/ Demo(t) \/ \E b \in Batches, d \in {"anonymize", "restore"} : TakeBatch(t, b, d)
           \/ Prescan(t) \/ Unlock(t) \/ LockVault(t) \/ ClearBatches(t)
    PROVE  Moves(t)
<1>0. pc \in [Threads -> Labels] /\ locks \in Nat
  BY DEF MInv, MemoryType, IInv, TypeOK
<1>1. UNCHANGED <<results, stored>> /\ pc[t] \in {"idle", "append", "ack", "prescan", "clear_batches"}
  BY DEF NewBatch, AppendFile, UploadFails, Ack, PutFile, Demo, TakeBatch, Prescan, Unlock, LockVault, ClearBatches,
         Dispatch, observed
<1>2. \/ Leave(t)
      \/ victim' = victim /\ (pc' = pc \/ \E l \in Labels \ {"drop"} : pc' = [pc EXCEPT ![t] = l])
  BY DEF NewBatch, AppendFile, UploadFails, Ack, PutFile, Demo, TakeBatch, Prescan, Unlock, LockVault, ClearBatches,
         Goto, Labels, request
<1>3. \A u \in Threads \ {t} : pc'[u] = pc[u] /\ victim'[u] = victim[u]
  BY <1>2, OneMoves
<1>4. pc'[t] # "drop"
  BY <1>0, <1>1, <1>2 DEF Leave, Goto
<1>5. pc'[t] \in Clearing => locks' # 0 \/ pc[t] \in Clearing
  <2>1. CASE LockVault(t)
    BY <1>0, <2>1 DEF LockVault
  <2>2. CASE ClearBatches(t)
    BY <2>2 DEF ClearBatches, Clearing
  <2>3. CASE ~LockVault(t) /\ ~ClearBatches(t)
    <3>1. pc[t] \in {"idle", "append", "ack", "prescan"}
      BY <2>3 DEF NewBatch, AppendFile, UploadFails, Ack, PutFile, Demo, TakeBatch, Prescan, Unlock, Dispatch
    <3>2. pc' = pc \/ \E l \in {"idle", "append", "ack", "prescan", "files"} : pc' = [pc EXCEPT ![t] = l]
      BY <2>3 DEF NewBatch, AppendFile, UploadFails, Ack, PutFile, Demo, TakeBatch, Prescan, Unlock, Leave, Goto, request
    <3> QED BY <1>0, <3>1, <3>2 DEF Clearing
  <2> QED BY <2>1, <2>2, <2>3
<1> QED BY <1>1, <1>3, <1>4, <1>5 DEF Moves

\* Requests that run a batch, and the end of a lock.
LEMMA InsideMoves ==
    ASSUME MInv, NEW t \in Threads,
           \/ ProcessFile(t) \/ StoreResult(t) \/ EndOfList(t) \/ Trim(t) \/ PickOldest(t)
           \/ DropOldest(t) \/ Reply(t) \/ ClearResults(t)
    PROVE  Moves(t)
<1>0. pc \in [Threads -> Labels] /\ Len(results) \in Nat
  BY DEF MInv, MemoryType, IInv, TypeOK
<1>1. CASE ProcessFile(t) \/ EndOfList(t)
  <2>1. pc[t] = "files" /\ UNCHANGED <<results, stored, victim>>
    BY <1>1 DEF ProcessFile, EndOfList, observed
  <2>2. pc' = pc \/ \E l \in {"store", "trim"} : pc' = [pc EXCEPT ![t] = l]
    BY <1>1 DEF ProcessFile, EndOfList, Goto
  <2>3. pc'[t] \in {"files", "store", "trim"}
    BY <1>0, <2>1, <2>2
  <2> QED BY <2>1, <2>2, <2>3, OneMoves DEF Moves
<1>2. CASE StoreResult(t)
  <2>1. Stored(t)
    BY <1>2 DEF StoreResult, Goto, uploads, Stored
  <2>2. \A u \in Threads \ {t} : pc'[u] = pc[u] /\ victim'[u] = victim[u]
    BY <2>1, OneMoves DEF Stored
  <2> QED BY <2>1, <2>2 DEF Moves
<1>3. CASE Trim(t)
  <2>1. /\ pc[t] = "trim" /\ Len(results) > MAX_RESULTS /\ pc' = [pc EXCEPT ![t] = "drop"]
        /\ UNCHANGED <<results, stored, victim>>
    BY <1>3 DEF Trim, TooMany, Goto, observed
  <2>2. pc'[t] = "drop"
    BY <1>0, <2>1
  <2> QED BY <2>1, <2>2, OneMoves DEF Moves
<1>4. CASE Reply(t)
  <2>1. Leave(t) /\ pc[t] = "trim" /\ Len(results) <= MAX_RESULTS /\ UNCHANGED <<results, stored>>
    BY <1>0, <1>4, ServerAssumption DEF Reply, TooMany
  <2>2. pc'[t] = "idle"
    BY <1>0, <2>1 DEF Leave, Goto
  <2> QED BY <2>1, <2>2, OneMoves DEF Moves
<1>5. CASE PickOldest(t)
  <2>1. UNCHANGED <<results, stored>> /\ pc[t] = "drop"
    BY <1>5 DEF PickOldest, observed
  <2>2. CASE results = << >>
    <3>1. Leave(t) /\ pc'[t] = "idle"
      BY <1>0, <1>5, <2>2 DEF PickOldest, Leave, Goto
    <3> QED BY <2>1, <2>2, <3>1, OneMoves DEF Moves
  <2>3. CASE results # << >>
    <3>1. Picked(t)
      BY <1>5, <2>1, <2>3 DEF PickOldest, Picked
    <3>2. \A u \in Threads \ {t} : pc'[u] = pc[u] /\ victim'[u] = victim[u]
      BY <3>1, OneMoves DEF Picked
    <3> QED BY <3>1, <3>2 DEF Moves
  <2> QED BY <2>2, <2>3
<1>6. CASE DropOldest(t)
  <2>1. CASE Dropped(t)
    <3>1. \A u \in Threads \ {t} : pc'[u] = pc[u] /\ victim'[u] = victim[u]
      BY <2>1, OneMoves DEF Dropped
    <3> QED BY <2>1, <3>1 DEF Moves
  <2>2. CASE ~Dropped(t)
    <3>1. results' = results /\ stored' = stored
      BY <1>6, <2>2, DropIs DEF Same
    <3>2. Leave(t) /\ pc[t] = "drop" /\ victim[t] # None
      BY <1>6, <3>1 DEF DropOldest
    <3>3. ~\E k \in 1 .. Len(results) : results[k] = victim[t]
      <4> SUFFICES ASSUME \E k \in 1 .. Len(results) : results[k] = victim[t] PROVE FALSE
        OBVIOUS
      <4>1. /\ results \in Seq(Keys)
            /\ \A k \in 1 .. Len(results) : results[k] = victim[t] => k = 1
        BY <3>2 DEF MInv, MemoryType, Victims
      <4>2. results' = Tail(results) /\ results # << >>
        BY <1>6, <4>1, RemoveFirstIs DEF DropOldest
      <4> QED BY <3>1, <4>1, <4>2
    <3>4. pc'[t] = "idle"
      BY <1>0, <3>2 DEF Leave, Goto
    <3>5. ~Trimmer(t)
      BY <3>2, <3>3 DEF Trimmer
    <3> QED BY <3>1, <3>2, <3>4, <3>5, OneMoves DEF Moves
  <2> QED BY <2>1, <2>2
<1>7. CASE ClearResults(t)
  <2>1. Leave(t) /\ pc[t] = "clear_results" /\ results' = << >> /\ stored' = << >>
    BY <1>7 DEF ClearResults
  <2>2. pc'[t] = "idle"
    BY <1>0, <2>1 DEF Leave, Goto
  <2> QED BY <2>1, <2>2, OneMoves DEF Moves
<1> QED BY <1>1, <1>2, <1>3, <1>4, <1>5, <1>6, <1>7

\* Every step is the move of a request, the end of the process, or neither.
LEMMA StepMoves ==
    ASSUME MInv, [Next]_vars
    PROVE  \/ \E t \in Threads : Moves(t)
           \/ Exit
           \/ UNCHANGED <<pc, victim, results, stored>>
<1>1. ASSUME NEW t \in Threads,
             \/ NewBatch(t) \/ AppendFile(t) \/ UploadFails(t) \/ Ack(t) \/ \E b \in Batches : PutFile(t, b)
             \/ Demo(t) \/ \E b \in Batches, d \in {"anonymize", "restore"} : TakeBatch(t, b, d)
             \/ Prescan(t) \/ Unlock(t) \/ LockVault(t) \/ ClearBatches(t)
      PROVE  Moves(t)
  BY <1>1, OutsideMoves
<1>2. ASSUME NEW t \in Threads,
             \/ ProcessFile(t) \/ StoreResult(t) \/ EndOfList(t) \/ Trim(t) \/ PickOldest(t)
             \/ DropOldest(t) \/ Reply(t) \/ ClearResults(t)
      PROVE  Moves(t)
  BY <1>2, InsideMoves
<1>3. ASSUME CloseWindow \/ Silence \/ Watchdog \/ Quit \/ UNCHANGED vars
      PROVE  UNCHANGED <<pc, victim, results, stored>>
  BY <1>3 DEF CloseWindow, Silence, Watchdog, Quit, vars, request, observed
<1> QED BY <1>1, <1>2, <1>3 DEF Next

\* Results are added at the end and taken away at the front.
LEMMA NewestStays == ASSUME MInv, Newest, [Next]_vars PROVE Newest'
<1> DEFINE n == Len(results)
           m == Len(stored)
<1>0. results \in Seq(Keys) /\ stored \in Seq(Keys) /\ n \in Nat /\ m \in Nat
  BY DEF MInv, MemoryType
<1>1. n <= m /\ \A k \in 1 .. n : results[k] = stored[(m - n) + k]
  BY DEF Newest
<1>2. CASE Same
  BY <1>2 DEF Same, Newest
<1>3. CASE Emptied
  BY <1>3 DEF Emptied, Newest
<1>4. ASSUME NEW t \in Threads, Picked(t) PROVE Newest'
  BY <1>4 DEF Picked, Newest
<1>5. ASSUME NEW t \in Threads, Stored(t) PROVE Newest'
  <2> DEFINE key == <<job[t], turn[t]>>
  <2>1. results' = Append(results, key) /\ stored' = Append(stored, key)
    BY <1>5 DEF Stored
  <2>2. key \in Keys
    BY <1>5, ServerAssumption DEF Stored, MInv, IInv, TypeOK, Taken, InRun, Batches, Keys
  <2> HIDE DEF key
  <2>3. /\ Len(results') = n + 1 /\ results'[n + 1] = key /\ \A k \in 1 .. n : results'[k] = results[k]
        /\ Len(stored') = m + 1 /\ stored'[m + 1] = key /\ \A k \in 1 .. m : stored'[k] = stored[k]
    BY <1>0, <2>1, <2>2, AppendProperties
  <2> HIDE DEF n, m
  <2>4. n + 1 <= m + 1 /\ (m + 1) - (n + 1) = m - n
    BY <1>0, <1>1
  <2>5. ASSUME NEW k \in 1 .. n + 1 PROVE results'[k] = stored'[(m - n) + k]
    <3>1. CASE k = n + 1
      <4>1. (m - n) + k = m + 1
        BY <1>0, <3>1
      <4> QED BY <2>3, <3>1, <4>1
    <3>2. CASE k # n + 1
      <4>1. k \in 1 .. n /\ (m - n) + k \in 1 .. m
        BY <1>0, <1>1, <3>2
      <4> QED BY <1>1, <2>3, <4>1
    <3> QED BY <3>1, <3>2
  <2> QED BY <2>3, <2>4, <2>5 DEF Newest
<1>6. ASSUME NEW t \in Threads, Dropped(t) PROVE Newest'
  <2>1. results' = Tail(results) /\ stored' = stored /\ results # << >>
    BY <1>6 DEF Dropped
  <2>2. n >= 1 /\ Len(results') = n - 1 /\ \A k \in 1 .. n - 1 : results'[k] = results[k + 1]
    BY <1>0, <2>1, HeadTailProperties
  <2>3. Len(stored') = m /\ stored' = stored
    BY <2>1
  <2> HIDE DEF n, m
  <2>4. n - 1 <= m
    BY <1>0, <1>1
  <2>5. ASSUME NEW k \in 1 .. n - 1 PROVE results'[k] = stored'[(m - (n - 1)) + k]
    <3>1. k + 1 \in 1 .. n /\ (m - n) + (k + 1) = (m - (n - 1)) + k
      BY <1>0, <1>1, <2>2
    <3>2. results[k + 1] = stored[(m - n) + (k + 1)]
      BY <1>1, <3>1
    <3> QED BY <2>2, <2>3, <3>1, <3>2
  <2> QED BY <2>2, <2>3, <2>4, <2>5 DEF Newest
<1> QED BY <1>2, <1>3, <1>4, <1>5, <1>6, StepIs

\* Who loses the race for the oldest result has lost it to a request that looks again.
LEMMA TrimmedStays == ASSUME MInv, Trimmed, [Next]_vars PROVE Trimmed'
<1>0. /\ results \in Seq(Keys) /\ Len(results) \in Nat /\ MAX_RESULTS \in Nat /\ pc \in [Threads -> Labels]
      /\ victim \in [Threads -> Keys \cup {None}]
  BY ServerAssumption DEF MInv, MemoryType, IInv, TypeOK
<1>1. CASE Exit
  BY <1>0, <1>1 DEF Exit, Trimmed
<1>2. CASE UNCHANGED <<pc, victim, results, stored>>
  BY <1>2 DEF Trimmed, Trimmer
<1>3. ASSUME NEW t \in Threads, Moves(t) PROVE Trimmed'
  <2>0. /\ \A u \in Threads \ {t} : pc'[u] = pc[u] /\ victim'[u] = victim[u]
    BY <1>3 DEF Moves
  <2>1. ASSUME UNCHANGED results, Len(results) > MAX_RESULTS, ~Trimmer(t) \/ Trimmer(t)' PROVE Trimmed'
    <3>1. PICK u \in Threads : Trimmer(u)
      BY <2>1 DEF Trimmed
    <3>2. u # t => Trimmer(u)'
      BY <2>0, <2>1, <3>1 DEF Trimmer
    <3>3. \E v \in Threads : Trimmer(v)'
      BY <2>1, <3>1, <3>2
    <3> QED BY <3>3 DEF Trimmed
  <2>2. ASSUME Len(results') <= MAX_RESULTS, Len(results') \in Nat PROVE Trimmed'
    BY <1>0, <2>2 DEF Trimmed
  <2>3. ASSUME pc'[t] \in {"files", "store", "trim"} PROVE Trimmed'
    BY <2>3 DEF Trimmed, Trimmer
  <2>4. CASE pc[t] \notin {"files", "store", "trim", "drop"} /\ UNCHANGED results
    <3>1. ~Trimmer(t)
      BY <2>4 DEF Trimmer
    <3> QED BY <1>0, <2>1, <2>2, <2>4, <3>1
  <2>5. CASE results' = << >>
    BY <1>0, <2>2, <2>5
  <2>6. CASE Stored(t)
    BY <1>0, <2>3, <2>6 DEF Stored
  <2>7. CASE pc[t] = "trim" /\ pc'[t] = "drop" /\ UNCHANGED <<results, victim>>
    <3>1. victim[t] = None
      BY <2>7 DEF MInv, Victims
    <3>2. Trimmer(t)'
      BY <2>7, <3>1 DEF Trimmer
    <3> QED BY <1>0, <2>1, <2>2, <2>7, <3>2
  <2>8. CASE Len(results) <= MAX_RESULTS /\ UNCHANGED results
    BY <1>0, <2>2, <2>8
  <2>9. CASE (results = << >> \/ ~Trimmer(t)) /\ UNCHANGED results
    BY <1>0, <2>1, <2>2, <2>9
  <2>10. CASE Picked(t)
    <3>1. results # << >> /\ UNCHANGED results /\ pc'[t] = "drop" /\ victim' = [victim EXCEPT ![t] = Head(results)]
      BY <1>0, <2>10 DEF Picked
    <3>2. victim'[t] = results[1] /\ 1 \in 1 .. Len(results)
      BY <1>0, <3>1
    <3>3. Trimmer(t)'
      BY <3>1, <3>2 DEF Trimmer
    <3> QED BY <1>0, <2>1, <2>2, <3>1, <3>3
  <2>11. CASE Dropped(t)
    BY <1>0, <2>3, <2>11 DEF Dropped
  <2> QED BY <1>3, <2>3, <2>4, <2>5, <2>6, <2>7, <2>8, <2>9, <2>10, <2>11 DEF Moves
<1> QED BY <1>1, <1>2, <1>3, StepMoves

\* Counting the requests that are about to drop a result.
LEMMA DroppingIs ==
    ASSUME NEW D \in SUBSET Threads
    PROVE  /\ IsFiniteSet(D) /\ Cardinality(D) \in Nat /\ Cardinality(Threads) \in Nat
           /\ Cardinality(D) <= Cardinality(Threads)
  BY ServerAssumption, FS_Subset, FS_CardinalityType

\* A result is dropped by a request that stops being about to drop one.
LEMMA KeptStays == ASSUME MInv, Kept, [Next]_vars PROVE Kept'
<1> DEFINE N == Cardinality(Threads)
           d == Cardinality(Dropping)
           n == Len(results)
           m == Len(stored)
<1>0. /\ results \in Seq(Keys) /\ stored \in Seq(Keys) /\ n \in Nat /\ m \in Nat /\ MAX_RESULTS \in Nat
      /\ pc \in [Threads -> Labels] /\ pc' \in [Threads -> Labels] /\ locks \in Nat
  <2>1. pc' \in [Threads -> Labels]
    BY StepKeeps DEF MInv, IInv, TypeOK
  <2> QED BY <2>1, ServerAssumption DEF MInv, MemoryType, IInv, TypeOK
<1>1. Dropping \in SUBSET Threads /\ Dropping' \in SUBSET Threads
  BY DEF Dropping
<1>2. /\ IsFiniteSet(Dropping) /\ d \in Nat /\ N \in Nat /\ d <= N /\ d' \in Nat /\ d' <= N
  BY <1>1, DroppingIs
<1>3. locks' \in Nat /\ (locks' = 0 => locks = 0)
  BY LocksGrow
<1>4. /\ n + (N - d) > MAX_RESULTS \/ m <= n + (N - d)
      /\ locks = 0 => n + (N - d) > MAX_RESULTS \/ (results = stored /\ Dropping = {})
      /\ locks = 0 => \A u \in Threads : pc[u] \notin Clearing
  BY DEF Kept, Waiting, Clearing
<1>5. ASSUME n' + (N - d') > MAX_RESULTS \/ m' <= n' + (N - d'),
             locks' = 0 => n' + (N - d') > MAX_RESULTS \/ (results' = stored' /\ Dropping' = {}),
             locks' = 0 => \A u \in Threads : pc'[u] \notin Clearing
      PROVE  Kept'
  BY <1>5 DEF Kept, Waiting, Clearing
<1>6. CASE Exit
  <2>1. results' = << >> /\ stored' = << >> /\ pc' = [t \in Threads |-> "idle"]
    BY <1>6 DEF Exit
  <2>2. n' = 0 /\ m' = 0 /\ Dropping' = {} /\ \A u \in Threads : pc'[u] \notin Clearing
    BY <2>1 DEF Dropping, Clearing
  <2>3. m' <= n' + (N - d')
    BY <1>2, <2>2
  <2> QED BY <1>5, <2>1, <2>2, <2>3
<1>7. CASE UNCHANGED <<pc, victim, results, stored>>
  <2>1. Dropping' = Dropping /\ d' = d /\ n' = n /\ m' = m
    BY <1>7 DEF Dropping
  <2> QED BY <1>3, <1>4, <1>5, <1>7, <2>1
<1>8. ASSUME NEW t \in Threads, Moves(t) PROVE Kept'
  <2>0. \A u \in Threads \ {t} : pc'[u] = pc[u]
    BY <1>8 DEF Moves
  <2>1. locks' = 0 => \A u \in Threads : pc'[u] \notin Clearing
    <3>1. pc'[t] \in Clearing => locks' # 0 \/ pc[t] \in Clearing
      BY <1>0, <1>8 DEF Moves, Stored, Picked, Dropped, Clearing
    <3> QED BY <1>3, <1>4, <2>0, <3>1
  <2>2. ASSUME pc[t] # "drop", pc'[t] # "drop" PROVE Dropping' = Dropping /\ d' = d
    BY <2>0, <2>2 DEF Dropping
  <2>3. ASSUME pc[t] = "drop", pc'[t] # "drop" PROVE Dropping # {} /\ d' = d - 1
    <3>1. Dropping' = Dropping \ {t} /\ t \in Dropping
      BY <2>0, <2>3 DEF Dropping
    <3> QED BY <1>2, <3>1, FS_RemoveElement
  <2>4. CASE pc[t] # "drop" /\ pc'[t] # "drop" /\ UNCHANGED <<results, stored>>
    BY <1>3, <1>4, <1>5, <2>1, <2>2, <2>4
  <2>5. CASE pc[t] = "clear_results" /\ results' = << >> /\ stored' = << >>
    <3>1. locks' # 0
      BY <1>3, <1>4, <2>5 DEF Clearing
    <3>2. m' <= n' + (N - d')
      <4>1. n' = 0 /\ m' = 0
        BY <2>5
      <4> QED BY <1>2, <4>1
    <3> QED BY <1>5, <2>1, <3>1, <3>2
  <2>6. CASE Stored(t)
    <3>1. pc[t] # "drop" /\ pc'[t] # "drop"
      BY <1>0, <2>6 DEF Stored
    <3>2. n' = n + 1 /\ m' = m + 1 /\ (results = stored => results' = stored')
      BY <1>0, <2>6 DEF Stored
    <3> HIDE DEF n, m, N
    <3>3. d' = d /\ Dropping' = Dropping
      BY <2>2, <3>1
    <3> HIDE DEF d
    <3>4. n' + (N - d') > MAX_RESULTS \/ m' <= n' + (N - d')
      BY <1>0, <1>2, <1>4, <3>2, <3>3
    <3>5. locks' = 0 => n' + (N - d') > MAX_RESULTS \/ (results' = stored' /\ Dropping' = {})
      BY <1>0, <1>2, <1>3, <1>4, <3>2, <3>3
    <3> QED BY <1>5, <2>1, <3>4, <3>5
  <2>7. CASE n > MAX_RESULTS /\ UNCHANGED <<results, stored>>
    <3>1. n' = n /\ n > MAX_RESULTS
      BY <2>7
    <3>2. n' + (N - d') > MAX_RESULTS
      <4>1. N - d' \in Nat
        BY <1>2
      <4>2. n \in Nat /\ MAX_RESULTS \in Nat
        BY <1>0
      <4>3. ASSUME NEW x \in Nat, NEW y \in Nat, NEW z \in Nat, x > z PROVE x + y > z
        BY <4>3
      <4> QED BY <3>1, <4>1, <4>2, <4>3
    <3> QED BY <1>5, <2>1, <3>2
  <2>8. CASE pc[t] = "drop" /\ pc'[t] # "drop" /\ UNCHANGED <<results, stored>>
    <3>1. n' = n /\ m' = m
      BY <2>8
    <3> HIDE DEF n, m, N
    <3>2. Dropping # {} /\ d' = d - 1
      BY <2>3, <2>8
    <3> HIDE DEF d
    <3>3. n' + (N - d') > MAX_RESULTS \/ m' <= n' + (N - d')
      BY <1>0, <1>2, <1>4, <3>1, <3>2
    <3>4. locks' = 0 => n' + (N - d') > MAX_RESULTS
      BY <1>0, <1>2, <1>3, <1>4, <3>1, <3>2
    <3> QED BY <1>5, <2>1, <3>3, <3>4
  <2>9. CASE Picked(t)
    <3>1. pc' = pc /\ UNCHANGED <<results, stored>>
      BY <2>9 DEF Picked
    <3>2. Dropping' = Dropping /\ d' = d /\ n' = n /\ m' = m
      BY <3>1 DEF Dropping
    <3> QED BY <1>3, <1>4, <1>5, <3>1, <3>2
  <2>10. CASE Dropped(t)
    <3>1. pc[t] = "drop" /\ pc'[t] # "drop"
      BY <1>0, <2>10 DEF Dropped
    <3>2. n' = n - 1 /\ m' = m
      BY <1>0, <2>10, HeadTailProperties DEF Dropped
    <3> HIDE DEF n, m, N
    <3>3. Dropping # {} /\ d' = d - 1
      BY <2>3, <3>1
    <3> HIDE DEF d
    <3>4. n' + (N - d') > MAX_RESULTS \/ m' <= n' + (N - d')
      BY <1>0, <1>2, <1>4, <3>2, <3>3
    <3>5. locks' = 0 => n' + (N - d') > MAX_RESULTS
      BY <1>0, <1>2, <1>3, <1>4, <3>2, <3>3
    <3> QED BY <1>5, <2>1, <3>4, <3>5
  <2> QED
    <3>1. pc[t] = "files" => pc[t] # "drop"
      OBVIOUS
    <3>2. pc'[t] \in {"files", "store", "trim"} => pc'[t] # "drop"
      OBVIOUS
    <3> QED BY <1>8, <2>4, <2>5, <2>6, <2>7, <2>8, <2>9, <2>10, <3>1, <3>2 DEF Moves
<1> QED BY <1>6, <1>7, <1>8, StepMoves

-----------------------------------------------------------------------------
\* What trimming relies on, in every reachable state.
THEOREM MemoryInvariance == Spec => []RInv
<1>1. Init => RInv
  <2> SUFFICES ASSUME Init PROVE RInv
    OBVIOUS
  <2>1. IInv
    BY InitHolds
  <2>2. /\ results = << >> /\ stored = << >> /\ locks = 0
        /\ pc = [t \in Threads |-> "idle"] /\ victim = [t \in Threads |-> None]
    BY DEF Init
  <2>3. << >> \in Seq(Keys) /\ Len(<< >>) = 0
    BY EmptySeq
  <2>4. Alone /\ MemoryType /\ Fresh /\ Victims
    BY <2>2, <2>3 DEF Alone, MemoryType, Fresh, Victims, InRun
  <2>5. Newest /\ Trimmed
    BY <2>2, ServerAssumption DEF Newest, Trimmed
  <2>6. Dropping = {} /\ \A t \in Threads : pc[t] \notin {"clear_batches", "clear_results"}
    BY <2>2 DEF Dropping
  <2>7. Waiting \in Nat
    BY <2>6, DroppingIs DEF Waiting
  <2>8. Len(stored) <= Len(results) + Waiting
    BY <2>2, <2>7
  <2>9. Kept
    BY <2>2, <2>6, <2>8 DEF Kept
  <2> QED BY <2>1, <2>4, <2>5, <2>9 DEF MInv, RInv
<1>2. RInv /\ [Next]_vars => RInv'
  BY MemoryStays, NewestStays, TrimmedStays, KeptStays DEF RInv
<1> QED BY <1>1, <1>2, PTL DEF Spec

\* Memory is bounded once no request is in progress, for any number of requests that
\* trim it at the same time (run_batch).
THEOREM MemoryIsBounded == Spec => []ResultsBounded
<1>1. RInv => ResultsBounded
  <2> SUFFICES ASSUME RInv, Quiet PROVE Len(results) <= MAX_RESULTS
    BY DEF ResultsBounded
  <2>1. \A t \in Threads : ~Trimmer(t)
    BY DEF Quiet, Trimmer
  <2>2. Len(results) \in Nat /\ MAX_RESULTS \in Nat
    BY ServerAssumption DEF RInv, MInv, MemoryType
  <2> QED BY <2>1, <2>2 DEF RInv, Trimmed
<1> QED BY <1>1, MemoryInvariance, PTL

\* What is left is the newest, and enough of it, for any number of requests that trim
\* and of locks that come in between (run_batch, clear_memory).
THEOREM NewestResultsStay == Spec => []NewestKept
<1>1. RInv => NewestKept
  <2> SUFFICES ASSUME RInv PROVE NewestKept
    OBVIOUS
  <2>1. results \in Seq(Keys) /\ stored \in Seq(Keys)
    BY DEF RInv, MInv, MemoryType
  <2>2. IsSuffix(results, stored)
    BY <2>1, SuffixIs DEF RInv, Newest
  <2>3. Dropping \in SUBSET Threads
    BY DEF Dropping
  <2>4. Waiting \in Nat /\ Waiting <= Cardinality(Threads) /\ Cardinality(Threads) \in Nat
    BY <2>3, DroppingIs DEF Waiting
  <2>5. Len(results) \in Nat /\ Len(stored) \in Nat /\ MAX_RESULTS \in Nat
    BY <2>1, ServerAssumption
  <2>6. Kept
    BY DEF RInv
  <2>7. Len(results) + Waiting <= Len(results) + Cardinality(Threads)
    BY <2>4, <2>5
  <2>8. /\ Len(results) + Waiting > MAX_RESULTS => Len(results) + Cardinality(Threads) > MAX_RESULTS
        /\ Len(stored) <= Len(results) + Waiting => Len(stored) <= Len(results) + Cardinality(Threads)
    BY <2>4, <2>5, <2>7
  <2> QED BY <2>2, <2>6, <2>8 DEF Kept, NewestKept
<1> QED BY <1>1, MemoryInvariance, PTL
===============================================================================
