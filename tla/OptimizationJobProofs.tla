------------------------ MODULE OptimizationJobProofs ------------------------
(***************************************************************************)
(* Proofs about OptimizationJob, for any number of jobs, processes and     *)
(* requests.  The inductive invariant is built in layers, each proved from *)
(* the ones below it: types; who attends a running row; which claim a      *)
(* process computes for; what a stored result and its trips come from.     *)
(***************************************************************************)
EXTENDS OptimizationJob, TLAPS

(* A process in the middle of process(), and a request past its first read, *)
(* hold a job; a process that is about to store an answer has one.          *)
WorkerHasJob ==
  \A w \in Workers : worker[w].pc \notin {"idle", "dead"} => worker[w].job \in Jobs
WorkerHasAnswer ==
  \A w \in Workers : worker[w].pc \in {"check", "store"} => worker[w].found \in SolverStatus
CancelHasJob == \A c \in Cancels : cancel[c].pc \in {"write", "remove"} => cancel[c].job \in Jobs
ApplyHasJob  == \A a \in Applies : apply[a].pc \in {"load", "commit"} => apply[a].job \in Jobs

Typed == TypeOK /\ WorkerHasJob /\ WorkerHasAnswer /\ CancelHasJob /\ ApplyHasJob

LEMMA TypedInit == Init => Typed
  <1> SUFFICES ASSUME Init PROVE Typed
    OBVIOUS
  <1>1. TypeOK
    BY JobsAssumption, WorkersAssumption
    DEF Init, TypeOK, Row, Status, Waiting, Finished, Cancelled, Entry, Solving, Worker,
        Cancel, Apply, Trips, NoEntry, IdleWorker
  <1>2. WorkerHasJob /\ WorkerHasAnswer /\ CancelHasJob /\ ApplyHasJob
    BY DEF Init, WorkerHasJob, WorkerHasAnswer, CancelHasJob, ApplyHasJob, IdleWorker
  <1> QED
    BY <1>1, <1>2 DEF Typed

-----------------------------------------------------------------------------
(* What the helpers of the actions do to a well-typed state.                *)

PC == {"idle", "dead", "read", "ackCancel", "claim", "done", "throw"} \cup Solving

LEMMA GotoTyped ==
  ASSUME Typed, NEW w \in Workers, NEW l \in PC \ {"idle", "dead"},
         worker[w].pc \notin {"idle", "dead"}, Goto(w, l) \/ Leave(w, l),
         l \in {"check", "store"} => worker[w].pc = "check" /\ Goto(w, l)
  PROVE  worker' \in [Workers -> Worker] /\ WorkerHasJob' /\ WorkerHasAnswer'
  <1>1. worker \in [Workers -> Worker] /\ worker[w] \in Worker /\ worker[w].job \in Jobs
    BY DEF Typed, TypeOK, WorkerHasJob
  <1>2. worker' \in [Workers -> Worker]
    BY <1>1 DEF Goto, Leave, Worker, PC
  <1>3. ASSUME NEW v \in Workers, worker'[v].pc \notin {"idle", "dead"}
        PROVE  worker'[v].job \in Jobs
    <2>1. CASE v = w
      BY <1>1, <2>1 DEF Goto, Leave, Worker
    <2>2. CASE v # w
      BY <1>1, <1>3, <2>2 DEF Goto, Leave, Typed, WorkerHasJob
    <2> QED BY <2>1, <2>2
  <1>4. ASSUME NEW v \in Workers, worker'[v].pc \in {"check", "store"}
        PROVE  worker'[v].found \in SolverStatus
    <2>1. CASE v = w
      BY <1>1, <1>4, <2>1 DEF Goto, Leave, Worker, Typed, WorkerHasAnswer
    <2>2. CASE v # w
      BY <1>1, <1>4, <2>2 DEF Goto, Leave, Typed, WorkerHasAnswer
    <2> QED BY <2>1, <2>2
  <1> QED
    BY <1>2, <1>3, <1>4 DEF WorkerHasJob, WorkerHasAnswer

LEMMA AddTyped ==
  ASSUME TypeOK, NEW j \in Jobs, Add(j)
  PROVE  entry' \in [Jobs -> Entry]
  <1>1. [NoEntry EXCEPT !.state = "waiting"] \in Entry
    BY DEF NoEntry, Entry
  <1>2. entry \in [Jobs -> Entry]
    BY DEF TypeOK
  <1> QED
    BY <1>1, <1>2 DEF Add

-----------------------------------------------------------------------------

LEMMA TypedWorker ==
  ASSUME Typed, NEW w \in Workers, WorkerStep(w)
  PROVE  Typed'
  <1> DEFINE j == worker[w].job
  <1>1. /\ row \in [Jobs -> Row] /\ entry \in [Jobs -> Entry]
        /\ worker \in [Workers -> Worker] /\ worker[w] \in Worker
    BY DEF Typed, TypeOK
  <1>2. worker[w].pc \notin {"idle", "dead"} /\ j \in Jobs
    BY DEF Typed, WorkerHasJob, WorkerStep, Read, AckCancel, Claim, SaveSnapshot, Solve,
           CheckCancel, DropResult, Finalize, Catch, Return, Reject
  <1>3. row[j] \in Row /\ entry[j] \in Entry
    BY <1>1, <1>2
  <1>4. row' \in [Jobs -> Row] /\ results' \in [Jobs -> Nat]
    <2>1. CASE AckCancel(w)
      BY <2>1, <1>1, <1>2, <1>3 DEF AckCancel, Typed, TypeOK, Row, Status, Cancelled, outcome
    <2>2. CASE Claim(w)
      BY <2>2, <1>1, <1>2, <1>3 DEF Claim, Typed, TypeOK, Row, Status, outcome
    <2>3. CASE SaveSnapshot(w)
      BY <2>3, <1>1, <1>2, <1>3 DEF SaveSnapshot, Typed, TypeOK, Row, outcome
    <2>4. CASE DropResult(w)
      BY <2>4, <1>1, <1>2, <1>3 DEF DropResult, Typed, TypeOK, Row, Status, Cancelled, outcome
    <2>5. CASE Finalize(w)
      <3>1. worker[w].claim \in Nat /\ worker[w].found \in SolverStatus
        BY <2>5, <1>1 DEF Worker, Finalize, Typed, WorkerHasAnswer
      <3>2. StatusOf(worker[w].found) \in Status
        BY <3>1, SolverAssumption DEF StatusOf, Status, Finished
      <3>3. results \in [Jobs -> Nat]
        BY DEF Typed, TypeOK
      <3>4. CASE ~Leased(w)
        BY <2>5, <3>3, <3>4, <1>1 DEF Finalize
      <3>5. CASE Leased(w)
        <4>1. \E s \in Status, n \in Nat :
                /\ row' = [row EXCEPT ![j].status = s, ![j].lease = "none",
                                     ![j].owner = NoWorker, ![j].result = n]
                /\ results' = [results EXCEPT ![j] = n]
          BY <2>5, <3>1, <3>2, <3>5 DEF Finalize
        <4> QED BY <4>1, <3>3, <1>1, <1>2, <1>3 DEF Row
      <3> QED BY <3>4, <3>5
    <2>6. CASE Catch(w)
      BY <2>6, <1>1, <1>2, <1>3 DEF Catch, Typed, TypeOK, Row, Status, Finished, Waiting, outcome
    <2>7. CASE Read(w) \/ Solve(w) \/ CheckCancel(w) \/ Return(w) \/ Reject(w)
      BY <2>7 DEF Read, Solve, CheckCancel, Return, Reject, Typed, TypeOK, outcome
    <2> QED
      BY <2>1, <2>2, <2>3, <2>4, <2>5, <2>6, <2>7 DEF WorkerStep
  <1>5. entry' \in [Jobs -> Entry]
    <2>1. CASE Return(w)
      BY <2>1, <1>1, <1>2, <1>3 DEF Return, Entry
    <2>2. CASE Reject(w)
      BY <2>2, <1>1, <1>2, <1>3 DEF Reject, Entry
    <2>3. CASE entry' = entry
      BY <2>3, <1>1
    <2> QED
      BY <2>1, <2>2, <2>3
      DEF WorkerStep, Read, AckCancel, Claim, SaveSnapshot, Solve, CheckCancel, DropResult,
          Finalize, Catch
  <1>6. worker' \in [Workers -> Worker] /\ WorkerHasJob' /\ WorkerHasAnswer'
    <2>1. CASE Read(w)
      <3>1. \E l \in {"done", "ackCancel", "claim"} : Goto(w, l)
        BY <2>1 DEF Read
      <3> QED BY <3>1, <1>2, GotoTyped DEF PC
    <2>2. CASE AckCancel(w) \/ DropResult(w) \/ Finalize(w)
      BY <2>2, <1>2, GotoTyped DEF AckCancel, DropResult, Finalize, PC
    <2>3. CASE Claim(w)
      <3>1. CASE Claimable(j)
        <4>1. worker' = [worker EXCEPT ![w].pc = "load", ![w].claim = row[j].attempts + 1]
          BY <2>3, <3>1 DEF Claim
        <4>2. row[j].attempts + 1 \in Nat
          BY <1>3 DEF Row
        <4>3. worker' \in [Workers -> Worker]
          BY <4>1, <4>2, <1>1 DEF Worker, Solving
        <4>4. \A v \in Workers : worker'[v].job = worker[v].job
          BY <4>1, <1>1 DEF Worker
        <4>5. /\ worker'[w].pc = "load"
              /\ \A v \in Workers : v # w => worker'[v] = worker[v]
          BY <4>1, <1>1 DEF Worker
        <4> QED BY <4>3, <4>4, <4>5, <1>2 DEF Typed, WorkerHasJob, WorkerHasAnswer
      <3>2. CASE ~Claimable(j)
        BY <2>3, <3>2, <1>2, GotoTyped DEF Claim, PC
      <3> QED BY <3>1, <3>2
    <2>4. CASE SaveSnapshot(w)
      BY <2>4, <1>2, GotoTyped DEF SaveSnapshot, PC, Solving
    <2>5. CASE Solve(w)
      <3>1. PICK s \in SolverStatus :
              worker' = [worker EXCEPT ![w].pc = "check", ![w].found = s]
        BY <2>5 DEF Solve
      <3>2. worker' \in [Workers -> Worker]
        BY <3>1, <1>1 DEF Worker, Solving
      <3>3. \A v \in Workers : worker'[v].job = worker[v].job
        BY <3>1, <1>1 DEF Worker
      <3>4. /\ worker'[w].found \in SolverStatus
            /\ \A v \in Workers : v # w => worker'[v] = worker[v]
        BY <3>1, <1>1 DEF Worker
      <3>5. WorkerHasJob'
        BY <3>3, <3>4, <1>2 DEF Typed, WorkerHasJob
      <3>6. WorkerHasAnswer'
        BY <3>4 DEF Typed, WorkerHasAnswer
      <3> QED BY <3>2, <3>5, <3>6
    <2>6. CASE CheckCancel(w)
      <3>1. worker[w].pc = "check" /\ \E l \in {"drop", "store"} : Goto(w, l)
        BY <2>6 DEF CheckCancel
      <3> QED BY <3>1, <1>2, GotoTyped DEF PC, Solving
    <2>7. CASE Catch(w)
      BY <2>7, <1>2, GotoTyped DEF Catch, PC
    <2>8. CASE Return(w) \/ Reject(w)
      <3>1. worker' = [worker EXCEPT ![w] = IdleWorker]
        BY <2>8 DEF Return, Reject
      <3>2. IdleWorker \in Worker /\ IdleWorker.pc = "idle"
        BY DEF IdleWorker, Worker
      <3>3. worker' \in [Workers -> Worker]
        BY <3>1, <3>2, <1>1
      <3> QED BY <3>1, <3>2, <3>3, <1>1 DEF Typed, WorkerHasJob, WorkerHasAnswer
    <2> QED
      BY <2>1, <2>2, <2>3, <2>4, <2>5, <2>6, <2>7, <2>8 DEF WorkerStep
  <1>7. UNCHANGED <<trips, event, requests, faults>>
    BY DEF WorkerStep, Read, AckCancel, Claim, SaveSnapshot, Solve, CheckCancel, DropResult,
           Finalize, Catch, Return, Reject, outcome
  <1> QED
    BY <1>4, <1>5, <1>6, <1>7
    DEF Typed, TypeOK, CancelHasJob, ApplyHasJob, requests

LEMMA TypedFault ==
  ASSUME Typed, NEW w \in Workers, WorkerFault(w)
  PROVE  Typed'
  <1>1. /\ row \in [Jobs -> Row] /\ worker \in [Workers -> Worker] /\ worker[w] \in Worker
        /\ faults \in Nat
    BY DEF Typed, TypeOK
  <1>2. CASE StatementError(w) \/ Fail(w)
    <2>1. worker' \in [Workers -> Worker] /\ WorkerHasJob' /\ WorkerHasAnswer'
      <3>1. worker[w].pc \notin {"idle", "dead"}
        BY <1>2 DEF StatementError, Fail, Solving
      <3> QED BY <3>1, <1>2, GotoTyped DEF StatementError, Fail, PC, Solving
    <2>2. UNCHANGED <<row, results, trips, event, entry, scanned, cancel, apply>>
      BY <1>2 DEF StatementError, Fail, outcome, requests
    <2>3. faults' \in Nat
      BY <1>1, <1>2 DEF StatementError, Fail, Fault
    <2> QED BY <2>1, <2>2, <2>3 DEF Typed, TypeOK, CancelHasJob, ApplyHasJob
  <1>3. CASE Crash(w)
    <2> DEFINE d == [IdleWorker EXCEPT !.pc = "dead"]
    <2>1. d \in Worker /\ d.pc = "dead"
      BY DEF IdleWorker, Worker
    <2>2. worker' = [worker EXCEPT ![w] = d]
      BY <1>3 DEF Crash
    <2> HIDE DEF d
    <2>3. worker' \in [Workers -> Worker] /\ WorkerHasJob' /\ WorkerHasAnswer'
      BY <2>1, <2>2, <1>1 DEF Typed, WorkerHasJob, WorkerHasAnswer
    <2>4. UNCHANGED <<row, results, trips, event, entry, scanned, cancel, apply>>
      BY <1>3 DEF Crash, outcome, requests
    <2>5. faults' \in Nat
      BY <1>1, <1>3 DEF Crash, Fault
    <2> QED BY <2>3, <2>4, <2>5 DEF Typed, TypeOK, CancelHasJob, ApplyHasJob
  <1>4. CASE Heartbeat(w)
    <2>1. worker[w].job \in Jobs
      BY <1>4 DEF Heartbeat, Solving, Typed, WorkerHasJob
    <2>2. row' \in [Jobs -> Row]
      BY <2>1, <1>1, <1>4 DEF Heartbeat, Row
    <2>3. UNCHANGED <<results, trips, event, entry, worker, scanned, cancel, apply, faults>>
      BY <1>4 DEF Heartbeat, outcome, requests
    <2> QED BY <2>2, <2>3
            DEF Typed, TypeOK, WorkerHasJob, WorkerHasAnswer, CancelHasJob, ApplyHasJob
  <1> QED
    BY <1>2, <1>3, <1>4 DEF WorkerFault

LEMMA TypedQueue ==
  ASSUME Typed, NEW j \in Jobs, Create(j) \/ Queue(j) \/ ExpireLease(j)
  PROVE  Typed'
  <1>1. /\ row \in [Jobs -> Row] /\ row[j] \in Row /\ entry \in [Jobs -> Entry]
        /\ entry[j] \in Entry /\ worker \in [Workers -> Worker] /\ faults \in Nat
        /\ event \in [Jobs -> {"none", "pending", "published"}]
    BY DEF Typed, TypeOK
  <1>2. CASE Create(j)
    <2>1. row' \in [Jobs -> Row]
      BY <1>1, <1>2 DEF Create, Row, Status, Waiting
    <2>2. event' \in [Jobs -> {"none", "pending", "published"}]
      BY <1>1, <1>2 DEF Create
    <2>3. UNCHANGED <<results, trips, entry, worker, scanned, cancel, apply, faults>>
      BY <1>2 DEF Create, outcome, requests
    <2> QED BY <2>1, <2>2, <2>3
            DEF Typed, TypeOK, WorkerHasJob, WorkerHasAnswer, CancelHasJob, ApplyHasJob
  <1>3. CASE PublishOptimizationJob(j)
    <2>1. entry' \in [Jobs -> Entry]
      BY <1>3, AddTyped DEF PublishOptimizationJob, Typed
    <2>2. event' \in [Jobs -> {"none", "pending", "published"}]
      BY <1>1, <1>3 DEF PublishOptimizationJob
    <2>3. UNCHANGED <<row, results, trips, worker, scanned, cancel, apply, faults>>
      BY <1>3 DEF PublishOptimizationJob, outcome, requests
    <2> QED BY <2>1, <2>2, <2>3
            DEF Typed, TypeOK, WorkerHasJob, WorkerHasAnswer, CancelHasJob, ApplyHasJob
  <1>4. CASE Stall(j)
    <2>1. entry' \in [Jobs -> Entry]
      BY <1>1, <1>4 DEF Stall, Entry
    <2>2. faults' \in Nat
      BY <1>1, <1>4 DEF Stall, Fault
    <2>3. UNCHANGED <<row, results, trips, event, worker, scanned, cancel, apply>>
      BY <1>4 DEF Stall, outcome, requests
    <2> QED BY <2>1, <2>2, <2>3
            DEF Typed, TypeOK, WorkerHasJob, WorkerHasAnswer, CancelHasJob, ApplyHasJob
  <1>5. CASE Evict(j)
    <2>1. NoEntry \in Entry
      BY DEF NoEntry, Entry
    <2>2. entry' \in [Jobs -> Entry]
      BY <2>1, <1>1, <1>5 DEF Evict
    <2>3. UNCHANGED <<row, results, trips, event, worker, scanned, cancel, apply, faults>>
      BY <1>5 DEF Evict, outcome, requests
    <2> QED BY <2>2, <2>3
            DEF Typed, TypeOK, WorkerHasJob, WorkerHasAnswer, CancelHasJob, ApplyHasJob
  <1>6. ASSUME NEW w \in Workers, Deliver(w, j) PROVE Typed'
    <2> DEFINE r == [IdleWorker EXCEPT !.pc = "read", !.job = j, !.made = entry[j].made]
    <2>1. entry' \in [Jobs -> Entry]
      BY <1>1, <1>6 DEF Deliver, Entry
    <2>2. r \in Worker /\ r.pc = "read" /\ r.job = j
      <3>1. entry[j].made \in Nat
        BY <1>1 DEF Entry
      <3> QED BY <3>1 DEF IdleWorker, Worker
    <2>3. worker' = [worker EXCEPT ![w] = r]
      BY <1>6 DEF Deliver
    <2> HIDE DEF r
    <2>4. worker' \in [Workers -> Worker] /\ WorkerHasJob' /\ WorkerHasAnswer'
      BY <2>2, <2>3, <1>1 DEF Typed, WorkerHasJob, WorkerHasAnswer
    <2>5. UNCHANGED <<row, results, trips, event, scanned, cancel, apply, faults>>
      BY <1>6 DEF Deliver, outcome, requests
    <2> QED BY <2>1, <2>4, <2>5 DEF Typed, TypeOK, CancelHasJob, ApplyHasJob
  <1>7. CASE ExpireLease(j)
    <2>1. row' \in [Jobs -> Row]
      BY <1>1, <1>7 DEF ExpireLease, Row
    <2>2. faults' \in Nat
      BY <1>1, <1>7 DEF ExpireLease, Fault
    <2>3. UNCHANGED <<results, trips, event, entry, worker, scanned, cancel, apply>>
      BY <1>7 DEF ExpireLease, outcome, requests
    <2> QED BY <2>1, <2>2, <2>3
            DEF Typed, TypeOK, WorkerHasJob, WorkerHasAnswer, CancelHasJob, ApplyHasJob
  <1> QED
    BY <1>2, <1>3, <1>4, <1>5, <1>6, <1>7 DEF Queue

LEMMA TypedFlush ==
  ASSUME Typed, Flush
  PROVE  Typed'
  <1>1. NoEntry \in Entry /\ faults \in Nat
    BY DEF NoEntry, Entry, Typed, TypeOK
  <1>2. entry' \in [Jobs -> Entry] /\ faults' \in Nat
    BY <1>1 DEF Flush, Fault
  <1>3. UNCHANGED <<row, results, trips, event, worker, scanned, cancel, apply>>
    BY DEF Flush, outcome, requests
  <1> QED
    BY <1>2, <1>3 DEF Typed, TypeOK, WorkerHasJob, WorkerHasAnswer, CancelHasJob, ApplyHasJob

LEMMA TypedRecover ==
  ASSUME Typed, Recover
  PROVE  Typed'
  <1> DEFINE Scan == [Jobs -> {"no", "queue", "expired"}]
  <1>1. row \in [Jobs -> Row] /\ scanned \in Scan
    BY DEF Typed, TypeOK
  <1>2. CASE RecoverScan
    <2>1. scanned' \in Scan
      BY <1>2 DEF RecoverScan, Recoverable
    <2>2. UNCHANGED <<row, results, trips, event, entry, worker, cancel, apply, faults>>
      BY <1>2 DEF RecoverScan, outcome
    <2> QED BY <2>1, <2>2
            DEF Typed, TypeOK, WorkerHasJob, WorkerHasAnswer, CancelHasJob, ApplyHasJob
  <1>3. ASSUME NEW j \in Jobs, RecoverRelease(j) PROVE Typed'
    <2>1. row' \in [Jobs -> Row]
      BY <1>1, <1>3 DEF RecoverRelease, Row, Status, Waiting
    <2>2. scanned' \in Scan
      BY <1>1, <1>3 DEF RecoverRelease
    <2>3. UNCHANGED <<results, trips, event, entry, worker, cancel, apply, faults>>
      BY <1>3 DEF RecoverRelease, outcome
    <2> QED BY <2>1, <2>2, <2>3
            DEF Typed, TypeOK, WorkerHasJob, WorkerHasAnswer, CancelHasJob, ApplyHasJob
  <1>4. ASSUME NEW j \in Jobs, RecoverEnqueue(j) PROVE Typed'
    <2>1. entry' \in [Jobs -> Entry]
      BY <1>4, AddTyped DEF RecoverEnqueue, Typed
    <2>2. scanned' \in Scan
      BY <1>1, <1>4 DEF RecoverEnqueue
    <2>3. UNCHANGED <<row, results, trips, event, worker, cancel, apply, faults>>
      BY <1>4 DEF RecoverEnqueue, outcome
    <2> QED BY <2>1, <2>2, <2>3
            DEF Typed, TypeOK, WorkerHasJob, WorkerHasAnswer, CancelHasJob, ApplyHasJob
  <1> QED
    BY <1>2, <1>3, <1>4 DEF Recover

LEMMA TypedCancel ==
  ASSUME Typed, NEW c \in Cancels, CancelStep(c)
  PROVE  Typed'
  <1>1. /\ row \in [Jobs -> Row] /\ entry \in [Jobs -> Entry]
        /\ cancel \in [Cancels -> Cancel] /\ cancel[c] \in Cancel
    BY DEF Typed, TypeOK
  <1>2. CASE CancelWrite(c)
    <2>1. cancel[c].job \in Jobs
      BY <1>2 DEF CancelWrite, Typed, CancelHasJob
    <2>2. row' \in [Jobs -> Row]
      BY <2>1, <1>1, <1>2 DEF CancelWrite, CancelledFrom, Row, Status, Cancelled
    <2>3. cancel' \in [Cancels -> Cancel] /\ CancelHasJob'
      BY <2>1, <1>1, <1>2 DEF CancelWrite, Cancel, Status, Typed, CancelHasJob
    <2>4. UNCHANGED <<results, trips, event, entry, worker, scanned, apply, faults>>
      BY <1>2 DEF CancelWrite, outcome
    <2> QED BY <2>2, <2>3, <2>4
            DEF Typed, TypeOK, WorkerHasJob, WorkerHasAnswer, ApplyHasJob
  <1>3. CASE CancelRemove(c)
    <2>1. NoEntry \in Entry
      BY DEF NoEntry, Entry
    <2>2. entry' \in [Jobs -> Entry]
      BY <2>1, <1>1, <1>3 DEF CancelRemove
    <2>3. cancel' \in [Cancels -> Cancel] /\ CancelHasJob'
      BY <1>1, <1>3 DEF CancelRemove, Cancel, Typed, CancelHasJob
    <2>4. UNCHANGED <<row, results, trips, event, worker, scanned, apply, faults>>
      BY <1>3 DEF CancelRemove, outcome
    <2> QED BY <2>2, <2>3, <2>4
            DEF Typed, TypeOK, WorkerHasJob, WorkerHasAnswer, ApplyHasJob
  <1>4. ASSUME NEW j \in Jobs, CancelRead(c, j) PROVE Typed'
    <2>1. row[j].status \in Status
      BY <1>1 DEF Row
    <2>2. cancel' \in [Cancels -> Cancel] /\ CancelHasJob'
      BY <2>1, <1>1, <1>4 DEF CancelRead, Cancel, Typed, CancelHasJob
    <2>3. UNCHANGED <<row, results, trips, event, entry, worker, scanned, apply, faults>>
      BY <1>4 DEF CancelRead, outcome
    <2> QED BY <2>2, <2>3
            DEF Typed, TypeOK, WorkerHasJob, WorkerHasAnswer, ApplyHasJob
  <1> QED
    BY <1>2, <1>3, <1>4 DEF CancelStep

LEMMA TypedApply ==
  ASSUME Typed, NEW a \in Applies, ApplyStep(a)
  PROVE  Typed'
  <1>1. /\ row \in [Jobs -> Row] /\ trips \in [Jobs -> SUBSET Trips]
        /\ results \in [Jobs -> Nat] /\ apply \in [Applies -> Apply] /\ apply[a] \in Apply
    BY DEF Typed, TypeOK
  <1>2. ASSUME NEW j \in Jobs, ApplyRead(a, j) PROVE Typed'
    <2>1. apply' \in [Applies -> Apply] /\ ApplyHasJob'
      BY <1>1, <1>2 DEF ApplyRead, Apply, Typed, ApplyHasJob
    <2>2. UNCHANGED <<row, results, trips, event, entry, worker, scanned, cancel, faults>>
      BY <1>2 DEF ApplyRead, outcome
    <2> QED BY <2>1, <2>2 DEF Typed, TypeOK, WorkerHasJob, WorkerHasAnswer, CancelHasJob
  <1>3. CASE ApplyLoad(a)
    <2>1. apply[a].job \in Jobs /\ results[apply[a].job] \in Nat
      BY <1>1, <1>3 DEF ApplyLoad, Typed, ApplyHasJob
    <2>2. apply' \in [Applies -> Apply] /\ ApplyHasJob'
      BY <2>1, <1>1, <1>3 DEF ApplyLoad, Apply, Typed, ApplyHasJob
    <2>3. UNCHANGED <<row, results, trips, event, entry, worker, scanned, cancel, faults>>
      BY <1>3 DEF ApplyLoad, outcome
    <2> QED BY <2>2, <2>3 DEF Typed, TypeOK, WorkerHasJob, WorkerHasAnswer, CancelHasJob
  <1>4. CASE ApplyCommit(a)
    <2>1. apply[a].job \in Jobs /\ apply[a].claim \in Nat
      BY <1>1, <1>4 DEF ApplyCommit, Apply, Typed, ApplyHasJob
    <2>2. row' \in [Jobs -> Row]
      <3>1. [row[apply[a].job] EXCEPT !.status = "APPLIED"] \in Row
        <4>1. "APPLIED" \in Status
          BY DEF Status, Finished
        <4> QED BY <4>1, <2>1, <1>1 DEF Row
      <3>2. row' = [row EXCEPT ![apply[a].job] = [row[apply[a].job] EXCEPT !.status = "APPLIED"]]
        BY <2>1, <1>1, <1>4 DEF ApplyCommit
      <3> QED BY <3>1, <3>2, <2>1, <1>1
    <2>3. trips' \in [Jobs -> SUBSET Trips]
      <3>1. [by |-> a, claim |-> apply[a].claim] \in Trips
        BY <2>1 DEF Trips
      <3> QED BY <3>1, <1>1, <1>4 DEF ApplyCommit
    <2>4. apply' \in [Applies -> Apply] /\ ApplyHasJob'
      BY <1>1, <1>4 DEF ApplyCommit, Apply, Typed, ApplyHasJob
    <2>5. UNCHANGED <<results, event, entry, worker, scanned, cancel, faults>>
      BY <1>4 DEF ApplyCommit
    <2> QED BY <2>2, <2>3, <2>4, <2>5
            DEF Typed, TypeOK, WorkerHasJob, WorkerHasAnswer, CancelHasJob
  <1>5. CASE ApplyRefuse(a)
    <2>1. apply' \in [Applies -> Apply] /\ ApplyHasJob'
      BY <1>1, <1>5 DEF ApplyRefuse, Apply, Typed, ApplyHasJob
    <2>2. UNCHANGED <<row, results, trips, event, entry, worker, scanned, cancel, faults>>
      BY <1>5 DEF ApplyRefuse, outcome
    <2> QED BY <2>1, <2>2 DEF Typed, TypeOK, WorkerHasJob, WorkerHasAnswer, CancelHasJob
  <1> QED
    BY <1>2, <1>3, <1>4, <1>5 DEF ApplyStep

LEMMA TypedStep == Typed /\ [Next]_vars => Typed'
  <1> SUFFICES ASSUME Typed, [Next]_vars PROVE Typed'
    OBVIOUS
  <1>1. CASE UNCHANGED vars
    BY <1>1
    DEF vars, Typed, TypeOK, WorkerHasJob, WorkerHasAnswer, CancelHasJob, ApplyHasJob
  <1>2. CASE Next
    BY <1>2, TypedWorker, TypedFault, TypedQueue, TypedFlush, TypedRecover, TypedCancel,
       TypedApply
    DEF Next
  <1> QED
    BY <1>1, <1>2

(* Every reachable state is well typed, whatever the jobs, the processes    *)
(* and the requests.                                                        *)
THEOREM TypeCorrect == Spec => []TypeOK
  <1>1. Spec => []Typed
    BY TypedInit, TypedStep, PTL DEF Spec
  <1>2. Typed => TypeOK
    BY DEF Typed
  <1> QED
    BY <1>1, <1>2, PTL

-----------------------------------------------------------------------------
(* How one step may change the row of a job, seen through the columns the   *)
(* safety properties depend on.                                             *)

SameCount(j) == row'[j].attempts = row[j].attempts
SameMark(j)  == row'[j].cancelledAt = row[j].cancelledAt

RowKept(j) ==
  /\ row'[j].status = row[j].status /\ row'[j].owner = row[j].owner
  /\ SameCount(j) /\ SameMark(j)
RowCreated(j)  == row[j].status = "ABSENT" /\ row'[j].status = "PENDING" /\ SameCount(j) /\ SameMark(j)
RowClaimed(j)  ==
  \E w \in Workers : /\ worker[w].pc = "claim" /\ worker[w].job = j /\ Claim(w)
                     /\ Claimable(j)
                     /\ row'[j].status = "RUNNING" /\ row'[j].owner = w
                     /\ row'[j].attempts = row[j].attempts + 1 /\ SameMark(j)
RowReleased(j) ==
  /\ row[j].status = "RUNNING" /\ row'[j].status \in Waiting \cup Finished
  /\ SameCount(j) /\ SameMark(j)
RowCancelled(j) == row'[j].status \in Cancelled /\ SameCount(j)
RowApplied(j)   == Applicable(j) /\ row'[j].status = "APPLIED" /\ SameCount(j) /\ SameMark(j)

RowStep(j) ==
  \/ RowKept(j) \/ RowCreated(j) \/ RowClaimed(j) \/ RowReleased(j) \/ RowCancelled(j)
  \/ RowApplied(j)

LEMMA RowStepOfWorker ==
  ASSUME Typed, NEW w \in Workers, WorkerStep(w) \/ WorkerFault(w), NEW j \in Jobs
  PROVE  RowStep(j)
  <1>1. /\ row \in [Jobs -> Row] /\ row[j] \in Row
        /\ worker \in [Workers -> Worker] /\ worker[w] \in Worker
    BY DEF Typed, TypeOK
  <1>2. CASE row' = row
    BY <1>2 DEF RowStep, RowKept, SameCount, SameMark
  <1>3. worker[w].pc \notin {"idle", "dead"} => worker[w].job \in Jobs
    BY DEF Typed, WorkerHasJob
  <1>4. CASE AckCancel(w)
    BY <1>1, <1>3, <1>4
    DEF AckCancel, RowStep, RowKept, RowCancelled, SameCount, SameMark, Row, Cancelled
  <1>5. CASE Claim(w) /\ row' # row
    <2>1. /\ Claimable(worker[w].job) /\ worker[w].pc = "claim"
          /\ row' = [row EXCEPT ![worker[w].job].status = "RUNNING", ![worker[w].job].owner = w,
                                ![worker[w].job].lease = "live",
                                ![worker[w].job].attempts = @ + 1]
      BY <1>5 DEF Claim
    <2>2. CASE worker[w].job = j
      BY <2>1, <2>2, <1>1, <1>5 DEF RowStep, RowClaimed, SameMark, Row
    <2>3. CASE worker[w].job # j
      BY <2>1, <2>3, <1>1 DEF RowStep, RowKept, SameCount, SameMark
    <2> QED BY <2>2, <2>3
  <1>6. CASE SaveSnapshot(w) \/ Heartbeat(w)
    BY <1>1, <1>3, <1>6 DEF SaveSnapshot, Heartbeat, RowStep, RowKept, SameCount, SameMark, Row
  <1>7. CASE DropResult(w)
    BY <1>1, <1>3, <1>7
    DEF DropResult, RowStep, RowKept, RowCancelled, SameCount, SameMark, Row, Cancelled
  <1>8. CASE Finalize(w) /\ row' # row
    <2>1. StatusOf(worker[w].found) \in Finished
      BY <1>8, SolverAssumption DEF Finalize, Typed, WorkerHasAnswer, StatusOf, Finished
    <2>2. /\ Leased(w) /\ worker[w].pc = "store"
          /\ \E s \in Finished : row' = [row EXCEPT ![worker[w].job].status = s,
                   ![worker[w].job].lease = "none", ![worker[w].job].owner = NoWorker,
                   ![worker[w].job].result = worker[w].claim]
      BY <1>8, <2>1 DEF Finalize
    <2>3. CASE worker[w].job = j
      BY <2>2, <2>3, <1>1, <1>3 DEF Leased, RowStep, RowReleased, SameCount, SameMark, Row
    <2>4. CASE worker[w].job # j
      BY <2>2, <2>4, <1>1 DEF RowStep, RowKept, SameCount, SameMark
    <2> QED BY <2>3, <2>4
  <1>9. CASE Catch(w) /\ row' # row
    <2>1. /\ Leased(w) /\ worker[w].pc = "catch"
          /\ \E s \in {"FAILED", "RETRYING"} :
               row' = [row EXCEPT ![worker[w].job].status = s, ![worker[w].job].lease = "none",
                                  ![worker[w].job].owner = NoWorker]
      BY <1>9 DEF Catch
    <2>2. CASE worker[w].job = j
      BY <2>1, <2>2, <1>1
      DEF Leased, RowStep, RowReleased, SameCount, SameMark, Row, Waiting, Finished
    <2>3. CASE worker[w].job # j
      BY <2>1, <2>3, <1>1 DEF RowStep, RowKept, SameCount, SameMark
    <2> QED BY <2>2, <2>3
  <1> QED
    BY <1>2, <1>4, <1>5, <1>6, <1>7, <1>8, <1>9
    DEF WorkerStep, WorkerFault, Read, Solve, CheckCancel, Return, Reject, StatementError, Fail, Crash

LEMMA RowStepOfNext ==
  ASSUME Typed, [Next]_vars, NEW j \in Jobs
  PROVE  RowStep(j)
  <1>1. row \in [Jobs -> Row] /\ row[j] \in Row
    BY DEF Typed, TypeOK
  <1>2. CASE row' = row
    BY <1>2 DEF RowStep, RowKept, SameCount, SameMark
  <1>3. ASSUME NEW i \in Jobs, Create(i) \/ Queue(i) \/ ExpireLease(i) PROVE RowStep(j)
    <2>1. CASE Create(i)
      BY <2>1, <1>1 DEF Create, RowStep, RowKept, RowCreated, SameCount, SameMark, Row
    <2>2. CASE ExpireLease(i)
      BY <2>2, <1>1 DEF ExpireLease, RowStep, RowKept, SameCount, SameMark, Row
    <2>3. CASE Queue(i)
      BY <2>3, <1>2 DEF Queue, PublishOptimizationJob, Stall, Evict, Deliver
    <2> QED BY <1>3, <2>1, <2>2, <2>3
  <1>4. CASE Recover
    <2>1. ASSUME NEW i \in Jobs, RecoverRelease(i), row' # row PROVE RowStep(j)
      BY <2>1, <1>1
      DEF RecoverRelease, RowStep, RowKept, RowReleased, SameCount, SameMark, Row, Waiting
    <2> QED BY <2>1, <1>2, <1>4 DEF Recover, RecoverScan, RecoverEnqueue
  <1>5. ASSUME NEW c \in Cancels, CancelStep(c) PROVE RowStep(j)
    <2>1. CASE CancelWrite(c)
      <3>1. \E s \in Cancelled :
              row' = [row EXCEPT ![cancel[c].job].status = s, ![cancel[c].job].cancelledAt = TRUE]
        BY <2>1 DEF CancelWrite, CancelledFrom, Cancelled
      <3>2. CASE cancel[c].job = j
        BY <3>1, <3>2, <1>1 DEF RowStep, RowCancelled, SameCount, Row
      <3>3. CASE cancel[c].job # j
        BY <3>1, <3>3, <1>1 DEF RowStep, RowKept, SameCount, SameMark
      <3> QED BY <3>2, <3>3
    <2> QED BY <2>1, <1>2, <1>5 DEF CancelStep, CancelRemove, CancelRead
  <1>6. ASSUME NEW a \in Applies, ApplyStep(a) PROVE RowStep(j)
    <2>1. CASE ApplyCommit(a)
      BY <2>1, <1>1 DEF ApplyCommit, RowStep, RowKept, RowApplied, SameCount, SameMark, Row
    <2> QED BY <2>1, <1>2, <1>6 DEF ApplyStep, ApplyLoad, ApplyRefuse, ApplyRead
  <1> QED
    BY <1>2, <1>3, <1>4, <1>5, <1>6, RowStepOfWorker DEF Next, Flush, vars

(* A finished or cancelled job is never queued or run again, by whichever   *)
(* of the processes, timers and requests makes the step.                    *)
THEOREM NothingResurrects == Spec => NoResurrection
  <1>1. Spec => []Typed
    BY TypedInit, TypedStep, PTL DEF Spec
  <1>2. ASSUME Typed, [Next]_vars
        PROVE  [\A j \in Jobs : row[j].status \in Finished \cup Cancelled
                  => row'[j].status \in Finished \cup Cancelled]_vars
    <2>1. ASSUME NEW j \in Jobs, row[j].status \in Finished \cup Cancelled
          PROVE  row'[j].status \in Finished \cup Cancelled
      <3>1. RowStep(j)
        BY <1>2, RowStepOfNext
      <3> QED BY <3>1, <2>1
              DEF RowStep, RowKept, RowCreated, RowClaimed, RowReleased, RowCancelled, RowApplied,
                  Claimable, Waiting, Finished, Cancelled
    <2> QED BY <2>1
  <1> QED
    BY <1>1, <1>2, PTL DEF Spec, NoResurrection

-----------------------------------------------------------------------------
(* Who attends a running row.                                               *)

(* A process only moves by a step of its own or by being handed a job.      *)
LEMMA WorkerMove ==
  ASSUME Typed, [Next]_vars, NEW w \in Workers
  PROVE  \/ worker'[w] = worker[w]
         \/ WorkerStep(w)
         \/ WorkerFault(w)
         \/ worker[w].pc = "idle" /\ worker'[w].pc = "read"
  <1>1. worker \in [Workers -> Worker]
    BY DEF Typed, TypeOK
  <1>2. CASE worker' = worker
    BY <1>2
  <1>3. ASSUME NEW v \in Workers, WorkerStep(v) \/ WorkerFault(v), v # w
        PROVE  worker'[w] = worker[w]
    BY <1>1, <1>3
    DEF WorkerStep, WorkerFault, Read, AckCancel, Claim, SaveSnapshot, Solve, CheckCancel,
        DropResult, Finalize, Catch, Return, Reject, StatementError, Fail, Crash, Heartbeat, Goto, Leave
  <1>4. ASSUME NEW v \in Workers, NEW j \in Jobs, Deliver(v, j)
        PROVE  worker'[w] = worker[w] \/ (worker[w].pc = "idle" /\ worker'[w].pc = "read")
    <2> DEFINE r == [IdleWorker EXCEPT !.pc = "read", !.job = j, !.made = entry[j].made]
    <2>1. r.pc = "read"
      BY DEF IdleWorker
    <2>2. worker' = [worker EXCEPT ![v] = r] /\ worker[v].pc = "idle"
      BY <1>4 DEF Deliver
    <2> HIDE DEF r
    <2>3. CASE v = w
      BY <2>1, <2>2, <2>3, <1>1
    <2>4. CASE v # w
      BY <2>2, <2>4, <1>1
    <2> QED BY <2>3, <2>4
  <1>5. ASSUME NEW j \in Jobs, Create(j) \/ Queue(j) \/ ExpireLease(j)
        PROVE  worker' = worker \/ \E v \in Workers : Deliver(v, j)
    BY <1>5 DEF Create, Queue, ExpireLease, PublishOptimizationJob, Stall, Evict
  <1>6. Recover \/ Flush => worker' = worker
    BY DEF Recover, RecoverScan, RecoverRelease, RecoverEnqueue, Flush
  <1>7. ASSUME NEW c \in Cancels, CancelStep(c) PROVE worker' = worker
    BY <1>7 DEF CancelStep, CancelWrite, CancelRemove, CancelRead
  <1>8. ASSUME NEW a \in Applies, ApplyStep(a) PROVE worker' = worker
    BY <1>8 DEF ApplyStep, ApplyLoad, ApplyCommit, ApplyRefuse, ApplyRead
  <1> QED
    BY <1>2, <1>3, <1>4, <1>5, <1>6, <1>7, <1>8 DEF Next, vars

(* What the step of a process that holds the lease of its job may do: go on *)
(* with that job, under the same claim, or give the row up.                 *)
LEMMA SolverMove ==
  ASSUME Typed, NEW w \in Workers, WorkerStep(w) \/ WorkerFault(w),
         worker[w].pc \in Solving, Leased(w)
  PROVE  \/ /\ worker'[w].pc \in Solving /\ worker'[w].job = worker[w].job
            /\ worker'[w].pc # "catch" => /\ worker[w].pc # "catch"
                                          /\ worker'[w].claim = worker[w].claim
         \/ faults' = faults + 1
         \/ row'[worker[w].job].status # "RUNNING"
  <1> DEFINE j == worker[w].job
  <1>1. /\ worker \in [Workers -> Worker] /\ worker[w] \in Worker
        /\ row \in [Jobs -> Row] /\ j \in Jobs /\ row[j] \in Row
    BY DEF Typed, TypeOK, WorkerHasJob, Solving
  <1>2. CASE SaveSnapshot(w) \/ CheckCancel(w)
    BY <1>1, <1>2 DEF SaveSnapshot, CheckCancel, Goto, Solving, Worker
  <1>3. CASE Solve(w)
    BY <1>1, <1>3 DEF Solve, Solving, Worker
  <1>4. CASE DropResult(w)
    BY <1>1, <1>4 DEF DropResult, Row
  <1>5. CASE Finalize(w)
    <2>1. StatusOf(worker[w].found) # "RUNNING"
      BY <1>5, SolverAssumption DEF Finalize, Typed, WorkerHasAnswer, StatusOf
    <2>2. \E s : s # "RUNNING" /\
            row' = [row EXCEPT ![j].status = s, ![j].lease = "none",
                               ![j].owner = NoWorker, ![j].result = worker[w].claim]
      BY <1>5, <2>1 DEF Finalize
    <2> QED BY <2>2, <1>1 DEF Row
  <1>6. CASE Catch(w)
    BY <1>1, <1>6 DEF Catch, Row
  <1>7. CASE Fail(w)
    BY <1>1, <1>7 DEF Fail, Leave, Solving, Worker
  <1>8. CASE Crash(w)
    BY <1>8 DEF Crash, Fault
  <1>9. CASE Heartbeat(w)
    BY <1>9 DEF Heartbeat
  <1>10. CASE StatementError(w)
    BY <1>10 DEF StatementError, Fault
  <1> QED
    BY <1>2, <1>3, <1>4, <1>5, <1>6, <1>7, <1>8, <1>9,
       <1>10
    DEF WorkerStep, WorkerFault, Read, AckCancel, Claim, Return, Reject, Solving

(* The step that claims a job leaves its process solving it, under a claim  *)
(* numbered by the new attempt count.                                       *)
LEMMA ClaimMove ==
  ASSUME Typed, NEW w \in Workers, Claim(w), Claimable(worker[w].job)
  PROVE  /\ worker'[w].pc = "load" /\ worker'[w].job = worker[w].job
         /\ worker'[w].claim = row[worker[w].job].attempts + 1
  BY DEF Claim, Typed, TypeOK, Worker

(* A row is left behind by a crash or a failed database alone.              *)
THEOREM LeaseAttended == Spec => LeaseIsAttended
  <1>1. ASSUME Typed, [Next]_vars
        PROVE  [\A j \in Jobs, w \in Workers :
                  Unattended(j, w)' => Unattended(j, w) \/ faults' = faults + 1]_vars
    <2> SUFFICES ASSUME NEW j \in Jobs, NEW w \in Workers, Unattended(j, w)', ~Unattended(j, w)
                 PROVE  faults' = faults + 1
      OBVIOUS
    <2>1. RowKept(j) \/ RowClaimed(j)
      BY <1>1, RowStepOfNext
      DEF RowStep, RowCreated, RowReleased, RowCancelled, RowApplied, Unattended, Waiting,
          Finished, Cancelled
    <2>2. CASE RowClaimed(j)
      BY <1>1, <2>2, ClaimMove DEF RowClaimed, Unattended, Attends, Solving
    <2>3. CASE RowKept(j)
      <3>1. row[j].status = "RUNNING" /\ row[j].owner = w
        BY <2>3 DEF RowKept, Unattended
      <3>2. worker[w].job = j /\ worker[w].pc \in Solving
        BY <3>1 DEF Unattended, Attends
      <3>3. Leased(w)
        BY <3>1, <3>2 DEF Leased
      <3>4. worker'[w] # worker[w]
        BY <3>2 DEF Unattended, Attends
      <3>5. WorkerStep(w) \/ WorkerFault(w)
        BY <1>1, <3>2, <3>4, WorkerMove DEF Solving
      <3> QED BY <1>1, <3>2, <3>3, <3>5, SolverMove DEF Unattended, Attends
    <2> QED BY <2>1, <2>2, <2>3
  <1> QED
    BY <1>1, TypedInit, TypedStep, PTL DEF Spec, LeaseIsAttended

-----------------------------------------------------------------------------
(* Fencing: whose candidates are stored.                                    *)

Computing == {"load", "solve", "check", "store"}

(* A process that still holds the lease computes for the latest claim.      *)
ClaimIsLatest ==
  \A w \in Workers : worker[w].pc \in Computing /\ Leased(w)
                       => worker[w].claim = row[worker[w].job].attempts

(* Candidates are those of the latest claim, of a job that is over.         *)
ResultIsFinal ==
  \A j \in Jobs : results[j] # 0 => /\ results[j] = row[j].attempts
                                    /\ row[j].status \in Finished \cup Cancelled

Fenced == ClaimIsLatest /\ ResultIsFinal

LEMMA ClaimStaysLatest ==
  ASSUME Typed, ClaimIsLatest, [Next]_vars
  PROVE  ClaimIsLatest'
  <1> SUFFICES ASSUME NEW w \in Workers, worker'[w].pc \in Computing,
                      row'[worker'[w].job].status = "RUNNING", row'[worker'[w].job].owner = w
               PROVE  worker'[w].claim = row'[worker'[w].job].attempts
    BY DEF ClaimIsLatest, Leased
  <1> DEFINE j == worker'[w].job
  <1>1. j \in Jobs
    BY TypedStep DEF Typed, WorkerHasJob, Computing
  <1>2. RowKept(j) \/ RowClaimed(j)
    BY <1>1, RowStepOfNext
    DEF RowStep, RowCreated, RowReleased, RowCancelled, RowApplied, Waiting, Finished, Cancelled
  <1>3. CASE RowClaimed(j)
    BY <1>3, ClaimMove DEF RowClaimed
  <1>4. CASE RowKept(j)
    <2>1. /\ row[j].status = "RUNNING" /\ row[j].owner = w
          /\ row'[j].attempts = row[j].attempts
      BY <1>4 DEF RowKept, SameCount
    <2>2. CASE worker'[w] = worker[w]
      BY <2>1, <2>2 DEF ClaimIsLatest, Leased
    <2>3. CASE WorkerStep(w) \/ WorkerFault(w)
      <3>1. /\ worker[w].pc \in Computing /\ worker[w].job = j
            /\ worker'[w].claim = worker[w].claim
        <4>1. worker \in [Workers -> Worker] /\ worker[w] \in Worker
          BY DEF Typed, TypeOK
        <4>2. CASE SaveSnapshot(w) \/ CheckCancel(w) \/ Solve(w)
          BY <4>1, <4>2 DEF SaveSnapshot, CheckCancel, Solve, Goto, Worker, Computing
        <4>3. CASE Heartbeat(w)
          BY <4>3 DEF Heartbeat
        <4>4. CASE Claim(w)
          <5>1. Claimable(worker[w].job)
            <6>1. Leave(w, "done") => worker'[w].pc = "done"
              BY <4>1 DEF Leave, Worker
            <6> QED BY <6>1, <4>4 DEF Claim, Computing
          <5>2. worker[w].job = j
            BY <4>4, <5>1, ClaimMove
          <5>3. row \in [Jobs -> Row] /\ row[j] \in Row /\ row[j].attempts \in Nat
            BY <1>1 DEF Typed, TypeOK, Row
          <5>4. row'[j].attempts = row[j].attempts + 1
            BY <1>1, <4>4, <5>1, <5>2, <5>3 DEF Claim, Row
          <5> QED BY <2>1, <5>3, <5>4
        <4>5. CASE Read(w)
          BY <4>1, <4>5 DEF Read, Goto, Computing
        <4>6. CASE Return(w) \/ Reject(w) \/ Crash(w)
          BY <4>1, <4>6 DEF Return, Reject, Crash, IdleWorker, Computing
        <4>7. CASE \E l \in {"done", "throw", "catch"} : Leave(w, l)
          BY <4>1, <4>7 DEF Leave, Computing
        <4> QED
          BY <2>3, <4>2, <4>3, <4>4, <4>5, <4>6, <4>7
          DEF WorkerStep, WorkerFault, AckCancel, DropResult, Finalize, Catch, StatementError, Fail
      <3> QED BY <2>1, <3>1 DEF ClaimIsLatest, Leased
    <2> QED BY <2>2, <2>3, WorkerMove DEF Computing
  <1> QED
    BY <1>2, <1>3, <1>4

(* Candidates change only when their process stores them under its lease.   *)
LEMMA ResultStep ==
  ASSUME Typed, [Next]_vars, NEW j \in Jobs, results'[j] # results[j]
  PROVE  \E w \in Workers :
           /\ worker[w].pc = "store" /\ worker[w].job = j /\ Leased(w)
           /\ results'[j] = worker[w].claim
           /\ row'[j].status \in Finished /\ row'[j].attempts = row[j].attempts
  <1>1. /\ results \in [Jobs -> Nat] /\ row \in [Jobs -> Row] /\ row[j] \in Row
    BY DEF Typed, TypeOK
  <1>2. PICK w \in Workers : Finalize(w)
    <2>1. ASSUME NEW w \in Workers, WorkerStep(w) \/ WorkerFault(w) PROVE Finalize(w)
      BY <2>1
      DEF WorkerStep, WorkerFault, Read, AckCancel, Claim, SaveSnapshot, Solve, CheckCancel,
          DropResult, Catch, Return, Reject, StatementError, Fail, Crash, Heartbeat, outcome
    <2>2. ASSUME NEW i \in Jobs, Create(i) \/ Queue(i) \/ ExpireLease(i) PROVE FALSE
      BY <2>2
      DEF Create, Queue, ExpireLease, PublishOptimizationJob, Stall, Evict, Deliver, outcome
    <2>3. ~Recover /\ ~Flush
      BY DEF Recover, RecoverScan, RecoverRelease, RecoverEnqueue, Flush, outcome
    <2>4. ASSUME NEW c \in Cancels, CancelStep(c) PROVE FALSE
      BY <2>4 DEF CancelStep, CancelWrite, CancelRemove, CancelRead, outcome
    <2>5. ASSUME NEW a \in Applies, ApplyStep(a) PROVE FALSE
      BY <2>5 DEF ApplyStep, ApplyLoad, ApplyCommit, ApplyRefuse, ApplyRead, outcome
    <2> QED BY <2>1, <2>2, <2>3, <2>4, <2>5 DEF Next, vars
  <1>3. Leased(w) /\ worker[w].pc = "store" /\ worker[w].job = j /\ results'[j] = worker[w].claim
    BY <1>1, <1>2 DEF Finalize
  <1>4. StatusOf(worker[w].found) \in Finished
    BY <1>3, SolverAssumption DEF Typed, WorkerHasAnswer, StatusOf, Finished
  <1>5. \E s \in Finished :
          row' = [row EXCEPT ![j].status = s, ![j].lease = "none",
                             ![j].owner = NoWorker, ![j].result = worker[w].claim]
    BY <1>2, <1>3, <1>4 DEF Finalize
  <1> QED
    BY <1>1, <1>3, <1>5 DEF Row

LEMMA FencedStep ==
  ASSUME Typed, Fenced, [Next]_vars
  PROVE  Fenced'
  <1>1. ASSUME NEW j \in Jobs, results'[j] # 0
        PROVE  results'[j] = row'[j].attempts /\ row'[j].status \in Finished \cup Cancelled
    <2>1. CASE results'[j] # results[j]
      <3>1. PICK w \in Workers :
              /\ worker[w].pc = "store" /\ worker[w].job = j /\ Leased(w)
              /\ results'[j] = worker[w].claim
              /\ row'[j].status \in Finished /\ row'[j].attempts = row[j].attempts
        BY <2>1, ResultStep
      <3> QED BY <3>1 DEF Fenced, ClaimIsLatest, Computing
    <2>2. CASE results'[j] = results[j]
      <3>1. results[j] = row[j].attempts /\ row[j].status \in Finished \cup Cancelled
        BY <1>1, <2>2 DEF Fenced, ResultIsFinal
      <3>2. RowStep(j)
        BY RowStepOfNext
      <3> QED BY <2>2, <3>1, <3>2
              DEF RowStep, RowKept, RowCreated, RowClaimed, RowReleased, RowCancelled, RowApplied,
                  SameCount, Claimable, Waiting, Finished, Cancelled
    <2> QED BY <2>1, <2>2
  <1> QED
    BY <1>1, ClaimStaysLatest DEF Fenced, ResultIsFinal

LEMMA FencedInit == Init => Fenced
  BY DEF Init, Fenced, ClaimIsLatest, ResultIsFinal, IdleWorker, Computing

(* Stored candidates are never those of a superseded process.               *)
THEOREM LatestClaimStored == Spec => []StoredByLatestClaim
  <1>1. Fenced /\ Typed /\ [Next]_vars => Fenced'
    BY FencedStep
  <1>2. Fenced => StoredByLatestClaim
    BY DEF Fenced, ResultIsFinal, StoredByLatestClaim
  <1> QED
    BY <1>1, <1>2, FencedInit, TypedInit, TypedStep, PTL DEF Spec

-----------------------------------------------------------------------------
(* Applying and cancelling.                                                 *)

(* A request that read an applicable job finds it over ever after, and the  *)
(* candidates it loaded are still the stored ones.                          *)
RequestIsCurrent ==
  \A a \in Applies :
    apply[a].pc \in {"load", "commit"} =>
      /\ row[apply[a].job].status \in Finished \cup Cancelled
      /\ apply[a].pc = "commit" => apply[a].claim = results[apply[a].job]

TripsAreApplied == \A j \in Jobs : trips[j] # {} => row[j].status \in {"APPLIED"} \cup Cancelled

MarkIsCancelled == \A j \in Jobs : row[j].cancelledAt => row[j].status \in Cancelled

Applied == RequestIsCurrent /\ TripsAreApplied /\ AppliedOnce /\ MarkIsCancelled

LEMMA OverIsFrozen ==
  ASSUME Typed, [Next]_vars, NEW j \in Jobs, row[j].status \in Finished \cup Cancelled
  PROVE  row'[j].status \in Finished \cup Cancelled /\ results'[j] = results[j]
  <1>1. row'[j].status \in Finished \cup Cancelled
    BY RowStepOfNext
    DEF RowStep, RowKept, RowCreated, RowClaimed, RowReleased, RowCancelled, RowApplied,
        Claimable, Waiting, Finished, Cancelled
  <1>2. results'[j] = results[j]
    BY ResultStep DEF Leased, Finished, Cancelled
  <1> QED
    BY <1>1, <1>2

(* Trips are created by a request whose transaction finds the job applicable. *)
LEMMA TripStep ==
  ASSUME Typed, [Next]_vars, NEW j \in Jobs, trips'[j] # trips[j]
  PROVE  \E a \in Applies :
           /\ apply[a].pc = "commit" /\ apply[a].job = j /\ Applicable(j)
           /\ trips'[j] = trips[j] \cup {[by |-> a, claim |-> apply[a].claim]}
           /\ row'[j].status = "APPLIED"
  <1>1. trips \in [Jobs -> SUBSET Trips] /\ row \in [Jobs -> Row] /\ row[j] \in Row
    BY DEF Typed, TypeOK
  <1>2. PICK a \in Applies : ApplyCommit(a)
    <2>1. ASSUME NEW w \in Workers, WorkerStep(w) \/ WorkerFault(w) PROVE FALSE
      BY <2>1
      DEF WorkerStep, WorkerFault, Read, AckCancel, Claim, SaveSnapshot, Solve, CheckCancel,
          DropResult, Finalize, Catch, Return, Reject, StatementError, Fail, Crash, Heartbeat, outcome
    <2>2. ASSUME NEW i \in Jobs, Create(i) \/ Queue(i) \/ ExpireLease(i) PROVE FALSE
      BY <2>2
      DEF Create, Queue, ExpireLease, PublishOptimizationJob, Stall, Evict, Deliver, outcome
    <2>3. ~Recover /\ ~Flush
      BY DEF Recover, RecoverScan, RecoverRelease, RecoverEnqueue, Flush, outcome
    <2>4. ASSUME NEW c \in Cancels, CancelStep(c) PROVE FALSE
      BY <2>4 DEF CancelStep, CancelWrite, CancelRemove, CancelRead, outcome
    <2>5. ASSUME NEW a \in Applies, ApplyStep(a) PROVE ApplyCommit(a)
      BY <2>5 DEF ApplyStep, ApplyLoad, ApplyRefuse, ApplyRead, outcome
    <2> QED BY <2>1, <2>2, <2>3, <2>4, <2>5 DEF Next, vars
  <1>3. apply[a].job = j
    BY <1>1, <1>2 DEF ApplyCommit
  <1>4. /\ trips'[j] = trips[j] \cup {[by |-> a, claim |-> apply[a].claim]}
        /\ row'[j].status = "APPLIED"
    BY <1>1, <1>2, <1>3 DEF ApplyCommit, Row
  <1> QED
    BY <1>2, <1>3, <1>4 DEF ApplyCommit

LEMMA RequestStep ==
  ASSUME Typed, RequestIsCurrent, [Next]_vars
  PROVE  RequestIsCurrent'
  <1> SUFFICES ASSUME NEW a \in Applies, apply'[a].pc \in {"load", "commit"}
               PROVE  /\ row'[apply'[a].job].status \in Finished \cup Cancelled
                      /\ apply'[a].pc = "commit" => apply'[a].claim = results'[apply'[a].job]
    BY DEF RequestIsCurrent
  <1>1. apply \in [Applies -> Apply] /\ apply[a] \in Apply
    BY DEF Typed, TypeOK
  <1>2. CASE apply'[a] = apply[a]
    <2>1. apply[a].job \in Jobs
      BY <1>2 DEF Typed, ApplyHasJob
    <2> QED BY <1>2, <2>1, OverIsFrozen DEF RequestIsCurrent
  <1>3. CASE apply'[a] # apply[a]
    <2>1. ApplyStep(a)
      <3>1. ASSUME NEW w \in Workers, WorkerStep(w) \/ WorkerFault(w) PROVE apply' = apply
        BY <3>1
        DEF WorkerStep, WorkerFault, Read, AckCancel, Claim, SaveSnapshot, Solve, CheckCancel,
            DropResult, Finalize, Catch, Return, Reject, StatementError, Fail, Crash, Heartbeat,
            requests
      <3>2. ASSUME NEW i \in Jobs, Create(i) \/ Queue(i) \/ ExpireLease(i) PROVE apply' = apply
        BY <3>2
        DEF Create, Queue, ExpireLease, PublishOptimizationJob, Stall, Evict, Deliver, requests
      <3>3. Recover \/ Flush => apply' = apply
        BY DEF Recover, RecoverScan, RecoverRelease, RecoverEnqueue, Flush, requests
      <3>4. ASSUME NEW c \in Cancels, CancelStep(c) PROVE apply' = apply
        BY <3>4 DEF CancelStep, CancelWrite, CancelRemove, CancelRead
      <3>5. ASSUME NEW b \in Applies, ApplyStep(b) PROVE a = b
        BY <1>1, <1>3, <3>5 DEF ApplyStep, ApplyLoad, ApplyCommit, ApplyRefuse, ApplyRead
      <3> QED BY <1>3, <3>1, <3>2, <3>3, <3>4, <3>5 DEF Next, vars
    <2>2. ASSUME NEW j \in Jobs, ApplyRead(a, j)
          PROVE  /\ row'[apply'[a].job].status \in Finished \cup Cancelled
                 /\ apply'[a].pc # "commit"
      BY <2>2, <1>1 DEF ApplyRead, Applicable, Finished, Apply
    <2>3. CASE ApplyLoad(a)
      <3>1. /\ apply'[a].job = apply[a].job /\ apply'[a].claim = results[apply[a].job]
            /\ UNCHANGED <<row, results>> /\ apply[a].pc = "load"
        BY <2>3, <1>1 DEF ApplyLoad, Apply, outcome
      <3> QED BY <3>1 DEF RequestIsCurrent
    <2>4. CASE ApplyCommit(a) \/ ApplyRefuse(a)
      BY <2>4, <1>1 DEF ApplyCommit, ApplyRefuse, Apply
    <2> QED BY <2>1, <2>2, <2>3, <2>4 DEF ApplyStep
  <1> QED
    BY <1>2, <1>3

LEMMA AppliedStep ==
  ASSUME Typed, Applied, [Next]_vars
  PROVE  Applied'
  <1>1. ASSUME NEW j \in Jobs
        PROVE  /\ trips'[j] # {} => row'[j].status \in {"APPLIED"} \cup Cancelled
               /\ \A s, t \in trips'[j] : s = t /\ t.claim = results'[j]
    <2>1. CASE trips'[j] = trips[j]
      <3>1. CASE trips[j] = {}
        BY <2>1, <3>1
      <3>2. CASE trips[j] # {}
        <4>1. row[j].status \in {"APPLIED"} \cup Cancelled
          BY <3>2 DEF Applied, TripsAreApplied
        <4>2. results'[j] = results[j]
          BY <4>1, OverIsFrozen DEF Finished
        <4>3. row'[j].status \in {"APPLIED"} \cup Cancelled
          BY <4>1, RowStepOfNext
          DEF RowStep, RowKept, RowCreated, RowClaimed, RowReleased, RowCancelled, RowApplied,
              Claimable, Applicable, Waiting, Finished, Cancelled
        <4> QED BY <2>1, <4>2, <4>3 DEF Applied, AppliedOnce
      <3> QED BY <3>1, <3>2
    <2>2. CASE trips'[j] # trips[j]
      <3>1. PICK a \in Applies :
              /\ apply[a].pc = "commit" /\ apply[a].job = j /\ Applicable(j)
              /\ trips'[j] = trips[j] \cup {[by |-> a, claim |-> apply[a].claim]}
              /\ row'[j].status = "APPLIED"
        BY <2>2, TripStep
      <3>2. trips[j] = {}
        BY <3>1 DEF Applied, TripsAreApplied, Applicable, Cancelled
      <3>3. apply[a].claim = results[j] /\ results'[j] = results[j]
        BY <3>1, OverIsFrozen DEF Applied, RequestIsCurrent, Applicable, Finished
      <3> QED BY <3>1, <3>2, <3>3
    <2> QED BY <2>1, <2>2
  <1>2. ASSUME NEW j \in Jobs, row'[j].cancelledAt
        PROVE  row'[j].status \in Cancelled
    BY <1>2, RowStepOfNext
    DEF Applied, MarkIsCancelled, RowStep, RowKept, RowCreated, RowClaimed, RowReleased,
        RowCancelled, RowApplied, SameMark, Claimable, Applicable, Waiting, Finished, Cancelled
  <1>3. RequestIsCurrent'
    BY RequestStep DEF Applied
  <1> QED
    BY <1>1, <1>2, <1>3 DEF Applied, TripsAreApplied, AppliedOnce, MarkIsCancelled

LEMMA AppliedInit == Init => Applied
  BY DEF Init, Applied, RequestIsCurrent, TripsAreApplied, AppliedOnce, MarkIsCancelled

(* However many requests race to apply a job, one of them creates trips,    *)
(* from the candidates that are stored.                                     *)
THEOREM TripsOnce == Spec => []AppliedOnce
  <1>1. Applied /\ Typed /\ [Next]_vars => Applied'
    BY AppliedStep
  <1>2. Applied => AppliedOnce
    BY DEF Applied
  <1> QED
    BY <1>1, <1>2, AppliedInit, TypedInit, TypedStep, PTL DEF Spec

(* After a cancellation is recorded nothing is stored for the job and no    *)
(* trip is created from it.                                                 *)
THEOREM CancellationHonoured == Spec => CancelIsHonoured
  <1>1. Applied /\ Typed /\ [Next]_vars => Applied'
    BY AppliedStep
  <1>2. ASSUME Applied, Typed, [Next]_vars
        PROVE  [\A j \in Jobs : row[j].cancelledAt => UNCHANGED <<results[j], trips[j]>>]_vars
    <2>1. ASSUME NEW j \in Jobs, row[j].cancelledAt
          PROVE  results'[j] = results[j] /\ trips'[j] = trips[j]
      <3>1. row[j].status \in Cancelled
        BY <1>2, <2>1 DEF Applied, MarkIsCancelled
      <3>2. results'[j] = results[j]
        BY <1>2, <3>1, OverIsFrozen
      <3>3. trips'[j] = trips[j]
        BY <1>2, <3>1, TripStep DEF Applicable, Cancelled
      <3> QED BY <3>2, <3>3
    <2> QED BY <2>1
  <1> QED
    BY <1>1, <1>2, AppliedInit, TypedInit, TypedStep, PTL DEF Spec, CancelIsHonoured
=============================================================================
