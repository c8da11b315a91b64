--------------------------- MODULE OptimizationJob ---------------------------
(***************************************************************************)
(* The life of an optimization job.                                        *)
(*                                                                         *)
(* A dispatcher creates a job row in PostgreSQL together with an outbox    *)
(* event; the outbox worker (or the recovery timer) puts the job into the  *)
(* BullMQ queue; a worker process takes it, claims the row with a lease,   *)
(* runs the solver and stores the result; the dispatcher may cancel the    *)
(* job at any time and may apply a stored result, which creates trips.     *)
(*                                                                         *)
(* PostgreSQL and Redis are two stores with no common transaction, so      *)
(* every await between them, and between two statements on the row, is a   *)
(* step of its own.  BullMQ itself is external: Deliver, Stall, Evict and  *)
(* the operators on `entry' state what the code relies on it for.          *)
(***************************************************************************)
EXTENDS Naturals, FiniteSets

CONSTANTS
  Jobs,          \* optimization jobs, by idempotency key of their creator
  Workers,       \* worker processes ever started: a restarted one is another
  Cancels,       \* HTTP requests to cancel
  Applies,       \* HTTP requests to apply
  SolverStatus,  \* statuses the optimizer may answer with
  NoWorker,      \* leaseOwner = null
  NoJob,         \* a worker or a request that holds no job
  MaxAttempts,   \* `attempts' of the queue options
  MaxStalls,     \* BullMQ's maxStalledCount
  MaxFaults      \* bound: faults of the environment in one behaviour

ASSUME JobsAssumption    == NoJob \notin Jobs
ASSUME WorkersAssumption == NoWorker \notin Workers
ASSUME SolverAssumption  ==
  SolverStatus \subseteq {"SUCCESS", "PARTIAL", "INFEASIBLE", "TIMEOUT", "ERROR"}
ASSUME BoundsAssumption  ==
  MaxAttempts \in Nat \ {0} /\ MaxStalls \in Nat /\ MaxFaults \in Nat

VARIABLES
  row,       \* optimization_jobs
  results,   \* optimization_results: the claim whose candidates are stored
  trips,     \* trips created from the job, by the request that created them
  event,     \* its OPTIMIZATION_JOB_CREATED outbox event
  entry,     \* its BullMQ entry, whose jobId is the job's id
  worker,    \* OptimizationProcessor, one per process
  scanned,   \* what the running pass of OptimizationRecoveryService has read
  cancel,    \* OptimizationJobsService.cancel, one per request
  apply,     \* OptimizationJobsService.apply, one per request
  faults     \* faults so far

vars == <<row, results, trips, event, entry, worker, scanned, cancel, apply, faults>>

requests == <<scanned, cancel, apply>>
outcome  == <<results, trips>>

-----------------------------------------------------------------------------
(* Types.  `attempts' is attemptCount; a claim is known by its number.      *)

Waiting   == {"PENDING", "RETRYING"}
Finished  == {"SUCCEEDED", "PARTIAL", "INFEASIBLE", "FAILED", "TIMEOUT", "APPLIED"}
Cancelled == {"CANCEL_REQUESTED", "CANCELLED"}
Status    == {"ABSENT", "RUNNING"} \cup Waiting \cup Finished \cup Cancelled

Row == [status: Status, owner: Workers \cup {NoWorker}, lease: {"none", "live", "expired"},
        attempts: Nat, hash: {"request", "snapshot"}, result: Nat, cancelledAt: BOOLEAN]

Entry == [state: {"absent", "waiting", "active", "completed", "failed"},
          holder: Workers \cup {NoWorker}, made: Nat, stalls: Nat]

Solving == {"load", "solve", "check", "drop", "store", "catch"}
Worker  == [pc: {"idle", "dead", "read", "ackCancel", "claim", "done", "throw"} \cup Solving,
            job: Jobs \cup {NoJob}, made: Nat, claim: Nat,
            found: SolverStatus \cup {"none"}]

Cancel == [pc: {"idle", "write", "remove", "done"}, job: Jobs \cup {NoJob},
           seen: Status]
Apply  == [pc: {"idle", "load", "commit", "done"}, job: Jobs \cup {NoJob}, claim: Nat]
Trips  == [by: Applies, claim: Nat]

TypeOK ==
  /\ row \in [Jobs -> Row]
  /\ results \in [Jobs -> Nat]
  /\ trips \in [Jobs -> SUBSET Trips]
  /\ event \in [Jobs -> {"none", "pending", "published"}]
  /\ entry \in [Jobs -> Entry]
  /\ worker \in [Workers -> Worker]
  /\ scanned \in [Jobs -> {"no", "queue", "expired"}]
  /\ cancel \in [Cancels -> Cancel]
  /\ apply \in [Applies -> Apply]
  /\ faults \in Nat

NoEntry    == [state |-> "absent", holder |-> NoWorker, made |-> 0, stalls |-> 0]
IdleWorker == [pc |-> "idle", job |-> NoJob, made |-> 0, claim |-> 0, found |-> "none"]

Init ==
  /\ row = [j \in Jobs |-> [status |-> "ABSENT", owner |-> NoWorker, lease |-> "none",
                            attempts |-> 0, hash |-> "request", result |-> 0,
                            cancelledAt |-> FALSE]]
  /\ results = [j \in Jobs |-> 0]
  /\ trips = [j \in Jobs |-> {}]
  /\ event = [j \in Jobs |-> "none"]
  /\ entry = [j \in Jobs |-> NoEntry]
  /\ worker = [w \in Workers |-> IdleWorker]
  /\ scanned = [j \in Jobs |-> "no"]
  /\ cancel = [c \in Cancels |-> [pc |-> "idle", job |-> NoJob, seen |-> "ABSENT"]]
  /\ apply = [a \in Applies |-> [pc |-> "idle", job |-> NoJob, claim |-> 0]]
  /\ faults = 0

Alive(w)      == worker[w].pc # "dead"
Attends(w, j) == worker[w].job = j /\ worker[w].pc \in Solving
Dead(w)       == w \in Workers /\ ~Alive(w)
Goto(w, l)    == worker' = [worker EXCEPT ![w].pc = l]

(* process() leaves for good, by return ("done") or by exception ("throw"): *)
(* what it had computed is lost with it.                                    *)
Leave(w, l) ==
  worker' = [worker EXCEPT ![w].pc = l, ![w].claim = 0, ![w].found = "none"]

(* The environment's budget of faults: a bound of the model, not of the code. *)
Fault == faults < MaxFaults /\ faults' = faults + 1

-----------------------------------------------------------------------------
(* The queue.  Adding a jobId that Redis still knows, in whatever state,    *)
(* is ignored; a finished entry stays known until 100 completed or 500      *)
(* failed ones are newer (removeOnComplete, removeOnFail).                  *)

Add(j) ==
  entry' = IF entry[j].state = "absent"
           THEN [entry EXCEPT ![j] = [NoEntry EXCEPT !.state = "waiting"]]
           ELSE entry

(* BullMQ hands a waiting entry to a worker that is free: concurrency 1.    *)
Deliver(w, j) ==
  /\ worker[w].pc = "idle"
  /\ entry[j].state = "waiting"
  /\ entry' = [entry EXCEPT ![j].state = "active", ![j].holder = w]
  /\ worker' = [worker EXCEPT ![w] = [IdleWorker EXCEPT !.pc = "read", !.job = j,
                                                           !.made = entry[j].made]]
  /\ UNCHANGED <<row, outcome, event, requests, faults>>

FinalAttempt(w) == worker[w].made + 1 >= MaxAttempts

(* Whether the queue still considers w the holder of its job's entry.       *)
Holds(w) == LET e == entry[worker[w].job] IN e.state = "active" /\ e.holder = w

(* process() returned: BullMQ completes the entry if w still holds it.      *)
Return(w) ==
  /\ worker[w].pc = "done"
  /\ entry' = IF Holds(w)
              THEN [entry EXCEPT ![worker[w].job].state = "completed",
                                 ![worker[w].job].holder = NoWorker]
              ELSE entry
  /\ worker' = [worker EXCEPT ![w] = IdleWorker]
  /\ UNCHANGED <<row, outcome, event, requests, faults>>

(* process() threw: another attempt after a backoff, or failed for good.    *)
Reject(w) ==
  LET j == worker[w].job
  IN /\ worker[w].pc = "throw"
     /\ entry' = IF Holds(w)
                 THEN [entry EXCEPT ![j].state = IF FinalAttempt(w) THEN "failed" ELSE "waiting",
                                    ![j].holder = NoWorker, ![j].made = @ + 1]
                 ELSE entry
     /\ worker' = [worker EXCEPT ![w] = IdleWorker]
     /\ UNCHANGED <<row, outcome, event, requests, faults>>

(* The watchdog of a pass of BullMQ: an active entry whose lock its worker  *)
(* no longer renews goes back to waiting, or fails at the limit.  A worker  *)
(* that is alive loses its lock only when its event loop or Redis hangs.    *)
Stall(j) ==
  LET e == entry[j]
  IN /\ e.state = "active"
     /\ IF Alive(e.holder) THEN Fault ELSE UNCHANGED faults
     /\ entry' = [entry EXCEPT ![j].state = IF e.stalls + 1 > MaxStalls THEN "failed" ELSE "waiting",
                               ![j].holder = NoWorker, ![j].stalls = @ + 1]
     /\ UNCHANGED <<row, outcome, event, worker, requests>>

(* Enough newer jobs have finished for Redis to forget this one.            *)
Evict(j) ==
  /\ entry[j].state \in {"completed", "failed"}
  /\ entry' = [entry EXCEPT ![j] = NoEntry]
  /\ UNCHANGED <<row, outcome, event, worker, requests, faults>>

(* Redis restarts without its data.                                         *)
Flush ==
  /\ \E j \in Jobs : entry[j] # NoEntry
  /\ Fault
  /\ entry' = [j \in Jobs |-> NoEntry]
  /\ UNCHANGED <<row, outcome, event, worker, requests>>

-----------------------------------------------------------------------------
(* Creating a job.                                                          *)

(* The row and its outbox event are one transaction.                        *)
Create(j) ==
  /\ row[j].status = "ABSENT"
  /\ row' = [row EXCEPT ![j].status = "PENDING"]
  /\ event' = [event EXCEPT ![j] = "pending"]
  /\ UNCHANGED <<outcome, entry, worker, requests, faults>>

(* A second request with the same key and the same payload changes nothing. *)
(* It is answered with the job when the stored hash is still the hash of    *)
(* the request, and with a conflict otherwise.                              *)
ReplayAccepted(j) == row[j].hash = "request"

(* The outbox worker enqueues the job; the mark that it did may be lost.    *)
PublishOptimizationJob(j) ==
  /\ event[j] = "pending"
  /\ Add(j)
  /\ event' \in {[event EXCEPT ![j] = "published"], event}
  /\ UNCHANGED <<row, outcome, worker, requests, faults>>

-----------------------------------------------------------------------------
(* OptimizationProcessor.process, one step per await.                       *)

Read(w) ==
  LET s == row[worker[w].job].status
  IN /\ worker[w].pc = "read"
     /\ Goto(w, CASE s \in {"CANCELLED", "APPLIED"} -> "done"
                  [] s = "CANCEL_REQUESTED"         -> "ackCancel"
                  [] OTHER                          -> "claim")
     /\ UNCHANGED <<row, outcome, event, entry, requests, faults>>

(* The row the worker read asked for cancellation: no guard on the update.  *)
AckCancel(w) ==
  LET j == worker[w].job
  IN /\ worker[w].pc = "ackCancel"
     /\ row' = [row EXCEPT ![j].status = "CANCELLED", ![j].lease = "none"]
     /\ Leave(w, "done")
     /\ UNCHANGED <<outcome, event, entry, requests, faults>>

Claimable(j) == \/ row[j].status \in Waiting
                \/ row[j].status = "RUNNING" /\ row[j].lease = "expired"

Claim(w) ==
  LET j == worker[w].job
  IN /\ worker[w].pc = "claim"
     /\ IF Claimable(j)
        THEN /\ row' = [row EXCEPT ![j].status = "RUNNING", ![j].owner = w, ![j].lease = "live",
                                  ![j].attempts = @ + 1]
             /\ worker' = [worker EXCEPT ![w].pc = "load", ![w].claim = row[j].attempts + 1]
        ELSE Leave(w, "done") /\ UNCHANGED row
     /\ UNCHANGED <<outcome, event, entry, requests, faults>>

(* The database fails outside the try block: before process() enters it, or *)
(* in the update of its catch clause, and the row stays as it was.          *)
StatementError(w) ==
  /\ worker[w].pc \in {"read", "ackCancel", "claim", "catch"}
  /\ Fault
  /\ Leave(w, "throw")
  /\ UNCHANGED <<row, outcome, event, entry, requests>>

(* Whether the row still runs under w's lease: the guard of every update    *)
(* that process() makes after the claim, the two of a cancellation excepted.*)
LeasedByAnyone(w) == row[worker[w].job].status = "RUNNING"  \* mutant: no owner
LeasedByOwner(w)  == row[worker[w].job].owner = w           \* mutant: no status
Leased(w) == LET r == row[worker[w].job] IN r.status = "RUNNING" /\ r.owner = w

(* The heartbeat renews a lease, one that has run out included.             *)
Heartbeat(w) ==
  LET j == worker[w].job
  IN /\ worker[w].pc \in Solving
     /\ Leased(w)
     /\ row[j].lease = "expired"
     /\ row' = [row EXCEPT ![j].lease = "live"]
     /\ UNCHANGED <<outcome, event, entry, worker, requests, faults>>

(* executeAutomaticOptimization freezes the solver's input on the row,      *)
(* whoever holds the lease by then.                                         *)
SaveSnapshot(w) ==
  /\ worker[w].pc = "load"
  /\ row' = [row EXCEPT ![worker[w].job].hash = "snapshot"]
  /\ Goto(w, "solve")
  /\ UNCHANGED <<outcome, event, entry, requests, faults>>

Solve(w) ==
  /\ worker[w].pc = "solve"
  /\ \E s \in SolverStatus :
       worker' = [worker EXCEPT ![w].pc = "check", ![w].found = s]
  /\ UNCHANGED <<row, outcome, event, entry, requests, faults>>

CheckCancel(w) ==
  /\ worker[w].pc = "check"
  /\ Goto(w, IF row[worker[w].job].status = "CANCEL_REQUESTED" THEN "drop" ELSE "store")
  /\ UNCHANGED <<row, outcome, event, entry, requests, faults>>

DropResult(w) ==
  LET j == worker[w].job
  IN /\ worker[w].pc = "drop"
     /\ row' = [row EXCEPT ![j].status = "CANCELLED", ![j].lease = "none", ![j].owner = NoWorker,
                          ![j].result = 0]
     /\ Leave(w, "done")
     /\ UNCHANGED <<outcome, event, entry, requests, faults>>

(* Mutant: the solver's word is stored as it stands. *)
StatusOfRaw(s) == s

StatusOf(s) == CASE s = "SUCCESS" -> "SUCCEEDED"
                 [] s = "ERROR"   -> "FAILED"
                 [] OTHER         -> s

(* One transaction: the row, if it is still leased, and its candidates.     *)
Finalize(w) ==
  LET j == worker[w].job
      n == worker[w].claim
  IN /\ worker[w].pc = "store"
     /\ IF Leased(w)
        THEN /\ row' = [row EXCEPT ![j].status = StatusOf(worker[w].found), ![j].lease = "none",
                                  ![j].owner = NoWorker, ![j].result = n]
             /\ results' = [results EXCEPT ![j] = n]
        ELSE UNCHANGED <<row, results>>
     /\ Leave(w, "done")
     /\ UNCHANGED <<trips, event, entry, requests, faults>>

(* The solver, the map service or a statement of the try block fails.       *)
Fail(w) ==
  /\ worker[w].pc \in Solving \ {"catch"}
  /\ Leave(w, "catch")
  /\ UNCHANGED <<row, outcome, event, entry, requests, faults>>

(* Mutant: the exception leaves the row as it is. *)
CatchSilently(w) ==
  /\ worker[w].pc = "catch"
  /\ Leave(w, "throw")
  /\ UNCHANGED <<row, outcome, event, entry, requests, faults>>

Catch(w) ==
  LET j == worker[w].job
  IN /\ worker[w].pc = "catch"
     /\ row' = IF Leased(w)
               THEN [row EXCEPT ![j].status = IF FinalAttempt(w) THEN "FAILED" ELSE "RETRYING",
                                ![j].lease = "none", ![j].owner = NoWorker]
               ELSE row
     /\ Leave(w, "throw")
     /\ UNCHANGED <<outcome, event, entry, requests, faults>>

(* The process dies; at least one other stays.                              *)
Crash(w) ==
  /\ Alive(w)
  /\ \E v \in Workers \ {w} : Alive(v)
  /\ Fault
  /\ worker' = [worker EXCEPT ![w] = [IdleWorker EXCEPT !.pc = "dead"]]
  /\ UNCHANGED <<row, outcome, event, entry, requests>>

(* Five minutes pass without a heartbeat, which is a fault as long as the   *)
(* owner is solving the job.                                                *)
ExpireLease(j) ==
  /\ row[j].status = "RUNNING"
  /\ row[j].lease = "live"
  /\ IF Attends(row[j].owner, j) THEN Fault ELSE UNCHANGED faults
  /\ row' = [row EXCEPT ![j].lease = "expired"]
  /\ UNCHANGED <<outcome, event, entry, worker, requests>>

-----------------------------------------------------------------------------
(* OptimizationRecoveryService.recover: one query, then the jobs it read.   *)

RecoverableNoCancel(j) ==   \* mutant: cancellations are not looked for
  CASE row[j].status \in Waiting -> "queue"
    [] row[j].status = "RUNNING" /\ row[j].lease = "expired" -> "expired"
    [] OTHER -> "no"

(* What the query returns job j as, if at all.                              *)
Recoverable(j) ==
  CASE row[j].status \in Waiting \cup {"CANCEL_REQUESTED"}         -> "queue"
    [] row[j].status = "RUNNING" /\ row[j].lease = "expired"       -> "expired"
    [] OTHER                                                       -> "no"

RecoverScan ==
  /\ \A j \in Jobs : scanned[j] = "no"
  /\ \E j \in Jobs : Recoverable(j) # "no"
  /\ scanned' = [j \in Jobs |-> Recoverable(j)]
  /\ UNCHANGED <<row, outcome, event, entry, worker, cancel, apply, faults>>

(* Mutant: the update is by id alone. *)
RecoverReleaseById(j) ==
  /\ scanned[j] = "expired"
  /\ row' = [row EXCEPT ![j].status = "RETRYING", ![j].lease = "none", ![j].owner = NoWorker]
  /\ scanned' = [scanned EXCEPT ![j] = "queue"]
  /\ UNCHANGED <<outcome, event, entry, worker, cancel, apply, faults>>

(* An expired job is released if it still is expired ...                    *)
RecoverRelease(j) ==
  /\ scanned[j] = "expired"
  /\ row' = IF row[j].status = "RUNNING" /\ row[j].lease = "expired"
            THEN [row EXCEPT ![j].status = "RETRYING", ![j].lease = "none", ![j].owner = NoWorker]
            ELSE row
  /\ scanned' = [scanned EXCEPT ![j] = "queue"]
  /\ UNCHANGED <<outcome, event, entry, worker, cancel, apply, faults>>

(* ... and whatever was read is offered to the queue again.                 *)
RecoverEnqueue(j) ==
  /\ scanned[j] = "queue"
  /\ Add(j)
  /\ scanned' = [scanned EXCEPT ![j] = "no"]
  /\ UNCHANGED <<row, outcome, event, worker, cancel, apply, faults>>

-----------------------------------------------------------------------------
(* OptimizationJobsService.cancel.                                          *)

(* A job read in a final state is refused and the request is over.          *)
CancelRead(c, j) ==
  /\ cancel[c].pc = "idle"
  /\ row[j].status \notin Finished \cup {"CANCELLED", "ABSENT"}
  /\ cancel' = [cancel EXCEPT ![c] = [pc |-> "write", job |-> j, seen |-> row[j].status]]
  /\ UNCHANGED <<row, outcome, event, entry, worker, scanned, apply, faults>>

CancelledFrom(seen) == IF seen = "RUNNING" THEN "CANCEL_REQUESTED" ELSE "CANCELLED"

(* The update is by id alone: it trusts the status read before.             *)
CancelWrite(c) ==
  LET j == cancel[c].job
      next == CancelledFrom(cancel[c].seen)
  IN /\ cancel[c].pc = "write"
     /\ row' = [row EXCEPT ![j].status = next, ![j].cancelledAt = TRUE]
     /\ cancel' = [cancel EXCEPT ![c].pc = IF next = "CANCELLED" THEN "remove" ELSE "done",
                                ![c].seen = "ABSENT"]
     /\ UNCHANGED <<outcome, event, entry, worker, scanned, apply, faults>>

(* An active entry is locked and stays; the failure is ignored.             *)
CancelRemove(c) ==
  LET j == cancel[c].job
  IN /\ cancel[c].pc = "remove"
     /\ entry' = IF entry[j].state = "active" THEN entry ELSE [entry EXCEPT ![j] = NoEntry]
     /\ cancel' = [cancel EXCEPT ![c].pc = "done"]
     /\ UNCHANGED <<row, outcome, event, worker, scanned, apply, faults>>

-----------------------------------------------------------------------------
(* OptimizationJobsService.apply and the transaction it delegates to.       *)

Applicable(j) == row[j].status \in {"SUCCEEDED", "PARTIAL"}

ApplyRead(a, j) ==
  /\ apply[a].pc = "idle"
  /\ Applicable(j)
  /\ apply' = [apply EXCEPT ![a].pc = "load", ![a].job = j]
  /\ UNCHANGED <<row, outcome, event, entry, worker, scanned, cancel, faults>>

ApplyLoad(a) ==
  /\ apply[a].pc = "load"
  /\ apply' = [apply EXCEPT ![a].pc = "commit", ![a].claim = results[apply[a].job]]
  /\ UNCHANGED <<row, outcome, event, entry, worker, scanned, cancel, faults>>

(* Mutant: the status read before the transaction is trusted. *)
ApplyUnchecked(a) ==
  LET j == apply[a].job
  IN /\ apply[a].pc = "commit"
     /\ row' = [row EXCEPT ![j].status = "APPLIED"]
     /\ trips' = [trips EXCEPT ![j] = @ \cup {[by |-> a, claim |-> apply[a].claim]}]
     /\ apply' = [apply EXCEPT ![a].pc = "done"]
     /\ UNCHANGED <<results, event, entry, worker, scanned, cancel, faults>>

(* Trips and APPLIED are one transaction, which the row lock it takes on    *)
(* the job first makes a single step; APPLYING is never visible outside.    *)
ApplyCommit(a) ==
  LET j == apply[a].job
  IN /\ apply[a].pc = "commit"
     /\ Applicable(j)
     /\ row' = [row EXCEPT ![j].status = "APPLIED"]
     /\ trips' = [trips EXCEPT ![j] = @ \cup {[by |-> a, claim |-> apply[a].claim]}]
     /\ apply' = [apply EXCEPT ![a].pc = "done"]
     /\ UNCHANGED <<results, event, entry, worker, scanned, cancel, faults>>

(* The job is no longer applicable, or the plan no longer fits its orders,  *)
(* vehicles or drivers: the transaction rolls back.                         *)
ApplyRefuse(a) ==
  /\ apply[a].pc = "commit"
  /\ apply' = [apply EXCEPT ![a].pc = "done"]
  /\ UNCHANGED <<row, outcome, event, entry, worker, scanned, cancel, faults>>

-----------------------------------------------------------------------------
WorkerStep(w) ==
  \/ Read(w) \/ AckCancel(w) \/ Claim(w) \/ SaveSnapshot(w) \/ Solve(w) \/ CheckCancel(w)
  \/ DropResult(w) \/ Finalize(w) \/ Catch(w) \/ Return(w) \/ Reject(w)

WorkerFault(w) == StatementError(w) \/ Fail(w) \/ Crash(w) \/ Heartbeat(w)

Recover == RecoverScan \/ \E j \in Jobs : RecoverRelease(j) \/ RecoverEnqueue(j)

Queue(j) == PublishOptimizationJob(j) \/ Stall(j) \/ Evict(j) \/ \E w \in Workers : Deliver(w, j)

CancelStep(c) == CancelWrite(c) \/ CancelRemove(c) \/ \E j \in Jobs : CancelRead(c, j)

ApplyStep(a) ==
  ApplyLoad(a) \/ ApplyCommit(a) \/ ApplyRefuse(a) \/ \E j \in Jobs : ApplyRead(a, j)

Next ==
  \/ \E w \in Workers : WorkerStep(w) \/ WorkerFault(w)
  \/ \E j \in Jobs : Create(j) \/ Queue(j) \/ ExpireLease(j)
  \/ Recover
  \/ Flush
  \/ \E c \in Cancels : CancelStep(c)
  \/ \E a \in Applies : ApplyStep(a)

Spec == Init /\ [][Next]_vars

-----------------------------------------------------------------------------
(* Fairness.  Worker processes run, BullMQ hands out what waits in order,   *)
(* the recovery timer fires every five seconds, locks and leases that       *)
(* nobody renews run out.  Nothing is assumed of users, of the outbox (the  *)
(* recovery pass enqueues too) or of faults.                                *)

ReleaseByTime(j) == row[j].owner \in Workers /\ ~Attends(row[j].owner, j) /\ ExpireLease(j)
StallByTime(j)   == Dead(entry[j].holder) /\ Stall(j)

Fairness ==
  /\ \A w \in Workers : WF_vars(WorkerStep(w))
  /\ \A j \in Jobs : /\ SF_vars(\E w \in Workers : Deliver(w, j))
                      /\ WF_vars(StallByTime(j))
                      /\ WF_vars(ReleaseByTime(j))
                      /\ WF_vars(RecoverRelease(j) \/ RecoverEnqueue(j))
  /\ WF_vars(RecoverScan)

FairSpec == Spec /\ Fairness

-----------------------------------------------------------------------------
(* Safety.                                                                  *)

(* The row of a job is RUNNING in the name of a process that is not solving *)
(* it, because the process is dead or has left process().                   *)
Unattended(j, w) == row[j].status = "RUNNING" /\ row[j].owner = w /\ ~Attends(w, j)

(* No return, exception, cancellation or lost lease makes a process leave a *)
(* row behind that nobody attends: that takes a crash or a database failure.*)
LeaseIsAttended ==
  [][\A j \in Jobs, w \in Workers :
       Unattended(j, w)' => Unattended(j, w) \/ faults' = faults + 1]_vars

(* Fencing: stored candidates were computed by the last process that        *)
(* claimed the job, never by one that a later claim has superseded.         *)
StoredByLatestClaim ==
  \A j \in Jobs : results[j] # 0 => results[j] = row[j].attempts

(* A job becomes trips at most once, and from the candidates that its one   *)
(* successful run has stored.                                               *)
AppliedOnce ==
  \A j \in Jobs : \A s, t \in trips[j] : s = t /\ t.claim = results[j]

(* A job that was finished or cancelled is never queued or run again: not   *)
(* by a recovery pass that had read it before, nor by a redelivered entry.  *)
NoResurrection ==
  [][\A j \in Jobs : row[j].status \in Finished \cup Cancelled
                       => row'[j].status \in Finished \cup Cancelled]_vars

(* After the cancellation of a job is recorded, no candidate is stored and  *)
(* no trip is created from it.                                              *)
CancelIsHonoured ==
  [][\A j \in Jobs : row[j].cancelledAt
                       => UNCHANGED <<results[j], trips[j]>>]_vars

-----------------------------------------------------------------------------
(* Liveness.                                                                *)

Settled(j) == row[j].status \in (Finished \cup {"CANCELLED"})

(* The row waits for a worker, and Redis still knows a finished entry of    *)
(* the job, so that it ignores whatever the recovery pass adds.             *)
Orphan(j) ==
  /\ row[j].status \in Waiting \cup {"CANCEL_REQUESTED"}
  /\ entry[j].state \in {"completed", "failed"}

(* Every job that was created settles, and a settled job that a late        *)
(* cancellation reopened settles again, despite crashes, hangs, failing     *)
(* solves and a Redis that lost its data; but for one case: it stays an     *)
(* orphan of the queue as long as nothing makes Redis forget its entry.     *)
EveryJobSettles ==
  \A j \in Jobs : row[j].status # "ABSENT" ~> (Settled(j) \/ []Orphan(j))

-----------------------------------------------------------------------------
(* What the documents promise and the code does not keep.                   *)

(* The runbook: a job orphaned by a crash goes back to RETRYING for another *)
(* worker to take.  Some worker runs it again or somebody cancels it.       *)
Crashed(j) == row[j].status = "RUNNING" /\ Dead(row[j].owner)
OrphanIsRunAgain ==
  \A j \in Jobs : Crashed(j) ~> (Settled(j) \/ (row[j].status = "RUNNING" /\ ~Crashed(j)))

(* The refusal of cancel(): a job in a final state cannot be cancelled.     *)
FinishedIsFinal ==
  [][\A j \in Jobs : row[j].status \in Finished => row'[j].status \in Finished]_vars

(* create(): the same key with the same payload returns the existing job.   *)
ReplayReturnsJob == \A j \in Jobs : ReplayAccepted(j)
==============================================================================
