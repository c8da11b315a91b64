-------------------------------- MODULE Outbox --------------------------------
(***************************************************************************)
(* The transactional outbox: the rows of outbox_events, the workers that    *)
(* claim, publish and mark them, and the retry of dead letters.             *)
(*                                                                         *)
(* Publishing and marking are two systems without a common transaction, and *)
(* a claim is a lease of 60 seconds that nobody renews, over a whole batch. *)
(***************************************************************************)
EXTENDS Naturals, FiniteSets

CONSTANTS
  Events,         \* numbered by createdAt
  Undeliverable,  \* those of a type without transport
  Workers,        \* worker ids; a process that restarts draws a new one
  Nobody,
  BatchSize,
  MaxAttempts,
  MaxRetries,     \* bound: retries of dead letters
  MaxFaults       \* bound: crashes, failing statements, lost answers, late workers

ASSUME EventsAssumption  == Events \subseteq Nat /\ Undeliverable \subseteq Events
ASSUME NobodyAssumption  == Nobody \notin Workers
ASSUME NumbersAssumption ==
  /\ BatchSize \in Nat \ {0} /\ MaxAttempts \in Nat \ {0}
  /\ MaxRetries \in Nat /\ MaxFaults \in Nat

VARIABLES
  row,        \* outbox_events
  worker,     \* the workers, with their copies of what they claimed
  delivered,  \* how often an event has reached its transport
  retries, faults

vars == <<row, worker, delivered, retries, faults>>

-----------------------------------------------------------------------------
Row == [created: BOOLEAN, published: BOOLEAN, dead: BOOLEAN,
        due: BOOLEAN,                          \* nextAttemptAt has come
        lockedBy: Workers \cup {Nobody},
        lease: {"none", "live", "over"},       \* lockedAt
        attempts: 0 .. MaxAttempts]

Copy   == [event: Events, attempts: 0 .. MaxAttempts]
Worker == [pc: {"idle", "publish", "mark", "fail", "down"},
           batch: SUBSET Copy,                 \* not processed yet
           current: SUBSET Copy]               \* in processEvent: one, or none

TypeOK ==
  /\ row \in [Events -> Row]
  /\ DOMAIN worker = Workers
  /\ \A w \in Workers : /\ worker[w].pc \in {"idle", "publish", "mark", "fail", "down"}
                        /\ worker[w].batch \subseteq Copy /\ worker[w].current \subseteq Copy
  /\ delivered \in [Events -> 0 .. MaxFaults + 1]
  /\ retries \in 0 .. MaxRetries /\ faults \in 0 .. MaxFaults

NoRow == [created |-> FALSE, published |-> FALSE, dead |-> FALSE, due |-> TRUE,
          lockedBy |-> Nobody, lease |-> "none", attempts |-> 0]

Init ==
  /\ row       = [e \in Events |-> NoRow]
  /\ worker    = [w \in Workers |-> [pc |-> "idle", batch |-> {}, current |-> {}]]
  /\ delivered = [e \in Events |-> 0]
  /\ retries = 0 /\ faults = 0

Fault == faults < MaxFaults /\ faults' = faults + 1

-----------------------------------------------------------------------------
(* Enqueueing commits with the business transaction.                        *)
Enqueue(e) ==
  /\ ~row[e].created
  /\ row' = [row EXCEPT ![e].created = TRUE]
  /\ UNCHANGED <<worker, delivered, retries, faults>>

(* claimBatch: one statement, over the oldest rows that may be claimed.     *)
UnlockedOrNot(e) == TRUE  \* mutant: the lock of another worker is not looked at
Unlocked(e)      == row[e].lease \in {"none", "over"}

Claimable(e) ==
  row[e].created /\ ~row[e].published /\ ~row[e].dead /\ row[e].due /\ Unlocked(e)

Batch(S) ==
  /\ S \subseteq {e \in Events : Claimable(e)}
  /\ Cardinality(S) <= BatchSize
  /\ \A e \in Events \ S : Claimable(e) => Cardinality(S) = BatchSize /\ \A s \in S : s < e

Lock(S, w) ==
  row' = [e \in Events |-> IF e \in S THEN [row[e] EXCEPT !.lockedBy = w, !.lease = "live"]
                                      ELSE row[e]]

Claim(w) ==
  /\ worker[w].pc = "idle"
  /\ \E S \in SUBSET Events \ {{}} :
       /\ Batch(S)
       /\ Lock(S, w)
       /\ worker' = [worker EXCEPT ![w].pc = "publish",
                                   ![w].batch = {[event |-> e, attempts |-> row[e].attempts] : e \in S}]
  /\ UNCHANGED <<delivered, retries, faults>>

-----------------------------------------------------------------------------
(* processEvent                                                             *)

Take(w, c, l) == worker' = [worker EXCEPT ![w].pc = l, ![w].batch = @ \ {c}, ![w].current = {c}]

Reach(c) == delivered' = [delivered EXCEPT ![c.event] = @ + 1]

Publish(w) ==
  /\ worker[w].pc = "publish"
  /\ \E c \in worker[w].batch : c.event \notin Undeliverable /\ Take(w, c, "mark") /\ Reach(c)
  /\ UNCHANGED <<row, retries, faults>>

PublishFails(w) ==
  /\ worker[w].pc = "publish"
  /\ \E c \in worker[w].batch : Take(w, c, "fail")
  /\ UNCHANGED <<row, delivered, retries, faults>>

(* The transport has the event, but the answer is lost or too late.         *)
PublishLost(w) ==
  /\ Fault
  /\ worker[w].pc = "publish"
  /\ \E c \in worker[w].batch : c.event \notin Undeliverable /\ Take(w, c, "fail") /\ Reach(c)
  /\ UNCHANGED <<row, retries>>

(* On with the batch.                                                       *)
Proceed(w) ==
  worker' = [worker EXCEPT ![w].pc = IF worker[w].batch = {} THEN "idle" ELSE "publish",
                           ![w].current = {}]

IsMine(e, w) == row[e].lockedBy = w /\ ~row[e].published

Mark(w) ==
  /\ worker[w].pc = "mark"
  /\ \A c \in worker[w].current :
       row' = IF IsMine(c.event, w)
              THEN [row EXCEPT ![c.event] = [@ EXCEPT !.published = TRUE, !.lockedBy = Nobody,
                                                      !.lease = "none", !.due = TRUE]]
              ELSE row
  /\ Proceed(w)
  /\ UNCHANGED <<delivered, retries, faults>>

(* The catch clause.                                                        *)
NoMore(n)    == n  \* mutant: a failure is not counted
Increased(n) == n + 1

IsPast(n)    == n > MaxAttempts  \* mutant: one attempt too many
Exhausted(n) == n >= MaxAttempts

CountFailure(w) ==
  /\ worker[w].pc = "fail"
  /\ \A c \in worker[w].current :
       LET attempts == Increased(c.attempts)
           over     == Exhausted(attempts)
       IN row' = IF IsMine(c.event, w)
                 THEN [row EXCEPT ![c.event] = [@ EXCEPT !.attempts = attempts, !.lockedBy = Nobody,
                                                         !.lease = "none", !.due = over, !.dead = over]]
                 ELSE row
  /\ Proceed(w)
  /\ UNCHANGED <<delivered, retries, faults>>

-----------------------------------------------------------------------------
(* retryDeadLetter: what was read before is tested again by the update.     *)
Retry(e) ==
  /\ retries < MaxRetries
  /\ row[e].dead /\ ~row[e].published
  /\ row' = [row EXCEPT ![e] = [@ EXCEPT !.attempts = 0, !.lockedBy = Nobody, !.lease = "none",
                                         !.due = TRUE, !.dead = FALSE]]
  /\ retries' = retries + 1
  /\ UNCHANGED <<worker, delivered, faults>>

-----------------------------------------------------------------------------
(* Faults, and time.                                                        *)

(* The mark fails: the catch clause is next.  The update in the catch       *)
(* clause fails: the rest of the batch is left alone, locked.               *)
StatementError(w) ==
  /\ Fault
  /\ \/ worker[w].pc = "mark" /\ worker' = [worker EXCEPT ![w].pc = "fail"]
     \/ /\ worker[w].pc = "fail"
        /\ worker' = [worker EXCEPT ![w].pc = "idle", ![w].batch = {}, ![w].current = {}]
  /\ UNCHANGED <<row, delivered, retries>>

Crash(w) ==
  /\ Fault
  /\ worker[w].pc # "down"
  /\ worker' = [worker EXCEPT ![w].pc = "down", ![w].batch = {}, ![w].current = {}]
  /\ UNCHANGED <<row, delivered, retries>>

Copies(w) == worker[w].batch \cup worker[w].current

IsWorkedAt(e) == \E c \in Copies(row[e].lockedBy) : c.event = e

(* Sixty seconds pass.                                                      *)
RunOut(e) ==
  /\ row[e].lease = "live"
  /\ row' = [row EXCEPT ![e].lease = "over"]
  /\ UNCHANGED <<worker, delivered, retries>>

ExpireLease(e) == RunOut(e) /\ ~IsWorkedAt(e) /\ UNCHANGED faults

(* The worker is still at its batch.                                        *)
Overrun(e) == RunOut(e) /\ IsWorkedAt(e) /\ Fault

BackOff(e) ==
  /\ row[e].created /\ ~row[e].due
  /\ row' = [row EXCEPT ![e].due = TRUE]
  /\ UNCHANGED <<worker, delivered, retries, faults>>

-----------------------------------------------------------------------------
Work(w) == Claim(w) \/ Publish(w) \/ PublishFails(w) \/ Mark(w) \/ CountFailure(w)

Next ==
  \/ \E w \in Workers : Work(w) \/ PublishLost(w) \/ StatementError(w) \/ Crash(w)
  \/ \E e \in Events  : Enqueue(e) \/ Retry(e) \/ ExpireLease(e) \/ Overrun(e) \/ BackOff(e)

Spec == Init /\ [][Next]_vars

(* A worker polls every two seconds and goes through its batch; leases that *)
(* nobody works under and delays run out.  A publication ends one way or    *)
(* the other: nothing is assumed of which.                                  *)
FairSpec ==
  /\ Spec
  /\ \A w \in Workers : WF_vars(Work(w))
  /\ \A e \in Events  : /\ WF_vars(BackOff(e))
                        /\ WF_vars(ExpireLease(e))

-----------------------------------------------------------------------------
(* Safety.                                                                  *)

(* An event is delivered twice only after a fault, and once more at most    *)
(* for each: no interleaving of healthy workers, failures and retries       *)
(* delivers it again.                                                       *)
DuplicatesAreFaults == \A e \in Events : delivered[e] <= 1 + faults

-----------------------------------------------------------------------------
(* The outbox delivers at least once.                                       *)
Promise == INSTANCE AtLeastOnce WITH
  status   <- [e \in Events |-> IF ~row[e].created THEN "absent"
                                ELSE IF row[e].published THEN "published"
                                ELSE IF row[e].dead THEN "dead" ELSE "pending"],
  copies   <- delivered,
  attempts <- [e \in Events |-> row[e].attempts]

Delivers == Promise!Spec
===============================================================================
