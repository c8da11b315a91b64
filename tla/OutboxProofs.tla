----------------------------- MODULE OutboxProofs -----------------------------
(***************************************************************************)
(* Proofs about the outbox, for any events, workers and bounds.            *)
(*                                                                         *)
(* DuplicatesAreFaults counts deliveries.  The invariant counts the rights *)
(* to make one: a worker has a right to each event of its batch and to the *)
(* one it is about to count as a failure, and a row that is not published  *)
(* has a right unless the worker that locked it is at work on it.  A claim *)
(* hands the row's right to the worker, a delivery uses it up, and only a  *)
(* fault makes a new one.  That a row is locked by the worker that holds   *)
(* its current copy also gives the steps of AtLeastOnce.                   *)
(***************************************************************************)
EXTENDS Outbox, FiniteSetTheorems, TLAPS

-----------------------------------------------------------------------------
Typed ==
  /\ row \in [Events -> Row] /\ worker \in [Workers -> Worker]
  /\ delivered \in [Events -> Nat]
  /\ retries \in 0 .. MaxRetries /\ faults \in 0 .. MaxFaults

(* A dead row is locked by nobody, and only a dead one has no attempt left. *)
RowsAgree ==
  \A e \in Events :
    /\ row[e].lease = "live" => row[e].lockedBy \in Workers
    /\ row[e].lockedBy # Nobody => row[e].created
    /\ row[e].published => row[e].created
    /\ row[e].dead => row[e].created /\ row[e].lockedBy = Nobody /\ row[e].lease = "none"
    /\ ~row[e].dead => row[e].attempts < MaxAttempts

(* A worker has one copy of an event at most, and none when it is idle.    *)
BatchesAreSets ==
  \A w \in Workers :
    /\ worker[w].pc \in {"idle", "down"} => worker[w].batch = {} /\ worker[w].current = {}
    /\ worker[w].pc = "publish" => worker[w].current = {}
    /\ worker[w].pc \in {"mark", "fail"} => \E c \in Copy : worker[w].current = {c}
    /\ worker[w].current \cap worker[w].batch = {}
    /\ \A c, d \in Copies(w) : c.event = d.event => c = d

(* A copy is of a row that exists, is current as long as the row is locked *)
(* by its worker, and has been delivered before it is marked.              *)
CopiesAgree ==
  \A w \in Workers : \A c \in Copies(w) :
    /\ row[c.event].created /\ c.attempts < MaxAttempts
    /\ row[c.event].lockedBy = w => c.attempts = row[c.event].attempts
    /\ worker[w].pc = "mark" /\ c \in worker[w].current => delivered[c.event] > 0

SInv == Typed /\ RowsAgree /\ BatchesAreSets /\ CopiesAgree

-----------------------------------------------------------------------------
(* What the steps do to a worker.                                          *)

(* w goes to pc, with the given batch and the given event in hand.         *)
Becomes(w, pc, batch, current) ==
  /\ worker' \in [Workers -> Worker]
  /\ worker'[w].pc = pc /\ worker'[w].batch = batch /\ worker'[w].current = current
  /\ \A v \in Workers \ {w} : worker'[v] = worker[v]

LEMMA TakeBecomes ==
  ASSUME Typed, NEW w \in Workers, NEW c \in worker[w].batch, NEW l \in {"mark", "fail"},
         Take(w, c, l)
  PROVE  Becomes(w, l, worker[w].batch \ {c}, {c})
<1> DEFINE W == worker[w]
           N == [W EXCEPT !.pc = l, !.batch = @ \ {c}, !.current = {c}]
<1>1. W \in Worker /\ worker \in [Workers -> Worker] /\ c \in Copy
  BY DEF Typed, Worker
<1>2. /\ N \in Worker
      /\ N.pc = l /\ N.batch = W.batch \ {c} /\ N.current = {c}
  <2> HIDE DEF W
  <2> QED BY <1>1 DEF Worker
<1>3. worker' = [worker EXCEPT ![w] = N]
  BY <1>1 DEF Take
<1> QED BY <1>1, <1>2, <1>3 DEF Becomes

LEMMA ProceedBecomes ==
  ASSUME Typed, NEW w \in Workers, Proceed(w)
  PROVE  Becomes(w, IF worker[w].batch = {} THEN "idle" ELSE "publish", worker[w].batch, {})
<1> DEFINE W == worker[w]
           l == IF W.batch = {} THEN "idle" ELSE "publish"
           N == [W EXCEPT !.pc = l, !.current = {}]
<1>1. W \in Worker /\ worker \in [Workers -> Worker]
  BY DEF Typed
<1>2. N \in Worker /\ N.pc = l /\ N.batch = W.batch /\ N.current = {}
  <2> HIDE DEF W
  <2> QED BY <1>1 DEF Worker
<1>3. worker' = [worker EXCEPT ![w] = N]
  BY <1>1 DEF Proceed
<1> QED BY <1>1, <1>2, <1>3 DEF Becomes

(* A worker that gives up all it has.                                      *)
LEMMA DropsAll ==
  ASSUME Typed, NEW w \in Workers, NEW l \in {"idle", "down"},
         worker' = [worker EXCEPT ![w].pc = l, ![w].batch = {}, ![w].current = {}]
  PROVE  Becomes(w, l, {}, {})
<1> DEFINE W == worker[w]
           N == [W EXCEPT !.pc = l, !.batch = {}, !.current = {}]
<1>1. W \in Worker /\ worker \in [Workers -> Worker]
  BY DEF Typed
<1>2. N \in Worker /\ N.pc = l /\ N.batch = {} /\ N.current = {}
  <2> HIDE DEF W
  <2> QED BY <1>1 DEF Worker
<1>3. worker' = [worker EXCEPT ![w] = N]
  BY <1>1
<1> QED BY <1>1, <1>2, <1>3 DEF Becomes

LEMMA MarkFails ==
  ASSUME Typed, NEW w \in Workers, worker' = [worker EXCEPT ![w].pc = "fail"]
  PROVE  Becomes(w, "fail", worker[w].batch, worker[w].current)
<1> DEFINE W == worker[w]
           N == [W EXCEPT !.pc = "fail"]
<1>1. W \in Worker /\ worker \in [Workers -> Worker]
  BY DEF Typed
<1>2. N \in Worker /\ N.pc = "fail" /\ N.batch = W.batch /\ N.current = W.current
  <2> HIDE DEF W
  <2> QED BY <1>1 DEF Worker
<1>3. worker' = [worker EXCEPT ![w] = N]
  BY <1>1
<1> QED BY <1>1, <1>2, <1>3 DEF Becomes

(* The copies that a claim makes.                                          *)
Claimed(S) == {[event |-> e, attempts |-> row[e].attempts] : e \in S}

LEMMA ClaimBecomes ==
  ASSUME SInv, NEW w \in Workers, worker[w].pc = "idle", NEW S \in SUBSET Events,
         worker' = [worker EXCEPT ![w].pc = "publish", ![w].batch = Claimed(S)]
  PROVE  Becomes(w, "publish", Claimed(S), {}) /\ Claimed(S) \subseteq Copy
<1> DEFINE W == worker[w]
           B == Claimed(S)
           N == [W EXCEPT !.pc = "publish", !.batch = B]
<1>1. W \in Worker /\ worker \in [Workers -> Worker] /\ W.current = {}
  BY DEF SInv, Typed, BatchesAreSets
<1>2. B \subseteq Copy
  BY DEF SInv, Typed, Copy, Row, Claimed
<1>3. N \in Worker /\ N.pc = "publish" /\ N.batch = B /\ N.current = {}
  <2> HIDE DEF W, B
  <2> QED BY <1>1, <1>2 DEF Worker
<1>4. worker' = [worker EXCEPT ![w] = N]
  BY <1>1
<1> QED BY <1>1, <1>2, <1>3, <1>4 DEF Becomes

-----------------------------------------------------------------------------
(* Rows, batches and copies agree after every step.                        *)

(* A row does not vanish, and who holds it holds it as before.             *)
RowsGoOn ==
  \A e \in Events :
    /\ row[e].created => row'[e].created
    /\ row'[e].lockedBy # Nobody => /\ row[e].lockedBy = row'[e].lockedBy
                                    /\ row[e].attempts = row'[e].attempts

LEMMA RowChanges ==
  ASSUME Typed, RowsAgree, NEW e \in Events, NEW N \in Row, row' = [row EXCEPT ![e] = N],
         row[e].created => N.created, N.published => N.created,
         N.lockedBy # Nobody => N.lockedBy = row[e].lockedBy /\ N.attempts = row[e].attempts,
         N.lease = "live" => row[e].lease = "live" /\ N.lockedBy = row[e].lockedBy,
         N.dead => N.created /\ N.lockedBy = Nobody /\ N.lease = "none",
         ~N.dead => N.attempts < MaxAttempts
  PROVE  row' \in [Events -> Row] /\ RowsAgree' /\ RowsGoOn
<1>1. row' \in [Events -> Row] /\ row'[e] = N /\ \A x \in Events \ {e} : row'[x] = row[x]
  BY DEF Typed
<1>2. RowsGoOn
  BY <1>1 DEF RowsGoOn
<1>3. RowsAgree'
  BY <1>1, NobodyAssumption DEF RowsAgree
<1> QED BY <1>1, <1>2, <1>3

LEMMA RowsStay ==
  ASSUME Typed, RowsAgree, UNCHANGED row
  PROVE  row' \in [Events -> Row] /\ RowsAgree' /\ RowsGoOn
BY DEF Typed, RowsAgree, RowsGoOn

LEMMA BatchesShrink ==
  ASSUME SInv, NEW w \in Workers, NEW pc, NEW batch, NEW current,
         Becomes(w, pc, batch, current),
         batch \cup current \subseteq Copies(w), batch \cap current = {},
         pc \in {"idle", "down"} => batch = {} /\ current = {},
         pc = "publish" => current = {},
         pc \in {"mark", "fail"} => \E c \in Copy : current = {c}
  PROVE  BatchesAreSets' /\ \A v \in Workers : Copies(v)' \subseteq Copies(v)
<1>1. \A v \in Workers : Copies(v)' \subseteq Copies(v)
  BY DEF Becomes, Copies
<1>2. BatchesAreSets'
  <2> SUFFICES ASSUME NEW v \in Workers
               PROVE  /\ worker'[v].pc \in {"idle", "down"}
                            => worker'[v].batch = {} /\ worker'[v].current = {}
                      /\ worker'[v].pc = "publish" => worker'[v].current = {}
                      /\ worker'[v].pc \in {"mark", "fail"}
                            => \E c \in Copy : worker'[v].current = {c}
                      /\ worker'[v].current \cap worker'[v].batch = {}
                      /\ \A c, d \in Copies(v)' : c.event = d.event => c = d
    BY DEF BatchesAreSets
  <2>1. \A c, d \in Copies(v)' : c.event = d.event => c = d
    BY <1>1 DEF SInv, BatchesAreSets
  <2>2. CASE v = w
    BY <2>1, <2>2 DEF Becomes
  <2>3. CASE v # w
    <3>1. worker'[v] = worker[v]
      BY <2>3 DEF Becomes
    <3> QED BY <2>1, <3>1 DEF SInv, BatchesAreSets
  <2> QED BY <2>2, <2>3
<1> QED BY <1>1, <1>2

LEMMA CopiesShrink ==
  ASSUME SInv, worker' \in [Workers -> Worker], RowsGoOn,
         \A v \in Workers : Copies(v)' \subseteq Copies(v),
         \A v \in Workers : worker'[v].pc = "mark" =>
            \A c \in worker'[v].current : delivered'[c.event] > 0
  PROVE  CopiesAgree'
<1> SUFFICES ASSUME NEW v \in Workers, NEW c \in Copies(v)'
             PROVE  /\ row'[c.event].created /\ c.attempts < MaxAttempts
                    /\ row'[c.event].lockedBy = v => c.attempts = row'[c.event].attempts
                    /\ worker'[v].pc = "mark" /\ c \in worker'[v].current
                          => delivered'[c.event] > 0
  BY DEF CopiesAgree
<1>1. c \in Copies(v) /\ c \in Copy
  BY DEF SInv, Typed, Worker, Copies
<1>2. c.event \in Events
  BY <1>1 DEF Copy
<1>3. row[c.event].created /\ c.attempts < MaxAttempts
      /\ (row[c.event].lockedBy = v => c.attempts = row[c.event].attempts)
  BY <1>1 DEF SInv, CopiesAgree
<1> QED BY <1>2, <1>3, NobodyAssumption DEF RowsGoOn

(* The steps of a worker that claim nothing, and those of a row.           *)
WorkerStep == \E w \in Workers :
  \/ Publish(w) \/ PublishFails(w) \/ PublishLost(w)
  \/ Mark(w) \/ CountFailure(w) \/ StatementError(w) \/ Crash(w)

RowStep == \E e \in Events :
  Enqueue(e) \/ Retry(e) \/ ExpireLease(e) \/ Overrun(e) \/ BackOff(e)

LEMMA Counts ==
  ASSUME Typed, Next
  PROVE  /\ delivered' \in [Events -> Nat] /\ \A e \in Events : delivered'[e] >= delivered[e]
         /\ retries' \in 0 .. MaxRetries /\ faults' \in 0 .. MaxFaults
<1>1. ASSUME NEW c \in Copy, Reach(c)
      PROVE  delivered' \in [Events -> Nat] /\ \A e \in Events : delivered'[e] >= delivered[e]
  BY <1>1 DEF Typed, Reach, Copy
<1>2. \A w \in Workers : worker[w].batch \subseteq Copy
  BY DEF Typed, Worker
<1>3. Fault => faults' \in 0 .. MaxFaults
  BY NumbersAssumption DEF Fault, Typed
<1>4. UNCHANGED delivered => delivered' \in [Events -> Nat] /\ \A e \in Events : delivered'[e] >= delivered[e]
  BY DEF Typed
<1>5. ASSUME NEW w \in Workers, Publish(w) \/ PublishLost(w) PROVE \E c \in Copy : Reach(c)
  BY <1>2, <1>5 DEF Publish, PublishLost
<1>6. UNCHANGED delivered \/ \E c \in Copy : Reach(c)
  BY <1>5 DEF Next, Work, Claim, PublishFails, Mark, CountFailure, StatementError, Crash,
              Enqueue, Retry, ExpireLease, Overrun, RunOut, BackOff
<1>7. UNCHANGED faults \/ Fault
  BY DEF Next, Work, Claim, Publish, PublishFails, PublishLost, Mark, CountFailure,
         StatementError, Crash, Enqueue, Retry, ExpireLease, Overrun, RunOut, BackOff
<1>8. retries' \in 0 .. MaxRetries
  <2>1. CASE \E e \in Events : Retry(e)
    BY <2>1, NumbersAssumption DEF Retry, Typed
  <2>2. CASE UNCHANGED retries
    BY <2>2 DEF Typed
  <2> QED BY <2>1, <2>2 DEF Next, Work, Claim, Publish, PublishFails, PublishLost, Mark, CountFailure,
              StatementError, Crash, Enqueue, ExpireLease, Overrun, RunOut, BackOff
<1> QED BY <1>1, <1>3, <1>4, <1>6, <1>7, <1>8 DEF Typed

LEMMA RowStepKeepsRows ==
  ASSUME SInv, NEW e \in Events,
         Enqueue(e) \/ Retry(e) \/ ExpireLease(e) \/ Overrun(e) \/ BackOff(e)
  PROVE  row' \in [Events -> Row] /\ RowsAgree' /\ RowsGoOn
<1> DEFINE R == row[e]
<1>1. /\ Typed /\ RowsAgree /\ R \in Row /\ row \in [Events -> Row]
      /\ R.lease = "live" => R.lockedBy \in Workers
      /\ R.dead => R.created /\ R.lockedBy = Nobody /\ R.lease = "none"
      /\ R.published => R.created
      /\ ~R.dead => R.attempts < MaxAttempts
  BY DEF SInv, Typed, RowsAgree
<1>2. CASE Enqueue(e)
  <2> DEFINE N == [R EXCEPT !.created = TRUE]
  <2>1. /\ N \in Row /\ N.created /\ N.lockedBy = R.lockedBy /\ N.attempts = R.attempts
        /\ N.lease = R.lease /\ N.dead = R.dead
    <3> HIDE DEF R
    <3> QED BY <1>1 DEF Row
  <2>2. row' = [row EXCEPT ![e] = N]
    BY <1>1, <1>2 DEF Enqueue
  <2> HIDE DEF N
  <2> QED BY <1>1, <2>1, <2>2, RowChanges
<1>3. CASE Retry(e)
  <2> DEFINE N == [R EXCEPT !.attempts = 0, !.lockedBy = Nobody, !.lease = "none",
                            !.due = TRUE, !.dead = FALSE]
  <2>0. 0 \in 0 .. MaxAttempts /\ 0 < MaxAttempts
    BY NumbersAssumption
  <2>1. /\ N \in Row /\ N.created = R.created /\ N.lockedBy = Nobody /\ N.attempts = 0
        /\ N.lease = "none" /\ ~N.dead
    <3> HIDE DEF R
    <3> QED BY <1>1, <2>0 DEF Row
  <2>2. row' = [row EXCEPT ![e] = N] /\ R.created
    BY <1>1, <1>3 DEF Retry
  <2>3. N \in Row
    BY <2>1
  <2>4. N.lockedBy = Nobody /\ N.lease = "none" /\ N.attempts < MaxAttempts /\ N.created
    BY <2>0, <2>1, <2>2
  <2> HIDE DEF N
  <2> QED BY <1>1, <2>1, <2>2, <2>3, <2>4, RowChanges
<1>4. CASE RunOut(e)
  <2> DEFINE N == [R EXCEPT !.lease = "over"]
  <2>1. /\ N \in Row /\ N.created = R.created /\ N.published = R.published
        /\ N.lockedBy = R.lockedBy /\ N.attempts = R.attempts /\ N.lease = "over" /\ N.dead = R.dead
    <3> HIDE DEF R
    <3> QED BY <1>1 DEF Row
  <2>2. row' = [row EXCEPT ![e] = N] /\ ~R.dead
    BY <1>1, <1>4 DEF RunOut
  <2> HIDE DEF N
  <2> QED BY <1>1, <2>1, <2>2, RowChanges
<1>5. CASE BackOff(e)
  <2> DEFINE N == [R EXCEPT !.due = TRUE]
  <2>1. /\ N \in Row /\ N.created = R.created /\ N.published = R.published
        /\ N.lockedBy = R.lockedBy /\ N.attempts = R.attempts /\ N.lease = R.lease /\ N.dead = R.dead
    <3> HIDE DEF R
    <3> QED BY <1>1 DEF Row
  <2>2. row' = [row EXCEPT ![e] = N]
    BY <1>1, <1>5 DEF BackOff
  <2> HIDE DEF N
  <2> QED BY <1>1, <2>1, <2>2, RowChanges
<1> QED BY <1>2, <1>3, <1>4, <1>5 DEF ExpireLease, Overrun

LEMMA RowStepKeeps ==
  ASSUME SInv, RowStep, Next
  PROVE  SInv'
<1>1. PICK e \in Events : Enqueue(e) \/ Retry(e) \/ ExpireLease(e) \/ Overrun(e) \/ BackOff(e)
  BY DEF RowStep
<1>2. row' \in [Events -> Row] /\ RowsAgree' /\ RowsGoOn
  BY <1>1, RowStepKeepsRows
<1>3. UNCHANGED <<worker, delivered>>
  BY <1>1 DEF Enqueue, Retry, ExpireLease, Overrun, RunOut, BackOff
<1>4. Typed'
  BY <1>2, <1>3, Counts DEF SInv, Typed
<1>5. BatchesAreSets'
  BY <1>3 DEF SInv, BatchesAreSets, Copies
<1>6. /\ \A v \in Workers : Copies(v)' \subseteq Copies(v)
      /\ \A v \in Workers : worker'[v].pc = "mark" =>
            \A c \in worker'[v].current : delivered'[c.event] > 0
  BY <1>3 DEF SInv, CopiesAgree, Copies
<1> QED BY <1>2, <1>4, <1>5, <1>6, CopiesShrink DEF SInv, Typed

(* A worker that goes on with what it has, or with less.                   *)
LEMMA WorkerKeeps ==
  ASSUME SInv, Next, row' \in [Events -> Row] /\ RowsAgree' /\ RowsGoOn,
         NEW w \in Workers, NEW pc, NEW batch, NEW current,
         Becomes(w, pc, batch, current),
         batch \cup current \subseteq Copies(w), batch \cap current = {},
         pc \in {"idle", "down"} => batch = {} /\ current = {},
         pc = "publish" => current = {},
         pc \in {"mark", "fail"} => \E c \in Copy : current = {c},
         pc = "mark" => \A c \in current : delivered'[c.event] > 0
  PROVE  SInv'
<1>1. BatchesAreSets' /\ \A v \in Workers : Copies(v)' \subseteq Copies(v)
  BY BatchesShrink
<1>2. worker' \in [Workers -> Worker]
  BY DEF Becomes
<1>3. Typed'
  BY <1>2, Counts DEF SInv, Typed
<1>4. ASSUME NEW v \in Workers, worker'[v].pc = "mark", NEW c \in worker'[v].current
      PROVE  delivered'[c.event] > 0
  <2>1. CASE v = w
    BY <1>4, <2>1 DEF Becomes
  <2>2. CASE v # w
    <3>1. worker'[v] = worker[v]
      BY <2>2 DEF Becomes
    <3>2. c \in Copies(v) /\ c \in Copy /\ worker[v].pc = "mark" /\ c \in worker[v].current
      BY <1>4, <3>1 DEF Copies, SInv, Typed, Worker
    <3>3. delivered[c.event] > 0 /\ c.event \in Events
      BY <3>2 DEF SInv, CopiesAgree, Copy
    <3>4. delivered'[c.event] >= delivered[c.event] /\ delivered[c.event] \in Nat
          /\ delivered'[c.event] \in Nat
      BY <3>3, Counts DEF SInv, Typed
    <3> QED BY <3>3, <3>4
  <2> QED BY <2>1, <2>2
<1>5. CopiesAgree'
  BY <1>1, <1>2, <1>4, CopiesShrink
<1> QED BY <1>1, <1>3, <1>5 DEF SInv

LEMMA TakeKeeps ==
  ASSUME SInv, Next, UNCHANGED row, NEW w \in Workers, NEW c \in worker[w].batch,
         NEW l \in {"mark", "fail"}, Take(w, c, l), l = "mark" => Reach(c)
  PROVE  SInv'
<1>1. Becomes(w, l, worker[w].batch \ {c}, {c})
  BY TakeBecomes DEF SInv
<1>2. row' \in [Events -> Row] /\ RowsAgree' /\ RowsGoOn
  BY RowsStay DEF SInv
<1>3. c \in Copy /\ c.event \in Events
  BY DEF SInv, Typed, Worker, Copy
<1>4. l = "mark" => delivered'[c.event] > 0
  BY <1>3 DEF SInv, Typed, Reach
<1>5. (worker[w].batch \ {c}) \cup {c} \subseteq Copies(w)
  BY DEF Copies
<1>6. \E d \in Copy : {c} = {d}
  BY <1>3
<1>7. l # "idle" /\ l # "down" /\ l # "publish"
  OBVIOUS
<1> QED BY <1>1, <1>2, <1>4, <1>5, <1>6, <1>7, WorkerKeeps

LEMMA ProceedKeeps ==
  ASSUME SInv, Next, row' \in [Events -> Row] /\ RowsAgree' /\ RowsGoOn,
         NEW w \in Workers, Proceed(w)
  PROVE  SInv'
<1> DEFINE pc == IF worker[w].batch = {} THEN "idle" ELSE "publish"
<1>1. Becomes(w, pc, worker[w].batch, {})
  BY ProceedBecomes DEF SInv
<1>2. worker[w].batch \cup {} \subseteq Copies(w)
  BY DEF Copies
<1>3. /\ pc \in {"idle", "publish"}
      /\ pc = "idle" => worker[w].batch = {}
  OBVIOUS
<1> HIDE DEF pc
<1> QED BY <1>1, <1>2, <1>3, WorkerKeeps

LEMMA MarkKeepsRows ==
  ASSUME SInv, NEW w \in Workers, Mark(w)
  PROVE  row' \in [Events -> Row] /\ RowsAgree' /\ RowsGoOn
<1>1. PICK c \in Copy : worker[w].current = {c}
  BY DEF SInv, BatchesAreSets, Mark
<1> DEFINE e == c.event
           R == row[e]
           N == [R EXCEPT !.published = TRUE, !.lockedBy = Nobody, !.lease = "none", !.due = TRUE]
<1>2. /\ Typed /\ RowsAgree /\ e \in Events /\ R \in Row /\ row \in [Events -> Row]
      /\ R.created
      /\ ~R.dead => R.attempts < MaxAttempts
  BY <1>1 DEF SInv, Typed, RowsAgree, Copy, CopiesAgree, Copies
<1>3. /\ N \in Row /\ N.created = R.created /\ N.lockedBy = Nobody /\ N.attempts = R.attempts
      /\ N.lease = "none" /\ N.dead = R.dead
  <2> HIDE DEF R
  <2> QED BY <1>2 DEF Row
<1>4. CASE IsMine(e, w)
  <2>1. row' = [row EXCEPT ![e] = N]
    BY <1>1, <1>2, <1>4 DEF Mark
  <2> HIDE DEF N
  <2> QED BY <1>2, <1>3, <2>1, RowChanges
<1>5. CASE ~IsMine(e, w)
  <2>1. UNCHANGED row
    BY <1>1, <1>5 DEF Mark
  <2> QED BY <1>2, <2>1, RowsStay
<1> QED BY <1>4, <1>5

LEMMA CountFailureKeepsRows ==
  ASSUME SInv, NEW w \in Workers, CountFailure(w)
  PROVE  row' \in [Events -> Row] /\ RowsAgree' /\ RowsGoOn
<1>1. PICK c \in Copy : worker[w].current = {c}
  BY DEF SInv, BatchesAreSets, CountFailure
<1> DEFINE e == c.event
           R == row[e]
           a == Increased(c.attempts)
           o == Exhausted(a)
           N == [R EXCEPT !.attempts = a, !.lockedBy = Nobody, !.lease = "none", !.due = o, !.dead = o]
<1>2. /\ Typed /\ RowsAgree /\ e \in Events /\ R \in Row /\ row \in [Events -> Row]
      /\ R.created
  BY <1>1 DEF SInv, Typed, RowsAgree, Copy, CopiesAgree, Copies
<1>3. c.attempts < MaxAttempts /\ c.attempts \in Nat
  BY <1>1 DEF SInv, CopiesAgree, Copies, Copy
<1>4. a \in 0 .. MaxAttempts /\ o \in BOOLEAN /\ (~o => a < MaxAttempts)
  BY <1>3, NumbersAssumption DEF Increased, Exhausted
<1>5. /\ N \in Row /\ N.created = R.created /\ N.lockedBy = Nobody /\ N.attempts = a
      /\ N.lease = "none" /\ N.dead = o
  <2> HIDE DEF R, a, o
  <2> QED BY <1>2, <1>4 DEF Row
<1>6. CASE IsMine(e, w)
  <2>1. row' = [row EXCEPT ![e] = N]
    BY <1>1, <1>2, <1>6 DEF CountFailure
  <2> HIDE DEF N, a, o
  <2> QED BY <1>2, <1>4, <1>5, <2>1, RowChanges
<1>7. CASE ~IsMine(e, w)
  <2>1. UNCHANGED row
    BY <1>1, <1>7 DEF CountFailure
  <2> QED BY <1>2, <2>1, RowsStay
<1> QED BY <1>6, <1>7

LEMMA WorkerStepKeeps ==
  ASSUME SInv, WorkerStep, Next
  PROVE  SInv'
<1>1. PICK w \in Workers : \/ Publish(w) \/ PublishFails(w) \/ PublishLost(w)
                           \/ Mark(w) \/ CountFailure(w) \/ StatementError(w) \/ Crash(w)
  BY DEF WorkerStep
<1>2. CASE Publish(w)
  BY <1>2, TakeKeeps DEF Publish
<1>3. CASE PublishFails(w)
  BY <1>3, TakeKeeps DEF PublishFails
<1>4. CASE PublishLost(w)
  BY <1>4, TakeKeeps DEF PublishLost
<1>5. CASE Mark(w)
  BY <1>5, MarkKeepsRows, ProceedKeeps DEF Mark
<1>6. CASE CountFailure(w)
  BY <1>6, CountFailureKeepsRows, ProceedKeeps DEF CountFailure
<1>7. CASE StatementError(w) \/ Crash(w)
  <2>1. row' \in [Events -> Row] /\ RowsAgree' /\ RowsGoOn
    BY <1>7, RowsStay DEF SInv, StatementError, Crash
  <2>2. CASE /\ worker[w].pc = "mark"
             /\ worker' = [worker EXCEPT ![w].pc = "fail"]
    <3>1. Becomes(w, "fail", worker[w].batch, worker[w].current)
      BY <2>2, MarkFails DEF SInv
    <3>2. /\ worker[w].current \cap worker[w].batch = {}
          /\ \E c \in Copy : worker[w].current = {c}
      BY <2>2 DEF SInv, BatchesAreSets
    <3> QED BY <2>1, <3>1, <3>2, WorkerKeeps DEF Copies
  <2>3. CASE \E l \in {"idle", "down"} :
               worker' = [worker EXCEPT ![w].pc = l, ![w].batch = {}, ![w].current = {}]
    <3>1. PICK l \in {"idle", "down"} : Becomes(w, l, {}, {})
      BY <2>3, DropsAll DEF SInv
    <3> QED BY <2>1, <3>1, WorkerKeeps
  <2> QED BY <1>7, <2>2, <2>3 DEF StatementError, Crash
<1> QED BY <1>1, <1>2, <1>3, <1>4, <1>5, <1>6, <1>7

(* A claim makes copies of rows that nobody holds any more.                *)
LEMMA LockLocks ==
  ASSUME SInv, NEW w \in Workers, NEW S \in SUBSET Events, Lock(S, w),
         \A e \in S : Claimable(e)
  PROVE  /\ row' \in [Events -> Row] /\ RowsAgree'
         /\ \A e \in Events \ S : row'[e] = row[e]
         /\ \A e \in S : /\ row'[e].lockedBy = w /\ row'[e].lease = "live"
                         /\ row'[e].attempts = row[e].attempts /\ row'[e].published = row[e].published
                         /\ row'[e].created /\ row'[e].dead = row[e].dead
<1> DEFINE N(e) == [row[e] EXCEPT !.lockedBy = w, !.lease = "live"]
<1>1. ASSUME NEW R \in Row
      PROVE  LET n == [R EXCEPT !.lockedBy = w, !.lease = "live"]
             IN /\ n \in Row /\ n.created = R.created /\ n.lockedBy = w
                /\ n.attempts = R.attempts /\ n.published = R.published
                /\ n.lease = "live" /\ n.dead = R.dead
  BY DEF Row
<1>2. \A e \in Events : row[e] \in Row
  BY DEF SInv, Typed
<1>3. \A e \in S : row[e].created /\ ~row[e].dead
  BY DEF Claimable
<1>4. /\ \A e \in Events \ S : row'[e] = row[e]
      /\ \A e \in S : row'[e] = N(e)
      /\ DOMAIN row' = Events /\ row' = [e \in Events |-> row'[e]]
  BY DEF Lock
<1>5. \A e \in S : /\ N(e) \in Row /\ N(e).created = row[e].created /\ N(e).lockedBy = w
                   /\ N(e).attempts = row[e].attempts /\ N(e).published = row[e].published
                   /\ N(e).lease = "live" /\ N(e).dead = row[e].dead
  BY <1>1, <1>2
<1> HIDE DEF N
<1>6. row' \in [Events -> Row]
  BY <1>2, <1>4, <1>5
<1>7. RowsAgree'
  <2> SUFFICES ASSUME NEW e \in Events
               PROVE  /\ row'[e].lease = "live" => row'[e].lockedBy \in Workers
                      /\ row'[e].lockedBy # Nobody => row'[e].created
                      /\ row'[e].published => row'[e].created
                      /\ row'[e].dead => /\ row'[e].created
                                         /\ row'[e].lockedBy = Nobody /\ row'[e].lease = "none"
                      /\ ~row'[e].dead => row'[e].attempts < MaxAttempts
    BY DEF RowsAgree
  <2>1. CASE e \in S
    BY <1>3, <1>4, <1>5, <2>1 DEF SInv, RowsAgree
  <2>2. CASE e \notin S
    BY <1>4, <2>2 DEF SInv, RowsAgree
  <2> QED BY <2>1, <2>2
<1> QED BY <1>3, <1>4, <1>5, <1>6, <1>7

LEMMA ClaimKeeps ==
  ASSUME SInv, Next, NEW w \in Workers, Claim(w)
  PROVE  SInv'
<1>1. PICK S \in SUBSET Events :
        /\ Batch(S) /\ Lock(S, w)
        /\ worker' = [worker EXCEPT ![w].pc = "publish", ![w].batch = Claimed(S)]
  BY DEF Claim, Claimed
<1>2. Becomes(w, "publish", Claimed(S), {}) /\ Claimed(S) \subseteq Copy
  BY <1>1, ClaimBecomes DEF Claim
<1>3. /\ row' \in [Events -> Row] /\ RowsAgree'
      /\ \A e \in Events \ S : row'[e] = row[e]
      /\ \A e \in S : /\ row'[e].lockedBy = w /\ row'[e].attempts = row[e].attempts
                      /\ row'[e].created /\ ~row[e].dead
  BY <1>1, LockLocks DEF Batch, Claimable
<1>4. Typed'
  BY <1>2, <1>3, Counts DEF SInv, Typed, Becomes
<1>5. /\ Copies(w)' = Claimed(S)
      /\ \A v \in Workers \ {w} : worker'[v] = worker[v] /\ Copies(v)' = Copies(v)
      /\ worker'[w].pc = "publish" /\ worker'[w].current = {}
  BY <1>2 DEF Copies, Becomes
<1>6. BatchesAreSets'
  <2>1. \A c, d \in Claimed(S) : c.event = d.event => c = d
    BY DEF Claimed
  <2>2. ASSUME NEW v \in Workers
        PROVE  /\ worker'[v].pc \in {"idle", "down"}
                     => worker'[v].batch = {} /\ worker'[v].current = {}
               /\ worker'[v].pc = "publish" => worker'[v].current = {}
               /\ worker'[v].pc \in {"mark", "fail"}
                     => \E c \in Copy : worker'[v].current = {c}
               /\ worker'[v].current \cap worker'[v].batch = {}
               /\ \A c, d \in Copies(v)' : c.event = d.event => c = d
    <3>1. CASE v = w
      BY <1>5, <2>1, <3>1
    <3>2. CASE v # w
      BY <1>5, <3>2 DEF SInv, BatchesAreSets
    <3> QED BY <3>1, <3>2
  <2> QED BY <2>2 DEF BatchesAreSets
<1>7. CopiesAgree'
  <2> SUFFICES ASSUME NEW v \in Workers, NEW c \in Copies(v)'
               PROVE  /\ row'[c.event].created /\ c.attempts < MaxAttempts
                      /\ row'[c.event].lockedBy = v => c.attempts = row'[c.event].attempts
                      /\ worker'[v].pc = "mark" /\ c \in worker'[v].current
                            => delivered'[c.event] > 0
    BY DEF CopiesAgree
  <2>1. CASE v = w
    <3>1. PICK e \in S : c = [event |-> e, attempts |-> row[e].attempts]
      BY <1>5, <2>1 DEF Claimed
    <3>2. row[e].attempts < MaxAttempts
      BY <1>3 DEF SInv, RowsAgree
    <3> QED BY <1>3, <1>5, <2>1, <3>1, <3>2
  <2>2. CASE v # w
    <3>1. c \in Copies(v) /\ worker'[v] = worker[v] /\ c \in Copy /\ c.event \in Events
      BY <1>5, <2>2 DEF SInv, Typed, Worker, Copies, Copy
    <3>2. /\ row[c.event].created /\ c.attempts < MaxAttempts
          /\ row[c.event].lockedBy = v => c.attempts = row[c.event].attempts
          /\ worker[v].pc = "mark" /\ c \in worker[v].current => delivered[c.event] > 0
      BY <3>1 DEF SInv, CopiesAgree
    <3>3. UNCHANGED delivered
      BY DEF Claim
    <3>4. CASE c.event \in S
      BY <1>3, <2>2, <3>1, <3>2, <3>3, <3>4
    <3>5. CASE c.event \notin S
      BY <1>3, <3>1, <3>2, <3>3, <3>5
    <3> QED BY <3>4, <3>5
  <2> QED BY <2>1, <2>2
<1> QED BY <1>3, <1>4, <1>6, <1>7 DEF SInv

LEMMA SInvInit ==
  ASSUME Init
  PROVE  SInv
<1>1. NoRow \in Row /\ ~NoRow.dead /\ ~NoRow.published /\ NoRow.lockedBy = Nobody /\ NoRow.lease = "none" /\ NoRow.attempts = 0
  BY NumbersAssumption DEF NoRow, Row
<1>2. \A e \in Events : row[e] = NoRow
  BY DEF Init
<1>3. \A w \in Workers : worker[w].pc = "idle" /\ worker[w].batch = {} /\ worker[w].current = {}
  BY DEF Init
<1>4. Typed
  BY <1>1, NumbersAssumption DEF Init, Typed, Worker
<1>5. RowsAgree
  BY <1>1, <1>2, NumbersAssumption DEF RowsAgree
<1>6. BatchesAreSets /\ CopiesAgree
  BY <1>3 DEF BatchesAreSets, CopiesAgree, Copies
<1> QED BY <1>4, <1>5, <1>6 DEF SInv

LEMMA SInvNext ==
  ASSUME SInv, [Next]_vars
  PROVE  SInv'
<1>1. CASE UNCHANGED vars
  BY <1>1 DEF vars, SInv, Typed, RowsAgree, BatchesAreSets, CopiesAgree, Copies
<1>2. CASE Next /\ \E w \in Workers : Claim(w)
  BY <1>2, ClaimKeeps
<1>3. CASE Next /\ (WorkerStep \/ RowStep)
  BY <1>3, WorkerStepKeeps, RowStepKeeps
<1> QED BY <1>1, <1>2, <1>3 DEF Next, Work, WorkerStep, RowStep

-----------------------------------------------------------------------------
(* The rights to deliver an event.                                         *)

Right(w, e) ==
  \/ \E c \in worker[w].batch : c.event = e
  \/ worker[w].pc = "fail" /\ \E c \in worker[w].current : c.event = e

Holders(e)   == {w \in Workers : Right(w, e)}
Guarded(e)   == row[e].lease = "live" /\ IsWorkedAt(e)
RowsRight(e) == IF row[e].published \/ Guarded(e) THEN 0 ELSE 1

Balanced ==
  \A e \in Events : /\ IsFiniteSet(Holders(e))
                    /\ delivered[e] + Cardinality(Holders(e)) + RowsRight(e) <= 1 + faults

(* A step adds no right that is not paid for by a fault.                   *)
PaidFor(e) ==
  /\ IsFiniteSet(Holders(e)')
  /\ delivered'[e] + Cardinality(Holders(e)') + RowsRight(e)' + faults
       <= delivered[e] + Cardinality(Holders(e)) + RowsRight(e) + faults'

LEMMA RowsRightBound == \A e \in Events : RowsRight(e) \in {0, 1} /\ RowsRight(e)' \in {0, 1}
BY DEF RowsRight

LEMMA RowsRightFalls ==
  ASSUME NEW e \in Events,
         row[e].published => row'[e].published,
         Guarded(e) => Guarded(e)' \/ row'[e].published
  PROVE  RowsRight(e)' <= RowsRight(e)
BY DEF RowsRight

LEMMA HoldersChange ==
  ASSUME NEW w \in Workers, NEW pc, NEW batch, NEW current, Becomes(w, pc, batch, current),
         NEW e \in Events, IsFiniteSet(Holders(e))
  PROVE  /\ IsFiniteSet(Holders(e)')
         /\ Cardinality(Holders(e)) \in Nat /\ Cardinality(Holders(e)') \in Nat
         /\ Right(w, e)' /\ ~Right(w, e)
              => Cardinality(Holders(e)') = Cardinality(Holders(e)) + 1
         /\ ~Right(w, e)' /\ Right(w, e)
              => Cardinality(Holders(e)') = Cardinality(Holders(e)) - 1
         /\ (Right(w, e)' <=> Right(w, e)) => Cardinality(Holders(e)') = Cardinality(Holders(e))
<1>1. \A v \in Workers \ {w} : Right(v, e)' <=> Right(v, e)
  BY DEF Becomes, Right
<1>2. CASE Right(w, e)' /\ ~Right(w, e)
  <2>1. Holders(e)' = Holders(e) \cup {w} /\ w \notin Holders(e)
    BY <1>1, <1>2 DEF Holders
  <2> QED BY <1>2, <2>1, FS_AddElement, FS_CardinalityType
<1>3. CASE ~Right(w, e)' /\ Right(w, e)
  <2>1. Holders(e)' = Holders(e) \ {w} /\ w \in Holders(e)
    BY <1>1, <1>3 DEF Holders
  <2> QED BY <1>3, <2>1, FS_RemoveElement, FS_CardinalityType
<1>4. CASE Right(w, e)' <=> Right(w, e)
  <2>1. Holders(e)' = Holders(e)
    BY <1>1, <1>4 DEF Holders
  <2> QED BY <1>4, <2>1, FS_CardinalityType
<1> QED BY <1>2, <1>3, <1>4

(* The worker that holds a row alone decides whether it is worked at.      *)
LEMMA GuardStays ==
  ASSUME SInv, NEW w \in Workers, NEW pc, NEW batch, NEW current,
         Becomes(w, pc, batch, current), NEW e \in Events, row'[e] = row[e], Guarded(e),
         row[e].lockedBy = w =>
            ((\E c \in Copies(w) : c.event = e) => \E c \in batch \cup current : c.event = e)
  PROVE  Guarded(e)'
<1>1. row[e].lockedBy \in Workers
  BY DEF SInv, RowsAgree, Guarded
<1>2. CASE row[e].lockedBy = w
  BY <1>2 DEF Guarded, IsWorkedAt, Copies, Becomes
<1>3. CASE row[e].lockedBy # w
  BY <1>1, <1>3 DEF Guarded, IsWorkedAt, Copies, Becomes
<1> QED BY <1>2, <1>3

LEMMA NaturalCounts ==
  ASSUME SInv
  PROVE  faults \in Nat /\ \A e \in Events : delivered[e] \in Nat
BY NumbersAssumption DEF SInv, Typed

LEMMA TakePays ==
  ASSUME SInv, Next, UNCHANGED row, NEW w \in Workers, NEW c \in worker[w].batch,
         worker[w].pc = "publish", NEW l \in {"mark", "fail"}, Take(w, c, l),
         \/ l = "mark" /\ Reach(c) /\ UNCHANGED faults
         \/ l = "fail" /\ UNCHANGED <<delivered, faults>>
         \/ l = "fail" /\ Reach(c) /\ faults' = faults + 1,
         NEW e \in Events, IsFiniteSet(Holders(e))
  PROVE  PaidFor(e)
<1>1. Becomes(w, l, worker[w].batch \ {c}, {c})
  BY TakeBecomes DEF SInv
<1>2. c \in Copy /\ c.event \in Events /\ worker[w].current = {}
  BY DEF SInv, Typed, Worker, Copy, BatchesAreSets
<1>3. RowsRight(e)' <= RowsRight(e)
  <2>1. Copies(w) = (worker[w].batch \ {c}) \cup {c}
    BY <1>2 DEF Copies
  <2>2. row'[e] = row[e]
    OBVIOUS
  <2>3. Guarded(e) => Guarded(e)'
    BY <1>1, <2>1, <2>2, GuardStays
  <2> QED BY <2>2, <2>3, RowsRightFalls
<1>4. /\ IsFiniteSet(Holders(e)')
      /\ Cardinality(Holders(e)) \in Nat /\ Cardinality(Holders(e)') \in Nat
      /\ Right(w, e)' /\ ~Right(w, e)
           => Cardinality(Holders(e)') = Cardinality(Holders(e)) + 1
      /\ ~Right(w, e)' /\ Right(w, e)
           => Cardinality(Holders(e)') = Cardinality(Holders(e)) - 1
      /\ (Right(w, e)' <=> Right(w, e)) => Cardinality(Holders(e)') = Cardinality(Holders(e))
  BY <1>1, HoldersChange
<1>5. /\ delivered[e] \in Nat /\ faults \in Nat /\ RowsRight(e) \in {0, 1} /\ RowsRight(e)' \in {0, 1}
      /\ Reach(c) => delivered'[e] = IF e = c.event THEN delivered[e] + 1 ELSE delivered[e]
  BY <1>2, RowsRightBound, NumbersAssumption DEF SInv, Typed, Reach
<1>6. CASE e = c.event
  <2>1. Right(w, e) /\ (l = "fail" => Right(w, e)')
    BY <1>1, <1>6 DEF Right, Becomes
  <2>2. l = "mark" => ~Right(w, e)'
    BY <1>1, <1>6 DEF Right, Becomes, SInv, BatchesAreSets, Copies
  <2> QED BY <1>3, <1>4, <1>5, <1>6, <2>1, <2>2 DEF PaidFor
<1>7. CASE e # c.event
  <2>1. Right(w, e)' <=> Right(w, e)
    BY <1>1, <1>7 DEF Right, Becomes
  <2> QED BY <1>3, <1>4, <1>5, <1>7, <2>1 DEF PaidFor
<1> QED BY <1>6, <1>7

LEMMA MarkPays ==
  ASSUME SInv, NEW w \in Workers, Mark(w), NEW e \in Events, IsFiniteSet(Holders(e))
  PROVE  PaidFor(e)
<1> DEFINE l == IF worker[w].batch = {} THEN "idle" ELSE "publish"
<1>0. /\ delivered'[e] = delivered[e] /\ faults' = faults /\ delivered[e] \in Nat /\ faults \in Nat
      /\ RowsRight(e) \in {0, 1} /\ RowsRight(e)' \in {0, 1}
  BY RowsRightBound, NaturalCounts DEF Mark
<1>1. Becomes(w, l, worker[w].batch, {}) /\ l # "fail"
  BY ProceedBecomes DEF SInv, Mark
<1> HIDE DEF l
<1>2. PICK c \in Copy : worker[w].current = {c}
  BY DEF SInv, BatchesAreSets, Mark
<1>3. Right(w, e)' <=> Right(w, e)
  BY <1>1 DEF Right, Becomes, Mark
<1>4. IsFiniteSet(Holders(e)') /\ Cardinality(Holders(e)') = Cardinality(Holders(e))
      /\ Cardinality(Holders(e)) \in Nat
  BY <1>1, <1>3, HoldersChange
<1>5. CASE e = c.event /\ IsMine(e, w)
  <2> DEFINE N == [row[e] EXCEPT !.published = TRUE, !.lockedBy = Nobody,
                                 !.lease = "none", !.due = TRUE]
  <2>1. row \in [Events -> Row] /\ row[e] \in Row
    BY DEF SInv, Typed
  <2>2. row'[e] = N
    BY <1>2, <1>5, <2>1 DEF Mark
  <2>3. row'[e].published
    BY <2>1, <2>2 DEF Row
  <2>4. RowsRight(e)' <= RowsRight(e)
    BY <2>3, RowsRightFalls
  <2> QED BY <1>0, <1>4, <2>4 DEF PaidFor
<1>6. CASE ~(e = c.event /\ IsMine(e, w))
  <2>1. row'[e] = row[e]
    BY <1>2, <1>6 DEF Mark, SInv, Typed
  <2>2. Guarded(e) => Guarded(e)' \/ row'[e].published
    <3>1. CASE row[e].published
      BY <2>1, <3>1
    <3>2. CASE ~row[e].published
      <4>1. row[e].lockedBy = w => e # c.event
        BY <1>6, <3>2 DEF IsMine
      <4>2. row[e].lockedBy = w =>
              ((\E d \in Copies(w) : d.event = e) => \E d \in worker[w].batch \cup {} : d.event = e)
        BY <1>2, <4>1 DEF Copies
      <4> QED BY <1>1, <2>1, <4>2, GuardStays
    <3> QED BY <3>1, <3>2
  <2>3. RowsRight(e)' <= RowsRight(e)
    BY <2>1, <2>2, RowsRightFalls
  <2> QED BY <1>0, <1>4, <2>3 DEF PaidFor
<1> QED BY <1>5, <1>6

LEMMA CountFailurePays ==
  ASSUME SInv, NEW w \in Workers, CountFailure(w), NEW e \in Events, IsFiniteSet(Holders(e))
  PROVE  PaidFor(e)
<1> DEFINE l == IF worker[w].batch = {} THEN "idle" ELSE "publish"
<1>1. Becomes(w, l, worker[w].batch, {}) /\ l # "fail"
  BY ProceedBecomes DEF SInv, CountFailure
<1> HIDE DEF l
<1>2. PICK c \in Copy : worker[w].current = {c}
  BY DEF SInv, BatchesAreSets, CountFailure
<1>3. /\ delivered'[e] = delivered[e] /\ faults' = faults /\ delivered[e] \in Nat /\ faults \in Nat
      /\ RowsRight(e) \in {0, 1} /\ RowsRight(e)' \in {0, 1}
  BY RowsRightBound, NaturalCounts DEF CountFailure
<1>4. CASE e = c.event
  <2>1. Right(w, e) /\ ~Right(w, e)'
    BY <1>1, <1>2, <1>4 DEF Right, Becomes, CountFailure, SInv, BatchesAreSets, Copies
  <2>2. IsFiniteSet(Holders(e)') /\ Cardinality(Holders(e)') = Cardinality(Holders(e)) - 1
        /\ Cardinality(Holders(e)) \in Nat
    BY <1>1, <2>1, HoldersChange
  <2> QED BY <1>3, <2>2 DEF PaidFor
<1>5. CASE e # c.event
  <2>1. Right(w, e)' <=> Right(w, e)
    BY <1>1, <1>2, <1>5 DEF Right, Becomes
  <2>2. IsFiniteSet(Holders(e)') /\ Cardinality(Holders(e)') = Cardinality(Holders(e))
        /\ Cardinality(Holders(e)) \in Nat
    BY <1>1, <2>1, HoldersChange
  <2>3. row'[e] = row[e]
    BY <1>2, <1>5 DEF CountFailure, SInv, Typed
  <2>4. (\E d \in Copies(w) : d.event = e) => \E d \in worker[w].batch \cup {} : d.event = e
    BY <1>2, <1>5 DEF Copies
  <2>5. Guarded(e) => Guarded(e)'
    BY <1>1, <2>3, <2>4, GuardStays
  <2>6. RowsRight(e)' <= RowsRight(e)
    BY <2>3, <2>5, RowsRightFalls
  <2> QED BY <1>3, <2>2, <2>6 DEF PaidFor
<1> QED BY <1>4, <1>5

(* A worker that fails or stops may leave the row its right, for a fault.  *)
LEMMA FailurePays ==
  ASSUME SInv, NEW w \in Workers, StatementError(w) \/ Crash(w),
         NEW e \in Events, IsFiniteSet(Holders(e))
  PROVE  PaidFor(e)
<1>1. /\ delivered'[e] = delivered[e] /\ faults' = faults + 1
      /\ delivered[e] \in Nat /\ faults \in Nat
      /\ RowsRight(e) \in {0, 1} /\ RowsRight(e)' \in {0, 1} /\ row'[e] = row[e]
  BY RowsRightBound, NaturalCounts DEF StatementError, Crash, Fault
<1>2. CASE worker[w].pc = "mark" /\ worker' = [worker EXCEPT ![w].pc = "fail"]
  <2>1. Becomes(w, "fail", worker[w].batch, worker[w].current)
    BY <1>2, MarkFails DEF SInv
  <2>2. Guarded(e) => Guarded(e)'
    BY <1>1, <2>1, GuardStays DEF Copies
  <2>3. RowsRight(e)' <= RowsRight(e)
    BY <1>1, <2>2, RowsRightFalls
  <2>4. /\ IsFiniteSet(Holders(e)')
        /\ Cardinality(Holders(e)) \in Nat /\ Cardinality(Holders(e)') \in Nat
        /\ Cardinality(Holders(e)') <= Cardinality(Holders(e)) + 1
    BY <2>1, HoldersChange
  <2> QED BY <1>1, <2>3, <2>4 DEF PaidFor
<1>3. CASE \E l \in {"idle", "down"} :
             worker' = [worker EXCEPT ![w].pc = l, ![w].batch = {}, ![w].current = {}]
  <2>1. PICK l \in {"idle", "down"} : Becomes(w, l, {}, {})
    BY <1>3, DropsAll DEF SInv
  <2>2. ~Right(w, e)'
    BY <2>1 DEF Right, Becomes
  <2>3. /\ IsFiniteSet(Holders(e)')
        /\ Cardinality(Holders(e)) \in Nat /\ Cardinality(Holders(e)') \in Nat
        /\ Cardinality(Holders(e)') <= Cardinality(Holders(e))
    BY <2>1, <2>2, HoldersChange
  <2> QED BY <1>1, <2>3 DEF PaidFor
<1> QED BY <1>2, <1>3 DEF StatementError, Crash

(* The row hands its right to the worker.                                  *)
LEMMA ClaimPays ==
  ASSUME SInv, NEW w \in Workers, Claim(w), NEW e \in Events, IsFiniteSet(Holders(e))
  PROVE  PaidFor(e)
<1>1. PICK S \in SUBSET Events :
        /\ Batch(S) /\ Lock(S, w)
        /\ worker' = [worker EXCEPT ![w].pc = "publish", ![w].batch = Claimed(S)]
  BY DEF Claim, Claimed
<1>2. Becomes(w, "publish", Claimed(S), {})
  BY <1>1, ClaimBecomes DEF Claim
<1>3. /\ \A x \in Events \ S : row'[x] = row[x]
      /\ \A x \in S : /\ row'[x].lockedBy = w /\ row'[x].lease = "live" /\ Claimable(x)
  BY <1>1, LockLocks DEF Batch
<1>4. /\ delivered'[e] = delivered[e] /\ faults' = faults /\ delivered[e] \in Nat /\ faults \in Nat
      /\ RowsRight(e) \in {0, 1} /\ RowsRight(e)' \in {0, 1}
  BY RowsRightBound, NaturalCounts DEF Claim
<1>5. ~Right(w, e) /\ Copies(w) = {} /\ worker'[w].batch = Claimed(S) /\ worker'[w].pc = "publish"
  BY <1>2 DEF SInv, BatchesAreSets, Claim, Right, Copies, Becomes
<1>6. CASE e \in S
  <2> DEFINE c == [event |-> e, attempts |-> row[e].attempts]
  <2>1. c \in Claimed(S) /\ c.event = e
    BY <1>6 DEF Claimed
  <2> HIDE DEF c
  <2>2. Right(w, e)' /\ Guarded(e)'
    BY <1>3, <1>5, <1>6, <2>1 DEF Right, Guarded, IsWorkedAt, Copies
  <2>3. RowsRight(e) = 1 /\ RowsRight(e)' = 0
    BY <1>3, <1>6, <2>2 DEF RowsRight, Guarded, Claimable, Unlocked
  <2>4. /\ IsFiniteSet(Holders(e)') /\ Cardinality(Holders(e)) \in Nat
        /\ Cardinality(Holders(e)') = Cardinality(Holders(e)) + 1
    BY <1>2, <1>5, <2>2, HoldersChange
  <2> QED BY <1>4, <2>3, <2>4 DEF PaidFor
<1>7. CASE e \notin S
  <2>1. ~\E c \in Claimed(S) : c.event = e
    BY <1>7 DEF Claimed
  <2>2. ~Right(w, e)'
    BY <1>5, <2>1 DEF Right
  <2>3. row'[e] = row[e]
    BY <1>3, <1>7
  <2>4. ~\E c \in Copies(w) : c.event = e
    BY <1>5
  <2>5. Guarded(e) => Guarded(e)'
    BY <1>2, <2>3, <2>4, GuardStays
  <2>6. RowsRight(e)' <= RowsRight(e)
    BY <2>3, <2>5, RowsRightFalls
  <2>7. /\ IsFiniteSet(Holders(e)') /\ Cardinality(Holders(e)) \in Nat
        /\ Cardinality(Holders(e)') = Cardinality(Holders(e))
    BY <1>2, <1>5, <2>2, HoldersChange
  <2> QED BY <1>4, <2>6, <2>7 DEF PaidFor
<1> QED BY <1>6, <1>7

LEMMA RowStepPays ==
  ASSUME SInv, RowStep, NEW e \in Events, IsFiniteSet(Holders(e))
  PROVE  PaidFor(e)
<1>1. PICK x \in Events : Enqueue(x) \/ Retry(x) \/ ExpireLease(x) \/ Overrun(x) \/ BackOff(x)
  BY DEF RowStep
<1>2. UNCHANGED <<worker, delivered>>
  BY <1>1 DEF Enqueue, Retry, ExpireLease, Overrun, RunOut, BackOff
<1>3. Holders(e)' = Holders(e) /\ Cardinality(Holders(e)) \in Nat
  BY <1>2, FS_CardinalityType DEF Holders, Right
<1>4. /\ delivered'[e] = delivered[e] /\ delivered[e] \in Nat /\ faults \in Nat
      /\ RowsRight(e) \in {0, 1} /\ RowsRight(e)' \in {0, 1}
  BY <1>2, RowsRightBound, NaturalCounts
<1>5. CASE Overrun(x)
  <2>1. faults' = faults + 1
    BY <1>5 DEF Overrun, Fault
  <2> QED BY <1>3, <1>4, <2>1 DEF PaidFor
<1>6. CASE Enqueue(x) \/ Retry(x) \/ ExpireLease(x) \/ BackOff(x)
  <2>1. faults' = faults
    BY <1>6 DEF Enqueue, Retry, ExpireLease, BackOff
  <2>2. /\ row \in [Events -> Row] /\ row[x] \in Row
        /\ row[x].dead => row[x].lease = "none"
    BY DEF SInv, Typed, RowsAgree
  <2>3. row'[e].published = row[e].published
    <3>1. CASE Enqueue(x)
      BY <2>2, <3>1 DEF Enqueue, Row
    <3>2. CASE Retry(x)
      <4>1. row'[x] = [row[x] EXCEPT !.attempts = 0, !.lockedBy = Nobody, !.lease = "none",
                                     !.due = TRUE, !.dead = FALSE]
            /\ \A y \in Events \ {x} : row'[y] = row[y]
        BY <2>2, <3>2 DEF Retry
      <4>2. row'[x].published = row[x].published
        BY <2>2, <4>1 DEF Row
      <4> QED BY <4>1, <4>2
    <3>3. CASE ExpireLease(x)
      BY <2>2, <3>3 DEF ExpireLease, RunOut, Row
    <3>4. CASE BackOff(x)
      BY <2>2, <3>4 DEF BackOff, Row
    <3> QED BY <1>6, <3>1, <3>2, <3>3, <3>4
  <2>4. Guarded(e) => row'[e].lease = row[e].lease /\ row'[e].lockedBy = row[e].lockedBy
    <3>1. CASE Enqueue(x)
      BY <2>2, <3>1 DEF Enqueue, Row
    <3>2. CASE Retry(x)
      BY <2>2, <3>2 DEF Retry, Guarded
    <3>3. CASE ExpireLease(x)
      BY <2>2, <3>3 DEF ExpireLease, RunOut, Guarded
    <3>4. CASE BackOff(x)
      BY <2>2, <3>4 DEF BackOff, Row
    <3> QED BY <1>6, <3>1, <3>2, <3>3, <3>4
  <2>5. Guarded(e) => Guarded(e)'
    BY <1>2, <2>4 DEF Guarded, IsWorkedAt, Copies
  <2>6. RowsRight(e)' <= RowsRight(e)
    BY <2>3, <2>5, RowsRightFalls
  <2> QED BY <1>3, <1>4, <2>1, <2>6 DEF PaidFor
<1> QED BY <1>1, <1>5, <1>6

LEMMA WorkerStepPays ==
  ASSUME SInv, Next, WorkerStep, NEW e \in Events, IsFiniteSet(Holders(e))
  PROVE  PaidFor(e)
<1>1. PICK w \in Workers : \/ Publish(w) \/ PublishFails(w) \/ PublishLost(w)
                           \/ Mark(w) \/ CountFailure(w) \/ StatementError(w) \/ Crash(w)
  BY DEF WorkerStep
<1>2. CASE Publish(w)
  BY <1>2, TakePays DEF Publish
<1>3. CASE PublishFails(w)
  BY <1>3, TakePays DEF PublishFails
<1>4. CASE PublishLost(w)
  BY <1>4, TakePays DEF PublishLost, Fault
<1> QED BY <1>1, <1>2, <1>3, <1>4, MarkPays, CountFailurePays, FailurePays

LEMMA BalancedInit ==
  ASSUME Init
  PROVE  Balanced
<1> SUFFICES ASSUME NEW e \in Events
             PROVE  /\ IsFiniteSet(Holders(e))
                    /\ delivered[e] + Cardinality(Holders(e)) + RowsRight(e) <= 1 + faults
  BY DEF Balanced
<1>1. Holders(e) = {}
  BY DEF Init, Holders, Right
<1> QED BY <1>1, FS_EmptySet, RowsRightBound DEF Init

LEMMA BalancedNext ==
  ASSUME SInv, Balanced, [Next]_vars
  PROVE  Balanced'
<1> SUFFICES ASSUME NEW e \in Events
             PROVE  /\ IsFiniteSet(Holders(e)')
                    /\ delivered'[e] + Cardinality(Holders(e)') + RowsRight(e)' <= 1 + faults'
  BY DEF Balanced
<1>1. /\ IsFiniteSet(Holders(e)) /\ Cardinality(Holders(e)) \in Nat
      /\ delivered[e] + Cardinality(Holders(e)) + RowsRight(e) <= 1 + faults
  BY FS_CardinalityType DEF Balanced
<1>2. CASE UNCHANGED vars
  <2>1. Holders(e)' = Holders(e) /\ RowsRight(e)' = RowsRight(e)
    BY <1>2 DEF vars, Holders, Right, RowsRight, Guarded, IsWorkedAt, Copies
  <2> QED BY <1>1, <1>2, <2>1 DEF vars
<1>3. CASE Next
  <2>1. PaidFor(e)
    BY <1>1, <1>3, ClaimPays, WorkerStepPays, RowStepPays DEF Next, Work, WorkerStep, RowStep
  <2>2. SInv'
    BY SInvNext
  <2>3. faults' \in Nat /\ delivered'[e] \in Nat
    BY <2>2, NumbersAssumption DEF SInv, Typed
  <2>4. Cardinality(Holders(e)') \in Nat
    BY <2>1, FS_CardinalityType DEF PaidFor
  <2> QED BY <1>1, <2>1, <2>3, <2>4, NaturalCounts, RowsRightBound DEF PaidFor
<1> QED BY <1>2, <1>3

LEMMA CountsBound ==
  ASSUME SInv, Balanced
  PROVE  TypeOK /\ DuplicatesAreFaults
<1>1. \A e \in Events : delivered[e] <= 1 + faults
  BY NaturalCounts, RowsRightBound, FS_CardinalityType DEF Balanced
<1>2. \A e \in Events : delivered[e] \in 0 .. MaxFaults + 1
  BY <1>1, NaturalCounts, NumbersAssumption DEF SInv, Typed
<1> QED BY <1>1, <1>2 DEF SInv, Typed, Worker, TypeOK, DuplicatesAreFaults

LEMMA OutboxInvariant == Spec => [](SInv /\ Balanced)
<1>1. Init => SInv /\ Balanced
  BY SInvInit, BalancedInit
<1>2. SInv /\ Balanced /\ [Next]_vars => SInv' /\ Balanced'
  BY SInvNext, BalancedNext
<1> QED BY <1>1, <1>2, PTL DEF Spec

(* The state of the outbox keeps its types, and its counters their bounds. *)
THEOREM TypeCorrect == Spec => []TypeOK
BY OutboxInvariant, CountsBound, PTL

(* Whatever the workers, the batches, the failures and the retries, an     *)
(* event is delivered once, and once more at most for every fault.         *)
THEOREM DuplicatesBounded == Spec => []DuplicatesAreFaults
BY OutboxInvariant, CountsBound, PTL

-----------------------------------------------------------------------------
(* The outbox and its promise.                                             *)

StatusOf(r) ==
  IF ~r.created THEN "absent"
  ELSE IF r.published THEN "published"
  ELSE IF r.dead THEN "dead" ELSE "pending"

(* What the promise sees of a row.                                         *)
Looks(e, r) == StatusOf(row[e]) = StatusOf(r) /\ row[e].attempts = r.attempts

LEMMA LooksSame ==
  ASSUME \A e \in Events : Looks(e, row'[e]), UNCHANGED delivered
  PROVE  UNCHANGED Promise!vars
BY DEF Promise!vars, Looks, StatusOf

LEMMA DeliverKeepsPromise ==
  ASSUME SInv, UNCHANGED row, NEW w \in Workers, NEW c \in worker[w].batch, Reach(c)
  PROVE  Promise!Next
<1>1. c.event \in Events /\ row[c.event].created
  BY DEF SInv, Typed, Worker, Copy, CopiesAgree, Copies
<1>2. delivered' = [delivered EXCEPT ![c.event] = @ + 1]
  BY DEF Reach
<1>3. Promise!Deliver(c.event)
  BY <1>1, <1>2 DEF Promise!Deliver
<1> QED BY <1>1, <1>3 DEF Promise!Next

LEMMA ConfirmKeepsPromise ==
  ASSUME SInv, NEW w \in Workers, Mark(w)
  PROVE  Promise!Next \/ UNCHANGED Promise!vars
<1>1. PICK c \in Copy : worker[w].current = {c}
  BY DEF SInv, BatchesAreSets, Mark
<1> DEFINE e == c.event
           N == [row[e] EXCEPT !.published = TRUE, !.lockedBy = Nobody, !.lease = "none", !.due = TRUE]
<1>2. e \in Events /\ row \in [Events -> Row] /\ row[e] \in Row /\ UNCHANGED delivered
  BY DEF SInv, Typed, Copy, Mark
<1>3. CASE ~IsMine(e, w)
  <2>1. UNCHANGED row
    BY <1>1, <1>3 DEF Mark
  <2> QED BY <1>2, <2>1, LooksSame DEF Looks
<1>4. CASE IsMine(e, w)
  <2>1. row' = [row EXCEPT ![e] = N]
    BY <1>1, <1>2, <1>4 DEF Mark
  <2>2. /\ row[e].created /\ ~row[e].published /\ ~row[e].dead /\ delivered[e] > 0
    BY <1>1, <1>2, <1>4, NobodyAssumption DEF IsMine, SInv, RowsAgree, CopiesAgree, Copies, Mark
  <2>3. N.created = row[e].created /\ N.published /\ N.attempts = row[e].attempts
    BY <1>2 DEF Row
  <2> HIDE DEF N
  <2>4. row'[e] = N /\ \A x \in Events \ {e} : row'[x] = row[x]
    BY <1>2, <2>1
  <2>5. Promise!Confirm(e)
    BY <1>2, <2>2, <2>3, <2>4 DEF Promise!Confirm
  <2> QED BY <1>2, <2>5 DEF Promise!Next
<1> QED BY <1>3, <1>4

LEMMA FailKeepsPromise ==
  ASSUME SInv, NEW w \in Workers, CountFailure(w)
  PROVE  Promise!Next \/ UNCHANGED Promise!vars
<1>1. PICK c \in Copy : worker[w].current = {c}
  BY DEF SInv, BatchesAreSets, CountFailure
<1> DEFINE e == c.event
           a == Increased(c.attempts)
           o == Exhausted(a)
           N == [row[e] EXCEPT !.attempts = a, !.lockedBy = Nobody, !.lease = "none",
                               !.due = o, !.dead = o]
<1>2. e \in Events /\ row \in [Events -> Row] /\ row[e] \in Row /\ UNCHANGED delivered
  BY DEF SInv, Typed, Copy, CountFailure
<1>3. CASE ~IsMine(e, w)
  <2>1. UNCHANGED row
    BY <1>1, <1>3 DEF CountFailure
  <2> QED BY <1>2, <2>1, LooksSame DEF Looks
<1>4. CASE IsMine(e, w)
  <2>1. row' = [row EXCEPT ![e] = N]
    BY <1>1, <1>2, <1>4 DEF CountFailure
  <2>2. /\ row[e].created /\ ~row[e].published /\ ~row[e].dead /\ row[e].attempts = c.attempts
    BY <1>1, <1>2, <1>4, NobodyAssumption DEF IsMine, SInv, RowsAgree, CopiesAgree, Copies
  <2>3. /\ N.created = row[e].created /\ N.published = row[e].published
        /\ N.attempts = a /\ N.dead = o
    <3> HIDE DEF a, o
    <3> QED BY <1>2 DEF Row
  <2>4. a = row[e].attempts + 1 /\ (o <=> a >= MaxAttempts)
    BY <2>2 DEF Increased, Exhausted
  <2> HIDE DEF N, a, o
  <2>5. row'[e] = N /\ \A x \in Events \ {e} : row'[x] = row[x]
    BY <1>2, <2>1
  <2>6. Promise!Fail(e)
    BY <1>2, <2>2, <2>3, <2>4, <2>5 DEF Promise!Fail
  <2> QED BY <1>2, <2>6 DEF Promise!Next
<1> QED BY <1>3, <1>4

LEMMA RowStepKeepsPromise ==
  ASSUME SInv, RowStep
  PROVE  Promise!Next \/ UNCHANGED Promise!vars
<1>1. PICK e \in Events : Enqueue(e) \/ Retry(e) \/ RunOut(e) \/ BackOff(e)
  BY DEF RowStep, ExpireLease, Overrun
<1> DEFINE R == row[e]
<1>2. row \in [Events -> Row] /\ R \in Row
  BY DEF SInv, Typed
<1>3. UNCHANGED delivered
  BY <1>1 DEF Enqueue, Retry, RunOut, BackOff
<1>4. CASE Enqueue(e)
  <2>1. /\ row'[e] = [R EXCEPT !.created = TRUE] /\ ~R.created
        /\ \A x \in Events \ {e} : row'[x] = row[x]
    BY <1>2, <1>4 DEF Enqueue
  <2>2. /\ row'[e].created /\ row'[e].published = R.published
        /\ row'[e].dead = R.dead /\ row'[e].attempts = R.attempts
    <3> HIDE DEF R
    <3> QED BY <1>2, <2>1 DEF Row
  <2>3. ~R.published /\ ~R.dead
    BY <2>1 DEF SInv, RowsAgree
  <2>4. Promise!Enqueue(e)
    BY <1>3, <2>1, <2>2, <2>3 DEF Promise!Enqueue
  <2> QED BY <2>4 DEF Promise!Next
<1>5. CASE Retry(e)
  <2>1. /\ row'[e] = [R EXCEPT !.attempts = 0, !.lockedBy = Nobody, !.lease = "none",
                               !.due = TRUE, !.dead = FALSE]
        /\ R.dead /\ ~R.published /\ R.created
        /\ \A x \in Events \ {e} : row'[x] = row[x]
    BY <1>2, <1>5 DEF Retry, SInv, RowsAgree
  <2>2. /\ row'[e].created = R.created /\ row'[e].published = R.published
        /\ ~row'[e].dead /\ row'[e].attempts = 0
    <3> HIDE DEF R
    <3>1. row'[e].created = R.created
      BY <1>2, <2>1 DEF Row
    <3>2. row'[e].published = R.published
      BY <1>2, <2>1 DEF Row
    <3>3. ~row'[e].dead /\ row'[e].attempts = 0
      BY <1>2, <2>1 DEF Row
    <3> QED BY <3>1, <3>2, <3>3
  <2>3. Promise!Revive(e)
    BY <1>3, <2>1, <2>2 DEF Promise!Revive
  <2> QED BY <2>3 DEF Promise!Next
<1>6. CASE RunOut(e) \/ BackOff(e)
  <2>1. \A x \in Events : /\ row'[x].created = row[x].created /\ row'[x].published = row[x].published
                          /\ row'[x].dead = row[x].dead /\ row'[x].attempts = row[x].attempts
    <3>1. CASE RunOut(e)
      BY <1>2, <3>1 DEF RunOut, Row
    <3>2. CASE BackOff(e)
      BY <1>2, <3>2 DEF BackOff, Row
    <3> QED BY <1>6, <3>1, <3>2
  <2> QED BY <1>3, <2>1, LooksSame DEF Looks, StatusOf
<1> QED BY <1>1, <1>4, <1>5, <1>6

LEMMA StepKeepsPromise ==
  ASSUME SInv, [Next]_vars
  PROVE  Promise!Next \/ UNCHANGED Promise!vars
<1>1. CASE UNCHANGED vars
  BY <1>1, LooksSame DEF vars, Looks
<1>2. ASSUME NEW w \in Workers, Claim(w)
      PROVE  UNCHANGED Promise!vars
  <2>1. PICK S \in SUBSET Events : Batch(S) /\ Lock(S, w)
    BY <1>2 DEF Claim
  <2>2. /\ \A e \in Events \ S : row'[e] = row[e]
        /\ \A e \in S : /\ row'[e].attempts = row[e].attempts /\ row'[e].published = row[e].published
                        /\ row'[e].created /\ row'[e].dead = row[e].dead /\ row[e].created
    BY <2>1, LockLocks DEF Batch, Claimable
  <2>3. \A e \in Events : Looks(e, row'[e])
    BY <2>2 DEF Looks, StatusOf
  <2> QED BY <1>2, <2>3, LooksSame DEF Claim
<1>3. ASSUME NEW w \in Workers, Publish(w) \/ PublishLost(w)
      PROVE  Promise!Next
  BY <1>3, DeliverKeepsPromise DEF Publish, PublishLost
<1>4. ASSUME NEW w \in Workers, PublishFails(w) \/ StatementError(w) \/ Crash(w)
      PROVE  UNCHANGED Promise!vars
  BY <1>4, LooksSame DEF PublishFails, StatementError, Crash, Looks
<1> QED BY <1>1, <1>2, <1>3, <1>4, ConfirmKeepsPromise, FailKeepsPromise, RowStepKeepsPromise
        DEF Next, Work, RowStep

(* The safety part of Delivers: an event counts as published only after it *)
(* was delivered, and stays so; it is dead only after MaxAttempts failures *)
(* in a row, and comes back only by a retry.                               *)
THEOREM PromiseKept == Spec => Promise!Init /\ [][Promise!Next]_(Promise!vars)
<1>1. Init => Promise!Init
  <2> SUFFICES ASSUME Init PROVE Promise!Init
    OBVIOUS
  <2>1. /\ \A e \in Events : ~row[e].created /\ row[e].attempts = 0
        /\ delivered = [e \in Events |-> 0]
    BY DEF Init, NoRow
  <2> QED BY <2>1 DEF Promise!Init
<1>2. SInv /\ [Next]_vars => [Promise!Next]_(Promise!vars)
  BY StepKeepsPromise
<1>3. Spec => []SInv
  BY OutboxInvariant, PTL
<1> QED BY <1>1, <1>2, <1>3, PTL DEF Spec

=============================================================================
