-------------------------- MODULE CommandIdempotency --------------------------
(***************************************************************************)
(* IdempotencyService and the operations it guards: requests with one key. *)
(*                                                                         *)
(* A request claims the key's row of processed_commands, runs its business *)
(* transaction and records the outcome.  Rows of different keys share      *)
(* nothing, so there is one.                                               *)
(***************************************************************************)
EXTENDS Naturals, FiniteSets

CONSTANTS
  Requests,   \* HTTP requests that carry the key
  Payloads,
  NoPayload,
  MaxFaults   \* bound: crashes, failing statements, requests that outlive the lease

ASSUME RequestsAssumption == IsFiniteSet(Requests)
ASSUME PayloadsAssumption == NoPayload \notin Payloads
ASSUME FaultsAssumption   == MaxFaults \in Nat

VARIABLES
  within,   \* whether the operation completes the command in its business transaction
  command,  \* the row
  overdue,  \* versions of the row up to this one are more than five minutes old
  request,  \* the requests, with what they have read and their answers
  done,     \* the requests whose business transaction has committed
  faults

vars == <<within, command, overdue, request, done, faults>>

-----------------------------------------------------------------------------
(* `updatedAt' numbers the versions of the row.                             *)

Command == [status: {"NONE", "PROCESSING", "COMPLETED", "FAILED"},
            requestHash: Payloads \cup {NoPayload}, updatedAt: Nat]

Control == {"idle", "find", "insert", "refind", "resolve", "execute", "complete", "fail", "over"}
Answer  == {"none", "done", "replay", "mismatch", "busy", "error"}

Request == [pc: Control, payload: Payloads \cup {NoPayload}, existing: Command, claimed: Nat,
            answer: Answer]

TypeOK ==
  /\ within \in BOOLEAN
  /\ command \in Command
  /\ overdue \in Nat
  /\ request \in [Requests -> Request]
  /\ done \subseteq Requests
  /\ faults \in 0 .. MaxFaults

NoCommand == [status |-> "NONE", requestHash |-> NoPayload, updatedAt |-> 0]

Init ==
  /\ within \in BOOLEAN
  /\ command = NoCommand
  /\ overdue = 0
  /\ request = [r \in Requests |-> [pc |-> "idle", payload |-> NoPayload, existing |-> NoCommand,
                                    claimed |-> 0, answer |-> "none"]]
  /\ done = {}
  /\ faults = 0

Goto(r, l) == request' = [request EXCEPT ![r].pc = l]

Reply(r, a) == request' = [request EXCEPT ![r].pc = "over", ![r].answer = a]

Fault == faults < MaxFaults /\ faults' = faults + 1

-----------------------------------------------------------------------------
(* checkOrStartCommand                                                      *)

Send(r) ==
  /\ request[r].pc = "idle"
  /\ \E p \in Payloads : request' = [request EXCEPT ![r].pc = "find", ![r].payload = p]
  /\ UNCHANGED <<within, command, overdue, done, faults>>

ReadRow(r) == request' = [request EXCEPT ![r].pc = "resolve", ![r].existing = command]

Find(r) ==
  /\ request[r].pc = "find"
  /\ IF command.status = "NONE" THEN Goto(r, "insert") ELSE ReadRow(r)
  /\ UNCHANGED <<within, command, overdue, done, faults>>

(* The row is the request's to execute.                                     *)
Claim(r) ==
  /\ command' = [status |-> "PROCESSING", requestHash |-> request[r].payload,
                 updatedAt |-> command.updatedAt + 1]
  /\ request' = [request EXCEPT ![r].pc = "execute", ![r].claimed = command.updatedAt + 1]

(* createMany with skipDuplicates.  The row is read again in either case; a *)
(* request that inserted it and fails there is one that crashes as owner.   *)
Insert(r) ==
  /\ request[r].pc = "insert"
  /\ IF command.status = "NONE" THEN Claim(r) ELSE Goto(r, "refind") /\ UNCHANGED command
  /\ UNCHANGED <<within, overdue, done, faults>>

Refind(r) ==
  /\ request[r].pc = "refind"
  /\ ReadRow(r)
  /\ UNCHANGED <<within, command, overdue, done, faults>>

-----------------------------------------------------------------------------
(* resolveExistingCommand, up to and including its guarded update.          *)

LeaseExpired(c) == c.status = "PROCESSING" /\ c.updatedAt <= overdue

AnyHash(r)  == TRUE  \* mutant: the payload is not compared
SameHash(r) == request[r].existing.requestHash = request[r].payload

SameStatus(r) == command.status = request[r].existing.status  \* mutant: an older version will do
Unchanged(r)  ==
  /\ command.status = request[r].existing.status
  /\ command.updatedAt = request[r].existing.updatedAt

HasResult(c)   == c.status \in {"COMPLETED", "FAILED"}  \* mutant: the status is not looked at
IsCompleted(c) == c.status = "COMPLETED"

Resolve(r) ==
  LET existing == request[r].existing
  IN /\ request[r].pc = "resolve"
     /\ \/ ~SameHash(r) /\ Reply(r, "mismatch") /\ UNCHANGED command
        \/ SameHash(r) /\ IsCompleted(existing) /\ Reply(r, "replay") /\ UNCHANGED command
        \/ /\ SameHash(r) /\ ~IsCompleted(existing)
           /\ IF (existing.status = "FAILED" \/ LeaseExpired(existing)) /\ Unchanged(r)
              THEN Claim(r)
              ELSE Reply(r, "busy") /\ UNCHANGED command
     /\ UNCHANGED <<within, overdue, done, faults>>

-----------------------------------------------------------------------------
(* The caller, and completeCommand and failCommand.                         *)

Record(status) == command' = [command EXCEPT !.status = status, !.updatedAt = @ + 1]

(* The business transaction commits.                                        *)
Execute(r) ==
  /\ request[r].pc = "execute"
  /\ done' = done \cup {r}
  /\ IF within THEN Record("COMPLETED") /\ Reply(r, "done")
               ELSE Goto(r, "complete") /\ UNCHANGED command
  /\ UNCHANGED <<within, overdue, faults>>

(* It throws.                                                               *)
Refuse(r) ==
  /\ request[r].pc = "execute"
  /\ Goto(r, "fail")
  /\ UNCHANGED <<within, command, overdue, done, faults>>

CompleteAsDone(r) ==  \* mutant: a status that no reader of the row knows
  /\ request[r].pc = "complete"
  /\ Record("DONE")
  /\ Reply(r, "done")
  /\ UNCHANGED <<within, overdue, done, faults>>

CompleteCommand(r) ==
  /\ request[r].pc = "complete"
  /\ Record("COMPLETED")
  /\ Reply(r, "done")
  /\ UNCHANGED <<within, overdue, done, faults>>

FailCommand(r) ==
  /\ request[r].pc = "fail"
  /\ Record("FAILED")
  /\ Reply(r, "error")
  /\ UNCHANGED <<within, overdue, done, faults>>

-----------------------------------------------------------------------------
(* Faults, and time.                                                        *)

(* A statement fails.  What the try block catches ends in failCommand.      *)
StatementError(r) ==
  /\ Fault
  /\ \/ request[r].pc \in {"find", "insert", "refind", "resolve", "fail"} /\ Reply(r, "error")
     \/ request[r].pc = "complete" /\ Goto(r, "fail")
  /\ UNCHANGED <<within, command, overdue, done>>

(* The business transaction commits, but its caller sees an error.          *)
LoseAnswer(r) ==
  /\ Fault
  /\ request[r].pc = "execute"
  /\ done' = done \cup {r}
  /\ IF within THEN Record("COMPLETED") ELSE UNCHANGED command
  /\ Goto(r, "fail")
  /\ UNCHANGED <<within, overdue>>

Crash(r) ==
  /\ Fault
  /\ request[r].pc \notin {"idle", "over"}
  /\ Goto(r, "over")
  /\ UNCHANGED <<within, command, overdue, done>>

(* The request that the row is being processed by.                          *)
Holds(r) ==
  request[r].pc \in {"execute", "complete", "fail"} /\ request[r].claimed = command.updatedAt

(* Five minutes pass without a change of the row.  A request that is at it  *)
(* for so long is a fault; one that is gone is not, a second time.          *)
Expire ==
  /\ command.status = "PROCESSING" /\ ~LeaseExpired(command)
  /\ overdue' = command.updatedAt
  /\ IF \E r \in Requests : Holds(r) THEN Fault ELSE UNCHANGED faults
  /\ UNCHANGED <<within, command, request, done>>

-----------------------------------------------------------------------------
Step(r) ==
  \/ Send(r) \/ Find(r) \/ Insert(r) \/ Refind(r) \/ Resolve(r)
  \/ Execute(r) \/ Refuse(r) \/ CompleteCommand(r) \/ FailCommand(r)
  \/ StatementError(r) \/ LoseAnswer(r) \/ Crash(r)

Next == Expire \/ \E r \in Requests : Step(r)

Spec == Init /\ [][Next]_vars

-----------------------------------------------------------------------------
(* Safety.                                                                  *)

(* A command takes effect once, and once more at most for each fault, in    *)
(* whatever order its requests find, claim, fail and claim again.           *)
OncePerFault == Cardinality(done) <= 1 + faults

(* Why: rights to take effect are passed on and never copied.  A request    *)
(* that executes has one, one on its way to failCommand will give one back  *)
(* to the row, and the row has one when its next reader may claim it.       *)
At(l) == {r \in Requests : request[r].pc = l}

RowFree ==
  \/ command.status \in {"NONE", "FAILED"}
  \/ command.status = "PROCESSING" /\ (LeaseExpired(command) \/ ~\E r \in Requests : Holds(r))

One(b) == IF b THEN 1 ELSE 0

Rights == Cardinality(done) + Cardinality(At("execute")) + Cardinality(At("fail")) + One(RowFree)

RightsAreConserved ==
  /\ Rights <= 1 + faults
  /\ overdue <= command.updatedAt
  /\ \A r \in Requests : request[r].claimed <= command.updatedAt

(* All that took effect under a key was asked for with the same payload,    *)
(* and so was what a request is told that it has done before.               *)
OnePayload ==
  \A r, d \in Requests :
    d \in done /\ (r \in done \/ request[r].answer = "replay") =>
      request[r].payload = request[d].payload

(* A request hears of a result only if there was one.                       *)
AnswersAreTrue ==
  \A r \in Requests : /\ request[r].answer = "done" => r \in done
                      /\ request[r].answer = "replay" => done # {}

-----------------------------------------------------------------------------
(* The comment of checkOrStartCommand: two requests with one key cannot     *)
(* both be granted its execution.  A grant that ran out does not count.     *)
Granted(r) == request[r].pc = "execute" /\ request[r].claimed > overdue

OneExecutor == \A r, q \in Requests : Granted(r) /\ Granted(q) => r = q
===============================================================================
