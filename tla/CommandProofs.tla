----------------------------- MODULE CommandProofs -----------------------------
(***************************************************************************)
(* Proofs about commands whose answers are lost or come late: what a retry *)
(* finds at the backend (CommandIdempotency), and what an answer finds on  *)
(* the page of automatic dispatch (AutomaticDispatch).                     *)
(*                                                                         *)
(* IdempotencyService, for any number of requests, payloads and faults.    *)
(* OncePerFault counts effects.  The invariant counts the rights to have   *)
(* one: a request that executes has one, a request on its way to           *)
(* failCommand will give one back to the row, and the row has one when the *)
(* next request to come may claim it.  Only a fault makes a new right.     *)
(*                                                                         *)
(* The page, for any branches, jobs and bounds.  What keeps jobs of another *)
(* branch off it is which calls are still listened to: Awaited says it of  *)
(* each call and the page, and Render keeps it because an effect is        *)
(* cleaned up as soon as the page goes on to something else.               *)
(***************************************************************************)
EXTENDS CommandIdempotency, AutomaticDispatch, FiniteSetTheorems, TLAPS

-----------------------------------------------------------------------------
(* Types.                                                                   *)

(* A request that moves to another label, alone or with one of its fields,  *)
(* stays a request.                                                         *)
LEMMA GotoType ==
  ASSUME TypeOK, NEW r \in Requests, NEW l \in Control, Goto(r, l)
  PROVE  request' \in [Requests -> Request]
<1> DEFINE R == request[r]
           N == [R EXCEPT !.pc = l]
<1>1. R \in Request /\ request \in [Requests -> Request]
  BY DEF TypeOK
<1>2. N \in Request
  <2> HIDE DEF R
  <2> QED BY <1>1 DEF Request
<1>3. request' = [request EXCEPT ![r] = N]
  BY <1>1 DEF Goto
<1> QED BY <1>1, <1>2, <1>3

LEMMA ReplyType ==
  ASSUME TypeOK, NEW r \in Requests, NEW a \in Answer, Reply(r, a)
  PROVE  request' \in [Requests -> Request]
<1> DEFINE R == request[r]
           N == [R EXCEPT !.pc = "over", !.answer = a]
<1>1. R \in Request /\ request \in [Requests -> Request]
  BY DEF TypeOK
<1>2. N \in Request
  <2> HIDE DEF R
  <2> QED BY <1>1 DEF Request, Control
<1>3. request' = [request EXCEPT ![r] = N]
  BY <1>1 DEF Reply
<1> QED BY <1>1, <1>2, <1>3

LEMMA ReadRowType ==
  ASSUME TypeOK, NEW r \in Requests, ReadRow(r)
  PROVE  request' \in [Requests -> Request]
<1> DEFINE R == request[r]
           N == [R EXCEPT !.pc = "resolve", !.existing = command]
<1>1. R \in Request /\ request \in [Requests -> Request] /\ command \in Command
  BY DEF TypeOK
<1>2. N \in Request
  <2> HIDE DEF R
  <2> QED BY <1>1 DEF Request, Control
<1>3. request' = [request EXCEPT ![r] = N]
  BY <1>1 DEF ReadRow
<1> QED BY <1>1, <1>2, <1>3

LEMMA SendType ==
  ASSUME TypeOK, NEW r \in Requests, Send(r)
  PROVE  request' \in [Requests -> Request]
<1>0. PICK p \in Payloads : request' = [request EXCEPT ![r].pc = "find", ![r].payload = p]
  BY DEF Send
<1> DEFINE R == request[r]
           N == [R EXCEPT !.pc = "find", !.payload = p]
<1>1. R \in Request /\ request \in [Requests -> Request]
  BY DEF TypeOK
<1>2. N \in Request
  <2> HIDE DEF R
  <2> QED BY <1>1 DEF Request, Control
<1>3. request' = [request EXCEPT ![r] = N]
  BY <1>0, <1>1
<1> QED BY <1>1, <1>2, <1>3

(* Claiming keeps the types of the row and of the requests.                 *)
LEMMA ClaimType ==
  ASSUME TypeOK, NEW r \in Requests, Claim(r)
  PROVE  command' \in Command /\ request' \in [Requests -> Request]
<1> DEFINE R == request[r]
           n == command.updatedAt + 1
           N == [R EXCEPT !.pc = "execute", !.claimed = n]
<1>1. R \in Request /\ request \in [Requests -> Request] /\ command.updatedAt \in Nat
  BY DEF TypeOK, Command
<1>2. n \in Nat /\ R.payload \in Payloads \cup {NoPayload}
  <2> HIDE DEF R
  <2> QED BY <1>1 DEF Request
<1>3. N \in Request
  <2> HIDE DEF R, n
  <2> QED BY <1>1, <1>2 DEF Request, Control
<1>4. request' = [request EXCEPT ![r] = N]
  BY <1>1 DEF Claim
<1>5. command' = [status |-> "PROCESSING", requestHash |-> R.payload, updatedAt |-> n]
  BY DEF Claim
<1>6. command' \in Command
  <2> HIDE DEF R, n
  <2> QED BY <1>2, <1>5 DEF Command
<1> QED BY <1>1, <1>3, <1>4, <1>6

(* Recording an outcome keeps the type of the row.                          *)
LEMMA RecordType ==
  ASSUME TypeOK, NEW st \in {"COMPLETED", "FAILED"}, Record(st)
  PROVE  /\ command' \in Command
         /\ command'.status = st
         /\ command'.updatedAt = command.updatedAt + 1
<1> DEFINE n == command.updatedAt + 1
<1>1. command \in Command /\ n \in Nat
  BY DEF TypeOK, Command
<1>2. command' = [command EXCEPT !.status = st, !.updatedAt = n]
  BY DEF Record
<1>3. command' \in Command /\ command'.status = st /\ command'.updatedAt = n
  <2> HIDE DEF n
  <2> QED BY <1>1, <1>2 DEF Command
<1> QED BY <1>3

-----------------------------------------------------------------------------
LEMMA InitType == Init => TypeOK
BY FaultsAssumption
   DEF Init, TypeOK, NoCommand, Command, Request, Control, Answer

LEMMA FaultType == TypeOK /\ Fault => faults' \in 0 .. MaxFaults /\ faults' = faults + 1
BY FaultsAssumption DEF TypeOK, Fault

(* Every step keeps the types.                                              *)
LEMMA NextType == TypeOK /\ [Next]_vars => TypeOK'
<1> SUFFICES ASSUME TypeOK, [Next]_vars PROVE TypeOK'
  OBVIOUS
<1> USE DEF Control, Answer
<1>1. ASSUME NEW r \in Requests, Step(r) PROVE TypeOK'
  <2>1. CASE Send(r)
    BY <2>1, SendType DEF Send, TypeOK
  <2>2. CASE Find(r)
    <3>1. request' \in [Requests -> Request]
      <4>1. Goto(r, "insert") \/ ReadRow(r)
        BY <2>2 DEF Find
      <4> QED BY <4>1, GotoType, ReadRowType
    <3> QED BY <2>2, <3>1 DEF Find, TypeOK
  <2>3. CASE Insert(r)
    <3>1. Claim(r) \/ (Goto(r, "refind") /\ UNCHANGED command)
      BY <2>3 DEF Insert
    <3>2. command' \in Command /\ request' \in [Requests -> Request]
      BY <3>1, ClaimType, GotoType DEF TypeOK
    <3> QED BY <2>3, <3>2 DEF Insert, TypeOK
  <2>4. CASE Refind(r)
    BY <2>4, ReadRowType DEF Refind, TypeOK
  <2>5. CASE Resolve(r)
    <3>1. Claim(r) \/ (UNCHANGED command /\ \E a \in {"mismatch", "replay", "busy"} : Reply(r, a))
      BY <2>5 DEF Resolve
    <3>2. command' \in Command /\ request' \in [Requests -> Request]
      BY <3>1, ClaimType, ReplyType DEF TypeOK
    <3> QED BY <2>5, <3>2 DEF Resolve, TypeOK
  <2>6. CASE Execute(r)
    <3>1. \/ Record("COMPLETED") /\ Reply(r, "done")
          \/ Goto(r, "complete") /\ UNCHANGED command
      BY <2>6 DEF Execute
    <3>2. command' \in Command /\ request' \in [Requests -> Request]
      BY <3>1, RecordType, ReplyType, GotoType DEF TypeOK
    <3> QED BY <2>6, <3>2 DEF Execute, TypeOK
  <2>7. CASE Refuse(r)
    BY <2>7, GotoType DEF Refuse, TypeOK
  <2>8. CASE CompleteCommand(r)
    <3>1. command' \in Command /\ request' \in [Requests -> Request]
      BY <2>8, RecordType, ReplyType DEF CompleteCommand
    <3> QED BY <2>8, <3>1 DEF CompleteCommand, TypeOK
  <2>9. CASE FailCommand(r)
    <3>1. command' \in Command /\ request' \in [Requests -> Request]
      BY <2>9, RecordType, ReplyType DEF FailCommand
    <3> QED BY <2>9, <3>1 DEF FailCommand, TypeOK
  <2>10. CASE StatementError(r)
    <3>1. Reply(r, "error") \/ Goto(r, "fail")
      BY <2>10 DEF StatementError
    <3>2. request' \in [Requests -> Request]
      BY <3>1, ReplyType, GotoType
    <3> QED BY <2>10, <3>2, FaultType DEF StatementError, TypeOK
  <2>11. CASE LoseAnswer(r)
    <3>1. Record("COMPLETED") \/ UNCHANGED command
      BY <2>11 DEF LoseAnswer
    <3>2. command' \in Command /\ request' \in [Requests -> Request]
      BY <2>11, <3>1, RecordType, GotoType DEF LoseAnswer, TypeOK
    <3> QED BY <2>11, <3>2, FaultType DEF LoseAnswer, TypeOK
  <2>12. CASE Crash(r)
    BY <2>12, GotoType, FaultType DEF Crash, TypeOK
  <2> QED
    BY <1>1, <2>1, <2>2, <2>3, <2>4, <2>5, <2>6, <2>7, <2>8, <2>9, <2>10, <2>11, <2>12 DEF Step
<1>2. CASE Expire
  <2>1. command.updatedAt \in Nat
    BY DEF TypeOK, Command
  <2>2. faults' \in 0 .. MaxFaults
    BY <1>2, FaultType DEF Expire, TypeOK
  <2> QED BY <1>2, <2>1, <2>2 DEF Expire, TypeOK
<1>3. CASE UNCHANGED vars
  BY <1>3 DEF vars, TypeOK
<1> QED BY <1>1, <1>2, <1>3 DEF Next

(* The row and the requests are what the schema and the code say.           *)
THEOREM TypeCorrect == Spec => []TypeOK
BY InitType, NextType, PTL DEF Spec

-----------------------------------------------------------------------------
(* A step moves one request.                                                *)

Moves(r, l) ==
  /\ \A q \in Requests \ {r} : request'[q] = request[q]
  /\ request'[r].pc = l

Keeps(r) == request'[r].claimed = request[r].claimed

LEMMA GotoMoves ==
  ASSUME TypeOK, NEW r \in Requests, NEW l, Goto(r, l)
  PROVE  Moves(r, l) /\ Keeps(r)
BY DEF TypeOK, Request, Goto, Moves, Keeps

LEMMA ReplyMoves ==
  ASSUME TypeOK, NEW r \in Requests, NEW a, Reply(r, a)
  PROVE  Moves(r, "over") /\ Keeps(r)
BY DEF TypeOK, Request, Reply, Moves, Keeps

LEMMA ReadRowMoves ==
  ASSUME TypeOK, NEW r \in Requests, ReadRow(r)
  PROVE  Moves(r, "resolve") /\ Keeps(r)
BY DEF TypeOK, Request, ReadRow, Moves, Keeps

LEMMA SendMoves ==
  ASSUME TypeOK, NEW r \in Requests, Send(r)
  PROVE  Moves(r, "find") /\ Keeps(r)
BY DEF TypeOK, Request, Send, Moves, Keeps

LEMMA ClaimMoves ==
  ASSUME TypeOK, NEW r \in Requests, Claim(r)
  PROVE  /\ Moves(r, "execute")
         /\ request'[r].claimed = command.updatedAt + 1
         /\ command'.status = "PROCESSING"
         /\ command'.updatedAt = command.updatedAt + 1
<1> DEFINE n == command.updatedAt + 1
<1>1. /\ request' = [request EXCEPT ![r].pc = "execute", ![r].claimed = n]
      /\ command' = [status |-> "PROCESSING", requestHash |-> request[r].payload, updatedAt |-> n]
  BY DEF Claim
<1>2. Moves(r, "execute") /\ request'[r].claimed = n
  <2> HIDE DEF n
  <2> QED BY <1>1 DEF TypeOK, Request, Moves
<1>3. command'.status = "PROCESSING" /\ command'.updatedAt = n
  <2> HIDE DEF n
  <2> QED BY <1>1
<1> QED BY <1>2, <1>3

(* How many are at a label.                                                 *)
LEMMA AtFinite ==
  ASSUME NEW l
  PROVE  IsFiniteSet(At(l)) /\ Cardinality(At(l)) \in Nat
<1>1. At(l) \subseteq Requests
  BY DEF At
<1> QED BY <1>1, RequestsAssumption, FS_Subset, FS_CardinalityType

LEMMA AtCount ==
  ASSUME TypeOK, NEW r \in Requests, NEW l, NEW k, Moves(r, l)
  PROVE  /\ Cardinality(At(k)') \in Nat
         /\ Cardinality(At(k)') = Cardinality(At(k)) + One(l = k) - One(request[r].pc = k)
<1>1. IsFiniteSet(At(k)) /\ Cardinality(At(k)) \in Nat
  BY AtFinite
<1>2. r \in At(k) <=> request[r].pc = k
  BY DEF At
<1>3. CASE l = k
  <2>1. At(k)' = At(k) \cup {r}
    BY <1>3 DEF At, Moves
  <2>2. CASE request[r].pc = k
    <3>1. At(k)' = At(k)
      BY <1>2, <2>1, <2>2
    <3> QED BY <1>1, <1>3, <2>2, <3>1 DEF One
  <2>3. CASE request[r].pc # k
    <3>1. Cardinality(At(k)') = Cardinality(At(k)) + 1
      BY <1>1, <1>2, <2>1, <2>3, FS_AddElement
    <3> QED BY <1>1, <1>3, <2>3, <3>1 DEF One
  <2> QED BY <2>2, <2>3
<1>4. CASE l # k
  <2>1. At(k)' = At(k) \ {r}
    BY <1>4 DEF At, Moves
  <2>2. CASE request[r].pc = k
    <3>1. /\ Cardinality(At(k)') = Cardinality(At(k)) - 1
          /\ Cardinality(At(k)') \in Nat
      BY <1>1, <1>2, <2>1, <2>2, FS_RemoveElement, FS_CardinalityType
    <3> QED BY <1>1, <1>4, <2>2, <3>1 DEF One
  <2>3. CASE request[r].pc # k
    <3>1. At(k)' = At(k)
      BY <1>2, <2>1, <2>3
    <3> QED BY <1>1, <1>4, <2>3, <3>1 DEF One
  <2> QED BY <2>2, <2>3
<1> QED BY <1>3, <1>4

(* How many have taken effect.                                              *)
LEMMA DoneCount ==
  ASSUME TypeOK, NEW r \in Requests, done' = done \cup {r}
  PROVE  /\ Cardinality(done) \in Nat
         /\ Cardinality(done') \in Nat
         /\ Cardinality(done') <= Cardinality(done) + 1
<1>1. IsFiniteSet(done)
  BY RequestsAssumption, FS_Subset DEF TypeOK
<1>2. Cardinality(done) \in Nat
  BY <1>1, FS_CardinalityType
<1>3. CASE r \in done
  <2>1. done' = done
    BY <1>3
  <2>2. Cardinality(done') = Cardinality(done)
    BY <2>1
  <2> QED BY <1>2, <2>2
<1>4. CASE r \notin done
  BY <1>1, <1>2, <1>4, FS_AddElement
<1> QED BY <1>3, <1>4

LEMMA DoneNat == TypeOK => Cardinality(done) \in Nat
BY RequestsAssumption, FS_Subset, FS_CardinalityType DEF TypeOK

-----------------------------------------------------------------------------
(* Whether the row is free.                                                 *)

Owning == {"execute", "complete", "fail"}

(* A request that goes on owning the row, or does not own it, frees nothing.*)
LEMMA RowKept ==
  ASSUME NEW r \in Requests, NEW l, Moves(r, l), Keeps(r), UNCHANGED <<command, overdue>>,
         request[r].pc \in Owning => l \in Owning
  PROVE  RowFree' => RowFree
<1>1. ASSUME NEW q \in Requests, Holds(q) PROVE Holds(q)'
  <2>1. CASE q = r
    BY <1>1, <2>1 DEF Holds, Moves, Keeps, Owning
  <2>2. CASE q # r
    BY <1>1, <2>2 DEF Holds, Moves
  <2> QED BY <2>1, <2>2
<1>2. LeaseExpired(command)' <=> LeaseExpired(command)
  BY DEF LeaseExpired
<1>3. command' = command
  OBVIOUS
<1> QED BY <1>1, <1>2, <1>3 DEF RowFree

(* Whoever claims the row holds it, and its lease is new.                   *)
LEMMA ClaimedIsTaken ==
  ASSUME TypeOK, RightsAreConserved, NEW r \in Requests, Claim(r), overdue' = overdue
  PROVE  ~RowFree'
<1>1. /\ Moves(r, "execute")
      /\ request'[r].claimed = command.updatedAt + 1
      /\ command'.status = "PROCESSING"
      /\ command'.updatedAt = command.updatedAt + 1
  BY ClaimMoves
<1>2. command.updatedAt \in Nat /\ overdue \in Nat /\ overdue <= command.updatedAt
  BY DEF TypeOK, Command, RightsAreConserved
<1>3. ~LeaseExpired(command)'
  BY <1>1, <1>2 DEF LeaseExpired
<1>4. Holds(r)'
  BY <1>1 DEF Holds, Moves
<1> QED BY <1>1, <1>3, <1>4 DEF RowFree

LEMMA OneIsBit == \A b : One(b) \in {0, 1}
BY DEF One

(* A change of the row that does not lower its version and that no request  *)
(* overtakes keeps the order of the versions.                               *)
Ordered ==
  /\ overdue <= command.updatedAt
  /\ \A r \in Requests : request[r].claimed <= command.updatedAt

LEMMA OrderKept ==
  ASSUME TypeOK, Ordered, NEW r \in Requests, NEW l, Moves(r, l),
         Keeps(r) \/ request'[r].claimed = command'.updatedAt,
         overdue' = overdue, command'.updatedAt \in {command.updatedAt, command.updatedAt + 1}
  PROVE  Ordered'
<1>1. command.updatedAt \in Nat /\ overdue \in Nat
  BY DEF TypeOK, Command
<1>2. \A q \in Requests : request[q].claimed \in Nat
  BY DEF TypeOK, Request
<1>3. overdue' <= command'.updatedAt
  BY <1>1 DEF Ordered
<1>4. ASSUME NEW q \in Requests PROVE request'[q].claimed <= command'.updatedAt
  <2>1. request'[q].claimed = request[q].claimed \/ request'[q].claimed = command'.updatedAt
    BY <1>4 DEF Moves, Keeps
  <2> QED BY <1>1, <1>2, <2>1 DEF Ordered
<1> QED BY <1>3, <1>4 DEF Ordered

-----------------------------------------------------------------------------
(* The accounts of a step.                                                  *)

(* The only steps that make a right are faults.                             *)
Balanced == Rights' <= Rights + (faults' - faults)

(* A step that leaves the effects alone is balanced when what it takes from *)
(* the requests covers what it gives to them, to the row and to the faults. *)
Covers(r, l) ==
  One(l = "execute") + One(l = "fail") + One(RowFree')
    <= One(request[r].pc = "execute") + One(request[r].pc = "fail") + One(RowFree)
       + (faults' - faults)

LEMMA MoveBalance ==
  ASSUME TypeOK, NEW r \in Requests, NEW l, Moves(r, l), done' = done,
         faults' \in Nat,
         Covers(r, l)
  PROVE  Balanced
<1> DEFINE D0 == Cardinality(done)
           D1 == Cardinality(done')
           E0 == Cardinality(At("execute"))
           E1 == Cardinality(At("execute")')
           F0 == Cardinality(At("fail"))
           F1 == Cardinality(At("fail")')
           e1 == One(l = "execute")
           f1 == One(l = "fail")
           t1 == One(RowFree')
           e0 == One(request[r].pc = "execute")
           f0 == One(request[r].pc = "fail")
           t0 == One(RowFree)
           d  == faults' - faults
<1>1. E1 \in Nat /\ E1 = E0 + e1 - e0
  BY AtCount
<1>2. F1 \in Nat /\ F1 = F0 + f1 - f0
  BY AtCount
<1>3. E0 \in Nat /\ F0 \in Nat
  BY AtFinite
<1>4. /\ e1 \in Int /\ f1 \in Int /\ t1 \in Int
      /\ e0 \in Int /\ f0 \in Int /\ t0 \in Int
  BY OneIsBit
<1>5. D0 \in Nat /\ D1 = D0
  BY DoneNat
<1>6. d \in Int
  BY FaultsAssumption DEF TypeOK
<1>7. Rights = D0 + E0 + F0 + t0
  BY DEF Rights
<1>8. Rights' = D1 + E1 + F1 + t1
  BY DEF Rights, One
<1>9. e1 + f1 + t1 <= e0 + f0 + t0 + d
  BY DEF Covers
<1> HIDE DEF D0, D1, E0, E1, F0, F1, e1, f1, t1, e0, f0, t0, d
<1>10. D1 + E1 + F1 + t1 <= D0 + E0 + F0 + t0 + d
  BY <1>1, <1>2, <1>3, <1>4, <1>5, <1>6, <1>9
<1> QED BY <1>7, <1>8, <1>10 DEF Balanced, d

(* A business transaction turns the right to execute into an effect.        *)
Spared(l) == One(l = "fail") <= faults' - faults

LEMMA EffectBalance ==
  ASSUME TypeOK, NEW r \in Requests, NEW l, Moves(r, l), done' = done \cup {r},
         request[r].pc = "execute", l # "execute", RowFree' => RowFree,
         faults' \in Nat, Spared(l)
  PROVE  Balanced
<1> DEFINE D0 == Cardinality(done)
           D1 == Cardinality(done')
           E0 == Cardinality(At("execute"))
           E1 == Cardinality(At("execute")')
           F0 == Cardinality(At("fail"))
           F1 == Cardinality(At("fail")')
           f1 == One(l = "fail")
           t1 == One(RowFree')
           t0 == One(RowFree)
           d  == faults' - faults
<1>1. E1 \in Nat /\ E1 = E0 - 1
  BY AtCount, AtFinite DEF One
<1>2. F1 \in Nat /\ F1 = F0 + f1
  BY AtCount, AtFinite DEF One
<1>3. E0 \in Nat /\ F0 \in Nat
  BY AtFinite
<1>4. f1 \in Int /\ t1 \in Int /\ t0 \in Int /\ t1 <= t0
  BY DEF One
<1>5. D0 \in Nat /\ D1 \in Nat /\ D1 <= D0 + 1
  BY DoneCount
<1>6. d \in Int
  BY FaultsAssumption DEF TypeOK
<1>7. Rights = D0 + E0 + F0 + t0
  BY DEF Rights
<1>8. Rights' = D1 + E1 + F1 + t1
  BY DEF Rights, One
<1>9. f1 <= d
  BY DEF Spared
<1> HIDE DEF D0, D1, E0, E1, F0, F1, f1, t1, t0, d
<1>10. D1 + E1 + F1 + t1 <= D0 + E0 + F0 + t0 + d
  BY <1>1, <1>2, <1>3, <1>4, <1>5, <1>6, <1>9
<1> QED BY <1>7, <1>8, <1>10 DEF Balanced, d

-----------------------------------------------------------------------------
(* Every step is balanced and keeps the order of the versions.              *)

Idle == {"idle", "find", "insert", "refind", "resolve", "over"}

(* A request that neither owns the row before its step nor after.           *)
LEMMA IdleStep ==
  ASSUME TypeOK, Ordered, NEW r \in Requests, NEW l \in Idle, Moves(r, l), Keeps(r),
         request[r].pc \in Idle, UNCHANGED <<command, overdue, done>>,
         faults' \in Nat, faults <= faults'
  PROVE  Balanced /\ Ordered'
<1>1. RowFree' => RowFree
  BY RowKept DEF Idle, Owning
<1>2. One(RowFree') <= One(RowFree) /\ One(RowFree) \in Nat /\ One(RowFree') \in Nat
  BY <1>1 DEF One
<1>3. /\ One(l = "execute") = 0 /\ One(l = "fail") = 0
      /\ One(request[r].pc = "execute") = 0 /\ One(request[r].pc = "fail") = 0
  BY DEF One, Idle
<1>4. faults \in Nat
  BY FaultsAssumption DEF TypeOK
<1>5. Covers(r, l)
  BY <1>2, <1>3, <1>4 DEF Covers
<1>6. Balanced
  BY <1>5, MoveBalance
<1>7. Ordered'
  BY OrderKept DEF TypeOK
<1> QED BY <1>6, <1>7

(* A request that finds the row free claims it.                             *)
LEMMA ClaimStep ==
  ASSUME TypeOK, RightsAreConserved, NEW r \in Requests, Claim(r), RowFree,
         request[r].pc \in Idle, UNCHANGED <<overdue, done, faults>>
  PROVE  Balanced /\ Ordered'
<1>1. /\ Moves(r, "execute")
      /\ request'[r].claimed = command.updatedAt + 1
      /\ command'.updatedAt = command.updatedAt + 1
  BY ClaimMoves
<1>2. Ordered
  BY DEF RightsAreConserved, Ordered
<1>3. ~RowFree'
  BY ClaimedIsTaken
<1>4. faults \in Nat
  BY FaultsAssumption DEF TypeOK
<1>5. /\ One("execute" = "execute") = 1 /\ One("execute" = "fail") = 0
      /\ One(RowFree') = 0 /\ One(RowFree) = 1
      /\ One(request[r].pc = "execute") = 0 /\ One(request[r].pc = "fail") = 0
  BY <1>3 DEF One, Idle
<1>6. Covers(r, "execute")
  <2>1. 1 + 0 + 0 <= 0 + 0 + 1 + (faults' - faults)
    BY <1>4
  <2> QED BY <1>5, <2>1 DEF Covers
<1>7. Balanced
  BY <1>1, <1>4, <1>6, MoveBalance
<1>8. Ordered'
  BY <1>1, <1>2, OrderKept
<1> QED BY <1>7, <1>8

(* A request that ends, whatever becomes of the row, hands back at most one *)
(* right: it had that right, or it is a fault that makes it.                *)
Advances == command'.updatedAt \in {command.updatedAt, command.updatedAt + 1}

Covered(r, l) ==
  \/ request[r].pc = "execute" /\ l = "fail" /\ faults <= faults' /\ (RowFree' => RowFree)
  \/ request[r].pc = "complete" /\ faults <= faults' /\ ~RowFree' /\ l = "over"
  \/ request[r].pc = "complete" /\ faults < faults' /\ (RowFree' => RowFree)
  \/ request[r].pc = "fail" /\ l = "over" /\ faults <= faults'
  \/ l = "over" /\ faults < faults'

LEMMA LeavingStep ==
  ASSUME TypeOK, Ordered, NEW r \in Requests, NEW l \in {"over", "fail"}, Moves(r, l), Keeps(r),
         UNCHANGED <<overdue, done>>,
         Advances,
         faults' \in Nat,
         Covered(r, l)
  PROVE  Balanced /\ Ordered'
<1> DEFINE f1 == One(l = "fail")
           t1 == One(RowFree')
           e0 == One(request[r].pc = "execute")
           f0 == One(request[r].pc = "fail")
           t0 == One(RowFree)
           m == faults
           n == faults'
<1>1. faults \in Nat /\ faults' \in Nat
  BY FaultsAssumption DEF TypeOK
<1>2. One(l = "execute") = 0
  BY DEF One
<1>3. f1 \in {0, 1} /\ t1 \in {0, 1} /\ e0 \in {0, 1} /\ f0 \in {0, 1} /\ t0 \in {0, 1}
  BY OneIsBit
<1>4. \/ e0 = 1 /\ t1 <= t0 /\ faults <= faults'
      \/ f1 = 0 /\ t1 = 0 /\ faults <= faults'
      \/ t1 <= t0 /\ faults < faults'
      \/ f1 = 0 /\ f0 = 1 /\ faults <= faults'
      \/ f1 = 0 /\ faults < faults'
  BY DEF One, Covered
<1>5. 0 + f1 + t1 <= e0 + f0 + t0 + (n - m)
  <2>1. m \in Nat /\ n \in Nat
    BY <1>1
  <2>2. \/ e0 = 1 /\ t1 <= t0 /\ m <= n
        \/ f1 = 0 /\ t1 = 0 /\ m <= n
        \/ t1 <= t0 /\ m < n
        \/ f1 = 0 /\ f0 = 1 /\ m <= n
        \/ f1 = 0 /\ m < n
    BY <1>4
  <2> HIDE DEF f1, t1, e0, f0, t0, m, n
  <2> QED BY <1>3, <2>1, <2>2
<1>6. Covers(r, l)
  BY <1>2, <1>5 DEF Covers
<1>7. Balanced
  BY <1>1, <1>6, MoveBalance
<1>8. Ordered'
  BY OrderKept DEF Advances
<1> QED BY <1>7, <1>8

(* A recorded outcome that is not a failure leaves the row taken.           *)
LEMMA RecordAdvances ==
  ASSUME TypeOK, NEW st \in {"COMPLETED", "FAILED"}, Record(st)
  PROVE  Advances /\ (st = "COMPLETED" => ~RowFree')
<1>1. command'.status = st /\ command'.updatedAt = command.updatedAt + 1
  BY RecordType
<1> QED BY <1>1 DEF Advances, RowFree

LEMMA FaultCounts ==
  TypeOK => /\ faults \in Nat
            /\ Fault => faults' \in Nat /\ faults < faults'
            /\ UNCHANGED faults => faults' \in Nat /\ faults <= faults'
BY FaultsAssumption DEF TypeOK, Fault

(* The business transaction commits, with or without the answer.            *)
LEMMA EffectStep ==
  ASSUME TypeOK, Ordered, NEW r \in Requests, request[r].pc = "execute",
         done' = done \cup {r}, UNCHANGED overdue,
         NEW l \in {"over", "complete", "fail"}, Moves(r, l), Keeps(r),
         \/ Record("COMPLETED")
         \/ UNCHANGED command /\ l # "over",
         \/ l = "fail" /\ Fault
         \/ l # "fail" /\ UNCHANGED faults
  PROVE  Balanced /\ Ordered'
<1>1. RowFree' => RowFree
  <2>1. CASE Record("COMPLETED")
    BY <2>1, RecordAdvances
  <2>2. CASE UNCHANGED command /\ l # "over"
    BY <2>2, RowKept DEF Owning
  <2> QED BY <2>1, <2>2
<1>2. Advances
  <2>1. CASE Record("COMPLETED")
    BY <2>1, RecordAdvances
  <2>2. CASE UNCHANGED command
    BY <2>2 DEF Advances
  <2> QED BY <2>1, <2>2
<1>3. faults' \in Nat /\ One(l = "fail") <= faults' - faults
  <2>1. CASE l = "fail" /\ Fault
    <3>1. faults \in Nat /\ faults' = faults + 1
      BY <2>1, FaultType, FaultsAssumption DEF TypeOK
    <3> QED BY <2>1, <3>1 DEF One
  <2>2. CASE l # "fail" /\ UNCHANGED faults
    <3>1. faults \in Nat /\ faults' = faults
      BY <2>2, FaultCounts
    <3> QED BY <2>2, <3>1 DEF One
  <2> QED BY <2>1, <2>2
<1>4. Balanced
  BY <1>1, <1>3, EffectBalance DEF Spared
<1>5. Ordered'
  BY <1>2, OrderKept DEF Advances
<1> QED BY <1>4, <1>5

(* Every step of a request.                                                 *)
LEMMA StepBalance ==
  ASSUME TypeOK, RightsAreConserved, NEW r \in Requests, Step(r)
  PROVE  Balanced /\ Ordered'
<1>0. Ordered
  BY DEF RightsAreConserved, Ordered
<1> USE FaultCounts
<1>1. CASE Send(r)
  BY <1>0, <1>1, SendMoves, IdleStep DEF Send, Idle
<1>2. CASE Find(r)
  <2>1. Goto(r, "insert") \/ ReadRow(r)
    BY <1>2 DEF Find
  <2>2. \E l \in Idle : Moves(r, l) /\ Keeps(r)
    BY <2>1, GotoMoves, ReadRowMoves DEF Idle
  <2> QED BY <1>0, <1>2, <2>2, IdleStep DEF Find, Idle
<1>3. CASE Insert(r)
  <2>1. CASE Claim(r) /\ command.status = "NONE"
    BY <1>3, <2>1, ClaimStep DEF Insert, Idle, RowFree
  <2>2. CASE Goto(r, "refind") /\ UNCHANGED command
    BY <1>0, <1>3, <2>2, GotoMoves, IdleStep DEF Insert, Idle
  <2> QED BY <1>3, <2>1, <2>2 DEF Insert
<1>4. CASE Refind(r)
  BY <1>0, <1>4, ReadRowMoves, IdleStep DEF Refind, Idle
<1>5. CASE Resolve(r)
  <2>1. CASE Claim(r) /\ (request[r].existing.status = "FAILED" \/ LeaseExpired(request[r].existing))
             /\ Unchanged(r)
    <3>1. RowFree
      BY <2>1 DEF RowFree, Unchanged, LeaseExpired
    <3> QED BY <1>5, <2>1, <3>1, ClaimStep DEF Resolve, Idle
  <2>2. CASE UNCHANGED command /\ \E a \in {"mismatch", "replay", "busy"} : Reply(r, a)
    BY <1>0, <1>5, <2>2, ReplyMoves, IdleStep DEF Resolve, Idle
  <2> QED BY <1>5, <2>1, <2>2 DEF Resolve
<1>6. CASE Execute(r)
  <2>1. CASE Record("COMPLETED") /\ Reply(r, "done")
    BY <1>0, <1>6, <2>1, ReplyMoves, EffectStep DEF Execute
  <2>2. CASE Goto(r, "complete") /\ UNCHANGED command
    BY <1>0, <1>6, <2>2, GotoMoves, EffectStep DEF Execute
  <2> QED BY <1>6, <2>1, <2>2 DEF Execute
<1>7. CASE Refuse(r)
  <2>1. Moves(r, "fail") /\ Keeps(r)
    BY <1>7, GotoMoves DEF Refuse
  <2>2. RowFree' => RowFree
    BY <1>7, <2>1, RowKept DEF Refuse, Owning
  <2> QED BY <1>0, <1>7, <2>1, <2>2, LeavingStep DEF Refuse, Covered, Advances
<1>8. CASE CompleteCommand(r)
  <2>1. Moves(r, "over") /\ Keeps(r) /\ Advances /\ ~RowFree'
    BY <1>8, ReplyMoves, RecordAdvances DEF CompleteCommand
  <2> QED BY <1>0, <1>8, <2>1, LeavingStep DEF CompleteCommand, Covered
<1>9. CASE FailCommand(r)
  <2>1. Moves(r, "over") /\ Keeps(r) /\ Advances
    BY <1>9, ReplyMoves, RecordAdvances DEF FailCommand
  <2> QED BY <1>0, <1>9, <2>1, LeavingStep DEF FailCommand, Covered
<1>10. CASE StatementError(r)
  <2>1. CASE request[r].pc \in {"find", "insert", "refind", "resolve"} /\ Reply(r, "error")
    BY <1>0, <1>10, <2>1, ReplyMoves, IdleStep DEF StatementError, Idle
  <2>2. CASE request[r].pc = "fail" /\ Reply(r, "error")
    BY <1>0, <1>10, <2>2, ReplyMoves, LeavingStep DEF StatementError, Covered, Advances
  <2>3. CASE request[r].pc = "complete" /\ Goto(r, "fail")
    <3>1. Moves(r, "fail") /\ Keeps(r)
      BY <2>3, GotoMoves
    <3>2. RowFree' => RowFree
      BY <1>10, <2>3, <3>1, RowKept DEF StatementError, Owning
    <3> QED BY <1>0, <1>10, <2>3, <3>1, <3>2, LeavingStep DEF StatementError, Covered, Advances
  <2> QED BY <1>10, <2>1, <2>2, <2>3 DEF StatementError
<1>11. CASE LoseAnswer(r)
  <2>1. Moves(r, "fail") /\ Keeps(r)
    BY <1>11, GotoMoves DEF LoseAnswer
  <2>2. Record("COMPLETED") \/ UNCHANGED command
    BY <1>11 DEF LoseAnswer
  <2> QED BY <1>0, <1>11, <2>1, <2>2, EffectStep DEF LoseAnswer
<1>12. CASE Crash(r)
  <2>1. Moves(r, "over") /\ Keeps(r)
    BY <1>12, GotoMoves DEF Crash
  <2> QED BY <1>0, <1>12, <2>1, LeavingStep DEF Crash, Covered, Advances
<1> QED
  BY <1>1, <1>2, <1>3, <1>4, <1>5, <1>6, <1>7, <1>8, <1>9, <1>10, <1>11, <1>12 DEF Step

(* Time frees the row of a request that is gone, or is a fault.             *)
LEMMA ExpireBalance ==
  ASSUME TypeOK, RightsAreConserved, Expire
  PROVE  Balanced /\ Ordered'
<1> DEFINE t0 == One(RowFree)
           t1 == One(RowFree')
<1>1. command.updatedAt \in Nat
  BY DEF TypeOK, Command
<1>2. Ordered'
  BY <1>1 DEF Expire, RightsAreConserved, Ordered
<1>3. Rights' = Rights + t1 - t0
  <2> DEFINE D == Cardinality(done)
             A == Cardinality(At("execute"))
             B == Cardinality(At("fail"))
  <2>1. D \in Nat /\ A \in Nat /\ B \in Nat
    BY DoneNat, AtFinite
  <2>2. Rights' = D + A + B + t1 /\ Rights = D + A + B + t0
    BY DEF Expire, Rights, At, One
  <2>3. t0 \in {0, 1} /\ t1 \in {0, 1}
    BY OneIsBit
  <2> HIDE DEF D, A, B, t0, t1
  <2> QED BY <2>1, <2>2, <2>3
<1>4. Rights \in Int
  BY DoneNat, AtFinite DEF Rights, One
<1>5. t1 - t0 <= faults' - faults
  <2>1. CASE \E r \in Requests : Holds(r)
    <3>1. faults \in Nat /\ faults' = faults + 1
      BY <2>1, FaultType, FaultsAssumption DEF Expire, TypeOK
    <3> QED BY <3>1 DEF One
  <2>2. CASE ~\E r \in Requests : Holds(r)
    <3>1. faults \in Nat /\ faults' = faults
      BY <2>2, FaultCounts DEF Expire
    <3>2. RowFree
      BY <2>2 DEF Expire, RowFree
    <3> QED BY <3>1, <3>2 DEF One
  <2> QED BY <2>1, <2>2
<1>6. faults \in Nat /\ faults' \in Nat
  BY FaultCounts DEF Expire
<1>7. t0 \in {0, 1} /\ t1 \in {0, 1}
  BY OneIsBit
<1>8. Balanced
  <2> DEFINE R0 == Rights
             R1 == Rights'
             m  == faults
             n  == faults'
  <2>1. /\ R1 = R0 + t1 - t0
        /\ R0 \in Int
        /\ t1 - t0 <= n - m
        /\ m \in Nat /\ n \in Nat
    BY <1>3, <1>4, <1>5, <1>6
  <2>2. R1 <= R0 + (n - m)
    <3> HIDE DEF R0, R1, m, n, t0, t1
    <3> QED BY <1>7, <2>1
  <2> QED BY <2>2 DEF Balanced
<1> QED BY <1>2, <1>8

-----------------------------------------------------------------------------
(* The invariants.                                                          *)

LEMMA InitRights == Init => RightsAreConserved
<1> SUFFICES ASSUME Init PROVE RightsAreConserved
  OBVIOUS
<1>1. Cardinality(done) = 0
  BY FS_EmptySet DEF Init
<1>2. At("execute") = {} /\ At("fail") = {}
  BY DEF Init, At
<1>3. Cardinality(At("execute")) = 0 /\ Cardinality(At("fail")) = 0
  BY <1>2, FS_EmptySet
<1>4. One(RowFree) = 1
  BY DEF Init, NoCommand, RowFree, One
<1>5. Rights <= 1 + faults
  BY <1>1, <1>3, <1>4 DEF Init, Rights
<1> QED BY <1>5 DEF Init, NoCommand, RightsAreConserved

LEMMA NextRights == TypeOK /\ RightsAreConserved /\ [Next]_vars => RightsAreConserved'
<1> SUFFICES ASSUME TypeOK, RightsAreConserved, [Next]_vars PROVE RightsAreConserved'
  OBVIOUS
<1>1. CASE Next
  <2>1. Balanced /\ Ordered'
    BY <1>1, StepBalance, ExpireBalance DEF Next
  <2>2. TypeOK'
    BY NextType
  <2>3. Rights \in Int /\ Rights' \in Int /\ faults \in Nat /\ faults' \in Nat
    <3>1. Rights \in Int /\ faults \in Nat
      BY DoneNat, AtFinite, FaultCounts DEF Rights, One
    <3>2. faults' \in Nat
      BY <2>2, FaultsAssumption DEF TypeOK
    <3>3. /\ Cardinality(done') \in Nat
          /\ Cardinality(At("execute")') \in Nat
          /\ Cardinality(At("fail")') \in Nat
      <4>1. IsFiniteSet(done')
        BY <2>2, RequestsAssumption, FS_Subset DEF TypeOK
      <4>2. IsFiniteSet(At("execute")') /\ IsFiniteSet(At("fail")')
        <5>1. At("execute")' \subseteq Requests /\ At("fail")' \subseteq Requests
          BY DEF At
        <5> QED BY <5>1, RequestsAssumption, FS_Subset
      <4> QED BY <4>1, <4>2, FS_CardinalityType
    <3>4. Rights' \in Int
      BY <3>3 DEF Rights, One
    <3> QED BY <3>1, <3>2, <3>4
  <2>4. Rights' <= 1 + faults'
    <3> DEFINE R0 == Rights
               R1 == Rights'
               m  == faults
               n  == faults'
    <3>1. /\ R0 \in Int /\ R1 \in Int /\ m \in Nat /\ n \in Nat
          /\ R0 <= 1 + m /\ R1 <= R0 + (n - m)
      BY <2>1, <2>3 DEF Balanced, RightsAreConserved
    <3>2. R1 <= 1 + n
      <4> HIDE DEF R0, R1, m, n
      <4> QED BY <3>1
    <3> QED BY <3>2
  <2> QED BY <2>1, <2>4 DEF RightsAreConserved, Ordered
<1>2. CASE UNCHANGED vars
  BY <1>2 DEF vars, RightsAreConserved, Rights, RowFree, LeaseExpired, Holds, At, One
<1> QED BY <1>1, <1>2

(* Rights to take effect are passed between the row and its requests, and   *)
(* only a fault makes a new one.                                            *)
THEOREM RightsConserved == Spec => []RightsAreConserved
BY InitType, NextType, InitRights, NextRights, PTL DEF Spec

LEMMA RightsBoundEffects == TypeOK /\ RightsAreConserved => OncePerFault
<1> SUFFICES ASSUME TypeOK, RightsAreConserved PROVE OncePerFault
  OBVIOUS
<1>1. /\ Cardinality(done) \in Nat
      /\ Cardinality(At("execute")) \in Nat
      /\ Cardinality(At("fail")) \in Nat
  BY DoneNat, AtFinite
<1>2. Rights <= 1 + faults
  BY DEF RightsAreConserved
<1>3. faults \in Nat
  BY FaultCounts
<1> QED BY <1>1, <1>2, <1>3 DEF OncePerFault, Rights, One

(* However many requests carry a key, and in whatever order they find,      *)
(* claim, fail and claim again, the command takes effect at most once, and  *)
(* once more for each fault.                                                *)
THEOREM EffectsAreCounted == Spec => []OncePerFault
BY TypeCorrect, RightsConserved, RightsBoundEffects, PTL

-----------------------------------------------------------------------------
(* Payloads and answers.  The row keeps the payload of the request that     *)
(* inserted it, and what a request has read of the row stays true of it.    *)

Acting == {"execute", "complete", "fail"}

PayloadInv ==
  \A r \in Requests :
    /\ request[r].pc = "idle" => r \notin done /\ request[r].answer = "none"
    /\ request[r].pc = "refind" => command.status # "NONE"
    /\ request[r].pc = "resolve" =>
         command.status # "NONE" /\ request[r].existing.requestHash = command.requestHash
    /\ request[r].pc \in Acting \/ r \in done \/ request[r].answer = "replay" =>
         command.status # "NONE" /\ request[r].payload = command.requestHash

AnswerInv ==
  /\ command.status = "COMPLETED" => done # {}
  /\ \A r \in Requests :
       /\ request[r].pc = "complete" => r \in done
       /\ request[r].pc = "resolve" /\ request[r].existing.status = "COMPLETED" => done # {}
       /\ request[r].answer = "done" => r \in done
       /\ request[r].answer = "replay" => done # {}

KeyInv == PayloadInv /\ AnswerInv

(* What a step of one request leaves of the others and of itself.           *)
Others(r) == \A q \in Requests \ {r} : request'[q] = request[q]

LEMMA GotoFields ==
  ASSUME TypeOK, NEW r \in Requests, NEW l, Goto(r, l)
  PROVE  /\ Others(r) /\ request'[r].pc = l
         /\ request'[r].payload = request[r].payload
         /\ request'[r].existing = request[r].existing
         /\ request'[r].answer = request[r].answer
BY DEF TypeOK, Request, Goto, Others

LEMMA ReplyFields ==
  ASSUME TypeOK, NEW r \in Requests, NEW a, Reply(r, a)
  PROVE  /\ Others(r) /\ request'[r].pc = "over"
         /\ request'[r].payload = request[r].payload
         /\ request'[r].answer = a
BY DEF TypeOK, Request, Reply, Others

LEMMA ReadRowFields ==
  ASSUME TypeOK, NEW r \in Requests, ReadRow(r)
  PROVE  /\ Others(r) /\ request'[r].pc = "resolve"
         /\ request'[r].payload = request[r].payload
         /\ request'[r].existing = command
         /\ request'[r].answer = request[r].answer
BY DEF TypeOK, Request, ReadRow, Others

LEMMA SendFields ==
  ASSUME TypeOK, NEW r \in Requests, Send(r)
  PROVE  /\ Others(r) /\ request'[r].pc = "find"
         /\ request'[r].answer = request[r].answer
BY DEF TypeOK, Request, Send, Others

LEMMA ClaimFields ==
  ASSUME TypeOK, NEW r \in Requests, Claim(r)
  PROVE  /\ Others(r) /\ request'[r].pc = "execute"
         /\ request'[r].payload = request[r].payload
         /\ request'[r].answer = request[r].answer
         /\ command'.status = "PROCESSING"
         /\ command'.requestHash = request[r].payload
<1> DEFINE n == command.updatedAt + 1
<1>1. /\ request' = [request EXCEPT ![r].pc = "execute", ![r].claimed = n]
      /\ command' = [status |-> "PROCESSING", requestHash |-> request[r].payload, updatedAt |-> n]
  BY DEF Claim
<1> HIDE DEF n
<1> QED BY <1>1 DEF TypeOK, Request, Others

LEMMA RecordFields ==
  ASSUME TypeOK, NEW st \in {"COMPLETED", "FAILED"}, Record(st)
  PROVE  command'.status = st /\ command'.requestHash = command.requestHash
<1> DEFINE n == command.updatedAt + 1
<1>1. command' = [command EXCEPT !.status = st, !.updatedAt = n]
  BY DEF Record
<1> HIDE DEF n
<1> QED BY <1>1 DEF TypeOK, Command

LEMMA InitKey == Init => KeyInv
BY DEF Init, KeyInv, PayloadInv, AnswerInv, Acting, NoCommand

LEMMA StepKey ==
  ASSUME TypeOK, KeyInv, NEW r \in Requests, Step(r)
  PROVE  KeyInv'
<1> USE DEF KeyInv, PayloadInv, AnswerInv, Acting, Others
<1>1. CASE Send(r)
  <2>1. r \notin done /\ request[r].answer = "none"
    BY <1>1 DEF Send
  <2>2. /\ \A q \in Requests \ {r} : request'[q] = request[q]
        /\ request'[r].pc = "find" /\ request'[r].answer = "none"
        /\ UNCHANGED <<command, done>>
    BY <1>1, <2>1, SendFields DEF Send
  <2> QED BY <2>1, <2>2
<1>2. CASE Find(r)
  BY <1>2, GotoFields, ReadRowFields DEF Find
<1>3. CASE Insert(r)
  <2>1. CASE Claim(r) /\ command.status = "NONE"
    BY <1>3, <2>1, ClaimFields DEF Insert
  <2>2. CASE Goto(r, "refind") /\ UNCHANGED command /\ command.status # "NONE"
    BY <1>3, <2>2, GotoFields DEF Insert
  <2> QED BY <1>3, <2>1, <2>2 DEF Insert
<1>4. CASE Refind(r)
  BY <1>4, ReadRowFields DEF Refind
<1>5. CASE Resolve(r)
  <2>1. CASE Claim(r) /\ SameHash(r)
    BY <1>5, <2>1, ClaimFields DEF Resolve, SameHash
  <2>2. CASE UNCHANGED command /\ \E a \in {"mismatch", "busy"} : Reply(r, a)
    BY <1>5, <2>2, ReplyFields DEF Resolve
  <2>3. CASE UNCHANGED command /\ Reply(r, "replay") /\ SameHash(r) /\ IsCompleted(request[r].existing)
    BY <1>5, <2>3, ReplyFields DEF Resolve, SameHash, IsCompleted
  <2> QED BY <1>5, <2>1, <2>2, <2>3 DEF Resolve
<1>6. CASE Execute(r)
  <2>1. CASE Record("COMPLETED") /\ Reply(r, "done")
    BY <1>6, <2>1, ReplyFields, RecordFields DEF Execute
  <2>2. CASE Goto(r, "complete") /\ UNCHANGED command
    BY <1>6, <2>2, GotoFields DEF Execute
  <2> QED BY <1>6, <2>1, <2>2 DEF Execute
<1>7. CASE Refuse(r)
  BY <1>7, GotoFields DEF Refuse
<1>8. CASE CompleteCommand(r)
  BY <1>8, ReplyFields, RecordFields DEF CompleteCommand
<1>9. CASE FailCommand(r)
  BY <1>9, ReplyFields, RecordFields DEF FailCommand
<1>10. CASE StatementError(r)
  BY <1>10, ReplyFields, GotoFields DEF StatementError
<1>11. CASE LoseAnswer(r)
  <2>1. CASE Record("COMPLETED")
    BY <1>11, <2>1, GotoFields, RecordFields DEF LoseAnswer
  <2>2. CASE UNCHANGED command
    BY <1>11, <2>2, GotoFields DEF LoseAnswer
  <2> QED BY <1>11, <2>1, <2>2 DEF LoseAnswer
<1>12. CASE Crash(r)
  BY <1>12, GotoFields DEF Crash
<1> QED
  BY <1>1, <1>2, <1>3, <1>4, <1>5, <1>6, <1>7, <1>8, <1>9, <1>10, <1>11, <1>12 DEF Step

LEMMA NextKey == TypeOK /\ KeyInv /\ [Next]_vars => KeyInv'
<1>1. ASSUME KeyInv, Expire PROVE KeyInv'
  BY <1>1 DEF Expire, KeyInv, PayloadInv, AnswerInv
<1>2. ASSUME KeyInv, UNCHANGED vars PROVE KeyInv'
  BY <1>2 DEF vars, KeyInv, PayloadInv, AnswerInv
<1> QED BY <1>1, <1>2, StepKey DEF Next

(* All that takes effect or is replayed under a key has one payload.        *)
THEOREM PayloadsAgree == Spec => []OnePayload
<1>1. KeyInv => OnePayload
  BY DEF KeyInv, PayloadInv, OnePayload
<1> QED BY <1>1, InitType, NextType, InitKey, NextKey, PTL DEF Spec

(* No request is told of a result that there is not.                        *)
THEOREM AnswersHold == Spec => []AnswersAreTrue
<1>1. KeyInv => AnswersAreTrue
  BY DEF KeyInv, AnswerInv, AnswersAreTrue
<1> QED BY <1>1, InitType, NextType, InitKey, NextKey, PTL DEF Spec

-----------------------------------------------------------------------------
(* The page of automatic dispatch.                                          *)

(* The job of a call is a job of the branch that it was sent for.           *)
Sent(c) ==
  /\ c.kind \in {"restore", "poll", "apply"} => c.job \in JobsOf(c.branch)
  /\ c.kind = "start" /\ c.seen # "waiting" => c.job \in JobsOf(c.branch)
  /\ c.kind = "reload" => c.job \in Jobs

(* A poll and a reload are of what page p shows.                            *)
Follows(c, p) ==
  c.kind \in {"poll", "reload"} => ~ c.gone /\ c.branch = p.branch /\ c.job = p.shown.job

(* A restore that the page listens to is of the branch b.                   *)
Restoring(c, b) == c.kind = "restore" /\ ~ c.gone => c.branch = b

Awaited == \A c \in calls : Sent(c) /\ Follows(c, page) /\ Restoring(c, page.branch)

PInv == PageTypeOK /\ Awaited

-----------------------------------------------------------------------------
(* Pages and calls are what their makers say.                               *)

LEMMA NewCalls ==
  ASSUME NEW kind \in {"restore", "poll", "reload", "start", "apply"},
         NEW j \in Jobs \cup {NoJob}, NEW b \in Branches
  PROVE  LET c == NewCall(kind, j, b)
         IN /\ c \in Call /\ c.kind = kind /\ c.job = j /\ c.branch = b
            /\ ~ c.gone /\ c.seen = "waiting"
BY DEF NewCall, Call

LEMMA Seen ==
  ASSUME NEW c \in Call, NEW s \in Status \cup {"waiting"}, NEW d, d = [c EXCEPT !.seen = s]
  PROVE  /\ d \in Call /\ d.kind = c.kind /\ d.job = c.job /\ d.branch = c.branch
         /\ d.gone = c.gone /\ d.seen = s
BY DEF Call

LEMMA CallChanges ==
  ASSUME NEW c \in Call
  PROVE  /\ LET d == [c EXCEPT !.gone = TRUE]
            IN d \in Call /\ d.kind = c.kind /\ d.job = c.job /\ d.branch = c.branch
               /\ d.gone /\ d.seen = c.seen
         /\ \A a \in BOOLEAN :
              LET d == [c EXCEPT !.applied = a]
              IN d \in Call /\ d.kind = c.kind /\ d.job = c.job /\ d.branch = c.branch
                 /\ d.gone = c.gone /\ d.seen = c.seen
BY DEF Call

LEMMA RestoresAreSent ==
  ASSUME PageTypeOK, NEW b \in Branches
  PROVE  /\ Restores(b) \subseteq Call
         /\ \A c \in Restores(b) : c.kind = "restore" /\ c.branch = b /\ Sent(c) /\ ~ c.gone
<1> SUFFICES ASSUME NEW c \in Restores(b)
             PROVE  c \in Call /\ c.kind = "restore" /\ c.branch = b /\ Sent(c) /\ ~ c.gone
  OBVIOUS
<1> DEFINE n == NewCall("restore", stored[b].job, b)
<1>1. /\ c = [n EXCEPT !.applied = stored[b].applied]
      /\ stored[b].job # NoJob /\ stored[b].job \in JobsOf(b) /\ stored[b].applied \in BOOLEAN
  BY DEF Restores, PageTypeOK, Stored
<1>2. stored[b].job \in Jobs
  BY <1>1 DEF JobsOf
<1>3. n \in Call /\ n.kind = "restore" /\ n.job = stored[b].job /\ n.branch = b /\ ~ n.gone
  BY <1>2, NewCalls
<1> HIDE DEF n
<1>4. c \in Call /\ c.kind = "restore" /\ c.job = stored[b].job /\ c.branch = b /\ ~ c.gone
  BY <1>1, <1>3, CallChanges
<1> QED BY <1>1, <1>4 DEF Sent

LEMMA NothingShown == Nothing \in Shown /\ Nothing.job = NoJob /\ ~ (Nothing.status = "active")
BY DEF Nothing, Shown, Status

LEMMA OpenedPage ==
  ASSUME NEW b \in Branches
  PROVE  Opened(b) \in Page /\ Opened(b).branch = b /\ Opened(b).shown = Nothing
BY NothingShown DEF Opened, Page

(* What the handlers set of the page.                                       *)
LEMMA PageChanges ==
  ASSUME NEW p \in Page, NEW s \in Shown, NEW a \in BOOLEAN
  PROVE  /\ LET q == [p EXCEPT !.shown = s]
            IN q \in Page /\ q.branch = p.branch /\ q.shown = s
         /\ LET q == [p EXCEPT !.starting = a]
            IN q \in Page /\ q.branch = p.branch /\ q.shown = p.shown
         /\ LET q == [p EXCEPT !.applying = a]
            IN q \in Page /\ q.branch = p.branch /\ q.shown = p.shown
         /\ LET q == [p EXCEPT !.applied = a]
            IN q \in Page /\ q.branch = p.branch /\ q.shown = p.shown
         /\ \A b \in Branches : LET q == [p EXCEPT !.branch = b]
                                IN q \in Page /\ q.branch = b /\ q.shown = p.shown
BY DEF Page

(* The page goes to q: what is no longer followed is no longer awaited.     *)
LEMMA RenderKeeps ==
  ASSUME page \in Page, NEW q \in Page, NEW cs \in SUBSET Call, Render(q, cs),
         \A c \in cs : Sent(c) /\ Follows(c, page) /\ Restoring(c, q.branch)
  PROVE  /\ page' \in Page /\ page'.branch = q.branch /\ page'.shown = q.shown
         /\ calls' \subseteq Call /\ Awaited'
         /\ \A c \in calls' : c \in cs \/ c.kind = "poll"
<1> DEFINE repoll  == Polled(q) # Polled(page)
           rejoin  == q.shown.job # page.shown.job \/ q.branch # page.branch
           cleaned == {c \in cs : (repoll /\ c.kind = "poll") \/ (rejoin /\ c.kind = "reload")}
           polls   == repoll /\ IsOwn(q) /\ IsActive(q)
           n       == NewCall("poll", q.shown.job, q.branch)
<1>1. /\ page' = [q EXCEPT !.starting = IF repoll /\ IsOwn(q) THEN IsActive(q) ELSE @]
      /\ calls' = (cs \ cleaned) \cup {c \in {n} : polls}
  BY DEF Render
<1>2. page' \in Page /\ page'.branch = q.branch /\ page'.shown = q.shown
  <2> DEFINE a == IF repoll /\ IsOwn(q) THEN IsActive(q) ELSE q.starting
  <2>1. a \in BOOLEAN
    BY DEF IsActive, Page
  <2>2. page' = [q EXCEPT !.starting = a]
    BY <1>1
  <2> HIDE DEF a
  <2> QED BY <2>1, <2>2, q.shown \in Shown, PageChanges DEF Page
<1>3. q.branch \in Branches /\ q.shown.job \in Jobs \cup {NoJob}
  BY DEF Page, Shown
<1>4. n \in Call /\ n.kind = "poll" /\ n.job = q.shown.job /\ n.branch = q.branch /\ ~ n.gone
  BY <1>3, NewCalls
<1>5. polls => n.job \in JobsOf(n.branch)
  BY <1>3, <1>4 DEF IsOwn, JobsOf
<1>6. ASSUME NEW c \in cs \ cleaned
      PROVE  Follows(c, q)
  BY <1>6 DEF Follows, Polled
<1> HIDE DEF n
<1>7. calls' \subseteq Call /\ \A c \in calls' : c \in cs \/ c.kind = "poll"
  BY <1>1, <1>4
<1>8. ASSUME NEW c \in calls'
      PROVE  Sent(c) /\ Follows(c, page') /\ Restoring(c, page'.branch)
  <2>1. CASE c \in cs \ cleaned
    BY <1>2, <1>6, <2>1 DEF Follows
  <2>2. CASE c = n /\ polls
    BY <1>2, <1>4, <1>5, <2>2 DEF Sent, Follows, Restoring
  <2> QED BY <1>1, <1>8, <2>1, <2>2
<1> QED BY <1>2, <1>7, <1>8 DEF Awaited

-----------------------------------------------------------------------------
(* Every step keeps the types, and what is awaited.                        *)

LEMMA CountersTyped ==
  ASSUME PageTypeOK, PageNext
  PROVE  actions' \in 0 .. MaxActions /\ reloads' \in 0 .. MaxReloads /\ failures' \in 0 .. MaxFailures
<1>1. \/ UNCHANGED budget
      \/ Act /\ UNCHANGED <<reloads, failures>>
      \/ reloads < MaxReloads /\ reloads' = reloads + 1 /\ UNCHANGED <<actions, failures>>
      \/ failures < MaxFailures /\ failures' = failures + 1 /\ UNCHANGED <<actions, reloads>>
  BY DEF PageNext, ChangeBranch, Mount, StartOptimization, ApplyOptimization, ClearOptimization, Act,
         Reload, Settle, Answered, AnswerRead, AnswerStart, AnswerApply, Comes, Restored,
         PollAnswered, Reloaded, Started, Applied, Fails, RestoreFails, PollFails, ReloadFails,
         StartFails, ApplyFails, budget
<1> QED BY <1>1, BoundsAssumption DEF PageTypeOK, budget, Act

(* What is stored stays of its branch.                                     *)
StoredTyped == stored \in [Branches -> Stored] /\ \A b \in Branches : stored[b].job \in JobsOf(b) \cup {NoJob}

LEMMA Store ==
  ASSUME StoredTyped, NEW b \in Branches, NEW j \in JobsOf(b) \cup {NoJob}, NEW a \in BOOLEAN,
         stored' = [stored EXCEPT ![b] = [job |-> j, applied |-> a]]
  PROVE  StoredTyped'
BY DEF StoredTyped, Stored, JobsOf

LEMMA PInvParts ==
  ASSUME PageTypeOK, PageNext, status' \in [Jobs -> Status], page' \in Page, StoredTyped',
         calls' \subseteq Call, Awaited'
  PROVE  PInv'
BY CountersTyped DEF PInv, PageTypeOK, StoredTyped

(* A handler that renders q and awaits cs.                                 *)
LEMMA HandlerKeeps ==
  ASSUME PInv, PageNext, status' \in [Jobs -> Status], StoredTyped',
         NEW q \in Page, NEW cs \in SUBSET Call, Render(q, cs),
         \A c \in cs : Sent(c) /\ Follows(c, page) /\ Restoring(c, q.branch)
  PROVE  PInv'
BY RenderKeeps, PInvParts DEF PInv, PageTypeOK

LEMMA AwaitedCall ==
  ASSUME PInv, NEW c \in calls
  PROVE  /\ c \in Call /\ Sent(c) /\ Follows(c, page) /\ Restoring(c, page.branch)
         /\ c.branch \in Branches /\ c.applied \in BOOLEAN /\ c.job \in Jobs \cup {NoJob}
         /\ c.seen # "waiting" => Snapshot(c) \in Shown
BY DEF PInv, PageTypeOK, Awaited, Call, Snapshot, Shown

LEMMA ChangeBranchKeeps ==
  ASSUME PInv, PageNext, NEW b \in Branches, ChangeBranch(b)
  PROVE  PInv'
<1> DEFINE q  == [page EXCEPT !.branch = b, !.shown = Nothing, !.applied = FALSE]
           cs == (calls \ VoidRestores) \cup Restores(b)
<1>1. q \in Page /\ q.branch = b
  BY NothingShown DEF PInv, PageTypeOK, Page
<1>2. cs \subseteq Call
  BY RestoresAreSent DEF PInv, PageTypeOK
<1>3. \A c \in cs : Sent(c) /\ Follows(c, page) /\ Restoring(c, b)
  BY RestoresAreSent DEF PInv, Awaited, Follows, Restoring, VoidRestores
<1>4. Render(q, cs) /\ UNCHANGED <<status, stored>>
  BY DEF ChangeBranch
<1> HIDE DEF q, cs
<1> QED BY <1>1, <1>2, <1>3, <1>4, HandlerKeeps DEF PInv, PageTypeOK, StoredTyped

LEMMA MountKeeps ==
  ASSUME PInv, PageNext, NEW b \in Branches, Mount(b)
  PROVE  PInv'
<1>1. page' = Opened(b) /\ UNCHANGED <<status, stored>>
  BY DEF Mount
<1>2. PICK kept \in {{}, Outlasting} : calls' = kept \cup Restores(b)
  BY DEF Mount
<1>3. page' \in Page /\ page'.branch = b
  BY <1>1, OpenedPage
<1>4. ASSUME NEW c \in Outlasting
      PROVE  /\ c \in Call /\ Sent(c) /\ c.gone
             /\ c.kind # "poll" /\ c.kind # "reload"
  <2>1. PICK d \in calls : d.kind \in {"restore", "start", "apply"} /\ c = [d EXCEPT !.gone = TRUE]
    BY <1>4 DEF Outlasting
  <2>2. /\ c \in Call /\ c.kind = d.kind /\ c.job = d.job /\ c.branch = d.branch
        /\ c.gone /\ c.seen = d.seen
    BY <2>1, AwaitedCall, CallChanges
  <2> QED BY <2>1, <2>2, AwaitedCall DEF Sent
<1>5. calls' \subseteq Call /\ Awaited'
  BY <1>2, <1>3, <1>4, RestoresAreSent DEF PInv, Awaited, Follows, Restoring
<1> QED BY <1>1, <1>3, <1>5, PInvParts DEF PInv, PageTypeOK, StoredTyped

LEMMA UserKeeps ==
  ASSUME PInv, PageNext, StartOptimization \/ ApplyOptimization \/ ClearOptimization \/ Reload
  PROVE  PInv'
<1>1. /\ page \in Page /\ page.branch \in Branches /\ page.shown \in Shown
      /\ page.shown.job \in Jobs \cup {NoJob} /\ calls \subseteq Call
      /\ StoredTyped /\ status \in [Jobs -> Status]
  BY DEF PInv, PageTypeOK, StoredTyped, Page, Shown
<1>2. \A c \in calls : Sent(c) /\ Follows(c, page) /\ Restoring(c, page.branch)
  BY DEF PInv, Awaited
<1>3. CASE StartOptimization
  <2> DEFINE q == [page EXCEPT !.starting = TRUE, !.applied = FALSE]
             n == NewCall("start", NoJob, page.branch)
  <2>1. q \in Page /\ q.branch = page.branch
    BY <1>1 DEF Page
  <2>0. n \in Call /\ n.kind = "start" /\ n.seen = "waiting"
    BY <1>1, NewCalls
  <2>2. n \in Call /\ Sent(n) /\ Follows(n, page) /\ Restoring(n, page.branch)
    <3> HIDE DEF n
    <3> QED BY <2>0 DEF Sent, Follows, Restoring
  <2>3. Render(q, calls \cup {n}) /\ UNCHANGED <<status, stored>>
    BY <1>3 DEF StartOptimization
  <2> HIDE DEF q, n
  <2> QED BY <1>1, <1>2, <2>1, <2>2, <2>3, HandlerKeeps DEF StoredTyped
<1>4. CASE ApplyOptimization
  <2> DEFINE q == [page EXCEPT !.applying = TRUE]
             n == NewCall("apply", page.shown.job, page.branch)
  <2>1. q \in Page /\ q.branch = page.branch
    BY <1>1, PageChanges
  <2>2. page.shown.job \in JobsOf(page.branch)
    BY <1>1, <1>4 DEF ApplyOptimization, IsOwn, JobsOf
  <2>0. n \in Call /\ n.kind = "apply" /\ n.job = page.shown.job /\ n.branch = page.branch
    BY <1>1 DEF NewCall, Call
  <2>3. n \in Call /\ Sent(n) /\ Follows(n, page) /\ Restoring(n, page.branch)
    <3> HIDE DEF n
    <3> QED BY <2>2, <2>0 DEF Sent, Follows, Restoring
  <2>4. Render(q, calls \cup {n}) /\ UNCHANGED <<status, stored>>
    BY <1>4 DEF ApplyOptimization
  <2> HIDE DEF q, n
  <2> QED BY <1>1, <1>2, <2>1, <2>3, <2>4, HandlerKeeps DEF StoredTyped
<1>5. CASE ClearOptimization
  <2> DEFINE q == [page EXCEPT !.shown = Nothing, !.applied = FALSE]
  <2>1. q \in Page /\ q.branch = page.branch
    BY <1>1, NothingShown DEF Page
  <2>2. Render(q, calls \ VoidRestores) /\ UNCHANGED status
    BY <1>5 DEF ClearOptimization
  <2>3. StoredTyped'
    BY <1>1, <1>5 DEF ClearOptimization, StoredTyped, NothingSaved, Stored
  <2> HIDE DEF q
  <2> QED BY <1>1, <1>2, <2>1, <2>2, <2>3, HandlerKeeps
<1>6. CASE Reload
  <2> DEFINE n == NewCall("reload", page.shown.job, page.branch)
  <2>1. /\ page.shown.job \in Jobs
        /\ calls' = calls \cup {n} /\ UNCHANGED <<status, page, stored>>
    BY <1>1, <1>6 DEF Reload
  <2>2. n \in Call /\ Sent(n) /\ Follows(n, page) /\ Restoring(n, page.branch)
    BY <1>1, <2>1, NewCalls DEF Sent, Follows, Restoring
  <2> HIDE DEF n
  <2>3. calls' \subseteq Call /\ Awaited'
    BY <1>1, <1>2, <2>1, <2>2 DEF Awaited
  <2> QED BY <1>1, <2>1, <2>3, PInvParts DEF PInv, StoredTyped
<1> QED BY <1>3, <1>4, <1>5, <1>6

LEMMA BackendKeeps ==
  ASSUME PInv, PageNext,
         \/ \E j \in Jobs : Settle(j)
         \/ \E c \in calls : AnswerRead(c) \/ AnswerStart(c) \/ AnswerApply(c)
  PROVE  PInv'
<1>1. page \in Page /\ calls \subseteq Call /\ StoredTyped /\ status \in [Jobs -> Status]
  BY DEF PInv, PageTypeOK, StoredTyped
<1>2. UNCHANGED <<page, stored>>
  BY DEF Settle, AnswerRead, AnswerStart, AnswerApply, Answered
<1>3. StoredTyped'
  BY <1>1, <1>2 DEF StoredTyped
<1>4. CASE \E j \in Jobs : Settle(j)
  <2>1. status' \in [Jobs -> Status] /\ UNCHANGED calls
    BY <1>1, <1>4 DEF Settle, Status
  <2> QED BY <1>1, <1>2, <1>3, <2>1, PInvParts DEF PInv, Awaited
<1>5. ASSUME NEW c \in calls, NEW d \in Call, calls' = (calls \ {c}) \cup {d}, Sent(d),
             d.kind = c.kind, d.branch = c.branch, d.gone = c.gone,
             d.job = c.job \/ c.kind \notin {"poll", "reload"}
      PROVE  calls' \subseteq Call /\ Awaited'
  BY <1>1, <1>2, <1>5, AwaitedCall DEF Awaited, PInv, Follows, Restoring
<1>6. ASSUME NEW c \in calls, AnswerRead(c)
      PROVE  PInv'
  <2> DEFINE d == [c EXCEPT !.seen = status[c.job]]
  <2>1. c.job \in Jobs /\ calls' = (calls \ {c}) \cup {d} /\ UNCHANGED status
    BY <1>6, AwaitedCall DEF AnswerRead, Answered, Sent, JobsOf
  <2>2. /\ d \in Call /\ d.kind = c.kind /\ d.job = c.job /\ d.branch = c.branch
        /\ d.gone = c.gone
    <3>1. status[c.job] \in Status /\ c \in Call
      BY <1>1, <2>1
    <3> QED BY <3>1, Seen
  <2>3. Sent(d)
    BY <1>6, <2>2, AwaitedCall DEF Sent, AnswerRead
  <2> HIDE DEF d
  <2> QED BY <1>1, <1>2, <1>3, <1>5, <2>1, <2>2, <2>3, PInvParts DEF PInv
<1>7. ASSUME NEW c \in calls, AnswerStart(c)
      PROVE  PInv'
  <2>1. PICK j \in JobsOf(c.branch) : /\ status' = [status EXCEPT ![j] = "active"]
                                      /\ calls' = (calls \ {c}) \cup {[c EXCEPT !.job = j, !.seen = "active"]}
    BY <1>7 DEF AnswerStart, Answered
  <2> DEFINE d == [c EXCEPT !.job = j, !.seen = "active"]
  <2>2. j \in Jobs /\ status' \in [Jobs -> Status]
    BY <1>1, <2>1 DEF JobsOf, Status
  <2>3. /\ d \in Call /\ d.kind = c.kind /\ d.job = j /\ d.branch = c.branch /\ d.gone = c.gone
    BY <2>2, AwaitedCall DEF Call, Status
  <2>4. Sent(d) /\ c.kind = "start"
    BY <1>7, <2>3 DEF Sent, AnswerStart
  <2> HIDE DEF d
  <2>5. calls' = (calls \ {c}) \cup {d}
    BY <2>1 DEF d
  <2> QED BY <1>1, <1>2, <1>3, <1>5, <2>2, <2>3, <2>4, <2>5, PInvParts DEF PInv
<1>8. ASSUME NEW c \in calls, AnswerApply(c)
      PROVE  PInv'
  <2> DEFINE d == [c EXCEPT !.seen = "applied"]
  <2>1. /\ calls' = (calls \ {c}) \cup {d} /\ c.kind = "apply"
        /\ status' = [status EXCEPT ![c.job] = "applied"]
    BY <1>8 DEF AnswerApply, Answered
  <2>2. status' \in [Jobs -> Status]
    BY <1>1, <2>1 DEF Status
  <2>3. /\ d \in Call /\ d.kind = c.kind /\ d.job = c.job /\ d.branch = c.branch
        /\ d.gone = c.gone
    <3>1. "applied" \in Status /\ c \in Call
      BY <1>1 DEF Status
    <3> QED BY <3>1, Seen
  <2>4. Sent(d)
    BY <2>1, <2>3, AwaitedCall DEF Sent
  <2> HIDE DEF d
  <2> QED BY <1>1, <1>2, <1>3, <1>5, <2>1, <2>2, <2>3, <2>4, PInvParts DEF PInv
<1> QED BY <1>4, <1>6, <1>7, <1>8

(* The page of a call is this one, or it is no longer open.                *)
LEMMA HereKeeps ==
  ASSUME PInv, PageNext, status' \in [Jobs -> Status], StoredTyped', NEW c \in calls,
         NEW q \in Page, q.branch = page.branch, Here(c, q, calls \ {c})
  PROVE  PInv'
<1>1. \A d \in calls : d \in Call /\ Sent(d) /\ Follows(d, page) /\ Restoring(d, page.branch)
  BY AwaitedCall
<1>2. CASE c.gone
  <2>1. page' = page /\ calls' = calls \ {c}
    BY <1>2 DEF Here
  <2> QED BY <1>1, <2>1, PInvParts DEF PInv, PageTypeOK, Awaited
<1>3. CASE ~ c.gone
  <2>1. Render(q, calls \ {c})
    BY <1>3 DEF Here
  <2> QED BY <1>1, <2>1, HandlerKeeps
<1> QED BY <1>2, <1>3

LEMMA PollsKeep ==
  ASSUME PInv, PageNext, NEW c \in calls, PollAnswered(c) \/ PollFails(c)
  PROVE  PInv'
<1> DEFINE d == [c EXCEPT !.seen = "waiting"]
<1>1. \A x \in calls : x \in Call /\ Sent(x) /\ Follows(x, page) /\ Restoring(x, page.branch)
  BY AwaitedCall
<1>2. page \in Page /\ StoredTyped' /\ status' \in [Jobs -> Status] /\ c.kind = "poll"
  BY DEF PInv, PageTypeOK, StoredTyped, PollAnswered, PollFails, Comes, Fails
<1>3. /\ d \in Call /\ d.kind = c.kind /\ d.job = c.job /\ d.branch = c.branch
      /\ d.gone = c.gone
  <2>1. c \in Call
    BY <1>1
  <2> QED BY <2>1, Seen
<1>4. Sent(d) /\ Follows(d, page) /\ Restoring(d, page.branch)
  <2> HIDE DEF d
  <2> QED BY <1>1, <1>2, <1>3 DEF Sent, Follows, Restoring
<1> DEFINE cs == (calls \ {c}) \cup {d}
<1>5. cs \subseteq Call /\ \A x \in cs : Sent(x) /\ Follows(x, page) /\ Restoring(x, page.branch)
  <2> HIDE DEF d
  <2> QED BY <1>1, <1>3, <1>4
<1>6. CASE PollFails(c)
  <2>1. Render(page, cs)
    BY <1>6 DEF PollFails
  <2> HIDE DEF cs
  <2> QED BY <1>2, <1>5, <2>1, HandlerKeeps
<1>7. CASE PollAnswered(c)
  <2> DEFINE q == [page EXCEPT !.shown = Snapshot(c)]
             e == [q EXCEPT !.starting = FALSE]
  <2>1. q \in Page /\ q.branch = page.branch
    BY <1>2, <1>7, AwaitedCall, PageChanges DEF PollAnswered, Comes
  <2>2. e \in Page /\ e.branch = page.branch
    <3>1. q.shown \in Shown
      BY <2>1 DEF Page
    <3> HIDE DEF q
    <3> QED BY <2>1, <3>1, PageChanges
  <2>3. Render(q, cs) \/ Render(e, calls \ {c})
    BY <1>7 DEF PollAnswered
  <2> HIDE DEF q, e, cs
  <2> QED BY <1>1, <1>2, <1>5, <2>1, <2>2, <2>3, HandlerKeeps
<1> QED BY <1>6, <1>7

LEMMA AnswersKeep ==
  ASSUME PInv, PageNext, NEW c \in calls,
         \/ Restored(c) \/ Reloaded(c) \/ Started(c) \/ Applied(c)
         \/ RestoreFails(c) \/ ReloadFails(c) \/ StartFails(c) \/ ApplyFails(c)
  PROVE  PInv'
<1>1. /\ page \in Page /\ page.shown \in Shown /\ StoredTyped /\ status' \in [Jobs -> Status]
      /\ \A x \in calls : x \in Call /\ Sent(x) /\ Follows(x, page) /\ Restoring(x, page.branch)
  BY AwaitedCall DEF PInv, PageTypeOK, StoredTyped, Page, Restored, Reloaded, Started, Applied, Comes,
     RestoreFails, ReloadFails, StartFails, ApplyFails, Fails
<1>2. c.branch \in Branches /\ c.applied \in BOOLEAN /\ (c.seen # "waiting" => Snapshot(c) \in Shown)
  BY AwaitedCall
<1>3. CASE Restored(c)
  <2> DEFINE q == [page EXCEPT !.shown = Snapshot(c), !.applied = c.applied]
  <2>1. q \in Page /\ q.branch = page.branch
    BY <1>1, <1>2, <1>3 DEF Page, Restored, Comes
  <2>2. Here(c, q, calls \ {c}) /\ StoredTyped'
    BY <1>1, <1>3 DEF Restored, StoredTyped
  <2> HIDE DEF q
  <2> QED BY <1>1, <2>1, <2>2, HereKeeps
<1>4. CASE Reloaded(c)
  <2> DEFINE q == IF OfBranch(c) THEN [page EXCEPT !.shown = Snapshot(c)] ELSE page
  <2>1. q \in Page /\ q.branch = page.branch
    BY <1>1, <1>2, <1>4, PageChanges DEF Reloaded, Comes
  <2>2. Render(q, calls \ {c}) /\ StoredTyped'
    BY <1>1, <1>4 DEF Reloaded, StoredTyped
  <2> HIDE DEF q
  <2> QED BY <1>1, <2>1, <2>2, HandlerKeeps
<1>5. CASE Started(c)
  <2> DEFINE q == [page EXCEPT !.shown = Snapshot(c), !.starting = FALSE]
  <2>1. q \in Page /\ q.branch = page.branch
    BY <1>1, <1>2, <1>5 DEF Page, Started, Comes
  <2>2. c.job \in JobsOf(c.branch) /\ stored' = [stored EXCEPT ![c.branch] = [job |-> c.job, applied |-> FALSE]]
    BY <1>1, <1>5 DEF Started, Comes, Sent, AskedFrom
  <2>3. StoredTyped'
    BY <1>1, <1>2, <2>2, Store
  <2>4. Here(c, q, calls \ {c})
    BY <1>5 DEF Started
  <2> HIDE DEF q
  <2> QED BY <1>1, <2>1, <2>3, <2>4, HereKeeps
<1>6. CASE Applied(c)
  <2> DEFINE q == [page EXCEPT !.applied = TRUE, !.applying = FALSE]
  <2>1. q \in Page /\ q.branch = page.branch
    BY <1>1 DEF Page
  <2>2. c.job \in JobsOf(c.branch) /\ stored' = [stored EXCEPT ![c.branch] = [job |-> c.job, applied |-> TRUE]]
    BY <1>1, <1>6 DEF Applied, Comes, Sent, AskedFrom
  <2>3. StoredTyped'
    BY <1>1, <1>2, <2>2, Store
  <2>4. Here(c, q, calls \ {c})
    BY <1>6 DEF Applied
  <2> HIDE DEF q
  <2> QED BY <1>1, <2>1, <2>3, <2>4, HereKeeps
<1>7. CASE RestoreFails(c)
  <2> DEFINE q == [page EXCEPT !.shown = Nothing, !.applied = FALSE]
  <2>1. q \in Page /\ q.branch = page.branch
    BY <1>1, NothingShown DEF Page
  <2>2. StoredTyped'
    BY <1>1, <1>2, <1>7, Store DEF RestoreFails, NothingSaved
  <2>3. Here(c, q, calls \ {c})
    BY <1>7 DEF RestoreFails
  <2> HIDE DEF q
  <2> QED BY <1>1, <2>1, <2>2, <2>3, HereKeeps
<1>8. CASE ReloadFails(c)
  <2>1. Render(page, calls \ {c}) /\ StoredTyped'
    BY <1>1, <1>8 DEF ReloadFails, StoredTyped
  <2> QED BY <1>1, <2>1, HandlerKeeps
<1>9. CASE StartFails(c) \/ ApplyFails(c)
  <2> DEFINE q(x) == [page EXCEPT !.starting = x]
             r(x) == [page EXCEPT !.applying = x]
  <2>1. /\ q(FALSE) \in Page /\ q(FALSE).branch = page.branch
        /\ r(FALSE) \in Page /\ r(FALSE).branch = page.branch
    BY <1>1, PageChanges
  <2>2. (Here(c, q(FALSE), calls \ {c}) \/ Here(c, r(FALSE), calls \ {c})) /\ StoredTyped'
    BY <1>1, <1>9 DEF StartFails, ApplyFails, StoredTyped
  <2> HIDE DEF q, r
  <2> QED BY <1>1, <2>1, <2>2, HereKeeps
<1> QED BY <1>3, <1>4, <1>5, <1>6, <1>7, <1>8, <1>9

LEMMA PInvInit ==
  ASSUME PageInit
  PROVE  PInv
<1>1. page \in Page
  BY OpenedPage DEF PageInit
<1>2. StoredTyped /\ status \in [Jobs -> Status] /\ calls = {}
  BY DEF PageInit, StoredTyped, NothingSaved, Stored, Status
<1> QED BY <1>1, <1>2, BoundsAssumption DEF PageInit, PInv, PageTypeOK, StoredTyped, Awaited

LEMMA PInvNext ==
  ASSUME PInv, [PageNext]_pageVars
  PROVE  PInv'
<1>1. CASE UNCHANGED pageVars
  BY <1>1 DEF pageVars, budget, PInv, PageTypeOK, Awaited
<1>2. CASE PageNext
  BY <1>2, ChangeBranchKeeps, MountKeeps, UserKeeps, BackendKeeps, PollsKeep, AnswersKeep DEF PageNext
<1> QED BY <1>1, <1>2

LEMMA PageInvariant == PageSpec => []PInv
BY PInvInit, PInvNext, PTL DEF PageSpec

(* What is stored for a branch is a job of that branch, and the page and    *)
(* its calls have their types.                                              *)
THEOREM PageTypeCorrect == PageSpec => []PageTypeOK
BY PageInvariant, PTL DEF PInv

-----------------------------------------------------------------------------
(* What comes onto the page.                                               *)

LEMMA HereShows ==
  ASSUME PInv, NEW c \in calls, NEW q \in Page, Here(c, q, calls \ {c})
  PROVE  /\ page'.shown = page.shown \/ (page'.shown = q.shown /\ page'.branch = q.branch)
         /\ c.kind # "poll" => c \notin calls'
         /\ page'.shown # page.shown => ~ c.gone
<1>1. calls \ {c} \subseteq Call /\ page \in Page
  BY DEF PInv, PageTypeOK
<1>2. CASE c.gone
  <2>1. page' = page /\ calls' = calls \ {c}
    BY <1>2 DEF Here
  <2>2. page'.shown = page.shown
    BY <2>1
  <2>3. c \notin calls'
    BY <2>1
  <2> QED BY <2>2, <2>3
<1>3. CASE ~ c.gone
  <2>1. Render(q, calls \ {c})
    BY <1>3 DEF Here
  <2>2. page'.shown = q.shown /\ page'.branch = q.branch
    BY <1>1, <2>1 DEF Render, Page
  <2>3. \A d \in calls' : d \in calls \ {c} \/ d.kind = "poll"
    BY <2>1 DEF Render, NewCall
  <2> QED BY <1>3, <2>2, <2>3
<1> QED BY <1>2, <1>3

(* A step shows nothing new, nothing at all, a job of the branch, or the    *)
(* answer of a start.                                                       *)
ShowsOwn ==
  page'.shown # page.shown /\ page'.shown.job # NoJob
    => IsOwn(page') \/ \E c \in calls : c.kind = "start" /\ c \notin calls'

LEMMA RenderShows ==
  ASSUME PInv, NEW q \in Page, NEW cs, Render(q, cs)
  PROVE  page'.shown = q.shown /\ page'.branch = q.branch
BY DEF Render, Page

LEMMA StepShowsOwn ==
  ASSUME PInv, [PageNext]_pageVars
  PROVE  ShowsOwn
<1>1. page \in Page /\ page.shown \in Shown /\ page.branch \in Branches
  BY DEF PInv, PageTypeOK, Page
<1>2. ASSUME NEW q \in Page, NEW cs, Render(q, cs),
             q.shown = page.shown \/ q.shown.job = NoJob \/ IsOwn(q)
      PROVE  ShowsOwn
  BY <1>2, RenderShows DEF ShowsOwn, IsOwn
<1>3. CASE page'.shown = page.shown \/ page'.shown = Nothing
  BY <1>3, NothingShown DEF ShowsOwn
<1>4. ASSUME NEW b \in Branches, ChangeBranch(b)
      PROVE  ShowsOwn
  <2> DEFINE q == [page EXCEPT !.branch = b, !.shown = Nothing, !.applied = FALSE]
  <2>1. q \in Page /\ q.shown = Nothing
    BY <1>1, NothingShown DEF Page
  <2>2. Render(q, (calls \ VoidRestores) \cup Restores(b))
    BY <1>4 DEF ChangeBranch
  <2> HIDE DEF q
  <2> QED BY <1>2, <2>1, <2>2, NothingShown
<1>5. ASSUME NEW b \in Branches, Mount(b)
      PROVE  ShowsOwn
  BY <1>3, <1>5, OpenedPage DEF Mount
<1>6. CASE StartOptimization \/ ApplyOptimization \/ ClearOptimization \/ Reload
  <2>1. /\ [page EXCEPT !.starting = TRUE, !.applied = FALSE] \in Page
        /\ [page EXCEPT !.starting = TRUE, !.applied = FALSE].shown = page.shown
    BY <1>1 DEF Page
  <2>2. [page EXCEPT !.applying = TRUE] \in Page /\ [page EXCEPT !.applying = TRUE].shown = page.shown
    BY <1>1 DEF Page
  <2>3. /\ [page EXCEPT !.shown = Nothing, !.applied = FALSE] \in Page
        /\ [page EXCEPT !.shown = Nothing, !.applied = FALSE].shown = Nothing
    BY <1>1, NothingShown DEF Page
  <2> QED BY <1>3, <1>6, <2>1, <2>2, <2>3, RenderShows
          DEF StartOptimization, ApplyOptimization, ClearOptimization, Reload
<1>7. CASE \/ UNCHANGED pageVars \/ \E j \in Jobs : Settle(j)
           \/ \E c \in calls : AnswerRead(c) \/ AnswerStart(c) \/ AnswerApply(c)
  BY <1>3, <1>7 DEF pageVars, Settle, AnswerRead, AnswerStart, AnswerApply, Answered
<1>8. ASSUME NEW c \in calls,
             \/ Restored(c) \/ PollAnswered(c) \/ Reloaded(c) \/ Started(c) \/ Applied(c)
             \/ RestoreFails(c) \/ PollFails(c) \/ ReloadFails(c) \/ StartFails(c) \/ ApplyFails(c)
      PROVE  ShowsOwn
  <2>1. /\ c.applied \in BOOLEAN /\ Sent(c) /\ Follows(c, page) /\ Restoring(c, page.branch)
        /\ c.seen # "waiting" => Snapshot(c) \in Shown
        /\ Snapshot(c).job = c.job
    BY AwaitedCall DEF Snapshot
  <2>2. CASE Restored(c)
    <3> DEFINE q == [page EXCEPT !.shown = Snapshot(c), !.applied = c.applied]
    <3>1. q \in Page /\ q.branch = page.branch /\ q.shown = Snapshot(c)
      BY <1>1, <2>1, <2>2 DEF Page, Restored, Comes
    <3>2. Here(c, q, calls \ {c})
      BY <2>2 DEF Restored
    <3>3. c.gone \/ BranchOf[c.job] = page.branch
      BY <2>1, <2>2 DEF Restored, Comes, Sent, Restoring, JobsOf
    <3> HIDE DEF q
    <3> QED BY <2>1, <3>1, <3>2, <3>3, HereShows DEF ShowsOwn, IsOwn
  <2>3. CASE Started(c)
    <3> DEFINE q == [page EXCEPT !.shown = Snapshot(c), !.starting = FALSE]
    <3>1. q \in Page /\ c.kind = "start"
      BY <1>1, <2>1, <2>3 DEF Page, Started, Comes
    <3>2. Here(c, q, calls \ {c})
      BY <2>3 DEF Started
    <3> HIDE DEF q
    <3> QED BY <3>1, <3>2, HereShows DEF ShowsOwn
  <2>4. CASE Applied(c) \/ StartFails(c) \/ ApplyFails(c)
    <3>1. PICK q \in Page : Here(c, q, calls \ {c}) /\ q.shown = page.shown
      <4>1. /\ [page EXCEPT !.applied = TRUE, !.applying = FALSE] \in Page
            /\ [page EXCEPT !.applied = TRUE, !.applying = FALSE].shown = page.shown
        BY <1>1 DEF Page
      <4>2. [page EXCEPT !.starting = FALSE] \in Page /\ [page EXCEPT !.starting = FALSE].shown = page.shown
        BY <1>1 DEF Page
      <4>3. [page EXCEPT !.applying = FALSE] \in Page /\ [page EXCEPT !.applying = FALSE].shown = page.shown
        BY <1>1 DEF Page
      <4> QED BY <2>4, <4>1, <4>2, <4>3 DEF Applied, StartFails, ApplyFails
    <3> QED BY <1>3, <3>1, HereShows
  <2>5. CASE RestoreFails(c)
    <3> DEFINE q == [page EXCEPT !.shown = Nothing, !.applied = FALSE]
    <3>1. q \in Page /\ q.shown = Nothing
      BY <1>1, NothingShown DEF Page
    <3>2. Here(c, q, calls \ {c})
      BY <2>5 DEF RestoreFails
    <3> HIDE DEF q
    <3> QED BY <1>3, <3>1, <3>2, HereShows
  <2>6. CASE PollAnswered(c)
    <3> DEFINE q == [page EXCEPT !.shown = Snapshot(c)]
               e == [q EXCEPT !.starting = FALSE]
    <3>1. q \in Page /\ q.branch = page.branch /\ q.shown = Snapshot(c)
      BY <1>1, <2>1, <2>6 DEF Page, PollAnswered, Comes
    <3>2. e \in Page /\ e.branch = page.branch /\ e.shown = Snapshot(c)
      <4> HIDE DEF q
      <4> QED BY <3>1 DEF Page
    <3>3. PICK cs : Render(q, cs) \/ Render(e, cs)
      BY <2>6 DEF PollAnswered
    <3>4. (IsOwn(q) /\ IsOwn(e)) \/ Snapshot(c).job = NoJob
      BY <2>1, <2>6, <3>1, <3>2 DEF PollAnswered, Comes, Sent, Follows, JobsOf, IsOwn
    <3> HIDE DEF q, e
    <3> QED BY <1>2, <3>1, <3>2, <3>3, <3>4
  <2>7. CASE Reloaded(c)
    <3> DEFINE q == [page EXCEPT !.shown = Snapshot(c)]
    <3>1. q \in Page /\ q.branch = page.branch /\ q.shown = Snapshot(c)
      BY <1>1, <2>1, <2>7 DEF Page, Reloaded, Comes
    <3>2. \/ Render(page, calls \ {c})
          \/ Render(q, calls \ {c}) /\ (IsOwn(q) \/ q.shown.job = NoJob)
      BY <2>1, <2>7, <3>1 DEF Reloaded, Comes, OfBranch, Follows, IsOwn
    <3> HIDE DEF q
    <3> QED BY <1>1, <1>2, <3>1, <3>2
  <2>8. CASE PollFails(c) \/ ReloadFails(c)
    <3>1. \E cs : Render(page, cs)
      BY <2>8 DEF PollFails, ReloadFails
    <3> QED BY <1>1, <1>2, <3>1
  <2> QED BY <1>8, <2>2, <2>3, <2>4, <2>5, <2>6, <2>7, <2>8
<1> QED BY <1>4, <1>5, <1>6, <1>7, <1>8 DEF PageNext

(* However late its answers come, no restore, poll or reload brings a job   *)
(* of another branch onto the page.                                         *)
THEOREM ReadsShowOwn == PageSpec => ReadsShowOwnBranch
<1>1. PInv /\ [PageNext]_pageVars
        => [page'.shown # page.shown /\ page'.shown.job # NoJob
              => IsOwn(page') \/ \E c \in calls : c.kind = "start" /\ c \notin calls']_pageVars
  BY StepShowsOwn DEF ShowsOwn
<1> QED BY <1>1, PageInvariant, PTL DEF PageSpec, ReadsShowOwnBranch
================================================================================
