------------------------------ MODULE AtLeastOnce ------------------------------
(***************************************************************************)
(* What the outbox promises to those who enqueue events: each of them is    *)
(* delivered at least once before it counts as published, or ends as a      *)
(* dead letter after a fixed number of failed attempts in a row.            *)
(***************************************************************************)
EXTENDS Naturals

CONSTANTS Events, MaxAttempts

VARIABLES
  status,
  copies,   \* how often the event has been delivered
  attempts  \* failed attempts since it was enqueued or revived

vars == <<status, copies, attempts>>

Init ==
  /\ status   = [e \in Events |-> "absent"]
  /\ copies   = [e \in Events |-> 0]
  /\ attempts = [e \in Events |-> 0]

Enqueue(e) ==
  /\ status[e] = "absent"
  /\ status' = [status EXCEPT ![e] = "pending"]
  /\ UNCHANGED <<copies, attempts>>

(* At least once: a late worker may deliver what is settled already.        *)
Deliver(e) ==
  /\ status[e] # "absent"
  /\ copies' = [copies EXCEPT ![e] = @ + 1]
  /\ UNCHANGED <<status, attempts>>

Confirm(e) ==
  /\ status[e] = "pending" /\ copies[e] > 0
  /\ status' = [status EXCEPT ![e] = "published"]
  /\ UNCHANGED <<copies, attempts>>

Fail(e) ==
  /\ status[e] = "pending"
  /\ attempts' = [attempts EXCEPT ![e] = @ + 1]
  /\ status' = [status EXCEPT ![e] = IF attempts'[e] >= MaxAttempts THEN "dead" ELSE @]
  /\ UNCHANGED copies

Revive(e) ==
  /\ status[e] = "dead"
  /\ status'   = [status EXCEPT ![e] = "pending"]
  /\ attempts' = [attempts EXCEPT ![e] = 0]
  /\ UNCHANGED copies

Next == \E e \in Events : Enqueue(e) \/ Deliver(e) \/ Confirm(e) \/ Fail(e) \/ Revive(e)

(* Whatever is pending is confirmed or fails, until it is settled.          *)
Spec == Init /\ [][Next]_vars /\ \A e \in Events : WF_vars(Confirm(e) \/ Fail(e))
================================================================================
