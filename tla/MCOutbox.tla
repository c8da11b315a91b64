------------------------------- MODULE MCOutbox -------------------------------
(* The instance for TLC.  Its liveness needs a worker that lives, so there  *)
(* are fewer faults than workers.                                           *)
EXTENDS Outbox

ASSUME SomeoneLives == MaxFaults < Cardinality(Workers)
===============================================================================
