------------------------- MODULE MCCommandIdempotency -------------------------
(* Requests and payloads are interchangeable.                               *)
EXTENDS CommandIdempotency, TLC

Symmetry == Permutations(Requests) \cup Permutations(Payloads)
===============================================================================
