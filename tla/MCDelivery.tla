------------------------------ MODULE MCDelivery ------------------------------
(* Delivery for TLC: callers and payloads are interchangeable. *)
EXTENDS Delivery, TLC

Interchangeable == Permutations(Caller) \union Permutations(Payload)
=============================================================================
