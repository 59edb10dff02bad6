----------------------------- MODULE MCLockUpdate ------------------------------
(* Two revisions that share a pin, one with more pins than the pool holds. *)
EXTENDS LockUpdate

McPins == [old |-> {"nio", "log"}, new |-> {"nio", "grpc", "tls", "yams"}]
================================================================================
