----------------------------- MODULE MCAuditChain -----------------------------
(* TLC instances of AuditChain. *)
EXTENDS AuditChain, TLC

CONSTANTS t1, t2, k1, k2

\* Each team has a lock key of its own.
OwnKeys == t1 :> k1 @@ t2 :> k2
===============================================================================
