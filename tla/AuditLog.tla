------------------------------- MODULE AuditLog -------------------------------
(***************************************************************************)
(* What the tamper-evident audit log of RedactGate promises, independently  *)
(* of transactions, locks and row ids: every team owns one log, a log only  *)
(* ever grows, and it grows by one event at a time.  AuditChain implements  *)
(* this specification (app/audit.py), and Gateway relies on it for the audit *)
(* log that the proxy routes write to.                                      *)
(***************************************************************************)
EXTENDS Sequences

CONSTANTS
    Teams,     \* tenants: each has its own chain
    Payloads   \* the business fields an event commits to, as opaque values

VARIABLE log   \* log[t]: the events of team t, oldest first

Init == log = [t \in Teams |-> << >>]

\* One event of team t becomes part of the log.
AppendEvent(t, p) == log' = [log EXCEPT ![t] = Append(@, p)]

Next == \E t \in Teams, p \in Payloads : AppendEvent(t, p)

Spec == Init /\ [][Next]_log
===============================================================================
