---------------------------- MODULE MeteredDelivery ----------------------------
(***************************************************************************)
(* What the shared message quota promises, with neither runs, nor remote   *)
(* procedure calls, nor failures: a request id holds at most one unit of   *)
(* the tenant's quota, the unit is charged only when an assistant message  *)
(* was saved under that id, and the message reaches a caller only when its *)
(* unit is charged.  SharedQuota implements it.                            *)
(***************************************************************************)
EXTENDS Naturals, FiniteSets

CONSTANTS Rid,      \* request ids
          Capacity  \* units of quota the tenant has

VARIABLES account,   \* account[r]: where the unit of request id r stands
          saved,     \* the ids under which an assistant message was saved
          delivered  \* the ids whose message was returned to a caller

vars == <<account, saved, delivered>>

Account == {"none", "held", "charged", "refunded"}

Used == {r \in Rid : account[r] \in {"held", "charged"}}

Init ==
  /\ account = [r \in Rid |-> "none"]
  /\ saved = {}
  /\ delivered = {}

\* A unit is set aside for an id that never had one.
Hold(r) ==
  /\ account[r] = "none"
  /\ Cardinality(Used) < Capacity
  /\ account' = [account EXCEPT ![r] = "held"]
  /\ UNCHANGED <<saved, delivered>>

\* The flow saves its assistant message: once for an id, and only for an id that
\* was given a unit (the unit may have been taken back while the flow ran).
Save(r) ==
  /\ account[r] \in {"held", "refunded"}
  /\ r \notin saved
  /\ saved' = saved \cup {r}
  /\ UNCHANGED <<account, delivered>>

Charge(r) ==
  /\ account[r] = "held"
  /\ r \in saved
  /\ account' = [account EXCEPT ![r] = "charged"]
  /\ UNCHANGED <<saved, delivered>>

Refund(r) ==
  /\ account[r] = "held"
  /\ account' = [account EXCEPT ![r] = "refunded"]
  /\ UNCHANGED <<saved, delivered>>

Return(r) ==
  /\ account[r] = "charged"
  /\ r \notin delivered
  /\ delivered' = delivered \cup {r}
  /\ UNCHANGED <<account, saved>>

Next == \E r \in Rid : Hold(r) \/ Save(r) \/ Charge(r) \/ Refund(r) \/ Return(r)

Spec == Init /\ [][Next]_vars
================================================================================
