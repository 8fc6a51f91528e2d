-------------------------- MODULE AuditedMutation --------------------------
(***************************************************************************)
(* What the order use cases promise, with none of their steps: a request   *)
(* takes effect at the broker at most once; its caller is told "ok" only   *)
(* if it did; the audit trail holds it only if it did, for ever, and its   *)
(* row is written before the caller is answered or not at all.  A caller   *)
(* told "error" has no audit row, but may have an effect: the answer of a  *)
(* call that worked can be lost.  One whose process died may have either:  *)
(* the row is stored before the answer is given.                           *)
(***************************************************************************)

CONSTANT Reqs

VARIABLES effect,    \* requests the broker has applied
          recorded,  \* requests the audit trail holds
          verdict    \* what became of each request

vars == <<effect, recorded, verdict>>

Verdicts == {"open", "ok", "error", "gone"}

Init ==
  /\ effect = {}
  /\ recorded = {}
  /\ verdict = [r \in Reqs |-> "open"]

\* The broker applies a request; its process may be dead, or have given up.
Apply(r) ==
  /\ r \notin effect
  /\ verdict[r] # "ok"
  /\ effect' = effect \cup {r}
  /\ UNCHANGED <<recorded, verdict>>

\* The audit row is stored while the request is still open.
Record(r) ==
  /\ verdict[r] = "open"
  /\ r \in effect \ recorded
  /\ recorded' = recorded \cup {r}
  /\ UNCHANGED <<effect, verdict>>

\* The caller is told "ok", whether the store kept the row or lost it.
Succeed(r) ==
  /\ verdict[r] = "open"
  /\ r \in effect
  /\ verdict' = [verdict EXCEPT ![r] = "ok"]
  /\ UNCHANGED <<effect, recorded>>

\* The caller is told an error, which no audit row contradicts.
Fail(r) ==
  /\ verdict[r] = "open"
  /\ r \notin recorded
  /\ verdict' = [verdict EXCEPT ![r] = "error"]
  /\ UNCHANGED <<effect, recorded>>

\* A crash abandons some of the open requests and nothing else.
Crash ==
  \E S \in SUBSET {r \in Reqs : verdict[r] = "open"} :
    /\ verdict' = [r \in Reqs |-> IF r \in S THEN "gone" ELSE verdict[r]]
    /\ UNCHANGED <<effect, recorded>>

Next ==
  \/ Crash
  \/ \E r \in Reqs : Apply(r) \/ Record(r) \/ Succeed(r) \/ Fail(r)

Spec == Init /\ [][Next]_vars

=============================================================================
