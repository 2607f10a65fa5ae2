-------------------------- MODULE ApprovalLifecycle --------------------------
(***************************************************************************)
(* What the human-in-the-loop approvals promise, whatever the interleaving *)
(* of the gate, the approve requests, the sweeper and crashes: an approval *)
(* is opened once, receives at most one verdict, and an approval that is   *)
(* open does not stay open for ever.  HitlApproval implements this module. *)
(***************************************************************************)

CONSTANT Approvals      \* the approval ids the system may ever create

VARIABLE verdict        \* verdict[a]: "none", "open", or how a was decided

Verdicts == {"approve", "deny", "timeout"}

LifecycleInit == verdict = [a \in Approvals |-> "none"]

(* The hitl_gate node records a new approval. *)
Open(a) ==
    /\ verdict[a] = "none"
    /\ verdict' = [verdict EXCEPT ![a] = "open"]

(* A user's decision; a user may also declare a time-out. *)
Decide(a) ==
    /\ verdict[a] = "open"
    /\ \E v \in Verdicts : verdict' = [verdict EXCEPT ![a] = v]

(* One sweep may time out several approvals at once. *)
TimeOut(S) ==
    /\ S # {}
    /\ \A a \in S : verdict[a] = "open"
    /\ verdict' = [a \in Approvals |-> IF a \in S THEN "timeout" ELSE verdict[a]]

LifecycleNext ==
    \/ \E a \in Approvals : Open(a) \/ Decide(a)
    \/ \E S \in SUBSET Approvals : TimeOut(S)

(* Safety alone: this is what HitlApprovalProofs shows to be implemented. *)
LifecycleSafety == LifecycleInit /\ [][LifecycleNext]_verdict

(* Safety and the promise that no approval is left open. *)
LifecycleSpec ==
    /\ LifecycleSafety
    /\ \A a \in Approvals : WF_verdict(Decide(a) \/ \E S \in SUBSET Approvals : a \in S /\ TimeOut(S))

=============================================================================
