---------------------------- MODULE EraseWorkflow ----------------------------
(***************************************************************************)
(* What erase-pvc promises, with the command's bookkeeping (the pod list,  *)
(* the loop indices, the temporary manifest) left out.  The claim is       *)
(* deleted, then recreated; only once the new claim exists are pods        *)
(* deleted so that their controllers restart them on it; success is        *)
(* reported only when no pod of a controller to be restarted still runs   *)
(* on the old claim.  The command may give up at any point, leaving the    *)
(* claim wherever it got to.  The cluster (kubelet and controllers) is the *)
(* same as the detailed model's.                                           *)
(***************************************************************************)
EXTENDS Naturals, FiniteSets

CONSTANTS
    Pods,         \* every pod name the namespace may ever use
    Controllers,  \* the controllers owning the pods
    Owner,        \* Owner[p]: the controller of pod p
    Replicas,     \* Replicas[c]: the replica count of controller c
    Restarted     \* the controllers whose pods must end up on the new claim

VARIABLES
    phase,     \* phase[p]: "Unborn", "Running", "Terminating", "Gone"
    predates,  \* predates[p]: pod p was started on the old claim
    claim,     \* "Old", "Absent" or "New"
    outcome    \* "Running" (the command is at work), "Done" or "Failed"

wvars == <<phase, predates, claim, outcome>>

RunningPods(c) == {p \in Pods : Owner[p] = c /\ phase[p] = "Running"}

Init ==
    /\ phase \in {f \in [Pods -> {"Unborn", "Running", "Terminating"}] :
                    \A c \in Controllers :
                      Cardinality({p \in Pods : Owner[p] = c /\ f[p] = "Running"})
                        = Replicas[c]}
    /\ predates = [p \in Pods |-> TRUE]
    /\ claim = "Old"
    /\ outcome = "Running"

\* The claim is deleted.
EraseClaim ==
    /\ outcome = "Running"
    /\ claim = "Old"
    /\ claim' = "Absent"
    /\ UNCHANGED <<phase, predates, outcome>>

\* The claim is created again from its exported manifest.
RecreateClaim ==
    /\ outcome = "Running"
    /\ claim = "Absent"
    /\ claim' = "New"
    /\ UNCHANGED <<phase, predates, outcome>>

\* A listed pod is deleted, and only once the new claim exists.
RestartPod(p) ==
    /\ outcome = "Running"
    /\ claim = "New"
    /\ phase[p] \in {"Running", "Terminating"}
    /\ phase' = [phase EXCEPT ![p] = "Terminating"]
    /\ UNCHANGED <<predates, claim, outcome>>

\* Success, with the new claim in place and no pod of a controller to be
\* restarted still running on the old one.
Succeed ==
    /\ outcome = "Running"
    /\ claim = "New"
    /\ \A p \in Pods : (phase[p] = "Running" /\ Owner[p] \in Restarted) => ~predates[p]
    /\ outcome' = "Done"
    /\ UNCHANGED <<phase, predates, claim>>

\* The command gives up; whatever it did to the claim stays done.
GiveUp ==
    /\ outcome = "Running"
    /\ outcome' = "Failed"
    /\ UNCHANGED <<phase, predates, claim>>

\* The kubelet finishes with a terminating pod.
PodRemoved(p) ==
    /\ phase[p] = "Terminating"
    /\ phase' = [phase EXCEPT ![p] = "Gone"]
    /\ UNCHANGED <<predates, claim, outcome>>

\* A controller short of running pods starts one, on the old claim while it
\* exists.
PodStarted(c, q) ==
    /\ Cardinality(RunningPods(c)) < Replicas[c]
    /\ Owner[q] = c
    /\ phase[q] = "Unborn"
    /\ phase' = [phase EXCEPT ![q] = "Running"]
    /\ predates' = [predates EXCEPT ![q] = (claim = "Old")]
    /\ UNCHANGED <<claim, outcome>>

Next ==
    \/ EraseClaim \/ RecreateClaim \/ Succeed \/ GiveUp
    \/ \E p \in Pods : RestartPod(p) \/ PodRemoved(p)
    \/ \E c \in Controllers, q \in Pods : PodStarted(c, q)

Spec == Init /\ [][Next]_wvars

=============================================================================
