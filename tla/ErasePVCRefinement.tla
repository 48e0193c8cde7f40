------------------------- MODULE ErasePVCRefinement -------------------------
(***************************************************************************)
(* Proof that the erase-pvc model implements the abstract workflow of      *)
(* EraseWorkflow under the refinement mapping of ErasePVC (Workflow): the  *)
(* initial states map to initial states, and every step of the command or  *)
(* of the cluster maps to a step of the workflow or to a stutter.  The     *)
(* steps that need more than the step itself take it from the inductive    *)
(* invariant IInv of ErasePVCProofs, in the state before and the state     *)
(* after.                                                                  *)
(***************************************************************************)
EXTENDS ErasePVCProofs

USE ConstantsAssumption

\* The inductive invariant holds in every reachable state.
LEMMA IInvAlways == Spec => []IInv
BY IInvInit, IInvStep, PTL DEF Spec

\* The workflow counts pods with the same Cardinality.
LEMMA SameCardinality ==
    ASSUME NEW S
    PROVE  Workflow!Cardinality(S) = Cardinality(S)
BY DEF Workflow!Cardinality, Cardinality

\* A step that leaves the pods and the claim alone and does not end the
\* command is invisible to the workflow; one that makes it fail is GiveUp.
LEMMA SilentOrGiveUp ==
    ASSUME pc \notin {"Done", "Failed"},
           pc' \notin {"Done"},
           UNCHANGED <<phase, predates, claim>>
    PROVE  [Workflow!Next]_Workflow!wvars
<1>1. CASE pc' = "Failed"
  BY <1>1 DEF Workflow!Next, Workflow!GiveUp, Outcome
<1>2. CASE pc' # "Failed"
  BY <1>2 DEF Workflow!wvars, Outcome
<1>3. QED
  BY <1>1, <1>2

\* One iteration of the eviction loop is RestartPod of the pod it deletes:
\* the new claim exists, and the pod is listed.
LEMMA EvictRefines ==
    ASSUME IInv, Evict
    PROVE  [Workflow!Next]_Workflow!wvars
<1>1. pc = "Evict" /\ idx <= Len(attached) /\ claim = "New"
  BY DEF Evict, IInv, ClaimFollowsSteps
<1>2. CASE CallFails \/ (~Listed(attached[idx]) /\ Die("PodNotFound"))
  BY <1>1, <1>2, SilentOrGiveUp DEF CallFails, Die
<1>3. CASE /\ Listed(attached[idx])
           /\ phase' = [phase EXCEPT ![attached[idx]] = "Terminating"]
           /\ idx' = idx + 1
           /\ UNCHANGED <<predates, claim, pc, attached, rangeLen, err>>
  <2>1. attached[idx] \in Pods
    BY <1>1, ElementOfSeq DEF IInv, TypeOK
  <2>2. Workflow!RestartPod(attached[idx])
    BY <1>1, <1>3 DEF Workflow!RestartPod, Listed, Outcome
  <2>3. QED
    BY <2>1, <2>2 DEF Workflow!Next
<1>4. QED
  BY <1>2, <1>3 DEF Evict

\* The final step is Succeed: the invariant in the state after says that no
\* stale pod runs, and the step changes no pod.
LEMMA FinishRefines ==
    ASSUME IInv, IInv', Finish
    PROVE  Workflow!Succeed
<1>1. pc = "Evict" /\ pc' = "Done" /\ claim = "New"
  BY DEF Finish, IInv, ClaimFollowsSteps
<1>2. \A p \in Pods : (phase[p] = "Running" /\ Owner[p] \in Affected) => ~predates[p]
  BY <1>1 DEF IInv, StaleMountFree, Finish
<1>3. QED
  BY <1>1, <1>2 DEF Workflow!Succeed, Finish, Outcome

\* Every step of the model is a step of the workflow or a stutter.
LEMMA RefineStep ==
    ASSUME IInv, IInv', [Next]_vars
    PROVE  [Workflow!Next]_Workflow!wvars
<1>1. CASE Discover
  BY <1>1, SilentOrGiveUp DEF Discover, CallFails, Die
<1>2. CASE Expand
  BY <1>2, SilentOrGiveUp DEF Expand, CallFails, Die
<1>3. CASE Export
  BY <1>3, SilentOrGiveUp DEF Export, CallFails, Die
<1>4. CASE Delete
  <2>1. claim = "Old"
    BY <1>4 DEF Delete, IInv, ClaimFollowsSteps
  <2>2. CASE CallFails
    BY <1>4, <2>2, SilentOrGiveUp DEF Delete, CallFails, Die
  <2>3. CASE claim' = "Absent" /\ pc' = "Create"
             /\ UNCHANGED <<phase, predates, attached, rangeLen, idx, err>>
    BY <1>4, <2>1, <2>3 DEF Delete, Workflow!Next, Workflow!EraseClaim, Outcome
  <2>4. QED
    BY <1>4, <2>2, <2>3 DEF Delete
<1>5. CASE Create
  <2>1. claim = "Absent"
    BY <1>5 DEF Create, IInv, ClaimFollowsSteps
  <2>2. CASE CallFails
    BY <1>5, <2>2, SilentOrGiveUp DEF Create, CallFails, Die
  <2>3. CASE claim' = "New" /\ pc' = "Evict" /\ idx' = 1
             /\ UNCHANGED <<phase, predates, attached, rangeLen, err>>
    BY <1>5, <2>1, <2>3 DEF Create, Workflow!Next, Workflow!RecreateClaim, Outcome
  <2>4. QED
    BY <1>5, <2>2, <2>3 DEF Create
<1>6. CASE Evict
  BY <1>6, EvictRefines
<1>7. CASE Finish
  BY <1>7, FinishRefines DEF Workflow!Next
<1>8. CASE \E p \in Pods : Kubelet(p)
  <2>1. PICK p \in Pods : Kubelet(p)
    BY <1>8
  <2>2. Workflow!PodRemoved(p)
    BY <2>1 DEF Kubelet, Workflow!PodRemoved, Outcome
  <2>3. QED
    BY <2>2 DEF Workflow!Next
<1>9. CASE \E c \in Controllers, q \in Pods : Controller(c, q)
  <2>1. PICK c \in Controllers, q \in Pods : Controller(c, q)
    BY <1>9
  <2>2. Workflow!RunningPods(c) = RunningOf(c)
    BY DEF Workflow!RunningPods, RunningOf
  <2>3. Workflow!PodStarted(c, q)
    BY <2>1, <2>2, SameCardinality DEF Controller, Workflow!PodStarted, Outcome
  <2>4. QED
    BY <2>3 DEF Workflow!Next
<1>10. CASE Exited \/ UNCHANGED vars
  BY <1>10 DEF Exited, vars, Workflow!wvars, Outcome
<1>11. QED
  BY <1>1, <1>2, <1>3, <1>4, <1>5, <1>6, <1>7, <1>8, <1>9, <1>10
     DEF Next, Command, Cluster

\* erasePVC implements the workflow it promises (ImplementsWorkflow): the
\* claim is deleted before it is created again, pods are deleted only once
\* the new claim exists, and success is reported only when no pod of an
\* affected controller still runs on the old claim, for every namespace.
THEOREM Refinement == Spec => ImplementsWorkflow
<1>1. Init => Workflow!Init
  <2> SUFFICES ASSUME Init PROVE Workflow!Init
    OBVIOUS
  <2>1. StartPhases \subseteq {"Unborn", "Running", "Terminating"}
    BY DEF StartPhases
  <2>2. phase \in [Pods -> {"Unborn", "Running", "Terminating"}]
    BY <2>1 DEF Init
  <2>3. QED
    BY <2>2, SameCardinality DEF Init, Workflow!Init, Outcome
<1>2. IInv /\ IInv' /\ [Next]_vars => [Workflow!Next]_Workflow!wvars
  BY RefineStep
<1>3. QED
  BY <1>1, <1>2, IInvAlways, PTL DEF Spec, ImplementsWorkflow, Workflow!Spec

=============================================================================
