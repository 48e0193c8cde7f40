------------------------------ MODULE ErasePVC ------------------------------
(***************************************************************************)
(* The `gofabric8 erase-pvc' command (src/cmds/erase_pvc.go, erasePVC)     *)
(* run against a namespace whose pods are kept alive by controllers.       *)
(*                                                                         *)
(* The command is one sequential program:                                  *)
(*   Discover  list the pods whose volume is named like the claim          *)
(*   Expand    for each of them (one pass over the original list) read its *)
(*             "service" label and append every pod carrying that label    *)
(*   Export    kubectl get pvc -o yaml, sanitise, write the temp file      *)
(*   Delete    kubectl delete pvc                                          *)
(*   Create    kubectl create -f tempfile                                  *)
(*   Evict     kubectl delete pod, for every entry of the list, in order   *)
(* Every failed call ends the process (util.Fatal / cmdutil.CheckErr).     *)
(*                                                                         *)
(* The cluster runs beside it: the kubelet finishes terminating a deleted  *)
(* pod, and the pod's controller starts a replacement under a fresh name   *)
(* as soon as fewer than its replica count of pods are running.            *)
(***************************************************************************)
EXTENDS Naturals, FiniteSets, Sequences

CONSTANTS
    Pods,         \* every pod name the namespace may ever use
    Controllers,  \* the controllers (ReplicaSets, ...) owning the pods
    Services,     \* values of the "service" label
    NoService,    \* the empty label value ""
    Owner,        \* Owner[p]: the controller that created pod p
    Mounts,       \* the controllers whose pod template has a volume named like the claim
    Label,        \* Label[c]: the "service" label of controller c's pods
    Replicas,     \* Replicas[c]: the replica count of controller c
    Faults,       \* TRUE when a cluster call may fail (network, API errors)
    Busy,         \* TRUE when pods may still be terminating when the command starts
    SplitNS       \* TRUE when -n names a namespace other than the context's (userNS # ns)

ASSUME ConstantsAssumption ==
    /\ IsFiniteSet(Pods)
    /\ NoService \notin Services
    /\ Owner \in [Pods -> Controllers]
    /\ Mounts \subseteq Controllers
    /\ Label \in [Controllers -> Services \cup {NoService}]
    /\ Replicas \in [Controllers -> Nat]
    /\ Faults \in BOOLEAN
    /\ Busy \in BOOLEAN
    /\ SplitNS \in BOOLEAN

VARIABLES
    phase,      \* phase[p]: "Unborn" (name not used yet), "Running", "Terminating", "Gone"
    predates,   \* predates[p]: pod p was started while the old claim still existed
    claim,      \* the claim: "Old" (the one found), "Absent", "New" (recreated)
    pc,         \* the step erasePVC is about to run, or "Done" / "Failed"
    attached,   \* the attachedpods slice, duplicates included
    rangeLen,   \* len(attachedpods) when the range loop of line 114 started
    idx,        \* index of the loop (line 114 or line 178) in progress
    err         \* why the command died: "None", "Fault", "PodNotFound"

vars == <<phase, predates, claim, pc, attached, rangeLen, idx, err>>

PodPhases == {"Unborn", "Running", "Terminating", "Gone"}
Steps == {"Discover", "Expand", "Export", "Delete", "Create", "Evict", "Done", "Failed"}
Errors == {"None", "Fault", "PodNotFound"}

-----------------------------------------------------------------------------
(* Cluster views.                                                          *)

\* A pod the API server still returns: a terminating pod is listed until
\* the kubelet has finished with it.
Listed(p) == phase[p] \in {"Running", "Terminating"}

\* The pod's volume is named like the claim (volume.Name == findVolume).
MountsClaim(p) == Owner[p] \in Mounts

\* The possible orders of a pod listing of the set S: every pod of S once.
Listings(S) ==
    {l \in [1..Cardinality(S) -> S] : \A p \in S : \E i \in 1..Cardinality(S) : l[i] = p}

\* findPodsAttachedtoPVC: the listed pods with a volume named like the claim.
AttachedToPVC == {p \in Pods : Listed(p) /\ MountsClaim(p)}

\* getLabelValueOfPod(c, ns, pod) reads the pod in the context namespace ns,
\* while the pods were listed in userNS; when the two differ, ns holds no pod
\* of that name (pod names carry their controller's random suffix).
InContextNamespace(p) == Listed(p) /\ ~SplitNS

\* getPodsDependOfService: the listed pods whose "service" label is s.
PodsDependOfService(s) == {p \in Pods : Listed(p) /\ Label[Owner[p]] = s}

-----------------------------------------------------------------------------
(* The command's steps.                                                    *)

\* A cluster call that fails: cmdutil.CheckErr / util.Fatal exit the process.
Die(e) ==
    /\ pc' = "Failed"
    /\ err' = e
    /\ UNCHANGED <<phase, predates, claim, attached, rangeLen, idx>>

CallFails == Faults /\ Die("Fault")

\* Mutant: the loop index starts at 0, as a Go slice index would.
DiscoverZeroBased ==
    /\ pc = "Discover"
    /\ \E l \in Listings(AttachedToPVC) :
         /\ attached' = l
         /\ rangeLen' = Len(l)
         /\ idx' = 0
         /\ pc' = IF Len(l) = 0 THEN "Export" ELSE "Expand"
         /\ UNCHANGED <<phase, predates, claim, err>>

\* Lines 91-112: client setup, namespace detection, findPodsAttachedtoPVC.
Discover ==
    /\ pc = "Discover"
    /\ \/ CallFails
       \/ \E l \in Listings(AttachedToPVC) :
            /\ attached' = l
            /\ rangeLen' = Len(l)
            /\ idx' = 1
            /\ pc' = IF Len(l) = 0 THEN "Export" ELSE "Expand"
            /\ UNCHANGED <<phase, predates, claim, err>>

\* Mutant: the pods of the service are looked up but never appended.
ExpandNoAppend ==
    /\ pc = "Expand"
    /\ \/ CallFails
       \/ /\ ~InContextNamespace(attached[idx])
          /\ Die("PodNotFound")
       \/ /\ InContextNamespace(attached[idx])
          /\ idx' = idx + 1
          /\ pc' = IF idx = rangeLen THEN "Export" ELSE "Expand"
          /\ UNCHANGED <<phase, predates, claim, attached, rangeLen, err>>

\* Lines 114-124, one iteration: getLabelValueOfPod in ns, then, for a
\* non-empty label, getPodsDependOfService in ns and the appends.  The range expression was
\* evaluated once, so the loop stops after rangeLen entries.
Expand ==
    /\ pc = "Expand"
    /\ LET pod == attached[idx]
           s   == Label[Owner[pod]]
           next == IF idx = rangeLen THEN "Export" ELSE "Expand"
       IN \/ CallFails
          \/ /\ ~InContextNamespace(pod)
             /\ Die("PodNotFound")
          \/ /\ InContextNamespace(pod)
             /\ s = NoService
             /\ idx' = idx + 1
             /\ pc' = next
             /\ UNCHANGED <<phase, predates, claim, attached, rangeLen, err>>
          \/ /\ InContextNamespace(pod)
             /\ s # NoService
             /\ \E l \in Listings(PodsDependOfService(s)) :
                  attached' = attached \o l
             /\ idx' = idx + 1
             /\ pc' = next
             /\ UNCHANGED <<phase, predates, claim, rangeLen, err>>

\* Lines 126-164: kubectl get pvc -o yaml, the sanitising scan, the temp
\* file.  The claim exists until the command deletes it.
Export ==
    /\ pc = "Export"
    /\ \/ CallFails
       \/ /\ pc' = "Delete"
          /\ UNCHANGED <<phase, predates, claim, attached, rangeLen, idx, err>>

\* Lines 166-170: kubectl delete pvc.
Delete ==
    /\ pc = "Delete"
    /\ \/ CallFails
       \/ /\ claim' = "Absent"
          /\ pc' = "Create"
          /\ UNCHANGED <<phase, predates, attached, rangeLen, idx, err>>

\* Mutant: the error of kubectl create is not checked.
CreateIgnoringError ==
    /\ pc = "Create"
    /\ \/ Faults /\ UNCHANGED claim
       \/ claim' = "New"
    /\ pc' = "Evict"
    /\ idx' = 1
    /\ UNCHANGED <<phase, predates, attached, rangeLen, err>>

\* Lines 172-176: kubectl create -f tempfile.  A failure here leaves the
\* claim deleted.
Create ==
    /\ pc = "Create"
    /\ \/ CallFails
       \/ /\ claim' = "New"
          /\ pc' = "Evict"
          /\ idx' = 1
          /\ UNCHANGED <<phase, predates, attached, rangeLen, err>>

\* Lines 178-185, one iteration: kubectl delete pod.  Deleting a pod that
\* is already terminating succeeds; one the kubelet has finished with is
\* NotFound, and the command dies.
Evict ==
    /\ pc = "Evict"
    /\ idx <= Len(attached)
    /\ LET pod == attached[idx] IN
       \/ CallFails
       \/ /\ ~Listed(pod)
          /\ Die("PodNotFound")
       \/ /\ Listed(pod)
          /\ phase' = [phase EXCEPT ![pod] = "Terminating"]
          /\ idx' = idx + 1
          /\ UNCHANGED <<predates, claim, pc, attached, rangeLen, err>>

\* Mutant: the eviction loop stops one entry early.
FinishEarly ==
    /\ pc = "Evict"
    /\ idx >= Len(attached)
    /\ pc' = "Done"
    /\ UNCHANGED <<phase, predates, claim, attached, rangeLen, idx, err>>

\* Lines 187-190: the loop is over, success is reported, the file removed.
Finish ==
    /\ pc = "Evict"
    /\ idx > Len(attached)
    /\ pc' = "Done"
    /\ UNCHANGED <<phase, predates, claim, attached, rangeLen, idx, err>>

-----------------------------------------------------------------------------
(* The cluster.                                                            *)

\* The kubelet finishes terminating pod p; it disappears from the API.
Kubelet(p) ==
    /\ phase[p] = "Terminating"
    /\ phase' = [phase EXCEPT ![p] = "Gone"]
    /\ UNCHANGED <<predates, claim, pc, attached, rangeLen, idx, err>>

\* Controller c runs fewer than its replica count of pods (a terminating
\* pod no longer counts) and starts pod q from its template.  While the
\* claim is absent the new pod waits for, and then mounts, the new claim.
RunningOf(c) == {p \in Pods : Owner[p] = c /\ phase[p] = "Running"}

Controller(c, q) ==
    /\ Cardinality(RunningOf(c)) < Replicas[c]
    /\ Owner[q] = c
    /\ phase[q] = "Unborn"
    /\ phase' = [phase EXCEPT ![q] = "Running"]
    /\ predates' = [predates EXCEPT ![q] = (claim = "Old")]
    /\ UNCHANGED <<claim, pc, attached, rangeLen, idx, err>>

-----------------------------------------------------------------------------

\* When the command starts every controller runs its replica count of pods,
\* all on the old claim; in a busy namespace pods deleted earlier (a rollout,
\* an earlier erase-pvc) may still be terminating.
StartPhases == IF Busy THEN {"Unborn", "Running", "Terminating"} ELSE {"Unborn", "Running"}

Init ==
    /\ phase \in {f \in [Pods -> StartPhases] :
                    \A c \in Controllers :
                      Cardinality({p \in Pods : Owner[p] = c /\ f[p] = "Running"})
                        = Replicas[c]}
    /\ predates = [p \in Pods |-> TRUE]
    /\ claim = "Old"
    /\ pc = "Discover"
    /\ attached = <<>>
    /\ rangeLen = 0
    /\ idx = 1
    /\ err = "None"

\* The process has exited; the cluster goes on.
Exited == pc \in {"Done", "Failed"} /\ UNCHANGED vars

Command == Discover \/ Expand \/ Export \/ Delete \/ Create \/ Evict \/ Finish

Cluster ==
    \/ \E p \in Pods : Kubelet(p)
    \/ \E c \in Controllers, q \in Pods : Controller(c, q)

Next == Command \/ Cluster \/ Exited

\* Every call of the command returns; the kubelet and the controllers keep
\* reconciling.
Fairness ==
    /\ WF_vars(Command)
    /\ \A p \in Pods : WF_vars(Kubelet(p))
    /\ \A c \in Controllers : WF_vars(\E q \in Pods : Controller(c, q))

Spec == Init /\ [][Next]_vars /\ Fairness

-----------------------------------------------------------------------------
(* Properties.                                                             *)

TypeOK ==
    /\ phase \in [Pods -> PodPhases]
    /\ predates \in [Pods -> BOOLEAN]
    /\ claim \in {"Old", "Absent", "New"}
    /\ pc \in Steps
    /\ attached \in Seq(Pods)
    /\ rangeLen \in Nat
    /\ idx \in Nat \ {0}
    /\ err \in Errors

\* The controllers whose pods the command means to restart: those whose
\* template mounts the claim, and those sharing a "service" label with one
\* that runs pods.
Affected == {c \in Controllers :
               \/ c \in Mounts
               \/ \E m \in Mounts : /\ Replicas[m] > 0
                                  /\ Label[m] # NoService
                                  /\ Label[c] = Label[m]}

\* When erase-pvc reports success (line 187), no running pod of a controller
\* it meant to restart is still one that was started on the old claim:
\* every such pod was found, recreation happened before the evictions, and
\* every entry of the list was evicted.
StaleMountFree ==
    pc = "Done" =>
      \A p \in Pods : (phase[p] = "Running" /\ Owner[p] \in Affected) => ~predates[p]

\* Once erase-pvc has reported success, the claim exists again and every
\* affected controller eventually runs its full replica count again, all of
\* the pods on the new claim.
Recovered ==
    /\ claim = "New"
    /\ \A c \in Affected :
         /\ Cardinality(RunningOf(c)) = Replicas[c]
         /\ \A p \in RunningOf(c) : ~predates[p]

RecoveredAfterSuccess == (pc = "Done") ~> Recovered

\* In a quiet namespace and with no failing cluster call, the command only
\* dies from a call that failed: spec.md §8 expects the pod set {app-1, app-2}
\* to be evicted and both pods deleted, and says a pod is recorded once.
OnlyFaultsKill == pc = "Failed" => err = "Fault"

-----------------------------------------------------------------------------
(* The abstract workflow of EraseWorkflow, and the refinement mapping: the  *)
(* pods and the claim are shared, the command's step is seen only as       *)
(* running, done or failed.                                                *)

Outcome == CASE pc = "Done"   -> "Done"
             [] pc = "Failed" -> "Failed"
             [] OTHER         -> "Running"

Workflow == INSTANCE EraseWorkflow WITH Restarted <- Affected, outcome <- Outcome

\* erasePVC implements the workflow it promises: it deletes the claim before
\* it creates it again, deletes pods (lines 178-185) only once the new claim
\* exists, and reports success (line 187) only when no pod of an affected
\* controller still runs on the old claim; every other step of the command
\* (listing, label expansion, export) changes nothing the workflow sees.
ImplementsWorkflow == Workflow!Spec

=============================================================================
