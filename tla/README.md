# TLA+ models of gofabric8's erase-pvc and service helpers

This directory holds TLA+ specifications of the parts of `gofabric8` that have
control flow worth checking:

* the `erase-pvc` workflow (`src/cmds/erase_pvc.go`);
* its YAML sanitiser;
* the service wait and lookup helpers (`src/cmds/service.go`);
* the `uninstall` command (`src/unnamed/part_001`).

Alongside them are the TLC models that check them, and TLAPS proofs of the
main safety invariants of `erase-pvc`, `RetryAfter` and `uninstall`. `PROJECT.json` lists the components, the runs,
the mutants, the map from definitions to source lines, the findings and the
hazards.

## 1. Inventory

### The system's parts

| Part | Source | What it does |
|---|---|---|
| erase-pvc workflow | `erase_pvc.go` 91-211 | It lists the pods that mount the claim (`findPodsAttachedtoPVC`). It expands that list once with the pods sharing each pod's `service` label. Then it exports the claim with `kubectl get -o yaml`, sanitises it and writes it to a temporary file, runs `kubectl delete pvc` and `kubectl create -f`, and runs `kubectl delete pod` on every list entry. Every error is fatal (`CheckErr`, `util.Fatal`). |
| sanitiser | `erase_pvc.go` 132-159 | A `bufio.Scanner` loop. It drops the lines whose trimmed text starts with a `removedExportedLine` prefix, and drops the block from `status:` up to the next line that does not start with a space. |
| RetryAfter / MultiError | `service.go` 297-334 | It calls a callback up to `attempts` times, returns nil on the first success, and otherwise returns the collected errors. |
| wait callbacks | `service.go` 199-295 | `CheckServiceExists`, `CheckExternalService`, `CheckService`, `CheckEndpointReady` and `HasExternalIP`. Each reads the service or its endpoints. |
| wait callers | `service.go` 73-103, 157-196, 269-283 | `openService`, `FindServiceURL`, `WaitForService` and `WaitForExternalIPAddress`. Each waits through `RetryAfter` (exiting when it fails), then reads the service again and acts on what it finds. |
| FindServiceInEveryNamespace | `service.go` 105-154 | It looks the service up in the current namespace, then in every OpenShift project or Kubernetes namespace. |
| uninstall | `part_001` 49-97 | It asks for confirmation unless `-y` was given, GETs every tenant's namespaces from the init-tenant service, decodes them, and runs `gofabric8 delete tenant` for every namespace of type `user`. Every error is fatal. |
| GetServiceURL, flag parsing, `main`, update check | `service.go` 176-188, `part_000` | These are not modelled (section 6). |

### How the parts interact

`erase-pvc` interacts with the cluster, which runs concurrently with it:

* ReplicaSet-like controllers start a replacement whenever fewer than
  `replicas` of their pods are running.
* The kubelet removes pods that are terminating.
* A terminating pod is still listed.
* Deleting a terminating pod succeeds; deleting a removed pod is NotFound.

The service helpers interact with a service that the cluster creates, deletes,
annotates, readies and load-balances between two reads of the command.

### The behaviours that make it hard

* The cluster's steps interleave with the command's steps.
* State is read once and used later: the pod list, and the service re-read
  after the wait.
* Any cluster call can fail at any step.
* There are boundaries: the 64 KiB scanner token, `text[0]`, the retry count
  and `Ingress[0]`.

## 2. Modules

### ErasePVC (erase_pvc.go 91-211)

The state of the command is:

* `pc`: the step, one of Discover, Expand, Export, Delete, Create, Evict,
  Done or Failed;
* `attached`: the `attachedpods` slice;
* `rangeLen`: its length when the expansion's `range` started;
* `idx`: the loop index;
* `err`: why the command died.

The state of the cluster is:

* `phase[p]`: the phase of each pod, one of Unborn, Running, Terminating or
  Gone;
* `predates[p]`: the pod was started while the old claim existed;
* `claim`: Old, Absent or New.

There is one action per command step, and each action is the whole block of
code it stands for:

* `Discover` is lines 111-112. `Listings` gives every order the List may
  return.
* `Expand` is one iteration of 114-124.
* `Export` is 126-164.
* `Delete` is 166-170.
* `Create` is 172-176.
* `Evict` is one iteration of 178-185.
* `Finish` is 187-190.

`CallFails` is a failing cluster call followed by `util.Fatal`. It is enabled
only when `Faults` is TRUE.

The command works in two namespaces. It lists and deletes pods in `userNS`,
which is the `-n` flag when it is given (lines 102-104). It looks labels and
the service's pods up in `ns`, the context namespace (lines 115 and 118). The
constant `SplitNS` says whether the two differ. `InContextNamespace(p)` is the
label lookup finding pod `p`. When the namespaces differ, `ns` holds no pod
of that name, because pod names carry their controller's random suffix.

The cluster has two actions: `Kubelet(p)`, and `Controller(c, q)` starting
pod `q`.

`getPodsDependOfService` and `getLabelValueOfPod` are not under `src/`.
`PodsDependOfService` is modelled from spec.md: the listed pods whose
controller carries the label.

### EraseWorkflow (abstract)

`EraseWorkflow` is what erase-pvc promises, without the pod list, the loop
indices or the manifest. Its variables are the pods, the claim and an
`outcome` (Running, Done or Failed). Its actions are:

* `EraseClaim`: Old becomes Absent;
* `RecreateClaim`: Absent becomes New;
* `RestartPod(p)`: only once the claim is New;
* `Succeed`: only with the claim New and no pod of a controller to restart
  still running on the old claim;
* `GiveUp`: at any point, leaving the claim where it is;
* `PodRemoved` and `PodStarted`: the same cluster as in ErasePVC.

`ErasePVC` defines the refinement mapping as `Workflow == INSTANCE
EraseWorkflow WITH Restarted <- Affected, outcome <- Outcome`. `Outcome`
reads `pc` as Running, Done or Failed. The property `ImplementsWorkflow` is
`Workflow!Spec`. Under the mapping:

* Discover, Expand and Export are stutters;
* Delete is `EraseClaim`, Create is `RecreateClaim`, each Evict is
  `RestartPod`, and Finish is `Succeed`;
* every fatal error is `GiveUp`.

### SanitizeYAML (erase_pvc.go 132-159)

Each `ScanLine` step is one loop iteration. A line is reduced to what the loop
looks at: its kind (`status:`, excluded prefix, empty, longer than 64 KiB,
other) and whether `text[0]` is a space. `SpecSanitized` is the spec's
definition of the output, as a recursive function.

`ScanLine` makes the loop body's tests as an IF/ELSE-IF chain, in the order
the code makes them. A TLA+ CASE whose guards overlap leaves the branch it
takes unspecified. Here the later tests overlap: a blank line inside the
status block passes both the blank-line test and the plain in-block test.
With CASE, the model would say less than the code does.

### ServiceWait (service.go 199-334 and the callers)

* `RetryAfter` is one iteration of the loop. Its state is `calls`, `errs`
  (`len(m.Errors)`) and `lastOk`.
* `AfterWait` is what each caller does after the wait.
* `ClusterChange` changes the service between reads, at most `MaxChanges`
  times.
* The ingress test after the wait is an IF/ELSE-IF chain in the code's
  order, for the same reason as in `ScanLine`.

### Uninstall (part_001 49-97)

* `Ask` is the prompt, lines 51-60.
* `Get` is the client config, the request and the status check, lines
  61-78. Any of these may fail, and the failure is fatal.
* `Decode` is line 83. The error of `json.Unmarshal` is dropped, so a body
  that is not JSON leaves the list empty.
* `DeleteTenant` is one iteration of 85-95.
* `Finish` is the final `return nil`.

The service's tenant list, `server`, is chosen in `Init`. It is any list of
up to `MaxTenants` entries in which a user tenant appears once.

### ServiceLookup (service.go 105-154)

* `LookupCurrent` looks in the current namespace.
* `LookupProject` and `LookupNamespace` are one iteration of the OpenShift and
  the Kubernetes loop.
* `NotFound` is the final return.

### ServiceSearch (abstract)

`ServiceSearch` states what `FindServiceInEveryNamespace` promises, as a
single atomic step `Find` with no loop and no index:

* On OpenShift the answer is the current namespace's reply, else the reply of
  the first namespace that holds the service, else the error.
* On Kubernetes only the weaker part of the promise is kept. If the current
  namespace holds the service, its reply comes first. Otherwise any
  namespace's reply, or the error, may be returned.

`ServiceLookup` instantiates it with `done <- (pc = "Done")`. Every other
variable maps to itself.

## 3. Runs

| Run | Checks | Result |
|---|---|---|
| erase_pvc_quiet | TypeOK, StaleMountFree, RecoveredAfterSuccess, ImplementsWorkflow | pass |
| erase_pvc_busy | TypeOK, StaleMountFree, ImplementsWorkflow | pass |
| erase_pvc_dup | OnlyFaultsKill | violation |
| erase_pvc_namespace | OnlyFaultsKill | violation |
| sanitize | OrdinaryMatchesSpec, SanitizedPrefix | pass |
| sanitize_long | SanitizeMatchesSpec | violation |
| service_wait | RetryContract | pass |
| service_wait_ip | ActsOnWhatItWaitedFor | violation |
| service_lookup | PrefersCurrent, FoundIfExposedOnOpenShift, ImplementsSearch | pass |
| service_lookup_kubernetes | FoundIfExposed | violation |
| uninstall | ConsentAndScope | pass |
| uninstall_success | AllDeletedOnSuccess | violation |

### What the properties say

* **StaleMountFree.** When the command reports success, no running pod of an
  affected controller was started on the old claim. An affected controller is
  one that mounts the claim, or one that shares a label with a mounting
  controller that runs pods.
* **RecoveredAfterSuccess.** A success is eventually followed by the new claim
  and full replica counts, all of them on the new claim.
* **ImplementsWorkflow.** erase-pvc refines `EraseWorkflow`. The claim is
  deleted before it is recreated, and pods are deleted only once it exists
  again. Success comes only with no affected pod on the old claim. A failure
  may leave the claim absent, and the workflow says so.
* **OnlyFaultsKill.** The command dies only from a call that failed. It is
  violated twice: by the duplicate entry (`erase_pvc_dup`), and by `-n` run
  from another context namespace (`erase_pvc_namespace`).
* **SanitizeMatchesSpec.** A finished scan writes exactly spec.md's sanitised
  manifest. It is checked as `OrdinaryMatchesSpec` on manifests with no
  over-long and no empty line, and fails on the others.
* **SanitizedPrefix.** What the scan has written is always a prefix of that
  manifest.
* **RetryContract.** This is RetryAfter's bound and its error accounting.
* **ActsOnWhatItWaitedFor.** A caller that waited uses a non-empty result and
  does not crash.
* **ConsentAndScope.** Uninstall deletes only tenants listed as users, and
  none without consent.
* **AllDeletedOnSuccess.** A nil return after consent means every user
  tenant was deleted.
* **PrefersCurrent** is the lookup order.
* **FoundIfExposed** is the promise in the function's comment: a service
  exposed in one namespace only is found. It holds on OpenShift, checked as
  `FoundIfExposedOnOpenShift` in the run over both masters, and fails on
  Kubernetes.
* **ImplementsSearch.** The lookup refines `ServiceSearch`. The loop as a
  whole gives an answer that the atomic search allows, and it does so in a
  single step: the step that sets `pc` to Done.

### Findings

The violations are the findings in `PROJECT.json`:

* The expansion appends duplicates. The mounting pod is re-added by its own
  label, and its second delete is NotFound, which is fatal.
* With `-n` naming the claim's namespace from another context namespace,
  the label lookup of line 115 misses the first pod found. The command dies
  before it erases anything, whatever the pod's label.
* A line over 64 KiB truncates the recreated manifest.
* `Ingress[0]` is read from a stale service.
* The Kubernetes branch stops at the first namespace.
* Uninstall returns nil having deleted nothing when the 2xx body is not JSON.

An empty line in the status block panics at `text[0]` (line 153). It is
listed as a hazard rather than a finding with a run. `MCSanitizeYAMLBlank.cfg`
(manifests with empty but no over-long lines) reproduces it as a violation
of `SanitizeMatchesSpec`. `sanitize_long` stops at the shorter over-long-line
trace.

### Bounds

`MCErasePVC` has three controllers:

* `db` mounts the claim;
* `web` shares its label `app`;
* `other` has no label.

Each controller has one replica and two pod slots, so each has one
replacement. That is enough for:

* the duplicate entry, since `db`'s pod is re-added through `app`;
* a label peer;
* an unaffected controller;
* a replacement racing the evictions.

The busy run drops `other` and lets pods start out terminating. This lets the
kubelet race discovery, expansion and eviction.

The other models use these bounds:

* Manifests have up to 5 lines, which is enough for a status block between
  kept lines, an excluded line and a boundary line.
* The wait has 3 attempts and 3 changes of the service, which is enough for
  success at the first attempt, success at the last attempt, and failure.
* The lookup has 3 namespaces, so the service can be current, in a later
  namespace, or in the one in between.

### Fairness

`Spec` of ErasePVC assumes:

* weak fairness of the command's steps, because the process runs until it
  exits;
* weak fairness of each kubelet removal;
* weak fairness of each controller's reconciliation. Kubernetes controllers
  retry until the actual state matches the desired state.

Only `RecoveredAfterSuccess` depends on these assumptions.

## 4. Proofs

There are six proof modules. Each extends its component's module, or the
proof module it builds on.

* `ErasePVCProofs`: `TypeCorrect` and `StaleMountFreeInvariant`.
* `ErasePVCRefinement`: `Refinement`, which is `Spec => ImplementsWorkflow`.
  See below.
* `ServiceLookupProofs`: `PrefersCurrentInvariant`,
  `FoundIfExposedOnOpenShiftInvariant` and `SearchRefinement`
  (`Spec => ImplementsSearch`), for every number of namespaces. The
  strengthening `IInv` records what the loop has learnt:
  * the current namespace and every namespace before `k` lack the service;
  * a returned namespace holds an exposed service;
  * on OpenShift, an error is returned only for a service without the
    annotation, or when no namespace holds an exposed service.
* `UninstallProofs`: `ConsentAndScopeInvariant`, for every tenant list.
  * The strengthening `IInv` adds three facts: the decoded list is empty or
    is the service's list; nothing is deleted while the prompt is pending;
    every state past the prompt has consent.
  * `ListIsSeq` shows a service list is a sequence, so that the loop index is
    in its domain.
* `ServiceWaitProofs`: `RetryContractInvariant`, for every attempt count.
  `RetryContract` is inductive together with `TypeOK`.
  `CallbackType` shows each callback answers with a Boolean.
* `SanitizeYAMLProofs`: `SanitizedPrefixInvariant` and
  `OrdinaryMatchesSpecInvariant`, for manifests of every length. See below.

### ErasePVCProofs

The proofs are about the `ErasePVC` specification itself. They assume only
`ConstantsAssumption`: finite pods, an owner for each pod, and labels and
replica counts of the right type.

* `TypeCorrect`: `Spec => []TypeOK`.
* `StaleMountFreeInvariant`: `Spec => []StaleMountFree`.

`StaleMountFree` is not inductive on its own. It is proved through `IInv`, and
TLC checked `IInv` on both ErasePVC instances before it was proved. `IInv` is
the conjunction of:

* `ClaimFollowsSteps`: the claim is Old before Create, Absent at Create, and
  New from Evict on.
* `FullBeforeEvict`: before the evictions every controller runs exactly its
  replica count. Therefore no controller starts a pod before the new claim
  exists.
* `ExpandBounds`: `1 <= idx <= rangeLen <= Len(attached)` during the
  expansion.
* `Covered`: during the expansion every stale pod is either in the list or
  shares its label with an entry the loop has not yet expanded. From Export
  to Create it is in the list. During the evictions it is at the loop index
  or after it.

`Covered` is the heart of the proof. `Finish` requires
`idx > Len(attached)`, so `Covered` leaves no stale pod at Done. A pod started
by a controller during the evictions has `predates = FALSE`, by
`ClaimFollowsSteps`, and so it is never stale.

`IInvStep` has one lemma per action: `DiscoverStep`, `ExpandStep`,
`EvictStep`, `QuietSteps`, `KubeletStep` and `ControllerStep`. They rest on
`ListingFacts`, which says what a List ordering contains, and on
`PeerHasRunningMounter`.

### ErasePVCRefinement

`Refinement` proves `Spec => Workflow!Spec` in the usual way:

* `Init` maps to `Workflow!Init`: the starting phases are a subset of the
  workflow's.
* `RefineStep` shows that `IInv /\ IInv' /\ [Next]_vars` implies
  `[Workflow!Next]_Workflow!wvars`.

It uses `IInv` of ErasePVCProofs through `IInvAlways`:

* `ClaimFollowsSteps` gives the claim's value at Delete, Create and Evict.
* `StaleMountFree` in the state after `Finish` gives the guard of `Succeed`.

`SilentOrGiveUp` covers every step that changes neither the pods nor the
claim, and `SameCardinality` equates the two modules' `Cardinality`. The
theorem does not cover fairness: the workflow is a safety specification.

### SanitizeYAMLProofs

The recursive `SpecSanitized` cannot be used by the provers. The proofs
therefore use `Kept(m)`, a function on `0..Len(m)` whose entry `i` is the
sanitised form of the first `i` lines. It is defined through
`FiniteNatInductiveDef`, and `SpecSanitizedIsKept` shows that it is the same
CHOOSE term as `SpecSanitized`.

The library's `NatInduction` takes an operator parameter under a
quantifier, and none of the installed provers can instantiate it. The lemma
`Induction` derives the same principle from `NatInductiveUnique`, whose
operator appears only in opaque applications:

* it compares the function "1 if P holds up to i" with the constant function
  1;
* both satisfy the same recursion, so they are equal.

With it, `KeptType` and `KeptPrefix` show that `Kept(m)[i]` is a sequence and
a prefix of every later entry.

The inductive invariant `IInv` says:

* while scanning, the output is `Kept(manifest)[pos - 1]`, and `inStatus`
  holds exactly when line `pos - 1` is inside the status block;
* once the scan has stopped, the output is some `Kept(manifest)[n]`;
* on an ordinary manifest (no over-long and no empty line) the scan has
  finished with the whole `Kept(manifest)`.

TLC checked `IInv` on the `sanitize` instance before it was proved.
`ScanLineKeeps` has one case per branch of the loop body.

Both theorems assume `NestedExclusions`: every excluded key is indented. The
keys that erase_pvc.go lines 34-40 exclude are all nested under `metadata:`,
so the hypothesis holds of every manifest kubectl writes. Without it, the
scan and the spec could disagree about an unindented excluded line inside the
status block. The scan skips that line before it tests the block, so the
block continues. The spec would end the block there.

## 5. What only TLC checks

* Liveness (`RecoveredAfterSuccess`) stays with TLC, because TLAPS does not
  handle fairness or ENABLED.
* `SpecSanitized` is recursive and is compared with the scan only on bounded
  inputs.
* `SanitizedPrefix` and `OrdinaryMatchesSpec` are proved only under
  `NestedExclusions`. TLC checks them on every manifest of the bounded
  alphabet, including manifests that break the hypothesis.
* The violated properties (`OnlyFaultsKill`, `SanitizeMatchesSpec`,
  `ActsOnWhatItWaitedFor`, `FoundIfExposed`, `AllDeletedOnSuccess`) are
  findings, not theorems.

## 6. Not modelled

* **GetServiceURL** is a single read.
* **Cobra wiring and flag parsing** are not modelled.
* **`main` and its update check** run once per process through external
  libraries.
* **A pod of the same name in both namespaces** is not modelled. With it,
  the lookups of lines 115 and 118 would read another pod's label and delete
  pods of that name in `userNS`. Pod names carry random suffixes, so the
  model assumes the context namespace holds none of them.
* **PVC-protection finalizers** are not modelled: the claim is deleted at
  once.

## 7. Plan

Done so far:

* the two namespaces of erase-pvc;
* the ServiceLookup proofs;
* the refinement of ErasePVC to `EraseWorkflow`;
* the sanitiser's proofs, for manifests of every length;
* the refinement of the lookup to `ServiceSearch`.

Next:

1. Compose `SanitizeYAML` with the `Create` step, so that a truncated
   manifest shows up as a wrong or lost claim.
2. Model the PVC-protection finalizer, to exhibit the self-wait of line 167.
