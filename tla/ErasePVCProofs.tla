---------------------------- MODULE ErasePVCProofs ----------------------------
(***************************************************************************)
(* Proofs about the erase-pvc model (ErasePVC) for every value of its      *)
(* constants.                                                              *)
(***************************************************************************)
EXTENDS ErasePVC, FiniteSetTheorems, SequenceTheorems, TLAPS

USE ConstantsAssumption

\* A listing of a set S of pods is a sequence of pods, of |S| entries, in
\* which every pod of S appears.
LEMMA ListingFacts ==
    ASSUME NEW S, S \subseteq Pods, NEW l \in Listings(S)
    PROVE  /\ l \in Seq(Pods)
           /\ Len(l) = Cardinality(S)
           /\ \A p \in S : \E i \in 1..Len(l) : l[i] = p
<1>1. Cardinality(S) \in Nat
  BY FS_Subset, FS_CardinalityType
<1>2. l \in [1..Cardinality(S) -> Pods]
  BY DEF Listings
<1>3. l \in Seq(Pods)
  BY <1>1, <1>2, SeqDef
<1>4. Len(l) = Cardinality(S)
  BY <1>1, <1>2, <1>3, LenProperties
<1>5. QED
  BY <1>3, <1>4 DEF Listings

-----------------------------------------------------------------------------
(* The inductive invariant behind StaleMountFree.                          *)

\* A running pod of an affected controller that was started on the old
\* claim.
Stale(p) == phase[p] = "Running" /\ predates[p] /\ Owner[p] \in Affected

\* Pod p is in the attachedpods list at index from or later.
InList(p, from) == \E i \in from..Len(attached) : attached[i] = p

PreEvict == {"Discover", "Expand", "Export", "Delete", "Create"}

\* The claim follows the command's steps.
ClaimFollowsSteps ==
    /\ pc \in {"Discover", "Expand", "Export", "Delete"} => claim = "Old"
    /\ pc = "Create" => claim = "Absent"
    /\ pc \in {"Evict", "Done"} => claim = "New"

\* Before the first eviction nothing stops a pod, so every controller runs
\* its full replica count and none of them starts a pod.
FullBeforeEvict ==
    pc \in PreEvict => \A c \in Controllers : Cardinality(RunningOf(c)) = Replicas[c]

ExpandBounds ==
    pc = "Expand" => 1 <= idx /\ idx <= rangeLen /\ rangeLen <= Len(attached)

\* Every stale pod is in the list, or (during the expansion) shares its
\* label with an entry the loop has still to expand; during the evictions
\* it is at the loop index or after it.
Covered ==
    /\ pc = "Expand" =>
         \A p \in Pods : Stale(p) =>
           \/ InList(p, 1)
           \/ /\ Label[Owner[p]] # NoService
              /\ \E i \in idx..rangeLen : Label[Owner[attached[i]]] = Label[Owner[p]]
    /\ pc \in {"Export", "Delete", "Create"} => \A p \in Pods : Stale(p) => InList(p, 1)
    /\ pc = "Evict" => \A p \in Pods : Stale(p) => InList(p, idx)

IInv == TypeOK /\ ClaimFollowsSteps /\ FullBeforeEvict /\ ExpandBounds /\ Covered
        /\ StaleMountFree

LEMMA TypeInit == Init => TypeOK
BY DEF Init, TypeOK, PodPhases, StartPhases, Steps, Errors

LEMMA TypeStep == TypeOK /\ [Next]_vars => TypeOK'
<1> SUFFICES ASSUME TypeOK, [Next]_vars PROVE TypeOK'
  OBVIOUS
<1>1. CASE Discover
  <2>1. CASE CallFails
    BY <2>1 DEF CallFails, Die, TypeOK, Steps, Errors
  <2>2. CASE \E l \in Listings(AttachedToPVC) :
               /\ attached' = l
               /\ rangeLen' = Len(l)
               /\ idx' = 1
               /\ pc' = IF Len(l) = 0 THEN "Export" ELSE "Expand"
               /\ UNCHANGED <<phase, predates, claim, err>>
    <3>1. PICK l \in Listings(AttachedToPVC) :
               /\ attached' = l
               /\ rangeLen' = Len(l)
               /\ idx' = 1
               /\ pc' = IF Len(l) = 0 THEN "Export" ELSE "Expand"
               /\ UNCHANGED <<phase, predates, claim, err>>
      BY <2>2
    <3>2. l \in Seq(Pods)
      BY ListingFacts DEF AttachedToPVC
    <3>3. QED
      BY <3>1, <3>2 DEF TypeOK, Steps
  <2>3. QED
    BY <1>1, <2>1, <2>2 DEF Discover
<1>2. CASE Expand
  <2> DEFINE s == Label[Owner[attached[idx]]]
  <2>1. CASE CallFails \/ (~InContextNamespace(attached[idx]) /\ Die("PodNotFound"))
    BY <2>1 DEF CallFails, Die, TypeOK, Steps, Errors
  <2>2. CASE /\ idx' = idx + 1
             /\ pc' \in {"Export", "Expand"}
             /\ UNCHANGED <<phase, predates, claim, attached, rangeLen, err>>
    BY <2>2 DEF TypeOK, Steps
  <2>3. CASE /\ \E l \in Listings(PodsDependOfService(s)) : attached' = attached \o l
             /\ idx' = idx + 1
             /\ pc' \in {"Export", "Expand"}
             /\ UNCHANGED <<phase, predates, claim, rangeLen, err>>
    <3>1. PICK l \in Listings(PodsDependOfService(s)) : attached' = attached \o l
      BY <2>3
    <3>2. l \in Seq(Pods)
      BY ListingFacts DEF PodsDependOfService
    <3>3. attached' \in Seq(Pods)
      BY <3>1, <3>2, ConcatProperties DEF TypeOK
    <3>4. QED
      BY <2>3, <3>3 DEF TypeOK, Steps
  <2>4. QED
    BY <1>2, <2>1, <2>2, <2>3 DEF Expand
<1>3. CASE Export \/ Delete \/ Create \/ Finish
  BY <1>3 DEF Export, Delete, Create, Finish, CallFails, Die, TypeOK, Steps, Errors
<1>4. CASE Evict
  <2>1. attached[idx] \in Pods
    BY <1>4, ElementOfSeq DEF Evict, TypeOK
  <2>2. CASE CallFails \/ Die("PodNotFound")
    BY <2>2 DEF CallFails, Die, TypeOK, Steps, Errors
  <2>3. CASE /\ phase' = [phase EXCEPT ![attached[idx]] = "Terminating"]
             /\ idx' = idx + 1
             /\ UNCHANGED <<predates, claim, pc, attached, rangeLen, err>>
    BY <2>1, <2>3 DEF TypeOK, PodPhases
  <2>4. QED
    BY <1>4, <2>2, <2>3 DEF Evict
<1>5. CASE \E p \in Pods : Kubelet(p)
  BY <1>5 DEF Kubelet, TypeOK, PodPhases
<1>6. CASE \E c \in Controllers, q \in Pods : Controller(c, q)
  BY <1>6 DEF Controller, TypeOK, PodPhases
<1>7. CASE Exited \/ UNCHANGED vars
  BY <1>7 DEF Exited, vars, TypeOK
<1>8. QED
  BY <1>1, <1>2, <1>3, <1>4, <1>5, <1>6, <1>7 DEF Next, Command, Cluster

\* Type correctness: every reachable state is well typed.
THEOREM TypeCorrect == Spec => []TypeOK
BY TypeInit, TypeStep, PTL DEF Spec

LEMMA IInvInit == Init => IInv
<1> SUFFICES ASSUME Init PROVE IInv
  OBVIOUS
<1>1. TypeOK
  BY TypeInit
<1>2. FullBeforeEvict
  BY DEF Init, FullBeforeEvict, RunningOf
<1>3. QED
  BY <1>1, <1>2 DEF Init, IInv, ClaimFollowsSteps, ExpandBounds, Covered,
                    StaleMountFree, PreEvict

\* A step that changes neither the pods nor the claim keeps the set of
\* stale pods and every controller's running pods.
LEMMA PodsUnchanged ==
    ASSUME UNCHANGED <<phase, predates>>
    PROVE  /\ \A p \in Pods : Stale(p)' = Stale(p)
           /\ \A c \in Controllers : RunningOf(c)' = RunningOf(c)
BY DEF Stale, RunningOf


\* The steps of the command that neither touch the pods nor the list: the
\* Export, Delete and Create steps and the failing calls.
LEMMA QuietSteps ==
    ASSUME IInv, TypeOK',
           Export \/ Delete \/ Create \/ Finish
             \/ (pc' = "Failed" /\ UNCHANGED <<phase, predates>>)
    PROVE  IInv'
<1> USE DEF IInv
<1>1. \A p \in Pods : Stale(p)' = Stale(p)
  BY PodsUnchanged DEF Export, Delete, Create, Finish, CallFails, Die
<1>2. CASE pc' = "Failed" /\ UNCHANGED <<phase, predates>>
  BY <1>2 DEF ClaimFollowsSteps, FullBeforeEvict, PreEvict, ExpandBounds,
              Covered, StaleMountFree
<1>3. CASE Export \/ Delete
  <2>1. pc' \in {"Delete", "Create", "Failed"} /\ UNCHANGED <<attached, idx>>
    BY <1>3 DEF Export, Delete, CallFails, Die
  <2>2. Covered'
    BY <1>1, <1>3, <2>1 DEF Covered, InList, Export, Delete
  <2>3. ClaimFollowsSteps'
    BY <1>3 DEF ClaimFollowsSteps, Export, Delete, CallFails, Die
  <2>4. FullBeforeEvict'
    BY <1>3, PodsUnchanged DEF FullBeforeEvict, PreEvict, Export, Delete, CallFails, Die
  <2>5. QED
    BY <2>1, <2>2, <2>3, <2>4 DEF ExpandBounds, StaleMountFree
<1>4. CASE Create
  <2>1. CASE CallFails
    BY <1>2, <2>1 DEF CallFails, Die
  <2>2. CASE claim' = "New" /\ pc' = "Evict" /\ idx' = 1
             /\ UNCHANGED <<phase, predates, attached, rangeLen, err>>
    BY <1>1, <1>4, <2>2 DEF ClaimFollowsSteps, FullBeforeEvict, PreEvict,
                            ExpandBounds, Covered, InList, StaleMountFree, Create
  <2>3. QED
    BY <1>4, <2>1, <2>2 DEF Create
<1>5. CASE Finish
  <2>1. \A p \in Pods : ~InList(p, idx)
    BY <1>5 DEF Finish, InList, TypeOK
  <2>2. QED
    BY <1>1, <1>5, <2>1 DEF ClaimFollowsSteps, FullBeforeEvict, PreEvict,
                            ExpandBounds, Covered, StaleMountFree, Finish, Stale
<1>6. QED
  BY <1>2, <1>3, <1>4, <1>5


\* A controller of Affected that does not mount the claim shares its label
\* with one that does and runs pods; before the evictions one of those pods
\* is running.
LEMMA PeerHasRunningMounter ==
    ASSUME FullBeforeEvict, pc \in PreEvict, TypeOK,
           NEW c \in Affected, c \notin Mounts
    PROVE  \E r \in Pods : /\ phase[r] = "Running"
                           /\ Owner[r] \in Mounts
                           /\ Label[Owner[r]] # NoService
                           /\ Label[Owner[r]] = Label[c]
<1>1. PICK m \in Mounts : Replicas[m] > 0 /\ Label[m] # NoService /\ Label[c] = Label[m]
  BY DEF Affected
<1>2. Cardinality(RunningOf(m)) > 0
  BY <1>1 DEF FullBeforeEvict
<1>3. RunningOf(m) # {}
  <2>1. SUFFICES ASSUME RunningOf(m) = {} PROVE FALSE
    OBVIOUS
  <2>2. Cardinality(RunningOf(m)) = 0
    BY <2>1, FS_EmptySet, Zenon
  <2>3. QED
    BY <1>2, <2>2
<1>4. PICK r \in RunningOf(m) : TRUE
  BY <1>3
<1>5. QED
  BY <1>1, <1>4 DEF RunningOf

LEMMA DiscoverStep ==
    ASSUME IInv, TypeOK', Discover
    PROVE  IInv'
<1> USE DEF IInv
<1>0. pc = "Discover"
  BY DEF Discover
<1>1. CASE CallFails
  BY <1>1, QuietSteps DEF CallFails, Die
<1>2. CASE \E l \in Listings(AttachedToPVC) :
             /\ attached' = l
             /\ rangeLen' = Len(l)
             /\ idx' = 1
             /\ pc' = IF Len(l) = 0 THEN "Export" ELSE "Expand"
             /\ UNCHANGED <<phase, predates, claim, err>>
  <2>1. PICK l \in Listings(AttachedToPVC) :
             /\ attached' = l
             /\ rangeLen' = Len(l)
             /\ idx' = 1
             /\ pc' = IF Len(l) = 0 THEN "Export" ELSE "Expand"
             /\ UNCHANGED <<phase, predates, claim, err>>
    BY <1>2
  <2>2. /\ l \in Seq(Pods)
        /\ \A p \in AttachedToPVC : \E i \in 1..Len(l) : l[i] = p
    BY ListingFacts DEF AttachedToPVC
  <2>9. Len(l) \in Nat
    BY <2>2, LenProperties
  <2>3. \A p \in Pods : Stale(p)' = Stale(p)
    BY <2>1, PodsUnchanged
  <2>4. ASSUME NEW p \in Pods, Stale(p)
        PROVE  \/ InList(p, 1)'
               \/ /\ Label[Owner[p]] # NoService
                  /\ \E i \in 1..Len(l) : Label[Owner[l[i]]] = Label[Owner[p]]
    <3>1. CASE Owner[p] \in Mounts
      <4>1. p \in AttachedToPVC
        BY <2>4, <3>1 DEF Stale, AttachedToPVC, Listed, MountsClaim
      <4>2. QED
        BY <2>1, <2>2, <4>1 DEF InList
    <3>2. CASE Owner[p] \notin Mounts
      <4>1. PICK r \in Pods : /\ phase[r] = "Running"
                              /\ Owner[r] \in Mounts
                              /\ Label[Owner[r]] # NoService
                              /\ Label[Owner[r]] = Label[Owner[p]]
        BY <1>0, <2>4, <3>2, PeerHasRunningMounter DEF Stale, PreEvict
      <4>2. r \in AttachedToPVC
        BY <4>1 DEF AttachedToPVC, Listed, MountsClaim
      <4>3. QED
        BY <2>2, <4>1, <4>2
    <3>3. QED
      BY <3>1, <3>2
  <2>5. Covered'
    <3>1. CASE Len(l) = 0
      BY <2>1, <2>2, <2>9, <2>3, <2>4, <3>1 DEF Covered, InList
    <3>2. CASE Len(l) # 0
      BY <2>1, <2>2, <2>9, <2>3, <2>4, <3>2 DEF Covered, InList
    <3>3. QED
      BY <3>1, <3>2
  <2>6. ExpandBounds'
    BY <2>1, <2>9 DEF ExpandBounds
  <2>7. FullBeforeEvict'
    BY <1>0, <2>1, PodsUnchanged DEF FullBeforeEvict, PreEvict
  <2>8. QED
    BY <1>0, <2>1, <2>5, <2>6, <2>7 DEF ClaimFollowsSteps, StaleMountFree
<1>3. QED
  BY <1>1, <1>2 DEF Discover


LEMMA ExpandStep ==
    ASSUME IInv, TypeOK', Expand
    PROVE  IInv'
<1> USE DEF IInv
<1> DEFINE pod == attached[idx]
           s   == Label[Owner[pod]]
           next == IF idx = rangeLen THEN "Export" ELSE "Expand"
<1>0. /\ pc = "Expand"
      /\ 1 <= idx /\ idx <= rangeLen /\ rangeLen <= Len(attached)
      /\ idx \in Nat /\ rangeLen \in Nat /\ Len(attached) \in Nat
  BY LenProperties DEF Expand, ExpandBounds, TypeOK
<1>1. CASE CallFails \/ (~InContextNamespace(pod) /\ Die("PodNotFound"))
  BY <1>1, QuietSteps DEF CallFails, Die
<1>2. CASE /\ InContextNamespace(pod)
           /\ s = NoService
           /\ idx' = idx + 1
           /\ pc' = next
           /\ UNCHANGED <<phase, predates, claim, attached, rangeLen, err>>
  <2>1. \A p \in Pods : Stale(p)' = Stale(p)
    BY <1>2, PodsUnchanged
  <2>2. Covered'
    BY <1>0, <1>2, <2>1 DEF Covered, InList
  <2>3. FullBeforeEvict'
    BY <1>0, <1>2, PodsUnchanged DEF FullBeforeEvict, PreEvict
  <2>4. QED
    BY <1>0, <1>2, <2>2, <2>3 DEF ClaimFollowsSteps, ExpandBounds, StaleMountFree
<1>3. CASE /\ InContextNamespace(pod)
           /\ s # NoService
           /\ \E l \in Listings(PodsDependOfService(s)) : attached' = attached \o l
           /\ idx' = idx + 1
           /\ pc' = next
           /\ UNCHANGED <<phase, predates, claim, rangeLen, err>>
  <2>1. PICK l \in Listings(PodsDependOfService(s)) : attached' = attached \o l
    BY <1>3
  <2>0. PodsDependOfService(s) \subseteq Pods
    BY DEF PodsDependOfService
  <2>2. /\ l \in Seq(Pods)
        /\ \A p \in PodsDependOfService(s) : \E j \in 1..Len(l) : l[j] = p
    BY <2>0, ListingFacts
  <2>3. /\ Len(attached') = Len(attached) + Len(l)
        /\ \A i \in 1..Len(attached) : attached'[i] = attached[i]
        /\ \A j \in 1..Len(l) : attached'[Len(attached) + j] = l[j]
        /\ Len(l) \in Nat
    BY <2>1, <2>2, ConcatProperties, LenProperties DEF TypeOK
  <2>4. \A p \in Pods : Stale(p)' = Stale(p)
    BY <1>3, PodsUnchanged
  <2>5. ASSUME NEW p \in Pods, Stale(p), Label[Owner[p]] = s
        PROVE  InList(p, 1)'
    <3>1. p \in PodsDependOfService(s)
      BY <2>5 DEF Stale, PodsDependOfService, Listed
    <3>2. PICK j \in 1..Len(l) : l[j] = p
      BY <2>2, <3>1
    <3>3. Len(attached) \in Nat
      BY LenProperties DEF TypeOK
    <3>4. /\ Len(attached) + j \in 1..Len(attached')
          /\ attached'[Len(attached) + j] = p
      BY <2>3, <3>2, <3>3
    <3>5. QED
      BY <3>4 DEF InList
  <2>6. ASSUME NEW p \in Pods, InList(p, 1)
        PROVE  InList(p, 1)'
    BY <1>0, <2>3, <2>6 DEF InList
  <2>7. ASSUME NEW p \in Pods, Stale(p)'
        PROVE  \/ InList(p, 1)'
               \/ /\ idx' <= rangeLen'
                  /\ Label[Owner[p]] # NoService
                  /\ \E i \in idx'..rangeLen' : Label[Owner[attached'[i]]] = Label[Owner[p]]
    <3>1. Stale(p)
      BY <2>4, <2>7
    <3>2. CASE InList(p, 1)
      BY <3>2, <2>6
    <3>3. CASE /\ Label[Owner[p]] # NoService
               /\ \E i \in idx..rangeLen : Label[Owner[attached[i]]] = Label[Owner[p]]
      <4>1. PICK i \in idx..rangeLen : Label[Owner[attached[i]]] = Label[Owner[p]]
        BY <3>3
      <4>2. CASE i = idx
        <5>1. Label[Owner[p]] = s
          BY <4>1, <4>2
        <5>2. QED
          BY <3>1, <5>1, <2>5
      <4>3. CASE i # idx
        <5>1. /\ i \in idx'..rangeLen'
              /\ idx' <= rangeLen'
              /\ i \in 1..Len(attached)
          BY <1>0, <1>3, <4>1, <4>3
        <5>2. attached'[i] = attached[i]
          BY <5>1, <2>3
        <5>3. QED
          BY <3>3, <4>1, <5>1, <5>2
      <4>4. QED
        BY <4>2, <4>3
    <3>4. QED
      BY <1>0, <3>1, <3>2, <3>3 DEF Covered
  <2>8. Covered'
    <3>1. CASE idx = rangeLen
      BY <1>0, <1>3, <2>7, <3>1 DEF Covered
    <3>2. CASE idx # rangeLen
      BY <1>0, <1>3, <2>7, <3>2 DEF Covered
    <3>3. QED
      BY <3>1, <3>2
  <2>9. FullBeforeEvict'
    BY <1>0, <1>3, PodsUnchanged DEF FullBeforeEvict, PreEvict
  <2>10. QED
    BY <1>0, <1>3, <2>3, <2>8, <2>9 DEF ClaimFollowsSteps, ExpandBounds, StaleMountFree
<1>4. QED
  BY <1>1, <1>2, <1>3 DEF Expand


\* One iteration of the eviction loop: the pod at the loop index stops
\* running, so every pod still stale is later in the list.
LEMMA EvictStep ==
    ASSUME IInv, TypeOK', Evict
    PROVE  IInv'
<1> USE DEF IInv
<1>0. pc = "Evict" /\ idx <= Len(attached)
  BY DEF Evict
<1>1. CASE CallFails \/ (~Listed(attached[idx]) /\ Die("PodNotFound"))
  BY <1>1, QuietSteps DEF CallFails, Die
<1>2. CASE /\ Listed(attached[idx])
           /\ phase' = [phase EXCEPT ![attached[idx]] = "Terminating"]
           /\ idx' = idx + 1
           /\ UNCHANGED <<predates, claim, pc, attached, rangeLen, err>>
  <2>1. attached[idx] \in Pods
    BY <1>0, ElementOfSeq DEF TypeOK
  <2>2. \A q \in Pods : Stale(q)' => Stale(q) /\ q # attached[idx]
    <3>1. \A q \in Pods : phase'[q] = IF q = attached[idx] THEN "Terminating" ELSE phase[q]
      BY <1>2, <2>1 DEF TypeOK
    <3>2. QED
      BY <1>2, <3>1 DEF Stale
  <2>3. ASSUME NEW p \in Pods, Stale(p)'
        PROVE  InList(p, idx)'
    <3>1. Stale(p) /\ p # attached[idx]
      BY <2>2, <2>3
    <3>2. InList(p, idx)
      BY <1>0, <3>1 DEF Covered
    <3>3. PICK i \in idx..Len(attached) : attached[i] = p
      BY <3>2 DEF InList
    <3>4. i # idx
      BY <3>1, <3>3
    <3>5. i \in idx'..Len(attached') /\ attached'[i] = p
      BY <1>2, <3>3, <3>4 DEF TypeOK
    <3>6. QED
      BY <3>5 DEF InList
  <2>4. Covered'
    <3>1. pc' = "Evict"
      BY <1>0, <1>2
    <3>2. QED
      BY <3>1, <2>3 DEF Covered
  <2>5. FullBeforeEvict' /\ StaleMountFree' /\ ExpandBounds'
    BY <1>0, <1>2 DEF FullBeforeEvict, PreEvict, StaleMountFree, ExpandBounds
  <2>6. ClaimFollowsSteps'
    BY <1>0, <1>2 DEF ClaimFollowsSteps
  <2>7. QED
    BY <2>4, <2>5, <2>6
<1>3. QED
  BY <1>1, <1>2 DEF Evict

\* A cluster step that leaves the command alone and starts no stale pod
\* keeps the invariant, provided the running pods stay the same while the
\* command has not yet reached the evictions.
LEMMA ClusterKeeps ==
    ASSUME IInv, TypeOK',
           UNCHANGED <<claim, pc, attached, rangeLen, idx, err>>,
           \A p \in Pods : Stale(p)' => Stale(p),
           pc \in PreEvict => \A c \in Controllers : RunningOf(c)' = RunningOf(c)
    PROVE  IInv'
<1> USE DEF IInv
<1>1. Covered'
  BY DEF Covered, InList
<1>2. FullBeforeEvict'
  BY DEF FullBeforeEvict
<1>3. StaleMountFree'
  BY DEF StaleMountFree, Stale
<1>4. QED
  BY <1>1, <1>2, <1>3 DEF ClaimFollowsSteps, ExpandBounds

\* The kubelet removes a terminating pod, which was neither running nor
\* stale.
LEMMA KubeletStep ==
    ASSUME IInv, TypeOK', NEW q \in Pods, Kubelet(q)
    PROVE  IInv'
<1>1. \A p \in Pods : Stale(p)' => Stale(p)
  BY DEF Kubelet, Stale
<1>2. \A c \in Controllers : RunningOf(c)' = RunningOf(c)
  BY DEF Kubelet, RunningOf
<1>3. QED
  BY <1>1, <1>2, ClusterKeeps DEF Kubelet

\* A controller only starts a pod once one of its pods has stopped, which
\* only the evictions do; by then the claim has been recreated and the new
\* pod mounts the new claim.
LEMMA ControllerStep ==
    ASSUME IInv, TypeOK', NEW c \in Controllers, NEW q \in Pods, Controller(c, q)
    PROVE  IInv'
<1> USE DEF IInv
<1>1. pc \notin PreEvict
  BY DEF Controller, FullBeforeEvict
<1>2. pc \in {"Evict", "Done"} => ~predates'[q]
  BY DEF Controller, ClaimFollowsSteps, TypeOK
<1>3. CASE pc \in {"Evict", "Done"}
  <2>1. \A p \in Pods : Stale(p)' => Stale(p)
    BY <1>2, <1>3 DEF Controller, Stale
  <2>2. QED
    BY <1>1, <2>1, ClusterKeeps DEF Controller
<1>4. CASE pc \notin {"Evict", "Done"}
  <2>1. pc = "Failed"
    BY <1>1, <1>4 DEF TypeOK, Steps, PreEvict
  <2>2. QED
    BY <2>1 DEF Controller, ClaimFollowsSteps, FullBeforeEvict, PreEvict,
                ExpandBounds, Covered, StaleMountFree
<1>5. QED
  BY <1>3, <1>4

LEMMA IInvStep == IInv /\ [Next]_vars => IInv'
<1> SUFFICES ASSUME IInv, [Next]_vars PROVE IInv'
  OBVIOUS
<1>1. TypeOK'
  BY TypeStep DEF IInv
<1>2. CASE Discover
  BY <1>1, <1>2, DiscoverStep
<1>3. CASE Expand
  BY <1>1, <1>3, ExpandStep
<1>4. CASE Export \/ Delete \/ Create \/ Finish
  BY <1>1, <1>4, QuietSteps
<1>5. CASE Evict
  BY <1>1, <1>5, EvictStep
<1>6. CASE \E p \in Pods : Kubelet(p)
  BY <1>1, <1>6, KubeletStep
<1>7. CASE \E c \in Controllers, q \in Pods : Controller(c, q)
  BY <1>1, <1>7, ControllerStep
<1>8. CASE Exited \/ UNCHANGED vars
  <2>1. UNCHANGED vars
    BY <1>8 DEF Exited
  <2>2. \A p \in Pods : Stale(p)' = Stale(p)
    BY <2>1, PodsUnchanged DEF vars
  <2>3. \A c \in Controllers : RunningOf(c)' = RunningOf(c)
    BY <2>1, PodsUnchanged DEF vars
  <2>4. QED
    BY <2>1, <2>2, <2>3 DEF vars, IInv, TypeOK, ClaimFollowsSteps, FullBeforeEvict,
                            ExpandBounds, Covered, StaleMountFree, InList
<1>9. QED
  BY <1>2, <1>3, <1>4, <1>5, <1>6, <1>7, <1>8 DEF Next, Command, Cluster

\* Whenever erase-pvc reports success (erase_pvc.go line 187), no pod of a
\* controller it meant to restart still runs on the old claim, for every
\* set of pods, controllers, labels and replica counts.
THEOREM StaleMountFreeInvariant == Spec => []StaleMountFree
<1>1. Init => IInv
  BY IInvInit
<1>2. IInv => StaleMountFree
  BY DEF IInv
<1>3. QED
  BY <1>1, <1>2, IInvStep, PTL DEF Spec

=============================================================================
