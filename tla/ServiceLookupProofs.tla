-------------------------- MODULE ServiceLookupProofs --------------------------
(***************************************************************************)
(* Proofs that FindServiceInEveryNamespace prefers the current namespace   *)
(* on both masters, and finds a service exposed in one namespace only on   *)
(* OpenShift, for every number of namespaces and every placement of the    *)
(* service.                                                                *)
(***************************************************************************)
EXTENDS ServiceLookup, TLAPS

USE ServiceLookupAssumption

\* What the loop has learnt so far: the current namespace and every
\* namespace before k lack the service; a returned namespace holds an
\* exposed service; an error is returned only for a service without the
\* annotation, or, on OpenShift, when no namespace holds an exposed service.
IInv ==
    /\ service \in [Namespaces -> Presence]
    /\ current \in Namespaces
    /\ master \in Platforms
    /\ pc \in {"Current", "Loop", "Done"}
    /\ k \in 1..(N + 1)
    /\ ret \in Namespaces \cup {NoResult, Failed}
    /\ pc = "Current" => k = 1
    /\ pc = "Loop" => /\ service[current] = "None"
                      /\ \A m \in 1..(k - 1) : service[m] = "None"
    /\ pc = "Done" => ret # NoResult
    /\ (pc = "Done" /\ ret \in Namespaces) => service[ret] = "Url"
    /\ (pc = "Done" /\ ret = Failed /\ master = "OpenShift") =>
         \/ \A m \in Namespaces : service[m] # "Url"
         \/ \E m \in Namespaces : service[m] = "NoUrl"
    /\ PrefersCurrent

LEMMA IInvInit == Init => IInv
BY DEF Init, IInv, PrefersCurrent, Namespaces, NoResult, Failed

\* ReturnFrom(n) with the service present in n returns n's URL or, for a
\* service without the annotation, the error.
LEMMA ReturnKeeps ==
    ASSUME IInv, NEW n \in Namespaces, service[n] # "None", ReturnFrom(n),
           UNCHANGED <<service, current, master, k>>,
           pc # "Done",
           n # current => service[current] = "None"
    PROVE  IInv'
<1>1. ret' \in Namespaces \cup {Failed} /\ pc' = "Done"
  BY DEF ReturnFrom, IInv
<1>2. ret' \in Namespaces => service'[ret'] = "Url"
  BY DEF ReturnFrom, IInv, Namespaces, Failed
<1>3. ret' = Failed => \E m \in Namespaces : service'[m] = "NoUrl"
  BY DEF ReturnFrom, IInv, Presence, Namespaces, Failed
<1>4. PrefersCurrent'
  BY DEF ReturnFrom, PrefersCurrent, IInv
<1>5. QED
  BY <1>1, <1>2, <1>3, <1>4 DEF IInv, Namespaces, NoResult, Failed

LEMMA IInvStep == IInv /\ [Next]_vars => IInv'
<1> SUFFICES ASSUME IInv, [Next]_vars PROVE IInv'
  OBVIOUS
<1>1. CASE LookupCurrent
  <2>1. CASE service[current] # "None"
    BY <1>1, <2>1, ReturnKeeps DEF LookupCurrent, IInv
  <2>2. CASE service[current] = "None"
    BY <1>1, <2>2 DEF LookupCurrent, IInv, PrefersCurrent
  <2>3. QED
    BY <2>1, <2>2
<1>2. CASE LookupProject
  <2>1. pc = "Loop" /\ k \in Namespaces
    BY <1>2 DEF LookupProject, IInv, Namespaces
  <2>2. CASE service[k] # "None"
    <3>1. k # current
      BY <2>1, <2>2 DEF IInv
    <3>2. QED
      BY <1>2, <2>1, <2>2, <3>1, ReturnKeeps DEF LookupProject, IInv
  <2>3. CASE service[k] = "None"
    <3>1. k' = k + 1 /\ UNCHANGED <<service, current, master, pc, ret>>
      BY <1>2, <2>3 DEF LookupProject
    <3>2. \A m \in 1..(k' - 1) : service'[m] = "None"
      BY <2>1, <2>3, <3>1 DEF IInv, Namespaces
    <3>3. QED
      BY <2>1, <3>1, <3>2 DEF IInv, PrefersCurrent, Namespaces
  <2>4. QED
    BY <2>2, <2>3
<1>3. CASE LookupNamespace
  <2>1. pc = "Loop" /\ k \in Namespaces /\ master = "Kubernetes"
    BY <1>3 DEF LookupNamespace, IInv, Namespaces
  <2>2. /\ ret' \in Namespaces \cup {Failed} /\ pc' = "Done"
        /\ UNCHANGED <<service, current, master, k>>
    BY <1>3, <2>1 DEF LookupNamespace, ReturnFrom
  <2>3. ret' \in Namespaces => service'[ret'] = "Url"
    BY <1>3, <2>1 DEF LookupNamespace, ReturnFrom, IInv, Namespaces, Failed
  <2>4. PrefersCurrent'
    BY <2>1, <2>2 DEF PrefersCurrent, IInv
  <2>5. QED
    BY <2>1, <2>2, <2>3, <2>4 DEF IInv, Namespaces, NoResult, Failed
<1>4. CASE NotFound
  <2>1. pc = "Loop" /\ k = N + 1
    BY <1>4 DEF NotFound, IInv
  <2>2. \A m \in Namespaces : service[m] = "None"
    BY <2>1 DEF IInv, Namespaces
  <2>3. QED
    BY <1>4, <2>1, <2>2 DEF NotFound, IInv, PrefersCurrent, Namespaces, NoResult, Failed
<1>5. CASE Ended \/ UNCHANGED vars
  BY <1>5 DEF Ended, vars, IInv, PrefersCurrent
<1>6. QED
  BY <1>1, <1>2, <1>3, <1>4, <1>5 DEF Next

\* FindServiceInEveryNamespace returns the current namespace's answer
\* whenever the current namespace holds the service (service.go lines
\* 109-118), on both masters and for every number of namespaces.
THEOREM PrefersCurrentInvariant == Spec => []PrefersCurrent
<1>1. IInv => PrefersCurrent
  BY DEF IInv
<1>2. QED
  BY <1>1, IInvInit, IInvStep, PTL DEF Spec

\* On OpenShift, a service exposed in exactly one namespace is found
\* whichever namespace it is in (lines 120-136), for every number of
\* namespaces.
THEOREM FoundIfExposedOnOpenShiftInvariant == Spec => []FoundIfExposedOnOpenShift
<1>1. IInv => FoundIfExposedOnOpenShift
  <2> SUFFICES ASSUME IInv, master = "OpenShift", pc = "Done",
                      NEW n \in Namespaces, service[n] = "Url",
                      \A m \in Namespaces \ {n} : service[m] = "None"
               PROVE  ret # Failed /\ service[ret] = "Url"
    BY DEF FoundIfExposedOnOpenShift, FoundIfExposed
  <2>1. ~\E m \in Namespaces : service[m] = "NoUrl"
    OBVIOUS
  <2>2. ret # Failed
    BY <2>1 DEF IInv
  <2>3. QED
    BY <2>2 DEF IInv
<1>2. QED
  BY <1>1, IInvInit, IInvStep, PTL DEF Spec

-----------------------------------------------------------------------------
(* FindServiceInEveryNamespace implements the search of ServiceSearch.     *)

\* A namespace holding the service with none before it is the first holder.
LEMMA FirstHolder ==
    ASSUME NEW n \in Namespaces, service[n] # "None",
           \A m \in 1..(n - 1) : service[m] = "None"
    PROVE  (CHOOSE h \in Search!Holders : \A m \in Search!Holders : h <= m) = n
<1>1. n \in Search!Holders /\ \A m \in Search!Holders : n <= m
  BY DEF Search!Holders, Search!Namespaces, Namespaces
<1>2. \A h \in Search!Holders : (\A m \in Search!Holders : h <= m) => h = n
  BY <1>1 DEF Search!Holders, Search!Namespaces, Namespaces
<1> HIDE DEF Search!Holders
<1>3. QED
  BY <1>1, <1>2

\* Returning namespace n's answer, with n the first holder and the current
\* namespace without the service, is the search's answer.
LEMMA ReturnIsFind ==
    ASSUME IInv, NEW n \in Namespaces, service[n] # "None",
           pc # "Done",
           n = current \/ /\ service[current] = "None"
                          /\ \A m \in 1..(n - 1) : service[m] = "None",
           ReturnFrom(n), UNCHANGED <<service, current, master>>
    PROVE  Search!Find
<1>1. Search!Reply(n) = (IF service[n] = "Url" THEN n ELSE Failed)
  BY DEF Search!Reply, Search!Failed, Failed
<1>2. Search!Answer = Search!Reply(n)
  <2>1. CASE n = current
    BY <2>1 DEF Search!Answer
  <2>2. CASE n # current
    <3>1. service[current] = "None" /\ Search!Holders # {}
      BY <2>2 DEF Search!Holders, Search!Namespaces, Namespaces
    <3>2. QED
      BY <2>2, <3>1, FirstHolder DEF Search!Answer
  <2>3. QED
    BY <2>1, <2>2
<1>3. ret' = Search!Reply(n)
  BY <1>1 DEF ReturnFrom
<1>4. Search!Reply(n) \in Search!Allowed
  <2>1. n \in Search!Namespaces
    BY DEF Search!Namespaces, Namespaces
  <2> HIDE DEF Search!Reply, Search!Answer
  <2>2. QED
    BY <1>2, <2>1 DEF Search!Allowed
<1>5. QED
  BY <1>3, <1>4 DEF ReturnFrom, Search!Find

\* Every step of the lookup is a step of the search or a stutter.
LEMMA SearchStep ==
    ASSUME IInv, [Next]_vars
    PROVE  [Search!Find]_Search!svars
<1>1. CASE LookupCurrent
  <2>1. CASE service[current] # "None"
    BY <1>1, <2>1, ReturnIsFind DEF LookupCurrent, IInv
  <2>2. CASE service[current] = "None"
    BY <1>1, <2>2 DEF LookupCurrent, Search!svars
  <2>3. QED
    BY <2>1, <2>2
<1>2. CASE LookupProject
  <2>1. pc = "Loop" /\ k \in Namespaces
    BY <1>2 DEF LookupProject, IInv, Namespaces
  <2>2. CASE service[k] # "None"
    BY <1>2, <2>1, <2>2, ReturnIsFind DEF LookupProject, IInv
  <2>3. CASE service[k] = "None"
    BY <1>2, <2>1, <2>3 DEF LookupProject, Search!svars
  <2>4. QED
    BY <2>2, <2>3
<1>3. CASE LookupNamespace
  <2>1. pc = "Loop" /\ k \in Namespaces /\ master = "Kubernetes"
        /\ service[current] = "None"
    BY <1>3 DEF LookupNamespace, IInv, Namespaces
  <2>2. Search!Allowed = {Search!Reply(n) : n \in Search!Namespaces} \cup {Search!Failed}
    BY <2>1 DEF Search!Allowed
  <2>3. ret' = Search!Reply(k)
    BY <1>3 DEF LookupNamespace, ReturnFrom, Search!Reply, Search!Failed, Failed
  <2>4. QED
    BY <1>3, <2>1, <2>2, <2>3 DEF LookupNamespace, ReturnFrom, Search!Find,
       Search!Namespaces, Namespaces
<1>4. CASE NotFound
  <2>1. pc = "Loop" /\ k = N + 1
    BY <1>4 DEF NotFound, IInv
  <2>2. service[current] = "None" /\ Search!Holders = {}
    BY <2>1 DEF IInv, Search!Holders, Search!Namespaces, Namespaces
  <2>3. Search!Failed \in Search!Allowed
    BY <2>2 DEF Search!Allowed, Search!Answer
  <2>4. QED
    BY <1>4, <2>1, <2>3 DEF NotFound, Search!Find, Search!Failed, Failed
<1>5. CASE Ended \/ UNCHANGED vars
  BY <1>5 DEF Ended, vars, Search!svars
<1>6. QED
  BY <1>1, <1>2, <1>3, <1>4, <1>5 DEF Next

\* FindServiceInEveryNamespace (lines 109-153) implements the search its
\* comment promises, for every number of namespaces: on OpenShift the
\* answer is the current namespace's reply or the first holding project's,
\* on either master the current namespace comes first and a returned URL is
\* one a service carries.
THEOREM SearchRefinement == Spec => ImplementsSearch
<1>1. Init => Search!Init
  BY DEF Init, Search!Init, Search!Namespaces, Namespaces, Search!Presence,
     Presence, Search!NoResult, NoResult
<1>2. IInv /\ [Next]_vars => [Search!Find]_Search!svars
  BY SearchStep
<1>3. QED
  BY <1>1, <1>2, IInvInit, IInvStep, PTL DEF Spec, ImplementsSearch, Search!Spec

=============================================================================
