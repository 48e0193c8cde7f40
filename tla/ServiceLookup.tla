----------------------------- MODULE ServiceLookup -----------------------------
(***************************************************************************)
(* FindServiceInEveryNamespace (src/cmds/service.go lines 105-154): look   *)
(* a service up in the current namespace, then in every OpenShift project  *)
(* or Kubernetes namespace in the order the API lists them, and return its *)
(* fabric8.io/exposeUrl annotation.                                        *)
(***************************************************************************)
EXTENDS Naturals

CONSTANTS
    N,          \* the namespaces (projects) are 1..N, in listing order
    Platforms   \* the masters considered: "OpenShift", "Kubernetes"

ASSUME ServiceLookupAssumption ==
    /\ N \in Nat \ {0}
    /\ Platforms \subseteq {"OpenShift", "Kubernetes"}
    /\ Platforms # {}

Namespaces == 1..N

\* The service in a namespace: absent, without the annotation, or with it.
Presence == {"None", "NoUrl", "Url"}

NoResult == 0   \* nothing returned yet
Failed == N + 1 \* an error returned

VARIABLES
    service,   \* service[n]: the service in namespace n
    current,   \* f.DefaultNamespace()
    master,    \* util.TypeOfMaster(c)
    pc,        \* "Current", "Loop" or "Done"
    k,         \* the namespace of the loop being looked at
    ret        \* the namespace whose URL was returned, NoResult or Failed

vars == <<service, current, master, pc, k, ret>>

Init ==
    /\ service \in [Namespaces -> Presence]
    /\ current \in Namespaces
    /\ master \in Platforms
    /\ pc = "Current"
    /\ k = 1
    /\ ret = NoResult

\* Return the URL of namespace n, or the "no url annotations" error.
ReturnFrom(n) ==
    /\ pc' = "Done"
    /\ ret' = IF service[n] = "Url" THEN n ELSE Failed

\* Mutant: the current namespace is not looked at first.
LookupCurrentSkipped ==
    /\ pc = "Current"
    /\ pc' = "Loop"
    /\ UNCHANGED <<service, current, master, k, ret>>

\* Lines 109-118: the current namespace first.
LookupCurrent ==
    /\ pc = "Current"
    /\ IF service[current] # "None"
         THEN ReturnFrom(current) /\ UNCHANGED k
         ELSE pc' = "Loop" /\ UNCHANGED <<k, ret>>
    /\ UNCHANGED <<service, current, master>>

\* Mutant: the first project answers, as in the Kubernetes branch.
LookupProjectFirstOnly ==
    /\ pc = "Loop"
    /\ master = "OpenShift"
    /\ k <= N
    /\ ReturnFrom(k)
    /\ UNCHANGED <<service, current, master, k>>

\* Lines 126-136: an OpenShift project; a project without the service is
\* skipped.
LookupProject ==
    /\ pc = "Loop"
    /\ master = "OpenShift"
    /\ k <= N
    /\ IF service[k] # "None"
         THEN ReturnFrom(k) /\ UNCHANGED k
         ELSE k' = k + 1 /\ UNCHANGED <<pc, ret>>
    /\ UNCHANGED <<service, current, master>>

\* Lines 142-150: a Kubernetes namespace; the error of Get is dropped, the
\* annotation of the empty Service it returned is read, and the loop body
\* returns in every case.
LookupNamespace ==
    /\ pc = "Loop"
    /\ master = "Kubernetes"
    /\ k <= N
    /\ ReturnFrom(k)
    /\ UNCHANGED <<service, current, master, k>>

\* Line 153: the service was not found anywhere.
NotFound ==
    /\ pc = "Loop"
    /\ k > N
    /\ pc' = "Done"
    /\ ret' = Failed
    /\ UNCHANGED <<service, current, master, k>>

Ended == pc = "Done" /\ UNCHANGED vars

Next == LookupCurrent \/ LookupProject \/ LookupNamespace \/ NotFound \/ Ended

Spec == Init /\ [][Next]_vars

-----------------------------------------------------------------------------

\* The function keeps its comment's promise: when exactly one namespace
\* holds the service and that service has the annotation, its URL is what
\* is returned, whichever namespace it is in and whichever namespace is
\* the current one.
FoundIfExposed ==
    (pc = "Done" /\ \E n \in Namespaces : service[n] = "Url"
                                        /\ \A m \in Namespaces \ {n} : service[m] = "None")
      => ret # Failed /\ service[ret] = "Url"

\* On OpenShift the promise is kept: the loop over projects skips those
\* without the service (lines 126-136), so a service exposed in one project
\* only is found whichever project it is in.
FoundIfExposedOnOpenShift == master = "OpenShift" => FoundIfExposed

\* The current namespace is tried first: when it holds the service, its
\* answer is the one returned.
PrefersCurrent ==
    (pc = "Done" /\ service[current] # "None") =>
      ret = IF service[current] = "Url" THEN current ELSE Failed

-----------------------------------------------------------------------------
(* The abstract lookup of ServiceSearch, and the refinement mapping: the   *)
(* lookup has answered once the function has returned.                     *)

Search == INSTANCE ServiceSearch WITH done <- (pc = "Done")

\* FindServiceInEveryNamespace implements the search of ServiceSearch: on
\* OpenShift, whatever namespaces hold the service, with or without the
\* annotation, it answers with the current namespace's reply when that
\* namespace holds the service, else with the reply of the first project in
\* listing order that holds it (a project without the service is skipped,
\* lines 126-136), else with the error; on either master the current
\* namespace comes first and a returned URL is one a service carries.
ImplementsSearch == Search!Spec

=============================================================================
