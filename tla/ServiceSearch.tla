----------------------------- MODULE ServiceSearch -----------------------------
(***************************************************************************)
(* What FindServiceInEveryNamespace promises (its comment, service.go      *)
(* lines 105-107): the service is looked up in the current namespace      *)
(* first, then in the others in listing order, and the answer comes from  *)
(* the first namespace that holds it: its exposeUrl annotation, or the     *)
(* "no url annotations" error; the error too when no namespace holds it.   *)
(* That is the promise on OpenShift.  On Kubernetes only its weaker part   *)
(* is kept (ServiceLookup's FoundIfExposed shows the rest broken there):   *)
(* the current namespace comes first, and a URL returned is the one a      *)
(* namespace's service carries.  The lookup is one atomic step; the loop   *)
(* and its index are left out.                                             *)
(***************************************************************************)
EXTENDS Naturals

CONSTANTS
    N,          \* the namespaces are 1..N, in listing order
    Platforms   \* the masters considered

Namespaces == 1..N
Presence == {"None", "NoUrl", "Url"}
NoResult == 0
Failed == N + 1

VARIABLES
    service,  \* service[n]: the service in namespace n
    current,  \* the current namespace
    master,   \* "OpenShift" or "Kubernetes"
    done,     \* the lookup has answered
    ret       \* the namespace whose URL was returned, NoResult or Failed

svars == <<service, current, master, done, ret>>

\* The answer namespace n gives: its URL, or the error.
Reply(n) == IF service[n] = "Url" THEN n ELSE Failed

\* The namespaces that hold the service.
Holders == {n \in Namespaces : service[n] # "None"}

\* The answer of the search: the current namespace's reply, else the first
\* holder's, else the error.
Answer ==
    IF service[current] # "None" THEN Reply(current)
    ELSE IF Holders # {} THEN Reply(CHOOSE n \in Holders : \A m \in Holders : n <= m)
    ELSE Failed

\* The answers the master's lookup may give: the search's on OpenShift; on
\* Kubernetes the current namespace's reply when it holds the service, else
\* some namespace's reply or the error.
Allowed ==
    IF master = "OpenShift" \/ service[current] # "None" THEN {Answer}
    ELSE {Reply(n) : n \in Namespaces} \cup {Failed}

Init ==
    /\ service \in [Namespaces -> Presence]
    /\ current \in Namespaces
    /\ master \in Platforms
    /\ done = FALSE
    /\ ret = NoResult

Find ==
    /\ ~done
    /\ done' = TRUE
    /\ ret' \in Allowed
    /\ UNCHANGED <<service, current, master>>

Spec == Init /\ [][Find]_svars

=============================================================================
