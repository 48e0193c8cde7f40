------------------------------ MODULE ServiceWait ------------------------------
(***************************************************************************)
(* The wait-for-a-service helpers of src/cmds/service.go: RetryAfter with  *)
(* its MultiError, the callbacks it polls (CheckExternalService,           *)
(* CheckService, CheckServiceExists, HasExternalIP, CheckEndpointReady)    *)
(* and the callers that read the service again once the wait succeeded    *)
(* (openService, FindServiceURL, WaitForService, WaitForExternalIPAddress).*)
(*                                                                         *)
(* The cluster changes the service while the command polls it: it is      *)
(* created or deleted, exposecontroller sets or drops the                  *)
(* fabric8.io/exposeUrl annotation, endpoints become ready or not, a load  *)
(* balancer adds or drops its ingress entry.                               *)
(***************************************************************************)
EXTENDS Naturals

CONSTANTS
    Callers,     \* the callers considered, a subset of AllCallers
    Attempts,    \* the attempts argument of RetryAfter (1200 in the code)
    MaxChanges   \* how many times the cluster may change the service

AllCallers == {"openService", "FindServiceURL", "WaitForService",
               "WaitForExternalIPAddress"}

ASSUME ServiceWaitAssumption ==
    /\ Callers \subseteq AllCallers
    /\ Callers # {}
    /\ Attempts \in Nat \ {0}
    /\ MaxChanges \in Nat

\* What a Get of the service and of its endpoints can return.
\*   endpoint  "Missing", "NoSubsets", "NotReady" (a subset has a not-ready
\*             address) or "Ready"
\*   ingress   Status.LoadBalancer.Ingress: "Empty", "IP", "Hostname", or
\*             "Blank" (an entry with neither)
\* Without the service there is no annotation, no endpoints, no ingress.
ServiceStates ==
    {s \in [exists : BOOLEAN, url : BOOLEAN,
            endpoint : {"Missing", "NoSubsets", "NotReady", "Ready"},
            ingress : {"Empty", "IP", "Hostname", "Blank"}] :
       ~s.exists => ~s.url /\ s.endpoint = "Missing" /\ s.ingress = "Empty"}

VARIABLES
    svc,       \* the service and its endpoints in the cluster
    changes,   \* how often the cluster has changed them
    caller,    \* the function the command runs
    retry,     \* its retry argument (the --retry flag of `gofabric8 service')
    pc,        \* "Retry", "After" (reading the service once more), "Done",
               \* "Exited" (os.Exit(1)) or "Panicked"
    calls,     \* the callbacks RetryAfter has made
    errs,      \* len(m.Errors)
    lastOk,    \* the last callback returned nil
    result     \* what the caller returned or opened

vars == <<svc, changes, caller, retry, pc, calls, errs, lastOk, result>>

-----------------------------------------------------------------------------
(* The callbacks: TRUE when they return nil.                               *)

\* Lines 254-266.
CheckEndpointReady(s) == s.endpoint = "Ready"

\* Lines 215-234: the service, its exposeUrl annotation, its endpoint.
CheckExternalService(s) ==
    s.exists /\ s.url /\ s.endpoint # "Missing" /\ CheckEndpointReady(s)

\* Lines 239-250.
CheckService(s) == s.endpoint # "Missing" /\ CheckEndpointReady(s)

\* Lines 199-210.
CheckServiceExists(s) == s.exists /\ s.url

\* Lines 286-295.
HasExternalIP(s) == s.exists /\ s.ingress \in {"IP", "Hostname"}

\* The callback each caller hands to RetryAfter (lines 75, 160, 192, 271).
Callback(c, s) ==
    CASE c = "openService"              -> CheckExternalService(s)
      [] c = "FindServiceURL"           -> CheckServiceExists(s)
      [] c = "WaitForService"           -> CheckService(s)
      [] c = "WaitForExternalIPAddress" -> HasExternalIP(s)

-----------------------------------------------------------------------------

Init ==
    /\ svc \in ServiceStates
    /\ changes = 0
    /\ caller \in Callers
    \* WaitForService and WaitForExternalIPAddress always wait (lines 192, 271).
    /\ retry \in IF caller \in {"openService", "FindServiceURL"} THEN BOOLEAN ELSE {TRUE}
    /\ pc = IF retry THEN "Retry" ELSE "After"
    /\ calls = 0
    /\ errs = 0
    /\ lastOk = FALSE
    /\ result = "None"

\* Mutant: the loop runs while i <= attempts.
RetryAfterOffByOne ==
    /\ pc = "Retry"
    /\ calls <= Attempts
    /\ calls' = calls + 1
    /\ lastOk' = Callback(caller, svc)
    /\ IF Callback(caller, svc)
         THEN pc' = "After" /\ UNCHANGED errs
         ELSE errs' = errs + 1 /\ pc' = IF calls = Attempts THEN "Exited" ELSE "Retry"
    /\ UNCHANGED <<svc, changes, caller, retry, result>>

\* Lines 301-312, one iteration of the loop: call the callback, return nil
\* on success, else m.Collect(err) and sleep.  Lines 74-78, 159-163,
\* 192-195, 271-274: an error from RetryAfter is fatal.
RetryAfter ==
    /\ pc = "Retry"
    /\ calls < Attempts
    /\ calls' = calls + 1
    /\ lastOk' = Callback(caller, svc)
    /\ IF Callback(caller, svc)
         THEN pc' = "After" /\ UNCHANGED errs
         ELSE errs' = errs + 1 /\ pc' = IF calls + 1 = Attempts THEN "Exited" ELSE "Retry"
    /\ UNCHANGED <<svc, changes, caller, retry, result>>

\* What each caller does once the wait is over: it fetches the service
\* again and acts on what it finds then.

\* Lines 80-102: openService lists the services and opens the annotation's
\* URL, "" included; without the service it only prints an error.
OpenServiceAfter(s) ==
    /\ pc' = "Done"
    /\ result' = IF ~s.exists THEN "NotFound" ELSE IF s.url THEN "Url" ELSE "Empty"

\* Lines 165-173: FindServiceURL prints the error of Get, reads the
\* annotation of the empty Service it returned, and returns it or "".
FindServiceURLAfter(s) ==
    /\ pc' = "Done"
    /\ result' = IF ~s.exists THEN "NotFound" ELSE IF s.url THEN "Url" ELSE "Empty"

\* Line 196: WaitForService returns.
WaitForServiceAfter(s) ==
    /\ pc' = "Done"
    /\ UNCHANGED result

\* Lines 275-282: WaitForExternalIPAddress returns the error of Get, else
\* indexes Ingress[0] and returns its IP, else its Hostname.
WaitForExternalIPAddressAfter(s) ==
    IF ~s.exists THEN pc' = "Done" /\ result' = "Error"
    ELSE IF s.ingress = "Empty" THEN pc' = "Panicked" /\ UNCHANGED result
    ELSE IF s.ingress = "Blank" THEN pc' = "Done" /\ result' = "Empty"
    ELSE pc' = "Done" /\ result' = "Address"

AfterWait ==
    /\ pc = "After"
    /\ CASE caller = "openService"    -> OpenServiceAfter(svc)
         [] caller = "FindServiceURL" -> FindServiceURLAfter(svc)
         [] caller = "WaitForService" -> WaitForServiceAfter(svc)
         [] OTHER                     -> WaitForExternalIPAddressAfter(svc)
    /\ UNCHANGED <<svc, changes, caller, retry, calls, errs, lastOk>>

\* The cluster changes the service between two reads of the command.
ClusterChange ==
    /\ changes < MaxChanges
    /\ svc' \in ServiceStates \ {svc}
    /\ changes' = changes + 1
    /\ UNCHANGED <<caller, retry, pc, calls, errs, lastOk, result>>

Ended == pc \in {"Done", "Exited", "Panicked"} /\ UNCHANGED vars

Next == RetryAfter \/ AfterWait \/ ClusterChange \/ Ended

Spec == Init /\ [][Next]_vars

-----------------------------------------------------------------------------

TypeOK ==
    /\ svc \in ServiceStates
    /\ changes \in 0..MaxChanges
    /\ caller \in Callers
    /\ pc \in {"Retry", "After", "Done", "Exited", "Panicked"}
    /\ retry \in BOOLEAN
    /\ calls \in Nat
    /\ errs \in Nat
    /\ lastOk \in BOOLEAN
    /\ result \in {"None", "Url", "Empty", "NotFound", "Error", "Address"}

\* RetryAfter keeps its contract: it calls the callback at most `attempts'
\* times; it returns nil only right after a call that returned nil, and an
\* error only after `attempts' calls that all failed, every one collected.
RetryContract ==
    /\ calls <= Attempts
    /\ pc = "Retry" => errs = calls
    /\ pc \in {"After", "Done", "Panicked"} /\ retry => lastOk /\ errs = calls - 1
    /\ pc = "Exited" => ~lastOk /\ calls = Attempts /\ errs = Attempts

\* A caller that waited for the service acts on what it waited for:
\* WaitForExternalIPAddress returns a non-empty address (or an error) and
\* does not crash; openService and FindServiceURL use a non-empty URL.
ActsOnWhatItWaitedFor ==
    pc \in {"Done", "Panicked"} /\ retry =>
      /\ pc = "Done"
      /\ result \in {"None", "Url", "Address", "Error"}

=============================================================================
