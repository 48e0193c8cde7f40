--------------------------- MODULE ServiceWaitProofs ---------------------------
(***************************************************************************)
(* Proof that RetryAfter keeps its contract for every attempt count, every *)
(* caller and every way the cluster changes the service.                   *)
(***************************************************************************)
EXTENDS ServiceWait, TLAPS

USE ServiceWaitAssumption

\* Each callback answers with a Boolean: nil or an error.
LEMMA CallbackType ==
    ASSUME NEW c \in Callers, NEW s \in ServiceStates
    PROVE  Callback(c, s) \in BOOLEAN
BY DEF Callback, AllCallers, CheckExternalService, CheckServiceExists,
       CheckService, HasExternalIP, CheckEndpointReady

\* RetryContract holds together with the types: the loop's counters are
\* natural numbers and never pass the attempt count.
IInv == TypeOK /\ RetryContract

LEMMA IInvInit == Init => IInv
<1> SUFFICES ASSUME Init PROVE IInv
  OBVIOUS
<1>1. retry \in BOOLEAN
  BY DEF Init
<1>2. TypeOK
  <2>1. pc \in {"Retry", "After", "Done", "Exited", "Panicked"}
    BY <1>1, Zenon DEF Init
  <2>2. changes \in 0..MaxChanges /\ calls \in Nat /\ errs \in Nat
    BY DEF Init
  <2>3. QED
    BY <1>1, <2>1, <2>2 DEF Init, TypeOK
<1>3. RetryContract
  BY <1>1 DEF Init, RetryContract
<1>4. QED
  BY <1>2, <1>3 DEF IInv

\* One iteration of the loop: a nil answer ends the wait, an error is
\* collected and, at the last attempt, ends the process.
LEMMA RetryStep ==
    ASSUME IInv, RetryAfter
    PROVE  IInv'
<1> USE DEF IInv
<1>1. pc = "Retry" /\ errs = calls /\ calls < Attempts /\ calls \in Nat
  BY DEF RetryAfter, RetryContract, TypeOK
<1>2. Callback(caller, svc) \in BOOLEAN
  BY CallbackType DEF TypeOK
<1>3. CASE Callback(caller, svc)
  BY <1>1, <1>2, <1>3 DEF RetryAfter, TypeOK, RetryContract
<1>4. CASE ~Callback(caller, svc)
  BY <1>1, <1>2, <1>4 DEF RetryAfter, TypeOK, RetryContract
<1>5. QED
  BY <1>3, <1>4

\* Once the wait is over, the caller's last read changes neither the
\* counters nor the outcome of the last callback.
LEMMA AfterStep ==
    ASSUME IInv, AfterWait
    PROVE  IInv'
<1> USE DEF IInv
<1>1. /\ pc' \in {"Done", "Panicked"}
      /\ result' \in {"None", "Url", "Empty", "NotFound", "Error", "Address"}
  BY DEF AfterWait, OpenServiceAfter, FindServiceURLAfter, WaitForServiceAfter,
         WaitForExternalIPAddressAfter, TypeOK
<1>2. pc = "After"
  BY DEF AfterWait
<1>3. QED
  BY <1>1, <1>2 DEF AfterWait, TypeOK, RetryContract

LEMMA IInvStep == IInv /\ [Next]_vars => IInv'
<1> SUFFICES ASSUME IInv, [Next]_vars PROVE IInv'
  OBVIOUS
<1>1. CASE RetryAfter
  BY <1>1, RetryStep
<1>2. CASE AfterWait
  BY <1>2, AfterStep
<1>3. CASE ClusterChange
  BY <1>3 DEF ClusterChange, IInv, TypeOK, RetryContract
<1>4. CASE Ended \/ UNCHANGED vars
  BY <1>4 DEF Ended, vars, IInv, TypeOK, RetryContract
<1>5. QED
  BY <1>1, <1>2, <1>3, <1>4 DEF Next

\* RetryAfter (service.go lines 301-312) calls its callback at most
\* `attempts' times, returns nil only right after a call that returned nil,
\* and fails only after `attempts' calls whose errors were all collected,
\* for every attempt count and every caller.
THEOREM RetryContractInvariant == Spec => []RetryContract
<1>1. Init => IInv
  BY IInvInit
<1>2. IInv => RetryContract
  BY DEF IInv
<1>3. QED
  BY <1>1, <1>2, IInvStep, PTL DEF Spec

=============================================================================
