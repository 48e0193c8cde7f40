---------------------------- MODULE UninstallProofs ----------------------------
(***************************************************************************)
(* Proof that uninstall deletes only listed user tenants and only with     *)
(* the user's consent, for every tenant list and every sequence of         *)
(* answers, failures and bodies.                                           *)
(***************************************************************************)
EXTENDS Uninstall, SequenceTheorems, TLAPS

USE UninstallAssumption

\* A namespace list the service returns is a sequence of entries.
LEMMA ListIsSeq ==
    ASSUME NEW l \in NamespaceLists
    PROVE  /\ l \in Seq(Entries)
           /\ DOMAIN l = 1..Len(l)
<1>1. PICK n \in 0..MaxTenants : l \in [1..n -> Entries]
  BY DEF NamespaceLists
<1>2. l \in Seq(Entries)
  BY <1>1, SeqDef
<1>3. QED
  BY <1>2, LenProperties

\* The strengthening of ConsentAndScope: the decoded list is empty or the
\* service's list, and no deletion can start before consent was given.
IInv ==
    /\ server \in NamespaceLists
    /\ pc \in {"Ask", "Get", "Decode", "Loop", "Returned", "Fatal"}
    /\ i \in Nat \ {0}
    /\ tenants \in {<<>>, server}
    /\ pc = "Ask" => deleted = {}
    /\ pc \in {"Get", "Decode", "Loop"} => confirm \/ answer = "y"
    /\ ConsentAndScope

LEMMA IInvInit == Init => IInv
BY DEF Init, IInv, ConsentAndScope

\* One iteration of the loop deletes, if anything, a user tenant of the
\* service's list: the decoded list is not empty, so it is the service's.
LEMMA DeleteStep ==
    ASSUME IInv, DeleteTenant
    PROVE  IInv'
<1> USE DEF IInv
<1>1. pc = "Loop" /\ i <= Len(tenants)
  BY DEF DeleteTenant
<1>2. tenants = server
  BY <1>1
<1>3. i \in DOMAIN server
  BY <1>1, <1>2, ListIsSeq
<1>4. CASE tenants[i].type = "user"
  <2>1. tenants[i].name \in UserTenants
    BY <1>2, <1>3, <1>4 DEF UserTenants
  <2>2. CASE Fatal
    BY <2>2 DEF Fatal, ConsentAndScope, UserTenants
  <2>3. CASE /\ deleted' = deleted \cup {tenants[i].name}
             /\ i' = i + 1
             /\ UNCHANGED <<server, confirm, answer, pc, body, tenants>>
    BY <1>1, <2>1, <2>3 DEF ConsentAndScope, UserTenants
  <2>4. QED
    BY <1>4, <2>2, <2>3 DEF DeleteTenant
<1>5. CASE tenants[i].type # "user"
  BY <1>5 DEF DeleteTenant, ConsentAndScope, UserTenants
<1>6. QED
  BY <1>4, <1>5

LEMMA IInvStep == IInv /\ [Next]_vars => IInv'
<1> SUFFICES ASSUME IInv, [Next]_vars PROVE IInv'
  OBVIOUS
<1> USE DEF IInv
<1>1. CASE Ask
  BY <1>1 DEF Ask, ConsentAndScope, UserTenants
<1>2. CASE Get
  BY <1>2 DEF Get, Fatal, ConsentAndScope, UserTenants
<1>3. CASE Decode
  BY <1>3 DEF Decode, ConsentAndScope, UserTenants
<1>4. CASE DeleteTenant
  BY <1>4, DeleteStep
<1>5. CASE Finish
  BY <1>5 DEF Finish, ConsentAndScope, UserTenants
<1>6. CASE Ended \/ UNCHANGED vars
  BY <1>6 DEF Ended, vars, ConsentAndScope, UserTenants
<1>7. QED
  BY <1>1, <1>2, <1>3, <1>4, <1>5, <1>6 DEF Next

\* uninstall never deletes a tenant the service does not list as a user,
\* and deletes none unless -y was given or "y" was answered (part_001
\* lines 51-60 and 86), whatever the tenant list.
THEOREM ConsentAndScopeInvariant == Spec => []ConsentAndScope
<1>1. Init => IInv
  BY IInvInit
<1>2. IInv => ConsentAndScope
  BY DEF IInv
<1>3. QED
  BY <1>1, <1>2, IInvStep, PTL DEF Spec

=============================================================================
