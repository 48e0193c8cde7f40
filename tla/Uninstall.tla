------------------------------- MODULE Uninstall -------------------------------
(***************************************************************************)
(* The uninstall command (src/unnamed/part_001 lines 49-97): ask for       *)
(* confirmation unless -y was given, GET the list of every tenant's        *)
(* namespaces from the init-tenant service, decode it, and run             *)
(* `gofabric8 delete tenant -t <name>' for every namespace of type "user". *)
(* Every error goes to cmdutil.CheckErr, which ends the process.           *)
(***************************************************************************)
EXTENDS Naturals, Sequences, FiniteSets

CONSTANTS
    Names,       \* tenant names
    MaxTenants,  \* the longest namespace list the service returns
    Faults       \* whether an HTTP call or a `delete tenant' may fail

\* The Type of a namespace entry: "user" or one of the tenant's other
\* namespaces (jenkins, che, run, stage).
Types == {"user", "other"}

ASSUME UninstallAssumption ==
    /\ IsFiniteSet(Names)
    /\ MaxTenants \in Nat
    /\ Faults \in BOOLEAN

Entries == [name : Names, type : Types]

\* The namespace lists the service may hold; a tenant's user namespace
\* appears once.
NamespaceLists ==
    {l \in UNION {[1..n -> Entries] : n \in 0..MaxTenants} :
       \A i, j \in DOMAIN l :
         (i # j /\ l[i].type = "user" /\ l[j].type = "user") => l[i].name # l[j].name}

VARIABLES
    server,    \* the namespaces the init-tenant service knows
    confirm,   \* p.confirm: -y was given
    answer,    \* what fmt.Scanln read: "y", "n" or "none" (not asked)
    pc,        \* "Ask", "Get", "Decode", "Loop", "Returned" or "Fatal"
    body,      \* the response body: "Json" or "Garbage"
    tenants,   \* alltenants.Namespaces
    i,         \* the index of the range loop
    deleted    \* the tenants whose `delete tenant' has run

vars == <<server, confirm, answer, pc, body, tenants, i, deleted>>

Init ==
    /\ server \in NamespaceLists
    /\ confirm \in BOOLEAN
    /\ answer = "none"
    /\ pc = IF confirm THEN "Get" ELSE "Ask"
    /\ body = "Json"
    /\ tenants = <<>>
    /\ i = 1
    /\ deleted = {}

\* cmdutil.CheckErr of an error: the process ends.
Fatal ==
    /\ Faults
    /\ pc' = "Fatal"
    /\ UNCHANGED <<server, confirm, answer, body, tenants, i, deleted>>

\* Mutant: the answer is read and not looked at.
AskIgnoringAnswer ==
    /\ pc = "Ask"
    /\ \E a \in {"y", "n"} : answer' = a
    /\ pc' = "Get"
    /\ UNCHANGED <<server, confirm, body, tenants, i, deleted>>

\* Lines 51-60: without -y, anything but "y" aborts with a nil error.
Ask ==
    /\ pc = "Ask"
    /\ \E a \in {"y", "n"} :
         /\ answer' = a
         /\ pc' = IF a = "y" THEN "Get" ELSE "Returned"
    /\ UNCHANGED <<server, confirm, body, tenants, i, deleted>>

\* Lines 61-78: the client config, the request and its body; a transport
\* error or a status of 300 or more is fatal.  A 2xx answer carries the
\* JSON list, or (a proxy's or an error page, a changed API) something else.
Get ==
    /\ pc = "Get"
    /\ \/ Fatal
       \/ /\ pc' = "Decode"
          /\ body' \in {"Json", "Garbage"}
          /\ UNCHANGED <<server, confirm, answer, tenants, i, deleted>>

\* Line 83: the error of json.Unmarshal is dropped; on a syntax error it
\* leaves alltenants as it was, empty.
Decode ==
    /\ pc = "Decode"
    /\ tenants' = IF body = "Json" THEN server ELSE <<>>
    /\ pc' = "Loop"
    /\ UNCHANGED <<server, confirm, answer, body, i, deleted>>

\* Mutant: every namespace entry is deleted as a tenant.
DeleteTenantAnyType ==
    /\ pc = "Loop"
    /\ i <= Len(tenants)
    /\ \/ Fatal
       \/ /\ deleted' = deleted \cup {tenants[i].name}
          /\ i' = i + 1
          /\ UNCHANGED <<server, confirm, answer, pc, body, tenants>>

\* Lines 85-95, one iteration: an entry of type "user" is deleted with
\* `gofabric8 delete tenant'; its failure is fatal.  Other entries are
\* skipped.
DeleteTenant ==
    /\ pc = "Loop"
    /\ i <= Len(tenants)
    /\ IF tenants[i].type = "user"
         THEN \/ Fatal
              \/ /\ deleted' = deleted \cup {tenants[i].name}
                 /\ i' = i + 1
                 /\ UNCHANGED <<server, confirm, answer, pc, body, tenants>>
         ELSE /\ i' = i + 1
              /\ UNCHANGED <<server, confirm, answer, pc, body, tenants, deleted>>

\* Line 97: the loop is over; uninstall returns nil.
Finish ==
    /\ pc = "Loop"
    /\ i > Len(tenants)
    /\ pc' = "Returned"
    /\ UNCHANGED <<server, confirm, answer, body, tenants, i, deleted>>

Ended == pc \in {"Returned", "Fatal"} /\ UNCHANGED vars

Next == Ask \/ Get \/ Decode \/ DeleteTenant \/ Finish \/ Ended

Spec == Init /\ [][Next]_vars

-----------------------------------------------------------------------------

TypeOK ==
    /\ server \in NamespaceLists
    /\ confirm \in BOOLEAN
    /\ answer \in {"none", "y", "n"}
    /\ pc \in {"Ask", "Get", "Decode", "Loop", "Returned", "Fatal"}
    /\ body \in {"Json", "Garbage"}
    /\ tenants \in Seq(Entries)
    /\ i \in Nat \ {0}
    /\ deleted \subseteq Names

UserTenants == {server[k].name : k \in {k \in DOMAIN server : server[k].type = "user"}}

\* Whatever the answers, failures and bodies, uninstall deletes only
\* tenants the service lists as users, and deletes none unless -y was given
\* or "y" was answered at the prompt (lines 51-60 and 86).
ConsentAndScope ==
    /\ deleted \subseteq UserTenants
    /\ deleted # {} => confirm \/ answer = "y"

\* When uninstall returns nil after the user agreed, every tenant is gone
\* ("Delete all your tenant resources", line 36).
AllDeletedOnSuccess ==
    (pc = "Returned" /\ (confirm \/ answer = "y")) => deleted = UserTenants

=============================================================================
