----------------------------- MODULE MCErasePVC -----------------------------
(***************************************************************************)
(* A namespace for TLC: the database controller mounts the claim and is    *)
(* labelled service=app, the web controller shares the label without       *)
(* mounting the claim, a third controller is unrelated.  Each runs one     *)
(* replica and has one spare pod name for its replacement.                 *)
(***************************************************************************)
EXTENDS ErasePVC

CONSTANTS db1, db2, web1, web2, other1, other2, db, web, other, app

MCPods == {db1, db2, web1, web2, other1, other2}
MCControllers == {db, web, other}
MCServices == {app}
MCOwner == [p \in Pods |->
              IF p \in {db1, db2} THEN db
              ELSE IF p \in {web1, web2} THEN web ELSE other]
MCMounts == {db}
MCLabel == [c \in Controllers |-> IF c = other THEN NoService ELSE app]
MCReplicas == [c \in Controllers |-> 1]

\* Without the unrelated controller, for the busy namespace.
MCBusyPods == {db1, db2, web1, web2}
MCBusyControllers == {db, web}
=============================================================================
