--------------------------- MODULE MCTaskService ---------------------------
(* Three requests to one object: a task, a destroy task and a plain method. *)
EXTENDS TaskService

CONSTANTS r1, r2, r3, vm

MCRequests == {r1, r2, r3}
MCObjects == {vm}
MCTarget == [r \in MCRequests |-> vm]
MCKind == [r \in MCRequests |->
    IF r = r1 THEN "task" ELSE IF r = r2 THEN "destroy" ELSE "method"]
=============================================================================
