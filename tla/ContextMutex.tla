---------------------------- MODULE ContextMutex ----------------------------
(***************************************************************************)
(* What the simulator expects of the lock of a managed object: a mutex     *)
(* held by a locking context, which any number of calls made on behalf of  *)
(* that context share.  A call is one use of Registry.AcquireLock, from    *)
(* the request to the run of the unlock function it returned; which        *)
(* goroutine runs that function does not matter (Task.Run hands it to the  *)
(* goroutine that executes the task).                                      *)
(***************************************************************************)
CONSTANTS
    Calls,      \* uses of AcquireLock on one object
    Contexts,   \* locking contexts: one per request, shared with its tasks
    CtxOf       \* CtxOf[k]: the context call k is made on behalf of

VARIABLE holding    \* the calls that have acquired and not yet released

(* A call may join the holders when they all share its context. *)
Enter(k) ==
    /\ k \notin holding
    /\ \A j \in holding : CtxOf[j] = CtxOf[k]
    /\ holding' = holding \cup {k}

Leave(k) ==
    /\ k \in holding
    /\ holding' = holding \ {k}

Init == holding = {}

Next == \E k \in Calls : Enter(k) \/ Leave(k)

Spec == Init /\ [][Next]_holding
=============================================================================
