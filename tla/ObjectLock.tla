----------------------------- MODULE ObjectLock -----------------------------
(***************************************************************************)
(* simulator/internal/object_lock.go: the reference-counted mutex that     *)
(* guards one managed object of the simulator.                             *)
(*                                                                         *)
(* Each call k is one goroutine that runs Acquire(CtxOf[k]) and, later,    *)
(* Release(CtxOf[k]).  A step is the code between two points at which the  *)
(* goroutine can block or be observed: taking l.stateLock, taking l.lock,  *)
(* and giving one back.                                                    *)
(***************************************************************************)
EXTENDS Integers, FiniteSets

CONSTANTS
    Calls,      \* uses of AcquireLock on the object
    Contexts,   \* SharedLockingContexts
    CtxOf,      \* CtxOf[k]: the context call k is made on behalf of
    Nobody      \* no call, no context (Go's nil)

ASSUME LockAssumption ==
    /\ CtxOf \in [Calls -> Contexts]
    /\ Nobody \notin Calls \cup Contexts

VARIABLES
    lock,       \* l.lock (a sync.Mutex): is it locked
    stateLock,  \* l.stateLock: the call inside try or Release, or Nobody
    heldBy,     \* l.heldBy
    count,      \* l.count
    pc          \* where each call is

vars == <<lock, stateLock, heldBy, count, pc>>

(* Where a call can be. *)
Locations == {
    "start",        \* Acquire not called yet
    "tryEnter",     \* try: at l.stateLock.Lock()
    "try",          \* try: holds stateLock, about to look at heldBy
    "tryLock",      \* try: holds stateLock, at l.lock.Lock()
    "wait",         \* wait: at l.lock.Lock()
    "waitUnlock",   \* wait: at l.lock.Unlock()
    "held",         \* Acquire returned; the caller's code runs
    "releaseEnter", \* Release: at l.stateLock.Lock()
    "release",      \* Release: holds stateLock
    "released",     \* Release returned
    "panicked"}     \* Release panicked

Init ==
    /\ lock = FALSE
    /\ stateLock = Nobody
    /\ heldBy = Nobody
    /\ count = 0
    /\ pc = [k \in Calls |-> "start"]

Goto(k, from, to) == pc[k] = from /\ pc' = [pc EXCEPT ![k] = to]

-----------------------------------------------------------------------------
(* Faulty variants of the steps below.  No specification uses them: each   *)
(* is a slip that one of the properties at the end of the module detects.  *)

(* try that takes "held by someone" for "held by my context". *)
TrySharedAnyHolder(k) ==
    /\ Goto(k, "try", "held")
    /\ heldBy # Nobody
    /\ count' = count + 1
    /\ stateLock' = Nobody
    /\ UNCHANGED <<lock, heldBy>>

(* A shared acquire that takes no reference. *)
TrySharedNoReference(k) ==
    /\ Goto(k, "try", "held")
    /\ heldBy = CtxOf[k]
    /\ stateLock' = Nobody
    /\ UNCHANGED <<lock, heldBy, count>>

(* wait that returns at once: Acquire busy-waits. *)
WaitBusy(k) ==
    /\ Goto(k, "wait", "tryEnter")
    /\ UNCHANGED <<lock, stateLock, heldBy, count>>

(* Release that forgets l.lock.Unlock(). *)
DropWithoutUnlock(k) ==
    /\ pc' = [pc EXCEPT ![k] = "released"]
    /\ count' = count - 1
    /\ heldBy' = IF count' = 0 THEN Nobody ELSE heldBy
    /\ UNCHANGED lock

-----------------------------------------------------------------------------
(* Acquire *)

Acquire(k) ==
    /\ Goto(k, "start", "tryEnter")
    /\ UNCHANGED <<lock, stateLock, heldBy, count>>

TryEnter(k) ==
    /\ Goto(k, "tryEnter", "try")
    /\ stateLock = Nobody
    /\ stateLock' = k
    /\ UNCHANGED <<lock, heldBy, count>>

(* heldBy is the call's own context: one more reference. *)
TryShared(k) ==
    /\ Goto(k, "try", "held")
    /\ heldBy = CtxOf[k]
    /\ count' = count + 1
    /\ stateLock' = Nobody
    /\ UNCHANGED <<lock, heldBy>>

(* heldBy is nil: go on to take l.lock, still holding stateLock. *)
TryFree(k) ==
    /\ Goto(k, "try", "tryLock")
    /\ heldBy = Nobody
    /\ UNCHANGED <<lock, stateLock, heldBy, count>>

TryLock(k) ==
    /\ Goto(k, "tryLock", "held")
    /\ ~lock
    /\ lock' = TRUE
    /\ count' = 1
    /\ heldBy' = CtxOf[k]
    /\ stateLock' = Nobody

(* Held by another context: try returns false and Acquire waits. *)
TryFail(k) ==
    /\ Goto(k, "try", "wait")
    /\ heldBy \notin {CtxOf[k], Nobody}
    /\ stateLock' = Nobody
    /\ UNCHANGED <<lock, heldBy, count>>

WaitLock(k) ==
    /\ Goto(k, "wait", "waitUnlock")
    /\ ~lock
    /\ lock' = TRUE
    /\ UNCHANGED <<stateLock, heldBy, count>>

WaitUnlock(k) ==
    /\ Goto(k, "waitUnlock", "tryEnter")
    /\ lock' = FALSE
    /\ UNCHANGED <<stateLock, heldBy, count>>

-----------------------------------------------------------------------------
(* Release *)

Release(k) ==
    /\ Goto(k, "held", "releaseEnter")
    /\ UNCHANGED <<lock, stateLock, heldBy, count>>

ReleaseEnter(k) ==
    /\ Goto(k, "releaseEnter", "release")
    /\ stateLock = Nobody
    /\ stateLock' = k
    /\ UNCHANGED <<lock, heldBy, count>>

(* The sanity check failed: the panic still runs the deferred unlock. *)
ReleasePanic(k) ==
    /\ pc' = [pc EXCEPT ![k] = "panicked"]
    /\ UNCHANGED <<lock, heldBy, count>>

(* The last reference of the context gives the object up. *)
DropReference(k) ==
    /\ pc' = [pc EXCEPT ![k] = "released"]
    /\ count' = count - 1
    /\ IF count' = 0
       THEN heldBy' = Nobody /\ lock' = FALSE
       ELSE UNCHANGED <<heldBy, lock>>

ReleaseRef(k) ==
    /\ pc[k] = "release"
    /\ IF heldBy # CtxOf[k] THEN ReleasePanic(k) ELSE DropReference(k)
    /\ stateLock' = Nobody

-----------------------------------------------------------------------------
Step(k) ==
    \/ TryEnter(k) \/ TryShared(k) \/ TryFree(k) \/ TryLock(k) \/ TryFail(k)
    \/ WaitLock(k) \/ WaitUnlock(k)
    \/ Release(k) \/ ReleaseEnter(k) \/ ReleaseRef(k)

(* Every call is over: nothing is left to do. *)
Terminated ==
    /\ \A k \in Calls : pc[k] = "released"
    /\ UNCHANGED vars

Next == (\E k \in Calls : Acquire(k) \/ Step(k)) \/ Terminated

(***************************************************************************)
(* A goroutine that can run does run, and the code a lock protects comes   *)
(* to an end (it does: handlers and tasks return).  Nothing makes a client *)
(* issue a request, so Acquire has no fairness.                            *)
(***************************************************************************)
Fairness == \A k \in Calls : WF_vars(Step(k))

Spec == Init /\ [][Next]_vars /\ Fairness
-----------------------------------------------------------------------------
(* The calls whose Acquire returned and whose Release has not completed. *)
holding == {k \in Calls : pc[k] \in {"held", "releaseEnter", "release"}}

(* Every variable has its type. *)
TypeOK ==
    /\ lock \in BOOLEAN
    /\ stateLock \in Calls \cup {Nobody}
    /\ heldBy \in Contexts \cup {Nobody}
    /\ count \in Nat
    /\ pc \in [Calls -> Locations]

(* The code that Acquire protects never runs on behalf of two contexts. *)
MutualExclusion == \A j, k \in holding : CtxOf[j] = CtxOf[k]

(***************************************************************************)
(* l.count is the number of Releases still owed, so the context gives the  *)
(* object up with its last reference and not before.                       *)
(***************************************************************************)
CountsReferences ==
    /\ count = Cardinality(holding)
    /\ heldBy = Nobody <=> count = 0

(* Release's sanity check never fires for a caller that did acquire. *)
NoPanic == \A k \in Calls : pc[k] # "panicked"

(***************************************************************************)
(* try takes l.lock while it holds stateLock, which Release needs in order *)
(* to give l.lock back.  This is safe because, whenever heldBy is nil, a   *)
(* locked l.lock belongs to a call inside wait, which needs no stateLock   *)
(* to unlock it ("we expect no contention for this lock").                 *)
(***************************************************************************)
OnlyWaitersContend ==
    heldBy = Nobody /\ lock => \E k \in Calls : pc[k] = "waitUnlock"

(* stateLock is held exactly inside the bodies of try and Release. *)
StateLockOwner ==
    \A k \in Calls : pc[k] \in {"try", "tryLock", "release"} <=> stateLock = k

(* The holders act on behalf of the recorded context. *)
HoldersShareContext == \A k \in holding : heldBy = CtxOf[k]

(* A call about to take l.lock in try still finds heldBy nil. *)
FreeWhenLocking == \A k \in Calls : pc[k] = "tryLock" => heldBy = Nobody

(* l.lock is held by the context or by a single call inside wait. *)
LockOwner ==
    /\ heldBy # Nobody => lock
    /\ \A k \in Calls : pc[k] = "waitUnlock" => lock /\ heldBy = Nobody
    /\ \A j, k \in Calls : pc[j] = "waitUnlock" /\ pc[k] = "waitUnlock" => j = k

(***************************************************************************)
(* The inductive invariant: which call owns which of the two mutexes, and  *)
(* what heldBy and count record about the holders.                         *)
(***************************************************************************)
IInv ==
    /\ TypeOK
    /\ StateLockOwner
    /\ HoldersShareContext
    /\ FreeWhenLocking
    /\ LockOwner
    /\ OnlyWaitersContend
    /\ IsFiniteSet(holding)
    /\ CountsReferences
    /\ NoPanic

(* Every Acquire returns, once the holders before it have released. *)
AcquireReturns == \A k \in Calls : pc[k] = "tryEnter" ~> pc[k] = "held"

(* ObjectLock is a mutex shared by the calls of one context. *)
Mutex == INSTANCE ContextMutex WITH
    Calls <- Calls, Contexts <- Contexts, CtxOf <- CtxOf, holding <- holding

(* Every behaviour of the two-lock protocol is one of that mutex. *)
RefinesContextMutex == Mutex!Spec
=============================================================================
