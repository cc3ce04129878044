---------------------------- MODULE TaskService ----------------------------
(***************************************************************************)
(* Method calls on managed objects and the tasks they start:               *)
(* Service.call (simulator/simulator.go), the object locks and the removal *)
(* of objects (simulator/registry.go), and Task (simulator/task.go).       *)
(*                                                                         *)
(* A request locates its object, takes the object's lock on behalf of its  *)
(* own context and runs the method.  A task method registers a task, takes *)
(* the lock once more for the goroutine that executes it (the "hand off"), *)
(* and replies.  Each lock is the mutex of module ContextMutex, which      *)
(* module ObjectLock implements: holders[l] is its holding, and the        *)
(* context of <<r, side>> is r.                                            *)
(***************************************************************************)
EXTENDS Integers, FiniteSets

CONSTANTS
    Requests,   \* method calls, each with a Context of its own
    Objects,    \* managed objects that can be the target of a call
    Target,     \* Target[r]: the object r is sent to
    Kind,       \* Kind[r]: what r's method does, see Kinds
    Waited,     \* the requests whose task some goroutine waits for
    Handoffs,   \* values of handoff to consider
    MaxLocks    \* bound on the ObjectLocks created

Kinds == {"method",     \* runs to its end inside the call
          "task",       \* starts a task
          "destroy"}    \* starts a task that removes the object

Sides == {"call", "task"}   \* the request's goroutine, the task's goroutine
LockIds == 1 .. MaxLocks
NoLock == 0

ASSUME TaskServiceAssumption ==
    /\ Target \in [Requests -> Objects]
    /\ Kind \in [Requests -> Kinds]
    /\ Waited \subseteq Requests
    /\ Handoffs \subseteq BOOLEAN
    /\ MaxLocks \in Nat

TaskStates == {"none", "queued", "running", "success", "error"}

VARIABLES
    objects,    \* r.objects: the registered objects
    locks,      \* r.locks: the lock of each object, NoLock when there is none
    created,    \* locks 1 .. created have been made
    holders,    \* who holds each lock: pairs of a request and a side
    lockOf,     \* the lock each request and side waits for or holds
    pc,         \* where each request is
    tpc,        \* where the goroutine of each request's task is
    state,      \* task.Info.State
    lastInside, \* the last request whose method or task entered each object
    waited,     \* the tasks for which Task.Wait has returned
    handoff     \* TaskDelay's LockHandoff: TRUE unless it is set to 0

vars == <<objects, locks, created, holders, lockOf, pc, tpc, state,
          lastInside, waited, handoff>>
registry == <<objects, locks, created>>
locking == <<locks, created, holders, lockOf>>
tasks == <<state, waited>>

Init ==
    /\ objects = Objects
    /\ locks = [o \in Objects |-> NoLock]
    /\ created = 0
    /\ holders = [l \in LockIds |-> {}]
    /\ lockOf = [r \in Requests |-> [s \in Sides |-> NoLock]]
    /\ pc = [r \in Requests |-> "start"]
    /\ tpc = [r \in Requests |-> "none"]
    /\ state = [r \in Requests |-> "none"]
    /\ lastInside = [o \in Objects |-> {}]
    /\ waited = {}
    /\ handoff \in Handoffs

Goto(r, from, to) == pc[r] = from /\ pc' = [pc EXCEPT ![r] = to]
TaskGoto(r, from, to) == tpc[r] = from /\ tpc' = [tpc EXCEPT ![r] = to]

(* isDone *)
Done(r) == state[r] \in {"success", "error"}

-----------------------------------------------------------------------------
(* Faulty variants, each detected by a property at the end of the module.  *)

(* A task that does not take a reference of its own before the reply. *)
HandoffNothing(r) ==
    /\ Goto(r, "handoff", "spawn")
    /\ handoff
    /\ lockOf' = [lockOf EXCEPT ![r]["task"] = lockOf[r]["call"]]
    /\ UNCHANGED <<objects, locks, created, holders, tpc, tasks, lastInside>>

(* The lock of an object recreated for every call. *)
LockerAlwaysNew(r, side) ==
    LET o == Target[r] IN
    /\ created < MaxLocks
    /\ created' = created + 1
    /\ locks' = [locks EXCEPT ![o] = created + 1]
    /\ lockOf' = [lockOf EXCEPT ![r][side] = created + 1]

(* CancelTask without the isDone check. *)
CancelAnyTask(r) ==
    /\ state[r] # "none"
    /\ state' = [state EXCEPT ![r] = "error"]
    /\ UNCHANGED <<objects, locking, pc, tpc, lastInside, waited, handoff>>

(* A task that never gives its reference back. *)
TaskUnlockForgotten(r) ==
    /\ TaskGoto(r, "unlock", "complete")
    /\ UNCHANGED <<objects, locking, pc, tasks, lastInside>>

-----------------------------------------------------------------------------
(* Registry.locker: the lock of the object, made when there is none. *)
Locker(r, side) ==
    LET o == Target[r] IN
    IF locks[o] # NoLock
    THEN /\ lockOf' = [lockOf EXCEPT ![r][side] = locks[o]]
         /\ UNCHANGED <<locks, created>>
    ELSE /\ created < MaxLocks
         /\ created' = created + 1
         /\ locks' = [locks EXCEPT ![o] = created + 1]
         /\ lockOf' = [lockOf EXCEPT ![r][side] = created + 1]

(* ObjectLock.Acquire takes effect: the holders share r's context. *)
Enter(r, side) ==
    LET l == lockOf[r][side] IN
    /\ \A h \in holders[l] : h[1] = r
    /\ holders' = [holders EXCEPT ![l] = @ \cup {<<r, side>>}]

(* The unlock function returned by AcquireLock. *)
Leave(r, side) ==
    LET l == lockOf[r][side] IN
    holders' = [holders EXCEPT ![l] = @ \ {<<r, side>>}]

(* Registry.Remove, from the task that destroys the object. *)
Remove(o) ==
    /\ objects' = objects \ {o}
    /\ locks' = [locks EXCEPT ![o] = NoLock]

-----------------------------------------------------------------------------
(* Service.call *)

Locate(r) ==
    /\ Goto(r, "start", IF Target[r] \in objects THEN "locker" ELSE "fault")
    /\ UNCHANGED <<objects, locking, tpc, tasks, lastInside>>

CallLocker(r) ==
    /\ Goto(r, "locker", "acquire")
    /\ Locker(r, "call")
    /\ UNCHANGED <<objects, holders, tpc, tasks, lastInside>>

CallAcquire(r) ==
    /\ Goto(r, "acquire", IF Kind[r] = "method" THEN "unlock" ELSE "put")
    /\ Enter(r, "call")
    /\ lastInside' = [lastInside EXCEPT ![Target[r]] = {r}]
    /\ UNCHANGED <<registry, lockOf, tpc, tasks>>

CallUnlock(r) ==
    /\ Goto(r, "unlock", "replied")
    /\ Leave(r, "call")
    /\ UNCHANGED <<registry, lockOf, tpc, tasks, lastInside>>

-----------------------------------------------------------------------------
(* Task.Run, inside the method *)

(* The task is in the registry, queued, and so within reach of clients. *)
RunPut(r) ==
    /\ Goto(r, "put", "running")
    /\ state' = [state EXCEPT ![r] = "queued"]
    /\ UNCHANGED <<objects, locking, tpc, lastInside, waited>>

RunRunning(r) ==
    /\ Goto(r, "running", IF handoff THEN "handoffLocker" ELSE "spawn")
    /\ state' = [state EXCEPT ![r] = "running"]
    /\ UNCHANGED <<objects, locking, tpc, lastInside, waited>>

RunLocker(r) ==
    /\ Goto(r, "handoffLocker", "handoff")
    /\ Locker(r, "task")
    /\ UNCHANGED <<objects, holders, tpc, tasks, lastInside>>

RunHandoff(r) ==
    /\ Goto(r, "handoff", "spawn")
    /\ Enter(r, "task")
    /\ UNCHANGED <<registry, lockOf, tpc, tasks, lastInside>>

RunSpawn(r) ==
    /\ Goto(r, "spawn", "unlock")
    /\ tpc' = [tpc EXCEPT ![r] = IF handoff THEN "begin" ELSE "locker"]
    /\ UNCHANGED <<objects, locking, tasks, lastInside>>

-----------------------------------------------------------------------------
(* The task's goroutine *)

TaskLocker(r) ==
    /\ TaskGoto(r, "locker", "acquire")
    /\ Locker(r, "task")
    /\ UNCHANGED <<objects, holders, pc, tasks, lastInside>>

TaskAcquire(r) ==
    /\ TaskGoto(r, "acquire", "begin")
    /\ Enter(r, "task")
    /\ UNCHANGED <<registry, lockOf, pc, tasks, lastInside>>

ExecuteBegin(r) ==
    /\ TaskGoto(r, "begin", "execute")
    /\ lastInside' = [lastInside EXCEPT ![Target[r]] = @ \cup {r}]
    /\ UNCHANGED <<objects, locking, pc, tasks>>

ExecuteRemove(r) ==
    /\ Kind[r] = "destroy"
    /\ TaskGoto(r, "execute", "removed")
    /\ Remove(Target[r])
    /\ UNCHANGED <<created, holders, lockOf, pc, tasks, lastInside>>

ExecuteEnd(r) ==
    /\ tpc[r] = IF Kind[r] = "destroy" THEN "removed" ELSE "execute"
    /\ tpc' = [tpc EXCEPT ![r] = "unlock"]
    /\ UNCHANGED <<objects, locking, pc, tasks, lastInside>>

TaskUnlock(r) ==
    /\ TaskGoto(r, "unlock", "complete")
    /\ Leave(r, "task")
    /\ UNCHANGED <<registry, lockOf, pc, tasks, lastInside>>

(* Execute's outcome, whatever the state of the task is by now. *)
Complete(r) ==
    /\ TaskGoto(r, "complete", "done")
    /\ \E s \in {"success", "error"} : state' = [state EXCEPT ![r] = s]
    /\ UNCHANGED <<objects, locking, pc, lastInside, waited>>

-----------------------------------------------------------------------------
(* What clients do to a registered task, each under the task's own lock *)

CancelTask(r) ==
    /\ state[r] # "none" /\ ~Done(r)
    /\ state' = [state EXCEPT ![r] = "error"]
    /\ UNCHANGED <<objects, locking, pc, tpc, lastInside, waited, handoff>>

SetTaskState(r) ==
    /\ state[r] # "none" /\ ~Done(r)
    /\ \E s \in TaskStates \ {"none"} : state' = [state EXCEPT ![r] = s]
    /\ UNCHANGED <<objects, locking, pc, tpc, lastInside, waited, handoff>>

(* Task.Wait, called once Run has returned, finds the task done. *)
WaitReturns(r) ==
    /\ tpc[r] # "none" /\ Done(r) /\ r \notin waited
    /\ waited' = waited \cup {r}
    /\ UNCHANGED <<objects, locking, pc, tpc, state, lastInside, handoff>>

-----------------------------------------------------------------------------
CallStep(r) ==
    /\ \/ Locate(r) \/ CallLocker(r) \/ CallAcquire(r) \/ CallUnlock(r)
       \/ RunPut(r) \/ RunRunning(r) \/ RunLocker(r) \/ RunHandoff(r) \/ RunSpawn(r)
    /\ UNCHANGED handoff

TaskStep(r) ==
    /\ \/ TaskLocker(r) \/ TaskAcquire(r) \/ ExecuteBegin(r) \/ ExecuteRemove(r)
       \/ ExecuteEnd(r) \/ TaskUnlock(r) \/ Complete(r)
    /\ UNCHANGED handoff

Answered(r) == pc[r] \in {"replied", "fault"}

Next ==
    \/ \E r \in Requests : CallStep(r) \/ TaskStep(r)
    \/ \E r \in Requests : CancelTask(r) \/ SetTaskState(r)
    \/ \E r \in Waited : WaitReturns(r)

(* Goroutines run; Execute returns; Wait polls; clients do what they like. *)
Fairness ==
    /\ \A r \in Requests : WF_vars(CallStep(r)) /\ WF_vars(TaskStep(r))
    /\ \A r \in Waited : WF_vars(WaitReturns(r))

Spec == Init /\ [][Next]_vars /\ Fairness

-----------------------------------------------------------------------------
(* Every variable has its type. *)
TypeOK ==
    /\ objects \subseteq Objects
    /\ locks \in [Objects -> LockIds \cup {NoLock}]
    /\ created \in 0 .. MaxLocks
    /\ holders \in [LockIds -> SUBSET (Requests \X Sides)]
    /\ lockOf \in [Requests -> [Sides -> LockIds \cup {NoLock}]]
    /\ pc \in [Requests -> {"start", "locker", "acquire", "put", "running",
                 "handoffLocker", "handoff", "spawn", "unlock", "replied", "fault"}]
    /\ tpc \in [Requests -> {"none", "locker", "acquire", "begin", "execute",
                 "removed", "unlock", "complete", "done"}]
    /\ state \in [Requests -> TaskStates]
    /\ lastInside \in [Objects -> SUBSET Requests]
    /\ waited \subseteq Requests
    /\ handoff \in Handoffs

(* The requests whose method or task is running on its object. *)
Inside == {r \in Requests :
    \/ pc[r] \in {"put", "running", "handoffLocker", "handoff", "spawn", "unlock"}
    \/ tpc[r] \in {"begin", "execute", "removed", "unlock"}}

(***************************************************************************)
(* The methods and tasks of two requests never run on one object at the    *)
(* same time while it is registered.  (Remove drops the lock from r.locks, *)
(* so a request that located the object before gets a new one and runs     *)
(* beside the rest of the task that destroys it.)                          *)
(***************************************************************************)
ExclusiveWhileRegistered ==
    \A r, s \in Inside :
        r # s /\ Target[r] = Target[s] => Target[r] \notin objects

(***************************************************************************)
(* The hand off is seamless: no other request has been inside the object   *)
(* between the method that started a task and the task's execution.        *)
(***************************************************************************)
SeamlessHandoff ==
    [][\A r \in Requests :
         handoff /\ tpc[r] = "begin" /\ tpc'[r] = "execute" /\ Target[r] \in objects
            => lastInside[Target[r]] = {r}]_vars

(* A completed task keeps the state that Execute gave it. *)
CompletedIsFinal == [][\A r \in Requests : tpc[r] = "done" => state'[r] = state[r]]_vars

(* Every request is answered, every task it started comes to an end and every *)
(* Wait for one returns, whatever clients do to the state of the task.        *)
EverythingEnds ==
    \A r \in Requests :
        <>(/\ Answered(r) /\ tpc[r] \in {"none", "done"}
           /\ r \in Waited /\ tpc[r] = "done" => r \in waited)

(* A task whose goroutine is done has a final state, so Wait returns. *)
DoneWhenComplete == \A r \in Requests : tpc[r] = "done" => Done(r)

(* What holds of every call in every state: calls on a registered object      *)
(* exclude each other, and a task whose goroutine is done can be waited for.  *)
CallsOK == TypeOK /\ ExclusiveWhileRegistered /\ DoneWhenComplete
=============================================================================
