-------------------------- MODULE TaskServiceProofs --------------------------
(***************************************************************************)
(* TaskService is safe for any number of requests, objects and tasks, with *)
(* and without hand off: calls on a registered object exclude each other,  *)
(* the hand off to a task is seamless, a completed task keeps its state,   *)
(* and no lock stays held by what has ended.                               *)
(***************************************************************************)
EXTENDS TaskService, TLAPS

(* The method of r, or its task, is between Acquire and the unlock. *)
CallIn(r) == pc[r] \in {"put", "running", "handoffLocker", "handoff", "spawn", "unlock"}
TaskIn(r) == tpc[r] \in {"begin", "execute", "removed", "unlock"}

(* Which references are held: the call's own, and the one that is handed off. *)
Holds(r, side) ==
    \/ side = "call" /\ CallIn(r)
    \/ side = "task" /\ (TaskIn(r) \/ (handoff /\ pc[r] = "spawn"))

(* A lock has been chosen by Locker and is waited for or held. *)
Chose(r, side) ==
    \/ side = "call" /\ (pc[r] = "acquire" \/ CallIn(r))
    \/ side = "task" /\ (pc[r] = "handoff" \/ tpc[r] = "acquire" \/ Holds(r, "task"))

(* A task exists only once Run is over, and takes a lock itself without hand off only. *)
PhasesOK ==
    \A r \in Requests :
        /\ tpc[r] # "none" => pc[r] \in {"unlock", "replied"}
        /\ handoff => tpc[r] \notin {"locker", "acquire"}
        /\ pc[r] \in {"handoffLocker", "handoff"} => handoff

(***************************************************************************)
(* The lock that is chosen is a real one and, as long as the object is     *)
(* registered, the one in r.locks: only Remove takes a lock out of there.  *)
(***************************************************************************)
ChoiceOK ==
    \A r \in Requests, side \in Sides :
        Chose(r, side) =>
            /\ lockOf[r][side] \in LockIds
            /\ Target[r] \in objects => lockOf[r][side] = locks[Target[r]]

(* A lock is held by exactly the calls and tasks that are inside with it... *)
HoldersOK ==
    \A l \in LockIds, r \in Requests, side \in Sides :
        <<r, side>> \in holders[l] <=> Holds(r, side) /\ lockOf[r][side] = l

(* ... and they are of one request. *)
OneContext == \A l \in LockIds : \A g, h \in holders[l] : g[1] = h[1]

(* While r is inside, or its task is about to be, r was the last to enter. *)
LastInsideOK ==
    \A r \in Requests :
        /\ Target[r] \in objects
        /\ CallIn(r) \/ (handoff /\ tpc[r] = "begin")
        => lastInside[Target[r]] = {r}

LockInv == TypeOK /\ PhasesOK /\ ChoiceOK /\ HoldersOK /\ OneContext
IInv == LockInv /\ DoneWhenComplete /\ LastInsideOK

(***************************************************************************)
(* Nothing that has ended keeps a lock: a request that has been answered   *)
(* and whose task, if any, is done, holds no reference to any lock.        *)
(***************************************************************************)
NoLockLeft ==
    \A r \in Requests, side \in Sides, l \in LockIds :
        Answered(r) /\ tpc[r] \in {"none", "done"} => <<r, side>> \notin holders[l]
-----------------------------------------------------------------------------
(***************************************************************************)
(* What Locker does: the request gets the lock of its object, which is     *)
(* made if there is none, and no other lock and no other choice changes.   *)
(***************************************************************************)
LEMMA LockerFacts ==
    ASSUME TypeOK, NEW r \in Requests, NEW side \in Sides, Locker(r, side)
    PROVE  /\ locks' \in [Objects -> LockIds \cup {NoLock}] /\ created' \in 0 .. MaxLocks
           /\ lockOf' \in [Requests -> [Sides -> LockIds \cup {NoLock}]]
           /\ lockOf'[r][side] \in LockIds /\ lockOf'[r][side] = locks'[Target[r]]
           /\ \A q \in Requests, t \in Sides :
                  ~(q = r /\ t = side) => lockOf'[q][t] = lockOf[q][t]
           /\ \A o \in Objects : locks[o] # NoLock => locks'[o] = locks[o]
<1> USE TaskServiceAssumption
<1>0. Target[r] \in Objects
  OBVIOUS
<1>1. CASE locks[Target[r]] # NoLock
  <2>1. UNCHANGED <<locks, created>> /\ lockOf' = [lockOf EXCEPT ![r][side] = locks[Target[r]]]
    BY <1>1 DEF Locker
  <2> QED
    BY <1>0, <1>1, <2>1 DEF TypeOK
<1>2. CASE locks[Target[r]] = NoLock
  <2>1. /\ created < MaxLocks /\ created' = created + 1
        /\ locks' = [locks EXCEPT ![Target[r]] = created + 1]
        /\ lockOf' = [lockOf EXCEPT ![r][side] = created + 1]
    BY <1>2 DEF Locker
  <2>2. created + 1 \in LockIds /\ created' \in 0 .. MaxLocks
    BY <2>1 DEF TypeOK, LockIds
  <2> QED
    BY <1>0, <1>2, <2>1, <2>2 DEF TypeOK
<1> QED
  BY <1>1, <1>2

(* After Locker every choice is still the lock of a registered object. *)
LEMMA LockerChoice ==
    ASSUME TypeOK, ChoiceOK, NEW r \in Requests, NEW side \in Sides,
           Locker(r, side), UNCHANGED objects,
           \A q \in Requests, t \in Sides :
               ~(q = r /\ t = side) /\ Chose(q, t)' => Chose(q, t)
    PROVE  ChoiceOK'
<1> SUFFICES ASSUME NEW q \in Requests, NEW t \in Sides, Chose(q, t)'
             PROVE  /\ lockOf'[q][t] \in LockIds
                    /\ Target[q] \in objects' => lockOf'[q][t] = locks'[Target[q]]
  BY DEF ChoiceOK
<1>1. CASE q = r /\ t = side
  BY <1>1, LockerFacts
<1>2. CASE ~(q = r /\ t = side)
  <2>1. /\ lockOf[q][t] \in LockIds /\ lockOf'[q][t] = lockOf[q][t]
        /\ Target[q] \in objects => lockOf[q][t] = locks[Target[q]]
    BY <1>2, LockerFacts DEF ChoiceOK
  <2>2. Target[q] \in Objects /\ \A l \in LockIds : l # NoLock
    BY TaskServiceAssumption DEF LockIds, NoLock
  <2> QED
    BY <2>1, <2>2, LockerFacts
<1> QED
  BY <1>1, <1>2

(* A step that lets nobody in or out leaves the holders right. *)
LEMMA HoldersFrame ==
    ASSUME HoldersOK, UNCHANGED holders,
           \A q \in Requests, t \in Sides :
               /\ Holds(q, t)' <=> Holds(q, t)
               /\ Holds(q, t) => lockOf'[q][t] = lockOf[q][t]
    PROVE  HoldersOK'
  BY DEF HoldersOK

(* Acquire lets in one side of one request. *)
LEMMA EnterHolders ==
    ASSUME TypeOK, HoldersOK, OneContext, NEW r \in Requests, NEW side \in Sides,
           Enter(r, side), UNCHANGED lockOf, lockOf[r][side] \in LockIds,
           \A q \in Requests, t \in Sides :
               Holds(q, t)' <=> Holds(q, t) \/ (q = r /\ t = side)
    PROVE  HoldersOK' /\ OneContext' /\ holders' \in [LockIds -> SUBSET (Requests \X Sides)]
<1> DEFINE l == lockOf[r][side]
<1>1. holders' = [holders EXCEPT ![l] = holders[l] \cup {<<r, side>>}]
  BY DEF Enter
<1>2. \A m \in LockIds : holders'[m] = IF m = l THEN holders[m] \cup {<<r, side>>} ELSE holders[m]
  BY <1>1 DEF TypeOK
<1>3. HoldersOK'
  <2> SUFFICES ASSUME NEW m \in LockIds, NEW q \in Requests, NEW t \in Sides
               PROVE  <<q, t>> \in holders'[m] <=> Holds(q, t)' /\ lockOf'[q][t] = m
    BY DEF HoldersOK
  <2>1. <<q, t>> \in holders[m] <=> Holds(q, t) /\ lockOf[q][t] = m
    BY DEF HoldersOK
  <2>2. <<q, t>> = <<r, side>> <=> q = r /\ t = side
    OBVIOUS
  <2> QED
    BY <1>2, <2>1, <2>2
<1>4. OneContext'
  BY <1>2 DEF OneContext, Enter
<1> QED
  BY <1>1, <1>3, <1>4 DEF TypeOK

(* The unlock function lets out one side of one request. *)
LEMMA LeaveHolders ==
    ASSUME TypeOK, HoldersOK, OneContext, NEW r \in Requests, NEW side \in Sides,
           Leave(r, side), UNCHANGED lockOf, Holds(r, side), lockOf[r][side] \in LockIds,
           \A q \in Requests, t \in Sides :
               Holds(q, t)' <=> Holds(q, t) /\ ~(q = r /\ t = side)
    PROVE  HoldersOK' /\ OneContext' /\ holders' \in [LockIds -> SUBSET (Requests \X Sides)]
<1> DEFINE l == lockOf[r][side]
<1>1. holders' = [holders EXCEPT ![l] = holders[l] \ {<<r, side>>}]
  BY DEF Leave
<1>2. \A m \in LockIds : holders'[m] = IF m = l THEN holders[m] \ {<<r, side>>} ELSE holders[m]
  BY <1>1 DEF TypeOK
<1>3. HoldersOK'
  <2> SUFFICES ASSUME NEW m \in LockIds, NEW q \in Requests, NEW t \in Sides
               PROVE  <<q, t>> \in holders'[m] <=> Holds(q, t)' /\ lockOf'[q][t] = m
    BY DEF HoldersOK
  <2>1. <<q, t>> \in holders[m] <=> Holds(q, t) /\ lockOf[q][t] = m
    BY DEF HoldersOK
  <2>2. <<q, t>> = <<r, side>> <=> q = r /\ t = side
    OBVIOUS
  <2> QED
    BY <1>2, <2>1, <2>2
<1>4. OneContext'
  BY <1>2 DEF OneContext
<1> QED
  BY <1>1, <1>3, <1>4 DEF TypeOK

(* Every step keeps the types; Enter and Leave need a lock that has been chosen. *)
LEMMA TypeStep == LockInv /\ [Next]_vars => TypeOK'
<1> SUFFICES ASSUME LockInv, [Next]_vars PROVE TypeOK'
  OBVIOUS
<1>1. ASSUME NEW r \in Requests, Locate(r), UNCHANGED handoff PROVE TypeOK'
  BY <1>1, TaskServiceAssumption DEF Locate, Goto, LockInv, TypeOK, locking, tasks
<1>2. ASSUME NEW r \in Requests, CallLocker(r), UNCHANGED handoff PROVE TypeOK'
  <2>1. "call" \in Sides /\ TypeOK /\ Locker(r, "call")
    BY <1>2 DEF Sides, LockInv, CallLocker
  <2> QED
    BY <1>2, <2>1, LockerFacts DEF CallLocker, Goto, TypeOK, tasks
<1>3. ASSUME NEW r \in Requests, CallAcquire(r), UNCHANGED handoff PROVE TypeOK'
  <2>1. lockOf[r]["call"] \in LockIds
    BY <1>3 DEF CallAcquire, Goto, LockInv, ChoiceOK, Chose, Sides
  <2>2. holders' \in [LockIds -> SUBSET (Requests \X Sides)]
    BY <1>3, <2>1 DEF CallAcquire, Enter, LockInv, TypeOK, Sides
  <2> QED
    BY <1>3, <2>2, TaskServiceAssumption DEF CallAcquire, Goto, LockInv, TypeOK, registry, tasks
<1>4. ASSUME NEW r \in Requests, CallUnlock(r), UNCHANGED handoff PROVE TypeOK'
  BY <1>4, TaskServiceAssumption
    DEF CallUnlock, Goto, Leave, LockInv, TypeOK, ChoiceOK, Chose, Holds, CallIn, TaskIn,
        Sides, registry, locking, tasks
<1>5. ASSUME NEW r \in Requests, RunPut(r), UNCHANGED handoff PROVE TypeOK'
  BY <1>5, TaskServiceAssumption DEF RunPut, Goto, LockInv, TypeOK, TaskStates, locking, tasks
<1>6. ASSUME NEW r \in Requests, RunRunning(r), UNCHANGED handoff PROVE TypeOK'
  BY <1>6, TaskServiceAssumption
    DEF RunRunning, Goto, LockInv, TypeOK, TaskStates, locking, tasks
<1>7. ASSUME NEW r \in Requests, RunLocker(r), UNCHANGED handoff PROVE TypeOK'
  <2>1. "task" \in Sides /\ TypeOK /\ Locker(r, "task")
    BY <1>7 DEF Sides, LockInv, RunLocker
  <2> QED
    BY <1>7, <2>1, LockerFacts DEF RunLocker, Goto, TypeOK, tasks
<1>8. ASSUME NEW r \in Requests, RunHandoff(r), UNCHANGED handoff PROVE TypeOK'
  BY <1>8, TaskServiceAssumption
    DEF RunHandoff, Goto, Enter, LockInv, TypeOK, ChoiceOK, Chose, Holds, CallIn, TaskIn,
        Sides, registry, locking, tasks
<1>9. ASSUME NEW r \in Requests, RunSpawn(r), UNCHANGED handoff PROVE TypeOK'
  BY <1>9, TaskServiceAssumption DEF RunSpawn, Goto, LockInv, TypeOK, locking, tasks
<1>10. ASSUME NEW r \in Requests, TaskLocker(r), UNCHANGED handoff PROVE TypeOK'
  <2>1. "task" \in Sides /\ TypeOK /\ Locker(r, "task")
    BY <1>10 DEF Sides, LockInv, TaskLocker
  <2> QED
    BY <1>10, <2>1, LockerFacts DEF TaskLocker, TaskGoto, TypeOK, tasks
<1>11. ASSUME NEW r \in Requests, TaskAcquire(r), UNCHANGED handoff PROVE TypeOK'
  BY <1>11, TaskServiceAssumption
    DEF TaskAcquire, TaskGoto, Enter, LockInv, TypeOK, ChoiceOK, Chose, Holds, CallIn,
        TaskIn, Sides, registry, locking, tasks
<1>12. ASSUME NEW r \in Requests, ExecuteBegin(r), UNCHANGED handoff PROVE TypeOK'
  BY <1>12, TaskServiceAssumption DEF ExecuteBegin, TaskGoto, LockInv, TypeOK, locking, tasks
<1>13. ASSUME NEW r \in Requests, ExecuteRemove(r), UNCHANGED handoff PROVE TypeOK'
  BY <1>13, TaskServiceAssumption DEF ExecuteRemove, TaskGoto, Remove, LockInv, TypeOK, tasks
<1>14. ASSUME NEW r \in Requests, ExecuteEnd(r), UNCHANGED handoff PROVE TypeOK'
  BY <1>14, TaskServiceAssumption DEF ExecuteEnd, LockInv, TypeOK, locking, tasks
<1>15. ASSUME NEW r \in Requests, TaskUnlock(r), UNCHANGED handoff PROVE TypeOK'
  BY <1>15, TaskServiceAssumption
    DEF TaskUnlock, TaskGoto, Leave, LockInv, TypeOK, ChoiceOK, Chose, Holds, CallIn,
        TaskIn, Sides, registry, locking, tasks
<1>16. ASSUME NEW r \in Requests, Complete(r), UNCHANGED handoff PROVE TypeOK'
  BY <1>16, TaskServiceAssumption
    DEF Complete, TaskGoto, LockInv, TypeOK, TaskStates, locking, tasks
<1>17. ASSUME NEW r \in Requests, CancelTask(r) PROVE TypeOK'
  BY <1>17, TaskServiceAssumption DEF CancelTask, LockInv, TypeOK, TaskStates, locking, tasks
<1>18. ASSUME NEW r \in Requests, SetTaskState(r) PROVE TypeOK'
  BY <1>18, TaskServiceAssumption DEF SetTaskState, LockInv, TypeOK, TaskStates, locking, tasks
<1>19. ASSUME NEW r \in Requests, WaitReturns(r) PROVE TypeOK'
  BY <1>19, TaskServiceAssumption DEF WaitReturns, LockInv, TypeOK, locking, tasks
<1>20. CASE UNCHANGED vars
  BY <1>20, TaskServiceAssumption DEF LockInv, TypeOK, vars, registry, locking, tasks
<1> QED
  BY <1>1, <1>2, <1>3, <1>4, <1>5, <1>6, <1>7, <1>8, <1>9, <1>10, <1>11, <1>12, <1>13, <1>14,
     <1>15, <1>16, <1>17, <1>18, <1>19, <1>20, TaskServiceAssumption
    DEF Next, CallStep, TaskStep

(* Every step keeps the phases of a call and its task in order. *)
LEMMA PhasesStep == LockInv /\ [Next]_vars => PhasesOK'
<1> SUFFICES ASSUME LockInv, [Next]_vars PROVE PhasesOK'
  OBVIOUS
<1>1. ASSUME NEW r \in Requests, Locate(r), UNCHANGED handoff PROVE PhasesOK'
  BY <1>1 DEF Locate, Goto, LockInv, TypeOK, PhasesOK, locking, tasks
<1>2. ASSUME NEW r \in Requests, CallLocker(r), UNCHANGED handoff PROVE PhasesOK'
  BY <1>2 DEF CallLocker, Goto, Locker, LockInv, TypeOK, PhasesOK, tasks
<1>3. ASSUME NEW r \in Requests, CallAcquire(r), UNCHANGED handoff PROVE PhasesOK'
  BY <1>3 DEF CallAcquire, Goto, Enter, LockInv, TypeOK, PhasesOK, registry, locking, tasks
<1>4. ASSUME NEW r \in Requests, CallUnlock(r), UNCHANGED handoff PROVE PhasesOK'
  BY <1>4 DEF CallUnlock, Goto, Leave, LockInv, TypeOK, PhasesOK, registry, locking, tasks
<1>5. ASSUME NEW r \in Requests, RunPut(r), UNCHANGED handoff PROVE PhasesOK'
  BY <1>5 DEF RunPut, Goto, LockInv, TypeOK, PhasesOK, locking, tasks
<1>6. ASSUME NEW r \in Requests, RunRunning(r), UNCHANGED handoff PROVE PhasesOK'
  BY <1>6 DEF RunRunning, Goto, LockInv, TypeOK, PhasesOK, locking, tasks
<1>7. ASSUME NEW r \in Requests, RunLocker(r), UNCHANGED handoff PROVE PhasesOK'
  BY <1>7 DEF RunLocker, Goto, Locker, LockInv, TypeOK, PhasesOK, tasks
<1>8. ASSUME NEW r \in Requests, RunHandoff(r), UNCHANGED handoff PROVE PhasesOK'
  BY <1>8 DEF RunHandoff, Goto, Enter, LockInv, TypeOK, PhasesOK, registry, locking, tasks
<1>9. ASSUME NEW r \in Requests, RunSpawn(r), UNCHANGED handoff PROVE PhasesOK'
  BY <1>9 DEF RunSpawn, Goto, LockInv, TypeOK, PhasesOK, locking, tasks
<1>10. ASSUME NEW r \in Requests, TaskLocker(r), UNCHANGED handoff PROVE PhasesOK'
  BY <1>10 DEF TaskLocker, TaskGoto, Locker, LockInv, TypeOK, PhasesOK, tasks
<1>11. ASSUME NEW r \in Requests, TaskAcquire(r), UNCHANGED handoff PROVE PhasesOK'
  BY <1>11 DEF TaskAcquire, TaskGoto, Enter, LockInv, TypeOK, PhasesOK, registry, locking, tasks
<1>12. ASSUME NEW r \in Requests, ExecuteBegin(r), UNCHANGED handoff PROVE PhasesOK'
  BY <1>12 DEF ExecuteBegin, TaskGoto, LockInv, TypeOK, PhasesOK, locking, tasks
<1>13. ASSUME NEW r \in Requests, ExecuteRemove(r), UNCHANGED handoff PROVE PhasesOK'
  BY <1>13 DEF ExecuteRemove, TaskGoto, Remove, LockInv, TypeOK, PhasesOK, tasks
<1>14. ASSUME NEW r \in Requests, ExecuteEnd(r), UNCHANGED handoff PROVE PhasesOK'
  BY <1>14 DEF ExecuteEnd, LockInv, TypeOK, PhasesOK, locking, tasks
<1>15. ASSUME NEW r \in Requests, TaskUnlock(r), UNCHANGED handoff PROVE PhasesOK'
  BY <1>15 DEF TaskUnlock, TaskGoto, Leave, LockInv, TypeOK, PhasesOK, registry, locking, tasks
<1>16. ASSUME NEW r \in Requests, Complete(r), UNCHANGED handoff PROVE PhasesOK'
  BY <1>16 DEF Complete, TaskGoto, LockInv, TypeOK, PhasesOK, locking, tasks
<1>17. ASSUME NEW r \in Requests, CancelTask(r) PROVE PhasesOK'
  BY <1>17 DEF CancelTask, LockInv, TypeOK, PhasesOK, locking, tasks
<1>18. ASSUME NEW r \in Requests, SetTaskState(r) PROVE PhasesOK'
  BY <1>18 DEF SetTaskState, LockInv, TypeOK, PhasesOK, locking, tasks
<1>19. ASSUME NEW r \in Requests, WaitReturns(r) PROVE PhasesOK'
  BY <1>19 DEF WaitReturns, LockInv, TypeOK, PhasesOK, locking, tasks
<1>20. CASE UNCHANGED vars
  BY <1>20 DEF LockInv, TypeOK, PhasesOK, vars, registry, locking, tasks
<1> QED
  BY <1>1, <1>2, <1>3, <1>4, <1>5, <1>6, <1>7, <1>8, <1>9, <1>10, <1>11, <1>12, <1>13, <1>14,
     <1>15, <1>16, <1>17, <1>18, <1>19, <1>20, TaskServiceAssumption
    DEF Next, CallStep, TaskStep

(* A lock that was chosen stays the lock of its object. *)
LEMMA ChoiceStep == LockInv /\ [Next]_vars => ChoiceOK'
<1> SUFFICES ASSUME LockInv, [Next]_vars PROVE ChoiceOK'
  OBVIOUS
<1>1. ASSUME NEW r \in Requests, Locate(r), UNCHANGED handoff PROVE ChoiceOK'
  BY <1>1, TaskServiceAssumption
    DEF Locate, Goto, LockInv, TypeOK, PhasesOK, ChoiceOK, Chose, Holds, CallIn, TaskIn,
        Sides, locking, tasks
<1>2. ASSUME NEW r \in Requests, CallLocker(r), UNCHANGED handoff PROVE ChoiceOK'
  <2>1. "call" \in Sides /\ TypeOK /\ Locker(r, "call") /\ UNCHANGED objects
    BY <1>2 DEF Sides, LockInv, CallLocker
  <2>2. \A q \in Requests, t \in Sides : ~(q = r /\ t = "call") /\ Chose(q, t)' => Chose(q, t)
    BY <1>2 DEF CallLocker, Goto, LockInv, TypeOK, PhasesOK, Chose, Holds, CallIn, TaskIn
  <2> QED
    BY <2>1, <2>2, LockerChoice DEF LockInv
<1>3. ASSUME NEW r \in Requests, CallAcquire(r), UNCHANGED handoff PROVE ChoiceOK'
  BY <1>3, TaskServiceAssumption
    DEF CallAcquire, Goto, Enter, LockInv, TypeOK, PhasesOK, ChoiceOK, Chose, Holds, CallIn,
        TaskIn, Sides, registry, locking, tasks
<1>4. ASSUME NEW r \in Requests, CallUnlock(r), UNCHANGED handoff PROVE ChoiceOK'
  BY <1>4, TaskServiceAssumption
    DEF CallUnlock, Goto, Leave, LockInv, TypeOK, PhasesOK, ChoiceOK, Chose, Holds, CallIn,
        TaskIn, Sides, registry, locking, tasks
<1>5. ASSUME NEW r \in Requests, RunPut(r), UNCHANGED handoff PROVE ChoiceOK'
  BY <1>5, TaskServiceAssumption
    DEF RunPut, Goto, LockInv, TypeOK, PhasesOK, ChoiceOK, Chose, Holds, CallIn, TaskIn,
        Sides, locking, tasks
<1>6. ASSUME NEW r \in Requests, RunRunning(r), UNCHANGED handoff PROVE ChoiceOK'
  BY <1>6, TaskServiceAssumption
    DEF RunRunning, Goto, LockInv, TypeOK, PhasesOK, ChoiceOK, Chose, Holds, CallIn, TaskIn,
        Sides, locking, tasks
<1>7. ASSUME NEW r \in Requests, RunLocker(r), UNCHANGED handoff PROVE ChoiceOK'
  <2>1. "task" \in Sides /\ TypeOK /\ Locker(r, "task") /\ UNCHANGED objects
    BY <1>7 DEF Sides, LockInv, RunLocker
  <2>2. \A q \in Requests, t \in Sides : ~(q = r /\ t = "task") /\ Chose(q, t)' => Chose(q, t)
    BY <1>7 DEF RunLocker, Goto, LockInv, TypeOK, PhasesOK, Chose, Holds, CallIn, TaskIn
  <2> QED
    BY <2>1, <2>2, LockerChoice DEF LockInv
<1>8. ASSUME NEW r \in Requests, RunHandoff(r), UNCHANGED handoff PROVE ChoiceOK'
  BY <1>8, TaskServiceAssumption
    DEF RunHandoff, Goto, Enter, LockInv, TypeOK, PhasesOK, ChoiceOK, Chose, Holds, CallIn,
        TaskIn, Sides, registry, locking, tasks
<1>9. ASSUME NEW r \in Requests, RunSpawn(r), UNCHANGED handoff PROVE ChoiceOK'
  BY <1>9, TaskServiceAssumption
    DEF RunSpawn, Goto, LockInv, TypeOK, PhasesOK, ChoiceOK, Chose, Holds, CallIn, TaskIn,
        Sides, locking, tasks
<1>10. ASSUME NEW r \in Requests, TaskLocker(r), UNCHANGED handoff PROVE ChoiceOK'
  <2>1. "task" \in Sides /\ TypeOK /\ Locker(r, "task") /\ UNCHANGED objects
    BY <1>10 DEF Sides, LockInv, TaskLocker
  <2>2. \A q \in Requests, t \in Sides : ~(q = r /\ t = "task") /\ Chose(q, t)' => Chose(q, t)
    BY <1>10 DEF TaskLocker, TaskGoto, LockInv, TypeOK, PhasesOK, Chose, Holds, CallIn, TaskIn
  <2> QED
    BY <2>1, <2>2, LockerChoice DEF LockInv
<1>11. ASSUME NEW r \in Requests, TaskAcquire(r), UNCHANGED handoff PROVE ChoiceOK'
  BY <1>11, TaskServiceAssumption
    DEF TaskAcquire, TaskGoto, Enter, LockInv, TypeOK, PhasesOK, ChoiceOK, Chose, Holds,
        CallIn, TaskIn, Sides, registry, locking, tasks
<1>12. ASSUME NEW r \in Requests, ExecuteBegin(r), UNCHANGED handoff PROVE ChoiceOK'
  BY <1>12, TaskServiceAssumption
    DEF ExecuteBegin, TaskGoto, LockInv, TypeOK, PhasesOK, ChoiceOK, Chose, Holds, CallIn,
        TaskIn, Sides, locking, tasks
<1>13. ASSUME NEW r \in Requests, ExecuteRemove(r), UNCHANGED handoff PROVE ChoiceOK'
  BY <1>13, TaskServiceAssumption
    DEF ExecuteRemove, TaskGoto, Remove, LockInv, TypeOK, PhasesOK, ChoiceOK, Chose, Holds,
        CallIn, TaskIn, Sides, tasks
<1>14. ASSUME NEW r \in Requests, ExecuteEnd(r), UNCHANGED handoff PROVE ChoiceOK'
  BY <1>14, TaskServiceAssumption
    DEF ExecuteEnd, LockInv, TypeOK, PhasesOK, ChoiceOK, Chose, Holds, CallIn, TaskIn,
        Sides, locking, tasks
<1>15. ASSUME NEW r \in Requests, TaskUnlock(r), UNCHANGED handoff PROVE ChoiceOK'
  BY <1>15, TaskServiceAssumption
    DEF TaskUnlock, TaskGoto, Leave, LockInv, TypeOK, PhasesOK, ChoiceOK, Chose, Holds,
        CallIn, TaskIn, Sides, registry, locking, tasks
<1>16. ASSUME NEW r \in Requests, Complete(r), UNCHANGED handoff PROVE ChoiceOK'
  BY <1>16, TaskServiceAssumption
    DEF Complete, TaskGoto, LockInv, TypeOK, PhasesOK, ChoiceOK, Chose, Holds, CallIn,
        TaskIn, Sides, locking, tasks
<1>17. ASSUME NEW r \in Requests, CancelTask(r) PROVE ChoiceOK'
  BY <1>17, TaskServiceAssumption
    DEF CancelTask, LockInv, TypeOK, PhasesOK, ChoiceOK, Chose, Holds, CallIn, TaskIn,
        Sides, locking, tasks
<1>18. ASSUME NEW r \in Requests, SetTaskState(r) PROVE ChoiceOK'
  BY <1>18, TaskServiceAssumption
    DEF SetTaskState, LockInv, TypeOK, PhasesOK, ChoiceOK, Chose, Holds, CallIn, TaskIn,
        Sides, locking, tasks
<1>19. ASSUME NEW r \in Requests, WaitReturns(r) PROVE ChoiceOK'
  BY <1>19, TaskServiceAssumption
    DEF WaitReturns, LockInv, TypeOK, PhasesOK, ChoiceOK, Chose, Holds, CallIn, TaskIn,
        Sides, locking, tasks
<1>20. CASE UNCHANGED vars
  BY <1>20, TaskServiceAssumption
    DEF LockInv, TypeOK, PhasesOK, ChoiceOK, Chose, Holds, CallIn, TaskIn, Sides, vars,
        registry, locking, tasks
<1> QED
  BY <1>1, <1>2, <1>3, <1>4, <1>5, <1>6, <1>7, <1>8, <1>9, <1>10, <1>11, <1>12, <1>13, <1>14,
     <1>15, <1>16, <1>17, <1>18, <1>19, <1>20, TaskServiceAssumption
    DEF Next, CallStep, TaskStep

(* The holders follow the calls and tasks that are inside, one context at a time. *)
LEMMA HoldersStep == LockInv /\ [Next]_vars => (HoldersOK /\ OneContext)'
<1> SUFFICES ASSUME LockInv, [Next]_vars PROVE (HoldersOK /\ OneContext)'
  OBVIOUS
<1>1. ASSUME NEW r \in Requests, Locate(r), UNCHANGED handoff PROVE (HoldersOK /\ OneContext)'
  <2>1. \A q \in Requests, t \in Sides : Holds(q, t)' <=> Holds(q, t)
    BY <1>1
      DEF Locate, Goto, LockInv, TypeOK, PhasesOK, Holds, CallIn, TaskIn, locking, tasks,
          Sides
  <2>2. UNCHANGED <<holders, lockOf>>
    BY <1>1 DEF Locate, locking, tasks
  <2> QED
    BY <2>1, <2>2, HoldersFrame DEF LockInv, OneContext
<1>2. ASSUME NEW r \in Requests, CallLocker(r), UNCHANGED handoff PROVE (HoldersOK /\ OneContext)'
  <2>1. \A q \in Requests, t \in Sides : Holds(q, t)' <=> Holds(q, t)
    BY <1>2 DEF CallLocker, Goto, LockInv, TypeOK, PhasesOK, Holds, CallIn, TaskIn, tasks, Sides
  <2>2. "call" \in Sides /\ TypeOK /\ Locker(r, "call") /\ UNCHANGED holders
    BY <1>2 DEF Sides, LockInv, CallLocker
  <2>3. ~Holds(r, "call")
    BY <1>2 DEF CallLocker, Goto, LockInv, PhasesOK, Holds, CallIn, TaskIn
  <2> QED
    BY <2>1, <2>2, <2>3, LockerFacts, HoldersFrame DEF LockInv, OneContext
<1>3. ASSUME NEW r \in Requests, CallAcquire(r), UNCHANGED handoff PROVE (HoldersOK /\ OneContext)'
  <2>1. \A q \in Requests, t \in Sides : Holds(q, t)' <=> Holds(q, t) \/ (q = r /\ t = "call")
    BY <1>3
      DEF CallAcquire, Goto, LockInv, TypeOK, PhasesOK, Holds, CallIn, TaskIn, registry,
          locking, tasks, Sides
  <2>2. /\ "call" \in Sides /\ Enter(r, "call") /\ UNCHANGED lockOf
        /\ Chose(r, "call")
    BY <1>3 DEF CallAcquire, Goto, registry, Sides, Chose, Holds, CallIn, TaskIn
  <2>3. lockOf[r]["call"] \in LockIds
    BY <2>2 DEF LockInv, ChoiceOK
  <2> QED
    BY <2>1, <2>2, <2>3, EnterHolders DEF LockInv
<1>4. ASSUME NEW r \in Requests, CallUnlock(r), UNCHANGED handoff PROVE (HoldersOK /\ OneContext)'
  <2>1. \A q \in Requests, t \in Sides : Holds(q, t)' <=> Holds(q, t) /\ ~(q = r /\ t = "call")
    BY <1>4
      DEF CallUnlock, Goto, LockInv, TypeOK, PhasesOK, Holds, CallIn, TaskIn, registry,
          locking, tasks, Sides
  <2>2. /\ "call" \in Sides /\ Leave(r, "call") /\ UNCHANGED lockOf
        /\ Holds(r, "call") /\ Chose(r, "call")
    BY <1>4 DEF CallUnlock, Goto, registry, Sides, Chose, Holds, CallIn, TaskIn
  <2>3. lockOf[r]["call"] \in LockIds
    BY <2>2 DEF LockInv, ChoiceOK
  <2> QED
    BY <2>1, <2>2, <2>3, LeaveHolders DEF LockInv
<1>5. ASSUME NEW r \in Requests, RunPut(r), UNCHANGED handoff PROVE (HoldersOK /\ OneContext)'
  <2>1. \A q \in Requests, t \in Sides : Holds(q, t)' <=> Holds(q, t)
    BY <1>5
      DEF RunPut, Goto, LockInv, TypeOK, PhasesOK, Holds, CallIn, TaskIn, locking, tasks,
          Sides
  <2>2. UNCHANGED <<holders, lockOf>>
    BY <1>5 DEF RunPut, locking, tasks
  <2> QED
    BY <2>1, <2>2, HoldersFrame DEF LockInv, OneContext
<1>6. ASSUME NEW r \in Requests, RunRunning(r), UNCHANGED handoff PROVE (HoldersOK /\ OneContext)'
  <2>1. \A q \in Requests, t \in Sides : Holds(q, t)' <=> Holds(q, t)
    BY <1>6
      DEF RunRunning, Goto, LockInv, TypeOK, PhasesOK, Holds, CallIn, TaskIn, locking,
          tasks, Sides
  <2>2. UNCHANGED <<holders, lockOf>>
    BY <1>6 DEF RunRunning, locking, tasks
  <2> QED
    BY <2>1, <2>2, HoldersFrame DEF LockInv, OneContext
<1>7. ASSUME NEW r \in Requests, RunLocker(r), UNCHANGED handoff PROVE (HoldersOK /\ OneContext)'
  <2>1. \A q \in Requests, t \in Sides : Holds(q, t)' <=> Holds(q, t)
    BY <1>7 DEF RunLocker, Goto, LockInv, TypeOK, PhasesOK, Holds, CallIn, TaskIn, tasks, Sides
  <2>2. "task" \in Sides /\ TypeOK /\ Locker(r, "task") /\ UNCHANGED holders
    BY <1>7 DEF Sides, LockInv, RunLocker
  <2>3. ~Holds(r, "task")
    BY <1>7 DEF RunLocker, Goto, LockInv, PhasesOK, Holds, CallIn, TaskIn
  <2> QED
    BY <2>1, <2>2, <2>3, LockerFacts, HoldersFrame DEF LockInv, OneContext
<1>8. ASSUME NEW r \in Requests, RunHandoff(r), UNCHANGED handoff PROVE (HoldersOK /\ OneContext)'
  <2>1. \A q \in Requests, t \in Sides : Holds(q, t)' <=> Holds(q, t) \/ (q = r /\ t = "task")
    BY <1>8
      DEF RunHandoff, Goto, LockInv, TypeOK, PhasesOK, Holds, CallIn, TaskIn, registry,
          locking, tasks, Sides
  <2>2. /\ "task" \in Sides /\ Enter(r, "task") /\ UNCHANGED lockOf
        /\ Chose(r, "task")
    BY <1>8 DEF RunHandoff, Goto, registry, Sides, Chose, Holds, CallIn, TaskIn
  <2>3. lockOf[r]["task"] \in LockIds
    BY <2>2 DEF LockInv, ChoiceOK
  <2> QED
    BY <2>1, <2>2, <2>3, EnterHolders DEF LockInv
<1>9. ASSUME NEW r \in Requests, RunSpawn(r), UNCHANGED handoff PROVE (HoldersOK /\ OneContext)'
  <2>1. \A q \in Requests, t \in Sides : Holds(q, t)' <=> Holds(q, t)
    BY <1>9
      DEF RunSpawn, Goto, LockInv, TypeOK, PhasesOK, Holds, CallIn, TaskIn, locking,
          tasks, Sides
  <2>2. UNCHANGED <<holders, lockOf>>
    BY <1>9 DEF RunSpawn, locking, tasks
  <2> QED
    BY <2>1, <2>2, HoldersFrame DEF LockInv, OneContext
<1>10. ASSUME NEW r \in Requests, TaskLocker(r), UNCHANGED handoff PROVE (HoldersOK /\ OneContext)'
  <2>1. \A q \in Requests, t \in Sides : Holds(q, t)' <=> Holds(q, t)
    BY <1>10
      DEF TaskLocker, TaskGoto, LockInv, TypeOK, PhasesOK, Holds, CallIn, TaskIn, tasks,
          Sides
  <2>2. "task" \in Sides /\ TypeOK /\ Locker(r, "task") /\ UNCHANGED holders
    BY <1>10 DEF Sides, LockInv, TaskLocker
  <2>3. ~Holds(r, "task")
    BY <1>10 DEF TaskLocker, TaskGoto, LockInv, PhasesOK, Holds, CallIn, TaskIn
  <2> QED
    BY <2>1, <2>2, <2>3, LockerFacts, HoldersFrame DEF LockInv, OneContext
<1>11. ASSUME NEW r \in Requests, TaskAcquire(r), UNCHANGED handoff PROVE (HoldersOK /\ OneContext)'
  <2>1. \A q \in Requests, t \in Sides : Holds(q, t)' <=> Holds(q, t) \/ (q = r /\ t = "task")
    BY <1>11
      DEF TaskAcquire, TaskGoto, LockInv, TypeOK, PhasesOK, Holds, CallIn, TaskIn,
          registry, locking, tasks, Sides
  <2>2. /\ "task" \in Sides /\ Enter(r, "task") /\ UNCHANGED lockOf
        /\ Chose(r, "task")
    BY <1>11 DEF TaskAcquire, TaskGoto, registry, Sides, Chose, Holds, CallIn, TaskIn
  <2>3. lockOf[r]["task"] \in LockIds
    BY <2>2 DEF LockInv, ChoiceOK
  <2> QED
    BY <2>1, <2>2, <2>3, EnterHolders DEF LockInv
<1>12. ASSUME NEW r \in Requests, ExecuteBegin(r), UNCHANGED handoff PROVE (HoldersOK /\ OneContext)'
  <2>1. \A q \in Requests, t \in Sides : Holds(q, t)' <=> Holds(q, t)
    BY <1>12
      DEF ExecuteBegin, TaskGoto, LockInv, TypeOK, PhasesOK, Holds, CallIn, TaskIn,
          locking, tasks, Sides
  <2>2. UNCHANGED <<holders, lockOf>>
    BY <1>12 DEF ExecuteBegin, locking, tasks
  <2> QED
    BY <2>1, <2>2, HoldersFrame DEF LockInv, OneContext
<1>13. ASSUME NEW r \in Requests, ExecuteRemove(r), UNCHANGED handoff PROVE (HoldersOK /\ OneContext)'
  <2>1. \A q \in Requests, t \in Sides : Holds(q, t)' <=> Holds(q, t)
    BY <1>13
      DEF ExecuteRemove, TaskGoto, Remove, LockInv, TypeOK, PhasesOK, Holds, CallIn,
          TaskIn, tasks, Sides
  <2>2. UNCHANGED <<holders, lockOf>>
    BY <1>13 DEF ExecuteRemove, Remove, tasks
  <2> QED
    BY <2>1, <2>2, HoldersFrame DEF LockInv, OneContext
<1>14. ASSUME NEW r \in Requests, ExecuteEnd(r), UNCHANGED handoff PROVE (HoldersOK /\ OneContext)'
  <2>1. \A q \in Requests, t \in Sides : Holds(q, t)' <=> Holds(q, t)
    BY <1>14
      DEF ExecuteEnd, LockInv, TypeOK, PhasesOK, Holds, CallIn, TaskIn, locking, tasks,
          Sides
  <2>2. UNCHANGED <<holders, lockOf>>
    BY <1>14 DEF ExecuteEnd, locking, tasks
  <2> QED
    BY <2>1, <2>2, HoldersFrame DEF LockInv, OneContext
<1>15. ASSUME NEW r \in Requests, TaskUnlock(r), UNCHANGED handoff PROVE (HoldersOK /\ OneContext)'
  <2>1. \A q \in Requests, t \in Sides : Holds(q, t)' <=> Holds(q, t) /\ ~(q = r /\ t = "task")
    BY <1>15
      DEF TaskUnlock, TaskGoto, LockInv, TypeOK, PhasesOK, Holds, CallIn, TaskIn,
          registry, locking, tasks, Sides
  <2>2. /\ "task" \in Sides /\ Leave(r, "task") /\ UNCHANGED lockOf
        /\ Holds(r, "task") /\ Chose(r, "task")
    BY <1>15 DEF TaskUnlock, TaskGoto, registry, Sides, Chose, Holds, CallIn, TaskIn
  <2>3. lockOf[r]["task"] \in LockIds
    BY <2>2 DEF LockInv, ChoiceOK
  <2> QED
    BY <2>1, <2>2, <2>3, LeaveHolders DEF LockInv
<1>16. ASSUME NEW r \in Requests, Complete(r), UNCHANGED handoff PROVE (HoldersOK /\ OneContext)'
  <2>1. \A q \in Requests, t \in Sides : Holds(q, t)' <=> Holds(q, t)
    BY <1>16
      DEF Complete, TaskGoto, LockInv, TypeOK, PhasesOK, Holds, CallIn, TaskIn, locking,
          tasks, Sides
  <2>2. UNCHANGED <<holders, lockOf>>
    BY <1>16 DEF Complete, locking, tasks
  <2> QED
    BY <2>1, <2>2, HoldersFrame DEF LockInv, OneContext
<1>17. ASSUME NEW r \in Requests, CancelTask(r) PROVE (HoldersOK /\ OneContext)'
  <2>1. \A q \in Requests, t \in Sides : Holds(q, t)' <=> Holds(q, t)
    BY <1>17
      DEF CancelTask, LockInv, TypeOK, PhasesOK, Holds, CallIn, TaskIn, locking, tasks,
          Sides
  <2>2. UNCHANGED <<holders, lockOf>>
    BY <1>17 DEF CancelTask, locking, tasks
  <2> QED
    BY <2>1, <2>2, HoldersFrame DEF LockInv, OneContext
<1>18. ASSUME NEW r \in Requests, SetTaskState(r) PROVE (HoldersOK /\ OneContext)'
  <2>1. \A q \in Requests, t \in Sides : Holds(q, t)' <=> Holds(q, t)
    BY <1>18
      DEF SetTaskState, LockInv, TypeOK, PhasesOK, Holds, CallIn, TaskIn, locking, tasks,
          Sides
  <2>2. UNCHANGED <<holders, lockOf>>
    BY <1>18 DEF SetTaskState, locking, tasks
  <2> QED
    BY <2>1, <2>2, HoldersFrame DEF LockInv, OneContext
<1>19. ASSUME NEW r \in Requests, WaitReturns(r) PROVE (HoldersOK /\ OneContext)'
  <2>1. \A q \in Requests, t \in Sides : Holds(q, t)' <=> Holds(q, t)
    BY <1>19
      DEF WaitReturns, LockInv, TypeOK, PhasesOK, Holds, CallIn, TaskIn, locking, tasks,
          Sides
  <2>2. UNCHANGED <<holders, lockOf>>
    BY <1>19 DEF WaitReturns, locking, tasks
  <2> QED
    BY <2>1, <2>2, HoldersFrame DEF LockInv, OneContext
<1>20. CASE UNCHANGED vars
  <2>1. \A q \in Requests, t \in Sides : Holds(q, t)' <=> Holds(q, t)
    BY <1>20
      DEF LockInv, TypeOK, PhasesOK, Holds, CallIn, TaskIn, vars, registry, locking,
          tasks, Sides
  <2>2. UNCHANGED <<holders, lockOf>>
    BY <1>20 DEF vars, registry, locking, tasks
  <2> QED
    BY <2>1, <2>2, HoldersFrame DEF LockInv, OneContext
<1> QED
  BY <1>1, <1>2, <1>3, <1>4, <1>5, <1>6, <1>7, <1>8, <1>9, <1>10, <1>11, <1>12, <1>13, <1>14,
     <1>15, <1>16, <1>17, <1>18, <1>19, <1>20, TaskServiceAssumption
    DEF Next, CallStep, TaskStep

(* Only Complete ends a task, and nothing takes a final state back. *)
LEMMA DoneStep == (LockInv /\ DoneWhenComplete) /\ [Next]_vars => DoneWhenComplete'
<1> SUFFICES ASSUME (LockInv /\ DoneWhenComplete), [Next]_vars PROVE DoneWhenComplete'
  OBVIOUS
<1>1. ASSUME NEW r \in Requests, Locate(r), UNCHANGED handoff PROVE DoneWhenComplete'
  BY <1>1 DEF Locate, Goto, DoneWhenComplete, Done, LockInv, TypeOK, locking, tasks
<1>2. ASSUME NEW r \in Requests, CallLocker(r), UNCHANGED handoff PROVE DoneWhenComplete'
  BY <1>2 DEF CallLocker, Goto, Locker, DoneWhenComplete, Done, LockInv, TypeOK, tasks
<1>3. ASSUME NEW r \in Requests, CallAcquire(r), UNCHANGED handoff PROVE DoneWhenComplete'
  BY <1>3
    DEF CallAcquire, Goto, Enter, DoneWhenComplete, Done, LockInv, TypeOK, registry,
        locking, tasks
<1>4. ASSUME NEW r \in Requests, CallUnlock(r), UNCHANGED handoff PROVE DoneWhenComplete'
  BY <1>4
    DEF CallUnlock, Goto, Leave, DoneWhenComplete, Done, LockInv, TypeOK, registry, locking,
        tasks
<1>5. ASSUME NEW r \in Requests, RunPut(r), UNCHANGED handoff PROVE DoneWhenComplete'
  BY <1>5 DEF RunPut, Goto, DoneWhenComplete, Done, LockInv, TypeOK, PhasesOK, locking, tasks
<1>6. ASSUME NEW r \in Requests, RunRunning(r), UNCHANGED handoff PROVE DoneWhenComplete'
  BY <1>6
    DEF RunRunning, Goto, DoneWhenComplete, Done, LockInv, TypeOK, PhasesOK, locking, tasks
<1>7. ASSUME NEW r \in Requests, RunLocker(r), UNCHANGED handoff PROVE DoneWhenComplete'
  BY <1>7 DEF RunLocker, Goto, Locker, DoneWhenComplete, Done, LockInv, TypeOK, tasks
<1>8. ASSUME NEW r \in Requests, RunHandoff(r), UNCHANGED handoff PROVE DoneWhenComplete'
  BY <1>8
    DEF RunHandoff, Goto, Enter, DoneWhenComplete, Done, LockInv, TypeOK, registry, locking,
        tasks
<1>9. ASSUME NEW r \in Requests, RunSpawn(r), UNCHANGED handoff PROVE DoneWhenComplete'
  BY <1>9 DEF RunSpawn, Goto, DoneWhenComplete, Done, LockInv, TypeOK, PhasesOK, locking, tasks
<1>10. ASSUME NEW r \in Requests, TaskLocker(r), UNCHANGED handoff PROVE DoneWhenComplete'
  BY <1>10 DEF TaskLocker, TaskGoto, Locker, DoneWhenComplete, Done, LockInv, TypeOK, tasks
<1>11. ASSUME NEW r \in Requests, TaskAcquire(r), UNCHANGED handoff PROVE DoneWhenComplete'
  BY <1>11
    DEF TaskAcquire, TaskGoto, Enter, DoneWhenComplete, Done, LockInv, TypeOK, registry,
        locking, tasks
<1>12. ASSUME NEW r \in Requests, ExecuteBegin(r), UNCHANGED handoff PROVE DoneWhenComplete'
  BY <1>12 DEF ExecuteBegin, TaskGoto, DoneWhenComplete, Done, LockInv, TypeOK, locking, tasks
<1>13. ASSUME NEW r \in Requests, ExecuteRemove(r), UNCHANGED handoff PROVE DoneWhenComplete'
  BY <1>13 DEF ExecuteRemove, TaskGoto, Remove, DoneWhenComplete, Done, LockInv, TypeOK, tasks
<1>14. ASSUME NEW r \in Requests, ExecuteEnd(r), UNCHANGED handoff PROVE DoneWhenComplete'
  BY <1>14 DEF ExecuteEnd, DoneWhenComplete, Done, LockInv, TypeOK, locking, tasks
<1>15. ASSUME NEW r \in Requests, TaskUnlock(r), UNCHANGED handoff PROVE DoneWhenComplete'
  BY <1>15
    DEF TaskUnlock, TaskGoto, Leave, DoneWhenComplete, Done, LockInv, TypeOK, registry,
        locking, tasks
<1>16. ASSUME NEW r \in Requests, Complete(r), UNCHANGED handoff PROVE DoneWhenComplete'
  BY <1>16 DEF Complete, TaskGoto, DoneWhenComplete, Done, LockInv, TypeOK, locking, tasks
<1>17. ASSUME NEW r \in Requests, CancelTask(r) PROVE DoneWhenComplete'
  BY <1>17 DEF CancelTask, DoneWhenComplete, Done, LockInv, TypeOK, locking, tasks
<1>18. ASSUME NEW r \in Requests, SetTaskState(r) PROVE DoneWhenComplete'
  BY <1>18 DEF SetTaskState, DoneWhenComplete, Done, LockInv, TypeOK, TaskStates, locking, tasks
<1>19. ASSUME NEW r \in Requests, WaitReturns(r) PROVE DoneWhenComplete'
  BY <1>19 DEF WaitReturns, DoneWhenComplete, Done, LockInv, TypeOK, locking, tasks
<1>20. CASE UNCHANGED vars
  BY <1>20 DEF DoneWhenComplete, Done, LockInv, TypeOK, vars, registry, locking, tasks
<1> QED
  BY <1>1, <1>2, <1>3, <1>4, <1>5, <1>6, <1>7, <1>8, <1>9, <1>10, <1>11, <1>12, <1>13, <1>14,
     <1>15, <1>16, <1>17, <1>18, <1>19, <1>20, TaskServiceAssumption
    DEF Next, CallStep, TaskStep

(* Two requests inside a registered object would hold its one lock. *)
LEMMA LockInvExclusive == LockInv => ExclusiveWhileRegistered
<1> SUFFICES ASSUME LockInv, NEW r \in Inside, NEW s \in Inside, Target[r] = Target[s],
                    Target[r] \in objects
             PROVE  r = s
  BY DEF ExclusiveWhileRegistered
<1>1. \A q \in Inside : q \in Requests /\ \E t \in Sides : Holds(q, t) /\ Chose(q, t)
  BY DEF Inside, Holds, Chose, CallIn, TaskIn, Sides
<1>2. PICK t \in Sides : Holds(r, t) /\ Chose(r, t)
  BY <1>1
<1>3. PICK u \in Sides : Holds(s, u) /\ Chose(s, u)
  BY <1>1
<1>4. /\ r \in Requests /\ s \in Requests /\ locks[Target[r]] \in LockIds
      /\ lockOf[r][t] = locks[Target[r]] /\ lockOf[s][u] = locks[Target[r]]
  BY <1>1, <1>2, <1>3 DEF LockInv, ChoiceOK
<1>5. <<r, t>> \in holders[locks[Target[r]]] /\ <<s, u>> \in holders[locks[Target[r]]]
  BY <1>2, <1>3, <1>4 DEF LockInv, HoldersOK
<1>6. <<r, t>>[1] = <<s, u>>[1]
  BY <1>4, <1>5 DEF LockInv, OneContext
<1> QED
  BY <1>6

(* The lock invariant is kept by every step. *)
LEMMA LockInvStep == LockInv /\ [Next]_vars => LockInv'
BY TypeStep, PhasesStep, ChoiceStep, HoldersStep DEF LockInv

(* Whoever enters a registered object is alone there, so the last to enter stays the last. *)
LEMMA LastInsideStep == (LockInv /\ LastInsideOK) /\ [Next]_vars => LastInsideOK'
<1> SUFFICES ASSUME (LockInv /\ LastInsideOK), [Next]_vars PROVE LastInsideOK'
  OBVIOUS
<1>1. ASSUME NEW r \in Requests, Locate(r), UNCHANGED handoff PROVE LastInsideOK'
  BY <1>1 DEF Locate, Goto, LockInv, TypeOK, PhasesOK, LastInsideOK, CallIn, locking, tasks
<1>2. ASSUME NEW r \in Requests, CallLocker(r), UNCHANGED handoff PROVE LastInsideOK'
  BY <1>2 DEF CallLocker, Goto, LockInv, TypeOK, PhasesOK, LastInsideOK, CallIn, tasks
<1>3. ASSUME NEW r \in Requests, CallAcquire(r), UNCHANGED handoff PROVE LastInsideOK'
  <2>1. ExclusiveWhileRegistered'
    BY LockInvStep, LockInvExclusive, PTL
  <2>2. r \in Inside'
    BY <1>3 DEF CallAcquire, Goto, tasks, LockInv, TypeOK, Inside
  <2>3. \A q \in Requests \ {r} : CallIn(q)' = CallIn(q) /\ tpc'[q] = tpc[q]
    BY <1>3 DEF CallAcquire, Goto, tasks, LockInv, TypeOK, CallIn
  <2> SUFFICES ASSUME NEW q \in Requests, (Target[q] \in objects)',
                      (CallIn(q) \/ (handoff /\ tpc[q] = "begin"))'
               PROVE  lastInside'[Target[q]] = {q}
    BY DEF LastInsideOK
  <2>4. q \in Inside'
    BY DEF Inside, CallIn
  <2>5. CASE q = r
    BY <1>3, <2>5, TaskServiceAssumption DEF CallAcquire, LockInv, TypeOK
  <2>6. CASE q # r
    <3>1. Target[q] # Target[r]
      BY <2>1, <2>2, <2>4, <2>6 DEF ExclusiveWhileRegistered
    <3>2. /\ Target[q] \in objects /\ lastInside'[Target[q]] = lastInside[Target[q]]
          /\ CallIn(q) \/ (handoff /\ tpc[q] = "begin")
      BY <1>3, <2>3, <2>6, <3>1, TaskServiceAssumption
        DEF CallAcquire, LockInv, TypeOK, registry
    <3> QED
      BY <3>2 DEF LastInsideOK
  <2> QED
    BY <2>5, <2>6
<1>4. ASSUME NEW r \in Requests, CallUnlock(r), UNCHANGED handoff PROVE LastInsideOK'
  BY <1>4
    DEF CallUnlock, Goto, LockInv, TypeOK, PhasesOK, LastInsideOK, CallIn, registry,
        locking, tasks
<1>5. ASSUME NEW r \in Requests, RunPut(r), UNCHANGED handoff PROVE LastInsideOK'
  BY <1>5 DEF RunPut, Goto, LockInv, TypeOK, PhasesOK, LastInsideOK, CallIn, locking, tasks
<1>6. ASSUME NEW r \in Requests, RunRunning(r), UNCHANGED handoff PROVE LastInsideOK'
  BY <1>6 DEF RunRunning, Goto, LockInv, TypeOK, PhasesOK, LastInsideOK, CallIn, locking, tasks
<1>7. ASSUME NEW r \in Requests, RunLocker(r), UNCHANGED handoff PROVE LastInsideOK'
  BY <1>7 DEF RunLocker, Goto, LockInv, TypeOK, PhasesOK, LastInsideOK, CallIn, tasks
<1>8. ASSUME NEW r \in Requests, RunHandoff(r), UNCHANGED handoff PROVE LastInsideOK'
  BY <1>8
    DEF RunHandoff, Goto, LockInv, TypeOK, PhasesOK, LastInsideOK, CallIn, registry,
        locking, tasks
<1>9. ASSUME NEW r \in Requests, RunSpawn(r), UNCHANGED handoff PROVE LastInsideOK'
  BY <1>9 DEF RunSpawn, Goto, LockInv, TypeOK, PhasesOK, LastInsideOK, CallIn, locking, tasks
<1>10. ASSUME NEW r \in Requests, TaskLocker(r), UNCHANGED handoff PROVE LastInsideOK'
  BY <1>10 DEF TaskLocker, TaskGoto, LockInv, TypeOK, PhasesOK, LastInsideOK, CallIn, tasks
<1>11. ASSUME NEW r \in Requests, TaskAcquire(r), UNCHANGED handoff PROVE LastInsideOK'
  BY <1>11
    DEF TaskAcquire, TaskGoto, LockInv, TypeOK, PhasesOK, LastInsideOK, CallIn, registry,
        locking, tasks
<1>12. ASSUME NEW r \in Requests, ExecuteBegin(r), UNCHANGED handoff PROVE LastInsideOK'
  <2>1. ExclusiveWhileRegistered'
    BY LockInvStep, LockInvExclusive, PTL
  <2>2. r \in Inside'
    BY <1>12 DEF ExecuteBegin, TaskGoto, tasks, LockInv, TypeOK, Inside
  <2>3. \A q \in Requests \ {r} : CallIn(q)' = CallIn(q) /\ tpc'[q] = tpc[q]
    BY <1>12 DEF ExecuteBegin, TaskGoto, tasks, LockInv, TypeOK, CallIn
  <2> SUFFICES ASSUME NEW q \in Requests, (Target[q] \in objects)',
                      (CallIn(q) \/ (handoff /\ tpc[q] = "begin"))'
               PROVE  lastInside'[Target[q]] = {q}
    BY DEF LastInsideOK
  <2>4. q \in Inside'
    BY DEF Inside, CallIn
  <2>5. CASE q = r
    <3>1. CallIn(r) /\ Target[r] \in objects
      BY <1>12, <2>5 DEF ExecuteBegin, TaskGoto, LockInv, TypeOK, CallIn
    <3> QED
      BY <1>12, <2>5, <3>1, TaskServiceAssumption
        DEF ExecuteBegin, LockInv, TypeOK, LastInsideOK
  <2>6. CASE q # r
    <3>1. Target[q] # Target[r]
      BY <2>1, <2>2, <2>4, <2>6 DEF ExclusiveWhileRegistered
    <3>2. /\ Target[q] \in objects /\ lastInside'[Target[q]] = lastInside[Target[q]]
          /\ CallIn(q) \/ (handoff /\ tpc[q] = "begin")
      BY <1>12, <2>3, <2>6, <3>1, TaskServiceAssumption
        DEF ExecuteBegin, LockInv, TypeOK
    <3> QED
      BY <3>2 DEF LastInsideOK
  <2> QED
    BY <2>5, <2>6
<1>13. ASSUME NEW r \in Requests, ExecuteRemove(r), UNCHANGED handoff PROVE LastInsideOK'
  BY <1>13
    DEF ExecuteRemove, TaskGoto, Remove, LockInv, TypeOK, PhasesOK, LastInsideOK, CallIn,
        tasks
<1>14. ASSUME NEW r \in Requests, ExecuteEnd(r), UNCHANGED handoff PROVE LastInsideOK'
  BY <1>14 DEF ExecuteEnd, LockInv, TypeOK, PhasesOK, LastInsideOK, CallIn, locking, tasks
<1>15. ASSUME NEW r \in Requests, TaskUnlock(r), UNCHANGED handoff PROVE LastInsideOK'
  BY <1>15
    DEF TaskUnlock, TaskGoto, LockInv, TypeOK, PhasesOK, LastInsideOK, CallIn, registry,
        locking, tasks
<1>16. ASSUME NEW r \in Requests, Complete(r), UNCHANGED handoff PROVE LastInsideOK'
  BY <1>16
    DEF Complete, TaskGoto, LockInv, TypeOK, PhasesOK, LastInsideOK, CallIn, locking, tasks
<1>17. ASSUME NEW r \in Requests, CancelTask(r) PROVE LastInsideOK'
  BY <1>17 DEF CancelTask, LockInv, TypeOK, PhasesOK, LastInsideOK, CallIn, locking, tasks
<1>18. ASSUME NEW r \in Requests, SetTaskState(r) PROVE LastInsideOK'
  BY <1>18 DEF SetTaskState, LockInv, TypeOK, PhasesOK, LastInsideOK, CallIn, locking, tasks
<1>19. ASSUME NEW r \in Requests, WaitReturns(r) PROVE LastInsideOK'
  BY <1>19 DEF WaitReturns, LockInv, TypeOK, PhasesOK, LastInsideOK, CallIn, locking, tasks
<1>20. CASE UNCHANGED vars
  BY <1>20 DEF LockInv, TypeOK, PhasesOK, LastInsideOK, CallIn, vars, registry, locking, tasks
<1> QED
  BY <1>1, <1>2, <1>3, <1>4, <1>5, <1>6, <1>7, <1>8, <1>9, <1>10, <1>11, <1>12, <1>13, <1>14,
     <1>15, <1>16, <1>17, <1>18, <1>19, <1>20, TaskServiceAssumption
    DEF Next, CallStep, TaskStep

-----------------------------------------------------------------------------
(* Nothing has happened yet: no lock is chosen or held. *)
LEMMA InitIInv == Init => IInv
<1> SUFFICES ASSUME Init PROVE IInv
  OBVIOUS
<1> USE TaskServiceAssumption
<1>1. TypeOK
  BY DEF Init, TypeOK, TaskStates, NoLock
<1>2. PhasesOK /\ DoneWhenComplete
  BY DEF Init, PhasesOK, DoneWhenComplete
<1>3. \A r \in Requests, side \in Sides : ~Holds(r, side) /\ ~Chose(r, side)
  BY DEF Init, Holds, Chose, CallIn, TaskIn
<1>4. ChoiceOK /\ HoldersOK /\ OneContext
  BY <1>3 DEF Init, ChoiceOK, HoldersOK, OneContext
<1>5. LastInsideOK
  BY DEF Init, LastInsideOK, CallIn
<1> QED
  BY <1>1, <1>2, <1>4, <1>5 DEF IInv, LockInv

(* Every step keeps the whole invariant. *)
LEMMA IInvStep == IInv /\ [Next]_vars => IInv'
BY LockInvStep, DoneStep, LastInsideStep DEF IInv

(* The invariant holds throughout every behaviour. *)
THEOREM Invariance == Spec => []IInv
<1>1. Init => IInv
  BY InitIInv
<1>2. IInv /\ [Next]_vars => IInv'
  BY IInvStep
<1> QED
  BY <1>1, <1>2, PTL DEF Spec

(***************************************************************************)
(* Calls and tasks of two requests never run together on a registered      *)
(* object, and a task whose goroutine is done has a final state, so that   *)
(* Task.Wait returns: for any requests, objects and clients.               *)
(***************************************************************************)
THEOREM CallsAreSafe == Spec => []CallsOK
<1>1. IInv => CallsOK
  BY LockInvExclusive DEF IInv, LockInv, CallsOK
<1> QED
  BY <1>1, Invariance, PTL

(***************************************************************************)
(* With hand off, no other request enters the object between the method    *)
(* that starts a task and the task's execution, while it is registered.    *)
(***************************************************************************)
THEOREM HandoffIsSeamless == Spec => SeamlessHandoff
<1>1. IInv /\ [Next]_vars =>
        [\A r \in Requests :
            handoff /\ tpc[r] = "begin" /\ tpc'[r] = "execute" /\ Target[r] \in objects
                => lastInside[Target[r]] = {r}]_vars
  BY DEF IInv, LastInsideOK
<1> QED
  BY <1>1, Invariance, PTL DEF Spec, SeamlessHandoff

(***************************************************************************)
(* CancelTask and SetTaskState, whenever they come, never change the       *)
(* outcome of a task whose goroutine is done.                              *)
(***************************************************************************)
THEOREM CompletionIsFinal == Spec => CompletedIsFinal
<1>1. ASSUME IInv, Next, NEW q \in Requests, tpc[q] = "done"
      PROVE  state'[q] = state[q]
  <2>0. pc[q] \in {"unlock", "replied"} /\ Done(q) /\ state \in [Requests -> TaskStates]
    BY <1>1 DEF IInv, LockInv, TypeOK, PhasesOK, DoneWhenComplete
  <2>1. ASSUME NEW r \in Requests, CallStep(r) PROVE state'[q] = state[q]
    BY <1>1, <2>0, <2>1 DEF CallStep, Locate, CallLocker, CallAcquire, CallUnlock, RunPut,
       RunRunning, RunLocker, RunHandoff, RunSpawn, Goto, tasks
  <2>2. ASSUME NEW r \in Requests, TaskStep(r) PROVE state'[q] = state[q]
    BY <1>1, <2>0, <2>2 DEF TaskStep, TaskLocker, TaskAcquire, ExecuteBegin, ExecuteRemove,
       ExecuteEnd, TaskUnlock, Complete, TaskGoto, tasks
  <2>3. ASSUME NEW r \in Requests, CancelTask(r) \/ SetTaskState(r) PROVE state'[q] = state[q]
    BY <2>0, <2>3 DEF CancelTask, SetTaskState, Done
  <2>4. ASSUME NEW r \in Waited, WaitReturns(r) PROVE state'[q] = state[q]
    BY <2>4 DEF WaitReturns
  <2> QED
    BY <1>1, <2>1, <2>2, <2>3, <2>4 DEF Next
<1>2. IInv /\ [Next]_vars =>
        [\A r \in Requests : tpc[r] = "done" => state'[r] = state[r]]_vars
  BY <1>1
<1> QED
  BY <1>2, Invariance, PTL DEF Spec, CompletedIsFinal

(***************************************************************************)
(* A request that has been answered, and whose task has ended if it        *)
(* started one, has given every lock back: no call or task leaks one.      *)
(***************************************************************************)
THEOREM LocksAreReturned == Spec => []NoLockLeft
<1>1. IInv => NoLockLeft
  <2> SUFFICES ASSUME IInv, NEW r \in Requests, NEW side \in Sides, NEW l \in LockIds,
                      Answered(r), tpc[r] \in {"none", "done"}
               PROVE  <<r, side>> \notin holders[l]
    BY DEF NoLockLeft
  <2>1. ~Holds(r, side)
    BY DEF Holds, CallIn, TaskIn, Answered
  <2> QED
    BY <2>1 DEF IInv, LockInv, HoldersOK
<1> QED
  BY <1>1, Invariance, PTL

-----------------------------------------------------------------------------
(* Lock l, as the calls and tasks use it, is the mutex ObjectLock implements. *)
Mutex(l) == INSTANCE ContextMutex WITH
    Calls <- Requests \X Sides, Contexts <- Requests,
    CtxOf <- [k \in Requests \X Sides |-> k[1]], holding <- holders[l]

(***************************************************************************)
(* Every lock is entered by a call or task that does not hold it and whose *)
(* context the holders share, and left only by one that holds it: every    *)
(* unlock of the code matches one Acquire.                                 *)
(***************************************************************************)
LEMMA StepRefines ==
    ASSUME IInv, [Next]_vars, NEW l \in LockIds
    PROVE  [Mutex(l)!Next]_(holders[l])
<1>0. /\ TypeOK /\ HoldersOK /\ ChoiceOK /\ PhasesOK
      /\ holders \in [LockIds -> SUBSET (Requests \X Sides)]
  BY DEF IInv, LockInv, TypeOK
<1>1. ASSUME NEW r \in Requests, NEW side \in Sides, Enter(r, side), ~Holds(r, side)
      PROVE  [Mutex(l)!Next]_(holders[l])
  <2>1. CASE lockOf[r][side] = l
    <3>1. /\ <<r, side>> \notin holders[l] /\ \A h \in holders[l] : h[1] = r
          /\ holders'[l] = holders[l] \cup {<<r, side>>}
      BY <1>0, <1>1, <2>1 DEF Enter, HoldersOK
    <3>2. <<r, side>> \in Requests \X Sides /\ <<r, side>>[1] = r
      OBVIOUS
    <3>3. Mutex(l)!Enter(<<r, side>>)
      BY <1>0, <3>1, <3>2 DEF Mutex!Enter
    <3> QED
      BY <3>2, <3>3 DEF Mutex!Next
  <2>2. CASE lockOf[r][side] # l
    BY <1>0, <1>1, <2>2 DEF Enter
  <2> QED
    BY <2>1, <2>2
<1>2. ASSUME NEW r \in Requests, NEW side \in Sides, Leave(r, side), Holds(r, side)
      PROVE  [Mutex(l)!Next]_(holders[l])
  <2>1. CASE lockOf[r][side] = l
    <3>1. /\ <<r, side>> \in holders[l]
          /\ holders'[l] = holders[l] \ {<<r, side>>}
      BY <1>0, <1>2, <2>1 DEF Leave, HoldersOK
    <3>2. <<r, side>> \in Requests \X Sides
      OBVIOUS
    <3>3. Mutex(l)!Leave(<<r, side>>)
      BY <3>1 DEF Mutex!Leave
    <3> QED
      BY <3>2, <3>3 DEF Mutex!Next
  <2>2. CASE lockOf[r][side] # l
    BY <1>0, <1>2, <2>2 DEF Leave
  <2> QED
    BY <2>1, <2>2
<1>3. ASSUME NEW r \in Requests, CallAcquire(r) \/ RunHandoff(r) \/ TaskAcquire(r)
      PROVE  [Mutex(l)!Next]_(holders[l])
  <2>1. \E side \in Sides : Enter(r, side) /\ ~Holds(r, side)
    BY <1>0, <1>3 DEF CallAcquire, RunHandoff, TaskAcquire, Goto, TaskGoto, Holds, CallIn,
       TaskIn, PhasesOK, Sides
  <2> QED
    BY <1>1, <2>1
<1>4. ASSUME NEW r \in Requests, CallUnlock(r) \/ TaskUnlock(r)
      PROVE  [Mutex(l)!Next]_(holders[l])
  <2>1. \E side \in Sides : Leave(r, side) /\ Holds(r, side)
    BY <1>4 DEF CallUnlock, TaskUnlock, Goto, TaskGoto, Holds, CallIn, TaskIn, Sides
  <2> QED
    BY <1>2, <2>1
<1>5. \/ UNCHANGED holders
      \/ \E r \in Requests : CallAcquire(r) \/ RunHandoff(r) \/ TaskAcquire(r)
      \/ \E r \in Requests : CallUnlock(r) \/ TaskUnlock(r)
  BY DEF Next, CallStep, TaskStep, Locate, CallLocker, RunPut, RunRunning, RunLocker, RunSpawn,
     TaskLocker, ExecuteBegin, ExecuteRemove, ExecuteEnd, Complete, CancelTask, SetTaskState,
     WaitReturns, vars, locking
<1> QED
  BY <1>3, <1>4, <1>5

(***************************************************************************)
(* The calls and tasks of the service use every object lock as module      *)
(* ContextMutex promises it, which ObjectLock is proved to implement.      *)
(***************************************************************************)
THEOREM LocksAreContextMutexes == Spec => \A l \in LockIds : Mutex(l)!Spec
<1> SUFFICES ASSUME NEW l \in LockIds PROVE Spec => Mutex(l)!Spec
  OBVIOUS
<1>1. Init => Mutex(l)!Init
  BY DEF Init, Mutex!Init
<1>2. IInv /\ [Next]_vars => [Mutex(l)!Next]_(holders[l])
  BY StepRefines
<1> QED
  BY <1>1, <1>2, Invariance, PTL DEF Spec, Mutex!Spec
=============================================================================
