-------------------------- MODULE ObjectLockProofs --------------------------
(***************************************************************************)
(* ObjectLock is safe for any calls, contexts and assignment of calls to   *)
(* contexts: the invariant IInv of ObjectLock is inductive and implies the *)
(* safety properties, and the two-lock protocol implements ContextMutex.   *)
(***************************************************************************)
EXTENDS ObjectLock, FiniteSetTheorems, TLAPS

(* Adding an element to, or removing one from, a finite set. *)
LEMMA CardinalityUpdate ==
    ASSUME NEW S, NEW x, IsFiniteSet(S)
    PROVE  /\ IsFiniteSet(S \cup {x}) /\ IsFiniteSet(S \ {x})
           /\ x \notin S => Cardinality(S \cup {x}) = Cardinality(S) + 1
           /\ x \in S => Cardinality(S \ {x}) = Cardinality(S) - 1
           /\ Cardinality(S) \in Nat
           /\ Cardinality(S) = 0 <=> S = {}
  BY FS_AddElement, FS_RemoveElement, FS_CardinalityType, FS_EmptySet

-----------------------------------------------------------------------------
(* The initial state satisfies the inductive invariant. *)
LEMMA InitIInv == Init => IInv
<1> SUFFICES ASSUME Init PROVE IInv
  OBVIOUS
<1> USE LockAssumption DEF Init
<1>1. TypeOK
  BY DEF TypeOK, Locations
<1>2. holding = {}
  BY DEF holding
<1>3. IsFiniteSet(holding) /\ Cardinality(holding) = 0
  BY <1>2, FS_EmptySet
<1> QED
  BY <1>1, <1>2, <1>3 DEF IInv, StateLockOwner, HoldersShareContext,
     CountsReferences, LockOwner, FreeWhenLocking, NoPanic, OnlyWaitersContend

-----------------------------------------------------------------------------
(***************************************************************************)
(* A step that takes no reference and drops none leaves the holders and    *)
(* what is recorded about them alone.                                      *)
(***************************************************************************)
LEMMA HoldersUnchanged ==
    ASSUME IInv, NEW k \in Calls, NEW from \in Locations, NEW to \in Locations,
           Goto(k, from, to), UNCHANGED <<heldBy, count>>,
           from \in {"held", "releaseEnter", "release"}
               <=> to \in {"held", "releaseEnter", "release"},
           to # "panicked"
    PROVE  /\ holding' = holding
           /\ pc' \in [Calls -> Locations]
           /\ HoldersShareContext' /\ IsFiniteSet(holding)'
           /\ CountsReferences' /\ NoPanic'
<1>1. pc \in [Calls -> Locations] /\ pc[k] = from /\ pc' = [pc EXCEPT ![k] = to]
  BY DEF IInv, TypeOK, Goto
<1>2. holding' = holding
  BY <1>1 DEF holding
<1>3. pc' \in [Calls -> Locations] /\ NoPanic'
  BY <1>1 DEF IInv, NoPanic
<1> QED
  BY <1>2, <1>3 DEF IInv, HoldersShareContext, CountsReferences

(***************************************************************************)
(* Acquire's steps preserve the invariant.  The two that take a reference  *)
(* add the call to the holders; the others move between the two mutexes.   *)
(***************************************************************************)
LEMMA AcquireSteps ==
    ASSUME IInv, NEW k \in Calls,
           \/ Acquire(k) \/ TryEnter(k) \/ TryShared(k) \/ TryFree(k)
           \/ TryLock(k) \/ TryFail(k) \/ WaitLock(k) \/ WaitUnlock(k)
    PROVE  IInv'
<1> USE LockAssumption
<1>0. /\ pc \in [Calls -> Locations] /\ count \in Nat /\ lock \in BOOLEAN
      /\ heldBy \in Contexts \cup {Nobody} /\ stateLock \in Calls \cup {Nobody}
      /\ CtxOf[k] \in Contexts /\ CtxOf[k] # Nobody /\ k # Nobody
  BY DEF IInv, TypeOK
<1>1. CASE Acquire(k)
  <2>1. /\ HoldersShareContext' /\ IsFiniteSet(holding)' /\ CountsReferences'
        /\ NoPanic' /\ pc' \in [Calls -> Locations]
    <3>1. Goto(k, "start", "tryEnter") /\ UNCHANGED <<heldBy, count>>
      BY <1>1 DEF Acquire
    <3>2. "start" \in Locations /\ "tryEnter" \in Locations
      BY DEF Locations
    <3> QED
      BY <3>1, <3>2, HoldersUnchanged
  <2>2. TypeOK'
    BY <1>0, <1>1, <2>1 DEF Acquire, TypeOK
  <2>3. StateLockOwner' /\ FreeWhenLocking'
    BY <1>0, <1>1 DEF Acquire, Goto, IInv, StateLockOwner, FreeWhenLocking
  <2>4. LockOwner' /\ OnlyWaitersContend'
    BY <1>0, <1>1 DEF Acquire, Goto, IInv, LockOwner, OnlyWaitersContend
  <2> QED
    BY <2>1, <2>2, <2>3, <2>4 DEF IInv
<1>2. CASE TryEnter(k)
  <2>1. /\ HoldersShareContext' /\ IsFiniteSet(holding)' /\ CountsReferences'
        /\ NoPanic' /\ pc' \in [Calls -> Locations]
    <3>1. Goto(k, "tryEnter", "try") /\ UNCHANGED <<heldBy, count>>
      BY <1>2 DEF TryEnter
    <3>2. "tryEnter" \in Locations /\ "try" \in Locations
      BY DEF Locations
    <3> QED
      BY <3>1, <3>2, HoldersUnchanged
  <2>2. TypeOK'
    BY <1>0, <1>2, <2>1 DEF TryEnter, TypeOK
  <2>3. StateLockOwner' /\ FreeWhenLocking'
    BY <1>0, <1>2 DEF TryEnter, Goto, IInv, StateLockOwner, FreeWhenLocking
  <2>4. LockOwner' /\ OnlyWaitersContend'
    BY <1>0, <1>2 DEF TryEnter, Goto, IInv, LockOwner, OnlyWaitersContend
  <2> QED
    BY <2>1, <2>2, <2>3, <2>4 DEF IInv
<1>3. CASE TryFree(k)
  <2>1. /\ HoldersShareContext' /\ IsFiniteSet(holding)' /\ CountsReferences'
        /\ NoPanic' /\ pc' \in [Calls -> Locations]
    <3>1. Goto(k, "try", "tryLock") /\ UNCHANGED <<heldBy, count>>
      BY <1>3 DEF TryFree
    <3>2. "try" \in Locations /\ "tryLock" \in Locations
      BY DEF Locations
    <3> QED
      BY <3>1, <3>2, HoldersUnchanged
  <2>2. TypeOK'
    BY <1>0, <1>3, <2>1 DEF TryFree, TypeOK
  <2>3. StateLockOwner' /\ FreeWhenLocking'
    BY <1>0, <1>3 DEF TryFree, Goto, IInv, StateLockOwner, FreeWhenLocking
  <2>4. LockOwner' /\ OnlyWaitersContend'
    BY <1>0, <1>3 DEF TryFree, Goto, IInv, LockOwner, OnlyWaitersContend
  <2> QED
    BY <2>1, <2>2, <2>3, <2>4 DEF IInv
<1>4. CASE TryFail(k)
  <2>1. /\ HoldersShareContext' /\ IsFiniteSet(holding)' /\ CountsReferences'
        /\ NoPanic' /\ pc' \in [Calls -> Locations]
    <3>1. Goto(k, "try", "wait") /\ UNCHANGED <<heldBy, count>>
      BY <1>4 DEF TryFail
    <3>2. "try" \in Locations /\ "wait" \in Locations
      BY DEF Locations
    <3> QED
      BY <3>1, <3>2, HoldersUnchanged
  <2>2. TypeOK'
    BY <1>0, <1>4, <2>1 DEF TryFail, TypeOK
  <2>3. StateLockOwner' /\ FreeWhenLocking'
    BY <1>0, <1>4 DEF TryFail, Goto, IInv, StateLockOwner, FreeWhenLocking
  <2>4. LockOwner' /\ OnlyWaitersContend'
    BY <1>0, <1>4 DEF TryFail, Goto, IInv, LockOwner, OnlyWaitersContend
  <2> QED
    BY <2>1, <2>2, <2>3, <2>4 DEF IInv
<1>5. CASE WaitLock(k)
  <2>1. /\ HoldersShareContext' /\ IsFiniteSet(holding)' /\ CountsReferences'
        /\ NoPanic' /\ pc' \in [Calls -> Locations]
    <3>1. Goto(k, "wait", "waitUnlock") /\ UNCHANGED <<heldBy, count>>
      BY <1>5 DEF WaitLock
    <3>2. "wait" \in Locations /\ "waitUnlock" \in Locations
      BY DEF Locations
    <3> QED
      BY <3>1, <3>2, HoldersUnchanged
  <2>2. TypeOK'
    BY <1>0, <1>5, <2>1 DEF WaitLock, TypeOK
  <2>3. StateLockOwner' /\ FreeWhenLocking'
    BY <1>0, <1>5 DEF WaitLock, Goto, IInv, StateLockOwner, FreeWhenLocking
  <2>4. LockOwner' /\ OnlyWaitersContend'
    BY <1>0, <1>5 DEF WaitLock, Goto, IInv, LockOwner, OnlyWaitersContend
  <2> QED
    BY <2>1, <2>2, <2>3, <2>4 DEF IInv
<1>6. CASE WaitUnlock(k)
  <2>1. /\ HoldersShareContext' /\ IsFiniteSet(holding)' /\ CountsReferences'
        /\ NoPanic' /\ pc' \in [Calls -> Locations]
    <3>1. Goto(k, "waitUnlock", "tryEnter") /\ UNCHANGED <<heldBy, count>>
      BY <1>6 DEF WaitUnlock
    <3>2. "waitUnlock" \in Locations /\ "tryEnter" \in Locations
      BY DEF Locations
    <3> QED
      BY <3>1, <3>2, HoldersUnchanged
  <2>2. TypeOK'
    BY <1>0, <1>6, <2>1 DEF WaitUnlock, TypeOK
  <2>3. StateLockOwner' /\ FreeWhenLocking'
    BY <1>0, <1>6 DEF WaitUnlock, Goto, IInv, StateLockOwner, FreeWhenLocking
  <2>4. LockOwner' /\ OnlyWaitersContend'
    BY <1>0, <1>6 DEF WaitUnlock, Goto, IInv, LockOwner, OnlyWaitersContend
  <2> QED
    BY <2>1, <2>2, <2>3, <2>4 DEF IInv
<1>7. CASE TryShared(k)
  <2>1. /\ pc[k] = "try" /\ pc' = [pc EXCEPT ![k] = "held"]
        /\ pc' \in [Calls -> Locations]
    BY <1>0, <1>7 DEF TryShared, Goto, Locations
  <2>2. k \notin holding /\ holding' = holding \cup {k}
    BY <1>0, <2>1 DEF holding
  <2>3. /\ count' = Cardinality(holding') /\ IsFiniteSet(holding')
        /\ count' # 0 /\ count' \in Nat /\ heldBy' = CtxOf[k]
        /\ \A j \in holding : heldBy' = CtxOf[j]
    <3>1. IsFiniteSet(holding)
      BY DEF IInv
    <3>2. /\ IsFiniteSet(holding \cup {k}) /\ Cardinality(holding) \in Nat
          /\ Cardinality(holding \cup {k}) = Cardinality(holding) + 1
          /\ Cardinality(holding) = 0 <=> holding = {}
      BY <2>2, <3>1, CardinalityUpdate
    <3> QED
      BY <1>0, <1>7, <2>1, <2>2, <3>2
         DEF TryShared, IInv, CountsReferences, HoldersShareContext, FreeWhenLocking
  <2>4. HoldersShareContext' /\ IsFiniteSet(holding)' /\ CountsReferences'
    BY <1>0, <2>2, <2>3 DEF HoldersShareContext, CountsReferences
  <2>5. TypeOK' /\ NoPanic'
    BY <1>0, <1>7, <2>1, <2>3 DEF TryShared, TypeOK, NoPanic, IInv
  <2>6. StateLockOwner' /\ FreeWhenLocking'
    BY <1>0, <1>7, <2>1, <2>3 DEF TryShared, IInv, StateLockOwner, FreeWhenLocking
  <2>7. LockOwner' /\ OnlyWaitersContend'
    BY <1>0, <1>7, <2>1, <2>3 DEF TryShared, IInv, LockOwner, OnlyWaitersContend
  <2> QED
    BY <2>4, <2>5, <2>6, <2>7 DEF IInv
<1>8. CASE TryLock(k)
  <2>1. /\ pc[k] = "tryLock" /\ pc' = [pc EXCEPT ![k] = "held"]
        /\ pc' \in [Calls -> Locations]
    BY <1>0, <1>8 DEF TryLock, Goto, Locations
  <2>2. k \notin holding /\ holding' = holding \cup {k}
    BY <1>0, <2>1 DEF holding
  <2>3. /\ count' = Cardinality(holding') /\ IsFiniteSet(holding')
        /\ count' # 0 /\ count' \in Nat /\ heldBy' = CtxOf[k]
        /\ \A j \in holding : heldBy' = CtxOf[j]
    <3>1. IsFiniteSet(holding)
      BY DEF IInv
    <3>2. /\ IsFiniteSet(holding \cup {k}) /\ Cardinality(holding) \in Nat
          /\ Cardinality(holding \cup {k}) = Cardinality(holding) + 1
          /\ Cardinality(holding) = 0 <=> holding = {}
      BY <2>2, <3>1, CardinalityUpdate
    <3> QED
      BY <1>0, <1>8, <2>1, <2>2, <3>2
         DEF TryLock, IInv, CountsReferences, HoldersShareContext, FreeWhenLocking
  <2>4. HoldersShareContext' /\ IsFiniteSet(holding)' /\ CountsReferences'
    BY <1>0, <2>2, <2>3 DEF HoldersShareContext, CountsReferences
  <2>5. TypeOK' /\ NoPanic'
    BY <1>0, <1>8, <2>1, <2>3 DEF TryLock, TypeOK, NoPanic, IInv
  <2>6. StateLockOwner' /\ FreeWhenLocking'
    BY <1>0, <1>8, <2>1, <2>3 DEF TryLock, IInv, StateLockOwner, FreeWhenLocking
  <2>7. LockOwner' /\ OnlyWaitersContend'
    BY <1>0, <1>8, <2>1, <2>3 DEF TryLock, IInv, LockOwner, OnlyWaitersContend
  <2> QED
    BY <2>4, <2>5, <2>6, <2>7 DEF IInv
<1> QED
  BY <1>1, <1>2, <1>3, <1>4, <1>5, <1>6, <1>7, <1>8

(***************************************************************************)
(* Release's steps preserve the invariant: the caller is a holder, so the  *)
(* sanity check passes, and the last reference frees both heldBy and lock. *)
(***************************************************************************)
LEMMA ReleaseSteps ==
    ASSUME IInv, NEW k \in Calls, Release(k) \/ ReleaseEnter(k) \/ ReleaseRef(k)
    PROVE  IInv'
<1> USE LockAssumption
<1>0. /\ pc \in [Calls -> Locations] /\ count \in Nat /\ lock \in BOOLEAN
      /\ heldBy \in Contexts \cup {Nobody} /\ stateLock \in Calls \cup {Nobody}
      /\ CtxOf[k] \in Contexts /\ CtxOf[k] # Nobody /\ k # Nobody
  BY DEF IInv, TypeOK
<1>1. CASE Release(k)
  <2>1. /\ HoldersShareContext' /\ IsFiniteSet(holding)' /\ CountsReferences'
        /\ NoPanic' /\ pc' \in [Calls -> Locations]
    <3>1. Goto(k, "held", "releaseEnter") /\ UNCHANGED <<heldBy, count>>
      BY <1>1 DEF Release
    <3>2. "held" \in Locations /\ "releaseEnter" \in Locations
      BY DEF Locations
    <3> QED
      BY <3>1, <3>2, HoldersUnchanged
  <2>2. TypeOK'
    BY <1>0, <1>1, <2>1 DEF Release, TypeOK
  <2>3. StateLockOwner' /\ FreeWhenLocking'
    BY <1>0, <1>1 DEF Release, Goto, IInv, StateLockOwner, FreeWhenLocking
  <2>4. LockOwner' /\ OnlyWaitersContend'
    BY <1>0, <1>1 DEF Release, Goto, IInv, LockOwner, OnlyWaitersContend
  <2> QED
    BY <2>1, <2>2, <2>3, <2>4 DEF IInv
<1>2. CASE ReleaseEnter(k)
  <2>1. /\ HoldersShareContext' /\ IsFiniteSet(holding)' /\ CountsReferences'
        /\ NoPanic' /\ pc' \in [Calls -> Locations]
    <3>1. Goto(k, "releaseEnter", "release") /\ UNCHANGED <<heldBy, count>>
      BY <1>2 DEF ReleaseEnter
    <3>2. "releaseEnter" \in Locations /\ "release" \in Locations
      BY DEF Locations
    <3> QED
      BY <3>1, <3>2, HoldersUnchanged
  <2>2. TypeOK'
    BY <1>0, <1>2, <2>1 DEF ReleaseEnter, TypeOK
  <2>3. StateLockOwner' /\ FreeWhenLocking'
    BY <1>0, <1>2 DEF ReleaseEnter, Goto, IInv, StateLockOwner, FreeWhenLocking
  <2>4. LockOwner' /\ OnlyWaitersContend'
    BY <1>0, <1>2 DEF ReleaseEnter, Goto, IInv, LockOwner, OnlyWaitersContend
  <2> QED
    BY <2>1, <2>2, <2>3, <2>4 DEF IInv
<1>3. CASE ReleaseRef(k)
  <2>1. k \in holding /\ heldBy = CtxOf[k] /\ stateLock = k /\ lock
    BY <1>0, <1>3 DEF ReleaseRef, holding, IInv, HoldersShareContext, StateLockOwner, LockOwner
  <2>2. /\ pc' = [pc EXCEPT ![k] = "released"] /\ pc' \in [Calls -> Locations]
        /\ count' = count - 1 /\ stateLock' = Nobody
        /\ count' = 0 => heldBy' = Nobody /\ lock' = FALSE
        /\ count' # 0 => heldBy' = heldBy /\ lock' = lock
    BY <1>0, <1>3, <2>1 DEF ReleaseRef, DropReference, Locations
  <2>3. holding' = holding \ {k}
    BY <1>0, <2>2 DEF holding
  <2>4. /\ count' = Cardinality(holding') /\ IsFiniteSet(holding') /\ count' \in Nat
        /\ count' = 0 <=> holding' = {}
    <3>1. IsFiniteSet(holding)
      BY DEF IInv
    <3>2. /\ IsFiniteSet(holding \ {k}) /\ Cardinality(holding) \in Nat
          /\ Cardinality(holding \ {k}) = Cardinality(holding) - 1
      BY <2>1, <3>1, CardinalityUpdate
    <3>3. /\ Cardinality(holding \ {k}) \in Nat
          /\ Cardinality(holding \ {k}) = 0 <=> holding \ {k} = {}
      BY <3>2, CardinalityUpdate
    <3> QED
      BY <2>2, <2>3, <3>2, <3>3 DEF IInv, CountsReferences
  <2>5. heldBy' = Nobody <=> count' = 0
    BY <1>0, <2>1, <2>2
  <2>6. HoldersShareContext' /\ IsFiniteSet(holding)' /\ CountsReferences'
    BY <2>2, <2>3, <2>4, <2>5 DEF HoldersShareContext, CountsReferences, IInv
  <2>7. TypeOK' /\ NoPanic'
    BY <1>0, <2>2, <2>4 DEF TypeOK, NoPanic, IInv
  <2>8. StateLockOwner' /\ FreeWhenLocking'
    BY <1>0, <2>1, <2>2 DEF IInv, StateLockOwner, FreeWhenLocking
  <2>9. LockOwner' /\ OnlyWaitersContend'
    BY <1>0, <2>1, <2>2 DEF IInv, LockOwner, OnlyWaitersContend
  <2> QED
    BY <2>6, <2>7, <2>8, <2>9 DEF IInv
<1> QED
  BY <1>1, <1>2, <1>3

(* Every step, and every stuttering step, preserves the invariant. *)
LEMMA NextIInv == IInv /\ [Next]_vars => IInv'
<1> SUFFICES ASSUME IInv, [Next]_vars PROVE IInv'
  OBVIOUS
<1>1. CASE \E k \in Calls : Acquire(k) \/ Step(k)
  BY <1>1, AcquireSteps, ReleaseSteps DEF Step
<1>2. CASE UNCHANGED vars
  BY <1>2 DEF vars, IInv, TypeOK, StateLockOwner, HoldersShareContext, holding,
     FreeWhenLocking, LockOwner, OnlyWaitersContend, CountsReferences, NoPanic
<1> QED
  BY <1>1, <1>2 DEF Next, Terminated

-----------------------------------------------------------------------------
(* The inductive invariant holds in every reachable state. *)
THEOREM Invariance == Spec => []IInv
  BY InitIInv, NextIInv, PTL DEF Spec

(* Every variable keeps its type; in particular l.count is never negative. *)
THEOREM TypeCorrect == Spec => []TypeOK
<1>1. IInv => TypeOK
  BY DEF IInv
<1> QED
  BY Invariance, <1>1, PTL

(***************************************************************************)
(* For any number of calls and contexts, code run between Acquire and      *)
(* Release runs on behalf of one context at a time.                        *)
(***************************************************************************)
THEOREM MutualExclusionHolds == Spec => []MutualExclusion
<1>1. IInv => MutualExclusion
  BY DEF IInv, HoldersShareContext, MutualExclusion
<1> QED
  BY Invariance, <1>1, PTL

(* l.count is the number of holders, so that the last Release, and no      *)
(* earlier one, frees the object.                                          *)
THEOREM CountIsExact == Spec => []CountsReferences
<1>1. IInv => CountsReferences
  BY DEF IInv
<1> QED
  BY Invariance, <1>1, PTL

(* No Release of a holder panics, whoever else releases at the same time.   *)
THEOREM ReleaseIsSafe == Spec => []NoPanic
<1>1. IInv => NoPanic
  BY DEF IInv
<1> QED
  BY Invariance, <1>1, PTL

(* A call that blocks on l.lock inside try, with stateLock held, waits for a *)
(* call inside wait, which gives l.lock back without needing stateLock.      *)
THEOREM TryWaitsForWaiters == Spec => []OnlyWaitersContend
<1>1. IInv => OnlyWaitersContend
  BY DEF IInv
<1> QED
  BY Invariance, <1>1, PTL

-----------------------------------------------------------------------------
(* Which abstract step each step is. *)
LEMMA StepRefines ==
    ASSUME IInv, [Next]_vars PROVE [Mutex!Next]_holding
<1> USE LockAssumption DEF Mutex!Next
<1>0. pc \in [Calls -> Locations]
  BY DEF IInv, TypeOK
<1>1. ASSUME NEW k \in Calls, TryShared(k) \/ TryLock(k)
      PROVE  Mutex!Enter(k)
  <2>1. k \notin holding /\ holding' = holding \cup {k}
    BY <1>0, <1>1 DEF TryShared, TryLock, Goto, holding
  <2>2. \A j \in holding : CtxOf[j] = CtxOf[k]
    <3>1. CASE TryShared(k)
      BY <3>1 DEF TryShared, IInv, HoldersShareContext
    <3>2. CASE TryLock(k)
      <4>1. heldBy = Nobody
        BY <3>2 DEF TryLock, Goto, IInv, FreeWhenLocking
      <4> QED
        BY <4>1 DEF IInv, HoldersShareContext, holding
    <3> QED
      BY <1>1, <3>1, <3>2
  <2> QED
    BY <2>1, <2>2 DEF Mutex!Enter
<1>2. ASSUME NEW k \in Calls, ReleaseRef(k)
      PROVE  Mutex!Leave(k)
  <2>1. k \in holding /\ heldBy = CtxOf[k]
    BY <1>0, <1>2 DEF ReleaseRef, holding, IInv, HoldersShareContext
  <2>2. holding' = holding \ {k}
    BY <1>0, <1>2, <2>1 DEF ReleaseRef, DropReference, holding
  <2> QED
    BY <2>1, <2>2 DEF Mutex!Leave
<1>3. ASSUME NEW k \in Calls,
             \/ Acquire(k) \/ TryEnter(k) \/ TryFree(k) \/ TryFail(k)
             \/ WaitLock(k) \/ WaitUnlock(k) \/ Release(k) \/ ReleaseEnter(k)
      PROVE  holding' = holding
  BY <1>0, <1>3 DEF Acquire, TryEnter, TryFree, TryFail, WaitLock, WaitUnlock,
     Release, ReleaseEnter, Goto, holding
<1>4. UNCHANGED vars => holding' = holding
  BY DEF vars, holding
<1> QED
  BY <1>1, <1>2, <1>3, <1>4 DEF Next, Step, Terminated

(***************************************************************************)
(* try, wait and Release together implement the mutex shared by a context: *)
(* Acquire takes effect when it sets heldBy or count, Release when it      *)
(* drops the reference.                                                    *)
(***************************************************************************)
THEOREM Refinement == Spec => RefinesContextMutex
<1>1. Init => Mutex!Init
  BY DEF Init, Mutex!Init, holding
<1>2. IInv /\ [Next]_vars => [Mutex!Next]_holding
  BY StepRefines
<1> QED
  BY Invariance, <1>1, <1>2, PTL DEF Spec, RefinesContextMutex, Mutex!Spec
=============================================================================
