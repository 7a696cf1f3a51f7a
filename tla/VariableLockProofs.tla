------------------------- MODULE VariableLockProofs -------------------------
(***************************************************************************)
(* For any number of threads, variables and removals: VariableLock keeps   *)
(* two threads from being inside with the same variable, and implements    *)
(* KeyedMutex.  The invariant: a thread owns the lock object it acquired   *)
(* until it releases it (Owned), and the table keeps the lock of a thread  *)
(* that is inside (InsideIsCurrent), since only the owner of a lock        *)
(* object deletes its entry.                                               *)
(***************************************************************************)
EXTENDS VariableLock, TLAPS

LockInv == TypeOK /\ Owned /\ InsideIsCurrent

\* At the start the table is empty and no thread does anything.
LEMMA LockInvInit == Init => LockInv
BY VariableLockAssumption
   DEF Init, LockInv, TypeOK, Owned, InsideIsCurrent, Points, Holding, Asking

\* Every step of a thread keeps the types.
LEMMA LockTypeStep == TypeOK /\ [Next]_vars => TypeOK'
<1> SUFFICES ASSUME TypeOK, [Next]_vars PROVE TypeOK'
    OBVIOUS
<1> USE DEF Points, Holding, Asking
<1>1. CASE UNCHANGED vars
    BY <1>1 DEF TypeOK, vars
<1>2. ASSUME NEW t \in Threads, NEW v \in Vars, Call(t, v) PROVE TypeOK'
    BY <1>2, VariableLockAssumption DEF TypeOK, Call, Goto
<1>3. ASSUME NEW t \in Threads, LookUp(t) PROVE TypeOK'
    <2>1. PICK l \in Locks : /\ table' = [table EXCEPT ![var[t]] = l]
                             /\ lock' = [lock EXCEPT ![t] = l]
        BY <1>3 DEF LookUp
    <2>2. pc[t] = "look up" /\ pc' = [pc EXCEPT ![t] = "acquire"] /\ UNCHANGED <<owner, var>>
        BY <1>3 DEF LookUp, Goto
    <2>3. l # None
        BY VariableLockAssumption
    <2> QED
        BY <2>1, <2>2, <2>3 DEF TypeOK
<1>4. ASSUME NEW t \in Threads, Acquire(t) PROVE TypeOK'
    BY <1>4 DEF TypeOK, Acquire, Goto, Take
<1>5. ASSUME NEW t \in Threads, Check(t) PROVE TypeOK'
    BY <1>5 DEF TypeOK, Check, Goto
<1>6. ASSUME NEW t \in Threads, Retry(t) PROVE TypeOK'
    BY <1>6 DEF TypeOK, Retry, Goto, Release
<1>7. ASSUME NEW t \in Threads, Exit(t) PROVE TypeOK'
    BY <1>7 DEF TypeOK, Exit, Goto, Release, Forget
<1>8. ASSUME NEW t \in Threads, RemoveTake(t) PROVE TypeOK'
    BY <1>8 DEF TypeOK, RemoveTake, Goto, Take
<1>9. ASSUME NEW t \in Threads, Delete(t) PROVE TypeOK'
    BY <1>9 DEF TypeOK, Delete, Goto
<1>10. ASSUME NEW t \in Threads, RemoveRelease(t) PROVE TypeOK'
    BY <1>10 DEF TypeOK, RemoveRelease, Goto, Release, Forget
<1> QED
    BY <1>1, <1>2, <1>3, <1>4, <1>5, <1>6, <1>7, <1>8, <1>9, <1>10 DEF Next, Step

\* Taking a free lock object leaves those of the others theirs.
LEMMA TakeOwned ==
    ASSUME TypeOK, Owned, NEW t \in Threads, NEW p \in Holding,
           Take(t), pc[t] \in {"acquire", "remove"}, pc' = [pc EXCEPT ![t] = p],
           lock' = lock
    PROVE  Owned'
<1> SUFFICES ASSUME NEW u \in Threads, pc'[u] \in Holding PROVE owner'[lock[u]] = u
    BY DEF Owned
<1>1. lock[t] \in Locks /\ owner' = [owner EXCEPT ![lock[t]] = t] /\ owner[lock[t]] = None
    BY DEF TypeOK, Take
<1>2. CASE u = t
    BY <1>1, <1>2 DEF TypeOK
<1>3. CASE u # t
    <2>1. owner[lock[u]] = u
        BY <1>3 DEF Owned, TypeOK
    <2>2. lock[u] # lock[t]
        BY <1>1, <2>1, VariableLockAssumption
    <2>3. lock[u] \in Locks
        BY <1>3 DEF TypeOK, Holding
    <2>4. owner'[lock[u]] = owner[lock[u]]
        BY <1>1, <2>2, <2>3 DEF TypeOK
    <2> QED
        BY <2>1, <2>4
<1> QED
    BY <1>2, <1>3

\* Only its owner releases a lock object, and it is acquired when it is free:
\* the owners of the others do not change.
LEMMA OwnedStep == LockInv /\ [Next]_vars => Owned'
<1> SUFFICES ASSUME LockInv, [Next]_vars PROVE Owned'
    OBVIOUS
<1> USE DEF Points, Holding, Asking, LockInv, TypeOK, Owned
<1>1. CASE UNCHANGED vars
    BY <1>1 DEF vars
<1>2. ASSUME NEW t \in Threads, NEW v \in Vars, Call(t, v) PROVE Owned'
    BY <1>2 DEF Call, Goto
<1>3. ASSUME NEW t \in Threads, LookUp(t) PROVE Owned'
    BY <1>3 DEF LookUp, Goto
<1>4. ASSUME NEW t \in Threads, Acquire(t) PROVE Owned'
    BY <1>4, TakeOwned DEF Acquire, Goto
<1>5. ASSUME NEW t \in Threads, Check(t) PROVE Owned'
    BY <1>5 DEF Check, Goto
<1>6. ASSUME NEW t \in Threads, Retry(t) PROVE Owned'
    BY <1>6 DEF Retry, Goto, Release
<1>7. ASSUME NEW t \in Threads, Exit(t) PROVE Owned'
    <2> SUFFICES ASSUME NEW u \in Threads, pc'[u] \in Holding PROVE owner'[lock'[u]] = u
        BY DEF Owned
    <2>1. u # t /\ pc'[u] = pc[u] /\ lock'[u] = lock[u]
        BY <1>7 DEF Exit, Goto, Forget
    <2>2. owner[lock[u]] = u /\ owner[lock[t]] = t /\ owner' = [owner EXCEPT ![lock[t]] = None]
        BY <1>7, <2>1 DEF Exit, Release
    <2> QED
        BY <2>1, <2>2
<1>8. ASSUME NEW t \in Threads, RemoveTake(t) PROVE Owned'
    BY <1>8, TakeOwned DEF RemoveTake, Goto
<1>9. ASSUME NEW t \in Threads, Delete(t) PROVE Owned'
    BY <1>9 DEF Delete, Goto
<1>10. ASSUME NEW t \in Threads, RemoveRelease(t) PROVE Owned'
    BY <1>10 DEF RemoveRelease, Goto, Release, Forget
<1> QED
    BY <1>1, <1>2, <1>3, <1>4, <1>5, <1>6, <1>7, <1>8, <1>9, <1>10 DEF Next, Step

\* An entry is deleted by the owner of its lock, which nobody inside is, and
\* written when there is none, so nobody is inside with that variable.
LEMMA InsideStep == LockInv /\ [Next]_vars => InsideIsCurrent'
<1> SUFFICES ASSUME LockInv, [Next]_vars PROVE InsideIsCurrent'
    OBVIOUS
<1> USE DEF Points, Holding, Asking, LockInv, TypeOK, Owned, InsideIsCurrent
<1>1. CASE UNCHANGED vars
    BY <1>1 DEF vars
<1>2. ASSUME NEW t \in Threads, NEW v \in Vars, Call(t, v) PROVE InsideIsCurrent'
    BY <1>2 DEF Call, Goto
<1>3. ASSUME NEW t \in Threads, LookUp(t) PROVE InsideIsCurrent'
    <2> SUFFICES ASSUME NEW u \in Threads, pc'[u] = "inside" PROVE table'[var'[u]] = lock'[u]
        BY DEF InsideIsCurrent
    <2>1. u # t /\ pc[u] = "inside" /\ var'[u] = var[u] /\ lock'[u] = lock[u]
        BY <1>3 DEF LookUp, Goto
    <2>2. table[var[u]] = lock[u] /\ lock[u] # None /\ var[u] \in Vars
        BY <2>1
    <2>3. PICK l \in Locks : /\ table[var[t]] # None => l = table[var[t]]
                             /\ table' = [table EXCEPT ![var[t]] = l]
        BY <1>3 DEF LookUp
    <2>4. table'[var[u]] = table[var[u]]
        BY <2>2, <2>3
    <2> QED
        BY <2>1, <2>2, <2>4
<1>4. ASSUME NEW t \in Threads, Acquire(t) PROVE InsideIsCurrent'
    BY <1>4 DEF Acquire, Goto
<1>5. ASSUME NEW t \in Threads, Check(t) PROVE InsideIsCurrent'
    BY <1>5 DEF Check, Goto
<1>6. ASSUME NEW t \in Threads, Retry(t) PROVE InsideIsCurrent'
    BY <1>6 DEF Retry, Goto
<1>7. ASSUME NEW t \in Threads, Exit(t) PROVE InsideIsCurrent'
    BY <1>7 DEF Exit, Goto, Forget
<1>8. ASSUME NEW t \in Threads, RemoveTake(t) PROVE InsideIsCurrent'
    BY <1>8 DEF RemoveTake, Goto
<1>9. ASSUME NEW t \in Threads, Delete(t) PROVE InsideIsCurrent'
    <2> SUFFICES ASSUME NEW u \in Threads, pc'[u] = "inside" PROVE table'[var'[u]] = lock'[u]
        BY DEF InsideIsCurrent
    <2>1. u # t /\ pc[u] = "inside" /\ pc[t] = "delete" /\ var'[u] = var[u] /\ lock'[u] = lock[u]
        BY <1>9 DEF Delete, Goto
    <2>2. lock[u] # lock[t] /\ table[var[u]] = lock[u] /\ var[u] \in Vars
        BY <2>1
    <2>3. table' = [table EXCEPT ![var[t]] = IF @ = lock[t] THEN None ELSE @]
        BY <1>9 DEF Delete
    <2>4. table'[var[u]] = table[var[u]]
        BY <2>2, <2>3
    <2> QED
        BY <2>1, <2>2, <2>4
<1>10. ASSUME NEW t \in Threads, RemoveRelease(t) PROVE InsideIsCurrent'
    BY <1>10 DEF RemoveRelease, Goto, Forget
<1> QED
    BY <1>1, <1>2, <1>3, <1>4, <1>5, <1>6, <1>7, <1>8, <1>9, <1>10 DEF Next, Step

\* The inductive invariant holds in every reachable state: while a thread is
\* inside, the table keeps its lock, whoever removes locks.
THEOREM LockInvariant == Spec => []LockInv
<1>1. LockInv /\ [Next]_vars => LockInv'
    BY LockTypeStep, OwnedStep, InsideStep DEF LockInv
<1> QED
    BY LockInvInit, <1>1, PTL DEF Spec

\* The table, the owners and the threads keep their types: a thread never
\* waits for a lock object that does not exist (lock.py).
THEOREM LockTypeCorrect == Spec => []TypeOK
BY LockInvariant, PTL DEF LockInv

\* While a thread is inside, whoever removes locks, the table keeps the lock
\* object it holds (lock.py, the re-check in acquire_lock and remove_lock).
THEOREM LockInsideIsCurrent == Spec => []InsideIsCurrent
BY LockInvariant, PTL DEF LockInv

\* No two threads are ever inside with the same variable, however many
\* threads look locks up and remove them (lock.py, acquire_lock, remove_lock).
THEOREM LockExcludes == Spec => []MutualExclusion
<1>1. LockInv => MutualExclusion
    <2> SUFFICES ASSUME LockInv, NEW t \in Threads, NEW u \in Threads,
                        pc[t] = "inside", pc[u] = "inside", t # u
                 PROVE  var[t] # var[u]
        BY DEF MutualExclusion
    <2>1. owner[lock[t]] = t /\ owner[lock[u]] = u
        BY DEF LockInv, Owned, Holding
    <2>2. table[var[t]] = lock[t] /\ table[var[u]] = lock[u]
        BY DEF LockInv, InsideIsCurrent
    <2> QED
        BY <2>1, <2>2
<1> QED
    BY LockInvariant, <1>1, PTL

\* KeyedMutex sees the variable of a thread that asks.
LEMMA WantedIs ==
    ASSUME TypeOK, NEW t \in Threads
    PROVE  wanted[t] = IF pc[t] \in Asking THEN var[t] ELSE None
BY DEF wanted

\* KeyedMutex sees nothing of a step that changes neither who asks nor who is
\* inside.
LEMMA Internal ==
    ASSUME TypeOK, TypeOK', var' = var,
           \A t \in Threads : /\ pc[t] \in Asking <=> pc'[t] \in Asking
                              /\ pc[t] = "inside" <=> pc'[t] = "inside"
    PROVE  UNCHANGED <<wanted, entered>>
BY DEF wanted, entered

\* What a thread wants changes when it calls and when it leaves; it enters
\* when the table confirms its lock, and then nobody is inside with the
\* variable.  The other steps are internal.
LEMMA LockSimulation ==
    LockInv /\ LockInv' /\ [Next]_vars => [Mutex!Next]_<<wanted, entered>>
<1> SUFFICES ASSUME LockInv, LockInv', [Next]_vars
             PROVE  Mutex!Next \/ UNCHANGED <<wanted, entered>>
    OBVIOUS
<1> USE VariableLockAssumption DEF LockInv, Asking
<1>1. CASE UNCHANGED vars
    BY <1>1 DEF vars, wanted, entered
<1>2. ASSUME NEW t \in Threads, NEW v \in Vars, Call(t, v) PROVE Mutex!Ask(t, v)
    <2>1. wanted[t] = None
        BY <1>2, WantedIs DEF Call
    <2>2. wanted' = [wanted EXCEPT ![t] = v]
        BY <1>2 DEF Call, Goto, TypeOK, wanted
    <2>3. entered' = entered
        BY <1>2 DEF Call, Goto, TypeOK, entered
    <2> QED
        BY <2>1, <2>2, <2>3 DEF Mutex!Ask
<1>3. ASSUME NEW t \in Threads, LookUp(t) PROVE UNCHANGED <<wanted, entered>>
    BY <1>3, Internal DEF LookUp, Goto, TypeOK
<1>4. ASSUME NEW t \in Threads, Acquire(t) PROVE UNCHANGED <<wanted, entered>>
    BY <1>4, Internal DEF Acquire, Goto, TypeOK
<1>5. ASSUME NEW t \in Threads, Check(t) PROVE Mutex!Enter(t) \/ UNCHANGED <<wanted, entered>>
    <2>1. CASE table[var[t]] = lock[t]
        <3>1. wanted[t] # None /\ t \notin entered
            BY <1>5, WantedIs DEF Check, TypeOK, entered
        <3>2. ASSUME NEW u \in entered PROVE wanted[u] # wanted[t]
            <4>1. u \in Threads /\ pc[u] = "inside" /\ pc[t] = "check"
                BY <1>5 DEF Check, entered
            <4>2. wanted[u] = var[u] /\ wanted[t] = var[t]
                BY <4>1, WantedIs
            <4>3. lock[u] # lock[t]
                BY <4>1 DEF Owned, Holding
            <4> QED
                BY <2>1, <4>1, <4>2, <4>3 DEF InsideIsCurrent
        <3>3. entered' = entered \cup {t}
            <4>1. pc' = [pc EXCEPT ![t] = "inside"]
                BY <1>5, <2>1 DEF Check, Goto
            <4>2. \A u \in Threads : pc'[u] = "inside" <=> u = t \/ pc[u] = "inside"
                BY <4>1 DEF TypeOK
            <4> QED
                BY <4>2 DEF entered
        <3>4. wanted' = wanted
            BY <1>5, <2>1 DEF Check, Goto, TypeOK, wanted
        <3> QED
            BY <3>1, <3>2, <3>3, <3>4 DEF Mutex!Enter
    <2>2. CASE table[var[t]] # lock[t]
        BY <1>5, <2>2, Internal DEF Check, Goto, TypeOK
    <2> QED
        BY <2>1, <2>2
<1>6. ASSUME NEW t \in Threads, Retry(t) PROVE UNCHANGED <<wanted, entered>>
    BY <1>6, Internal DEF Retry, Goto, TypeOK
<1>7. ASSUME NEW t \in Threads, Exit(t) PROVE Mutex!Leave(t)
    <2>1. t \in entered
        BY <1>7 DEF Exit, entered
    <2>2. entered' = entered \ {t}
        BY <1>7 DEF Exit, Forget, Goto, TypeOK, entered
    <2>3. wanted' = [wanted EXCEPT ![t] = None]
        BY <1>7 DEF Exit, Forget, Goto, TypeOK, wanted
    <2> QED
        BY <2>1, <2>2, <2>3 DEF Mutex!Leave
<1>8. ASSUME NEW t \in Threads, RemoveTake(t) PROVE UNCHANGED <<wanted, entered>>
    BY <1>8, Internal DEF RemoveTake, Goto, TypeOK
<1>9. ASSUME NEW t \in Threads, Delete(t) PROVE UNCHANGED <<wanted, entered>>
    BY <1>9, Internal DEF Delete, Goto, TypeOK
<1>10. ASSUME NEW t \in Threads, RemoveRelease(t) PROVE UNCHANGED <<wanted, entered>>
    <2>1. /\ pc[t] = "removed" /\ pc' = [pc EXCEPT ![t] = "idle"]
          /\ var' = [var EXCEPT ![t] = None]
        BY <1>10 DEF RemoveRelease, Forget, Goto
    <2>2. pc[t] \notin Asking /\ pc'[t] \notin Asking
        BY <2>1 DEF TypeOK
    <2>3. \A u \in Threads \ {t} : var'[u] = var[u] /\ pc'[u] = pc[u]
        BY <2>1 DEF TypeOK
    <2> QED
        <3>1. entered' = entered
            BY <2>2, <2>3 DEF entered
        <3>2. \A u \in Threads : (IF pc'[u] \in Asking THEN var'[u] ELSE None)
                                  = (IF pc[u] \in Asking THEN var[u] ELSE None)
            BY <2>2, <2>3
        <3>3. wanted' = wanted
            BY <3>2 DEF wanted
        <3> QED
            BY <3>1, <3>3
<1> QED
    BY <1>1, <1>2, <1>3, <1>4, <1>5, <1>6, <1>7, <1>8, <1>9, <1>10 DEF Next, Step, Mutex!Next

\* VariableLock implements one mutex for each variable: every behaviour of
\* lock.py, removals and retries included, is one of KeyedMutex.
THEOREM LockImplements == Spec => ImplementsMutex
<1>1. Init => Mutex!Init
    BY DEF Init, Mutex!Init, wanted, entered, Asking
<1> QED
    BY <1>1, LockInvariant, LockSimulation, PTL DEF Spec, ImplementsMutex, Mutex!Spec
=============================================================================
