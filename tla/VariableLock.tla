---------------------------- MODULE VariableLock ----------------------------
(***************************************************************************)
(* VariableLock (src/bbworker/lock.py): a table of locks, one for each     *)
(* variable, made on demand.  The table is read and written under a global *)
(* lock, which no thread holds while it waits, so each of these sections   *)
(* is one step.  A thread may remove the lock of a variable: between the   *)
(* moment another thread looks a lock up and the moment it has it, the     *)
(* table may hold none for the variable, or a new one.  Then the thread    *)
(* starts over.                                                            *)
(***************************************************************************)
CONSTANTS
    Threads,    \* the threads that use the lock
    Vars,       \* the variables, hashable values
    Locks,      \* the threading.Lock objects; one nothing refers to is free
    Removers,   \* the threads that call remove_lock after they left
    None

ASSUME VariableLockAssumption ==
    /\ None \notin Threads \cup Vars \cup Locks
    /\ Removers \subseteq Threads

VARIABLES
    table,      \* _var_locks
    owner,      \* the thread that holds each lock object
    pc,         \* where each thread is
    var,        \* its argument var
    lock        \* its local variable lock, or the argument lock_to_remove

vars == <<table, owner, pc, var, lock>>

Init ==
    /\ table = [v \in Vars |-> None] /\ owner = [l \in Locks |-> None]
    /\ pc = [t \in Threads |-> "idle"]
    /\ var = [t \in Threads |-> None] /\ lock = [t \in Threads |-> None]

\* lock_factory() returns an object nobody refers to.
Fresh(l) ==
    /\ owner[l] = None /\ \A v \in Vars : table[v] # l
    /\ \A t \in Threads : lock[t] # l
New == CHOOSE l \in Locks : Fresh(l)

Goto(t, p) == pc' = [pc EXCEPT ![t] = p]
Take(t) == owner[lock[t]] = None /\ owner' = [owner EXCEPT ![lock[t]] = t]
Release(t) == owner' = [owner EXCEPT ![lock[t]] = None]
Forget(t) ==
    /\ Goto(t, "idle")
    /\ var' = [var EXCEPT ![t] = None] /\ lock' = [lock EXCEPT ![t] = None]

-----------------------------------------------------------------------------
(* acquire_lock and the context manager *)

Call(t, v) ==
    /\ pc[t] = "idle"
    /\ var' = [var EXCEPT ![t] = v] /\ Goto(t, "look up")
    /\ UNCHANGED <<table, owner, lock>>

\* A plausible bug: the local variable is set for a new lock only.
LookUp_Mutant(t) ==
    /\ pc[t] = "look up"
    /\ \E l \in Locks :
        /\ IF table[var[t]] = None THEN Fresh(l) /\ l = New ELSE l = table[var[t]]
        /\ table' = [table EXCEPT ![var[t]] = l]
        /\ lock' = [lock EXCEPT ![t] = IF table[var[t]] = None THEN l ELSE @]
    /\ Goto(t, "acquire")
    /\ UNCHANGED <<owner, var>>

\* Under the global lock: the lock of the variable, a new one if there is none.
LookUp(t) ==
    /\ pc[t] = "look up"
    /\ \E l \in Locks :
        /\ IF table[var[t]] = None THEN Fresh(l) /\ l = New ELSE l = table[var[t]]
        /\ table' = [table EXCEPT ![var[t]] = l]
        /\ lock' = [lock EXCEPT ![t] = l]
    /\ Goto(t, "acquire")
    /\ UNCHANGED <<owner, var>>

Acquire(t) ==
    /\ pc[t] = "acquire" /\ Take(t)
    /\ Goto(t, "check")
    /\ UNCHANGED <<table, var, lock>>

\* A plausible bug: any lock of the table will do.
Check_Mutant(t) ==
    /\ pc[t] = "check"
    /\ Goto(t, IF table[var[t]] # None THEN "inside" ELSE "retry")
    /\ UNCHANGED <<table, owner, var, lock>>

\* The table is read without the global lock.
Check(t) ==
    /\ pc[t] = "check"
    /\ Goto(t, IF table[var[t]] = lock[t] THEN "inside" ELSE "retry")
    /\ UNCHANGED <<table, owner, var, lock>>

\* A plausible bug: a removed lock is not released.
Retry_Mutant(t) ==
    /\ pc[t] = "retry"
    /\ Goto(t, "look up") /\ lock' = [lock EXCEPT ![t] = None]
    /\ UNCHANGED <<table, var, owner>>

\* The lock has been removed by others.
Retry(t) ==
    /\ pc[t] = "retry" /\ Release(t)
    /\ Goto(t, "look up") /\ lock' = [lock EXCEPT ![t] = None]
    /\ UNCHANGED <<table, var>>

\* The body ends, by an exception or not.  A thread that has the lock object
\* in hand may go on to remove it.
Exit(t) ==
    /\ pc[t] = "inside" /\ Release(t)
    /\ \/ Forget(t)
       \/ t \in Removers /\ Goto(t, "remove") /\ UNCHANGED <<var, lock>>
    /\ UNCHANGED table

-----------------------------------------------------------------------------
(* remove_lock *)

\* A plausible bug: the lock to remove is not acquired first.
RemoveTake_Mutant(t) ==
    /\ pc[t] = "remove"
    /\ Goto(t, "delete")
    /\ UNCHANGED <<table, owner, var, lock>>

\* "We need to acquire the lock first": nobody is inside with it.
RemoveTake(t) ==
    /\ pc[t] = "remove" /\ Take(t)
    /\ Goto(t, "delete")
    /\ UNCHANGED <<table, var, lock>>

\* A plausible bug: the entry is deleted whatever lock it holds.
Delete_Mutant(t) ==
    /\ pc[t] = "delete"
    /\ table' = [table EXCEPT ![var[t]] = None]
    /\ Goto(t, "removed")
    /\ UNCHANGED <<owner, var, lock>>

\* Under the global lock: the entry may be gone, or another lock's by now.
Delete(t) ==
    /\ pc[t] = "delete"
    /\ table' = [table EXCEPT ![var[t]] = IF @ = lock[t] THEN None ELSE @]
    /\ Goto(t, "removed")
    /\ UNCHANGED <<owner, var, lock>>

RemoveRelease(t) ==
    /\ pc[t] = "removed" /\ Release(t)
    /\ Forget(t)
    /\ UNCHANGED table

-----------------------------------------------------------------------------

Step(t) ==
    \/ LookUp(t) \/ Acquire(t) \/ Check(t) \/ Retry(t) \/ Exit(t)
    \/ RemoveTake(t) \/ Delete(t) \/ RemoveRelease(t)

Next == \E t \in Threads : Step(t) \/ \E v \in Vars : Call(t, v)

Spec == Init /\ [][Next]_vars

\* A thread that can run does, and the body of "with" ends.  threading.Lock
\* promises nothing to one of several that wait.
Fairness == \A t \in Threads : WF_vars(Step(t))
FairSpec == Spec /\ Fairness

-----------------------------------------------------------------------------
(* Properties *)

Holding == {"check", "retry", "inside", "delete", "removed"}
Asking == {"look up", "acquire", "check", "retry", "inside"}
Points == {"idle", "acquire", "remove"} \cup Asking \cup Holding

\* The types of the table, of the lock objects and of the local variables.
TypeOK ==
    /\ table \in [Vars -> Locks \cup {None}]
    /\ owner \in [Locks -> Threads \cup {None}]
    /\ pc \in [Threads -> Points]
    /\ var \in [Threads -> Vars \cup {None}]
    /\ lock \in [Threads -> Locks \cup {None}]
    /\ \A t \in Threads : /\ pc[t] # "idle" => var[t] # None
                          /\ pc[t] \notin {"idle", "look up"} => lock[t] # None

\* A thread holds the lock object it acquired until it releases it.
Owned == \A t \in Threads : pc[t] \in Holding => owner[lock[t]] = t

\* While a thread is inside, the table keeps the lock it came in with: those
\* that come later wait for it, whoever wants to remove it.
InsideIsCurrent == \A t \in Threads : pc[t] = "inside" => table[var[t]] = lock[t]

\* Two threads are never inside with the same variable.
MutualExclusion ==
    \A t, u \in Threads : pc[t] = "inside" /\ pc[u] = "inside" /\ t # u => var[t] # var[u]

\* What KeyedMutex sees: a thread wants a variable from the call of
\* acquire_lock until it leaves.
wanted == [t \in Threads |-> IF pc[t] \in Asking THEN var[t] ELSE None]
entered == {t \in Threads : pc[t] = "inside"}
Mutex == INSTANCE KeyedMutex WITH want <- wanted, inside <- entered

\* VariableLock is one mutex for each variable: what the table does between
\* the call and the entry, and the removals, are internal.
ImplementsMutex == Mutex!Spec

\* When a thread waits, some thread gets inside: the retries and removals of
\* the others do not keep everybody out.
SomebodyEnters ==
    (\E t \in Threads : pc[t] = "acquire") ~> (\E t \in Threads : pc[t] = "inside")
=============================================================================
