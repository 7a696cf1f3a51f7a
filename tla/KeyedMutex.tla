----------------------------- MODULE KeyedMutex -----------------------------
(***************************************************************************)
(* What VariableLock promises (src/bbworker/lock.py): one mutex for each   *)
(* variable.  A thread asks for a variable, enters when nobody else is     *)
(* inside with the same one, and leaves.                                   *)
(***************************************************************************)
CONSTANTS Threads, Vars, None

VARIABLES
    want,       \* the variable each thread asks for or is inside with
    inside      \* the threads in the body of "with lock.lock(var)"

Init == want = [t \in Threads |-> None] /\ inside = {}

Ask(t, v) ==
    /\ want[t] = None
    /\ want' = [want EXCEPT ![t] = v] /\ UNCHANGED inside

Enter(t) ==
    /\ want[t] # None /\ t \notin inside
    /\ \A u \in inside : want[u] # want[t]
    /\ inside' = inside \cup {t} /\ UNCHANGED want

Leave(t) ==
    /\ t \in inside
    /\ inside' = inside \ {t} /\ want' = [want EXCEPT ![t] = None]

Next == \E t \in Threads : Enter(t) \/ Leave(t) \/ \E v \in Vars : Ask(t, v)

Spec == Init /\ [][Next]_<<want, inside>>
=============================================================================
