------------------------------ MODULE FileStore ------------------------------
(***************************************************************************)
(* What the file cache promises (src/bbworker/filesystem.py): a store of   *)
(* contents that is never fuller than its limit.  A content that is asked  *)
(* for is fetched once, for all that wait for it; others leave only to     *)
(* make room.  A caller that returns was given each file it asked for.     *)
(***************************************************************************)
EXTENDS Integers, Sequences, CacheSizes

CONSTANTS Fetchers, Digests, DigestOf, Size, MaxSize, Requests

VARIABLES
    held,       \* the contents in the store
    coming,     \* the contents that are being fetched: their room is reserved
    call,       \* what each caller asked for, and what it was given
    up          \* the store is open: it may have stopped, with what it holds

vars == <<held, coming, call, up>>

Fits(S) == MaxSize > 0 => SizeOf(Size, S) <= MaxSize

\* A call that has not begun, or has ended.
Ended(state) == [state |-> state, request |-> <<>>, given |-> {}]
Open(t) == call[t].state = "open"
Asked(t) == {call[t].request[i] : i \in DOMAIN call[t].request}
Wanted(t) == {DigestOf[n] : n \in Asked(t)}

Init ==
    /\ held = {} /\ coming = {}
    /\ call = [t \in Fetchers |-> Ended("none")]
    /\ up = TRUE

Ask(t, files) ==
    /\ up /\ ~Open(t)
    /\ call' = [call EXCEPT ![t] = [state |-> "open", request |-> files, given |-> {}]]
    /\ UNCHANGED <<held, coming, up>>

\* What a caller wants and nobody fetches yet is fetched.  Contents leave
\* only to make room: with one of them less there would be too little.
Reserve(t, new, evicted) ==
    /\ Open(t) /\ new \subseteq Wanted(t) \ (held \cup coming)
    /\ evicted \subseteq held
    /\ evicted # {} => \E d \in evicted : ~Fits((held \ (evicted \ {d})) \cup coming \cup new)
    /\ Fits((held \ evicted) \cup coming \cup new)
    /\ held' = held \ evicted /\ coming' = coming \cup new
    /\ UNCHANGED <<call, up>>

Arrive(d) ==
    /\ d \in coming
    /\ held' = held \cup {d} /\ coming' = coming \ {d}
    /\ UNCHANGED <<call, up>>

\* What was fetched does not come, or is found damaged later.
Miss(d) ==
    /\ d \in coming
    /\ coming' = coming \ {d} /\ UNCHANGED <<held, call, up>>
Lose(d) ==
    /\ d \in held
    /\ held' = held \ {d} /\ UNCHANGED <<coming, call, up>>

Give(t, n) ==
    /\ Open(t) /\ n \in Asked(t)
    /\ call' = [call EXCEPT ![t].given = @ \cup {n}]
    /\ UNCHANGED <<held, coming, up>>

Return(t) ==
    /\ Open(t) /\ Asked(t) \subseteq call[t].given
    /\ call' = [call EXCEPT ![t] = Ended("ok")]
    /\ UNCHANGED <<held, coming, up>>

GiveUp(t) ==
    /\ Open(t)
    /\ call' = [call EXCEPT ![t] = Ended("failed")]
    /\ UNCHANGED <<held, coming, up>>

\* The store stops, and its calls with it.  It finds again what fits before
\* it opens.
Stop ==
    /\ held' = {} /\ coming' = {} /\ up' = FALSE
    /\ call' = [t \in Fetchers |-> Ended("none")]
Find(found) ==
    /\ ~up /\ Fits(held \cup found)
    /\ held' = held \cup found /\ up' \in BOOLEAN
    /\ UNCHANGED <<coming, call>>

Next ==
    \/ \E t \in Fetchers :
        \/ Return(t) \/ GiveUp(t)
        \/ \E files \in Requests : Ask(t, files)
        \/ \E new, evicted \in SUBSET Digests : Reserve(t, new, evicted)
        \/ \E n \in Asked(t) : Give(t, n)
    \/ \E d \in Digests : Arrive(d) \/ Miss(d) \/ Lose(d)
    \/ Stop \/ \E found \in SUBSET Digests : Find(found)

Spec == Init /\ [][Next]_vars
=============================================================================
