---------------------------- MODULE ActionReports ----------------------------
(***************************************************************************)
(* What the scheduler may see of a worker (src/bbworker/runner.py): one    *)
(* action at a time, through its stages in order and none skipped, until   *)
(* it is completed.  A state may be reported many times.                   *)
(***************************************************************************)
CONSTANTS Actions, None

VARIABLE reported

State(s, a) == [stage |-> s, action |-> a]
IdleState == State("idle", None)
Unknown == State("unknown", None)

Init == reported = Unknown

\* One stage of an action follows another; inputs that cannot be fetched
\* complete it.
Follows(s) ==
    CASE s = "started"   -> {"fetching"}
      [] s = "fetching"  -> {"running", "completed"}
      [] s = "running"   -> {"uploading"}
      [] s = "uploading" -> {"completed"}
      [] OTHER           -> {}

Advance ==
    \E s \in Follows(reported.stage) : reported' = State(s, reported.action)

\* A new instruction is taken up after the last one is over, one whose command
\* or input root is missing right after it started.
TakeUp ==
    /\ reported.stage \in {"idle", "completed", "started"}
    /\ \/ reported' = IdleState
       \/ \E a \in Actions : reported' = State("started", a)

Connect == reported = Unknown /\ reported' = IdleState

Next == Connect \/ Advance \/ TakeUp

Spec == Init /\ [][Next]_reported
=============================================================================
