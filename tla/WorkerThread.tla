---------------------------- MODULE WorkerThread ----------------------------
(***************************************************************************)
(* One worker: WorkerThreadMain (thread.py), which synchronizes with the   *)
(* scheduler, its RunnerThread (runner.py), which executes actions, and    *)
(* the signal handler that shuts them down (graceful_shutdown).  The two   *)
(* threads talk through two queues only; the handler runs in a third and   *)
(* shares the events and _sync_future with them.  The scheduler is         *)
(* external: it may answer a call with any instruction, or hold it.        *)
(***************************************************************************)
EXTENDS Naturals, Sequences

CONSTANTS
    Actions,            \* the actions the scheduler hands out
    Idle, None,         \* the instruction to be idle; no instruction
    MaxInstructions,    \* bound: the instructions the scheduler gives
    MaxSignals,         \* bound: the signals the process receives
    Faults              \* of {"rpc", "runner"}: what may raise

ASSUME WorkerAssumption ==
    /\ Idle # None /\ {Idle, None} \cap Actions = {}
    /\ MaxInstructions \in Nat /\ MaxSignals \in Nat

VARIABLES
    current,    \* _current_state_queue
    desired,    \* _desired_state_queue
    worker,     \* where WorkerThreadMain.run is
    report,     \* its local variable current_state
    future,     \* _sync_future is not None
    call,       \* the call it stands for: "none", "open", or how it ended
    answer,     \* the desired_state of the response
    runner,     \* where RunnerThread.run is
    task,       \* its local variable desired_state
    notified,   \* _shutdown_notified
    stop,       \* _stop_event
    handler,    \* where graceful_shutdown is
    given, signals,     \* the instructions and the signals so far
    late                \* history: the instructions taken up after stop

workerVars == <<worker, report, future, answer>>
runnerVars == <<runner, task, late>>
handlerVars == <<notified, stop, handler, signals>>
vars == <<current, desired, workerVars, call, given, runnerVars, handlerVars>>

Over == {"ended", "failed"}
State(s, a) == [stage |-> s, action |-> a]
IdleState == State("idle", None)
Unknown == State("unknown", None)

Init ==
    /\ current = <<>> /\ desired = <<>>
    /\ worker = "first" /\ report = Unknown
    /\ future = FALSE /\ call = "none" /\ answer = None
    /\ runner = "start" /\ task = None /\ late = 0
    /\ notified = FALSE /\ stop = FALSE /\ handler = "none"
    /\ given = 0 /\ signals = 0

-----------------------------------------------------------------------------
(* WorkerThreadMain.run *)

\* The first state, which the runner always sets, is waited for.
First ==
    /\ worker = "first" /\ current # <<>>
    /\ report' = Head(current) /\ current' = Tail(current)
    /\ worker' = "loop"
    /\ UNCHANGED <<desired, future, answer, call, given, runnerVars, handlerVars>>

Loop ==
    /\ worker = "loop"
    /\ worker' = IF notified THEN "join" ELSE "call"
    /\ UNCHANGED <<current, desired, report, future, answer, call, given, runnerVars, handlerVars>>

\* A call on a channel that main closed raises.
Synchronize ==
    /\ worker = "call"
    /\ IF handler = "raised"
         THEN worker' = "failed" /\ UNCHANGED <<future, call>>
         ELSE worker' = "result" /\ future' = TRUE /\ call' = "open"
    /\ UNCHANGED <<current, desired, report, answer, given, runnerVars, handlerVars>>

\* result(): only FutureCancelledError is caught.
Result ==
    /\ worker = "result" /\ call # "open"
    /\ \/ /\ call = "answered" /\ worker' = "put" /\ future' = FALSE
       \/ /\ call = "cancelled" /\ worker' = "loop" /\ future' = FALSE
       \/ /\ call = "failed" /\ worker' = "failed" /\ UNCHANGED future
    /\ call' = "none"
    /\ UNCHANGED <<current, desired, report, answer, given, runnerVars, handlerVars>>

Put ==
    /\ worker = "put"
    /\ desired' = IF answer = None THEN desired ELSE Append(desired, answer)
    /\ worker' = "wait" /\ answer' = None
    /\ UNCHANGED <<current, report, future, call, given, runnerVars, handlerVars>>

\* A plausible bug: only the newest state is reported, as the runner only
\* handles the newest instruction.
NextState_Mutant ==
    /\ worker = "wait" /\ current # <<>>
    /\ report' = current[Len(current)] /\ current' = <<>>
    /\ worker' = "loop"
    /\ UNCHANGED <<desired, future, answer, call, given, runnerVars, handlerVars>>

NextState ==
    /\ worker = "wait" /\ current # <<>>
    /\ report' = Head(current) /\ current' = Tail(current)
    /\ worker' = "loop"
    /\ UNCHANGED <<desired, future, answer, call, given, runnerVars, handlerVars>>

\* A plausible bug: a state that was reported is not reported again.
Timeout_Mutant ==
    /\ worker = "wait" /\ current = <<>>
    /\ worker' = "alive?" /\ report' = None
    /\ UNCHANGED <<current, desired, future, answer, call, given, runnerVars, handlerVars>>

\* The time to synchronize has come, maybe at once: queue.Empty.
Timeout ==
    /\ worker = "wait" /\ current = <<>>
    /\ worker' = "alive?"
    /\ UNCHANGED <<current, desired, report, future, answer, call, given, runnerVars, handlerVars>>

\* A plausible bug: the worker goes on without looking at the runner.
IsAlive_Mutant ==
    /\ worker = "alive?"
    /\ worker' = "loop"
    /\ UNCHANGED <<current, desired, report, future, answer, call, given, runnerVars, handlerVars>>

\* The runner may have gone on since the queue was empty.
IsAlive ==
    /\ worker = "alive?"
    /\ worker' = IF runner \in Over THEN "ended" ELSE "loop"
    /\ UNCHANGED <<current, desired, report, future, answer, call, given, runnerVars, handlerVars>>

Join ==
    /\ worker = "join" /\ runner \in Over
    /\ worker' = "ended"
    /\ UNCHANGED <<current, desired, report, future, answer, call, given, runnerVars, handlerVars>>

WorkerStep ==
    \/ First \/ Loop \/ Synchronize \/ Result \/ Put \/ NextState \/ Timeout
    \/ IsAlive \/ Join

-----------------------------------------------------------------------------
(* The scheduler (external) *)

Answer ==
    /\ call = "open" /\ call' = "answered"
    /\ \E d \in Actions \cup {Idle, None} :
        /\ d # None => given < MaxInstructions
        /\ answer' = d /\ given' = IF d = None THEN given ELSE given + 1
    /\ UNCHANGED <<current, desired, worker, report, future, runnerVars, handlerVars>>

CallFails ==
    /\ "rpc" \in Faults /\ call = "open" /\ call' = "failed"
    /\ UNCHANGED <<current, desired, workerVars, given, runnerVars, handlerVars>>

-----------------------------------------------------------------------------
(* RunnerThread.run *)

Set(s) == current' = Append(current, s)
At(p, q) == runner = p /\ runner' = q

\* A step outside the worker's process raises; all do when main closed the
\* channels, after a handler that raised or a worker that is over.
Raises == "runner" \in Faults \/ handler = "raised" \/ worker \in Over

Start ==
    /\ At("start", "check") /\ Set(IdleState)
    /\ UNCHANGED <<desired, task, late, workerVars, call, given, handlerVars>>

\* A plausible bug: the loop ends when no instruction is left.
CheckStop_Mutant ==
    /\ runner = "check"
    /\ runner' = IF stop /\ desired = <<>> THEN "ended" ELSE "get"
    /\ UNCHANGED <<current, desired, task, late, workerVars, call, given, handlerVars>>

CheckStop ==
    /\ runner = "check"
    /\ runner' = IF stop THEN "ended" ELSE "get"
    /\ UNCHANGED <<current, desired, task, late, workerVars, call, given, handlerVars>>

Get ==
    /\ At("get", "drain") /\ desired # <<>>
    /\ task' = Head(desired) /\ desired' = Tail(desired)
    /\ UNCHANGED <<current, late, workerVars, call, given, handlerVars>>

\* "we only handle the newest desired state": get_nowait until it raises Empty.
Drain ==
    /\ runner = "drain"
    /\ IF desired # <<>>
         THEN task' = Head(desired) /\ desired' = Tail(desired) /\ UNCHANGED runner
         ELSE runner' = "act" /\ UNCHANGED <<task, desired>>
    /\ UNCHANGED <<current, late, workerVars, call, given, handlerVars>>

Act ==
    /\ runner = "act"
    /\ IF task = Idle THEN Set(IdleState) /\ runner' = "check"
                      ELSE Set(State("started", task)) /\ runner' = "detail"
    /\ late' = IF stop THEN late + 1 ELSE late
    /\ UNCHANGED <<desired, task, workerVars, call, given, handlerVars>>

\* get_action_detail; without command or input root nothing more is said.
Detail ==
    /\ \/ At("detail", "build") /\ Set(State("fetching", task))
       \/ At("detail", "check") /\ UNCHANGED current
    /\ UNCHANGED <<desired, task, late, workerVars, call, given, handlerVars>>

\* build: a BatchReadBlobsError completes the action.
Build ==
    /\ \/ At("build", "run") /\ Set(State("running", task))
       \/ At("build", "check") /\ Set(State("completed", task))
    /\ UNCHANGED <<desired, task, late, workerVars, call, given, handlerVars>>

\* subprocess.run, and update_all: the outputs are uploaded by then.
Run ==
    /\ At("run", "finish") /\ Set(State("uploading", task))
    /\ UNCHANGED <<desired, task, late, workerVars, call, given, handlerVars>>

\* The result is put in the action cache when the exit code is 0.
Finish ==
    /\ \E p \in {"cache", "check"} : At("finish", p)
    /\ Set(State("completed", task))
    /\ UNCHANGED <<desired, task, late, workerVars, call, given, handlerVars>>

UpdateActionResult ==
    /\ At("cache", "check")
    /\ UNCHANGED <<current, desired, task, late, workerVars, call, given, handlerVars>>

\* No exception but BatchReadBlobsError is caught: a failed call, an output
\* that is not generated, an output directory, a command that does not exist.
Raise ==
    /\ Raises /\ runner \in {"detail", "build", "run", "cache"}
    /\ runner' = "failed"
    /\ UNCHANGED <<current, desired, task, late, workerVars, call, given, handlerVars>>

RunnerStep ==
    \/ Start \/ CheckStop \/ Get \/ Drain \/ Act \/ Detail \/ Build \/ Run
    \/ Finish \/ UpdateActionResult

-----------------------------------------------------------------------------
(* graceful_shutdown, in the main thread *)

Signal ==
    /\ handler = "none" /\ signals < MaxSignals
    /\ notified' = TRUE /\ handler' = "stop" /\ signals' = signals + 1
    /\ UNCHANGED <<stop, current, desired, workerVars, call, given, runnerVars>>

\* notify_stop
SetStop ==
    /\ handler = "stop" /\ stop' = TRUE /\ handler' = "idle"
    /\ UNCHANGED <<notified, signals, current, desired, workerVars, call, given, runnerVars>>

\* A plausible bug: the runner is not woken up.
PutIdle_Mutant ==
    /\ handler = "idle" /\ handler' = "test"
    /\ UNCHANGED <<notified, stop, signals, desired, current, workerVars, call, given, runnerVars>>

PutIdle ==
    /\ handler = "idle" /\ handler' = "test" /\ desired' = Append(desired, Idle)
    /\ UNCHANGED <<notified, stop, signals, current, workerVars, call, given, runnerVars>>

TestFuture ==
    /\ handler = "test" /\ handler' = IF future THEN "cancel" ELSE "none"
    /\ UNCHANGED <<notified, stop, signals, current, desired, workerVars, call, given, runnerVars>>

\* _sync_future is read again: if it is None by now, AttributeError leaves the
\* handler and main, and the channels are closed.  A call that is over is not
\* cancelled any more.
Cancel ==
    /\ handler = "cancel" /\ handler' = IF future THEN "none" ELSE "raised"
    /\ call' = IF call = "open" THEN "cancelled" ELSE call
    /\ UNCHANGED <<notified, stop, signals, current, desired, workerVars, given, runnerVars>>

HandlerStep == SetStop \/ PutIdle \/ TestFuture \/ Cancel

-----------------------------------------------------------------------------

Next ==
    \/ WorkerStep \/ Answer \/ CallFails \/ RunnerStep \/ Raise
    \/ Signal \/ HandlerStep

Spec == Init /\ [][Next]_vars

\* Threads that can run do, the scheduler answers a call in the end, and
\* commands terminate.  Nothing needs to fail, nor a signal to come.
Fairness ==
    /\ WF_vars(WorkerStep) /\ WF_vars(RunnerStep) /\ WF_vars(HandlerStep)
    /\ WF_vars(Answer)
FairSpec == Spec /\ Fairness

-----------------------------------------------------------------------------
(* Properties *)

Stages == {"started", "fetching", "running", "uploading", "completed"}
States == {IdleState} \cup [stage : Stages, action : Actions]
Instructions == Actions \cup {Idle}

\* The queues hold states and instructions, and the threads are at a point of
\* their code.
TypeOK ==
    /\ current \in Seq(States) /\ desired \in Seq(Instructions)
    /\ worker \in {"first", "loop", "call", "result", "put", "wait", "alive?", "join"} \cup Over
    /\ report \in States \cup {Unknown}
    /\ future \in BOOLEAN /\ answer \in Instructions \cup {None}
    /\ call \in {"none", "open", "answered", "cancelled", "failed"}
    /\ runner \in {"start", "check", "get", "drain", "act", "detail", "build", "run",
                   "finish", "cache"} \cup Over
    /\ task \in CASE runner \in {"drain", "act"} -> Instructions
                 [] runner \in {"detail", "build", "run", "finish", "cache"} -> Actions
                 [] OTHER -> Instructions \cup {None}
    /\ late \in Nat
    /\ notified \in BOOLEAN /\ stop \in BOOLEAN
    /\ handler \in {"none", "stop", "idle", "test", "cancel", "raised"}
    /\ given \in 0..MaxInstructions /\ signals \in 0..MaxSignals

\* After notify_stop the runner takes up at most the one instruction it was
\* waiting for, however many the worker thread still puts in the queue.
StopsSoon == late <= 1

\* The scheduler sees every stage of every action, in order, whatever the
\* timeouts, the cancelled calls and the instructions that overtake others.
Reports == INSTANCE ActionReports WITH reported <- report
ReportsInOrder == Reports!Spec

\* The outcome of a completed action is reported, unless the worker is shut
\* down, the call that should report it fails, or the runner dies.
Reported(a) == worker = "put" /\ report = State("completed", a)
Completed(a) == \E i \in 1..Len(current) : current[i] = State("completed", a)
OutcomeOrExcuse ==
    \A a \in Actions :
        Completed(a) ~> (Reported(a) \/ notified \/ worker = "failed" \/ runner = "failed")

\* What the protocol says of a worker: "Upon completion of a build action, the
\* worker reports the outcome of the build action".
OutcomeReported == \A a \in Actions : Completed(a) ~> Reported(a)

\* A worker does not go on without its runner.
DeadRunnerNoticed == (runner \in Over) ~> (worker \in Over)

\* After a signal both threads end, wherever it found them.
ShutdownEnds == notified ~> (worker \in Over /\ runner \in Over)
=============================================================================
