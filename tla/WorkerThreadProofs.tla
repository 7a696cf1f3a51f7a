------------------------- MODULE WorkerThreadProofs -------------------------
(***************************************************************************)
(* For any set of actions, and any number of instructions and signals: the *)
(* queues and variables of a worker keep their types, its runner stops     *)
(* after the instruction it was waiting for, and the scheduler sees every  *)
(* stage of every action in order.                                         *)
(***************************************************************************)
EXTENDS WorkerThread, TLAPS

\* A queue that is not empty has a first element, and a queue without it.
LEMMA QueueTake ==
    ASSUME NEW S, NEW q \in Seq(S), q # <<>>
    PROVE  Head(q) \in S /\ Tail(q) \in Seq(S)
OBVIOUS

\* A state appended to the queue of states.
LEMMA SetType ==
    ASSUME current \in Seq(States), NEW s \in States, Set(s)
    PROVE  current' \in Seq(States)
BY DEF Set

\* The states the runner makes are states.
LEMMA StateType ==
    /\ IdleState \in States
    /\ \A s \in Stages, x \in Actions : State(s, x) \in States
BY DEF IdleState, State, States

\* Every step of the threads, of the scheduler and of the handler keeps the
\* types.
LEMMA WorkerTypeStep == TypeOK /\ [Next]_vars => TypeOK'
<1> SUFFICES ASSUME TypeOK, [Next]_vars PROVE TypeOK'
    OBVIOUS
<1> USE WorkerAssumption DEF TypeOK, Over, Instructions, workerVars, runnerVars, handlerVars
<1>1. CASE UNCHANGED vars
    BY <1>1 DEF vars
<1>2. CASE First
    BY <1>2, QueueTake DEF First
<1>3. CASE Loop
    BY <1>3 DEF Loop
<1>4. CASE Synchronize
    <2>1. CASE handler = "raised"
        BY <1>4, <2>1 DEF Synchronize
    <2>2. CASE handler # "raised"
        BY <1>4, <2>2 DEF Synchronize
    <2> QED
        BY <2>1, <2>2
<1>5. CASE Result
    <2>1. /\ worker' \in {"put", "loop", "failed"} /\ future' \in BOOLEAN /\ call' = "none"
          /\ UNCHANGED <<current, desired, report, answer, given, runnerVars, handlerVars>>
        BY <1>5 DEF Result
    <2> QED
        BY <2>1
<1>6. CASE Put
    BY <1>6 DEF Put
<1>7. CASE NextState
    BY <1>7, QueueTake DEF NextState
<1>8. CASE Timeout
    BY <1>8 DEF Timeout
<1>9. CASE IsAlive
    BY <1>9 DEF IsAlive
<1>10. CASE Join
    BY <1>10 DEF Join
<1>11. CASE Start
    BY <1>11, SetType, StateType DEF Start, At, Stages
<1>12. CASE CheckStop
    BY <1>12 DEF CheckStop
<1>13. CASE Get
    BY <1>13, QueueTake DEF Get, At, Stages
<1>14. CASE Drain
    <2>1. CASE desired # <<>>
        <3>1. task' = Head(desired) /\ desired' = Tail(desired) /\ UNCHANGED runner
            BY <1>14, <2>1 DEF Drain
        <3>2. task' \in Instructions /\ desired' \in Seq(Instructions)
            BY <2>1, <3>1, QueueTake
        <3> QED
            BY <1>14, <3>1, <3>2 DEF Drain
    <2>2. CASE desired = <<>>
        BY <1>14, <2>2 DEF Drain
    <2> QED
        BY <2>1, <2>2
<1>15. CASE Act
    BY <1>15, SetType, StateType DEF Act, At, Stages
<1>16. CASE Detail
    BY <1>16, SetType, StateType DEF Detail, At, Stages
<1>17. CASE Build
    BY <1>17, SetType, StateType DEF Build, At, Stages
<1>18. CASE Run
    BY <1>18, SetType, StateType DEF Run, At, Stages
<1>19. CASE Finish
    BY <1>19, SetType, StateType DEF Finish, At, Stages
<1>20. CASE UpdateActionResult
    BY <1>20 DEF UpdateActionResult, At, Stages
<1>21. CASE SetStop
    BY <1>21 DEF SetStop
<1>22. CASE PutIdle
    BY <1>22 DEF PutIdle
<1>23. CASE TestFuture
    BY <1>23 DEF TestFuture
<1>24. CASE Cancel
    BY <1>24 DEF Cancel
<1>25. CASE Answer
    BY <1>25 DEF Answer
<1>26. CASE CallFails
    BY <1>26 DEF CallFails
<1>27. CASE Raise
    BY <1>27 DEF Raise
<1>28. CASE Signal
    BY <1>28 DEF Signal
<1> QED
    BY <1>1, <1>2, <1>3, <1>4, <1>5, <1>6, <1>7, <1>8, <1>9, <1>10, <1>11, <1>12, <1>13, <1>14, <1>15, <1>16, <1>17, <1>18, <1>19, <1>20, <1>21, <1>22, <1>23, <1>24, <1>25, <1>26, <1>27, <1>28
       DEF Next, WorkerStep, RunnerStep, HandlerStep

\* The queues hold states and instructions and the threads are at a point of
\* their code, whatever the scheduler answers and whenever signals come.
THEOREM WorkerTypeCorrect == Spec => []TypeOK
<1>1. Init => TypeOK
    <2> SUFFICES ASSUME Init PROVE TypeOK
        OBVIOUS
    <2>1. current \in Seq(States) /\ desired \in Seq(Instructions)
        BY DEF Init
    <2>2. given \in 0..MaxInstructions /\ signals \in 0..MaxSignals
        BY WorkerAssumption DEF Init
    <2>3. report \in States \cup {Unknown}
        BY DEF Init
    <2> QED
        BY <2>1, <2>2, <2>3 DEF Init, TypeOK, Over
<1> QED
    BY <1>1, WorkerTypeStep, PTL DEF Spec

\* An instruction is late when it is taken up after stop.  A runner that took
\* one up finds stop set at the top of its loop and waits for no other.
Stopping ==
    /\ late \in {0, 1} /\ (late = 1 => stop)
    /\ runner \in {"get", "drain", "act"} => late = 0

\* Only Act counts, and only CheckStop leads back to it.
LEMMA StoppingStep == Stopping /\ [Next]_vars => Stopping'
<1> SUFFICES ASSUME Stopping, [Next]_vars PROVE Stopping'
    OBVIOUS
<1> USE DEF Stopping, workerVars, runnerVars, handlerVars, At
<1>1. CASE UNCHANGED vars
    BY <1>1 DEF vars
<1>2. CASE WorkerStep \/ Answer \/ CallFails
    BY <1>2 DEF WorkerStep, First, Loop, Synchronize, Result, Put, NextState, Timeout, IsAlive, Join, Answer, CallFails
<1>3. CASE Start
    BY <1>3 DEF Start
<1>4. CASE CheckStop
    BY <1>4 DEF CheckStop
<1>5. CASE Get
    BY <1>5 DEF Get
<1>6. CASE Drain
    BY <1>6 DEF Drain
<1>7. CASE Act
    BY <1>7 DEF Act
<1>8. CASE Detail
    BY <1>8 DEF Detail
<1>9. CASE Build
    BY <1>9 DEF Build
<1>10. CASE Run
    BY <1>10 DEF Run
<1>11. CASE Finish
    BY <1>11 DEF Finish
<1>12. CASE UpdateActionResult
    BY <1>12 DEF UpdateActionResult
<1>13. CASE Raise
    BY <1>13 DEF Raise
<1>14. CASE HandlerStep \/ Signal
    BY <1>14 DEF HandlerStep, SetStop, PutIdle, TestFuture, Cancel, Signal
<1> QED
    BY <1>1, <1>2, <1>3, <1>4, <1>5, <1>6, <1>7, <1>8, <1>9, <1>10, <1>11, <1>12, <1>13, <1>14 DEF Next, RunnerStep

\* After notify_stop the runner takes up at most one more instruction, however
\* many the scheduler gives (runner.py, RunnerThread.run, notify_stop).
THEOREM WorkerStopsSoon == Spec => []StopsSoon
<1>1. Init => Stopping
    BY DEF Init, Stopping
<1>2. Stopping => StopsSoon
    BY DEF Stopping, StopsSoon
<1> QED
    BY <1>1, <1>2, StoppingStep, PTL DEF Spec

-----------------------------------------------------------------------------
(* The order of the reports.  The states in the queue, after the one that is *)
(* reported, are a chain in which each may follow the one before; the newest *)
(* one fits what the runner is about to do.                                  *)

Leads(s, t) ==
    \/ s = Unknown /\ t = IdleState
    \/ \E p \in Reports!Follows(s.stage) : t = State(p, s.action)
    \/ /\ s.stage \in {"idle", "completed", "started"}
       /\ t = IdleState \/ \E x \in Actions : t = State("started", x)

Before(r, q, i) == IF i = 1 THEN r ELSE q[i - 1]
Chained(r, q) == \A i \in 1..Len(q) : Leads(Before(r, q, i), q[i])
Newest(r, q) == IF q = <<>> THEN r ELSE q[Len(q)]

Fits(s) ==
    /\ runner = "start" => s = Unknown
    /\ runner \in {"check", "get", "drain", "act"} => s.stage \in {"idle", "completed", "started"}
    /\ runner = "detail" => s = State("started", task)
    /\ runner = "build" => s = State("fetching", task)
    /\ runner = "run" => s = State("running", task)
    /\ runner = "finish" => s = State("uploading", task)
    /\ runner = "cache" => s = State("completed", task)

InOrder == Chained(report, current) /\ Fits(Newest(report, current))

\* A state that may follow the newest one keeps the queue a chain.
LEMMA ChainAppend ==
    ASSUME NEW S, NEW q \in Seq(S), NEW r, NEW s, Chained(r, q), Leads(Newest(r, q), s)
    PROVE  Chained(r, Append(q, s)) /\ Newest(r, Append(q, s)) = s
<1> DEFINE n == Len(q) + 1
<1>1. /\ Len(q) \in Nat /\ Len(Append(q, s)) = n /\ Append(q, s)[n] = s
      /\ \A i \in 1..Len(q) : Append(q, s)[i] = q[i]
    OBVIOUS
<1>2. Newest(r, Append(q, s)) = s
    BY <1>1 DEF Newest
<1>3. Before(r, Append(q, s), n) = Newest(r, q)
    BY <1>1 DEF Before, Newest
<1>4. \A i \in 1..Len(q) : Before(r, Append(q, s), i) = Before(r, q, i)
    BY <1>1 DEF Before
<1>5. ASSUME NEW i \in 1..n PROVE Leads(Before(r, Append(q, s), i), Append(q, s)[i])
    <2>1. CASE i = n
        BY <1>1, <1>3, <2>1
    <2>2. CASE i \in 1..Len(q)
        BY <1>1, <1>4, <2>2 DEF Chained
    <2> QED
        BY <1>1, <2>1, <2>2
<1> QED
    BY <1>1, <1>2, <1>5 DEF Chained

\* The first state of the queue may be reported next; the rest is a chain
\* after it.
LEMMA ChainTake ==
    ASSUME NEW S, NEW q \in Seq(S), q # <<>>, NEW r, Chained(r, q)
    PROVE  /\ Leads(r, Head(q)) /\ Chained(Head(q), Tail(q))
           /\ Newest(Head(q), Tail(q)) = Newest(r, q)
<1>1. /\ Len(q) \in Nat \ {0} /\ Head(q) = q[1] /\ Len(Tail(q)) = Len(q) - 1
      /\ \A i \in 1..Len(q) - 1 : Tail(q)[i] = q[i + 1]
    OBVIOUS
<1>2. Leads(r, Head(q))
    <2>1. Before(r, q, 1) = r /\ 1 \in 1..Len(q)
        BY <1>1 DEF Before
    <2> QED
        BY <1>1, <2>1 DEF Chained
<1>3. ASSUME NEW i \in 1..Len(Tail(q))
      PROVE  Leads(Before(Head(q), Tail(q), i), Tail(q)[i])
    <2>1. i + 1 \in 1..Len(q) /\ Tail(q)[i] = q[i + 1]
        BY <1>1
    <2>2. Before(Head(q), Tail(q), i) = Before(r, q, i + 1)
        BY <1>1 DEF Before
    <2> QED
        BY <2>1, <2>2 DEF Chained
<1>4. Newest(Head(q), Tail(q)) = Newest(r, q)
    BY <1>1 DEF Newest
<1> QED
    BY <1>2, <1>3, <1>4 DEF Chained

\* The runner puts a state that fits in the queue.
LEMMA InOrderSet ==
    ASSUME TypeOK, InOrder, NEW s, Set(s), Leads(Newest(report, current), s),
           report' = report, Fits(s)'
    PROVE  InOrder'
BY ChainAppend DEF Set, InOrder, TypeOK

\* The worker thread takes the first state of the queue to report it.
LEMMA InOrderTake ==
    ASSUME TypeOK, InOrder, current # <<>>,
           report' = Head(current), current' = Tail(current), UNCHANGED runnerVars
    PROVE  InOrder' /\ Leads(report, report')
BY ChainTake DEF InOrder, TypeOK, Fits, runnerVars

\* Every step keeps the queue in order.
LEMMA InOrderStep == TypeOK /\ InOrder /\ [Next]_vars => InOrder'
<1> SUFFICES ASSUME TypeOK, InOrder, [Next]_vars PROVE InOrder'
    OBVIOUS
<1> DEFINE Last == Newest(report, current)
<1>0. Fits(Last)
    BY DEF InOrder
<1>1. CASE UNCHANGED <<report, current, runnerVars>>
    BY <1>1 DEF InOrder, Fits, runnerVars
<1>2. CASE First \/ NextState
    BY <1>2, InOrderTake DEF First, NextState
<1>3. CASE Start
    <2>1. Leads(Last, IdleState) /\ Fits(IdleState)'
        BY <1>0, <1>3 DEF Start, At, Leads, Fits, IdleState, State
    <2> QED
        BY <1>3, <2>1, InOrderSet DEF Start, workerVars
<1>4. CASE UNCHANGED <<report, current>> /\ Fits(Last)'
    BY <1>4 DEF InOrder
<1>5. CASE CheckStop \/ Get \/ Drain \/ UpdateActionResult \/ Raise
    <2>1. UNCHANGED <<report, current>>
        BY <1>5 DEF CheckStop, Get, Drain, UpdateActionResult, Raise, workerVars
    <2>2. Last' = Last
        BY <2>1
    <2>3. Fits(Last)'
        BY <1>0, <1>5, <2>2
           DEF CheckStop, Get, Drain, UpdateActionResult, Raise, At, Fits, State
    <2> QED
        BY <1>4, <2>1, <2>3
<1>6. CASE Act
    <2>1. CASE task = Idle
        <3>1. Leads(Last, IdleState) /\ Fits(IdleState)'
            BY <1>0, <1>6, <2>1 DEF Act, Leads, Fits, IdleState, State
        <3> QED
            BY <1>6, <2>1, <3>1, InOrderSet DEF Act, workerVars
    <2>2. CASE task # Idle
        <3>1. task \in Actions /\ task' = task
            BY <1>6, <2>2 DEF Act, TypeOK, Instructions
        <3>2. Leads(Last, State("started", task)) /\ Fits(State("started", task))'
            BY <1>0, <1>6, <2>2, <3>1 DEF Act, Leads, Fits
        <3> QED
            BY <1>6, <2>2, <3>2, InOrderSet DEF Act, workerVars
    <2> QED
        BY <2>1, <2>2
<1>7. ASSUME NEW p \in Stages, NEW s \in Stages, Last = State(p, task), s \in Reports!Follows(p),
             Set(State(s, task)), report' = report, task' = task, Fits(State(s, task))'
      PROVE  InOrder'
    <2>1. Leads(Last, State(s, task))
        BY <1>7 DEF Leads, State
    <2> QED
        BY <1>7, <2>1, InOrderSet
<1>8. CASE Detail
    <2>1. Last = State("started", task) /\ task' = task /\ report' = report
        BY <1>0, <1>8 DEF Detail, At, Fits, workerVars
    <2>2. CASE At("detail", "build") /\ Set(State("fetching", task))
        <3>1. Fits(State("fetching", task))'
            BY <2>1, <2>2 DEF At, Fits
        <3> QED
            BY <1>7, <2>1, <2>2, <3>1 DEF Stages, Reports!Follows
    <2>3. CASE At("detail", "check") /\ UNCHANGED current
        <3>1. Last' = Last
            BY <2>1, <2>3
        <3>2. Fits(Last)'
            BY <2>1, <2>3, <3>1 DEF At, Fits, State
        <3> QED
            BY <1>4, <2>1, <2>3, <3>2
    <2> QED
        BY <1>8, <2>2, <2>3 DEF Detail
<1>9. CASE Build
    <2>1. Last = State("fetching", task) /\ task' = task /\ report' = report
        BY <1>0, <1>9 DEF Build, At, Fits, workerVars
    <2>2. CASE At("build", "run") /\ Set(State("running", task))
        <3>1. Fits(State("running", task))'
            BY <2>1, <2>2 DEF At, Fits
        <3> QED
            BY <1>7, <2>1, <2>2, <3>1 DEF Stages, Reports!Follows
    <2>3. CASE At("build", "check") /\ Set(State("completed", task))
        <3>1. Fits(State("completed", task))'
            BY <2>1, <2>3 DEF At, Fits, State
        <3> QED
            BY <1>7, <2>1, <2>3, <3>1 DEF Stages, Reports!Follows
    <2> QED
        BY <1>9, <2>2, <2>3 DEF Build
<1>10. CASE Run
    <2>1. Last = State("running", task) /\ task' = task /\ report' = report
        BY <1>0, <1>10 DEF Run, At, Fits, workerVars
    <2>2. Fits(State("uploading", task))'
        BY <1>10, <2>1 DEF Run, At, Fits
    <2> QED
        BY <1>7, <1>10, <2>1, <2>2 DEF Run, Stages, Reports!Follows
<1>11. CASE Finish
    <2>1. Last = State("uploading", task) /\ task' = task /\ report' = report
        BY <1>0, <1>11 DEF Finish, At, Fits, workerVars
    <2>2. Fits(State("completed", task))'
        BY <1>11, <2>1 DEF Finish, At, Fits, State
    <2> QED
        BY <1>7, <1>11, <2>1, <2>2 DEF Finish, Stages, Reports!Follows
<1>12. CASE Loop \/ Synchronize \/ Result \/ Put \/ Timeout \/ IsAlive \/ Join
    BY <1>1, <1>12 DEF Loop, Synchronize, Result, Put, Timeout, IsAlive, Join
<1>13. CASE Answer \/ CallFails \/ HandlerStep \/ Signal
    BY <1>1, <1>13 DEF Answer, CallFails, HandlerStep, SetStop, PutIdle, TestFuture, Cancel,
                       Signal, workerVars
<1>14. CASE UNCHANGED vars
    BY <1>1, <1>14 DEF vars, workerVars
<1> QED
    BY <1>2, <1>3, <1>5, <1>6, <1>8, <1>9, <1>10, <1>11, <1>12, <1>13, <1>14
       DEF Next, WorkerStep, RunnerStep

\* Only the worker thread changes what is reported, to the next of the queue.
LEMMA ReportStep ==
    TypeOK /\ InOrder /\ [Next]_vars => Leads(report, report') \/ UNCHANGED report
<1> SUFFICES ASSUME TypeOK, InOrder, [Next]_vars, report' # report
             PROVE  Leads(report, report')
    OBVIOUS
<1>1. First \/ NextState
    BY DEF Next, WorkerStep, Loop, Synchronize, Result, Put, Timeout, IsAlive, Join, Answer,
           CallFails, RunnerStep, Start, CheckStop, Get, Drain, Act, Detail, Build, Run,
           Finish, UpdateActionResult, Raise, Signal, HandlerStep, SetStop, PutIdle,
           TestFuture, Cancel, workerVars, vars
<1> QED
    BY <1>1, InOrderTake DEF First, NextState

\* The scheduler sees every stage of every action in order: a worker is an
\* ActionReports, for any number of actions, instructions and signals
\* (runner.py and thread.py, the two queues).
THEOREM WorkerReportsInOrder == Spec => ReportsInOrder
<1>1. Init => InOrder /\ Reports!Init
    <2> SUFFICES ASSUME Init PROVE InOrder /\ Reports!Init
        OBVIOUS
    <2>1. Len(current) = 0 /\ Newest(report, current) = Unknown /\ runner = "start"
        BY DEF Init, Newest
    <2>2. Chained(report, current) /\ Fits(Unknown)
        BY <2>1 DEF Chained, Fits
    <2> QED
        BY <2>1, <2>2 DEF Init, InOrder, Reports!Init, Reports!Unknown, Reports!State, Unknown, State
<1>2. TypeOK /\ InOrder /\ [Next]_vars => [Reports!Next]_report
    <2> SUFFICES ASSUME Leads(report, report') PROVE Reports!Next
        BY ReportStep
    <2> QED
        BY DEF Leads, Reports!Next, Reports!Connect, Reports!Advance, Reports!TakeUp,
               Reports!Unknown, Reports!IdleState, Reports!State, Unknown, IdleState, State
<1> QED
    BY <1>1, <1>2, InOrderStep, WorkerTypeCorrect, PTL DEF Spec, ReportsInOrder, Reports!Spec
=============================================================================
