----------------------------- MODULE Operations -----------------------------
(***************************************************************************)
(* The long-running operations of the GEM REST API:                        *)
(*   api/gem_api/services/operations.py   OperationManager                 *)
(*   api/gem_api/services/runner.py       ProcessRunner                    *)
(*   api/gem_api/routers/{clusters,workstation,edge_router,operations}.py  *)
(*                                                                         *)
(* All of it runs on one asyncio event loop: code between two awaits is    *)
(* atomic, and an action below is the code from one await to the next.     *)
(* The actors are the HTTP handlers (register, cancel), one pipeline task  *)
(* per accepted operation with its done callback, the subprocess the task  *)
(* started, the two-second force-kill timer of a cancellation, and the     *)
(* server process itself, which may shut down or crash.                    *)
(*                                                                         *)
(* A pipeline task, its OperationRecord object and the subprocess it runs  *)
(* at the moment share one identity a \in Records.  The code finds the     *)
(* record through the operation id, so an action of task a that looks a    *)
(* record up touches Rec(a), which need not be a.                          *)
(***************************************************************************)
EXTENDS Naturals, Sequences

CONSTANTS
    Names,           \* operation ids, equal to the target resource names
    WorkstationName, \* "gem-admin-ws", the one admin workstation
    Requests,        \* the create/delete requests clients may send
    Records,         \* identities of OperationRecord objects (a bound)
    NoRecord,        \* "no record", dict.get() returning None
    MockModes,       \* values GEM_MOCK_RUNNER may have when the server starts
    LogDirMayBreak,  \* log_dir.mkdir()/resolve() may start raising OSError
    ServerMayStop    \* the server may be shut down, crash and be restarted

OperationTypes ==
    {"CLUSTER_CREATE", "CLUSTER_DELETE", "WORKSTATION_CREATE",
     "WORKSTATION_DELETE", "EDGE_ROUTER_CREATE", "EDGE_ROUTER_DELETE"}

\* What the handlers pass to register_operation: operation_id = target_resource = name.
ClusterRequests(n) == [type : {"CLUSTER_CREATE", "CLUSTER_DELETE"}, name : {n}]

WorkstationRequests ==
    [type : {"WORKSTATION_CREATE", "WORKSTATION_DELETE"}, name : {WorkstationName}]

EdgeRouterRequests(n) == [type : {"EDGE_ROUTER_CREATE", "EDGE_ROUTER_DELETE"}, name : {n}]

AllRequests ==
    WorkstationRequests \cup UNION {ClusterRequests(n) \cup EdgeRouterRequests(n) : n \in Names}

ASSUME ConstantsOK ==
    /\ WorkstationName \in Names
    /\ Requests \subseteq AllRequests
    /\ Requests # {}
    /\ NoRecord \notin Records
    /\ MockModes \subseteq BOOLEAN
    /\ MockModes # {}
    /\ LogDirMayBreak \in BOOLEAN
    /\ ServerMayStop \in BOOLEAN

VARIABLES
    operations,  \* OperationManager._operations
    request,     \* request[a]: what record a was registered for
    status,      \* status[a]; "NONE" not yet created, "GONE" lost by a restart
    lock,        \* the record whose registration holds _lock across an await
    pc,          \* where task a is suspended
    step,        \* step[a]: index of the command task a runs or runs next
    ran,         \* ran[a]: the commands of a that exited with code 0
    cancelReq,   \* the tasks with task.cancel() called, CancelledError not raised yet
    proc,        \* the subprocess of a: "none", "alive", "exit0", "exit1"
    attached,    \* the records a whose record.process is that subprocess
    signal,      \* strongest signal sent to it: "none", "term", "kill"
    timer,       \* the records for which a _force_kill task sleeps
    logDir,      \* "ok" or "broken"
    server,      \* "up", "stopping", "down"
    mock         \* _is_mock_enabled(), an environment variable of the server

recordVars  == <<operations, request, status, lock>>
taskVars    == <<pc, step, ran, cancelReq>>
processVars == <<proc, attached, signal, timer>>
hostVars    == <<logDir, server, mock>>
vars == <<operations, request, status, lock, pc, step, ran,
          cancelReq, proc, attached, signal, timer, logDir, server, mock>>

Active == {"QUEUED", "RUNNING"}
Terminal == {"SUCCEEDED", "FAILED", "CANCELLED"}
Statuses == {"NONE", "GONE"} \cup Active \cup Terminal

\* Suspension points at which a task can still be cancelled.
Suspended == {"ready", "update", "spawn", "read", "sleep", "finalize", "fail"}
\* The task is done; its callback _finalize_task has not run yet.
Done == {"returned", "cancelled"}
PCs == {"none", "ended", "reap"} \cup Suspended \cup Done

Commands == {"tf_init", "tf_apply", "tf_destroy", "ansible", "ansible_cleanup"}

(***************************************************************************)
(* Definitions whose comment starts with "Wrong:" are variants of the      *)
(* definition below them with a plausible bug.  No specification uses      *)
(* them; PROJECT.json names the property that each one violates.           *)
(***************************************************************************)

\* Wrong: plans the teardown and does not apply it.
RunWorkstationDeletePlans(isMock) == <<"tf_init", "tf_plan">>

\* The commands of each run_* pipeline, in order; a mock pipeline has no terraform init.
RunClusterCreate(isMock) ==
    IF isMock THEN <<"tf_apply", "ansible">> ELSE <<"tf_init", "tf_apply", "ansible">>

RunClusterDelete(isMock) ==
    IF isMock THEN <<"ansible_cleanup", "tf_destroy">>
            ELSE <<"ansible_cleanup", "tf_init", "tf_destroy">>

RunWorkstationCreate(isMock) ==
    IF isMock THEN <<"tf_apply", "ansible">> ELSE <<"tf_init", "tf_apply", "ansible">>

RunWorkstationDelete(isMock) ==
    IF isMock THEN <<"tf_destroy">> ELSE <<"tf_init", "tf_destroy">>

RunEdgeRouterCreate(isMock) ==
    IF isMock THEN <<"tf_apply", "ansible">> ELSE <<"tf_init", "tf_apply", "ansible">>

RunEdgeRouterDelete(isMock) ==
    IF isMock THEN <<"tf_destroy">> ELSE <<"tf_init", "tf_destroy">>

Pipeline(isMock) ==
    [t \in OperationTypes |->
        CASE t = "CLUSTER_CREATE"     -> RunClusterCreate(isMock)
          [] t = "CLUSTER_DELETE"     -> RunClusterDelete(isMock)
          [] t = "WORKSTATION_CREATE" -> RunWorkstationCreate(isMock)
          [] t = "WORKSTATION_DELETE" -> RunWorkstationDelete(isMock)
          [] t = "EDGE_ROUTER_CREATE" -> RunEdgeRouterCreate(isMock)
          [] t = "EDGE_ROUTER_DELETE" -> RunEdgeRouterDelete(isMock)]

LogsCompletion(t) == t = "CLUSTER_CREATE"   \* log_completion=True

Steps(a) == Pipeline(mock)[request[a].type]

Rec(a) == operations[request[a].name]       \* self._operations.get(operation_id)

Unfinished == {a \in Records : pc[a] \in Suspended \cup {"reap"}}   \* not task.done()

-----------------------------------------------------------------------------
Init ==
    /\ operations = [n \in Names |-> NoRecord]
    /\ request = [a \in Records |-> CHOOSE r \in Requests : TRUE]  \* until created
    /\ status = [a \in Records |-> "NONE"]
    /\ lock = NoRecord
    /\ pc = [a \in Records |-> "none"]
    /\ step = [a \in Records |-> 1]
    /\ ran = [a \in Records |-> <<>>]
    /\ cancelReq = {}
    /\ proc = [a \in Records |-> "none"]
    /\ attached = {}
    /\ signal = [a \in Records |-> "none"]
    /\ timer = {}
    /\ logDir = "ok"
    /\ server = "up"
    /\ mock \in MockModes

-----------------------------------------------------------------------------
(***************************************************************************)
(* HTTP handlers.  A conflicting create/delete (409), a cancel of an       *)
(* unknown (404) or finished (success=False) operation change nothing.     *)
(***************************************************************************)

\* Wrong: an operation conflicts only once it runs.
ResourceFreeUnlessRunning(n) ==
    \A m \in Names :
        operations[m] # NoRecord /\ request[operations[m]].name = n
        => status[operations[m]] # "RUNNING"

\* The conflict check of register_operation, over all records of the table.
ResourceFree(n) ==
    \A m \in Names :
        operations[m] # NoRecord /\ request[operations[m]].name = n
        => status[operations[m]] \notin Active

\* register_operation up to `await asyncio.to_thread(_init_log_file)`: the record
\* enters the table before _get_log_file_path, which raises when log_dir is broken.
Register(r, a) ==
    /\ server = "up"
    /\ lock = NoRecord
    /\ ResourceFree(r.name)
    /\ status[a] = "NONE"
    /\ operations' = [operations EXCEPT ![r.name] = a]
    /\ request' = [request EXCEPT ![a] = r]
    /\ status' = [status EXCEPT ![a] = "QUEUED"]
    /\ lock' = IF logDir = "ok" THEN a ELSE NoRecord
    /\ UNCHANGED <<taskVars, processVars, hostVars>>

\* The rest of register_operation, create_task and attach_task: no await between them.
AttachTask(a) ==
    /\ lock = a
    /\ lock' = NoRecord
    /\ pc' = [pc EXCEPT ![a] = "ready"]
    /\ UNCHANGED <<operations, request, status, step, ran, cancelReq,
                   processVars, hostVars>>

\* Wrong: SIGTERM without the force-kill behind it.
TerminateProcessPolitely(a) ==
    /\ signal' = IF a \in attached /\ proc[a] = "alive" THEN [signal EXCEPT ![a] = "term"] ELSE signal
    /\ UNCHANGED timer

\* SIGTERM to the process group of record.process, and the timer of _force_kill.
TerminateProcess(a) ==
    IF a \in attached /\ proc[a] = "alive"
    THEN /\ signal' = [signal EXCEPT ![a] = "term"]
         /\ timer' = timer \cup {a}
    ELSE UNCHANGED <<signal, timer>>

\* Wrong: the task is left to notice the status by itself.
CancelTaskForgotten(a) == UNCHANGED cancelReq

\* record.task.cancel(), unless the task is done.
CancelTask(a) == cancelReq' = cancelReq \cup ({a} \cap Unfinished)

\* cancel_operation: everything under _lock, no await inside.
Cancel(n) ==
    LET a == operations[n] IN
    /\ server = "up"
    /\ lock = NoRecord
    /\ a # NoRecord
    /\ status[a] \in Active
    /\ status' = [status EXCEPT ![a] = "CANCELLED"]
    /\ TerminateProcess(a)
    /\ CancelTask(a)
    /\ UNCHANGED <<operations, request, lock, pc, step, ran, proc, attached, hostVars>>

-----------------------------------------------------------------------------
(***************************************************************************)
(* The pipeline task.                                                      *)
(***************************************************************************)

\* Task a takes a step of its own code: it is suspended at p, not cancelled.
At(a, p) == pc[a] = p /\ a \notin cancelReq

Goto(a, p) == pc' = [pc EXCEPT ![a] = p]

\* Wrong: a failed command is tried again, forever.
OnExceptionRetry(a) == Goto(a, "ready")

\* `except Exception` of run_*: _fail_pipeline looks at the status, then waits for _lock.
OnException(a) ==
    Goto(a, IF status'[Rec(a)] = "CANCELLED" THEN "returned" ELSE "fail")

\* Wrong: off by one.
MoreCommandsOffByOne(a) == step[a] < Len(Steps(a))

MoreCommands(a) == step[a] <= Len(Steps(a))

\* Start of _execute_command / _mock_step, or of _finalize_pipeline after the last
\* command: a cancelled operation is skipped silently.
NextCommand(a) ==
    /\ At(a, "ready")
    /\ LET cancelled == status[Rec(a)] = "CANCELLED" IN
       IF MoreCommands(a)
       THEN /\ Goto(a, IF cancelled THEN "ready" ELSE "update")
            /\ step' = IF cancelled THEN [step EXCEPT ![a] = @ + 1] ELSE step
       ELSE /\ Goto(a, IF cancelled THEN "returned" ELSE "finalize")
            /\ UNCHANGED step
    /\ UNCHANGED <<recordVars, ran, cancelReq, processVars, hostVars>>

\* _prepare_gcp_context / get_abm_version raise before the first command.
PrepareFails(a) ==
    /\ At(a, "ready")
    /\ step[a] = 1
    /\ ~mock
    /\ UNCHANGED <<recordVars, step, ran, cancelReq, processVars, hostVars>>
    /\ OnException(a)

\* update_operation(RUNNING), the "> Running" log line and create_subprocess_exec up to
\* its await.  The command may be missing; append_log raises when log_dir is broken.
StartCommand(a) ==
    /\ At(a, "update")
    /\ lock = NoRecord
    /\ status' = [status EXCEPT ![Rec(a)] = "RUNNING"]
    /\ \/ /\ logDir = "ok"
          /\ Goto(a, IF mock THEN "sleep" ELSE "spawn")
          /\ proc' = IF mock THEN proc ELSE [proc EXCEPT ![a] = "alive"]
          /\ attached' = attached \ {a}
          /\ signal' = [signal EXCEPT ![a] = "none"]
       \/ /\ logDir = "broken" \/ ~mock
          /\ OnException(a)
          /\ UNCHANGED <<proc, attached, signal>>
    /\ UNCHANGED <<operations, request, lock, step, ran, cancelReq, timer, hostVars>>

\* create_subprocess_exec returns; record.process = process.
Spawned(a) ==
    /\ At(a, "spawn")
    /\ Goto(a, "read")
    /\ attached' = attached \cup {a}
    /\ UNCHANGED <<recordVars, step, ran, cancelReq, proc, signal, timer, hostVars>>

\* A line of output while log_dir is broken: append_log raises out of the read loop and
\* out of the except clause, and leaves the subprocess running.
ReadFails(a) ==
    /\ At(a, "read")
    /\ logDir = "broken"
    /\ UNCHANGED <<recordVars, step, ran, cancelReq, processVars, hostVars>>
    /\ OnException(a)

\* Wrong: the exit code is not looked at.
CommandAcceptedAlways(a) == TRUE

\* No RuntimeError after process.wait(): exit code 0, or the operation was cancelled.  The
\* status is that of the record looked up at the start of the command, the task's own.
CommandAccepted(a) == proc[a] = "exit0" \/ status[a] = "CANCELLED"

\* End of output and process.wait(): the next command, or RuntimeError.
CommandExited(a) ==
    /\ At(a, "read")
    /\ proc[a] \in {"exit0", "exit1"}
    /\ UNCHANGED <<recordVars, cancelReq, processVars, hostVars>>
    /\ IF CommandAccepted(a)
       THEN /\ Goto(a, "ready")
            /\ step' = [step EXCEPT ![a] = @ + 1]
            /\ ran' = IF proc[a] = "exit0" THEN [ran EXCEPT ![a] = Append(@, Steps(a)[step[a]])]
                                           ELSE ran
       ELSE OnException(a) /\ UNCHANGED <<step, ran>>

\* The sleeps and log lines of _mock_step, taken as one.
MockStepEnds(a) ==
    /\ At(a, "sleep")
    /\ UNCHANGED <<recordVars, cancelReq, processVars, hostVars>>
    /\ \/ /\ logDir = "ok"
          /\ Goto(a, "ready")
          /\ step' = [step EXCEPT ![a] = @ + 1]
          /\ ran' = IF status[a] = "CANCELLED" THEN ran
                    ELSE [ran EXCEPT ![a] = Append(@, Steps(a)[step[a]])]
       \/ /\ logDir = "broken"
          /\ OnException(a)
          /\ UNCHANGED <<step, ran>>

\* _finalize_pipeline after _lock is acquired; the completion line comes last.
FinalizePipeline(a) ==
    /\ At(a, "finalize")
    /\ lock = NoRecord
    /\ status' = [status EXCEPT ![Rec(a)] = "SUCCEEDED"]
    /\ IF LogsCompletion(request[a].type) /\ logDir = "broken"
       THEN OnException(a)
       ELSE Goto(a, "returned")
    /\ UNCHANGED <<operations, request, lock, step, ran, cancelReq, processVars, hostVars>>

\* _fail_pipeline after _lock is acquired.
FailPipeline(a) ==
    /\ At(a, "fail")
    /\ lock = NoRecord
    /\ status' = [status EXCEPT ![Rec(a)] = "FAILED"]
    /\ Goto(a, "returned")
    /\ UNCHANGED <<operations, request, lock, step, ran, cancelReq, processVars, hostVars>>

\* CancelledError is raised at the await the task is suspended in.  Nothing catches it
\* but create_subprocess_exec, which kills the child and waits for it first.
RaiseCancelled(a) ==
    /\ a \in cancelReq
    /\ cancelReq' = cancelReq \ {a}
    /\ IF pc[a] = "spawn" /\ proc[a] = "alive"
       THEN Goto(a, "reap") /\ signal' = [signal EXCEPT ![a] = "kill"]
       ELSE Goto(a, "cancelled") /\ UNCHANGED signal
    /\ UNCHANGED <<recordVars, step, ran, proc, attached, timer, hostVars>>

Reaped(a) ==
    /\ At(a, "reap")
    /\ proc[a] # "alive"
    /\ Goto(a, "cancelled")
    /\ UNCHANGED <<recordVars, step, ran, cancelReq, processVars, hostVars>>

\* The done callback _finalize_task.
FinalizeTask(a) ==
    /\ pc[a] \in Done
    /\ Goto(a, "ended")
    /\ IF Rec(a) = a /\ status[a] \notin Terminal
       THEN /\ status' = [status EXCEPT ![a] =
                             IF pc[a] = "cancelled" THEN "CANCELLED" ELSE "FAILED"]
       ELSE UNCHANGED status
    /\ UNCHANGED <<operations, request, lock, step, ran, cancelReq, processVars, hostVars>>

-----------------------------------------------------------------------------
(***************************************************************************)
(* The subprocess (external), the force-kill timer, the log directory and  *)
(* the server process.                                                     *)
(***************************************************************************)

ProcessExits(a) ==      \* on its own, or obeying SIGTERM
    /\ proc[a] = "alive"
    /\ signal[a] # "kill"
    /\ \E code \in {"exit0", "exit1"} : proc' = [proc EXCEPT ![a] = code]
    /\ UNCHANGED <<recordVars, taskVars, attached, signal, timer, hostVars>>

ProcessKilled(a) ==     \* SIGKILL cannot be ignored
    /\ proc[a] = "alive"
    /\ signal[a] = "kill"
    /\ proc' = [proc EXCEPT ![a] = "exit1"]
    /\ UNCHANGED <<recordVars, taskVars, attached, signal, timer, hostVars>>

ForceKill(a) ==         \* _force_kill after its two seconds
    /\ a \in timer
    /\ timer' = timer \ {a}
    /\ signal' = IF proc[a] = "alive" THEN [signal EXCEPT ![a] = "kill"] ELSE signal
    /\ UNCHANGED <<recordVars, taskVars, proc, attached, hostVars>>

LogDirChanges ==        \* the volume of GEM_LOG_DIR goes away or comes back
    /\ LogDirMayBreak
    /\ logDir' = IF logDir = "ok" THEN "broken" ELSE "ok"
    /\ UNCHANGED <<recordVars, taskVars, processVars, server, mock>>

\* Graceful shutdown: uvicorn finishes its requests, then asyncio.run cancels every
\* remaining task, the force-kill timers included.
Shutdown ==
    /\ ServerMayStop
    /\ server = "up"
    /\ lock = NoRecord
    /\ server' = "stopping"
    /\ cancelReq' = cancelReq \cup Unfinished
    /\ timer' = {}
    /\ UNCHANGED <<recordVars, pc, step, ran, proc, attached, signal, logDir, mock>>

\* The process ends, after a shutdown or by a crash.  Subprocesses run in sessions of
\* their own and outlive it; records and tasks do not.
ServerExits ==
    /\ ServerMayStop
    /\ server # "down"
    /\ server' = "down"
    /\ operations' = [n \in Names |-> NoRecord]
    /\ status' = [a \in Records |-> IF status[a] = "NONE" THEN "NONE" ELSE "GONE"]
    /\ lock' = NoRecord
    /\ pc' = [a \in Records |-> IF status[a] = "NONE" THEN "none" ELSE "ended"]
    /\ cancelReq' = {}
    /\ attached' = {}
    /\ timer' = {}
    /\ UNCHANGED <<request, step, ran, proc, signal, logDir, mock>>

ServerStarts ==         \* lifespan() creates log_dir or the start fails
    /\ server = "down"
    /\ logDir = "ok"
    /\ server' = "up"
    /\ mock' \in MockModes
    /\ UNCHANGED <<recordVars, taskVars, processVars, logDir>>

-----------------------------------------------------------------------------
Task(a) ==
    \/ NextCommand(a) \/ StartCommand(a) \/ Spawned(a) \/ ReadFails(a) \/ CommandExited(a)
    \/ MockStepEnds(a) \/ FinalizePipeline(a) \/ FailPipeline(a) \/ RaiseCancelled(a)
    \/ Reaped(a) \/ FinalizeTask(a)

Next ==
    \/ \E r \in Requests, a \in Records : Register(r, a)
    \/ \E n \in Names : Cancel(n)
    \/ \E a \in Records :
          \/ AttachTask(a) \/ PrepareFails(a) \/ Task(a)
          \/ ProcessExits(a) \/ ProcessKilled(a) \/ ForceKill(a)
    \/ LogDirChanges \/ Shutdown \/ ServerExits \/ ServerStarts

Spec == Init /\ [][Next]_vars

(***************************************************************************)
(* Fairness.  The event loop runs every ready callback (asyncio keeps its  *)
(* ready queue FIFO, and asyncio.Lock wakes waiters in order), a sleeping  *)
(* timer fires, and the kernel delivers SIGKILL.  Commands have no         *)
(* timeout in ProcessRunner: nothing makes ProcessExits fair.              *)
(***************************************************************************)
Fairness ==
    \A a \in Records : /\ WF_vars(AttachTask(a))
                       /\ WF_vars(Task(a))
                       /\ WF_vars(ForceKill(a))
                       /\ WF_vars(ProcessKilled(a))

FairSpec == Spec /\ Fairness

-----------------------------------------------------------------------------
(***************************************************************************)
(* Properties.                                                             *)
(***************************************************************************)

\* Type correctness of the tables, tasks and processes of the server.
TypeOK ==
    /\ operations \in [Names -> Records \cup {NoRecord}]
    /\ request \in [Records -> Requests]
    /\ status \in [Records -> Statuses]
    /\ lock \in Records \cup {NoRecord}
    /\ pc \in [Records -> PCs]
    /\ step \in [Records -> Nat \ {0}]
    /\ ran \in [Records -> Seq(Commands)]
    /\ cancelReq \subseteq Records
    /\ proc \in [Records -> {"none", "alive", "exit0", "exit1"}]
    /\ attached \subseteq Records
    /\ signal \in [Records -> {"none", "term", "kill"}]
    /\ timer \subseteq Records
    /\ logDir \in {"ok", "broken"}
    /\ server \in {"up", "stopping", "down"}
    /\ mock \in BOOLEAN

\* Resource exclusion: a QUEUED or RUNNING record is never dropped from the table, so
\* the conflict check of register_operation sees every operation in progress and a
\* resource has at most one of them.
ActiveIsCurrent ==
    \A a \in Records : status[a] \in Active => Rec(a) = a

\* A task that can still run its own code drives a record that is in the table under its
\* id and is in progress.  Hence the status tests of _execute_command and of
\* _finalize_pipeline, made before an await, cannot be stale when update_operation runs,
\* and no task writes the record of a later operation on the same resource.
NoZombieTask ==
    \A a \in Records :
        pc[a] \in Suspended /\ a \notin cancelReq => Rec(a) = a /\ status[a] \in Active

\* While the server is up, a live subprocess belongs to the RUNNING operation of its
\* resource or is certain to die: it has SIGKILL, or SIGTERM with the force-kill timer
\* behind it, or its task is about to kill it inside create_subprocess_exec.
StaleProcessIsDoomed ==
    \A a \in Records :
        proc[a] = "alive" /\ server = "up" /\ status[a] # "GONE" =>
            \/ Rec(a) = a /\ status[a] = "RUNNING"
            \/ signal[a] = "kill"
            \/ signal[a] = "term" /\ a \in timer
            \/ pc[a] = "spawn" /\ a \in cancelReq

\* SUCCEEDED is reported only after every command of the pipeline exited with code 0, in
\* order, although _execute_command returns silently from a cancelled operation.
SucceededRanAll ==
    \A a \in Records :
        status[a] = "SUCCEEDED" =>
            /\ Len(ran[a]) = Len(Steps(a))
            /\ \A i \in 1..Len(ran[a]) : ran[a][i] = Steps(a)[i]

\* No cluster is being built or was built.  Its completion line is the only thing that is
\* logged, and may raise, after the end of the operation was stored.
NoCompletionLine ==
    \A a \in Records : status[a] # "NONE" => ~LogsCompletion(request[a].type)

\* As long as no cluster is built, a log directory that breaks harms the operations that
\* log while it is broken and no other: no task writes a foreign record, and SUCCEEDED
\* still means that every command succeeded.
FaultsStayLocal == NoCompletionLine => NoZombieTask /\ SucceededRanAll

\* Every operation in progress has a task that will end it (or whose callback will), once
\* its registration is over: attach_task's docstring, api/gem_api/services/operations.py.
ActiveHasDriver ==
    \A a \in Records :
        status[a] \in Active /\ lock # a => pc[a] \in Suspended \cup Done \cup {"reap"}

\* At most one operation has a live subprocess on a resource (docs/gem-api.md: "Only one
\* operation can run per resource at a time").
OneProcessPerResource ==
    \A a, b \in Records :
        /\ a # b
        /\ request[a].name = request[b].name
        /\ proc[a] = "alive"
        => proc[b] # "alive"

\* The status a client polls never leaves SUCCEEDED, FAILED or CANCELLED for the same
\* record, however a cancel races with the end of the pipeline.
TerminalIsFinal ==
    [][\A a \in Records :
          status[a] \in Terminal => status'[a] \in {status[a], "GONE"}]_vars

\* Every accepted operation whose commands end also ends, and its resource is released.
OperationEnds ==
    \A a \in Records :
        (proc[a] = "alive" ~> proc[a] # "alive") =>
            (status[a] \in Active ~> status[a] \notin Active)

\* A cancelled operation's subprocess dies even if it ignores SIGTERM and never ends on
\* its own.
CancelStopsProcess ==
    \A a \in Records : status[a] = "CANCELLED" ~> proc[a] # "alive"

\* The status per resource, as GET /operations/{name} reports it.
Phase ==
    [n \in Names |-> IF operations[n] = NoRecord THEN "UNKNOWN" ELSE status[operations[n]]]

Lifecycle == INSTANCE OperationLifecycle WITH phase <- Phase

\* The manager and the runner implement the life cycle promised to clients.
ImplementsLifecycle == Lifecycle!LifecycleSpec
=============================================================================
