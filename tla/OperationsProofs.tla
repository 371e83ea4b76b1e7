-------------------------- MODULE OperationsProofs --------------------------
(***************************************************************************)
(* Proofs about Operations, for every set of names, requests and records.  *)
(*                                                                         *)
(* They hold whatever fails: a broken log directory, a crash, a restart.   *)
(***************************************************************************)
EXTENDS Operations, TLAPS

\* The operation table is keyed by the name its records were registered for.
TableOK ==
    \A n \in Names :
        operations[n] # NoRecord =>
            /\ request[operations[n]].name = n
            /\ status[operations[n]] \notin {"NONE", "GONE"}

\* A record that was never created has no task and no history.
FreshOK ==
    \A a \in Records :
        status[a] = "NONE" =>
            pc[a] = "none" /\ ran[a] = <<>> /\ proc[a] = "none" /\ a \notin cancelReq

\* A registration that holds _lock has a QUEUED record without a task.
LockOK ==
    lock # NoRecord => status[lock] = "QUEUED" /\ pc[lock] = "none" /\ lock \notin cancelReq

\* A task inside a command is at an index of its pipeline.
CommandIndex ==
    \A a \in Records :
        pc[a] \in {"update", "spawn", "read", "sleep"} => step[a] <= Len(Steps(a))

\* Nothing of the server survives its process.
DownOK ==
    server = "down" =>
        lock = NoRecord /\ cancelReq = {} /\ \A a \in Records : pc[a] \in {"none", "ended"}

CoreInv ==
    TypeOK /\ TableOK /\ FreshOK /\ LockOK /\ DownOK /\ CommandIndex /\ ActiveIsCurrent

-----------------------------------------------------------------------------
\* Every pipeline is a nonempty sequence of commands.
LEMMA PipelineType ==
    ASSUME NEW m \in BOOLEAN, NEW t \in OperationTypes
    PROVE  Pipeline(m)[t] \in Seq(Commands) /\ Len(Pipeline(m)[t]) \in Nat \ {0}
<1> DEFINE IsPipeline(s) == s \in Seq(Commands) /\ Len(s) \in Nat \ {0}
<1>a. \A x \in Commands : IsPipeline(<<x>>)
  OBVIOUS
<1>b. \A x, y \in Commands : IsPipeline(<<x, y>>)
  OBVIOUS
<1>c. \A x, y, z \in Commands : IsPipeline(<<x, y, z>>)
  OBVIOUS
<1>d. {"tf_init", "tf_apply", "tf_destroy", "ansible", "ansible_cleanup"} \subseteq Commands
  BY DEF Commands
<1> HIDE DEF IsPipeline
<1>1. /\ IsPipeline(RunClusterCreate(m)) /\ IsPipeline(RunClusterDelete(m))
      /\ IsPipeline(RunWorkstationCreate(m)) /\ IsPipeline(RunWorkstationDelete(m))
      /\ IsPipeline(RunEdgeRouterCreate(m)) /\ IsPipeline(RunEdgeRouterDelete(m))
  BY <1>a, <1>b, <1>c, <1>d
  DEF RunClusterCreate, RunClusterDelete, RunWorkstationCreate, RunWorkstationDelete,
      RunEdgeRouterCreate, RunEdgeRouterDelete
<1>2. \/ Pipeline(m)[t] = RunClusterCreate(m) \/ Pipeline(m)[t] = RunClusterDelete(m)
      \/ Pipeline(m)[t] = RunWorkstationCreate(m) \/ Pipeline(m)[t] = RunWorkstationDelete(m)
      \/ Pipeline(m)[t] = RunEdgeRouterCreate(m) \/ Pipeline(m)[t] = RunEdgeRouterDelete(m)
  BY DEF Pipeline, OperationTypes
<1> QED BY <1>1, <1>2 DEF IsPipeline

\* A request names one of the operation types and a known resource.
LEMMA RequestType ==
    \A r \in Requests : r.type \in OperationTypes /\ r.name \in Names
BY ConstantsOK DEF AllRequests, ClusterRequests, WorkstationRequests, EdgeRouterRequests,
                   OperationTypes

\* The pipeline of a record.
LEMMA StepsType ==
    ASSUME TypeOK, NEW a \in Records
    PROVE  /\ request[a].name \in Names
           /\ Steps(a) \in Seq(Commands)
           /\ Len(Steps(a)) \in Nat \ {0}
           /\ \A i \in 1..Len(Steps(a)) : Steps(a)[i] \in Commands
<1>1. request[a].type \in OperationTypes /\ request[a].name \in Names /\ mock \in BOOLEAN
  BY RequestType DEF TypeOK
<1> QED BY <1>1, PipelineType DEF Steps

\* The initial state satisfies the core invariant.
LEMMA CoreInit == Init => CoreInv
<1> SUFFICES ASSUME Init PROVE CoreInv OBVIOUS
<1>1. (CHOOSE r \in Requests : TRUE) \in Requests
  BY ConstantsOK
<1> QED
  BY <1>1, ConstantsOK DEF Init, CoreInv, TypeOK, TableOK, FreshOK, LockOK, DownOK, CommandIndex, ActiveIsCurrent,
     Statuses, Active, Terminal, PCs, Suspended, Done

-----------------------------------------------------------------------------
\* A task that moves to a suspension point keeps pc well-typed.
LEMMA GotoType ==
    ASSUME TypeOK, NEW a \in Records, NEW p \in PCs, Goto(a, p)
    PROVE  pc' \in [Records -> PCs]
BY DEF TypeOK, Goto

\* So does a task that leaves its pipeline by an exception.
LEMMA OnExceptionType ==
    ASSUME TypeOK, NEW a \in Records, OnException(a)
    PROVE  pc' \in [Records -> PCs] /\ pc' \in {[pc EXCEPT ![a] = "returned"], [pc EXCEPT ![a] = "fail"]}
BY GotoType DEF OnException, Goto, TypeOK, PCs, Suspended, Done

\* The record a task finds under its id, if any.
LEMMA RecType ==
    ASSUME TypeOK, NEW a \in Records
    PROVE  Rec(a) \in Records \cup {NoRecord}
BY StepsType DEF TypeOK, Rec

\* Every step keeps the state well-typed.
LEMMA TypeStep ==
    ASSUME TypeOK, CommandIndex, [Next]_vars
    PROVE  TypeOK'
<1> USE ConstantsOK DEF recordVars, taskVars, processVars, hostVars
<1>1. ASSUME NEW r \in Requests, NEW a \in Records, Register(r, a) PROVE TypeOK'
  BY <1>1, RequestType DEF Register, TypeOK, Statuses, Active
<1>2. ASSUME NEW a \in Records, AttachTask(a) PROVE TypeOK'
  BY <1>2 DEF AttachTask, TypeOK, PCs, Suspended
<1>3. ASSUME NEW n \in Names, Cancel(n) PROVE TypeOK'
  <2>1. operations[n] \in Records BY <1>3 DEF Cancel, TypeOK
  <2>2. status' \in [Records -> Statuses] BY <1>3 DEF Cancel, TypeOK, Statuses, Terminal
  <2>3. signal' \in [Records -> {"none", "term", "kill"}] /\ timer' \subseteq Records
    <3>1. \/ signal' = signal /\ timer' = timer
          \/ /\ signal' = [signal EXCEPT ![operations[n]] = "term"]
             /\ timer' = timer \cup {operations[n]}
      BY <1>3 DEF Cancel, TerminateProcess
    <3> QED BY <3>1, <2>1 DEF TypeOK
  <2>4. cancelReq' \subseteq Records BY <1>3 DEF Cancel, CancelTask, TypeOK, Unfinished
  <2> QED BY <2>2, <2>3, <2>4, <1>3 DEF Cancel, TypeOK
<1>4. ASSUME NEW a \in Records, NextCommand(a) PROVE TypeOK'
  <2>1. pc' \in [Records -> PCs]
    <3>1. \E p \in {"ready", "update", "returned", "finalize"} : Goto(a, p)
      BY <1>4 DEF NextCommand
    <3> QED BY <3>1, GotoType DEF PCs, Suspended, Done
  <2>2. step' \in [Records -> Nat \ {0}]
    <3>1. step' = step \/ step' = [step EXCEPT ![a] = @ + 1] BY <1>4 DEF NextCommand
    <3>2. step \in [Records -> Nat \ {0}] BY DEF TypeOK
    <3> QED BY <3>1, <3>2
  <2> QED BY <2>1, <2>2, <1>4 DEF NextCommand, TypeOK
<1>5. ASSUME NEW a \in Records, PrepareFails(a) \/ ReadFails(a) PROVE TypeOK'
  BY <1>5, OnExceptionType DEF PrepareFails, ReadFails, TypeOK
<1>6. ASSUME NEW a \in Records, StartCommand(a) PROVE TypeOK'
  <2>1. pc' \in [Records -> PCs]
    BY <1>6, GotoType, OnExceptionType DEF StartCommand, PCs, Suspended
  <2>2. status' \in [Records -> Statuses] BY <1>6 DEF StartCommand, TypeOK, Statuses, Active
  <2> QED BY ZenonT(40), <2>1, <2>2, <1>6 DEF StartCommand, TypeOK
<1>7. ASSUME NEW a \in Records, Spawned(a) PROVE TypeOK'
  BY <1>7, GotoType DEF Spawned, TypeOK, PCs, Suspended
<1>8. ASSUME NEW a \in Records, CommandExited(a) \/ MockStepEnds(a) PROVE TypeOK'
  <2>1. step[a] \in 1..Len(Steps(a)) /\ Steps(a)[step[a]] \in Commands
    BY <1>8, StepsType DEF CommandExited, MockStepEnds, At, TypeOK, CommandIndex
  <2>2. Append(ran[a], Steps(a)[step[a]]) \in Seq(Commands) BY <2>1 DEF TypeOK
  <2>3. ran' \in [Records -> Seq(Commands)]
    <3>1. ran' = ran \/ ran' = [ran EXCEPT ![a] = Append(@, Steps(a)[step[a]])]
      BY <1>8 DEF CommandExited, MockStepEnds
    <3> QED BY <3>1, <2>2 DEF TypeOK
  <2>4. step' \in [Records -> Nat \ {0}]
    <3>1. step' = step \/ step' = [step EXCEPT ![a] = @ + 1]
      BY <1>8 DEF CommandExited, MockStepEnds
    <3>2. step \in [Records -> Nat \ {0}] BY DEF TypeOK
    <3> QED BY <3>1, <3>2
  <2>5. pc' \in [Records -> PCs]
    BY <1>8, GotoType, OnExceptionType DEF CommandExited, MockStepEnds, PCs, Suspended
  <2> QED BY <2>3, <2>4, <2>5, <1>8 DEF CommandExited, MockStepEnds, TypeOK
<1>9. ASSUME NEW a \in Records, FinalizePipeline(a) \/ FailPipeline(a) PROVE TypeOK'
  <2>1. pc' \in [Records -> PCs]
    BY <1>9, GotoType, OnExceptionType DEF FinalizePipeline, FailPipeline, PCs, Done
  <2>2. status' \in [Records -> Statuses]
    BY <1>9 DEF FinalizePipeline, FailPipeline, TypeOK, Statuses, Terminal
  <2> QED BY <2>1, <2>2, <1>9 DEF FinalizePipeline, FailPipeline, TypeOK
<1>10. ASSUME NEW a \in Records, RaiseCancelled(a) \/ Reaped(a) PROVE TypeOK'
  <2>1. pc' \in [Records -> PCs]
    BY <1>10, GotoType DEF RaiseCancelled, Reaped, PCs, Done
  <2> QED BY <2>1, <1>10 DEF RaiseCancelled, Reaped, TypeOK
<1>11. ASSUME NEW a \in Records, FinalizeTask(a) PROVE TypeOK'
  BY <1>11, GotoType DEF FinalizeTask, TypeOK, Statuses, Terminal, PCs
<1>12. ASSUME NEW a \in Records, ProcessExits(a) \/ ProcessKilled(a) \/ ForceKill(a)
       PROVE  TypeOK'
  BY ZenonT(40), <1>12 DEF ProcessExits, ProcessKilled, ForceKill, TypeOK
<1>13. CASE LogDirChanges \/ Shutdown \/ ServerExits \/ ServerStarts
  BY <1>13 DEF LogDirChanges, Shutdown, ServerExits, ServerStarts, TypeOK, Statuses, PCs, Unfinished
<1>14. CASE UNCHANGED vars
  BY <1>14 DEF vars, TypeOK
<1> QED
  BY <1>1, <1>2, <1>3, <1>4, <1>5, <1>6, <1>7, <1>8, <1>9, <1>10, <1>11, <1>12, <1>13, <1>14
  DEF Next, Task

\* Every step keeps the operation table consistent and its active records current.
LEMMA RecordStep ==
    ASSUME TypeOK, TableOK, FreshOK, ActiveIsCurrent, [Next]_vars
    PROVE  TableOK' /\ ActiveIsCurrent'
<1> USE ConstantsOK, StepsType DEF recordVars
\* A task sets its record to st and leaves the table alone.
<1>1. ASSUME NEW a \in Records, NEW st \in Active \cup Terminal,
             operations' = operations, request' = request,
             status' = [status EXCEPT ![Rec(a)] = st]
      PROVE  TableOK' /\ ActiveIsCurrent'
  <2>1. TableOK' BY <1>1 DEF TypeOK, TableOK, Active, Terminal
  <2>2. ASSUME NEW b \in Records, status'[b] \in Active PROVE Rec(b)' = b
    <3>1. CASE b = Rec(a) BY <3>1, <1>1 DEF Rec, TableOK
    <3>2. CASE b # Rec(a) BY <3>2, <2>2, <1>1 DEF TypeOK, ActiveIsCurrent, Rec
    <3> QED BY <3>1, <3>2
  <2> QED BY <2>1, <2>2 DEF ActiveIsCurrent
<1>2. ASSUME NEW r \in Requests, NEW a \in Records, Register(r, a)
      PROVE  TableOK' /\ ActiveIsCurrent'
  <2>1. r.name \in Names BY RequestType
  <2>2. TableOK' BY <1>2, <2>1 DEF Register, TypeOK, TableOK, Active
  <2>3. ActiveIsCurrent'
    BY <1>2, <2>1 DEF Register, ResourceFree, TypeOK, TableOK, ActiveIsCurrent, Rec
  <2> QED BY <2>2, <2>3
<1>3. ASSUME NEW n \in Names, Cancel(n) PROVE TableOK' /\ ActiveIsCurrent'
  BY <1>3 DEF Cancel, TypeOK, TableOK, ActiveIsCurrent, Rec, Active
<1>4. ASSUME NEW a \in Records, StartCommand(a) \/ FinalizePipeline(a) \/ FailPipeline(a)
      PROVE  TableOK' /\ ActiveIsCurrent'
  BY <1>4, <1>1 DEF StartCommand, FinalizePipeline, FailPipeline, Active, Terminal
<1>5. ASSUME NEW a \in Records, FinalizeTask(a) PROVE TableOK' /\ ActiveIsCurrent'
  <2>1. CASE Rec(a) = a /\ status[a] \notin Terminal
    BY <2>1, <1>5, <1>1 DEF FinalizeTask, Terminal
  <2>2. CASE ~(Rec(a) = a /\ status[a] \notin Terminal)
    BY <2>2, <1>5 DEF FinalizeTask, TableOK, ActiveIsCurrent, Rec
  <2> QED BY <2>1, <2>2
<1>6. CASE ServerExits
  BY <1>6 DEF ServerExits, TypeOK, TableOK, ActiveIsCurrent, Active
<1>7. CASE UNCHANGED <<operations, request, status>>
  BY <1>7 DEF TableOK, ActiveIsCurrent, Rec
<1>8. ASSUME NEW a \in Records,
             \/ AttachTask(a) \/ NextCommand(a) \/ PrepareFails(a) \/ Spawned(a) \/ ReadFails(a)
             \/ CommandExited(a) \/ MockStepEnds(a) \/ RaiseCancelled(a) \/ Reaped(a)
             \/ ProcessExits(a) \/ ProcessKilled(a) \/ ForceKill(a)
      PROVE  UNCHANGED <<operations, request, status>>
  BY <1>8 DEF AttachTask, NextCommand, PrepareFails, Spawned, ReadFails, CommandExited,
              MockStepEnds, RaiseCancelled, Reaped, ProcessExits, ProcessKilled, ForceKill
<1>9. ASSUME LogDirChanges \/ Shutdown \/ ServerStarts \/ UNCHANGED vars
      PROVE  UNCHANGED <<operations, request, status>>
  BY <1>9 DEF LogDirChanges, Shutdown, ServerStarts, vars
<1> QED
  BY <1>2, <1>3, <1>4, <1>5, <1>6, <1>7, <1>8, <1>9 DEF Next, Task

\* Every step keeps the facts about records without a task and about command indices.
LEMMA TaskStep ==
    ASSUME TypeOK, TableOK, FreshOK, LockOK, DownOK, CommandIndex, [Next]_vars
    PROVE  FreshOK' /\ LockOK' /\ CommandIndex'
<1> USE ConstantsOK, StepsType DEF recordVars, taskVars, processVars, hostVars
<1> DEFINE TaskOK == FreshOK /\ LockOK /\ CommandIndex
<1>1. ASSUME NEW r \in Requests, NEW a \in Records, Register(r, a) PROVE TaskOK'
  BY <1>1 DEF Register, TypeOK, FreshOK, LockOK, CommandIndex, Steps
<1>2. ASSUME NEW a \in Records, AttachTask(a) PROVE TaskOK'
  BY <1>2 DEF AttachTask, TypeOK, FreshOK, LockOK, CommandIndex, Steps
<1>3. ASSUME NEW n \in Names, Cancel(n) PROVE TaskOK'
  BY <1>3 DEF Cancel, CancelTask, TypeOK, TableOK, FreshOK, LockOK, CommandIndex, Steps, Active,
              Unfinished, Suspended
<1>4. ASSUME NEW a \in Records, NextCommand(a) PROVE TaskOK'
  <2>1. FreshOK' /\ LockOK' BY <1>4 DEF NextCommand, At, Goto, TypeOK, FreshOK, LockOK
  <2>2. CommandIndex'
    <3>1. CASE step[a] <= Len(Steps(a))
      BY <3>1, <1>4 DEF NextCommand, MoreCommands, Goto, TypeOK, CommandIndex, Steps
    <3>2. CASE ~(step[a] <= Len(Steps(a)))
      BY <3>2, <1>4 DEF NextCommand, MoreCommands, Goto, TypeOK, CommandIndex, Steps
    <3> QED BY <3>1, <3>2
  <2> QED BY <2>1, <2>2
<1>5. ASSUME NEW a \in Records, PrepareFails(a) \/ ReadFails(a) PROVE TaskOK'
  <2>1. pc' \in {[pc EXCEPT ![a] = "returned"], [pc EXCEPT ![a] = "fail"]}
    BY <1>5, OnExceptionType DEF PrepareFails, ReadFails
  <2>2. pc[a] # "none" BY <1>5 DEF PrepareFails, ReadFails, At
  <2> QED
    BY <2>1, <2>2, <1>5 DEF PrepareFails, ReadFails, TypeOK, FreshOK, LockOK, CommandIndex, Steps
<1>6. ASSUME NEW a \in Records, StartCommand(a) PROVE TaskOK'
  <2>2. FreshOK'
    <3> SUFFICES ASSUME NEW b \in Records, status'[b] = "NONE"
                 PROVE  /\ pc'[b] = "none" /\ ran'[b] = <<>>
                        /\ proc'[b] = "none" /\ b \notin cancelReq'
      BY DEF FreshOK
    <3>1. status[b] = "NONE" BY <1>6 DEF StartCommand, TypeOK
    <3>2. b # a BY <3>1, <1>6 DEF StartCommand, At, FreshOK
    <3>3. pc'[b] = pc[b] /\ proc'[b] = proc[b]
      <4>1. \E p \in PCs : Goto(a, p)
        BY <1>6 DEF StartCommand, OnException, PCs, Suspended, Done
      <4>2. proc' = proc \/ proc' = [proc EXCEPT ![a] = "alive"] BY <1>6 DEF StartCommand
      <4> QED BY <3>2, <4>1, <4>2 DEF Goto, TypeOK
    <3> QED BY <3>1, <3>3, <1>6 DEF StartCommand, FreshOK
  <2>3. LockOK' BY <1>6 DEF StartCommand, LockOK
  <2>4. CommandIndex'
    BY <1>6, OnExceptionType DEF StartCommand, At, Goto, TypeOK, CommandIndex, Steps
  <2> QED BY <2>2, <2>3, <2>4
<1>7. ASSUME NEW a \in Records, Spawned(a) PROVE TaskOK'
  BY <1>7 DEF Spawned, At, Goto, TypeOK, FreshOK, LockOK, CommandIndex, Steps
<1>8. ASSUME NEW a \in Records, CommandExited(a) \/ MockStepEnds(a) PROVE TaskOK'
  <2>1. /\ pc' \in {[pc EXCEPT ![a] = "returned"], [pc EXCEPT ![a] = "fail"],
                    [pc EXCEPT ![a] = "ready"]}
        /\ \A b \in Records \ {a} : step'[b] = step[b] /\ ran'[b] = ran[b]
    BY <1>8, OnExceptionType DEF CommandExited, MockStepEnds, Goto, TypeOK
  <2>2. pc[a] \in {"read", "sleep"} BY <1>8 DEF CommandExited, MockStepEnds, At
  <2>3. UNCHANGED <<recordVars, cancelReq, processVars, hostVars>>
    BY <1>8 DEF CommandExited, MockStepEnds
  <2>4. FreshOK' /\ LockOK' BY <2>1, <2>2, <2>3 DEF TypeOK, FreshOK, LockOK
  <2>5. CommandIndex'
    <3> SUFFICES ASSUME NEW b \in Records, pc'[b] \in {"update", "spawn", "read", "sleep"}
                 PROVE  step'[b] <= Len(Steps(b)')
      BY DEF CommandIndex
    <3>1. b # a BY <2>1 DEF TypeOK
    <3>2. pc'[b] = pc[b] /\ step'[b] = step[b] BY <3>1, <2>1 DEF TypeOK
    <3>3. Steps(b)' = Steps(b) BY <2>3 DEF Steps
    <3> QED BY <3>2, <3>3 DEF CommandIndex
  <2> QED BY <2>4, <2>5
<1>9. ASSUME NEW a \in Records, FinalizePipeline(a) \/ FailPipeline(a) PROVE TaskOK'
  <2>1. Rec(a) # NoRecord => status[Rec(a)] # "NONE" BY DEF TableOK, Rec
  <2>2. pc' \in {[pc EXCEPT ![a] = "returned"], [pc EXCEPT ![a] = "fail"]}
    BY <1>9, OnExceptionType DEF FinalizePipeline, FailPipeline, Goto
  <2> QED
    BY <2>1, <2>2, <1>9, RecType DEF FinalizePipeline, FailPipeline, At, TypeOK, FreshOK, LockOK,
                                     CommandIndex, Steps
<1>10. ASSUME NEW a \in Records, RaiseCancelled(a) \/ Reaped(a) PROVE TaskOK'
  BY <1>10 DEF RaiseCancelled, Reaped, At, Goto, TypeOK, FreshOK, LockOK, CommandIndex, Steps
<1>11. ASSUME NEW a \in Records, FinalizeTask(a) PROVE TaskOK'
  BY <1>11 DEF FinalizeTask, Goto, TypeOK, FreshOK, LockOK, CommandIndex, Steps, Done
<1>12. ASSUME NEW a \in Records, ProcessExits(a) \/ ProcessKilled(a) \/ ForceKill(a)
       PROVE  TaskOK'
  BY <1>12 DEF ProcessExits, ProcessKilled, ForceKill, TypeOK, FreshOK, LockOK, CommandIndex,
               Steps
<1>13. CASE Shutdown
  BY <1>13 DEF Shutdown, TypeOK, FreshOK, LockOK, CommandIndex, Steps, Unfinished, Suspended
<1>14. CASE ServerExits
  BY <1>14 DEF ServerExits, TypeOK, FreshOK, LockOK, CommandIndex
<1>15. CASE LogDirChanges \/ UNCHANGED vars
  BY <1>15 DEF LogDirChanges, vars, FreshOK, LockOK, CommandIndex, Steps
<1>16. CASE ServerStarts
  BY <1>16 DEF ServerStarts, FreshOK, LockOK, DownOK, CommandIndex
<1> QED
  BY <1>1, <1>2, <1>3, <1>4, <1>5, <1>6, <1>7, <1>8, <1>9, <1>10, <1>11, <1>12, <1>13, <1>14,
     <1>15, <1>16
  DEF Next, Task

\* Nothing runs in a server that is down.
LEMMA DownStep ==
    ASSUME TypeOK, LockOK, DownOK, [Next]_vars
    PROVE  DownOK'
<1> USE ConstantsOK DEF recordVars, taskVars, processVars, hostVars
<1>1. CASE server # "down"
  <2>1. CASE ServerExits BY <2>1 DEF ServerExits, DownOK, TypeOK
  <2>2. CASE ~ServerExits
    <3>1. server' # "down"
      BY <1>1, <2>2 DEF Next, Task, Register, AttachTask, Cancel, NextCommand, PrepareFails,
         StartCommand, Spawned, ReadFails, CommandExited, MockStepEnds, FinalizePipeline,
         FailPipeline, RaiseCancelled, Reaped, FinalizeTask, ProcessExits, ProcessKilled,
         ForceKill, LogDirChanges, Shutdown, ServerStarts, vars
    <3> QED BY <3>1 DEF DownOK
  <2> QED BY <2>1, <2>2
<1>2. CASE server = "down"
  <2>1. lock = NoRecord /\ cancelReq = {} /\ \A a \in Records : pc[a] \in {"none", "ended"}
    BY <1>2 DEF DownOK
  <2>2. ASSUME NEW a \in Records, AttachTask(a) \/ PrepareFails(a) \/ Task(a) PROVE FALSE
    BY <2>1, <2>2 DEF AttachTask, PrepareFails, Task, At, Done, NextCommand, StartCommand, Spawned,
       ReadFails, CommandExited, MockStepEnds, FinalizePipeline, FailPipeline, RaiseCancelled,
       Reaped, FinalizeTask
  <2>3. UNCHANGED <<lock, pc, cancelReq>>
    BY <1>2, <2>2 DEF Next, Register, Cancel, ProcessExits, ProcessKilled, ForceKill,
       LogDirChanges, Shutdown, ServerExits, ServerStarts, vars
  <2> QED BY <2>1, <2>3 DEF DownOK
<1> QED BY <1>1, <1>2

\* CoreInv is an inductive invariant, whatever fails.
THEOREM CoreInvariant == Spec => []CoreInv
<1>1. CoreInv /\ [Next]_vars => CoreInv'
  BY TypeStep, RecordStep, TaskStep, DownStep DEF CoreInv
<1> QED BY CoreInit, <1>1, PTL DEF Spec

\* The tables, tasks and processes of the server keep their types.
THEOREM TypeCorrect == Spec => []TypeOK
<1>1. CoreInv => TypeOK BY DEF CoreInv
<1> QED BY CoreInvariant, <1>1, PTL

\* Resource exclusion: register_operation never displaces an operation in progress, so a
\* resource has at most one of them, although log directory, commands and server may fail.
THEOREM ResourceExclusion == Spec => []ActiveIsCurrent
<1>1. CoreInv => ActiveIsCurrent BY DEF CoreInv
<1> QED BY CoreInvariant, <1>1, PTL
=============================================================================
