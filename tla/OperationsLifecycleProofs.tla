---------------------- MODULE OperationsLifecycleProofs ----------------------
(***************************************************************************)
(* What a status means: proofs that a task only ever writes its own        *)
(* record, that SUCCEEDED is earned, that a final status stays, that the   *)
(* command of a cancelled operation is stopped, and that Operations        *)
(* implements OperationLifecycle.                                          *)
(*                                                                         *)
(* A log directory that breaks while a cluster is being built makes a task *)
(* go on after the end of its operation was stored, and then none of this  *)
(* holds.  Calm excludes that case and no other.                           *)
(***************************************************************************)
EXTENDS OperationsProofs

Calm == LogDirMayBreak => NoCompletionLine

\* The log directory breaks only where it may.
LogOK == logDir = "broken" => LogDirMayBreak

\* A task that has not been created has run nothing.
IdleOK == \A a \in Records : pc[a] = "none" => step[a] = 1 /\ ran[a] = <<>>

\* A server that is down has no records.
ForgottenOK == server = "down" => \A a \in Records : status[a] \in {"NONE", "GONE"}

\* Only tasks that are not done are to be cancelled.
CancelOK == cancelReq \subseteq Unfinished

HostInv == LogOK /\ IdleOK /\ CancelOK /\ ForgottenOK

\* The first n commands of the pipeline of a have succeeded, and nothing else has run.
RanFirst(a, n) ==
    Len(ran[a]) = n /\ n <= Len(Steps(a)) /\ \A i \in 1..Len(ran[a]) : ran[a][i] = Steps(a)[i]

\* A task that can run its own code drives its own record, which is in progress, and has
\* run the commands before the one it is at.
Driven(a) ==
    pc[a] \in Suspended /\ a \notin cancelReq =>
        /\ Rec(a) = a
        /\ status[a] \in Active
        /\ RanFirst(a, step[a] - 1)
        /\ pc[a] = "finalize" => step[a] > Len(Steps(a))
        /\ pc[a] \in {"spawn", "read", "sleep"} \/ step[a] > 1 => status[a] = "RUNNING"

Earned(a) == status[a] = "SUCCEEDED" => RanFirst(a, Len(Steps(a)))

DrivenInv == \A a \in Records : Driven(a) /\ Earned(a)

\* The inductive invariant.
StatusInv == CoreInv /\ HostInv /\ (Calm => DrivenInv)

-----------------------------------------------------------------------------
\* It holds at the start.
LEMMA StatusInit == Init => StatusInv
<1> SUFFICES ASSUME Init PROVE StatusInv OBVIOUS
<1>1. CoreInv BY CoreInit
<1>2. HostInv BY DEF Init, HostInv, LogOK, IdleOK, CancelOK, ForgottenOK
<1>3. DrivenInv BY DEF Init, DrivenInv, Driven, Earned, Suspended
<1> QED BY <1>1, <1>2, <1>3 DEF StatusInv

\* Every step keeps what is known of the host.
LEMMA HostStep ==
    ASSUME CoreInv, HostInv, [Next]_vars
    PROVE  HostInv'
<1> USE DEF recordVars, taskVars, processVars, hostVars
<1>1. LogOK'
  <2>1. logDir' = logDir \/ LogDirMayBreak
    BY DEF Next, Task, Register, AttachTask, Cancel, NextCommand, PrepareFails,
         StartCommand, Spawned, ReadFails, CommandExited, MockStepEnds, FinalizePipeline,
         FailPipeline, RaiseCancelled, Reaped, FinalizeTask, ProcessExits, ProcessKilled,
         ForceKill, LogDirChanges, Shutdown, ServerExits, ServerStarts, vars
  <2> QED BY <2>1 DEF HostInv, LogOK
<1>2. IdleOK'
  <2> SUFFICES ASSUME NEW b \in Records, pc'[b] = "none" PROVE step'[b] = 1 /\ ran'[b] = <<>>
    BY DEF IdleOK
  <2>0. TypeOK /\ IdleOK /\ FreshOK /\ CancelOK BY DEF CoreInv, HostInv
  <2>1. ASSUME NEW a \in Records, Task(a) \/ PrepareFails(a) \/ AttachTask(a)
        PROVE  /\ pc[a] = "none" \/ pc'[a] # "none"
               /\ \A c \in Records \ {a} : pc'[c] = pc[c] /\ step'[c] = step[c] /\ ran'[c] = ran[c]
    BY <2>1, <2>0 DEF Task, PrepareFails, AttachTask, NextCommand, StartCommand, Spawned, ReadFails,
       CommandExited, MockStepEnds, FinalizePipeline, FailPipeline, RaiseCancelled, Reaped,
       FinalizeTask, OnException, Goto, TypeOK
  <2>2. ASSUME NEW a \in Records, Task(a) \/ PrepareFails(a) PROVE step'[b] = 1 /\ ran'[b] = <<>>
    <3>1. CASE a = b
      <4>1. pc[a] # "none"
        BY <2>2, <2>0 DEF Task, PrepareFails, NextCommand, StartCommand, Spawned, ReadFails,
           CommandExited, MockStepEnds, FinalizePipeline, FailPipeline, RaiseCancelled, Reaped,
           FinalizeTask, At, Done, CancelOK, Unfinished, Suspended
      <4> QED BY <3>1, <4>1, <2>1, <2>2
    <3>2. CASE a # b BY <3>2, <2>1, <2>2, <2>0 DEF IdleOK
    <3> QED BY <3>1, <3>2
  <2>3. ASSUME NEW a \in Records, AttachTask(a) PROVE step'[b] = 1 /\ ran'[b] = <<>>
    BY <2>3, <2>0 DEF AttachTask, TypeOK, IdleOK
  <2>4. CASE ServerExits
    BY <2>4, <2>0 DEF ServerExits, TypeOK, IdleOK, FreshOK
  <2>5. CASE UNCHANGED <<pc, step, ran>>
    BY <2>5, <2>0 DEF IdleOK
  <2> QED
    BY <2>2, <2>3, <2>4, <2>5 DEF Next, Register, Cancel, ProcessExits, ProcessKilled, ForceKill,
       LogDirChanges, Shutdown, ServerStarts, vars
<1>3. ForgottenOK'
  <2>0. TypeOK /\ DownOK /\ ForgottenOK BY DEF CoreInv, HostInv
  <2>1. CASE ServerExits BY <2>1, <2>0 DEF ServerExits, ForgottenOK, TypeOK
  <2>2. CASE ~ServerExits /\ server # "down"
    <3>1. server' # "down"
      BY <2>2 DEF Next, Task, Register, AttachTask, Cancel, NextCommand, PrepareFails,
         StartCommand, Spawned, ReadFails, CommandExited, MockStepEnds, FinalizePipeline,
         FailPipeline, RaiseCancelled, Reaped, FinalizeTask, ProcessExits, ProcessKilled,
         ForceKill, LogDirChanges, Shutdown, ServerStarts, vars
    <3> QED BY <3>1 DEF ForgottenOK
  <2>3. CASE ~ServerExits /\ server = "down"
    <3>1. lock = NoRecord /\ cancelReq = {} /\ \A a \in Records : pc[a] \in {"none", "ended"}
      BY <2>3, <2>0 DEF DownOK
    <3>2. ASSUME NEW a \in Records, AttachTask(a) \/ PrepareFails(a) \/ Task(a) PROVE FALSE
      BY <3>1, <3>2, ConstantsOK DEF AttachTask, PrepareFails, Task, At, Done, NextCommand, StartCommand,
         Spawned, ReadFails, CommandExited, MockStepEnds, FinalizePipeline, FailPipeline,
         RaiseCancelled, Reaped, FinalizeTask
    <3>3. status' = status
      BY <2>3, <3>2 DEF Next, Register, Cancel, ProcessExits, ProcessKilled, ForceKill,
         LogDirChanges, Shutdown, ServerStarts, vars
    <3> QED BY <3>3, <2>3, <2>0 DEF ForgottenOK
  <2> QED BY <2>1, <2>2, <2>3
<1>4. CancelOK'
  <2>0. TypeOK /\ CancelOK /\ LockOK BY DEF CoreInv, HostInv
  <2>1. ASSUME NEW b \in cancelReq' PROVE b \in Unfinished'
    <3>0. b \in Records
      BY <2>0, <2>1, TypeStep DEF CoreInv, TypeOK
    <3>1. CASE b \notin cancelReq
      <4>1. /\ b \in Unfinished
            /\ Shutdown \/ \E n \in Names : Cancel(n)
        BY <2>1, <3>1 DEF Next, Task, Register, AttachTask, Cancel, CancelTask, NextCommand, PrepareFails,
           StartCommand, Spawned, ReadFails, CommandExited, MockStepEnds, FinalizePipeline,
           FailPipeline, RaiseCancelled, Reaped, FinalizeTask, ProcessExits, ProcessKilled,
           ForceKill, LogDirChanges, Shutdown, ServerExits, ServerStarts, vars
      <4>2. pc' = pc BY <4>1 DEF Shutdown, Cancel
      <4> QED BY <4>1, <4>2 DEF Unfinished
    <3>2. CASE b \in cancelReq
      <4>1. b \in Unfinished BY <3>2, <2>0 DEF CancelOK
      <4>2. pc'[b] = pc[b]
        <5>1. ASSUME NEW a \in Records, AttachTask(a) \/ PrepareFails(a) \/ Task(a)
              PROVE  pc'[b] = pc[b]
          <6>1. CASE a = b
            BY <5>1, <6>1, <3>2, <4>1, <2>1, <2>0, ConstantsOK DEF LockOK, AttachTask, PrepareFails, Task, At, NextCommand, StartCommand,
               Spawned, ReadFails, CommandExited, MockStepEnds, FinalizePipeline, FailPipeline,
               RaiseCancelled, Reaped, FinalizeTask, Done, Unfinished, Suspended
          <6>2. CASE a # b
            BY <5>1, <6>2, <3>0, <2>0 DEF AttachTask, PrepareFails, Task, NextCommand, StartCommand, Spawned,
               ReadFails, CommandExited, MockStepEnds, FinalizePipeline, FailPipeline,
               RaiseCancelled, Reaped, FinalizeTask, OnException, Goto, TypeOK
          <6> QED BY <6>1, <6>2
        <5>2. ~ServerExits BY <2>1 DEF ServerExits
        <5> QED
          BY <5>1, <5>2 DEF Next, Register, Cancel, ProcessExits, ProcessKilled, ForceKill,
             LogDirChanges, Shutdown, ServerStarts, vars
      <4> QED BY <3>0, <4>1, <4>2 DEF Unfinished
    <3> QED BY <3>1, <3>2
  <2> QED BY <2>1 DEF CancelOK
<1> QED BY <1>1, <1>2, <1>3, <1>4 DEF HostInv

-----------------------------------------------------------------------------
\* A pipeline that has ended stays in the past: if there was no cluster build up to now,
\* there was none before.
LEMMA CalmBefore ==
    ASSUME CoreInv, [Next]_vars, Calm'
    PROVE  Calm
<1> USE DEF recordVars
<1>0. TypeOK /\ TableOK BY DEF CoreInv
<1> SUFFICES ASSUME LogDirMayBreak, NEW b \in Records, status[b] # "NONE"
             PROVE  ~LogsCompletion(request[b].type)
  BY DEF Calm, NoCompletionLine
<1>1. request'[b] = request[b]
  BY <1>0 DEF TypeOK, Next, Task, Register, AttachTask, Cancel, NextCommand, PrepareFails,
     StartCommand, Spawned, ReadFails, CommandExited, MockStepEnds, FinalizePipeline,
     FailPipeline, RaiseCancelled, Reaped, FinalizeTask, ProcessExits, ProcessKilled,
     ForceKill, LogDirChanges, Shutdown, ServerExits, ServerStarts, vars
<1>2. status'[b] # "NONE"
  BY <1>0 DEF TypeOK, Next, Task, Register, AttachTask, Cancel, NextCommand, PrepareFails,
     StartCommand, Spawned, ReadFails, CommandExited, MockStepEnds, FinalizePipeline,
     FailPipeline, RaiseCancelled, Reaped, FinalizeTask, ProcessExits, ProcessKilled,
     ForceKill, LogDirChanges, Shutdown, ServerExits, ServerStarts, vars
<1> QED BY <1>1, <1>2 DEF Calm, NoCompletionLine

\* A record and a task that a step does not touch stay as they are known to be.
LEMMA OthersKeep ==
    ASSUME NEW b \in Records, Driven(b), Earned(b),
           pc'[b] = pc[b], step'[b] = step[b], ran'[b] = ran[b], status'[b] = status[b],
           request'[b] = request[b], mock' = mock,
           operations'[request[b].name] = operations[request[b].name],
           b \in cancelReq => b \in cancelReq'
    PROVE  Driven(b)' /\ Earned(b)'
<1>1. Rec(b)' = Rec(b) /\ Steps(b)' = Steps(b) BY DEF Rec, Steps
<1>2. \A n : RanFirst(b, n) => RanFirst(b, n)' BY <1>1 DEF RanFirst
<1>3. RanFirst(b, step[b] - 1) => RanFirst(b, step[b] - 1)'
  BY <1>1 DEF RanFirst
<1> QED BY <1>1, <1>2, <1>3 DEF Driven, Earned

\* While no completion line can fail, every step keeps tasks with their own records.
LEMMA DrivenStep ==
    ASSUME CoreInv, HostInv, Calm, DrivenInv, [Next]_vars
    PROVE  DrivenInv'
<1> USE ConstantsOK, StepsType DEF recordVars, taskVars, processVars, hostVars
<1>0. /\ TypeOK /\ TableOK /\ FreshOK /\ LockOK /\ DownOK /\ CommandIndex /\ ActiveIsCurrent
      /\ LogOK /\ IdleOK /\ CancelOK /\ ForgottenOK
  BY DEF CoreInv, HostInv
<1>a. TypeOK' /\ ActiveIsCurrent' BY <1>0, TypeStep, RecordStep
<1> DEFINE Good(b) == Driven(b)' /\ Earned(b)'
<1> SUFFICES ASSUME NEW b \in Records PROVE Good(b) BY DEF DrivenInv
<1>b. Driven(b) /\ Earned(b) BY DEF DrivenInv
\* A task that runs its own code, and what becomes of the others then.
<1>c. ASSUME NEW a \in Records, At(a, pc[a]), pc[a] \in Suspended
      PROVE  /\ Rec(a) = a /\ status[a] \in Active /\ RanFirst(a, step[a] - 1)
             /\ pc[a] = "finalize" => step[a] > Len(Steps(a))
             /\ pc[a] \in {"spawn", "read", "sleep"} \/ step[a] > 1 => status[a] = "RUNNING"
  BY <1>c DEF At, DrivenInv, Driven
<1>1. ASSUME NEW r \in Requests, NEW a \in Records, Register(r, a) PROVE Good(b)
  <2>1. CASE a = b
    <3>1. pc'[b] = "none" /\ status'[b] = "QUEUED"
      BY <1>0, <1>1, <2>1 DEF Register, FreshOK, TypeOK
    <3> QED BY <3>1 DEF Driven, Earned, Suspended
  <2>2. CASE a # b
    <3>1. /\ pc' = pc /\ step' = step /\ ran' = ran /\ mock' = mock /\ cancelReq' = cancelReq
          /\ status'[b] = status[b] /\ request'[b] = request[b]
      BY <1>0, <1>1, <2>2 DEF Register, TypeOK
    <3>2. CASE status[b] \in Active
      <4>1. Rec(b) = b /\ Rec(b)' = b
        BY <1>0, <1>a, <3>1, <3>2 DEF ActiveIsCurrent
      <4>2. operations'[request[b].name] = operations[request[b].name]
        BY <4>1, <3>1 DEF Rec
      <4> QED BY <4>2, <3>1, <1>b, OthersKeep
    <3>3. CASE status[b] \notin Active
      <4>1. ~(pc[b] \in Suspended /\ b \notin cancelReq) BY <3>3, <1>b DEF Driven
      <4>2. Driven(b)' BY <4>1, <3>1 DEF Driven
      <4>3. Earned(b)' BY <3>1, <1>b DEF Earned, RanFirst, Steps
      <4> QED BY <4>2, <4>3
    <3> QED BY <3>2, <3>3
  <2> QED BY <2>1, <2>2
<1>2. ASSUME NEW a \in Records, AttachTask(a) PROVE Good(b)
  <2>1. CASE a = b
    <3>1. /\ status[b] = "QUEUED" /\ pc[b] = "none" /\ b \notin cancelReq
          /\ step[b] = 1 /\ ran[b] = <<>> /\ Rec(b) = b
      BY <1>0, <1>2, <2>1 DEF AttachTask, LockOK, IdleOK, ActiveIsCurrent, Active
    <3>2. /\ pc'[b] = "ready" /\ step'[b] = 1 /\ ran'[b] = <<>> /\ status'[b] = "QUEUED"
          /\ Rec(b)' = b /\ Steps(b)' = Steps(b)
      BY <3>1, <1>0, <1>2, <2>1 DEF AttachTask, TypeOK, Rec, Steps
    <3>3. RanFirst(b, step[b] - 1)'
      BY <3>2, <1>0 DEF RanFirst
    <3> QED BY <3>2, <3>3 DEF Driven, Earned, Active
  <2>2. CASE a # b
    BY <1>0, <1>2, <2>2, <1>b, OthersKeep DEF AttachTask, TypeOK
  <2> QED BY <2>1, <2>2
<1>3. ASSUME NEW n \in Names, Cancel(n) PROVE Good(b)
  <2>0. /\ pc' = pc /\ step' = step /\ ran' = ran /\ mock' = mock /\ operations' = operations
        /\ request' = request /\ cancelReq \subseteq cancelReq'
    BY <1>3 DEF Cancel, CancelTask
  <2>1. CASE operations[n] = b
    <3>1. status'[b] = "CANCELLED" /\ (pc[b] \in Suspended => b \in cancelReq')
      BY <1>0, <1>3, <2>1 DEF Cancel, CancelTask, Unfinished, TypeOK
    <3> QED BY <3>1, <2>0 DEF Driven, Earned
  <2>2. CASE operations[n] # b
    <3>1. status'[b] = status[b] BY <1>0, <1>3, <2>2 DEF Cancel, TypeOK
    <3> QED BY <3>1, <2>0, <1>b, OthersKeep
  <2> QED BY <2>1, <2>2
\* A task's step that leaves the records alone.
<1>4. ASSUME NEW a \in Records, UNCHANGED <<recordVars, cancelReq, hostVars>>, a # b,
             pc'[b] = pc[b], step'[b] = step[b], ran'[b] = ran[b]
      PROVE  Good(b)
  BY <1>4, <1>b, OthersKeep
<1>5. ASSUME NEW a \in Records, NextCommand(a) PROVE Good(b)
  <2>1. CASE a # b
    BY <1>0, <1>5, <2>1, <1>4 DEF NextCommand, Goto, TypeOK
  <2>2. CASE a = b
    <3>1. /\ Rec(b) = b /\ status[b] \in Active /\ RanFirst(b, step[b] - 1)
          /\ step[b] > 1 => status[b] = "RUNNING"
      BY <1>c, <1>5, <2>2 DEF NextCommand, At, Suspended
    <3>2. UNCHANGED <<recordVars, ran, cancelReq, hostVars>> /\ step' = step
      BY <1>5, <2>2, <3>1 DEF NextCommand, Active
    <3>3. /\ pc'[b] \in {"update", "finalize"}
          /\ pc'[b] = "finalize" => step[b] > Len(Steps(b))
      BY <1>0, <1>5, <2>2, <3>1 DEF NextCommand, MoreCommands, Goto, TypeOK, Active
    <3>4. Rec(b)' = Rec(b) /\ Steps(b)' = Steps(b) BY <3>2 DEF Rec, Steps
    <3>5. RanFirst(b, step[b] - 1)' BY <3>1, <3>2, <3>4 DEF RanFirst
    <3> QED BY <3>1, <3>2, <3>3, <3>4, <3>5 DEF Driven, Earned, Active
  <2> QED BY <2>1, <2>2
\* The task leaves its pipeline by an exception, and its record is still in progress.
<1>6. ASSUME NEW a \in Records, PrepareFails(a) \/ ReadFails(a) PROVE Good(b)
  <2>0. /\ pc' \in {[pc EXCEPT ![a] = "returned"], [pc EXCEPT ![a] = "fail"]}
        /\ UNCHANGED <<recordVars, step, ran, cancelReq, hostVars>>
    BY <1>0, <1>6, OnExceptionType DEF PrepareFails, ReadFails
  <2>1. CASE a # b
    BY <1>0, <2>0, <2>1, <1>4 DEF TypeOK
  <2>2. CASE a = b
    <3>1. /\ Rec(b) = b /\ status[b] \in Active /\ RanFirst(b, step[b] - 1)
          /\ step[b] > 1 => status[b] = "RUNNING"
      BY <1>c, <1>6, <2>2 DEF PrepareFails, ReadFails, At, Suspended
    <3>3. pc'[b] \in {"returned", "fail"} BY <1>0, <2>0, <2>2 DEF TypeOK
    <3>4. Rec(b)' = Rec(b) /\ Steps(b)' = Steps(b) BY <2>0 DEF Rec, Steps
    <3>5. RanFirst(b, step[b] - 1)' BY <3>1, <2>0, <3>4 DEF RanFirst
    <3> QED BY <3>1, <2>0, <3>3, <3>4, <3>5 DEF Driven, Earned, Active
  <2> QED BY <2>1, <2>2
<1>7. ASSUME NEW a \in Records, StartCommand(a) PROVE Good(b)
  <2>0. /\ Rec(a) = a /\ status[a] \in Active /\ RanFirst(a, step[a] - 1)
    BY <1>c, <1>7 DEF StartCommand, At, Suspended
  <2>1. /\ status' = [status EXCEPT ![a] = "RUNNING"]
        /\ UNCHANGED <<operations, request, step, ran, cancelReq, mock>>
        /\ \E p \in {"sleep", "spawn", "returned", "fail"} : pc' = [pc EXCEPT ![a] = p]
    BY <1>7, <2>0 DEF StartCommand, OnException, Goto
  <2>2. CASE a # b
    <3>1. pc'[b] = pc[b] /\ status'[b] = status[b] BY <1>0, <2>1, <2>2 DEF TypeOK
    <3> QED BY <3>1, <2>1, <1>b, OthersKeep
  <2>3. CASE a = b
    <3>1. status'[b] = "RUNNING" /\ pc'[b] \in {"sleep", "spawn", "returned", "fail"}
      BY <1>0, <2>1, <2>3 DEF TypeOK
    <3>2. Rec(b)' = b /\ Steps(b)' = Steps(b) BY <2>0, <2>1, <2>3 DEF Rec, Steps
    <3>3. RanFirst(b, step[b] - 1)' BY <2>0, <2>1, <2>3, <3>2 DEF RanFirst
    <3> QED BY <3>1, <3>2, <3>3 DEF Driven, Earned, Active
  <2> QED BY <2>2, <2>3
<1>8. ASSUME NEW a \in Records, Spawned(a) PROVE Good(b)
  <2>1. CASE a # b
    BY <1>0, <1>8, <2>1, <1>4 DEF Spawned, Goto, TypeOK
  <2>2. CASE a = b
    <3>1. Rec(b) = b /\ status[b] = "RUNNING" /\ RanFirst(b, step[b] - 1)
      BY <1>c, <1>8, <2>2 DEF Spawned, At, Suspended
    <3>2. UNCHANGED <<recordVars, step, ran, cancelReq, hostVars>> /\ pc'[b] = "read"
      BY <1>0, <1>8, <2>2 DEF Spawned, Goto, TypeOK
    <3>3. Rec(b)' = Rec(b) /\ Steps(b)' = Steps(b) BY <3>2 DEF Rec, Steps
    <3>4. RanFirst(b, step[b] - 1)' BY <3>1, <3>2, <3>3 DEF RanFirst
    <3> QED BY <3>1, <3>2, <3>3, <3>4 DEF Driven, Earned, Active
  <2> QED BY <2>1, <2>2
<1>9. ASSUME NEW a \in Records, CommandExited(a) \/ MockStepEnds(a) PROVE Good(b)
  <2>0. /\ Rec(a) = a /\ status[a] = "RUNNING" /\ RanFirst(a, step[a] - 1)
        /\ step[a] \in 1..Len(Steps(a))
    BY <1>c, <1>9, <1>0 DEF CommandExited, MockStepEnds, At, Suspended, CommandIndex, TypeOK
  <2>1. UNCHANGED <<recordVars, cancelReq, hostVars>> BY <1>9 DEF CommandExited, MockStepEnds
  \* The command is accepted only if it succeeded: the record is not CANCELLED.
  <2>2. \/ /\ pc' = [pc EXCEPT ![a] = "ready"]
           /\ step' = [step EXCEPT ![a] = @ + 1]
           /\ ran' = [ran EXCEPT ![a] = Append(@, Steps(a)[step[a]])]
        \/ /\ pc' \in {[pc EXCEPT ![a] = "returned"], [pc EXCEPT ![a] = "fail"]}
           /\ UNCHANGED <<step, ran>>
    BY <1>9, <1>0, <2>0, OnExceptionType DEF CommandExited, MockStepEnds, CommandAccepted, Goto
  <2>3. CASE a # b
    BY <1>0, <2>1, <2>2, <2>3, <1>4 DEF TypeOK
  <2>4. CASE a = b
    <3>1. Rec(b)' = b /\ Steps(b)' = Steps(b) /\ status'[b] = "RUNNING"
      BY <2>0, <2>1, <2>4 DEF Rec, Steps
    <3>2. pc'[b] \in {"ready", "returned", "fail"} BY <1>0, <2>2, <2>4 DEF TypeOK
    <3>3. RanFirst(b, step[b] - 1)'
      <4>1. CASE UNCHANGED <<step, ran>> BY <4>1, <2>0, <2>4, <3>1 DEF RanFirst
      <4>2. CASE /\ step' = [step EXCEPT ![a] = @ + 1]
                 /\ ran' = [ran EXCEPT ![a] = Append(@, Steps(a)[step[a]])]
        <5> DEFINE s == ran[b]
                   c == Steps(b)[step[b]]
        <5>1. /\ s \in Seq(Commands) /\ c \in Commands /\ Len(s) = step[b] - 1
              /\ \A i \in 1..Len(s) : s[i] = Steps(b)[i]
          BY <1>0, <2>0, <2>4 DEF TypeOK, RanFirst
        <5>2. step'[b] = step[b] + 1 /\ ran'[b] = Append(s, c)
          BY <1>0, <4>2, <2>4 DEF TypeOK
        <5>3. /\ Len(Append(s, c)) = Len(s) + 1
              /\ \A i \in 1..Len(s) : Append(s, c)[i] = s[i]
              /\ Append(s, c)[Len(s) + 1] = c
          BY <5>1
        <5>4. step[b] \in Nat \ {0} /\ Len(s) + 1 = step[b]
          BY <1>0, <5>1 DEF TypeOK
        <5>5. ASSUME NEW i \in 1..(Len(s) + 1) PROVE Append(s, c)[i] = Steps(b)[i]
          <6>1. CASE i = Len(s) + 1 BY <6>1, <5>3, <5>4
          <6>2. CASE i # Len(s) + 1
            <7>1. i \in 1..Len(s) BY <6>2, <5>1
            <7> QED BY <7>1, <5>1, <5>3
          <6> QED BY <6>1, <6>2
        <5> HIDE DEF s, c
        <5> QED BY <5>2, <5>3, <5>4, <5>5, <2>0, <2>4, <3>1 DEF RanFirst
      <4> QED BY <2>2, <4>1, <4>2
    <3> QED BY <3>1, <3>2, <3>3 DEF Driven, Earned, Active
  <2> QED BY <2>3, <2>4
<1>10. ASSUME NEW a \in Records, FinalizePipeline(a) \/ FailPipeline(a) PROVE Good(b)
  <2>0. /\ Rec(a) = a /\ status[a] \in Active /\ RanFirst(a, step[a] - 1)
        /\ pc[a] = "finalize" => step[a] > Len(Steps(a))
    BY <1>c, <1>10 DEF FinalizePipeline, FailPipeline, At, Suspended
  <2>1. /\ UNCHANGED <<operations, request, step, ran, cancelReq, mock>>
        /\ \/ pc[a] = "finalize" /\ status' = [status EXCEPT ![a] = "SUCCEEDED"]
           \/ status' = [status EXCEPT ![a] = "FAILED"]
    BY <1>10, <2>0 DEF FinalizePipeline, FailPipeline, At
  \* No completion line is in the way: the log directory works, or the request has none.
  <2>2. pc' = [pc EXCEPT ![a] = "returned"]
    <3>1. status[a] # "NONE" BY <2>0 DEF Active
    <3>2. ~(LogsCompletion(request[a].type) /\ logDir = "broken")
      BY <3>1, <1>0 DEF Calm, NoCompletionLine, LogOK
    <3> QED BY <3>2, <1>10 DEF FinalizePipeline, FailPipeline, Goto
  <2>3. CASE a # b
    <3>1. pc'[b] = pc[b] /\ status'[b] = status[b] BY <1>0, <2>1, <2>2, <2>3 DEF TypeOK
    <3> QED BY <3>1, <2>1, <1>b, OthersKeep
  <2>4. CASE a = b
    <3>1. pc'[b] = "returned" BY <1>0, <2>2, <2>4 DEF TypeOK
    <3>2. Driven(b)' BY <3>1 DEF Driven, Suspended
    <3>3. Steps(b)' = Steps(b) BY <2>1 DEF Steps
    <3>4. status'[b] = "SUCCEEDED" => pc[a] = "finalize" BY <1>0, <2>1, <2>4 DEF TypeOK
    <3>5. pc[a] = "finalize" => RanFirst(b, Len(Steps(b)))
      BY <2>0, <2>4, <1>0 DEF RanFirst, TypeOK
    <3>6. Earned(b)' BY <3>3, <3>4, <3>5, <2>1 DEF Earned, RanFirst
    <3> QED BY <3>2, <3>6
  <2> QED BY <2>3, <2>4
<1>11. ASSUME NEW a \in Records, RaiseCancelled(a) \/ Reaped(a) PROVE Good(b)
  <2>1. /\ UNCHANGED <<recordVars, step, ran, hostVars>>
        /\ \E p \in {"reap", "cancelled"} : pc' = [pc EXCEPT ![a] = p]
        /\ cancelReq' \in {cancelReq, cancelReq \ {a}}
    BY <1>11 DEF RaiseCancelled, Reaped, Goto
  <2>2. CASE a # b
    BY <1>0, <2>1, <2>2, <1>b, OthersKeep DEF TypeOK
  <2>3. CASE a = b
    <3>1. pc'[b] \in {"reap", "cancelled"} BY <1>0, <2>1, <2>3 DEF TypeOK
    <3>2. Driven(b)' BY <3>1 DEF Driven, Suspended
    <3>3. Earned(b)' BY <2>1, <1>b DEF Earned, RanFirst, Steps
    <3> QED BY <3>2, <3>3
  <2> QED BY <2>2, <2>3
<1>12. ASSUME NEW a \in Records, FinalizeTask(a) PROVE Good(b)
  <2>1. /\ UNCHANGED <<operations, request, step, ran, cancelReq, mock>>
        /\ pc' = [pc EXCEPT ![a] = "ended"]
        /\ status' = status \/ \E st \in {"CANCELLED", "FAILED"} : status' = [status EXCEPT ![a] = st]
    BY <1>12 DEF FinalizeTask, Goto
  <2>2. CASE a # b
    BY <1>0, <2>1, <2>2, <1>b, OthersKeep DEF TypeOK
  <2>3. CASE a = b
    <3>1. pc'[b] = "ended" BY <1>0, <2>1, <2>3 DEF TypeOK
    <3>2. Driven(b)' BY <3>1 DEF Driven, Suspended
    <3>3. status'[b] = "SUCCEEDED" => status[b] = "SUCCEEDED" BY <1>0, <2>1, <2>3 DEF TypeOK
    <3>4. Earned(b)' BY <3>3, <2>1, <1>b DEF Earned, RanFirst, Steps
    <3> QED BY <3>2, <3>4
  <2> QED BY <2>2, <2>3
<1>13. CASE UNCHANGED <<recordVars, taskVars, mock>>
  BY <1>13, <1>b, OthersKeep
<1>14. CASE Shutdown
  <2>1. pc[b] \in Suspended => b \in cancelReq' BY <1>14 DEF Shutdown, Unfinished
  <2> QED BY <2>1, <1>14, <1>b DEF Shutdown, Driven, Earned, RanFirst, Steps
<1>15. CASE ServerExits
  <2>1. pc'[b] \in {"none", "ended"} /\ status'[b] # "SUCCEEDED" BY <1>15 DEF ServerExits
  <2> QED BY <2>1 DEF Driven, Earned, Suspended
<1>16. CASE ServerStarts
  <2>1. pc'[b] \in {"none", "ended"} /\ status'[b] # "SUCCEEDED"
    BY <1>16, <1>0 DEF ServerStarts, DownOK, ForgottenOK
  <2> QED BY <2>1 DEF Driven, Earned, Suspended
<1> QED
  BY <1>1, <1>2, <1>3, <1>5, <1>6, <1>7, <1>8, <1>9, <1>10, <1>11, <1>12, <1>13, <1>14, <1>15, <1>16
  DEF Next, Task, ProcessExits, ProcessKilled, ForceKill, LogDirChanges, vars

\* The inductive invariant holds, whatever fails.
THEOREM StatusInvariant == Spec => []StatusInv
<1>1. StatusInv /\ [Next]_vars => StatusInv'
  <2> SUFFICES ASSUME StatusInv, [Next]_vars PROVE StatusInv' OBVIOUS
  <2>1. CoreInv' BY TypeStep, RecordStep, TaskStep, DownStep DEF StatusInv, CoreInv
  <2>2. HostInv' BY HostStep DEF StatusInv
  <2>3. Calm' => DrivenInv' BY CalmBefore, DrivenStep DEF StatusInv
  <2> QED BY <2>1, <2>2, <2>3 DEF StatusInv
<1> QED BY StatusInit, <1>1, PTL DEF Spec

-----------------------------------------------------------------------------
\* With no cluster build on record, whatever fails: no task writes a foreign record, and
\* SUCCEEDED means that every command of the pipeline succeeded, in order.
THEOREM FaultsAreLocal == Spec => []FaultsStayLocal
<1>1. StatusInv => FaultsStayLocal
  <2> SUFFICES ASSUME StatusInv, NoCompletionLine PROVE NoZombieTask /\ SucceededRanAll
    BY DEF FaultsStayLocal
  <2>1. DrivenInv BY DEF StatusInv, Calm
  <2> QED BY <2>1 DEF DrivenInv, Driven, Earned, RanFirst, NoZombieTask, SucceededRanAll
<1> QED BY <1>1, StatusInvariant, PTL

\* The servers for which the rest is proved: the log directory works, or nobody asks for
\* a cluster.
QuietRequests == LogDirMayBreak => \A r \in Requests : ~LogsCompletion(r.type)

\* On such a server tasks stay with their records.
LEMMA QuietIsDriven ==
    ASSUME QuietRequests
    PROVE  Spec => [](CoreInv /\ HostInv /\ Calm /\ DrivenInv)
<1>1. StatusInv => CoreInv /\ HostInv /\ Calm /\ DrivenInv
  <2> SUFFICES ASSUME StatusInv PROVE Calm BY DEF StatusInv
  <2>1. \A a \in Records : request[a] \in Requests BY DEF StatusInv, CoreInv, TypeOK
  <2> QED BY <2>1 DEF QuietRequests, Calm, NoCompletionLine
<1> QED BY <1>1, StatusInvariant, PTL

\* A task that can still run its own code drives the record of its own operation, which
\* is in progress (the status tests before an await are not stale after it).
THEOREM TasksDriveTheirRecords ==
    ASSUME QuietRequests
    PROVE  Spec => []NoZombieTask
<1>1. DrivenInv => NoZombieTask BY DEF DrivenInv, Driven, NoZombieTask
<1> QED BY <1>1, QuietIsDriven, PTL

\* SUCCEEDED is reported only when every command of the pipeline exited with code 0.
THEOREM SuccessIsEarned ==
    ASSUME QuietRequests
    PROVE  Spec => []SucceededRanAll
<1>1. DrivenInv => SucceededRanAll BY DEF DrivenInv, Earned, RanFirst, SucceededRanAll
<1> QED BY <1>1, QuietIsDriven, PTL

-----------------------------------------------------------------------------
\* Record a, in progress and in the table, gets status s.
Writes(a, s) ==
    /\ Rec(a) = a
    /\ status[a] \in Active
    /\ s = "SUCCEEDED" => status[a] = "RUNNING"
    /\ operations' = operations
    /\ status' = [status EXCEPT ![a] = s]

\* All that a step can do to the operation table and the statuses.
LEMMA StatusWrites ==
    ASSUME CoreInv, HostInv, Calm, DrivenInv, [Next]_vars
    PROVE  \/ UNCHANGED <<operations, status>>
           \/ \E r \in Requests, a \in Records : Register(r, a)
           \/ \E a \in Records, s \in {"RUNNING"} \cup Terminal : Writes(a, s)
           \/ ServerExits
<1> USE ConstantsOK DEF recordVars
<1>0. TypeOK /\ TableOK /\ ActiveIsCurrent BY DEF CoreInv
<1> DEFINE SomeWrite == \E a \in Records, s \in {"RUNNING"} \cup Terminal : Writes(a, s)
<1>1. ASSUME NEW n \in Names, Cancel(n) PROVE SomeWrite
  <2>1. operations[n] \in Records /\ request[operations[n]].name = n
    BY <1>0, <1>1 DEF Cancel, TypeOK, TableOK
  <2>2. Writes(operations[n], "CANCELLED") BY <1>1, <2>1 DEF Cancel, Writes, Rec
  <2> QED BY <2>1, <2>2 DEF Terminal
<1>2. ASSUME NEW a \in Records, StartCommand(a) PROVE SomeWrite
  <2>1. Writes(a, "RUNNING")
    BY <1>2 DEF StartCommand, At, DrivenInv, Driven, Suspended, Writes
  <2> QED BY <2>1
<1>3. ASSUME NEW a \in Records, FinalizePipeline(a) PROVE SomeWrite
  <2>1. /\ Rec(a) = a /\ status[a] \in Active /\ step[a] > Len(Steps(a))
        /\ step[a] > 1 => status[a] = "RUNNING"
    BY <1>3 DEF FinalizePipeline, At, DrivenInv, Driven, Suspended
  <2>2. step[a] > 1 BY <2>1, <1>0, StepsType DEF TypeOK
  <2>3. Writes(a, "SUCCEEDED") BY <1>3, <2>1, <2>2 DEF FinalizePipeline, Writes
  <2> QED BY <2>3 DEF Terminal
<1>4. ASSUME NEW a \in Records, FailPipeline(a) PROVE SomeWrite
  <2>1. Writes(a, "FAILED")
    BY <1>4 DEF FailPipeline, At, DrivenInv, Driven, Suspended, Writes
  <2> QED BY <2>1 DEF Terminal
<1>5. ASSUME NEW a \in Records, FinalizeTask(a) PROVE SomeWrite \/ UNCHANGED <<operations, status>>
  <2>1. CASE Rec(a) = a /\ status[a] \notin Terminal
    <3>1. status[a] \in Active
      <4>1. status[a] \notin {"NONE", "GONE"}
        BY <1>0, <2>1, StepsType DEF TableOK, Rec
      <4> QED BY <4>1, <1>0, <2>1 DEF TypeOK, Statuses
    <3>2. \E s \in {"CANCELLED", "FAILED"} : Writes(a, s)
      BY <1>5, <2>1, <3>1 DEF FinalizeTask, Writes
    <3> QED BY <3>2 DEF Terminal
  <2>2. CASE ~(Rec(a) = a /\ status[a] \notin Terminal)
    BY <1>5, <2>2 DEF FinalizeTask
  <2> QED BY <2>1, <2>2
<1>6. ASSUME NEW a \in Records,
             \/ AttachTask(a) \/ PrepareFails(a) \/ NextCommand(a) \/ Spawned(a) \/ ReadFails(a)
             \/ CommandExited(a) \/ MockStepEnds(a) \/ RaiseCancelled(a) \/ Reaped(a)
             \/ ProcessExits(a) \/ ProcessKilled(a) \/ ForceKill(a)
      PROVE  UNCHANGED <<operations, status>>
  BY <1>6 DEF AttachTask, PrepareFails, NextCommand, Spawned, ReadFails, CommandExited,
     MockStepEnds, RaiseCancelled, Reaped, ProcessExits, ProcessKilled, ForceKill
<1>7. LogDirChanges \/ Shutdown \/ ServerStarts => UNCHANGED <<operations, status>>
  BY DEF LogDirChanges, Shutdown, ServerStarts
<1> QED BY <1>1, <1>2, <1>3, <1>4, <1>5, <1>6, <1>7 DEF Next, Task, vars

\* A status that a client has seen to be final stays, until a restart forgets it.
THEOREM TerminalStaysFinal ==
    ASSUME QuietRequests
    PROVE  Spec => TerminalIsFinal
<1> DEFINE Stays == \A a \in Records : status[a] \in Terminal => status'[a] \in {status[a], "GONE"}
<1>1. CoreInv /\ HostInv /\ Calm /\ DrivenInv /\ [Next]_vars => [Stays]_vars
  <2> SUFFICES ASSUME CoreInv, HostInv, Calm, DrivenInv, [Next]_vars,
                      NEW b \in Records, status[b] \in Terminal
               PROVE  status'[b] \in {status[b], "GONE"}
    OBVIOUS
  <2>0. TypeOK BY DEF CoreInv
  <2>1. CASE UNCHANGED <<operations, status>> BY <2>1
  <2>2. ASSUME NEW r \in Requests, NEW a \in Records, Register(r, a)
        PROVE  status'[b] \in {status[b], "GONE"}
    BY <2>0, <2>2 DEF Register, TypeOK, Terminal
  <2>3. ASSUME NEW a \in Records, NEW s \in {"RUNNING"} \cup Terminal, Writes(a, s)
        PROVE  status'[b] \in {status[b], "GONE"}
    BY <2>0, <2>3 DEF Writes, TypeOK, Terminal, Active
  <2>4. CASE ServerExits BY <2>4 DEF ServerExits, Terminal
  <2> QED BY <2>1, <2>2, <2>3, <2>4, StatusWrites
<1> QED BY <1>1, QuietIsDriven, PTL DEF Spec, TerminalIsFinal

-----------------------------------------------------------------------------
\* Every step of the manager and the runner is a step of the promised life cycle, or
\* changes nothing a client can see.
LEMMA LifecycleStep ==
    ASSUME CoreInv, HostInv, Calm, DrivenInv, [Next]_vars
    PROVE  [Lifecycle!LifecycleNext]_Phase
<1> USE ConstantsOK
<1>0. TypeOK /\ TableOK BY DEF CoreInv
<1>1. CASE UNCHANGED <<operations, status>> BY <1>1 DEF Phase
<1>2. ASSUME NEW r \in Requests, NEW a \in Records, Register(r, a) PROVE Lifecycle!LifecycleNext
  <2>1. r.name \in Names BY RequestType
  <2>2. Phase[r.name] \notin Lifecycle!ActiveStatuses
    <3>1. CASE operations[r.name] = NoRecord
      BY <2>1, <3>1 DEF Phase, Lifecycle!ActiveStatuses
    <3>2. CASE operations[r.name] # NoRecord
      <4>1. status[operations[r.name]] \notin Active
        BY <1>0, <1>2, <2>1, <3>2 DEF Register, ResourceFree, TableOK
      <4> QED BY <2>1, <3>2, <4>1 DEF Phase, Active, Lifecycle!ActiveStatuses
    <3> QED BY <3>1, <3>2
  <2>3. ASSUME NEW n \in Names
        PROVE  Phase'[n] = IF n = r.name THEN "QUEUED" ELSE Phase[n]
    <3>1. operations[n] # a
      BY <1>0, <1>2 DEF Register, TableOK
    <3>2. operations'[n] = IF n = r.name THEN a ELSE operations[n]
      BY <1>0, <1>2 DEF Register, TypeOK
    <3>3. \A c \in Records : status'[c] = IF c = a THEN "QUEUED" ELSE status[c]
      BY <1>0, <1>2 DEF Register, TypeOK
    <3>4. operations[n] \in Records \cup {NoRecord} BY <1>0 DEF TypeOK
    <3> QED BY <3>1, <3>2, <3>3, <3>4 DEF Phase
  <2>4. Phase' = [Phase EXCEPT ![r.name] = "QUEUED"] BY <2>3 DEF Phase
  <2> QED BY <2>1, <2>2, <2>4 DEF Lifecycle!LifecycleNext, Lifecycle!Accept
<1>3. ASSUME NEW a \in Records, NEW s \in {"RUNNING"} \cup Terminal, Writes(a, s)
      PROVE  [Lifecycle!LifecycleNext]_Phase
  <2> DEFINE n == request[a].name
  <2>1. n \in Names /\ operations[n] = a BY <1>0, <1>3, StepsType DEF Writes, Rec
  <2>2. Phase[n] = status[a] BY <2>1 DEF Phase
  <2>3. ASSUME NEW k \in Names
        PROVE  Phase'[k] = IF k = n THEN s ELSE Phase[k]
    <3>1. operations[k] = a => k = n BY <1>0 DEF TableOK
    <3>2. \A c \in Records : status'[c] = IF c = a THEN s ELSE status[c]
      BY <1>0, <1>3 DEF Writes, TypeOK
    <3>3. operations[k] \in Records \cup {NoRecord} BY <1>0 DEF TypeOK
    <3> QED BY <3>1, <3>2, <3>3, <1>3, <2>1 DEF Phase, Writes
  <2>4. Phase' = [Phase EXCEPT ![n] = s] BY <2>3 DEF Phase
  <2> HIDE DEF n
  <2>5. CASE s = "RUNNING" /\ status[a] = "RUNNING"
    <3>1. Phase' = Phase BY <2>1, <2>2, <2>4, <2>5 DEF Phase
    <3> QED BY <3>1
  <2>6. CASE s = "RUNNING" /\ status[a] = "QUEUED"
    BY <2>1, <2>2, <2>4, <2>6 DEF Lifecycle!LifecycleNext, Lifecycle!Run
  <2>7. CASE s = "SUCCEEDED"
    BY <2>1, <2>2, <2>4, <2>7, <1>3 DEF Writes, Lifecycle!LifecycleNext, Lifecycle!Succeed
  <2>8. CASE s \in {"FAILED", "CANCELLED"}
    BY <2>1, <2>2, <2>4, <2>8, <1>3 DEF Writes, Active, Lifecycle!LifecycleNext, Lifecycle!Abort,
       Lifecycle!ActiveStatuses
  <2> QED BY <1>3, <2>5, <2>6, <2>7, <2>8 DEF Writes, Active, Terminal
<1>4. CASE ServerExits
  <2>1. Phase' = [n \in Names |-> "UNKNOWN"] BY <1>4 DEF ServerExits, Phase
  <2> QED BY <2>1 DEF Lifecycle!LifecycleNext, Lifecycle!Forget
<1> QED BY <1>1, <1>2, <1>3, <1>4, StatusWrites

\* The manager and the runner implement the life cycle promised to clients.
THEOREM LifecycleIsImplemented ==
    ASSUME QuietRequests
    PROVE  Spec => ImplementsLifecycle
<1>1. Init => Lifecycle!LifecycleInit
  BY DEF Init, Phase, Lifecycle!LifecycleInit
<1>2. CoreInv /\ HostInv /\ Calm /\ DrivenInv /\ [Next]_vars => [Lifecycle!LifecycleNext]_Phase
  BY LifecycleStep
<1> QED BY <1>1, <1>2, QuietIsDriven, PTL DEF Spec, ImplementsLifecycle, Lifecycle!LifecycleSpec

-----------------------------------------------------------------------------
(***************************************************************************)
(* Subprocesses.  A log directory that breaks makes a task abandon the     *)
(* command it reads from, so what follows is about one that works.         *)
(***************************************************************************)

\* A task that reads from a command has stored it in record.process.
AttachedOK == \A a \in Records : pc[a] = "read" => a \in attached

\* The subprocess of a is certain to die.
Dying(a) ==
    \/ signal[a] = "kill"
    \/ signal[a] = "term" /\ a \in timer
    \/ pc[a] = "spawn" /\ a \in cancelReq

\* A live subprocess is the command its task is at, or the task was cancelled and the
\* subprocess is dying.
ProcOK(a) ==
    proc[a] = "alive" /\ server = "up" /\ status[a] # "GONE" =>
        \/ pc[a] \in {"spawn", "read"} /\ a \notin cancelReq
        \/ /\ a \in cancelReq \/ pc[a] \in {"reap", "ended"} \cup Done
           /\ Dying(a)

ProcInv == AttachedOK /\ \A a \in Records : ProcOK(a)

\* A record whose task and subprocess a step does not touch stays as it is known to be.
LEMMA ProcKeeps ==
    ASSUME NEW b \in Records, ProcOK(b), pc'[b] = pc[b], proc'[b] = proc[b],
           signal'[b] = signal[b], b \in cancelReq' <=> b \in cancelReq,
           b \in timer => b \in timer', server' = "up" => server = "up",
           status[b] = "GONE" => status'[b] = "GONE"
    PROVE  ProcOK(b)'
BY DEF ProcOK, Dying

\* A restart forgets a record for good.
LEMMA GoneStaysGone ==
    ASSUME CoreInv, HostInv, Calm, DrivenInv, [Next]_vars,
           NEW b \in Records, status[b] = "GONE"
    PROVE  status'[b] = "GONE"
<1>0. TypeOK BY DEF CoreInv
<1>1. ASSUME NEW r \in Requests, NEW a \in Records, Register(r, a) PROVE status'[b] = "GONE"
  BY <1>0, <1>1 DEF Register, TypeOK
<1>2. ASSUME NEW a \in Records, NEW s \in {"RUNNING"} \cup Terminal, Writes(a, s)
      PROVE  status'[b] = "GONE"
  BY <1>0, <1>2 DEF Writes, TypeOK, Active
<1>3. CASE ServerExits BY <1>3 DEF ServerExits
<1> QED BY <1>1, <1>2, <1>3, StatusWrites

\* Every step keeps live subprocesses accounted for.
LEMMA ProcStep ==
    ASSUME ~LogDirMayBreak, CoreInv, HostInv, Calm, DrivenInv, ProcInv, [Next]_vars
    PROVE  ProcInv'
<1> USE ConstantsOK DEF recordVars, taskVars, processVars, hostVars
<1>0. /\ TypeOK /\ TableOK /\ FreshOK /\ LockOK /\ DownOK
      /\ CancelOK /\ ForgottenOK /\ AttachedOK /\ logDir = "ok"
  BY DEF CoreInv, HostInv, LogOK, TypeOK, ProcInv
<1> DEFINE Good(b) == ProcOK(b)' /\ (pc'[b] = "read" => b \in attached')
<1> SUFFICES ASSUME NEW b \in Records PROVE Good(b) BY DEF ProcInv, AttachedOK
<1>a. ProcOK(b) /\ (pc[b] = "read" => b \in attached) BY DEF ProcInv, AttachedOK
<1>b. status[b] = "GONE" => status'[b] = "GONE" BY GoneStaysGone
<1>c. ASSUME pc'[b] = pc[b], proc'[b] = proc[b], signal'[b] = signal[b],
             b \in cancelReq' <=> b \in cancelReq, b \in timer => b \in timer',
             b \in attached => b \in attached', server' = server
      PROVE  Good(b)
  BY <1>a, <1>b, <1>c, ProcKeeps
<1>1. ASSUME NEW r \in Requests, NEW a \in Records, Register(r, a) PROVE Good(b)
  BY <1>1, <1>c DEF Register
<1>2. ASSUME NEW a \in Records, AttachTask(a) PROVE Good(b)
  <2>1. CASE a # b BY <1>0, <1>2, <2>1, <1>c DEF AttachTask, TypeOK
  <2>2. CASE a = b
    <3>1. status[b] = "QUEUED" /\ pc[b] = "none" /\ b \notin cancelReq
      BY <1>0, <1>2, <2>2 DEF AttachTask, LockOK
    <3>2. ~(proc[b] = "alive" /\ server = "up")
      BY <1>a, <3>1 DEF ProcOK, Done
    <3>3. pc'[b] = "ready" /\ proc' = proc /\ server' = server
      BY <1>0, <1>2, <2>2 DEF AttachTask, TypeOK
    <3> QED BY <3>2, <3>3 DEF ProcOK
  <2> QED BY <2>1, <2>2
<1>3. ASSUME NEW n \in Names, Cancel(n) PROVE Good(b)
  <2>0. UNCHANGED <<pc, proc, attached, server>> BY <1>3 DEF Cancel
  <2>1. CASE operations[n] # b
    <3>1. signal'[b] = signal[b] /\ (b \in timer => b \in timer') /\ (b \in cancelReq' <=> b \in cancelReq)
      BY <1>0, <1>3, <2>1 DEF Cancel, TerminateProcess, CancelTask, TypeOK
    <3> QED BY <3>1, <2>0, <1>c
  <2>2. CASE operations[n] = b
    <3>1. /\ cancelReq' = cancelReq \cup ({b} \cap Unfinished)
          /\ \/ b \in attached /\ proc[b] = "alive" /\ signal'[b] = "term" /\ b \in timer'
             \/ ~(b \in attached /\ proc[b] = "alive") /\ UNCHANGED <<signal, timer>>
      BY <1>0, <1>3, <2>2 DEF Cancel, TerminateProcess, CancelTask, TypeOK
    <3>2. SUFFICES ASSUME proc[b] = "alive", server = "up", status[b] # "GONE"
                   PROVE  ProcOK(b)'
      BY <2>0, <1>a, <1>b DEF ProcOK
    <3>3. CASE pc[b] \in {"spawn", "read"} /\ b \notin cancelReq
      <4>1. b \in cancelReq' BY <3>1, <3>3 DEF Unfinished, Suspended
      <4>2. Dying(b)'
        <5>1. CASE pc[b] = "read" BY <5>1, <1>a, <3>1, <3>2 DEF Dying
        <5>2. CASE pc[b] = "spawn" BY <5>2, <4>1, <2>0 DEF Dying
        <5> QED BY <5>1, <5>2, <3>3
      <4> QED BY <4>1, <4>2 DEF ProcOK
    <3>4. CASE (b \in cancelReq \/ pc[b] \in {"reap", "ended"} \cup Done) /\ Dying(b)
      <4>1. Dying(b)' BY <3>4, <3>1, <2>0 DEF Dying
      <4> QED BY <4>1, <3>4, <3>1, <2>0 DEF ProcOK
    <3> QED BY <3>2, <3>3, <3>4, <1>a DEF ProcOK
  <2> QED BY <2>1, <2>2
\* A task that is not cancelled and not inside a command has no live subprocess.
<1>4. ASSUME NEW a \in Records, pc[a] \in Suspended \ {"spawn", "read"}, a \notin cancelReq,
             server = "up", status[a] # "GONE"
      PROVE  proc[a] # "alive"
  BY <1>4 DEF ProcInv, ProcOK, Suspended, Done
<1>5. ASSUME NEW a \in Records,
             \/ NextCommand(a) \/ PrepareFails(a) \/ ReadFails(a) \/ CommandExited(a)
             \/ MockStepEnds(a) \/ FinalizePipeline(a) \/ FailPipeline(a)
      PROVE  Good(b)
  <2>1. /\ UNCHANGED <<cancelReq, processVars, server>>
        /\ a \notin cancelReq
        /\ \/ pc[a] \in Suspended \ {"spawn", "read"}
           \/ pc[a] = "read" /\ proc[a] \in {"exit0", "exit1"}
        /\ \E p \in {"ready", "update", "returned", "finalize", "fail"} : pc' = [pc EXCEPT ![a] = p]
    BY <1>5, <1>0 DEF NextCommand, PrepareFails, ReadFails, CommandExited, MockStepEnds,
       FinalizePipeline, FailPipeline, At, OnException, Goto, Suspended
  <2>2. CASE a # b BY <1>0, <2>1, <2>2, <1>c DEF TypeOK
  <2>3. CASE a = b
    <3>1. ~(proc[b] = "alive" /\ server = "up" /\ status[b] # "GONE")
      BY <1>4, <2>1, <2>3
    <3>2. pc'[b] # "read" BY <1>0, <2>1, <2>3 DEF TypeOK
    <3> QED BY <3>1, <3>2, <2>1, <1>b DEF ProcOK
  <2> QED BY <2>2, <2>3
<1>6. ASSUME NEW a \in Records, StartCommand(a) PROVE Good(b)
  <2>0. /\ a \notin cancelReq /\ pc[a] \in Suspended \ {"spawn", "read"}
        /\ UNCHANGED <<cancelReq, timer, server>>
        /\ \E p \in {"sleep", "spawn", "returned", "fail"} : pc' = [pc EXCEPT ![a] = p]
        /\ proc' \in {proc, [proc EXCEPT ![a] = "alive"]}
        /\ proc' # proc => pc' = [pc EXCEPT ![a] = "spawn"]
        /\ signal' \in {signal, [signal EXCEPT ![a] = "none"]}
        /\ attached' \in {attached, attached \ {a}}
    BY <1>6 DEF StartCommand, At, OnException, Goto, Suspended
  <2>1. CASE a # b BY <1>0, <2>0, <2>1, <1>c DEF TypeOK
  <2>2. CASE a = b
    <3>1. pc'[b] # "read" /\ (proc' # proc => pc'[b] = "spawn") BY <1>0, <2>0, <2>2 DEF TypeOK
    <3>2. CASE proc' # proc BY <3>1, <3>2, <2>0, <2>2 DEF ProcOK
    <3>3. CASE proc' = proc
      BY <3>1, <3>3, <1>4, <2>0, <2>2, <1>b DEF ProcOK
    <3> QED BY <3>2, <3>3
  <2> QED BY <2>1, <2>2
<1>7. ASSUME NEW a \in Records, Spawned(a) PROVE Good(b)
  <2>1. CASE a # b BY <1>0, <1>7, <2>1, <1>c DEF Spawned, Goto, TypeOK
  <2>2. CASE a = b BY <1>0, <1>7, <2>2 DEF Spawned, At, Goto, TypeOK, ProcOK
  <2> QED BY <2>1, <2>2
<1>8. ASSUME NEW a \in Records, RaiseCancelled(a) PROVE Good(b)
  <2>0. UNCHANGED <<recordVars, proc, attached, timer, server>> /\ a \in cancelReq /\ cancelReq' = cancelReq \ {a}
    BY <1>8 DEF RaiseCancelled
  <2>1. CASE a # b BY <1>0, <1>8, <2>0, <2>1, <1>c DEF RaiseCancelled, Goto, TypeOK
  <2>2. CASE a = b
    <3>1. CASE pc[b] = "spawn" /\ proc[b] = "alive"
      <4>1. pc'[b] = "reap" /\ signal'[b] = "kill"
        BY <1>0, <1>8, <2>2, <3>1 DEF RaiseCancelled, Goto, TypeOK
      <4> QED BY <4>1 DEF ProcOK, Dying
    <3>2. CASE ~(pc[b] = "spawn" /\ proc[b] = "alive")
      <4>1. pc'[b] = "cancelled" /\ signal' = signal
        BY <1>0, <1>8, <2>2, <3>2 DEF RaiseCancelled, Goto, TypeOK
      <4> QED BY <4>1, <3>2, <1>a, <1>b, <2>0, <2>2 DEF ProcOK, Dying, Done
    <3> QED BY <3>1, <3>2
  <2> QED BY <2>1, <2>2
<1>9. ASSUME NEW a \in Records, Reaped(a) PROVE Good(b)
  <2>1. CASE a # b BY <1>0, <1>9, <2>1, <1>c DEF Reaped, Goto, TypeOK
  <2>2. CASE a = b BY <1>0, <1>9, <2>2 DEF Reaped, Goto, TypeOK, ProcOK
  <2> QED BY <2>1, <2>2
<1>10. ASSUME NEW a \in Records, FinalizeTask(a) PROVE Good(b)
  <2>0. /\ UNCHANGED <<cancelReq, processVars, server>>
        /\ pc[a] \in Done /\ pc' = [pc EXCEPT ![a] = "ended"]
    BY <1>10 DEF FinalizeTask, Goto
  <2>1. CASE a # b BY <1>0, <2>0, <2>1, <1>c DEF TypeOK
  <2>2. CASE a = b
    <3>1. pc'[b] = "ended" /\ pc[b] \notin {"spawn", "read"} BY <1>0, <2>0, <2>2 DEF TypeOK, Done
    <3> QED BY <3>1, <2>0, <1>a, <1>b DEF ProcOK, Dying
  <2> QED BY <2>1, <2>2
<1>11. ASSUME NEW a \in Records, ProcessExits(a) \/ ProcessKilled(a) PROVE Good(b)
  <2>0. UNCHANGED <<recordVars, taskVars, attached, signal, timer, hostVars>>
    BY <1>11 DEF ProcessExits, ProcessKilled
  <2>1. CASE a # b BY <1>0, <1>11, <2>1, <1>c DEF ProcessExits, ProcessKilled, TypeOK
  <2>2. CASE a = b
    <3>1. proc'[b] # "alive" BY <1>0, <1>11, <2>2 DEF ProcessExits, ProcessKilled, TypeOK
    <3> QED BY <3>1, <2>0, <1>a DEF ProcOK
  <2> QED BY <2>1, <2>2
<1>12. ASSUME NEW a \in Records, ForceKill(a) PROVE Good(b)
  <2>0. UNCHANGED <<recordVars, taskVars, proc, attached, hostVars>> BY <1>12 DEF ForceKill
  <2>1. CASE a # b BY <1>0, <1>12, <2>1, <1>c DEF ForceKill, TypeOK
  <2>2. CASE a = b
    <3>1. proc[b] = "alive" => signal'[b] = "kill" BY <1>0, <1>12, <2>2 DEF ForceKill, TypeOK
    <3> QED BY <3>1, <2>0, <1>a DEF ProcOK, Dying
  <2> QED BY <2>1, <2>2
<1>13. CASE LogDirChanges \/ UNCHANGED vars BY <1>13, <1>c DEF LogDirChanges, vars
<1>14. CASE Shutdown BY <1>14, <1>a DEF Shutdown, ProcOK
<1>15. CASE ServerExits
  <2>1. pc'[b] # "read" /\ server' # "up" BY <1>15 DEF ServerExits
  <2> QED BY <2>1 DEF ProcOK
\* A new server knows no record that has a subprocess.
<1>16. CASE ServerStarts
  <2>1. status[b] = "NONE" => proc[b] = "none" BY <1>0 DEF FreshOK
  <2>2. status[b] \in {"NONE", "GONE"} /\ pc[b] # "read"
    BY <1>0, <1>16 DEF ServerStarts, ForgottenOK, DownOK
  <2> QED BY <2>1, <2>2, <1>16 DEF ServerStarts, ProcOK
<1> QED
  BY <1>1, <1>2, <1>3, <1>5, <1>6, <1>7, <1>8, <1>9, <1>10, <1>11, <1>12, <1>13, <1>14, <1>15, <1>16
  DEF Next, Task

\* While the server is up, the subprocess of an operation that is no longer RUNNING is
\* certain to die, whichever await its task was in when it was cancelled.
THEOREM StaleProcessesDie ==
    ASSUME ~LogDirMayBreak
    PROVE  Spec => []StaleProcessIsDoomed
<1>1. QuietRequests BY DEF QuietRequests
<1>2. Spec => [](CoreInv /\ HostInv /\ Calm /\ DrivenInv) BY <1>1, QuietIsDriven
<1>3. Init => ProcInv BY DEF Init, ProcInv, AttachedOK, ProcOK
<1>4. CoreInv /\ HostInv /\ Calm /\ DrivenInv /\ ProcInv /\ [Next]_vars => ProcInv'
  BY ProcStep
<1>5. DrivenInv /\ ProcInv => StaleProcessIsDoomed
  BY DEF DrivenInv, Driven, ProcInv, ProcOK, Dying, StaleProcessIsDoomed, Suspended
<1> QED BY <1>2, <1>3, <1>4, <1>5, PTL DEF Spec
=============================================================================
