# GEM verified: TLA+ models of the GDC emulation environment

This directory holds TLA+ specifications of the parts of GEM that keep state and
run concurrently: the REST API that builds and tears down clusters, workstations
and edge routers and that manages workloads on them (`api/gem_api`), and the Kubernetes
operator that emulates GDC networking (`operators/gem-network-operator`). TLC checks the
specifications on small instances; TLAPS proves what the modules `*Proofs.tla` state for
every value of the constants. `PROJECT.json` lists components, runs, mutants, hazards,
findings, theorems, and the source lines behind every definition.

## 1. Inventory

| Component | State | Operations | Interacts with | Hard part |
|---|---|---|---|---|
| `OperationManager` (`services/operations.py`) | `_operations` (id to record), `_lock`, per record: status, task, process, log buffer, subscriber queues | `register_operation`, `attach_task`, `update_operation`, `_finalize_task`, `cancel_operation` and `_force_kill`, `append_log`, `stream_logs` | routers call it; the runner updates it; done callbacks | everything between two awaits may be interleaved with anything else; ids are reused |
| `ProcessRunner` (`services/runner.py`) | none of its own; one asyncio task and at most one subprocess per operation | six `run_*` pipelines built from `_execute_command`, `_mock_step`, `_finalize_pipeline`, `_fail_pipeline` | manager, operating system | status tested before an await, `CancelledError` at any await, exceptions while a child runs |
| Routers (`routers/*.py`) | none | create/delete (202 or 409), cancel, SSE log stream | manager | a failing registration |
| Server (`main.py`) | process | `lifespan`, shutdown, crash | all of the above | children outlive it, memory does not |
| Pod webhook and IPAM (`controllers/pod_mutator.go`) | none: the pods of the API server, read through an informer cache, are its state | `Handle`, merge loop, `allocateSecondaryIP` | API server, Network and GKEGatewayCIDR resources | concurrent admissions, stale cache, boundaries of small subnets |
| Network reconciler (`network_controller.go`) | Network status and finalizer, child resources | `Reconcile` and helpers | API server, gateway reconciler | partial failure, ignored errors in clean-up |
| Gateway reconciler (`gateway_controller.go`) | Gateway/Route status, Services, EndpointSlices, CoreDNS ConfigMap | `Reconcile` and helpers | API server | children without owner reference, stale endpoints, another controller rewriting the Corefile, addresses chosen per Gateway |
| Webhook certificates (`webhook.go`) | TLS secret in memory, webhook configuration | once at start-up | API server | several replicas |
| Cloud Build (`cloudbuild/`) | `/workspace/state/failed-stage`, Terraform state and lock | preflight, tf-apply, ansible, teardown-on-failure, status | shares the Terraform state with the API | a step that fails before it records its name |
| Overlay sync (`scripts/cron-overlay-sync.sh`) | bucket, staging directory, `/etc/systemd/network` | cron job | Ansible writes the bucket | deletion guarded by file age |
| kubectl/gcloud clients and their routers (`services/k8s_client.py`, `gcp_client.py`, `process.py`, `manifest.py`, `routers/cluster_operations.py`, `projects.py`) | none but the cached `all.yaml`; one subprocess per request | thirteen endpoints, `_find_kubeconfig`, `_exec_kubectl`, `communicate_or_kill`, `_raise_for_kubectl` | subprocesses, the API servers of the clusters | a timeout races the exit of the child and the cluster; which cluster a request acts on; what an answer lets a client conclude |
| Request targets (`models/validators.py`, `models/clusters.py`, `config.py`) | none | `validate_zone_and_region`, `_resolve_default_*`, `_resolve_zone_and_region`, `_prepare_gcp_context` | routers validate, the runner resolves again | two places that decide about one value |
| Terraform and Ansible code | cloud resources | commands run by the above | | external |

What makes each part correct: a resource has one operation at a time; a status that a
client has seen as final stays final and means what it says; a cancel stops the
command; every operation ends and every log stream ends; no log line is lost or
repeated except where a bounded queue overflows; an allocated address is never an
infrastructure address and never somebody else's; a reconcile converges whatever step
of it failed, and leaves nothing behind when its object goes; an HTTP answer means what it
says about the cluster, and every request is answered.

## 2. Modules

| Module | Models |
|---|---|
| `OperationLifecycle` | abstract specification: the status of each resource as a client polls it |
| `Operations` | manager, runner, routers, subprocesses, server: every action is the code from one await to the next |
| `LogStream` | one record's log: file, ring buffer, subscriber queues, `stream_logs`, the ways an operation ends |
| `PodIPAM` | admission handlers, the merge loop and the allocator, over API server and informer cache |
| `NetworkReconciler` | the Network controller, one action per API call, against users, namespaces, garbage collection, crashes and failing calls |
| `GatewayReconciler` | the Gateway controller, one action per API call, against users, pods, a lagging cache, clusterdns-controller, crashes and failing calls |
| `Workloads` | the endpoints that run kubectl or gcloud: handlers, child processes, timeouts, the clusters behind them |
| `GcpTarget` | pure functions: where a request acts, as validation accepts it and as the runner resolves it |
| `MCOperations`, `MCLogStream`, `MCPodIPAM`, `MCNetworkReconciler`, `MCGatewayReconciler`, `MCWorkloads` | finite instances for TLC; the last one also evaluates `GcpTarget` |
| `OperationsProofs`, `OperationsLifecycleProofs`, `LogStreamProofs`, `PodIPAMProofs`, `NetworkReconcilerProofs`, `GatewayReconcilerProofs`, `WorkloadsProofs`, `GcpTargetProofs` | theorems about these modules with their proofs; `OperationsLifecycleProofs` builds on `OperationsProofs` |

Definitions whose comment starts with `Wrong:` are variants of the definition below
them with a plausible bug. No specification uses them; `PROJECT.json` ("mutants")
names the property each violates, so every property is known to be able to fail.

### 2.1 `Operations`

A task, its `OperationRecord` and its current subprocess share an identity
`a \in Records`; `operations` maps names to records, and because the code looks
records up by id, an action of task `a` touches `Rec(a)`, which need not be `a`.
Whether it always is, is a property (`NoZombieTask`), not an assumption.

* `Register` is `register_operation` up to the `await asyncio.to_thread`: `_lock` is held
  across that await (`lock = a`). `AttachTask` is the rest with `create_task` and `attach_task`.
* `NextCommand`, `StartCommand`, `Spawned`, `CommandExited`, `ReadFails`, `MockStepEnds`,
  `PrepareFails`, `FinalizePipeline`, `FailPipeline` are the segments of a pipeline. `pc[a]`
  says at which await the task is suspended: `"update"`, `"finalize"` and `"fail"` wait for `_lock`,
  `"spawn"` is inside `create_subprocess_exec`, `"read"` in the read loop and `process.wait()`.
* `Cancel` is `cancel_operation`, with `TerminateProcess` (SIGTERM and the timer of
  `_force_kill`) and `CancelTask`. `RaiseCancelled` delivers `CancelledError` at the
  await the task is in. Only `create_subprocess_exec` intercepts it: it kills the child and waits.
* `FinalizeTask` is the done callback, `ForceKill` the timer two seconds later.
* `ProcessExits`, `ProcessKilled`, `ServerExits`, `Reaped` are external. `Shutdown` is what
  uvicorn and `asyncio.run` do after SIGTERM. Children run in sessions of their own and survive.
* `LogDirChanges`: every `append_log` may start to raise, and recover.

Abstracted: command lines, environment, messages, timestamps, and the log contents (in
`LogStream`). The mock runner's several sleeps are one.

### 2.2 `LogStream`

Lines are numbered in the order they are logged; a line also has a text, because
`stream_logs` compares texts when it drains. A client goes through `history` (snapshot of
the buffer), then `drain` if the operation has ended, else `live`. `None` is the sentinel.
`FailPipeline`, `EndSilently` (success of most pipelines), `EndWithCompletion`
(`_finalize_pipeline(log_completion=True)`) and `EndWithLine` (cancel, `_finalize_task`) are
the ways an operation ends: status change, sentinel and last line in the code's order.

`append_log` buffers the line, then calls `_get_log_file_path` outside its `try`, then publishes. That
call may raise for any line, so every operation that logs has a raising variant: `RegisterRaises` (a
record without a task), `AppendRaises` (a line of the pipeline itself), `OutputRaises` (a line
of output, after which `_execute_command` logs the exception), `CompletionRaises` (the pipeline goes on to
`_fail_pipeline` and a second sentinel) and `EndRaises` (the last line of `cancel_operation` or
`_finalize_task`: the sentinel is skipped for good). `phase` says where this leaves the
pipeline; `unpublished` (history) holds the lines that were buffered and not published.

### 2.3 `PodIPAM`

Every pod is admitted once by `Handle`, which starts a handler; each iteration of the
merge loop is an action (`KeepAddress`, `AllocateAddress` or `RejectPod`), because each
lists pods anew; `Store` is the API server storing the patched pod; `CacheSync` a watch
event. Addresses are integers, subnets are computed as the code does. `ListedCIDRs` says
that the list of gateway CIDRs may fail and the failure is ignored. The network-status
annotations, which repeat the Multus addresses once the pod runs, are left out, and
so is the wrap of a 32-bit address at 255.255.255.255. `dynamic` and `unseen` are
history variables.

### 2.4 `NetworkReconciler`

One Network (name), its children (a NetworkAttachmentDefinition per namespace, pool and
L2Advertisement) and the Services that ask for its pool. `work` is the running
reconcile: `pc` is the API call it is about to make, `obj` its copy of the Network, `todo`
what is left of the current loop, `errors` whether `childErrors` is empty. A reconcile is
`Reconcile` (the Get), then either `CleanupChild` for every child and `RemoveFinalizer`, or
`EnsureFinalizer`, `StartChildren`, `ReconcileNetAttachDef` for every namespace,
`NetAttachDefsDone`, `ReconcilePool`, `ReconcileL2Advertisement`, `ListServices`,
`BindService` for every Service, `WriteStatus`. Between any two of them the Network may be
edited, deleted and created again (with a new uid), namespaces come and go, children are
deleted by hand or collected, and the operator may crash; any call may fail (`Fault`).

* Network and children are read from the API server: they are unstructured, which the
  client does not cache. An Update is refused when the object differs from the copy.
* Namespaces and Services are cached; a stale list is one that was taken earlier, and the
  interleaving covers it.
* `applyOrUpdate` compares specs only, so a child keeps the owner reference of an earlier
  Network of the same name until the garbage collector takes it. `Converges` shows that the
  30 second requeue repairs this.
* Services that once were bound stay bound, and a pool stays when its annotation is removed:
  the code has no step that takes them back, so no property asks for it.
* `iface` stands for everything the CNI configuration is made from. Events and log messages
  are left out. `permitted`, and `want` and `done` of `work`, are history.

### 2.5 `GatewayReconciler`

One Gateway with the routes that name it (`refs`: the endpoint selectors they refer to), the
selectors, the CIDRs, the pods on secondary networks (`pods`, and `view`, the informer's copy)
and the Service and EndpointSlice made for it. A reconcile is `Reconcile` (the Get), then for a
Gateway being deleted the two Deletes of `WriteChildren` and `RemoveFinalizer`, else
`EnsureFinalizer`, `DetermineGatewayIP`, `ListRoutes`, `CollectEndpoints` for every selector,
`WriteRouteStatus`, `WriteChildren` (apply, or drop if no route is left), `WriteStatus`,
`ReconcileTemplate`, `ReconcileCorefile`. `work` is the running reconcile; its `obj`, `want`
and `eps` are what it read and may be stale.

* Service and EndpointSlice have no owner reference: what the controller does not delete
  stays. `leaked` (history) holds the children whose Delete failed during the clean-up.
* `rule` says who has the CoreDNS rewrite rule: the template, the live Corefile, and the
  template as clusterdns-controller read it when it started (`Render`, `ClusterdnsRestarts`).
  A Corefile without the line that the rule is put behind never gets it; the model
  takes a Corefile that has one.
* Reads of Services and EndpointSlices are cached; an apply that works from a stale copy is
  a conflict, and is among the faults. Ports stand for the selectors they come from.
* Gateways do not share children, and one worker reconciles them in turn, so one is
  modelled. What two of them do share is in section 4.

### 2.6 `Workloads`

A request `req[r]` is its call, its handler (`pc`), its child process (`proc`) and what the
child prints (`reply`, `out`). `Exec` and `ExecFails` are a request coming in: the
kubeconfig is looked up (`FindKubeconfig`) and the program started. `Complete` is
`communicate()` returning; `TimesOut` and `Reap` are `communicate_or_kill` after the timeout: kill,
wait for at most `_REAP_TIMEOUT`, give up. The answer is computed by `RaiseForKubectl` and, for
reads, by one operator per endpoint.

The API server of a cluster acts by itself: `Serve` may come after the sender was killed
and its client told so. `kubectl delete` waits until the object is gone (`Terminated`, `Exit`).
An object has a `uid`, so that an object created again is another one. `hit`, `before` and `owned`
are history.

A list command may print something that does not parse to the end (`"garbled"`); the code then keeps the part it had read, so
any part may be shown. `fallback` is whatever cluster kubectl reaches without a kubeconfig
of the cluster: that of the default files, of the list in `KUBECONFIG`, or of the pod the server runs in.

Abstracted: JSON (a list is a set of names), namespaces, query parameters, the texts of errors (except
whether they say "not found" or "already exists"). Requests that a client
abandons are not modelled.

### 2.7 `GcpTarget`

No state. Texts are opaque; `Strip`, `RegionPart` and `Length` say what the code asks of them,
the regular expressions are sets (`ZoneNames`, `RegionNames`, `ProjectIds`, `Emails`), and
`TargetConstants` states the facts about them that the expressions guarantee. `Accepts` and
`Validated` are the request models, `ResolveDefault` is `config.py`, `ResolveZoneAndRegion` and
`PrepareGcpContext` are the runner.

## 3. Runs

| Run | Result | Shows |
|---|---|---|
| `Operations` | pass | `TypeOK`, `ActiveIsCurrent` (exclusion), `NoZombieTask`, `StaleProcessIsDoomed`, `SucceededRanAll`, `TerminalIsFinal`, `ImplementsLifecycle`, with cancels, failures, shutdown, crash and restart |
| `OperationsFaults` | pass | `ActiveIsCurrent`, `FaultsStayLocal` while the log directory breaks and recovers, real and mock runner, a cluster and an edge router with the same name |
| `OperationsLive` | pass | `OperationEnds`, `CancelStopsProcess` |
| `OperationsOverlap` | violation of `OneProcessPerResource` | finding 1 |
| `OperationsLeak` | violation of `ActiveHasDriver` | finding 2 |
| `LogStream` | pass | `TypeOK`, `SentinelKept`, `InOrder`, `LossIsAccounted`, `StreamEnds` |
| `LogStreamHang` | violation of `StreamsUntilFinished` | finding 3 |
| `PodIPAM` | pass | `TypeOK`, `NeverReserved`, `OwnAddressesDistinct`, `OnlyUnseenClash` |
| `PodIPAMRace` | violation of `StoredAddressesUnique` | finding 4 |
| `NetworkReconciler` | pass | `TypeOK`, `ChildrenGuarded`, `BoundWasPermitted`, `NoPosthumousChild`, `ReadyIsEarned`, `Converges`, `DeletionCompletes` |
| `GatewayReconciler` | pass | `TypeOK`, `ChildrenGuarded`, `SliceOnOneNetwork`, `Converges`, `DeletionCompletes` |
| `Workloads` | pass | `TypeOK`, `SuccessMeansDone`, `RefusalIsDefinite`, `LeftoverIsKilled`, `ReadYourWrites`, `NoResurrection`, `EveryRequestAnswered` |

**Bounds.** Two records: the hazards of `Operations` come from one operation meeting the
remains of the previous one on its resource, or an operation on another
resource holding `_lock`; a third record meets only what the second meets, except after a
cluster build whose completion line failed (section 4), and the theorems of section 5 hold for any number. Records are
never reused, so they also bound the length of a run; they are symmetric. Pipelines
have their real lengths. `LogStream`: one client (streams do not influence each other),
at most four lines of the pipeline, buffer and queue of two, so that both overflow and
the snapshot misses lines; `append_log` may raise for each of them and for the last one; two texts, so that equal lines happen. `PodIPAM`: four pods
(one interface; two on one network, one of them already in the Multus annotation;
an address of its own and one to allocate; none) and a /28 that leaves three
addresses, so that it is exhausted. `NetworkReconciler`: two namespaces (one may fail while
the other succeeds), one Service, four configurations (with pool and allowlist, without,
invalid, primary), one fault and three changes: create, delete and create again is the longest
history with a hazard of its own. `GatewayReconciler`: two networks with a pod each behind one selector
that matches both, a Gateway without network, with the address of a CIDR, or with a static
one (only the first network has a CIDR); two faults (a failed Delete and the crash or drift after it) and three changes (create, edit, delete;
or create, delete, create again), with any CIDRs and routes at the start. `Workloads`: three requests (a create, a delete and a third
that observes or repeats one of them) in thirteen scenarios: each kind of race on a pod and on a VM, the
reads, the kubeconfig found in each of the places or nowhere, and missing programs. A scenario fixes who
asks for what; when requests arrive, overlap, time out and are served is left open. The runs may stop (no more records, all pods ended), hence
`CHECK_DEADLOCK FALSE`; that nothing gets stuck is what the liveness properties say.

**Fairness.** `Operations`: the event loop runs every ready callback and `asyncio.Lock` is
FIFO, so `Task` and `AttachTask` are weakly fair; the timer fires; SIGKILL is delivered.
Nothing is assumed of commands, which have no timeout: `OperationEnds` is conditional on
the command ending. `LogStream`: weak fairness of the reading client
only. `NetworkReconciler`: a Network that exists is reconciled again and again, since every return
of `Reconcile` is a requeue after 30 seconds, an error that the work queue retries, or the
end of the object; the garbage collector is fair. Faults and changes are finitely many.
`GatewayReconciler`: likewise, by a requeue after 5 or 30 seconds, the back-off after an error,
or the event of the deletion; and the informer cache catches up. `Workloads`: the event
loop resumes every handler and its timers expire; nothing is assumed of kubectl, of the clusters,
or of the death of a killed process.
`PodIPAM` has no liveness property.

## 4. Findings

1. `cancel_operation` sets `CANCELLED`, which frees the resource, before the process group
   has died. A new operation on the resource may run its command beside the
   old one for up to two seconds (`OperationsOverlap`), against "Only one operation
   can run per resource at a time" (`docs/gem-api.md:308`). `StaleProcessIsDoomed` is what does hold.
2. `register_operation` puts the record into the table before `_get_log_file_path`, which
   can raise: a `QUEUED` operation nobody drives locks the resource (`OperationsLeak`).
3. `cancel_operation` and `_finalize_task` set the final status, log a last line and publish the sentinel. When
   that `append_log` raises, nothing ever publishes the sentinel, and a client in `queue.get()` waits forever
   (`LogStreamHang`), against "until the operation finishes" (`docs/gem-api.md:157`). `StreamEnds` and
   `SentinelKept` show that this is the only way: every other failing `append_log` is followed by `_fail_pipeline`.
4. Concurrent admissions can store the same address (`PodIPAMRace`). `OnlyUnseenClash` shows
   that this race is the only way.

Noted without a run of their own:

* With a broken log directory, the completion line of a cluster build can fail after `SUCCEEDED`
  was stored. Its task then goes on to `_fail_pipeline`, which writes whatever record its name has
  by now. On its own record it replaces `SUCCEEDED` with `FAILED`; on that of the next operation on
  the cluster it releases the resource while that one runs, and a third operation can then be reported as
  `SUCCEEDED` by the task of the second without having run its commands. An attempt to prove `SucceededRanAll`
  for every log directory found this; it takes three records on one name, more than the runs have.
  `FaultsStayLocal` is what does hold, and is proved: without a cluster build on record nothing of
  this happens.
* An exception of `append_log` in the read loop leaves the child running, unsignalled.
  `StaleProcessIsDoomed` therefore speaks of a working log directory.
* While draining, a line equal to one of the snapshot is skipped as a duplicate, although
  queue and snapshot cannot overlap: a repeated line is lost. `LossIsAccounted` counts it.
* Pods with a deletion timestamp do not count as users of their address, although their
  containers run on for the grace period.
* An error of the `GKEGatewayCIDR` list is ignored; the addresses are then not
  protected. `NeverReserved` speaks of the CIDRs that were listed.
* Edge routers of different names share one Terraform prefix, so exclusion per
  name does not exclude them from each other.
* A request that names a region and no zone gets the default zone together with the
  region it named (`runner.py:56`), which may be another one; it is the only request whose zone and
  region disagree (section 5).
* The first of two environment variables, set to the empty text, hides the second
  (`config.py:31`, `config.py:53`).
* A 502 leaves open whether the write happened or still will; every other refusal is
  definite (`RefusalIsDefinite`). A 404 means that some "not found" was printed, which may have been said of
  a namespace. An empty list may be a failed one (`ReadYourWrites` speaks of the others).
* `_finalize_pipeline` publishes the sentinel before the completion line of a cluster build; a client that is still
  in the history then drains up to the sentinel and misses the line, against the comment "drain any lines published
  after snapshot" (`operations.py:357`). `LossIsAccounted` exempts this line and shows that it is the only published one
  that can be missed so.
* A request for a cluster without a kubeconfig of its own is sent to the cluster of the
  default one: its reads show, and its writes change, another cluster, where `docs/gem-api.md:237` says that reads
  degrade to "not connected" and empty lists. What the properties of `Workloads` promise, they promise of the cluster
  that the request was sent to.
* A line whose `append_log` raises is in the buffer and was never published: a client that connects
  later gets it, one that was connected does not. `LossIsAccounted` counts it.
* A Delete that fails while a Gateway is cleaned up leaves Service or EndpointSlice for good,
  since the finalizer is removed all the same and nothing owns them. `ChildrenGuarded` shows that this is the only way.
* A Gateway whose network annotation or CIDR goes away keeps its children, address and status.
  `Converges` speaks of Gateways that have a network and an address. A failed list of routes reports no
  backends while the slice still has them, and a Gateway is reported as Programmed although its
  Service could not be applied, until the next reconcile.
* Gateways on one CIDR compute the same address, as the test `TwoGatewaysSameCIDRCollide` records.
* Two overlapping runs of the overlay cron script share a staging directory without a lock.
* After a crash, orphaned commands run beside the operations of the new server. The run
  `OperationsOverlap` has no server stop, so its counterexample is finding 1 and not this one.

## 5. Proofs

`OperationsProofs` proves, for all names, requests and records, with every
failure the model has (broken log directory, crash, restart, either runner):

* `TypeCorrect`: `Spec => []TypeOK`;
* `ResourceExclusion`: `Spec => []ActiveIsCurrent`, that is, an operation in progress is
  never displaced from the table, hence at most one per resource.

Both follow from the inductive invariant `CoreInv`. `ActiveIsCurrent` alone is not
inductive: `register_operation` compares the `target_resource` of the records in the table,
so the table must be keyed by the name its records have (`TableOK`); a fresh record must have
no task that could set its status (`FreshOK`); `AttachTask` must find the record as the
registration left it (`LockOK`). `TypeOK` needs `CommandIndex` (a task inside a
command is at an index of its pipeline, so what is appended to `ran` is a command), and
that needs `DownOK` (no task survives the server, whose next start may change the runner).
`TypeStep`, `RecordStep`, `TaskStep` and `DownStep` prove
preservation, one step per action. The only assumption is `ConstantsOK`.

`OperationsLifecycleProofs` proves what a status means, for all names, requests and records:

* `FaultsAreLocal`: `Spec => []FaultsStayLocal`, with every failure the model has;
* under `QuietRequests` (the log directory works, or nobody asks for a cluster):
  `TasksDriveTheirRecords` (`[]NoZombieTask`), `SuccessIsEarned` (`[]SucceededRanAll`),
  `TerminalStaysFinal` (`TerminalIsFinal`) and `LifecycleIsImplemented` (the refinement
  `ImplementsLifecycle`: initial states map to initial states, every step to a step or a stutter);
* with a working log directory: `StaleProcessesDie` (`[]StaleProcessIsDoomed`).

The hypotheses are those under which the statements hold; section 4 says what happens otherwise.
The inductive invariant is `StatusInv`. Its heart is `Driven(a)`: a task that can still
run its own code and that nobody has cancelled is the driver of its own record, which is in progress, and exactly the
commands before the one it is at have succeeded. This is why the status tests before an await are not
stale after it: whoever ends an operation from outside also cancels its task, before any
other code runs. `HostInv` excludes leftovers (a task not created has run nothing; only unfinished tasks
are to be cancelled; a server that is down has no records). `StatusWrites` lists the steps that write a status,
from which finality and the refinement follow. `ProcInv` adds, for a subprocess,
who is certain to kill it: the task at its await, the pending timer, or a SIGKILL already sent.

`LogStreamProofs` proves, for any number of clients and any sizes of buffer and queues:
`StreamTypeCorrect` (`[]TypeOK`), `SentinelIsKept` (`[]SentinelKept`), `LinesArriveInOrder`
(`[]InOrder`) and `LossIsAlwaysAccounted` (`[]LossIsAccounted`). All follow from `StreamInv`: what was
sent, what is left of the snapshot and what is queued are each in order and follow each other (`OrderOK`,
which needs that the buffer holds the last lines, `BufferOK`); behind the sentinel there is at most one item, the
completion line or, if that line raised, the second sentinel of `_fail_pipeline` (`SentinelOK`), so that a queue of two cannot
push the last sentinel out (`KeptOK`, which exempts an operation whose end was never published: `EndingOK` says that this
takes an `append_log` that raised on the last line); and a client
without overflow has, from its first line on, no gap but lines that were not published or that the drain skips (`NoGap`).
The proofs follow the code: `WriteStep` and `WriteTwoStep` say what buffering does to the record, `PublisherStep` what
a publisher may put into a queue, `ClientHears` what that preserves, and `PushShape` and its companions what an append to a full deque does.

`PodIPAMProofs` proves from `IPAMConstants`, for all pods, annotations, networks and any
interleaving of admissions with a cache that lags arbitrarily: `IPAMTypeCorrect`
(`[]TypeOK`), `AllocationIsNeverReserved` (`[]NeverReserved`), `OwnAddressesDiffer`
(`[]OwnAddressesDistinct`) and the action property `OnlyUnseenPodsClash` (`OnlyUnseenClash`). `IPAMInv` says, pod by pod, that every address
of the Multus list is in `inUseSet` (`HandlerOK`: without it a second interface could be given an address the
pod brought itself), and of every pair of a running handler and a stored pod it could know that the cache
shows the pod as it is and that nothing allocated belongs to it (`KnownOK`). `AllocateGrants` is the
specification of `allocateSecondaryIP`; it rests on `MinInSet` (a set of
naturals has a least element, from well-foundedness) and `SubnetType` (powers of two are positive). `MergedChanges` says
that an iteration of the merge loop changes one entry of the list.

`NetworkReconcilerProofs` proves, for all namespaces, Services and configurations and any
number of faults and changes, from the assumption `NetworkConstants`:

* `NetworkTypeCorrect`: `Spec => []TypeOK`;
* `ChildrenAreGuarded`: `Spec => []ChildrenGuarded`;
* `NoChildOutlivesItsNetwork`: `Spec => NoPosthumousChild`, an action property;
* `BindingIsPermitted`: `Spec => []BoundWasPermitted`;
* `ReadyMeansApplied`: `Spec => ReadyIsEarned`, an action property.

The first three follow from `GuardInv`. `ChildrenGuarded` alone is not inductive: a reconcile
works from a copy, so one needs that past `EnsureFinalizer` the Network it read still exists
and has the finalizer (`HeldOK`; it stays because a deleted object waits for its finalizer,
which only a clean-up removes, and a clean-up is another reconcile), that a Network being
deleted has the finalizer (`DeletingOK`), and that no child is younger than the last Network,
so that a new one starts without children (`OwnersOK`). `BindingIsPermitted` needs
`PermitInv`: the copy is a version the Network had, and what is left to bind is what that
version allows. `ReadyMeansApplied` needs `EarnedOK`: while a reconcile has met no error, what it wants and
has not applied is what it still comes to, step by step.

`GatewayReconcilerProofs` proves, for all networks, pods, selectors and specifications and any number
of faults and changes, from the assumption `GatewayConstants`:

* `GatewayTypeCorrect`: `Spec => []TypeOK`;
* `GatewayChildrenGuarded`: `Spec => []ChildrenGuarded`;
* `GatewaySliceOnOneNetwork`: `Spec => []SliceOnOneNetwork`.

All follow from its `GuardInv`. Beyond `TypeOK` and the two invariants it says that a reconcile that is
about to add the finalizer has read a Gateway (`Started`); that while the copy of a reconcile has the
finalizer, so has the Gateway, whatever was edited (`Held`: only a clean-up removes
it, and a clean-up is another reconcile); that a Gateway being deleted has the finalizer and an absent one has
none (`PhaseOK`); that a clean-up that got past a Delete left no
child but the leaked ones (`Cleaned`); and that the endpoints collected so far are of the network of
the copy (`Collected`). Without `Held`, `Apply` could create a child after the Gateway was
gone; without `Cleaned`, `RemoveFinalizer` could abandon one.

`GcpTargetProofs` proves from `TargetConstants`, for all texts, requests and defaults:

* `AcceptedZoneHasItsRegion`: an accepted request with a zone carries the region of that zone;
* `AcceptedIsNeverSwapped`: the runner keeps the zone that was validated; its swapping of zone and
  region never applies to an accepted request;
* `FqdnFitsWhereItRuns`: the limit on node names holds for the project and zone the commands get;
* `RegionMismatchIsExactlyRegionOnly`: zone and region of an operation disagree exactly for a request
  with a region and no zone whose region is not that of the default zone.

`WorkloadsProofs` proves from `WorkloadConstants`, for any number of requests, clusters and objects:
`WorkloadTypeCorrect` (`[]TypeOK`), `SuccessIsTrue` (`[]SuccessMeansDone`), `RefusalIsFinal`
(`[]RefusalIsDefinite`), `LeftoversAreKilled` (`[]LeftoverIsKilled`), `WritesAreRead` (`[]ReadYourWrites`) and `NothingIsResurrected` (`[]NoResurrection`).
`WorkloadInv` has three layers. `RequestOK` ties the handler, the process, its reply and the answer of one request to
what it changed (a request that may still be served has no answer but 502). `StoreOK`, `UidOK`, `CreatedOK`, `EndingOK` and
`KeptOK` say that the uids of an object name only grow and that whatever exists, goes or is gone does so because of a request. `GoneOK`, `BeforeOK` and
`ListOK` carry the order of answers over to the objects: a delete that reported success has outlived its object, and
what a request finds is no older than what those answered before it left.

Only model-checked: liveness (`OperationEnds`, `CancelStopsProcess`, `StreamEnds`, `Converges`,
`DeletionCompletes`, `EveryRequestAnswered`), which is out of reach of the prover, as are ENABLED, RECURSIVE
operators and induction over data. Every invariant and every action property that a passing run
checks is stated by a theorem; the five that are proved under `QuietRequests` or with a working log directory are checked
by the run `Operations`, which satisfies both.

## 6. Plan

1. The safety half of the liveness arguments, without ENABLED: in every state in which an
   operation, a stream or a request has not ended, the guard of some fair step holds.
2. The life cycle of a cluster build with a broken log directory: which statuses can be wrong, and for how long.

Not modelled, and why:

* Webhook certificates (`webhook.go`): generated and registered once at start-up, no later state.
* Cloud Build (`cloudbuild/`): a fixed list of shell steps; what could be shared with the API, the
  Terraform state and its lock, is held by Terraform.
* Overlay sync (`scripts/cron-overlay-sync.sh`): a script around `gcloud storage rsync` and
  systemd-networkd, whose behaviour decides what happens. Its hazards are listed.
* Constraints on single fields of a request (sizes, versions, CIDRs, names): string
  processing without interplay.
* A second Gateway, and cancellation of requests by clients (see 2.5 and 2.6).
* Terraform and Ansible code: external; commands that succeed or fail.
