------------------------- MODULE OperationLifecycle -------------------------
(***************************************************************************)
(* What a client of the GEM REST API is promised about one resource: the   *)
(* status that GET /operations/{name} reports for it.                      *)
(*                                                                         *)
(* A resource has at most one operation in progress; an operation starts   *)
(* QUEUED, may only succeed from RUNNING, and a status that ends an        *)
(* operation stays until the next operation of the same resource is        *)
(* accepted.  Operation records live in server memory only                 *)
(* (docs/gem-api.md, "Operation state is in memory"), so a restart makes   *)
(* every resource unknown again.                                           *)
(***************************************************************************)
CONSTANT Names      \* resource names, which are also the operation ids

VARIABLE phase      \* phase[n]: the status reported for n, or "UNKNOWN" (404)

ActiveStatuses == {"QUEUED", "RUNNING"}

TerminalStatuses == {"SUCCEEDED", "FAILED", "CANCELLED"}

PhaseOK ==
    phase \in [Names -> {"UNKNOWN"} \cup ActiveStatuses \cup TerminalStatuses]

LifecycleInit == phase = [n \in Names |-> "UNKNOWN"]

Accept(n) ==            \* 202 Accepted
    /\ phase[n] \notin ActiveStatuses
    /\ phase' = [phase EXCEPT ![n] = "QUEUED"]

Run(n) ==               \* the first command of the pipeline
    /\ phase[n] = "QUEUED"
    /\ phase' = [phase EXCEPT ![n] = "RUNNING"]

Succeed(n) ==
    /\ phase[n] = "RUNNING"
    /\ phase' = [phase EXCEPT ![n] = "SUCCEEDED"]

Abort(n) ==             \* a failed command or a cancellation
    /\ phase[n] \in ActiveStatuses
    /\ \E s \in {"FAILED", "CANCELLED"} : phase' = [phase EXCEPT ![n] = s]

Forget ==               \* the server process ends
    phase' = [n \in Names |-> "UNKNOWN"]

LifecycleNext ==
    \/ Forget
    \/ \E n \in Names : Accept(n) \/ Run(n) \/ Succeed(n) \/ Abort(n)

LifecycleSpec == LifecycleInit /\ [][LifecycleNext]_phase
=============================================================================
