------------------------------- MODULE Adapters -------------------------------
(***************************************************************************)
(* The executing adapters behind the router: submit() and status() of      *)
(* providers/local.py, local_cpu.py, rtm_idle.py, llama_cpp.py,            *)
(* remote_node.py, huggingface.py and gpu_lease.py, called by drivers that *)
(* take one job each from dispatch() and hand it to the provider chosen.   *)
(* Between the choice and the call, and while a call is out, the operator  *)
(* may switch and register providers.  (mrr.py is module Mrr.)             *)
(*                                                                         *)
(* The scheduler gives out each job once (Scheduler!ExactlyOnce), so here  *)
(* a job waits, is chosen once, and then has whatever fate submit() gives  *)
(* it: what raises out of submit() is not queued again by anybody.         *)
(***************************************************************************)
EXTENDS Router, Sequences, FiniteSets

CONSTANTS
    Founding,      \* providers registered before the drivers start
    Drivers,       \* threads that dispatch and submit
    Kind,          \* [Providers -> Kinds]: the class of each provider object
    Built,         \* [Providers -> ComputeUnits]: the capacity each was built with
    Accepts,       \* [Providers -> SUBSET Jobs]: payloads submit() takes
    IdleJobs,      \* the jobs whose priority is IDLE
    MaxWorkers     \* [Providers -> Nat]: the size of each thread pool

Kinds == {"local", "local_cpu", "rtm_idle", "llama_cpp",
          "remote_node", "huggingface", "gpu_lease"}

Pooled == {"local_cpu", "rtm_idle"}          \* work goes to threads
Spawning == {"llama_cpp", "remote_node"}     \* work is a subprocess
Remote == {"huggingface", "gpu_lease"}       \* work is a request
Gated == {"remote_node"} \cup Remote         \* ship disabled, and ask again in submit()

ASSUME AdaptersAssumption ==
    /\ Founding \subseteq Providers
    /\ \A p \in Founding :
          /\ DOMAIN Advertised[p] \subseteq Lane[p]
          /\ \A q \in Founding : ProviderId[p] = ProviderId[q] => p = q
    /\ Kind \in [Providers -> Kinds]
    /\ Built \in [Providers -> ComputeUnits]
    /\ \A p \in Providers :
          \A c \in DOMAIN Advertised[p] : Advertised[p][c] = Built[p]
    /\ Accepts \in [Providers -> SUBSET Jobs]
    /\ IdleJobs \subseteq Jobs
    /\ MaxWorkers \in [Providers -> Nat \ {0}]

VARIABLES
    task,          \* what each driver is doing
    handles,       \* the handles given out, with what is kept under each
    shut,          \* pools whose shutdown() has been called ...
    drained,       \*   ... and those where it has returned
    fate,          \* history: what became of each job
    started,       \* history: how often the work of each job was begun
    grace          \* history: drivers past submit()'s checks when the gate was shut

adapterVars == <<task, handles, shut, drained, fate, started, grace>>
vars == <<registryVars, adapterVars>>

Task == [point : {"chosen", "checked", "out"}, job : Jobs, provider : Providers]
NoTask == [point |-> "idle"]

Final == {"complete", "failed"}
Handle ==
    [provider : Providers, job : Jobs, status : {"queued", "running"} \cup Final]

TypeOK ==
    /\ RegistryTypeOK
    /\ task \in [Drivers -> Task \cup {NoTask}]
    /\ handles \in Seq(Handle)
    /\ shut \subseteq Providers
    /\ drained \subseteq Providers
    /\ fate \in [Jobs -> {"waiting", "held", "handled", "refused", "lost"}]
    /\ started \in [Jobs -> Nat]
    /\ grace \subseteq Drivers

Init ==
    /\ RegistryWith(Founding)
    /\ task = [d \in Drivers |-> NoTask]
    /\ handles = <<>>
    /\ shut = {}
    /\ drained = {}
    /\ fate = [j \in Jobs |-> "waiting"]
    /\ started = [j \in Jobs |-> 0]
    /\ grace = {}

-------------------------------------------------------------------------------
(* dispatch() hands job and provider to a driver. *)
Choose(d, j) ==
    /\ task[d] = NoTask
    /\ fate[j] = "waiting"
    /\ ~PricingRaises(j)
    /\ \E p \in Cheapest(j) :
          task' = [task EXCEPT ![d] = [point |-> "chosen", job |-> j, provider |-> p]]
    /\ fate' = [fate EXCEPT ![j] = "held"]
    /\ UNCHANGED <<registryVars, handles, shut, drained, started, grace>>

(* submit() compares with the capacity the adapter was built with, whatever *)
(* capability the job asks for.                                            *)
FitsAdapter(p, j) == FitsWithin(Requirements[j], Built[p])

(* Defect: submit() relies on the router's reading of the switch. *)
AdmitsUngated(p, j) == j \in Accepts[p]

(* What submit() of each class checks before it does anything. *)
AdmitsStub(p, j) == FitsAdapter(p, j)
AdmitsWorkload(p, j) == FitsAdapter(p, j) /\ j \in Accepts[p] /\ p \notin shut
AdmitsIdle(p, j) == j \in IdleJobs /\ AdmitsWorkload(p, j)
AdmitsPrompt(p, j) == FitsAdapter(p, j) /\ j \in Accepts[p]
AdmitsGated(p, j) == p \in enabled /\ FitsAdapter(p, j) /\ j \in Accepts[p]
AdmitsHosted(p, j) == p \in enabled /\ j \in Accepts[p]

Admits(p, j) ==
    CASE Kind[p] = "local" -> AdmitsStub(p, j)
      [] Kind[p] = "local_cpu" -> AdmitsWorkload(p, j)
      [] Kind[p] = "rtm_idle" -> AdmitsIdle(p, j)
      [] Kind[p] = "llama_cpp" -> AdmitsPrompt(p, j)
      [] Kind[p] \in {"remote_node", "gpu_lease"} -> AdmitsGated(p, j)
      [] Kind[p] = "huggingface" -> AdmitsHosted(p, j)

Chosen(d) == task[d].point = "chosen"
Checked(d) == task[d].point = "checked"
Out(d) == task[d].point = "out"

(* The driver's call of submit() ends, with this fate of the job. *)
EndCall(d, end) ==
    /\ task' = [task EXCEPT ![d] = NoTask]
    /\ fate' = [fate EXCEPT ![task[d].job] = end]
    /\ grace' = grace \ {d}

Give(d, status) ==
    handles' = Append(handles,
        [provider |-> task[d].provider, job |-> task[d].job, status |-> status])

Starts(j) == started' = [started EXCEPT ![j] = @ + 1]

(* submit() raises on one of its checks, or, past them, while the request or *)
(* the command is put together: token_provider() raises, or a payload that *)
(* json cannot encode, or a binary that is not there.                      *)
Refuse(d) ==
    /\ \/ Chosen(d) /\ ~Admits(task[d].provider, task[d].job)
       \/ Checked(d)
    /\ EndCall(d, "refused")
    /\ UNCHANGED <<registryVars, handles, shut, drained, started>>

(* local.py keeps the job as running and does nothing with it. *)
Keep(d) ==
    /\ Chosen(d)
    /\ Kind[task[d].provider] = "local"
    /\ Admits(task[d].provider, task[d].job)
    /\ Give(d, "running")
    /\ EndCall(d, "handled")
    /\ UNCHANGED <<registryVars, shut, drained, started>>

(* local_cpu.py and rtm_idle.py hand the workload to their thread pool. *)
Enqueue(d) ==
    /\ Chosen(d)
    /\ Kind[task[d].provider] \in Pooled
    /\ Admits(task[d].provider, task[d].job)
    /\ Give(d, "queued")
    /\ EndCall(d, "handled")
    /\ UNCHANGED <<registryVars, shut, drained, started>>

(* submit() of the others is past its checks, the gate among them: enabled  *)
(* is not read again.                                                      *)
Check(d) ==
    /\ Chosen(d)
    /\ Kind[task[d].provider] \in Spawning \cup Remote
    /\ Admits(task[d].provider, task[d].job)
    /\ task' = [task EXCEPT ![d].point = "checked"]
    /\ UNCHANGED <<registryVars, handles, shut, drained, fate, started, grace>>

(* The subprocess is spawned, or the request leaves. *)
Leave(d) ==
    /\ Checked(d)
    /\ task' = [task EXCEPT ![d].point = "out"]
    /\ Starts(task[d].job)
    /\ UNCHANGED <<registryVars, handles, shut, drained, fate, grace>>

(* Defect: the answer is not stored, and status() does not know the handle. *)
ComeBackUnstored(d) ==
    /\ Out(d)
    /\ Give(d, "unknown")
    /\ EndCall(d, "handled")
    /\ UNCHANGED <<registryVars, shut, drained, started>>

(* The subprocess ends with some exit code, or the answer arrives; a        *)
(* request that was answered counts as complete.                           *)
ComeBack(d) ==
    /\ Out(d)
    /\ \E status \in Final :
          /\ Kind[task[d].provider] \in Remote => status = "complete"
          /\ Give(d, status)
    /\ EndCall(d, "handled")
    /\ UNCHANGED <<registryVars, shut, drained, started>>

(* Defect: a failed call is made once more. *)
CallFailsAndRetries(d) ==
    /\ Out(d)
    /\ task' = [task EXCEPT ![d].point = "checked"]
    /\ UNCHANGED <<registryVars, handles, shut, drained, fate, started, grace>>

(* TimeoutExpired, HTTPError, a lost connection: raised with no handle,     *)
(* whatever has been done out there.                                       *)
CallFails(d) ==
    /\ Out(d)
    /\ EndCall(d, "lost")
    /\ UNCHANGED <<registryVars, handles, shut, drained, started>>

-------------------------------------------------------------------------------
(* ThreadPoolExecutor: workers take the oldest queued workload. *)
Pools == {p \in Providers : Kind[p] \in Pooled}

Of(p, status) ==
    {n \in DOMAIN handles : handles[n].provider = p /\ handles[n].status = status}

SetStatus(n, status) == handles' = [handles EXCEPT ![n].status = status]

WorkBegins(p) ==
    /\ Cardinality(Of(p, "running")) < MaxWorkers[p]
    /\ \E n \in Of(p, "queued") :
          /\ \A m \in Of(p, "queued") : n <= m
          /\ SetStatus(n, "running")
          /\ Starts(handles[n].job)
    /\ UNCHANGED <<registryVars, task, shut, drained, fate, grace>>

(* The workload returns or raises. *)
WorkEnds(p) ==
    /\ \E n \in Of(p, "running"), status \in Final : SetStatus(n, status)
    /\ UNCHANGED <<registryVars, task, shut, drained, fate, started, grace>>

(* shutdown(wait=True): no new work, and the call waits for the old.        *)
Shutdown(p) ==
    /\ p \notin shut
    /\ shut' = shut \cup {p}
    /\ UNCHANGED <<registryVars, task, handles, drained, fate, started, grace>>

(* Defect: shutdown() waits for what runs and leaves what is queued. *)
ShutdownReturnsEarly(p) ==
    /\ p \in shut \ drained
    /\ Of(p, "running") = {}
    /\ drained' = drained \cup {p}
    /\ UNCHANGED <<registryVars, task, handles, shut, fate, started, grace>>

ShutdownReturns(p) ==
    /\ p \in shut \ drained
    /\ Of(p, "queued") \cup Of(p, "running") = {}
    /\ drained' = drained \cup {p}
    /\ UNCHANGED <<registryVars, task, handles, shut, fate, started, grace>>

Checking(p) == {d \in Drivers : Checked(d) /\ task[d].provider = p}

(* The operator may register a provider or turn its switch at any moment; a *)
(* switch turned off lets the calls go on that are past their checks.       *)
Operate ==
    /\ \E p \in Providers :
          \/ Register(p) /\ UNCHANGED grace
          \/ /\ SetEnabled(p)
             /\ grace' = IF p \in enabled THEN grace \cup Checking(p)
                         ELSE grace \ Checking(p)
    /\ UNCHANGED <<task, handles, shut, drained, fate, started>>

DriverStep(d) ==
    \/ \E j \in Jobs : Choose(d, j)
    \/ Refuse(d) \/ Keep(d) \/ Enqueue(d)
    \/ Check(d) \/ Leave(d) \/ ComeBack(d) \/ CallFails(d)

(* What the worker threads of a pool, and a shutdown() waiting for them, do. *)
PoolStep(p) == WorkBegins(p) \/ WorkEnds(p) \/ ShutdownReturns(p)

Next ==
    \/ \E d \in Drivers : DriverStep(d)
    \/ \E p \in Pools : PoolStep(p) \/ Shutdown(p)
    \/ Operate

Spec == Init /\ [][Next]_vars

-------------------------------------------------------------------------------
(* What status() of provider p makes of the n-th handle: it refuses a handle *)
(* with another provider's id, or does not know it, or tells.              *)
Owns(p, n) == handles[n].provider = p
Addressed(p, n) == ProviderId[p] = ProviderId[handles[n].provider]

StubStatus(p, n) == IF Addressed(p, n) /\ Owns(p, n) THEN "running" ELSE "raises"

WorkloadStatus(p, n) ==
    IF ~Addressed(p, n) \/ ~Owns(p, n) THEN "raises"
    ELSE IF handles[n].status \in Final THEN handles[n].status ELSE "running"

ProcessStatus(p, n) ==
    IF Addressed(p, n) /\ Owns(p, n) THEN handles[n].status ELSE "raises"

RequestStatus(p, n) == IF Owns(p, n) THEN "complete" ELSE "unknown"

Status(p, n) ==
    CASE Kind[p] = "local" -> StubStatus(p, n)
      [] Kind[p] \in Pooled -> WorkloadStatus(p, n)
      [] Kind[p] \in Spawning -> ProcessStatus(p, n)
      [] Kind[p] \in Remote -> RequestStatus(p, n)

Registered(id) == {p \in {e.provider : e \in entries} : ProviderId[p] = id}

(* A handle carries an id, not an object.  Whoever holds one finds a        *)
(* provider by that id, at any later time, and whichever one that is, it    *)
(* tells what became of the job and does not disown the handle.            *)
HandleFindsItsProvider ==
    \A n \in DOMAIN handles :
        LET asked == Registered(ProviderId[handles[n].provider]) IN
        /\ asked # {}
        /\ \A p \in asked :
              Status(p, n) = IF handles[n].status = "queued" THEN "running"
                             ELSE handles[n].status

HandlesOf(j) == {n \in DOMAIN handles : handles[n].job = j}
CallsOut(j) == {d \in Drivers : Out(d) /\ task[d].job = j}
Begun(j) ==
    {n \in HandlesOf(j) :
        /\ Kind[handles[n].provider] # "local"
        /\ handles[n].status # "queued"}

(* A job has a handle exactly when its call returned one, and every start of *)
(* its work is visible in one place: a call that is out, a handle past the  *)
(* queue, or a call that failed with nothing to show.  So no job is worked  *)
(* on twice, and a refused one has no handle and has not been touched.     *)
WorkAccounted ==
    \A j \in Jobs :
        /\ Cardinality(HandlesOf(j)) = IF fate[j] = "handled" THEN 1 ELSE 0
        /\ started[j] = Cardinality(CallsOut(j)) + Cardinality(Begun(j))
                        + (IF fate[j] = "lost" THEN 1 ELSE 0)
        /\ started[j] <= 1

(* shutdown(wait=True) against drivers that keep choosing the pool: when it *)
(* has returned, nothing is queued or running in it, then or later, and all *)
(* it had accepted has an outcome.                                         *)
ShutdownDrains ==
    \A p \in drained : Of(p, "queued") \cup Of(p, "running") = {}

(* A provider that has been switched off gets no more work, but for the      *)
(* calls of submit() that were past their checks when it was: each of them  *)
(* may still go, once, and no call that began later does, whatever the      *)
(* router had chosen before.                                                *)
ShutGateHolds ==
    [][\A d \in Drivers :
          (/\ Out(d)' /\ ~Out(d)
           /\ Kind[task[d].provider] \in Gated
           /\ task[d].provider \notin enabled) => d \in grace]_vars
===============================================================================
