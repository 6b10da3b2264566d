---------------------------- MODULE AdaptersProofs ----------------------------
(***************************************************************************)
(* Proofs about the executing adapters, for every set of providers, jobs   *)
(* and drivers, every assignment of classes to providers and every history *)
(* of switches and registrations.                                          *)
(***************************************************************************)
EXTENDS Adapters, SequenceTheorems, FiniteSetTheorems, TLAPS

(***************************************************************************)
(* The inductive invariant, part by part.                                  *)
(***************************************************************************)
Serving == {e.provider : e \in entries}

(* An id in the registry belongs to one provider object. *)
IdsUnique ==
    /\ \A f \in entries : ProviderId[f.provider] \in providerIds
    /\ \A f, g \in entries :
          ProviderId[f.provider] = ProviderId[g.provider] => f.provider = g.provider

Busy(d) == task[d] # NoTask

(* A driver holds a job that nobody else holds, on its way to a provider    *)
(* that is in the registry; only subprocesses and requests are ever out.   *)
CallsSound ==
    \A d \in Drivers : Busy(d) =>
        /\ task[d].provider \in Serving
        /\ fate[task[d].job] = "held"
        /\ \A c \in Drivers : Busy(c) /\ task[c].job = task[d].job => c = d
        /\ Checked(d) \/ Out(d) => Kind[task[d].provider] \in Spawning \cup Remote

(* What each class of provider may have kept under a handle. *)
StatusOfItsKind(p, status) ==
    /\ Kind[p] = "local" => status = "running"
    /\ Kind[p] \in Spawning => status \in Final
    /\ Kind[p] \in Remote => status = "complete"

HandlesSound ==
    /\ \A n \in DOMAIN handles :
          /\ handles[n].provider \in Serving
          /\ fate[handles[n].job] = "handled"
          /\ StatusOfItsKind(handles[n].provider, handles[n].status)
    /\ \A m, n \in DOMAIN handles : handles[m].job = handles[n].job => m = n
    /\ \A j \in Jobs : fate[j] = "handled" =>
          \E n \in DOMAIN handles : handles[n].job = j

(* How often the work of a job was begun, told from where the job is. *)
Worked(n) == Kind[handles[n].provider] # "local" /\ handles[n].status # "queued"

WorkSound ==
    /\ \A j \in Jobs :
          /\ fate[j] \in {"waiting", "refused"} => started[j] = 0
          /\ fate[j] = "lost" => started[j] = 1
    /\ \A d \in Drivers :
          Busy(d) => started[task[d].job] = IF Out(d) THEN 1 ELSE 0
    /\ \A n \in DOMAIN handles :
          started[handles[n].job] = IF Worked(n) THEN 1 ELSE 0

(* A driver has every job that is neither waiting nor ended. *)
HeldSomewhere ==
    \A j \in Jobs : fate[j] = "held" => \E d \in Drivers : Busy(d) /\ task[d].job = j

PoolsSound ==
    /\ drained \subseteq shut
    /\ shut \subseteq Pools
    /\ ShutdownDrains

(* What a shut gate has not stopped was past it already. *)
GraceSound ==
    \A d \in Drivers :
        (/\ Checked(d)
         /\ Kind[task[d].provider] \in Gated
         /\ task[d].provider \notin enabled) => d \in grace

AdaptersInv ==
    /\ TypeOK
    /\ IdsUnique
    /\ CallsSound
    /\ HandlesSound
    /\ HeldSomewhere
    /\ WorkSound
    /\ PoolsSound
    /\ GraceSound

-------------------------------------------------------------------------------
(***************************************************************************)
(* Facts about the operators of the model.                                 *)
(***************************************************************************)
LEMMA CheapestAreServing ==
    ASSUME RegistryTypeOK, NEW j \in Jobs
    PROVE  Cheapest(j) \subseteq Serving \cap Providers
BY DEF Cheapest, Candidates, Lookup, Serving, RegistryTypeOK, CapabilityEntry

LEMMA EntriesOfTyped ==
    ASSUME NEW p \in Providers
    PROVE  EntriesOf(p) \subseteq CapabilityEntry
BY ProvidersAssumption DEF EntriesOf, CapabilityEntry

LEMMA BusyTask ==
    ASSUME TypeOK, NEW d \in Drivers, Busy(d)
    PROVE  /\ task[d] \in Task
           /\ task[d].provider \in Providers
           /\ task[d].job \in Jobs
           /\ Chosen(d) \/ Checked(d) \/ Out(d)
           /\ ~((Chosen(d) \/ Checked(d)) /\ Out(d))
BY DEF TypeOK, Busy, Task, Chosen, Checked, Out

LEMMA ActiveIsBusy ==
    ASSUME NEW d \in Drivers, Chosen(d) \/ Checked(d) \/ Out(d)
    PROVE  Busy(d)
BY DEF Busy, NoTask, Chosen, Checked, Out

(* submit() appends one handle and touches none of the others. *)
LEMMA GiveAppends ==
    ASSUME TypeOK, NEW d \in Drivers, Busy(d),
           NEW status \in {"queued", "running"} \cup Final, Give(d, status)
    PROVE  /\ handles' \in Seq(Handle)
           /\ Len(handles) + 1 \notin DOMAIN handles
           /\ DOMAIN handles' = DOMAIN handles \cup {Len(handles) + 1}
           /\ \A n \in DOMAIN handles : handles'[n] = handles[n]
           /\ handles'[Len(handles) + 1] =
                [provider |-> task[d].provider, job |-> task[d].job, status |-> status]
<1> DEFINE h == [provider |-> task[d].provider, job |-> task[d].job, status |-> status]
<1>1. h \in Handle
  BY BusyTask DEF Handle
<1>2. handles \in Seq(Handle) /\ handles' = Append(handles, h)
  BY DEF TypeOK, Give
<1> HIDE DEF h
<1>3. /\ handles' \in Seq(Handle)
      /\ Len(handles') = Len(handles) + 1
      /\ \A n \in 1..Len(handles) : handles'[n] = handles[n]
      /\ handles'[Len(handles) + 1] = h
  BY <1>1, <1>2, AppendProperties
<1>4. /\ Len(handles) \in Nat
      /\ DOMAIN handles = 1..Len(handles)
      /\ DOMAIN handles' = 1..Len(handles')
  BY <1>2, <1>3, LenProperties
<1> QED BY <1>3, <1>4 DEF h

(* A pool thread changes the status of one handle and nothing else. *)
LEMMA SetStatusKeeps ==
    ASSUME TypeOK, NEW n \in DOMAIN handles,
           NEW status \in {"queued", "running"} \cup Final, SetStatus(n, status)
    PROVE  /\ handles' \in Seq(Handle)
           /\ DOMAIN handles' = DOMAIN handles
           /\ \A m \in DOMAIN handles :
                 /\ handles'[m].provider = handles[m].provider
                 /\ handles'[m].job = handles[m].job
                 /\ handles'[m].status = IF m = n THEN status ELSE handles[m].status
<1> DEFINE h == [handles[n] EXCEPT !.status = status]
<1>1. /\ handles \in Seq(Handle)
      /\ DOMAIN handles = 1..Len(handles)
      /\ \A m \in DOMAIN handles : handles[m] \in Handle
  BY LenProperties DEF TypeOK
<1>2. /\ h \in Handle
      /\ h.provider = handles[n].provider
      /\ h.job = handles[n].job
      /\ h.status = status
  BY <1>1 DEF Handle
<1>3. handles' = [handles EXCEPT ![n] = h]
  BY DEF SetStatus
<1> HIDE DEF h
<1>4. handles' \in Seq(Handle)
  BY <1>1, <1>2, <1>3, ExceptSeq
<1>5. DOMAIN handles' = DOMAIN handles
  BY <1>3
<1>6. \A m \in DOMAIN handles : handles'[m] = IF m = n THEN h ELSE handles[m]
  BY <1>3
<1> QED BY <1>2, <1>4, <1>5, <1>6

-------------------------------------------------------------------------------
(***************************************************************************)
(* The steps, told by what they do to the jobs: the case split every proof *)
(* below goes by.                                                          *)
(***************************************************************************)
Gives(d, status) ==
    /\ Give(d, status)
    /\ EndCall(d, "handled")
    /\ UNCHANGED <<registryVars, shut, drained, started>>
    /\ \/ /\ Chosen(d) /\ status = "running"
          /\ Kind[task[d].provider] = "local"
       \/ /\ Chosen(d) /\ status = "queued"
          /\ Kind[task[d].provider] \in Pooled
          /\ task[d].provider \notin shut
       \/ /\ Out(d) /\ status \in Final
          /\ Kind[task[d].provider] \in Remote => status = "complete"

Drops(d, end) ==
    /\ EndCall(d, end)
    /\ UNCHANGED <<registryVars, handles, shut, drained, started>>
    /\ \/ (Chosen(d) \/ Checked(d)) /\ end = "refused"
       \/ Out(d) /\ end = "lost"

Moves(n, status) ==
    /\ Kind[handles[n].provider] \in Pooled
    /\ SetStatus(n, status)
    /\ UNCHANGED <<registryVars, task, shut, drained, fate, grace>>
    /\ \/ /\ handles[n].status = "queued" /\ status = "running"
          /\ Starts(handles[n].job)
       \/ /\ handles[n].status = "running" /\ status \in Final
          /\ UNCHANGED started

LEMMA AdmittedByAPool ==
    ASSUME NEW p, NEW j, Kind[p] \in Pooled, Admits(p, j)
    PROVE  p \notin shut
BY DEF Admits, AdmitsWorkload, AdmitsIdle, Pooled

LEMMA StepKinds ==
    ASSUME TypeOK, [Next]_vars
    PROVE  \/ \E d \in Drivers : \E j \in Jobs : Choose(d, j)
           \/ \E d \in Drivers : \E status \in {"queued", "running"} \cup Final :
                 Gives(d, status)
           \/ \E d \in Drivers : \E end \in {"refused", "lost"} : Drops(d, end)
           \/ \E d \in Drivers : Check(d) \/ Leave(d)
           \/ \E n \in DOMAIN handles : \E status \in {"running"} \cup Final :
                 Moves(n, status)
           \/ \E p \in Pools : Shutdown(p) \/ ShutdownReturns(p)
           \/ Operate
           \/ UNCHANGED vars
<1>1. ASSUME NEW d \in Drivers, DriverStep(d), ~\E j \in Jobs : Choose(d, j),
             ~Check(d), ~Leave(d)
      PROVE  \/ \E status \in {"queued", "running"} \cup Final : Gives(d, status)
             \/ \E end \in {"refused", "lost"} : Drops(d, end)
  <2>1. CASE Refuse(d)
    BY <2>1 DEF Refuse, Drops
  <2>2. CASE Keep(d)
    BY <2>2 DEF Keep, Gives
  <2>3. CASE Enqueue(d)
    BY <2>3, AdmittedByAPool DEF Enqueue, Gives
  <2>4. CASE ComeBack(d)
    BY <2>4 DEF ComeBack, Gives
  <2>5. CASE CallFails(d)
    BY <2>5 DEF CallFails, Drops
  <2> QED BY <1>1, <2>1, <2>2, <2>3, <2>4, <2>5 DEF DriverStep
<1>2. ASSUME NEW p \in Pools, WorkBegins(p) \/ WorkEnds(p)
      PROVE  \E n \in DOMAIN handles : \E status \in {"running"} \cup Final :
                Moves(n, status)
  BY <1>2 DEF WorkBegins, WorkEnds, Moves, Of, Pools
<1> QED BY <1>1, <1>2 DEF Next, PoolStep

(* Registration only ever adds; the switches leave the entries alone. *)
LEMMA OperateKeeps ==
    ASSUME RegistryTypeOK, IdsUnique, Operate
    PROVE  RegistryTypeOK' /\ IdsUnique' /\ Serving \subseteq Serving'
<1>1. PICK p \in Providers : Register(p) \/ SetEnabled(p)
  BY DEF Operate
<1>2. CASE SetEnabled(p)
  BY <1>2 DEF SetEnabled, RegistryTypeOK, IdsUnique, Serving
<1>3. CASE Register(p)
  <2>1. \A f \in EntriesOf(p) : f.provider = p
    BY DEF EntriesOf
  <2>2. \A f \in entries : ProviderId[f.provider] # ProviderId[p]
    BY <1>3 DEF Register, IdsUnique
  <2>3. \A f \in entries' : f \in entries \/ f \in EntriesOf(p)
    BY <1>3 DEF Register
  <2>4. providerIds \subseteq providerIds' /\ ProviderId[p] \in providerIds'
    BY <1>3 DEF Register
  <2>5. IdsUnique'
    BY <2>1, <2>2, <2>3, <2>4 DEF IdsUnique
  <2>6. RegistryTypeOK'
    BY <1>3, EntriesOfTyped, ProvidersAssumption DEF Register, RegistryTypeOK
  <2>7. Serving \subseteq Serving'
    BY <1>3 DEF Register, Serving
  <2> QED BY <2>5, <2>6, <2>7
<1> QED BY <1>1, <1>2, <1>3

LEMMA RegistryStep ==
    ASSUME TypeOK, IdsUnique, [Next]_vars
    PROVE  RegistryTypeOK' /\ IdsUnique' /\ Serving \subseteq Serving'
<1>1. CASE UNCHANGED registryVars
  BY <1>1 DEF registryVars, TypeOK, RegistryTypeOK, IdsUnique, Serving
<1>2. CASE Operate
  BY <1>2, OperateKeeps DEF TypeOK
<1> QED BY <1>1, <1>2, StepKinds DEF Choose, Gives, Drops, Check, Leave, Moves,
             Shutdown, ShutdownReturns, vars

LEMMA TypeStep ==
    ASSUME TypeOK, IdsUnique, [Next]_vars
    PROVE  TypeOK'
<1>0. RegistryTypeOK'
  BY RegistryStep
<1> USE DEF TypeOK
<1>1. ASSUME NEW d \in Drivers, NEW j \in Jobs, Choose(d, j) PROVE TypeOK'
  <2>1. PICK p \in Cheapest(j) :
           task' = [task EXCEPT ![d] = [point |-> "chosen", job |-> j, provider |-> p]]
    BY <1>1 DEF Choose
  <2>2. [point |-> "chosen", job |-> j, provider |-> p] \in Task
    BY CheapestAreServing DEF Task
  <2> QED BY <1>0, <1>1, <2>1, <2>2 DEF Choose
<1>2. ASSUME NEW d \in Drivers, NEW status \in {"queued", "running"} \cup Final,
             Gives(d, status)
      PROVE  TypeOK'
  <2>1. handles' \in Seq(Handle)
    BY <1>2, ActiveIsBusy, GiveAppends DEF Gives
  <2> QED BY <1>0, <1>2, <2>1 DEF Gives, EndCall
<1>3. ASSUME NEW d \in Drivers, NEW end \in {"refused", "lost"}, Drops(d, end)
      PROVE  TypeOK'
  BY <1>0, <1>3 DEF Drops, EndCall
<1>4. ASSUME NEW d \in Drivers, Check(d) \/ Leave(d) PROVE TypeOK'
  <2>1. task[d] \in Task /\ task[d].job \in Jobs
    BY <1>4, ActiveIsBusy, BusyTask DEF Check, Leave
  <2>2. /\ [task[d] EXCEPT !.point = "checked"] \in Task
        /\ [task[d] EXCEPT !.point = "out"] \in Task
    BY <2>1 DEF Task
  <2>3. task' \in [Drivers -> Task \cup {NoTask}]
    BY <1>4, <2>2 DEF Check, Leave
  <2>4. started' \in [Jobs -> Nat]
    BY <1>4, <2>1 DEF Check, Leave, Starts
  <2> QED BY <1>0, <1>4, <2>3, <2>4 DEF Check, Leave
<1>5. ASSUME NEW n \in DOMAIN handles, NEW status \in {"running"} \cup Final,
             Moves(n, status)
      PROVE  TypeOK'
  <2>1. handles' \in Seq(Handle)
    BY <1>5, SetStatusKeeps DEF Moves
  <2>2. started' \in [Jobs -> Nat]
    BY <1>5 DEF Moves, Starts
  <2> QED BY <1>0, <1>5, <2>1, <2>2 DEF Moves
<1>6. ASSUME NEW p \in Pools, Shutdown(p) \/ ShutdownReturns(p) PROVE TypeOK'
  BY <1>0, <1>6 DEF Shutdown, ShutdownReturns, Pools
<1>7. CASE Operate
  BY <1>0, <1>7 DEF Operate, Checking
<1>8. CASE UNCHANGED vars
  BY <1>0, <1>8 DEF vars, adapterVars
<1> QED BY <1>1, <1>2, <1>3, <1>4, <1>5, <1>6, <1>7, <1>8, StepKinds

-------------------------------------------------------------------------------
(***************************************************************************)
(* Calls: what the driver of a step does to its own task, the others'      *)
(* tasks untouched.                                                        *)
(***************************************************************************)
LEMMA TasksKept ==
    ASSUME TypeOK, CallsSound, Serving \subseteq Serving', task' = task, fate' = fate
    PROVE  CallsSound'
BY DEF CallsSound, Busy, Checked, Out

LEMMA CallEnds ==
    ASSUME TypeOK, CallsSound, Serving \subseteq Serving',
           NEW d \in Drivers, Busy(d), NEW end, EndCall(d, end)
    PROVE  CallsSound'
<1>1. ~Busy(d)' /\ \A c \in Drivers : c # d => task'[c] = task[c]
  BY DEF EndCall, TypeOK, Busy
<1>2. \A c \in Drivers : c # d /\ Busy(c) => task[c].job # task[d].job
  BY DEF CallsSound
<1>3. \A j \in Jobs : j # task[d].job => fate'[j] = fate[j]
  BY DEF EndCall, TypeOK
<1>4. \A c \in Drivers : Busy(c)' => Busy(c) /\ c # d /\ task'[c] = task[c]
  BY <1>1 DEF Busy
<1>5. ASSUME NEW c \in Drivers, Busy(c)'
      PROVE  fate'[task'[c].job] = "held"
  BY <1>2, <1>3, <1>4, <1>5, BusyTask DEF CallsSound
<1> QED BY <1>4, <1>5 DEF CallsSound, Checked, Out

LEMMA CallsStep ==
    ASSUME TypeOK, IdsUnique, CallsSound, [Next]_vars
    PROVE  CallsSound'
<1>0. Serving \subseteq Serving'
  BY RegistryStep
<1>1. ASSUME NEW d \in Drivers, NEW j \in Jobs, Choose(d, j) PROVE CallsSound'
  <2>1. PICK p \in Cheapest(j) :
           task' = [task EXCEPT ![d] = [point |-> "chosen", job |-> j, provider |-> p]]
    BY <1>1 DEF Choose
  <2>2. p \in Serving'
    BY <1>0, CheapestAreServing DEF TypeOK
  <2>3. /\ task'[d] = [point |-> "chosen", job |-> j, provider |-> p]
        /\ \A c \in Drivers : c # d => task'[c] = task[c]
    BY <2>1 DEF TypeOK
  <2>4. task'[d].job = j /\ task'[d].provider = p /\ ~Checked(d)' /\ ~Out(d)'
    BY <2>3 DEF Checked, Out
  <2>5. fate[j] = "waiting" /\ fate' = [fate EXCEPT ![j] = "held"]
    BY <1>1 DEF Choose
  <2>6. fate'[j] = "held" /\ \A i \in Jobs : i # j => fate'[i] = fate[i]
    BY <2>5 DEF TypeOK
  <2>7. \A c \in Drivers : Busy(c) => task[c].job # j
    BY <2>5 DEF CallsSound
  <2>8. \A c \in Drivers : Busy(c) => task[c].job \in Jobs
    BY BusyTask
  <2>9. ASSUME NEW c \in Drivers, Busy(c)', c # d
        PROVE  /\ task'[c].provider \in Serving'
               /\ fate'[task'[c].job] = "held"
               /\ task'[c].job # j
               /\ Checked(c)' \/ Out(c)' =>
                     Kind[task'[c].provider] \in Spawning \cup Remote
    <3>1. Busy(c) /\ task'[c] = task[c]
      BY <2>3, <2>9 DEF Busy
    <3> QED BY <1>0, <2>6, <2>7, <2>8, <3>1 DEF CallsSound, Checked, Out
  <2>10. ASSUME NEW b \in Drivers, NEW c \in Drivers, Busy(b)', Busy(c)',
                task'[b].job = task'[c].job
         PROVE  b = c
    <3>1. CASE b = d \/ c = d
      BY <2>4, <2>9, <2>10, <3>1
    <3>2. CASE b # d /\ c # d
      BY <2>3, <2>10, <3>2 DEF CallsSound, Busy
    <3> QED BY <3>1, <3>2
  <2> QED BY <2>2, <2>4, <2>6, <2>9, <2>10 DEF CallsSound
<1>2. ASSUME NEW d \in Drivers, NEW status, Gives(d, status) PROVE CallsSound'
  BY <1>0, <1>2, ActiveIsBusy, CallEnds DEF Gives
<1>3. ASSUME NEW d \in Drivers, NEW end, Drops(d, end) PROVE CallsSound'
  BY <1>0, <1>3, ActiveIsBusy, CallEnds DEF Drops
<1>4. ASSUME NEW d \in Drivers, Check(d) \/ Leave(d) PROVE CallsSound'
  <2>1. task[d] \in Task /\ Busy(d) /\ Kind[task[d].provider] \in Spawning \cup Remote
    BY <1>4, ActiveIsBusy, BusyTask DEF Check, Leave, CallsSound
  <2>2. /\ \A c \in Drivers : c # d => task'[c] = task[c]
        /\ task'[d].job = task[d].job
        /\ task'[d].provider = task[d].provider
    BY <1>4, <2>1 DEF Check, Leave, TypeOK, Task
  <2>3. \A c \in Drivers : Busy(c)' => Busy(c)
    BY <2>1, <2>2 DEF Busy
  <2>4. fate' = fate
    BY <1>4 DEF Check, Leave
  <2>5. \A c \in Drivers :
           task'[c].job = task[c].job /\ task'[c].provider = task[c].provider
    BY <2>2
  <2>6. ASSUME NEW c \in Drivers, Checked(c)' \/ Out(c)', Busy(c)
        PROVE  Kind[task[c].provider] \in Spawning \cup Remote
    BY <2>1, <2>2, <2>6 DEF CallsSound, Checked, Out
  <2> QED BY <1>0, <2>3, <2>4, <2>5, <2>6 DEF CallsSound
<1>5. ASSUME NEW n, NEW status, Moves(n, status) PROVE CallsSound'
  BY <1>0, <1>5, TasksKept DEF Moves
<1>6. ASSUME NEW p, Shutdown(p) \/ ShutdownReturns(p) PROVE CallsSound'
  BY <1>0, <1>6, TasksKept DEF Shutdown, ShutdownReturns
<1>7. CASE Operate \/ UNCHANGED vars
  BY <1>0, <1>7, TasksKept DEF Operate, vars, adapterVars
<1> QED BY <1>1, <1>2, <1>3, <1>4, <1>5, <1>6, <1>7, StepKinds

(* No job is held by nobody: a call that ends decides the job's fate. *)
LEMMA HeldStep ==
    ASSUME TypeOK, CallsSound, HeldSomewhere, [Next]_vars
    PROVE  HeldSomewhere'
<1> USE DEF HeldSomewhere
<1>1. CASE task' = task /\ fate' = fate
  BY <1>1 DEF Busy
<1>2. ASSUME NEW d \in Drivers, NEW j \in Jobs, Choose(d, j) PROVE HeldSomewhere'
  <2>1. PICK p \in Cheapest(j) :
           task' = [task EXCEPT ![d] = [point |-> "chosen", job |-> j, provider |-> p]]
    BY <1>2 DEF Choose
  <2>2. /\ task'[d] = [point |-> "chosen", job |-> j, provider |-> p]
        /\ \A c \in Drivers : c # d => task'[c] = task[c]
    BY <2>1 DEF TypeOK
  <2>3. task'[d].job = j /\ Busy(d)'
    BY <2>2 DEF Busy, NoTask
  <2>4. \A i \in Jobs : i # j => fate'[i] = fate[i]
    BY <1>2 DEF Choose, TypeOK
  <2>5. ~Busy(d)
    BY <1>2 DEF Choose, Busy
  <2> QED BY <2>2, <2>3, <2>4, <2>5 DEF Busy
<1>3. ASSUME NEW d \in Drivers, Busy(d), NEW end, end # "held", EndCall(d, end)
      PROVE  HeldSomewhere'
  <2>1. /\ \A c \in Drivers : c # d => task'[c] = task[c]
        /\ \A j \in Jobs : fate'[j] = IF j = task[d].job THEN end ELSE fate[j]
    BY <1>3 DEF EndCall, TypeOK
  <2> QED BY <1>3, <2>1 DEF Busy
<1>4. ASSUME NEW d \in Drivers, Check(d) \/ Leave(d) PROVE HeldSomewhere'
  <2>1. task[d] \in Task /\ Busy(d)
    BY <1>4, ActiveIsBusy, BusyTask DEF Check, Leave
  <2>2. /\ \A c \in Drivers : c # d => task'[c] = task[c]
        /\ task'[d].job = task[d].job /\ task'[d].point \in {"checked", "out"}
        /\ fate' = fate
    BY <1>4, <2>1 DEF Check, Leave, TypeOK, Task
  <2>3. \A c \in Drivers : Busy(c) => Busy(c)' /\ task'[c].job = task[c].job
    BY <2>2 DEF Busy, NoTask
  <2> QED BY <2>2, <2>3
<1>5. ASSUME NEW d \in Drivers, NEW status, Gives(d, status) PROVE HeldSomewhere'
  BY <1>3, <1>5, ActiveIsBusy DEF Gives
<1>6. ASSUME NEW d \in Drivers, NEW end, Drops(d, end) PROVE HeldSomewhere'
  BY <1>3, <1>6, ActiveIsBusy DEF Drops
<1> QED BY <1>1, <1>2, <1>4, <1>5, <1>6, StepKinds
      DEF Moves, Shutdown, ShutdownReturns, Operate, vars, adapterVars

-------------------------------------------------------------------------------
(***************************************************************************)
(* Handles: one for each job whose call returned, on a registered provider. *)
(***************************************************************************)
LEMMA HandlesTyped ==
    ASSUME TypeOK, NEW n \in DOMAIN handles
    PROVE  /\ handles[n] \in Handle
           /\ handles[n].provider \in Providers
           /\ handles[n].job \in Jobs
           /\ handles[n].status \in {"queued", "running"} \cup Final
<1>1. handles[n] \in Handle
  BY LenProperties DEF TypeOK
<1> QED BY <1>1 DEF Handle

(* A job whose fate changes is not handled, before or after. *)
LEMMA HandlesUntouched ==
    ASSUME TypeOK, HandlesSound, Serving \subseteq Serving', handles' = handles,
           \A j \in Jobs : fate[j] = "handled" <=> fate'[j] = "handled"
    PROVE  HandlesSound'
<1>1. \A n \in DOMAIN handles : handles[n].job \in Jobs
  BY HandlesTyped
<1> QED BY <1>1 DEF HandlesSound, StatusOfItsKind

LEMMA HandlesStep ==
    ASSUME TypeOK, IdsUnique, CallsSound, HandlesSound, [Next]_vars
    PROVE  HandlesSound'
<1>0. Serving \subseteq Serving'
  BY RegistryStep
<1>1. ASSUME NEW d \in Drivers, NEW j \in Jobs, Choose(d, j) PROVE HandlesSound'
  <2>1. handles' = handles /\ fate[j] = "waiting" /\ fate' = [fate EXCEPT ![j] = "held"]
    BY <1>1 DEF Choose
  <2> QED BY <1>0, <2>1, HandlesUntouched DEF TypeOK
<1>2. ASSUME NEW d \in Drivers, NEW status \in {"queued", "running"} \cup Final,
             Gives(d, status)
      PROVE  HandlesSound'
  <2>1. /\ Busy(d) /\ task[d].job \in Jobs /\ ~((Chosen(d) \/ Checked(d)) /\ Out(d))
        /\ task[d].provider \in Serving
        /\ fate[task[d].job] = "held"
    BY <1>2, ActiveIsBusy, BusyTask DEF Gives, CallsSound
  <2> DEFINE new == Len(handles) + 1
             h == [provider |-> task[d].provider, job |-> task[d].job, status |-> status]
  <2>2. /\ new \notin DOMAIN handles
        /\ DOMAIN handles' = DOMAIN handles \cup {new}
        /\ \A n \in DOMAIN handles : handles'[n] = handles[n]
        /\ handles'[new] = h
    BY <1>2, <2>1, GiveAppends DEF Gives
  <2>3. \A j \in Jobs : fate'[j] = IF j = task[d].job THEN "handled" ELSE fate[j]
    BY <1>2 DEF Gives, EndCall, TypeOK
  <2>4. \A n \in DOMAIN handles : handles[n].job \in Jobs /\ handles[n].job # task[d].job
    BY <2>1, HandlesTyped DEF HandlesSound
  <2>5. /\ h.provider = task[d].provider
        /\ h.job = task[d].job
        /\ h.status = status
    OBVIOUS
  <2>6. StatusOfItsKind(task[d].provider, status)
    BY <1>2, <2>1 DEF Gives, CallsSound, StatusOfItsKind, Pooled, Spawning, Remote, Final
  <2> HIDE DEF new, h
  <2>7. StatusOfItsKind(handles'[new].provider, handles'[new].status)
    BY <2>2, <2>5, <2>6 DEF StatusOfItsKind
  <2>8. \A n \in DOMAIN handles' :
           /\ handles'[n].provider \in Serving'
           /\ fate'[handles'[n].job] = "handled"
           /\ StatusOfItsKind(handles'[n].provider, handles'[n].status)
    BY <1>0, <2>1, <2>2, <2>3, <2>4, <2>5, <2>7 DEF HandlesSound, StatusOfItsKind
  <2>9. \A m, n \in DOMAIN handles' : handles'[m].job = handles'[n].job => m = n
    BY <2>2, <2>4, <2>5 DEF HandlesSound
  <2>10. \A j \in Jobs : fate'[j] = "handled" =>
            \E n \in DOMAIN handles' : handles'[n].job = j
    BY <2>2, <2>3, <2>5 DEF HandlesSound
  <2>11. \A n \in DOMAIN handles' :
            (StatusOfItsKind(handles[n].provider, handles[n].status))'
              <=> StatusOfItsKind(handles'[n].provider, handles'[n].status)
    BY DEF StatusOfItsKind
  <2> QED BY <2>8, <2>9, <2>10, <2>11 DEF HandlesSound
<1>3. ASSUME NEW d \in Drivers, NEW end \in {"refused", "lost"}, Drops(d, end)
      PROVE  HandlesSound'
  <2>1. Busy(d) /\ fate[task[d].job] = "held"
    BY <1>3, ActiveIsBusy DEF Drops, CallsSound
  <2>2. \A j \in Jobs : fate'[j] = IF j = task[d].job THEN end ELSE fate[j]
    BY <1>3 DEF Drops, EndCall, TypeOK
  <2> QED BY <1>0, <1>3, <2>1, <2>2, HandlesUntouched DEF Drops
<1>4. ASSUME NEW n \in DOMAIN handles, NEW status \in {"running"} \cup Final,
             Moves(n, status)
      PROVE  HandlesSound'
  <2>1. /\ DOMAIN handles' = DOMAIN handles
        /\ \A m \in DOMAIN handles :
              /\ handles'[m].provider = handles[m].provider
              /\ handles'[m].job = handles[m].job
              /\ m # n => handles'[m].status = handles[m].status
    BY <1>4, SetStatusKeeps DEF Moves
  <2>2. StatusOfItsKind(handles[n].provider, handles'[n].status)
    BY <1>4 DEF Moves, StatusOfItsKind, Pooled, Spawning, Remote
  <2>3. \A m \in DOMAIN handles :
           StatusOfItsKind(handles'[m].provider, handles'[m].status)
    BY <2>1, <2>2 DEF HandlesSound, StatusOfItsKind
  <2>4. fate' = fate
    BY <1>4 DEF Moves
  <2> QED BY <1>0, <2>1, <2>3, <2>4 DEF HandlesSound, StatusOfItsKind
<1>5. CASE handles' = handles /\ fate' = fate
  BY <1>0, <1>5, HandlesUntouched
<1> QED BY <1>1, <1>2, <1>3, <1>4, <1>5, StepKinds
      DEF Check, Leave, Shutdown, ShutdownReturns, Operate, vars, adapterVars

(* A pool that is shut gets nothing more, and one that is drained has       *)
(* nothing left to begin or to end.                                        *)
LEMMA PoolsStep ==
    ASSUME TypeOK, IdsUnique, CallsSound, PoolsSound, [Next]_vars
    PROVE  PoolsSound'
<1> USE DEF PoolsSound
<1> DEFINE Idle(p, n) == handles[n].provider = p =>
                            handles[n].status \notin {"queued", "running"}
<1>0. ShutdownDrains <=> \A p \in drained : \A n \in DOMAIN handles : Idle(p, n)
  BY DEF ShutdownDrains, Of
<1>1. ShutdownDrains' <=>
        \A p \in drained' : \A n \in DOMAIN handles' :
           handles'[n].provider = p => handles'[n].status \notin {"queued", "running"}
  BY DEF ShutdownDrains, Of
<1>2. CASE UNCHANGED <<handles, shut, drained>>
  BY <1>2 DEF ShutdownDrains, Of, Pools
<1>3. ASSUME NEW d \in Drivers, NEW status \in {"queued", "running"} \cup Final,
             Gives(d, status)
      PROVE  PoolsSound'
  <2>1. Busy(d)
    BY <1>3, ActiveIsBusy DEF Gives
  <2> DEFINE new == Len(handles) + 1
  <2>2. /\ DOMAIN handles' = DOMAIN handles \cup {new}
        /\ \A n \in DOMAIN handles : handles'[n] = handles[n]
        /\ handles'[new].provider = task[d].provider
        /\ handles'[new].status = status
    <3>1. handles'[new] =
            [provider |-> task[d].provider, job |-> task[d].job, status |-> status]
      BY <1>3, <2>1, GiveAppends DEF Gives
    <3>2. /\ DOMAIN handles' = DOMAIN handles \cup {new}
          /\ \A n \in DOMAIN handles : handles'[n] = handles[n]
      BY <1>3, <2>1, GiveAppends DEF Gives
    <3> QED BY <3>1, <3>2
  <2>3. task[d].provider \in drained => status \notin {"queued", "running"}
    BY <1>3 DEF Gives, Pools, Pooled, Final
  <2> HIDE DEF new
  <2> QED BY <1>0, <1>1, <1>3, <2>2, <2>3 DEF Gives, Pools
<1>4. ASSUME NEW n \in DOMAIN handles, NEW status \in {"running"} \cup Final,
             Moves(n, status)
      PROVE  PoolsSound'
  <2>1. /\ DOMAIN handles' = DOMAIN handles
        /\ \A m \in DOMAIN handles :
              /\ handles'[m].provider = handles[m].provider
              /\ m # n => handles'[m].status = handles[m].status
    BY <1>4, SetStatusKeeps DEF Moves
  <2>2. handles[n].provider \notin drained
    BY <1>0, <1>4 DEF Moves
  <2> QED BY <1>0, <1>1, <1>4, <2>1, <2>2 DEF Moves, Pools
<1>5. ASSUME NEW p \in Pools, Shutdown(p) PROVE PoolsSound'
  BY <1>5 DEF Shutdown, ShutdownDrains, Of, Pools
<1>6. ASSUME NEW p \in Pools, ShutdownReturns(p) PROVE PoolsSound'
  BY <1>6 DEF ShutdownReturns, ShutdownDrains, Of, Pools
<1> QED BY <1>2, <1>3, <1>4, <1>5, <1>6, StepKinds
      DEF Choose, Drops, Check, Leave, Operate, vars, adapterVars

-------------------------------------------------------------------------------
(***************************************************************************)
(* Work: begun at most once, and what began it can be seen.                *)
(***************************************************************************)
LEMMA WorkStep ==
    ASSUME TypeOK, CallsSound, HandlesSound, WorkSound, [Next]_vars
    PROVE  WorkSound'
<1>0. /\ \A c \in Drivers : Busy(c) => task[c].job \in Jobs
      /\ \A n \in DOMAIN handles : handles[n].job \in Jobs
  BY BusyTask, HandlesTyped
<1>1. ASSUME NEW d \in Drivers, NEW j \in Jobs, Choose(d, j) PROVE WorkSound'
  <2>1. PICK p \in Cheapest(j) :
           task' = [task EXCEPT ![d] = [point |-> "chosen", job |-> j, provider |-> p]]
    BY <1>1 DEF Choose
  <2>2. /\ task'[d] = [point |-> "chosen", job |-> j, provider |-> p]
        /\ \A c \in Drivers : c # d => task'[c] = task[c]
    BY <2>1 DEF TypeOK
  <2>3. task'[d].job = j /\ ~Out(d)'
    BY <2>2 DEF Out
  <2>4. /\ fate[j] = "waiting" /\ started' = started /\ handles' = handles
        /\ \A i \in Jobs : fate'[i] = IF i = j THEN "held" ELSE fate[i]
    BY <1>1 DEF Choose, TypeOK
  <2>5. started'[j] = 0
    BY <2>4 DEF WorkSound
  <2>6. \A c \in Drivers : Busy(c)' => c = d \/ (Busy(c) /\ task'[c] = task[c])
    BY <2>2 DEF Busy
  <2>7. \A c \in Drivers :
           Busy(c)' => started'[task'[c].job] = IF Out(c)' THEN 1 ELSE 0
    BY <2>3, <2>4, <2>5, <2>6 DEF WorkSound, Out
  <2> QED BY <2>4, <2>7 DEF WorkSound, Worked
<1>2. ASSUME NEW d \in Drivers, Busy(d), NEW end, EndCall(d, end), started' = started
      PROVE  /\ \A j \in Jobs : fate'[j] = IF j = task[d].job THEN end ELSE fate[j]
             /\ \A c \in Drivers :
                   Busy(c)' => started'[task'[c].job] = IF Out(c)' THEN 1 ELSE 0
  <2>1. /\ task'[d] = NoTask
        /\ \A c \in Drivers : c # d => task'[c] = task[c]
        /\ \A j \in Jobs : fate'[j] = IF j = task[d].job THEN end ELSE fate[j]
    BY <1>2 DEF EndCall, TypeOK
  <2> QED BY <1>2, <2>1 DEF WorkSound, Busy, Out
<1>3. ASSUME NEW d \in Drivers, NEW status \in {"queued", "running"} \cup Final,
             Gives(d, status)
      PROVE  WorkSound'
  <2>1. /\ Busy(d) /\ ~((Chosen(d) \/ Checked(d)) /\ Out(d))
        /\ EndCall(d, "handled") /\ started' = started
    BY <1>3, ActiveIsBusy, BusyTask DEF Gives
  <2> DEFINE new == Len(handles) + 1
             h == [provider |-> task[d].provider, job |-> task[d].job, status |-> status]
  <2>2. /\ DOMAIN handles' = DOMAIN handles \cup {new}
        /\ \A n \in DOMAIN handles : handles'[n] = handles[n]
        /\ handles'[new] = h
    BY <1>3, <2>1, GiveAppends DEF Gives
  <2>3. h.provider = task[d].provider /\ h.job = task[d].job /\ h.status = status
    OBVIOUS
  <2> HIDE DEF new, h
  <2>4. started[task[d].job] =
           IF Kind[task[d].provider] # "local" /\ status # "queued" THEN 1 ELSE 0
    BY <1>3, <2>1 DEF Gives, WorkSound, CallsSound, Pooled, Spawning, Remote, Final
  <2>5. \A n \in DOMAIN handles' :
           started'[handles'[n].job] = IF Worked(n)' THEN 1 ELSE 0
    BY <2>1, <2>2, <2>3, <2>4 DEF WorkSound, Worked
  <2>6. \A j \in Jobs : fate'[j] = IF j = task[d].job THEN "handled" ELSE fate[j]
    BY <1>2, <2>1
  <2>7. \A j \in Jobs :
          /\ fate'[j] \in {"waiting", "refused"} => started'[j] = 0
          /\ fate'[j] = "lost" => started'[j] = 1
    BY <2>1, <2>6 DEF WorkSound
  <2>8. \A c \in Drivers :
           Busy(c)' => started'[task'[c].job] = IF Out(c)' THEN 1 ELSE 0
    BY <1>2, <2>1
  <2> QED BY <2>5, <2>7, <2>8 DEF WorkSound
<1>4. ASSUME NEW d \in Drivers, NEW end \in {"refused", "lost"}, Drops(d, end)
      PROVE  WorkSound'
  <2>1. /\ Busy(d) /\ ~((Chosen(d) \/ Checked(d)) /\ Out(d)) /\ EndCall(d, end)
        /\ started' = started /\ handles' = handles
    BY <1>4, ActiveIsBusy, BusyTask DEF Drops
  <2>2. started[task[d].job] = IF end = "lost" THEN 1 ELSE 0
    BY <1>4, <2>1 DEF Drops, WorkSound
  <2>3. \A j \in Jobs : fate'[j] = IF j = task[d].job THEN end ELSE fate[j]
    BY <1>2, <2>1
  <2>4. \A j \in Jobs :
          /\ fate'[j] \in {"waiting", "refused"} => started'[j] = 0
          /\ fate'[j] = "lost" => started'[j] = 1
    BY <2>1, <2>2, <2>3 DEF WorkSound
  <2>5. \A c \in Drivers :
           Busy(c)' => started'[task'[c].job] = IF Out(c)' THEN 1 ELSE 0
    BY <1>2, <2>1
  <2> QED BY <2>1, <2>4, <2>5 DEF WorkSound, Worked
<1>5. ASSUME NEW d \in Drivers, Leave(d) PROVE WorkSound'
  <2>1. /\ task[d] \in Task /\ Busy(d) /\ ~Out(d)
        /\ task[d].job \in Jobs /\ fate[task[d].job] = "held"
        /\ fate' = fate /\ handles' = handles
    BY <1>5, ActiveIsBusy, BusyTask DEF Leave, CallsSound
  <2>2. /\ \A c \in Drivers : c # d => task'[c] = task[c]
        /\ task'[d].job = task[d].job
        /\ task'[d].point = "out"
    BY <1>5, <2>1 DEF Leave, TypeOK, Task
  <2>3. /\ \A j \in Jobs : j # task[d].job => started'[j] = started[j]
        /\ started'[task[d].job] = 1
    BY <1>5, <2>1 DEF Leave, Starts, TypeOK, WorkSound
  <2>4. \A c \in Drivers : Busy(c) /\ c # d => task[c].job # task[d].job
    BY <2>1 DEF CallsSound
  <2>5. \A n \in DOMAIN handles : handles[n].job # task[d].job
    BY <2>1 DEF HandlesSound
  <2>6. \A c \in Drivers :
           Busy(c)' => started'[task'[c].job] = IF Out(c)' THEN 1 ELSE 0
    BY <1>0, <2>2, <2>3, <2>4 DEF WorkSound, Busy, Out
  <2>7. \A n \in DOMAIN handles' :
           started'[handles'[n].job] = IF Worked(n)' THEN 1 ELSE 0
    BY <1>0, <2>1, <2>3, <2>5 DEF WorkSound, Worked
  <2>8. \A j \in Jobs :
          /\ fate'[j] \in {"waiting", "refused"} => started'[j] = 0
          /\ fate'[j] = "lost" => started'[j] = 1
    BY <2>1, <2>3 DEF WorkSound
  <2> QED BY <2>6, <2>7, <2>8 DEF WorkSound
<1>6. ASSUME NEW n \in DOMAIN handles, NEW status \in {"running"} \cup Final,
             Moves(n, status)
      PROVE  WorkSound'
  <2>1. /\ DOMAIN handles' = DOMAIN handles
        /\ \A m \in DOMAIN handles :
              /\ handles'[m].provider = handles[m].provider
              /\ handles'[m].job = handles[m].job
              /\ handles'[m].status = IF m = n THEN status ELSE handles[m].status
    BY <1>6, SetStatusKeeps DEF Moves
  <2>2. /\ task' = task /\ fate' = fate
        /\ handles[n].job \in Jobs /\ fate[handles[n].job] = "handled"
    BY <1>0, <1>6 DEF Moves, HandlesSound
  <2>3. /\ \A j \in Jobs : j # handles[n].job => started'[j] = started[j]
        /\ started'[handles[n].job] = 1
    BY <1>6, <2>2 DEF Moves, Starts, TypeOK, WorkSound, Worked, Pooled
  <2>4. status # "queued" /\ Kind[handles[n].provider] # "local"
    BY <1>6 DEF Moves, Pooled, Final
  <2>5. \A m \in DOMAIN handles : m # n => handles[m].job # handles[n].job
    BY DEF HandlesSound
  <2>6. \A m \in DOMAIN handles' :
           started'[handles'[m].job] = IF Worked(m)' THEN 1 ELSE 0
    BY <1>0, <2>1, <2>3, <2>4, <2>5 DEF WorkSound, Worked
  <2>7. \A c \in Drivers : Busy(c) => task[c].job # handles[n].job
    BY <2>2 DEF CallsSound
  <2>8. \A c \in Drivers :
           Busy(c)' => started'[task'[c].job] = IF Out(c)' THEN 1 ELSE 0
    BY <1>0, <2>2, <2>3, <2>7 DEF WorkSound, Busy, Out
  <2>9. \A j \in Jobs :
          /\ fate'[j] \in {"waiting", "refused"} => started'[j] = 0
          /\ fate'[j] = "lost" => started'[j] = 1
    BY <2>2, <2>3 DEF WorkSound
  <2> QED BY <2>6, <2>8, <2>9 DEF WorkSound
<1>7. CASE UNCHANGED <<task, handles, fate, started>>
  BY <1>7 DEF WorkSound, Worked, Busy, Out
<1>8. ASSUME NEW d \in Drivers, Check(d) PROVE WorkSound'
  <2>1. task[d] \in Task /\ Busy(d) /\ ~Out(d)
    BY <1>8, ActiveIsBusy, BusyTask DEF Check
  <2>2. /\ \A c \in Drivers : c # d => task'[c] = task[c]
        /\ task'[d].job = task[d].job /\ ~Out(d)'
    BY <1>8, <2>1 DEF Check, TypeOK, Task, Out
  <2>3. \A c \in Drivers :
           Busy(c)' => started[task'[c].job] = IF Out(c)' THEN 1 ELSE 0
    BY <2>1, <2>2 DEF WorkSound, Busy, Out
  <2> QED BY <1>8, <2>3 DEF Check, WorkSound, Worked
<1> QED BY <1>1, <1>3, <1>4, <1>5, <1>6, <1>7, <1>8, StepKinds
      DEF Shutdown, ShutdownReturns, Operate, vars, adapterVars

-------------------------------------------------------------------------------
(***************************************************************************)
(* Switches: what the operator turns off while calls are past their checks. *)
(***************************************************************************)
LEMMA GraceStep ==
    ASSUME TypeOK, GraceSound, [Next]_vars
    PROVE  GraceSound'
<1> USE DEF GraceSound
<1>1. ASSUME NEW d \in Drivers,
             \A c \in Drivers : c # d => task'[c] = task[c],
             enabled' = enabled, grace \ {d} \subseteq grace', ~Checked(d)'
      PROVE  GraceSound'
  BY <1>1 DEF Checked
<1>2. ASSUME NEW d \in Drivers, NEW end, EndCall(d, end), enabled' = enabled
      PROVE  GraceSound'
  <2>1. /\ \A c \in Drivers : c # d => task'[c] = task[c]
        /\ task'[d] = NoTask
        /\ grace \ {d} \subseteq grace'
    BY <1>2 DEF EndCall, TypeOK
  <2> QED BY <1>1, <1>2, <2>1 DEF Checked, NoTask
<1>3. ASSUME NEW d \in Drivers, NEW j \in Jobs, Choose(d, j) PROVE GraceSound'
  <2>1. PICK p \in Cheapest(j) :
           task' = [task EXCEPT ![d] = [point |-> "chosen", job |-> j, provider |-> p]]
    BY <1>3 DEF Choose
  <2>2. /\ task'[d] = [point |-> "chosen", job |-> j, provider |-> p]
        /\ \A c \in Drivers : c # d => task'[c] = task[c]
    BY <2>1 DEF TypeOK
  <2> QED BY <1>1, <1>3, <2>2 DEF Choose, registryVars, Checked
<1>4. ASSUME NEW d \in Drivers, Check(d) PROVE GraceSound'
  <2>1. /\ task[d] \in Task /\ Kind[task[d].provider] \in Spawning \cup Remote
        /\ Admits(task[d].provider, task[d].job)
    BY <1>4, ActiveIsBusy, BusyTask DEF Check
  <2>2. Kind[task[d].provider] \in Gated => task[d].provider \in enabled
    BY <2>1 DEF Admits, AdmitsGated, AdmitsHosted, Gated, Remote
  <2>3. /\ \A c \in Drivers : c # d => task'[c] = task[c]
        /\ task'[d].provider = task[d].provider
    BY <1>4, <2>1 DEF Check, TypeOK, Task
  <2> QED BY <1>4, <2>2, <2>3 DEF Check, registryVars, Checked
<1>5. ASSUME NEW d \in Drivers, Leave(d) PROVE GraceSound'
  <2>1. task[d] \in Task
    BY <1>5, ActiveIsBusy, BusyTask DEF Leave
  <2>2. /\ \A c \in Drivers : c # d => task'[c] = task[c]
        /\ task'[d].point = "out"
    BY <1>5, <2>1 DEF Leave, TypeOK, Task
  <2> QED BY <1>1, <1>5, <2>2 DEF Leave, registryVars, Checked
<1>6. CASE Operate
  BY <1>6 DEF Operate, Register, SetEnabled, Checking, Checked
<1>7. CASE UNCHANGED <<registryVars, task, grace>>
  BY <1>7 DEF registryVars, Checked
<1> QED BY <1>2, <1>3, <1>4, <1>5, <1>6, <1>7, StepKinds
      DEF Gives, Drops, Moves, Shutdown, ShutdownReturns, registryVars, vars, adapterVars

-------------------------------------------------------------------------------
LEMMA InvInit == Init => AdaptersInv
<1> SUFFICES ASSUME Init PROVE AdaptersInv
  OBVIOUS
<1>1. \A p \in Providers : EntriesOf(p) \subseteq CapabilityEntry
  BY EntriesOfTyped
<1>2. RegistryTypeOK
  BY <1>1, AdaptersAssumption, ProvidersAssumption
     DEF Init, RegistryWith, RegistryTypeOK
<1>3. \A f \in entries : f.provider \in Founding
  BY DEF Init, RegistryWith, EntriesOf
<1>4. IdsUnique
  BY <1>3, AdaptersAssumption DEF Init, RegistryWith, IdsUnique
<1>5. DOMAIN handles = {} /\ handles \in Seq(Handle)
  BY DEF Init
<1>6. TypeOK
  BY <1>2, <1>5 DEF Init, TypeOK
<1>7. CallsSound /\ HeldSomewhere
  BY DEF Init, CallsSound, HeldSomewhere, Busy
<1>8. HandlesSound
  BY <1>5 DEF Init, HandlesSound
<1>9. WorkSound
  BY <1>5 DEF Init, WorkSound, Busy
<1>10. PoolsSound
  BY DEF Init, PoolsSound, ShutdownDrains
<1>11. GraceSound
  BY DEF Init, GraceSound, Checked, NoTask
<1> QED BY <1>4, <1>6, <1>7, <1>8, <1>9, <1>10, <1>11 DEF AdaptersInv

(* No step of a driver, a pool thread or the operator breaks the invariant. *)
THEOREM InvAlways == Spec => []AdaptersInv
<1>1. AdaptersInv /\ [Next]_vars => AdaptersInv'
  BY TypeStep, RegistryStep, CallsStep, HandlesStep, HeldStep, WorkStep, PoolsStep,
     GraceStep
     DEF AdaptersInv
<1> QED BY <1>1, InvInit, PTL DEF Spec

(* Every field keeps its type through every call and every switch.         *)
THEOREM TypeCorrect == Spec => []TypeOK
<1>1. AdaptersInv => TypeOK
  BY DEF AdaptersInv
<1> QED BY <1>1, InvAlways, PTL

(* A handle finds its provider in the registry at any later time, and the  *)
(* one it finds tells what became of the job, whatever was registered or   *)
(* switched in between.                                                    *)
THEOREM HandlesFindTheirProviders == Spec => []HandleFindsItsProvider
<1>1. AdaptersInv => HandleFindsItsProvider
  <2> SUFFICES ASSUME AdaptersInv, NEW n \in DOMAIN handles
               PROVE  LET asked == Registered(ProviderId[handles[n].provider]) IN
                      /\ asked # {}
                      /\ \A p \in asked :
                            Status(p, n) =
                               IF handles[n].status = "queued" THEN "running"
                               ELSE handles[n].status
    BY DEF HandleFindsItsProvider
  <2> DEFINE p == handles[n].provider
             told == IF handles[n].status = "queued" THEN "running"
                     ELSE handles[n].status
  <2>1. /\ p \in Providers /\ p \in Serving
        /\ handles[n].status \in {"queued", "running"} \cup Final
        /\ StatusOfItsKind(p, handles[n].status)
    BY HandlesTyped DEF AdaptersInv, HandlesSound
  <2>2. Registered(ProviderId[p]) = {p}
    BY <2>1 DEF Registered, Serving, AdaptersInv, IdsUnique
  <2>3. Owns(p, n) /\ Addressed(p, n)
    BY DEF Owns, Addressed
  <2>4. Kind[p] \in Kinds
    BY <2>1, AdaptersAssumption
  <2>5. ASSUME Kind[p] = "local" PROVE Status(p, n) = told
    <3>1. Status(p, n) = StubStatus(p, n)
      BY <2>5 DEF Status, Pooled, Spawning, Remote
    <3> QED BY <2>1, <2>3, <2>5, <3>1 DEF StubStatus, StatusOfItsKind
  <2>6. ASSUME Kind[p] \in Pooled PROVE Status(p, n) = told
    <3>1. Status(p, n) = WorkloadStatus(p, n)
      BY <2>6 DEF Status, Pooled, Spawning, Remote
    <3> QED BY <2>1, <2>3, <3>1 DEF WorkloadStatus, Final
  <2>7. ASSUME Kind[p] \in Spawning PROVE Status(p, n) = told
    <3>1. Status(p, n) = ProcessStatus(p, n)
      BY <2>7 DEF Status, Pooled, Spawning, Remote
    <3> QED BY <2>1, <2>3, <2>7, <3>1 DEF ProcessStatus, StatusOfItsKind, Final
  <2>8. ASSUME Kind[p] \in Remote PROVE Status(p, n) = told
    <3>1. Status(p, n) = RequestStatus(p, n)
      BY <2>8 DEF Status, Pooled, Spawning, Remote
    <3> QED BY <2>1, <2>3, <2>8, <3>1 DEF RequestStatus, StatusOfItsKind
  <2>9. Status(p, n) = told
    BY <2>4, <2>5, <2>6, <2>7, <2>8 DEF Kinds, Pooled, Spawning, Remote
  <2> QED BY <2>2, <2>9
<1> QED BY <1>1, InvAlways, PTL

(* No job is worked on twice, none is refused after its work was begun, and *)
(* none that was begun disappears: each start is a call that is out, a      *)
(* handle past the queue, or a call that failed.                            *)
THEOREM WorkIsAccounted == Spec => []WorkAccounted
<1>1. AdaptersInv => WorkAccounted
  <2> SUFFICES ASSUME AdaptersInv, NEW j \in Jobs
               PROVE  /\ Cardinality(HandlesOf(j)) = IF fate[j] = "handled" THEN 1 ELSE 0
                      /\ started[j] = Cardinality(CallsOut(j)) + Cardinality(Begun(j))
                                      + (IF fate[j] = "lost" THEN 1 ELSE 0)
                      /\ started[j] <= 1
    BY DEF WorkAccounted
  <2>0. /\ Cardinality({}) = 0
        /\ \A x : Cardinality({x}) = 1
    BY FS_EmptySet, FS_Singleton
  <2>1. /\ fate[j] # "held" => CallsOut(j) = {}
        /\ fate[j] # "handled" => HandlesOf(j) = {} /\ Begun(j) = {}
    BY ActiveIsBusy DEF AdaptersInv, CallsSound, HandlesSound, CallsOut, HandlesOf, Begun
  <2>2. CASE fate[j] \in {"waiting", "refused", "lost"}
    BY <2>0, <2>1, <2>2 DEF AdaptersInv, WorkSound
  <2>3. CASE fate[j] = "held"
    <3>1. PICK d \in Drivers : Busy(d) /\ task[d].job = j
      BY <2>3 DEF AdaptersInv, HeldSomewhere
    <3>2. started[j] = IF Out(d) THEN 1 ELSE 0
      BY <3>1 DEF AdaptersInv, WorkSound
    <3>3. CallsOut(j) = IF Out(d) THEN {d} ELSE {}
      BY <3>1, ActiveIsBusy DEF AdaptersInv, CallsSound, CallsOut
    <3>4. Cardinality(CallsOut(j)) = started[j]
      BY <2>0, <3>2, <3>3
    <3>5. started[j] \in {0, 1}
      BY <3>2
    <3> QED BY <2>0, <2>1, <2>3, <3>4, <3>5
  <2>4. CASE fate[j] = "handled"
    <3>1. PICK n \in DOMAIN handles : handles[n].job = j
      BY <2>4 DEF AdaptersInv, HandlesSound
    <3>2. started[j] = IF Worked(n) THEN 1 ELSE 0
      BY <3>1 DEF AdaptersInv, WorkSound
    <3>3. HandlesOf(j) = {n}
      BY <3>1 DEF AdaptersInv, HandlesSound, HandlesOf
    <3>4. Begun(j) = IF Worked(n) THEN {n} ELSE {}
      BY <3>3 DEF Begun, Worked
    <3>5. Cardinality(Begun(j)) = started[j]
      BY <2>0, <3>2, <3>4
    <3>6. started[j] \in {0, 1}
      BY <3>2
    <3>7. Cardinality(HandlesOf(j)) = 1 /\ Cardinality(CallsOut(j)) = 0
      BY <2>0, <2>1, <2>4, <3>3
    <3> QED BY <2>4, <3>5, <3>6, <3>7
  <2> QED BY <2>2, <2>3, <2>4 DEF AdaptersInv, TypeOK
<1> QED BY <1>1, InvAlways, PTL

(* A pool whose shutdown() has returned has nothing queued or running, then *)
(* or later, whatever the drivers choose meanwhile.                         *)
THEOREM ShutdownHasDrained == Spec => []ShutdownDrains
<1>1. AdaptersInv => ShutdownDrains
  BY DEF AdaptersInv, PoolsSound
<1> QED BY <1>1, InvAlways, PTL

(* A provider that was switched off gets only what was past the checks of   *)
(* submit() by then, for any number of drivers and switches.                *)
THEOREM ShutGatesHold == Spec => ShutGateHolds
<1>1. AdaptersInv /\ [Next]_vars =>
         [\A d \in Drivers :
             (/\ Out(d)' /\ ~Out(d)
              /\ Kind[task[d].provider] \in Gated
              /\ task[d].provider \notin enabled) => d \in grace]_vars
  <2> SUFFICES ASSUME AdaptersInv, [Next]_vars, NEW d \in Drivers, Out(d)', ~Out(d),
                      Kind[task[d].provider] \in Gated, task[d].provider \notin enabled
               PROVE  d \in grace
    OBVIOUS
  <2>1. ASSUME NEW c \in Drivers, NEW end, EndCall(c, end) PROVE FALSE
    BY <2>1 DEF EndCall, AdaptersInv, TypeOK, Out, NoTask
  <2>2. ASSUME NEW c \in Drivers, NEW j \in Jobs, Choose(c, j) PROVE FALSE
    BY <2>2 DEF Choose, AdaptersInv, TypeOK, Out
  <2>3. ASSUME NEW c \in Drivers, Check(c) PROVE FALSE
    <3>1. task[c] \in Task
      BY <2>3, ActiveIsBusy, BusyTask DEF Check, AdaptersInv
    <3> QED BY <2>3, <3>1 DEF Check, AdaptersInv, TypeOK, Task, Out
  <2>4. ASSUME task' = task PROVE FALSE
    BY <2>4 DEF Out
  <2>5. PICK c \in Drivers : Leave(c)
    BY <2>1, <2>2, <2>3, <2>4, StepKinds DEF AdaptersInv, Gives, Drops, Moves, Shutdown,
       ShutdownReturns, Operate, vars, adapterVars
  <2>6. c = d
    BY <2>5 DEF Leave, AdaptersInv, TypeOK, Out
  <2> QED BY <2>5, <2>6 DEF Leave, AdaptersInv, GraceSound
<1> QED BY <1>1, InvAlways, PTL DEF Spec, ShutGateHolds
===============================================================================
