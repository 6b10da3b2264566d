------------------------------ MODULE Scheduler ------------------------------
(***************************************************************************)
(* The priority-lane scheduler: scheduler/scheduler.py over the router and *)
(* the registry.  The object holds no lock and starts no thread: its       *)
(* caller (the driver, which is not in the repository) makes one call at a *)
(* time.  drain() is many dispatches inside one call and is modelled step  *)
(* by step, because one of them may raise after others have removed jobs.  *)
(***************************************************************************)
EXTENDS Router, FiniteSets

CONSTANTS
    PriorityOf,    \* [Jobs -> Priority]: job.priority
    MaxSubmits,    \* bound: how many times the driver calls submit()
    MaxLimit       \* bound: the largest limit the driver passes to drain()

BASE == 0
CLIENT == 1
POC == 2
IDLE == 3
Priority == BASE..IDLE

ASSUME PriorityAssumption == PriorityOf \in [Jobs -> Priority]
ASSUME BoundsAssumption == MaxSubmits \in Nat /\ MaxLimit \in Nat

VARIABLES
    queued,        \* Scheduler._queued: entries (priority, seq, job)
    sequence,      \* Scheduler._sequence: the next number it gives out
    drain,         \* the drain() call in progress: its budget and its list
    outcome,       \* how the last call into the scheduler ended
    dispatched,    \* history: every entry removed from the queue, and when
    delivered      \* history: the numbers whose Dispatch reached the driver

schedulerVars == <<queued, sequence, drain, outcome, dispatched, delivered>>
vars == <<registryVars, schedulerVars>>

Entry == [priority : Priority, seq : Nat, job : Jobs]

(* "at" is the value of the sequence counter when the entry was removed:   *)
(* an entry w was submitted before that moment iff w.seq < at.             *)
Record == [entry : Entry, provider : Providers, at : Nat]

Drain == [active : BOOLEAN, left : Nat, list : SUBSET Nat]
NoDrain == [active |-> FALSE, left |-> 0, list |-> {}]

Seqs(S) == {e.seq : e \in S}
DispatchedSeqs == {r.entry.seq : r \in dispatched}

TypeOK ==
    /\ RegistryTypeOK
    /\ queued \subseteq Entry
    /\ sequence \in Nat
    /\ drain \in Drain
    /\ outcome \in {"quiet", "served", "nothing", "limit", "raised"}
    /\ dispatched \subseteq Record
    /\ delivered \subseteq Nat

Init ==
    /\ RegistryInit
    /\ queued = {}
    /\ sequence = 0
    /\ drain = NoDrain
    /\ outcome = "quiet"
    /\ dispatched = {}
    /\ delivered = {}

(* The tuple order in which sorted() and min() put the entries; numbers are *)
(* unique, so the job is never compared.                                   *)
Ahead(e, f) ==
    \/ e.priority < f.priority
    \/ e.priority = f.priority /\ e.seq < f.seq

(* Defect: the queue is scanned in the order of submission, without lanes. *)
FirstSubmitted ==
    {e \in queued :
        /\ Routable(e.job)
        /\ \A f \in queued : Routable(f.job) => e.seq <= f.seq}

(* Defect: only the head of the queue is tried (the job next_job() peeks). *)
HeadOnly ==
    {e \in queued :
        Routable(e.job) /\ \A f \in queued : f = e \/ Ahead(e, f)}

(* The loop of dispatch() stops at the first entry that select() does not  *)
(* reject with NoProviderAvailable.                                        *)
FirstRoutable ==
    {e \in queued :
        /\ Routable(e.job)
        /\ \A f \in queued : Routable(f.job) => f = e \/ Ahead(e, f)}

(* has_work_above(): a lane above this one has an entry waiting. *)
HasWorkAbove(priority) == \E e \in queued : e.priority < priority

Idle == ~drain.active

(* Outside a drain the operator may register or switch providers. *)
Operate ==
    /\ Idle
    /\ \E p \in Providers : Register(p) \/ SetEnabled(p)
    /\ outcome' = "quiet"
    /\ UNCHANGED <<queued, sequence, drain, dispatched, delivered>>

Submit(j) ==
    /\ Idle
    /\ sequence < MaxSubmits
    /\ queued' = queued \cup
          {[priority |-> PriorityOf[j], seq |-> sequence, job |-> j]}
    /\ sequence' = sequence + 1
    /\ outcome' = "quiet"
    /\ UNCHANGED <<registryVars, drain, dispatched, delivered>>

(* Defect: the entry stays in the queue. *)
TakeAndKeep(e, p) ==
    /\ ~PricingRaises(e.job)
    /\ dispatched' = dispatched \cup
          {[entry |-> e, provider |-> p, at |-> sequence]}
    /\ UNCHANGED queued

(* What a successful dispatch() does to the queue. *)
Take(e, p) ==
    /\ ~PricingRaises(e.job)
    /\ queued' = queued \ {e}
    /\ dispatched' = dispatched \cup
          {[entry |-> e, provider |-> p, at |-> sequence]}

Dispatch(e, p) ==
    /\ Idle
    /\ Take(e, p)
    /\ delivered' = delivered \cup {e.seq}
    /\ outcome' = "served"
    /\ UNCHANGED <<registryVars, sequence, drain>>

(* dispatch() returns None. *)
DispatchNothing ==
    /\ Idle
    /\ FirstRoutable = {}
    /\ outcome' = "nothing"
    /\ UNCHANGED <<registryVars, queued, sequence, drain, dispatched, delivered>>

(* Only NoProviderAvailable is caught: any other exception of select()     *)
(* leaves through dispatch() before the entry is removed.                  *)
DispatchRaises ==
    /\ Idle
    /\ \E e \in FirstRoutable : PricingRaises(e.job)
    /\ outcome' = "raised"
    /\ UNCHANGED <<registryVars, queued, sequence, drain, dispatched, delivered>>

StartDrain(limit) ==
    /\ Idle
    /\ drain' = [active |-> TRUE, left |-> limit, list |-> {}]
    /\ outcome' = "quiet"
    /\ UNCHANGED <<registryVars, queued, sequence, dispatched, delivered>>

(* Defect: the budget is tested after the dispatch, so drain(0) takes one. *)
DrainDispatchFirst(e, p) ==
    /\ drain.active
    /\ Take(e, p)
    /\ drain' = [drain EXCEPT !.left = @ - 1, !.list = @ \cup {e.seq}]
    /\ UNCHANGED <<registryVars, sequence, outcome, delivered>>

(* Defect: the loop dispatches and forgets to append. *)
DrainDispatchUnlisted(e, p) ==
    /\ drain.active /\ drain.left > 0
    /\ Take(e, p)
    /\ drain' = [drain EXCEPT !.left = @ - 1]
    /\ UNCHANGED <<registryVars, sequence, outcome, delivered>>

DrainDispatch(e, p) ==
    /\ drain.active /\ drain.left > 0
    /\ Take(e, p)
    /\ drain' = [drain EXCEPT !.left = @ - 1, !.list = @ \cup {e.seq}]
    /\ UNCHANGED <<registryVars, sequence, outcome, delivered>>

(* The loop ends, by its limit or because dispatch() returned None, and    *)
(* the list is handed to the driver.                                       *)
DrainReturns ==
    /\ drain.active
    /\ drain.left = 0 \/ FirstRoutable = {}
    /\ delivered' = delivered \cup drain.list
    /\ outcome' = IF drain.left = 0 THEN "limit" ELSE "nothing"
    /\ drain' = NoDrain
    /\ UNCHANGED <<registryVars, queued, sequence, dispatched>>

(* A dispatch inside the loop raises: the local list goes with the frame.  *)
DrainRaises ==
    /\ drain.active /\ drain.left > 0
    /\ \E e \in FirstRoutable : PricingRaises(e.job)
    /\ outcome' = "raised"
    /\ drain' = NoDrain
    /\ UNCHANGED <<registryVars, queued, sequence, dispatched, delivered>>

DispatchStep ==
    \E e \in FirstRoutable : \E p \in Cheapest(e.job) : Dispatch(e, p)

DrainStep ==
    \/ \E e \in FirstRoutable : \E p \in Cheapest(e.job) : DrainDispatch(e, p)
    \/ DrainReturns
    \/ DrainRaises

Next ==
    \/ Operate
    \/ \E j \in Jobs : Submit(j)
    \/ DispatchStep
    \/ DispatchNothing
    \/ DispatchRaises
    \/ \E limit \in 0..MaxLimit : StartDrain(limit)
    \/ DrainStep

Spec == Init /\ [][Next]_vars

(* The driver comes back to dispatch() as long as there is something to     *)
(* dispatch, whatever else it calls in between (strong, because a drain()  *)
(* of the driver's own disables it for a while), and a drain() that has     *)
(* begun runs to its end.  Nothing is assumed of the operator.              *)
Fairness == SF_vars(DispatchStep) /\ WF_vars(DrainStep)
LiveSpec == Spec /\ Fairness

-------------------------------------------------------------------------------
(* Every number the scheduler gave out belongs to exactly one submission:   *)
(* it is still queued or it was dispatched, never both, never twice, and    *)
(* what the driver holds or a drain is collecting was really dispatched,    *)
(* each through one of the two (submit, dispatch, drain).                   *)
ExactlyOnce ==
    /\ Seqs(queued) \cup DispatchedSeqs = 0..(sequence - 1)
    /\ Seqs(queued) \cap DispatchedSeqs = {}
    /\ \A e, f \in queued : e.seq = f.seq => e = f
    /\ \A r, s \in dispatched : r.entry.seq = s.entry.seq => r = s
    /\ delivered \cup drain.list \subseteq DispatchedSeqs
    /\ delivered \cap drain.list = {}

(* No entry is overtaken by one behind it that asks for the same            *)
(* capability at the same size or more: lane order, and FIFO within a lane, *)
(* hold along the whole run for whatever registrations and switches         *)
(* happened in between.                                                     *)
NoOvertaking ==
    \A w \in queued, r \in dispatched :
        ~ /\ Ahead(w, r.entry)
          /\ w.seq < r.at
          /\ Capability[w.job] = Capability[r.entry.job]
          /\ FitsWithin(Requirements[w.job], Requirements[r.entry.job])

(* A job only ever reaches a provider whose lane holds its capability and   *)
(* that advertised enough of it, whatever the adapters claim: the registry  *)
(* refuses the claim and the router asks only the registry.                 *)
LaneBarrier ==
    \A r \in dispatched :
        LET c == Capability[r.entry.job] IN
        /\ c \in Lane[r.provider]
        /\ c \in DOMAIN Advertised[r.provider]
        /\ FitsWithin(Requirements[r.entry.job], Advertised[r.provider][c])

(* Two callers never route the same job differently: min() has one answer,  *)
(* because ties end on provider_id and the registry keeps those unique.     *)
RoutingDeterministic ==
    \A j \in Jobs : \A p, q \in Cheapest(j) : p = q

(* An idle-lane job leaves the queue only when every job waiting in a lane  *)
(* above it has no provider: what the code keeps of the idle rule.          *)
IdleYieldsToRoutable ==
    [][\A r \in dispatched' \ dispatched :
          r.entry.priority = IDLE =>
              \A w \in queued : w.priority < IDLE => ~Routable(w.job)]_vars

(* What a step dispatches reaches the driver or the list of the drain, and   *)
(* what is there leaves only through an exception in a drain that had       *)
(* already taken it: no other step loses a job.                             *)
LostOnlyInRaisedDrain ==
    [][\A n \in DispatchedSeqs' \ (delivered \cup drain.list)' :
          \/ n \in DispatchedSeqs \ (delivered \cup drain.list)
          \/ drain.active /\ outcome' = "raised"]_vars

(* The driver submits for a while and then no more. *)
SubmissionsEnd == <>[][sequence' = sequence]_vars

(* From some time on no queued job has a candidate that cannot price it. *)
PricingSettles == <>[](\A e \in queued : ~PricingRaises(e.job))

(* If submissions end and the jobs left can be priced, every job that stays *)
(* routable is dispatched, whatever unroutable jobs wait above it and       *)
(* however registrations and switches go.  Without the first assumption it  *)
(* need not be: lanes have no aging, and higher lanes that are fed for ever *)
(* keep a lower one waiting for ever.  Without the second, see NeverStalled. *)
ServableServed ==
    SubmissionsEnd /\ PricingSettles =>
        \A n \in 0..(MaxSubmits - 1) :
            []<>(\A e \in queued : e.seq = n => ~Routable(e.job))

(* "one unroutable render job cannot stall every CPU job behind it"         *)
(* (scheduler.py:52-54), and no more can one that is routable but cannot be *)
(* priced: if submissions end, a job that stays routable and priceable is   *)
(* dispatched, whatever waits above it.                                     *)
NeverStalled ==
    SubmissionsEnd =>
        \A n \in 0..(MaxSubmits - 1) :
            []<>(\A e \in queued :
                    e.seq = n => ~Routable(e.job) \/ PricingRaises(e.job))

(* The idle rule as scheduler.py:4-5 and the README state it: idle work     *)
(* dispatches only when no job of a higher lane is waiting.                 *)
IdleOnlyWhenAlone ==
    [][\A r \in dispatched' \ dispatched :
          r.entry.priority = IDLE => ~HasWorkAbove(IDLE)]_vars

===============================================================================
