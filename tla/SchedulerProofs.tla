--------------------------- MODULE SchedulerProofs ---------------------------
(***************************************************************************)
(* Proofs about the registry, the router and the scheduler, for every set  *)
(* of providers and jobs and every bound.                                  *)
(***************************************************************************)
EXTENDS Scheduler, TLAPS

(* What a ComputeUnit fits in, a smaller one fits in: the fact about       *)
(* fits_within() on which fairness between jobs of one capability rests.   *)
LEMMA FitsWithinTransitive ==
    ASSUME NEW a \in ComputeUnits, NEW b \in ComputeUnits, NEW c \in ComputeUnits,
           FitsWithin(a, b), FitsWithin(b, c)
    PROVE  FitsWithin(a, c)
<1> SUFFICES ASSUME NEW d \in Dims PROVE a[d] <= c[d]
  BY DEF FitsWithin
<1>1. a[d] \in Nat /\ b[d] \in Nat /\ c[d] \in Nat
  BY DEF ComputeUnits
<1>2. a[d] <= b[d] /\ b[d] <= c[d]
  BY DEF FitsWithin
<1> QED BY <1>1, <1>2

(* lookup() finds for the smaller of two requirements every provider that  *)
(* it finds for the larger.                                                *)
LEMMA LookupMonotone ==
    ASSUME entries \subseteq CapabilityEntry,
           NEW c, NEW a \in ComputeUnits, NEW b \in ComputeUnits,
           FitsWithin(a, b)
    PROVE  Lookup(c, b) \subseteq Lookup(c, a)
<1> SUFFICES ASSUME NEW f \in entries,
                    f.capability = c, f.provider \in enabled, FitsWithin(b, f.capacity)
             PROVE  f.provider \in Lookup(c, a)
  BY DEF Lookup
<1>1. f.capacity \in ComputeUnits
  BY DEF CapabilityEntry
<1>2. FitsWithin(a, f.capacity)
  BY <1>1, FitsWithinTransitive
<1> QED BY <1>2 DEF Lookup

LEMMA CandidatesAreProviders ==
    ASSUME entries \subseteq CapabilityEntry, NEW j \in Jobs
    PROVE  Candidates(j) \subseteq Providers
BY DEF Candidates, Lookup, CapabilityEntry

(* The first routable entry is queued and really ahead of every other      *)
(* entry that could be served.                                             *)
LEMMA FirstIsAhead ==
    ASSUME NEW e \in FirstRoutable
    PROVE  /\ e \in queued
           /\ Routable(e.job)
           /\ \A f \in queued : Routable(f.job) => f = e \/ Ahead(e, f)
BY DEF FirstRoutable

LEMMA EntriesOfTyped ==
    ASSUME NEW p \in Providers
    PROVE  EntriesOf(p) \subseteq CapabilityEntry
BY ProvidersAssumption DEF EntriesOf, CapabilityEntry

(* The type invariant: every field of the scheduler and the registry keeps *)
(* its type through every call, refused, raising or successful.            *)
THEOREM TypeCorrect == Spec => []TypeOK
<1>1. Init => TypeOK
  BY ProvidersAssumption DEF Init, RegistryInit, TypeOK, RegistryTypeOK, Drain, NoDrain
<1>2. TypeOK /\ [Next]_vars => TypeOK'
  <2> SUFFICES ASSUME TypeOK, [Next]_vars PROVE TypeOK'
    OBVIOUS
  <2> USE DEF TypeOK, RegistryTypeOK
  <2>1. CASE Operate
    <3>1. PICK p \in Providers : Register(p) \/ SetEnabled(p)
      BY <2>1 DEF Operate
    <3>2. CASE Register(p)
      BY <2>1, <3>2, EntriesOfTyped, ProvidersAssumption DEF Operate, Register
    <3>3. CASE SetEnabled(p)
      BY <2>1, <3>3 DEF Operate, SetEnabled
    <3> QED BY <3>1, <3>2, <3>3
  <2>2. ASSUME NEW j \in Jobs, Submit(j) PROVE TypeOK'
    <3>1. [priority |-> PriorityOf[j], seq |-> sequence, job |-> j] \in Entry
      BY PriorityAssumption DEF Entry
    <3> QED BY <2>2, <3>1 DEF Submit, registryVars
  <2>3. ASSUME NEW e \in FirstRoutable, NEW p \in Cheapest(e.job), Take(e, p)
        PROVE  /\ e \in Entry
               /\ queued' \subseteq Entry
               /\ sequence' \in Nat => dispatched' \subseteq Record
    <3>1. e \in Entry
      BY FirstIsAhead
    <3>2. p \in Providers
      BY <3>1, CandidatesAreProviders DEF Entry, Cheapest
    <3>3. [entry |-> e, provider |-> p, at |-> sequence] \in Record
      BY <3>1, <3>2 DEF Record
    <3> QED BY <2>3, <3>1, <3>3 DEF Take
  <2>4. CASE DispatchStep
    <3>0. PICK e \in FirstRoutable : \E p \in Cheapest(e.job) : Dispatch(e, p)
      BY <2>4 DEF DispatchStep
    <3>1. PICK p \in Cheapest(e.job) : Dispatch(e, p)
      BY <3>0
    <3>2. Take(e, p)
      BY <3>1 DEF Dispatch
    <3>3. e.seq \in Nat
      BY <2>3, <3>2 DEF Entry
    <3> QED BY <2>3, <3>1, <3>2, <3>3 DEF Dispatch, registryVars
  <2>5. CASE DispatchNothing
    BY <2>5 DEF DispatchNothing, registryVars
  <2>6. CASE DispatchRaises
    BY <2>6 DEF DispatchRaises, registryVars
  <2>7. ASSUME NEW limit \in 0..MaxLimit, StartDrain(limit) PROVE TypeOK'
    BY <2>7, BoundsAssumption DEF StartDrain, registryVars, Drain
  <2>8. CASE DrainStep
    <3>1. ASSUME NEW e \in FirstRoutable, NEW p \in Cheapest(e.job),
                 DrainDispatch(e, p)
          PROVE  TypeOK'
      <4>1. Take(e, p)
        BY <3>1 DEF DrainDispatch
      <4>2. e.seq \in Nat
        BY <2>3, <4>1 DEF Entry
      <4>3. drain' \in Drain
        <5>1. drain.left \in Nat /\ drain.left > 0 /\ drain.list \subseteq Nat
          BY <3>1 DEF DrainDispatch, Drain
        <5>2. drain' = [active |-> drain.active, left |-> drain.left - 1,
                        list |-> drain.list \cup {e.seq}]
          BY <3>1 DEF DrainDispatch, Drain
        <5>3. drain.left - 1 \in Nat /\ drain.list \cup {e.seq} \subseteq Nat
          BY <5>1, <4>2
        <5> QED BY <5>2, <5>3 DEF Drain
      <4> QED BY <2>3, <3>1, <4>1, <4>3 DEF DrainDispatch, registryVars
    <3>2. CASE DrainReturns
      BY <3>2 DEF DrainReturns, registryVars, Drain, NoDrain
    <3>3. CASE DrainRaises
      BY <3>3 DEF DrainRaises, registryVars, Drain, NoDrain
    <3> QED BY <2>8, <3>1, <3>2, <3>3 DEF DrainStep
  <2>9. CASE UNCHANGED vars
    BY <2>9 DEF vars, registryVars, schedulerVars
  <2> QED BY <2>1, <2>2, <2>4, <2>5, <2>6, <2>7, <2>8, <2>9 DEF Next
<1> QED BY <1>1, <1>2, PTL DEF Spec

-------------------------------------------------------------------------------
(* The steps of Next, seen only through what they do to the queue and to   *)
(* the history: the case split every proof below goes by.                  *)
QueueUntouched == UNCHANGED <<queued, sequence, dispatched>>
Submits == \E j \in Jobs : Submit(j)
Takes ==
    /\ \E e \in FirstRoutable : \E p \in Cheapest(e.job) :
          /\ Take(e, p)
          /\ \/ delivered' = delivered \cup {e.seq} /\ drain' = drain
             \/ /\ drain'.list = drain.list \cup {e.seq}
                /\ delivered' = delivered
    /\ UNCHANGED <<registryVars, sequence>>

LEMMA StepKinds ==
    ASSUME TypeOK, [Next]_vars
    PROVE  Submits \/ Takes \/ QueueUntouched
<1>1. CASE Operate
  BY <1>1 DEF Operate, QueueUntouched
<1>2. CASE DispatchStep
  BY <1>2 DEF DispatchStep, Dispatch, Takes
<1>3. CASE DispatchNothing \/ DispatchRaises
  BY <1>3 DEF DispatchNothing, DispatchRaises, QueueUntouched
<1>4. CASE \E limit \in 0..MaxLimit : StartDrain(limit)
  BY <1>4 DEF StartDrain, QueueUntouched
<1>5. CASE DrainStep
  <2>1. ASSUME NEW e \in FirstRoutable, NEW p \in Cheapest(e.job),
               DrainDispatch(e, p)
        PROVE  Takes
    BY <2>1 DEF DrainDispatch, Takes, TypeOK, Drain
  <2>2. CASE DrainReturns \/ DrainRaises
    BY <2>2 DEF DrainReturns, DrainRaises, QueueUntouched
  <2> QED BY <1>5, <2>1, <2>2 DEF DrainStep
<1>6. CASE UNCHANGED vars
  BY <1>6 DEF vars, schedulerVars, QueueUntouched
<1> QED BY <1>1, <1>2, <1>3, <1>4, <1>5, <1>6 DEF Next, Submits

-------------------------------------------------------------------------------
(* No registration ever breaks this: an entry of the registry says what its *)
(* provider advertised, inside its lane, and an id belongs to one provider. *)
RegistrySound ==
    /\ \A f \in entries :
          /\ f.capability \in Lane[f.provider]
          /\ f.capability \in DOMAIN Advertised[f.provider]
          /\ f.capacity = Advertised[f.provider][f.capability]
          /\ ProviderId[f.provider] \in providerIds
    /\ \A f, g \in entries :
          ProviderId[f.provider] = ProviderId[g.provider]
              => f.provider = g.provider

LEMMA RegistrySoundStep ==
    ASSUME TypeOK, RegistrySound, [Next]_vars
    PROVE  RegistrySound'
<1> USE DEF RegistrySound
<1>1. CASE UNCHANGED <<providerIds, entries>>
  BY <1>1
<1>2. ASSUME NEW p \in Providers, Register(p) PROVE RegistrySound'
  <2>1. \A f \in EntriesOf(p) :
           /\ f.provider = p
           /\ f.capability \in DOMAIN Advertised[p]
           /\ f.capability \in Lane[p]
           /\ f.capacity = Advertised[p][f.capability]
    BY <1>2 DEF EntriesOf, Register
  <2>2. \A f \in entries : ProviderId[f.provider] # ProviderId[p]
    BY <1>2 DEF Register
  <2>3. \A f \in entries' : f \in entries \/ f \in EntriesOf(p)
    BY <1>2 DEF Register
  <2>4. providerIds \subseteq providerIds' /\ ProviderId[p] \in providerIds'
    BY <1>2 DEF Register
  <2> QED BY <2>1, <2>2, <2>3, <2>4
<1>3. CASE Operate
  BY <1>1, <1>2, <1>3 DEF Operate, SetEnabled
<1>4. CASE UNCHANGED registryVars
  BY <1>1, <1>4 DEF registryVars
<1> QED BY <1>3, <1>4 DEF Next, Submit, DispatchStep, Dispatch, DispatchNothing,
             DispatchRaises, StartDrain, DrainStep, DrainDispatch, DrainReturns,
             DrainRaises, vars

LEMMA RegistrySoundAlways == Spec => []RegistrySound
<1>1. Init => RegistrySound
  BY DEF Init, RegistryInit, RegistrySound
<1>2. TypeOK /\ RegistrySound /\ [Next]_vars => RegistrySound'
  BY RegistrySoundStep
<1> QED BY <1>1, <1>2, TypeCorrect, PTL DEF Spec

(* One job, one provider: the router has a single answer for every job at  *)
(* every moment, for whatever providers were offered to the registry.      *)
THEOREM RoutingIsDeterministic == Spec => []RoutingDeterministic
<1>1. TypeOK /\ RegistrySound => RoutingDeterministic
  <2> SUFFICES ASSUME TypeOK, RegistrySound,
                      NEW j \in Jobs, NEW p \in Cheapest(j), NEW q \in Cheapest(j)
               PROVE  p = q
    BY DEF RoutingDeterministic
  <2>1. p \in Candidates(j) /\ q \in Candidates(j)
    BY DEF Cheapest
  <2>2. p \in Providers /\ q \in Providers
    BY <2>1, CandidatesAreProviders DEF TypeOK, RegistryTypeOK
  <2>3. NoDearer(p, q, j) /\ NoDearer(q, p, j)
    BY <2>1 DEF Cheapest
  <2>4. Cost[p][j] \in Int /\ Cost[q][j] \in Int
    BY <2>2, JobsAssumption
  <2>5. ProviderId[p] \in Nat /\ ProviderId[q] \in Nat
    BY <2>2, ProvidersAssumption
  <2>6. ProviderId[p] = ProviderId[q]
    BY <2>3, <2>4, <2>5 DEF NoDearer
  <2>7. \E f, g \in entries : f.provider = p /\ g.provider = q
    BY <2>1 DEF Candidates, Lookup
  <2> QED BY <2>6, <2>7 DEF RegistrySound
<1> QED BY <1>1, TypeCorrect, RegistrySoundAlways, PTL

(* The lane barrier: no dispatch ever pairs a job with a provider that is  *)
(* outside its lane or too small for it.                                   *)
THEOREM LaneBarrierHolds == Spec => []LaneBarrier
<1>1. Init => LaneBarrier
  BY DEF Init, LaneBarrier
<1>2. TypeOK /\ RegistrySound /\ LaneBarrier /\ [Next]_vars => LaneBarrier'
  <2> SUFFICES ASSUME TypeOK, RegistrySound, LaneBarrier, [Next]_vars
               PROVE  LaneBarrier'
    OBVIOUS
  <2>1. CASE UNCHANGED dispatched
    BY <2>1 DEF LaneBarrier
  <2>2. CASE Takes
    <3>1. PICK e \in FirstRoutable : \E p \in Cheapest(e.job) : Take(e, p)
      BY <2>2 DEF Takes
    <3>2. PICK p \in Cheapest(e.job) : Take(e, p)
      BY <3>1
    <3>3. PICK f \in entries :
             /\ f.provider = p
             /\ f.capability = Capability[e.job]
             /\ FitsWithin(Requirements[e.job], f.capacity)
      BY DEF Cheapest, Candidates, Lookup
    <3>4. /\ Capability[e.job] \in Lane[p]
          /\ Capability[e.job] \in DOMAIN Advertised[p]
          /\ FitsWithin(Requirements[e.job], Advertised[p][Capability[e.job]])
      BY <3>3 DEF RegistrySound
    <3> DEFINE rec == [entry |-> e, provider |-> p, at |-> sequence]
    <3>5. dispatched' = dispatched \cup {rec}
      BY <3>2 DEF Take
    <3>6. rec.entry = e /\ rec.provider = p
      OBVIOUS
    <3> QED BY <3>4, <3>5, <3>6 DEF LaneBarrier
  <2> QED BY <2>1, <2>2, StepKinds DEF Submits, Submit, QueueUntouched
<1> QED BY <1>1, <1>2, TypeCorrect, RegistrySoundAlways, PTL DEF Spec

-------------------------------------------------------------------------------
(* NoOvertaking is not inductive alone: a new submission must be known to   *)
(* come after every dispatch made so far.                                   *)
NoOvertakingInv ==
    /\ \A e \in queued : e.seq < sequence
    /\ \A r \in dispatched : r.entry.seq < r.at /\ r.at <= sequence
    /\ NoOvertaking

LEMMA AheadIsStrict ==
    ASSUME NEW e \in Entry, NEW f \in Entry, Ahead(e, f)
    PROVE  e # f /\ ~Ahead(f, e)
BY DEF Ahead, Entry, Priority, BASE, IDLE

LEMMA NoOvertakingStep ==
    ASSUME TypeOK, NoOvertakingInv, [Next]_vars
    PROVE  NoOvertakingInv'
<1> USE DEF NoOvertakingInv
<1> /\ queued \subseteq Entry /\ dispatched \subseteq Record /\ sequence \in Nat
  BY DEF TypeOK
<1>1. CASE QueueUntouched
  BY <1>1 DEF QueueUntouched, NoOvertaking
<1>2. CASE Submits
  <2>1. PICK j \in Jobs : Submit(j)
    BY <1>2 DEF Submits
  <2> DEFINE new == [priority |-> PriorityOf[j], seq |-> sequence, job |-> j]
  <2>2. /\ queued' = queued \cup {new}
        /\ sequence' = sequence + 1
        /\ dispatched' = dispatched
    BY <2>1 DEF Submit
  <2>3. \A r \in dispatched : r.at \in Nat /\ r.entry.seq \in Nat
    BY DEF Record, Entry
  <2>4. \A e \in queued : e.seq \in Nat
    BY DEF Entry
  <2>5. new.seq = sequence
    OBVIOUS
  <2>6. \A e \in queued' : e.seq < sequence'
    BY <2>2, <2>4, <2>5
  <2>7. \A r \in dispatched' : r.entry.seq < r.at /\ r.at <= sequence'
    BY <2>2, <2>3
  <2>8. \A r \in dispatched : ~(new.seq < r.at)
    BY <2>3, <2>5
  <2>9. NoOvertaking'
    BY <2>2, <2>8 DEF NoOvertaking
  <2> QED BY <2>6, <2>7, <2>9
<1>3. CASE Takes
  <2>1. PICK e \in FirstRoutable : \E p \in Cheapest(e.job) : Take(e, p)
    BY <1>3 DEF Takes
  <2>2. PICK p \in Cheapest(e.job) : Take(e, p)
    BY <2>1
  <2> DEFINE rec == [entry |-> e, provider |-> p, at |-> sequence]
  <2>3. /\ queued' = queued \ {e}
        /\ dispatched' = dispatched \cup {rec}
        /\ sequence' = sequence
    BY <1>3, <2>2 DEF Take, Takes
  <2>4. rec.entry = e /\ rec.at = sequence /\ e \in queued
    BY FirstIsAhead
  <2>5. ASSUME NEW w \in queued, w # e, Ahead(w, e),
               Capability[w.job] = Capability[e.job],
               FitsWithin(Requirements[w.job], Requirements[e.job])
        PROVE  FALSE
    <3>1. w.job \in Jobs /\ e.job \in Jobs /\ w \in Entry /\ e \in Entry
      BY <2>4 DEF Entry
    <3>2. Requirements[w.job] \in ComputeUnits /\ Requirements[e.job] \in ComputeUnits
      BY <3>1, JobsAssumption
    <3>3. Candidates(e.job) \subseteq Candidates(w.job)
      BY <2>5, <3>2, LookupMonotone DEF Candidates, TypeOK, RegistryTypeOK
    <3>4. Routable(w.job)
      BY <3>3, FirstIsAhead DEF Routable
    <3>5. Ahead(e, w)
      BY <2>5, <3>4, FirstIsAhead
    <3> QED BY <2>5, <3>1, <3>5, AheadIsStrict
  <2>6. NoOvertaking'
    BY <2>3, <2>4, <2>5 DEF NoOvertaking
  <2>7. \A f \in queued' : f.seq < sequence'
    BY <2>3
  <2>8. \A r \in dispatched' : r.entry.seq < r.at /\ r.at <= sequence'
    BY <2>3, <2>4
  <2> QED BY <2>6, <2>7, <2>8
<1> QED BY <1>1, <1>2, <1>3, StepKinds

(* Lane order and FIFO order survive any history of submissions, switches, *)
(* registrations, dispatches and drains.                                   *)
THEOREM NobodyIsOvertaken == Spec => []NoOvertaking
<1>1. Init => NoOvertakingInv
  BY DEF Init, NoOvertakingInv, NoOvertaking
<1>2. TypeOK /\ NoOvertakingInv /\ [Next]_vars => NoOvertakingInv'
  BY NoOvertakingStep
<1>3. NoOvertakingInv => NoOvertaking
  BY DEF NoOvertakingInv
<1> QED BY <1>1, <1>2, <1>3, TypeCorrect, PTL DEF Spec

-------------------------------------------------------------------------------
LEMMA ExactlyOnceStep ==
    ASSUME TypeOK, ExactlyOnce, [Next]_vars
    PROVE  ExactlyOnce'
<1> /\ queued \subseteq Entry /\ dispatched \subseteq Record /\ sequence \in Nat
  BY DEF TypeOK
<1>1. CASE Operate
  BY <1>1 DEF Operate, ExactlyOnce, Seqs, DispatchedSeqs
<1>2. ASSUME NEW j \in Jobs, Submit(j) PROVE ExactlyOnce'
  <2> DEFINE new == [priority |-> PriorityOf[j], seq |-> sequence, job |-> j]
  <2>1. /\ queued' = queued \cup {new} /\ sequence' = sequence + 1
        /\ UNCHANGED <<dispatched, delivered, drain>>
    BY <1>2 DEF Submit
  <2>2. DispatchedSeqs' = DispatchedSeqs
    BY <2>1 DEF DispatchedSeqs
  <2>3. Seqs(queued') = Seqs(queued) \cup {sequence}
    <3>1. new.seq = sequence
      OBVIOUS
    <3> HIDE DEF new
    <3> QED BY <2>1, <3>1 DEF Seqs
  <2>4. 0..(sequence' - 1) = 0..(sequence - 1) \cup {sequence}
    BY <2>1
  <2>5. sequence \notin 0..(sequence - 1)
    OBVIOUS
  <2>6. \A e \in queued : e.seq # sequence
    BY <2>5 DEF ExactlyOnce, Seqs
  <2>7. \A e, f \in queued' : e.seq = f.seq => e = f
    BY <2>1, <2>6 DEF ExactlyOnce
  <2>8. sequence \notin DispatchedSeqs
    BY <2>5 DEF ExactlyOnce
  <2>9. Seqs(queued') \cup DispatchedSeqs' = 0..(sequence' - 1)
    BY <2>2, <2>3, <2>4 DEF ExactlyOnce
  <2>10. Seqs(queued') \cap DispatchedSeqs' = {}
    BY <2>2, <2>3, <2>8 DEF ExactlyOnce
  <2> QED BY <2>1, <2>2, <2>7, <2>9, <2>10 DEF ExactlyOnce
<1>3. CASE Takes
  <2>1. PICK e \in FirstRoutable :
           /\ \E p \in Cheapest(e.job) : Take(e, p)
           /\ \/ delivered' = delivered \cup {e.seq} /\ drain' = drain
              \/ /\ drain'.list = drain.list \cup {e.seq}
                 /\ delivered' = delivered
    BY <1>3 DEF Takes
  <2>2. PICK p \in Cheapest(e.job) : Take(e, p)
    BY <2>1
  <2> DEFINE rec == [entry |-> e, provider |-> p, at |-> sequence]
  <2>3. /\ queued' = queued \ {e}
        /\ dispatched' = dispatched \cup {rec}
        /\ sequence' = sequence
    BY <1>3, <2>2 DEF Take, Takes
  <2>4. e \in queued /\ e.seq \in Seqs(queued)
    BY FirstIsAhead DEF Seqs
  <2>5. Seqs(queued') = Seqs(queued) \ {e.seq}
    BY <2>3, <2>4 DEF ExactlyOnce, Seqs
  <2>6. DispatchedSeqs' = DispatchedSeqs \cup {e.seq}
    <3>1. rec.entry.seq = e.seq
      OBVIOUS
    <3> QED BY <2>3, <3>1 DEF DispatchedSeqs
  <2>7. e.seq \notin DispatchedSeqs
    BY <2>4 DEF ExactlyOnce
  <2>8. \A r \in dispatched : r.entry.seq # e.seq
    BY <2>7 DEF DispatchedSeqs
  <2>9. \A r, s \in dispatched' : r.entry.seq = s.entry.seq => r = s
    BY <2>3, <2>8 DEF ExactlyOnce
  <2>10. \A f, g \in queued' : f.seq = g.seq => f = g
    BY <2>3 DEF ExactlyOnce
  <2>11. /\ (delivered \cup drain.list \subseteq DispatchedSeqs)'
         /\ (delivered \cap drain.list = {})'
    BY <2>1, <2>6, <2>7 DEF ExactlyOnce
  <2>12. Seqs(queued') \cup DispatchedSeqs' = 0..(sequence' - 1)
    <3>1. Seqs(queued') \cup DispatchedSeqs' = Seqs(queued) \cup DispatchedSeqs
      BY <2>4, <2>5, <2>6
    <3>2. Seqs(queued) \cup DispatchedSeqs = 0..(sequence - 1)
      BY DEF ExactlyOnce
    <3> QED BY <2>3, <3>1, <3>2
  <2>13. Seqs(queued') \cap DispatchedSeqs' = {}
    BY <2>5, <2>6, <2>7 DEF ExactlyOnce
  <2> QED BY <2>9, <2>10, <2>11, <2>12, <2>13 DEF ExactlyOnce
<1>4. CASE DispatchNothing \/ DispatchRaises
  BY <1>4 DEF DispatchNothing, DispatchRaises, ExactlyOnce, Seqs, DispatchedSeqs
<1>5. ASSUME NEW limit \in 0..MaxLimit, StartDrain(limit) PROVE ExactlyOnce'
  BY <1>5 DEF StartDrain, ExactlyOnce, Seqs, DispatchedSeqs
<1>6. CASE DrainReturns \/ DrainRaises
  BY <1>6 DEF DrainReturns, DrainRaises, NoDrain, ExactlyOnce, Seqs, DispatchedSeqs
<1>7. CASE UNCHANGED vars
  BY <1>7 DEF vars, schedulerVars, ExactlyOnce, Seqs, DispatchedSeqs
<1>8. DispatchStep => Takes
  BY DEF DispatchStep, Dispatch, Takes
<1>9. DrainStep => Takes \/ DrainReturns \/ DrainRaises
  BY DEF DrainStep, DrainDispatch, Takes, TypeOK, Drain
<1> QED BY <1>1, <1>2, <1>3, <1>4, <1>5, <1>6, <1>7, <1>8, <1>9 DEF Next

(* No submission is lost inside the scheduler or dispatched twice.         *)
THEOREM ExactlyOnceHolds == Spec => []ExactlyOnce
<1>1. Init => ExactlyOnce
  BY DEF Init, NoDrain, ExactlyOnce, Seqs, DispatchedSeqs
<1>2. TypeOK /\ ExactlyOnce /\ [Next]_vars => ExactlyOnce'
  BY ExactlyOnceStep
<1> QED BY <1>1, <1>2, TypeCorrect, PTL DEF Spec

-------------------------------------------------------------------------------
(* The idle rule as the code keeps it: no step, single or inside a drain,   *)
(* takes an idle job while a provider is there for one of a higher lane     *)
(* (scheduler.py dispatch(), the sorted loop over select()).               *)
THEOREM IdleJobsYield == Spec => IdleYieldsToRoutable
<1>1. TypeOK /\ [Next]_vars =>
         [\A r \in dispatched' \ dispatched :
             r.entry.priority = IDLE =>
                 \A w \in queued : w.priority < IDLE => ~Routable(w.job)]_vars
  <2> SUFFICES ASSUME TypeOK, [Next]_vars,
                      NEW r \in dispatched' \ dispatched, r.entry.priority = IDLE,
                      NEW w \in queued, w.priority < IDLE, Routable(w.job)
               PROVE  FALSE
    OBVIOUS
  <2>1. Takes
    BY StepKinds DEF Submits, Submit, QueueUntouched
  <2>2. PICK e \in FirstRoutable : \E p \in Cheapest(e.job) : Take(e, p)
    BY <2>1 DEF Takes
  <2>3. PICK p \in Cheapest(e.job) : Take(e, p)
    BY <2>2
  <2>4. r = [entry |-> e, provider |-> p, at |-> sequence]
    BY <2>3 DEF Take
  <2>5. e.priority = IDLE /\ e # w
    <3>1. e.priority = IDLE
      BY <2>4
    <3> QED BY <3>1 DEF IDLE
  <2>6. Ahead(e, w)
    BY <2>5, FirstIsAhead
  <2>7. w \in Entry
    BY DEF TypeOK
  <2> QED BY <2>5, <2>6, <2>7 DEF Ahead, Entry, Priority, BASE, IDLE
<1> QED BY <1>1, TypeCorrect, PTL DEF Spec, IdleYieldsToRoutable

-------------------------------------------------------------------------------
(* Between two drains nothing is being collected, so that none is lost when *)
(* the next one begins.                                                    *)
NothingCollected == ~drain.active => drain.list = {}

LEMMA NothingCollectedStep ==
    ASSUME TypeOK, NothingCollected, [Next]_vars
    PROVE  NothingCollected'
<1>1. CASE UNCHANGED drain
  BY <1>1 DEF NothingCollected
<1>2. ASSUME NEW limit \in 0..MaxLimit, StartDrain(limit) PROVE NothingCollected'
  BY <1>2 DEF StartDrain, NothingCollected
<1>3. CASE DrainStep
  <2>1. ASSUME NEW e \in FirstRoutable, NEW p \in Cheapest(e.job), DrainDispatch(e, p)
        PROVE  NothingCollected'
    BY <2>1 DEF DrainDispatch, TypeOK, Drain, NothingCollected
  <2>2. CASE DrainReturns \/ DrainRaises
    BY <2>2 DEF DrainReturns, DrainRaises, NoDrain, NothingCollected
  <2> QED BY <1>3, <2>1, <2>2 DEF DrainStep
<1> QED BY <1>1, <1>2, <1>3 DEF Next, Operate, Submit, DispatchStep, Dispatch,
           DispatchNothing, DispatchRaises, vars, schedulerVars

(* What was handed out stays with the driver, and what a drain collects     *)
(* reaches it, but for a drain in which a dispatch raises (drain() returns  *)
(* its list only at the end).                                              *)
THEOREM LossNeedsRaise == Spec => LostOnlyInRaisedDrain
<1>1. Init => NothingCollected
  BY DEF Init, NoDrain, NothingCollected
<1>2. TypeOK /\ NothingCollected /\ [Next]_vars => NothingCollected'
  BY NothingCollectedStep
<1>3. TypeOK /\ NothingCollected /\ [Next]_vars =>
         [\A n \in DispatchedSeqs' \ (delivered \cup drain.list)' :
             \/ n \in DispatchedSeqs \ (delivered \cup drain.list)
             \/ drain.active /\ outcome' = "raised"]_vars
  <2> SUFFICES ASSUME TypeOK, NothingCollected, [Next]_vars, NEW n \in DispatchedSeqs',
                      n \notin delivered' \cup drain'.list,
                      n \notin DispatchedSeqs \/ n \in delivered \cup drain.list,
                      ~UNCHANGED vars
               PROVE  drain.active /\ outcome' = "raised"
    OBVIOUS
  <2>1. ASSUME dispatched' = dispatched PROVE n \in delivered \cup drain.list
    BY <2>1 DEF DispatchedSeqs
  <2>2. ~UNCHANGED <<dispatched, drain, delivered>>
    BY <2>1
  <2>3. ASSUME NEW e, NEW p, Take(e, p)
        PROVE  n \in DispatchedSeqs \cup {e.seq}
    BY <2>3 DEF Take, DispatchedSeqs
  <2>4. ASSUME NEW e \in FirstRoutable, NEW p \in Cheapest(e.job)
        PROVE  ~Dispatch(e, p)
    BY <2>3 DEF Dispatch
  <2>5. ASSUME NEW e \in FirstRoutable, NEW p \in Cheapest(e.job)
        PROVE  ~DrainDispatch(e, p)
    BY <2>3 DEF DrainDispatch, TypeOK, Drain
  <2>6. ASSUME NEW limit \in 0..MaxLimit PROVE ~StartDrain(limit)
    BY <2>1 DEF StartDrain, Idle, NothingCollected
  <2>7. ~DrainReturns
    BY <2>1 DEF DrainReturns
  <2>8. DispatchStep \/ DrainStep
    BY <2>2, <2>6 DEF Next, Operate, Submit, DispatchNothing, DispatchRaises, vars,
       schedulerVars
  <2>9. DrainRaises
    BY <2>4, <2>5, <2>7, <2>8 DEF DrainStep, DispatchStep
  <2> QED BY <2>9 DEF DrainRaises
<1> QED BY <1>1, <1>2, <1>3, TypeCorrect, PTL DEF Spec, LostOnlyInRaisedDrain
===============================================================================
