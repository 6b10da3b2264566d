------------------------------- MODULE MrrProofs -------------------------------
(***************************************************************************)
(* Proofs about the rate limiter and the MRR adapter that uses it, for     *)
(* every ceiling, window and number of threads.                            *)
(***************************************************************************)
EXTENDS Mrr, TLAPS, SequenceTheorems, FiniteSetTheorems, WellFoundedInduction

USE LimiterAssumption, CallersAssumption

(* A non-empty set of naturals has a least element. *)
LEMMA LeastElement ==
    ASSUME NEW T \in SUBSET Nat, T # {}
    PROVE  \E m \in T : \A k \in T : m <= k
<1>1. PICK m \in T : \A k \in T : ~ (<<k, m>> \in OpToRel(<, Nat))
  BY NatLessThanWellFounded, WFMin, Zenon
<1>2. \A k \in T : ~ (k < m)
  BY <1>1 DEF OpToRel
<1> QED BY <1>2

-------------------------------------------------------------------------------
(* The loop of acquire().                                                   *)

(* The number of calls the loop drops is well defined: those before it      *)
(* have expired, and the one behind it, if any, has not.                   *)
LEMMA DroppedStops ==
    ASSUME LimiterTypeOK
    PROVE  /\ Dropped \in 0..Len(calls)
           /\ \A i \in 1..Dropped : Expired(calls[i])
           /\ Dropped < Len(calls) => ~Expired(calls[Dropped + 1])
<1> DEFINE Stops(d) == d < Len(calls) => ~Expired(calls[d + 1])
           T == {d \in 0..Len(calls) : Stops(d)}
<1>1. Len(calls) \in Nat
  BY DEF LimiterTypeOK
<1>2. Len(calls) \in T
  BY <1>1
<1>3. PICK m \in T : \A k \in T : m <= k
  <2>1. T \in SUBSET Nat
    BY <1>1
  <2>2. T # {}
    BY <1>2
  <2> HIDE DEF T
  <2> QED BY <2>1, <2>2, LeastElement
<1>4. ASSUME NEW i \in 1..m PROVE Expired(calls[i])
  <2>1. m \in 0..Len(calls) /\ i \in Nat /\ i - 1 \in 0..Len(calls) /\ i - 1 < m
    BY <1>1, <1>3
  <2>2. i - 1 \notin T
    <3> HIDE DEF T
    <3> QED BY <1>3, <2>1
  <2>3. ~Stops(i - 1)
    BY <2>1, <2>2
  <2> QED BY <1>1, <2>1, <2>3
<1>5. \E d \in 0..Len(calls) :
          /\ \A i \in 1..d : Expired(calls[i])
          /\ d < Len(calls) => ~Expired(calls[d + 1])
  BY <1>3, <1>4
<1> QED BY <1>5 DEF Dropped

LEMMA KeptProperties ==
    ASSUME LimiterTypeOK
    PROVE  /\ Kept \in Seq(Nat)
           /\ Len(Kept) = Len(calls) - Dropped
           /\ \A i \in 1..Len(Kept) : Kept[i] = calls[Dropped + i]
<1>1. Dropped \in 0..Len(calls) /\ Len(calls) \in Nat /\ calls \in Seq(Nat)
  BY DroppedStops DEF LimiterTypeOK
<1>2. \A i \in (Dropped + 1)..Len(calls) : calls[i] \in Nat
  BY <1>1, ElementOfSeq
<1> QED BY <1>1, <1>2, SubSeqProperties DEF Kept

-------------------------------------------------------------------------------
(* The deque is the end of the history, and what it no longer holds has     *)
(* expired.                                                                *)
Gone == Len(acquired) - Len(calls)

LimiterInv ==
    /\ LimiterTypeOK
    /\ Gone >= 0
    /\ Len(calls) <= MaxCalls
    /\ \A i \in 1..Len(calls) : calls[i] = acquired[Gone + i]
    /\ \A i \in 1..Gone : Expired(acquired[i])
    /\ \A i \in 1..Len(acquired) : acquired[i] <= now
    /\ \A i, j \in 1..Len(acquired) : i <= j => acquired[i] <= acquired[j]

(* What the loop leaves is the end of the history too, and all before it    *)
(* has expired.                                                            *)
LEMMA KeptIsRecent ==
    ASSUME LimiterInv
    PROVE  /\ Kept \in Seq(Nat)
           /\ Len(Kept) \in 0..Len(calls)
           /\ \A i \in 1..Len(Kept) :
                 Kept[i] = acquired[Len(acquired) - Len(Kept) + i]
           /\ \A i \in 1..(Len(acquired) - Len(Kept)) : Expired(acquired[i])
           /\ Len(Kept) > 0 => ~Expired(acquired[Len(acquired) - Len(Kept) + 1])
<1>0. /\ Gone = Len(acquired) - Len(calls) /\ Gone >= 0
      /\ \A i \in 1..Len(calls) : calls[i] = acquired[Gone + i]
      /\ \A i \in 1..Gone : Expired(acquired[i])
  BY DEF LimiterInv, Gone
<1>1. /\ calls \in Seq(Nat) /\ Len(calls) \in Nat
      /\ acquired \in Seq(Nat) /\ Len(acquired) \in Nat
  BY DEF LimiterInv, LimiterTypeOK
<1>2. /\ Dropped \in 0..Len(calls)
      /\ \A i \in 1..Dropped : Expired(calls[i])
      /\ Dropped < Len(calls) => ~Expired(calls[Dropped + 1])
  BY DroppedStops DEF LimiterInv
<1>3. /\ Kept \in Seq(Nat)
      /\ Len(Kept) = Len(calls) - Dropped
      /\ \A i \in 1..Len(Kept) : Kept[i] = calls[Dropped + i]
  BY KeptProperties DEF LimiterInv
<1>4. Dropped \in Nat /\ Len(Kept) \in Nat /\ Len(Kept) \in 0..Len(calls)
  BY <1>1, <1>2, <1>3
<1>5. ASSUME NEW i \in 1..Len(Kept)
      PROVE  Kept[i] = acquired[Len(acquired) - Len(Kept) + i]
  <2>1. Dropped + i \in 1..Len(calls)
    BY <1>1, <1>3, <1>4
  <2>2. Gone + (Dropped + i) = Len(acquired) - Len(Kept) + i
    BY <1>0, <1>1, <1>3, <1>4, <2>1
  <2>3. calls[Dropped + i] = acquired[Gone + (Dropped + i)]
    BY <1>0, <2>1
  <2> QED BY <1>3, <2>2, <2>3
<1>6. ASSUME NEW i \in 1..(Len(acquired) - Len(Kept))
      PROVE  Expired(acquired[i])
  <2>1. CASE i \in 1..Gone
    BY <1>0, <2>1
  <2>2. CASE i \notin 1..Gone
    <3>0. Gone \in Nat /\ i \in Nat /\ i > Gone /\ i - Gone <= Dropped
      BY <1>0, <1>1, <1>3, <1>4, <2>2
    <3>1. i - Gone \in 1..Dropped /\ i - Gone \in 1..Len(calls)
      BY <1>1, <1>3, <1>4, <3>0
    <3>2. Gone + (i - Gone) = i
      BY <3>0
    <3>3. calls[i - Gone] = acquired[Gone + (i - Gone)]
      BY <1>0, <3>1
    <3> QED BY <1>2, <3>1, <3>2, <3>3
  <2> QED BY <2>1, <2>2
<1>7. ASSUME Len(Kept) > 0
      PROVE  ~Expired(acquired[Len(acquired) - Len(Kept) + 1])
  <2>1. Dropped < Len(calls) /\ 1 \in 1..Len(Kept)
    BY <1>1, <1>3, <1>4, <1>7
  <2>2. Kept[1] = calls[Dropped + 1]
    BY <1>3, <2>1
  <2> QED BY <1>2, <1>5, <2>1, <2>2
<1> QED BY <1>3, <1>4, <1>5, <1>6, <1>7

(* acquire() lets a call through exactly when the window is free.           *)
LEMMA KeptIsTheWindow ==
    ASSUME LimiterInv
    PROVE  Len(Kept) < MaxCalls <=> Limiter!Free
<1> DEFINE n == Len(acquired)
           k == n - MaxCalls + 1
<1>1. n \in Nat /\ acquired \in Seq(Nat) /\ now \in Nat
  BY DEF LimiterInv, LimiterTypeOK
<1>2. Len(Kept) \in Nat /\ Len(Kept) <= n
  BY <1>1, KeptIsRecent DEF LimiterInv, LimiterTypeOK, Gone
<1>3. ASSUME Len(Kept) < MaxCalls, ~(n < MaxCalls)
      PROVE  now - acquired[k] >= PerSeconds
  <2>1. k \in 1..(n - Len(Kept))
    BY <1>1, <1>2, <1>3
  <2>2. Expired(acquired[k])
    BY <2>1, KeptIsRecent
  <2> QED BY <2>2 DEF Expired
<1>4. ASSUME Len(Kept) >= MaxCalls
      PROVE  ~(n < MaxCalls) /\ ~(now - acquired[k] >= PerSeconds)
  <2>1. n - Len(Kept) + 1 \in 1..n /\ k \in 1..n /\ n - Len(Kept) + 1 <= k
    BY <1>1, <1>2, <1>4
  <2>2. ~Expired(acquired[n - Len(Kept) + 1])
    BY <1>2, <1>4, KeptIsRecent
  <2>3. acquired[n - Len(Kept) + 1] <= acquired[k]
    BY <2>1 DEF LimiterInv
  <2>4. acquired[n - Len(Kept) + 1] \in Nat /\ acquired[k] \in Nat
    BY <1>1, <2>1, ElementOfSeq
  <2>5. ~(n < MaxCalls)
    BY <1>1, <1>2, <1>4
  <2> QED BY <1>1, <2>2, <2>3, <2>4, <2>5 DEF Expired
<1> QED BY <1>1, <1>2, <1>3, <1>4 DEF Limiter!Free

-------------------------------------------------------------------------------
(* The three things that can happen to the limiter.                         *)
LEMMA AcquireStep ==
    ASSUME LimiterInv, Acquire
    PROVE  LimiterInv'
<1> DEFINE n == Len(acquired)
           m == Len(Kept)
<1>1. n \in Nat /\ acquired \in Seq(Nat) /\ now \in Nat /\ now' = now
  BY DEF LimiterInv, LimiterTypeOK, Acquire
<1>2. Kept \in Seq(Nat) /\ m \in Nat /\ m <= n /\ m < MaxCalls
  BY <1>1, KeptIsRecent DEF LimiterInv, LimiterTypeOK, Gone, Acquire
<1>3. /\ calls' = Append(Kept, now) /\ calls' \in Seq(Nat) /\ Len(calls') = m + 1
      /\ \A i \in 1..m : calls'[i] = Kept[i]
      /\ calls'[m + 1] = now
  BY <1>1, <1>2, AppendProperties DEF Acquire
<1>4. /\ acquired' = Append(acquired, now) /\ acquired' \in Seq(Nat) /\ Len(acquired') = n + 1
      /\ \A i \in 1..n : acquired'[i] = acquired[i]
      /\ acquired'[n + 1] = now
  BY <1>1, AppendProperties DEF Acquire
<1>5. Gone' = n - m /\ Gone' >= 0
  BY <1>1, <1>2, <1>3, <1>4 DEF Gone
<1>6. ASSUME NEW i \in 1..Len(calls') PROVE calls'[i] = acquired'[Gone' + i]
  <2>1. CASE i \in 1..m
    <3>1. n - m + i \in 1..n
      BY <1>1, <1>2, <2>1
    <3>2. Kept[i] = acquired[n - m + i]
      BY <2>1, KeptIsRecent
    <3> QED BY <1>3, <1>4, <1>5, <2>1, <3>1, <3>2
  <2>2. CASE i = m + 1
    <3>1. Gone' + i = n + 1
      BY <1>1, <1>2, <1>5, <2>2
    <3> QED BY <1>3, <1>4, <2>2, <3>1
  <2> QED BY <1>2, <1>3, <2>1, <2>2
<1>7. ASSUME NEW i \in 1..Gone' PROVE now' - acquired'[i] >= PerSeconds
  <2>1. i \in 1..(n - m) /\ i \in 1..n
    BY <1>1, <1>2, <1>5
  <2>2. Expired(acquired[i])
    BY <2>1, KeptIsRecent
  <2> QED BY <1>1, <1>4, <2>1, <2>2 DEF Expired
<1>8. /\ \A i \in 1..n : acquired[i] <= now
      /\ \A i, j \in 1..n : i <= j => acquired[i] <= acquired[j]
  BY DEF LimiterInv
<1>9. \A i \in 1..(n + 1) : acquired'[i] <= now
  BY <1>1, <1>4, <1>8
<1>10. \A i, j \in 1..(n + 1) : i <= j => acquired'[i] <= acquired'[j]
  BY <1>1, <1>4, <1>8, <1>9
<1>11. LimiterTypeOK'
  BY <1>1, <1>3, <1>4 DEF Acquire, LimiterTypeOK
<1>12. Len(calls') <= MaxCalls
  BY <1>2, <1>3
<1> QED BY <1>1, <1>4, <1>5, <1>6, <1>7, <1>9, <1>10, <1>11, <1>12 DEF LimiterInv, Expired

LEMMA ExceededStep ==
    ASSUME LimiterInv, Exceeded
    PROVE  LimiterInv'
<1> DEFINE n == Len(acquired)
           m == Len(Kept)
<1>1. /\ n \in Nat /\ now' = now /\ acquired' = acquired /\ calls' = Kept
      /\ verdict' = "refused"
  BY DEF LimiterInv, LimiterTypeOK, Exceeded
<1>2. /\ Kept \in Seq(Nat) /\ m \in Nat /\ m <= n /\ m <= MaxCalls
  BY <1>1, KeptIsRecent DEF LimiterInv, LimiterTypeOK, Gone
<1>3. Gone' = n - m /\ Gone' >= 0
  BY <1>1, <1>2 DEF Gone
<1>4. \A i \in 1..m : Kept[i] = acquired[Gone' + i]
  BY <1>3, KeptIsRecent
<1>5. \A i \in 1..Gone' : Expired(acquired[i])
  BY <1>3, KeptIsRecent
<1>6. LimiterTypeOK'
  BY <1>1, <1>2 DEF LimiterInv, LimiterTypeOK
<1> QED BY <1>1, <1>2, <1>3, <1>4, <1>5, <1>6 DEF LimiterInv, Expired

LEMMA AdvanceStep ==
    ASSUME LimiterInv, NEW limit \in Nat, Advance(limit)
    PROVE  LimiterInv'
<1>1. /\ now \in Nat /\ now' \in Nat /\ now' > now
      /\ calls' = calls /\ acquired' = acquired /\ verdict' = "none"
  BY DEF LimiterInv, LimiterTypeOK, Advance
<1>2. Gone' = Gone /\ LimiterTypeOK'
  BY <1>1 DEF Gone, LimiterInv, LimiterTypeOK
<1>3. \A i \in 1..Len(acquired) : acquired[i] \in Nat
  BY ElementOfSeq DEF LimiterInv, LimiterTypeOK
<1>4. Gone <= Len(acquired) /\ Gone \in Int
  BY DEF LimiterInv, LimiterTypeOK, Gone
<1>5. ASSUME NEW i \in 1..Gone PROVE now' - acquired[i] >= PerSeconds
  <2>1. Expired(acquired[i]) /\ acquired[i] \in Nat
    BY <1>3, <1>4 DEF LimiterInv
  <2> QED BY <1>1, <2>1 DEF Expired
<1>6. ASSUME NEW i \in 1..Len(acquired) PROVE acquired[i] <= now'
  <2>1. acquired[i] <= now /\ acquired[i] \in Nat
    BY <1>3 DEF LimiterInv
  <2> QED BY <1>1, <2>1
<1> QED BY <1>1, <1>2, <1>5, <1>6 DEF LimiterInv, Expired

(* Every step of the adapter is one of the three for the limiter, or none.  *)
LEMMA LimiterStepKinds ==
    ASSUME [Next]_vars
    PROVE  Acquire \/ Exceeded \/ Advance(MaxNow) \/ UNCHANGED limiterVars
<1>1. ASSUME NEW c \in Callers, CallerStep(c)
      PROVE  Acquire \/ Exceeded \/ UNCHANGED limiterVars
  BY <1>1 DEF CallerStep, Begin, Confirm, Reject, TakeSlot, Throttled, NothingSent,
              Send, Answered, CallFails, limiterVars
<1>2. ASSUME NEW gate \in Gates, Switch(gate) PROVE UNCHANGED limiterVars
  BY <1>2 DEF Switch
<1> QED BY <1>1, <1>2 DEF Next, ClockMoves, vars

LEMMA LimiterStutters ==
    ASSUME LimiterInv, UNCHANGED limiterVars
    PROVE  LimiterInv'
BY DEF LimiterInv, LimiterTypeOK, Gone, Expired, limiterVars

LEMMA LimiterInvAlways == Spec => []LimiterInv
<1>1. Init => LimiterInv
  <2> SUFFICES ASSUME Init PROVE LimiterInv
    OBVIOUS
  <2>1. now = 0 /\ calls = <<>> /\ acquired = <<>> /\ verdict = "none"
    BY DEF Init, LimiterInit
  <2>2. Len(calls) = 0 /\ Len(acquired) = 0
    BY <2>1
  <2>3. LimiterTypeOK
    BY <2>1 DEF LimiterTypeOK
  <2> QED BY <2>1, <2>2, <2>3 DEF LimiterInv, Gone
<1>2. LimiterInv /\ [Next]_vars => LimiterInv'
  BY LimiterStepKinds, AcquireStep, ExceededStep, AdvanceStep, LimiterStutters
<1> QED BY <1>1, <1>2, PTL DEF Spec

-------------------------------------------------------------------------------
(* For every ceiling and window: no stretch of PerSeconds holds more than   *)
(* MaxCalls of the calls acquire() let through, although the deque forgets *)
(* whatever has expired.                                                   *)
LEMMA CeilingStep ==
    ASSUME LimiterInv, CeilingKept, Acquire
    PROVE  CeilingKept'
<1> DEFINE n == Len(acquired)
           m == Len(Kept)
<1>1. n \in Nat /\ acquired \in Seq(Nat) /\ now \in Nat
  BY DEF LimiterInv, LimiterTypeOK
<1>2. m \in Nat /\ m < MaxCalls
  BY KeptIsRecent DEF LimiterInv, LimiterTypeOK, Acquire
<1>3. /\ Len(acquired') = n + 1
      /\ \A i \in 1..n : acquired'[i] = acquired[i]
      /\ acquired'[n + 1] = now
  BY <1>1, AppendProperties DEF Acquire
<1>4. ASSUME NEW i \in 1..(Len(acquired') - MaxCalls)
      PROVE  acquired'[i + MaxCalls] - acquired'[i] >= PerSeconds
  <2>1. CASE i + MaxCalls <= n
    <3>1. i \in 1..(n - MaxCalls) /\ i \in 1..n /\ i + MaxCalls \in 1..n
      BY <1>1, <1>3, <2>1
    <3>2. acquired[i + MaxCalls] - acquired[i] >= PerSeconds
      BY <3>1 DEF CeilingKept
    <3> QED BY <1>3, <3>1, <3>2
  <2>2. CASE i + MaxCalls = n + 1
    <3>1. i \in 1..(n - m) /\ i \in 1..n
      BY <1>1, <1>2, <1>3, <2>2
    <3>2. Expired(acquired[i])
      BY <3>1, KeptIsRecent
    <3> QED BY <1>3, <2>2, <3>1, <3>2 DEF Expired
  <2> QED BY <1>1, <1>3, <2>1, <2>2
<1> QED BY <1>4 DEF CeilingKept

THEOREM CeilingKeptHolds == Spec => []CeilingKept
<1>1. Init => CeilingKept
  BY DEF Init, LimiterInit, CeilingKept
<1>2. LimiterInv /\ CeilingKept /\ [Next]_vars => CeilingKept'
  <2> SUFFICES ASSUME LimiterInv, CeilingKept, [Next]_vars PROVE CeilingKept'
    OBVIOUS
  <2>1. CASE Acquire
    BY <2>1, CeilingStep
  <2>2. CASE acquired' = acquired
    BY <2>2 DEF CeilingKept
  <2> QED BY <2>1, <2>2, LimiterStepKinds DEF Exceeded, Advance, limiterVars
<1> QED BY <1>1, <1>2, LimiterInvAlways, PTL DEF Spec

(* The deque of rate_limit.py, trimmed only when somebody calls, implements *)
(* the window exactly: it lets through and refuses what the window does.   *)
THEOREM ImplementsWindowHolds == Spec => ImplementsWindow
<1>1. Init => Limiter!WindowInit
  BY DEF Init, LimiterInit, Limiter!WindowInit
<1>2. LimiterInv /\ [Next]_vars
          => [Limiter!Grant \/ Limiter!Refuse \/ Limiter!Pass]_<<now, acquired, verdict>>
  <2> SUFFICES ASSUME LimiterInv, [Next]_vars
               PROVE  [Limiter!Grant \/ Limiter!Refuse \/ Limiter!Pass]_<<now, acquired, verdict>>
    OBVIOUS
  <2>1. CASE Acquire
    BY <2>1, KeptIsTheWindow DEF Acquire, Limiter!Grant
  <2>2. CASE Exceeded
    <3>1. ~(Len(Kept) < MaxCalls)
      BY <2>2, KeptIsRecent DEF Exceeded, LimiterInv, LimiterTypeOK
    <3> QED BY <2>2, <3>1, KeptIsTheWindow DEF Exceeded, Limiter!Refuse
  <2>3. CASE Advance(MaxNow)
    BY <2>3 DEF Advance, Limiter!Pass, LimiterInv, LimiterTypeOK
  <2>4. CASE UNCHANGED limiterVars
    BY <2>4 DEF limiterVars
  <2> QED BY <2>1, <2>2, <2>3, <2>4, LimiterStepKinds
<1> QED BY <1>1, <1>2, LimiterInvAlways, PTL
    DEF Spec, ImplementsWindow, Limiter!WindowSpec, Limiter!windowVars

-------------------------------------------------------------------------------
(* Every variable of the adapter keeps its type.                            *)
THEOREM TypeCorrect == Spec => []TypeOK
<1>1. Init => TypeOK
  BY DEF Init, LimiterInit, TypeOK, LimiterTypeOK
<1>2. TypeOK /\ LimiterInv /\ [Next]_vars => TypeOK'
  <2> SUFFICES ASSUME TypeOK, LimiterInv, [Next]_vars PROVE TypeOK'
    OBVIOUS
  <2>1. LimiterInv'
    BY LimiterStepKinds, AcquireStep, ExceededStep, AdvanceStep, LimiterStutters
  <2>2. LimiterTypeOK' /\ now \in Nat
    BY <2>1 DEF LimiterInv, LimiterTypeOK
  <2>3. ASSUME NEW c \in Callers, CallerStep(c) PROVE TypeOK'
    <3>1. CASE Begin(c) \/ Confirm(c) \/ Reject(c)
      BY <2>2, <3>1 DEF Begin, Confirm, Reject, EndCall, Goto, gateVars, TypeOK, Gates
    <3>2. CASE TakeSlot(c) \/ Throttled(c)
      BY <2>2, <3>2 DEF TakeSlot, Throttled, EndCall, Goto, gateVars, TypeOK
    <3>3. CASE NothingSent(c) \/ Answered(c) \/ CallFails(c)
      BY <2>2, <3>3 DEF NothingSent, Answered, CallFails, EndCall, Goto, TypeOK
    <3>4. CASE Send(c)
      <4>1. sent' \in Seq(Nat)
        BY <2>2, <3>4, AppendProperties DEF Send, TypeOK
      <4> QED BY <2>2, <3>4, <4>1 DEF Send, Goto, gateVars, TypeOK
    <3> QED BY <2>3, <3>1, <3>2, <3>3, <3>4 DEF CallerStep
  <2>4. ASSUME NEW gate \in Gates, Switch(gate) PROVE TypeOK'
    BY <2>2, <2>4 DEF Switch, callVars, TypeOK
  <2>5. CASE ClockMoves
    BY <2>2, <2>5 DEF ClockMoves, callVars, gateVars, TypeOK
  <2>6. CASE UNCHANGED vars
    BY <2>2, <2>6 DEF vars, callVars, gateVars, TypeOK
  <2> QED BY <2>3, <2>4, <2>5, <2>6 DEF Next
<1> QED BY <1>1, <1>2, LimiterInvAlways, PTL DEF Spec

(* A call under way has seen every gate that is open, so finding a gate     *)
(* open is seeing it.                                                      *)
GatesInv ==
    \A c \in Callers :
        /\ pc[c] # "idle" => open \subseteq seen[c] /\ "enabled" \in seen[c]
        /\ pc[c] \in {"acquire", "send", "wait"} => seen[c] = Gates

(* A slot is spent, and a request leaves, only in calls that found each of  *)
(* the two gates open.                                                     *)
THEOREM GatesReadHolds == Spec => []GatesRead
<1>1. Init => GatesInv
  BY DEF Init, GatesInv
<1>2. TypeOK /\ GatesInv /\ [Next]_vars => GatesInv'
  <2> SUFFICES ASSUME TypeOK, GatesInv, [Next]_vars PROVE GatesInv'
    OBVIOUS
  <2>1. ASSUME NEW c \in Callers, CallerStep(c) PROVE GatesInv'
    <3>1. CASE Begin(c)
      BY <3>1 DEF Begin, Goto, GatesInv, TypeOK
    <3>2. CASE Confirm(c)
      <4>1. /\ pc[c] = "confirm" /\ pc' = [pc EXCEPT ![c] = "acquire"]
            /\ seen' = seen /\ open' = open
            /\ "business_use_confirmed" \in open
        BY <3>2 DEF Confirm, Goto, gateVars
      <4>2. seen[c] = Gates
        BY <4>1 DEF GatesInv, TypeOK, Gates
      <4> QED BY <4>1, <4>2 DEF GatesInv, TypeOK
    <3>3. CASE TakeSlot(c) \/ Send(c)
      BY <3>3 DEF TakeSlot, Send, Goto, gateVars, GatesInv, TypeOK
    <3>4. CASE Reject(c) \/ Throttled(c) \/ NothingSent(c) \/ Answered(c) \/ CallFails(c)
      BY <3>4 DEF Reject, Throttled, NothingSent, Answered, CallFails, EndCall, Goto,
                  GatesInv, TypeOK
    <3> QED BY <2>1, <3>1, <3>2, <3>3, <3>4 DEF CallerStep
  <2>2. ASSUME NEW gate \in Gates, Switch(gate) PROVE GatesInv'
    <3>1. open' \subseteq Gates
      BY <2>2 DEF Switch, TypeOK
    <3> QED BY <2>2, <3>1 DEF Switch, callVars, GatesInv, TypeOK
  <2>3. CASE ClockMoves \/ UNCHANGED vars
    BY <2>3 DEF ClockMoves, vars, callVars, gateVars, GatesInv
  <2> QED BY <2>1, <2>2, <2>3 DEF Next
<1>3. GatesInv => GatesRead
  BY DEF GatesInv, GatesRead
<1> QED BY <1>1, <1>2, <1>3, TypeCorrect, PTL DEF Spec

-------------------------------------------------------------------------------
(* Counting the callers at a point of the call.                             *)
Count(point) == Cardinality(At(point))

LEMMA CountTyped ==
    ASSUME NEW point
    PROVE  /\ Count(point) \in Nat /\ IsFiniteSet(At(point))
           /\ Count(point) <= Cardinality(Callers)
<1>1. At(point) \in SUBSET Callers
  BY DEF At
<1> QED BY <1>1, FS_Subset, FS_CardinalityType DEF Count

LEMMA GotoCounts ==
    ASSUME TypeOK, NEW c \in Callers, NEW from, NEW to, from # to, Goto(c, from, to)
    PROVE  /\ Count(from)' = Count(from) - 1
           /\ Count(to)' = Count(to) + 1
           /\ \A point : point \notin {from, to} => Count(point)' = Count(point)
<1>1. /\ pc[c] = from
      /\ pc' = [pc EXCEPT ![c] = to]
      /\ \A d \in Callers : pc'[d] = IF d = c THEN to ELSE pc[d]
  BY DEF Goto, TypeOK
<1>2. At(from)' = At(from) \ {c} /\ c \in At(from)
  BY <1>1 DEF At
<1>3. At(to)' = At(to) \cup {c} /\ c \notin At(to)
  BY <1>1 DEF At
<1>4. ASSUME NEW point, point \notin {from, to} PROVE At(point)' = At(point)
  BY <1>1, <1>4 DEF At
<1>5. Count(from)' = Count(from) - 1
  BY <1>2, CountTyped, FS_RemoveElement DEF Count
<1>6. Count(to)' = Count(to) + 1
  BY <1>3, CountTyped, FS_AddElement DEF Count
<1>7. ASSUME NEW point, point \notin {from, to} PROVE Count(point)' = Count(point)
  BY <1>4, <1>7 DEF Count
<1> QED BY <1>5, <1>6, <1>7

LEMMA SlotsStep ==
    ASSUME TypeOK, SlotsAccounted, [Next]_vars
    PROVE  SlotsAccounted'
<1> DEFINE Accounted == /\ Len(acquired) = Len(sent) + Count("send") + wasted
                        /\ results + Count("wait") <= Len(sent)
<1>0. SlotsAccounted <=> Accounted
  BY DEF SlotsAccounted, Count
<1>1. /\ Len(acquired) \in Nat /\ Len(sent) \in Nat /\ wasted \in Nat /\ results \in Nat
      /\ acquired \in Seq(Nat) /\ sent \in Seq(Nat) /\ now \in Nat
      /\ Count("send") \in Nat /\ Count("wait") \in Nat
  BY CountTyped DEF TypeOK, LimiterTypeOK
<1>2. ASSUME NEW c \in Callers, CallerStep(c) PROVE Accounted'
  <2>1. CASE Begin(c) \/ Confirm(c) \/ Reject(c)
    <3>1. /\ Count("send")' = Count("send") /\ Count("wait")' = Count("wait")
          /\ UNCHANGED <<acquired, sent, wasted, results>>
      BY <2>1, GotoCounts
         DEF Begin, Confirm, Reject, EndCall, limiterVars
    <3> QED BY <1>0, <3>1
  <2>2. CASE TakeSlot(c)
    <3>1. /\ Count("send")' = Count("send") + 1 /\ Count("wait")' = Count("wait")
          /\ UNCHANGED <<sent, wasted, results>>
      BY <2>2, GotoCounts DEF TakeSlot
    <3>2. Len(acquired') = Len(acquired) + 1
      BY <1>1, <2>2, AppendProperties DEF TakeSlot, Acquire
    <3>3. Len(acquired') = Len(sent) + Count("send")' + wasted
      <4>1. Len(acquired) = Len(sent) + Count("send") + wasted
        BY <1>0
      <4> QED BY <1>1, <3>1, <3>2, <4>1
    <3>4. results' + Count("wait")' <= Len(sent')
      BY <1>0, <3>1
    <3> QED BY <3>1, <3>3, <3>4
  <2>3. CASE Throttled(c)
    <3>1. /\ Count("send")' = Count("send") /\ Count("wait")' = Count("wait")
          /\ UNCHANGED <<acquired, sent, wasted, results>>
      BY <2>3, GotoCounts DEF Throttled, EndCall, Exceeded
    <3> QED BY <1>0, <3>1
  <2>4. CASE NothingSent(c)
    <3>1. /\ Count("send")' = Count("send") - 1 /\ Count("wait")' = Count("wait")
          /\ wasted' = wasted + 1 /\ UNCHANGED <<acquired, sent, results>>
      BY <2>4, GotoCounts DEF NothingSent, EndCall, limiterVars
    <3> QED BY <1>0, <1>1, <3>1
  <2>5. CASE Send(c)
    <3>1. /\ Count("send")' = Count("send") - 1 /\ Count("wait")' = Count("wait") + 1
          /\ UNCHANGED <<acquired, wasted, results>>
      BY <2>5, GotoCounts DEF Send, limiterVars
    <3>2. Len(sent') = Len(sent) + 1
      BY <1>1, <2>5, AppendProperties DEF Send
    <3> QED BY <1>0, <1>1, <3>1, <3>2
  <2>6. CASE Answered(c) \/ CallFails(c)
    <3>1. /\ Count("send")' = Count("send") /\ Count("wait")' = Count("wait") - 1
          /\ UNCHANGED <<acquired, sent, wasted>>
      BY <2>6, GotoCounts DEF Answered, CallFails, EndCall, limiterVars
    <3>2. results' = results \/ results' = results + 1
      BY <2>6 DEF Answered, CallFails
    <3>3. results' + Count("wait")' <= Len(sent)
      BY <1>0, <1>1, <3>1, <3>2
    <3> QED BY <1>0, <3>1, <3>3
  <2> QED BY <1>2, <2>1, <2>2, <2>3, <2>4, <2>5, <2>6 DEF CallerStep
<1>3. ASSUME UNCHANGED <<acquired, callVars>> PROVE Accounted'
  <2>1. /\ Count("send")' = Count("send") /\ Count("wait")' = Count("wait")
        /\ UNCHANGED <<acquired, sent, wasted, results>>
    BY <1>3 DEF callVars, Count, At
  <2> QED BY <1>0, <2>1
<1>4. ASSUME (\E gate \in Gates : Switch(gate)) \/ ClockMoves \/ UNCHANGED vars
      PROVE  Accounted'
  BY <1>3, <1>4 DEF Switch, ClockMoves, Advance, vars, limiterVars
<1>5. Accounted'
  BY <1>2, <1>4 DEF Next
<1> QED BY <1>5 DEF SlotsAccounted, Count

(* Every request has a slot of its own and every slot goes to one request   *)
(* or to none, for any number of threads.                                  *)
THEOREM SlotsAccountedHolds == Spec => []SlotsAccounted
<1>1. Init => SlotsAccounted
  <2> SUFFICES ASSUME Init PROVE SlotsAccounted
    OBVIOUS
  <2>1. At("send") = {} /\ At("wait") = {}
    BY DEF Init, At
  <2>2. Cardinality(At("send")) = 0 /\ Cardinality(At("wait")) = 0
    BY <2>1, FS_EmptySet
  <2>3. Len(acquired) = 0 /\ Len(sent) = 0 /\ wasted = 0 /\ results = 0
    BY DEF Init, LimiterInit
  <2> QED BY <2>2, <2>3 DEF SlotsAccounted
<1>2. TypeOK /\ SlotsAccounted /\ [Next]_vars => SlotsAccounted'
  BY SlotsStep
<1> QED BY <1>1, <1>2, TypeCorrect, PTL DEF Spec

-------------------------------------------------------------------------------
(* The bound on what the upstream sees.  When request i left, "a" slots had *)
(* been given out: its own and the earlier requests', the wasted ones and  *)
(* one for each other thread still holding its slot.  The slots since then *)
(* are no older than the request, and the ceiling holds for them.          *)
K == Cardinality(Callers)

GivenBefore(i, a) ==
    /\ a <= Len(acquired)
    /\ a <= i + K - 1 + wasted
    /\ \A k \in (a + 1)..Len(acquired) : acquired[k] >= sent[i]

UpstreamInv ==
    \A i \in 1..Len(sent) : sent[i] <= now /\ \E a \in Nat : GivenBefore(i, a)

LEMMA UpstreamSend ==
    ASSUME TypeOK, SlotsAccounted, SlotsAccounted', CeilingKept, LimiterInv,
           UpstreamInv, UpstreamBound, NEW c \in Callers, Send(c)
    PROVE  UpstreamInv' /\ UpstreamBound'
<1> DEFINE n == Len(sent)
           most == MaxCalls + K
<1>1. /\ n \in Nat /\ Len(acquired) \in Nat /\ wasted \in Nat /\ K \in Nat /\ now \in Nat
      /\ sent \in Seq(Nat) /\ acquired \in Seq(Nat)
  BY FS_CardinalityType DEF TypeOK, LimiterTypeOK, K
<1>2. UNCHANGED <<now, acquired, wasted>>
  BY DEF Send, limiterVars
<1>3. /\ Len(sent') = n + 1 /\ sent' \in Seq(Nat)
      /\ \A i \in 1..n : sent'[i] = sent[i]
      /\ sent'[n + 1] = now
  BY <1>1, AppendProperties DEF Send
<1>4. Count("send")' \in Nat /\ Count("send")' <= K - 1
  <2>1. Count("send")' = Count("send") - 1
    BY GotoCounts DEF Send
  <2>2. c \in At("send")
    BY DEF Send, Goto, At
  <2>3. Count("send") # 0
    BY <2>2, CountTyped, FS_EmptySet DEF Count
  <2>4. Count("send") \in Nat /\ Count("send") <= K
    BY CountTyped DEF K
  <2> QED BY <1>1, <2>1, <2>3, <2>4
<1>5. Len(acquired) = n + 1 + Count("send")' + wasted
  <2>1. Len(acquired') = Len(sent') + Count("send")' + wasted'
    BY DEF SlotsAccounted, Count
  <2> QED BY <1>2, <1>3, <2>1
<1>6. ASSUME NEW i \in 1..n PROVE sent'[i] <= now /\ \E a \in Nat : GivenBefore(i, a)'
  <2>1. sent[i] <= now
    BY DEF UpstreamInv
  <2>2. PICK a \in Nat : GivenBefore(i, a)
    BY DEF UpstreamInv
  <2>3. GivenBefore(i, a)'
    BY <1>2, <1>3, <2>2 DEF GivenBefore
  <2> QED BY <1>3, <2>1, <2>3
<1>7. ASSUME NEW i \in Nat, i = n + 1
      PROVE  sent'[i] <= now /\ \E a \in Nat : GivenBefore(i, a)'
  <2>1. PICK a \in Nat : a = Len(acquired)
    BY <1>1
  <2>2. a <= i + K - 1 + wasted
    BY <1>1, <1>4, <1>5, <1>7, <2>1
  <2>3. (a + 1)..Len(acquired) = {}
    BY <1>1, <2>1
  <2>4. GivenBefore(i, a)'
    BY <1>1, <1>2, <2>1, <2>2, <2>3 DEF GivenBefore
  <2> QED BY <1>1, <1>3, <1>7, <2>4
<1>8. UpstreamInv'
  <2> SUFFICES ASSUME NEW i \in 1..Len(sent')
               PROVE  sent'[i] <= now' /\ \E a \in Nat : GivenBefore(i, a)'
    BY DEF UpstreamInv
  <2>1. i \in 1..n \/ (i \in Nat /\ i = n + 1)
    BY <1>1, <1>3
  <2> QED BY <1>2, <1>6, <1>7, <2>1
<1>9. ASSUME NEW i \in 1..(Len(sent') - most)
      PROVE  sent'[i + most] - sent'[i] >= PerSeconds
  <2>1. CASE i + most <= n
    <3>1. i \in 1..(n - most) /\ i \in 1..n /\ i + most \in 1..n
      BY <1>1, <1>3, <2>1
    <3>2. sent[i + most] - sent[i] >= PerSeconds
      BY <3>1 DEF UpstreamBound, K
    <3>3. sent'[i + most] = sent[i + most] /\ sent'[i] = sent[i]
      BY <1>3, <3>1
    <3> QED BY <3>2, <3>3
  <2>2. CASE i + most = n + 1
    <3>1. i \in 1..n
      BY <1>1, <1>3, <2>2
    <3>2. PICK a \in Nat : GivenBefore(i, a)
      BY <3>1 DEF UpstreamInv
    <3>3. a + 1 + MaxCalls <= Len(acquired)
      <4>1. a <= i + K - 1 + wasted
        BY <3>2 DEF GivenBefore
      <4>2. Len(acquired) >= i + most + wasted
        BY <1>1, <1>4, <1>5, <2>2
      <4> QED BY <1>1, <3>1, <4>1, <4>2
    <3>4. /\ a + 1 \in 1..(Len(acquired) - MaxCalls)
          /\ a + 1 \in (a + 1)..Len(acquired)
          /\ a + 1 \in 1..Len(acquired) /\ a + 1 + MaxCalls \in 1..Len(acquired)
      BY <1>1, <3>3
    <3>5. acquired[a + 1 + MaxCalls] - acquired[a + 1] >= PerSeconds
      BY <3>4 DEF CeilingKept
    <3>6. acquired[a + 1] >= sent[i] /\ acquired[a + 1 + MaxCalls] <= now
      BY <3>2, <3>4 DEF GivenBefore, LimiterInv
    <3>7. acquired[a + 1] \in Nat /\ acquired[a + 1 + MaxCalls] \in Nat /\ sent[i] \in Nat
      BY <1>1, <3>1, <3>4, ElementOfSeq
    <3>8. now - sent[i] >= PerSeconds
      <4>1. ASSUME NEW x \in Nat, NEW y \in Nat, NEW s \in Nat,
                   y - x >= PerSeconds, x >= s, y <= now
            PROVE  now - s >= PerSeconds
        BY <1>1, <4>1
      <4> QED BY <3>5, <3>6, <3>7, <4>1
    <3> QED BY <1>3, <2>2, <3>1, <3>8
  <2>3. i \in Nat /\ most \in Nat /\ i + most <= n + 1
    BY <1>1, <1>3
  <2>4. i + most <= n \/ i + most = n + 1
    <3> HIDE DEF most, n
    <3> QED BY <1>1, <2>3
  <2> QED BY <2>1, <2>2, <2>4
<1> QED BY <1>8, <1>9 DEF UpstreamBound, K

LEMMA UpstreamOther ==
    ASSUME TypeOK, LimiterInv, UpstreamInv, UpstreamBound, UNCHANGED sent,
           \/ UNCHANGED <<now, acquired>> /\ wasted' \in Nat /\ wasted' >= wasted
           \/ Acquire /\ UNCHANGED wasted
           \/ UNCHANGED <<acquired, wasted>> /\ now' \in Nat /\ now' > now
    PROVE  UpstreamInv' /\ UpstreamBound'
<1>1. /\ Len(sent) \in Nat /\ Len(acquired) \in Nat /\ wasted \in Nat /\ K \in Nat
      /\ now \in Nat /\ sent \in Seq(Nat) /\ acquired \in Seq(Nat)
  BY FS_CardinalityType DEF TypeOK, LimiterTypeOK, K
<1>2. UpstreamBound'
  BY DEF UpstreamBound
<1>3. ASSUME NEW i \in 1..Len(sent)
      PROVE  sent[i] <= now' /\ \E a \in Nat : GivenBefore(i, a)'
  <2>1. sent[i] <= now /\ sent[i] \in Nat
    BY <1>1, ElementOfSeq DEF UpstreamInv
  <2>2. PICK a \in Nat : GivenBefore(i, a)
    BY DEF UpstreamInv
  <2>3. CASE UNCHANGED <<now, acquired>> /\ wasted' \in Nat /\ wasted' >= wasted
    <3>1. a <= i + K - 1 + wasted'
      <4>1. a <= i + K - 1 + wasted /\ i \in Nat
        BY <1>1, <2>2 DEF GivenBefore
      <4>2. ASSUME NEW b \in Int, NEW w \in Nat, NEW v \in Nat, v >= w, a <= b + w
            PROVE  a <= b + v
        BY <4>2
      <4>3. i + K - 1 \in Int
        BY <1>1, <4>1
      <4> QED BY <1>1, <2>3, <4>1, <4>2, <4>3
    <3>2. GivenBefore(i, a)'
      BY <2>2, <2>3, <3>1 DEF GivenBefore
    <3> QED BY <2>1, <2>3, <3>2
  <2>4. CASE Acquire /\ UNCHANGED wasted
    <3>1. /\ now' = now /\ Len(acquired') = Len(acquired) + 1
          /\ \A k \in 1..Len(acquired) : acquired'[k] = acquired[k]
          /\ acquired'[Len(acquired) + 1] = now
      BY <1>1, <2>4, AppendProperties DEF Acquire
    <3>2. ASSUME NEW k \in (a + 1)..Len(acquired') PROVE acquired'[k] >= sent[i]
      <4>1. CASE k <= Len(acquired)
        <5>1. k \in (a + 1)..Len(acquired) /\ k \in 1..Len(acquired)
          BY <1>1, <4>1
        <5> QED BY <2>2, <3>1, <5>1 DEF GivenBefore
      <4>2. CASE k = Len(acquired) + 1
        BY <1>1, <2>1, <3>1, <4>2
      <4>3. k \in Int /\ k <= Len(acquired) + 1
        BY <1>1, <3>1
      <4> QED BY <1>1, <4>1, <4>2, <4>3
    <3>3. a <= Len(acquired') /\ a <= i + K - 1 + wasted
      BY <1>1, <2>2, <3>1 DEF GivenBefore
    <3>4. GivenBefore(i, a)'
      BY <2>4, <3>2, <3>3 DEF GivenBefore
    <3> QED BY <2>1, <3>1, <3>4
  <2>5. CASE UNCHANGED <<acquired, wasted>> /\ now' \in Nat /\ now' > now
    <3>1. GivenBefore(i, a)'
      BY <2>2, <2>5 DEF GivenBefore
    <3>2. sent[i] <= now'
      BY <1>1, <2>1, <2>5
    <3> QED BY <3>1, <3>2
  <2> QED BY <2>3, <2>4, <2>5
<1> QED BY <1>2, <1>3 DEF UpstreamInv

(* Threads that dawdle between taking a slot and sending exceed the ceiling *)
(* at the upstream by at most one request each, for any ceiling, window    *)
(* and number of threads.                                                  *)
THEOREM UpstreamBoundHolds == Spec => []UpstreamBound
<1> DEFINE Inv == UpstreamInv /\ UpstreamBound
<1>1. Init => Inv
  <2> SUFFICES ASSUME Init PROVE Inv
    OBVIOUS
  <2>1. Len(sent) = 0
    BY DEF Init
  <2>2. Cardinality(Callers) \in Nat
    BY FS_CardinalityType
  <2> QED BY <2>1, <2>2 DEF UpstreamInv, UpstreamBound
<1>2. /\ TypeOK /\ SlotsAccounted /\ SlotsAccounted' /\ CeilingKept /\ LimiterInv
      /\ Inv /\ [Next]_vars
      => Inv'
  <2> SUFFICES ASSUME TypeOK, SlotsAccounted, SlotsAccounted', CeilingKept, LimiterInv,
                      Inv, [Next]_vars
               PROVE  Inv'
    OBVIOUS
  <2>1. wasted \in Nat /\ now \in Nat
    BY DEF TypeOK, LimiterTypeOK
  <2>2. ASSUME NEW c \in Callers, Send(c) PROVE Inv'
    BY <2>2, UpstreamSend
  <2>3. ASSUME NEW c \in Callers, CallerStep(c), ~Send(c) PROVE Inv'
    <3>1. CASE TakeSlot(c)
      BY <3>1, UpstreamOther DEF TakeSlot
    <3>2. CASE NothingSent(c)
      BY <2>1, <3>2, UpstreamOther DEF NothingSent, limiterVars
    <3>3. CASE UNCHANGED <<now, acquired, sent, wasted>>
      BY <2>1, <3>3, UpstreamOther
    <3> QED BY <2>3, <3>1, <3>2, <3>3
        DEF CallerStep, Begin, Confirm, Reject, Throttled, Exceeded, Answered, CallFails,
            limiterVars
  <2>4. CASE ClockMoves
    BY <2>1, <2>4, UpstreamOther DEF ClockMoves, Advance, callVars
  <2>5. CASE (\E gate \in Gates : Switch(gate)) \/ UNCHANGED vars
    BY <2>1, <2>5, UpstreamOther DEF Switch, vars, limiterVars, callVars
  <2> QED BY <2>2, <2>3, <2>4, <2>5 DEF Next
<1> QED BY <1>1, <1>2, TypeCorrect, SlotsAccountedHolds, CeilingKeptHolds,
       LimiterInvAlways, PTL DEF Spec
===============================================================================
