----------------------------- MODULE RateLimiter -----------------------------
(***************************************************************************)
(* The sliding-window limiter: providers/rate_limit.py.  acquire() runs    *)
(* under the object's lock, so a call of it is one step.  The clock is     *)
(* time.monotonic(): it never goes back, and is the environment's.         *)
(***************************************************************************)
EXTENDS Integers, Sequences

CONSTANTS
    MaxCalls,      \* RateLimiter._max_calls
    PerSeconds     \* RateLimiter._per_seconds, in ticks of the clock

ASSUME LimiterAssumption == MaxCalls \in Nat \ {0} /\ PerSeconds \in Nat \ {0}

VARIABLES
    now,           \* time.monotonic()
    calls,         \* RateLimiter._calls
    acquired,      \* history: the times of all calls let through
    verdict        \* history: how acquire() ended, as long as the clock stands

limiterVars == <<now, calls, acquired, verdict>>

LimiterTypeOK ==
    /\ now \in Nat
    /\ calls \in Seq(Nat)
    /\ acquired \in Seq(Nat)
    /\ verdict \in {"none", "granted", "refused"}

LimiterInit ==
    /\ now = 0
    /\ calls = <<>>
    /\ acquired = <<>>
    /\ verdict = "none"

Expired(t) == now - t >= PerSeconds

(* The while loop drops calls from the left as long as the first one left  *)
(* has expired.                                                            *)
Dropped ==
    CHOOSE d \in 0..Len(calls) :
        /\ \A i \in 1..d : Expired(calls[i])
        /\ d < Len(calls) => ~Expired(calls[d + 1])

(* Defect: the comparison is the wrong way round and nothing is dropped. *)
KeptForGood == calls

Kept == SubSeq(calls, Dropped + 1, Len(calls))

(* acquire() returns: the call is recorded at the time it was let through. *)
Acquire ==
    /\ Len(Kept) < MaxCalls
    /\ calls' = Append(Kept, now)
    /\ acquired' = Append(acquired, now)
    /\ verdict' = "granted"
    /\ UNCHANGED now

(* acquire() raises RateLimitExceeded: the expired calls are gone all the  *)
(* same.                                                                   *)
Exceeded ==
    /\ Len(Kept) >= MaxCalls
    /\ calls' = Kept
    /\ verdict' = "refused"
    /\ UNCHANGED <<now, acquired>>

Advance(limit) ==
    /\ now' \in (now + 1)..limit
    /\ verdict' = "none"
    /\ UNCHANGED <<calls, acquired>>

-------------------------------------------------------------------------------
(* The ceiling as counted at acquire(): in whatever stretch of PerSeconds,  *)
(* at most MaxCalls calls were let through.                                 *)
CeilingKept ==
    \A i \in 1..(Len(acquired) - MaxCalls) :
        acquired[i + MaxCalls] - acquired[i] >= PerSeconds

(* The limiter is exactly a window of that size, neither laxer nor         *)
(* stricter, although its deque is trimmed only when somebody calls.       *)
Limiter == INSTANCE Window WITH granted <- acquired
ImplementsWindow == Limiter!WindowSpec
===============================================================================
