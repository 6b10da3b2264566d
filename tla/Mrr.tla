---------------------------------- MODULE Mrr ----------------------------------
(***************************************************************************)
(* The MiningRigRentals adapter: submit() and _call() of providers/mrr.py  *)
(* over one RateLimiter, called by several threads of one process.  Two    *)
(* switches of the operator gate it and are read one after the other; the  *)
(* limiter counts a call when acquire() returns, and the request leaves    *)
(* some time later: the secret is fetched, the request signed and a        *)
(* connection opened in between.                                           *)
(***************************************************************************)
EXTENDS RateLimiter, FiniteSets

CONSTANTS
    Callers,       \* the threads that call submit()
    MaxNow         \* bound: the latest reading of the clock

ASSUME CallersAssumption == IsFiniteSet(Callers) /\ MaxNow \in Nat

Gates == {"enabled", "business_use_confirmed"}

VARIABLES
    open,          \* the gates that are True at the moment
    pc,            \* the point each caller has reached in submit()
    sent,          \* history: the times at which requests left
    wasted,        \* history: slots of the window spent on no request
    results,       \* how many answers _results holds
    seen           \* history: gates that were open at some moment of the call

callVars == <<pc, sent, wasted, results>>
gateVars == <<open, seen>>
vars == <<limiterVars, callVars, gateVars>>

TypeOK ==
    /\ LimiterTypeOK
    /\ open \subseteq Gates
    /\ pc \in [Callers -> {"idle", "confirm", "acquire", "send", "wait"}]
    /\ sent \in Seq(Nat)
    /\ wasted \in Nat
    /\ results \in Nat
    /\ seen \in [Callers -> SUBSET Gates]

(* The adapter ships with both gates shut. *)
Init ==
    /\ LimiterInit
    /\ open = {}
    /\ pc = [c \in Callers |-> "idle"]
    /\ sent = <<>>
    /\ wasted = 0
    /\ results = 0
    /\ seen = [c \in Callers |-> {}]

At(point) == {c \in Callers : pc[c] = point}

Goto(c, from, to) == pc[c] = from /\ pc' = [pc EXCEPT ![c] = to]

(* The operator switches a gate; calls under way do not notice. *)
Switch(gate) ==
    /\ open' = IF gate \in open THEN open \ {gate} ELSE open \cup {gate}
    /\ seen' = [c \in Callers |->
          IF pc[c] # "idle" THEN seen[c] \cup open' ELSE seen[c]]
    /\ UNCHANGED <<limiterVars, callVars>>

(* submit() finds the adapter enabled; where it does not, it raises and    *)
(* nothing has changed.                                                    *)
Begin(c) ==
    /\ "enabled" \in open
    /\ Goto(c, "idle", "confirm")
    /\ seen' = [seen EXCEPT ![c] = open]
    /\ UNCHANGED <<limiterVars, open, sent, wasted, results>>

(* Defect: the second gate is not looked at. *)
ConfirmUnread(c) ==
    /\ Goto(c, "confirm", "acquire")
    /\ UNCHANGED <<limiterVars, gateVars, sent, wasted, results>>

(* The second gate is open and the payload in order. *)
Confirm(c) ==
    /\ "business_use_confirmed" \in open
    /\ Goto(c, "confirm", "acquire")
    /\ UNCHANGED <<limiterVars, gateVars, sent, wasted, results>>

EndCall(c, from) ==
    /\ Goto(c, from, "idle")
    /\ seen' = [seen EXCEPT ![c] = {}]
    /\ UNCHANGED open

(* The second gate is shut, or the payload is refused. *)
Reject(c) ==
    /\ EndCall(c, "confirm")
    /\ UNCHANGED <<limiterVars, sent, wasted, results>>

TakeSlot(c) ==
    /\ Acquire
    /\ Goto(c, "acquire", "send")
    /\ UNCHANGED <<gateVars, sent, wasted, results>>

(* Defect: RateLimitExceeded is swallowed and the request goes out. *)
ThrottledSends(c) ==
    /\ Exceeded
    /\ Goto(c, "acquire", "send")
    /\ UNCHANGED <<gateVars, sent, wasted, results>>

Throttled(c) ==
    /\ Exceeded
    /\ EndCall(c, "acquire")
    /\ UNCHANGED <<sent, wasted, results>>

(* Defect: the slot is handed back, although nothing had been wasted.      *)
NothingSentRefunds(c) ==
    /\ EndCall(c, "send")
    /\ wasted' = wasted - 1
    /\ UNCHANGED <<limiterVars, sent, results>>

(* secret_provider() raises, or the connection is not made: the slot of    *)
(* the window stays spent.                                                 *)
NothingSent(c) ==
    /\ EndCall(c, "send")
    /\ wasted' = wasted + 1
    /\ UNCHANGED <<limiterVars, sent, results>>

Send(c) ==
    /\ Goto(c, "send", "wait")
    /\ sent' = Append(sent, now)
    /\ UNCHANGED <<limiterVars, gateVars, wasted, results>>

(* The upstream answers, and the body is kept under a fresh handle. *)
Answered(c) ==
    /\ EndCall(c, "wait")
    /\ results' = results + 1
    /\ UNCHANGED <<limiterVars, sent, wasted>>

(* Defect: on an HTTP error the request is sent again, past the limiter.   *)
CallRetries(c) ==
    /\ pc[c] = "wait"
    /\ sent' = Append(sent, now)
    /\ UNCHANGED <<limiterVars, gateVars, pc, wasted, results>>

(* HTTPError, a time-out, a lost connection: submit() raises with the      *)
(* request possibly served.                                                *)
CallFails(c) ==
    /\ EndCall(c, "wait")
    /\ UNCHANGED <<limiterVars, sent, wasted, results>>

ClockMoves ==
    /\ Advance(MaxNow)
    /\ UNCHANGED <<callVars, gateVars>>

CallerStep(c) ==
    \/ Begin(c) \/ Confirm(c) \/ Reject(c)
    \/ TakeSlot(c) \/ Throttled(c)
    \/ NothingSent(c) \/ Send(c)
    \/ Answered(c) \/ CallFails(c)

Next ==
    \/ \E c \in Callers : CallerStep(c)
    \/ \E gate \in Gates : Switch(gate)
    \/ ClockMoves

Spec == Init /\ [][Next]_vars

-------------------------------------------------------------------------------
(* What the upstream sees: a request may leave long after its slot was     *)
(* counted, so a stretch of PerSeconds can hold more than MaxCalls of      *)
(* them, but never more than one extra for each thread.                    *)
UpstreamBound ==
    LET most == MaxCalls + Cardinality(Callers) IN
    \A i \in 1..(Len(sent) - most) : sent[i + most] - sent[i] >= PerSeconds

(* Every request that left had a slot of the window to itself, and every   *)
(* slot was spent on one request or on none; an answer is kept only for a  *)
(* request that left.                                                      *)
SlotsAccounted ==
    /\ Len(acquired) = Len(sent) + Cardinality(At("send")) + wasted
    /\ results + Cardinality(At("wait")) <= Len(sent)

(* "Neither alone opens the adapter" (providers/mrr.py:12-13): a call      *)
(* comes to spend a slot or to send only if each gate was open at some     *)
(* moment of that call (not necessarily both at the same one).             *)
GatesRead ==
    \A c \in Callers : pc[c] \in {"acquire", "send", "wait"} => seen[c] = Gates
===============================================================================
