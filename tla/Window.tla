-------------------------------- MODULE Window --------------------------------
(***************************************************************************)
(* What a request ceiling promises, without a deque: a call is granted     *)
(* exactly when fewer than MaxCalls grants lie within the last PerSeconds, *)
(* that is, when the grant MaxCalls places back is at least PerSeconds     *)
(* old.  A limiter may be neither laxer nor stricter than this.            *)
(***************************************************************************)
EXTENDS Integers, Sequences

CONSTANTS MaxCalls, PerSeconds

VARIABLES
    now,         \* a clock that never goes back
    granted,     \* the times of all grants, oldest first
    verdict      \* what the limiter answered at this instant

windowVars == <<now, granted, verdict>>

Free ==
    \/ Len(granted) < MaxCalls
    \/ now - granted[Len(granted) - MaxCalls + 1] >= PerSeconds

Grant ==
    /\ Free
    /\ granted' = Append(granted, now)
    /\ verdict' = "granted"
    /\ UNCHANGED now

Refuse ==
    /\ ~Free
    /\ verdict' = "refused"
    /\ UNCHANGED <<now, granted>>

Pass ==
    /\ now' \in Nat /\ now' > now
    /\ verdict' = "none"
    /\ UNCHANGED granted

WindowInit == now = 0 /\ granted = <<>> /\ verdict = "none"

WindowSpec == WindowInit /\ [][Grant \/ Refuse \/ Pass]_windowVars
===============================================================================
