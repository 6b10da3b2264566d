------------------------------ MODULE Settlement ------------------------------
(***************************************************************************)
(* Settlement of recorded obligations: treasury/settlement.py with         *)
(* treasury/controls.py, used by several clerks at once.                   *)
(*                                                                         *)
(* A clerk is a caller of SettlementLedger (a process or a thread; none is *)
(* in the repository).  It holds Obligation objects, reads the treasury's  *)
(* balance and the day's payouts, and passes what it read to settle(),     *)
(* which works on those numbers: the ledger takes no lock and reads        *)
(* neither the treasury nor its own books.  settle() is three steps, since *)
(* the rail and the disk stand between them: the state guard and the       *)
(* controls, rail.pay(), and the write of the settled record.              *)
(*                                                                         *)
(* A record is written by atomic_write_json: the file is there complete or *)
(* not at all, but the call may raise after the file is in place, when the *)
(* fsync of the directory fails.                                           *)
(***************************************************************************)
EXTENDS Controls, FiniteSets

CONSTANTS
    Clerks,             \* the callers of the ledger
    Obligations,        \* obligation ids: fresh uuids, one per record()
    Amount,             \* [Obligations -> Int]: the amount recorded
    StartBalance,       \* the treasury's balance at the start
    ReportsPaidToday,   \* clerks pass paid_today, or leave its default 0.0
    KeepsHandle,        \* a clerk may go on using the object it has settled
    ClockMayStepBack,   \* the wall clock that stamps file names can go back
    MaxNow,             \* bound: the latest reading of the clock
    MaxBalance,         \* bound: the treasury is topped up to this at most
    MaxGrants,          \* bound: no reload once an obligation had this many objects
    MaxFaults           \* bound: no fault once an obligation had this many

ASSUME SettlementAssumption ==
    /\ Clerks # {} /\ IsFiniteSet(Clerks)
    /\ Obligations # {}
    /\ Amount \in [Obligations -> Int]
    /\ StartBalance \in Nat /\ StartBalance >= ReserveFloor
    /\ {ReportsPaidToday, KeepsHandle, ClockMayStepBack} \subseteq BOOLEAN
    /\ {MaxNow, MaxBalance, MaxGrants, MaxFaults} \subseteq Nat

VARIABLES
    books,         \* books[o]: the record files of obligation o
    held,          \* held[c][o]: the state of the Obligation object c holds
    pc,            \* where each clerk is in its call of settle()
    target,        \* the obligation each clerk is settling
    snap,          \* the treasury figures each clerk read for its call
    now,           \* the wall clock
    balance,       \* the treasury: what it holds ...
    paidToday,     \*   ... and what it has paid out since midnight
    paid,          \* history: how often value moved for each obligation
    grants,        \* history: awaiting-settlement objects handed out
    interrupted    \* history: calls cut short after value had moved

clerkVars == <<held, pc, target, snap>>
treasuryVars == <<balance, paidToday>>
historyVars == <<paid, grants, interrupted>>
vars == <<books, clerkVars, now, treasuryVars, historyVars>>

File == [stamp : Nat, state : {"recorded", "settled"}]
Figures == [balance : Int, paidToday : Nat]

TypeOK ==
    /\ books \in [Obligations -> SUBSET File]
    /\ held \in [Clerks -> [Obligations -> {"none", "recorded", "settled"}]]
    /\ pc \in [Clerks -> {"idle", "ready", "checked", "paid"}]
    /\ target \in [Clerks -> Obligations]
    /\ snap \in [Clerks -> Figures]
    /\ now \in Nat
    /\ balance \in Int
    /\ paidToday \in Nat
    /\ paid \in [Obligations -> Nat]
    /\ grants \in [Obligations -> Nat]
    /\ interrupted \in [Obligations -> Nat]

NoFigures == [balance |-> 0, paidToday |-> 0]

Init ==
    /\ books = [o \in Obligations |-> {}]
    /\ held = [c \in Clerks |-> [o \in Obligations |-> "none"]]
    /\ pc = [c \in Clerks |-> "idle"]
    /\ target = [c \in Clerks |-> CHOOSE o \in Obligations : TRUE]
    /\ snap = [c \in Clerks |-> NoFigures]
    /\ now = 0
    /\ balance = StartBalance
    /\ paidToday = 0
    /\ paid = [o \in Obligations |-> 0]
    /\ grants = [o \in Obligations |-> 0]
    /\ interrupted = [o \in Obligations |-> 0]

-------------------------------------------------------------------------------
(* Defect: the order of two files with one stamp is left open. *)
NotAfterByStamp(f, g) == f.stamp <= g.stamp

(* Files sort by name: stamp, then (within an obligation) the state.       *)
NotAfter(f, g) ==
    \/ f.stamp < g.stamp
    \/ f.stamp = g.stamp /\ (f.state = "recorded" \/ g.state = "settled")

(* outstanding() lets a later file of the same obligation replace an       *)
(* earlier one and counts what is left in state RECORDED.                  *)
Outstanding(o) ==
    \E f \in books[o] :
        f.state = "recorded" /\ \A g \in books[o] : NotAfter(g, f)

Booked(o, state) == \E f \in books[o] : f.state = state

(* _write(): one new file per state change, named by the clock. *)
Write(o, state) ==
    books' = [books EXCEPT ![o] = @ \cup {[stamp |-> now, state |-> state]}]

Grant(c, o) ==
    /\ held' = [held EXCEPT ![c][o] = "recorded"]
    /\ grants' = [grants EXCEPT ![o] = @ + 1]

(* Defect: the id is made from what is owed to whom, and comes again. *)
RecordKnownId(c, o) ==
    /\ pc[c] = "idle"
    /\ Amount[o] > 0
    /\ Write(o, "recorded")
    /\ Grant(c, o)
    /\ UNCHANGED <<pc, target, snap, now, treasuryVars, paid, interrupted>>

(* record() under a fresh id; it refuses an amount that is not positive.   *)
Record(c, o) ==
    /\ pc[c] = "idle"
    /\ books[o] = {}
    /\ Amount[o] > 0
    /\ Write(o, "recorded")
    /\ Grant(c, o)
    /\ UNCHANGED <<pc, target, snap, now, treasuryVars, paid, interrupted>>

(* record() raises with the file already in place: recorded, but the clerk *)
(* has no object for it.                                                   *)
RecordUnacknowledged(c, o) ==
    /\ pc[c] = "idle"
    /\ books[o] = {}
    /\ Amount[o] > 0
    /\ Write(o, "recorded")
    /\ UNCHANGED <<clerkVars, now, treasuryVars, historyVars>>

(* A clerk rebuilds the Obligation from the history of the beneficiary,    *)
(* where the latest record says it is still outstanding.                   *)
Load(c, o) ==
    /\ pc[c] = "idle"
    /\ held[c][o] # "recorded"
    /\ Outstanding(o)
    /\ \A p \in Obligations : grants[p] < MaxGrants
    /\ Grant(c, o)
    /\ UNCHANGED <<books, pc, target, snap, now, treasuryVars, paid, interrupted>>

(* The clerk reads the treasury for one call of settle(). *)
ReadTreasury(c, o) ==
    /\ pc[c] = "idle"
    /\ held[c][o] # "none"
    /\ pc' = [pc EXCEPT ![c] = "ready"]
    /\ target' = [target EXCEPT ![c] = o]
    /\ snap' = [snap EXCEPT ![c] =
          [balance |-> balance,
           paidToday |-> IF ReportsPaidToday THEN paidToday ELSE 0]]
    /\ UNCHANGED <<books, held, now, treasuryVars, historyVars>>

(* The call ends: the figures are not used again. *)
EndCall(c) ==
    /\ pc' = [pc EXCEPT ![c] = "idle"]
    /\ snap' = [snap EXCEPT ![c] = NoFigures]

-------------------------------------------------------------------------------
(* Defect: settle() does not look at the state of the object it is given.  *)
CheckAnyState(c, approved) ==
    /\ pc[c] = "ready"
    /\ Permits(Amount[target[c]], snap[c].balance, snap[c].paidToday, approved)
    /\ pc' = [pc EXCEPT ![c] = "checked"]
    /\ UNCHANGED <<books, held, target, snap, now, treasuryVars, historyVars>>

(* settle() up to the rail: the object awaits settlement and the controls  *)
(* permit the payout on the figures passed in.                             *)
Check(c, approved) ==
    /\ pc[c] = "ready"
    /\ held[c][target[c]] = "recorded"
    /\ Permits(Amount[target[c]], snap[c].balance, snap[c].paidToday, approved)
    /\ pc' = [pc EXCEPT ![c] = "checked"]
    /\ UNCHANGED <<books, held, target, snap, now, treasuryVars, historyVars>>

(* ValueError or PayoutRefused: nothing was written or moved. *)
Refuse(c, approved) ==
    /\ pc[c] = "ready"
    /\ \/ held[c][target[c]] # "recorded"
       \/ ~Permits(Amount[target[c]], snap[c].balance, snap[c].paidToday, approved)
    /\ EndCall(c)
    /\ UNCHANGED <<books, held, target, now, treasuryVars, historyVars>>

MoveValue(o) ==
    /\ balance' = balance - Amount[o]
    /\ paidToday' = paidToday + Amount[o]
    /\ paid' = [paid EXCEPT ![o] = @ + 1]

Interrupt(o) ==
    /\ \A p \in Obligations : interrupted[p] < MaxFaults
    /\ interrupted' = [interrupted EXCEPT ![o] = @ + 1]

(* rail.pay() returns its reference. *)
Pay(c) ==
    /\ pc[c] = "checked"
    /\ MoveValue(target[c])
    /\ pc' = [pc EXCEPT ![c] = "paid"]
    /\ snap' = [snap EXCEPT ![c] = NoFigures]
    /\ UNCHANGED <<books, held, target, now, grants, interrupted>>

(* Defect: an exception of the rail is swallowed and the record written. *)
PayFailsSilently(c) ==
    /\ pc[c] = "checked"
    /\ pc' = [pc EXCEPT ![c] = "paid"]
    /\ snap' = [snap EXCEPT ![c] = NoFigures]
    /\ UNCHANGED <<books, held, target, now, treasuryVars, historyVars>>

(* rail.pay() raises without having paid. *)
PayFails(c) ==
    /\ pc[c] = "checked"
    /\ EndCall(c)
    /\ UNCHANGED <<books, held, target, now, treasuryVars, historyVars>>

(* rail.pay() raises although the value has moved (an answer that did not  *)
(* arrive in time).                                                        *)
PayUnacknowledged(c) ==
    /\ pc[c] = "checked"
    /\ MoveValue(target[c])
    /\ Interrupt(target[c])
    /\ EndCall(c)
    /\ UNCHANGED <<books, held, target, now, grants>>

(* Defect: the record is written under the state the object came with. *)
FinishAsRecorded(c) ==
    /\ pc[c] = "paid"
    /\ Write(target[c], "recorded")
    /\ held' = [held EXCEPT ![c][target[c]] =
          IF KeepsHandle THEN @ ELSE "settled"]
    /\ EndCall(c)
    /\ UNCHANGED <<target, now, treasuryVars, historyVars>>

(* Defect: the record is written under a state ObligationState lacks. *)
FinishAsPaid(c) ==
    /\ pc[c] = "paid"
    /\ Write(target[c], "paid")
    /\ held' = [held EXCEPT ![c][target[c]] =
          IF KeepsHandle THEN @ ELSE "settled"]
    /\ EndCall(c)
    /\ UNCHANGED <<target, now, treasuryVars, historyVars>>

(* The settled record is written and settle() returns the new object.  The *)
(* object it was given is frozen and still says RECORDED.                  *)
Finish(c) ==
    /\ pc[c] = "paid"
    /\ Write(target[c], "settled")
    /\ held' = [held EXCEPT ![c][target[c]] =
          IF KeepsHandle THEN @ ELSE "settled"]
    /\ EndCall(c)
    /\ UNCHANGED <<target, now, treasuryVars, historyVars>>

(* The write raises, before or after the file is in place. *)
WriteFails(c) ==
    /\ pc[c] = "paid"
    /\ Write(target[c], "settled") \/ UNCHANGED books
    /\ Interrupt(target[c])
    /\ EndCall(c)
    /\ UNCHANGED <<held, target, now, treasuryVars, paid, grants>>

(* The clerk's process dies: its objects and the call in progress go. *)
Crash(c) ==
    /\ held' = [held EXCEPT ![c] = [o \in Obligations |-> "none"]]
    /\ EndCall(c)
    /\ IF pc[c] = "paid" THEN Interrupt(target[c]) ELSE UNCHANGED interrupted
    /\ UNCHANGED <<books, target, now, treasuryVars, paid, grants>>

-------------------------------------------------------------------------------
(* The world outside the ledger. *)
TopUp ==
    /\ balance < MaxBalance
    /\ balance' = balance + 1
    /\ UNCHANGED <<books, clerkVars, now, paidToday, historyVars>>

Midnight ==
    /\ paidToday' = 0
    /\ UNCHANGED <<books, clerkVars, now, balance, historyVars>>

(* datetime.now(UTC) moves on; where it may be set back, to any reading.   *)
ClockMoves ==
    /\ now' \in 0..MaxNow
    /\ ClockMayStepBack \/ now' > now
    /\ UNCHANGED <<books, clerkVars, treasuryVars, historyVars>>

World == TopUp \/ Midnight \/ ClockMoves

ClerkStep(c) ==
    \/ \E o \in Obligations :
          Record(c, o) \/ RecordUnacknowledged(c, o) \/ Load(c, o) \/ ReadTreasury(c, o)
    \/ \E approved \in BOOLEAN : Check(c, approved) \/ Refuse(c, approved)
    \/ Pay(c) \/ PayFails(c) \/ PayUnacknowledged(c)
    \/ Finish(c) \/ WriteFails(c)
    \/ Crash(c)

Next == World \/ \E c \in Clerks : ClerkStep(c)

Spec == Init /\ [][Next]_vars

-------------------------------------------------------------------------------
(* The books never claim a payment that was not made: a settled record     *)
(* exists only for an obligation whose value has moved, whatever raised,   *)
(* crashed or was retried.                                                 *)
BooksTruthful == \A o \in Obligations : Booked(o, "settled") => paid[o] > 0

(* A payment is missing from the books only while its call has yet to      *)
(* write, or where an exception or a crash came in between.                *)
PaidIsBooked ==
    \A o \in Obligations :
        paid[o] > 0 /\ ~Booked(o, "settled") =>
            \/ interrupted[o] > 0
            \/ \E c \in Clerks : pc[c] = "paid" /\ target[c] = o

(* outstanding() is "what is recorded but not yet settled" (line 153), on  *)
(* a clock that never goes back, even when both files carry one stamp.     *)
OutstandingAccurate ==
    \A o \in Obligations :
        Outstanding(o) <=> Booked(o, "recorded") /\ ~Booked(o, "settled")

(* Wherever the clock is set, an obligation that was recorded and never     *)
(* paid is outstanding: no reading of the clock makes outstanding() forget  *)
(* what is still owed.                                                      *)
NeverForgotten ==
    \A o \in Obligations :
        Booked(o, "recorded") /\ paid[o] = 0 => Outstanding(o)

(* And what has dropped out of outstanding() stays out, however the clock   *)
(* is set and whoever pays again: a set-back can keep a paid obligation     *)
(* outstanding, it never brings one back.                                   *)
OutForGood ==
    [][\A o \in Obligations :
          books[o] # {} /\ ~Outstanding(o) => ~Outstanding(o)']_vars

(* Value moves at most once for each object awaiting settlement that a     *)
(* clerk was given, and once more for each call that was cut short: the    *)
(* state guard stops every other repetition.                               *)
PaymentsAccounted ==
    \A o \in Obligations : paid[o] <= grants[o] + interrupted[o]

(* The reserve floor under stale figures: clerks that read the balance     *)
(* before one another's payouts overdraw it by one payout each, the first  *)
(* excepted, and never by more, however long they go on.                   *)
FloorBound == balance >= ReserveFloor - (Cardinality(Clerks) - 1) * MaxPayout

(* The daily ceiling under stale figures: the same bound on the other side. *)
DailyBound ==
    paidToday <= MaxDailyPayout + (Cardinality(Clerks) - 1) * MaxPayout

(* "an obligation cannot be settled twice" (tests/test_treasury.py:231).   *)
NotSettledTwice == \A o \in Obligations : paid[o] <= 1
===============================================================================
