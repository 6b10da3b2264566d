------------------------------- MODULE Controls -------------------------------
(***************************************************************************)
(* Treasury controls: treasury/controls.py.  Amounts are whole units of    *)
(* one currency.                                                           *)
(***************************************************************************)
EXTENDS Integers

CONSTANTS
    ReserveFloor,       \* TreasuryControls.reserve_floor
    MaxPayout,          \* .max_payout
    MaxDailyPayout,     \* .max_daily_payout
    ApprovalThreshold   \* .approval_threshold

(* What __post_init__ insists on. *)
ASSUME ControlsAssumption ==
    /\ {ReserveFloor, MaxPayout, MaxDailyPayout, ApprovalThreshold} \subseteq Nat
    /\ MaxPayout <= MaxDailyPayout

(* Defect: the floor is compared with the balance before the payout. *)
PermitsFromBalance(amount, balance, paidToday, approved) ==
    /\ amount > 0
    /\ amount <= MaxPayout
    /\ paidToday + amount <= MaxDailyPayout
    /\ balance > ReserveFloor
    /\ amount <= ApprovalThreshold \/ approved

(* Defect: the daily ceiling forgets the payout it is asked about. *)
PermitsLastOfDay(amount, balance, paidToday, approved) ==
    /\ amount > 0
    /\ amount <= MaxPayout
    /\ paidToday <= MaxDailyPayout
    /\ balance - amount >= ReserveFloor
    /\ amount <= ApprovalThreshold \/ approved

(* check() returns; it raises PayoutRefused or ValueError otherwise. *)
Permits(amount, balance, paidToday, approved) ==
    /\ amount > 0
    /\ amount <= MaxPayout
    /\ paidToday + amount <= MaxDailyPayout
    /\ balance - amount >= ReserveFloor
    /\ amount <= ApprovalThreshold \/ approved
===============================================================================
