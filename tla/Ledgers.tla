------------------------------- MODULE Ledgers -------------------------------
(***************************************************************************)
(* The append-only ledgers over atomic_write_json: free_points.py and      *)
(* rewards.py (treasury), evidence.py, ledger.py (costing) and meter.py.   *)
(* Each keeps one file per entry in a directory per account, job or        *)
(* beneficiary, here called an account; a file is named by the wall clock  *)
(* and a fresh uuid, and history is the directory in the order of names.   *)
(*                                                                         *)
(* No ledger takes a lock, and a call is several steps: the directory is   *)
(* listed and the balance compared (points only), the clock is read, the   *)
(* file appears (complete, by module AtomicWrite), and the call returns,   *)
(* or raises with the file in place or not.  A listing shows what was there *)
(* when it began, and any part of what appears before it ends.             *)
(***************************************************************************)
EXTENDS Integers, FiniteSets, FiniteSetsExt, Sequences

CONSTANTS
    Callers,           \* threads or processes that call the ledgers
    Accounts,          \* accounts, jobs, beneficiaries with a currency
    MaxPoints,         \* the largest number of points in one call
    MaxSetBacks,       \* bound: how often the wall clock is set back
    MaxNow,            \* bound: the latest reading of the clock
    MaxCalls           \* bound: how many calls are made

ASSUME LedgersAssumption ==
    /\ IsFiniteSet(Callers) /\ Callers # {}
    /\ MaxPoints \in Nat \ {0}
    /\ MaxSetBacks \in Nat /\ MaxNow \in Nat /\ MaxCalls \in Nat

VARIABLES
    files,       \* the entries on disk, in the order they appeared
    call,        \* call[c]: the call c is in
    now,         \* the wall clock
    setBacks,    \* history: how often the clock was set back
    begun,       \* history: how many calls were begun; it numbers them
    returned,    \* history: the calls that returned
    doubtful     \* history: the calls that raised or died with the file there

vars == <<files, call, now, setBacks, begun, returned, doubtful>>

(* An entry of the other ledgers is written like one that is earned.  *)
Kinds == {"earned", "spent", "expired"}

(* "after" holds the calls that had returned when this one began. *)
Entry ==
    [account : Accounts, kind : Kinds,
     points : 1..MaxPoints, stamp : Nat, epoch : Nat, number : Nat, after : SUBSET Nat]
NoEntry == [number |-> 0]
NoCall == [step |-> "none", entry |-> NoEntry, listed |-> 0]

TypeOK ==
    /\ files \in Seq(Entry)
    /\ call \in [Callers -> [step : {"none", "listing", "begun", "stamped", "placed"},
                             entry : Entry \cup {NoEntry},
                             listed : 0..Len(files)]]
    /\ now \in Nat /\ setBacks \in Nat
    /\ begun \in Nat
    /\ returned \cup doubtful \subseteq 1..begun

Init ==
    /\ files = <<>>
    /\ call = [c \in Callers |-> NoCall]
    /\ now = 0 /\ setBacks = 0
    /\ begun = 0
    /\ returned = {}
    /\ doubtful = {}

-------------------------------------------------------------------------------
Signed(f) == IF f.kind \in {"spent", "expired"} THEN -f.points ELSE f.points

OfAccount(a) == {i \in DOMAIN files : files[i].account = a}

(* balance() over the files a listing showed. *)
BalanceOver(a, shown) ==
    MapThenSumSet(LAMBDA i : Signed(files[i]), OfAccount(a) \cap shown)

Balance(a) == BalanceOver(a, DOMAIN files)

(* Defect: history is taken to be newest first. *)
LatestFirst(a) ==
    {i \in OfAccount(a) : \A j \in OfAccount(a) : files[i].stamp <= files[j].stamp}

(* get_usage() and get_cost(): the last name; within one reading of the     *)
(* clock the uuid decides, which is to say anything.                       *)
Latest(a) ==
    {i \in OfAccount(a) : \A j \in OfAccount(a) : files[j].stamp <= files[i].stamp}

(* spend() and expire() look at the balance first. *)
Checked(kind) == kind \in {"spent", "expired"}

(* "listed" is how many files there were when the listing began. *)
Begin(c, a, kind, points) ==
    /\ call[c] = NoCall
    /\ begun < MaxCalls
    /\ begun' = begun + 1
    /\ call' = [call EXCEPT ![c] =
          [step |-> IF Checked(kind) THEN "listing" ELSE "begun",
           entry |-> [account |-> a, kind |-> kind, points |-> points,
                      stamp |-> 0, epoch |-> 0, number |-> begun + 1, after |-> returned],
           listed |-> IF Checked(kind) THEN Len(files) ELSE 0]]
    /\ UNCHANGED <<files, now, setBacks, returned, doubtful>>

(* earn(), and accrue_supplier_share(), accrue_referral(), record(),        *)
(* record_usage() and record_cost() of the other ledgers: nothing on disk  *)
(* is looked at first.                                                     *)
Record(c) ==
    \E a \in Accounts, points \in 1..MaxPoints : Begin(c, a, "earned", points)

(* spend() and expire() *)
Withdraw(c) ==
    \E a \in Accounts, kind \in {"spent", "expired"}, points \in 1..MaxPoints :
        Begin(c, a, kind, points)

(* What the listing of caller c may have shown. *)
Shown(c) ==
    {1..call[c].listed \cup late : late \in SUBSET (call[c].listed + 1..Len(files))}

(* Defect: expire() does not look at the balance. *)
CoveredIfSpent(c) ==
    \E shown \in Shown(c) :
        call[c].entry.kind = "spent" =>
            call[c].entry.points <= BalanceOver(call[c].entry.account, shown)

(* The points are there; otherwise the call raises InsufficientPoints. *)
Covered(c) ==
    \E shown \in Shown(c) :
        call[c].entry.points <= BalanceOver(call[c].entry.account, shown)

Approve(c) ==
    /\ call[c].step = "listing"
    /\ Covered(c)
    /\ call' = [call EXCEPT ![c].step = "begun", ![c].listed = 0]
    /\ UNCHANGED <<files, now, setBacks, begun, returned, doubtful>>

(* now = dt.datetime.now(UTC) *)
Stamp(c) ==
    /\ call[c].step = "begun"
    /\ call' = [call EXCEPT ![c].step = "stamped", ![c].entry.stamp = now,
                           ![c].entry.epoch = setBacks]
    /\ UNCHANGED <<files, now, setBacks, begun, returned, doubtful>>

(* Defect: the write is tried again although the file is there. *)
PlaceAgain(c) ==
    /\ call[c].step \in {"stamped", "placed"}
    /\ Len(files) < 2 * MaxCalls
    /\ files' = Append(files, call[c].entry)
    /\ call' = [call EXCEPT ![c].step = "placed"]
    /\ UNCHANGED <<now, setBacks, begun, returned, doubtful>>

(* atomic_write_json takes effect. *)
Place(c) ==
    /\ call[c].step = "stamped"
    /\ files' = Append(files, call[c].entry)
    /\ call' = [call EXCEPT ![c].step = "placed"]
    /\ UNCHANGED <<now, setBacks, begun, returned, doubtful>>

Return(c) ==
    /\ call[c].step = "placed"
    /\ returned' = returned \cup {call[c].entry.number}
    /\ call' = [call EXCEPT ![c] = NoCall]
    /\ UNCHANGED <<files, now, setBacks, begun, doubtful>>

(* Defect: what was raised after the rename is not told from success.      *)
RaiseQuietly(c) ==
    /\ call[c] # NoCall
    /\ call' = [call EXCEPT ![c].step = "raised"]
    /\ UNCHANGED <<files, now, setBacks, begun, returned, doubtful>>

(* The call raises, or its process dies, with the file in place or not.     *)
Raise(c) ==
    /\ call[c] # NoCall
    /\ doubtful' = IF call[c].step = "placed"
                   THEN doubtful \cup {call[c].entry.number} ELSE doubtful
    /\ call' = [call EXCEPT ![c] = NoCall]
    /\ UNCHANGED <<files, now, setBacks, begun, returned>>

ClockMoves ==
    /\ now' \in 0..MaxNow \ {now}
    /\ setBacks' = IF now' < now THEN setBacks + 1 ELSE setBacks
    /\ setBacks' <= MaxSetBacks
    /\ UNCHANGED <<files, call, begun, returned, doubtful>>

CallerStep(c) ==
    \/ Record(c) \/ Withdraw(c)
    \/ Approve(c) \/ Stamp(c) \/ Place(c) \/ Return(c) \/ Raise(c)

Next == ClockMoves \/ \E c \in Callers : CallerStep(c)

Spec == Init /\ [][Next]_vars

-------------------------------------------------------------------------------
(* spend() and expire() check a balance that others may be spending at the  *)
(* same time: an account is overdrawn by at most one call's points for each *)
(* caller but one, however long they go on and whatever raises.            *)
OverdraftBound ==
    \A a \in Accounts :
        Balance(a) >= -((Cardinality(Callers) - 1) * MaxPoints)

InPlace == {call[c].entry.number : c \in {d \in Callers : call[d].step = "placed"}}

(* An entry on disk belongs to one call, and every call has one at most: a  *)
(* call that returned has its entry for good, one that raised has none or   *)
(* is in doubt.  A caller that tries again after an exception may book the  *)
(* movement twice, and nothing else does.                                  *)
EntriesAccounted ==
    /\ \A i, j \in DOMAIN files : files[i].number = files[j].number => i = j
    /\ {files[i].number : i \in DOMAIN files} = returned \cup doubtful \cup InPlace
    /\ returned \cap doubtful = {}

(* "The most recent record" (meter.py:46, ledger.py:45): no call that began *)
(* after the latest record's call had returned left a record, but for one  *)
(* within the same reading of the clock or after the clock was set back,   *)
(* however slowly some callers get from the clock to the disk.             *)
LatestIsNewest ==
    \A a \in Accounts : \A i \in Latest(a), j \in OfAccount(a) :
        files[i].number \in files[j].after /\ files[i].epoch = files[j].epoch
            => files[j].stamp = files[i].stamp
===============================================================================
