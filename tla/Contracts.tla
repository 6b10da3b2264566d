------------------------------ MODULE Contracts ------------------------------
(***************************************************************************)
(* Terms a client signs: contracts/lease.py and contracts/packages.py over *)
(* the quote arithmetic.  Leases and packages are frozen values.           *)
(*                                                                         *)
(* A timestamp is [clock, offset, zoned]: what the wall clock shows, by how *)
(* much it is ahead of UTC, and whether that is written at all.            *)
(***************************************************************************)
EXTENDS Quoting, FiniteSets, Sequences

CONSTANTS
    Terms,         \* what callers write into a lease
    Volumes        \* units a client may use in a month

ASSUME ContractsAssumption ==
    /\ \A t \in Terms :
          /\ {t.startsAt, t.endsAt} \subseteq [clock : Int, offset : Int, zoned : BOOLEAN]
          /\ {t.capacityUnits, t.priceCap} \subseteq Int
          /\ {t.vendorLockRequired, t.exportSupported} \subseteq BOOLEAN
    /\ Volumes \subseteq Nat

(* Defect: the zone is cut off and the clock is taken for UTC. *)
ParseLocal(stamp) == stamp.clock

(* _parse(): the instant in UTC; raises on a naive timestamp. *)
Parse(stamp) == stamp.clock - stamp.offset

(* LeaseContract.__post_init__ *)
Signable(lease) ==
    /\ lease.priceCap >= 0 /\ lease.capacityUnits > 0
    /\ lease.startsAt.zoned /\ lease.endsAt.zoned
    /\ Parse(lease.startsAt) < Parse(lease.endsAt)
    /\ ~lease.vendorLockRequired /\ lease.exportSupported

IsActive(lease, at) == Parse(lease.startsAt) <= at /\ at < Parse(lease.endsAt)

-------------------------------------------------------------------------------
(* The plan of build_catalogue(): discounts in twentieths of the price. *)
Plan ==
    [supporter |-> [included |-> 10, discount |-> 20],
     starter |-> [included |-> 100, discount |-> 19],
     growth |-> [included |-> 1000, discount |-> 17],
     scale |-> [included |-> 10000, discount |-> 15]]

(* Defect: packages are priced from the upstream cost. *)
RetailAtCost(cost) == cost * RateGrain

(* unit_cost * (1 + total_uplift), as a numerator over One. *)
Retail(cost) == cost * (RateGrain + TotalUplift)

(* build_catalogue(): the monthly price is rounded to hundredths, the price *)
(* of a further unit to the last digit of a quote.                         *)
Packages(tier, cost) ==
    LET retail == Retail(cost) * Plan[tier].discount IN
    [tier : {tier},
     includedUnits : {Plan[tier].included},
     monthlyPrice : Rounded(retail * Plan[tier].included, 20 * One * Cent),
     overageUnitPrice : Rounded(retail, 20 * One)]

AtLeast(n, least) == IF n < least THEN least ELSE n

Overage(package, used) == AtLeast(used - package.includedUnits, 0)

(* price_for(), in hundredths. *)
PriceFor(package, used) ==
    Rounded(package.monthlyPrice * Cent + Overage(package, used) * package.overageUnitPrice, Cent)
===============================================================================
