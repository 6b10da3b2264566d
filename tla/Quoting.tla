------------------------------- MODULE Quoting -------------------------------
(***************************************************************************)
(* Quote arithmetic: quoting/policy.py and quoting/generator.py.  Money is *)
(* counted in units of the last digit a quote keeps (1e-6 of a currency).  *)
(* Rates are numerators over a common RateGrain, which any finite floats   *)
(* have.  round() of a float goes to a nearest unit, and on a tie to either *)
(* side, because the tie is not exact in binary.                           *)
(***************************************************************************)
EXTENDS Integers

CONSTANTS
    SupplierShare, KamAcquisition, Reserve, FreeRewards, BaseMargin,  \* rates
    RateGrain,     \* the denominator of the rates
    CostGrain      \* an upstream cost is a multiple of 1/CostGrain units

(* PricingPolicy.__post_init__ *)
ASSUME PolicyAssumption ==
    /\ {SupplierShare, KamAcquisition, Reserve, FreeRewards, BaseMargin} \subseteq Nat
    /\ {RateGrain, CostGrain} \subseteq Nat \ {0}

TotalUplift == SupplierShare + KamAcquisition + Reserve + FreeRewards + BaseMargin

(* One unit of money in the numerators below. *)
One == RateGrain * CostGrain

(* A hundredth, to which amounts a client pays are rounded. *)
Cent == 10000

(* The units nearest to n / d. *)
Rounded(n, d) == {r \in {n \div d, n \div d + 1} : -d <= 2 * (n - r * d) /\ 2 * (n - r * d) <= d}

(* quote(): the price and each share are rounded on their own, from the     *)
(* same upstream cost.                                                     *)
Quotes(cost) ==
    [upstreamCost : {cost},
     clientPrice : Rounded(cost * (RateGrain + TotalUplift), One),
     supplierShare : Rounded(cost * SupplierShare, One),
     kamAcquisition : Rounded(cost * KamAcquisition, One),
     reserve : Rounded(cost * Reserve, One),
     freeRewards : Rounded(cost * FreeRewards, One),
     baseMargin : Rounded(cost * BaseMargin, One)]

Shares(q) == q.supplierShare + q.kamAcquisition + q.reserve + q.freeRewards + q.baseMargin

(* What the client pays more, or less, than upstream and all shares get, as *)
(* a numerator over One.                                                   *)
Residue(q) == (q.clientPrice - Shares(q)) * One - RateGrain * q.upstreamCost
===============================================================================
