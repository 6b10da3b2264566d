----------------------------- MODULE SalesProofs -----------------------------
(***************************************************************************)
(* Proofs about quotes, offers, leads, leases and orders, for every policy *)
(* of rates and thresholds, every project and terms, any number of         *)
(* sessions and every course that they take.                               *)
(***************************************************************************)
EXTENDS Sales, TotalsProofs, SequenceTheorems, TLAPS

-------------------------------------------------------------------------------
(***************************************************************************)
(* Rounding: at most half a unit is won or lost.                           *)
(***************************************************************************)
LEMMA RoundedNear ==
    ASSUME NEW n \in Int, NEW d \in Nat \ {0}, NEW r \in Rounded(n, d)
    PROVE  /\ r \in Int /\ r * d \in Int
           /\ -d <= 2 * (n - r * d)
           /\ 2 * (n - r * d) <= d
<1>1. r \in Int
  BY DEF Rounded
<1> QED BY <1>1 DEF Rounded

LEMMA Product == \A m, n \in Int : m * n \in Int
OBVIOUS

LEMMA Distributes ==
    /\ \A k, m, n \in Int : k * (m + n) = k * m + k * n
    /\ \A k, m, n \in Int : (m + n) * k = m * k + n * k
    /\ \A k, m, n \in Int : (m - n) * k = m * k - n * k
OBVIOUS

LEMMA ProductMonotone ==
    ASSUME NEW k \in Nat, NEW m \in Int, NEW n \in Int, m <= n
    PROVE  k * m <= k * n /\ m * k <= n * k
<1>1. PICK t \in Nat : n = m + t
  BY n - m \in Nat
<1>2. k * n = k * m + k * t /\ k * t \in Nat /\ k * m \in Int
  BY <1>1
<1>3. m * k = k * m /\ n * k = k * n
  OBVIOUS
<1> QED BY <1>2, <1>3

LEMMA PolicyTyped ==
    /\ One \in Nat \ {0} /\ One \in Int
    /\ RateGrain \in Nat \ {0} /\ RateGrain \in Int
    /\ TotalUplift \in Nat
    /\ SupplierShare \in Int /\ KamAcquisition \in Int /\ Reserve \in Int
    /\ FreeRewards \in Int /\ BaseMargin \in Int
BY PolicyAssumption DEF One, TotalUplift

(* Of six amounts that are off by half of d at most, the first is off from   *)
(* the others together by three times d.                                   *)
LEMMA SixRoundings ==
    ASSUME NEW d \in Int, NEW c \in Int,
           NEW n \in [0..5 -> Int], NEW r \in [0..5 -> Int],
           n[0] = c + n[1] + n[2] + n[3] + n[4] + n[5],
           \A i \in 0..5 : -d <= 2 * (n[i] - r[i]) /\ 2 * (n[i] - r[i]) <= d
    PROVE  LET rest == r[0] - r[1] - r[2] - r[3] - r[4] - r[5] - c
           IN  -3 * d <= rest /\ rest <= 3 * d
<1>1. /\ n[0] \in Int /\ n[1] \in Int /\ n[2] \in Int
      /\ n[3] \in Int /\ n[4] \in Int /\ n[5] \in Int
      /\ r[0] \in Int /\ r[1] \in Int /\ r[2] \in Int
      /\ r[3] \in Int /\ r[4] \in Int /\ r[5] \in Int
  OBVIOUS
<1>2. /\ -d <= 2 * (n[0] - r[0]) /\ 2 * (n[0] - r[0]) <= d
      /\ -d <= 2 * (n[1] - r[1]) /\ 2 * (n[1] - r[1]) <= d
      /\ -d <= 2 * (n[2] - r[2]) /\ 2 * (n[2] - r[2]) <= d
      /\ -d <= 2 * (n[3] - r[3]) /\ 2 * (n[3] - r[3]) <= d
      /\ -d <= 2 * (n[4] - r[4]) /\ 2 * (n[4] - r[4]) <= d
      /\ -d <= 2 * (n[5] - r[5]) /\ 2 * (n[5] - r[5]) <= d
  OBVIOUS
<1> QED BY <1>1, <1>2

LEMMA DistributesOverShares ==
    \A p, a, b, c, d, e, k \in Int :
        (p - (a + b + c + d + e)) * k = p * k - a * k - b * k - c * k - d * k - e * k
OBVIOUS

(* What is quoted adds up to what is charged, but for half a unit in each   *)
(* of the six roundings.                                                   *)
LEMMA QuoteAddsUp ==
    ASSUME NEW cost \in Int, NEW q \in Quotes(cost)
    PROVE  -3 * One <= Residue(q) /\ Residue(q) <= 3 * One
<1>1. /\ q.upstreamCost = cost
      /\ q.clientPrice \in Rounded(cost * (RateGrain + TotalUplift), One)
      /\ q.supplierShare \in Rounded(cost * SupplierShare, One)
      /\ q.kamAcquisition \in Rounded(cost * KamAcquisition, One)
      /\ q.reserve \in Rounded(cost * Reserve, One)
      /\ q.freeRewards \in Rounded(cost * FreeRewards, One)
      /\ q.baseMargin \in Rounded(cost * BaseMargin, One)
  BY DEF Quotes
<1> DEFINE Near(n, r) == /\ r \in Int /\ r * One \in Int /\ n \in Int
                         /\ -One <= 2 * (n - r * One) /\ 2 * (n - r * One) <= One
<1>2. ASSUME NEW rate \in Int, NEW r \in Rounded(cost * rate, One)
      PROVE  Near(cost * rate, r)
  <2>1. cost * rate \in Int
    BY Product
  <2> QED BY <2>1, RoundedNear, PolicyTyped
<1>3. /\ Near(cost * (RateGrain + TotalUplift), q.clientPrice)
      /\ Near(cost * SupplierShare, q.supplierShare)
      /\ Near(cost * KamAcquisition, q.kamAcquisition)
      /\ Near(cost * Reserve, q.reserve)
      /\ Near(cost * FreeRewards, q.freeRewards)
      /\ Near(cost * BaseMargin, q.baseMargin)
  <2>1. RateGrain + TotalUplift \in Int
    BY PolicyTyped
  <2> HIDE DEF Near
  <2> QED BY <1>1, <1>2, <2>1, PolicyTyped
<1>4. cost * (RateGrain + TotalUplift) =
        cost * RateGrain + cost * SupplierShare + cost * KamAcquisition + cost * Reserve
           + cost * FreeRewards + cost * BaseMargin
  BY PolicyTyped DEF TotalUplift
<1>5. (q.clientPrice - Shares(q)) * One =
         q.clientPrice * One - q.supplierShare * One - q.kamAcquisition * One
            - q.reserve * One - q.freeRewards * One - q.baseMargin * One
  <2>1. /\ q.clientPrice \in Int /\ q.supplierShare \in Int /\ q.kamAcquisition \in Int
        /\ q.reserve \in Int /\ q.freeRewards \in Int /\ q.baseMargin \in Int
        /\ One \in Int
    BY <1>3, PolicyTyped
  <2>2. Shares(q) = q.supplierShare + q.kamAcquisition + q.reserve + q.freeRewards
                       + q.baseMargin
    BY DEF Shares
  <2> HIDE DEF Near
  <2> QED BY <2>1, <2>2, DistributesOverShares
<1>6. Residue(q) = (q.clientPrice - Shares(q)) * One - RateGrain * cost
  BY <1>1 DEF Residue
<1> DEFINE n == [i \in 0..5 |->
                    CASE i = 0 -> cost * (RateGrain + TotalUplift) [] i = 1 -> cost * SupplierShare
                      [] i = 2 -> cost * KamAcquisition [] i = 3 -> cost * Reserve
                      [] i = 4 -> cost * FreeRewards [] i = 5 -> cost * BaseMargin]
           r == [i \in 0..5 |->
                    CASE i = 0 -> q.clientPrice * One [] i = 1 -> q.supplierShare * One
                      [] i = 2 -> q.kamAcquisition * One [] i = 3 -> q.reserve * One
                      [] i = 4 -> q.freeRewards * One [] i = 5 -> q.baseMargin * One]
<1>7. /\ n[0] = cost * (RateGrain + TotalUplift) /\ n[1] = cost * SupplierShare
      /\ n[2] = cost * KamAcquisition /\ n[3] = cost * Reserve
      /\ n[4] = cost * FreeRewards /\ n[5] = cost * BaseMargin
  OBVIOUS
<1>8. /\ r[0] = q.clientPrice * One /\ r[1] = q.supplierShare * One
      /\ r[2] = q.kamAcquisition * One /\ r[3] = q.reserve * One
      /\ r[4] = q.freeRewards * One /\ r[5] = q.baseMargin * One
  OBVIOUS
<1>9. n = [i \in 0..5 |-> n[i]] /\ r = [i \in 0..5 |-> r[i]]
  OBVIOUS
<1> HIDE DEF n, r
<1>10. \A i \in 0..5 : i = 0 \/ i = 1 \/ i = 2 \/ i = 3 \/ i = 4 \/ i = 5
  OBVIOUS
<1>11. ASSUME NEW i \in 0..5
       PROVE  /\ n[i] \in Int /\ r[i] \in Int
              /\ -One <= 2 * (n[i] - r[i]) /\ 2 * (n[i] - r[i]) <= One
  BY <1>3, <1>7, <1>8, <1>10
<1>12. n \in [0..5 -> Int] /\ r \in [0..5 -> Int]
  BY <1>9, <1>11
<1>13. cost * RateGrain \in Int /\ RateGrain * cost = cost * RateGrain /\ One \in Int
  BY PolicyTyped
<1>14. n[0] = cost * RateGrain + n[1] + n[2] + n[3] + n[4] + n[5]
  BY <1>4, <1>7
<1>15. LET rest == r[0] - r[1] - r[2] - r[3] - r[4] - r[5] - cost * RateGrain
       IN  -3 * One <= rest /\ rest <= 3 * One
  BY <1>11, <1>12, <1>13, <1>14, SixRoundings
<1>16. Residue(q) = r[0] - r[1] - r[2] - r[3] - r[4] - r[5] - cost * RateGrain
  BY <1>5, <1>6, <1>8, <1>13
<1> QED BY <1>15, <1>16

LEMMA PriceNotNegative ==
    ASSUME NEW cost \in Int, cost >= 0, NEW q \in Quotes(cost)
    PROVE  q.clientPrice \in Nat
<1>1. q.clientPrice \in Rounded(cost * (RateGrain + TotalUplift), One)
  BY DEF Quotes
<1>2. cost * (RateGrain + TotalUplift) \in Nat
  BY PolicyTyped
<1>3. /\ q.clientPrice \in Int
      /\ 2 * (cost * (RateGrain + TotalUplift) - q.clientPrice * One) <= One
  BY <1>1, <1>2, RoundedNear, PolicyTyped
<1>4. ASSUME q.clientPrice <= -1 PROVE FALSE
  <2>1. q.clientPrice * One <= (-1) * One
    BY <1>3, <1>4, ProductMonotone, PolicyTyped
  <2>2. q.clientPrice * One \in Int /\ (-1) * One = -One
    BY <1>3, PolicyTyped
  <2> QED BY <1>2, <1>3, <2>1, <2>2, PolicyTyped
<1> QED BY <1>3, <1>4

-------------------------------------------------------------------------------
(***************************************************************************)
(* The estimate: the expected month lies in its band.                      *)
(***************************************************************************)
LEMMA ProjectTyped ==
    ASSUME NEW p \in Projects
    PROVE  /\ p.jobsPerMonth \in Nat /\ p.peakConcurrency \in Nat \ {0}
           /\ p.upstreamCost \in Int
           /\ PocJobsPerMonth \in Int /\ LeasedJobsPerMonth \in Int
           /\ QuietMonthFactor \in Int /\ DedicatedMonthlyCost \in Int
BY FrontDeskAssumption

LEMMA EstimateFields ==
    ASSUME NEW p \in Projects, NEW price \in Nat, NEW e \in Estimates(p, price)
    PROVE  LET expected == price * p.jobsPerMonth
           IN  /\ expected \in Nat
               /\ e.expected \in Rounded(expected, Cent)
               /\ e.low \in Rounded(expected * QuietMonthFactor, RateGrain * Cent)
               /\ e.high \in Rounded(expected * p.peakConcurrency, Cent)
               /\ QuietMonthFactor = RateGrain => e.low = e.expected
               /\ p.peakConcurrency = 1 => e.high = e.expected
               /\ p.jobsPerMonth <= PocJobsPerMonth => e.poc = e.expected
<1>1. price * p.jobsPerMonth \in Nat
  BY ProjectTyped
<1>2. p.jobsPerMonth <= PocJobsPerMonth => AtMost(p.jobsPerMonth, PocJobsPerMonth) = p.jobsPerMonth
  BY ProjectTyped DEF AtMost
<1> QED BY <1>1, <1>2 DEF Estimates

LEMMA LowBelowExpected ==
    ASSUME NEW x \in Nat, NEW g \in Nat \ {0}, NEW factor \in Int, factor <= g,
           NEW e \in Rounded(x, Cent), NEW low \in Rounded(x * factor, g * Cent),
           factor = g => low = e
    PROVE  low <= e
<1>1. /\ e \in Int /\ -Cent <= 2 * (x - e * Cent) /\ 2 * (x - e * Cent) <= Cent
  BY RoundedNear DEF Cent
<1>2. x * factor \in Int /\ g * Cent \in Nat \ {0}
  BY DEF Cent
<1>3. /\ low \in Int
      /\ -(g * Cent) <= 2 * (x * factor - low * (g * Cent))
      /\ 2 * (x * factor - low * (g * Cent)) <= g * Cent
  BY <1>2, RoundedNear
<1>4. CASE factor = g
  BY <1>1, <1>4
<1>5. CASE factor # g
  <2>1. SUFFICES ASSUME e + 1 <= low PROVE FALSE
    BY <1>1, <1>3
  <2> DEFINE G == g * x  H == g * e  L == g * low
  <2>2. G \in Int /\ H \in Int /\ L \in Int
    BY <1>1, <1>3
  <2>3. x * factor <= x * (g - 1) /\ x * (g - 1) = G - x
    <3>1. factor <= g - 1
      BY <1>5
    <3>2. x * factor <= x * (g - 1)
      BY <3>1, ProductMonotone
    <3>3. x * (g - 1) = x * g - x * 1 /\ x * g = g * x
      OBVIOUS
    <3> QED BY <3>2, <3>3
  <2>4. H + g <= L
    <3>1. g * (e + 1) <= g * low
      BY <1>1, <1>3, <2>1, ProductMonotone
    <3>2. g * (e + 1) = g * e + g
      BY <1>1
    <3> QED BY <3>1, <3>2
  (* g times the rounding of the expected month, and that of a quiet one *)
  <2>5. 2 * G - 20000 * H <= 10000 * g
    <3>1. g * (2 * (x - e * Cent)) <= g * Cent /\ Cent = 10000
      BY <1>1, ProductMonotone DEF Cent
    <3>2. g * (2 * (x - e * 10000)) = 2 * (g * x) - 20000 * (g * e)
      BY <1>1
    <3> QED BY <3>1, <3>2
  <2>6. 20000 * L - 2 * (x * factor) <= 10000 * g
    <3>1. low * (g * Cent) = 10000 * (g * low) /\ g * Cent = 10000 * g
      BY <1>3 DEF Cent
    <3> QED BY <1>2, <1>3, <2>2, <3>1
  <2>7. ASSUME x = 0 PROVE e = 0 /\ x * factor = 0
    BY <1>1, <2>7 DEF Cent
  <2>8. CASE x = 0
    <3>1. H = 0 /\ x * factor = 0
      BY <2>7, <2>8
    <3> HIDE DEF G, H, L
    <3> QED BY <2>2, <2>4, <2>6, <3>1
  <2> HIDE DEF G, H, L
  <2>9. CASE x # 0
    BY <1>2, <2>2, <2>3, <2>4, <2>5, <2>6, <2>9
  <2> QED BY <2>8, <2>9
<1> QED BY <1>4, <1>5

LEMMA ExpectedBelowHigh ==
    ASSUME NEW x \in Nat, NEW peak \in Nat \ {0}, NEW e \in Rounded(x, Cent),
           NEW high \in Rounded(x * peak, Cent), peak = 1 => high = e
    PROVE  e <= high
<1>1. /\ e \in Int /\ -Cent <= 2 * (x - e * Cent) /\ 2 * (x - e * Cent) <= Cent
  BY RoundedNear DEF Cent
<1>2. x * peak \in Int
  OBVIOUS
<1>3. /\ high \in Int
      /\ -Cent <= 2 * (x * peak - high * Cent)
      /\ 2 * (x * peak - high * Cent) <= Cent
  BY <1>2, RoundedNear DEF Cent
<1>4. CASE peak = 1
  BY <1>1, <1>4
<1>5. CASE peak # 1
  <2>1. x * 2 <= x * peak
    BY <1>5, ProductMonotone
  <2> QED BY <1>1, <1>2, <1>3, <2>1 DEF Cent
<1> QED BY <1>4, <1>5

(* What no dedicated machine is dearer than is no dearer when rounded. *)
LEMMA RoundedBelow ==
    ASSUME NEW x \in Nat, NEW most \in Int, x <= most * Cent, NEW e \in Rounded(x, Cent)
    PROVE  e <= most
<1>1. e \in Int /\ -Cent <= 2 * (x - e * Cent)
  BY RoundedNear DEF Cent
<1> QED BY <1>1 DEF Cent

LEMMA OfferOf ==
    ASSUME NEW p, NEW q, NEW o \in Offers(p, q)
    PROVE  /\ o.project = p /\ o.quote = q
           /\ o.estimate \in Estimates(p, q.clientPrice)
           /\ o.recommendation = Recommendation(p, q.clientPrice * p.jobsPerMonth)
           /\ o.nextStep = NextStep(p, o.recommendation, o.estimate.expected)
BY DEF Offers

(* An offer is what offer() makes of a project and of one of its quotes. *)
OfferMade ==
    offer # NoOffer =>
        \E p \in Projects : \E q \in Quotes(p.upstreamCost) :
            p.upstreamCost >= 0 /\ offer \in Offers(p, q)

LEMMA OfferMadeAddsUp == OfferMade => OfferAddsUp
<1> SUFFICES ASSUME OfferMade, offer # NoOffer
             PROVE  /\ -3 * One <= Residue(offer.quote) /\ Residue(offer.quote) <= 3 * One
                    /\ QuietMonthFactor <= RateGrain =>
                          offer.estimate.low <= offer.estimate.expected
                    /\ offer.estimate.expected <= offer.estimate.high
                    /\ offer.recommendation = "poc" =>
                          offer.estimate.poc = offer.estimate.expected
                    /\ offer.recommendation \in {"poc", "leased"} =>
                          offer.estimate.expected <= DedicatedMonthlyCost
  BY DEF OfferAddsUp
<1>0. PICK p \in Projects : \E q \in Quotes(p.upstreamCost) :
         p.upstreamCost >= 0 /\ offer \in Offers(p, q)
  BY DEF OfferMade
<1>1. PICK q \in Quotes(p.upstreamCost) : p.upstreamCost >= 0 /\ offer \in Offers(p, q)
  BY <1>0
<1> DEFINE x == q.clientPrice * p.jobsPerMonth
           e == offer.estimate
<1>2. q.clientPrice \in Nat
  BY <1>1, ProjectTyped, PriceNotNegative
<1>3. /\ offer.quote = q /\ e \in Estimates(p, q.clientPrice)
      /\ offer.recommendation = Recommendation(p, x)
  BY <1>1, OfferOf
<1>4. /\ x \in Nat
      /\ e.expected \in Rounded(x, Cent)
      /\ e.low \in Rounded(x * QuietMonthFactor, RateGrain * Cent)
      /\ e.high \in Rounded(x * p.peakConcurrency, Cent)
      /\ QuietMonthFactor = RateGrain => e.low = e.expected
      /\ p.peakConcurrency = 1 => e.high = e.expected
      /\ p.jobsPerMonth <= PocJobsPerMonth => e.poc = e.expected
  BY <1>2, <1>3, EstimateFields
<1>5. -3 * One <= Residue(offer.quote) /\ Residue(offer.quote) <= 3 * One
  BY <1>1, <1>3, ProjectTyped, QuoteAddsUp
<1> HIDE DEF x, e
<1>6. QuietMonthFactor <= RateGrain => e.low <= e.expected
  BY <1>4, ProjectTyped, PolicyTyped, LowBelowExpected
<1>7. e.expected <= e.high
  BY <1>4, ProjectTyped, ExpectedBelowHigh
<1>8. offer.recommendation = "poc" => e.poc = e.expected
  BY <1>3, <1>4 DEF Recommendation
<1>9. offer.recommendation \in {"poc", "leased"} => e.expected <= DedicatedMonthlyCost
  <2>1. offer.recommendation \in {"poc", "leased"} => ~(x > DedicatedMonthlyCost * Cent)
    BY <1>3 DEF Recommendation
  <2>2. DedicatedMonthlyCost \in Int /\ DedicatedMonthlyCost * Cent \in Int
    BY ProjectTyped DEF Cent
  <2> QED BY <1>4, <2>1, <2>2, RoundedBelow
<1> QED BY <1>5, <1>6, <1>7, <1>8, <1>9 DEF e

-------------------------------------------------------------------------------
(***************************************************************************)
(* The inductive invariants: of the offer (above), of the lead, of the     *)
(* leases and of the orders.  They share no variable but the offer.        *)
(***************************************************************************)
(* No move leads back to the first stage.  qualify() leaves QUALIFYING at   *)
(* once, for the desk of the offer, and no other move leads to a desk.      *)
LeadSound ==
    /\ lead \in Seq(Stages) /\ lead # <<>> /\ routed \in BOOLEAN
    /\ Stage = "lead" => Reached = {"lead"}
    /\ routed =>
          /\ Stage \notin {"lead", "qualifying"}
          /\ Reached \cap {"kam", "self_service"} # {}
          /\ "self_service" \in Reached =>
                offer # NoOffer /\ Desk(offer.nextStep) = "self_service"

LeasesSound ==
    /\ leases \in Seq(Terms)
    /\ \A i \in DOMAIN leases : Signable(leases[i])

Live == {s \in Sessions : Awaiting(s)}
Paid == {s \in Sessions : held[s] = "paid"}

(* An object that awaits payment may still be charged for, whether its      *)
(* session is inside charge() or not.                                      *)
OrdersSound ==
    /\ held \in [Sessions -> OrderStates \cup {"none"}]
    /\ {open, charged, copies, pending, lost} \subseteq Nat
    /\ charging \subseteq Live
    /\ open <= pending
    /\ copies = 0 =>
          /\ \A s \in Sessions : held[s] = "none"
          /\ charged = 0 /\ pending = 0 /\ lost = 0
    /\ charged + open + Cardinality(Live) <= copies + pending + lost
    /\ copies + pending + lost <= 1 => charged = Cardinality(Paid)

SalesInv == OfferMade /\ LeadSound /\ LeasesSound /\ OrdersSound

-------------------------------------------------------------------------------
LEMMA OfferMadeKept ==
    ASSUME OfferMade, [Next]_vars
    PROVE  OfferMade'
<1>1. CASE offer' = offer
  BY <1>1 DEF OfferMade
<1>2. CASE offer' # offer
  <2>1. PICK p \in Projects : Offer(p)
    BY <1>2 DEF Next, vars, Qualify, Advance, Sign, SessionStep, Start, Share, Pay,
       Authorized, Declined, Pending, Unanswered, Answered, Cancel, Decide
  <2> QED BY <2>1 DEF OfferMade, Offer
<1> QED BY <1>1, <1>2

LEMMA OfferTyped ==
    ASSUME OfferMade
    PROVE  offer = NoOffer \/
              /\ offer.project \in Projects
              /\ offer.quote \in Quotes(offer.project.upstreamCost)
              /\ offer.estimate \in Estimates(offer.project, offer.quote.clientPrice)
              /\ offer.nextStep \in {"talk_to_kam", "buy", "trial", "lease"}
<1>1. SUFFICES ASSUME offer # NoOffer
      PROVE   /\ offer.project \in Projects
              /\ offer.quote \in Quotes(offer.project.upstreamCost)
              /\ offer.estimate \in Estimates(offer.project, offer.quote.clientPrice)
              /\ offer.nextStep \in {"talk_to_kam", "buy", "trial", "lease"}
  OBVIOUS
<1>2. PICK p \in Projects : \E q \in Quotes(p.upstreamCost) :
         p.upstreamCost >= 0 /\ offer \in Offers(p, q)
  BY <1>1 DEF OfferMade
<1>3. PICK q \in Quotes(p.upstreamCost) : p.upstreamCost >= 0 /\ offer \in Offers(p, q)
  BY <1>2
<1>4. /\ offer.project = p /\ offer.quote = q
      /\ offer.estimate \in Estimates(p, q.clientPrice)
      /\ offer.nextStep = NextStep(p, offer.recommendation, offer.estimate.expected)
  BY <1>3, OfferOf
<1> QED BY <1>4 DEF NextStep

-------------------------------------------------------------------------------
(***************************************************************************)
(* The lead.                                                               *)
(***************************************************************************)
LEMMA LeadLast ==
    ASSUME NEW s \in Seq(Stages), s # <<>>
    PROVE  /\ Len(s) \in Nat /\ Len(s) > 0 /\ DOMAIN s = 1..Len(s)
           /\ Len(s) \in DOMAIN s
           /\ \A i \in DOMAIN s : s[i] \in Stages
BY EmptySeq, LenProperties

LEMMA LeadGrows ==
    ASSUME LeadSound, NEW stage \in Stages, NEW s \in Seq(Stages), s = Append(lead, stage)
    PROVE  /\ s # <<>> /\ s[Len(s)] = stage
           /\ {s[i] : i \in DOMAIN s} = Reached \cup {stage}
<1>1. lead \in Seq(Stages)
  BY DEF LeadSound
<1>2. /\ Len(s) = Len(lead) + 1 /\ Len(lead) \in Nat
      /\ \A i \in 1..Len(lead) : s[i] = lead[i]
      /\ s[Len(lead) + 1] = stage
  BY <1>1, AppendProperties
<1>3. DOMAIN s = 1..Len(s) /\ DOMAIN lead = 1..Len(lead)
  BY <1>1, LenProperties
<1>4. DOMAIN s = DOMAIN lead \cup {Len(lead) + 1}
  BY <1>2, <1>3
<1>5. {s[i] : i \in DOMAIN s} = Reached \cup {stage}
  BY <1>2, <1>3, <1>4 DEF Reached
<1> QED BY <1>2, <1>5

LEMMA LeadSoundKept ==
    ASSUME LeadSound, OfferMade, [Next]_vars
    PROVE  LeadSound'
<1>0. lead \in Seq(Stages) /\ lead # <<>>
  BY DEF LeadSound
<1>1. CASE UNCHANGED leadVars
  <2>1. lead' = lead /\ routed' = routed /\ Reached' = Reached /\ Stage' = Stage
    BY <1>1 DEF leadVars, Reached, Stage
  <2>2. offer # NoOffer => offer' = offer
    BY DEF Next, vars, Offer, Qualify, Advance, Sign, SessionStep, Start, Share,
       Pay, Authorized, Declined, Pending, Unanswered, Answered, Cancel, Decide
  <2> QED BY <2>1, <2>2 DEF LeadSound
<1>2. CASE Qualify
  <2> DEFINE mid == Append(lead, "qualifying")
             desk == Desk(offer.nextStep)
  <2>1. /\ offer # NoOffer /\ offer' = offer /\ routed' = TRUE
        /\ lead' = lead \o <<"qualifying", desk>>
        /\ Reached = {"lead"}
    BY <1>2 DEF Qualify, Allowed, LeadSound
  <2>2. desk \in {"self_service", "kam"} /\ desk \in Stages /\ "qualifying" \in Stages
    BY DEF Desk, Stages
  <2> HIDE DEF desk
  <2>3. lead' = Append(mid, desk)
    BY <1>0, <2>1, <2>2
  <2>4. mid \in Seq(Stages) /\ lead' \in Seq(Stages)
    BY <1>0, <2>2, <2>3, AppendProperties
  <2>5. /\ DOMAIN lead = 1..Len(lead) /\ DOMAIN mid = 1..Len(mid)
        /\ DOMAIN lead' = 1..Len(lead')
        /\ Len(lead) \in Nat
    BY <1>0, <2>4, LenProperties
  <2>6. /\ Len(mid) = Len(lead) + 1
        /\ \A i \in 1..Len(lead) : mid[i] = lead[i]
        /\ mid[Len(lead) + 1] = "qualifying"
    BY <1>0, <2>2, AppendProperties
  <2>7. /\ Len(lead') = Len(mid) + 1
        /\ \A i \in 1..Len(mid) : lead'[i] = mid[i]
        /\ lead'[Len(mid) + 1] = desk
    BY <2>2, <2>3, <2>4, AppendProperties
  <2> HIDE DEF mid
  <2>8. Stage' = desk /\ lead' # <<>>
    <3>1. Stage' = lead'[Len(lead')]
      BY DEF Stage
    <3> QED BY <2>4, <2>5, <2>6, <2>7, <3>1
  <2>9. Reached' = Reached \cup {"qualifying", desk}
    <3>1. {mid[i] : i \in DOMAIN mid} = Reached \cup {"qualifying"}
      BY <2>5, <2>6 DEF Reached
    <3>2. Reached' = {mid[i] : i \in DOMAIN mid} \cup {desk}
      BY <2>5, <2>6, <2>7 DEF Reached
    <3> QED BY <3>1, <3>2
  <2> QED BY <2>1, <2>2, <2>4, <2>8, <2>9 DEF LeadSound, desk
<1>3. ASSUME NEW stage \in Stages, Advance(stage) PROVE LeadSound'
  <2>1. /\ stage \in Allowed(Stage) /\ routed' = routed
        /\ lead' = Append(lead, stage) /\ offer' = offer
    BY <1>3 DEF Advance
  <2>2. lead' \in Seq(Stages)
    BY <1>0, <2>1, AppendProperties
  <2>3. lead' # <<>> /\ lead'[Len(lead')] = stage
        /\ {lead'[i] : i \in DOMAIN lead'} = Reached \cup {stage}
    BY <2>1, <2>2, LeadGrows
  <2>4. Stage' = stage /\ Reached' = Reached \cup {stage}
    BY <2>3 DEF Stage, Reached
  <2>5. /\ stage # "lead"
        /\ stage = "qualifying" => Stage = "lead"
        /\ stage \in {"self_service", "kam"} => Stage = "qualifying"
    BY <2>1 DEF Allowed
  <2> QED BY <2>1, <2>2, <2>3, <2>4, <2>5 DEF LeadSound
<1>4. UNCHANGED leadVars \/ Qualify \/ \E stage \in Stages : Advance(stage)
  BY DEF Next, vars, Offer, Sign, SessionStep, Start, Share, Pay, Authorized, Declined,
     Pending, Unanswered, Answered, Cancel, Decide
<1> QED BY <1>1, <1>2, <1>3, <1>4

LEMMA LeadIsSized == OfferMade /\ LeadSound => RoutedSizedOrHuman
<1> SUFFICES ASSUME OfferMade, LeadSound, routed, "kam" \notin Reached
             PROVE  /\ offer # NoOffer
                    /\ ~Unserviceable(offer.project) /\ Classified(offer.project)
                    /\ offer.estimate.expected < BuyFloor
  BY DEF RoutedSizedOrHuman, SizedOrHuman
<1>1. offer # NoOffer /\ Desk(offer.nextStep) = "self_service"
  BY DEF LeadSound
<1>2. PICK p \in Projects : \E q \in Quotes(p.upstreamCost) :
         p.upstreamCost >= 0 /\ offer \in Offers(p, q)
  BY <1>1 DEF OfferMade
<1>3. PICK q \in Quotes(p.upstreamCost) : p.upstreamCost >= 0 /\ offer \in Offers(p, q)
  BY <1>2
<1>4. /\ offer.project = p
      /\ offer.estimate \in Estimates(p, q.clientPrice)
      /\ offer.nextStep = NextStep(p, offer.recommendation, offer.estimate.expected)
  BY <1>3, OfferOf
<1>5. offer.nextStep \notin {"talk_to_kam", "buy"}
  BY <1>1 DEF Desk
<1>6. q.clientPrice \in Nat
  BY <1>3, ProjectTyped, PriceNotNegative
<1>7. offer.estimate.expected \in Int
  <2>1. /\ q.clientPrice * p.jobsPerMonth \in Nat
        /\ offer.estimate.expected \in Rounded(q.clientPrice * p.jobsPerMonth, Cent)
    BY <1>4, <1>6, EstimateFields
  <2> QED BY <2>1, RoundedNear DEF Cent
<1>8. BuyFloor \in Int
  BY FrontDeskAssumption
<1> QED BY <1>1, <1>4, <1>5, <1>7, <1>8 DEF NextStep

-------------------------------------------------------------------------------
(***************************************************************************)
(* The leases: each begins where the one before ends, and none is empty.   *)
(***************************************************************************)
LEMMA TermInstants ==
    ASSUME NEW t \in Terms
    PROVE  /\ Meant(t.startsAt) \in Int /\ Meant(t.endsAt) \in Int
           /\ Signable(t) => Meant(t.startsAt) < Meant(t.endsAt)
           /\ \A at : IsActive(t, at) <=> Meant(t.startsAt) <= at /\ at < Meant(t.endsAt)
<1>1. /\ t.startsAt \in [clock : Int, offset : Int, zoned : BOOLEAN]
      /\ t.endsAt \in [clock : Int, offset : Int, zoned : BOOLEAN]
  BY ContractsAssumption
<1>2. Meant(t.startsAt) \in Int /\ Meant(t.endsAt) \in Int
  BY <1>1 DEF Meant
<1>3. Parse(t.startsAt) = Meant(t.startsAt) /\ Parse(t.endsAt) = Meant(t.endsAt)
  BY DEF Parse, Meant
<1> QED BY <1>2, <1>3 DEF Signable, IsActive

LEMMA LeasesSoundKept ==
    ASSUME LeasesSound, [Next]_vars
    PROVE  LeasesSound'
<1>1. CASE leases' = leases
  BY <1>1 DEF LeasesSound
<1>2. ASSUME NEW terms \in Terms, Sign(terms) PROVE LeasesSound'
  <2>1. leases \in Seq(Terms) /\ leases' = Append(leases, terms) /\ Signable(terms)
    BY <1>2 DEF LeasesSound, Sign
  <2>2. /\ leases' \in Seq(Terms) /\ Len(leases) \in Nat /\ Len(leases') = Len(leases) + 1
        /\ DOMAIN leases = 1..Len(leases) /\ DOMAIN leases' = 1..Len(leases')
        /\ \A i \in 1..Len(leases) : leases'[i] = leases[i]
        /\ leases'[Len(leases) + 1] = terms
    BY <2>1, AppendProperties, LenProperties
  <2> QED BY <2>1, <2>2 DEF LeasesSound
<1>3. leases' = leases \/ \E terms \in Terms : Sign(terms)
  BY DEF Next, vars, Offer, Qualify, Advance, SessionStep, Start, Share, Pay, Authorized,
     Declined, Pending, Unanswered, Answered, Cancel, Decide
<1> QED BY <1>1, <1>2, <1>3

(* Where each lease starts as the one before ends, and none is empty, every *)
(* lease has ended when a later one starts: of the later ones for which it  *)
(* has not, take the first.                                                *)
LEMMA ChainOrdered ==
    ASSUME NEW n \in Nat, NEW from \in [1..n -> Int], NEW till \in [1..n -> Int],
           \A i \in 1..n : from[i] < till[i],
           \A i \in 1..n : i + 1 \in 1..n => from[i + 1] = till[i],
           NEW i \in 1..n, NEW j \in 1..n, i < j
    PROVE  till[i] <= from[j]
<1> DEFINE Bad == {k \in 1..n : i < k /\ ~(till[i] <= from[k])}
           back == [k \in 1..n |-> -k]
<1>1. SUFFICES ASSUME j \in Bad PROVE FALSE
  OBVIOUS
<1>2. PICK k \in Bad : \A l \in Bad : back[l] <= back[k]
  <2>1. IsFiniteSet(Bad) /\ Bad # {}
    <3>1. IsFiniteSet(1..n) /\ Bad \subseteq 1..n
      BY FS_Interval
    <3> HIDE DEF Bad
    <3> QED BY <1>1, <3>1, FS_Subset
  <2>2. \A l \in Bad : back[l] \in Int
    OBVIOUS
  <2> HIDE DEF Bad, back
  <2> QED BY <2>1, <2>2, LargestElement
<1>3. k \in 1..n /\ i < k /\ ~(till[i] <= from[k])
  OBVIOUS
<1>4. /\ k - 1 \in 1..n /\ from[k] = till[k - 1] /\ from[k - 1] < till[k - 1]
  <2>1. k - 1 \in 1..n /\ (k - 1) + 1 = k
    BY <1>3
  <2> QED BY <1>3, <2>1
<1>5. k - 1 # i
  BY <1>3, <1>4
<1>6. ~(till[i] <= from[k - 1])
  BY <1>3, <1>4
<1>7. k - 1 \in Bad
  BY <1>3, <1>4, <1>5, <1>6
<1>8. back[k - 1] <= back[k]
  BY <1>2, <1>7
<1> QED BY <1>3, <1>4, <1>8

(* Of the leases that have begun, the one that began last is active, and it *)
(* is the only one.                                                        *)
LEMMA LeasesHandOver == LeasesSound => LeaseHandover
<1> DEFINE n == Len(leases)
           from(i) == Meant(leases[i].startsAt)
           till(i) == Meant(leases[i].endsAt)
           active(at) == {i \in DOMAIN leases : IsActive(leases[i], at)}
<1> SUFFICES ASSUME LeasesSound, leases # <<>>, FollowOn, NEW at \in Instants
             PROVE  Cardinality(active(at)) = IF from(1) <= at /\ at < till(n) THEN 1 ELSE 0
  BY DEF LeaseHandover
<1>1. leases \in Seq(Terms) /\ n \in Nat \ {0} /\ DOMAIN leases = 1..n
  BY EmptySeq, LenProperties DEF LeasesSound
<1>2. at \in Int
  BY SalesAssumption
<1>3. \A i \in 1..n : /\ from(i) \in Int /\ till(i) \in Int /\ from(i) < till(i)
                      /\ IsActive(leases[i], at) <=> from(i) <= at /\ at < till(i)
  BY <1>1, TermInstants DEF LeasesSound
<1>4. \A i \in 1..n : i + 1 \in 1..n => from(i + 1) = till(i)
  BY <1>1 DEF FollowOn
<1>5. \A i, j \in 1..n : i < j => till(i) <= from(j)
  <2> TAKE i, j \in 1..n
  <2> DEFINE f == [k \in 1..n |-> from(k)]
             t == [k \in 1..n |-> till(k)]
  <2> HIDE DEF n, from, till
  <2>1. f \in [1..n -> Int] /\ t \in [1..n -> Int] /\ n \in Nat
    BY <1>1, <1>3
  <2>2. \A k \in 1..n : f[k] = from(k) /\ t[k] = till(k)
    OBVIOUS
  <2> HIDE DEF f, t
  <2>3. /\ \A k \in 1..n : f[k] < t[k]
        /\ \A k \in 1..n : k + 1 \in 1..n => f[k + 1] = t[k]
    BY <1>3, <1>4, <2>2
  <2>4. i < j => t[i] <= f[j]
    BY <2>1, <2>3, ChainOrdered
  <2> QED BY <2>2, <2>4
<1>6. active(at) = {i \in 1..n : from(i) <= at /\ at < till(i)}
  BY <1>1, <1>3
<1> HIDE DEF n, from, till, active
<1>7. \A i \in 1..n : from(1) <= from(i) /\ till(i) <= till(n)
  <2> TAKE i \in 1..n
  <2>1. 1 \in 1..n /\ n \in 1..n
    BY <1>1
  <2>2. CASE i = 1 \/ 1 < i
    <3>1. from(1) <= from(i)
      BY <1>3, <1>5, <2>1, <2>2
    <3> QED BY <1>1, <1>3, <1>5, <2>1, <3>1
  <2> QED BY <1>1, <2>2
<1>8. CASE ~(from(1) <= at /\ at < till(n))
  <2>1. active(at) = {}
    <3>1. ASSUME NEW i \in 1..n, from(i) <= at, at < till(i) PROVE FALSE
      <4>1. 1 \in 1..n /\ n \in 1..n
        BY <1>1
      <4> QED BY <1>2, <1>3, <1>7, <1>8, <3>1, <4>1
    <3> QED BY <1>6, <3>1
  <2> QED BY <1>8, <2>1, FS_EmptySet
<1>9. CASE from(1) <= at /\ at < till(n)
  <2> DEFINE begun == {i \in 1..n : from(i) <= at}
  <2>1. begun \subseteq 1..n /\ 1 \in begun
    BY <1>1, <1>9
  <2>2. PICK last \in begun : \A i \in begun : i <= last
    <3> DEFINE number == [i \in 1..n |-> i]
    <3>1. IsFiniteSet(begun) /\ begun # {}
      BY <1>1, <2>1, FS_Interval, FS_Subset
    <3>2. \A i \in begun : number[i] = i /\ i \in Int
      OBVIOUS
    <3>3. \A i \in begun : number[i] \in Int
      BY <3>2
    <3> HIDE DEF begun, number
    <3>4. \E x \in begun : \A y \in begun : number[y] <= number[x]
      BY <3>1, <3>3, LargestElement
    <3> QED BY <3>2, <3>4
  <2>3. last \in 1..n /\ from(last) <= at
    BY <2>2
  <2>4. at < till(last)
    <3>1. CASE last = n
      BY <1>9, <3>1
    <3>2. CASE last # n
      <4>1. last + 1 \in 1..n
        BY <1>1, <2>3, <3>2
      <4>2. last + 1 \notin begun
        BY <2>2, <2>3
      <4>3. ~(from(last + 1) <= at)
        BY <4>1, <4>2
      <4> QED BY <1>2, <1>3, <1>4, <2>3, <4>1, <4>3
    <3> QED BY <3>1, <3>2
  <2>5. ASSUME NEW i \in 1..n, from(i) <= at, at < till(i) PROVE i = last
    <3>1. i <= last /\ i \in Int /\ last \in Int
      BY <2>2, <2>3, <2>5
    <3>2. CASE i < last
      <4>1. till(i) <= from(last)
        BY <1>5, <2>3, <3>2
      <4> QED BY <1>2, <1>3, <2>3, <2>5, <4>1
    <3> QED BY <3>1, <3>2
  <2>6. active(at) = {last}
    BY <1>6, <2>3, <2>4, <2>5
  <2>7. Cardinality(active(at)) = 1
    BY <2>6, FS_Singleton
  <2> QED BY <1>9, <2>7
<1> QED BY <1>8, <1>9

-------------------------------------------------------------------------------
(***************************************************************************)
(* The orders: every charge, made or still possible, goes back to an       *)
(* object, an answer PENDING or an answer that was lost.                   *)
(***************************************************************************)
LEMMA OrdersFinite ==
    /\ IsFiniteSet(Live) /\ Cardinality(Live) \in Nat
    /\ IsFiniteSet(Paid) /\ Cardinality(Paid) \in Nat
<1>1. Live \subseteq Sessions /\ Paid \subseteq Sessions
  BY DEF Live, Paid
<1> QED BY <1>1, SalesAssumption, FS_Subset, FS_CardinalityType

LEMMA Holding ==
    ASSUME OrdersSound, NEW s \in Sessions, NEW state \in OrderStates, Hold(s, state)
    PROVE  /\ held' \in [Sessions -> OrderStates \cup {"none"}]
           /\ Live' = IF state = "awaiting_payment" THEN Live \cup {s} ELSE Live \ {s}
           /\ Paid' = IF state = "paid" THEN Paid \cup {s} ELSE Paid \ {s}
<1>1. /\ held \in [Sessions -> OrderStates \cup {"none"}]
      /\ held' = [held EXCEPT ![s] = state]
  BY DEF OrdersSound, Hold
<1>2. /\ held' \in [Sessions -> OrderStates \cup {"none"}]
      /\ \A t \in Sessions : held'[t] = IF t = s THEN state ELSE held[t]
  BY <1>1
<1>3. Live' = {t \in Sessions : held'[t] = "awaiting_payment"}
  BY DEF Live, Awaiting
<1>4. Paid' = {t \in Sessions : held'[t] = "paid"}
  BY DEF Paid
<1>5. Live' = IF state = "awaiting_payment" THEN Live \cup {s} ELSE Live \ {s}
  <2>1. CASE state = "awaiting_payment"
    BY <1>2, <1>3, <2>1 DEF Live, Awaiting
  <2>2. CASE state # "awaiting_payment"
    BY <1>2, <1>3, <2>2 DEF Live, Awaiting
  <2> QED BY <2>1, <2>2
<1>6. Paid' = IF state = "paid" THEN Paid \cup {s} ELSE Paid \ {s}
  <2>1. CASE state = "paid"
    BY <1>2, <1>4, <2>1 DEF Paid
  <2>2. CASE state # "paid"
    BY <1>2, <1>4, <2>2 DEF Paid
  <2> QED BY <2>1, <2>2
<1> QED BY <1>2, <1>5, <1>6

LEMMA OrderCounts ==
    ASSUME OrdersSound
    PROVE  /\ open \in Nat /\ charged \in Nat /\ copies \in Nat /\ pending \in Nat
           /\ lost \in Nat
           /\ \A s \in Sessions : held[s] # "none" => copies > 0
           /\ open > 0 => copies > 0 /\ pending > 0
BY DEF OrdersSound

(* A charge is still possible only for an object that awaits payment, and   *)
(* that object is spent by an answer.                                      *)
LEMMA OrderTaken ==
    ASSUME OrdersSound, NEW s \in Sessions, s \in Live, Hold(s, "paid") \/ Hold(s, "failed")
    PROVE  /\ held' \in [Sessions -> OrderStates \cup {"none"}]
           /\ Live' = Live \ {s} /\ Cardinality(Live)' = Cardinality(Live) - 1
           /\ Hold(s, "paid") => Cardinality(Paid)' = Cardinality(Paid) + 1
           /\ Hold(s, "failed") => Cardinality(Paid)' = Cardinality(Paid)
<1>1. s \notin Paid
  BY DEF Live, Awaiting, Paid
<1>2. CASE Hold(s, "paid")
  <2>1. /\ held' \in [Sessions -> OrderStates \cup {"none"}]
        /\ Live' = Live \ {s} /\ Paid' = Paid \cup {s}
    BY <1>2, Holding DEF OrderStates
  <2>2. ~Hold(s, "failed")
    BY <1>2 DEF Hold, OrdersSound
  <2> QED BY <1>1, <2>1, <2>2, OrdersFinite, FS_AddElement, FS_RemoveElement
<1>3. CASE Hold(s, "failed")
  <2>1. /\ held' \in [Sessions -> OrderStates \cup {"none"}]
        /\ Live' = Live \ {s} /\ Paid' = Paid \ {s}
    BY <1>3, Holding DEF OrderStates
  <2>2. Paid' = Paid
    BY <1>1, <2>1
  <2>3. ~Hold(s, "paid")
    BY <1>3 DEF Hold, OrdersSound
  <2> QED BY <2>1, <2>2, <2>3, OrdersFinite, FS_RemoveElement
<1> QED BY <1>2, <1>3

LEMMA OrdersSoundKept ==
    ASSUME OrdersSound, [Next]_vars
    PROVE  OrdersSound'
<1> USE OrderCounts, OrdersFinite
<1>1. CASE UNCHANGED orderVars
  BY <1>1 DEF OrdersSound, orderVars, Live, Paid, Awaiting
<1>2. ASSUME NEW s \in Sessions, Start(s) PROVE OrdersSound'
  <2>1. /\ copies = 0 /\ copies' = 1 /\ Hold(s, "awaiting_payment")
        /\ UNCHANGED <<charging, open, charged, pending, lost>>
    BY <1>2 DEF Start
  <2>2. Live = {} /\ Paid = {} /\ charging = {} /\ open = 0 /\ charged = 0
        /\ pending = 0 /\ lost = 0
    <3>1. /\ \A r \in Sessions : held[r] = "none"
          /\ charged = 0 /\ pending = 0 /\ lost = 0 /\ open <= pending
          /\ charging \subseteq Live
      BY <2>1 DEF OrdersSound
    <3>2. Live = {} /\ Paid = {}
      BY <3>1 DEF Live, Paid, Awaiting
    <3> QED BY <3>1, <3>2
  <2>3. held' \in [Sessions -> OrderStates \cup {"none"}] /\ Live' = {s} /\ Paid' = {}
    BY <2>1, <2>2, Holding DEF OrderStates
  <2>4. Cardinality(Live)' = 1 /\ Cardinality(Paid)' = 0
    BY <2>3, FS_Singleton, FS_EmptySet
  <2> QED BY <2>1, <2>2, <2>3, <2>4 DEF OrdersSound
<1>3. ASSUME NEW s \in Sessions, NEW t \in Sessions, Share(s, t) PROVE OrdersSound'
  <2>1. /\ Awaiting(s) /\ ~Awaiting(t) /\ copies' = copies + 1
        /\ Hold(t, "awaiting_payment")
        /\ UNCHANGED <<charging, open, charged, pending, lost>>
    BY <1>3 DEF Share
  <2>2. copies > 0 /\ t \notin Live
    BY <2>1 DEF Awaiting, Live
  <2>3. held' \in [Sessions -> OrderStates \cup {"none"}] /\ Live' = Live \cup {t}
    BY <2>1, Holding DEF OrderStates
  <2>4. Cardinality(Live)' = Cardinality(Live) + 1
    BY <2>2, <2>3, FS_AddElement
  <2> QED BY <2>1, <2>2, <2>3, <2>4 DEF OrdersSound
<1>4. ASSUME NEW s \in Sessions, Pay(s) PROVE OrdersSound'
  <2>1. /\ s \in Live /\ charging' = charging \cup {s}
        /\ UNCHANGED <<held, open, charged, copies, pending, lost>>
    BY <1>4 DEF Pay, Live
  <2>2. Live' = Live /\ Paid' = Paid
    BY <2>1 DEF Live, Paid, Awaiting
  <2> QED BY <2>1, <2>2 DEF OrdersSound
<1>5. ASSUME NEW s \in Sessions, Authorized(s) PROVE OrdersSound'
  <2>1. /\ s \in charging /\ charging' = charging \ {s} /\ copies' = copies
        /\ Hold(s, "paid") /\ charged' = charged + 1
        /\ UNCHANGED <<open, pending, lost>>
    BY <1>5 DEF Authorized, Answered
  <2>2. s \in Live /\ held[s] # "none"
    BY <2>1 DEF OrdersSound, Live, Awaiting
  <2>3. /\ held' \in [Sessions -> OrderStates \cup {"none"}]
        /\ Live' = Live \ {s} /\ Cardinality(Live)' = Cardinality(Live) - 1
        /\ Cardinality(Paid)' = Cardinality(Paid) + 1
    BY <2>1, <2>2, OrderTaken
  <2> QED BY <2>1, <2>2, <2>3 DEF OrdersSound
<1>6. ASSUME NEW s \in Sessions, Declined(s) PROVE OrdersSound'
  <2>1. /\ s \in charging /\ charging' = charging \ {s} /\ copies' = copies
        /\ Hold(s, "failed")
        /\ UNCHANGED <<open, charged, pending, lost>>
    BY <1>6 DEF Declined, Answered
  <2>2. s \in Live /\ held[s] # "none"
    BY <2>1 DEF OrdersSound, Live, Awaiting
  <2>3. /\ held' \in [Sessions -> OrderStates \cup {"none"}]
        /\ Live' = Live \ {s} /\ Cardinality(Live)' = Cardinality(Live) - 1
        /\ Cardinality(Paid)' = Cardinality(Paid)
    BY <2>1, <2>2, OrderTaken
  <2> QED BY <2>1, <2>2, <2>3 DEF OrdersSound
<1>7. ASSUME NEW s \in Sessions, Pending(s) \/ Unanswered(s) PROVE OrdersSound'
  <2>1. /\ s \in charging /\ charging' = charging \ {s} /\ UNCHANGED <<held, copies>>
        /\ open' + charged' + pending + lost <= open + charged + pending' + lost'
        /\ open' \in Nat /\ charged' \in Nat /\ pending' \in Nat /\ lost' \in Nat
        /\ open' <= pending' /\ pending' + lost' > 0
    BY <1>7 DEF Pending, Unanswered, Answered, OrdersSound
  <2>2. held[s] # "none"
    BY <2>1 DEF OrdersSound, Live, Awaiting
  <2>3. Live' = Live /\ Paid' = Paid /\ copies > 0
    BY <2>1, <2>2 DEF Live, Paid, Awaiting
  <2>4. charging \subseteq Live /\ charged + open + Cardinality(Live) <= copies + pending + lost
    BY DEF OrdersSound
  <2>5. charged' + open' + Cardinality(Live)' <= copies' + pending' + lost'
    BY <2>1, <2>3, <2>4
  <2>6. copies' \in Nat /\ copies' # 0 /\ copies' + pending' + lost' > 1
    <3>1. copies' = copies /\ copies \in Nat /\ copies > 0
      BY <2>1, <2>3
    <3>2. pending' \in Nat /\ lost' \in Nat /\ pending' + lost' > 0
      BY <2>1
    <3>3. \A a, b, c \in Nat : a > 0 /\ b + c > 0 => a + b + c > 1
      OBVIOUS
    <3> HIDE OrderCounts, OrdersFinite
    <3>4. copies' \in Nat /\ copies' > 0 /\ copies' # 0
      BY <3>1
    <3> QED BY <3>2, <3>3, <3>4
  <2>7. held' \in [Sessions -> OrderStates \cup {"none"}] /\ charging' \subseteq Live'
    BY <2>1, <2>3, <2>4 DEF OrdersSound
  <2>8. /\ {open', charged', copies', pending', lost'} \subseteq Nat
        /\ open' <= pending'
    BY <2>1, <2>6
  <2>9. ~(copies' + pending' + lost' <= 1)
    BY <2>6, <2>8
  <2> HIDE OrderCounts, OrdersFinite
  <2> QED BY <2>5, <2>6, <2>7, <2>8, <2>9 DEF OrdersSound
<1>8. ASSUME NEW s \in Sessions, Cancel(s) PROVE OrdersSound'
  <2>1. /\ s \notin charging /\ held[s] \notin {"none", "paid"} /\ Hold(s, "cancelled")
        /\ UNCHANGED <<charging, open, charged, copies, pending, lost>>
    BY <1>8 DEF Cancel, Idle
  <2>2. /\ held' \in [Sessions -> OrderStates \cup {"none"}]
        /\ Live' = Live \ {s} /\ Paid' = Paid \ {s}
    BY <2>1, Holding DEF OrderStates
  <2>3. Paid' = Paid
    BY <2>1, <2>2 DEF Paid
  <2>4. Cardinality(Live)' \in Nat /\ Cardinality(Live)' <= Cardinality(Live)
    <3>1. Cardinality(Live \ {s}) =
             IF s \in Live THEN Cardinality(Live) - 1 ELSE Cardinality(Live)
      BY FS_RemoveElement
    <3>2. Cardinality(Live \ {s}) \in Nat
      BY FS_RemoveElement, FS_CardinalityType
    <3> QED BY <2>2, <3>1, <3>2
  <2> QED BY <2>1, <2>2, <2>3, <2>4 DEF OrdersSound
<1>9. ASSUME Decide PROVE OrdersSound'
  <2>1. /\ open > 0 /\ open' = open - 1 /\ charged' \in {charged, charged + 1}
        /\ UNCHANGED <<held, charging, copies, pending, lost>>
    BY <1>9 DEF Decide
  <2>2. Live' = Live /\ Paid' = Paid /\ copies > 0 /\ pending > 0
    BY <2>1 DEF Live, Paid, Awaiting
  <2> QED BY <2>1, <2>2 DEF OrdersSound
<1>10. \/ UNCHANGED orderVars
       \/ \E s \in Sessions : SessionStep(s)
       \/ Decide
  BY DEF Next, vars, Offer, Qualify, Advance, Sign
<1> QED BY <1>1, <1>2, <1>3, <1>4, <1>5, <1>6, <1>7, <1>8, <1>9, <1>10 DEF SessionStep

LEMMA OrdersAddUp == OrdersSound => ChargesAccounted
<1> SUFFICES ASSUME OrdersSound PROVE ChargesAccounted
  OBVIOUS
<1>1. charging \subseteq Live
  BY DEF OrdersSound
<1>2. Cardinality(charging) \in Nat /\ Cardinality(charging) <= Cardinality(Live)
  BY <1>1, OrdersFinite, FS_Subset, FS_CardinalityType
<1> QED BY <1>2, OrderCounts, OrdersFinite DEF OrdersSound, ChargesAccounted, Paid

-------------------------------------------------------------------------------
(***************************************************************************)
(* The invariant, and what follows from it.                                *)
(***************************************************************************)
LEMMA SalesStarts == Init => SalesInv
<1> SUFFICES ASSUME Init PROVE SalesInv
  OBVIOUS
<1>1. OfferMade
  BY DEF Init, OfferMade
<1>2. LeadSound
  <2>1. lead = <<"lead">> /\ lead \in Seq(Stages) /\ lead # <<>> /\ Len(lead) = 1
    BY DEF Init, Stages
  <2>2. Stage = "lead" /\ Reached = {"lead"} /\ routed = FALSE
    BY <2>1 DEF Stage, Reached, Init
  <2> QED BY <2>1, <2>2 DEF LeadSound
<1>3. LeasesSound
  BY DEF Init, LeasesSound
<1>4. OrdersSound
  <2>1. held = [s \in Sessions |-> "none"] /\ charging = {} /\ open = 0 /\ charged = 0
        /\ copies = 0 /\ pending = 0 /\ lost = 0
    BY DEF Init
  <2>2. Live = {} /\ Paid = {}
    BY <2>1 DEF Live, Paid, Awaiting
  <2>3. Cardinality(Live) = 0 /\ Cardinality(Paid) = 0
    BY <2>2, FS_EmptySet
  <2> QED BY <2>1, <2>3 DEF OrdersSound
<1> QED BY <1>1, <1>2, <1>3, <1>4 DEF SalesInv

LEMMA SalesKept == SalesInv /\ [Next]_vars => SalesInv'
BY OfferMadeKept, LeadSoundKept, LeasesSoundKept, OrdersSoundKept DEF SalesInv

LEMMA SalesTyped == SalesInv => TypeOK
<1> SUFFICES ASSUME SalesInv PROVE TypeOK
  OBVIOUS
<1>1. OfferMade /\ LeadSound /\ LeasesSound /\ OrdersSound
  BY DEF SalesInv
<1>2. routed \in BOOLEAN /\ Len(lead) > 0 /\ \A i \in DOMAIN lead : lead[i] \in Stages
  BY <1>1, LeadLast DEF LeadSound
<1>3. leases \in Seq(Terms)
  BY <1>1 DEF LeasesSound
<1>4. /\ held \in [Sessions -> OrderStates \cup {"none"}]
      /\ charging \subseteq Sessions
      /\ {open, charged, copies, pending, lost} \subseteq Nat
  BY <1>1 DEF OrdersSound, Live
<1> QED BY <1>1, <1>2, <1>3, <1>4, OfferTyped DEF TypeOK

LEMMA SalesInvariant == Spec => []SalesInv
BY SalesStarts, SalesKept, PTL DEF Spec

(* Every operation of the front desk, the pipeline, the leases and the      *)
(* checkout leaves values of the kinds the code declares: an offer is made  *)
(* of a known project, of one of the quotes of its cost and of an estimate  *)
(* of that quote.                                                          *)
THEOREM TypeCorrect == Spec => []TypeOK
BY SalesInvariant, SalesTyped, PTL

(* For all non-negative rates, every upstream cost, every project and every *)
(* way the ties are rounded, what a client is quoted is what upstream and   *)
(* the five shares get, but for half a unit in each of six roundings; the   *)
(* expected month is below the upper end of its band, and above the lower   *)
(* one if the factor for a quiet month is one at most, which no constructor *)
(* demands (kam/estimator.py:22-26); and a proof of concept or a lease is   *)
(* recommended for no more than a dedicated machine costs                   *)
(* (quoting/generator.py, kam/estimator.py).                               *)
THEOREM OffersAddUp == Spec => []OfferAddsUp
BY SalesInvariant, OfferMadeAddsUp, PTL DEF SalesInv

(* Of all leads, with any moves made by hand before and after, one that     *)
(* qualify() took out of its first stage and that came to a trial, a lease  *)
(* or a project has been with a person or fits what it was offered          *)
(* (front_desk.py _next_step(), sales/pipeline.py).                        *)
THEOREM LeadsAreSizedOrSeen == Spec => []RoutedSizedOrHuman
BY SalesInvariant, LeadIsSized, PTL DEF SalesInv

(* However many leases are signed, on whatever terms and in whatever zones: *)
(* if each is meant to start as the one before ends, exactly one is active  *)
(* at any instant from the start of the first to the end of the last        *)
(* (contracts/lease.py).                                                   *)
THEOREM LeasesTakeOver == Spec => []LeaseHandover
BY SalesInvariant, LeasesHandOver, PTL DEF SalesInv

(* For any number of sessions with copies of one order, a client is charged *)
(* no more often than there are copies, answers PENDING and answers lost;   *)
(* with one copy and no doubt, exactly if the order is paid                 *)
(* (sales/checkout.py pay(), cancel()).                                    *)
THEOREM ChargesAreAccounted == Spec => []ChargesAccounted
BY SalesInvariant, OrdersAddUp, PTL DEF SalesInv

-------------------------------------------------------------------------------
(***************************************************************************)
(* Packages: with G for One, everything is multiplied by G, each rounding   *)
(* is off by half of its digit at most, and G is cancelled in the end.      *)
(***************************************************************************)
LEMMA Cancels ==
    ASSUME NEW G \in Nat \ {0}, NEW a \in Int, NEW b \in Int, G * a <= G * b
    PROVE  a <= b
<1>1. SUFFICES ASSUME b + 1 <= a PROVE FALSE
  OBVIOUS
<1>2. G * (b + 1) <= G * a
  BY <1>1, ProductMonotone
<1>3. G * (b + 1) = G * b + G /\ G * a \in Int /\ G * b \in Int
  OBVIOUS
<1> QED BY <1>2, <1>3

LEMMA ScaledNear ==
    ASSUME NEW k \in Nat, NEW a \in Int, NEW b \in Int, NEW d \in Int,
           -d <= 2 * (a - b), 2 * (a - b) <= d
    PROVE  -(k * d) <= 2 * (k * a - k * b) /\ 2 * (k * a - k * b) <= k * d
<1>1. k * (-d) <= k * (2 * (a - b)) /\ k * (2 * (a - b)) <= k * d
  BY ProductMonotone
<1>2. k * (-d) = -(k * d) /\ k * (2 * (a - b)) = 2 * (k * a - k * b)
  OBVIOUS
<1> QED BY <1>1, <1>2

(* R is the retail price of a unit, q its price in the quote; m, v and B     *)
(* are the monthly price, the price of a further unit and the bill.         *)
LEMMA DriftBound ==
    ASSUME NEW G \in Nat \ {0}, NEW R \in Int, NEW q \in Int, NEW d \in Nat, NEW n \in Nat,
           NEW O \in Nat, NEW m \in Int, NEW v \in Int, NEW B \in Int,
           -G <= 2 * (R - q * G), 2 * (R - q * G) <= G,
           LET e == 2 * (R * d * n - m * (20 * G * Cent))
           IN  -(20 * G * Cent) <= e /\ e <= 20 * G * Cent,
           LET e == 2 * (R * d - v * (20 * G)) IN -(20 * G) <= e /\ e <= 20 * G,
           LET e == 2 * (m * Cent + O * v - B * Cent) IN -Cent <= e /\ e <= Cent
    PROVE  LET drift == 20 * Cent * B - d * (n + O) * q
               most == 40 * Cent + 20 * O + d * (n + O)
           IN  -most <= 2 * drift /\ 2 * drift <= most
<1> DEFINE k == d * (n + O)
           X == R * d
           drift == 20 * Cent * B - k * q
           most == 40 * Cent + 20 * O + k
<1>1. /\ k \in Nat /\ X \in Int /\ X * n \in Int /\ X * O \in Int
      /\ G * m \in Int /\ G * B \in Int /\ G * O \in Int /\ G * k \in Int
      /\ O * v \in Int /\ G * (O * v) \in Int /\ k * q \in Int /\ G * (k * q) \in Int
  OBVIOUS
<1>2. k * R = X * n + X * O
  <2>1. k * R = (d * n + d * O) * R
    BY Distributes
  <2>2. (d * n + d * O) * R = (d * n) * R + (d * O) * R
    BY Distributes, Product
  <2>3. (d * n) * R = X * n /\ (d * O) * R = X * O
    OBVIOUS
  <2> QED BY <2>1, <2>2, <2>3
<1>3. /\ -(200000 * G) <= 2 * (X * n) - 400000 * (G * m)
      /\ 2 * (X * n) - 400000 * (G * m) <= 200000 * G
  <2>1. m * (20 * G * Cent) = 200000 * (G * m) /\ 20 * G * Cent = 200000 * G
    BY DEF Cent
  <2> QED BY <1>1, <2>1
<1>4. -(20 * (G * O)) <= 2 * (X * O) - 40 * (G * (O * v))
      /\ 2 * (X * O) - 40 * (G * (O * v)) <= 20 * (G * O)
  <2>1. /\ v * (20 * G) \in Int /\ 20 * G \in Int
        /\ -(20 * G) <= 2 * (X - v * (20 * G)) /\ 2 * (X - v * (20 * G)) <= 20 * G
    OBVIOUS
  <2>2. /\ O * (v * (20 * G)) = 20 * (G * (O * v))
        /\ O * (20 * G) = 20 * (G * O) /\ O * X = X * O
    OBVIOUS
  <2> HIDE DEF X
  <2>3. /\ -(O * (20 * G)) <= 2 * (O * X - O * (v * (20 * G)))
        /\ 2 * (O * X - O * (v * (20 * G))) <= O * (20 * G)
    BY <1>1, <2>1, ScaledNear
  <2> QED BY <1>1, <2>2, <2>3
<1>5. /\ -(10000 * G) <= 2 * (10000 * (G * m) + G * (O * v) - 10000 * (G * B))
      /\ 2 * (10000 * (G * m) + G * (O * v) - 10000 * (G * B)) <= 10000 * G
  <2> DEFINE paid == 10000 * m + O * v
  <2>1. /\ paid \in Int /\ 10000 * B \in Int
        /\ -10000 <= 2 * (paid - 10000 * B) /\ 2 * (paid - 10000 * B) <= 10000
    BY <1>1 DEF Cent
  <2>2. /\ G * paid = 10000 * (G * m) + G * (O * v)
        /\ G * (10000 * B) = 10000 * (G * B) /\ G * 10000 = 10000 * G
    <3>1. G * paid = G * (10000 * m) + G * (O * v)
      BY <1>1, Distributes
    <3>2. G * (10000 * m) = 10000 * (G * m) /\ G * (10000 * B) = 10000 * (G * B)
      OBVIOUS
    <3> QED BY <3>1, <3>2
  <2> HIDE DEF paid
  <2>3. /\ -(G * 10000) <= 2 * (G * paid - G * (10000 * B))
        /\ 2 * (G * paid - G * (10000 * B)) <= G * 10000
    BY <2>1, ScaledNear
  <2> QED BY <1>1, <2>2, <2>3
<1>6. -(G * k) <= 2 * (k * R) - 2 * (G * (k * q)) /\ 2 * (k * R) - 2 * (G * (k * q)) <= G * k
  <2>1. k * (q * G) = G * (k * q) /\ k * G = G * k /\ k * R \in Int /\ q * G \in Int
    OBVIOUS
  <2> HIDE DEF k
  <2>2. /\ -(k * G) <= 2 * (k * R - k * (q * G))
        /\ 2 * (k * R - k * (q * G)) <= k * G
    BY <1>1, <2>1, ScaledNear
  <2> QED BY <1>1, <2>1, <2>2
<1>7. /\ G * (2 * drift) = 400000 * (G * B) - 2 * (G * (k * q))
      /\ G * most = 400000 * G + 20 * (G * O) + G * k
      /\ G * (-most) = -(G * most)
  <2> HIDE DEF k
  <2>1. 2 * drift = 400000 * B - 2 * (k * q) /\ 400000 * B \in Int /\ 2 * (k * q) \in Int
    BY <1>1 DEF Cent
  <2>2. G * (400000 * B - 2 * (k * q)) = G * (400000 * B) - G * (2 * (k * q))
    BY <1>1
  <2>3. G * (400000 * B) = 400000 * (G * B) /\ G * (2 * (k * q)) = 2 * (G * (k * q))
    BY <1>1
  <2>4. most = 400000 + 20 * O + k
    BY <1>1 DEF Cent
  <2>5. G * (400000 + 20 * O + k) = 400000 * G + 20 * (G * O) + G * k
    BY <1>1
  <2>6. G * (-most) = -(G * most)
    BY <1>1, <2>4
  <2> QED BY <2>1, <2>2, <2>3, <2>4, <2>5, <2>6
<1>8. drift \in Int /\ most \in Int /\ 2 * drift \in Int /\ -most \in Int
  BY <1>1 DEF Cent
<1> SUFFICES -most <= 2 * drift /\ 2 * drift <= most
  OBVIOUS
<1> HIDE DEF k, X, drift, most
<1>9. G * (-most) <= G * (2 * drift) /\ G * (2 * drift) <= G * most
  BY <1>1, <1>2, <1>3, <1>4, <1>5, <1>6, <1>7
<1> QED BY <1>8, <1>9, Cancels

LEMMA QuotePackages ==
    ASSUME NEW cost \in Int, NEW q \in Quotes(cost)
    PROVE  PackagesFollow(q)
<1> SUFFICES ASSUME NEW tier \in DOMAIN Plan, NEW used \in Volumes,
                    NEW package \in Packages(tier, q.upstreamCost),
                    NEW bill \in PriceFor(package, used)
             PROVE  LET billed == AtLeast(used, package.includedUnits)
                        discount == Plan[tier].discount
                        drift == 20 * Cent * bill - discount * billed * q.clientPrice
                        most == 40 * Cent + 20 * Overage(package, used) + discount * billed
                    IN -most <= 2 * drift /\ 2 * drift <= most
  BY DEF PackagesFollow
<1> DEFINE R == cost * (RateGrain + TotalUplift)
           d == Plan[tier].discount
           n == Plan[tier].included
           O == Overage(package, used)
           m == package.monthlyPrice
           v == package.overageUnitPrice
<1>1. d \in Nat /\ n \in Nat /\ used \in Nat
  <2>1. tier \in {"supporter", "starter", "growth", "scale"}
    BY DEF Plan
  <2> QED BY <2>1, ContractsAssumption DEF Plan
<1>2. /\ q.upstreamCost = cost /\ R \in Int
      /\ q.clientPrice \in Rounded(R, One)
  BY PolicyTyped DEF Quotes
<1>3. /\ package.includedUnits = n
      /\ m \in Rounded(R * d * n, 20 * One * Cent)
      /\ v \in Rounded(R * d, 20 * One)
  BY <1>2 DEF Packages, Retail
<1>4. bill \in Rounded(m * Cent + O * v, Cent)
  BY DEF PriceFor
<1>5. O \in Nat /\ AtLeast(used, package.includedUnits) = n + O
  BY <1>1, <1>3 DEF Overage, AtLeast
<1> HIDE DEF R, d, n, O, m, v
<1>6. /\ 20 * One \in Nat \ {0} /\ 20 * One * Cent \in Nat \ {0} /\ Cent \in Nat \ {0}
      /\ R * d \in Int /\ R * d * n \in Int
  BY <1>1, <1>2, PolicyTyped DEF Cent
<1>7. /\ q.clientPrice \in Int
      /\ -One <= 2 * (R - q.clientPrice * One) /\ 2 * (R - q.clientPrice * One) <= One
  BY <1>2, PolicyTyped, RoundedNear
<1>8. /\ m \in Int
      /\ -(20 * One * Cent) <= 2 * (R * d * n - m * (20 * One * Cent))
      /\ 2 * (R * d * n - m * (20 * One * Cent)) <= 20 * One * Cent
  BY <1>3, <1>6, RoundedNear
<1>9. /\ v \in Int
      /\ -(20 * One) <= 2 * (R * d - v * (20 * One)) /\ 2 * (R * d - v * (20 * One)) <= 20 * One
  BY <1>3, <1>6, RoundedNear
<1>10. m * Cent + O * v \in Int
  BY <1>5, <1>8, <1>9 DEF Cent
<1>11. /\ bill \in Int
       /\ -Cent <= 2 * (m * Cent + O * v - bill * Cent)
       /\ 2 * (m * Cent + O * v - bill * Cent) <= Cent
  <2> DEFINE total == m * Cent + O * v
  <2>1. total \in Int /\ bill \in Rounded(total, Cent)
    BY <1>4, <1>10
  <2> HIDE DEF total
  <2>2. bill \in Int /\ -Cent <= 2 * (total - bill * Cent) /\ 2 * (total - bill * Cent) <= Cent
    BY <1>6, <2>1, RoundedNear
  <2>3. m * Cent \in Int /\ O * v \in Int /\ bill * Cent \in Int
    BY <1>5, <1>8, <1>9, <2>2 DEF Cent
  <2>4. total - bill * Cent = m * Cent + (O * v - bill * Cent)
    BY <2>3 DEF total
  <2> QED BY <2>2, <2>4
<1>12. LET drift == 20 * Cent * bill - d * (n + O) * q.clientPrice
           most == 40 * Cent + 20 * O + d * (n + O)
       IN  -most <= 2 * drift /\ 2 * drift <= most
  BY <1>1, <1>2, <1>5, <1>7, <1>8, <1>9, <1>11, PolicyTyped, DriftBound
<1> QED BY <1>5, <1>12 DEF d, O

(* For every policy of rates, every cost and every volume, whatever way the *)
(* four roundings go: packages and metered quote of an offer stay in the    *)
(* relationship that packages.py:3-5 promises.                             *)
THEOREM PackagesFollowQuotes == Spec => PackagesAddUp
<1>1. [Next]_vars => [offer' # offer => PackagesFollow(offer'.quote)]_vars
  <2> SUFFICES ASSUME [Next]_vars, offer' # offer
               PROVE  PackagesFollow(offer'.quote)
    OBVIOUS
  <2>1. PICK p \in Projects : Offer(p)
    BY DEF Next, vars, Qualify, Advance, Sign, SessionStep, Start, Share, Pay,
       Authorized, Declined, Pending, Unanswered, Answered, Cancel, Decide
  <2>2. PICK q \in Quotes(p.upstreamCost) : offer' \in Offers(p, q)
    BY <2>1 DEF Offer
  <2>3. offer'.quote = q
    BY <2>2, OfferOf
  <2> QED BY <2>2, <2>3, ProjectTyped, QuotePackages
<1> QED BY <1>1, PTL DEF Spec, PackagesAddUp
===============================================================================
