------------------------------- MODULE FrontDesk -------------------------------
(***************************************************************************)
(* From a project to the next step the client is shown: kam/estimator.py,  *)
(* markoff/product.py and markoff/front_desk.py over the quote arithmetic. *)
(* Monthly amounts are rounded to hundredths.                              *)
(*                                                                         *)
(* A project is [capability, perJob, jobsPerMonth, peakConcurrency,        *)
(* storageGb, upstreamCost], the last being what the provider's            *)
(* cost_estimate() makes of one of its jobs.  Of several classes that fit, *)
(* classify() takes the smallest, which the next step does not depend on.  *)
(***************************************************************************)
EXTENDS ComputeUnit, Contracts

CONSTANTS
    Projects,              \* what visitors ask for
    Capacity,              \* capabilities() of the provider asked
    Catalogue,             \* the product classes: [capability, ceiling]
    PocJobsPerMonth, LeasedJobsPerMonth,
    QuietMonthFactor,      \* over RateGrain, as the rates are
    DedicatedMonthlyCost,  \* in hundredths
    TrialCeiling, BuyFloor \* in hundredths

ASSUME FrontDeskAssumption ==
    /\ {PocJobsPerMonth, LeasedJobsPerMonth, QuietMonthFactor,
        DedicatedMonthlyCost, TrialCeiling, BuyFloor} \subseteq Int
    /\ \A p \in Projects :
          /\ p.perJob \in ComputeUnits
          /\ p.jobsPerMonth \in Nat
          /\ p.peakConcurrency \in Nat \ {0}
          /\ p.storageGb \in Nat
          /\ p.upstreamCost \in Int

AtMost(n, most) == IF n > most THEN most ELSE n

(* _scale(): storage is shared by the jobs that run at once, the rest not.  *)
Scale(p) ==
    [d \in Dims |-> IF d = "storage"
                    THEN AtLeast(p.perJob[d] * p.peakConcurrency, p.storageGb)
                    ELSE p.perJob[d] * p.peakConcurrency]

Unserviceable(p) ==
    \/ p.capability \notin DOMAIN Capacity
    \/ ~FitsWithin(Scale(p), Capacity[p.capability])

(* classify() finds one exactly when there is one. *)
Classified(p) ==
    \E class \in Catalogue :
        class.capability = p.capability /\ FitsWithin(Scale(p), class.ceiling)

(* Defect: what a dedicated machine costs is not looked at. *)
RecommendationByVolume(p, expected) ==
    CASE Unserviceable(p) -> "kam_review"
      [] OTHER -> IF p.jobsPerMonth <= PocJobsPerMonth THEN "poc" ELSE "leased"

(* _recommendation() on the exact expected spend. *)
Recommendation(p, expected) ==
    CASE Unserviceable(p) -> "kam_review"
      [] OTHER -> IF expected > DedicatedMonthlyCost * Cent THEN "dedicated"
                  ELSE IF p.jobsPerMonth <= PocJobsPerMonth THEN "poc"
                  ELSE IF p.jobsPerMonth <= LeasedJobsPerMonth THEN "leased"
                  ELSE "dedicated"

(* Defect: a project without a product class is priced all the same. *)
NextStepUnclassed(p, recommendation, monthly) ==
    IF Unserviceable(p) \/ recommendation = "kam_review" THEN "talk_to_kam"
    ELSE IF monthly >= BuyFloor THEN "buy"
    ELSE IF monthly <= TrialCeiling THEN "trial"
    ELSE "lease"

(* _next_step() on the rounded monthly price. *)
NextStep(p, recommendation, monthly) ==
    IF Unserviceable(p) \/ ~Classified(p) \/ recommendation = "kam_review"
    THEN "talk_to_kam"
    ELSE IF monthly >= BuyFloor THEN "buy"
    ELSE IF monthly <= TrialCeiling THEN "trial"
    ELSE "lease"

(* The amounts of estimate() in hundredths: the budget band, and the options *)
(* beside it, where the leased one is the expected month.  Equal amounts    *)
(* are rounded to the same side.                                           *)
Estimates(p, price) ==
    LET expected == price * p.jobsPerMonth
        proven == price * AtMost(p.jobsPerMonth, PocJobsPerMonth)
    IN {e \in [expected : Rounded(expected, Cent),
               low : Rounded(expected * QuietMonthFactor, RateGrain * Cent),
               high : Rounded(expected * p.peakConcurrency, Cent),
               poc : Rounded(proven, Cent),
               hybrid : Rounded(2 * expected + DedicatedMonthlyCost * Cent, 2 * Cent)] :
          /\ QuietMonthFactor = RateGrain => e.low = e.expected
          /\ p.peakConcurrency = 1 => e.high = e.expected
          /\ proven = expected => e.poc = e.expected}

(* offer(), for one of the quotes the estimator may have been given. *)
Offers(p, q) ==
    LET advice == Recommendation(p, q.clientPrice * p.jobsPerMonth) IN
    {[project |-> p, quote |-> q, estimate |-> e, recommendation |-> advice,
      nextStep |-> NextStep(p, advice, e.expected)] : e \in Estimates(p, q.clientPrice)}
===============================================================================
