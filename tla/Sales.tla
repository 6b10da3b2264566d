-------------------------------- MODULE Sales --------------------------------
(***************************************************************************)
(* A client's way through the front desk, the moves of sales/pipeline.py,  *)
(* the leases of contracts/lease.py and the orders of sales/checkout.py.   *)
(* Leads and orders are frozen objects: every operation returns a new one, *)
(* the old one stays what it was, and which of them a caller passes next   *)
(* is the caller's affair.  Checkout, leases and pipeline know nothing of  *)
(* each other; the amount of an order is the monthly price of the offer it *)
(* is made for.                                                            *)
(*                                                                         *)
(* The payment processor is outside: a charge may be authorized, declined, *)
(* left pending and decided later, or fail to be answered with the money   *)
(* taken or not.                                                           *)
(***************************************************************************)
EXTENDS FrontDesk

CONSTANTS
    Instants,      \* the moments at which is_active() may be asked
    MaxLeases,     \* bound: how many leases are signed
    Sessions,      \* callers of Checkout
    MaxCopies,     \* bound: a caller shares an order until it has this many
    MaxDoubts      \* bound: answers of the processor that are pending or lost

ASSUME SalesAssumption ==
    /\ IsFiniteSet(Sessions)
    /\ Instants \subseteq Int
    /\ {MaxLeases, MaxCopies, MaxDoubts} \subseteq Nat

VARIABLES
    offer,         \* the PublicOffer with the quote behind it
    lead,          \* Lead.history; its last element is Lead.stage
    routed,        \* history: qualify() took the lead out of its first stage
    leases,        \* the leases signed, in that order
    held,          \* held[s]: the state of the Order object session s holds
    charging,      \* the sessions inside processor.charge()
    open,          \* charges the processor has yet to decide
    charged,       \* history: how often the client was charged
    copies,        \* history: AWAITING_PAYMENT objects handed out
    pending,       \* history: answers PENDING
    lost           \* history: charges that were not answered

orderVars == <<held, charging, open, charged, copies, pending, lost>>
leadVars == <<lead, routed>>
vars == <<offer, leadVars, leases, orderVars>>

Stages == {"lead", "qualifying", "self_service", "kam", "rejected",
           "trial", "quoted", "lease", "project", "expansion"}

OrderStates == {"awaiting_payment", "paid", "failed", "cancelled"}

NoOffer == [nextStep |-> "none"]

TypeOK ==
    /\ offer = NoOffer \/
          /\ offer.project \in Projects
          /\ offer.quote \in Quotes(offer.project.upstreamCost)
          /\ offer.estimate \in Estimates(offer.project, offer.quote.clientPrice)
          /\ offer.nextStep \in {"talk_to_kam", "buy", "trial", "lease"}
    /\ Len(lead) > 0 /\ \A i \in DOMAIN lead : lead[i] \in Stages
    /\ routed \in BOOLEAN
    /\ leases \in Seq(Terms)
    /\ held \in [Sessions -> OrderStates \cup {"none"}]
    /\ charging \subseteq Sessions
    /\ {open, charged, copies, pending, lost} \subseteq Nat

Init ==
    /\ offer = NoOffer
    /\ lead = <<"lead">> /\ routed = FALSE
    /\ leases = <<>>
    /\ held = [s \in Sessions |-> "none"]
    /\ charging = {}
    /\ open = 0 /\ charged = 0
    /\ copies = 0 /\ pending = 0 /\ lost = 0

-------------------------------------------------------------------------------
(* MarkoffFrontDesk.offer(); a negative estimate raises. *)
Offer(p) ==
    /\ offer = NoOffer
    /\ p.upstreamCost >= 0
    /\ \E q \in Quotes(p.upstreamCost) : offer' \in Offers(p, q)
    /\ UNCHANGED <<leadVars, leases, orderVars>>

(* ALLOWED *)
Allowed(stage) ==
    CASE stage = "lead" -> {"qualifying", "rejected"}
      [] stage = "qualifying" -> {"self_service", "kam", "rejected"}
      [] stage = "self_service" -> {"trial", "lease", "rejected"}
      [] stage = "kam" -> {"quoted", "rejected"}
      [] stage \in {"quoted", "trial"} -> {"lease", "project", "rejected"}
      [] stage = "lease" -> {"project", "rejected"}
      [] stage = "project" -> {"expansion", "rejected"}
      [] OTHER -> {}

Stage == lead[Len(lead)]

Desk(step) ==
    IF step \in {"talk_to_kam", "buy"} THEN "kam" ELSE "self_service"

(* qualify(): two moves in one call. *)
Qualify ==
    /\ offer # NoOffer
    /\ "qualifying" \in Allowed(Stage)
    /\ Desk(offer.nextStep) \in Allowed("qualifying")
    /\ lead' = lead \o <<"qualifying", Desk(offer.nextStep)>>
    /\ routed' = TRUE
    /\ UNCHANGED <<offer, leases, orderVars>>

(* Lead.advance() by hand, which asks the table of moves and nothing else.  *)
Advance(stage) ==
    /\ stage \in Allowed(Stage)
    /\ lead' = Append(lead, stage)
    /\ UNCHANGED <<offer, routed, leases, orderVars>>

(* The instant the parties mean by a timestamp with a zone. *)
Meant(stamp) == stamp.clock - stamp.offset

(* LeaseContract(...), which refuses terms that are not in order and looks  *)
(* at no other lease.                                                      *)
Sign(terms) ==
    /\ Len(leases) < MaxLeases
    /\ Signable(terms)
    /\ leases' = Append(leases, terms)
    /\ UNCHANGED <<offer, leadVars, orderVars>>

-------------------------------------------------------------------------------
Idle(s) == s \notin charging
Awaiting(s) == held[s] = "awaiting_payment"

Hold(s, state) == held' = [held EXCEPT ![s] = state]

(* Defect: start() leaves the order in the state an Order has by default. *)
StartDraft(s) ==
    /\ copies = 0
    /\ offer # NoOffer /\ offer.estimate.expected > 0
    /\ Hold(s, "draft")
    /\ copies' = 1
    /\ UNCHANGED <<offer, leadVars, leases, charging, open, charged, pending, lost>>

(* start() raises on an offer that costs nothing. *)
Start(s) ==
    /\ copies = 0
    /\ offer # NoOffer /\ offer.estimate.expected > 0
    /\ Hold(s, "awaiting_payment")
    /\ copies' = 1
    /\ UNCHANGED <<offer, leadVars, leases, charging, open, charged, pending, lost>>

(* The same object in a second request: a double click, another tab. *)
Share(s, t) ==
    /\ Idle(s) /\ Awaiting(s)
    /\ Idle(t) /\ ~Awaiting(t)
    /\ copies < MaxCopies
    /\ Hold(t, "awaiting_payment")
    /\ copies' = copies + 1
    /\ UNCHANGED <<offer, leadVars, leases, charging, open, charged, pending, lost>>

(* Defect: pay() takes an order in any state. *)
PayAny(s) ==
    /\ Idle(s) /\ held[s] # "none"
    /\ charging' = charging \cup {s}
    /\ UNCHANGED <<offer, leadVars, leases, held, open, charged, copies, pending, lost>>

(* pay() up to the processor. *)
Pay(s) ==
    /\ Idle(s) /\ Awaiting(s)
    /\ charging' = charging \cup {s}
    /\ UNCHANGED <<offer, leadVars, leases, held, open, charged, copies, pending, lost>>

Answered(s) ==
    /\ s \in charging
    /\ charging' = charging \ {s}
    /\ UNCHANGED <<offer, leadVars, leases, copies>>

Authorized(s) ==
    /\ Answered(s)
    /\ Hold(s, "paid")
    /\ charged' = charged + 1
    /\ UNCHANGED <<open, pending, lost>>

Declined(s) ==
    /\ Answered(s)
    /\ Hold(s, "failed")
    /\ UNCHANGED <<open, charged, pending, lost>>

(* The order awaits payment as before, with a charge on its way. *)
Pending(s) ==
    /\ Answered(s)
    /\ pending + lost < MaxDoubts
    /\ open' = open + 1
    /\ pending' = pending + 1
    /\ UNCHANGED <<held, charged, lost>>

(* charge() raises, having taken the money or not. *)
Unanswered(s) ==
    /\ Answered(s)
    /\ pending + lost < MaxDoubts
    /\ charged' \in {charged, charged + 1}
    /\ lost' = lost + 1
    /\ UNCHANGED <<held, open, pending>>

(* The processor decides a pending charge; nothing tells the order. *)
Decide ==
    /\ open > 0
    /\ open' = open - 1
    /\ charged' \in {charged, charged + 1}
    /\ UNCHANGED <<offer, leadVars, leases, held, charging, copies, pending, lost>>

Cancel(s) ==
    /\ Idle(s) /\ held[s] \notin {"none", "paid"}
    /\ Hold(s, "cancelled")
    /\ UNCHANGED <<offer, leadVars, leases, charging, open, charged, copies, pending, lost>>

SessionStep(s) ==
    \/ Start(s) \/ (\E t \in Sessions : Share(s, t))
    \/ Pay(s) \/ Authorized(s) \/ Declined(s) \/ Pending(s) \/ Unanswered(s)
    \/ Cancel(s)

Next ==
    \/ \E p \in Projects : Offer(p)
    \/ Qualify \/ (\E stage \in Stages : Advance(stage))
    \/ (\E terms \in Terms : Sign(terms))
    \/ (\E s \in Sessions : SessionStep(s))
    \/ Decide

Spec == Init /\ [][Next]_vars

-------------------------------------------------------------------------------
(* The client pays what the parts of the quote come to.  The price and the  *)
(* five shares are rounded apart and never reconciled, so at most half a    *)
(* unit for each of the six is won or lost.  The expected price lies within *)
(* the band shown beside it, below only if a quiet month is no busier than  *)
(* another, and the option recommended is the one priced:                  *)
(* a proof of concept that covers every job, or a lease, is recommended     *)
(* only if it is no dearer than a dedicated machine (quoting/generator.py,  *)
(* kam/estimator.py).                                                      *)
OfferAddsUp ==
    offer # NoOffer =>
        /\ -3 * One <= Residue(offer.quote) /\ Residue(offer.quote) <= 3 * One
        /\ QuietMonthFactor <= RateGrain =>
              offer.estimate.low <= offer.estimate.expected
        /\ offer.estimate.expected <= offer.estimate.high
        /\ offer.recommendation = "poc" => offer.estimate.poc = offer.estimate.expected
        /\ offer.recommendation \in {"poc", "leased"} =>
              offer.estimate.expected <= DedicatedMonthlyCost

(* "A package price and an equivalent metered quote stay in the same         *)
(* relationship" (packages.py:3-5): whatever a month's use, packages made of *)
(* the upstream cost of the offer's quote bill its discount on the metered   *)
(* price, for at least the units included; what the separate roundings of    *)
(* monthly price, overage price, bill and quote lose is at most half of      *)
(* their last digit each.  So a larger tier is no dearer, but for these,     *)
(* once its units are used.                                                *)
PackagesFollow(quote) ==
    \A tier \in DOMAIN Plan, used \in Volumes :
        \A package \in Packages(tier, quote.upstreamCost) :
            \A bill \in PriceFor(package, used) :
                LET billed == AtLeast(used, package.includedUnits)
                    discount == Plan[tier].discount
                    drift == 20 * Cent * bill - discount * billed * quote.clientPrice
                    most == 40 * Cent + 20 * Overage(package, used) + discount * billed
                IN -most <= 2 * drift /\ 2 * drift <= most

PackagesAddUp == [][offer' # offer => PackagesFollow(offer'.quote)]_vars

(* Each lease is meant to start when the one before it ends. *)
FollowOn ==
    \A i \in DOMAIN leases : i + 1 \in DOMAIN leases =>
        Meant(leases[i + 1].startsAt) = Meant(leases[i].endsAt)

(* Of leases that the parties let follow on from each other exactly one is  *)
(* active at any moment from the start of the first to the end of the last, *)
(* whatever zones the timestamps are written in: none is counted twice      *)
(* where one takes over, and there is no gap (LeaseContract.is_active()).   *)
LeaseHandover ==
    leases # <<>> /\ FollowOn =>
        \A at \in Instants :
            Cardinality({i \in DOMAIN leases : IsActive(leases[i], at)}) =
                IF /\ Meant(leases[1].startsAt) <= at
                   /\ at < Meant(leases[Len(leases)].endsAt)
                THEN 1 ELSE 0

Reached == {lead[i] : i \in DOMAIN lead}

(* "Anything the fabric cannot size confidently goes to a human"            *)
(* (sales/pipeline.py:8-10): a lead that came to a trial, a lease or a      *)
(* project has been with a person, or its project fits the provider asked   *)
(* and a product class and its price is below the self-service ceiling.     *)
SizedOrHuman ==
    Reached \cap {"trial", "lease", "project", "expansion"} # {} =>
        \/ "kam" \in Reached
        \/ /\ offer # NoOffer
           /\ ~Unserviceable(offer.project) /\ Classified(offer.project)
           /\ offer.estimate.expected < BuyFloor

(* That holds of every lead that qualify() took out of its first stage,     *)
(* whatever moves are made by hand after that (_next_step(), qualify() and  *)
(* the table of moves together).                                           *)
RoutedSizedOrHuman == routed => SizedOrHuman

(* The client is charged once for an order.  Twice needs a second request   *)
(* with the same object, an answer PENDING or a charge without an answer,   *)
(* and one charge more for each; without any of these an order is paid      *)
(* exactly if it was charged, so that no cancelled or failed order was      *)
(* (pay() and cancel() look at the object they are given and nothing else). *)
ChargesAccounted ==
    /\ charged + open + Cardinality(charging) <= copies + pending + lost
    /\ copies + pending + lost <= 1 =>
          charged = Cardinality({s \in Sessions : held[s] = "paid"})
===============================================================================
