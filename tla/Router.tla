-------------------------------- MODULE Router --------------------------------
(***************************************************************************)
(* Provider selection: scheduler/router.py over the registry.  A job is    *)
(* the frozen record of schema/job.py, reduced to what routing reads: its  *)
(* capability, its requirements and what each provider's cost_estimate()   *)
(* makes of it.  cost_estimate() belongs to the provider and may raise on  *)
(* a payload it cannot price (llama_cpp multiplies by payload max_tokens,  *)
(* whatever that is), so the jobs a provider cannot price are a constant.  *)
(***************************************************************************)
EXTENDS Registry

CONSTANTS
    Jobs,          \* Job objects that callers hand to the scheduler
    Capability,    \* [Jobs -> Capabilities]: job.capability
    Requirements,  \* [Jobs -> ComputeUnits]: job.requirements
    Cost,          \* [Providers -> [Jobs -> Int]]: cost_estimate(job)
    Unpriceable    \* pairs <<p, j>> on which p.cost_estimate(j) raises

ASSUME JobsAssumption ==
    /\ Capability \in [Jobs -> Capabilities]
    /\ Requirements \in [Jobs -> ComputeUnits]
    /\ Cost \in [Providers -> [Jobs -> Int]]
    /\ Unpriceable \subseteq Providers \X Jobs

Candidates(j) == Lookup(Capability[j], Requirements[j])

(* NoProviderAvailable is raised exactly when this fails. *)
Routable(j) == Candidates(j) # {}

(* select() prices every candidate before it picks one, so one candidate   *)
(* that cannot price the job makes the whole selection raise.              *)
PricingRaises(j) == \E p \in Candidates(j) : <<p, j>> \in Unpriceable

(* Defect: min() on the cost alone, so the order of registration decides. *)
NoDearerByCost(p, q, j) == Cost[p][j] <= Cost[q][j]

(* The key (cost, provider_id) that min() compares. *)
NoDearer(p, q, j) ==
    \/ Cost[p][j] < Cost[q][j]
    \/ Cost[p][j] = Cost[q][j] /\ ProviderId[p] <= ProviderId[q]

(* The candidates min() may return. *)
Cheapest(j) == {p \in Candidates(j) : \A q \in Candidates(j) : NoDearer(p, q, j)}
===============================================================================
