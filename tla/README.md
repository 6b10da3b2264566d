# YMER compute fabric: TLA+ models and proofs

This directory holds the formal models of the code under `src/compute-fabric/`
(paths below are relative to it), the TLC configurations that check them on
small instances, and TLAPS proofs for every value of the constants. `*Proofs`
modules contain only invariants, lemmas and proofs; `MC*` modules only the
values of constants. `PROJECT.json` maps every definition to source lines and
lists runs, mutants (small bugs that each property must notice), hazards,
findings and theorems.

## 1. The system: inventory

The fabric is a Python library. It starts no server and, except for thread
pools in two adapters, no thread; whoever calls it (the *driver*, *clerks*, the
*operator*) is not in the repository. Hard behaviour therefore comes from calls
that overlap, from state that changes between two calls, and from calls that
end half-way.

| component | state | operations | promises worth checking | model |
|---|---|---|---|---|
| registry (`registry/registry.py`, `providers/base.py`) | provider ids, capability entries; `enabled` on each adapter | `register`, `lookup`, the switch | ids are unique; nobody serves outside its lane | Registry |
| router (`scheduler/router.py`) | none | `select` | one answer to each question; cheapest candidate | Router |
| scheduler (`scheduler/scheduler.py`) | heap of entries, sequence counter | `submit`, `dispatch`, `drain`, `next_job`, `has_work_above` | each submission dispatched once; lane order and FIFO; no stall; idle yields | Scheduler |
| executing adapters (`providers/local*.py`, `rtm_idle.py`, `llama_cpp.py`, `remote_node.py`, `huggingface.py`, `gpu_lease.py`) | tables of handles, thread pools | `submit`, `status`, `shutdown` | checks come before effects; no job is worked on twice; a handle leads to its job; shutdown loses nothing | Adapters |
| MRR adapter (`providers/mrr.py`) | two gates, results | `submit`, `_call` | no request before both gates were seen open; the upstream's ceiling | Mrr |
| limiter (`providers/rate_limit.py`) | deque of call times under a lock | `acquire` | exactly a sliding window | RateLimiter, Window |
| treasury controls (`treasury/controls.py`) | none | `check` | floor, ceilings, approval | Controls |
| settlement (`treasury/settlement.py`) | one file per state change | `record`, `settle`, `history`, `outstanding` | books tell the truth; nothing is paid twice; limits hold | Settlement |
| atomic write (`evidence/_atomic.py`) | the file system | `atomic_write_bytes/json` | all or nothing, and durable on return | AtomicWrite, Store |
| evidence, cost and meter ledgers (`evidence/evidence.py`, `costing/ledger.py`, `meter/meter.py`) | one file per record | append, read latest | one entry per call; latest means newest | Ledgers |
| rewards and free points (`treasury/rewards.py`, `treasury/free_points.py`) | one file per movement | accrue; earn, spend, expire; balance | the overdraft is bounded; no lost or doubled movement | Ledgers |
| quoting (`quoting/`) | none (frozen values) | price a request | shares add up to the price | Quoting |
| estimator, front desk (`kam/`, `markoff/`) | none | size, price the options, classify, next step | the price lies in its band; the option recommended is the one priced; what cannot be sized goes to a person | FrontDesk |
| pipeline, checkout (`sales/`) | leads and frozen orders | stages; start, pay, cancel | no way around that person for a lead that `qualify()` routed; paid means charged, once | Sales |
| contracts (`contracts/`) | none (frozen values) | lease terms, `is_active`; package list, bills | of leases that follow on from each other one is active at a time; packages keep their relation to the metered price | Contracts, Sales |
| schema (`schema/`) | frozen values | validation, `fits_within` | | ComputeUnit; what routing reads is in Registry, Router, Scheduler |

How they interact: `Scheduler.dispatch()` asks `Router.select()`, which asks
`CapabilityRegistry.lookup()` and then each candidate's `cost_estimate()`. The
driver gets a job and a provider and calls `Provider.submit()` itself. A clerk
calls `SettlementLedger.settle()` with treasury figures it read earlier;
`settle()` calls `TreasuryControls.check()`, the rail, and `atomic_write_json`.
All ledgers go through the atomic write. The front desk asks the estimator,
which asks the quote generator; the pipeline reads the next step of the offer;
checkout knows none of them, its caller passes the amount. Packages are priced
with the policy of the quotes. A lease is signed by itself: its constructor
looks at no lead and at no other lease.

What is hard here (each at its line under "hazards" in `PROJECT.json`):

- registrations and switches between two calls of the scheduler, jobs that are
  skipped, exceptions out of the middle of `drain()`;
- between `dispatch()` and `submit()` nobody queues the job: whatever raises
  there ends it, possibly after the work began;
- threads that were let through by the limiter and are slow to send;
- callers of the points ledger that check a balance others are spending, on a
  directory that changes while it is listed;
- amounts that are rounded apart, to different digits, and compared later;
- leases that take over from each other, with times in several zones;
- a payment processor that answers late or not at all, and orders of which
  several copies are about;
- clerks that work on stale balances, objects that are used twice, rails and
  disks that fail after the fact, a clock that is set back;
- power loss between any two system calls of the atomic write.

## 2. Modules

### Registry, Router, Scheduler

`Registry` has the ids, the entries and the set of enabled providers;
`Register` refuses a known id and an advertisement outside the lane *before* it
writes, so a refusal is a stuttering step. Adapters are constants that may
claim anything. `Router` extends it with `Candidates`, the price comparison and
`Cheapest`; a provider that raises in `cost_estimate()` is in `Unpriceable` and
makes the whole selection raise, as in the code. `Scheduler` has one action per
way a call can end: `Submit`; `Dispatch`, `DispatchNothing`, `DispatchRaises`;
and `drain()` step by step (`StartDrain`, `DrainDispatch`, `DrainReturns`,
`DrainRaises`), because its local list is lost when a later dispatch raises.
`Operate` is the operator between two calls. The history `dispatched` records
the value of the counter at each removal, so that "was waiting already" can be
said of whole runs.

### Adapters

One model for seven classes, with the class of each object in `Kind` and an
operator for what `submit()` of each class checks: `AdmitsStub` (`local.py`),
`AdmitsWorkload`, `AdmitsIdle`, `AdmitsPrompt`, `AdmitsGated` (`remote_node.py`
and `gpu_lease.py`), `AdmitsHosted` (which does not look at the size). `Choose`
is what a driver gets out of `dispatch()`; `Refuse`, `Keep`, `Enqueue` and
`Check` are the ways its `submit()` goes on; `Leave` is the subprocess or the
request that goes out some time after `Check`, without another look at the
gate, and `ComeBack` and `CallFails` end it. `Gated` are the classes that ship
disabled and look at their gate themselves. `WorkBegins` and `WorkEnds` are the
pool's threads, `Shutdown` and `ShutdownReturns` the two ends of `shutdown()`.
The registry keeps changing in between, from the providers in `Founding` on.
`fate`, `started` and `grace` (the calls that were past the gate when it was
shut) are histories. `Status` is what `status()` of each class makes of a
handle, its own or another provider's; `HandleFindsItsProvider` asks it of
whatever provider is registered under the id in the handle. Only the order of
effects is modelled of subprocess and HTTP calls.

### RateLimiter, Window, Mrr

`Window` is the abstract ceiling: a call is granted exactly when the grant
`MaxCalls` places back is at least `PerSeconds` old. `RateLimiter` is the deque
as the code keeps it (trimmed at each call, counted, appended, all under the
lock, hence one action), with the list of all grants as a history. `Mrr` puts
threads on it: the two gates are read one after the other (`Confirm`,
`Reject`), the slot is taken (`TakeSlot`, `Throttled`), the request leaves at
some later time or never (`Send`, `NothingSent`), and is answered or fails.

### Controls, Settlement

`Permits` is `check()`. `settle()` is three steps: `Check` on the object and
the figures the clerk holds; `Pay`, `PayFails`, `PayUnacknowledged` for the
rail; `Finish`, `WriteFails` for the record. Clerks crash at any step
(`Crash`), reload objects from history (`Load`), and the treasury is topped up,
pays, sees midnight and has a clock that may be set back. `KeepsHandle` says
whether a clerk may go on using the frozen object it passed in.

### AtomicWrite, Store

One action per line of `atomic_write_bytes`, several calls in one directory, a
file system with a cached and a durable side for contents, for directory
entries and for the directory's own entry in its parent. Exceptions at every
line, failing clean-up, kills, write-back at will, and power losses that keep
any part of what was not flushed. `Store` is what the ledgers rely on: a call
takes effect in one step and returns only when safe. `ImplementsStore` is the
refinement.

### Ledgers

The five append-only ledgers are one model, as they are one piece of code five
times over: an entry is a file named by the clock and a random id. `Begin`,
`Approve` (for `spend()` and `expire()`: the listing has ended and the balance
suffices), `Stamp` (the clock is read), `Place` (the atomic write takes effect,
one step by `ImplementsStore`), `Return`; `Record` and `Withdraw` are the
operations that begin so, unchecked or checked. `Raise` is an exception or the
death of the process at any of them, `InsufficientPoints` included. A listing
that overlaps writes shows any part of them (`Shown`). `after` is a history:
the calls that had returned when an entry's call began; `epoch` counts how
often the clock had been set back when it was read. For rewards an account is a
beneficiary with a currency.

### ComputeUnit, Quoting, Contracts, FrontDesk, Sales

`Quoting` counts money in units of the last digit a quote keeps and rates in
units of one over `RateGrain`, so that any finite set of rates has a grain, and
`Rounded` is the set of results `round()` may have: both neighbours on a tie,
since a tie is not exact in binary. `Contracts` has the checks of a lease
(`Signable`), `IsActive` on timestamps with a zone, the package list and its
bills; `Plan` keeps the numbers of the code, with discounts in twentieths.
`FrontDesk` is the estimator with its band and options (`Estimates`), the
recommendation, the classification and the next step as operators; `Offers` is
the set of offers a quote may lead to. `Sales` has the variables: `Offer`,
`Qualify` (two moves in one call), `Advance` (by hand, to whatever the table of
moves allows), the leases (`Sign`, which refuses what the constructor of a
lease refuses and looks at nothing else), and the order: `Start`, `Share` (the
frozen object in a second request), `Pay` up to the processor and its outcomes
`Authorized`, `Declined`, `Pending`, `Unanswered`, the late decision `Decide`,
and `Cancel`. One lineage of one lead is followed; `routed` is the history that
`qualify()` took it out of its first stage.

## 3. What the runs check

| run | instance | what it shows |
|---|---|---|
| `scheduler_dispatch` | 5 providers (one with a duplicate id, one rogue, one disabled and unable to price what it advertises), 4 jobs over all lanes, 3 submissions, drains of up to 2 | `ExactlyOnce`, `NoOvertaking`, `LaneBarrier`, `RoutingDeterministic`; as action properties `IdleYieldsToRoutable` and `LostOnlyInRaisedDrain`; as liveness `ServableServed`: if submissions end and the jobs left can be priced, a job that stays routable is dispatched |
| `scheduler_stall` | the same with 2 submissions | *violated*: `NeverStalled`; a raising head entry blocks everything behind it |
| `scheduler_idle` | 2 submissions | *violated*: `IdleOnlyWhenAlone`, the idle rule as documented |
| `adapters_calls` | 2 drivers, 4 jobs, 7 objects, one of each class, one pair with one id, one gate switched | `HandleFindsItsProvider`, `WorkAccounted`, `ShutdownDrains`; as an action property `ShutGateHolds`, what may still go out through a gate after it was shut |
| `mrr_ceiling` | 2 threads, ceiling of 2 in 2 ticks, 5 readings of the clock | `ImplementsWindow` for the limiter; `UpstreamBound`, `SlotsAccounted`, `GatesRead` for the adapter |
| `settlement_safety` | 2 clerks, 2 obligations around the approval threshold, 1 fault, 2 objects per obligation | `BooksTruthful`, `PaidIsBooked`, `OutstandingAccurate`, `PaymentsAccounted`, `FloorBound`, `DailyBound` |
| `settlement_clock` | 2 clerks, 1 obligation, 1 fault, a clock that goes back | as an action property `OutForGood`: what dropped out of `outstanding()` never comes back |
| `settlement_twice` | 1 clerk, no fault | *violated*: `NotSettledTwice`; the same frozen object is settled again |
| `store_promise` | 2 calls, directory old or new | `ReadersSeeWhole`, `NoTempLeft`, `ImplementsStore` |
| `store_newdir` | 2 calls | *violated*: `AcknowledgedSurvives`; an acknowledged write is lost with the directory it created |
| `ledgers_books` | 2 callers, 1 account, 4 calls, 2 readings of the clock, set back once | `OverdraftBound`, `EntriesAccounted`, `LatestIsNewest` |
| `sales_orders` | 11 projects, default rates, 7 volumes, 2 leases on 9 sets of terms (6 of them refused), 2 sessions, 2 copies of the order, 1 doubtful answer | `OfferAddsUp`, `RoutedSizedOrHuman`, `ChargesAccounted`, `LeaseHandover`; `PackagesAddUp` of each offer made |

The type invariant of a module is checked in the main run of the module.

### Bounds and why they are enough

- Scheduler: overtaking needs two entries, and a third makes a skipped one and
  a served one around it; every relation that matters (same lane, other lane,
  smaller, larger, other capability, same id, same price, out of lane) is
  present among the jobs and providers. `MaxSubmits` and `MaxLimit` are the
  only bounds; the stall takes 2 submissions: the one that waits and the one in
  front of it.
- Adapters: two drivers race for one pool; each pool has one worker, so a queue
  forms; a job is chosen once (that is `ExactlyOnce` of the scheduler), which
  makes the state space finite without further bound. Three providers are
  registered from the start, so that the four whose order of registration
  matters (the pools, the gated one and the one with its id) are the ones that
  come later. One of the four jobs asks for a GPU, so that `submit()` of
  `gpu_lease` is reached as well.
- Mrr: two callers and a ceiling of two let a slow request meet two later ones;
  `MaxNow` is two whole windows. The bound in `UpstreamBound` is tight in this
  instance: with one less it is violated.
- Settlement: two clerks are the least with stale figures, and the theorems
  cover any number. The limits admit one large payout, so a second one is
  exactly the overdraft. `MaxGrants` and `MaxFaults` bound histories. The
  set-back of the clock has a run of its own, with one obligation:
  `outstanding()` reads the files of one obligation at a time. Three readings
  are before, at and after the stamp of a record, and three objects handed out
  let a clerk pay again on one loaded after the set-back.
- AtomicWrite: calls meet only in the directory's flush; two show it. No bound.
  `CHECK_DEADLOCK FALSE` there because the calls come to an end.
- Ledgers: accounts share nothing, so one is enough. Four calls are earn,
  spend, earn and a spend whose listing misses the first spend: it sees a
  balance the account never had. The overdraft bound is reached with three.
  Calls move one point; larger balances come from several calls. One set-back
  gives entries of two epochs with stamps in any order.
- Sales: the projects give every next step and every reason to talk to a person
  (not served, too big, in no class, in no class for its storage only), a price
  of zero, a negative estimate, every recommendation, a single job at a time
  and several, and ties in every rounding. Thresholds are scaled down with the
  costs, the plan of the packages is not. The volumes lie below, at and above
  what each tier includes. One copy and no doubt, one copy and one doubt, and
  two copies are the three cases `ChargesAccounted` tells apart. Leases share
  no variable with offers, leads and orders. Their terms are three periods that
  follow on from each other with another zone on either side of each handover,
  and one set of terms for each refusal; a third lease meets the second as the
  second meets the first. `Instants` go a tick beyond the terms on each side.
  Ledger calls, leads, leases and orders come to an end, hence `CHECK_DEADLOCK
  FALSE` in the runs of Ledgers and Sales.

### Fairness

- `Scheduler!LiveSpec`: strong fairness of `DispatchStep` (a driver comes back
  to `dispatch()`, although its own drains keep it from doing so for a while)
  and weak fairness of `DrainStep` (a call that has begun goes on). Without a
  driver that calls, nothing is dispatched, so this is the least that can be
  asked. Nothing is assumed of the operator. `ServableServed` names what it
  assumes of the driver in the formula itself: submissions end
  (`SubmissionsEnd`), and from some time on what is queued can be priced
  (`PricingSettles`). It has to: lanes do not age, and higher lanes that are
  fed for ever keep a lower one waiting for ever. `MaxSubmits` makes the first
  hypothesis true in every behaviour of the run. Without the second the
  property is the one that `scheduler_stall` refutes.

All other properties are safety and need none.

## 4. What is proved

All theorems are about the specification of the module with arbitrary
constants, under the named ASSUMEs of the modules (which TLC evaluates in each
run). Every invariant that a passing run checks is a theorem, and so is every
action property and both refinements; the invariants below were checked with
TLC on the instance of the run before they were proved.

- `SchedulerProofs`. `RegistrySound` (an entry is what its provider advertises,
  inside its lane, and registered providers have different ids) gives
  `LaneBarrier` and `RoutingDeterministic`. `NoOvertaking` is inductive with
  it: the entry dispatched is the first routable one, so everything ahead of it
  is unroutable, and `LookupMonotone` says that an unroutable job makes each
  job of the same capability and at least its size unroutable too.
  `ExactlyOnce` is inductive. Of the action properties, `IdleYieldsToRoutable`
  follows from the choice of the first routable entry, and
  `LostOnlyInRaisedDrain` (whatever was dispatched is with the driver or in the
  list of `drain()`, unless a later dispatch of that drain raised) needs
  `NothingCollected`: between two drains the list of `drain()` is empty, or
  beginning the next one would lose it.
- `SettlementProofs`. `FloorBound` and `DailyBound` for any number of clerks.
  The invariant (`Headroom`) is about the clerks that have read figures with
  room in them and have not paid yet: the figures of one of them are at most
  one `MaxPayout` per clerk outside that set away from the truth, because a
  payout takes its clerk out of the set and it comes back with fresh figures
  only. `DailyBound` assumes that the clerks pass `paid_today` (its default is
  0.0); `OutstandingAccurate` assumes that the clock is not set back,
  `NeverForgotten` and `OutForGood` (a new file never makes a settled one less
  than the last by name of what was there) do not; `PaymentsAccounted` assumes
  that objects are not used again once settled. `BooksTruthful` and
  `PaidIsBooked` need no assumption.
- `AtomicWriteProofs`. `IInv` says for each line what is cached and what is
  durable; from it `ReadersSeeWhole`, the action property `NoTempLeft`, and the
  refinement: each step of the file system maps to a step of `Store` or to a
  stutter, write-back and flushes to `Harden`.
- `MrrProofs`. `LimiterInv`: the deque is the end of the list of all grants,
  the list is in order, and whatever was trimmed has expired. Hence
  `CeilingKept`, and the deque answers as `Window` does (`ImplementsWindow`).
  `UpstreamBound` rests on `UpstreamInv`: for request `i` there is a count of
  slots, at most `i - 1 + threads` besides those spent on nothing, such that
  every later slot was given after the request left. Request `i + MaxCalls +
  threads` therefore implies `MaxCalls + 1` slots given after it left, and
  those span `PerSeconds`. `SlotsAccounted` and `GatesRead` are proved as well.
- `AdaptersProofs`, for any objects of the seven classes, any drivers and any
  order of registrations, switches and shutdowns. `AdaptersInv` puts together
  what each property needs of the others: registered ids are unique, so that
  the id in a handle finds the object that made it and no other; a driver in a
  call holds a job that no handle and no other driver has (`CallsSound`,
  `HeldSomewhere`); a handle has a status its class can give (`HandlesSound`);
  a job's work was begun once if its call is out or its handle is past the
  queue, and else not at all (`WorkSound`). `ShutdownDrains` is inductive with
  `shut`: a pool that was told to stop takes nothing more. `ShutGateHolds`
  rests on `GraceSound`: a call past the checks of a gated object that is
  switched off is one of those in `grace`.
- `LedgersProofs`, for any callers, accounts, points and set-backs.
  `EntriesAccounted` needs that calls under way carry different numbers, none
  of which has returned (`CallsNumbered`). `LatestIsNewest` rests on
  `StampsOrdered`, which is also about stamps read and not yet on disk: none of
  them is earlier than what had returned when its call began, in the same epoch
  of the clock; `NoneAhead` gives that when the clock is read. `OverdraftBound`
  rests on `OverdraftInv`. A listing that overlaps writes may show a balance
  the account never had: it may miss what was spent since it began and see what
  was earned since (`Hope` is the most it may come to), so that no argument
  about the figure a caller reads is inductive by itself. The invariant names a
  number `k`: every call that may still take its points began as one of the
  first `k` (`Risky`), the account could pay all of those within the slack of
  one call's points for each caller but one, and a call that came after `k`
  could be let through at a loss only within that slack, if it were the only
  one besides those before it. A call that is let through from behind `k`
  becomes the new `k`. That `k` lets the proof say which of the calls under way
  may still hurt without knowing what they saw.
- `TotalsProofs`: balances are sums over sets of files (`MapThenSumSet`), which
  the library defines by recursion. Facts about sums over any finite set are
  proved by the least counterexample: were a fact wrong for some subset of a
  finite set, it would be wrong for one that has no proper subset for which it
  is (`LeastSubset`, from the library's theorem that a well-founded relation
  has minimal elements, which takes no operator as a parameter). The largest
  element of a finite set is found the same way.
- `SalesProofs`, for every policy of rates over a common grain, any thresholds,
  grain of cost, catalogue, project, set of terms and number of sessions. The
  invariant `SalesInv` has four parts that share nothing but the offer.
  `OfferMade`: an offer is what `offer()` makes of a project and of one of its
  quotes; `OfferAddsUp` is then arithmetic (`SixRoundings`), `LowBelowExpected`
  and `ExpectedBelowHigh` for the band, whose lower end needs
  `QuietMonthFactor` to be at most one: nothing in the code checks it, so it is
  a hypothesis of the property and not of the theorem. `PackagesAddUp`
  multiplies everything by the grain, adds up the four errors, each scaled by
  what it is multiplied with in the bill, and cancels the grain (`DriftBound`).
  `LeadSound`: who is in the first stage has been nowhere else, hence
  `qualify()`, which starts there, leaves nothing behind it; a lead it routed
  is past the first two stages, and came past the self-service desk only if
  this offer sent it there, whatever moves are made by hand after that.
  `RoutedSizedOrHuman` follows from how the next step was chosen.
  `LeasesSound`: each lease is in order by itself. What `LeaseHandover` says of
  several holds for those that follow on from each other (`FollowOn`, its
  hypothesis): none is empty, hence all earlier ones end before a later one
  begins (`ChainOrdered`, by the first lease for which that is wrong); the
  lease that is active is the last that has begun. `OrdersSound`: what was
  charged, what the processor has yet to decide and the objects that still
  await payment are together no more than copies, answers PENDING and answers
  lost; a session inside `charge()` holds an object that awaits payment.

What stays with TLC: `ServableServed`, because the prover does no liveness
under fairness and no ENABLED; and the four runs that find a violation. The
library's induction theorems take an operator as a parameter, which the provers
cannot instantiate; hence the least counterexample above, `Window` stated by
position in a sequence and not by a recursive count, and no RECURSIVE operator
in any module.

## 5. Findings

1. `scheduler_idle`: idle jobs are dispatched while higher lanes wait, if those
   have no provider; the header of `scheduler.py` and the README exclude it.
   What the code keeps is `IdleYieldsToRoutable`.
2. `scheduler_stall`: a `cost_estimate()` that raises leaves the entry at the
   head of the queue, and every later `dispatch()` raises on it.
3. `settlement_twice`: the state guard reads the object passed in and not the
   books, so the object `record()` returned can be settled twice.
4. `store_newdir`: a directory created by `mkdir` is not flushed into its
   parent; an acknowledged record can vanish with it.

Noted while modelling, with no run of their own: the header of `mrr.py` says
the ceiling is enforced in the adapter, and at the upstream it can be exceeded
by one request per thread (`UpstreamBound` is what holds); the two gates need
not have been open together; `rtm-idle` is free by default, so paid CPU jobs
are routed to it, refused, and are in no queue any more; a limiter lives in
memory and starts afresh after a restart; the nonce of `mrr.py` repeats within
a millisecond. Points can be overdrawn by concurrent callers (`OverdraftBound`
is what holds; `test_points_cannot_be_overspent`, tests/test_treasury.py:94,
says it of one caller), and a caller that tries again after an exception may
book a movement twice; `get_usage()` within one microsecond is decided by a
random id. A clock that is set back between two records makes `get_cost()` and
`get_usage()` return the older one, for good if nothing more is recorded,
although the README has "`get_*` returns the latest" (lines 43-44;
`meter.py:46` and `ledger.py:45` say the same); `LatestIsNewest` is what holds.
Set back between `record()` and `settle()`, it leaves a paid obligation in
`outstanding()`; `NeverForgotten` and `OutForGood` are what holds. A pending or
unanswered charge leaves an order that can be paid again; an order with a
charge on its way can be cancelled; `start()` refuses the amount of an offer
that costs nothing although such an offer is a trial; and nothing makes
`Checkout` refuse an order for an offer that says to talk to a person.
`ALLOWED` and `Lead.advance()` let a lead go by hand from `LEAD` over
`QUALIFYING` and `SELF_SERVICE` to a lease (`pipeline.py:36-38,57-60`), with
any offer or none, although lines 8-10 have what cannot be sized go to a human:
`SizedOrHuman` holds only of leads that `qualify()` routed, which is what
`RoutedSizedOrHuman` says. `status()` of `huggingface` and `gpu_lease` says
"complete" as soon as the request was answered, and does not look at the
provider id of a handle. Nobody calls `within_cap()`, although the header of
`lease.py` has the meter check the cap. The discount of a package comes off the
whole price and not off the base margin: with the default policy a unit of
SCALE sells at 1.1025 of its upstream cost, and the upstream with the four
other shares of a quote wants 1.22. An overage of a few cheap units is rounded
to nothing. The estimate is priced with a job without payload
(`estimator.py:92`), so that an adapter that prices the payload
(`llama_cpp.py:90`) may quote another price for the job itself, although
`estimator.py:5-7` has the two never drift apart. `SizingThresholds` checks
nothing: with a `quiet_month_factor` above one the low end of a band lies above
what is expected. A job of a low lane waits for ever while higher lanes are fed
for ever (`ServableServed` needs `SubmissionsEnd`), and nothing in the README
or the header promises otherwise.

## 6. Not modelled, and why

- Text of requests, argv, signatures, JSON and file names (except for the order
  of file names, which `outstanding()` depends on): no property is about it.
- Constructors' checks of their arguments: they raise before an object exists;
  the ASSUMEs have what they guarantee and no more. Rates are non-negative
  numbers; `SizingThresholds` checks nothing, and nothing but being numbers is
  assumed of its fields.
- `output()`, `result()`, `next_job()`: they change nothing.
- Floating point beyond `round()`: amounts, thresholds and rates are multiples
  of a fixed grain, far from the limits of a double.
- The wording of notes and triggers of an estimate; offers' service and
  security classes, which are passed through; `within_cap()`,
  `may_convert_to()` and `requires_explicit_approval()` of a lease, which
  change nothing and which nobody calls.
- A restart of the process that holds a limiter: it is the initial state again,
  so the theorems about `Mrr` are about each life of it; at the upstream two
  lives may share a window, and nothing in the code prevents it.
- `accrue_supplier_share()` twice for one quote, or for a job that was never
  settled: nothing in the ledger looks, and nothing promises it.
- Two objects of `CapabilityRegistry` or `Scheduler` shared by threads: they
  hold no lock, and no code in the repository shares them.

## 7. Plan

Done, in this order: Registry, Router, Scheduler; Controls, Settlement; Store,
AtomicWrite and the refinement; Window, RateLimiter, Mrr and the refinement;
Adapters with each class's checks and the return of `shutdown()`; Ledgers;
Quoting, FrontDesk, Contracts, Sales; the proofs of each.

Next:

1. An abstract specification of the points ledger (an account that may go below
   zero by the slack, a movement in one step) that `Ledgers` implements with
   the invariants above.
2. The same for the scheduler: a board of numbers that wait, are served, or are
   lost, with `ExactlyOnce` and `LostOnlyInRaisedDrain` as its steps.
