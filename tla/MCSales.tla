------------------------------- MODULE MCSales -------------------------------
(***************************************************************************)
(* Two sessions and one offer with the default rates, in hundredths, and   *)
(* leases in several zones.  Amounts are small: the thresholds are scaled  *)
(* down with the costs, so that every next step and every recommendation   *)
(* occurs, and ties of the roundings do.                                   *)
(***************************************************************************)
EXTENDS Sales, TLC

SessionSymmetry == Permutations(Sessions)

Size(gpu, storage) == [gpu |-> gpu, storage |-> storage]

MCDims == {"gpu", "storage"}
MCCapacity == [render |-> Size(4, 4)]
MCCatalogue == {[capability |-> "render", ceiling |-> Size(1, 2)],
                [capability |-> "render", ceiling |-> Size(3, 2)]}

Project(capability, gpu, storage, cost, jobs, peak) ==
    [capability |-> capability, perJob |-> Size(gpu, 1), storageGb |-> storage,
     upstreamCost |-> cost, jobsPerMonth |-> jobs, peakConcurrency |-> peak]

MCProjects == {
    Project("render", 1, 0, 14, 1000, 1),     \* a trial; a tie in a share
    Project("render", 1, 0, 34, 3500, 1),     \* a lease; ties in the amounts
    Project("render", 1, 2, 39, 3000, 2),     \* a lease; every share is uneven
    Project("render", 1, 0, 46, 10000, 1),    \* above the buy floor
    Project("render", 3, 0, 19, 1000, 2),     \* too big for the provider
    Project("render", 4, 0, 19, 3000, 1),     \* in no product class
    Project("render", 1, 3, 19, 3000, 1),     \* in no class for its storage
    Project("cpu", 1, 0, 19, 1000, 1),        \* not served
    Project("render", 1, 0, 1, 6000, 1),      \* cheap and busy
    Project("render", 1, 0, 0, 0, 1),         \* costs nothing
    Project("render", 1, 0, -1, 1000, 1)}     \* a negative estimate

Stamp(instant, offset) == [clock |-> instant + offset, offset |-> offset, zoned |-> TRUE]
Lease(starts, ends) ==
    [startsAt |-> starts, endsAt |-> ends, capacityUnits |-> 1, priceCap |-> 0,
     vendorLockRequired |-> FALSE, exportSupported |-> TRUE]

MCTerms ==
    {Lease(Stamp(0, 0), Stamp(2, 1)), Lease(Stamp(2, -1), Stamp(3, 0)),
     Lease(Stamp(3, 2), Stamp(4, -1)),
     Lease(Stamp(2, 0), Stamp(2, 1)),     \* ends as it starts
     Lease([Stamp(0, 0) EXCEPT !.zoned = FALSE], Stamp(2, 0)),
     [Lease(Stamp(0, 0), Stamp(2, 0)) EXCEPT !.priceCap = -1],
     [Lease(Stamp(0, 0), Stamp(2, 0)) EXCEPT !.capacityUnits = 0],
     [Lease(Stamp(0, 0), Stamp(2, 0)) EXCEPT !.vendorLockRequired = TRUE],
     [Lease(Stamp(0, 0), Stamp(2, 0)) EXCEPT !.exportSupported = FALSE]}
MCInstants == -1..5
MCVolumes == {0, 10, 11, 150, 1000, 10000, 12000}
===============================================================================
