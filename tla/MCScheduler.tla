----------------------------- MODULE MCScheduler -----------------------------
(***************************************************************************)
(* A small fabric for TLC.  "small" and "big" serve cpu at one price, so   *)
(* the tie-break decides; "twin" carries the id of "big"; "lease" ships    *)
(* disabled; "rogue" advertises cpu outside its render lane.  The jobs     *)
(* cover three lanes, two sizes, and one that "lease" cannot price.        *)
(***************************************************************************)
EXTENDS Scheduler

MCDims == {"units"}
MCCapabilities == {"cpu", "render"}
MCProviders == {"small", "big", "twin", "lease", "rogue"}
MCProviderId ==
    [p \in MCProviders |->
        CASE p = "small" -> 1 [] p \in {"big", "twin"} -> 2
          [] p = "lease" -> 3 [] p = "rogue" -> 4]
MCLane ==
    [p \in MCProviders |->
        IF p \in {"lease", "rogue"} THEN {"render"} ELSE MCCapabilities]
Of(n) == [d \in MCDims |-> n]
MCAdvertised ==
    [p \in MCProviders |->
        CASE p = "small" -> [c \in {"cpu"} |-> Of(1)]
          [] p \in {"big", "twin"} -> [c \in {"cpu"} |-> Of(2)]
          [] p = "lease" -> [c \in {"render"} |-> Of(1)]
          [] p = "rogue" -> [c \in MCCapabilities |-> Of(2)]]
MCShipsEnabled == MCProviders \ {"lease"}
MCSwitched == {"small", "lease"}

MCJobs == {"base_render", "client_cpu", "poc_cpu", "idle_cpu"}
MCCapability ==
    [j \in MCJobs |-> IF j = "base_render" THEN "render" ELSE "cpu"]
MCRequirements ==
    [j \in MCJobs |-> Of(IF j = "client_cpu" THEN 2 ELSE 1)]
MCPriorityOf ==
    [j \in MCJobs |->
        CASE j = "base_render" -> 0 [] j = "client_cpu" -> 1
          [] j = "poc_cpu" -> 2 [] j = "idle_cpu" -> 3]
MCCost == [p \in MCProviders |-> [j \in MCJobs |-> IF p = "twin" THEN 0 ELSE 1]]

MCUnpriceable == {<<"lease", "base_render">>}
MCAllPriceable == {}
===============================================================================
