------------------------------ MODULE MCAdapters ------------------------------
(***************************************************************************)
(* One adapter of each class for TLC.  "lease" is configured with the id   *)
(* that "hf" carries; "hf" ships disabled and the operator switches it.    *)
(* cpu jobs go to "rtm", which refuses paid work, else to "pool", else to  *)
(* "stub", else (the idle job is too big for it) to "node"; inference goes *)
(* to "hf", else to "llama", and gpu to "lease" where it got the id first. *)
(* Each pool has one worker.                                               *)
(***************************************************************************)
EXTENDS Adapters

MCDims == {"units"}
MCCapabilities == {"cpu", "inference", "gpu"}
MCKind ==
    [pool |-> "local_cpu", rtm |-> "rtm_idle", stub |-> "local", node |-> "remote_node",
     hf |-> "huggingface", llama |-> "llama_cpp", lease |-> "gpu_lease"]
MCProviders == DOMAIN MCKind
MCProviderId ==
    [pool |-> 1, rtm |-> 2, stub |-> 3, node |-> 4, hf |-> 5, llama |-> 6, lease |-> 5]
Serves(p) ==
    CASE p \in {"hf", "llama"} -> "inference" [] p = "lease" -> "gpu" [] OTHER -> "cpu"
MCLane == [p \in MCProviders |-> {Serves(p)}]
Units(n) == [d \in MCDims |-> n]
MCBuilt == [p \in MCProviders |-> Units(IF p = "stub" THEN 1 ELSE 2)]
MCAdvertised == [p \in MCProviders |-> [c \in {Serves(p)} |-> MCBuilt[p]]]
MCShipsEnabled == MCProviders \ {"hf"}
MCSwitched == {"hf"}
MCFounding == {"stub", "node", "llama"}
MCMaxWorkers == [p \in MCProviders |-> 1]

MCCapability == [paid |-> "cpu", idle |-> "cpu", chat |-> "inference", frame |-> "gpu"]
MCJobs == DOMAIN MCCapability
MCIdleJobs == {"idle"}
MCRequirements == [j \in MCJobs |-> Units(IF j = "idle" THEN 2 ELSE 1)]
MCAccepts == [p \in MCProviders |-> MCJobs]
MCCost == [p \in MCProviders |-> [j \in MCJobs |-> IF p = "rtm" THEN 0 ELSE 1]]
MCUnpriceable == {}
===============================================================================
