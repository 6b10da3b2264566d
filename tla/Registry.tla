------------------------------- MODULE Registry -------------------------------
(***************************************************************************)
(* The capability registry: registry/registry.py with the parts of         *)
(* providers/base.py and schema/compute_unit.py that it reads.             *)
(*                                                                         *)
(* Provider objects are constructed and handed to register() by code that  *)
(* is not in the repository, so which objects exist, the identifier each   *)
(* carries and what each advertises are constants.  Two objects may carry  *)
(* the same provider_id: rejecting the second is the registry's job.       *)
(* A rejected registration raises before it writes, so it is a stuttering  *)
(* step and needs no action.                                               *)
(***************************************************************************)
EXTENDS ComputeUnit

CONSTANTS
    Capabilities,  \* the Capability tags: cpu, gpu, render, ...
    Providers,     \* provider objects, registered or not
    ProviderId,    \* [Providers -> Nat]: provider_id, numbered in string order
    Lane,          \* [Providers -> SUBSET Capabilities]: Provider.lane
    Advertised,    \* Advertised[p]: the dict capabilities() returns
    ShipsEnabled,  \* providers whose class sets enabled = True
    Switched       \* bound: the providers whose switch the operator touches

(* Adapters are free in what they claim, the lane included: a claim outside *)
(* the lane is what register() exists to refuse.                            *)
ASSUME ProvidersAssumption ==
    /\ ProviderId \in [Providers -> Nat]
    /\ Lane \in [Providers -> SUBSET Capabilities]
    /\ ShipsEnabled \subseteq Providers
    /\ Switched \subseteq Providers
    /\ \A p \in Providers :
          /\ DOMAIN Advertised[p] \subseteq Capabilities
          /\ \A c \in DOMAIN Advertised[p] : Advertised[p][c] \in ComputeUnits

VARIABLES
    providerIds,   \* CapabilityRegistry._provider_ids
    entries,       \* the CapabilityEntry objects of _by_capability
    enabled        \* the providers whose enabled attribute is True

registryVars == <<providerIds, entries, enabled>>

CapabilityEntry ==
    [provider : Providers, capability : Capabilities, capacity : ComputeUnits]

RegistryTypeOK ==
    /\ providerIds \subseteq Nat
    /\ entries \subseteq CapabilityEntry
    /\ enabled \subseteq Providers

RegistryInit ==
    /\ providerIds = {}
    /\ entries = {}
    /\ enabled = ShipsEnabled

EntriesOf(p) ==
    {[provider |-> p, capability |-> c, capacity |-> Advertised[p][c]] :
        c \in DOMAIN Advertised[p]}

(* A registry in which these providers, which fit it, have been registered. *)
RegistryWith(founding) ==
    /\ providerIds = {ProviderId[p] : p \in founding}
    /\ entries = UNION {EntriesOf(p) : p \in founding}
    /\ enabled = ShipsEnabled

(* Defect: the lane is not compared with what is advertised. *)
RegisterAnyLane(p) ==
    /\ ProviderId[p] \notin providerIds
    /\ providerIds' = providerIds \cup {ProviderId[p]}
    /\ entries' = entries \cup EntriesOf(p)
    /\ UNCHANGED enabled

(* Defect: the id is not looked up before the entries are written. *)
RegisterKnownId(p) ==
    /\ DOMAIN Advertised[p] \subseteq Lane[p]
    /\ providerIds' = providerIds \cup {ProviderId[p]}
    /\ entries' = entries \cup EntriesOf(p)
    /\ UNCHANGED enabled

(* register(): a second object under a known id, and a provider advertising *)
(* outside its lane, are refused before anything is written.               *)
Register(p) ==
    /\ ProviderId[p] \notin providerIds
    /\ DOMAIN Advertised[p] \subseteq Lane[p]
    /\ providerIds' = providerIds \cup {ProviderId[p]}
    /\ entries' = entries \cup EntriesOf(p)
    /\ UNCHANGED enabled

(* The operator turns an adapter on or off; enabled is a plain attribute,   *)
(* read at lookup and not at registration.                                 *)
SetEnabled(p) ==
    /\ p \in Switched
    /\ enabled' = IF p \in enabled THEN enabled \ {p} ELSE enabled \cup {p}
    /\ UNCHANGED <<providerIds, entries>>

(* lookup(): the enabled providers that serve the capability at this size. *)
Lookup(capability, requirements) ==
    {e.provider : e \in {f \in entries :
        /\ f.capability = capability
        /\ f.provider \in enabled
        /\ FitsWithin(requirements, f.capacity)}}
===============================================================================
