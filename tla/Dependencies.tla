----------------------------- MODULE Dependencies -----------------------------
(* The sides of the dependency manager: programs that look up what their       *)
(* configs name and fetch it, and the tool that updates a config and uploads   *)
(* what it will name.                                                          *)
(* A run is of one side, as the tool publishes its config for later fetches.   *)
EXTENDS CloudStorage, Sequences

CONSTANTS Platform, MaxJobs, MaxRuns,        \* see ConfigUpdate
          Retries, MaxConfigs, MaxLookups    \* see DependencyLookup

ASSUME ConfigAssumption == MaxJobs \in Nat /\ MaxRuns \in Nat
ASSUME LookupAssumption == {Retries, MaxConfigs, MaxLookups} \subseteq Nat

VARIABLES side, disk, data, pending, store, backup, step, item, force, runs, before, behind,
          hit, tangled,
          made, lookup, given, files, stays, op, plat, place, left, found, fetched, attempts,
          missing, skipped, told, lookups

lookVars == <<made, lookup, given, files, stays, op, plat, place, left, found, fetched, attempts,
              missing, skipped, told, lookups>>
updateVars == <<disk, data, pending, store, backup, step, item, force, runs, before,
                behind, hit, tangled>>

Update == INSTANCE ConfigUpdate WITH Object <- Hash
Lookup == INSTANCE DependencyLookup WITH at <- place, answer <- told

\* What stands for no content, or for no hash, is no hash.
ASSUME HashAssumption ==
  Hash \cap {None, Partial, Other, Update!Nothing, Update!Unnamed, Update!Absent,
             Update!Hashless} = {}

Start ==
  \/ /\ side = "fetch" /\ Init /\ Update!Init /\ Lookup!LookupInit
     /\ store = [h \in Hash |-> Update!Nothing]
     /\ disk = [f \in Platform |-> CHOOSE h \in Hash : TRUE]
     /\ files = {}
  \/ /\ side = "update" /\ Init /\ Update!Init /\ Lookup!LookupInit
     /\ kind = "dependency" /\ ~local /\ ~archive /\ file = None /\ ts = -1
     /\ remote = [h \in Hash |-> h] /\ files = {}
  \/ /\ side = "lookup" /\ Init /\ Update!Init /\ Lookup!LookupInit
     /\ kind = "dependency" /\ ~local /\ ~archive /\ file = None /\ ts = -1
     /\ remote = [h \in Hash |-> h]
     /\ store = [h \in Hash |-> Update!Nothing]
     /\ disk = [f \in Platform |-> CHOOSE h \in Hash : TRUE]

FetchSide  == side = "fetch" /\ Next /\ UNCHANGED <<side, updateVars, lookVars>>
UpdateSide == side = "update" /\ Update!Next /\ UNCHANGED <<side, vars, lookVars>>
LookupSide == side = "lookup" /\ Lookup!Next /\ UNCHANGED <<side, vars, updateVars>>

DependenciesSpec ==
  Start /\ [][FetchSide \/ UpdateSide \/ LookupSide]_<<vars, side, updateVars, lookVars>>
-------------------------------------------------------------------------------
\* What a fetch answers is so, see CloudStorage, and so is what a lookup answers, see
\* DependencyLookup.
FetchIsTrue == DownloadIsTrue /\ Lookup!LookupIsTrue

\* All or nothing of ExecuteUpdateJobs, see ConfigUpdate.
AllOrNothing == Update!AllOrNothing
===============================================================================
