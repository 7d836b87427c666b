---------------------------- MODULE CacheInTurn ----------------------------
(***************************************************************************)
(* The bundle cache as it is used: by processes that share the directory,  *)
(* or by processes that take turns. What the cache promises in turn.       *)
(***************************************************************************)
EXTENDS BundleCache

VARIABLE scope  \* how the processes of this behaviour use the directory

\* Calls overlap step by step, any of them may be abandoned, any file damaged.
Shared == scope = "shared" /\ Next /\ UNCHANGED scope

\* A process starts a call when no other is in one; calls may be abandoned.
InTurn == scope = "in turn" /\ TurnNext /\ UNCHANGED scope

ScopedInit == Init /\ scope \in {"shared", "in turn"}
ScopedNext == Shared \/ InTurn

ScopedSpec == ScopedInit /\ [][ScopedNext]_<<vars, scope>>

-----------------------------------------------------------------------------
\* cache.rs:43-47, while processes take turns: a manifest on disk names only JS
\* bundles that are on disk, whole, wherever a call of store or store_wasm was
\* cut short.
CommittedSetIsWholeInTurn == scope = "in turn" => CommittedSetIsWhole

\* cache.rs:320-325, while processes take turns: a call of store_wasm that was
\* cut short leaves the payloads the manifest names.
CommittedWasmIsWholeInTurn == scope = "in turn" => CommittedWasmIsWhole

InTurnAbstract ==
  INSTANCE VersionCache WITH
    Sets <- BundleSets,
    held <- IF scope = "in turn" THEN held ELSE Absent,
    storing <- scope = "in turn" /\ storing,
    status <- IF scope = "in turn" THEN status ELSE [p \in Proc |-> Absent]

\* While processes take turns, crashes included, the JS half of the cache behaves
\* like one register: emptied and then filled by store, untouched by store_wasm,
\* and found by every check for its version.
ContractInTurn == InTurnAbstract!Spec
=============================================================================
