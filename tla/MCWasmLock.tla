----------------------------- MODULE MCWasmLock -----------------------------
(***************************************************************************)
(* WasmLock on two kinds of small instance: many ids and URLs in runs of   *)
(* one release, or one id in more runs, of two releases.                   *)
(***************************************************************************)
EXTENDS WasmLock, TLC

CONSTANTS v1, v2

Run(c, w, o) == [cache |-> c, wasm |-> w, wasm_out |-> o]

\* By hand with a cache, and as the update workflow runs it.
ByHand == {Run(TRUE, TRUE, FALSE)}
InWorkflow == {Run(FALSE, TRUE, TRUE)}
Both == ByHand \cup InWorkflow
Every == {Run(TRUE, TRUE, TRUE), Run(FALSE, TRUE, TRUE), Run(TRUE, TRUE, FALSE), Run(TRUE, FALSE, FALSE)}

Symmetry == Permutations(Version)

VARIABLE scope  \* which kind of instance this behaviour is of

\* Two runs of one release, told any bindings of every id to every URL.
OneRelease == INSTANCE WasmLock WITH Flags <- Both, MaxRuns <- 2

\* Runs of all releases, told of the first id and the accepted URLs only.
OneId == INSTANCE WasmLock WITH BxId <- {1}, Url <- Accepted

ScopedInit ==
  \/ scope = "one release" /\ OneRelease!Init
  \/ scope = "one id" /\ OneId!Init

ScopedNext ==
  /\ \/ scope = "one release" /\ OneRelease!Next /\ (runs > 0 => version' = version)
     \/ scope = "one id" /\ OneId!Next
  /\ UNCHANGED scope

ScopedSpec == ScopedInit /\ [][ScopedNext]_<<vars, scope>>
=============================================================================
