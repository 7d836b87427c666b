------------------------------ MODULE MCRestore ------------------------------
(***************************************************************************)
(* The two commands that put locked files into a directory, on small       *)
(* instances: Restore, and Capture, whose state is its own.                *)
(***************************************************************************)
EXTENDS Capture, TLC

CONSTANTS v1, v2, c1, c2, n1, n2, u1, u2

\* Of the permutations that leave the specification alone.
Symmetry == Permutations({v1, v2}) \cup Permutations({c1, c2}) \cup Permutations({n1, n2})
              \cup Permutations({u1, u2})

VARIABLE scope  \* the command this behaviour is of

ScopedInit ==
  /\ Init /\ CaptureInit
  /\ scope \in {"restore", "capture"} /\ (scope = "restore" => captured = Empty)

Restoring == scope = "restore" /\ Next /\ UNCHANGED <<scope, captureVars>>
Capturing == scope = "capture" /\ CaptureNext /\ UNCHANGED <<scope, vars>>

ScopedSpec == ScopedInit /\ [][Restoring \/ Capturing]_<<vars, scope, captureVars>>
=============================================================================
