---------------------------- MODULE VersionCache ----------------------------
(***************************************************************************)
(* What the JS half of the bundle cache promises a process that has the    *)
(* directory to itself (cache.rs:1-3, 33-47): it holds one whole set of    *)
(* bundles for one version, or nothing.  Only a replacement drops the set, *)
(* it puts the new one in whole or is aborted, and a lookup finds the set  *)
(* exactly when the version asked for is the one held.                     *)
(***************************************************************************)
CONSTANTS Proc, Version, Sets, Absent

VARIABLES
  held,    \* the set held and its version, or Absent
  storing, \* a replacement of the set has begun
  status   \* what each process's last lookup returned

vars == <<held, storing, status>>

Init == held = Absent /\ storing = FALSE /\ status = [p \in Proc |-> Absent]

Begin == held' = Absent /\ storing' = TRUE /\ UNCHANGED status

Commit(v, set) ==
  /\ storing /\ storing' = FALSE
  /\ held' = [wa_version |-> v, set |-> set]
  /\ UNCHANGED status

Abort == storing /\ storing' = FALSE /\ UNCHANGED <<held, status>>

Found(p, v) ==
  /\ held # Absent /\ held.wa_version = v
  /\ status' = [status EXCEPT ![p] =
                  [kind |-> "hit", wa_version |-> v, set |-> held.set]]
  /\ UNCHANGED <<held, storing>>

NotFound(p, v) ==
  /\ held = Absent \/ held.wa_version # v
  /\ status' = [status EXCEPT ![p] =
                  [kind |-> "miss", wa_version |-> v, set |-> [u \in {} |-> Absent]]]
  /\ UNCHANGED <<held, storing>>

Next ==
  \/ Begin \/ Abort
  \/ \E v \in Version, set \in Sets : Commit(v, set)
  \/ \E p \in Proc, v \in Version : Found(p, v) \/ NotFound(p, v)

Spec == Init /\ [][Next]_vars
=============================================================================
