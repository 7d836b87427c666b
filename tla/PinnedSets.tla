------------------------------ MODULE PinnedSets ------------------------------
(***************************************************************************)
(* What publishing promises those who take main (publish-bundles.sh:22-27, *)
(* regen.sh:2-11): a commit pins one bundle set, all its files are made of *)
(* that set, the set can be had when the commit is made, and what can be   *)
(* had once can be had ever after.                                         *)
(***************************************************************************)
CONSTANT Absent

VARIABLES
  obtainable, \* the sets that can be had, each of a release
  pinned,     \* those that a commit of main has pinned
  head        \* the one the head of main pins, or Absent

vars == <<obtainable, pinned, head>>

Init == obtainable = {} /\ pinned = {} /\ head = Absent

Publish ==
  /\ obtainable \subseteq obtainable'
  /\ UNCHANGED <<pinned, head>>

Pin ==
  /\ head' \in obtainable /\ pinned' = pinned \cup {head'}
  /\ UNCHANGED obtainable

Next == Publish \/ Pin

Spec == Init /\ [][Next]_vars
=============================================================================
