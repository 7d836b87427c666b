------------------------------ MODULE MCPublish ------------------------------
(* Publish on small instances. *)
EXTENDS Publish, TLC

CONSTANTS v1, v2, x, y, b1, b2, b3, o1, o2

Symmetry == Permutations({v1, v2}) \cup Permutations({b1, b2}) \cup Permutations({o1, o2})

\* Two bundles of one domain, one of the other; and one of each.
Three == b1 :> x @@ b2 :> x @@ b3 :> y
Two == b1 :> x @@ b2 :> y
=============================================================================
