--------------------------- MODULE MCBundleCache ---------------------------
(***************************************************************************)
(* CacheInTurn on two kinds of small instance: processes that share the    *)
(* directory, over one bundle, or processes that take turns, over two.     *)
(***************************************************************************)
EXTENDS CacheInTurn, TLC

CONSTANTS p1, p2, v1, v2, j1, j2, w1, a, b, x1

Symmetry == Permutations(Proc) \cup Permutations(Version) \cup Permutations(JsUrl)
              \cup Permutations(Bytes)

\* Of calls that overlap one is abandoned or one file damaged, and only one JS
\* bundle is stored; two calls made in turn may be abandoned.
Bounded ==
  scope = "shared" => /\ faults' <= 1
                      /\ \E j \in JsUrl : \A o \in offered' : DOMAIN o.set \subseteq {j} \cup WasmUrl

BoundedSpec == ScopedInit /\ [][ScopedNext /\ Bounded]_<<vars, scope>>
=============================================================================
