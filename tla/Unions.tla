------------------------------- MODULE Unions -------------------------------
(***************************************************************************)
(* The unions a response declares, variant after variant, and what the     *)
(* decoder generated for each makes of the nodes it may meet.              *)
(***************************************************************************)
EXTENDS ResponseUnion

CONSTANTS
  Pool,     \* the variants a union is made of
  Value,    \* what there is at a place of a node
  MaxArms

(* What WhatsApp's unions are: a marker asserts the content and nothing      *)
(* else, a tagged variant with leaves asserts no more than the cascade       *)
(* tests, and its integers are pinned to values of their width.              *)
ASSUME PoolAssumption ==
  /\ Value # {} /\ Value \subseteq Int \cup Word
  /\ MaxArms \in Nat
  /\ \A v \in Pool :
       /\ IsVariant(v)
       /\ v.content # None => v.pins = {} /\ v.gates = {}
       /\ v.tagged /\ v.fields # {} =>
            /\ v.content = None /\ \A pin \in v.pins : pin.value # None
            /\ \A leaf \in v.fields : PinFits(leaf)

VARIABLE declared

Marked(u) == \E v \in Arms(u) : v.content # None

\* Where there are markers, the fallback comes last, and a guard can be made of it.
MayFollow(u, v) ==
  Marked(u) \/ v.content # None =>
    (\A w \in Arms(u) : w.content # None) /\ ArmPayloadRepresentable(v)

UnionsInit == declared = [path |-> FALSE, variants |-> <<>>]

Add(v) ==
  /\ Len(declared.variants) < MaxArms
  /\ MayFollow(declared, v)
  /\ declared' = [declared EXCEPT !.variants = Append(@, v)]

UnionsNext == \E v \in Pool : Add(v)

UnionsSpec == UnionsInit /\ [][UnionsNext]_declared

-----------------------------------------------------------------------------
Mentioned ==
  (UNION {{pin.attr : pin \in v.pins} \cup v.gates \cup {leaf.at : leaf \in v.fields} :
            v \in Arms(declared)})
  \cup (IF Marked(declared) THEN {Content} ELSE {})

\* Of a child, only that it is there.
NodeWith(values, children) ==
  [place \in (DOMAIN values) \cup children |->
     IF place \in children THEN CHOOSE value \in Value : TRUE ELSE values[place]]

\* The nodes over the places mentioned.
Node ==
  {NodeWith(values, children) :
     values \in UNION {[places -> Value] : places \in SUBSET (Mentioned \ Child)},
     children \in SUBSET (Mentioned \cap Child)}

Generated == Len(declared.variants) > 1 /\ Shape(declared) # "none"

Requires(v) == {leaf.at : leaf \in {l \in v.fields : l.required}}

\* Where the generator's comparison of two variants sees all they need: what a
\* variant pins it reads too if another one reads it, and no gate is read.
Comparable ==
  \A v, w \in Arms(declared) :
    /\ {pin.attr : pin \in v.pins} \cap Requires(w) \subseteq Requires(v)
    /\ v.gates \cap Requires(w) = {}

(* "First-success" (union.rs:3-4): of the variants of a union the generated  *)
(* decoder takes the one WhatsApp's parser takes, and none where that fails, *)
(* whichever shape was recognised. It rests on every guard testing all that  *)
(* the variant asserts and reads, and on an error being final only where no  *)
(* later variant could be meant. A negative integer at an undeclared one's   *)
(* place is where the two may part (README.md); even then the decoder takes  *)
(* no variant that does not accept the node.                                 *)
DecodesAsSource ==
  Generated => LET shape == Shape(declared) IN \A node \in Node :
    LET arm == Decode(shape, declared, node)
    IN  /\ (\A v \in Arms(declared) : Held(v, node))
             => SourceArm(declared, node) = IF arm = Rejected THEN 0 ELSE arm
        /\ arm \notin {0, Rejected} => Accepted(declared.variants[arm], node)

\* What a variant reads and another one asserts, the node has otherwise.
AsNoOther(w, node) ==
  \A v \in Arms(declared) :
    /\ \A pin \in v.pins \ w.pins :
         pin.value # None /\ pin.attr \in Requires(w) => ~Holds(pin, node)
    /\ v.content \notin {None, w.content} /\ Content \in Requires(w) => node[Content] # v.content

(* "The separability check rejects a union whose earlier arm would shadow a  *)
(* later one" (union.rs:22-23, 30-31): of a union that is generated every    *)
(* arm that some node satisfies is taken by some node. (Not so where an arm  *)
(* asserts what another one requires, nor where an enum has no key but what  *)
(* another one asserts, nor of a node the arm's types do not hold, see       *)
(* README.md.)                                                               *)
EveryArmIsReachable ==
  Generated /\ Comparable => LET shape == Shape(declared) IN \A i \in DOMAIN declared.variants :
    (\E node \in Node : /\ Accepted(declared.variants[i], node) /\ Held(declared.variants[i], node)
                        /\ AsNoOther(declared.variants[i], node))
      => \E node \in Node : Decode(shape, declared, node) = i

(* A leaf is spelled out twice, and "spelling it separately at each is what  *)
(* let a guard and the payload it admits disagree" (fields.rs:86-88): the    *)
(* guard of an arm and the plain read take the same values, those the        *)
(* accessor takes, whatever the leaf's band, its pin and the width its band  *)
(* leads to. What neither takes though the accessor does is a negative       *)
(* number where nothing is declared.                                         *)
LeafReadsAgree ==
  Len(declared.variants) = 1 => \A v \in Arms(declared) : \A leaf \in v.fields :
    PayloadRepresentable(leaf) =>
      \A node \in Node :
        LET taken == Accepts(leaf, node) /\ ~Narrowed(leaf, node)
        IN  /\ LeafGuard(leaf, node) <=> taken
            /\ Reads(leaf, node) <=> taken
=============================================================================
