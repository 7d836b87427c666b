-------------------------- MODULE MCResponseUnion --------------------------
(***************************************************************************)
(* Unions on every union of up to MaxArms variants of a style, and every   *)
(* node over the places they mention.                                      *)
(***************************************************************************)
EXTENDS Unions

CONSTANTS
  a, b,   \* words
  k, c,   \* attributes
  m       \* a child

Number == -1..2
MCValue == Number \cup {a, b}

VARIABLE style

\* Every leaf over c, for the style of one variant of one leaf.
Bound == Number \cup {None}
Numeric ==
  {[leaf EXCEPT !.pin = pin, !.required = required] :
     leaf \in {Ranged(c, lo, hi) : lo \in Bound, hi \in Bound},
     pin \in {None}, required \in BOOLEAN} \cup {Literal(c, "integer", pin) : pin \in Bound \cup {a}}
Texts ==
  {Leaf(c, "string"), Literal(c, "string", a), Enum(c, {a}), Enum(c, {a, b}), Leaf(Content, "string")}
AnyLeaf == Numeric \cup Texts \cup {Relaxed(leaf) : leaf \in Texts}
             \cup {[Ranged(Content, lo, hi) EXCEPT !.required = required] :
                     lo \in Bound, hi \in Bound, required \in BOOLEAN}

Markers == {Marker(a), Marker(b)}
Fallbacks ==
  {Tagged(Variant(pins, gates, fields)) :
     pins \in {{}, {Pin(k, a)}}, gates \in {{}, {m}},
     fields \in {{}, {Leaf(Content, "string")}, {Relaxed(Leaf(Content, "integer"))}, {Leaf(k, "string")}}}

\* A literal the width holds, and one it does not.
IntegerPins == {{Literal(c, "integer", 1)}, {Literal(c, "integer", -1)}}

PinnedArms ==
  {Variant({Pin(k, value)}, gates, fields) :
     value \in {a, b, 1}, gates \in {{}, {m}},
     fields \in {{}, {Leaf(k, "integer")}, {Leaf(c, "integer")}, {Relaxed(Enum(c, {a}))}}
                  \cup IntegerPins}

PresenceArms ==
  {Variant(pins, gates, fields) :
     pins \in {{}, {Pin(k, a)}, {Pin(k, None)}}, gates \in {{}, {m}},
     fields \in {{Leaf(k, "string")}, {Literal(k, "string", a)}, {Enum(k, {b})}, {Ranged(c, None, 0)},
                 {Leaf(k, "string"), Leaf(c, "integer")}, {Relaxed(Leaf(c, "integer"))}}
                 \cup IntegerPins}

TagArms ==
  {Tagged(Variant(pins, gates, fields)) :
     pins \in {{}, {Pin(k, a)}, {Pin(k, b)}}, gates \in {{}, {m}},
     fields \in {{Leaf(c, "integer")}, {Relaxed(Ranged(c, None, 0))}, {Leaf(k, "string")}, {Enum(k, {a})},
                 {Leaf(k, "string"), Enum(c, {a})}, {Leaf(m, "child")}}}

ArmsOf ==
  [leaf |-> {Variant({}, {}, {leaf}) : leaf \in AnyLeaf},
   markers |-> Markers \cup Fallbacks,
   pinned |-> PinnedArms,
   presence |-> PresenceArms,
   tagged |-> TagArms]

MCPool == UNION {ArmsOf[s] : s \in DOMAIN ArmsOf}

\* Unions of one style each, and of those that nothing is made of none longer.
Init == style \in DOMAIN ArmsOf /\ UnionsInit

Next ==
  /\ UNCHANGED style
  /\ declared.variants # <<>> => style # "leaf"
  /\ Len(declared.variants) > 1 => Shape(declared) # "none"
  /\ declared.variants # <<>> /\ style = "markers" => Marked(declared)
  /\ \E v \in ArmsOf[style] : Add(v)
=============================================================================
