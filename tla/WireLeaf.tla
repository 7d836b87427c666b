------------------------------ MODULE WireLeaf ------------------------------
(***************************************************************************)
(* One leaf of a response parser as wa-codegen writes it out, twice: as a  *)
(* condition on taking a union's arm (wa-codegen/src/union.rs, leaf_guard) *)
(* and as a plain read that fails or not (wa-codegen/src/emit.rs,          *)
(* emit_field_parse). What the accessor in WhatsApp's own parser takes is  *)
(* Accepts.                                                                *)
(*                                                                         *)
(* A node is a function from the places that are there to their values. A  *)
(* place is an attribute, the content, or a child. A value is a number as  *)
(* decimal text or a word.                                                 *)
(***************************************************************************)
EXTENDS Integers

CONSTANTS
  Word,      \* values no parser makes a number of
  Attribute,
  Child,
  Content,   \* the place of a node's own content
  None       \* no bound, no pin

ASSUME ValueAssumption ==
  /\ Word \cap Int = {}
  /\ None \notin Int /\ None \notin Word
  /\ Content \notin Attribute \cup Child /\ Attribute \cap Child = {}

Place == Attribute \cup Child \cup {Content}

IsNumber(value) == value \notin Word
There(node, place) == place \in DOMAIN node

(* A leaf: its place; its type, "string", "enum" (keys are the values it     *)
(* takes), "integer" (lo, hi are its declared range) or, of a child that is  *)
(* only looked for, "child"; the value literal() pins it to; whether the     *)
(* parser always reads it; and whether the accessor itself is an optional    *)
(* one (maybeAttrInt rather than attrInt).                                   *)
Leaf(place, type) ==
  [at |-> place, type |-> type, keys |-> {}, lo |-> None, hi |-> None, pin |-> None,
   required |-> TRUE, maybe |-> FALSE]
Enum(place, keys) == [Leaf(place, "enum") EXCEPT !.keys = keys]
Ranged(place, lo, hi) == [Leaf(place, "integer") EXCEPT !.lo = lo, !.hi = hi]
Literal(place, type, value) == [Leaf(place, type) EXCEPT !.pin = value]
Relaxed(leaf) == [leaf EXCEPT !.required = FALSE]
Maybe(leaf) == [leaf EXCEPT !.required = FALSE, !.maybe = TRUE]

\* As the scanner records them: literal() pins a plain accessor, and only an
\* integer has a band.
IsLeaf(leaf) ==
  /\ leaf \in [at : Place, type : {"string", "enum", "integer", "child"}, keys : SUBSET (Int \cup Word),
               lo : Int \cup {None}, hi : Int \cup {None}, pin : Int \cup Word \cup {None},
               required : BOOLEAN, maybe : BOOLEAN]
  /\ leaf.pin # None => leaf.type # "enum" /\ leaf.lo = None /\ leaf.hi = None

IsNode(node) == \A place \in DOMAIN node : node[place] \in Int \cup Word

\* The accessor itself: of an integer with nothing declared, any number.
InRange(leaf, n) ==
  /\ leaf.lo # None => n >= leaf.lo
  /\ leaf.hi # None => n <= leaf.hi

Takes(leaf, value) ==
  /\ leaf.type = "enum" => value \in leaf.keys
  /\ leaf.type = "integer" => IsNumber(value) /\ InRange(leaf, value)
  /\ leaf.pin # None => value = leaf.pin

Accepts(leaf, node) ==
  IF There(node, leaf.at) THEN Takes(leaf, node[leaf.at]) ELSE ~leaf.required

\* An integer with nothing declared is "unsigned by this generator's convention"
\* (fields.rs:109-110): a negative one the accessor takes has no value of the
\* generated type. One pinned to a number is no such case, its pin has to fit.
Narrowed(leaf, node) ==
  /\ leaf.type = "integer" /\ leaf.lo = None /\ leaf.hi = None /\ leaf.pin = None
  /\ There(node, leaf.at) /\ IsNumber(node[leaf.at]) /\ node[leaf.at] < 0

-----------------------------------------------------------------------------
(* Widths and bands *)

AdmitsNegative_byCeiling(leaf) ==  \* mutant: a band open below is signed if its top is
  /\ leaf.type = "integer"
  /\ IF leaf.lo # None THEN leaf.lo < 0 ELSE leaf.hi # None /\ leaf.hi < 0

\* The field is an i64 rather than a u64.
AdmitsNegative(leaf) ==
  /\ leaf.type = "integer"
  /\ IF leaf.lo # None THEN leaf.lo < 0 ELSE leaf.hi # None

ContradictoryBand(leaf) ==
  \/ leaf.lo # None /\ leaf.hi # None /\ leaf.lo > leaf.hi
  \/ ~AdmitsNegative(leaf) /\ leaf.type = "integer" /\ leaf.hi # None /\ leaf.hi < 0

\* A bound no value of the width can fail is not tested.
IntBand(leaf, n) ==
  /\ ~ContradictoryBand(leaf)
  /\ leaf.lo # None /\ (AdmitsNegative(leaf) \/ leaf.lo > 0) => n >= leaf.lo
  /\ leaf.hi # None /\ (AdmitsNegative(leaf) \/ leaf.hi >= 0) => n <= leaf.hi

\* value.parse::<width>()
Parses(leaf, value) == IsNumber(value) /\ (AdmitsNegative(leaf) \/ value >= 0)

Decodes(leaf, value) ==
  leaf.type = "integer" => Parses(leaf, value) /\ IntBand(leaf, value)

Representable(leaf, n) == AdmitsNegative(leaf) \/ n >= 0

\* A number's pin is a value of its width.
PinFits(leaf) ==
  leaf.type = "integer" /\ leaf.pin # None
    => IsNumber(leaf.pin) /\ Representable(leaf, leaf.pin)

\* arm_payload_representable: what a guard can reproduce.
PayloadRepresentable(leaf) ==
  /\ ~(leaf.at = Content /\ leaf.pin # None)
  /\ ~ContradictoryBand(leaf)
  /\ PinFits(leaf)

-----------------------------------------------------------------------------
(* leaf_guard: the condition on taking an arm *)

Pinned(leaf, value) ==
  IF leaf.type = "integer" /\ PinFits(leaf)
  THEN Parses(leaf, value) /\ value = leaf.pin
  ELSE value = leaf.pin

LeafGuard(leaf, node) ==
  LET there == There(node, leaf.at)
      value == node[leaf.at]
  IN  CASE leaf.type = "enum" -> IF there THEN value \in leaf.keys ELSE ~leaf.required
        [] leaf.type # "enum" /\ leaf.at # Content /\ leaf.pin # None ->
             IF there THEN Pinned(leaf, value) ELSE ~leaf.required
        [] leaf.type # "enum" /\ (leaf.at = Content \/ leaf.pin = None) ->
             IF there THEN Decodes(leaf, value) ELSE ~leaf.required

-----------------------------------------------------------------------------
(* emit_field_parse: the plain read, an error or not *)

\* tolerates_a_failed_decode: what does not decode is taken as not there.
Tolerates(leaf) == leaf.type = "integer" /\ leaf.at # Content /\ leaf.maybe

EnumMembership(leaf, value) == leaf.type = "enum" => value \in leaf.keys

LiteralPin(leaf, value) ==
  \/ leaf.pin = None
  \/ ~PinFits(leaf)
  \/ value = leaf.pin

Reads(leaf, node) ==
  IF ~There(node, leaf.at) THEN ~leaf.required
  ELSE LET value == node[leaf.at]
       IN  IF leaf.type = "integer" /\ ~Parses(leaf, value) THEN Tolerates(leaf)
           ELSE /\ leaf.type = "integer" => IntBand(leaf, value)
                /\ EnumMembership(leaf, value)
                /\ LiteralPin(leaf, value)
=============================================================================
