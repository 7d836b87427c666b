--------------------------- MODULE ResponseUnion ---------------------------
(***************************************************************************)
(* A union in a response (wa-codegen/src/union.rs): WhatsApp's parser      *)
(* tries the variants one after the other and takes the first that does    *)
(* not fail. The generator recognises four shapes of union and writes a    *)
(* Rust decoder for each: a match on the content or on one attribute, an   *)
(* if/else over the variants' guards, or a cascade of whole parsers.       *)
(*                                                                         *)
(* Names of variants, the types of their payloads and what is under their  *)
(* children are left out. The node is the one the union is read off, after *)
(* the descent along source_path.                                          *)
(***************************************************************************)
EXTENDS WireLeaf, Sequences

(* A union is [path, variants]: whether it has a source_path, and the        *)
(* variants in their order. Of a variant, tagged says that it asserts the    *)
(* node's tag (the same one wherever it is asserted), pins are the           *)
(* attributes it asserts, with a value or only to be there, gates the        *)
(* children it requires, content the text it asserts, fields its leaves.     *)
Pin(attr, value) == [attr |-> attr, value |-> value]

Variant(pins, gates, fields) ==
  [tagged |-> FALSE, pins |-> pins, gates |-> gates, content |-> None, fields |-> fields]
Tagged(v) == [v EXCEPT !.tagged = TRUE]
Marker(value) == [Tagged(Variant({}, {}, {})) EXCEPT !.content = value]

\* literal() asserts what it pins its leaf to.
IsVariant(v) ==
  /\ v.pins \subseteq [attr : Attribute, value : Int \cup Word \cup {None}]
  /\ v.gates \subseteq Child
  /\ v.content \in Int \cup Word \cup {None}
  /\ \A leaf \in v.fields : IsLeaf(leaf) /\ ~Tolerates(leaf)
  /\ \A pin \in v.pins, leaf \in v.fields :
       leaf.at = pin.attr /\ pin.value # None /\ leaf.pin # None => leaf.pin = pin.value

First(S) == IF S = {} THEN 0 ELSE CHOOSE i \in S : \A j \in S : i <= j

-----------------------------------------------------------------------------
(* WhatsApp's parser *)

Holds(pin, node) ==
  There(node, pin.attr) /\ (pin.value # None => node[pin.attr] = pin.value)

\* A variant's pins and gates, which the generated guards test as they are.
Gated(v, node) == (\A pin \in v.pins : Holds(pin, node)) /\ v.gates \subseteq DOMAIN node

Accepted(v, node) ==
  /\ Gated(v, node)
  /\ v.content # None => There(node, Content) /\ node[Content] = v.content
  /\ \A leaf \in v.fields : Accepts(leaf, node)

\* The variant WhatsApp's parser takes, 0 if it rejects the node.
SourceArm(u, node) == First({i \in DOMAIN u.variants : Accepted(u.variants[i], node)})

\* Nothing the variant reads has a value that is too low for the generated type.
Held(v, node) == \A leaf \in v.fields : ~Narrowed(leaf, node)

-----------------------------------------------------------------------------
(* Recognising the shapes *)

SimpleLeaf(leaf) == leaf.at \notin Child
Simple(v) == \A leaf \in v.fields : SimpleLeaf(leaf)
ArmPayloadRepresentable(v) == \A leaf \in v.fields : PayloadRepresentable(leaf)

Arms(u) == {u.variants[i] : i \in DOMAIN u.variants}

\* The pairs of an earlier and a later variant.
Pairs(u) ==
  LET n == DOMAIN u.variants
  IN  {<<u.variants[ij[1]], u.variants[ij[2]]>> : ij \in {xy \in n \X n : xy[1] < xy[2]}}

\* classify_content: one literal twice and two fallbacks are refused.
IsContent(u) ==
  /\ \A v \in Arms(u) : IF v.content = None THEN Simple(v) ELSE v.fields = {}
  /\ \A pair \in Pairs(u) : pair[1].content # pair[2].content
  /\ \E v \in Arms(u) : v.content # None
  /\ u.path \/ \A v \in Arms(u) : v.tagged

\* classify_attr_discriminated: one attribute, another value each.
OnePin(v) == \E pin \in v.pins : v.pins = {pin} /\ pin.value # None
Discriminator(v) == {pin.attr : pin \in v.pins}

IsAttrDiscriminated(u) ==
  /\ ~u.path
  /\ \A v \in Arms(u) : /\ ~v.tagged /\ v.content = None
                        /\ Simple(v) /\ ArmPayloadRepresentable(v) /\ OnePin(v)
  /\ \A pair \in Pairs(u) : /\ Discriminator(pair[1]) = Discriminator(pair[2])
                            /\ pair[1].pins # pair[2].pins

RequiredAttrs(v) == {leaf.at : leaf \in {l \in v.fields : l.required /\ l.at \in Attribute}}

ShadowsByPresence_same(v, w) ==  \* mutant: only an equal set shadows
  RequiredAttrs(v) = RequiredAttrs(w)

ShadowsByPresence(v, w) == RequiredAttrs(v) \subseteq RequiredAttrs(w)

\* classify_same_node
IsSameNode(u) ==
  /\ ~u.path
  /\ \A v \in Arms(u) : /\ ~v.tagged /\ v.content = None
                        /\ v.fields # {} /\ Simple(v) /\ ArmPayloadRepresentable(v)
  /\ \A pair \in Pairs(u) : ~ShadowsByPresence(pair[1], pair[2])

\* variant_signature: what an arm cannot do without.
Signature(v) ==
  {<<"pin", pin>> : pin \in {p \in v.pins : p.value # None}}
  \cup {<<"gate", tag>> : tag \in v.gates}
  \cup {<<"content", c>> : c \in {v.content} \ {None}}
  \cup {<<"read", leaf.at>> : leaf \in {l \in v.fields : l.required /\ l.at # Content}}

\* variants_conflict
Conflict(v, w) ==
  \E p \in v.pins, q \in w.pins : p.value # None /\ p.attr = q.attr /\ p.value # q.value

Shadows(v, w) == Signature(v) \subseteq Signature(w) /\ ~Conflict(v, w)

\* classify_tag_discriminated
IsTagDiscriminated(u) ==
  /\ \A v \in Arms(u) : v.tagged /\ v.fields # {}
  /\ \A pair \in Pairs(u) : ~Shadows(pair[1], pair[2])

\* classify_union
Shape(u) ==
  IF IsContent(u) THEN "content"
  ELSE IF IsAttrDiscriminated(u) THEN "attr"
  ELSE IF IsSameNode(u) THEN "same_node"
  ELSE IF IsTagDiscriminated(u) THEN "tag"
  ELSE "none"

-----------------------------------------------------------------------------
(* The generated decoders: the arm taken, 0 for None, an error as Rejected *)

Rejected == -1

\* same_node_guard: of a leaf whose attribute is pinned, only what says more.
Guard(v, node) ==
  LET pinned == {pin.attr : pin \in {p \in v.pins : p.value # None}}
  IN  /\ Gated(v, node)
      /\ \A leaf \in v.fields :
           leaf.at = Content \/ leaf.at \notin pinned \/ leaf.type # "string"
             => LeafGuard(leaf, node)

\* emit_content
DecodeContent(u, node) ==
  LET marked == {i \in DOMAIN u.variants :
                   There(node, Content) /\ u.variants[i].content = node[Content]}
      fallback == {i \in DOMAIN u.variants : u.variants[i].content = None}
  IN  IF marked # {} THEN First(marked)
      ELSE First({i \in fallback : Guard(u.variants[i], node)})

\* The payload of an arm of emit_attr_discriminated.
Payload(v, node) ==
  v.gates \subseteq DOMAIN node /\ \A leaf \in v.fields : LeafGuard(leaf, node)

\* emit_attr_discriminated: the value selects, the payload is an error or not.
DecodeAttr(u, node) ==
  LET i == First({j \in DOMAIN u.variants : \A pin \in u.variants[j].pins : Holds(pin, node)})
  IN  IF i # 0 /\ ~Payload(u.variants[i], node) THEN Rejected ELSE i

\* emit_same_node
DecodeSameNode(u, node) == First({i \in DOMAIN u.variants : Guard(u.variants[i], node)})

Unique_guarded(u, i) ==  \* mutant: whatever is pinned is terminal
  u.variants[i].pins # {} \/ u.variants[i].gates # {}

\* No later arm can be meant by a node that this one's pins hold of.
Unique(u, i) ==
  LET v == u.variants[i]
      values(w) == {p \in w.pins : p.value # None}
  IN  /\ values(v) # {} \/ v.gates # {}
      /\ \A j \in DOMAIN u.variants : j > i =>
           \E p \in values(v), q \in values(u.variants[j]) : p.attr = q.attr /\ p.value # q.value

\* The conditions an arm of the cascade is entered on.
Entered(v, node) ==
  (\A pin \in v.pins : pin.value # None => Holds(pin, node)) /\ v.gates \subseteq DOMAIN node

ReadsAll(v, node) == \A leaf \in v.fields : Reads(leaf, node)

\* emit_tag_cascade: an arm that is entered and fails is passed over, unless
\* its pins are its alone.
DecodeTag(u, node) ==
  LET i == First({j \in DOMAIN u.variants :
                    /\ Entered(u.variants[j], node)
                    /\ ReadsAll(u.variants[j], node) \/ Unique(u, j)})
  IN  IF i # 0 /\ ~ReadsAll(u.variants[i], node) THEN Rejected ELSE i

\* emit_union_read, of a union of that shape.
Decode(shape, u, node) ==
  CASE shape = "content" -> DecodeContent(u, node)
    [] shape = "attr" -> DecodeAttr(u, node)
    [] shape = "same_node" -> DecodeSameNode(u, node)
    [] shape = "tag" -> DecodeTag(u, node)
=============================================================================
