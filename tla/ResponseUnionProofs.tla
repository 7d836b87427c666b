------------------------ MODULE ResponseUnionProofs ------------------------
(* That the two spellings of a leaf agree, and that every generated decoder *)
(* takes the variant WhatsApp's parser takes, for any number of variants,   *)
(* leaves, bands, pins and nodes whose values the generated types hold.     *)
EXTENDS Unions, WellFoundedInduction, TLAPS

IsUnion(u) == \E n \in Nat : DOMAIN u.variants = 1..n /\ \A v \in Arms(u) : IsVariant(v)

\* The fallback is the last variant and the others are markers.
MarkersFirst(u) ==
  \A i \in DOMAIN u.variants :
    IF u.variants[i].content = None THEN \A j \in DOMAIN u.variants : j <= i
    ELSE u.variants[i].pins = {} /\ u.variants[i].gates = {}

\* What the cascade tests is all there is to test.
CascadeTestsAll(u) ==
  \A v \in Arms(u) :
    /\ v.content = None /\ \A pin \in v.pins : pin.value # None
    /\ \A leaf \in v.fields : PinFits(leaf)

-----------------------------------------------------------------------------
(* One leaf *)

\* A negative number where nothing is declared.
BelowWidth(leaf, value) == leaf.lo = None /\ leaf.hi = None /\ IsNumber(value) /\ value < 0

(* The width a band leads to loses nothing of it: a number decodes just when *)
(* the accessor's range has it (fields.rs: admits_negative, int_band), but   *)
(* for a negative one of no band.                                            *)
LEMMA BandIsTheRange ==
  ASSUME NEW leaf, IsLeaf(leaf), leaf.type = "integer", NEW value \in Int \cup Word
  PROVE  Decodes(leaf, value) <=> IsNumber(value) /\ InRange(leaf, value) /\ ~BelowWidth(leaf, value)
<1>1. CASE value \in Word
  BY <1>1 DEF Decodes, Parses, IsNumber
<1>2. CASE value \in Int
  <2>1. IsNumber(value)
    BY <1>2, ValueAssumption DEF IsNumber
  <2>2. leaf.lo \in Int \cup {None} /\ leaf.hi \in Int \cup {None}
    BY DEF IsLeaf
  <2> QED
    BY <1>2, <2>1, <2>2, ValueAssumption
       DEF Decodes, Parses, IntBand, InRange, AdmitsNegative, ContradictoryBand, BelowWidth
<1> QED
  BY <1>1, <1>2

(* Without a band an integer is unsigned.                                    *)
LEMMA PinnedWidth ==
  ASSUME NEW leaf, IsLeaf(leaf), leaf.type = "integer", leaf.pin # None, PinFits(leaf)
  PROVE  /\ leaf.pin \in Int /\ leaf.pin >= 0 /\ IsNumber(leaf.pin)
         /\ Representable(leaf, leaf.pin) /\ ~AdmitsNegative(leaf)
<1>1. leaf.lo = None /\ leaf.hi = None /\ leaf.pin \in Int \cup Word
  BY DEF IsLeaf
<1>2. ~AdmitsNegative(leaf)
  BY <1>1 DEF AdmitsNegative
<1>3. IsNumber(leaf.pin) /\ Representable(leaf, leaf.pin)
  BY <1>1 DEF PinFits
<1> QED
  BY <1>1, <1>2, <1>3 DEF IsNumber, Representable

\* Narrowed, of the value alone.
Misses(leaf, value) == leaf.type = "integer" /\ leaf.pin = None /\ BelowWidth(leaf, value)

(* What a value must be for the guard, the read and the accessor.            *)
LEMMA ValuesAgree ==
  ASSUME NEW leaf, IsLeaf(leaf), PinFits(leaf), NEW value \in Int \cup Word
  PROVE  /\ Takes(leaf, value) /\ ~Misses(leaf, value) <=>
              /\ leaf.type = "enum" => value \in leaf.keys
              /\ Decodes(leaf, value)
              /\ LiteralPin(leaf, value)
         /\ leaf.type # "enum" /\ leaf.pin # None => (Pinned(leaf, value) <=> Takes(leaf, value))
<1>1. CASE leaf.type = "integer"
  <2>1. Decodes(leaf, value) <=> IsNumber(value) /\ InRange(leaf, value) /\ ~BelowWidth(leaf, value)
    BY <1>1, BandIsTheRange
  <2>2. CASE leaf.pin = None
    BY <1>1, <2>1, <2>2 DEF Takes, LiteralPin, Misses
  <2>3. CASE leaf.pin # None
    <3>1. /\ leaf.pin \in Int /\ leaf.pin >= 0 /\ IsNumber(leaf.pin)
          /\ Representable(leaf, leaf.pin) /\ ~AdmitsNegative(leaf)
      BY <1>1, <2>3, PinnedWidth
    <3>2. leaf.lo = None /\ leaf.hi = None
      BY <2>3 DEF IsLeaf
    <3>3. Pinned(leaf, value) <=> Parses(leaf, value) /\ value = leaf.pin
      BY <1>1, <3>1 DEF Pinned
    <3>4. LiteralPin(leaf, value) <=> value = leaf.pin
      BY <1>1, <2>3, <3>1 DEF LiteralPin
    <3>5. Takes(leaf, value) <=> IsNumber(value) /\ InRange(leaf, value) /\ value = leaf.pin
      BY <1>1, <2>3 DEF Takes
    <3> QED
      BY <1>1, <2>1, <2>3, <3>1, <3>2, <3>3, <3>4, <3>5 DEF Parses, InRange, BelowWidth, Misses
  <2> QED
    BY <2>2, <2>3
<1>2. CASE leaf.type # "integer"
  BY <1>2 DEF Takes, Decodes, LiteralPin, Pinned, Misses
<1> QED
  BY <1>1, <1>2

(* The guard on taking a union's arm tests of a leaf exactly what the        *)
(* accessor does (union.rs, leaf_guard), but that it passes over a negative  *)
(* number where nothing is declared, which the accessor takes.               *)
THEOREM GuardIsTheAccessor ==
  ASSUME NEW leaf, IsLeaf(leaf), PayloadRepresentable(leaf), NEW node, IsNode(node)
  PROVE  LeafGuard(leaf, node) <=> Accepts(leaf, node) /\ ~Narrowed(leaf, node)
<1>0. leaf.type \in {"string", "enum", "integer", "child"}
  BY DEF IsLeaf
<1>1. CASE ~There(node, leaf.at)
  BY <1>0, <1>1 DEF LeafGuard, Accepts, Narrowed
<1>2. CASE There(node, leaf.at)
  <2> DEFINE value == node[leaf.at]
  <2>1. value \in Int \cup Word
    BY <1>2 DEF There, IsNode
  <2>2. Accepts(leaf, node) /\ ~Narrowed(leaf, node) <=> Takes(leaf, value) /\ ~Misses(leaf, value)
    BY <1>2 DEF Accepts, Narrowed, Misses, BelowWidth
  <2> HIDE DEF value
  <2>3. /\ Takes(leaf, value) /\ ~Misses(leaf, value) <=>
              /\ leaf.type = "enum" => value \in leaf.keys
              /\ Decodes(leaf, value)
              /\ LiteralPin(leaf, value)
        /\ leaf.type # "enum" /\ leaf.pin # None => (Pinned(leaf, value) <=> Takes(leaf, value))
    BY <2>1, ValuesAgree DEF PayloadRepresentable
  <2>4. leaf.type = "enum" => leaf.pin = None
    BY DEF IsLeaf
  <2>5. leaf.at = Content => leaf.pin = None
    BY DEF PayloadRepresentable
  <2>6. CASE leaf.type = "enum"
    <3>1. LeafGuard(leaf, node) <=> value \in leaf.keys
      BY <1>2, <2>6 DEF LeafGuard, value
    <3>2. Decodes(leaf, value) /\ LiteralPin(leaf, value)
      BY <2>4, <2>6 DEF Decodes, LiteralPin
    <3> QED
      BY <2>2, <2>3, <2>6, <3>1, <3>2
  <2>7. CASE leaf.type # "enum" /\ leaf.at # Content /\ leaf.pin # None
    <3>1. LeafGuard(leaf, node) <=> Pinned(leaf, value)
      BY <1>2, <2>7 DEF LeafGuard, value
    <3>2. ~Misses(leaf, value)
      BY <2>7 DEF Misses
    <3> QED
      BY <2>2, <2>3, <2>7, <3>1, <3>2
  <2>8. CASE leaf.type # "enum" /\ (leaf.at = Content \/ leaf.pin = None)
    <3>1. LeafGuard(leaf, node) <=> Decodes(leaf, value)
      BY <1>2, <2>8 DEF LeafGuard, value
    <3>2. LiteralPin(leaf, value)
      BY <2>5, <2>8 DEF LiteralPin
    <3> QED
      BY <2>2, <2>3, <2>8, <3>1, <3>2
  <2> QED
    BY <2>6, <2>7, <2>8
<1> QED
  BY <1>1, <1>2

(* The plain read, unless it is of an optional accessor, fails exactly where *)
(* the accessor does and on a negative number where nothing is declared      *)
(* (emit.rs, emit_field_parse).                                              *)
THEOREM ReadIsTheAccessor ==
  ASSUME NEW leaf, IsLeaf(leaf), PinFits(leaf), ~Tolerates(leaf),
         NEW node, IsNode(node)
  PROVE  Reads(leaf, node) <=> Accepts(leaf, node) /\ ~Narrowed(leaf, node)
<1>1. CASE ~There(node, leaf.at)
  BY <1>1 DEF Reads, Accepts, Narrowed
<1>2. CASE There(node, leaf.at)
  <2> DEFINE value == node[leaf.at]
  <2>1. value \in Int \cup Word
    BY <1>2 DEF There, IsNode
  <2>2. Accepts(leaf, node) /\ ~Narrowed(leaf, node) <=> Takes(leaf, value) /\ ~Misses(leaf, value)
    BY <1>2 DEF Accepts, Narrowed, Misses, BelowWidth
  <2>3. Reads(leaf, node) <=>
          /\ leaf.type = "integer" => Parses(leaf, value) /\ IntBand(leaf, value)
          /\ EnumMembership(leaf, value) /\ LiteralPin(leaf, value)
    BY <1>2 DEF Reads
  <2> HIDE DEF value
  <2>4. Takes(leaf, value) /\ ~Misses(leaf, value) <=>
              /\ leaf.type = "enum" => value \in leaf.keys
              /\ Decodes(leaf, value)
              /\ LiteralPin(leaf, value)
    BY <2>1, ValuesAgree
  <2> QED
    BY <2>2, <2>3, <2>4 DEF EnumMembership, Decodes
<1> QED
  BY <1>1, <1>2

-----------------------------------------------------------------------------
(* First *)

\* A set of positions has a first one.
LEMMA FirstIn ==
  ASSUME NEW S \in SUBSET (Nat \ {0}), S # {}
  PROVE  First(S) \in S /\ \A j \in S : First(S) <= j
<1> DEFINE Less == OpToRel(<, Nat)
<1>1. IsWellFoundedOn(Less, Nat)
  BY NatLessThanWellFounded
<1>2. PICK i \in S : \A j \in S : ~(<<j, i>> \in Less)
  BY <1>1, WFMin
<1>3. ASSUME NEW j \in S PROVE i <= j
  <2>1. i \in Nat /\ j \in Nat /\ <<j, i>> \in Nat \X Nat
    OBVIOUS
  <2>2. ~(<<j, i>>[1] < <<j, i>>[2])
    BY <1>2, <2>1 DEF OpToRel
  <2> QED
    BY <2>1, <2>2
<1> QED
  BY <1>3 DEF First

\* There is only one first.
LEMMA FirstIs ==
  ASSUME NEW S \in SUBSET (Nat \ {0}), NEW i \in S, \A j \in S : i <= j
  PROVE  First(S) = i
<1>1. First(S) \in S /\ \A j \in S : First(S) <= j
  BY FirstIn
<1>2. First(S) <= i /\ i <= First(S) /\ i \in Nat /\ First(S) \in Nat
  BY <1>1
<1> QED
  BY <1>2

LEMMA FirstOfNone == First({}) = 0
BY DEF First

-----------------------------------------------------------------------------
(* One variant *)

\* WhatsApp's parser takes the variant, and its types hold what it reads.
Taking(v, node) == Accepted(v, node) /\ Held(v, node)

\* A guarded variant without a content pin is taken just when its guard holds.
LEMMA GuardIsTheParser ==
  ASSUME NEW v, IsVariant(v), ArmPayloadRepresentable(v), v.content = None, NEW node, IsNode(node)
  PROVE  Guard(v, node) <=> Taking(v, node)
<1> DEFINE pinned == {pin.attr : pin \in {p \in v.pins : p.value # None}}
           Tested(leaf) == leaf.at = Content \/ leaf.at \notin pinned \/ leaf.type # "string"
<1>1. Guard(v, node) <=>
        Gated(v, node) /\ \A leaf \in v.fields : Tested(leaf) => LeafGuard(leaf, node)
  BY DEF Guard
<1>2. Accepted(v, node) <=> Gated(v, node) /\ \A leaf \in v.fields : Accepts(leaf, node)
  BY DEF Accepted
<1>3. ASSUME NEW leaf \in v.fields
      PROVE  LeafGuard(leaf, node) <=> Accepts(leaf, node) /\ ~Narrowed(leaf, node)
  <2>1. IsLeaf(leaf) /\ PayloadRepresentable(leaf)
    BY DEF IsVariant, ArmPayloadRepresentable
  <2> QED
    BY <2>1, GuardIsTheAccessor
<1>4. ASSUME NEW leaf \in v.fields, ~Tested(leaf), Gated(v, node)
      PROVE  Accepts(leaf, node) /\ ~Narrowed(leaf, node)
  <2>1. PICK pin \in v.pins : pin.value # None /\ leaf.at = pin.attr
    BY <1>4
  <2>2. There(node, leaf.at) /\ node[leaf.at] = pin.value
    BY <1>4, <2>1 DEF Gated, Holds
  <2>3. leaf.pin # None => leaf.pin = pin.value
    BY <2>1 DEF IsVariant
  <2>4. Takes(leaf, node[leaf.at])
    BY <1>4, <2>2, <2>3 DEF Takes
  <2> QED
    BY <1>4, <2>2, <2>4 DEF Accepts, Narrowed
<1> HIDE DEF Tested
<1> QED
  BY <1>1, <1>2, <1>3, <1>4 DEF Held, Taking

\* A variant whose pins all have values is taken just when it is entered and read.
LEMMA CascadeIsTheParser ==
  ASSUME NEW v, IsVariant(v), v.content = None, \A pin \in v.pins : pin.value # None,
         \A leaf \in v.fields : PinFits(leaf), NEW node, IsNode(node)
  PROVE  Taking(v, node) <=> Entered(v, node) /\ ReadsAll(v, node)
<1>1. ASSUME NEW leaf \in v.fields
      PROVE  Reads(leaf, node) <=> Accepts(leaf, node) /\ ~Narrowed(leaf, node)
  <2>1. IsLeaf(leaf) /\ PinFits(leaf) /\ ~Tolerates(leaf)
    BY DEF IsVariant
  <2> QED
    BY <2>1, ReadIsTheAccessor
<1> QED
  BY <1>1 DEF Taking, Held, Accepted, Entered, ReadsAll, Gated

-----------------------------------------------------------------------------
(* The four decoders *)

HeldTakes(u, node) == {i \in DOMAIN u.variants : Taking(u.variants[i], node)}

\* The variant WhatsApp's parser takes of those whose types hold what they read.
HeldArm(u, node) == First(HeldTakes(u, node))

\* An error counts as rejecting the node.
Taken(arm) == IF arm = Rejected THEN 0 ELSE arm

LEMMA Positions ==
  ASSUME NEW u, IsUnion(u)
  PROVE  /\ DOMAIN u.variants \subseteq Nat \ {0}
         /\ \A i \in DOMAIN u.variants : u.variants[i] \in Arms(u) /\ IsVariant(u.variants[i])
  BY DEF IsUnion, Arms

\* What is not Rejected is taken as it is.
LEMMA TakenIsTheArm ==
  ASSUME NEW S \in SUBSET (Nat \ {0})
  PROVE  Taken(First(S)) = First(S)
<1>1. First(S) \in Nat
  <2>1. CASE S = {}
    BY <2>1, FirstOfNone
  <2>2. CASE S # {}
    BY <2>2, FirstIn
  <2> QED
    BY <2>1, <2>2
<1> QED
  BY <1>1 DEF Taken, Rejected

\* The if/else takes the first variant whose guard holds.
LEMMA SameNodeFollows ==
  ASSUME NEW u, IsUnion(u), IsSameNode(u), NEW node, IsNode(node)
  PROVE  Taken(DecodeSameNode(u, node)) = HeldArm(u, node)
<1> DEFINE guarded == {i \in DOMAIN u.variants : Guard(u.variants[i], node)}
<1>1. ASSUME NEW i \in DOMAIN u.variants
      PROVE  Guard(u.variants[i], node) <=> Taking(u.variants[i], node)
  <2>1. IsVariant(u.variants[i]) /\ u.variants[i] \in Arms(u)
    BY Positions
  <2>2. u.variants[i].content = None /\ ArmPayloadRepresentable(u.variants[i])
    BY <2>1 DEF IsSameNode
  <2> QED
    BY <2>1, <2>2, GuardIsTheParser
<1>2. guarded = HeldTakes(u, node)
  BY <1>1 DEF HeldTakes
<1>3. guarded \in SUBSET (Nat \ {0})
  BY Positions
<1> QED
  BY <1>2, <1>3, TakenIsTheArm DEF DecodeSameNode, HeldArm, HeldTakes

\* The discriminator's value selects one arm, which is the only one WhatsApp's
\* parser can take.
LEMMA AttrFollows ==
  ASSUME NEW u, IsUnion(u), IsAttrDiscriminated(u), NEW node, IsNode(node)
  PROVE  Taken(DecodeAttr(u, node)) = HeldArm(u, node)
<1> DEFINE selected == {j \in DOMAIN u.variants : \A pin \in u.variants[j].pins : Holds(pin, node)}
           i == First(selected)
<1>0. selected \in SUBSET (Nat \ {0}) /\ HeldTakes(u, node) \in SUBSET (Nat \ {0})
  BY Positions DEF HeldTakes
<1>1. ASSUME NEW j \in selected, NEW l \in selected PROVE j = l
  <2>1. /\ u.variants[j] \in Arms(u) /\ OnePin(u.variants[j])
        /\ u.variants[l] \in Arms(u) /\ OnePin(u.variants[l])
    BY Positions DEF IsAttrDiscriminated
  <2>2. PICK p : u.variants[j].pins = {p} /\ p.value # None
    BY <2>1 DEF OnePin
  <2>3. PICK q : u.variants[l].pins = {q} /\ q.value # None
    BY <2>1 DEF OnePin
  <2>4. p \in [attr : Attribute, value : Int \cup Word \cup {None}]
        /\ q \in [attr : Attribute, value : Int \cup Word \cup {None}]
    BY <2>2, <2>3, Positions DEF IsVariant
  <2>5. node[p.attr] = p.value /\ node[q.attr] = q.value
    BY <2>2, <2>3 DEF Holds
  <2>6. ASSUME NEW x \in DOMAIN u.variants, NEW y \in DOMAIN u.variants, x < y
        PROVE  /\ Discriminator(u.variants[x]) = Discriminator(u.variants[y])
               /\ u.variants[x].pins # u.variants[y].pins
    <3> DEFINE pair == <<u.variants[x], u.variants[y]>>
    <3>1. <<x, y>> \in {xy \in (DOMAIN u.variants) \X (DOMAIN u.variants) : xy[1] < xy[2]}
      BY <2>6
    <3>2. pair = <<u.variants[<<x, y>>[1]], u.variants[<<x, y>>[2]]>>
      OBVIOUS
    <3>3. pair \in Pairs(u)
      BY <3>1, <3>2 DEF Pairs
    <3> QED
      BY <3>3 DEF IsAttrDiscriminated
  <2>7. ASSUME j # l PROVE Discriminator(u.variants[j]) = Discriminator(u.variants[l])
                           /\ u.variants[j].pins # u.variants[l].pins
    <3>1. j < l \/ l < j
      BY <1>0, <2>7
    <3> QED
      BY <2>6, <3>1
  <2>8. Discriminator(u.variants[j]) = {p.attr} /\ Discriminator(u.variants[l]) = {q.attr}
    BY <2>2, <2>3 DEF Discriminator
  <2>9. j # l => p.attr = q.attr /\ p # q
    BY <2>2, <2>3, <2>7, <2>8
  <2> QED
    BY <2>4, <2>5, <2>9
<1>2. ASSUME NEW j \in DOMAIN u.variants
      PROVE  Taking(u.variants[j], node) <=> j \in selected /\ Payload(u.variants[j], node)
  <2>1. /\ IsVariant(u.variants[j]) /\ u.variants[j].content = None
        /\ ArmPayloadRepresentable(u.variants[j])
    BY Positions DEF IsAttrDiscriminated
  <2>2. ASSUME NEW leaf \in u.variants[j].fields
        PROVE  LeafGuard(leaf, node) <=> Accepts(leaf, node) /\ ~Narrowed(leaf, node)
    BY <2>1, GuardIsTheAccessor DEF IsVariant, ArmPayloadRepresentable
  <2> QED
    BY <2>1, <2>2 DEF Taking, Held, Accepted, Gated, Payload
<1>3. CASE selected = {}
  <2>1. HeldTakes(u, node) = {}
    BY <1>2, <1>3 DEF HeldTakes
  <2>2. i = 0 /\ DecodeAttr(u, node) = 0
    BY <1>3, FirstOfNone DEF DecodeAttr
  <2> QED
    BY <2>1, <2>2, FirstOfNone DEF HeldArm, HeldTakes, Taken, Rejected
<1>4. CASE selected # {}
  <2>1. i \in selected /\ selected = {i} /\ i # 0 /\ i \in Nat
    BY <1>0, <1>1, <1>4, FirstIn
  <2>2. CASE Payload(u.variants[i], node)
    <3>1. HeldTakes(u, node) = {i}
      BY <1>2, <2>1, <2>2 DEF HeldTakes
    <3>2. HeldArm(u, node) = First({i}) /\ First({i}) = i
      <4>1. {i} \in SUBSET (Nat \ {0}) /\ \A j \in {i} : i <= j
        BY <2>1
      <4>2. HeldArm(u, node) = First(HeldTakes(u, node))
        BY DEF HeldArm, HeldTakes
      <4> HIDE DEF i
      <4> QED
        BY <3>1, <4>1, <4>2, FirstIs
    <3>3. DecodeAttr(u, node) = i
      BY <2>2 DEF DecodeAttr
    <3> QED
      BY <2>1, <3>2, <3>3 DEF Taken, Rejected
  <2>3. CASE ~Payload(u.variants[i], node)
    <3>1. HeldTakes(u, node) = {}
      BY <1>2, <2>1, <2>3 DEF HeldTakes
    <3>2. DecodeAttr(u, node) = Rejected
      BY <2>1, <2>3 DEF DecodeAttr
    <3> QED
      BY <3>1, <3>2, FirstOfNone DEF HeldArm, HeldTakes, Taken
  <2> QED
    BY <2>2, <2>3
<1> QED
  BY <1>3, <1>4

\* The markers exclude each other and come before the fallback.
LEMMA ContentFollows ==
  ASSUME NEW u, IsUnion(u), IsContent(u), MarkersFirst(u),
         \A v \in Arms(u) : ArmPayloadRepresentable(v),
         NEW node, IsNode(node)
  PROVE  Taken(DecodeContent(u, node)) = HeldArm(u, node)
<1> DEFINE marked == {i \in DOMAIN u.variants :
                        There(node, Content) /\ u.variants[i].content = node[Content]}
           others == {i \in DOMAIN u.variants : u.variants[i].content = None}
           fallback == {i \in others : Guard(u.variants[i], node)}
<1>0. /\ marked \in SUBSET (Nat \ {0}) /\ fallback \in SUBSET (Nat \ {0})
      /\ HeldTakes(u, node) \in SUBSET (Nat \ {0})
  BY Positions DEF HeldTakes
<1>1. HeldArm(u, node) = First(HeldTakes(u, node))
  BY DEF HeldArm, HeldTakes
<1>2. There(node, Content) => node[Content] # None
  BY ValueAssumption DEF There, IsNode
<1>3. ASSUME NEW i \in DOMAIN u.variants
      PROVE  Taking(u.variants[i], node) <=> i \in marked \/ i \in fallback
  <2>1. IsVariant(u.variants[i]) /\ u.variants[i] \in Arms(u)
    BY Positions
  <2>2. CASE u.variants[i].content = None
    <3>1. Guard(u.variants[i], node) <=> Taking(u.variants[i], node)
      BY <2>1, <2>2, GuardIsTheParser
    <3>2. i \notin marked
      BY <1>2, <2>2
    <3> QED
      BY <2>2, <3>1, <3>2
  <2>3. CASE u.variants[i].content # None
    <3>1. u.variants[i].fields = {}
      BY <2>1, <2>3 DEF IsContent
    <3>2. u.variants[i].pins = {} /\ u.variants[i].gates = {}
      BY <2>3 DEF MarkersFirst
    <3>3. Taking(u.variants[i], node)
            <=> There(node, Content) /\ node[Content] = u.variants[i].content
      BY <2>3, <3>1, <3>2 DEF Taking, Held, Accepted, Gated
    <3> QED
      BY <2>3, <3>3
  <2> QED
    BY <2>2, <2>3
<1>4. HeldTakes(u, node) = marked \cup fallback
  BY <1>3 DEF HeldTakes
<1>5. CASE marked = {}
  <2>1. DecodeContent(u, node) = First(fallback)
    BY <1>5 DEF DecodeContent
  <2>2. HeldTakes(u, node) = fallback
    BY <1>4, <1>5
  <2> QED
    BY <1>0, <1>1, <2>1, <2>2, TakenIsTheArm
<1>6. CASE marked # {}
  <2>1. DecodeContent(u, node) = First(marked)
    BY <1>6 DEF DecodeContent
  <2>2. First(marked) \in marked /\ \A j \in marked : First(marked) <= j
    BY <1>0, <1>6, FirstIn
  <2>3. ASSUME NEW j \in fallback PROVE First(marked) <= j
    BY <2>2 DEF MarkersFirst
  <2> HIDE DEF marked, fallback
  <2>4. First(HeldTakes(u, node)) = First(marked)
    BY <1>0, <1>4, <2>2, <2>3, FirstIs
  <2> QED
    BY <1>0, <1>1, <2>1, <2>4, TakenIsTheArm
<1> QED
  BY <1>5, <1>6

\* An arm that is entered, alone by its pins, and not read is one no later arm
\* takes the node from.
LEMMA TagFollows ==
  ASSUME NEW u, IsUnion(u), CascadeTestsAll(u), NEW node, IsNode(node)
  PROVE  Taken(DecodeTag(u, node)) = HeldArm(u, node)
<1> DEFINE stops == {j \in DOMAIN u.variants :
                       /\ Entered(u.variants[j], node)
                       /\ ReadsAll(u.variants[j], node) \/ Unique(u, j)}
           i == First(stops)
<1>0. stops \in SUBSET (Nat \ {0}) /\ HeldTakes(u, node) \in SUBSET (Nat \ {0})
  BY Positions DEF HeldTakes
<1>1. HeldArm(u, node) = First(HeldTakes(u, node))
  BY DEF HeldArm, HeldTakes
<1>2. ASSUME NEW j \in DOMAIN u.variants
      PROVE  Taking(u.variants[j], node)
               <=> Entered(u.variants[j], node) /\ ReadsAll(u.variants[j], node)
  BY Positions, CascadeIsTheParser DEF CascadeTestsAll
<1>3. HeldTakes(u, node) = {j \in stops : ReadsAll(u.variants[j], node)}
  BY <1>2 DEF HeldTakes
<1>4. CASE stops = {}
  <2>1. i = 0 /\ DecodeTag(u, node) = 0 /\ HeldTakes(u, node) = {}
    BY <1>3, <1>4, FirstOfNone DEF DecodeTag
  <2> QED
    BY <1>1, <2>1, FirstOfNone DEF Taken, Rejected
<1>5. CASE stops # {}
  <2>1. i \in stops /\ (\A j \in stops : i <= j) /\ i # 0 /\ i \in Nat
    BY <1>0, <1>5, FirstIn
  <2>2. CASE ReadsAll(u.variants[i], node)
    <3>1. i \in HeldTakes(u, node) /\ \A j \in HeldTakes(u, node) : i <= j
      BY <1>3, <2>1, <2>2
    <3>2. DecodeTag(u, node) = i
      BY <2>2 DEF DecodeTag
    <3> HIDE DEF i, stops
    <3> QED
      BY <1>0, <1>1, <2>1, <3>1, <3>2, FirstIs DEF Taken, Rejected
  <2>3. CASE ~ReadsAll(u.variants[i], node)
    <3>1. DecodeTag(u, node) = Rejected
      BY <2>1, <2>3 DEF DecodeTag
    <3>2. ASSUME NEW j \in HeldTakes(u, node) PROVE FALSE
      <4>1. j \in stops /\ ReadsAll(u.variants[j], node) /\ Entered(u.variants[j], node)
        BY <1>3, <3>2
      <4>2. j > i /\ i \in DOMAIN u.variants /\ j \in DOMAIN u.variants
        BY <1>0, <2>1, <2>3, <4>1
      <4>3. Unique(u, i) /\ Entered(u.variants[i], node)
        BY <2>1, <2>3
      <4>4. PICK p \in u.variants[i].pins, q \in u.variants[j].pins :
              p.value # None /\ q.value # None /\ p.attr = q.attr /\ p.value # q.value
        BY <4>2, <4>3 DEF Unique
      <4>5. node[p.attr] = p.value /\ node[q.attr] = q.value
        BY <4>1, <4>3, <4>4 DEF Entered, Holds
      <4> QED
        BY <4>4, <4>5
    <3>3. HeldTakes(u, node) = {}
      BY <3>2
    <3> QED
      BY <1>1, <3>1, <3>3, FirstOfNone DEF Taken
  <2> QED
    BY <2>2, <2>3
<1> QED
  BY <1>4, <1>5

LEMMA DecodersTakeHeld ==
  ASSUME NEW u, IsUnion(u), NEW node, IsNode(node), Shape(u) # "none",
         Shape(u) = "content" => MarkersFirst(u) /\ \A v \in Arms(u) : ArmPayloadRepresentable(v),
         Shape(u) = "tag" => CascadeTestsAll(u)
  PROVE  Taken(Decode(Shape(u), u, node)) = HeldArm(u, node)
<1>1. CASE IsContent(u)
  <2>1. Shape(u) = "content" /\ Decode(Shape(u), u, node) = DecodeContent(u, node)
    BY <1>1 DEF Shape, Decode
  <2> QED
    BY <1>1, <2>1, ContentFollows
<1>2. CASE ~IsContent(u) /\ IsAttrDiscriminated(u)
  <2>1. Decode(Shape(u), u, node) = DecodeAttr(u, node)
    BY <1>2 DEF Shape, Decode
  <2> QED
    BY <1>2, <2>1, AttrFollows
<1>3. CASE ~IsContent(u) /\ ~IsAttrDiscriminated(u) /\ IsSameNode(u)
  <2>1. Decode(Shape(u), u, node) = DecodeSameNode(u, node)
    BY <1>3 DEF Shape, Decode
  <2> QED
    BY <1>3, <2>1, SameNodeFollows
<1>4. CASE ~IsContent(u) /\ ~IsAttrDiscriminated(u) /\ ~IsSameNode(u)
  <2>1. Shape(u) = "tag" /\ Decode(Shape(u), u, node) = DecodeTag(u, node)
    BY <1>4 DEF Shape, Decode
  <2> QED
    BY <2>1, TagFollows
<1> QED
  BY <1>1, <1>2, <1>3, <1>4

(* First success (union.rs:3-4): whichever shape a union is recognised as,   *)
(* its decoder takes the variant WhatsApp's parser takes, and none where     *)
(* that rejects the node, if no variant reads a negative integer of which    *)
(* nothing is declared; and it never takes one the parser would not accept.  *)
THEOREM DecodersFollowTheSource ==
  ASSUME NEW u, IsUnion(u), NEW node, IsNode(node), Shape(u) # "none",
         Shape(u) = "content" => MarkersFirst(u) /\ \A v \in Arms(u) : ArmPayloadRepresentable(v),
         Shape(u) = "tag" => CascadeTestsAll(u)
  PROVE  LET arm == Taken(Decode(Shape(u), u, node))
         IN  /\ (\A v \in Arms(u) : Held(v, node)) => arm = SourceArm(u, node)
             /\ arm # 0 => arm \in DOMAIN u.variants /\ Accepted(u.variants[arm], node)
<1> DEFINE arm == Taken(Decode(Shape(u), u, node))
<1>1. arm = First(HeldTakes(u, node))
  BY DecodersTakeHeld DEF HeldArm
<1> HIDE DEF arm
<1>2. ASSUME \A v \in Arms(u) : Held(v, node) PROVE arm = SourceArm(u, node)
  <2>1. HeldTakes(u, node) = {i \in DOMAIN u.variants : Accepted(u.variants[i], node)}
    BY <1>2, Positions DEF HeldTakes, Taking
  <2> QED
    BY <1>1, <2>1 DEF SourceArm
<1>3. ASSUME arm # 0 PROVE arm \in DOMAIN u.variants /\ Accepted(u.variants[arm], node)
  <2>1. HeldTakes(u, node) # {} /\ HeldTakes(u, node) \in SUBSET (Nat \ {0})
    BY <1>1, <1>3, FirstOfNone, Positions DEF HeldTakes
  <2>2. arm \in HeldTakes(u, node)
    BY <1>1, <2>1, FirstIn
  <2> QED
    BY <2>2 DEF HeldTakes, Taking
<1> QED
  BY <1>2, <1>3 DEF arm

-----------------------------------------------------------------------------
(* The unions a response declares *)

UnionsInv ==
  /\ declared.variants \in Seq(Pool)
  /\ Marked(declared) => MarkersFirst(declared) /\ \A v \in Arms(declared) : ArmPayloadRepresentable(v)
  /\ \A v \in Arms(declared) : v \in Pool

LEMMA ArmsOfOneMore ==
  ASSUME NEW u, u.variants \in Seq(Pool), NEW w, NEW v \in Pool,
         w.variants = Append(u.variants, v)
  PROVE  Arms(w) = Arms(u) \cup {v}
<1>1. /\ DOMAIN w.variants = DOMAIN u.variants \cup {Len(u.variants) + 1}
      /\ w.variants[Len(u.variants) + 1] = v
      /\ \A i \in DOMAIN u.variants : w.variants[i] = u.variants[i]
  OBVIOUS
<1>2. QED
  BY <1>1 DEF Arms

LEMMA AddStep ==
  ASSUME UnionsInv, NEW v \in Pool, Add(v)
  PROVE  UnionsInv'
<1> DEFINE n == Len(declared.variants)
<1>1. declared'.variants = Append(declared.variants, v)
  BY DEF Add
<1>2. /\ declared'.variants \in Seq(Pool)
      /\ DOMAIN declared'.variants = 1..(n + 1) /\ DOMAIN declared.variants = 1..n /\ n \in Nat
      /\ declared'.variants[n + 1] = v
      /\ \A i \in 1..n : declared'.variants[i] = declared.variants[i]
  BY <1>1 DEF UnionsInv
<1>3. Arms(declared') = Arms(declared) \cup {v}
  BY <1>1, ArmsOfOneMore DEF UnionsInv
<1> HIDE DEF n
<1>4. ASSUME Marked(declared')
      PROVE  MarkersFirst(declared') /\ \A w \in Arms(declared') : ArmPayloadRepresentable(w)
  <2>1. Marked(declared) \/ v.content # None
    BY <1>3, <1>4 DEF Marked
  <2>2. (\A w \in Arms(declared) : w.content # None) /\ ArmPayloadRepresentable(v)
    BY <2>1 DEF Add, MayFollow
  <2>3. \A i \in 1..n : declared.variants[i] \in Arms(declared)
    BY <1>2 DEF Arms
  <2>4. \A w \in Pool : w.content # None => w.pins = {} /\ w.gates = {}
    BY PoolAssumption
  <2>5. ASSUME NEW i \in 1..(n + 1)
        PROVE  IF declared'.variants[i].content = None THEN \A j \in 1..(n + 1) : j <= i
               ELSE declared'.variants[i].pins = {} /\ declared'.variants[i].gates = {}
    <3>1. CASE i = n + 1
      BY <1>2, <2>4, <3>1
    <3>2. CASE i \in 1..n
      BY <1>2, <2>2, <2>3, <2>4, <3>2 DEF UnionsInv
    <3>3. QED
      BY <1>2, <3>1, <3>2
  <2>6. MarkersFirst(declared')
    BY <1>2, <2>5 DEF MarkersFirst
  <2>7. ASSUME NEW w \in Arms(declared) PROVE ArmPayloadRepresentable(w)
    <3>1. Marked(declared)
      BY <2>2, <2>7 DEF Marked
    <3>2. QED
      BY <3>1 DEF UnionsInv
  <2>8. QED
    BY <1>3, <2>2, <2>6, <2>7
<1>5. QED
  BY <1>2, <1>3, <1>4 DEF UnionsInv

LEMMA UnionsInvHolds == UnionsSpec => []UnionsInv
<1>1. UnionsInit => UnionsInv
  BY DEF UnionsInit, UnionsInv, Arms, Marked
<1>2. UnionsInv /\ [UnionsNext]_declared => UnionsInv'
  <2>1. ASSUME UnionsInv, UnionsNext PROVE UnionsInv'
    BY <2>1, AddStep DEF UnionsNext
  <2>2. ASSUME UnionsInv, UNCHANGED declared PROVE UnionsInv'
    BY <2>2 DEF UnionsInv
  <2>3. QED
    BY <2>1, <2>2
<1>3. QED
  BY <1>1, <1>2, PTL DEF UnionsSpec

\* The nodes tried are nodes.
LEMMA NodesAreNodes ==
  ASSUME NEW node \in Node
  PROVE  IsNode(node)
<1>1. (CHOOSE value \in Value : TRUE) \in Value
  BY PoolAssumption
<1>2. PICK values, children : /\ values \in UNION {[places -> Value] : places \in SUBSET (Mentioned \ Child)}
                             /\ node = NodeWith(values, children)
  BY DEF Node
<1>3. PICK places : values \in [places -> Value]
  BY <1>2
<1>4. \A place \in DOMAIN node : node[place] \in Value
  BY <1>1, <1>2, <1>3 DEF NodeWith
<1>5. QED
  BY <1>4, PoolAssumption DEF IsNode

LEMMA DeclaredIsAUnion == UnionsInv => IsUnion(declared)
<1> SUFFICES ASSUME UnionsInv PROVE IsUnion(declared)
  OBVIOUS
<1>1. \A v \in Arms(declared) : IsVariant(v)
  BY PoolAssumption DEF UnionsInv
<1>2. DOMAIN declared.variants = 1..Len(declared.variants) /\ Len(declared.variants) \in Nat
  BY DEF UnionsInv
<1>3. QED
  BY <1>1, <1>2 DEF IsUnion

LEMMA ContentIsMarked == IsContent(declared) => Marked(declared)
BY DEF IsContent, Marked

LEMMA CascadeIsTested ==
  ASSUME UnionsInv, \A v \in Arms(declared) : v.tagged /\ v.fields # {}
  PROVE  CascadeTestsAll(declared)
<1>1. \A v \in Pool : v.tagged /\ v.fields # {} =>
        /\ v.content = None /\ \A pin \in v.pins : pin.value # None
        /\ \A leaf \in v.fields : PinFits(leaf)
  BY PoolAssumption
<1>2. QED
  BY <1>1 DEF CascadeTestsAll, UnionsInv

\* What the decoders' proofs need, a union that is generated has.
LEMMA GeneratedOnes ==
  ASSUME UnionsInv, Generated, NEW node \in Node
  PROVE  /\ IsNode(node) /\ IsUnion(declared) /\ Shape(declared) # "none"
         /\ Shape(declared) = "content" =>
              MarkersFirst(declared) /\ \A v \in Arms(declared) : ArmPayloadRepresentable(v)
         /\ Shape(declared) = "tag" => CascadeTestsAll(declared)
<1>1. IsNode(node) /\ IsUnion(declared)
  BY NodesAreNodes, DeclaredIsAUnion
<1>2. ASSUME Shape(declared) = "content"
      PROVE  MarkersFirst(declared) /\ \A v \in Arms(declared) : ArmPayloadRepresentable(v)
  <2>1. IsContent(declared)
    BY <1>2 DEF Shape
  <2>2. QED
    BY <2>1, ContentIsMarked DEF UnionsInv
<1>3. ASSUME Shape(declared) = "tag" PROVE CascadeTestsAll(declared)
  <2>1. \A v \in Arms(declared) : v.tagged /\ v.fields # {}
    BY <1>3 DEF Shape, IsTagDiscriminated
  <2>2. QED
    BY <2>1, CascadeIsTested
<1>4. Shape(declared) # "none"
  BY DEF Generated
<1>5. QED
  BY <1>1, <1>2, <1>3, <1>4

LEMMA DecodesOfThese == UnionsInv => DecodesAsSource
<1> SUFFICES ASSUME UnionsInv, Generated, NEW node \in Node
             PROVE  LET arm == Decode(Shape(declared), declared, node)
                    IN  /\ (\A v \in Arms(declared) : Held(v, node))
                             => SourceArm(declared, node) = IF arm = Rejected THEN 0 ELSE arm
                        /\ arm \notin {0, Rejected} => Accepted(declared.variants[arm], node)
  BY DEF DecodesAsSource
<1> DEFINE arm == Decode(Shape(declared), declared, node)
<1>1. /\ (\A v \in Arms(declared) : Held(v, node)) => Taken(arm) = SourceArm(declared, node)
      /\ Taken(arm) # 0 => Accepted(declared.variants[Taken(arm)], node)
  BY GeneratedOnes, DecodersFollowTheSource
<1> HIDE DEF arm
<1>2. QED
  BY <1>1 DEF Taken, arm

\* union.rs:3-4: of whatever variants a union is made, in whatever order, every
\* decoder generated for it takes the variant WhatsApp's parser takes, if none reads
\* a negative integer of which nothing is declared, and never one it does not accept.
THEOREM UnionsDecodeAsSource == UnionsSpec => []DecodesAsSource
BY UnionsInvHolds, DecodesOfThese, PTL

\* fields.rs:86-88: the guard and the plain read of any leaf of any variant take
\* what the accessor takes, but a negative number where nothing is declared.
THEOREM LeavesReadAlike == UnionsSpec => []LeafReadsAgree
<1>1. UnionsInv => LeafReadsAgree
  <2> SUFFICES ASSUME UnionsInv, NEW v \in Arms(declared), NEW leaf \in v.fields,
                      PayloadRepresentable(leaf), NEW node \in Node
               PROVE  /\ LeafGuard(leaf, node) <=> Accepts(leaf, node) /\ ~Narrowed(leaf, node)
                      /\ Reads(leaf, node) <=> Accepts(leaf, node) /\ ~Narrowed(leaf, node)
    BY DEF LeafReadsAgree
  <2>1. IsNode(node)
    BY NodesAreNodes
  <2>2. IsVariant(v)
    BY PoolAssumption DEF UnionsInv
  <2>3. IsLeaf(leaf) /\ ~Tolerates(leaf) /\ PinFits(leaf)
    BY <2>2 DEF IsVariant, PayloadRepresentable
  <2>4. QED
    BY <2>1, <2>3, GuardIsTheAccessor, ReadIsTheAccessor
<1>2. QED
  BY <1>1, UnionsInvHolds, PTL

-----------------------------------------------------------------------------
(* The arms of such a union *)

\* A node that has nothing but what a variant cannot do without.
Only(node, places) == [place \in (DOMAIN node) \cap places |-> node[place]]

Pinning(v) == {pin.attr : pin \in v.pins}

Needs(v) ==
  (Requires(v) \cup Pinning(v) \cup v.gates) \cup (IF v.content = None THEN {} ELSE {Content})

LEMMA LessIsANode ==
  ASSUME NEW node \in Node, NEW places
  PROVE  Only(node, places) \in Node
<1>1. PICK values, children :
        /\ values \in UNION {[at -> Value] : at \in SUBSET (Mentioned \ Child)}
        /\ children \in SUBSET (Mentioned \cap Child)
        /\ node = NodeWith(values, children)
  BY DEF Node
<1>2. PICK at \in SUBSET (Mentioned \ Child) : values \in [at -> Value]
  BY <1>1
<1> DEFINE fewer == [place \in at \cap places |-> values[place]]
<1>3. fewer \in UNION {[ps -> Value] : ps \in SUBSET (Mentioned \ Child)}
  <2>1. fewer \in [at \cap places -> Value]
    BY <1>2
  <2>2. at \cap places \in SUBSET (Mentioned \ Child)
    BY <1>2
  <2>3. QED
    BY <2>1, <2>2
<1>4. Only(node, places) = NodeWith(fewer, children \cap places)
  <2>1. DOMAIN node = at \cup children
    BY <1>1, <1>2 DEF NodeWith
  <2>2. DOMAIN Only(node, places) = (at \cap places) \cup (children \cap places)
    BY <2>1 DEF Only
  <2>3. DOMAIN NodeWith(fewer, children \cap places) = (at \cap places) \cup (children \cap places)
    BY DEF NodeWith
  <2>4. ASSUME NEW place \in (at \cap places) \cup (children \cap places)
        PROVE  Only(node, places)[place] = NodeWith(fewer, children \cap places)[place]
    BY <1>1, <1>2, <2>1, <2>4 DEF Only, NodeWith
  <2>5. QED
    BY <2>2, <2>3, <2>4 DEF Only, NodeWith
<1>5. children \cap places \in SUBSET (Mentioned \cap Child)
  BY <1>1
<1>6. QED
  BY <1>3, <1>4, <1>5 DEF Node

LEMMA NeededIsEnough ==
  ASSUME NEW w, NEW node, Accepted(w, node)
  PROVE  Accepted(w, Only(node, Needs(w)))
<1> DEFINE less == Only(node, Needs(w))
<1>1. /\ DOMAIN less = (DOMAIN node) \cap Needs(w)
      /\ \A place \in DOMAIN less : less[place] = node[place]
  BY DEF Only
<1>2. Gated(w, less)
  <2>1. ASSUME NEW pin \in w.pins PROVE Holds(pin, less)
    <3>1. Holds(pin, node) /\ pin.attr \in Needs(w)
      BY DEF Accepted, Gated, Needs, Pinning
    <3>2. QED
      BY <1>1, <3>1 DEF Holds, There
  <2>2. w.gates \subseteq DOMAIN less
    BY <1>1 DEF Accepted, Gated, Needs
  <2>3. QED
    BY <2>1, <2>2 DEF Gated
<1>3. w.content # None => There(less, Content) /\ less[Content] = w.content
  BY <1>1 DEF Accepted, Needs, There
<1>4. ASSUME NEW leaf \in w.fields PROVE Accepts(leaf, less)
  <2>1. Accepts(leaf, node)
    BY DEF Accepted
  <2>2. leaf.required => leaf.at \in Needs(w)
    BY DEF Needs, Requires
  <2>3. QED
    BY <1>1, <2>1, <2>2 DEF Accepts, There
<1>5. QED
  BY <1>2, <1>3, <1>4 DEF Accepted

\* What a variant requires and is not there it fails on.
LEMMA MissedIsRejected ==
  ASSUME NEW v, NEW node, Accepted(v, node)
  PROVE  Requires(v) \subseteq DOMAIN node
BY DEF Accepted, Requires, Accepts, There

LEMMA MissedInLess ==
  ASSUME Comparable, NEW v \in Arms(declared), NEW w \in Arms(declared), w.content = None,
         NEW place \in Requires(v) \ Requires(w), NEW node
  PROVE  ~Accepted(v, Only(node, Needs(w)))
<1>1. place \notin Needs(w)
  <2>1. Pinning(w) \cap Requires(v) \subseteq Requires(w) /\ w.gates \cap Requires(v) = {}
    BY DEF Comparable, Pinning
  <2>2. QED
    BY <2>1 DEF Needs
<1>2. place \notin DOMAIN Only(node, Needs(w))
  BY <1>1 DEF Only
<1>3. QED
  BY <1>2, MissedIsRejected

LEMMA InOrder ==
  ASSUME NEW u, NEW i \in DOMAIN u.variants, NEW j \in DOMAIN u.variants, j < i
  PROVE  <<u.variants[j], u.variants[i]>> \in Pairs(u)
<1> DEFINE n == DOMAIN u.variants
<1>1. <<j, i>> \in {xy \in n \X n : xy[1] < xy[2]}
  OBVIOUS
<1>2. QED
  BY <1>1 DEF Pairs

\* An arm that pins an attribute to another value rejects what this one takes.
LEMMA OtherValueIsRejected ==
  ASSUME NEW v, NEW w, NEW node, Accepted(w, node), NEW p \in v.pins, NEW q \in w.pins,
         p.attr = q.attr, p.value # None, q.value # None, p.value # q.value
  PROVE  ~Accepted(v, node)
BY DEF Accepted, Gated, Holds

\* What the later of two arms takes, down to what it needs, fails the earlier one.
EarlierFails(j, i, node) ==
  ~Accepted(declared.variants[j], Only(node, Needs(declared.variants[i])))

LEMMA EarlierFailsSameNode ==
  ASSUME UnionsInv, Comparable, IsSameNode(declared), NEW node,
         NEW i \in DOMAIN declared.variants, NEW j \in DOMAIN declared.variants, j < i
  PROVE  EarlierFails(j, i, node)
<1> DEFINE v == declared.variants[j]
           w == declared.variants[i]
<1>1. v \in Arms(declared) /\ w \in Arms(declared) /\ w.content = None
  BY DEF Arms, IsSameNode
<1>2. ~ShadowsByPresence(v, w)
  <2>1. <<v, w>> \in Pairs(declared)
    BY InOrder
  <2>2. QED
    BY <2>1 DEF IsSameNode
<1>3. PICK place \in RequiredAttrs(v) : place \notin RequiredAttrs(w)
  BY <1>2 DEF ShadowsByPresence
<1>4. place \in Requires(v) \ Requires(w)
  BY <1>3 DEF RequiredAttrs, Requires
<1>5. QED
  BY <1>1, <1>4, MissedInLess DEF EarlierFails

LEMMA EarlierFailsAttr ==
  ASSUME UnionsInv, IsAttrDiscriminated(declared), NEW node,
         NEW i \in DOMAIN declared.variants, NEW j \in DOMAIN declared.variants, j < i,
         Accepted(declared.variants[i], node)
  PROVE  EarlierFails(j, i, node)
<1> DEFINE v == declared.variants[j]
           w == declared.variants[i]
           less == Only(node, Needs(w))
<1>1. v \in Arms(declared) /\ w \in Arms(declared) /\ OnePin(v) /\ OnePin(w)
  BY DEF Arms, IsAttrDiscriminated
<1>2. Discriminator(v) = Discriminator(w) /\ v.pins # w.pins
  <2>1. <<v, w>> \in Pairs(declared)
    BY InOrder
  <2>2. QED
    BY <2>1 DEF IsAttrDiscriminated
<1>3. PICK p \in v.pins : v.pins = {p} /\ p.value # None
  BY <1>1 DEF OnePin
<1>4. PICK q \in w.pins : w.pins = {q} /\ q.value # None
  BY <1>1 DEF OnePin
<1>5. p.attr = q.attr
  BY <1>2, <1>3, <1>4 DEF Discriminator
<1>6. p.value # q.value
  <2>1. p \in [attr : Attribute, value : Int \cup Word \cup {None}]
    BY <1>1, PoolAssumption DEF UnionsInv, IsVariant
  <2>2. q \in [attr : Attribute, value : Int \cup Word \cup {None}]
    BY <1>1, PoolAssumption DEF UnionsInv, IsVariant
  <2>3. p # q
    BY <1>2, <1>3, <1>4
  <2>4. QED
    BY <1>5, <2>1, <2>2, <2>3
<1>7. Accepted(w, less)
  BY NeededIsEnough
<1>8. QED
  BY <1>3, <1>4, <1>5, <1>6, <1>7, OtherValueIsRejected DEF EarlierFails

LEMMA EarlierFailsContent ==
  ASSUME UnionsInv, IsContent(declared), NEW node,
         NEW i \in DOMAIN declared.variants, NEW j \in DOMAIN declared.variants, j < i,
         Accepted(declared.variants[i], node), AsNoOther(declared.variants[i], node)
  PROVE  EarlierFails(j, i, node)
<1> DEFINE v == declared.variants[j]
           w == declared.variants[i]
           less == Only(node, Needs(w))
<1>1. v \in Arms(declared) /\ w \in Arms(declared)
  BY DEF Arms
<1>2. v.content # None /\ v.content # w.content
  <2>1. MarkersFirst(declared)
    BY ContentIsMarked DEF UnionsInv
  <2>2. i \in Nat /\ j \in Nat
    BY DeclaredIsAUnion, Positions
  <2>3. v.content # None
    BY <2>1, <2>2 DEF MarkersFirst
  <2>4. <<v, w>> \in Pairs(declared)
    BY InOrder
  <2>5. QED
    BY <2>3, <2>4 DEF IsContent
<1>3. ASSUME Content \in DOMAIN less PROVE less[Content] # v.content
  <2>1. CASE w.content # None
    <3>1. Accepted(w, less)
      BY NeededIsEnough
    <3>2. QED
      BY <1>2, <2>1, <3>1 DEF Accepted
  <2>2. CASE w.content = None
    <3>1. Content \in Needs(w) /\ less[Content] = node[Content]
      BY <1>3 DEF Only
    <3>2. w.gates \subseteq Child /\ Pinning(w) \subseteq Attribute
      BY <1>1, PoolAssumption DEF UnionsInv, IsVariant, Pinning
    <3>3. Content \in Requires(w)
      BY <2>2, <3>1, <3>2, ValueAssumption DEF Needs
    <3>4. QED
      BY <1>1, <1>2, <3>1, <3>3 DEF AsNoOther
  <2>3. QED
    BY <2>1, <2>2
<1>4. QED
  BY <1>2, <1>3 DEF EarlierFails, Accepted, There

LEMMA EarlierFailsTag ==
  ASSUME UnionsInv, Comparable, IsTagDiscriminated(declared), NEW node,
         NEW i \in DOMAIN declared.variants, NEW j \in DOMAIN declared.variants, j < i,
         Accepted(declared.variants[i], node), AsNoOther(declared.variants[i], node)
  PROVE  EarlierFails(j, i, node)
<1> DEFINE v == declared.variants[j]
           w == declared.variants[i]
           less == Only(node, Needs(w))
<1>1. /\ v \in Arms(declared) /\ w \in Arms(declared)
      /\ v.content = None /\ w.content = None
      /\ \A pin \in v.pins \cup w.pins : pin.value # None
  <2>1. CascadeTestsAll(declared)
    BY CascadeIsTested DEF IsTagDiscriminated
  <2>2. QED
    BY <2>1 DEF Arms, CascadeTestsAll
<1>2. ~Shadows(v, w)
  <2>1. <<v, w>> \in Pairs(declared)
    BY InOrder
  <2>2. QED
    BY <2>1 DEF IsTagDiscriminated
<1>3. Accepted(w, less)
  BY NeededIsEnough
<1>4. /\ Pinning(v) \subseteq Attribute /\ Pinning(w) \subseteq Attribute
      /\ v.gates \subseteq Child /\ w.gates \subseteq Child
  BY <1>1, PoolAssumption DEF UnionsInv, IsVariant, Pinning
<1>5. CASE Conflict(v, w)
  BY <1>1, <1>3, <1>5, OtherValueIsRejected DEF Conflict, EarlierFails
<1>6. CASE ~Conflict(v, w)
  <2>1. PICK atom \in Signature(v) : atom \notin Signature(w)
    BY <1>2, <1>6 DEF Shadows
  <2>2. CASE atom \in {<<"pin", pin>> : pin \in {p \in v.pins : p.value # None}}
    <3>1. PICK p \in v.pins : p.value # None /\ atom = <<"pin", p>>
      BY <2>2
    <3>2. p \notin w.pins
      BY <2>1, <3>1 DEF Signature
    <3>3. SUFFICES ASSUME Holds(p, less) PROVE FALSE
      BY DEF EarlierFails, Accepted, Gated
    <3>4. p.attr \in Needs(w) /\ Holds(p, node)
      BY <3>3 DEF Holds, There, Only
    <3>5. p.attr \notin Requires(w)
      BY <1>1, <3>1, <3>2, <3>4 DEF AsNoOther
    <3>6. p.attr \notin w.gates
      BY <1>1, <1>4, <3>1, ValueAssumption DEF Pinning
    <3>7. PICK q \in w.pins : q.attr = p.attr
      BY <1>1, <3>4, <3>5, <3>6 DEF Needs, Pinning
    <3>8. p.value = q.value
      BY <1>6, <3>1, <3>7 DEF Conflict
    <3>9. /\ p \in [attr : Attribute, value : Int \cup Word \cup {None}]
          /\ q \in [attr : Attribute, value : Int \cup Word \cup {None}]
      BY <1>1, PoolAssumption DEF UnionsInv, IsVariant
    <3>10. QED
      BY <3>2, <3>7, <3>8, <3>9
  <2>3. CASE atom \in {<<"gate", tag>> : tag \in v.gates}
    <3>1. PICK tag \in v.gates : atom = <<"gate", tag>>
      BY <2>3
    <3>2. tag \notin w.gates
      BY <2>1, <3>1 DEF Signature
    <3>3. tag \notin Requires(w)
      BY <1>1 DEF Comparable
    <3>4. tag \notin Pinning(w)
      BY <1>1, <1>4, ValueAssumption DEF Pinning
    <3>5. tag \notin DOMAIN less
      BY <1>1, <3>2, <3>3, <3>4 DEF Only, Needs
    <3>6. QED
      BY <3>5 DEF EarlierFails, Accepted, Gated
  <2>4. CASE atom \in {<<"content", c>> : c \in {v.content} \ {None}}
    BY <1>1, <2>4
  <2>5. CASE atom \in {<<"read", leaf.at>> : leaf \in {l \in v.fields : l.required /\ l.at # Content}}
    <3>1. PICK leaf \in v.fields : leaf.required /\ leaf.at # Content /\ atom = <<"read", leaf.at>>
      BY <2>5
    <3>2. leaf.at \in Requires(v)
      BY <3>1 DEF Requires
    <3>3. leaf.at \notin Requires(w)
      BY <2>1, <3>1 DEF Signature, Requires
    <3>4. QED
      BY <1>1, <3>2, <3>3, MissedInLess DEF EarlierFails
  <2>6. QED
    BY <2>1, <2>2, <2>3, <2>4, <2>5 DEF Signature
<1>7. QED
  BY <1>5, <1>6

\* union.rs:22-23, 30-31: of a union a decoder is generated for no earlier arm
\* shadows a later one. Reduced to what it needs, the node a variant accepts is
\* one no variant before it accepts.
THEOREM ArmsAreReachable == UnionsSpec => []EveryArmIsReachable
<1>1. UnionsInv => EveryArmIsReachable
  <2> SUFFICES ASSUME UnionsInv, Generated, Comparable, NEW i \in DOMAIN declared.variants,
                      NEW node \in Node, Accepted(declared.variants[i], node),
                      Held(declared.variants[i], node), AsNoOther(declared.variants[i], node)
               PROVE  \E n \in Node : Decode(Shape(declared), declared, n) = i
    BY DEF EveryArmIsReachable
  <2> DEFINE less == Only(node, Needs(declared.variants[i]))
  <2>1. less \in Node /\ Accepted(declared.variants[i], less)
    BY LessIsANode, NeededIsEnough
  <2>2. ASSUME NEW j \in DOMAIN declared.variants, j < i
        PROVE  ~Accepted(declared.variants[j], less)
    <3>1. \/ IsContent(declared) \/ IsAttrDiscriminated(declared)
          \/ IsSameNode(declared) \/ IsTagDiscriminated(declared)
      BY DEF Generated, Shape
    <3>2. QED
      BY <2>2, <3>1, EarlierFailsContent, EarlierFailsAttr, EarlierFailsSameNode, EarlierFailsTag
        DEF EarlierFails
  <2>3. HeldArm(declared, less) = i
    <3>1. DOMAIN declared.variants \subseteq Nat \ {0}
      BY DeclaredIsAUnion, Positions
    <3> DEFINE takes == {j \in DOMAIN declared.variants : Taking(declared.variants[j], less)}
    <3>2. i \in takes /\ takes \in SUBSET (Nat \ {0})
      <4>1. Held(declared.variants[i], less)
        BY DEF Held, Narrowed, Only, There
      <4>2. QED
        BY <2>1, <3>1, <4>1 DEF Taking
    <3>3. ASSUME NEW j \in takes PROVE i <= j
      <4>1. ~(j < i)
        BY <2>2 DEF Taking
      <4>2. QED
        BY <3>1, <4>1
    <3>4. First(takes) = i
      BY <3>2, <3>3, FirstIs
    <3>5. QED
      BY <3>4 DEF HeldArm, HeldTakes
  <2>4. Decode(Shape(declared), declared, less) = i
    <3>1. i # 0
      BY DeclaredIsAUnion, Positions
    <3>2. Taken(Decode(Shape(declared), declared, less)) = i
      BY <2>1, <2>3, GeneratedOnes, DecodersTakeHeld
    <3>3. QED
      BY <3>1, <3>2 DEF Taken
  <2>5. QED
    BY <2>1, <2>4
<1>2. QED
  BY <1>1, UnionsInvHolds, PTL

=============================================================================
