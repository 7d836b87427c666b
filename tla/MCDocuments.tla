----------------------------- MODULE MCDocuments -----------------------------
(***************************************************************************)
(* What is made of the documents, on small instances: the decoders of      *)
(* their unions (MCResponseUnion), the catalogue of their enums, and the   *)
(* report on two trees of them. One of the three in a behaviour.           *)
(***************************************************************************)
EXTENDS MCResponseUnion, EnumCatalogue, ContractDiff

CONSTANTS
  dom, dom2,       \* domains
  list, plain,     \* collections: identified by id, compared in order
  id, field,       \* keys of items
  i1, i2, x, y,    \* scalars
  waVersion,
  key1, key2       \* keys of the catalogue

VARIABLE scope

\* The collections that have an identity.
Identified == <<dom, list>> :> <<id>>

unions == <<style, declared>>

MCVariantLists == {<<>>, <<x>>, <<x, y>>}

-----------------------------------------------------------------------------
(* Reports: either all documents of a few items, or a few trees, reviews.  *)

Item(identity, value) == Object(id :> identity @@ field :> value)
ItemPool ==
  {Item(i1, x), Item(i1, y), Item(i2, x), Item(i2, Object(field :> x)), Object(id :> i2),
   Object(field :> x)}
Lists == {Array(items) : items \in BoundedSeq(ItemPool, 2)}
           \cup {Array(items) : items \in [1..3 -> {Item(i1, x), Item(i1, y), Item(i2, x)}]}
Documents ==
  {Object(list :> items @@ plain :> other @@ waVersion :> x) :
     items \in Lists, other \in {Array(<<x, y>>), Array(<<y, x>>)}}
  \cup {Object(list :> Array(items) @@ waVersion :> y) : items \in BoundedSeq(ItemPool, 1)}
  \cup {Object(plain :> Array(<<x>>)), Object(waVersion :> y), Object(list :> x), Array(<<x>>)}

Tree(files, schemas, release, set) ==
  [wa_version |-> release, lock |-> [wa_version |-> release, set_hash |-> set],
   files |-> files, recorded |-> files, schemas |-> schemas]

Plain(document) == Tree(dom :> document, <<>>, x, x)

\* A tree that has been published, and those that are generated next: of the same set
\* or another, the same release or another, with a value or a domain more; one was
\* edited, one has an older lock.
Small(value) == Object(list :> Array(<<Item(i1, value)>>))
Published == {Tree(dom :> Small(x), dom :> x, x, set) : set \in {x, y}}
Trees ==
  {Tree(dom :> Small(y), dom :> x, x, set) : set \in {x, y}}
  \cup {Tree(dom :> Object(list :> Array(<<Item(i1, y)>>) @@ plain :> x), dom :> x, x, x),
        Tree(dom :> Small(y), dom :> x, y, x),
        Tree(dom :> Small(y) @@ dom2 :> Small(x), dom :> y, x, x),
        [Tree(dom :> Small(x), dom :> x, x, x) EXCEPT !.files = dom :> Small(y)],
        [Tree(dom :> Small(x), dom :> x, x, x) EXCEPT !.lock.wa_version = y]}

NoReport ==
  /\ trees = <<Plain(Object(plain :> x)), Plain(Object(plain :> x))>>
  /\ report = Refused /\ reviews = <<>>

-----------------------------------------------------------------------------
ScopedInit ==
  \/ scope = "unions" /\ Init /\ NoEnums /\ NoReport
  \/ scope = "enums" /\ style = "leaf" /\ UnionsInit /\ NoEnums /\ NoReport
  \/ /\ scope = "deltas" /\ style = "leaf" /\ UnionsInit /\ NoEnums
     /\ \E old, new \in Documents : trees = <<Plain(old), Plain(new)>>
     /\ report = Refused /\ reviews = <<>>
  \/ /\ scope = "reviews" /\ style = "leaf" /\ UnionsInit /\ NoEnums
     /\ ReviewsInit

\* A bound of the search: of the reviews a diff refuses, one with one thing wrong
\* is written, and only first.
OneWrong ==
  \A i \in DOMAIN reviews' \ DOMAIN reviews :
    \/ reviews'[i].classification \in Label /\ reviews'[i].references
    \/ reviews = <<>> /\ (reviews'[i].classification \in Label \/ reviews'[i].references)

ScopedNext ==
  /\ UNCHANGED scope
  /\ \/ scope = "unions" /\ Next /\ UNCHANGED <<enums, reviewing>>
     \/ scope = "enums" /\ EnumsNext /\ UNCHANGED <<unions, reviewing>>
     \/ scope = "deltas" /\ Diff(FALSE) /\ UNCHANGED <<unions, enums>>
     \/ scope = "reviews" /\ ReviewsNext /\ OneWrong /\ UNCHANGED <<unions, enums>>

ScopedSpec == ScopedInit /\ [][ScopedNext]_<<scope, unions, enums, reviewing>>

=============================================================================
