-------------------------- MODULE VariablesObject --------------------------
(***************************************************************************)
(* wa-mex/src/presence.rs, the classification: of the object a call hands  *)
(* to Relay, which keys are always on the wire, at the top and below.      *)
(*                                                                         *)
(* A tree maps keys to nodes; a node is a verdict with a tree of its own   *)
(* and, for a list, the node of its elements. An opaque record is a path   *)
(* to an object that may hold more keys than those that were read.         *)
(* The diagnostics the pass counts on its way are left out.                *)
(***************************************************************************)
EXTENDS Presence, ObjectLiteral

(* Expression -> value *)

KeyProp(key, value) == [p |-> "key", key |-> key, value |-> value]
SpreadProp(value) == [p |-> "spread", value |-> value]
Unreadable == [p |-> "unreadable"]

\* What a literal decides about `a || b`, `a && b` and `a ?? b`.
FalsyLiteral(e) ==
  IF e.k \in {"false", "null", "undefined"} THEN "yes" ELSE IF e.k = "true" THEN "no" ELSE "open"

NullishLiteral(e) ==
  IF e.k \in {"null", "undefined"} THEN "yes"
  ELSE IF e.k \in {"true", "false", "function", "literal", "list"} THEN "no" ELSE "open"

SpreadsNothing(e) == e.k \in {"true", "false", "null", "undefined"}

RECURSIVE Convert(_)
ConvertProp(p) ==
  CASE p.p = "init" -> KeyProp(p.key, Convert(p.e))
    [] p.p = "get" -> KeyProp(p.key, Getter)
    [] p.p = "spread" -> SpreadProp(IF SpreadsNothing(p.e) THEN ObjectOf(<<>>) ELSE Convert(p.e))
    [] p.p = "computed" -> Unreadable

\* Literals nest less deep than MAX_DEPTH.
Convert(e) ==
  CASE e.k = "true" -> Truthy
    [] e.k \in {"false", "test"} -> Defined
    [] e.k = "null" -> NullValue
    [] e.k = "undefined" -> MaybeUndefined
    [] e.k = "function" -> Dropped
    [] e.k = "call" -> Unjudged
    [] e.k = "name" -> Ref(e.name)
    [] e.k = "cond" -> Both(Convert(e.a), Convert(e.b))
    [] e.k = "literal" -> ObjectOf([i \in DOMAIN e.props |-> ConvertProp(e.props[i])])
    [] e.k = "list" -> ArrayOf([i \in DOMAIN e.items |-> Convert(e.items[i])])
    [] e.k = "logical" ->
         LET takes_left == IF e.op = "??" THEN NullishLiteral(e.a) = "no"
                           ELSE FalsyLiteral(e.a) = IF e.op = "||" THEN "no" ELSE "yes"
             open == (IF e.op = "??" THEN NullishLiteral(e.a) ELSE FalsyLiteral(e.a)) = "open"
         IN  IF takes_left THEN Convert(e.a)
             ELSE IF ~open THEN Convert(e.b)
             ELSE CASE e.op = "||" -> OrElse(Convert(e.a), Convert(e.b))
                    [] e.op = "??" -> Coalesce(Convert(e.a), Convert(e.b))
                    [] e.op = "&&" -> AndThen(Convert(e.a), Convert(e.b))

-----------------------------------------------------------------------------
(* Trees *)

Node(presence) == [presence |-> presence, fields |-> NoNames, items |-> <<>>]

RECURSIVE Withdraw(_)
WithdrawAll(tree) == [key \in DOMAIN tree |-> Withdraw(tree[key])]

\* Everything under a node; an element of a list is no key and keeps its verdict.
RECURSIVE WithdrawChildren(_)
WithdrawChildren(node) ==
  [node EXCEPT !.fields = WithdrawAll(@), !.items = [i \in DOMAIN @ |-> WithdrawChildren(@[i])]]

Withdraw(node) == [WithdrawChildren(node) EXCEPT !.presence = Weaker(@, Undetermined)]

Weakened(node, floor) == [node EXCEPT !.presence = Weaker(@, floor)]

RECURSIVE MergeNodes(_, _)
\* A key one of two sites writes is a key the client can leave off.
MergeSites(a, b) ==
  [key \in DOMAIN a \cup DOMAIN b |->
     IF key \in DOMAIN a \cap DOMAIN b THEN MergeNodes(a[key], b[key])
     ELSE Weakened(IF key \in DOMAIN a THEN a[key] ELSE b[key], Conditional)]

MergeItems(a, b) ==
  IF a # <<>> /\ b # <<>> THEN <<MergeNodes(a[1], b[1])>>
  ELSE [i \in DOMAIN (a \o b) |-> WithdrawChildren((a \o b)[i])]

MergeNodes(a, b) ==
  [presence |-> Weaker(a.presence, b.presence),
   fields |-> MergeSites(a.fields, b.fields),
   items |-> MergeItems(a.items, b.items)]

-----------------------------------------------------------------------------
(* Classification *)

\* A value that could be a function, which is what a toJSON is called for.
RECURSIVE MayBeCalled(_, _, _)
CalledIf(w, v, depth) ==
  IF v.k \in {"either", "orelse", "coalesce", "andthen"}
  THEN \E operand \in {v.a, v.b} : MayBeCalled(w, operand, depth + 1)
  ELSE v.k \notin {"defined", "truthy", "null", "object", "array"}

MayBeCalled(w, value, depth) == depth >= MAX_DEPTH \/ CalledIf(w, Resolve(w, value, 0), depth)

IsHook(w, prop, depth) ==
  prop.p = "key" /\ prop.key = "toJSON" /\ MayBeCalled(w, prop.value, depth)

HoldsHook(w, props, depth) == \E i \in DOMAIN props : IsHook(w, props[i], depth)

\* Where each key stands that is an accessor once the literal is built: where it
\* was written first.
StandingGetters(props) ==
  LET at(key) == {i \in DOMAIN props : props[i].p = "key" /\ props[i].key = key}
      keys == {props[i].key : i \in {j \in DOMAIN props : props[j].p = "key"}}
  IN  {CHOOSE i \in at(key) : \A j \in at(key) : i <= j :
         key \in {x \in keys : props[Innermost(at(x))].value = Getter}}

Carries(w, arm) == LET r == Resolve(w, arm, 0) IN r.k = "object" /\ r.props # <<>>

\* The object a spread copies from, and whether a condition gates it; v is what
\* the spread value is bound to.
SpreadSource(w, value, v) ==
  CASE v.k = "andthen" -> [source |-> v.b, gated |-> TRUE]
    [] v.k = "either" ->
         [source |-> IF Carries(w, v.a) = Carries(w, v.b) THEN value
                     ELSE CHOOSE arm \in {v.a, v.b} : Carries(w, arm),
          gated |-> TRUE]
    [] OTHER -> [source |-> v, gated |-> FALSE]

Here == [path |-> <<>>, written |-> {}]
Below(step, records) == [i \in DOMAIN records |-> [records[i] EXCEPT !.path = <<step>> \o @]]

WriteAnything_opaque(s) ==  \* mutant: it adds keys and overwrites none
  [s EXCEPT !.opaque = Append(@, Here)]

\* An expression that may write any key, over all that was written.
WriteAnything(s) == [s EXCEPT !.opaque = Append(@, Here), !.out = WithdrawAll(@)]

Exposed_never(s, key) == FALSE  \* mutant: a getter leaves the keys below it alone

\* A getter above runs while the key is written, unless the key was first
\* written above the getter.
Exposed(s, key) == s.runs /\ key \notin s.already

\* What is read so far: s.out and s.opaque, s.runs that a getter runs from here
\* on, s.already the keys it comes too late for.
Nothing == [out |-> NoNames, opaque |-> <<>>, runs |-> FALSE, already |-> {}]

\* A key whose value was read as a node, with opaque records.
WriteKey(s, key, read) ==
  [s EXCEPT !.opaque = @ \o Below(key, read.opaque),
            !.out = (key :> IF Exposed(s, key) THEN Withdraw(read.node) ELSE read.node) @@ @]

\* The keys of an object spread into this one.
CopiedKeys(s, tree, floor) ==
  [key \in DOMAIN tree |->
     IF Exposed(s, key) THEN Withdraw(tree[key]) ELSE Weakened(tree[key], floor)]

WriteSpread(s, inner, floor) ==
  [s EXCEPT !.opaque = @ \o inner.opaque, !.out = CopiedKeys(s, inner.tree, floor) @@ @]

RECURSIVE ClassifyObject(_, _, _)

ClassifySpread(w, spread, depth, s) ==
  LET source == Resolve(w, spread.source, 0)
  IN  CASE spread.source = Ref("undefined") /\ Lookup(w, "undefined") = None -> s
        [] source.k = "object" ->
             WriteSpread(s, ClassifyObject(w, source.props, depth + 1),
                         IF spread.gated THEN Conditional ELSE Always)
        [] OTHER -> WriteAnything(s)

\* The elements of a list, folded the way two sites are: fields is <<>> until one
\* was read, unreadable that some could not be.
NoElements == [fields |-> <<>>, unreadable |-> FALSE, opaque |-> <<>>]

AddElement(s, read) ==
  [s EXCEPT !.opaque = @ \o Below("[]", read.opaque),
            !.fields = IF @ = <<>> THEN <<read.tree>> ELSE <<MergeSites(@[1], read.tree)>>]

ClassifyElement(w, element, depth, s) ==
  IF element.k \notin {"object", "null"} THEN [s EXCEPT !.unreadable = TRUE]
  ELSE AddElement(s, ClassifyObject(w, IF element.k = "null" THEN <<>> ELSE element.props, depth + 1))

RECURSIVE ClassifyItems(_, _, _, _)
ClassifyItems(w, items, depth, s) ==
  IF items = <<>> THEN s
  ELSE ClassifyItems(w, Tail(items), depth,
                     ClassifyElement(w, Resolve(w, Head(items), 0), depth, s))

WithFields(node, inner, hooked) ==
  LET whole == [node EXCEPT !.fields = inner.tree]
  IN  [node |-> IF hooked THEN Withdraw(whole) ELSE whole, opaque |-> inner.opaque]

WithItems(node, read) ==
  LET item == [Node(Always) EXCEPT !.fields = read.fields[1]]
  IN  [node |-> IF read.fields = <<>> THEN node
                ELSE [node EXCEPT !.items = <<IF read.unreadable THEN WithdrawChildren(item) ELSE item>>],
       opaque |-> read.opaque]

\* Two values can reach the key: below it they are two sites.
WithArms(node, left, right) ==
  [node |-> [MergeNodes(left.node, right.node) EXCEPT !.presence = node.presence],
   opaque |-> left.opaque \o right.opaque]

RECURSIVE ClassifyValue(_, _, _)
\* leaf is the node of the value's own verdict, v what the value is bound to.
ClassifyBound(w, leaf, v, depth) ==
  IF depth >= MAX_DEPTH THEN [node |-> leaf, opaque |-> <<>>]
  ELSE CASE v.k = "object" ->
              WithFields(leaf, ClassifyObject(w, v.props, depth + 1), HoldsHook(w, v.props, depth))
         [] v.k = "array" -> WithItems(leaf, ClassifyItems(w, v.items, depth, NoElements))
         [] v.k = "either" ->
              WithArms(leaf, ClassifyValue(w, v.a, depth), ClassifyValue(w, v.b, depth))
         [] OTHER -> [node |-> leaf, opaque |-> <<>>]

ClassifyValue(w, value, depth) ==
  ClassifyBound(w, Node(Definedness(w, value, 0)), Resolve(w, value, 0), depth)

ClassifyProp(w, prop, depth, s) ==
  CASE prop.p = "unreadable" \/ IsHook(w, prop, depth) -> WriteAnything(s)
    [] prop.p = "spread" ->
         ClassifySpread(w, SpreadSource(w, prop.value, Resolve(w, prop.value, 0)), depth, s)
    [] OTHER ->
         IF prop.value = Getter
         THEN [s EXCEPT !.opaque = Append(@, Here), !.out = (prop.key :> Node(Undetermined)) @@ @]
         ELSE WriteKey(s, prop.key, ClassifyValue(w, prop.value, depth))

\* From the property on where a getter stands, its code may be running.
Begin(s, stands) ==
  IF ~s.runs /\ stands THEN [s EXCEPT !.runs = TRUE, !.already = DOMAIN s.out] ELSE s

RECURSIVE ClassifyProps(_, _, _, _, _)
ClassifyProps(w, props, depth, i, s) ==
  IF i > Len(props) THEN s
  ELSE ClassifyProps(w, props, depth, i + 1,
         ClassifyProp(w, props[i], depth, Begin(s, i \in StandingGetters(props))))

\* A hook takes every key with it, those below it included.
Finish(s, hooked) ==
  [tree |-> IF hooked THEN WithdrawAll(s.out) ELSE s.out,
   opaque |-> [i \in DOMAIN s.opaque |->
                 IF s.opaque[i].path = <<>> /\ ~hooked
                 THEN [s.opaque[i] EXCEPT !.written = DOMAIN s.out] ELSE s.opaque[i]]]

ClassifyObject(w, props, depth) ==
  IF depth >= MAX_DEPTH THEN [tree |-> NoNames, opaque |-> <<Here>>]
  ELSE Finish(ClassifyProps(w, props, depth, 1, Nothing), HoldsHook(w, props, depth))

-----------------------------------------------------------------------------
(* The sites of an operation *)

Unread == [site |-> <<>>, opaque |-> <<>>]

AsSite(read) == [site |-> <<read.tree>>, opaque |-> read.opaque]

\* The object of one call, or of one arm of it: no site if it cannot be read.
BranchObject(w, v) == IF v.k = "object" THEN AsSite(ClassifyObject(w, v.props, 0)) ELSE Unread

EitherSite(left, right) ==
  [site |-> IF left.site = <<>> \/ right.site = <<>> THEN <<>>
            ELSE <<MergeSites(left.site[1], right.site[1])>>,
   opaque |-> left.opaque \o right.opaque]

BoundSite(w, v) ==
  IF v.k = "either"
  THEN EitherSite(BranchObject(w, Resolve(w, v.a, 0)), BranchObject(w, Resolve(w, v.b, 0)))
  ELSE BranchObject(w, v)

VariablesOf(w, value) == BoundSite(w, Resolve(w, value, 0))

\* The node a path leads to, its keys withdrawn but those written there.
RECURSIVE WithdrawAt(_, _, _)
WithdrawAt(node, path, written) ==
  IF path = <<>>
  THEN [node EXCEPT !.fields = [key \in DOMAIN @ |-> IF key \in written THEN @[key] ELSE Withdraw(@[key])],
                    !.items = [i \in DOMAIN @ |-> WithdrawChildren(@[i])]]
  ELSE IF Head(path) = "[]"
  THEN [node EXCEPT !.items = [i \in DOMAIN @ |-> WithdrawAt(@[i], Tail(path), written)]]
  ELSE IF Head(path) \in DOMAIN node.fields
  THEN [node EXCEPT !.fields[Head(path)] = WithdrawAt(@, Tail(path), written)]
  ELSE node

RECURSIVE WithdrawOpaque(_, _)
WithdrawOpaque(tree, records) ==
  IF records = <<>> THEN tree
  ELSE LET r == Head(records)
           reached == r.path # <<>> /\ r.path[1] \in DOMAIN tree
       IN  WithdrawOpaque(
             IF reached THEN [tree EXCEPT ![r.path[1]] = WithdrawAt(@, Tail(r.path), r.written)]
             ELSE tree,
             Tail(records))

\* The verdict of a declared name nobody wrote.
Unwritten(name, records) ==
  LET top == {i \in DOMAIN records : records[i].path = <<>>}
  IN  Node(IF top # {} /\ \A i \in top : name \notin records[i].written
           THEN Undetermined ELSE Conditional)

VerdictOf(name, tree, records) == IF name \in DOMAIN tree THEN tree[name] ELSE Unwritten(name, records)

RECURSIVE MergeAll(_)
MergeAll(sites) ==
  IF Len(sites) = 1 THEN sites[1] ELSE MergeSites(MergeAll(Pop(sites)), Top(sites))

Opaque(read) == Joined([i \in DOMAIN read |-> read[i].opaque])

Publish(sites, records, names, unreadable) ==
  LET tree == WithdrawOpaque(MergeAll(sites), records)
  IN  [name \in names |->
         IF sites = <<>> THEN Node(Undetermined)
         ELSE IF unreadable THEN Withdraw(VerdictOf(name, tree, records))
         ELSE VerdictOf(name, tree, records)]

\* variables_presence: the verdict of each declared name over all the calls, each
\* read by VariablesOf.
VariablesPresence(read, names) ==
  Publish(Joined([i \in DOMAIN read |-> read[i].site]), Opaque(read), names,
          \E i \in DOMAIN read : read[i].site = <<>>)
=============================================================================
