--------------------------- MODULE ObjectLiteral ---------------------------
(***************************************************************************)
(* The object literals a caller hands to Relay, and what JavaScript and    *)
(* JSON.stringify make of them: the reference VariablesObject is compared  *)
(* with.                                                                   *)
(*                                                                         *)
(* An expression evaluates to a set of values, one for each outcome it     *)
(* leaves open. A name nobody bound holds anything but a function. A       *)
(* getter returns anything and may replace, on the object it is read from, *)
(* what is not read yet. Setters and symbols are left out.                 *)
(***************************************************************************)
EXTENDS Sequences, Naturals

(* Expressions *)
TrueLit == [k |-> "true"]                                     \* !0
FalseLit == [k |-> "false"]                                   \* !1
NullLit == [k |-> "null"]
VoidLit == [k |-> "undefined"]                                \* void 0
FunctionLit == [k |-> "function"]
Test == [k |-> "test"]                                        \* t === u
Result == [k |-> "call"]                                      \* f(t, u)
Identifier(name) == [k |-> "name", name |-> name]
Cond(a, b) == [k |-> "cond", a |-> a, b |-> b]                \* t ? a : b
Logical(op, a, b) == [k |-> "logical", op |-> op, a |-> a, b |-> b]
Literal(props) == [k |-> "literal", props |-> props]          \* {...}
List(items) == [k |-> "list", items |-> items]                \* [...]

(* Properties of a literal *)
Property(key, e) == [p |-> "init", key |-> key, e |-> e]      \* key: e
GetProperty(key) == [p |-> "get", key |-> key]                \* get key() {...}
SpreadProperty(e) == [p |-> "spread", e |-> e]                \* ...e
ComputedProperty(e) == [p |-> "computed", e |-> e]            \* [t]: e

-----------------------------------------------------------------------------
(* Values: a primitive, a function, an array, or an object with its entries *)
(* in the order their keys were first written.                              *)

Object(entries) == [k |-> "entries", entries |-> entries]
Array(items) == [k |-> "items", items |-> items]
Accessor == [k |-> "accessor"]

Entry(key, v) == [key |-> key, v |-> v]

\* What a name nobody bound may hold, and what a getter or a call may return.
Unseen ==
  {VoidLit, NullLit, TrueLit, Object(<<>>), Object(<<Entry("a", VoidLit), Entry("b", VoidLit)>>)}

Written(entries) == {entries[i].key : i \in DOMAIN entries}

\* A key keeps its place when it is written again.
Put(entries, key, v) ==
  IF key \in Written(entries)
  THEN [i \in DOMAIN entries |-> IF entries[i].key = key THEN Entry(key, v) ELSE entries[i]]
  ELSE Append(entries, Entry(key, v))

\* A getter that is read before the i-th entry.
RunsBefore(entries, i) == \E j \in 1..(i - 1) : entries[j].v = Accessor

\* All sequences with an element of each of the sets.
Choices(sets) ==
  {s \in [DOMAIN sets -> UNION {sets[i] : i \in DOMAIN sets}] : \A i \in DOMAIN sets : s[i] \in sets[i]}

\* {...v} over the entries: a getter is read, and what it left is copied.
Copied(source) ==
  Choices([i \in DOMAIN source |->
    IF source[i].v = Accessor THEN Unseen
    ELSE {source[i].v} \cup IF RunsBefore(source, i) THEN {VoidLit, TrueLit} ELSE {}])

RECURSIVE PutAll(_, _, _)
PutAll(entries, source, copy) ==
  IF source = <<>> THEN entries
  ELSE PutAll(Put(entries, Head(source).key, Head(copy)), Tail(source), Tail(copy))

RECURSIVE Evaluate(_, _), Build(_, _, _)

\* The values of an expression; bound says what the names of the module hold.
Evaluate(e, bound) ==
  CASE e.k \in {"true", "false", "null", "undefined", "function"} -> {e}
    [] e.k = "test" -> {TrueLit, FalseLit}
    [] e.k = "call" -> Unseen
    [] e.k = "name" -> IF e.name \in DOMAIN bound THEN bound[e.name] ELSE Unseen
    [] e.k = "cond" -> Evaluate(e.a, bound) \cup Evaluate(e.b, bound)
    [] e.k = "logical" ->
         LET left == Evaluate(e.a, bound)
             falsy == {v \in left : v.k \in {"undefined", "null", "false"}}
             goes_on == CASE e.op = "||" -> falsy
                          [] e.op = "&&" -> left \ falsy
                          [] e.op = "??" -> {v \in left : v.k \in {"undefined", "null"}}
         IN  (left \ goes_on) \cup IF goes_on = {} THEN {} ELSE Evaluate(e.b, bound)
    [] e.k = "list" -> {Array(s) : s \in Choices([i \in DOMAIN e.items |-> Evaluate(e.items[i], bound)])}
    [] e.k = "literal" -> {Object(entries) : entries \in Build(e.props, bound, {<<>>})}

\* The entries a literal is built to, from any of those in S.
Build(props, bound, S) ==
  IF props = <<>> THEN S
  ELSE LET p == Head(props)
           next == CASE p.p = "init" -> {Put(s, p.key, v) : s \in S, v \in Evaluate(p.e, bound)}
                     [] p.p = "get" -> {Put(s, p.key, Accessor) : s \in S}
                     [] p.p = "computed" ->
                          {Put(s, key, v) : s \in S, key \in {"a", "b", "other"}, v \in Evaluate(p.e, bound)}
                     [] p.p = "spread" ->
                          UNION {IF v.k = "entries"
                                 THEN {PutAll(s, v.entries, copy) : s \in S, copy \in Copied(v.entries)}
                                 ELSE S : v \in Evaluate(p.e, bound)}
       IN  Build(Tail(props), bound, next)

-----------------------------------------------------------------------------
(* The wire: what JSON.stringify writes for a value *)

Absent == [w |-> "absent"]
Present == [w |-> "leaf"]
Keys(at) == [w |-> "keys", at |-> at]
Items(seq) == [w |-> "items", items |-> seq]

\* A hook decides for the whole object.
HasHook(entries) ==
  \E i \in DOMAIN entries : entries[i].key = "toJSON" /\ entries[i].v.k \in {"function", "accessor"}

RECURSIVE Stringify(_)
Stringify(v) ==
  CASE v.k \in {"undefined", "function"} -> {Absent}
    [] v.k \in {"true", "false", "null"} -> {Present}
    [] v.k = "accessor" -> {Absent, Present}
    [] v.k = "items" ->
         {Items(s) : s \in Choices([i \in DOMAIN v.items |->
                              {IF w = Absent THEN Present ELSE w : w \in Stringify(v.items[i])}])}
    [] v.k = "entries" ->
         IF HasHook(v.entries) THEN {Absent, Present}
         ELSE {Keys([key \in Written(v.entries) |->
                       s[CHOOSE i \in DOMAIN v.entries : v.entries[i].key = key]]) :
                 s \in Choices([i \in DOMAIN v.entries |->
                         Stringify(v.entries[i].v)
                           \cup IF RunsBefore(v.entries, i) THEN {Absent, Present} ELSE {}])}

\* What is written at a key of something written.
At(wire, key) == IF wire.w = "keys" /\ key \in DOMAIN wire.at THEN wire.at[key] ELSE Absent
=============================================================================
