----------------------------- MODULE MCPresence -----------------------------
(***************************************************************************)
(* Presence on every body of a few statements, written bottom up: what was *)
(* written last can be put under a branch, a loop, a switch and so on. A   *)
(* dialect says which statements a body mixes, so that each is explored in *)
(* depth. In the dialect "objects" a body is what its calls hand over: the *)
(* properties of a literal, written the same way.                          *)
(***************************************************************************)
EXTENDS VariablesObject

CONSTANTS
  Dialects,   \* the dialects of the run
  MaxLeaves,  \* simple statements of a body, its declarations aside, or properties
  MaxForms,   \* statements of a body that enclose others
  Nested      \* a statement every arm of which writes may stand under another

VARIABLES dialect, declared, body, leaves, forms, called

vars == <<dialect, declared, body, leaves, forms, called>>

LeavesOf ==
  [branches |-> {Return},
   loops |-> {Return},
   cases |-> {Return},
   tries |-> {Return},
   objects |-> {},
   copies |-> {Var("x", "y"), Var("y", "x"), Set("y", "defined"), Set("y", "undefined")},
   aliases |-> {Alias("x", "y"), Alias("y", "x"), Set("y", "defined"), Set("y", "undefined")},
   scopes |-> {Let("x", "defined"), Let("x", "undefined")}]

FormsOf ==
  [branches |-> {"if", "ifelse"},
   loops |-> {"if", "while", "dowhile"},
   cases |-> {"if", "switch"},
   tries |-> {"if", "catch", "finally", "both"},
   objects |-> {},
   copies |-> {"if", "while"},
   aliases |-> {"if", "while", "iife"},
   scopes |-> {"if", "while", "iife"}]

\* How x and y are declared: before the body or, hoisted, after it.
Declarations ==
  {[before |-> <<Declare("x", v), Declare("y", v)>>, after |-> <<>>] : v \in Leaf}
  \cup {[before |-> <<Bare("x"), Declare("y", "defined")>>, after |-> <<>>],
        [before |-> <<>>, after |-> <<Declare("x", "defined"), Declare("y", "defined")>>]}

Init ==
  /\ dialect \in Dialects
  /\ declared \in Declarations \cup {[before |-> <<>>, after |-> <<>>]}
  /\ dialect = "objects" <=> declared = [before |-> <<>>, after |-> <<>>]
  /\ dialect = "scopes" => declared.before # <<>>
  /\ dialect \in {"tries", "copies", "aliases"} => declared.before # <<>> /\ declared.before[1].op = "declare"
  /\ body = <<>> /\ leaves = 0 /\ forms = 0 /\ called = FALSE

\* A statement that every way through it writes or leaves is the last word on
\* what it writes.
Exhaustive(s) ==
  \/ s.op = "ifelse"
  \/ s.op = "switch" /\ s.default # 0
  \/ s.op = "try" /\ (s.handler = <<>> \/ s.finalizer # <<>>)

HoldsExhaustive(ss) == \E i \in DOMAIN ss : Exhaustive(ss[i])

Front(k) == SubSeq(body, 1, Len(body) - k)
Back(k) == SubSeq(body, Len(body) - k + 1, Len(body))

-----------------------------------------------------------------------------
(* Statements *)

\* One call in a body, and none of the bodies that have no room left for it.
Write(s) ==
  /\ dialect # "objects"
  /\ leaves < MaxLeaves
  /\ body # <<>> => Top(body).op # "return"
  /\ s = Call("x") => ~called
  /\ leaves = MaxLeaves - 1 => called \/ s = Call("x")
  /\ leaves' = leaves + 1
  /\ called' = (called \/ s = Call("x"))
  /\ body' = Append(body, s)
  /\ UNCHANGED <<dialect, declared, forms>>

\* Put the last k statements under another.
Enclose(k, s) ==
  /\ forms < IF dialect = "cases" THEN MaxForms - 1 ELSE MaxForms
  /\ dialect # "objects" /\ ~Nested => ~HoldsExhaustive(Back(k))
  /\ forms' = forms + 1
  /\ body' = Append(Front(k), s)
  /\ UNCHANGED <<dialect, declared, leaves, called>>

EncloseInOne(form, k) ==
  /\ form \in FormsOf[dialect]
  /\ Enclose(k, CASE form = "if" -> If(Back(k))
                  [] form = "while" -> While(Back(k))
                  [] form = "dowhile" -> DoWhile(Back(k))
                  [] form = "iife" -> Iife(Back(k)))

EncloseInTwo(form, k, m) ==
  LET first == SubSeq(Back(k), 1, m)
      second == SubSeq(Back(k), m + 1, k)
  IN  /\ form \in FormsOf[dialect]
      /\ form = "finally" => \A i \in DOMAIN second : second[i].op \in {"set", "return"}
      /\ Enclose(k, CASE form = "ifelse" -> IfElse(first, second)
                      [] form = "catch" -> TryCatch(first, second)
                      [] form = "finally" -> TryFinally(first, second)
                      [] form = "both" -> TryBoth(first, <<>>, second))

EncloseInCases(k, m, leave, default) ==
  LET first == SubSeq(Back(k), 1, m) \o IF leave THEN <<Break>> ELSE <<>>
      second == SubSeq(Back(k), m + 1, k)
  IN  /\ "switch" \in FormsOf[dialect]
      /\ Enclose(k, Switch(<<first, second>>, default))

-----------------------------------------------------------------------------
(* Object literals *)

\* What the module binds x to.
Base == Literal(<<Property("b", TrueLit), Property("a", VoidLit)>>)

Inner == Literal(<<Property("b", TrueLit)>>)
Hook == Property("toJSON", FunctionLit)

Properties ==
  {Property("a", TrueLit), Property("a", VoidLit), Property("b", TrueLit), Property("a", Inner),
   GetProperty("a"), GetProperty("b"), Hook,
   SpreadProperty(Identifier("p")), SpreadProperty(Identifier("x")), ComputedProperty(VoidLit)}

\* Expressions whose value more than one operand decides: room for one more
\* property is all they leave.
Expressions ==
  {Logical(op, a, b) : op \in {"||", "&&", "??"},
                       a \in {TrueLit, FalseLit, NullLit, FunctionLit, Test, Result, Identifier("p"),
                              Cond(FunctionLit, FalseLit), Cond(NullLit, Test)},
                       b \in {TrueLit, VoidLit}}
    \cup {Cond(TrueLit, FunctionLit), Cond(NullLit, Test), Identifier("undefined"),
          List(<<Inner>>), List(<<Inner, NullLit>>), List(<<Inner, Identifier("p")>>)}

\* Between two calls, and between the arms of one: from here the next literal.
NextCall == [p |-> "next call"]
OtherArm == [p |-> "other arm"]
Separators == {NextCall, OtherArm}

\* What a body of properties has room for.
Room(more) == leaves + forms + (IF called THEN 1 ELSE 0) + more <= MaxLeaves + 1

\* No getter stands on a key that a spread or a computed key may have written.
Places(p) == p.p = "get" => \A i \in DOMAIN body : body[i].p \notin {"spread", "computed"}

WriteProperty(p, room) ==
  /\ dialect = "objects"
  /\ Places(p)
  /\ leaves + room <= MaxLeaves /\ Room(room)
  /\ leaves' = leaves + room
  /\ body' = Append(body, p)
  /\ UNCHANGED <<dialect, declared, forms, called>>

Separate(s) ==
  /\ dialect = "objects" /\ Room(1)
  /\ ~called
  /\ body # <<>>
  /\ called' = TRUE
  /\ body' = Append(body, s)
  /\ UNCHANGED <<dialect, declared, leaves, forms>>

Elements(ps) == {ps[i] : i \in DOMAIN ps}
OneLiteral(ps) == Elements(ps) \cap Separators = {}

\* Put the last k properties, as one literal or as two, under a key or a spread.
EncloseInKey(k, m) ==
  LET first == Literal(SubSeq(Back(k), 1, m))
      second == IF m = k THEN NullLit ELSE Literal(SubSeq(Back(k), m + 1, k))
  IN  /\ dialect = "objects" /\ Room(1)
      /\ OneLiteral(Back(k))
      /\ \E e \in {first, List(<<first, second>>), Cond(first, second)} :
           /\ e.k = "cond" => Hook \notin Elements(Back(k))
           /\ Enclose(k, Property("a", e))

\* Nothing of their literal is written before the last k properties.
Begins(k) == \A i \in DOMAIN body : i = Len(body) - k => body[i] \in Separators

HoldsLiteral(ps) ==
  \E i \in DOMAIN ps : ps[i].p \in {"init", "spread"} /\ ps[i].e.k \in {"literal", "list", "cond", "logical"}

EncloseInSpread(k) ==
  /\ dialect = "objects" /\ Room(1)
  /\ OneLiteral(Back(k))
  /\ Elements(Back(k)) \cap {Hook, SpreadProperty(Identifier("p")), ComputedProperty(VoidLit)} = {}
  /\ \E e \in {Literal(Back(k)), Logical("&&", Test, Literal(Back(k))),
               Cond(Literal(Back(k)), Literal(<<>>))} :
       /\ e.k # "literal" /\ HoldsLiteral(Back(k)) => Begins(k)
       /\ Enclose(k, SpreadProperty(e))

Next ==
  \/ \E p \in Properties : WriteProperty(p, 1)
  \/ \E e \in Expressions : WriteProperty(Property("a", e), 2)
  \/ \E s \in Separators : Separate(s)
  \/ \E k \in 1..Len(body) : \E m \in 1..k : EncloseInKey(k, m)
  \/ \E k \in 1..Len(body) : EncloseInSpread(k)
  \/ \E s \in LeavesOf[dialect] \cup {Call("x"), Set("x", "defined"), Set("x", "undefined")} :
       Write(s)
  \/ \E form \in {"if", "while", "dowhile", "iife"}, k \in 1..Len(body) : EncloseInOne(form, k)
  \/ \E form \in {"ifelse", "catch", "finally", "both"}, k \in 1..Len(body) :
       \E m \in 0..k : EncloseInTwo(form, k, m)
  \/ \E k \in 1..Len(body), leave \in BOOLEAN, default \in 0..2 :
       \E m \in 0..k : EncloseInCases(k, m, leave, default)

Spec == Init /\ [][Next]_vars

-----------------------------------------------------------------------------
(* Properties *)

\* The blocks of a statement, that of a function called in place included.
InnerBodies(s) == IF s.op = "iife" THEN {s.body} ELSE BlocksOf(s)

Whole == declared.before \o body \o declared.after

\* The walk inside a function of a module that says `var x = {...}`.
InModule == WriteFrame(PushFrame(Start, NoNames, TRUE), 1, "x", Convert(Base))

BoundNames == "x" :> Evaluate(Base, <<>>)

\* What the calls hand over: one literal, two by two calls (the second is p if
\* nothing is written), or one of two.
Handed ==
  LET at == CHOOSE i \in DOMAIN body : body[i] \in Separators
      first == Literal(SubSeq(body, 1, at - 1))
      second == Literal(SubSeq(body, at + 1, Len(body)))
  IN  IF ~called THEN <<Literal(body)>>
      ELSE IF body[at] = OtherArm THEN <<Cond(first, second)>>
      ELSE IF at = Len(body) THEN <<first, Identifier("p")>> ELSE <<first, second>>

Readings == [i \in DOMAIN Handed |-> VariablesOf(InModule, Convert(Handed[i]))]

Wires == UNION {UNION {Stringify(v) : v \in Evaluate(Handed[i], BoundNames)} : i \in DOMAIN Handed}

\* The node says always of nothing that the wire can lack, at any depth.
RECURSIVE HoldsOf(_, _)
HoldsOf(node, wire) ==
  IF wire = Absent THEN node.presence # Always
  ELSE /\ \A key \in DOMAIN node.fields : HoldsOf(node.fields[key], At(wire, key))
       /\ \A i \in DOMAIN node.items :
            \A element \in (IF wire.w = "items" THEN {wire.items[j] : j \in DOMAIN wire.items}
                            ELSE {wire}) : HoldsOf(node.items[i], element)

\* Of two literals, none may hold more keys than were read while the keys below
\* a key are published.
Separable(readings, published) ==
  called /\ (\E key \in DOMAIN published : DOMAIN published[key].fields # {} \/ published[key].items # <<>>)
    => \A record \in Elements(Opaque(readings)) : record.path # <<>>

\* A gate opens on nothing that was written before it, and no `&&` has a choice on
\* its left: of these the pass says conditional though the key is always there.
Plain(p) ==
  /\ p.p = "spread" => p.e.k = "name"
  /\ p.p = "init" /\ p.e.k = "logical" => ~(p.e.op = "&&" /\ p.e.a.k = "cond")

WiresHold(readings, published, wires) ==
  Separable(readings, published)
    => \A key \in DOMAIN published, wire \in wires : HoldsOf(published[key], At(wire, key))

WiresWitness(published, wires) ==
  (\A p \in Elements(body) : Plain(p))
    => \A key \in DOMAIN published : published[key].presence = Conditional
         => \E wire \in wires : At(wire, key) = Absent

(* "Every recovered call site writes the key, with a value no JS evaluation *)
(* can make undefined" (wa-ir/src/mex.rs:54-57): where the pass says        *)
(* always, no path through the body calls with undefined, and no way to     *)
(* build and write a literal leaves the key off the wire. It is about the   *)
(* joins of scope, branch and loop, and about what a spread, an accessor, a *)
(* hook or a sibling call does to the keys around it: a value lost in one   *)
(* of them publishes as required a key some client requests do not have.    *)
AlwaysIsAlways ==
  IF dialect = "objects"
  THEN \E readings \in {Readings} :
         WiresHold(readings, VariablesPresence(readings, {"a", "b"}), Wires)
  ELSE Verdict(Read(Whole)) = Always => "undefined" \notin Sent(Whole)

(* "At least one recovered call site can leave the key off the wire"        *)
(* (wa-ir/src/mex.rs:58-61): of bodies of ifs and copies, and of plain      *)
(* literals, where the pass says conditional some path calls without the    *)
(* key, so that a join the code did not need is noticed too. Loops, cases,  *)
(* handlers and scopes, and names assigned under a branch to one another,   *)
(* may be read with values no path has; that is the side they err on.       *)
ConditionalIsWitnessed ==
  IF dialect = "objects"
  THEN WiresWitness(VariablesPresence(Readings, {"a", "b"}), Wires)
  ELSE /\ dialect \in {"branches", "copies"} \/ (dialect = "aliases" /\ forms = 0)
       /\ Verdict(Read(Whole)) = Conditional
       => "undefined" \in Sent(Whole)

\* The loops of a body, those in a function called in place included.
RECURSIVE LoopsOf(_)
LoopsOf(ss) ==
  UNION {(IF ss[i].op \in {"while", "dowhile"} THEN {ss[i]} ELSE {})
           \cup UNION {LoopsOf(inner) : inner \in InnerBodies(ss[i])} : i \in DOMAIN ss}

RECURSIVE Calls(_)
Calls(ss) ==
  \E i \in DOMAIN ss : ss[i].op = "call" \/ \E inner \in InnerBodies(ss[i]) : Calls(inner)

\* One loop, and the call is in it. (A call after a loop that was given up, and a
\* loop in a loop, may be read too optimistically, see README.md.)
CalledInItsLoop == \A s \in LoopsOf(Whole) : LoopsOf(s.body) = {} /\ Calls(s.body)

\* The pass when it gives up at once. That six readings do not settle a body takes
\* a chain of more names than are explored; that one does not takes two.
Hasty == INSTANCE Presence WITH MAX_PASSES <- 1

(* "A body still moving after MAX_PASSES is one whose calls this pass       *)
(* cannot claim to have read" (presence.rs:4143-4145): however few readings *)
(* the pass allows itself, it does not publish a key as always because it   *)
(* stopped before the iteration that leaves the key out.                    *)
GivenUpIsNotAlways ==
  dialect # "objects" /\ CalledInItsLoop /\ Hasty!Verdict(Hasty!Read(Whole)) = Always
    => "undefined" \notin Sent(Whole)
=============================================================================
