--------------------------- MODULE CallerProgram ---------------------------
(***************************************************************************)
(* The bodies the presence pass of wa-mex reads, and what JavaScript does  *)
(* with them: the reference Presence is compared with.                     *)
(*                                                                         *)
(* A body is a sequence of statements over a few variables, a block is one *)
(* in braces; a value is "defined" or "undefined", which is all presence   *)
(* tells apart, and a `let` holds "unborn" before its declaration runs.    *)
(* Conditions are not decided and write nothing.                           *)
(***************************************************************************)
EXTENDS Sequences, Naturals

CONSTANT Name  \* the variables

Leaf == {"defined", "undefined"}

(* Statements *)
Declare(x, v) == [op |-> "declare", x |-> x, v |-> v]   \* var x = !0, var x = void 0
Set(x, v) == [op |-> "set", x |-> x, v |-> v]           \* x = !0, x = void 0
Alias(x, y) == [op |-> "alias", x |-> x, y |-> y]       \* x = y
Var(x, y) == [op |-> "var", x |-> x, y |-> y]           \* var x = y
Bare(x) == [op |-> "bare", x |-> x]                     \* var x
Let(x, v) == [op |-> "let", x |-> x, v |-> v]           \* let x = !0
Call(x) == [op |-> "call", x |-> x]                     \* fetchQuery(op, {a: x})
Return == [op |-> "return"]
Break == [op |-> "break"]
If(then) == [op |-> "if", body |-> then]
IfElse(then, else) == [op |-> "ifelse", body |-> then, else |-> else]
While(body) == [op |-> "while", body |-> body]
DoWhile(body) == [op |-> "dowhile", body |-> body]
Iife(body) == [op |-> "iife", body |-> body]            \* (function () {...})()
Function(body) == [op |-> "function", body |-> body]    \* function f() {...}
\* The cases in order; default is the index of the one without a test, or 0.
Switch(cases, default) == [op |-> "switch", cases |-> cases, default |-> default]
\* A catch block, a finally block, or both.
TryCatch(body, handler) == [op |-> "try", body |-> body, handler |-> <<handler>>, finalizer |-> <<>>]
TryFinally(body, finalizer) == [op |-> "try", body |-> body, handler |-> <<>>, finalizer |-> <<finalizer>>]
TryBoth(body, handler, finalizer) ==
  [op |-> "try", body |-> body, handler |-> <<handler>>, finalizer |-> <<finalizer>>]

RECURSIVE Joined(_)
Joined(ss) == IF ss = <<>> THEN <<>> ELSE Head(ss) \o Joined(Tail(ss))

\* The blocks a statement holds, those of a function of its own left out.
BlocksOf(s) ==
  CASE s.op \in {"if", "while", "dowhile"} -> {s.body}
    [] s.op = "ifelse" -> {s.body, s.else}
    [] s.op = "switch" -> {s.cases[i] : i \in DOMAIN s.cases}
    [] s.op = "try" -> {s.body} \cup {s.handler[i] : i \in DOMAIN s.handler}
                                \cup {s.finalizer[i] : i \in DOMAIN s.finalizer}
    [] OTHER -> {}

LetNames(block) == {block[i].x : i \in {j \in DOMAIN block : block[j].op = "let"}}

\* The names declared with `var` at any depth.
RECURSIVE VarNames(_)
VarNames(ss) ==
  UNION {(IF ss[i].op \in {"declare", "var", "bare"} THEN {ss[i].x} ELSE {})
           \cup UNION {VarNames(block) : block \in BlocksOf(ss[i])} : i \in DOMAIN ss}

-----------------------------------------------------------------------------
(* The reference: from a set of stores, the stores with which a statement   *)
(* ends normally (n), breaks (b), returns (r), those it passes through, any *)
(* of which a throw can leave it with (t), and the values its calls send    *)
(* (c). Whether a condition holds, how often a loop runs and which case     *)
(* matches is open.                                                         *)

Ends(n, b, r, t, c) == [n |-> n, b |-> b, r |-> r, t |-> t, c |-> c]
Falls(S) == Ends(S, {}, {}, S, {})

\* Either of two outcomes; one after another, q being run from p.n.
Or(p, q) == Ends(p.n \cup q.n, p.b \cup q.b, p.r \cup q.r, p.t \cup q.t, p.c \cup q.c)
Then(p, q) == [Or(p, q) EXCEPT !.n = q.n]

\* The same with the names in L given back what s holds.
Outside(p, s, L) ==
  LET back(S) == {[x \in Name |-> IF x \in L THEN s[x] ELSE in[x]] : in \in S}
  IN  [p EXCEPT !.n = back(@), !.b = back(@), !.r = back(@), !.t = back(@)]

AnyOf(ends) ==
  Ends(UNION {p.n : p \in ends}, UNION {p.b : p \in ends}, UNION {p.r : p \in ends},
       UNION {p.t : p \in ends}, UNION {p.c : p \in ends})

RECURSIVE Run(_, _), RunAll(_, _), Iterations(_, _)

\* A scope of its own: the names in lets are not born yet, those in owned are
\* undefined, and what they hold outside comes back after it.
Fresh(st, lets, owned) ==
  [x \in Name |-> IF x \in lets THEN "unborn" ELSE IF x \in owned THEN "undefined" ELSE st[x]]

RunScope(ss, lets, owned, S) ==
  IF lets \cup owned = {} THEN RunAll(ss, S)
  ELSE AnyOf({Outside(RunAll(ss, {Fresh(st, lets, owned)}), st, lets \cup owned) : st \in S})

RunBlock(block, S) == RunScope(block, LetNames(block), {}, S)

\* The stores of S a read or a write of x does not throw in.
Born(S, x) == {st \in S : st[x] # "unborn"}

\* A loop body run again and again until no store is new; a break ends the loop.
Iterations(body, S) ==
  LET once == RunBlock(body, S)
  IN  IF once.n \subseteq S THEN Or(Falls(S), once) ELSE Or(once, Iterations(body, S \cup once.n))

Run(s, S) ==
  CASE s.op \in {"declare", "let"} -> Falls({[st EXCEPT ![s.x] = s.v] : st \in S})
    [] s.op = "set" -> Falls({[st EXCEPT ![s.x] = s.v] : st \in Born(S, s.x)})
    [] s.op \in {"alias", "var"} -> Falls({[st EXCEPT ![s.x] = st[s.y]] : st \in Born(S, s.y)})
    [] s.op = "call" -> LET T == Born(S, s.x) IN Ends(T, {}, {}, S, {st[s.x] : st \in T})
    [] s.op = "bare" -> Falls(S)
    [] s.op = "return" -> Ends({}, {}, S, S, {})
    [] s.op = "break" -> Ends({}, S, {}, S, {})
    [] s.op = "if" -> Or(RunBlock(s.body, S), Falls(S))
    [] s.op = "ifelse" -> Or(RunBlock(s.body, S), RunBlock(s.else, S))
    [] s.op = "while" ->
         LET p == Iterations(s.body, S) IN [p EXCEPT !.n = @ \cup p.b, !.b = {}]
    [] s.op = "dowhile" ->
         LET first == RunBlock(s.body, S)
             p == Then(first, Iterations(s.body, first.n))
         IN  [p EXCEPT !.n = @ \cup p.b, !.b = {}]
    [] s.op = "iife" ->
         LET p == RunScope(s.body, LetNames(s.body), VarNames(s.body), S)
         IN  [p EXCEPT !.n = @ \cup p.r, !.r = {}]
    [] s.op = "switch" ->
         LET from(i) == Joined(SubSeq(s.cases, i, Len(s.cases)))
             lets == LetNames(from(1))
             p == AnyOf({RunScope(from(i), lets, {}, S) : i \in DOMAIN s.cases}
                          \cup (IF s.default = 0 THEN {Falls(S)} ELSE {}))
         IN  [p EXCEPT !.n = @ \cup p.b, !.b = {}]
    [] s.op = "try" ->
         LET block == RunBlock(s.body, S)
             handled == IF s.handler = <<>> THEN block
                        ELSE Or(block, RunBlock(s.handler[1], block.t))
         IN  IF s.finalizer = <<>> THEN handled
             ELSE LET on(T) == RunBlock(s.finalizer[1], T)
                      normal == on(handled.n)
                      broken == on(handled.b)
                      returned == on(handled.r)
                      thrown == on(handled.t)
                  IN  Ends(normal.n,
                           normal.b \cup broken.b \cup broken.n \cup returned.b \cup thrown.b,
                           normal.r \cup broken.r \cup returned.r \cup returned.n \cup thrown.r,
                           handled.t \cup normal.t \cup broken.t \cup returned.t \cup thrown.t,
                           handled.c \cup normal.c \cup broken.c \cup returned.c \cup thrown.c)

RunAll(ss, S) ==
  IF ss = <<>> \/ S = {} THEN Falls(S)
  ELSE LET first == Run(Head(ss), S)
       IN  [Then(first, RunAll(Tail(ss), first.n)) EXCEPT !.t = @ \cup S]

\* What the calls of a function body can send.
Sent(body) == RunAll(body, {[x \in Name |-> "undefined"]}).c
=============================================================================
