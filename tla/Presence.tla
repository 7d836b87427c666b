------------------------------ MODULE Presence ------------------------------
(***************************************************************************)
(* wa-mex/src/presence.rs, the walk: which values can a name hold where a  *)
(* caller hands it to Relay? The pass reads a body in source order, with a *)
(* frame of bindings per scope, a log of writes per branch, and a second   *)
(* reading of what runs more than once; from the value it finds at a call  *)
(* it publishes whether the key is always on the wire.                     *)
(*                                                                         *)
(* The values the walk itself writes are the two leaves presence tells     *)
(* apart, a reference to a name, and Either of two values; the others are  *)
(* those of an object literal (VariablesObject). A parameter and a read    *)
(* are undefined alike. The state of the walk is a record:                 *)
(*   frames, hoisted, is_function   per scope, innermost last              *)
(*   branches, watched              logs of writes, innermost last         *)
(*   sites                          the verdict of each call read          *)
(*   replaying, unreadable          a second reading is on; it did not settle *)
(***************************************************************************)
EXTENDS CallerProgram, TLC

CONSTANTS
  MAX_DEPTH,   \* how far a chain of bindings is followed
  MAX_PASSES   \* how often a body that runs again is read again

ASSUME PassAssumption == MAX_DEPTH \in Nat \ {0} /\ MAX_PASSES \in Nat \ {0}

-----------------------------------------------------------------------------
(* Values *)

Defined == [k |-> "defined"]
MaybeUndefined == [k |-> "undefined"]
Ref(name) == [k |-> "ref", name |-> name]
Both(a, b) == [k |-> "either", a |-> a, b |-> b]
None == [k |-> "none"]

Truthy == [k |-> "truthy"]
NullValue == [k |-> "null"]
Dropped == [k |-> "dropped"]     \* a function, which JSON.stringify leaves out
Unjudged == [k |-> "unjudged"]
Getter == [k |-> "getter"]
ObjectOf(props) == [k |-> "object", props |-> props]
ArrayOf(items) == [k |-> "array", items |-> items]
OrElse(a, b) == [k |-> "orelse", a |-> a, b |-> b]
Coalesce(a, b) == [k |-> "coalesce", a |-> a, b |-> b]
AndThen(a, b) == [k |-> "andthen", a |-> a, b |-> b]

RECURSIVE ContainsArm(_, _)
ContainsArm(value, arm) ==
  \/ value = arm
  \/ value.k = "either" /\ (ContainsArm(value.a, arm) \/ ContainsArm(value.b, arm))

\* The join of two values one call can see.
Either(before, after) ==
  IF ContainsArm(before, after) THEN before
  ELSE IF ContainsArm(after, before) THEN after
  ELSE Both(before, after)

\* The join where either may be missing.
OneOf(a, b) == IF a = None THEN b ELSE IF b = None THEN a ELSE Either(a, b)

\* Verdicts, the weaker the greater.
Always == 0
Conditional == 1
Undetermined == 2
Weaker(p, q) == IF p >= q THEN p ELSE q

-----------------------------------------------------------------------------
(* Scopes *)

Top(seq) == seq[Len(seq)]
Pop(seq) == SubSeq(seq, 1, Len(seq) - 1)
ReplaceTop(seq, e) == Append(Pop(seq), e)

NoNames == [x \in {} |-> None]
Binds(table, x) == x \in DOMAIN table
Without(table, x) == [y \in DOMAIN table \ {x} |-> table[y]]

PushFrame(w, hoisted, is_function) ==
  [w EXCEPT !.frames = Append(@, NoNames), !.hoisted = Append(@, hoisted),
            !.is_function = Append(@, is_function)]

PopFrame(w) ==
  [w EXCEPT !.frames = Pop(@), !.hoisted = Pop(@), !.is_function = Pop(@)]

\* The innermost of some frames, 0 if there is none.
Innermost(frames) == IF frames = {} THEN 0 ELSE CHOOSE i \in frames : \A j \in frames : j <= i

FunctionFrame(w) == Innermost({i \in DOMAIN w.frames : w.is_function[i]})

\* An assignment updates the innermost binding, and makes one in the function
\* when there is none.
AssignmentFrame(w, x) ==
  LET bound == Innermost({i \in DOMAIN w.frames : Binds(w.frames[i], x)})
  IN  IF bound # 0 THEN bound ELSE FunctionFrame(w)

\* What frame i binds x to.
Bound(w, i, x) == IF Binds(w.frames[i], x) THEN w.frames[i][x] ELSE None

\* What frame i holds for x, its hoisted `undefined` included.
Held(w, i, x) ==
  IF Binds(w.frames[i], x) THEN w.frames[i][x]
  ELSE IF Binds(w.hoisted[i], x) THEN w.hoisted[i][x]
  ELSE None

Lookup(w, x) ==
  LET i == Innermost({j \in DOMAIN w.frames : Held(w, j, x) # None})
  IN  IF i = 0 THEN None ELSE Held(w, i, x)

Logged(log, i, x) == \E n \in DOMAIN log : log[n].frame = i /\ log[n].name = x

\* Log what x held before, in the branch being walked, unless it is there.
Log(w, i, x, before) ==
  IF w.branches = <<>> \/ Logged(Top(w.branches), i, x) THEN w
  ELSE [w EXCEPT !.branches =
          ReplaceTop(@, Append(Top(@), [frame |-> i, name |-> x, before |-> before]))]

\* Write x in frame i: every open watch sees the value, the innermost branch
\* what was there before.
WriteFrame(w, i, x, value) ==
  IF i \notin DOMAIN w.frames THEN w
  ELSE LET logged == Log(w, i, x, Held(w, i, x))
       IN  [logged EXCEPT
              !.watched = [n \in DOMAIN @ |->
                             Append(@[n], [frame |-> i, name |-> x, value |-> value])],
              !.frames[i] = (x :> value) @@ @]

\* Bind names as not set yet in the innermost frame.
BindAll(w, names) ==
  LET from[rest \in SUBSET names] ==
        IF rest = {} THEN w
        ELSE LET x == CHOOSE x \in rest : TRUE
             IN  WriteFrame(from[rest \ {x}], Len(w.frames), x, MaybeUndefined)
  IN  from[names]

\* detach_aliases: a name that refers to x keeps what x holds now.
DetachAliases(w, x) ==
  LET current == IF Lookup(w, x) = None THEN MaybeUndefined ELSE Lookup(w, x)
      aliases == {a \in (DOMAIN w.frames) \X Name :
                    Binds(w.frames[a[1]], a[2]) /\ w.frames[a[1]][a[2]] = Ref(x)}
      from[rest \in SUBSET aliases] ==
        IF rest = {} THEN w
        ELSE LET a == CHOOSE a \in rest : TRUE
             IN  WriteFrame(from[rest \ {a}], a[1], a[2], current)
  IN  from[aliases]

BindAssignment(w, x, value) ==
  LET d == DetachAliases(w, x) IN WriteFrame(d, AssignmentFrame(d, x), x, value)

\* Enter an arm another path reaches with these values.
RECURSIVE CarryValues(_, _)
CarryValues(w, values) ==
  IF values = <<>> THEN w
  ELSE LET v == Head(values)
           here == Held(w, v.frame, v.name)
       IN  CarryValues(IF v.frame \in DOMAIN w.frames
                       THEN WriteFrame(w, v.frame, v.name, OneOf(here, v.value)) ELSE w,
                       Tail(values))

Carry(w, exits) ==
  LET left == SelectSeq(exits, LAMBDA e : e.after # None)
  IN  CarryValues(w, [n \in DOMAIN left |->
        [frame |-> left[n].frame, name |-> left[n].name, value |-> left[n].after]])

Watch(w) == [w EXCEPT !.watched = Append(@, <<>>)]
Unwatch(w) == [w EXCEPT !.watched = Pop(@)]

EnterBranch(w) == [w EXCEPT !.branches = Append(@, <<>>)]

\* Put x of frame i back to what it was before.
Restored(w, i, x, before) ==
  [w EXCEPT !.frames[i] = IF before = None THEN Without(@, x) ELSE (x :> before) @@ @]

\* End a branch: what it left its names at, and the walk as it was before it.
RECURSIVE TakeBranch(_, _, _)
TakeBranch(w, log, exits) ==
  IF log = <<>> THEN [w |-> w, exits |-> exits]
  ELSE LET e == Head(log)
       IN  IF e.frame \notin DOMAIN w.frames THEN TakeBranch(w, Tail(log), exits)
           ELSE TakeBranch(Restored(w, e.frame, e.name, e.before), Tail(log),
                  Append(exits, [frame |-> e.frame, name |-> e.name, before |-> e.before,
                                 after |-> Bound(w, e.frame, e.name)]))

Take(w) == TakeBranch([w EXCEPT !.branches = Pop(@)], Top(w.branches), <<>>)

\* The exits of all arms, one per name: the values joined, and how many arms
\* wrote it.
RECURSIVE Merged(_, _)
Merged(exits, into) ==
  IF exits = <<>> THEN into
  ELSE LET e == Head(exits)
           at == {n \in DOMAIN into : into[n].frame = e.frame /\ into[n].name = e.name}
       IN  Merged(Tail(exits),
             IF at = {} THEN Append(into, e @@ [written |-> 1])
             ELSE LET n == CHOOSE n \in at : TRUE
                  IN  [into EXCEPT ![n].after = OneOf(@, e.after), ![n].written = @ + 1])

\* The value an exit leaves behind: joined with the one from before the statement
\* unless every path through the statement wrote it.
RECURSIVE ApplyExits(_, _, _)
ApplyExits(w, merged, sure) ==
  IF merged = <<>> THEN w
  ELSE LET e == Head(merged)
           before == IF e.written = sure THEN None ELSE e.before
       IN  ApplyExits(
             IF e.frame \notin DOMAIN w.frames \/ e.after = None THEN w
             ELSE Log([w EXCEPT !.frames[e.frame] = (e.name :> OneOf(before, e.after)) @@ @],
                      e.frame, e.name, before),
             Tail(merged), sure)

JoinAllArms_reachable(w, arms, exhaustive) ==  \* mutant: the value from before is never gone
  ApplyExits(w, Merged(Joined(arms), <<>>), 0)

JoinAllArms(w, arms, exhaustive) ==
  ApplyExits(w, Merged(Joined(arms), <<>>), IF exhaustive THEN Len(arms) ELSE 0)

LeaveBranch_unjoined(w) ==  \* mutant: what the branch wrote stands
  [w EXCEPT !.branches = Pop(@)]

\* End a branch, joining each name it wrote with what the path around it holds.
RECURSIVE LeaveLog(_, _)
LeaveLog(w, log) ==
  IF log = <<>> THEN w
  ELSE LET e == Head(log)
       IN  LeaveLog(
             IF e.frame \notin DOMAIN w.frames \/ e.before = None THEN w
             ELSE Log(IF Bound(w, e.frame, e.name) = None THEN w
                      ELSE [w EXCEPT !.frames[e.frame][e.name] = Either(e.before, @)],
                      e.frame, e.name, e.before),
             Tail(log))

LeaveBranch(w) == LeaveLog([w EXCEPT !.branches = Pop(@)], Top(w.branches))
-----------------------------------------------------------------------------
(* Classification *)

\* Follow a name to what it is bound to.
RECURSIVE Resolve(_, _, _)
Resolve(w, value, depth) ==
  IF value.k = "ref" /\ depth < MAX_DEPTH /\ Lookup(w, value.name) # None
  THEN Resolve(w, Lookup(w, value.name), depth + 1)
  ELSE value

\* Left operands that are the value of `a || b`, and of `a ?? b`.
StaysOf == [orelse |-> {"truthy", "object", "array"},
            coalesce |-> {"defined", "truthy", "object", "array"}]

\* Whether a value can evaluate to undefined.
RECURSIVE Definedness(_, _, _)

\* A logical expression is decided by what its left operand is known to be, one
\* arm of it at a time.
LogicalDefinedness(w, value, left, depth) ==
  LET of(v) == Definedness(w, v, depth + 1)
  IN  IF value.k = "andthen"
      THEN CASE left.k = "dropped" -> of(value.b)
             [] left.k = "null" -> Always
             [] OTHER -> Weaker(of(value.a), of(value.b))
      ELSE CASE left.k \in StaysOf[value.k] -> of(value.a)
             [] left.k = "dropped" -> Conditional
             [] left.k = "either" ->
                  Weaker(of([value EXCEPT !.a = left.a]), of([value EXCEPT !.a = left.b]))
             [] OTHER -> of(value.b)

Definedness(w, value, depth) ==
  IF depth >= MAX_DEPTH THEN Undetermined
  ELSE CASE value.k \in {"defined", "truthy", "null", "object", "array"} -> Always
         [] value.k \in {"undefined", "dropped", "none"} -> Conditional
         [] value.k \in {"unjudged", "getter"} -> Undetermined
         [] value.k = "either" -> Weaker(Definedness(w, value.a, depth + 1),
                                         Definedness(w, value.b, depth + 1))
         [] value.k = "ref" -> Definedness(w, Lookup(w, value.name), depth + 1)
         [] value.k \in {"orelse", "coalesce", "andthen"} ->
              LogicalDefinedness(w, value, Resolve(w, value.a, 0), depth)

\* The value with its bindings read now rather than later.
RECURSIVE Settle(_, _, _)
Settle(w, value, depth) ==
  LET of(v) == Settle(w, v, depth + 1)
  IN  IF depth >= MAX_DEPTH THEN value
      ELSE CASE value.k = "ref" /\ Lookup(w, value.name) # None -> of(Lookup(w, value.name))
             [] value.k \in {"either", "orelse", "coalesce", "andthen"} ->
                  [value EXCEPT !.a = of(@), !.b = of(@)]
             [] value.k = "object" ->
                  [value EXCEPT !.props = [i \in DOMAIN @ |->
                     IF @[i].p = "unreadable" THEN @[i] ELSE [@[i] EXCEPT !.value = of(@)]]]
             [] value.k = "array" -> [value EXCEPT !.items = [i \in DOMAIN @ |-> of(@[i])]]
             [] OTHER -> value

-----------------------------------------------------------------------------
(* The visitor *)

\* The statement ends the path it is on (how: by which statements).
RECURSIVE Leaves(_, _)
BlockLeaves(block, how) == block # <<>> /\ Leaves(Top(block), how)
Leaves(s, how) ==
  \/ s.op \in how
  \/ s.op = "ifelse" /\ BlockLeaves(s.body, how) /\ BlockLeaves(s.else, how)

always_leaves(s) == Leaves(s, {"break", "return"})
never_falls_through(block) == BlockLeaves(block, {"return"})

ValueOf(leaf) == IF leaf = "defined" THEN Defined ELSE MaybeUndefined
Hoist(names) == [x \in names |-> MaybeUndefined]

RECURSIVE Visit(_, _), VisitStatements(_, _), VisitBlock(_, _), VisitCases(_, _, _, _, _),
          ReadAgain(_, _, _)

VisitStatements(w, ss) ==
  IF ss = <<>> THEN w
  ELSE LET next == Visit(w, Head(ss))
       IN  IF always_leaves(Head(ss)) THEN next ELSE VisitStatements(next, Tail(ss))

VisitBlock(w, block) ==
  PopFrame(VisitStatements(PushFrame(w, Hoist(LetNames(block)), FALSE), block))

\* What runs more than once: the block of a loop, the body of a function.
ReadOnce(w, s) ==
  IF s.op = "function" THEN VisitStatements(w, s.body) ELSE VisitBlock(w, s.body)

ReadAgain_silent(w, s, passes) ==  \* mutant: what did not settle is not told
  LET next == ReadOnce(w, s)
  IN  IF next.frames = w.frames \/ passes = 1 THEN next ELSE ReadAgain(next, s, passes - 1)

\* Read it again until a reading changes no binding.
ReadAgain(w, s, passes) ==
  LET next == ReadOnce(w, s)
  IN  IF next.frames = w.frames THEN next
      ELSE IF passes = 1 THEN [next EXCEPT !.unreadable = @ + 1]
      ELSE ReadAgain(next, s, passes - 1)

\* Within a second reading there is no third. A body that does not settle counts
\* only if it holds a call.
ReadUntilItSettles(w, s) ==
  LET first == ReadOnce(EnterBranch(w), s)
      again == ReadAgain([first EXCEPT !.replaying = TRUE], s, MAX_PASSES)
      done == [again EXCEPT !.replaying = FALSE,
                            !.unreadable = IF Len(again.sites) > Len(first.sites) THEN @
                                           ELSE first.unreadable]
  IN  LeaveBranch(IF w.replaying THEN first ELSE done)

\* The arm of an if, from the walk as it is before the statement.
Arm(w, block) == Take(VisitBlock(EnterBranch(w), block))

VisitIf(w, s) ==
  IF never_falls_through(s.body) THEN Arm(w, s.body).w
  ELSE LeaveBranch(VisitBlock(EnterBranch(w), s.body))

VisitIfElse(w, s) ==
  LET first == Arm(w, s.body)
      second == Arm(first.w, s.else)
      returns == never_falls_through(s.body)
      returns_too == never_falls_through(s.else)
  IN  CASE returns /\ returns_too -> second.w
        [] returns /\ ~returns_too -> JoinAllArms(second.w, <<second.exits>>, TRUE)
        [] ~returns /\ returns_too -> JoinAllArms(second.w, <<first.exits>>, TRUE)
        [] OTHER -> JoinAllArms(second.w, <<first.exits, second.exits>>, TRUE)

\* The cases from the i-th on: falls is what the case above leaves to this one.
VisitCases(w, cases, i, falls, arms) ==
  IF i > Len(cases) THEN [w |-> w, arms |-> arms]
  ELSE LET arm == Take(VisitStatements(Carry(EnterBranch(w), falls), cases[i]))
           leaves == \E n \in DOMAIN cases[i] : always_leaves(cases[i][n])
       IN  VisitCases(arm.w, cases, i + 1, IF leaves THEN <<>> ELSE arm.exits,
                      Append(arms, arm.exits))

VisitSwitch(w, s) ==
  LET block == BindAll(PushFrame(w, NoNames, FALSE), LetNames(Joined(s.cases)))
      read == VisitCases(block, s.cases, 1, <<>>, <<>>)
  IN  PopFrame(JoinAllArms(read.w, read.arms, s.default # 0))

\* The finalizer is read from every state the statement passed through, and what
\* it leaves the names it wrote at stands.
VisitFinally(w, block, passed) ==
  LET read == VisitBlock(Watch(CarryValues(EnterBranch(w), passed)), block)
      wrote == SelectSeq(Top(read.watched), LAMBDA v : /\ v.frame \in DOMAIN read.frames
                                                          /\ Binds(read.frames[v.frame], v.name))
      back == Take(Unwatch(read)).w
      Rewrite[n \in 0..Len(wrote)] ==
        IF n = 0 THEN back
        ELSE WriteFrame(Rewrite[n - 1], wrote[n].frame, wrote[n].name,
                        read.frames[wrote[n].frame][wrote[n].name])
  IN  Rewrite[Len(wrote)]

\* The handler is read from the state before the block joined with every value
\* the block wrote.
VisitTry(w, s) ==
  LET read == VisitBlock(Watch(EnterBranch(w)), s.body)
      block == Take(Unwatch(read))
      handling == VisitBlock(PushFrame(CarryValues(Watch(EnterBranch(block.w)), Top(read.watched)),
                                       NoNames, FALSE), s.handler[1])
      handler == Take(Unwatch(PopFrame(handling)))
      joined == IF s.handler = <<>> THEN JoinAllArms(block.w, <<block.exits>>, TRUE)
                ELSE JoinAllArms(handler.w, <<block.exits, handler.exits>>, FALSE)
      passed == IF s.handler = <<>> THEN Top(read.watched)
                ELSE Top(read.watched) \o Top(handling.watched)
  IN  IF s.finalizer = <<>> THEN joined ELSE VisitFinally(joined, s.finalizer[1], passed)

Visit(w, s) ==
  CASE s.op = "set" -> BindAssignment(w, s.x, ValueOf(s.v))
    [] s.op = "alias" -> BindAssignment(w, s.x, Ref(s.y))
    [] s.op = "var" -> WriteFrame(w, FunctionFrame(w), s.x, Settle(w, Ref(s.y), 0))
    [] s.op = "bare" -> IF Bound(w, FunctionFrame(w), s.x) # None THEN w
                        ELSE WriteFrame(w, FunctionFrame(w), s.x, MaybeUndefined)
    [] s.op = "declare" -> WriteFrame(w, FunctionFrame(w), s.x, ValueOf(s.v))
    [] s.op = "let" -> WriteFrame(w, Len(w.frames), s.x, ValueOf(s.v))
    [] s.op = "call" -> [w EXCEPT !.sites = Append(@, Definedness(w, Settle(w, Ref(s.x), 0), 0))]
    [] s.op \in {"return", "break"} -> w
    [] s.op = "if" -> VisitIf(w, s)
    [] s.op = "ifelse" -> VisitIfElse(w, s)
    [] s.op = "while" -> ReadUntilItSettles(w, s)
    [] s.op = "dowhile" -> ReadUntilItSettles(VisitBlock(w, s.body), s)
    [] s.op = "iife" -> PopFrame(VisitStatements(PushFrame(w, Hoist(VarNames(s.body)), TRUE), s.body))
    [] s.op = "function" ->
         PopFrame(ReadUntilItSettles(PushFrame(w, Hoist(VarNames(s.body)), TRUE), s))
    [] s.op = "switch" -> VisitSwitch(w, s)
    [] s.op = "try" -> VisitTry(w, s)

\* visit_program: the walk of a module that holds one function.
Start ==
  [frames |-> <<NoNames>>, hoisted |-> <<NoNames>>, is_function |-> <<TRUE>>,
   branches |-> <<>>, watched |-> <<>>, sites |-> <<>>, replaying |-> FALSE, unreadable |-> 0]

Read(body) == Visit(Start, Function(body))

\* variables_presence: every site has to agree.
Verdict(w) ==
  IF w.unreadable > 0 \/ w.sites = <<>> THEN Undetermined
  ELSE CHOOSE p \in {w.sites[n] : n \in DOMAIN w.sites} :
         \A n \in DOMAIN w.sites : Weaker(p, w.sites[n]) = p
=============================================================================
