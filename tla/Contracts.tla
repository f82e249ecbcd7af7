------------------------------- MODULE Contracts -------------------------------
(***************************************************************************)
(* The translation of a Python validator into the predicate that Lean      *)
(* proves and the runtime evaluates: it shall hold exactly when the        *)
(* validator completes.  A state is a validator, which grows statement by  *)
(* statement.  Floats, f-strings and the look-up of names are left out.    *)
(***************************************************************************)
EXTENDS Integers, Sequences, SequencesExt, TLC

CONSTANTS Numbers,    \* the int arguments and results
          Lists,      \* the list[int] arguments
          SizeBound   \* how many statements a validator has at its top level

VARIABLE body         \* of def validator(r, x, xs)

----------------------------------------------------------------------------
(* Python's syntax, one shape for all nodes of ast.                        *)

Node(op, id, n, kids) == [op |-> op, id |-> id, n |-> n, kids |-> kids]
Name(id) == Node("name", id, 0, <<>>)
Num(n) == Node("int", "", n, <<>>)
Flag(b) == Node("bool", "", IF b THEN 1 ELSE 0, <<>>)
Apply(op, kids) == Node(op, "", 0, kids)
Chain(op1, op2, a, b, c) == Node("chain", op1, 0, <<a, b, Node(op2, "", 0, <<c>>)>>)
For(op, var, list, elt, cond) == Node(op, var, 0, <<list, elt, cond>>)

Comparisons == {"eq", "ne", "lt", "le", "gt", "ge", "in", "not in"}

----------------------------------------------------------------------------
(* What Python does.  Values carry their type, for their truth.            *)

Value(kind, v) == [kind |-> kind, v |-> v]

Truth(value) == CASE value.kind = "bool" -> value.v
                  [] value.kind = "int"  -> value.v # 0
                  [] value.kind = "list" -> value.v # <<>>

Compares(op, a, b) ==
    CASE op = "eq" -> a = b [] op = "ne" -> a # b [] op = "in" -> a \in ToSet(b)
      [] op = "not in" -> a \notin ToSet(b)
      [] op = "lt" -> a < b [] op = "le" -> a <= b [] op = "gt" -> a > b [] op = "ge" -> a >= b

\* s[start:stop]: a negative bound counts from the end, and both are clipped.
Clip(i, n) == IF i < 0 THEN IF n + i < 0 THEN 0 ELSE n + i ELSE IF i > n THEN n ELSE i
Slice(s, start, stop) == SubSeq(s, Clip(start, Len(s)) + 1, Clip(stop, Len(s)))

RECURSIVE Python(_, _)
Python(node, env) ==
    LET kid(i) == Python(node.kids[i], env)
        each == {[env EXCEPT ![node.id] = Value("int", item)] : item \in ToSet(kid(1).v)}
    IN CASE node.op = "name" -> env[node.id]
         [] node.op = "int" -> Value("int", node.n)
         [] node.op = "bool" -> Value("bool", node.n = 1)
         [] node.op = "not" -> Value("bool", ~Truth(kid(1)))
         [] node.op = "and" -> IF Truth(kid(1)) THEN kid(2) ELSE kid(1)
         [] node.op = "or" -> IF Truth(kid(1)) THEN kid(1) ELSE kid(2)
         [] node.op = "if" -> IF Truth(kid(1)) THEN kid(2) ELSE kid(3)
         [] node.op = "neg" -> Value("int", - kid(1).v)
         [] node.op = "sub" -> Value("int", kid(1).v - kid(2).v)
         [] node.op = "add" -> IF kid(1).kind = "list" THEN Value("list", kid(1).v \o kid(2).v)
                               ELSE Value("int", kid(1).v + kid(2).v)
         [] node.op = "len" -> Value("int", Len(kid(1).v))
         [] node.op = "sorted" -> Value("list", SortSeq(kid(1).v, <))
         [] node.op = "slice" -> Value("list", Slice(kid(1).v, kid(2).v, kid(3).v))
         [] node.op \in Comparisons -> Value("bool", Compares(node.op, kid(1).v, kid(2).v))
         [] node.op = "chain" ->
              LET third == Python(node.kids[3].kids[1], env)
              IN Value("bool", /\ Compares(node.id, kid(1).v, kid(2).v)
                               /\ Compares(node.kids[3].op, kid(2).v, third.v))
         [] node.op = "all" -> Value("bool", \A inner \in each :
                Truth(Python(node.kids[3], inner)) => Truth(Python(node.kids[2], inner)))
         [] node.op = "any" -> Value("bool", \E inner \in each :
                Truth(Python(node.kids[3], inner)) /\ Truth(Python(node.kids[2], inner)))

\* A block goes on to what follows it, completes, or fails.
RECURSIVE Runs(_, _)
Runs(stmts, env) ==
    IF stmts = <<>> THEN [how |-> "goes on", env |-> env]
    ELSE LET s == Head(stmts)
             ends(ok) == [how |-> IF ok THEN "completes" ELSE "fails", env |-> env]
             branch == Runs(IF Truth(Python(s.test, env)) THEN s.body ELSE s.orelse, env)
         IN CASE s.stmt = "assign" -> Runs(Tail(stmts), [env EXCEPT ![s.id] = Python(s.test, env)])
              [] s.stmt = "assert" -> IF Truth(Python(s.test, env)) THEN Runs(Tail(stmts), env) ELSE ends(FALSE)
              [] s.stmt = "if" -> IF branch.how = "goes on" THEN Runs(Tail(stmts), branch.env) ELSE branch
              [] s.stmt = "return" -> ends(Truth(Python(s.test, env)))
              [] s.stmt = "raise" -> ends(FALSE)

Completes(env) == Runs(body, env).how # "fails"

----------------------------------------------------------------------------
(* Expr, and its two meanings.                                             *)

Expr(op, kind, args, name, value) == [op |-> op, kind |-> kind, args |-> args, name |-> name, value |-> value]
Variable(name, kind) == Expr("variable", kind, <<>>, name, 0)
Integer(n) == Expr("literal", "int", <<>>, "", n)
Boolean(b) == Expr("literal", "bool", <<>>, "", IF b THEN 1 ELSE 0)
Unsupported == Expr("unsupported", "none", <<>>, "", 0)
Operation(op, kind, args) == Expr(op, kind, args, "", 0)

\* Expr.evaluate.
RECURSIVE Evaluate(_, _)
Evaluate(e, values) ==
    LET arg(i) == Evaluate(e.args[i], values)
        outcomes == {Evaluate(e.args[2], [values EXCEPT ![e.name] = item]) : item \in ToSet(arg(1))}
    IN CASE e.op = "literal" -> IF e.kind = "bool" THEN e.value = 1 ELSE e.value
         [] e.op = "variable" -> values[e.name]
         [] e.op = "all" -> FALSE \notin outcomes
         [] e.op = "any" -> TRUE \in outcomes
         [] e.op = "if" -> IF arg(1) THEN arg(2) ELSE arg(3)
         [] e.op = "len" -> Len(arg(1))
         [] e.op = "sorted" -> SortSeq(arg(1), <)
         [] e.op = "ordered" -> \A i \in 1 .. Len(arg(1)) - 1 : arg(1)[i] <= arg(1)[i + 1]
         [] e.op = "slice" -> Slice(arg(1), arg(2), arg(3))
         [] e.op = "not" -> ~arg(1)
         [] e.op = "neg" -> - arg(1)
         [] e.op = "and" -> arg(1) /\ arg(2)
         [] e.op = "or" -> arg(1) \/ arg(2)
         [] e.op = "add" -> IF e.kind = "list" THEN arg(1) \o arg(2) ELSE arg(1) + arg(2)
         [] e.op = "sub" -> arg(1) - arg(2)
         [] e.op = "contains" -> Compares("in", arg(1), arg(2))
         [] e.op \in Comparisons -> Compares(e.op, arg(1), arg(2))

Least(a, b) == IF a < b THEN a ELSE b
Greatest(a, b) == IF a > b THEN a ELSE b

\* pythonIndex and pythonSlice of the helpers every Lean module starts with.
PythonIndex(length, i) == Greatest(0, Least(length, IF i < 0 THEN length + i ELSE i))
Drop(xs, n) == SubSeq(xs, n + 1, Len(xs))
Take(xs, n) == SubSeq(xs, 1, Least(n, Len(xs)))
PythonSlice(xs, start, stop) ==
    LET first == PythonIndex(Len(xs), start)
        last == PythonIndex(Len(xs), stop)
    IN  Take(Drop(xs, first), Greatest(0, last - first))   \* Nat subtraction

\* What Lean makes of Expr.lean: List.Pairwise and pythonSlice are its own.
RECURSIVE LeanMeans(_, _)
LeanMeans(e, values) ==
    LET arg(i) == LeanMeans(e.args[i], values)
        plain == [e EXCEPT !.args = [i \in DOMAIN e.args |->
                     IF e.args[i].kind = "bool" THEN Boolean(arg(i))
                     ELSE IF e.args[i].kind = "int" THEN Integer(arg(i)) ELSE e.args[i]]]
    IN CASE e.op = "ordered" -> \A i, j \in DOMAIN arg(1) : i < j => arg(1)[i] <= arg(1)[j]
         [] e.op = "slice" -> PythonSlice(arg(1), arg(2), arg(3))
         [] e.op = "all" -> \A item \in ToSet(arg(1)) : LeanMeans(e.args[2], [values EXCEPT ![e.name] = item])
         [] e.op = "any" -> \E item \in ToSet(arg(1)) : LeanMeans(e.args[2], [values EXCEPT ![e.name] = item])
         [] e.op = "len" -> Len(arg(1))
         [] e.op = "sorted" -> SortSeq(arg(1), <)
         [] e.op = "contains" -> Compares("in", arg(1), arg(2))
         [] e.op = "add" /\ e.kind = "list" -> arg(1) \o arg(2)
         [] e.op \in {"eq", "ne"} -> Compares(e.op, arg(1), arg(2))
         [] OTHER -> Evaluate(plain, values)

----------------------------------------------------------------------------
(* _Translator.  Unsupported stands for ContractError.                     *)

IsTrue(e) == e.op = "literal" /\ e.kind = "bool" /\ e.value = 1

\* _and drops a literal True on either side.
And(left, right) ==
    IF IsTrue(left) THEN right ELSE IF IsTrue(right) THEN left ELSE Operation("and", "bool", <<left, right>>)

\* _truth.
AsTruth(e) ==
    CASE e.kind = "bool" -> e
      [] e.kind = "int"  -> Operation("ne", "bool", <<e, Integer(0)>>)
      [] e.kind = "list" -> Operation("ne", "bool", <<Operation("len", "int", <<e>>), Integer(0)>>)
      [] OTHER -> Unsupported

If(kind, test, yes, no) ==
    IF "none" \in {test.kind, yes.kind, no.kind} THEN Unsupported ELSE Operation("if", kind, <<test, yes, no>>)

\* An equality of a list with itself sorted says that it is ordered.
Comparison(op, left, right) ==
    LET negated(e) == IF op \in {"ne", "not in"} THEN Operation("not", "bool", <<e>>) ELSE e
        sortedOf(a, b) == a.kind = "list" /\ b.op = "sorted" /\ b.args[1] = a
        alike == left.kind = right.kind /\ (left.kind = "int" \/ op \in {"eq", "ne"})
    IN IF op \in {"in", "not in"}
       THEN IF left.kind = "int" /\ right.kind = "list"
            THEN negated(Operation("contains", "bool", <<left, right>>)) ELSE Unsupported
       ELSE IF left.kind = "none" \/ ~alike THEN Unsupported
       ELSE IF sortedOf(left, right) THEN negated(Operation("ordered", "bool", <<left>>))
       ELSE IF sortedOf(right, left) THEN negated(Operation("ordered", "bool", <<right>>))
       ELSE Operation(op, "bool", <<left, right>>)

\* Mutant: every comparison of a chain is with the first operand.
ChainedWithFirst(op1, op2, a, b, c) ==
    LET left == Comparison(op1, a, b) right == Comparison(op2, a, c)
    IN  IF "none" \in {left.kind, right.kind} THEN Unsupported ELSE And(left, right)

Chained(op1, op2, a, b, c) ==
    LET left == Comparison(op1, a, b) right == Comparison(op2, b, c)
    IN  IF "none" \in {left.kind, right.kind} THEN Unsupported ELSE And(left, right)

\* Mutant: what an any() skips counts as found.
SkippedIsTrue(op) == Boolean(TRUE)

\* An item that the generator's if skips is a witness of nothing.
Skipped(op) == Boolean(op = "all")

\* Generated names differ within a scope.
Bound == <<"q0", "q1">>

\* _Translator.expr.
RECURSIVE Translate(_, _, _)
Translate(node, env, depth) ==
    LET kid(i) == Translate(node.kids[i], env, depth)
        kinds == [i \in DOMAIN node.kids |-> kid(i).kind]
        all(kind) == \A i \in DOMAIN kinds : kinds[i] = kind
        only(ok, kind, args) == IF ok THEN Operation(node.op, kind, args) ELSE Unsupported
    IN CASE node.op = "name" -> IF node.id \in DOMAIN env THEN env[node.id] ELSE Unsupported
         [] node.op = "int" -> Integer(node.n)
         [] node.op = "bool" -> Boolean(node.n = 1)
         [] node.op = "not" -> only(kid(1).kind # "none", "bool", <<AsTruth(kid(1))>>)
         [] node.op \in {"and", "or"} -> only(all("bool"), "bool", <<kid(1), kid(2)>>)
         [] node.op = "if" -> IF kinds[2] = kinds[3] THEN If(kinds[2], AsTruth(kid(1)), kid(2), kid(3))
                              ELSE Unsupported
         [] node.op = "neg" -> only(all("int"), "int", <<kid(1)>>)
         [] node.op = "sub" -> only(all("int"), "int", <<kid(1), kid(2)>>)
         [] node.op = "add" -> only(all("int") \/ all("list"), kinds[1], <<kid(1), kid(2)>>)
         [] node.op \in {"len", "sorted"} ->
                only(all("list"), IF node.op = "len" THEN "int" ELSE "list", <<kid(1)>>)
         [] node.op = "slice" -> only(kinds = <<"list", "int", "int">>, "list", <<kid(1), kid(2), kid(3)>>)
         [] node.op \in Comparisons -> Comparison(node.op, kid(1), kid(2))
         [] node.op = "chain" -> Chained(node.id, node.kids[3].op, kid(1), kid(2),
                                         Translate(node.kids[3].kids[1], env, depth))
         [] node.op \in {"all", "any"} ->
              LET name == Bound[depth + 1]
                  scope == (node.id :> Variable(name, "int")) @@ env
                  inner(i) == AsTruth(Translate(node.kids[i], scope, depth + 1))
                  guard == And(Boolean(TRUE), inner(3))
                  predicate == IF IsTrue(guard) THEN inner(2) ELSE If("bool", guard, inner(2), Skipped(node.op))
              IN  IF kid(1).kind = "list" /\ predicate.kind # "none"
                  THEN Expr(node.op, "bool", <<kid(1), predicate>>, name, 0) ELSE Unsupported

\* Mutant: a branch that does not return ends the validator.
RestOfNone(branch, rest) == branch

\* What follows an if follows each of its branches.
RestOf(branch, rest) == branch \o rest

\* _Translator.block: also what can never run must be supported.
RECURSIVE Block(_, _)
Block(stmts, env) ==
    IF stmts = <<>> THEN Boolean(TRUE)
    ELSE LET s == Head(stmts) rest == Tail(stmts)
             test == Translate(s.test, env, 0)
             after == Block(rest, env)
             ends(e) == IF "none" \in {e.kind, after.kind} THEN Unsupported ELSE e
         IN CASE s.stmt = "assign" -> IF test.kind = "none" THEN Unsupported ELSE Block(rest, (s.id :> test) @@ env)
              [] s.stmt = "assert" -> IF "none" \in {test.kind, after.kind} THEN Unsupported
                                      ELSE And(AsTruth(test), after)
              [] s.stmt = "if" -> If("bool", AsTruth(test), Block(RestOf(s.body, rest), env),
                                     Block(RestOf(s.orelse, rest), env))
              [] s.stmt = "return" -> IF test.kind = "bool" THEN ends(test) ELSE Unsupported
              [] s.stmt = "raise" -> ends(Boolean(FALSE))

\* _Translator.translate: the result and the parameters are in scope.
Predicate ==
    Block(body, "r" :> Variable("r", "int") @@ "x" :> Variable("v0", "int") @@ "xs" :> Variable("v1", "list"))

----------------------------------------------------------------------------
(* The validators that are tried.                                          *)

R == Name("r")   X == Name("x")   XS == Name("xs")   Y == Name("y")   I == Name("i")

Tests ==
    {R, XS, Apply("lt", <<R, X>>), Apply("ne", <<R, Apply("neg", <<X>>)>>), Apply("not", <<XS>>),
     Chain("le", "lt", Num(0), R, X), Chain("eq", "in", R, X, XS),
     Chain("eq", "ne", XS, Apply("sorted", <<XS>>), Apply("slice", <<XS, R, X>>)),
     Apply("eq", <<Apply("len", <<Apply("slice", <<Apply("add", <<XS, XS>>), X, R>>)>>), Y>>),
     Apply("if", <<Apply("in", <<R, XS>>), Apply("gt", <<X, Num(0)>>), Flag(TRUE)>>),
     For("all", "i", XS, Apply("le", <<I, X>>), Apply("ne", <<I, R>>)),
     For("any", "x", XS, For("any", "i", XS, Apply("eq", <<X, Apply("sub", <<I, R>>)>>), X), Flag(TRUE)),
     Apply("or", <<Apply("ge", <<Y, R>>), Apply("not in", <<X, XS>>)>>)}

Stmt(stmt, id, test, then, orelse) == [stmt |-> stmt, id |-> id, test |-> test, body |-> then, orelse |-> orelse]
Asserts(test) == Stmt("assert", "", test, <<>>, <<>>)
Assign(id, value) == Stmt("assign", id, value, <<>>, <<>>)
Return(test) == Stmt("return", "", test, <<>>, <<>>)
Raise == Stmt("raise", "", Num(0), <<>>, <<>>)

Simple == {Asserts(t) : t \in Tests}
          \cup {Assign("y", X), Assign("x", Apply("len", <<XS>>)), Assign("xs", Apply("sorted", <<XS>>)),
                Return(Apply("gt", <<X, R>>)), Return(Flag(TRUE)), Raise}
Branches == {<<>>, <<Raise>>, <<Return(Flag(TRUE))>>, <<Assign("y", Num(1))>>, <<Assign("x", R), Asserts(Apply("le", <<X, Num(0)>>))>>}
Conditionals == {Stmt("if", "", t, then, orelse) :
               t \in {R, Apply("lt", <<X, R>>)}, then \in Branches, orelse \in Branches}

Init == body = <<>>
Next == /\ Len(body) < SizeBound
        /\ \E s \in Simple \cup Conditionals : body' = Append(body, s)

Spec == Init /\ [][Next]_body

----------------------------------------------------------------------------
Environment(r, x, xs) ==
    "r" :> Value("int", r) @@ "x" :> Value("int", x) @@ "xs" :> Value("list", xs)
    @@ "y" :> Value("none", 0) @@ "i" :> Value("none", 0)

Values(r, x, xs) == "r" :> r @@ "v0" :> x @@ "v1" :> xs @@ "q0" :> 0 @@ "q1" :> 0

\* A supported validator completes on exactly the values its predicate accepts.
TranslationIsExact ==
    LET predicate == Predicate
    IN  predicate.kind # "none" =>
            \A r, x \in Numbers : \A xs \in Lists :
                Evaluate(predicate, Values(r, x, xs)) = Completes(Environment(r, x, xs))

\* What the runtime evaluates for a predicate is what Lean proved of it.
LeanAgrees ==
    LET predicate == Predicate
    IN  predicate.kind # "none" =>
            \A r, x \in Numbers : \A xs \in Lists :
                LeanMeans(predicate, Values(r, x, xs)) = Evaluate(predicate, Values(r, x, xs))
================================================================================
