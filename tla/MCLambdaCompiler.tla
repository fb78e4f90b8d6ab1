-------------------------- MODULE MCLambdaCompiler --------------------------
(* Bounded programs for LambdaCompiler. *)
EXTENDS LambdaCompiler

Lit(n) == [k |-> "num", n |-> n]
Var(x) == [k |-> "var", x |-> x]
Two(k, l, r) == [k |-> k, l |-> l, r |-> r]
BinOf(f, l, r) == [k |-> "bin", f |-> f, l |-> l, r |-> r]
IfOf(c, l, r) == [k |-> "if", c |-> c, l |-> l, r |-> r]
Test(k, c, l) == [k |-> k, c |-> c, l |-> l]
Bind(k, x, l, r) == [k |-> k, x |-> x, l |-> l, r |-> r]
SetOf(x, l) == [k |-> "set", x |-> x, l |-> l]
CallOf(x, l) == [k |-> "call", x |-> x, l |-> l]
RecurOf(l) == [k |-> "recur", l |-> l]
NotOf(l) == [k |-> "not", l |-> l]
NilLit == [k |-> "nil"]
StrLit == [k |-> "str"]

(* Operands, tests and increments of the variable v. *)
Atoms(v) == {Lit(1), Var(v)}
Simple(v) == Atoms(v) \cup {BinOf("Add", Var(v), Lit(1)), BinOf("Add", Var(v), Var(v))}
Uses(v) == {Var(v), BinOf("Add", Var(v), Lit(1))}
Tests(v) ==
  {BinOf("Lt", Var(v), Lit(1)), BinOf("Eq", Var(v), Lit(0)), Var(v), NotOf(Var(v))}

(* Values made by branching, and by statements; v may be used. *)
Branching(v) ==
  {Two(k, l, r) : k \in {"and", "or", "default"}, l \in Tests(v), r \in Simple(v)}
  \cup {IfOf(c, l, r) : c \in Tests(v), l \in Simple(v), r \in Simple(v)}
  \cup {Test(k, c, l) : k \in {"when", "unless"}, c \in Tests(v), l \in Simple(v)}

Values(v) == Simple(v) \cup Branching(v) \cup {NilLit, StrLit, CallOf("f", Var(v))}

(* A loop over i, its body with the branches that go on and those that end. *)
Going == {RecurOf(l) : l \in Simple("i")}
          \cup {Bind("let", "x", BinOf("Add", Var("i"), Lit(1)), RecurOf(Var("x")))}
Bodies ==
  {IfOf(c, l, r) : c \in Tests("i"), l \in Going, r \in {Var("i"), RecurOf(Lit(1))}}
  \cup {Test(k, c, l) : k \in {"when", "unless"}, c \in Tests("i"), l \in Going}
  \cup {Two(k, l, r) : k \in {"and", "or", "begin"}, l \in Tests("i"), r \in Going}
  \cup {Two("and", l, RecurOf(Lit(1))) : l \in Going}
Loops == {Bind("loop", "i", l, b) : l \in {Lit(0), Var("a")}, b \in Bodies}
Whiles ==
  {Two("begin", Test("while", BinOf("Lt", Var("a"), Lit(1)), SetOf("a", l)), Var("a")) :
     l \in Simple("a")}

(* A call of the lambda to itself. *)
Recursive ==
  {IfOf(BinOf("Lt", Lit(0), Var("a")), r, Lit(0)) :
     r \in {BinOf(f, l, CallOf("self", BinOf("Sub", Var("a"), Lit(1)))) :
              f \in {"Add", "Sub"}, l \in Atoms("a")}}

Straight ==
  Values("a")
  \cup {BinOf(f, l, r) : f \in {"Add", "Lt"}, l \in Atoms("a"),
                          r \in Branching("a") \cup {CallOf("f", Var("a"))}}
  \cup {Bind("let", x, l, r) : x \in {"a", "x"}, l \in Values("a"), r \in Uses("a")}
  \cup {Bind("let", "x", l, r) : l \in Values("a"), r \in Simple("x") \cup {BinOf("Add", Var("x"), Var("a"))}}
  \cup {Two("begin", Bind("let", "a", l, Var("a")), Var("a")) : l \in Values("a")}
  \cup {Two("begin", SetOf("a", l), r) : l \in Values("a"), r \in Uses("a")}

(* The body of the function f, over v. *)
Counting(v) == IfOf(BinOf("Lt", Var(v), Lit(1)), BinOf("Add", Var(v), Lit(1)), Var(v))

MCPrograms ==
  Straight \cup {Counting("a")} \cup Loops \cup Whiles \cup Recursive
  \cup {BinOf("Add", Var("a"), l) : l \in Loops}

(* The operand on the left of a literal may branch. *)
JoinPrograms == {BinOf("Add", l, Lit(1)) : l \in Branching("a")}

MCCallee == Counting("p")

MCArgLists == {<<Num(0)>>, <<Num(1)>>, <<Nil>>}
(* Every value a program of these may compute. *)
MCReplies == {Fun, Nil, Str, Err, Bool(TRUE), Bool(FALSE)} \cup {Num(n) : n \in -4 .. 3}
=============================================================================
