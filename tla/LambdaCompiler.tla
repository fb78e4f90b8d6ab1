--------------------------- MODULE LambdaCompiler ---------------------------
(***************************************************************************)
(* try_compile_lambda of src/src/bytecode/mod.rs: compile_expr, the three  *)
(* passes of peephole_optimize, and total_slots; followed by the verifier  *)
(* and the machine, as run_expr_group of src/src/program.rs chains them.   *)
(*                                                                         *)
(* Programs are syntax trees: records whose k is the form.  The results    *)
(* are compared with Eval, a definition of the language in terms of names  *)
(* that knows neither slots nor jumps.                                     *)
(***************************************************************************)
EXTENDS BytecodeVerifier, FiniteSetsExt

CONSTANTS
  Programs,  \* the bodies of the lambda of one parameter "a"
  Callee,    \* the body of "f", a function of one parameter "p" of the environment
  Fuel       \* turns of a loop, or depth of calls, that Eval follows

VARIABLES
  source     \* [body, args, peephole]: what is compiled and called, how

cvars == <<vars, source>>

-----------------------------------------------------------------------------
(* LoopCompiler: the code so far; slot_map; the slots marked i64; whether  *)
(* the last expression was found to be i64; and the innermost loop.        *)
Fresh(param) ==
  [code |-> << >>, names |-> <<param>>, i64 |-> {}, last |-> FALSE,
   loop |-> [start |-> 0, slot |-> 0]]

Here(st) == Len(st.code)
Emit(st, i) == [st EXCEPT !.code = Append(@, i)]
Op(k, s) == Ins(k, "Add", s, 0, 0)
Branch(k, to) == Ins(k, "Add", 0, 0, to)
Patch(st, at, to) == [st EXCEPT !.code[at + 1].addr = to]
Unflag(st) == [st EXCEPT !.last = FALSE]

Bound(st, x) == \E j \in 1 .. Len(st.names) : st.names[j] = x

(* slot_of: the first slot with the name. *)
slot_of(st, x) == Min({j \in 1 .. Len(st.names) : st.names[j] = x}) - 1

(* A slot for x at the end of slot_map. *)
NewSlot(st, x) == [st EXCEPT !.names = Append(@, x)]

mark_slot_i64(st, s) == IF st.last THEN [st EXCEPT !.i64 = @ \cup {s}] ELSE st

RECURSIVE compile_expr(_, _)

(* and, or: a value that decides is left on the stack. *)
ShortCircuit(jump, e, st) ==
  LET l == compile_expr(e.l, st)
      j == Emit(Emit(Emit(l, Op("Dup", 0)), Branch(jump, 0)), Op("Pop", 0))
      r == compile_expr(e.r, j)
  IN Patch(r, Here(l) + 1, Here(r))

(* default: the fallback replaces a nil. *)
CompileDefault(e, st) ==
  LET l == compile_expr(e.l, st)
      t == Emit(Emit(Emit(l, Op("Dup", 0)), Op("PushNil", 0)), Ins("Bin", "Eq", 0, 0, 0))
      r == compile_expr(e.r, Emit(Emit(t, Branch("JumpIfFalse", 0)), Op("Pop", 0)))
  IN Patch(r, Here(t), Here(r))

CompileIf(e, st) ==
  LET c == compile_expr(e.c, st)
      t == compile_expr(e.l, Emit(c, Branch("JumpIfFalse", 0)))
      f == compile_expr(e.r, Patch(Emit(t, Branch("Jump", 0)), Here(c), Here(t) + 1))
  IN Patch(f, Here(t), Here(f))

(* when, unless: nil if the test says no. *)
Guarded(jump, e, st) ==
  LET c == compile_expr(e.c, st)
      b == compile_expr(e.l, Emit(c, Branch(jump, 0)))
  IN Emit(Patch(Emit(b, Branch("Jump", Here(b) + 2)), Here(c), Here(b) + 1),
          Op("PushNil", 0))

CompileWhile(e, st) ==
  LET c == compile_expr(e.c, st)
      b == compile_expr(e.l, Emit(c, Branch("JumpIfFalse", 0)))
      j == Emit(Emit(b, Op("Pop", 0)), Branch("Jump", Here(st)))
  IN Emit(Patch(j, Here(c), Here(j)), Op("PushNil", 0))

\* Mutant: a shadowed variable is not restored after the body.
CompileLet_unrestored(e, st) ==
  LET i == compile_expr(e.l, st)
      s == IF Bound(i, e.x) THEN slot_of(i, e.x) ELSE Len(i.names)
      j == IF Bound(i, e.x) THEN i ELSE NewSlot(i, e.x)
      body == compile_expr(e.r, mark_slot_i64(Emit(j, Op("StoreSlot", s)), s))
  IN [body EXCEPT !.names = SubSeq(@, 1, Len(st.names))]

(* let of one variable.  A name that has a slot keeps it: its value is     *)
(* saved in a new slot before the body and restored after it.              *)
CompileLet(e, st) ==
  LET i == compile_expr(e.l, st)
      old == slot_of(i, e.x)
      save == Len(i.names)
      shadow == Emit(Emit(Emit(NewSlot(i, "%save"), Op("LoadSlot", old)),
                          Op("StoreSlot", save)), Op("StoreSlot", old))
      plain == Emit(NewSlot(i, e.x), Op("StoreSlot", save))
      body == IF Bound(i, e.x)
              THEN compile_expr(e.r, mark_slot_i64(shadow, old))
              ELSE compile_expr(e.r, mark_slot_i64(plain, save))
      restored == IF Bound(i, e.x)
                  THEN Emit(Emit(body, Op("LoadSlot", save)), Op("StoreSlot", old))
                  ELSE body
  IN [restored EXCEPT !.names = SubSeq(@, 1, Len(st.names))]

(* loop of one variable: its slot is new and stays in slot_map. *)
CompileLoop(e, st) ==
  LET s == Len(st.names)
      i == compile_expr(e.l, NewSlot(st, e.x))
      j == Emit(mark_slot_i64(i, s), Op("StoreSlot", s))
      b == compile_expr(e.r, [j EXCEPT !.loop = [start |-> Here(j), slot |-> s]])
  IN [b EXCEPT !.loop = st.loop]

CompileRecur(e, st) ==
  LET a == compile_expr(e.l, st)
  IN Emit(Emit(a, Op("StoreSlot", a.loop.slot)), Branch("Jump", a.loop.start))

CompileSet(e, st) ==
  LET v == compile_expr(e.l, st)
      s == slot_of(v, e.x)
  IN Emit(Emit(v, Op("StoreSlot", s)), Op("LoadSlot", s))

CompileBin(e, st) ==
  LET l == compile_expr(e.l, st)
      r == compile_expr(e.r, l)
      o == Emit(r, Ins("Bin", e.f, 0, 0, 0))
  IN IF e.f \in {"Add", "Sub", "Mul"} /\ l.last /\ r.last
     THEN [o EXCEPT !.last = TRUE] ELSE o

(* A call to the lambda itself, and to a function of the environment: all  *)
(* that try_capture takes from the environment is a forward capture, read  *)
(* where it is called.                                                     *)
CompileCall(e, st) ==
  LET a == compile_expr(e.l, st)
  IN IF e.x = "self" THEN Emit(a, Op("CallSelf", 1))
     ELSE Emit(Emit(a, Op("LoadGlobal", 0)), Op("CallDynamic", 1))

(* last_result_i64 is reset first and otherwise left as the last           *)
(* subexpression compiled set it.                                          *)
compile_expr(e, start) ==
  LET st == Unflag(start) IN
  CASE e.k = "num" -> [Emit(st, Ins("PushI64", "Add", 0, e.n, 0)) EXCEPT !.last = TRUE]
    [] e.k = "nil" -> Emit(st, Op("PushNil", 0))
    [] e.k = "str" -> Emit(st, Op("PushStr", 0))
    [] e.k = "var" -> [Emit(st, Op("LoadSlot", slot_of(st, e.x)))
                         EXCEPT !.last = slot_of(st, e.x) \in st.i64]
    [] e.k = "not" -> Emit(compile_expr(e.l, st), Op("Not", 0))
    [] e.k = "bin" -> CompileBin(e, st)
    [] e.k = "begin" -> compile_expr(e.r, Emit(compile_expr(e.l, st), Op("Pop", 0)))
    [] e.k = "and" -> ShortCircuit("JumpIfFalse", e, st)
    [] e.k = "or" -> ShortCircuit("JumpIfTrue", e, st)
    [] e.k = "default" -> CompileDefault(e, st)
    [] e.k = "if" -> CompileIf(e, st)
    [] e.k = "when" -> Guarded("JumpIfFalse", e, st)
    [] e.k = "unless" -> Guarded("JumpIfTrue", e, st)
    [] e.k = "while" -> CompileWhile(e, st)
    [] e.k = "let" -> CompileLet(e, st)
    [] e.k = "loop" -> CompileLoop(e, st)
    [] e.k = "recur" -> CompileRecur(e, st)
    [] e.k = "set" -> CompileSet(e, st)
    [] e.k = "call" -> CompileCall(e, st)

(* The subexpressions in a field of fs. *)
Parts(e, fs) == {e[g] : g \in DOMAIN e \cap fs}

RECURSIVE validate_recur_tail_expr(_, _)
validate_recur_tail_expr(e, tail) ==
  LET spine == CASE e.k = "if" -> {"l", "r"}
                 [] e.k \in {"begin", "and", "or", "let"} -> {"r"}
                 [] e.k \in {"when", "unless"} -> {"l"}
                 [] OTHER -> {}
  IN \/ e.k = "loop"
     \/ /\ e.k = "recur" => tail
        /\ \A d \in Parts(e, spine) : validate_recur_tail_expr(d, tail)
        /\ \A d \in Parts(e, {"c", "l", "r"} \ spine) : validate_recur_tail_expr(d, FALSE)

(* compile_expr refuses a recur outside a loop, and a loop whose body does *)
(* not validate.                                                           *)
RECURSIVE Compiles(_, _)
Compiles(e, inLoop) ==
  IF e.k = "loop"
  THEN Compiles(e.l, inLoop) /\ validate_recur_tail_expr(e.r, TRUE) /\ Compiles(e.r, TRUE)
  ELSE /\ e.k = "recur" => inLoop
       /\ \A d \in Parts(e, {"c", "l", "r"}) : Compiles(d, inLoop)

-----------------------------------------------------------------------------
(* peephole_optimize.  A rule consumes n instructions at i and puts out    *)
(* others in their place; inplace, when each has its own successor in out. *)

\* Mutant: no instruction counts as a jump target.
Targets_none(c) == {}

Targets(c) == {c[j].addr : j \in {k \in 1 .. Len(c) :
                                    c[k].op \in {"Jump", "JumpIfTrue", "JumpIfFalse"}}}

Rule(n, out, inplace) == [n |-> n, out |-> out, inplace |-> inplace]

(* The instructions from i on have the opcodes ks. *)
Matches(c, i, ks) ==
  i + Len(ks) <= Len(c) /\ \A j \in 1 .. Len(ks) : c[i + j].op = ks[j]

(* LoadSlot, PushI64, operation. *)
FuseSlotImm(c, i) == Rule(3, <<Ins("SlotImm", c[i + 3].f, c[i + 1].s, c[i + 2].imm, 0)>>, FALSE)

(* LoadSlot, LoadSlot, operation, on two slots marked i64. *)
Typable(c, i, i64) ==
  /\ Matches(c, i, <<"LoadSlot", "LoadSlot", "Bin">>)
  /\ {c[i + 1].s, c[i + 2].s} \subseteq i64
  /\ c[i + 3].f # "Div"

(* SlotLtImm .. SlotEqImm, JumpIfTrue. *)
Branchable(c, i) ==
  Matches(c, i, <<"SlotImm", "JumpIfTrue">>) /\ c[i + 1].f \in Cmps

SameSlot(c, i) == c[i + 1].s = c[i + 2].s

RuleAt(c, i, i64) ==
  LET free(j) == j \notin Targets(c) IN
  CASE Matches(c, i, <<"LoadSlot", "PushI64", "Bin">>) -> FuseSlotImm(c, i)
    [] Typable(c, i, i64) ->
         Rule(3, <<c[i + 1], c[i + 2], [c[i + 3] EXCEPT !.op = "Typed"]>>, TRUE)
    [] Branchable(c, i) ->
         Rule(2, <<[c[i + 1] EXCEPT !.op = "JumpIfSlot", !.addr = c[i + 2].addr]>>, FALSE)
    [] Matches(c, i, <<"StoreSlot", "LoadSlot">>) /\ SameSlot(c, i) /\ free(i + 1) ->
         Rule(2, <<Op("StoreAndLoadSlot", c[i + 1].s)>>, FALSE)
    [] Matches(c, i, <<"LoadSlot", "Return">>) /\ free(i) /\ free(i + 1) ->
         Rule(2, <<Op("ReturnSlot", c[i + 1].s)>>, FALSE)
    [] Matches(c, i, <<"LoadSlot", "StoreSlot">>) /\ SameSlot(c, i) /\ free(i + 1) ->
         Rule(2, << >>, FALSE)
    [] OTHER -> Rule(1, <<c[i + 1]>>, FALSE)

(* The loop from i on: the new code and index_map. *)
RECURSIVE Fuse(_, _, _, _, _)
Fuse(c, i64, i, new, index_map) ==
  IF i >= Len(c) THEN [code |-> new, map |-> index_map]
  ELSE LET r == RuleAt(c, i, i64)
       IN Fuse(c, i64, i + r.n, new \o r.out,
               index_map \o [j \in 1 .. r.n |->
                               Len(new) + (IF r.inplace THEN j - 1 ELSE 0)])

remap_jump_target(i, map) ==
  IF i.op \in Branches /\ i.addr < Len(map) THEN [i EXCEPT !.addr = map[i.addr + 1]] ELSE i

peephole_optimize(c, i64) ==
  LET f == Fuse(c, i64, 0, << >>, << >>)
  IN [j \in 1 .. Len(f.code) |-> remap_jump_target(f.code[j], f.map)]

(* total_slots: the parameter and every slot these instructions name. *)
TotalSlots(c) ==
  Max({1} \cup {c[j].s + 1 : j \in {k \in 1 .. Len(c) :
        c[k].op \in {"StoreSlot", "LoadSlot", "StoreAndLoadSlot", "SlotImm", "JumpIfSlot"}}})

\* Mutant: the code does not end in Return.
try_compile_lambda_unended(param, body, peephole) ==
  LET st == compile_expr(body, Fresh(param))
  IN [code |-> st.code, params |-> 1, total |-> TotalSlots(st.code)]

(* peephole is FALSE when LISP_NO_PEEPHOLE is set. *)
try_compile_lambda(param, body, peephole) ==
  LET st == compile_expr(body, Fresh(param))
      plain == Append(st.code, Op("Return", 0))
      once(c) == peephole_optimize(c, st.i64)
      final == IF peephole THEN once(once(once(plain))) ELSE plain
  IN [code |-> final, params |-> 1, total |-> TotalSlots(final)]

-----------------------------------------------------------------------------
(* Eval: what a program may mean.  A result is a value and the variables   *)
(* after it; Again asks the loop for another turn.                         *)

Again == [t |-> "Again", v |-> 0]
Diverges == [t |-> "Diverges", v |-> 0]

(* What follows a set of results: those that end the evaluation stay. *)
Then(rs, K(_)) ==
  UNION {IF r.v \in {Err, Again, Diverges} THEN {r} ELSE K(r) : r \in rs}

(* e may leave the value of a variable it just read. *)
RECURSIVE EndsInVar(_)
EndsInVar(e) ==
  \/ e.k = "var"
  \/ e.k \in {"begin", "and", "or", "default", "if", "let", "loop"} /\ EndsInVar(e.r)

(* The operators that may be fused: a variable and a literal, or two       *)
(* variables.                                                              *)
Fusable(e) == EndsInVar(e.l) /\ e.r.k \in {"num", "var"}

(* The values of operator e on x and y.  A fused one takes what is not an  *)
(* integer for 0.                                                          *)
Applied(e, x, y, fused) ==
  {Generic(e.f, x, y)} \cup IF fused /\ Fusable(e) THEN {Coerced(e.f, x, y)} ELSE {}

RECURSIVE Eval(_, _, _), Turns(_, _, _, _)

(* The variables, of which only x is bound, to v. *)
Scope(x, v) ==
  LET at(n) == IF n = x THEN v ELSE Nil
  IN [a |-> at("a"), x |-> at("x"), i |-> at("i"), p |-> at("p")]

(* ctx is the lambda's body, whether its operators may be fused, the       *)
(* variable of the loop around e, and the fuel.                            *)
Eval(e, env, ctx) ==
  LET Is(v) == {[v |-> v, env |-> env]}
      On(r, d) == Eval(d, r.env, ctx)
      Give(r, v) == {[r EXCEPT !.v = v]}
      L(K(_)) == Then(Eval(e.l, env, ctx), K)
      C(K(_)) == Then(Eval(e.c, env, ctx), K)
      Unbind(rs, old) == {[q EXCEPT !.env[e.x] = old[e.x]] : q \in rs}
      Call(body, r, scope, c) == {[r EXCEPT !.v = q.v] : q \in Eval(body, scope, c)}
  IN
  CASE e.k = "num" -> Is(Num(e.n))
    [] e.k = "nil" -> Is(Nil)
    [] e.k = "str" -> Is(Str)
    [] e.k = "var" -> Is(env[e.x])
    [] e.k = "not" -> L(LAMBDA r : Give(r, Bool(~Truthy(r.v))))
    [] e.k = "bin" ->
         L(LAMBDA r : Then(On(r, e.r), LAMBDA q :
             {[q EXCEPT !.v = v] : v \in Applied(e, r.v, q.v, ctx.fused)}))
    [] e.k = "begin" -> L(LAMBDA r : On(r, e.r))
    [] e.k = "and" -> L(LAMBDA r : IF Truthy(r.v) THEN On(r, e.r) ELSE {r})
    [] e.k = "or" -> L(LAMBDA r : IF Truthy(r.v) THEN {r} ELSE On(r, e.r))
    [] e.k = "default" -> L(LAMBDA r : IF r.v = Nil THEN On(r, e.r) ELSE {r})
    [] e.k = "if" -> C(LAMBDA r : IF Truthy(r.v) THEN On(r, e.l) ELSE On(r, e.r))
    [] e.k = "when" -> C(LAMBDA r : IF Truthy(r.v) THEN On(r, e.l) ELSE Give(r, Nil))
    [] e.k = "unless" -> C(LAMBDA r : IF Truthy(r.v) THEN Give(r, Nil) ELSE On(r, e.l))
    [] e.k = "while" -> Turns(e, env, ctx, ctx.fuel)
    [] e.k = "let" ->
         L(LAMBDA r : Unbind(Eval(e.r, [r.env EXCEPT ![e.x] = r.v], ctx), r.env))
    [] e.k = "loop" ->
         L(LAMBDA r : Unbind(Turns(e, [r.env EXCEPT ![e.x] = r.v],
                                   [ctx EXCEPT !.x = e.x], ctx.fuel), r.env))
    [] e.k = "recur" -> L(LAMBDA r : {[v |-> Again, env |-> [r.env EXCEPT ![ctx.x] = r.v]]})
    [] e.k = "set" -> L(LAMBDA r : {[r EXCEPT !.env[e.x] = r.v]})
    [] e.k = "call" ->
         L(LAMBDA r :
             IF e.x = "f" THEN Call(Callee, r, Scope("p", r.v), ctx)
             ELSE IF ctx.fuel = 0 THEN Give(r, Diverges)
             ELSE Call(ctx.body, r, Scope("a", r.v), [ctx EXCEPT !.fuel = @ - 1]))

(* Up to n turns of a loop or while. *)
Turns(e, env, ctx, n) ==
  IF n = 0 THEN {[v |-> Diverges, env |-> env]}
  ELSE IF e.k = "while"
  THEN Then(Eval(e.c, env, ctx), LAMBDA r :
         IF ~Truthy(r.v) THEN {[r EXCEPT !.v = Nil]}
         ELSE Then(Eval(e.l, r.env, ctx), LAMBDA q : Turns(e, q.env, ctx, n - 1)))
  ELSE UNION {IF r.v = Again THEN Turns(e, r.env, ctx, n - 1) ELSE {r} :
                r \in Eval(e.r, env, ctx)}

(* What body may mean when its parameter x is v. *)
Meanings(body, x, v) ==
  LET ctx == [body |-> body, fused |-> source.peephole, x |-> "i", fuel |-> Fuel]
  IN {r.v : r \in Eval(body, Scope(x, v), ctx)}

-----------------------------------------------------------------------------
CInit ==
  \E body \in Programs, args \in ArgLists, peephole \in BOOLEAN :
    /\ Compiles(body, FALSE)
    /\ source = [body |-> body, arg |-> args[1], peephole |-> peephole]
    /\ Loaded(try_compile_lambda("a", body, peephole), args)

(* The environment holds the function f, and vm_call_lambda of it answers  *)
(* what its body means.                                                    *)
Environment ==
  /\ LoadGlobal => Produce(stack, Fun)
  /\ CallOut => \E x \in Meanings(Callee, "p", Arg(2)) : Produce(Drop(2), x)

CNext == Next /\ UNCHANGED source /\ Environment

CSpec == CInit /\ [][CNext]_cvars

-----------------------------------------------------------------------------
(***************************************************************************)
(* What the compiler emits, optimised or not, the verifier accepts: its    *)
(* jumps, slots and stack heights pass.  This is claimed of programs where *)
(* no operator has a branching left operand and a literal right one, which *)
(* peephole_optimize fuses across the end of the branch (JoinPrograms).    *)
(***************************************************************************)
CompiledAccepted == phase # "rejected"

(***************************************************************************)
(* A compiled program that ends returns what it means.  Unoptimised code   *)
(* has one meaning, errors included.  In optimised code an operator on a   *)
(* variable and a literal, or on two variables, may take an operand that   *)
(* is not an integer for 0 (so that a type error is missed, and nil equals *)
(* 0); nothing else may differ.                                            *)
(***************************************************************************)
ResultMatches ==
  LET meanings == Meanings(source.body, "a", source.arg)
  IN outcome # Running /\ Diverges \notin meanings => outcome \in meanings

(***************************************************************************)
(* A compiled program never runs past its last instruction.                *)
(***************************************************************************)
NeverFallsOff == phase = "run" => pc < Len(code)
=============================================================================
