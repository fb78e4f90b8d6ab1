------------------------------ MODULE LambdaVM ------------------------------
(***************************************************************************)
(* The stack machine that runs a compiled lambda:                          *)
(* run_compiled_lambda_inner of src/src/bytecode/mod.rs.  One action per   *)
(* group of opcodes with the same shape.  Program counters and slots start *)
(* at 0 as in the code; code[pc + 1] is the instruction at pc.             *)
(*                                                                         *)
(* Values are a tag and an integer: integers, booleans, nil, and strings   *)
(* and functions whose contents no property looks at.                      *)
(***************************************************************************)
EXTENDS Integers, Sequences

CONSTANTS
  MaxNum,      \* NUM_PAYLOAD_MAX: integers lie in -(MaxNum + 1) .. MaxNum
  MaxInt,      \* i64::MAX
  Budget,      \* lambda_budget: instructions a run may execute
  Replies      \* what a call out of the lambda, or its environment, may answer

ASSUME VMAssumption ==
  /\ MaxNum \in Nat
  /\ MaxInt \in Nat
  /\ Budget \in Nat
  /\ Replies \subseteq [t : {"Num", "Bool", "Nil", "Str", "Fun", "Err"}, v : Int]

VARIABLES
  code,     \* the instructions of the compiled lambda
  params,   \* its num_param_slots
  total,    \* its total_slots
  pc,       \* the program counter
  stack,    \* the operand stack, top last
  slots,    \* parameters and let-bound variables
  frames,   \* callers suspended by CallSelf, innermost last
  ops,      \* instructions executed
  outcome   \* Running, Err or the value returned

lambda == <<code, params, total>>
machine == <<pc, stack, slots, frames, ops, outcome>>

-----------------------------------------------------------------------------
(* Values *)

Num(n)  == [t |-> "Num", v |-> n]
Bool(b) == [t |-> "Bool", v |-> IF b THEN 1 ELSE 0]
Nil     == [t |-> "Nil", v |-> 0]
Str     == [t |-> "Str", v |-> 0]
Fun     == [t |-> "Fun", v |-> 0]
Err     == [t |-> "Err", v |-> 0]
Running == [t |-> "Running", v |-> 0]
Value   == [t : {"Num", "Bool", "Nil", "Str", "Fun", "Err"}, v : Int]

(* is_truthy: nil, false and the integer 0 are false. *)
Truthy(x) == x \notin {Nil, Bool(FALSE), Num(0)}

(* num_val_ref: the integer the fused instructions read from any value. *)
NumVal(x) == IF x.t = "Num" THEN x.v ELSE 0

(* check_num_range: what does not fit a tagged payload is an error. *)
Ranged(n) == IF n \in -(MaxNum + 1) .. MaxNum THEN Num(n) ELSE Err

Abs(n) == IF n < 0 THEN -n ELSE n

(* checked_div: division that truncates towards zero. *)
Quot(x, y) ==
  LET q == Abs(x) \div Abs(y) IN IF (x < 0) = (y < 0) THEN q ELSE -q

Compare(f, x, y) ==
  CASE f = "Lt" -> x < y
    [] f = "Le" -> x <= y
    [] f = "Gt" -> x > y
    [] f = "Ge" -> x >= y
    [] f = "Eq" -> x = y

Cmps  == {"Eq", "Lt", "Le", "Gt", "Ge"}
Binary == Cmps \cup {"Add", "Sub", "Mul", "Div"}

Arith(f, x, y) ==
  CASE f = "Add" -> Ranged(x + y)
    [] f = "Sub" -> Ranged(x - y)
    [] f = "Mul" -> Ranged(x * y)
    [] f = "Div" -> IF y = 0 THEN Err ELSE Ranged(Quot(x, y))

(* num_arith_checked, num_cmp and lisp_eq: only integers compute and are   *)
(* ordered, anything else is an error; everything can be equal.            *)
Generic(f, x, y) ==
  CASE f = "Eq" -> Bool(x = y)
    [] ~(x.t = "Num" /\ y.t = "Num") -> Err
    [] f \in Cmps -> Bool(Compare(f, x.v, y.v))
    [] OTHER -> Arith(f, x.v, y.v)

(* TypedBinOp(f, I64) and Slot*Imm take any operand for an integer. *)
Coerced(f, x, y) == Generic(f, Num(NumVal(x)), Num(NumVal(y)))

-----------------------------------------------------------------------------
(* Instructions *)

(* An instruction: opcode, binary function, slot or count, second slot,    *)
(* immediate, limit, branch target.                                        *)
Ins(k, f, s, imm, addr) ==
  [op |-> k, f |-> f, s |-> s, s2 |-> 0, imm |-> imm, lim |-> 0, addr |-> addr]

OpCodes ==
  {"PushI64", "PushNil", "PushStr", "LoadSlot", "LoadGlobal", "StoreSlot",
   "StoreAndLoadSlot", "Pop", "Dup", "Not", "Bin", "Typed", "SlotImm", "Jump", "JumpIfTrue",
   "JumpIfFalse", "JumpIfSlot", "Recur", "RecurDirect", "RecurIncAccum",
   "BuiltinCall", "CallDynamic", "CallSelf", "Return", "ReturnSlot"}

Instruction == [op : OpCodes, f : Binary, s : Nat, s2 : Nat, imm : Int,
                lim : Int, addr : Nat]

(* Num, Nil or Str pushed by PushI64, PushNil and PushStr. *)
Literal(i) ==
  CASE i.op = "PushI64" -> Num(i.imm)
    [] i.op = "PushNil" -> Nil
    [] i.op = "PushStr" -> Str

Cur == code[pc + 1]

(* stack.pop().unwrap_or(Nil): the k-th value from the top, Nil if there   *)
(* is none; and the stack after n of them.                                 *)
Arg(k) == IF k <= Len(stack) THEN stack[Len(stack) - k + 1] ELSE Nil
Drop(n) == IF n <= Len(stack) THEN SubSeq(stack, 1, Len(stack) - n) ELSE << >>

(* safe_slot. *)
Slot(s) == IF s < Len(slots) THEN slots[s + 1] ELSE Nil

(* slots[s] = v after the slots were extended with Nil up to s. *)
Stored(sl, s, v) ==
  [i \in 1 .. (IF Len(sl) <= s THEN s + 1 ELSE Len(sl)) |->
     IF i = s + 1 THEN v ELSE IF i <= Len(sl) THEN sl[i] ELSE Nil]

(* Parameter slots filled from the arguments, the rest Nil.  CallSelf does  *)
(* not compare their number with that of the parameters.                   *)
FreshSlots(args) ==
  [i \in 1 .. total |-> IF i <= params /\ i <= Len(args) THEN args[i] ELSE Nil]

Start(args) ==
  /\ pc = 0
  /\ stack = << >>
  /\ slots = FreshSlots(args)
  /\ frames = << >>
  /\ ops = 0
  /\ outcome = Running

\* Mutant: a jump does not count against the budget.
Fetch_free(ks) ==
  /\ outcome = Running
  /\ ops < Budget
  /\ pc < Len(code)
  /\ Cur.op \in ks
  /\ ops' = IF Cur.op = "Jump" THEN ops ELSE ops + 1

(* An instruction of one of the kinds ks is fetched. *)
Fetch(ks) ==
  /\ outcome = Running
  /\ ops < Budget
  /\ pc < Len(code)
  /\ Cur.op \in ks
  /\ ops' = ops + 1

Go(stk, sl, to) ==
  /\ stack' = stk
  /\ slots' = sl
  /\ pc' = to
  /\ UNCHANGED <<lambda, frames, outcome>>

Fail == outcome' = Err /\ UNCHANGED <<lambda, pc, stack, slots, frames>>

(* Push x over the stack stk, or end with an error if x is one. *)
Produce(stk, x) ==
  IF x = Err THEN Fail ELSE Go(Append(stk, x), slots, pc + 1)

-----------------------------------------------------------------------------
(* One action per group of opcodes *)

Push == Fetch({"PushI64", "PushNil", "PushStr"}) /\ Produce(stack, Literal(Cur))

LoadSlot == Fetch({"LoadSlot"}) /\ Produce(stack, Slot(Cur.s))

(* LoadGlobal: what the environment holds, or an error if it does not. *)
LoadGlobal == Fetch({"LoadGlobal"}) /\ \E x \in Replies : Produce(stack, x)

StoreSlot ==
  Fetch({"StoreSlot"}) /\ Go(Drop(1), Stored(slots, Cur.s, Arg(1)), pc + 1)

StoreAndLoadSlot ==
  /\ Fetch({"StoreAndLoadSlot"})
  /\ Go(Append(Drop(1), Arg(1)), Stored(slots, Cur.s, Arg(1)), pc + 1)

Pop == Fetch({"Pop"}) /\ Go(Drop(1), slots, pc + 1)

Dup ==
  /\ Fetch({"Dup"})
  /\ Go(IF stack = << >> THEN stack ELSE Append(stack, Arg(1)), slots, pc + 1)

Not == Fetch({"Not"}) /\ Produce(Drop(1), Bool(~Truthy(Arg(1))))

(* Add, Sub, Mul, Div, Eq, Lt, Le, Gt, Ge. *)
BinOp == Fetch({"Bin"}) /\ Produce(Drop(2), Generic(Cur.f, Arg(2), Arg(1)))

TypedBinOp ==
  Fetch({"Typed"}) /\ Produce(Drop(2), Coerced(Cur.f, Arg(2), Arg(1)))

(* SlotAddImm .. SlotGeImm. *)
SlotImm ==
  Fetch({"SlotImm"}) /\ Produce(stack, Coerced(Cur.f, Slot(Cur.s), Num(Cur.imm)))

Jump == Fetch({"Jump"}) /\ Go(stack, slots, Cur.addr)

JumpIf ==
  /\ Fetch({"JumpIfTrue", "JumpIfFalse"})
  /\ Go(Drop(1), slots,
        IF Truthy(Arg(1)) = (Cur.op = "JumpIfTrue") THEN Cur.addr ELSE pc + 1)

(* JumpIfSlotLtImm .. JumpIfSlotEqImm. *)
JumpIfSlot ==
  /\ Fetch({"JumpIfSlot"})
  /\ Go(stack, slots,
        IF Compare(Cur.f, NumVal(Slot(Cur.s)), Cur.imm) THEN Cur.addr ELSE pc + 1)

(* Recur(n), RecurDirect(n): the n topmost values become slots 0 .. n - 1. *)
Recur ==
  /\ Fetch({"Recur", "RecurDirect"})
  /\ Go(Drop(Cur.s),
        [i \in 1 .. (IF Len(slots) < Cur.s THEN Cur.s ELSE Len(slots)) |->
           IF i <= Cur.s THEN Arg(Cur.s - i + 1) ELSE slots[i]],
        0)

(* RecurIncAccum(counter, accum, step, limit, exit).  Only the sum is      *)
(* checked against the payload range, the counter against that of i64.     *)
RecurIncAccum ==
  /\ Fetch({"RecurIncAccum"})
  /\ LET cv  == NumVal(Slot(Cur.s))
         sum == Ranged(NumVal(Slot(Cur.s2)) + cv)
     IN IF cv >= Cur.lim THEN Go(stack, slots, Cur.addr)
        ELSE IF sum = Err \/ cv + Cur.imm \notin -(MaxInt + 1) .. MaxInt THEN Fail
        ELSE Go(stack,
                Stored(Stored(slots, Cur.s2, sum), Cur.s, Num(cv + Cur.imm)), 0)

(* BuiltinCall, CallCaptured, CallCapturedRef (s arguments) and            *)
(* CallDynamic (one more): what is called answers a value or an error.     *)
CallOut ==
  /\ Fetch({"BuiltinCall", "CallDynamic"})
  /\ \E x \in Replies :
       Produce(Drop(IF Cur.op = "CallDynamic" THEN Cur.s + 1 ELSE Cur.s), x)

(* The frame is saved without the arguments; the callee starts on an empty *)
(* stack with fresh slots.                                                 *)
CallSelf ==
  /\ Fetch({"CallSelf"})
  /\ frames' = Append(frames, [pc |-> pc + 1, stack |-> Drop(Cur.s), slots |-> slots])
  /\ stack' = << >>
  /\ slots' = FreshSlots([i \in 1 .. Cur.s |-> Arg(Cur.s - i + 1)])
  /\ pc' = 0
  /\ UNCHANGED <<lambda, outcome>>

(* Leave the frame with x: to the caller, or out of the lambda. *)
Leave(x) ==
  IF frames = << >>
  THEN outcome' = x /\ UNCHANGED <<lambda, pc, stack, slots, frames>>
  ELSE LET f == frames[Len(frames)]
       IN /\ stack' = Append(f.stack, x)
          /\ slots' = f.slots
          /\ pc' = f.pc
          /\ frames' = SubSeq(frames, 1, Len(frames) - 1)
          /\ UNCHANGED <<lambda, outcome>>

Return == Fetch({"Return"}) /\ Leave(Arg(1))
ReturnSlot == Fetch({"ReturnSlot"}) /\ Leave(Slot(Cur.s))

(* Falling off the code, or spending the budget, is an error. *)
OutOfBounds ==
  /\ outcome = Running
  /\ pc >= Len(code) \/ ops >= Budget
  /\ ops' = ops + 1
  /\ Fail

Exec ==
  \/ Push \/ LoadSlot \/ LoadGlobal \/ StoreSlot \/ StoreAndLoadSlot \/ Pop \/ Dup \/ Not
  \/ BinOp \/ TypedBinOp \/ SlotImm
  \/ Jump \/ JumpIf \/ JumpIfSlot \/ Recur \/ RecurIncAccum
  \/ CallOut \/ CallSelf \/ Return \/ ReturnSlot
  \/ OutOfBounds
=============================================================================
