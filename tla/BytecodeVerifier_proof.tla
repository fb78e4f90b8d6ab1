----------------------- MODULE BytecodeVerifier_proof -----------------------
(***************************************************************************)
(* What verify_bytecode promises about the lambdas it accepts, for code of *)
(* any length, any arguments, any replies of the calls it makes and any    *)
(* limits.                                                                 *)
(*                                                                         *)
(* The argument: an entry of heights that left the worklist is Settled,    *)
(* that is, its height agrees with that of all its successors.  When the   *)
(* worklist is empty every known pc is settled, so a step of the machine   *)
(* from a known pc, with as many values on its stack as the height says,   *)
(* ends at a known pc in the same situation.  A suspended frame waits at   *)
(* the successor of a CallSelf for one more value than it has.             *)
(***************************************************************************)
EXTENDS BytecodeVerifier, FiniteSetTheorems, TLAPS

(* The table of stack_effect gives Dup another effect than the machine.    *)
Inexact == {"Dup"}
Exact == \A j \in 1 .. Len(code) : code[j].op \notin Inexact

Settled(p) ==
  /\ heights[p] >= Pops(code[p + 1])
  /\ After(p) <= MaxStackDepth
  /\ \A q \in Successors(p) \cap Pcs : heights[q] = After(p)

LambdaInv ==
  /\ code \in Seq(Instruction)
  /\ total \in Nat
  /\ Exact

HeightsInv ==
  /\ heights \in [Pcs -> Nat \cup {Unknown}]
  /\ \A p \in Pcs : p = 0 => heights[p] = 0
  /\ \A p \in Pcs : heights[p] <= MaxStackDepth
  /\ worklist \subseteq Pcs
  /\ \A p \in worklist : heights[p] # Unknown
  /\ \A p \in Pcs \ worklist : heights[p] # Unknown => Settled(p)
  /\ iterations \in Nat

PhaseInv ==
  /\ phase \in {"verify", "run", "rejected"}
  /\ phase = "run" => worklist = {} /\ StructureOK

(* The machine stands at a known pc with the stack the verifier expects. *)
AtKnown ==
  /\ pc \in 0 .. Len(code)
  /\ pc < Len(code) => heights[pc] # Unknown /\ Len(stack) = heights[pc]
  /\ pc = Len(code) /\ code # << >> => pc \in Successors(pc - 1)

Frame == [pc : Nat, stack : Seq(Value), slots : Seq(Value)]

FrameOK(f) ==
  /\ f.pc \in 1 .. Len(code)
  /\ code[f.pc].op = "CallSelf"
  /\ heights[f.pc - 1] # Unknown
  /\ f.stack \in Seq(Value)
  /\ Len(f.stack) = heights[f.pc - 1] - code[f.pc].s
  /\ f.slots \in Seq(Value)
  /\ Len(f.slots) = total

MachineInv ==
  /\ stack \in Seq(Value)
  /\ slots \in Seq(Value)
  /\ Len(slots) = total
  /\ frames \in Seq(Frame)
  /\ phase # "run" => pc = 0 /\ stack = << >> /\ frames = << >>
  /\ phase = "run" => AtKnown /\ \A k \in 1 .. Len(frames) : FrameOK(frames[k])

IInv == LambdaInv /\ HeightsInv /\ PhaseInv /\ MachineInv

-----------------------------------------------------------------------------
(* What the machine's helpers return *)

(* The values on which the machine computes stay values: the arithmetic    *)
(* and comparison helpers return a tag and an integer.                     *)
LEMMA GenericType ==
  ASSUME NEW f \in Binary, NEW x \in Value, NEW y \in Value
  PROVE  Generic(f, x, y) \in Value
<1>1. \A n \in Int : Ranged(n) \in Value
  BY VMAssumption DEF Ranged, Value, Num, Err
<1>3. x.v \in Int /\ y.v \in Int
  BY DEF Value
<1>4. CASE f \in Cmps
  <2>1. Bool(x = y) \in Value /\ Bool(Compare(f, x.v, y.v)) \in Value
    BY DEF Bool, Value
  <2>2. Err \in Value
    BY DEF Err, Value
  <2> QED BY <1>4, <2>1, <2>2 DEF Generic
<1>5. CASE f \notin Cmps
  <2>1. y.v # 0 => Quot(x.v, y.v) \in Int
    BY <1>3 DEF Quot, Abs
  <2>2. Arith(f, x.v, y.v) \in Value
    BY <1>1, <1>3, <1>5, <2>1 DEF Arith, Binary, Cmps, Err, Value
  <2> QED BY <1>5, <2>2 DEF Generic, Err, Value, Cmps
<1> QED BY <1>4, <1>5

(* What the fused instructions compute is a value. *)
LEMMA CoercedType ==
  ASSUME NEW f \in Binary, NEW x \in Value, NEW y \in Value
  PROVE  Coerced(f, x, y) \in Value
<1>1. Num(NumVal(x)) \in Value /\ Num(NumVal(y)) \in Value
  BY DEF Num, NumVal, Value
<1> QED BY <1>1, GenericType DEF Coerced

(* Popping n values that are there leaves n fewer. *)
LEMMA DropLen ==
  ASSUME stack \in Seq(Value), NEW n \in Nat, n <= Len(stack)
  PROVE  Drop(n) \in Seq(Value) /\ Len(Drop(n)) = Len(stack) - n
BY DEF Drop

(* The value popped from an empty stack is a value. *)
LEMMA NilType == Nil \in Value
BY DEF Nil, Value

(* An operand read from the stack is a value, present or not. *)
LEMMA ArgType ==
  ASSUME stack \in Seq(Value), NEW k \in Nat \ {0}
  PROVE  Arg(k) \in Value
BY NilType DEF Arg

(* A slot read is a value, present or not. *)
LEMMA SlotType ==
  ASSUME slots \in Seq(Value), NEW s \in Nat
  PROVE  Slot(s) \in Value
BY NilType DEF Slot

(* Storing in a slot that exists leaves the number of slots as it was. *)
LEMMA StoredLen ==
  ASSUME NEW sl \in Seq(Value), NEW s \in Nat, s < Len(sl), NEW v \in Value
  PROVE  Stored(sl, s, v) \in Seq(Value) /\ Len(Stored(sl, s, v)) = Len(sl)
<1>1. Stored(sl, s, v) = [i \in 1 .. Len(sl) |-> IF i = s + 1 THEN v ELSE sl[i]]
  BY DEF Stored
<1> QED BY <1>1

(* Fresh slots are total_slots values. *)
LEMMA FreshLen ==
  ASSUME NEW args, \A i \in 1 .. Len(args) : args[i] \in Value, Len(args) \in Nat,
         total \in Nat
  PROVE  FreshSlots(args) \in Seq(Value) /\ Len(FreshSlots(args)) = total
BY NilType DEF FreshSlots

-----------------------------------------------------------------------------
(* One step of the machine from a known pc *)

(* stack_effect counts values. *)
LEMMA EffectType ==
  ASSUME NEW i \in Instruction
  PROVE  Pops(i) \in Nat /\ Pushes(i) \in {0, 1}
BY DEF Pops, Pushes, Instruction

(* A machine about to execute stands at a settled pc, with the stack the   *)
(* verifier expects, before an instruction every pass accepted.            *)
LEMMA AtSettled ==
  ASSUME IInv, phase = "run", pc < Len(code)
  PROVE  /\ pc \in Pcs
         /\ Cur \in Instruction
         /\ Cur.op \notin Inexact
         /\ ControlFlowOK(Cur) /\ SlotsOK(Cur)
         /\ Settled(pc)
         /\ Pops(Cur) <= Len(stack)
         /\ After(pc) = Len(stack) - Pops(Cur) + Pushes(Cur)
         /\ After(pc) \in Nat
<1>1. pc \in Pcs /\ pc + 1 \in 1 .. Len(code)
  BY DEF IInv, LambdaInv, MachineInv, AtKnown, Pcs
<1>2. Cur \in Instruction /\ Cur.op \notin Inexact
  BY <1>1 DEF IInv, LambdaInv, Exact, Cur
<1>3. ControlFlowOK(Cur) /\ SlotsOK(Cur)
  BY <1>1 DEF IInv, PhaseInv, StructureOK, Cur
<1>4. Len(stack) = heights[pc] /\ heights[pc] # Unknown
  BY DEF IInv, MachineInv, AtKnown
<1>5. Settled(pc)
  BY <1>1, <1>4 DEF IInv, HeightsInv, PhaseInv
<1>6. heights[pc] \in Nat
  BY <1>1, <1>4 DEF IInv, HeightsInv
<1>7. Pops(Cur) \in Nat /\ Pushes(Cur) \in {0, 1}
  BY <1>2, EffectType
<1>8. heights[pc] >= Pops(Cur) /\ After(pc) = heights[pc] - Pops(Cur) + Pushes(Cur)
  BY <1>5 DEF Settled, After, Cur
<1> QED BY <1>1, <1>2, <1>3, <1>4, <1>5, <1>6, <1>7, <1>8

(* A successor is in the code or just past it, and past it only from the   *)
(* last instruction.                                                       *)
LEMMA SuccessorRange ==
  ASSUME IInv, phase = "run", pc < Len(code), NEW q \in Successors(pc)
  PROVE  /\ q \in 0 .. Len(code)
         /\ q = Len(code) => q = pc + 1
<1>1. pc \in Nat /\ pc < Len(code) /\ Len(code) \in Nat
  BY DEF IInv, LambdaInv, MachineInv, AtKnown
<1>2. Cur \in Instruction /\ ControlFlowOK(Cur)
  BY AtSettled
<1>3. Cur.op \in Branches => Cur.addr \in Nat /\ Cur.addr < Len(code)
  BY <1>2 DEF ControlFlowOK, Instruction
<1>4. q \in {0, pc + 1} \/ (Cur.op \in Branches /\ q = Cur.addr)
  BY DEF Successors, Cur, Branches
<1> QED BY <1>1, <1>3, <1>4

(* Going on to a successor with the stack the verifier computed keeps the  *)
(* machine where it is expected.                                           *)
LEMMA Advance ==
  ASSUME IInv, phase = "run", pc < Len(code),
         NEW q \in Successors(pc), NEW stk \in Seq(Value), Len(stk) = After(pc)
  PROVE  /\ q \in 0 .. Len(code)
         /\ q < Len(code) => heights[q] # Unknown /\ Len(stk) = heights[q]
         /\ q = Len(code) => q \in Successors(q - 1)
<1>1. q \in 0 .. Len(code) /\ (q = Len(code) => q = pc + 1)
  BY SuccessorRange
<1>2. Settled(pc) /\ After(pc) \in Nat
  BY AtSettled
<1>3. q < Len(code) => q \in Successors(pc) \cap Pcs
  BY <1>1 DEF Pcs, IInv, LambdaInv
<1>4. q < Len(code) => heights[q] = After(pc)
  BY <1>2, <1>3 DEF Settled
<1>5. pc \in Nat
  BY DEF IInv, MachineInv, AtKnown
<1> QED BY <1>1, <1>2, <1>4, <1>5 DEF Unknown

(* A step to a successor with the height computed there keeps the invariant. *)
LEMMA GoStep ==
  ASSUME IInv, phase = "run", pc < Len(code), UNCHANGED vvars,
         NEW stk \in Seq(Value), NEW sl \in Seq(Value), NEW q \in Successors(pc),
         Len(stk) = After(pc), Len(sl) = total, Go(stk, sl, q)
  PROVE  MachineInv'
<1>1. AtKnown'
  BY Advance DEF AtKnown, Go, lambda, vvars, Successors
<1>2. \A k \in 1 .. Len(frames') : FrameOK(frames[k])'
  BY DEF FrameOK, Go, lambda, vvars, IInv, MachineInv
<1> QED BY <1>1, <1>2 DEF MachineInv, IInv, Go, lambda, vvars

(* A step that ends with an error keeps the invariant. *)
LEMMA FailStep ==
  ASSUME IInv, UNCHANGED vvars, Fail
  PROVE  MachineInv'
BY DEF MachineInv, IInv, Fail, lambda, vvars, AtKnown, FrameOK, Successors

(* An instruction that pops, and pushes one value, keeps the invariant. *)
LEMMA ProduceStep ==
  ASSUME IInv, phase = "run", pc < Len(code), UNCHANGED vvars,
         NEW stk \in Seq(Value), NEW x \in Value, pc + 1 \in Successors(pc),
         Len(stk) + 1 = After(pc), Produce(stk, x)
  PROVE  MachineInv'
<1>1. CASE x = Err
  BY <1>1, FailStep DEF Produce
<1>2. CASE x # Err
  <2>1. Append(stk, x) \in Seq(Value) /\ Len(Append(stk, x)) = After(pc)
    OBVIOUS
  <2>2. slots \in Seq(Value) /\ Len(slots) = total
    BY DEF IInv, MachineInv
  <2> QED BY <1>2, <2>1, <2>2, GoStep DEF Produce
<1> QED BY <1>1, <1>2

(* A sequence without its last entry. *)
LEMMA PopLast ==
  ASSUME NEW S, NEW s \in Seq(S), Len(s) \in 1 .. Len(s)
  PROVE  /\ SubSeq(s, 1, Len(s) - 1) \in Seq(S)
         /\ \A k \in 1 .. Len(SubSeq(s, 1, Len(s) - 1)) :
              k \in 1 .. Len(s) /\ SubSeq(s, 1, Len(s) - 1)[k] = s[k]
<1>1. Len(s) \in Nat /\ Len(s) >= 1
  OBVIOUS
<1>2. SubSeq(s, 1, Len(s) - 1) = [k \in 1 .. Len(s) - 1 |-> s[k]]
  BY <1>1
<1> QED BY <1>1, <1>2

(* Leaving a frame hands its value to the caller, who waits right after a  *)
(* CallSelf for exactly that value.                                        *)
LEMMA LeaveStep ==
  ASSUME IInv, phase = "run", UNCHANGED vvars, NEW x \in Value, Leave(x)
  PROVE  MachineInv'
<1>1. CASE frames = << >>
  BY <1>1 DEF Leave, MachineInv, IInv, lambda, vvars, AtKnown, FrameOK, Successors
<1>2. CASE frames # << >>
  <2> PICK f : f = frames[Len(frames)]
    OBVIOUS
  <2> PICK p : p = f.pc - 1
    OBVIOUS
  <2>1. /\ frames \in Seq(Frame)
        /\ Len(frames) \in 1 .. Len(frames)
    BY <1>2 DEF IInv, MachineInv
  <2>2. FrameOK(f)
    BY <2>1 DEF IInv, MachineInv
  <2>3. /\ stack' = Append(f.stack, x) /\ slots' = f.slots /\ pc' = f.pc
        /\ frames' = SubSeq(frames, 1, Len(frames) - 1)
        /\ UNCHANGED <<lambda, vvars>>
    BY <1>2 DEF Leave
  <2>4. /\ p \in Pcs /\ code[p + 1].op = "CallSelf" /\ heights[p] # Unknown
        /\ code[p + 1] \in Instruction
        /\ f.stack \in Seq(Value) /\ Len(f.stack) = heights[p] - code[p + 1].s
        /\ f.slots \in Seq(Value) /\ Len(f.slots) = total
        /\ p + 1 = f.pc
    BY <2>2 DEF FrameOK, Pcs, IInv, LambdaInv
  <2>5. Settled(p) /\ heights[p] \in Nat
    BY <2>4 DEF IInv, HeightsInv, PhaseInv
  <2>6. /\ Pops(code[p + 1]) = code[p + 1].s
        /\ Pushes(code[p + 1]) = 1
        /\ Successors(p) = {p + 1}
    BY <2>4 DEF Pops, Pushes, Successors
  <2>7. Len(Append(f.stack, x)) = After(p) /\ Append(f.stack, x) \in Seq(Value)
    BY <2>4, <2>5, <2>6 DEF After, Instruction
  <2>8. f.pc < Len(code) => heights[f.pc] = After(p)
    BY <2>4, <2>5, <2>6, SMTT(30) DEF Settled, Pcs, IInv, LambdaInv
  <2>9. After(p) \in Nat
    BY <2>4, <2>7
  <2>10. AtKnown'
    <3>1. f.pc \in 0 .. Len(code) /\ f.pc \in Successors(f.pc - 1)
      BY <2>4, <2>6 DEF Pcs
    <3>2. /\ code' = code /\ heights' = heights /\ pc' = f.pc
          /\ stack' = Append(f.stack, x)
      BY <2>3 DEF lambda, vvars
    <3>3. Successors(pc - 1)' = Successors(f.pc - 1)
      BY <3>2, Zenon DEF Successors
    <3>4. f.pc < Len(code) =>
            heights[f.pc] # Unknown /\ Len(Append(f.stack, x)) = heights[f.pc]
      BY <2>7, <2>8, <2>9 DEF Unknown
    <3> QED BY <3>1, <3>2, <3>3, <3>4 DEF AtKnown
  <2>11. \A k \in 1 .. Len(frames') : FrameOK(frames[k])'
    <3>1. \A k \in 1 .. Len(frames') : k \in 1 .. Len(frames) /\ frames'[k] = frames[k]
      BY <2>1, <2>3, PopLast
    <3>2. \A k \in 1 .. Len(frames) : FrameOK(frames[k])
      BY DEF IInv, MachineInv
    <3>3. \A k \in 1 .. Len(frames') : FrameOK(frames'[k])
      BY <3>1, <3>2
    <3> QED BY <2>3, <3>3 DEF FrameOK, lambda, vvars
  <2>12. frames' \in Seq(Frame)
    BY <2>1, <2>3, PopLast
  <2>13. stack' \in Seq(Value) /\ slots' \in Seq(Value) /\ Len(slots') = total'
    BY <2>3, <2>4, <2>7 DEF lambda
  <2>14. phase' = "run"
    BY <2>3 DEF vvars
  <2> QED BY <2>10, <2>11, <2>12, <2>13, <2>14 DEF MachineInv
<1> QED BY <1>1, <1>2

(* CallSelf suspends the caller one value short and enters the code at 0,  *)
(* whose height is 0, with an empty stack.                                 *)
LEMMA CallSelfStep ==
  ASSUME IInv, phase = "run", UNCHANGED vvars, CallSelf
  PROVE  MachineInv'
<1> DEFINE f == [pc |-> pc + 1, stack |-> Drop(Cur.s), slots |-> slots]
           args == [i \in 1 .. Cur.s |-> Arg(Cur.s - i + 1)]
<1>1. /\ pc < Len(code) /\ Cur.op = "CallSelf"
      /\ frames' = Append(frames, f) /\ stack' = << >> /\ slots' = FreshSlots(args)
      /\ pc' = 0 /\ UNCHANGED <<lambda, vvars>>
  BY DEF CallSelf, Fetch
<1>2. /\ pc \in Pcs /\ Cur \in Instruction /\ Cur.s \in Nat
      /\ Pops(Cur) <= Len(stack)
  BY <1>1, AtSettled DEF Instruction
<1>3. Pops(Cur) = Cur.s
  BY <1>1 DEF Pops
<1>4. /\ stack \in Seq(Value) /\ slots \in Seq(Value) /\ Len(slots) = total
      /\ total \in Nat
      /\ frames \in Seq(Frame)
      /\ Len(code) \in Nat
      /\ Len(stack) = heights[pc] /\ heights[pc] # Unknown
  BY <1>1 DEF IInv, LambdaInv, MachineInv, AtKnown
<1>5. Drop(Cur.s) \in Seq(Value) /\ Len(Drop(Cur.s)) = Len(stack) - Cur.s
  BY <1>2, <1>3, <1>4, DropLen
<1>6. /\ f \in Frame
      /\ f.pc = pc + 1 /\ f.stack = Drop(Cur.s) /\ f.slots = slots
  BY <1>2, <1>4, <1>5 DEF Pcs, Frame
<1>7. FrameOK(f)
  <2> HIDE DEF f
  <2>1. f.pc \in 1 .. Len(code) /\ f.pc - 1 = pc /\ code[f.pc] = Cur
    BY <1>2, <1>4, <1>6, SMTT(30) DEF Cur, Pcs
  <2> QED BY <1>1, <1>4, <1>5, <1>6, <2>1 DEF FrameOK
<1>8. \A i \in 1 .. Len(args) : args[i] \in Value
  <2>1. \A i \in 1 .. Cur.s : Cur.s - i + 1 \in Nat \ {0}
    BY <1>2
  <2>2. Len(args) = Cur.s
    BY <1>2
  <2> QED BY <1>2, <1>4, <2>1, <2>2, ArgType
<1>9. FreshSlots(args) \in Seq(Value) /\ Len(FreshSlots(args)) = total
  <2>1. Len(args) \in Nat
    BY <1>2
  <2> HIDE DEF args
  <2> QED BY <1>4, <1>8, <2>1, FreshLen
<1>10. AtKnown'
  <2>1. 0 \in Pcs /\ heights[0] = 0 /\ 0 < Len(code)
    BY <1>2, <1>4 DEF Pcs, IInv, HeightsInv
  <2> QED BY <1>1, <1>4, <2>1 DEF AtKnown, lambda, vvars, Unknown
<1>11. \A k \in 1 .. Len(frames') : FrameOK(frames[k])'
  <2> HIDE DEF f
  <2>1. \A k \in 1 .. Len(frames') : FrameOK(frames'[k])
    BY <1>1, <1>4, <1>6, <1>7 DEF IInv, MachineInv
  <2> QED BY <1>1, <2>1 DEF FrameOK, lambda, vvars
<1>12. frames' \in Seq(Frame)
  <2> HIDE DEF f
  <2> QED BY <1>1, <1>4, <1>6
<1>13. phase' = "run" /\ total' = total
  BY <1>1 DEF vvars, lambda
<1> HIDE DEF f, args
<1> QED BY <1>1, <1>9, <1>10, <1>11, <1>12, <1>13 DEF MachineInv

(* Recur leaves the number of slots as it was: it fills no more than there *)
(* are.                                                                    *)
LEMMA RecurStep ==
  ASSUME IInv, phase = "run", UNCHANGED vvars, Recur
  PROVE  MachineInv'
<1> DEFINE sl == [i \in 1 .. (IF Len(slots) < Cur.s THEN Cur.s ELSE Len(slots)) |->
                    IF i <= Cur.s THEN Arg(Cur.s - i + 1) ELSE slots[i]]
<1>1. /\ pc < Len(code) /\ Cur.op \in {"Recur", "RecurDirect"}
      /\ Go(Drop(Cur.s), sl, 0)
  BY DEF Recur, Fetch
<1>2. /\ Cur \in Instruction /\ Cur.s \in Nat /\ SlotsOK(Cur)
      /\ Pops(Cur) <= Len(stack)
      /\ After(pc) = Len(stack) - Pops(Cur) + Pushes(Cur)
  BY <1>1, AtSettled DEF Instruction
<1>3. stack \in Seq(Value) /\ slots \in Seq(Value) /\ Len(slots) = total /\ total \in Nat
  BY DEF IInv, LambdaInv, MachineInv
<1>4. Pops(Cur) = Cur.s /\ Pushes(Cur) = 0 /\ 0 \in Successors(pc)
  BY <1>1 DEF Pops, Pushes, Successors, Cur
<1>5. Cur.s <= total
  BY <1>1, <1>2, <1>3 DEF SlotsOK, Slotted
<1>6. Drop(Cur.s) \in Seq(Value) /\ Len(Drop(Cur.s)) = After(pc)
  BY <1>2, <1>3, <1>4, DropLen
<1>7. sl \in Seq(Value) /\ Len(sl) = total
  <2>1. \A i \in 1 .. total : i <= Cur.s => Arg(Cur.s - i + 1) \in Value
    BY <1>2, <1>3, ArgType
  <2>2. sl = [i \in 1 .. total |-> IF i <= Cur.s THEN Arg(Cur.s - i + 1) ELSE slots[i]]
    BY <1>2, <1>3, <1>5
  <2> HIDE DEF sl
  <2> QED BY <1>2, <1>3, <2>1, <2>2
<1> HIDE DEF sl
<1> QED BY <1>1, <1>4, <1>6, <1>7, GoStep

(* RecurIncAccum rewrites two slots that exist and leaves the stack alone. *)
LEMMA RecurIncAccumStep ==
  ASSUME IInv, phase = "run", UNCHANGED vvars, RecurIncAccum
  PROVE  MachineInv'
<1> DEFINE cv  == NumVal(Slot(Cur.s))
           sum == Ranged(NumVal(Slot(Cur.s2)) + cv)
           one == Stored(slots, Cur.s2, sum)
           two == Stored(one, Cur.s, Num(cv + Cur.imm))
<1>1. /\ pc < Len(code) /\ Cur.op = "RecurIncAccum"
      /\ \/ Go(stack, slots, Cur.addr)
         \/ Fail
         \/ Go(stack, two, 0)
  BY DEF RecurIncAccum, Fetch
<1>2. /\ Cur \in Instruction /\ Cur.s \in Nat /\ Cur.s2 \in Nat /\ Cur.imm \in Int
      /\ SlotsOK(Cur)
      /\ After(pc) = Len(stack) - Pops(Cur) + Pushes(Cur)
  BY <1>1, AtSettled DEF Instruction
<1>3. stack \in Seq(Value) /\ slots \in Seq(Value) /\ Len(slots) = total /\ total \in Nat
  BY DEF IInv, LambdaInv, MachineInv
<1>4. /\ Pops(Cur) = 0 /\ Pushes(Cur) = 0
      /\ 0 \in Successors(pc) /\ Cur.addr \in Successors(pc)
  BY <1>1 DEF Pops, Pushes, Successors, Cur
<1>5. Cur.s < total /\ Cur.s2 < total
  BY <1>1, <1>2 DEF SlotsOK, Slotted
<1>6. Len(stack) = After(pc)
  BY <1>2, <1>3, <1>4
<1>7. cv \in Int /\ NumVal(Slot(Cur.s2)) \in Int
  BY <1>2, <1>3, SlotType DEF NumVal, Value
<1>8. sum \in Value /\ Num(cv + Cur.imm) \in Value
  <2> HIDE DEF cv
  <2> QED BY <1>2, <1>7 DEF Ranged, Num, Err, Value
<1>9. one \in Seq(Value) /\ Len(one) = total
  <2> HIDE DEF sum
  <2> QED BY <1>2, <1>3, <1>5, <1>8, StoredLen
<1>10. two \in Seq(Value) /\ Len(two) = total
  <2> HIDE DEF one, cv
  <2> QED BY <1>2, <1>5, <1>8, <1>9, StoredLen
<1> HIDE DEF two
<1> QED BY <1>1, <1>3, <1>4, <1>6, <1>10, GoStep, FailStep

(* Every instruction the table describes exactly keeps the machine where   *)
(* the verifier expects it.                                                *)
LEMMA ExecStep ==
  ASSUME IInv, phase = "run", UNCHANGED vvars, Exec
  PROVE  MachineInv'
<1>1. stack \in Seq(Value) /\ slots \in Seq(Value) /\ Len(slots) = total
      /\ total \in Nat /\ Len(stack) \in Nat /\ pc \in Nat
  BY DEF IInv, LambdaInv, MachineInv, AtKnown
<1>2. pc < Len(code) =>
        /\ Cur \in Instruction /\ Cur.op \notin Inexact /\ SlotsOK(Cur)
        /\ Pops(Cur) <= Len(stack) /\ Pops(Cur) \in Nat
        /\ After(pc) = Len(stack) - Pops(Cur) + Pushes(Cur)
        /\ Cur.s \in Nat /\ Cur.imm \in Int /\ Cur.f \in Binary
        /\ Drop(Pops(Cur)) \in Seq(Value)
        /\ Len(Drop(Pops(Cur))) = Len(stack) - Pops(Cur)
  BY <1>1, AtSettled, EffectType, DropLen DEF Instruction
<1>3. Arg(1) \in Value /\ Arg(2) \in Value
  BY <1>1, ArgType
<1>4. ASSUME pc < Len(code) PROVE Slot(Cur.s) \in Value
  BY <1>1, <1>2, <1>4, SlotType
<1>5. CASE Push
  <2>1. pc < Len(code) /\ Cur.op \in {"PushI64", "PushNil", "PushStr"}
        /\ Produce(stack, Literal(Cur))
    BY <1>5 DEF Push, Fetch
  <2>2. Pops(Cur) = 0 /\ Pushes(Cur) = 1 /\ pc + 1 \in Successors(pc)
    BY <2>1 DEF Pops, Pushes, Successors, Cur
  <2>3. Literal(Cur) \in Value
    BY <1>2, <2>1 DEF Literal, Num, Nil, Str, Value
  <2> QED BY <1>1, <1>2, <2>1, <2>2, <2>3, ProduceStep
<1>6. CASE LoadSlot
  <2>1. pc < Len(code) /\ Cur.op = "LoadSlot" /\ Produce(stack, Slot(Cur.s))
    BY <1>6 DEF LoadSlot, Fetch
  <2>2. Pops(Cur) = 0 /\ Pushes(Cur) = 1 /\ pc + 1 \in Successors(pc)
    BY <2>1 DEF Pops, Pushes, Successors, Cur
  <2> QED BY <1>1, <1>2, <1>4, <2>1, <2>2, ProduceStep
<1>7. CASE StoreSlot
  <2>1. pc < Len(code) /\ Cur.op = "StoreSlot"
        /\ Go(Drop(1), Stored(slots, Cur.s, Arg(1)), pc + 1)
    BY <1>7 DEF StoreSlot, Fetch
  <2>2. Pops(Cur) = 1 /\ Pushes(Cur) = 0 /\ pc + 1 \in Successors(pc)
    BY <2>1 DEF Pops, Pushes, Successors, Cur
  <2>3. Cur.s < Len(slots)
    BY <1>1, <1>2, <2>1 DEF SlotsOK, Slotted
  <2>4. Stored(slots, Cur.s, Arg(1)) \in Seq(Value)
        /\ Len(Stored(slots, Cur.s, Arg(1))) = total
    BY <1>1, <1>2, <1>3, <2>1, <2>3, StoredLen
  <2> QED BY <1>1, <1>2, <2>1, <2>2, <2>4, GoStep
<1>8. CASE StoreAndLoadSlot
  <2>1. pc < Len(code) /\ Cur.op = "StoreAndLoadSlot"
        /\ Go(Append(Drop(1), Arg(1)), Stored(slots, Cur.s, Arg(1)), pc + 1)
    BY <1>8 DEF StoreAndLoadSlot, Fetch
  <2>2. Pops(Cur) = 1 /\ Pushes(Cur) = 1 /\ pc + 1 \in Successors(pc)
    BY <2>1 DEF Pops, Pushes, Successors, Cur
  <2>3. Cur.s < Len(slots)
    BY <1>1, <1>2, <2>1 DEF SlotsOK, Slotted
  <2>4. Stored(slots, Cur.s, Arg(1)) \in Seq(Value)
        /\ Len(Stored(slots, Cur.s, Arg(1))) = total
    BY <1>1, <1>2, <1>3, <2>1, <2>3, StoredLen
  <2>5. Append(Drop(1), Arg(1)) \in Seq(Value) /\ Len(Append(Drop(1), Arg(1))) = After(pc)
    BY <1>1, <1>2, <1>3, <2>1, <2>2
  <2> QED BY <2>1, <2>2, <2>4, <2>5, GoStep
<1>9. CASE Pop
  <2>1. pc < Len(code) /\ Cur.op = "Pop" /\ Go(Drop(1), slots, pc + 1)
    BY <1>9 DEF Pop, Fetch
  <2>2. Pops(Cur) = 1 /\ Pushes(Cur) = 0 /\ pc + 1 \in Successors(pc)
    BY <2>1 DEF Pops, Pushes, Successors, Cur
  <2> QED BY <1>1, <1>2, <2>1, <2>2, GoStep
<1>10. CASE Dup
  BY <1>2, <1>10 DEF Dup, Fetch, Inexact
<1>11. CASE Not
  <2>1. pc < Len(code) /\ Cur.op = "Not" /\ Produce(Drop(1), Bool(~Truthy(Arg(1))))
    BY <1>11 DEF Not, Fetch
  <2>2. Pops(Cur) = 1 /\ Pushes(Cur) = 1 /\ pc + 1 \in Successors(pc)
    BY <2>1 DEF Pops, Pushes, Successors, Cur
  <2>3. Bool(~Truthy(Arg(1))) \in Value
    BY DEF Bool, Value
  <2> QED BY <1>1, <1>2, <2>1, <2>2, <2>3, ProduceStep
<1>12. CASE BinOp
  <2>1. pc < Len(code) /\ Cur.op = "Bin" /\ Produce(Drop(2), Generic(Cur.f, Arg(2), Arg(1)))
    BY <1>12 DEF BinOp, Fetch
  <2>2. Pops(Cur) = 2 /\ Pushes(Cur) = 1 /\ pc + 1 \in Successors(pc)
    BY <2>1 DEF Pops, Pushes, Successors, Cur
  <2>3. Generic(Cur.f, Arg(2), Arg(1)) \in Value
    BY <1>2, <1>3, <2>1, GenericType
  <2> QED BY <1>1, <1>2, <2>1, <2>2, <2>3, ProduceStep
<1>13. CASE TypedBinOp
  <2>1. pc < Len(code) /\ Cur.op = "Typed" /\ Produce(Drop(2), Coerced(Cur.f, Arg(2), Arg(1)))
    BY <1>13 DEF TypedBinOp, Fetch
  <2>2. Pops(Cur) = 2 /\ Pushes(Cur) = 1 /\ pc + 1 \in Successors(pc)
    BY <2>1 DEF Pops, Pushes, Successors, Cur
  <2>3. Coerced(Cur.f, Arg(2), Arg(1)) \in Value
    BY <1>2, <1>3, <2>1, CoercedType
  <2> QED BY <1>1, <1>2, <2>1, <2>2, <2>3, ProduceStep
<1>14. CASE SlotImm
  <2>1. pc < Len(code) /\ Cur.op = "SlotImm"
        /\ Produce(stack, Coerced(Cur.f, Slot(Cur.s), Num(Cur.imm)))
    BY <1>14 DEF SlotImm, Fetch
  <2>2. Pops(Cur) = 0 /\ Pushes(Cur) = 1 /\ pc + 1 \in Successors(pc)
    BY <2>1 DEF Pops, Pushes, Successors, Cur
  <2>3. Num(Cur.imm) \in Value
    BY <1>2, <2>1 DEF Num, Value
  <2>4. Coerced(Cur.f, Slot(Cur.s), Num(Cur.imm)) \in Value
    BY <1>2, <1>4, <2>1, <2>3, CoercedType
  <2> QED BY <1>1, <1>2, <2>1, <2>2, <2>4, ProduceStep
<1>15. CASE Jump
  <2>1. pc < Len(code) /\ Cur.op = "Jump" /\ Go(stack, slots, Cur.addr)
    BY <1>15 DEF Jump, Fetch
  <2>2. Pops(Cur) = 0 /\ Pushes(Cur) = 0 /\ Cur.addr \in Successors(pc)
    BY <2>1 DEF Pops, Pushes, Successors, Cur
  <2> QED BY <1>1, <1>2, <2>1, <2>2, GoStep
<1>16. CASE JumpIf
  <2>1. pc < Len(code) /\ Cur.op \in {"JumpIfTrue", "JumpIfFalse"}
        /\ \E q \in {pc + 1, Cur.addr} : Go(Drop(1), slots, q)
    BY <1>16 DEF JumpIf, Fetch
  <2>2. Pops(Cur) = 1 /\ Pushes(Cur) = 0 /\ {pc + 1, Cur.addr} \subseteq Successors(pc)
    BY <2>1 DEF Pops, Pushes, Successors, Cur
  <2> QED BY <1>1, <1>2, <2>1, <2>2, GoStep
<1>17. CASE JumpIfSlot
  <2>1. pc < Len(code) /\ Cur.op = "JumpIfSlot"
        /\ \E q \in {pc + 1, Cur.addr} : Go(stack, slots, q)
    BY <1>17 DEF JumpIfSlot, Fetch
  <2>2. Pops(Cur) = 0 /\ Pushes(Cur) = 0 /\ {pc + 1, Cur.addr} \subseteq Successors(pc)
    BY <2>1 DEF Pops, Pushes, Successors, Cur
  <2> QED BY <1>1, <1>2, <2>1, <2>2, GoStep
<1>18. CASE CallOut
  <2>1. pc < Len(code) /\ Cur.op \in {"BuiltinCall", "CallDynamic"}
        /\ \E x \in Replies :
             Produce(Drop(IF Cur.op = "CallDynamic" THEN Cur.s + 1 ELSE Cur.s), x)
    BY <1>18 DEF CallOut, Fetch
  <2>2. /\ Pops(Cur) = IF Cur.op = "CallDynamic" THEN Cur.s + 1 ELSE Cur.s
        /\ Pushes(Cur) = 1 /\ pc + 1 \in Successors(pc)
    BY <2>1 DEF Pops, Pushes, Successors, Cur
  <2>3. PICK x \in Replies : Produce(Drop(Pops(Cur)), x)
    BY <2>1, <2>2
  <2>4. x \in Value
    BY VMAssumption DEF Value
  <2> QED BY <1>1, <1>2, <2>1, <2>2, <2>3, <2>4, ProduceStep
<1>19. CASE Return
  <2>1. Leave(Arg(1))
    BY <1>19 DEF Return
  <2> QED BY <1>3, <2>1, LeaveStep
<1>20. CASE ReturnSlot
  <2>1. pc < Len(code) /\ Leave(Slot(Cur.s))
    BY <1>20 DEF ReturnSlot, Fetch
  <2> QED BY <1>4, <2>1, LeaveStep
<1>21. CASE LoadGlobal
  <2>1. pc < Len(code) /\ Cur.op = "LoadGlobal"
        /\ \E x \in Replies : Produce(stack, x)
    BY <1>21 DEF LoadGlobal, Fetch
  <2>2. Pops(Cur) = 0 /\ Pushes(Cur) = 1 /\ pc + 1 \in Successors(pc)
    BY <2>1 DEF Pops, Pushes, Successors, Cur
  <2>3. PICK x \in Replies : Produce(stack, x)
    BY <2>1
  <2>4. x \in Value
    BY VMAssumption DEF Value
  <2> QED BY <1>1, <1>2, <2>1, <2>2, <2>3, <2>4, ProduceStep
<1>22. CASE OutOfBounds
  BY <1>22, FailStep DEF OutOfBounds
<1>23. CASE Recur
  BY <1>23, RecurStep
<1>24. CASE RecurIncAccum
  BY <1>24, RecurIncAccumStep
<1>25. CASE CallSelf
  BY <1>25, CallSelfStep
<1> QED
  BY <1>5, <1>6, <1>7, <1>8, <1>9, <1>10, <1>11, <1>12, <1>13, <1>14, <1>15, <1>16,
     <1>17, <1>18, <1>19, <1>20, <1>21, <1>22, <1>23, <1>24, <1>25
  DEF Exec

-----------------------------------------------------------------------------
(* The steps of the verifier *)

(* Visiting p settles it and unsettles nothing: an entry of heights is     *)
(* written once, and a settled pc has only known successors.               *)
LEMMA VisitStep ==
  ASSUME IInv, phase = "verify", NEW p \in Pcs, Visit(p)
  PROVE  IInv'
<1> DEFINE fresh == {q \in Successors(p) \cap Pcs : heights[q] = Unknown}
<1>1. /\ p \in worklist
      /\ ~Underflow(p) /\ ~TooDeep(p) /\ ~Mismatch(p)
      /\ heights' = [q \in Pcs |-> IF q \in fresh THEN After(p) ELSE heights[q]]
      /\ worklist' = (worklist \ {p}) \cup fresh
      /\ iterations' = iterations + 1
      /\ UNCHANGED <<lambda, machine, phase>>
  BY DEF Visit
<1>2. UNCHANGED <<code, total, pc, stack, slots, frames, phase>>
  BY <1>1 DEF lambda, machine
<1>3. /\ Pcs' = Pcs
      /\ \A q \in Pcs : Successors(q)' = Successors(q)
      /\ code \in Seq(Instruction)
  BY <1>2 DEF Pcs, Successors, IInv, LambdaInv
<1>4. /\ heights \in [Pcs -> Nat \cup {Unknown}]
      /\ heights[p] # Unknown
      /\ \A r \in Pcs \ worklist : heights[r] # Unknown => Settled(r)
      /\ worklist \subseteq Pcs
  BY <1>1 DEF IInv, HeightsInv
<1>5. \A r \in Pcs : Pops(code[r + 1]) \in Nat /\ Pushes(code[r + 1]) \in {0, 1}
  BY <1>3, EffectType DEF Pcs
<1>6. /\ heights[p] \in Nat /\ heights[p] >= Pops(code[p + 1])
      /\ After(p) \in Nat /\ After(p) <= MaxStackDepth
  <2>1. heights[p] \in Nat
    BY <1>4
  <2>2. MaxStackDepth \in Nat
    BY VerifierAssumption
  <2>3. heights[p] >= Pops(code[p + 1])
    BY <1>1, <1>5, <2>1 DEF Underflow
  <2>4. After(p) \in Nat
    BY <1>5, <2>1, <2>3 DEF After
  <2>5. After(p) <= MaxStackDepth
    BY <1>1, <2>2, <2>4 DEF TooDeep
  <2> QED BY <2>1, <2>3, <2>4, <2>5
<1>7. \A r \in Pcs : heights[r] # Unknown => heights'[r] = heights[r] /\ After(r)' = After(r)
  <2>1. \A r \in Pcs : heights[r] # Unknown => heights'[r] = heights[r]
    BY <1>1
  <2> QED BY <1>2, <2>1 DEF After
<1>8. \A q \in Successors(p) \cap Pcs : heights'[q] = After(p)
  BY <1>1 DEF Mismatch
<1>9. Settled(p)'
  BY <1>2, <1>3, <1>4, <1>6, <1>7, <1>8 DEF Settled
<1>10. ASSUME NEW r \in Pcs, r \notin worklist, heights[r] # Unknown
       PROVE  Settled(r)'
  <2>1. Settled(r)
    BY <1>4, <1>10
  <2>2. heights[r] \in Nat /\ After(r) \in Nat
    BY <1>4, <1>5, <1>10, <2>1 DEF Settled, After
  <2>3. \A q \in Successors(r) \cap Pcs : heights[q] # Unknown /\ heights'[q] = After(r)
    BY <1>7, <2>1, <2>2 DEF Settled, Unknown
  <2> QED BY <1>2, <1>3, <1>7, <1>10, <2>1, <2>3 DEF Settled
<1>11. \A r \in Pcs \ worklist' : heights'[r] # Unknown => Settled(r)'
  <2> SUFFICES ASSUME NEW r \in Pcs, r \notin worklist', heights'[r] # Unknown
               PROVE  Settled(r)'
    OBVIOUS
  <2>1. r = p \/ (r \notin worklist /\ r \notin fresh)
    BY <1>1
  <2>2. r \notin fresh => heights'[r] = heights[r]
    BY <1>1
  <2> QED BY <1>9, <1>10, <2>1, <2>2
<1>12. heights' \in [Pcs -> Nat \cup {Unknown}]
  BY <1>1, <1>4, <1>6
<1>13. \A r \in Pcs : (r = 0 => heights'[r] = 0) /\ heights'[r] <= MaxStackDepth
  BY <1>1, <1>6 DEF IInv, HeightsInv, Unknown
<1>14. worklist' \subseteq Pcs /\ \A r \in worklist' : heights'[r] # Unknown
  <2>1. \A r \in fresh : r \in Pcs /\ heights'[r] # Unknown
    BY <1>1, <1>6 DEF Unknown
  <2>2. \A r \in worklist : r \in Pcs /\ heights'[r] # Unknown
    BY <1>4, <1>7 DEF IInv, HeightsInv
  <2> QED BY <1>1, <2>1, <2>2
<1>15. HeightsInv'
  <2>1. iterations' \in Nat
    BY <1>1 DEF IInv, HeightsInv
  <2> QED BY <1>3, <1>11, <1>12, <1>13, <1>14, <2>1 DEF HeightsInv
<1>16. LambdaInv' /\ PhaseInv' /\ MachineInv'
  BY <1>2 DEF IInv, LambdaInv, Exact, PhaseInv, MachineInv
<1> QED BY <1>15, <1>16 DEF IInv

(* A verdict or a rejection changes nothing but the phase, and only an     *)
(* empty worklist and accepted instructions lead to the run.               *)
LEMMA VerdictStep ==
  ASSUME IInv, phase = "verify", Verdict \/ \E p \in Pcs : Reject(p)
  PROVE  IInv'
<1>1. /\ UNCHANGED <<code, total, pc, stack, slots, frames, heights, worklist, iterations>>
      /\ phase' \in {"run", "rejected"}
      /\ phase' = "run" => worklist = {} /\ StructureOK
  BY DEF Verdict, Reject, lambda, machine
<1>2. LambdaInv' /\ HeightsInv'
  BY <1>1 DEF IInv, LambdaInv, Exact, HeightsInv, Settled, After, Successors, Pcs
<1>3. PhaseInv'
  BY <1>1 DEF PhaseInv, StructureOK, ControlFlowOK, SlotsOK
<1>4. AtKnown'
  <2>1. pc = 0 /\ stack = << >> /\ code \in Seq(Instruction)
    BY DEF IInv, MachineInv, LambdaInv
  <2>2. Len(code) \in Nat /\ (Len(code) = 0 => code = << >>)
    BY <2>1
  <2>3. 0 < Len(code) => heights[0] = 0
    BY <2>2 DEF IInv, HeightsInv, Pcs
  <2> QED BY <1>1, <2>1, <2>2, <2>3 DEF AtKnown, Unknown
<1>5. MachineInv'
  BY <1>1, <1>4 DEF IInv, MachineInv
<1> QED BY <1>2, <1>3, <1>5 DEF IInv

(* The invariant holds when a lambda is loaded. *)
LEMMA InitInv ==
  ASSUME Init, Exact
  PROVE  IInv
<1>1. PICK l \in Lambdas, args \in ArgLists : Loaded(l, args)
  BY DEF Init
<1>2. code \in Seq(Instruction) /\ total \in Nat
  BY <1>1, VerifierAssumption DEF Loaded
<1>3. Start(args)
  BY <1>1 DEF Loaded
<1>4. slots \in Seq(Value) /\ Len(slots) = total
  <2>1. args \in Seq(Value)
    BY VerifierAssumption
  <2>2. Len(args) \in Nat /\ \A i \in 1 .. Len(args) : args[i] \in Value
    BY <2>1
  <2> QED BY <1>2, <1>3, <2>2, FreshLen DEF Start
<1>5. HeightsInv
  <2>1. Len(code) \in Nat
    BY <1>2
  <2>2. \A p \in Pcs \ worklist : heights[p] = Unknown
    BY <1>1, <2>1 DEF Loaded, Pcs
  <2> QED BY <1>1, <2>1, <2>2, VerifierAssumption DEF Loaded, HeightsInv, Pcs, Unknown
<1>6. LambdaInv /\ PhaseInv
  BY <1>1, <1>2 DEF LambdaInv, Loaded, PhaseInv
<1>7. MachineInv
  BY <1>1, <1>3, <1>4 DEF Loaded, Start, MachineInv
<1> QED BY <1>5, <1>6, <1>7 DEF IInv

(* Every step of the verifier and of the machine keeps the invariant. *)
LEMMA NextInv ==
  ASSUME IInv, [Next]_vars
  PROVE  IInv'
<1>1. CASE Verify
  BY <1>1, VisitStep, VerdictStep DEF Verify
<1>2. CASE Run
  <2>1. phase = "run" /\ Exec /\ UNCHANGED vvars
    BY <1>2 DEF Run
  <2>2. UNCHANGED <<code, total>>
    BY <2>1 DEF Exec, Push, LoadSlot, StoreSlot, StoreAndLoadSlot, Pop, Dup, Not,
       BinOp, TypedBinOp, SlotImm, Jump, JumpIf, JumpIfSlot, Recur, RecurIncAccum,
       CallOut, CallSelf, Return, ReturnSlot, LoadGlobal, OutOfBounds, Leave, Produce,
       Go, Fail, lambda
  <2>3. MachineInv'
    BY <2>1, ExecStep
  <2>4. LambdaInv' /\ HeightsInv' /\ PhaseInv'
    BY <2>1, <2>2 DEF vvars, IInv, LambdaInv, Exact, HeightsInv, Settled, After,
       Successors, Pcs, PhaseInv, StructureOK, ControlFlowOK, SlotsOK
  <2> QED BY <2>3, <2>4 DEF IInv
<1>3. CASE UNCHANGED vars
  BY <1>3 DEF vars, vvars, lambda, machine, IInv, LambdaInv, Exact, HeightsInv,
     Settled, After, Successors, Pcs, PhaseInv, StructureOK, ControlFlowOK, SlotsOK,
     MachineInv, AtKnown, FrameOK
<1> QED BY <1>1, <1>2, <1>3 DEF Next

(* The inductive invariant holds of every behaviour that starts with code  *)
(* whose instructions the verifier describes exactly.                      *)
LEMMA Inductive == Spec /\ Exact => []IInv
<1>1. Init /\ Exact => IInv
  BY InitInv
<1>2. IInv /\ [Next]_vars => IInv'
  BY NextInv
<1> QED BY <1>1, <1>2, PTL DEF Spec

-----------------------------------------------------------------------------
(***************************************************************************)
(* Accepted code never pops an empty stack: for code of any length, any    *)
(* arguments and any replies, verify_stack_depth rules it out for every    *)
(* instruction whose entry in stack_effect is exact.                       *)
(***************************************************************************)
THEOREM AcceptedNeverUnderflows == Spec /\ Exact => []NoUnderflow
<1>1. IInv => NoUnderflow
  BY AtSettled DEF NoUnderflow, Executing, IInv, MachineInv, LambdaInv
<1> QED BY <1>1, Inductive, PTL

(***************************************************************************)
(* The height the verifier computed for a pc is the height of the stack at *)
(* that pc, and at most MAX_STACK_DEPTH, in every frame of every run.      *)
(***************************************************************************)
THEOREM HeightsAreExact == Spec /\ Exact => []HeightsExact
<1>1. IInv => HeightsExact
  <2> SUFFICES ASSUME IInv, Executing PROVE HeightsExact
    BY DEF HeightsExact
  <2>1. Len(stack) = heights[pc]
    BY DEF IInv, MachineInv, AtKnown, Executing
  <2>2. pc \in Pcs
    BY AtSettled DEF Executing
  <2>3. heights[pc] <= MaxStackDepth
    BY <2>2 DEF IInv, HeightsInv
  <2> QED BY <2>1, <2>3 DEF HeightsExact
<1> QED BY <1>1, Inductive, PTL

(***************************************************************************)
(* Accepted code names only slots the lambda has: the machine never        *)
(* extends its slots, in any frame.                                        *)
(***************************************************************************)
THEOREM SlotsStayFixed == Spec /\ Exact => []SlotsNeverGrow
<1>1. IInv => SlotsNeverGrow
  BY DEF IInv, MachineInv, FrameOK, SlotsNeverGrow
<1> QED BY <1>1, Inductive, PTL

(***************************************************************************)
(* No branch of accepted code lands outside: the only way out of the code  *)
(* is past its last instruction, when that one goes on.                    *)
(***************************************************************************)
THEOREM BranchesStayInside == Spec /\ Exact => []OnlyFallsOff
<1>1. IInv => OnlyFallsOff
  BY DEF IInv, LambdaInv, MachineInv, AtKnown, OnlyFallsOff
<1> QED BY <1>1, Inductive, PTL

-----------------------------------------------------------------------------
(* The pcs whose turn in the worklist loop is over. *)
Done == {p \in Pcs : heights[p] # Unknown} \ worklist

(* Every turn of the loop ends the turn of one pc for good. *)
TurnsInv == iterations = Cardinality(Done)

(* Pcs is finite and has as many elements as the code has instructions. *)
LEMMA PcsFinite ==
  ASSUME code \in Seq(Instruction)
  PROVE  IsFiniteSet(Pcs) /\ Cardinality(Pcs) = Len(code)
<1>1. Len(code) \in Nat
  OBVIOUS
<1>2. IsFiniteSet(0 .. Len(code) - 1)
  BY <1>1, FS_Interval
<1>3. Cardinality(0 .. Len(code) - 1) =
        IF 0 > Len(code) - 1 THEN 0 ELSE (Len(code) - 1) - 0 + 1
  BY <1>1, FS_Interval, SMTT(30)
<1> QED BY <1>1, <1>2, <1>3 DEF Pcs

(* A visit moves one pc from the worklist to Done, whatever it adds.       *)
LEMMA TurnsNext ==
  ASSUME IInv, TurnsInv, [Next]_vars
  PROVE  TurnsInv'
<1>1. code \in Seq(Instruction) /\ IsFiniteSet(Done)
  <2>1. code \in Seq(Instruction)
    BY DEF IInv, LambdaInv
  <2> QED BY <2>1, PcsFinite, FS_Subset DEF Done
<1>2. ASSUME NEW p \in Pcs, phase = "verify", Visit(p)
      PROVE  TurnsInv'
  <2>1. /\ p \in worklist /\ heights[p] # Unknown
        /\ UNCHANGED code /\ Pcs' = Pcs
        /\ iterations' = iterations + 1
    BY <1>2 DEF Visit, lambda, Pcs, IInv, HeightsInv
  <2>2. Done' = Done \cup {p}
    <3> DEFINE fresh == {q \in Successors(p) \cap Pcs : heights[q] = Unknown}
    <3>1. /\ heights' = [q \in Pcs |-> IF q \in fresh THEN After(p) ELSE heights[q]]
          /\ worklist' = (worklist \ {p}) \cup fresh
      BY <1>2 DEF Visit
    <3>2. p \notin fresh
      BY <2>1
    <3>3. Done' = {q \in Pcs : heights'[q] # Unknown} \ worklist'
      BY <2>1 DEF Done, Unknown
    <3>4. \A q \in Pcs : heights'[q] = IF q \in fresh THEN After(p) ELSE heights[q]
      BY <3>1
    <3>5. \A q \in Pcs : q \in fresh => heights[q] = Unknown
      OBVIOUS
    <3> HIDE DEF fresh
    <3> QED BY <1>2, <2>1, <3>1, <3>2, <3>3, <3>4, <3>5 DEF Done
  <2>3. p \notin Done
    BY <2>1 DEF Done
  <2>4. Cardinality(Done \cup {p}) = Cardinality(Done) + 1
    BY <1>1, <2>3, FS_AddElement
  <2> QED BY <2>1, <2>2, <2>4 DEF TurnsInv
<1>3. ASSUME UNCHANGED <<code, heights, worklist, iterations>>
      PROVE  TurnsInv'
  BY <1>3 DEF TurnsInv, Done, Pcs
<1>4. CASE Verify
  BY <1>2, <1>3, <1>4 DEF Verify, Verdict, Reject, lambda
<1>5. CASE Run
  <2>1. UNCHANGED vvars /\ UNCHANGED code
    BY <1>5 DEF Run, Exec, Push, LoadSlot, StoreSlot, StoreAndLoadSlot, Pop, Dup, Not,
       BinOp, TypedBinOp, SlotImm, Jump, JumpIf, JumpIfSlot, Recur, RecurIncAccum,
       CallOut, CallSelf, Return, ReturnSlot, LoadGlobal, OutOfBounds, Leave, Produce,
       Go, Fail, lambda
  <2> QED BY <1>3, <2>1 DEF vvars
<1>6. CASE UNCHANGED vars
  BY <1>3, <1>6 DEF vars, vvars, lambda
<1> QED BY <1>4, <1>5, <1>6 DEF Next

(***************************************************************************)
(* The iteration limit of verify_stack_depth (ten turns an instruction)    *)
(* refuses no code: a pc enters the worklist once, so the loop ends by     *)
(* itself within one turn an instruction.                                  *)
(***************************************************************************)
THEOREM LimitIsNeverHit == Spec /\ Exact => []LimitNeverHit
<1>1. Init => TurnsInv
  <2> SUFFICES ASSUME Init PROVE TurnsInv
    OBVIOUS
  <2>1. Done = {}
    BY DEF Init, Loaded, Done, Pcs, Unknown
  <2> QED BY <2>1, FS_EmptySet DEF TurnsInv, Init, Loaded
<1>2. IInv /\ TurnsInv /\ [Next]_vars => TurnsInv'
  BY TurnsNext
<1>3. IInv /\ TurnsInv => LimitNeverHit
  <2> SUFFICES ASSUME IInv, TurnsInv, NEW p \in worklist PROVE ~LimitHit
    BY DEF LimitNeverHit
  <2>1. code \in Seq(Instruction) /\ p \in Pcs
    BY DEF IInv, LambdaInv, HeightsInv
  <2>2. IsFiniteSet(Pcs) /\ Cardinality(Pcs) = Len(code) /\ Len(code) \in Nat
    BY <2>1, PcsFinite
  <2>3. Done \subseteq Pcs \ {p}
    BY DEF Done
  <2>4. IsFiniteSet(Pcs \ {p}) /\ Cardinality(Pcs \ {p}) = Len(code) - 1
    BY <2>1, <2>2, FS_RemoveElement
  <2>5. Cardinality(Done) <= Len(code) - 1
    BY <2>3, <2>4, FS_Subset
  <2>6. iterations \in Nat
    BY DEF IInv, HeightsInv
  <2> QED BY <2>2, <2>5, <2>6 DEF TurnsInv, LimitHit
<1> QED BY <1>1, <1>2, <1>3, Inductive, PTL DEF Spec
=============================================================================
