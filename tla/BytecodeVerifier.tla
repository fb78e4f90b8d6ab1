-------------------------- MODULE BytecodeVerifier --------------------------
(***************************************************************************)
(* verify_bytecode of src/src/verifier.rs and the run of what it accepts,  *)
(* as run_program and run_expr_group of src/src/program.rs chain them: a   *)
(* lambda is verified, and executed only if no pass reports an error.      *)
(*                                                                         *)
(* The passes that look at one instruction at a time are predicates; the   *)
(* abstract interpretation of pass 5 takes one step per instruction.  The  *)
(* code pops its worklist from the end; here any entry may be next.        *)
(***************************************************************************)
EXTENDS LambdaVM

CONSTANTS
  Lambdas,        \* the lambdas [code, params, total] given to the verifier
  ArgLists,       \* the arguments a lambda may be called with
  MaxStackDepth   \* MAX_STACK_DEPTH

ASSUME VerifierAssumption ==
  /\ MaxStackDepth \in Nat
  /\ \A l \in Lambdas : l.code \in Seq(Instruction) /\ l.total \in Nat
  /\ ArgLists \subseteq Seq(Value)

VARIABLES
  phase,       \* "verify", then "run" or "rejected"
  heights,     \* stack height known for each pc, Unknown where not visited
  worklist,    \* pcs whose successors are still to be visited
  iterations   \* turns of the worklist loop

vvars == <<phase, heights, worklist, iterations>>
vars == <<lambda, machine, vvars>>

Unknown == -1

Branches == {"Jump", "JumpIfTrue", "JumpIfFalse", "JumpIfSlot", "RecurIncAccum"}
Slotted == {"LoadSlot", "StoreSlot", "ReturnSlot", "StoreAndLoadSlot",
            "RecurDirect", "SlotImm", "JumpIfSlot", "RecurIncAccum"}

\* Mutants: a target just past the code, a slot just past the last, pass.
ControlFlowOK_inclusive(i) == i.op \in Branches => i.addr <= Len(code)
SlotsOK_inclusive(i) ==
  /\ i.op \in Slotted => i.s <= total
  /\ i.op = "RecurIncAccum" => i.s2 <= total
  /\ i.op = "Recur" => i.s <= total

(* verify_control_flow. *)
ControlFlowOK(i) == i.op \in Branches => i.addr < Len(code)

(* verify_slot_indices; the count of RecurDirect is checked like a slot. *)
SlotsOK(i) ==
  /\ i.op \in Slotted => i.s < total
  /\ i.op = "RecurIncAccum" => i.s2 < total
  /\ i.op = "Recur" => i.s <= total

(* verify_instruction_consistency, for the instructions modelled. *)
ConsistentIns(i) == i.op = "RecurIncAccum" => i.imm # 0

StructureOK ==
  \A j \in 1 .. Len(code) :
    ControlFlowOK(code[j]) /\ SlotsOK(code[j]) /\ ConsistentIns(code[j])

(* stack_effect: what the verifier takes an instruction to pop and push. *)
Pops(i) ==
  CASE i.op \in {"Pop", "StoreSlot", "StoreAndLoadSlot", "Not",
                 "JumpIfTrue", "JumpIfFalse", "Return"} -> 1
    [] i.op \in {"Bin", "Typed"} -> 2
    [] i.op \in {"Recur", "RecurDirect", "BuiltinCall", "CallSelf"} -> i.s
    [] i.op = "CallDynamic" -> i.s + 1
    [] OTHER -> 0

Pushes(i) ==
  IF i.op \in {"PushI64", "PushNil", "PushStr", "LoadSlot", "LoadGlobal", "Dup",
               "StoreAndLoadSlot", "Not", "Bin", "Typed", "SlotImm",
               "BuiltinCall", "CallDynamic", "CallSelf"}
  THEN 1 ELSE 0

(* successors; those outside the code are skipped by the caller. *)
Successors(p) ==
  LET i == code[p + 1]
  IN CASE i.op \in {"Return", "ReturnSlot"} -> {}
       [] i.op = "Jump" -> {i.addr}
       [] i.op \in {"JumpIfTrue", "JumpIfFalse", "JumpIfSlot"} -> {p + 1, i.addr}
       [] i.op = "RecurIncAccum" -> {i.addr, 0}
       [] i.op \in {"Recur", "RecurDirect"} -> {0}
       [] OTHER -> {p + 1}

Pcs == 0 .. Len(code) - 1
After(p) == heights[p] - Pops(code[p + 1]) + Pushes(code[p + 1])

\* Mutants: no underflow check; joins are not compared.
Underflow_unchecked(p) == FALSE
Mismatch_unchecked(p) == FALSE

(* What makes the loop return an error at p. *)
Underflow(p) == heights[p] < Pops(code[p + 1])
TooDeep(p) == After(p) > MaxStackDepth
Mismatch(p) ==
  \E q \in Successors(p) \cap Pcs : heights[q] \notin {Unknown, After(p)}
LimitHit == iterations >= Len(code) * 10

Terminators == {"Return", "ReturnSlot", "Recur", "RecurDirect", "RecurIncAccum",
                "Jump", "JumpIfTrue", "JumpIfFalse", "JumpIfSlot"}

(* The check after the loop: the code may end without a terminator only    *)
(* with at most one value on the stack.                                    *)
FallOffOK ==
  Len(code) = 0 \/ code[Len(code)].op \in Terminators \/ heights[Len(code) - 1] <= 1

-----------------------------------------------------------------------------
(* run_compiled_lambda refuses another number of arguments before the run. *)
Loaded(l, args) ==
  /\ code = l.code
  /\ params = l.params /\ Len(args) = l.params
  /\ total = l.total
  /\ Start(args)
  /\ phase = "verify"
  /\ heights = [p \in Pcs |-> IF p = 0 THEN 0 ELSE Unknown]
  /\ worklist = IF Len(code) = 0 THEN {} ELSE {0}
  /\ iterations = 0

Init == \E l \in Lambdas, args \in ArgLists : Loaded(l, args)

Reject(p) ==
  /\ p \in worklist
  /\ LimitHit \/ Underflow(p) \/ TooDeep(p) \/ Mismatch(p)
  /\ phase' = "rejected"
  /\ UNCHANGED <<lambda, machine, heights, worklist, iterations>>

\* Mutant: successors already known are queued again.
Visit_requeues(p) ==
  /\ p \in worklist
  /\ ~(LimitHit \/ Underflow(p) \/ TooDeep(p) \/ Mismatch(p))
  /\ LET next == Successors(p) \cap Pcs
     IN /\ heights' = [q \in Pcs |-> IF q \in next THEN After(p) ELSE heights[q]]
        /\ worklist' = (worklist \ {p}) \cup next
  /\ iterations' = iterations + 1
  /\ UNCHANGED <<lambda, machine, phase>>

Visit(p) ==
  /\ p \in worklist
  /\ ~(LimitHit \/ Underflow(p) \/ TooDeep(p) \/ Mismatch(p))
  /\ LET fresh == {q \in Successors(p) \cap Pcs : heights[q] = Unknown}
     IN /\ heights' = [q \in Pcs |-> IF q \in fresh THEN After(p) ELSE heights[q]]
        /\ worklist' = (worklist \ {p}) \cup fresh
  /\ iterations' = iterations + 1
  /\ UNCHANGED <<lambda, machine, phase>>

Verdict ==
  /\ worklist = {}
  /\ phase' = IF StructureOK /\ FallOffOK THEN "run" ELSE "rejected"
  /\ UNCHANGED <<lambda, machine, heights, worklist, iterations>>

Verify == phase = "verify" /\ ((\E p \in Pcs : Reject(p) \/ Visit(p)) \/ Verdict)
Run == phase = "run" /\ Exec /\ UNCHANGED vvars

Next == Verify \/ Run

Spec == Init /\ [][Next]_vars

(* One thread runs the verifier and then the machine to the end. *)
FairSpec == Spec /\ WF_vars(Next)

-----------------------------------------------------------------------------
Executing == phase = "run" /\ outcome = Running /\ pc < Len(code)

(***************************************************************************)
(* Accepted code never pops an empty stack, in any frame: every pop finds  *)
(* a value, so the unwrap_or(Nil) of the machine is never taken            *)
(* (verifier.rs, "No instruction path pops from an empty stack").          *)
(***************************************************************************)
NoUnderflow == Executing => Len(stack) >= Pops(Cur)

(***************************************************************************)
(* The verifier's height of a pc is the height of the machine's stack      *)
(* whenever it stands at that pc, and never above MAX_STACK_DEPTH.         *)
(***************************************************************************)
HeightsExact ==
  Executing => Len(stack) = heights[pc] /\ Len(stack) <= MaxStackDepth

(***************************************************************************)
(* Accepted code never makes the machine extend its slots: every slot an   *)
(* instruction names is one of total_slots, in every frame.                *)
(***************************************************************************)
SlotsNeverGrow ==
  phase = "run" => /\ Len(slots) = total
                   /\ \A k \in 1 .. Len(frames) : Len(frames[k].slots) = total

(***************************************************************************)
(* A run that leaves the code does so past its last instruction, from      *)
(* which it goes on: that is neither a return nor a jump, although it may  *)
(* be a conditional branch that is not taken.  No branch lands outside.    *)
(***************************************************************************)
OnlyFallsOff ==
  phase = "run" /\ pc >= Len(code) =>
    /\ pc = Len(code)
    /\ code # << >> => pc \in Successors(pc - 1)

(***************************************************************************)
(* The worklist loop is never cut short by its iteration limit: no code is *)
(* refused for being visited too often.                                    *)
(***************************************************************************)
LimitNeverHit == worklist # {} => ~LimitHit

(***************************************************************************)
(* Every lambda is refused or runs to a result: the worklist empties and   *)
(* the budget ends any loop.                                               *)
(***************************************************************************)
Ends == <>(phase = "rejected" \/ outcome # Running)
=============================================================================
