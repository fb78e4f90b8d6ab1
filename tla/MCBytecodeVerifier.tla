------------------------- MODULE MCBytecodeVerifier -------------------------
(* Bounded code for BytecodeVerifier: everything short over all the        *)
(* opcodes, and longer code over the few that make branches and joins.     *)
EXTENDS BytecodeVerifier

CONSTANTS Kinds, ShortLen, JoinKinds, LongLen

Operands(k, S, n) ==
  { [Ins(k, IF k = "JumpIfSlot" THEN "Lt" ELSE "Add", s, 1, a)
       EXCEPT !.s2 = IF k = "RecurIncAccum" THEN 1 - s ELSE 0, !.lim = 1] :
      s \in IF k \in Slotted \cup {"BuiltinCall", "CallDynamic", "CallSelf", "Recur"}
            THEN S ELSE {0},
      a \in IF k \in Branches THEN 0 .. n ELSE {0} }

CodesOf(kinds, S, n) == [1 .. n -> UNION {Operands(k, S, n) : k \in kinds}]

MCLambdas ==
  {[code |-> c, params |-> pt[1], total |-> pt[2]] :
     c \in UNION {CodesOf(Kinds, {0, 1}, n) : n \in 0 .. ShortLen},
     pt \in {<<1, 1>>, <<1, 2>>, <<2, 2>>}}
  \cup {[code |-> c, params |-> 1, total |-> 1] : c \in CodesOf(JoinKinds, {0}, LongLen)}

MCArgLists == {<<Num(0)>>, <<Num(1)>>, <<Num(1), Str>>}
MCReplies == {Nil, Err}
=============================================================================
