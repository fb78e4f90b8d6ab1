------------------------ MODULE PromiseEngine_proof ------------------------
(***************************************************************************)
(* The promise engine keeps its types, for every set of accounts,          *)
(* contracts and amounts and every bound.                                  *)
(***************************************************************************)
EXTENDS PromiseEngine, SequenceTheorems, WellFoundedInduction,
        NaturalsInduction, TLAPS

-----------------------------------------------------------------------------
(* Sequences, minima and maxima *)

\* Arithmetic of a predecessor, in the form SubSeqProperties asks for.
LEMMA Pred ==
  \A a \in Nat \ {0} : /\ a - 1 \in Nat
                       /\ 1 <= a - 1 => (a - 1) - 1 + 1 = a - 1
                       /\ ~(1 <= a - 1) => a - 1 = 0
OBVIOUS

\* The last element and the front of a sequence that is not empty.
LEMMA LastFront ==
  ASSUME NEW S, NEW s \in Seq(S), s # <<>>
  PROVE  /\ Len(s) \in Nat \ {0} /\ Len(s) \in 1..Len(s)
         /\ Last(s) = s[Len(s)] /\ s[Len(s)] \in S
         /\ Front(s) \in Seq(S) /\ Len(Front(s)) = Len(s) - 1
         /\ \A i \in 1..(Len(s) - 1) : Front(s)[i] = s[i]
<1>1. Len(s) \in Nat \ {0}
  BY EmptySeq
<1>2. Len(s) \in 1..Len(s) /\ s[Len(s)] \in S
  BY <1>1, ElementOfSeq
<1>3. Front(s) \in Seq(S) /\ \A i \in 1..(Len(s) - 1) : Front(s)[i] = s[i]
  BY <1>1 DEF Front
<1>4. Len(Front(s)) = Len(s) - 1
  <2> DEFINE m == 1
             n == Len(s) - 1
  <2>1. \A i \in m..n : s[i] \in S
    BY <1>1, ElementOfSeq
  <2>2. n \in Nat /\ (1 <= n => n - 1 + 1 = n) /\ (~(1 <= n) => n = 0)
    BY <1>1, Pred, Zenon
  <2>3. m \in Int /\ n \in Int
    BY <2>2
  <2> HIDE DEF m, n
  <2>4. Len(SubSeq(s, m, n)) = IF m <= n THEN n - m + 1 ELSE 0
    BY <2>1, <2>3, SubSeqProperties
  <2>5. Len(SubSeq(s, 1, n)) = n
    BY <2>2, <2>4, Zenon DEF m
  <2> QED
    BY <2>5, Zenon DEF Front, n
<1> QED
  BY <1>1, <1>2, <1>3, <1>4, Zenon DEF Last

\* A nonempty set of natural numbers has a least element.
LEMMA Least ==
  ASSUME NEW T, T \subseteq Nat, T # {}
  PROVE  \E x \in T : \A y \in T : x =< y
<1> DEFINE R == OpToRel(<, Nat)
<1>1. IsWellFoundedOn(R, Nat)
  BY NatLessThanWellFounded
<1>2. \A x, y \in Nat : <<y, x>> \in R <=> y < x
  BY DEF OpToRel
<1> HIDE DEF R
<1>3. PICK x \in T : \A y \in T : ~(<<y, x>> \in R)
  BY <1>1, WFMin
<1>4. ASSUME NEW y \in T PROVE x =< y
  <2>1. x \in Nat /\ y \in Nat
    OBVIOUS
  <2>2. ~(y < x)
    BY <1>2, <1>3, <2>1
  <2> QED
    BY <2>1, <2>2
<1> QED
  BY <1>4

\* Min, which picks the batch the drain runs next, picks a member.
LEMMA MinIn ==
  ASSUME NEW T, T \subseteq Nat, T # {}
  PROVE  Min(T) \in T
BY Least DEF Min

\* Max, which picks the last record of a touched slot, picks a member.
LEMMA MaxIn ==
  ASSUME NEW n \in Nat, NEW T, T \subseteq 1..n, T # {}
  PROVE  Max(T) \in T
<1> DEFINE U == {n - x : x \in T}
<1>1. U \subseteq Nat
  OBVIOUS
<1>2. U # {}
  OBVIOUS
<1>3. PICK u \in U : \A y \in U : u =< y
  BY <1>1, <1>2, Least
<1>4. PICK x \in T : u = n - x
  BY <1>3
<1>5. ASSUME NEW y \in T PROVE x >= y
  <2>1. x \in Int /\ y \in Int
    OBVIOUS
  <2>2. n - x =< n - y
    BY <1>3, <1>4
  <2> QED
    BY <2>1, <2>2
<1> QED
  BY <1>5 DEF Max

-----------------------------------------------------------------------------
(* The inductive invariant *)

\* Where execute_tx is, what is live, and what the promise handles refer to.
ControlInv ==
  /\ phase \in {"idle", "entry"} => stack = <<>>
  /\ phase = "idle" => guest = NoGuest
  /\ phase = "entry" => guest # NoGuest
  /\ guest # NoGuest =>
       /\ guest.acct \in Accounts
       /\ pending <= Len(dag)
       /\ phase # "entry" => stack # <<>>
       /\ stack # <<>> => stack[Len(stack)].pc = "call"

\* Dependencies and awaited children are batches of the DAG.
RefInv ==
  /\ \A n \in 1..Len(dag) : \A j \in 1..Len(dag[n].deps) :
       dag[n].deps[j] \in 1..Len(dag)
  /\ \A k \in 1..Len(stack) :
       stack[k].child <= Len(dag) /\ (stack[k].pc = "child" => stack[k].child # 0)

TInv == TypeOK /\ ControlInv /\ RefInv

\* The batch whose contract is running, 0 for the entry.
Owner == IF stack = <<>> THEN 0 ELSE stack[Len(stack)].idx

-----------------------------------------------------------------------------
(* Types of the operators *)

\* Writing a slot keeps storage well typed.
LEMMA WriteType ==
  ASSUME NEW s \in [Slots -> Nat], NEW k, NEW x \in Nat
  PROVE  [s EXCEPT ![k] = x] \in [Slots -> Nat]
OBVIOUS

\* Crediting an account keeps storage well typed.
LEMMA CreditType ==
  ASSUME NEW s \in [Slots -> Nat], NEW a, NEW x \in Nat
  PROVE  Credit(s, a, x) \in [Slots -> Nat]
<1> DEFINE b == <<a, "bal">>
<1> HIDE DEF b
<1>1. [s EXCEPT ![b] = s[b] + x] \in [Slots -> Nat]
  <2>1. CASE b \in Slots
    BY <2>1
  <2>2. CASE b \notin Slots
    BY <2>2, [s EXCEPT ![b] = s[b] + x] = s
  <2> QED
    BY <2>1, <2>2
<1> QED
  BY <1>1 DEF Credit, b

\* Debiting is saturating: no balance goes below zero.
LEMMA DebitType ==
  ASSUME NEW s \in [Slots -> Nat], NEW a, NEW x \in Nat
  PROVE  Debit(s, a, x) \in [Slots -> Nat]
<1> DEFINE b == <<a, "bal">>
<1> HIDE DEF b
<1>1. [s EXCEPT ![b] = IF s[b] >= x THEN s[b] - x ELSE 0] \in [Slots -> Nat]
  <2>1. CASE b \in Slots
    BY <2>1
  <2>2. CASE b \notin Slots
    BY <2>2, [s EXCEPT ![b] = IF s[b] >= x THEN s[b] - x ELSE 0] = s
  <2> QED
    BY <2>1, <2>2
<1> QED
  BY <1>1 DEF Debit, b

\* Every slot is a pair whose second part is a field.
LEMMA SlotField ==
  ASSUME NEW k \in Slots
  PROVE  k[2] \in Fields
BY DEF Slots, LooseKey, Fields

\* Saving a partition and putting one back.
LEMMA PartitionType ==
  ASSUME NEW s \in [Slots -> Nat]
  PROVE  /\ \A a \in Accounts : snapshot_partition(s, a) \in [Fields -> Nat]
         /\ \A a, snap : snap \in [Fields -> Nat] =>
              restore_partition(s, snap, a) \in [Slots -> Nat]
<1>1. \A a \in Accounts : snapshot_partition(s, a) \in [Fields -> Nat]
  BY DEF snapshot_partition, Slots
<1>2. ASSUME NEW a, NEW snap \in [Fields -> Nat]
      PROVE  restore_partition(s, snap, a) \in [Slots -> Nat]
  BY SlotField DEF restore_partition
<1> QED
  BY <1>1, <1>2

\* The undo list puts recorded values back.
LEMMA RevertType ==
  ASSUME NEW s \in [Slots -> Nat],
         NEW t \in Seq([slot : Slots, old : Nat])
  PROVE  RevertTouched(s, t) \in [Slots -> Nat]
<1> DEFINE At(k) == {j \in 1..Len(t) : t[j].slot = k}
<1>1. ASSUME NEW k \in Slots, At(k) # {}
      PROVE  t[Max(At(k))].old \in Nat
  <2>1. Len(t) \in Nat
    BY LenProperties
  <2>2. Max(At(k)) \in At(k)
    BY <1>1, <2>1, MaxIn
  <2>3. Max(At(k)) \in 1..Len(t)
    BY <2>2
  <2> HIDE DEF At
  <2>4. t[Max(At(k))] \in [slot : Slots, old : Nat]
    BY <2>3, ElementOfSeq
  <2> QED
    BY <2>4
<1> QED
  BY <1>1 DEF RevertTouched

\* The innermost frame and its batch.
LEMMA TopFacts ==
  ASSUME TInv, stack # <<>>
  PROVE  /\ Len(stack) \in Nat \ {0} /\ Len(stack) \in 1..Len(stack)
         /\ Top = stack[Len(stack)] /\ Top \in Frames
         /\ Top.idx \in 1..Len(dag) /\ Top.idx \in executed
         /\ Batch \in Batches
<1>1. stack \in Seq(Frames)
  BY DEF TInv, TypeOK
<1>2. /\ Len(stack) \in Nat \ {0} /\ Len(stack) \in 1..Len(stack)
      /\ Top = stack[Len(stack)] /\ Top \in Frames
  BY <1>1, LastFront DEF Top
<1>3. Top.idx \in executed /\ Top.idx \in 1..Len(dag)
  BY <1>2 DEF TInv, TypeOK
<1>4. Batch \in Batches
  BY <1>3, ElementOfSeq DEF TInv, TypeOK, Batch
<1> QED
  BY <1>2, <1>3, <1>4

\* Replacing the innermost frame.
LEMMA SetTopFacts ==
  ASSUME TInv, stack # <<>>, NEW f \in Frames
  PROVE  /\ SetTop(f) \in Seq(Frames) /\ Len(SetTop(f)) = Len(stack)
         /\ SetTop(f) # <<>>
         /\ SetTop(f)[Len(stack)] = f
         /\ \A k \in 1..Len(stack) :
              SetTop(f)[k] = IF k = Len(stack) THEN f ELSE stack[k]
<1>1. stack \in Seq(Frames) /\ Len(stack) \in 1..Len(stack)
  BY TopFacts DEF TInv, TypeOK
<1>2. /\ SetTop(f) \in Seq(Frames) /\ Len(SetTop(f)) = Len(stack)
      /\ \A k \in 1..Len(stack) :
           SetTop(f)[k] = IF k = Len(stack) THEN f ELSE stack[k]
  BY <1>1, ExceptSeq DEF SetTop
<1>3. SetTop(f) # <<>>
  BY <1>1, <1>2, EmptySeq
<1> QED
  BY <1>1, <1>2, <1>3

\* Entering a frame on top of the stack.
LEMMA PushFacts ==
  ASSUME TInv, NEW f \in Frames
  PROVE  /\ Append(stack, f) \in Seq(Frames) /\ Append(stack, f) # <<>>
         /\ Len(Append(stack, f)) = Len(stack) + 1
         /\ Append(stack, f)[Len(stack) + 1] = f
         /\ \A k \in 1..Len(stack) : Append(stack, f)[k] = stack[k]
<1>1. stack \in Seq(Frames)
  BY DEF TInv, TypeOK
<1> QED
  BY <1>1, AppendProperties

-----------------------------------------------------------------------------
(* Every step keeps the types *)

\* A stack st whose frames are of batches in ex, over a DAG of n batches.
StackOK(st, ex, n) ==
  /\ st \in Seq(Frames)
  /\ \A k \in 1..Len(st) :
       /\ st[k].idx \in ex
       /\ st[k].child <= n /\ (st[k].pc = "child" => st[k].child # 0)

\* The history records of batches.
HistSet == [by : Nat, runs : Nat, ret : SUBSET Nat]

\* The locals of execute_tx.
TxSet == [contract : Accounts \cup {NoAcct}, attach : Nat,
          fail : SUBSET Nat, ok : BOOLEAN, trapped : BOOLEAN,
          errors : Nat, began : BOOLEAN, snap : [Slots -> Nat],
          pre : [Slots -> Nat]]

\* The slots a failed batch puts back.
Touches == Seq([slot : Slots, old : Nat])

\* The current stack.
LEMMA StackIsOK ==
  ASSUME TInv
  PROVE  StackOK(stack, executed, Len(dag))
BY DEF TInv, TypeOK, RefInv, StackOK

\* Replacing the innermost frame by one of the same batch.
LEMMA SetTopOK ==
  ASSUME TInv, stack # <<>>, NEW f \in Frames, f.idx = Top.idx,
         f.child <= Len(dag), f.pc = "child" => f.child # 0
  PROVE  StackOK(SetTop(f), executed, Len(dag)) /\ SetTop(f) # <<>>
<1>1. f.idx \in executed
  BY TopFacts
<1> QED
  BY <1>1, SetTopFacts, StackIsOK DEF StackOK

\* Frames outlive a growing set of executed batches and a growing DAG.
LEMMA StackGrows ==
  ASSUME NEW st, NEW ex, NEW n \in Nat, StackOK(st, ex, n),
         NEW ex2, ex \subseteq ex2, NEW n2 \in Nat, n <= n2
  PROVE  StackOK(st, ex2, n2)
<1>1. ASSUME NEW k \in 1..Len(st)
      PROVE  /\ st[k].idx \in ex2
             /\ st[k].child <= n2 /\ (st[k].pc = "child" => st[k].child # 0)
  <2>1. st[k] \in Frames
    BY ElementOfSeq DEF StackOK
  <2>2. st[k].child \in Nat /\ st[k].child <= n
    BY <2>1 DEF Frames, StackOK
  <2> QED
    BY <2>2 DEF StackOK
<1> QED
  BY <1>1 DEF StackOK

\* A frame starts with no results and no child.
LEMMA NewFrameType ==
  ASSUME TInv, NEW i \in 1..Len(dag)
  PROVE  /\ NewFrame(i) \in Frames /\ NewFrame(i).idx = i
         /\ NewFrame(i).child = 0 /\ NewFrame(i).pc = "deps"
BY EmptySeq DEF NewFrame, Frames, TInv, TypeOK, Failed

\* Handing a result to the caller keeps its frame well typed.
LEMMA ReceiveType ==
  ASSUME NEW f \in Frames, NEW res \in Seq(Nat), NEW n \in Nat, f.child <= n
  PROVE  /\ Receive(f, res) \in Frames /\ Receive(f, res).idx = f.idx
         /\ Receive(f, res).child <= n
         /\ Receive(f, res).pc = IF f.pc = "deps" THEN "deps" ELSE "act"
<1>1. CASE f.pc = "deps"
  <2>1. f.depRes \o res \in Seq(Nat) /\ f.dp + 1 \in Nat
    BY ConcatProperties DEF Frames
  <2> QED
    BY <1>1, <2>1 DEF Receive, Frames
<1>2. CASE f.pc # "deps"
  <2> DEFINE v == IF res = <<>> THEN f.local ELSE Last(res)
             o == f.out \o <<v>> \o res
  <2>1. f.local \in Nat /\ f.out \in Seq(Nat) /\ f.ap + 1 \in Nat \ {0}
    BY DEF Frames
  <2>2. res # <<>> => Last(res) \in Nat
    BY LastFront
  <2>3. v \in Nat
    BY <2>1, <2>2
  <2> HIDE DEF v
  <2>4. o \in Seq(Nat)
    BY <2>1, <2>3, ConcatProperties
  <2>5. Receive(f, res) = [f EXCEPT !.pc = "act", !.ap = f.ap + 1, !.child = 0,
                                    !.out = o]
    BY <1>2 DEF Receive, v
  <2> HIDE DEF o
  <2>6. [f EXCEPT !.pc = "act", !.ap = f.ap + 1, !.child = 0, !.out = o]
          \in Frames
    BY <2>1, <2>4 DEF Frames
  <2>7. /\ Receive(f, res).idx = f.idx /\ Receive(f, res).child = 0
        /\ Receive(f, res).pc = "act"
    BY <2>5 DEF Frames
  <2> QED
    BY <1>2, <2>5, <2>6, <2>7
<1> QED
  BY <1>1, <1>2

\* A handle of the running contract is a batch of the DAG.
LEMMA HandleFacts ==
  ASSUME TInv, NEW h \in Handles
  PROVE  h \in 1..Len(dag) /\ h \in Nat /\ h > guest.base
<1>1. guest.base \in Nat /\ Len(dag) \in Nat
  BY LenProperties DEF TInv, TypeOK, Guests
<1> QED
  BY <1>1 DEF Handles

\* The history record of a new batch.
LEMMA NewHistType ==
  ASSUME TInv
  PROVE  /\ NewHist \in HistSet
         /\ NewHist.by = Owner /\ NewHist.by <= Len(dag) /\ NewHist.runs = 0
         /\ NewHist.ret = {}
<1>1. stack # <<>> => Last(stack).idx \in Nat /\ Last(stack).idx <= Len(dag)
                     /\ Last(stack) = stack[Len(stack)]
  BY TopFacts DEF Top
<1>2. 0 <= Len(dag)
  <2>1. dag \in Seq(Batches)
    BY DEF TInv, TypeOK
  <2> QED
    BY <2>1, LenProperties
<1> QED
  BY <1>1, <1>2 DEF NewHist, Owner, HistSet

\* Pushing a batch whose dependencies are batches of the DAG.
LEMMA DagPushType ==
  ASSUME TInv, guest # NoGuest,
         NEW a \in Accounts \cup {NoAcct}, NEW deps \in Seq(1..Len(dag)),
         NEW acts \in Seq(Actions), dag_push(deps, a, acts), PromisesOnly,
         consumed' \subseteq Nat, pending' = pending
  PROVE  TInv'
<1> DEFINE b == [deps |-> deps, account |-> a, creator |-> guest.acct,
                 actions |-> acts]
<1>1. deps \in Seq(Nat) /\ dag \in Seq(Batches) /\ Len(dag) \in Nat
  BY SeqMonotonic, LenProperties DEF TInv, TypeOK
<1>2. b \in Batches /\ b.deps = deps
  BY <1>1 DEF TInv, ControlInv, Batches
<1> HIDE DEF b
<1>3. dag' = Append(dag, b)
  BY DEF dag_push, b
<1>4. /\ dag' \in Seq(Batches) /\ Len(dag') = Len(dag) + 1
      /\ \A i \in 1..Len(dag) : dag'[i] = dag[i]
      /\ dag'[Len(dag) + 1] = b
  BY <1>1, <1>2, <1>3, AppendProperties
<1>5. hist' \in Seq(HistSet) /\ Len(hist') = Len(dag')
  <2>1. hist \in Seq(HistSet) /\ Len(hist) = Len(dag)
    BY DEF TInv, TypeOK, HistSet
  <2>2. hist' = Append(hist, NewHist) /\ NewHist \in HistSet
    BY NewHistType DEF dag_push
  <2> QED
    BY <1>4, <2>1, <2>2, AppendProperties
<1>6. executed' \in SUBSET (1..Len(dag'))
  BY <1>1, <1>4 DEF PromisesOnly, TInv, TypeOK
<1>7. TypeOK'
  BY <1>4, <1>5, <1>6 DEF PromisesOnly, TInv, TypeOK, HistSet
<1>8. ASSUME NEW n \in 1..Len(dag'), NEW j \in 1..Len(dag'[n].deps)
      PROVE  dag'[n].deps[j] \in 1..Len(dag')
  <2>1. CASE n \in 1..Len(dag)
    BY <1>1, <1>4, <2>1, SMTT(30) DEF TInv, RefInv
  <2>2. CASE n = Len(dag) + 1
    <3>1. deps[j] \in 1..Len(dag)
      BY <1>2, <1>4, <2>2, ElementOfSeq
    <3> QED
      BY <1>1, <1>2, <1>4, <2>2, <3>1
  <2> QED
    BY <1>1, <1>4, <2>1, <2>2
<1>9. StackOK(stack, executed, Len(dag) + 1)
  BY <1>1, StackIsOK, StackGrows
<1>10. RefInv'
  BY <1>4, <1>8, <1>9 DEF PromisesOnly, RefInv, StackOK
<1>11. ControlInv'
  BY <1>1, <1>4 DEF PromisesOnly, TInv, TypeOK, ControlInv, Guests
<1> QED
  BY <1>7, <1>10, <1>11 DEF TInv

\* Every host call of the running contract.
LEMMA GuestStepType ==
  ASSUME TInv, GuestStep
  PROVE  TInv'
<1>0. /\ \A d \in Deposits : <<FnCall(d)>> \in Seq(Actions)
      /\ <<>> \in Seq(Actions) /\ <<>> \in Seq(1..Len(dag))
      /\ \A S : \A x, y \in S : <<x>> \in Seq(S) /\ <<x, y>> \in Seq(S)
      /\ Receivers \subseteq Accounts
      /\ \A h \in Handles : h \in 1..Len(dag) /\ h \in Nat
      /\ consumed \subseteq Nat
  <2>1. \A d \in Deposits : FnCall(d) \in Actions
    BY AmountsAssumption DEF FnCall, Actions, ActionKinds
  <2>2. Receivers \subseteq Accounts
    BY AccountsAssumption
  <2> QED
    BY <2>1, <2>2, HandleFacts, EmptySeq, SMTT(30) DEF TInv, TypeOK
<1>1. ASSUME NEW v \in {0, 1}, StorageWrite(v)
      PROVE  TInv'
  <2> DEFINE k == <<guest.acct, "data">>
  <2>1. store' = [store EXCEPT ![k] = v] /\ store \in [Slots -> Nat]
    BY <1>1 DEF StorageWrite, TInv, TypeOK
  <2> HIDE DEF k
  <2>2. store' \in [Slots -> Nat]
    BY <2>1, v \in Nat, WriteType
  <2> QED
    BY <1>1, <2>2 DEF StorageWrite, engine, TInv, TypeOK, ControlInv, RefInv
<1>2. ASSUME NEW a \in Receivers, NEW d \in Deposits, promise_create(a, d)
      PROVE  TInv'
  BY <1>0, <1>2, DagPushType DEF promise_create, Calls
<1>3. ASSUME NEW h \in Handles, NEW a \in Receivers, NEW d \in Deposits,
             promise_then(h, a, d)
      PROVE  TInv'
  <2>1. <<h>> \in Seq(1..Len(dag)) /\ consumed' \subseteq Nat
    BY <1>0, <1>3 DEF promise_then, consume_promise
  <2> QED
    BY <1>0, <1>3, <2>1, DagPushType DEF promise_then, Calls
<1>4. ASSUME NEW h1 \in Handles, NEW h2 \in Handles, promise_and(h1, h2)
      PROVE  TInv'
  <2>1. <<h1, h2>> \in Seq(1..Len(dag)) /\ consumed' \subseteq Nat
    BY <1>0, <1>4 DEF promise_and, consume_promise
  <2> QED
    BY <1>0, <1>4, <2>1, DagPushType DEF promise_and, Calls
<1>5. ASSUME NEW a \in Receivers, promise_batch_create(a)
      PROVE  TInv'
  BY <1>0, <1>5, DagPushType DEF promise_batch_create, Calls
<1>6. ASSUME NEW h \in Handles, NEW a \in Receivers, promise_batch_then(h, a)
      PROVE  TInv'
  <2>1. <<h>> \in Seq(1..Len(dag)) /\ consumed' \subseteq Nat
    BY <1>0, <1>6 DEF promise_batch_then, consume_promise
  <2> QED
    BY <1>0, <1>6, <2>1, DagPushType DEF promise_batch_then, Calls
<1>7. ASSUME NEW h \in Handles, NEW op \in ActionKinds,
             promise_batch_action(h, op)
      PROVE  TInv'
  <2>1. ActionsFor(op) \subseteq Actions
    BY AmountsAssumption
       DEF ActionsFor, ActionKinds, Actions, FnCall, Transfer, Stake, AddKey,
           DeleteKey, DeleteAccount
  <2>2. PICK x \in ActionsFor(op) :
          dag' = [dag EXCEPT ![h].actions = Append(@, x)]
    BY <1>7 DEF promise_batch_action
  <2>3. dag \in Seq(Batches) /\ dag[h] \in Batches /\ h \in 1..Len(dag)
    BY <1>0, ElementOfSeq DEF TInv, TypeOK
  <2>4. Append(dag[h].actions, x) \in Seq(Actions)
    BY <2>1, <2>2, <2>3, AppendProperties DEF Batches
  <2> DEFINE b == [dag[h] EXCEPT !.actions = Append(dag[h].actions, x)]
  <2>5. b \in Batches /\ b.deps = dag[h].deps
    BY <2>3, <2>4 DEF Batches
  <2>6. dag' = [dag EXCEPT ![h] = b]
    BY <2>2
  <2> HIDE DEF b
  <2>7. /\ dag' \in Seq(Batches) /\ Len(dag') = Len(dag)
        /\ \A i \in 1..Len(dag) : dag'[i] = IF i = h THEN b ELSE dag[i]
    BY <2>3, <2>5, <2>6, ExceptSeq
  <2>8. \A i \in 1..Len(dag) : dag'[i].deps = dag[i].deps
    BY <2>5, <2>7
  <2>9. UNCHANGED <<executed, outcomes, results, store, stack, guest, phase,
                    tx, ntx, consumed, pending, hist>>
    BY <1>7 DEF promise_batch_action, PromisesOnly
  <2>10. TypeOK'
    BY <2>7, <2>9 DEF TInv, TypeOK
  <2>11. RefInv' /\ ControlInv'
    BY <2>7, <2>8, <2>9 DEF TInv, RefInv, ControlInv
  <2> QED
    BY <2>10, <2>11 DEF TInv
<1>8. ASSUME NEW h \in Handles, promise_return(h)
      PROVE  TInv'
  <2>1. /\ UNCHANGED <<executed, outcomes, results, store, stack, guest,
                        phase, tx, ntx, dag, hist>>
        /\ pending' = h /\ consumed' \subseteq Nat
    BY <1>0, <1>8 DEF promise_return, consume_promise, PromisesOnly
  <2>2. h \in Nat /\ h <= Len(dag)
    BY <1>0
  <2>3. TypeOK'
    BY <2>1, <2>2 DEF TInv, TypeOK
  <2>4. RefInv' /\ ControlInv'
    BY <2>1, <2>2 DEF TInv, RefInv, ControlInv
  <2> QED
    BY <2>3, <2>4 DEF TInv
<1> QED
  BY <1>1, <1>2, <1>3, <1>4, <1>5, <1>6, <1>7, <1>8 DEF GuestStep

\* No contract runs.
LEMMA NoGuestType ==
  NoGuest \in Guests /\ NoGuest.outer = 0 /\ NoGuest.base = 0
BY DEF NoGuest, Guests, Fields

\* execute_tx starts from an empty DAG, whether or not its entry runs.
LEMMA StartType ==
  ASSUME TInv, execute_tx
  PROVE  TInv'
<1>0. PICK c \in Accounts, d \in Attaches, fail \in FailSets :
        \/ StartTx(c, d, fail) \/ StartTxError(c, d, fail)
        \/ StartTxUnknown(c, fail)
  BY DEF execute_tx
<1>1. /\ dag' = <<>> /\ executed' = {} /\ outcomes' = <<>> /\ consumed' = {}
      /\ results' = <<>> /\ pending' = 0 /\ hist' = <<>> /\ ntx' = ntx + 1
      /\ phase = "idle" /\ stack' = stack
      /\ store' = credit_attach(store, c, d) \/ store' = store
  BY <1>0 DEF StartTx, StartTxError, StartTxUnknown, fresh_tx_state
<1>2. /\ store \in [Slots -> Nat] /\ stack = <<>> /\ guest = NoGuest
      /\ ntx' \in Nat
  BY <1>1 DEF TInv, TypeOK, ControlInv
<1>3. store' \in [Slots -> Nat]
  BY <1>1, <1>2, CreditType, AmountsAssumption DEF credit_attach
<1>4. d \in Nat /\ fail \in SUBSET Nat
  BY AmountsAssumption
<1>5. tx' \in TxSet
  <2>1. CASE StartTx(c, d, fail)
    <3>1. tx' = [contract |-> c, attach |-> d, fail |-> fail, ok |-> FALSE,
                 trapped |-> FALSE, errors |-> 0, began |-> FALSE,
                 snap |-> store', pre |-> store]
      BY <2>1 DEF StartTx
    <3> QED
      BY <1>2, <1>3, <1>4, <3>1 DEF TxSet
  <2>2. CASE StartTxError(c, d, fail)
    <3>1. tx' = [contract |-> c, attach |-> d, fail |-> fail, ok |-> FALSE,
                 trapped |-> FALSE, errors |-> 1, began |-> FALSE,
                 snap |-> store, pre |-> store]
      BY <2>2 DEF StartTxError
    <3> QED
      BY <1>2, <1>4, <3>1 DEF TxSet
  <2>3. CASE StartTxUnknown(c, fail)
    <3>1. tx' = [contract |-> c, attach |-> 0, fail |-> fail, ok |-> FALSE,
                 trapped |-> FALSE, errors |-> 1, began |-> FALSE,
                 snap |-> store, pre |-> store]
      BY <2>3 DEF StartTxUnknown
    <3> QED
      BY <1>2, <1>4, <3>1 DEF TxSet
  <2> QED
    BY <1>0, <2>1, <2>2, <2>3
<1>6. /\ guest' \in Guests /\ guest'.outer = 0
      /\ phase' \in {"idle", "entry"} /\ (phase' = "idle" => guest' = NoGuest)
      /\ guest' # NoGuest => guest'.acct \in Accounts
      /\ phase' = "entry" => guest' # NoGuest
  <2>1. [NoGuest EXCEPT !.acct = c] \in Guests
    BY <1>4, NoGuestType DEF Guests
  <2>2. [NoGuest EXCEPT !.acct = c].outer = 0
    BY NoGuestType DEF Guests
  <2>3. [NoGuest EXCEPT !.acct = c].acct = c
    BY NoGuestType DEF Guests
  <2>4. [NoGuest EXCEPT !.acct = c] # NoGuest
    BY <2>3, AccountsAssumption DEF NoGuest
  <2> QED
    BY <1>0, <1>1, <1>2, <1>4, <2>1, <2>2, <2>3, <2>4, NoGuestType
       DEF StartTx, StartTxError, StartTxUnknown
<1>7. /\ \A S : <<>> \in Seq(S)
      /\ Len(<<>>) = 0
      /\ DOMAIN <<>> = {}
  BY EmptySeq
<1>8. TypeOK'
  BY <1>1, <1>2, <1>3, <1>5, <1>6, <1>7 DEF TypeOK, TxSet
<1>9. ControlInv' /\ RefInv'
  BY <1>1, <1>2, <1>6, <1>7 DEF ControlInv, RefInv
<1> QED
  BY <1>8, <1>9 DEF TInv

\* The frame of an executed batch on an empty stack.
LEMMA BottomFrame ==
  ASSUME TInv, NEW i \in 1..Len(dag), NEW ex, i \in ex
  PROVE  StackOK(<<NewFrame(i)>>, ex, Len(dag)) /\ <<NewFrame(i)>> # <<>>
<1> DEFINE f == NewFrame(i)
<1>0. 0 <= Len(dag)
  BY LenProperties DEF TInv, TypeOK
<1>1. f \in Frames /\ f.idx = i /\ f.child = 0 /\ f.pc = "deps"
  BY NewFrameType
<1> HIDE DEF f
<1>2. /\ <<f>> \in Seq(Frames) /\ Len(<<f>>) = 1 /\ <<f>>[1] = f
      /\ <<f>> # <<>>
  BY <1>1
<1> QED
  BY <1>0, <1>1, <1>2 DEF StackOK, f

\* Steps that leave the DAG alone and give new values, of the right types, to
\* the stack, the storage and the control variables.
LEMMA ControlStepType ==
  ASSUME TInv, UNCHANGED <<dag, consumed, ntx>>,
         hist' \in Seq(HistSet), Len(hist') = Len(hist),
         executed' \in SUBSET (1..Len(dag)), DOMAIN outcomes' \subseteq executed',
         \A i \in DOMAIN outcomes' : outcomes'[i] \in Seq(Nat),
         results' \in Seq(Nat), store' \in [Slots -> Nat],
         StackOK(stack', executed', Len(dag)),
         phase' \in {"idle", "entry", "root", "drain", "settle"},
         tx' \in TxSet, pending' \in Nat, guest' \in Guests, ControlInv'
  PROVE  TInv'
<1>1. TypeOK'
  BY DEF TInv, TypeOK, StackOK, HistSet, TxSet
<1>2. RefInv'
  BY DEF TInv, RefInv, StackOK
<1> QED
  BY <1>1, <1>2 DEF TInv

\* What TInv says of the variables, in the form ControlStepType asks for.
LEMMA Types ==
  ASSUME TInv
  PROVE  /\ hist \in Seq(HistSet) /\ Len(hist) = Len(dag) /\ Len(dag) \in Nat
         /\ dag \in Seq(Batches)
         /\ executed \in SUBSET (1..Len(dag)) /\ DOMAIN outcomes \subseteq executed
         /\ \A i \in DOMAIN outcomes : outcomes[i] \in Seq(Nat)
         /\ results \in Seq(Nat) /\ store \in [Slots -> Nat]
         /\ StackOK(stack, executed, Len(dag)) /\ stack \in Seq(Frames)
         /\ phase \in {"idle", "entry", "root", "drain", "settle"}
         /\ tx \in TxSet /\ pending \in Nat /\ guest \in Guests
         /\ guest # NoGuest => pending <= Len(dag)
         /\ guest.outer \in Nat
<1>1. Len(dag) \in Nat
  BY LenProperties DEF TInv, TypeOK
<1>2. guest.outer \in Nat
  BY DEF TInv, TypeOK, Guests
<1> QED
  BY <1>1, <1>2, StackIsOK DEF TInv, TypeOK, ControlInv, HistSet, TxSet

\* The status of the transaction after its final receipt.
LEMMA TxStatusType ==
  ASSUME TInv, NEW res
  PROVE  TxStatus(res) \in TxSet
<1> DEFINE b == (res = <<>> \/ Last(res) # Failed)
<1>1. b \in BOOLEAN
  OBVIOUS
<1>2. TxStatus(res) = [tx EXCEPT !.ok = b]
  BY DEF TxStatus
<1> HIDE DEF b
<1> QED
  BY <1>1, <1>2, Types DEF TxSet

\* The start function of the module ends.
LEMMA BeginType ==
  ASSUME TInv, EntryBegins \/ NoMethod
  PROVE  TInv'
<1>1. /\ UNCHANGED <<dag, executed, outcomes, consumed, results, pending, store,
                     stack, ntx, hist>>
      /\ phase = "entry"
  BY DEF EntryBegins, NoMethod, InStart, engine
<1>2. tx' \in TxSet
  <2>1. tx \in TxSet /\ store \in [Slots -> Nat]
    BY Types
  <2>2. \/ tx' = [tx EXCEPT !.began = TRUE, !.snap = store]
        \/ tx' = [tx EXCEPT !.errors = 1]
    BY DEF EntryBegins, NoMethod
  <2> DEFINE u == [tx EXCEPT !.began = TRUE]
  <2>3. u \in TxSet /\ [tx EXCEPT !.errors = 1] \in TxSet
    BY <2>1 DEF TxSet
  <2>4. [tx EXCEPT !.began = TRUE, !.snap = store] = [u EXCEPT !.snap = store]
    BY <2>1 DEF TxSet
  <2> HIDE DEF u
  <2>5. [u EXCEPT !.snap = store] \in TxSet
    BY <2>1, <2>3 DEF TxSet
  <2> QED
    BY <2>2, <2>3, <2>4, <2>5
<1>3. CASE EntryBegins
  <2>1. UNCHANGED <<guest, phase>>
    BY <1>3 DEF EntryBegins
  <2>2. ControlInv'
    BY <1>1, <2>1 DEF TInv, ControlInv
  <2> QED
    BY <1>1, <1>2, <2>1, <2>2, Types, ControlStepType
<1>4. CASE NoMethod
  <2>1. guest' = NoGuest /\ phase' = "idle"
    BY <1>4 DEF NoMethod
  <2>2. ControlInv'
    BY <1>1, <2>1, NoGuestType, Types DEF ControlInv, TInv
  <2> QED
    BY <1>1, <1>2, <2>1, <2>2, Types, NoGuestType, ControlStepType
<1> QED
  BY <1>3, <1>4

\* execute_tx, from the end of the entry call.
LEMMA TxEndType ==
  ASSUME TInv, EntryReturn \/ EntryTrap \/ DrainNext \/ DrainDone
  PROVE  TInv'
<1>1. CASE EntryReturn
  <2>1. /\ phase = "entry" /\ guest' = NoGuest
        /\ executed' = executed \cup ({pending} \ {0})
        /\ UNCHANGED <<dag, outcomes, consumed, results, pending, store, ntx,
                       hist>>
    BY <1>1 DEF EntryReturn
  <2>2. stack = <<>> /\ guest # NoGuest
    BY <2>1 DEF TInv, ControlInv
  <2>3. executed' \in SUBSET (1..Len(dag)) /\ DOMAIN outcomes' \subseteq executed'
    BY <2>1, <2>2, Types
  <2>4. CASE pending = 0 \/ Memoized(pending)
    <3>1. phase' = "drain" /\ stack' = stack
      BY <1>1, <2>4 DEF EntryReturn
    <3>2. tx' \in TxSet
      <4>1. tx' = [tx EXCEPT !.ok = TRUE] \/ tx' = TxStatus(outcomes[pending])
        BY <1>1, <2>4 DEF EntryReturn
      <4> QED
        BY <4>1, Types, TxStatusType DEF TxSet
    <3>3. StackOK(stack', executed', Len(dag))
      BY <2>1, <3>1, Types, StackGrows
    <3>4. ControlInv'
      BY <2>1, <2>2, <3>1, NoGuestType, Types DEF ControlInv
    <3> QED
      BY <2>1, <2>3, <3>1, <3>2, <3>3, <3>4, Types, NoGuestType,
         ControlStepType
  <2>5. CASE ~(pending = 0 \/ Memoized(pending))
    <3>1. /\ phase' = "root" /\ stack' = <<NewFrame(pending)>>
          /\ tx' = [tx EXCEPT !.ok = TRUE]
      BY <1>1, <2>5 DEF EntryReturn
    <3>2. tx' \in TxSet
      BY <3>1, Types DEF TxSet
    <3>3. StackOK(stack', executed', Len(dag)) /\ stack' # <<>>
      <4>1. pending \in 1..Len(dag) /\ pending \in executed'
        BY <2>1, <2>2, <2>5, Types
      <4> QED
        BY <3>1, <4>1, BottomFrame
    <3>4. ControlInv'
      BY <2>1, <3>1, <3>3, NoGuestType, Types DEF ControlInv
    <3> QED
      BY <2>1, <2>3, <3>1, <3>2, <3>3, <3>4, Types, NoGuestType,
         ControlStepType
  <2> QED
    BY <2>4, <2>5
<1>2. CASE EntryTrap
  <2>1. /\ phase = "entry" /\ guest' = NoGuest /\ phase' = "idle"
        /\ store' = Debit(tx.snap, tx.contract, tx.attach)
        /\ tx' = [tx EXCEPT !.trapped = TRUE]
        /\ UNCHANGED <<dag, executed, outcomes, consumed, results, pending,
                       stack, ntx, hist>>
    BY <1>2 DEF EntryTrap, engine
  <2>2. tx.snap \in [Slots -> Nat] /\ tx.attach \in Nat /\ tx' \in TxSet
    BY <2>1, Types DEF TxSet
  <2>3. store' \in [Slots -> Nat]
    BY <2>1, <2>2, DebitType
  <2>4. ControlInv'
    BY <2>1, NoGuestType, Types DEF ControlInv, TInv
  <2> QED
    BY <2>1, <2>2, <2>3, <2>4, Types, NoGuestType, ControlStepType
<1>3. CASE DrainNext
  <2> DEFINE i == Min(Unexecuted)
  <2>1. /\ phase = "drain" /\ stack = <<>> /\ executed' = executed \cup {i}
        /\ stack' = IF Memoized(i) THEN <<>> ELSE <<NewFrame(i)>>
        /\ UNCHANGED <<dag, outcomes, consumed, results, pending, store, guest,
                       phase, tx, ntx, hist>>
    BY <1>3 DEF DrainNext
  <2>2. i \in 1..Len(dag)
    <3>1. Unexecuted \subseteq Nat /\ Unexecuted # {}
      BY <1>3 DEF DrainNext, Unexecuted
    <3> QED
      BY <3>1, MinIn DEF Unexecuted
  <2> HIDE DEF i
  <2>3. executed' \in SUBSET (1..Len(dag)) /\ DOMAIN outcomes' \subseteq executed'
    BY <2>1, <2>2, Types
  <2>4. StackOK(stack', executed', Len(dag))
    <3>1. StackOK(<<>>, executed', Len(dag))
      BY <2>1, Types, StackGrows
    <3> QED
      BY <2>1, <2>2, <3>1, BottomFrame
  <2>5. guest = NoGuest
    BY <2>1 DEF TInv, ControlInv
  <2>6. ControlInv'
    BY <2>1, <2>5, NoGuestType, Types DEF ControlInv
  <2> QED
    BY <2>1, <2>3, <2>4, <2>6, Types, ControlStepType
<1>4. CASE DrainDone
  <2>1. /\ phase = "drain" /\ stack = <<>> /\ phase' = "idle"
        /\ UNCHANGED <<dag, executed, outcomes, consumed, results, pending,
                       store, stack, guest, tx, ntx, hist>>
    BY <1>4 DEF DrainDone, engine
  <2>2. guest = NoGuest
    BY <2>1 DEF TInv, ControlInv
  <2>3. ControlInv'
    BY <2>1, <2>2, Types DEF ControlInv
  <2> QED
    BY <2>1, <2>3, Types, ControlStepType
<1> QED
  BY <1>1, <1>2, <1>3, <1>4

\* While no contract runs and a frame is live, execute_tx resolves promises.
LEMMA RunningFacts ==
  ASSUME TInv, Running
  PROVE  /\ stack # <<>> /\ guest = NoGuest /\ phase \notin {"idle", "entry"}
         /\ Top.child \in Nat /\ Top.child <= Len(dag)
<1>1. stack # <<>> /\ guest = NoGuest
  BY DEF Running
<1>2. phase \notin {"idle", "entry"}
  BY <1>1 DEF TInv, ControlInv
<1>3. Top.child \in Nat /\ Top.child <= Len(dag)
  BY <1>1, TopFacts DEF Frames, TInv, RefInv
<1> QED
  BY <1>1, <1>2, <1>3

\* The batch a frame asks for next is a batch of the DAG.
LEMMA CalleeFacts ==
  ASSUME TInv, Running, Callee(Top) # 0
  PROVE  /\ Callee(Top) \in 1..Len(dag)
         /\ \/ Top.pc = "child" /\ Callee(Top) = Top.child
            \/ /\ Top.pc = "deps"
               /\ \E j \in 1..Len(Batch.deps) : Callee(Top) = Batch.deps[j]
<1>1. /\ stack # <<>> /\ Top.child \in Nat /\ Top.child <= Len(dag)
      /\ Top.idx \in 1..Len(dag) /\ Top.dp \in Nat /\ Batch \in Batches
  BY RunningFacts, TopFacts DEF Frames
<1>2. CASE Top.pc = "child"
  BY <1>1, <1>2, Types DEF Callee
<1>3. CASE Top.pc # "child"
  <2>1. /\ Top.pc = "deps" /\ Top.dp < Len(dag[Top.idx].deps)
        /\ Callee(Top) = dag[Top.idx].deps[Top.dp + 1]
    BY <1>3 DEF Callee
  <2>2. Len(dag[Top.idx].deps) \in Nat
    BY <1>1, LenProperties DEF Batch, Batches
  <2>3. Top.dp + 1 \in 1..Len(dag[Top.idx].deps)
    BY <1>1, <2>1, <2>2
  <2>4. Callee(Top) \in 1..Len(dag)
    BY <1>1, <2>1, <2>3 DEF TInv, RefInv
  <2> QED
    BY <2>1, <2>3, <2>4 DEF Batch
<1> QED
  BY <1>2, <1>3

\* Control after a step that keeps a frame live and no contract running.
LEMMA StillRunning ==
  ASSUME TInv, Running, UNCHANGED <<dag, pending, guest, phase>>,
         stack' # <<>>
  PROVE  ControlInv'
BY RunningFacts, NoGuestType, Types DEF ControlInv

\* execute_promise on a dependency or a returned promise.
LEMMA ExecutePromiseType ==
  ASSUME TInv, ExecutePromise
  PROVE  TInv'
<1> DEFINE c == Callee(Top)
<1>1. /\ Running /\ c # 0 /\ executed' = executed \cup {c}
      /\ UNCHANGED <<dag, outcomes, consumed, results, pending, store, guest,
                     phase, tx, ntx, hist>>
  BY DEF ExecutePromise
<1>2. c \in 1..Len(dag) /\ stack # <<>>
  BY <1>1, CalleeFacts, RunningFacts
<1>3. executed' \in SUBSET (1..Len(dag)) /\ DOMAIN outcomes' \subseteq executed'
  BY <1>1, <1>2, Types
<1>4. StackOK(stack', executed', Len(dag)) /\ stack' # <<>>
  <2>1. CASE Memoized(c)
    <3> DEFINE f == Receive(Top, outcomes[c])
    <3>1. stack' = SetTop(f)
      BY <2>1 DEF ExecutePromise
    <3>2. /\ f \in Frames /\ f.idx = Top.idx /\ f.child <= Len(dag)
          /\ f.pc # "child"
      BY <1>1, <1>2, <2>1, Types, TopFacts, RunningFacts, ReceiveType
         DEF Memoized
    <3> HIDE DEF f
    <3>3. StackOK(SetTop(f), executed, Len(dag)) /\ SetTop(f) # <<>>
      BY <1>2, <3>2, SetTopOK
    <3> QED
      BY <1>1, <3>1, <3>3, Types, StackGrows
  <2>2. CASE ~Memoized(c)
    <3> DEFINE f == NewFrame(c)
    <3>1. stack' = Append(stack, f)
      BY <2>2 DEF ExecutePromise
    <3>2. f \in Frames /\ f.idx = c /\ f.child = 0 /\ f.pc = "deps"
      BY <1>2, NewFrameType
    <3> HIDE DEF f
    <3>3. StackOK(stack, executed', Len(dag))
      BY <1>1, Types, StackGrows
    <3>4. /\ stack' \in Seq(Frames) /\ stack' # <<>>
          /\ Len(stack') = Len(stack) + 1 /\ stack'[Len(stack) + 1] = f
          /\ \A k \in 1..Len(stack) : stack'[k] = stack[k]
      BY <3>1, <3>2, PushFacts
    <3>5. Len(stack) \in Nat /\ 0 <= Len(dag)
      BY Types, LenProperties
    <3>6. ASSUME NEW k \in 1..Len(stack')
          PROVE  /\ stack'[k].idx \in executed'
                 /\ stack'[k].child <= Len(dag)
                 /\ stack'[k].pc = "child" => stack'[k].child # 0
      <4>1. CASE k \in 1..Len(stack)
        BY <3>3, <3>4, <4>1 DEF StackOK
      <4>2. CASE k = Len(stack) + 1
        BY <1>1, <3>2, <3>4, <3>5, <4>2
      <4> QED
        BY <3>4, <3>5, <4>1, <4>2
    <3> QED
      BY <3>4, <3>6 DEF StackOK
  <2> QED
    BY <2>1, <2>2
<1>5. ControlInv'
  BY <1>1, <1>4, StillRunning
<1> QED
  BY <1>1, <1>3, <1>4, <1>5, Types, ControlStepType

\* execute_promise_uncached returns: the innermost frame goes, its batch is
\* memoized, and the frame below it takes the result.
LEMMA ReturnFacts ==
  ASSUME TInv, Running, NEW res \in Seq(Nat), Return(res)
  PROVE  /\ DOMAIN outcomes' = DOMAIN outcomes \cup {Top.idx}
         /\ \A i \in DOMAIN outcomes' : outcomes'[i] \in Seq(Nat)
         /\ StackOK(stack', executed, Len(dag))
         /\ Len(stack') = Len(stack) - 1
         /\ \A k \in 1..Len(stack') :
              /\ stack'[k].idx = stack[k].idx
              /\ stack'[k].pc = "deps" <=> stack[k].pc = "deps"
              /\ stack'[k].pc = "child" => stack'[k] = stack[k]
         /\ phase' = phase \/ phase' = "drain"
         /\ tx' \in TxSet
<1>1. stack # <<>> /\ Top.idx \in executed
  BY RunningFacts, TopFacts
<1>2. /\ DOMAIN outcomes' = DOMAIN outcomes \cup {Top.idx}
      /\ \A i \in DOMAIN outcomes' : outcomes'[i] \in Seq(Nat)
  BY Types DEF Return
<1>3. /\ phase' = phase \/ phase' = "drain"
      /\ tx' \in TxSet
  BY Types, TxStatusType DEF Return
<1>4. /\ Len(stack) \in Nat \ {0}
      /\ Front(stack) \in Seq(Frames) /\ Len(Front(stack)) = Len(stack) - 1
      /\ \A i \in 1..(Len(stack) - 1) : Front(stack)[i] = stack[i]
  BY <1>1, Types, LastFront
<1>5. CASE Len(stack) > 1
  <2> DEFINE m == Len(stack) - 1
             f == Receive(Front(stack)[m], res)
  <2>1. m \in Nat /\ m \in 1..m /\ \A k \in 1..m : k \in 1..Len(stack)
    BY <1>4, <1>5
  <2>2. stack' = [Front(stack) EXCEPT ![m] = f]
    BY <1>5 DEF Return
  <2>3. stack[m] \in Frames /\ stack[m].child <= Len(dag)
    BY <2>1, Types, ElementOfSeq DEF StackOK
  <2>4. Front(stack)[m] = stack[m]
    BY <1>4, <2>1
  <2>5. /\ f \in Frames /\ f.idx = stack[m].idx /\ f.child <= Len(dag)
        /\ f.pc = IF stack[m].pc = "deps" THEN "deps" ELSE "act"
    BY <2>3, <2>4, Types, ReceiveType
  <2> HIDE DEF f, m
  <2>6. /\ stack' \in Seq(Frames) /\ Len(stack') = m
        /\ \A k \in 1..m : stack'[k] = IF k = m THEN f ELSE Front(stack)[k]
    BY <1>4, <2>1, <2>2, <2>5, ExceptSeq DEF m
  <2>7. \A k \in 1..m : stack'[k] = IF k = m THEN f ELSE stack[k]
    BY <1>4, <2>6 DEF m
  <2>8. StackOK(stack', executed, Len(dag))
    BY <2>1, <2>5, <2>6, <2>7, Types DEF StackOK
  <2>9. ASSUME NEW k \in 1..m
        PROVE  /\ stack'[k].idx = stack[k].idx
               /\ stack'[k].pc = "deps" <=> stack[k].pc = "deps"
               /\ stack'[k].pc = "child" => stack'[k] = stack[k]
    BY <2>5, <2>7
  <2> QED
    BY <1>2, <1>3, <2>6, <2>8, <2>9 DEF m
<1>6. CASE ~(Len(stack) > 1)
  <2>1. stack' = <<>> /\ Len(stack') = 0 /\ stack' \in Seq(Frames)
    BY <1>6, EmptySeq DEF Return
  <2>2. Len(stack) - 1 = 0
    BY <1>4, <1>6, Pred
  <2>3. StackOK(stack', executed, Len(dag))
    BY <2>1 DEF StackOK
  <2> QED
    BY <1>2, <1>3, <2>1, <2>2, <2>3
<1> QED
  BY <1>5, <1>6

\* A batch returns.
LEMMA ReturnType ==
  ASSUME TInv, Running, NEW res \in Seq(Nat), Return(res),
         results' \in Seq(Nat),
         UNCHANGED <<dag, executed, consumed, pending, store, guest, ntx, hist>>
  PROVE  TInv'
<1>1. DOMAIN outcomes' \subseteq executed'
  BY ReturnFacts, RunningFacts, TopFacts, Types
<1>2. ControlInv'
  BY ReturnFacts, RunningFacts, NoGuestType, Types DEF ControlInv
<1>3. phase' \in {"idle", "entry", "root", "drain", "settle"}
  BY ReturnFacts, Types
<1> QED
  BY <1>1, <1>2, <1>3, ReturnFacts, Types, ControlStepType

\* The steps of execute_promise_uncached around the actions of a batch.
LEMMA ResolveType ==
  ASSUME TInv, ForcedFail \/ PublishResults \/ FinishBatch
  PROVE  TInv'
<1>1. CASE ForcedFail
  <2>1. Running /\ Return(<<>>) /\ <<>> \in Seq(Nat)
    BY <1>1, EmptySeq DEF ForcedFail, DepsDone
  <2> QED
    BY <1>1, <2>1, Types, ReturnType DEF ForcedFail
<1>2. CASE PublishResults
  <2> DEFINE f == [Top EXCEPT !.pc = "act", !.saved = results, !.start = store]
  <2>1. /\ Running /\ results' = Top.depRes /\ stack' = SetTop(f)
        /\ hist' = [hist EXCEPT ![Top.idx].runs = @ + 1]
        /\ UNCHANGED <<dag, executed, outcomes, consumed, pending, store, guest,
                       phase, tx, ntx>>
    BY <1>2 DEF PublishResults, DepsDone
  <2>2. stack # <<>> /\ Top \in Frames /\ Top.idx \in 1..Len(dag)
    BY <2>1, RunningFacts, TopFacts
  <2>3. results' \in Seq(Nat)
    BY <2>1, <2>2 DEF Frames
  <2>4. /\ f \in Frames /\ f.idx = Top.idx /\ f.child = Top.child
        /\ f.pc = "act"
    BY <2>2, Types DEF Frames
  <2> HIDE DEF f
  <2>5. StackOK(stack', executed, Len(dag)) /\ stack' # <<>>
    BY <2>1, <2>2, <2>4, RunningFacts, SetTopOK
  <2>6. hist' \in Seq(HistSet) /\ Len(hist') = Len(hist)
    <3> DEFINE g == [hist[Top.idx] EXCEPT !.runs = @ + 1]
    <3>1. hist[Top.idx] \in HistSet
      BY <2>2, Types, ElementOfSeq
    <3>2. g \in HistSet
      BY <3>1 DEF HistSet
    <3>3. hist' = [hist EXCEPT ![Top.idx] = g]
      BY <2>1
    <3> HIDE DEF g
    <3> QED
      BY <2>2, <3>2, <3>3, Types, ExceptSeq
  <2>7. ControlInv'
    BY <2>1, <2>5, StillRunning
  <2> QED
    BY <2>1, <2>3, <2>5, <2>6, <2>7, Types, ControlStepType
<1>3. CASE FinishBatch
  <2> DEFINE res == IF Batch.account = NoAcct THEN Top.depRes ELSE Top.out
  <2>1. Running /\ Return(res) /\ results' = Top.saved
    BY <1>3 DEF FinishBatch
  <2>2. Top \in Frames
    BY <2>1, RunningFacts, TopFacts
  <2>3. res \in Seq(Nat) /\ results' \in Seq(Nat)
    BY <2>1, <2>2 DEF Frames
  <2> HIDE DEF res
  <2> QED
    BY <1>3, <2>1, <2>3, ReturnType DEF FinishBatch
<1> QED
  BY <1>1, <1>2, <1>3

\* The action at the head of the loop, and the accounts and slots it names.
LEMMA ActionFacts ==
  ASSUME TInv, ActionsLeft
  PROVE  /\ Running /\ stack # <<>> /\ Top \in Frames
         /\ Batch.account \in Accounts /\ Batch.creator \in Accounts
         /\ Action.amt \in Nat
         /\ \A x \in Fields : <<Batch.account, x>> \in Slots
         /\ <<Batch.creator, "bal">> \in Slots
<1>1. Running /\ stack # <<>> /\ Top \in Frames /\ Batch \in Batches
  BY RunningFacts, TopFacts DEF ActionsLeft
<1>2. /\ Batch.account \in Accounts /\ Batch.creator \in Accounts
      /\ Batch.actions \in Seq(Actions) /\ Len(Batch.actions) \in Nat
  BY <1>1, LenProperties DEF ActionsLeft, Batches
<1>3. Top.ap \in 1..Len(Batch.actions)
  BY <1>1, <1>2 DEF ActionsLeft, Frames
<1>4. Action \in Actions
  BY <1>2, <1>3, ElementOfSeq DEF Action
<1> QED
  BY <1>1, <1>2, <1>4 DEF Actions, Slots, Fields

\* An arm of the loop that succeeds.
LEMMA SucceedType ==
  ASSUME TInv, ActionsLeft, NEW s \in [Slots -> Nat], NEW t \in Touches,
         Succeed(s, t), ActionOnly
  PROVE  TInv'
<1> DEFINE f == [Top EXCEPT !.ap = Top.ap + 1, !.out = Append(Top.out, Top.idx),
                            !.touched = Top.touched \o t]
<1>1. Running /\ stack # <<>> /\ Top \in Frames
  BY ActionFacts
<1>2. /\ Append(Top.out, Top.idx) \in Seq(Nat) /\ Top.ap + 1 \in Nat \ {0}
      /\ Top.touched \o t \in Touches
  BY <1>1, AppendProperties, ConcatProperties DEF Frames, Touches
<1>3. /\ f \in Frames /\ f.idx = Top.idx /\ f.child = Top.child
      /\ f.pc = Top.pc
  BY <1>1, <1>2 DEF Frames, Touches
<1>4. stack' = SetTop(f) /\ store' = s
  BY DEF Succeed
<1>5. UNCHANGED <<dag, executed, outcomes, consumed, results, pending, guest,
                  phase, tx, ntx, hist>>
  BY DEF ActionOnly, engine
<1> HIDE DEF f
<1>6. StackOK(stack', executed, Len(dag)) /\ stack' # <<>>
  BY <1>1, <1>3, <1>4, RunningFacts, SetTopOK, Top.pc = "act" DEF ActionsLeft
<1>7. ControlInv'
  BY <1>1, <1>5, <1>6, StillRunning
<1> QED
  BY <1>4, <1>5, <1>6, <1>7, Types, ControlStepType

\* An arm of the loop that fails and reverts what the batch touched.
LEMMA RevertStepType ==
  ASSUME TInv, ActionsLeft, Revert, ActionOnly
  PROVE  TInv'
<1> DEFINE f == [Top EXCEPT !.ap = Len(Batch.actions) + 1,
                            !.out = Append(Top.out, Failed)]
<1>1. Running /\ stack # <<>> /\ Top \in Frames /\ Batch \in Batches
  BY ActionFacts, TopFacts
<1>2. /\ Append(Top.out, Failed) \in Seq(Nat)
      /\ Len(Batch.actions) + 1 \in Nat \ {0}
  <2>1. Len(Batch.actions) \in Nat
    BY <1>1, LenProperties DEF Batches
  <2> QED
    BY <1>1, <2>1, AppendProperties DEF Frames, Failed
<1>3. /\ f \in Frames /\ f.idx = Top.idx /\ f.child = Top.child
      /\ f.pc = Top.pc
  BY <1>1, <1>2 DEF Frames
<1>4. stack' = SetTop(f) /\ store' = RevertTouched(store, Top.touched)
  BY DEF Revert
<1>5. UNCHANGED <<dag, executed, outcomes, consumed, results, pending, guest,
                  phase, tx, ntx, hist>>
  BY DEF ActionOnly, engine
<1>6. store' \in [Slots -> Nat]
  BY <1>1, <1>4, Types, RevertType DEF Frames
<1> HIDE DEF f
<1>7. StackOK(stack', executed, Len(dag)) /\ stack' # <<>>
  BY <1>1, <1>3, <1>4, RunningFacts, SetTopOK, Top.pc = "act" DEF ActionsLeft
<1>8. ControlInv'
  BY <1>1, <1>5, <1>7, StillRunning
<1> QED
  BY <1>4, <1>5, <1>6, <1>7, <1>8, Types, ControlStepType

\* A record of a touched slot.
LEMMA TouchType ==
  ASSUME NEW k \in Slots, NEW s \in [Slots -> Nat]
  PROVE  Touch(k, s) \in [slot : Slots, old : Nat]
BY DEF Touch

\* The actions of a batch that are not calls.
LEMMA DoActionType ==
  ASSUME TInv,
         DoTransfer \/ DoStake \/ DoAddKey \/ DoDeleteKey \/ DoDeleteAccount
  PROVE  TInv'
<1>0. store \in [Slots -> Nat] /\ <<>> \in Touches /\ LooseKey \in Slots
  BY Types, EmptySeq DEF Touches, Slots
<1>1. CASE DoTransfer
  <2> DEFINE from == <<Batch.creator, "bal">>
             to == <<Batch.account, "bal">>
             debited == Debit(store, Batch.creator, Action.amt)
             s == Credit(debited, Batch.account, Action.amt)
             t == <<Touch(from, store), Touch(to, debited)>>
  <2>1. /\ ActionsLeft /\ ActionOnly
        /\ Revert \/ Succeed(s, t)
    BY <1>1 DEF DoTransfer
  <2>2. from \in Slots /\ to \in Slots /\ Action.amt \in Nat
    BY <2>1, ActionFacts DEF Fields
  <2>3. debited \in [Slots -> Nat]
    BY <1>0, <2>2, DebitType
  <2>4. s \in [Slots -> Nat]
    BY <2>2, <2>3, CreditType
  <2>5. t \in Touches
    <3>1. /\ Touch(from, store) \in [slot : Slots, old : Nat]
          /\ Touch(to, debited) \in [slot : Slots, old : Nat]
      BY <1>0, <2>2, <2>3, TouchType
    <3> QED
      BY <3>1 DEF Touches
  <2> HIDE DEF s, t
  <2> QED
    BY <2>1, <2>4, <2>5, SucceedType, RevertStepType
<1>2. CASE DoStake
  <2> DEFINE bal == <<Batch.account, "bal">>
             locked == <<Batch.account, "locked">>
             s == [store EXCEPT ![bal] = @ - Action.amt,
                                ![locked] = @ + Action.amt]
             t == <<Touch(bal, store)>>
  <2>1. /\ ActionsLeft /\ ActionOnly
        /\ Action.amt > store[bal] => Revert
        /\ ~(Action.amt > store[bal]) => Succeed(s, t)
    BY <1>2 DEF DoStake
  <2>2. bal \in Slots /\ locked \in Slots /\ Action.amt \in Nat
    BY <2>1, ActionFacts DEF Fields
  <2>3. store[bal] \in Nat /\ store[locked] \in Nat /\ bal # locked
    BY <1>0, <2>2
  <2>4. ASSUME ~(Action.amt > store[bal]) PROVE s \in [Slots -> Nat]
    <3> HIDE DEF bal, locked
    <3>1. store[bal] - Action.amt \in Nat /\ store[locked] + Action.amt \in Nat
      BY <2>2, <2>3, <2>4
    <3>2. s = [[store EXCEPT ![bal] = store[bal] - Action.amt]
                 EXCEPT ![locked] = store[locked] + Action.amt]
      BY <1>0, <2>2, <2>3
    <3> QED
      BY <1>0, <3>1, <3>2, WriteType
  <2>5. t \in Touches
    BY <1>0, <2>2, TouchType DEF Touches
  <2> HIDE DEF s, t
  <2> QED
    BY <2>1, <2>4, <2>5, SucceedType, RevertStepType
<1>3. CASE DoAddKey
  <2> DEFINE t == IF store[LooseKey] = 0 THEN <<Touch(LooseKey, store)>> ELSE <<>>
             s == [store EXCEPT ![LooseKey] = 1]
  <2>1. ActionsLeft /\ ActionOnly /\ Succeed(s, t)
    BY <1>3 DEF DoAddKey
  <2>2. s \in [Slots -> Nat]
    BY <1>0, WriteType
  <2>3. t \in Touches
    <3>1. Touch(LooseKey, store) \in [slot : Slots, old : Nat]
      BY <1>0, TouchType
    <3>2. <<Touch(LooseKey, store)>> \in Touches
      BY <3>1 DEF Touches
    <3> QED
      BY <1>0, <3>2
  <2> HIDE DEF s, t
  <2> QED
    BY <2>1, <2>2, <2>3, SucceedType
<1>4. CASE DoDeleteKey
  <2> DEFINE key == <<Batch.account, "key">>
             s == [store EXCEPT ![key] = 0]
             t == <<[slot |-> key, old |-> 0]>>
  <2>1. ActionsLeft /\ ActionOnly /\ (Revert \/ Succeed(s, t))
    BY <1>4 DEF DoDeleteKey
  <2>2. key \in Slots
    BY <2>1, ActionFacts DEF Fields
  <2>3. s \in [Slots -> Nat]
    BY <1>0, WriteType
  <2>4. t \in Touches
    BY <2>2 DEF Touches
  <2> HIDE DEF s, t
  <2> QED
    BY <2>1, <2>3, <2>4, SucceedType, RevertStepType
<1>5. CASE DoDeleteAccount
  <2> DEFINE paid == Credit(store, Action.ben, store[<<Batch.account, "bal">>])
             gone == [f \in Fields |-> 0]
             s == restore_partition(paid, gone, Batch.account)
  <2>1. ActionsLeft /\ ActionOnly /\ Succeed(s, <<>>)
    BY <1>5 DEF DoDeleteAccount
  <2>2. store[<<Batch.account, "bal">>] \in Nat
    BY <1>0, <2>1, ActionFacts DEF Fields
  <2>3. paid \in [Slots -> Nat] /\ gone \in [Fields -> Nat]
    BY <1>0, <2>2, CreditType
  <2> HIDE DEF paid, gone
  <2>4. s \in [Slots -> Nat]
    BY <2>3, PartitionType
  <2> HIDE DEF s
  <2> QED
    BY <1>0, <2>1, <2>4, SucceedType
<1> QED
  BY <1>1, <1>2, <1>3, <1>4, <1>5

\* Starting a call, or failing to.
LEMMA CallType ==
  ASSUME TInv, CallUnknown \/ CallStart \/ CallError
  PROVE  TInv'
<1>0. ActionsLeft
  BY DEF CallUnknown, CallStart, CallError, AtCall
<1>1. /\ Running /\ stack # <<>> /\ Top \in Frames /\ Action.amt \in Nat
      /\ Batch.account \in Accounts /\ Batch.creator \in Accounts
      /\ Top.pc = "act"
  BY <1>0, ActionFacts DEF ActionsLeft
<1>2. MoveDeposit(store) \in [Slots -> Nat]
  BY <1>1, Types, CreditType, DebitType DEF MoveDeposit
<1>3. CASE CallUnknown
  <2> DEFINE f == [Top EXCEPT !.ap = Top.ap + 1, !.out = Append(Top.out, Failed)]
  <2>1. /\ stack' = SetTop(f)
        /\ UNCHANGED <<dag, executed, outcomes, consumed, results, pending,
                       store, guest, phase, tx, ntx, hist>>
    BY <1>3 DEF CallUnknown, engine
  <2>2. Append(Top.out, Failed) \in Seq(Nat) /\ Top.ap + 1 \in Nat \ {0}
    BY <1>1, AppendProperties DEF Frames, Failed
  <2>3. /\ f \in Frames /\ f.idx = Top.idx /\ f.child = Top.child
        /\ f.pc = Top.pc
    BY <1>1, <2>2 DEF Frames
  <2> HIDE DEF f
  <2>4. StackOK(stack', executed, Len(dag)) /\ stack' # <<>>
    BY <1>1, <2>1, <2>3, RunningFacts, SetTopOK
  <2>5. ControlInv'
    BY <1>1, <2>1, <2>4, StillRunning
  <2> QED
    BY <2>1, <2>4, <2>5, Types, ControlStepType
<1>4. CASE CallStart
  <2> DEFINE f == [Top EXCEPT !.pc = "call"]
             snap == snapshot_partition(store', Batch.account)
  <2>1. /\ stack' = SetTop(f) /\ store' = MoveDeposit(store) /\ pending' = 0
        /\ guest' = [acct |-> Batch.account, pred |-> Batch.creator,
                     dep |-> Action.amt, base |-> Len(dag), snap |-> snap,
                     outer |-> pending]
        /\ UNCHANGED <<dag, executed, outcomes, consumed, results, phase, tx,
                       ntx, hist>>
    BY <1>4 DEF CallStart
  <2>2. /\ f \in Frames /\ f.idx = Top.idx /\ f.child = Top.child
        /\ f.pc = "call"
    BY <1>1 DEF Frames
  <2>3. snap \in [Fields -> Nat]
    BY <1>1, <1>2, <2>1, PartitionType
  <2> HIDE DEF f, snap
  <2>4. StackOK(stack', executed, Len(dag)) /\ stack' # <<>>
    BY <1>1, <2>1, <2>2, RunningFacts, SetTopOK
  <2>5. guest' \in Guests /\ guest'.outer = pending /\ guest'.acct \in Accounts
    BY <1>1, <2>1, <2>3, Types DEF Guests
  <2>6. stack'[Len(stack')].pc = "call"
    BY <1>1, <2>1, <2>2, SetTopFacts
  <2>7. ControlInv'
    BY <1>1, <2>1, <2>4, <2>5, <2>6, RunningFacts, Types DEF ControlInv
  <2> QED
    BY <1>2, <2>1, <2>4, <2>5, <2>7, Types, ControlStepType
<1>5. CASE CallError
  <2>1. /\ stack' = <<>> /\ pending' = 0
        /\ phase' = IF phase = "root" THEN "drain" ELSE phase
        /\ store' = IF phase = "root" THEN tx.snap ELSE MoveDeposit(store)
        /\ UNCHANGED <<dag, executed, outcomes, consumed, results, guest, ntx,
                       hist>>
    BY <1>5 DEF CallError
  <2>2. tx' \in TxSet
    <3> DEFINE b == tx.ok /\ phase # "root"
    <3>1. b \in BOOLEAN
      OBVIOUS
    <3>2. tx' = [tx EXCEPT !.ok = b, !.errors = tx.errors + 1]
      BY <1>5 DEF CallError
    <3>3. tx \in TxSet /\ tx.errors + 1 \in Nat
      BY Types DEF TxSet
    <3> HIDE DEF b
    <3> QED
      BY <3>1, <3>2, <3>3 DEF TxSet
  <2>3. store' \in [Slots -> Nat]
    BY <1>2, <2>1, Types DEF TxSet
  <2>4. StackOK(stack', executed, Len(dag))
    BY <2>1, EmptySeq DEF StackOK
  <2>5. ControlInv'
    BY <1>1, <2>1, RunningFacts, NoGuestType, Types DEF ControlInv
  <2>6. phase' \in {"idle", "entry", "root", "drain", "settle"}
    BY <2>1, Types
  <2> QED
    BY <2>1, <2>2, <2>3, <2>4, <2>5, <2>6, Types, ControlStepType
<1> QED
  BY <1>3, <1>4, <1>5

\* The callee of the innermost frame has ended, normally or not.
LEMMA EndCallFacts ==
  ASSUME TInv, InCall, NEW r \in Nat, EndCall(r)
  PROVE  /\ stack # <<>> /\ Top.pc = "call"
         /\ UNCHANGED <<dag, executed, outcomes, consumed, results, phase, tx,
                        ntx>>
         /\ guest' = NoGuest /\ pending' = guest.outer
         /\ \E f \in Frames :
              /\ stack' = SetTop(f) /\ f.idx = Top.idx
              /\ \/ pending = 0 /\ f.pc = "act" /\ f.child = Top.child
                 \/ pending # 0 /\ f.pc = "child" /\ f.child = pending
         /\ \E g \in HistSet :
              /\ hist' = [hist EXCEPT ![Top.idx] = g]
              /\ g.by = hist[Top.idx].by /\ g.runs = hist[Top.idx].runs
<1>1. stack # <<>> /\ Top.pc = "call"
  <2>1. guest # NoGuest /\ phase # "entry"
    BY DEF InCall
  <2>2. stack # <<>> /\ stack[Len(stack)].pc = "call"
    BY <2>1 DEF TInv, ControlInv
  <2> QED
    BY <2>2, TopFacts
<1>2. /\ UNCHANGED <<dag, executed, outcomes, consumed, results, phase, tx, ntx>>
      /\ guest' = NoGuest /\ pending' = guest.outer
  BY DEF EndCall
<1>3. Top \in Frames /\ Top.idx \in 1..Len(dag)
  BY <1>1, TopFacts
<1>4. \E f \in Frames :
        /\ stack' = SetTop(f) /\ f.idx = Top.idx
        /\ \/ pending = 0 /\ f.pc = "act" /\ f.child = Top.child
           \/ pending # 0 /\ f.pc = "child" /\ f.child = pending
  <2>1. CASE pending = 0
    <3> DEFINE f == [Top EXCEPT !.pc = "act", !.ap = Top.ap + 1,
                                !.out = Append(Top.out, r)]
    <3>1. stack' = SetTop(f)
      BY <2>1 DEF EndCall
    <3>2. Append(Top.out, r) \in Seq(Nat) /\ Top.ap + 1 \in Nat \ {0}
      BY <1>3, AppendProperties DEF Frames
    <3>3. /\ f \in Frames /\ f.idx = Top.idx /\ f.pc = "act"
          /\ f.child = Top.child
      BY <1>3, <3>2 DEF Frames
    <3> HIDE DEF f
    <3> QED
      BY <2>1, <3>1, <3>3
  <2>2. CASE pending # 0
    <3> DEFINE f == [Top EXCEPT !.pc = "child", !.child = pending, !.local = r]
    <3>1. stack' = SetTop(f)
      BY <2>2 DEF EndCall
    <3>2. /\ f \in Frames /\ f.idx = Top.idx /\ f.pc = "child"
          /\ f.child = pending
      BY <1>3, Types DEF Frames
    <3> HIDE DEF f
    <3> QED
      BY <2>2, <3>1, <3>2
  <2> QED
    BY <2>1, <2>2
<1>5. \E g \in HistSet :
        /\ hist' = [hist EXCEPT ![Top.idx] = g]
        /\ g.by = hist[Top.idx].by /\ g.runs = hist[Top.idx].runs
  <2> DEFINE h == hist[Top.idx]
             ret == IF pending = 0 THEN h.ret ELSE h.ret \cup {pending}
             g == [h EXCEPT !.ret = ret]
  <2>1. h \in HistSet
    BY <1>3, Types, ElementOfSeq
  <2>3. ret \in SUBSET Nat
    BY <2>1, Types DEF HistSet
  <2>4. hist' = [hist EXCEPT ![Top.idx] = g]
    BY <1>3, Types DEF EndCall
  <2> HIDE DEF ret
  <2>5. g \in HistSet /\ g.by = h.by /\ g.runs = h.runs
    BY <2>1, <2>3 DEF HistSet
  <2> HIDE DEF g
  <2> QED
    BY <2>4, <2>5
<1> QED
  BY <1>1, <1>2, <1>4, <1>5

\* A call ends.
LEMMA EndCallType ==
  ASSUME TInv, CallReturn \/ CallTrap
  PROVE  TInv'
<1>1. PICK r \in Nat : InCall /\ EndCall(r)
  <2>1. CASE CallReturn
    <3>1. InCall /\ EndCall(Top.idx)
      BY <2>1 DEF CallReturn
    <3>2. Top.idx \in Nat
      <4>1. stack # <<>>
        BY <3>1 DEF InCall, TInv, ControlInv
      <4> QED
        BY <4>1, TopFacts, Types
    <3> QED
      BY <3>1, <3>2
  <2>2. CASE CallTrap
    BY <2>2 DEF CallTrap, Failed
  <2> QED
    BY <2>1, <2>2
<1>2. /\ stack # <<>> /\ Top.pc = "call" /\ guest # NoGuest
      /\ phase # "entry"
      /\ UNCHANGED <<dag, executed, outcomes, consumed, results, phase, tx, ntx>>
      /\ guest' = NoGuest /\ pending' = guest.outer
  BY <1>1, EndCallFacts DEF CallReturn, CallTrap, InCall
<1>3. PICK f \in Frames :
        /\ stack' = SetTop(f) /\ f.idx = Top.idx
        /\ \/ pending = 0 /\ f.pc = "act" /\ f.child = Top.child
           \/ pending # 0 /\ f.pc = "child" /\ f.child = pending
  BY <1>1, EndCallFacts
<1>4. PICK g \in HistSet :
        /\ hist' = [hist EXCEPT ![Top.idx] = g]
        /\ g.by = hist[Top.idx].by /\ g.runs = hist[Top.idx].runs
  BY <1>1, EndCallFacts
<1>5. store' \in [Slots -> Nat]
  <2>1. CASE CallReturn
    BY <2>1, Types DEF CallReturn
  <2>2. CASE CallTrap
    <3>1. guest.snap \in [Fields -> Nat] /\ guest.dep \in Nat
      BY Types DEF Guests
    <3>2. restore_partition(store, guest.snap, guest.acct) \in [Slots -> Nat]
      BY <3>1, Types, PartitionType
    <3> QED
      BY <2>2, <3>1, <3>2, CreditType DEF CallTrap
  <2> QED
    BY <2>1, <2>2
<1>6. Top.idx \in 1..Len(dag) /\ Top.child <= Len(dag)
  BY <1>2, TopFacts DEF TInv, RefInv
<1>7. StackOK(stack', executed, Len(dag)) /\ stack' # <<>>
  BY <1>2, <1>3, <1>6, Types, SetTopOK
<1>8. hist' \in Seq(HistSet) /\ Len(hist') = Len(hist)
  BY <1>4, <1>6, Types, ExceptSeq
<1>9. ControlInv'
  BY <1>2, <1>7, NoGuestType, Types DEF ControlInv, TInv
<1> QED
  BY <1>2, <1>5, <1>7, <1>8, <1>9, Types, NoGuestType, ControlStepType

\* Every step keeps the types.
LEMMA TypeStep ==
  ASSUME TInv, [Next]_vars
  PROVE  TInv'
<1>1. CASE UNCHANGED vars
  BY <1>1 DEF vars, engine, TInv, TypeOK, ControlInv, RefInv
<1>2. CASE GuestEnd
  BY <1>2, EndCallType, BeginType, TxEndType DEF GuestEnd
<1>3. CASE EngineStep
  BY <1>3, ExecutePromiseType, ResolveType, DoActionType, CallType, TxEndType
     DEF EngineStep
<1> QED
  BY <1>1, <1>2, <1>3, StartType, GuestStepType DEF Next

\* The engine starts idle, with an empty DAG.
LEMMA TypeInit ==
  ASSUME Init
  PROVE  TInv
<1>1. store \in [Slots -> Nat]
  BY AmountsAssumption DEF Init
<1>2. tx \in TxSet
  BY <1>1 DEF Init, TxSet
<1>3. /\ \A S : <<>> \in Seq(S)
      /\ Len(<<>>) = 0
      /\ DOMAIN <<>> = {}
  BY EmptySeq
<1>4. TypeOK
  BY <1>1, <1>2, <1>3, NoGuestType DEF Init, TypeOK, TxSet
<1> QED
  BY <1>3, <1>4, NoGuestType DEF Init, TInv, ControlInv, RefInv

\* Type correctness of the engine, for every instance: in particular no
\* balance goes below zero, and every handle a dependency, a frame, a memo
\* entry or PENDING_RETURN holds is a batch of the current DAG.
THEOREM EngineTypeCorrect == Spec => []TypeOK
<1>1. Init => TInv
  BY TypeInit
<1>2. TInv /\ [Next]_vars => TInv'
  BY TypeStep
<1>3. TInv => TypeOK
  BY DEF TInv
<1> QED
  BY <1>1, <1>2, <1>3, PTL DEF Spec

=============================================================================
