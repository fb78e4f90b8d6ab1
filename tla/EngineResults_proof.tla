------------------------ MODULE EngineResults_proof ------------------------
(***************************************************************************)
(* What a transaction of the promise engine resolves, and what its         *)
(* contracts read: every batch is executed at most once, waits only for    *)
(* promises its own callees returned and completes after everything it     *)
(* awaits, a callee reads the results of exactly its own dependencies, and *)
(* the drain leaves nothing behind, so that the engine implements          *)
(* ReceiptOrder; for every set of accounts, contracts and amounts and      *)
(* every bound, as long as every contract's module instantiates            *)
(* (Broken = {}).                                                          *)
(***************************************************************************)
EXTENDS PromiseEngine_proof

-----------------------------------------------------------------------------
(* The inductive invariant *)

\* The handles of a running contract are the batches it created, and the
\* promise it returned is one of them.
GuestInv ==
  guest # NoGuest =>
    /\ pending # 0 => pending > guest.base
    /\ \A n \in 1..Len(dag) : n > guest.base => hist[n].by = Owner

\* A batch was created after the batch whose contract created it, and depends
\* only on older batches of the same contract call.
DagInv ==
  \A n \in 1..Len(dag) :
    /\ hist[n].by < n
    /\ \A j \in 1..Len(dag[n].deps) :
         /\ dag[n].deps[j] \in 1..Len(dag) /\ dag[n].deps[j] < n
         /\ hist[dag[n].deps[j]].by = hist[n].by

\* Which batches have started: at most once each; those that did are memoized
\* or live; a live one has started once its dependencies are resolved; and
\* only a batch that started has created others.
RunInv ==
  /\ \A n \in 1..Len(dag) :
       /\ hist[n].runs <= 1
       /\ hist[n].runs # 0 =>
            Memoized(n) \/ \E k \in 1..Len(stack) : stack[k].idx = n
       /\ hist[n].by # 0 => hist[hist[n].by].runs # 0
  /\ \A k \in 1..Len(stack) :
       stack[k].pc = "deps" <=> hist[stack[k].idx].runs = 0

\* The live batches are distinct and not memoized; none waits for the batch
\* that created it; those created by the same contract call get older towards
\* the top; and an awaited child was created by the batch that awaits it.
StackInv ==
  /\ \A k \in 1..Len(stack) :
       /\ ~Memoized(stack[k].idx)
       /\ stack[k].pc = "child" =>
            /\ stack[k].child \in 1..Len(dag)
            /\ hist[stack[k].child].by = stack[k].idx
  /\ \A j, k \in 1..Len(stack) : j < k =>
       /\ stack[j].idx # stack[k].idx
       /\ hist[stack[j].idx].by # stack[k].idx
       /\ hist[stack[j].idx].by = hist[stack[k].idx].by
            => stack[j].idx > stack[k].idx

IInv == TInv /\ GuestInv /\ DagInv /\ RunInv /\ StackInv

-----------------------------------------------------------------------------
(* What the steps do to the DAG, the memo and the stack *)

\* Types of the values the invariant speaks of.
LEMMA SkeletonTypes ==
  ASSUME TInv
  PROVE  /\ Len(dag) \in Nat /\ Len(stack) \in Nat
         /\ \A n \in 1..Len(dag) : hist[n].by \in Nat /\ hist[n].runs \in Nat
         /\ \A n \in 1..Len(dag) : \A j \in 1..Len(dag[n].deps) :
              dag[n].deps[j] \in 1..Len(dag)
         /\ \A k \in 1..Len(stack) :
              stack[k].idx \in 1..Len(dag) /\ stack[k].child \in Nat
<1>1. Len(dag) \in Nat /\ Len(stack) \in Nat
  BY Types, LenProperties
<1>2. ASSUME NEW n \in 1..Len(dag)
      PROVE  hist[n].by \in Nat /\ hist[n].runs \in Nat
  <2>1. hist[n] \in HistSet
    BY Types, ElementOfSeq
  <2> QED
    BY <2>1 DEF HistSet
<1>3. ASSUME NEW k \in 1..Len(stack)
      PROVE  stack[k].idx \in 1..Len(dag) /\ stack[k].child \in Nat
  <2>1. stack[k] \in Frames
    BY Types, ElementOfSeq
  <2>2. stack[k].idx \in executed
    BY Types DEF StackOK
  <2> QED
    BY <2>1, <2>2, Types DEF Frames
<1> QED
  BY <1>1, <1>2, <1>3 DEF TInv, RefInv

\* A step that changes neither the shape of the DAG and its history, nor the
\* memoized batches, nor the live ones.
LEMMA QuietStep ==
  ASSUME IInv, TInv', Len(dag') = Len(dag),
         \A n \in 1..Len(dag) : /\ dag'[n].deps = dag[n].deps
                                /\ hist'[n].by = hist[n].by
                                /\ hist'[n].runs = hist[n].runs,
         DOMAIN outcomes' = DOMAIN outcomes, Len(stack') = Len(stack),
         \A k \in 1..Len(stack) :
           /\ stack'[k].idx = stack[k].idx
           /\ stack'[k].pc = "deps" <=> stack[k].pc = "deps"
           /\ stack'[k].pc = "child" =>
                \/ stack'[k] = stack[k]
                \/ /\ stack'[k].child \in 1..Len(dag)
                   /\ hist[stack'[k].child].by = stack[k].idx,
         GuestInv'
  PROVE  IInv'
<1>0. /\ Len(dag) \in Nat /\ Len(stack) \in Nat
      /\ \A n \in 1..Len(dag) : hist[n].by \in Nat /\ hist[n].runs \in Nat
      /\ \A k \in 1..Len(stack) : stack[k].idx \in 1..Len(dag)
  BY SkeletonTypes DEF IInv
<1>1. DagInv'
  <2>1. ASSUME NEW n \in 1..Len(dag)
        PROVE  hist'[n].by < n
    BY hist'[n].by = hist[n].by, hist[n].by < n DEF IInv, DagInv
  <2>2. ASSUME NEW n \in 1..Len(dag), NEW j \in 1..Len(dag'[n].deps)
        PROVE  /\ dag'[n].deps[j] \in 1..Len(dag')
               /\ dag'[n].deps[j] < n
               /\ hist'[dag'[n].deps[j]].by = hist'[n].by
    <3> DEFINE d == dag[n].deps[j]
    <3>1. dag'[n].deps = dag[n].deps /\ j \in 1..Len(dag[n].deps)
      OBVIOUS
    <3>2. d \in 1..Len(dag) /\ d < n /\ hist[d].by = hist[n].by
      BY <3>1 DEF IInv, DagInv
    <3>3. hist'[d].by = hist[d].by /\ hist'[n].by = hist[n].by
      BY <3>2
    <3> QED
      BY <3>1, <3>2, <3>3
  <2> QED
    BY <2>1, <2>2 DEF DagInv
<1>2. RunInv'
  <2>1. ASSUME NEW n \in 1..Len(dag)
        PROVE  /\ hist'[n].runs <= 1
               /\ hist'[n].runs # 0 =>
                    \/ n \in DOMAIN outcomes'
                    \/ \E k \in 1..Len(stack') : stack'[k].idx = n
    <3>1. hist'[n].runs = hist[n].runs
      OBVIOUS
    <3>2. /\ hist[n].runs <= 1
          /\ hist[n].runs # 0 =>
               \/ n \in DOMAIN outcomes
               \/ \E k \in 1..Len(stack) : stack[k].idx = n
      BY DEF IInv, RunInv, Memoized
    <3>3. (\E k \in 1..Len(stack) : stack[k].idx = n) =>
            \E k \in 1..Len(stack') : stack'[k].idx = n
      OBVIOUS
    <3> QED
      BY <3>1, <3>2, <3>3
  <2>2. ASSUME NEW n \in 1..Len(dag), hist'[n].by # 0
        PROVE  hist'[hist'[n].by].runs # 0
    <3>1. hist[n].by \in 1..Len(dag)
      BY <1>0, <2>2 DEF IInv, DagInv
    <3> QED
      BY <2>2, <3>1 DEF IInv, RunInv
  <2>3. ASSUME NEW k \in 1..Len(stack)
        PROVE  stack'[k].pc = "deps" <=> hist'[stack'[k].idx].runs = 0
    <3>1. stack[k].pc = "deps" <=> hist[stack[k].idx].runs = 0
      BY DEF IInv, RunInv
    <3>2. /\ stack'[k].idx = stack[k].idx /\ stack[k].idx \in 1..Len(dag)
          /\ stack'[k].pc = "deps" <=> stack[k].pc = "deps"
      BY <1>0
    <3>3. hist'[stack[k].idx].runs = hist[stack[k].idx].runs
      BY <3>2
    <3> QED
      BY <3>1, <3>2, <3>3
  <2> QED
    BY <2>1, <2>2, <2>3 DEF RunInv, Memoized
<1>3. StackInv'
  <2>1. ASSUME NEW k \in 1..Len(stack)
        PROVE  stack'[k].idx \notin DOMAIN outcomes'
    BY DEF IInv, StackInv, Memoized
  <2>2. ASSUME NEW k \in 1..Len(stack), stack'[k].pc = "child"
        PROVE  /\ stack'[k].child \in 1..Len(dag')
               /\ hist'[stack'[k].child].by = stack'[k].idx
    <3>1. /\ stack'[k].child \in 1..Len(dag)
          /\ hist[stack'[k].child].by = stack[k].idx
      <4>1. CASE stack'[k] = stack[k]
        BY <2>2, <4>1 DEF IInv, StackInv
      <4>2. CASE stack'[k] # stack[k]
        BY <2>2, <4>2
      <4> QED
        BY <4>1, <4>2
    <3>2. /\ hist'[stack'[k].child].by = hist[stack'[k].child].by
          /\ stack'[k].idx = stack[k].idx
      BY <3>1
    <3> QED
      BY <3>1, <3>2
  <2>3. ASSUME NEW j \in 1..Len(stack), NEW k \in 1..Len(stack), j < k
        PROVE  /\ stack'[j].idx # stack'[k].idx
               /\ hist'[stack'[j].idx].by # stack'[k].idx
               /\ hist'[stack'[j].idx].by = hist'[stack'[k].idx].by
                    => stack'[j].idx > stack'[k].idx
    <3>1. stack'[j].idx = stack[j].idx /\ stack'[k].idx = stack[k].idx
      OBVIOUS
    <3>2. stack[j].idx \in 1..Len(dag) /\ stack[k].idx \in 1..Len(dag)
      BY <1>0
    <3>3. /\ hist'[stack[j].idx].by = hist[stack[j].idx].by
          /\ hist'[stack[k].idx].by = hist[stack[k].idx].by
      BY <3>2
    <3>4. /\ stack[j].idx # stack[k].idx
          /\ hist[stack[j].idx].by # stack[k].idx
          /\ hist[stack[j].idx].by = hist[stack[k].idx].by
               => stack[j].idx > stack[k].idx
      BY <2>3 DEF IInv, StackInv
    <3> QED
      BY <3>1, <3>3, <3>4
  <2> QED
    BY <2>1, <2>2, <2>3 DEF StackInv, Memoized
<1> QED
  BY <1>1, <1>2, <1>3 DEF IInv

\* A frame is entered for a batch that is neither memoized nor live, and that
\* is older than the live batches created by the same contract call.
LEMMA EnterStep ==
  ASSUME IInv, TInv', UNCHANGED <<dag, hist, outcomes>>, guest' = NoGuest,
         NEW c \in 1..Len(dag), ~Memoized(c),
         \A k \in 1..Len(stack) :
           /\ stack[k].idx # c
           /\ hist[stack[k].idx].by = hist[c].by => stack[k].idx > c,
         Len(stack') = Len(stack) + 1,
         \A k \in 1..Len(stack) : stack'[k] = stack[k],
         stack'[Len(stack) + 1].idx = c, stack'[Len(stack) + 1].pc = "deps"
  PROVE  IInv'
<1>0. /\ Len(dag) \in Nat /\ Len(stack) \in Nat
      /\ \A n \in 1..Len(dag) : hist[n].by \in Nat /\ hist[n].runs \in Nat
      /\ \A k \in 1..Len(stack) : stack[k].idx \in 1..Len(dag)
  BY SkeletonTypes DEF IInv
<1>1. DagInv' /\ GuestInv'
  BY DEF IInv, DagInv, GuestInv
<1>2. hist[c].runs = 0
  BY <1>0 DEF IInv, RunInv
<1>3. ASSUME NEW n \in 1..Len(dag) PROVE hist[n].by # c
  BY <1>0, <1>2 DEF IInv, RunInv
<1>4. \A k \in 1..Len(stack') : k \in 1..Len(stack) \/ k = Len(stack) + 1
  BY <1>0
<1>5. RunInv'
  <2>1. ASSUME NEW n \in 1..Len(dag), hist[n].runs # 0
        PROVE  n \in DOMAIN outcomes' \/ \E k \in 1..Len(stack') : stack'[k].idx = n
    <3>1. CASE n \in DOMAIN outcomes
      BY <3>1
    <3>2. CASE n \notin DOMAIN outcomes
      <4>1. PICK k \in 1..Len(stack) : stack[k].idx = n
        BY <2>1, <3>2 DEF IInv, RunInv, Memoized
      <4>2. k \in 1..Len(stack') /\ stack'[k].idx = n
        BY <1>0, <4>1
      <4> QED
        BY <4>2
    <3> QED
      BY <3>1, <3>2
  <2>2. ASSUME NEW n \in 1..Len(dag)
        PROVE  hist[n].runs <= 1 /\ (hist[n].by # 0 => hist[hist[n].by].runs # 0)
    BY DEF IInv, RunInv
  <2>3. ASSUME NEW k \in 1..Len(stack')
        PROVE  stack'[k].pc = "deps" <=> hist[stack'[k].idx].runs = 0
    <3>1. CASE k \in 1..Len(stack)
      BY <3>1 DEF IInv, RunInv
    <3>2. CASE k = Len(stack) + 1
      BY <1>2, <3>2
    <3> QED
      BY <1>4, <3>1, <3>2
  <2> QED
    BY <2>1, <2>2, <2>3 DEF RunInv, Memoized
<1>6. StackInv'
  <2>1. ASSUME NEW k \in 1..Len(stack')
        PROVE  /\ stack'[k].idx \notin DOMAIN outcomes
               /\ stack'[k].pc = "child" =>
                    /\ stack'[k].child \in 1..Len(dag)
                    /\ hist[stack'[k].child].by = stack'[k].idx
    <3>1. CASE k \in 1..Len(stack)
      BY <3>1 DEF IInv, StackInv, Memoized
    <3>2. CASE k = Len(stack) + 1
      BY <3>2 DEF Memoized
    <3> QED
      BY <1>4, <3>1, <3>2
  <2>2. ASSUME NEW j \in 1..Len(stack'), NEW k \in 1..Len(stack'), j < k
        PROVE  /\ stack'[j].idx # stack'[k].idx
               /\ hist[stack'[j].idx].by # stack'[k].idx
               /\ hist[stack'[j].idx].by = hist[stack'[k].idx].by
                    => stack'[j].idx > stack'[k].idx
    <3>1. j \in 1..Len(stack) /\ stack'[j] = stack[j]
      BY <1>0, <2>2
    <3>2. CASE k \in 1..Len(stack)
      BY <2>2, <3>1, <3>2 DEF IInv, StackInv
    <3>3. CASE k = Len(stack) + 1
      <4>1. stack[j].idx \in 1..Len(dag)
        BY <1>0, <3>1
      <4>2. hist[stack[j].idx].by # c
        BY <1>3, <4>1
      <4> QED
        BY <3>1, <3>3, <4>2
    <3> QED
      BY <1>4, <3>2, <3>3
  <2> QED
    BY <2>1, <2>2 DEF StackInv, Memoized
<1> QED
  BY <1>1, <1>5, <1>6 DEF IInv

\* The innermost frame goes and its batch is memoized.
LEMMA LeaveStep ==
  ASSUME IInv, TInv', UNCHANGED <<dag, hist, guest>>, Running,
         NEW res \in Seq(Nat), Return(res)
  PROVE  IInv'
<1>0. /\ Len(dag) \in Nat /\ Len(stack) \in Nat
      /\ \A k \in 1..Len(stack) : stack[k].idx \in 1..Len(dag)
      /\ Len(stack) \in 1..Len(stack) /\ Top = stack[Len(stack)]
      /\ guest = NoGuest
  BY SkeletonTypes, TopFacts, RunningFacts DEF IInv
<1>1. /\ DOMAIN outcomes' = DOMAIN outcomes \cup {Top.idx}
      /\ Len(stack') = Len(stack) - 1
      /\ \A k \in 1..Len(stack') :
           /\ stack'[k].idx = stack[k].idx
           /\ stack'[k].pc = "deps" <=> stack[k].pc = "deps"
           /\ stack'[k].pc = "child" => stack'[k] = stack[k]
  BY ReturnFacts DEF IInv
<1>2. \A k \in 1..Len(stack') : k \in 1..Len(stack) /\ k < Len(stack)
  BY <1>0, <1>1
<1>3. \A k \in 1..Len(stack) : k \in 1..Len(stack') \/ k = Len(stack)
  BY <1>0, <1>1
<1>4. DagInv' /\ GuestInv'
  BY <1>0 DEF IInv, DagInv, GuestInv
<1>5. RunInv'
  <2>1. ASSUME NEW n \in 1..Len(dag), hist[n].runs # 0
        PROVE  n \in DOMAIN outcomes' \/ \E k \in 1..Len(stack') : stack'[k].idx = n
    <3>1. CASE n \in DOMAIN outcomes
      BY <1>1, <3>1
    <3>2. CASE n \notin DOMAIN outcomes
      <4>1. PICK k \in 1..Len(stack) : stack[k].idx = n
        BY <2>1, <3>2 DEF IInv, RunInv, Memoized
      <4>2. CASE k = Len(stack)
        BY <1>0, <1>1, <4>1, <4>2
      <4>3. CASE k \in 1..Len(stack')
        BY <1>1, <4>1, <4>3
      <4> QED
        BY <1>3, <4>2, <4>3
    <3> QED
      BY <3>1, <3>2
  <2>2. ASSUME NEW n \in 1..Len(dag)
        PROVE  hist[n].runs <= 1 /\ (hist[n].by # 0 => hist[hist[n].by].runs # 0)
    BY DEF IInv, RunInv
  <2>3. ASSUME NEW k \in 1..Len(stack')
        PROVE  stack'[k].pc = "deps" <=> hist[stack'[k].idx].runs = 0
    BY <1>1, <1>2 DEF IInv, RunInv
  <2> QED
    BY <2>1, <2>2, <2>3 DEF RunInv, Memoized
<1>6. StackInv'
  <2>1. ASSUME NEW k \in 1..Len(stack')
        PROVE  /\ stack'[k].idx \notin DOMAIN outcomes'
               /\ stack'[k].pc = "child" =>
                    /\ stack'[k].child \in 1..Len(dag)
                    /\ hist[stack'[k].child].by = stack'[k].idx
    <3>1. k \in 1..Len(stack) /\ k < Len(stack) /\ stack'[k].idx = stack[k].idx
      BY <1>1, <1>2
    <3>2. stack[k].idx # Top.idx /\ stack[k].idx \notin DOMAIN outcomes
      BY <1>0, <3>1 DEF IInv, StackInv, Memoized
    <3>3. ASSUME stack'[k].pc = "child"
          PROVE  /\ stack'[k].child \in 1..Len(dag)
                 /\ hist[stack'[k].child].by = stack'[k].idx
      <4>1. stack'[k] = stack[k]
        BY <1>1, <3>3
      <4> QED
        BY <3>1, <3>3, <4>1 DEF IInv, StackInv
    <3> QED
      BY <1>1, <3>1, <3>2, <3>3
  <2>2. ASSUME NEW j \in 1..Len(stack'), NEW k \in 1..Len(stack'), j < k
        PROVE  /\ stack'[j].idx # stack'[k].idx
               /\ hist[stack'[j].idx].by # stack'[k].idx
               /\ hist[stack'[j].idx].by = hist[stack'[k].idx].by
                    => stack'[j].idx > stack'[k].idx
    <3>1. /\ j \in 1..Len(stack) /\ stack'[j].idx = stack[j].idx
          /\ k \in 1..Len(stack) /\ stack'[k].idx = stack[k].idx
      BY <1>1, <1>2
    <3> QED
      BY <2>2, <3>1 DEF IInv, StackInv
  <2> QED
    BY <2>1, <2>2 DEF StackInv, Memoized
<1> QED
  BY <1>4, <1>5, <1>6 DEF IInv

\* The innermost batch starts its actions, for the first time.
LEMMA PublishStep ==
  ASSUME IInv, TInv', PublishResults
  PROVE  IInv'
<1>0. /\ Len(dag) \in Nat /\ Len(stack) \in Nat /\ Running
      /\ \A n \in 1..Len(dag) : hist[n].by \in Nat /\ hist[n].runs \in Nat
      /\ \A k \in 1..Len(stack) : stack[k].idx \in 1..Len(dag)
  BY SkeletonTypes DEF IInv, PublishResults, DepsDone
<1>1. /\ stack # <<>> /\ Len(stack) \in 1..Len(stack) /\ Top = stack[Len(stack)]
      /\ Top \in Frames /\ Top.idx \in 1..Len(dag) /\ guest = NoGuest
      /\ Top.pc = "deps"
  BY <1>0, TopFacts, RunningFacts DEF IInv, PublishResults, DepsDone
<1> DEFINE t == Top.idx
           f == [Top EXCEPT !.pc = "act", !.saved = results, !.start = store]
           g == [hist[t] EXCEPT !.runs = hist[t].runs + 1]
<1>2. /\ UNCHANGED <<dag, outcomes, guest>>
      /\ stack' = SetTop(f) /\ hist' = [hist EXCEPT ![t] = g]
  BY DEF PublishResults
<1>3. f \in Frames /\ f.idx = t /\ f.pc = "act"
  BY <1>1, Types DEF Frames, IInv
<1>4. g \in HistSet /\ g.by = hist[t].by /\ g.runs = hist[t].runs + 1
  <2>1. hist[t] \in HistSet
    BY <1>1, Types, ElementOfSeq DEF IInv
  <2> QED
    BY <2>1 DEF HistSet
<1>5. hist[t].runs = 0
  BY <1>1 DEF IInv, RunInv
<1> HIDE DEF f, g, t
<1>6. /\ Len(stack') = Len(stack)
      /\ \A k \in 1..Len(stack) :
           stack'[k] = IF k = Len(stack) THEN f ELSE stack[k]
  BY <1>1, <1>2, <1>3, SetTopFacts DEF IInv
<1>7. /\ Len(hist') = Len(hist)
      /\ \A n \in 1..Len(dag) : hist'[n] = IF n = t THEN g ELSE hist[n]
  BY <1>1, <1>2, <1>4, Types, ExceptSeq DEF IInv, t
<1>8. /\ \A k \in 1..Len(stack) : stack'[k].idx = stack[k].idx
      /\ \A n \in 1..Len(dag) : hist'[n].by = hist[n].by
      /\ hist'[t].runs = 1
      /\ \A n \in 1..Len(dag) : n # t => hist'[n].runs = hist[n].runs
  BY <1>1, <1>3, <1>4, <1>5, <1>6, <1>7, SMTT(30) DEF t
<1>9. DagInv' /\ GuestInv'
  <2>1. ASSUME NEW n \in 1..Len(dag)
        PROVE  hist'[n].by < n
    BY <1>8 DEF IInv, DagInv
  <2>2. ASSUME NEW n \in 1..Len(dag), NEW j \in 1..Len(dag[n].deps)
        PROVE  /\ dag[n].deps[j] \in 1..Len(dag) /\ dag[n].deps[j] < n
               /\ hist'[dag[n].deps[j]].by = hist'[n].by
    BY <1>8 DEF IInv, DagInv
  <2> QED
    BY <1>1, <1>2, <2>1, <2>2 DEF DagInv, GuestInv
<1>10. RunInv'
  <2>1. ASSUME NEW n \in 1..Len(dag)
        PROVE  /\ hist'[n].runs <= 1
               /\ hist'[n].runs # 0 =>
                    \/ n \in DOMAIN outcomes
                    \/ \E k \in 1..Len(stack') : stack'[k].idx = n
    <3>1. CASE n = t
      <4>1. stack'[Len(stack)].idx = n
        BY <1>1, <1>8, <3>1 DEF t
      <4> QED
        BY <1>1, <1>6, <1>8, <3>1, <4>1
    <3>2. CASE n # t
      <4>1. /\ hist[n].runs <= 1
            /\ hist[n].runs # 0 =>
                 \/ n \in DOMAIN outcomes
                 \/ \E k \in 1..Len(stack) : stack[k].idx = n
        BY DEF IInv, RunInv, Memoized
      <4> QED
        BY <1>6, <1>8, <3>2, <4>1
    <3> QED
      BY <3>1, <3>2
  <2>2. ASSUME NEW n \in 1..Len(dag), hist'[n].by # 0
        PROVE  hist'[hist'[n].by].runs # 0
    <3>1. hist[n].by \in 1..Len(dag) /\ hist'[n].by = hist[n].by
      BY <1>0, <1>8, <2>2 DEF IInv, DagInv
    <3>2. hist[hist[n].by].runs # 0
      BY <2>2, <3>1 DEF IInv, RunInv
    <3> QED
      BY <1>5, <1>8, <3>1, <3>2
  <2>3. ASSUME NEW k \in 1..Len(stack)
        PROVE  stack'[k].pc = "deps" <=> hist'[stack'[k].idx].runs = 0
    <3>1. CASE k = Len(stack)
      BY <1>1, <1>3, <1>6, <1>8, <3>1 DEF t
    <3>2. CASE k # Len(stack)
      <4>1. k < Len(stack)
        BY <1>0, <3>2
      <4>2. stack[k].idx # t
        BY <1>1, <4>1 DEF IInv, StackInv, t
      <4>3. stack[k].pc = "deps" <=> hist[stack[k].idx].runs = 0
        BY DEF IInv, RunInv
      <4> QED
        BY <1>0, <1>6, <1>8, <3>2, <4>2, <4>3
    <3> QED
      BY <3>1, <3>2
  <2> QED
    BY <1>2, <1>6, <2>1, <2>2, <2>3 DEF RunInv, Memoized
<1>11. StackInv'
  <2>1. ASSUME NEW k \in 1..Len(stack)
        PROVE  /\ stack'[k].idx \notin DOMAIN outcomes
               /\ stack'[k].pc = "child" =>
                    /\ stack'[k].child \in 1..Len(dag)
                    /\ hist'[stack'[k].child].by = stack'[k].idx
    <3>1. stack'[k].idx \notin DOMAIN outcomes
      BY <1>8 DEF IInv, StackInv, Memoized
    <3>2. ASSUME stack'[k].pc = "child"
          PROVE  /\ stack'[k].child \in 1..Len(dag)
                 /\ hist'[stack'[k].child].by = stack'[k].idx
      <4>1. stack'[k] = stack[k]
        BY <1>3, <1>6, <3>2
      <4>2. /\ stack[k].child \in 1..Len(dag)
            /\ hist[stack[k].child].by = stack[k].idx
        BY <3>2, <4>1 DEF IInv, StackInv
      <4> QED
        BY <1>8, <4>1, <4>2
    <3> QED
      BY <3>1, <3>2
  <2>2. ASSUME NEW j \in 1..Len(stack), NEW k \in 1..Len(stack), j < k
        PROVE  /\ stack'[j].idx # stack'[k].idx
               /\ hist'[stack'[j].idx].by # stack'[k].idx
               /\ hist'[stack'[j].idx].by = hist'[stack'[k].idx].by
                    => stack'[j].idx > stack'[k].idx
    <3>1. stack[j].idx \in 1..Len(dag) /\ stack[k].idx \in 1..Len(dag)
      BY <1>0
    <3>2. /\ stack[j].idx # stack[k].idx
          /\ hist[stack[j].idx].by # stack[k].idx
          /\ hist[stack[j].idx].by = hist[stack[k].idx].by
               => stack[j].idx > stack[k].idx
      BY <2>2 DEF IInv, StackInv
    <3> QED
      BY <1>8, <3>1, <3>2
  <2> QED
    BY <1>2, <1>6, <2>1, <2>2 DEF StackInv, Memoized
<1> QED
  BY <1>9, <1>10, <1>11 DEF IInv

\* The running contract creates a batch that depends on batches it created.
LEMMA DagPushStep ==
  ASSUME IInv, TInv', guest # NoGuest, NEW a, NEW acts, NEW deps,
         \A j \in 1..Len(deps) : deps[j] \in Handles,
         dag_push(deps, a, acts), PromisesOnly, pending' = pending
  PROVE  IInv'
<1> DEFINE N == Len(dag)
           b == [deps |-> deps, account |-> a, creator |-> guest.acct,
                 actions |-> acts]
<1>0. /\ N \in Nat /\ Len(stack) \in Nat
      /\ \A n \in 1..N : hist[n].by \in Nat /\ hist[n].runs \in Nat
      /\ \A k \in 1..Len(stack) : stack[k].idx \in 1..N
      /\ dag \in Seq(Batches) /\ hist \in Seq(HistSet) /\ Len(hist) = N
  BY SkeletonTypes, Types DEF IInv
<1>1. UNCHANGED <<outcomes, stack, guest>>
  BY DEF PromisesOnly
<1>2. dag' = Append(dag, b) /\ hist' = Append(hist, NewHist)
  BY DEF dag_push
<1>3. /\ Len(dag') = N + 1 /\ dag'[N + 1] = b
      /\ \A n \in 1..N : dag'[n] = dag[n]
  <2> HIDE DEF b
  <2>1. dag' \in Seq(Batches)
    BY Types DEF TInv, TypeOK
  <2> QED
    BY <1>0, <1>2
<1>4. /\ hist'[N + 1] = NewHist
      /\ \A n \in 1..N : hist'[n] = hist[n]
  BY <1>0, <1>2, NewHistType, AppendProperties DEF IInv
<1>5. /\ hist'[N + 1].by = Owner /\ hist'[N + 1].by <= N
      /\ hist'[N + 1].runs = 0 /\ Owner \in Nat
  <2>1. NewHist.by \in Nat
    BY NewHistType DEF HistSet, IInv
  <2> QED
    BY <1>4, <2>1, NewHistType DEF IInv
<1>6. dag'[N + 1].deps = deps
  BY <1>3
<1> HIDE DEF b
<1>7. \A n \in 1..Len(dag') : n \in 1..N \/ n = N + 1
  BY <1>0, <1>3
<1>8. ASSUME NEW j \in 1..Len(deps)
      PROVE  deps[j] \in 1..N /\ hist[deps[j]].by = Owner
  <2>1. deps[j] \in 1..N /\ deps[j] > guest.base
    BY HandleFacts DEF IInv
  <2> QED
    BY <2>1 DEF IInv, GuestInv
<1>9. DagInv'
  <2>1. ASSUME NEW n \in 1..Len(dag')
        PROVE  hist'[n].by < n
    <3>1. CASE n \in 1..N
      BY <1>4, <3>1 DEF IInv, DagInv
    <3>2. CASE n = N + 1
      BY <1>0, <1>5, <3>2
    <3> QED
      BY <1>7, <3>1, <3>2
  <2>2. ASSUME NEW n \in 1..Len(dag'), NEW j \in 1..Len(dag'[n].deps)
        PROVE  /\ dag'[n].deps[j] \in 1..Len(dag') /\ dag'[n].deps[j] < n
               /\ hist'[dag'[n].deps[j]].by = hist'[n].by
    <3>1. CASE n \in 1..N
      <4> DEFINE d == dag[n].deps[j]
      <4>1. dag'[n].deps[j] = d /\ d \in 1..N /\ d < n /\ hist[d].by = hist[n].by
        BY <1>3, <3>1 DEF IInv, DagInv
      <4> QED
        BY <1>0, <1>3, <1>4, <3>1, <4>1
    <3>2. CASE n = N + 1
      <4>1. /\ dag'[n].deps[j] = deps[j] /\ deps[j] \in 1..N
            /\ hist[deps[j]].by = Owner
        BY <1>6, <1>8, <3>2
      <4> QED
        BY <1>0, <1>3, <1>4, <1>5, <3>2, <4>1, SMTT(30)
    <3> QED
      BY <1>7, <3>1, <3>2
  <2> QED
    BY <2>1, <2>2 DEF DagInv
<1>10. GuestInv'
  <2>1. ASSUME NEW n \in 1..Len(dag'), n > guest.base
        PROVE  hist'[n].by = Owner
    <3>1. CASE n \in 1..N
      BY <1>4, <2>1, <3>1 DEF IInv, GuestInv
    <3>2. CASE n = N + 1
      BY <1>5, <3>2
    <3> QED
      BY <1>7, <3>1, <3>2
  <2>2. Owner' = Owner
    BY <1>1 DEF Owner
  <2> QED
    BY <1>1, <2>1, <2>2 DEF IInv, GuestInv
<1>11. Owner # 0 => Owner \in 1..N /\ hist[Owner].runs # 0
  <2>1. ASSUME stack # <<>>
        PROVE  Owner \in 1..N /\ hist[Owner].runs # 0
    <3>1. stack[Len(stack)].pc = "call" /\ Len(stack) \in 1..Len(stack)
      BY <2>1, TopFacts DEF IInv, TInv, ControlInv
    <3>2. /\ stack[Len(stack)].idx \in 1..N
          /\ hist[stack[Len(stack)].idx].runs # 0
      BY <1>0, <3>1 DEF IInv, RunInv
    <3> QED
      BY <2>1, <3>2 DEF Owner
  <2> QED
    BY <2>1 DEF Owner
<1>12. RunInv'
  <2>1. ASSUME NEW n \in 1..Len(dag')
        PROVE  /\ hist'[n].runs <= 1
               /\ hist'[n].runs # 0 =>
                    \/ n \in DOMAIN outcomes
                    \/ \E k \in 1..Len(stack) : stack[k].idx = n
               /\ hist'[n].by # 0 => hist'[hist'[n].by].runs # 0
    <3>1. CASE n \in 1..N
      <4>1. /\ hist[n].runs <= 1
            /\ hist[n].runs # 0 =>
                 \/ n \in DOMAIN outcomes
                 \/ \E k \in 1..Len(stack) : stack[k].idx = n
        BY <3>1 DEF IInv, RunInv, Memoized
      <4>2. ASSUME hist[n].by # 0
            PROVE  hist[n].by \in 1..N /\ hist[hist[n].by].runs # 0
        BY <1>0, <3>1, <4>2 DEF IInv, DagInv, RunInv
      <4> QED
        BY <1>4, <3>1, <4>1, <4>2
    <3>2. CASE n = N + 1
      BY <1>4, <1>5, <1>11, <3>2
    <3> QED
      BY <1>7, <3>1, <3>2
  <2>2. ASSUME NEW k \in 1..Len(stack)
        PROVE  stack[k].pc = "deps" <=> hist'[stack[k].idx].runs = 0
    BY <1>0, <1>4 DEF IInv, RunInv
  <2> QED
    BY <1>1, <2>1, <2>2 DEF RunInv, Memoized
<1>13. StackInv'
  <2>1. ASSUME NEW k \in 1..Len(stack)
        PROVE  /\ stack[k].idx \notin DOMAIN outcomes
               /\ stack[k].pc = "child" =>
                    /\ stack[k].child \in 1..Len(dag')
                    /\ hist'[stack[k].child].by = stack[k].idx
    <3>1. /\ stack[k].idx \notin DOMAIN outcomes
          /\ stack[k].pc = "child" =>
               /\ stack[k].child \in 1..N
               /\ hist[stack[k].child].by = stack[k].idx
      BY DEF IInv, StackInv, Memoized
    <3> QED
      BY <1>0, <1>3, <1>4, <3>1
  <2>2. ASSUME NEW j \in 1..Len(stack), NEW k \in 1..Len(stack), j < k
        PROVE  /\ stack[j].idx # stack[k].idx
               /\ hist'[stack[j].idx].by # stack[k].idx
               /\ hist'[stack[j].idx].by = hist'[stack[k].idx].by
                    => stack[j].idx > stack[k].idx
    <3>1. stack[j].idx \in 1..N /\ stack[k].idx \in 1..N
      BY <1>0
    <3>2. /\ stack[j].idx # stack[k].idx
          /\ hist[stack[j].idx].by # stack[k].idx
          /\ hist[stack[j].idx].by = hist[stack[k].idx].by
               => stack[j].idx > stack[k].idx
      BY <2>2 DEF IInv, StackInv
    <3> QED
      BY <1>4, <3>1, <3>2
  <2> QED
    BY <1>1, <2>1, <2>2 DEF StackInv, Memoized
<1> QED
  BY <1>9, <1>10, <1>12, <1>13 DEF IInv

-----------------------------------------------------------------------------
(* Every step keeps the invariant *)

\* Replacing the innermost frame, whatever the replacement is made of.
LEMMA SetTopShape ==
  ASSUME TInv, TInv', stack # <<>>, NEW f, stack' = SetTop(f)
  PROVE  /\ Len(stack') = Len(stack)
         /\ \A k \in 1..Len(stack) :
              stack'[k] = IF k = Len(stack) THEN f ELSE stack[k]
<1>1. /\ stack \in Seq(Frames) /\ stack' \in Seq(Frames)
      /\ Len(stack) \in 1..Len(stack)
  BY TopFacts DEF TInv, TypeOK
<1>2. /\ DOMAIN stack = 1..Len(stack) /\ DOMAIN stack' = 1..Len(stack')
      /\ Len(stack) \in Nat /\ Len(stack') \in Nat
  BY <1>1, LenProperties
<1>3. DOMAIN stack' = DOMAIN stack
  BY DEF SetTop
<1>4. Len(stack') = Len(stack)
  <2>1. Len(stack) \in 1..Len(stack')
    BY <1>1, <1>2, <1>3
  <2>2. Len(stack') \in 1..Len(stack')
    BY <1>2, <2>1
  <2>3. Len(stack') \in 1..Len(stack)
    BY <1>2, <1>3, <2>2
  <2>4. \A m, n \in Nat : m \in 1..n /\ n \in 1..m => m = n
    OBVIOUS
  <2> QED
    BY <1>2, <2>1, <2>3, <2>4, Zenon
<1>5. \A k \in 1..Len(stack) :
        stack'[k] = IF k = Len(stack) THEN f ELSE stack[k]
  BY <1>1, <1>2 DEF SetTop
<1> QED
  BY <1>4, <1>5

\* A step that only replaces the innermost frame by one of the same batch.
LEMMA TopStep ==
  ASSUME IInv, TInv', stack # <<>>, UNCHANGED dag,
         \A n \in 1..Len(dag) : /\ hist'[n].by = hist[n].by
                                /\ hist'[n].runs = hist[n].runs,
         DOMAIN outcomes' = DOMAIN outcomes,
         NEW f, stack' = SetTop(f), f.idx = Top.idx,
         f.pc = "deps" <=> Top.pc = "deps",
         f.pc = "child" => /\ f.child \in 1..Len(dag)
                           /\ hist[f.child].by = Top.idx,
         GuestInv'
  PROVE  IInv'
<1>1. /\ Len(stack') = Len(stack)
      /\ \A k \in 1..Len(stack) :
           stack'[k] = IF k = Len(stack) THEN f ELSE stack[k]
  BY SetTopShape DEF IInv
<1>2. Top = stack[Len(stack)]
  BY TopFacts DEF IInv
<1>3. ASSUME NEW k \in 1..Len(stack)
      PROVE  /\ stack'[k].idx = stack[k].idx
             /\ stack'[k].pc = "deps" <=> stack[k].pc = "deps"
             /\ stack'[k].pc = "child" =>
                  \/ stack'[k] = stack[k]
                  \/ /\ stack'[k].child \in 1..Len(dag)
                     /\ hist[stack'[k].child].by = stack[k].idx
  BY <1>1, <1>2
<1> QED
  BY <1>1, <1>3, QuietStep

\* The actions of a batch that are not calls, and calls of unknown accounts.
LEMMA ActionStep ==
  ASSUME IInv, TInv',
         \/ DoTransfer \/ DoStake \/ DoAddKey \/ DoDeleteKey
         \/ DoDeleteAccount \/ CallUnknown
  PROVE  IInv'
<1>1. /\ ActionsLeft
      /\ UNCHANGED <<dag, outcomes, guest, hist>>
      /\ (\E s, t : Succeed(s, t)) \/ Revert \/ CallUnknown
  BY DEF DoTransfer, DoStake, DoAddKey, DoDeleteKey, DoDeleteAccount,
         CallUnknown, AtCall, ActionOnly, engine
<1>2. /\ Running /\ stack # <<>> /\ Top \in Frames /\ Top.pc = "act"
      /\ guest = NoGuest
  BY <1>1, ActionFacts, RunningFacts DEF IInv, ActionsLeft
<1>3. \E f : stack' = SetTop(f) /\ f.idx = Top.idx /\ f.pc = "act"
  <2>1. ASSUME NEW ap, NEW out, NEW touched
        PROVE  LET f == [Top EXCEPT !.ap = ap, !.out = out, !.touched = touched]
               IN  f.idx = Top.idx /\ f.pc = "act"
    BY <1>2 DEF Frames
  <2>2. ASSUME NEW ap, NEW out
        PROVE  LET f == [Top EXCEPT !.ap = ap, !.out = out]
               IN  f.idx = Top.idx /\ f.pc = "act"
    BY <1>2 DEF Frames
  <2>3. CASE \E s, t : Succeed(s, t)
    <3>1. PICK s, t : Succeed(s, t)
      BY <2>3
    <3> DEFINE f == [Top EXCEPT !.ap = Top.ap + 1,
                                !.out = Append(Top.out, Top.idx),
                                !.touched = Top.touched \o t]
    <3>2. stack' = SetTop(f)
      BY <3>1 DEF Succeed
    <3>3. f.idx = Top.idx /\ f.pc = "act"
      BY <2>1
    <3> HIDE DEF f
    <3> QED
      BY <3>2, <3>3
  <2>4. CASE Revert
    BY <2>2, <2>4 DEF Revert
  <2>5. CASE CallUnknown
    BY <2>2, <2>5 DEF CallUnknown
  <2> QED
    BY <1>1, <2>3, <2>4, <2>5
<1>4. GuestInv'
  BY <1>1, <1>2 DEF GuestInv
<1> QED
  BY <1>1, <1>2, <1>3, <1>4, TopStep

\* execute_promise on a dependency or a returned promise.
LEMMA ExecutePromiseStep ==
  ASSUME IInv, TInv', ExecutePromise
  PROVE  IInv'
<1> DEFINE c == Callee(Top)
<1>0. TInv
  BY DEF IInv
<1>1. /\ Running /\ c # 0
      /\ UNCHANGED <<dag, outcomes, guest, hist>>
  BY DEF ExecutePromise
<1>2. /\ stack # <<>> /\ guest = NoGuest /\ c \in 1..Len(dag)
      /\ Len(stack) \in 1..Len(stack) /\ Top = stack[Len(stack)]
      /\ Top \in Frames /\ Top.idx \in 1..Len(dag)
      /\ Top.child <= Len(dag)
  BY <1>0, <1>1, RunningFacts, TopFacts, CalleeFacts
<1>3. GuestInv'
  BY <1>1, <1>2 DEF GuestInv
<1>4. CASE Memoized(c)
  <2> DEFINE f == Receive(Top, outcomes[c])
  <2>1. stack' = SetTop(f)
    BY <1>4 DEF ExecutePromise
  <2>2. outcomes[c] \in Seq(Nat) /\ Len(dag) \in Nat
    BY <1>0, <1>4, Types DEF Memoized
  <2>3. f.idx = Top.idx /\ f.pc = IF Top.pc = "deps" THEN "deps" ELSE "act"
    BY <1>2, <2>2, ReceiveType
  <2> HIDE DEF f
  <2> QED
    BY <1>1, <1>2, <1>3, <2>1, <2>3, TopStep
<1>5. CASE ~Memoized(c)
  <2>1. stack' = Append(stack, NewFrame(c))
    BY <1>5 DEF ExecutePromise
  <2>2. /\ NewFrame(c) \in Frames /\ NewFrame(c).idx = c
        /\ NewFrame(c).pc = "deps"
    BY <1>0, <1>2, NewFrameType
  <2>3. /\ Len(stack') = Len(stack) + 1
        /\ stack'[Len(stack) + 1] = NewFrame(c)
        /\ \A k \in 1..Len(stack) : stack'[k] = stack[k]
    BY <1>0, <2>1, <2>2, PushFacts
  <2>4. /\ Len(dag) \in Nat /\ Len(stack) \in Nat
        /\ \A n \in 1..Len(dag) : hist[n].by \in Nat
        /\ \A k \in 1..Len(stack) : stack[k].idx \in 1..Len(dag)
    BY <1>0, SkeletonTypes
  <2>5. ASSUME NEW k \in 1..Len(stack)
        PROVE  /\ stack[k].idx # c
               /\ hist[stack[k].idx].by = hist[c].by => stack[k].idx > c
    <3> DEFINE i == stack[k].idx
               t == Top.idx
    <3>1. i \in 1..Len(dag) /\ i \in Nat /\ t \in Nat /\ c \in Nat
      BY <1>2, <2>4
    <3>2. k < Len(stack) \/ i = t
      BY <1>2, <2>4
    <3>3. k < Len(stack) => /\ hist[i].by # t
                            /\ hist[i].by = hist[t].by => i > t
      BY <1>2 DEF IInv, StackInv
    <3>4. CASE Top.pc = "child"
      <4>1. c = Top.child
        BY <1>0, <1>1, <3>4, CalleeFacts
      <4>2. hist[c].by = t
        BY <1>2, <3>4, <4>1 DEF IInv, StackInv
      <4>3. hist[t].by < t
        BY <1>2 DEF IInv, DagInv
      <4>4. hist[i].by # t
        BY <2>4, <3>1, <3>2, <3>3, <4>3
      <4> QED
        BY <4>2, <4>4
    <3>5. CASE Top.pc = "deps"
      <4>1. PICK j \in 1..Len(Batch.deps) : c = Batch.deps[j]
        BY <1>0, <1>1, <3>5, CalleeFacts
      <4>2. c < t /\ hist[c].by = hist[t].by
        BY <1>2, <4>1 DEF IInv, DagInv, Batch
      <4> QED
        BY <3>1, <3>2, <3>3, <4>2
    <3> QED
      BY <1>0, <1>1, <3>4, <3>5, CalleeFacts
  <2> HIDE DEF c
  <2> QED
    BY <1>1, <1>2, <1>5, <2>2, <2>3, <2>5, EnterStep
<1> QED
  BY <1>4, <1>5

\* The running contract's host calls.
LEMMA HostCallStep ==
  ASSUME IInv, TInv', GuestStep
  PROVE  IInv'
<1>0. TInv /\ guest # NoGuest
  BY DEF IInv, GuestStep, StorageWrite, promise_create, promise_then,
         promise_and, promise_batch_create, promise_batch_then,
         promise_batch_action, promise_return, Calls
<1>1. ASSUME NEW v \in {0, 1}, StorageWrite(v)
      PROVE  IInv'
  <2>1. UNCHANGED <<dag, outcomes, pending, stack, guest, hist>>
    BY <1>1 DEF StorageWrite, engine
  <2> QED
    BY <2>1 DEF IInv, GuestInv, DagInv, RunInv, StackInv, Owner, Memoized
<1>2. ASSUME NEW a \in Receivers, NEW d \in Deposits, promise_create(a, d)
      PROVE  IInv'
  <2>1. \A j \in 1..Len(<<>>) : <<>>[j] \in Handles
    OBVIOUS
  <2> QED
    BY <1>0, <1>2, <2>1, DagPushStep DEF promise_create
<1>3. ASSUME NEW h \in Handles, NEW a \in Receivers, NEW d \in Deposits,
             promise_then(h, a, d)
      PROVE  IInv'
  <2>1. \A j \in 1..Len(<<h>>) : <<h>>[j] \in Handles
    OBVIOUS
  <2> QED
    BY <1>0, <1>3, <2>1, DagPushStep DEF promise_then
<1>4. ASSUME NEW h1 \in Handles, NEW h2 \in Handles, promise_and(h1, h2)
      PROVE  IInv'
  <2>1. \A j \in 1..Len(<<h1, h2>>) : <<h1, h2>>[j] \in Handles
    OBVIOUS
  <2> QED
    BY <1>0, <1>4, <2>1, DagPushStep DEF promise_and
<1>5. ASSUME NEW a \in Receivers, promise_batch_create(a)
      PROVE  IInv'
  <2>1. \A j \in 1..Len(<<>>) : <<>>[j] \in Handles
    OBVIOUS
  <2> QED
    BY <1>0, <1>5, <2>1, DagPushStep DEF promise_batch_create
<1>6. ASSUME NEW h \in Handles, NEW a \in Receivers, promise_batch_then(h, a)
      PROVE  IInv'
  <2>1. \A j \in 1..Len(<<h>>) : <<h>>[j] \in Handles
    OBVIOUS
  <2> QED
    BY <1>0, <1>6, <2>1, DagPushStep DEF promise_batch_then
<1>7. ASSUME NEW h \in Handles, NEW op \in ActionKinds,
             promise_batch_action(h, op)
      PROVE  IInv'
  <2>1. PICK x \in ActionsFor(op) :
          dag' = [dag EXCEPT ![h].actions = Append(@, x)]
    BY <1>7 DEF promise_batch_action
  <2>2. UNCHANGED <<outcomes, pending, stack, guest, hist>>
    BY <1>7 DEF promise_batch_action, PromisesOnly
  <2> DEFINE b == [dag[h] EXCEPT !.actions = Append(dag[h].actions, x)]
  <2>3. /\ h \in 1..Len(dag) /\ dag \in Seq(Batches) /\ dag[h] \in Batches
    BY <1>0, HandleFacts, Types, ElementOfSeq
  <2>4. b.deps = dag[h].deps /\ dag' = [dag EXCEPT ![h] = b]
    BY <2>1, <2>3 DEF Batches
  <2> HIDE DEF b
  <2>5. Len(dag') = Len(dag)
    BY <1>0, <2>2 DEF TInv, TypeOK
  <2>6. ASSUME NEW n \in 1..Len(dag) PROVE dag'[n].deps = dag[n].deps
    BY <2>3, <2>4, LenProperties
  <2>7. GuestInv'
    BY <2>2, <2>5 DEF IInv, GuestInv, Owner
  <2> QED
    BY <2>2, <2>5, <2>6, <2>7, QuietStep
<1>8. ASSUME NEW h \in Handles, promise_return(h)
      PROVE  IInv'
  <2>1. UNCHANGED <<dag, outcomes, stack, guest, hist>> /\ pending' = h
    BY <1>8 DEF promise_return, PromisesOnly
  <2>2. h > guest.base
    BY <1>0, HandleFacts
  <2>3. GuestInv'
    BY <2>1, <2>2 DEF IInv, GuestInv, Owner
  <2> QED
    BY <2>1, <2>3, QuietStep
<1> QED
  BY <1>1, <1>2, <1>3, <1>4, <1>5, <1>6, <1>7, <1>8 DEF GuestStep

\* A call starts and ends.
LEMMA CallStep ==
  ASSUME IInv, TInv', CallStart \/ CallReturn \/ CallTrap
  PROVE  IInv'
<1>0. TInv
  BY DEF IInv
<1>1. CASE CallStart
  <2> DEFINE f == [Top EXCEPT !.pc = "call"]
  <2>1. /\ ActionsLeft /\ stack' = SetTop(f) /\ pending' = 0
        /\ guest'.base = Len(dag)
        /\ UNCHANGED <<dag, outcomes, hist>>
    BY <1>1 DEF CallStart, AtCall
  <2>2. stack # <<>> /\ Top \in Frames /\ Top.pc = "act" /\ Len(dag) \in Nat
    BY <1>0, <2>1, ActionFacts, Types DEF ActionsLeft
  <2>3. f.idx = Top.idx /\ f.pc = "call"
    BY <2>2 DEF Frames
  <2> HIDE DEF f
  <2>4. GuestInv'
    BY <2>1, <2>2 DEF GuestInv
  <2> QED
    BY <2>1, <2>2, <2>3, <2>4, TopStep
<1>2. CASE CallReturn \/ CallTrap
  <2>1. PICK r \in Nat : InCall /\ EndCall(r)
    <3>1. stack # <<>> /\ InCall
      BY <1>0, <1>2 DEF CallReturn, CallTrap, InCall, TInv, ControlInv
    <3>2. Top.idx \in Nat
      BY <1>0, <3>1, TopFacts, Types
    <3> QED
      BY <1>2, <3>1, <3>2 DEF CallReturn, CallTrap, Failed
  <2>2. /\ stack # <<>> /\ Top.pc = "call" /\ guest' = NoGuest
        /\ UNCHANGED <<dag, outcomes>>
    BY <1>0, <2>1, EndCallFacts
  <2>3. PICK f \in Frames :
          /\ stack' = SetTop(f) /\ f.idx = Top.idx
          /\ \/ pending = 0 /\ f.pc = "act" /\ f.child = Top.child
             \/ pending # 0 /\ f.pc = "child" /\ f.child = pending
    BY <1>0, <2>1, EndCallFacts
  <2>4. PICK g \in HistSet :
          /\ hist' = [hist EXCEPT ![Top.idx] = g]
          /\ g.by = hist[Top.idx].by /\ g.runs = hist[Top.idx].runs
    BY <1>0, <2>1, EndCallFacts
  <2>5. Top.idx \in 1..Len(dag) /\ Top = stack[Len(stack)]
    BY <1>0, <2>2, TopFacts
  <2>6. ASSUME NEW n \in 1..Len(dag)
        PROVE  hist'[n].by = hist[n].by /\ hist'[n].runs = hist[n].runs
    <3>1. hist'[n] = IF n = Top.idx THEN g ELSE hist[n]
      BY <1>0, <2>4, <2>5, Types, ExceptSeq
    <3> QED
      BY <2>4, <3>1
  <2>7. f.pc = "child" => f.child \in 1..Len(dag) /\ hist[f.child].by = Top.idx
    <3>1. ASSUME pending # 0
          PROVE  pending \in 1..Len(dag) /\ hist[pending].by = Top.idx
      <4>1. guest # NoGuest
        BY <2>1 DEF InCall
      <4>2. pending \in 1..Len(dag)
        BY <1>0, <3>1, <4>1, Types
      <4>3. hist[pending].by = Owner
        BY <3>1, <4>1, <4>2 DEF IInv, GuestInv
      <4> QED
        BY <2>2, <2>5, <4>2, <4>3 DEF Owner
    <3> QED
      BY <2>3, <3>1
  <2>8. GuestInv'
    BY <2>2 DEF GuestInv
  <2> QED
    BY <2>2, <2>3, <2>6, <2>7, <2>8, TopStep
<1> QED
  BY <1>1, <1>2

\* A transaction starts: nothing of the last one is left.
LEMMA StartStep ==
  ASSUME IInv, TInv', execute_tx
  PROVE  IInv'
<1>1. /\ dag' = <<>> /\ pending' = 0 /\ phase = "idle" /\ stack' = stack
  BY DEF execute_tx, StartTx, StartTxError, StartTxUnknown, fresh_tx_state
<1>2. stack' = <<>>
  BY <1>1 DEF IInv, TInv, ControlInv
<1>3. Len(dag') = 0 /\ Len(stack') = 0
  BY <1>1, <1>2, EmptySeq
<1> QED
  BY <1>1, <1>3 DEF IInv, GuestInv, DagInv, RunInv, StackInv

\* execute_tx, from the end of the entry call.
LEMMA TxEndStep ==
  ASSUME IInv, TInv',
         NoMethod \/ EntryReturn \/ EntryTrap \/ DrainNext \/ DrainDone
  PROVE  IInv'
<1>0. TInv
  BY DEF IInv
<1>1. UNCHANGED <<dag, outcomes, hist>> /\ guest' = NoGuest /\ stack = <<>>
  <2>1. CASE NoMethod \/ EntryReturn \/ EntryTrap
    BY <1>0, <2>1 DEF NoMethod, InStart, EntryReturn, EntryTrap, engine, TInv,
                      ControlInv
  <2>2. CASE DrainNext \/ DrainDone
    BY <1>0, <2>2 DEF DrainNext, DrainDone, engine, TInv, ControlInv
  <2> QED
    BY <2>1, <2>2
<1>2. GuestInv' /\ Len(stack) = 0
  BY <1>1, EmptySeq DEF GuestInv
<1>3. CASE stack' = stack
  BY <1>1, <1>2, <1>3, QuietStep
<1>4. CASE stack' # stack
  <2>1. PICK c \in 1..Len(dag) : ~Memoized(c) /\ stack' = <<NewFrame(c)>>
    <3>1. CASE EntryReturn
      <4>1. guest # NoGuest
        BY <1>0, <3>1 DEF EntryReturn, TInv, ControlInv
      <4> QED
        BY <1>0, <1>4, <3>1, <4>1, Types DEF EntryReturn
    <3>2. CASE DrainNext
      <4>1. Unexecuted \subseteq Nat /\ Unexecuted # {}
        BY <3>2 DEF DrainNext, Unexecuted
      <4>2. Min(Unexecuted) \in 1..Len(dag)
        BY <4>1, MinIn DEF Unexecuted
      <4> QED
        BY <1>1, <1>4, <3>2, <4>2 DEF DrainNext
    <3> QED
      BY <1>4, <3>1, <3>2 DEF NoMethod, EntryTrap, DrainDone
  <2>2. NewFrame(c).idx = c /\ NewFrame(c).pc = "deps"
    BY <1>0, NewFrameType
  <2>3. Len(stack') = Len(stack) + 1 /\ stack'[Len(stack) + 1] = NewFrame(c)
    BY <1>2, <2>1
  <2>4. \A k \in 1..Len(stack) : FALSE
    BY <1>2
  <2> QED
    BY <1>1, <2>1, <2>2, <2>3, <2>4, EnterStep
<1> QED
  BY <1>3, <1>4

\* The start function ends and the entry method begins.
LEMMA BeginStep ==
  ASSUME IInv, TInv', EntryBegins
  PROVE  IInv'
<1>1. UNCHANGED <<dag, outcomes, hist, guest, stack, pending>>
  BY DEF EntryBegins, engine
<1>2. GuestInv'
  BY <1>1 DEF IInv, GuestInv, Owner
<1> QED
  BY <1>1, <1>2, QuietStep

\* With no broken module, every step keeps the invariant.
LEMMA OnceStep ==
  ASSUME Broken = {}, IInv, [Next]_vars
  PROVE  IInv'
<1>0. TInv'
  BY TypeStep DEF IInv
<1>1. CASE UNCHANGED vars
  BY <1>1, <1>0 DEF vars, engine, IInv, GuestInv, DagInv, RunInv, StackInv,
                    Owner, Memoized
<1>2. CASE GuestEnd
  BY <1>0, <1>2, CallStep, BeginStep, TxEndStep DEF GuestEnd
<1>3. CASE EngineStep
  <2>1. CASE ForcedFail \/ FinishBatch
    <3>1. /\ Running /\ UNCHANGED <<dag, hist, guest>>
          /\ \/ Return(<<>>)
             \/ Return(Top.depRes) \/ Return(Top.out)
      BY <2>1 DEF ForcedFail, FinishBatch, DepsDone
    <3>2. <<>> \in Seq(Nat) /\ Top.depRes \in Seq(Nat) /\ Top.out \in Seq(Nat)
      BY <3>1, EmptySeq, RunningFacts, TopFacts DEF IInv, Frames
    <3> QED
      BY <1>0, <3>1, <3>2, LeaveStep
  <2>2. CASE CallError
    BY <2>2 DEF CallError
  <2> QED
    BY <1>0, <1>3, <2>1, <2>2, ExecutePromiseStep, PublishStep, ActionStep,
       CallStep, TxEndStep
       DEF EngineStep
<1> QED
  BY <1>0, <1>1, <1>2, <1>3, StartStep, HostCallStep DEF Next

\* The invariant holds initially.
LEMMA OnceInit ==
  ASSUME Init
  PROVE  IInv
<1>1. TInv /\ Len(dag) = 0 /\ Len(stack) = 0 /\ guest = NoGuest
  BY TypeInit, EmptySeq DEF Init
<1> QED
  BY <1>1 DEF IInv, GuestInv, DagInv, RunInv, StackInv

\* What the invariant says of the properties.
LEMMA OnceFacts ==
  ASSUME IInv
  PROVE  ExecuteOnce /\ NoReentry /\ ReturnIsolation
<1>1. ExecuteOnce
  BY DEF IInv, RunInv, ExecuteOnce, TInv, TypeOK
<1>2. ReturnIsolation
  BY DEF IInv, StackInv, ReturnIsolation
<1>3. NoReentry
  <2> SUFFICES ASSUME NEW j \in 1..Len(stack), NEW k \in 1..Len(stack),
                      stack[j].idx = stack[k].idx, j # k
               PROVE  FALSE
    BY DEF NoReentry
  <2>1. Len(stack) \in Nat
    BY SkeletonTypes DEF IInv
  <2>2. j < k \/ k < j
    BY <2>1
  <2> QED
    BY <2>2 DEF IInv, StackInv
<1> QED
  BY <1>1, <1>2, <1>3

\* Execute-once for every instance whose modules all instantiate: however
\* many parents, returns and drain passes reach a batch, its actions are
\* started at most once.
THEOREM EngineExecutesOnce ==
  ASSUME Broken = {}
  PROVE  Spec => []ExecuteOnce
<1>1. Init => IInv
  BY OnceInit
<1>2. IInv /\ [Next]_vars => IInv'
  BY OnceStep
<1>3. IInv => ExecuteOnce
  BY OnceFacts
<1> QED
  BY <1>1, <1>2, <1>3, PTL DEF Spec

\* A batch waits only for promises its own callees returned, for every
\* instance whose modules all instantiate.
THEOREM EngineIsolatesReturns ==
  ASSUME Broken = {}
  PROVE  Spec => []ReturnIsolation
<1>1. Init => IInv
  BY OnceInit
<1>2. IInv /\ [Next]_vars => IInv'
  BY OnceStep
<1>3. IInv => ReturnIsolation
  BY OnceFacts
<1> QED
  BY <1>1, <1>2, <1>3, PTL DEF Spec

\* execute_promise never recurses into a batch that is already being resolved,
\* for every instance whose modules all instantiate.
THEOREM EngineNeverReenters ==
  ASSUME Broken = {}
  PROVE  Spec => []NoReentry
<1>1. Init => IInv
  BY OnceInit
<1>2. IInv /\ [Next]_vars => IInv'
  BY OnceStep
<1>3. IInv => NoReentry
  BY OnceFacts
<1> QED
  BY <1>1, <1>2, <1>3, PTL DEF Spec

-----------------------------------------------------------------------------
(* FlattenSeq *)

\* The recursive function inside FlattenSeq, over the first m elements of s.
Flattens(f, s, m) ==
  f = [i \in 1..m |-> IF i = 1 THEN s[i] ELSE f[i - 1] \o s[i]]

\* Such a function exists, for every length.
LEMMA FlattenExists ==
  ASSUME NEW s, NEW m \in Nat
  PROVE  \E f : Flattens(f, s, m)
<1> DEFINE T == {n \in Nat : ~\E f : Flattens(f, s, n)}
<1>1. SUFFICES ASSUME T # {} PROVE FALSE
  OBVIOUS
<1>2. PICK n \in T : \A y \in T : n =< y
  BY <1>1, Least
<1>3. n \in Nat /\ ~\E f : Flattens(f, s, n)
  BY <1>2
<1>4. CASE n = 0
  <2>1. Flattens([i \in 1..0 |-> s[i]], s, 0)
    BY DEF Flattens
  <2> QED
    BY <1>3, <1>4, <2>1
<1>5. CASE n # 0
  <2>1. n - 1 \in Nat /\ ~(n =< n - 1)
    BY <1>3, <1>5
  <2>2. PICK f : Flattens(f, s, n - 1)
    BY <1>2, <2>1
  <2> DEFINE g == [i \in 1..n |-> IF i = n
                                  THEN IF n = 1 THEN s[n] ELSE f[n - 1] \o s[n]
                                  ELSE f[i]]
  <2>3. ASSUME NEW i \in 1..n
        PROVE  g[i] = IF i = 1 THEN s[i] ELSE g[i - 1] \o s[i]
    <3>1. CASE i = n
      BY <1>3, <3>1
    <3>2. CASE i # n
      <4>1. i \in 1..(n - 1)
        BY <1>3, <3>2
      <4>2. f[i] = IF i = 1 THEN s[i] ELSE f[i - 1] \o s[i]
        BY <2>2, <4>1 DEF Flattens
      <4>3. i # 1 => g[i - 1] = f[i - 1]
        BY <1>3, <4>1
      <4> QED
        BY <3>2, <4>2, <4>3
    <3> QED
      BY <3>1, <3>2
  <2>4. g = [i \in 1..n |-> IF i = 1 THEN s[i] ELSE g[i - 1] \o s[i]]
    <3>1. g = [i \in 1..n |-> g[i]]
      OBVIOUS
    <3> HIDE DEF g
    <3> QED
      BY <2>3, <3>1
  <2> QED
    BY <1>3, <2>4 DEF Flattens
<1> QED
  BY <1>4, <1>5

\* FlattenSeq is the last value of such a function.
LEMMA FlattenIs ==
  ASSUME NEW s, Len(s) \in Nat \ {0}
  PROVE  \E f : Flattens(f, s, Len(s)) /\ FlattenSeq(s) = f[Len(s)]
<1> DEFINE g == CHOOSE f : Flattens(f, s, Len(s))
<1>1. Flattens(g, s, Len(s))
  BY FlattenExists
<1>2. FlattenSeq(s) = g[Len(s)]
  BY DEF FlattenSeq, Flattens
<1> QED
  BY <1>1, <1>2

\* Its value at a place.
LEMMA FlattenAt ==
  ASSUME NEW f, NEW s, NEW m, Flattens(f, s, m), NEW i \in 1..m
  PROVE  f[i] = IF i = 1 THEN s[i] ELSE f[i - 1] \o s[i]
BY Zenon DEF Flattens

\* Two such functions agree where both are defined and the sequences agree.
LEMMA FlattenAgree ==
  ASSUME NEW f, NEW g, NEW s, NEW t, NEW m \in Nat, NEW n \in Nat, m =< n,
         Flattens(f, s, m), Flattens(g, t, n),
         \A i \in 1..m : s[i] = t[i]
  PROVE  \A i \in 1..m : f[i] = g[i]
<1> DEFINE T == {i \in 1..m : f[i] # g[i]}
<1>1. SUFFICES ASSUME T # {} PROVE FALSE
  OBVIOUS
<1>0. T \subseteq Nat
  OBVIOUS
<1>2. PICK x \in T : \A y \in T : x =< y
  BY <1>0, <1>1, Least
<1>3. x \in 1..m /\ x \in 1..n /\ f[x] # g[x] /\ s[x] = t[x]
  BY <1>2
<1>4. /\ f[x] = IF x = 1 THEN s[x] ELSE f[x - 1] \o s[x]
      /\ g[x] = IF x = 1 THEN t[x] ELSE g[x - 1] \o t[x]
  BY <1>3 DEF Flattens
<1>5. x # 1 => x - 1 \in 1..m /\ ~(x =< x - 1)
  BY <1>3
<1>6. x # 1 => f[x - 1] = g[x - 1]
  BY <1>2, <1>5
<1> QED
  BY <1>3, <1>4, <1>6

\* The results of the first n of some dependencies, in order.
Gathered(outs, deps, n) == FlattenSeq([j \in 1..n |-> outs[deps[j]]])

\* No dependency, no result.
LEMMA GatheredNone ==
  ASSUME NEW outs, NEW deps
  PROVE  Gathered(outs, deps, 0) = <<>>
<1> DEFINE s == [j \in 1..0 |-> outs[deps[j]]]
<1>1. s = <<>> /\ Len(s) = 0
  OBVIOUS
<1> HIDE DEF s
<1>2. FlattenSeq(s) = <<>>
  BY <1>1 DEF FlattenSeq
<1> QED
  BY <1>2 DEF Gathered, s

\* One more dependency appends its results.
LEMMA GatheredMore ==
  ASSUME NEW outs, NEW deps, NEW n \in Nat, outs[deps[n + 1]] \in Seq(Nat)
  PROVE  Gathered(outs, deps, n + 1)
           = Gathered(outs, deps, n) \o outs[deps[n + 1]]
<1> DEFINE s == [j \in 1..n |-> outs[deps[j]]]
           t == [j \in 1..(n + 1) |-> outs[deps[j]]]
<1>0. /\ n + 1 \in Nat \ {0} /\ n + 1 \in Nat /\ n =< n + 1
      /\ n + 1 \in 1..(n + 1) /\ \A i \in 1..n : i \in 1..(n + 1)
  OBVIOUS
<1>1. Len(s) = n /\ Len(t) = n + 1
  <2> DEFINE S == {outs[deps[j]] : j \in 1..(n + 1)}
  <2>1. s \in [1..n -> S] /\ t \in [1..(n + 1) -> S]
    OBVIOUS
  <2>2. s \in Seq(S) /\ t \in Seq(S)
    <3> HIDE DEF s, t, S
    <3>1. [1..n -> S] \subseteq Seq(S) /\ [1..(n + 1) -> S] \subseteq Seq(S)
      BY <1>0, SeqDef
    <3> QED
      BY <2>1, <3>1
  <2>3. DOMAIN s = 1..n /\ DOMAIN t = 1..(n + 1)
    OBVIOUS
  <2>4. /\ DOMAIN s = 1..Len(s) /\ DOMAIN t = 1..Len(t)
        /\ Len(s) \in Nat /\ Len(t) \in Nat
    BY <2>2, LenProperties
  <2> HIDE DEF s, t
  <2> QED
    BY <1>0, <2>3, <2>4
<1>2. t[n + 1] = outs[deps[n + 1]] /\ \A i \in 1..n : s[i] = t[i]
  BY <1>0
<1>3. Gathered(outs, deps, n) = FlattenSeq(s)
      /\ Gathered(outs, deps, n + 1) = FlattenSeq(t)
  BY DEF Gathered
<1>4. n = 0 => Gathered(outs, deps, n) = <<>>
  BY GatheredNone
<1> HIDE DEF s, t
<1>5. PICK g : Flattens(g, t, n + 1) /\ FlattenSeq(t) = g[n + 1]
  BY <1>1, FlattenIs
<1>6. g[n + 1] = IF n + 1 = 1 THEN t[n + 1] ELSE g[n + 1 - 1] \o t[n + 1]
  BY <1>0, <1>5, FlattenAt
<1>7. CASE n = 0
  BY <1>2, <1>3, <1>4, <1>5, <1>6, <1>7, ConcatEmptySeq
<1>8. CASE n # 0
  <2>1. PICK f : Flattens(f, s, n) /\ FlattenSeq(s) = f[n]
    BY <1>1, <1>8, FlattenIs
  <2>2. \A i \in 1..n : f[i] = g[i]
    <3>1. /\ n \in Nat /\ n + 1 \in Nat /\ n =< n + 1
          /\ Flattens(f, s, n) /\ Flattens(g, t, n + 1)
          /\ \A i \in 1..n : s[i] = t[i]
      BY <1>0, <1>2, <1>5, <2>1
    <3> QED
      BY ONLY <3>1, FlattenAgree
  <2>3. f[n] = g[n + 1 - 1] /\ n + 1 # 1
    BY <1>8, <2>2
  <2> QED
    BY <1>2, <1>3, <1>5, <1>6, <2>1, <2>3
<1> QED
  BY <1>7, <1>8

\* Only the results of those dependencies matter.
LEMMA GatheredSame ==
  ASSUME NEW outs, NEW outs2, NEW deps, NEW n,
         \A j \in 1..n : outs2[deps[j]] = outs[deps[j]]
  PROVE  Gathered(outs2, deps, n) = Gathered(outs, deps, n)
<1>1. [j \in 1..n |-> outs2[deps[j]]] = [j \in 1..n |-> outs[deps[j]]]
  OBVIOUS
<1> QED
  BY <1>1 DEF Gathered

-----------------------------------------------------------------------------
(* Published results *)

\* The frames of st from lo to hi still resolve their dependencies.
Collecting(st, lo, hi) == \A m \in lo..hi : st[m].pc = "deps"

\* PROMISE_RESULTS is r when the first n frames of st are live: what the
\* innermost of them that reached its actions published.
Published(st, n, r) ==
  /\ Collecting(st, 1, n) => r = <<>>
  /\ \A j \in 1..n :
       st[j].pc # "deps" /\ Collecting(st, j + 1, n) => r = st[j].depRes

\* Only the frames that published count, and what they published.
LEMMA PublishedSame ==
  ASSUME NEW st, NEW t, NEW n \in Nat, NEW r,
         \A k \in 1..n : /\ t[k].pc = "deps" <=> st[k].pc = "deps"
                         /\ st[k].pc # "deps" => t[k].depRes = st[k].depRes,
         Published(st, n, r)
  PROVE  Published(t, n, r)
<1>1. ASSUME NEW j \in 1..(n + 1)
      PROVE  Collecting(t, j, n) <=> Collecting(st, j, n)
  BY DEF Collecting
<1>2. Collecting(t, 1, n) <=> Collecting(st, 1, n)
  BY <1>1
<1>3. ASSUME NEW j \in 1..n
      PROVE  Collecting(t, j + 1, n) <=> Collecting(st, j + 1, n)
  BY <1>1
<1> QED
  BY <1>2, <1>3 DEF Published

\* A frame that still resolves its dependencies publishes nothing.
LEMMA PublishedSkip ==
  ASSUME NEW st, NEW n \in Nat, NEW r, st[n + 1].pc = "deps"
  PROVE  Published(st, n + 1, r) <=> Published(st, n, r)
<1>1. ASSUME NEW j \in 1..(n + 1)
      PROVE  Collecting(st, j, n + 1) <=> Collecting(st, j, n)
  BY DEF Collecting
<1>2. Collecting(st, 1, n + 1) <=> Collecting(st, 1, n)
  BY <1>1
<1>3. ASSUME NEW j \in 1..n
      PROVE  Collecting(st, j + 1, n + 1) <=> Collecting(st, j + 1, n)
  BY <1>1
<1>4. \A j \in 1..(n + 1) : j \in 1..n \/ st[j].pc = "deps"
  OBVIOUS
<1>5. \A j \in 1..n : j \in 1..(n + 1)
  OBVIOUS
<1> QED
  BY <1>2, <1>3, <1>4, <1>5 DEF Published

\* A frame that reached its actions published its own.
LEMMA PublishedOwn ==
  ASSUME NEW st, NEW n \in Nat \ {0}, st[n].pc # "deps"
  PROVE  /\ Published(st, n, st[n].depRes)
         /\ \A r : Published(st, n, r) => r = st[n].depRes
<1>1. ASSUME NEW j \in 1..n, Collecting(st, j, n) PROVE FALSE
  BY <1>1 DEF Collecting
<1>2. Collecting(st, n + 1, n)
  BY DEF Collecting
<1>3. ~Collecting(st, 1, n)
  BY <1>1
<1>4. \A j \in 1..n : Collecting(st, j + 1, n) => j = n
  BY <1>1
<1> QED
  BY <1>2, <1>3, <1>4 DEF Published

-----------------------------------------------------------------------------
(* The inductive invariant *)

\* Each live frame waits for the one above it.
ChainInv ==
  \A k \in 1..(Len(stack) - 1) : Callee(stack[k]) = stack[k + 1].idx

\* What a batch awaits: a memoized one awaits nothing any more, a live one only
\* the child it is resolving and the dependencies it has not come to.
AwaitInv ==
  /\ \A n \in 1..Len(dag) :
       /\ Memoized(n) =>
            \A j \in 1..Len(dag[n].deps) : Memoized(dag[n].deps[j])
       /\ \A m \in hist[n].ret :
            \/ Memoized(m)
            \/ \E k \in 1..Len(stack) : /\ stack[k].idx = n
                                        /\ stack[k].pc = "child"
                                        /\ stack[k].child = m
  /\ \A k \in 1..Len(stack) :
       /\ stack[k].dp <= Len(dag[stack[k].idx].deps)
       /\ stack[k].pc # "deps" => stack[k].dp = Len(dag[stack[k].idx].deps)
       /\ \A j \in 1..stack[k].dp : Memoized(dag[stack[k].idx].deps[j])

\* Every frame has gathered the results of the dependencies it resolved, and
\* PROMISE_RESULTS are those of the innermost frame that reached its actions,
\* each of which keeps aside what was there before.
ScopeInv ==
  /\ \A k \in 1..Len(stack) :
       stack[k].depRes =
         Gathered(outcomes, dag[stack[k].idx].deps, stack[k].dp)
  /\ Published(stack, Len(stack), results)
  /\ \A k \in 1..Len(stack) :
       stack[k].pc # "deps" => Published(stack, k - 1, stack[k].saved)

\* What was executed is memoized or live; what is memoized ran once, or not at
\* all if it was forced to fail; and a transaction that ended well executed
\* its whole DAG.
DrainInv ==
  /\ \A n \in executed :
       Memoized(n) \/ \E k \in 1..Len(stack) : stack[k].idx = n
  /\ \A n \in DOMAIN outcomes :
       hist[n].runs = IF n \in tx.fail THEN 0 ELSE 1
  /\ \A k \in 1..Len(stack) :
       stack[k].pc # "deps" => stack[k].idx \notin tx.fail
  /\ phase = "entry" => executed = {}
  /\ phase = "idle" /\ ~tx.trapped /\ tx.errors = 0 => executed = 1..Len(dag)

RInv == IInv /\ ChainInv /\ AwaitInv /\ ScopeInv /\ DrainInv

-----------------------------------------------------------------------------
(* The steps *)

\* Types of what the invariant speaks of.
LEMMA FrameTypes ==
  ASSUME TInv
  PROVE  /\ Len(dag) \in Nat /\ Len(stack) \in Nat
         /\ \A k \in 1..Len(stack) :
              /\ stack[k] \in Frames
              /\ stack[k].idx \in 1..Len(dag) /\ stack[k].dp \in Nat
         /\ \A n \in 1..Len(dag) : Len(dag[n].deps) \in Nat
         /\ DOMAIN outcomes \subseteq 1..Len(dag)
         /\ DOMAIN outcomes \subseteq executed
<1>1. Len(dag) \in Nat /\ Len(stack) \in Nat
  BY SkeletonTypes
<1>2. ASSUME NEW k \in 1..Len(stack)
      PROVE  /\ stack[k] \in Frames
             /\ stack[k].idx \in 1..Len(dag) /\ stack[k].dp \in Nat
  <2>1. stack[k] \in Frames
    BY Types, ElementOfSeq
  <2> QED
    BY <2>1, SkeletonTypes DEF Frames
<1>3. ASSUME NEW n \in 1..Len(dag)
      PROVE  Len(dag[n].deps) \in Nat
  <2>1. dag[n] \in Batches
    BY Types, ElementOfSeq
  <2>2. dag[n].deps \in Seq(Nat)
    BY <2>1 DEF Batches
  <2> QED
    BY <2>2, LenProperties
<1>4. DOMAIN outcomes \subseteq 1..Len(dag) /\ DOMAIN outcomes \subseteq executed
  BY DEF TInv, TypeOK
<1> QED
  BY <1>1, <1>2, <1>3, <1>4

\* A step that only replaces the innermost frame by one of the same batch, f,
\* which may have taken one more result or a returned promise to wait for.
TopMoves(f) ==
  /\ stack # <<>> /\ UNCHANGED <<dag, outcomes, results>>
  /\ tx'.fail = tx.fail /\ phase' \notin {"idle", "entry"}
  /\ executed' \subseteq executed \cup DOMAIN outcomes
  /\ stack' = SetTop(f) /\ f.idx = Top.idx
  /\ f.pc = "deps" <=> Top.pc = "deps"
  /\ Top.pc = "child" => Memoized(Top.child)
  /\ f.saved = Top.saved
  /\ \/ f.dp = Top.dp /\ f.depRes = Top.depRes
     \/ /\ Top.pc = "deps" /\ Top.dp < Len(Batch.deps)
        /\ Memoized(Batch.deps[Top.dp + 1]) /\ f.dp = Top.dp + 1
        /\ f.depRes = Top.depRes \o outcomes[Batch.deps[Top.dp + 1]]
  /\ \A n \in 1..Len(dag) :
       /\ hist'[n].runs = hist[n].runs
       /\ hist'[n].ret \subseteq hist[n].ret
            \cup IF n = Top.idx /\ f.pc = "child" THEN {f.child} ELSE {}

LEMMA TopKeeps ==
  ASSUME RInv, IInv', NEW f, TopMoves(f)
  PROVE  RInv'
<1>a. stack # <<>> /\ dag' = dag /\ outcomes' = outcomes /\ results' = results
  BY DEF TopMoves
<1>b. /\ stack' = SetTop(f) /\ f.idx = Top.idx /\ f.saved = Top.saved
      /\ f.pc = "deps" <=> Top.pc = "deps"
  BY Zenon DEF TopMoves
<1>c. \/ f.dp = Top.dp /\ f.depRes = Top.depRes
      \/ /\ Top.pc = "deps" /\ Top.dp < Len(Batch.deps)
         /\ Memoized(Batch.deps[Top.dp + 1]) /\ f.dp = Top.dp + 1
         /\ f.depRes = Top.depRes \o outcomes[Batch.deps[Top.dp + 1]]
  BY DEF TopMoves
<1>d. \A n \in 1..Len(dag) :
        /\ hist'[n].runs = hist[n].runs
        /\ hist'[n].ret \subseteq hist[n].ret
             \cup IF n = Top.idx /\ f.pc = "child" THEN {f.child} ELSE {}
  BY DEF TopMoves
<1>e. Top.pc = "child" => Memoized(Top.child)
  BY Zenon DEF TopMoves
<1>f. /\ tx'.fail = tx.fail /\ phase' \notin {"idle", "entry"}
      /\ executed' \subseteq executed \cup DOMAIN outcomes
  BY DEF TopMoves
<1> DEFINE L == Len(stack)
<1>0. TInv /\ TInv' /\ IInv
  BY DEF RInv, IInv
<1>1. /\ L \in Nat \ {0} /\ L \in 1..L /\ Top = stack[L]
      /\ Len(stack') = L
      /\ \A k \in 1..L : stack'[k] = IF k = L THEN f ELSE stack[k]
  BY <1>0, <1>a, <1>b, TopFacts, SetTopShape
<1>2. /\ Len(dag) \in Nat
      /\ \A k \in 1..L : stack[k].idx \in 1..Len(dag) /\ stack[k].dp \in Nat
      /\ \A n \in 1..Len(dag) : Len(dag[n].deps) \in Nat
      /\ DOMAIN outcomes \subseteq 1..Len(dag)
  BY <1>0, FrameTypes
<1> HIDE DEF L
<1>9. /\ \A k \in 1..(L - 1) : k \in 1..L /\ k + 1 \in 1..L /\ k # L
      /\ \A k \in 1..L : k - 1 \in Nat /\ \A i \in 1..(k - 1) : i \in 1..L
  <2>1. L \in Nat
    BY <1>1
  <2> QED
    BY <2>1
<1>3. \A k \in 1..L : /\ stack'[k].idx = stack[k].idx
                      /\ stack'[k].pc = "deps" <=> stack[k].pc = "deps"
                      /\ stack'[k].saved = stack[k].saved
  BY <1>1, <1>b
<1>4. Batch = dag[Top.idx]
  BY DEF Batch
<1>g. Top.dp \in Nat /\ Len(Batch.deps) \in Nat
  BY <1>1, <1>2, <1>4
<1>h. ASSUME NEW k \in 1..L
      PROVE  \/ stack'[k] = stack[k]
             \/ k = L /\ stack[k] = Top /\ stack'[k] = f
  BY <1>1
<1>5. ChainInv'
  <2> SUFFICES ASSUME NEW k \in 1..(L - 1)
               PROVE  Callee(stack[k])' = stack'[k + 1].idx
    BY <1>1 DEF ChainInv
  <2>1. k \in 1..L /\ k + 1 \in 1..L /\ k # L
    BY <1>9
  <2>2. stack'[k] = stack[k] /\ stack'[k + 1].idx = stack[k + 1].idx
    BY <1>1, <1>3, <2>1
  <2>3. Callee(stack[k]) = stack[k + 1].idx
    BY DEF RInv, ChainInv, L
  <2> QED
    BY <1>a, <2>2, <2>3 DEF Callee
<1>6. AwaitInv'
  <2>1. ASSUME NEW n \in 1..Len(dag), n \in DOMAIN outcomes,
               NEW j \in 1..Len(dag[n].deps)
        PROVE  dag[n].deps[j] \in DOMAIN outcomes
    BY <2>1 DEF RInv, AwaitInv, Memoized
  <2>2. ASSUME NEW n \in 1..Len(dag), NEW m \in hist'[n].ret,
               m \notin DOMAIN outcomes
        PROVE  \E k \in 1..L : /\ stack'[k].idx = n
                               /\ stack'[k].pc = "child"
                               /\ stack'[k].child = m
    <3>1. CASE m \in hist[n].ret
      <4>1. PICK k \in 1..L : /\ stack[k].idx = n /\ stack[k].pc = "child"
                              /\ stack[k].child = m
        BY <2>2, <3>1 DEF RInv, AwaitInv, Memoized, L
      <4>2. k # L
        BY <1>1, <1>e, <2>2, <4>1 DEF Memoized
      <4> QED
        BY <1>1, <4>1, <4>2
    <3>2. CASE m \notin hist[n].ret
      <4>1. n = Top.idx /\ f.pc = "child" /\ m = f.child
        BY <1>d, <2>2, <3>2
      <4>2. L \in 1..L /\ stack'[L] = f
        BY <1>1
      <4> QED
        BY <1>b, <4>1, <4>2
    <3> QED
      BY <3>1, <3>2
  <2>3. ASSUME NEW k \in 1..L
        PROVE  /\ stack'[k].dp <= Len(dag[stack[k].idx].deps)
               /\ stack'[k].pc # "deps" =>
                    stack'[k].dp = Len(dag[stack[k].idx].deps)
               /\ \A j \in 1..stack'[k].dp :
                    dag[stack[k].idx].deps[j] \in DOMAIN outcomes
    <3>1. /\ stack[k].dp <= Len(dag[stack[k].idx].deps)
          /\ stack[k].pc # "deps" => stack[k].dp = Len(dag[stack[k].idx].deps)
          /\ \A j \in 1..stack[k].dp :
               dag[stack[k].idx].deps[j] \in DOMAIN outcomes
      BY DEF RInv, AwaitInv, Memoized, L
    <3>2. CASE stack'[k].dp = stack[k].dp
      BY <1>3, <3>1, <3>2
    <3>3. CASE stack'[k].dp # stack[k].dp
      <4>0. k = L /\ stack[k] = Top /\ stack'[k] = f
        BY <1>h, <3>3, Zenon
      <4>1. /\ k = L /\ Top.pc = "deps" /\ Top.dp < Len(Batch.deps)
            /\ Batch.deps[Top.dp + 1] \in DOMAIN outcomes
            /\ stack'[k].dp = Top.dp + 1 /\ stack[k] = Top
        BY <1>c, <3>3, <4>0 DEF Memoized
      <4>2. Top.dp \in Nat /\ Len(Batch.deps) \in Nat
        BY <1>g
      <4>3. \A j \in 1..(Top.dp + 1) : j \in 1..Top.dp \/ j = Top.dp + 1
        BY <4>2
      <4>4. stack'[k].dp <= Len(Batch.deps)
        BY <4>1, <4>2
      <4>5. stack'[k].pc = "deps"
        BY <1>3, <4>1
      <4>6. \A j \in 1..(Top.dp + 1) : Batch.deps[j] \in DOMAIN outcomes
        BY <1>4, <3>1, <4>1, <4>3
      <4> QED
        BY <1>4, <4>1, <4>4, <4>5, <4>6
    <3> QED
      BY <3>2, <3>3
  <2>4. UNCHANGED <<dag, outcomes>> /\ Len(stack') = L
    BY <1>1, <1>a
  <2>5. \A k \in 1..L : stack'[k].idx = stack[k].idx
    BY <1>3
  <2> QED
    BY <2>1, <2>2, <2>3, <2>4, <2>5 DEF AwaitInv, Memoized
<1>7. ScopeInv'
  <2>1. ASSUME NEW k \in 1..L
        PROVE  stack'[k].depRes =
                 Gathered(outcomes, dag[stack[k].idx].deps, stack'[k].dp)
    <3>1. stack[k].depRes =
            Gathered(outcomes, dag[stack[k].idx].deps, stack[k].dp)
      BY DEF RInv, ScopeInv, L
    <3>2. CASE stack'[k].dp = stack[k].dp /\ stack'[k].depRes = stack[k].depRes
      BY <3>1, <3>2
    <3>3. CASE ~(stack'[k].dp = stack[k].dp /\ stack'[k].depRes = stack[k].depRes)
      <4>0. k = L /\ stack[k] = Top /\ stack'[k] = f
        BY <1>h, <3>3, Zenon
      <4>1. /\ Batch.deps[Top.dp + 1] \in DOMAIN outcomes
            /\ stack'[k].dp = Top.dp + 1 /\ stack[k] = Top
            /\ stack'[k].depRes =
                 Top.depRes \o outcomes[Batch.deps[Top.dp + 1]]
        BY <1>c, <3>3, <4>0 DEF Memoized
      <4>2. outcomes[Batch.deps[Top.dp + 1]] \in Seq(Nat)
        BY <1>0, <4>1, Types
      <4>3. Top.dp \in Nat
        BY <1>g
      <4> QED
        <5> DEFINE d == Batch.deps
                   m == Top.dp
        <5>1. /\ Top.depRes = Gathered(outcomes, d, m)
              /\ outcomes[d[m + 1]] \in Seq(Nat) /\ m \in Nat
          BY <1>4, <3>1, <4>1, <4>2, <4>3
        <5>2. Gathered(outcomes, d, m + 1) =
                Gathered(outcomes, d, m) \o outcomes[d[m + 1]]
          <6> HIDE DEF d, m
          <6>1. m \in Nat
            BY <5>1
          <6>2. outcomes[d[m + 1]] \in Seq(Nat)
            BY <5>1
          <6> QED
            BY <6>1, <6>2, GatheredMore
        <5>3. stack'[k].dp = m + 1 /\ dag[stack[k].idx].deps = d
          <6>1. stack'[k].dp = m + 1
            BY <4>1
          <6>2. dag[stack[k].idx].deps = d
            BY <1>4, <4>0
          <6> QED
            BY <6>1, <6>2
        <5>4. stack'[k].depRes = Top.depRes \o outcomes[d[m + 1]]
          BY <4>1
        <5> HIDE DEF d, m
        <5> QED
          BY <5>1, <5>2, <5>3, <5>4
    <3> QED
      BY <3>2, <3>3
  <2>2. \A k \in 1..L : stack[k].pc # "deps" => stack'[k].depRes = stack[k].depRes
    BY <1>c, <1>h
  <2>3. Published(stack', L, results)
    <3>1. Published(stack, L, results)
      BY DEF RInv, ScopeInv, L
    <3> QED
      BY <1>1, <1>3, <2>2, <3>1, PublishedSame
  <2>4. ASSUME NEW k \in 1..L, stack'[k].pc # "deps"
        PROVE  Published(stack', k - 1, stack'[k].saved)
    <3>1. Published(stack, k - 1, stack'[k].saved)
      BY <1>3, <2>4 DEF RInv, ScopeInv, L
    <3>2. k - 1 \in Nat /\ \A i \in 1..(k - 1) : i \in 1..L
      BY <1>9
    <3>3. \A i \in 1..(k - 1) :
            /\ stack'[i].pc = "deps" <=> stack[i].pc = "deps"
            /\ stack[i].pc # "deps" => stack'[i].depRes = stack[i].depRes
      BY <1>3, <2>2, <3>2
    <3> QED
      BY <3>1, <3>2, <3>3, PublishedSame
  <2> QED
    BY <1>1, <1>3, <1>a, <2>1, <2>3, <2>4 DEF ScopeInv
<1>8. DrainInv'
  <2>1. ASSUME NEW n \in executed'
        PROVE  n \in DOMAIN outcomes \/ \E k \in 1..L : stack'[k].idx = n
    BY <1>3, <1>f DEF RInv, DrainInv, Memoized, L
  <2>2. ASSUME NEW n \in DOMAIN outcomes
        PROVE  hist'[n].runs = IF n \in tx'.fail THEN 0 ELSE 1
    BY <1>2, <1>d, <1>f DEF RInv, DrainInv, Memoized
  <2>3. ASSUME NEW k \in 1..L, stack'[k].pc # "deps"
        PROVE  stack'[k].idx \notin tx'.fail
    BY <1>3, <1>f, <2>3 DEF RInv, DrainInv, L
  <2> QED
    BY <1>1, <1>a, <1>f, <2>1, <2>2, <2>3 DEF DrainInv, Memoized
<1> QED
  BY <1>5, <1>6, <1>7, <1>8 DEF RInv

\* A frame is entered, for the batch the innermost one calls if there is one.
LEMMA EnterKeeps ==
  ASSUME RInv, IInv', UNCHANGED <<dag, hist, outcomes, results>>,
         tx'.fail = tx.fail, phase' \notin {"idle", "entry"},
         NEW c \in 1..Len(dag), executed' = executed \cup {c},
         stack # <<>> => Callee(Top) = c,
         Len(stack') = Len(stack) + 1,
         \A k \in 1..Len(stack) : stack'[k] = stack[k],
         stack'[Len(stack) + 1] = NewFrame(c)
  PROVE  RInv'
<1> DEFINE L == Len(stack)
<1>0. TInv /\ IInv
  BY DEF RInv, IInv
<1>1. /\ L \in Nat /\ Len(dag) \in Nat
      /\ \A k \in 1..L : stack[k].idx \in 1..Len(dag)
      /\ Len(dag[c].deps) \in Nat
  BY <1>0, FrameTypes
<1>2. /\ stack'[L + 1].idx = c /\ stack'[L + 1].pc = "deps"
      /\ stack'[L + 1].dp = 0 /\ stack'[L + 1].depRes = <<>>
  BY DEF NewFrame
<1>3. Len(stack') = L + 1 /\ \A k \in 1..L : stack'[k] = stack[k]
  OBVIOUS
<1>4. L # 0 => stack # <<>> /\ Top = stack[L]
  BY <1>0, TopFacts, EmptySeq
<1>12. ChainInv => \A k \in 1..(L - 1) : Callee(stack[k]) = stack[k + 1].idx
  BY DEF ChainInv
<1> HIDE DEF L
<1>5. /\ \A k \in 1..(L + 1) : k \in 1..L \/ k = L + 1
      /\ L + 1 - 1 = L /\ L + 1 \in Nat
      /\ \A k \in 1..L : k \in 1..(L + 1)
      /\ \A k \in 1..L : k # L => k \in 1..(L - 1) /\ k + 1 \in 1..L
      /\ \A k \in 1..L : k - 1 \in Nat /\ \A i \in 1..(k - 1) : i \in 1..L
  <2>1. L \in Nat
    BY <1>1
  <2> QED
    BY <2>1
<1>6. ASSUME NEW k \in 1..L
      PROVE  Callee(stack[k])' = stack'[k + 1].idx
  <2>1. Callee(stack[k])' = Callee(stack[k])
    BY <1>3 DEF Callee
  <2>2. CASE k = L
    <3>1. L # 0
      BY <1>1, <2>2
    <3> QED
      BY <1>2, <1>4, <2>1, <2>2, <3>1
  <2>3. CASE k # L
    BY <1>3, <1>5, <1>12, <2>1, <2>3 DEF RInv
  <2> QED
    BY <2>2, <2>3
<1>7. ChainInv'
  BY <1>3, <1>5, <1>6 DEF ChainInv
<1>8. AwaitInv'
  <2>1. ASSUME NEW n \in 1..Len(dag), NEW m \in hist[n].ret,
               m \notin DOMAIN outcomes
        PROVE  \E k \in 1..(L + 1) : /\ stack'[k].idx = n
                                     /\ stack'[k].pc = "child"
                                     /\ stack'[k].child = m
    <3>1. PICK k \in 1..L : /\ stack[k].idx = n /\ stack[k].pc = "child"
                            /\ stack[k].child = m
      BY <2>1 DEF RInv, AwaitInv, Memoized, L
    <3> QED
      BY <1>3, <1>5, <3>1
  <2>2. ASSUME NEW k \in 1..(L + 1)
        PROVE  /\ stack'[k].dp <= Len(dag[stack'[k].idx].deps)
               /\ stack'[k].pc # "deps" =>
                    stack'[k].dp = Len(dag[stack'[k].idx].deps)
               /\ \A j \in 1..stack'[k].dp :
                    dag[stack'[k].idx].deps[j] \in DOMAIN outcomes
    <3>1. CASE k \in 1..L
      BY <1>3, <3>1 DEF RInv, AwaitInv, Memoized, L
    <3>2. CASE k = L + 1
      BY <1>1, <1>2, <3>2
    <3> QED
      BY <1>5, <3>1, <3>2
  <2>3. ASSUME NEW n \in 1..Len(dag), n \in DOMAIN outcomes,
               NEW j \in 1..Len(dag[n].deps)
        PROVE  dag[n].deps[j] \in DOMAIN outcomes
    BY <2>3 DEF RInv, AwaitInv, Memoized
  <2> QED
    BY <1>3, <2>1, <2>2, <2>3 DEF AwaitInv, Memoized
<1>9. ScopeInv'
  <2>1. ASSUME NEW k \in 1..(L + 1)
        PROVE  stack'[k].depRes =
                 Gathered(outcomes, dag[stack'[k].idx].deps, stack'[k].dp)
    <3>1. CASE k \in 1..L
      BY <1>3, <3>1 DEF RInv, ScopeInv, L
    <3>2. CASE k = L + 1
      BY <1>2, <3>2, GatheredNone
    <3> QED
      BY <1>5, <3>1, <3>2
  <2>2. Published(stack', L + 1, results)
    <3>1. Published(stack, L, results)
      BY DEF RInv, ScopeInv, L
    <3>2. Published(stack', L, results)
      BY <1>1, <1>3, <3>1, PublishedSame
    <3> QED
      BY <1>1, <1>2, <3>2, PublishedSkip
  <2>3. ASSUME NEW k \in 1..(L + 1), stack'[k].pc # "deps"
        PROVE  Published(stack', k - 1, stack'[k].saved)
    <3>1. k \in 1..L /\ k - 1 \in Nat /\ \A i \in 1..(k - 1) : i \in 1..L
      BY <1>2, <1>5, <2>3
    <3>2. Published(stack, k - 1, stack'[k].saved)
      BY <1>3, <2>3, <3>1 DEF RInv, ScopeInv, L
    <3>3. \A i \in 1..(k - 1) : stack'[i] = stack[i]
      BY <1>3, <3>1
    <3> QED
      BY <3>1, <3>2, <3>3, PublishedSame
  <2> QED
    BY <1>3, <2>1, <2>2, <2>3 DEF ScopeInv
<1>10. DrainInv'
  <2>1. ASSUME NEW n \in executed', n \notin DOMAIN outcomes
        PROVE  \E k \in 1..(L + 1) : stack'[k].idx = n
    <3>1. CASE n = c
      <4>1. L + 1 \in 1..(L + 1)
        BY <1>1
      <4> QED
        BY <1>2, <3>1, <4>1
    <3>2. CASE n # c
      <4>1. PICK k \in 1..L : stack[k].idx = n
        BY <2>1, <3>2 DEF RInv, DrainInv, Memoized, L
      <4> QED
        BY <1>3, <1>5, <4>1
    <3> QED
      BY <3>1, <3>2
  <2>2. ASSUME NEW n \in DOMAIN outcomes
        PROVE  hist[n].runs = IF n \in tx'.fail THEN 0 ELSE 1
    BY SMTT(30) DEF RInv, DrainInv
  <2>3. ASSUME NEW k \in 1..(L + 1), stack'[k].pc # "deps"
        PROVE  stack'[k].idx \notin tx'.fail
    BY <1>2, <1>3, <1>5, <2>3 DEF RInv, DrainInv, L
  <2> QED
    BY <1>3, <2>1, <2>2, <2>3 DEF DrainInv, Memoized
<1> QED
  BY <1>7, <1>8, <1>9, <1>10 DEF RInv

\* What a frame keeps and takes when a result reaches it.
LEMMA ReceiveFacts ==
  ASSUME NEW f \in Frames, NEW res
  PROVE  LET g == Receive(f, res)
         IN  /\ g.idx = f.idx /\ g.saved = f.saved
             /\ f.pc = "deps" => /\ g.pc = "deps" /\ g.dp = f.dp + 1
                                 /\ g.depRes = f.depRes \o res
             /\ f.pc # "deps" => /\ g.pc = "act" /\ g.dp = f.dp
                                 /\ g.depRes = f.depRes
BY DEF Receive, Frames

\* execute_promise_uncached returns, frame by frame.
LEMMA ReturnShape ==
  ASSUME TInv, Running, NEW res, Return(res)
  PROVE  /\ DOMAIN outcomes' = DOMAIN outcomes \cup {Top.idx}
         /\ outcomes'[Top.idx] = res
         /\ \A i \in DOMAIN outcomes : i # Top.idx => outcomes'[i] = outcomes[i]
         /\ Len(stack') = Len(stack) - 1
         /\ \A k \in 1..(Len(stack) - 1) :
              stack'[k] = IF k = Len(stack) - 1 THEN Receive(stack[k], res)
                          ELSE stack[k]
         /\ tx'.fail = tx.fail
         /\ phase' \notin {"idle", "entry"}
<1> DEFINE L == Len(stack)
<1>1. /\ DOMAIN outcomes' = DOMAIN outcomes \cup {Top.idx}
      /\ outcomes'[Top.idx] = res
      /\ \A i \in DOMAIN outcomes : i # Top.idx => outcomes'[i] = outcomes[i]
  BY DEF Return
<1>2. /\ stack # <<>> /\ stack \in Seq(Frames) /\ tx \in TxSet
  BY Types DEF Running
<1>3. phase \notin {"idle", "entry"}
  BY <1>2 DEF TInv, ControlInv
<1>4. /\ tx'.fail = tx.fail
      /\ phase' \notin {"idle", "entry"}
  BY <1>2, <1>3 DEF Return, TxStatus, TxSet
<1>5. /\ L \in Nat \ {0}
      /\ Front(stack) \in Seq(Frames) /\ Len(Front(stack)) = L - 1
      /\ \A i \in 1..(L - 1) : Front(stack)[i] = stack[i]
  BY <1>2, LastFront
<1>6. CASE L > 1
  <2>1. stack' = [Front(stack) EXCEPT ![L - 1] = Receive(@, res)]
    BY <1>6 DEF Return
  <2>2. DOMAIN Front(stack) = 1..(L - 1) /\ L - 1 \in 1..(L - 1)
    BY <1>5, <1>6, LenProperties
  <2> DEFINE f == Receive(Front(stack)[L - 1], res)
  <2>3. stack' = [Front(stack) EXCEPT ![L - 1] = f]
    BY <2>1
  <2> HIDE DEF f
  <2>4. \A k \in 1..(L - 1) :
          stack'[k] = IF k = L - 1 THEN f ELSE Front(stack)[k]
    BY <2>2, <2>3
  <2>5. Len(stack') = L - 1
    <3>1. DOMAIN stack' = 1..(L - 1)
      BY <2>2, <2>3
    <3>2. stack' = [k \in 1..(L - 1) |-> stack'[k]]
      BY <2>2, <2>3
    <3>3. L - 1 \in Nat
      BY <1>5
    <3> DEFINE S == {stack'[k] : k \in 1..(L - 1)}
    <3>4. stack' \in [1..(L - 1) -> S]
      BY <3>2
    <3> HIDE DEF S
    <3>5. [1..(L - 1) -> S] \subseteq Seq(S)
      BY <3>3, SeqDef
    <3>6. stack' \in Seq(S)
      BY <3>4, <3>5
    <3>7. Len(stack') \in Nat /\ DOMAIN stack' = 1..Len(stack')
      BY <3>6, LenProperties
    <3>8. \A a, b \in Nat : 1..a = 1..b => a = b
      OBVIOUS
    <3> QED
      BY <3>1, <3>3, <3>7, <3>8
  <2>6. f = Receive(stack[L - 1], res)
    BY <1>5, <2>2 DEF f
  <2>7. \A k \in 1..(L - 1) :
          stack'[k] = IF k = L - 1 THEN Receive(stack[k], res) ELSE stack[k]
    BY <1>5, <2>4, <2>6
  <2> QED
    BY <1>1, <1>4, <2>5, <2>7
<1>7. CASE ~(L > 1)
  <2>1. L - 1 = 0 /\ stack' = <<>> /\ Len(stack') = 0
    BY <1>5, <1>7, EmptySeq DEF Return
  <2> HIDE DEF L
  <2>2. Len(stack') = L - 1 /\ \A k \in 1..(L - 1) : FALSE
    <3>1. \A k \in 1..0 : FALSE
      OBVIOUS
    <3> QED
      BY <2>1, <3>1, Zenon
  <2> QED
    BY <1>1, <1>4, <2>2 DEF L
<1> QED
  BY <1>6, <1>7

\* The innermost frame goes: its batch is memoized and its result reaches the
\* frame below.
LEMMA LeaveKeeps ==
  ASSUME RInv, IInv', Running, NEW res \in Seq(Nat), Return(res),
         UNCHANGED <<dag, hist, executed>>,
         Top.dp = Len(Batch.deps), Top.pc # "child",
         hist[Top.idx].runs = IF Top.idx \in tx.fail THEN 0 ELSE 1,
         \/ Top.pc = "deps" /\ results' = results
         \/ Top.pc # "deps" /\ results' = Top.saved
  PROVE  RInv'
<1> DEFINE L == Len(stack)
           M == L - 1
           t == Top.idx
<1>0. TInv /\ IInv
  BY DEF RInv, IInv
<1>1. /\ DOMAIN outcomes' = DOMAIN outcomes \cup {t}
      /\ outcomes'[t] = res
      /\ \A i \in DOMAIN outcomes : i # t => outcomes'[i] = outcomes[i]
      /\ tx'.fail = tx.fail /\ phase' \notin {"idle", "entry"}
  BY <1>0, ReturnShape
<1>2. /\ Len(stack') = M
      /\ \A k \in 1..M : stack'[k] = IF k = M THEN Receive(stack[k], res)
                                     ELSE stack[k]
  BY <1>0, ReturnShape
<1>3. /\ L \in Nat \ {0} /\ L \in 1..L /\ Top = stack[L]
      /\ t \in 1..Len(dag) /\ t \in Nat
  BY <1>0, TopFacts, FrameTypes DEF Running
<1>4. /\ Len(dag) \in Nat
      /\ \A k \in 1..L : /\ stack[k] \in Frames /\ stack[k].dp \in Nat
                         /\ stack[k].idx \in 1..Len(dag)
      /\ \A n \in 1..Len(dag) : Len(dag[n].deps) \in Nat
  BY <1>0, FrameTypes
<1>5. t \notin DOMAIN outcomes
  BY <1>3 DEF RInv, IInv, StackInv, Memoized
<1>6. \A i \in DOMAIN outcomes : outcomes'[i] = outcomes[i]
  BY <1>1, <1>5
<1>7. /\ \A k \in 1..M : k \in 1..L /\ k + 1 \in 1..L /\ k # L
      /\ \A k \in 1..L : k = L \/ k \in 1..M
      /\ M \in Nat /\ M + 1 = L
      /\ \A k \in 1..(M - 1) : k \in 1..M /\ k + 1 \in 1..M /\ k # M
      /\ \A k \in 1..L : k - 1 \in Nat /\ \A i \in 1..(k - 1) : i \in 1..M
  <2>1. L \in Nat \ {0}
    BY <1>3
  <2> HIDE DEF L
  <2> QED
    BY <2>1
<1>8. \A k \in 1..M : Callee(stack[k]) = stack[k + 1].idx
  BY DEF RInv, ChainInv
<1>9. Batch = dag[t]
  BY DEF Batch
<1> HIDE DEF L, M, t
<1>10. ASSUME NEW k \in 1..M
       PROVE  /\ stack'[k].idx = stack[k].idx /\ stack'[k].saved = stack[k].saved
              /\ stack'[k].pc = "deps" <=> stack[k].pc = "deps"
              /\ stack[k].pc # "deps" => /\ stack'[k].depRes = stack[k].depRes
                                         /\ stack'[k].dp = stack[k].dp
              /\ k # M => stack'[k] = stack[k]
              /\ k = M /\ stack[k].pc = "deps" =>
                   /\ stack'[k].dp = stack[k].dp + 1
                   /\ stack'[k].depRes = stack[k].depRes \o res
  <2>1. stack[k] \in Frames
    BY <1>4, <1>7
  <2>2. CASE k = M
    <3>1. stack'[k] = Receive(stack[k], res)
      BY <1>2, <2>2
    <3>2. LET g == Receive(stack[k], res)
          IN  /\ g.idx = stack[k].idx /\ g.saved = stack[k].saved
              /\ stack[k].pc = "deps" =>
                   /\ g.pc = "deps" /\ g.dp = stack[k].dp + 1
                   /\ g.depRes = stack[k].depRes \o res
              /\ stack[k].pc # "deps" =>
                   /\ g.pc = "act" /\ g.dp = stack[k].dp
                   /\ g.depRes = stack[k].depRes
      BY <2>1, ReceiveFacts
    <3> QED
      BY <2>2, <3>1, <3>2
  <2>3. CASE k # M
    BY <1>2, <2>3
  <2> QED
    BY <2>2, <2>3
<1>11. \A k \in 1..M : k = M => Callee(stack[k]) = t
  BY <1>3, <1>7, <1>8 DEF t
\* What the frame below was waiting for.
<1>12. ASSUME NEW k \in 1..M, k = M
       PROVE  /\ stack[k].pc = "child" => stack[k].child = t
              /\ stack[k].pc = "deps" =>
                   /\ stack[k].dp < Len(dag[stack[k].idx].deps)
                   /\ dag[stack[k].idx].deps[stack[k].dp + 1] = t
  BY <1>3, <1>11, <1>12 DEF Callee
<1>13. ChainInv'
  <2> SUFFICES ASSUME NEW k \in 1..(M - 1)
               PROVE  Callee(stack[k])' = stack'[k + 1].idx
    BY <1>2 DEF ChainInv
  <2>1. k \in 1..M /\ k + 1 \in 1..M /\ k # M
    BY <1>7
  <2>2. stack'[k] = stack[k] /\ stack'[k + 1].idx = stack[k + 1].idx
    BY <1>10, <2>1
  <2>3. Callee(stack[k])' = Callee(stack[k])
    BY <2>2 DEF Callee
  <2> QED
    BY <1>8, <2>1, <2>2, <2>3
<1>14. AwaitInv'
  <2>1. ASSUME NEW n \in 1..Len(dag), n \in DOMAIN outcomes',
               NEW j \in 1..Len(dag[n].deps)
        PROVE  dag[n].deps[j] \in DOMAIN outcomes'
    <3>1. CASE n = t
      <4>1. \A i \in 1..Top.dp : dag[t].deps[i] \in DOMAIN outcomes
        BY <1>3 DEF RInv, AwaitInv, Memoized, L, t
      <4> QED
        BY <1>1, <1>9, <3>1, <4>1
    <3>2. CASE n # t
      <4>1. n \in DOMAIN outcomes
        BY <1>1, <2>1, <3>2
      <4>2. dag[n].deps[j] \in DOMAIN outcomes
        BY <4>1 DEF RInv, AwaitInv, Memoized
      <4> QED
        BY <1>1, <4>2
    <3> QED
      BY <3>1, <3>2
  <2>2. ASSUME NEW n \in 1..Len(dag), NEW m \in hist[n].ret,
               m \notin DOMAIN outcomes'
        PROVE  \E k \in 1..M : /\ stack'[k].idx = n
                               /\ stack'[k].pc = "child"
                               /\ stack'[k].child = m
    <3>1. m \notin DOMAIN outcomes /\ m # t
      BY <1>1, <2>2
    <3>2. PICK k \in 1..L : /\ stack[k].idx = n /\ stack[k].pc = "child"
                            /\ stack[k].child = m
      <4>1. AwaitInv
        BY DEF RInv
      <4>2. \/ m \in DOMAIN outcomes
            \/ \E k \in 1..Len(stack) : /\ stack[k].idx = n
                                        /\ stack[k].pc = "child"
                                        /\ stack[k].child = m
        BY <4>1 DEF AwaitInv, Memoized
      <4> QED
        BY <3>1, <4>2 DEF L
    <3>3. k # L
      BY <1>3, <3>2
    <3>4. k \in 1..M
      BY <1>7, <3>3
    <3>5. k # M
      BY <1>12, <3>1, <3>2, <3>4
    <3> QED
      BY <1>10, <3>2, <3>4, <3>5
  <2>3. ASSUME NEW k \in 1..M
        PROVE  /\ stack'[k].dp <= Len(dag[stack[k].idx].deps)
               /\ stack'[k].pc # "deps" =>
                    stack'[k].dp = Len(dag[stack[k].idx].deps)
               /\ \A j \in 1..stack'[k].dp :
                    dag[stack[k].idx].deps[j] \in DOMAIN outcomes'
    <3> DEFINE deps == dag[stack[k].idx].deps
    <3>0. k \in 1..L /\ stack[k].dp \in Nat /\ Len(deps) \in Nat
      BY <1>4, <1>7
    <3>1. /\ stack[k].dp <= Len(deps)
          /\ stack[k].pc # "deps" => stack[k].dp = Len(deps)
          /\ \A j \in 1..stack[k].dp : deps[j] \in DOMAIN outcomes'
      BY <1>1, <3>0 DEF RInv, AwaitInv, Memoized, L
    <3>2. CASE k = M /\ stack[k].pc = "deps"
      <4>1. /\ stack'[k].dp = stack[k].dp + 1 /\ stack'[k].pc = "deps"
            /\ stack[k].dp < Len(deps) /\ deps[stack[k].dp + 1] = t
        BY <1>10, <1>12, <3>2
      <4>2. \A j \in 1..(stack[k].dp + 1) : j \in 1..stack[k].dp \/ j = stack[k].dp + 1
        BY <3>0
      <4>3. stack'[k].dp <= Len(deps)
        BY <3>0, <4>1
      <4>4. t \in DOMAIN outcomes'
        BY <1>1
      <4> HIDE DEF deps
      <4> QED
        BY <3>1, <4>1, <4>2, <4>3, <4>4 DEF deps
    <3>3. CASE ~(k = M /\ stack[k].pc = "deps")
      <4>1. stack'[k].dp = stack[k].dp
        BY <1>10, <3>3
      <4> QED
        BY <1>10, <3>1, <4>1
    <3> QED
      BY <3>2, <3>3
  <2>4. \A k \in 1..M : stack'[k].idx = stack[k].idx
    BY <1>10
  <2>5. Len(stack') = M /\ UNCHANGED <<dag, hist>>
    BY <1>2
  <2>6. ASSUME NEW n \in 1..Len(dag')
        PROVE  /\ n \in DOMAIN outcomes' =>
                    \A j \in 1..Len(dag'[n].deps) :
                      dag'[n].deps[j] \in DOMAIN outcomes'
               /\ \A m \in hist'[n].ret :
                    \/ m \in DOMAIN outcomes'
                    \/ \E k \in 1..Len(stack') : /\ stack'[k].idx = n
                                                 /\ stack'[k].pc = "child"
                                                 /\ stack'[k].child = m
    BY <2>1, <2>2, <2>5
  <2>7. ASSUME NEW k \in 1..Len(stack')
        PROVE  /\ stack'[k].dp <= Len(dag'[stack'[k].idx].deps)
               /\ stack'[k].pc # "deps" =>
                    stack'[k].dp = Len(dag'[stack'[k].idx].deps)
               /\ \A j \in 1..stack'[k].dp :
                    dag'[stack'[k].idx].deps[j] \in DOMAIN outcomes'
    BY <2>3, <2>4, <2>5
  <2> QED
    BY <2>6, <2>7 DEF AwaitInv, Memoized
<1>15. ScopeInv'
  <2>1. ASSUME NEW k \in 1..M
        PROVE  stack'[k].depRes =
                 Gathered(outcomes', dag[stack[k].idx].deps, stack'[k].dp)
    <3> DEFINE d == dag[stack[k].idx].deps
               m == stack[k].dp
    <3>0. k \in 1..L /\ m \in Nat
      BY <1>4, <1>7
    <3>1. /\ stack[k].depRes = Gathered(outcomes, d, m)
          /\ \A j \in 1..m : d[j] \in DOMAIN outcomes
      BY <3>0 DEF RInv, ScopeInv, AwaitInv, Memoized, L
    <3>2. CASE k = M /\ stack[k].pc = "deps"
      <4>1. /\ stack'[k].dp = m + 1 /\ d[m + 1] = t
            /\ stack'[k].depRes = stack[k].depRes \o res
        BY <1>10, <1>12, <3>2
      <4>2. outcomes'[d[m + 1]] = res
        BY <1>1, <4>1
      <4> HIDE DEF d, m
      <4>3. \A j \in 1..m : outcomes'[d[j]] = outcomes[d[j]]
        BY <1>6, <3>1
      <4>4. Gathered(outcomes', d, m) = Gathered(outcomes, d, m)
        BY <4>3, GatheredSame
      <4>5. Gathered(outcomes', d, m + 1) =
              Gathered(outcomes', d, m) \o outcomes'[d[m + 1]]
        <5>1. outcomes'[d[m + 1]] \in Seq(Nat)
          BY <4>2
        <5> QED
          BY <3>0, <5>1, GatheredMore
      <4>6. stack'[k].depRes = Gathered(outcomes', d, m + 1)
        BY <3>1, <4>1, <4>2, <4>4, <4>5
      <4> QED
        BY <4>1, <4>6 DEF d
    <3>3. CASE ~(k = M /\ stack[k].pc = "deps")
      <4>1. stack'[k].dp = m /\ stack'[k].depRes = stack[k].depRes
        BY <1>10, <3>3
      <4> HIDE DEF d, m
      <4>2. \A j \in 1..m : outcomes'[d[j]] = outcomes[d[j]]
        BY <1>6, <3>1
      <4>3. Gathered(outcomes', d, m) = Gathered(outcomes, d, m)
        BY <4>2, GatheredSame
      <4> QED
        BY <3>1, <4>1, <4>3 DEF d
    <3> QED
      BY <3>2, <3>3
  <2>2. Published(stack', M, results')
    <3>1. Published(stack, M, results')
      <4>1. CASE Top.pc = "deps" /\ results' = results
        <5>1. Published(stack, M + 1, results)
          BY <1>7 DEF RInv, ScopeInv, L
        <5>2. stack[M + 1].pc = "deps"
          BY <1>3, <1>7, <4>1
        <5> QED
          BY <1>7, <4>1, <5>1, <5>2, PublishedSkip
      <4>2. CASE Top.pc # "deps" /\ results' = Top.saved
        BY <1>3, <4>2 DEF RInv, ScopeInv, L, M
      <4> QED
        BY <4>1, <4>2
    <3> QED
      BY <1>7, <1>10, <3>1, PublishedSame
  <2>3. ASSUME NEW k \in 1..M, stack'[k].pc # "deps"
        PROVE  Published(stack', k - 1, stack'[k].saved)
    <3>1. k \in 1..L /\ k - 1 \in Nat /\ \A i \in 1..(k - 1) : i \in 1..M
      BY <1>7
    <3>2. Published(stack, k - 1, stack'[k].saved)
      BY <1>10, <2>3, <3>1 DEF RInv, ScopeInv, L
    <3>3. \A i \in 1..(k - 1) :
            /\ stack'[i].pc = "deps" <=> stack[i].pc = "deps"
            /\ stack[i].pc # "deps" => stack'[i].depRes = stack[i].depRes
      BY <1>10, <3>1
    <3> QED
      BY <3>1, <3>2, <3>3, PublishedSame
  <2>4. \A k \in 1..M : stack'[k].idx = stack[k].idx
    BY <1>10
  <2> QED
    BY <1>2, <2>1, <2>2, <2>3, <2>4 DEF ScopeInv
<1>16. DrainInv'
  <2>1. ASSUME NEW n \in executed, n \notin DOMAIN outcomes'
        PROVE  \E k \in 1..M : stack'[k].idx = n
    <3>1. n \notin DOMAIN outcomes /\ n # t
      BY <1>1, <2>1
    <3>2. PICK k \in 1..L : stack[k].idx = n
      BY <3>1 DEF RInv, DrainInv, Memoized, L
    <3>3. k \in 1..M
      BY <1>3, <1>7, <3>1, <3>2 DEF t
    <3> QED
      BY <1>10, <3>2, <3>3
  <2>2. ASSUME NEW n \in DOMAIN outcomes'
        PROVE  hist[n].runs = IF n \in tx'.fail THEN 0 ELSE 1
    <3>1. CASE n = t
      BY <1>1, <3>1 DEF t
    <3>2. CASE n # t
      BY <1>1, <3>2 DEF RInv, DrainInv
    <3> QED
      BY <3>1, <3>2
  <2>3. ASSUME NEW k \in 1..M, stack'[k].pc # "deps"
        PROVE  stack'[k].idx \notin tx'.fail
    BY <1>1, <1>7, <1>10, <2>3 DEF RInv, DrainInv, L
  <2> QED
    BY <1>1, <1>2, <2>1, <2>2, <2>3 DEF DrainInv, Memoized
<1> QED
  BY <1>13, <1>14, <1>15, <1>16 DEF RInv

\* All dependencies of the innermost batch are resolved.
LEMMA DepsDoneFacts ==
  ASSUME RInv, DepsDone
  PROVE  /\ Running /\ stack # <<>> /\ Top.pc = "deps"
         /\ Top.dp = Len(Batch.deps) /\ hist[Top.idx].runs = 0
<1>0. TInv /\ IInv
  BY DEF RInv, IInv
<1>1. Running /\ stack # <<>> /\ Top.pc = "deps" /\ Callee(Top) = 0
  BY DEF DepsDone, Running
<1>2. /\ Len(stack) \in 1..Len(stack) /\ Top = stack[Len(stack)]
      /\ Top.idx \in 1..Len(dag)
  BY <1>0, <1>1, TopFacts
<1>3. Top.dp \in Nat /\ Len(Batch.deps) \in Nat
  BY <1>0, <1>2, FrameTypes DEF Batch
<1>4. Top.dp <= Len(Batch.deps) /\ hist[Top.idx].runs = 0
  BY <1>1, <1>2 DEF RInv, AwaitInv, IInv, RunInv, Batch
<1>5. ASSUME Top.dp < Len(Batch.deps) PROVE FALSE
  <2>1. Callee(Top) = Batch.deps[Top.dp + 1]
    BY <1>1, <1>5 DEF Callee, Batch
  <2>2. Top.dp + 1 \in 1..Len(Batch.deps)
    BY <1>3, <1>5
  <2>3. Batch.deps[Top.dp + 1] \in 1..Len(dag)
    BY <1>0, <1>2, <2>2, SkeletonTypes DEF Batch
  <2> QED
    BY <1>1, <2>1, <2>3
<1> QED
  BY <1>1, <1>3, <1>4, <1>5

\* The dependencies' results are published and the actions begin.
LEMMA PublishKeeps ==
  ASSUME RInv, IInv', PublishResults
  PROVE  RInv'
<1> DEFINE L == Len(stack)
           g == [Top EXCEPT !.pc = "act", !.saved = results, !.start = store]
<1>0. TInv /\ TInv' /\ IInv
  BY DEF RInv, IInv
<1>1. /\ DepsDone /\ Top.idx \notin tx.fail /\ results' = Top.depRes
      /\ stack' = SetTop(g)
      /\ hist' = [hist EXCEPT ![Top.idx].runs = @ + 1]
      /\ UNCHANGED <<dag, executed, outcomes, phase, tx>>
  BY DEF PublishResults
<1>2. /\ stack # <<>> /\ Top.pc = "deps" /\ Top.dp = Len(Batch.deps)
  BY <1>1, DepsDoneFacts
<1>3. /\ L \in Nat \ {0} /\ L \in 1..L /\ Top = stack[L] /\ Top \in Frames
      /\ Len(stack') = L
      /\ \A k \in 1..L : stack'[k] = IF k = L THEN g ELSE stack[k]
  BY <1>0, <1>1, <1>2, TopFacts, SetTopShape
<1>4. /\ g.idx = Top.idx /\ g.pc = "act" /\ g.saved = results
      /\ g.dp = Top.dp /\ g.depRes = Top.depRes /\ g.child = Top.child
  BY <1>3 DEF Frames
<1>5. phase \notin {"idle", "entry"}
  BY <1>0, <1>2 DEF TInv, ControlInv
<1>6. ASSUME NEW n \in 1..Len(dag)
      PROVE  /\ hist'[n].ret = hist[n].ret
             /\ n # Top.idx => hist'[n].runs = hist[n].runs
  <2>1. hist \in Seq(HistSet) /\ Len(hist) = Len(dag)
    BY <1>0, Types
  <2>2. hist[n] \in HistSet /\ n \in DOMAIN hist
    BY <2>1, ElementOfSeq, LenProperties
  <2> QED
    BY <1>1, <2>2 DEF HistSet
<1> HIDE DEF L, g
<1>7. /\ \A k \in 1..(L - 1) : k \in 1..L /\ k + 1 \in 1..L /\ k # L
      /\ \A k \in 1..L : k - 1 \in Nat /\ \A i \in 1..(k - 1) : i \in 1..L /\ i # L
      /\ L - 1 \in Nat /\ (L - 1) + 1 = L
  <2>1. L \in Nat \ {0}
    BY <1>3
  <2> QED
    BY <2>1
<1>8. \A k \in 1..L : /\ stack'[k].idx = stack[k].idx
                      /\ stack'[k].dp = stack[k].dp
                      /\ stack'[k].depRes = stack[k].depRes
                      /\ k # L => stack'[k] = stack[k]
  BY <1>3, <1>4
<1>9. ChainInv'
  <2> SUFFICES ASSUME NEW k \in 1..(L - 1)
               PROVE  Callee(stack[k])' = stack'[k + 1].idx
    BY <1>3 DEF ChainInv
  <2>1. k \in 1..L /\ k + 1 \in 1..L /\ k # L
    BY <1>7
  <2>2. stack'[k] = stack[k] /\ stack'[k + 1].idx = stack[k + 1].idx
    BY <1>8, <2>1
  <2>3. Callee(stack[k]) = stack[k + 1].idx
    BY DEF RInv, ChainInv, L
  <2> QED
    BY <1>1, <2>2, <2>3 DEF Callee
<1>10. AwaitInv'
  <2>0. AwaitInv
    BY DEF RInv
  <2>1. ASSUME NEW n \in 1..Len(dag), n \in DOMAIN outcomes,
               NEW j \in 1..Len(dag[n].deps)
        PROVE  dag[n].deps[j] \in DOMAIN outcomes
    BY <2>0, <2>1 DEF AwaitInv, Memoized
  <2>2. ASSUME NEW n \in 1..Len(dag), NEW m \in hist'[n].ret,
               m \notin DOMAIN outcomes
        PROVE  \E k \in 1..L : /\ stack'[k].idx = n
                               /\ stack'[k].pc = "child"
                               /\ stack'[k].child = m
    <3>1. PICK k \in 1..L : /\ stack[k].idx = n /\ stack[k].pc = "child"
                            /\ stack[k].child = m
      BY <1>6, <2>0, <2>2 DEF AwaitInv, Memoized, L
    <3>2. k # L
      BY <1>2, <1>3, <3>1
    <3> QED
      BY <1>8, <3>1, <3>2
  <2>3. ASSUME NEW k \in 1..L
        PROVE  /\ stack'[k].dp <= Len(dag[stack[k].idx].deps)
               /\ stack'[k].pc # "deps" =>
                    stack'[k].dp = Len(dag[stack[k].idx].deps)
               /\ \A j \in 1..stack'[k].dp :
                    dag[stack[k].idx].deps[j] \in DOMAIN outcomes
    <3>1. /\ stack[k].dp <= Len(dag[stack[k].idx].deps)
          /\ stack[k].pc # "deps" => stack[k].dp = Len(dag[stack[k].idx].deps)
          /\ \A j \in 1..stack[k].dp :
               dag[stack[k].idx].deps[j] \in DOMAIN outcomes
      BY <2>0 DEF AwaitInv, Memoized, L
    <3>2. k = L => stack[k].dp = Len(dag[stack[k].idx].deps)
      BY <1>2, <1>3 DEF Batch
    <3> QED
      BY <1>8, <3>1, <3>2
  <2>4. \A k \in 1..L : stack'[k].idx = stack[k].idx
    BY <1>8
  <2>5. Len(stack') = L /\ UNCHANGED <<dag, outcomes>>
    BY <1>1, <1>3
  <2> QED
    BY <2>1, <2>2, <2>3, <2>4, <2>5 DEF AwaitInv, Memoized
<1>11. ScopeInv'
  <2>1. ASSUME NEW k \in 1..L
        PROVE  stack'[k].depRes =
                 Gathered(outcomes, dag[stack[k].idx].deps, stack'[k].dp)
    BY <1>8 DEF RInv, ScopeInv, L
  <2>2. Published(stack, L, results)
    BY DEF RInv, ScopeInv, L
  <2>3. Published(stack', L, results')
    <3>1. stack'[L].pc # "deps" /\ stack'[L].depRes = results'
      BY <1>1, <1>3, <1>4
    <3> QED
      BY <1>3, <3>1, PublishedOwn
  <2>4. ASSUME NEW k \in 1..L, stack'[k].pc # "deps"
        PROVE  Published(stack', k - 1, stack'[k].saved)
    <3>1. /\ k - 1 \in Nat
          /\ \A i \in 1..(k - 1) : stack'[i] = stack[i]
      BY <1>7, <1>8
    <3>2. Published(stack, k - 1, stack'[k].saved)
      <4>1. CASE k = L
        <5>1. stack[(L - 1) + 1].pc = "deps"
          BY <1>2, <1>3, <1>7
        <5>2. Published(stack, (L - 1) + 1, results)
          BY <1>7, <2>2
        <5>3. Published(stack, L - 1, results)
          BY <1>7, <5>1, <5>2, PublishedSkip
        <5>4. stack'[k].saved = results
          BY <1>3, <1>4, <4>1
        <5> QED
          BY <4>1, <5>3, <5>4
      <4>2. CASE k # L
        BY <1>8, <2>4, <4>2 DEF RInv, ScopeInv, L
      <4> QED
        BY <4>1, <4>2
    <3> QED
      BY <3>1, <3>2, PublishedSame
  <2> QED
    BY <1>1, <1>3, <1>8, <2>1, <2>3, <2>4 DEF ScopeInv
<1>12. DrainInv'
  <2>0. DrainInv /\ DOMAIN outcomes \subseteq 1..Len(dag)
    BY <1>0, FrameTypes DEF RInv
  <2>1. Top.idx \notin DOMAIN outcomes
    BY <1>3 DEF RInv, IInv, StackInv, Memoized, L
  <2>2. ASSUME NEW n \in executed, n \notin DOMAIN outcomes
        PROVE  \E k \in 1..L : stack'[k].idx = n
    BY <1>8, <2>0, <2>2 DEF DrainInv, Memoized, L
  <2>3. ASSUME NEW n \in DOMAIN outcomes
        PROVE  hist'[n].runs = IF n \in tx.fail THEN 0 ELSE 1
    BY <1>6, <2>0, <2>1 DEF DrainInv
  <2>4. ASSUME NEW k \in 1..L, stack'[k].pc # "deps"
        PROVE  stack'[k].idx \notin tx.fail
    <3>1. CASE k = L
      BY <1>1, <1>3, <1>4, <3>1
    <3>2. CASE k # L
      BY <1>8, <2>0, <2>4, <3>2 DEF DrainInv, L
    <3> QED
      BY <3>1, <3>2
  <2> QED
    BY <1>1, <1>3, <1>5, <2>2, <2>3, <2>4 DEF DrainInv, Memoized
<1> QED
  BY <1>9, <1>10, <1>11, <1>12 DEF RInv

\* A step of the running contract: the DAG may grow by batches nobody awaits.
LEMMA HostKeeps ==
  ASSUME RInv, IInv', UNCHANGED <<executed, outcomes, results, stack, phase>>,
         tx'.fail = tx.fail, phase # "idle", Len(dag) =< Len(dag'),
         \A n \in 1..Len(dag) : /\ dag'[n].deps = dag[n].deps
                                /\ hist'[n].runs = hist[n].runs
                                /\ hist'[n].ret = hist[n].ret,
         \A n \in 1..Len(dag') : n \in 1..Len(dag) \/ hist'[n].ret = {}
  PROVE  RInv'
<1>0. TInv /\ TInv' /\ AwaitInv /\ ScopeInv /\ DrainInv /\ ChainInv
  BY DEF RInv, IInv
<1>1. /\ Len(dag) \in Nat /\ Len(stack) \in Nat
      /\ \A k \in 1..Len(stack) : stack[k].idx \in 1..Len(dag)
      /\ DOMAIN outcomes \subseteq 1..Len(dag)
  BY <1>0, FrameTypes
<1>2. \A k \in 1..Len(stack) :
        dag'[stack[k].idx].deps = dag[stack[k].idx].deps
  BY <1>1
<1>3. ChainInv'
  <2> SUFFICES ASSUME NEW k \in 1..(Len(stack) - 1)
               PROVE  Callee(stack[k])' = stack[k + 1].idx
    BY DEF ChainInv
  <2>1. k \in 1..Len(stack)
    BY <1>1
  <2>2. Callee(stack[k]) = stack[k + 1].idx
    BY <1>0 DEF ChainInv
  <2> QED
    BY <1>2, <2>1, <2>2 DEF Callee
<1>4. AwaitInv'
  <2>1. ASSUME NEW n \in 1..Len(dag'), n \in DOMAIN outcomes,
               NEW j \in 1..Len(dag'[n].deps)
        PROVE  dag'[n].deps[j] \in DOMAIN outcomes
    BY <1>0, <1>1, <2>1 DEF AwaitInv, Memoized
  <2>2. ASSUME NEW n \in 1..Len(dag'), NEW m \in hist'[n].ret,
               m \notin DOMAIN outcomes
        PROVE  \E k \in 1..Len(stack) : /\ stack[k].idx = n
                                        /\ stack[k].pc = "child"
                                        /\ stack[k].child = m
    <3>1. n \in 1..Len(dag) /\ m \in hist[n].ret
      BY <2>2
    <3> QED
      BY <1>0, <2>2, <3>1 DEF AwaitInv, Memoized
  <2>3. ASSUME NEW k \in 1..Len(stack)
        PROVE  /\ stack[k].dp <= Len(dag'[stack[k].idx].deps)
               /\ stack[k].pc # "deps" =>
                    stack[k].dp = Len(dag'[stack[k].idx].deps)
               /\ \A j \in 1..stack[k].dp :
                    dag'[stack[k].idx].deps[j] \in DOMAIN outcomes
    BY <1>0, <1>2 DEF AwaitInv, Memoized
  <2> QED
    BY <2>1, <2>2, <2>3 DEF AwaitInv, Memoized
<1>5. ScopeInv'
  <2>1. ASSUME NEW k \in 1..Len(stack)
        PROVE  stack[k].depRes =
                 Gathered(outcomes, dag'[stack[k].idx].deps, stack[k].dp)
    BY <1>0, <1>2 DEF ScopeInv
  <2> QED
    BY <1>0, <2>1 DEF ScopeInv
<1>6. DrainInv'
  <2>1. ASSUME NEW n \in DOMAIN outcomes
        PROVE  hist'[n].runs = IF n \in tx.fail THEN 0 ELSE 1
    BY <1>0, <1>1 DEF DrainInv
  <2> QED
    BY <1>0, <2>1 DEF DrainInv, Memoized
<1> QED
  BY <1>3, <1>4, <1>5, <1>6 DEF RInv

\* The running contract's host calls.
LEMMA HostStep ==
  ASSUME RInv, IInv', GuestStep
  PROVE  RInv'
<1>0. /\ TInv /\ TInv' /\ IInv /\ guest # NoGuest
      /\ UNCHANGED <<executed, outcomes, results, stack, phase, tx>>
  BY DEF RInv, IInv, GuestStep, StorageWrite, promise_create, promise_then,
         promise_and, promise_batch_create, promise_batch_then,
         promise_batch_action, promise_return, Calls, PromisesOnly, engine
<1>1. /\ phase # "idle" /\ Len(dag) \in Nat
      /\ dag \in Seq(Batches) /\ hist \in Seq(HistSet) /\ Len(hist) = Len(dag)
      /\ dag' \in Seq(Batches)
  BY <1>0, Types DEF TInv, ControlInv, TypeOK
<1>2. CASE UNCHANGED <<dag, hist>>
  BY <1>0, <1>1, <1>2, HostKeeps
<1>3. ASSUME NEW deps, NEW a, NEW acts, dag_push(deps, a, acts)
      PROVE  RInv'
  <2> DEFINE N == Len(dag)
             b == [deps |-> deps, account |-> a, creator |-> guest.acct,
                   actions |-> acts]
  <2>1. dag' = Append(dag, b) /\ hist' = Append(hist, NewHist)
    BY <1>3 DEF dag_push
  <2> HIDE DEF b
  <2>2. Len(dag') = N + 1 /\ \A n \in 1..N : dag'[n] = dag[n]
    BY <1>1, <2>1
  <2>3. /\ hist'[N + 1] = NewHist
        /\ \A n \in 1..N : hist'[n] = hist[n]
    BY <1>0, <1>1, <2>1, NewHistType, AppendProperties
  <2>4. hist'[N + 1].ret = {}
    BY <2>3 DEF NewHist
  <2>5. N =< N + 1 /\ \A n \in 1..(N + 1) : n \in 1..N \/ n = N + 1
    BY <1>1
  <2> QED
    BY <1>0, <1>1, <2>2, <2>3, <2>4, <2>5, HostKeeps
<1>4. ASSUME NEW h \in Handles, NEW op \in ActionKinds,
             promise_batch_action(h, op)
      PROVE  RInv'
  <2>1. PICK x \in ActionsFor(op) :
          dag' = [dag EXCEPT ![h].actions = Append(@, x)]
    BY <1>4 DEF promise_batch_action
  <2>2. UNCHANGED hist
    BY <1>4 DEF promise_batch_action
  <2> DEFINE b == [dag[h] EXCEPT !.actions = Append(dag[h].actions, x)]
  <2>3. h \in 1..Len(dag) /\ dag[h] \in Batches
    BY <1>0, <1>1, HandleFacts, ElementOfSeq
  <2>4. b.deps = dag[h].deps /\ dag' = [dag EXCEPT ![h] = b]
    BY <2>1, <2>3 DEF Batches
  <2> HIDE DEF b
  <2>5. Len(dag') = Len(dag) /\ Len(dag) =< Len(dag)
    BY <1>0, <1>1, <2>2 DEF TInv, TypeOK
  <2>6. ASSUME NEW n \in 1..Len(dag) PROVE dag'[n].deps = dag[n].deps
    BY <1>1, <2>3, <2>4, LenProperties
  <2> QED
    BY <1>0, <1>1, <2>2, <2>5, <2>6, HostKeeps
<1> QED
  BY <1>2, <1>3, <1>4
     DEF GuestStep, StorageWrite, promise_create, promise_then, promise_and,
         promise_batch_create, promise_batch_then, promise_return, engine

\* The actions of a batch that are not calls, and calls of unknown accounts.
LEMMA ActionKeeps ==
  ASSUME RInv, IInv',
         \/ DoTransfer \/ DoStake \/ DoAddKey \/ DoDeleteKey
         \/ DoDeleteAccount \/ CallUnknown
  PROVE  RInv'
<1>1. /\ ActionsLeft
      /\ UNCHANGED <<dag, outcomes, results, executed, phase, tx, hist>>
      /\ (\E s, t : Succeed(s, t)) \/ Revert \/ CallUnknown
  BY DEF DoTransfer, DoStake, DoAddKey, DoDeleteKey, DoDeleteAccount,
         CallUnknown, AtCall, ActionOnly, engine
<1>2. /\ stack # <<>> /\ Top \in Frames /\ Top.pc = "act"
      /\ phase \notin {"idle", "entry"}
  BY <1>1, ActionFacts, RunningFacts
     DEF RInv, IInv, ActionsLeft, TInv, ControlInv
<1>3. \E f : /\ stack' = SetTop(f) /\ f.idx = Top.idx /\ f.pc = "act"
             /\ f.saved = Top.saved /\ f.dp = Top.dp /\ f.depRes = Top.depRes
  <2>1. ASSUME NEW ap, NEW out, NEW touched
        PROVE  LET f == [Top EXCEPT !.ap = ap, !.out = out, !.touched = touched]
               IN  /\ f.idx = Top.idx /\ f.pc = "act" /\ f.saved = Top.saved
                   /\ f.dp = Top.dp /\ f.depRes = Top.depRes
    BY <1>2 DEF Frames
  <2>2. ASSUME NEW ap, NEW out
        PROVE  LET f == [Top EXCEPT !.ap = ap, !.out = out]
               IN  /\ f.idx = Top.idx /\ f.pc = "act" /\ f.saved = Top.saved
                   /\ f.dp = Top.dp /\ f.depRes = Top.depRes
    BY <1>2 DEF Frames
  <2>3. CASE \E s, t : Succeed(s, t)
    <3>1. PICK s, t : Succeed(s, t)
      BY <2>3
    <3> DEFINE f == [Top EXCEPT !.ap = Top.ap + 1,
                                !.out = Append(Top.out, Top.idx),
                                !.touched = Top.touched \o t]
    <3>2. stack' = SetTop(f)
      BY <3>1 DEF Succeed
    <3>3. /\ f.idx = Top.idx /\ f.pc = "act" /\ f.saved = Top.saved
          /\ f.dp = Top.dp /\ f.depRes = Top.depRes
      BY <2>1
    <3> HIDE DEF f
    <3> QED
      BY <3>2, <3>3
  <2>4. CASE Revert
    <3> DEFINE f == [Top EXCEPT !.ap = Len(Batch.actions) + 1,
                                !.out = Append(Top.out, Failed)]
    <3>1. stack' = SetTop(f)
      BY <2>4 DEF Revert
    <3>2. /\ f.idx = Top.idx /\ f.pc = "act" /\ f.saved = Top.saved
          /\ f.dp = Top.dp /\ f.depRes = Top.depRes
      BY <2>2
    <3> HIDE DEF f
    <3> QED
      BY <3>1, <3>2
  <2>5. CASE CallUnknown
    <3> DEFINE f == [Top EXCEPT !.ap = Top.ap + 1,
                                !.out = Append(Top.out, Failed)]
    <3>1. stack' = SetTop(f)
      BY <2>5 DEF CallUnknown
    <3>2. /\ f.idx = Top.idx /\ f.pc = "act" /\ f.saved = Top.saved
          /\ f.dp = Top.dp /\ f.depRes = Top.depRes
      BY <2>2
    <3> HIDE DEF f
    <3> QED
      BY <3>1, <3>2
  <2> QED
    BY <1>1, <2>3, <2>4, <2>5
<1> QED
  BY <1>1, <1>2, <1>3, TopKeeps DEF TopMoves

\* execute_promise on a dependency or a returned promise.
LEMMA ResolveKeeps ==
  ASSUME RInv, IInv', ExecutePromise
  PROVE  RInv'
<1> DEFINE c == Callee(Top)
<1>0. TInv /\ IInv
  BY DEF RInv, IInv
<1>1. /\ Running /\ c # 0 /\ executed' = executed \cup {c}
      /\ UNCHANGED <<dag, outcomes, results, phase, tx, hist>>
  BY DEF ExecutePromise
<1>2. /\ stack # <<>> /\ c \in 1..Len(dag)
      /\ Top \in Frames /\ Top.idx \in 1..Len(dag)
      /\ phase \notin {"idle", "entry"}
  BY <1>0, <1>1, RunningFacts, TopFacts, CalleeFacts DEF TInv, ControlInv
<1>3. /\ Top.pc = "child" => c = Top.child
      /\ Top.pc # "child" => /\ Top.pc = "deps" /\ Top.dp < Len(Batch.deps)
                             /\ c = Batch.deps[Top.dp + 1]
  BY <1>1, SMTT(30) DEF Callee, Batch
<1>4. CASE Memoized(c)
  <2> DEFINE f == Receive(Top, outcomes[c])
  <2>1. stack' = SetTop(f) /\ executed' \subseteq executed \cup DOMAIN outcomes
    BY <1>1, <1>4 DEF ExecutePromise, Memoized
  <2>2. /\ f.idx = Top.idx /\ f.saved = Top.saved
        /\ Top.pc = "deps" => /\ f.pc = "deps" /\ f.dp = Top.dp + 1
                              /\ f.depRes = Top.depRes \o outcomes[c]
        /\ Top.pc # "deps" => /\ f.pc = "act" /\ f.dp = Top.dp
                              /\ f.depRes = Top.depRes
    BY <1>2, ReceiveFacts
  <2>3. Top.pc = "child" => Memoized(Top.child)
    BY <1>3, <1>4
  <2>4. \/ f.dp = Top.dp /\ f.depRes = Top.depRes
        \/ /\ Top.pc = "deps" /\ Top.dp < Len(Batch.deps)
           /\ Memoized(Batch.deps[Top.dp + 1]) /\ f.dp = Top.dp + 1
           /\ f.depRes = Top.depRes \o outcomes[Batch.deps[Top.dp + 1]]
    <3> HIDE DEF f, c
    <3> QED
      BY <1>3, <1>4, <2>2
  <2>5. f.pc = "deps" <=> Top.pc = "deps"
    BY <2>2
  <2> HIDE DEF f, c
  <2> QED
    BY <1>1, <1>2, <2>1, <2>2, <2>3, <2>4, <2>5, TopKeeps DEF TopMoves
<1>5. CASE ~Memoized(c)
  <2>1. stack' = Append(stack, NewFrame(c))
    BY <1>5 DEF ExecutePromise
  <2>2. NewFrame(c) \in Frames
    BY <1>0, <1>2, NewFrameType
  <2>3. /\ Len(stack') = Len(stack) + 1
        /\ stack'[Len(stack) + 1] = NewFrame(c)
        /\ \A k \in 1..Len(stack) : stack'[k] = stack[k]
    BY <1>0, <2>1, <2>2, PushFacts
  <2>4. stack # <<>> => Callee(Top) = c
    OBVIOUS
  <2> HIDE DEF c
  <2> QED
    BY <1>1, <1>2, <2>3, <2>4, EnterKeeps
<1> QED
  BY <1>4, <1>5

\* A call starts and ends.
LEMMA CallKeeps ==
  ASSUME RInv, IInv', CallStart \/ CallReturn \/ CallTrap
  PROVE  RInv'
<1>0. TInv /\ IInv
  BY DEF RInv, IInv
<1>1. CASE CallStart
  <2> DEFINE f == [Top EXCEPT !.pc = "call"]
  <2>1. /\ ActionsLeft /\ stack' = SetTop(f)
        /\ UNCHANGED <<dag, executed, outcomes, results, phase, tx, hist>>
    BY <1>1 DEF CallStart, AtCall
  <2>2. /\ stack # <<>> /\ Top \in Frames /\ Top.pc = "act"
        /\ phase \notin {"idle", "entry"}
    BY <1>0, <2>1, ActionFacts DEF ActionsLeft, TInv, ControlInv
  <2>3. /\ f.idx = Top.idx /\ f.pc = "call" /\ f.saved = Top.saved
        /\ f.dp = Top.dp /\ f.depRes = Top.depRes
    BY <2>2 DEF Frames
  <2> HIDE DEF f
  <2> QED
    BY <2>1, <2>2, <2>3, TopKeeps DEF TopMoves
<1>2. CASE CallReturn \/ CallTrap
  <2>1. PICK r : InCall /\ EndCall(r)
    BY <1>2 DEF CallReturn, CallTrap
  <2>2. /\ stack # <<>> /\ phase \notin {"idle", "entry"}
        /\ stack[Len(stack)].pc = "call"
    BY <1>0, <2>1 DEF InCall, TInv, ControlInv
  <2>3. Top = stack[Len(stack)] /\ Top \in Frames /\ Top.pc = "call"
    BY <1>0, <2>2, TopFacts
  <2> DEFINE f == IF pending = 0
                  THEN [Top EXCEPT !.pc = "act", !.ap = Top.ap + 1,
                                   !.out = Append(Top.out, r)]
                  ELSE [Top EXCEPT !.pc = "child", !.child = pending,
                                   !.local = r]
  <2>4. /\ stack' = SetTop(f)
        /\ UNCHANGED <<dag, executed, outcomes, results, phase, tx>>
    BY <2>1 DEF EndCall
  <2>5. /\ f.idx = Top.idx /\ f.pc # "deps" /\ f.saved = Top.saved
        /\ f.dp = Top.dp /\ f.depRes = Top.depRes
        /\ pending # 0 => f.pc = "child" /\ f.child = pending
    BY <2>3 DEF Frames
  <2>6. ASSUME NEW n \in 1..Len(dag)
        PROVE  /\ hist'[n].runs = hist[n].runs
               /\ hist'[n].ret \subseteq hist[n].ret
                    \cup IF n = Top.idx /\ f.pc = "child" THEN {f.child} ELSE {}
    <3> HIDE DEF f
    <3>1. hist \in Seq(HistSet) /\ Len(hist) = Len(dag)
      BY <1>0, Types
    <3>2. hist[n] \in HistSet /\ n \in DOMAIN hist
      BY <3>1, ElementOfSeq, LenProperties
    <3>3. hist' = [hist EXCEPT ![Top.idx].ret =
                     IF pending = 0 THEN @ ELSE @ \cup {pending}]
      BY <2>1 DEF EndCall
    <3>4. /\ hist'[n].runs = hist[n].runs
          /\ n # Top.idx => hist'[n].ret = hist[n].ret
          /\ n = Top.idx => hist'[n].ret = IF pending = 0 THEN hist[n].ret
                                           ELSE hist[n].ret \cup {pending}
      BY <3>2, <3>3 DEF HistSet
    <3> QED
      BY <2>5, <3>4
  <2> HIDE DEF f
  <2> QED
    BY <2>2, <2>3, <2>4, <2>5, <2>6, TopKeeps DEF TopMoves
<1> QED
  BY <1>1, <1>2

\* A batch ends, having run or having been forced to fail.
LEMMA EndKeeps ==
  ASSUME RInv, IInv', ForcedFail \/ FinishBatch
  PROVE  RInv'
<1>0. TInv /\ IInv
  BY DEF RInv, IInv
<1>1. CASE ForcedFail
  <2>1. /\ DepsDone /\ Top.idx \in tx.fail /\ Return(<<>>)
        /\ UNCHANGED <<dag, hist, executed, results>>
    BY <1>1 DEF ForcedFail
  <2>2. /\ Running /\ Top.pc = "deps" /\ Top.dp = Len(Batch.deps)
        /\ hist[Top.idx].runs = 0
    BY <2>1, DepsDoneFacts
  <2>3. <<>> \in Seq(Nat)
    BY EmptySeq
  <2> QED
    BY <2>1, <2>2, <2>3, LeaveKeeps
<1>2. CASE FinishBatch
  <2>1. /\ Running /\ Top.pc = "act" /\ results' = Top.saved
        /\ UNCHANGED <<dag, hist, executed>>
        /\ Return(Top.depRes) \/ Return(Top.out)
    BY <1>2 DEF FinishBatch
  <2>2. /\ stack # <<>> /\ Top \in Frames /\ Top = stack[Len(stack)]
        /\ Len(stack) \in 1..Len(stack) /\ Top.idx \in 1..Len(dag)
    BY <1>0, <2>1, RunningFacts, TopFacts
  <2>3. Top.depRes \in Seq(Nat) /\ Top.out \in Seq(Nat)
    BY <2>2 DEF Frames
  <2>4. Top.dp = Len(Batch.deps)
    BY <2>1, <2>2 DEF RInv, AwaitInv, Batch
  <2>5. Top.idx \notin tx.fail
    BY <2>1, <2>2 DEF RInv, DrainInv
  <2>6. hist[Top.idx].runs = 1
    <3>1. hist[Top.idx].runs # 0 /\ hist[Top.idx].runs <= 1
      BY <2>1, <2>2 DEF IInv, RInv, RunInv
    <3>2. hist[Top.idx].runs \in Nat
      BY <1>0, <2>2, SkeletonTypes
    <3> QED
      BY <3>1, <3>2
  <2> QED
    BY <2>1, <2>3, <2>4, <2>5, <2>6, LeaveKeeps
<1> QED
  BY <1>1, <1>2

\* A transaction starts: nothing of the last one is left.
LEMMA StartKeeps ==
  ASSUME RInv, IInv', execute_tx
  PROVE  RInv'
<1>1. /\ dag' = <<>> /\ executed' = {} /\ outcomes' = <<>> /\ results' = <<>>
      /\ phase = "idle" /\ stack' = stack
      /\ phase' = "entry" \/ tx'.errors = 1
  BY DEF execute_tx, StartTx, StartTxError, StartTxUnknown, fresh_tx_state
<1>2. stack' = <<>>
  BY <1>1 DEF RInv, IInv, TInv, ControlInv
<1>3. Len(dag') = 0 /\ Len(stack') = 0 /\ DOMAIN outcomes' = {}
  BY <1>1, <1>2, EmptySeq
<1>4. ChainInv' /\ AwaitInv'
  BY <1>3 DEF ChainInv, AwaitInv
<1>5. ScopeInv'
  BY <1>1, <1>3 DEF ScopeInv, Published
<1>6. DrainInv'
  <2>1. phase' = "entry" \/ tx'.errors # 0
    BY <1>1
  <2> QED
    BY <1>1, <1>3, <2>1 DEF DrainInv
<1> QED
  BY <1>4, <1>5, <1>6 DEF RInv

\* Nothing is live, and a transaction ends or goes on to the drain.
LEMMA IdleKeeps ==
  ASSUME RInv, IInv', stack = <<>>,
         UNCHANGED <<dag, executed, outcomes, results, stack, hist>>,
         tx'.fail = tx.fail, phase' # "entry",
         phase' = "idle" /\ ~tx'.trapped /\ tx'.errors = 0
           => executed = 1..Len(dag)
  PROVE  RInv'
<1>1. Len(stack) = 0
  BY EmptySeq
<1>2. ChainInv'
  BY <1>1 DEF ChainInv
<1>3. AwaitInv'
  BY DEF RInv, AwaitInv, Memoized
<1>4. ScopeInv'
  BY DEF RInv, ScopeInv
<1>5. DrainInv'
  BY DEF RInv, DrainInv, Memoized
<1> QED
  BY <1>2, <1>3, <1>4, <1>5 DEF RInv

\* execute_tx, from the end of the entry call.
LEMMA TxEndKeeps ==
  ASSUME RInv, IInv',
         NoMethod \/ EntryReturn \/ EntryTrap \/ DrainNext \/ DrainDone
  PROVE  RInv'
<1>0. /\ TInv /\ DrainInv /\ tx \in TxSet
      /\ executed \subseteq 1..Len(dag) /\ DOMAIN outcomes \subseteq executed
  BY Types DEF RInv, IInv, TInv, TypeOK, TxSet
<1>1. UNCHANGED <<dag, outcomes, results, hist>> /\ stack = <<>>
  <2>1. CASE NoMethod \/ EntryReturn \/ EntryTrap
    BY <1>0, <2>1 DEF NoMethod, InStart, EntryReturn, EntryTrap, engine, TInv,
                      ControlInv
  <2>2. CASE DrainNext \/ DrainDone
    BY <2>2 DEF DrainNext, DrainDone, engine
  <2> QED
    BY <2>1, <2>2
<1>2. Len(stack) = 0
  BY <1>1, EmptySeq
<1>3. ASSUME NEW c \in 1..Len(dag), stack' = <<NewFrame(c)>>,
             executed' = executed \cup {c}, tx'.fail = tx.fail,
             phase' \notin {"idle", "entry"}
      PROVE  RInv'
  <2>1. Len(stack') = Len(stack) + 1 /\ stack'[Len(stack) + 1] = NewFrame(c)
    BY <1>2, <1>3
  <2>2. \A k \in 1..Len(stack) : FALSE
    BY <1>2
  <2> QED
    BY <1>1, <1>3, <2>1, <2>2, EnterKeeps
<1>4. CASE EntryReturn
  <2>1. phase = "entry" /\ executed = {}
    BY <1>0, <1>4 DEF EntryReturn, DrainInv
  <2>2. /\ DOMAIN outcomes = {}
        /\ pending # 0 => pending \in 1..Len(dag)
    <3>1. guest # NoGuest
      BY <1>0, <2>1 DEF TInv, ControlInv
    <3>2. pending \in Nat /\ Len(dag) \in Nat /\ pending <= Len(dag)
      BY <1>0, <3>1, Types
    <3>3. DOMAIN outcomes = {}
      BY <1>0, <2>1
    <3> QED
      BY <3>2, <3>3
  <2>3. tx'.fail = tx.fail
    BY <1>0, <1>4 DEF EntryReturn, TxStatus, TxSet
  <2>4. CASE pending = 0
    <3>1. executed' = executed /\ stack' = stack /\ phase' = "drain"
      BY <1>4, <2>4 DEF EntryReturn
    <3> QED
      BY <1>1, <2>3, <3>1, IdleKeeps
  <2>5. CASE pending # 0
    <3>1. ~Memoized(pending)
      BY <2>2 DEF Memoized
    <3>2. /\ stack' = <<NewFrame(pending)>> /\ phase' = "root"
          /\ executed' = executed \cup {pending}
      BY <1>4, <2>5, <3>1 DEF EntryReturn
    <3> QED
      BY <1>3, <2>2, <2>3, <2>5, <3>2
  <2> QED
    BY <2>4, <2>5
<1>5. CASE EntryTrap
  <2>1. /\ UNCHANGED <<executed, stack>> /\ phase' = "idle"
        /\ tx'.trapped /\ tx'.fail = tx.fail
    BY <1>0, <1>5 DEF EntryTrap, engine, TxSet
  <2> QED
    BY <1>1, <2>1, IdleKeeps
<1>6. CASE DrainNext
  <2>1. Unexecuted \subseteq Nat /\ Unexecuted # {}
    BY <1>6 DEF DrainNext, Unexecuted
  <2>2. Min(Unexecuted) \in 1..Len(dag) /\ Min(Unexecuted) \notin executed
    BY <2>1, MinIn DEF Unexecuted
  <2>3. ~Memoized(Min(Unexecuted))
    BY <1>0, <2>2 DEF Memoized
  <2>4. /\ stack' = <<NewFrame(Min(Unexecuted))>>
        /\ executed' = executed \cup {Min(Unexecuted)}
        /\ tx' = tx /\ phase' = "drain"
    BY <1>6, <2>3 DEF DrainNext
  <2> QED
    BY <1>3, <2>2, <2>4
<1>7. CASE DrainDone
  <2>1. UNCHANGED <<executed, stack, tx>> /\ phase' = "idle" /\ Unexecuted = {}
    BY <1>7 DEF DrainDone, engine
  <2>2. executed = 1..Len(dag)
    BY <1>0, <2>1 DEF Unexecuted
  <2> QED
    BY <1>1, <2>1, <2>2, IdleKeeps
<1>8. CASE NoMethod
  <2>1. /\ UNCHANGED <<executed, stack>> /\ phase' = "idle"
        /\ tx'.errors = 1 /\ tx'.fail = tx.fail
    BY <1>0, <1>8 DEF NoMethod, engine, TxSet
  <2> QED
    BY <1>1, <2>1, IdleKeeps
<1> QED
  BY <1>4, <1>5, <1>6, <1>7, <1>8

\* The start function ends and the entry method begins.
LEMMA BeginKeeps ==
  ASSUME RInv, IInv', EntryBegins
  PROVE  RInv'
<1>1. /\ UNCHANGED <<dag, executed, outcomes, results, stack, phase, hist>>
      /\ phase = "entry"
  BY DEF EntryBegins, InStart, engine
<1>2. tx'.fail = tx.fail
  <2>1. tx \in TxSet
    BY DEF RInv, IInv, TInv, TypeOK, TxSet
  <2> QED
    BY <2>1 DEF EntryBegins, TxSet
<1>3. ChainInv'
  BY <1>1 DEF RInv, ChainInv, Callee
<1>4. AwaitInv'
  BY <1>1 DEF RInv, AwaitInv, Memoized
<1>5. ScopeInv'
  BY <1>1 DEF RInv, ScopeInv
<1>6. DrainInv'
  BY <1>1, <1>2 DEF RInv, DrainInv, Memoized
<1> QED
  BY <1>3, <1>4, <1>5, <1>6 DEF RInv

\* With no broken module, every step keeps the invariant.
LEMMA ResultsStep ==
  ASSUME Broken = {}, RInv, [Next]_vars
  PROVE  RInv'
<1>0. IInv'
  BY OnceStep DEF RInv
<1>1. CASE UNCHANGED vars
  <2>1. UNCHANGED <<dag, executed, outcomes, results, stack, phase, tx, hist>>
    BY <1>1 DEF vars, engine
  <2>2. ChainInv'
    BY <2>1 DEF RInv, ChainInv, Callee
  <2>3. AwaitInv'
    BY <2>1 DEF RInv, AwaitInv, Memoized
  <2>4. ScopeInv'
    BY <2>1 DEF RInv, ScopeInv
  <2>5. DrainInv'
    BY <2>1 DEF RInv, DrainInv, Memoized
  <2> QED
    BY <1>0, <2>2, <2>3, <2>4, <2>5 DEF RInv
<1>2. CASE GuestEnd
  BY <1>0, <1>2, CallKeeps, BeginKeeps, TxEndKeeps DEF GuestEnd
<1>3. CASE EngineStep
  <2>1. CASE CallError
    BY <2>1 DEF CallError
  <2> QED
    BY <1>0, <1>3, <2>1, ResolveKeeps, EndKeeps, PublishKeeps, ActionKeeps,
       CallKeeps, TxEndKeeps
       DEF EngineStep
<1> QED
  BY <1>0, <1>1, <1>2, <1>3, StartKeeps, HostStep DEF Next

\* The invariant holds initially.
LEMMA ResultsInit ==
  ASSUME Init
  PROVE  RInv
<1>1. /\ IInv /\ Len(dag) = 0 /\ Len(stack) = 0 /\ DOMAIN outcomes = {}
      /\ executed = {} /\ results = <<>>
  BY OnceInit, EmptySeq DEF Init
<1>2. ChainInv /\ AwaitInv
  BY <1>1 DEF ChainInv, AwaitInv
<1>3. ScopeInv
  BY <1>1 DEF ScopeInv, Published
<1>4. DrainInv
  BY <1>1 DEF DrainInv
<1> QED
  BY <1>1, <1>2, <1>3, <1>4 DEF RInv

-----------------------------------------------------------------------------
(* What the invariant says of the properties *)

\* The results a callee sees are those its batch has gathered, from all of its
\* dependencies; the entry sees none.
LEMMA ScopedResults ==
  ASSUME RInv
  PROVE  ResultScoping
<1>0. TInv /\ ScopeInv /\ AwaitInv
  BY DEF RInv, IInv
<1> SUFFICES ASSUME guest # NoGuest
             PROVE  results = IF stack = <<>> THEN <<>>
                              ELSE FlattenSeq([j \in 1..Len(Batch.deps) |->
                                                 outcomes[Batch.deps[j]]])
  BY DEF ResultScoping
<1>1. CASE stack = <<>>
  <2>1. Len(stack) = 0
    BY <1>1, EmptySeq
  <2>2. Collecting(stack, 1, 0)
    BY DEF Collecting
  <2> QED
    BY <1>0, <1>1, <2>1, <2>2 DEF ScopeInv, Published
<1>2. CASE stack # <<>>
  <2>1. /\ Len(stack) \in Nat \ {0} /\ Len(stack) \in 1..Len(stack)
        /\ Top = stack[Len(stack)]
    BY <1>0, <1>2, TopFacts
  <2>2. Top.pc # "deps"
    BY <1>0, <1>2, <2>1 DEF TInv, ControlInv
  <2>3. results = Top.depRes
    BY <1>0, <2>1, <2>2, PublishedOwn DEF ScopeInv
  <2>4. Top.dp = Len(Batch.deps)
    BY <1>0, <2>1, <2>2 DEF AwaitInv, Batch
  <2>5. Top.depRes = Gathered(outcomes, Batch.deps, Top.dp)
    BY <1>0, <2>1 DEF ScopeInv, Batch
  <2>6. results = Gathered(outcomes, Batch.deps, Len(Batch.deps))
    BY <2>3, <2>4, <2>5
  <2> QED
    BY <1>2, <2>6 DEF Gathered
<1> QED
  BY <1>1, <1>2

\* A memoized batch is not live, so what it awaits is memoized.
LEMMA AwaitedComplete ==
  ASSUME RInv
  PROVE  AwaitComplete
<1>0. TInv /\ AwaitInv /\ StackInv
  BY DEF RInv, IInv
<1> SUFFICES ASSUME NEW i \in DOMAIN outcomes,
                    NEW m \in ToSet(dag[i].deps) \cup hist[i].ret
             PROVE  m \in DOMAIN outcomes
  BY DEF AwaitComplete
<1>1. i \in 1..Len(dag)
  BY <1>0, FrameTypes
<1>2. CASE m \in ToSet(dag[i].deps)
  <2>1. dag[i].deps \in Seq(Nat)
    <3>1. dag[i] \in Batches
      BY <1>0, <1>1, Types, ElementOfSeq
    <3> QED
      BY <3>1 DEF Batches
  <2>2. PICK j \in 1..Len(dag[i].deps) : dag[i].deps[j] = m
    BY <1>2, <2>1, LenProperties DEF ToSet
  <2> QED
    BY <1>0, <1>1, <2>2 DEF AwaitInv, Memoized
<1>3. CASE m \in hist[i].ret
  BY <1>0, <1>1, <1>3 DEF AwaitInv, StackInv, Memoized
<1> QED
  BY <1>2, <1>3

\* Once idle nothing is live, so whatever was executed is memoized.
LEMMA DrainedComplete ==
  ASSUME RInv
  PROVE  DrainComplete
<1>0. TInv /\ DrainInv
  BY DEF RInv, IInv
<1> SUFFICES ASSUME phase = "idle", ~tx.trapped, tx.errors = 0
             PROVE  /\ DOMAIN outcomes = 1..Len(dag)
                    /\ \A i \in 1..Len(dag) :
                         hist[i].runs = IF i \in tx.fail THEN 0 ELSE 1
  BY DEF DrainComplete
<1>1. Len(stack) = 0
  BY <1>0, EmptySeq DEF TInv, ControlInv
<1>2. executed = 1..Len(dag) /\ \A n \in executed : n \in DOMAIN outcomes
  BY <1>0, <1>1 DEF DrainInv, Memoized
<1>3. DOMAIN outcomes = 1..Len(dag)
  BY <1>0, <1>2, FrameTypes
<1> QED
  BY <1>0, <1>3 DEF DrainInv

-----------------------------------------------------------------------------
(* The theorems *)

\* A batch completes only after its dependencies and every promise its callees
\* returned have, for every instance whose modules all instantiate.
THEOREM EngineAwaits ==
  ASSUME Broken = {}
  PROVE  Spec => []AwaitComplete
<1>1. Init => RInv
  BY ResultsInit
<1>2. RInv /\ [Next]_vars => RInv'
  BY ResultsStep
<1>3. RInv => AwaitComplete
  BY AwaitedComplete
<1> QED
  BY <1>1, <1>2, <1>3, PTL DEF Spec

\* A contract reads as promise results exactly those of its own batch's
\* dependencies, in order, for every instance whose modules all instantiate.
THEOREM EngineScopesResults ==
  ASSUME Broken = {}
  PROVE  Spec => []ResultScoping
<1>1. Init => RInv
  BY ResultsInit
<1>2. RInv /\ [Next]_vars => RInv'
  BY ResultsStep
<1>3. RInv => ResultScoping
  BY ScopedResults
<1> QED
  BY <1>1, <1>2, <1>3, PTL DEF Spec

\* A transaction that ends without an entry trap or an engine error ran every
\* batch of its DAG exactly once, those forced to fail excepted, for every
\* instance whose modules all instantiate.
THEOREM EngineDrains ==
  ASSUME Broken = {}
  PROVE  Spec => []DrainComplete
<1>1. Init => RInv
  BY ResultsInit
<1>2. RInv /\ [Next]_vars => RInv'
  BY ResultsStep
<1>3. RInv => DrainComplete
  BY DrainedComplete
<1> QED
  BY <1>1, <1>2, <1>3, PTL DEF Spec

-----------------------------------------------------------------------------
(* Each receipt once, in causal order: the engine implements ReceiptOrder *)

\* The receipts are those of the batches.
LEMMA ReceiptFacts ==
  ASSUME TInv
  PROVE  /\ Len(dag) \in Nat /\ Len(ReceiptsOf) = Len(dag)
         /\ Order!Receipts = 1..Len(dag)
         /\ DOMAIN ReceiptsOf = 1..Len(dag)
         /\ \A i \in 1..Len(dag) :
              /\ ReceiptsOf[i].by = hist[i].by
              /\ ReceiptsOf[i].deps = ToSet(dag[i].deps)
              /\ ReceiptsOf[i].awaits = hist[i].ret
<1>1. Len(dag) \in Nat
  BY Types
<1>2. \A i \in 1..Len(dag) :
        /\ ReceiptsOf[i].by = hist[i].by
        /\ ReceiptsOf[i].deps = ToSet(dag[i].deps)
        /\ ReceiptsOf[i].awaits = hist[i].ret
  BY DEF ReceiptsOf
<1>3. DOMAIN ReceiptsOf = 1..Len(dag)
  BY DEF ReceiptsOf
<1>4. ReceiptsOf \in [1..Len(dag) -> {ReceiptsOf[i] : i \in 1..Len(dag)}]
  BY DEF ReceiptsOf
<1>5. Len(ReceiptsOf) = Len(dag)
  BY <1>1, <1>4, SeqDef, LenProperties
<1> QED
  BY <1>1, <1>2, <1>3, <1>5 DEF Order!Receipts

\* The dependencies of a batch, as a set.
LEMMA DepsSet ==
  ASSUME TInv, NEW i \in 1..Len(dag)
  PROVE  ToSet(dag[i].deps) = {dag[i].deps[j] : j \in 1..Len(dag[i].deps)}
<1>1. dag[i] \in Batches
  BY Types, ElementOfSeq
<1>2. dag[i].deps \in Seq(Nat)
  BY <1>1 DEF Batches
<1> QED
  BY <1>2, LenProperties DEF ToSet

\* A step that changes neither the DAG's shape nor what has begun or is done.
LEMMA QuietOrder ==
  ASSUME Len(dag') = Len(dag), hist' = hist,
         \A i \in 1..Len(dag) : dag'[i].deps = dag[i].deps,
         DOMAIN outcomes' = DOMAIN outcomes, phase' = "idle" <=> phase = "idle"
  PROVE  UNCHANGED Order!ovars
<1>1. ReceiptsOf' = ReceiptsOf
  BY DEF ReceiptsOf
<1>2. BegunOf' = BegunOf
  BY DEF BegunOf
<1> QED
  BY <1>1, <1>2 DEF Order!ovars

\* A transaction starts.
LEMMA OrderStarts ==
  ASSUME TInv, execute_tx
  PROVE  Order!Start
<1>1. /\ phase = "idle" /\ dag' = <<>> /\ outcomes' = <<>> /\ Len(<<>>) = 0
      /\ DOMAIN <<>> = {}
  BY EmptySeq DEF execute_tx, StartTx, StartTxError, StartTxUnknown,
     fresh_tx_state
<1>2. ReceiptsOf' = <<>> /\ BegunOf' = {}
  BY <1>1 DEF ReceiptsOf, BegunOf
<1> QED
  BY <1>1, <1>2 DEF Order!Start

\* A host function adds a batch, on behalf of the entry or of a batch that
\* runs, depending on batches of the same contract call.
LEMMA OrderCreates ==
  ASSUME RInv, TInv', guest # NoGuest, NEW deps, NEW a, NEW acts,
         deps \in Seq(Handles), dag_push(deps, a, acts), PromisesOnly
  PROVE  Order!Create
<1>0. TInv /\ GuestInv /\ RunInv /\ StackInv
  BY DEF RInv, IInv
<1> DEFINE N == Len(dag)
           b == [deps |-> deps, account |-> a, creator |-> guest.acct,
                 actions |-> acts]
           D == ToSet(deps)
<1>1. /\ dag' = Append(dag, b) /\ hist' = Append(hist, NewHist)
      /\ UNCHANGED <<outcomes, phase>> /\ b.deps = deps
  BY DEF dag_push, PromisesOnly
<1> HIDE DEF b
<1>2. /\ N \in Nat /\ dag \in Seq(Batches) /\ dag' \in Seq(Batches)
      /\ hist \in Seq(HistSet) /\ Len(hist) = N
  BY <1>0, Types DEF TInv, TypeOK
<1>3. /\ Len(dag') = N + 1 /\ dag'[N + 1] = b
      /\ \A n \in 1..N : dag'[n] = dag[n]
  BY <1>1, <1>2
<1>4. /\ hist'[N + 1] = NewHist /\ \A n \in 1..N : hist'[n] = hist[n]
  BY <1>0, <1>1, <1>2, NewHistType, AppendProperties
<1>5. phase # "idle"
  BY <1>0 DEF TInv, ControlInv
<1>6. Owner \in {0} \cup {i \in 1..N : Order!Runs(i)}
  <2>1. CASE stack = <<>>
    BY <2>1 DEF Owner
  <2>2. CASE stack # <<>>
    <3>1. /\ Len(stack) \in 1..Len(stack) /\ Top = stack[Len(stack)]
          /\ Top.idx \in 1..N
      BY <1>0, <2>2, TopFacts
    <3>2. stack[Len(stack)].pc = "call"
      BY <1>0, <2>2 DEF TInv, ControlInv
    <3>3. hist[Top.idx].runs # 0 /\ ~Memoized(Top.idx)
      BY <1>0, <3>1, <3>2 DEF RunInv, StackInv
    <3> QED
      BY <2>2, <3>1, <3>3 DEF Owner, Order!Runs, BegunOf, Memoized
  <2> QED
    BY <2>1, <2>2
<1>7. D \in SUBSET {j \in 1..N : hist[j].by = Owner}
  <2>1. \A h \in D : h \in Handles
    BY LenProperties DEF ToSet
  <2>2. \A h \in Handles : h \in 1..N /\ h > guest.base
    BY <1>0, HandleFacts
  <2>3. \A h \in Handles : hist[h].by = Owner
    BY <1>0, <2>2 DEF GuestInv
  <2> QED
    BY <2>1, <2>2, <2>3
<1> DEFINE r == [by |-> Owner, deps |-> D, awaits |-> {}]
<1>8. ReceiptsOf' = Append(ReceiptsOf, r)
  <2> DEFINE S == {ReceiptsOf[i] : i \in 1..N} \cup {r}
             P == ReceiptsOf'
             Q == Append(ReceiptsOf, r)
  <2>1. ReceiptsOf \in Seq(S) /\ Len(ReceiptsOf) = N
    <3>1. ReceiptsOf \in [1..N -> S]
      BY DEF ReceiptsOf
    <3>2. N \in Nat /\ Len(ReceiptsOf) = N
      BY <1>0, <1>2, ReceiptFacts
    <3> HIDE DEF S
    <3> QED
      BY <3>1, <3>2, SeqDef
  <2> HIDE DEF S
  <2>2. r \in S
    BY DEF S
  <2> HIDE DEF r
  <2>3. /\ Q \in Seq(S) /\ Len(Q) = N + 1 /\ Q[N + 1] = r
        /\ \A i \in 1..N : Q[i] = ReceiptsOf[i]
    BY <2>1, <2>2, AppendProperties
  <2>4. DOMAIN P = 1..(N + 1) /\ P = [i \in 1..(N + 1) |-> P[i]]
    BY <1>3 DEF ReceiptsOf
  <2>5. DOMAIN Q = 1..(N + 1) /\ Q = [i \in 1..(N + 1) |-> Q[i]]
    BY <2>3, LenProperties
  <2>6. ASSUME NEW i \in 1..(N + 1) PROVE P[i] = Q[i]
    <3>1. P[i] = [by |-> hist'[i].by, deps |-> ToSet(dag'[i].deps),
                  awaits |-> hist'[i].ret]
      BY <1>3 DEF ReceiptsOf
    <3>2. CASE i \in 1..N
      <4>1. hist'[i] = hist[i] /\ dag'[i] = dag[i]
        BY <1>3, <1>4, <3>2
      <4>2. P[i] = [by |-> hist[i].by, deps |-> ToSet(dag[i].deps),
                    awaits |-> hist[i].ret]
        BY <3>1, <4>1, Zenon
      <4>3. ReceiptsOf[i] = [by |-> hist[i].by, deps |-> ToSet(dag[i].deps),
                             awaits |-> hist[i].ret]
        BY <3>2 DEF ReceiptsOf
      <4> QED
        BY <2>3, <3>2, <4>2, <4>3, Zenon
    <3>3. CASE i = N + 1
      <4>1. hist'[i] = NewHist /\ dag'[i].deps = deps
        BY <1>1, <1>3, <1>4, <3>3
      <4>2. NewHist.by = Owner /\ NewHist.ret = {}
        BY <1>0, NewHistType
      <4>3. P[i] = r
        BY <3>1, <4>1, <4>2, Zenon DEF r
      <4> QED
        BY <2>3, <3>3, <4>3
    <3>4. i \in 1..N \/ i = N + 1
      <4> HIDE DEF N
      <4> QED
        BY <1>2
    <3> QED
      BY <3>2, <3>3, <3>4
  <2> HIDE DEF P, Q
  <2>7. P = Q
    BY <2>4, <2>5, <2>6
  <2> QED
    BY <2>7 DEF P, Q
<1>9. BegunOf' = BegunOf
  <2>1. hist'[N + 1].runs = 0
    BY <1>0, <1>4, NewHistType
  <2>2. \A i \in 1..(N + 1) : i \in 1..N \/ i = N + 1
    BY <1>2
  <2>3. \A i \in 1..N : i \in 1..(N + 1)
    BY <1>2
  <2> HIDE DEF N
  <2>4. \A i : i \in BegunOf' <=> i \in BegunOf
    BY <1>3, <1>4, <2>1, <2>2, <2>3 DEF BegunOf, N
  <2> QED
    BY <2>4 DEF BegunOf
<1>10. Order!Receipts = 1..N /\ \A j \in 1..N : ReceiptsOf[j].by = hist[j].by
  BY <1>0, ReceiptFacts
<1>11. D \in SUBSET {j \in Order!Receipts : ReceiptsOf[j].by = Owner}
  BY <1>7, <1>10
<1> HIDE DEF D, N
<1> QED
  BY <1>1, <1>5, <1>6, <1>8, <1>9, <1>10, <1>11 DEF Order!Create, N

\* The running contract's host calls create batches or change no receipt.
LEMMA OrderGuest ==
  ASSUME RInv, TInv', GuestStep
  PROVE  Order!Create \/ UNCHANGED Order!ovars
<1>0. /\ TInv /\ guest # NoGuest /\ UNCHANGED <<outcomes, phase>>
      /\ Len(hist') = Len(dag') /\ Len(hist) = Len(dag)
  BY DEF RInv, IInv, TInv, TypeOK, GuestStep, StorageWrite, promise_create,
         promise_then, promise_and, promise_batch_create, promise_batch_then,
         promise_batch_action, promise_return, Calls, PromisesOnly, engine
<1>1. CASE UNCHANGED <<dag, hist>>
  BY <1>0, <1>1, QuietOrder
<1>2. ASSUME NEW deps \in Seq(Handles), NEW a, NEW acts,
             dag_push(deps, a, acts), PromisesOnly
      PROVE  Order!Create
  BY <1>0, <1>2, OrderCreates
<1>3. ASSUME NEW h \in Handles, NEW op \in ActionKinds,
             promise_batch_action(h, op)
      PROVE  UNCHANGED Order!ovars
  <2>1. PICK x \in ActionsFor(op) :
          dag' = [dag EXCEPT ![h].actions = Append(@, x)]
    BY <1>3 DEF promise_batch_action
  <2>2. UNCHANGED hist
    BY <1>3 DEF promise_batch_action
  <2> DEFINE b == [dag[h] EXCEPT !.actions = Append(dag[h].actions, x)]
  <2>3. h \in 1..Len(dag) /\ dag[h] \in Batches /\ dag \in Seq(Batches)
    BY <1>0, HandleFacts, Types, ElementOfSeq
  <2>4. b.deps = dag[h].deps /\ dag' = [dag EXCEPT ![h] = b]
    BY <2>1, <2>3 DEF Batches
  <2> HIDE DEF b
  <2>5. \A n \in 1..Len(dag) : dag'[n].deps = dag[n].deps
    BY <2>3, <2>4, LenProperties
  <2> QED
    BY <1>0, <2>2, <2>5, QuietOrder
<1>4. /\ <<>> \in Seq(Handles)
      /\ \A h1, h2 \in Handles : <<h1>> \in Seq(Handles)
                                 /\ <<h1, h2>> \in Seq(Handles)
  BY EmptySeq
<1>5. CASE \E v \in {0, 1} : StorageWrite(v)
  BY <1>1, <1>5 DEF StorageWrite, engine
<1>6. CASE \E a \in Receivers, d \in Deposits : promise_create(a, d)
  BY <1>2, <1>4, <1>6 DEF promise_create
<1>7. CASE \E h \in Handles, a \in Receivers, d \in Deposits :
             promise_then(h, a, d)
  BY <1>2, <1>4, <1>7 DEF promise_then
<1>8. CASE \E h1, h2 \in Handles : promise_and(h1, h2)
  BY <1>2, <1>4, <1>8 DEF promise_and
<1>9. CASE \E a \in Receivers : promise_batch_create(a)
  BY <1>2, <1>4, <1>9 DEF promise_batch_create
<1>10. CASE \E h \in Handles, a \in Receivers : promise_batch_then(h, a)
  BY <1>2, <1>4, <1>10 DEF promise_batch_then
<1>11. CASE \E h \in Handles : promise_return(h)
  BY <1>1, <1>11 DEF promise_return
<1> QED
  BY <1>3, <1>5, <1>6, <1>7, <1>8, <1>9, <1>10, <1>11 DEF GuestStep

\* What the innermost batch awaits is done once its dependencies are resolved
\* and it waits for no returned promise.
LEMMA TopAwaited ==
  ASSUME RInv, stack # <<>>, Top.dp = Len(Batch.deps), Top.pc # "child"
  PROVE  /\ Top.idx \in 1..Len(dag) /\ Top.idx \notin DOMAIN outcomes
         /\ Order!Awaited(Top.idx)
<1>0. TInv /\ AwaitInv /\ StackInv
  BY DEF RInv, IInv
<1>1. /\ Len(stack) \in 1..Len(stack) /\ Top = stack[Len(stack)]
      /\ Top.idx \in 1..Len(dag) /\ Len(stack) \in Nat
  BY <1>0, TopFacts
<1>2. Top.idx \notin DOMAIN outcomes
  BY <1>0, <1>1 DEF StackInv, Memoized
<1>3. ToSet(dag[Top.idx].deps) \subseteq DOMAIN outcomes
  <2>1. \A j \in 1..Len(Batch.deps) : Batch.deps[j] \in DOMAIN outcomes
    BY <1>0, <1>1 DEF AwaitInv, Memoized, Batch
  <2>2. ToSet(Batch.deps) = {Batch.deps[j] : j \in 1..Len(Batch.deps)}
    BY <1>0, <1>1, DepsSet DEF Batch
  <2>3. ToSet(Batch.deps) \subseteq DOMAIN outcomes
    BY <2>1, <2>2
  <2> QED
    BY <2>3 DEF Batch
<1>4. hist[Top.idx].ret \subseteq DOMAIN outcomes
  <2> SUFFICES ASSUME NEW m \in hist[Top.idx].ret, m \notin DOMAIN outcomes
               PROVE  FALSE
    OBVIOUS
  <2>1. PICK k \in 1..Len(stack) : stack[k].idx = Top.idx /\ stack[k].pc = "child"
    BY <1>0, <1>1 DEF AwaitInv, Memoized
  <2>2. k # Len(stack) => k < Len(stack)
    BY <1>1
  <2> QED
    BY <1>0, <1>1, <2>1, <2>2 DEF StackInv
<1> QED
  BY <1>0, <1>1, <1>2, <1>3, <1>4, ReceiptFacts DEF Order!Awaited

\* The dependencies' results are published and the receipt begins.
LEMMA OrderBegins ==
  ASSUME RInv, PublishResults
  PROVE  \E i \in Order!Receipts : Order!Begin(i)
<1>0. TInv /\ IInv /\ DepsDone
  BY DEF RInv, IInv, PublishResults
<1>1. /\ Running /\ stack # <<>> /\ Top.pc = "deps"
      /\ Top.dp = Len(Batch.deps) /\ hist[Top.idx].runs = 0
  BY <1>0, DepsDoneFacts
<1>2. /\ Top.idx \in 1..Len(dag) /\ Top.idx \notin DOMAIN outcomes
      /\ Order!Awaited(Top.idx)
  BY <1>1, TopAwaited
<1>3. /\ hist' = [hist EXCEPT ![Top.idx].runs = @ + 1]
      /\ UNCHANGED <<dag, outcomes, phase>>
  BY DEF PublishResults
<1>4. hist \in Seq(HistSet) /\ Len(hist) = Len(dag) /\ Len(dag) \in Nat
  BY <1>0, Types
<1>5. \A n \in 1..Len(dag) : hist[n] \in HistSet /\ n \in DOMAIN hist
  BY <1>4, ElementOfSeq, LenProperties
<1>6. /\ \A n \in 1..Len(dag) : /\ hist'[n].by = hist[n].by
                                /\ hist'[n].ret = hist[n].ret
                                /\ n # Top.idx => hist'[n].runs = hist[n].runs
      /\ hist'[Top.idx].runs = 1
  BY <1>1, <1>2, <1>3, <1>5 DEF HistSet
<1>7. ReceiptsOf' = ReceiptsOf
  BY <1>3, <1>6 DEF ReceiptsOf
<1>8. BegunOf' = BegunOf \cup {Top.idx} /\ Top.idx \notin BegunOf
  BY <1>1, <1>2, <1>3, <1>6 DEF BegunOf
<1>9. phase # "idle"
  BY <1>0, <1>1, RunningFacts
<1>10. Order!Begin(Top.idx)
  BY <1>2, <1>3, <1>7, <1>8, <1>9 DEF Order!Begin
<1> QED
  BY <1>0, <1>2, <1>10, ReceiptFacts

\* A batch returns: its receipt is done, having begun or not.
LEMMA OrderFinishes ==
  ASSUME RInv, ForcedFail \/ FinishBatch
  PROVE  \E i \in Order!Receipts : Order!Finish(i) \/ Order!Skip(i)
<1>0. TInv /\ IInv
  BY DEF RInv, IInv
<1>1. /\ Running /\ stack # <<>> /\ Top.pc \in {"deps", "act"}
      /\ Top.dp = Len(Batch.deps) /\ UNCHANGED <<dag, hist>>
      /\ \E res \in Seq(Nat) : Return(res)
  <2>1. CASE ForcedFail
    BY <2>1, DepsDoneFacts, EmptySeq DEF ForcedFail
  <2>2. CASE FinishBatch
    <3>1. /\ Running /\ Top.pc = "act" /\ UNCHANGED <<dag, hist>>
          /\ Return(Top.depRes) \/ Return(Top.out)
      BY <2>2 DEF FinishBatch
    <3>2. /\ stack # <<>> /\ Top \in Frames /\ Top = stack[Len(stack)]
          /\ Len(stack) \in 1..Len(stack)
      BY <1>0, <3>1, RunningFacts, TopFacts
    <3>3. Top.depRes \in Seq(Nat) /\ Top.out \in Seq(Nat)
      BY <3>2 DEF Frames
    <3>4. Top.dp = Len(Batch.deps)
      BY <3>1, <3>2 DEF RInv, AwaitInv, Batch
    <3> QED
      BY <3>1, <3>2, <3>3, <3>4
  <2> QED
    BY <2>1, <2>2
<1>2. /\ Top.idx \in 1..Len(dag) /\ Top.idx \notin DOMAIN outcomes
      /\ Order!Awaited(Top.idx)
  BY <1>1, TopAwaited
<1>3. /\ DOMAIN outcomes' = DOMAIN outcomes \cup {Top.idx}
      /\ phase' = phase \/ phase' = "drain"
  BY <1>0, <1>1, ReturnFacts
<1>4. phase # "idle"
  BY <1>0, <1>1, RunningFacts
<1>5. ReceiptsOf' = ReceiptsOf /\ BegunOf' = BegunOf
  BY <1>1 DEF ReceiptsOf, BegunOf
<1>6. Order!Finish(Top.idx) \/ Order!Skip(Top.idx)
  BY <1>2, <1>3, <1>4, <1>5 DEF Order!Finish, Order!Skip, Order!Runs
<1> QED
  BY <1>0, <1>2, <1>6, ReceiptFacts

\* A callee ends: its receipt awaits the promise it returned, if any.
LEMMA OrderAwaits ==
  ASSUME RInv, CallReturn \/ CallTrap
  PROVE  \/ UNCHANGED Order!ovars
         \/ \E i, r \in Order!Receipts : Order!Await(i, r)
<1>0. TInv /\ GuestInv /\ RunInv /\ StackInv
  BY DEF RInv, IInv
<1>1. PICK x : InCall /\ EndCall(x)
  BY DEF CallReturn, CallTrap
<1>2. /\ stack # <<>> /\ phase # "idle" /\ guest # NoGuest
      /\ stack[Len(stack)].pc = "call"
      /\ UNCHANGED <<dag, outcomes, phase>>
  BY <1>0, <1>1 DEF InCall, EndCall, TInv, ControlInv
<1>3. /\ Len(stack) \in 1..Len(stack) /\ Top = stack[Len(stack)]
      /\ Top.idx \in 1..Len(dag)
  BY <1>0, <1>2, TopFacts
<1>4. hist \in Seq(HistSet) /\ Len(hist) = Len(dag) /\ Len(dag) \in Nat
  BY <1>0, Types
<1>5. \A n \in 1..Len(dag) : hist[n] \in HistSet /\ n \in DOMAIN hist
  BY <1>4, ElementOfSeq, LenProperties
<1>6. hist' = [hist EXCEPT ![Top.idx].ret =
                 IF pending = 0 THEN @ ELSE @ \cup {pending}]
  BY <1>1 DEF EndCall
<1>7. CASE pending = 0
  <2>1. hist' = hist
    <3>1. hist' = [hist EXCEPT ![Top.idx].ret = hist[Top.idx].ret]
      BY <1>6, <1>7
    <3>2. [hist[Top.idx] EXCEPT !.ret = hist[Top.idx].ret] = hist[Top.idx]
      BY <1>3, <1>5 DEF HistSet
    <3>3. hist' = [hist EXCEPT ![Top.idx] = hist[Top.idx]]
      BY <3>1, <3>2
    <3> QED
      BY <1>3, <1>4, <3>3, LenProperties
  <2> QED
    BY <1>2, <2>1, QuietOrder
<1>8. CASE pending # 0
  <2>1. pending \in 1..Len(dag) /\ pending > guest.base
    <3>1. pending \in Nat /\ pending <= Len(dag)
      BY <1>0, <1>2, Types
    <3> QED
      BY <1>0, <1>2, <1>4, <1>8, <3>1 DEF GuestInv
  <2>2. hist[pending].by = Top.idx
    BY <1>0, <1>2, <1>3, <2>1 DEF GuestInv, Owner
  <2>3. Order!Runs(Top.idx)
    BY <1>0, <1>2, <1>3 DEF Order!Runs, BegunOf, RunInv, StackInv, Memoized
  <2>4. \A n \in 1..Len(dag) :
          /\ hist'[n].by = hist[n].by /\ hist'[n].runs = hist[n].runs
          /\ hist'[n].ret = IF n = Top.idx THEN hist[n].ret \cup {pending}
                            ELSE hist[n].ret
    BY <1>5, <1>6, <1>8 DEF HistSet
  <2>5. BegunOf' = BegunOf
    <3>1. BegunOf' = {n \in 1..Len(dag) : hist'[n].runs # 0}
      BY <1>2 DEF BegunOf
    <3>2. \A n \in 1..Len(dag) : hist'[n].runs # 0 <=> hist[n].runs # 0
      BY <2>4
    <3> QED
      BY ONLY <3>1, <3>2, Zenon DEF BegunOf
  <2>6. ReceiptsOf' = [ReceiptsOf EXCEPT ![Top.idx].awaits = @ \cup {pending}]
    <3> DEFINE P == ReceiptsOf'
               i == Top.idx
               Q == [ReceiptsOf EXCEPT ![i].awaits = @ \cup {pending}]
               N == 1..Len(dag)
    <3>1. P = [n \in N |-> P[n]] /\ Q = [n \in N |-> Q[n]]
      BY <1>2 DEF ReceiptsOf
    <3>2. ASSUME NEW n \in N PROVE P[n] = Q[n]
      <4>1. P[n] = [by |-> hist'[n].by, deps |-> ToSet(dag[n].deps),
                    awaits |-> hist'[n].ret]
        BY <1>2 DEF ReceiptsOf
      <4>2. ReceiptsOf[n] = [by |-> hist[n].by, deps |-> ToSet(dag[n].deps),
                             awaits |-> hist[n].ret]
        BY DEF ReceiptsOf
      <4>3. Q[n] = IF n = i THEN [ReceiptsOf[n] EXCEPT !.awaits = @ \cup {pending}]
                   ELSE ReceiptsOf[n]
        BY <1>3 DEF ReceiptsOf
      <4>4. CASE n = i
        <5>1. Q[n] = [by |-> hist[n].by, deps |-> ToSet(dag[n].deps),
                      awaits |-> hist[n].ret \cup {pending}]
          <6> HIDE DEF Q
          <6>1. PICK b, d, w : /\ b = hist[n].by /\ d = ToSet(dag[n].deps)
                               /\ w = hist[n].ret
            OBVIOUS
          <6>2. ReceiptsOf[n] = [by |-> b, deps |-> d, awaits |-> w]
            BY <4>2, <6>1, Zenon
          <6>3. PICK t, v : t = ReceiptsOf[n] /\ v = w \cup {pending}
            OBVIOUS
          <6>4. t = [by |-> b, deps |-> d, awaits |-> w]
            BY <6>2, <6>3
          <6>5. [t EXCEPT !.awaits = v] = [by |-> b, deps |-> d, awaits |-> v]
            BY <6>4
          <6>6. t.awaits = w
            BY <6>4
          <6>7. [ReceiptsOf[n] EXCEPT !.awaits = @ \cup {pending}]
                  = [by |-> b, deps |-> d, awaits |-> w \cup {pending}]
            BY <6>3, <6>5, <6>6, Zenon
          <6> QED
            BY <4>3, <4>4, <6>1, <6>7, Zenon
        <5>2. hist'[n].by = hist[n].by /\ hist'[n].ret = hist[n].ret \cup {pending}
          BY <2>4, <4>4
        <5> QED
          BY <4>1, <5>1, <5>2, Zenon
      <4>5. CASE n # i
        <5>1. hist'[n].by = hist[n].by /\ hist'[n].ret = hist[n].ret
          BY <2>4, <4>5
        <5>2. Q[n] = ReceiptsOf[n]
          BY <4>3, <4>5
        <5> QED
          BY <4>1, <4>2, <5>1, <5>2, Zenon
      <4> QED
        BY <4>4, <4>5
    <3> HIDE DEF P, Q
    <3>3. P = Q
      BY <3>1, <3>2
    <3> QED
      BY <3>3 DEF P, Q
  <2>7. Order!Receipts = 1..Len(dag) /\ ReceiptsOf[pending].by = Top.idx
    BY <1>0, <2>1, <2>2, ReceiptFacts
  <2>8. Order!Await(Top.idx, pending)
    BY <1>2, <2>3, <2>5, <2>6, <2>7 DEF Order!Await
  <2> QED
    BY <1>3, <2>1, <2>7, <2>8
<1> QED
  BY <1>7, <1>8

\* A transaction ends: it has no entry method, the entry trapped, or nothing is
\* left to drain.
LEMMA OrderEnds ==
  ASSUME RInv, NoMethod \/ EntryTrap \/ DrainDone
  PROVE  Order!End
<1>0. TInv /\ DrainInv /\ RunInv
  BY DEF RInv, IInv
<1>1. /\ UNCHANGED <<dag, hist, outcomes>> /\ phase' = "idle" /\ phase # "idle"
  BY DEF NoMethod, InStart, EntryTrap, DrainDone, engine
<1>2. ReceiptsOf' = ReceiptsOf /\ BegunOf' = BegunOf
  BY <1>1 DEF ReceiptsOf, BegunOf
<1>3. Len(stack) = 0
  BY <1>0, EmptySeq DEF NoMethod, InStart, EntryTrap, DrainDone, TInv, ControlInv
<1>4. CASE NoMethod \/ EntryTrap
  <2>1. DOMAIN outcomes = {}
    BY <1>0, <1>4, FrameTypes DEF NoMethod, InStart, EntryTrap, DrainInv
  <2>2. BegunOf = {}
    BY <1>0, <1>3, <2>1 DEF BegunOf, RunInv, Memoized
  <2> QED
    BY <1>1, <1>2, <2>1, <2>2 DEF Order!End
<1>5. CASE DrainDone
  <2>1. executed = 1..Len(dag)
    BY <1>0, <1>5, Types DEF DrainDone, Unexecuted
  <2>2. \A n \in executed : n \in DOMAIN outcomes
    BY <1>0, <1>3 DEF DrainInv, Memoized
  <2>3. DOMAIN outcomes = Order!Receipts
    BY <1>0, <2>1, <2>2, FrameTypes, ReceiptFacts
  <2> QED
    BY <1>1, <1>2, <2>3 DEF Order!End
<1> QED
  BY <1>4, <1>5

\* Every other step changes no receipt.
LEMMA OrderRests ==
  ASSUME TInv, \/ ExecutePromise \/ EntryBegins \/ EntryReturn \/ DrainNext
               \/ DoTransfer \/ DoStake \/ DoAddKey \/ DoDeleteKey
               \/ DoDeleteAccount \/ CallUnknown \/ CallStart \/ UNCHANGED vars
  PROVE  UNCHANGED Order!ovars
<1>1. /\ UNCHANGED <<dag, hist, outcomes>>
      /\ phase' = phase \/ (phase # "idle" /\ phase' # "idle")
  BY DEF ExecutePromise, EntryBegins, EntryReturn, DrainNext, DoTransfer,
         DoStake, DoAddKey, DoDeleteKey, DoDeleteAccount, ActionOnly, CallUnknown, CallStart,
         engine, vars
<1> QED
  BY <1>1, QuietOrder

\* The engine keeps what is promised of receipts, for every instance whose
\* modules all instantiate: whatever the nesting of execute_promise, the memo
\* and the drain, each receipt begins once, after its creator has begun and its
\* dependencies are done, is done after what it returned, and a transaction
\* whose entry ran and did not trap ends with every receipt done.
THEOREM EngineKeepsOrder ==
  ASSUME Broken = {}
  PROVE  Spec => OrderSpec
<1>1. Init => RInv
  BY ResultsInit
<1>2. RInv /\ [Next]_vars => RInv'
  BY ResultsStep
<1>3. Init => Order!Init
  <2> SUFFICES ASSUME Init PROVE Order!Init
    OBVIOUS
  <2>1. dag = <<>> /\ outcomes = <<>> /\ phase = "idle" /\ Len(<<>>) = 0
        /\ DOMAIN <<>> = {}
    BY EmptySeq DEF Init
  <2>2. ReceiptsOf = <<>> /\ BegunOf = {}
    BY <2>1 DEF ReceiptsOf, BegunOf
  <2> QED
    BY <2>1, <2>2 DEF Order!Init
<1>4. RInv /\ RInv' /\ [Next]_vars => [Order!Next]_(Order!ovars)
  <2> SUFFICES ASSUME RInv, RInv', [Next]_vars
               PROVE  Order!Next \/ UNCHANGED Order!ovars
    OBVIOUS
  <2>0. TInv /\ TInv'
    BY DEF RInv, IInv
  <2>1. CASE execute_tx
    BY <2>0, <2>1, OrderStarts DEF Order!Next
  <2>2. CASE GuestStep
    BY <2>0, <2>2, OrderGuest DEF Order!Next
  <2>3. CASE CallReturn \/ CallTrap
    BY <2>3, OrderAwaits DEF Order!Next
  <2>4. CASE NoMethod \/ EntryTrap \/ DrainDone
    BY <2>4, OrderEnds DEF Order!Next
  <2>5. CASE PublishResults
    BY <2>5, OrderBegins DEF Order!Next
  <2>6. CASE ForcedFail \/ FinishBatch
    BY <2>6, OrderFinishes DEF Order!Next
  <2>7. ~CallError
    BY DEF CallError
  <2> QED
    BY <2>0, <2>1, <2>2, <2>3, <2>4, <2>5, <2>6, <2>7, OrderRests
       DEF Next, GuestEnd, EngineStep
<1> QED
  BY <1>1, <1>2, <1>3, <1>4, PTL DEF Spec, OrderSpec, Order!Spec

=============================================================================
