----------------------- MODULE DeferredReceipts_proof -----------------------
(***************************************************************************)
(* fire_deferred() and settle() lose no receipt and deliver all they       *)
(* loaded, for every set of accounts, contracts and amounts, every bound   *)
(* and every order of plain transactions, deferred ones and settles.       *)
(***************************************************************************)
EXTENDS DeferredReceipts, EngineResults_proof, EngineStorage_proof

-----------------------------------------------------------------------------
(* The inductive invariant *)

\* The records of RECEIPT_QUEUE.
Receipts == [batch : Batches, origin : OriginSet]

\* Types, and what the queue refers to: itself, once loaded.
QueueInv ==
  /\ queue \in Seq(Receipts)
  /\ \A i \in 1..Len(queue) : \A k \in 1..Len(queue[i].batch.deps) :
       queue[i].batch.deps[k] \in 1..Len(queue)
  /\ defer \in BOOLEAN /\ ndef \in 0..MaxDeferred
  /\ origin \in Seq(OriginSet)
  /\ owed \subseteq OriginSet /\ delivered \subseteq owed

\* While settle() runs the queue is empty and what is not delivered yet was
\* loaded; an origin names a transaction that has run, and one that is running
\* has queued nothing yet.
OwedInv ==
  /\ phase = "settle" => queue = <<>> /\ owed = delivered \cup ToSet(origin)
  /\ NothingLost
  /\ \A o \in owed : o.tx <= ntx /\ (phase = "entry" => o.tx < ntx)

QTInv == TInv /\ (phase = "entry" => executed = {}) /\ QueueInv /\ OwedInv

-----------------------------------------------------------------------------
(* The steps *)

\* A step of the composition is a step of the engine or one of its own.
LEMMA StepKinds ==
  ASSUME [DNext]_allvars
  PROVE  \/ [Next]_vars /\ UNCHANGED <<queue, owed, delivered>>
         \/ QueueReceipts \/ Settle \/ SettleNext \/ SettleDone
BY DEF DNext, allvars, dvars, Fire, EntryEnd, DeferredStep, Next, GuestEnd

\* What an engine step does to the phase and to the transaction counter.
LEMMA EngineMoves ==
  ASSUME TInv, phase = "entry" => executed = {}, [Next]_vars
  PROVE  /\ phase' = "entry" => executed' = {}
         /\ ntx' = ntx \/ (ntx' = ntx + 1 /\ phase # "settle")
         /\ phase' = "entry" => phase = "entry" \/ ntx' = ntx + 1
         /\ phase' = "settle" <=> phase = "settle"
<1>0. phase = "entry" => guest # NoGuest /\ stack = <<>>
  BY DEF TInv, ControlInv
<1>1. CASE UNCHANGED vars
  BY <1>1 DEF vars, engine
<1>2. CASE execute_tx
  BY <1>2 DEF execute_tx, StartTx, StartTxError, StartTxUnknown, fresh_tx_state
<1>3. CASE GuestStep
  BY <1>3 DEF GuestStep, StorageWrite, promise_create, promise_then,
              promise_and, promise_batch_create, promise_batch_then,
              promise_batch_action, promise_return, PromisesOnly, engine
<1>4. CASE GuestEnd
  BY <1>4 DEF GuestEnd, CallReturn, CallTrap, EndCall, InCall, EntryBegins,
              NoMethod, InStart, EntryReturn, EntryTrap, engine
<1>5. CASE EngineStep
  <2>1. phase # "entry" /\ ntx' = ntx
    BY <1>0, <1>5
       DEF EngineStep, ExecutePromise, ForcedFail, PublishResults, FinishBatch,
           DoTransfer, DoStake, DoAddKey, DoDeleteKey, DoDeleteAccount,
           CallUnknown, CallStart, CallError, DrainNext, DrainDone, DepsDone,
           AtCall, ActionsLeft, Running, ActionOnly
  <2>2. \/ phase' = phase
        \/ phase = "root" /\ phase' = "drain"
        \/ phase = "drain" /\ phase' = "idle"
    BY <1>5
       DEF EngineStep, ExecutePromise, ForcedFail, PublishResults, FinishBatch,
           DoTransfer, DoStake, DoAddKey, DoDeleteKey, DoDeleteAccount,
           CallUnknown, CallStart, CallError, DrainNext, DrainDone, Return,
           ActionOnly
  <2> QED
    BY <2>1, <2>2
<1> QED
  BY <1>1, <1>2, <1>3, <1>4, <1>5 DEF Next

\* What is queued, in the words of SequencesExt.
LEMMA OriginsFacts ==
  ASSUME NEW q \in Seq(Receipts)
  PROVE  /\ Origins(q) \in Seq(OriginSet) /\ Len(Origins(q)) = Len(q)
         /\ DOMAIN Origins(q) = 1..Len(q)
         /\ \A i \in 1..Len(q) : Origins(q)[i] = q[i].origin
         /\ ToSet(Origins(q)) = {q[i].origin : i \in 1..Len(q)}
         /\ ToSet(Origins(q)) \subseteq OriginSet
<1>1. Len(q) \in Nat
  BY LenProperties
<1>2. ASSUME NEW i \in 1..Len(q)
      PROVE  q[i].origin \in OriginSet
  <2>1. q[i] \in Receipts
    BY ElementOfSeq
  <2> QED
    BY <2>1 DEF Receipts
<1>3. Origins(q) \in [1..Len(q) -> OriginSet]
  BY <1>2 DEF Origins
<1>4. Origins(q) \in Seq(OriginSet)
  <2>1. [1..Len(q) -> OriginSet] \subseteq Seq(OriginSet)
    BY <1>1, SeqDef
  <2> QED
    BY <1>3, <2>1
<1>5. /\ DOMAIN Origins(q) = 1..Len(q)
      /\ \A i \in 1..Len(q) : Origins(q)[i] = q[i].origin
  BY DEF Origins
<1>6. Len(Origins(q)) = Len(q)
  <2>1. /\ DOMAIN Origins(q) = 1..Len(Origins(q)) /\ Len(Origins(q)) \in Nat
    BY <1>4, LenProperties
  <2> QED
    BY <1>1, <1>5, <2>1
<1>7. ToSet(Origins(q)) = {q[i].origin : i \in 1..Len(q)}
  BY <1>5 DEF ToSet
<1> QED
  BY <1>2, <1>4, <1>5, <1>6, <1>7

\* fire_deferred() queues the DAG of its transaction.
LEMMA QueueReceiptsStep ==
  ASSUME QTInv, QueueReceipts
  PROVE  QTInv'
<1> DEFINE N == Len(dag)
           M == Len(queue)
           o(i) == [tx |-> ntx, pos |-> i, deps |-> dag[i].deps]
           b == [i \in 1..N |-> [batch |-> dag[i], origin |-> o(i)]]
<1>0. /\ TInv /\ QueueInv /\ OwedInv /\ phase = "entry" /\ executed = {}
      /\ stack = <<>>
  BY DEF QTInv, QueueReceipts, TInv, ControlInv
<1>1. /\ queue' = queue \o b /\ owed' = owed \cup ToSet(Origins(b))
      /\ defer' = FALSE /\ dag' = <<>> /\ hist' = <<>> /\ pending' = 0
      /\ guest' = NoGuest /\ tx' = [tx EXCEPT !.ok = TRUE] /\ phase' = "idle"
      /\ UNCHANGED <<executed, outcomes, consumed, results, store, stack, ntx,
                     ndef, origin, delivered>>
  BY DEF QueueReceipts, Enqueue
<1>2. /\ N \in Nat /\ M \in Nat /\ ntx \in Nat
      /\ queue \in Seq(Receipts)
      /\ \A i \in 1..N : dag[i] \in Batches /\ dag[i].deps \in Seq(Nat)
  <2>1. ASSUME NEW i \in 1..N PROVE dag[i] \in Batches
    BY <1>0, Types, ElementOfSeq
  <2>2. ASSUME NEW i \in 1..N PROVE dag[i].deps \in Seq(Nat)
    BY <2>1 DEF Batches
  <2> QED
    BY <1>0, <2>1, <2>2, Types, LenProperties DEF QueueInv, TInv, TypeOK
<1>3. \A i \in 1..N : o(i) \in OriginSet
  BY <1>2 DEF OriginSet
<1>4. b \in Seq(Receipts) /\ Len(b) = N
  <2>1. b \in [1..N -> Receipts]
    BY <1>2, <1>3 DEF Receipts
  <2>2. [1..N -> Receipts] \subseteq Seq(Receipts)
    BY <1>2, SeqDef
  <2>3. b \in Seq(Receipts) /\ DOMAIN b = 1..N
    BY <2>1, <2>2
  <2> HIDE DEF b
  <2>4. DOMAIN b = 1..Len(b) /\ Len(b) \in Nat
    BY <2>3, LenProperties
  <2> HIDE DEF N
  <2> QED
    BY <1>2, <2>3, <2>4
<1>5. \A i \in 1..N : b[i].batch = dag[i] /\ b[i].origin = o(i)
  OBVIOUS
<1>6. \A i \in 1..N : o(i).tx = ntx /\ o(i).pos = i
  OBVIOUS
<1> HIDE DEF b, o, N, M
<1>7. /\ queue' \in Seq(Receipts) /\ Len(queue') = M + N
      /\ \A i \in 1..M : queue'[i] = queue[i]
      /\ \A i \in 1..N : queue'[M + i] = b[i]
  <2>1. /\ queue' \in Seq(Receipts) /\ Len(queue') = M + N
        /\ \A i \in 1..(M + N) :
             queue'[i] = IF i <= M THEN queue[i] ELSE b[i - M]
    BY <1>1, <1>2, <1>4, ConcatProperties DEF M
  <2>2. /\ \A i \in 1..M : i \in 1..(M + N) /\ i <= M
        /\ \A i \in 1..N : /\ M + i \in 1..(M + N) /\ ~(M + i <= M)
                           /\ (M + i) - M = i
    BY <1>2
  <2> QED
    BY <2>1, <2>2
<1>8. \A i \in 1..(M + N) :
        i \in 1..M \/ (i \notin 1..M /\ i - M \in 1..N /\ M + (i - M) = i)
  BY <1>2
<1>9. /\ \A i \in 1..M : i \in 1..(M + N)
      /\ \A i \in 1..N : M + i \in 1..(M + N) /\ i \in 1..(M + N)
  BY <1>2
<1>10. /\ ToSet(Origins(b)) = {o(i) : i \in 1..N}
       /\ ToSet(Origins(queue)) = {queue[i].origin : i \in 1..M}
       /\ ToSet(Origins(queue')) = {queue'[i].origin : i \in 1..(M + N)}
       /\ DOMAIN Origins(queue') = 1..(M + N)
       /\ \A i \in 1..(M + N) : Origins(queue')[i] = queue'[i].origin
       /\ DOMAIN Origins(queue) = 1..M
       /\ \A i \in 1..M : Origins(queue)[i] = queue[i].origin
  <2>1. ToSet(Origins(b)) = {o(i) : i \in 1..N}
    <3>1. ToSet(Origins(b)) = {b[i].origin : i \in 1..N}
      BY <1>4, OriginsFacts
    <3> QED
      BY <1>5, <3>1
  <2>2. /\ ToSet(Origins(queue)) = {queue[i].origin : i \in 1..M}
        /\ DOMAIN Origins(queue) = 1..M
        /\ \A i \in 1..M : Origins(queue)[i] = queue[i].origin
    BY <1>2, OriginsFacts DEF M
  <2>3. /\ ToSet(Origins(queue')) = {queue'[i].origin : i \in 1..(M + N)}
        /\ DOMAIN Origins(queue') = 1..(M + N)
        /\ \A i \in 1..(M + N) : Origins(queue')[i] = queue'[i].origin
    BY <1>7, OriginsFacts
  <2> QED
    BY <2>1, <2>2, <2>3
<1>11. TInv'
  <2>1. \A S : <<>> \in Seq(S) /\ Len(<<>>) = 0
    BY EmptySeq
  <2>2. tx' \in TxSet
    BY <1>0, <1>1, Types DEF TxSet
  <2>3. TypeOK'
    <3>1. Len(stack) = 0
      BY <1>0, EmptySeq
    <3>2. TypeOK
      BY <1>0 DEF TInv
    <3> QED
      BY <1>0, <1>1, <2>1, <2>2, <3>1, <3>2, NoGuestType DEF TypeOK, TxSet
  <2>4. ControlInv' /\ RefInv'
    BY <1>0, <1>1, <2>1 DEF ControlInv, RefInv
  <2> QED
    BY <2>3, <2>4 DEF TInv
<1>12. QueueInv'
  <2>1. ASSUME NEW i \in 1..(M + N), NEW k \in 1..Len(queue'[i].batch.deps)
        PROVE  queue'[i].batch.deps[k] \in 1..(M + N)
    <3>1. CASE i \in 1..M
      <4>1. queue[i].batch.deps[k] \in 1..M
        BY <1>0, <1>7, <3>1 DEF QueueInv, M
      <4> QED
        BY <1>7, <1>9, <3>1, <4>1
    <3>2. CASE i \notin 1..M
      <4> DEFINE j == i - M
      <4>1. j \in 1..N /\ M + j = i
        BY <1>8, <3>2
      <4> HIDE DEF j
      <4>2. queue'[i].batch = dag[j]
        BY <1>5, <1>7, <4>1
      <4>3. dag[j].deps[k] \in 1..N
        BY <1>0, <4>1, <4>2 DEF TInv, RefInv, N
      <4> QED
        BY <1>9, <4>2, <4>3
    <3> QED
      BY <3>1, <3>2
  <2>2. ToSet(Origins(b)) \subseteq OriginSet
    BY <1>4, OriginsFacts
  <2> QED
    BY <1>0, <1>1, <1>7, <2>1, <2>2 DEF QueueInv
<1>13. ASSUME NEW i \in 1..N
       PROVE  o(i) \notin owed
  BY <1>0, <1>2, <1>6 DEF OwedInv
<1>14. NothingLost'
  <2>0. /\ owed = delivered \cup ToSet(Origins(queue))
        /\ delivered \cap ToSet(Origins(queue)) = {}
        /\ IsInjective(Origins(queue))
    BY <1>0 DEF OwedInv, NothingLost
  <2>1. ToSet(Origins(queue')) = ToSet(Origins(queue)) \cup ToSet(Origins(b))
    <3>1. ASSUME NEW i \in 1..(M + N)
          PROVE  queue'[i].origin \in ToSet(Origins(queue)) \cup ToSet(Origins(b))
      <4>1. CASE i \in 1..M
        BY <1>7, <1>10, <4>1
      <4>2. CASE i \notin 1..M
        <5> DEFINE j == i - M
        <5>1. j \in 1..N /\ M + j = i
          BY <1>8, <4>2
        <5> HIDE DEF j
        <5>2. queue'[i].origin = o(j)
          BY <1>5, <1>7, <5>1
        <5> QED
          BY <1>10, <5>1, <5>2
      <4> QED
        BY <4>1, <4>2
    <3>2. ASSUME NEW i \in 1..M
          PROVE  queue[i].origin \in ToSet(Origins(queue'))
      BY <1>7, <1>9, <1>10
    <3>3. ASSUME NEW i \in 1..N
          PROVE  o(i) \in ToSet(Origins(queue'))
      BY <1>5, <1>7, <1>9, <1>10
    <3> QED
      BY <1>10, <3>1, <3>2, <3>3
  <2>2. ToSet(Origins(b)) \cap owed = {}
    BY <1>10, <1>13
  <2>3. ASSUME NEW i \in 1..(M + N), NEW j \in 1..(M + N),
               queue'[i].origin = queue'[j].origin
        PROVE  i = j
    <3>1. ASSUME NEW x \in 1..(M + N)
          PROVE  \/ /\ x \in 1..M /\ queue'[x].origin = Origins(queue)[x]
                    /\ queue'[x].origin \in owed
                 \/ /\ x - M \in 1..N /\ queue'[x].origin = o(x - M)
                    /\ queue'[x].origin \notin owed
                    /\ queue'[x].origin.pos = x - M
      <4>1. CASE x \in 1..M
        BY <1>7, <1>10, <2>0, <4>1
      <4>2. CASE x \notin 1..M
        <5> DEFINE y == x - M
        <5>1. y \in 1..N /\ M + y = x
          BY <1>8, <4>2
        <5> HIDE DEF y
        <5>2. queue'[x].origin = o(y)
          BY <1>5, <1>7, <5>1
        <5>3. o(y) \notin owed /\ o(y).pos = y
          BY <1>6, <1>13, <5>1
        <5> QED
          BY <5>1, <5>2, <5>3 DEF y
      <4> QED
        BY <4>1, <4>2
    <3>2. CASE queue'[i].origin \in owed
      <4>1. i \in 1..M /\ j \in 1..M /\ Origins(queue)[i] = Origins(queue)[j]
        BY <2>3, <3>1, <3>2
      <4> QED
        BY <1>10, <2>0, <4>1 DEF IsInjective
    <3>3. CASE queue'[i].origin \notin owed
      <4>1. i - M = j - M
        BY <2>3, <3>1, <3>3
      <4> QED
        BY <1>2, <4>1
    <3> QED
      BY <3>2, <3>3
  <2>4. IsInjective(Origins(queue'))
    BY <1>10, <2>3 DEF IsInjective
  <2> QED
    BY <1>1, <2>0, <2>1, <2>2, <2>4 DEF NothingLost
<1>15. OwedInv'
  <2>1. ASSUME NEW x \in owed' PROVE x.tx <= ntx
    <3>1. CASE x \in owed
      BY <1>0, <3>1 DEF OwedInv
    <3>2. CASE x \notin owed
      <4>1. PICK i \in 1..N : x = o(i)
        BY <1>1, <1>10, <3>2
      <4> QED
        BY <1>2, <1>6, <4>1
    <3> QED
      BY <3>1, <3>2
  <2> QED
    BY <1>1, <1>14, <2>1 DEF OwedInv
<1> QED
  BY <1>1, <1>11, <1>12, <1>15 DEF QTInv

\* settle() loads the queue: every batch keeps its dependencies, for a batch
\* is put where it was in the queue.
LEMMA SettleLoads ==
  ASSUME QueueInv, Settle
  PROVE  /\ dag' \in Seq(Batches) /\ Len(dag') = Len(queue)
         /\ \A i \in 1..Len(queue) : dag'[i] = queue[i].batch
<1> DEFINE M == Len(queue)
<1>1. queue \in Seq(Receipts) /\ M \in Nat
  BY LenProperties DEF QueueInv
<1>2. ASSUME NEW i \in 1..M
      PROVE  LET q == queue[i].batch
             IN  /\ q \in Batches
                 /\ [q EXCEPT !.deps =
                       [k \in 1..Len(q.deps) |-> Remap(queue)[q.deps[k]]]] = q
  <2> DEFINE q == queue[i].batch
             d == [k \in 1..Len(q.deps) |-> Remap(queue)[q.deps[k]]]
  <2>1. queue[i] \in Receipts
    BY <1>1, ElementOfSeq
  <2>2. q \in Batches
    BY <2>1 DEF Receipts
  <2>3. q.deps \in Seq(Nat)
    BY <2>2 DEF Batches
  <2>4. ASSUME NEW k \in 1..Len(q.deps)
        PROVE  Remap(queue)[q.deps[k]] = q.deps[k]
    <3>1. q.deps[k] \in 1..Len(queue)
      BY DEF QueueInv
    <3> QED
      BY <3>1 DEF Remap
  <2>5. q.deps = [k \in 1..Len(q.deps) |-> q.deps[k]]
    BY <2>3
  <2>6. d = q.deps
    BY <2>4, <2>5
  <2>7. [q EXCEPT !.deps = q.deps] = q
    BY <2>2 DEF Batches
  <2> HIDE DEF q, d
  <2>8. [q EXCEPT !.deps = d] = q
    BY <2>6, <2>7
  <2> QED
    BY <2>2, <2>8 DEF d, q
<1>3. dag' = [i \in 1..M |-> queue[i].batch]
  <2>1. dag' = [i \in 1..M |->
                  [queue[i].batch EXCEPT !.deps =
                     [k \in 1..Len(queue[i].batch.deps) |->
                        Remap(queue)[queue[i].batch.deps[k]]]]]
    BY DEF Settle
  <2> QED
    BY <1>2, <2>1
<1>4. dag' \in [1..M -> Batches] /\ DOMAIN dag' = 1..M
  BY <1>2, <1>3
<1>5. dag' \in Seq(Batches)
  <2>1. [1..M -> Batches] \subseteq Seq(Batches)
    BY <1>1, SeqDef
  <2> QED
    BY <1>4, <2>1
<1>6. Len(dag') = M
  <2>1. DOMAIN dag' = 1..Len(dag') /\ Len(dag') \in Nat
    BY <1>5, LenProperties
  <2> HIDE DEF M
  <2> QED
    BY <1>1, <1>4, <2>1
<1> QED
  BY <1>3, <1>5, <1>6

\* The history settle() starts from.
LEMMA SettleHist ==
  ASSUME TInv, QueueInv, Settle
  PROVE  /\ hist' \in Seq(HistSet) /\ Len(hist') = Len(queue)
         /\ \A i \in 1..Len(queue) :
              hist'[i].by = 0 /\ hist'[i].runs = 0 /\ hist'[i].ret = {}
<1> DEFINE M == Len(queue)
<1>1. M \in Nat /\ phase = "idle"
  BY LenProperties DEF QueueInv, Settle
<1>2. stack = <<>>
  BY <1>1 DEF TInv, ControlInv
<1>3. /\ NewHist \in HistSet /\ NewHist.by = 0 /\ NewHist.runs = 0
      /\ NewHist.ret = {}
  BY <1>2, NewHistType DEF Owner
<1>4. hist' = [i \in 1..M |-> NewHist]
  BY DEF Settle
<1>5. hist' \in [1..M -> HistSet] /\ DOMAIN hist' = 1..M
  BY <1>3, <1>4
<1>6. hist' \in Seq(HistSet)
  <2>1. [1..M -> HistSet] \subseteq Seq(HistSet)
    BY <1>1, SeqDef
  <2> QED
    BY <1>5, <2>1
<1>7. Len(hist') = M
  <2>1. DOMAIN hist' = 1..Len(hist') /\ Len(hist') \in Nat
    BY <1>6, LenProperties
  <2> HIDE DEF M
  <2> QED
    BY <1>1, <1>5, <2>1
<1> QED
  BY <1>3, <1>4, <1>6, <1>7

\* settle() begins.
LEMMA SettleStep ==
  ASSUME QTInv, Settle
  PROVE  QTInv'
<1>0. TInv /\ QueueInv /\ OwedInv
  BY DEF QTInv
<1>1. /\ phase = "idle" /\ executed' = {} /\ consumed' = {} /\ outcomes' = <<>>
      /\ origin' = Origins(queue) /\ queue' = <<>> /\ phase' = "settle"
      /\ UNCHANGED <<results, pending, store, stack, guest, tx, ntx, defer,
                     ndef, owed, delivered>>
  BY DEF Settle
<1>2. stack = <<>> /\ guest = NoGuest /\ Len(stack) = 0
  BY <1>0, <1>1, EmptySeq DEF TInv, ControlInv
<1>3. /\ dag' \in Seq(Batches) /\ Len(dag') = Len(queue)
      /\ \A i \in 1..Len(queue) : dag'[i] = queue[i].batch
      /\ hist' \in Seq(HistSet) /\ Len(hist') = Len(queue)
  BY <1>0, SettleLoads, SettleHist
<1>4. \A S : <<>> \in Seq(S) /\ Len(<<>>) = 0 /\ DOMAIN <<>> = {}
  BY EmptySeq
<1>5. TInv'
  <2>1. TypeOK
    BY <1>0 DEF TInv
  <2>2. TypeOK'
    BY <1>1, <1>2, <1>3, <1>4, <2>1 DEF TypeOK, HistSet
  <2>3. ControlInv'
    BY <1>1, <1>2 DEF ControlInv
  <2>4. RefInv'
    <3>1. \A i \in 1..Len(queue) : \A k \in 1..Len(queue[i].batch.deps) :
            queue[i].batch.deps[k] \in 1..Len(queue)
      BY <1>0 DEF QueueInv
    <3>2. Len(stack') = 0
      BY <1>1, <1>2
    <3> QED
      BY <1>3, <3>1, <3>2 DEF RefInv
  <2> QED
    BY <2>2, <2>3, <2>4 DEF TInv
<1>6. QueueInv'
  <2>1. queue \in Seq(Receipts)
    BY <1>0 DEF QueueInv
  <2>2. Origins(queue) \in Seq(OriginSet)
    BY <2>1, OriginsFacts
  <2> QED
    BY <1>0, <1>1, <1>4, <2>2 DEF QueueInv
<1>7. OwedInv'
  BY <1>0, <1>1 DEF OwedInv, NothingLost
<1> QED
  BY <1>1, <1>5, <1>6, <1>7 DEF QTInv

\* settle() delivers the next batch.
LEMMA SettleNextStep ==
  ASSUME QTInv, SettleNext
  PROVE  QTInv'
<1> DEFINE c == Min(Ready)
<1>0. TInv /\ QueueInv /\ OwedInv
  BY DEF QTInv
<1>1. /\ phase = "settle" /\ stack = <<>> /\ Ready # {}
      /\ executed' = executed \cup {c}
      /\ stack' = IF Memoized(c) THEN <<>> ELSE <<NewFrame(c)>>
      /\ UNCHANGED <<dag, outcomes, consumed, results, pending, store, guest,
                     phase, tx, ntx, hist, queue, defer, ndef, origin, owed,
                     delivered>>
  BY DEF SettleNext, dvars
<1>2. c \in 1..Len(dag)
  <2>1. Ready \subseteq Nat
    BY DEF Ready, Unexecuted
  <2> QED
    BY <1>1, <2>1, MinIn DEF Ready, Unexecuted
<1> HIDE DEF c
<1>3. TInv'
  <2>1. executed' \in SUBSET (1..Len(dag)) /\ DOMAIN outcomes' \subseteq executed'
    BY <1>0, <1>1, <1>2, Types
  <2>2. StackOK(stack', executed', Len(dag))
    <3>1. StackOK(<<>>, executed', Len(dag))
      BY <1>0, <1>1, Types, StackGrows
    <3> QED
      BY <1>0, <1>1, <1>2, <3>1, BottomFrame
  <2>3. guest = NoGuest
    BY <1>0, <1>1 DEF TInv, ControlInv
  <2>4. ControlInv'
    BY <1>1, <2>3 DEF ControlInv
  <2> QED
    BY <1>0, <1>1, <2>1, <2>2, <2>4, Types, ControlStepType
<1>4. QueueInv' /\ OwedInv'
  BY <1>0, <1>1 DEF QueueInv, OwedInv, NothingLost
<1> QED
  BY <1>1, <1>3, <1>4 DEF QTInv

\* settle() returns.
LEMMA SettleDoneStep ==
  ASSUME QTInv, SettleDone
  PROVE  QTInv'
<1>0. TInv /\ QueueInv /\ OwedInv
  BY DEF QTInv
<1>1. /\ phase = "settle" /\ stack = <<>> /\ phase' = "idle"
      /\ delivered' = delivered \cup ToSet(origin)
      /\ UNCHANGED <<dag, executed, outcomes, consumed, results, pending, store,
                     stack, guest, tx, ntx, hist, queue, defer, ndef, origin,
                     owed>>
  BY DEF SettleDone, engine
<1>2. TInv'
  <2>1. guest = NoGuest
    BY <1>0, <1>1 DEF TInv, ControlInv
  <2>2. ControlInv'
    BY <1>1, <2>1 DEF ControlInv
  <2> QED
    BY <1>0, <1>1, <2>2, Types, ControlStepType
<1>3. delivered' = owed /\ queue = <<>>
  BY <1>0, <1>1 DEF OwedInv
<1>4. QueueInv'
  BY <1>0, <1>1, <1>3 DEF QueueInv
<1>5. OwedInv'
  <2>1. ToSet(Origins(<<>>)) = {} /\ DOMAIN Origins(<<>>) = {}
    <3>1. <<>> \in Seq(Receipts) /\ Len(<<>>) = 0
      BY EmptySeq
    <3>2. DOMAIN Origins(<<>>) = 1..0
      BY <3>1 DEF Origins
    <3> QED
      BY <3>2 DEF ToSet
  <2> QED
    BY <1>0, <1>1, <1>3, <2>1 DEF OwedInv, NothingLost, IsInjective
<1> QED
  BY <1>1, <1>2, <1>4, <1>5 DEF QTInv

\* Every step keeps the types and loses nothing.
LEMMA QueueStep ==
  ASSUME QTInv, [DNext]_allvars
  PROVE  QTInv'
<1>0. TInv /\ QueueInv /\ OwedInv /\ (phase = "entry" => executed = {})
  BY DEF QTInv
<1>1. CASE [Next]_vars /\ UNCHANGED <<queue, owed, delivered>>
           /\ ~(QueueReceipts \/ Settle \/ SettleNext \/ SettleDone)
  <2>1. TInv' /\ (phase' = "entry" => executed' = {})
    BY <1>0, <1>1, TypeStep, EngineMoves
  <2>2. /\ defer' \in BOOLEAN /\ ndef' \in 0..MaxDeferred
        /\ origin' = origin \/ (origin' = <<>> /\ execute_tx)
    <3>1. defer \in BOOLEAN /\ ndef \in 0..MaxDeferred
      BY <1>0 DEF QueueInv
    <3>2. CASE \E deferred \in BOOLEAN : Fire(deferred)
      BY <3>1, <3>2, DeferredAssumption DEF Fire
    <3>3. CASE UNCHANGED dvars
      BY <3>1, <3>3 DEF dvars
    <3> QED
      BY <1>1, <3>2, <3>3 DEF DNext, EntryEnd, DeferredStep, allvars
  <2>3. <<>> \in Seq(OriginSet)
    BY EmptySeq
  <2>4. QueueInv'
    BY <1>0, <1>1, <2>2, <2>3 DEF QueueInv
  <2>5. /\ ntx' = ntx \/ (ntx' = ntx + 1 /\ phase # "settle")
        /\ phase' = "entry" => phase = "entry" \/ ntx' = ntx + 1
        /\ phase' = "settle" <=> phase = "settle"
    BY <1>0, <1>1, EngineMoves
  <2>6. phase' = "settle" => origin' = origin
    BY <2>2, <2>5
       DEF execute_tx, StartTx, StartTxError, StartTxUnknown
  <2>7. ASSUME NEW o \in owed
        PROVE  o.tx <= ntx' /\ (phase' = "entry" => o.tx < ntx')
    <3>1. o.tx \in Nat /\ ntx \in Nat
      BY <1>0 DEF QueueInv, OriginSet, TInv, TypeOK
    <3>2. o.tx <= ntx /\ (phase = "entry" => o.tx < ntx)
      BY <1>0 DEF OwedInv
    <3> QED
      BY <2>5, <3>1, <3>2
  <2>8. OwedInv'
    BY <1>0, <1>1, <2>5, <2>6, <2>7 DEF OwedInv, NothingLost
  <2> QED
    BY <2>1, <2>4, <2>8 DEF QTInv
<1> QED
  BY <1>1, StepKinds, QueueReceiptsStep, SettleStep, SettleNextStep,
     SettleDoneStep

\* The invariant holds initially.
LEMMA QueueInit ==
  ASSUME DInit
  PROVE  QTInv
<1>1. /\ TInv /\ executed = {} /\ phase = "idle" /\ ntx = 0
      /\ queue = <<>> /\ defer = FALSE /\ ndef = 0
      /\ origin = <<>> /\ owed = {} /\ delivered = {}
  BY TypeInit DEF DInit, Init
<1>2. \A S : <<>> \in Seq(S) /\ Len(<<>>) = 0
  BY EmptySeq
<1>3. QueueInv
  <2>1. ndef \in 0..MaxDeferred
    BY <1>1, DeferredAssumption
  <2>2. defer \in BOOLEAN
    BY <1>1
  <2>3. /\ queue \in Seq(Receipts) /\ origin \in Seq(OriginSet)
        /\ Len(queue) = 0 /\ owed \subseteq OriginSet /\ delivered \subseteq owed
    BY <1>1, <1>2
  <2> QED
    BY <2>1, <2>2, <2>3 DEF QueueInv
<1>4. DOMAIN Origins(<<>>) = {} /\ ToSet(Origins(<<>>)) = {}
  BY <1>2 DEF Origins, ToSet
<1>5. OwedInv
  BY <1>1, <1>4 DEF OwedInv, NothingLost, IsInjective
<1> QED
  BY <1>1, <1>3, <1>5 DEF QTInv

\* The queue, the flag and the engine under them keep their types, whatever is
\* fired, deferred and settled in whatever order.
THEOREM DeferredTypeCorrect == DSpec => []DTypeOK
<1>1. DInit => QTInv
  BY QueueInit
<1>2. QTInv /\ [DNext]_allvars => QTInv'
  BY QueueStep
<1>3. QTInv => DTypeOK
  BY DEF QTInv, TInv, QueueInv, DTypeOK, Receipts
<1> QED
  BY <1>1, <1>2, <1>3, PTL DEF DSpec

\* A receipt of a committed deferred transaction is queued, once, until a
\* settle() delivers it, whatever transactions run in between and whether or
\* not their modules instantiate.
THEOREM DeferredLosesNothing == DSpec => []NothingLost
<1>1. DInit => QTInv
  BY QueueInit
<1>2. QTInv /\ [DNext]_allvars => QTInv'
  BY QueueStep
<1>3. QTInv => NothingLost
  BY DEF QTInv, OwedInv
<1> QED
  BY <1>1, <1>2, <1>3, PTL DEF DSpec

\* The snapshot outlives the deferred steps, and none of them traps.
LEMMA DeferredSnapStep ==
  ASSUME QTInv, SnapInv, [DNext]_allvars
  PROVE  /\ SnapInv'
         /\ tx'.trapped /\ ~tx.trapped =>
              store' = [tx.pre EXCEPT ![<<tx.contract, "data">>] =
                          tx.snap[<<tx.contract, "data">>]]
<1>0. TInv /\ tx \in TxSet
  BY Types DEF QTInv
<1>1. CASE [Next]_vars
  BY <1>0, <1>1, SnapStep
<1>2. CASE QueueReceipts \/ Settle \/ SettleNext \/ SettleDone
  <2>1. /\ phase' # "entry"
        /\ tx' = [tx EXCEPT !.ok = TRUE] \/ tx' = tx
    BY <1>2 DEF QueueReceipts, Settle, SettleNext, SettleDone
  <2>2. tx'.trapped = tx.trapped
    BY <1>0, <2>1 DEF TxSet
  <2> QED
    BY <2>1, <2>2 DEF SnapInv
<1> QED
  BY <1>1, <1>2, StepKinds

\* A trapped entry leaves storage as it was before the transaction, but for the
\* contract's data, which is what its start function left, deferred or not, with
\* receipts of other transactions waiting in the queue.
THEOREM DeferredRollsBack == DSpec => EntryTrapRollsBack
<1>1. DInit => QTInv /\ SnapInv
  BY QueueInit DEF DInit, Init, SnapInv
<1>2. QTInv /\ SnapInv /\ [DNext]_allvars =>
        /\ QTInv' /\ SnapInv'
        /\ [tx'.trapped /\ ~tx.trapped =>
              store' = [tx.pre EXCEPT ![<<tx.contract, "data">>] =
                          tx.snap[<<tx.contract, "data">>]]]_vars
  BY QueueStep, DeferredSnapStep
<1> QED
  BY <1>1, <1>2, PTL DEF DSpec, EntryTrapRollsBack

-----------------------------------------------------------------------------
(* settle() delivers everything *)

\* A queued batch depends only on batches before it in the queue.
OlderInv ==
  \A i \in 1..Len(queue) : \A k \in 1..Len(queue[i].batch.deps) :
    queue[i].batch.deps[k] < i

SInv == QTInv /\ RInv /\ OlderInv

\* When no batch is ready none is left: the oldest one left would be ready.
LEMMA NoneReady ==
  ASSUME IInv, Ready = {}
  PROVE  Unexecuted = {}
<1>0. TInv /\ DagInv
  BY DEF IInv
<1>1. SUFFICES ASSUME Unexecuted # {} PROVE FALSE
  OBVIOUS
<1>2. Unexecuted \subseteq Nat
  BY DEF Unexecuted
<1>3. PICK n \in Unexecuted : \A y \in Unexecuted : n =< y
  BY <1>1, <1>2, Least
<1>4. n \in 1..Len(dag)
  BY <1>3 DEF Unexecuted
<1>5. dag[n].deps \in Seq(Nat)
  <2>1. dag[n] \in Batches
    BY <1>0, <1>4, Types, ElementOfSeq
  <2> QED
    BY <2>1 DEF Batches
<1>6. ASSUME NEW j \in 1..Len(dag[n].deps)
      PROVE  dag[n].deps[j] \in executed
  <2> DEFINE d == dag[n].deps[j]
  <2>1. d \in 1..Len(dag) /\ d < n
    BY <1>0, <1>4 DEF DagInv
  <2>2. ~(n =< d)
    BY <1>4, <2>1
  <2> QED
    BY <1>3, <2>1, <2>2 DEF Unexecuted
<1>7. ToSet(dag[n].deps) \subseteq executed
  BY <1>5, <1>6, LenProperties DEF ToSet
<1> QED
  BY <1>3, <1>7 DEF Ready

\* Nothing is live and nothing was executed: no results are published.
LEMMA NothingPublished ==
  ASSUME RInv, stack = <<>>
  PROVE  results = <<>> /\ Len(stack) = 0
<1>1. Len(stack) = 0
  BY EmptySeq
<1>2. Collecting(stack, 1, 0)
  BY DEF Collecting
<1> QED
  BY <1>1, <1>2 DEF RInv, ScopeInv, Published

\* A step after which no batch has been executed and none is live.
LEMMA FreshKeeps ==
  ASSUME TInv', DagInv', guest' = NoGuest, stack' = <<>>, executed' = {},
         DOMAIN outcomes' = {}, results' = <<>>,
         \A n \in 1..Len(dag') : /\ hist'[n].by = 0 /\ hist'[n].runs = 0
                                 /\ hist'[n].ret = {},
         phase' = "idle" /\ ~tx'.trapped /\ tx'.errors = 0 => Len(dag') = 0
  PROVE  RInv'
<1>1. Len(stack') = 0
  BY EmptySeq
<1>2. RunInv' /\ StackInv' /\ GuestInv'
  BY <1>1 DEF RunInv, StackInv, GuestInv
<1>3. IInv'
  BY <1>2 DEF IInv
<1>4. ChainInv' /\ AwaitInv'
  BY <1>1 DEF ChainInv, AwaitInv, Memoized
<1>5. ScopeInv'
  BY <1>1 DEF ScopeInv, Published
<1>6. DrainInv'
  BY <1>1 DEF DrainInv, Memoized
<1> QED
  BY <1>3, <1>4, <1>5, <1>6 DEF RInv

\* fire_deferred() queues the DAG of its transaction.
LEMMA QueueReceiptsKeeps ==
  ASSUME SInv, QTInv', QueueReceipts
  PROVE  SInv'
<1>0. /\ QTInv /\ RInv /\ IInv /\ TInv /\ TInv' /\ QueueInv /\ OlderInv
      /\ phase = "entry" /\ executed = {} /\ stack = <<>>
  BY DEF SInv, RInv, IInv, QTInv, QueueReceipts, TInv, ControlInv
<1> DEFINE N == Len(dag)
           M == Len(queue)
           b == [i \in 1..N |->
                   [batch |-> dag[i],
                    origin |-> [tx |-> ntx, pos |-> i, deps |-> dag[i].deps]]]
<1>1. /\ queue' = queue \o b
      /\ dag' = <<>> /\ hist' = <<>> /\ guest' = NoGuest /\ phase' = "idle"
      /\ UNCHANGED <<executed, outcomes, results, stack>>
  BY DEF QueueReceipts, Enqueue
<1>2. RInv'
  <2>1. Len(dag') = 0 /\ results = <<>>
    BY <1>0, <1>1, EmptySeq, NothingPublished
  <2>2. DOMAIN outcomes = {}
    BY <1>0, FrameTypes
  <2>3. DagInv'
    BY <2>1 DEF DagInv
  <2> QED
    BY <1>0, <1>1, <2>1, <2>2, <2>3, FreshKeeps
<1>3. N \in Nat /\ M \in Nat /\ queue \in Seq(Receipts)
  BY <1>0, Types, LenProperties DEF QueueInv
<1>4. b \in Seq(Receipts) /\ Len(b) = N
  <2>1. ASSUME NEW i \in 1..N
        PROVE  dag[i] \in Batches /\ dag[i].deps \in Seq(Nat)
    <3>1. dag[i] \in Batches
      BY <1>0, Types, ElementOfSeq
    <3> QED
      BY <3>1 DEF Batches
  <2>2. b \in [1..N -> Receipts]
    <3>1. ntx \in Nat
      BY <1>0 DEF TInv, TypeOK
    <3> QED
      BY <2>1, <3>1 DEF Receipts, OriginSet
  <2>3. [1..N -> Receipts] \subseteq Seq(Receipts)
    BY <1>3, SeqDef
  <2>4. b \in Seq(Receipts) /\ DOMAIN b = 1..N
    BY <2>2, <2>3
  <2> HIDE DEF b
  <2>5. DOMAIN b = 1..Len(b) /\ Len(b) \in Nat
    BY <2>4, LenProperties
  <2> HIDE DEF N
  <2> QED
    BY <1>3, <2>4, <2>5
<1>5. \A i \in 1..N : b[i].batch = dag[i]
  OBVIOUS
<1> HIDE DEF b, N, M
<1>6. /\ Len(queue') = M + N
      /\ \A i \in 1..(M + N) :
           queue'[i] = IF i <= M THEN queue[i] ELSE b[i - M]
  BY <1>1, <1>3, <1>4, ConcatProperties DEF M
<1>7. OlderInv'
  <2> SUFFICES ASSUME NEW i \in 1..(M + N),
                      NEW k \in 1..Len(queue'[i].batch.deps)
               PROVE  queue'[i].batch.deps[k] < i
    BY <1>6 DEF OlderInv
  <2>1. CASE i <= M
    <3>1. i \in 1..M /\ queue'[i] = queue[i]
      BY <1>3, <1>6, <2>1
    <3> QED
      BY <1>0, <3>1 DEF OlderInv, M
  <2>2. CASE ~(i <= M)
    <3> DEFINE j == i - M
    <3>1. j \in 1..N /\ j <= i /\ i \in Nat
      BY <1>3, <2>2
    <3>2. queue'[i] = b[j]
      BY <1>6, <2>2
    <3> HIDE DEF j
    <3>3. queue'[i].batch = dag[j]
      BY <1>5, <3>1, <3>2
    <3>4. dag[j].deps[k] \in 1..N /\ dag[j].deps[k] < j
      BY <1>0, <3>1, <3>3 DEF IInv, DagInv, N
    <3>5. dag[j].deps[k] < i
      BY <1>3, <3>1, <3>4
    <3> QED
      BY <3>3, <3>5
  <2> QED
    BY <2>1, <2>2
<1> QED
  BY <1>2, <1>7 DEF SInv

\* settle() begins: the queue is a DAG.
LEMMA SettleKeeps ==
  ASSUME SInv, QTInv', Settle
  PROVE  SInv'
<1>0. /\ RInv /\ TInv /\ TInv' /\ QueueInv /\ OlderInv
  BY DEF SInv, RInv, IInv, QTInv
<1>1. /\ phase = "idle" /\ executed' = {} /\ outcomes' = <<>> /\ queue' = <<>>
      /\ phase' = "settle" /\ UNCHANGED <<results, stack, guest>>
  BY DEF Settle
<1>2. stack = <<>> /\ guest = NoGuest
  BY <1>0, <1>1 DEF TInv, ControlInv
<1>3. /\ Len(dag') = Len(queue)
      /\ \A i \in 1..Len(queue) : dag'[i] = queue[i].batch
  BY <1>0, SettleLoads
<1>4. \A i \in 1..Len(queue) :
        hist'[i].by = 0 /\ hist'[i].runs = 0 /\ hist'[i].ret = {}
  BY <1>0, SettleHist
<1>5. DagInv'
  <2> SUFFICES ASSUME NEW n \in 1..Len(queue)
               PROVE  /\ hist'[n].by < n
                      /\ \A j \in 1..Len(dag'[n].deps) :
                           /\ dag'[n].deps[j] \in 1..Len(queue)
                           /\ dag'[n].deps[j] < n
                           /\ hist'[dag'[n].deps[j]].by = hist'[n].by
    BY <1>3 DEF DagInv
  <2>1. hist'[n].by < n
    BY <1>4
  <2>2. ASSUME NEW j \in 1..Len(dag'[n].deps)
        PROVE  dag'[n].deps[j] \in 1..Len(queue) /\ dag'[n].deps[j] < n
    BY <1>0, <1>3 DEF QueueInv, OlderInv
  <2> QED
    BY <1>4, <2>1, <2>2
<1>6. results = <<>>
  BY <1>0, <1>2, NothingPublished
<1>7. DOMAIN outcomes' = {} /\ Len(queue') = 0
  BY <1>1, EmptySeq
<1>8. RInv'
  BY <1>0, <1>1, <1>2, <1>3, <1>4, <1>5, <1>6, <1>7, FreshKeeps
<1>9. OlderInv'
  BY <1>7 DEF OlderInv
<1> QED
  BY <1>8, <1>9 DEF SInv

\* settle() delivers the next batch.
LEMMA SettleNextKeeps ==
  ASSUME SInv, QTInv', SettleNext
  PROVE  SInv'
<1> DEFINE c == Min(Ready)
<1>0. RInv /\ IInv /\ TInv /\ TInv' /\ OlderInv
  BY DEF SInv, RInv, IInv, QTInv
<1>1. /\ phase = "settle" /\ stack = <<>> /\ Ready # {}
      /\ executed' = executed \cup {c}
      /\ stack' = IF Memoized(c) THEN <<>> ELSE <<NewFrame(c)>>
      /\ UNCHANGED <<dag, outcomes, results, guest, phase, tx, hist, queue>>
  BY DEF SettleNext, dvars
<1>2. c \in 1..Len(dag) /\ c \notin executed
  <2>1. Ready \subseteq Nat
    BY DEF Ready, Unexecuted
  <2> QED
    BY <1>1, <2>1, MinIn DEF Ready, Unexecuted
<1> HIDE DEF c
<1>3. ~Memoized(c)
  BY <1>0, <1>2, FrameTypes DEF Memoized
<1>4. guest' = NoGuest /\ Len(stack) = 0
  BY <1>0, <1>1, EmptySeq DEF TInv, ControlInv
<1>5. /\ Len(stack') = Len(stack) + 1 /\ stack'[Len(stack) + 1] = NewFrame(c)
      /\ NewFrame(c).idx = c /\ NewFrame(c).pc = "deps"
  BY <1>0, <1>1, <1>2, <1>3, <1>4, NewFrameType
<1>6. \A k \in 1..Len(stack) : FALSE
  BY <1>4
<1>7. IInv'
  BY <1>0, <1>1, <1>2, <1>3, <1>4, <1>5, <1>6, EnterStep
<1>8. RInv'
  BY <1>0, <1>1, <1>2, <1>5, <1>6, <1>7, EnterKeeps
<1>9. OlderInv'
  BY <1>0, <1>1 DEF OlderInv
<1> QED
  BY <1>8, <1>9 DEF SInv

\* settle() returns: it executed all it loaded and all that spawned.
LEMMA SettleDoneKeeps ==
  ASSUME SInv, QTInv', SettleDone
  PROVE  SInv' /\ executed = 1..Len(dag)
<1>0. RInv /\ IInv /\ TInv /\ TInv' /\ OlderInv
  BY DEF SInv, RInv, IInv, QTInv
<1>1. /\ phase = "settle" /\ stack = <<>> /\ Ready = {} /\ phase' = "idle"
      /\ UNCHANGED <<dag, executed, outcomes, results, stack, guest, tx, hist,
                     queue>>
  BY DEF SettleDone, engine
<1>2. executed = 1..Len(dag)
  <2>1. executed \subseteq 1..Len(dag)
    BY <1>0, Types
  <2>2. Unexecuted = {}
    BY <1>0, <1>1, NoneReady
  <2> QED
    BY <2>1, <2>2 DEF Unexecuted
<1>3. guest' = NoGuest
  BY <1>0, <1>1 DEF TInv, ControlInv
<1>4. IInv'
  <2>1. GuestInv'
    BY <1>3 DEF GuestInv
  <2> QED
    BY <1>0, <1>1, <2>1, QuietStep
<1>5. RInv'
  BY <1>0, <1>1, <1>2, <1>4, IdleKeeps
<1>6. OlderInv'
  BY <1>0, <1>1 DEF OlderInv
<1> QED
  BY <1>2, <1>5, <1>6 DEF SInv

\* With no broken module, every step keeps the invariant.
LEMMA SettlingStep ==
  ASSUME Broken = {}, SInv, [DNext]_allvars
  PROVE  SInv'
<1>0. QTInv'
  BY QueueStep DEF SInv
<1>1. CASE [Next]_vars /\ UNCHANGED <<queue, owed, delivered>>
  <2>1. RInv'
    BY <1>1, ResultsStep DEF SInv
  <2>2. OlderInv'
    BY <1>1 DEF SInv, OlderInv
  <2> QED
    BY <1>0, <2>1, <2>2 DEF SInv
<1> QED
  BY <1>0, <1>1, StepKinds, QueueReceiptsKeeps, SettleKeeps, SettleNextKeeps,
     SettleDoneKeeps

\* The invariant holds initially.
LEMMA SettlingInit ==
  ASSUME DInit
  PROVE  SInv
<1>1. Len(queue) = 0
  BY EmptySeq DEF DInit
<1>2. RInv
  BY ResultsInit DEF DInit
<1> QED
  BY <1>1, <1>2, QueueInit DEF SInv, OlderInv

\* settle() delivers everything it loaded and everything that spawned, each
\* batch run once unless it was forced to fail, however many deferred
\* transactions filled the queue, as long as every module instantiates.
THEOREM DeferredSettles ==
  ASSUME Broken = {}
  PROVE  DSpec => SettleComplete
<1>1. DInit => SInv
  BY SettlingInit
<1>2. SInv /\ [DNext]_allvars => SInv'
  BY SettlingStep
<1>3. SInv /\ SInv' /\ [DNext]_allvars =>
        [phase = "settle" /\ phase' = "idle" =>
           \A i \in 1..Len(dag) :
             /\ i \in DOMAIN outcomes
             /\ hist[i].runs = IF i \in tx.fail THEN 0 ELSE 1]_allvars
  <2> SUFFICES ASSUME SInv, SInv', [DNext]_allvars,
                      phase = "settle", phase' = "idle", NEW i \in 1..Len(dag)
               PROVE  /\ i \in DOMAIN outcomes
                      /\ hist[i].runs = IF i \in tx.fail THEN 0 ELSE 1
    OBVIOUS
  <2>1. TInv /\ DrainInv /\ (phase = "entry" => executed = {})
    BY DEF SInv, RInv, IInv, QTInv
  <2>2. SettleDone
    <3>1. ~([Next]_vars)
      BY <2>1, EngineMoves
    <3> QED
      BY <3>1, StepKinds DEF QueueReceipts, Settle, SettleNext
  <2>3. executed = 1..Len(dag) /\ stack = <<>>
    BY <2>2, SettleDoneKeeps DEF SInv, SettleDone
  <2>4. Len(stack) = 0
    BY <2>3, EmptySeq
  <2>5. i \in DOMAIN outcomes
    BY <2>1, <2>3, <2>4 DEF DrainInv, Memoized
  <2> QED
    BY <2>1, <2>5 DEF DrainInv
<1> QED
  BY <1>1, <1>2, <1>3, PTL DEF DSpec, SettleComplete

\* Plain transactions drain completely also when deferred ones and settles run
\* between them, as long as every module instantiates.
THEOREM DeferredDrains ==
  ASSUME Broken = {}
  PROVE  DSpec => []DrainComplete
<1>1. DInit => SInv
  BY SettlingInit
<1>2. SInv /\ [DNext]_allvars => SInv'
  BY SettlingStep
<1>3. SInv => DrainComplete
  BY DrainedComplete DEF SInv
<1> QED
  BY <1>1, <1>2, <1>3, PTL DEF DSpec

\* What the engine guarantees of a transaction it also guarantees of a
\* settle(): batches run once, never wait for themselves, complete after what
\* they await, and read their own dependencies' results.
THEOREM DeferredKeepsEngine ==
  ASSUME Broken = {}
  PROVE  DSpec => [](ExecuteOnce /\ NoReentry /\ AwaitComplete /\ ResultScoping)
<1>1. DInit => SInv
  BY SettlingInit
<1>2. SInv /\ [DNext]_allvars => SInv'
  BY SettlingStep
<1>3. SInv => ExecuteOnce /\ NoReentry /\ AwaitComplete /\ ResultScoping
  <2>1. IInv => ExecuteOnce /\ NoReentry
    BY OnceFacts
  <2> QED
    BY <2>1, AwaitedComplete, ScopedResults DEF SInv, RInv
<1> QED
  BY <1>1, <1>2, <1>3, PTL DEF DSpec

=============================================================================
