------------------------ MODULE EngineStorage_proof ------------------------
(***************************************************************************)
(* What a transaction may change in storage: a trapped entry call leaves   *)
(* nothing behind, an account the transaction never names keeps its        *)
(* partition, whatever was rolled back on the way, and plain transactions  *)
(* neither create tokens nor lose any.                                     *)
(***************************************************************************)
EXTENDS PromiseEngine_proof, FiniteSetTheorems

-----------------------------------------------------------------------------
(* A trapped entry *)

\* Storage s is p with the deposit x credited to c, whatever c's own data.
Credited(s, p, c, x) ==
  \A k \in Slots : k # <<c, "data">> =>
    s[k] = IF k = <<c, "bal">> THEN p[k] + x ELSE p[k]

\* credit_attach does that.
LEMMA AttachCredits ==
  ASSUME NEW p \in [Slots -> Nat], NEW c \in Accounts, NEW x \in Nat
  PROVE  Credited(credit_attach(p, c, x), p, c, x)
<1> DEFINE b == <<c, "bal">>
<1>1. b \in Slots
  BY DEF Slots, Fields
<1> SUFFICES ASSUME NEW k \in Slots
             PROVE  credit_attach(p, c, x)[k] = IF k = b THEN p[k] + x ELSE p[k]
  BY DEF Credited
<1>2. p[k] \in Nat
  OBVIOUS
<1>3. CASE x = 0
  BY <1>2, <1>3 DEF credit_attach
<1>4. CASE x > 0
  <2>1. credit_attach(p, c, x) = [p EXCEPT ![b] = p[b] + x]
    BY <1>4 DEF credit_attach, Credit
  <2> HIDE DEF b
  <2> QED
    BY <1>1, <2>1
<1> QED
  BY <1>3, <1>4

\* The contract's writes to its data keep it.
LEMMA WriteCredits ==
  ASSUME NEW s \in [Slots -> Nat], NEW p, NEW c \in Accounts, NEW x, NEW v,
         Credited(s, p, c, x)
  PROVE  Credited([s EXCEPT ![<<c, "data">>] = v], p, c, x)
BY DEF Credited

\* Taking the deposit back undoes crediting it.
LEMMA DebitUndoes ==
  ASSUME NEW s \in [Slots -> Nat], NEW p \in [Slots -> Nat], NEW c \in Accounts,
         NEW x \in Nat, Credited(s, p, c, x)
  PROVE  Debit(s, c, x) = [p EXCEPT ![<<c, "data">>] = s[<<c, "data">>]]
<1> DEFINE b == <<c, "bal">>
           e == <<c, "data">>
           l == Debit(s, c, x)
           r == [p EXCEPT ![e] = s[e]]
<1>1. b \in Slots /\ e \in Slots /\ b # e
  BY DEF Slots, Fields
<1>2. l = [s EXCEPT ![b] = IF s[b] >= x THEN s[b] - x ELSE 0]
  BY DEF Debit
<1>3. \A k \in Slots : k # e => s[k] = IF k = b THEN p[k] + x ELSE p[k]
  BY DEF Credited
<1> HIDE DEF b, e
<1>4. r = [k \in Slots |-> r[k]] /\ l = [k \in Slots |-> l[k]]
  BY <1>1, <1>2
<1> HIDE DEF l
<1>5. ASSUME NEW k \in Slots
      PROVE  l[k] = r[k]
  <2>1. CASE k = b
    <3>1. s[b] = p[b] + x /\ p[b] \in Nat
      BY <1>1, <1>3
    <3>2. r[k] = p[b]
      BY <1>1, <2>1
    <3>3. l[k] = IF s[b] >= x THEN s[b] - x ELSE 0
      BY <1>1, <1>2, <2>1
    <3> QED
      BY <3>1, <3>2, <3>3
  <2>2. CASE k # b
    BY <1>1, <1>2, <1>3, <2>2
  <2> QED
    BY <2>1, <2>2
<1> HIDE DEF r
<1>6. l = r
  BY <1>4, <1>5
<1> QED
  BY <1>6 DEF l, r, b, e

\* While the entry runs, the snapshot is the storage before the transaction
\* plus the attached deposit and the data that start wrote; until it is taken,
\* storage is that.
SnapInv ==
  phase = "entry" =>
    /\ tx.contract \in Accounts /\ guest.acct = tx.contract
    /\ tx.began => Credited(tx.snap, tx.pre, tx.contract, tx.attach)
    /\ ~tx.began => Credited(store, tx.pre, tx.contract, tx.attach)

\* The locals of execute_tx that are fixed when it starts.
SameTx ==
  /\ tx'.contract = tx.contract /\ tx'.attach = tx.attach
  /\ tx'.snap = tx.snap /\ tx'.pre = tx.pre

\* Only the status of a transaction changes after its start; only a trap of
\* the entry sets trapped, and no other step enters the entry phase.
LEMMA TxMoves ==
  ASSUME TInv, [Next]_vars, ~execute_tx, ~EntryBegins
  PROVE  /\ SameTx
         /\ phase' = "entry" => phase = "entry"
         /\ ~EntryTrap => tx'.trapped = tx.trapped
<1>0. tx \in TxSet
  BY Types
<1>1. ASSUME tx' = tx
      PROVE  SameTx /\ tx'.trapped = tx.trapped
  BY <1>1 DEF SameTx
<1>2. ASSUME NEW b, tx' = [tx EXCEPT !.ok = b]
      PROVE  SameTx /\ tx'.trapped = tx.trapped
  BY <1>0, <1>2 DEF SameTx, TxSet
<1>3. ASSUME NEW res, tx' = TxStatus(res)
      PROVE  SameTx /\ tx'.trapped = tx.trapped
  <2> DEFINE b == (res = <<>> \/ Last(res) # Failed)
  <2>1. tx' = [tx EXCEPT !.ok = b]
    BY <1>3 DEF TxStatus
  <2> HIDE DEF b
  <2> QED
    BY <1>2, <2>1
<1>4. CASE UNCHANGED vars
  BY <1>1, <1>4 DEF vars
<1>5. CASE GuestStep
  <2>1. UNCHANGED <<phase, tx>>
    BY <1>5 DEF GuestStep, StorageWrite, promise_create, promise_then,
       promise_and, promise_batch_create, promise_batch_then,
       promise_batch_action, promise_return, PromisesOnly
  <2> QED
    BY <1>1, <2>1
<1>6. CASE GuestEnd
  <2>1. CASE CallReturn \/ CallTrap
    <3>1. UNCHANGED <<phase, tx>>
      BY <2>1 DEF CallReturn, CallTrap, EndCall
    <3> QED
      BY <1>1, <3>1
  <2>2. CASE EntryReturn
    <3>1. /\ \/ tx' = [tx EXCEPT !.ok = TRUE]
             \/ tx' = TxStatus(outcomes[pending])
          /\ phase' # "entry"
      BY <2>2 DEF EntryReturn
    <3> QED
      BY <1>2, <1>3, <3>1
  <2>3. CASE EntryTrap
    BY <1>0, <2>3 DEF EntryTrap, SameTx, TxSet
  <2>4. CASE NoMethod
    BY <1>0, <2>4 DEF NoMethod, SameTx, TxSet
  <2> QED
    BY <1>6, <2>1, <2>2, <2>3, <2>4 DEF GuestEnd
<1>7. CASE EngineStep
  <2>1. CASE ForcedFail \/ FinishBatch
    <3>1. PICK res : Return(res)
      BY <2>1 DEF ForcedFail, FinishBatch
    <3>2. /\ tx' = tx \/ tx' = TxStatus(res)
          /\ phase' = phase \/ phase' = "drain"
      BY <3>1 DEF Return
    <3> QED
      BY <1>1, <1>3, <3>2
  <2>2. CASE CallError
    <3> DEFINE b == tx.ok /\ phase # "root"
    <3>1. /\ tx' = [tx EXCEPT !.ok = b, !.errors = tx.errors + 1]
          /\ phase' = phase \/ phase' = "drain"
      BY <2>2 DEF CallError
    <3> HIDE DEF b
    <3> QED
      BY <1>0, <3>1 DEF SameTx, TxSet
  <2>3. CASE ExecutePromise \/ PublishResults \/ DrainNext \/ DrainDone
    <3>1. tx' = tx /\ (phase' = phase \/ phase' = "idle")
      BY <2>3 DEF ExecutePromise, PublishResults, DrainNext, DrainDone
    <3> QED
      BY <1>1, <3>1
  <2>4. CASE DoTransfer \/ DoStake \/ DoAddKey \/ DoDeleteKey \/ DoDeleteAccount
    <3>1. UNCHANGED <<phase, tx>>
      BY <2>4 DEF DoTransfer, DoStake, DoAddKey, DoDeleteKey, DoDeleteAccount,
         ActionOnly
    <3> QED
      BY <1>1, <3>1
  <2>5. CASE CallUnknown \/ CallStart
    <3>1. UNCHANGED <<phase, tx>>
      BY <2>5 DEF CallUnknown, CallStart
    <3> QED
      BY <1>1, <3>1
  <2> QED
    BY <1>7, <2>1, <2>2, <2>3, <2>4, <2>5 DEF EngineStep
<1> QED
  BY <1>4, <1>5, <1>6, <1>7 DEF Next

\* The step that takes the snapshot changes no other local.
LEMMA BeginMoves ==
  ASSUME TInv, EntryBegins
  PROVE  /\ tx'.contract = tx.contract /\ tx'.attach = tx.attach
         /\ tx'.pre = tx.pre /\ tx'.trapped = tx.trapped
         /\ tx'.snap = store /\ tx'.began = TRUE
         /\ UNCHANGED <<dag, store, stack, guest, phase>>
         /\ phase = "entry" /\ tx.began = FALSE
<1>1. tx \in TxSet
  BY Types
<1>2. tx' = [tx EXCEPT !.began = TRUE, !.snap = store]
  BY DEF EntryBegins
<1>3. /\ UNCHANGED <<dag, store, stack, guest, phase>>
      /\ phase = "entry" /\ ~tx.began
  BY DEF EntryBegins, InStart, engine
<1> QED
  BY <1>1, <1>2, <1>3 DEF TxSet

\* While the contract of the transaction runs, it only writes its data.
LEMMA EntryMoves ==
  ASSUME TInv, [Next]_vars, ~execute_tx, ~EntryBegins, phase' = "entry"
  PROVE  /\ phase = "entry" /\ UNCHANGED <<tx, guest>>
         /\ \/ store' = store
            \/ \E v \in {0, 1} :
                 store' = [store EXCEPT ![<<guest.acct, "data">>] = v]
<1>1. phase = "entry"
  BY TxMoves
<1>2. guest # NoGuest /\ stack = <<>>
  BY <1>1 DEF TInv, ControlInv
<1>3. ~EngineStep
  BY <1>1, <1>2 DEF EngineStep, ExecutePromise, ForcedFail, PublishResults,
     FinishBatch, DoTransfer, DoStake, DoAddKey, DoDeleteKey, DoDeleteAccount,
     CallUnknown, CallStart, CallError, DrainNext, DrainDone, AtCall,
     ActionsLeft, DepsDone, Running
<1>4. ~GuestEnd
  BY <1>1 DEF GuestEnd, CallReturn, CallTrap, InCall, NoMethod, EntryReturn,
     EntryTrap
<1>5. CASE GuestStep
  BY <1>1, <1>5 DEF GuestStep, StorageWrite, promise_create, promise_then,
     promise_and, promise_batch_create, promise_batch_then,
     promise_batch_action, promise_return, PromisesOnly
<1>6. CASE UNCHANGED vars
  BY <1>1, <1>6 DEF vars
<1> QED
  BY <1>3, <1>4, <1>5, <1>6 DEF Next

\* Every step keeps the snapshot, and a step that traps puts it back.
LEMMA SnapStep ==
  ASSUME TInv, SnapInv, [Next]_vars
  PROVE  /\ SnapInv'
         /\ tx'.trapped /\ ~tx.trapped =>
              store' = [tx.pre EXCEPT ![<<tx.contract, "data">>] =
                          tx.snap[<<tx.contract, "data">>]]
<1>0. tx \in TxSet /\ store \in [Slots -> Nat]
  BY Types
<1>1. CASE execute_tx
  <2>1. PICK c \in Accounts, d \in Attaches, fail \in FailSets :
          \/ StartTx(c, d, fail) \/ StartTxError(c, d, fail)
          \/ StartTxUnknown(c, fail)
    BY <1>1 DEF execute_tx
  <2>2. tx'.trapped = FALSE
    BY <2>1 DEF StartTx, StartTxError, StartTxUnknown
  <2>3. CASE StartTx(c, d, fail)
    <3>1. /\ tx'.contract = c /\ tx'.attach = d /\ tx'.began = FALSE
          /\ tx'.pre = store /\ store' = credit_attach(store, c, d)
          /\ guest' = [NoGuest EXCEPT !.acct = c]
      BY <2>3 DEF StartTx
    <3>2. guest'.acct = c
      BY <3>1, NoGuestType DEF Guests
    <3>3. Credited(credit_attach(store, c, d), store, c, d)
      BY <1>0, AttachCredits, AmountsAssumption
    <3>4. Credited(store', tx'.pre, tx'.contract, tx'.attach)
      BY <3>1, <3>3, Zenon
    <3>5. SnapInv'
      BY <3>1, <3>2, <3>4 DEF SnapInv
    <3> QED
      BY <2>2, <3>5
  <2>4. CASE StartTxError(c, d, fail) \/ StartTxUnknown(c, fail)
    <3>1. phase' = "idle"
      BY <2>4 DEF StartTxError, StartTxUnknown
    <3> QED
      BY <2>2, <3>1 DEF SnapInv
  <2> QED
    BY <2>1, <2>3, <2>4
<1>2. CASE EntryBegins
  <2>1. /\ tx'.contract = tx.contract /\ tx'.attach = tx.attach
        /\ tx'.pre = tx.pre /\ tx'.trapped = tx.trapped
        /\ tx'.snap = store /\ tx'.began = TRUE
        /\ guest' = guest /\ phase = "entry" /\ tx.began = FALSE
    BY <1>2, BeginMoves
  <2>2. /\ tx.contract \in Accounts /\ guest.acct = tx.contract
        /\ Credited(store, tx.pre, tx.contract, tx.attach)
    BY <2>1 DEF SnapInv
  <2>3. Credited(tx'.snap, tx'.pre, tx'.contract, tx'.attach)
    BY <2>1, <2>2, Zenon
  <2> QED
    BY <2>1, <2>2, <2>3 DEF SnapInv
<1>3. CASE ~execute_tx /\ ~EntryBegins
  <2>1. /\ SameTx
        /\ ~EntryTrap => tx'.trapped = tx.trapped
    BY <1>3, TxMoves
  <2>2. SnapInv'
    <3> SUFFICES ASSUME phase' = "entry"
                 PROVE  SnapInv'
      BY DEF SnapInv
    <3>1. /\ phase = "entry" /\ UNCHANGED <<tx, guest>>
          /\ \/ store' = store
             \/ \E v \in {0, 1} :
                  store' = [store EXCEPT ![<<guest.acct, "data">>] = v]
      BY <1>3, EntryMoves
    <3>2. /\ tx.contract \in Accounts /\ guest.acct = tx.contract
          /\ tx.began => Credited(tx.snap, tx.pre, tx.contract, tx.attach)
          /\ ~tx.began => Credited(store, tx.pre, tx.contract, tx.attach)
      BY <3>1 DEF SnapInv
    <3>3. ~tx.began => Credited(store', tx.pre, tx.contract, tx.attach)
      <4> SUFFICES ASSUME ~tx.began
                   PROVE  Credited(store', tx.pre, tx.contract, tx.attach)
        OBVIOUS
      <4>1. CASE store' = store
        BY <3>2, <4>1, Zenon
      <4>2. ASSUME NEW v \in {0, 1},
                   store' = [store EXCEPT ![<<guest.acct, "data">>] = v]
            PROVE  Credited(store', tx.pre, tx.contract, tx.attach)
        <5>1. PICK p, c, x : p = tx.pre /\ c = tx.contract /\ x = tx.attach
          OBVIOUS
        <5>2. Credited(store, p, c, x) /\ c \in Accounts /\ guest.acct = c
          BY <3>2, <5>1, Zenon
        <5>3. Credited([store EXCEPT ![<<c, "data">>] = v], p, c, x)
          BY <1>0, <5>2, WriteCredits
        <5> QED
          BY <4>2, <5>1, <5>2, <5>3, Zenon
      <4> QED
        BY <3>1, <4>1, <4>2
    <3> QED
      BY <3>1, <3>2, <3>3 DEF SnapInv
  <2>3. CASE EntryTrap
    <3>1. /\ store' = Debit(tx.snap, tx.contract, tx.attach)
          /\ tx.contract \in Accounts
          /\ Credited(tx.snap, tx.pre, tx.contract, tx.attach)
      BY <2>3 DEF EntryTrap, SnapInv
    <3>2. /\ tx.pre \in [Slots -> Nat] /\ tx.attach \in Nat
          /\ tx.snap \in [Slots -> Nat]
      BY <1>0 DEF TxSet
    <3>3. store' = [tx.pre EXCEPT ![<<tx.contract, "data">>] =
                      tx.snap[<<tx.contract, "data">>]]
      BY <3>1, <3>2, DebitUndoes
    <3> QED
      BY <2>2, <3>3
  <2> QED
    BY <2>1, <2>2, <2>3
<1> QED
  BY <1>1, <1>2, <1>3

\* A trapped entry leaves storage exactly as it was before the transaction, but
\* for the data its start function wrote, for every instance of the engine:
\* execute_tx credits, snapshots, restores and takes back the same deposit.
THEOREM EngineRollsBack == Spec => EntryTrapRollsBack
<1>1. Init => TInv /\ SnapInv
  BY TypeInit DEF Init, SnapInv
<1>2. TInv /\ SnapInv /\ [Next]_vars =>
        /\ TInv' /\ SnapInv'
        /\ [tx'.trapped /\ ~tx.trapped =>
              store' = [tx.pre EXCEPT ![<<tx.contract, "data">>] =
                          tx.snap[<<tx.contract, "data">>]]]_vars
  BY TypeStep, SnapStep
<1> QED
  BY <1>1, <1>2, PTL DEF Spec, EntryTrapRollsBack

-----------------------------------------------------------------------------
(* Bystanders *)

\* Two storages agree on the partition of an account.
Same(s, t, a) == \A f \in Fields : s[<<a, f>>] = t[<<a, f>>]

\* No undo record of a frame, or of a live frame, is of account a.
FrameFree(f, a) == \A j \in 1..Len(f.touched) : f.touched[j].slot[1] # a
StackFree(st, a) == \A k \in 1..Len(st) : FrameFree(st[k], a)

\* Nothing the engine will still write or put back is of account a.
Clean(a) ==
  /\ Same(store, tx.pre, a) /\ Same(tx.snap, tx.pre, a)
  /\ a # guest.acct /\ a # guest.pred
  /\ \A i \in 1..Len(dag) : a # dag[i].creator
  /\ StackFree(stack, a)

BInv == \A a \in Bystanders : Clean(a)

\* The accounts that a transaction on contract c whose DAG is d does not name.
Unnamed(d, c) ==
  Accounts \ ({c} \cup {d[i].account : i \in 1..Len(d)}
     \cup UNION {{act.ben : act \in ToSet(d[i].actions)} : i \in 1..Len(d)})

\* What they are, batch by batch and action by action.
LEMMA UnnamedIs ==
  ASSUME NEW d \in Seq(Batches), NEW c, NEW a
  PROVE  a \in Unnamed(d, c) <=>
           /\ a \in Accounts /\ a # c
           /\ \A i \in 1..Len(d) :
                /\ a # d[i].account
                /\ \A j \in 1..Len(d[i].actions) : a # d[i].actions[j].ben
<1>1. ASSUME NEW i \in 1..Len(d)
      PROVE  ToSet(d[i].actions) = {d[i].actions[j] : j \in 1..Len(d[i].actions)}
  <2>1. d[i] \in Batches
    BY ElementOfSeq
  <2>2. d[i].actions \in Seq(Actions)
    BY <2>1 DEF Batches
  <2>3. DOMAIN d[i].actions = 1..Len(d[i].actions)
    BY <2>2, LenProperties
  <2> QED
    BY <2>3 DEF ToSet
<1> DEFINE Named(i) == {act.ben : act \in ToSet(d[i].actions)}
<1>2. ASSUME NEW i \in 1..Len(d)
      PROVE  a \in Named(i) <=>
               \E j \in 1..Len(d[i].actions) : a = d[i].actions[j].ben
  BY <1>1
<1>3. a \in UNION {Named(i) : i \in 1..Len(d)} <=>
        \E i \in 1..Len(d) : a \in Named(i)
  <2> HIDE DEF Named
  <2> QED
    OBVIOUS
<1>4. a \in Unnamed(d, c) <=>
        /\ a \in Accounts /\ a # c
        /\ a \notin {d[i].account : i \in 1..Len(d)}
        /\ a \notin UNION {Named(i) : i \in 1..Len(d)}
  BY Zenon DEF Unnamed
<1> HIDE DEF Named
<1>5. a \notin {d[i].account : i \in 1..Len(d)} <=>
        \A i \in 1..Len(d) : a # d[i].account
  OBVIOUS
<1> QED
  BY <1>2, <1>3, <1>4, <1>5

\* Who is a bystander.
LEMMA BystanderIs ==
  ASSUME TInv, NEW a
  PROVE  a \in Bystanders <=>
           /\ a \in Accounts /\ a # tx.contract
           /\ \A i \in 1..Len(dag) :
                /\ a # dag[i].account
                /\ \A j \in 1..Len(dag[i].actions) : a # dag[i].actions[j].ben
<1>1. Bystanders = Unnamed(dag, tx.contract)
  BY Zenon DEF Bystanders, Unnamed
<1> QED
  BY <1>1, Types, UnnamedIs

\* A DAG that only grew names at least what it named before.
LEMMA NamedStay ==
  ASSUME TInv, NEW d \in Seq(Batches), Len(dag) <= Len(d), NEW a,
         a \in Unnamed(d, tx.contract),
         \A i \in 1..Len(dag) :
           /\ d[i].account = dag[i].account
           /\ Len(dag[i].actions) <= Len(d[i].actions)
           /\ \A j \in 1..Len(dag[i].actions) : d[i].actions[j] = dag[i].actions[j]
  PROVE  a \in Bystanders
<1>1. Len(dag) \in Nat /\ Len(d) \in Nat
  BY Types, LenProperties
<1>2. ASSUME NEW i \in 1..Len(dag)
      PROVE  /\ a # dag[i].account
             /\ \A j \in 1..Len(dag[i].actions) : a # dag[i].actions[j].ben
  <2>1. i \in 1..Len(d)
    BY <1>1
  <2>2. dag[i] \in Batches /\ d[i] \in Batches
    BY <2>1, Types, ElementOfSeq
  <2>3. Len(dag[i].actions) \in Nat /\ Len(d[i].actions) \in Nat
    BY <2>2, LenProperties DEF Batches
  <2>4. \A j \in 1..Len(dag[i].actions) : j \in 1..Len(d[i].actions)
    BY <2>3
  <2>5. /\ a # d[i].account
        /\ \A j \in 1..Len(d[i].actions) : a # d[i].actions[j].ben
    BY <2>1, UnnamedIs
  <2> QED
    BY <2>4, <2>5
<1>3. a \in Accounts /\ a # tx.contract
  BY UnnamedIs
<1> QED
  BY <1>2, <1>3, BystanderIs

\* Writing a slot of another account, or the loose key.
LEMMA WriteSame ==
  ASSUME NEW s \in [Slots -> Nat], NEW t, NEW a \in Accounts, Same(s, t, a),
         NEW k, NEW x, k[1] # a
  PROVE  Same([s EXCEPT ![k] = x], t, a)
<1>1. ASSUME NEW f \in Fields
      PROVE  [s EXCEPT ![k] = x][<<a, f>>] = s[<<a, f>>]
  <2>1. <<a, f>> # k /\ <<a, f>> \in Slots
    BY DEF Slots
  <2> QED
    BY <2>1
<1> QED
  BY <1>1 DEF Same

\* Crediting and debiting another account.
LEMMA CreditSame ==
  ASSUME NEW s \in [Slots -> Nat], NEW t, NEW a \in Accounts, Same(s, t, a),
         NEW c, c # a, NEW x
  PROVE  Same(Credit(s, c, x), t, a) /\ Same(Debit(s, c, x), t, a)
<1> DEFINE b == <<c, "bal">>
           y == s[b] + x
           z == IF s[b] >= x THEN s[b] - x ELSE 0
<1>1. b[1] # a
  OBVIOUS
<1>2. Credit(s, c, x) = [s EXCEPT ![b] = y] /\ Debit(s, c, x) = [s EXCEPT ![b] = z]
  BY DEF Credit, Debit
<1> HIDE DEF b, y, z
<1>3. Same([s EXCEPT ![b] = y], t, a)
  BY <1>1, WriteSame
<1>4. Same([s EXCEPT ![b] = z], t, a)
  BY <1>1, WriteSame
<1> QED
  BY <1>2, <1>3, <1>4, Zenon

\* Putting back the partition of another account.
LEMMA RestoreSame ==
  ASSUME NEW s \in [Slots -> Nat], NEW t, NEW a \in Accounts, Same(s, t, a),
         NEW c, c # a, NEW snap
  PROVE  Same(restore_partition(s, snap, c), t, a)
<1>1. ASSUME NEW f \in Fields
      PROVE  restore_partition(s, snap, c)[<<a, f>>] = s[<<a, f>>]
  <2> DEFINE k == <<a, f>>
  <2>1. k \in Slots /\ k[1] = a
    BY DEF Slots
  <2> HIDE DEF k
  <2> QED
    BY <2>1 DEF restore_partition, k
<1> QED
  BY <1>1 DEF Same

\* Undoing writes to other accounts.
LEMMA RevertSame ==
  ASSUME NEW s \in [Slots -> Nat], NEW t, NEW a \in Accounts, Same(s, t, a),
         NEW u \in Touches, \A j \in 1..Len(u) : u[j].slot[1] # a
  PROVE  Same(RevertTouched(s, u), t, a)
<1>1. ASSUME NEW f \in Fields
      PROVE  RevertTouched(s, u)[<<a, f>>] = s[<<a, f>>]
  <2> DEFINE k == <<a, f>>
  <2>1. k \in Slots /\ k[1] = a
    BY DEF Slots
  <2> HIDE DEF k
  <2>2. {j \in 1..Len(u) : u[j].slot = k} = {}
    BY <2>1
  <2> QED
    BY <2>1, <2>2 DEF RevertTouched, k
<1> QED
  BY <1>1 DEF Same

\* Moving a deposit between two other accounts.
LEMMA MoveSame ==
  ASSUME TInv, ActionsLeft, NEW t, NEW a \in Accounts, Same(store, t, a),
         Batch.account # a, Batch.creator # a
  PROVE  Same(MoveDeposit(store), t, a)
<1>1. /\ store \in [Slots -> Nat] /\ Action.amt \in Nat
  BY Types, ActionFacts
<1> DEFINE s == Credit(store, Batch.account, Action.amt)
<1>2. s \in [Slots -> Nat] /\ Same(s, t, a)
  BY <1>1, CreditType, CreditSame
<1>3. MoveDeposit(store) = Debit(s, Batch.creator, Action.amt)
  BY DEF MoveDeposit
<1> HIDE DEF s
<1> QED
  BY <1>2, <1>3, CreditSame

-----------------------------------------------------------------------------
(* Every step keeps bystanders apart *)

\* Replacing the innermost frame.
LEMMA SetTopFree ==
  ASSUME TInv, stack # <<>>, NEW f \in Frames, NEW a, StackFree(stack, a),
         FrameFree(f, a)
  PROVE  StackFree(SetTop(f), a)
BY SetTopFacts DEF StackFree

\* A new frame has no undo records.
LEMMA NewFrameFree ==
  ASSUME NEW i, NEW a
  PROVE  FrameFree(NewFrame(i), a)
<1>1. NewFrame(i).touched = <<>> /\ Len(<<>>) = 0
  BY EmptySeq DEF NewFrame
<1> QED
  BY <1>1 DEF FrameFree

\* A result handed to a frame leaves its undo records alone.
LEMMA ReceiveFree ==
  ASSUME NEW f \in Frames, NEW res, NEW a, FrameFree(f, a)
  PROVE  FrameFree(Receive(f, res), a)
<1>1. Receive(f, res).touched = f.touched
  BY DEF Receive, Frames
<1> QED
  BY <1>1 DEF FrameFree

\* A bystander after a step that keeps the DAG and the transaction.
LEMMA StillBystander ==
  ASSUME TInv, BInv, UNCHANGED dag, SameTx, NEW a \in Bystanders'
  PROVE  /\ a \in Bystanders /\ a \in Accounts /\ a # tx.contract
         /\ Same(store, tx.pre, a) /\ Same(tx.snap, tx.pre, a)
         /\ a # guest.acct /\ a # guest.pred
         /\ \A i \in 1..Len(dag) : a # dag[i].creator
         /\ StackFree(stack, a)
         /\ \A i \in 1..Len(dag) :
              /\ a # dag[i].account
              /\ \A j \in 1..Len(dag[i].actions) : a # dag[i].actions[j].ben
<1>1. Bystanders' = Bystanders
  BY ZenonT(30) DEF Bystanders, SameTx
<1> QED
  BY <1>1, BystanderIs DEF BInv, Clean

\* What such a step has to show.
LEMMA CleanStep ==
  ASSUME TInv, BInv, UNCHANGED dag, SameTx, NEW a \in Bystanders',
         Same(store', tx.pre, a), StackFree(stack', a),
         a # guest'.acct, a # guest'.pred
  PROVE  Clean(a)'
<1>1. Same(store', tx'.pre, a) /\ Same(tx'.snap, tx'.pre, a)
  BY StillBystander, Zenon DEF SameTx
<1>2. \A i \in 1..Len(dag') : a # dag'[i].creator
  BY StillBystander
<1> QED
  BY <1>1, <1>2 DEF Clean

\* The empty guest is nobody.
LEMMA NoGuestFree ==
  ASSUME NEW a \in Accounts
  PROVE  a # NoGuest.acct /\ a # NoGuest.pred
BY AccountsAssumption DEF NoGuest

\* A batch returns.
LEMMA ReturnFree ==
  ASSUME TInv, Running, NEW res, Return(res), NEW a, StackFree(stack, a)
  PROVE  StackFree(stack', a)
<1>1. stack # <<>> /\ stack \in Seq(Frames)
  BY RunningFacts, Types
<1>2. /\ Len(stack) \in Nat \ {0}
      /\ Front(stack) \in Seq(Frames) /\ Len(Front(stack)) = Len(stack) - 1
      /\ \A i \in 1..(Len(stack) - 1) : Front(stack)[i] = stack[i]
  BY <1>1, LastFront
<1>3. CASE Len(stack) > 1
  <2> DEFINE m == Len(stack) - 1
             f == Receive(Front(stack)[m], res)
  <2>1. m \in Nat /\ m \in 1..m /\ \A k \in 1..m : k \in 1..Len(stack)
    BY <1>2, <1>3
  <2>2. stack' = [Front(stack) EXCEPT ![m] = f]
    BY <1>3 DEF Return
  <2>3. Front(stack)[m] = stack[m] /\ stack[m] \in Frames
    BY <1>1, <1>2, <2>1, ElementOfSeq
  <2>4. FrameFree(stack[m], a)
    BY <2>1 DEF StackFree
  <2>5. FrameFree(f, a)
    BY <2>3, <2>4, ReceiveFree
  <2> HIDE DEF f, m
  <2>6. DOMAIN Front(stack) = 1..m /\ Len(Front(stack)) = m
    BY <1>2, LenProperties DEF m
  <2>7. \A k \in 1..m : stack'[k] = IF k = m THEN f ELSE Front(stack)[k]
    BY <2>1, <2>2, <2>6
  <2>8. Len(stack') = m
    <3>1. stack' \in [1..m -> {stack'[k] : k \in 1..m}]
      BY <2>2, <2>6
    <3> QED
      BY <2>1, <3>1, SeqDef, LenProperties
  <2>9. ASSUME NEW k \in 1..m PROVE FrameFree(stack'[k], a)
    <3>1. FrameFree(stack[k], a) /\ Front(stack)[k] = stack[k]
      BY <1>2, <2>1 DEF StackFree, m
    <3> QED
      BY <2>5, <2>7, <3>1
  <2> QED
    BY <2>8, <2>9 DEF StackFree
<1>4. CASE ~(Len(stack) > 1)
  <2>1. stack' = <<>> /\ Len(<<>>) = 0
    BY <1>4, EmptySeq DEF Return
  <2> QED
    BY <2>1 DEF StackFree
<1> QED
  BY <1>3, <1>4

\* A transaction starts: its contract is named, nothing else is written.
LEMMA StartClean ==
  ASSUME TInv, execute_tx, NEW a \in Bystanders'
  PROVE  Clean(a)'
<1>1. PICK c \in Accounts, d \in Attaches, fail \in FailSets :
        \/ StartTx(c, d, fail) \/ StartTxError(c, d, fail)
        \/ StartTxUnknown(c, fail)
  BY DEF execute_tx
<1>2. /\ dag' = <<>> /\ stack' = stack /\ tx'.contract = c /\ tx'.pre = store
      /\ store' = credit_attach(store, c, d) \/ store' = store
      /\ tx'.snap = store' \/ tx'.snap = store
      /\ guest' = [NoGuest EXCEPT !.acct = c] \/ guest' = guest
      /\ phase = "idle"
  BY <1>1 DEF StartTx, StartTxError, StartTxUnknown, fresh_tx_state
<1>3. a \in Accounts /\ a # c
  BY <1>2 DEF Bystanders
<1>4. stack = <<>> /\ guest = NoGuest /\ Len(<<>>) = 0
  BY <1>2, EmptySeq DEF TInv, ControlInv
<1>5. Same(store, store, a)
  BY DEF Same
<1>6. Same(store', store, a)
  BY <1>2, <1>3, <1>5, Types, CreditSame DEF credit_attach
<1>7. Same(store', tx'.pre, a) /\ Same(tx'.snap, tx'.pre, a)
  BY <1>2, <1>5, <1>6, Zenon
<1>8. a # guest'.acct /\ a # guest'.pred
  BY <1>2, <1>3, <1>4, NoGuestFree DEF NoGuest
<1>9. StackFree(stack', a) /\ \A i \in 1..Len(dag') : a # dag'[i].creator
  BY <1>2, <1>4 DEF StackFree
<1> QED
  BY <1>7, <1>8, <1>9 DEF Clean

\* A host call that changes only the DAG and the promise bookkeeping.
LEMMA HostClean ==
  ASSUME TInv, BInv, PromisesOnly, NEW a \in Bystanders,
         \A i \in 1..Len(dag') : dag'[i].creator = guest.acct
                                 \/ (i \in 1..Len(dag)
                                     /\ dag'[i].creator = dag[i].creator)
  PROVE  Clean(a)'
<1>1. UNCHANGED <<store, stack, guest, tx>>
  BY DEF PromisesOnly
<1>2. Clean(a)
  BY DEF BInv
<1>3. \A i \in 1..Len(dag') : a # dag'[i].creator
  BY <1>2 DEF Clean
<1>4. Same(store', tx'.pre, a) /\ Same(tx'.snap, tx'.pre, a)
  BY <1>1, <1>2, Zenon DEF Clean
<1> QED
  BY <1>1, <1>2, <1>3, <1>4 DEF Clean

\* A host function that creates a batch.
LEMMA PushClean ==
  ASSUME TInv, BInv, guest # NoGuest, PromisesOnly,
         NEW x \in Accounts \cup {NoAcct}, NEW deps \in Seq(1..Len(dag)),
         NEW acts \in Seq(Actions), dag_push(deps, x, acts),
         NEW a \in Bystanders'
  PROVE  Clean(a)'
<1> DEFINE b == [deps |-> deps, account |-> x, creator |-> guest.acct,
                 actions |-> acts]
<1>1. dag' = Append(dag, b) /\ tx' = tx
  BY DEF dag_push, PromisesOnly
<1>2. deps \in Seq(Nat) /\ guest.acct \in Accounts
  BY SeqMonotonic, Types DEF TInv, ControlInv
<1>3. b \in Batches /\ b.creator = guest.acct
  BY <1>2 DEF Batches
<1> HIDE DEF b
<1>4. /\ dag' \in Seq(Batches) /\ Len(dag') = Len(dag) + 1
      /\ dag'[Len(dag) + 1] = b
      /\ \A i \in 1..Len(dag) : dag'[i] = dag[i]
  BY <1>1, <1>3, Types, AppendProperties
<1>5. ASSUME NEW i \in 1..Len(dag)
      PROVE  /\ dag'[i].account = dag[i].account
             /\ Len(dag[i].actions) <= Len(dag'[i].actions)
             /\ \A j \in 1..Len(dag[i].actions) :
                  dag'[i].actions[j] = dag[i].actions[j]
  <2>1. dag[i] \in Batches
    BY Types, ElementOfSeq
  <2>2. Len(dag[i].actions) \in Nat
    BY <2>1, LenProperties DEF Batches
  <2> QED
    BY <1>4, <2>2
<1>6. a \in Unnamed(dag', tx.contract)
  BY <1>1, Zenon DEF Bystanders, Unnamed
<1>7. Len(dag) <= Len(dag')
  BY <1>4, Types
<1>8. a \in Bystanders
  BY <1>4, <1>5, <1>6, <1>7, NamedStay
<1>9. ASSUME NEW i \in 1..Len(dag')
      PROVE  dag'[i].creator = guest.acct
             \/ (i \in 1..Len(dag) /\ dag'[i].creator = dag[i].creator)
  <2>1. i \in 1..Len(dag) \/ i = Len(dag) + 1
    BY <1>4, Types
  <2> QED
    BY <1>3, <1>4, <2>1
<1> QED
  BY <1>8, <1>9, HostClean

\* The host calls of a contract write its own partition and name more accounts.
LEMMA GuestClean ==
  ASSUME TInv, BInv, GuestStep, NEW a \in Bystanders'
  PROVE  Clean(a)'
<1>0. /\ \A d \in Deposits : <<FnCall(d)>> \in Seq(Actions)
      /\ <<>> \in Seq(Actions) /\ <<>> \in Seq(1..Len(dag))
      /\ \A S : \A x, y \in S : <<x>> \in Seq(S) /\ <<x, y>> \in Seq(S)
      /\ Receivers \subseteq Accounts
      /\ \A h \in Handles : h \in 1..Len(dag) /\ h \in Nat
  <2>1. \A d \in Deposits : FnCall(d) \in Actions
    BY AmountsAssumption DEF FnCall, Actions, ActionKinds
  <2>2. Receivers \subseteq Accounts
    BY AccountsAssumption
  <2> QED
    BY <2>1, <2>2, HandleFacts, EmptySeq
<1>1. ASSUME NEW v \in {0, 1}, StorageWrite(v)
      PROVE  Clean(a)'
  <2> DEFINE k == <<guest.acct, "data">>
  <2>1. /\ store' = [store EXCEPT ![k] = v]
        /\ UNCHANGED <<dag, stack, guest, tx>>
    BY <1>1 DEF StorageWrite, engine
  <2>2. SameTx
    BY <2>1 DEF SameTx
  <2>3. /\ a \in Accounts /\ a # guest.acct /\ a # guest.pred
        /\ Same(store, tx.pre, a) /\ StackFree(stack, a)
    BY <2>1, <2>2, StillBystander
  <2>4. k[1] # a
    BY <2>3
  <2> HIDE DEF k
  <2>5. Same(store', tx.pre, a)
    BY <2>1, <2>3, <2>4, Types, WriteSame
  <2> QED
    BY <2>1, <2>2, <2>3, <2>5, CleanStep
<1>2. ASSUME NEW x \in Receivers, NEW d \in Deposits, promise_create(x, d)
      PROVE  Clean(a)'
  BY <1>0, <1>2, PushClean DEF promise_create, Calls
<1>3. ASSUME NEW h \in Handles, NEW x \in Receivers, NEW d \in Deposits,
             promise_then(h, x, d)
      PROVE  Clean(a)'
  BY <1>0, <1>3, <<h>> \in Seq(1..Len(dag)), PushClean DEF promise_then, Calls
<1>4. ASSUME NEW h1 \in Handles, NEW h2 \in Handles, promise_and(h1, h2)
      PROVE  Clean(a)'
  BY <1>0, <1>4, <<h1, h2>> \in Seq(1..Len(dag)), PushClean
     DEF promise_and, Calls
<1>5. ASSUME NEW x \in Receivers, promise_batch_create(x)
      PROVE  Clean(a)'
  BY <1>0, <1>5, PushClean DEF promise_batch_create, Calls
<1>6. ASSUME NEW h \in Handles, NEW x \in Receivers, promise_batch_then(h, x)
      PROVE  Clean(a)'
  BY <1>0, <1>6, <<h>> \in Seq(1..Len(dag)), PushClean
     DEF promise_batch_then, Calls
<1>7. ASSUME NEW h \in Handles, NEW op \in ActionKinds,
             promise_batch_action(h, op)
      PROVE  Clean(a)'
  <2>1. ActionsFor(op) \subseteq Actions
    BY AmountsAssumption
       DEF ActionsFor, ActionKinds, Actions, FnCall, Transfer, Stake, AddKey,
           DeleteKey, DeleteAccount
  <2>2. PICK x \in ActionsFor(op) :
          dag' = [dag EXCEPT ![h].actions = Append(@, x)]
    BY <1>7 DEF promise_batch_action
  <2>3. dag \in Seq(Batches) /\ dag[h] \in Batches /\ h \in 1..Len(dag)
    BY <1>0, Types, ElementOfSeq
  <2>4. /\ Append(dag[h].actions, x) \in Seq(Actions)
        /\ Len(Append(dag[h].actions, x)) = Len(dag[h].actions) + 1
        /\ \A j \in 1..Len(dag[h].actions) :
             Append(dag[h].actions, x)[j] = dag[h].actions[j]
    BY <2>1, <2>2, <2>3, AppendProperties DEF Batches
  <2> DEFINE b == [dag[h] EXCEPT !.actions = Append(dag[h].actions, x)]
  <2>5. /\ b \in Batches /\ b.account = dag[h].account
        /\ b.creator = dag[h].creator /\ b.actions = Append(dag[h].actions, x)
    BY <2>3, <2>4 DEF Batches
  <2>6. dag' = [dag EXCEPT ![h] = b]
    BY <2>2
  <2> HIDE DEF b
  <2>7. /\ dag' \in Seq(Batches) /\ Len(dag') = Len(dag)
        /\ \A i \in 1..Len(dag) : dag'[i] = IF i = h THEN b ELSE dag[i]
    BY <2>3, <2>5, <2>6, ExceptSeq
  <2>8. ASSUME NEW i \in 1..Len(dag)
        PROVE  /\ dag'[i].account = dag[i].account
               /\ dag'[i].creator = dag[i].creator
               /\ Len(dag[i].actions) <= Len(dag'[i].actions)
               /\ \A j \in 1..Len(dag[i].actions) :
                    dag'[i].actions[j] = dag[i].actions[j]
    <3>1. dag[i] \in Batches
      BY Types, ElementOfSeq
    <3>2. Len(dag[i].actions) \in Nat
      BY <3>1, LenProperties DEF Batches
    <3>3. CASE i = h
      <4>1. dag'[i] = b
        BY <2>7, <3>3
      <4>2. Len(dag[i].actions) <= Len(dag[i].actions) + 1
        BY <3>2
      <4> QED
        BY <2>4, <2>5, <3>3, <4>1, <4>2
    <3>4. CASE i # h
      BY <2>7, <3>2, <3>4
    <3> QED
      BY <3>3, <3>4
  <2>9. PromisesOnly /\ tx' = tx
    BY <1>7 DEF promise_batch_action, PromisesOnly
  <2>10. a \in Unnamed(dag', tx.contract)
    BY <2>9, Zenon DEF Bystanders, Unnamed
  <2>11. Len(dag) <= Len(dag')
    BY <2>7, Types
  <2>12. a \in Bystanders
    BY <2>7, <2>8, <2>10, <2>11, NamedStay
  <2> QED
    BY <2>7, <2>8, <2>9, <2>12, HostClean
<1>8. ASSUME NEW h \in Handles, promise_return(h)
      PROVE  Clean(a)'
  <2>1. PromisesOnly /\ UNCHANGED <<dag, tx>>
    BY <1>8 DEF promise_return, PromisesOnly
  <2>2. a \in Bystanders
    BY <2>1, Zenon DEF Bystanders
  <2> QED
    BY <2>1, <2>2, HostClean
<1> QED
  BY <1>1, <1>2, <1>3, <1>4, <1>5, <1>6, <1>7, <1>8 DEF GuestStep

\* Steps of execute_promise that run no action.
LEMMA ResolveClean ==
  ASSUME TInv, BInv, SameTx, NEW a \in Bystanders',
         ExecutePromise \/ ForcedFail \/ PublishResults \/ FinishBatch
  PROVE  Clean(a)'
<1>1. Running /\ UNCHANGED <<dag, store, guest>>
  BY DEF ExecutePromise, ForcedFail, PublishResults, FinishBatch, DepsDone
<1>2. /\ Same(store', tx.pre, a) /\ a # guest'.acct /\ a # guest'.pred
      /\ StackFree(stack, a)
  BY <1>1, StillBystander
<1>3. stack # <<>> /\ Top \in Frames /\ Top = stack[Len(stack)]
      /\ Len(stack) \in 1..Len(stack)
  BY <1>1, RunningFacts, TopFacts
<1>4. FrameFree(Top, a)
  BY <1>2, <1>3 DEF StackFree
<1>5. StackFree(stack', a)
  <2>1. CASE ExecutePromise
    <3> DEFINE c == Callee(Top)
    <3>1. c \in 1..Len(dag)
      BY <1>1, <2>1, CalleeFacts DEF ExecutePromise
    <3>2. CASE Memoized(c)
      <4> DEFINE f == Receive(Top, outcomes[c])
      <4>1. stack' = SetTop(f)
        BY <2>1, <3>2 DEF ExecutePromise
      <4>2. outcomes[c] \in Seq(Nat)
        BY <3>2, Types DEF Memoized
      <4>3. f \in Frames /\ FrameFree(f, a)
        BY <1>1, <1>3, <1>4, <4>2, RunningFacts, Types, ReceiveType, ReceiveFree
      <4> HIDE DEF f
      <4> QED
        BY <1>2, <1>3, <4>1, <4>3, SetTopFree
    <3>3. CASE ~Memoized(c)
      <4> DEFINE f == NewFrame(c)
      <4>1. stack' = Append(stack, f)
        BY <2>1, <3>3 DEF ExecutePromise
      <4>2. f \in Frames /\ FrameFree(f, a)
        BY <3>1, NewFrameType, NewFrameFree
      <4> HIDE DEF f
      <4>3. /\ Len(stack') = Len(stack) + 1 /\ stack'[Len(stack) + 1] = f
            /\ \A k \in 1..Len(stack) : stack'[k] = stack[k]
        BY <4>1, <4>2, PushFacts
      <4>4. ASSUME NEW k \in 1..Len(stack') PROVE FrameFree(stack'[k], a)
        <5>1. k \in 1..Len(stack) \/ k = Len(stack) + 1
          BY <4>3, Types, LenProperties
        <5> QED
          BY <1>2, <4>2, <4>3, <5>1 DEF StackFree
      <4> QED
        BY <4>4 DEF StackFree
    <3> QED
      BY <3>2, <3>3
  <2>2. CASE ForcedFail \/ FinishBatch
    BY <1>1, <1>2, <2>2, ReturnFree DEF ForcedFail, FinishBatch
  <2>3. CASE PublishResults
    <3> DEFINE f == [Top EXCEPT !.pc = "act", !.saved = results, !.start = store]
    <3>1. stack' = SetTop(f)
      BY <2>3 DEF PublishResults
    <3>2. f \in Frames /\ f.touched = Top.touched
      BY <1>3, Types DEF Frames
    <3> HIDE DEF f
    <3>3. FrameFree(f, a)
      BY <1>4, <3>2 DEF FrameFree
    <3> QED
      BY <1>2, <1>3, <3>1, <3>2, <3>3, SetTopFree
  <2> QED
    BY <2>1, <2>2, <2>3
<1> QED
  BY <1>1, <1>2, <1>5, CleanStep

\* A bystander while a batch runs an action: it is not the receiver, not the
\* sender, and not a beneficiary.
LEMMA ActionBystander ==
  ASSUME TInv, BInv, ActionsLeft, UNCHANGED dag, SameTx, NEW a \in Bystanders'
  PROVE  /\ a \in Accounts /\ Same(store, tx.pre, a)
         /\ a # Batch.account /\ a # Batch.creator /\ a # Action.ben
         /\ StackFree(stack, a) /\ FrameFree(Top, a)
         /\ a # guest.acct /\ a # guest.pred
<1>1. /\ stack # <<>> /\ Top \in Frames /\ Batch \in Batches
      /\ Top.idx \in 1..Len(dag)
      /\ Top = stack[Len(stack)] /\ Len(stack) \in 1..Len(stack)
  BY ActionFacts, TopFacts
<1>2. Len(Batch.actions) \in Nat
  BY <1>1, LenProperties DEF Batches
<1>3. Top.ap \in 1..Len(Batch.actions)
  BY <1>1, <1>2 DEF ActionsLeft, Frames
<1>4. /\ a \in Accounts /\ Same(store, tx.pre, a) /\ StackFree(stack, a)
      /\ a # guest.acct /\ a # guest.pred
      /\ a # Batch.account /\ a # Batch.creator
      /\ \A j \in 1..Len(Batch.actions) : a # Batch.actions[j].ben
  BY <1>1, StillBystander DEF Batch
<1>5. a # Action.ben
  BY <1>3, <1>4 DEF Action
<1>6. FrameFree(Top, a)
  BY <1>1, <1>4 DEF StackFree
<1> QED
  BY <1>4, <1>5, <1>6

\* What the actions of a batch leave alone.
LEMMA ActionSameTx ==
  ASSUME ActionOnly
  PROVE  UNCHANGED <<dag, guest, tx>> /\ SameTx
BY DEF ActionOnly, engine, SameTx

\* An arm of the loop that succeeds and records slots of other accounts.
LEMMA SucceedClean ==
  ASSUME TInv, BInv, ActionsLeft, ActionOnly, NEW a \in Bystanders',
         NEW s, NEW t \in Touches, Succeed(s, t), Same(s, tx.pre, a),
         \A j \in 1..Len(t) : t[j].slot[1] # a
  PROVE  Clean(a)'
<1> DEFINE u == Top.touched \o t
           f == [Top EXCEPT !.ap = Top.ap + 1, !.out = Append(Top.out, Top.idx),
                            !.touched = u]
<1>1. stack # <<>> /\ Top \in Frames
  BY ActionFacts
<1>2. /\ StackFree(stack, a) /\ FrameFree(Top, a)
      /\ a # guest'.acct /\ a # guest'.pred
  BY ActionSameTx, ActionBystander
<1>3. store' = s /\ stack' = SetTop(f)
  BY DEF Succeed
<1>4. Top.touched \in Touches /\ Len(Top.touched) \in Nat /\ Len(t) \in Nat
  BY <1>1, LenProperties DEF Frames, Touches
<1>5. /\ u \in Touches /\ Len(u) = Len(Top.touched) + Len(t)
      /\ \A j \in 1..Len(u) :
           u[j] = IF j <= Len(Top.touched) THEN Top.touched[j]
                  ELSE t[j - Len(Top.touched)]
  BY <1>4, ConcatProperties DEF Touches
<1> HIDE DEF u
<1>6. ASSUME NEW j \in 1..Len(u) PROVE u[j].slot[1] # a
  <2>1. CASE j <= Len(Top.touched)
    BY <1>2, <1>4, <1>5, <2>1 DEF FrameFree
  <2>2. CASE ~(j <= Len(Top.touched))
    <3>1. j - Len(Top.touched) \in 1..Len(t)
      BY <1>4, <1>5, <2>2
    <3> QED
      BY <1>5, <2>2, <3>1
  <2> QED
    BY <2>1, <2>2
<1>7. Append(Top.out, Top.idx) \in Seq(Nat) /\ Top.ap + 1 \in Nat \ {0}
  BY <1>1, AppendProperties DEF Frames
<1>8. f \in Frames /\ f.touched = u
  BY <1>1, <1>5, <1>7 DEF Frames, Touches
<1> HIDE DEF f
<1>9. FrameFree(f, a)
  BY <1>6, <1>8 DEF FrameFree
<1>10. StackFree(stack', a)
  BY <1>1, <1>2, <1>3, <1>8, <1>9, SetTopFree
<1> QED
  BY <1>2, <1>3, <1>10, ActionSameTx, CleanStep

\* An arm of the loop that fails: what it puts back is of other accounts.
LEMMA RevertClean ==
  ASSUME TInv, BInv, ActionsLeft, ActionOnly, Revert, NEW a \in Bystanders'
  PROVE  Clean(a)'
<1> DEFINE f == [Top EXCEPT !.ap = Len(Batch.actions) + 1,
                            !.out = Append(Top.out, Failed)]
<1>1. stack # <<>> /\ Top \in Frames /\ Batch \in Batches
  BY ActionFacts, TopFacts
<1>2. /\ a \in Accounts /\ Same(store, tx.pre, a)
      /\ StackFree(stack, a) /\ FrameFree(Top, a)
      /\ a # guest'.acct /\ a # guest'.pred
  BY ActionSameTx, ActionBystander
<1>3. store' = RevertTouched(store, Top.touched) /\ stack' = SetTop(f)
  BY DEF Revert
<1>4. Top.touched \in Touches
  BY <1>1 DEF Frames, Touches
<1>5. Same(store', tx.pre, a)
  BY <1>2, <1>3, <1>4, Types, RevertSame DEF FrameFree
<1>6. /\ Append(Top.out, Failed) \in Seq(Nat)
      /\ Len(Batch.actions) + 1 \in Nat \ {0}
  <2>1. Len(Batch.actions) \in Nat
    BY <1>1, LenProperties DEF Batches
  <2> QED
    BY <1>1, <2>1, AppendProperties DEF Frames, Failed
<1>7. f \in Frames /\ f.touched = Top.touched
  BY <1>1, <1>6 DEF Frames
<1> HIDE DEF f
<1>8. FrameFree(f, a)
  BY <1>2, <1>7 DEF FrameFree
<1>9. StackFree(stack', a)
  BY <1>1, <1>2, <1>3, <1>7, <1>8, SetTopFree
<1> QED
  BY <1>2, <1>5, <1>9, ActionSameTx, CleanStep

\* Undo lists of at most two records.
LEMMA TouchLists ==
  ASSUME NEW a, NEW x \in [slot : Slots, old : Nat],
         NEW y \in [slot : Slots, old : Nat], x.slot[1] # a, y.slot[1] # a
  PROVE  /\ <<>> \in Touches /\ <<x>> \in Touches /\ <<x, y>> \in Touches
         /\ \A j \in 1..Len(<<>>) : <<>>[j].slot[1] # a
         /\ \A j \in 1..Len(<<x>>) : <<x>>[j].slot[1] # a
         /\ \A j \in 1..Len(<<x, y>>) : <<x, y>>[j].slot[1] # a
<1>1. /\ <<>> \in Touches /\ <<x>> \in Touches /\ <<x, y>> \in Touches
      /\ Len(<<>>) = 0 /\ Len(<<x>>) = 1 /\ Len(<<x, y>>) = 2
  BY EmptySeq DEF Touches
<1>2. \A j \in 1..0 : FALSE
  OBVIOUS
<1>3. \A j \in 1..1 : j = 1
  OBVIOUS
<1>4. \A j \in 1..2 : j = 1 \/ j = 2
  OBVIOUS
<1>5. <<x>>[1] = x /\ <<x, y>>[1] = x /\ <<x, y>>[2] = y
  OBVIOUS
<1> QED
  BY <1>1, <1>2, <1>3, <1>4, <1>5

\* The actions of a batch that are not calls.
LEMMA ActionClean ==
  ASSUME TInv, BInv, NEW a \in Bystanders',
         DoTransfer \/ DoStake \/ DoAddKey \/ DoDeleteKey \/ DoDeleteAccount
  PROVE  Clean(a)'
<1>0. ActionsLeft /\ ActionOnly
  BY DEF DoTransfer, DoStake, DoAddKey, DoDeleteKey, DoDeleteAccount
<1>1. /\ a \in Accounts /\ Same(store, tx.pre, a)
      /\ a # Batch.account /\ a # Batch.creator /\ a # Action.ben
  BY <1>0, ActionSameTx, ActionBystander
<1>2. store \in [Slots -> Nat] /\ LooseKey \in Slots /\ LooseKey[1] # a
  BY <1>1, Types, AccountsAssumption DEF Slots, LooseKey
<1>3. CASE DoTransfer
  <2> DEFINE from == <<Batch.creator, "bal">>
             to == <<Batch.account, "bal">>
             debited == Debit(store, Batch.creator, Action.amt)
             s == Credit(debited, Batch.account, Action.amt)
             x == Touch(from, store)
             y == Touch(to, debited)
  <2>1. Revert \/ Succeed(s, <<x, y>>)
    BY <1>3 DEF DoTransfer
  <2>2. from \in Slots /\ to \in Slots /\ Action.amt \in Nat
    BY <1>0, ActionFacts DEF Fields
  <2>3. debited \in [Slots -> Nat] /\ Same(debited, tx.pre, a)
    BY <1>1, <1>2, <2>2, DebitType, CreditSame
  <2> HIDE DEF debited
  <2>4. Same(s, tx.pre, a)
    BY <1>1, <2>3, CreditSame
  <2>5. /\ x \in [slot : Slots, old : Nat] /\ y \in [slot : Slots, old : Nat]
        /\ x.slot[1] # a /\ y.slot[1] # a
    BY <1>1, <1>2, <2>2, <2>3 DEF Touch
  <2> HIDE DEF s, x, y
  <2>6. /\ <<x, y>> \in Touches
        /\ \A j \in 1..Len(<<x, y>>) : <<x, y>>[j].slot[1] # a
    BY <2>5, TouchLists
  <2>7. CASE Revert
    BY <1>0, <2>7, RevertClean
  <2>8. CASE Succeed(s, <<x, y>>)
    BY <1>0, <2>4, <2>6, <2>8, SucceedClean
  <2> QED
    BY <2>1, <2>7, <2>8
<1>4. CASE DoStake
  <2> DEFINE bal == <<Batch.account, "bal">>
             locked == <<Batch.account, "locked">>
             m == store[bal] - Action.amt
             n == store[locked] + Action.amt
             u == [store EXCEPT ![bal] = m]
             s == [u EXCEPT ![locked] = n]
             x == Touch(bal, store)
  <2>1. bal \in Slots /\ locked \in Slots /\ Action.amt \in Nat /\ bal # locked
    BY <1>0, ActionFacts DEF Fields
  <2>2. [store EXCEPT ![bal] = @ - Action.amt, ![locked] = @ + Action.amt] = s
    <3> HIDE DEF bal, locked
    <3> QED
      BY <1>2, <2>1
  <2>3. \/ Revert
        \/ Succeed(s, <<x>>) /\ ~(Action.amt > store[bal])
    BY <1>4, <2>2 DEF DoStake
  <2>4. x \in [slot : Slots, old : Nat] /\ x.slot[1] # a
    BY <1>1, <1>2, <2>1 DEF Touch
  <2>5. bal[1] # a /\ locked[1] # a /\ store[bal] \in Nat
    BY <1>1, <1>2, <2>1
  <2>6. CASE Revert
    BY <1>0, <2>6, RevertClean
  <2>7. CASE Succeed(s, <<x>>) /\ ~(Action.amt > store[bal])
    <3>1. m \in Nat
      BY <2>1, <2>5, <2>7
    <3> HIDE DEF bal, locked, m, n, x
    <3>2. u \in [Slots -> Nat] /\ Same(u, tx.pre, a)
      BY <1>1, <1>2, <2>5, <3>1, WriteType, WriteSame
    <3> HIDE DEF u
    <3>3. Same(s, tx.pre, a)
      BY <1>1, <2>5, <3>2, WriteSame
    <3>4. <<x>> \in Touches /\ \A j \in 1..Len(<<x>>) : <<x>>[j].slot[1] # a
      BY <2>4, TouchLists
    <3> HIDE DEF s
    <3> QED
      BY <1>0, <2>7, <3>3, <3>4, SucceedClean
  <2> QED
    BY <2>3, <2>6, <2>7
<1>5. CASE DoAddKey
  <2> DEFINE x == Touch(LooseKey, store)
             s == [store EXCEPT ![LooseKey] = 1]
  <2>1. Succeed(s, <<x>>) \/ Succeed(s, <<>>)
    BY <1>5 DEF DoAddKey
  <2>2. x \in [slot : Slots, old : Nat] /\ x.slot[1] # a
    BY <1>2 DEF Touch
  <2>3. Same(s, tx.pre, a)
    BY <1>1, <1>2, WriteSame
  <2> HIDE DEF s, x
  <2>4. /\ <<x>> \in Touches /\ <<>> \in Touches
        /\ \A j \in 1..Len(<<x>>) : <<x>>[j].slot[1] # a
        /\ \A j \in 1..Len(<<>>) : <<>>[j].slot[1] # a
    BY <2>2, TouchLists
  <2>5. CASE Succeed(s, <<x>>)
    BY <1>0, <2>3, <2>4, <2>5, SucceedClean
  <2>6. CASE Succeed(s, <<>>)
    BY <1>0, <2>3, <2>4, <2>6, SucceedClean
  <2> QED
    BY <2>1, <2>5, <2>6
<1>6. CASE DoDeleteKey
  <2> DEFINE key == <<Batch.account, "key">>
             s == [store EXCEPT ![key] = 0]
             x == [slot |-> key, old |-> 0]
  <2>1. Revert \/ Succeed(s, <<x>>)
    BY <1>6 DEF DoDeleteKey
  <2>2. key \in Slots /\ key[1] # a
    BY <1>0, <1>1, ActionFacts DEF Fields
  <2> HIDE DEF key
  <2>3. x \in [slot : Slots, old : Nat] /\ x.slot[1] # a
    BY <2>2
  <2>4. Same(s, tx.pre, a)
    BY <1>1, <1>2, <2>2, WriteSame
  <2> HIDE DEF s, x
  <2>5. <<x>> \in Touches /\ \A j \in 1..Len(<<x>>) : <<x>>[j].slot[1] # a
    BY <2>3, TouchLists
  <2>6. CASE Revert
    BY <1>0, <2>6, RevertClean
  <2>7. CASE Succeed(s, <<x>>)
    BY <1>0, <2>4, <2>5, <2>7, SucceedClean
  <2> QED
    BY <2>1, <2>6, <2>7
<1>7. CASE DoDeleteAccount
  <2> DEFINE paid == Credit(store, Action.ben, store[<<Batch.account, "bal">>])
             gone == [f \in Fields |-> 0]
             s == restore_partition(paid, gone, Batch.account)
  <2>1. Succeed(s, <<>>)
    BY <1>7 DEF DoDeleteAccount
  <2>2. store[<<Batch.account, "bal">>] \in Nat
    BY <1>0, <1>2, ActionFacts DEF Fields
  <2>3. paid \in [Slots -> Nat] /\ Same(paid, tx.pre, a)
    BY <1>1, <1>2, <2>2, CreditType, CreditSame
  <2> HIDE DEF paid, gone
  <2>4. Same(s, tx.pre, a)
    BY <1>1, <2>3, RestoreSame
  <2> HIDE DEF s
  <2>5. <<>> \in Touches /\ \A j \in 1..Len(<<>>) : <<>>[j].slot[1] # a
    BY EmptySeq DEF Touches
  <2> QED
    BY <1>0, <2>1, <2>4, <2>5, SucceedClean
<1> QED
  BY <1>3, <1>4, <1>5, <1>6, <1>7

\* Starting a call moves a deposit between the two accounts it names; failing
\* to, while the entry's promise is resolved, goes back to the snapshot.
LEMMA CallClean ==
  ASSUME TInv, BInv, SameTx, NEW a \in Bystanders',
         CallUnknown \/ CallStart \/ CallError
  PROVE  Clean(a)'
<1>0. ActionsLeft /\ UNCHANGED dag
  BY DEF CallUnknown, CallStart, CallError, AtCall, engine
<1>1. /\ a \in Accounts /\ Same(store, tx.pre, a) /\ Same(tx.snap, tx.pre, a)
      /\ a # Batch.account /\ a # Batch.creator
      /\ StackFree(stack, a) /\ FrameFree(Top, a)
      /\ a # guest.acct /\ a # guest.pred
  BY <1>0, ActionBystander, StillBystander
<1>2. stack # <<>> /\ Top \in Frames
  BY <1>0, ActionFacts
<1>3. Same(MoveDeposit(store), tx.pre, a)
  BY <1>0, <1>1, MoveSame
<1>4. CASE CallUnknown
  <2> DEFINE f == [Top EXCEPT !.ap = Top.ap + 1, !.out = Append(Top.out, Failed)]
  <2>1. stack' = SetTop(f) /\ UNCHANGED <<store, guest>>
    BY <1>4 DEF CallUnknown
  <2>2. Append(Top.out, Failed) \in Seq(Nat) /\ Top.ap + 1 \in Nat \ {0}
    BY <1>2, AppendProperties DEF Frames, Failed
  <2>3. f \in Frames /\ f.touched = Top.touched
    BY <1>2, <2>2 DEF Frames
  <2> HIDE DEF f
  <2>4. FrameFree(f, a)
    BY <1>1, <2>3 DEF FrameFree
  <2>5. StackFree(stack', a)
    BY <1>1, <1>2, <2>1, <2>3, <2>4, SetTopFree
  <2> QED
    BY <1>0, <1>1, <2>1, <2>5, CleanStep
<1>5. CASE CallStart
  <2> DEFINE f == [Top EXCEPT !.pc = "call"]
  <2>1. /\ stack' = SetTop(f) /\ store' = MoveDeposit(store)
        /\ guest'.acct = Batch.account /\ guest'.pred = Batch.creator
    BY <1>5 DEF CallStart
  <2>2. f \in Frames /\ f.touched = Top.touched
    BY <1>2 DEF Frames
  <2> HIDE DEF f
  <2>3. FrameFree(f, a)
    BY <1>1, <2>2 DEF FrameFree
  <2>4. StackFree(stack', a)
    BY <1>1, <1>2, <2>1, <2>2, <2>3, SetTopFree
  <2> QED
    BY <1>0, <1>1, <1>3, <2>1, <2>4, CleanStep
<1>6. CASE CallError
  <2>1. /\ stack' = <<>> /\ guest' = guest
        /\ store' = tx.snap \/ store' = MoveDeposit(store)
    BY <1>6 DEF CallError
  <2>2. StackFree(stack', a)
    BY <2>1, EmptySeq DEF StackFree
  <2>3. Same(store', tx.pre, a)
    BY <1>1, <1>3, <2>1, Zenon
  <2> QED
    BY <1>0, <1>1, <2>1, <2>2, <2>3, CleanStep
<1> QED
  BY <1>4, <1>5, <1>6

\* A call ends: a trap puts back the callee's partition and returns the deposit
\* to the sender.
LEMMA EndClean ==
  ASSUME TInv, BInv, SameTx, NEW a \in Bystanders', CallReturn \/ CallTrap
  PROVE  Clean(a)'
<1>0. UNCHANGED dag /\ guest' = NoGuest /\ InCall
  BY DEF CallReturn, CallTrap, EndCall
<1>1. /\ a \in Accounts /\ Same(store, tx.pre, a) /\ StackFree(stack, a)
      /\ a # guest.acct /\ a # guest.pred
  BY <1>0, StillBystander
<1>2. stack # <<>>
  BY <1>0 DEF InCall, TInv, ControlInv
<1>3. /\ Top \in Frames /\ Top = stack[Len(stack)]
      /\ Len(stack) \in 1..Len(stack) /\ Top.idx \in Nat
  BY <1>2, TopFacts DEF Frames
<1>4. FrameFree(Top, a)
  BY <1>1, <1>3 DEF StackFree
<1>5. Same(store', tx.pre, a)
  <2>1. CASE CallReturn
    BY <1>1, <2>1, Zenon DEF CallReturn
  <2>2. CASE CallTrap
    <3> DEFINE s == restore_partition(store, guest.snap, guest.acct)
    <3>1. store' = Credit(s, guest.pred, guest.dep)
      BY <2>2 DEF CallTrap
    <3>2. s \in [Slots -> Nat]
      BY Types, PartitionType DEF Guests
    <3>3. Same(s, tx.pre, a)
      BY <1>1, Types, RestoreSame
    <3> HIDE DEF s
    <3> QED
      BY <1>1, <3>1, <3>2, <3>3, CreditSame
  <2> QED
    BY <2>1, <2>2
<1>6. PICK r \in Nat : EndCall(r)
  BY <1>3 DEF CallReturn, CallTrap, Failed
<1>7. StackFree(stack', a)
  <2>1. CASE pending = 0
    <3> DEFINE f == [Top EXCEPT !.pc = "act", !.ap = Top.ap + 1,
                                !.out = Append(Top.out, r)]
    <3>1. stack' = SetTop(f)
      BY <1>6, <2>1 DEF EndCall
    <3>2. Append(Top.out, r) \in Seq(Nat) /\ Top.ap + 1 \in Nat \ {0}
      BY <1>3, AppendProperties DEF Frames
    <3>3. f \in Frames /\ f.touched = Top.touched
      BY <1>3, <3>2 DEF Frames
    <3> HIDE DEF f
    <3>4. FrameFree(f, a)
      BY <1>4, <3>3 DEF FrameFree
    <3> QED
      BY <1>1, <1>2, <3>1, <3>3, <3>4, SetTopFree
  <2>2. CASE pending # 0
    <3> DEFINE f == [Top EXCEPT !.pc = "child", !.child = pending, !.local = r]
    <3>1. stack' = SetTop(f)
      BY <1>6, <2>2 DEF EndCall
    <3>2. f \in Frames /\ f.touched = Top.touched
      BY <1>3, Types DEF Frames
    <3> HIDE DEF f
    <3>3. FrameFree(f, a)
      BY <1>4, <3>2 DEF FrameFree
    <3> QED
      BY <1>1, <1>2, <3>1, <3>2, <3>3, SetTopFree
  <2> QED
    BY <2>1, <2>2
<1> QED
  BY <1>0, <1>1, <1>5, <1>7, NoGuestFree, CleanStep

\* execute_tx, from the end of the entry call.
LEMMA TxEndClean ==
  ASSUME TInv, BInv, SameTx, NEW a \in Bystanders',
         NoMethod \/ EntryReturn \/ EntryTrap \/ DrainNext \/ DrainDone
  PROVE  Clean(a)'
<1>0. /\ UNCHANGED dag
      /\ guest' = NoGuest \/ guest' = guest
      /\ \/ UNCHANGED store
         \/ store' = Debit(tx.snap, tx.contract, tx.attach)
      /\ \/ UNCHANGED stack
         \/ stack' = <<>>
         \/ \E i : stack' = <<NewFrame(i)>>
  BY DEF NoMethod, EntryReturn, EntryTrap, DrainNext, DrainDone, engine
<1>1. /\ a \in Accounts /\ a # tx.contract
      /\ Same(store, tx.pre, a) /\ Same(tx.snap, tx.pre, a)
      /\ StackFree(stack, a) /\ a # guest.acct /\ a # guest.pred
  BY <1>0, StillBystander
<1>2. tx.snap \in [Slots -> Nat]
  BY Types DEF TxSet
<1>3. Same(store', tx.pre, a)
  <2>1. CASE UNCHANGED store
    BY <1>1, <2>1, Zenon
  <2>2. CASE store' = Debit(tx.snap, tx.contract, tx.attach)
    BY <1>1, <1>2, <2>2, CreditSame
  <2> QED
    BY <1>0, <2>1, <2>2
<1>4. StackFree(stack', a)
  <2>1. CASE stack' = <<>>
    BY <2>1, EmptySeq DEF StackFree
  <2>2. ASSUME NEW i, stack' = <<NewFrame(i)>>
        PROVE  StackFree(stack', a)
    <3> DEFINE f == NewFrame(i)
    <3>1. FrameFree(f, a)
      BY NewFrameFree
    <3> HIDE DEF f
    <3>2. Len(<<f>>) = 1 /\ <<f>>[1] = f
      OBVIOUS
    <3>3. \A k \in 1..1 : k = 1
      OBVIOUS
    <3> QED
      BY <2>2, <3>1, <3>2, <3>3 DEF StackFree, f
  <2> QED
    BY <1>0, <1>1, <2>1, <2>2
<1> QED
  BY <1>0, <1>1, <1>3, <1>4, NoGuestFree, CleanStep

\* The snapshot is taken: storage is clean already.
LEMMA BeginClean ==
  ASSUME TInv, BInv, EntryBegins, NEW a \in Bystanders'
  PROVE  Clean(a)'
<1>1. /\ tx'.contract = tx.contract /\ tx'.pre = tx.pre /\ tx'.snap = store
      /\ UNCHANGED <<dag, store, stack, guest>>
  BY BeginMoves
<1>2. Bystanders' = Bystanders
  BY <1>1, ZenonT(30) DEF Bystanders
<1>3. Clean(a)
  BY <1>2 DEF BInv
<1> QED
  BY <1>1, <1>3 DEF Clean, Same, StackFree, FrameFree

\* Every step keeps bystanders apart.
LEMMA BystandersStep ==
  ASSUME TInv, BInv, [Next]_vars
  PROVE  BInv'
<1> SUFFICES ASSUME NEW a \in Bystanders' PROVE Clean(a)'
  BY DEF BInv
<1>1. CASE execute_tx
  BY <1>1, StartClean
<1>2. CASE EntryBegins
  BY <1>2, BeginClean
<1>3. CASE ~execute_tx /\ ~EntryBegins
  <2>1. SameTx
    BY <1>3, TxMoves
  <2>2. CASE UNCHANGED vars
    <3>1. UNCHANGED <<dag, store, stack, guest, tx>>
      BY <2>2 DEF vars, engine
    <3> QED
      BY <2>1, <3>1, StillBystander, CleanStep
  <2>3. CASE GuestStep
    BY <2>3, GuestClean
  <2>4. CASE GuestEnd
    BY <1>3, <2>1, <2>4, EndClean, TxEndClean DEF GuestEnd
  <2>5. CASE EngineStep
    BY <2>1, <2>5, ResolveClean, ActionClean, CallClean, TxEndClean
       DEF EngineStep
  <2> QED
    BY <1>3, <2>2, <2>3, <2>4, <2>5 DEF Next
<1> QED
  BY <1>1, <1>2, <1>3

\* A transaction leaves alone every account it does not name, for every
\* instance: the creator of each batch, every slot an undo list restores and
\* every partition a trap restores belong to an account the transaction names.
THEOREM EngineSparesBystanders == Spec => []BystandersUntouched
<1>1. Init => TInv /\ BInv
  <2> SUFFICES ASSUME Init PROVE TInv /\ BInv
    OBVIOUS
  <2>1. TInv
    BY TypeInit
  <2>2. /\ dag = <<>> /\ stack = <<>> /\ guest = NoGuest
        /\ tx.pre = store /\ tx.snap = store /\ Len(<<>>) = 0
    BY EmptySeq DEF Init
  <2>3. ASSUME NEW a \in Bystanders PROVE Clean(a)
    <3>1. a \in Accounts
      BY DEF Bystanders
    <3>2. Same(store, store, a)
      BY DEF Same
    <3>3. Same(store, tx.pre, a) /\ Same(tx.snap, tx.pre, a)
      BY <2>2, <3>2, Zenon
    <3>4. a # guest.acct /\ a # guest.pred
      BY <2>2, <3>1, NoGuestFree
    <3> QED
      BY <2>2, <3>3, <3>4 DEF Clean, StackFree
  <2> QED
    BY <2>1, <2>3 DEF BInv
<1>2. TInv /\ BInv /\ [Next]_vars => TInv' /\ BInv'
  BY TypeStep, BystandersStep
<1>3. BInv => BystandersUntouched
  BY DEF BInv, Clean, Same, BystandersUntouched, snapshot_partition
<1> QED
  BY <1>1, <1>2, <1>3, PTL DEF Spec

-----------------------------------------------------------------------------
(* Sums over finite sets *)

\* f gives each set of D the sum of w over it, as MapThenSumSet computes it.
SumsUp(f, w, D) ==
  f = [T \in D |-> IF T = {} THEN 0
                   ELSE w[CHOOSE x \in T : TRUE]
                          + f[T \ {CHOOSE x \in T : TRUE}]]

\* Among subsets of a finite set, one loses membership with any element.
LEMMA LeastSubset ==
  ASSUME NEW S, IsFiniteSet(S), NEW B, B \subseteq SUBSET S, B # {}
  PROVE  \E T \in B : \A x \in T : T \ {x} \notin B
<1> DEFINE N == {Cardinality(T) : T \in B}
<1>1. \A T \in B : IsFiniteSet(T) /\ Cardinality(T) \in Nat
  BY FS_Subset, FS_CardinalityType
<1>2. N \subseteq Nat /\ N # {}
  BY <1>1
<1>3. PICK n \in N : \A m \in N : n =< m
  BY <1>2, Least
<1>4. PICK T \in B : n = Cardinality(T)
  BY <1>3
<1>5. ASSUME NEW x \in T, T \ {x} \in B PROVE FALSE
  <2>1. Cardinality(T \ {x}) = Cardinality(T) - 1
    BY <1>1, <1>4, FS_RemoveElement
  <2>2. n =< Cardinality(T \ {x})
    BY <1>3, <1>5
  <2> QED
    BY <1>1, <1>4, <2>1, <2>2
<1> QED
  BY <1>4, <1>5

\* The subsets of S with at most n elements.
UpTo(S, n) == {T \in SUBSET S : Cardinality(T) =< n}

\* Every finite set of weights can be summed.
LEMMA SumExists ==
  ASSUME NEW S, IsFiniteSet(S), NEW w
  PROVE  \E f : SumsUp(f, w, SUBSET S)
<1> DEFINE pick(T) == CHOOSE x \in T : TRUE
           B == {n \in Nat : ~\E f : SumsUp(f, w, UpTo(S, n))}
<1>1. \A T \in SUBSET S : /\ IsFiniteSet(T) /\ Cardinality(T) \in Nat
                          /\ Cardinality(T) =< Cardinality(S)
                          /\ Cardinality(T) = 0 <=> T = {}
  BY FS_Subset, FS_CardinalityType, FS_EmptySet
<1>2. \A T \in SUBSET S : T # {} =>
        /\ pick(T) \in T /\ T \ {pick(T)} \in SUBSET S
        /\ Cardinality(T \ {pick(T)}) = Cardinality(T) - 1
  BY <1>1, FS_RemoveElement
<1>3. B = {}
  <2>1. SUFFICES ASSUME B # {} PROVE FALSE
    OBVIOUS
  <2>2. B \subseteq Nat
    OBVIOUS
  <2>3. PICK n \in B : \A m \in B : n =< m
    BY <2>1, <2>2, Least
  <2>4. n \in Nat /\ ~\E f : SumsUp(f, w, UpTo(S, n))
    BY <2>3
  <2>5. CASE n = 0
    <3>1. \A T \in UpTo(S, n) : T = {}
      BY <1>1, <2>5 DEF UpTo
    <3> DEFINE f == [T \in UpTo(S, n) |-> 0]
    <3>2. SumsUp(f, w, UpTo(S, n))
      BY <3>1 DEF SumsUp
    <3> QED
      BY <2>4, <3>2
  <2>6. CASE n # 0
    <3>1. n - 1 \in Nat /\ ~(n =< n - 1)
      BY <2>4, <2>6
    <3>2. n - 1 \notin B
      BY <2>3, <3>1
    <3>3. PICK f : SumsUp(f, w, UpTo(S, n - 1))
      BY <3>1, <3>2
    <3> DEFINE g == [T \in UpTo(S, n) |->
                       IF T = {} THEN 0 ELSE w[pick(T)] + f[T \ {pick(T)}]]
    <3>4. ASSUME NEW U \in UpTo(S, n - 1) PROVE U \in UpTo(S, n) /\ g[U] = f[U]
      <4>1. U \in UpTo(S, n)
        BY <1>1, <2>4 DEF UpTo
      <4>2. f[U] = IF U = {} THEN 0 ELSE w[pick(U)] + f[U \ {pick(U)}]
        BY <3>3 DEF SumsUp
      <4> QED
        BY <4>1, <4>2
    <3>5. ASSUME NEW T \in UpTo(S, n), T # {}
          PROVE  T \ {pick(T)} \in UpTo(S, n - 1)
      BY <1>1, <1>2, <2>4, <3>5 DEF UpTo
    <3>6. ASSUME NEW T \in UpTo(S, n)
          PROVE  g[T] = IF T = {} THEN 0 ELSE w[pick(T)] + g[T \ {pick(T)}]
      <4>1. CASE T = {}
        BY <4>1
      <4>2. CASE T # {}
        <5>1. g[T \ {pick(T)}] = f[T \ {pick(T)}]
          BY <3>4, <3>5, <4>2
        <5> HIDE DEF pick
        <5> QED
          BY <4>2, <5>1
      <4> QED
        BY <4>1, <4>2
    <3>7. g = [T \in UpTo(S, n) |-> g[T]]
      OBVIOUS
    <3> HIDE DEF g
    <3>8. SumsUp(g, w, UpTo(S, n))
      BY <3>6, <3>7 DEF SumsUp
    <3> QED
      BY <2>4, <3>8
  <2> QED
    BY <2>5, <2>6
<1>4. Cardinality(S) \in Nat
  BY FS_CardinalityType
<1>5. UpTo(S, Cardinality(S)) = SUBSET S
  BY <1>1 DEF UpTo
<1>6. PICK f : SumsUp(f, w, UpTo(S, Cardinality(S)))
  BY <1>3, <1>4
<1> QED
  BY <1>5, <1>6

\* Any element may be added last: the order of a sum does not matter.
LEMMA SumPicks ==
  ASSUME NEW S, IsFiniteSet(S), NEW w \in [S -> Nat], NEW f,
         SumsUp(f, w, SUBSET S), NEW T \in SUBSET S
  PROVE  /\ f[T] \in Nat
         /\ \A a \in T : f[T \ {a}] \in Nat /\ f[T] = w[a] + f[T \ {a}]
<1> DEFINE Good(U) ==
             /\ f[U] \in Nat
             /\ \A a \in U : f[U \ {a}] \in Nat /\ f[U] = w[a] + f[U \ {a}]
           B == {U \in SUBSET S : ~Good(U)}
<1>1. SUFFICES ASSUME B # {} PROVE FALSE
  OBVIOUS
<1>2. PICK U \in B : \A x \in U : U \ {x} \notin B
  BY <1>1, B \subseteq SUBSET S, LeastSubset
<1>3. U \in SUBSET S /\ ~Good(U)
  BY <1>2
<1>4. \A x \in U : U \ {x} \in SUBSET S /\ Good(U \ {x})
  BY <1>2
<1>5. U # {}
  <2>1. f[{}] = 0
    BY DEF SumsUp
  <2>2. Good({})
    BY <2>1
  <2> QED
    BY <1>3, <2>2
<1>6. PICK c \in U : f[U] = w[c] + f[U \ {c}]
  <2>1. (CHOOSE x \in U : TRUE) \in U
    BY <1>5
  <2>2. f[U] = w[CHOOSE x \in U : TRUE] + f[U \ {CHOOSE x \in U : TRUE}]
    BY <1>3, <1>5 DEF SumsUp
  <2> QED
    BY <2>1, <2>2
<1>7. \A x \in U : w[x] \in Nat /\ f[U \ {x}] \in Nat
  BY <1>3, <1>4
<1>8. f[U] \in Nat
  BY <1>6, <1>7
<1>9. ASSUME NEW a \in U PROVE f[U] = w[a] + f[U \ {a}]
  <2>1. CASE a = c
    BY <1>6, <2>1
  <2>2. CASE a # c
    <3>1. a \in U \ {c} /\ c \in U \ {a} /\ (U \ {a}) \ {c} = (U \ {c}) \ {a}
      BY <2>2
    <3>2. f[U \ {c}] = w[a] + f[(U \ {c}) \ {a}]
      BY <1>4, <3>1
    <3>3. f[U \ {a}] = w[c] + f[(U \ {c}) \ {a}]
      BY <1>4, <3>1
    <3>4. f[(U \ {c}) \ {a}] \in Nat
      BY <1>4, <3>1
    <3>5. w[a] \in Nat /\ w[c] \in Nat
      BY <1>7
    <3>6. f[U] = w[c] + (w[a] + f[(U \ {c}) \ {a}])
      BY <1>6, <3>2
    <3> HIDE DEF Good, B
    <3> QED
      BY <3>3, <3>4, <3>5, <3>6
  <2> QED
    BY <2>1, <2>2
<1> QED
  BY <1>3, <1>7, <1>8, <1>9

\* Sums of weights that agree on a set agree on it.
LEMMA SumsAgree ==
  ASSUME NEW S, IsFiniteSet(S), NEW v, NEW w, NEW f, NEW g,
         SumsUp(f, v, SUBSET S), SumsUp(g, w, SUBSET S), NEW T \in SUBSET S,
         \A x \in T : v[x] = w[x]
  PROVE  f[T] = g[T]
<1> DEFINE B == {U \in SUBSET T : f[U] # g[U]}
<1>1. SUFFICES ASSUME B # {} PROVE FALSE
  OBVIOUS
<1>2. IsFiniteSet(T)
  BY FS_Subset
<1>3. PICK U \in B : \A x \in U : U \ {x} \notin B
  BY <1>1, <1>2, B \subseteq SUBSET T, LeastSubset
<1>4. U \in SUBSET T /\ U \in SUBSET S /\ f[U] # g[U]
  BY <1>3
<1>5. U # {}
  <2>1. f[{}] = 0 /\ g[{}] = 0
    BY DEF SumsUp
  <2> QED
    BY <1>4, <2>1
<1>6. PICK c \in U : /\ f[U] = v[c] + f[U \ {c}]
                     /\ g[U] = w[c] + g[U \ {c}]
  <2>1. (CHOOSE x \in U : TRUE) \in U
    BY <1>5
  <2>2. /\ f[U] = v[CHOOSE x \in U : TRUE] + f[U \ {CHOOSE x \in U : TRUE}]
        /\ g[U] = w[CHOOSE x \in U : TRUE] + g[U \ {CHOOSE x \in U : TRUE}]
    BY <1>4, <1>5 DEF SumsUp
  <2> QED
    BY <2>1, <2>2
<1>7. f[U \ {c}] = g[U \ {c}] /\ v[c] = w[c]
  BY <1>3, <1>4
<1> QED
  BY <1>4, <1>6, <1>7

-----------------------------------------------------------------------------
(* The tokens of all accounts *)

\* What each account holds.
Held(s) == [a \in Accounts |-> s[<<a, "bal">>] + s[<<a, "locked">>]]

\* Total is the sum of what the accounts hold.
LEMMA TotalIsSum ==
  ASSUME IsFiniteSet(Accounts), NEW s \in [Slots -> Nat]
  PROVE  /\ Held(s) \in [Accounts -> Nat]
         /\ \E f : SumsUp(f, Held(s), SUBSET Accounts) /\ Total(s) = f[Accounts]
<1>0. \A a \in Accounts : <<a, "bal">> \in Slots /\ <<a, "locked">> \in Slots
  BY DEF Slots, Fields
<1>1. Held(s) \in [Accounts -> Nat]
  BY <1>0 DEF Held
<1> DEFINE pick(T) == CHOOSE x \in T : TRUE
           Loop(f) == f = [T \in SUBSET Accounts |->
                             IF T = {} THEN 0
                             ELSE (s[<<pick(T), "bal">>]
                                     + s[<<pick(T), "locked">>])
                                  + f[T \ {pick(T)}]]
<1>2. ASSUME NEW f PROVE SumsUp(f, Held(s), SUBSET Accounts) <=> Loop(f)
  <2>1. \A T \in SUBSET Accounts : T # {} =>
          Held(s)[pick(T)] = s[<<pick(T), "bal">>] + s[<<pick(T), "locked">>]
    BY DEF Held
  <2>2. [T \in SUBSET Accounts |->
           IF T = {} THEN 0 ELSE Held(s)[pick(T)] + f[T \ {pick(T)}]]
        = [T \in SUBSET Accounts |->
             IF T = {} THEN 0
             ELSE (s[<<pick(T), "bal">>] + s[<<pick(T), "locked">>])
                  + f[T \ {pick(T)}]]
    BY <2>1
  <2> QED
    BY <2>2 DEF SumsUp
<1>3. PICK q : Loop(q)
  <2>1. \A w : \E f : SumsUp(f, w, SUBSET Accounts)
    BY SumExists
  <2> HIDE DEF Loop
  <2> QED
    BY <1>2, <2>1
<1> DEFINE r == CHOOSE f : Loop(f)
<1>4. Loop(r)
  BY <1>3, ZenonT(30)
<1>5. Total(s) = r[Accounts]
  BY DEF Total, MapThenSumSet, MapThenFoldSet
<1> QED
  BY <1>1, <1>2, <1>4, <1>5

\* Two storages with the same balances and stakes.
SameFunds(s, t) ==
  \A a \in Accounts : /\ s[<<a, "bal">>] = t[<<a, "bal">>]
                      /\ s[<<a, "locked">>] = t[<<a, "locked">>]

\* The same holdings, the same total; when one account's differ, the total
\* differs by as much.
LEMMA TotalDiffers ==
  ASSUME IsFiniteSet(Accounts), NEW s \in [Slots -> Nat],
         NEW t \in [Slots -> Nat], NEW c \in Accounts,
         \A a \in Accounts \ {c} : Held(s)[a] = Held(t)[a]
  PROVE  /\ Total(s) \in Nat /\ Total(t) \in Nat
         /\ Held(s)[c] \in Nat /\ Held(t)[c] \in Nat
         /\ Total(s) + Held(t)[c] = Total(t) + Held(s)[c]
<1>1. PICK f : /\ SumsUp(f, Held(s), SUBSET Accounts)
               /\ Total(s) = f[Accounts] /\ Held(s) \in [Accounts -> Nat]
  BY TotalIsSum
<1>2. PICK g : /\ SumsUp(g, Held(t), SUBSET Accounts)
               /\ Total(t) = g[Accounts] /\ Held(t) \in [Accounts -> Nat]
  BY TotalIsSum
<1> DEFINE R == Accounts \ {c}
<1>3. /\ f[Accounts] \in Nat /\ f[R] \in Nat
      /\ f[Accounts] = Held(s)[c] + f[R]
  BY <1>1, SumPicks
<1>4. /\ g[Accounts] \in Nat /\ g[R] \in Nat
      /\ g[Accounts] = Held(t)[c] + g[R]
  BY <1>2, SumPicks
<1>5. f[R] = g[R]
  <2>1. \A a \in R : Held(s)[a] = Held(t)[a]
    OBVIOUS
  <2>2. R \in SUBSET Accounts
    OBVIOUS
  <2> HIDE DEF R
  <2> QED
    BY <1>1, <1>2, <2>1, <2>2, SumsAgree
<1>6. Held(s)[c] \in Nat /\ Held(t)[c] \in Nat
  BY <1>1, <1>2
<1> HIDE DEF R
<1> QED
  BY <1>1, <1>2, <1>3, <1>4, <1>5, <1>6

\* Totals are natural numbers and depend on balances and stakes alone.
LEMMA TotalSame ==
  ASSUME IsFiniteSet(Accounts), NEW s \in [Slots -> Nat],
         NEW t \in [Slots -> Nat], SameFunds(s, t)
  PROVE  Total(s) = Total(t) /\ Total(s) \in Nat
<1>1. PICK f : /\ SumsUp(f, Held(s), SUBSET Accounts)
               /\ Total(s) = f[Accounts] /\ Held(s) \in [Accounts -> Nat]
  BY TotalIsSum
<1>2. PICK g : /\ SumsUp(g, Held(t), SUBSET Accounts)
               /\ Total(t) = g[Accounts]
  BY TotalIsSum
<1>3. \A a \in Accounts : Held(s)[a] = Held(t)[a]
  BY DEF Held, SameFunds
<1>4. f[Accounts] = g[Accounts]
  BY <1>1, <1>2, <1>3, SumsAgree
<1>5. f[Accounts] \in Nat
  BY <1>1, SumPicks
<1> QED
  BY <1>1, <1>2, <1>4, <1>5

\* A balance that is set to x changes the total by what it changes.
LEMMA TotalSet ==
  ASSUME IsFiniteSet(Accounts), NEW s \in [Slots -> Nat], NEW c \in Accounts,
         NEW x \in Nat
  PROVE  /\ Total(s) \in Nat /\ Total([s EXCEPT ![<<c, "bal">>] = x]) \in Nat
         /\ s[<<c, "bal">>] \in Nat
         /\ Total([s EXCEPT ![<<c, "bal">>] = x]) + s[<<c, "bal">>]
              = Total(s) + x
<1> DEFINE b == <<c, "bal">>
           t == [s EXCEPT ![b] = x]
<1>1. \A a \in Accounts : /\ <<a, "bal">> \in Slots /\ <<a, "locked">> \in Slots
                          /\ <<a, "locked">> # b
                          /\ a # c => <<a, "bal">> # b
  BY DEF Slots, Fields
<1>2. b \in Slots
  BY <1>1
<1>3. t \in [Slots -> Nat] /\ t[b] = x /\ s[b] \in Nat
  BY <1>2, WriteType
<1>4. \A a \in Accounts : /\ t[<<a, "locked">>] = s[<<a, "locked">>]
                          /\ a # c => t[<<a, "bal">>] = s[<<a, "bal">>]
                          /\ s[<<a, "locked">>] \in Nat
  <2> HIDE DEF b
  <2> QED
    BY <1>1, <1>2
<1>5. /\ Held(s)[c] = s[b] + s[<<c, "locked">>]
      /\ Held(t)[c] = x + s[<<c, "locked">>]
  <2> HIDE DEF t
  <2> QED
    BY <1>3, <1>4 DEF Held
<1>6. \A a \in Accounts \ {c} : Held(s)[a] = Held(t)[a]
  <2> HIDE DEF t
  <2> QED
    BY <1>4 DEF Held
<1> HIDE DEF t
<1>7. /\ Total(s) \in Nat /\ Total(t) \in Nat
      /\ Total(s) + Held(t)[c] = Total(t) + Held(s)[c]
  BY <1>3, <1>6, TotalDiffers
<1>8. Total(t) + s[b] = Total(s) + x
  <2>1. s[<<c, "locked">>] \in Nat
    BY <1>4
  <2> HIDE DEF b
  <2> QED
    BY <1>3, <1>5, <1>7, <2>1
<1> QED
  BY <1>3, <1>7, <1>8 DEF t

\* Crediting an account, debiting one that can pay, and the attached deposit.
LEMMA TotalMoves ==
  ASSUME IsFiniteSet(Accounts), NEW s \in [Slots -> Nat], NEW c \in Accounts,
         NEW x \in Nat
  PROVE  /\ Total(s) \in Nat
         /\ Total(Credit(s, c, x)) = Total(s) + x
         /\ Total(credit_attach(s, c, x)) = Total(s) + x
         /\ s[<<c, "bal">>] >= x => Total(Debit(s, c, x)) + x = Total(s)
<1> DEFINE b == <<c, "bal">>
<1>1. s[b] \in Nat /\ Total(s) \in Nat
  BY TotalSet
<1>2. Total(Credit(s, c, x)) = Total(s) + x
  <2> DEFINE y == s[b] + x
  <2>1. y \in Nat
    BY <1>1
  <2>2. Credit(s, c, x) = [s EXCEPT ![b] = y]
    BY DEF Credit
  <2> HIDE DEF y
  <2>3. /\ Total([s EXCEPT ![b] = y]) \in Nat
        /\ Total([s EXCEPT ![b] = y]) + s[b] = Total(s) + y
    BY <2>1, TotalSet
  <2> HIDE DEF b
  <2> QED
    BY <1>1, <2>2, <2>3 DEF y
<1>3. ASSUME s[b] >= x PROVE Total(Debit(s, c, x)) + x = Total(s)
  <2> DEFINE y == s[b] - x
  <2>1. y \in Nat
    BY <1>1, <1>3
  <2>2. Debit(s, c, x) = [s EXCEPT ![b] = y]
    BY <1>3 DEF Debit
  <2> HIDE DEF y
  <2>3. /\ Total([s EXCEPT ![b] = y]) \in Nat
        /\ Total([s EXCEPT ![b] = y]) + s[b] = Total(s) + y
    BY <2>1, TotalSet
  <2> HIDE DEF b
  <2> QED
    BY <1>1, <2>2, <2>3 DEF y
<1>4. Total(credit_attach(s, c, x)) = Total(s) + x
  BY <1>1, <1>2 DEF credit_attach
<1> QED
  BY <1>1, <1>2, <1>3, <1>4

\* Moving nothing changes nothing.
LEMMA NothingMoves ==
  ASSUME NEW s \in [Slots -> Nat], NEW c
  PROVE  Credit(s, c, 0) = s /\ Debit(s, c, 0) = s
<1> DEFINE b == <<c, "bal">>
<1>1. CASE b \in Slots
  <2>1. s[b] + 0 = s[b] /\ (IF s[b] >= 0 THEN s[b] - 0 ELSE 0) = s[b]
    BY <1>1
  <2>2. /\ Credit(s, c, 0) = [s EXCEPT ![b] = s[b] + 0]
        /\ Debit(s, c, 0) = [s EXCEPT ![b] = IF s[b] >= 0 THEN s[b] - 0 ELSE 0]
    BY DEF Credit, Debit
  <2>3. [s EXCEPT ![b] = s[b]] = s
    OBVIOUS
  <2> HIDE DEF b
  <2> QED
    BY <2>1, <2>2, <2>3, Zenon
<1>2. CASE b \notin Slots
  <2>1. \A y : [s EXCEPT ![b] = y] = s
    BY <1>2
  <2>2. /\ Credit(s, c, 0) = [s EXCEPT ![b] = s[b] + 0]
        /\ Debit(s, c, 0) = [s EXCEPT ![b] = IF s[b] >= 0 THEN s[b] - 0 ELSE 0]
    BY DEF Credit, Debit
  <2> QED
    BY <2>1, <2>2, Zenon
<1> QED
  BY <1>1, <1>2

-----------------------------------------------------------------------------
(* Undoing a batch, and its funds *)

\* An undo list of access keys only.
Keyed(t) == \A j \in 1..Len(t) : t[j].slot[2] = "key"

\* An undo list of access keys and of the two balances of batch b.
OfBatch(t, b) ==
  \A j \in 1..Len(t) :
    \/ t[j].slot[2] = "key"
    \/ t[j].slot \in {<<b.creator, "bal">>, <<b.account, "bal">>}

\* Writing a slot that holds no tokens.
LEMMA WriteFunds ==
  ASSUME NEW s \in [Slots -> Nat], NEW k, k[2] \notin {"bal", "locked"}, NEW x
  PROVE  SameFunds([s EXCEPT ![k] = x], s)
<1>1. \A a \in Accounts : /\ <<a, "bal">> \in Slots /\ <<a, "locked">> \in Slots
                          /\ <<a, "locked">> # k /\ <<a, "bal">> # k
  BY DEF Slots, Fields
<1> QED
  BY <1>1 DEF SameFunds

\* The records of one slot in an undo list.
Records(t, k) == {j \in 1..Len(t) : t[j].slot = k}

\* What an undo list does to one slot.
LEMMA RevertAt ==
  ASSUME NEW s, NEW t, NEW k \in Slots
  PROVE  /\ Records(t, k) = {} => RevertTouched(s, t)[k] = s[k]
         /\ Records(t, k) # {} =>
              RevertTouched(s, t)[k] = t[Max(Records(t, k))].old
BY DEF RevertTouched, Records

\* A list of access keys restores no funds.
LEMMA KeyedFunds ==
  ASSUME NEW s \in [Slots -> Nat], NEW t \in Touches, Keyed(t)
  PROVE  SameFunds(RevertTouched(s, t), s)
<1>1. ASSUME NEW k \in Slots, k[2] # "key"
      PROVE  RevertTouched(s, t)[k] = s[k]
  <2>1. Records(t, k) = {}
    BY <1>1 DEF Keyed, Records
  <2> QED
    BY <2>1, RevertAt
<1>2. \A a \in Accounts : /\ <<a, "bal">> \in Slots /\ <<a, "locked">> \in Slots
  BY DEF Slots, Fields
<1>3. \A a \in Accounts : <<a, "bal">>[2] # "key" /\ <<a, "locked">>[2] # "key"
  OBVIOUS
<1> QED
  BY <1>1, <1>2, <1>3 DEF SameFunds

\* Undoing twice is undoing once.
LEMMA RevertTwice ==
  ASSUME NEW s, NEW t
  PROVE  RevertTouched(RevertTouched(s, t), t) = RevertTouched(s, t)
BY DEF RevertTouched

\* Where a list was extended.
LEMMA Extended ==
  ASSUME NEW t \in Touches, NEW y \in Touches
  PROVE  /\ t \o y \in Touches /\ Len(t) \in Nat /\ Len(y) \in Nat
         /\ Len(t \o y) = Len(t) + Len(y)
         /\ \A j \in 1..Len(t) : (t \o y)[j] = t[j]
         /\ \A j \in 1..Len(y) : (t \o y)[Len(t) + j] = y[j]
         /\ \A j \in 1..Len(t \o y) :
              j \in 1..Len(t) \/ \E i \in 1..Len(y) : j = Len(t) + i
<1>1. Len(t) \in Nat /\ Len(y) \in Nat
  BY LenProperties DEF Touches
<1>2. /\ t \o y \in Touches /\ Len(t \o y) = Len(t) + Len(y)
      /\ \A j \in 1..(Len(t) + Len(y)) :
           (t \o y)[j] = IF j <= Len(t) THEN t[j] ELSE y[j - Len(t)]
  BY ConcatProperties DEF Touches
<1>3. \A j \in 1..Len(t) : (t \o y)[j] = t[j]
  BY <1>1, <1>2
<1>4. ASSUME NEW j \in 1..Len(y) PROVE (t \o y)[Len(t) + j] = y[j]
  <2>1. /\ Len(t) + j \in 1..(Len(t) + Len(y)) /\ ~(Len(t) + j <= Len(t))
        /\ (Len(t) + j) - Len(t) = j
    BY <1>1
  <2> QED
    BY <1>2, <2>1
<1>5. ASSUME NEW j \in 1..Len(t \o y), j \notin 1..Len(t)
      PROVE  \E i \in 1..Len(y) : j = Len(t) + i
  <2>1. j - Len(t) \in 1..Len(y) /\ j = Len(t) + (j - Len(t))
    BY <1>1, <1>2, <1>5
  <2> QED
    BY <2>1
<1> QED
  BY <1>1, <1>2, <1>3, <1>4, <1>5

\* Recording an access key, while the funds stay, changes nothing of what a
\* list does to funds.
LEMMA RecordKey ==
  ASSUME NEW s, NEW u, SameFunds(u, s), NEW t \in Touches, NEW y \in Touches,
         Keyed(y)
  PROVE  /\ SameFunds(RevertTouched(u, t \o y), RevertTouched(s, t))
         /\ Keyed(t) => Keyed(t \o y)
         /\ \A b : OfBatch(t, b) => OfBatch(t \o y, b)
<1> DEFINE v == t \o y
<1>0. /\ Len(t) \in Nat /\ Len(y) \in Nat /\ Len(v) = Len(t) + Len(y)
      /\ \A j \in 1..Len(t) : v[j] = t[j]
      /\ \A j \in 1..Len(y) : v[Len(t) + j] = y[j]
      /\ \A j \in 1..Len(v) :
           j \in 1..Len(t) \/ \E i \in 1..Len(y) : j = Len(t) + i
  BY Extended
<1> HIDE DEF v
<1>1. /\ \A j \in 1..Len(t) : j \in 1..Len(v) /\ v[j] = t[j]
      /\ \A j \in 1..Len(v) : j \in 1..Len(t) \/ v[j].slot[2] = "key"
  <2>1. \A j \in 1..Len(t) : j \in 1..Len(v) /\ v[j] = t[j]
    BY <1>0
  <2>2. ASSUME NEW j \in 1..Len(v), j \notin 1..Len(t)
        PROVE  v[j].slot[2] = "key"
    <3>1. PICK i \in 1..Len(y) : j = Len(t) + i
      BY <1>0, <2>2
    <3>2. v[j] = y[i] /\ y[i].slot[2] = "key"
      BY <1>0, <3>1 DEF Keyed
    <3> QED
      BY <3>2
  <2> QED
    BY <2>1, <2>2
<1>2. ASSUME NEW k \in Slots, k[2] # "key", u[k] = s[k]
      PROVE  RevertTouched(u, v)[k] = RevertTouched(s, t)[k]
  <2> DEFINE at == Records(t, k)
  <2>1. Records(v, k) = at
    BY <1>1, <1>2 DEF Records
  <2>2. CASE at = {}
    <3>1. RevertTouched(u, v)[k] = u[k] /\ RevertTouched(s, t)[k] = s[k]
      BY <2>1, <2>2, RevertAt
    <3> QED
      BY <1>2, <3>1
  <2>3. CASE at # {}
    <3>1. Len(t) \in Nat
      BY LenProperties DEF Touches
    <3>2. at \subseteq 1..Len(t)
      BY DEF Records
    <3> HIDE DEF at
    <3>3. Max(at) \in at
      BY <2>3, <3>1, <3>2, MaxIn
    <3>4. v[Max(at)] = t[Max(at)]
      BY <1>1, <3>2, <3>3
    <3>5. /\ RevertTouched(u, v)[k] = v[Max(at)].old
          /\ RevertTouched(s, t)[k] = t[Max(at)].old
      BY <2>1, <2>3, RevertAt DEF at
    <3> QED
      BY <3>4, <3>5
  <2> QED
    BY <2>2, <2>3
<1>3. \A a \in Accounts : /\ <<a, "bal">> \in Slots /\ <<a, "locked">> \in Slots
                          /\ <<a, "bal">>[2] # "key" /\ <<a, "locked">>[2] # "key"
  BY DEF Slots, Fields
<1>4. SameFunds(RevertTouched(u, v), RevertTouched(s, t))
  BY <1>2, <1>3 DEF SameFunds
<1>5. Keyed(t) => Keyed(v)
  BY <1>1 DEF Keyed
<1>6. ASSUME NEW b, OfBatch(t, b) PROVE OfBatch(v, b)
  BY <1>1, <1>6 DEF OfBatch
<1> QED
  BY <1>4, <1>5, <1>6 DEF v

\* The largest of some indices.
LEMMA MaxIs ==
  ASSUME NEW n \in Nat, NEW T, T \subseteq 1..n, NEW m \in T,
         \A y \in T : y <= m
  PROVE  Max(T) = m
<1>1. \E x \in T : \A y \in T : x >= y
  OBVIOUS
<1>2. Max(T) \in T /\ \A y \in T : Max(T) >= y
  BY <1>1 DEF Max
<1>3. \A y \in T : y \in Int
  OBVIOUS
<1>4. ASSUME NEW z \in T, z <= m, z >= m PROVE z = m
  BY <1>3, <1>4
<1>5. Max(T) <= m /\ Max(T) >= m
  BY <1>2
<1> QED
  BY <1>2, <1>4, <1>5, Zenon

\* Undoing a transfer gives the funds before it, whatever else the batch had
\* recorded of its two balances.
LEMMA RecordTransfer ==
  ASSUME NEW s \in [Slots -> Nat], NEW u, NEW t \in Touches, NEW b,
         NEW x \in [slot : Slots, old : Nat], NEW y \in [slot : Slots, old : Nat],
         b.creator # b.account,
         x.slot = <<b.creator, "bal">>, x.old = s[x.slot],
         y.slot = <<b.account, "bal">>, y.old = s[y.slot],
         \A k \in Slots \ {x.slot, y.slot} : u[k] = s[k],
         Keyed(t) \/ OfBatch(t, b)
  PROVE  /\ SameFunds(RevertTouched(u, t \o <<x, y>>), s)
         /\ OfBatch(t \o <<x, y>>, b)
<1> DEFINE v == t \o <<x, y>>
           n == Len(t)
<1>1. <<x, y>> \in Touches /\ Len(<<x, y>>) = 2
      /\ <<x, y>>[1] = x /\ <<x, y>>[2] = y
  BY DEF Touches
<1>2. n \in Nat /\ Len(v) = n + 2 /\ v \in Touches
      /\ \A j \in 1..n : v[j] = t[j]
  BY <1>1, Extended
<1>3. v[n + 1] = x /\ v[n + 2] = y
  <2>1. \A j \in 1..2 : v[n + j] = <<x, y>>[j]
    BY <1>1, Extended
  <2>2. 1 \in 1..2 /\ 2 \in 1..2
    OBVIOUS
  <2> HIDE DEF v, n
  <2> QED
    BY <1>1, <2>1, <2>2
<1>4. x.slot # y.slot /\ x.slot[2] = "bal" /\ y.slot[2] = "bal"
  OBVIOUS
<1> HIDE DEF v, n
<1>5. \A j \in 1..(n + 2) : j \in 1..n \/ j = n + 1 \/ j = n + 2
  BY <1>2
<1>6. ASSUME NEW j \in 1..n
      PROVE  v[j].slot[2] = "key" \/ v[j].slot \in {x.slot, y.slot}
  BY <1>2, <1>6 DEF Keyed, OfBatch, n
<1>7. OfBatch(v, b)
  BY <1>2, <1>3, <1>5, <1>6 DEF OfBatch
<1>8. ASSUME NEW k \in Slots, k[2] # "key" PROVE RevertTouched(u, v)[k] = s[k]
  <2> DEFINE at == Records(v, k)
  <2>0. /\ n + 2 \in Nat /\ at \subseteq 1..(n + 2)
        /\ \A j \in 1..(n + 2) : j \in at <=> v[j].slot = k
    BY <1>2 DEF Records
  <2>4. at # {} => RevertTouched(u, v)[k] = v[Max(at)].old
    BY RevertAt
  <2>5. at = {} => RevertTouched(u, v)[k] = u[k]
    BY RevertAt
  <2> HIDE DEF at
  <2>1. CASE k = y.slot
    <3>0. n + 2 \in 1..(n + 2) /\ v[n + 2].slot = k
      BY <1>2, <1>3, <2>1
    <3>1. n + 2 \in at /\ \A j \in at : j <= n + 2
      BY <2>0, <3>0
    <3>2. Max(at) = n + 2
      BY <2>0, <3>1, MaxIs
    <3>3. RevertTouched(u, v)[k] = v[n + 2].old
      BY <2>4, <3>1, <3>2
    <3> QED
      BY <1>3, <2>1, <3>3
  <2>2. CASE k = x.slot
    <3>0. n + 1 \in 1..(n + 2) /\ v[n + 1].slot = k /\ v[n + 2].slot # k
      BY <1>2, <1>3, <1>4, <2>2
    <3>a. \A j \in 1..(n + 2) : j # n + 2 => j <= n + 1
      BY <1>2
    <3>1. n + 1 \in at /\ \A j \in at : j <= n + 1
      BY <2>0, <3>0, <3>a
    <3>2. Max(at) = n + 1
      BY <2>0, <3>1, MaxIs
    <3>3. RevertTouched(u, v)[k] = v[n + 1].old
      BY <2>4, <3>1, <3>2
    <3> QED
      BY <1>3, <2>2, <3>3
  <2>3. CASE k \notin {x.slot, y.slot}
    <3>1. \A j \in 1..(n + 2) : v[j].slot # k
      BY <1>3, <1>5, <1>6, <1>8, <2>3
    <3>2. at = {}
      BY <2>0, <3>1
    <3>3. u[k] = s[k]
      BY <2>3
    <3> QED
      BY <2>5, <3>2, <3>3
  <2> QED
    BY <2>1, <2>2, <2>3
<1>9. \A a \in Accounts : /\ <<a, "bal">> \in Slots /\ <<a, "locked">> \in Slots
                          /\ <<a, "bal">>[2] # "key" /\ <<a, "locked">>[2] # "key"
  BY DEF Slots, Fields
<1> QED
  BY <1>7, <1>8, <1>9 DEF SameFunds, v

-----------------------------------------------------------------------------
(* How host calls grow the DAG *)

\* e is d with batches that contract c created and actions that were appended.
GrownFrom(d, e, c) ==
  /\ \A i \in 1..Len(d) :
       /\ i \in 1..Len(e)
       /\ e[i].account = d[i].account /\ e[i].creator = d[i].creator
       /\ \A j \in 1..Len(d[i].actions) :
            /\ j \in 1..Len(e[i].actions)
            /\ e[i].actions[j] = d[i].actions[j]
       /\ \A j \in 1..Len(e[i].actions) :
            j \in 1..Len(d[i].actions) \/ e[i].actions[j].op \in Ops
  /\ \A i \in 1..Len(e) : i \notin 1..Len(d) =>
       /\ e[i].creator = c /\ e[i].account \in Receivers \cup {NoAcct}
       /\ \A j \in 1..Len(e[i].actions) : e[i].actions[j].op = "FnCall"

\* A host function that creates a batch.
LEMMA PushGrows ==
  ASSUME TInv, guest # NoGuest, NEW x \in Receivers \cup {NoAcct},
         NEW deps \in Seq(1..Len(dag)), NEW acts \in Seq(Actions),
         \A j \in 1..Len(acts) : acts[j].op = "FnCall",
         dag_push(deps, x, acts)
  PROVE  GrownFrom(dag, dag', guest.acct)
<1> DEFINE b == [deps |-> deps, account |-> x, creator |-> guest.acct,
                 actions |-> acts]
<1>1. dag' = Append(dag, b)
  BY DEF dag_push
<1>2. deps \in Seq(Nat) /\ guest.acct \in Accounts /\ x \in Accounts \cup {NoAcct}
  BY SeqMonotonic, Types, AccountsAssumption DEF TInv, ControlInv
<1>3. /\ b \in Batches /\ b.creator = guest.acct /\ b.account = x
      /\ b.actions = acts
  BY <1>2 DEF Batches
<1> HIDE DEF b
<1>4. /\ Len(dag) \in Nat /\ Len(dag') = Len(dag) + 1
      /\ dag'[Len(dag) + 1] = b
      /\ \A i \in 1..Len(dag) : dag'[i] = dag[i]
  BY <1>1, <1>3, Types, AppendProperties
<1>5. \A i \in 1..Len(dag) : i \in 1..Len(dag')
  BY <1>4
<1>6. \A i \in 1..Len(dag') : i \notin 1..Len(dag) => dag'[i] = b
  BY <1>4
<1> QED
  BY <1>3, <1>4, <1>5, <1>6 DEF GrownFrom

\* A host function that leaves the DAG alone.
LEMMA SameGrows ==
  ASSUME NEW c
  PROVE  GrownFrom(dag, dag, c)
BY DEF GrownFrom

\* Every host call: only storage_write writes storage, the others grow the DAG.
LEMMA HostCalls ==
  ASSUME TInv, GuestStep
  PROVE  /\ guest # NoGuest /\ GrownFrom(dag, dag', guest.acct)
         /\ UNCHANGED <<stack, guest, phase, tx>>
         /\ \/ UNCHANGED store
            \/ \E v \in {0, 1} : store' = [store EXCEPT ![<<guest.acct, "data">>] = v]
<1>0. /\ \A d \in Deposits : /\ <<FnCall(d)>> \in Seq(Actions)
                             /\ Len(<<FnCall(d)>>) = 1
                             /\ <<FnCall(d)>>[1].op = "FnCall"
      /\ <<>> \in Seq(Actions) /\ Len(<<>>) = 0
      /\ <<>> \in Seq(1..Len(dag))
      /\ \A S : \A x, y \in S : <<x>> \in Seq(S) /\ <<x, y>> \in Seq(S)
      /\ \A h \in Handles : h \in 1..Len(dag) /\ h \in Nat
  <2>1. \A d \in Deposits : FnCall(d) \in Actions /\ FnCall(d).op = "FnCall"
    BY AmountsAssumption DEF FnCall, Actions, ActionKinds
  <2> QED
    BY <2>1, HandleFacts, EmptySeq
<1>a. \A j \in 1..1 : j = 1
  OBVIOUS
<1>b. \A j \in 1..0 : FALSE
  OBVIOUS
<1>c. \A d \in Deposits : \A j \in 1..Len(<<FnCall(d)>>) : <<FnCall(d)>>[j].op = "FnCall"
  BY <1>0, <1>a
<1>d. \A j \in 1..Len(<<>>) : <<>>[j].op = "FnCall"
  BY <1>0, <1>b
<1>e. PromisesOnly => UNCHANGED <<stack, guest, phase, tx, store>>
  BY DEF PromisesOnly
<1>1. ASSUME NEW v \in {0, 1}, StorageWrite(v)
      PROVE  /\ guest # NoGuest /\ GrownFrom(dag, dag', guest.acct)
             /\ UNCHANGED <<stack, guest, phase, tx>>
             /\ store' = [store EXCEPT ![<<guest.acct, "data">>] = v]
  <2>1. dag' = dag
    BY <1>1 DEF StorageWrite, engine
  <2>2. GrownFrom(dag, dag', guest.acct)
    BY <2>1, SameGrows
  <2> QED
    BY <1>1, <2>2 DEF StorageWrite, Calls
<1> DEFINE Goal == /\ guest # NoGuest /\ GrownFrom(dag, dag', guest.acct)
                   /\ UNCHANGED <<stack, guest, phase, tx, store>>
<1>2. ASSUME NEW x \in Receivers, NEW d \in Deposits, promise_create(x, d)
      PROVE  Goal
  BY <1>0, <1>c, <1>e, <1>2, PushGrows DEF promise_create, Calls
<1>3. ASSUME NEW h \in Handles, NEW x \in Receivers, NEW d \in Deposits,
             promise_then(h, x, d)
      PROVE  Goal
  BY <1>0, <1>c, <1>e, <1>3, <<h>> \in Seq(1..Len(dag)), PushGrows
     DEF promise_then, Calls
<1>4. ASSUME NEW h1 \in Handles, NEW h2 \in Handles, promise_and(h1, h2)
      PROVE  Goal
  BY <1>0, <1>d, <1>e, <1>4, <<h1, h2>> \in Seq(1..Len(dag)), PushGrows
     DEF promise_and, Calls
<1>5. ASSUME NEW x \in Receivers, promise_batch_create(x)
      PROVE  Goal
  BY <1>0, <1>d, <1>e, <1>5, PushGrows DEF promise_batch_create, Calls
<1>6. ASSUME NEW h \in Handles, NEW x \in Receivers, promise_batch_then(h, x)
      PROVE  Goal
  BY <1>0, <1>d, <1>e, <1>6, <<h>> \in Seq(1..Len(dag)), PushGrows
     DEF promise_batch_then, Calls
<1>7. ASSUME NEW h \in Handles, NEW op \in ActionKinds,
             promise_batch_action(h, op)
      PROVE  Goal
  <2>1. \A x \in ActionsFor(op) : x \in Actions /\ x.op = op
    BY AmountsAssumption
       DEF ActionsFor, ActionKinds, Actions, FnCall, Transfer, Stake, AddKey,
           DeleteKey, DeleteAccount
  <2>2. PICK x \in ActionsFor(op) :
          dag' = [dag EXCEPT ![h].actions = Append(@, x)]
    BY <1>7 DEF promise_batch_action
  <2>3. dag \in Seq(Batches) /\ dag[h] \in Batches /\ h \in 1..Len(dag)
    BY <1>0, Types, ElementOfSeq
  <2> DEFINE n == Len(dag[h].actions)
             acts == Append(dag[h].actions, x)
             b == [dag[h] EXCEPT !.actions = acts]
  <2>4. /\ n \in Nat /\ acts \in Seq(Actions) /\ Len(acts) = n + 1
        /\ acts[n + 1] = x
        /\ \A j \in 1..n : acts[j] = dag[h].actions[j]
    BY <2>1, <2>2, <2>3, AppendProperties, LenProperties DEF Batches
  <2> HIDE DEF acts
  <2>5. /\ b \in Batches /\ b.account = dag[h].account
        /\ b.creator = dag[h].creator /\ b.actions = acts
    BY <2>3, <2>4 DEF Batches
  <2>6. dag' = [dag EXCEPT ![h] = b]
    BY <2>2 DEF acts
  <2> HIDE DEF b, n
  <2>7. /\ Len(dag') = Len(dag)
        /\ \A i \in 1..Len(dag) : dag'[i] = IF i = h THEN b ELSE dag[i]
    BY <2>3, <2>5, <2>6, ExceptSeq
  <2>8. op \in Ops /\ x.op = op /\ guest # NoGuest
    BY <1>7, <2>1 DEF promise_batch_action, Calls
  <2>9. /\ \A j \in 1..n : j \in 1..Len(acts) /\ acts[j] = dag[h].actions[j]
        /\ \A j \in 1..Len(acts) : j \in 1..n \/ acts[j].op \in Ops
    <3>1. \A j \in 1..(n + 1) : j \in 1..n \/ j = n + 1
      BY <2>4
    <3>2. \A j \in 1..n : j \in 1..(n + 1)
      BY <2>4
    <3> QED
      BY <2>4, <2>8, <3>1, <3>2
  <2>10. ASSUME NEW i \in 1..Len(dag)
         PROVE  /\ i \in 1..Len(dag')
                /\ dag'[i].account = dag[i].account
                /\ dag'[i].creator = dag[i].creator
                /\ \A j \in 1..Len(dag[i].actions) :
                     /\ j \in 1..Len(dag'[i].actions)
                     /\ dag'[i].actions[j] = dag[i].actions[j]
                /\ \A j \in 1..Len(dag'[i].actions) :
                     j \in 1..Len(dag[i].actions) \/ dag'[i].actions[j].op \in Ops
    <3>1. CASE i = h
      <4>1. dag'[i] = b
        BY <2>7, <3>1
      <4> QED
        BY <2>5, <2>7, <2>9, <3>1, <4>1 DEF n
    <3>2. CASE i # h
      BY <2>7, <3>2
    <3> QED
      BY <3>1, <3>2
  <2>11. GrownFrom(dag, dag', guest.acct)
    BY <2>7, <2>10 DEF GrownFrom
  <2> QED
    BY <1>e, <1>7, <2>8, <2>11 DEF promise_batch_action
<1>8. ASSUME NEW h \in Handles, promise_return(h)
      PROVE  Goal
  <2>1. dag' = dag /\ guest # NoGuest
    BY <1>8 DEF promise_return, Calls
  <2>2. GrownFrom(dag, dag', guest.acct)
    BY <2>1, SameGrows
  <2> QED
    BY <1>e, <1>8, <2>1, <2>2 DEF promise_return
<1>9. Goal \/ \E v \in {0, 1} : StorageWrite(v)
  <2> HIDE DEF Goal
  <2> QED
    BY <1>2, <1>3, <1>4, <1>5, <1>6, <1>7, <1>8 DEF GuestStep
<1> QED
  BY <1>1, <1>9

-----------------------------------------------------------------------------
(* Conservation: the inductive invariant *)

\* A frame that waits for its dependencies has touched nothing, one that waits
\* for a contract has a call to it, and only transfers touch balances.
FrameSound(f, d) ==
  /\ f.pc = "deps" => Keyed(f.touched)
  /\ f.pc \in {"call", "child"} =>
       Holds(d[f.idx], "FnCall") /\ d[f.idx].account \in Contracts
  /\ Keyed(f.touched) \/ Holds(d[f.idx], "Transfer")

\* Undoing the batch of frame f in storage s keeps the total.
Undoes(f, d, s) ==
  \/ Keyed(f.touched)
  \/ OfBatch(f.touched, d[f.idx]) /\ Total(RevertTouched(s, f.touched)) = Total(s)

\* The live frames: only the innermost has touched balances.
StackSound(st, d, s) ==
  /\ \A k \in 1..Len(st) : FrameSound(st[k], d)
  /\ \A k \in 1..Len(st) : k # Len(st) => Keyed(st[k].touched)
  /\ st # <<>> => Undoes(st[Len(st)], d, s)

\* What a trap of the running callee puts back is there already.
CallSound(g, p, s) ==
  g # NoGuest /\ p # "entry" =>
    /\ g.dep = 0
    /\ \A f \in {"bal", "locked"} : g.snap[f] = s[<<g.acct, f>>]

Sound == StackSound(stack, dag, store) /\ CallSound(guest, phase, store)

\* The innermost frame, while it is not between actions, has touched no
\* balance.
LEMMA TopSound ==
  ASSUME TInv, Sound, Plain, stack # <<>>
  PROVE  /\ FrameSound(Top, dag) /\ Undoes(Top, dag, store)
         /\ Top.pc # "act" => Keyed(Top.touched)
         /\ Top.touched \in Touches
<1>1. /\ Len(stack) \in 1..Len(stack) /\ Top = stack[Len(stack)]
      /\ Top \in Frames /\ Top.idx \in 1..Len(dag)
  BY TopFacts
<1>2. FrameSound(Top, dag) /\ Undoes(Top, dag, store)
  BY <1>1 DEF Sound, StackSound
<1>3. Top.touched \in Touches /\ Top.pc \in {"deps", "act", "call", "child"}
  BY <1>1 DEF Frames, Touches
<1>4. ASSUME Top.pc \in {"call", "child"} PROVE Keyed(Top.touched)
  BY <1>1, <1>2, <1>4 DEF FrameSound, Plain
<1> QED
  BY <1>2, <1>3, <1>4 DEF FrameSound

\* Replacing the innermost frame.
LEMMA SetTopSound ==
  ASSUME TInv, Sound, stack # <<>>, NEW f \in Frames, NEW s,
         FrameSound(f, dag), Undoes(f, dag, s)
  PROVE  StackSound(SetTop(f), dag, s)
<1>1. /\ Len(SetTop(f)) = Len(stack) /\ SetTop(f) # <<>>
      /\ SetTop(f)[Len(stack)] = f
      /\ \A k \in 1..Len(stack) :
           SetTop(f)[k] = IF k = Len(stack) THEN f ELSE stack[k]
  BY SetTopFacts
<1> QED
  BY <1>1 DEF Sound, StackSound

\* A frame that is entered has touched nothing.
LEMMA NewFrameSound ==
  ASSUME NEW i, NEW d, NEW s
  PROVE  /\ Keyed(NewFrame(i).touched)
         /\ FrameSound(NewFrame(i), d) /\ Undoes(NewFrame(i), d, s)
<1>1. NewFrame(i).touched = <<>> /\ NewFrame(i).pc = "deps" /\ Len(<<>>) = 0
  BY EmptySeq DEF NewFrame
<1>2. Keyed(NewFrame(i).touched)
  BY <1>1 DEF Keyed
<1> QED
  BY <1>1, <1>2 DEF FrameSound, Undoes

\* Stacks of no frame and of one new frame.
LEMMA FewFrames ==
  ASSUME NEW i, NEW d, NEW s
  PROVE  StackSound(<<>>, d, s) /\ StackSound(<<NewFrame(i)>>, d, s)
<1>1. StackSound(<<>>, d, s)
  BY EmptySeq DEF StackSound
<1> DEFINE f == NewFrame(i)
<1>2. FrameSound(f, d) /\ Undoes(f, d, s)
  BY NewFrameSound
<1> HIDE DEF f
<1>3. Len(<<f>>) = 1 /\ <<f>>[1] = f
  OBVIOUS
<1>4. \A k \in 1..1 : k = 1
  OBVIOUS
<1>5. StackSound(<<f>>, d, s)
  BY <1>2, <1>3, <1>4 DEF StackSound
<1> QED
  BY <1>1, <1>5 DEF f

\* A result handed to a frame leaves its undo list alone.
LEMMA ReceiveSound ==
  ASSUME NEW f \in Frames, NEW res, NEW d, FrameSound(f, d)
  PROVE  FrameSound(Receive(f, res), d) /\ Receive(f, res).touched = f.touched
<1>1. /\ Receive(f, res).touched = f.touched /\ Receive(f, res).idx = f.idx
      /\ Receive(f, res).pc = IF f.pc = "deps" THEN "deps" ELSE "act"
  BY DEF Receive, Frames
<1> QED
  BY <1>1 DEF FrameSound

\* A batch returns: the frame below had touched no balance.
LEMMA ReturnSound ==
  ASSUME TInv, Running, Sound, NEW res, Return(res), NEW s
  PROVE  StackSound(stack', dag, s)
<1>1. stack # <<>> /\ stack \in Seq(Frames)
  BY RunningFacts, Types
<1>2. /\ Len(stack) \in Nat \ {0}
      /\ Front(stack) \in Seq(Frames) /\ Len(Front(stack)) = Len(stack) - 1
      /\ \A i \in 1..(Len(stack) - 1) : Front(stack)[i] = stack[i]
  BY <1>1, LastFront
<1>3. CASE Len(stack) > 1
  <2> DEFINE m == Len(stack) - 1
             f == Receive(Front(stack)[m], res)
  <2>1. /\ m \in Nat /\ m \in 1..m
        /\ \A k \in 1..m : k \in 1..Len(stack) /\ k # Len(stack)
    BY <1>2, <1>3
  <2>2. stack' = [Front(stack) EXCEPT ![m] = f]
    BY <1>3 DEF Return
  <2>3. Front(stack)[m] = stack[m] /\ stack[m] \in Frames
    BY <1>1, <1>2, <2>1, ElementOfSeq
  <2>4. \A k \in 1..m : FrameSound(stack[k], dag) /\ Keyed(stack[k].touched)
    BY <2>1 DEF Sound, StackSound
  <2>5. FrameSound(f, dag) /\ Keyed(f.touched)
    BY <2>1, <2>3, <2>4, ReceiveSound
  <2> HIDE DEF f, m
  <2>6. DOMAIN Front(stack) = 1..m /\ Len(Front(stack)) = m
    BY <1>2, LenProperties DEF m
  <2>7. \A k \in 1..m : stack'[k] = IF k = m THEN f ELSE Front(stack)[k]
    BY <2>1, <2>2, <2>6
  <2>8. Len(stack') = m
    <3>1. stack' \in [1..m -> {stack'[k] : k \in 1..m}]
      BY <2>2, <2>6
    <3> QED
      BY <2>1, <3>1, SeqDef, LenProperties
  <2>9. ASSUME NEW k \in 1..m
        PROVE  FrameSound(stack'[k], dag) /\ Keyed(stack'[k].touched)
    <3>1. Front(stack)[k] = stack[k]
      BY <1>2, <2>1 DEF m
    <3> QED
      BY <2>4, <2>5, <2>7, <3>1
  <2>10. Undoes(stack'[Len(stack')], dag, s)
    BY <2>1, <2>8, <2>9 DEF Undoes
  <2> QED
    BY <2>8, <2>9, <2>10 DEF StackSound
<1>4. CASE ~(Len(stack) > 1)
  BY <1>4, FewFrames DEF Return
<1> QED
  BY <1>3, <1>4

\* A growing DAG: what a batch holds it keeps.
LEMMA GrownSound ==
  ASSUME TInv, NEW e, NEW c, GrownFrom(dag, e, c), NEW s, NEW u,
         StackSound(stack, dag, s), stack # <<>> => Keyed(Top.touched)
  PROVE  StackSound(stack, e, u)
<1>1. ASSUME NEW k \in 1..Len(stack)
      PROVE  FrameSound(stack[k], e)
  <2>1. stack[k].idx \in 1..Len(dag) /\ FrameSound(stack[k], dag)
    BY DEF TInv, TypeOK, StackSound
  <2>2. /\ e[stack[k].idx].account = dag[stack[k].idx].account
        /\ \A op : Holds(dag[stack[k].idx], op) => Holds(e[stack[k].idx], op)
    BY <2>1 DEF GrownFrom, Holds
  <2> QED
    BY <2>1, <2>2 DEF FrameSound
<1>2. stack # <<>> => Undoes(stack[Len(stack)], e, u)
  BY TopFacts DEF Undoes
<1> QED
  BY <1>1, <1>2 DEF StackSound

-----------------------------------------------------------------------------
(* Conservation: the steps *)

\* The same funds: the same partition to put back.
LEMMA SameCall ==
  ASSUME TInv, CallSound(guest, phase, store), NEW s, SameFunds(s, store)
  PROVE  CallSound(guest, phase, s)
<1>1. guest # NoGuest => guest.acct \in Accounts
  BY DEF TInv, ControlInv
<1> QED
  BY <1>1 DEF CallSound, SameFunds

\* Host calls write data and promises, never tokens.
LEMMA GuestSound ==
  ASSUME IsFiniteSet(Accounts), TInv, TInv', Sound, Plain, GuestStep
  PROVE  Sound' /\ Total(store') = Total(store)
<1>1. /\ guest # NoGuest /\ GrownFrom(dag, dag', guest.acct)
      /\ UNCHANGED <<stack, guest, phase, tx>>
      /\ \/ UNCHANGED store
         \/ \E v \in {0, 1} : store' = [store EXCEPT ![<<guest.acct, "data">>] = v]
  BY HostCalls
<1>2. store \in [Slots -> Nat]
  BY Types
<1>3. SameFunds(store', store)
  <2>1. CASE UNCHANGED store
    BY <2>1 DEF SameFunds
  <2>2. ASSUME NEW v \in {0, 1},
               store' = [store EXCEPT ![<<guest.acct, "data">>] = v]
        PROVE  SameFunds(store', store)
    <3> DEFINE k == <<guest.acct, "data">>
    <3>1. k[2] \notin {"bal", "locked"}
      OBVIOUS
    <3> HIDE DEF k
    <3>2. SameFunds([store EXCEPT ![k] = v], store)
      BY <1>2, <3>1, WriteFunds
    <3> QED
      BY <2>2, <3>2 DEF k
  <2> QED
    BY <1>1, <2>1, <2>2
<1>4. store' \in [Slots -> Nat]
  BY DEF TInv, TypeOK
<1>5. Total(store') = Total(store)
  <2>1. PICK s : s = store'
    OBVIOUS
  <2>2. s \in [Slots -> Nat] /\ SameFunds(s, store)
    BY <1>3, <1>4, <2>1
  <2>3. Total(s) = Total(store)
    BY <1>2, <2>2, TotalSame
  <2> QED
    BY <2>1, <2>3
<1>6. stack # <<>> => Keyed(Top.touched)
  <2>1. ASSUME stack # <<>> PROVE Top.pc = "call"
    BY <1>1, <2>1, TopFacts DEF TInv, ControlInv
  <2> QED
    BY <2>1, TopSound
<1>7. StackSound(stack', dag', store')
  <2>1. PICK e, u : e = dag' /\ u = store'
    OBVIOUS
  <2>2. GrownFrom(dag, e, guest.acct) /\ StackSound(stack, dag, store)
    BY <1>1, <2>1 DEF Sound
  <2>3. StackSound(stack, e, u)
    BY <1>6, <2>2, GrownSound
  <2> QED
    BY <1>1, <2>1, <2>3
<1>8. CallSound(guest', phase', store')
  BY <1>1, <1>3, SameCall DEF Sound
<1> QED
  BY <1>5, <1>7, <1>8 DEF Sound

\* execute_promise, up to and after the actions of a batch.
LEMMA ResolveSound ==
  ASSUME TInv, Sound, Plain,
         ExecutePromise \/ ForcedFail \/ PublishResults \/ FinishBatch
  PROVE  Sound' /\ store' = store
<1>1. Running /\ UNCHANGED <<dag, store, guest>>
  BY DEF ExecutePromise, ForcedFail, PublishResults, FinishBatch, DepsDone
<1>2. /\ stack # <<>> /\ Top \in Frames /\ Top = stack[Len(stack)]
      /\ Len(stack) \in 1..Len(stack) /\ guest = NoGuest
      /\ Top.idx \in 1..Len(dag)
  BY <1>1, RunningFacts, TopFacts
<1>3. /\ FrameSound(Top, dag) /\ Undoes(Top, dag, store)
      /\ Top.pc # "act" => Keyed(Top.touched)
  BY <1>2, TopSound
<1>4. StackSound(stack', dag, store)
  <2>1. CASE ExecutePromise
    <3> DEFINE c == Callee(Top)
    <3>1. c \in 1..Len(dag) /\ Top.pc \in {"child", "deps"}
      BY <1>1, <2>1, CalleeFacts DEF ExecutePromise
    <3>2. Keyed(Top.touched)
      BY <1>3, <3>1
    <3>3. CASE Memoized(c)
      <4> DEFINE f == Receive(Top, outcomes[c])
      <4>1. stack' = SetTop(f)
        BY <2>1, <3>3 DEF ExecutePromise
      <4>2. outcomes[c] \in Seq(Nat)
        BY <3>3, Types DEF Memoized
      <4>3. /\ f \in Frames /\ FrameSound(f, dag) /\ f.touched = Top.touched
        BY <1>1, <1>2, <1>3, <4>2, RunningFacts, Types, ReceiveType, ReceiveSound
      <4> HIDE DEF f
      <4>4. Undoes(f, dag, store)
        BY <3>2, <4>3 DEF Undoes
      <4> QED
        BY <1>2, <4>1, <4>3, <4>4, SetTopSound
    <3>4. CASE ~Memoized(c)
      <4> DEFINE f == NewFrame(c)
      <4>1. stack' = Append(stack, f)
        BY <2>1, <3>4 DEF ExecutePromise
      <4>2. /\ f \in Frames /\ FrameSound(f, dag) /\ Undoes(f, dag, store)
        BY <3>1, NewFrameType, NewFrameSound
      <4> HIDE DEF f
      <4>3. /\ Len(stack') = Len(stack) + 1 /\ stack'[Len(stack) + 1] = f
            /\ \A k \in 1..Len(stack) : stack'[k] = stack[k]
        BY <4>1, <4>2, PushFacts
      <4>4. \A k \in 1..Len(stack) :
              FrameSound(stack[k], dag) /\ Keyed(stack[k].touched)
        BY <1>2, <3>2 DEF Sound, StackSound
      <4>5. \A k \in 1..Len(stack') : k \in 1..Len(stack) \/ k = Len(stack')
        BY <4>3, Types, LenProperties
      <4> QED
        BY <4>2, <4>3, <4>4, <4>5 DEF StackSound
    <3> QED
      BY <3>3, <3>4
  <2>2. CASE ForcedFail \/ FinishBatch
    BY <1>1, <2>2, ReturnSound DEF ForcedFail, FinishBatch
  <2>3. CASE PublishResults
    <3> DEFINE f == [Top EXCEPT !.pc = "act", !.saved = results, !.start = store]
    <3>1. stack' = SetTop(f) /\ Top.pc = "deps"
      BY <2>3 DEF PublishResults, DepsDone
    <3>2. /\ f \in Frames /\ f.touched = Top.touched /\ f.idx = Top.idx
          /\ f.pc = "act"
      BY <1>2, Types DEF Frames
    <3> HIDE DEF f
    <3>3. FrameSound(f, dag) /\ Undoes(f, dag, store)
      BY <1>3, <3>1, <3>2 DEF FrameSound, Undoes
    <3> QED
      BY <1>2, <3>1, <3>2, <3>3, SetTopSound
  <2> QED
    BY <2>1, <2>2, <2>3
<1>5. CallSound(guest', phase', store')
  BY <1>1, <1>2 DEF CallSound
<1> QED
  BY <1>1, <1>4, <1>5 DEF Sound

\* The batch at hand has the action it is about to run.
LEMMA ActionHeld ==
  ASSUME TInv, Plain, ActionsLeft
  PROVE  /\ Holds(Batch, Action.op) /\ Top.idx \in 1..Len(dag) /\ Top.pc = "act"
         /\ Action.op \notin {"Stake", "DeleteAccount"}
         /\ Action.op = "Transfer" => Batch.creator # Batch.account
         /\ Action.op = "FnCall" /\ Batch.account \in Contracts => Action.amt = 0
<1>1. Top \in Frames /\ Batch \in Batches /\ Top.idx \in 1..Len(dag)
  BY ActionFacts, TopFacts
<1>2. Len(Batch.actions) \in Nat
  BY <1>1, LenProperties DEF Batches
<1>3. Top.ap \in 1..Len(Batch.actions) /\ Top.pc = "act"
  BY <1>1, <1>2 DEF ActionsLeft, Frames
<1>4. Holds(Batch, Action.op)
  BY <1>3 DEF Holds, Action
<1> QED
  BY <1>1, <1>3, <1>4 DEF Plain, Batch, Action

\* What an arm of the loop leaves alone keeps the callee sound: there is none.
LEMMA ArmSound ==
  ASSUME TInv, ActionsLeft, ActionOnly, StackSound(stack', dag, store')
  PROVE  Sound'
<1>1. guest' = NoGuest /\ dag' = dag
  BY ActionFacts DEF ActionOnly, engine, Running
<1> QED
  BY <1>1 DEF Sound, CallSound

\* The frame after an arm that succeeds.
LEMMA SucceedFrame ==
  ASSUME TInv, ActionsLeft, NEW s, NEW t \in Touches, Succeed(s, t)
  PROVE  \E f \in Frames : /\ stack' = SetTop(f) /\ store' = s
                           /\ f.idx = Top.idx /\ f.pc = Top.pc
                           /\ f.touched = Top.touched \o t
<1> DEFINE u == Top.touched \o t
           f == [Top EXCEPT !.ap = Top.ap + 1, !.out = Append(Top.out, Top.idx),
                            !.touched = u]
<1>1. Top \in Frames
  BY ActionFacts
<1>2. store' = s /\ stack' = SetTop(f)
  BY DEF Succeed
<1>3. u \in Touches
  BY <1>1, ConcatProperties DEF Frames, Touches
<1> HIDE DEF u
<1>4. Append(Top.out, Top.idx) \in Seq(Nat) /\ Top.ap + 1 \in Nat \ {0}
  BY <1>1, AppendProperties DEF Frames
<1>5. f \in Frames /\ f.touched = u /\ f.idx = Top.idx /\ f.pc = Top.pc
  BY <1>1, <1>3, <1>4 DEF Frames, Touches
<1> QED
  BY <1>2, <1>5 DEF u

\* An arm that succeeds and moves no tokens.
LEMMA SucceedSound ==
  ASSUME IsFiniteSet(Accounts), TInv, Sound, Plain, ActionsLeft, ActionOnly,
         NEW s \in [Slots -> Nat], SameFunds(s, store),
         NEW t \in Touches, Keyed(t), Succeed(s, t)
  PROVE  Sound' /\ Total(store') = Total(store)
<1>1. /\ stack # <<>> /\ Top.pc = "act" /\ store \in [Slots -> Nat]
  BY ActionFacts, Types DEF ActionsLeft
<1>2. /\ FrameSound(Top, dag) /\ Undoes(Top, dag, store)
      /\ Top.touched \in Touches
  BY <1>1, TopSound
<1>3. PICK f \in Frames : /\ stack' = SetTop(f) /\ store' = s
                          /\ f.idx = Top.idx /\ f.pc = Top.pc
                          /\ f.touched = Top.touched \o t
  BY SucceedFrame
<1>4. /\ SameFunds(RevertTouched(s, f.touched), RevertTouched(store, Top.touched))
      /\ Keyed(Top.touched) => Keyed(f.touched)
      /\ \A b : OfBatch(Top.touched, b) => OfBatch(f.touched, b)
      /\ f.touched \in Touches
  <2> DEFINE u == Top.touched
  <2>1. u \in Touches
    BY <1>2
  <2> HIDE DEF u
  <2>2. /\ SameFunds(RevertTouched(s, u \o t), RevertTouched(store, u))
        /\ Keyed(u) => Keyed(u \o t)
        /\ \A b : OfBatch(u, b) => OfBatch(u \o t, b)
    BY <2>1, RecordKey
  <2>3. u \o t \in Touches
    BY <2>1, Extended
  <2>4. f.touched = u \o t
    BY <1>3 DEF u
  <2> QED
    BY <2>2, <2>3, <2>4 DEF u
<1>5. FrameSound(f, dag)
  BY <1>1, <1>2, <1>3, <1>4 DEF FrameSound
<1>6. Total(s) = Total(store)
  BY <1>1, TotalSame
<1>7. Undoes(f, dag, s)
  <2>1. /\ RevertTouched(s, f.touched) \in [Slots -> Nat]
        /\ RevertTouched(store, Top.touched) \in [Slots -> Nat]
    BY <1>1, <1>2, <1>4, RevertType DEF Touches
  <2>2. Total(RevertTouched(s, f.touched))
          = Total(RevertTouched(store, Top.touched))
    BY <1>4, <2>1, TotalSame
  <2> QED
    BY <1>2, <1>3, <1>4, <1>6, <2>2, Zenon DEF Undoes
<1>8. StackSound(stack', dag, store')
  BY <1>1, <1>3, <1>5, <1>7, SetTopSound
<1> QED
  BY <1>3, <1>6, <1>8, ArmSound

\* An arm that fails: what it puts back has the same total.
LEMMA RevertSound ==
  ASSUME IsFiniteSet(Accounts), TInv, Sound, Plain, ActionsLeft, ActionOnly,
         Revert
  PROVE  Sound' /\ Total(store') = Total(store)
<1> DEFINE f == [Top EXCEPT !.ap = Len(Batch.actions) + 1,
                            !.out = Append(Top.out, Failed)]
           s == RevertTouched(store, Top.touched)
<1>1. /\ stack # <<>> /\ Top \in Frames /\ Batch \in Batches
      /\ store \in [Slots -> Nat]
  BY ActionFacts, TopFacts, Types
<1>2. /\ FrameSound(Top, dag) /\ Undoes(Top, dag, store)
      /\ Top.touched \in Touches
  BY <1>1, TopSound
<1>3. store' = s /\ stack' = SetTop(f)
  BY DEF Revert
<1>4. /\ Append(Top.out, Failed) \in Seq(Nat)
      /\ Len(Batch.actions) + 1 \in Nat \ {0}
  <2>1. Len(Batch.actions) \in Nat
    BY <1>1, LenProperties DEF Batches
  <2> QED
    BY <1>1, <2>1, AppendProperties DEF Frames, Failed
<1>5. /\ f \in Frames /\ f.touched = Top.touched /\ f.idx = Top.idx
      /\ f.pc = Top.pc
  BY <1>1, <1>4 DEF Frames
<1> HIDE DEF f
<1>6. Total(s) = Total(store)
  <2>1. CASE Keyed(Top.touched)
    <3>1. SameFunds(s, store) /\ s \in [Slots -> Nat]
      BY <1>1, <1>2, <2>1, KeyedFunds, RevertType DEF Touches
    <3> HIDE DEF s
    <3> QED
      BY <1>1, <3>1, TotalSame
  <2>2. CASE ~Keyed(Top.touched)
    BY <1>2, <2>2 DEF Undoes
  <2> QED
    BY <2>1, <2>2
<1>7. FrameSound(f, dag)
  BY <1>2, <1>5 DEF FrameSound
<1>8. Undoes(f, dag, s)
  <2>1. RevertTouched(s, f.touched) = s
    BY <1>5, RevertTwice
  <2> HIDE DEF s
  <2> QED
    BY <1>2, <1>5, <2>1 DEF Undoes
<1>9. StackSound(stack', dag, store')
  BY <1>1, <1>3, <1>5, <1>7, <1>8, SetTopSound
<1> QED
  BY <1>3, <1>6, <1>9, ArmSound

\* What a covered transfer does to storage.
LEMMA TransferStore ==
  ASSUME IsFiniteSet(Accounts), NEW s \in [Slots -> Nat], NEW c \in Accounts,
         NEW a \in Accounts, c # a, NEW x \in Nat, s[<<c, "bal">>] >= x,
         NEW d, d = Debit(s, c, x), NEW u, u = Credit(d, a, x)
  PROVE  /\ d \in [Slots -> Nat] /\ u \in [Slots -> Nat]
         /\ d[<<a, "bal">>] = s[<<a, "bal">>]
         /\ \A k \in Slots \ {<<c, "bal">>, <<a, "bal">>} : u[k] = s[k]
         /\ Total(u) = Total(s)
<1> DEFINE from == <<c, "bal">>
           to == <<a, "bal">>
<1>1. d \in [Slots -> Nat]
  BY DebitType
<1>2. Total(d) + x = Total(s) /\ Total(s) \in Nat
  BY TotalMoves
<1>3. from # to /\ from \in Slots /\ to \in Slots
  BY DEF Slots, Fields
<1>4. \A k \in Slots : k # from => d[k] = s[k]
  <2> HIDE DEF from, to
  <2> QED
    BY <1>3 DEF Debit, from
<1>5. u \in [Slots -> Nat]
  BY <1>1, CreditType
<1>6. Total(u) = Total(d) + x /\ Total(d) \in Nat
  BY <1>1, TotalMoves, ZenonT(30)
<1>7. \A k \in Slots : k # to => u[k] = d[k]
  <2> HIDE DEF from, to
  <2> QED
    BY <1>1, <1>3 DEF Credit, to
<1>8. Total(u) = Total(s)
  BY <1>2, <1>6
<1>9. \A k \in Slots \ {from, to} : u[k] = s[k]
  <2> HIDE DEF from, to
  <2> QED
    BY <1>4, <1>7
<1> QED
  BY <1>1, <1>3, <1>4, <1>5, <1>8, <1>9

\* A transfer moves tokens and records how to move them back.
LEMMA TransferSound ==
  ASSUME IsFiniteSet(Accounts), TInv, Sound, Plain, DoTransfer
  PROVE  Sound' /\ Total(store') = Total(store)
<1> DEFINE b == Batch
           from == <<b.creator, "bal">>
           to == <<b.account, "bal">>
           amt == Action.amt
           d == Debit(store, b.creator, amt)
           u == Credit(d, b.account, amt)
           x == Touch(from, store)
           y == Touch(to, d)
           t == Top.touched
<1>1. ActionsLeft /\ ActionOnly /\ Action.op = "Transfer"
  BY DEF DoTransfer
<1>2. /\ stack # <<>> /\ Top.pc = "act" /\ store \in [Slots -> Nat]
      /\ b.creator \in Accounts /\ b.account \in Accounts /\ amt \in Nat
      /\ from \in Slots /\ to \in Slots
  BY <1>1, ActionFacts, Types DEF ActionsLeft, Fields
<1>3. b.creator # b.account /\ Holds(b, "Transfer")
  BY <1>1, ActionHeld
<1>4. Revert \/ (store[from] >= amt /\ Succeed(u, <<x, y>>))
  <2>1. store[from] \in Nat
    BY <1>2
  <2> QED
    BY <1>2, <2>1 DEF DoTransfer
<1>5. CASE Revert
  BY <1>1, <1>5, RevertSound
<1>6. CASE store[from] >= amt /\ Succeed(u, <<x, y>>)
  <2>0. d = Debit(store, b.creator, amt) /\ u = Credit(d, b.account, amt)
    OBVIOUS
  <2> HIDE DEF d, u, b, amt
  <2>1. /\ d \in [Slots -> Nat] /\ u \in [Slots -> Nat] /\ d[to] = store[to]
        /\ \A k \in Slots \ {from, to} : u[k] = store[k]
        /\ Total(u) = Total(store)
    <3>1. PICK c, a, s : c = b.creator /\ a = b.account /\ s = store
      OBVIOUS
    <3>2. /\ IsFiniteSet(Accounts) /\ s \in [Slots -> Nat] /\ c \in Accounts
          /\ a \in Accounts /\ c # a /\ amt \in Nat /\ s[<<c, "bal">>] >= amt
          /\ d = Debit(s, c, amt) /\ u = Credit(d, a, amt)
      BY <1>2, <1>3, <1>6, <2>0, <3>1
    <3>3. /\ d \in [Slots -> Nat] /\ u \in [Slots -> Nat]
          /\ d[<<a, "bal">>] = s[<<a, "bal">>]
          /\ \A k \in Slots \ {<<c, "bal">>, <<a, "bal">>} : u[k] = s[k]
          /\ Total(u) = Total(s)
      BY <3>2, TransferStore
    <3> QED
      BY <3>1, <3>3
  <2>2. /\ FrameSound(Top, dag) /\ Undoes(Top, dag, store) /\ t \in Touches
    BY <1>2, TopSound
  <2>3. /\ x \in [slot : Slots, old : Nat] /\ y \in [slot : Slots, old : Nat]
        /\ x.slot = from /\ x.old = store[from]
        /\ y.slot = to /\ y.old = store[to]
    BY <1>2, <2>1 DEF Touch
  <2> HIDE DEF x, y
  <2>4. <<x, y>> \in Touches
    BY <2>3 DEF Touches
  <2>5. PICK f \in Frames : /\ stack' = SetTop(f) /\ store' = u
                            /\ f.idx = Top.idx /\ f.pc = Top.pc
                            /\ f.touched = t \o <<x, y>>
    BY <1>1, <1>6, <2>4, SucceedFrame
  <2>6. Keyed(t) \/ OfBatch(t, b)
    BY <2>2 DEF Undoes, Batch, b
  <2> HIDE DEF t
  <2>7. /\ SameFunds(RevertTouched(u, t \o <<x, y>>), store)
        /\ OfBatch(t \o <<x, y>>, b)
    BY <1>2, <1>3, <2>1, <2>2, <2>3, <2>6, RecordTransfer
  <2>8. t \o <<x, y>> \in Touches
    BY <2>2, <2>4, Extended
  <2>9. RevertTouched(u, t \o <<x, y>>) \in [Slots -> Nat]
    BY <2>1, <2>8, RevertType DEF Touches
  <2>10. Total(RevertTouched(u, t \o <<x, y>>)) = Total(store)
    BY <1>2, <2>7, <2>9, TotalSame
  <2>11. FrameSound(f, dag)
    BY <1>2, <1>3, <2>5 DEF FrameSound, Batch, b
  <2>12. Undoes(f, dag, u)
    BY <2>1, <2>5, <2>7, <2>10 DEF Undoes, Batch, b
  <2>13. StackSound(stack', dag, store')
    BY <1>2, <2>5, <2>11, <2>12, SetTopSound
  <2> QED
    BY <1>1, <2>1, <2>5, <2>13, ArmSound
<1> QED
  BY <1>4, <1>5, <1>6

\* The actions of a plain batch that are not calls.
LEMMA ActionSound ==
  ASSUME IsFiniteSet(Accounts), TInv, Sound, Plain,
         DoTransfer \/ DoStake \/ DoAddKey \/ DoDeleteKey \/ DoDeleteAccount
  PROVE  Sound' /\ Total(store') = Total(store)
<1>0. ActionsLeft /\ ActionOnly
  BY DEF DoTransfer, DoStake, DoAddKey, DoDeleteKey, DoDeleteAccount
<1>1. ~DoStake /\ ~DoDeleteAccount
  BY <1>0, ActionHeld DEF DoStake, DoDeleteAccount
<1>2. store \in [Slots -> Nat] /\ <<>> \in Touches /\ Len(<<>>) = 0
  BY Types, EmptySeq DEF Touches
<1>3. \A j \in 1..1 : j = 1
  OBVIOUS
<1>4. CASE DoTransfer
  BY <1>4, TransferSound
<1>5. CASE DoAddKey
  <2> DEFINE x == Touch(LooseKey, store)
             k == LooseKey
             s == [store EXCEPT ![k] = 1]
  <2>1. Succeed(s, <<x>>) \/ Succeed(s, <<>>)
    BY <1>5 DEF DoAddKey
  <2>2. /\ x \in [slot : Slots, old : Nat] /\ x.slot = k
        /\ k[2] = "key" /\ k[2] \notin {"bal", "locked"}
    BY <1>2 DEF Touch, LooseKey, Slots
  <2> HIDE DEF x, k
  <2>3. SameFunds(s, store) /\ s \in [Slots -> Nat]
    BY <1>2, <2>2, WriteFunds, WriteType
  <2> HIDE DEF s
  <2>4. <<x>> \in Touches /\ Len(<<x>>) = 1 /\ <<x>>[1] = x
    BY <2>2 DEF Touches
  <2>5. Keyed(<<x>>) /\ Keyed(<<>>)
    BY <1>2, <1>3, <2>2, <2>4 DEF Keyed
  <2>6. CASE Succeed(s, <<x>>)
    BY <1>0, <2>3, <2>4, <2>5, <2>6, SucceedSound
  <2>7. CASE Succeed(s, <<>>)
    BY <1>0, <1>2, <2>3, <2>5, <2>7, SucceedSound
  <2> QED
    BY <2>1, <2>6, <2>7
<1>6. CASE DoDeleteKey
  <2> DEFINE k == <<Batch.account, "key">>
             s == [store EXCEPT ![k] = 0]
             x == [slot |-> k, old |-> 0]
  <2>1. Revert \/ Succeed(s, <<x>>)
    BY <1>6 DEF DoDeleteKey
  <2>2. k \in Slots /\ k[2] = "key" /\ k[2] \notin {"bal", "locked"}
    BY <1>0, ActionFacts DEF Fields
  <2> HIDE DEF k
  <2>3. x \in [slot : Slots, old : Nat] /\ x.slot = k
    BY <2>2
  <2> HIDE DEF x
  <2>4. SameFunds(s, store) /\ s \in [Slots -> Nat]
    BY <1>2, <2>2, WriteFunds, WriteType
  <2> HIDE DEF s
  <2>5. <<x>> \in Touches /\ Len(<<x>>) = 1 /\ <<x>>[1] = x
    BY <2>3 DEF Touches
  <2>6. Keyed(<<x>>)
    BY <1>3, <2>2, <2>3, <2>5 DEF Keyed
  <2>7. CASE Revert
    BY <1>0, <2>7, RevertSound
  <2>8. CASE Succeed(s, <<x>>)
    BY <1>0, <2>4, <2>5, <2>6, <2>8, SucceedSound
  <2> QED
    BY <2>1, <2>7, <2>8
<1> QED
  BY <1>1, <1>4, <1>5, <1>6

\* A call moves no tokens to a contract: it starts, fails, or unwinds.
LEMMA CallMoves ==
  ASSUME TInv, Sound, Plain, CallUnknown \/ CallStart \/ CallError
  PROVE  /\ Sound'
         /\ store' = store \/ (phase = "root" /\ store' = tx.snap)
<1>0. ActionsLeft /\ Action.op = "FnCall" /\ dag' = dag
  BY DEF CallUnknown, CallStart, CallError, AtCall, engine
<1>1. /\ Running /\ stack # <<>> /\ Top \in Frames /\ Top.pc = "act"
      /\ guest = NoGuest
  BY <1>0, ActionFacts DEF ActionsLeft, Running
<1>2. /\ FrameSound(Top, dag) /\ Undoes(Top, dag, store)
      /\ Top.touched \in Touches /\ Top.idx \in 1..Len(dag)
      /\ Holds(dag[Top.idx], "FnCall")
      /\ Batch.account \in Contracts => Action.amt = 0
  BY <1>0, <1>1, TopSound, ActionHeld, TopFacts DEF Batch
<1>3. Batch.account \in Contracts => Keyed(Top.touched)
  BY <1>2 DEF FrameSound, Plain, Batch
<1>4. Batch.account \in Contracts => MoveDeposit(store) = store
  <2>1. PICK c, a, s : c = Batch.creator /\ a = Batch.account /\ s = store
    OBVIOUS
  <2>2. s \in [Slots -> Nat]
    BY <2>1, Types
  <2>3. Credit(s, a, 0) = s /\ Debit(s, c, 0) = s
    BY <2>2, NothingMoves
  <2> QED
    BY <1>2, <2>1, <2>3, Zenon DEF MoveDeposit
<1>5. CASE CallUnknown
  <2> DEFINE f == [Top EXCEPT !.ap = Top.ap + 1, !.out = Append(Top.out, Failed)]
  <2>1. stack' = SetTop(f) /\ store' = store /\ guest' = guest
    BY <1>5 DEF CallUnknown
  <2>2. Append(Top.out, Failed) \in Seq(Nat) /\ Top.ap + 1 \in Nat \ {0}
    BY <1>1, AppendProperties DEF Frames, Failed
  <2>3. /\ f \in Frames /\ f.touched = Top.touched /\ f.idx = Top.idx
        /\ f.pc = Top.pc
    BY <1>1, <2>2 DEF Frames
  <2> HIDE DEF f
  <2>4. FrameSound(f, dag) /\ Undoes(f, dag, store)
    BY <1>2, <2>3, Zenon DEF FrameSound, Undoes
  <2>5. StackSound(stack', dag, store)
    BY <1>1, <2>1, <2>3, <2>4, SetTopSound
  <2> QED
    BY <1>0, <1>1, <2>1, <2>5 DEF Sound, CallSound
<1>6. CASE CallStart
  <2> DEFINE f == [Top EXCEPT !.pc = "call"]
             snap == snapshot_partition(store', Batch.account)
  <2>1. /\ stack' = SetTop(f) /\ store' = MoveDeposit(store)
        /\ Batch.account \in Contracts
        /\ guest' = [acct |-> Batch.account, pred |-> Batch.creator,
                     dep |-> Action.amt, base |-> Len(dag), snap |-> snap,
                     outer |-> pending]
    BY <1>6 DEF CallStart
  <2>2. \A x \in {"bal", "locked"} : snap[x] = store'[<<Batch.account, x>>]
    BY DEF snapshot_partition, Fields
  <2> HIDE DEF snap
  <2>3. /\ f \in Frames /\ f.touched = Top.touched /\ f.idx = Top.idx
        /\ f.pc = "call"
    BY <1>1 DEF Frames
  <2> HIDE DEF f
  <2>4. Keyed(f.touched) /\ store' = store /\ Action.amt = 0
    BY <1>2, <1>3, <1>4, <2>1, <2>3
  <2>5. FrameSound(f, dag) /\ Undoes(f, dag, store)
    BY <1>2, <2>1, <2>3, <2>4 DEF FrameSound, Undoes, Batch
  <2>6. StackSound(stack', dag, store)
    BY <1>1, <2>1, <2>3, <2>5, SetTopSound
  <2>7. CallSound(guest', phase', store')
    BY <2>1, <2>2, <2>4 DEF CallSound
  <2> QED
    BY <1>0, <2>4, <2>6, <2>7 DEF Sound
<1>7. CASE CallError
  <2>1. /\ stack' = <<>> /\ guest' = guest /\ Batch.account \in Contracts
        /\ store' = IF phase = "root" THEN tx.snap ELSE MoveDeposit(store)
    BY <1>7, AccountsAssumption DEF CallError
  <2>2. StackSound(stack', dag', store')
    <3>1. PICK d, s : d = dag' /\ s = store'
      OBVIOUS
    <3>2. StackSound(<<>>, d, s)
      BY FewFrames
    <3> QED
      BY <2>1, <3>1, <3>2, Zenon
  <2> QED
    BY <1>1, <1>4, <2>1, <2>2 DEF Sound, CallSound
<1> QED
  BY <1>5, <1>6, <1>7

\* A call ends: what a trap puts back of the callee's tokens is there already.
LEMMA EndSound ==
  ASSUME IsFiniteSet(Accounts), TInv, TInv', Sound, Plain, CallReturn \/ CallTrap
  PROVE  Sound' /\ Total(store') = Total(store)
<1>0. dag' = dag /\ guest' = NoGuest /\ InCall /\ guest # NoGuest
  BY DEF CallReturn, CallTrap, EndCall, InCall
<1>2. stack # <<>> /\ Top.pc = "call"
  BY <1>0, TopFacts DEF InCall, TInv, ControlInv
<1>3. Top \in Frames /\ Top.idx \in Nat
  BY <1>2, TopFacts DEF Frames
<1>4. FrameSound(Top, dag) /\ Keyed(Top.touched)
  BY <1>2, TopSound
<1>5. SameFunds(store', store)
  <2>1. CASE CallReturn
    BY <2>1 DEF CallReturn, SameFunds
  <2>2. CASE CallTrap
    <3> DEFINE s == restore_partition(store, guest.snap, guest.acct)
    <3>1. store' = Credit(s, guest.pred, guest.dep) /\ guest.dep = 0
      BY <1>0, <2>2 DEF CallTrap, Sound, CallSound, InCall
    <3>2. s \in [Slots -> Nat]
      BY Types, PartitionType DEF Guests
    <3>3. SameFunds(s, store)
      <4>1. \A x \in {"bal", "locked"} :
              guest.snap[x] = store[<<guest.acct, x>>]
        BY <1>0 DEF Sound, CallSound, InCall
      <4>2. \A x \in Accounts : <<x, "bal">> \in Slots /\ <<x, "locked">> \in Slots
        BY DEF Slots, Fields
      <4> QED
        BY <4>1, <4>2 DEF restore_partition, SameFunds
    <3> HIDE DEF s
    <3>4. store' = s
      <4>1. PICK c : c = guest.pred
        OBVIOUS
      <4>2. Credit(s, c, 0) = s
        BY <3>2, NothingMoves
      <4> QED
        BY <3>1, <4>1, <4>2, Zenon
    <3> QED
      BY <3>3, <3>4, Zenon
  <2> QED
    BY <2>1, <2>2
<1>6. Total(store') = Total(store)
  <2>1. PICK s : s = store'
    OBVIOUS
  <2>2. s \in [Slots -> Nat] /\ SameFunds(s, store) /\ store \in [Slots -> Nat]
    BY <1>5, <2>1, Types DEF TInv, TypeOK
  <2>3. Total(s) = Total(store)
    BY <2>2, TotalSame
  <2> QED
    BY <2>1, <2>3
<1>7. PICK r \in Nat : EndCall(r)
  BY <1>3 DEF CallReturn, CallTrap, Failed
<1>8. \E f \in Frames : /\ stack' = SetTop(f) /\ f.touched = Top.touched
                        /\ f.idx = Top.idx /\ f.pc \in {"act", "child"}
  <2>1. CASE pending = 0
    <3> DEFINE f == [Top EXCEPT !.pc = "act", !.ap = Top.ap + 1,
                                !.out = Append(Top.out, r)]
    <3>1. stack' = SetTop(f)
      BY <1>7, <2>1 DEF EndCall
    <3>2. Append(Top.out, r) \in Seq(Nat) /\ Top.ap + 1 \in Nat \ {0}
      BY <1>3, AppendProperties DEF Frames
    <3>3. /\ f \in Frames /\ f.touched = Top.touched /\ f.idx = Top.idx
          /\ f.pc = "act"
      BY <1>3, <3>2 DEF Frames
    <3> QED
      BY <3>1, <3>3
  <2>2. CASE pending # 0
    <3> DEFINE f == [Top EXCEPT !.pc = "child", !.child = pending, !.local = r]
    <3>1. stack' = SetTop(f)
      BY <1>7, <2>2 DEF EndCall
    <3>2. /\ f \in Frames /\ f.touched = Top.touched /\ f.idx = Top.idx
          /\ f.pc = "child"
      BY <1>3, Types DEF Frames
    <3> QED
      BY <3>1, <3>2
  <2> QED
    BY <2>1, <2>2
<1>9. PICK f \in Frames : /\ stack' = SetTop(f) /\ f.touched = Top.touched
                          /\ f.idx = Top.idx /\ f.pc \in {"act", "child"}
  BY <1>8
<1>10. StackSound(stack', dag, store')
  <2>1. PICK s : s = store'
    OBVIOUS
  <2>2. FrameSound(f, dag) /\ Undoes(f, dag, s)
    BY <1>2, <1>4, <1>9 DEF FrameSound, Undoes
  <2>3. StackSound(SetTop(f), dag, s)
    BY <1>2, <2>2, SetTopSound
  <2> QED
    BY <1>9, <2>1, <2>3, Zenon
<1> QED
  BY <1>0, <1>6, <1>10 DEF Sound, CallSound

\* execute_tx, from the end of the entry call: only a trap changes storage.
LEMMA TxEndSound ==
  ASSUME TInv, Sound,
         NoMethod \/ EntryReturn \/ EntryTrap \/ DrainNext \/ DrainDone
  PROVE  Sound' /\ (EntryTrap \/ store' = store)
<1>1. /\ dag' = dag /\ (EntryTrap \/ store' = store)
      /\ guest' = NoGuest \/ (guest' = guest /\ phase # "entry" /\ stack = <<>>)
      /\ \/ UNCHANGED stack
         \/ stack' = <<>>
         \/ \E i : stack' = <<NewFrame(i)>>
  BY DEF NoMethod, EntryReturn, EntryTrap, DrainNext, DrainDone, engine
<1>2. guest' = NoGuest
  BY <1>1 DEF TInv, ControlInv
<1>3. PICK s : s = store'
  OBVIOUS
<1>4. StackSound(stack', dag, s)
  <2>1. ASSUME NEW i, stack' = <<NewFrame(i)>>
        PROVE  StackSound(stack', dag, s)
    <3>1. StackSound(<<NewFrame(i)>>, dag, s)
      BY FewFrames
    <3> QED
      BY <2>1, <3>1, Zenon
  <2>2. StackSound(<<>>, dag, s)
    BY FewFrames
  <2>3. EntryTrap => stack = <<>>
    BY DEF EntryTrap, TInv, ControlInv
  <2>4. StackSound(stack, dag, store)
    BY DEF Sound
  <2>5. CASE stack' = <<>>
    BY <2>2, <2>5, Zenon
  <2>6. CASE UNCHANGED stack
    BY <1>1, <1>3, <2>2, <2>3, <2>4, <2>6
  <2> QED
    BY <1>1, <2>1, <2>5, <2>6
<1> QED
  BY <1>1, <1>2, <1>3, <1>4 DEF Sound, CallSound

\* What the total should be: while the entry or the promise it returned runs,
\* the snapshot holds the attached deposit; a transaction that trapped is over.
MoneyInv ==
  /\ phase \in {"entry", "root"} => Total(tx.snap) = Total(tx.pre) + tx.attach
  /\ phase # "idle" => ~tx.trapped
  /\ Conservation

\* Only execute_tx starts a transaction, only the entry returns to its root.
LEMMA PhaseMoves ==
  ASSUME TInv, [Next]_vars, ~execute_tx
  PROVE  /\ phase' \in {"entry", "root"} => phase \in {"entry", "root"}
         /\ phase' # "idle" => phase # "idle"
         /\ EntryTrap => phase' = "idle" /\ phase = "entry" /\ tx'.trapped
<1>1. ASSUME phase' = phase \/ (phase # "idle" /\ phase' \in {"idle", "drain"}),
             ~EntryTrap
      PROVE  /\ phase' \in {"entry", "root"} => phase \in {"entry", "root"}
             /\ phase' # "idle" => phase # "idle"
             /\ EntryTrap => phase' = "idle" /\ phase = "entry" /\ tx'.trapped
  BY <1>1
<1>2. CASE UNCHANGED vars
  <2>1. phase' = phase /\ guest' = guest
    BY <1>2 DEF vars
  <2>2. ~EntryTrap
    BY <2>1 DEF EntryTrap
  <2> QED
    BY <1>1, <2>1, <2>2
<1>3. CASE EntryTrap
  BY <1>3, Types DEF EntryTrap, TxSet
<1>4. CASE EntryReturn
  BY <1>4 DEF EntryReturn, EntryTrap
<1>5. ASSUME Next, ~EntryTrap, ~EntryReturn
      PROVE  phase' = phase \/ (phase # "idle" /\ phase' \in {"idle", "drain"})
  <2>1. \/ GuestStep \/ CallReturn \/ CallTrap \/ EntryBegins \/ NoMethod
        \/ EngineStep
    BY <1>5 DEF Next, GuestEnd
  <2>2. CASE GuestStep
    BY <2>2 DEF GuestStep, StorageWrite, promise_create, promise_then,
       promise_and, promise_batch_create, promise_batch_then,
       promise_batch_action, promise_return, PromisesOnly
  <2>3. CASE CallReturn \/ CallTrap
    BY <2>3 DEF CallReturn, CallTrap, EndCall
  <2>4. CASE ForcedFail \/ FinishBatch
    BY <2>4 DEF ForcedFail, FinishBatch, Return
  <2>5. CASE CallError
    BY <2>5 DEF CallError
  <2>6. CASE ExecutePromise \/ PublishResults \/ DrainNext \/ DrainDone
    BY <2>6 DEF ExecutePromise, PublishResults, DrainNext, DrainDone
  <2>7. CASE DoTransfer \/ DoStake \/ DoAddKey \/ DoDeleteKey \/ DoDeleteAccount
    BY <2>7 DEF DoTransfer, DoStake, DoAddKey, DoDeleteKey, DoDeleteAccount,
       ActionOnly
  <2>8. CASE CallUnknown \/ CallStart
    BY <2>8 DEF CallUnknown, CallStart
  <2>9. CASE EntryBegins \/ NoMethod
    BY <2>9 DEF EntryBegins, NoMethod, InStart
  <2> QED
    BY <2>1, <2>2, <2>3, <2>4, <2>5, <2>6, <2>7, <2>8, <2>9 DEF EngineStep
<1> QED
  BY <1>1, <1>2, <1>3, <1>4, <1>5

\* A transaction starts: its deposit is credited unless it has no contract.
LEMMA StartMoney ==
  ASSUME IsFiniteSet(Accounts), TInv, execute_tx
  PROVE  MoneyInv' /\ Sound'
<1>1. PICK c \in Accounts, d \in Attaches, fail \in FailSets :
        \/ StartTx(c, d, fail) \/ StartTxError(c, d, fail)
        \/ StartTxUnknown(c, fail)
  BY DEF execute_tx
<1>2. store \in [Slots -> Nat] /\ d \in Nat
  BY Types, AmountsAssumption
<1>3. /\ Total(store) \in Nat
      /\ Total(credit_attach(store, c, d)) = Total(store) + d
  BY <1>2, TotalMoves
<1>4. /\ stack' = <<>> /\ (guest' = NoGuest \/ phase' = "entry")
      /\ dag' = <<>>
  BY <1>1 DEF StartTx, StartTxError, StartTxUnknown, TInv, ControlInv,
     fresh_tx_state
<1>5. Sound'
  <2>1. PICK d1, s : d1 = dag' /\ s = store'
    OBVIOUS
  <2>2. StackSound(<<>>, d1, s)
    BY FewFrames
  <2>3. StackSound(stack', dag', store')
    BY <1>4, <2>1, <2>2, Zenon
  <2> QED
    BY <1>4, <2>3 DEF Sound, CallSound
<1>6. CASE StartTx(c, d, fail)
  <2>1. /\ tx'.attach = d /\ tx'.snap = store' /\ tx'.pre = store
        /\ tx'.trapped = FALSE /\ store' = credit_attach(store, c, d)
    BY <1>6 DEF StartTx
  <2>2. Total(store') = Total(store) + d
    BY <1>3, <2>1, Zenon
  <2>3. Total(tx'.pre) = Total(store) /\ Total(tx'.snap) = Total(store')
    BY <2>1, Zenon
  <2> QED
    BY <1>5, <2>1, <2>2, <2>3 DEF MoneyInv, Conservation
<1>7. CASE StartTxError(c, d, fail)
  <2>1. /\ tx'.attach = d /\ tx'.pre = store /\ phase' = "idle"
        /\ tx'.trapped = FALSE /\ store' = credit_attach(store, c, d)
    BY <1>7 DEF StartTxError
  <2>2. Total(store') = Total(store) + d /\ Total(tx'.pre) = Total(store)
    BY <1>3, <2>1, Zenon
  <2> QED
    BY <1>5, <2>1, <2>2 DEF MoneyInv, Conservation
<1>8. CASE StartTxUnknown(c, fail)
  <2>1. /\ tx'.attach = 0 /\ tx'.pre = store /\ phase' = "idle"
        /\ tx'.trapped = FALSE /\ store' = store
    BY <1>8 DEF StartTxUnknown
  <2>2. Total(store') = Total(store) /\ Total(tx'.pre) = Total(store)
    BY <2>1, Zenon
  <2>3. Total(store) = Total(store) + 0
    BY <1>3
  <2> QED
    BY <1>5, <2>1, <2>2, <2>3 DEF MoneyInv, Conservation
<1> QED
  BY <1>1, <1>6, <1>7, <1>8

\* Every other step keeps the total, returns to the snapshot or undoes the
\* entry.
LEMMA StepMoney ==
  ASSUME IsFiniteSet(Accounts), TInv, TInv', SnapInv, MoneyInv, Sound, Plain,
         [Next]_vars, ~execute_tx, ~EntryBegins
  PROVE  MoneyInv' /\ Sound'
<1>1. /\ Sound'
      /\ \/ Total(store') = Total(store)
         \/ phase = "root" /\ store' = tx.snap
         \/ EntryTrap
  <2>1. CASE UNCHANGED vars
    <3>1. UNCHANGED <<dag, stack, guest, phase, store>>
      BY <2>1 DEF vars, engine
    <3>2. Total(store') = Total(store)
      BY <3>1, Zenon
    <3> QED
      BY <3>1, <3>2 DEF Sound, StackSound, CallSound, FrameSound, Undoes
  <2>2. CASE GuestStep
    BY <2>2, GuestSound
  <2>3. CASE ExecutePromise \/ ForcedFail \/ PublishResults \/ FinishBatch
    <3>1. Sound' /\ store' = store
      BY <2>3, ResolveSound
    <3> QED
      BY <3>1, Zenon
  <2>4. CASE DoTransfer \/ DoStake \/ DoAddKey \/ DoDeleteKey \/ DoDeleteAccount
    BY <2>4, ActionSound
  <2>5. CASE CallUnknown \/ CallStart \/ CallError
    <3>1. Sound' /\ (store' = store \/ (phase = "root" /\ store' = tx.snap))
      BY <2>5, CallMoves
    <3> QED
      BY <3>1, Zenon
  <2>6. CASE CallReturn \/ CallTrap
    BY <2>6, EndSound
  <2>7. CASE NoMethod \/ EntryReturn \/ EntryTrap \/ DrainNext \/ DrainDone
    <3>1. Sound' /\ (EntryTrap \/ store' = store)
      BY <2>7, TxEndSound
    <3> QED
      BY <3>1, Zenon
  <2> QED
    BY <2>1, <2>2, <2>3, <2>4, <2>5, <2>6, <2>7 DEF Next, GuestEnd, EngineStep
<1>2. SameTx /\ (~EntryTrap => tx'.trapped = tx.trapped)
  BY TxMoves
<1>3. /\ phase' \in {"entry", "root"} => phase \in {"entry", "root"}
      /\ phase' # "idle" => phase # "idle"
      /\ EntryTrap => phase' = "idle" /\ phase = "entry" /\ tx'.trapped
  BY PhaseMoves
<1>4. /\ Total(tx'.snap) = Total(tx.snap) /\ Total(tx'.pre) = Total(tx.pre)
      /\ tx'.attach = tx.attach
  BY <1>2, Zenon DEF SameTx
<1>5. phase' # "idle" => ~tx'.trapped
  BY <1>2, <1>3 DEF MoneyInv
<1>6. Conservation'
  <2>1. CASE EntryTrap
    <3>1. store' = [tx.pre EXCEPT ![<<tx.contract, "data">>] =
                      tx.snap[<<tx.contract, "data">>]]
      BY <1>3, <2>1, SnapStep DEF MoneyInv
    <3>2. tx.pre \in [Slots -> Nat] /\ store' \in [Slots -> Nat]
      <4>1. store' \in [Slots -> Nat]
        BY DEF TInv, TypeOK
      <4> QED
        BY <4>1, Types DEF TxSet
    <3>3. PICK p, s, v, k : p = tx.pre /\ s = store' /\ k = <<tx.contract, "data">>
                            /\ v = tx.snap[<<tx.contract, "data">>]
      OBVIOUS
    <3>4. s = [p EXCEPT ![k] = v] /\ k[2] \notin {"bal", "locked"}
      BY <3>1, <3>3
    <3>5. p \in [Slots -> Nat] /\ s \in [Slots -> Nat]
      BY <3>2, <3>3
    <3>6. SameFunds([p EXCEPT ![k] = v], p)
      BY <3>4, <3>5, WriteFunds
    <3>7. Total(s) = Total(p) /\ Total(s) \in Nat
      BY <3>4, <3>5, <3>6, TotalSame
    <3>8. Total(store') = Total(tx.pre) /\ Total(tx.pre) \in Nat
      BY <3>3, <3>7, Zenon
    <3> QED
      BY <1>3, <1>4, <2>1, <3>8 DEF Conservation
  <2>2. CASE ~EntryTrap /\ Total(store') = Total(store)
    BY <1>2, <1>4, <2>2 DEF MoneyInv, Conservation
  <2>3. CASE ~EntryTrap /\ phase = "root" /\ store' = tx.snap
    <3>1. Total(store') = Total(tx.snap)
      BY <2>3, Zenon
    <3> QED
      BY <1>2, <1>4, <2>3, <3>1 DEF MoneyInv, Conservation
  <2> QED
    BY <1>1, <2>1, <2>2, <2>3
<1> QED
  BY <1>1, <1>3, <1>4, <1>5, <1>6 DEF MoneyInv

\* Before the first transaction.
LEMMA StartsSound ==
  ASSUME IsFiniteSet(Accounts), Init
  PROVE  MoneyInv /\ Sound
<1>1. /\ stack = <<>> /\ guest = NoGuest /\ phase = "idle" /\ tx.attach = 0
      /\ tx.trapped = FALSE /\ tx.pre = store
  BY DEF Init
<1>2. store \in [Slots -> Nat]
  BY TypeInit, Types
<1>3. Total(store) \in Nat
  BY <1>2, TotalSame DEF SameFunds
<1>4. Total(tx.pre) = Total(store)
  BY <1>1, Zenon
<1>5. StackSound(stack, dag, store)
  BY <1>1, FewFrames, Zenon
<1> QED
  BY <1>1, <1>3, <1>4, <1>5 DEF MoneyInv, Conservation, Sound, CallSound

\* The snapshot is taken: storage holds the attached deposit.
LEMMA BeginMoney ==
  ASSUME IsFiniteSet(Accounts), TInv, MoneyInv, Sound, EntryBegins
  PROVE  MoneyInv' /\ Sound'
<1>1. /\ tx'.attach = tx.attach /\ tx'.pre = tx.pre /\ tx'.trapped = tx.trapped
      /\ tx'.snap = store /\ UNCHANGED <<dag, store, stack, guest, phase>>
      /\ phase = "entry"
  BY BeginMoves
<1>2. /\ Total(tx'.snap) = Total(store) /\ Total(tx'.pre) = Total(tx.pre)
      /\ Total(store') = Total(store)
  BY <1>1, Zenon
<1>3. Total(store) = Total(tx.pre) + tx.attach
  BY <1>1 DEF MoneyInv, Conservation
<1>4. MoneyInv'
  BY <1>1, <1>2, <1>3 DEF MoneyInv, Conservation
<1>5. Sound'
  BY <1>1 DEF Sound, StackSound, CallSound, FrameSound, Undoes
<1> QED
  BY <1>4, <1>5

\* Batches only gain actions and are never dropped before the next transaction.
LEMMA PlainBefore ==
  ASSUME TInv, [Next]_vars, ~execute_tx, Plain'
  PROVE  Plain
<1>1. CASE dag' = dag
  BY <1>1, Zenon DEF Plain
<1>2. CASE GuestStep
  <2>1. GrownFrom(dag, dag', guest.acct)
    BY <1>2, HostCalls
  <2>2. PICK e : e = dag'
    OBVIOUS
  <2> SUFFICES ASSUME NEW i \in 1..Len(dag)
               PROVE  /\ ~Holds(dag[i], "Stake") /\ ~Holds(dag[i], "DeleteAccount")
                      /\ Holds(dag[i], "Transfer") => dag[i].creator # dag[i].account
                      /\ dag[i].account \in Contracts =>
                           /\ ~(Holds(dag[i], "Transfer") /\ Holds(dag[i], "FnCall"))
                           /\ \A j \in 1..Len(dag[i].actions) :
                                dag[i].actions[j].op = "FnCall" =>
                                  dag[i].actions[j].amt = 0
    BY DEF Plain
  <2>3. /\ i \in 1..Len(e)
        /\ e[i].account = dag[i].account /\ e[i].creator = dag[i].creator
        /\ \A j \in 1..Len(dag[i].actions) :
             /\ j \in 1..Len(e[i].actions)
             /\ e[i].actions[j] = dag[i].actions[j]
    BY <2>1, <2>2 DEF GrownFrom
  <2>4. \A op : Holds(dag[i], op) => Holds(e[i], op)
    BY <2>3 DEF Holds
  <2>5. /\ ~Holds(e[i], "Stake") /\ ~Holds(e[i], "DeleteAccount")
        /\ Holds(e[i], "Transfer") => e[i].creator # e[i].account
        /\ e[i].account \in Contracts =>
             /\ ~(Holds(e[i], "Transfer") /\ Holds(e[i], "FnCall"))
             /\ \A j \in 1..Len(e[i].actions) :
                  e[i].actions[j].op = "FnCall" => e[i].actions[j].amt = 0
    BY <2>2, <2>3 DEF Plain
  <2> QED
    BY <2>3, <2>4, <2>5
<1>3. CASE GuestEnd \/ EngineStep \/ UNCHANGED vars
  <2>1. dag' = dag
    BY <1>3 DEF GuestEnd, CallReturn, CallTrap, EndCall, EntryBegins, NoMethod,
       EntryReturn, EntryTrap, EngineStep, ExecutePromise, ForcedFail,
       PublishResults, FinishBatch, DoTransfer, DoStake, DoAddKey, DoDeleteKey,
       DoDeleteAccount, ActionOnly, CallUnknown, CallStart, CallError,
       DrainNext, DrainDone, engine, vars
  <2> QED
    BY <1>1, <2>1
<1> QED
  BY <1>2, <1>3 DEF Next

\* Tokens are neither created nor lost by a transaction whose batches are plain,
\* for every instance and whatever the transactions before it did: transfers
\* debit what they credit, undo lists and the partition a trap restores put
\* balances back to what they are worth, and a rollback of the entry or of the
\* returned promise accounts for the attached deposit.
THEOREM EngineConserves ==
  ASSUME IsFiniteSet(Accounts)
  PROVE  Spec => []PlainConserves
<1> DEFINE Inv == TInv /\ SnapInv /\ (Plain => MoneyInv /\ Sound)
<1>1. Init => Inv
  BY TypeInit, StartsSound DEF Init, SnapInv
<1>2. Inv /\ [Next]_vars => Inv'
  <2> SUFFICES ASSUME Inv, [Next]_vars PROVE Inv'
    OBVIOUS
  <2>1. TInv' /\ SnapInv'
    BY TypeStep, SnapStep
  <2>2. ASSUME Plain' PROVE MoneyInv' /\ Sound'
    <3>1. CASE execute_tx
      BY <3>1, StartMoney
    <3>2. CASE EntryBegins
      <4>1. Plain
        <5>1. dag' = dag
          BY <3>2, BeginMoves
        <5> QED
          BY <2>2, <5>1, Zenon DEF Plain
      <4> QED
        BY <3>2, <4>1, BeginMoney
    <3>3. CASE ~execute_tx /\ ~EntryBegins
      <4>1. Plain
        BY <2>2, <3>3, PlainBefore
      <4> QED
        BY <2>1, <3>3, <4>1, StepMoney
    <3> QED
      BY <3>1, <3>2, <3>3
  <2> QED
    BY <2>1, <2>2
<1>3. Inv => PlainConserves
  BY DEF MoneyInv, PlainConserves
<1> HIDE DEF Inv
<1> QED
  BY <1>1, <1>2, <1>3, PTL DEF Spec

\* Contracts create every batch; what the batches address and hold comes from
\* the host calls of this instance.
MadeByHosts ==
  /\ guest # NoGuest => guest.acct \in Contracts
  /\ \A i \in 1..Len(dag) :
       /\ dag[i].creator \in Contracts
       /\ dag[i].account \in Receivers \cup {NoAcct}
       /\ \A j \in 1..Len(dag[i].actions) :
            dag[i].actions[j].op \in Ops \cup {"FnCall"}

\* Every step keeps what is said of the batches.
LEMMA MadeStep ==
  ASSUME TInv, MadeByHosts, [Next]_vars
  PROVE  MadeByHosts'
<1>1. CASE execute_tx
  <2>1. /\ dag' = <<>> /\ Len(<<>>) = 0
        /\ \/ \E c \in Contracts : guest' = [NoGuest EXCEPT !.acct = c]
           \/ guest' = guest
    BY <1>1, EmptySeq DEF execute_tx, StartTx, StartTxError, StartTxUnknown,
       fresh_tx_state
  <2>2. guest' # NoGuest => guest'.acct \in Contracts
    BY <2>1 DEF NoGuest, MadeByHosts
  <2>3. \A i \in 1..Len(dag') : FALSE
    BY <2>1
  <2> QED
    BY <2>2, <2>3 DEF MadeByHosts
<1>2. CASE GuestStep
  <2>1. guest # NoGuest /\ GrownFrom(dag, dag', guest.acct) /\ guest' = guest
    BY <1>2, HostCalls
  <2>2. PICK e : e = dag'
    OBVIOUS
  <2>3. ASSUME NEW i \in 1..Len(e)
        PROVE  /\ e[i].creator \in Contracts
               /\ e[i].account \in Receivers \cup {NoAcct}
               /\ \A j \in 1..Len(e[i].actions) :
                    e[i].actions[j].op \in Ops \cup {"FnCall"}
    <3>1. CASE i \in 1..Len(dag)
      <4>1. /\ e[i].account = dag[i].account /\ e[i].creator = dag[i].creator
            /\ \A j \in 1..Len(dag[i].actions) :
                 e[i].actions[j] = dag[i].actions[j]
            /\ \A j \in 1..Len(e[i].actions) :
                 j \in 1..Len(dag[i].actions) \/ e[i].actions[j].op \in Ops
        BY <2>1, <2>2, <3>1 DEF GrownFrom
      <4> QED
        BY <3>1, <4>1 DEF MadeByHosts
    <3>2. CASE i \notin 1..Len(dag)
      <4>1. /\ e[i].creator = guest.acct
            /\ e[i].account \in Receivers \cup {NoAcct}
            /\ \A j \in 1..Len(e[i].actions) : e[i].actions[j].op = "FnCall"
        BY <2>1, <2>2, <3>2 DEF GrownFrom
      <4> QED
        BY <2>1, <4>1 DEF MadeByHosts
    <3> QED
      BY <3>1, <3>2
  <2> QED
    BY <2>1, <2>2, <2>3 DEF MadeByHosts
<1>3. CASE GuestEnd \/ EngineStep \/ UNCHANGED vars
  <2>1. /\ dag' = dag
        /\ guest' = guest \/ guest' = NoGuest \/ guest'.acct \in Contracts
    BY <1>3 DEF GuestEnd, CallReturn, CallTrap, EndCall, EntryBegins, NoMethod,
       EntryReturn, EntryTrap, EngineStep, ExecutePromise, ForcedFail,
       PublishResults, FinishBatch, DoTransfer, DoStake, DoAddKey, DoDeleteKey,
       DoDeleteAccount, ActionOnly, CallUnknown, CallStart, CallError,
       DrainNext, DrainDone, engine, vars
  <2> QED
    BY <2>1 DEF MadeByHosts
<1> QED
  BY <1>1, <1>2, <1>3 DEF Next

\* Contracts whose promises go to accounts without code, and that neither stake
\* nor delete accounts, conserve tokens whatever else they do: every transaction
\* is then plain, so no hypothesis on the behaviour is left.
THEOREM PaymentsConserve ==
  ASSUME IsFiniteSet(Accounts), Receivers \cap Contracts = {},
         Ops \cap {"Stake", "DeleteAccount"} = {}
  PROVE  Spec => []Conservation
<1>1. Init => TInv /\ MadeByHosts
  <2> SUFFICES ASSUME Init PROVE TInv /\ MadeByHosts
    OBVIOUS
  <2>1. dag = <<>> /\ guest = NoGuest /\ Len(<<>>) = 0
    BY EmptySeq DEF Init
  <2>2. \A i \in 1..Len(dag) : FALSE
    BY <2>1
  <2> QED
    BY <2>1, <2>2, TypeInit DEF MadeByHosts
<1>2. TInv /\ MadeByHosts /\ [Next]_vars => TInv' /\ MadeByHosts'
  BY TypeStep, MadeStep
<1>3. MadeByHosts => Plain
  BY AccountsAssumption DEF MadeByHosts, Plain, Holds
<1>4. MadeByHosts /\ PlainConserves => Conservation
  BY <1>3 DEF PlainConserves
<1> QED
  BY <1>1, <1>2, <1>4, EngineConserves, PTL DEF Spec

=============================================================================
