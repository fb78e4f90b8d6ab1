--------------------------- MODULE PromiseEngine ---------------------------
(***************************************************************************)
(* The promise engine of near-mock: execute_tx (mod.rs), the promise host  *)
(* functions contract code calls (mod.rs, hosts.rs) and execute_promise /  *)
(* sub_execute (promises.rs), which resolve the DAG of receipts those host *)
(* functions built.                                                        *)
(*                                                                         *)
(* The Rust code is one thread and recursive: execute_promise calls itself *)
(* on the dependencies of a batch and on a promise a callee returned.  The *)
(* recursion is an explicit stack of frames here, one frame per live call  *)
(* of execute_promise_uncached.  At most one contract (guest) is live at a *)
(* time: a callee's returned promise is resolved after the callee ended.   *)
(* What a contract does is unknown: every host call it could make next is  *)
(* an action, and it may stop or trap at any point.                        *)
(*                                                                         *)
(* DAG indices start at 1 here and at 0 in the code.                       *)
(***************************************************************************)
EXTENDS Integers, FiniteSetsExt, SequencesExt

CONSTANTS
  Accounts,     \* account names, contracts or not
  Contracts,    \* the accounts with a wasm module in the manifest (MODULES)
  Broken,       \* contracts whose module does not instantiate
  NoAcct,       \* the empty account name of a promise_and combinator
  Ops,          \* the host functions the contract code of this instance uses
  Deposits,     \* deposits a function call may carry
  Attaches,     \* deposits a transaction may attach
  Receivers,    \* the accounts contract code addresses its promises to
  Amounts,      \* amounts a Transfer or a Stake may carry
  FailSets,     \* the --fail-receipt index sets a transaction may be given
  Funds,        \* balance of every account at genesis
  MaxNodes,     \* bound: batches in the DAG of one transaction
  MaxActions,   \* bound: actions of one batch
  MaxTx         \* bound: transactions of a behaviour

ASSUME AccountsAssumption ==
  /\ Contracts \subseteq Accounts
  /\ Broken \subseteq Contracts
  /\ Receivers \subseteq Accounts
  /\ NoAcct \notin Accounts

ASSUME AmountsAssumption ==
  /\ Deposits \subseteq Nat /\ Attaches \subseteq Nat
  /\ Amounts \subseteq Nat
  /\ FailSets \subseteq SUBSET (Nat \ {0})
  /\ Funds \in Nat

ASSUME BoundsAssumption ==
  MaxNodes \in Nat /\ MaxActions \in Nat /\ MaxTx \in Nat

VARIABLES
  dag,        \* PROMISE_DAG
  executed,   \* EXECUTED_PROMISES
  outcomes,   \* PROMISE_OUTCOMES, the execute-once memo
  consumed,   \* CONSUMED_PROMISES
  results,    \* PROMISE_RESULTS
  pending,    \* PENDING_RETURN, 0 when it is None
  store,      \* MockState.storage
  stack,      \* the live calls of execute_promise_uncached, innermost last
  guest,      \* the running contract, or NoGuest
  phase,      \* where execute_tx is: idle, entry, root or drain (settle: see
              \* DeferredReceipts)
  tx,         \* the locals of execute_tx, kept after it returned
  ntx,        \* transactions so far
  hist        \* history, per batch: see NewHist

engine == <<dag, executed, outcomes, consumed, results, pending>>
vars == <<engine, store, stack, guest, phase, tx, ntx, hist>>

-----------------------------------------------------------------------------
(* Data *)

\* One slot per key the engine itself touches.  "data" stands for the keys a
\* contract writes, "key" for an access key under the account's prefix;
\* LooseKey is the unprefixed slot that PAction::AddKey writes.  0 = absent.
Fields == {"bal", "locked", "data", "key"}
LooseKey == <<NoAcct, "key">>
Slots == (Accounts \X Fields) \cup {LooseKey}

snapshot_partition(s, a) == [f \in Fields |-> s[<<a, f>>]]

\* Mutant: the account prefix is not looked at.
restore_partition_everywhere(s, snap, a) ==
  [k \in Slots |-> IF k # LooseKey THEN snap[k[2]] ELSE s[k]]

restore_partition(s, snap, a) ==
  [k \in Slots |-> IF k[1] = a THEN snap[k[2]] ELSE s[k]]

\* A promise result is Failed (None) or success (Some).  A success is tagged
\* with the batch whose action produced it, in place of the returned bytes.
Failed == 0

NoGuest == [acct |-> NoAcct, pred |-> NoAcct, dep |-> 0, base |-> 0,
            snap |-> [f \in Fields |-> 0], outer |-> 0]

FnCall(d)        == [op |-> "FnCall", amt |-> d, ben |-> NoAcct]
Transfer(x)      == [op |-> "Transfer", amt |-> x, ben |-> NoAcct]
Stake(x)         == [op |-> "Stake", amt |-> x, ben |-> NoAcct]
AddKey           == [op |-> "AddKey", amt |-> 0, ben |-> NoAcct]
DeleteKey        == [op |-> "DeleteKey", amt |-> 0, ben |-> NoAcct]
DeleteAccount(b) == [op |-> "DeleteAccount", amt |-> 0, ben |-> b]

\* A live call of execute_promise_uncached: pc is "deps" while dependency
\* dp + 1 is resolved, "act" before action ap, "call" while the contract of
\* action ap runs, "child" while the promise it returned is resolved.
NewFrame(i) == [idx |-> i, pc |-> "deps", dp |-> 0, depRes |-> <<>>, ap |-> 1,
                out |-> <<>>, touched |-> <<>>, saved |-> <<>>,
                child |-> 0, local |-> Failed, start |-> store]

\* History of a batch: the batch whose contract created it (0: the entry), how
\* often its actions were started, the promises its callees returned.  Frames
\* carry one history field too: start, the store when the actions began.
NewHist == [by |-> IF stack = <<>> THEN 0 ELSE Last(stack).idx,
            runs |-> 0, ret |-> {}]

Top == Last(stack)
Batch == dag[Top.idx]
SetTop(f) == [stack EXCEPT ![Len(stack)] = f]

Init ==
  /\ dag = <<>> /\ executed = {} /\ outcomes = <<>> /\ consumed = {}
  /\ results = <<>> /\ pending = 0
  /\ store = [k \in Slots |-> IF k[2] = "bal" THEN Funds ELSE 0]
  /\ stack = <<>> /\ guest = NoGuest /\ phase = "idle"
  /\ tx = [contract |-> NoAcct, attach |-> 0, fail |-> {}, ok |-> TRUE,
           trapped |-> FALSE, errors |-> 0, began |-> FALSE, snap |-> store,
           pre |-> store]
  /\ ntx = 0 /\ hist = <<>>

-----------------------------------------------------------------------------
(* execute_tx, up to the entry call *)

\* Mutant: the memo of the last transaction survives.
fresh_tx_state_keeps_memo ==
  /\ dag' = <<>> /\ executed' = {} /\ outcomes' = outcomes /\ consumed' = {}
  /\ results' = <<>> /\ pending' = 0

fresh_tx_state ==
  /\ dag' = <<>> /\ executed' = {} /\ outcomes' = <<>> /\ consumed' = {}
  /\ results' = <<>> /\ pending' = 0

Credit(s, a, x) == [s EXCEPT ![<<a, "bal">>] = @ + x]

\* Mutant: the debit is not written back.
Debit_lost(s, a, x) == s

Debit(s, a, x) == [s EXCEPT ![<<a, "bal">>] = IF @ >= x THEN @ - x ELSE 0]

credit_attach(s, a, x) == IF x > 0 THEN Credit(s, a, x) ELSE s

\* The module is found and instantiates, the deposit is credited: its exported
\* start function runs first, if it has one (Calls).
StartTx(c, d, fail) ==
  /\ phase = "idle" /\ ntx < MaxTx
  /\ c \in Contracts \ Broken
  /\ fresh_tx_state
  /\ store' = credit_attach(store, c, d)
  /\ tx' = [contract |-> c, attach |-> d, fail |-> fail, ok |-> FALSE,
            trapped |-> FALSE, errors |-> 0, began |-> FALSE, snap |-> store',
            pre |-> store]
  /\ guest' = [NoGuest EXCEPT !.acct = c]
  /\ phase' = "entry"
  /\ ntx' = ntx + 1 /\ hist' = <<>>
  /\ UNCHANGED stack

\* The module does not instantiate: execute_tx returns Err after credit_attach.
StartTxError(c, d, fail) ==
  /\ phase = "idle" /\ ntx < MaxTx
  /\ c \in Broken
  /\ fresh_tx_state
  /\ store' = credit_attach(store, c, d)
  /\ tx' = [contract |-> c, attach |-> d, fail |-> fail, ok |-> FALSE,
            trapped |-> FALSE, errors |-> 1, began |-> FALSE, snap |-> store,
            pre |-> store]
  /\ ntx' = ntx + 1 /\ hist' = <<>>
  /\ UNCHANGED <<stack, guest, phase>>

\* No such contract: execute_tx returns Err before the deposit is credited, so
\* the transaction attached nothing.
StartTxUnknown(c, fail) ==
  /\ phase = "idle" /\ ntx < MaxTx
  /\ c \notin Contracts
  /\ fresh_tx_state
  /\ tx' = [contract |-> c, attach |-> 0, fail |-> fail, ok |-> FALSE,
            trapped |-> FALSE, errors |-> 1, began |-> FALSE, snap |-> store,
            pre |-> store]
  /\ ntx' = ntx + 1 /\ hist' = <<>>
  /\ UNCHANGED <<store, stack, guest, phase>>

execute_tx ==
  \E c \in Accounts, d \in Attaches, fail \in FailSets :
    StartTx(c, d, fail) \/ StartTxError(c, d, fail) \/ StartTxUnknown(c, fail)

-----------------------------------------------------------------------------
(* Host functions of the running contract *)

\* The handles the running contract got from its own host calls.
Handles == (guest.base + 1) .. Len(dag)

\* The exported start function of the transaction's module is running: a prefix
\* of the same instance's code, before the snapshot.
InStart == phase = "entry" /\ ~tx.began

Calls(op) == guest # NoGuest /\ op \in Ops /\ (InStart => "start" \in Ops)

\* consume_promise succeeds only on a handle not consumed before; otherwise
\* the host call traps, which is CallTrap or EntryTrap.
consume_promise(hs) == hs \cap consumed = {} /\ consumed' = consumed \cup hs

dag_push(deps, a, acts) ==
  /\ Len(dag) < MaxNodes
  /\ dag' = Append(dag, [deps |-> deps, account |-> a,
                         creator |-> guest.acct, actions |-> acts])
  /\ hist' = Append(hist, NewHist)

PromisesOnly == UNCHANGED <<executed, outcomes, results, store, stack, guest,
                            phase, tx, ntx>>

StorageWrite(v) ==
  /\ Calls("storage_write")
  /\ store' = [store EXCEPT ![<<guest.acct, "data">>] = v]
  /\ UNCHANGED <<engine, stack, guest, phase, tx, ntx, hist>>

promise_create(a, d) ==
  /\ Calls("promise_create")
  /\ dag_push(<<>>, a, <<FnCall(d)>>)
  /\ PromisesOnly /\ UNCHANGED <<consumed, pending>>

promise_then(h, a, d) ==
  /\ Calls("promise_then")
  /\ consume_promise({h})
  /\ dag_push(<<h>>, a, <<FnCall(d)>>)
  /\ PromisesOnly /\ UNCHANGED pending

promise_and(h1, h2) ==
  /\ Calls("promise_and") /\ h1 # h2
  /\ consume_promise({h1, h2})
  /\ dag_push(<<h1, h2>>, NoAcct, <<>>)
  /\ PromisesOnly /\ UNCHANGED pending

promise_batch_create(a) ==
  /\ Calls("promise_batch_create")
  /\ dag_push(<<>>, a, <<>>)
  /\ PromisesOnly /\ UNCHANGED <<consumed, pending>>

promise_batch_then(h, a) ==
  /\ Calls("promise_batch_then")
  /\ consume_promise({h})
  /\ dag_push(<<h>>, a, <<>>)
  /\ PromisesOnly /\ UNCHANGED pending

\* The promise_batch_action_* host functions: append to the batch of a handle,
\* consumed or not.
ActionsFor(op) ==
  CASE op = "FnCall" -> {FnCall(d) : d \in Deposits}
    [] op = "Transfer" -> {Transfer(x) : x \in Amounts}
    [] op = "Stake" -> {Stake(x) : x \in Amounts}
    [] op = "AddKey" -> {AddKey}
    [] op = "DeleteKey" -> {DeleteKey}
    [] op = "DeleteAccount" -> {DeleteAccount(b) : b \in Accounts}

ActionKinds ==
  {"FnCall", "Transfer", "Stake", "AddKey", "DeleteKey", "DeleteAccount"}

promise_batch_action(h, op) ==
  /\ Calls(op)
  /\ Len(dag[h].actions) < MaxActions
  /\ \E a \in ActionsFor(op) :
       dag' = [dag EXCEPT ![h].actions = Append(@, a)]
  /\ PromisesOnly /\ UNCHANGED <<consumed, pending, hist>>

promise_return(h) ==
  /\ Calls("promise_return")
  /\ consume_promise({h})
  /\ pending' = h
  /\ PromisesOnly /\ UNCHANGED <<dag, hist>>

GuestStep ==
  \/ \E v \in {0, 1} : StorageWrite(v)
  \/ \E a \in Receivers, d \in Deposits : promise_create(a, d)
  \/ \E h \in Handles, a \in Receivers, d \in Deposits : promise_then(h, a, d)
  \/ \E h1, h2 \in Handles : promise_and(h1, h2)
  \/ \E a \in Receivers : promise_batch_create(a)
  \/ \E h \in Handles, a \in Receivers : promise_batch_then(h, a)
  \/ \E h \in Handles, op \in ActionKinds : promise_batch_action(h, op)
  \/ \E h \in Handles : promise_return(h)

-----------------------------------------------------------------------------
(* execute_promise *)

\* The result of a call of execute_promise reaches its caller.  A dependency's
\* results are appended to the caller's; a returned promise puts its last
\* result in the slot of the action, and all of them after it.
Receive(f, res) ==
  IF f.pc = "deps"
  THEN [f EXCEPT !.depRes = @ \o res, !.dp = @ + 1]
  ELSE [f EXCEPT !.pc = "act", !.ap = @ + 1, !.child = 0,
                 !.out = @ \o <<IF res = <<>> THEN f.local ELSE Last(res)>>
                           \o res]

\* Mutant: the dependencies are not resolved first.
Callee_skips_deps(f) == IF f.pc = "child" THEN f.child ELSE 0

\* The batch whose execute_promise the innermost frame calls next, or 0.
Callee(f) ==
  IF f.pc = "child" THEN f.child
  ELSE IF f.pc = "deps" /\ f.dp < Len(dag[f.idx].deps)
       THEN dag[f.idx].deps[f.dp + 1]
       ELSE 0

Running == guest = NoGuest /\ stack # <<>>

\* Mutant: no memo.
Memoized_never(i) == FALSE

Memoized(i) == i \in DOMAIN outcomes

\* A memo hit replays the recorded result; otherwise a new frame is entered,
\* which marks its batch executed.
ExecutePromise ==
  /\ Running /\ Callee(Top) # 0
  /\ executed' = executed \cup {Callee(Top)}
  /\ IF Memoized(Callee(Top))
     THEN stack' = SetTop(Receive(Top, outcomes[Callee(Top)]))
     ELSE stack' = Append(stack, NewFrame(Callee(Top)))
  /\ UNCHANGED <<dag, outcomes, consumed, results, pending, store, guest,
                 phase, tx, ntx, hist>>

\* The transaction's status follows the last result of the returned promise.
TxStatus(res) == [tx EXCEPT !.ok = res = <<>> \/ Last(res) # Failed]

\* execute_promise_uncached returns res: memoize it, hand it to the caller.
\* The outermost call returns to execute_tx.
Return(res) ==
  /\ outcomes' = [i \in DOMAIN outcomes \cup {Top.idx} |->
                    IF i = Top.idx THEN res ELSE outcomes[i]]
  /\ IF Len(stack) > 1
     THEN /\ stack' = [Front(stack) EXCEPT ![Len(stack) - 1] = Receive(@, res)]
          /\ UNCHANGED <<phase, tx>>
     ELSE /\ stack' = <<>>
          /\ phase' = IF phase = "root" THEN "drain" ELSE phase
          /\ tx' = IF phase = "root" THEN TxStatus(res) ELSE tx

DepsDone == Running /\ Top.pc = "deps" /\ Callee(Top) = 0

\* A receipt forced to fail runs its dependencies and none of its actions.
ForcedFail ==
  /\ DepsDone /\ Top.idx \in tx.fail
  /\ Return(<<>>)
  /\ UNCHANGED <<dag, executed, consumed, results, pending, store, guest,
                 ntx, hist>>

\* Publish the dependencies' results as PROMISE_RESULTS, keep the old ones.
PublishResults ==
  /\ DepsDone /\ Top.idx \notin tx.fail
  /\ results' = Top.depRes
  /\ stack' = SetTop([Top EXCEPT !.pc = "act", !.saved = results,
                                 !.start = store])
  /\ hist' = [hist EXCEPT ![Top.idx].runs = @ + 1]
  /\ UNCHANGED <<dag, executed, outcomes, consumed, pending, store, guest,
                 phase, tx, ntx>>

ActionsLeft ==
  /\ Running /\ Top.pc = "act"
  /\ Batch.account # NoAcct /\ Top.ap <= Len(Batch.actions)

Action == Batch.actions[Top.ap]

\* Mutant: PROMISE_RESULTS is not put back.
FinishBatch_leaks_results ==
  /\ Running /\ Top.pc = "act" /\ ~ActionsLeft
  /\ Return(IF Batch.account = NoAcct THEN Top.depRes ELSE Top.out)
  /\ UNCHANGED <<dag, executed, consumed, results, pending, store, guest, ntx,
                 hist>>

\* The loop over the actions ends; a combinator returns its inputs.
FinishBatch ==
  /\ Running /\ Top.pc = "act" /\ ~ActionsLeft
  /\ results' = Top.saved
  /\ Return(IF Batch.account = NoAcct THEN Top.depRes ELSE Top.out)
  /\ UNCHANGED <<dag, executed, consumed, pending, store, guest, ntx, hist>>

-----------------------------------------------------------------------------
(* The actions of a batch *)

\* The arm succeeded: push Some, go on.
Succeed(s, touches) ==
  /\ store' = s
  /\ stack' = SetTop([Top EXCEPT !.ap = @ + 1, !.out = Append(@, Top.idx),
                                 !.touched = @ \o touches])

\* The arm failed: put back what the batch touched, in the order it was
\* recorded, push None and leave the loop.
RevertTouched(s, touched) ==
  [k \in Slots |->
     LET at == {j \in 1..Len(touched) : touched[j].slot = k}
     IN  IF at = {} THEN s[k] ELSE touched[Max(at)].old]

Revert ==
  /\ store' = RevertTouched(store, Top.touched)
  /\ stack' = SetTop([Top EXCEPT !.ap = Len(Batch.actions) + 1,
                                 !.out = Append(@, Failed)])

Touch(k, s) == [slot |-> k, old |-> s[k]]

ActionOnly == UNCHANGED <<engine, guest, phase, tx, ntx, hist>>

DoTransfer ==
  LET from == <<Batch.creator, "bal">>
      to == <<Batch.account, "bal">>
      debited == Debit(store, Batch.creator, Action.amt)
  IN /\ ActionsLeft /\ Action.op = "Transfer"
     /\ IF store[from] < Action.amt
        THEN Revert
        ELSE Succeed(Credit(debited, Batch.account, Action.amt),
                     <<Touch(from, store), Touch(to, debited)>>)
     /\ ActionOnly

DoStake ==
  LET bal == <<Batch.account, "bal">>
      locked == <<Batch.account, "locked">>
  IN /\ ActionsLeft /\ Action.op = "Stake"
     /\ IF Action.amt > store[bal]
        THEN Revert
        ELSE Succeed([store EXCEPT ![bal] = @ - Action.amt,
                                   ![locked] = @ + Action.amt],
                     <<Touch(bal, store)>>)
     /\ ActionOnly

DoAddKey ==
  /\ ActionsLeft /\ Action.op = "AddKey"
  /\ Succeed([store EXCEPT ![LooseKey] = 1],
             IF store[LooseKey] = 0 THEN <<Touch(LooseKey, store)>> ELSE <<>>)
  /\ ActionOnly

DoDeleteKey ==
  LET key == <<Batch.account, "key">>
  IN /\ ActionsLeft /\ Action.op = "DeleteKey"
     /\ IF store[key] = 0
        THEN Revert
        ELSE Succeed([store EXCEPT ![key] = 0], <<[slot |-> key, old |-> 0]>>)
     /\ ActionOnly

DoDeleteAccount ==
  LET paid == Credit(store, Action.ben, store[<<Batch.account, "bal">>])
  IN /\ ActionsLeft /\ Action.op = "DeleteAccount"
     /\ Succeed(restore_partition(paid, [f \in Fields |-> 0], Batch.account),
                <<>>)
     /\ ActionOnly

-----------------------------------------------------------------------------
(* FnCall: sub_execute *)

AtCall == ActionsLeft /\ Action.op = "FnCall"

\* Credit the callee, debit the sender (saturating).
MoveDeposit(s) ==
  Debit(Credit(s, Batch.account, Action.amt), Batch.creator, Action.amt)

\* No such contract: the receipt fails, nothing else happens.
CallUnknown ==
  /\ AtCall /\ Batch.account \notin Contracts
  /\ stack' = SetTop([Top EXCEPT !.ap = @ + 1, !.out = Append(@, Failed)])
  /\ UNCHANGED <<engine, store, guest, phase, tx, ntx, hist>>

\* Mutant: an ancestor's PENDING_RETURN stays visible in the callee.
CallStart_keeps_return ==
  /\ AtCall /\ Batch.account \in Contracts \ Broken
  /\ store' = MoveDeposit(store)
  /\ guest' = [acct |-> Batch.account, pred |-> Batch.creator,
               dep |-> Action.amt, base |-> Len(dag),
               snap |-> snapshot_partition(store', Batch.account),
               outer |-> pending]
  /\ stack' = SetTop([Top EXCEPT !.pc = "call"])
  /\ UNCHANGED <<engine, phase, tx, ntx, hist>>

\* The deposit moves, the callee's partition is saved, its code starts.  An
\* ancestor's PENDING_RETURN is set aside.
CallStart ==
  /\ AtCall /\ Batch.account \in Contracts \ Broken
  /\ store' = MoveDeposit(store)
  /\ guest' = [acct |-> Batch.account, pred |-> Batch.creator,
               dep |-> Action.amt, base |-> Len(dag),
               snap |-> snapshot_partition(store', Batch.account),
               outer |-> pending]
  /\ pending' = 0
  /\ stack' = SetTop([Top EXCEPT !.pc = "call"])
  /\ UNCHANGED <<dag, executed, outcomes, consumed, results, phase, tx, ntx,
                 hist>>

\* The callee's module does not instantiate: Err unwinds every live call, and
\* none of them is memoized.  execute_tx rolls back if it was resolving the
\* promise the entry returned, and goes on draining in either case.
CallError ==
  /\ AtCall /\ Batch.account \in Broken
  /\ stack' = <<>> /\ pending' = 0
  /\ phase' = IF phase = "root" THEN "drain" ELSE phase
  /\ store' = IF phase = "root" THEN tx.snap ELSE MoveDeposit(store)
  /\ tx' = [tx EXCEPT !.ok = @ /\ phase # "root", !.errors = @ + 1]
  /\ UNCHANGED <<dag, executed, outcomes, consumed, results, guest, ntx, hist>>

InCall == guest # NoGuest /\ phase # "entry"

\* After the callee: its own PENDING_RETURN is resolved next, if it set one,
\* and the ancestor's is back in place.
EndCall(r) ==
  /\ pending' = guest.outer
  /\ guest' = NoGuest
  /\ stack' = SetTop(IF pending = 0
                     THEN [Top EXCEPT !.pc = "act", !.ap = @ + 1,
                                      !.out = Append(@, r)]
                     ELSE [Top EXCEPT !.pc = "child", !.child = pending,
                                      !.local = r])
  /\ hist' = [hist EXCEPT ![Top.idx].ret =
                 IF pending = 0 THEN @ ELSE @ \cup {pending}]
  /\ UNCHANGED <<dag, executed, outcomes, consumed, results, phase, tx, ntx>>

CallReturn ==
  /\ InCall
  /\ EndCall(Top.idx)
  /\ UNCHANGED store

\* The callee traps or has no such method: its partition is restored and the
\* sender gets the deposit back.
CallTrap ==
  /\ InCall
  /\ store' = Credit(restore_partition(store, guest.snap, guest.acct),
                     guest.pred, guest.dep)
  /\ EndCall(Failed)

-----------------------------------------------------------------------------
(* execute_tx, from the end of the start function *)

\* The start function ended, normally or by a trap that is ignored: the snapshot
\* is taken, what start wrote included, and the entry method begins.
EntryBegins ==
  /\ InStart
  /\ tx' = [tx EXCEPT !.began = TRUE, !.snap = store]
  /\ UNCHANGED <<engine, store, stack, guest, phase, ntx, hist>>

\* There is no such method: execute_tx returns Err, and what start wrote and
\* the attached deposit stay.
NoMethod ==
  /\ InStart /\ "missing_method" \in Ops
  /\ guest' = NoGuest
  /\ tx' = [tx EXCEPT !.errors = 1]
  /\ phase' = "idle"
  /\ UNCHANGED <<engine, store, stack, ntx, hist>>

\* The entry ended normally: resolve the promise it returned, if any.
EntryReturn ==
  /\ phase = "entry" /\ tx.began
  /\ guest' = NoGuest
  /\ executed' = executed \cup ({pending} \ {0})
  /\ IF pending = 0 \/ Memoized(pending)
     THEN /\ phase' = "drain" /\ UNCHANGED stack
          /\ tx' = IF pending = 0 THEN [tx EXCEPT !.ok = TRUE]
                   ELSE TxStatus(outcomes[pending])
     ELSE /\ phase' = "root" /\ stack' = <<NewFrame(pending)>>
          /\ tx' = [tx EXCEPT !.ok = TRUE]
  /\ UNCHANGED <<dag, outcomes, consumed, results, pending, store, ntx, hist>>

\* Mutant: the attached deposit stays with the contract.
EntryTrap_keeps_attach ==
  /\ phase = "entry" /\ tx.began
  /\ guest' = NoGuest
  /\ store' = tx.snap
  /\ tx' = [tx EXCEPT !.trapped = TRUE]
  /\ phase' = "idle"
  /\ UNCHANGED <<engine, stack, ntx, hist>>

\* The entry trapped: back to the snapshot, without the attached deposit.
EntryTrap ==
  /\ phase = "entry" /\ tx.began
  /\ guest' = NoGuest
  /\ store' = Debit(tx.snap, tx.contract, tx.attach)
  /\ tx' = [tx EXCEPT !.trapped = TRUE]
  /\ phase' = "idle"
  /\ UNCHANGED <<engine, stack, ntx, hist>>

Unexecuted == (1..Len(dag)) \ executed

\* Mutant: the drain does not mark what it runs.
DrainNext_unmarked ==
  /\ phase = "drain" /\ stack = <<>> /\ Unexecuted # {}
  /\ stack' = IF Memoized(Min(Unexecuted)) THEN <<>>
              ELSE <<NewFrame(Min(Unexecuted))>>
  /\ UNCHANGED <<engine, store, guest, phase, tx, ntx, hist>>

\* The drain runs the lowest batch that has not been executed.
DrainNext ==
  /\ phase = "drain" /\ stack = <<>> /\ Unexecuted # {}
  /\ executed' = executed \cup {Min(Unexecuted)}
  /\ stack' = IF Memoized(Min(Unexecuted)) THEN <<>>
              ELSE <<NewFrame(Min(Unexecuted))>>
  /\ UNCHANGED <<dag, outcomes, consumed, results, pending, store, guest,
                 phase, tx, ntx, hist>>

DrainDone ==
  /\ phase = "drain" /\ stack = <<>> /\ Unexecuted = {}
  /\ phase' = "idle"
  /\ UNCHANGED <<engine, store, stack, guest, tx, ntx, hist>>

-----------------------------------------------------------------------------

EngineStep ==
  \/ ExecutePromise \/ ForcedFail \/ PublishResults \/ FinishBatch
  \/ DoTransfer \/ DoStake \/ DoAddKey \/ DoDeleteKey \/ DoDeleteAccount
  \/ CallUnknown \/ CallStart \/ CallError \/ DrainNext \/ DrainDone

\* The contract's code ends, normally or by a trap.
GuestEnd ==
  \/ CallReturn \/ CallTrap
  \/ EntryBegins \/ NoMethod \/ EntryReturn \/ EntryTrap

Next ==
  \/ execute_tx
  \/ GuestStep
  \/ GuestEnd
  \/ EngineStep

Spec == Init /\ [][Next]_vars

\* One thread runs the transaction to its end: the engine always takes its
\* next step, and the gas limit ends a contract's code.
FairSpec == Spec /\ WF_vars(EngineStep) /\ WF_vars(GuestEnd)

-----------------------------------------------------------------------------
(* Properties *)

Actions == [op : ActionKinds, amt : Nat, ben : Accounts \cup {NoAcct}]

Batches == [deps : Seq(Nat), account : Accounts \cup {NoAcct},
            creator : Accounts, actions : Seq(Actions)]

Frames == [idx : Nat \ {0}, pc : {"deps", "act", "call", "child"}, dp : Nat,
           depRes : Seq(Nat), ap : Nat \ {0}, out : Seq(Nat),
           touched : Seq([slot : Slots, old : Nat]), saved : Seq(Nat),
           child : Nat, local : Nat, start : [Slots -> Nat]]

Guests == [acct : Accounts \cup {NoAcct}, pred : Accounts \cup {NoAcct},
           dep : Nat, base : Nat, snap : [Fields -> Nat], outer : Nat]

\* Every variable keeps its type: in particular balances never go below zero
\* (the code's u128 subtractions are guarded or saturating), the live frames
\* are of batches of the current DAG marked executed, and only those have a
\* memoized result.
TypeOK ==
  /\ dag \in Seq(Batches)
  /\ hist \in Seq([by : Nat, runs : Nat, ret : SUBSET Nat])
  /\ Len(hist) = Len(dag)
  /\ executed \in SUBSET (1..Len(dag))
  /\ DOMAIN outcomes \subseteq executed
  /\ \A i \in DOMAIN outcomes : outcomes[i] \in Seq(Nat)
  /\ consumed \subseteq Nat
  /\ results \in Seq(Nat)
  /\ pending \in Nat
  /\ store \in [Slots -> Nat]
  /\ stack \in Seq(Frames)
  /\ \A k \in 1..Len(stack) : stack[k].idx \in executed
  /\ guest \in Guests
  /\ phase \in {"idle", "entry", "root", "drain", "settle"}
  /\ tx \in [contract : Accounts \cup {NoAcct}, attach : Nat,
             fail : SUBSET Nat, ok : BOOLEAN, trapped : BOOLEAN,
             errors : Nat, began : BOOLEAN, snap : [Slots -> Nat],
             pre : [Slots -> Nat]]
  /\ ntx \in Nat

\* Execute-once: within a transaction the actions of a batch are started at
\* most once, however many parents, returns and drain passes reach it.
ExecuteOnce == \A i \in 1..Len(hist) : hist[i].runs <= 1

\* No batch is resolved while it is being resolved already, through whatever
\* chain of dependencies and returned promises: otherwise execute_promise would
\* recurse without end.
NoReentry ==
  \A j, k \in 1..Len(stack) : stack[j].idx = stack[k].idx => j = k

\* A contract reads as promise results exactly the results of the batches its
\* own batch depends on, in order, whatever ran in between: nested calls of
\* execute_promise publish and restore PROMISE_RESULTS around it.
ResultScoping ==
  guest # NoGuest =>
    results = IF stack = <<>> THEN <<>>
              ELSE FlattenSeq([j \in 1..Len(Batch.deps) |->
                                 outcomes[Batch.deps[j]]])

\* A batch completes only after everything it awaits has: its dependencies and
\* every promise one of its callees returned.
AwaitComplete ==
  \A i \in DOMAIN outcomes :
    (ToSet(dag[i].deps) \cup hist[i].ret) \subseteq DOMAIN outcomes

\* The returned promise a batch waits for was created by that batch's own
\* callee: an ancestor's promise_return never leaks into a callee.
ReturnIsolation ==
  \A k \in 1..Len(stack) :
    stack[k].pc = "child" => hist[stack[k].child].by = stack[k].idx

\* When a transaction ends without an entry trap or an engine error, every
\* batch of its DAG ran once and has a result, except those forced to fail, which
\* have a result and did not run: no result of an earlier transaction stands in
\* for a batch, and no fire-and-forget receipt, however
\* deeply it was spawned, is left behind by the drain.
DrainComplete ==
  phase = "idle" /\ ~tx.trapped /\ tx.errors = 0 =>
    /\ DOMAIN outcomes = 1..Len(dag)
    /\ \A i \in 1..Len(dag) : hist[i].runs = IF i \in tx.fail THEN 0 ELSE 1

\* A trapped entry leaves storage exactly as it was before the transaction, the
\* attached deposit taken back included, except for the contract's own data:
\* that is back to what the start function, which runs before the snapshot,
\* left of it.
EntryTrapRollsBack ==
  [][tx'.trapped /\ ~tx.trapped =>
       store' = [tx.pre EXCEPT ![<<tx.contract, "data">>] =
                   tx.snap[<<tx.contract, "data">>]]]_vars

\* A transaction leaves alone the storage of every account that is neither its
\* contract nor named by a batch, as receiver or as beneficiary: rolling back a
\* trapped call or a failed batch restores the right partition.
Bystanders ==
  Accounts \ ({tx.contract} \cup {dag[i].account : i \in 1..Len(dag)}
     \cup UNION {{act.ben : act \in ToSet(dag[i].actions)} : i \in 1..Len(dag)})

BystandersUntouched ==
  \A a \in Bystanders :
    snapshot_partition(store, a) = snapshot_partition(tx.pre, a)

\* What every account holds, liquid and staked.
Total(s) ==
  MapThenSumSet(LAMBDA a : s[<<a, "bal">>] + s[<<a, "locked">>], Accounts)

\* Tokens are neither created nor lost: during a transaction the total is what
\* it was before, plus the attached deposit unless that was refunded.
Conservation ==
  Total(store) = Total(tx.pre) + (IF tx.trapped THEN 0 ELSE tx.attach)

\* Batch b has an action of kind op.
Holds(b, op) == \E j \in 1..Len(b.actions) : b.actions[j].op = op

\* The DAG moves tokens by transfers between two accounts only: no stake, no
\* deletion, no transfer to oneself, no deposit to a contract, and no batch
\* that both transfers and calls a contract.
Plain ==
  \A i \in 1..Len(dag) :
    /\ ~Holds(dag[i], "Stake") /\ ~Holds(dag[i], "DeleteAccount")
    /\ Holds(dag[i], "Transfer") => dag[i].creator # dag[i].account
    /\ dag[i].account \in Contracts =>
         /\ ~(Holds(dag[i], "Transfer") /\ Holds(dag[i], "FnCall"))
         /\ \A j \in 1..Len(dag[i].actions) :
              dag[i].actions[j].op = "FnCall" => dag[i].actions[j].amt = 0

\* Tokens are conserved as long as the transaction's batches are plain: the
\* debit of a transfer matches its credit, and undo lists, restored partitions,
\* the snapshot and the refund of a trapped entry put back what they took.
PlainConserves == Plain => Conservation

\* A batch that fails on one of its own actions leaves no trace: storage is
\* what it was when its first action began.  The undo list is replayed oldest
\* first, so this fails as soon as a slot was recorded twice (README).
BatchAtomic ==
  [][ActionsLeft /\ Action.op # "FnCall" /\ Last(stack'[Len(stack')].out) = Failed
       => store' = Top.start]_vars

\* The batches as receipts, and those whose actions were started.
ReceiptsOf ==
  [i \in 1..Len(dag) |-> [by |-> hist[i].by, deps |-> ToSet(dag[i].deps),
                          awaits |-> hist[i].ret]]

BegunOf == {i \in 1..Len(dag) : hist[i].runs # 0}

\* The transaction keeps what is promised of its receipts, as long as every
\* module instantiates: each runs once, after what it depends on, is done after
\* what it returned, and none is left when the transaction ends.
Order == INSTANCE ReceiptOrder WITH
  receipts <- ReceiptsOf, begun <- BegunOf, done <- DOMAIN outcomes,
  live <- phase # "idle"

OrderSpec == Order!Spec

\* Every transaction ends: resolving the DAG and draining it terminate.
TxTerminates == phase # "idle" ~> phase = "idle"

=============================================================================
