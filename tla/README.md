# lisp-rlm: TLA+ models of near-mock and of the bytecode pipeline

lisp-rlm compiles a Lisp (and a TypeScript subset) to small WASM contracts;
`near-mock` runs such contracts locally, as a NEAR chain in one process. Two
parts keep state, run for long and fail in the middle, and these modules model
them: near-mock (`src/bin/near_mock/`), with its transactions, the DAG of
receipts they leave, partial rollbacks, deferred delivery, yields resumed by a
later process, storage paged in from a real chain and a server that may crash;
and the bytecode machine (`src/bytecode/`, `src/verifier.rs`), where code is
compiled, optimised, verified and run.

## 1. Inventory

| part | state | operations | interacts with | what makes it correct |
|---|---|---|---|---|
| promise engine (`mod.rs`, `promises.rs`, `hosts.rs`) | the thread-locals PROMISE_DAG, EXECUTED_PROMISES, PROMISE_OUTCOMES, CONSUMED_PROMISES, PROMISE_RESULTS, PENDING_RETURN; `MockState.storage` | `execute_tx`, the `promise_*` host functions, `execute_promise`, `sub_execute` | contract code, which calls the host functions and is called by `sub_execute` | each receipt runs once, after what it awaits, sees its own results, fails alone; plain transfers conserve tokens |
| partitions (`state.rs`) | one map, keys prefixed by account | snapshot, restore | engine | a rollback touches one account |
| deferred receipts (`mod.rs`, `chain.rs`) | RECEIPT_QUEUE, DEFER_RECEIPTS | `fire_deferred`, `settle` | engine: the queue is loaded as a DAG | nothing is lost, dependencies survive |
| fork mode (`mod.rs`, `hosts.rs`) | local storage, FORK_ABSENT, state file | `storage_*`, `fork_page_in`, save, load | archival RPC; `execute_tx` rollback | behaves like one map that starts as the chain's |
| yield and resume (`mod.rs`, `promises.rs`) | YIELD_JOINS, YIELD_OWNER, CURRENT_BATCH; persisted `\x00yield`, `\x00yowner`, `\x00yjoin` markers | `promise_yield_create`, `promise_yield_resume`, the drain | engine's drain, later processes | each callback and join runs once, after the resume it waits for |
| RPC server (`serve.rs`, `chain.rs`) | balances, keys and nonces in storage; event records, `next_height`; the state file | `broadcast_tx_commit`, `neardata_block`, save, restart | engine; clients that retry; a worker that reads the feed | a transaction is applied once, an answered one survives a crash if it was saved, no event is missed |
| bytecode machine (`bytecode/mod.rs`) | pc, stack, slots, saved frames | one per opcode | verifier, compiler | ends, within its stack and slots |
| bytecode verifier (`verifier.rs`) | heights, worklist | passes 1 to 5 | runs before the machine | what it accepts cannot corrupt the stack |
| lambda compiler (`bytecode/mod.rs`) | code so far, slot map, known types, loop stack | `compile_expr`, `peephole_optimize` | verifier, machine | code is accepted and means what the program does |
| scenario runner, CLI (`mod.rs`) | named snapshots | steps | engine | |
| gas, storage staking (`gas.rs`), crypto and other hosts | gas counters | | engine | |
| compiler: parser, desugaring, TypeScript and Solidity front ends, type checker, WASM emitter, WASI and OutLayer runtimes | none between runs | translations | | output equals source semantics |
| contracts library, differ, CLIs | | | | |

A transaction runs on one thread. The hard behaviours are therefore not races
but *re-entrancy* (a receipt's contract adds receipts while the DAG is resolved),
*partial failure* (a callee traps, an action of a batch fails, the engine itself
returns an error), *process-wide cells* saved and restored around nested calls,
state that outlives a transaction or a process (memo, flag, queue, tombstones,
yield markers, files), crashes between execution, save and answer, and, in the
bytecode pipeline, tables in one file that must agree with code in another along
every path.
`PROJECT.json` lists each such hazard at its line.

## 2. Plan

1. `PromiseEngine`, its type and execute-once proofs. *Done.*
2. `DeferredReceipts`, which composes the engine with the queue. *Done.*
3. `ForkStorage` against the abstract `OverlayStore`, with a failing RPC. *Done.*
4. `YieldResume`: yields, owners, joins, delivery by the drain or by a resume in
   a later process. *Done.*
5. `RpcServer`: account semantics, nonces, save, crash, feed. *Done.*
6. `LambdaVM`, `BytecodeVerifier` (which composes the machine with the verifier)
   with its proofs, and `LambdaCompiler` (which composes the compiler with both).
   *Done.*
7. Proofs of the engine's results, drain, rollback, bystanders and tokens, of the
   queue, of the server's safety properties and of yields; `ReceiptOrder`, the
   abstract "each receipt once, in causal order" that PromiseEngine implements,
   and the proof that it does. *Done.*
8. Models still worth having: scenario snapshots and restores, u128 widths and
   storage staking, closures and captured cells of the machine, the timelock
   vault contract.

## 3. Modules

### PromiseEngine

The recursion of `execute_promise` is an explicit `stack`, one frame per live
call of `execute_promise_uncached`; the fields of a frame are that function's
locals (`dp`/`depRes` the loop over dependencies, `ap`/`out`/`touched` the loop
over actions, `saved` the old PROMISE_RESULTS, `child`/`local` a promise the
callee returned and the callee's own result). `guest` is the running contract:
at most one is live, because a returned promise is resolved after the callee has
ended. `phase` is the place in `execute_tx`: running the entry, resolving the
promise it returned (`root`), draining what is left, or idle. A module may export
a function `start`, which runs with the host functions before the entry and
before the snapshot, and whose trap is ignored; until `tx.began` the host calls
are those of `start`, if `Ops` has it (`Calls`), and it may stop at any of them.

| code | actions |
|---|---|
| `execute_tx` to the entry call | `StartTx`, `StartTxError` (module that does not instantiate), `StartTxUnknown`, `EntryBegins` (the snapshot), `NoMethod` |
| host functions | `StorageWrite`, `promise_create`, `promise_then`, `promise_and`, `promise_batch_create`, `promise_batch_then`, `promise_batch_action`, `promise_return` |
| `execute_promise`, memo and recursion | `ExecutePromise`, `Return` (inside the actions that end a batch) |
| `execute_promise_uncached` | `ForcedFail`, `PublishResults`, `FinishBatch`, `DoTransfer`, `DoStake`, `DoAddKey`, `DoDeleteKey`, `DoDeleteAccount` |
| `sub_execute` | `CallUnknown`, `CallStart`, `CallError`, `CallReturn`, `CallTrap` |
| `execute_tx` after the entry | `EntryReturn`, `EntryTrap`, `DrainNext`, `DrainDone` |

Abstractions. Contract code is unknown: any host call in `Ops`, on any handle it
got from its own host calls, may come next, and it may end or trap at any point;
a host call the code refuses (a consumed handle) is a trap. Bytes are dropped: a
result is Failed or a success, tagged with the batch that produced it. Storage
has four slots per account (balance, locked, one for the contract's data, one
access key) and the one unprefixed slot that AddKey writes; 0 is absence. A
combinator has two inputs. `transfer_to_gas_key` is the same as `transfer`;
`add_gas_key` and the global-contract actions only record and are left out.
Balances have no width. Yield joins are left out, so `promise_then` does not
write its `\x00yjoin` marker. `hist` and the fields `start`, `pre` are history
that the properties read.

`ReceiptOrder` is the specification of what all this is for: a receipt is created
by the entry or by one that runs, begins once, after everything it depends on is
done, is done after every promise it returned, and the transaction ends when all
are done (or when its entry trapped). It has no stack, no memo and no drain. The
mapping reads who created a batch and what its callees returned from `hist`
(`ReceiptsOf`), takes the batches whose actions were started as begun
(`BegunOf`), the memo as what is done, and a `phase` other than idle as a
transaction being executed.

### DeferredReceipts

Adds RECEIPT_QUEUE, the DEFER_RECEIPTS flag, `Fire`, `QueueReceipts` (the branch
of `execute_tx` that queues), `Settle`, `SettleNext`, `SettleDone`. All engine
actions are unchanged; `settle` uses them to run the loaded DAG. Each queued
batch carries its origin (transaction, place, dependencies) for the properties.

### ForkStorage, OverlayStore, MCForkStorage

One account's keys. `chain` is its state at the pinned block, `local` its entries
in storage, `absent` FORK_ABSENT, `snap` the snapshot of `execute_tx`, `file` the
state file. `Extends` says which keys have which as a prefix, because a miss
pages in the whole prefix. The switches `BlindWrite`, `BlindRemove`,
`TrapAfterTombstone` and `LibrarySave` allow four behaviours under which the code
departs from `OverlayStore`; with them off and no prefixes the code implements
it. `RpcFails` lets a fetch fail: the contract is then told that the key is
missing, which `OverlayStore` allows as `Miss`, and nothing is remembered.
`RpcGarbles` lets it answer without values, as `rpc_query` does when the answer
has no result (mod.rs:3770): the key is then remembered as absent
(`LookupGarbled`).
`Save` is the replay command, which writes the tombstones with the storage;
`SaveLibrary` is `MockChain::save` alone. A fetch fails as a whole: prefixes of
more than one page (100 keys) are not modelled.

The refinement mapping is `View`: a local entry, else absent if tombstoned, else
the chain's. `undo` maps to the snapshot seen through the tombstones that hid a
chain key when the transaction began (`hid`), because the code has no snapshot of
them.

### YieldResume

A contract may suspend itself (`promise_yield_create`) and be resumed later, by a
receipt of the same transaction, by another transaction, or by another process. A
receipt that opens a yield owns it, and a `promise_then` on that receipt, a join,
must wait for the resume. Everything that outlives the process is kept in storage
as markers named by DAG index: `store.yields`, `store.owners`, `store.joins`.
`yieldJoins`, `yieldOwner` and `current` are the thread-locals of the same names;
`frames` is the recursion of `execute_promise` inside the drain. A request builds
a DAG (`promise_create`, `promise_then`, `EntryYields`), a resolver resumes
(`EntryResumes`, `CallResumes`); then the drain runs what is left (`DrainNext`,
`Memoized`, `JoinDeferred`, `DepsFirst`, `YieldInert`, `CallReturns`,
`CallYields`, `BatchEnds`, `DrainTakesMarker`, `DrainEnds`), and a resume fires
the joins of its own DAG (`JoinFires`) and every persisted one
(`PendingDelivered`). `hist` names batches by transaction and index, which the
code's markers do not.

A request's entry may return a promise that no other batch depends on
(`EntryReturnsPromise`; a handle used by `promise_then` is consumed). It is
executed before the drain, below an `"outer"` frame, and neither its YIELD_JOINS
mark nor its marker is looked at on the way, nor is the marker taken.

The passing run assumes what the code needs: `Overlap = FALSE` (one request
pending at a time, and a receipt resumes only a yield that is alone in the sense
of `Alone`), `Reuse = FALSE` (a request does not run in the process of an
earlier one, whose YIELD_OWNER and YIELD_JOINS are not cleared), `Chains = FALSE`
(a returned promise has no dependencies) and `Direct = FALSE` (a join is made on
the receipt that opens a yield, not on the yield itself). Section 4 says what
breaks without each. Receipts create no batches but yields, delivered callbacks
do no promise operations, and engine errors are left out.

### RpcServer, MCRpcServer

`mem` is the chain in memory and `disk` the state file; `step` is the place in
`rpc_broadcast_tx_commit`: executed, file truncated, file written, answered.
`Refuse` and `Execute` apply `apply_account_semantics`, with its loops over the
transaction's actions (`Acted`) and over the deposits of its calls (`Paid`) and
its error path: what was done before the error stays, and the signer's balance
is written only at the end. The calls follow, up
to the first that fails, each with one of four `Outcomes`; those with a log get
an event record at the next height. `Crash` goes back to the file and loses the
feed; with `TornWrites` it, or a write that fails, may hit the file between
truncation and write. `SaveFails` is the error of `save` that serve.rs:631
ignores: the client is answered all the same. `unsaved` holds those transactions.
`Attach` and `neardata_block` are the worker that reads the feed. The contract's
own effects, queries, webhooks and the byte formats are left out.

### LambdaVM, BytecodeVerifier, MCBytecodeVerifier

`LambdaVM` is `run_compiled_lambda_inner`, one action per group of opcodes with
the same shape: 25 of the opcodes, among them every one that branches, recurs,
calls the lambda itself or returns. Values are integers in a bounded range,
booleans, nil, a string and a function; a global variable and a call out of the
lambda (`LoadGlobal`, `CallOut`) give any of `Replies`. `run_compiled_lambda`
refuses another number of arguments than parameters, so does `Loaded`.
`Arg` and `Drop` keep the machine's tolerance: popping an empty stack yields Nil.

`BytecodeVerifier` puts `verify_bytecode` in front. The passes over single
instructions are predicates; the abstract interpretation of pass 5 takes one step
per visited instruction (`Visit`, `Reject`, `Verdict`). Its worklist is a stack in
the code; here any entry may come next, which includes that order. `Run` is
the machine, entered only when all passes succeeded.

### LambdaCompiler, MCLambdaCompiler

`try_compile_lambda`: `compile_expr` for 19 forms as a recursive operator on
syntax trees, and `peephole_optimize` as a list of rules applied three times with
jump targets remapped. A call of a function of the environment is LoadGlobal and
CallDynamic: `try_capture` puts every name it takes from there in
`forward_captures` (mod.rs:363), so these calls are never inlined (mod.rs:2303,
2321) and inlining is not modelled. The compiled code then goes through the
verifier and the machine, where the callee answers what its body means
(`Environment`); that body, compiled, is among the programs too. `Eval` defines
the language without slots, jumps or a stack; it is the reference for
ResultMatches, and gives a set of meanings, because an operator that may be fused
(`Fusable`: its operands are a variable and a literal, or two variables) reads an
operand that is not an integer as 0. Programs are built in
`MCLambdaCompiler`. A lambda has one parameter, a let or loop one binding.

## 4. Runs

Passing runs (2 workers, each within about two minutes):

| run | instance | shows |
|---|---|---|
| engine_dag | one contract calling itself, 3 batches, 2 actions, one transaction, the first batch perhaps forced to fail, fairness | ExecuteOnce, NoReentry, ResultScoping, AwaitComplete, ReturnIsolation, TxTerminates, OrderSpec over every DAG, including batches that callees add |
| engine_actions | three accounts, one contract broken, every action in batches of up to 2, contracts that write, with deposits and transfers that cannot be afforded | TypeOK, PlainConserves, BystandersUntouched |
| deferred_queue | three transactions, up to two of them deferred, deposits, forced failures, start functions, missing methods, entry traps | DTypeOK, NothingLost, DrainComplete, EntryTrapRollsBack, SettleComplete |
| fork_overlay | two unrelated keys, two values, an RPC that may fail, the other switches off | TypeOK, OverlaySpec |
| bytecode_verify | all code of up to 2 instructions over 23 opcodes and 1 or 2 slots, all of 4 instructions over LoadSlot, JumpIfFalse, Jump and Return | NoUnderflow, HeightsExact, SlotsNeverGrow, OnlyFallsOff, LimitNeverHit, Ends |
| lambda_compile | 3,111 programs, three arguments, with and without the peephole passes | CompiledAccepted, ResultMatches, NeverFallsOff |
| yield_resume | three transactions, two accounts, up to three batches and the yields their calls open, returned promises | JoinWaits, FiresOnce, JoinsDelivered, MarkersExact |
| serve | 19 transactions of two signers, three requests, one crash, saves that fail | TypeOK (no balance below zero), ReplayRefused, AnsweredDurable, FeedComplete, EventSeen |

Bounds. Three batches are the least with a diamond (two callbacks and a
combinator over them need a fourth, but a returned promise and the drain already
reach a batch twice with two), two transactions the least in which state of one
can leak into the next, two deferred transactions the least for which queue
positions and DAG positions differ. Two actions in a batch are the least for
which the undo list matters, three the least for which it matters in which order
it is replayed. Three transactions let a yield be opened, pass
through a transaction that traps, and be resumed; three batches give a receipt, a
join on it and a batch that resumes. Four instructions are the least with two
paths of different height that meet, two the least for every pair of opcodes, a
budget of 6 lets a loop turn and end by the budget. Programs nest two levels deep,
so that every form occurs as an operand, a test, a bound value and a loop body,
and integers up to 3 let sums overflow. Three requests are the least for a
transaction, its retry and one more; one crash falls between any two steps.
`CHECK_DEADLOCK FALSE` is set wherever a behaviour ends because its bound on
transactions or requests is reached, or because a lambda has returned; in
fork_overlay the system never stops.

Violation runs, each a finding of `PROJECT.json` with the sentence of the source
it contradicts:

| run | property | behaviour of the code |
|---|---|---|
| v_deposit | Conservation | a call with a deposit that traps: the callee's partition is saved after the credit, so the deposit is refunded and kept |
| v_peephole | CompiledAccepted | `(+ (and a a) 1)`: LoadSlot, PushI64 and Add are fused across the end of the `and`, so two heights meet and the verifier refuses the program |
| v_yield_overlap | JoinsDelivered | the resuming transaction executed a batch with the pending join's index, so the join is consumed and skipped |
| v_yield_early | JoinWaits | the entry returns a join on a receipt that opens a yield: the join asks about open yields before it resolves that receipt, and runs as soon as the receipt has ended |

They delimit the passing runs: Conservation is claimed while the batches of the
transaction are `Plain`, CompiledAccepted where no literal follows a value that
branches, JoinsDelivered while one request is pending at a time, JoinWaits while
entries return no promise with dependencies and joins are made on receipts.

More disagreements can be reproduced by a small change to a configuration:

- `BatchAtomic`, which `PromiseEngine` defines and no run checks, fails with
  `Ops = {"promise_batch_create", "Transfer"}`, accounts `{"a", "u"}`, `Funds = 2`,
  one batch and `MaxActions = 3`: two transfers and a third that cannot be
  afforded record the sender twice, the undo list is replayed oldest first, and
  the value between the two transfers remains (promises.rs:817; "revert
  everything this batch touched so far").
- What a start function wrote survives a trap of the entry: in deferred_queue
  `store' = tx.pre` in place of the formula of EntryTrapRollsBack is violated
  (mod.rs:649; "entry trapped — full rollback (single tx = atomic)", mod.rs:819).
- `Chains = TRUE` in yield_resume breaks JoinWaits (v_yield_early), FiresOnce and
  MarkersExact: the returned join's marker is not taken, and the resume delivers
  it again. `Direct = TRUE` breaks JoinWaits: the drain asks who owns an open
  yield, and a join on the yield itself names no owner, so it runs when the inert
  yield has been passed (promises.rs:737; "promise_then JOIN batches (deps =
  [yield_idx]) are driven by the resume path instead of the flush drain").
- Conservation fails when one batch transfers tokens to a contract, calls it and
  then fails, if the callee spent some of them in a promise it returned: accounts
  `{"a", "b", "u"}`, contracts `{"a", "b"}`, receivers `{"b", "u"}`, `Ops` with
  FnCall, amounts `{1}`, 2 batches, 3 actions. The undo list puts back the balance
  recorded before the call and overwrites what has moved since (promises.rs:817).
- ExecuteOnce, and OrderSpec with it, fails in engine_dag with a second contract
  in `Broken`: a batch on
  the path of an engine error is not memoized and runs again from the drain
  (promises.rs:675; "First resolution memoizes the result").
- DepsKept fails as an invariant of deferred_queue: with two deferred
  transactions queued, the dependencies of the second are looked up among the
  batches of the first (mod.rs:3312).
- OverlaySpec fails in fork_overlay with `Extends <- Nested`: paging in a prefix
  overwrites local writes and removals of the keys under it (mod.rs:3665).
- The switches of `ForkStorage`: removing or overwriting a chain key that was not
  looked up (hosts.rs:507, 322), a trap after a removal (mod.rs:821) and a save
  without tombstones (chain.rs:332) each break OverlaySpec, and so does `RpcGarbles`:
  an answer without values hides a key of the chain for good (mod.rs:3638, 3679).
- In serve, `acked \subseteq mem.done`, without the unsaved ones, is violated by a
  failed save and a crash (serve.rs:631; "State persists to the state file after
  every committed tx", serve.rs:24).
- AnsweredDurable fails in serve with `TornWrites = TRUE`: `fs::write` truncates
  the file first (chain.rs:335), and since serve starts with `state_create_new` a
  file that cannot be read becomes an empty genesis (chain.rs:246), while
  serve.rs:24 says that state persists after every committed transaction and
  chain.rs:231 that "refusing to boot beats silently starting an empty genesis".

Others are visible in the model and have no property:

- `MoveDeposit` debits the sender of a deposit with `saturating_sub` and does not
  check it, so a deposit larger than its balance creates tokens (promises.rs:497).
- `DoStake`: only the liquid slot is recorded for the undo, so a stake followed
  by a failing action leaves `locked` raised (promises.rs:955).
- `DoAddKey` writes the key without the account prefix, `DoDeleteKey` looks under
  the prefix (promises.rs:981, 994).
- `EndCall` resolves a promise returned by a callee that then trapped, and
  `Receive` lets its result replace Failed (promises.rs:787).
- `ForcedFail` returns no results, which `TxStatus` takes for success
  (promises.rs:714, mod.rs:758).
- `StartTxError` and `NoMethod` keep the attached deposit (mod.rs:641, 665), and a failed final
  receipt rolls nothing back (mod.rs:758), while chain.rs:37 and 402 promise
  both.
- `QueueReceipts` is the only action that clears the flag: after a deferred
  transaction whose entry trapped, the next plain one is deferred (mod.rs:730).
- Yields: `\x00yowner` markers are never removed; a join of the same account as
  its receipt is not marked and runs at once, so the properties are about joins
  across accounts; a resume delivers every persisted
  join, whichever yield it waits for; a second resume in the transaction that
  opened the yield runs the callback again; CURRENT_BATCH is None after a
  dependency was resolved inside a batch, so a yield opened then has no owner; a
  deferred join that a dependent asked for is memoized and then never runs.
- Accounts: an error in a later action leaves the receiver credited and the
  signer not debited; `DeleteAccount` is followed by writing the signer's balance
  again; a transfer to oneself is overwritten; a failed call does not refund the
  signer; `AddKey` of a registered key sets its nonce back to 0, which allows the
  replay that ReplayRefused excludes while the key stays; heights restart at 1000
  after a restart; `rpc_query` reports nonce 1 for every key.
- Machine: the fused instructions read an operand that is not an integer as 0,
  where the plain ones report a type error and `=` says that nil is not 0
  (bytecode/mod.rs:9248; "returns Err on overflow or non-numeric operands", 4743).
  ResultMatches lets operators that may be fused do so, and no other;
  `slot_is_i64` is never cleared; types.rs:86 says that SlotAddImm writes its slot
  back, the machine does not; a `recur` out of a let that shadows a variable
  skips the restore; a loop variable with the name of an earlier one resolves to
  the earlier slot; `validate_recur_tail_expr` accepts an outer recur in the
  initial value of a nested loop.
- Verifier: `stack_effect` gives Dup no pops, so Dup on an empty stack is
  accepted; DictMutSet is listed as pushing nothing, and TracePush and TracePop as
  pushing and popping, unlike the machine; code may end without a terminator,
  which the machine reports as an error.

Fairness. `FairSpec` of the engine assumes weak fairness of its steps and of
the end of a contract's code. One thread executes a transaction to its end, so
the engine always takes its next step; the instrumented gas counter ends every
contract. No fairness is assumed of host calls or of new transactions. With a
bounded DAG the property says that resolving and draining come to an end, not
that contracts stop adding receipts. `FairSpec` of the verifier assumes that the
one thread keeps going; Ends then rests on the worklist and the budget. In the
server, a request that has begun is finished (weak fairness of save and answer,
again one thread) and the worker keeps polling; nothing is assumed of clients or
crashes.

## 5. Proofs

`tlapm` checks the eight proof modules. They use only the named assumptions on
the constants and, where it is said, a hypothesis; bounds are arbitrary.

- **EngineTypeCorrect** (`PromiseEngine_proof`): `Spec => []TypeOK`. The
  strengthening is `TInv`: `ControlInv` ties `phase`, `guest` and `stack`
  together (when a contract runs, what the innermost frame is doing), in a form
  that also holds while `settle` runs the engine's actions; `RefInv`
  says that every index in a batch, frame, handle or pending return is that of a
  batch of the DAG.
- **EngineExecutesOnce, EngineNeverReenters, EngineIsolatesReturns**
  (`EngineResults_proof`), for `Broken = {}`. A batch starts its actions when a
  frame for it passes the dependencies, so running twice means two frames; a
  second frame is entered only when there is no memo, so it would have to be
  entered while the first is live. `StackInv` excludes that: order batches by
  who created them. Dependencies are older siblings (same creator, smaller
  index), a returned promise is a child. Along the stack every frame is thus a
  smaller sibling, or a descendant, of the ones before, and no frame is created
  by a later one. `GuestInv` and `DagInv` carry the facts about handles (a
  contract only refers to batches created in its own run) and `RunInv` links
  `hist[i].runs` to the memo and the stack. The assumption `Broken = {}` is
  needed, as the ExecuteOnce item of the list above shows.
- **EngineAwaits, EngineScopesResults, EngineDrains** (`EngineResults_proof`),
  for `Broken = {}`. `RInv` adds four parts to the invariant above. `ChainInv`:
  each live frame waits for the batch of the frame above it, so what `Return`
  hands down is the result that was asked for. `AwaitInv`: a memoized batch awaits
  only memoized ones, a live one only its child and the dependencies it has not
  come to. `ScopeInv`: a frame's `depRes` are the results of the dependencies it
  has resolved, PROMISE_RESULTS are those of the innermost frame that reached its
  actions, and each such frame keeps in `saved` what was there before; this is
  why a restore after any nesting brings the right results back. `DrainInv`: what
  is executed is memoized or live, what is memoized ran once or was forced to fail.
- **EngineKeepsOrder** (`EngineResults_proof`), for `Broken = {}`: `Spec =>
  OrderSpec`, a step simulation from `RInv`. `dag_push` is Create (a contract
  refers only to batches of its own run, so dependencies have the same creator);
  `PublishResults` is Begin, since every dependency was resolved by then;
  the end of a callee is Await or nothing; the actions that memoize are Finish, or
  Skip for a forced failure; what ends the transaction is End, where `DrainInv`
  says that everything executed is memoized; all else, memo hits and nested
  frames included, is a stutter.
- **EngineRollsBack, EngineSparesBystanders** (`EngineStorage_proof`), with no
  hypothesis. `SnapInv` says that while `start` runs the storage, and while the
  entry runs the snapshot, is the storage before the transaction plus the deposit
  plus what `start` wrote to the contract's data; `DebitUndoes` that the refund
  undoes that deposit. For the second, `BInv` says of every bystander
  that storage and snapshot agree on it with the storage before the transaction,
  that it is not the running contract or its caller, that no batch was created by
  it and no undo record is of one of its slots: neither a call nor the rollback of
  a failed batch or a trap then writes anything of it.
- **EngineConserves, PaymentsConserve** (`EngineStorage_proof`), for finitely many
  accounts. The first is about `PlainConserves`, tokens as long as the batches that
  contracts build are `Plain`: no stake, no deletion, no transfer to oneself, no deposit to a
  contract, and no batch that both transfers and calls a contract. Each clause is
  needed: v_deposit breaks without the deposit clause, the Conservation item of
  the list above without the last; a batch that stakes and then fails puts the liquid balance
  back and not the locked one, `DeleteAccount` drops what is staked, and a transfer
  to oneself is undone to the value after the debit. The second theorem
  shows that contracts which pay accounts without code build only plain batches
  (`MadeByHosts`), with no condition on the batches left. The
  lemmas on sums say how a total over the accounts changes when one or two
  balances do, for every finite set. `Undoes` is the part of the invariant that
  the undo list needs: while a batch acts, undoing it would leave the total as it
  is; `Keyed` says that a frame which is not the innermost has touched no balance,
  so nothing that happens above it can make its undo list stale. `CallSound` says
  the same of the partition that a trapping callee restores, `MoneyInv` of the
  snapshot of the entry, which holds the attached deposit.
- **DeferredTypeCorrect, DeferredLosesNothing, DeferredRollsBack**
  (`DeferredReceipts_proof`), with no hypothesis, and **DeferredSettles,
  DeferredDrains, DeferredKeepsEngine**, for `Broken = {}`. `OwedInv` follows an
  origin from the queue through the loaded DAG to `delivered`; an origin names a
  transaction that has run, so what a new transaction queues is new. `OlderInv`
  says that a queued batch depends only on batches before it in the queue: even
  where the dependencies of a second deferred transaction point into the first
  one's (DepsKept, above), they point to older batches, so the loaded DAG
  satisfies what `RInv` asks of one and the engine's theorems hold in settle too.
- **ServerTypeCorrect, ServerRefusesReplays, ServerFeedIsComplete**, and for
  `TornWrites = FALSE` **ServerAnswersAreDurable** (`RpcServer_proof`), for all
  transactions and any number of requests, failed saves and crashes. `LoopExists` and
  `LoopKeeps` are induction for a loop of the code, as a least counterexample:
  what every round keeps, the loop keeps. `NonceInv` is kept by each action
  and each call: the uses of a key since it was registered have nonces up to the
  stored one, so a transaction that passes the check is new. Memory and file both
  satisfy it, and so does the empty chain a torn file becomes: replays are refused
  even then, while durability is lost. `DurableInv` says at which step the file
  already holds what will be answered, or the save has failed, `FeedInv` that no event lies above
  `height` and the worker asks for at most the height after it.
- **YieldInvariant**, and from it **JoinsWait, NothingTwice, NoJoinLost,
  MarkersAreExact** (`YieldResume_proof`), for `Overlap`, `Reuse`, `Chains` and
  `Direct` FALSE, any accounts and any number of transactions and batches. The
  four properties speak of the ledger of what was opened, resumed and fired
  (`Ledger`, where no join is on a yield) and of the state between transactions (`IdleInv`). To keep them
  through a request, the invariant says how the ledger, the cells of the process
  and the markers are tied while a returned promise or the drain is anywhere in its
  recursion: whose batches the marks are (`IdInv`, `OwnerInv`), which markers there are (`MarkInv`), that a join which has
  not run has its marker or is being fired (`FiredInv`), which batches are memoized
  (`MemoInv`), how frames nest (`ShapeInv`), why each of them was entered and that
  CURRENT_BATCH is None inside a batch only while a yield is open (`RunInv`), and
  that once a resume fires joins every pending join is ready and its yields are
  resumed (`TodoInv`). The hypotheses are what the code needs: markers are named by
  DAG index only, so v_yield_overlap loses a join without the first; YIELD_OWNER and
  YIELD_JOINS outlive the request without the second; v_yield_early and the
  `Direct` item of section 4 break the last two.
- **ForkTypeCorrect, ForkImplementsOverlay** (`ForkStorage_proof`). The
  refinement is a step simulation under `View`, for any keys and values and with
  an RPC that may fail, when no key is a prefix of another and the five other
  switches are off. `PageInKeepsView` is the heart: paging in a key that is not
  known makes local what was visible already.
- **AcceptedNeverUnderflows, HeightsAreExact, SlotsStayFixed,
  BranchesStayInside, LimitIsNeverHit** (`BytecodeVerifier_proof`), for all code,
  slots, arguments, replies and budgets. During verification the invariant says
  that every visited instruction that is no longer in the worklist has
  successors of the height it leads to (`heights` is then closed under
  `Successors` when the worklist is empty), and that instructions visited and
  queued are counted once each, which bounds the iterations by the length of the
  code. During the run it says that the machine stands at a visited pc with a
  stack of that height, and the same of every suspended frame with the value it
  waits for. The hypothesis `Exact` restricts the code to instructions whose
  entry in `stack_effect` is what the machine does: it excludes Dup, for which the
  list above shows that the two disagree.

Only model-checked: the compiler's CompiledAccepted, ResultMatches and NeverFallsOff (which rest on recursive operators, outside the
prover's reach), and TxTerminates, Ends and EventSeen, since liveness under
fairness is outside it too.

## 6. Not modelled

Listed with reasons in `PROJECT.json`: the scenario runner (argument parsing,
printing and files around the modelled calls); gas amounts, crypto hosts,
registers and views (no effect on the modelled state); the parser, the TypeScript
and Solidity front ends, the type checker, the WASM emitter, the validators and
the WASI bridges (pure translations of large syntax, where a model would
transliterate the code, or I/O); of the bytecode pipeline, floats and U64,
dictionaries, vectors and tagged values, closures, inlining and the trace opcodes
that only it emits, cond, match, letrec, constant folding and the mega-fused loops; the contracts library (the CLMM has its own
Isabelle development in `afp-clmm/`). These translators are most of the
repository's lines, which is why the modelled share of them is small.
