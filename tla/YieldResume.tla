---------------------------- MODULE YieldResume ----------------------------
(***************************************************************************)
(* Yield and resume in near-mock: promise_yield_create, promise_then's     *)
(* join marks, the drain of execute_tx and promise_yield_resume            *)
(* (src/src/bin/near_mock/mod.rs and promises.rs).                         *)
(*                                                                         *)
(* A receipt that opens a yield owns it; a join, a promise_then batch in   *)
(* another account on that receipt or on the yield, waits for the resume.  *)
(* The resume comes later in the transaction or from another one, often of *)
(* another process: the yield, its owner and the joins are kept in the     *)
(* contract state as markers named by DAG index, and indices start again   *)
(* with every transaction.                                                 *)
(*                                                                         *)
(* DAG indices start at 1 here.  Results are not modelled; what runs, and  *)
(* how often, is.                                                          *)
(***************************************************************************)
EXTENDS Integers, Sequences, FiniteSets, FiniteSetsExt, TLC

CONSTANTS
  MaxTxs,      \* transactions
  MaxBatches,  \* batches the entry of a request creates
  Accounts,    \* accounts with a contract
  Overlap,     \* TRUE: requests and resumes come while others are pending
  Reuse,       \* TRUE: a request may run in the process of an earlier one
  Chains,      \* TRUE: an entry may return a promise that has dependencies
  Direct       \* TRUE: a join may be made on a yield, not on its receipt

ASSUME YieldAssumption ==
  /\ MaxTxs \in Nat
  /\ MaxBatches \in Nat
  /\ Overlap \in BOOLEAN
  /\ Reuse \in BOOLEAN
  /\ Chains \in BOOLEAN
  /\ Direct \in BOOLEAN

VARIABLES
  dag,         \* PROMISE_DAG
  executed,    \* EXECUTED_PROMISES
  memo,        \* the indices with an entry in PROMISE_OUTCOMES
  yieldJoins,  \* YIELD_JOINS
  yieldOwner,  \* YIELD_OWNER: yield index -> batch index
  current,     \* CURRENT_BATCH, 0 for None
  store,       \* the markers in the contract state, index -> what it names
  phase,       \* "idle", "request", "resolve" (the entry runs) or "drain"
  frames,      \* the calls in progress inside the drain, innermost last
  tx,          \* transactions begun
  hist,        \* what has happened, with indices made unique
  saved        \* store and hist before the entry ran

threadLocal == <<dag, executed, memo, yieldJoins, yieldOwner, current>>
vars == <<threadLocal, store, phase, frames, tx, hist, saved>>

Without(f, S) == [x \in DOMAIN f \ S |-> f[x]]
With(f, x, v) == [y \in DOMAIN f \cup {x} |-> IF y = x THEN v ELSE f[y]]
Empty == [x \in {} |-> x]

Indices == 1 .. Len(dag)

Init ==
  /\ dag = << >> /\ executed = {} /\ memo = {}
  /\ yieldJoins = {} /\ yieldOwner = Empty /\ current = 0
  /\ store = [yields |-> Empty, owners |-> Empty, joins |-> Empty]
  /\ phase = "idle" /\ frames = << >> /\ tx = 0
  /\ hist = [fired |-> {}, again |-> {}, opened |-> Empty, joins |-> Empty, resumed |-> {}]
  /\ saved = [store |-> store, hist |-> hist]

(* The callbacks of some batches or yields run: sub_execute. *)
Fire(h, ids) ==
  [h EXCEPT !.fired = @ \cup ids, !.again = @ \cup (h.fired \cap ids)]

-----------------------------------------------------------------------------
(* Join marks and owners: promises.rs *)

(* is_yield_join: marked in this process, or in the state. *)
is_yield_join(j) == j \in yieldJoins \/ j \in DOMAIN store.joins

(* What it caches for the indices it was asked about. *)
Cached(asked) == yieldJoins \cup (asked \cap DOMAIN store.joins)

(* deps_own_open_yield: the owners recorded are never removed. *)
deps_own_open_yield(b) ==
  \E y \in DOMAIN yieldOwner : yieldOwner[y] = dag[b].dep

(* yield_joins_persist_take *)
yield_joins_persist_take(j) == [store EXCEPT !.joins = Without(@, {j})]

(* joins_on_batch: marked joins of the DAG on batch o. *)
joins_on_batch(o) ==
  {j \in Indices : (j \in yieldJoins \/ j \in DOMAIN store.joins) /\ dag[j].dep = o}

(* joins_for_owner_batch: those on a yield that o opened. *)
joins_for_owner_batch(o) ==
  {j \in Indices \cap yieldJoins :
     dag[j].dep \in DOMAIN yieldOwner /\ yieldOwner[dag[j].dep] = o}

-----------------------------------------------------------------------------
(* Transactions *)

(* fresh_tx_state, in a new process or in the one that ran the last        *)
(* transaction: joins and owners are not among what it clears.             *)
fresh_tx_state(newProcess) ==
  /\ dag' = << >> /\ executed' = {} /\ memo' = {} /\ current' = 0
  /\ yieldJoins' = IF newProcess THEN {} ELSE yieldJoins
  /\ yieldOwner' = IF newProcess THEN Empty ELSE yieldOwner

Begin(kind, newProcess) ==
  /\ phase = "idle"
  /\ tx < MaxTxs
  /\ fresh_tx_state(newProcess)
  /\ phase' = kind
  /\ tx' = tx + 1
  /\ saved' = [store |-> store, hist |-> hist]
  /\ UNCHANGED <<store, frames, hist>>

BeginRequest ==
  /\ Overlap \/ store.yields = Empty
  /\ \E newProcess \in IF Reuse THEN BOOLEAN ELSE {TRUE} : Begin("request", newProcess)

BeginResolve == \E newProcess \in BOOLEAN : Begin("resolve", newProcess)

Batch(kind, dep, acct) == [kind |-> kind, dep |-> dep, acct |-> acct]
NewId == <<tx, Len(dag) + 1>>

promise_create ==
  /\ phase = "request"
  /\ Len(dag) < MaxBatches
  /\ \E acct \in Accounts : dag' = Append(dag, Batch("call", 0, acct))
  /\ UNCHANGED <<executed, memo, yieldJoins, yieldOwner, current, store, phase,
                 frames, tx, hist, saved>>

(* consume_promise lets an index be used once. *)
Unused(i) == \A b \in Indices : dag[b].dep # i

(* A join across accounts is marked, here and in the state. *)
promise_then ==
  /\ phase = "request"
  /\ Len(dag) < MaxBatches
  /\ \E i \in Indices, acct \in Accounts :
       LET j == Len(dag) + 1
           cross == dag[i].acct # acct
       IN /\ Unused(i)
          /\ Direct \/ ~cross \/ dag[i].kind # "yield"
          /\ dag' = Append(dag, Batch("then", i, acct))
          /\ yieldJoins' = IF cross THEN yieldJoins \cup {j} ELSE yieldJoins
          /\ store' = IF cross THEN [store EXCEPT !.joins = With(@, j, NewId)] ELSE store
          /\ hist' = IF cross THEN [hist EXCEPT !.joins = With(@, NewId, <<tx, i>>)] ELSE hist
  /\ UNCHANGED <<executed, memo, yieldOwner, current, phase, frames, tx, saved>>

\* Mutant: the yield is not attributed to the running receipt.
promise_yield_create_unowned(acct, opener, h) ==
  LET y == Len(dag) + 1
  IN /\ dag' = Append(dag, Batch("yield", 0, acct))
     /\ yieldOwner' = yieldOwner
     /\ store' = [store EXCEPT !.yields = With(@, y, NewId)]
     /\ hist' = [h EXCEPT !.opened = With(@, NewId, <<tx, opener>>)]

(* yield_owner_add attributes the yield to the receipt being executed, if  *)
(* CURRENT_BATCH holds one; opener is the receipt it is, 0 for the entry.  *)
promise_yield_create(acct, opener, h) ==
  LET y == Len(dag) + 1
      owned == current # 0
  IN /\ dag' = Append(dag, Batch("yield", 0, acct))
     /\ yieldOwner' = IF owned THEN With(yieldOwner, y, current) ELSE yieldOwner
     /\ store' = [store EXCEPT !.yields = With(@, y, NewId),
                               !.owners = IF owned THEN With(@, y, current) ELSE @]
     /\ hist' = [h EXCEPT !.opened = With(@, NewId, <<tx, opener>>)]

(* An entry that yields.  Nothing waits for its yield. *)
EntryYields ==
  /\ phase = "request"
  /\ Len(dag) < MaxBatches
  /\ Overlap \/ store.yields = Empty
  /\ \E acct \in Accounts : promise_yield_create(acct, 0, hist)
  /\ UNCHANGED <<executed, memo, yieldJoins, current, phase, frames, tx, saved>>

(* A call in progress.  todo: the joins that a resume has yet to fire, and  *)
(* whether execute_tx takes the marker of what it executes.                *)
Frame(k, b, todo) == [k |-> k, b |-> b, todo |-> todo]
Top == frames[Len(frames)]
Below == SubSeq(frames, 1, Len(frames) - 1)
In(k) == frames # << >> /\ Top.k = k

(* The entry returns without a promise: the drain begins. *)
EntryReturns ==
  /\ phase \in {"request", "resolve"}
  /\ frames = << >>
  /\ phase' = "drain"
  /\ UNCHANGED <<threadLocal, store, frames, tx, hist, saved>>

(* The entry returns promise i, which is executed before the drain.  No    *)
(* join marker is looked at or taken.                                      *)
EntryReturnsPromise ==
  /\ phase = "request"
  /\ \E i \in Indices :
       /\ Unused(i)
       /\ Chains \/ dag[i].dep = 0
       /\ frames' = <<Frame("outer", i, {}), Frame("enter", i, {})>>
  /\ phase' = "drain"
  /\ UNCHANGED <<threadLocal, store, tx, hist, saved>>

(* A trap of the entry restores the state, markers included; the joins and *)
(* owners of the thread stay.                                              *)
EntryTraps ==
  /\ phase \in {"request", "resolve"}
  /\ frames = << >>
  /\ phase' = "idle"
  /\ store' = saved.store
  /\ hist' = saved.hist
  /\ UNCHANGED <<threadLocal, frames, tx, saved>>

-----------------------------------------------------------------------------
(* The drain of execute_tx *)

\* Mutant: a marked join is never taken by the drain.
Drainable_unmarked(i) == i \notin executed /\ ~is_yield_join(i)

Drainable(i) == i \notin executed /\ (is_yield_join(i) => ~deps_own_open_yield(i))

DrainNext ==
  /\ phase = "drain"
  /\ frames = << >>
  /\ \E i \in Indices :
       /\ Drainable(i)
       /\ \A h \in 1 .. i - 1 : ~Drainable(h)
       /\ frames' = <<Frame("outer", i, {i}), Frame("enter", i, {})>>
       /\ yieldJoins' = Cached({h \in 1 .. i : h \notin executed})
  /\ UNCHANGED <<dag, executed, memo, yieldOwner, current, store, phase, tx, hist, saved>>

\* Mutant: the drain leaves the marker of a join it has fired.
DrainTakesMarker_not ==
  /\ In("outer")
  /\ frames' = << >>
  /\ UNCHANGED <<threadLocal, store, phase, tx, hist, saved>>

(* The marker of what the drain ran is consumed; that of a promise the     *)
(* entry returned is not.                                                  *)
DrainTakesMarker ==
  /\ In("outer")
  /\ store' = IF Top.b \in Top.todo THEN yield_joins_persist_take(Top.b) ELSE store
  /\ frames' = << >>
  /\ UNCHANGED <<threadLocal, phase, tx, hist, saved>>

DrainEnds ==
  /\ phase = "drain"
  /\ frames = << >>
  /\ \A i \in Indices : ~Drainable(i)
  /\ yieldJoins' = Cached({i \in Indices : i \notin executed})
  /\ phase' = "idle"
  /\ UNCHANGED <<dag, executed, memo, yieldOwner, current, store, frames, tx, hist, saved>>

-----------------------------------------------------------------------------
(* execute_promise *)

Memoized ==
  /\ In("enter")
  /\ Top.b \in memo
  /\ executed' = executed \cup {Top.b}
  /\ frames' = Below
  /\ UNCHANGED <<dag, memo, yieldJoins, yieldOwner, current, store, phase, tx, hist, saved>>

(* A join on a receipt with a yield is left for the resume.  The guard of  *)
(* CURRENT_BATCH leaves None behind.                                       *)
JoinDeferred ==
  /\ In("enter")
  /\ Top.b \notin memo
  /\ is_yield_join(Top.b) /\ deps_own_open_yield(Top.b)
  /\ memo' = memo \cup {Top.b}
  /\ current' = 0
  /\ yieldJoins' = Cached({Top.b})
  /\ frames' = Below
  /\ UNCHANGED <<dag, executed, yieldOwner, store, phase, tx, hist, saved>>

DepsFirst ==
  /\ In("enter")
  /\ Top.b \notin memo
  /\ ~(is_yield_join(Top.b) /\ deps_own_open_yield(Top.b))
  /\ current' = Top.b
  /\ executed' = executed \cup {Top.b}
  /\ yieldJoins' = Cached({Top.b})
  /\ frames' = Append(Below, Frame("run", Top.b, {}))
               \o IF dag[Top.b].dep = 0 THEN << >> ELSE <<Frame("enter", dag[Top.b].dep, {})>>
  /\ UNCHANGED <<dag, memo, yieldOwner, store, phase, tx, hist, saved>>

Running == In("run") /\ dag[Top.b].kind # "yield"
BatchId == <<tx, Top.b>>
Ended == Append(Below, Frame("end", Top.b, {}))

(* The callback of a yield batch is not run here. *)
YieldInert ==
  /\ In("run")
  /\ dag[Top.b].kind = "yield"
  /\ frames' = Ended
  /\ UNCHANGED <<threadLocal, store, phase, tx, hist, saved>>

(* A call that makes no use of yields. *)
CallReturns ==
  /\ Running
  /\ hist' = Fire(hist, {BatchId})
  /\ frames' = Ended
  /\ UNCHANGED <<threadLocal, store, phase, tx, saved>>

(* A call that opens a yield, and may return it: a returned promise is     *)
(* executed before the batch ends.                                         *)
CallYields ==
  /\ Running
  /\ Overlap \/ store.yields = Empty
  /\ promise_yield_create(dag[Top.b].acct, Top.b, Fire(hist, {BatchId}))
  /\ \E returned \in BOOLEAN :
       frames' = Ended \o IF returned THEN <<Frame("enter", Len(dag) + 1, {})>> ELSE << >>
  /\ UNCHANGED <<executed, memo, yieldJoins, current, phase, tx, saved>>

BatchEnds ==
  /\ In("end")
  /\ memo' = memo \cup {Top.b}
  /\ current' = 0
  /\ frames' = Below
  /\ UNCHANGED <<dag, executed, yieldJoins, yieldOwner, store, phase, tx, hist, saved>>

-----------------------------------------------------------------------------
(* promise_yield_resume *)

YieldInDag(y) == y \in Indices /\ dag[y].kind = "yield"

(* The yield that index y names: of this DAG first, of the state otherwise. *)
Named(y) == IF YieldInDag(y) THEN <<tx, y>> ELSE store.yields[y]

(* yield_owner_of: the thread's owner before the persisted one. *)
OwnerOf(y) ==
  IF y \in DOMAIN yieldOwner THEN yieldOwner[y]
  ELSE IF y \in DOMAIN store.owners THEN store.owners[y] ELSE 0

(* The joins of this DAG that wait for y. *)
JoinsOn(y) ==
  LET o == OwnerOf(y)
  IN {j \in Indices : dag[j].dep = y /\ is_yield_join(j)}
     \cup (IF o = 0 THEN {} ELSE joins_on_batch(o) \cup joins_for_owner_batch(o))

\* Mutant: the handle is not consumed.
promise_yield_resume_kept(y, h, below) ==
  /\ YieldInDag(y) \/ y \in DOMAIN store.yields
  /\ hist' = [Fire(h, {Named(y)}) EXCEPT !.resumed = @ \cup {Named(y)}]
  /\ store' = store
  /\ yieldJoins' = Cached({j \in Indices : dag[j].dep = y})
  /\ frames' = Append(below, Frame("joins", y, JoinsOn(y)))

(* The callback runs, the handle is consumed, and the joins follow.  An    *)
(* index that names no yield has no effect.                                *)
promise_yield_resume(y, h, below) ==
  /\ YieldInDag(y) \/ y \in DOMAIN store.yields
  /\ hist' = [Fire(h, {Named(y)}) EXCEPT !.resumed = @ \cup {Named(y)}]
  /\ store' = [store EXCEPT !.yields = Without(@, {y})]
  /\ yieldJoins' = Cached({j \in Indices : dag[j].dep = y})
  /\ frames' = Append(below, Frame("joins", y, JoinsOn(y)))

EntryResumes ==
  /\ phase = "resolve"
  /\ frames = << >>
  /\ \E y \in DOMAIN store.yields : promise_yield_resume(y, hist, << >>)
  /\ UNCHANGED <<dag, executed, memo, yieldOwner, current, phase, tx, saved>>

(* Without Overlap: y is resumed once and not by a join on it; the joins   *)
(* pending are its own, on receipts that have ended; and no batch depends  *)
(* on them (a deferred join that a dependent has asked for is memoized).   *)
Alone(y) ==
  /\ y \in DOMAIN store.yields
  /\ Top.b \notin DOMAIN store.joins
  /\ memo \cap JoinsOn(y) = {}
  /\ \A j \in DOMAIN store.joins : j \in Indices /\ dag[j].dep \in memo \cap {y, OwnerOf(y)}

(* A call that resumes a yield of its own transaction or of an earlier one. *)
CallResumes ==
  /\ Running
  /\ \E y \in Indices \cup DOMAIN store.yields :
       /\ Overlap \/ Alone(y)
       /\ promise_yield_resume(y, Fire(hist, {BatchId}), Ended)
  /\ UNCHANGED <<dag, executed, memo, yieldOwner, current, phase, tx, saved>>

(* The joins of this DAG are executed in order. *)
JoinFires ==
  /\ In("joins")
  /\ Top.todo # {}
  /\ LET j == Min(Top.todo)
     IN /\ yieldJoins' = yieldJoins \ {j}
        /\ store' = yield_joins_persist_take(j)
        /\ executed' = executed \cup {j}
        /\ frames' = Below \o <<[Top EXCEPT !.todo = @ \ {j}], Frame("enter", j, {})>>
  /\ UNCHANGED <<dag, memo, yieldOwner, current, phase, tx, hist, saved>>

(* Then every join pending in the state, of whatever yield, unless this    *)
(* transaction has executed its index.                                     *)
PendingDelivered ==
  /\ In("joins")
  /\ Top.todo = {}
  /\ LET pending == DOMAIN store.joins
     IN /\ yieldJoins' = yieldJoins \ pending
        /\ store' = [store EXCEPT !.joins = Empty]
        /\ hist' = Fire(hist, {store.joins[j] : j \in pending \ executed})
  /\ frames' = Below
  /\ UNCHANGED <<dag, executed, memo, yieldOwner, current, phase, tx, saved>>

-----------------------------------------------------------------------------
Next ==
  \/ BeginRequest \/ BeginResolve
  \/ promise_create \/ promise_then \/ EntryYields \/ EntryResumes
  \/ EntryReturns \/ EntryReturnsPromise \/ EntryTraps
  \/ DrainNext \/ DrainTakesMarker \/ DrainEnds
  \/ Memoized \/ JoinDeferred \/ DepsFirst
  \/ YieldInert \/ CallReturns \/ CallYields \/ CallResumes \/ BatchEnds
  \/ JoinFires \/ PendingDelivered

Spec == Init /\ [][Next]_vars

AccountSymmetry == Permutations(Accounts)

-----------------------------------------------------------------------------
(* The yields that join j waits for: opened by the receipt it was made on, *)
(* or the one it was made on.                                              *)
YieldsBefore(j) == {y \in DOMAIN hist.opened : hist.joins[j] \in {y, hist.opened[y]}}

(***************************************************************************)
(* A join across accounts on a yield, or on a receipt that opened one,     *)
(* does not run before that yield is resumed, in whatever process.         *)
(***************************************************************************)
JoinWaits ==
  \A j \in DOMAIN hist.joins \cap hist.fired : YieldsBefore(j) \subseteq hist.resumed

(***************************************************************************)
(* No callback runs twice: not from the drain and again from a resume, not *)
(* from the DAG and again from its persisted marker, and not by a resume   *)
(* that is repeated, unless the transaction of the first run was undone.   *)
(***************************************************************************)
FiresOnce == hist.again = {}

(***************************************************************************)
(* Between transactions a join has run if there is no yield it waits for,  *)
(* and if that yield was resumed.                                          *)
(***************************************************************************)
JoinsDelivered ==
  phase = "idle" =>
    \A j \in DOMAIN hist.joins : YieldsBefore(j) \subseteq hist.resumed => j \in hist.fired

(***************************************************************************)
(* Between transactions the state holds a marker for each yield not yet    *)
(* resumed and for each join not yet run, and no other.                    *)
(***************************************************************************)
MarkersExact ==
  phase = "idle" =>
    /\ {store.yields[y] : y \in DOMAIN store.yields} = DOMAIN hist.opened \ hist.resumed
    /\ {store.joins[j] : j \in DOMAIN store.joins} = DOMAIN hist.joins \ hist.fired
=============================================================================
