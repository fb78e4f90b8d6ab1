-------------------------- MODULE DeferredReceipts --------------------------
(***************************************************************************)
(* fire_deferred() and settle() of the MockChain library on top of the     *)
(* promise engine: a deferred transaction commits its entry and leaves its *)
(* batches in RECEIPT_QUEUE; settle() later loads the queue as one DAG and *)
(* delivers it.  Any number of plain or deferred transactions may run      *)
(* between the two.                                                        *)
(***************************************************************************)
EXTENDS PromiseEngine

CONSTANT MaxDeferred   \* bound: calls of fire_deferred in a behaviour

ASSUME DeferredAssumption == MaxDeferred \in Nat

VARIABLES
  queue,      \* RECEIPT_QUEUE; each batch with its origin, for the properties
  defer,      \* DEFER_RECEIPTS
  ndef,       \* calls of fire_deferred so far
  origin,     \* history: the origins of the batches settle() loaded
  owed,       \* history: origins of all batches ever queued
  delivered   \* history: origins of all batches settle() has finished with

dvars == <<queue, defer, ndef, origin, owed, delivered>>
allvars == <<vars, dvars>>

DInit ==
  /\ Init
  /\ queue = <<>> /\ defer = FALSE /\ ndef = 0
  /\ origin = <<>> /\ owed = {} /\ delivered = {}

Origins(q) == [i \in 1..Len(q) |-> q[i].origin]

-----------------------------------------------------------------------------

\* fire(), or fire_deferred(), which sets the flag first.
Fire(deferred) ==
  /\ deferred => ndef < MaxDeferred
  /\ execute_tx
  /\ defer' = (defer \/ deferred)
  /\ ndef' = IF deferred THEN ndef + 1 ELSE ndef
  /\ origin' = <<>>
  /\ UNCHANGED <<queue, owed, delivered>>

\* Mutant: the queue of an earlier transaction is overwritten.
Enqueue_replaces(q, batches) == batches

\* RECEIPT_QUEUE.extend(batches).
Enqueue(q, batches) == q \o batches

\* The entry of a deferred transaction ended normally: the flag is taken, the
\* whole DAG moves to the queue, and execute_tx returns without draining.
QueueReceipts ==
  /\ phase = "entry" /\ tx.began /\ defer
  /\ LET batches == [i \in 1..Len(dag) |->
                       [batch |-> dag[i],
                        origin |-> [tx |-> ntx, pos |-> i,
                                    deps |-> dag[i].deps]]]
     IN /\ queue' = Enqueue(queue, batches)
        /\ owed' = owed \cup ToSet(Origins(batches))
  /\ defer' = FALSE
  /\ dag' = <<>> /\ hist' = <<>> /\ pending' = 0
  /\ guest' = NoGuest
  /\ tx' = [tx EXCEPT !.ok = TRUE]
  /\ phase' = "idle"
  /\ UNCHANGED <<executed, outcomes, consumed, results, store, stack, ntx,
                 ndef, origin, delivered>>

\* Where settle_receipts put the d-th batch of the queue: at d, for dag_push
\* appends.
Remap(q) == [j \in 1..Len(q) |-> j]

\* settle_receipts: the queue becomes the DAG, each dependency remapped.
Settle ==
  LET remap == Remap(queue)
      Load(b) == [b EXCEPT !.deps = [k \in 1..Len(b.deps) |-> remap[b.deps[k]]]]
  IN /\ phase = "idle" /\ queue # <<>>
     /\ dag' = [i \in 1..Len(queue) |-> Load(queue[i].batch)]
     /\ hist' = [i \in 1..Len(queue) |-> NewHist]
     /\ executed' = {} /\ consumed' = {} /\ outcomes' = <<>>
     /\ origin' = Origins(queue)
     /\ queue' = <<>>
     /\ phase' = "settle"
     /\ UNCHANGED <<results, pending, store, stack, guest, tx, ntx, defer,
                    ndef, owed, delivered>>

\* Mutant: only batches without dependencies are delivered.
Ready_roots == {i \in Unexecuted : dag[i].deps = <<>>}

\* The first batch whose dependencies have all been executed is next.
Ready == {i \in Unexecuted : ToSet(dag[i].deps) \subseteq executed}

SettleNext ==
  /\ phase = "settle" /\ stack = <<>> /\ Ready # {}
  /\ executed' = executed \cup {Min(Ready)}
  /\ stack' = IF Memoized(Min(Ready)) THEN <<>> ELSE <<NewFrame(Min(Ready))>>
  /\ UNCHANGED <<dag, outcomes, consumed, results, pending, store, guest,
                 phase, tx, ntx, hist, dvars>>

SettleDone ==
  /\ phase = "settle" /\ stack = <<>> /\ Ready = {}
  /\ phase' = "idle"
  /\ delivered' = delivered \cup ToSet(origin)
  /\ UNCHANGED <<engine, store, stack, guest, tx, ntx, hist, queue, defer,
                 ndef, origin, owed>>

\* The flag is looked at only where the entry ended normally.
EntryEnd ==
  \/ QueueReceipts
  \/ ~defer /\ EntryReturn /\ UNCHANGED dvars
  \/ EntryTrap /\ UNCHANGED dvars

DeferredStep == EngineStep /\ UNCHANGED dvars

DNext ==
  \/ \E deferred \in BOOLEAN : Fire(deferred)
  \/ GuestStep /\ UNCHANGED dvars
  \/ (CallReturn \/ CallTrap \/ EntryBegins \/ NoMethod) /\ UNCHANGED dvars
  \/ EntryEnd
  \/ DeferredStep
  \/ Settle \/ SettleNext \/ SettleDone

DSpec == DInit /\ [][DNext]_allvars

-----------------------------------------------------------------------------
(* Properties *)

OriginSet == [tx : Nat, pos : Nat, deps : Seq(Nat)]

\* Type of the queue and of the flag.
DTypeOK ==
  /\ TypeOK
  /\ queue \in Seq([batch : Batches, origin : OriginSet])
  /\ defer \in BOOLEAN /\ ndef \in 0..MaxDeferred
  /\ origin \in Seq(OriginSet)
  /\ owed \subseteq OriginSet /\ delivered \subseteq owed

\* Between settles every receipt of a committed deferred transaction is either
\* still queued or was delivered, and none is both or queued twice, whatever
\* transactions were fired in between (each of which clears the DAG).
NothingLost ==
  phase # "settle" =>
    /\ owed = delivered \cup ToSet(Origins(queue))
    /\ delivered \cap ToSet(Origins(queue)) = {}
    /\ IsInjective(Origins(queue))

\* settle() delivers everything it loaded and everything that delivery
\* spawned: each batch was run once, unless it was forced to fail, and has a
\* result.
SettleComplete ==
  [][phase = "settle" /\ phase' = "idle" =>
       \A i \in 1..Len(dag) :
         /\ i \in DOMAIN outcomes
         /\ hist[i].runs = IF i \in tx.fail THEN 0 ELSE 1]_allvars

\* A delivered batch still depends on the batches it was created to depend on:
\* the ones of its own transaction, at their places in that transaction's DAG.
DepsKept ==
  phase = "settle" =>
    \A i \in 1..Len(origin) : \A k \in 1..Len(dag[i].deps) :
      LET o == origin[dag[i].deps[k]]
      IN  o.tx = origin[i].tx /\ o.pos = origin[i].deps[k]

=============================================================================
