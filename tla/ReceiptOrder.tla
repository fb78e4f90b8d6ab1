---------------------------- MODULE ReceiptOrder ----------------------------
(***************************************************************************)
(* What a transaction promises about the receipts it leaves: each one runs *)
(* once, in causal order, and none is left behind.  A receipt is created   *)
(* by the entry or by a receipt that runs.  It begins when everything it   *)
(* depends on is done, and is done when every promise it returned while it *)
(* ran is done too; one that is forced to fail is done without beginning.  *)
(* How receipts are chosen, nested and remembered is left open.            *)
(***************************************************************************)
EXTENDS Naturals, Sequences

VARIABLES
  receipts,   \* per receipt: who created it (0: the entry), the receipts it
              \* depends on, those it returned
  begun,      \* the receipts whose actions have been started
  done,       \* the receipts that have a result
  live        \* a transaction is being executed

ovars == <<receipts, begun, done, live>>

Receipts == 1..Len(receipts)
Runs(i) == i \in begun \ done

\* Everything receipt i waits for has a result.
Awaited(i) == receipts[i].deps \cup receipts[i].awaits \subseteq done

Init == receipts = <<>> /\ begun = {} /\ done = {} /\ live = FALSE

\* A transaction that cannot start ends at once.
Start ==
  /\ ~live /\ live' \in BOOLEAN
  /\ receipts' = <<>> /\ begun' = {} /\ done' = {}

\* The dependencies of a receipt are receipts of the same creator.
Create ==
  /\ live
  /\ \E b \in {0} \cup {i \in Receipts : Runs(i)} :
       \E D \in SUBSET {j \in Receipts : receipts[j].by = b} :
         receipts' = Append(receipts, [by |-> b, deps |-> D, awaits |-> {}])
  /\ UNCHANGED <<begun, done, live>>

Begin(i) ==
  /\ live /\ i \notin begun \cup done /\ Awaited(i)
  /\ begun' = begun \cup {i}
  /\ UNCHANGED <<receipts, done, live>>

\* A receipt returns a promise it created.
Await(i, r) ==
  /\ live /\ Runs(i) /\ receipts[r].by = i
  /\ receipts' = [receipts EXCEPT ![i].awaits = @ \cup {r}]
  /\ UNCHANGED <<begun, done, live>>

Finish(i) ==
  /\ live /\ Runs(i) /\ Awaited(i)
  /\ done' = done \cup {i}
  /\ UNCHANGED <<receipts, begun, live>>

Skip(i) ==
  /\ live /\ i \notin begun \cup done /\ Awaited(i)
  /\ done' = done \cup {i}
  /\ UNCHANGED <<receipts, begun, live>>

\* Every receipt has its result, or none had begun when the entry trapped or
\* turned out not to exist.
End ==
  /\ live /\ live' = FALSE
  /\ done = Receipts \/ begun \cup done = {}
  /\ UNCHANGED <<receipts, begun, done>>

Next ==
  \/ Start \/ Create \/ End
  \/ \E i \in Receipts : \/ Begin(i) \/ Finish(i) \/ Skip(i)
                         \/ \E r \in Receipts : Await(i, r)

Spec == Init /\ [][Next]_ovars

=============================================================================
