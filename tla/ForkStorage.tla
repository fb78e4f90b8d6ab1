----------------------------- MODULE ForkStorage -----------------------------
(***************************************************************************)
(* Fork mode of near-mock: one account's storage as the storage_* host     *)
(* functions (hosts.rs) and the paging code (mod.rs) keep it.  Local       *)
(* entries shadow the chain; a local miss pages in, from the pinned block, *)
(* every key that extends the missed one; FORK_ABSENT holds the keys known *)
(* to be absent (fetched and missing, or removed locally).                 *)
(***************************************************************************)
EXTENDS Naturals

CONSTANTS
  Keys, Vals, None,
  Extends,            \* Extends[k]: the keys that have k as a prefix, k itself too
  BlindWrite,         \* contracts write keys they never looked up
  BlindRemove,        \* contracts remove keys they never looked up
  TrapAfterTombstone, \* transactions trap after they changed the tombstones
  RpcFails,           \* a fetch from the archival RPC may fail
  RpcGarbles,         \* its answer may lack the values of keys the chain has
  LibrarySave         \* MockChain::save is called while chain keys are hidden

ASSUME ForkAssumption ==
  /\ None \notin Vals
  /\ Extends \in [Keys -> SUBSET Keys]
  /\ \A k \in Keys : k \in Extends[k]
  /\ BlindWrite \in BOOLEAN /\ BlindRemove \in BOOLEAN
  /\ TrapAfterTombstone \in BOOLEAN /\ RpcFails \in BOOLEAN
  /\ RpcGarbles \in BOOLEAN /\ LibrarySave \in BOOLEAN

Values == Vals \cup {None}

VARIABLES
  chain,      \* the account's state on the chain at the pinned block
  local,      \* the account's entries in MockState.storage
  absent,     \* FORK_ABSENT
  snap,       \* tx_snapshot of execute_tx
  file,       \* the state file: storage and the tombstones saved in it
  open,       \* a transaction is running
  answer,     \* what the last storage_read or storage_has_key returned
  hid         \* history: the hidden chain keys when the transaction started

fvars == <<chain, local, absent, snap, file, open, answer, hid>>

NoAnswer == [op |-> "none", val |-> None]

Init ==
  /\ chain \in [Keys -> Values]
  /\ local = [k \in Keys |-> None] /\ absent = {}
  /\ snap = local /\ file = [local |-> local, absent |-> {}]
  /\ open = FALSE /\ answer = NoAnswer /\ hid = {}

\* Chain entries that the tombstones a hide.
Hides(a) == {k \in a : chain[k] # None}
Hidden == Hides(absent)

-----------------------------------------------------------------------------

\* execute_tx takes its snapshot of storage, not of FORK_ABSENT.
Begin ==
  /\ ~open /\ open' = TRUE
  /\ snap' = local /\ hid' = Hidden
  /\ UNCHANGED <<chain, local, absent, file, answer>>

Commit ==
  /\ open /\ open' = FALSE
  /\ UNCHANGED <<chain, local, absent, snap, file, answer, hid>>

\* A trap restores the snapshot; FORK_ABSENT stays as it is.
Trap ==
  /\ open /\ open' = FALSE
  /\ TrapAfterTombstone \/ Hidden = hid
  /\ local' = snap
  /\ UNCHANGED <<chain, absent, snap, file, answer, hid>>

\* Mutants: no tombstone; the removed value is recorded instead of the key.
fork_tombstone_not(k) == UNCHANGED absent
fork_tombstone_value(k) == absent' = absent \cup {local[k]}

fork_untombstone(k) == absent' = absent \ {k}
fork_tombstone(k) == absent' = absent \cup {k}

Flag(b) == IF b THEN 1 ELSE 0

\* The key has a local entry or is known to have none.
Known(k) == local[k] # None \/ k \in absent

\* Returns 1 if it replaced a local entry.
storage_write(k, v) ==
  /\ open /\ (BlindWrite \/ Known(k) \/ chain[k] = None)
  /\ local' = [local EXCEPT ![k] = v]
  /\ fork_untombstone(k)
  /\ answer' = [op |-> "write", val |-> Flag(local[k] # None)]
  /\ UNCHANGED <<chain, snap, file, open, hid>>

\* Only a key that is present locally is removed, gets a tombstone, returns 1.
storage_remove(k) ==
  /\ open /\ (BlindRemove \/ Known(k) \/ chain[k] = None)
  /\ IF local[k] # None
     THEN local' = [local EXCEPT ![k] = None] /\ fork_tombstone(k)
     ELSE UNCHANGED <<local, absent>>
  /\ answer' = [op |-> "remove", val |-> Flag(local[k] # None)]
  /\ UNCHANGED <<chain, snap, file, open, hid>>

\* fork_page_in: insert every chain entry under the prefix; if the exact key
\* is not among them, remember it as absent.
fork_page_in(k) ==
  /\ local' = [j \in Keys |-> IF j \in Extends[k] /\ chain[j] # None
                              THEN chain[j] ELSE local[j]]
  /\ absent' = IF chain[k] = None THEN absent \cup {k} ELSE absent

\* storage_read and storage_has_key: a local hit, a known absence, or a fetch.
Lookup(k, op) ==
  LET Answer(v) == [op |-> op, val |-> IF op = "get" THEN v ELSE Flag(v # None)]
  IN /\ open
     /\ \/ /\ Known(k)
           /\ answer' = Answer(local[k])
           /\ UNCHANGED <<local, absent>>
        \/ /\ ~Known(k)
           /\ fork_page_in(k)
           /\ answer' = Answer(local'[k])
     /\ UNCHANGED <<chain, snap, file, open, hid>>

\* The fetch fails: the key is reported missing and nothing is remembered.
LookupFails(k, op) ==
  /\ RpcFails /\ open /\ ~Known(k)
  /\ answer' = [op |-> op, val |-> IF op = "get" THEN None ELSE 0]
  /\ UNCHANGED <<chain, local, absent, snap, file, open, hid>>

\* The RPC answers Ok with a null result or without a list of values: that is an
\* empty page, so nothing is inserted and the key is remembered as absent.
LookupGarbled(k, op) ==
  /\ open /\ ~Known(k) /\ (RpcGarbles \/ chain[k] = None)
  /\ answer' = [op |-> op, val |-> IF op = "get" THEN None ELSE 0]
  /\ absent' = absent \cup {k}
  /\ UNCHANGED <<chain, local, snap, file, open, hid>>

\* The replay command: fork_sync_absents_to_storage, then MockChain::save.  With
\* no tombstones the first does nothing, and none are saved: the load took the
\* saved ones out of storage, and a process saves them once, at its end.
Save ==
  /\ ~open
  /\ file' = [local |-> local, absent |-> absent]
  /\ UNCHANGED <<chain, local, absent, snap, open, answer, hid>>

\* MockChain::save alone writes storage, which holds no tombstones.
SaveLibrary ==
  /\ ~open /\ (LibrarySave \/ Hidden = {})
  /\ file' = [local |-> local, absent |-> {}]
  /\ UNCHANGED <<chain, local, absent, snap, open, answer, hid>>

\* The process ends and a new one loads the state file and its tombstones.
Restart ==
  /\ local' = file.local /\ absent' = file.absent
  /\ snap' = file.local /\ open' = FALSE /\ answer' = NoAnswer /\ hid' = Hides(file.absent)
  /\ UNCHANGED <<chain, file>>

Next ==
  \/ Begin \/ Commit \/ Trap \/ Save \/ SaveLibrary \/ Restart
  \/ \E k \in Keys :
       \/ \E v \in Vals : storage_write(k, v)
       \/ storage_remove(k)
       \/ \E op \in {"get", "has"} :
            Lookup(k, op) \/ LookupFails(k, op) \/ LookupGarbled(k, op)

Spec == Init /\ [][Next]_fvars

-----------------------------------------------------------------------------
(* Properties *)

\* The type of the state.
TypeOK ==
  /\ chain \in [Keys -> Values]
  /\ local \in [Keys -> Values] /\ snap \in [Keys -> Values]
  /\ absent \subseteq Keys /\ hid \subseteq Keys
  /\ file \in [local : [Keys -> Values], absent : SUBSET Keys]
  /\ open \in BOOLEAN
  /\ answer \in [op : {"none", "get", "has", "write", "remove"},
                 val : Values \cup {0, 1}]

\* What a contract would see of storage l with tombstones a.
View(l, a) ==
  [k \in Keys |-> IF l[k] # None THEN l[k]
                  ELSE IF k \in a THEN None ELSE chain[k]]

\* Fork mode behaves like one map that starts as the chain's state.
Overlay == INSTANCE OverlayStore WITH
  Misses <- RpcFails, kv <- View(local, absent),
  undo <- View(snap, hid), disk <- View(file.local, file.absent)

OverlaySpec == Overlay!Spec

=============================================================================
