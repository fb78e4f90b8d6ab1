---------------------------- MODULE OverlayStore ----------------------------
(***************************************************************************)
(* What fork mode promises a contract: its storage behaves like one map    *)
(* that starts as the chain's state at the pinned block.  Writes and       *)
(* removals stick, a trapped transaction undoes its own, a restart goes    *)
(* back to what was last saved.  Where the chain may be out of reach, a    *)
(* lookup may answer that a key is missing, and changes nothing.           *)
(***************************************************************************)
CONSTANTS
  Keys, Vals, None,
  Misses   \* the chain may be out of reach

Values == Vals \cup {None}

VARIABLES kv, undo, disk, answer, open

ovars == <<kv, undo, disk, answer, open>>

NoAnswer == [op |-> "none", val |-> None]

Init ==
  /\ kv \in [Keys -> Values]
  /\ undo = kv /\ disk = kv /\ answer = NoAnswer /\ open = FALSE

Begin == ~open /\ open' = TRUE /\ undo' = kv /\ UNCHANGED <<kv, disk, answer>>
Commit == open /\ open' = FALSE /\ UNCHANGED <<kv, undo, disk, answer>>
Abort == open /\ open' = FALSE /\ kv' = undo /\ UNCHANGED <<undo, disk, answer>>

Flag(b) == IF b THEN 1 ELSE 0

\* Writing and removing report whether the key was there.
Put(k, v) ==
  /\ open /\ kv' = [kv EXCEPT ![k] = v]
  /\ answer' = [op |-> IF v = None THEN "remove" ELSE "write",
                val |-> Flag(kv[k] # None)]
  /\ UNCHANGED <<undo, disk, open>>

Get(k) ==
  /\ open /\ answer' = [op |-> "get", val |-> kv[k]]
  /\ UNCHANGED <<kv, undo, disk, open>>

Has(k) ==
  /\ open /\ answer' = [op |-> "has", val |-> Flag(kv[k] # None)]
  /\ UNCHANGED <<kv, undo, disk, open>>

Miss ==
  /\ Misses /\ open
  /\ \/ answer' = [op |-> "get", val |-> None]
     \/ answer' = [op |-> "has", val |-> 0]
  /\ UNCHANGED <<kv, undo, disk, open>>

Save == ~open /\ disk' = kv /\ UNCHANGED <<kv, undo, answer, open>>

Restart ==
  /\ kv' = disk /\ undo' = disk /\ open' = FALSE /\ answer' = NoAnswer
  /\ UNCHANGED disk

Next ==
  \/ Begin \/ Commit \/ Abort \/ Miss \/ Save \/ Restart
  \/ \E k \in Keys : Get(k) \/ Has(k) \/ \E v \in Values : Put(k, v)

Spec == Init /\ [][Next]_ovars

=============================================================================
