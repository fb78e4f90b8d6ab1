----------------------------- MODULE RpcServer -----------------------------
(***************************************************************************)
(* near-mock serve with --state (src/src/bin/near_mock/serve.rs): signed   *)
(* transactions against the accounts and keys of the mock chain, the state *)
(* file written after each, and the feed of blocks that a worker reads.    *)
(*                                                                         *)
(* Requests are handled one at a time.  A transaction is executed in       *)
(* memory, saved and answered, whether the save succeeded or not; the      *)
(* server may crash between these, loses its feed, and starts again from   *)
(* the file.  A client whose answer was lost sends the same transaction    *)
(* again.                                                                  *)
(*                                                                         *)
(* What a contract does beyond taking its deposit and logging an event is  *)
(* left out; PromiseEngine models it.  Heights are counted from 0.         *)
(***************************************************************************)
EXTENDS Integers, Sequences, FiniteSetsExt

CONSTANTS
  Accounts,    \* accounts that sign or receive
  Keys,        \* public keys
  Txs,         \* the signed transactions that clients send
  Grant,       \* GENESIS_BAL
  MaxSends,    \* requests to broadcast a transaction
  MaxCrashes,  \* crashes of the server
  TornWrites   \* TRUE: a crash or an error may hit the file while it is written

None == -1   \* no balance stored, key not registered

ASSUME ServerAssumption ==
  /\ Grant \in Nat
  /\ MaxSends \in Nat
  /\ MaxCrashes \in Nat
  /\ TornWrites \in BOOLEAN
  /\ None \notin Accounts

ActionKinds == {"CreateAccount", "Transfer", "AddKey", "DeleteKey", "DeleteAccount"}

\* A transaction: account actions, and the deposits of its function calls.
ASSUME TxsAssumption ==
  /\ Txs # {}
  /\ Txs \subseteq [signer : Accounts, key : Keys, nonce : Nat, receiver : Accounts,
                    acts : Seq([k : ActionKinds, n : Nat, key : Keys, to : Accounts]),
                    deposits : Seq(Nat)]

VARIABLES
  mem,      \* the chain in memory
  disk,     \* the state file: a chain, or Torn while it is half written
  step,     \* "listen", then "save", "write" and "answer" for a transaction
  tx,       \* the transaction being handled
  records,  \* the heights with an EventRecord
  height,   \* next_height
  reader,   \* the worker: its cursor, where it began, the events it has read
  acked,    \* the transactions whose clients were told they are final
  unsaved,  \* history: those whose save failed, and that no later save held
  sends,    \* requests sent
  crashes   \* crashes so far

vars == <<mem, disk, step, tx, records, height, reader, acked, unsaved,
          sends, crashes>>

(* Storage of all accounts; and, for the properties, the uses of each key  *)
(* since it was last registered, the ones used again, and all transactions *)
(* that passed the nonce check.                                            *)
EmptyChain ==
  [bal |-> [a \in Accounts |-> None], exists |-> {},
   nonce |-> [s \in Accounts \X Keys |-> None],
   used |-> {}, again |-> {}, done |-> {}]

Torn == [EmptyChain EXCEPT !.exists = Accounts \cup {None}]
Away == [cursor |-> None, from |-> 0, seen |-> {}]

Init ==
  /\ mem = EmptyChain /\ disk = EmptyChain
  /\ step = "listen" /\ tx = CHOOSE t \in Txs : TRUE
  /\ records = {} /\ height = 0
  /\ reader = Away
  /\ acked = {} /\ unsaved = {} /\ sends = 0 /\ crashes = 0

-----------------------------------------------------------------------------
(* apply_account_semantics: each part maps the chain in memory, the        *)
(* balance of the signer kept aside, and whether an error was returned.    *)

Balance(m, a) == IF m.bal[a] = None THEN 0 ELSE m.bal[a]
Slot(t) == <<t.signer, t.key>>
Use(t) == <<t.signer, t.key, t.nonce>>

(* A signer never seen is granted the genesis balance. *)
Funded(m, t) ==
  IF m.bal[t.signer] = None
  THEN [m EXCEPT !.bal[t.signer] = Grant, !.exists = @ \cup {t.signer}] ELSE m

\* Mutant: the nonce last used is accepted again.
NonceOK_equal(m, t) == m.nonce[Slot(t)] = None \/ t.nonce >= m.nonce[Slot(t)]

(* A key never seen is registered; a known one must move on. *)
NonceOK(m, t) == m.nonce[Slot(t)] = None \/ t.nonce > m.nonce[Slot(t)]

Registered(m, t) ==
  [m EXCEPT !.nonce[Slot(t)] = t.nonce,
            !.used = @ \cup {Use(t)},
            !.again = @ \cup ({Use(t)} \cap m.used),
            !.done = @ \cup {Use(t)}]

(* AddKey and DeleteKey: the key starts anew. *)
ResetKey(m, s, n) ==
  [m EXCEPT !.nonce[s] = n, !.used = {u \in @ : <<u[1], u[2]>> # s}]

Failed(r) == [r EXCEPT !.ok = FALSE]

CreateAccount(r, t) ==
  IF t.receiver \in r.m.exists THEN Failed(r) ELSE [r EXCEPT !.m.exists = @ \cup {t.receiver}]

\* Mutant: the balance in storage is looked at, not the one kept aside.
Transfer_stale(r, t, n) ==
  IF n > Balance(r.m, t.signer) THEN Failed(r)
  ELSE [r EXCEPT !.signer_bal = @ - n,
                 !.m.bal[t.receiver] = Balance(r.m, t.receiver) + n,
                 !.m.exists = @ \cup {t.receiver}]

Transfer(r, t, n) ==
  IF n > r.signer_bal THEN Failed(r)
  ELSE [r EXCEPT !.signer_bal = @ - n,
                 !.m.bal[t.receiver] = Balance(r.m, t.receiver) + n,
                 !.m.exists = @ \cup {t.receiver}]

DeleteAccount(r, t, to) ==
  LET gone == [r.m EXCEPT !.bal[t.signer] = None, !.exists = @ \ {t.signer}]
  IN [r EXCEPT !.m = [gone EXCEPT !.bal[to] = Balance(gone, to) + r.signer_bal]]

AccountAction(r, t, act) ==
  CASE ~r.ok -> r
    [] r.ok /\ act.k = "CreateAccount" -> CreateAccount(r, t)
    [] r.ok /\ act.k = "Transfer" -> Transfer(r, t, act.n)
    [] r.ok /\ act.k = "AddKey" -> [r EXCEPT !.m = ResetKey(@, <<t.signer, act.key>>, 0)]
    [] r.ok /\ act.k = "DeleteKey" -> [r EXCEPT !.m = ResetKey(@, <<t.signer, act.key>>, None)]
    [] r.ok /\ act.k = "DeleteAccount" -> DeleteAccount(r, t, act.to)

AttachedDeposit(r, d) ==
  IF ~r.ok \/ d > r.signer_bal THEN Failed(r) ELSE [r EXCEPT !.signer_bal = @ - d]

(* The actions in order, then the deposits of the calls. *)
Acted(start, t) ==
  LET r[i \in 0 .. Len(t.acts)] ==
        IF i = 0 THEN start ELSE AccountAction(r[i - 1], t, t.acts[i])
  IN r[Len(t.acts)]

Paid(acted, t) ==
  LET r[i \in 0 .. Len(t.deposits)] ==
        IF i = 0 THEN acted ELSE AttachedDeposit(r[i - 1], t.deposits[i])
  IN r[Len(t.deposits)]

(* An error leaves what was done before it; the balance of the signer is   *)
(* written only at the end.                                                *)
apply_account_semantics(m, t) ==
  LET funded == Funded(m, t)
      start == [ok |-> TRUE, m |-> Registered(funded, t), signer_bal |-> funded.bal[t.signer]]
      paid == Paid(Acted(start, t), t)
  IN IF ~NonceOK(funded, t) THEN [ok |-> FALSE, m |-> funded, signer_bal |-> 0]
     ELSE IF paid.ok THEN [paid EXCEPT !.m.bal[t.signer] = paid.signer_bal] ELSE paid

-----------------------------------------------------------------------------
(* rpc_broadcast_tx_commit *)

(* The function calls, in order and up to the first that fails: call i     *)
(* ends as ends[i].  "event" and "quiet" succeed, with and without a log;  *)
(* "missing" has no such method and keeps the deposit it was credited;     *)
(* "trap" is undone.                                                       *)
Outcomes == {"event", "quiet", "missing", "trap"}

Credited(m, a, d) == [m EXCEPT !.bal[a] = Balance(m, a) + d]

Call(c, end, t, d) ==
  IF c.stop THEN c
  ELSE [m |-> IF end = "trap" \/ d = 0 THEN c.m ELSE Credited(c.m, t.receiver, d),
        events |-> IF end = "event" THEN c.events + 1 ELSE c.events,
        stop |-> end \in {"missing", "trap"}]

Calls(m, t, ends) ==
  LET c[i \in 0 .. Len(t.deposits)] ==
        IF i = 0 THEN [m |-> m, events |-> 0, stop |-> FALSE]
        ELSE Call(c[i - 1], ends[i], t, t.deposits[i])
  IN c[Len(t.deposits)]

(* record_events: each call with events gets the next height. *)
record_events(n) ==
  /\ records' = records \cup {height + i : i \in 1 .. n}
  /\ height' = height + n

(* A transaction refused by apply_account_semantics is answered at once,   *)
(* without a save.                                                         *)
Refuse(t) ==
  LET r == apply_account_semantics(mem, t)
  IN /\ step = "listen" /\ sends < MaxSends
     /\ ~r.ok
     /\ mem' = r.m
     /\ sends' = sends + 1
     /\ UNCHANGED <<disk, step, tx, records, height, reader, acked, unsaved,
                    crashes>>

Execute(t) ==
  LET r == apply_account_semantics(mem, t)
  IN /\ step = "listen" /\ sends < MaxSends
     /\ r.ok
     /\ \E ends \in [1 .. Len(t.deposits) -> Outcomes] :
          LET c == Calls(r.m, t, ends)
          IN mem' = c.m /\ record_events(c.events)
     /\ step' = "save"
     /\ tx' = t
     /\ sends' = sends + 1
     /\ UNCHANGED <<disk, reader, acked, unsaved, crashes>>

\* Mutant: the state is not written.
SaveBegins_not ==
  /\ step = "save"
  /\ step' = "answer"
  /\ UNCHANGED <<mem, disk, tx, records, height, reader, acked, unsaved, sends,
                 crashes>>

(* save: fs::write empties the file before it fills it. *)
SaveBegins ==
  /\ step = "save"
  /\ disk' = Torn
  /\ step' = "write"
  /\ UNCHANGED <<mem, tx, records, height, reader, acked, unsaved, sends, crashes>>

SaveEnds ==
  /\ step = "write"
  /\ disk' = mem
  /\ unsaved' = unsaved \ mem.done
  /\ step' = "answer"
  /\ UNCHANGED <<mem, tx, records, height, reader, acked, sends, crashes>>

(* The file cannot be opened, or cannot be filled: save returns an error,  *)
(* which is ignored, and the client is answered all the same.              *)
SaveFails ==
  /\ step \in {"save", "write"}
  /\ step = "write" => TornWrites
  /\ unsaved' = unsaved \cup {Use(tx)}
  /\ step' = "answer"
  /\ UNCHANGED <<mem, disk, tx, records, height, reader, acked, sends, crashes>>

Answer ==
  /\ step = "answer"
  /\ acked' = acked \cup {Use(tx)}
  /\ step' = "listen"
  /\ UNCHANGED <<mem, disk, tx, records, height, reader, unsaved, sends, crashes>>

(* The server stops and starts again: run_serve takes a file it cannot     *)
(* read for a new chain.  The worker is started again with it.             *)
Crash ==
  /\ crashes < MaxCrashes
  /\ step = "write" => TornWrites
  /\ mem' = IF disk = Torn THEN EmptyChain ELSE disk
  /\ step' = "listen"
  /\ records' = {} /\ height' = 0
  /\ reader' = Away
  /\ crashes' = crashes + 1
  /\ UNCHANGED <<disk, tx, acked, unsaved, sends>>

-----------------------------------------------------------------------------
(* The worker *)

(* It starts at the height of block-cursor. *)
Attach ==
  /\ step = "listen"
  /\ reader.cursor = None
  /\ reader' = [cursor |-> height, from |-> height, seen |-> {}]
  /\ UNCHANGED <<mem, disk, step, tx, records, height, acked, unsaved, sends,
                 crashes>>

\* Mutant: one block too far.
known_max_next == IF records = {} THEN 0 ELSE Max(records) + 1

known_max == IF records = {} THEN None ELSE Max(records)

\* Mutant: an empty block below a known one is answered with null.
neardata_block_null ==
  /\ step = "listen"
  /\ reader.cursor \in records
  /\ reader' = [reader EXCEPT !.cursor = @ + 1, !.seen = @ \cup {reader.cursor}]
  /\ UNCHANGED <<mem, disk, step, tx, records, height, acked, unsaved, sends,
                 crashes>>

(* neardata_block: a height with records, or below one, is answered and    *)
(* the worker moves on; above, the answer is null and it asks again.       *)
neardata_block ==
  /\ step = "listen"
  /\ reader.cursor # None
  /\ reader.cursor \in records \/ reader.cursor <= known_max
  /\ reader' = [reader EXCEPT !.cursor = @ + 1, !.seen = @ \cup ({reader.cursor} \cap records)]
  /\ UNCHANGED <<mem, disk, step, tx, records, height, acked, unsaved, sends,
                 crashes>>

-----------------------------------------------------------------------------
Server == SaveBegins \/ SaveEnds \/ SaveFails \/ Answer
Worker == Attach \/ neardata_block

Next ==
  \/ \E t \in Txs : Refuse(t) \/ Execute(t)
  \/ Server
  \/ Crash
  \/ Worker

Spec == Init /\ [][Next]_vars

(* The server finishes what it has begun; the worker keeps asking. *)
FairSpec == Spec /\ WF_vars(Server) /\ WF_vars(Worker)

-----------------------------------------------------------------------------
Uses == Accounts \X Keys \X Nat

Chains == [bal : [Accounts -> Nat \cup {None}], exists : SUBSET Accounts,
           nonce : [Accounts \X Keys -> Nat \cup {None}],
           used : SUBSET Uses, again : SUBSET Uses, done : SUBSET Uses]

(***************************************************************************)
(* Every variable keeps its type: in particular no sequence of transfers,  *)
(* deletions and attached deposits takes a balance below zero, although    *)
(* the signer's is kept aside and written back only at the end.            *)
(***************************************************************************)
TypeOK ==
  /\ mem \in Chains /\ disk \in Chains \cup {Torn}
  /\ step \in {"listen", "save", "write", "answer"} /\ tx \in Txs
  /\ records \subseteq Nat /\ height \in Nat
  /\ reader \in [cursor : Nat \cup {None}, from : Nat, seen : SUBSET Nat]
  /\ acked \subseteq Uses /\ unsaved \subseteq Uses /\ sends \in Nat /\ crashes \in Nat

(***************************************************************************)
(* A signed transaction takes effect at most once while its key stays      *)
(* registered: a client that sends it again, before or after a crash, is   *)
(* refused by the nonce or runs on a state without its effects.            *)
(***************************************************************************)
ReplayRefused == mem.again = {}

(***************************************************************************)
(* What a client was told is final is in the chain from then on and        *)
(* survives every crash, once its own save or a later one has succeeded;   *)
(* only a transaction whose save failed, which nobody is told, can go.     *)
(***************************************************************************)
AnsweredDurable == acked \subseteq mem.done \cup unsaved

(***************************************************************************)
(* The worker has read every event of the blocks it has passed: no event   *)
(* is added at a height that was already answered as empty.                *)
(***************************************************************************)
FeedComplete ==
  {h \in records : reader.from <= h /\ h < reader.cursor} \subseteq reader.seen

(***************************************************************************)
(* Every event recorded while the worker reads reaches it, unless the      *)
(* server crashes first.                                                   *)
(***************************************************************************)
EventSeen ==
  \A h \in 1 .. 2 * MaxSends :
    (h \in records /\ reader.cursor # None /\ reader.from <= h)
      ~> (h \in reader.seen \/ h \notin records)
=============================================================================
