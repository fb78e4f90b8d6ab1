------------------------- MODULE ForkStorage_proof -------------------------
(***************************************************************************)
(* Fork mode implements OverlayStore for every set of keys and values, as  *)
(* long as no key is a prefix of another, contracts look a key up before   *)
(* they write or remove it, no transaction traps after it changed a        *)
(* tombstone, the RPC's answers hold the values of the keys the chain has, *)
(* and the state file is saved with the tombstones that hide chain keys.   *)
(***************************************************************************)
EXTENDS ForkStorage, TLAPS

\* Every step of fork mode keeps the types of its state.
THEOREM ForkTypeCorrect == Spec => []TypeOK
<1>1. Init => TypeOK
  <2> SUFFICES ASSUME Init PROVE TypeOK
    OBVIOUS
  <2>1. local \in [Keys -> Values] /\ snap \in [Keys -> Values]
    BY DEF Init, Values
  <2>2. file \in [local : [Keys -> Values], absent : SUBSET Keys]
    BY <2>1 DEF Init
  <2> QED
    BY <2>1, <2>2 DEF Init, TypeOK, NoAnswer, Values
<1>2. TypeOK /\ [Next]_fvars => TypeOK'
  <2> SUFFICES ASSUME TypeOK, [Next]_fvars PROVE TypeOK'
    OBVIOUS
  <2> USE DEF TypeOK, Values
  <2>1. CASE Begin
    BY <2>1 DEF Begin, Hidden, Hides
  <2>2. CASE Commit
    BY <2>2 DEF Commit
  <2>3. CASE Trap
    BY <2>3 DEF Trap
  <2>4. CASE Save
    BY <2>4 DEF Save
  <2>4a. CASE SaveLibrary
    BY <2>4a DEF SaveLibrary
  <2>5. CASE Restart
    BY <2>5 DEF Restart, NoAnswer, Hides
  <2>6. ASSUME NEW k \in Keys, NEW v \in Vals, storage_write(k, v)
        PROVE  TypeOK'
    BY <2>6 DEF storage_write, fork_untombstone, Flag
  <2>7. ASSUME NEW k \in Keys, storage_remove(k)
        PROVE  TypeOK'
    BY <2>7 DEF storage_remove, fork_tombstone, Flag
  <2>8. ASSUME NEW k \in Keys, NEW op \in {"get", "has"}, Lookup(k, op)
        PROVE  TypeOK'
    <3>1. local' \in [Keys -> Values] /\ absent' \subseteq Keys
      BY <2>8 DEF Lookup, fork_page_in
    <3>2. answer' \in [op : {"get", "has"}, val : Values \cup {0, 1}]
      BY <2>8, <3>1 DEF Lookup, Flag
    <3> QED
      BY <2>8, <3>1, <3>2 DEF Lookup
  <2>9. ASSUME NEW k \in Keys, NEW op \in {"get", "has"}, LookupFails(k, op)
        PROVE  TypeOK'
    BY <2>9 DEF LookupFails
  <2>9a. ASSUME NEW k \in Keys, NEW op \in {"get", "has"}, LookupGarbled(k, op)
         PROVE  TypeOK'
    BY <2>9a DEF LookupGarbled
  <2>10. CASE UNCHANGED fvars
    BY <2>10 DEF fvars
  <2> QED
    BY <2>1, <2>2, <2>3, <2>4, <2>4a, <2>5, <2>6, <2>7, <2>8, <2>9, <2>9a, <2>10
       DEF Next
<1> QED
  BY <1>1, <1>2, PTL DEF Spec

\* A tombstone on a key the chain does not have changes nothing that a contract
\* can see, so only the hidden chain entries of a tombstone set count.
LEMMA ViewHides ==
  ASSUME NEW l, NEW a
  PROVE  View(l, Hides(a)) = View(l, a)
BY DEF View, Hides

\* Paging in the exact key only makes local what the contract saw already.
LEMMA PageInKeepsView ==
  ASSUME TypeOK, NEW k \in Keys, Extends[k] = {k}, ~Known(k), fork_page_in(k),
         chain' = chain
  PROVE  /\ View(local, absent)' = View(local, absent)
         /\ local'[k] = View(local, absent)[k]
BY DEF TypeOK, Known, fork_page_in, View, Values

\* Every behaviour of fork mode is, through View, a behaviour of one map that
\* starts as the chain's state: writes and removals stick, a trapped
\* transaction undoes its own, and a restart returns to the last save.
THEOREM ForkImplementsOverlay ==
  ASSUME \A k \in Keys : Extends[k] = {k},
         ~BlindWrite, ~BlindRemove, ~TrapAfterTombstone, ~RpcGarbles,
         ~LibrarySave
  PROVE  Spec => OverlaySpec
<1> DEFINE kv == View(local, absent)
<1>1. Init => Overlay!Init
  BY DEF Init, Overlay!Init, NoAnswer, Overlay!NoAnswer, View, Overlay!Values,
         Values
<1>2. TypeOK /\ [Next]_fvars => [Overlay!Next]_(Overlay!ovars)
  <2> SUFFICES ASSUME TypeOK, [Next]_fvars
               PROVE  [Overlay!Next]_(Overlay!ovars)
    OBVIOUS
  <2> USE ForkAssumption
  <2>1. CASE Begin
    <3>1. View(snap, hid)' = kv
      BY <2>1, ViewHides DEF Begin, Hidden, View, Hides
    <3> QED
      BY <2>1, <3>1 DEF Begin, Overlay!Next, Overlay!Begin, View
  <2>2. CASE Commit
    BY <2>2 DEF Commit, Overlay!Next, Overlay!Commit, View
  <2>3. CASE Trap
    <3>1. View(local, absent)' = View(snap, hid)
      BY <2>3 DEF Trap, Hidden, View, Hides
    <3> QED
      BY <2>3, <3>1 DEF Trap, Overlay!Next, Overlay!Abort, View
  <2>4. CASE Save
    BY <2>4 DEF Save, Overlay!Next, Overlay!Save, View
  <2>4a. CASE SaveLibrary
    <3>1. View(file.local, file.absent)' = kv
      BY <2>4a DEF SaveLibrary, Hidden, View, Hides
    <3> QED
      BY <2>4a, <3>1 DEF SaveLibrary, Overlay!Next, Overlay!Save, View
  <2>5. CASE Restart
    <3>1. View(snap, hid)' = View(file.local, file.absent)
      BY <2>5 DEF Restart, View, Hides
    <3> QED
      BY <2>5, <3>1 DEF Restart, Overlay!Next, Overlay!Restart, View, NoAnswer,
                        Overlay!NoAnswer
  <2>6. ASSUME NEW k \in Keys, NEW v \in Vals, storage_write(k, v)
        PROVE  Overlay!Put(k, v)
    <3>1. View(local, absent)' = [kv EXCEPT ![k] = v]
      BY <2>6 DEF storage_write, fork_untombstone, View, TypeOK
    <3>2. (local[k] # None) <=> (kv[k] # None)
      BY <2>6 DEF storage_write, Known, View
    <3> QED
      BY <2>6, <3>1, <3>2 DEF storage_write, Overlay!Put, Flag, Overlay!Flag, View
  <2>7. ASSUME NEW k \in Keys, storage_remove(k)
        PROVE  Overlay!Put(k, None)
    <3>1. View(local, absent)' = [kv EXCEPT ![k] = None]
      BY <2>7 DEF storage_remove, fork_tombstone, Known, View, TypeOK
    <3>2. (local[k] # None) <=> (kv[k] # None)
      BY <2>7 DEF storage_remove, Known, View
    <3> QED
      BY <2>7, <3>1, <3>2 DEF storage_remove, Overlay!Put, Flag, Overlay!Flag,
                              View
  <2>8. ASSUME NEW k \in Keys, NEW op \in {"get", "has"}, Lookup(k, op)
        PROVE  Overlay!Get(k) \/ Overlay!Has(k)
    <3>1. View(local, absent)' = kv /\ local'[k] = kv[k]
      <4>1. CASE Known(k)
        BY <2>8, <4>1 DEF Lookup, Known, View
      <4>2. CASE ~Known(k)
        BY <2>8, <4>2, PageInKeepsView DEF Lookup
      <4> QED
        BY <4>1, <4>2
    <3> QED
      BY <2>8, <3>1 DEF Lookup, Overlay!Get, Overlay!Has, Flag, Overlay!Flag,
                        View
  <2>9. ASSUME NEW k \in Keys, NEW op \in {"get", "has"}, LookupFails(k, op)
        PROVE  Overlay!Miss
    BY <2>9 DEF LookupFails, Overlay!Miss, View
  <2>9a. ASSUME NEW k \in Keys, NEW op \in {"get", "has"}, LookupGarbled(k, op)
         PROVE  Overlay!Get(k) \/ Overlay!Has(k)
    <3>1. View(local, absent)' = kv /\ kv[k] = None
      BY <2>9a DEF LookupGarbled, Known, View
    <3> QED
      BY <2>9a, <3>1 DEF LookupGarbled, Overlay!Get, Overlay!Has, Overlay!Flag,
                         View
  <2>10. CASE UNCHANGED fvars
    BY <2>10 DEF fvars, Overlay!ovars, View
  <2> QED
    BY <2>1, <2>2, <2>3, <2>4, <2>4a, <2>5, <2>6, <2>7, <2>8, <2>9, <2>9a, <2>10
       DEF Next, Overlay!Next, Overlay!Values
<1> QED
  BY <1>1, <1>2, ForkTypeCorrect, PTL DEF Spec, OverlaySpec, Overlay!Spec

=============================================================================
